---------------------------- MODULE ScheduleProofs ----------------------------
(***************************************************************************)
(* The exchange of a Schedule, for any number of processes, any plan of    *)
(* links, any sizes and first length, and both orders of unpacking: every  *)
(* message reaches the receive it was sent for and is unpacked once, and   *)
(* nothing is left in MPI.                                                 *)
(*                                                                         *)
(* The processes need not keep step: one may be calls ahead of another,    *)
(* its messages waiting in the channels.  Each pair of Peers follows a     *)
(* script: what the plan has of its link, call after call.  What is in the *)
(* channels of the pair is told by how many of those calls each of its     *)
(* ends has begun (PeerStreams).                                           *)
(***************************************************************************)
EXTENDS Schedule, PeerStreams

-----------------------------------------------------------------------------
(* The scripts.                                                            *)

Sender(e) == IF e[3] = "send" THEN e ELSE PeerOf[e]

\* The link that sends of Peer p belong to, in call k.
Linked(p, k) == {l \in plan[k] : <<l.src, l.dst, "send">> = p}

\* Call k, for the pair whose sender is p; no Peer sends when there is no link.
CallOf(p, k) ==
    IF Linked(p, k) = {} THEN [from |-> <<>>, size |-> 0, limits |-> <<0, 0>>]
    ELSE LET l == CHOOSE x \in Linked(p, k) : TRUE
         IN  [from |-> p, size |-> l.size, limits |-> <<SendLimit(l), RecvLimit(l)>>]

Scripts == [e \in Ends |-> [k \in 1 .. Len(plan) |-> CallOf(Sender(e), k)]]

-----------------------------------------------------------------------------
(* The invariant.                                                          *)

\* Peer e has still to begin its operation in this call.
Unposted(e) == pc[e[1]] = "begin" /\ Contains(order[e[1]], e)

\* The calls in which e has begun its operation, if it has one.
Begun == [e \in Ends |-> IF Unposted(e) THEN epoch[e[1]] - 1 ELSE epoch[e[1]]]

\* e has begun an operation in the call its process is in.
Active(e) == pc[e[1]] # "idle" /\ e \in Coms(e[1]) /\ ~Unposted(e)

(***************************************************************************)
(* The objects.  One whose wait has returned, and that the stage has yet   *)
(* to check, is taken as in its check method already: the stage will do    *)
(* nothing else with it before.                                            *)
(***************************************************************************)
Views ==
    [e \in Ends |->
        IF e \in checking[e[1]] THEN [end[e] EXCEPT !.at = end[e].next] ELSE end[e]]

StreamsInv ==
    /\ PeersOK(Views, chan, sent, Begun, Scripts, Len(plan))
    /\ \A e \in Ends : ~Active(e) => Resting(end[e])

\* Where process r is in communicate().
ControlInv(r) ==
    /\ pc[r] = "idle" => order[r] = <<>> /\ checking[r] = {} /\ queue[r] = <<>>
    /\ pc[r] # "idle" => epoch[r] >= 1
    /\ pc[r] = "begin" => IsInjective(order[r])
    /\ \A e \in ToSet(order[r]) : e \in Coms(r)
    /\ checking[r] # {} => pc[r] = "finalize" /\ order[r] = <<>>
    /\ \A e \in checking[r] :
          e \in Coms(r) /\ end[e].at = "out" /\ end[e].next # "none"

ExchangeInv ==
    /\ TypeOK
    /\ StreamsInv
    /\ \A r \in Ranks : ControlInv(r)

-----------------------------------------------------------------------------
\* Process r has unpacked what came from p.
Got(r, p) == \E i \in 2 .. Len(unpacked[r]) : unpacked[r][i].from = p

\* The Peer of r that receives from p.
From(r, p) == <<r, p, "recv">>

\* What process r has unpacked in this call, in the order it was.
UnpackedOK(r) ==
    LET u == unpacked[r]
    IN  /\ Len(u) >= 1 /\ u[1].from = r
        /\ \A i \in 2 .. Len(u) :
              \E l \in LinksIn(r, epoch[r]) : u[i] = Carried(l, epoch[r])
        /\ \A i, j \in 2 .. Len(u) : u[i].from = u[j].from => i = j
        /\ inOrder => \A i, j \in 2 .. Len(u) : i < j => u[i].from < u[j].from

\* What is received and not unpacked is there to be.
ReadyOK(r) ==
    \A l \in LinksIn(r, epoch[r]) :
        LET e == From(r, l.src)
        IN  /\ Active(e) /\ Resting(end[e]) /\ ~Got(r, l.src) =>
                  /\ Items(end[e].data, end[e].full) = Carried(l, epoch[r]).data
                  /\ ~inOrder => Contains(queue[r], e)
            /\ Got(r, l.src) => Resting(end[e])

\* The queue, when messages are unpacked as they come.
QueueOK(r) ==
    /\ IsInjective(queue[r])
    /\ \A e \in ToSet(queue[r]) :
          /\ e \in Coms(r) /\ ~Unposted(e) /\ Resting(end[e])
          /\ e[3] = "recv" => ~Got(r, e[2])

\* The receives that are left, when they are completed in order.
OrderOK(r) ==
    /\ \A l \in LinksIn(r, epoch[r]) :
          Contains(order[r], From(r, l.src)) <=> ~Got(r, l.src)
    /\ \A e \in ToSet(order[r]) :
          /\ e \in Coms(r) /\ e[3] = "recv"
          /\ \A i \in 2 .. Len(unpacked[r]) : unpacked[r][i].from < e[2]
    /\ \A i, j \in DOMAIN order[r] : i < j => order[r][i][2] < order[r][j][2]

UnpackInv(r) ==
    /\ pc[r] = "begin" => unpacked[r] = <<>>
    /\ pc[r] = "finalize" \/ (pc[r] = "idle" /\ epoch[r] > 0) => UnpackedOK(r)
    /\ pc[r] = "idle" /\ epoch[r] > 0 =>
          \A l \in LinksIn(r, epoch[r]) : Got(r, l.src)
    /\ pc[r] # "idle" => ReadyOK(r)
    /\ pc[r] # "idle" /\ ~inOrder => QueueOK(r)
    /\ pc[r] = "finalize" /\ ~inOrder => order[r] = <<>>
    /\ pc[r] = "finalize" /\ inOrder => OrderOK(r)

ScheduleInv == ExchangeInv /\ \A r \in Ranks : UnpackInv(r)

-----------------------------------------------------------------------------
(* Enumerations.                                                           *)

\* s goes through S, each element once.
Enumerates(s, S) ==
    /\ s \in Seq(S)
    /\ \A i, j \in 1 .. Len(s) : s[i] = s[j] => i = j
    /\ \A x \in S : \E i \in 1 .. Len(s) : s[i] = x

\* How many elements of S are x or less.
Rank(S, x) == Cardinality({y \in S : y <= x})

LEMMA RankGrows ==
    ASSUME NEW S \in SUBSET Nat, IsFiniteSet(S), NEW x \in S
    PROVE  /\ Rank(S, x) \in 1 .. Cardinality(S)
           /\ \A z \in S : x <= z => Rank(S, x) <= Rank(S, z)
           /\ \A z \in S : x < z => Rank(S, x) < Rank(S, z)
<1> DEFINE B(z) == {y \in S : y <= z}
<1>6. \A y \in S : y \in Nat
  OBVIOUS
<1>1. \A z \in S : IsFiniteSet(B(z)) /\ Cardinality(B(z)) \in Nat
                   /\ Cardinality(B(z)) <= Cardinality(S)
  <2> TAKE z \in S
  <2>1. B(z) \in SUBSET S
    OBVIOUS
  <2> HIDE DEF B
  <2> QED
    BY <2>1, FS_Subset, FS_CardinalityType
<1>2. Cardinality(B(x)) # 0
  <2>1. x \in B(x)
    OBVIOUS
  <2> HIDE DEF B
  <2> QED
    BY <1>1, <2>1, FS_EmptySet
<1>3. Rank(S, x) \in 1 .. Cardinality(S)
  <2>1. Cardinality(S) \in Nat
    BY FS_CardinalityType
  <2> HIDE DEF B
  <2>2. Cardinality(B(x)) \in 1 .. Cardinality(S)
    BY <1>1, <1>2, <2>1
  <2> QED
    BY <2>2 DEF B, Rank
<1>4. ASSUME NEW z \in S, x <= z
      PROVE  Rank(S, x) <= Rank(S, z)
  <2>1. B(x) \in SUBSET B(z)
    <3>1. \A y \in S : y <= x => y <= z
      BY <1>4, <1>6
    <3> QED
      BY <3>1
  <2> HIDE DEF B
  <2>2. Cardinality(B(x)) <= Cardinality(B(z))
    BY <1>1, <2>1, FS_Subset
  <2> QED
    BY <2>2 DEF B, Rank
<1>5. ASSUME NEW z \in S, x < z
      PROVE  Rank(S, x) < Rank(S, z)
  <2>1. B(x) \in SUBSET B(z) /\ z \in B(z) /\ z \notin B(x)
    <3>1. \A y \in S : y <= x => y <= z
      BY <1>5, <1>6
    <3>2. z <= z /\ ~(z <= x)
      BY <1>5, <1>6
    <3> QED
      BY <3>1, <3>2
  <2> HIDE DEF B
  <2>2. Cardinality(B(x)) <= Cardinality(B(z)) /\ Cardinality(B(x)) # Cardinality(B(z))
    BY <1>1, <2>1, FS_Subset
  <2>3. Cardinality(B(x)) < Cardinality(B(z))
    BY <1>1, <2>2
  <2> QED
    BY <2>3 DEF B, Rank
<1> QED
  BY <1>3, <1>4, <1>5

\* A finite set of numbers has its elements in ascending order in a sequence.
LEMMA AscendingOrder ==
    ASSUME NEW S \in SUBSET Nat, IsFiniteSet(S)
    PROVE  /\ Enumerates(Ascending(S), S)
           /\ \A i, j \in 1 .. Len(Ascending(S)) :
                 i < j => Ascending(S)[i] < Ascending(S)[j]
<1> DEFINE n == Cardinality(S)
           T == 1 .. n
           rank == [x \in S |-> Rank(S, x)]
           f == [i \in T |-> CHOOSE x \in S : Rank(S, x) = i]
<1>1. n \in Nat /\ IsFiniteSet(T) /\ Cardinality(T) = n
  <2>1. n \in Nat
    BY FS_CardinalityType
  <2> QED
    BY <2>1, FS_Interval
<1> HIDE DEF n
<1>2. rank \in Injection(S, T)
  <2>1. rank \in [S -> T]
    BY RankGrows DEF n
  <2>2. ASSUME NEW a \in S, NEW b \in S, Rank(S, a) = Rank(S, b) PROVE a = b
    <3>1. a \in Nat /\ b \in Nat
      OBVIOUS
    <3>2. Rank(S, a) \in Nat /\ Rank(S, b) \in Nat
      BY RankGrows
    <3>3. ~(a < b) /\ ~(b < a)
      BY <2>2, <3>2, RankGrows
    <3> QED
      BY <3>1, <3>3
  <2> QED
    BY <2>1, <2>2 DEF Injection, IsInjective
<1>3. rank \in Surjection(S, T)
  BY <1>1, <1>2, FS_Injection DEF n
<1>4. \A i \in T : \E x \in S : Rank(S, x) = i
  BY <1>3 DEF Surjection
<1>5. \A i \in T : f[i] \in S /\ Rank(S, f[i]) = i
  BY <1>4
<1>6. f \in [T -> S]
  BY <1>5
<1>7. \A i, j \in T : i < j => f[i] < f[j]
  <2> TAKE i, j \in T
  <2>1. ASSUME i < j, f[j] <= f[i] PROVE FALSE
    <3>1. Rank(S, f[j]) <= Rank(S, f[i])
      BY <2>1, <1>5, RankGrows
    <3> QED
      BY <2>1, <3>1, <1>1, <1>5
  <2>2. f[i] \in Nat /\ f[j] \in Nat
    BY <1>5
  <2> HIDE DEF f
  <2> QED
    BY <2>1, <2>2
<1> HIDE DEF f
<1>8. \A i, j \in T : i # j => f[i] # f[j]
  <2> TAKE i, j \in T
  <2>1. i < j \/ j < i \/ i = j
    BY <1>1
  <2>2. f[i] \in Nat /\ f[j] \in Nat
    BY <1>6
  <2>3. i < j => f[i] < f[j]
    BY <1>7
  <2>4. j < i => f[j] < f[i]
    BY <1>7
  <2> QED
    BY <2>1, <2>2, <2>3, <2>4
<1>9. f \in SetToSeqs(S) /\ \A i, j \in DOMAIN f : i < j => f[i] < f[j]
  BY <1>6, <1>7, <1>8 DEF SetToSeqs, n
<1> DEFINE s == Ascending(S)
<1>10. s \in SetToSeqs(S) /\ \A i, j \in DOMAIN s : i < j => s[i] < s[j]
  BY <1>9 DEF Ascending
<1> HIDE DEF s
<1>11. s \in [T -> S] /\ \A i, j \in T : i # j => s[i] # s[j]
  BY <1>10 DEF SetToSeqs, n
<1>12. s \in Seq(S) /\ Len(s) = n
  BY <1>1, <1>11
<1>13. s \in Surjection(T, S)
  <2>1. s \in Injection(T, S)
    BY <1>11 DEF Injection, IsInjective
  <2> QED
    BY <1>1, <2>1, FS_Injection DEF n
<1>14. Enumerates(s, S)
  BY <1>11, <1>12, <1>13 DEF Enumerates, Surjection
<1> QED
  BY <1>10, <1>11, <1>12, <1>14 DEF s

LEMMA ReverseEnumerates ==
    ASSUME NEW S, NEW s, Enumerates(s, S)
    PROVE  Enumerates(Reverse(s), S)
<1>1. s \in Seq(S) /\ Len(s) \in Nat
  BY DEF Enumerates
<1> DEFINE n == Len(s)
           t == Reverse(s)
<1>2. t \in Seq(S) /\ Len(t) = n /\ \A i \in 1 .. n : t[i] = s[(n - i) + 1]
  BY <1>1 DEF Reverse
<1>3. \A i \in 1 .. n : (n - i) + 1 \in 1 .. n /\ (n - ((n - i) + 1)) + 1 = i
  BY <1>1
<1> HIDE DEF t
<1>4. \A i, j \in 1 .. n : t[i] = t[j] => i = j
  <2> TAKE i, j \in 1 .. n
  <2>1. t[i] = s[(n - i) + 1] /\ t[j] = s[(n - j) + 1]
    BY <1>2
  <2>3. (n - i) + 1 \in 1 .. n /\ (n - j) + 1 \in 1 .. n
    BY <1>3
  <2>2. t[i] = t[j] => (n - i) + 1 = (n - j) + 1
    BY <2>1, <2>3 DEF Enumerates
  <2> QED
    BY <1>1, <2>2
<1>5. \A x \in S : \E i \in 1 .. n : t[i] = x
  <2> TAKE x \in S
  <2>1. PICK i \in 1 .. n : s[i] = x
    BY DEF Enumerates
  <2>2. (n - i) + 1 \in 1 .. n /\ t[(n - i) + 1] = x
    BY <1>2, <1>3, <2>1
  <2> QED
    BY <2>2
<1> QED
  BY <1>2, <1>4, <1>5 DEF Enumerates, t

LEMMA ConcatEnumerates ==
    ASSUME NEW S, NEW s, Enumerates(s, S), NEW T, NEW t, Enumerates(t, T),
           S \cap T = {}
    PROVE  Enumerates(s \o t, S \cup T)
<1> DEFINE m == Len(s)
           n == Len(t)
           u == s \o t
<1>1. s \in Seq(S) /\ t \in Seq(T) /\ m \in Nat /\ n \in Nat
  BY DEF Enumerates
<1>2. /\ u \in Seq(S \cup T) /\ Len(u) = m + n
      /\ \A i \in 1 .. (m + n) : u[i] = IF i <= m THEN s[i] ELSE t[i - m]
  <2>1. s \in Seq(S \cup T) /\ t \in Seq(S \cup T)
    BY <1>1, SeqMonotonic
  <2> QED
    BY <2>1, ConcatProperties
<1> HIDE DEF u
<1>3. \A i \in 1 .. (m + n) :
         \/ i \in 1 .. m /\ u[i] = s[i] /\ u[i] \in S
         \/ i - m \in 1 .. n /\ u[i] = t[i - m] /\ u[i] \in T
  <2> TAKE i \in 1 .. (m + n)
  <2>1. CASE i <= m
    <3>1. i \in 1 .. m
      BY <2>1
    <3> QED
      BY <3>1, <1>1, <1>2, <2>1, ElementOfSeq
  <2>2. CASE ~(i <= m)
    <3>1. i - m \in 1 .. n
      BY <2>2, <1>1
    <3> QED
      BY <3>1, <1>1, <1>2, <2>2, ElementOfSeq
  <2> QED
    BY <2>1, <2>2
<1>4. \A i, j \in 1 .. (m + n) : u[i] = u[j] => i = j
  <2> TAKE i, j \in 1 .. (m + n)
  <2>1. CASE i \in 1 .. m /\ j \in 1 .. m /\ u[i] = s[i] /\ u[j] = s[j]
    BY <2>1 DEF Enumerates
  <2>2. CASE i - m \in 1 .. n /\ j - m \in 1 .. n /\ u[i] = t[i - m] /\ u[j] = t[j - m]
    <3>1. u[i] = u[j] => i - m = j - m
      BY <2>2 DEF Enumerates
    <3> QED
      BY <3>1, <1>1
  <2> QED
    BY <1>3, <2>1, <2>2
<1>5. ASSUME NEW x \in S \cup T PROVE \E i \in 1 .. (m + n) : u[i] = x
  <2>1. CASE x \in S
    <3>1. PICK i \in 1 .. m : s[i] = x
      BY <2>1 DEF Enumerates
    <3>2. i \in 1 .. (m + n) /\ i <= m
      BY <1>1
    <3> QED
      BY <3>1, <3>2, <1>2
  <2>2. CASE x \in T
    <3>1. PICK i \in 1 .. n : t[i] = x
      BY <2>2 DEF Enumerates
    <3>2. m + i \in 1 .. (m + n) /\ ~(m + i <= m) /\ (m + i) - m = i
      BY <1>1
    <3> QED
      BY <3>1, <3>2, <1>2
  <2> QED
    BY <2>1, <2>2
<1> QED
  BY <1>2, <1>4, <1>5 DEF Enumerates, u

LEMMA TowardEnumerates ==
    ASSUME NEW S, NEW s, Enumerates(s, S), NEW r, NEW kind
    PROVE  Enumerates(Toward(r, kind, s), {<<r, x, kind>> : x \in S})
<1> DEFINE t == Toward(r, kind, s)
           T == {<<r, x, kind>> : x \in S}
<1>1. s \in Seq(S) /\ Len(s) \in Nat /\ DOMAIN s = 1 .. Len(s)
      /\ \A i \in 1 .. Len(s) : s[i] \in S
  BY LenProperties, ElementOfSeq DEF Enumerates
<1>2. t = [i \in 1 .. Len(s) |-> <<r, s[i], kind>>]
  BY <1>1 DEF Toward
<1>3. t \in Seq(T) /\ Len(t) = Len(s)
  BY <1>1, <1>2
<1>4. \A i, j \in 1 .. Len(s) : t[i] = t[j] => i = j
  BY <1>2 DEF Enumerates
<1>5. \A y \in T : \E i \in 1 .. Len(s) : t[i] = y
  BY <1>2 DEF Enumerates
<1> QED
  BY <1>3, <1>4, <1>5 DEF Enumerates

-----------------------------------------------------------------------------
(* Ends and links.                                                         *)

LEMMA EndFields ==
    ASSUME NEW e \in Ends
    PROVE  /\ e[1] \in Ranks /\ e[2] \in Ranks /\ e[3] \in {"send", "recv"}
           /\ e = <<e[1], e[2], e[3]>>
           /\ PeerOf[e] \in Ends /\ PeerOf[PeerOf[e]] = e /\ PeerOf[e] # e
           /\ PeerOf[e][1] = e[2] /\ PeerOf[e][2] = e[1]
           /\ PeerOf[e][3] = IF e[3] = "send" THEN "recv" ELSE "send"
           /\ Sender(e) \in Ends /\ Sender(PeerOf[e]) = Sender(e)
           /\ Sender(e)[3] = "send"
           /\ Sender(e) = IF e[3] = "send" THEN <<e[1], e[2], "send">>
                          ELSE <<e[2], e[1], "send">>
<1>1. /\ e[1] \in Ranks /\ e[2] \in Ranks /\ e[3] \in {"send", "recv"}
      /\ e = <<e[1], e[2], e[3]>>
  BY ScheduleAssumption
<1>2. PeerOf[e] \in Ends /\ PeerOf[PeerOf[e]] = e
  BY PeerAssumption
<1>3. PeerOf[e] = <<e[2], e[1], IF e[3] = "send" THEN "recv" ELSE "send">>
  BY ScheduleAssumption
<1>4. /\ PeerOf[e][1] = e[2] /\ PeerOf[e][2] = e[1]
      /\ PeerOf[e][3] = IF e[3] = "send" THEN "recv" ELSE "send"
  BY <1>3
<1>5. PeerOf[e] # e
  BY <1>1, <1>4
<1> QED
  BY <1>1, <1>2, <1>3, <1>4, <1>5 DEF Sender

LEMMA LinkFields ==
    ASSUME plan \in Plans, NEW k \in 1 .. Len(plan), NEW l \in plan[k]
    PROVE  /\ l \in Links /\ l.src \in Ranks /\ l.dst \in Ranks /\ l.src # l.dst
           /\ l.size \in Nat /\ l.known \in BOOLEAN /\ l.excess \in Nat
           /\ <<l.src, l.dst, "send">> \in Ends
           /\ <<l.dst, l.src, "recv">> \in Ends
           /\ PeerOf[<<l.src, l.dst, "send">>] = <<l.dst, l.src, "recv">>
           /\ \A m \in plan[k] : l.src = m.src /\ l.dst = m.dst => l = m
<1>1. plan \in Seq(SUBSET Links) /\ k \in DOMAIN plan
  BY ScheduleAssumption
<1>2. l \in Links
  BY <1>1
<1>3. /\ l.src # l.dst /\ <<l.src, l.dst, "send">> \in Ends
      /\ \A m \in plan[k] : l.src = m.src /\ l.dst = m.dst => l = m
  BY <1>1, ScheduleAssumption
<1>4. PeerOf[<<l.src, l.dst, "send">>] = <<l.dst, l.src, "recv">>
  BY <1>3, ScheduleAssumption
<1>5. PeerOf[<<l.src, l.dst, "send">>] \in Ends
  BY <1>3, PeerAssumption
<1> QED
  BY <1>2, <1>3, <1>4, <1>5 DEF Links

\* The Peers of a process in a call, and the links they are for.
LEMMA ComsFacts ==
    ASSUME plan \in Plans, NEW k \in 1 .. Len(plan), NEW r, NEW e \in ComsOf(r, k)
    PROVE  /\ e \in Ends /\ e[1] = r
           /\ \E l \in plan[k] :
                 /\ <<l.src, l.dst, "send">> = Sender(e)
                 /\ IF e[3] = "send" THEN l.src = r /\ l.dst = e[2]
                    ELSE l.dst = r /\ l.src = e[2]
<1>1. CASE \E l \in LinksIn(r, k) : e = <<r, l.src, "recv">>
  <2>1. PICK l \in plan[k] : l.dst = r /\ e = <<r, l.src, "recv">>
    BY <1>1 DEF LinksIn
  <2>2. e \in Ends /\ e[1] = r /\ e[2] = l.src /\ e[3] = "recv"
    BY <2>1, LinkFields
  <2> QED
    BY <2>1, <2>2, EndFields
<1>2. CASE \E l \in LinksOut(r, k) : e = <<r, l.dst, "send">>
  <2>1. PICK l \in plan[k] : l.src = r /\ e = <<r, l.dst, "send">>
    BY <1>2 DEF LinksOut
  <2>2. e \in Ends /\ e[1] = r /\ e[2] = l.dst /\ e[3] = "send"
    BY <2>1, LinkFields
  <2> QED
    BY <2>1, <2>2, EndFields
<1> QED
  BY <1>1, <1>2 DEF ComsOf

LEMMA LinkedComs ==
    ASSUME plan \in Plans, NEW k \in 1 .. Len(plan), NEW e \in Ends
    PROVE  /\ e \in ComsOf(e[1], k) <=> Linked(Sender(e), k) # {}
           /\ \A l, m \in Linked(Sender(e), k) : l = m
<1>1. \A l \in plan[k] : <<l.src, l.dst, "send">> = Sender(e) <=>
         IF e[3] = "send" THEN l.src = e[1] /\ l.dst = e[2]
         ELSE l.src = e[2] /\ l.dst = e[1]
  BY EndFields
<1>2. \A l, m \in Linked(Sender(e), k) : l = m
  <2> TAKE l, m \in Linked(Sender(e), k)
  <2>1. l \in plan[k] /\ m \in plan[k] /\ l.src = m.src /\ l.dst = m.dst
    BY <1>1 DEF Linked
  <2> QED
    BY <2>1, LinkFields
<1>3. ASSUME e \in ComsOf(e[1], k) PROVE Linked(Sender(e), k) # {}
  BY <1>3, ComsFacts DEF Linked
<1>4. ASSUME NEW l \in Linked(Sender(e), k) PROVE e \in ComsOf(e[1], k)
  <2>1. l \in plan[k] /\ <<l.src, l.dst, "send">> = Sender(e)
    BY DEF Linked
  <2>2. CASE e[3] = "send"
    <3>1. l.src = e[1] /\ e = <<e[1], l.dst, "send">>
      BY <2>1, <2>2, <1>1, EndFields
    <3> QED
      BY <2>1, <3>1 DEF ComsOf, LinksOut
  <2>3. CASE e[3] # "send"
    <3>1. l.dst = e[1] /\ e = <<e[1], l.src, "recv">>
      BY <2>1, <2>3, <1>1, EndFields
    <3> QED
      BY <2>1, <3>1 DEF ComsOf, LinksIn
  <2> QED
    BY <2>2, <2>3
<1> QED
  BY <1>2, <1>3, <1>4

\* beginCommunication() goes through the Peers of the call, each once.
LEMMA PostsEach ==
    ASSUME plan \in Plans, NEW k \in 1 .. Len(plan), NEW r \in Ranks
    PROVE  Enumerates(RecvOrder(r, k) \o SendOrder(r, k), ComsOf(r, k))
<1> DEFINE In == {l.src : l \in LinksIn(r, k)}
           Out == {l.dst : l \in LinksOut(r, k)}
<1>1. /\ In \subseteq Ranks /\ r \notin In
      /\ Out \subseteq Ranks /\ r \notin Out
  BY LinkFields DEF LinksIn, LinksOut
<1>2. Ranks \subseteq Nat /\ IsFiniteSet(Ranks)
  BY ScheduleAssumption
<1> DEFINE Low(S) == {p \in S : p < r}
           High(S) == {p \in S : p > r}
<1>3. ASSUME NEW S \in SUBSET Ranks, r \notin S
      PROVE  /\ Low(S) \in SUBSET Nat /\ IsFiniteSet(Low(S))
             /\ High(S) \in SUBSET Nat /\ IsFiniteSet(High(S))
             /\ Low(S) \cup High(S) = S /\ Low(S) \cap High(S) = {}
  <2>1. Low(S) \in SUBSET Ranks /\ High(S) \in SUBSET Ranks
    OBVIOUS
  <2>2. \A p \in S : (p < r \/ p > r) /\ ~(p < r /\ p > r)
    BY <1>2, <1>3
  <2>3. Low(S) \cup High(S) = S /\ Low(S) \cap High(S) = {}
    BY <2>2
  <2> HIDE DEF Low, High
  <2> QED
    BY <2>1, <2>3, <1>2, FS_Subset
<1> HIDE DEF In, Out, Low, High
<1>4. Enumerates(Descending(Low(In)) \o Descending(High(In)), In)
  <2>1. /\ Enumerates(Descending(Low(In)), Low(In))
        /\ Enumerates(Descending(High(In)), High(In))
    BY <1>1, <1>3, AscendingOrder, ReverseEnumerates DEF Descending
  <2> QED
    BY <2>1, <1>1, <1>3, ConcatEnumerates
<1>5. Enumerates(Ascending(High(Out)) \o Ascending(Low(Out)), Out)
  <2>1. /\ Enumerates(Ascending(Low(Out)), Low(Out))
        /\ Enumerates(Ascending(High(Out)), High(Out))
    BY <1>1, <1>3, AscendingOrder
  <2>2. High(Out) \cap Low(Out) = {} /\ High(Out) \cup Low(Out) = Out
    BY <1>1, <1>3
  <2> QED
    BY <2>1, <2>2, ConcatEnumerates
<1>6. Enumerates(RecvOrder(r, k), {<<r, x, "recv">> : x \in In})
  BY <1>4, TowardEnumerates DEF RecvOrder, In, Low, High
<1>7. Enumerates(SendOrder(r, k), {<<r, x, "send">> : x \in Out})
  BY <1>5, TowardEnumerates DEF SendOrder, Out, Low, High
<1>8. {<<r, x, "recv">> : x \in In} \cap {<<r, x, "send">> : x \in Out} = {}
  OBVIOUS
<1>9. {<<r, x, "recv">> : x \in In} \cup {<<r, x, "send">> : x \in Out} = ComsOf(r, k)
  BY DEF In, Out, ComsOf
<1> QED
  BY <1>6, <1>7, <1>8, <1>9, ConcatEnumerates

-----------------------------------------------------------------------------
(* What the scripts have of a call.                                        *)

LEMMA CallFacts ==
    ASSUME plan \in Plans, NEW e \in Ends, NEW k \in 1 .. Len(plan)
    PROVE  /\ Scripts[e][k] = CallOf(Sender(e), k)
           /\ OperationOK(Scripts[e][k])
           /\ \A l \in Linked(Sender(e), k) :
                 Scripts[e][k] = [from |-> Sender(e), size |-> l.size,
                                  limits |-> <<SendLimit(l), RecvLimit(l)>>]
           /\ e \notin ComsOf(e[1], k) =>
                 \A x \in Ends, c \in Chunks : ~Uses(Scripts[e], x, c, k)
<1>1. Scripts[e][k] = CallOf(Sender(e), k)
  BY DEF Scripts
<1>2. CASE Linked(Sender(e), k) = {}
  <2>1. CallOf(Sender(e), k) = [from |-> <<>>, size |-> 0, limits |-> <<0, 0>>]
    BY <1>2 DEF CallOf
  <2>2. OperationOK(CallOf(Sender(e), k))
    BY <2>1 DEF OperationOK
  <2>3. \A x \in Ends : x # <<>>
    BY ScheduleAssumption
  <2>4. \A x \in Ends, c \in Chunks : ~Uses(Scripts[e], x, c, k)
    BY <1>1, <2>1, <2>3 DEF Uses
  <2> QED
    BY <1>1, <1>2, <2>2, <2>4
<1>3. ASSUME NEW l \in Linked(Sender(e), k)
      PROVE  /\ CallOf(Sender(e), k) = [from |-> Sender(e), size |-> l.size,
                                        limits |-> <<SendLimit(l), RecvLimit(l)>>]
             /\ OperationOK(CallOf(Sender(e), k))
             /\ e \in ComsOf(e[1], k)
  <2>1. (CHOOSE x \in Linked(Sender(e), k) : TRUE) = l
    BY LinkedComs
  <2>2. CallOf(Sender(e), k) = [from |-> Sender(e), size |-> l.size,
                                limits |-> <<SendLimit(l), RecvLimit(l)>>]
    BY <2>1 DEF CallOf
  <2>3. l.size \in Nat /\ l.excess \in Nat /\ FirstLength \in Nat
    BY LinkFields, ScheduleAssumption DEF Linked
  <2>4. OperationOK(CallOf(Sender(e), k))
    BY <2>2, <2>3 DEF OperationOK, SendLimit, RecvLimit
  <2>5. e \in ComsOf(e[1], k)
    BY LinkedComs
  <2> QED
    BY <2>2, <2>4, <2>5
<1> QED
  BY <1>1, <1>2, <1>3

LEMMA ScriptsFit ==
    ASSUME plan \in Plans
    PROVE  Len(plan) \in Nat /\ ScriptsOK(Scripts, Len(plan))
<1>1. Len(plan) \in Nat
  <2>1. plan \in Seq(SUBSET Links)
    BY ScheduleAssumption
  <2> QED
    BY <2>1
<1>2. ASSUME NEW e \in Ends
      PROVE  /\ PeerOf[e] # e /\ Scripts[PeerOf[e]] = Scripts[e]
             /\ \A k \in 1 .. Len(plan) : OperationOK(Scripts[e][k])
  <2>1. PeerOf[e] # e /\ PeerOf[e] \in Ends /\ Sender(PeerOf[e]) = Sender(e)
    BY EndFields
  <2>2. Scripts[PeerOf[e]] = Scripts[e]
    BY <2>1 DEF Scripts
  <2> QED
    BY <2>1, <2>2, CallFacts
<1> QED
  BY <1>1, <1>2 DEF ScriptsOK

\* The link of a Peer of the current call.
LEMMA LinkOfFacts ==
    ASSUME plan \in Plans, NEW e \in Ends, epoch[e[1]] \in 1 .. Len(plan),
           e \in Coms(e[1])
    PROVE  /\ LinkOf(e) \in Linked(Sender(e), epoch[e[1]])
           /\ LinkOf(e).size \in Nat
           /\ SendLimit(LinkOf(e)) \in Nat /\ RecvLimit(LinkOf(e)) \in Nat
           /\ Scripts[e][epoch[e[1]]] =
                 [from |-> Sender(e), size |-> LinkOf(e).size,
                  limits |-> <<SendLimit(LinkOf(e)), RecvLimit(LinkOf(e))>>]
<1> DEFINE k == epoch[e[1]]
<1>1. \E l \in plan[k] : IF e[3] = "recv" THEN l.src = e[2] /\ l.dst = e[1]
                         ELSE l.src = e[1] /\ l.dst = e[2]
  <2>1. e \in ComsOf(e[1], k)
    BY DEF Coms
  <2> QED
    BY <2>1, ComsFacts, EndFields
<1>2. /\ LinkOf(e) \in plan[k]
      /\ IF e[3] = "recv" THEN LinkOf(e).src = e[2] /\ LinkOf(e).dst = e[1]
         ELSE LinkOf(e).src = e[1] /\ LinkOf(e).dst = e[2]
  BY <1>1 DEF LinkOf
<1>3. LinkOf(e) \in Linked(Sender(e), k)
  BY <1>2, EndFields DEF Linked
<1>4. LinkOf(e).size \in Nat /\ LinkOf(e).excess \in Nat /\ FirstLength \in Nat
  BY <1>2, LinkFields, ScheduleAssumption
<1> QED
  BY <1>3, <1>4, CallFacts DEF SendLimit, RecvLimit

-----------------------------------------------------------------------------
(* An end, in a state of the invariant.                                    *)

LEMMA EndFacts ==
    ASSUME ExchangeInv, NEW e \in Ends
    PROVE  /\ plan \in Plans /\ e[1] \in Ranks
           /\ end \in [Ends -> EndType] /\ end[e] \in EndType
           /\ epoch[e[1]] \in Nat /\ epoch[e[1]] <= Len(plan)
           /\ Begun[e] \in Nat
           /\ PeersOK(Views, chan, sent, Begun, Scripts, Len(plan))
           /\ EndOK(Views[e], e, Begun[e], Scripts[e])
           /\ Begun[e] >= 1 => OperationOK(Scripts[e][Begun[e]])
           /\ e \notin checking[e[1]] => Views[e] = end[e]
           /\ e \in checking[e[1]] =>
                 /\ Views[e] = [end[e] EXCEPT !.at = end[e].next]
                 /\ end[e].at = "out" /\ end[e].next # "none"
           /\ ~Active(e) => Resting(end[e])
           /\ Active(e) => /\ Begun[e] = epoch[e[1]] /\ Begun[e] >= 1
                           /\ e \in Coms(e[1])
<1>1. /\ plan \in Plans /\ e[1] \in Ranks /\ end \in [Ends -> EndType]
      /\ epoch[e[1]] \in 0 .. Len(plan)
  BY EndFields DEF ExchangeInv, TypeOK, PeersTypeOK
<1>2. PeersOK(Views, chan, sent, Begun, Scripts, Len(plan))
  BY DEF ExchangeInv, StreamsInv
<1>3. /\ EndOK(Views[e], e, Begun[e], Scripts[e]) /\ Begun[e] \in Nat
      /\ Begun[e] >= 1 => OperationOK(Scripts[e][Begun[e]])
  BY <1>2, PeerFacts
<1>4. ControlInv(e[1])
  BY <1>1 DEF ExchangeInv
<1>5. /\ e \notin checking[e[1]] => Views[e] = end[e]
      /\ e \in checking[e[1]] =>
            /\ Views[e] = [end[e] EXCEPT !.at = end[e].next]
            /\ end[e].at = "out" /\ end[e].next # "none"
  BY <1>4 DEF Views, ControlInv
<1>6. ~Active(e) => Resting(end[e])
  BY DEF ExchangeInv, StreamsInv
<1>7. Active(e) => Begun[e] = epoch[e[1]] /\ Begun[e] >= 1 /\ e \in Coms(e[1])
  BY <1>4 DEF Active, Begun, ControlInv
<1> QED
  BY <1>1, <1>2, <1>3, <1>5, <1>6, <1>7

\* An object, but for the case it is in, is what the views have of it.
LEMMA ViewFields ==
    ASSUME ExchangeInv, NEW e \in Ends
    PROVE  /\ Views[e] \in EndType
           /\ Views[e].base = end[e].base /\ Views[e].next = end[e].next
           /\ Views[e].limit = end[e].limit /\ Views[e].full = end[e].full
           /\ Views[e].held = end[e].held /\ Views[e].cap = end[e].cap
           /\ Views[e].data = end[e].data /\ Views[e].trailer = end[e].trailer
           /\ Views[e].req = end[e].req
           /\ Views[e].at = IF e \in checking[e[1]] THEN end[e].next ELSE end[e].at
           /\ Resting(Views[e]) <=> Resting(end[e])
<1>1. end[e] \in EndType /\ Views[e] \in EndType
  BY EndFacts, PeerFacts
<1>2. CASE e \notin checking[e[1]]
  BY <1>1, <1>2, EndFacts
<1>3. CASE e \in checking[e[1]]
  <2>1. Views[e] = [end[e] EXCEPT !.at = end[e].next] /\ end[e].next # "none"
    BY <1>3, EndFacts
  <2>2. /\ Views[e].base = end[e].base /\ Views[e].next = end[e].next
        /\ Views[e].limit = end[e].limit /\ Views[e].full = end[e].full
        /\ Views[e].held = end[e].held /\ Views[e].cap = end[e].cap
        /\ Views[e].data = end[e].data /\ Views[e].trailer = end[e].trailer
        /\ Views[e].req = end[e].req
        /\ Views[e].at = end[e].next
    BY <1>1, <2>1 DEF EndType
  <2> QED
    BY <1>1, <1>3, <2>1, <2>2 DEF Resting
<1> QED
  BY <1>2, <1>3

-----------------------------------------------------------------------------
(* Steps in which no process goes on to a call, a Peer or a phase.         *)

LEMMA SameScripts ==
    ASSUME plan' = plan
    PROVE  /\ Scripts' = Scripts
           /\ \A r, k : /\ ComsOf(r, k)' = ComsOf(r, k)
                        /\ LinksIn(r, k)' = LinksIn(r, k)
BY DEF Scripts, CallOf, Linked, ComsOf, LinksIn, LinksOut

LEMMA SameCalls ==
    ASSUME UNCHANGED <<plan, epoch, pc, order>>
    PROVE  /\ Begun' = Begun /\ Scripts' = Scripts
           /\ \A r : Coms(r)' = Coms(r)
           /\ \A e : Active(e)' <=> Active(e)
           /\ \A e : Unposted(e)' <=> Unposted(e)
<1>1. Scripts' = Scripts /\ \A r : Coms(r)' = Coms(r)
  BY SameScripts DEF Coms
<1>2. \A e : Unposted(e)' <=> Unposted(e)
  BY DEF Unposted
<1>3. Begun' = Begun
  BY <1>2 DEF Begun
<1> QED
  BY <1>1, <1>2, <1>3 DEF Active

LEMMA SamePhases ==
    ASSUME ExchangeInv, UNCHANGED <<plan, inOrder, epoch, pc, order>>,
           PeersOK(Views', chan', sent', Begun, Scripts, Len(plan)),
           end' \in [Ends -> EndType],
           got' \in [Ends -> Seq(Payload)],
           checking' \in [Ranks -> SUBSET Ends],
           queue' \in [Ranks -> Seq(Ends)],
           unpacked' \in [Ranks -> Seq([from : Ranks, data : Payload])],
           \A e \in Ends : ~Active(e) => Resting(end'[e]),
           \A r \in Ranks :
              /\ pc[r] = "idle" => queue'[r] = queue[r]
              /\ checking'[r] # {} => pc[r] = "finalize" /\ order[r] = <<>>
              /\ \A e \in checking'[r] :
                    /\ e \in Coms(r)
                    /\ end'[e].at = "out" /\ end'[e].next # "none"
    PROVE  ExchangeInv'
<1>1. /\ Begun' = Begun /\ Scripts' = Scripts
      /\ \A r : Coms(r)' = Coms(r)
      /\ \A e : Active(e)' <=> Active(e)
  BY SameCalls
<1>2. /\ chan' \in [Ends -> [Chunks -> Seq(Message)]]
      /\ sent' \in [Ends -> Seq(Payload)]
  BY DEF PeersOK
<1>3. TypeOK'
  BY <1>2 DEF ExchangeInv, TypeOK, PeersTypeOK
<1>4. StreamsInv'
  BY <1>1 DEF StreamsInv
<1>5. ASSUME NEW r \in Ranks PROVE ControlInv(r)'
  <2>1. ControlInv(r)
    BY DEF ExchangeInv
  <2>2. pc[r] = "idle" => checking'[r] = {}
    OBVIOUS
  <2>3. pc'[r] = pc[r] /\ order'[r] = order[r] /\ epoch'[r] = epoch[r]
    OBVIOUS
  <2> QED
    BY <1>1, <2>1, <2>2, <2>3 DEF ControlInv
<1> QED
  BY <1>3, <1>4, <1>5 DEF ExchangeInv

\* One object changes.
LEMMA OneView ==
    ASSUME end \in [Ends -> EndType], NEW e \in Ends, NEW t \in EndType,
           end' = [end EXCEPT ![e] = t], checking' = checking
    PROVE  /\ Views' = [Views EXCEPT ![e] = IF e \in checking[e[1]]
                                            THEN [t EXCEPT !.at = t.next] ELSE t]
           /\ end' \in [Ends -> EndType]
<1> DEFINE v == IF e \in checking[e[1]] THEN [t EXCEPT !.at = t.next] ELSE t
<1>1. end'[e] = t /\ \A x \in Ends : x # e => end'[x] = end[x]
  OBVIOUS
<1>2. Views'[e] = v /\ \A x \in Ends : x # e => Views'[x] = Views[x]
  BY <1>1 DEF Views
<1> HIDE DEF v
<1>3. /\ Views' = [x \in Ends |-> Views'[x]]
      /\ [Views EXCEPT ![e] = v] = [x \in Ends |-> IF x = e THEN v ELSE Views[x]]
  BY DEF Views
<1>4. Views' = [Views EXCEPT ![e] = v]
  BY <1>2, <1>3
<1> QED
  BY <1>4 DEF v

\* The object of an end that has begun its operation changes, and MPI with it.
LEMMA OneMovesOn ==
    ASSUME ExchangeInv, NEW e \in Ends, NEW t \in EndType, NEW v,
           Active(e) \/ Resting(t),
           end' = [end EXCEPT ![e] = t],
           v = IF e \in checking[e[1]] THEN [t EXCEPT !.at = t.next] ELSE t,
           e \in checking[e[1]] => t.at = "out" /\ t.next # "none",
           UNCHANGED <<plan, inOrder, epoch, pc, order, checking>>,
           PeersOK([Views EXCEPT ![e] = v], chan', sent', Begun, Scripts, Len(plan)),
           got' \in [Ends -> Seq(Payload)],
           queue' \in [Ranks -> Seq(Ends)],
           unpacked' \in [Ranks -> Seq([from : Ranks, data : Payload])],
           \A r \in Ranks : pc[r] = "idle" => queue'[r] = queue[r]
    PROVE  ExchangeInv'
<1>1. end \in [Ends -> EndType]
  BY EndFacts
<1>2. Views' = [Views EXCEPT ![e] = v] /\ end' \in [Ends -> EndType]
  BY <1>1, OneView
<1>3. end'[e] = t /\ \A x \in Ends : x # e => end'[x] = end[x]
  BY <1>1
<1>4. \A x \in Ends : ~Active(x) => Resting(end'[x])
  BY <1>3 DEF ExchangeInv, StreamsInv
<1>5. ASSUME NEW r \in Ranks
      PROVE  /\ checking'[r] # {} => pc[r] = "finalize" /\ order[r] = <<>>
             /\ \A x \in checking'[r] :
                   /\ x \in Coms(r)
                   /\ end'[x].at = "out" /\ end'[x].next # "none"
  <2>1. /\ ControlInv(r) /\ checking'[r] = checking[r] /\ checking[r] \subseteq Ends
        /\ plan \in Plans
        /\ pc[r] # "idle" => epoch[r] \in 1 .. Len(plan)
    <3>1. /\ ControlInv(r) /\ checking \in [Ranks -> SUBSET Ends]
          /\ epoch \in [Ranks -> 0 .. Len(plan)] /\ plan \in Plans
      BY DEF ExchangeInv, TypeOK
    <3>2. epoch[r] \in 0 .. Len(plan) /\ Len(plan) \in Nat
      BY <3>1, ScriptsFit
    <3>3. pc[r] # "idle" => epoch[r] \in 1 .. Len(plan)
      BY <3>1, <3>2 DEF ControlInv
    <3> QED
      BY <3>1, <3>3
  <2>2. ASSUME NEW x \in checking[r] PROVE x[1] = r
    <3>1. x \in ComsOf(r, epoch[r]) /\ epoch[r] \in 1 .. Len(plan)
      BY <2>1 DEF ControlInv, Coms
    <3> QED
      BY <2>1, <3>1, ComsFacts
  <2>3. e \in checking[r] => e \in checking[e[1]]
    BY <2>2
  <2> QED
    BY <2>1, <2>3, <1>3 DEF ControlInv
<1>6. checking' \in [Ranks -> SUBSET Ends]
  BY DEF ExchangeInv, TypeOK
<1> QED
  BY <1>2, <1>4, <1>5, <1>6, SamePhases

-----------------------------------------------------------------------------
(* MPI, and the check methods.                                             *)

\* Pieces of the types a step leaves alone.
LEMMA Kept ==
    ASSUME ExchangeInv
    PROVE  /\ got \in [Ends -> Seq(Payload)]
           /\ queue \in [Ranks -> Seq(Ends)]
           /\ checking \in [Ranks -> SUBSET Ends]
           /\ unpacked \in [Ranks -> Seq([from : Ranks, data : Payload])]
BY DEF ExchangeInv, TypeOK, PeersTypeOK

LEMMA TransferStep ==
    ASSUME ExchangeInv, NEW e \in Ends, NEW c \in Chunks, Transfer(e, c),
           UNCHANGED rankVars
    PROVE  /\ ExchangeInv'
           /\ end' = [end EXCEPT ![e] = end'[e]]
           /\ ~Resting(end[e]) /\ ~Resting(end'[e])
<1> DEFINE s == end[e]
           p == PeerOf[e]
           m == Head(chan[p][c])
           t == With(s, c, m)
           w == Views[e]
           v == With(w, c, m)
<1>1. /\ end \in [Ends -> EndType] /\ s \in EndType
      /\ w \in EndType /\ w.base = s.base /\ w.req = s.req /\ w.limit = s.limit
      /\ w.data = s.data /\ w.next = s.next
      /\ EndOK(w, e, Begun[e], Scripts[e]) /\ Begun[e] \in Nat
      /\ Begun[e] >= 1 => OperationOK(Scripts[e][Begun[e]])
      /\ PeersOK(Views, chan, sent, Begun, Scripts, Len(plan))
  BY EndFacts, ViewFields
<1>2. /\ end' = [end EXCEPT ![e] = t]
      /\ chan' = [chan EXCEPT ![p][c] = Tail(@)]
      /\ s.base = "recv" /\ s.req[c] = "active" /\ chan[p][c] # <<>>
      /\ UNCHANGED <<sent, got>>
  BY <1>1, TransfersTo
<1>3. /\ m = Part(Scripts[e], c, Begun[e])
      /\ Begun[e] >= 1 /\ Begun[e] <= Begun[p]
      /\ PeersOK([Views EXCEPT ![e] = v], [chan EXCEPT ![p][c] = Tail(@)],
                 sent, Begun, Scripts, Len(plan))
  BY <1>1, <1>2, ChunkTaken
<1>4. /\ m \in Message /\ Landed(w, c, m.data) \in Payload
  BY <1>1, <1>2, <1>3, Lands
<1>5. Landed(s, c, m.data) = Landed(w, c, m.data)
  BY <1>1 DEF Landed
<1> HIDE DEF m
<1>6. /\ t \in EndType /\ t.at = s.at /\ t.next = s.next
      /\ t.req = [s.req EXCEPT ![c] = "arrived"]
      /\ v = [w EXCEPT !.req = [s.req EXCEPT ![c] = "arrived"],
                       !.data = Landed(s, c, m.data),
                       !.trailer = [seq |-> m.seq, full |-> m.full]]
  BY <1>1, <1>4, <1>5 DEF With, EndType, Message, Payload
<1>7. v = IF e \in checking[e[1]] THEN [t EXCEPT !.at = t.next] ELSE t
  <2>1. CASE e \in checking[e[1]]
    <3>1. w = [s EXCEPT !.at = s.next]
      BY <2>1, EndFacts
    <3> QED
      BY <2>1, <3>1, <1>1, <1>6 DEF With, EndType
  <2>2. CASE e \notin checking[e[1]]
    <3>1. w = s
      BY <2>2, EndFacts
    <3> QED
      BY <2>2, <3>1, <1>1
  <2> QED
    BY <2>1, <2>2
<1>8. ~Resting(s) /\ ~Resting(t)
  BY <1>1, <1>2, <1>6 DEF Resting, EndType
<1>9. e \in checking[e[1]] => t.at = "out" /\ t.next # "none"
  BY <1>6, EndFacts
<1>10. end'[e] = t
  BY <1>1, <1>2
<1> HIDE DEF t, v, w
<1>11. Active(e)
  BY <1>8, EndFacts
<1>12. PeersOK([Views EXCEPT ![e] = v], chan', sent', Begun, Scripts, Len(plan))
  BY <1>2, <1>3
<1>13. ExchangeInv'
  BY <1>2, <1>6, <1>7, <1>9, <1>11, <1>12, Kept, OneMovesOn DEF rankVars
<1> QED
  BY <1>2, <1>8, <1>10, <1>13

LEMMA CompletesStep ==
    ASSUME ExchangeInv, NEW e \in Ends, NEW c \in Chunks, SendCompletes(e, c),
           UNCHANGED rankVars
    PROVE  /\ ExchangeInv'
           /\ end' = [end EXCEPT ![e] = end'[e]]
           /\ ~Resting(end[e]) /\ ~Resting(end'[e])
<1> DEFINE s == end[e]
           t == [s EXCEPT !.req[c] = "arrived"]
           w == Views[e]
           v == [w EXCEPT !.req[c] = "arrived"]
<1>1. /\ end \in [Ends -> EndType] /\ s \in EndType
      /\ w \in EndType /\ w.base = s.base /\ w.req = s.req
      /\ EndOK(w, e, Begun[e], Scripts[e]) /\ Begun[e] \in Nat
      /\ PeersOK(Views, chan, sent, Begun, Scripts, Len(plan))
  BY EndFacts, ViewFields
<1>2. /\ end' = [end EXCEPT ![e] = t]
      /\ s.base = "send" /\ s.req[c] = "active"
      /\ UNCHANGED <<chan, sent, got>>
  BY <1>1, CompletesTo
<1>3. StaysOK(w, v, e, Begun[e], Scripts[e])
  <2> HIDE DEF w
  <2>1. w.base = "send" /\ w.req[c] = "active"
    BY <1>1, <1>2
  <2>2. StaysOK(w, [w EXCEPT !.req[c] = "arrived"], e, Begun[e], Scripts[e])
    BY <1>1, <2>1, SendIsCompleted
  <2> QED
    BY <2>2
<1>4. /\ t \in EndType /\ t.at = s.at /\ t.next = s.next
      /\ t.req = [s.req EXCEPT ![c] = "arrived"]
  BY <1>1 DEF EndType
<1>5. v = IF e \in checking[e[1]] THEN [t EXCEPT !.at = t.next] ELSE t
  <2>1. CASE e \in checking[e[1]]
    <3>1. w = [s EXCEPT !.at = s.next]
      BY <2>1, EndFacts
    <3> QED
      BY <2>1, <3>1, <1>1 DEF EndType
  <2>2. CASE e \notin checking[e[1]]
    <3>1. w = s
      BY <2>2, EndFacts
    <3> QED
      BY <2>2, <3>1, <1>1
  <2> QED
    BY <2>1, <2>2
<1>6. ~Resting(s) /\ ~Resting(t)
  BY <1>1, <1>2, <1>4 DEF Resting, EndType
<1>7. e \in checking[e[1]] => t.at = "out" /\ t.next # "none"
  BY <1>4, EndFacts
<1>8. end'[e] = t
  BY <1>1, <1>2
<1> HIDE DEF t, v
<1>9. PeersOK([Views EXCEPT ![e] = v], chan', sent', Begun, Scripts, Len(plan))
  BY <1>1, <1>2, <1>3, PeerStays
<1> HIDE DEF w
<1>10. Active(e)
  BY <1>6, EndFacts
<1>11. ExchangeInv'
  BY <1>2, <1>4, <1>5, <1>7, <1>9, <1>10, Kept, OneMovesOn DEF rankVars
<1> QED
  BY <1>2, <1>6, <1>8, <1>11

\* A process in a call, and the Peers of the call.
LEMMA RankFacts ==
    ASSUME ExchangeInv, NEW r \in Ranks
    PROVE  /\ plan \in Plans /\ Len(plan) \in Nat /\ ControlInv(r)
           /\ epoch \in [Ranks -> 0 .. Len(plan)] /\ pc \in [Ranks -> Phases]
           /\ epoch[r] \in 0 .. Len(plan) /\ epoch[r] \in Nat
           /\ order \in [Ranks -> Seq(Ends)] /\ order[r] \in Seq(Ends)
           /\ queue[r] \in Seq(Ends)
           /\ pc[r] # "idle" => epoch[r] \in 1 .. Len(plan)
           /\ pc[r] # "idle" => \A e \in Coms(r) : e \in Ends /\ e[1] = r
<1>1. /\ plan \in Plans /\ ControlInv(r)
      /\ epoch \in [Ranks -> 0 .. Len(plan)] /\ pc \in [Ranks -> Phases]
      /\ order \in [Ranks -> Seq(Ends)] /\ queue \in [Ranks -> Seq(Ends)]
  BY DEF ExchangeInv, TypeOK
<1>2. Len(plan) \in Nat
  BY <1>1, ScriptsFit
<1>3. epoch[r] \in 0 .. Len(plan) /\ epoch[r] \in Nat
  BY <1>1, <1>2
<1>4. pc[r] # "idle" => epoch[r] \in 1 .. Len(plan)
  BY <1>1, <1>2, <1>3 DEF ControlInv
<1>5. pc[r] # "idle" => \A e \in Coms(r) : e \in Ends /\ e[1] = r
  BY <1>1, <1>4, ComsFacts DEF Coms
<1> QED
  BY <1>1, <1>2, <1>3, <1>4, <1>5

\* What a completion queue is after a Peer is pushed.
LEMMA PushType ==
    ASSUME NEW q \in Seq(Ends), NEW e \in Ends
    PROVE  /\ Push(q, e) \in Seq(Ends)
           /\ Contains(Push(q, e), e)
           /\ \A x : Contains(q, x) => Contains(Push(q, e), x)
           /\ \A x : Contains(Push(q, e), x) => Contains(q, x) \/ x = e
           /\ IsInjective(q) => IsInjective(Push(q, e))
<1>1. CASE Contains(q, e)
  BY <1>1 DEF Push
<1>2. CASE ~Contains(q, e)
  <2> DEFINE p == Append(q, e)
  <2>1. /\ p \in Seq(Ends) /\ Len(p) = Len(q) + 1 /\ Len(q) \in Nat
        /\ \A i \in 1 .. Len(q) : p[i] = q[i]
        /\ p[Len(q) + 1] = e
    BY AppendProperties
  <2>2. DOMAIN p = 1 .. (Len(q) + 1) /\ DOMAIN q = 1 .. Len(q)
    BY <2>1
  <2>3. Push(q, e) = p
    BY <1>2 DEF Push
  <2> HIDE DEF p
  <2>4. \A i \in 1 .. (Len(q) + 1) : i \in 1 .. Len(q) \/ i = Len(q) + 1
    BY <2>1
  <2>5. \A i \in 1 .. Len(q) : i \in 1 .. (Len(q) + 1)
    BY <2>1
  <2>6. Contains(p, e) /\ \A x : Contains(q, x) => Contains(p, x)
    BY <2>1, <2>2, <2>5 DEF Contains
  <2>7. \A x : Contains(p, x) => Contains(q, x) \/ x = e
    BY <2>1, <2>2, <2>4 DEF Contains
  <2>8. ASSUME IsInjective(q) PROVE IsInjective(p)
    <3>1. \A i \in 1 .. Len(q) : p[i] # e
      BY <1>2, <2>1, <2>2 DEF Contains
    <3>2. \A i, j \in 1 .. Len(q) : p[i] = p[j] => i = j
      BY <2>1, <2>2, <2>8 DEF IsInjective
    <3> QED
      BY <3>1, <3>2, <2>1, <2>2, <2>4 DEF IsInjective
  <2> QED
    BY <2>1, <2>3, <2>6, <2>7, <2>8
<1> QED
  BY <1>1, <1>2

\* What a check method does to the object of its Peer, in a Schedule.
Checks(r, e, t) ==
    /\ e \in Coms(r) /\ t \in EndType
    /\ end' = [end EXCEPT ![e] = t]
    /\ Active(e) /\ ~Resting(end[e])
    /\ Resting(t) /\ e[3] = "recv" =>
          Items(t.data, t.full) = Msg(Scripts[e], epoch[r])
    /\ queue' = [queue EXCEPT ![r] = IF Resting(t) /\ Pushes(r) THEN Push(@, e) ELSE @]

LEMMA CheckMoves ==
    ASSUME ExchangeInv, NEW r \in Ranks, Check(r)
    PROVE  ExchangeInv' /\ \E e \in Ends, t \in EndType : Checks(r, e, t)
<1>1. PICK e \in Coms(r) :
         /\ CheckStep(e)
         /\ queue' = [queue EXCEPT ![r] =
                        IF end'[e].at = "out" /\ end'[e].next = "none" /\ Pushes(r)
                        THEN Push(@, e) ELSE @]
  BY DEF Check
<1>2. /\ pc[r] # "idle"
      /\ UNCHANGED <<plan, inOrder, epoch, pc, order, checking, unpacked>>
  BY DEF Check
<1>3. e \in Ends /\ e[1] = r /\ plan \in Plans /\ epoch[r] \in 1 .. Len(plan)
  BY <1>1, <1>2, RankFacts
<1>4. end[e].at # "out"
  BY <1>1 DEF CheckStep, send_check, recv_check0, recv_check1
<1>5. /\ end \in [Ends -> EndType]
      /\ PeersOK(Views, chan, sent, Begun, Scripts, Len(plan))
      /\ Views[e] = end[e] /\ e \notin checking[e[1]]
  BY <1>3, <1>4, EndFacts
<1>6. PICK t \in EndType :
         /\ end' = [end EXCEPT ![e] = t]
         /\ chan' = chan /\ sent' = sent
         /\ end[e].at # "out"
         /\ \/ /\ StaysOK(end[e], t, e, Begun[e], Scripts[e])
               /\ got' = got
               /\ Resting(t) => Scripts[e][Begun[e]].from = e
            \/ /\ EndsReceive(end[e], t, e, Begun[e], Scripts[e])
               /\ got' = [got EXCEPT ![e] = Append(@, Msg(Scripts[e], Begun[e]))]
         /\ PeersOK([Views EXCEPT ![e] = t], chan, sent, Begun, Scripts, Len(plan))
  <2> HIDE DEF Views, Begun, Scripts
  <2> QED
    BY <1>1, <1>3, <1>5, ChecksTo
<1>7. ~Resting(end[e])
  BY <1>4 DEF Resting
<1>8. Active(e) /\ Begun[e] = epoch[r]
  BY <1>3, <1>7, EndFacts
<1>9. Scripts[e][Begun[e]].from = Sender(e) /\ OperationOK(Scripts[e][Begun[e]])
  <2>1. Scripts[e][epoch[r]].from = Sender(e)
    <3>1. epoch[e[1]] \in 1 .. Len(plan) /\ e \in Coms(e[1])
      BY <1>1, <1>3
    <3>2. Scripts[e][epoch[e[1]]] =
             [from |-> Sender(e), size |-> LinkOf(e).size,
              limits |-> <<SendLimit(LinkOf(e)), RecvLimit(LinkOf(e))>>]
      BY <1>3, <3>1, LinkOfFacts
    <3> QED
      BY <3>2, <1>3
  <2> QED
    BY <2>1, <1>3, <1>8, CallFacts
<1>10. e[3] = "recv" => Sender(e) # e
  BY <1>3, EndFields
<1>11. Resting(t) /\ e[3] = "recv" => Items(t.data, t.full) = Msg(Scripts[e], epoch[r])
  BY <1>6, <1>8, <1>9, <1>10 DEF EndsReceive
<1>12. t.at = "out" /\ t.next = "none" <=> Resting(t)
  <2>1. EndOK(t, e, Begun[e], Scripts[e])
    BY <1>6 DEF StaysOK, EndsReceive, EndOK
  <2> QED
    BY <2>1, RestingWhenDone DEF Resting
<1>13. end'[e] = t
  BY <1>3, <1>5, <1>6
<1>14. queue' = [queue EXCEPT ![r] = IF Resting(t) /\ Pushes(r) THEN Push(@, e) ELSE @]
  BY <1>1, <1>12, <1>13
<1>15. queue' \in [Ranks -> Seq(Ends)]
  <2>1. queue \in [Ranks -> Seq(Ends)] /\ queue[r] \in Seq(Ends)
    BY Kept
  <2>2. Push(queue[r], e) \in Seq(Ends)
    BY <2>1, <1>3, PushType
  <2> QED
    BY <2>1, <2>2, <1>14
<1>16. got' \in [Ends -> Seq(Payload)]
  <2>1. got \in [Ends -> Seq(Payload)] /\ got[e] \in Seq(Payload)
    BY <1>3, Kept
  <2>2. CASE got' = got
    BY <2>1, <2>2
  <2>3. CASE /\ EndsReceive(end[e], t, e, Begun[e], Scripts[e])
             /\ got' = [got EXCEPT ![e] = Append(@, Msg(Scripts[e], Begun[e]))]
    <3>1. Msg(Scripts[e], Begun[e]) \in Payload
      BY <2>3 DEF EndsReceive, EndType, Payload
    <3>2. Append(got[e], Msg(Scripts[e], Begun[e])) \in Seq(Payload)
      BY <2>1, <3>1, AppendProperties
    <3> QED
      BY <2>1, <2>3, <3>2
  <2> QED
    BY <1>6, <2>2, <2>3
<1>17. \A p \in Ranks : pc[p] = "idle" => queue'[p] = queue[p]
  BY <1>2, <1>14, Kept
<1>18. PeersOK([Views EXCEPT ![e] = t], chan', sent', Begun, Scripts, Len(plan))
  BY <1>6
<1>19. ExchangeInv'
  <2>1. unpacked' \in [Ranks -> Seq([from : Ranks, data : Payload])]
    BY <1>2, Kept
  <2>2. t = IF e \in checking[e[1]] THEN [t EXCEPT !.at = t.next] ELSE t
    BY <1>5
  <2> QED
    BY <1>2, <1>3, <1>5, <1>6, <1>8, <1>15, <1>16, <1>17, <1>18, <2>1, <2>2, OneMovesOn
<1>20. Checks(r, e, t)
  BY <1>1, <1>6, <1>7, <1>8, <1>11, <1>14 DEF Checks
<1> QED
  BY <1>3, <1>6, <1>19, <1>20

-----------------------------------------------------------------------------
(* Waits return.                                                           *)

\* No object comes to rest, or leaves it.
RestersStay == \A e \in Ends : Resting(end[e]) \/ Resting(end'[e]) => end'[e] = end[e]

LEMMA WaitsomeStep ==
    ASSUME ExchangeInv, NEW r \in Ranks, WaitsomeReturns(r)
    PROVE  ExchangeInv' /\ RestersStay
<1>1. PICK S \in (SUBSET ArrivedAt(r)) \ {{}} :
         /\ end' = [e \in Ends |->
                      [end[e] EXCEPT !.req =
                         [c \in Chunks |-> IF <<e, c>> \in S THEN "null" ELSE @[c]]]]
         /\ checking' = [checking EXCEPT ![r] = {x[1] : x \in S}]
  BY DEF WaitsomeReturns
<1>2. /\ Outside(r) /\ pc[r] = "finalize" /\ order[r] = <<>> /\ checking[r] = {}
      /\ UNCHANGED <<chan, sent, got, plan, inOrder, epoch, pc, order, queue, unpacked>>
  BY DEF WaitsomeReturns, Advancing
<1> DEFINE of(e) == {c \in Chunks : <<e, c>> \in S}
           req(e) == [c \in Chunks |-> IF <<e, c>> \in S THEN "null" ELSE end[e].req[c]]
<1>3. /\ end \in [Ends -> EndType] /\ checking \in [Ranks -> SUBSET Ends]
      /\ \A e \in Ends : end'[e] = [end[e] EXCEPT !.req = req(e)]
      /\ PeersOK(Views, chan, sent, Begun, Scripts, Len(plan))
  BY <1>1, Kept DEF ExchangeInv, TypeOK, PeersTypeOK, StreamsInv
<1>4. ASSUME NEW x \in S
      PROVE  /\ x[1] \in Ends /\ x[1][1] = r /\ x[1] \in Coms(r) /\ x[2] \in Chunks
             /\ x = <<x[1], x[2]>> /\ end[x[1]].req[x[2]] = "arrived"
  <2>1. x \in ArrivedAt(r)
    BY <1>1
  <2>2. x[1] \in Coms(r) /\ x[2] \in Chunks /\ x = <<x[1], x[2]>>
        /\ end[x[1]].req[x[2]] = "arrived"
    BY <2>1 DEF ArrivedAt, Arrived
  <2> QED
    BY <2>2, <1>2, RankFacts
<1>5. ASSUME NEW e \in Ends, \E x \in S : x[1] = e
      PROVE  /\ e[1] = r /\ e \in Coms(r) /\ end[e].at = "out" /\ end[e].next # "none"
             /\ Views[e] = end[e] /\ ~Resting(end[e])
             /\ StaysOK(Views[e], Proceeding(end[e], of(e)), e, Begun[e], Scripts[e])
  <2>1. PICK c \in Chunks : <<e, c>> \in S /\ end[e].req[c] = "arrived"
    BY <1>4, <1>5
  <2>2. e[1] = r /\ e \in Coms(r) /\ end[e].at = "out" /\ ~Resting(end[e])
    BY <1>2, <1>4, <1>5, <2>1 DEF Outside, Resting
  <2>3. /\ Views[e] = end[e] /\ end[e] \in EndType
        /\ EndOK(end[e], e, Begun[e], Scripts[e])
    BY <1>2, <2>2, EndFacts
  <2>4. end[e].next # "none"
    BY <2>2, <2>3, RestingWhenDone
  <2>5. of(e) \subseteq {d \in Chunks : end[e].req[d] = "arrived"}
    <3> SUFFICES ASSUME NEW d \in Chunks, <<e, d>> \in S
                 PROVE  end[e].req[d] = "arrived"
      OBVIOUS
    <3>1. <<e, d>>[1] = e /\ <<e, d>>[2] = d
      OBVIOUS
    <3> QED
      BY <1>4, <3>1
  <2> HIDE DEF of
  <2>6. StaysOK(end[e], Proceeding(end[e], of(e)), e, Begun[e], Scripts[e])
    BY <2>2, <2>3, <2>4, <2>5, Proceeds
  <2> QED
    BY <2>2, <2>3, <2>4, <2>6
<1>6. ASSUME NEW e \in Ends, ~\E x \in S : x[1] = e
      PROVE  end'[e] = end[e]
  <2>1. \A c \in Chunks : <<e, c>> \notin S
    BY <1>6
  <2>2. end[e] \in EndType
    BY <1>3
  <2>3. req(e) = end[e].req
    BY <2>1, <2>2 DEF EndType
  <2> HIDE DEF req
  <2>4. end'[e] = [end[e] EXCEPT !.req = end[e].req]
    BY <1>3, <2>3
  <2> QED
    BY <2>2, <2>4 DEF EndType
<1>7. ASSUME NEW e \in Ends, \E x \in S : x[1] = e
      PROVE  /\ Views'[e] = Proceeding(end[e], of(e)) /\ end'[e] \in EndType
             /\ end'[e].at = "out" /\ end'[e].next = end[e].next
  <2>1. e \in checking'[e[1]] /\ end[e] \in EndType
    BY <1>1, <1>3, <1>5, <1>7
  <2>2. req(e) \in [Chunks -> {"null", "active", "arrived"}]
    BY <2>1 DEF EndType
  <2>3. Proceeding(end[e], of(e)) = [end[e] EXCEPT !.req = req(e), !.at = end[e].next]
    <3>1. [c \in Chunks |-> IF c \in of(e) THEN "null" ELSE end[e].req[c]] = req(e)
      OBVIOUS
    <3> QED
      BY <3>1 DEF Proceeding
  <2> HIDE DEF req, of
  <2>4. end'[e] = [end[e] EXCEPT !.req = req(e)]
    BY <1>3
  <2>5. end'[e] \in EndType /\ end'[e].at = "out" /\ end'[e].next = end[e].next
    <3>1. end[e].at = "out"
      BY <1>5, <1>7
    <3>2. end'[e] \in EndType /\ end'[e].at = end[e].at /\ end'[e].next = end[e].next
      BY <2>1, <2>2, <2>4 DEF EndType
    <3> QED
      BY <3>1, <3>2
  <2>6. Views'[e] = [end'[e] EXCEPT !.at = end'[e].next]
    BY <2>1 DEF Views
  <2>7. Views'[e] = Proceeding(end[e], of(e))
    BY <2>1, <2>3, <2>4, <2>5, <2>6 DEF EndType
  <2> QED
    BY <2>5, <2>7
<1>8. ASSUME NEW e \in Ends, ~\E x \in S : x[1] = e
      PROVE  /\ Views'[e] = Views[e]
             /\ StaysOK(Views[e], Views'[e], e, Begun[e], Scripts[e])
  <2>1. e \in checking'[e[1]] <=> e \in checking[e[1]]
    <3>1. e[1] \in Ranks
      BY EndFields
    <3>2. CASE e[1] = r
      <4>1. checking'[r] = {x[1] : x \in S}
        BY <1>1, <1>3
      <4> QED
        BY <3>2, <4>1, <1>2, <1>8
    <3>3. CASE e[1] # r
      BY <3>1, <3>3, <1>1, <1>3
    <3> QED
      BY <3>2, <3>3
  <2>2. Views'[e] = Views[e]
    BY <2>1, <1>6, <1>8 DEF Views
  <2>3. Views[e] \in EndType /\ EndOK(Views[e], e, Begun[e], Scripts[e])
    BY <1>3, PeerFacts
  <2> QED
    BY <2>2, <2>3 DEF StaysOK
<1> HIDE DEF of, req
<1>9. PeersOK(Views', chan', sent', Begun, Scripts, Len(plan))
  <2>1. \A e \in Ends : StaysOK(Views[e], Views'[e], e, Begun[e], Scripts[e])
    BY <1>5, <1>7, <1>8
  <2>2. Views' \in [Ends -> EndType]
    <3>1. Views' = [e \in Ends |-> Views'[e]]
      BY DEF Views
    <3>2. \A e \in Ends : Views'[e] \in EndType
      BY <2>1 DEF StaysOK
    <3> QED
      BY <3>1, <3>2
  <2>3. Begun \in [Ends -> 0 .. Len(plan)]
    BY <1>3 DEF PeersOK
  <2> HIDE DEF Views, Begun, Scripts
  <2>4. PeersOK(Views', chan, sent, Begun, Scripts, Len(plan))
    BY <1>3, <2>1, <2>2, <2>3, PeersStay
  <2> QED
    BY <2>4, <1>2
<1>10. end' \in [Ends -> EndType]
  <2>1. \A e \in Ends : end'[e] \in EndType
    BY <1>3, <1>6, <1>7
  <2>2. end' = [e \in Ends |-> end'[e]]
    BY <1>1
  <2> QED
    BY <2>1, <2>2
<1>11. RestersStay
  <2> SUFFICES ASSUME NEW e \in Ends, \E x \in S : x[1] = e
               PROVE  ~Resting(end[e]) /\ ~Resting(end'[e])
    BY <1>6 DEF RestersStay
  <2>1. end'[e].next # "none"
    BY <1>5, <1>7
  <2> QED
    BY <2>1, <1>5 DEF Resting
<1>12. \A e \in Ends : ~Active(e) => Resting(end'[e])
  <2> SUFFICES ASSUME NEW e \in Ends, ~Active(e) PROVE Resting(end'[e])
    OBVIOUS
  <2>1. Resting(end[e])
    BY EndFacts
  <2> QED
    BY <2>1, <1>11 DEF RestersStay
<1>13. ASSUME NEW p \in Ranks
       PROVE  /\ checking'[p] \in SUBSET Ends
              /\ checking'[p] # {} => pc[p] = "finalize" /\ order[p] = <<>>
              /\ \A e \in checking'[p] :
                    /\ e \in Coms(p)
                    /\ end'[e].at = "out" /\ end'[e].next # "none"
  <2>1. CASE p = r
    <3>1. checking'[r] = {x[1] : x \in S}
      BY <1>1, <1>3
    <3> QED
      BY <2>1, <3>1, <1>2, <1>4, <1>5, <1>7
  <2>2. CASE p # r
    <3>1. checking'[p] = checking[p] /\ checking[p] \in SUBSET Ends /\ ControlInv(p)
      BY <2>2, <1>1, <1>3, RankFacts
    <3>2. ASSUME NEW e \in checking[p]
          PROVE  end'[e] = end[e]
      <4>1. e \in Ends /\ e \in Coms(p) /\ pc[p] # "idle"
        BY <3>1 DEF ControlInv
      <4>2. e[1] = p
        BY <4>1, RankFacts
      <4> QED
        BY <2>2, <4>1, <4>2, <1>4, <1>6
    <3> QED
      BY <3>1, <3>2 DEF ControlInv
  <2> QED
    BY <2>1, <2>2
<1>14. checking' \in [Ranks -> SUBSET Ends]
  <2>1. checking' = [p \in Ranks |-> checking'[p]]
    BY <1>1, <1>3
  <2> QED
    BY <2>1, <1>13
<1>15. ExchangeInv'
  <2>1. /\ got' \in [Ends -> Seq(Payload)] /\ queue' \in [Ranks -> Seq(Ends)]
        /\ unpacked' \in [Ranks -> Seq([from : Ranks, data : Payload])]
        /\ queue' = queue
    BY <1>2, Kept
  <2> HIDE DEF Views, Begun, Scripts
  <2> QED
    BY <1>2, <1>9, <1>10, <1>12, <1>13, <1>14, <2>1, SamePhases
<1> QED
  BY <1>11, <1>15

LEMMA CheckNextStep ==
    ASSUME ExchangeInv, NEW r \in Ranks, CheckNext(r)
    PROVE  ExchangeInv' /\ RestersStay
<1>1. PICK e \in checking[r] :
         /\ proceedToNextWait(e, {})
         /\ checking' = [checking EXCEPT ![r] = @ \ {e}]
         /\ UNCHANGED <<plan, inOrder, epoch, pc, order, queue, unpacked>>
  BY DEF CheckNext
<1>2. /\ end \in [Ends -> EndType] /\ checking \in [Ranks -> SUBSET Ends]
      /\ ControlInv(r) /\ e \in Ends
      /\ PeersOK(Views, chan, sent, Begun, Scripts, Len(plan))
  BY <1>1, Kept, RankFacts DEF ExchangeInv, TypeOK, PeersTypeOK, StreamsInv
<1>3. e \in Coms(r) /\ e[1] = r /\ pc[r] = "finalize" /\ order[r] = <<>>
  BY <1>1, <1>2, RankFacts DEF ControlInv
<1> DEFINE t == Proceeding(end[e], {})
<1>4. /\ end' = [end EXCEPT ![e] = t] /\ end[e].at = "out" /\ end[e].next # "none"
      /\ UNCHANGED <<chan, sent, got>>
  BY <1>1, <1>2, ProceedsTo
<1>5. t = [end[e] EXCEPT !.at = end[e].next]
  <2>1. end[e] \in EndType
    BY <1>2
  <2>2. [c \in Chunks |-> IF c \in {} THEN "null" ELSE end[e].req[c]] = end[e].req
    BY <2>1 DEF EndType
  <2> QED
    BY <2>1, <2>2 DEF Proceeding, EndType
<1>6. Views[e] = t
  BY <1>1, <1>2, <1>3, <1>5, EndFacts
<1>7. t \in EndType /\ t.next = end[e].next
  <2>1. end[e] \in EndType
    BY <1>2
  <2> QED
    BY <1>2, <1>5, <1>6, <2>1, ViewFields
<1> HIDE DEF t
<1>8. /\ end'[e] = t /\ e \notin checking'[r]
      /\ \A x \in Ends : x # e => end'[x] = end[x]
      /\ \A p \in Ranks : /\ checking'[p] \in SUBSET Ends /\ checking'[p] \subseteq checking[p]
                          /\ e \notin checking'[p]
                          /\ \A x \in Ends : x # e => (x \in checking'[p] <=> x \in checking[p])
  <2>1. \A p \in Ranks : e \in checking[p] => p = r
    <3> TAKE p \in Ranks
    <3> HAVE e \in checking[p]
    <3>1. e \in Coms(p) /\ pc[p] # "idle"
      BY RankFacts DEF ControlInv
    <3> QED
      BY <3>1, <1>3, RankFacts
  <2> QED
    BY <2>1, <1>1, <1>2, <1>4
<1>9. Views' = Views
  <2>1. Views'[e] = Views[e]
    BY <1>2, <1>3, <1>6, <1>8 DEF Views
  <2>2. ASSUME NEW x \in Ends, x # e PROVE Views'[x] = Views[x]
    BY <2>2, <1>8, EndFields DEF Views
  <2>3. Views' = [x \in Ends |-> Views'[x]] /\ Views = [x \in Ends |-> Views[x]]
    BY DEF Views
  <2> QED
    BY <2>1, <2>2, <2>3
<1>10. RestersStay
  BY <1>4, <1>7, <1>8 DEF RestersStay, Resting
<1>11. \A x \in Ends : ~Active(x) => Resting(end'[x])
  <2> SUFFICES ASSUME NEW x \in Ends, ~Active(x) PROVE Resting(end'[x])
    OBVIOUS
  <2>1. Resting(end[x])
    BY EndFacts
  <2> QED
    BY <2>1, <1>10 DEF RestersStay
<1>12. \A p \in Ranks :
          /\ checking'[p] # {} => pc[p] = "finalize" /\ order[p] = <<>>
          /\ \A x \in checking'[p] :
                    /\ x \in Coms(p)
                    /\ end'[x].at = "out" /\ end'[x].next # "none"
  <2> TAKE p \in Ranks
  <2>1. ControlInv(p) /\ checking[p] \in SUBSET Ends
    BY <1>2, RankFacts
  <2>2. checking'[p] \subseteq checking[p] /\ e \notin checking'[p]
    BY <1>8
  <2> QED
    BY <2>1, <2>2, <1>8 DEF ControlInv
<1>13. /\ end' \in [Ends -> EndType] /\ checking' \in [Ranks -> SUBSET Ends]
       /\ got' \in [Ends -> Seq(Payload)] /\ queue' \in [Ranks -> Seq(Ends)]
       /\ unpacked' \in [Ranks -> Seq([from : Ranks, data : Payload])]
       /\ queue' = queue
  <2>1. checking' = [p \in Ranks |-> checking'[p]]
    BY <1>1, <1>2
  <2> QED
    BY <2>1, <1>1, <1>2, <1>4, <1>7, <1>8, Kept
<1>14. PeersOK(Views', chan', sent', Begun, Scripts, Len(plan))
  BY <1>2, <1>4, <1>9
<1>15. ExchangeInv'
  <2> HIDE DEF Views, Begun, Scripts
  <2> QED
    BY <1>1, <1>11, <1>12, <1>13, <1>14, SamePhases
<1> QED
  BY <1>10, <1>15

LEMMA CompleteNextStep ==
    ASSUME ExchangeInv, NEW r \in Ranks, CompleteNext(r)
    PROVE  ExchangeInv' /\ RestersStay
<1> DEFINE e == Head(order[r])
           t == Proceeding(end[e], Arrived(e))
<1>1. /\ pc[r] = "finalize" /\ order[r] # <<>> /\ order[r] \in Seq(Ends)
      /\ ControlInv(r) /\ UNCHANGED rankVars
      /\ proceedToNextWait(e, Arrived(e))
  BY RankFacts DEF CompleteNext, WaitallReturns
<1>2. e \in Ends /\ e \in Coms(r) /\ e[1] = r /\ e \notin checking[r]
  <2>1. e \in Ends /\ e \in ToSet(order[r])
    BY <1>1 DEF ToSet
  <2>2. e \in Coms(r) /\ checking[r] = {}
    BY <1>1, <2>1 DEF ControlInv
  <2> QED
    BY <1>1, <2>1, <2>2, RankFacts
<1> HIDE DEF e
<1>3. /\ end \in [Ends -> EndType] /\ end[e] \in EndType
      /\ Views[e] = end[e] /\ EndOK(end[e], e, Begun[e], Scripts[e])
      /\ PeersOK(Views, chan, sent, Begun, Scripts, Len(plan))
  BY <1>2, EndFacts
<1>4. /\ end' = [end EXCEPT ![e] = t] /\ end[e].at = "out" /\ end[e].next # "none"
      /\ Arrived(e) \subseteq {c \in Chunks : end[e].req[c] = "arrived"}
      /\ UNCHANGED <<chan, sent, got>>
  BY <1>1, <1>2, <1>3, ProceedsTo
<1>5. StaysOK(end[e], t, e, Begun[e], Scripts[e]) /\ t.next = end[e].next
  BY <1>3, <1>4, Proceeds
<1> HIDE DEF t
<1>6. PeersOK([Views EXCEPT ![e] = t], chan', sent', Begun, Scripts, Len(plan))
  <2> HIDE DEF Views, Begun, Scripts
  <2> QED
    BY <1>2, <1>3, <1>4, <1>5, PeerStays
<1>7. t \in EndType /\ ~Resting(end[e]) /\ ~Resting(t)
  BY <1>4, <1>5 DEF StaysOK, Resting
<1>8. Active(e)
  BY <1>2, <1>7, EndFacts
<1>9. /\ t = IF e \in checking[e[1]] THEN [t EXCEPT !.at = t.next] ELSE t
      /\ e \in checking[e[1]] => t.at = "out" /\ t.next # "none"
  BY <1>2
<1>10. ExchangeInv'
  BY <1>1, <1>2, <1>4, <1>6, <1>7, <1>8, <1>9, Kept, OneMovesOn DEF rankVars
<1>11. RestersStay
  BY <1>2, <1>3, <1>4, <1>7 DEF RestersStay
<1> QED
  BY <1>10, <1>11

-----------------------------------------------------------------------------
(* Unpacking.                                                              *)

\* What a process appends to unpacked when it unpacks from e.
Taking(e) == [from |-> e[2], data |-> Items(end[e].data, end[e].full)]

LEMMA ItemsType ==
    ASSUME NEW d \in Payload, NEW n \in Nat
    PROVE  Items(d, n) \in Payload
<1>1. \A i \in 1 .. n : (IF i <= Len(d) THEN d[i] ELSE Garbage) \in Nat \X Nat
  <2> TAKE i \in 1 .. n
  <2>1. CASE i <= Len(d)
    <3>1. d \in Seq(Nat \X Nat) /\ i \in 1 .. Len(d)
      BY <2>1 DEF Payload
    <3> QED
      BY <2>1, <3>1, ElementOfSeq
  <2>2. CASE ~(i <= Len(d))
    BY <2>2 DEF Garbage
  <2> QED
    BY <2>1, <2>2
<1> QED
  BY <1>1 DEF Items, Payload

LEMMA ClearMoves ==
    ASSUME ExchangeInv, NEW e \in Ends, clearRecvData(e)
    PROVE  /\ Resting(end[e]) /\ e \notin checking[e[1]]
           /\ Taking(e) \in [from : Ranks, data : Payload]
           /\ \E t \in EndType :
                 /\ end' = [end EXCEPT ![e] = t] /\ Resting(t)
                 /\ PeersOK([Views EXCEPT ![e] = t], chan, sent, Begun, Scripts, Len(plan))
<1> DEFINE t == [end[e] EXCEPT !.held = FALSE, !.data = <<>>]
<1>1. /\ end \in [Ends -> EndType] /\ end[e] \in EndType /\ end[e].next = "none"
      /\ EndOK(Views[e], e, Begun[e], Scripts[e])
      /\ PeersOK(Views, chan, sent, Begun, Scripts, Len(plan))
  BY EndFacts DEF clearRecvData, isDone
<1>2. e \notin checking[e[1]] /\ Views[e] = end[e]
  BY <1>1, EndFacts
<1>3. Resting(end[e])
  BY <1>1, <1>2, RestingWhenDone
<1>4. Taking(e) \in [from : Ranks, data : Payload]
  <2>1. Items(end[e].data, end[e].full) \in Payload
    BY <1>1, ItemsType DEF EndType, Payload
  <2> QED
    BY <2>1, EndFields DEF Taking
<1>5. end' = [end EXCEPT ![e] = t]
  <2>1. end' = [end EXCEPT ![e] = [[end[e] EXCEPT !.held = FALSE] EXCEPT !.data = <<>>]]
    BY <1>1 DEF clearRecvData
  <2>2. [[end[e] EXCEPT !.held = FALSE] EXCEPT !.data = <<>>] = t
    BY <1>1 DEF EndType
  <2> QED
    BY <2>1, <2>2
<1>6. t \in EndType /\ Resting(t)
  <2>1. <<>> \in Seq(Nat \X Nat)
    OBVIOUS
  <2>2. t \in EndType /\ t.at = end[e].at /\ t.next = end[e].next /\ t.req = end[e].req
    BY <1>1, <2>1 DEF EndType
  <2> QED
    BY <2>2, <1>3 DEF Resting
<1> HIDE DEF t
<1>7. PeersOK([Views EXCEPT ![e] = t], chan, sent, Begun, Scripts, Len(plan))
  <2>1. StaysOK(Views[e], t, e, Begun[e], Scripts[e])
    BY <1>2, <1>3, <1>6, RestingStays
  <2> HIDE DEF Views, Begun, Scripts
  <2> QED
    BY <1>1, <2>1, PeerStays
<1> QED
  BY <1>2, <1>3, <1>4, <1>5, <1>6, <1>7

\* What a process unpacks from e; its object is as it was, but for the data.
Unpacks(r, e) ==
    /\ e \in Ends /\ Resting(end[e])
    /\ \E t \in EndType : end' = [end EXCEPT ![e] = t] /\ Resting(t)
    /\ unpacked' = [unpacked EXCEPT ![r] = Append(@, Taking(e))]

LEMMA UnpackedType ==
    ASSUME ExchangeInv, NEW r \in Ranks, NEW x \in [from : Ranks, data : Payload]
    PROVE  [unpacked EXCEPT ![r] = Append(@, x)]
             \in [Ranks -> Seq([from : Ranks, data : Payload])]
<1> DEFINE T == [from : Ranks, data : Payload]
<1>1. unpacked \in [Ranks -> Seq(T)] /\ x \in T
  BY Kept
<1> HIDE DEF T
<1>2. Append(unpacked[r], x) \in Seq(T)
  BY <1>1, AppendProperties
<1>3. [unpacked EXCEPT ![r] = Append(@, x)] \in [Ranks -> Seq(T)]
  BY <1>1, <1>2
<1> QED
  BY <1>3 DEF T

LEMMA PopStep ==
    ASSUME ExchangeInv, NEW r \in Ranks, PopCompleted(r)
    PROVE  /\ ExchangeInv'
           /\ Head(queue[r])[3] = "recv" => Unpacks(r, Head(queue[r]))
           /\ Head(queue[r])[3] # "recv" => UNCHANGED <<end, unpacked>>
<1> DEFINE e == Head(queue[r])
<1>1. /\ pc[r] = "finalize" /\ queue[r] # <<>>
      /\ queue' = [queue EXCEPT ![r] = Tail(@)]
      /\ IF e[3] = "recv" THEN Unpack(r, e) ELSE UNCHANGED <<end, unpacked>>
      /\ UNCHANGED <<chan, sent, got, plan, inOrder, epoch, pc, order, checking>>
  BY DEF PopCompleted
<1>2. queue \in [Ranks -> Seq(Ends)] /\ queue[r] \in Seq(Ends) /\ e \in Ends
      /\ Tail(queue[r]) \in Seq(Ends)
  BY <1>1, Kept
<1> HIDE DEF e
<1>3. /\ queue' \in [Ranks -> Seq(Ends)] /\ got' \in [Ends -> Seq(Payload)]
      /\ \A p \in Ranks : pc[p] = "idle" => queue'[p] = queue[p]
  BY <1>1, <1>2, Kept
<1>4. CASE e[3] = "recv"
  <2>1. clearRecvData(e) /\ unpacked' = [unpacked EXCEPT ![r] = Append(@, Taking(e))]
    BY <1>1, <1>4 DEF Unpack, Taking
  <2>2. PICK t \in EndType :
           /\ end' = [end EXCEPT ![e] = t] /\ Resting(t)
           /\ PeersOK([Views EXCEPT ![e] = t], chan, sent, Begun, Scripts, Len(plan))
    BY <1>2, <2>1, ClearMoves
  <2>3. /\ Resting(end[e]) /\ e \notin checking[e[1]]
        /\ Taking(e) \in [from : Ranks, data : Payload]
    BY <1>2, <2>1, ClearMoves
  <2>4. unpacked' \in [Ranks -> Seq([from : Ranks, data : Payload])]
    BY <2>1, <2>3, UnpackedType
  <2>5. /\ t = IF e \in checking[e[1]] THEN [t EXCEPT !.at = t.next] ELSE t
        /\ e \in checking[e[1]] => t.at = "out" /\ t.next # "none"
    BY <2>3
  <2>6. PeersOK([Views EXCEPT ![e] = t], chan', sent', Begun, Scripts, Len(plan))
    BY <2>2, <1>1
  <2>7. ExchangeInv'
    BY <1>1, <1>2, <1>3, <2>2, <2>4, <2>5, <2>6, OneMovesOn
  <2> QED
    BY <1>2, <1>4, <2>1, <2>2, <2>3, <2>7 DEF Unpacks, e
<1>5. CASE e[3] # "recv"
  <2>1. end' = end /\ unpacked' = unpacked
    BY <1>1, <1>5
  <2>2. Views' = Views
    BY <1>1, <2>1 DEF Views
  <2>3. /\ end' \in [Ends -> EndType] /\ checking' \in [Ranks -> SUBSET Ends]
        /\ unpacked' \in [Ranks -> Seq([from : Ranks, data : Payload])]
        /\ PeersOK(Views', chan', sent', Begun, Scripts, Len(plan))
    BY <1>1, <2>1, <2>2, Kept DEF ExchangeInv, TypeOK, PeersTypeOK, StreamsInv
  <2>4. \A x \in Ends : ~Active(x) => Resting(end'[x])
    BY <2>1 DEF ExchangeInv, StreamsInv
  <2>5. \A p \in Ranks :
           /\ checking'[p] # {} => pc[p] = "finalize" /\ order[p] = <<>>
           /\ \A x \in checking'[p] :
                    /\ x \in Coms(p)
                    /\ end'[x].at = "out" /\ end'[x].next # "none"
    <3> TAKE p \in Ranks
    <3>1. ControlInv(p)
      BY RankFacts
    <3> QED
      BY <3>1, <1>1, <2>1 DEF ControlInv
  <2>6. ExchangeInv'
    <3> HIDE DEF Views, Begun, Scripts
    <3> QED
      BY <1>1, <1>3, <2>3, <2>4, <2>5, SamePhases
  <2> QED
    BY <1>5, <2>1, <2>6 DEF e
<1> QED
  BY <1>4, <1>5

-----------------------------------------------------------------------------
(* A process goes on in communicate().                                     *)

LEMMA InToSet ==
    ASSUME NEW S, NEW q \in Seq(S), NEW x
    PROVE  x \in ToSet(q) <=> Contains(q, x)
BY DEF ToSet, Contains

\* The rest of a queue, when its head is taken.
LEMMA TailFacts ==
    ASSUME NEW S, NEW q \in Seq(S), q # <<>>
    PROVE  /\ Tail(q) \in Seq(S) /\ Head(q) \in S /\ Contains(q, Head(q))
           /\ Len(q) \in Nat /\ Len(q) >= 1 /\ Len(Tail(q)) = Len(q) - 1
           /\ \A i \in 1 .. Len(Tail(q)) : i + 1 \in 1 .. Len(q) /\ Tail(q)[i] = q[i + 1]
           /\ \A x : Contains(q, x) => x = Head(q) \/ Contains(Tail(q), x)
           /\ \A x : Contains(Tail(q), x) => Contains(q, x)
           /\ IsInjective(q) => IsInjective(Tail(q)) /\ ~Contains(Tail(q), Head(q))
<1> DEFINE t == Tail(q)
           n == Len(q)
<1>1. /\ t \in Seq(S) /\ Head(q) \in S /\ Head(q) = q[1]
      /\ n \in Nat /\ n >= 1 /\ Len(t) = n - 1
      /\ \A i \in 1 .. Len(t) : t[i] = q[i + 1]
      /\ DOMAIN q = 1 .. n /\ DOMAIN t = 1 .. (n - 1)
  OBVIOUS
<1> HIDE DEF t, n
<1>2. \A i \in 1 .. Len(t) : i + 1 \in 1 .. n
  BY <1>1
<1>3. \A i \in 1 .. n : i = 1 \/ (i - 1 \in 1 .. Len(t) /\ (i - 1) + 1 = i)
  BY <1>1
<1>4. Contains(q, Head(q))
  <2>1. 1 \in 1 .. n
    BY <1>1
  <2> QED
    BY <2>1, <1>1 DEF Contains, n
<1>5. ASSUME NEW x, Contains(q, x) PROVE x = Head(q) \/ Contains(t, x)
  <2>1. PICK i \in 1 .. n : q[i] = x
    BY <1>5 DEF Contains, n
  <2>2. CASE i = 1
    BY <2>1, <2>2, <1>1
  <2>3. CASE i - 1 \in 1 .. Len(t) /\ (i - 1) + 1 = i
    <3>1. t[i - 1] = x
      BY <2>1, <2>3, <1>1
    <3> QED
      BY <2>3, <3>1 DEF Contains
  <2> QED
    BY <2>2, <2>3, <1>3
<1>6. \A x : Contains(t, x) => Contains(q, x)
  BY <1>1, <1>2 DEF Contains, n
<1>7. ASSUME IsInjective(q) PROVE IsInjective(t) /\ ~Contains(t, Head(q))
  <2>1. \A i, j \in 1 .. n : q[i] = q[j] => i = j
    BY <1>1, <1>7 DEF IsInjective
  <2>2. ASSUME NEW i \in 1 .. Len(t), NEW j \in 1 .. Len(t), t[i] = t[j]
        PROVE  i = j
    <3>1. q[i + 1] = q[j + 1] /\ i + 1 \in 1 .. n /\ j + 1 \in 1 .. n
      BY <2>2, <1>1, <1>2
    <3>2. i + 1 = j + 1
      BY <3>1, <2>1
    <3> QED
      BY <3>2
  <2>3. \A i \in 1 .. Len(t) : t[i] # q[1]
    <3> TAKE i \in 1 .. Len(t)
    <3>1. t[i] = q[i + 1] /\ i + 1 \in 1 .. n /\ 1 \in 1 .. n /\ i + 1 # 1
      BY <1>1, <1>2
    <3> QED
      BY <3>1, <2>1
  <2> QED
    BY <2>2, <2>3, <1>1 DEF IsInjective, Contains
<1> QED
  BY <1>1, <1>2, <1>4, <1>5, <1>6, <1>7 DEF t, n

LEMMA YankedType ==
    ASSUME NEW q \in Seq(Ends), NEW e
    PROVE  Yanked(q, e) \in Seq(Ends)
<1>1. CASE Contains(q, e)
  <2> DEFINE i == CHOOSE j \in DOMAIN q : q[j] = e
  <2>1. i \in 1 .. Len(q) /\ Len(q) \in Nat
    <3>1. \E j \in DOMAIN q : q[j] = e
      BY <1>1 DEF Contains
    <3>2. i \in DOMAIN q
      BY <3>1
    <3> QED
      BY <3>2
  <2> HIDE DEF i
  <2>2. SubSeq(q, 1, i - 1) \in Seq(Ends) /\ SubSeq(q, i + 1, Len(q)) \in Seq(Ends)
    BY <2>1
  <2>3. RemoveAt(q, i) \in Seq(Ends)
    BY <2>2, ConcatProperties DEF RemoveAt
  <2> QED
    BY <1>1, <2>3 DEF Yanked, i
<1>2. CASE ~Contains(q, e)
  BY <1>2 DEF Yanked
<1> QED
  BY <1>1, <1>2

\* Process r is not, or no longer, posting; it had nothing left to post.
LEMMA NothingToPost ==
    ASSUME ExchangeInv, NEW r \in Ranks, UNCHANGED <<plan, epoch>>,
           \A p \in Ranks : p # r => pc'[p] = pc[p] /\ order'[p] = order[p],
           pc'[r] # "begin", \A e \in Ends : e[1] = r => ~Unposted(e)
    PROVE  /\ Begun' = Begun /\ Scripts' = Scripts
           /\ \A p : Coms(p)' = Coms(p)
           /\ \A e \in Ends :
                 /\ Unposted(e)' <=> Unposted(e)
                 /\ e[1] # r \/ (pc[r] # "idle" /\ pc'[r] # "idle")
                       => (Active(e)' <=> Active(e))
                 /\ e[1] = r /\ pc'[r] = "idle" => ~Active(e)'
<1>1. Scripts' = Scripts /\ \A p : Coms(p)' = Coms(p)
  BY SameScripts DEF Coms
<1>2. ASSUME NEW e \in Ends PROVE Unposted(e)' <=> Unposted(e)
  <2>1. e[1] \in Ranks
    BY EndFields
  <2>2. CASE e[1] = r
    BY <2>2 DEF Unposted
  <2>3. CASE e[1] # r
    BY <2>1, <2>3 DEF Unposted
  <2> QED
    BY <2>2, <2>3
<1>3. Begun' = Begun
  BY <1>2 DEF Begun
<1>4. ASSUME NEW e \in Ends
      PROVE  /\ e[1] # r \/ (pc[r] # "idle" /\ pc'[r] # "idle")
                   => (Active(e)' <=> Active(e))
             /\ e[1] = r /\ pc'[r] = "idle" => ~Active(e)'
  <2>1. e[1] \in Ranks
    BY EndFields
  <2>2. CASE e[1] = r
    BY <1>1, <1>2, <2>2 DEF Active
  <2>3. CASE e[1] # r
    BY <1>1, <1>2, <2>1, <2>3 DEF Active
  <2> QED
    BY <2>2, <2>3
<1> QED
  BY <1>1, <1>2, <1>3, <1>4

\* Process r goes on to another phase, or another Peer; the others stay.
OthersStay(r) ==
    /\ UNCHANGED <<plan, inOrder>>
    /\ \A p \in Ranks : p # r =>
          /\ epoch'[p] = epoch[p] /\ pc'[p] = pc[p] /\ order'[p] = order[p]
          /\ checking'[p] = checking[p] /\ queue'[p] = queue[p]
          /\ unpacked'[p] = unpacked[p]
    /\ \A e \in Ends : e[1] # r => end'[e] = end[e]

RanksTyped ==
    /\ epoch \in [Ranks -> 0 .. Len(plan)]
    /\ pc \in [Ranks -> Phases]
    /\ order \in [Ranks -> Seq(Ends)]
    /\ checking \in [Ranks -> SUBSET Ends]
    /\ queue \in [Ranks -> Seq(Ends)]
    /\ unpacked \in [Ranks -> Seq([from : Ranks, data : Payload])]

LEMMA RankMoves ==
    ASSUME ExchangeInv, NEW r \in Ranks, OthersStay(r), RanksTyped',
           PeersOK(Views', chan', sent', Begun', Scripts, Len(plan)),
           end' \in [Ends -> EndType], got' = got,
           \A e \in Ends : e[1] = r /\ ~Active(e)' => Resting(end'[e]),
           ControlInv(r)'
    PROVE  ExchangeInv'
<1>1. /\ chan' \in [Ends -> [Chunks -> Seq(Message)]]
      /\ sent' \in [Ends -> Seq(Payload)]
  BY DEF PeersOK
<1>2. TypeOK'
  BY <1>1 DEF ExchangeInv, TypeOK, PeersTypeOK, RanksTyped, OthersStay
<1>3. Scripts' = Scripts /\ Len(plan)' = Len(plan)
  BY SameScripts DEF OthersStay
<1>4. ASSUME NEW e \in Ends, ~Active(e)' PROVE Resting(end'[e])
  <2>1. CASE e[1] # r
    <3>1. e[1] \in Ranks
      BY EndFields
    <3>2. /\ epoch'[e[1]] = epoch[e[1]] /\ pc'[e[1]] = pc[e[1]]
          /\ order'[e[1]] = order[e[1]] /\ end'[e] = end[e] /\ plan' = plan
      BY <2>1, <3>1 DEF OthersStay
    <3>3. Coms(e[1])' = Coms(e[1])
      BY <3>2, SameScripts DEF Coms
    <3>4. Active(e)' <=> Active(e)
      BY <3>2, <3>3 DEF Active, Unposted
    <3> QED
      BY <1>4, <3>2, <3>4, EndFacts
  <2> QED
    BY <2>1, <1>4
<1>5. StreamsInv'
  BY <1>3, <1>4 DEF StreamsInv
<1>6. ASSUME NEW p \in Ranks PROVE ControlInv(p)'
  <2>1. CASE p # r
    <3>1. /\ epoch'[p] = epoch[p] /\ pc'[p] = pc[p] /\ order'[p] = order[p]
          /\ checking'[p] = checking[p] /\ queue'[p] = queue[p] /\ plan' = plan
      BY <2>1 DEF OthersStay
    <3>2. Coms(p)' = Coms(p)
      BY <3>1, SameScripts DEF Coms
    <3>3. ControlInv(p)
      BY RankFacts
    <3>4. \A e \in checking[p] : end'[e] = end[e]
      <4> TAKE e \in checking[p]
      <4>1. e \in Coms(p) /\ pc[p] # "idle"
        BY <3>3 DEF ControlInv
      <4>2. e \in Ends /\ e[1] = p
        BY <4>1, RankFacts
      <4> QED
        BY <2>1, <4>2 DEF OthersStay
    <3> QED
      BY <3>1, <3>2, <3>3, <3>4 DEF ControlInv
  <2> QED
    BY <2>1
<1> QED
  BY <1>2, <1>5, <1>6 DEF ExchangeInv

LEMMA UnpackNextStep ==
    ASSUME ExchangeInv, NEW r \in Ranks, UnpackNext(r)
    PROVE  /\ ExchangeInv' /\ OthersStay(r)
           /\ Unpacks(r, Head(order[r])) /\ Head(order[r])[1] = r
           /\ \A x \in Ends : Active(x)' <=> Active(x)
<1> DEFINE e == Head(order[r])
<1>1. /\ pc[r] = "finalize" /\ order[r] # <<>> /\ Unpack(r, e)
      /\ queue' = [queue EXCEPT ![r] = Yanked(@, e)]
      /\ order' = [order EXCEPT ![r] = Tail(@)]
      /\ UNCHANGED <<chan, sent, got, plan, inOrder, epoch, pc, checking>>
  BY DEF UnpackNext
<1>2. /\ order[r] \in Seq(Ends) /\ ControlInv(r) /\ queue[r] \in Seq(Ends)
      /\ order \in [Ranks -> Seq(Ends)] /\ queue \in [Ranks -> Seq(Ends)]
      /\ checking \in [Ranks -> SUBSET Ends]
      /\ unpacked \in [Ranks -> Seq([from : Ranks, data : Payload])]
      /\ end \in [Ends -> EndType]
  BY RankFacts, Kept DEF ExchangeInv, TypeOK, PeersTypeOK
<1>3. /\ e \in Ends /\ Contains(order[r], e) /\ Tail(order[r]) \in Seq(Ends)
      /\ \A x : Contains(Tail(order[r]), x) => Contains(order[r], x)
  BY <1>1, <1>2, TailFacts
<1> HIDE DEF e
<1>4. e[1] = r
  <2>1. e \in Coms(r)
    BY <1>2, <1>3, InToSet DEF ControlInv
  <2> QED
    BY <1>1, <2>1, RankFacts
<1>5. clearRecvData(e) /\ unpacked' = [unpacked EXCEPT ![r] = Append(@, Taking(e))]
  BY <1>1 DEF Unpack, Taking
<1>6. PICK t \in EndType :
         /\ end' = [end EXCEPT ![e] = t] /\ Resting(t)
         /\ PeersOK([Views EXCEPT ![e] = t], chan, sent, Begun, Scripts, Len(plan))
  BY <1>3, <1>5, ClearMoves
<1>7. /\ Resting(end[e]) /\ e \notin checking[e[1]]
      /\ Taking(e) \in [from : Ranks, data : Payload]
  BY <1>3, <1>5, ClearMoves
<1>8. Unpacks(r, e)
  BY <1>3, <1>5, <1>6, <1>7 DEF Unpacks
<1>9. Views' = [Views EXCEPT ![e] = t] /\ end' \in [Ends -> EndType]
  BY <1>1, <1>2, <1>3, <1>6, <1>7, OneView
<1>10. /\ Begun' = Begun /\ \A p : Coms(p)' = Coms(p)
       /\ \A x \in Ends : Active(x)' <=> Active(x)
  BY <1>1, <1>2, NothingToPost DEF Unposted
<1>11. RanksTyped'
  <2>1. unpacked' \in [Ranks -> Seq([from : Ranks, data : Payload])]
    BY <1>5, <1>7, UnpackedType
  <2>2. queue' \in [Ranks -> Seq(Ends)]
    BY <1>1, <1>2, YankedType
  <2>3. order' \in [Ranks -> Seq(Ends)]
    BY <1>1, <1>2, <1>3
  <2> QED
    BY <1>1, <1>2, <2>1, <2>2, <2>3, RankFacts DEF RanksTyped
<1>12. \A x \in Ends : e # x => end'[x] = end[x]
  BY <1>2, <1>6
<1>13. OthersStay(r)
  BY <1>1, <1>2, <1>4, <1>5, <1>12 DEF OthersStay
<1>14. \A x \in Ends : ~Active(x)' => Resting(end'[x])
  <2> SUFFICES ASSUME NEW x \in Ends, ~Active(x) PROVE Resting(end'[x])
    BY <1>10
  <2> QED
    BY <1>2, <1>3, <1>6, <1>12, EndFacts
<1>15. ControlInv(r)'
  <2>1. order'[r] = Tail(order[r]) /\ checking'[r] = checking[r] /\ pc'[r] = "finalize"
        /\ epoch'[r] = epoch[r] /\ checking[r] = {}
    BY <1>1, <1>2 DEF ControlInv
  <2>2. \A x \in ToSet(order'[r]) : x \in Coms(r)
    BY <2>1, <1>2, <1>3, InToSet DEF ControlInv
  <2> QED
    BY <2>1, <2>2, <1>2, <1>1, <1>10 DEF ControlInv
<1>16. PeersOK(Views', chan', sent', Begun', Scripts, Len(plan))
  BY <1>1, <1>6, <1>9, <1>10
<1>17. ExchangeInv'
  <2> HIDE DEF Views, Begun, Scripts
  <2> QED
    BY <1>1, <1>9, <1>11, <1>13, <1>14, <1>15, <1>16, RankMoves
<1> QED
  BY <1>4, <1>8, <1>10, <1>13, <1>17 DEF e

\* The receives of a call, by rank.
LEMMA ByRankFacts ==
    ASSUME plan \in Plans, NEW r \in Ranks, epoch[r] \in 1 .. Len(plan)
    PROVE  /\ Enumerates(ByRank(r), {<<r, l.src, "recv">> : l \in LinksIn(r, epoch[r])})
           /\ \A i, j \in 1 .. Len(ByRank(r)) : i < j => ByRank(r)[i][2] < ByRank(r)[j][2]
<1> DEFINE S == {l.src : l \in LinksIn(r, epoch[r])}
           a == Ascending(S)
<1>1. S \in SUBSET Nat /\ IsFiniteSet(S)
  <2>1. S \in SUBSET Ranks
    BY LinkFields DEF LinksIn
  <2>2. Ranks \subseteq Nat /\ IsFiniteSet(Ranks)
    BY ScheduleAssumption
  <2> HIDE DEF S
  <2> QED
    BY <2>1, <2>2, FS_Subset
<1> HIDE DEF S
<1>2. /\ Enumerates(a, S)
      /\ \A i, j \in 1 .. Len(a) : i < j => a[i] < a[j]
  BY <1>1, AscendingOrder
<1> HIDE DEF a
<1>3. Enumerates(Toward(r, "recv", a), {<<r, x, "recv">> : x \in S})
  BY <1>2, TowardEnumerates
<1>4. {<<r, x, "recv">> : x \in S} = {<<r, l.src, "recv">> : l \in LinksIn(r, epoch[r])}
  BY DEF S
<1>5. ByRank(r) = Toward(r, "recv", a)
  BY DEF ByRank, a, S
<1>6. /\ DOMAIN a = 1 .. Len(a) /\ Len(a) \in Nat
      /\ Len(Toward(r, "recv", a)) = Len(a)
      /\ \A i \in 1 .. Len(a) : Toward(r, "recv", a)[i] = <<r, a[i], "recv">>
  <2>1. a \in Seq(S)
    BY <1>2 DEF Enumerates
  <2>2. DOMAIN a = 1 .. Len(a) /\ Len(a) \in Nat
    BY <2>1
  <2>3. Toward(r, "recv", a) = [i \in 1 .. Len(a) |-> <<r, a[i], "recv">>]
    BY <2>2 DEF Toward
  <2> QED
    BY <2>2, <2>3
<1>7. Enumerates(ByRank(r), {<<r, l.src, "recv">> : l \in LinksIn(r, epoch[r])})
  BY <1>3, <1>4, <1>5
<1> DEFINE b == ByRank(r)
<1>8. Len(b) = Len(a) /\ \A i \in 1 .. Len(a) : b[i][2] = a[i]
  BY <1>5, <1>6
<1> HIDE DEF b
<1>9. \A i, j \in 1 .. Len(b) : i < j => b[i][2] < b[j][2]
  BY <1>2, <1>8
<1> QED
  BY <1>7, <1>9 DEF b

LEMMA LocalCopiesStep ==
    ASSUME ExchangeInv, NEW r \in Ranks, performLocalCopies(r)
    PROVE  /\ ExchangeInv' /\ OthersStay(r)
           /\ \A x \in Ends : Active(x)' <=> Active(x)
<1>1. /\ pc[r] = "begin" /\ order[r] = <<>>
      /\ unpacked' = [unpacked EXCEPT ![r] = <<[from |-> r, data |-> <<>>]>>]
      /\ pc' = [pc EXCEPT ![r] = "finalize"]
      /\ order' = [order EXCEPT ![r] = IF inOrder THEN ByRank(r) ELSE <<>>]
      /\ UNCHANGED <<end, chan, sent, got, plan, inOrder, epoch, checking, queue>>
  BY DEF performLocalCopies, peerVars
<1>2. /\ order \in [Ranks -> Seq(Ends)] /\ ControlInv(r) /\ plan \in Plans
      /\ pc \in [Ranks -> Phases] /\ epoch[r] \in 1 .. Len(plan)
      /\ checking \in [Ranks -> SUBSET Ends]
      /\ unpacked \in [Ranks -> Seq([from : Ranks, data : Payload])]
      /\ end \in [Ends -> EndType]
  BY <1>1, RankFacts, Kept DEF ExchangeInv, TypeOK, PeersTypeOK
<1>3. \A x \in Ends : x[1] = r => ~Unposted(x)
  BY <1>1 DEF Unposted, Contains
<1>4. /\ Begun' = Begun /\ \A p : Coms(p)' = Coms(p)
      /\ \A x \in Ends : Active(x)' <=> Active(x)
  BY <1>1, <1>2, <1>3, NothingToPost
<1> DEFINE In == {<<r, l.src, "recv">> : l \in LinksIn(r, epoch[r])}
<1>5. order'[r] \in Seq(In) /\ In \in SUBSET Coms(r)
  <2>1. ByRank(r) \in Seq(In)
    BY <1>2, ByRankFacts DEF Enumerates
  <2>2. <<>> \in Seq(In)
    OBVIOUS
  <2> QED
    BY <2>1, <2>2, <1>1, <1>2 DEF Coms, ComsOf
<1> HIDE DEF In
<1>6. order'[r] \in Seq(Ends) /\ In \in SUBSET Ends
  <2>1. In \in SUBSET Ends
    BY <1>1, <1>5, RankFacts
  <2> QED
    BY <2>1, <1>5, SeqMonotonic
<1>7. RanksTyped'
  <2>1. order' \in [Ranks -> Seq(Ends)]
    BY <1>1, <1>2, <1>6
  <2>2. pc' \in [Ranks -> Phases]
    BY <1>1, <1>2 DEF Phases
  <2>3. unpacked' \in [Ranks -> Seq([from : Ranks, data : Payload])]
    <3> DEFINE T == [from : Ranks, data : Payload]
    <3>1. [from |-> r, data |-> <<>>] \in T
      BY DEF Payload
    <3> HIDE DEF T
    <3>2. <<[from |-> r, data |-> <<>>]>> \in Seq(T)
      BY <3>1
    <3>3. unpacked' \in [Ranks -> Seq(T)]
      BY <3>2, <1>1, <1>2 DEF T
    <3> QED
      BY <3>3 DEF T
  <2> QED
    BY <1>1, <2>1, <2>2, <2>3, RankFacts, Kept DEF RanksTyped
<1>8. OthersStay(r)
  BY <1>1, <1>2 DEF OthersStay
<1>9. Views' = Views
  BY <1>1 DEF Views
<1>10. PeersOK(Views', chan', sent', Begun', Scripts, Len(plan))
  BY <1>1, <1>4, <1>9 DEF ExchangeInv, StreamsInv
<1>11. \A x \in Ends : ~Active(x)' => Resting(end'[x])
  BY <1>1, <1>4, EndFacts
<1>12. ControlInv(r)'
  <2>1. checking'[r] = {} /\ pc'[r] = "finalize" /\ epoch'[r] = epoch[r]
    BY <1>1, <1>2 DEF ControlInv
  <2>2. \A x \in ToSet(order'[r]) : x \in Coms(r)
    <3>1. \A x \in ToSet(order'[r]) : x \in In
      BY <1>5 DEF ToSet
    <3> QED
      BY <3>1, <1>5
  <2>3. epoch[r] >= 1
    BY <1>2
  <2> QED
    BY <2>1, <2>2, <2>3, <1>4 DEF ControlInv
<1>13. ExchangeInv'
  <2> HIDE DEF Views, Begun, Scripts
  <2> QED
    BY <1>1, <1>2, <1>7, <1>8, <1>10, <1>11, <1>12, RankMoves
<1> QED
  BY <1>4, <1>8, <1>13

LEMMA FinalizeStep ==
    ASSUME ExchangeInv, NEW r \in Ranks, finalizeEnds(r)
    PROVE  /\ ExchangeInv' /\ OthersStay(r)
           /\ \A e \in Coms(r) : Resting(end[e])
<1>1. /\ pc[r] = "finalize" /\ order[r] = <<>> /\ Outside(r) /\ checking[r] = {}
      /\ Pending(r) = {}
      /\ pc' = [pc EXCEPT ![r] = "idle"]
      /\ queue' = [queue EXCEPT ![r] = <<>>]
      /\ end' = [e \in Ends |-> IF e \in Coms(r) THEN NewEnd ELSE end[e]]
      /\ UNCHANGED <<chan, sent, got, plan, inOrder, epoch, order, checking, unpacked>>
  BY DEF finalizeEnds, Advancing, Through
<1>2. /\ ControlInv(r) /\ plan \in Plans
      /\ pc \in [Ranks -> Phases] /\ epoch[r] \in 1 .. Len(plan)
      /\ checking \in [Ranks -> SUBSET Ends] /\ queue \in [Ranks -> Seq(Ends)]
      /\ order \in [Ranks -> Seq(Ends)]
      /\ end \in [Ends -> EndType]
      /\ PeersOK(Views, chan, sent, Begun, Scripts, Len(plan))
  BY <1>1, RankFacts, Kept DEF ExchangeInv, TypeOK, PeersTypeOK, StreamsInv
<1>3. ASSUME NEW e \in Coms(r) PROVE Resting(end[e]) /\ e \in Ends /\ e[1] = r
  <2>1. e \in Ends /\ e[1] = r
    BY <1>1, RankFacts
  <2>2. end[e].at = "out" /\ Views[e] = end[e] /\ EndOK(end[e], e, Begun[e], Scripts[e])
    BY <2>1, <1>1, EndFacts DEF Outside
  <2>3. \A c \in Chunks : end[e].req[c] = "null"
    <3> TAKE c \in Chunks
    <3>1. <<e, c>> \notin Pending(r) /\ <<e, c>> \in Coms(r) \X Chunks
      BY <1>1
    <3> QED
      BY <3>1 DEF Pending
  <2>4. 0 \in Chunks /\ 1 \in Chunks
    BY DEF Chunks
  <2> QED
    BY <2>1, <2>2, <2>3, <2>4 DEF EndOK, Resting, Sending, AwaitsFirst, AwaitsRest, SendOver
<1>4. \A x \in Ends : x[1] = r => ~Unposted(x)
  BY <1>1 DEF Unposted
<1>5. Begun' = Begun /\ \A p : Coms(p)' = Coms(p)
  BY <1>1, <1>2, <1>4, NothingToPost
<1>6. NewEnd \in EndType /\ Resting(NewEnd)
  BY DEF NewEnd, EndType, Resting, TaskOps, Chunks
<1>7. /\ end' \in [Ends -> EndType]
      /\ \A x \in Ends : /\ x[1] # r => end'[x] = end[x]
                         /\ x[1] = r => Resting(end[x]) /\ Resting(end'[x])
  <2>1. ASSUME NEW x \in Ends, x[1] = r PROVE Resting(end[x]) /\ Resting(end'[x])
    <3>1. x \notin Coms(r) => ~Active(x)
      BY <2>1 DEF Active
    <3>2. x \notin Coms(r) => Resting(end[x])
      BY <3>1, EndFacts
    <3> QED
      BY <3>2, <1>1, <1>3, <1>6
  <2> QED
    BY <2>1, <1>1, <1>2, <1>3, <1>6
<1> HIDE DEF NewEnd
<1>8. PeersOK(Views', chan', sent', Begun', Scripts, Len(plan))
  <2>1. ASSUME NEW x \in Ends
        PROVE  Views'[x] \in EndType /\ StaysOK(Views[x], Views'[x], x, Begun[x], Scripts[x])
    <3>1. CASE x[1] = r
      <4>1. Views[x] = end[x] /\ Views'[x] = end'[x]
        BY <3>1, <1>1 DEF Views
      <4>2. end'[x] \in EndType
        BY <1>7
      <4> QED
        BY <3>1, <4>1, <4>2, <1>7, RestingStays
    <3>2. CASE x[1] # r
      <4>1. Views'[x] = Views[x]
        BY <3>2, <1>1, <1>7 DEF Views
      <4>2. Views[x] \in EndType /\ EndOK(Views[x], x, Begun[x], Scripts[x])
        BY <1>2, PeerFacts
      <4> QED
        BY <4>1, <4>2 DEF StaysOK
    <3> QED
      BY <3>1, <3>2
  <2>2. Views' \in [Ends -> EndType]
    <3>1. Views' = [e \in Ends |-> Views'[e]]
      BY DEF Views
    <3> QED
      BY <3>1, <2>1
  <2>3. Begun \in [Ends -> 0 .. Len(plan)]
    BY <1>2 DEF PeersOK
  <2> HIDE DEF Views, Begun, Scripts
  <2>4. PeersOK(Views', chan, sent, Begun, Scripts, Len(plan))
    BY <1>2, <2>1, <2>2, <2>3, PeersStay
  <2> QED
    BY <2>4, <1>1, <1>5
<1>9. RanksTyped'
  <2>1. queue' \in [Ranks -> Seq(Ends)]
    BY <1>1, <1>2
  <2>2. pc' \in [Ranks -> Phases]
    BY <1>1, <1>2 DEF Phases
  <2> QED
    BY <1>1, <2>1, <2>2, RankFacts, Kept DEF RanksTyped
<1>10. OthersStay(r)
  BY <1>1, <1>2, <1>7 DEF OthersStay
<1>11. ControlInv(r)'
  <2>1. checking'[r] = {} /\ pc'[r] = "idle" /\ queue'[r] = <<>> /\ order'[r] = <<>>
    BY <1>1, <1>2
  <2> QED
    BY <2>1 DEF ControlInv, ToSet
<1>12. ExchangeInv'
  <2> HIDE DEF Views, Begun, Scripts
  <2> QED
    BY <1>1, <1>7, <1>8, <1>9, <1>10, <1>11, RankMoves
<1> QED
  BY <1>3, <1>10, <1>12

LEMMA EnumerationHas ==
    ASSUME NEW S, NEW s, Enumerates(s, S)
    PROVE  /\ s \in Seq(S) /\ IsInjective(s)
           /\ \A x : Contains(s, x) <=> x \in S
           /\ \A x : x \in ToSet(s) <=> x \in S
<1>1. s \in Seq(S) /\ DOMAIN s = 1 .. Len(s) /\ \A i \in 1 .. Len(s) : s[i] \in S
  BY ElementOfSeq, LenProperties DEF Enumerates
<1>2. IsInjective(s)
  BY <1>1 DEF Enumerates, IsInjective
<1>3. \A x : Contains(s, x) <=> x \in S
  BY <1>1 DEF Enumerates, Contains
<1>4. \A x : x \in ToSet(s) <=> x \in S
  BY <1>1, <1>3, InToSet
<1> QED
  BY <1>1, <1>2, <1>3, <1>4

LEMMA AllocateStep ==
    ASSUME ExchangeInv, NEW r \in Ranks, Allocate(r)
    PROVE  /\ ExchangeInv' /\ OthersStay(r)
           /\ \A e \in Ends : ~Active(e)' \/ e[1] # r
<1> DEFINE k == epoch[r] + 1
           Set == limitFirstDataLength(NewEnd, FirstLength)
           o == RecvOrder(r, k) \o SendOrder(r, k)
<1>1. /\ pc[r] = "idle" /\ epoch[r] < Len(plan)
      /\ epoch' = [epoch EXCEPT ![r] = k]
      /\ end' = [e \in Ends |-> IF e \in ComsOf(r, k) THEN Set ELSE end[e]]
      /\ order' = [order EXCEPT ![r] = o]
      /\ pc' = [pc EXCEPT ![r] = "begin"]
      /\ unpacked' = [unpacked EXCEPT ![r] = <<>>]
      /\ UNCHANGED <<chan, sent, got, plan, inOrder, checking, queue>>
  BY DEF Allocate
<1>2. /\ ControlInv(r) /\ plan \in Plans /\ Len(plan) \in Nat
      /\ pc \in [Ranks -> Phases]
      /\ epoch \in [Ranks -> 0 .. Len(plan)] /\ epoch[r] \in Nat
      /\ checking \in [Ranks -> SUBSET Ends] /\ queue \in [Ranks -> Seq(Ends)]
      /\ order \in [Ranks -> Seq(Ends)]
      /\ unpacked \in [Ranks -> Seq([from : Ranks, data : Payload])]
      /\ end \in [Ends -> EndType]
      /\ PeersOK(Views, chan, sent, Begun, Scripts, Len(plan))
  BY <1>1, RankFacts, Kept DEF ExchangeInv, TypeOK, PeersTypeOK, StreamsInv
<1>3. k \in 1 .. Len(plan) /\ k \in 0 .. Len(plan) /\ k >= 1
  BY <1>1, <1>2
<1>4. Set \in EndType /\ Resting(Set)
  <2>1. FirstLength \in Nat
    BY ScheduleAssumption
  <2>2. NewEnd \in EndType /\ Resting(NewEnd)
    BY DEF NewEnd, EndType, Resting, TaskOps, Chunks
  <2> HIDE DEF NewEnd
  <2>3. Set \in EndType /\ Set.at = NewEnd.at /\ Set.next = NewEnd.next
        /\ Set.req = NewEnd.req
    BY <2>1, <2>2, LimitedType
  <2> QED
    BY <2>2, <2>3 DEF Resting
<1>5. /\ o \in Seq(ComsOf(r, k)) /\ IsInjective(o)
      /\ \A x : Contains(o, x) <=> x \in ComsOf(r, k)
      /\ \A x : x \in ToSet(o) <=> x \in ComsOf(r, k)
  <2>1. Enumerates(o, ComsOf(r, k))
    BY <1>2, <1>3, PostsEach
  <2> HIDE DEF o
  <2> QED
    BY <2>1, EnumerationHas
<1>6. \A e \in ComsOf(r, k) : e \in Ends /\ e[1] = r
  BY <1>2, <1>3, ComsFacts
<1> HIDE DEF k, Set, o
<1>7. o \in Seq(Ends)
  <2>1. ComsOf(r, k) \subseteq Ends
    BY <1>6
  <2> QED
    BY <2>1, <1>5, SeqMonotonic
<1>8. epoch'[r] = k /\ pc'[r] = "begin" /\ order'[r] = o /\ checking' = checking
      /\ checking[r] = {} /\ plan' = plan
  BY <1>1, <1>2 DEF ControlInv
<1>9. Coms(r)' = ComsOf(r, k)
  BY <1>8, SameScripts DEF Coms
<1>10. ASSUME NEW e \in Ends, e[1] = r
       PROVE  /\ Unposted(e)' <=> e \in ComsOf(r, k)
              /\ ~Unposted(e) /\ ~Active(e) /\ ~Active(e)'
              /\ Begun[e] = epoch[r]
              /\ Begun'[e] = IF e \in ComsOf(r, k) THEN epoch[r] ELSE epoch[r] + 1
              /\ Resting(end[e]) /\ Resting(end'[e]) /\ end'[e] \in EndType
              /\ Views[e] = end[e] /\ Views'[e] = end'[e]
  <2>1. Unposted(e)' <=> e \in ComsOf(r, k)
    BY <1>5, <1>8, <1>10 DEF Unposted
  <2>2. ~Unposted(e) /\ ~Active(e)
    BY <1>1, <1>10 DEF Unposted, Active
  <2>3. ~Active(e)'
    BY <1>9, <1>10, <2>1 DEF Active
  <2>4. Begun[e] = epoch[r]
    BY <1>10, <2>2 DEF Begun
  <2>5. Begun'[e] = IF e \in ComsOf(r, k) THEN epoch[r] ELSE epoch[r] + 1
    <3>1. Begun'[e] = IF Unposted(e)' THEN epoch'[e[1]] - 1 ELSE epoch'[e[1]]
      BY DEF Begun
    <3>2. Begun'[e] = IF e \in ComsOf(r, k) THEN k - 1 ELSE k
      BY <3>1, <1>8, <1>10, <2>1
    <3> QED
      BY <3>2, <1>2 DEF k
  <2>6. Resting(end[e])
    BY <2>2, EndFacts
  <2>7. Resting(end'[e]) /\ end'[e] \in EndType
    BY <2>6, <1>1, <1>2, <1>4
  <2>8. Views[e] = end[e] /\ Views'[e] = end'[e]
    BY <1>8, <1>10 DEF Views
  <2> QED
    BY <2>1, <2>2, <2>3, <2>4, <2>5, <2>6, <2>7, <2>8
<1>11. ASSUME NEW e \in Ends, e[1] # r
       PROVE  Begun'[e] = Begun[e] /\ Views'[e] = Views[e] /\ end'[e] = end[e]
  <2>1. e[1] \in Ranks
    BY EndFields
  <2>2. /\ epoch'[e[1]] = epoch[e[1]] /\ pc'[e[1]] = pc[e[1]]
        /\ order'[e[1]] = order[e[1]] /\ end'[e] = end[e]
    BY <2>1, <1>1, <1>2, <1>6, <1>11
  <2>3. Unposted(e)' <=> Unposted(e)
    BY <2>2 DEF Unposted
  <2> QED
    BY <2>2, <2>3, <1>8 DEF Begun, Views
<1>12. ASSUME NEW e \in Ends
       PROVE  /\ \/ Begun'[e] = Begun[e] /\ StaysOK(Views[e], Views'[e], e, Begun[e], Scripts[e])
                 \/ /\ Begun'[e] = Begun[e] + 1
                    /\ Passes(Views[e], Views'[e], e, Begun[e], Scripts[e])
              /\ Views'[e] \in EndType /\ Begun'[e] \in 0 .. Len(plan)
  <2>1. CASE e[1] # r
    <3>1. /\ Views[e] \in EndType /\ EndOK(Views[e], e, Begun[e], Scripts[e])
          /\ Begun[e] \in 0 .. Len(plan)
      BY <1>2, PeerFacts DEF PeersOK
    <3> QED
      BY <2>1, <3>1, <1>11 DEF StaysOK
  <2>2. CASE e[1] = r /\ e \in ComsOf(r, k)
    <3>1. Begun[e] \in 0 .. Len(plan)
      BY <1>2 DEF PeersOK
    <3> QED
      BY <2>2, <3>1, <1>10, RestingStays
  <2>3. CASE e[1] = r /\ e \notin ComsOf(r, k)
    <3>1. \A x \in Ends, c \in Chunks : ~Uses(Scripts[e], x, c, k)
      BY <2>3, <1>2, <1>3, CallFacts
    <3>2. PeerOf[e] \in Ends
      BY EndFields
    <3>3. Begun[e] + 1 = k /\ Begun'[e] = k
      BY <2>3, <1>10 DEF k
    <3> QED
      BY <2>3, <3>1, <3>2, <3>3, <1>3, <1>10 DEF Passes
  <2> QED
    BY <2>1, <2>2, <2>3
<1>13. PeersOK(Views', chan', sent', Begun', Scripts, Len(plan))
  <2>1. Views' \in [Ends -> EndType] /\ Begun' \in [Ends -> 0 .. Len(plan)]
    <3>1. Views' = [e \in Ends |-> Views'[e]] /\ Begun' = [e \in Ends |-> Begun'[e]]
      BY DEF Views, Begun
    <3> QED
      BY <3>1, <1>12
  <2> HIDE DEF Views, Begun, Scripts
  <2>2. PeersOK(Views', chan, sent, Begun', Scripts, Len(plan))
    BY <1>2, <1>12, <2>1, PeersStay
  <2> QED
    BY <2>2, <1>1
<1>14. RanksTyped'
  <2>1. order' \in [Ranks -> Seq(Ends)]
    BY <1>1, <1>2, <1>7
  <2>2. pc' \in [Ranks -> Phases]
    BY <1>1, <1>2 DEF Phases
  <2>3. epoch' \in [Ranks -> 0 .. Len(plan)]
    BY <1>1, <1>2, <1>3
  <2>4. unpacked' \in [Ranks -> Seq([from : Ranks, data : Payload])]
    <3> DEFINE T == [from : Ranks, data : Payload]
    <3>1. unpacked \in [Ranks -> Seq(T)]
      BY <1>2
    <3> HIDE DEF T
    <3>2. <<>> \in Seq(T)
      OBVIOUS
    <3>3. unpacked' \in [Ranks -> Seq(T)]
      BY <1>1, <3>1, <3>2
    <3> QED
      BY <3>3 DEF T
  <2> QED
    BY <1>1, <1>2, <2>1, <2>2, <2>3, <2>4 DEF RanksTyped
<1>15. OthersStay(r)
  BY <1>1, <1>2, <1>11 DEF OthersStay
<1>16. end' \in [Ends -> EndType]
  BY <1>1, <1>2, <1>4
<1>17. ControlInv(r)'
  <2>1. \A x \in ToSet(order'[r]) : x \in Coms(r)'
    BY <1>5, <1>8, <1>9
  <2> QED
    BY <2>1, <1>3, <1>5, <1>8 DEF ControlInv
<1>18. \A e \in Ends : e[1] = r /\ ~Active(e)' => Resting(end'[e])
  BY <1>10
<1>19. ExchangeInv'
  <2> HIDE DEF Views, Begun, Scripts
  <2> QED
    BY <1>1, <1>13, <1>14, <1>15, <1>16, <1>17, <1>18, RankMoves
<1> QED
  BY <1>10, <1>15, <1>19

LEMMA PostStep ==
    ASSUME ExchangeInv, NEW r \in Ranks, Post(r)
    PROVE  /\ ExchangeInv' /\ OthersStay(r)
           /\ \A x \in Ends : x # Head(order[r]) => end'[x] = end[x]
           /\ Head(order[r]) \in Ends /\ Unposted(Head(order[r]))
           /\ ~Resting(end'[Head(order[r])])
           /\ \A x \in Ends : x # Head(order[r]) => (Active(x)' <=> Active(x))
<1>0. PICK e : e = Head(order[r])
  OBVIOUS
<1> DEFINE l == LinkOf(e)
           R == Begun[e]
           scr == Scripts[e]
<1>1. /\ pc[r] = "begin" /\ order[r] # <<>>
      /\ IF e[3] = "recv"
         THEN beginRecv(e, limitFirstDataLength(end[e], RecvLimit(l)))
         ELSE beginSend(e, limitFirstDataLength(end[e], SendLimit(l)), l.size)
      /\ order' = [order EXCEPT ![r] = Tail(@)]
      /\ UNCHANGED <<plan, inOrder, epoch, pc, checking, queue, unpacked>>
  BY <1>0 DEF Post
<1>2. /\ ControlInv(r) /\ plan \in Plans /\ Len(plan) \in Nat
      /\ epoch[r] \in 1 .. Len(plan) /\ epoch[r] \in Nat
      /\ checking \in [Ranks -> SUBSET Ends]
      /\ order \in [Ranks -> Seq(Ends)] /\ order[r] \in Seq(Ends)
      /\ end \in [Ends -> EndType]
      /\ PeersOK(Views, chan, sent, Begun, Scripts, Len(plan))
  BY <1>1, RankFacts, Kept DEF ExchangeInv, TypeOK, PeersTypeOK, StreamsInv
<1>3. /\ e \in Ends /\ Contains(order[r], e) /\ Tail(order[r]) \in Seq(Ends)
      /\ \A x : Contains(order[r], x) => x = e \/ Contains(Tail(order[r]), x)
      /\ \A x : Contains(Tail(order[r]), x) => Contains(order[r], x)
      /\ IsInjective(order[r]) => IsInjective(Tail(order[r])) /\ ~Contains(Tail(order[r]), e)
  BY <1>0, <1>1, <1>2, TailFacts
<1>4. IsInjective(order[r]) /\ checking[r] = {}
  BY <1>1, <1>2 DEF ControlInv
<1>5. e \in Coms(r) /\ e[1] = r
  <2>1. e \in Coms(r)
    BY <1>2, <1>3, InToSet DEF ControlInv
  <2> QED
    BY <1>1, <2>1, RankFacts
<1>6. /\ Unposted(e) /\ ~Active(e) /\ Resting(end[e]) /\ Views[e] = end[e]
      /\ R = epoch[r] - 1 /\ R \in Nat /\ R < Len(plan) /\ R + 1 = epoch[r]
  <2>1. Unposted(e)
    BY <1>1, <1>3, <1>5 DEF Unposted
  <2>2. ~Active(e) /\ R = epoch[r] - 1
    BY <1>3, <1>5, <2>1 DEF Active, Begun
  <2>3. Resting(end[e]) /\ Views[e] = end[e]
    BY <1>3, <1>4, <1>5, <2>2, EndFacts
  <2>4. epoch[r] - 1 \in Nat /\ epoch[r] - 1 < Len(plan) /\ (epoch[r] - 1) + 1 = epoch[r]
    BY <1>2
  <2> HIDE DEF R
  <2> QED
    BY <2>1, <2>2, <2>3, <2>4
<1>7. /\ scr[R + 1] = [from |-> Sender(e), size |-> l.size,
                       limits |-> <<SendLimit(l), RecvLimit(l)>>]
      /\ SendLimit(l) \in Nat /\ RecvLimit(l) \in Nat
  <2>1. epoch[e[1]] \in 1 .. Len(plan) /\ e \in Coms(e[1])
    BY <1>2, <1>5
  <2>2. Scripts[e][epoch[e[1]]] =
           [from |-> Sender(e), size |-> LinkOf(e).size,
            limits |-> <<SendLimit(LinkOf(e)), RecvLimit(LinkOf(e))>>]
    BY <1>2, <1>3, <2>1, LinkOfFacts
  <2>3. SendLimit(LinkOf(e)) \in Nat /\ RecvLimit(LinkOf(e)) \in Nat
    BY <1>2, <1>3, <2>1, LinkOfFacts
  <2> QED
    BY <2>2, <2>3, <1>5, <1>6
<1>8. /\ scr[R + 1].from = Sender(e) /\ scr[R + 1].size = l.size
      /\ scr[R + 1].limits[1] = SendLimit(l) /\ scr[R + 1].limits[2] = RecvLimit(l)
  BY <1>7
<1> HIDE DEF l, R, scr
<1>9. Begun' = [Begun EXCEPT ![e] = R + 1]
      /\ \A x \in Ends : x # e => (Active(x)' <=> Active(x))
  <2>1. ASSUME NEW x \in Ends, x # e PROVE Unposted(x)' <=> Unposted(x)
    <3>1. x[1] \in Ranks
      BY EndFields
    <3>2. CASE x[1] = r
      <4>1. order'[r] = Tail(order[r]) /\ pc'[r] = pc[r]
        BY <1>1, <1>2
      <4> QED
        BY <2>1, <3>2, <4>1, <1>3 DEF Unposted
    <3>3. CASE x[1] # r
      BY <3>1, <3>3, <1>1, <1>2 DEF Unposted
    <3> QED
      BY <3>2, <3>3
  <2>2. ~Unposted(e)'
    <3>1. order'[r] = Tail(order[r])
      BY <1>1, <1>2
    <3> QED
      BY <3>1, <1>3, <1>4, <1>5 DEF Unposted
  <2>3. Begun'[e] = R + 1
    <3>1. Begun'[e] = IF Unposted(e)' THEN epoch'[e[1]] - 1 ELSE epoch'[e[1]]
      BY <1>3 DEF Begun
    <3> QED
      BY <3>1, <2>2, <1>1, <1>5, <1>6
  <2>4. \A x \in Ends : x # e => Begun'[x] = Begun[x]
    BY <2>1, <1>1 DEF Begun
  <2>5. Begun' = [x \in Ends |-> Begun'[x]] /\ Begun = [x \in Ends |-> Begun[x]]
    BY DEF Begun
  <2>6. \A p : Coms(p)' = Coms(p)
    BY <1>1, SameScripts DEF Coms
  <2> HIDE DEF Begun
  <2> QED
    BY <2>1, <2>3, <2>4, <2>5, <2>6, <1>1 DEF Active
<1>10. \E t \in EndType :
          /\ end' = [end EXCEPT ![e] = t] /\ ~Resting(t)
          /\ PeersOK([Views EXCEPT ![e] = t], chan', sent', [Begun EXCEPT ![e] = R + 1],
                     Scripts, Len(plan))
          /\ got' = got
  <2>1. CASE e[3] = "recv"
    <3> DEFINE v == limitFirstDataLength(end[e], RecvLimit(l))
    <3>1. Sender(e) = PeerOf[e]
      BY <2>1 DEF Sender
    <3>2. v \in EndType /\ v.limit = scr[R + 1].limits[2] /\ Resting(v)
      <4>1. end[e] \in EndType
        BY <1>2, <1>3
      <4>2. /\ v \in EndType /\ v.limit = RecvLimit(l) /\ v.at = end[e].at
            /\ v.next = end[e].next /\ v.req = end[e].req
        BY <4>1, <1>7, LimitedType
      <4> HIDE DEF v
      <4> QED
        BY <4>2, <1>6, <1>8 DEF Resting
    <3>3. beginRecv(e, v)
      BY <1>1, <2>1 DEF l
    <3> HIDE DEF v
    <3>4. end' = [end EXCEPT ![e] = ReceiveBegun(v)] /\ UNCHANGED <<chan, sent, got>>
      BY <3>3 DEF beginRecv, ReceiveBegun
    <3>5. PeersOK([Views EXCEPT ![e] = ReceiveBegun(v)], chan, sent,
                  [Begun EXCEPT ![e] = R + 1], Scripts, Len(plan))
      <4>1. /\ Begun[e] < Len(plan) /\ Resting(Views[e])
            /\ Scripts[e][Begun[e] + 1].from = PeerOf[e]
            /\ v.limit = Scripts[e][Begun[e] + 1].limits[2]
        BY <3>1, <3>2, <1>6, <1>8 DEF R, scr
      <4> HIDE DEF Views, Begun, Scripts
      <4>2. PeersOK([Views EXCEPT ![e] = ReceiveBegun(v)], chan, sent,
                    [Begun EXCEPT ![e] = Begun[e] + 1], Scripts, Len(plan))
        BY <4>1, <3>2, <1>2, <1>3, BeginsReceive
      <4> QED
        BY <4>2 DEF R
    <3>6. ReceiveBegun(v) \in EndType
      <4>1. [Views EXCEPT ![e] = ReceiveBegun(v)] \in [Ends -> EndType]
        BY <3>5 DEF PeersOK
      <4>2. [Views EXCEPT ![e] = ReceiveBegun(v)][e] = ReceiveBegun(v)
        BY <1>3 DEF Views
      <4> QED
        BY <4>1, <4>2, <1>3
    <3>7. ~Resting(ReceiveBegun(v))
      <4>1. ReceiveBegun(v).at = "recv_check0"
        BY <3>2 DEF ReceiveBegun, resizeBuffer, EndType
      <4> QED
        BY <4>1 DEF Resting
    <3> QED
      BY <3>4, <3>5, <3>6, <3>7
  <2>2. CASE e[3] # "recv"
    <3> DEFINE v == limitFirstDataLength(end[e], SendLimit(l))
               d == Data(Len(sent[e]) + 1, l.size)
               parts == ChunksOf(d, v.limit)
               used == {c \in Chunks : c < Len(parts)}
    <3>1. Sender(e) = e
      BY <2>2, <1>3, EndFields DEF Sender
    <3>2. v \in EndType /\ v.limit = scr[R + 1].limits[1] /\ Resting(v)
      <4>1. end[e] \in EndType
        BY <1>2, <1>3
      <4>2. /\ v \in EndType /\ v.limit = SendLimit(l) /\ v.at = end[e].at
            /\ v.next = end[e].next /\ v.req = end[e].req
        BY <4>1, <1>7, LimitedType
      <4> HIDE DEF v
      <4> QED
        BY <4>2, <1>6, <1>8 DEF Resting
    <3>3. beginSend(e, v, l.size)
      BY <1>1, <2>2 DEF l
    <3> HIDE DEF v
    <3>4. /\ end' = [end EXCEPT ![e] = SendBegun(v, d, l.size)]
          /\ chan' = [chan EXCEPT ![e] =
                        [c \in Chunks |->
                           IF c \in used THEN Append(chan[e][c], parts[c + 1])
                           ELSE chan[e][c]]]
          /\ sent' = [sent EXCEPT ![e] = Append(@, d)]
          /\ got' = got
      BY <3>3 DEF beginSend, SendBegun
    <3>5. PeersOK([Views EXCEPT ![e] = SendBegun(v, d, l.size)], chan', sent',
                  [Begun EXCEPT ![e] = R + 1], Scripts, Len(plan))
      <4>1. /\ Begun[e] < Len(plan) /\ Resting(Views[e])
            /\ Scripts[e][Begun[e] + 1].from = e
            /\ Scripts[e][Begun[e] + 1].size = l.size
            /\ v.limit = Scripts[e][Begun[e] + 1].limits[1]
        BY <3>1, <3>2, <1>6, <1>8 DEF R, scr
      <4> HIDE DEF Views, Begun, Scripts
      <4>2. d = Data(Len(sent[e]) + 1, Scripts[e][Begun[e] + 1].size)
        BY <4>1
      <4>3. chan' = SentOn(chan, e, ChunksOf(d, v.limit))
        BY <3>4 DEF SentOn
      <4> HIDE DEF d, parts, used
      <4>4. PeersOK([Views EXCEPT ![e] = SendBegun(v, d, Scripts[e][Begun[e] + 1].size)],
                    SentOn(chan, e, ChunksOf(d, v.limit)),
                    [sent EXCEPT ![e] = Append(@, d)],
                    [Begun EXCEPT ![e] = Begun[e] + 1], Scripts, Len(plan))
        BY <4>1, <4>2, <3>2, <1>2, <1>3, BeginsSend
      <4> QED
        BY <4>1, <4>3, <4>4, <3>4 DEF R
    <3>6. SendBegun(v, d, l.size) \in EndType
      <4>1. [Views EXCEPT ![e] = SendBegun(v, d, l.size)] \in [Ends -> EndType]
        BY <3>5 DEF PeersOK
      <4>2. [Views EXCEPT ![e] = SendBegun(v, d, l.size)][e] = SendBegun(v, d, l.size)
        BY <1>3 DEF Views
      <4> QED
        BY <4>1, <4>2, <1>3
    <3>7. ~Resting(SendBegun(v, d, l.size))
      <4>1. SendBegun(v, d, l.size).at = "send_check"
        BY <3>2 DEF SendBegun, resizeBuffer, EndType
      <4> QED
        BY <4>1 DEF Resting
    <3> HIDE DEF d, parts, used
    <3> QED
      BY <3>4, <3>5, <3>6, <3>7
  <2> QED
    BY <2>1, <2>2
<1>11. PICK t \in EndType :
          /\ end' = [end EXCEPT ![e] = t] /\ ~Resting(t)
          /\ PeersOK([Views EXCEPT ![e] = t], chan', sent', [Begun EXCEPT ![e] = R + 1],
                     Scripts, Len(plan))
          /\ got' = got
  BY <1>10
<1>12. Views' = [Views EXCEPT ![e] = t] /\ end' \in [Ends -> EndType]
  BY <1>1, <1>2, <1>3, <1>4, <1>5, <1>11, OneView
<1>13. end'[e] = t /\ \A x \in Ends : x # e => end'[x] = end[x]
  BY <1>2, <1>3, <1>11
<1>14. RanksTyped'
  <2>1. order' \in [Ranks -> Seq(Ends)]
    BY <1>1, <1>2, <1>3
  <2> QED
    BY <1>1, <2>1, RankFacts, Kept DEF RanksTyped
<1>15. OthersStay(r)
  BY <1>1, <1>2, <1>5, <1>13 DEF OthersStay
<1>16. ControlInv(r)'
  <2>1. order'[r] = Tail(order[r]) /\ checking'[r] = {} /\ pc'[r] = "begin"
        /\ epoch'[r] = epoch[r] /\ Coms(r)' = Coms(r)
    BY <1>1, <1>2, <1>4, SameScripts DEF Coms
  <2>2. \A x \in ToSet(order'[r]) : x \in Coms(r)
    BY <2>1, <1>2, <1>3, InToSet DEF ControlInv
  <2>3. epoch[r] >= 1
    BY <1>2
  <2> QED
    BY <2>1, <2>2, <2>3, <1>3, <1>4 DEF ControlInv
<1>17. \A x \in Ends : x[1] = r /\ ~Active(x)' => Resting(end'[x])
  <2> TAKE x \in Ends
  <2>1. CASE x = e
    <3>1. ~Unposted(e)'
      <4>1. order'[r] = Tail(order[r])
        BY <1>1, <1>2
      <4> QED
        BY <4>1, <1>3, <1>4, <1>5 DEF Unposted
    <3>2. Active(e)'
      BY <3>1, <1>1, <1>5, SameScripts DEF Active, Coms
    <3> QED
      BY <2>1, <3>2
  <2>2. CASE x # e
    BY <2>2, <1>9, <1>13, EndFacts
  <2> QED
    BY <2>1, <2>2
<1>18. PeersOK(Views', chan', sent', Begun', Scripts, Len(plan))
  BY <1>9, <1>11, <1>12
<1>19. ExchangeInv'
  <2> HIDE DEF Views, Begun, Scripts
  <2> QED
    BY <1>11, <1>12, <1>14, <1>15, <1>16, <1>17, <1>18, RankMoves
<1> QED
  BY <1>0, <1>3, <1>6, <1>9, <1>11, <1>13, <1>15, <1>19

-----------------------------------------------------------------------------
(* The invariant of the exchange, and what follows from it.                *)

LEMMA ExchangeStarts ==
    ASSUME Init
    PROVE  ExchangeInv
<1>1. /\ PeerInit /\ plan \in Plans /\ inOrder \in Orders
      /\ epoch = [r \in Ranks |-> 0]
      /\ pc = [r \in Ranks |-> "idle"]
      /\ order = [r \in Ranks |-> <<>>]
      /\ checking = [r \in Ranks |-> {}]
      /\ queue = [r \in Ranks |-> <<>>]
      /\ unpacked = [r \in Ranks |-> <<>>]
  BY DEF Init
<1>2. Len(plan) \in Nat /\ ScriptsOK(Scripts, Len(plan))
  BY <1>1, ScriptsFit
<1>3. NewEnd \in EndType /\ Resting(NewEnd)
  BY DEF NewEnd, EndType, Resting, TaskOps, Chunks
<1> HIDE DEF NewEnd
<1>4. \A e \in Ends : e[1] \in Ranks
  BY EndFields
<1>5. Views = [e \in Ends |-> NewEnd]
  BY <1>1, <1>4 DEF Views, PeerInit
<1>6. Begun = [e \in Ends |-> 0]
  BY <1>1, <1>4 DEF Begun, Unposted
<1>7. PeersOK(Views, chan, sent, Begun, Scripts, Len(plan))
  <2>1. /\ chan = [e \in Ends |-> [c \in Chunks |-> <<>>]]
        /\ sent = [e \in Ends |-> <<>>]
    BY <1>1 DEF PeerInit
  <2> HIDE DEF Views, Begun, Scripts
  <2>2. PeersOK([e \in Ends |-> NewEnd], [e \in Ends |-> [c \in Chunks |-> <<>>]],
                [e \in Ends |-> <<>>], [e \in Ends |-> 0], Scripts, Len(plan))
    BY <1>2, PeersStart
  <2> QED
    BY <2>1, <2>2, <1>5, <1>6
<1>8. StreamsInv
  BY <1>1, <1>3, <1>7 DEF StreamsInv, PeerInit
<1>9. TypeOK
  <2>1. PeersTypeOK
    <3>1. /\ chan \in [Ends -> [Chunks -> Seq(Message)]] /\ sent \in [Ends -> Seq(Payload)]
      BY <1>7 DEF PeersOK
    <3>2. got \in [Ends -> Seq(Payload)] /\ end \in [Ends -> EndType]
      BY <1>1, <1>3 DEF PeerInit
    <3> QED
      BY <3>1, <3>2 DEF PeersTypeOK
  <2>2. unpacked \in [Ranks -> Seq([from : Ranks, data : Payload])]
    <3> DEFINE T == [from : Ranks, data : Payload]
    <3> HIDE DEF T
    <3>1. unpacked \in [Ranks -> Seq(T)]
      BY <1>1
    <3> QED
      BY <3>1 DEF T
  <2> QED
    BY <1>1, <1>2, <2>1, <2>2 DEF TypeOK, Phases
<1>10. \A r \in Ranks : ControlInv(r)
  BY <1>1 DEF ControlInv, ToSet
<1> QED
  BY <1>8, <1>9, <1>10 DEF ExchangeInv

LEMMA ExchangeGoesOn ==
    ASSUME ExchangeInv, [Next]_vars
    PROVE  ExchangeInv'
<1>1. CASE Network
  BY <1>1, TransferStep, CompletesStep DEF Network, MPIStep
<1>2. CASE UNCHANGED vars
  <2>1. /\ end' = end /\ chan' = chan /\ sent' = sent /\ got' = got
        /\ plan' = plan /\ inOrder' = inOrder /\ epoch' = epoch /\ pc' = pc
        /\ order' = order /\ checking' = checking /\ queue' = queue
        /\ unpacked' = unpacked
    BY <1>2 DEF vars, peerVars, rankVars
  <2>2. /\ Views' = Views /\ Begun' = Begun /\ Scripts' = Scripts
        /\ \A r : Coms(r)' = Coms(r)
        /\ \A e : Active(e)' <=> Active(e)
    BY <2>1, SameCalls DEF Views
  <2>3. TypeOK' /\ StreamsInv' /\ \A r \in Ranks : ControlInv(r)'
    BY <2>1, <2>2 DEF ExchangeInv, TypeOK, PeersTypeOK, StreamsInv, ControlInv
  <2> QED
    BY <2>3 DEF ExchangeInv
<1>3. ASSUME NEW r \in Ranks, RankStep(r) PROVE ExchangeInv'
  BY <1>3, AllocateStep, PostStep, LocalCopiesStep, CheckMoves, WaitsomeStep,
     CheckNextStep, PopStep, CompleteNextStep, UnpackNextStep, FinalizeStep
     DEF RankStep
<1> QED
  BY <1>1, <1>2, <1>3 DEF Next, Over

LEMMA ExchangeHolds == Spec => []ExchangeInv
<1>1. Init => ExchangeInv
  BY ExchangeStarts
<1>2. ExchangeInv /\ [Next]_vars => ExchangeInv'
  BY ExchangeGoesOn
<1> QED
  BY <1>1, <1>2, PTL DEF Spec

\* A posted receive is long enough for what comes.
LEMMA NoneTruncated ==
    ASSUME ExchangeInv
    PROVE  NoTruncation
<1> SUFFICES ASSUME NEW e \in Ends, NEW c \in Chunks,
                    end[e].base = "recv", end[e].req[c] = "active",
                    chan[PeerOf[e]][c] # <<>>
             PROVE  FlexOf(Head(chan[PeerOf[e]][c])) <= Posted(end[e], c)
  BY DEF NoTruncation
<1>1. /\ PeersOK(Views, chan, sent, Begun, Scripts, Len(plan))
      /\ Views[e].base = end[e].base /\ Views[e].req = end[e].req
      /\ Views[e].full = end[e].full /\ Views[e].limit = end[e].limit
  BY EndFacts, ViewFields
<1>2. FlexOf(Head(chan[PeerOf[e]][c])) <= Posted(Views[e], c)
  <2> HIDE DEF Views, Begun, Scripts
  <2> QED
    BY <1>1, ChunkFits
<1>3. Posted(Views[e], c) = Posted(end[e], c)
  BY <1>1 DEF Posted
<1> QED
  BY <1>2, <1>3

LEMMA NoneErrant ==
    ASSUME ExchangeInv
    PROVE  NothingErrant
<1> SUFFICES ASSUME \A r, p \in Ranks : pc[r] = "idle" /\ epoch[r] = epoch[p],
                    NEW e \in Ends, NEW c \in Chunks
             PROVE  chan[e][c] = <<>>
  BY DEF NothingErrant
<1>1. PeerOf[e] \in Ends /\ e[1] \in Ranks /\ PeerOf[e][1] \in Ranks
  BY EndFields
<1>2. PeersOK(Views, chan, sent, Begun, Scripts, Len(plan))
  BY EndFacts
<1>3. Resting(Views[PeerOf[e]])
  <2>1. ~Active(PeerOf[e])
    BY <1>1 DEF Active
  <2> QED
    BY <2>1, <1>1, EndFacts, ViewFields
<1>4. Begun[PeerOf[e]] = Begun[e]
  BY <1>1 DEF Begun, Unposted
<1> QED
  <2> HIDE DEF Views, Begun, Scripts
  <2> QED
    BY <1>2, <1>3, <1>4, NothingLeft

(***************************************************************************)
(* Between calls of communicate() that all processes have made, no message *)
(* is left in MPI, for any schedule.                                       *)
(***************************************************************************)
THEOREM NothingIsErrant == Spec => []NothingErrant
<1>1. ExchangeInv => NothingErrant
  BY NoneErrant
<1> QED
  BY <1>1, ExchangeHolds, PTL

-----------------------------------------------------------------------------
(* What is unpacked.                                                       *)

\* A link into r in call k, the Peer that receives from it, and its message.
LEMMA LinkInFacts ==
    ASSUME plan \in Plans, NEW k \in 1 .. Len(plan), NEW r \in Ranks,
           NEW l \in LinksIn(r, k)
    PROVE  /\ From(r, l.src) \in ComsOf(r, k) /\ From(r, l.src) \in Ends
           /\ From(r, l.src)[1] = r /\ From(r, l.src)[2] = l.src
           /\ From(r, l.src)[3] = "recv"
           /\ \A m \in LinksIn(r, k) : m.src = l.src => m = l
           /\ Msg(Scripts[From(r, l.src)], k) = Carried(l, k).data
           /\ Carried(l, k).from = l.src
<1> DEFINE e == From(r, l.src)
           p == <<l.src, r, "send">>
           scr == Scripts[e]
<1>1. l \in plan[k] /\ l.dst = r
  BY DEF LinksIn
<1>2. /\ e \in ComsOf(r, k) /\ e \in Ends /\ e[1] = r /\ e[2] = l.src /\ e[3] = "recv"
      /\ Sender(e) = p
  <2>1. e \in ComsOf(r, k)
    BY DEF ComsOf, From
  <2>2. e[1] = r /\ e[2] = l.src /\ e[3] = "recv"
    BY DEF From
  <2>3. e \in Ends
    BY <2>1, ComsFacts
  <2> HIDE DEF e
  <2> QED
    BY <2>1, <2>2, <2>3, EndFields
<1>3. \A m \in LinksIn(r, k) : m.src = l.src => m = l
  BY <1>1, LinkFields DEF LinksIn
<1> HIDE DEF e
<1>4. scr[k].from = p /\ scr[k].size = l.size
  <2>1. l \in Linked(Sender(e), k)
    BY <1>1, <1>2 DEF Linked
  <2>2. Scripts[e][k] = [from |-> Sender(e), size |-> l.size,
                         limits |-> <<SendLimit(l), RecvLimit(l)>>]
    BY <1>2, <2>1, CallFacts
  <2> QED
    BY <2>2, <1>2
<1> DEFINE Same(j) == \E m \in plan[j] : m.src = l.src /\ m.dst = l.dst
<1>5. \A j \in 1 .. k : Uses(scr, p, 0, j) <=> Same(j)
  <2> TAKE j \in 1 .. k
  <2>0. j \in 1 .. Len(plan)
    <3>1. Len(plan) \in Nat
      BY ScriptsFit
    <3> QED
      BY <3>1
  <2>1. scr[j] = CallOf(p, j)
    BY <1>2, <2>0, CallFacts
  <2>2. CallOf(p, j).from = p <=> Linked(p, j) # {}
    <3>1. p # <<>>
      OBVIOUS
    <3> HIDE DEF p
    <3> QED
      BY <3>1 DEF CallOf
  <2>3. Linked(p, j) # {} <=> Same(j)
    BY <1>1 DEF Linked
  <2> HIDE DEF p, scr, Same
  <2> QED
    BY <2>1, <2>2, <2>3 DEF Uses
<1>6. Msg(scr, k) = Data(Cardinality({j \in 1 .. k : Same(j)}), l.size)
  <2>1. {j \in 1 .. k : Uses(scr, p, 0, j)} = {j \in 1 .. k : Same(j)}
    BY <1>5
  <2> HIDE DEF p, scr, Same
  <2> QED
    BY <2>1, <1>4 DEF Msg, Count
<1>7. Carried(l, k) = [from |-> l.src,
                       data |-> Data(Cardinality({j \in 1 .. k : Same(j)}), l.size)]
  BY DEF Carried
<1> HIDE DEF Same
<1> QED
  BY <1>2, <1>3, <1>6, <1>7 DEF e

\* A Peer of the call that receives, and the link it is for.
LEMMA ReceiverLink ==
    ASSUME plan \in Plans, NEW k \in 1 .. Len(plan), NEW r \in Ranks,
           NEW e \in ComsOf(r, k), e[3] = "recv"
    PROVE  \E l \in LinksIn(r, k) : l.src = e[2] /\ e = From(r, l.src)
<1>1. e \in Ends /\ e[1] = r
  BY ComsFacts
<1>2. PICK l \in plan[k] : l.dst = r /\ l.src = e[2]
  BY ComsFacts
<1>3. e = From(r, l.src)
  BY <1>1, <1>2, EndFields DEF From
<1> QED
  BY <1>2, <1>3 DEF LinksIn

LEMMA SameCarried ==
    ASSUME plan' = plan
    PROVE  \A l, k : Carried(l, k)' = Carried(l, k)
BY DEF Carried

\* Nothing changes for process r but Peers that go on with their operations.
LEMMA UnpackStays ==
    ASSUME ExchangeInv, NEW r \in Ranks, UnpackInv(r),
           UNCHANGED <<plan, inOrder>>,
           epoch'[r] = epoch[r], pc'[r] = pc[r], order'[r] = order[r],
           queue'[r] = queue[r], unpacked'[r] = unpacked[r],
           \A e \in Ends : e[1] = r /\ (Resting(end[e]) \/ Resting(end'[e]))
                              => end'[e] = end[e]
    PROVE  UnpackInv(r)'
<1>1. \A p : Got(r, p)' <=> Got(r, p)
  BY DEF Got
<1>2. LinksIn(r, epoch[r])' = LinksIn(r, epoch[r])
      /\ Coms(r)' = Coms(r)
  BY SameScripts DEF Coms
<1>3. UnpackedOK(r)' <=> UnpackedOK(r)
  BY <1>2, SameCarried DEF UnpackedOK
<1>4. OrderOK(r)' <=> OrderOK(r)
  BY <1>1, <1>2 DEF OrderOK, From
<1>5. \A e : e[1] = r => (Unposted(e)' <=> Unposted(e)) /\ (Active(e)' <=> Active(e))
  BY <1>2 DEF Unposted, Active
<1>6. pc[r] # "idle" => /\ epoch[r] \in 1 .. Len(plan) /\ plan \in Plans
                        /\ \A e \in Coms(r) : e \in Ends /\ e[1] = r
  BY RankFacts
<1>7. ASSUME pc[r] # "idle", ReadyOK(r) PROVE ReadyOK(r)'
  <2> SUFFICES ASSUME NEW l \in LinksIn(r, epoch[r]), NEW e, e = From(r, l.src)
               PROVE  /\ Active(e)' /\ Resting(end'[e]) /\ ~Got(r, l.src) =>
                            /\ Items(end'[e].data, end'[e].full)
                                  = Carried(l, epoch[r]).data
                            /\ ~inOrder => Contains(queue[r], e)
                      /\ Got(r, l.src) => Resting(end'[e])
    BY <1>1, <1>2, SameCarried DEF ReadyOK, From
  <2>1. e \in Ends /\ e[1] = r
    BY <1>6, <1>7, LinkInFacts
  <2>2. Resting(end[e]) \/ Resting(end'[e]) => end'[e] = end[e]
    BY <2>1
  <2>3. Active(e)' <=> Active(e)
    BY <2>1, <1>5
  <2>4. /\ Active(e) /\ Resting(end[e]) /\ ~Got(r, l.src) =>
              /\ Items(end[e].data, end[e].full) = Carried(l, epoch[r]).data
              /\ ~inOrder => Contains(queue[r], e)
        /\ Got(r, l.src) => Resting(end[e])
    BY <1>7 DEF ReadyOK
  <2> QED
    BY <2>2, <2>3, <2>4
<1>8. ASSUME pc[r] # "idle", QueueOK(r) PROVE QueueOK(r)'
  <2>1. queue[r] \in Seq(Ends)
    BY RankFacts
  <2>2. ASSUME NEW e \in ToSet(queue[r])
        PROVE  /\ e \in Coms(r) /\ ~Unposted(e)' /\ Resting(end'[e])
               /\ e[3] = "recv" => ~Got(r, e[2])
    <3>1. /\ e \in Coms(r) /\ ~Unposted(e) /\ Resting(end[e])
          /\ e[3] = "recv" => ~Got(r, e[2])
      BY <1>8 DEF QueueOK
    <3> QED
      BY <3>1, <1>5, <1>6, <1>8
  <2> QED
    BY <2>2, <1>1, <1>2, <1>8 DEF QueueOK
<1> QED
  BY <1>1, <1>2, <1>3, <1>4, <1>7, <1>8 DEF UnpackInv

\* A step of process r, as the others see it.
LEMMA OthersUnpack ==
    ASSUME ExchangeInv, NEW r \in Ranks, OthersStay(r),
           NEW p \in Ranks, p # r, UnpackInv(p)
    PROVE  UnpackInv(p)'
<1>1. /\ UNCHANGED <<plan, inOrder>>
      /\ epoch'[p] = epoch[p] /\ pc'[p] = pc[p] /\ order'[p] = order[p]
      /\ queue'[p] = queue[p] /\ unpacked'[p] = unpacked[p]
      /\ \A e \in Ends : e[1] = p => end'[e] = end[e]
  BY DEF OthersStay
<1> QED
  BY <1>1, UnpackStays

\* A step in which no Peer ends or begins an operation.
LEMMA AllStay ==
    ASSUME ExchangeInv, RestersStay, \A r \in Ranks : UnpackInv(r),
           UNCHANGED <<plan, inOrder, epoch, pc, order, queue, unpacked>>
    PROVE  \A r \in Ranks : UnpackInv(r)'
<1> TAKE r \in Ranks
<1>1. \A e \in Ends : e[1] = r /\ (Resting(end[e]) \/ Resting(end'[e]))
                         => end'[e] = end[e]
  BY DEF RestersStay
<1> QED
  BY <1>1, UnpackStays

\* The types of what r has unpacked, and its links.
LEMMA UnpackedFacts ==
    ASSUME ExchangeInv, NEW r \in Ranks
    PROVE  /\ unpacked[r] \in Seq([from : Ranks, data : Payload])
           /\ Len(unpacked[r]) \in Nat
           /\ \A i \in 1 .. Len(unpacked[r]) : unpacked[r][i].from \in Nat
<1> DEFINE T == [from : Ranks, data : Payload]
<1>1. unpacked[r] \in Seq(T)
  BY Kept
<1>2. \A x \in T : x.from \in Nat
  BY ScheduleAssumption
<1> HIDE DEF T
<1>3. \A i \in 1 .. Len(unpacked[r]) : unpacked[r][i] \in T
  BY <1>1, ElementOfSeq
<1>4. Len(unpacked[r]) \in Nat
  BY <1>1
<1> QED
  BY <1>1, <1>2, <1>3, <1>4 DEF T

\* Process r unpacks what link l has brought, for the first time.
LEMMA Unpacking ==
    ASSUME ExchangeInv, NEW r \in Ranks, UnpackInv(r), pc[r] = "finalize",
           NEW l \in LinksIn(r, epoch[r]), NEW e, e = From(r, l.src),
           ~Got(r, l.src), Unpacks(r, e), UNCHANGED <<plan, inOrder, epoch, pc>>,
           Taking(e) = Carried(l, epoch[r]),
           inOrder => \A i \in 2 .. Len(unpacked[r]) : unpacked[r][i].from < l.src
    PROVE  /\ \A p : Got(r, p)' <=> Got(r, p) \/ p = l.src
           /\ UnpackedOK(r)'
           /\ Len(unpacked'[r]) = Len(unpacked[r]) + 1 /\ Len(unpacked[r]) >= 1
           /\ \A i \in 2 .. Len(unpacked[r]) : unpacked'[r][i] = unpacked[r][i]
           /\ unpacked'[r][Len(unpacked[r]) + 1].from = l.src
<1>0. PICK u : u = unpacked[r]
  OBVIOUS
<1>1. PICK n : n = Len(u)
  OBVIOUS
<1>2. PICK w : w = unpacked'[r]
  OBVIOUS
<1>3. u \in Seq([from : Ranks, data : Payload]) /\ n \in Nat /\ UnpackedOK(r)
  BY <1>0, <1>1, UnpackedFacts DEF UnpackInv
<1>4. epoch[r] \in 1 .. Len(plan) /\ plan \in Plans
  BY RankFacts
<1>5. Taking(e) \in [from : Ranks, data : Payload] /\ Taking(e).from = l.src
  <2>1. e \in Ends /\ end[e] \in EndType /\ e[2] \in Ranks
    BY <1>4, LinkInFacts, EndFacts, EndFields
  <2>2. end[e].data \in Payload /\ end[e].full \in Nat
    BY <2>1 DEF EndType, Payload
  <2>3. Items(end[e].data, end[e].full) \in Payload
    BY <2>2, ItemsType
  <2>4. Carried(l, epoch[r]).from = l.src
    BY <1>4, LinkInFacts
  <2> QED
    BY <2>1, <2>3, <2>4 DEF Taking
<1>6. /\ w = Append(u, Taking(e)) /\ Len(w) = n + 1
      /\ \A i \in 1 .. n : w[i] = u[i]
      /\ w[n + 1] = Carried(l, epoch[r])
  <2>1. w = Append(u, Taking(e))
    BY <1>0, <1>2, Kept DEF Unpacks
  <2> QED
    BY <2>1, <1>1, <1>3, <1>5, AppendProperties
<1>7. w[n + 1].from = l.src
  BY <1>5, <1>6
<1>8. n >= 1 /\ u[1].from = r
  BY <1>0, <1>1, <1>3 DEF UnpackedOK
<1>9. \A i \in 2 .. (n + 1) : i \in 2 .. n \/ i = n + 1
  BY <1>3
<1>10. \A i \in 2 .. n : i \in 2 .. (n + 1) /\ i \in 1 .. n
  BY <1>3
<1>11. n + 1 \in 2 .. (n + 1) /\ 1 \in 1 .. n
  BY <1>3, <1>8
<1>12. \A p : Got(r, p)' <=> Got(r, p) \/ p = l.src
  <2> TAKE p
  <2>1. Got(r, p)' <=> \E i \in 2 .. (n + 1) : w[i].from = p
    BY <1>2, <1>6 DEF Got
  <2>2. Got(r, p) <=> \E i \in 2 .. n : u[i].from = p
    BY <1>0, <1>1 DEF Got
  <2> QED
    BY <2>1, <2>2, <1>6, <1>7, <1>9, <1>10, <1>11
<1>13. \A i \in 2 .. n : u[i].from # l.src
  BY <1>0, <1>1 DEF Got
<1>14. /\ \A i \in 2 .. n : \E m \in LinksIn(r, epoch[r]) : u[i] = Carried(m, epoch[r])
       /\ \A i, j \in 2 .. n : u[i].from = u[j].from => i = j
       /\ inOrder => \A i, j \in 2 .. n : i < j => u[i].from < u[j].from
       /\ inOrder => \A i \in 2 .. n : u[i].from < l.src
  BY <1>0, <1>1, <1>3 DEF UnpackedOK
<1>15. \A i \in 2 .. (n + 1) : \E m \in LinksIn(r, epoch[r]) : w[i] = Carried(m, epoch[r])
  BY <1>6, <1>9, <1>10, <1>14
<1>16. \A i, j \in 2 .. (n + 1) : w[i].from = w[j].from => i = j
  BY <1>6, <1>7, <1>9, <1>10, <1>13, <1>14
<1>17. inOrder => \A i, j \in 2 .. (n + 1) : i < j => w[i].from < w[j].from
  <2> SUFFICES ASSUME inOrder, NEW i \in 2 .. (n + 1), NEW j \in 2 .. (n + 1), i < j
               PROVE  w[i].from < w[j].from
    OBVIOUS
  <2>1. i \in 2 .. n
    BY <1>3
  <2> QED
    BY <2>1, <1>6, <1>7, <1>9, <1>10, <1>14
<1>18. UnpackedOK(r)'
  <2>1. /\ LinksIn(r, epoch[r])' = LinksIn(r, epoch[r])
        /\ \A m : Carried(m, epoch[r])' = Carried(m, epoch[r])
    BY SameScripts, SameCarried
  <2>2. Len(w) >= 1 /\ w[1].from = r
    BY <1>3, <1>6, <1>8, <1>11
  <2> HIDE DEF LinksIn, Carried
  <2> QED
    BY <1>2, <1>6, <2>1, <2>2, <1>15, <1>16, <1>17 DEF UnpackedOK
<1> QED
  BY <1>0, <1>1, <1>2, <1>6, <1>7, <1>8, <1>10, <1>12, <1>18

LEMMA OthersReady ==
    ASSUME ExchangeInv, NEW r \in Ranks, UnpackInv(r), pc[r] = "finalize",
           NEW l \in LinksIn(r, epoch[r]), NEW e, e = From(r, l.src),
           Unpacks(r, e), UNCHANGED <<plan, inOrder, epoch, pc>>,
           \A p : Got(r, p)' <=> Got(r, p) \/ p = l.src,
           \A x \in Ends : Active(x)' <=> Active(x),
           ~inOrder => \A x : Contains(queue[r], x) /\ x # e => Contains(queue'[r], x)
    PROVE  ReadyOK(r)'
<1>1. epoch[r] \in 1 .. Len(plan) /\ plan \in Plans
  BY RankFacts
<1>2. PICK t \in EndType : end' = [end EXCEPT ![e] = t] /\ Resting(t)
  BY DEF Unpacks
<1>3. ReadyOK(r) /\ end \in [Ends -> EndType]
  BY <1>1, LinkInFacts, EndFacts DEF UnpackInv
<1>4. /\ LinksIn(r, epoch[r])' = LinksIn(r, epoch[r])
      /\ \A m : Carried(m, epoch[r])' = Carried(m, epoch[r])
  BY SameScripts, SameCarried
<1> SUFFICES ASSUME NEW m \in LinksIn(r, epoch[r]), NEW x, x = From(r, m.src)
             PROVE  /\ Active(x)' /\ Resting(end'[x]) /\ ~Got(r, m.src)' =>
                          /\ Items(end'[x].data, end'[x].full)
                                = Carried(m, epoch[r]).data
                          /\ ~inOrder => Contains(queue'[r], x)
                    /\ Got(r, m.src)' => Resting(end'[x])
  BY <1>4 DEF ReadyOK, From
<1>5. x \in Ends /\ e \in Ends
  BY <1>1, LinkInFacts
<1>6. CASE m.src = l.src
  <2>1. x = e /\ end'[x] = t /\ Got(r, m.src)'
    BY <1>2, <1>3, <1>5, <1>6
  <2> QED
    BY <2>1, <1>2
<1>7. CASE m.src # l.src
  <2>1. x # e
    BY <1>7 DEF From
  <2>2. end'[x] = end[x] /\ (Got(r, m.src)' <=> Got(r, m.src))
    BY <2>1, <1>2, <1>3, <1>5, <1>7
  <2>3. /\ Active(x) /\ Resting(end[x]) /\ ~Got(r, m.src) =>
              /\ Items(end[x].data, end[x].full) = Carried(m, epoch[r]).data
              /\ ~inOrder => Contains(queue[r], x)
        /\ Got(r, m.src) => Resting(end[x])
    BY <1>3 DEF ReadyOK
  <2> QED
    BY <2>1, <2>2, <2>3, <1>5
<1> QED
  BY <1>6, <1>7

\* What can be unpacked from a Peer at rest is what its link carries.
LEMMA TakesCarried ==
    ASSUME ExchangeInv, NEW r \in Ranks, UnpackInv(r), pc[r] = "finalize",
           NEW l \in LinksIn(r, epoch[r]), NEW e, e = From(r, l.src),
           Resting(end[e]), ~Got(r, l.src)
    PROVE  Taking(e) = Carried(l, epoch[r])
<1>1. epoch[r] \in 1 .. Len(plan) /\ plan \in Plans
  BY RankFacts
<1>2. /\ e \in ComsOf(r, epoch[r]) /\ e[1] = r /\ e[2] = l.src
      /\ Carried(l, epoch[r]).from = l.src
  BY <1>1, LinkInFacts
<1>3. Active(e)
  BY <1>2 DEF Active, Coms, Unposted
<1>4. Items(end[e].data, end[e].full) = Carried(l, epoch[r]).data
  BY <1>3 DEF UnpackInv, ReadyOK
<1> QED
  BY <1>2, <1>4 DEF Taking, Carried

LEMMA PopUnpacks ==
    ASSUME ExchangeInv, NEW r \in Ranks, PopCompleted(r),
           \A p \in Ranks : UnpackInv(p)
    PROVE  \A p \in Ranks : UnpackInv(p)'
<1>0. PICK e : e = Head(queue[r])
  OBVIOUS
<1>1. /\ pc[r] = "finalize" /\ queue[r] # <<>> /\ ~inOrder
      /\ queue' = [queue EXCEPT ![r] = Tail(@)]
      /\ UNCHANGED <<chan, sent, got, plan, inOrder, epoch, pc, order, checking>>
  BY DEF PopCompleted
<1>2. /\ e[3] = "recv" => Unpacks(r, e)
      /\ e[3] # "recv" => UNCHANGED <<end, unpacked>>
  BY <1>0, PopStep
<1>3. /\ epoch[r] \in 1 .. Len(plan) /\ plan \in Plans /\ queue[r] \in Seq(Ends)
      /\ queue \in [Ranks -> Seq(Ends)]
      /\ \A x \in Coms(r) : x \in Ends /\ x[1] = r
  BY <1>1, RankFacts, Kept
<1>4. /\ Tail(queue[r]) \in Seq(Ends) /\ e \in Ends /\ Contains(queue[r], e)
      /\ \A x : Contains(queue[r], x) => x = e \/ Contains(Tail(queue[r]), x)
      /\ \A x : Contains(Tail(queue[r]), x) => Contains(queue[r], x)
      /\ IsInjective(queue[r]) =>
            IsInjective(Tail(queue[r])) /\ ~Contains(Tail(queue[r]), e)
  BY <1>0, <1>1, <1>3, TailFacts
<1>5. QueueOK(r) /\ UnpackInv(r) /\ ReadyOK(r)
  BY <1>1 DEF UnpackInv
<1>6. /\ e \in Coms(r) /\ Resting(end[e]) /\ e[1] = r
      /\ e[3] = "recv" => ~Got(r, e[2])
      /\ IsInjective(queue[r])
  BY <1>3, <1>4, <1>5, InToSet DEF QueueOK
<1>7. queue'[r] = Tail(queue[r])
  BY <1>1, <1>3
<1>8. /\ \A x : Active(x)' <=> Active(x)
      /\ \A x : Unposted(x)' <=> Unposted(x)
      /\ \A p : Coms(p)' = Coms(p)
  BY <1>1, SameCalls
<1>9. OthersStay(r)
  <2>1. end \in [Ends -> EndType] /\ unpacked \in [Ranks -> Seq([from : Ranks, data : Payload])]
    BY <1>4, EndFacts, Kept
  <2>2. \A x \in Ends : x[1] # r => end'[x] = end[x]
    BY <2>1, <1>2, <1>6 DEF Unpacks
  <2>3. \A p \in Ranks : p # r => queue'[p] = queue[p] /\ unpacked'[p] = unpacked[p]
    BY <2>1, <1>1, <1>2, <1>3 DEF Unpacks
  <2> QED
    BY <2>2, <2>3, <1>1 DEF OthersStay
<1>10. \A x \in Ends : Resting(end[x]) => Resting(end'[x])
  <2>1. end \in [Ends -> EndType]
    BY <1>4, EndFacts
  <2> QED
    BY <2>1, <1>2 DEF Unpacks
<1>11. ASSUME \A p : Got(r, p)' <=> Got(r, p) \/ (e[3] = "recv" /\ p = e[2])
       PROVE  QueueOK(r)'
  <2>1. ASSUME NEW x \in ToSet(queue'[r])
        PROVE  /\ x \in Coms(r) /\ ~Unposted(x)' /\ Resting(end'[x])
               /\ x[3] = "recv" => ~Got(r, x[2])'
    <3>1. Contains(Tail(queue[r]), x) /\ Contains(queue[r], x) /\ x # e
      BY <2>1, <1>4, <1>6, <1>7, InToSet
    <3>2. /\ x \in Coms(r) /\ ~Unposted(x) /\ Resting(end[x])
          /\ x[3] = "recv" => ~Got(r, x[2])
      BY <3>1, <1>3, <1>5, InToSet DEF QueueOK
    <3>3. x \in Ends /\ x[1] = r
      BY <3>2, <1>3
    <3>4. x[3] = "recv" /\ e[3] = "recv" => x[2] # e[2]
      BY <3>1, <3>3, <1>4, <1>6, EndFields
    <3> QED
      BY <3>2, <3>3, <3>4, <1>8, <1>10, <1>11
  <2> QED
    BY <2>1, <1>4, <1>6, <1>7, <1>8 DEF QueueOK
<1>12. CASE e[3] = "recv"
  <2>1. PICK l \in LinksIn(r, epoch[r]) : l.src = e[2] /\ e = From(r, l.src)
    BY <1>3, <1>6, <1>12, ReceiverLink DEF Coms
  <2>2. Taking(e) = Carried(l, epoch[r])
    BY <2>1, <1>1, <1>5, <1>6, <1>12, TakesCarried
  <2>3. (\A p : Got(r, p)' <=> Got(r, p) \/ p = l.src) /\ UnpackedOK(r)'
    <3>1. ~Got(r, l.src) /\ Unpacks(r, e) /\ UNCHANGED <<plan, inOrder, epoch, pc>>
      BY <2>1, <1>1, <1>2, <1>6, <1>12
    <3> QED
      BY <3>1, <2>1, <2>2, <1>1, <1>5, Unpacking
  <2>4. ReadyOK(r)'
    BY <2>1, <2>3, <1>1, <1>2, <1>4, <1>5, <1>7, <1>8, <1>12, OthersReady
  <2>5. QueueOK(r)'
    BY <2>1, <2>3, <1>11, <1>12
  <2>6. UnpackInv(r)'
    BY <2>3, <2>4, <2>5, <1>1, <1>5 DEF UnpackInv
  <2> QED
    BY <2>6, <1>9, OthersUnpack
<1>13. CASE e[3] # "recv"
  <2>1. /\ \A p : Got(r, p)' <=> Got(r, p)
        /\ UnpackedOK(r)' <=> UnpackedOK(r)
    <3>1. LinksIn(r, epoch[r])' = LinksIn(r, epoch[r])
      BY <1>1, SameScripts
    <3> QED
      BY <3>1, <1>1, <1>2, <1>13, SameCarried DEF Got, UnpackedOK
  <2>2. QueueOK(r)'
    BY <2>1, <1>11, <1>13
  <2>3. ReadyOK(r)'
    <3>1. /\ LinksIn(r, epoch[r])' = LinksIn(r, epoch[r])
          /\ \A m : Carried(m, epoch[r])' = Carried(m, epoch[r])
      BY <1>1, SameScripts, SameCarried
    <3> SUFFICES ASSUME NEW m \in LinksIn(r, epoch[r]), NEW x, x = From(r, m.src)
                 PROVE  /\ Active(x) /\ Resting(end[x]) /\ ~Got(r, m.src) =>
                              /\ Items(end[x].data, end[x].full)
                                    = Carried(m, epoch[r]).data
                              /\ Contains(queue'[r], x)
                        /\ Got(r, m.src) => Resting(end[x])
      BY <3>1, <2>1, <1>1, <1>2, <1>8, <1>13 DEF ReadyOK, From
    <3>2. x[3] = "recv"
      BY DEF From
    <3>3. Contains(queue[r], x) => Contains(queue'[r], x)
      BY <3>2, <1>4, <1>7, <1>13
    <3> QED
      BY <3>3, <1>1, <1>5 DEF ReadyOK
  <2>4. UnpackInv(r)'
    BY <2>1, <2>2, <2>3, <1>1, <1>5 DEF UnpackInv
  <2> QED
    BY <2>4, <1>9, OthersUnpack
<1> QED
  BY <1>12, <1>13

LEMMA NextUnpacks ==
    ASSUME ExchangeInv, NEW r \in Ranks, UnpackNext(r),
           \A p \in Ranks : UnpackInv(p)
    PROVE  \A p \in Ranks : UnpackInv(p)'
<1>0. PICK e : e = Head(order[r])
  OBVIOUS
<1>1. /\ pc[r] = "finalize" /\ order[r] # <<>>
      /\ order' = [order EXCEPT ![r] = Tail(@)]
      /\ UNCHANGED <<chan, sent, got, plan, inOrder, epoch, pc, checking>>
  BY DEF UnpackNext
<1>2. /\ OthersStay(r) /\ Unpacks(r, e) /\ e[1] = r
      /\ \A x \in Ends : Active(x)' <=> Active(x)
  BY <1>0, UnpackNextStep
<1>3. /\ epoch[r] \in 1 .. Len(plan) /\ plan \in Plans /\ order[r] \in Seq(Ends)
      /\ order \in [Ranks -> Seq(Ends)] /\ order'[r] = Tail(order[r])
      /\ \A x \in Coms(r) : x \in Ends /\ x[1] = r
  BY <1>1, RankFacts
<1>4. PICK q : q = order[r]
  OBVIOUS
<1>5. PICK t : t = order'[r]
  OBVIOUS
<1>6. /\ q \in Seq(Ends) /\ q # <<>> /\ t = Tail(q) /\ e = Head(q)
  BY <1>0, <1>1, <1>3, <1>4, <1>5
<1>7. /\ t \in Seq(Ends) /\ e \in Ends /\ Contains(q, e)
      /\ Len(q) \in Nat /\ Len(q) >= 1 /\ Len(t) = Len(q) - 1
      /\ \A i \in 1 .. Len(t) : i + 1 \in 1 .. Len(q) /\ t[i] = q[i + 1]
      /\ \A x : Contains(q, x) => x = e \/ Contains(t, x)
      /\ \A x : Contains(t, x) => Contains(q, x)
  BY <1>6, TailFacts
<1>8. inOrder /\ UnpackInv(r) /\ OrderOK(r)
  BY <1>1 DEF UnpackInv
<1>9. /\ \A l \in LinksIn(r, epoch[r]) : Contains(q, From(r, l.src)) <=> ~Got(r, l.src)
      /\ \A x \in ToSet(q) :
            /\ x \in Coms(r) /\ x[3] = "recv"
            /\ \A i \in 2 .. Len(unpacked[r]) : unpacked[r][i].from < x[2]
      /\ \A i, j \in DOMAIN q : i < j => q[i][2] < q[j][2]
  BY <1>4, <1>8 DEF OrderOK
<1>10. e \in Coms(r) /\ e[3] = "recv" /\ Resting(end[e])
  BY <1>2, <1>6, <1>7, <1>9, InToSet DEF Unpacks
<1>11. PICK l \in LinksIn(r, epoch[r]) : l.src = e[2] /\ e = From(r, l.src)
  BY <1>3, <1>10, ReceiverLink DEF Coms
<1>12. /\ ~Got(r, l.src)
       /\ \A i \in 2 .. Len(unpacked[r]) : unpacked[r][i].from < l.src
  BY <1>6, <1>7, <1>9, <1>11, InToSet
<1>13. Taking(e) = Carried(l, epoch[r])
  BY <1>1, <1>8, <1>10, <1>11, <1>12, TakesCarried
<1>14. /\ \A p : Got(r, p)' <=> Got(r, p) \/ p = l.src
       /\ UnpackedOK(r)'
       /\ Len(unpacked'[r]) = Len(unpacked[r]) + 1 /\ Len(unpacked[r]) >= 1
       /\ \A i \in 2 .. Len(unpacked[r]) : unpacked'[r][i] = unpacked[r][i]
       /\ unpacked'[r][Len(unpacked[r]) + 1].from = l.src
  <2>1. UNCHANGED <<plan, inOrder, epoch, pc>>
    BY <1>1
  <2> QED
    BY <2>1, <1>1, <1>2, <1>8, <1>11, <1>12, <1>13, Unpacking
<1>15. ReadyOK(r)'
  BY <1>1, <1>2, <1>8, <1>11, <1>14, OthersReady
<1>16. \A x : Contains(t, x) => e[2] < x[2]
  <2> SUFFICES ASSUME NEW i \in 1 .. Len(t) PROVE e[2] < t[i][2]
    <3>1. DOMAIN t = 1 .. Len(t)
      BY <1>7
    <3> QED
      BY <3>1 DEF Contains
  <2>1. /\ i + 1 \in DOMAIN q /\ 1 \in DOMAIN q /\ 1 < i + 1
        /\ t[i] = q[i + 1] /\ e = q[1]
    BY <1>6, <1>7
  <2> QED
    BY <2>1, <1>9
<1>17. \A m \in LinksIn(r, epoch[r]) : Contains(t, From(r, m.src)) <=> ~Got(r, m.src)'
  <2> TAKE m \in LinksIn(r, epoch[r])
  <2>1. e[2] \in Nat /\ From(r, m.src)[2] = m.src
    BY <1>7, EndFields, ScheduleAssumption DEF From
  <2>2. CASE m.src = l.src
    BY <2>1, <2>2, <1>11, <1>14, <1>16
  <2>3. CASE m.src # l.src
    BY <2>1, <2>3, <1>7, <1>9, <1>11, <1>14
  <2> QED
    BY <2>2, <2>3
<1>18. ASSUME NEW x \in ToSet(t)
       PROVE  /\ x \in Coms(r) /\ x[3] = "recv"
              /\ \A i \in 2 .. Len(unpacked'[r]) : unpacked'[r][i].from < x[2]
  <2>1. Contains(t, x) /\ x \in ToSet(q)
    BY <1>6, <1>7, InToSet
  <2>2. /\ x \in Coms(r) /\ x[3] = "recv"
        /\ \A i \in 2 .. Len(unpacked[r]) : unpacked[r][i].from < x[2]
    BY <2>1, <1>9
  <2>3. l.src < x[2]
    BY <2>1, <1>11, <1>16
  <2>4. Len(unpacked[r]) \in Nat
    BY UnpackedFacts
  <2>5. \A i \in 2 .. Len(unpacked'[r]) :
           i \in 2 .. Len(unpacked[r]) \/ i = Len(unpacked[r]) + 1
    BY <2>4, <1>14
  <2> QED
    BY <2>2, <2>3, <2>5, <1>14
<1>19. \A i, j \in DOMAIN t : i < j => t[i][2] < t[j][2]
  <2> TAKE i, j \in DOMAIN t
  <2>1. i \in 1 .. Len(t) /\ j \in 1 .. Len(t)
    BY <1>7
  <2>2. i + 1 \in DOMAIN q /\ j + 1 \in DOMAIN q /\ (i < j => i + 1 < j + 1)
        /\ t[i] = q[i + 1] /\ t[j] = q[j + 1]
    BY <2>1, <1>6, <1>7
  <2> QED
    BY <2>2, <1>9
<1>20. OrderOK(r)'
  <2>1. LinksIn(r, epoch[r])' = LinksIn(r, epoch[r]) /\ Coms(r)' = Coms(r)
    BY <1>1, SameScripts DEF Coms
  <2> QED
    BY <2>1, <1>5, <1>17, <1>18, <1>19 DEF OrderOK, From
<1>21. UnpackInv(r)'
  BY <1>1, <1>8, <1>14, <1>15, <1>20 DEF UnpackInv
<1> QED
  BY <1>2, <1>21, OthersUnpack

\* Local data are copied: nothing has been unpacked, and all is to be.
LEMMA CopyUnpacks ==
    ASSUME ExchangeInv, NEW r \in Ranks, performLocalCopies(r),
           \A p \in Ranks : UnpackInv(p)
    PROVE  \A p \in Ranks : UnpackInv(p)'
<1>1. /\ pc[r] = "begin" /\ order[r] = <<>>
      /\ unpacked' = [unpacked EXCEPT ![r] = <<[from |-> r, data |-> <<>>]>>]
      /\ pc' = [pc EXCEPT ![r] = "finalize"]
      /\ order' = [order EXCEPT ![r] = IF inOrder THEN ByRank(r) ELSE <<>>]
      /\ UNCHANGED <<end, chan, sent, got, plan, inOrder, epoch, checking, queue>>
  BY DEF performLocalCopies, peerVars
<1>2. OthersStay(r) /\ \A x \in Ends : Active(x)' <=> Active(x)
  BY LocalCopiesStep
<1>3. /\ epoch[r] \in 1 .. Len(plan) /\ plan \in Plans
      /\ pc \in [Ranks -> Phases] /\ order \in [Ranks -> Seq(Ends)]
      /\ \A x \in Coms(r) : x \in Ends /\ x[1] = r
      /\ unpacked \in [Ranks -> Seq([from : Ranks, data : Payload])]
  BY <1>1, RankFacts, Kept
<1>4. /\ unpacked'[r] = <<[from |-> r, data |-> <<>>]>> /\ pc'[r] = "finalize"
      /\ order'[r] = IF inOrder THEN ByRank(r) ELSE <<>>
  BY <1>1, <1>3
<1>5. Len(unpacked'[r]) = 1 /\ unpacked'[r][1].from = r
  BY <1>4
<1>6. \A i \in 2 .. Len(unpacked'[r]) : FALSE
  BY <1>5
<1>7. \A p : ~Got(r, p)'
  BY <1>6 DEF Got
<1>8. \A p : ~Got(r, p)
  BY <1>1 DEF Got, UnpackInv
<1>9. UnpackedOK(r)'
  BY <1>5, <1>6 DEF UnpackedOK
<1>10. /\ LinksIn(r, epoch[r])' = LinksIn(r, epoch[r]) /\ Coms(r)' = Coms(r)
       /\ \A m : Carried(m, epoch[r])' = Carried(m, epoch[r])
  BY <1>1, SameScripts, SameCarried DEF Coms
<1>11. ReadyOK(r)'
  <2>1. ReadyOK(r)
    BY <1>1 DEF UnpackInv
  <2>2. \A m \in LinksIn(r, epoch[r]) : From(r, m.src) \in Ends
    BY <1>3, LinkInFacts
  <2> QED
    BY <2>1, <2>2, <1>1, <1>2, <1>7, <1>8, <1>10 DEF ReadyOK, From
<1>12. ~inOrder => QueueOK(r)'
  <2>1. ~inOrder => QueueOK(r)
    BY <1>1 DEF UnpackInv
  <2>2. \A x : x[1] = r => ~Unposted(x)'
    BY <1>4 DEF Unposted
  <2> QED
    BY <2>1, <2>2, <1>1, <1>3, <1>7, <1>10 DEF QueueOK
<1>13. inOrder => OrderOK(r)'
  <2> SUFFICES ASSUME inOrder PROVE OrderOK(r)'
    OBVIOUS
  <2>1. PICK q : q = order'[r]
    OBVIOUS
  <2>2. q = ByRank(r)
    BY <2>1, <1>4
  <2>3. /\ Enumerates(q, {<<r, l.src, "recv">> : l \in LinksIn(r, epoch[r])})
        /\ \A i, j \in 1 .. Len(q) : i < j => q[i][2] < q[j][2]
    BY <2>2, <1>3, ByRankFacts
  <2>4. /\ q \in Seq({<<r, l.src, "recv">> : l \in LinksIn(r, epoch[r])})
        /\ \A x : Contains(q, x) <=>
                     x \in {<<r, l.src, "recv">> : l \in LinksIn(r, epoch[r])}
        /\ \A x : x \in ToSet(q) <=>
                     x \in {<<r, l.src, "recv">> : l \in LinksIn(r, epoch[r])}
    BY <2>3, EnumerationHas
  <2>5. \A l \in LinksIn(r, epoch[r]) : Contains(q, From(r, l.src))
    BY <2>4 DEF From
  <2>6. \A x \in ToSet(q) : x \in Coms(r) /\ x[3] = "recv"
    <3> TAKE x \in ToSet(q)
    <3>1. PICK l \in LinksIn(r, epoch[r]) : x = <<r, l.src, "recv">>
      BY <2>4
    <3> QED
      BY <3>1 DEF Coms, ComsOf
  <2>7. \A i, j \in DOMAIN q : i < j => q[i][2] < q[j][2]
    <3>1. DOMAIN q = 1 .. Len(q)
      BY <2>4
    <3> QED
      BY <3>1, <2>3
  <2> QED
    BY <2>1, <2>5, <2>6, <2>7, <1>6, <1>7, <1>10 DEF OrderOK, From
<1>14. UnpackInv(r)'
  <2>1. ~inOrder => order'[r] = <<>>
    BY <1>4
  <2>2. inOrder' = inOrder
    BY <1>1
  <2> QED
    BY <2>1, <2>2, <1>4, <1>9, <1>11, <1>12, <1>13 DEF UnpackInv
<1> QED
  BY <1>2, <1>14, OthersUnpack

\* A call begins: no Peer is active, and nothing is queued.
LEMMA AllocateUnpacks ==
    ASSUME ExchangeInv, NEW r \in Ranks, Allocate(r),
           \A p \in Ranks : UnpackInv(p)
    PROVE  \A p \in Ranks : UnpackInv(p)'
<1>1. /\ pc[r] = "idle" /\ pc' = [pc EXCEPT ![r] = "begin"]
      /\ unpacked' = [unpacked EXCEPT ![r] = <<>>]
      /\ UNCHANGED <<plan, inOrder, queue>>
  BY DEF Allocate
<1>2. ExchangeInv' /\ OthersStay(r) /\ \A e \in Ends : ~Active(e)' \/ e[1] # r
  BY AllocateStep
<1>3. /\ pc'[r] = "begin" /\ unpacked'[r] = <<>> /\ queue'[r] = <<>>
  BY <1>1, RankFacts, Kept DEF ControlInv
<1>4. /\ epoch'[r] \in 1 .. Len(plan) /\ plan \in Plans
  <2>1. /\ epoch[r] < Len(plan) /\ epoch' = [epoch EXCEPT ![r] = epoch[r] + 1]
        /\ epoch \in [Ranks -> 0 .. Len(plan)] /\ epoch[r] \in Nat
        /\ plan \in Plans /\ Len(plan) \in Nat
    BY RankFacts DEF Allocate
  <2> QED
    BY <2>1
<1>5. \A p : ~Got(r, p)'
  BY <1>3 DEF Got
<1>6. ReadyOK(r)'
  <2> SUFFICES ASSUME NEW l \in LinksIn(r, epoch'[r]) PROVE ~Active(From(r, l.src))'
    <3>1. LinksIn(r, epoch[r])' = LinksIn(r, epoch'[r])
      BY <1>1 DEF LinksIn
    <3>2. \A x : From(r, x)' = From(r, x)
      BY DEF From
    <3> QED
      BY <3>1, <3>2, <1>5 DEF ReadyOK
  <2>1. From(r, l.src) \in Ends /\ From(r, l.src)[1] = r
    BY <1>4, LinkInFacts
  <2> QED
    BY <2>1, <1>2
<1>7. QueueOK(r)'
  BY <1>3 DEF QueueOK, ToSet, IsInjective
<1>8. UnpackInv(r)'
  BY <1>3, <1>6, <1>7 DEF UnpackInv
<1> QED
  BY <1>2, <1>8, OthersUnpack

\* A Peer is posted; it was not before, so it is not queued.
LEMMA PostUnpacks ==
    ASSUME ExchangeInv, NEW r \in Ranks, Post(r),
           \A p \in Ranks : UnpackInv(p)
    PROVE  \A p \in Ranks : UnpackInv(p)'
<1>0. PICK e : e = Head(order[r])
  OBVIOUS
<1>1. /\ pc[r] = "begin" /\ order[r] # <<>>
      /\ order' = [order EXCEPT ![r] = Tail(@)]
      /\ UNCHANGED <<plan, inOrder, epoch, pc, checking, queue, unpacked>>
  BY DEF Post
<1>2. /\ OthersStay(r) /\ e \in Ends /\ Unposted(e) /\ ~Resting(end'[e])
      /\ \A x \in Ends : x # e => end'[x] = end[x] /\ (Active(x)' <=> Active(x))
  BY <1>0, PostStep
<1>3. /\ epoch[r] \in 1 .. Len(plan) /\ plan \in Plans
      /\ order[r] \in Seq(Ends) /\ order \in [Ranks -> Seq(Ends)]
      /\ queue[r] \in Seq(Ends)
      /\ \A x \in Coms(r) : x \in Ends /\ x[1] = r
  BY <1>1, RankFacts
<1>4. UnpackInv(r) /\ ReadyOK(r) /\ \A p : ~Got(r, p)
  BY <1>1 DEF UnpackInv, Got
<1>5. \A p : ~Got(r, p)'
  BY <1>1, <1>4 DEF Got
<1>6. /\ LinksIn(r, epoch[r])' = LinksIn(r, epoch[r]) /\ Coms(r)' = Coms(r)
      /\ \A m : Carried(m, epoch[r])' = Carried(m, epoch[r])
  BY <1>1, SameScripts, SameCarried DEF Coms
<1>7. \A x : x[1] = r => (Unposted(x)' => Unposted(x))
  <2>1. order'[r] = Tail(order[r])
    BY <1>1, <1>3
  <2>2. \A x : Contains(Tail(order[r]), x) => Contains(order[r], x)
    BY <1>1, <1>3, TailFacts
  <2> QED
    BY <2>1, <2>2, <1>1 DEF Unposted
<1>8. ReadyOK(r)'
  <2> SUFFICES ASSUME NEW m \in LinksIn(r, epoch[r]), NEW x, x = From(r, m.src)
               PROVE  Active(x)' /\ Resting(end'[x]) =>
                         /\ Items(end'[x].data, end'[x].full)
                               = Carried(m, epoch[r]).data
                         /\ ~inOrder => Contains(queue[r], x)
    BY <1>1, <1>5, <1>6 DEF ReadyOK, From
  <2>1. x \in Ends
    BY <1>3, LinkInFacts
  <2>2. CASE x = e
    BY <2>2, <1>2
  <2>3. CASE x # e
    BY <2>1, <2>3, <1>2, <1>4 DEF ReadyOK
  <2> QED
    BY <2>2, <2>3
<1>9. ~inOrder => QueueOK(r)'
  <2> SUFFICES ASSUME ~inOrder PROVE QueueOK(r)'
    OBVIOUS
  <2>1. QueueOK(r)
    BY <1>1, <1>4 DEF UnpackInv
  <2>2. ASSUME NEW x \in ToSet(queue[r])
        PROVE  x \in Coms(r) /\ ~Unposted(x)' /\ Resting(end'[x])
    <3>1. x \in Coms(r) /\ ~Unposted(x) /\ Resting(end[x]) /\ x \in Ends /\ x[1] = r
      BY <2>1, <1>3 DEF QueueOK
    <3> QED
      BY <3>1, <1>2, <1>7
  <2> QED
    BY <2>1, <2>2, <1>1, <1>5, <1>6 DEF QueueOK
<1>10. UnpackInv(r)'
  BY <1>1, <1>4, <1>8, <1>9 DEF UnpackInv
<1> QED
  BY <1>2, <1>10, OthersUnpack

\* A Peer goes on; one that is done is pushed, and its message is complete.
LEMMA CheckUnpacks ==
    ASSUME ExchangeInv, NEW r \in Ranks, Check(r),
           \A p \in Ranks : UnpackInv(p)
    PROVE  \A p \in Ranks : UnpackInv(p)'
<1>1. /\ pc[r] # "idle"
      /\ UNCHANGED <<plan, inOrder, epoch, pc, order, checking, unpacked>>
  BY DEF Check
<1>2. PICK e \in Ends, t \in EndType : Checks(r, e, t)
  BY CheckMoves
<1>3. /\ e \in Coms(r) /\ end' = [end EXCEPT ![e] = t]
      /\ Active(e) /\ ~Resting(end[e])
      /\ Resting(t) /\ e[3] = "recv" =>
            Items(t.data, t.full) = Msg(Scripts[e], epoch[r])
      /\ queue' = [queue EXCEPT ![r] = IF Resting(t) /\ Pushes(r) THEN Push(@, e) ELSE @]
  BY <1>2 DEF Checks
<1>4. /\ epoch[r] \in 1 .. Len(plan) /\ plan \in Plans
      /\ queue[r] \in Seq(Ends) /\ queue \in [Ranks -> Seq(Ends)]
      /\ end \in [Ends -> EndType] /\ e[1] = r
      /\ \A x \in Coms(r) : x \in Ends /\ x[1] = r
  BY <1>1, <1>3, RankFacts, Kept, EndFacts
<1>5. /\ end'[e] = t /\ \A x \in Ends : x # e => end'[x] = end[x]
      /\ queue'[r] = IF Resting(t) /\ Pushes(r) THEN Push(queue[r], e) ELSE queue[r]
  BY <1>3, <1>4
<1>6. OthersStay(r)
  BY <1>1, <1>3, <1>4, <1>5 DEF OthersStay
<1>7. UnpackInv(r) /\ ReadyOK(r)
  BY <1>1 DEF UnpackInv
<1>8. /\ \A x : Active(x)' <=> Active(x)
      /\ \A x : Unposted(x)' <=> Unposted(x)
      /\ Coms(r)' = Coms(r)
  BY <1>1, SameCalls
<1>9. /\ LinksIn(r, epoch[r])' = LinksIn(r, epoch[r])
      /\ \A m : Carried(m, epoch[r])' = Carried(m, epoch[r])
      /\ \A p : Got(r, p)' <=> Got(r, p)
  BY <1>1, SameScripts, SameCarried DEF Got
<1>10. ~inOrder => Pushes(r)
  BY <1>1, <1>7, RankFacts DEF Pushes, UnpackInv, Phases
<1>11. e[3] = "recv" =>
          \E l \in LinksIn(r, epoch[r]) :
             e = From(r, l.src) /\ l.src = e[2] /\ ~Got(r, e[2])
             /\ Msg(Scripts[e], epoch[r]) = Carried(l, epoch[r]).data
  <2> SUFFICES ASSUME e[3] = "recv"
               PROVE  \E l \in LinksIn(r, epoch[r]) :
                         e = From(r, l.src) /\ l.src = e[2] /\ ~Got(r, e[2])
                         /\ Msg(Scripts[e], epoch[r]) = Carried(l, epoch[r]).data
    OBVIOUS
  <2>1. PICK l \in LinksIn(r, epoch[r]) : l.src = e[2] /\ e = From(r, l.src)
    BY <1>3, <1>4, ReceiverLink DEF Coms
  <2>2. ~Got(r, l.src)
    BY <2>1, <1>3, <1>7 DEF ReadyOK
  <2>3. Msg(Scripts[From(r, l.src)], epoch[r]) = Carried(l, epoch[r]).data
    BY <1>4, LinkInFacts
  <2> QED
    BY <2>1, <2>2, <2>3
<1>12. /\ \A x : Contains(queue[r], x) => Contains(queue'[r], x)
       /\ \A x : Contains(queue'[r], x) => Contains(queue[r], x) \/ (x = e /\ Resting(t))
       /\ IsInjective(queue[r]) => IsInjective(queue'[r])
       /\ queue'[r] \in Seq(Ends)
       /\ ~inOrder /\ Resting(t) => Contains(queue'[r], e)
  <2>1. CASE Resting(t) /\ Pushes(r)
    BY <2>1, <1>4, <1>5, PushType
  <2>2. CASE ~(Resting(t) /\ Pushes(r))
    BY <2>2, <1>4, <1>5, <1>10
  <2> QED
    BY <2>1, <2>2
<1>13. ReadyOK(r)'
  <2> SUFFICES ASSUME NEW m \in LinksIn(r, epoch[r]), NEW x, x = From(r, m.src)
               PROVE  /\ Active(x) /\ Resting(end'[x]) /\ ~Got(r, m.src) =>
                            /\ Items(end'[x].data, end'[x].full)
                                  = Carried(m, epoch[r]).data
                            /\ ~inOrder => Contains(queue'[r], x)
                      /\ Got(r, m.src) => Resting(end'[x])
    BY <1>1, <1>8, <1>9 DEF ReadyOK, From
  <2>1. x \in Ends /\ x[2] = m.src /\ x[3] = "recv"
    BY <1>4, LinkInFacts
  <2>2. CASE x = e
    <3>1. PICK l \in LinksIn(r, epoch[r]) :
             l.src = e[2] /\ ~Got(r, e[2])
             /\ Msg(Scripts[e], epoch[r]) = Carried(l, epoch[r]).data
      BY <2>1, <2>2, <1>11
    <3>2. m = l
      BY <3>1, <2>1, <2>2, <1>4, LinkInFacts
    <3> QED
      BY <3>1, <3>2, <2>1, <2>2, <1>3, <1>5, <1>12
  <2>3. CASE x # e
    BY <2>1, <2>3, <1>5, <1>7, <1>12 DEF ReadyOK
  <2> QED
    BY <2>2, <2>3
<1>14. ~inOrder => QueueOK(r)'
  <2> SUFFICES ASSUME ~inOrder PROVE QueueOK(r)'
    OBVIOUS
  <2>1. QueueOK(r)
    BY <1>1, <1>7 DEF UnpackInv
  <2>2. ASSUME NEW x \in ToSet(queue'[r])
        PROVE  /\ x \in Coms(r) /\ ~Unposted(x) /\ Resting(end'[x])
               /\ x[3] = "recv" => ~Got(r, x[2])
    <3>1. Contains(queue[r], x) \/ (x = e /\ Resting(t))
      BY <2>2, <1>12, InToSet
    <3>2. CASE Contains(queue[r], x)
      <4>1. /\ x \in Coms(r) /\ ~Unposted(x) /\ Resting(end[x])
            /\ x[3] = "recv" => ~Got(r, x[2])
        BY <2>1, <3>2, <1>4, InToSet DEF QueueOK
      <4> QED
        BY <4>1, <1>3, <1>4, <1>5
    <3>3. CASE x = e /\ Resting(t)
      BY <3>3, <1>3, <1>5, <1>11 DEF Active
    <3> QED
      BY <3>1, <3>2, <3>3
  <2> QED
    BY <2>1, <2>2, <1>8, <1>9, <1>12 DEF QueueOK
<1>15. UnpackInv(r)'
  <2>1. (UnpackedOK(r)' <=> UnpackedOK(r)) /\ (OrderOK(r)' <=> OrderOK(r))
    BY <1>1, <1>8, <1>9 DEF UnpackedOK, OrderOK, From
  <2> QED
    BY <2>1, <1>1, <1>7, <1>9, <1>13, <1>14 DEF UnpackInv
<1> QED
  BY <1>6, <1>15, OthersUnpack

\* A process returns: every message has been unpacked.
LEMMA FinalizeUnpacks ==
    ASSUME ExchangeInv, NEW r \in Ranks, finalizeEnds(r),
           \A p \in Ranks : UnpackInv(p)
    PROVE  \A p \in Ranks : UnpackInv(p)'
<1>1. /\ pc[r] = "finalize" /\ order[r] = <<>>
      /\ inOrder \/ queue[r] = <<>>
      /\ pc' = [pc EXCEPT ![r] = "idle"]
      /\ UNCHANGED <<plan, inOrder, epoch, unpacked>>
  BY DEF finalizeEnds, Advancing
<1>2. OthersStay(r) /\ \A e \in Coms(r) : Resting(end[e])
  BY FinalizeStep
<1>3. /\ epoch[r] \in 1 .. Len(plan) /\ plan \in Plans /\ pc'[r] = "idle"
  BY <1>1, RankFacts
<1>4. UnpackInv(r) /\ UnpackedOK(r) /\ ReadyOK(r)
  BY <1>1 DEF UnpackInv
<1>5. \A x : ~Contains(<<>>, x)
  BY DEF Contains
<1>6. ASSUME NEW l \in LinksIn(r, epoch[r]) PROVE Got(r, l.src)
  <2>1. CASE inOrder
    <3>1. Contains(order[r], From(r, l.src)) <=> ~Got(r, l.src)
      BY <2>1, <1>1, <1>4 DEF UnpackInv, OrderOK
    <3> QED
      BY <3>1, <1>1, <1>5
  <2>2. CASE ~inOrder
    <3>0. PICK e : e = From(r, l.src)
      OBVIOUS
    <3>1. e \in Coms(r) /\ e[1] = r
      BY <3>0, <1>3, LinkInFacts DEF Coms
    <3>2. Active(e) /\ Resting(end[e])
      BY <3>1, <1>1, <1>2 DEF Active, Unposted
    <3>3. ~Got(r, l.src) => Contains(queue[r], e)
      BY <3>0, <3>2, <2>2, <1>4 DEF ReadyOK
    <3> QED
      BY <3>3, <2>2, <1>1, <1>5
  <2> QED
    BY <2>1, <2>2
<1>7. /\ LinksIn(r, epoch[r])' = LinksIn(r, epoch[r])
      /\ \A m : Carried(m, epoch[r])' = Carried(m, epoch[r])
      /\ \A p : Got(r, p)' <=> Got(r, p)
  BY <1>1, SameScripts, SameCarried DEF Got
<1>8. UnpackedOK(r)' <=> UnpackedOK(r)
  BY <1>1, <1>7 DEF UnpackedOK
<1>9. UnpackInv(r)'
  BY <1>1, <1>3, <1>4, <1>6, <1>7, <1>8 DEF UnpackInv
<1> QED
  BY <1>2, <1>9, OthersUnpack

LEMMA UnpackStarts ==
    ASSUME Init
    PROVE  \A r \in Ranks : UnpackInv(r)
<1> TAKE r \in Ranks
<1>1. pc[r] = "idle" /\ epoch[r] = 0
  BY DEF Init
<1> QED
  BY <1>1 DEF UnpackInv

LEMMA UnpackGoesOn ==
    ASSUME ExchangeInv, [Next]_vars, \A r \in Ranks : UnpackInv(r)
    PROVE  \A r \in Ranks : UnpackInv(r)'
<1>1. CASE Network
  <2>1. UNCHANGED rankVars
    BY <1>1 DEF Network
  <2>2. PICK e \in Ends, c \in Chunks : Transfer(e, c) \/ SendCompletes(e, c)
    BY <1>1 DEF Network, MPIStep
  <2>3. /\ end' = [end EXCEPT ![e] = end'[e]]
        /\ ~Resting(end[e]) /\ ~Resting(end'[e])
    BY <2>1, <2>2, TransferStep, CompletesStep
  <2>4. end \in [Ends -> EndType]
    BY EndFacts
  <2>5. RestersStay
    <3> SUFFICES ASSUME NEW x \in Ends, Resting(end[x]) \/ Resting(end'[x])
                 PROVE  end'[x] = end[x]
      BY DEF RestersStay
    <3>1. x # e
      BY <2>3
    <3> QED
      BY <3>1, <2>3, <2>4
  <2> QED
    BY <2>1, <2>5, AllStay DEF rankVars
<1>2. CASE UNCHANGED vars
  BY <1>2, AllStay DEF vars, peerVars, rankVars, RestersStay
<1>3. ASSUME NEW r \in Ranks, RankStep(r) PROVE \A p \in Ranks : UnpackInv(p)'
  <2>1. CASE WaitsomeReturns(r)
    <3>1. RestersStay
      BY <2>1, WaitsomeStep
    <3>2. UNCHANGED <<plan, inOrder, epoch, pc, order, queue, unpacked>>
      BY <2>1 DEF WaitsomeReturns
    <3> QED
      BY <3>1, <3>2, AllStay
  <2>2. CASE CheckNext(r)
    <3>1. RestersStay
      BY <2>2, CheckNextStep
    <3>2. UNCHANGED <<plan, inOrder, epoch, pc, order, queue, unpacked>>
      BY <2>2 DEF CheckNext
    <3> QED
      BY <3>1, <3>2, AllStay
  <2>3. CASE CompleteNext(r)
    <3>1. RestersStay
      BY <2>3, CompleteNextStep
    <3>2. UNCHANGED <<plan, inOrder, epoch, pc, order, queue, unpacked>>
      BY <2>3 DEF CompleteNext, rankVars
    <3> QED
      BY <3>1, <3>2, AllStay
  <2> QED
    BY <1>3, <2>1, <2>2, <2>3, AllocateUnpacks, PostUnpacks, CopyUnpacks,
       CheckUnpacks, PopUnpacks, NextUnpacks, FinalizeUnpacks DEF RankStep
<1> QED
  BY <1>1, <1>2, <1>3 DEF Next, Over

LEMMA ScheduleHolds == Spec => []ScheduleInv
<1>1. Init => ScheduleInv
  BY ExchangeStarts, UnpackStarts DEF ScheduleInv
<1>2. ScheduleInv /\ [Next]_vars => ScheduleInv'
  BY ExchangeGoesOn, UnpackGoesOn DEF ScheduleInv
<1> QED
  BY <1>1, <1>2, PTL DEF Spec

\* One entry for each link, behind that of the local data.
LEMMA OneForEach ==
    ASSUME ExchangeInv, NEW r \in Ranks, epoch[r] >= 1, UnpackedOK(r),
           \A l \in LinksIn(r, epoch[r]) : Got(r, l.src)
    PROVE  Len(unpacked[r]) = Cardinality(LinksIn(r, epoch[r])) + 1
<1>0. PICK u : u = unpacked[r]
  OBVIOUS
<1>1. PICK n : n = Len(u)
  OBVIOUS
<1>2. PICK k : k = epoch[r]
  OBVIOUS
<1>3. n \in Nat /\ n >= 1 /\ k \in 1 .. Len(plan) /\ plan \in Plans
  BY <1>0, <1>1, <1>2, UnpackedFacts, RankFacts DEF UnpackedOK
<1>4. /\ \A i \in 2 .. n : \E l \in LinksIn(r, k) : u[i] = Carried(l, k)
      /\ \A i, j \in 2 .. n : u[i].from = u[j].from => i = j
      /\ \A l \in LinksIn(r, k) : \E i \in 2 .. n : u[i].from = l.src
  BY <1>0, <1>1, <1>2 DEF UnpackedOK, Got
<1> DEFINE f == [i \in 2 .. n |-> CHOOSE l \in LinksIn(r, k) : u[i] = Carried(l, k)]
<1>5. ASSUME NEW i \in 2 .. n
      PROVE  f[i] \in LinksIn(r, k) /\ u[i].from = f[i].src
  <2>1. f[i] \in LinksIn(r, k) /\ u[i] = Carried(f[i], k)
    BY <1>4
  <2> HIDE DEF f
  <2> QED
    BY <2>1, <1>3, LinkInFacts
<1>6. f \in [2 .. n -> LinksIn(r, k)]
  BY <1>5
<1> HIDE DEF f
<1>7. f \in Injection(2 .. n, LinksIn(r, k))
  <2>1. \A i, j \in 2 .. n : f[i] = f[j] => i = j
    BY <1>4, <1>5
  <2> QED
    BY <2>1, <1>6 DEF Injection, IsInjective
<1>8. f \in Surjection(2 .. n, LinksIn(r, k))
  <2>1. \A l \in LinksIn(r, k) : \E i \in 2 .. n : f[i] = l
    <3> TAKE l \in LinksIn(r, k)
    <3>1. PICK i \in 2 .. n : u[i].from = l.src
      BY <1>4
    <3>2. f[i] \in LinksIn(r, k) /\ f[i].src = l.src
      BY <3>1, <1>5
    <3>3. f[i] = l
      BY <3>2, <1>3, LinkInFacts
    <3> QED
      BY <3>3
  <2> QED
    BY <2>1, <1>6 DEF Surjection
<1>9. IsFiniteSet(2 .. n) /\ Cardinality(2 .. n) = n - 1
  BY <1>3, FS_Interval
<1>10. Cardinality(LinksIn(r, k)) = n - 1
  BY <1>7, <1>8, <1>9, FS_Surjection
<1> QED
  BY <1>0, <1>1, <1>2, <1>3, <1>10

LEMMA AllUnpacked ==
    ASSUME ScheduleInv
    PROVE  UnpackedOnce
<1> SUFFICES ASSUME NEW r \in Ranks, pc[r] = "idle", epoch[r] > 0,
                    NEW u, u = unpacked[r]
             PROVE  /\ Len(u) = Cardinality(LinksIn(r, epoch[r])) + 1
                    /\ Head(u).from = r
                    /\ ToSet(Tail(u)) = {Carried(l, epoch[r]) : l \in LinksIn(r, epoch[r])}
                    /\ inOrder => \A i, j \in 2 .. Len(u) :
                                     i < j => u[i].from < u[j].from
  BY DEF UnpackedOnce
<1>1. /\ ExchangeInv /\ UnpackedOK(r)
      /\ \A l \in LinksIn(r, epoch[r]) : Got(r, l.src)
  BY DEF ScheduleInv, UnpackInv
<1>2. epoch[r] \in 1 .. Len(plan) /\ plan \in Plans
  BY <1>1, RankFacts
<1>3. u \in Seq([from : Ranks, data : Payload]) /\ Len(u) \in Nat
  BY <1>1, UnpackedFacts
<1>4. /\ Len(u) >= 1 /\ u[1].from = r
      /\ \A i \in 2 .. Len(u) : \E l \in LinksIn(r, epoch[r]) : u[i] = Carried(l, epoch[r])
      /\ inOrder => \A i, j \in 2 .. Len(u) : i < j => u[i].from < u[j].from
  BY <1>1 DEF UnpackedOK
<1>5. Len(u) = Cardinality(LinksIn(r, epoch[r])) + 1
  BY <1>1, <1>2, OneForEach
<1>6. u # <<>> /\ Head(u) = u[1]
  BY <1>3, <1>4
<1>7. \A x : x \in ToSet(Tail(u)) <=> \E i \in 2 .. Len(u) : x = u[i]
  <2>1. /\ Tail(u) \in Seq([from : Ranks, data : Payload])
        /\ Len(Tail(u)) = Len(u) - 1
        /\ \A i \in 1 .. Len(Tail(u)) : Tail(u)[i] = u[i + 1]
    BY <1>3, <1>6, TailFacts
  <2>2. PICK t : t = Tail(u)
    OBVIOUS
  <2>3. /\ DOMAIN t = 1 .. (Len(u) - 1)
        /\ \A i \in 1 .. (Len(u) - 1) : t[i] = u[i + 1]
    BY <2>1, <2>2
  <2>4. \A i \in 2 .. Len(u) : i - 1 \in 1 .. (Len(u) - 1) /\ t[i - 1] = u[i]
    BY <1>3, <2>3
  <2>5. \A i \in 1 .. (Len(u) - 1) : i + 1 \in 2 .. Len(u) /\ t[i] = u[i + 1]
    BY <1>3, <2>3
  <2>6. \A x : x \in ToSet(t) <=> \E i \in 1 .. (Len(u) - 1) : x = t[i]
    BY <2>3 DEF ToSet
  <2>7. ASSUME NEW x, x \in ToSet(t) PROVE \E i \in 2 .. Len(u) : x = u[i]
    <3>1. PICK i \in 1 .. (Len(u) - 1) : x = t[i]
      BY <2>6, <2>7
    <3>2. i + 1 \in 2 .. Len(u) /\ x = u[i + 1]
      BY <2>5, <3>1
    <3> QED
      BY <3>2
  <2>8. ASSUME NEW i \in 2 .. Len(u) PROVE u[i] \in ToSet(t)
    BY <2>4, <2>6
  <2> QED
    BY <2>2, <2>7, <2>8
<1>8. \A l \in LinksIn(r, epoch[r]) : \E i \in 2 .. Len(u) : u[i] = Carried(l, epoch[r])
  <2> TAKE l \in LinksIn(r, epoch[r])
  <2>1. PICK i \in 2 .. Len(u) : u[i].from = l.src
    BY <1>1 DEF Got
  <2>2. PICK m \in LinksIn(r, epoch[r]) : u[i] = Carried(m, epoch[r])
    BY <1>4
  <2>3. m = l
    BY <2>1, <2>2, <1>2, LinkInFacts
  <2> QED
    BY <2>2, <2>3
<1>9. ToSet(Tail(u)) = {Carried(l, epoch[r]) : l \in LinksIn(r, epoch[r])}
  BY <1>4, <1>7, <1>8
<1> QED
  BY <1>4, <1>5, <1>6, <1>9

(***************************************************************************)
(* Whatever order messages come in and whichever process is ahead, for any *)
(* plan: a receive posted with a guess is long enough, and a process that  *)
(* returns from communicate() has unpacked every message of that call      *)
(* once, and nothing else, in the senders' order when it is to.            *)
(***************************************************************************)
THEOREM DataDoArrive == Spec => []DataArrives
<1>1. ScheduleInv => DataArrives
  BY NoneTruncated, AllUnpacked DEF ScheduleInv, ExchangeInv, DataArrives
<1> QED
  BY <1>1, ScheduleHolds, PTL

=============================================================================
