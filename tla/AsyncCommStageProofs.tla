------------------------ MODULE AsyncCommStageProofs ------------------------
(***************************************************************************)
(* Proofs about AsyncCommStage for any number of Members, slots, requests  *)
(* and waits: the invariants the TLC runs check are inductive together.    *)
(***************************************************************************)
EXTENDS AsyncCommStage, SequenceTheorems, FiniteSetTheorems,
        WellFoundedInduction, TLAPS

(***************************************************************************)
(* A non-empty set of naturals has a least element.                        *)
(***************************************************************************)
LEMMA LeastElement ==
    ASSUME NEW T \in SUBSET Nat, T # {}
    PROVE  \E x \in T : \A y \in T : x <= y
<1>1. \E x \in T : \A y \in T : <<y, x>> \notin OpToRel(<, Nat)
    BY WFMin, NatLessThanWellFounded, Zenon
<1>2. \A x, y \in T : <<y, x>> \in OpToRel(<, Nat) <=> y < x
    BY DEF OpToRel
<1>3. \E x \in T : \A y \in T : ~ (y < x)
    BY <1>1, <1>2, Zenon
<1>4. QED
    BY <1>3

(***************************************************************************)
(* The length privateDestageMember() trims the vectors to: what is beyond  *)
(* it is null, and the last slot it keeps is not.                          *)
(***************************************************************************)
LEMMA UsedLengthWorks ==
    ASSUME NEW ms \in Seq(Members \cup {NoMember})
    PROVE  /\ UsedLength(ms) \in 0 .. Len(ms)
           /\ UsedLength(ms) > 0 => ms[UsedLength(ms)] # NoMember
           /\ \A j \in (UsedLength(ms) + 1) .. Len(ms) : ms[j] = NoMember
<1> DEFINE T == {k \in 0 .. Len(ms) : \A j \in (k + 1) .. Len(ms) : ms[j] = NoMember}
<1>1. T \in SUBSET Nat /\ Len(ms) \in T
    OBVIOUS
<1>2. PICK k \in T : \A y \in T : k <= y
    <2> HIDE DEF T
    <2> QED BY <1>1, LeastElement
<1>3. k > 0 => ms[k] # NoMember
    <2>1. SUFFICES ASSUME k > 0, ms[k] = NoMember PROVE FALSE
        OBVIOUS
    <2>2. k - 1 \in T
        BY <2>1
    <2>3. QED
        BY <1>2, <2>2
<1>4. \E n \in 0 .. Len(ms) :
          /\ n > 0 => ms[n] # NoMember
          /\ \A j \in (n + 1) .. Len(ms) : ms[j] = NoMember
    BY <1>2, <1>3
<1>5. QED
    BY <1>4 DEF UsedLength

(***************************************************************************)
(* Tiles(s) in the form the proofs use: bounds and the order of the        *)
(* offsets, and the block of each request.                                 *)
(***************************************************************************)
LEMMA TilesFacts ==
    ASSUME NEW s \in StageType, Tiles(s)
    PROVE  /\ s.members \in Seq(Members \cup {NoMember})
           /\ s.memberToReq \in Seq(Nat)
           /\ s.reqToMember \in Seq(Nat)
           /\ s.req \in Seq(RequestStates)
           /\ Len(s.members) \in Nat
           /\ Len(s.req) \in Nat
           /\ Len(s.memberToReq) = Len(s.members) + 1
           /\ Len(s.reqToMember) = Len(s.req)
           /\ Total(s) = Len(s.req)
           /\ s.memberToReq[1] = 0
           /\ s.memberToReq[Len(s.members) + 1] = Len(s.req)
           /\ \A i \in 1 .. Len(s.members) + 1 : s.memberToReq[i] \in 0 .. Len(s.req)
           /\ \A i, j \in 1 .. Len(s.members) + 1 :
                  i < j => s.memberToReq[i] < s.memberToReq[j]
           /\ \A r \in 1 .. Len(s.req) :
                  /\ s.reqToMember[r] \in 1 .. Len(s.members)
                  /\ s.memberToReq[s.reqToMember[r]] < r
                  /\ r <= s.memberToReq[s.reqToMember[r] + 1]
<1> DEFINE L == Len(s.members)
           R == Len(s.req)
<1>1. /\ s.members \in Seq(Members \cup {NoMember})
      /\ s.memberToReq \in Seq(Nat)
      /\ s.reqToMember \in Seq(Nat)
      /\ s.req \in Seq(RequestStates)
      /\ L \in Nat /\ R \in Nat
    BY DEF StageType
<1>2. /\ Len(s.memberToReq) = L + 1 /\ Len(s.reqToMember) = R
      /\ s.memberToReq[1] = 0 /\ Total(s) = R
      /\ \A i, j \in 1 .. L + 1 : i < j => s.memberToReq[i] < s.memberToReq[j]
    BY DEF Tiles
<1>3. s.memberToReq[L + 1] = R
    BY <1>2 DEF Total
<1>4. \A i \in 1 .. L + 1 : s.memberToReq[i] \in Nat
    BY <1>1, <1>2
<1>5. \A i \in 1 .. L + 1 : s.memberToReq[i] \in 0 .. R
    <2> TAKE i \in 1 .. L + 1
    <2>1. CASE i = L + 1
        BY <1>1, <1>3, <2>1
    <2>2. CASE i # L + 1
        <3>1. i \in 1 .. L + 1 /\ L + 1 \in 1 .. L + 1 /\ i < L + 1
            BY <1>1, <2>2
        <3>2. s.memberToReq[i] < s.memberToReq[L + 1]
            BY <1>2, <3>1
        <3>3. QED
            BY <1>1, <1>3, <1>4, <3>2
    <2>3. QED
        BY <2>1, <2>2
<1>6. \A r \in 1 .. R : s.reqToMember[r] \in 1 .. L /\ r \in Block(s, s.reqToMember[r])
    BY DEF Tiles
<1>7. \A r \in 1 .. R : /\ s.reqToMember[r] \in 1 .. L
                        /\ s.memberToReq[s.reqToMember[r]] < r
                        /\ r <= s.memberToReq[s.reqToMember[r] + 1]
    <2> TAKE r \in 1 .. R
    <2>1. s.reqToMember[r] \in 1 .. L /\ r \in Block(s, s.reqToMember[r])
        BY <1>6
    <2>2. /\ s.memberToReq[s.reqToMember[r]] \in Nat
          /\ s.memberToReq[s.reqToMember[r] + 1] \in Nat
        BY <1>1, <1>4, <2>1
    <2>3. QED
        BY <1>1, <2>1, <2>2 DEF Block
<1>8. QED
    BY <1>1, <1>2, <1>3, <1>5, <1>7

LEMMA TilesIntro ==
    ASSUME NEW s \in StageType,
           Len(s.memberToReq) = Len(s.members) + 1,
           Len(s.reqToMember) = Len(s.req),
           s.memberToReq[1] = 0,
           s.memberToReq[Len(s.members) + 1] = Len(s.req),
           \A i, j \in 1 .. Len(s.members) + 1 :
               i < j => s.memberToReq[i] < s.memberToReq[j],
           \A r \in 1 .. Len(s.req) :
               /\ s.reqToMember[r] \in 1 .. Len(s.members)
               /\ s.memberToReq[s.reqToMember[r]] < r
               /\ r <= s.memberToReq[s.reqToMember[r] + 1]
    PROVE  Tiles(s)
<1>1. Total(s) = Len(s.req)
    BY DEF Total
<1>2. ASSUME NEW r \in 1 .. Len(s.req)
      PROVE  s.reqToMember[r] \in 1 .. Len(s.members) /\ r \in Block(s, s.reqToMember[r])
    <2>1. /\ s.memberToReq \in Seq(Nat) /\ Len(s.members) \in Nat
          /\ Len(s.req) \in Nat
        BY DEF StageType
    <2>2. PICK b \in 1 .. Len(s.members) : b = s.reqToMember[r]
        OBVIOUS
    <2>3. b \in 1 .. Len(s.members) + 1 /\ b + 1 \in 1 .. Len(s.members) + 1
        BY <2>1
    <2>4. s.memberToReq[b] \in Nat /\ s.memberToReq[b + 1] \in Nat
        BY <2>1, <2>3, ElementOfSeq
    <2>5. QED
        BY <2>1, <2>2, <2>4 DEF Block
<1>3. QED
    BY <1>1, <1>2 DEF Tiles

(***************************************************************************)
(* What appending a Member does to the vectors, element by element.        *)
(***************************************************************************)
LEMMA StagedShape ==
    ASSUME NEW s \in StageType, Tiles(s), NEW m \in Members, NEW n \in Nat \ {0}
    PROVE  LET t == Staged(s, m, n)
               L == Len(s.members)
           IN  /\ t \in StageType
               /\ Tiles(t)
               /\ Len(t.members) = L + 1
               /\ t.members[L + 1] = m
               /\ \A i \in 1 .. L : t.members[i] = s.members[i]
               /\ \A i \in 1 .. L + 1 : t.memberToReq[i] = s.memberToReq[i]
               /\ t.memberToReq[L + 2] = Len(s.req) + n
               /\ Len(t.req) = Len(s.req) + n
               /\ \A r \in 1 .. Len(s.req) :
                      t.req[r] = s.req[r] /\ t.reqToMember[r] = s.reqToMember[r]
               /\ \A r \in (Len(s.req) + 1) .. Len(t.req) :
                      t.req[r] = "null" /\ t.reqToMember[r] = L + 1
<1> DEFINE t == Staged(s, m, n)
           L == Len(s.members)
           R == Len(s.req)
<1>1. /\ s.members \in Seq(Members \cup {NoMember})
      /\ s.memberToReq \in Seq(Nat)
      /\ s.reqToMember \in Seq(Nat)
      /\ s.req \in Seq(RequestStates)
      /\ L \in Nat /\ R \in Nat
      /\ Len(s.memberToReq) = L + 1 /\ Total(s) = R /\ Len(s.reqToMember) = R
    BY TilesFacts
<1>0. /\ s.memberToReq[1] = 0 /\ s.memberToReq[L + 1] = R
      /\ \A j \in 1 .. L + 1 : s.memberToReq[j] \in 0 .. R
      /\ \A j, l \in 1 .. L + 1 : j < l => s.memberToReq[j] < s.memberToReq[l]
      /\ \A r \in 1 .. R : /\ s.reqToMember[r] \in 1 .. L
                           /\ s.memberToReq[s.reqToMember[r]] < r
                           /\ r <= s.memberToReq[s.reqToMember[r] + 1]
    BY TilesFacts
<1>2. /\ t.members \in Seq(Members \cup {NoMember})
      /\ Len(t.members) = L + 1
      /\ t.members[L + 1] = m
      /\ \A i \in 1 .. L : t.members[i] = s.members[i]
    BY <1>1, AppendProperties DEF Staged
<1>3. /\ t.memberToReq \in Seq(Nat)
      /\ Len(t.memberToReq) = L + 2
      /\ t.memberToReq[L + 2] = R + n
      /\ \A i \in 1 .. L + 1 : t.memberToReq[i] = s.memberToReq[i]
    <2>1. t.memberToReq = Append(s.memberToReq, R + n) /\ R + n \in Nat
        BY <1>1 DEF Staged
    <2> HIDE DEF t, L, R
    <2>2. QED
        BY <1>1, <2>1, AppendProperties
<1>4. /\ t.reqToMember \in Seq(Nat)
      /\ Len(t.reqToMember) = R + n
      /\ \A r \in 1 .. R : t.reqToMember[r] = s.reqToMember[r]
      /\ \A r \in (R + 1) .. (R + n) : t.reqToMember[r] = L + 1
    <2>1. [r \in 1 .. n |-> L + 1] \in Seq(Nat) /\ Len([r \in 1 .. n |-> L + 1]) = n
        BY <1>1
    <2>2. t.reqToMember = s.reqToMember \o [r \in 1 .. n |-> L + 1]
        BY DEF Staged
    <2>3. QED
        BY <1>1, <2>1, <2>2, ConcatProperties
<1>5. /\ t.req \in Seq(RequestStates)
      /\ Len(t.req) = R + n
      /\ \A r \in 1 .. R : t.req[r] = s.req[r]
      /\ \A r \in (R + 1) .. (R + n) : t.req[r] = "null"
    <2>1. /\ [r \in 1 .. n |-> "null"] \in Seq(RequestStates)
          /\ Len([r \in 1 .. n |-> "null"]) = n
        BY <1>1 DEF RequestStates
    <2>2. t.req = s.req \o [r \in 1 .. n |-> "null"]
        BY DEF Staged
    <2>3. QED
        BY <1>1, <2>1, <2>2, ConcatProperties
<1>6. t \in StageType
    BY <1>2, <1>3, <1>4, <1>5 DEF Staged, StageType
<1>7. Tiles(t)
    <2> HIDE DEF t
    <2>1. t.memberToReq[1] = 0
        BY <1>0, <1>1, <1>3
    <2>2. ASSUME NEW i \in 1 .. L + 2, NEW j \in 1 .. L + 2, i < j
          PROVE  t.memberToReq[i] < t.memberToReq[j]
        <3>1. i \in 1 .. L + 1 /\ t.memberToReq[i] = s.memberToReq[i]
              /\ s.memberToReq[i] \in 0 .. R
            BY <1>0, <1>1, <1>3, <2>2
        <3>2. CASE j = L + 2
            <4>1. t.memberToReq[j] = R + n /\ R < R + n
                BY <1>1, <1>3, <3>2
            <4>2. QED
                BY <1>1, <3>1, <4>1
        <3>3. CASE j # L + 2
            <4>1. j \in 1 .. L + 1 /\ t.memberToReq[j] = s.memberToReq[j]
                BY <1>1, <1>3, <3>3
            <4>2. QED
                BY <1>0, <2>2, <3>1, <4>1
        <3>4. QED
            BY <3>2, <3>3
    <2>3. ASSUME NEW r \in 1 .. R
          PROVE  /\ t.reqToMember[r] \in 1 .. L + 1
                 /\ t.memberToReq[t.reqToMember[r]] < r
                 /\ r <= t.memberToReq[t.reqToMember[r] + 1]
        <3>1. PICK b \in 1 .. L : /\ t.reqToMember[r] = b
                                  /\ s.memberToReq[b] < r
                                  /\ r <= s.memberToReq[b + 1]
            BY <1>0, <1>4
        <3>2. b \in 1 .. L + 1 /\ b + 1 \in 1 .. L + 1
            BY <1>1
        <3>3. /\ t.memberToReq[b] = s.memberToReq[b]
              /\ t.memberToReq[b + 1] = s.memberToReq[b + 1]
            BY <1>3, <3>2
        <3>4. QED
            BY <3>1, <3>2, <3>3
    <2>4. ASSUME NEW r \in (R + 1) .. (R + n)
          PROVE  /\ t.reqToMember[r] \in 1 .. L + 1
                 /\ t.memberToReq[t.reqToMember[r]] < r
                 /\ r <= t.memberToReq[t.reqToMember[r] + 1]
        <3>0. L + 1 \in 1 .. L + 1 /\ L + 1 + 1 = L + 2
            BY <1>1
        <3>1. t.memberToReq[L + 1] = R
            BY <1>0, <1>3, <3>0
        <3>2. t.reqToMember[r] = L + 1 /\ L + 1 + 1 = L + 2 /\ L + 1 \in 1 .. L + 1
            BY <1>4, <3>0
        <3>3. t.memberToReq[t.reqToMember[r] + 1] = R + n
            BY <1>3, <3>2
        <3>4. R < r /\ r <= R + n
            BY <1>1
        <3>5. QED
            BY <3>1, <3>2, <3>3, <3>4
    <2>5. ASSUME NEW r \in 1 .. Len(t.req)
          PROVE  /\ t.reqToMember[r] \in 1 .. Len(t.members)
                 /\ t.memberToReq[t.reqToMember[r]] < r
                 /\ r <= t.memberToReq[t.reqToMember[r] + 1]
        <3>1. r \in 1 .. R \/ r \in (R + 1) .. (R + n)
            BY <1>1, <1>5
        <3>2. QED
            BY <1>2, <2>3, <2>4, <3>1
    <2>6. /\ Len(t.memberToReq) = Len(t.members) + 1
          /\ Len(t.reqToMember) = Len(t.req)
          /\ t.memberToReq[Len(t.members) + 1] = Len(t.req)
          /\ Len(t.members) + 1 = L + 2
        BY <1>1, <1>2, <1>3, <1>4, <1>5
    <2>7. QED
        BY <1>6, <2>1, <2>2, <2>5, <2>6, TilesIntro
<1>8. QED
    BY <1>2, <1>3, <1>4, <1>5, <1>6, <1>7

(***************************************************************************)
(* What emptying slot i of s does: the vectors of d keep a prefix of those *)
(* of s, in place, that ends in a Member, and all that is cut off belonged *)
(* to null slots.                                                          *)
(***************************************************************************)
KeepsPrefix(s, i, d) ==
    /\ d \in StageType
    /\ Tiles(d)
    /\ Len(d.members) \in 0 .. Len(s.members)
    /\ Len(d.members) > 0 => d.members[Len(d.members)] # NoMember
    /\ \A j \in 1 .. Len(d.members) :
           d.members[j] = IF j = i THEN NoMember ELSE s.members[j]
    /\ \A j \in (Len(d.members) + 1) .. Len(s.members) :
           j = i \/ s.members[j] = NoMember
    /\ \A j \in 1 .. Len(d.members) + 1 : d.memberToReq[j] = s.memberToReq[j]
    /\ Len(d.req) = s.memberToReq[Len(d.members) + 1]
    /\ Len(d.req) <= Len(s.req)
    /\ \A r \in 1 .. Len(d.req) :
           d.req[r] = s.req[r] /\ d.reqToMember[r] = s.reqToMember[r]

LEMMA DestagedShape ==
    ASSUME NEW s \in StageType, Tiles(s), NEW i \in 1 .. Len(s.members)
    PROVE  KeepsPrefix(s, i, Destaged(s, i))
<1> DEFINE ms == [s.members EXCEPT ![i] = NoMember]
           k  == UsedLength(ms)
           nr == s.memberToReq[k + 1]
           d  == Destaged(s, i)
           L  == Len(s.members)
           R  == Len(s.req)
<1>1. /\ s.members \in Seq(Members \cup {NoMember})
      /\ s.memberToReq \in Seq(Nat)
      /\ s.reqToMember \in Seq(Nat)
      /\ s.req \in Seq(RequestStates)
      /\ L \in Nat /\ R \in Nat
      /\ Len(s.memberToReq) = L + 1 /\ Total(s) = R /\ Len(s.reqToMember) = R
    BY TilesFacts
<1>0. /\ s.memberToReq[1] = 0 /\ s.memberToReq[L + 1] = R
      /\ \A j \in 1 .. L + 1 : s.memberToReq[j] \in 0 .. R
      /\ \A j, l \in 1 .. L + 1 : j < l => s.memberToReq[j] < s.memberToReq[l]
      /\ \A r \in 1 .. R : /\ s.reqToMember[r] \in 1 .. L
                           /\ s.memberToReq[s.reqToMember[r]] < r
                           /\ r <= s.memberToReq[s.reqToMember[r] + 1]
    BY TilesFacts
<1>2. /\ ms \in Seq(Members \cup {NoMember})
      /\ Len(ms) = L
      /\ \A j \in 1 .. L : ms[j] = IF j = i THEN NoMember ELSE s.members[j]
    BY <1>1, ExceptSeq
<1>3. /\ k \in 0 .. L
      /\ k > 0 => ms[k] # NoMember
      /\ \A j \in (k + 1) .. L : ms[j] = NoMember
    BY <1>2, UsedLengthWorks
<1>4. nr \in 0 .. R
    <2> HIDE DEF k
    <2>1. QED
        BY <1>0, <1>1, <1>3
<1>5. /\ d.members \in Seq(Members \cup {NoMember})
      /\ Len(d.members) = k
      /\ \A j \in 1 .. k : d.members[j] = ms[j]
    <2>1. d.members = SubSeq(ms, 1, k)
        BY DEF Destaged
    <2>2. \A j \in 1 .. k : ms[j] \in Members \cup {NoMember}
        BY <1>2, <1>3
    <2> HIDE DEF d, k, ms
    <2>3. QED
        BY <1>2, <1>3, <2>1, <2>2, SubSeqProperties
<1>6. /\ d.memberToReq \in Seq(Nat)
      /\ Len(d.memberToReq) = k + 1
      /\ \A j \in 1 .. k + 1 : d.memberToReq[j] = s.memberToReq[j]
    <2>1. d.memberToReq = SubSeq(s.memberToReq, 1, k + 1)
        BY DEF Destaged
    <2> HIDE DEF d, k
    <2>2. QED
        BY <1>1, <1>3, <2>1, SubSeqProperties
<1>7. /\ d.reqToMember \in Seq(Nat)
      /\ Len(d.reqToMember) = nr
      /\ \A r \in 1 .. nr : d.reqToMember[r] = s.reqToMember[r]
    <2>1. d.reqToMember = SubSeq(s.reqToMember, 1, nr)
        BY DEF Destaged
    <2> HIDE DEF d, nr
    <2>2. QED
        BY <1>1, <1>4, <2>1, SubSeqProperties
<1>8. /\ d.req \in Seq(RequestStates)
      /\ Len(d.req) = nr
      /\ \A r \in 1 .. nr : d.req[r] = s.req[r]
    <2>1. d.req = SubSeq(s.req, 1, nr)
        BY DEF Destaged
    <2> HIDE DEF d, nr
    <2>2. QED
        BY <1>1, <1>4, <2>1, SubSeqProperties
<1>9. d \in StageType
    <2>1. d = [members |-> d.members, memberToReq |-> d.memberToReq,
               reqToMember |-> d.reqToMember, req |-> d.req]
        BY DEF Destaged
    <2> HIDE DEF d
    <2>2. QED
        BY <1>5, <1>6, <1>7, <1>8, <2>1 DEF StageType
<1>10. Tiles(d)
    <2> HIDE DEF d, k, ms
    <2>1. d.memberToReq[1] = 0 /\ d.memberToReq[k + 1] = nr
        BY <1>3, <1>6, <1>0
    <2>2. ASSUME NEW a \in 1 .. k + 1, NEW b \in 1 .. k + 1, a < b
          PROVE  d.memberToReq[a] < d.memberToReq[b]
        <3>1. a \in 1 .. L + 1 /\ b \in 1 .. L + 1
            BY <1>1, <1>3
        <3>2. QED
            BY <1>0, <1>6, <2>2, <3>1
    <2>3. ASSUME NEW r \in 1 .. nr
          PROVE  /\ d.reqToMember[r] \in 1 .. k
                 /\ d.memberToReq[d.reqToMember[r]] < r
                 /\ r <= d.memberToReq[d.reqToMember[r] + 1]
        <3>1. r \in 1 .. R /\ r <= s.memberToReq[k + 1] /\ r \in Int
            BY <1>1, <1>4
        <3>2. PICK b \in 1 .. L : /\ d.reqToMember[r] = b
                                  /\ s.memberToReq[b] < r
                                  /\ r <= s.memberToReq[b + 1]
            BY <1>0, <1>7, <3>1
        <3>0. b \in 1 .. L + 1 /\ k + 1 \in 1 .. L + 1
            BY <1>1, <1>3
        <3>3. /\ b \in 1 .. L + 1 /\ k + 1 \in 1 .. L + 1
              /\ s.memberToReq[b] \in Int /\ s.memberToReq[k + 1] \in Int
            BY <1>0, <3>0
        <3>4. s.memberToReq[b] < s.memberToReq[k + 1]
            BY <3>1, <3>2, <3>3
        <3>5. k + 1 < b => s.memberToReq[k + 1] < s.memberToReq[b]
            BY <1>0, <3>3
        <3>6. k + 1 # b
            BY <3>3, <3>4
        <3>7. b \in 1 .. k
            BY <1>3, <3>3, <3>4, <3>5, <3>6
        <3>8. /\ d.memberToReq[b] = s.memberToReq[b]
              /\ d.memberToReq[b + 1] = s.memberToReq[b + 1]
            BY <1>3, <1>6, <3>7
        <3>9. QED
            BY <3>2, <3>7, <3>8
    <2>4. /\ Len(d.memberToReq) = Len(d.members) + 1
          /\ Len(d.reqToMember) = Len(d.req)
          /\ d.memberToReq[Len(d.members) + 1] = Len(d.req)
          /\ Len(d.members) = k /\ Len(d.req) = nr
        BY <1>5, <1>6, <1>7, <1>8, <2>1
    <2>5. QED
        BY <1>9, <2>1, <2>2, <2>3, <2>4, TilesIntro
<1>11. /\ \A j \in 1 .. k : d.members[j] = IF j = i THEN NoMember ELSE s.members[j]
       /\ \A j \in (k + 1) .. L : j = i \/ s.members[j] = NoMember
    <2> HIDE DEF d, k, ms
    <2>1. \A j \in 1 .. k : j \in 1 .. L
        BY <1>1, <1>3
    <2>2. \A j \in (k + 1) .. L : j \in 1 .. L
        BY <1>1, <1>3
    <2>3. QED
        BY <1>2, <1>3, <1>5, <2>1, <2>2
<1>12. k > 0 => d.members[k] # NoMember
    <2> HIDE DEF d, k, ms
    <2>1. QED
        BY <1>3, <1>5
<1>13. QED
    <2> HIDE DEF d, k, ms, nr
    <2>1. Len(d.members) = k /\ Len(d.req) = nr /\ nr = s.memberToReq[k + 1]
        BY <1>5, <1>8 DEF nr
    <2>2. nr <= R
        BY <1>1, <1>4
    <2>3. QED
        BY <1>3, <1>6, <1>7, <1>8, <1>9, <1>10, <1>11, <1>12, <2>1, <2>2
        DEF d, KeepsPrefix

(***************************************************************************)
(* A request that lies in the block of slot i is mapped to slot i.         *)
(***************************************************************************)
LEMMA BlockOwner ==
    ASSUME NEW s \in StageType, Tiles(s), NEW i \in 1 .. Len(s.members),
           NEW r \in Block(s, i)
    PROVE  r \in 1 .. Len(s.req) /\ s.reqToMember[r] = i
<1> DEFINE L == Len(s.members)
           R == Len(s.req)
<1>1. /\ L \in Nat /\ R \in Nat
      /\ \A j \in 1 .. L + 1 : s.memberToReq[j] \in 0 .. R
      /\ \A j, l \in 1 .. L + 1 : j < l => s.memberToReq[j] < s.memberToReq[l]
      /\ \A q \in 1 .. R : /\ s.reqToMember[q] \in 1 .. L
                           /\ s.memberToReq[s.reqToMember[q]] < q
                           /\ q <= s.memberToReq[s.reqToMember[q] + 1]
    BY TilesFacts
<1>2. i \in 1 .. L + 1 /\ i + 1 \in 1 .. L + 1
    BY <1>1
<1>3. s.memberToReq[i] \in 0 .. R /\ s.memberToReq[i + 1] \in 0 .. R
    BY <1>1, <1>2
<1>4. r \in 1 .. R /\ s.memberToReq[i] < r /\ r <= s.memberToReq[i + 1]
    BY <1>1, <1>3 DEF Block
<1>5. PICK b \in 1 .. L : /\ b = s.reqToMember[r]
                          /\ s.memberToReq[b] < r
                          /\ r <= s.memberToReq[b + 1]
    BY <1>1, <1>4
<1>6. b \in 1 .. L + 1 /\ b + 1 \in 1 .. L + 1
    BY <1>1
<1>7. s.memberToReq[b] \in 0 .. R /\ s.memberToReq[b + 1] \in 0 .. R
    BY <1>1, <1>6
<1>8. ~ (b < i)
    <2>1. b + 1 < i => s.memberToReq[b + 1] < s.memberToReq[i]
        BY <1>1, <1>2, <1>6
    <2>2. QED
        BY <1>1, <1>2, <1>3, <1>4, <1>5, <1>6, <1>7, <2>1
<1>9. ~ (i < b)
    <2>1. i + 1 < b => s.memberToReq[i + 1] < s.memberToReq[b]
        BY <1>1, <1>2, <1>6
    <2>2. QED
        BY <1>1, <1>2, <1>3, <1>4, <1>5, <1>6, <1>7, <2>1
<1>10. QED
    BY <1>1, <1>4, <1>5, <1>8, <1>9

-----------------------------------------------------------------------------
(***************************************************************************)
(* The invariants as relations of values, so that what destaging and       *)
(* staging do can be combined: attachStage() does both.                    *)
(***************************************************************************)
Linked(s, on, idx, nr) ==
    /\ \A m \in Members : on[m] =>
           /\ idx[m] \in 1 .. Len(s.members)
           /\ s.members[idx[m]] = m
           /\ nr[m] = s.memberToReq[idx[m] + 1] - s.memberToReq[idx[m]]
    /\ \A i \in 1 .. Len(s.members) : s.members[i] # NoMember =>
           on[s.members[i]] /\ idx[s.members[i]] = i

Trimmed(s) == Len(s.members) > 0 => s.members[Len(s.members)] # NoMember

Held(s, td) ==
    \A r \in 1 .. Len(s.req) : s.req[r] # "null" =>
        /\ s.members[s.reqToMember[r]] # NoMember
        /\ td[s.members[s.reqToMember[r]]] # 0

Waiting(s, on, idx, td) ==
    \A m \in Members : td[m] # 0 =>
        /\ on[m]
        /\ \E r \in 1 .. Len(s.req) : r \in Block(s, idx[m]) /\ s.req[r] # "null"

LEMMA DestagedKeeps ==
    ASSUME NEW s \in StageType, Tiles(s),
           NEW on \in [Members -> BOOLEAN], NEW idx, NEW nr, NEW td,
           NEW m \in Members, on[m],
           Linked(s, on, idx, nr), Held(s, td), Waiting(s, on, idx, td),
           \A r \in 1 .. Len(s.req) : r \in Block(s, idx[m]) => s.req[r] = "null",
           NEW idx2, NEW nr2,
           \A p \in Members \ {m} : idx2[p] = idx[p] /\ nr2[p] = nr[p]
    PROVE  LET d   == Destaged(s, idx[m])
               on2 == [on EXCEPT ![m] = FALSE]
           IN  /\ Linked(d, on2, idx2, nr2)
               /\ Trimmed(d)
               /\ Held(d, td)
               /\ Waiting(d, on2, idx2, td)
<1> DEFINE i   == idx[m]
           d   == Destaged(s, i)
           on2 == [on EXCEPT ![m] = FALSE]
           k   == Len(d.members)
           L   == Len(s.members)
<1>1. i \in 1 .. L /\ s.members[i] = m
    BY DEF Linked
<1>2. /\ k \in 0 .. L
      /\ k > 0 => d.members[k] # NoMember
      /\ \A j \in 1 .. k : d.members[j] = IF j = i THEN NoMember ELSE s.members[j]
      /\ \A j \in (k + 1) .. L : j = i \/ s.members[j] = NoMember
      /\ \A j \in 1 .. k + 1 : d.memberToReq[j] = s.memberToReq[j]
      /\ Len(d.req) = s.memberToReq[k + 1]
      /\ Len(d.req) <= Len(s.req)
      /\ \A r \in 1 .. Len(d.req) :
             d.req[r] = s.req[r] /\ d.reqToMember[r] = s.reqToMember[r]
      /\ d \in StageType /\ Tiles(d)
    <2>1. KeepsPrefix(s, i, Destaged(s, i))
        BY <1>1, DestagedShape
    <2> HIDE DEF i
    <2>2. QED
        BY <2>1 DEF KeepsPrefix
<1> HIDE DEF d
<1>3. L \in Nat /\ Len(s.req) \in Nat /\ Len(d.req) \in Nat
    BY <1>2, TilesFacts
<1>4. ASSUME NEW p \in Members, p # m, on[p]
      PROVE  /\ idx[p] \in 1 .. k
             /\ d.members[idx[p]] = p
             /\ d.memberToReq[idx[p]] = s.memberToReq[idx[p]]
             /\ d.memberToReq[idx[p] + 1] = s.memberToReq[idx[p] + 1]
    <2>1. idx[p] \in 1 .. L /\ s.members[idx[p]] = p /\ p # NoMember
        BY <1>4, StageAssumption DEF Linked
    <2>2. idx[p] # i
        BY <1>1, <1>4, <2>1
    <2>3. idx[p] \in 1 .. k
        BY <1>2, <1>3, <2>1, <2>2
    <2>4. idx[p] \in 1 .. k + 1 /\ idx[p] + 1 \in 1 .. k + 1
        BY <1>2, <1>3, <2>3
    <2>5. QED
        BY <1>2, <2>1, <2>2, <2>3, <2>4
<1>5. Linked(d, on2, idx2, nr2)
    <2>1. ASSUME NEW p \in Members, on2[p]
          PROVE  /\ idx2[p] \in 1 .. k
                 /\ d.members[idx2[p]] = p
                 /\ nr2[p] = d.memberToReq[idx2[p] + 1] - d.memberToReq[idx2[p]]
        <3>1. p # m /\ on[p] /\ idx2[p] = idx[p] /\ nr2[p] = nr[p]
            BY <2>1
        <3>2. nr[p] = s.memberToReq[idx[p] + 1] - s.memberToReq[idx[p]]
            BY <3>1 DEF Linked
        <3>3. QED
            BY <1>4, <3>1, <3>2
    <2>2. ASSUME NEW j \in 1 .. k, d.members[j] # NoMember
          PROVE  on2[d.members[j]] /\ idx2[d.members[j]] = j
        <3>1. j # i /\ d.members[j] = s.members[j] /\ j \in 1 .. L
            BY <1>2, <1>3, <2>2
        <3>2. on[s.members[j]] /\ idx[s.members[j]] = j
            BY <2>2, <3>1 DEF Linked
        <3>3. s.members[j] \in Members /\ s.members[j] # m
            <4>1. s.members[j] \in Members \cup {NoMember}
                BY <3>1 DEF StageType
            <4>2. QED
                BY <1>1, <2>2, <3>1, <3>2, <4>1
        <3>4. QED
            BY <3>1, <3>2, <3>3
    <2>3. QED
        BY <2>1, <2>2 DEF Linked
<1>6. Trimmed(d)
    BY <1>2 DEF Trimmed
<1>7. Held(d, td)
    <2> SUFFICES ASSUME NEW r \in 1 .. Len(d.req), d.req[r] # "null"
                 PROVE  /\ d.members[d.reqToMember[r]] # NoMember
                        /\ td[d.members[d.reqToMember[r]]] # 0
        BY DEF Held
    <2>1. r \in 1 .. Len(s.req) /\ s.req[r] # "null" /\ d.reqToMember[r] = s.reqToMember[r]
        BY <1>2, <1>3
    <2>2. /\ s.members[d.reqToMember[r]] # NoMember
          /\ td[s.members[d.reqToMember[r]]] # 0
        BY <2>1 DEF Held
    <2>3. d.reqToMember[r] \in 1 .. k
        BY <1>2 DEF Tiles
    <2>4. r \in Block(s, s.reqToMember[r])
        BY <2>1 DEF Tiles
    <2>5. d.reqToMember[r] # i
        BY <2>1, <2>4
    <2>6. QED
        BY <1>2, <2>2, <2>3, <2>5
<1>8. Waiting(d, on2, idx2, td)
    <2> SUFFICES ASSUME NEW p \in Members, td[p] # 0
                 PROVE  /\ on2[p]
                        /\ \E r \in 1 .. Len(d.req) :
                               r \in Block(d, idx2[p]) /\ d.req[r] # "null"
        BY DEF Waiting
    <2>1. on[p]
        BY DEF Waiting
    <2>2. PICK r \in 1 .. Len(s.req) : r \in Block(s, idx[p]) /\ s.req[r] # "null"
        BY DEF Waiting
    <2>3. p # m
        BY <2>2
    <2>4. /\ idx[p] \in 1 .. k
          /\ d.memberToReq[idx[p]] = s.memberToReq[idx[p]]
          /\ d.memberToReq[idx[p] + 1] = s.memberToReq[idx[p] + 1]
        BY <1>4, <2>1, <2>3
    <2>5. r \in Block(d, idx[p])
        BY <2>2, <2>4 DEF Block
    <2>6. r \in 1 .. Len(d.req)
        BY <1>2, <2>4, <2>5, BlockOwner
    <2>7. QED
        BY <1>2, <2>1, <2>2, <2>3, <2>5, <2>6
<1>9. QED
    BY <1>5, <1>6, <1>7, <1>8 DEF d

LEMMA StagedKeeps ==
    ASSUME NEW s \in StageType, Tiles(s),
           NEW on \in [Members -> BOOLEAN],
           NEW idx \in [Members -> Nat], NEW nr \in [Members -> Nat], NEW td,
           NEW m \in Members, ~on[m], NEW n \in Nat \ {0},
           Linked(s, on, idx, nr), Held(s, td), Waiting(s, on, idx, td)
    PROVE  LET t    == Staged(s, m, n)
               on2  == [on EXCEPT ![m] = TRUE]
               idx2 == [idx EXCEPT ![m] = Len(s.members) + 1]
               nr2  == [nr EXCEPT ![m] = n]
           IN  /\ Linked(t, on2, idx2, nr2)
               /\ Trimmed(t)
               /\ Held(t, td)
               /\ Waiting(t, on2, idx2, td)
<1> DEFINE t    == Staged(s, m, n)
           L    == Len(s.members)
           R    == Len(s.req)
           on2  == [on EXCEPT ![m] = TRUE]
           idx2 == [idx EXCEPT ![m] = L + 1]
           nr2  == [nr EXCEPT ![m] = n]
<1>1. /\ t \in StageType /\ Tiles(t)
      /\ Len(t.members) = L + 1
      /\ t.members[L + 1] = m
      /\ \A i \in 1 .. L : t.members[i] = s.members[i]
      /\ \A i \in 1 .. L + 1 : t.memberToReq[i] = s.memberToReq[i]
      /\ t.memberToReq[L + 2] = R + n
      /\ Len(t.req) = R + n
      /\ \A r \in 1 .. R : t.req[r] = s.req[r] /\ t.reqToMember[r] = s.reqToMember[r]
      /\ \A r \in (R + 1) .. Len(t.req) : t.req[r] = "null" /\ t.reqToMember[r] = L + 1
    BY StagedShape
<1> HIDE DEF t
<1>2. L \in Nat /\ R \in Nat /\ s.memberToReq[L + 1] = R
    BY TilesFacts
<1>3. ASSUME NEW p \in Members, on[p]
      PROVE  /\ p # m
             /\ idx2[p] = idx[p] /\ nr2[p] = nr[p]
             /\ idx[p] \in 1 .. L
             /\ t.members[idx[p]] = p
             /\ t.memberToReq[idx[p]] = s.memberToReq[idx[p]]
             /\ t.memberToReq[idx[p] + 1] = s.memberToReq[idx[p] + 1]
             /\ nr[p] = s.memberToReq[idx[p] + 1] - s.memberToReq[idx[p]]
    <2>1. /\ idx[p] \in 1 .. L /\ s.members[idx[p]] = p
          /\ nr[p] = s.memberToReq[idx[p] + 1] - s.memberToReq[idx[p]]
        BY <1>3 DEF Linked
    <2>2. idx[p] \in 1 .. L + 1 /\ idx[p] + 1 \in 1 .. L + 1
        BY <1>2, <2>1
    <2>3. QED
        BY <1>1, <1>3, <2>1, <2>2
<1>4. Linked(t, on2, idx2, nr2)
    <2>1. ASSUME NEW p \in Members, on2[p]
          PROVE  /\ idx2[p] \in 1 .. L + 1
                 /\ t.members[idx2[p]] = p
                 /\ nr2[p] = t.memberToReq[idx2[p] + 1] - t.memberToReq[idx2[p]]
        <3>1. CASE p = m
            <4>1. idx2[p] = L + 1 /\ nr2[p] = n /\ L + 1 \in 1 .. L + 1 /\ L + 1 + 1 = L + 2
                BY <1>2, <3>1
            <4>2. t.memberToReq[L + 1] = R
                BY <1>1, <1>2, <4>1
            <4>3. t.memberToReq[L + 2] - R = n
                BY <1>1, <1>2
            <4>4. QED
                BY <1>1, <3>1, <4>1, <4>2, <4>3
        <3>2. CASE p # m
            <4>1. on[p]
                BY <2>1, <3>2
            <4>2. QED
                BY <1>2, <1>3, <4>1
        <3>3. QED
            BY <3>1, <3>2
    <2>2. ASSUME NEW j \in 1 .. L + 1, t.members[j] # NoMember
          PROVE  on2[t.members[j]] /\ idx2[t.members[j]] = j
        <3>1. CASE j = L + 1
            BY <1>1, <3>1
        <3>2. CASE j # L + 1
            <4>1. j \in 1 .. L /\ t.members[j] = s.members[j]
                BY <1>1, <1>2, <3>2
            <4>2. on[s.members[j]] /\ idx[s.members[j]] = j
                BY <2>2, <4>1 DEF Linked
            <4>3. s.members[j] \in Members
                <5>1. s.members[j] \in Members \cup {NoMember}
                    BY <4>1 DEF StageType
                <5>2. QED
                    BY <2>2, <4>1, <5>1
            <4>4. QED
                BY <1>3, <4>1, <4>2, <4>3
        <3>3. QED
            BY <3>1, <3>2
    <2>3. QED
        BY <1>1, <2>1, <2>2 DEF Linked
<1>5. Trimmed(t)
    BY <1>1, StageAssumption DEF Trimmed
<1>6. Held(t, td)
    <2> SUFFICES ASSUME NEW r \in 1 .. Len(t.req), t.req[r] # "null"
                 PROVE  /\ t.members[t.reqToMember[r]] # NoMember
                        /\ td[t.members[t.reqToMember[r]]] # 0
        BY DEF Held
    <2>1. r \in 1 .. R
        BY <1>1, <1>2
    <2>2. s.reqToMember[r] \in 1 .. L
        BY <2>1, TilesFacts
    <2>3. /\ t.req[r] = s.req[r]
          /\ t.members[t.reqToMember[r]] = s.members[s.reqToMember[r]]
        BY <1>1, <2>1, <2>2
    <2>4. QED
        BY <2>1, <2>3 DEF Held
<1>7. Waiting(t, on2, idx2, td)
    <2> SUFFICES ASSUME NEW p \in Members, td[p] # 0
                 PROVE  /\ on2[p]
                        /\ \E r \in 1 .. Len(t.req) :
                               r \in Block(t, idx2[p]) /\ t.req[r] # "null"
        BY DEF Waiting
    <2>1. on[p]
        BY DEF Waiting
    <2>2. PICK r \in 1 .. R : r \in Block(s, idx[p]) /\ s.req[r] # "null"
        BY DEF Waiting
    <2>3. r \in Block(t, idx2[p])
        BY <1>3, <2>1, <2>2 DEF Block
    <2>4. r \in 1 .. Len(t.req) /\ t.req[r] # "null"
        BY <1>1, <1>2, <2>2
    <2>5. QED
        BY <1>3, <2>1, <2>3, <2>4
<1>8. QED
    BY <1>4, <1>5, <1>6, <1>7 DEF t

(***************************************************************************)
(* Changing the states of requests alone leaves the maps as they are.      *)
(***************************************************************************)
LEMMA ReqKeeps ==
    ASSUME NEW s \in StageType, Tiles(s),
           NEW f \in [1 .. Len(s.req) -> RequestStates]
    PROVE  LET t == [s EXCEPT !.req = f]
           IN  /\ t \in StageType
               /\ Tiles(t)
               /\ t.req = f
               /\ Len(t.req) = Len(s.req)
               /\ t.members = s.members
               /\ t.memberToReq = s.memberToReq
               /\ t.reqToMember = s.reqToMember
               /\ \A i : Block(t, i) = Block(s, i)
               /\ Trimmed(s) => Trimmed(t)
               /\ \A on, idx, nr : Linked(s, on, idx, nr) => Linked(t, on, idx, nr)
<1> DEFINE t == [s EXCEPT !.req = f]
<1>1. Len(s.req) \in Nat
    BY DEF StageType
<1>2. f \in Seq(RequestStates) /\ Len(f) = Len(s.req)
    BY <1>1
<1>3. /\ t.req = f /\ t.members = s.members /\ t.memberToReq = s.memberToReq
      /\ t.reqToMember = s.reqToMember /\ t \in StageType
    BY <1>2 DEF StageType
<1> HIDE DEF t
<1>4. \A i : Block(t, i) = Block(s, i)
    BY <1>3 DEF Block
<1>5. Tiles(t)
    BY <1>2, <1>3, <1>4 DEF Tiles, Total
<1>6. Trimmed(s) => Trimmed(t)
    BY <1>3 DEF Trimmed
<1>7. \A on, idx, nr : Linked(s, on, idx, nr) => Linked(t, on, idx, nr)
    BY <1>3 DEF Linked
<1>8. QED
    BY <1>2, <1>3, <1>4, <1>5, <1>6, <1>7 DEF t

-----------------------------------------------------------------------------
(***************************************************************************)
(* The inductive invariant.  TypeOK, BlocksTile, MutualReferences,         *)
(* NoOrphanRequest and NoStrandedMember are its parts: none of the last    *)
(* two is inductive without the maps, and the maps survive a destaging     *)
(* only because a Member without pending requests leaves nothing behind.   *)
(***************************************************************************)
Staging ==
    /\ Linked(stage, onStage, index, nreq)
    /\ Trimmed(stage)
    /\ Held(stage, todo)
    /\ Waiting(stage, onStage, index, todo)

Counted == count = Cardinality({m \in Members : onStage[m]})

Inv == TypeOK /\ BlocksTile /\ Staging /\ Counted

LEMMA InitInv == Init => Inv
<1> SUFFICES ASSUME Init PROVE Inv
    OBVIOUS
<1>1. EmptyStage \in StageType
    BY DEF EmptyStage, StageType
<1>2. Tiles(EmptyStage)
    BY DEF EmptyStage, Tiles, Total, Block
<1>3. TypeOK
    BY <1>1 DEF Init, TypeOK, Unset, Calls
<1>4. Staging
    BY DEF Init, Staging, EmptyStage, Linked, Trimmed, Held, Waiting
<1>5. Counted
    <2>1. {m \in Members : onStage[m]} = {}
        BY DEF Init
    <2>2. QED
        BY <2>1, FS_EmptySet DEF Init, Counted
<1>6. QED
    BY <1>2, <1>3, <1>4, <1>5 DEF Inv, BlocksTile, Init

(***************************************************************************)
(* The actions that move no Member and touch no request.                   *)
(***************************************************************************)
LEMMA SameStageKeeps ==
    ASSUME Inv, UNCHANGED <<stage, count, onStage, index, nreq, todo>>,
           completed' \in Seq(Nat), call' \in Calls, earned' \in [Members -> BOOLEAN]
    PROVE  Inv'
BY DEF Inv, TypeOK, BlocksTile, Staging, Counted

LEMMA PushType ==
    ASSUME Inv, NEW m \in Members, pushToCompletionQueue(m)
    PROVE  Inv'
<1>1. completed' \in Seq(Nat)
    BY AppendProperties DEF Inv, TypeOK, pushToCompletionQueue, PushTo
<1>2. earned' \in [Members -> BOOLEAN]
    BY DEF Inv, TypeOK, pushToCompletionQueue
<1>3. QED
    BY <1>1, <1>2, SameStageKeeps DEF Inv, TypeOK, pushToCompletionQueue

LEMMA YankType ==
    ASSUME Inv, NEW m \in Members, yankFromCompletionQueue(m)
    PROVE  Inv'
<1> DEFINE i == index[m]
           q == completed
           k == CHOOSE k \in 1 .. Len(q) : q[k] = i
<1>1. q \in Seq(Nat) /\ completed' = Yanked(q, i)
    BY DEF Inv, TypeOK, yankFromCompletionQueue
<1>2. ASSUME Contains(q, i)
      PROVE  RemoveAt(q, k) \in Seq(Nat)
    <2>1. k \in 1 .. Len(q)
        BY <1>2 DEF Contains
    <2> HIDE DEF k
    <2>2. SubSeq(q, 1, k - 1) \in Seq(Nat) /\ SubSeq(q, k + 1, Len(q)) \in Seq(Nat)
        <3>1. \A j \in 1 .. Len(q) : q[j] \in Nat
            BY <1>1
        <3>2. Len(q) \in Nat
            BY <1>1
        <3>3. \A j \in 1 .. k - 1 : q[j] \in Nat
            BY <2>1, <3>1, <3>2
        <3>4. \A j \in k + 1 .. Len(q) : q[j] \in Nat
            BY <2>1, <3>1, <3>2
        <3> HIDE DEF q
        <3>5. QED
            BY <2>1, <3>2, <3>3, <3>4, SubSeqProperties
    <2>3. QED
        BY <2>2, ConcatProperties DEF RemoveAt
<1>3. completed' \in Seq(Nat)
    BY <1>1, <1>2 DEF Yanked
<1>4. earned' \in [Members -> BOOLEAN]
    BY DEF Inv, TypeOK, yankFromCompletionQueue
<1>5. QED
    BY <1>3, <1>4, SameStageKeeps DEF Inv, TypeOK, yankFromCompletionQueue

LEMMA ClearType == Inv /\ clearCompletionQueue => Inv'
<1> SUFFICES ASSUME Inv, clearCompletionQueue PROVE Inv'
    OBVIOUS
<1>1. completed' \in Seq(Nat) /\ earned' \in [Members -> BOOLEAN]
    BY DEF clearCompletionQueue
<1>2. QED
    BY <1>1, SameStageKeeps DEF Inv, TypeOK, clearCompletionQueue

LEMMA PopType == Inv /\ popCompletionQueue => Inv'
<1> SUFFICES ASSUME Inv, popCompletionQueue PROVE Inv'
    OBVIOUS
<1>1. completed' \in Seq(Nat) /\ earned' \in [Members -> BOOLEAN]
    BY HeadTailProperties DEF popCompletionQueue, Inv, TypeOK
<1>2. QED
    BY <1>1, SameStageKeeps DEF Inv, TypeOK, popCompletionQueue

LEMMA EnterType == ASSUME Inv, NEW c \in Calls, Enter(c) PROVE Inv'
BY SameStageKeeps DEF Inv, TypeOK, Enter

LEMMA NothingPendingType == Inv /\ NothingPending => Inv'
BY SameStageKeeps DEF Inv, TypeOK, NothingPending, Calls

-----------------------------------------------------------------------------
(***************************************************************************)
(* Members coming and going.                                               *)
(***************************************************************************)
LEMMA InvFacts ==
    ASSUME Inv
    PROVE  /\ stage \in StageType /\ Tiles(stage)
           /\ onStage \in [Members -> BOOLEAN]
           /\ index \in [Members -> Nat] /\ nreq \in [Members -> Nat]
           /\ todo \in [Members -> Nat] /\ count \in Nat
           /\ Linked(stage, onStage, index, nreq) /\ Trimmed(stage)
           /\ Held(stage, todo) /\ Waiting(stage, onStage, index, todo)
           /\ count = Cardinality({m \in Members : onStage[m]})
BY DEF Inv, TypeOK, BlocksTile, Staging, Counted

LEMMA NoPending ==
    ASSUME Inv, NEW m \in Members, onStage[m], ~hasPendingRequests(m)
    PROVE  \A r \in 1 .. Len(stage.req) :
               r \in Block(stage, index[m]) => stage.req[r] = "null"
BY DEF hasPendingRequests, PendingOf, Pending

(***************************************************************************)
(* d_member_count moves with the set of the Members on the stage.          *)
(***************************************************************************)
LEMMA CountKeeps ==
    ASSUME NEW on \in [Members -> BOOLEAN], NEW m \in Members
    PROVE  LET c(f) == Cardinality({p \in Members : f[p]})
           IN  /\ c(on) \in Nat
               /\ on[m] => c([on EXCEPT ![m] = FALSE]) = c(on) - 1 /\ c(on) - 1 \in Nat
               /\ ~on[m] => c([on EXCEPT ![m] = TRUE]) = c(on) + 1
<1> DEFINE D == {p \in Members : on[p]}
<1>1. IsFiniteSet(D) /\ Cardinality(D) \in Nat
    BY StageAssumption, FS_Subset, FS_CardinalityType
<1>2. ASSUME on[m]
      PROVE  /\ Cardinality({p \in Members : [on EXCEPT ![m] = FALSE][p]}) = Cardinality(D) - 1
             /\ Cardinality(D) - 1 \in Nat
    <2>1. {p \in Members : [on EXCEPT ![m] = FALSE][p]} = D \ {m}
        OBVIOUS
    <2>2. m \in D
        BY <1>2
    <2> HIDE DEF D
    <2>3. Cardinality(D \ {m}) = Cardinality(D) - 1 /\ Cardinality(D \ {m}) \in Nat
        BY <1>1, <2>2, FS_RemoveElement, FS_CardinalityType
    <2>4. QED
        BY <2>1, <2>3
<1>3. ASSUME ~on[m]
      PROVE  Cardinality({p \in Members : [on EXCEPT ![m] = TRUE][p]}) = Cardinality(D) + 1
    <2>1. {p \in Members : [on EXCEPT ![m] = TRUE][p]} = D \cup {m}
        OBVIOUS
    <2>2. m \notin D
        BY <1>3
    <2> HIDE DEF D
    <2>3. QED
        BY <1>1, <2>1, <2>2, FS_AddElement
<1>4. QED
    BY <1>1, <1>2, <1>3

LEMMA LeaveKeeps ==
    ASSUME Inv, NEW m \in Members, NEW n \in Nat, Leave(m, n)
    PROVE  Inv'
<1>1. /\ stage' = Destaged(stage, index[m])
      /\ count' = count - 1
      /\ onStage' = [onStage EXCEPT ![m] = FALSE]
      /\ index' = [index EXCEPT ![m] = Unset]
      /\ nreq' = [nreq EXCEPT ![m] = n]
      /\ earned' = [earned EXCEPT ![m] = FALSE]
      /\ todo' = todo /\ completed' = completed /\ call' = call
      /\ onStage[m] /\ ~hasPendingRequests(m)
    BY DEF Leave
<1>2. index[m] \in 1 .. Len(stage.members)
    BY <1>1, InvFacts DEF Linked
<1>3. stage' \in StageType /\ Tiles(stage')
    <2> DEFINE i == index[m]
    <2>1. i \in 1 .. Len(stage.members)
        BY <1>2
    <2> HIDE DEF i
    <2>2. Destaged(stage, i) \in StageType /\ Tiles(Destaged(stage, i))
        BY <2>1, InvFacts, DestagedShape DEF KeepsPrefix
    <2>3. QED
        BY <1>1, <2>2 DEF i
<1>4. \A p \in Members \ {m} : index'[p] = index[p] /\ nreq'[p] = nreq[p]
    BY <1>1, InvFacts
<1>5. Staging'
    <2>1. /\ Linked(stage', onStage', index', nreq') /\ Trimmed(stage')
          /\ Held(stage', todo) /\ Waiting(stage', onStage', index', todo)
        BY <1>1, <1>4, InvFacts, NoPending, DestagedKeeps
    <2>2. QED
        BY <1>1, <2>1 DEF Staging
<1>6. Counted' /\ count' \in Nat
    BY <1>1, InvFacts, CountKeeps DEF Counted
<1>7. TypeOK'
    BY <1>1, <1>3, <1>6 DEF Inv, TypeOK, Unset
<1>8. QED
    BY <1>3, <1>5, <1>6, <1>7 DEF Inv, BlocksTile

LEMMA AttachKeeps ==
    ASSUME Inv, NEW m \in Members, NEW n \in 1 .. MaxReq, attachStage(m, n)
    PROVE  Inv'
<1> DEFINE base == IF onStage[m] THEN Destaged(stage, index[m]) ELSE stage
           on   == [onStage EXCEPT ![m] = FALSE]
<1>1. /\ stage' = Staged(base, m, n)
      /\ count' = IF onStage[m] THEN count ELSE count + 1
      /\ onStage' = [onStage EXCEPT ![m] = TRUE]
      /\ index' = [index EXCEPT ![m] = Len(base.members) + 1]
      /\ nreq' = [nreq EXCEPT ![m] = n]
      /\ earned' = [earned EXCEPT ![m] = FALSE]
      /\ todo' = todo /\ completed' = completed /\ call' = call
      /\ ~hasPendingRequests(m)
    BY DEF attachStage
<1>2. /\ base \in StageType /\ Tiles(base)
      /\ Linked(base, on, index, nreq)
      /\ Held(base, todo) /\ Waiting(base, on, index, todo)
    <2>1. CASE onStage[m]
        <3>1. index[m] \in 1 .. Len(stage.members)
            BY <2>1, InvFacts DEF Linked
        <3>2. Destaged(stage, index[m]) \in StageType /\ Tiles(Destaged(stage, index[m]))
            <4> DEFINE i == index[m]
            <4>1. i \in 1 .. Len(stage.members)
                BY <3>1
            <4> HIDE DEF i
            <4>2. Destaged(stage, i) \in StageType /\ Tiles(Destaged(stage, i))
                BY <4>1, InvFacts, DestagedShape DEF KeepsPrefix
            <4>3. QED
                BY <4>2 DEF i
        <3>3. /\ Linked(Destaged(stage, index[m]), on, index, nreq)
              /\ Held(Destaged(stage, index[m]), todo)
              /\ Waiting(Destaged(stage, index[m]), on, index, todo)
            BY <1>1, <2>1, InvFacts, NoPending, DestagedKeeps
        <3>4. QED
            BY <2>1, <3>2, <3>3
    <2>2. CASE ~onStage[m]
        <3>1. on = onStage /\ base = stage
            BY <2>2, InvFacts
        <3>2. QED
            BY <3>1, InvFacts
    <2>3. QED
        BY <2>1, <2>2
<1>3. /\ on \in [Members -> BOOLEAN] /\ ~on[m]
      /\ onStage' = [on EXCEPT ![m] = TRUE] /\ n \in Nat \ {0}
    BY <1>1, InvFacts, StageAssumption
<1> HIDE DEF base, on
<1>4. stage' \in StageType /\ Tiles(stage')
    BY <1>1, <1>2, <1>3, StagedShape
<1>5. Staging'
    <2> DEFINE t    == Staged(base, m, n)
               on2  == [on EXCEPT ![m] = TRUE]
               idx2 == [index EXCEPT ![m] = Len(base.members) + 1]
               nr2  == [nreq EXCEPT ![m] = n]
    <2>1. /\ Linked(t, on2, idx2, nr2) /\ Trimmed(t)
          /\ Held(t, todo) /\ Waiting(t, on2, idx2, todo)
        <3>1. index \in [Members -> Nat] /\ nreq \in [Members -> Nat]
            BY InvFacts
        <3>2. QED
            BY <1>2, <1>3, <3>1, StagedKeeps
    <2>2. stage' = t /\ onStage' = on2 /\ index' = idx2 /\ nreq' = nr2 /\ todo' = todo
        BY <1>1, <1>3
    <2> HIDE DEF t, on2, idx2, nr2
    <2>3. QED
        BY <2>1, <2>2 DEF Staging
<1>6. Counted' /\ count' \in Nat
    <2>1. CASE onStage[m]
        <3>1. onStage' = onStage /\ count' = count
            BY <1>1, <2>1, InvFacts
        <3>2. QED
            BY <3>1, InvFacts DEF Counted
    <2>2. CASE ~onStage[m]
        <3>1. Cardinality({p \in Members : [onStage EXCEPT ![m] = TRUE][p]}) = count + 1
            BY <2>2, InvFacts, CountKeeps
        <3>2. count' = count + 1 /\ count' \in Nat
            BY <1>1, <2>2, InvFacts
        <3>3. QED
            BY <1>1, <3>1, <3>2 DEF Counted
    <2>3. QED
        BY <2>1, <2>2
<1>7. TypeOK'
    <2>1. Len(base.members) \in Nat
        BY <1>2 DEF StageType
    <2>2. QED
        BY <1>1, <1>3, <1>4, <1>6, <2>1 DEF Inv, TypeOK
<1>8. QED
    BY <1>4, <1>5, <1>6, <1>7 DEF Inv, BlocksTile

-----------------------------------------------------------------------------
(***************************************************************************)
(* Requests changing state.                                                *)
(***************************************************************************)
LEMMA ReqOwner ==
    ASSUME Inv, NEW m \in Members, onStage[m], NEW r \in Block(stage, index[m])
    PROVE  /\ r \in 1 .. Len(stage.req)
           /\ stage.reqToMember[r] = index[m]
           /\ stage.members[stage.reqToMember[r]] = m
<1> DEFINE i == index[m]
<1>1. i \in 1 .. Len(stage.members) /\ stage.members[i] = m /\ r \in Block(stage, i)
    BY InvFacts DEF Linked
<1> HIDE DEF i
<1>2. r \in 1 .. Len(stage.req) /\ stage.reqToMember[r] = i
    BY <1>1, InvFacts, BlockOwner
<1>3. QED
    BY <1>1, <1>2 DEF i

\* The owner of a pending request, and where its request lies.
LEMMA PendingOwner ==
    ASSUME Inv, NEW r \in 1 .. Len(stage.req), stage.req[r] # "null"
    PROVE  LET m == stage.members[stage.reqToMember[r]]
           IN  /\ m \in Members /\ onStage[m] /\ todo[m] # 0
               /\ r \in Block(stage, index[m])
<1> DEFINE i == stage.reqToMember[r]
           m == stage.members[i]
<1>1. m # NoMember /\ todo[m] # 0
    BY InvFacts DEF Held
<1>2. i \in 1 .. Len(stage.members) /\ r \in Block(stage, i)
    BY InvFacts DEF Tiles
<1>3. m \in Members
    <2>1. m \in Members \cup {NoMember}
        BY <1>2, InvFacts DEF StageType
    <2>2. QED
        BY <1>1, <2>1
<1>4. onStage[m] /\ index[m] = i
    BY <1>1, <1>2, InvFacts DEF Linked
<1>5. QED
    BY <1>1, <1>2, <1>3, <1>4

(***************************************************************************)
(* A step that gives the requests the states f and the Members the waits   *)
(* todo' keeps the invariant if it keeps the last two parts of it.         *)
(***************************************************************************)
LEMMA ReqStepKeeps ==
    ASSUME Inv, NEW f \in [1 .. Len(stage.req) -> RequestStates],
           stage' = [stage EXCEPT !.req = f],
           UNCHANGED <<count, onStage, index, nreq>>,
           todo' \in [Members -> Nat], completed' \in Seq(Nat),
           call' \in Calls, earned' \in [Members -> BOOLEAN],
           \A r \in 1 .. Len(stage.req) : f[r] # "null" =>
               /\ stage.members[stage.reqToMember[r]] # NoMember
               /\ todo'[stage.members[stage.reqToMember[r]]] # 0,
           \A m \in Members : todo'[m] # 0 =>
               /\ onStage[m]
               /\ \E r \in 1 .. Len(stage.req) :
                      r \in Block(stage, index[m]) /\ f[r] # "null"
    PROVE  Inv'
<1>1. /\ stage' \in StageType
      /\ Tiles(stage')
      /\ stage'.req = f
      /\ Len(stage'.req) = Len(stage.req)
      /\ stage'.members = stage.members
      /\ stage'.reqToMember = stage.reqToMember
      /\ \A i : Block(stage', i) = Block(stage, i)
      /\ Trimmed(stage')
      /\ Linked(stage', onStage, index, nreq)
    <2> DEFINE t == [stage EXCEPT !.req = f]
    <2>1. /\ t \in StageType
          /\ Tiles(t)
          /\ t.req = f
          /\ Len(t.req) = Len(stage.req)
          /\ t.members = stage.members
          /\ t.reqToMember = stage.reqToMember
          /\ \A i : Block(t, i) = Block(stage, i)
          /\ Trimmed(t)
          /\ Linked(t, onStage, index, nreq)
        BY InvFacts, ReqKeeps
    <2>2. stage' = t
        OBVIOUS
    <2> HIDE DEF t
    <2>3. QED
        BY <2>1, <2>2
<1>2. Held(stage', todo')
    BY <1>1 DEF Held
<1>3. Waiting(stage', onStage', index', todo')
    BY <1>1 DEF Waiting
<1>4. Staging' /\ Counted'
    BY <1>1, <1>2, <1>3, InvFacts DEF Staging, Counted
<1>5. TypeOK'
    BY <1>1 DEF Inv, TypeOK
<1>6. QED
    BY <1>1, <1>4, <1>5 DEF Inv, BlocksTile

LEMMA DeliverKeeps ==
    ASSUME Inv, NEW q \in 1 .. Len(stage.req), Deliver(q)
    PROVE  Inv'
<1> DEFINE f == [stage.req EXCEPT ![q] = "arrived"]
<1>1. /\ stage' = [stage EXCEPT !.req = f]
      /\ stage.req[q] = "active"
      /\ UNCHANGED <<count, completed, onStage, index, nreq, todo, call, earned>>
    BY DEF Deliver
<1>2. stage.req \in [1 .. Len(stage.req) -> RequestStates]
    BY InvFacts DEF StageType
<1>3. f \in [1 .. Len(stage.req) -> RequestStates]
    BY <1>2 DEF RequestStates
<1>4. \A r \in 1 .. Len(stage.req) : f[r] # "null" <=> stage.req[r] # "null"
    BY <1>1, <1>2
<1> HIDE DEF f
<1>5. \A r \in 1 .. Len(stage.req) : f[r] # "null" =>
          /\ stage.members[stage.reqToMember[r]] # NoMember
          /\ todo'[stage.members[stage.reqToMember[r]]] # 0
    BY <1>1, <1>4, InvFacts DEF Held
<1>6. \A m \in Members : todo'[m] # 0 =>
          /\ onStage[m]
          /\ \E r \in 1 .. Len(stage.req) :
                 r \in Block(stage, index[m]) /\ f[r] # "null"
    BY <1>1, <1>4, InvFacts DEF Waiting
<1>7. /\ todo' \in [Members -> Nat] /\ completed' \in Seq(Nat)
      /\ call' \in Calls /\ earned' \in [Members -> BOOLEAN]
    BY <1>1 DEF Inv, TypeOK
<1>8. QED
    BY <1>1, <1>3, <1>5, <1>6, <1>7, ReqStepKeeps

LEMMA BeginKeeps ==
    ASSUME Inv, NEW m \in Members, onStage[m], NEW n \in 1 .. MaxWaits,
           NEW R \in SUBSET Block(stage, index[m]), BeginOperation(m, n, R)
    PROVE  Inv'
<1> DEFINE f == [r \in DOMAIN stage.req |-> IF r \in R THEN "active" ELSE stage.req[r]]
<1>1. /\ stage' = [stage EXCEPT !.req = f]
      /\ todo' = [todo EXCEPT ![m] = n] /\ R # {}
      /\ UNCHANGED <<count, completed, onStage, index, nreq, call, earned>>
    BY DEF BeginOperation
<1>2. stage.req \in [1 .. Len(stage.req) -> RequestStates]
    BY InvFacts DEF StageType
<1>3. f \in [1 .. Len(stage.req) -> RequestStates]
    BY <1>2 DEF RequestStates
<1>4. \A r \in 1 .. Len(stage.req) : f[r] = IF r \in R THEN "active" ELSE stage.req[r]
    BY <1>2
<1>5. \A r \in R : /\ r \in 1 .. Len(stage.req)
                   /\ stage.members[stage.reqToMember[r]] = m
    BY ReqOwner
<1>6. n \in Nat \ {0} /\ m # NoMember /\ todo \in [Members -> Nat]
    BY StageAssumption, InvFacts
<1> HIDE DEF f
<1>7. ASSUME NEW r \in 1 .. Len(stage.req), f[r] # "null"
      PROVE  /\ stage.members[stage.reqToMember[r]] # NoMember
             /\ todo'[stage.members[stage.reqToMember[r]]] # 0
    <2>1. CASE r \in R
        BY <1>1, <1>5, <1>6, <2>1
    <2>2. CASE r \notin R
        <3>1. stage.req[r] # "null"
            BY <1>4, <1>7, <2>2
        <3>2. QED
            BY <1>1, <1>6, <3>1, InvFacts DEF Held
    <2>3. QED
        BY <2>1, <2>2
<1>8. ASSUME NEW p \in Members, todo'[p] # 0
      PROVE  /\ onStage[p]
             /\ \E r \in 1 .. Len(stage.req) :
                    r \in Block(stage, index[p]) /\ f[r] # "null"
    <2>1. CASE p = m
        BY <1>1, <1>4, <1>5, <2>1
    <2>2. CASE p # m
        <3>1. todo[p] # 0
            BY <1>1, <1>6, <1>8, <2>2
        <3>2. QED
            BY <1>4, <3>1, InvFacts DEF Waiting
    <2>3. QED
        BY <2>1, <2>2
<1>9. /\ todo' \in [Members -> Nat] /\ completed' \in Seq(Nat)
      /\ call' \in Calls /\ earned' \in [Members -> BOOLEAN]
    BY <1>1, <1>6 DEF Inv, TypeOK
<1>10. QED
    BY <1>1, <1>3, <1>7, <1>8, <1>9, ReqStepKeeps

(***************************************************************************)
(* What a wait that returns the requests S does, through the Members that  *)
(* own them: the others are not touched, a Member left with a request      *)
(* waits on, one that is free either posts its next wait or is done.       *)
(***************************************************************************)
LEMMA ProceedKeeps ==
    ASSUME Inv, NEW S \in SUBSET Arrived(stage),
           NEW A \in NextWaits(Owners(S), S), Proceed(Owners(S), S, A),
           completed' \in Seq(Nat), call' \in Calls, earned' \in [Members -> BOOLEAN]
    PROVE  Inv'
<1> DEFINE P == Owners(S)
           f == [r \in DOMAIN stage.req |->
                    IF r \in A THEN "active"
                    ELSE IF r \in S THEN "null" ELSE stage.req[r]]
<1>1. /\ stage' = [stage EXCEPT !.req = f]
      /\ todo' = [m \in Members |->
                      IF m \in P /\ Free(m, S) THEN todo[m] - 1 ELSE todo[m]]
      /\ UNCHANGED <<count, onStage, index, nreq>>
    BY DEF Proceed
<1>2. stage.req \in [1 .. Len(stage.req) -> RequestStates] /\ todo \in [Members -> Nat]
    BY InvFacts DEF StageType
<1>3. /\ f \in [1 .. Len(stage.req) -> RequestStates]
      /\ \A r \in 1 .. Len(stage.req) :
             f[r] = IF r \in A THEN "active"
                    ELSE IF r \in S THEN "null" ELSE stage.req[r]
    BY <1>2 DEF RequestStates
<1> HIDE DEF f
<1>4. \A r \in S : r \in 1 .. Len(stage.req) /\ stage.req[r] # "null"
    BY DEF Arrived
<1>5. ASSUME NEW r \in S
      PROVE  LET m == stage.members[stage.reqToMember[r]]
             IN  m \in P /\ m \in Members /\ onStage[m] /\ todo[m] # 0
    BY <1>4, PendingOwner DEF Owners
<1>6. \A m \in P : m \in Members /\ onStage[m] /\ todo[m] # 0
    BY <1>5 DEF Owners
<1>7. \A r \in A : \E m \in Moving(P, S) : r \in Block(stage, index[m])
    BY DEF NextWaits, Range
<1>8. \A m \in Moving(P, S) : /\ m \in P /\ Free(m, S) /\ todo[m] > 1
                              /\ A \cap Block(stage, index[m]) # {}
    BY DEF NextWaits, Moving
<1>9. ASSUME NEW r \in 1 .. Len(stage.req), f[r] # "null"
      PROVE  /\ stage.members[stage.reqToMember[r]] # NoMember
             /\ todo'[stage.members[stage.reqToMember[r]]] # 0
    <2>1. CASE r \in A
        <3>1. PICK m \in Moving(P, S) : r \in Block(stage, index[m])
            BY <1>7, <2>1
        <3>2. m \in P /\ Free(m, S) /\ todo[m] > 1 /\ m \in Members /\ onStage[m]
            BY <1>6, <1>8
        <3>3. stage.members[stage.reqToMember[r]] = m
            BY <3>1, <3>2, ReqOwner
        <3>4. m # NoMember
            BY <3>2, StageAssumption
        <3>5. todo'[m] = todo[m] - 1 /\ todo[m] \in Nat
            BY <1>1, <1>2, <3>2
        <3>6. QED
            BY <3>2, <3>3, <3>4, <3>5
    <2>2. CASE r \notin A
        <3> DEFINE m == stage.members[stage.reqToMember[r]]
        <3>1. r \notin S /\ stage.req[r] # "null"
            BY <1>3, <1>9, <2>2
        <3>2. m \in Members /\ onStage[m] /\ todo[m] # 0 /\ r \in Block(stage, index[m])
            BY <3>1, PendingOwner
        <3>3. m # NoMember
            BY <3>2, StageAssumption
        <3>4. ~Free(m, S)
            BY <3>1, <3>2 DEF Free, PendingOf, Pending
        <3>5. todo'[m] = todo[m]
            BY <1>1, <3>2, <3>4
        <3>6. QED
            BY <3>2, <3>3, <3>5
    <2>3. QED
        BY <2>1, <2>2
<1>10. ASSUME NEW m \in Members, todo'[m] # 0
       PROVE  /\ onStage[m]
              /\ \E r \in 1 .. Len(stage.req) :
                     r \in Block(stage, index[m]) /\ f[r] # "null"
    <2>1. CASE m \in P /\ Free(m, S)
        <3>1. todo'[m] = todo[m] - 1 /\ todo[m] \in Nat /\ todo[m] # 0 /\ onStage[m]
            BY <1>1, <1>2, <1>6, <2>1
        <3>2. m \in Moving(P, S)
            BY <1>10, <2>1, <3>1 DEF Moving
        <3>3. PICK r \in A : r \in Block(stage, index[m])
            BY <1>8, <3>2
        <3>4. r \in 1 .. Len(stage.req)
            BY <3>1, <3>3, ReqOwner
        <3>5. f[r] # "null"
            BY <1>3, <3>3, <3>4
        <3>6. QED
            BY <3>1, <3>3, <3>4, <3>5
    <2>2. CASE m \in P /\ ~Free(m, S)
        <3>1. onStage[m]
            BY <1>6, <2>2
        <3>2. PICK r \in PendingOf(stage, m) : r \notin S
            BY <2>2 DEF Free
        <3>3. /\ r \in 1 .. Len(stage.req) /\ stage.req[r] # "null"
              /\ r \in Block(stage, index[m])
            BY <3>1, <3>2 DEF PendingOf, Pending
        <3>4. f[r] # "null"
            BY <1>3, <3>2, <3>3
        <3>5. QED
            BY <3>1, <3>3, <3>4
    <2>3. CASE m \notin P
        <3>1. todo[m] # 0
            BY <1>1, <1>10, <2>3
        <3>2. onStage[m]
            BY <3>1, InvFacts DEF Waiting
        <3>3. PICK r \in 1 .. Len(stage.req) :
                  r \in Block(stage, index[m]) /\ stage.req[r] # "null"
            BY <3>1, InvFacts DEF Waiting
        <3>4. r \notin S
            BY <1>5, <2>3, <3>2, <3>3, ReqOwner
        <3>5. f[r] # "null"
            BY <1>3, <3>3, <3>4
        <3>6. QED
            BY <3>2, <3>3, <3>5
    <2>4. QED
        BY <2>1, <2>2, <2>3
<1>11. todo' \in [Members -> Nat]
    BY <1>1, <1>2, <1>6
<1> HIDE DEF P
<1>12. QED
    BY <1>1, <1>3, <1>9, <1>10, <1>11, ReqStepKeeps

LEMMA ProceedAloneKeeps ==
    ASSUME Inv, NEW m \in Members, ProceedAlone(m)
    PROVE  Inv'
<1> DEFINE S == PendingOf(stage, m)
<1>1. /\ S # {} /\ S \in SUBSET Arrived(stage)
      /\ \E A \in NextWaits({m}, S) : Proceed({m}, S, A)
      /\ UNCHANGED <<completed, call, earned>>
    BY DEF ProceedAlone
<1>2. onStage[m]
    BY <1>1 DEF PendingOf
<1>3. \A r \in S : stage.members[stage.reqToMember[r]] = m
    BY <1>2, ReqOwner DEF PendingOf
<1>4. Owners(S) = {m}
    BY <1>1, <1>3 DEF Owners
<1>5. completed' \in Seq(Nat) /\ call' \in Calls /\ earned' \in [Members -> BOOLEAN]
    BY <1>1 DEF Inv, TypeOK
<1> HIDE DEF S
<1>6. QED
    BY <1>1, <1>4, <1>5, ProceedKeeps

LEMMA EnqueueType ==
    ASSUME Inv, NEW done \in SUBSET Members, Enqueue(done)
    PROVE  completed' \in Seq(Nat) /\ earned' \in [Members -> BOOLEAN]
<1> DEFINE D == {m \in done : ~Queued(m)}
<1>1. PICK order \in SetToSeqs(D) :
          completed' = completed \o [i \in 1 .. Len(order) |-> index[order[i]]]
    BY DEF Enqueue
<1>2. IsFiniteSet(D) /\ Cardinality(D) \in Nat
    <2>1. D \in SUBSET Members
        OBVIOUS
    <2> HIDE DEF D
    <2>2. QED
        BY <2>1, StageAssumption, FS_Subset, FS_CardinalityType
<1>3. order \in [1 .. Cardinality(D) -> D]
    BY DEF SetToSeqs
<1>4. Len(order) \in Nat /\ \A i \in 1 .. Len(order) : order[i] \in Members
    <2> D \subseteq Members
        OBVIOUS
    <2> HIDE DEF D
    <2>1. QED
        BY <1>2, <1>3
<1>5. [i \in 1 .. Len(order) |-> index[order[i]]] \in Seq(Nat)
    BY <1>4, InvFacts
<1>6. completed \in Seq(Nat) /\ earned \in [Members -> BOOLEAN]
    BY DEF Inv, TypeOK
<1>7. completed' \in Seq(Nat)
    BY <1>1, <1>5, <1>6, ConcatProperties
<1>8. earned' \in [Members -> BOOLEAN]
    BY <1>6 DEF Enqueue
<1>9. QED
    BY <1>7, <1>8

LEMMA WaitsomeKeeps ==
    ASSUME Inv, NEW S \in SUBSET Arrived(stage), WaitsomeReturns(S)
    PROVE  Inv'
<1>1. /\ \E A \in NextWaits(Owners(S), S) : Proceed(Owners(S), S, A)
      /\ Enqueue(Ending(Owners(S), S))
      /\ call' = call \/ call' = "none"
    BY DEF WaitsomeReturns
<1>2. Owners(S) \subseteq Members
    BY PendingOwner DEF Owners, Arrived
<1>3. Ending(Owners(S), S) \in SUBSET Members
    BY <1>2 DEF Ending
<1>4. completed' \in Seq(Nat) /\ earned' \in [Members -> BOOLEAN]
    BY <1>1, <1>3, EnqueueType
<1>5. call' \in Calls
    BY <1>1 DEF Inv, TypeOK, Calls
<1>6. QED
    BY <1>1, <1>4, <1>5, ProceedKeeps

LEMMA WaitanyKeeps ==
    ASSUME Inv, NEW r \in Arrived(stage), WaitanyReturns(r)
    PROVE  Inv'
<1> DEFINE m == stage.members[stage.reqToMember[r]]
           done == Ending({m}, {r})
<1>1. /\ \E A \in NextWaits({m}, {r}) : Proceed({m}, {r}, A)
      /\ \/ UNCHANGED <<completed, earned, call>>
         \/ Enqueue(done) /\ call' = "none"
    BY DEF WaitanyReturns
<1>2. m \in Members /\ {r} \in SUBSET Arrived(stage) /\ Owners({r}) = {m}
    BY PendingOwner DEF Owners, Arrived
<1>3. done \in SUBSET Members
    BY <1>2 DEF Ending
<1>4. completed' \in Seq(Nat) /\ earned' \in [Members -> BOOLEAN] /\ call' \in Calls
    <2>1. CASE UNCHANGED <<completed, earned, call>>
        BY <2>1 DEF Inv, TypeOK
    <2>2. CASE Enqueue(done) /\ call' = "none"
        BY <1>3, <2>2, EnqueueType DEF Calls
    <2>3. QED
        BY <1>1, <2>1, <2>2
<1> HIDE DEF m, done
<1>5. QED
    BY <1>1, <1>2, <1>4, ProceedKeeps

-----------------------------------------------------------------------------
LEMMA NextInv == Inv /\ [Next]_vars => Inv'
<1> SUFFICES ASSUME Inv, [Next]_vars PROVE Inv'
    OBVIOUS
<1>1. ASSUME NEW m \in Members, NEW n \in 1 .. MaxReq, attachStage(m, n) PROVE Inv'
    BY <1>1, AttachKeeps
<1>2. ASSUME NEW m \in Members, detachStage(m) PROVE Inv'
    BY <1>2, LeaveKeeps DEF detachStage
<1>3. ASSUME NEW m \in Members, Destroy(m) PROVE Inv'
    <2>1. Leave(m, Unset) /\ Unset \in Nat
        BY <1>3 DEF Destroy, Unset
    <2>2. QED
        BY <2>1, LeaveKeeps
<1>4. ASSUME NEW m \in {p \in Members : onStage[p]}, NEW n \in 1 .. MaxWaits,
             NEW R \in SUBSET Block(stage, index[m]), BeginOperation(m, n, R)
      PROVE  Inv'
    BY <1>4, BeginKeeps
<1>5. ASSUME NEW m \in Members, ProceedAlone(m) PROVE Inv'
    BY <1>5, ProceedAloneKeeps
<1>6. ASSUME NEW m \in Members, pushToCompletionQueue(m) PROVE Inv'
    BY <1>6, PushType
<1>7. ASSUME NEW m \in Members, yankFromCompletionQueue(m) PROVE Inv'
    BY <1>7, YankType
<1>8. ASSUME clearCompletionQueue PROVE Inv'
    BY <1>8, ClearType
<1>9. ASSUME popCompletionQueue PROVE Inv'
    BY <1>9, PopType
<1>10. ASSUME NEW c \in Calls, Enter(c) PROVE Inv'
    BY <1>10, EnterType
<1>11. ASSUME NEW S \in SUBSET Arrived(stage), WaitsomeReturns(S) PROVE Inv'
    BY <1>11, WaitsomeKeeps
<1>12. ASSUME NEW r \in Arrived(stage), WaitanyReturns(r) PROVE Inv'
    BY <1>12, WaitanyKeeps
<1>13. ASSUME NothingPending PROVE Inv'
    BY <1>13, NothingPendingType
<1>14. ASSUME NEW r \in 1 .. Len(stage.req), Deliver(r) PROVE Inv'
    BY <1>14, DeliverKeeps
<1>15. ASSUME UNCHANGED vars PROVE Inv'
    BY <1>15 DEF vars, Inv, TypeOK, BlocksTile, Staging, Counted
<1>16. QED
    BY <1>1, <1>2, <1>3, <1>4, <1>5, <1>6, <1>7, <1>8, <1>9, <1>10, <1>11,
       <1>12, <1>13, <1>14, <1>15
    DEF Next, OwnerStep, WaitStep, NetworkStep

LEMMA InvImplies ==
    Inv => TypeOK /\ BlocksTile /\ MutualReferences /\ NoOrphanRequest /\ NoStrandedMember
<1> SUFFICES ASSUME Inv
             PROVE  MutualReferences /\ NoOrphanRequest /\ NoStrandedMember
    BY DEF Inv
<1>1. MutualReferences
    BY InvFacts DEF MutualReferences, Linked, Trimmed
<1>2. NoOrphanRequest
    BY InvFacts DEF NoOrphanRequest, Held, Pending, isDone
<1>3. NoStrandedMember
    BY InvFacts DEF NoStrandedMember, Waiting, isDone, hasPendingRequests, PendingOf, Pending
<1>4. QED
    BY <1>1, <1>2, <1>3

(***************************************************************************)
(* Every reachable state of the stage is well typed.                       *)
(***************************************************************************)
THEOREM StageTypeCorrect == Spec => []TypeOK
<1>1. Spec => []Inv
    BY InitInv, NextInv, PTL DEF Spec
<1>2. QED
    BY <1>1, InvImplies, PTL

(***************************************************************************)
(* However Members come and go, the request blocks tile the request array  *)
(* and Members and slots name each other (AsyncCommStage.C:93-188).        *)
(***************************************************************************)
THEOREM StageMapsCorrect == Spec => []MapsConsistent
<1>1. Spec => []Inv
    BY InitInv, NextInv, PTL DEF Spec
<1>2. Inv => MapsConsistent
    BY InvImplies DEF MapsConsistent
<1>3. QED
    BY <1>1, <1>2, PTL

(***************************************************************************)
(* Every pending request has a live owner in an operation, and every       *)
(* Member in an operation has a pending request: the waits of              *)
(* AsyncCommStage.C:350-591 neither meet a hole nor strand a Member.       *)
(***************************************************************************)
THEOREM StageRequestsCorrect == Spec => []RequestsOwned
<1>1. Spec => []Inv
    BY InitInv, NextInv, PTL DEF Spec
<1>2. Inv => RequestsOwned
    BY InvImplies DEF RequestsOwned
<1>3. QED
    BY <1>1, <1>2, PTL

-----------------------------------------------------------------------------
(***************************************************************************)
(* The completion queue, for owners that take a Member from it before it   *)
(* leaves the stage (YankBeforeDetach).                                    *)
(***************************************************************************)

(***************************************************************************)
(* The queue q has the numbers in D, once each.                            *)
(***************************************************************************)
Lists(q, D) ==
    /\ q \in Seq(Nat)
    /\ \A i, j \in 1 .. Len(q) : q[i] = q[j] => i = j
    /\ \A i \in 1 .. Len(q) : q[i] \in D
    /\ \A x \in D : \E i \in 1 .. Len(q) : q[i] = x

LEMMA AppendLists ==
    ASSUME NEW q, NEW D, Lists(q, D), NEW x \in Nat, x \notin D
    PROVE  Lists(Append(q, x), D \cup {x})
<1> DEFINE p == Append(q, x)
<1>1. q \in Seq(Nat) /\ Len(q) \in Nat
    BY DEF Lists
<1>2. /\ p \in Seq(Nat) /\ Len(p) = Len(q) + 1
      /\ \A i \in 1 .. Len(q) : p[i] = q[i]
      /\ p[Len(q) + 1] = x
    BY <1>1, AppendProperties
<1> HIDE DEF p
<1>3. ASSUME NEW i \in 1 .. Len(p), NEW j \in 1 .. Len(p), p[i] = p[j] PROVE i = j
  <2>1. ASSUME NEW k \in 1 .. Len(p)
        PROVE  \/ k = Len(q) + 1 /\ p[k] = x
               \/ k \in 1 .. Len(q) /\ p[k] = q[k] /\ q[k] # x
    <3>1. k = Len(q) + 1 \/ k \in 1 .. Len(q)
        BY <1>1, <1>2
    <3> QED
        BY <1>2, <3>1 DEF Lists
  <2>2. CASE i \in 1 .. Len(q) /\ j \in 1 .. Len(q)
    BY <1>2, <1>3, <2>2 DEF Lists
  <2> QED
    BY <1>3, <2>1, <2>2
<1>4. \A i \in 1 .. Len(p) : p[i] \in D \cup {x}
    BY <1>1, <1>2 DEF Lists
<1>5. ASSUME NEW y \in D \cup {x} PROVE \E i \in 1 .. Len(p) : p[i] = y
  <2>1. CASE y = x
    BY <1>1, <1>2, <2>1
  <2>2. CASE y \in D
    <3>1. PICK i \in 1 .. Len(q) : q[i] = y
        BY <2>2 DEF Lists
    <3>2. i \in 1 .. Len(p) /\ p[i] = y
        BY <1>1, <1>2, <3>1
    <3> QED
        BY <3>2
  <2> QED
    BY <2>1, <2>2
<1> QED
    BY <1>2, <1>3, <1>4, <1>5 DEF Lists, p

\* Two queues one behind the other.
LEMMA ConcatLists ==
    ASSUME NEW q, NEW D, Lists(q, D), NEW p, NEW E, Lists(p, E), D \cap E = {}
    PROVE  Lists(q \o p, D \cup E)
<1> DEFINE s == q \o p
<1>1. /\ q \in Seq(Nat) /\ Len(q) \in Nat
      /\ p \in Seq(Nat) /\ Len(p) \in Nat
    BY DEF Lists
<1>2. /\ s \in Seq(Nat) /\ Len(s) = Len(q) + Len(p)
      /\ \A i \in 1 .. Len(s) : s[i] = IF i <= Len(q) THEN q[i] ELSE p[i - Len(q)]
    BY <1>1, ConcatProperties
<1> HIDE DEF s
<1>3. ASSUME NEW i \in 1 .. Len(q)
      PROVE  i \in 1 .. Len(s) /\ s[i] = q[i] /\ s[i] \in D
  <2>1. i \in 1 .. Len(s) /\ i <= Len(q)
    BY <1>1, <1>2
  <2>2. s[i] = q[i]
    BY <1>2, <2>1
  <2> QED
    BY <2>1, <2>2 DEF Lists
<1>4. ASSUME NEW i \in 1 .. Len(p)
      PROVE  i + Len(q) \in 1 .. Len(s) /\ s[i + Len(q)] = p[i]
  <2>1. /\ i + Len(q) \in 1 .. Len(s) /\ ~(i + Len(q) <= Len(q))
        /\ (i + Len(q)) - Len(q) = i
    BY <1>1, <1>2
  <2> QED
    BY <1>2, <2>1
<1>5. ASSUME NEW i \in 1 .. Len(s), ~(i <= Len(q))
      PROVE  i - Len(q) \in 1 .. Len(p) /\ s[i] = p[i - Len(q)] /\ s[i] \in E
    BY <1>1, <1>2, <1>5 DEF Lists
<1>6. ASSUME NEW i \in 1 .. Len(s), NEW j \in 1 .. Len(s), s[i] = s[j] PROVE i = j
  <2>1. CASE i <= Len(q) /\ j <= Len(q)
    BY <1>1, <1>3, <1>6, <2>1 DEF Lists
  <2>2. CASE ~(i <= Len(q)) /\ ~(j <= Len(q))
    <3>1. i - Len(q) \in 1 .. Len(p) /\ j - Len(q) \in 1 .. Len(p)
          /\ p[i - Len(q)] = p[j - Len(q)]
        BY <1>5, <1>6, <2>2
    <3>2. i - Len(q) = j - Len(q)
        BY <3>1 DEF Lists
    <3> QED
        BY <1>1, <3>2
  <2>3. CASE i <= Len(q) /\ ~(j <= Len(q))
    <3>1. s[i] \in D /\ s[j] \in E
        BY <1>1, <1>3, <1>5, <2>3
    <3> QED
        BY <1>6, <3>1
  <2>4. CASE ~(i <= Len(q)) /\ j <= Len(q)
    <3>1. s[j] \in D /\ s[i] \in E
        BY <1>1, <1>3, <1>5, <2>4
    <3> QED
        BY <1>6, <3>1
  <2> QED
    BY <2>1, <2>2, <2>3, <2>4
<1>7. ASSUME NEW i \in 1 .. Len(s) PROVE s[i] \in D \cup E
    BY <1>1, <1>3, <1>5
<1>8. ASSUME NEW x \in D \cup E PROVE \E i \in 1 .. Len(s) : s[i] = x
  <2>1. CASE x \in D
    <3>1. PICK i \in 1 .. Len(q) : q[i] = x
        BY <2>1 DEF Lists
    <3> QED
        BY <1>3, <3>1
  <2>2. CASE x \in E
    <3>1. PICK i \in 1 .. Len(p) : p[i] = x
        BY <2>2 DEF Lists
    <3> QED
        BY <1>4, <3>1
  <2> QED
    BY <2>1, <2>2
<1> QED
    BY <1>2, <1>6, <1>7, <1>8 DEF Lists, s

\* A part of a queue lists what is in it.
LEMMA TailLists ==
    ASSUME NEW q, NEW D, Lists(q, D), q # <<>>
    PROVE  Lists(Tail(q), D \ {Head(q)})
<1> DEFINE p == Tail(q)
<1>1. q \in Seq(Nat) /\ Len(q) \in Nat \ {0}
    BY DEF Lists
<1>2. /\ p \in Seq(Nat) /\ Len(p) = Len(q) - 1 /\ Head(q) = q[1]
      /\ \A i \in 1 .. Len(p) : p[i] = q[i + 1]
    BY <1>1, HeadTailProperties
<1> HIDE DEF p
<1>3. ASSUME NEW i \in 1 .. Len(p)
      PROVE  i + 1 \in 1 .. Len(q) /\ p[i] = q[i + 1] /\ p[i] \in D \ {Head(q)}
  <2>1. /\ i + 1 \in 1 .. Len(q) /\ 1 \in 1 .. Len(q) /\ i + 1 # 1
    BY <1>1, <1>2
  <2>2. q[i + 1] \in D /\ q[i + 1] # q[1]
    BY <2>1 DEF Lists
  <2> QED
    BY <1>2, <2>1, <2>2
<1>4. ASSUME NEW i \in 1 .. Len(p), NEW j \in 1 .. Len(p), p[i] = p[j] PROVE i = j
  <2>1. i + 1 = j + 1
    BY <1>3, <1>4 DEF Lists
  <2> QED
    BY <2>1
<1>5. ASSUME NEW x \in D \ {Head(q)} PROVE \E i \in 1 .. Len(p) : p[i] = x
  <2>1. PICK i \in 1 .. Len(q) : q[i] = x
    BY DEF Lists
  <2>2. i - 1 \in 1 .. Len(p) /\ p[i - 1] = x
    BY <1>1, <1>2, <2>1
  <2> QED
    BY <2>2
<1> QED
    BY <1>2, <1>3, <1>4, <1>5 DEF Lists, p

LEMMA YankedLists ==
    ASSUME NEW q, NEW D, Lists(q, D), NEW x
    PROVE  Lists(Yanked(q, x), D \ {x})
<1>1. q \in Seq(Nat) /\ Len(q) \in Nat
    BY DEF Lists
<1>2. CASE ~Contains(q, x)
  <2>1. x \notin D /\ D \ {x} = D
    BY <1>2 DEF Contains, Lists
  <2> QED
    BY <1>2, <2>1 DEF Yanked
<1>3. CASE Contains(q, x)
  <2> DEFINE k == CHOOSE k \in 1 .. Len(q) : q[k] = x
             a == SubSeq(q, 1, k - 1)
             b == SubSeq(q, k + 1, Len(q))
             A == {q[i] : i \in 1 .. k - 1}
             B == {q[i] : i \in k + 1 .. Len(q)}
  <2>1. k \in 1 .. Len(q) /\ q[k] = x
    BY <1>3 DEF Contains
  <2>2. Yanked(q, x) = a \o b
    BY <1>3 DEF Yanked, RemoveAt
  <2> HIDE DEF k
  <2>3. \A i \in 1 .. Len(q) : q[i] \in Nat
    BY <1>1
  <2>4. \A i \in 1 .. k - 1 : i \in 1 .. Len(q)
    BY <1>1, <2>1
  <2>5. \A i \in k + 1 .. Len(q) : i \in 1 .. Len(q)
    BY <1>1, <2>1
  <2>6. /\ a \in Seq(Nat) /\ Len(a) = k - 1
        /\ \A i \in 1 .. k - 1 : a[i] = q[i]
    BY <1>1, <2>1, <2>3, <2>4, SubSeqProperties
  <2>7. /\ b \in Seq(Nat) /\ Len(b) = Len(q) - k
        /\ \A i \in 1 .. Len(q) - k : b[i] = q[i + k]
    BY <1>1, <2>1, <2>3, <2>5, SubSeqProperties
  <2> HIDE DEF a, b
  <2>8. Lists(a, A)
    <3>1. \A i, j \in 1 .. Len(a) : a[i] = a[j] => i = j
        BY <2>4, <2>6 DEF Lists
    <3> QED
        BY <2>6, <3>1 DEF Lists
  <2>9. Lists(b, B)
    <3>1. ASSUME NEW i \in 1 .. Len(b)
          PROVE  i + k \in k + 1 .. Len(q) /\ i + k \in 1 .. Len(q) /\ b[i] = q[i + k]
        BY <1>1, <2>1, <2>7
    <3>2. ASSUME NEW i \in 1 .. Len(b), NEW j \in 1 .. Len(b), b[i] = b[j] PROVE i = j
      <4>1. i + k = j + k
        BY <3>1, <3>2 DEF Lists
      <4> QED
        BY <2>1, <4>1
    <3>3. ASSUME NEW y \in B PROVE \E i \in 1 .. Len(b) : b[i] = y
      <4>1. PICK i \in k + 1 .. Len(q) : y = q[i]
        OBVIOUS
      <4>2. i - k \in 1 .. Len(b) /\ b[i - k] = q[i]
        BY <1>1, <2>1, <2>7
      <4> QED
        BY <4>1, <4>2
    <3> QED
        BY <2>7, <3>1, <3>2, <3>3 DEF Lists
  <2>10. A \cap B = {}
    BY <1>1, <2>1, <2>4, <2>5 DEF Lists
  <2>11. A \cup B = D \ {x}
    <3>1. ASSUME NEW y \in A \cup B PROVE y \in D \ {x}
        BY <1>1, <2>1, <2>4, <2>5 DEF Lists
    <3>2. ASSUME NEW y \in D \ {x} PROVE y \in A \cup B
      <4>1. PICK i \in 1 .. Len(q) : q[i] = y
        BY DEF Lists
      <4>2. i \in 1 .. k - 1 \/ i \in k + 1 .. Len(q)
        BY <1>1, <2>1, <4>1
      <4> QED
        BY <4>1, <4>2
    <3> QED
        BY <3>1, <3>2
  <2> HIDE DEF A, B
  <2>12. Lists(a \o b, A \cup B)
    BY <2>8, <2>9, <2>10, ConcatLists
  <2> QED
    BY <2>2, <2>11, <2>12
<1> QED
    BY <1>2, <1>3

-----------------------------------------------------------------------------
(* The invariant: the queue lists the indices of the Members that earned   *)
(* it, and those are on the stage and in no operation.                     *)

Indices == {index[m] : m \in {p \in Members : earned[p]}}

QueueInv ==
    /\ Lists(completed, Indices)
    /\ \A m \in Members : earned[m] => onStage[m] /\ todo[m] = 0

LEMMA QueuedIsEarned ==
    ASSUME Inv, QueueInv, NEW m \in Members, onStage[m]
    PROVE  /\ index[m] \in Indices <=> earned[m]
           /\ Queued(m) <=> earned[m]
<1>1. ASSUME NEW p \in Members, onStage[p], index[p] = index[m] PROVE p = m
    BY <1>1, InvFacts DEF Linked
<1>2. index[m] \in Indices <=> earned[m]
    BY <1>1 DEF QueueInv, Indices
<1>3. Queued(m) <=> index[m] \in Indices
    BY DEF Queued, Contains, QueueInv, Lists
<1> QED
    BY <1>2, <1>3

LEMMA QueueInvImplies == Inv /\ QueueInv => QueueExact
<1> SUFFICES ASSUME Inv, QueueInv PROVE QueueExact
    OBVIOUS
<1>1. ASSUME NEW i \in 1 .. Len(completed)
      PROVE  LET m == MemberAt(completed[i])
             IN  m # NoMember /\ isDone(m) /\ earned[m]
  <2>1. PICK m \in Members : earned[m] /\ completed[i] = index[m]
    BY DEF QueueInv, Lists, Indices
  <2>2. onStage[m] /\ todo[m] = 0
    BY <2>1 DEF QueueInv
  <2>3. MemberAt(completed[i]) = m
    BY <2>1, <2>2, InvFacts DEF MemberAt, Linked
  <2> QED
    BY <2>1, <2>2, <2>3, StageAssumption DEF isDone
<1>2. \A m \in Members : earned[m] => Queued(m)
    BY QueuedIsEarned DEF QueueInv
<1> QED
    BY <1>1, <1>2 DEF QueueExact, QueueInv, Lists

-----------------------------------------------------------------------------
(* The actions.                                                            *)

LEMMA QueueInit == Init => QueueInv
    BY DEF Init, QueueInv, Lists, Indices

\* A step that leaves the queue, and the Members in it, alone.
LEMMA QuietStep ==
    ASSUME Inv, QueueInv, UNCHANGED <<completed, earned>>,
           \A m \in Members : earned[m] =>
               index'[m] = index[m] /\ onStage'[m] = onStage[m] /\ todo'[m] = todo[m]
    PROVE  QueueInv'
<1>1. Indices' = Indices
    BY DEF Indices
<1> QED
    BY <1>1 DEF QueueInv

\* A Member that comes, moves or goes is not in the queue.
LEMMA MoveStep ==
    ASSUME Inv, QueueInv, NEW m \in Members, ~earned[m], completed' = completed,
           earned' = [earned EXCEPT ![m] = FALSE],
           NEW i, index' = [index EXCEPT ![m] = i],
           NEW on, onStage' = [onStage EXCEPT ![m] = on],
           todo' = todo
    PROVE  QueueInv'
<1>1. earned' = earned
    BY DEF Inv, TypeOK
<1>2. \A p \in Members \ {m} : index'[p] = index[p] /\ onStage'[p] = onStage[p]
    BY DEF Inv, TypeOK
<1> QED
    BY <1>1, <1>2, QuietStep

LEMMA AttachQueue ==
    ASSUME YankBeforeDetach, Inv, QueueInv, NEW m \in Members, NEW n, attachStage(m, n)
    PROVE  QueueInv'
<1>1. ~earned[m]
    BY QueuedIsEarned DEF attachStage, QueueInv
<1> QED
    BY <1>1, MoveStep DEF attachStage

LEMMA LeaveQueue ==
    ASSUME YankBeforeDetach, Inv, QueueInv, NEW m \in Members, NEW n, Leave(m, n)
    PROVE  QueueInv'
<1>1. ~earned[m]
    BY QueuedIsEarned DEF Leave
<1> QED
    BY <1>1, MoveStep DEF Leave

LEMMA BeginQueue ==
    ASSUME Inv, QueueInv, NEW m \in Members, onStage[m], NEW n, NEW R,
           BeginOperation(m, n, R)
    PROVE  QueueInv'
<1>1. ~earned[m]
    BY QueuedIsEarned DEF BeginOperation
<1>2. \A p \in Members \ {m} : todo'[p] = todo[p]
    BY DEF BeginOperation, Inv, TypeOK
<1> QED
    BY <1>1, <1>2, QuietStep DEF BeginOperation

LEMMA PushQueue ==
    ASSUME Inv, QueueInv, NEW m \in Members, pushToCompletionQueue(m)
    PROVE  QueueInv'
<1>1. /\ onStage[m] /\ todo[m] = 0
      /\ completed' = PushTo(completed, index[m])
      /\ earned' = [earned EXCEPT ![m] = TRUE]
      /\ UNCHANGED <<onStage, index, todo>>
    BY DEF pushToCompletionQueue, isDone
<1>2. earned \in [Members -> BOOLEAN] /\ index[m] \in Nat
    BY InvFacts DEF Inv, TypeOK
<1>3. \A p \in Members : earned'[p] = (earned[p] \/ p = m)
    BY <1>1, <1>2
<1>4. Indices' = Indices \cup {index[m]}
    BY <1>1, <1>3 DEF Indices
<1>5. Lists(completed', Indices')
  <2>1. CASE earned[m]
    <3>1. Contains(completed, index[m]) /\ index[m] \in Indices
        BY <1>1, <2>1, QueuedIsEarned DEF Queued
    <3>2. completed' = completed /\ Indices' = Indices
        BY <1>1, <1>4, <3>1 DEF PushTo
    <3> QED
        BY <3>2 DEF QueueInv
  <2>2. CASE ~earned[m]
    <3>1. ~Contains(completed, index[m]) /\ index[m] \notin Indices
        BY <1>1, <2>2, QueuedIsEarned DEF Queued
    <3>2. completed' = Append(completed, index[m])
        BY <1>1, <3>1 DEF PushTo
    <3> QED
        BY <1>2, <1>4, <3>1, <3>2, AppendLists DEF QueueInv
  <2> QED
    BY <2>1, <2>2
<1>6. ASSUME NEW p \in Members, earned'[p] PROVE onStage'[p] /\ todo'[p] = 0
    BY <1>1, <1>3, <1>6 DEF QueueInv
<1> QED
    BY <1>5, <1>6 DEF QueueInv

\* A Member is taken out of the queue.
LEMMA TakeOut ==
    ASSUME Inv, QueueInv, NEW m \in Members, onStage[m],
           earned' = [earned EXCEPT ![m] = FALSE],
           Lists(completed', Indices \ {index[m]}),
           UNCHANGED <<onStage, index, todo>>
    PROVE  QueueInv'
<1>1. earned \in [Members -> BOOLEAN]
    BY DEF Inv, TypeOK
<1>2. \A p \in Members : earned'[p] = (earned[p] /\ p # m)
    BY <1>1
<1>3. \A p \in Members : earned[p] /\ index[p] = index[m] => p = m
    BY InvFacts DEF QueueInv, Linked
<1>4. Indices' = Indices \ {index[m]}
    BY <1>2, <1>3 DEF Indices
<1> QED
    BY <1>2, <1>4 DEF QueueInv

LEMMA YankQueue ==
    ASSUME Inv, QueueInv, NEW m \in Members, yankFromCompletionQueue(m)
    PROVE  QueueInv'
<1>1. Lists(completed', Indices \ {index[m]})
    BY YankedLists DEF yankFromCompletionQueue, QueueInv
<1> QED
    BY <1>1, TakeOut DEF yankFromCompletionQueue

LEMMA PopQueue ==
    ASSUME Inv, QueueInv, popCompletionQueue
    PROVE  QueueInv'
<1>1. completed # <<>> /\ completed \in Seq(Nat)
    BY DEF popCompletionQueue, Inv, TypeOK
<1>2. 1 \in 1 .. Len(completed) /\ Head(completed) = completed[1]
    BY <1>1
<1>3. PICK m \in Members : earned[m] /\ completed[1] = index[m]
    BY <1>2 DEF QueueInv, Lists, Indices
<1>4. onStage[m]
    BY <1>3 DEF QueueInv
<1>5. MemberAt(Head(completed)) = m
    BY <1>2, <1>3, <1>4, InvFacts DEF MemberAt, Linked
<1>6. Lists(Tail(completed), Indices \ {index[m]})
    BY <1>1, <1>2, <1>3, TailLists DEF QueueInv
<1> QED
    BY <1>4, <1>5, <1>6, TakeOut DEF popCompletionQueue

LEMMA ClearQueue ==
    ASSUME Inv, QueueInv, clearCompletionQueue
    PROVE  QueueInv'
<1>1. Indices' = {} /\ completed' = <<>> /\ \A m \in Members : ~earned'[m]
    BY DEF clearCompletionQueue, Indices
<1> QED
    BY <1>1 DEF QueueInv, Lists

(***************************************************************************)
(* The waits.  Whoever proceeds is in an operation, so not in the queue;   *)
(* who finishes joins it.                                                  *)
(***************************************************************************)
LEMMA ProceedFacts ==
    ASSUME Inv, QueueInv, NEW P \in SUBSET Members, NEW S, NEW A, Proceed(P, S, A),
           \A m \in P : onStage[m] /\ todo[m] # 0
    PROVE  /\ UNCHANGED <<onStage, index>>
           /\ \A m \in Members : earned[m] => todo'[m] = todo[m] /\ m \notin P
           /\ \A m \in Ending(P, S) : m \in Members /\ onStage[m] /\ ~earned[m] /\ todo'[m] = 0
    BY DEF Proceed, QueueInv, Ending

LEMMA OwnersWork ==
    ASSUME Inv, NEW S \in SUBSET Arrived(stage)
    PROVE  \A m \in Owners(S) : m \in Members /\ onStage[m] /\ todo[m] # 0
    BY PendingOwner DEF Owners, Arrived

\* An enumeration of a set of Members on the stage gives the list of their indices.
LEMMA OrderLists ==
    ASSUME Inv, NEW D \in SUBSET Members, \A m \in D : onStage[m],
           NEW order \in SetToSeqs(D)
    PROVE  Lists([i \in 1 .. Len(order) |-> index[order[i]]], {index[m] : m \in D})
<1> DEFINE n == Cardinality(D)
           q == [i \in 1 .. Len(order) |-> index[order[i]]]
<1>1. IsFiniteSet(D) /\ n \in Nat
    BY StageAssumption, FS_Subset, FS_CardinalityType
<1>2. order \in [1 .. n -> D] /\ \A i, j \in 1 .. n : i # j => order[i] # order[j]
    BY DEF SetToSeqs
<1>3. Len(order) = n
    BY <1>1, <1>2
<1>4. \A m \in D : \E i \in 1 .. n : order[i] = m
  <2>1. order \in Injection(1 .. n, D)
    BY <1>2 DEF Injection, IsInjective
  <2>2. Cardinality(1 .. n) = n
    BY <1>1, FS_Interval
  <2>3. order \in Surjection(1 .. n, D)
    BY <1>1, <2>1, <2>2, FS_Injection
  <2> QED
    BY <2>3 DEF Surjection
<1> HIDE DEF n
<1>5. index \in [Members -> Nat]
    BY InvFacts
<1>6. /\ q \in Seq(Nat) /\ Len(q) = n
      /\ \A i \in 1 .. n : q[i] = index[order[i]]
    BY <1>1, <1>2, <1>3, <1>5
<1>7. \A m, p \in D : index[m] = index[p] => m = p
    BY InvFacts DEF Linked
<1> HIDE DEF q
<1>8. \A i, j \in 1 .. n : q[i] = q[j] => i = j
    BY <1>2, <1>6, <1>7
<1>9. \A i \in 1 .. n : q[i] \in {index[m] : m \in D}
    BY <1>2, <1>6
<1>10. \A x \in {index[m] : m \in D} : \E i \in 1 .. n : q[i] = x
    BY <1>4, <1>6
<1> QED
    BY <1>6, <1>8, <1>9, <1>10 DEF Lists, q

LEMMA EnqueueQueue ==
    ASSUME Inv, QueueInv, NEW done \in SUBSET Members,
           \A m \in done : onStage[m] /\ ~earned[m] /\ todo'[m] = 0,
           \A m \in Members : earned[m] => todo'[m] = todo[m],
           UNCHANGED <<onStage, index>>, Enqueue(done)
    PROVE  QueueInv'
<1> DEFINE new == {index[m] : m \in done}
<1>1. {m \in done : ~Queued(m)} = done
    BY QueuedIsEarned
<1>2. PICK order \in SetToSeqs(done) :
          completed' = completed \o [i \in 1 .. Len(order) |-> index[order[i]]]
    BY <1>1 DEF Enqueue
<1>3. earned' = [m \in Members |-> earned[m] \/ m \in done]
    BY DEF Enqueue
<1>4. Indices \cap new = {}
    BY QueuedIsEarned
<1>5. Indices' = Indices \cup new
    BY <1>3 DEF Indices
<1>6. Lists([i \in 1 .. Len(order) |-> index[order[i]]], new)
    BY OrderLists
<1> HIDE DEF new
<1>7. Lists(completed', Indices')
    BY <1>2, <1>4, <1>5, <1>6, ConcatLists DEF QueueInv
<1>8. ASSUME NEW m \in Members, earned'[m] PROVE onStage'[m] /\ todo'[m] = 0
    BY <1>3, <1>8 DEF QueueInv
<1> QED
    BY <1>7, <1>8 DEF QueueInv

LEMMA ProceedAloneQueue ==
    ASSUME Inv, QueueInv, NEW m \in Members, ProceedAlone(m)
    PROVE  QueueInv'
<1> DEFINE S == PendingOf(stage, m)
<1>1. PICK A : Proceed({m}, S, A)
    BY DEF ProceedAlone
<1>2. S # {} /\ UNCHANGED <<completed, earned>>
    BY DEF ProceedAlone
<1>3. onStage[m]
    BY <1>2 DEF PendingOf
<1>4. todo[m] # 0
  <2>1. PICK r \in Pending(stage) : r \in Block(stage, index[m])
    BY <1>2, <1>3 DEF PendingOf
  <2>2. r \in 1 .. Len(stage.req) /\ stage.req[r] # "null"
    BY <2>1 DEF Pending
  <2>3. stage.members[stage.reqToMember[r]] = m
    BY <1>3, <2>1, ReqOwner
  <2> QED
    BY <2>2, <2>3, PendingOwner
<1> HIDE DEF S
<1>5. /\ UNCHANGED <<onStage, index>>
      /\ \A p \in Members : earned[p] => todo'[p] = todo[p]
    BY <1>1, <1>3, <1>4, ProceedFacts
<1> QED
    BY <1>2, <1>5, QuietStep

LEMMA WaitsomeQueue ==
    ASSUME Inv, QueueInv, NEW S \in SUBSET Arrived(stage), WaitsomeReturns(S)
    PROVE  QueueInv'
<1> DEFINE P == Owners(S)
<1>1. PICK A : Proceed(P, S, A)
    BY DEF WaitsomeReturns
<1>2. Enqueue(Ending(P, S))
    BY DEF WaitsomeReturns
<1>3. P \in SUBSET Members /\ \A m \in P : onStage[m] /\ todo[m] # 0
    BY OwnersWork
<1> HIDE DEF P
<1>4. /\ UNCHANGED <<onStage, index>>
      /\ \A m \in Members : earned[m] => todo'[m] = todo[m]
      /\ \A m \in Ending(P, S) : m \in Members /\ onStage[m] /\ ~earned[m] /\ todo'[m] = 0
    BY <1>1, <1>3, ProceedFacts
<1> QED
    BY <1>2, <1>4, EnqueueQueue

LEMMA WaitanyQueue ==
    ASSUME Inv, QueueInv, NEW r \in Arrived(stage), WaitanyReturns(r)
    PROVE  QueueInv'
<1> DEFINE m    == stage.members[stage.reqToMember[r]]
           done == Ending({m}, {r})
<1>1. PICK A : Proceed({m}, {r}, A)
    BY DEF WaitanyReturns
<1>2. UNCHANGED <<completed, earned>> \/ Enqueue(done)
    BY DEF WaitanyReturns
<1>3. m \in Members /\ onStage[m] /\ todo[m] # 0
    BY PendingOwner DEF Arrived
<1> HIDE DEF m
<1>4. /\ UNCHANGED <<onStage, index>>
      /\ \A p \in Members : earned[p] => todo'[p] = todo[p]
      /\ \A p \in done : p \in Members /\ onStage[p] /\ ~earned[p] /\ todo'[p] = 0
    BY <1>1, <1>3, ProceedFacts
<1>5. CASE UNCHANGED <<completed, earned>>
    BY <1>4, <1>5, QuietStep
<1>6. CASE Enqueue(done)
  <2> HIDE DEF done
  <2> QED
    BY <1>4, <1>6, EnqueueQueue
<1> QED
    BY <1>2, <1>5, <1>6

LEMMA NextQueue == YankBeforeDetach /\ Inv /\ QueueInv /\ [Next]_vars => QueueInv'
<1> SUFFICES ASSUME YankBeforeDetach, Inv, QueueInv, [Next]_vars PROVE QueueInv'
    OBVIOUS
<1>1. ASSUME NEW m \in Members, NEW n \in 1 .. MaxReq, attachStage(m, n) PROVE QueueInv'
    BY <1>1, AttachQueue
<1>2. ASSUME NEW m \in Members, detachStage(m) \/ Destroy(m) PROVE QueueInv'
    BY <1>2, LeaveQueue DEF detachStage, Destroy
<1>3. ASSUME NEW m \in {p \in Members : onStage[p]}, NEW n \in 1 .. MaxWaits,
             NEW R \in SUBSET Block(stage, index[m]), BeginOperation(m, n, R)
      PROVE  QueueInv'
    BY <1>3, BeginQueue
<1>4. ASSUME NEW m \in Members, ProceedAlone(m) PROVE QueueInv'
    BY <1>4, ProceedAloneQueue
<1>5. ASSUME NEW m \in Members, pushToCompletionQueue(m) PROVE QueueInv'
    BY <1>5, PushQueue
<1>6. ASSUME NEW m \in Members, yankFromCompletionQueue(m) PROVE QueueInv'
    BY <1>6, YankQueue
<1>7. CASE clearCompletionQueue
    BY <1>7, ClearQueue
<1>8. CASE popCompletionQueue
    BY <1>8, PopQueue
<1>9. ASSUME NEW c \in Calls, Enter(c) PROVE QueueInv'
    BY <1>9, QuietStep DEF Enter
<1>10. ASSUME NEW S \in SUBSET Arrived(stage), WaitsomeReturns(S) PROVE QueueInv'
    BY <1>10, WaitsomeQueue
<1>11. ASSUME NEW r \in Arrived(stage), WaitanyReturns(r) PROVE QueueInv'
    BY <1>11, WaitanyQueue
<1>12. CASE NothingPending
    BY <1>12, QuietStep DEF NothingPending
<1>13. ASSUME NEW r \in 1 .. Len(stage.req), Deliver(r) PROVE QueueInv'
    BY <1>13, QuietStep DEF Deliver
<1>14. CASE UNCHANGED vars
    BY <1>14, QuietStep DEF vars
<1> QED
    BY <1>1, <1>2, <1>3, <1>4, <1>5, <1>6, <1>7, <1>8, <1>9, <1>10, <1>11,
       <1>12, <1>13, <1>14
    DEF Next, OwnerStep, WaitStep, NetworkStep

(***************************************************************************)
(* With owners that take a Member from the queue before it leaves the      *)
(* stage, the queue names each finished Member exactly once and nobody     *)
(* else, however slots are emptied, trimmed and used again                 *)
(* (AsyncCommStage.C:93-188, 350-591, 690-780).                            *)
(***************************************************************************)
THEOREM StageQueueCorrect ==
    ASSUME YankBeforeDetach
    PROVE  Spec => []QueueExact
<1>1. Init => Inv /\ QueueInv
    BY InitInv, QueueInit
<1>2. Inv /\ QueueInv /\ [Next]_vars => (Inv /\ QueueInv)'
    BY NextInv, NextQueue
<1>3. Inv /\ QueueInv => QueueExact
    BY QueueInvImplies
<1> QED
    BY <1>1, <1>2, <1>3, PTL DEF Spec

=============================================================================
