----------------------------- MODULE PeerStreams -----------------------------
(***************************************************************************)
(* What is so of AsyncCommPeer objects that are used in pairs, whoever     *)
(* owns them: of their records, of the channels between them, and of each  *)
(* of their methods.                                                       *)
(*                                                                         *)
(* The ends of a pair need not keep step: a send may complete before its   *)
(* receive is begun, so that the channels hold chunks of several           *)
(* operations.  What is in them is told by a script of operations and two  *)
(* positions in it: the operations the sender has begun, and those whose   *)
(* chunk the receiver has taken.                                           *)
(***************************************************************************)
EXTENDS AsyncCommPeer, FiniteSetTheorems, SequenceTheorems, TLAPS


-----------------------------------------------------------------------------
(* Positions in a script.                                                  *)

\* Operation k of the script has end p send a chunk c.
Uses(scr, p, c, k) ==
    /\ scr[k].from = p
    /\ c = 0 \/ scr[k].size > scr[k].limits[1]

\* The chunks c that p sends in the first k operations.
Count(scr, p, c, k) == Cardinality({j \in 1 .. k : Uses(scr, p, c, j)})

\* The data of operation k, and chunk c of it.
Msg(scr, k) == Data(Count(scr, scr[k].from, 0, k), scr[k].size)

Part(scr, c, k) == ChunksOf(Msg(scr, k), scr[k].limits[1])[c + 1]

LEMMA CountType ==
    ASSUME NEW scr, NEW p, NEW c, NEW k \in Nat
    PROVE  /\ IsFiniteSet({j \in 1 .. k : Uses(scr, p, c, j)})
           /\ Count(scr, p, c, k) \in Nat
           /\ Count(scr, p, c, k) <= k
<1>1. IsFiniteSet(1 .. k) /\ Cardinality(1 .. k) = k
  BY FS_Interval
<1> DEFINE S == {j \in 1 .. k : Uses(scr, p, c, j)}
<1>2. S \in SUBSET (1 .. k)
  OBVIOUS
<1> HIDE DEF S
<1>3. IsFiniteSet(S) /\ Cardinality(S) <= k
  BY <1>1, <1>2, FS_Subset
<1>4. Cardinality(S) \in Nat
  BY <1>3, FS_CardinalityType
<1> QED
  BY <1>1, <1>3, <1>4 DEF S, Count

LEMMA CountZero ==
    ASSUME NEW scr, NEW p, NEW c
    PROVE  Count(scr, p, c, 0) = 0
<1>1. Count(scr, p, c, 0) \in Nat /\ Count(scr, p, c, 0) <= 0
  BY CountType
<1> QED
  BY <1>1

LEMMA CountNext ==
    ASSUME NEW scr, NEW p, NEW c, NEW k \in Nat
    PROVE  Count(scr, p, c, k + 1) =
              Count(scr, p, c, k) + (IF Uses(scr, p, c, k + 1) THEN 1 ELSE 0)
<1> DEFINE S == {j \in 1 .. k : Uses(scr, p, c, j)}
           T == {j \in 1 .. (k + 1) : Uses(scr, p, c, j)}
<1>1. IsFiniteSet(S) /\ k + 1 \notin S /\ Cardinality(S) \in Nat
  <2>1. IsFiniteSet(S) /\ Cardinality(S) \in Nat
    BY CountType, Zenon DEF Count
  <2> QED
    BY <2>1
<1>2. CASE Uses(scr, p, c, k + 1)
  <2>1. T = S \cup {k + 1}
    BY <1>2
  <2> HIDE DEF S, T
  <2>2. Cardinality(T) = Cardinality(S) + 1
    BY <1>1, <2>1, FS_AddElement
  <2> QED
    BY <1>2, <2>2 DEF Count, S, T
<1>3. CASE ~Uses(scr, p, c, k + 1)
  <2>1. T = S
    BY <1>3
  <2> QED
    BY <1>1, <1>3, <2>1 DEF Count
<1> QED
  BY <1>2, <1>3

LEMMA CountGrows ==
    ASSUME NEW scr, NEW p, NEW c, NEW j \in Nat, NEW k \in Nat, j <= k
    PROVE  /\ Count(scr, p, c, j) <= Count(scr, p, c, k)
           /\ j < k /\ Uses(scr, p, c, k) =>
                 Count(scr, p, c, j) < Count(scr, p, c, k)
<1>1. ASSUME NEW n \in Nat, j <= n
      PROVE  Count(scr, p, c, j) <= Count(scr, p, c, n)
  <2> DEFINE S == {i \in 1 .. j : Uses(scr, p, c, i)}
             T == {i \in 1 .. n : Uses(scr, p, c, i)}
  <2>1. S \in SUBSET T
    BY <1>1
  <2>2. IsFiniteSet(T)
    BY CountType
  <2> HIDE DEF S, T
  <2>3. Cardinality(S) <= Cardinality(T)
    BY <2>1, <2>2, FS_Subset
  <2> QED
    BY <2>3 DEF Count, S, T
<1>2. ASSUME j < k, Uses(scr, p, c, k)
      PROVE  Count(scr, p, c, j) < Count(scr, p, c, k)
  <2>1. k - 1 \in Nat /\ j <= k - 1 /\ (k - 1) + 1 = k
    BY <1>2
  <2>2. Count(scr, p, c, j) <= Count(scr, p, c, k - 1)
    BY <2>1, <1>1
  <2>3. Count(scr, p, c, k) = Count(scr, p, c, k - 1) + 1
    BY <2>1, <1>2, CountNext
  <2>4. Count(scr, p, c, j) \in Nat /\ Count(scr, p, c, k - 1) \in Nat
    BY <2>1, CountType
  <2> QED
    BY <2>2, <2>3, <2>4
<1> QED
  BY <1>1, <1>2

-----------------------------------------------------------------------------
(***************************************************************************)
(* A channel q for chunks c of p holds those of the operations that p has  *)
(* begun, r of them, and its peer has not taken, t of them, in order.      *)
(***************************************************************************)
StreamOK(q, p, c, r, t, scr) ==
    /\ Len(q) = Count(scr, p, c, r) - Count(scr, p, c, t)
    /\ \A k \in 1 .. t : Uses(scr, p, c, k) => k <= r
    /\ \A k \in (t + 1) .. r : Uses(scr, p, c, k) =>
          q[Count(scr, p, c, k) - Count(scr, p, c, t)] = Part(scr, c, k)

\* The peer passes an operation in which p sends no chunk c.
LEMMA StreamSkips ==
    ASSUME NEW q, NEW p, NEW c, NEW r \in Nat, NEW t \in Nat, NEW scr,
           StreamOK(q, p, c, r, t, scr), ~Uses(scr, p, c, t + 1)
    PROVE  StreamOK(q, p, c, r, t + 1, scr)
<1>1. Count(scr, p, c, t + 1) = Count(scr, p, c, t)
  <2>1. Count(scr, p, c, t) \in Nat
    BY CountType
  <2> QED
    BY <2>1, CountNext
<1>2. ASSUME NEW k \in 1 .. (t + 1), Uses(scr, p, c, k) PROVE k <= r
  <2>1. k # t + 1
    BY <1>2
  <2>2. k \in 1 .. t
    BY <2>1
  <2> QED
    BY <1>2, <2>2 DEF StreamOK
<1>3. ASSUME NEW k \in (t + 2) .. r, Uses(scr, p, c, k)
      PROVE  q[Count(scr, p, c, k) - Count(scr, p, c, t + 1)] = Part(scr, c, k)
  <2>1. k \in (t + 1) .. r
    OBVIOUS
  <2> QED
    BY <1>1, <1>3, <2>1 DEF StreamOK
<1>4. (t + 1) + 1 = t + 2
  OBVIOUS
<1> QED
  BY <1>1, <1>2, <1>3, <1>4 DEF StreamOK

\* The peer takes the chunk of the next operation: it is there, at the head.
LEMMA StreamGives ==
    ASSUME NEW M, NEW q \in Seq(M), NEW p, NEW c, NEW r \in Nat,
           NEW t \in Nat, NEW scr,
           StreamOK(q, p, c, r, t, scr), Uses(scr, p, c, t + 1), q # <<>>
    PROVE  /\ t + 1 <= r
           /\ Head(q) = Part(scr, c, t + 1)
           /\ StreamOK(Tail(q), p, c, r, t + 1, scr)
<1> DEFINE C(k) == Count(scr, p, c, k)
<1>1. C(t) \in Nat /\ C(r) \in Nat /\ C(t + 1) = C(t) + 1
  BY CountType, CountNext
<1>2. Len(q) \in Nat \ {0} /\ Len(q) = C(r) - C(t)
  BY DEF StreamOK
<1>3. t + 1 <= r
  <2>1. SUFFICES ASSUME r <= t PROVE FALSE
    OBVIOUS
  <2>2. C(r) <= C(t)
    BY <2>1, CountGrows
  <2> QED
    BY <2>2, <1>1, <1>2
<1>4. Head(q) = Part(scr, c, t + 1)
  <2>1. t + 1 \in (t + 1) .. r
    BY <1>3
  <2>2. q[C(t + 1) - C(t)] = Part(scr, c, t + 1)
    BY <2>1 DEF StreamOK
  <2>3. C(t + 1) - C(t) = 1
    BY <1>1
  <2>4. Head(q) = q[1]
    BY <1>2
  <2> QED
    BY <2>2, <2>3, <2>4
<1>5. Len(Tail(q)) = C(r) - C(t + 1)
  <2>1. Len(Tail(q)) = Len(q) - 1
    BY <1>2
  <2> QED
    BY <2>1, <1>1, <1>2
<1>6. ASSUME NEW k \in 1 .. (t + 1), Uses(scr, p, c, k) PROVE k <= r
  BY <1>3
<1>7. ASSUME NEW k \in ((t + 1) + 1) .. r, Uses(scr, p, c, k)
      PROVE  Tail(q)[C(k) - C(t + 1)] = Part(scr, c, k)
  <2>1. k \in (t + 1) .. r /\ t + 1 < k /\ t + 1 <= k /\ k <= r /\ k \in Nat
    OBVIOUS
  <2>2. q[C(k) - C(t)] = Part(scr, c, k)
    BY <2>1, <1>7 DEF StreamOK
  <2>3. C(t + 1) < C(k) /\ C(k) <= C(r) /\ C(k) \in Nat
    <3>1. t + 1 \in Nat
      OBVIOUS
    <3>2. C(t + 1) < C(k)
      BY <3>1, <2>1, <1>7, CountGrows
    <3> QED
      BY <3>2, <2>1, CountGrows, CountType
  <2> HIDE DEF C
  <2>4. C(k) - C(t + 1) \in 1 .. (Len(q) - 1)
    BY <2>3, <1>1, <1>2
  <2>5. Tail(q)[C(k) - C(t + 1)] = q[(C(k) - C(t + 1)) + 1]
    BY <2>4, <1>2
  <2>6. (C(k) - C(t + 1)) + 1 = C(k) - C(t)
    BY <2>3, <1>1
  <2> QED
    BY <2>2, <2>5, <2>6
<1> QED
  BY <1>3, <1>4, <1>5, <1>6, <1>7 DEF StreamOK

\* p begins an operation in which it sends no chunk c.
LEMMA StreamWaits ==
    ASSUME NEW q, NEW p, NEW c, NEW r \in Nat, NEW t \in Nat, NEW scr,
           StreamOK(q, p, c, r, t, scr), ~Uses(scr, p, c, r + 1)
    PROVE  StreamOK(q, p, c, r + 1, t, scr)
<1>1. Count(scr, p, c, r + 1) = Count(scr, p, c, r)
  <2>1. Count(scr, p, c, r) \in Nat
    BY CountType
  <2> QED
    BY <2>1, CountNext
<1>2. ASSUME NEW k \in 1 .. t, Uses(scr, p, c, k) PROVE k <= r + 1
  <2>1. k <= r
    BY <1>2 DEF StreamOK
  <2> QED
    BY <2>1
<1>3. ASSUME NEW k \in (t + 1) .. (r + 1), Uses(scr, p, c, k)
      PROVE  q[Count(scr, p, c, k) - Count(scr, p, c, t)] = Part(scr, c, k)
  <2>1. k # r + 1
    BY <1>3
  <2>2. k \in (t + 1) .. r
    BY <2>1
  <2> QED
    BY <1>3, <2>2 DEF StreamOK
<1> QED
  BY <1>1, <1>2, <1>3 DEF StreamOK

\* p begins an operation in which it does.
LEMMA StreamGrows ==
    ASSUME NEW M, NEW q \in Seq(M), NEW p, NEW c, NEW r \in Nat,
           NEW t \in Nat, NEW scr, Part(scr, c, r + 1) \in M,
           StreamOK(q, p, c, r, t, scr), Uses(scr, p, c, r + 1)
    PROVE  StreamOK(Append(q, Part(scr, c, r + 1)), p, c, r + 1, t, scr)
<1> DEFINE C(k) == Count(scr, p, c, k)
           b == Part(scr, c, r + 1)
<1>1. C(t) \in Nat /\ C(r) \in Nat /\ C(r + 1) = C(r) + 1
  BY CountType, CountNext
<1>2. Len(q) = C(r) - C(t) /\ Len(q) \in Nat
  BY DEF StreamOK
<1>3. /\ Len(Append(q, b)) = Len(q) + 1
      /\ \A i \in 1 .. Len(q) : Append(q, b)[i] = q[i]
      /\ Append(q, b)[Len(q) + 1] = b
  BY AppendProperties
<1>4. ASSUME NEW k \in 1 .. t, Uses(scr, p, c, k) PROVE k <= r + 1
  <2>1. k <= r
    BY <1>4 DEF StreamOK
  <2> QED
    BY <2>1
<1>5. ASSUME NEW k \in (t + 1) .. (r + 1), Uses(scr, p, c, k)
      PROVE  Append(q, b)[C(k) - C(t)] = Part(scr, c, k)
  <2>1. CASE k = r + 1
    <3>1. C(k) - C(t) = Len(q) + 1
      BY <2>1, <1>1, <1>2
    <3> QED
      BY <2>1, <3>1, <1>3
  <2>2. CASE k # r + 1
    <3>1. k \in (t + 1) .. r /\ t < k /\ t <= k /\ k <= r /\ k \in Nat
      BY <2>2
    <3>2. q[C(k) - C(t)] = Part(scr, c, k)
      BY <3>1, <1>5 DEF StreamOK
    <3>3. C(t) < C(k) /\ C(k) <= C(r) /\ C(k) \in Nat
      BY <3>1, <1>5, CountGrows, CountType
    <3> HIDE DEF C, b
    <3>4. C(k) - C(t) \in 1 .. Len(q)
      BY <3>3, <1>1, <1>2
    <3> QED
      BY <3>2, <3>4, <1>3
  <2> QED
    BY <2>1, <2>2
<1>6. Len(Append(q, b)) = C(r + 1) - C(t)
  BY <1>1, <1>2, <1>3
<1> QED
  BY <1>4, <1>5, <1>6 DEF StreamOK


-----------------------------------------------------------------------------
(* Messages and their chunks.                                              *)

LEMMA DataType ==
    ASSUME NEW k \in Nat, NEW n \in Nat
    PROVE  Data(k, n) \in Payload /\ Len(Data(k, n)) = n
BY DEF Data, Payload

\* All items of a message, read from the buffer that holds them.
LEMMA ItemsAll ==
    ASSUME NEW d \in Payload, NEW n \in Nat, n = Len(d)
    PROVE  Items(d, n) = d
<1>1. d \in Seq(Nat \X Nat)
  BY DEF Payload
<1>2. Items(d, n) = [i \in 1 .. n |-> d[i]]
  BY DEF Items
<1> QED
  BY <1>1, <1>2

\* A sequence is what is before a place in it and what follows.
LEMMA SplitAt ==
    ASSUME NEW S, NEW d \in Seq(S), NEW n \in Nat, n <= Len(d)
    PROVE  /\ SubSeq(d, 1, n) \in Seq(S) /\ Len(SubSeq(d, 1, n)) = n
           /\ SubSeq(d, n + 1, Len(d)) \in Seq(S)
           /\ Len(SubSeq(d, n + 1, Len(d))) = Len(d) - n
           /\ SubSeq(d, 1, n) \o SubSeq(d, n + 1, Len(d)) = d
<1> DEFINE u == SubSeq(d, 1, n)
           v == SubSeq(d, n + 1, Len(d))
           l == Len(d)
<1>1. l \in Nat /\ n <= l /\ \A i \in 1 .. l : d[i] \in S
  BY LenProperties
<1>2. u \in Seq(S) /\ Len(u) = n /\ \A i \in 1 .. n : u[i] = d[i]
  BY <1>1
<1>3. v \in Seq(S) /\ Len(v) = l - n /\ \A i \in 1 .. (l - n) : v[i] = d[n + i]
  BY <1>1
<1> HIDE DEF u, v
<1>4. /\ u \o v \in Seq(S) /\ Len(u \o v) = n + (l - n)
      /\ \A i \in 1 .. (n + (l - n)) :
            (u \o v)[i] = IF i <= n THEN u[i] ELSE v[i - n]
  <2>1. /\ u \o v \in Seq(S) /\ Len(u \o v) = Len(u) + Len(v)
        /\ \A i \in 1 .. (Len(u) + Len(v)) :
              (u \o v)[i] = IF i <= Len(u) THEN u[i] ELSE v[i - Len(u)]
    BY <1>2, <1>3, ConcatProperties, Zenon
  <2> QED
    BY <2>1, <1>2, <1>3
<1>5. n + (l - n) = l
  BY <1>1
<1>6. ASSUME NEW i \in 1 .. l PROVE (u \o v)[i] = d[i]
  <2>1. (u \o v)[i] = IF i <= n THEN u[i] ELSE v[i - n]
    BY <1>4, <1>5
  <2>2. CASE i <= n
    BY <2>1, <2>2, <1>1, <1>2
  <2>3. CASE ~(i <= n)
    <3>1. i - n \in 1 .. (l - n) /\ n + (i - n) = i
      BY <2>3, <1>1
    <3> QED
      BY <2>1, <2>3, <3>1, <1>3
  <2> QED
    BY <2>2, <2>3
<1>7. u \o v = d
  BY <1>4, <1>5, <1>6, SeqEqual
<1> QED
  BY <1>2, <1>3, <1>7 DEF u, v

LEMMA ChunksType ==
    ASSUME NEW d \in Payload, NEW lim \in Nat
    PROVE  /\ LET a == ChunksOf(d, lim)[1]
              IN  /\ a \in Message /\ a.seq = 0 /\ a.full = Len(d)
                  /\ Len(d) <= lim => a.data = d
                  /\ Len(d) > lim => Len(a.data) = lim
           /\ Len(d) <= lim => Len(ChunksOf(d, lim)) = 1
           /\ Len(d) > lim =>
                 LET a == ChunksOf(d, lim)[1]
                     b == ChunksOf(d, lim)[2]
                 IN  /\ Len(ChunksOf(d, lim)) = 2
                     /\ b \in Message /\ b.seq = 1 /\ b.full = Len(d)
                     /\ Len(b.data) = Len(d) - lim
                     /\ a.data \o b.data = d
<1>1. d \in Seq(Nat \X Nat) /\ Len(d) \in Nat
  BY DEF Payload
<1>2. CASE Len(d) <= lim
  <2>1. ChunksOf(d, lim) = <<Chunk(d, 0, Len(d))>>
    BY <1>2 DEF ChunksOf
  <2>2. Chunk(d, 0, Len(d)) \in Message
    BY <1>1 DEF Chunk, Message, Payload, Chunks
  <2> QED
    BY <1>1, <1>2, <2>1, <2>2 DEF Chunk
<1>3. CASE Len(d) > lim
  <2> DEFINE u == SubSeq(d, 1, lim)
             v == SubSeq(d, lim + 1, Len(d))
  <2>1. ChunksOf(d, lim) = <<Chunk(u, 0, Len(d)), Chunk(v, 1, Len(d))>>
    BY <1>1, <1>3 DEF ChunksOf
  <2>2. /\ u \in Seq(Nat \X Nat) /\ Len(u) = lim
        /\ v \in Seq(Nat \X Nat) /\ Len(v) = Len(d) - lim
        /\ u \o v = d
    <3>1. lim <= Len(d)
      BY <1>1, <1>3
    <3> QED
      BY <3>1, <1>1, SplitAt, Zenon
  <2> HIDE DEF u, v
  <2>5. Chunk(u, 0, Len(d)) \in Message /\ Chunk(v, 1, Len(d)) \in Message
    BY <1>1, <2>2 DEF Chunk, Message, Payload, Chunks
  <2>6. ~(Len(d) <= lim) /\ Len(ChunksOf(d, lim)) = 2
    BY <1>1, <1>3, <2>1
  <2>7. /\ ChunksOf(d, lim)[1] = Chunk(u, 0, Len(d))
        /\ ChunksOf(d, lim)[2] = Chunk(v, 1, Len(d))
    BY <2>1
  <2>8. /\ Chunk(u, 0, Len(d)).data = u /\ Chunk(v, 1, Len(d)).data = v
        /\ Chunk(u, 0, Len(d)).seq = 0 /\ Chunk(v, 1, Len(d)).seq = 1
        /\ Chunk(u, 0, Len(d)).full = Len(d) /\ Chunk(v, 1, Len(d)).full = Len(d)
    BY DEF Chunk
  <2> QED
    BY <2>2, <2>5, <2>6, <2>7, <2>8
<1>4. Len(d) <= lim \/ Len(d) > lim
  BY <1>1
<1> QED
  BY <1>4, <1>2, <1>3, Zenon

\* The message of an operation: what the ends and the channels have of it.

LEMMA PartFacts ==
    ASSUME NEW scr, NEW k \in Nat,
           scr[k].size \in Nat, scr[k].limits[1] \in Nat
    PROVE  /\ Msg(scr, k) \in Payload
           /\ Len(Msg(scr, k)) = scr[k].size
           /\ Part(scr, 0, k) \in Message
           /\ Part(scr, 0, k).seq = 0
           /\ Part(scr, 0, k).full = scr[k].size
           /\ scr[k].size <= scr[k].limits[1] =>
                 Part(scr, 0, k).data = Msg(scr, k)
           /\ scr[k].size > scr[k].limits[1] =>
                 /\ Len(Part(scr, 0, k).data) = scr[k].limits[1]
                 /\ Part(scr, 1, k) \in Message
                 /\ Part(scr, 1, k).seq = 1
                 /\ Part(scr, 1, k).full = scr[k].size
                 /\ Len(Part(scr, 1, k).data) = scr[k].size - scr[k].limits[1]
                 /\ Part(scr, 0, k).data \o Part(scr, 1, k).data = Msg(scr, k)
<1>2. Msg(scr, k) \in Payload /\ Len(Msg(scr, k)) = scr[k].size
  <2>1. Count(scr, scr[k].from, 0, k) \in Nat
    BY CountType
  <2> QED
    BY <2>1, DataType DEF Msg
<1> DEFINE d == Msg(scr, k)
           lim == scr[k].limits[1]
<1>3. Part(scr, 0, k) = ChunksOf(d, lim)[1] /\ Part(scr, 1, k) = ChunksOf(d, lim)[2]
  BY DEF Part
<1>4. d \in Payload /\ lim \in Nat /\ Len(d) = scr[k].size
  BY <1>2
<1> HIDE DEF d, lim
<1>5. /\ ChunksOf(d, lim)[1] \in Message
      /\ ChunksOf(d, lim)[1].seq = 0
      /\ ChunksOf(d, lim)[1].full = Len(d)
      /\ Len(d) <= lim => ChunksOf(d, lim)[1].data = d
      /\ Len(d) > lim =>
            /\ Len(ChunksOf(d, lim)[1].data) = lim
            /\ ChunksOf(d, lim)[2] \in Message
            /\ ChunksOf(d, lim)[2].seq = 1
            /\ ChunksOf(d, lim)[2].full = Len(d)
            /\ Len(ChunksOf(d, lim)[2].data) = Len(d) - lim
            /\ ChunksOf(d, lim)[1].data \o ChunksOf(d, lim)[2].data = d
  BY <1>4, ChunksType
<1>6. /\ Part(scr, 0, k) \in Message
      /\ Part(scr, 0, k).seq = 0
      /\ Part(scr, 0, k).full = scr[k].size
      /\ scr[k].size <= lim => Part(scr, 0, k).data = d
      /\ scr[k].size > lim =>
            /\ Len(Part(scr, 0, k).data) = lim
            /\ Part(scr, 1, k) \in Message
            /\ Part(scr, 1, k).seq = 1
            /\ Part(scr, 1, k).full = scr[k].size
            /\ Len(Part(scr, 1, k).data) = scr[k].size - lim
            /\ Part(scr, 0, k).data \o Part(scr, 1, k).data = d
  BY <1>3, <1>4, <1>5
<1> QED
  BY <1>2, <1>6 DEF d, lim

-----------------------------------------------------------------------------
(* Buffers.                                                                *)

\* So many FlexData hold n items, and one less would not.
LEMMA FlexHolds ==
    ASSUME NEW n \in Nat
    PROVE  /\ getNumberOfFlexData(n) \in Nat
           /\ n <= getNumberOfFlexData(n) * ItemsPerFlex
           /\ \A q \in Nat : n <= q * ItemsPerFlex => getNumberOfFlexData(n) <= q
<1> DEFINE I == ItemsPerFlex
           a == n \div I
           b == n % I
<1>1. I \in Nat /\ I > 0
  BY PeerAssumption
<1>2. a \in Nat /\ b \in Nat /\ b < I /\ n = a * I + b
  BY <1>1
<1>3. getNumberOfFlexData(n) = a + (IF b > 0 THEN 1 ELSE 0)
  BY DEF getNumberOfFlexData
<1> HIDE DEF I, a, b
<1>4. getNumberOfFlexData(n) \in Nat
  BY <1>2, <1>3
<1>5. n <= getNumberOfFlexData(n) * I
  <2>1. CASE b > 0
    <3>1. (a + 1) * I = a * I + I
      BY <1>1, <1>2
    <3> QED
      BY <2>1, <3>1, <1>1, <1>2, <1>3
  <2>2. CASE ~(b > 0)
    BY <2>2, <1>1, <1>2, <1>3
  <2> QED
    BY <2>1, <2>2
<1>6. ASSUME NEW q \in Nat, n <= q * I PROVE getNumberOfFlexData(n) <= q
  <2>1. a <= q
    <3>1. SUFFICES ASSUME q + 1 <= a PROVE FALSE
      BY <1>2
    <3>2. (q + 1) * I <= a * I
      BY <3>1, <1>1, <1>2
    <3>3. (q + 1) * I = q * I + I
      BY <1>1
    <3> QED
      BY <3>2, <3>3, <1>1, <1>2, <1>6
  <2>2. ASSUME b > 0 PROVE a # q
    BY <2>2, <1>1, <1>2, <1>6
  <2> QED
    BY <2>1, <2>2, <1>2, <1>3
<1> QED
  BY <1>4, <1>5, <1>6 DEF I

LEMMA FlexMonotone ==
    ASSUME NEW m \in Nat, NEW n \in Nat, m <= n
    PROVE  getNumberOfFlexData(m) <= getNumberOfFlexData(n)
<1> DEFINE q == getNumberOfFlexData(n)
<1>1. q \in Nat /\ n <= q * ItemsPerFlex
  BY FlexHolds
<1> HIDE DEF q
<1>2. q * ItemsPerFlex \in Nat
  BY <1>1, PeerAssumption
<1>3. m <= q * ItemsPerFlex
  BY <1>1, <1>2
<1>4. getNumberOfFlexData(m) <= q
  BY <1>1, <1>3, FlexHolds
<1> QED
  BY <1>4 DEF q

LEMMA ResizedType ==
    ASSUME NEW s \in EndType, NEW n \in Nat
    PROVE  LET u == resizeBuffer(s, n)
           IN  /\ u \in EndType
               /\ u.base = s.base /\ u.next = s.next /\ u.limit = s.limit
               /\ u.full = s.full /\ u.data = s.data /\ u.trailer = s.trailer
               /\ u.req = s.req /\ u.at = s.at
               /\ u.cap \in Nat /\ n <= u.cap
               /\ n > 0 /\ (s.held \/ s.cap = 0) => u.held = TRUE
<1>1. s.cap \in Nat /\ s.held \in BOOLEAN
  BY DEF EndType
<1>2. CASE s.cap < n
  <2> DEFINE u == [s EXCEPT !.held = TRUE, !.cap = n]
  <2>1. /\ u \in EndType
        /\ u.base = s.base /\ u.next = s.next /\ u.limit = s.limit
        /\ u.full = s.full /\ u.data = s.data /\ u.trailer = s.trailer
        /\ u.req = s.req /\ u.at = s.at /\ u.cap = n /\ u.held = TRUE
    BY DEF EndType
  <2>2. resizeBuffer(s, n) = u
    BY <1>2 DEF resizeBuffer
  <2> HIDE DEF u
  <2> QED
    BY <2>1, <2>2
<1>3. CASE ~(s.cap < n)
  <2>1. resizeBuffer(s, n) = s /\ n <= s.cap
    BY <1>1, <1>3 DEF resizeBuffer
  <2>2. n > 0 /\ (s.held \/ s.cap = 0) => s.held = TRUE
    BY <1>1, <2>1
  <2> QED
    BY <1>1, <2>1, <2>2
<1> QED
  BY <1>2, <1>3

\* The object as its owner hands it to beginSend() or beginRecv().
LEMMA LimitedType ==
    ASSUME NEW s \in EndType, NEW n \in Nat
    PROVE  LET u == limitFirstDataLength(s, n)
           IN  /\ u \in EndType /\ u.limit = n
               /\ u.base = s.base /\ u.next = s.next /\ u.full = s.full
               /\ u.data = s.data /\ u.trailer = s.trailer /\ u.req = s.req
               /\ u.at = s.at /\ u.cap = s.cap /\ u.held = s.held
BY DEF limitFirstDataLength, EndType

-----------------------------------------------------------------------------
(***************************************************************************)
(* The invariant.  An end that has begun r operations is at rest, or in    *)
(* one of three places of the last of them.  A receiver holds of the       *)
(* message exactly what it has taken from the channels.                    *)
(***************************************************************************)
Resting(s) ==
    /\ s.at = "out"
    /\ s.next = "none"
    /\ \A c \in Chunks : s.req[c] = "null"

Sending(s, e, r, scr) ==
    /\ r >= 1
    /\ scr[r].from = e
    /\ s.base = "send"
    /\ s.full = scr[r].size
    /\ s.limit = scr[r].limits[1]
    /\ \/ s.at = "send_check" /\ s.next \in {"send_start", "send_check"}
       \/ s.at = "out" /\ s.next = "send_check" /\ ~SendOver(s.req)

AwaitsFirst(s, e, r, scr) ==
    /\ r >= 1
    /\ scr[r].from = PeerOf[e]
    /\ s.base = "recv"
    /\ s.limit = scr[r].limits[2]
    /\ s.req[1] = "null"
    /\ \/ s.at = "recv_check0" /\ s.next \in {"recv_start", "recv_check0"}
       \/ s.at = "out" /\ s.next = "recv_check0" /\ s.req[0] # "null"
    /\ s.req[0] # "active" =>
          /\ s.data = Part(scr, 0, r).data
          /\ s.trailer = [seq |-> 0, full |-> scr[r].size]

AwaitsRest(s, e, r, scr) ==
    /\ r >= 1
    /\ scr[r].from = PeerOf[e]
    /\ s.base = "recv"
    /\ s.limit = scr[r].limits[2]
    /\ s.req[0] = "null"
    /\ \/ /\ s.at = "recv_check1"
          /\ s.next \in {"recv_start", "recv_check0", "recv_check1"}
       \/ s.at = "out" /\ s.next = "recv_check1" /\ s.req[1] # "null"
    /\ s.full = scr[r].size
    /\ s.full > scr[r].limits[1]
    /\ s.req[1] = "active" => s.data = Part(scr, 0, r).data
    /\ s.req[1] # "active" =>
          /\ s.data = Msg(scr, r)
          /\ s.trailer = [seq |-> 1, full |-> scr[r].size]

EndOK(s, e, r, scr) ==
    \/ Resting(s)
    \/ Sending(s, e, r, scr)
    \/ AwaitsFirst(s, e, r, scr)
    \/ AwaitsRest(s, e, r, scr)

\* The case of a check method an object is in, or will be in next.
Phase(s) == IF s.at = "out" THEN s.next ELSE s.at

\* The receiver s has yet to take chunk c, if there is one.
Due(s, c) ==
    IF c = 0 THEN Phase(s) = "recv_check0" /\ s.req[0] = "active"
    ELSE \/ Phase(s) = "recv_check0"
         \/ Phase(s) = "recv_check1" /\ s.req[1] = "active"

\* Of r operations begun, those whose chunk c is taken; those finished.
Taken(s, c, r) == IF Due(s, c) THEN r - 1 ELSE r

Finished(s, r) ==
    IF Phase(s) \in {"recv_check0", "recv_check1"} THEN r - 1 ELSE r

\* The history h of the sends of p in r operations.
SentOK(h, p, r, scr) ==
    /\ Len(h) = Count(scr, p, 0, r)
    /\ \A k \in 1 .. r : Uses(scr, p, 0, k) => h[Count(scr, p, 0, k)] = Msg(scr, k)

LEMMA SentWaits ==
    ASSUME NEW h, NEW p, NEW r \in Nat, NEW scr, SentOK(h, p, r, scr),
           ~Uses(scr, p, 0, r + 1)
    PROVE  SentOK(h, p, r + 1, scr)
<1>1. Count(scr, p, 0, r + 1) = Count(scr, p, 0, r)
  <2>1. Count(scr, p, 0, r) \in Nat
    BY CountType
  <2> QED
    BY <2>1, CountNext
<1>2. \A k \in 1 .. (r + 1) : Uses(scr, p, 0, k) => k \in 1 .. r
  <2>1. \A k \in 1 .. (r + 1) : k = r + 1 \/ k \in 1 .. r
    OBVIOUS
  <2> QED
    BY <2>1
<1> QED
  BY <1>1, <1>2 DEF SentOK

LEMMA SentGrows ==
    ASSUME NEW h \in Seq(Payload), NEW p, NEW r \in Nat, NEW scr,
           SentOK(h, p, r, scr), Uses(scr, p, 0, r + 1),
           Msg(scr, r + 1) \in Payload
    PROVE  SentOK(Append(h, Msg(scr, r + 1)), p, r + 1, scr)
<1> DEFINE C(k) == Count(scr, p, 0, k)
           d == Msg(scr, r + 1)
<1>1. C(r) \in Nat /\ C(r + 1) = C(r) + 1 /\ Len(h) = C(r)
  BY CountNext, CountType DEF SentOK
<1>2. /\ Len(Append(h, d)) = Len(h) + 1
      /\ \A i \in 1 .. Len(h) : Append(h, d)[i] = h[i]
      /\ Append(h, d)[Len(h) + 1] = d
  BY AppendProperties
<1>3. ASSUME NEW k \in 1 .. (r + 1), Uses(scr, p, 0, k)
      PROVE  Append(h, d)[C(k)] = Msg(scr, k)
  <2>1. CASE k = r + 1
    BY <2>1, <1>1, <1>2
  <2>2. CASE k # r + 1
    <3>1. k \in 1 .. r /\ k \in Nat /\ k <= r /\ 0 < k /\ 0 <= k
      BY <2>2
    <3>2. h[C(k)] = Msg(scr, k)
      BY <3>1, <1>3 DEF SentOK
    <3>3. C(0) < C(k) /\ C(k) <= C(r) /\ C(k) \in Nat /\ C(0) = 0
      BY <3>1, <1>3, CountGrows, CountType, CountZero
    <3> HIDE DEF C, d
    <3>4. C(k) \in 1 .. Len(h)
      BY <3>3, <1>1
    <3> QED
      BY <3>2, <3>4, <1>2
  <2> QED
    BY <2>1, <2>2
<1>4. Len(Append(h, d)) = C(r + 1)
  BY <1>1, <1>2
<1> QED
  BY <1>3, <1>4 DEF SentOK

\* What an end at rest has taken and finished: all it has begun.
LEMMA AtRest ==
    ASSUME NEW s, NEW r, Resting(s)
    PROVE  /\ \A c \in Chunks : Taken(s, c, r) = r
           /\ Finished(s, r) = r
           /\ s.req[0] = "null" /\ s.req[1] = "null"
BY DEF Resting, Taken, Finished, Due, Phase, Chunks

\* What is to be shown of the operation that end e begins next.

LEMMA TakenType ==
    ASSUME NEW s \in EndType, NEW e, NEW r \in Nat, NEW scr, NEW c \in Chunks,
           EndOK(s, e, r, scr)
    PROVE  Taken(s, c, r) \in Nat /\ Finished(s, r) \in Nat
BY DEF EndOK, Resting, Sending, AwaitsFirst, AwaitsRest, Phase, Due, Taken,
       Finished, Chunks

-----------------------------------------------------------------------------
(***************************************************************************)
(* One object.  A step of its own, or of MPI, takes it from s to t; it has *)
(* begun the same operations, and has taken the same chunks.               *)
(***************************************************************************)
StaysOK(s, t, e, r, scr) ==
    /\ t \in EndType
    /\ EndOK(t, e, r, scr)
    /\ \A c \in Chunks : Due(t, c) <=> Due(s, c)
    /\ Finished(t, r) = Finished(s, r)

(***************************************************************************)
(* An operation of lengths that the ends agree on: both know whether there *)
(* is a second chunk, and where it begins.                                 *)
(***************************************************************************)
OperationOK(op) ==
    /\ op.size \in Nat
    /\ op.limits[1] \in Nat /\ op.limits[2] \in Nat
    /\ op.limits[1] = op.limits[2]
         \/ (op.size <= op.limits[1] /\ op.size <= op.limits[2])

LEMMA RestingStays ==
    ASSUME NEW s, NEW t \in EndType, NEW e, NEW r, NEW scr,
           Resting(s), Resting(t)
    PROVE  StaysOK(s, t, e, r, scr)
BY DEF StaysOK, EndOK, Resting, Due, Finished, Phase

LEMMA RestingWhenDone ==
    ASSUME NEW s, NEW e, NEW r, NEW scr, EndOK(s, e, r, scr),
           s.next = "none"
    PROVE  Resting(s)
BY DEF EndOK, Sending, AwaitsFirst, AwaitsRest

\* The object s, gone on after a wait that returned the requests in S.
Proceeding(s, S) ==
    [s EXCEPT !.req = [c \in Chunks |-> IF c \in S THEN "null" ELSE s.req[c]],
              !.at = s.next]

LEMMA Proceeds ==
    ASSUME NEW s \in EndType, NEW e, NEW r, NEW scr, NEW S,
           EndOK(s, e, r, scr), s.at = "out", s.next # "none",
           S \subseteq {c \in Chunks : s.req[c] = "arrived"}
    PROVE  LET t == Proceeding(s, S)
           IN  /\ StaysOK(s, t, e, r, scr)
               /\ t.base = s.base /\ t.next = s.next /\ t.at = s.next
               /\ t.limit = s.limit /\ t.full = s.full /\ t.data = s.data
               /\ t.held = s.held /\ t.cap = s.cap
               /\ Phase(t) = Phase(s)
<1> DEFINE q == [c \in Chunks |-> IF c \in S THEN "null" ELSE s.req[c]]
           t == Proceeding(s, S)
<1>1. q \in [Chunks -> {"null", "active", "arrived"}]
  BY DEF EndType
<1>2. \A c \in Chunks : /\ q[c] = "active" <=> s.req[c] = "active"
                        /\ s.req[c] = "null" => q[c] = "null"
  OBVIOUS
<1>3. s.next \in {"send_check", "recv_check0", "recv_check1"}
  BY DEF EndOK, Resting, Sending, AwaitsFirst, AwaitsRest
<1> HIDE DEF q
<1>4. /\ t \in EndType
      /\ t.at = s.next /\ t.next = s.next /\ t.req = q /\ t.base = s.base
      /\ t.full = s.full /\ t.limit = s.limit /\ t.data = s.data
      /\ t.trailer = s.trailer /\ t.held = s.held /\ t.cap = s.cap
  <2>1. t = [s EXCEPT !.req = q, !.at = s.next]
    BY DEF Proceeding, q
  <2> QED
    BY <2>1, <1>1, <1>3 DEF EndType
<1> HIDE DEF t
<1>5. 0 \in Chunks /\ 1 \in Chunks
  BY DEF Chunks
<1>6. Phase(t) = Phase(s)
  BY <1>3, <1>4 DEF Phase
<1>7. EndOK(t, e, r, scr)
  <2>1. CASE Sending(s, e, r, scr)
    <3>1. Sending(t, e, r, scr)
      BY <2>1, <1>4 DEF Sending
    <3> QED
      BY <3>1 DEF EndOK
  <2>2. CASE AwaitsFirst(s, e, r, scr)
    <3>1. AwaitsFirst(t, e, r, scr)
      BY <2>2, <1>2, <1>4, <1>5 DEF AwaitsFirst
    <3> QED
      BY <3>1 DEF EndOK
  <2>3. CASE AwaitsRest(s, e, r, scr)
    <3>1. AwaitsRest(t, e, r, scr)
      BY <2>3, <1>2, <1>4, <1>5 DEF AwaitsRest
    <3> QED
      BY <3>1 DEF EndOK
  <2> QED
    BY <2>1, <2>2, <2>3 DEF EndOK, Resting
<1>8. /\ \A c \in Chunks : Due(t, c) <=> Due(s, c)
      /\ Finished(t, r) = Finished(s, r)
  BY <1>2, <1>4, <1>5, <1>6 DEF Due, Finished, Chunks
<1> QED
  BY <1>4, <1>6, <1>7, <1>8 DEF StaysOK, t

\* The object s after the case send_check.
SendChecked(s) ==
    LET q == Tested(s, Chunks)
    IN  [s EXCEPT !.req = q, !.at = "out",
                  !.full = IF SendOver(q) THEN 0 ELSE @,
                  !.next = IF SendOver(q) THEN "none" ELSE "send_check"]

LEMMA SendChecks ==
    ASSUME NEW s \in EndType, NEW e, NEW r, NEW scr,
           EndOK(s, e, r, scr), s.at = "send_check"
    PROVE  LET t == SendChecked(s)
           IN  /\ StaysOK(s, t, e, r, scr)
               /\ Sending(s, e, r, scr)
               /\ t.at = "out" /\ t.base = s.base /\ t.limit = s.limit
               /\ t.held = s.held /\ t.cap = s.cap
               /\ t.next # "none" => t.next = "send_check" /\ t.full = s.full
<1> DEFINE q == Tested(s, Chunks)
           t == SendChecked(s)
<1>1. Sending(s, e, r, scr)
  BY DEF EndOK, Resting, AwaitsFirst, AwaitsRest
<1>2. q \in [Chunks -> {"null", "active", "arrived"}] /\ 0 \in Chunks /\ 1 \in Chunks
  BY DEF EndType, Tested, Chunks
<1>3. t = [s EXCEPT !.req = q, !.at = "out",
                    !.full = IF SendOver(q) THEN 0 ELSE s.full,
                    !.next = IF SendOver(q) THEN "none" ELSE "send_check"]
  BY DEF SendChecked, EndType
<1> HIDE DEF q, t
<1>4. /\ t \in EndType
      /\ t.at = "out" /\ t.req = q /\ t.base = s.base /\ t.limit = s.limit
      /\ t.held = s.held /\ t.cap = s.cap
      /\ SendOver(q) => t.next = "none"
      /\ ~SendOver(q) => t.next = "send_check" /\ t.full = s.full
  <2>1. CASE SendOver(q)
    BY <2>1, <1>2, <1>3 DEF EndType, TaskOps
  <2>2. CASE ~SendOver(q)
    BY <2>2, <1>2, <1>3 DEF EndType, TaskOps
  <2> QED
    BY <2>1, <2>2
<1>5. /\ EndOK(t, e, r, scr)
      /\ Phase(t) \in {"none", "send_check"}
  <2>1. CASE SendOver(q)
    <3>1. Resting(t)
      BY <2>1, <1>4 DEF Resting, SendOver, Chunks
    <3> QED
      BY <3>1 DEF Resting, EndOK, Phase
  <2>2. CASE ~SendOver(q)
    <3>1. Sending(t, e, r, scr)
      BY <2>2, <1>1, <1>4 DEF Sending
    <3> QED
      BY <2>2, <3>1, <1>4 DEF EndOK, Phase
  <2> QED
    BY <2>1, <2>2
<1>6. Phase(s) = "send_check"
  BY DEF Phase
<1>7. /\ \A c \in Chunks : Due(t, c) <=> Due(s, c)
      /\ Finished(t, r) = Finished(s, r)
  BY <1>5, <1>6 DEF Due, Finished
<1> QED
  BY <1>1, <1>4, <1>5, <1>7 DEF StaysOK, t

LEMMA SendIsCompleted ==
    ASSUME NEW s \in EndType, NEW e, NEW r, NEW scr, NEW d \in Chunks,
           EndOK(s, e, r, scr), s.base = "send", s.req[d] = "active"
    PROVE  LET t == [s EXCEPT !.req[d] = "arrived"]
           IN  /\ StaysOK(s, t, e, r, scr)
               /\ Sending(s, e, r, scr)
               /\ t.at = s.at /\ t.next = s.next /\ t.base = s.base
               /\ t.full = s.full /\ t.limit = s.limit /\ t.data = s.data
               /\ t.held = s.held /\ t.cap = s.cap
<1> DEFINE t == [s EXCEPT !.req[d] = "arrived"]
<1>1. /\ t \in EndType
      /\ t.at = s.at /\ t.next = s.next /\ t.base = s.base /\ t.full = s.full
      /\ t.limit = s.limit /\ t.held = s.held /\ t.cap = s.cap
      /\ t.data = s.data /\ t.req[d] = "arrived"
  BY DEF EndType
<1> HIDE DEF t
<1>2. Sending(s, e, r, scr) \/ Resting(s)
  BY DEF EndOK, AwaitsFirst, AwaitsRest
<1>3. Sending(s, e, r, scr)
  BY <1>2 DEF Resting
<1>4. ~SendOver(t.req)
  BY <1>1 DEF SendOver, Chunks
<1>5. Sending(t, e, r, scr)
  BY <1>1, <1>3, <1>4 DEF Sending
<1>6. Phase(t) = "send_check" /\ Phase(s) = "send_check"
  BY <1>1, <1>3 DEF Phase, Sending
<1>7. /\ EndOK(t, e, r, scr)
      /\ \A c \in Chunks : Due(t, c) <=> Due(s, c)
      /\ Finished(t, r) = Finished(s, r)
  BY <1>5, <1>6 DEF EndOK, Due, Finished
<1>8. StaysOK(s, t, e, r, scr)
  BY <1>1, <1>7 DEF StaysOK
<1> QED
  BY <1>1, <1>3, <1>8 DEF t

-----------------------------------------------------------------------------
(* Receiving.                                                              *)

\* What is so of an object that is receiving in operation r.
LEMMA Receives ==
    ASSUME NEW s \in EndType, NEW e, NEW r, NEW scr, EndOK(s, e, r, scr),
           \/ s.at \in {"recv_check0", "recv_check1"}
           \/ s.base = "recv" /\ \E c \in Chunks : s.req[c] = "active"
    PROVE  /\ AwaitsFirst(s, e, r, scr) \/ AwaitsRest(s, e, r, scr)
           /\ s.at = "recv_check0" => AwaitsFirst(s, e, r, scr)
           /\ s.at = "recv_check1" => AwaitsRest(s, e, r, scr)
           /\ s.req[0] = "active" => AwaitsFirst(s, e, r, scr)
           /\ s.req[1] = "active" => AwaitsRest(s, e, r, scr)
           /\ r >= 1 /\ scr[r].from = PeerOf[e] /\ s.base = "recv"
           /\ s.limit = scr[r].limits[2]
BY DEF EndOK, Resting, Sending, AwaitsFirst, AwaitsRest, Chunks

\* The message has not come: the check method will go on from here.
LEMMA ChecksEarly ==
    ASSUME NEW s \in EndType, NEW e, NEW r, NEW scr, EndOK(s, e, r, scr),
           NEW task, s.at = task,
           \/ task = "recv_check0" /\ s.req[0] = "active"
           \/ task = "recv_check1" /\ s.req[1] = "active"
    PROVE  LET t == [s EXCEPT !.next = task, !.at = "out"]
           IN  /\ StaysOK(s, t, e, r, scr)
               /\ t.at = "out" /\ t.next = task /\ t.base = s.base
               /\ t.full = s.full /\ t.limit = s.limit /\ t.data = s.data
               /\ t.held = s.held /\ t.cap = s.cap
<1> DEFINE t == [s EXCEPT !.next = task, !.at = "out"]
<1>1. /\ t \in EndType
      /\ t.at = "out" /\ t.next = task /\ t.base = s.base /\ t.full = s.full
      /\ t.limit = s.limit /\ t.held = s.held /\ t.cap = s.cap
      /\ t.req = s.req /\ t.data = s.data /\ t.trailer = s.trailer
  BY DEF EndType, TaskOps
<1> HIDE DEF t
<1>2. EndOK(t, e, r, scr)
  <2>1. CASE task = "recv_check0"
    <3>1. AwaitsFirst(s, e, r, scr)
      BY <2>1 DEF EndOK, Resting, Sending, AwaitsRest
    <3>2. AwaitsFirst(t, e, r, scr)
      BY <1>1, <2>1, <3>1 DEF AwaitsFirst
    <3> QED
      BY <3>2 DEF EndOK
  <2>2. CASE task = "recv_check1"
    <3>1. AwaitsRest(s, e, r, scr)
      BY <2>2 DEF EndOK, Resting, Sending, AwaitsFirst
    <3>2. AwaitsRest(t, e, r, scr)
      BY <1>1, <2>2, <3>1 DEF AwaitsRest
    <3> QED
      BY <3>2 DEF EndOK
  <2> QED
    BY <2>1, <2>2
<1>3. Phase(t) = task /\ Phase(s) = task
  BY <1>1 DEF Phase
<1>4. /\ \A c \in Chunks : Due(t, c) <=> Due(s, c)
      /\ Finished(t, r) = Finished(s, r)
  BY <1>1, <1>3 DEF Due, Finished
<1>5. StaysOK(s, t, e, r, scr)
  BY <1>1, <1>2, <1>4 DEF StaysOK
<1> QED
  BY <1>1, <1>5 DEF t

\* The object s when the first chunk has come and tells of a second.
WithRestPosted(s) ==
    LET t == [s EXCEPT !.req = Tested(s, {0}), !.full = s.trailer.full]
        u == resizeBuffer(t, s.cap + getNumberOfFlexData(t.full - s.limit))
    IN  [u EXCEPT !.req[1] = "active", !.at = "recv_check1"]

LEMMA RestPosted ==
    ASSUME NEW s \in EndType, GoesOn(s), s.req[0] # "active"
    PROVE  LET v == WithRestPosted(s)
           IN  /\ v \in EndType
               /\ v.at = "recv_check1" /\ v.next = s.next /\ v.base = s.base
               /\ v.limit = s.limit /\ v.data = s.data
               /\ v.full = s.trailer.full
               /\ v.req[0] = "null" /\ v.req[1] = "active"
               /\ v.held
               /\ v.cap = s.cap + getNumberOfFlexData(s.trailer.full - s.limit)
<1> DEFINE n == getNumberOfFlexData(s.trailer.full - s.limit)
           q == Tested(s, {0})
           t == [s EXCEPT !.req = q, !.full = s.trailer.full]
           u == resizeBuffer(t, s.cap + n)
<1>1. s.trailer.full \in Nat /\ s.limit \in Nat /\ s.cap \in Nat
  BY DEF EndType
<1>2. n \in Nat /\ n > 0
  <2>1. s.trailer.full - s.limit \in Nat /\ s.trailer.full - s.limit > 0
    BY <1>1 DEF GoesOn
  <2>2. /\ getNumberOfFlexData(s.trailer.full - s.limit) \in Nat
        /\ s.trailer.full - s.limit
              <= getNumberOfFlexData(s.trailer.full - s.limit) * ItemsPerFlex
    BY <2>1, FlexHolds
  <2>3. n # 0
    <3>1. 0 * ItemsPerFlex = 0
      BY PeerAssumption
    <3> QED
      BY <2>1, <2>2, <3>1
  <2> QED
    BY <2>2, <2>3
<1>3. /\ q \in [Chunks -> {"null", "active", "arrived"}]
      /\ q[0] = "null" /\ 0 \in Chunks /\ 1 \in Chunks
  BY DEF EndType, Tested, Chunks
<1> HIDE DEF n, q
<1>4. /\ t \in EndType /\ t.full = s.trailer.full /\ t.limit = s.limit
      /\ t.cap = s.cap /\ t.next = s.next /\ t.base = s.base
      /\ t.data = s.data /\ t.req = q
  BY <1>1, <1>3 DEF EndType
<1> HIDE DEF t
<1>5. u = [t EXCEPT !.held = TRUE, !.cap = s.cap + n]
  BY <1>1, <1>2, <1>4 DEF resizeBuffer
<1>6. /\ u \in EndType /\ u.full = s.trailer.full /\ u.limit = s.limit
      /\ u.cap = s.cap + n /\ u.next = s.next /\ u.base = s.base
      /\ u.data = s.data /\ u.req = q /\ u.held = TRUE
  <2>1. s.cap + n \in Nat
    BY <1>1, <1>2
  <2>2. u \in EndType
    BY <2>1, <1>4, <1>5 DEF EndType
  <2> QED
    BY <2>2, <1>4, <1>5 DEF EndType
<1> HIDE DEF u
<1> DEFINE v == [u EXCEPT !.req[1] = "active", !.at = "recv_check1"]
<1>7. /\ v \in EndType /\ v.at = "recv_check1" /\ v.next = s.next
      /\ v.base = s.base /\ v.limit = s.limit /\ v.data = s.data
      /\ v.full = s.trailer.full /\ v.req[0] = "null" /\ v.req[1] = "active"
      /\ v.held = TRUE /\ v.cap = s.cap + n
  <2>1. v \in EndType
    BY <1>3, <1>6 DEF EndType
  <2>2. v.at = "recv_check1" /\ v.req = [u.req EXCEPT ![1] = "active"]
    BY <1>6 DEF EndType
  <2>3. /\ v.next = u.next /\ v.base = u.base /\ v.limit = u.limit
        /\ v.data = u.data /\ v.full = u.full /\ v.held = u.held /\ v.cap = u.cap
    BY <1>6 DEF EndType
  <2>4. v.req[0] = "null" /\ v.req[1] = "active"
    BY <2>2, <1>3, <1>6
  <2> QED
    BY <2>1, <2>2, <2>3, <2>4, <1>6
<1>8. WithRestPosted(s) = v
  BY <1>4 DEF WithRestPosted, n, q, t, u
<1> QED
  BY <1>7, <1>8 DEF n

LEMMA PostsTheRest ==
    ASSUME NEW s \in EndType, NEW e, NEW r, NEW scr, EndOK(s, e, r, scr),
           OperationOK(scr[r]),
           s.at = "recv_check0", s.req[0] # "active", GoesOn(s)
    PROVE  LET v == WithRestPosted(s)
           IN  /\ StaysOK(s, v, e, r, scr)
               /\ v.at = "recv_check1" /\ v.next = s.next /\ v.next # "none"
               /\ v.base = s.base /\ v.limit = s.limit /\ v.full = s.trailer.full
               /\ v.held
               /\ v.cap = s.cap + getNumberOfFlexData(s.trailer.full - s.limit)
<1> DEFINE v == WithRestPosted(s)
           op == scr[r]
<1>1. AwaitsFirst(s, e, r, scr)
  BY DEF EndOK, Resting, Sending, AwaitsRest
<1>2. /\ s.trailer.full = op.size /\ s.data = Part(scr, 0, r).data
      /\ s.next \in {"recv_start", "recv_check0"} /\ s.base = "recv"
      /\ r >= 1 /\ op.from = PeerOf[e] /\ s.limit = op.limits[2]
  BY <1>1 DEF AwaitsFirst
<1>3. op.size > op.limits[2] /\ op.size > op.limits[1]
  BY <1>2 DEF GoesOn, OperationOK
<1>4. /\ v \in EndType
      /\ v.at = "recv_check1" /\ v.next = s.next /\ v.base = s.base
      /\ v.limit = s.limit /\ v.data = s.data
      /\ v.full = s.trailer.full
      /\ v.req[0] = "null" /\ v.req[1] = "active"
      /\ v.held
      /\ v.cap = s.cap + getNumberOfFlexData(s.trailer.full - s.limit)
  BY RestPosted
<1> HIDE DEF v
<1>5. AwaitsRest(v, e, r, scr)
  BY <1>2, <1>3, <1>4 DEF AwaitsRest
<1>6. Phase(v) = "recv_check1" /\ Phase(s) = "recv_check0"
  BY <1>4 DEF Phase
<1>7. /\ EndOK(v, e, r, scr)
      /\ \A c \in Chunks : Due(v, c) <=> Due(s, c)
      /\ Finished(v, r) = Finished(s, r)
  BY <1>4, <1>5, <1>6 DEF EndOK, Due, Finished, Chunks
<1> QED
  BY <1>2, <1>4, <1>7 DEF v, StaysOK

(***************************************************************************)
(* The object s whose receive is over, when t is what the check method     *)
(* made of it: it is done, and its data are the message.                   *)
(***************************************************************************)
Received(t) == [t EXCEPT !.next = "none", !.at = "out"]

EndsReceive(s, t, e, r, scr) ==
    /\ t \in EndType /\ Resting(t)
    /\ t.data = Msg(scr, r) /\ t.full = scr[r].size
    /\ Items(t.data, t.full) = Msg(scr, r)
    /\ \A c \in Chunks : ~Due(t, c)
    /\ \A c \in Chunks : Due(s, c) => ~Uses(scr, PeerOf[e], c, r)
    /\ Finished(t, r) = r /\ Finished(s, r) = r - 1
    /\ t.base = "recv" /\ scr[r].from = PeerOf[e] /\ r >= 1

LEMMA EndsWith ==
    ASSUME NEW t \in EndType, NEW e, NEW r \in Nat, NEW scr,
           OperationOK(scr[r]),
           t.req[0] = "null", t.req[1] = "null",
           t.data = Msg(scr, r), t.full = scr[r].size
    PROVE  LET u == Received(t)
           IN  /\ u \in EndType /\ Resting(u)
               /\ u.data = Msg(scr, r) /\ u.full = scr[r].size
               /\ Items(u.data, u.full) = Msg(scr, r)
               /\ \A c \in Chunks : ~Due(u, c)
               /\ Finished(u, r) = r
               /\ u.base = t.base
<1> DEFINE u == Received(t)
<1>1. /\ u \in EndType /\ u.at = "out" /\ u.next = "none" /\ u.req = t.req
      /\ u.data = t.data /\ u.full = t.full /\ u.base = t.base
  BY DEF Received, EndType, TaskOps
<1> HIDE DEF u
<1>2. Resting(u)
  BY <1>1 DEF Resting, Chunks
<1>3. (\A c \in Chunks : ~Due(u, c)) /\ Finished(u, r) = r
  BY <1>1 DEF Due, Finished, Phase
<1>4. Items(u.data, u.full) = Msg(scr, r)
  <2>1. Msg(scr, r) \in Payload /\ Len(Msg(scr, r)) = scr[r].size
    BY PartFacts DEF OperationOK
  <2> QED
    BY <2>1, <1>1, ItemsAll DEF OperationOK
<1> QED
  BY <1>1, <1>2, <1>3, <1>4 DEF u

\* The object when recv_check0 finds that the first chunk is all.
FirstChecked(s) == [s EXCEPT !.req = Tested(s, {0}), !.full = s.trailer.full]

LEMMA EndsWithFirst ==
    ASSUME NEW s \in EndType, NEW e, NEW r \in Nat, NEW scr, EndOK(s, e, r, scr),
           OperationOK(scr[r]),
           s.at = "recv_check0", s.req[0] # "active", ~GoesOn(s)
    PROVE  EndsReceive(s, Received(FirstChecked(s)), e, r, scr)
<1> DEFINE op == scr[r]
           q == Tested(s, {0})
           t == FirstChecked(s)
           u == Received(t)
<1>1. AwaitsFirst(s, e, r, scr)
  BY DEF EndOK, Resting, Sending, AwaitsRest
<1>2. /\ s.trailer.full = op.size /\ s.data = Part(scr, 0, r).data
      /\ s.req[1] = "null" /\ s.limit = op.limits[2] /\ s.base = "recv"
      /\ r >= 1 /\ op.from = PeerOf[e]
  BY <1>1 DEF AwaitsFirst
<1>3. /\ op.size \in Nat /\ op.limits[1] \in Nat /\ op.limits[2] \in Nat
      /\ op.size <= op.limits[1]
  BY <1>2 DEF OperationOK, GoesOn
<1>4. s.data = Msg(scr, r)
  <2>1. op.size <= op.limits[1] => Part(scr, 0, r).data = Msg(scr, r)
    BY <1>3, PartFacts
  <2> QED
    BY <2>1, <1>2, <1>3
<1>5. /\ q \in [Chunks -> {"null", "active", "arrived"}]
      /\ q[0] = "null" /\ q[1] = "null"
  BY <1>2 DEF Tested, EndType, Chunks
<1> HIDE DEF q
<1>6. /\ t \in EndType /\ t.req = q /\ t.data = s.data /\ t.base = s.base
      /\ t.full = s.trailer.full
  <2>1. t = [s EXCEPT !.req = q, !.full = s.trailer.full]
    BY DEF FirstChecked, q
  <2> QED
    BY <2>1, <1>2, <1>3, <1>5 DEF EndType
<1> HIDE DEF t
<1>7. /\ u \in EndType /\ Resting(u)
      /\ u.data = Msg(scr, r) /\ u.full = scr[r].size
      /\ Items(u.data, u.full) = Msg(scr, r)
      /\ \A c \in Chunks : ~Due(u, c)
      /\ Finished(u, r) = r
      /\ u.base = t.base
  BY <1>2, <1>4, <1>5, <1>6, EndsWith
<1> HIDE DEF u
<1>8. \A c \in Chunks : Due(s, c) => ~Uses(scr, PeerOf[e], c, r)
  BY <1>3 DEF Due, Uses
<1>9. Finished(s, r) = r - 1
  BY DEF Finished, Phase
<1>10. EndsReceive(s, u, e, r, scr)
  BY <1>2, <1>6, <1>7, <1>8, <1>9 DEF EndsReceive
<1> QED
  BY <1>10 DEF u, t

\* The object when recv_check1 finds that the second chunk has come.
RestChecked(s) == [s EXCEPT !.req = Tested(s, {1})]

LEMMA EndsWithRest ==
    ASSUME NEW s \in EndType, NEW e, NEW r \in Nat, NEW scr, EndOK(s, e, r, scr),
           OperationOK(scr[r]),
           s.at = "recv_check1", s.req[1] # "active"
    PROVE  EndsReceive(s, Received(RestChecked(s)), e, r, scr)
<1> DEFINE q == Tested(s, {1})
           t == RestChecked(s)
           u == Received(t)
<1>1. AwaitsRest(s, e, r, scr)
  BY DEF EndOK, Resting, Sending, AwaitsFirst
<1>2. /\ s.req[0] = "null" /\ s.full = scr[r].size
      /\ s.data = Msg(scr, r) /\ s.base = "recv"
      /\ r >= 1 /\ scr[r].from = PeerOf[e]
  BY <1>1 DEF AwaitsRest
<1>3. /\ q \in [Chunks -> {"null", "active", "arrived"}]
      /\ q[0] = "null" /\ q[1] = "null"
  BY <1>2 DEF Tested, EndType, Chunks
<1> HIDE DEF q
<1>4. /\ t \in EndType /\ t.req = q /\ t.data = s.data /\ t.base = s.base
      /\ t.full = s.full
  <2>1. t = [s EXCEPT !.req = q]
    BY DEF RestChecked, q
  <2> QED
    BY <2>1, <1>3 DEF EndType
<1> HIDE DEF t
<1>5. /\ u \in EndType /\ Resting(u)
      /\ u.data = Msg(scr, r) /\ u.full = scr[r].size
      /\ Items(u.data, u.full) = Msg(scr, r)
      /\ \A c \in Chunks : ~Due(u, c)
      /\ Finished(u, r) = r
      /\ u.base = t.base
  BY <1>2, <1>3, <1>4, EndsWith
<1> HIDE DEF u
<1>6. \A c \in Chunks : ~Due(s, c)
  BY <1>2 DEF Due, Phase, Chunks
<1>7. Finished(s, r) = r - 1
  BY DEF Finished, Phase
<1>8. EndsReceive(s, u, e, r, scr)
  BY <1>2, <1>4, <1>5, <1>6, <1>7 DEF EndsReceive
<1> QED
  BY <1>8 DEF u, t

-----------------------------------------------------------------------------
(* A chunk arrives.                                                        *)

\* The object s with the message m, come for chunk c.
With(s, c, m) ==
    [s EXCEPT !.req[c] = "arrived",
              !.data = Landed(s, c, m.data),
              !.trailer = [seq |-> m.seq, full |-> m.full]]

\* What the chunk is, and what the buffer holds when it has landed.
LEMMA Lands ==
    ASSUME NEW s \in EndType, NEW e, NEW r \in Nat, NEW scr, EndOK(s, e, r, scr),
           OperationOK(scr[r]), NEW c \in Chunks,
           s.base = "recv", s.req[c] = "active"
    PROVE  LET m == Part(scr, c, r)
           IN  /\ m \in Message /\ m.full = scr[r].size
               /\ Landed(s, c, m.data) \in Payload
               /\ c = 0 => /\ m.seq = 0
                           /\ Landed(s, c, m.data) = Part(scr, 0, r).data
               /\ c = 1 => /\ m.seq = 1
                           /\ Landed(s, c, m.data) = Msg(scr, r)
<1> DEFINE op == scr[r]
<1>1. op.size \in Nat /\ op.limits[1] \in Nat
  BY DEF OperationOK
<1>2. /\ Msg(scr, r) \in Payload
      /\ Part(scr, 0, r) \in Message /\ Part(scr, 0, r).seq = 0
      /\ Part(scr, 0, r).full = op.size
      /\ op.size > op.limits[1] =>
            /\ Len(Part(scr, 0, r).data) = op.limits[1]
            /\ Part(scr, 1, r) \in Message /\ Part(scr, 1, r).seq = 1
            /\ Part(scr, 1, r).full = op.size
            /\ Part(scr, 0, r).data \o Part(scr, 1, r).data = Msg(scr, r)
  BY <1>1, PartFacts
<1>3. Part(scr, 0, r).data \in Payload
  BY <1>2 DEF Message
<1>4. CASE c = 0
  <2>1. Landed(s, 0, Part(scr, 0, r).data) = Part(scr, 0, r).data
    BY DEF Landed
  <2> QED
    BY <1>2, <1>3, <1>4, <2>1
<1>5. CASE c = 1
  <2>1. AwaitsRest(s, e, r, scr)
    BY <1>5, Receives
  <2>2. /\ s.data = Part(scr, 0, r).data /\ op.size > op.limits[1]
        /\ s.limit = op.limits[2]
    BY <1>5, <2>1 DEF AwaitsRest
  <2>3. s.limit = op.limits[1]
    BY <2>2 DEF OperationOK
  <2>4. Items(s.data, s.limit) = s.data
    <3>1. s.data \in Payload /\ s.limit = Len(s.data) /\ s.limit \in Nat
      BY <1>1, <1>2, <1>3, <2>2, <2>3
    <3> QED
      BY <3>1, ItemsAll
  <2>5. Landed(s, 1, Part(scr, 1, r).data)
           = Part(scr, 0, r).data \o Part(scr, 1, r).data
    <3>1. Landed(s, 1, Part(scr, 1, r).data)
             = Items(s.data, s.limit) \o Part(scr, 1, r).data
      BY DEF Landed
    <3> QED
      BY <3>1, <2>2, <2>4, Zenon
  <2>6. Landed(s, 1, Part(scr, 1, r).data) = Msg(scr, r)
    BY <1>2, <2>2, <2>5, Zenon
  <2>7. c # 0
    BY <1>5
  <2> QED
    BY <1>2, <1>5, <2>2, <2>6, <2>7, Zenon
<1> QED
  BY <1>4, <1>5 DEF Chunks

LEMMA ChunkComes ==
    ASSUME NEW s \in EndType, NEW e, NEW r \in Nat, NEW scr, EndOK(s, e, r, scr),
           OperationOK(scr[r]), NEW c \in Chunks,
           s.base = "recv", s.req[c] = "active"
    PROVE  LET t == With(s, c, Part(scr, c, r))
           IN  /\ t \in EndType /\ EndOK(t, e, r, scr)
               /\ Due(s, c) /\ ~Due(t, c)
               /\ \A b \in Chunks : b # c => (Due(t, b) <=> Due(s, b))
               /\ Finished(t, r) = Finished(s, r)
               /\ Uses(scr, PeerOf[e], c, r) /\ r >= 1
               /\ t.at = s.at /\ t.next = s.next /\ t.base = s.base
               /\ t.full = s.full /\ t.limit = s.limit
               /\ t.held = s.held /\ t.cap = s.cap
               /\ s.next # "none"
               /\ Phase(t) = Phase(s)
               /\ Phase(s) = IF c = 0 THEN "recv_check0" ELSE "recv_check1"
<1> DEFINE m == Part(scr, c, r)
           t == With(s, c, m)
           land == Landed(s, c, m.data)
<1>1. /\ m \in Message /\ m.full = scr[r].size
      /\ land \in Payload
      /\ c = 0 => m.seq = 0 /\ land = Part(scr, 0, r).data
      /\ c = 1 => m.seq = 1 /\ land = Msg(scr, r)
  BY Lands
<1> HIDE DEF land, m
<1>2. /\ c = 0 => AwaitsFirst(s, e, r, scr)
      /\ c = 1 => AwaitsRest(s, e, r, scr)
      /\ c = 0 \/ c = 1
      /\ r >= 1 /\ scr[r].from = PeerOf[e]
  BY Receives DEF Chunks
<1>3. m.seq \in Chunks /\ m.full \in Nat
  BY <1>1 DEF Message
<1>4. /\ t \in EndType
      /\ t.at = s.at /\ t.next = s.next /\ t.base = s.base /\ t.full = s.full
      /\ t.limit = s.limit /\ t.held = s.held /\ t.cap = s.cap
      /\ t.req = [s.req EXCEPT ![c] = "arrived"]
      /\ t.data = land
      /\ t.trailer = [seq |-> m.seq, full |-> m.full]
  BY <1>1, <1>3 DEF With, EndType, land, Payload
<1>5. /\ t.req[c] = "arrived"
      /\ \A b \in Chunks : b # c => t.req[b] = s.req[b]
      /\ 0 \in Chunks /\ 1 \in Chunks
  BY <1>4 DEF EndType, Chunks
<1> HIDE DEF t
<1>6. EndOK(t, e, r, scr)
  <2>1. CASE c = 0
    <3>1. AwaitsFirst(t, e, r, scr)
      BY <2>1, <1>1, <1>2, <1>4, <1>5 DEF AwaitsFirst
    <3> QED
      BY <3>1 DEF EndOK
  <2>2. CASE c = 1
    <3>1. AwaitsRest(t, e, r, scr)
      BY <2>2, <1>1, <1>2, <1>4, <1>5 DEF AwaitsRest
    <3> QED
      BY <3>1 DEF EndOK
  <2> QED
    BY <2>1, <2>2, <1>2
<1>7. /\ Phase(t) = Phase(s)
      /\ Phase(s) = IF c = 0 THEN "recv_check0" ELSE "recv_check1"
      /\ s.next # "none"
  BY <1>2, <1>4 DEF Phase, AwaitsFirst, AwaitsRest
<1>8. /\ Due(s, c) /\ ~Due(t, c)
      /\ \A b \in Chunks : b # c => (Due(t, b) <=> Due(s, b))
      /\ Finished(t, r) = Finished(s, r)
  BY <1>5, <1>7 DEF Due, Finished, Chunks
<1>9. Uses(scr, PeerOf[e], c, r)
  BY <1>2 DEF Uses, AwaitsRest
<1> QED
  BY <1>2, <1>4, <1>6, <1>7, <1>8, <1>9 DEF t, m

-----------------------------------------------------------------------------
(* An operation begins.                                                    *)

\* The object v, set up by its owner, in a receive it begins.
ReceiveBegun(v) ==
    [resizeBuffer(v, getNumberOfFlexData(v.limit) + 2) EXCEPT
        !.base = "recv", !.next = "recv_start", !.full = 0,
        !.req[0] = "active", !.at = "recv_check0"]

LEMMA ReceiveBegins ==
    ASSUME NEW v \in EndType, NEW e, NEW k \in Nat, NEW scr, Resting(v), k >= 1,
           scr[k].from = PeerOf[e], v.limit = scr[k].limits[2]
    PROVE  LET t == ReceiveBegun(v)
           IN  /\ t \in EndType /\ EndOK(t, e, k, scr)
               /\ \A c \in Chunks : Due(t, c)
               /\ Finished(t, k) = k - 1
               /\ t.at = "recv_check0" /\ t.next = "recv_start" /\ t.base = "recv"
               /\ t.limit = v.limit
               /\ getNumberOfFlexData(t.limit) + 2 <= t.cap
               /\ (v.held \/ v.cap = 0) => t.held = TRUE
<1> DEFINE need == getNumberOfFlexData(v.limit) + 2
           u == resizeBuffer(v, need)
           t == ReceiveBegun(v)
<1>1. need \in Nat /\ need > 0
  <2>1. v.limit \in Nat
    BY DEF EndType
  <2> QED
    BY <2>1, FlexHolds
<1>2. v.req[0] = "null" /\ v.req[1] = "null"
  BY DEF Resting, Chunks
<1>3. t = [u EXCEPT !.base = "recv", !.next = "recv_start", !.full = 0,
                    !.req[0] = "active", !.at = "recv_check0"]
  BY DEF ReceiveBegun
<1> HIDE DEF need, t
<1>4. /\ u \in EndType /\ u.limit = v.limit /\ u.req = v.req
      /\ u.cap \in Nat /\ need <= u.cap
      /\ (v.held \/ v.cap = 0) => u.held = TRUE
  BY <1>1, ResizedType
<1> HIDE DEF u
<1>5. /\ t \in EndType /\ t.base = "recv" /\ t.next = "recv_start"
      /\ t.at = "recv_check0" /\ t.req = [v.req EXCEPT ![0] = "active"]
      /\ t.limit = v.limit /\ t.cap = u.cap /\ t.held = u.held
  BY <1>3, <1>4 DEF EndType, TaskOps, Chunks
<1>6. t.req[0] = "active" /\ t.req[1] = "null"
  BY <1>2, <1>5 DEF EndType, Chunks
<1>7. AwaitsFirst(t, e, k, scr)
  BY <1>5, <1>6 DEF AwaitsFirst
<1>8. /\ \A c \in Chunks : Due(t, c)
      /\ Finished(t, k) = k - 1
  BY <1>5, <1>6 DEF Due, Finished, Phase
<1>9. EndOK(t, e, k, scr)
  BY <1>7 DEF EndOK
<1> QED
  BY <1>4, <1>5, <1>8, <1>9 DEF t, need

\* The chunks of the message that end e begins to send.
LEMMA SentParts ==
    ASSUME NEW scr, NEW k \in Nat, NEW e, scr[k].from = e,
           scr[k].size \in Nat, scr[k].limits[1] \in Nat
    PROVE  LET parts == ChunksOf(Msg(scr, k), scr[k].limits[1])
               room  == FlexOf(parts[1])
                          + (IF Len(parts) = 2 THEN FlexOf(parts[2]) ELSE 0)
               need  == IF scr[k].size > scr[k].limits[1]
                        THEN (getNumberOfFlexData(scr[k].limits[1]) + 2)
                               + (getNumberOfFlexData(scr[k].size - scr[k].limits[1]) + 2)
                        ELSE getNumberOfFlexData(scr[k].size) + 2
           IN  /\ \A c \in Chunks : c < Len(parts) <=> Uses(scr, e, c, k)
               /\ \A c \in Chunks : Uses(scr, e, c, k) => Part(scr, c, k) \in Message
               /\ Len(parts) >= 1
               /\ room = need /\ need \in Nat /\ need > 0
<1> DEFINE d == Msg(scr, k)
           lim == scr[k].limits[1]
           n == scr[k].size
           parts == ChunksOf(d, lim)
<1>1. n \in Nat /\ lim \in Nat /\ d \in Payload /\ Len(d) = n
  BY PartFacts
<1>2. /\ Part(scr, 0, k) \in Message
      /\ n <= lim => Part(scr, 0, k).data = d
      /\ n > lim => /\ Len(Part(scr, 0, k).data) = lim
                    /\ Part(scr, 1, k) \in Message
                    /\ Len(Part(scr, 1, k).data) = n - lim
  BY PartFacts
<1>3. Part(scr, 0, k) = parts[1] /\ Part(scr, 1, k) = parts[2]
  BY DEF Part
<1>4. (n <= lim => Len(parts) = 1) /\ (n > lim => Len(parts) = 2)
  BY <1>1, ChunksType
<1>5. \A c \in Chunks : Uses(scr, e, c, k) <=> (c = 0 \/ n > lim)
  BY DEF Uses
<1> HIDE DEF d, lim, n, parts
<1>6. /\ \A c \in Chunks : c < Len(parts) <=> Uses(scr, e, c, k)
      /\ \A c \in Chunks : Uses(scr, e, c, k) => Part(scr, c, k) \in Message
      /\ Len(parts) >= 1
  <2>1. \A c \in Chunks : Uses(scr, e, c, k) => Part(scr, c, k) \in Message
    BY <1>1, <1>2, <1>5 DEF Chunks
  <2>2. (n <= lim \/ n > lim) /\ \A c \in Chunks : c = 0 \/ c = 1
    BY <1>1 DEF Chunks
  <2>3. \A c \in Chunks : c < Len(parts) <=> (c = 0 \/ n > lim)
    <3>1. CASE n <= lim
      <4>1. Len(parts) = 1 /\ ~(n > lim)
        BY <3>1, <1>1, <1>4
      <4> QED
        BY <4>1, <2>2
    <3>2. CASE n > lim
      <4>1. Len(parts) = 2
        BY <3>2, <1>4
      <4> QED
        BY <4>1, <3>2, <2>2
    <3> QED
      BY <3>1, <3>2, <2>2
  <2>4. Len(parts) >= 1
    <3>1. Len(parts) \in {1, 2}
      BY <2>2, <1>4
    <3>2. \A l \in {1, 2} : l >= 1
      OBVIOUS
    <3> QED
      BY <3>1, <3>2, Zenon
  <2>5. \A c \in Chunks : c < Len(parts) <=> Uses(scr, e, c, k)
    BY <1>5, <2>3
  <2> QED
    BY <2>1, <2>4, <2>5, Zenon
<1> DEFINE room == FlexOf(parts[1])
                     + (IF Len(parts) = 2 THEN FlexOf(parts[2]) ELSE 0)
           need == IF n > lim
                   THEN (getNumberOfFlexData(lim) + 2)
                          + (getNumberOfFlexData(n - lim) + 2)
                   ELSE getNumberOfFlexData(n) + 2
<1>7. room = need /\ need \in Nat /\ need > 0
  <2>1. CASE n > lim
    <3>1. /\ FlexOf(parts[1]) = getNumberOfFlexData(lim) + 2
          /\ FlexOf(parts[2]) = getNumberOfFlexData(n - lim) + 2
          /\ Len(parts) = 2
      BY <2>1, <1>2, <1>3, <1>4 DEF FlexOf
    <3>2. n - lim \in Nat
      BY <2>1, <1>1
    <3>3. getNumberOfFlexData(lim) \in Nat /\ getNumberOfFlexData(n - lim) \in Nat
      BY <3>2, <1>1, FlexHolds
    <3> QED
      BY <2>1, <3>1, <3>3
  <2>2. CASE ~(n > lim)
    <3>1. n <= lim
      BY <2>2, <1>1
    <3>2. FlexOf(parts[1]) = getNumberOfFlexData(n) + 2 /\ Len(parts) = 1
      BY <3>1, <1>1, <1>2, <1>3, <1>4 DEF FlexOf
    <3>3. getNumberOfFlexData(n) \in Nat
      BY <1>1, FlexHolds
    <3> QED
      BY <2>2, <3>2, <3>3
  <2> QED
    BY <2>1, <2>2
<1> QED
  BY <1>6, <1>7 DEF d, lim, n, parts

\* The object v, set up by its owner, in a send of n items it begins.
SendBegun(v, d, n) ==
    LET parts == ChunksOf(d, v.limit)
        room  == FlexOf(parts[1]) + (IF Len(parts) = 2 THEN FlexOf(parts[2]) ELSE 0)
    IN  [resizeBuffer(v, room) EXCEPT
            !.base = "send", !.next = "send_start", !.full = n,
            !.req = [c \in Chunks |->
                        IF c \in {b \in Chunks : b < Len(parts)} THEN "active"
                        ELSE v.req[c]],
            !.at = "send_check"]

LEMMA SendBegins ==
    ASSUME NEW v \in EndType, NEW e, NEW k \in Nat, NEW scr, Resting(v), k >= 1,
           scr[k].from = e, v.limit = scr[k].limits[1], scr[k].size \in Nat
    PROVE  LET t == SendBegun(v, Msg(scr, k), scr[k].size)
           IN  /\ t \in EndType /\ EndOK(t, e, k, scr)
               /\ \A c \in Chunks : ~Due(t, c)
               /\ Finished(t, k) = k
               /\ t.at = "send_check" /\ t.next = "send_start" /\ t.base = "send"
               /\ t.limit = v.limit /\ t.full = scr[k].size
               /\ Room(t) <= t.cap * ItemsPerFlex
               /\ (v.held \/ v.cap = 0) => t.held = TRUE
<1> DEFINE n == v.limit
           size == scr[k].size
           parts == ChunksOf(Msg(scr, k), n)
           room == FlexOf(parts[1])
                     + (IF Len(parts) = 2 THEN FlexOf(parts[2]) ELSE 0)
           u == resizeBuffer(v, room)
           q == [c \in Chunks |-> IF c \in {b \in Chunks : b < Len(parts)} THEN "active"
                                  ELSE v.req[c]]
           t == SendBegun(v, Msg(scr, k), size)
           need == IF size > n
                   THEN (getNumberOfFlexData(n) + 2) + (getNumberOfFlexData(size - n) + 2)
                   ELSE getNumberOfFlexData(size) + 2
<1>1. n \in Nat
  BY DEF EndType
<1>2. room = need /\ need \in Nat /\ need > 0
  BY <1>1, SentParts
<1>3. q \in [Chunks -> {"null", "active", "arrived"}]
  BY DEF EndType
<1>4. t = [u EXCEPT !.base = "send", !.next = "send_start", !.full = size,
                    !.req = q, !.at = "send_check"]
  BY DEF SendBegun
<1> HIDE DEF parts, room, need, t, q
<1>5. /\ u \in EndType /\ u.limit = n
      /\ u.cap \in Nat /\ need <= u.cap
      /\ (v.held \/ v.cap = 0) => u.held = TRUE
  BY <1>2, ResizedType
<1> HIDE DEF u
<1>6. /\ t \in EndType /\ t.base = "send" /\ t.next = "send_start"
      /\ t.at = "send_check" /\ t.full = size
      /\ t.limit = n /\ t.cap = u.cap /\ t.held = u.held
  BY <1>3, <1>4, <1>5 DEF EndType, TaskOps
<1>7. EndOK(t, e, k, scr)
  BY <1>6 DEF EndOK, Sending
<1>8. Room(t) <= t.cap * ItemsPerFlex
  <2>1. Room(t) = need * ItemsPerFlex
    BY <1>6 DEF Room, need
  <2> QED
    BY <2>1, <1>2, <1>5, <1>6, PeerAssumption
<1>9. (\A c \in Chunks : ~Due(t, c)) /\ Finished(t, k) = k
  BY <1>6 DEF Due, Finished, Phase
<1> QED
  BY <1>5, <1>6, <1>7, <1>8, <1>9 DEF t

-----------------------------------------------------------------------------
(***************************************************************************)
(* All ends: V gives their objects, R the operations they have begun, H    *)
(* what they have sent, C the channels; S gives the script of an end and   *)
(* its peer, of n operations.                                              *)
(***************************************************************************)
ScriptsOK(S, n) ==
    \A e \in Ends :
        /\ PeerOf[e] # e /\ S[PeerOf[e]] = S[e]
        /\ \A k \in 1 .. n : OperationOK(S[e][k])

PeersOK(V, C, H, R, S, n) ==
    /\ n \in Nat /\ ScriptsOK(S, n)
    /\ V \in [Ends -> EndType]
    /\ C \in [Ends -> [Chunks -> Seq(Message)]]
    /\ H \in [Ends -> Seq(Payload)]
    /\ R \in [Ends -> 0 .. n]
    /\ \A e \in Ends : EndOK(V[e], e, R[e], S[e])
    /\ \A e \in Ends, c \in Chunks :
          StreamOK(C[PeerOf[e]][c], PeerOf[e], c, R[PeerOf[e]],
                   Taken(V[e], c, R[e]), S[e])
    /\ \A e \in Ends : SentOK(H[e], e, R[e], S[e])

LEMMA PeerFacts ==
    ASSUME NEW V, NEW C, NEW H, NEW R, NEW S, NEW n, PeersOK(V, C, H, R, S, n),
           NEW e \in Ends
    PROVE  /\ PeerOf[e] \in Ends /\ PeerOf[e] # e /\ PeerOf[PeerOf[e]] = e
           /\ S[PeerOf[e]] = S[e]
           /\ V[e] \in EndType /\ R[e] \in Nat /\ R[e] <= n /\ n \in Nat
           /\ EndOK(V[e], e, R[e], S[e])
           /\ \A c \in Chunks : Taken(V[e], c, R[e]) \in Nat
           /\ R[e] >= 1 => OperationOK(S[e][R[e]])
<1>1. V[e] \in EndType /\ R[e] \in 0 .. n /\ n \in Nat /\ ScriptsOK(S, n)
      /\ EndOK(V[e], e, R[e], S[e])
  BY DEF PeersOK
<1>2. R[e] \in Nat /\ R[e] <= n /\ (R[e] >= 1 => R[e] \in 1 .. n)
  BY <1>1
<1>3. \A c \in Chunks : Taken(V[e], c, R[e]) \in Nat
  BY <1>1, <1>2, TakenType
<1> QED
  BY <1>1, <1>2, <1>3, PeerAssumption DEF ScriptsOK

(***************************************************************************)
(* Nothing is sent or taken.  An end goes on with its operation, or passes *)
(* one in which its pair does nothing.                                     *)
(***************************************************************************)
Passes(s, t, e, r, scr) ==
    /\ Resting(s) /\ Resting(t) /\ t \in EndType
    /\ \A c \in Chunks : ~Uses(scr, e, c, r + 1) /\ ~Uses(scr, PeerOf[e], c, r + 1)

LEMMA PeersStay ==
    ASSUME NEW V, NEW C, NEW H, NEW R, NEW S, NEW n, PeersOK(V, C, H, R, S, n),
           NEW W \in [Ends -> EndType], NEW Q \in [Ends -> 0 .. n],
           \A e \in Ends :
              \/ Q[e] = R[e] /\ StaysOK(V[e], W[e], e, R[e], S[e])
              \/ Q[e] = R[e] + 1 /\ Passes(V[e], W[e], e, R[e], S[e])
    PROVE  PeersOK(W, C, H, Q, S, n)
<1>1. ASSUME NEW e \in Ends
      PROVE  /\ EndOK(W[e], e, Q[e], S[e])
             /\ SentOK(H[e], e, Q[e], S[e])
             /\ \A c \in Chunks :
                   \/ Taken(W[e], c, Q[e]) = Taken(V[e], c, R[e])
                   \/ /\ Taken(W[e], c, Q[e]) = Taken(V[e], c, R[e]) + 1
                      /\ ~Uses(S[e], PeerOf[e], c, Taken(V[e], c, R[e]) + 1)
             /\ \/ Q[e] = R[e]
                \/ /\ Q[e] = R[e] + 1
                   /\ \A c \in Chunks : ~Uses(S[e], e, c, R[e] + 1)
  <2>1. R[e] \in Nat /\ SentOK(H[e], e, R[e], S[e])
    BY PeerFacts DEF PeersOK
  <2>2. CASE Q[e] = R[e] /\ StaysOK(V[e], W[e], e, R[e], S[e])
    <3>1. \A c \in Chunks : Taken(W[e], c, Q[e]) = Taken(V[e], c, R[e])
      BY <2>2 DEF Taken, StaysOK
    <3>2. EndOK(W[e], e, Q[e], S[e])
      BY <2>2 DEF StaysOK
    <3>3. SentOK(H[e], e, Q[e], S[e])
      BY <2>1, <2>2
    <3>4. \A c \in Chunks :
             \/ Taken(W[e], c, Q[e]) = Taken(V[e], c, R[e])
             \/ /\ Taken(W[e], c, Q[e]) = Taken(V[e], c, R[e]) + 1
                /\ ~Uses(S[e], PeerOf[e], c, Taken(V[e], c, R[e]) + 1)
      BY <3>1, Zenon
    <3>5. Q[e] = R[e]
      BY <2>2
    <3> QED
      BY <3>2, <3>3, <3>4, <3>5, Zenon
  <2>3. CASE Q[e] = R[e] + 1 /\ Passes(V[e], W[e], e, R[e], S[e])
    <3>1. \A c \in Chunks :
             Taken(W[e], c, Q[e]) = R[e] + 1 /\ Taken(V[e], c, R[e]) = R[e]
      BY <2>3, AtRest DEF Passes
    <3>2. SentOK(H[e], e, Q[e], S[e])
      <4>1. ~Uses(S[e], e, 0, R[e] + 1)
        BY <2>3 DEF Passes, Chunks
      <4> QED
        BY <4>1, <2>1, <2>3, SentWaits
    <3>3. EndOK(W[e], e, Q[e], S[e])
      BY <2>3 DEF Passes, EndOK
    <3>4. \A c \in Chunks :
             /\ ~Uses(S[e], e, c, R[e] + 1)
             /\ ~Uses(S[e], PeerOf[e], c, R[e] + 1)
      BY <2>3 DEF Passes
    <3>5. \A c \in Chunks : Taken(V[e], c, R[e]) + 1 = R[e] + 1
      BY <3>1
    <3>6. \A c \in Chunks :
             /\ Taken(W[e], c, Q[e]) = Taken(V[e], c, R[e]) + 1
             /\ ~Uses(S[e], PeerOf[e], c, Taken(V[e], c, R[e]) + 1)
      <4> TAKE c \in Chunks
      <4>1. Taken(V[e], c, R[e]) = R[e] /\ Taken(W[e], c, Q[e]) = R[e] + 1
        BY <3>1
      <4>2. ~Uses(S[e], PeerOf[e], c, R[e] + 1)
        BY <3>4
      <4> QED
        BY ONLY <4>1, <4>2, Zenon
    <3> QED
      BY <3>2, <3>3, <3>4, <3>6, <2>3
  <2> QED
    BY <2>2, <2>3
<1>2. ASSUME NEW e \in Ends, NEW c \in Chunks
      PROVE  StreamOK(C[PeerOf[e]][c], PeerOf[e], c, Q[PeerOf[e]],
                      Taken(W[e], c, Q[e]), S[e])
  <2> DEFINE p == PeerOf[e]
             q == C[p][c]
             t == Taken(V[e], c, R[e])
             u == Taken(W[e], c, Q[e])
  <2>1. p \in Ends /\ S[p] = S[e] /\ t \in Nat
    BY PeerFacts
  <2>6. R[p] \in Nat
    BY <2>1, PeerFacts
  <2>7. StreamOK(q, p, c, R[p], t, S[e])
    BY DEF PeersOK
  <2>2. u = t \/ (u = t + 1 /\ ~Uses(S[e], p, c, t + 1))
    BY <1>1
  <2>3. Q[p] = R[p] \/ (Q[p] = R[p] + 1 /\ ~Uses(S[e], p, c, R[p] + 1))
    BY <1>1, <2>1
  <2> HIDE DEF p, q, t, u
  <2>4. StreamOK(q, p, c, R[p], u, S[e]) /\ u \in Nat
    BY <2>1, <2>2, <2>6, <2>7, StreamSkips
  <2>5. StreamOK(q, p, c, Q[p], u, S[e])
    BY <2>1, <2>3, <2>4, <2>6, StreamWaits
  <2> QED
    BY <2>5 DEF p, q, u
<1> QED
  BY <1>1, <1>2 DEF PeersOK

\* Only end e moves.
LEMMA PeerStays ==
    ASSUME NEW V, NEW C, NEW H, NEW R, NEW S, NEW n, PeersOK(V, C, H, R, S, n),
           NEW e \in Ends, NEW t, StaysOK(V[e], t, e, R[e], S[e])
    PROVE  PeersOK([V EXCEPT ![e] = t], C, H, R, S, n)
<1> DEFINE W == [V EXCEPT ![e] = t]
<1>1. V \in [Ends -> EndType] /\ R \in [Ends -> 0 .. n]
  BY DEF PeersOK
<1>2. W \in [Ends -> EndType]
  BY <1>1 DEF StaysOK
<1>3. ASSUME NEW x \in Ends PROVE StaysOK(V[x], W[x], x, R[x], S[x])
  <2>1. CASE x = e
    BY <2>1, <1>1
  <2>2. CASE x # e
    <3>1. W[x] = V[x] /\ V[x] \in EndType /\ EndOK(V[x], x, R[x], S[x])
      BY <2>2, <1>1, PeerFacts
    <3> QED
      BY <3>1 DEF StaysOK
  <2> QED
    BY <2>1, <2>2
<1> HIDE DEF W
<1>4. PeersOK(W, C, H, R, S, n)
  BY <1>1, <1>2, <1>3, PeersStay
<1> QED
  BY <1>4 DEF W

(***************************************************************************)
(* End e moves, and the channels between it and its peer with it.          *)
(***************************************************************************)
EndMoves(V, C, H, R, W, D, G, Q, S, n, e) ==
    /\ W \in [Ends -> EndType]
    /\ D \in [Ends -> [Chunks -> Seq(Message)]]
    /\ G \in [Ends -> Seq(Payload)]
    /\ Q \in [Ends -> 0 .. n]
    /\ \A x \in Ends : x # e => W[x] = V[x] /\ G[x] = H[x] /\ Q[x] = R[x]
    /\ \A x \in Ends : x # e /\ x # PeerOf[e] => D[x] = C[x]
    /\ EndOK(W[e], e, Q[e], S[e])
    /\ SentOK(G[e], e, Q[e], S[e])
    /\ \A c \in Chunks :
          /\ StreamOK(D[PeerOf[e]][c], PeerOf[e], c, R[PeerOf[e]],
                      Taken(W[e], c, Q[e]), S[e])
          /\ StreamOK(D[e][c], e, c, Q[e],
                      Taken(V[PeerOf[e]], c, R[PeerOf[e]]), S[e])

LEMMA OneMoves ==
    ASSUME NEW V, NEW C, NEW H, NEW R, NEW S, NEW n, PeersOK(V, C, H, R, S, n),
           NEW e \in Ends, NEW W, NEW D, NEW G, NEW Q,
           EndMoves(V, C, H, R, W, D, G, Q, S, n, e)
    PROVE  PeersOK(W, D, G, Q, S, n)
<1> DEFINE p == PeerOf[e]
<1> USE DEF EndMoves
<1>1. p \in Ends /\ p # e /\ PeerOf[p] = e /\ S[p] = S[e]
  BY PeerFacts
<1>2. ASSUME NEW x \in Ends
      PROVE  EndOK(W[x], x, Q[x], S[x]) /\ SentOK(G[x], x, Q[x], S[x])
  <2>1. CASE x = e
    BY <2>1
  <2>2. CASE x # e
    BY <2>2 DEF PeersOK
  <2> QED
    BY <2>1, <2>2
<1>3. ASSUME NEW x \in Ends, NEW c \in Chunks
      PROVE  StreamOK(D[PeerOf[x]][c], PeerOf[x], c, Q[PeerOf[x]],
                      Taken(W[x], c, Q[x]), S[x])
  <2>1. CASE x = e
    <3>1. Q[p] = R[p]
      BY <1>1
    <3>2. StreamOK(D[p][c], p, c, R[p], Taken(W[e], c, Q[e]), S[e])
      OBVIOUS
    <3> QED
      BY <2>1, <3>1, <3>2
  <2>2. CASE x = p
    <3>1. Q[p] = R[p] /\ W[p] = V[p]
      BY <1>1
    <3>2. StreamOK(D[e][c], e, c, Q[e], Taken(V[p], c, R[p]), S[e])
      OBVIOUS
    <3> QED
      BY <2>2, <1>1, <3>1, <3>2
  <2>3. CASE x # e /\ x # p
    <3>1. /\ PeerOf[x] \in Ends /\ PeerOf[x] # e /\ PeerOf[x] # p
          /\ W[x] = V[x] /\ Q[x] = R[x]
      <4>1. PeerOf[x] \in Ends /\ PeerOf[PeerOf[x]] = x
        BY PeerFacts
      <4> QED
        BY <4>1, <1>1, <2>3
    <3>2. Q[PeerOf[x]] = R[PeerOf[x]] /\ D[PeerOf[x]] = C[PeerOf[x]]
      BY <3>1
    <3>3. StreamOK(C[PeerOf[x]][c], PeerOf[x], c, R[PeerOf[x]],
                   Taken(V[x], c, R[x]), S[x])
      BY DEF PeersOK
    <3> QED
      BY <3>1, <3>2, <3>3
  <2> QED
    BY <2>1, <2>2, <2>3
<1> QED
  BY <1>2, <1>3 DEF PeersOK

\* The channels between an end and its peer.
LEMMA PeerChannels ==
    ASSUME NEW V, NEW C, NEW H, NEW R, NEW S, NEW n, PeersOK(V, C, H, R, S, n),
           NEW e \in Ends, NEW c \in Chunks
    PROVE  /\ C[e][c] \in Seq(Message) /\ C[PeerOf[e]][c] \in Seq(Message)
           /\ StreamOK(C[PeerOf[e]][c], PeerOf[e], c, R[PeerOf[e]],
                       Taken(V[e], c, R[e]), S[e])
           /\ StreamOK(C[e][c], e, c, R[e],
                       Taken(V[PeerOf[e]], c, R[PeerOf[e]]), S[e])
           /\ R[PeerOf[e]] \in Nat
           /\ Taken(V[PeerOf[e]], c, R[PeerOf[e]]) \in Nat
           /\ H[e] \in Seq(Payload) /\ SentOK(H[e], e, R[e], S[e])
<1>1. PeerOf[e] \in Ends /\ PeerOf[PeerOf[e]] = e /\ S[PeerOf[e]] = S[e]
  BY PeerFacts
<1>2. R[PeerOf[e]] \in Nat /\ Taken(V[PeerOf[e]], c, R[PeerOf[e]]) \in Nat
  BY <1>1, PeerFacts
<1>3. StreamOK(C[PeerOf[PeerOf[e]]][c], PeerOf[PeerOf[e]], c, R[PeerOf[PeerOf[e]]],
               Taken(V[PeerOf[e]], c, R[PeerOf[e]]), S[PeerOf[e]])
  BY <1>1 DEF PeersOK
<1>4. StreamOK(C[PeerOf[e]][c], PeerOf[e], c, R[PeerOf[e]],
               Taken(V[e], c, R[e]), S[e])
  BY DEF PeersOK
<1>5. /\ C[e][c] \in Seq(Message) /\ C[PeerOf[e]][c] \in Seq(Message)
      /\ H[e] \in Seq(Payload) /\ SentOK(H[e], e, R[e], S[e])
  BY <1>1 DEF PeersOK
<1> QED
  BY <1>1, <1>2, <1>3, <1>4, <1>5

(***************************************************************************)
(* MPI moves a chunk to an end that has posted its receive: it is the one  *)
(* of the operation the end is in.                                         *)
(***************************************************************************)
LEMMA ChunkTaken ==
    ASSUME NEW V, NEW C, NEW H, NEW R, NEW S, NEW n, PeersOK(V, C, H, R, S, n),
           NEW e \in Ends, NEW c \in Chunks,
           V[e].base = "recv", V[e].req[c] = "active", C[PeerOf[e]][c] # <<>>
    PROVE  LET p == PeerOf[e]
               m == Head(C[p][c])
           IN  /\ m = Part(S[e], c, R[e])
               /\ R[e] >= 1 /\ R[e] <= R[p]
               /\ PeersOK([V EXCEPT ![e] = With(V[e], c, m)],
                          [C EXCEPT ![p][c] = Tail(@)], H, R, S, n)
<1> DEFINE p == PeerOf[e]
           s == V[e]
           m == Head(C[p][c])
           t == With(s, c, m)
           W == [V EXCEPT ![e] = t]
           D == [C EXCEPT ![p][c] = Tail(@)]
           r == R[e]
           scr == S[e]
<1>1. /\ p \in Ends /\ p # e /\ PeerOf[p] = e
      /\ s \in EndType /\ r \in Nat /\ EndOK(s, e, r, scr)
      /\ r >= 1 => OperationOK(scr[r])
  BY PeerFacts
<1>2. /\ C[p][c] \in Seq(Message)
      /\ StreamOK(C[p][c], p, c, R[p], Taken(s, c, r), scr)
      /\ R[p] \in Nat
  BY PeerChannels
<1>3. r >= 1 /\ OperationOK(scr[r])
  BY <1>1, Receives
<1>4. LET u == With(s, c, Part(scr, c, r))
      IN  /\ u \in EndType /\ EndOK(u, e, r, scr)
          /\ Due(s, c) /\ ~Due(u, c)
          /\ \A b \in Chunks : b # c => (Due(u, b) <=> Due(s, b))
          /\ Uses(scr, p, c, r)
  BY <1>1, <1>3, ChunkComes
<1>5. Taken(s, c, r) = r - 1 /\ r - 1 \in Nat /\ (r - 1) + 1 = r
  BY <1>1, <1>3, <1>4 DEF Taken
<1>6. /\ r <= R[p] /\ m = Part(scr, c, r)
      /\ StreamOK(Tail(C[p][c]), p, c, R[p], r, scr)
  <2>1. StreamOK(C[p][c], p, c, R[p], r - 1, scr) /\ Uses(scr, p, c, (r - 1) + 1)
    BY <1>2, <1>4, <1>5
  <2> HIDE DEF p, r, scr
  <2>2. /\ (r - 1) + 1 <= R[p]
        /\ Head(C[p][c]) = Part(scr, c, (r - 1) + 1)
        /\ StreamOK(Tail(C[p][c]), p, c, R[p], (r - 1) + 1, scr)
    BY <1>2, <1>5, <2>1, StreamGives DEF p
  <2> QED
    BY <2>2, <1>5
<1>7. /\ t \in EndType /\ EndOK(t, e, r, scr)
      /\ Due(s, c) /\ ~Due(t, c)
      /\ \A b \in Chunks : b # c => (Due(t, b) <=> Due(s, b))
  BY <1>4, <1>6
<1> HIDE DEF t, m
<1>8. /\ V \in [Ends -> EndType] /\ C \in [Ends -> [Chunks -> Seq(Message)]]
      /\ H \in [Ends -> Seq(Payload)] /\ R \in [Ends -> 0 .. n]
  BY DEF PeersOK
<1>9. W \in [Ends -> EndType] /\ W[e] = t /\ \A x \in Ends : x # e => W[x] = V[x]
  BY <1>7, <1>8
<1>10. /\ D \in [Ends -> [Chunks -> Seq(Message)]]
       /\ \A x \in Ends : x # p => D[x] = C[x]
       /\ D[p][c] = Tail(C[p][c])
       /\ \A b \in Chunks : b # c => D[p][b] = C[p][b]
  <2>1. Tail(C[p][c]) \in Seq(Message)
    BY <1>2
  <2> QED
    BY <2>1, <1>1, <1>8
<1> HIDE DEF W, D
<1>11. ASSUME NEW b \in Chunks
       PROVE  /\ StreamOK(D[p][b], p, b, R[p], Taken(W[e], b, r), scr)
              /\ StreamOK(D[e][b], e, b, r, Taken(V[p], b, R[p]), scr)
  <2>1. StreamOK(D[e][b], e, b, r, Taken(V[p], b, R[p]), scr)
    <3>1. StreamOK(C[e][b], e, b, r, Taken(V[p], b, R[p]), scr)
      BY PeerChannels
    <3> QED
      BY <3>1, <1>1, <1>10
  <2>2. CASE b = c
    <3>1. Taken(W[e], c, r) = r
      BY <1>7, <1>9 DEF Taken
    <3> QED
      BY <2>1, <2>2, <3>1, <1>6, <1>10
  <2>3. CASE b # c
    <3>1. Taken(W[e], b, r) = Taken(s, b, r) /\ D[p][b] = C[p][b]
      BY <2>3, <1>7, <1>9, <1>10 DEF Taken
    <3>2. StreamOK(C[p][b], p, b, R[p], Taken(s, b, r), scr)
      BY PeerChannels
    <3> QED
      BY <2>1, <3>1, <3>2
  <2> QED
    BY <2>2, <2>3
<1>12. SentOK(H[e], e, r, scr)
  BY DEF PeersOK
<1>13. PeersOK(W, D, H, R, S, n)
  <2>1. \A x \in Ends : x # e => W[x] = V[x] /\ H[x] = H[x] /\ R[x] = R[x]
    BY <1>9
  <2>2. \A x \in Ends : x # e /\ x # PeerOf[e] => D[x] = C[x]
    BY <1>10
  <2>3. EndOK(W[e], e, R[e], S[e])
    BY <1>7, <1>9
  <2>4. \A b \in Chunks :
           /\ StreamOK(D[PeerOf[e]][b], PeerOf[e], b, R[PeerOf[e]],
                       Taken(W[e], b, R[e]), S[e])
           /\ StreamOK(D[e][b], e, b, R[e],
                       Taken(V[PeerOf[e]], b, R[PeerOf[e]]), S[e])
    BY <1>11
  <2> QED
    <3>1. EndMoves(V, C, H, R, W, D, H, R, S, n, e)
      BY <2>1, <2>2, <2>3, <2>4, <1>8, <1>9, <1>10, <1>12 DEF EndMoves
    <3> QED
      BY <3>1, OneMoves
<1> QED
  BY <1>3, <1>6, <1>13 DEF W, D, t, m

\* A receive is over: the chunks it did not wait for were not sent.
LEMMA ReceiveEnds ==
    ASSUME NEW V, NEW C, NEW H, NEW R, NEW S, NEW n, PeersOK(V, C, H, R, S, n),
           NEW e \in Ends, NEW t, EndsReceive(V[e], t, e, R[e], S[e])
    PROVE  PeersOK([V EXCEPT ![e] = t], C, H, R, S, n)
<1> DEFINE p == PeerOf[e]
           W == [V EXCEPT ![e] = t]
           r == R[e]
<1>1. r \in Nat /\ r >= 1 /\ r - 1 \in Nat /\ (r - 1) + 1 = r
  BY PeerFacts DEF EndsReceive
<1>2. /\ V \in [Ends -> EndType] /\ C \in [Ends -> [Chunks -> Seq(Message)]]
      /\ H \in [Ends -> Seq(Payload)] /\ R \in [Ends -> 0 .. n]
  BY DEF PeersOK
<1>3. /\ W \in [Ends -> EndType] /\ W[e] = t
      /\ \A x \in Ends : x # e => W[x] = V[x] /\ H[x] = H[x] /\ R[x] = R[x]
      /\ \A x \in Ends : x # e /\ x # PeerOf[e] => C[x] = C[x]
  BY <1>2 DEF EndsReceive
<1> HIDE DEF W
<1>4. EndOK(W[e], e, R[e], S[e]) /\ SentOK(H[e], e, R[e], S[e])
  BY <1>3, PeerChannels DEF EndsReceive, EndOK, PeersOK
<1>5. ASSUME NEW b \in Chunks
      PROVE  /\ StreamOK(C[p][b], p, b, R[p], Taken(W[e], b, R[e]), S[e])
             /\ StreamOK(C[e][b], e, b, R[e], Taken(V[p], b, R[p]), S[e])
  <2>1. /\ StreamOK(C[p][b], p, b, R[p], Taken(V[e], b, R[e]), S[e])
        /\ StreamOK(C[e][b], e, b, R[e], Taken(V[p], b, R[p]), S[e])
        /\ R[p] \in Nat
    BY PeerChannels
  <2>2. Taken(W[e], b, R[e]) = r
    BY <1>3 DEF Taken, EndsReceive
  <2>3. CASE Due(V[e], b)
    <3>1. Taken(V[e], b, R[e]) = r - 1 /\ ~Uses(S[e], p, b, r)
      BY <2>3 DEF Taken, EndsReceive
    <3>2. ~Uses(S[e], p, b, (r - 1) + 1)
      BY <1>1, <3>1
    <3>3. StreamOK(C[p][b], p, b, R[p], r - 1, S[e])
      BY <2>1, <3>1
    <3> HIDE DEF p, r
    <3>4. StreamOK(C[p][b], p, b, R[p], (r - 1) + 1, S[e])
      BY <1>1, <2>1, <3>2, <3>3, StreamSkips
    <3> QED
      BY <1>1, <2>1, <2>2, <3>4
  <2>4. CASE ~Due(V[e], b)
    <3>1. Taken(V[e], b, R[e]) = r
      BY <2>4 DEF Taken
    <3> QED
      BY <2>1, <2>2, <3>1
  <2> QED
    BY <2>3, <2>4
<1>6. EndMoves(V, C, H, R, W, C, H, R, S, n, e)
  BY <1>2, <1>3, <1>4, <1>5 DEF EndMoves
<1>7. PeersOK(W, C, H, R, S, n)
  BY <1>6, OneMoves
<1> QED
  BY <1>7 DEF W

\* beginRecv() of end e, whose next operation is a receive.
LEMMA BeginsReceive ==
    ASSUME NEW V, NEW C, NEW H, NEW R, NEW S, NEW n, PeersOK(V, C, H, R, S, n),
           NEW e \in Ends, R[e] < n, Resting(V[e]),
           S[e][R[e] + 1].from = PeerOf[e],
           NEW v \in EndType, Resting(v), v.limit = S[e][R[e] + 1].limits[2]
    PROVE  PeersOK([V EXCEPT ![e] = ReceiveBegun(v)], C, H,
                   [R EXCEPT ![e] = R[e] + 1], S, n)
<1> DEFINE p == PeerOf[e]
           t == ReceiveBegun(v)
           W == [V EXCEPT ![e] = t]
           Q == [R EXCEPT ![e] = R[e] + 1]
           r == R[e]
<1>1. /\ r \in Nat /\ n \in Nat /\ r + 1 \in Nat /\ r + 1 >= 1 /\ r + 1 \in 0 .. n
      /\ p # e
  <2>1. r \in Nat /\ n \in Nat /\ p # e
    BY PeerFacts
  <2> QED
    BY <2>1
<1>2. /\ V \in [Ends -> EndType] /\ C \in [Ends -> [Chunks -> Seq(Message)]]
      /\ H \in [Ends -> Seq(Payload)] /\ R \in [Ends -> 0 .. n]
  BY DEF PeersOK
<1>3. t \in EndType /\ EndOK(t, e, r + 1, S[e]) /\ \A b \in Chunks : Due(t, b)
  BY <1>1, ReceiveBegins
<1> HIDE DEF t
<1>4. /\ W \in [Ends -> EndType] /\ W[e] = t
      /\ Q \in [Ends -> 0 .. n] /\ Q[e] = r + 1
      /\ \A x \in Ends : x # e => W[x] = V[x] /\ H[x] = H[x] /\ Q[x] = R[x]
      /\ \A x \in Ends : x # e /\ x # PeerOf[e] => C[x] = C[x]
  BY <1>1, <1>2, <1>3
<1> HIDE DEF W, Q
<1>5. \A b \in Chunks : ~Uses(S[e], e, b, r + 1)
  BY <1>1 DEF Uses
<1>6. EndOK(W[e], e, Q[e], S[e]) /\ SentOK(H[e], e, Q[e], S[e])
  <2>1. SentOK(H[e], e, r, S[e])
    BY DEF PeersOK
  <2>2. SentOK(H[e], e, r + 1, S[e])
    BY <1>1, <1>5, <2>1, SentWaits DEF Chunks
  <2> QED
    BY <2>2, <1>3, <1>4
<1>7. ASSUME NEW b \in Chunks
      PROVE  /\ StreamOK(C[p][b], p, b, R[p], Taken(W[e], b, Q[e]), S[e])
             /\ StreamOK(C[e][b], e, b, Q[e], Taken(V[p], b, R[p]), S[e])
  <2>1. /\ StreamOK(C[p][b], p, b, R[p], Taken(V[e], b, R[e]), S[e])
        /\ StreamOK(C[e][b], e, b, R[e], Taken(V[p], b, R[p]), S[e])
        /\ Taken(V[p], b, R[p]) \in Nat
    BY PeerChannels
  <2>2. Taken(V[e], b, R[e]) = r
    BY AtRest
  <2>3. Taken(W[e], b, Q[e]) = r
    BY <1>1, <1>3, <1>4 DEF Taken
  <2>4. StreamOK(C[e][b], e, b, r + 1, Taken(V[p], b, R[p]), S[e])
    BY <1>1, <1>5, <2>1, StreamWaits
  <2> QED
    BY <1>4, <2>1, <2>2, <2>3, <2>4
<1>8. EndMoves(V, C, H, R, W, C, H, Q, S, n, e)
  BY <1>2, <1>4, <1>6, <1>7 DEF EndMoves
<1>9. PeersOK(W, C, H, Q, S, n)
  BY <1>8, OneMoves
<1> QED
  BY <1>9 DEF W, Q, t

\* What e puts into its channels when it sends the chunks in parts.
SentOn(C, e, parts) ==
    [C EXCEPT ![e] =
       [c \in Chunks |->
          IF c \in {b \in Chunks : b < Len(parts)} THEN Append(C[e][c], parts[c + 1])
          ELSE C[e][c]]]

\* beginSend() of end e, whose next operation is a send.
LEMMA BeginsSend ==
    ASSUME NEW V, NEW C, NEW H, NEW R, NEW S, NEW n, PeersOK(V, C, H, R, S, n),
           NEW e \in Ends, R[e] < n, Resting(V[e]),
           S[e][R[e] + 1].from = e,
           NEW v \in EndType, Resting(v), v.limit = S[e][R[e] + 1].limits[1],
           NEW d, d = Data(Len(H[e]) + 1, S[e][R[e] + 1].size)
    PROVE  /\ d = Msg(S[e], R[e] + 1)
           /\ Uses(S[e], e, 0, R[e] + 1)
           /\ PeersOK([V EXCEPT ![e] = SendBegun(v, d, S[e][R[e] + 1].size)],
                      SentOn(C, e, ChunksOf(d, v.limit)),
                      [H EXCEPT ![e] = Append(@, d)],
                      [R EXCEPT ![e] = R[e] + 1], S, n)
<1> DEFINE p == PeerOf[e]
           r == R[e]
           scr == S[e]
           op == S[e][R[e] + 1]
           parts == ChunksOf(d, v.limit)
           used == {c \in Chunks : c < Len(parts)}
           t == SendBegun(v, d, op.size)
           W == [V EXCEPT ![e] = t]
           Q == [R EXCEPT ![e] = R[e] + 1]
           out == [c \in Chunks |-> IF c \in used THEN Append(C[e][c], parts[c + 1])
                                    ELSE C[e][c]]
           D == [C EXCEPT ![e] = out]
           G == [H EXCEPT ![e] = Append(@, d)]
<1>1. /\ r \in Nat /\ n \in Nat /\ r + 1 \in Nat /\ r + 1 >= 1 /\ r + 1 \in 1 .. n
      /\ p # e /\ p \in Ends
  <2>1. r \in Nat /\ n \in Nat /\ p # e /\ p \in Ends
    BY PeerFacts
  <2> QED
    BY <2>1
<1>2. /\ V \in [Ends -> EndType] /\ C \in [Ends -> [Chunks -> Seq(Message)]]
      /\ H \in [Ends -> Seq(Payload)] /\ R \in [Ends -> 0 .. n]
      /\ SentOK(H[e], e, r, scr) /\ ScriptsOK(S, n)
  BY DEF PeersOK
<1>3. op.size \in Nat /\ op.limits[1] \in Nat /\ Uses(scr, e, 0, r + 1)
  <2>1. OperationOK(op)
    BY <1>1, <1>2 DEF ScriptsOK
  <2> QED
    BY <2>1 DEF OperationOK, Uses
<1>4. d = Msg(scr, r + 1)
  <2>1. Len(H[e]) = Count(scr, e, 0, r)
    BY <1>2 DEF SentOK
  <2>2. Count(scr, e, 0, r + 1) = Count(scr, e, 0, r) + 1
    BY <1>1, <1>3, CountNext
  <2> QED
    BY <2>1, <2>2 DEF Msg
<1>5. /\ \A c \in Chunks : c \in used <=> Uses(scr, e, c, r + 1)
      /\ \A c \in Chunks : Uses(scr, e, c, r + 1) =>
            parts[c + 1] = Part(scr, c, r + 1) /\ Part(scr, c, r + 1) \in Message
  <2>1. parts = ChunksOf(Msg(scr, r + 1), scr[r + 1].limits[1])
    BY <1>4
  <2>2. /\ \A c \in Chunks : c < Len(parts) <=> Uses(scr, e, c, r + 1)
        /\ \A c \in Chunks : Uses(scr, e, c, r + 1) => Part(scr, c, r + 1) \in Message
    <3> HIDE DEF parts
    <3> QED
      BY <1>1, <1>3, <2>1, SentParts
  <2>3. \A c \in Chunks : parts[c + 1] = Part(scr, c, r + 1)
    BY <2>1 DEF Part
  <2> QED
    BY <2>2, <2>3
<1>6. Msg(scr, r + 1) \in Payload
  BY <1>1, <1>3, PartFacts
<1>7. t \in EndType /\ EndOK(t, e, r + 1, scr) /\ \A b \in Chunks : ~Due(t, b)
  <2>1. t = SendBegun(v, Msg(scr, r + 1), scr[r + 1].size)
    BY <1>4
  <2> HIDE DEF t
  <2> QED
    BY <1>1, <1>3, <2>1, SendBegins
<1> HIDE DEF t, parts, used
<1>8. /\ W \in [Ends -> EndType] /\ W[e] = t
      /\ Q \in [Ends -> 0 .. n] /\ Q[e] = r + 1
      /\ G \in [Ends -> Seq(Payload)] /\ G[e] = Append(H[e], d)
      /\ \A x \in Ends : x # e => W[x] = V[x] /\ G[x] = H[x] /\ Q[x] = R[x]
  BY <1>1, <1>2, <1>4, <1>6, <1>7
<1>9. ASSUME NEW c \in Chunks
      PROVE  /\ C[e][c] \in Seq(Message) /\ out[c] \in Seq(Message)
             /\ Uses(scr, e, c, r + 1) => out[c] = Append(C[e][c], Part(scr, c, r + 1))
             /\ ~Uses(scr, e, c, r + 1) => out[c] = C[e][c]
  <2>1. C[e][c] \in Seq(Message)
    BY <1>2
  <2>2. CASE Uses(scr, e, c, r + 1)
    <3>1. out[c] = Append(C[e][c], Part(scr, c, r + 1)) /\ Part(scr, c, r + 1) \in Message
      BY <2>2, <1>5
    <3>2. Append(C[e][c], Part(scr, c, r + 1)) \in Seq(Message)
      BY <2>1, <3>1, AppendProperties
    <3> QED
      BY <2>1, <2>2, <3>1, <3>2
  <2>3. CASE ~Uses(scr, e, c, r + 1)
    <3>1. out[c] = C[e][c]
      BY <2>3, <1>5
    <3> QED
      BY <2>1, <2>3, <3>1
  <2> QED
    BY <2>2, <2>3
<1>10. out \in [Chunks -> Seq(Message)]
  BY <1>9
<1> HIDE DEF out
<1>11. /\ D \in [Ends -> [Chunks -> Seq(Message)]]
       /\ D[e] = out /\ \A x \in Ends : x # e => D[x] = C[x]
  BY <1>2, <1>10
<1> HIDE DEF W, Q, G, D
<1>12. EndOK(W[e], e, Q[e], S[e]) /\ SentOK(G[e], e, Q[e], S[e])
  <2>1. H[e] \in Seq(Payload)
    BY <1>2
  <2>2. SentOK(Append(H[e], Msg(scr, r + 1)), e, r + 1, scr)
    BY <1>1, <1>2, <1>3, <1>6, <2>1, SentGrows
  <2> QED
    BY <2>2, <1>4, <1>7, <1>8
<1>13. ASSUME NEW b \in Chunks
       PROVE  /\ StreamOK(D[p][b], p, b, R[p], Taken(W[e], b, Q[e]), S[e])
              /\ StreamOK(D[e][b], e, b, Q[e], Taken(V[p], b, R[p]), S[e])
  <2>1. /\ StreamOK(C[p][b], p, b, R[p], Taken(V[e], b, R[e]), S[e])
        /\ StreamOK(C[e][b], e, b, R[e], Taken(V[p], b, R[p]), S[e])
        /\ Taken(V[p], b, R[p]) \in Nat /\ R[p] \in Nat
    BY PeerChannels
  <2>2. Taken(V[e], b, R[e]) = r
    BY AtRest
  <2>3. Taken(W[e], b, Q[e]) = r + 1
    BY <1>7, <1>8 DEF Taken
  <2>4. StreamOK(D[p][b], p, b, R[p], r + 1, scr)
    <3>1. ~Uses(scr, p, b, r + 1)
      BY <1>1 DEF Uses
    <3>2. StreamOK(C[p][b], p, b, R[p], r, scr)
      BY <2>1, <2>2
    <3>3. D[p][b] = C[p][b]
      BY <1>1, <1>11
    <3> HIDE DEF p, r, scr
    <3> QED
      BY <1>1, <2>1, <3>1, <3>2, <3>3, StreamSkips
  <2>5. StreamOK(D[e][b], e, b, r + 1, Taken(V[p], b, R[p]), scr)
    <3> DEFINE u == Taken(V[p], b, R[p])
    <3>1. StreamOK(C[e][b], e, b, r, u, scr) /\ u \in Nat /\ D[e][b] = out[b]
      BY <2>1, <1>11
    <3> HIDE DEF p, r, scr, u
    <3>4. SUFFICES StreamOK(out[b], e, b, r + 1, u, scr)
      BY <3>1 DEF u
    <3>2. CASE Uses(scr, e, b, r + 1)
      <4>1. /\ out[b] = Append(C[e][b], Part(scr, b, r + 1))
            /\ C[e][b] \in Seq(Message) /\ Part(scr, b, r + 1) \in Message
        BY <3>2, <1>5, <1>9
      <4> QED
        BY <1>1, <3>1, <3>2, <4>1, StreamGrows
    <3>3. CASE ~Uses(scr, e, b, r + 1)
      <4>1. out[b] = C[e][b]
        BY <3>3, <1>9
      <4> QED
        BY <1>1, <3>1, <3>3, <4>1, StreamWaits
    <3> QED
      BY <3>2, <3>3
  <2> QED
    BY <1>8, <2>3, <2>4, <2>5
<1>14. EndMoves(V, C, H, R, W, D, G, Q, S, n, e)
  BY <1>8, <1>11, <1>12, <1>13 DEF EndMoves
<1>15. PeersOK(W, D, G, Q, S, n)
  BY <1>14, OneMoves
<1> QED
  BY <1>3, <1>4, <1>15 DEF W, D, G, Q, t, parts, used, out, SentOn

\* Before the first operation.
LEMMA PeersStart ==
    ASSUME NEW S, NEW n \in Nat, ScriptsOK(S, n)
    PROVE  PeersOK([e \in Ends |-> NewEnd], [e \in Ends |-> [c \in Chunks |-> <<>>]],
                   [e \in Ends |-> <<>>], [e \in Ends |-> 0], S, n)
<1>1. /\ NewEnd \in EndType /\ Resting(NewEnd)
      /\ \A c \in Chunks : ~Due(NewEnd, c)
  BY DEF NewEnd, EndType, Resting, Due, Phase, Chunks, TaskOps
<1>2. \A e \in Ends : EndOK(NewEnd, e, 0, S[e])
  BY <1>1 DEF EndOK
<1>3. \A c \in Chunks : Taken(NewEnd, c, 0) = 0
  BY <1>1 DEF Taken
<1>4. \A e \in Ends, c \in Chunks : StreamOK(<<>>, PeerOf[e], c, 0, 0, S[e])
  BY CountZero DEF StreamOK
<1>5. \A e \in Ends : SentOK(<<>>, e, 0, S[e])
  BY CountZero DEF SentOK
<1> HIDE DEF NewEnd
<1> QED
  BY <1>1, <1>2, <1>3, <1>4, <1>5, PeerAssumption DEF PeersOK

\* When both ends of a pair have finished the same operations, nothing is left.
LEMMA NothingLeft ==
    ASSUME NEW V, NEW C, NEW H, NEW R, NEW S, NEW n, PeersOK(V, C, H, R, S, n),
           NEW e \in Ends, Resting(V[PeerOf[e]]), R[PeerOf[e]] = R[e],
           NEW c \in Chunks
    PROVE  C[e][c] = <<>>
<1>1. /\ C[e][c] \in Seq(Message)
      /\ StreamOK(C[e][c], e, c, R[e], Taken(V[PeerOf[e]], c, R[e]), S[e])
  BY PeerChannels
<1>2. Taken(V[PeerOf[e]], c, R[e]) = R[e]
  BY AtRest
<1>3. Count(S[e], e, c, R[e]) \in Nat
  BY PeerFacts, CountType
<1>4. Len(C[e][c]) = 0
  BY <1>1, <1>2, <1>3 DEF StreamOK
<1> QED
  BY <1>1, <1>4, EmptySeq

(***************************************************************************)
(* No receive is truncated: the chunk that MPI will match with a posted    *)
(* receive is no longer than what it was posted for.                       *)
(***************************************************************************)
LEMMA ChunkFits ==
    ASSUME NEW V, NEW C, NEW H, NEW R, NEW S, NEW n, PeersOK(V, C, H, R, S, n),
           NEW e \in Ends, NEW c \in Chunks,
           V[e].base = "recv", V[e].req[c] = "active", C[PeerOf[e]][c] # <<>>
    PROVE  FlexOf(Head(C[PeerOf[e]][c])) <= Posted(V[e], c)
<1> DEFINE s == V[e]
           r == R[e]
           op == S[e][r]
           m == Head(C[PeerOf[e]][c])
<1>1. m = Part(S[e], c, r) /\ r >= 1
  <2>1. /\ Head(C[PeerOf[e]][c]) = Part(S[e], c, R[e])
        /\ R[e] >= 1 /\ R[e] <= R[PeerOf[e]]
        /\ PeersOK([V EXCEPT ![e] = With(V[e], c, Head(C[PeerOf[e]][c]))],
                   [C EXCEPT ![PeerOf[e]][c] = Tail(@)], H, R, S, n)
    BY ChunkTaken, Zenon
  <2> QED
    BY <2>1
<1>2. s \in EndType /\ EndOK(s, e, r, S[e]) /\ OperationOK(op) /\ r \in Nat
  BY <1>1, PeerFacts
<1>3. /\ op.size \in Nat /\ op.limits[1] \in Nat /\ op.limits[2] \in Nat
      /\ \/ op.limits[1] = op.limits[2]
         \/ op.size <= op.limits[1] /\ op.size <= op.limits[2]
  BY <1>2 DEF OperationOK
<1>4. /\ Len(Msg(S[e], r)) = op.size
      /\ op.size <= op.limits[1] => Part(S[e], 0, r).data = Msg(S[e], r)
      /\ op.size > op.limits[1] =>
            /\ Len(Part(S[e], 0, r).data) = op.limits[1]
            /\ Len(Part(S[e], 1, r).data) = op.size - op.limits[1]
  BY <1>2, <1>3, PartFacts
<1>5. CASE c = 0
  <2>1. s.limit = op.limits[2]
    BY <1>2, Receives
  <2>2. Len(m.data) \in Nat /\ Len(m.data) <= s.limit /\ s.limit \in Nat
    BY <1>1, <1>3, <1>4, <1>5, <2>1
  <2>3. getNumberOfFlexData(Len(m.data)) <= getNumberOfFlexData(s.limit)
    BY <2>2, FlexMonotone
  <2>4. getNumberOfFlexData(Len(m.data)) \in Nat /\ getNumberOfFlexData(s.limit) \in Nat
    BY <2>2, FlexHolds
  <2> QED
    BY <1>5, <2>3, <2>4 DEF FlexOf, Posted
<1>6. CASE c = 1
  <2>1. AwaitsRest(s, e, r, S[e])
    BY <1>2, <1>6, Receives
  <2>2. s.full = op.size /\ op.size > op.limits[1] /\ s.limit = op.limits[2]
    BY <2>1 DEF AwaitsRest
  <2>3. s.full - s.limit = Len(m.data) /\ Len(m.data) \in Nat
    BY <1>1, <1>3, <1>4, <1>6, <2>2
  <2>4. getNumberOfFlexData(Len(m.data)) \in Nat
    BY <2>3, FlexHolds
  <2> QED
    BY <1>6, <2>3, <2>4 DEF FlexOf, Posted
<1> QED
  BY <1>5, <1>6 DEF Chunks

-----------------------------------------------------------------------------
(* The methods and MPI, as steps from one object to another.               *)

LEMMA ProceedsTo ==
    ASSUME end \in [Ends -> EndType], NEW e \in Ends, NEW S, proceedToNextWait(e, S)
    PROVE  /\ end' = [end EXCEPT ![e] = Proceeding(end[e], S)]
           /\ end[e].at = "out" /\ end[e].next # "none"
           /\ S \subseteq {c \in Chunks : end[e].req[c] = "arrived"}
           /\ UNCHANGED <<chan, sent, got>>
BY DEF proceedToNextWait, Proceeding, isDone, Arrived, EndType

LEMMA TransfersTo ==
    ASSUME end \in [Ends -> EndType], NEW e \in Ends, NEW c \in Chunks, Transfer(e, c)
    PROVE  LET p == PeerOf[e]
               m == Head(chan[p][c])
           IN  /\ end' = [end EXCEPT ![e] = With(end[e], c, m)]
               /\ chan' = [chan EXCEPT ![p][c] = Tail(@)]
               /\ end[e].base = "recv" /\ end[e].req[c] = "active"
               /\ chan[p][c] # <<>>
               /\ UNCHANGED <<sent, got>>
BY DEF Transfer, With, EndType

LEMMA CompletesTo ==
    ASSUME end \in [Ends -> EndType], NEW e \in Ends, NEW c \in Chunks,
           SendCompletes(e, c)
    PROVE  /\ end' = [end EXCEPT ![e] = [end[e] EXCEPT !.req[c] = "arrived"]]
           /\ end[e].base = "send" /\ end[e].req[c] = "active"
           /\ UNCHANGED <<chan, sent, got>>
BY DEF SendCompletes, EndType

(***************************************************************************)
(* A case of a check method: the operation goes on, or a receive is over.  *)
(***************************************************************************)
LEMMA ChecksTo ==
    ASSUME NEW H, NEW R, NEW S, NEW n, NEW V, PeersOK(V, chan, H, R, S, n),
           end \in [Ends -> EndType], NEW e \in Ends, V[e] = end[e], CheckStep(e)
    PROVE  \E t \in EndType :
              /\ end' = [end EXCEPT ![e] = t]
              /\ chan' = chan /\ sent' = sent
              /\ end[e].at # "out"
              /\ \/ /\ StaysOK(end[e], t, e, R[e], S[e])
                    /\ got' = got
                    /\ Resting(t) => S[e][R[e]].from = e
                 \/ /\ EndsReceive(end[e], t, e, R[e], S[e])
                    /\ got' = [got EXCEPT ![e] = Append(@, Msg(S[e], R[e]))]
              /\ PeersOK([V EXCEPT ![e] = t], chan, H, R, S, n)
<1> DEFINE s == end[e]
           r == R[e]
           scr == S[e]
           over(t) == EndsReceive(s, t, e, r, scr)
           goes(t) == StaysOK(s, t, e, r, scr) /\ (Resting(t) => scr[r].from = e)
<1>1. s \in EndType /\ EndOK(s, e, r, scr) /\ r \in Nat
      /\ s.req \in [Chunks -> {"null", "active", "arrived"}]
      /\ 0 \in Chunks /\ 1 \in Chunks
  BY PeerFacts DEF EndType, Chunks
<1>2. ASSUME s.at \in {"recv_check0", "recv_check1"} PROVE OperationOK(scr[r])
  BY <1>1, <1>2, Receives, PeerFacts
<1>3. /\ Tested(s, {0})[0] # "null" <=> s.req[0] = "active"
      /\ Tested(s, {1})[1] # "null" <=> s.req[1] = "active"
  BY <1>1 DEF Tested
<1>4. chan' = chan /\ sent' = sent /\ s.at # "out"
  BY DEF CheckStep, send_check, recv_check0, recv_check1
<1> DEFINE to(t) ==
             /\ end' = [end EXCEPT ![e] = t]
             /\ \/ goes(t) /\ got' = got
                \/ over(t) /\ got' = [got EXCEPT ![e] = Append(@, Msg(scr, r))]
<1>5. ASSUME send_check(e) PROVE \E t : to(t)
  <2>1. s.at = "send_check" /\ end' = [end EXCEPT ![e] = SendChecked(s)] /\ got' = got
    BY <1>5 DEF send_check, SendChecked
  <2>2. StaysOK(s, SendChecked(s), e, r, scr) /\ Sending(s, e, r, scr)
    BY <1>1, <2>1, SendChecks
  <2>3. to(SendChecked(s))
    BY <2>1, <2>2 DEF Sending
  <2> HIDE DEF to
  <2> QED
    BY <2>3
<1>6. ASSUME NEW task, s.at = task,
             \/ task = "recv_check0" /\ s.req[0] = "active"
             \/ task = "recv_check1" /\ s.req[1] = "active",
             end' = [end EXCEPT ![e].next = task, ![e].at = "out"], got' = got
      PROVE  \E t : to(t)
  <2> DEFINE t == [s EXCEPT !.next = task, !.at = "out"]
  <2>1. end' = [end EXCEPT ![e] = t]
    <3>1. end' = [end EXCEPT ![e] = [[end[e] EXCEPT !.next = task] EXCEPT !.at = "out"]]
      BY <1>6
    <3>2. [[end[e] EXCEPT !.next = task] EXCEPT !.at = "out"] = t
      BY <1>1 DEF EndType
    <3> QED
      BY <3>1, <3>2, Zenon
  <2>2. StaysOK(s, t, e, r, scr) /\ t.next = task
    <3>1. EndOK(s, e, r, scr) /\ s \in EndType
      BY <1>1
    <3>2. /\ s.at = task
          /\ \/ task = "recv_check0" /\ s.req[0] = "active"
             \/ task = "recv_check1" /\ s.req[1] = "active"
      BY <1>6
    <3> HIDE DEF s, r, scr
    <3>3. StaysOK(s, [s EXCEPT !.next = task, !.at = "out"], e, r, scr)
      BY <3>1, <3>2, ChecksEarly
    <3>4. t.next = task
      BY <3>1 DEF EndType
    <3> QED
      BY <3>3, <3>4
  <2>3. task # "none"
    BY <1>6
  <2> HIDE DEF t
  <2>4. to(t)
    BY <1>6, <2>1, <2>2, <2>3 DEF Resting
  <2> HIDE DEF to
  <2> QED
    BY <2>4
<1>7. ASSUME NEW t, over(Received(t)), Finish(e, t) PROVE \E u : to(u)
  <2>1. /\ end' = [end EXCEPT ![e] = Received(t)]
        /\ got' = [got EXCEPT ![e] = Append(@, Items(t.data, t.full))]
    BY <1>7 DEF Finish, Received
  <2>2. Items(t.data, t.full) = Msg(scr, r)
    <3>1. Items(Received(t).data, Received(t).full) = Msg(scr, r)
      BY <1>7 DEF EndsReceive
    <3> QED
      BY <3>1 DEF Received
  <2>3. to(Received(t))
    BY <1>7, <2>1, <2>2
  <2> HIDE DEF to
  <2> QED
    BY <2>3
<1>8. ASSUME recv_check0(e) PROVE \E t : to(t)
  <2>1. s.at = "recv_check0" /\ OperationOK(scr[r])
    BY <1>8, <1>2 DEF recv_check0
  <2>2. CASE /\ Tested(s, {0})[0] # "null"
             /\ end' = [end EXCEPT ![e].next = "recv_check0", ![e].at = "out"]
             /\ got' = got
    BY <2>1, <2>2, <1>3, <1>6
  <2>3. CASE /\ Tested(s, {0})[0] = "null" /\ GoesOn(s)
             /\ end' = [end EXCEPT ![e] = WithRestPosted(s)] /\ got' = got
    <3>1. /\ StaysOK(s, WithRestPosted(s), e, r, scr)
          /\ WithRestPosted(s).at = "recv_check1"
      BY <2>1, <2>3, <1>1, <1>3, PostsTheRest
    <3>2. to(WithRestPosted(s))
      BY <2>3, <3>1 DEF Resting
    <3> HIDE DEF to
    <3> QED
      BY <3>2
  <2>4. CASE /\ Tested(s, {0})[0] = "null" /\ ~GoesOn(s)
             /\ Finish(e, FirstChecked(s))
    <3>1. over(Received(FirstChecked(s)))
      BY <2>1, <2>4, <1>1, <1>3, EndsWithFirst
    <3> HIDE DEF to, over
    <3> QED
      BY <2>4, <3>1, <1>7
  <2> QED
    BY <2>2, <2>3, <2>4, <1>8 DEF recv_check0, WithRestPosted, FirstChecked
<1>9. ASSUME recv_check1(e) PROVE \E t : to(t)
  <2>1. s.at = "recv_check1" /\ OperationOK(scr[r])
    BY <1>9, <1>2 DEF recv_check1
  <2>2. CASE /\ Tested(s, {1})[1] # "null"
             /\ end' = [end EXCEPT ![e].next = "recv_check1", ![e].at = "out"]
             /\ got' = got
    BY <2>1, <2>2, <1>3, <1>6
  <2>3. CASE Tested(s, {1})[1] = "null" /\ Finish(e, RestChecked(s))
    <3>1. over(Received(RestChecked(s)))
      BY <2>1, <2>3, <1>1, <1>3, EndsWithRest
    <3> HIDE DEF to, over
    <3> QED
      BY <2>3, <3>1, <1>7
  <2> QED
    BY <2>2, <2>3, <1>9 DEF recv_check1, RestChecked
<1>10. PICK t : to(t)
  <2> HIDE DEF to
  <2> QED
    BY <1>5, <1>8, <1>9 DEF CheckStep
<1>11. PeersOK([V EXCEPT ![e] = t], chan, H, R, S, n) /\ t \in EndType
  <2>1. CASE goes(t)
    BY <2>1, PeerStays DEF StaysOK
  <2>2. CASE over(t)
    BY <2>2, ReceiveEnds DEF EndsReceive
  <2> QED
    BY <1>10, <2>1, <2>2
<1> QED
  BY <1>4, <1>10, <1>11

=============================================================================
