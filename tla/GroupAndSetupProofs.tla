-------------------------- MODULE GroupAndSetupProofs --------------------------
(***************************************************************************)
(* The proofs about what processes set up for themselves (LocalSetup), and *)
(* about the collective operations that rest on it (AsyncCommGroup): the   *)
(* tree of a group is the same module, CommGroupTree, in both.             *)
(***************************************************************************)
EXTENDS AsyncCommGroup, SetupTrees, AssumedPartition, FiniteSetTheorems, SequenceTheorems,
        WellFoundedInduction, TLAPS

\* What processes set up, and when: the rest of LocalSetup.
CONSTANTS MaxSize, Setups, MaxRanks, BoxLists, Averages, MaxOwners

Setup == INSTANCE LocalSetup

-----------------------------------------------------------------------------
(* Assumed partitions: the owner of a number and the numbers of a rank.    *)

\* A quotient is the one number whose multiple is below, by less than one.
LEMMA QuotientBounds ==
    ASSUME NEW x \in Nat, NEW k \in Nat \ {0}
    PROVE  /\ x \div k \in Nat
           /\ x % k \in 0 .. k - 1
           /\ x = k * (x \div k) + (x % k)
    OBVIOUS

LEMMA QuotientUnique ==
    ASSUME NEW x \in Nat, NEW k \in Nat \ {0}, NEW q \in Int
    PROVE  x \div k = q <=> q * k <= x /\ x < (q + 1) * k
<1> DEFINE d == x \div k
           r == x % k
<1>1. d \in Nat /\ r \in 0 .. k - 1 /\ x = k * d + r
    BY QuotientBounds
<1> HIDE DEF d, r
<1>2. CASE q = d
  <2>1. q * k <= x
    BY <1>1, <1>2
  <2>2. (q + 1) * k = q * k + k
    OBVIOUS
  <2> QED
    BY <1>1, <1>2, <2>1, <2>2 DEF d
<1>3. CASE q < d
  <2>1. (q + 1) * k <= d * k
    BY <1>1, <1>3
  <2> QED
    BY <1>1, <1>3, <2>1 DEF d
<1>4. CASE q > d
  <2>1. (d + 1) * k <= q * k
    BY <1>1, <1>4
  <2> QED
    BY <1>1, <1>4, <2>1 DEF d
<1> QED
    BY <1>1, <1>2, <1>3, <1>4

-----------------------------------------------------------------------------
(* The ranks with an extra part, of 1 + E parts, and the ranks with E      *)
(* parts use up the numbers.                                               *)

Sums(a, first, last) ==
    LET E == a.parts_per_rank
        X == a.first_rank_with_1 - first
        Y == a.first_rank_with_0 - a.first_rank_with_1
    IN  /\ E \in Nat \ {0}
        /\ X \in Nat /\ Y \in Nat
        /\ first + X + Y <= last
        /\ a.rank_begin = first
        /\ a.first_rank_with_1 = first + X
        /\ a.first_rank_with_0 = first + X + Y
        /\ a.first_index_with_1 = a.index_begin + X * (1 + E)
        /\ a.index_end = a.first_index_with_1 + Y * E

LEMMA AssignmentSums ==
    ASSUME NEW n \in Nat, NEW index \in Int, NEW first \in Int, NEW last \in Int,
           first < last
    PROVE  LET a == assignToRanks(n, index, first, last)
           IN  /\ a.index_begin = index
               /\ a.index_end = index + n
               /\ Sums(a, first, last)
<1> DEFINE ranks == last - first
<1>1. ranks \in Nat \ {0}
    OBVIOUS
<1>2. CASE n <= ranks
  <2>1. 0 * (1 + 1) = 0 /\ n * 1 = n
    OBVIOUS
  <2> QED
    BY <1>1, <1>2, <2>1 DEF assignToRanks, FirstIndexWith1, Sums
<1>3. CASE n > ranks
  <2> DEFINE E == n \div ranks
             X == n % ranks
  <2>1. E \in Nat /\ X \in 0 .. ranks - 1 /\ n = ranks * E + X
    BY <1>1, QuotientBounds
  <2>2. E # 0
    <3> SUFFICES ASSUME E = 0 PROVE FALSE
        OBVIOUS
    <3> HIDE DEF E, X
    <3> QED
        BY <1>1, <1>3, <2>1
  <2> DEFINE a == assignToRanks(n, index, first, last)
  <2>3. /\ a.index_begin = index
        /\ a.index_end = index + n
        /\ a.rank_begin = first
        /\ a.parts_per_rank = E
        /\ a.first_rank_with_1 = first + X
        /\ a.first_rank_with_0 = last
        /\ a.first_index_with_1 = index + (1 + E) * X
    BY <1>3 DEF assignToRanks, FirstIndexWith1
  <2> HIDE DEF E, X, a
  <2>4. (1 + E) * X = X * (1 + E) /\ X * (1 + E) + (ranks - X) * E = X + ranks * E
    BY <1>1, <2>1
  <2>5. /\ a.first_rank_with_1 - first = X
        /\ a.first_rank_with_0 - a.first_rank_with_1 = ranks - X
    BY <2>1, <2>3
  <2>6. X * (1 + E) \in Int /\ (ranks - X) * E \in Int /\ ranks * E \in Int
    BY <1>1, <2>1
  <2>7. a.index_end = a.first_index_with_1 + (ranks - X) * E
    BY <2>1, <2>3, <2>4, <2>6
  <2>8. a.first_index_with_1 = a.index_begin + X * (1 + E)
    BY <2>3, <2>4
  <2>9. Sums(a, first, last)
    BY <1>1, <2>1, <2>2, <2>3, <2>5, <2>7, <2>8 DEF Sums
  <2> QED
    BY <2>3, <2>9 DEF a
<1> QED
    BY <1>1, <1>2, <1>3

(***************************************************************************)
(* A process finds in its list exactly the parts everybody takes it to     *)
(* own, and the owners are ranks of the interval (AssumedPartitionBox.C:   *)
(* 96-164, 500-545).  It is what EachCellOwned says of one box.            *)
(***************************************************************************)
THEOREM OwnersAgree ==
    ASSUME NEW n \in Nat, NEW index \in Int, NEW first \in Int, NEW last \in Int,
           first < last
    PROVE  LET a == assignToRanks(n, index, first, last)
           IN  \A i \in index .. index + n - 1 :
                   /\ ownerOf(a, i) \in first .. last - 1
                   /\ \A rank \in Int :
                          ownerOf(a, i) = rank <=>
                              beginOfRank(a, rank) <= i /\ i < endOfRank(a, rank)
<1> DEFINE a == assignToRanks(n, index, first, last)
           E == a.parts_per_rank
           X == a.first_rank_with_1 - first
           Y == a.first_rank_with_0 - a.first_rank_with_1
<1>1. /\ a.index_begin = index /\ a.index_end = index + n
      /\ Sums(a, first, last)
    BY AssignmentSums
<1> HIDE DEF a
<1> SUFFICES ASSUME NEW i \in index .. index + n - 1, NEW rank \in Int
             PROVE  /\ ownerOf(a, i) \in first .. last - 1
                    /\ ownerOf(a, i) = rank <=>
                          beginOfRank(a, rank) <= i /\ i < endOfRank(a, rank)
    BY DEF a
<1>2. /\ E \in Nat \ {0} /\ X \in Nat /\ Y \in Nat /\ first + X + Y <= last
      /\ a.rank_begin = first /\ a.first_rank_with_1 = first + X
      /\ a.first_rank_with_0 = first + X + Y
      /\ a.first_index_with_1 = index + X * (1 + E)
      /\ index + n = index + X * (1 + E) + Y * E
    BY <1>1 DEF Sums
<1> HIDE DEF E, X, Y
<1>3. CASE i < index + X * (1 + E)
  <2> DEFINE d == (i - index) \div (1 + E)
  <2>1. ownerOf(a, i) = first + d
    BY <1>1, <1>2, <1>3 DEF ownerOf, E
  <2>2. \A q \in Int : d = q <=> q * (1 + E) <= i - index /\ i - index < (q + 1) * (1 + E)
    BY <1>2, QuotientUnique
  <2>3. d \in Nat
    BY <1>2, QuotientBounds
  <2> HIDE DEF d
  <2>4. d < X
    <3> SUFFICES ASSUME d >= X PROVE FALSE
        BY <1>2, <2>3
    <3>1. X * (1 + E) <= d * (1 + E)
        BY <1>2, <2>3
    <3> QED
        BY <1>2, <1>3, <2>2, <2>3, <3>1
  <2>5. CASE rank >= first /\ rank < first + X
    <3>1. /\ beginOfRank(a, rank) = index + (rank - first) * (1 + E)
          /\ endOfRank(a, rank) = index + (1 + rank - first) * (1 + E)
        BY <1>1, <1>2, <2>5 DEF beginOfRank, endOfRank, E
    <3>2. d = rank - first <=> /\ (rank - first) * (1 + E) <= i - index
                               /\ i - index < (rank - first + 1) * (1 + E)
        BY <2>2
    <3>3. rank - first + 1 = 1 + rank - first
        OBVIOUS
    <3> DEFINE lo == (rank - first) * (1 + E)
               hi == (1 + rank - first) * (1 + E)
    <3>4. lo \in Int /\ hi \in Int
        BY <1>2
    <3>5. d = rank - first <=> lo <= i - index /\ i - index < hi
        BY <3>2, <3>3
    <3>6. beginOfRank(a, rank) = index + lo /\ endOfRank(a, rank) = index + hi
        BY <3>1
    <3> HIDE DEF lo, hi
    <3> QED
        BY <1>2, <2>1, <2>3, <2>4, <3>4, <3>5, <3>6
  <2>6. CASE rank < first
    BY <1>1, <1>2, <2>1, <2>3, <2>4, <2>6 DEF beginOfRank, endOfRank
  <2>7. CASE rank >= first + X
    <3>1. beginOfRank(a, rank) >= index + X * (1 + E)
      <4>1. CASE rank < first + X + Y
        <5>1. beginOfRank(a, rank) = index + X * (1 + E) + (rank - (first + X)) * E
            BY <1>1, <1>2, <2>7, <4>1 DEF beginOfRank, E
        <5>2. (rank - (first + X)) * E \in Nat
            BY <1>2, <2>7
        <5> QED
            BY <1>2, <5>1, <5>2
      <4>2. CASE rank >= first + X + Y
        <5>1. beginOfRank(a, rank) = index + X * (1 + E) + Y * E
            BY <1>1, <1>2, <2>7, <4>2 DEF beginOfRank
        <5>2. Y * E \in Nat
            BY <1>2
        <5> QED
            BY <1>2, <5>1, <5>2
      <4> QED
        BY <1>2, <4>1, <4>2
    <3>2. beginOfRank(a, rank) \in Int
        BY <1>1, <1>2, <2>7 DEF beginOfRank, E
    <3> QED
        BY <1>2, <1>3, <2>1, <2>3, <2>4, <2>7, <3>1, <3>2
  <2> QED
    BY <1>2, <2>5, <2>6, <2>7
<1>4. CASE i >= index + X * (1 + E)
  <2> DEFINE x == i - (index + X * (1 + E))
             d == x \div E
  <2>1. ownerOf(a, i) = first + X + d
    BY <1>1, <1>2, <1>4 DEF ownerOf, E
  <2>2. x \in Nat /\ x < Y * E
    BY <1>2, <1>4
  <2> HIDE DEF x
  <2>3. \A q \in Int : d = q <=> q * E <= x /\ x < (q + 1) * E
    BY <1>2, <2>2, QuotientUnique
  <2>4. d \in Nat
    BY <1>2, <2>2, QuotientBounds
  <2> HIDE DEF d
  <2>5. d < Y
    <3> SUFFICES ASSUME d >= Y PROVE FALSE
        BY <1>2, <2>4
    <3>1. Y * E <= d * E
        BY <1>2, <2>4
    <3> QED
        BY <1>2, <2>2, <2>3, <2>4, <3>1
  <2>6. CASE rank >= first + X /\ rank < first + X + Y
    <3> DEFINE q  == rank - (first + X)
               lo == q * E
               hi == (q + 1) * E
               at == index + X * (1 + E)
    <3>1. 1 + rank - (first + X) = q + 1 /\ at \in Int /\ lo \in Int /\ hi \in Int /\ q \in Int
        BY <1>2
    <3>2. beginOfRank(a, rank) = at + lo /\ endOfRank(a, rank) = at + hi
        BY <1>1, <1>2, <2>6, <3>1 DEF beginOfRank, endOfRank, E
    <3>3. d = q <=> lo <= x /\ x < hi
        BY <2>3, <3>1
    <3>4. i = at + x
        BY <1>2 DEF x
    <3>5. first + X + d = rank <=> d = q
        BY <1>2, <2>4
    <3> HIDE DEF q, lo, hi, at
    <3> QED
        BY <1>2, <2>1, <2>2, <2>4, <2>5, <3>1, <3>2, <3>3, <3>4, <3>5
  <2>7. CASE rank < first + X
    <3>1. endOfRank(a, rank) <= index + X * (1 + E)
      <4>1. CASE rank < first
        <5>1. X * (1 + E) \in Nat
            BY <1>2
        <5> QED
            BY <1>1, <1>2, <4>1, <5>1 DEF endOfRank
      <4>2. CASE rank >= first
        <5>1. endOfRank(a, rank) = index + (1 + rank - first) * (1 + E)
            BY <1>1, <1>2, <2>7, <4>2 DEF endOfRank, E
        <5>2. (1 + rank - first) * (1 + E) <= X * (1 + E)
            BY <1>2, <2>7, <4>2
        <5> QED
            BY <1>2, <5>1, <5>2
      <4> QED
        BY <1>2, <4>1, <4>2
    <3>2. endOfRank(a, rank) \in Int
        BY <1>1, <1>2, <2>7 DEF endOfRank, E
    <3> QED
        BY <1>2, <1>4, <2>1, <2>4, <2>5, <2>7, <3>1, <3>2
  <2>8. CASE rank >= first + X + Y
    <3>1. beginOfRank(a, rank) = index + n
        BY <1>1, <1>2, <2>8 DEF beginOfRank
    <3> QED
        BY <1>2, <2>1, <2>4, <2>5, <2>8, <3>1
  <2> QED
    BY <1>2, <2>6, <2>7, <2>8
<1> QED
    BY <1>2, <1>3, <1>4

-----------------------------------------------------------------------------
(* Positions and indices: root and index 0 swap places, and swap back.     *)

LEMMA PositionsAreIndices ==
    ASSUME NEW size \in Nat \ {0}, NEW root \in 0 .. size - 1, NEW i \in 0 .. size - 1
    PROVE  /\ toPosition(root, i) \in 0 .. size - 1
           /\ toPosition(root, i) = 0 <=> i = root
           /\ toIndex(root, i) \in 0 .. size - 1
           /\ toIndex(root, toPosition(root, i)) = i
           /\ toPosition(root, toIndex(root, i)) = i
    BY DEF toPosition, toIndex

\* A member is the child in a slot exactly if its position is that slot's.
LEMMA ChildPositions ==
    ASSUME NEW n \in Nat \ {0}, NEW size \in Nat \ {0}, NEW root \in 0 .. size - 1,
           NEW i \in 0 .. size - 1, NEW c \in 0 .. n - 1, NEW j \in 0 .. size - 1
    PROVE  ChildOf(n, size, root, i, c) = j <=>
               toPosition(root, i) * n + 1 + c = toPosition(root, j)
<1> DEFINE p == toPosition(root, i)
           q == toPosition(root, j)
           x == p * n + 1 + c
<1>1. p \in 0 .. size - 1 /\ q \in 0 .. size - 1
    BY PositionsAreIndices
<1>2. x \in Nat
  <2>1. p * n \in Nat
    BY <1>1
  <2> QED
    BY <2>1
<1>3. ChildOf(n, size, root, i, c) = IF x < size THEN toIndex(root, x) ELSE -1
    BY DEF ChildOf, toChildPosition, NoIndex
<1> HIDE DEF x
<1>4. CASE x < size
  <2>1. x \in 0 .. size - 1
    BY <1>2, <1>4
  <2>2. toIndex(root, x) = j <=> x = q
    BY <2>1, PositionsAreIndices
  <2> QED
    BY <1>3, <1>4, <2>2 DEF x
<1>5. CASE ~(x < size)
    BY <1>1, <1>3, <1>5 DEF x
<1> QED
    BY <1>4, <1>5

\* A position but the root's is the child of one position, in one slot.
LEMMA ParentPosition ==
    ASSUME NEW n \in Nat \ {0}, NEW pos \in Nat \ {0}
    PROVE  /\ toParent(n, pos) \in 0 .. pos - 1
           /\ \E slot \in 0 .. n - 1 : \A p \in Nat, c \in 0 .. n - 1 :
                  p * n + 1 + c = pos <=> p = toParent(n, pos) /\ c = slot
<1> DEFINE x == pos - 1
           q == x \div n
           s == x % n
<1>0. x \in Nat
    OBVIOUS
<1>1. q \in Nat /\ s \in 0 .. n - 1 /\ x = n * q + s
  <2> HIDE DEF x
  <2> QED
    BY <1>0, QuotientBounds
<1>2. toParent(n, pos) = q
    BY DEF toParent
<1>3. \A p \in Int : q = p <=> p * n <= x /\ x < (p + 1) * n
  <2> HIDE DEF x
  <2> QED
    BY <1>0, QuotientUnique
<1>4. q <= x
  <2> HIDE DEF q, s, x
  <2>1. n * q >= q
    BY <1>1
  <2> QED
    BY <1>0, <1>1, <2>1
<1> HIDE DEF q, s
<1>5. ASSUME NEW p \in Nat, NEW c \in 0 .. n - 1
      PROVE  p * n + 1 + c = pos <=> p = q /\ c = s
  <2>1. p * n \in Nat /\ q * n \in Nat /\ n * q = q * n /\ (p + 1) * n = p * n + n
    BY <1>1
  <2>2. ASSUME p * n + 1 + c = pos PROVE p = q /\ c = s
    <3>1. x = p * n + c
        BY <2>1, <2>2
    <3>2. p * n <= x /\ x < (p + 1) * n
        BY <2>1, <3>1
    <3>3. p = q
        BY <1>3, <3>2
    <3> QED
        BY <1>1, <2>1, <3>1, <3>3
  <2>3. ASSUME p = q, c = s PROVE p * n + 1 + c = pos
    BY <1>1, <2>1, <2>3
  <2> QED
    BY <2>2, <2>3
<1>6. q \in 0 .. pos - 1
    BY <1>1, <1>4
<1> QED
    BY <1>1, <1>2, <1>5, <1>6

-----------------------------------------------------------------------------
(* What a group's processes know is what each has computed.                *)

GroupKnown ==
    setup.of = "group" =>
        /\ setup.nchild \in Nat \ {0}
        /\ setup.size \in Nat \ {0}
        /\ setup.root \in 0 .. setup.size - 1
        /\ known = [i \in 0 .. setup.size - 1 |->
                        computeDependentData(setup.nchild, setup.size, setup.root, i)]

LEMMA GroupKnownInvariant == Setup!Spec => []GroupKnown
<1>1. Setup!Init => GroupKnown
    BY DEF Setup!Init, Setup!Nothing, GroupKnown
<1>2. GroupKnown /\ [Setup!Next]_(Setup!vars) => GroupKnown'
  <2> SUFFICES ASSUME GroupKnown, [Setup!Next]_(Setup!vars)
               PROVE  GroupKnown'
    OBVIOUS
  <2>1. CASE UNCHANGED Setup!vars
    BY <2>1 DEF Setup!vars, GroupKnown
  <2>2. CASE Setup!Discard
    BY <2>2 DEF Setup!Discard, Setup!Nothing, GroupKnown
  <2>3. ASSUME NEW n \in 1 .. MaxChild, NEW size \in 1 .. MaxSize, NEW root \in 0 .. size - 1,
               Setup!setGroupAndRootIndex(n, size, root)
        PROVE  GroupKnown'
    <3>1. n \in Nat \ {0} /\ size \in Nat \ {0}
        OBVIOUS
    <3>2. /\ setup'.nchild = n /\ setup'.size = size /\ setup'.root = root
          /\ known' = [i \in 0 .. size - 1 |-> computeDependentData(n, size, root, i)]
      <4>1. ASSUME NEW i
            PROVE  Setup!computeDependentData(n, size, root, i) = computeDependentData(n, size, root, i)
        BY DEF Setup!computeDependentData, Setup!ParentOf, Setup!ChildOf, Setup!BranchSize,
               Setup!toPosition, Setup!toIndex, Setup!toParent, Setup!toChildPosition,
               Setup!toOldest, Setup!toYoungest, Setup!Slots, Setup!NoIndex,
               computeDependentData, ParentOf, ChildOf, BranchSize, toPosition, toIndex,
               toParent, toChildPosition, toOldest, toYoungest, Slots, NoIndex
      <4> QED
        BY <2>3, <4>1 DEF Setup!setGroupAndRootIndex
    <3> QED
        BY <3>1, <3>2 DEF GroupKnown
  <2>4. ASSUME NEW kind, NEW first, NEW last, Setup!setupTree(kind, first, last)
        PROVE  GroupKnown'
    BY <2>4 DEF Setup!setupTree, GroupKnown
  <2>5. ASSUME NEW boxes, NEW ranks, NEW index, NEW avg, Setup!partition(boxes, ranks, index, avg)
        PROVE  GroupKnown'
    BY <2>5 DEF Setup!partition, GroupKnown
  <2> QED
    BY <2>1, <2>2, <2>3, <2>4, <2>5 DEF Setup!Next
<1> QED
    BY <1>1, <1>2, PTL DEF Setup!Spec

(***************************************************************************)
(* In a group, parents and children agree (AsyncCommGroup.C:1240-1330):    *)
(* every process but the root is in one slot of the process it takes for   *)
(* its parent, and of no other.                                            *)
(***************************************************************************)
THEOREM GroupLinksAgree == Setup!Spec => [](setup.of = "group" => LinksAgree)
<1>1. ASSUME GroupKnown, setup.of = "group"
      PROVE  LinksAgree
  <2> DEFINE n    == setup.nchild
             size == setup.size
             root == setup.root
             N    == 0 .. size - 1
  <2>1. /\ n \in Nat \ {0} /\ size \in Nat \ {0} /\ root \in N
        /\ known = [i \in N |-> computeDependentData(n, size, root, i)]
    BY <1>1 DEF GroupKnown
  <2>2. Members = N /\ Root = root /\ Degree = n
    BY <1>1 DEF Members, Root, Degree
  <2>3. \A i \in N : known[i].parent = ParentOf(n, root, i)
    BY <2>1 DEF computeDependentData
  <2>4. \A i \in N, c \in 0 .. n - 1 : Child(i, c) = ChildOf(n, size, root, i, c)
    BY <1>1, <2>1 DEF Child, computeDependentData, Slots
  <2>5. setup.of # "rank tree"
    BY <1>1
  <2> HIDE DEF n, size, root
  <2> SUFFICES ASSUME NEW j \in N
               PROVE  LET places == {p \in N \X (0 .. n - 1) : Child(p[1], p[2]) = j}
                      IN  IF j = root THEN places = {} /\ known[j].parent = Invalid
                          ELSE \E c \in 0 .. n - 1 : places = {<<known[j].parent, c>>}
    BY <2>2, <2>5 DEF LinksAgree
  <2> DEFINE places == {p \in N \X (0 .. n - 1) : Child(p[1], p[2]) = j}
             pos    == toPosition(root, j)
  <2>6. \A i \in N, c \in 0 .. n - 1 :
            Child(i, c) = j <=> toPosition(root, i) * n + 1 + c = pos
    BY <2>1, <2>4, ChildPositions
  <2>7. /\ pos \in N /\ (pos = 0 <=> j = root)
        /\ \A i \in N : /\ toPosition(root, i) \in N
                        /\ toIndex(root, i) \in N
                        /\ toIndex(root, toPosition(root, i)) = i
                        /\ toPosition(root, toIndex(root, i)) = i
    BY <2>1, PositionsAreIndices
  <2>10. ASSUME NEW i \in N PROVE toPosition(root, i) \in Nat
    <3>1. toPosition(root, i) \in 0 .. size - 1
        BY <2>7
    <3> QED
        BY <2>1, <3>1
  <2> HIDE DEF pos
  <2>8. CASE j = root
    <3>1. ASSUME NEW i \in N, NEW c \in 0 .. n - 1 PROVE Child(i, c) # j
      <4>0. toPosition(root, i) \in Nat
        BY <2>10
      <4>1. toPosition(root, i) * n \in Nat
        BY <2>1, <4>0
      <4>2. toPosition(root, i) * n + 1 + c # pos
        BY <2>7, <2>8, <4>1
      <4> QED
        BY <2>6, <4>2
    <3>2. places = {}
        BY <3>1
    <3>3. known[j].parent = -1
        BY <2>3, <2>7, <2>8 DEF ParentOf, NoIndex, pos
    <3> QED
        BY <2>8, <3>2, <3>3 DEF Invalid
  <2>9. CASE j # root
    <3> DEFINE above == toParent(n, pos)
    <3>1. pos \in Nat \ {0}
        BY <2>1, <2>7, <2>9
    <3>2. above \in 0 .. pos - 1
        BY <2>1, <3>1, ParentPosition
    <3>3. PICK slot \in 0 .. n - 1 : \A p \in Nat, c \in 0 .. n - 1 :
              p * n + 1 + c = pos <=> p = above /\ c = slot
        BY <2>1, <3>1, ParentPosition
    <3>4. known[j].parent = toIndex(root, above)
        BY <2>3, <3>1 DEF ParentOf, pos
    <3> HIDE DEF above
    <3>5. above \in N
        BY <2>1, <2>7, <3>2
    <3>6. ASSUME NEW i \in N, NEW c \in 0 .. n - 1
          PROVE  Child(i, c) = j <=> i = known[j].parent /\ c = slot
      <4>0. toPosition(root, i) \in Nat
        BY <2>10
      <4>1. Child(i, c) = j <=> toPosition(root, i) = above /\ c = slot
        BY <2>6, <3>3, <4>0
      <4>2. toPosition(root, i) = above <=> i = toIndex(root, above)
        BY <2>7, <3>5
      <4> QED
        BY <3>4, <4>1, <4>2
    <3>7. known[j].parent \in N
        BY <2>7, <3>4, <3>5
    <3>8. places = {<<known[j].parent, slot>>}
        BY <3>6, <3>7
    <3> QED
        BY <2>9, <3>8
  <2> QED
    BY <2>8, <2>9
<1> QED
    BY <1>1, GroupKnownInvariant, PTL

-----------------------------------------------------------------------------
(* Naturals: least elements, and what holds of 0 and of every successor.   *)

LEMMA LeastNatural ==
    ASSUME NEW T \in SUBSET Nat, T # {}
    PROVE  \E x \in T : \A y \in T : x <= y
<1>1. \E x \in T : \A y \in T : <<y, x>> \notin OpToRel(<, Nat)
  BY WFMin, NatLessThanWellFounded, Zenon
<1>2. \A x, y \in T : <<y, x>> \in OpToRel(<, Nat) <=> y < x
  BY DEF OpToRel
<1>3. \E x \in T : \A y \in T : ~(y < x)
  BY <1>1, <1>2, Zenon
<1> QED
  BY <1>3

LEMMA AllNaturals ==
    ASSUME NEW T \in SUBSET Nat, 0 \in T, \A n \in T : n + 1 \in T
    PROVE  T = Nat
<1> SUFFICES ASSUME Nat \ T # {} PROVE FALSE
  OBVIOUS
<1>1. PICK x \in Nat \ T : \A y \in Nat \ T : x <= y
  BY LeastNatural
<1>2. x # 0 /\ x - 1 \in Nat
  BY <1>1
<1>3. x - 1 \in T
  BY <1>1, <1>2
<1> QED
  BY <1>1, <1>3

\* The same up to a bound.
LEMMA NaturalsUpTo ==
    ASSUME NEW b \in Nat, NEW T, 0 \in T, \A n \in 0 .. b - 1 : n \in T => n + 1 \in T
    PROVE  \A n \in 0 .. b : n \in T
<1> DEFINE U == {n \in Nat : n <= b => n \in T}
<1>1. \A n \in U : n + 1 \in U
  OBVIOUS
<1>2. 0 \in U
  OBVIOUS
<1>3. U = Nat
  <2> HIDE DEF U
  <2>1. U \in SUBSET Nat
    BY DEF U
  <2> QED
    BY <1>1, <1>2, <2>1, AllNaturals
<1> QED
  BY <1>3

-----------------------------------------------------------------------------
(* Sums.                                                                   *)

IsSum(h, f, n) == h = [d \in 0 .. n |-> IF d = 0 THEN 0 ELSE h[d - 1] + f[d - 1]]

LEMMA SumExists ==
    ASSUME NEW f, NEW n \in Nat
    PROVE  \E h : IsSum(h, f, n) /\ SumBelow(f, n) = h[n]
<1> DEFINE T == {m \in Nat : \E h : IsSum(h, f, m)}
<1>1. 0 \in T
  <2>1. IsSum([d \in 0 .. 0 |-> 0], f, 0)
    BY DEF IsSum
  <2> QED
    BY <2>1
<1>2. ASSUME NEW m \in T PROVE m + 1 \in T
  <2>1. PICK h : IsSum(h, f, m)
    OBVIOUS
  <2> DEFINE g == [d \in 0 .. m + 1 |-> IF d <= m THEN h[d] ELSE h[m] + f[m]]
  <2>2. ASSUME NEW d \in 0 .. m + 1
        PROVE  g[d] = IF d = 0 THEN 0 ELSE g[d - 1] + f[d - 1]
    <3>1. CASE d <= m
      <4>1. h[d] = IF d = 0 THEN 0 ELSE h[d - 1] + f[d - 1]
        BY <2>1, <3>1 DEF IsSum
      <4>2. d # 0 => d - 1 \in 0 .. m + 1 /\ d - 1 <= m
        BY <3>1
      <4> QED
        BY <3>1, <4>1, <4>2
    <3>2. CASE d = m + 1
      <4>1. d # 0 /\ d - 1 = m /\ ~(d <= m) /\ m \in 0 .. m + 1
        BY <3>2
      <4> QED
        BY <4>1
    <3> QED
      BY <3>1, <3>2
  <2>3. IsSum(g, f, m + 1)
    BY <2>2 DEF IsSum
  <2> QED
    BY <2>3
<1>3. T = Nat
  <2> HIDE DEF T
  <2>1. T \in SUBSET Nat
    BY DEF T
  <2> QED
    BY <1>1, <1>2, <2>1, AllNaturals
<1>4. \E h : IsSum(h, f, n)
  BY <1>3
<1> QED
  BY <1>4 DEF SumBelow, IsSum

LEMMA SumSteps ==
    ASSUME NEW f, NEW n \in Nat
    PROVE  /\ SumBelow(f, 0) = 0
           /\ SumBelow(f, n + 1) = SumBelow(f, n) + f[n]
<1>1. PICK o : IsSum(o, f, 0) /\ SumBelow(f, 0) = o[0]
  BY SumExists
<1>2. PICK h : IsSum(h, f, n) /\ SumBelow(f, n) = h[n]
  BY SumExists
<1>3. PICK g : IsSum(g, f, n + 1) /\ SumBelow(f, n + 1) = g[n + 1]
  BY SumExists
<1> DEFINE T == {d \in Nat : h[d] = g[d]}
<1>4. 0 \in T
  BY <1>2, <1>3 DEF IsSum
<1>5. ASSUME NEW d \in 0 .. n - 1, d \in T PROVE d + 1 \in T
  <2>1. d + 1 \in 0 .. n /\ d + 1 \in 0 .. n + 1 /\ d + 1 # 0 /\ (d + 1) - 1 = d
    OBVIOUS
  <2>2. h[d + 1] = h[d] + f[d]
    BY <1>2, <2>1 DEF IsSum
  <2>3. g[d + 1] = g[d] + f[d]
    BY <1>3, <2>1 DEF IsSum
  <2> QED
    BY <1>5, <2>2, <2>3
<1>6. n \in T
  <2> HIDE DEF T
  <2> QED
    BY <1>4, <1>5, NaturalsUpTo
<1>7. g[n + 1] = g[n] + f[n]
  <2>1. n + 1 \in 0 .. n + 1 /\ n + 1 # 0 /\ (n + 1) - 1 = n
    OBVIOUS
  <2> QED
    BY <1>3, <2>1 DEF IsSum
<1> QED
  BY <1>1, <1>2, <1>3, <1>6, <1>7 DEF IsSum

LEMMA SumInt ==
    ASSUME NEW f, NEW n \in Nat, \A c \in 0 .. n - 1 : f[c] \in Int
    PROVE  SumBelow(f, n) \in Int
<1> DEFINE T == {m \in Nat : SumBelow(f, m) \in Int}
<1>1. 0 \in T
  BY SumSteps
<1>2. ASSUME NEW m \in 0 .. n - 1, m \in T PROVE m + 1 \in T
  BY <1>2, SumSteps
<1>3. n \in T
  <2> HIDE DEF T
  <2> QED
    BY <1>1, <1>2, NaturalsUpTo
<1> QED
  BY <1>3

LEMMA SumNat ==
    ASSUME NEW f, NEW n \in Nat, \A c \in 0 .. n - 1 : f[c] \in Nat
    PROVE  /\ \A m \in 0 .. n : SumBelow(f, m) \in Nat
           /\ \A m \in 0 .. n - 1 : SumBelow(f, m) + f[m] <= SumBelow(f, n)
<1> DEFINE T == {m \in Nat : SumBelow(f, m) \in Nat}
<1>1. 0 \in T
  BY SumSteps
<1>2. ASSUME NEW m \in 0 .. n - 1, m \in T PROVE m + 1 \in T
  BY <1>2, SumSteps
<1>3. \A m \in 0 .. n : m \in T
  <2> HIDE DEF T
  <2> QED
    BY <1>1, <1>2, NaturalsUpTo
<1>4. ASSUME NEW m \in 0 .. n - 1
      PROVE  SumBelow(f, m) + f[m] <= SumBelow(f, n)
  <2> DEFINE U == {d \in Nat : d <= n - (m + 1) => SumBelow(f, m + 1) <= SumBelow(f, m + 1 + d)}
  <2>1. 0 \in U
    BY <1>3
  <2>2. ASSUME NEW d \in 0 .. (n - (m + 1)) - 1, d \in U PROVE d + 1 \in U
    <3>1. m + 1 + d \in 0 .. n - 1 /\ m + 1 + (d + 1) = (m + 1 + d) + 1
      OBVIOUS
    <3>2. SumBelow(f, (m + 1 + d) + 1) = SumBelow(f, m + 1 + d) + f[m + 1 + d]
      BY <3>1, SumSteps
    <3>3. /\ SumBelow(f, m + 1 + d) \in Nat /\ f[m + 1 + d] \in Nat /\ SumBelow(f, m + 1) \in Nat
      BY <1>3, <3>1
    <3>4. SumBelow(f, m + 1) <= SumBelow(f, m + 1 + d)
      BY <2>2
    <3> QED
      BY <3>1, <3>2, <3>3, <3>4
  <2>3. n - (m + 1) \in U
    <3> DEFINE b == n - (m + 1)
    <3>1. b \in Nat /\ b \in 0 .. b
      OBVIOUS
    <3>2. \A d \in 0 .. b - 1 : d \in U => d + 1 \in U
      BY <2>2
    <3> HIDE DEF U, b
    <3>3. \A d \in 0 .. b : d \in U
      BY <2>1, <3>1, <3>2, NaturalsUpTo
    <3>4. b \in U
      BY <3>1, <3>3
    <3> QED
      BY <3>4 DEF b
  <2>4. SumBelow(f, m + 1) <= SumBelow(f, m + 1 + (n - (m + 1)))
    BY <2>3
  <2>5. m + 1 + (n - (m + 1)) = n
    OBVIOUS
  <2> QED
    BY <2>4, <2>5, SumSteps
<1> QED
  BY <1>3, <1>4

LEMMA SumSame ==
    ASSUME NEW f, NEW g, NEW n \in Nat, \A c \in 0 .. n - 1 : f[c] = g[c]
    PROVE  SumBelow(f, n) = SumBelow(g, n)
<1> DEFINE T == {m \in Nat : SumBelow(f, m) = SumBelow(g, m)}
<1>1. 0 \in T
  BY SumSteps
<1>2. ASSUME NEW m \in 0 .. n - 1, m \in T PROVE m + 1 \in T
  BY <1>2, SumSteps
<1>3. n \in T
  <2> HIDE DEF T
  <2> QED
    BY <1>1, <1>2, NaturalsUpTo
<1> QED
  BY <1>3

\* Slots without a branch add nothing.
LEMMA SumRest ==
    ASSUME NEW f, NEW n \in Nat, NEW m \in 0 .. n, SumBelow(f, m) \in Int,
           \A c \in m .. n - 1 : f[c] = 0
    PROVE  SumBelow(f, n) = SumBelow(f, m)
<1> DEFINE T == {d \in Nat : SumBelow(f, m + d) = SumBelow(f, m)}
<1>1. 0 \in T
  OBVIOUS
<1>2. ASSUME NEW d \in 0 .. (n - m) - 1, d \in T PROVE d + 1 \in T
  <2>1. m + d \in m .. n - 1 /\ m + d \in Nat /\ m + (d + 1) = (m + d) + 1
    OBVIOUS
  <2>2. SumBelow(f, (m + d) + 1) = SumBelow(f, m + d) + f[m + d]
    BY <2>1, SumSteps
  <2> QED
    BY <1>2, <2>1, <2>2
<1>3. n - m \in T
  <2> HIDE DEF T
  <2> QED
    BY <1>1, <1>2, NaturalsUpTo
<1> QED
  BY <1>3

-----------------------------------------------------------------------------
(* Branches.                                                               *)

\* The generation below the positions from g[1] to g[2].
NextGeneration(n, size, g) ==
    <<toOldest(n, g[1]), IF g[2] < size THEN toYoungest(n, g[2]) ELSE g[2]>>

\* How many of these positions there are.
InGeneration(size, g) == (IF g[2] < size THEN g[2] ELSE size - 1) - g[1] + 1

IsGenerations(h, n, size) ==
    h = [g \in Nat \X Nat |->
            IF g[1] >= size THEN 0 ELSE InGeneration(size, g) + h[NextGeneration(n, size, g)]]

LEMMA NextGenerationFacts ==
    ASSUME NEW n \in Nat \ {0}, NEW size \in Nat, NEW g \in Nat \X Nat
    PROVE  /\ NextGeneration(n, size, g) \in Nat \X Nat
           /\ NextGeneration(n, size, g)[1] > g[1]
           /\ InGeneration(size, g) \in Int
<1>1. PICK o \in Nat, y \in Nat : g = <<o, y>>
  OBVIOUS
<1>2. o * n + 1 \in Nat /\ o * n + 1 > o
  OBVIOUS
<1>3. (y + 1) * n \in Nat
  OBVIOUS
<1> QED
  BY <1>1, <1>2, <1>3 DEF NextGeneration, toOldest, toYoungest, InGeneration

LEMMA GenerationsExist ==
    ASSUME NEW n \in Nat \ {0}, NEW size \in Nat
    PROVE  \E h : IsGenerations(h, n, size)
<1> DEFINE From(k) == {g \in Nat \X Nat : g[1] >= size - k}
           Count(h, g) ==
               IF g[1] >= size THEN 0 ELSE InGeneration(size, g) + h[NextGeneration(n, size, g)]
           T == {k \in Nat : \E h : h = [g \in From(k) |-> Count(h, g)]}
<1>1. 0 \in T
  <2> DEFINE h == [g \in From(0) |-> 0]
  <2>1. \A g \in From(0) : Count(h, g) = 0
    OBVIOUS
  <2>2. h = [g \in From(0) |-> Count(h, g)]
    BY <2>1
  <2> QED
    BY <2>2
<1>2. ASSUME NEW k \in 0 .. size - 1, k \in T PROVE k + 1 \in T
  <2>1. PICK h : h = [g \in From(k) |-> Count(h, g)]
    BY <1>2
  <2> DEFINE f == [g \in From(k + 1) |-> IF g \in From(k) THEN h[g] ELSE Count(h, g)]
  <2>2. \A g \in From(k) : h[g] = Count(h, g)
    BY <2>1
  <2>3. \A g \in From(k + 1) : f[g] = Count(h, g)
    BY <2>2
  <2>4. ASSUME NEW g \in From(k + 1) PROVE f[NextGeneration(n, size, g)] = h[NextGeneration(n, size, g)]
    <3>1. /\ NextGeneration(n, size, g) \in Nat \X Nat /\ NextGeneration(n, size, g)[1] > g[1]
          /\ g[1] \in Nat /\ NextGeneration(n, size, g)[1] \in Nat
      BY NextGenerationFacts
    <3>2. NextGeneration(n, size, g) \in From(k) /\ NextGeneration(n, size, g) \in From(k + 1)
      BY <3>1
    <3> QED
      BY <3>2
  <2>5. \A g \in From(k + 1) : f[g] = Count(f, g)
    BY <2>3, <2>4
  <2>6. f = [g \in From(k + 1) |-> Count(f, g)]
    BY <2>5
  <2>7. k + 1 \in Nat
    OBVIOUS
  <2> HIDE DEF f, Count, From
  <2> QED
    BY <2>6, <2>7
<1>3. size \in T
  <2> HIDE DEF T
  <2> QED
    BY <1>1, <1>2, NaturalsUpTo
<1>4. From(size) = Nat \X Nat
  OBVIOUS
<1> QED
  BY <1>3, <1>4 DEF IsGenerations

Generations(n, size) == CHOOSE h : IsGenerations(h, n, size)

LEMMA BranchIsGenerations ==
    ASSUME NEW n \in Nat \ {0}, NEW size \in Nat, NEW pos
    PROVE  BranchSize(n, size, pos) = Generations(n, size)[<<pos, pos>>]
BY DEF BranchSize, Generations, IsGenerations, InGeneration, NextGeneration

LEMMA GenerationsSteps ==
    ASSUME NEW n \in Nat \ {0}, NEW size \in Nat, NEW o \in Nat, NEW y \in Nat
    PROVE  Generations(n, size)[<<o, y>>] =
             IF o >= size THEN 0
             ELSE (IF y < size THEN y ELSE size - 1) - o + 1
                    + Generations(n, size)[<<o * n + 1, IF y < size THEN (y + 1) * n ELSE y>>]
<1>1. IsGenerations(Generations(n, size), n, size)
  BY GenerationsExist DEF Generations
<1>2. <<o, y>> \in Nat \X Nat
  OBVIOUS
<1> DEFINE G == Generations(n, size)
<1> HIDE DEF G
<1>3. G[<<o, y>>] = IF o >= size THEN 0
                    ELSE InGeneration(size, <<o, y>>) + G[NextGeneration(n, size, <<o, y>>)]
  BY <1>1, <1>2 DEF IsGenerations, G
<1> QED
  BY <1>3 DEF InGeneration, NextGeneration, toOldest, toYoungest, G

\* Nothing more beyond the end of the group.
LEMMA GenerationsCut ==
    ASSUME NEW n \in Nat \ {0}, NEW size \in Nat
    PROVE  \A o, y, z \in Nat :
             /\ Generations(n, size)[<<o, y>>] \in Int
             /\ o <= y \/ o >= size => Generations(n, size)[<<o, y>>] \in Nat
             /\ y >= size /\ z >= size =>
                  Generations(n, size)[<<o, y>>] = Generations(n, size)[<<o, z>>]
<1> DEFINE G == Generations(n, size)
           Fine(o) == \A y, z \in Nat :
                        /\ G[<<o, y>>] \in Int
                        /\ o <= y \/ o >= size => G[<<o, y>>] \in Nat
                        /\ y >= size /\ z >= size => G[<<o, y>>] = G[<<o, z>>]
           T == {k \in Nat : \A o \in Nat : o >= size - k => Fine(o)}
<1>1. 0 \in T
  <2>1. \A o, y \in Nat : o >= size => G[<<o, y>>] = 0
    BY GenerationsSteps
  <2> HIDE DEF G
  <2> QED
    BY <2>1
<1>2. ASSUME NEW k \in 0 .. size - 1, k \in T PROVE k + 1 \in T
  <2> SUFFICES ASSUME NEW o \in Nat, o >= size - (k + 1) PROVE Fine(o)
    OBVIOUS
  <2>1. CASE o >= size - k
    BY <1>2, <2>1
  <2>2. CASE o < size - k
    <3>0. o < size
      BY <2>2
    <3> SUFFICES ASSUME NEW y \in Nat, NEW z \in Nat
                 PROVE  /\ G[<<o, y>>] \in Int
                        /\ o <= y => G[<<o, y>>] \in Nat
                        /\ y >= size /\ z >= size => G[<<o, y>>] = G[<<o, z>>]
      BY <3>0
    <3> DEFINE p == o * n + 1
               Next1(x) == IF x < size THEN (x + 1) * n ELSE x
    <3>1. p \in Nat /\ p > o
      OBVIOUS
    <3>2. \A x \in Nat : Next1(x) \in Nat
      OBVIOUS
    <3>3. Fine(p)
      BY <1>2, <3>1
    <3>4. \A x \in Nat : G[<<o, x>>] = (IF x < size THEN x ELSE size - 1) - o + 1 + G[<<p, Next1(x)>>]
      BY <3>0, GenerationsSteps
    <3>5. o <= y => p <= Next1(y) \/ p >= size
      <4> SUFFICES ASSUME o <= y, y < size PROVE p <= (y + 1) * n
        BY <3>1
      <4>1. (y + 1) * n = y * n + n /\ o * n <= y * n /\ y * n \in Nat /\ o * n \in Nat
        OBVIOUS
      <4> QED
        BY <4>1
    <3>6. y >= size => Next1(y) = y
      OBVIOUS
    <3>7. z >= size => Next1(z) = z
      OBVIOUS
    <3> HIDE DEF p, Next1, G
    <3>8. /\ G[<<p, Next1(y)>>] \in Int
          /\ p <= Next1(y) \/ p >= size => G[<<p, Next1(y)>>] \in Nat
          /\ y >= size /\ z >= size => G[<<p, y>>] = G[<<p, z>>]
      BY <3>2, <3>3
    <3> QED
      BY <3>0, <3>4, <3>5, <3>6, <3>7, <3>8
  <2> QED
    BY <2>1, <2>2
<1>3. size \in T
  <2> HIDE DEF T
  <2> QED
    BY <1>1, <1>2, NaturalsUpTo
<1>4. \A o \in Nat : Fine(o)
  <2> HIDE DEF Fine
  <2> QED
    BY <1>3
<1> QED
  BY <1>4

\* A range of positions can be cut in two.
LEMMA GenerationsSplit ==
    ASSUME NEW n \in Nat \ {0}, NEW size \in Nat
    PROVE  \A o, m, y \in Nat :
             o <= m /\ m < y =>
               Generations(n, size)[<<o, y>>] =
                 Generations(n, size)[<<o, m>>] + Generations(n, size)[<<m + 1, y>>]
<1> DEFINE G == Generations(n, size)
           Fine(o) == \A m, y \in Nat :
                        o <= m /\ m < y => G[<<o, y>>] = G[<<o, m>>] + G[<<m + 1, y>>]
           T == {k \in Nat : \A o \in Nat : o >= size - k => Fine(o)}
<1>0. \A o, y, z \in Nat :
         /\ G[<<o, y>>] \in Int
         /\ y >= size /\ z >= size => G[<<o, y>>] = G[<<o, z>>]
         /\ o >= size => G[<<o, y>>] = 0
  <2>1. \A o, y \in Nat : o >= size => G[<<o, y>>] = 0
    BY GenerationsSteps
  <2>2. ASSUME NEW o \in Nat, NEW y \in Nat, NEW z \in Nat
        PROVE  /\ G[<<o, y>>] \in Int
               /\ y >= size /\ z >= size => G[<<o, y>>] = G[<<o, z>>]
    BY GenerationsCut
  <2> HIDE DEF G
  <2> QED
    BY <2>1, <2>2
<1>1. 0 \in T
  <2> HIDE DEF G
  <2>1. \A o \in Nat : o >= size => Fine(o)
    BY <1>0
  <2> QED
    BY <2>1
<1>2. ASSUME NEW k \in 0 .. size - 1, k \in T PROVE k + 1 \in T
  <2> SUFFICES ASSUME NEW o \in Nat, o >= size - (k + 1) PROVE Fine(o)
    OBVIOUS
  <2>1. CASE o >= size - k
    BY <1>2, <2>1
  <2>2. CASE o < size - k
    <3>0. o < size
      BY <2>2
    <3> SUFFICES ASSUME NEW m \in Nat, NEW y \in Nat, o <= m, m < y
                 PROVE  G[<<o, y>>] = G[<<o, m>>] + G[<<m + 1, y>>]
      OBVIOUS
    <3> DEFINE p == o * n + 1
               r == (m + 1) * n
               Last(x) == IF x < size THEN x ELSE size - 1
               Under(x) == IF x < size THEN (x + 1) * n ELSE x
    <3>1. p \in Nat /\ p > o /\ r \in Nat /\ size * n \in Nat /\ size * n >= size
      OBVIOUS
    <3>2. \A x \in Nat : Under(x) \in Nat /\ Last(x) \in Int
      OBVIOUS
    <3>3. Fine(p)
      BY <1>2, <3>1
    <3>4. ASSUME NEW x \in Nat PROVE G[<<o, x>>] = Last(x) - o + 1 + G[<<p, Under(x)>>]
      BY <3>0, GenerationsSteps
    <3>5. m + 1 < size => G[<<m + 1, y>>] = Last(y) - (m + 1) + 1 + G[<<r + 1, Under(y)>>]
      BY GenerationsSteps
    <3>6. p <= r
      <4>1. r = m * n + n /\ o * n <= m * n /\ m * n \in Nat /\ o * n \in Nat
        OBVIOUS
      <4> QED
        BY <4>1
    <3>7. y < size => r < Under(y)
      <4>1. (y + 1) * n = y * n + n /\ r = m * n + n /\ (m + 1) * n <= y * n /\ m * n \in Nat /\ y * n \in Nat
        OBVIOUS
      <4> QED
        BY <4>1
    <3>8. /\ y >= size => Under(y) = y /\ Last(y) = size - 1
          /\ m < size => Last(m) = m /\ Under(m) = r
          /\ m >= size => Last(m) = size - 1 /\ Under(m) = m
          /\ m = size - 1 => r = size * n
      OBVIOUS
    <3>9. CASE m + 1 < size
      <4>1. G[<<p, Under(y)>>] = G[<<p, r>>] + G[<<r + 1, Under(y)>>]
        <5>1. CASE r < Under(y)
          <6> HIDE DEF p, r, Under, G
          <6> QED
            BY <3>1, <3>2, <3>3, <3>6, <5>1
        <5>2. CASE r >= Under(y)
          <6>1. y >= size
            BY <3>1, <3>2, <3>7, <5>2
          <6>2. Under(y) = y /\ r >= size
            BY <3>1, <3>8, <5>2, <6>1
          <6> HIDE DEF p, r, Under, G
          <6>3. G[<<p, r>>] = G[<<p, y>>] /\ G[<<r + 1, y>>] = 0 /\ G[<<p, r>>] \in Int
            BY <1>0, <3>1, <6>1, <6>2
          <6> QED
            BY <6>2, <6>3
        <5> QED
          BY <3>1, <3>2, <5>1, <5>2
      <4>2. G[<<p, r>>] \in Int /\ G[<<r + 1, Under(y)>>] \in Int
        <5> HIDE DEF p, r, Under, G
        <5> QED
          BY <1>0, <3>1, <3>2
      <4>3. G[<<o, m>>] = m - o + 1 + G[<<p, r>>]
        BY <3>4, <3>8, <3>9
      <4> HIDE DEF p, r, Under, G, Last
      <4> QED
        BY <3>2, <3>4, <3>5, <3>9, <4>1, <4>2, <4>3
    <3>10. CASE m + 1 >= size
      <4>1. G[<<m + 1, y>>] = 0 /\ y >= size
        <5> HIDE DEF G
        <5> QED
          BY <1>0, <3>10
      <4>2. Last(m) = size - 1 /\ Under(m) >= size /\ Under(m) \in Nat
        BY <3>1, <3>8, <3>10
      <4> HIDE DEF p, r, Under, G, Last
      <4>3. G[<<p, Under(m)>>] = G[<<p, y>>] /\ G[<<p, y>>] \in Int
        BY <1>0, <3>1, <4>1, <4>2
      <4> QED
        BY <3>4, <3>8, <4>1, <4>2, <4>3
    <3> QED
      BY <3>9, <3>10
  <2> QED
    BY <2>1, <2>2
<1>3. size \in T
  <2> HIDE DEF T
  <2> QED
    BY <1>1, <1>2, NaturalsUpTo
<1>4. \A o \in Nat : Fine(o)
  <2> HIDE DEF Fine
  <2> QED
    BY <1>3
<1> QED
  BY <1>4

\* The whole group is the branch at position 0.
LEMMA GenerationsAll ==
    ASSUME NEW n \in Nat \ {0}, NEW size \in Nat
    PROVE  \A o \in Nat : o <= size => Generations(n, size)[<<o, o * n>>] = size - o
<1> DEFINE G == Generations(n, size)
           T == {k \in Nat : \A o \in Nat : o >= size - k /\ o <= size => G[<<o, o * n>>] = size - o}
<1>0. \A o, y \in Nat : o >= size => G[<<o, y>>] = 0
  BY GenerationsSteps
<1>1. 0 \in T
  <2> HIDE DEF G
  <2>1. \A o \in Nat : o >= size - 0 /\ o <= size => G[<<o, o * n>>] = size - o
    <3> SUFFICES ASSUME NEW o \in Nat, o = size PROVE G[<<o, o * n>>] = 0
      OBVIOUS
    <3>1. o * n \in Nat
      OBVIOUS
    <3> QED
      BY <1>0, <3>1
  <2> QED
    BY <2>1
<1>2. ASSUME NEW k \in 0 .. size - 1, k \in T PROVE k + 1 \in T
  <2> SUFFICES ASSUME NEW o \in Nat, o >= size - (k + 1), o < size - k
               PROVE  G[<<o, o * n>>] = size - o
    BY <1>2
  <2> DEFINE y == o * n
  <2>1. y \in Nat /\ y >= o /\ y + 1 \in Nat /\ (y + 1) * n \in Nat /\ o < size
    OBVIOUS
  <2>2. G[<<o, y>>] = (IF y < size THEN y ELSE size - 1) - o + 1
                         + G[<<y + 1, IF y < size THEN (y + 1) * n ELSE y>>]
    BY <2>1, GenerationsSteps
  <2> SUFFICES G[<<o, y>>] = size - o
    OBVIOUS
  <2>3. CASE y < size
    <3>1. y + 1 <= size /\ y + 1 >= size - k
      BY <2>1, <2>3
    <3>2. G[<<y + 1, (y + 1) * n>>] = size - (y + 1)
      <4> HIDE DEF G, y
      <4> QED
        BY <1>2, <2>1, <3>1
    <3> HIDE DEF G, y
    <3> QED
      BY <2>1, <2>2, <2>3, <3>2
  <2>4. CASE y >= size
    <3> HIDE DEF G, y
    <3>1. G[<<y + 1, y>>] = 0
      BY <1>0, <2>1, <2>4
    <3> QED
      BY <2>1, <2>2, <2>4, <3>1
  <2> QED
    BY <2>1, <2>3, <2>4
<1>3. size \in T
  <2> HIDE DEF T
  <2> QED
    BY <1>1, <1>2, NaturalsUpTo
<1> QED
  BY <1>3

(***************************************************************************)
(* The branch at a position is the position and the branches at its        *)
(* children, and all of the group is at position 0.                        *)
(***************************************************************************)
LEMMA BranchSteps ==
    ASSUME NEW n \in Nat \ {0}, NEW size \in Nat, NEW pos \in Nat
    PROVE  /\ BranchSize(n, size, pos) \in Nat
           /\ pos >= size => BranchSize(n, size, pos) = 0
           /\ pos < size =>
                BranchSize(n, size, pos) =
                  1 + SumBelow([c \in 0 .. n - 1 |-> BranchSize(n, size, pos * n + 1 + c)], n)
<1> DEFINE G == Generations(n, size)
           a == pos * n + 1
           f == [c \in 0 .. n - 1 |-> BranchSize(n, size, a + c)]
<1>1. a \in Nat /\ a + (n - 1) = (pos + 1) * n
  <2>1. (pos + 1) * n = pos * n + n /\ pos * n \in Nat
    OBVIOUS
  <2> QED
    BY <2>1
<1>2. \A q \in Nat : BranchSize(n, size, q) = G[<<q, q>>]
  BY BranchIsGenerations
<1>3. ASSUME NEW q \in Nat PROVE G[<<q, q>>] \in Nat
  BY GenerationsCut
<1>4. pos >= size => G[<<pos, pos>>] = 0
  BY GenerationsSteps
<1>5. pos < size => G[<<pos, pos>>] = 1 + G[<<a, (pos + 1) * n>>]
  <2> SUFFICES ASSUME pos < size PROVE G[<<pos, pos>>] = 1 + G[<<a, (pos + 1) * n>>]
    OBVIOUS
  <2> HIDE DEF f
  <2>1. Generations(n, size)[<<pos, pos>>] =
          IF pos >= size THEN 0
          ELSE (IF pos < size THEN pos ELSE size - 1) - pos + 1
                 + Generations(n, size)[<<pos * n + 1, IF pos < size THEN (pos + 1) * n ELSE pos>>]
    BY GenerationsSteps, Zenon
  <2>2. ~(pos >= size)
    OBVIOUS
  <2>3. G[<<pos, pos>>] = pos - pos + 1 + G[<<a, (pos + 1) * n>>]
    BY <2>1, <2>2, Zenon
  <2>4. pos - pos + 1 = 1
    OBVIOUS
  <2> QED
    BY <2>3, <2>4
<1>6. ASSUME NEW m \in Nat, NEW o \in Nat, o <= m
      PROVE  G[<<o, m + 1>>] = G[<<o, m>>] + G[<<m + 1, m + 1>>]
  BY <1>6, GenerationsSplit
<1>7. ASSUME NEW o \in Nat, NEW m \in Nat PROVE G[<<o, m>>] \in Int
  BY GenerationsCut
<1> HIDE DEF G, a
<1>8. \A c \in 0 .. n - 1 : f[c] = G[<<a + c, a + c>>]
  BY <1>1, <1>2
<1> HIDE DEF f
<1> DEFINE T == {j \in Nat : SumBelow(f, j + 1) = G[<<a, a + j>>]}
<1>9. 0 \in T
  <2>1. SumBelow(f, 0 + 1) = SumBelow(f, 0) + f[0] /\ SumBelow(f, 0) = 0
    BY SumSteps
  <2>2. f[0] = G[<<a, a>>] /\ a + 0 = a
    BY <1>1, <1>8
  <2>3. G[<<a, a>>] \in Nat
    BY <1>1, <1>3
  <2> QED
    BY <2>1, <2>2, <2>3
<1>10. ASSUME NEW j \in 0 .. (n - 1) - 1, j \in T PROVE j + 1 \in T
  <2>1. SumBelow(f, (j + 1) + 1) = SumBelow(f, j + 1) + f[j + 1]
    BY SumSteps
  <2>2. a + j \in Nat /\ (a + j) + 1 = a + (j + 1) /\ j + 1 \in 0 .. n - 1 /\ a <= a + j
    BY <1>1
  <2>3. f[j + 1] = G[<<a + (j + 1), a + (j + 1)>>]
    BY <1>8, <2>2
  <2>4. G[<<a, a + (j + 1)>>] = G[<<a, a + j>>] + G[<<a + (j + 1), a + (j + 1)>>]
    BY <1>1, <1>6, <2>2
  <2> QED
    BY <1>10, <2>1, <2>3, <2>4
<1>11. n - 1 \in T
  <2> HIDE DEF T
  <2> QED
    BY <1>9, <1>10, NaturalsUpTo
<1>12. SumBelow(f, n) = G[<<a, (pos + 1) * n>>]
  <2>1. (n - 1) + 1 = n
    OBVIOUS
  <2> QED
    BY <1>1, <1>11, <2>1
<1>13. f = [c \in 0 .. n - 1 |-> BranchSize(n, size, pos * n + 1 + c)]
  BY DEF f, a
<1> QED
  BY <1>2, <1>3, <1>4, <1>5, <1>12, <1>13

LEMMA WholeBranch ==
    ASSUME NEW n \in Nat \ {0}, NEW size \in Nat
    PROVE  BranchSize(n, size, 0) = size
<1>1. \A o \in Nat : o <= size => Generations(n, size)[<<o, o * n>>] = size - o
  BY GenerationsAll
<1>2. 0 \in Nat /\ 0 <= size
  OBVIOUS
<1>3. Generations(n, size)[<<0, 0 * n>>] = size - 0
  BY <1>1, <1>2, Zenon
<1>4. 0 * n = 0 /\ size - 0 = size
  OBVIOUS
<1> QED
  BY <1>3, <1>4, BranchIsGenerations

-----------------------------------------------------------------------------
(* The operations of a script, and the trees of their groups.              *)

\* What the assumption says of operation k.
OpOK(k) ==
    /\ k \in Nat \ {0}
    /\ script[k].kind \in Kinds
    /\ script[k].nchild \in 1 .. MaxChild
    /\ script[k].blocking \in BOOLEAN
    /\ GroupSize(k) \in Nat \ {0}
    /\ script[k].root \in 0 .. GroupSize(k) - 1
    /\ script[k].ranks \in [1 .. GroupSize(k) -> Ranks]
    /\ script[k].sizes \in [1 .. GroupSize(k) -> Nat]
    /\ \A i, j \in 1 .. GroupSize(k) : script[k].ranks[i] = script[k].ranks[j] => i = j

LEMMA OpFacts ==
    ASSUME script \in Scripts, NEW k \in DOMAIN script
    PROVE  OpOK(k)
<1>1. script \in Seq(Operations)
  BY GroupAssumption
<1>2. k \in 1 .. Len(script) /\ script[k] \in Operations
  BY <1>1
<1>3. /\ script[k].root \in 0 .. Len(script[k].ranks) - 1
      /\ Len(script[k].sizes) = Len(script[k].ranks)
      /\ \A i, j \in DOMAIN script[k].ranks : script[k].ranks[i] = script[k].ranks[j] => i = j
  BY GroupAssumption
<1>4. /\ script[k].kind \in Kinds /\ script[k].nchild \in 1 .. MaxChild
      /\ script[k].blocking \in BOOLEAN
      /\ script[k].ranks \in Seq(Ranks) /\ script[k].sizes \in Seq(Nat)
  BY <1>2 DEF Operations
<1>5. /\ Len(script[k].ranks) \in Nat
      /\ script[k].ranks \in [1 .. Len(script[k].ranks) -> Ranks]
      /\ script[k].sizes \in [1 .. Len(script[k].sizes) -> Nat]
  BY <1>4
<1> QED
  BY <1>2, <1>3, <1>4, <1>5 DEF OpOK, GroupSize

LEMMA IndexFacts ==
    ASSUME script \in Scripts, NEW k \in DOMAIN script, NEW p \in Group(k)
    PROVE  /\ p \in Ranks /\ p \in Nat /\ p # NoRank
           /\ IndexOf(p, k) \in 0 .. GroupSize(k) - 1
           /\ RankAt(k, IndexOf(p, k)) = p
           /\ SizeOf(p, k) \in Nat
           /\ \A i \in 0 .. GroupSize(k) - 1 : RankAt(k, i) = p => i = IndexOf(p, k)
<1>1. OpOK(k)
  BY OpFacts
<1>2. DOMAIN script[k].ranks = 1 .. GroupSize(k) /\ p \in {script[k].ranks[i] : i \in 1 .. GroupSize(k)}
  BY <1>1 DEF OpOK, Group
<1>3. PICK i \in 1 .. GroupSize(k) : script[k].ranks[i] = p
  BY <1>2
<1> DEFINE x == CHOOSE j \in DOMAIN script[k].ranks : script[k].ranks[j] = p
<1>4. x \in 1 .. GroupSize(k) /\ script[k].ranks[x] = p
  BY <1>2, <1>3
<1>5. IndexOf(p, k) = x - 1
  BY DEF IndexOf
<1> HIDE DEF x
<1>6. p \in Ranks /\ p \in Nat
  BY <1>1, <1>3, GroupAssumption DEF OpOK
<1>7. IndexOf(p, k) \in 0 .. GroupSize(k) - 1 /\ IndexOf(p, k) + 1 = x
  BY <1>1, <1>4, <1>5 DEF OpOK
<1>8. ASSUME NEW j \in 0 .. GroupSize(k) - 1
      PROVE  /\ RankAt(k, j) = script[k].ranks[j + 1]
             /\ RankAt(k, j) = p => j = IndexOf(p, k)
  <2>1. j # NoIndex /\ j + 1 \in 1 .. GroupSize(k)
    BY <1>1 DEF NoIndex, OpOK
  <2>2. RankAt(k, j) = script[k].ranks[j + 1]
    BY <2>1 DEF RankAt
  <2>3. RankAt(k, j) = p => j + 1 = x
    BY <1>1, <1>4, <2>1, <2>2 DEF OpOK
  <2> QED
    BY <1>5, <2>2, <2>3
<1>9. RankAt(k, IndexOf(p, k)) = p
  BY <1>4, <1>7, <1>8
<1>10. SizeOf(p, k) \in Nat
  BY <1>1, <1>4, <1>7 DEF SizeOf, OpOK
<1> QED
  BY <1>6, <1>7, <1>8, <1>9, <1>10 DEF NoRank

\* The other way round: the rank at an index.
LEMMA RankFacts ==
    ASSUME script \in Scripts, NEW k \in DOMAIN script, NEW i \in 0 .. GroupSize(k) - 1
    PROVE  RankAt(k, i) \in Group(k) /\ IndexOf(RankAt(k, i), k) = i
<1>1. OpOK(k)
  BY OpFacts
<1>2. i + 1 \in 1 .. GroupSize(k) /\ i # NoIndex
  BY <1>1 DEF OpOK, NoIndex
<1>3. RankAt(k, i) \in Group(k)
  BY <1>1, <1>2 DEF OpOK, Group, RankAt
<1> QED
  BY <1>3, IndexFacts

LEMMA SlotFacts ==
    /\ MaxChild \in Nat \ {0} /\ AllSlots = 0 .. MaxChild - 1 /\ IsFiniteSet(AllSlots)
    /\ NoRank \notin Ranks
<1>1. MaxChild \in Nat \ {0} /\ AllSlots = 0 .. MaxChild - 1
  BY GroupAssumption DEF AllSlots, Slots
<1>2. IsFiniteSet(0 .. MaxChild - 1)
  BY <1>1, FS_Interval
<1> QED
  BY <1>1, <1>2, GroupAssumption DEF NoRank

\* The fields of a tree.
TreeFields(p, k) ==
    LET t == setGroupAndRootIndex(p, k)
        n == script[k].nchild
        i == IndexOf(p, k)
    IN  /\ t.parent = RankAt(k, ParentOf(n, script[k].root, i))
        /\ t.child = [c \in AllSlots |->
              IF c < n THEN RankAt(k, ChildOf(n, GroupSize(k), script[k].root, i, c)) ELSE NoRank]
        /\ t.branch = [c \in AllSlots |->
              IF c < n
              THEN BranchSize(n, GroupSize(k), toPosition(script[k].root, i) * n + 1 + c)
              ELSE 0]

LEMMA TreeIs ==
    ASSUME script \in Scripts, NEW k \in DOMAIN script, NEW p \in Group(k)
    PROVE  TreeFields(p, k) /\ setGroupAndRootIndex(p, k) =
             [parent |-> setGroupAndRootIndex(p, k).parent,
              child  |-> setGroupAndRootIndex(p, k).child,
              branch |-> setGroupAndRootIndex(p, k).branch]
<1>1. OpOK(k) /\ AllSlots = 0 .. MaxChild - 1 /\ MaxChild \in Nat
  BY OpFacts, SlotFacts
<1>2. ASSUME NEW c \in AllSlots, c < script[k].nchild
      PROVE  c \in Slots(script[k].nchild)
  BY <1>1, <1>2 DEF OpOK, Slots
<1> QED
  BY <1>2 DEF TreeFields, setGroupAndRootIndex, computeDependentData, toChildPosition

\* Where a process is in the tree.
PosOf(p, k) == toPosition(script[k].root, IndexOf(p, k))

LEMMA PosFacts ==
    ASSUME script \in Scripts, NEW k \in DOMAIN script, NEW p \in Group(k)
    PROVE  /\ PosOf(p, k) \in Nat /\ PosOf(p, k) < GroupSize(k)
           /\ PosOf(p, k) = 0 <=> IndexOf(p, k) = script[k].root
           /\ toIndex(script[k].root, PosOf(p, k)) = IndexOf(p, k)
<1>1. OpOK(k) /\ IndexOf(p, k) \in 0 .. GroupSize(k) - 1
  BY OpFacts, IndexFacts
<1> QED
  BY <1>1, PositionsAreIndices DEF PosOf, OpOK

\* The process at a position.
RankOfPos(k, pos) == RankAt(k, toIndex(script[k].root, pos))

LEMMA RankOfPosFacts ==
    ASSUME script \in Scripts, NEW k \in DOMAIN script, NEW pos \in 0 .. GroupSize(k) - 1
    PROVE  /\ RankOfPos(k, pos) \in Group(k)
           /\ PosOf(RankOfPos(k, pos), k) = pos
           /\ RankOfPos(k, pos) # NoRank
<1>1. OpOK(k)
  BY OpFacts
<1>2. /\ toIndex(script[k].root, pos) \in 0 .. GroupSize(k) - 1
      /\ toPosition(script[k].root, toIndex(script[k].root, pos)) = pos
  BY <1>1, PositionsAreIndices DEF OpOK
<1>3. /\ RankOfPos(k, pos) \in Group(k)
      /\ IndexOf(RankOfPos(k, pos), k) = toIndex(script[k].root, pos)
  BY <1>2, RankFacts DEF RankOfPos
<1> QED
  BY <1>2, <1>3, IndexFacts DEF PosOf

\* The tree by positions.
LEMMA ChildByPosition ==
    ASSUME script \in Scripts, NEW k \in DOMAIN script, NEW p \in Group(k), NEW c \in AllSlots
    PROVE  LET pos == PosOf(p, k) * script[k].nchild + 1 + c
           IN  /\ pos \in Nat \ {0}
               /\ setGroupAndRootIndex(p, k).child[c] =
                     IF c < script[k].nchild /\ pos < GroupSize(k)
                     THEN RankOfPos(k, pos) ELSE NoRank
<1>1. OpOK(k) /\ c \in Nat
  BY OpFacts, SlotFacts
<1> DEFINE n == script[k].nchild
           x == PosOf(p, k) * n
<1>2. n \in Nat /\ PosOf(p, k) \in Nat
  BY <1>1, PosFacts, SlotFacts DEF OpOK
<1>3. x \in Nat
  BY <1>2
<1>4. TreeFields(p, k)
  BY TreeIs
<1>5. setGroupAndRootIndex(p, k).child[c] =
        IF c < n THEN RankAt(k, ChildOf(n, GroupSize(k), script[k].root, IndexOf(p, k), c)) ELSE NoRank
  BY <1>4 DEF TreeFields
<1>6. ChildOf(n, GroupSize(k), script[k].root, IndexOf(p, k), c) =
        IF x + 1 + c < GroupSize(k) THEN toIndex(script[k].root, x + 1 + c) ELSE NoIndex
  BY DEF ChildOf, toChildPosition, PosOf
<1>7. RankAt(k, NoIndex) = NoRank
  BY DEF RankAt
<1> QED
  BY <1>1, <1>3, <1>5, <1>6, <1>7 DEF RankOfPos

LEMMA ParentByPosition ==
    ASSUME script \in Scripts, NEW k \in DOMAIN script, NEW p \in Group(k)
    PROVE  setGroupAndRootIndex(p, k).parent =
             IF PosOf(p, k) > 0
             THEN RankOfPos(k, toParent(script[k].nchild, PosOf(p, k))) ELSE NoRank
<1>1. TreeFields(p, k)
  BY TreeIs
<1>2. RankAt(k, NoIndex) = NoRank
  BY DEF RankAt
<1> QED
  BY <1>1, <1>2 DEF TreeFields, ParentOf, PosOf, RankOfPos

Total(p, k) == SumBelow(setGroupAndRootIndex(p, k).branch, MaxChild)

LEMMA TotalIs ==
    ASSUME script \in Scripts, NEW k \in DOMAIN script, NEW p \in Group(k)
    PROVE  /\ setGroupAndRootIndex(p, k).branch \in [AllSlots -> Nat]
           /\ Total(p, k) \in Nat
           /\ BranchSize(script[k].nchild, GroupSize(k), PosOf(p, k)) = 1 + Total(p, k)
<1> DEFINE n == script[k].nchild
           size == GroupSize(k)
           pos == PosOf(p, k)
           t == setGroupAndRootIndex(p, k).branch
           f == [c \in 0 .. n - 1 |-> BranchSize(n, size, pos * n + 1 + c)]
<1>1. /\ n \in Nat \ {0} /\ size \in Nat /\ pos \in Nat /\ pos < size
      /\ AllSlots = 0 .. MaxChild - 1 /\ MaxChild \in Nat /\ n <= MaxChild
  BY OpFacts, PosFacts, SlotFacts DEF OpOK
<1>2. t = [c \in AllSlots |-> IF c < n THEN BranchSize(n, size, pos * n + 1 + c) ELSE 0]
  BY TreeIs DEF TreeFields, PosOf
<1> HIDE DEF n, size, pos, t
<1>3. ASSUME NEW c \in 0 .. n - 1 PROVE BranchSize(n, size, pos * n + 1 + c) \in Nat
  <2>1. pos * n \in Nat
    BY <1>1
  <2>2. pos * n + 1 + c \in Nat
    BY <1>1, <2>1
  <2> QED
    BY <1>1, <2>2, BranchSteps
<1>4. t \in [AllSlots -> Nat]
  <2>1. ASSUME NEW c \in AllSlots PROVE t[c] \in Nat
    <3>1. c < n => c \in 0 .. n - 1
      BY <1>1
    <3> QED
      BY <1>2, <1>3, <3>1
  <2> QED
    BY <1>2, <2>1
<1>5. \A c \in 0 .. n - 1 : f[c] = t[c]
  BY <1>1, <1>2
<1>6. SumBelow(f, n) = SumBelow(t, n)
  <2> HIDE DEF f
  <2> QED
    BY <1>1, <1>5, SumSame
<1>7. \A c \in 0 .. MaxChild - 1 : t[c] \in Nat
  BY <1>1, <1>4
<1>8. \A m \in 0 .. MaxChild : SumBelow(t, m) \in Nat
  BY <1>1, <1>7, SumNat
<1>9. SumBelow(t, n) \in Nat /\ SumBelow(t, MaxChild) \in Nat /\ n \in 0 .. MaxChild
  BY <1>1, <1>8
<1>10. \A c \in n .. MaxChild - 1 : t[c] = 0
  BY <1>1, <1>2
<1>11. SumBelow(t, MaxChild) = SumBelow(t, n)
  BY <1>1, <1>9, <1>10, SumRest
<1>12. BranchSize(n, size, pos) = 1 + SumBelow(f, n)
  BY <1>1, BranchSteps
<1> QED
  BY <1>4, <1>6, <1>9, <1>11, <1>12 DEF Total, t, n, size, pos

(***************************************************************************)
(* What a process has of the tree.  Children are in the first slots; the   *)
(* root, and only it, has no parent, and all of the group is below it.     *)
(***************************************************************************)
LEMMA TreeFacts ==
    ASSUME script \in Scripts, NEW k \in DOMAIN script, NEW p \in Group(k)
    PROVE  LET t == setGroupAndRootIndex(p, k)
           IN  /\ t \in [parent : Ranks \cup {NoRank}, child : [AllSlots -> Ranks \cup {NoRank}],
                         branch : [AllSlots -> Nat]]
               /\ t.parent = NoRank <=> PosOf(p, k) = 0
               /\ t.parent = NoRank => 1 + Total(p, k) = GroupSize(k)
               /\ \A c, d \in AllSlots :
                     d < c /\ t.child[c] # NoRank => t.child[d] # NoRank
<1> DEFINE t == setGroupAndRootIndex(p, k)
           n == script[k].nchild
           pos == PosOf(p, k)
<1>1. /\ n \in Nat \ {0} /\ GroupSize(k) \in Nat /\ pos \in Nat /\ pos < GroupSize(k)
      /\ AllSlots = 0 .. MaxChild - 1
  BY OpFacts, PosFacts, SlotFacts DEF OpOK
<1>2. ASSUME NEW q \in 0 .. GroupSize(k) - 1 PROVE RankOfPos(k, q) \in Ranks \ {NoRank}
  BY RankOfPosFacts, IndexFacts
<1>3. t.parent = IF pos > 0 THEN RankOfPos(k, toParent(n, pos)) ELSE NoRank
  BY ParentByPosition
<1>4. pos > 0 => toParent(n, pos) \in 0 .. GroupSize(k) - 1
  <2> SUFFICES ASSUME pos > 0 PROVE toParent(n, pos) \in 0 .. GroupSize(k) - 1
    OBVIOUS
  <2>1. pos \in Nat \ {0}
    BY <1>1
  <2>2. toParent(n, pos) \in 0 .. pos - 1
    BY <1>1, <2>1, ParentPosition
  <2> QED
    BY <1>1, <2>2
<1>5. ASSUME NEW c \in AllSlots
      PROVE  /\ pos * n + 1 + c \in Nat
             /\ t.child[c] = IF c < n /\ pos * n + 1 + c < GroupSize(k)
                             THEN RankOfPos(k, pos * n + 1 + c) ELSE NoRank
  BY ChildByPosition
<1> HIDE DEF n, pos
<1>6. ASSUME NEW c \in AllSlots
      PROVE  /\ t.child[c] \in Ranks \cup {NoRank}
             /\ t.child[c] # NoRank <=> c < n /\ pos * n + 1 + c < GroupSize(k)
  <2> DEFINE q == pos * n + 1 + c
  <2>1. q \in Nat /\ t.child[c] = IF c < n /\ q < GroupSize(k) THEN RankOfPos(k, q) ELSE NoRank
    BY <1>5
  <2> HIDE DEF q
  <2>2. q < GroupSize(k) => RankOfPos(k, q) \in Ranks \ {NoRank}
    BY <1>1, <1>2, <2>1
  <2> QED
    BY <2>1, <2>2 DEF q
<1>7. t.parent \in Ranks \cup {NoRank} /\ (t.parent = NoRank <=> pos = 0)
  BY <1>1, <1>2, <1>3, <1>4
<1>8. t.child \in [AllSlots -> Ranks \cup {NoRank}]
  <2>1. DOMAIN t.child = AllSlots /\ t.child = [c \in AllSlots |-> t.child[c]]
    BY TreeIs DEF TreeFields
  <2> QED
    BY <1>6, <2>1
<1>9. t.branch \in [AllSlots -> Nat]
  BY TotalIs
<1>10. t = [parent |-> t.parent, child |-> t.child, branch |-> t.branch]
  BY TreeIs
<1>11. t.parent = NoRank => 1 + Total(p, k) = GroupSize(k)
  <2>1. BranchSize(n, GroupSize(k), pos) = 1 + Total(p, k)
    BY TotalIs DEF n, pos
  <2> QED
    BY <1>1, <1>7, <2>1, WholeBranch
<1>12. ASSUME NEW c \in AllSlots, NEW d \in AllSlots, d < c, t.child[c] # NoRank
       PROVE  t.child[d] # NoRank
  <2>1. pos * n \in Nat
    BY <1>1
  <2> QED
    BY <1>1, <1>6, <1>12, <2>1
<1> HIDE DEF t
<1>13. t \in [parent : Ranks \cup {NoRank}, child : [AllSlots -> Ranks \cup {NoRank}],
              branch : [AllSlots -> Nat]]
  BY <1>7, <1>8, <1>9, <1>10
<1> QED
  BY <1>7, <1>11, <1>12, <1>13 DEF t, pos

(***************************************************************************)
(* A process and the child in a slot agree: on being parent and child, and *)
(* on the size of the branch.                                              *)
(***************************************************************************)
LEMMA ChildFacts ==
    ASSUME script \in Scripts, NEW k \in DOMAIN script, NEW p \in Group(k), NEW c \in AllSlots,
           NEW q, q = setGroupAndRootIndex(p, k).child[c], q # NoRank
    PROVE  /\ q \in Group(k) /\ q # p
           /\ setGroupAndRootIndex(q, k).parent = p
           /\ setGroupAndRootIndex(p, k).branch[c] = 1 + Total(q, k)
           /\ \A d \in AllSlots : setGroupAndRootIndex(p, k).child[d] = q => d = c
<1> DEFINE n == script[k].nchild
           pos == PosOf(p, k)
           size == GroupSize(k)
           at == pos * n + 1 + c
<1>1. /\ n \in Nat \ {0} /\ size \in Nat /\ pos \in Nat /\ pos < size
      /\ AllSlots = 0 .. MaxChild - 1
  BY OpFacts, PosFacts, SlotFacts DEF OpOK
<1>2. at \in Nat \ {0} /\ c < n /\ at < size /\ q = RankOfPos(k, at)
  BY ChildByPosition
<1>3. q \in Group(k) /\ PosOf(q, k) = at
  <2> HIDE DEF at
  <2>1. at \in 0 .. GroupSize(k) - 1
    BY <1>1, <1>2
  <2> QED
    BY <1>2, <2>1, RankOfPosFacts
<1>4. toParent(n, at) = pos
  <2> HIDE DEF n, pos, size
  <2>1. PICK slot \in 0 .. n - 1 : \A r \in Nat, d \in 0 .. n - 1 :
           r * n + 1 + d = at <=> r = toParent(n, at) /\ d = slot
    BY <1>1, <1>2, ParentPosition
  <2>2. c \in 0 .. n - 1
    BY <1>1, <1>2
  <2>3. pos * n + 1 + c = at
    OBVIOUS
  <2> HIDE DEF at
  <2> QED
    BY <1>1, <2>1, <2>2, <2>3
<1>5. RankOfPos(k, pos) = p
  BY PosFacts, IndexFacts DEF RankOfPos
<1>6. setGroupAndRootIndex(q, k).parent = p
  <2>1. setGroupAndRootIndex(q, k).parent =
           IF PosOf(q, k) > 0 THEN RankOfPos(k, toParent(n, PosOf(q, k))) ELSE NoRank
    BY <1>3, ParentByPosition
  <2> HIDE DEF at, n, pos
  <2> QED
    BY <1>2, <1>3, <1>4, <1>5, <2>1
<1>7. setGroupAndRootIndex(p, k).branch[c] = 1 + Total(q, k)
  <2>1. setGroupAndRootIndex(p, k).branch[c] = BranchSize(n, size, at)
    BY <1>2, TreeIs DEF TreeFields, PosOf
  <2>2. BranchSize(n, size, PosOf(q, k)) = 1 + Total(q, k)
    BY <1>3, TotalIs
  <2> QED
    BY <1>3, <2>1, <2>2
<1>8. ASSUME NEW d \in AllSlots, setGroupAndRootIndex(p, k).child[d] = q
      PROVE  d = c
  <2> DEFINE ad == pos * n + 1 + d
  <2>1. ad \in Nat \ {0} /\ d < n /\ ad < size /\ q = RankOfPos(k, ad)
    BY <1>8, ChildByPosition
  <2>2. PosOf(q, k) = ad
    <3> HIDE DEF ad
    <3>1. ad \in 0 .. GroupSize(k) - 1
      BY <1>1, <2>1
    <3> QED
      BY <2>1, <3>1, RankOfPosFacts
  <2>3. pos * n \in Nat
    BY <1>1
  <2> HIDE DEF pos, n
  <2> QED
    BY <1>1, <1>3, <2>2, <2>3
<1>9. q # p
  <2>1. at > pos
    <3> HIDE DEF n, pos, size
    <3>1. pos * n >= pos /\ pos * n \in Nat
      BY <1>1
    <3> QED
      BY <1>1, <3>1
  <2> HIDE DEF at
  <2>2. ~(pos > pos)
    BY <1>1
  <2> QED
    BY <1>3, <2>1, <2>2
<1> QED
  BY <1>3, <1>6, <1>7, <1>8, <1>9

\* Who has a parent is its child in some slot.
LEMMA ParentFacts ==
    ASSUME script \in Scripts, NEW k \in DOMAIN script, NEW q \in Group(k),
           NEW p, p = setGroupAndRootIndex(q, k).parent, p # NoRank
    PROVE  /\ p \in Group(k) /\ p # q
           /\ \E c \in AllSlots : setGroupAndRootIndex(p, k).child[c] = q
<1> DEFINE n == script[k].nchild
           pos == PosOf(q, k)
           size == GroupSize(k)
           above == toParent(n, pos)
<1>1. /\ n \in Nat \ {0} /\ n <= MaxChild /\ size \in Nat /\ pos \in Nat /\ pos < size
      /\ AllSlots = 0 .. MaxChild - 1 /\ MaxChild \in Nat
  BY OpFacts, PosFacts, SlotFacts DEF OpOK
<1>2. pos > 0 /\ p = RankOfPos(k, above)
  BY ParentByPosition
<1> HIDE DEF n, pos, size
<1>3. pos \in Nat \ {0}
  BY <1>1, <1>2
<1>4. above \in 0 .. pos - 1
  BY <1>1, <1>3, ParentPosition
<1>5. PICK slot \in 0 .. n - 1 : \A r \in Nat, d \in 0 .. n - 1 :
         r * n + 1 + d = pos <=> r = above /\ d = slot
  BY <1>1, <1>3, ParentPosition
<1> HIDE DEF above
<1>6. p \in Group(k) /\ PosOf(p, k) = above
  <2>1. above \in 0 .. GroupSize(k) - 1
    BY <1>1, <1>4 DEF size
  <2> QED
    BY <1>2, <2>1, RankOfPosFacts
<1>7. slot \in AllSlots /\ slot < n /\ above \in Nat
  BY <1>1, <1>4
<1>8. above * n + 1 + slot = pos
  BY <1>5, <1>7
<1>9. RankOfPos(k, pos) = q
  BY PosFacts, IndexFacts DEF RankOfPos, pos
<1>10. setGroupAndRootIndex(p, k).child[slot] = q
  <2>1. setGroupAndRootIndex(p, k).child[slot] =
           IF slot < n /\ PosOf(p, k) * n + 1 + slot < size
           THEN RankOfPos(k, PosOf(p, k) * n + 1 + slot) ELSE NoRank
    BY <1>6, <1>7, ChildByPosition DEF n, size
  <2> QED
    BY <1>1, <1>6, <1>7, <1>8, <1>9, <2>1
<1>11. p # q
  BY <1>4, <1>6 DEF pos
<1> QED
  BY <1>6, <1>7, <1>10, <1>11

-----------------------------------------------------------------------------
(* Who is below whom, by position.                                         *)

\* With a position its parent.
Closed(n, S) == \A x \in S : x # 0 => toParent(n, x) \in S

\* pos is q, or q's parent, or the parent's parent: whatever is closed and has q has pos.
IsAbove(n, pos, q) == \A S \in SUBSET Nat : q \in S /\ Closed(n, S) => pos \in S

LEMMA AboveSteps ==
    ASSUME NEW n \in Nat \ {0}, NEW pos, NEW q \in Nat
    PROVE  /\ pos = q => IsAbove(n, pos, q)
           /\ IsAbove(n, pos, q) => pos \in 0 .. q
           /\ q = 0 => (IsAbove(n, pos, q) <=> pos = q)
           /\ q # 0 => (IsAbove(n, pos, q) <=> pos = q \/ IsAbove(n, pos, toParent(n, q)))
<1>1. \A x \in Nat \ {0} : toParent(n, x) \in 0 .. x - 1
  BY ParentPosition
<1>2. pos = q => IsAbove(n, pos, q)
  BY DEF IsAbove
<1>3. ASSUME IsAbove(n, pos, q) PROVE pos \in 0 .. q
  <2>1. \A x \in 0 .. q : x # 0 => toParent(n, x) \in 0 .. q
    <3> SUFFICES ASSUME NEW x \in 0 .. q, x # 0 PROVE toParent(n, x) \in 0 .. q
      OBVIOUS
    <3>1. toParent(n, x) \in 0 .. x - 1
      BY <1>1
    <3> QED
      BY <3>1
  <2>2. q \in 0 .. q /\ 0 .. q \in SUBSET Nat
    OBVIOUS
  <2> QED
    BY <1>3, <2>1, <2>2 DEF IsAbove, Closed
<1>4. q # 0 => (IsAbove(n, pos, q) <=> pos = q \/ IsAbove(n, pos, toParent(n, q)))
  <2> SUFFICES ASSUME q # 0
               PROVE  IsAbove(n, pos, q) <=> pos = q \/ IsAbove(n, pos, toParent(n, q))
    OBVIOUS
  <2>1. ASSUME IsAbove(n, pos, toParent(n, q)) PROVE IsAbove(n, pos, q)
    BY <2>1 DEF IsAbove, Closed
  <2>2. ASSUME IsAbove(n, pos, q), pos # q PROVE IsAbove(n, pos, toParent(n, q))
    <3> SUFFICES ASSUME NEW S \in SUBSET Nat, toParent(n, q) \in S, Closed(n, S)
                 PROVE  pos \in S
      BY DEF IsAbove
    <3>1. S \cup {q} \in SUBSET Nat /\ q \in S \cup {q}
      OBVIOUS
    <3>2. Closed(n, S \cup {q})
      BY DEF Closed
    <3>3. pos \in S \cup {q}
      BY <2>2, <3>1, <3>2 DEF IsAbove
    <3> QED
      BY <2>2, <3>3
  <2> QED
    BY <1>2, <2>1, <2>2
<1>5. q = 0 => (IsAbove(n, pos, q) <=> pos = q)
  BY <1>2, <1>3
<1> QED
  BY <1>2, <1>3, <1>4, <1>5

Branch(n, size, pos) == {q \in 0 .. size - 1 : IsAbove(n, pos, q)}

\* All of the group is below the root.
LEMMA AllBelowRoot ==
    ASSUME NEW n \in Nat \ {0}, NEW size \in Nat
    PROVE  Branch(n, size, 0) = 0 .. size - 1
<1> DEFINE T == {q \in Nat : ~IsAbove(n, 0, q)}
<1> SUFFICES ASSUME T # {} PROVE FALSE
  BY DEF Branch
<1>1. PICK q \in T : \A x \in T : q <= x
  <2> HIDE DEF T
  <2>1. T \in SUBSET Nat
    BY DEF T
  <2> QED
    BY <2>1, LeastNatural
<1>2. q \in Nat /\ ~IsAbove(n, 0, q) /\ q # 0
  BY AboveSteps
<1>3. toParent(n, q) \in 0 .. q - 1
  BY <1>2, ParentPosition
<1>4. ~IsAbove(n, 0, toParent(n, q))
  BY <1>2, AboveSteps
<1> QED
  BY <1>1, <1>2, <1>3, <1>4

(***************************************************************************)
(* A branch is its position and the branches at the children, which have   *)
(* nothing in common.                                                      *)
(***************************************************************************)
LEMMA BranchParts ==
    ASSUME NEW n \in Nat \ {0}, NEW size \in Nat, NEW pos \in Nat
    PROVE  LET B(c) == Branch(n, size, pos * n + 1 + c)
           IN  /\ pos < size => pos \in Branch(n, size, pos)
               /\ pos >= size => Branch(n, size, pos) = {}
               /\ \A c \in 0 .. n - 1 : pos \notin B(c) /\ B(c) \subseteq Branch(n, size, pos)
               /\ \A q \in Branch(n, size, pos) : q = pos \/ \E c \in 0 .. n - 1 : q \in B(c)
               /\ \A c, d \in 0 .. n - 1 : c # d => B(c) \cap B(d) = {}
<1> DEFINE x(c) == pos * n + 1 + c
           B(c) == Branch(n, size, x(c))
<1>1. ASSUME NEW c \in 0 .. n - 1 PROVE x(c) \in Nat \ {0} /\ x(c) > pos /\ toParent(n, x(c)) = pos
  <2>1. pos * n \in Nat /\ pos * n >= pos
    OBVIOUS
  <2>2. x(c) \in Nat \ {0} /\ x(c) > pos
    BY <2>1
  <2>3. PICK slot \in 0 .. n - 1 : \A p \in Nat, e \in 0 .. n - 1 :
             p * n + 1 + e = x(c) <=> p = toParent(n, x(c)) /\ e = slot
    BY <2>2, ParentPosition
  <2> QED
    BY <2>2, <2>3
<1>2. ASSUME NEW c \in 0 .. n - 1, NEW d \in 0 .. n - 1, x(c) = x(d) PROVE c = d
  <2>1. pos * n \in Nat
    OBVIOUS
  <2> QED
    BY <1>2, <2>1
<1>3. ASSUME NEW q \in Nat \ {0}, toParent(n, q) = pos PROVE \E c \in 0 .. n - 1 : q = x(c)
  <2>1. PICK slot \in 0 .. n - 1 : \A p \in Nat, e \in 0 .. n - 1 :
             p * n + 1 + e = q <=> p = toParent(n, q) /\ e = slot
    BY ParentPosition
  <2> QED
    BY <1>3, <2>1
<1> HIDE DEF x
<1>4. pos < size => pos \in Branch(n, size, pos)
  BY AboveSteps DEF Branch
<1>5. pos >= size => Branch(n, size, pos) = {}
  <2> SUFFICES ASSUME pos >= size, NEW q \in 0 .. size - 1, IsAbove(n, pos, q) PROVE FALSE
    BY DEF Branch
  <2>1. q \in Nat
    OBVIOUS
  <2>2. pos \in 0 .. q
    BY <2>1, AboveSteps
  <2> QED
    BY <2>2
<1>6. ASSUME NEW c \in 0 .. n - 1 PROVE pos \notin B(c)
  <2> SUFFICES ASSUME IsAbove(n, x(c), pos) PROVE FALSE
    BY DEF Branch
  <2>1. x(c) \in 0 .. pos
    BY AboveSteps
  <2> QED
    BY <1>1, <2>1
<1>7. ASSUME NEW c \in 0 .. n - 1 PROVE B(c) \subseteq Branch(n, size, pos)
  <2> DEFINE T == {q \in Nat : IsAbove(n, x(c), q) /\ ~IsAbove(n, pos, q)}
  <2> SUFFICES ASSUME T # {} PROVE FALSE
    BY DEF Branch
  <2>1. PICK q \in T : \A y \in T : q <= y
    <3> HIDE DEF T
    <3>1. T \in SUBSET Nat
      BY DEF T
    <3> QED
      BY <3>1, LeastNatural
  <2>2. q \in Nat /\ IsAbove(n, x(c), q) /\ ~IsAbove(n, pos, q)
    OBVIOUS
  <2>3. q # x(c)
    <3> SUFFICES ASSUME q = x(c) PROVE FALSE
      OBVIOUS
    <3>1. q # 0 /\ toParent(n, q) = pos
      BY <1>1
    <3> QED
      BY <2>2, <3>1, AboveSteps
  <2>4. q # 0 /\ IsAbove(n, x(c), toParent(n, q))
    BY <2>2, <2>3, AboveSteps
  <2>5. ~IsAbove(n, pos, toParent(n, q))
    BY <2>2, <2>4, AboveSteps
  <2>6. toParent(n, q) \in 0 .. q - 1
    BY <2>2, <2>4, ParentPosition
  <2> QED
    BY <2>1, <2>2, <2>4, <2>5, <2>6
<1>8. ASSUME NEW q0 \in Branch(n, size, pos), q0 # pos, ~ \E c \in 0 .. n - 1 : q0 \in B(c)
      PROVE  FALSE
  <2> DEFINE T == {q \in Nat : /\ IsAbove(n, pos, q) /\ q # pos
                               /\ \A c \in 0 .. n - 1 : ~IsAbove(n, x(c), q)}
  <2>0. T # {}
    BY <1>8 DEF Branch
  <2>1. PICK q \in T : \A y \in T : q <= y
    <3> HIDE DEF T
    <3>1. T \in SUBSET Nat
      BY DEF T
    <3> QED
      BY <2>0, <3>1, LeastNatural
  <2>2. /\ q \in Nat /\ IsAbove(n, pos, q) /\ q # pos
        /\ \A c \in 0 .. n - 1 : ~IsAbove(n, x(c), q)
    OBVIOUS
  <2>3. q # 0 /\ IsAbove(n, pos, toParent(n, q))
    BY <2>2, AboveSteps
  <2>4. toParent(n, q) \in 0 .. q - 1
    BY <2>2, <2>3, ParentPosition
  <2>5. toParent(n, q) # pos
    <3> SUFFICES ASSUME toParent(n, q) = pos PROVE FALSE
      OBVIOUS
    <3>1. PICK c \in 0 .. n - 1 : q = x(c)
      BY <1>3, <2>2, <2>3
    <3> QED
      BY <2>2, <3>1, AboveSteps
  <2>6. \A c \in 0 .. n - 1 : ~IsAbove(n, x(c), toParent(n, q))
    BY <2>2, <2>3, AboveSteps
  <2> QED
    BY <2>1, <2>2, <2>3, <2>4, <2>5, <2>6
<1>9. ASSUME NEW c \in 0 .. n - 1, NEW d \in 0 .. n - 1, c # d PROVE B(c) \cap B(d) = {}
  <2> DEFINE T == {q \in Nat : IsAbove(n, x(c), q) /\ IsAbove(n, x(d), q)}
  <2> SUFFICES ASSUME T # {} PROVE FALSE
    BY DEF Branch
  <2>1. PICK q \in T : \A y \in T : q <= y
    <3> HIDE DEF T
    <3>1. T \in SUBSET Nat
      BY DEF T
    <3> QED
      BY <3>1, LeastNatural
  <2>2. q \in Nat /\ IsAbove(n, x(c), q) /\ IsAbove(n, x(d), q)
    OBVIOUS
  <2>3. x(c) # x(d)
    BY <1>2, <1>9
  \* A child is not above the other.
  <2>4. ASSUME NEW e \in 0 .. n - 1, NEW f \in 0 .. n - 1, x(e) # x(f) PROVE ~IsAbove(n, x(e), x(f))
    <3> SUFFICES ASSUME IsAbove(n, x(e), x(f)) PROVE FALSE
      OBVIOUS
    <3>1. x(f) \in Nat \ {0} /\ toParent(n, x(f)) = pos /\ x(e) > pos /\ x(e) \in Nat
      BY <1>1
    <3>2. IsAbove(n, x(e), pos)
      BY <2>4, <3>1, AboveSteps
    <3>3. x(e) \in 0 .. pos
      BY <3>2, AboveSteps
    <3> QED
      BY <3>1, <3>3
  <2>5. q # x(c) /\ q # x(d)
    BY <2>2, <2>3, <2>4
  <2>6. /\ q # 0
        /\ IsAbove(n, x(c), toParent(n, q)) /\ IsAbove(n, x(d), toParent(n, q))
    BY <2>2, <2>5, AboveSteps
  <2>7. toParent(n, q) \in 0 .. q - 1
    BY <2>2, <2>6, ParentPosition
  <2> QED
    BY <2>1, <2>2, <2>6, <2>7
<1> QED
  BY <1>4, <1>5, <1>6, <1>7, <1>8, <1>9 DEF x

-----------------------------------------------------------------------------
(* The data of an operation.                                               *)

\* The number at place j of what the process with index i puts in.
Datum(k, i, j) == (3 * k + j) * 10 ^ i

\* The sum of the numbers at place j of those with an index in S.
SumOver(S, size, k, j) ==
    SumBelow([i \in 0 .. size - 1 |-> IF i \in S THEN Datum(k, i, j) ELSE 0], size)

\* Block t of buffer b, of blocks of 1 + z, is that of index i.
IsBlock(b, t, z, k, i) ==
    /\ b[t * (1 + z) + 1] = i
    /\ \A j \in 1 .. z : b[t * (1 + z) + 1 + j] = Datum(k, i, j)

\* The blocks from a on, before e, are those of the indices in S.
Blocks(b, a, e, z, k, S) ==
    /\ \A t \in a .. e - 1 : \E i \in S : IsBlock(b, t, z, k, i)
    /\ \A i \in S : \E t \in a .. e - 1 : IsBlock(b, t, z, k, i)

\* The indices in the branch at a position.
IndicesIn(n, size, root, pos) == {i \in 0 .. size - 1 : toPosition(root, i) \in Branch(n, size, pos)}

LEMMA DatumInt ==
    ASSUME NEW k \in Nat, NEW i \in Nat, NEW j \in Nat
    PROVE  Datum(k, i, j) \in Int
<1>1. 10 ^ i \in Int
  OBVIOUS
<1>2. 3 * k + j \in Int
  OBVIOUS
<1> QED
  BY <1>1, <1>2 DEF Datum

-----------------------------------------------------------------------------
(* Sums over sets of indices.                                              *)

LEMMA SumAdds ==
    ASSUME NEW f, NEW g, NEW h, NEW n \in Nat,
           \A c \in 0 .. n - 1 : f[c] \in Int /\ g[c] \in Int /\ h[c] = f[c] + g[c]
    PROVE  SumBelow(h, n) = SumBelow(f, n) + SumBelow(g, n)
<1> DEFINE T == {m \in Nat : /\ SumBelow(f, m) \in Int /\ SumBelow(g, m) \in Int
                             /\ SumBelow(h, m) = SumBelow(f, m) + SumBelow(g, m)}
<1>1. 0 \in T
  BY SumSteps
<1>2. ASSUME NEW m \in 0 .. n - 1, m \in T PROVE m + 1 \in T
  <2>1. /\ SumBelow(f, m + 1) = SumBelow(f, m) + f[m]
        /\ SumBelow(g, m + 1) = SumBelow(g, m) + g[m]
        /\ SumBelow(h, m + 1) = SumBelow(h, m) + h[m]
    BY SumSteps
  <2> QED
    BY <1>2, <2>1
<1>3. n \in T
  <2> HIDE DEF T
  <2> QED
    BY <1>1, <1>2, NaturalsUpTo
<1> QED
  BY <1>3

LEMMA SumOverInt ==
    ASSUME NEW S, NEW size \in Nat, NEW k \in Nat, NEW j \in Nat
    PROVE  SumOver(S, size, k, j) \in Int
<1> DEFINE f == [i \in 0 .. size - 1 |-> IF i \in S THEN Datum(k, i, j) ELSE 0]
<1>1. \A i \in 0 .. size - 1 : f[i] \in Int
  BY DatumInt
<1> HIDE DEF f
<1>2. SumBelow(f, size) \in Int
  BY <1>1, SumInt
<1> QED
  BY <1>2 DEF SumOver, f

LEMMA SumEmpty ==
    ASSUME NEW size \in Nat, NEW k \in Nat, NEW j \in Nat
    PROVE  SumOver({}, size, k, j) = 0
<1> DEFINE f == [i \in 0 .. size - 1 |-> IF i \in {} THEN Datum(k, i, j) ELSE 0]
<1>1. \A i \in 0 .. size - 1 : f[i] = 0
  OBVIOUS
<1> HIDE DEF f
<1>2. SumBelow(f, 0) = 0
  BY SumSteps
<1>3. SumBelow(f, size) = SumBelow(f, 0)
  BY <1>1, <1>2, SumRest
<1> QED
  BY <1>2, <1>3 DEF SumOver, f

LEMMA SumOne ==
    ASSUME NEW size \in Nat, NEW k \in Nat, NEW j \in Nat, NEW i \in 0 .. size - 1
    PROVE  SumOver({i}, size, k, j) = Datum(k, i, j)
<1> DEFINE f == [x \in 0 .. size - 1 |-> IF x \in {i} THEN Datum(k, x, j) ELSE 0]
           T == {m \in Nat : SumBelow(f, m) = IF m <= i THEN 0 ELSE Datum(k, i, j)}
<1>1. \A x \in 0 .. size - 1 : f[x] = IF x = i THEN Datum(k, i, j) ELSE 0
  OBVIOUS
<1>2. Datum(k, i, j) \in Int
  BY DatumInt
<1> HIDE DEF f
<1>3. 0 \in T
  BY SumSteps
<1>4. ASSUME NEW m \in 0 .. size - 1, m \in T PROVE m + 1 \in T
  <2>1. SumBelow(f, m + 1) = SumBelow(f, m) + f[m]
    BY SumSteps
  <2>2. SumBelow(f, m) = IF m <= i THEN 0 ELSE Datum(k, i, j)
    BY <1>4
  <2> DEFINE d == Datum(k, i, j)
  <2>3. d \in Int /\ f[m] = IF m = i THEN d ELSE 0
    BY <1>1, <1>2
  <2> HIDE DEF d
  <2>4. SumBelow(f, m) = IF m <= i THEN 0 ELSE d
    BY <2>2 DEF d
  <2>5. SumBelow(f, m + 1) = IF m + 1 <= i THEN 0 ELSE d
    BY <2>1, <2>3, <2>4
  <2> QED
    BY <2>5 DEF d
<1>5. size \in T
  <2> HIDE DEF T
  <2> QED
    BY <1>3, <1>4, NaturalsUpTo
<1>6. SumBelow(f, size) = Datum(k, i, j)
  BY <1>5
<1> QED
  BY <1>6 DEF SumOver, f

LEMMA SumUnion ==
    ASSUME NEW S, NEW T, S \cap T = {}, NEW size \in Nat, NEW k \in Nat, NEW j \in Nat
    PROVE  SumOver(S \cup T, size, k, j) = SumOver(S, size, k, j) + SumOver(T, size, k, j)
<1> DEFINE F(U) == [i \in 0 .. size - 1 |-> IF i \in U THEN Datum(k, i, j) ELSE 0]
           f == F(S)
           g == F(T)
           h == F(S \cup T)
<1>1. ASSUME NEW i \in 0 .. size - 1
      PROVE  f[i] \in Int /\ g[i] \in Int /\ h[i] = f[i] + g[i]
  <2>1. Datum(k, i, j) \in Int
    BY DatumInt
  <2>2. ~(i \in S /\ i \in T)
    OBVIOUS
  <2> DEFINE d == Datum(k, i, j)
  <2>3. /\ f[i] = IF i \in S THEN d ELSE 0
        /\ g[i] = IF i \in T THEN d ELSE 0
        /\ h[i] = IF i \in S \cup T THEN d ELSE 0
    OBVIOUS
  <2> HIDE DEF d, f, g, h
  <2>4. d \in Int
    BY <2>1 DEF d
  <2> QED
    BY <2>2, <2>3, <2>4
<1> HIDE DEF f, g, h
<1>2. SumBelow(h, size) = SumBelow(f, size) + SumBelow(g, size)
  BY <1>1, SumAdds
<1> QED
  BY <1>2 DEF SumOver, f, g, h

-----------------------------------------------------------------------------
(* Blocks.                                                                 *)

LEMMA BlocksJoin ==
    ASSUME NEW b, NEW x \in Nat, NEW y \in Nat, NEW e \in Nat, x <= y, y <= e, NEW z, NEW k,
           NEW S, NEW T, Blocks(b, x, y, z, k, S), Blocks(b, y, e, z, k, T)
    PROVE  Blocks(b, x, e, z, k, S \cup T)
<1>1. \A t : t \in x .. e - 1 <=> t \in x .. y - 1 \/ t \in y .. e - 1
  OBVIOUS
<1> QED
  BY <1>1 DEF Blocks

LEMMA NoBlocks ==
    ASSUME NEW b, NEW x \in Nat, NEW z, NEW k
    PROVE  Blocks(b, x, x, z, k, {})
  BY DEF Blocks

LEMMA OneBlock ==
    ASSUME NEW b, NEW x \in Nat, NEW z, NEW k, NEW i, IsBlock(b, x, z, k, i)
    PROVE  Blocks(b, x, x + 1, z, k, {i})
<1>1. x .. (x + 1) - 1 = {x}
  OBVIOUS
<1> QED
  BY <1>1 DEF Blocks

\* A message that is written to a place between blocks.
LEMMA BlocksMoved ==
    ASSUME NEW b, NEW m, NEW x \in Nat, NEW n \in Nat, NEW z \in Nat, NEW k, NEW S,
           Blocks(m, 0, n, z, k, S),
           \A y \in 1 .. n * (1 + z) : b[x * (1 + z) + y] = m[y]
    PROVE  Blocks(b, x, x + n, z, k, S)
<1>1. ASSUME NEW t \in 0 .. n - 1, NEW i
      PROVE  IsBlock(b, x + t, z, k, i) <=> IsBlock(m, t, z, k, i)
  <2> DEFINE w == 1 + z
             tw == t * w
             xw == x * w
  <2>1. w \in Nat \ {0} /\ tw \in Nat /\ xw \in Nat /\ tw + w <= n * w /\ (x + t) * w = xw + tw
        /\ n * w \in Nat
    <3>1. w \in Nat \ {0} /\ t \in Nat /\ t + 1 <= n
      OBVIOUS
    <3> HIDE DEF w
    <3>2. (t + 1) * w <= n * w /\ (t + 1) * w = t * w + w
      BY <3>1
    <3> QED
      BY <3>1, <3>2
  <2> DEFINE nw == n * w
  <2>2. \A y \in 1 .. nw : b[xw + y] = m[y]
    OBVIOUS
  <2>3. /\ IsBlock(b, x + t, z, k, i) <=>
             /\ b[(x + t) * w + 1] = i
             /\ \A j \in 1 .. z : b[(x + t) * w + 1 + j] = Datum(k, i, j)
        /\ IsBlock(m, t, z, k, i) <=>
             /\ m[tw + 1] = i
             /\ \A j \in 1 .. z : m[tw + 1 + j] = Datum(k, i, j)
    BY DEF IsBlock
  <2>4. w = 1 + z
    OBVIOUS
  <2> HIDE DEF w, tw, xw, nw
  <2>5. nw \in Nat /\ tw + w <= nw
    BY <2>1 DEF nw
  <2>6. \A j \in 0 .. z : tw + 1 + j \in 1 .. nw
    BY <2>1, <2>4, <2>5
  <2>7. \A j \in 0 .. z : b[xw + (tw + 1 + j)] = m[tw + 1 + j]
    BY <2>2, <2>6
  <2>8. \A j \in 0 .. z : xw + (tw + 1 + j) = (x + t) * w + 1 + j
    BY <2>1
  <2>9. \A j \in 0 .. z : b[(x + t) * w + 1 + j] = m[tw + 1 + j]
    BY <2>7, <2>8
  <2>10. b[(x + t) * w + 1] = m[tw + 1]
    <3>1. 0 \in 0 .. z /\ (x + t) * w + 1 + 0 = (x + t) * w + 1 /\ tw + 1 + 0 = tw + 1
      BY <2>1
    <3> QED
      BY <2>9, <3>1
  <2>11. \A j \in 1 .. z : j \in 0 .. z
    OBVIOUS
  <2> QED
    BY <2>3, <2>9, <2>10, <2>11
<1>2. \A t \in 0 .. n - 1 : x + t \in x .. (x + n) - 1
  OBVIOUS
<1>3. \A u \in x .. (x + n) - 1 : u - x \in 0 .. n - 1 /\ x + (u - x) = u
  OBVIOUS
<1>4. ASSUME NEW u \in x .. (x + n) - 1 PROVE \E i \in S : IsBlock(b, u, z, k, i)
  <2>1. PICK i \in S : IsBlock(m, u - x, z, k, i)
    BY <1>3 DEF Blocks
  <2>2. IsBlock(b, x + (u - x), z, k, i)
    BY <1>1, <1>3, <2>1
  <2> QED
    BY <1>3, <2>2
<1>5. ASSUME NEW i \in S PROVE \E u \in x .. (x + n) - 1 : IsBlock(b, u, z, k, i)
  <2>1. PICK t \in 0 .. n - 1 : IsBlock(m, t, z, k, i)
    BY DEF Blocks
  <2> QED
    BY <1>1, <1>2, <2>1
<1> QED
  BY <1>4, <1>5 DEF Blocks

\* A part of a buffer that is not written to.
LEMMA BlocksKept ==
    ASSUME NEW b, NEW c, NEW x \in Nat, NEW e \in Nat, NEW z \in Nat, NEW k, NEW S,
           Blocks(b, x, e, z, k, S),
           \A y \in x * (1 + z) + 1 .. e * (1 + z) : c[y] = b[y]
    PROVE  Blocks(c, x, e, z, k, S)
<1>1. ASSUME NEW t \in x .. e - 1, NEW i
      PROVE  IsBlock(c, t, z, k, i) <=> IsBlock(b, t, z, k, i)
  <2> DEFINE w == 1 + z
             tw == t * w
             xw == x * w
             ew == e * w
  <2>1. w \in Nat \ {0} /\ tw \in Nat /\ xw \in Nat /\ ew \in Nat /\ tw + w <= ew /\ xw <= tw
    <3>1. w \in Nat \ {0} /\ t \in Nat /\ t + 1 <= e /\ x <= t
      OBVIOUS
    <3> HIDE DEF w
    <3>2. (t + 1) * w <= e * w /\ (t + 1) * w = t * w + w /\ x * w <= t * w
      BY <3>1
    <3> QED
      BY <3>1, <3>2
  <2>2. \A y \in xw + 1 .. ew : c[y] = b[y]
    OBVIOUS
  <2>3. /\ IsBlock(c, t, z, k, i) <=>
             /\ c[tw + 1] = i
             /\ \A j \in 1 .. z : c[tw + 1 + j] = Datum(k, i, j)
        /\ IsBlock(b, t, z, k, i) <=>
             /\ b[tw + 1] = i
             /\ \A j \in 1 .. z : b[tw + 1 + j] = Datum(k, i, j)
    BY DEF IsBlock
  <2>4. w = 1 + z
    OBVIOUS
  <2> HIDE DEF w, tw, xw, ew
  <2>5. \A j \in 1 .. z : tw + 1 + j \in xw + 1 .. ew
    BY <2>1, <2>4
  <2>6. tw + 1 \in xw + 1 .. ew
    BY <2>1, <2>4
  <2> QED
    BY <2>2, <2>3, <2>5, <2>6
<1> QED
  BY <1>1 DEF Blocks

-----------------------------------------------------------------------------
(* The invariant: objects.                                                 *)

IsReceiving(s) == s.at = "recv_check" \/ (s.at = "out" /\ s.next = "recv_check")

\* The room in the buffers.
ExtRoom(s) == IF s.base = "gather" /\ IsRoot(s) THEN s.size * GroupSize(s.op) ELSE s.size

BufRoom(s) ==
    CASE s.base = "bcast"  -> 0
      [] s.base = "gather" -> (BranchTotal(s) + 1) * PerProc(s)
      [] s.base = "sum"    -> s.size * Children(s) + (IF IsRoot(s) THEN 0 ELSE s.size)

\* What s was set up for and has room for.
Prepared(p, s) ==
    \/ s = Idle
    \/ /\ s.op \in DOMAIN script /\ p \in Group(s.op)
       /\ s.base = script[s.op].kind
       /\ s.size = SizeOf(p, s.op)
       /\ s.tree = setGroupAndRootIndex(p, s.op)
       /\ Len(s.ext) = ExtRoom(s)
       /\ Len(s.buf) = BufRoom(s)

\* Where s is, its requests, and what it has still to send.
Control(s) ==
    /\ s.at = "out" => s.next # "recv_start" /\ (s.next = "none" <=> Over(s.req))
    /\ s.at # "out" => s.next # "none"
    /\ IsReceiving(s) => \A c \in AllSlots : s.req[c] # "null" => Source(s, c) # NoRank
    /\ s.left \subseteq Targets(s)
    /\ s.at # "send_start" => s.left = {} /\ s.send = "null"
    /\ s.send # "null" => s.left # {}

-----------------------------------------------------------------------------
(* The invariant: data.                                                    *)

(***************************************************************************)
(* What a caller must see to for the data: in a gather or a reduction, all *)
(* processes of the group give as much (AsyncCommGroup.h 340, 368).        *)
(***************************************************************************)
SameSizes ==
    \A k \in DOMAIN script : script[k].kind # "bcast" =>
        \A p, q \in Group(k) : SizeOf(p, k) = SizeOf(q, k)

\* The indices of those in the branch of p.
BranchOf(p, k) == IndicesIn(script[k].nchild, GroupSize(k), script[k].root, PosOf(p, k))

\* What there is of the root's data, and zeros beyond it.
RootSize(k) == script[k].sizes[script[k].root + 1]

Told(k, j) == IF j <= RootSize(k) THEN Datum(k, script[k].root, j) ELSE 0

\* The data of a broadcast, in b of size n.
HasTold(b, n, k) == RootSize(k) <= n /\ \A j \in 1 .. n : b[j] = Told(k, j)

\* p's own data are in b, after the first a.
HasOwn(b, a, n, p, k) == \A j \in 1 .. n : b[a + j] = Datum(k, IndexOf(p, k), j)

\* The sum of the data of p's branch is in b, after the first a.
HasSum(b, a, n, p, k) ==
    \A j \in 1 .. n : b[a + j] = SumOver(BranchOf(p, k), GroupSize(k), k, j)

\* Message m, of q in operation k.
Content(q, k, m) ==
    /\ script[k].kind = "bcast" => HasTold(m, SizeOf(q, k), k)
    /\ script[k].kind = "gather" =>
           Blocks(m, 0, Total(q, k) + 1, SizeOf(q, k), k, BranchOf(q, k))
    /\ script[k].kind = "sum" => HasSum(m, 0, SizeOf(q, k), q, k)

\* While s receives: what p has put into its buffers itself, and what has come for slot c.
OwnData(p, s) ==
    /\ ~(s.base = "bcast" /\ ~IsRoot(s)) /\ ~(s.base = "gather" /\ IsRoot(s)) =>
           HasOwn(s.ext, 0, s.size, p, s.op)
    /\ s.base = "bcast" /\ ~IsRoot(s) /\ s.req[0] = "active" =>
           \A j \in 1 .. s.size : s.ext[j] = 0
    /\ s.base = "gather" => IsBlock(s.buf, BranchTotal(s), s.size, s.op, IndexOf(p, s.op))
    /\ s.base = "sum" /\ ~IsRoot(s) => HasOwn(s.buf, Len(s.buf) - s.size, s.size, p, s.op)

SlotData(s, c) ==
    /\ s.base = "bcast" => HasTold(s.ext, s.size, s.op)
    /\ s.base = "gather" =>
           Blocks(s.buf, Older(s, c), Older(s, c) + s.tree.branch[c], s.size, s.op,
                  BranchOf(s.tree.child[c], s.op))
    /\ s.base = "sum" => HasSum(s.buf, c * s.size, s.size, s.tree.child[c], s.op)

\* The data of all, one after the other.
HasAll(b, z, k) ==
    \A i \in 0 .. GroupSize(k) - 1, j \in 1 .. z : b[i * z + j] = Datum(k, i, j)

\* When s has all: what it ends with, and what it sends.
FinalData(p, s) ==
    /\ s.base = "bcast" => HasTold(s.ext, s.size, s.op)
    /\ s.base # "bcast" /\ ~IsRoot(s) => HasOwn(s.ext, 0, s.size, p, s.op)
    /\ s.base = "gather" =>
           Blocks(s.buf, 0, BranchTotal(s) + 1, s.size, s.op, BranchOf(p, s.op))
    /\ s.base = "gather" /\ IsRoot(s) => HasAll(s.ext, s.size, s.op)
    /\ s.base = "sum" /\ IsRoot(s) => HasSum(s.ext, 0, s.size, p, s.op)
    /\ s.base = "sum" /\ ~IsRoot(s) =>
           HasSum(s.buf, Len(s.buf) - s.size, s.size, p, s.op)

DataOK(p, s) ==
    SameSizes /\ s.next # "none" =>
        IF IsReceiving(s)
        THEN /\ OwnData(p, s)
             /\ \A c \in AllSlots :
                   Source(s, c) # NoRank /\ s.req[c] # "active" => SlotData(s, c)
        ELSE FinalData(p, s)

ObjectOK(p, s) == s \in ProcType /\ Prepared(p, s) /\ Control(s) /\ DataOK(p, s)

-----------------------------------------------------------------------------
(* The invariant: channels.                                                *)

\* Operation k has q send to p.
Link(q, p, k) ==
    /\ k \in DOMAIN script /\ p \in Group(k) /\ q \in Group(k)
    /\ IF script[k].kind = "bcast" THEN setGroupAndRootIndex(p, k).parent = q
       ELSE setGroupAndRootIndex(q, k).parent = p

\* A message that is being sent, by a blocking send, is sent.
Unsent(s) == IF s.send = "null" THEN s.left ELSE s.left \ {Min(s.left)}

\* s, of q or of p, has sent, or received, the message from q to p of operation k.
Sent(s, p, k) ==
    \/ k < s.op
    \/ k = s.op /\ ~IsReceiving(s) /\ \A c \in Unsent(s) : Destination(s, c) # p

Got(s, q, k) ==
    \/ k < s.op
    \/ k = s.op /\ (IsReceiving(s) => \A c \in AllSlots : Source(s, c) = q => s.req[c] # "active")

Pending(q, p) ==
    {k \in DOMAIN script : Link(q, p, k) /\ Sent(proc[q], p, k) /\ ~Got(proc[p], q, k)}

MessageLength(q, k) ==
    IF script[k].kind = "gather" THEN (Total(q, k) + 1) * (1 + SizeOf(q, k)) ELSE SizeOf(q, k)

\* The messages in channel ch are those q sends in the operations ks, in order.
Carries(ch, ks, q, S) ==
    /\ ks \in Seq(Nat) /\ Len(ks) = Len(ch)
    /\ {ks[i] : i \in 1 .. Len(ks)} = S
    /\ \A i, j \in 1 .. Len(ks) : i < j => ks[i] < ks[j]
    /\ \A i \in 1 .. Len(ks) :
          Len(ch[i]) = MessageLength(q, ks[i]) /\ (SameSizes => Content(q, ks[i], ch[i]))

ChannelOK(q, p) ==
    /\ \E ks : Carries(chan[q][p], ks, q, Pending(q, p))
    /\ \A k : Link(q, p, k) /\ Got(proc[p], q, k) => Sent(proc[q], p, k)

GroupInv ==
    /\ TypeOK
    /\ \A p \in Ranks : ObjectOK(p, proc[p])
    /\ \A p, q \in Ranks : ChannelOK(q, p)

-----------------------------------------------------------------------------
(* The indices of a branch, put together from those of the children.       *)

\* Those below p in the slots before m.
PartsBefore(p, k, m) ==
    {i \in 0 .. GroupSize(k) - 1 :
        \E c \in AllSlots : /\ c < m /\ setGroupAndRootIndex(p, k).child[c] # NoRank
                            /\ i \in BranchOf(setGroupAndRootIndex(p, k).child[c], k)}

LEMMA ChildBranch ==
    ASSUME script \in Scripts, NEW k \in DOMAIN script, NEW p \in Group(k), NEW c \in AllSlots
    PROVE  LET q == setGroupAndRootIndex(p, k).child[c]
               n == script[k].nchild
               at == PosOf(p, k) * n + 1 + c
           IN  /\ at \in Nat
               /\ q # NoRank => /\ c \in 0 .. n - 1
                                /\ BranchOf(q, k) = IndicesIn(n, GroupSize(k), script[k].root, at)
               /\ q = NoRank /\ c \in 0 .. n - 1 => Branch(n, GroupSize(k), at) = {}
<1> DEFINE q == setGroupAndRootIndex(p, k).child[c]
           n == script[k].nchild
           size == GroupSize(k)
           at == PosOf(p, k) * n + 1 + c
<1>1. n \in Nat \ {0} /\ size \in Nat /\ c \in Nat
  BY OpFacts, SlotFacts DEF OpOK
<1>2. /\ at \in Nat \ {0}
      /\ q = IF c < n /\ at < size THEN RankOfPos(k, at) ELSE NoRank
  BY ChildByPosition
<1>3. ASSUME q # NoRank
      PROVE  c \in 0 .. n - 1 /\ BranchOf(q, k) = IndicesIn(n, size, script[k].root, at)
  <2>1. c < n /\ at < size /\ q = RankOfPos(k, at)
    BY <1>2, <1>3
  <2>2. PosOf(q, k) = at
    <3> HIDE DEF at
    <3>1. at \in 0 .. GroupSize(k) - 1
      BY <1>1, <1>2, <2>1
    <3> QED
      BY <2>1, <3>1, RankOfPosFacts
  <2>3. c \in 0 .. n - 1
    BY <1>1, <2>1
  <2> HIDE DEF at
  <2> QED
    BY <2>2, <2>3 DEF BranchOf
<1>4. ASSUME q = NoRank, c \in 0 .. n - 1 PROVE Branch(n, size, at) = {}
  <2>1. c < n
    BY <1>1, <1>4
  <2>2. at >= size
    <3>1. ASSUME at < size PROVE FALSE
      <4>1. q = RankOfPos(k, at)
        BY <1>2, <2>1, <3>1
      <4> HIDE DEF at
      <4>2. at \in 0 .. GroupSize(k) - 1
        BY <1>1, <1>2, <3>1
      <4>3. RankOfPos(k, at) # NoRank
        BY <4>2, RankOfPosFacts
      <4> QED
        BY <1>4, <4>1, <4>3
    <3> HIDE DEF at
    <3> QED
      BY <1>1, <1>2, <3>1
  <2> HIDE DEF at
  <2> QED
    BY <1>1, <1>2, <2>2, BranchParts
<1> QED
  BY <1>2, <1>3, <1>4

LEMMA PartsAdd ==
    ASSUME script \in Scripts, NEW k \in DOMAIN script, NEW p \in Group(k), NEW m \in AllSlots
    PROVE  LET q == setGroupAndRootIndex(p, k).child[m]
           IN  /\ q = NoRank => PartsBefore(p, k, m + 1) = PartsBefore(p, k, m)
               /\ q # NoRank => /\ PartsBefore(p, k, m + 1) = PartsBefore(p, k, m) \cup BranchOf(q, k)
                                /\ PartsBefore(p, k, m) \cap BranchOf(q, k) = {}
<1> DEFINE t == setGroupAndRootIndex(p, k)
           q == t.child[m]
           n == script[k].nchild
           size == GroupSize(k)
           root == script[k].root
           at(c) == PosOf(p, k) * n + 1 + c
<1>1. AllSlots \subseteq Nat /\ n \in Nat \ {0} /\ size \in Nat /\ PosOf(p, k) \in Nat
  BY SlotFacts, OpFacts, PosFacts DEF OpOK
<1>2. \A c \in AllSlots : c < m + 1 <=> c < m \/ c = m
  BY <1>1
<1>3. ~(m < m)
  BY <1>1
<1>4. q = NoRank => PartsBefore(p, k, m + 1) = PartsBefore(p, k, m)
  BY <1>2 DEF PartsBefore
<1>5. ASSUME q # NoRank PROVE BranchOf(q, k) \subseteq 0 .. size - 1
  BY DEF BranchOf, IndicesIn
<1>6. q # NoRank => PartsBefore(p, k, m + 1) = PartsBefore(p, k, m) \cup BranchOf(q, k)
  BY <1>2, <1>5 DEF PartsBefore
<1>7. ASSUME q # NoRank, NEW i \in PartsBefore(p, k, m), i \in BranchOf(q, k) PROVE FALSE
  <2>1. PICK c \in AllSlots : c < m /\ t.child[c] # NoRank /\ i \in BranchOf(t.child[c], k)
    BY DEF PartsBefore
  <2>2. c # m
    BY <1>3, <2>1
  <2>3. c \in 0 .. n - 1 /\ BranchOf(t.child[c], k) = IndicesIn(n, size, root, at(c))
    BY <2>1, ChildBranch
  <2>4. m \in 0 .. n - 1 /\ BranchOf(q, k) = IndicesIn(n, size, root, at(m))
    BY <1>7, ChildBranch
  <2>5. Branch(n, size, at(c)) \cap Branch(n, size, at(m)) = {}
    BY <1>1, <2>2, <2>3, <2>4, BranchParts
  <2> HIDE DEF at
  <2> QED
    BY <1>7, <2>1, <2>3, <2>4, <2>5 DEF IndicesIn
<1> QED
  BY <1>4, <1>6, <1>7

LEMMA PartsAll ==
    ASSUME script \in Scripts, NEW k \in DOMAIN script, NEW p \in Group(k)
    PROVE  /\ PartsBefore(p, k, 0) = {}
           /\ BranchOf(p, k) = PartsBefore(p, k, MaxChild) \cup {IndexOf(p, k)}
           /\ IndexOf(p, k) \notin PartsBefore(p, k, MaxChild)
           /\ PosOf(p, k) = 0 => BranchOf(p, k) = 0 .. GroupSize(k) - 1
<1> DEFINE t == setGroupAndRootIndex(p, k)
           n == script[k].nchild
           size == GroupSize(k)
           root == script[k].root
           pos == PosOf(p, k)
           at(c) == pos * n + 1 + c
           B(x) == Branch(n, size, x)
<1>1. /\ AllSlots = 0 .. MaxChild - 1 /\ MaxChild \in Nat /\ n \in 1 .. MaxChild
      /\ size \in Nat /\ pos \in Nat /\ pos < size /\ IndexOf(p, k) \in 0 .. size - 1
      /\ root \in 0 .. size - 1
  BY SlotFacts, OpFacts, PosFacts, IndexFacts DEF OpOK
<1>2. PartsBefore(p, k, 0) = {}
  BY <1>1 DEF PartsBefore
<1>3. pos = toPosition(root, IndexOf(p, k))
  BY DEF PosOf
\* An index with p's position is p's.
<1>4. ASSUME NEW i \in 0 .. size - 1, toPosition(root, i) = pos PROVE i = IndexOf(p, k)
  BY <1>1, <1>3, <1>4, PositionsAreIndices
<1>5. /\ pos \in B(pos)
      /\ \A c \in 0 .. n - 1 : pos \notin B(at(c)) /\ B(at(c)) \subseteq B(pos)
      /\ \A x \in B(pos) : x = pos \/ \E c \in 0 .. n - 1 : x \in B(at(c))
  <2>1. n \in Nat \ {0} /\ size \in Nat /\ pos \in Nat /\ pos < size
    BY <1>1
  <2> HIDE DEF n, size, pos
  <2> QED
    BY <2>1, BranchParts
<1>6. ASSUME NEW c \in AllSlots
      PROVE  /\ t.child[c] # NoRank => /\ c \in 0 .. n - 1
                                       /\ BranchOf(t.child[c], k) = IndicesIn(n, size, root, at(c))
             /\ t.child[c] = NoRank /\ c \in 0 .. n - 1 => B(at(c)) = {}
  BY ChildBranch
<1>7. \A c \in AllSlots : c < MaxChild
  BY <1>1
<1>8. \A c \in 0 .. n - 1 : c \in AllSlots
  BY <1>1
<1> HIDE DEF at, B
<1>9. ASSUME NEW i \in 0 .. size - 1
      PROVE  i \in PartsBefore(p, k, MaxChild) <=> \E c \in 0 .. n - 1 : toPosition(root, i) \in B(at(c))
  <2>1. ASSUME NEW c \in AllSlots, t.child[c] # NoRank, i \in BranchOf(t.child[c], k)
        PROVE  c \in 0 .. n - 1 /\ toPosition(root, i) \in B(at(c))
    BY <1>6, <2>1 DEF IndicesIn, B
  <2>2. ASSUME NEW c \in 0 .. n - 1, toPosition(root, i) \in B(at(c))
        PROVE  c \in AllSlots /\ t.child[c] # NoRank /\ i \in BranchOf(t.child[c], k)
    BY <1>6, <1>8, <2>2 DEF IndicesIn, B
  <2> QED
    BY <1>7, <2>1, <2>2 DEF PartsBefore
<1>10. \A i \in 0 .. size - 1 : i \in BranchOf(p, k) <=> toPosition(root, i) \in B(pos)
  BY DEF BranchOf, IndicesIn, B
<1>11. ASSUME NEW i \in 0 .. size - 1
       PROVE  i \in BranchOf(p, k) <=> i \in PartsBefore(p, k, MaxChild) \/ i = IndexOf(p, k)
  BY <1>3, <1>4, <1>5, <1>9, <1>10
<1>12. IndexOf(p, k) \notin PartsBefore(p, k, MaxChild)
  BY <1>1, <1>3, <1>5, <1>9
<1>13. BranchOf(p, k) \subseteq 0 .. size - 1 /\ PartsBefore(p, k, MaxChild) \subseteq 0 .. size - 1
  BY DEF BranchOf, IndicesIn, PartsBefore
<1>14. ASSUME pos = 0 PROVE BranchOf(p, k) = 0 .. size - 1
  <2>1. B(pos) = 0 .. size - 1
    BY <1>1, <1>14, AllBelowRoot DEF B
  <2>2. \A i \in 0 .. size - 1 : toPosition(root, i) \in 0 .. size - 1
    BY <1>1, PositionsAreIndices
  <2> QED
    BY <1>10, <1>13, <2>1, <2>2
<1> QED
  BY <1>1, <1>2, <1>11, <1>12, <1>13, <1>14

-----------------------------------------------------------------------------
(* The least and the greatest of a set of slots or blocks.                 *)

LEMMA MinIn ==
    ASSUME NEW S \in SUBSET Nat, S # {}
    PROVE  Min(S) \in S
<1>1. \E x \in S : \A y \in S : x <= y
  BY LeastNatural
<1> QED
  BY <1>1 DEF Min

LEMMA MaxIn ==
    ASSUME NEW b \in Nat, NEW S \in SUBSET (0 .. b), S # {}
    PROVE  Max(S) \in S
<1> DEFINE T == {b - x : x \in S}
<1>1. T \in SUBSET Nat /\ T # {}
  <2>1. \A x \in S : x \in 0 .. b
    OBVIOUS
  <2>2. \A x \in S : b - x \in Nat
    BY <2>1
  <2>3. T \subseteq Nat
    BY <2>2
  <2> QED
    BY <2>3
<1>2. PICK m \in T : \A y \in T : m <= y
  BY <1>1, LeastNatural
<1>3. PICK x \in S : m = b - x
  BY <1>2
<1>4. ASSUME NEW y \in S PROVE x >= y
  <2>1. m <= b - y
    BY <1>2
  <2> QED
    BY <1>3, <2>1
<1> QED
  BY <1>3, <1>4 DEF Max

-----------------------------------------------------------------------------
(* The script stays: what the operators say stays.                         *)

LEMMA SameScript ==
    ASSUME script' = script, NEW p, NEW k
    PROVE  /\ setGroupAndRootIndex(p, k)' = setGroupAndRootIndex(p, k)
           /\ Group(k)' = Group(k) /\ GroupSize(k)' = GroupSize(k)
           /\ SizeOf(p, k)' = SizeOf(p, k) /\ Total(p, k)' = Total(p, k)
           /\ MessageLength(p, k)' = MessageLength(p, k)
  BY DEF setGroupAndRootIndex, computeDependentData, RankAt, GroupSize, IndexOf, Group, SizeOf,
         Total, MessageLength

LEMMA SameLink ==
    ASSUME script' = script, NEW p, NEW q, NEW k
    PROVE  Link(q, p, k)' <=> Link(q, p, k)
  BY SameScript DEF Link

LEMMA SameBranch ==
    ASSUME script' = script, NEW p, NEW k
    PROVE  /\ IndexOf(p, k)' = IndexOf(p, k)
           /\ BranchOf(p, k)' = BranchOf(p, k)
           /\ RootSize(k)' = RootSize(k)
  BY DEF IndexOf, BranchOf, PosOf, GroupSize, RootSize

LEMMA SameNumbers ==
    ASSUME script' = script, NEW b, NEW a, NEW n, NEW p, NEW k
    PROVE  /\ HasTold(b, n, k)' <=> HasTold(b, n, k)
           /\ HasOwn(b, a, n, p, k)' <=> HasOwn(b, a, n, p, k)
           /\ HasSum(b, a, n, p, k)' <=> HasSum(b, a, n, p, k)
<1>1. HasTold(b, n, k)' <=> HasTold(b, n, k)
  BY SameBranch DEF HasTold, Told
<1>2. HasOwn(b, a, n, p, k)' <=> HasOwn(b, a, n, p, k)
  BY SameBranch DEF HasOwn
<1>3. HasSum(b, a, n, p, k)' <=> HasSum(b, a, n, p, k)
  BY SameBranch, SameScript DEF HasSum
<1> QED
  BY <1>1, <1>2, <1>3

LEMMA SameContent ==
    ASSUME script' = script, NEW q, NEW k, NEW m
    PROVE  /\ Content(q, k, m)' <=> Content(q, k, m)
           /\ SameSizes' <=> SameSizes
<1>1. SameSizes' <=> SameSizes
  BY SameScript DEF SameSizes
<1>2. Content(q, k, m)' <=> Content(q, k, m)
  BY SameBranch, SameNumbers, SameScript DEF Content
<1> QED
  BY <1>1, <1>2

LEMMA SameData ==
    ASSUME script' = script, NEW p, NEW s
    PROVE  DataOK(p, s)' <=> DataOK(p, s)
<1>1. OwnData(p, s)' <=> OwnData(p, s)
  BY SameBranch, SameNumbers DEF OwnData
<1>2. ASSUME NEW c PROVE SlotData(s, c)' <=> SlotData(s, c)
  BY SameBranch, SameNumbers DEF SlotData
<1>3. FinalData(p, s)' <=> FinalData(p, s)
  <2>1. HasAll(s.ext, s.size, s.op)' <=> HasAll(s.ext, s.size, s.op)
    BY SameScript DEF HasAll
  <2> QED
    BY <2>1, SameBranch, SameNumbers DEF FinalData
<1>4. SameSizes' <=> SameSizes
  BY SameContent
<1> QED
  BY <1>1, <1>2, <1>3, <1>4 DEF DataOK

LEMMA SameObject ==
    ASSUME script' = script, NEW p, NEW s
    PROVE  ObjectOK(p, s)' <=> ObjectOK(p, s)
<1>1. Prepared(p, s)' <=> Prepared(p, s)
  BY DEF Prepared, ExtRoom, setGroupAndRootIndex, computeDependentData,
         RankAt, GroupSize, IndexOf, Group, SizeOf
<1> QED
  BY <1>1, SameData DEF ObjectOK

LEMMA SameCarries ==
    ASSUME script' = script, NEW ch, NEW ks, NEW q, NEW S
    PROVE  Carries(ch, ks, q, S)' <=> Carries(ch, ks, q, S)
  BY SameScript, SameContent DEF Carries

-----------------------------------------------------------------------------
(* Links, by the slots of those they connect.                              *)

\* s is set up for operation k of p.
SetFor(p, s, k) ==
    /\ k \in DOMAIN script /\ p \in Group(k)
    /\ s.base = script[k].kind
    /\ s.tree = setGroupAndRootIndex(p, k)

LEMMA LinkEnds ==
    ASSUME script \in Scripts, NEW q, NEW p, NEW k, Link(q, p, k)
    PROVE  /\ k \in DOMAIN script /\ k \in Nat \ {0} /\ p \in Group(k) /\ q \in Group(k)
           /\ p \in Ranks /\ q \in Ranks /\ p # NoRank /\ q # NoRank /\ p # q
<1>1. k \in DOMAIN script /\ p \in Group(k) /\ q \in Group(k)
  BY DEF Link
<1>2. OpOK(k)
  BY <1>1, OpFacts
<1>3. p \in Ranks /\ q \in Ranks /\ p # NoRank /\ q # NoRank
  BY <1>1, IndexFacts
<1>4. setGroupAndRootIndex(p, k).parent = q => p # q
  BY <1>1, <1>3, ParentFacts
<1>5. setGroupAndRootIndex(q, k).parent = p => p # q
  BY <1>1, <1>3, ParentFacts
<1> QED
  BY <1>1, <1>2, <1>3, <1>4, <1>5 DEF Link, OpOK

LEMMA LinkSource ==
    ASSUME script \in Scripts, NEW q, NEW p, NEW k, Link(q, p, k), NEW s, SetFor(p, s, k)
    PROVE  \E c \in AllSlots : Source(s, c) = q
<1>1. /\ p \in Group(k) /\ q \in Group(k) /\ k \in DOMAIN script /\ p # NoRank /\ 0 \in AllSlots
  BY LinkEnds, SlotFacts
<1>2. CASE s.base = "bcast"
  <2>1. Source(s, 0) = q
    BY <1>2 DEF Source, Link, SetFor
  <2> QED
    BY <1>1, <2>1
<1>3. CASE s.base # "bcast"
  <2>1. setGroupAndRootIndex(q, k).parent = p
    BY <1>3 DEF Link, SetFor
  <2>2. PICK c \in AllSlots : setGroupAndRootIndex(p, k).child[c] = q
    BY <1>1, <2>1, ParentFacts
  <2> QED
    BY <1>3, <2>2 DEF Source, SetFor
<1> QED
  BY <1>2, <1>3

LEMMA LinkDestination ==
    ASSUME script \in Scripts, NEW q, NEW p, NEW k, Link(p, q, k), NEW s, SetFor(p, s, k)
    PROVE  \E c \in AllSlots : Destination(s, c) = q
<1>1. /\ p \in Group(k) /\ q \in Group(k) /\ k \in DOMAIN script /\ p # NoRank /\ 0 \in AllSlots
  BY LinkEnds, SlotFacts
<1>2. CASE s.base # "bcast"
  <2>1. Destination(s, 0) = q
    BY <1>2 DEF Destination, Link, SetFor
  <2> QED
    BY <1>1, <2>1
<1>3. CASE s.base = "bcast"
  <2>1. setGroupAndRootIndex(q, k).parent = p
    BY <1>3 DEF Link, SetFor
  <2>2. PICK c \in AllSlots : setGroupAndRootIndex(p, k).child[c] = q
    BY <1>1, <2>1, ParentFacts
  <2> QED
    BY <1>3, <2>2 DEF Destination, SetFor
<1> QED
  BY <1>2, <1>3

LEMMA SourceLink ==
    ASSUME script \in Scripts, NEW p, NEW k, NEW s, SetFor(p, s, k), NEW c \in AllSlots,
           NEW q, q = Source(s, c), q # NoRank
    PROVE  /\ Link(q, p, k)
           /\ \A d \in AllSlots : Source(s, d) = q => d = c
<1>1. p \in Group(k) /\ k \in DOMAIN script
  BY DEF SetFor
<1>2. CASE s.base = "bcast"
  <2>1. c = 0 /\ q = setGroupAndRootIndex(p, k).parent
    BY <1>2 DEF Source, SetFor
  <2>2. q \in Group(k)
    BY <1>1, <2>1, ParentFacts
  <2> QED
    BY <1>1, <1>2, <2>1, <2>2 DEF Link, SetFor, Source
<1>3. CASE s.base # "bcast"
  <2>1. q = setGroupAndRootIndex(p, k).child[c]
    BY <1>3 DEF Source, SetFor
  <2>2. /\ q \in Group(k)
        /\ setGroupAndRootIndex(q, k).parent = p
        /\ \A d \in AllSlots : setGroupAndRootIndex(p, k).child[d] = q => d = c
    BY <1>1, <2>1, ChildFacts
  <2> QED
    BY <1>1, <1>3, <2>2 DEF Link, SetFor, Source
<1> QED
  BY <1>2, <1>3

LEMMA DestinationLink ==
    ASSUME script \in Scripts, NEW p, NEW k, NEW s, SetFor(p, s, k), NEW c \in AllSlots,
           NEW q, q = Destination(s, c), q # NoRank
    PROVE  /\ Link(p, q, k)
           /\ \A d \in AllSlots : Destination(s, d) = q => d = c
<1>1. p \in Group(k) /\ k \in DOMAIN script
  BY DEF SetFor
<1>2. CASE s.base # "bcast"
  <2>1. c = 0 /\ q = setGroupAndRootIndex(p, k).parent
    BY <1>2 DEF Destination, SetFor
  <2>2. q \in Group(k)
    BY <1>1, <2>1, ParentFacts
  <2> QED
    BY <1>1, <1>2, <2>1, <2>2 DEF Link, SetFor, Destination
<1>3. CASE s.base = "bcast"
  <2>1. q = setGroupAndRootIndex(p, k).child[c]
    BY <1>3 DEF Destination, SetFor
  <2>2. /\ q \in Group(k)
        /\ setGroupAndRootIndex(q, k).parent = p
        /\ \A d \in AllSlots : setGroupAndRootIndex(p, k).child[d] = q => d = c
    BY <1>1, <2>1, ChildFacts
  <2> QED
    BY <1>1, <1>3, <2>2 DEF Link, SetFor, Destination
<1> QED
  BY <1>2, <1>3

\* An object that sends or receives has begun an operation.
LEMMA Started ==
    ASSUME NEW p, NEW s, ObjectOK(p, s), s.next # "none" \/ s.left # {}
    PROVE  SetFor(p, s, s.op) /\ s.size = SizeOf(p, s.op) /\ Len(s.ext) = ExtRoom(s)
           /\ Len(s.buf) = BufRoom(s)
  BY DEF ObjectOK, Prepared, SetFor, Idle

-----------------------------------------------------------------------------
(* Init and the quiet steps: those after which each has sent and received  *)
(* what it had.                                                            *)

LEMMA IdleType == Idle \in ProcType
<1>1. NoTree \in [parent : Ranks \cup {NoRank}, child : [AllSlots -> Ranks \cup {NoRank}],
                  branch : [AllSlots -> Nat]]
  BY DEF NoTree
<1>2. <<>> \in Seq(Int)
  OBVIOUS
<1> QED
  BY <1>1, <1>2 DEF Idle, ProcType, RequestStates

LEMMA GroupInit == Init => GroupInv
<1> SUFFICES ASSUME Init PROVE GroupInv
  OBVIOUS
<1>1. script \in Scripts
  BY DEF Init
<1>2. Idle \in ProcType
  BY IdleType
<1>3. TypeOK
  <2>1. <<>> \in Seq(Seq(Int))
    OBVIOUS
  <2> QED
    BY <1>1, <1>2, <2>1 DEF Init, TypeOK
<1>4. ASSUME NEW p \in Ranks PROVE ObjectOK(p, proc[p])
  <2>1. proc[p] = Idle
    BY DEF Init
  <2>2. Prepared(p, Idle)
    BY DEF Prepared
  <2>3. Control(Idle)
    BY DEF Control, Idle, Over, IsReceiving
  <2>4. DataOK(p, Idle)
    BY DEF DataOK, Idle
  <2> QED
    BY <1>2, <2>1, <2>2, <2>3, <2>4 DEF ObjectOK
<1>5. ASSUME NEW p \in Ranks, NEW q \in Ranks PROVE ChannelOK(q, p)
  <2>1. proc[p].op = 0 /\ proc[q].op = 0 /\ chan[q][p] = <<>>
    BY DEF Init, Idle
  <2>2. ASSUME NEW k, Link(q, p, k) PROVE ~Sent(proc[q], p, k) /\ ~Got(proc[p], q, k)
    <3>1. k \in Nat \ {0}
      BY <1>1, <2>2, LinkEnds
    <3> QED
      BY <2>1, <3>1 DEF Sent, Got
  <2>3. Pending(q, p) = {}
    BY <2>2 DEF Pending
  <2>4. Carries(<<>>, <<>>, q, {})
    BY DEF Carries
  <2> QED
    BY <2>1, <2>2, <2>3, <2>4 DEF ChannelOK
<1> QED
  BY <1>3, <1>4, <1>5 DEF GroupInv

\* The data of an object stay as they must be when buffers stay and nothing comes.
LEMMA DataStays ==
    ASSUME NEW p, NEW s, DataOK(p, s), NEW v, v.next # "none" => s.next # "none",
           v.op = s.op, v.base = s.base, v.tree = s.tree, v.size = s.size,
           v.ext = s.ext, v.buf = s.buf, IsReceiving(v) <=> IsReceiving(s),
           IsReceiving(s) => \A c \in AllSlots : v.req[c] = "active" <=> s.req[c] = "active"
    PROVE  DataOK(p, v)
<1>1. /\ IsRoot(v) <=> IsRoot(s)
      /\ \A c : Older(v, c) = Older(s, c) /\ Source(v, c) = Source(s, c)
      /\ BranchTotal(v) = BranchTotal(s)
  BY DEF IsRoot, Older, BranchTotal, Source
<1>2. CASE IsReceiving(s)
  <2>1. OwnData(p, s) => OwnData(p, v)
    BY <1>1, <1>2, SlotFacts DEF OwnData
  <2>2. \A c \in AllSlots : SlotData(s, c) => SlotData(v, c)
    BY <1>1 DEF SlotData
  <2> QED
    BY <1>1, <1>2, <2>1, <2>2 DEF DataOK
<1>3. CASE ~IsReceiving(s)
  <2>1. FinalData(p, s) => FinalData(p, v)
    BY <1>1 DEF FinalData
  <2> QED
    BY <1>3, <2>1 DEF DataOK
<1> QED
  BY <1>2, <1>3

\* What a step of p that leaves the messages alone must see to.
SentSame(p, v) ==
    \A q \in Ranks : \A k : Link(p, q, k) => (Sent(v, q, k) <=> Sent(proc[p], q, k))

GotSame(p, v) ==
    \A q \in Ranks : \A k : Link(q, p, k) => (Got(v, q, k) <=> Got(proc[p], q, k))

\* Channels between others stay as they are, and so does the one of a step
\* that changes neither the channel nor what its ends have done.
LEMMA SameChannel ==
    ASSUME GroupInv, script' = script, NEW p \in Ranks, NEW q \in Ranks,
           chan'[q][p] = chan[q][p],
           \A k : Link(q, p, k) => (Sent(proc'[q], p, k) <=> Sent(proc[q], p, k)),
           \A k : Link(q, p, k) => (Got(proc'[p], q, k) <=> Got(proc[p], q, k))
    PROVE  ChannelOK(q, p)'
<1>1. ChannelOK(q, p)
  BY DEF GroupInv
<1>2. ASSUME NEW k PROVE Link(q, p, k)' <=> Link(q, p, k)
  BY SameLink
<1>3. Pending(q, p)' = Pending(q, p)
  <2>1. ASSUME NEW k PROVE k \in Pending(q, p)' <=> k \in Pending(q, p)
    BY <1>2 DEF Pending
  <2> QED
    BY <2>1
<1>4. PICK ks : Carries(chan[q][p], ks, q, Pending(q, p))
  BY <1>1 DEF ChannelOK
<1>5. Carries(chan[q][p], ks, q, Pending(q, p))'
  <2>1. ASSUME NEW ch, NEW S, ch = chan[q][p], S = Pending(q, p) PROVE Carries(ch, ks, q, S)'
    BY <1>4, <2>1, SameCarries
  <2> QED
    BY <1>3, <2>1
<1> QED
  BY <1>1, <1>2, <1>5 DEF ChannelOK

LEMMA QuietStep ==
    ASSUME GroupInv, script' = script, chan' = chan, results' \in [Ranks -> Seq(Seq(Int))],
           NEW p \in Ranks, NEW v, proc' = [proc EXCEPT ![p] = v],
           ObjectOK(p, v), SentSame(p, v), GotSame(p, v)
    PROVE  GroupInv'
<1>1. proc \in [Ranks -> ProcType] /\ script \in Scripts /\ chan \in [Ranks -> [Ranks -> Seq(Seq(Int))]]
  BY DEF GroupInv, TypeOK
<1>2. \A q \in Ranks : proc'[q] = IF q = p THEN v ELSE proc[q]
  BY <1>1
<1>3. TypeOK'
  <2>1. v \in ProcType
    BY DEF ObjectOK
  <2> QED
    BY <1>1, <2>1 DEF TypeOK, ProcType
<1>4. ASSUME NEW q \in Ranks PROVE ObjectOK(q, proc[q])'
  <2>1. ASSUME NEW s, s = proc'[q] PROVE ObjectOK(q, s)'
    <3>1. ObjectOK(q, s)
      BY <1>2, <2>1 DEF GroupInv
    <3> QED
      BY <3>1, SameObject
  <2> QED
    BY <2>1
<1>5. ASSUME NEW a \in Ranks, NEW b \in Ranks PROVE ChannelOK(a, b)'
  <2>1. \A k : Link(a, b, k) => (Sent(proc'[a], b, k) <=> Sent(proc[a], b, k))
    BY <1>2 DEF SentSame
  <2>2. \A k : Link(a, b, k) => (Got(proc'[b], a, k) <=> Got(proc[b], a, k))
    BY <1>2 DEF GotSame
  <2> QED
    BY <2>1, <2>2, SameChannel
<1> QED
  BY <1>3, <1>4, <1>5 DEF GroupInv

-----------------------------------------------------------------------------
(* Proceeding, and the completion of a send.                               *)

LEMMA ProceedKeeps ==
    ASSUME GroupInv, NEW p \in Ranks, NEW S \in SUBSET Arrived(p), Proceed(p, S)
    PROVE  GroupInv'
<1> DEFINE s == proc[p]
           req == [c \in AllSlots |-> IF c \in S THEN "null" ELSE s.req[c]]
           v == [s EXCEPT !.req = req, !.at = s.next]
<1>1. /\ s \in ProcType /\ ObjectOK(p, s) /\ script' = script /\ chan' = chan
      /\ proc \in [Ranks -> ProcType] /\ results' \in [Ranks -> Seq(Seq(Int))]
  BY DEF GroupInv, TypeOK, Proceed
<1>2. proc' = [proc EXCEPT ![p] = v]
  BY <1>1 DEF Proceed, ProcType
<1>3. s.at = "out" /\ s.next \in {"recv_check", "send_check"}
  BY <1>1 DEF Proceed, isDone, ObjectOK, Control, ProcType
<1>4. \A c \in S : s.req[c] = "arrived"
  BY DEF Arrived
<1>5. /\ v.at = s.next /\ v.next = s.next /\ v.req = req /\ v.op = s.op /\ v.base = s.base
      /\ v.tree = s.tree /\ v.left = s.left /\ v.send = s.send /\ v.size = s.size
      /\ v.ext = s.ext /\ v.buf = s.buf
  BY <1>1 DEF ProcType
<1>6. v \in ProcType
  <2>1. req \in [AllSlots -> RequestStates]
    BY <1>1 DEF ProcType, RequestStates
  <2> QED
    BY <1>1, <1>3, <2>1 DEF ProcType
<1>7. \A c \in AllSlots : /\ v.req[c] = "active" <=> s.req[c] = "active"
                          /\ v.req[c] # "null" => s.req[c] # "null"
                          /\ Source(v, c) = Source(s, c) /\ Destination(v, c) = Destination(s, c)
  BY <1>4, <1>5 DEF Source, Destination
<1>8. (IsReceiving(v) <=> IsReceiving(s)) /\ Unsent(v) = Unsent(s) /\ Targets(v) = Targets(s)
  BY <1>3, <1>5, <1>7 DEF IsReceiving, Unsent, Targets
<1>9. ObjectOK(p, v)
  <2>1. Prepared(p, v)
    <3>1. s # Idle
      BY <1>3 DEF Idle
    <3> QED
      BY <1>1, <1>5, <3>1 DEF ObjectOK, Prepared, ExtRoom, BufRoom, IsRoot, BranchTotal, Older,
         PerProc, Children
  <2>2. Control(v)
    BY <1>1, <1>3, <1>5, <1>7, <1>8 DEF ObjectOK, Control
  <2>3. DataOK(p, v)
    <3>1. s.next # "none" /\ DataOK(p, s)
      BY <1>1, <1>3 DEF ObjectOK
    <3> HIDE DEF v
    <3> QED
      BY <1>5, <1>7, <1>8, <3>1, DataStays
  <2> QED
    BY <1>6, <2>1, <2>2, <2>3 DEF ObjectOK
<1>10. SentSame(p, v)
  <2>1. Unsent(s) \subseteq AllSlots
    BY <1>1 DEF ProcType, Unsent
  <2> QED
    BY <1>5, <1>7, <1>8, <2>1 DEF SentSame, Sent
<1>11. GotSame(p, v)
  BY <1>5, <1>7, <1>8 DEF GotSame, Got
<1> HIDE DEF v
<1> QED
  BY <1>1, <1>2, <1>9, <1>10, <1>11, QuietStep

\* v is the object s in the same operation, with as much room.
SameSetting(s, v) ==
    /\ v.op = s.op /\ v.base = s.base /\ v.size = s.size /\ v.tree = s.tree
    /\ Len(v.ext) = Len(s.ext) /\ Len(v.buf) = Len(s.buf)

LEMMA SettingKept ==
    ASSUME NEW p, NEW s, NEW v, Prepared(p, s), s # Idle, SameSetting(s, v)
    PROVE  /\ Prepared(p, v) /\ Targets(v) = Targets(s)
           /\ \A c \in AllSlots : Source(v, c) = Source(s, c)
                                  /\ Destination(v, c) = Destination(s, c)
<1>1. Prepared(p, v)
  BY DEF SameSetting, Prepared, ExtRoom, BufRoom, IsRoot, BranchTotal, Older, PerProc, Children
<1>2. \A c \in AllSlots : Source(v, c) = Source(s, c) /\ Destination(v, c) = Destination(s, c)
  BY DEF SameSetting, Source, Destination
<1> QED
  BY <1>1, <1>2 DEF Targets

(***************************************************************************)
(* A step of p within its operation, in a phase, of receiving or sending,  *)
(* that it does not leave, is quiet if it leaves alone what is unsent and  *)
(* which receives are active.                                              *)
(***************************************************************************)
LEMMA PhaseStep ==
    ASSUME GroupInv, script' = script, chan' = chan, results' \in [Ranks -> Seq(Seq(Int))],
           NEW p \in Ranks, NEW v, proc' = [proc EXCEPT ![p] = v],
           proc[p] # Idle, v \in ProcType, SameSetting(proc[p], v), Control(v),
           IsReceiving(v) <=> IsReceiving(proc[p]),
           ~IsReceiving(v) => Unsent(v) = Unsent(proc[p]),
           IsReceiving(v) =>
             \A c \in AllSlots : v.req[c] = "active" <=> proc[p].req[c] = "active",
           v.ext = proc[p].ext, v.buf = proc[p].buf, v.next # "none" => proc[p].next # "none"
    PROVE  GroupInv'
<1> DEFINE s == proc[p]
<1>1. ObjectOK(p, s) /\ s \in ProcType
  BY DEF GroupInv, ObjectOK
<1>2. /\ Prepared(p, v)
      /\ \A c \in AllSlots : Source(v, c) = Source(s, c) /\ Destination(v, c) = Destination(s, c)
  BY <1>1, SettingKept DEF ObjectOK
<1>3. ObjectOK(p, v)
  <2>1. DataOK(p, s)
    BY <1>1 DEF ObjectOK
  <2>2. DataOK(p, v)
    BY <2>1, DataStays DEF SameSetting
  <2> QED
    BY <1>2, <2>2 DEF ObjectOK
<1>4. SentSame(p, v)
  <2>1. Unsent(s) \subseteq AllSlots
    BY <1>1 DEF ProcType, Unsent
  <2> QED
    BY <1>2, <2>1 DEF SentSame, Sent, SameSetting
<1>5. GotSame(p, v)
  BY <1>2 DEF GotSame, Got, SameSetting
<1> QED
  BY <1>3, <1>4, <1>5, QuietStep

LEMMA SendCompletesKeeps ==
    ASSUME GroupInv, NEW p \in Ranks, NEW c \in AllSlots, SendCompletes(p, c)
    PROVE  GroupInv'
<1> DEFINE s == proc[p]
<1>1. /\ s \in ProcType /\ ObjectOK(p, s) /\ script' = script /\ chan' = chan
      /\ proc \in [Ranks -> ProcType] /\ results' \in [Ranks -> Seq(Seq(Int))]
  BY DEF GroupInv, TypeOK, SendCompletes
<1>2. ~IsReceiving(s)
  BY DEF SendCompletes, Receiving, IsReceiving
<1>3. CASE s.req[c] = "active" /\ proc' = [proc EXCEPT ![p].req[c] = "arrived"]
  <2> DEFINE v == [s EXCEPT !.req[c] = "arrived"]
  <2>1. proc' = [proc EXCEPT ![p] = v]
    BY <1>1, <1>3
  <2>2. v \in ProcType
    BY <1>1 DEF ProcType, RequestStates
  <2>3. SameSetting(s, v) /\ v.ext = s.ext /\ v.buf = s.buf /\ v.at = s.at /\ v.next = s.next
        /\ v.left = s.left /\ v.send = s.send
    BY <1>1 DEF ProcType, SameSetting
  <2>4. ~Over(s.req) /\ ~Over(v.req)
    BY <1>1, <1>3 DEF ProcType, Over
  <2>5. s # Idle
    BY <2>4 DEF Idle, Over
  <2>6. ~IsReceiving(v) /\ Unsent(v) = Unsent(s)
    BY <1>2, <2>3 DEF IsReceiving, Unsent
  <2>7. Targets(v) = Targets(s)
    BY <1>1, <2>3, <2>5, SettingKept DEF ObjectOK
  <2>8. Control(v)
    BY <1>1, <2>3, <2>4, <2>6, <2>7 DEF ObjectOK, Control
  <2> HIDE DEF v
  <2> QED
    BY <1>1, <1>2, <2>1, <2>2, <2>3, <2>5, <2>6, <2>8, PhaseStep
<1>4. CASE s.send = "active" /\ proc' = [proc EXCEPT ![p].send = "arrived"]
  <2> DEFINE v == [s EXCEPT !.send = "arrived"]
  <2>1. proc' = [proc EXCEPT ![p] = v]
    BY <1>1, <1>4
  <2>2. v \in ProcType
    BY <1>1 DEF ProcType, RequestStates
  <2>3. SameSetting(s, v) /\ v.ext = s.ext /\ v.buf = s.buf /\ v.at = s.at /\ v.next = s.next
        /\ v.left = s.left /\ v.req = s.req
        /\ v.send = "arrived"
    BY <1>1 DEF ProcType, SameSetting
  <2>4. s # Idle
    BY <1>4 DEF Idle
  <2>5. ~IsReceiving(v) /\ Unsent(v) = Unsent(s)
    BY <1>2, <1>4, <2>3 DEF IsReceiving, Unsent
  <2>6. Targets(v) = Targets(s)
    BY <1>1, <2>3, <2>4, SettingKept DEF ObjectOK
  <2>7. Control(v)
    BY <1>1, <1>4, <2>3, <2>5, <2>6 DEF ObjectOK, Control
  <2> HIDE DEF v
  <2> QED
    BY <1>1, <1>2, <2>1, <2>2, <2>3, <2>4, <2>5, <2>7, PhaseStep
<1> QED
  BY <1>3, <1>4 DEF SendCompletes

-----------------------------------------------------------------------------
(* The check method, but for what it receives and sends.                   *)

LEMMA TestedFacts ==
    ASSUME NEW s \in ProcType
    PROVE  /\ Tested(s) \in [AllSlots -> RequestStates]
           /\ \A c \in AllSlots : /\ Tested(s)[c] = "active" <=> s.req[c] = "active"
                                  /\ Tested(s)[c] # "null" => s.req[c] # "null"
  BY DEF Tested, ProcType, RequestStates

LEMMA send_checkKeeps ==
    ASSUME GroupInv, NEW p \in Ranks, send_check(p)
    PROVE  GroupInv'
<1> DEFINE s == proc[p]
           req == Tested(s)
           v == [s EXCEPT !.req = req, !.at = "out",
                          !.next = IF Over(req) THEN "none" ELSE "send_check"]
<1>1. /\ s \in ProcType /\ ObjectOK(p, s) /\ script' = script /\ chan' = chan
      /\ proc \in [Ranks -> ProcType] /\ results \in [Ranks -> Seq(Seq(Int))]
  BY DEF GroupInv, TypeOK, send_check
<1>2. s.at = "send_check" /\ proc' = [proc EXCEPT ![p] = v]
  BY DEF send_check
<1>3. results' \in [Ranks -> Seq(Seq(Int))]
  <2>1. s.ext \in Seq(Int) /\ results[p] \in Seq(Seq(Int))
    BY <1>1 DEF ProcType
  <2>2. Append(results[p], s.ext) \in Seq(Seq(Int))
    BY <2>1
  <2> QED
    BY <1>1, <2>2 DEF send_check
<1>4. req \in [AllSlots -> RequestStates]
  BY <1>1, TestedFacts
<1> HIDE DEF req
<1>5. v \in ProcType
  BY <1>1, <1>4 DEF ProcType
<1>6. /\ SameSetting(s, v) /\ v.ext = s.ext /\ v.buf = s.buf /\ v.at = "out"
      /\ v.left = s.left /\ v.send = s.send /\ v.req = req
      /\ v.next = IF Over(req) THEN "none" ELSE "send_check"
  BY <1>1 DEF ProcType, SameSetting
<1>7. s # Idle
  BY <1>2 DEF Idle
<1>8. ~IsReceiving(s) /\ ~IsReceiving(v) /\ Unsent(v) = Unsent(s)
  BY <1>2, <1>6 DEF IsReceiving, Unsent
<1>9. Targets(v) = Targets(s)
  BY <1>1, <1>6, <1>7, SettingKept DEF ObjectOK
<1>10. Control(v)
  BY <1>1, <1>2, <1>6, <1>8, <1>9 DEF ObjectOK, Control
<1>11. s.next # "none"
  BY <1>1, <1>2 DEF ObjectOK, Control
<1> HIDE DEF v
<1> QED
  BY <1>1, <1>2, <1>3, <1>5, <1>6, <1>7, <1>8, <1>10, <1>11, PhaseStep

\* A blocking send is over, or nothing is left to send.
LEMMA NoSendKeeps ==
    ASSUME GroupInv, NEW p \in Ranks, send_start(p),
           proc[p].left = {} \/ proc[p].send # "null"
    PROVE  GroupInv'
<1> DEFINE s == proc[p]
<1>1. /\ s \in ProcType /\ ObjectOK(p, s) /\ script' = script
      /\ proc \in [Ranks -> ProcType] /\ results' \in [Ranks -> Seq(Seq(Int))]
  BY DEF GroupInv, TypeOK, send_start
<1>2. s.at = "send_start"
  BY DEF send_start
<1>3. s # Idle /\ ~IsReceiving(s)
  BY <1>2 DEF Idle, IsReceiving
<1>4. CASE /\ s.send = "arrived" /\ chan' = chan
           /\ proc' = [proc EXCEPT ![p].send = "null", ![p].left = @ \ {Min(s.left)}]
  <2> DEFINE v == [s EXCEPT !.send = "null", !.left = s.left \ {Min(s.left)}]
  <2>1. proc' = [proc EXCEPT ![p] = v]
    BY <1>1, <1>4
  <2>2. v \in ProcType
    BY <1>1 DEF ProcType, RequestStates
  <2>3. /\ SameSetting(s, v) /\ v.ext = s.ext /\ v.buf = s.buf /\ v.at = s.at
        /\ v.next = s.next /\ v.req = s.req
        /\ v.send = "null" /\ v.left = s.left \ {Min(s.left)}
    BY <1>1 DEF ProcType, SameSetting
  <2>4. ~IsReceiving(v) /\ Unsent(v) = Unsent(s)
    BY <1>2, <1>4, <2>3 DEF IsReceiving, Unsent
  <2>5. Targets(v) = Targets(s)
    BY <1>1, <1>3, <2>3, SettingKept DEF ObjectOK
  <2>6. Control(v)
    BY <1>1, <1>2, <2>3, <2>4, <2>5 DEF ObjectOK, Control
  <2> HIDE DEF v
  <2> QED
    BY <1>1, <1>3, <1>4, <2>1, <2>2, <2>3, <2>4, <2>6, PhaseStep
<1>5. CASE s.left = {} /\ proc' = [proc EXCEPT ![p].at = "send_check"] /\ chan' = chan
  <2> DEFINE v == [s EXCEPT !.at = "send_check"]
  <2>1. proc' = [proc EXCEPT ![p] = v]
    BY <1>1, <1>5
  <2>2. v \in ProcType
    BY <1>1 DEF ProcType
  <2>3. /\ SameSetting(s, v) /\ v.ext = s.ext /\ v.buf = s.buf /\ v.at = "send_check"
        /\ v.next = s.next /\ v.req = s.req
        /\ v.send = s.send /\ v.left = {}
    BY <1>1, <1>5 DEF ProcType, SameSetting
  <2>4. ~IsReceiving(v) /\ Unsent(v) = Unsent(s)
    BY <1>2, <1>5, <2>3 DEF IsReceiving, Unsent
  <2>5. Control(v)
    BY <1>1, <1>2, <1>5, <2>3, <2>4 DEF ObjectOK, Control
  <2> HIDE DEF v
  <2> QED
    BY <1>1, <1>3, <1>5, <2>1, <2>2, <2>3, <2>4, <2>5, PhaseStep
<1> QED
  BY <1>4, <1>5 DEF send_start

-----------------------------------------------------------------------------
(* The buffers.                                                            *)

LEMMA IntSequence ==
    ASSUME NEW n \in Nat, NEW f \in [1 .. n -> Int]
    PROVE  f \in Seq(Int) /\ Len(f) = n
  OBVIOUS

LEMMA OverwrittenFacts ==
    ASSUME NEW b \in Seq(Int), NEW m \in Seq(Int), NEW at \in Int
    PROVE  Overwritten(b, at, m) \in Seq(Int) /\ Len(Overwritten(b, at, m)) = Len(b)
<1>1. \A i \in DOMAIN b : (IF i \in at + 1 .. at + Len(m) THEN m[i - at] ELSE b[i]) \in Int
  <2>1. ASSUME NEW i \in DOMAIN b, i \in at + 1 .. at + Len(m) PROVE m[i - at] \in Int
    <3>1. i - at \in 1 .. Len(m)
      BY <2>1
    <3> QED
      BY <3>1
  <2> QED
    BY <2>1
<1>2. Overwritten(b, at, m) \in [1 .. Len(b) -> Int]
  BY <1>1 DEF Overwritten
<1> QED
  BY <1>2

LEMMA ZerosFacts ==
    ASSUME NEW n \in Nat
    PROVE  Zeros(n) \in Seq(Int) /\ Len(Zeros(n)) = n
<1>1. Zeros(n) \in [1 .. n -> Int]
  BY DEF Zeros
<1> QED
  BY <1>1

LEMMA InputFacts ==
    ASSUME NEW k \in Nat, NEW i \in Nat, NEW n \in Nat
    PROVE  Input(k, i, n) \in Seq(Int) /\ Len(Input(k, i, n)) = n
<1>1. 10 ^ i \in Int
  OBVIOUS
<1>2. \A j \in 1 .. n : (3 * k + j) * 10 ^ i \in Int
  BY <1>1
<1>3. Input(k, i, n) \in [1 .. n -> Int]
  BY <1>2 DEF Input
<1> QED
  BY <1>3

\* The children are in the first slots.
LEMMA ChildrenFacts ==
    ASSUME script \in Scripts, NEW p, NEW k, NEW s, SetFor(p, s, k)
    PROVE  /\ Children(s) \in Nat
           /\ \A c \in AllSlots : s.tree.child[c] # NoRank => c + 1 <= Children(s)
<1> DEFINE T == {c \in AllSlots : s.tree.child[c] # NoRank}
<1>1. AllSlots = 0 .. MaxChild - 1 /\ IsFiniteSet(AllSlots)
  BY SlotFacts
<1>2. IsFiniteSet(T)
  <2>1. T \subseteq AllSlots
    OBVIOUS
  <2> QED
    BY <1>1, <2>1, FS_Subset
<1>3. Children(s) = Cardinality(T) /\ Children(s) \in Nat
  BY <1>2, FS_CardinalityType DEF Children
<1>4. ASSUME NEW c \in AllSlots, s.tree.child[c] # NoRank
      PROVE  c + 1 <= Children(s)
  <2>1. \A d \in AllSlots : d < c => s.tree.child[d] # NoRank
    <3> DEFINE t == setGroupAndRootIndex(p, k)
    <3>1. p \in Group(k) /\ k \in DOMAIN script /\ s.tree = t
      BY DEF SetFor
    <3>2. \A a, d \in AllSlots : d < a /\ t.child[a] # NoRank => t.child[d] # NoRank
      BY <3>1, TreeFacts
    <3> QED
      BY <1>4, <3>1, <3>2
  <2>2. 0 .. c \subseteq T
    <3>1. ASSUME NEW d \in 0 .. c PROVE d \in AllSlots /\ (d < c \/ d = c)
      BY <1>1, SlotFacts
    <3> QED
      BY <1>4, <2>1, <3>1
  <2>3. IsFiniteSet(0 .. c) /\ Cardinality(0 .. c) = c + 1
    BY <1>1, FS_Interval
  <2> QED
    BY <1>2, <1>3, <2>2, <2>3, FS_Subset
<1> QED
  BY <1>3, <1>4

LEMMA BlockInBuffer ==
    ASSUME script \in Scripts, NEW p, NEW k, NEW s \in ProcType, SetFor(p, s, k), s.base = "sum",
           Len(s.buf) = BufRoom(s), NEW c \in AllSlots, s.tree.child[c] # NoRank
    PROVE  c * s.size \in Nat /\ c * s.size + s.size <= Len(s.buf)
<1> DEFINE ch == Children(s)
           z == s.size
<1>1. c \in Nat /\ z \in Nat /\ ch \in Nat /\ c + 1 <= ch
  BY ChildrenFacts, SlotFacts DEF ProcType
<1>2. Len(s.buf) = z * ch + (IF IsRoot(s) THEN 0 ELSE z)
  BY DEF BufRoom
<1> HIDE DEF ch, z
<1>3. (c + 1) * z <= ch * z /\ c * z \in Nat /\ (c + 1) * z = c * z + z /\ ch * z = z * ch
      /\ z * ch \in Nat
  BY <1>1
<1> QED
  BY <1>1, <1>2, <1>3 DEF z

LEMMA ReducedFacts ==
    ASSUME script \in Scripts, NEW p, NEW k, NEW s \in ProcType, SetFor(p, s, k), s.base = "sum",
           Len(s.buf) = BufRoom(s), NEW local \in Seq(Int), Len(local) = s.size
    PROVE  Reduced(s, local) \in Seq(Int) /\ Len(Reduced(s, local)) = s.size
<1> DEFINE Of(c, j) == IF s.tree.child[c] = NoRank THEN 0 ELSE s.buf[c * s.size + j]
<1>1. AllSlots = 0 .. MaxChild - 1 /\ MaxChild \in Nat /\ s.size \in Nat
  BY SlotFacts DEF ProcType
<1>2. ASSUME NEW j \in 1 .. s.size, NEW c \in AllSlots PROVE Of(c, j) \in Int
  <2>1. CASE s.tree.child[c] # NoRank
    <3>1. c * s.size \in Nat /\ c * s.size + s.size <= Len(s.buf)
      BY <2>1, BlockInBuffer
    <3>2. s.buf \in Seq(Int)
      BY DEF ProcType
    <3>3. c * s.size + j \in 1 .. Len(s.buf)
      <4> DEFINE x == c * s.size
      <4>1. x \in Nat /\ x + s.size <= Len(s.buf) /\ Len(s.buf) \in Nat
        BY <3>1, <3>2
      <4> HIDE DEF x
      <4>2. x + j \in 1 .. Len(s.buf)
        BY <1>1, <4>1
      <4> QED
        BY <4>2 DEF x
    <3>4. s.buf[c * s.size + j] \in Int
      BY <3>2, <3>3
    <3> QED
      BY <2>1, <3>4
  <2> QED
    BY <2>1
<1> HIDE DEF Of
<1>3. ASSUME NEW j \in 1 .. s.size
      PROVE  SumBelow([c \in AllSlots |-> Of(c, j)], MaxChild) \in Int
  <2> DEFINE f == [c \in AllSlots |-> Of(c, j)]
  <2>1. \A c \in 0 .. MaxChild - 1 : f[c] \in Int
    BY <1>1, <1>2
  <2> HIDE DEF f
  <2>2. SumBelow(f, MaxChild) \in Int
    BY <1>1, <2>1, SumInt
  <2> QED
    BY <2>2 DEF f
<1>4. \A j \in 1 .. s.size :
         local[j] + SumBelow([c \in AllSlots |-> Of(c, j)], MaxChild) \in Int
  BY <1>3
<1>5. Reduced(s, local) = [j \in 1 .. s.size |->
         local[j] + SumBelow([c \in AllSlots |-> Of(c, j)], MaxChild)]
  <2>1. DOMAIN local = 1 .. s.size
    OBVIOUS
  <2> QED
    BY <2>1 DEF Reduced, Of
<1>6. Reduced(s, local) \in [1 .. s.size -> Int]
  BY <1>4, <1>5
<1> QED
  BY <1>1, <1>6, IntSequence

LEMMA LastBlockFacts ==
    ASSUME script \in Scripts, NEW p, NEW k, NEW s \in ProcType, SetFor(p, s, k), s.base = "sum",
           Len(s.buf) = BufRoom(s), ~IsRoot(s)
    PROVE  /\ LastBlock(s) \in Seq(Int) /\ Len(LastBlock(s)) = s.size
           /\ SubSeq(s.buf, 1, Len(s.buf) - s.size) \in Seq(Int)
           /\ Len(SubSeq(s.buf, 1, Len(s.buf) - s.size)) = Len(s.buf) - s.size
<1> DEFINE z == s.size
           len == Len(s.buf)
<1>1. z \in Nat /\ s.buf \in Seq(Int) /\ Children(s) \in Nat /\ len \in Nat
  BY ChildrenFacts DEF ProcType
<1>2. len = z * Children(s) + z
  BY DEF BufRoom
<1>3. z * Children(s) \in Nat
  BY <1>1
<1>4. len >= z
  BY <1>1, <1>2, <1>3
<1>5. \A i \in len - z + 1 .. len : s.buf[i] \in Int
  BY <1>1, <1>4
<1>6. \A i \in 1 .. len - z : s.buf[i] \in Int
  BY <1>1, <1>4
<1> HIDE DEF len, z
<1>7. /\ SubSeq(s.buf, len - z + 1, len) \in Seq(Int)
      /\ Len(SubSeq(s.buf, len - z + 1, len)) = z
  BY <1>1, <1>4, <1>5, SubSeqProperties
<1>8. /\ SubSeq(s.buf, 1, len - z) \in Seq(Int)
      /\ Len(SubSeq(s.buf, 1, len - z)) = len - z
  BY <1>1, <1>4, <1>6, SubSeqProperties
<1> QED
  BY <1>7, <1>8 DEF LastBlock, len, z

LEMMA UnshuffledFacts ==
    ASSUME script \in Scripts, NEW p, NEW s \in ProcType, SetFor(p, s, s.op),
           s.base = "gather", IsRoot(s), Len(s.ext) = ExtRoom(s), Len(s.buf) = BufRoom(s)
    PROVE  Unshuffled(s) \in Seq(Int) /\ Len(Unshuffled(s)) = Len(s.ext)
<1> DEFINE g == GroupSize(s.op)
           z == s.size
           Of(i) == {b \in 0 .. g - 1 : s.buf[PerProc(s) * b + 1] = i}
           At(x) == Of((x - 1) \div z)
<1>1. /\ g \in Nat \ {0} /\ z \in Nat /\ s.buf \in Seq(Int) /\ s.ext \in Seq(Int)
      /\ DOMAIN s.ext = 1 .. Len(s.ext) /\ Len(s.ext) = z * g
  BY OpFacts DEF SetFor, OpOK, ProcType, ExtRoom
<1>2. Len(s.buf) = g * (1 + z)
  <2>1. BranchTotal(s) = Total(p, s.op)
    BY DEF SetFor, BranchTotal, Older, Total
  <2>2. 1 + Total(p, s.op) = g /\ Total(p, s.op) \in Nat
    BY TreeFacts, TotalIs DEF SetFor, IsRoot
  <2> QED
    BY <2>1, <2>2 DEF BufRoom, PerProc
<1>3. PerProc(s) = 1 + z
  BY DEF PerProc
<1> HIDE DEF g, z
<1>4. ASSUME NEW x \in 1 .. Len(s.ext), At(x) # {}
      PROVE  s.buf[PerProc(s) * Max(At(x)) + 2 + ((x - 1) % z)] \in Int
  <2> DEFINE b == Max(At(x))
             r == (x - 1) % z
  <2>1. g - 1 \in Nat /\ At(x) \in SUBSET (0 .. g - 1)
    BY <1>1
  <2>2. b \in 0 .. g - 1
    <3> HIDE DEF At
    <3> QED
      BY <1>4, <2>1, MaxIn
  <2>3. z # 0
    BY <1>1
  <2>4. r \in 0 .. z - 1
    BY <1>1, <2>3
  <2> HIDE DEF b, r
  <2>5. (1 + z) * b \in Nat /\ (1 + z) * b <= (1 + z) * (g - 1)
    BY <1>1, <2>2
  <2>6. (1 + z) * (g - 1) = g * (1 + z) - (1 + z)
    BY <1>1
  <2>7. (1 + z) * b + 2 + r \in 1 .. Len(s.buf)
    BY <1>1, <1>2, <2>4, <2>5, <2>6
  <2>8. s.buf[(1 + z) * b + 2 + r] \in Int
    BY <1>1, <2>7
  <2> QED
    BY <1>3, <2>8 DEF b, r
<1>5. \A x \in 1 .. Len(s.ext) : s.ext[x] \in Int
  BY <1>1
<1>6. Unshuffled(s) = [x \in 1 .. Len(s.ext) |->
            IF At(x) = {} THEN s.ext[x]
            ELSE s.buf[PerProc(s) * Max(At(x)) + 2 + ((x - 1) % z)]]
  BY <1>1 DEF Unshuffled, g, z
<1> HIDE DEF At
<1>7. Unshuffled(s) \in [1 .. Len(s.ext) -> Int]
  BY <1>4, <1>5, <1>6
<1> QED
  BY <1>1, <1>7

-----------------------------------------------------------------------------
(* Begin: the buffers, and what the operation skips.                       *)

LEMMA BeginBuffers ==
    ASSUME script \in Scripts, NEW k \in DOMAIN script, NEW p \in Group(k), NEW s,
           s.op = k, s.base = script[k].kind, s.size = SizeOf(p, k),
           s.tree = setGroupAndRootIndex(p, k)
    PROVE  /\ ExternalBuffer(p, s) \in Seq(Int) /\ Len(ExternalBuffer(p, s)) = ExtRoom(s)
           /\ InternalBuffer(p, s) \in Seq(Int) /\ Len(InternalBuffer(p, s)) = BufRoom(s)
<1> DEFINE i == IndexOf(p, k)
           z == s.size
           g == GroupSize(k)
           mine == Input(k, i, z)
<1>1. /\ OpOK(k) /\ i \in Nat /\ z \in Nat /\ g \in Nat \ {0} /\ k \in Nat
      /\ s.base \in Kinds
  BY OpFacts, IndexFacts DEF OpOK
<1>2. mine \in Seq(Int) /\ Len(mine) = z
  BY <1>1, InputFacts
<1>3. Children(s) \in Nat
  BY ChildrenFacts DEF SetFor
<1>4. BranchTotal(s) \in Nat
  BY TotalIs DEF BranchTotal, Older, Total
<1>5. z * g \in Nat /\ z * Children(s) \in Nat /\ BranchTotal(s) * PerProc(s) \in Nat
      /\ (BranchTotal(s) + 1) * PerProc(s) = BranchTotal(s) * PerProc(s) + PerProc(s)
  BY <1>1, <1>3, <1>4 DEF PerProc
<1>6. /\ Zeros(z) \in Seq(Int) /\ Len(Zeros(z)) = z
      /\ Zeros(z * g) \in Seq(Int) /\ Len(Zeros(z * g)) = z * g
      /\ Zeros(z * Children(s)) \in Seq(Int) /\ Len(Zeros(z * Children(s))) = z * Children(s)
      /\ Zeros(BranchTotal(s) * PerProc(s)) \in Seq(Int)
      /\ Len(Zeros(BranchTotal(s) * PerProc(s))) = BranchTotal(s) * PerProc(s)
  BY <1>1, <1>5, ZerosFacts
<1>7. /\ Overwritten(Zeros(z * g), 0, mine) \in Seq(Int)
      /\ Len(Overwritten(Zeros(z * g), 0, mine)) = z * g
  BY <1>2, <1>6, OverwrittenFacts
<1> HIDE DEF i, z, g, mine
<1>8. ExternalBuffer(p, s) \in Seq(Int) /\ Len(ExternalBuffer(p, s)) = ExtRoom(s)
  <2>1. ExternalBuffer(p, s) =
           CASE s.base = "bcast" /\ ~IsRoot(s) -> Zeros(z)
             [] s.base = "gather" /\ IsRoot(s) -> Overwritten(Zeros(z * g), 0, mine)
             [] OTHER                          -> mine
    BY DEF ExternalBuffer, i, z, g, mine
  <2>2. ExtRoom(s) = IF s.base = "gather" /\ IsRoot(s) THEN z * g ELSE z
    BY DEF ExtRoom, z, g
  <2> QED
    BY <1>2, <1>6, <1>7, <2>1, <2>2
<1>9. InternalBuffer(p, s) \in Seq(Int) /\ Len(InternalBuffer(p, s)) = BufRoom(s)
  <2>1. CASE s.base = "bcast"
    BY <2>1 DEF InternalBuffer, BufRoom
  <2>2. CASE s.base = "gather"
    <3> DEFINE low == Zeros(BranchTotal(s) * PerProc(s))
    <3>1. InternalBuffer(p, s) = low \o <<i>> \o mine
      BY <2>2 DEF InternalBuffer, i, mine, z
    <3>2. low \in Seq(Int) /\ <<i>> \in Seq(Int) /\ Len(<<i>>) = 1
      BY <1>1, <1>6
    <3>3. Len(low) = BranchTotal(s) * PerProc(s)
      BY <1>6
    <3> HIDE DEF low
    <3>4. low \o <<i>> \in Seq(Int) /\ Len(low \o <<i>>) = Len(low) + 1
      BY <3>2, ConcatProperties
    <3>5. (low \o <<i>>) \o mine \in Seq(Int) /\ Len((low \o <<i>>) \o mine) = Len(low) + 1 + z
      <4> DEFINE mid == low \o <<i>>
      <4>1. mid \in Seq(Int) /\ Len(mid) = Len(low) + 1
        BY <3>4
      <4> HIDE DEF mid
      <4>2. mid \o mine \in Seq(Int) /\ Len(mid \o mine) = Len(mid) + Len(mine)
        BY <1>2, <4>1, ConcatProperties
      <4> QED
        BY <1>2, <4>1, <4>2 DEF mid
    <3>6. BufRoom(s) = (BranchTotal(s) + 1) * PerProc(s) /\ PerProc(s) = 1 + z
      BY <2>2 DEF BufRoom, PerProc, z
    <3> QED
      BY <1>1, <1>5, <3>1, <3>3, <3>5, <3>6
  <2>3. CASE s.base = "sum"
    <3> DEFINE low == Zeros(z * Children(s))
               top == IF IsRoot(s) THEN <<>> ELSE mine
    <3>1. InternalBuffer(p, s) = low \o top
      BY <2>3 DEF InternalBuffer, i, mine, z
    <3>2. top \in Seq(Int) /\ Len(top) = IF IsRoot(s) THEN 0 ELSE z
      BY <1>2
    <3>3. low \in Seq(Int) /\ Len(low) = z * Children(s)
      BY <1>6
    <3> HIDE DEF low, top
    <3>4. low \o top \in Seq(Int) /\ Len(low \o top) = Len(low) + Len(top)
      BY <3>2, <3>3, ConcatProperties
    <3> QED
      BY <2>3, <3>1, <3>2, <3>3, <3>4 DEF BufRoom, z
  <2> QED
    BY <1>1, <2>1, <2>2, <2>3 DEF Kinds
<1> QED
  BY <1>8, <1>9

LEMMA BeginData ==
    ASSUME script \in Scripts, NEW k \in DOMAIN script, NEW p \in Group(k), NEW s,
           s.op = k, s.base = script[k].kind, s.size = SizeOf(p, k),
           s.tree = setGroupAndRootIndex(p, k),
           NEW v, v.op = k, v.base = s.base, v.size = s.size, v.tree = s.tree,
           v.ext = ExternalBuffer(p, s), v.buf = InternalBuffer(p, s)
    PROVE  OwnData(p, v)
<1> DEFINE i == IndexOf(p, k)
           z == s.size
           mine == Input(k, i, z)
<1>1. /\ OpOK(k) /\ i \in Nat /\ z \in Nat /\ k \in Nat /\ s.base \in Kinds
  BY OpFacts, IndexFacts DEF OpOK
<1>2. mine \in Seq(Int) /\ Len(mine) = z
  BY <1>1, InputFacts
<1>3. \A j \in 1 .. z : mine[j] = Datum(k, i, j)
  BY DEF Input, Datum
<1>4. /\ IsRoot(v) <=> IsRoot(s)
      /\ BranchTotal(v) = BranchTotal(s)
  BY DEF IsRoot, BranchTotal, Older
<1> HIDE DEF mine
<1>5. ~(v.base = "bcast" /\ ~IsRoot(v)) /\ ~(v.base = "gather" /\ IsRoot(v)) =>
         HasOwn(v.ext, 0, v.size, p, v.op)
  <2> SUFFICES ASSUME ~(v.base = "bcast" /\ ~IsRoot(v)), ~(v.base = "gather" /\ IsRoot(v))
               PROVE  HasOwn(v.ext, 0, v.size, p, v.op)
    OBVIOUS
  <2>1. v.ext = mine
    BY <1>4 DEF ExternalBuffer, mine
  <2>2. \A j \in 1 .. z : mine[0 + j] = mine[j]
    BY <1>1
  <2> QED
    BY <1>3, <2>1, <2>2 DEF HasOwn
<1>6. v.base = "bcast" /\ ~IsRoot(v) => \A j \in 1 .. v.size : v.ext[j] = 0
  <2> SUFFICES ASSUME v.base = "bcast", ~IsRoot(v) PROVE \A j \in 1 .. v.size : v.ext[j] = 0
    OBVIOUS
  <2>1. v.ext = Zeros(z)
    BY <1>4 DEF ExternalBuffer
  <2> QED
    BY <2>1 DEF Zeros
<1>7. v.base = "gather" => IsBlock(v.buf, BranchTotal(v), v.size, v.op, IndexOf(p, v.op))
  <2> SUFFICES ASSUME v.base = "gather" PROVE IsBlock(v.buf, BranchTotal(v), z, k, i)
    OBVIOUS
  <2> DEFINE n == BranchTotal(s) * PerProc(s)
             low == Zeros(n)
             mid == low \o <<i>>
  <2>1. BranchTotal(s) \in Nat
    BY TotalIs DEF BranchTotal, Older, Total
  <2>2. n \in Nat /\ n = BranchTotal(v) * (1 + z)
    BY <1>1, <1>4, <2>1 DEF PerProc
  <2>3. v.buf = mid \o mine
    BY DEF InternalBuffer, mine
  <2> HIDE DEF n
  <2>4. low \in Seq(Int) /\ Len(low) = n
    BY <2>2, ZerosFacts
  <2> HIDE DEF low
  <2>5. mid \in Seq(Int) /\ Len(mid) = n + 1 /\ mid[n + 1] = i
    <3>1. <<i>> \in Seq(Int) /\ Len(<<i>>) = 1 /\ <<i>>[1] = i
      BY <1>1
    <3>2. /\ mid \in Seq(Int) /\ Len(mid) = Len(low) + 1
          /\ mid[n + 1] = <<i>>[(n + 1) - Len(low)]
      BY <2>2, <2>4, <3>1, ConcatProperties
    <3>3. (n + 1) - n = 1
      BY <2>2
    <3> QED
      BY <2>4, <3>1, <3>2, <3>3
  <2> HIDE DEF mid
  <2>6. v.buf[n + 1] = i
    BY <1>2, <2>2, <2>3, <2>5, ConcatProperties
  <2>7. ASSUME NEW j \in 1 .. z PROVE v.buf[n + 1 + j] = Datum(k, i, j)
    <3>1. n + 1 + j \in 1 .. Len(mid) + Len(mine) /\ n + 1 + j > Len(mid)
      BY <1>1, <1>2, <2>2, <2>5
    <3>2. (n + 1 + j) - Len(mid) = j
      BY <2>2, <2>5
    <3>3. (mid \o mine)[n + 1 + j] = mine[j]
      BY <1>2, <2>5, <3>1, <3>2, ConcatProperties
    <3> QED
      BY <1>3, <2>3, <3>3
  <2> QED
    BY <2>2, <2>6, <2>7 DEF IsBlock
<1>8. v.base = "sum" /\ ~IsRoot(v) => HasOwn(v.buf, Len(v.buf) - v.size, v.size, p, v.op)
  <2> SUFFICES ASSUME v.base = "sum", ~IsRoot(v)
               PROVE  HasOwn(v.buf, Len(v.buf) - z, z, p, k)
    OBVIOUS
  <2> DEFINE n == z * Children(s)
             low == Zeros(n)
  <2>1. Children(s) \in Nat
    BY ChildrenFacts DEF SetFor
  <2>2. n \in Nat
    BY <1>1, <2>1
  <2>3. v.buf = low \o mine
    BY <1>4 DEF InternalBuffer, mine
  <2> HIDE DEF n
  <2>4. low \in Seq(Int) /\ Len(low) = n
    BY <2>2, ZerosFacts
  <2> HIDE DEF low
  <2>5. Len(v.buf) = n + z
    <3>1. Len(low \o mine) = Len(low) + Len(mine)
      BY <1>2, <2>4, ConcatProperties
    <3> QED
      BY <1>2, <2>3, <2>4, <3>1
  <2>6. ASSUME NEW j \in 1 .. z PROVE v.buf[(Len(v.buf) - z) + j] = Datum(k, i, j)
    <3>1. (Len(v.buf) - z) + j = n + j
      BY <1>1, <2>2, <2>5
    <3>2. n + j \in 1 .. Len(low) + Len(mine) /\ n + j > Len(low) /\ (n + j) - Len(low) = j
      BY <1>1, <1>2, <2>2, <2>4
    <3>3. (low \o mine)[n + j] = mine[j]
      BY <1>2, <2>4, <3>2, ConcatProperties
    <3> QED
      BY <1>3, <2>3, <3>1, <3>3
  <2> QED
    BY <2>6 DEF HasOwn
<1> QED
  BY <1>5, <1>6, <1>7, <1>8 DEF OwnData

LEMMA BeginKeeps ==
    ASSUME GroupInv, NEW p \in Ranks, Begin(p)
    PROVE  GroupInv'
<1> DEFINE s == proc[p]
<1>1. /\ s \in ProcType /\ ObjectOK(p, s) /\ script \in Scripts /\ script' = script /\ chan' = chan
      /\ proc \in [Ranks -> ProcType] /\ results' \in [Ranks -> Seq(Seq(Int))]
  BY DEF GroupInv, TypeOK, Begin
<1>2. PICK k \in DOMAIN script : IsNext(p, s.op, k) /\ proc' = [proc EXCEPT ![p] = Begun(p, k)]
  BY DEF Begin
<1> DEFINE v == Begun(p, k)
           u == [Idle EXCEPT !.op = k, !.base = script[k].kind, !.size = SizeOf(p, k),
                             !.tree = setGroupAndRootIndex(p, k)]
<1>3. p \in Group(k) /\ k > s.op /\ \A j \in (s.op + 1) .. (k - 1) : p \notin Group(j)
  BY <1>2 DEF IsNext
<1>4. OpOK(k) /\ k \in Nat
  BY <1>1, OpFacts DEF OpOK
<1>5. /\ u.op = k /\ u.base = script[k].kind /\ u.size = SizeOf(p, k)
      /\ u.tree = setGroupAndRootIndex(p, k) /\ u.left = {} /\ u.send = "null"
  BY DEF Idle
<1>6. /\ v.op = k /\ v.base = u.base /\ v.size = u.size /\ v.tree = u.tree
      /\ v.left = {} /\ v.send = "null" /\ v.at = "recv_check" /\ v.next = "recv_start"
      /\ v.ext = ExternalBuffer(p, u) /\ v.buf = InternalBuffer(p, u)
      /\ v.req = [c \in AllSlots |-> IF Source(u, c) = NoRank THEN "null" ELSE "active"]
  BY DEF Begun, Idle
<1>7. proc' = [proc EXCEPT ![p] = v]
  BY <1>2
<1>8. /\ ExternalBuffer(p, u) \in Seq(Int) /\ Len(ExternalBuffer(p, u)) = ExtRoom(u)
      /\ InternalBuffer(p, u) \in Seq(Int) /\ Len(InternalBuffer(p, u)) = BufRoom(u)
  <2> HIDE DEF u
  <2> QED
    BY <1>1, <1>3, <1>5, BeginBuffers
<1> HIDE DEF v, u
<1>9. \A c \in AllSlots : Source(v, c) = Source(u, c)
  BY <1>6 DEF Source
<1>10. ExtRoom(v) = ExtRoom(u) /\ BufRoom(v) = BufRoom(u)
  BY <1>5, <1>6 DEF ExtRoom, BufRoom, IsRoot, BranchTotal, Older, PerProc, Children
<1>11. v \in ProcType
  <2>1. u.base \in Kinds /\ u.size \in Nat
    BY <1>1, <1>3, <1>4, <1>5, IndexFacts DEF OpOK
  <2>2. u.tree \in [parent : Ranks \cup {NoRank}, child : [AllSlots -> Ranks \cup {NoRank}],
                    branch : [AllSlots -> Nat]]
    BY <1>1, <1>3, <1>5, TreeFacts
  <2>3. v.req \in [AllSlots -> RequestStates]
    BY <1>6 DEF RequestStates
  <2>4. Idle \in ProcType
    BY IdleType
  <2>5. u \in ProcType
    <3>1. u = [Idle EXCEPT !.op = u.op, !.base = u.base, !.size = u.size, !.tree = u.tree]
      BY <1>5 DEF u
    <3> QED
      BY <1>4, <1>5, <2>1, <2>2, <2>4, <3>1 DEF ProcType
  <2>6. v = [u EXCEPT !.ext = v.ext, !.buf = v.buf, !.next = "recv_start",
                      !.at = "recv_check", !.req = v.req]
    BY <1>6 DEF v, u, Begun
  <2> QED
    BY <1>6, <1>8, <2>3, <2>5, <2>6 DEF ProcType
<1>12. ObjectOK(p, v)
  <2>1. Prepared(p, v)
    BY <1>3, <1>5, <1>6, <1>8, <1>10 DEF Prepared
  <2>2. Control(v)
    BY <1>6, <1>9 DEF Control
  <2>3. OwnData(p, v)
    BY <1>1, <1>3, <1>5, <1>6, BeginData
  <2>4. DataOK(p, v)
    BY <1>6, <1>9, <2>3 DEF DataOK, IsReceiving
  <2> QED
    BY <1>11, <2>1, <2>2, <2>4 DEF ObjectOK
<1>13. s.at = "out" /\ s.next = "none" /\ s.left = {} /\ s.send = "null" /\ s.op \in Nat
  BY <1>1 DEF Begin, isDone, ObjectOK, Control, ProcType
<1>14. ASSUME NEW j, j \in DOMAIN script, p \in Group(j)
       PROVE  j \in Nat /\ (j < k <=> j <= s.op)
  <2>1. OpOK(j)
    BY <1>1, <1>14, OpFacts
  <2>2. j \in Nat
    BY <2>1 DEF OpOK
  <2> QED
    BY <1>3, <1>4, <1>13, <1>14, <2>2
<1>15. SentSame(p, v)
  <2>1. ASSUME NEW q \in Ranks, NEW j, Link(p, q, j)
        PROVE  Sent(v, q, j) <=> Sent(s, q, j)
    <3>1. j \in DOMAIN script /\ p \in Group(j)
      BY <2>1 DEF Link
    <3>2. Sent(v, q, j) <=> j < k
      BY <1>6 DEF Sent, IsReceiving
    <3>3. Sent(s, q, j) <=> j < s.op \/ j = s.op
      BY <1>13 DEF Sent, IsReceiving, Unsent
    <3> QED
      BY <1>13, <1>14, <3>1, <3>2, <3>3
  <2> QED
    BY <2>1 DEF SentSame
<1>16. GotSame(p, v)
  <2>1. ASSUME NEW q \in Ranks, NEW j, Link(q, p, j)
        PROVE  Got(v, q, j) <=> Got(s, q, j)
    <3>1. j \in DOMAIN script /\ p \in Group(j)
      BY <2>1 DEF Link
    <3>2. Got(v, q, j) <=> j < k
      <4>1. IsReceiving(v)
        BY <1>6 DEF IsReceiving
      <4>2. j = k => \E c \in AllSlots : Source(v, c) = q /\ v.req[c] = "active"
        <5>1. SetFor(p, v, k)
          BY <1>3, <1>5, <1>6 DEF SetFor
        <5> SUFFICES ASSUME j = k PROVE \E c \in AllSlots : Source(v, c) = q /\ v.req[c] = "active"
          OBVIOUS
        <5>2. PICK c \in AllSlots : Source(v, c) = q
          BY <1>1, <2>1, <5>1, LinkSource
        <5>3. q # NoRank
          BY <1>1, <2>1, LinkEnds
        <5> QED
          BY <1>6, <1>9, <5>2, <5>3
      <4>3. ~(k < k)
        BY <1>4
      <4> QED
        BY <1>6, <4>1, <4>2, <4>3 DEF Got
    <3>3. Got(s, q, j) <=> j < s.op \/ j = s.op
      BY <1>13 DEF Got, IsReceiving
    <3> QED
      BY <1>13, <1>14, <3>1, <3>2, <3>3
  <2> QED
    BY <2>1 DEF GotSame
<1> QED
  BY <1>1, <1>7, <1>12, <1>15, <1>16, QuietStep

-----------------------------------------------------------------------------
(* What is made of the data when all has come.                             *)

LEMMA NoBranch ==
    ASSUME script \in Scripts, NEW k \in DOMAIN script, NEW p \in Group(k), NEW c \in AllSlots,
           setGroupAndRootIndex(p, k).child[c] = NoRank
    PROVE  setGroupAndRootIndex(p, k).branch[c] = 0
<1> DEFINE n == script[k].nchild
           size == GroupSize(k)
           at == PosOf(p, k) * n + 1 + c
<1>1. n \in Nat \ {0} /\ size \in Nat
  BY OpFacts, SlotFacts DEF OpOK
<1>2. at \in Nat /\ (c < n /\ at < size => RankOfPos(k, at) = NoRank)
  BY ChildByPosition
<1>3. setGroupAndRootIndex(p, k).branch[c] = IF c < n THEN BranchSize(n, size, at) ELSE 0
  <2>1. setGroupAndRootIndex(p, k).branch =
          [d \in AllSlots |-> IF d < n THEN BranchSize(n, size, PosOf(p, k) * n + 1 + d) ELSE 0]
    BY TreeIs DEF TreeFields, PosOf
  <2> QED
    BY <2>1
<1>4. at < size => RankOfPos(k, at) # NoRank
  <2>1. at < size => at \in 0 .. GroupSize(k) - 1
    BY <1>1, <1>2
  <2> HIDE DEF at
  <2> QED
    BY <2>1, RankOfPosFacts
<1> HIDE DEF at, n, size
<1>5. at >= size => BranchSize(n, size, at) = 0
  BY <1>1, <1>2, BranchSteps
<1> QED
  BY <1>1, <1>2, <1>3, <1>4, <1>5

\* The blocks that came for the slots before m.
LEMMA BlocksBelow ==
    ASSUME script \in Scripts, NEW p, NEW s, SetFor(p, s, s.op), s.size \in Nat, NEW b,
           \A c \in AllSlots : s.tree.child[c] # NoRank =>
               Blocks(b, Older(s, c), Older(s, c) + s.tree.branch[c], s.size, s.op,
                      BranchOf(s.tree.child[c], s.op))
    PROVE  Blocks(b, 0, BranchTotal(s), s.size, s.op, PartsBefore(p, s.op, MaxChild))
<1> DEFINE k == s.op
           t == setGroupAndRootIndex(p, k)
           f == s.tree.branch
           T == {m \in Nat : Blocks(b, 0, SumBelow(f, m), s.size, k, PartsBefore(p, k, m))}
<1>1. /\ k \in DOMAIN script /\ p \in Group(k) /\ s.tree = t
      /\ AllSlots = 0 .. MaxChild - 1 /\ MaxChild \in Nat
  BY SlotFacts DEF SetFor
<1>2. \A c \in 0 .. MaxChild - 1 : f[c] \in Nat
  BY <1>1, TotalIs
<1>3. \A m \in 0 .. MaxChild : SumBelow(f, m) \in Nat
  <2> HIDE DEF f
  <2> QED
    BY <1>1, <1>2, SumNat
<1>4. 0 \in T
  <2>1. SumBelow(f, 0) = 0
    BY SumSteps
  <2>2. PartsBefore(p, k, 0) = {}
    BY <1>1, PartsAll
  <2>3. Blocks(b, 0, 0, s.size, k, {})
    BY NoBlocks
  <2> QED
    BY <2>1, <2>2, <2>3
<1>5. ASSUME NEW m \in 0 .. MaxChild - 1, m \in T PROVE m + 1 \in T
  <2> DEFINE x == SumBelow(f, m)
             q == t.child[m]
  <2>1. SumBelow(f, m + 1) = x + f[m]
    BY SumSteps
  <2>2. m \in AllSlots /\ m \in Nat /\ m + 1 \in Nat /\ x \in Nat /\ f[m] \in Nat
    BY <1>1, <1>2, <1>3
  <2>3. Blocks(b, 0, x, s.size, k, PartsBefore(p, k, m))
    BY <1>5
  <2>4. CASE q = NoRank
    <3>1. PartsBefore(p, k, m + 1) = PartsBefore(p, k, m)
      BY <1>1, <2>2, <2>4, PartsAdd
    <3>2. f[m] = 0
      BY <1>1, <2>2, <2>4, NoBranch
    <3>3. x + 0 = x
      BY <2>2
    <3> QED
      BY <2>1, <2>2, <2>3, <3>1, <3>2, <3>3
  <2>5. CASE q # NoRank
    <3>1. PartsBefore(p, k, m + 1) = PartsBefore(p, k, m) \cup BranchOf(q, k)
      BY <1>1, <2>2, <2>5, PartsAdd
    <3>2. Blocks(b, x, x + f[m], s.size, k, BranchOf(q, k))
      BY <1>1, <2>2, <2>5 DEF Older
    <3> DEFINE y == x + f[m]
    <3>3. x <= y /\ y \in Nat /\ 0 <= x
      BY <2>2
    <3> HIDE DEF x, y, q
    <3>4. Blocks(b, 0, y, s.size, k, PartsBefore(p, k, m) \cup BranchOf(q, k))
      BY <2>2, <2>3, <3>2, <3>3, BlocksJoin DEF y
    <3> QED
      BY <2>1, <2>2, <3>1, <3>4 DEF x, y
  <2> QED
    BY <2>4, <2>5
<1>6. MaxChild \in T
  <2>1. MaxChild \in 0 .. MaxChild
    BY <1>1
  <2> HIDE DEF T
  <2> QED
    BY <1>1, <1>4, <1>5, <2>1, NaturalsUpTo
<1> QED
  BY <1>6 DEF BranchTotal, Older

\* The sum of the blocks that came for the slots before m.
LEMMA SumsBelow ==
    ASSUME script \in Scripts, NEW p, NEW s, SetFor(p, s, s.op), NEW j \in Nat, NEW f,
           \A c \in AllSlots : f[c] = IF s.tree.child[c] = NoRank THEN 0
                                      ELSE SumOver(BranchOf(s.tree.child[c], s.op),
                                                   GroupSize(s.op), s.op, j)
    PROVE  SumBelow(f, MaxChild) = SumOver(PartsBefore(p, s.op, MaxChild), GroupSize(s.op), s.op, j)
<1> DEFINE k == s.op
           t == setGroupAndRootIndex(p, k)
           g == GroupSize(k)
           Summed(S) == SumOver(S, g, k, j)
           T == {m \in Nat : SumBelow(f, m) = Summed(PartsBefore(p, k, m))}
<1>1. /\ k \in DOMAIN script /\ p \in Group(k) /\ s.tree = t
      /\ AllSlots = 0 .. MaxChild - 1 /\ MaxChild \in Nat
  BY SlotFacts DEF SetFor
<1>2. g \in Nat /\ k \in Nat
  BY <1>1, OpFacts DEF OpOK
<1>3. 0 \in T
  <2>1. SumBelow(f, 0) = 0
    BY SumSteps
  <2>2. PartsBefore(p, k, 0) = {}
    BY <1>1, PartsAll
  <2>3. Summed({}) = 0
    BY <1>2, SumEmpty
  <2> QED
    BY <2>1, <2>2, <2>3
<1>4. ASSUME NEW m \in 0 .. MaxChild - 1, m \in T PROVE m + 1 \in T
  <2> DEFINE x == SumBelow(f, m)
             q == t.child[m]
             P == PartsBefore(p, k, m)
  <2>1. SumBelow(f, m + 1) = x + f[m]
    BY SumSteps
  <2>2. m \in AllSlots /\ m \in Nat /\ m + 1 \in Nat
    BY <1>1
  <2>3. x = Summed(P) /\ Summed(P) \in Int
    BY <1>2, <1>4, SumOverInt
  <2>4. CASE q = NoRank
    <3>1. PartsBefore(p, k, m + 1) = P
      BY <1>1, <2>2, <2>4, PartsAdd
    <3>2. f[m] = 0
      BY <1>1, <2>2, <2>4
    <3> QED
      BY <2>1, <2>2, <2>3, <3>1, <3>2
  <2>5. CASE q # NoRank
    <3>1. PartsBefore(p, k, m + 1) = P \cup BranchOf(q, k) /\ P \cap BranchOf(q, k) = {}
      BY <1>1, <2>2, <2>5, PartsAdd
    <3>2. f[m] = Summed(BranchOf(q, k))
      BY <1>1, <2>2, <2>5
    <3>3. Summed(P \cup BranchOf(q, k)) = Summed(P) + Summed(BranchOf(q, k))
      <4> HIDE DEF P, q
      <4> QED
        BY <1>2, <3>1, SumUnion
    <3> QED
      BY <2>1, <2>2, <2>3, <3>1, <3>2, <3>3
  <2> QED
    BY <2>4, <2>5
<1>5. MaxChild \in T
  <2>1. MaxChild \in 0 .. MaxChild
    BY <1>1
  <2> HIDE DEF T
  <2> QED
    BY <1>1, <1>3, <1>4, <2>1, NaturalsUpTo
<1> QED
  BY <1>5

LEMMA RootFacts ==
    ASSUME script \in Scripts, NEW p, NEW s, SetFor(p, s, s.op), IsRoot(s)
    PROVE  /\ IndexOf(p, s.op) = script[s.op].root
           /\ SizeOf(p, s.op) = RootSize(s.op)
           /\ BranchOf(p, s.op) = 0 .. GroupSize(s.op) - 1
           /\ BranchTotal(s) + 1 = GroupSize(s.op)
<1> DEFINE k == s.op
<1>1. k \in DOMAIN script /\ p \in Group(k) /\ s.tree = setGroupAndRootIndex(p, k)
  BY DEF SetFor
<1>2. PosOf(p, k) = 0 /\ 1 + Total(p, k) = GroupSize(k)
  BY <1>1, TreeFacts DEF IsRoot
<1>3. IndexOf(p, k) = script[k].root
  <2>1. /\ GroupSize(k) \in Nat \ {0} /\ script[k].root \in 0 .. GroupSize(k) - 1
        /\ IndexOf(p, k) \in 0 .. GroupSize(k) - 1
    BY <1>1, OpFacts, IndexFacts DEF OpOK
  <2> QED
    BY <1>2, <2>1, PositionsAreIndices DEF PosOf
<1>4. SizeOf(p, k) = RootSize(k)
  BY <1>3 DEF SizeOf, RootSize
<1>5. BranchOf(p, k) = 0 .. GroupSize(k) - 1
  BY <1>1, <1>2, PartsAll
<1>6. Total(p, k) \in Nat /\ BranchTotal(s) = Total(p, k)
  BY <1>1, TotalIs DEF BranchTotal, Older, Total
<1> QED
  BY <1>2, <1>3, <1>4, <1>5, <1>6

\* What has been put in and what has come make up all of a gather's buffer.
LEMMA AllBlocks ==
    ASSUME script \in Scripts, NEW p, NEW s, SetFor(p, s, s.op), s.size \in Nat, s.base = "gather",
           OwnData(p, s), \A c \in AllSlots : Source(s, c) # NoRank => SlotData(s, c)
    PROVE  Blocks(s.buf, 0, BranchTotal(s) + 1, s.size, s.op, BranchOf(p, s.op))
<1> DEFINE k == s.op
           e == BranchTotal(s)
<1>1. k \in DOMAIN script /\ p \in Group(k) /\ s.tree = setGroupAndRootIndex(p, k)
  BY DEF SetFor
<1>2. e \in Nat
  BY <1>1, TotalIs DEF BranchTotal, Older, Total
<1>3. Blocks(s.buf, 0, e, s.size, k, PartsBefore(p, k, MaxChild))
  <2>1. \A c \in AllSlots : s.tree.child[c] # NoRank =>
            Blocks(s.buf, Older(s, c), Older(s, c) + s.tree.branch[c], s.size, k,
                   BranchOf(s.tree.child[c], k))
    BY DEF Source, SlotData
  <2> QED
    BY <2>1, BlocksBelow
<1>4. Blocks(s.buf, e, e + 1, s.size, k, {IndexOf(p, k)})
  <2>1. IsBlock(s.buf, e, s.size, k, IndexOf(p, k))
    BY DEF OwnData
  <2> HIDE DEF e
  <2> QED
    BY <1>2, <2>1, OneBlock
<1>5. BranchOf(p, k) = PartsBefore(p, k, MaxChild) \cup {IndexOf(p, k)}
  BY <1>1, PartsAll
<1>6. Blocks(s.buf, 0, e + 1, s.size, k, PartsBefore(p, k, MaxChild) \cup {IndexOf(p, k)})
  <2> DEFINE S == PartsBefore(p, k, MaxChild)
             d == e + 1
  <2>1. d \in Nat /\ e <= d /\ 0 <= e
    BY <1>2
  <2>2. Blocks(s.buf, 0, e, s.size, k, S) /\ Blocks(s.buf, e, d, s.size, k, {IndexOf(p, k)})
    BY <1>3, <1>4
  <2> HIDE DEF S, d, e
  <2>3. Blocks(s.buf, 0, d, s.size, k, S \cup {IndexOf(p, k)})
    BY <1>2, <2>1, <2>2, BlocksJoin
  <2> QED
    BY <2>3 DEF S, d
<1> QED
  BY <1>5, <1>6

\* Place j of block i, in a buffer of blocks of z.
LEMMA PlaceFacts ==
    ASSUME NEW i \in Nat, NEW z \in Nat, NEW j \in 1 .. z
    PROVE  /\ i * z + j \in Nat \ {0}
           /\ \A x \in Nat : x = i * z + j => (x - 1) \div z = i /\ (x - 1) % z = j - 1
           /\ \A g \in Nat : i < g => i * z + j <= g * z
<1> DEFINE y == i * z + j - 1
<1>1. j \in Nat /\ z \in Nat \ {0} /\ i * z \in Nat /\ 1 <= j /\ j <= z
  OBVIOUS
<1>2. (i + 1) * z = i * z + z
  BY <1>1
<1>3. y \in Nat /\ i * z <= y /\ y < (i + 1) * z
  BY <1>1, <1>2
<1>4. y = i * z + (j - 1) /\ i * z + j = y + 1
  BY <1>1
<1>5. ASSUME NEW g \in Nat, i < g PROVE i * z + j <= g * z
  <2>1. (i + 1) * z <= g * z /\ g * z \in Nat
    BY <1>1, <1>5
  <2> QED
    BY <1>1, <1>2, <2>1
<1> HIDE DEF y
<1>6. y \div z = i
  BY <1>1, <1>3, QuotientUnique
<1>7. y = z * (y \div z) + (y % z) /\ y % z \in 0 .. z - 1
  BY <1>1, <1>3, QuotientBounds
<1>8. y = z * i + (y % z) /\ z * i = i * z /\ z * i \in Nat
  BY <1>1, <1>6, <1>7
<1>9. y % z = j - 1
  BY <1>1, <1>4, <1>7, <1>8
<1>10. i * z + j \in Nat \ {0}
  BY <1>3, <1>4
<1>11. \A x \in Nat : x = i * z + j => x - 1 = y
  BY DEF y
<1> QED
  BY <1>5, <1>6, <1>9, <1>10, <1>11

\* Every place is one of those.
LEMMA PlaceExists ==
    ASSUME NEW g \in Nat, NEW z \in Nat, NEW x \in 1 .. g * z
    PROVE  \E i \in 0 .. g - 1, j \in 1 .. z : x = i * z + j
<1> DEFINE y == x - 1
           gz == g * z
<1>1. gz \in Nat /\ x \in 1 .. gz
  OBVIOUS
<1>2. z # 0
  <2>1. z = 0 => gz = 0
    OBVIOUS
  <2> HIDE DEF gz
  <2> QED
    BY <1>1, <2>1
<1>3. y \in Nat /\ x = y + 1 /\ y < gz
  <2> HIDE DEF gz
  <2> QED
    BY <1>1
<1> HIDE DEF y
<1> DEFINE i == y \div z
           r == y % z
<1>4. i \in Nat /\ r \in 0 .. z - 1 /\ y = z * i + r
  BY <1>2, <1>3, QuotientBounds
<1> HIDE DEF i, r
<1>5. z * i = i * z /\ i * z \in Nat
  BY <1>4
<1>6. i < g
  <2>1. ASSUME g <= i PROVE FALSE
    <3>1. g * z <= i * z
      BY <1>4, <2>1
    <3> QED
      BY <1>3, <1>4, <1>5, <3>1
  <2> QED
    BY <1>4, <2>1
<1>7. x = i * z + (r + 1)
  BY <1>3, <1>4, <1>5
<1>8. i \in 0 .. g - 1 /\ r + 1 \in 1 .. z
  BY <1>4, <1>6
<1> QED
  BY <1>7, <1>8

\* Sorted by index, the blocks are the data of all.
LEMMA UnshuffledData ==
    ASSUME script \in Scripts, NEW p, NEW s \in ProcType, SetFor(p, s, s.op),
           s.base = "gather", IsRoot(s), Len(s.ext) = ExtRoom(s),
           Blocks(s.buf, 0, BranchTotal(s) + 1, s.size, s.op, BranchOf(p, s.op))
    PROVE  HasAll(Unshuffled(s), s.size, s.op)
<1> DEFINE k == s.op
           g == GroupSize(k)
           z == s.size
           Of(i) == {b \in 0 .. g - 1 : s.buf[PerProc(s) * b + 1] = i}
           At(x) == Of((x - 1) \div z)
<1>1. /\ g \in Nat \ {0} /\ z \in Nat /\ s.ext \in Seq(Int)
      /\ DOMAIN s.ext = 1 .. z * g
  BY OpFacts DEF SetFor, OpOK, ProcType, ExtRoom
<1>2. Blocks(s.buf, 0, g, z, k, 0 .. g - 1)
  BY RootFacts
<1>3. PerProc(s) = 1 + z
  BY DEF PerProc
<1>4. Unshuffled(s) = [x \in 1 .. z * g |->
            IF At(x) = {} THEN s.ext[x]
            ELSE s.buf[PerProc(s) * Max(At(x)) + 2 + ((x - 1) % z)]]
  BY <1>1 DEF Unshuffled
<1> SUFFICES ASSUME NEW i \in 0 .. g - 1, NEW j \in 1 .. z
             PROVE  Unshuffled(s)[i * z + j] = Datum(k, i, j)
  BY DEF HasAll
<1> HIDE DEF g, z, k
<1> DEFINE x == i * z + j
<1>5. x \in 1 .. z * g /\ (x - 1) \div z = i /\ (x - 1) % z = j - 1
  <2>1. i \in Nat /\ z \in Nat /\ i < g /\ z * g = g * z /\ g * z \in Nat
    BY <1>1
  <2>2. x \in Nat \ {0} /\ x <= g * z /\ (x - 1) \div z = i /\ (x - 1) % z = j - 1
    <3> HIDE DEF Of
    <3> HIDE DEF x
    <3>1. \A y \in Nat : y = i * z + j => (y - 1) \div z = i /\ (y - 1) % z = j - 1
      BY <2>1, PlaceFacts
    <3>2. i * z + j \in Nat \ {0} /\ \A h \in Nat : i < h => i * z + j <= h * z
      BY <2>1, PlaceFacts
    <3>3. x = i * z + j
      BY DEF x
    <3> QED
      BY <1>1, <2>1, <3>1, <3>2, <3>3
  <2> HIDE DEF x
  <2> QED
    BY <2>1, <2>2
<1>6. \A b \in 0 .. g - 1, l \in 0 .. g - 1 : IsBlock(s.buf, b, z, k, l) =>
         s.buf[PerProc(s) * b + 1] = l
  <2>1. ASSUME NEW b \in 0 .. g - 1 PROVE PerProc(s) * b + 1 = b * (1 + z) + 1
    BY <1>1, <1>3
  <2> QED
    BY <2>1 DEF IsBlock
<1>7. Of(i) # {}
  <2>1. PICK b \in 0 .. g - 1 : IsBlock(s.buf, b, z, k, i)
    BY <1>2 DEF Blocks
  <2> QED
    BY <1>6, <2>1
<1> DEFINE b == Max(Of(i))
<1>8. b \in 0 .. g - 1 /\ s.buf[PerProc(s) * b + 1] = i
  <2>1. Of(i) \in SUBSET (0 .. g - 1) /\ g - 1 \in Nat
    BY <1>1
  <2>2. b \in Of(i)
    <3> HIDE DEF Of
    <3> QED
      BY <1>7, <2>1, MaxIn
  <2> QED
    BY <2>2
<1> HIDE DEF b
<1>9. IsBlock(s.buf, b, z, k, i)
  <2>1. PICK l \in 0 .. g - 1 : IsBlock(s.buf, b, z, k, l)
    BY <1>2, <1>8 DEF Blocks
  <2>2. l = i
    BY <1>6, <1>8, <2>1
  <2> QED
    BY <2>1, <2>2
<1>10. Unshuffled(s)[x] = s.buf[PerProc(s) * b + 2 + (j - 1)]
  <2>1. At(x) = Of(i)
    BY <1>5
  <2> HIDE DEF x, Of
  <2> QED
    BY <1>4, <1>5, <1>7, <2>1 DEF b
<1>11. PerProc(s) * b + 2 + (j - 1) = b * (1 + z) + 1 + j
  <2>1. b \in Nat /\ z \in Nat /\ j \in Nat /\ (1 + z) * b = b * (1 + z) /\ b * (1 + z) \in Nat
    BY <1>1, <1>8
  <2> QED
    BY <1>3, <2>1
<1>12. s.buf[b * (1 + z) + 1 + j] = Datum(k, i, j)
  BY <1>9 DEF IsBlock
<1> QED
  BY <1>10, <1>11, <1>12

\* What has come, added to a process's own data.
LEMMA ReducedData ==
    ASSUME script \in Scripts, NEW p, NEW s \in ProcType, SetFor(p, s, s.op), s.base = "sum",
           \A c \in AllSlots : Source(s, c) # NoRank => SlotData(s, c),
           NEW local \in Seq(Int), Len(local) = s.size, HasOwn(local, 0, s.size, p, s.op)
    PROVE  HasSum(Reduced(s, local), 0, s.size, p, s.op)
<1> DEFINE k == s.op
           g == GroupSize(k)
           Of(c, j) == IF s.tree.child[c] = NoRank THEN 0 ELSE s.buf[c * s.size + j]
           P == PartsBefore(p, k, MaxChild)
<1>1. /\ k \in DOMAIN script /\ p \in Group(k) /\ g \in Nat /\ k \in Nat /\ s.size \in Nat
      /\ IndexOf(p, k) \in 0 .. g - 1
  BY OpFacts, IndexFacts DEF SetFor, OpOK, ProcType
<1>2. DOMAIN local = 1 .. s.size
  OBVIOUS
<1> SUFFICES ASSUME NEW j \in 1 .. s.size
             PROVE  Reduced(s, local)[0 + j] = SumOver(BranchOf(p, k), g, k, j)
  BY DEF HasSum
<1>3. 0 + j = j /\ j \in Nat
  BY <1>1
<1> DEFINE f == [c \in AllSlots |-> Of(c, j)]
<1>4. Reduced(s, local)[j] = local[j] + SumBelow(f, MaxChild)
  BY <1>2 DEF Reduced
<1>5. local[j] = Datum(k, IndexOf(p, k), j)
  BY <1>3 DEF HasOwn
<1>6. SumBelow(f, MaxChild) = SumOver(P, g, k, j)
  <2>1. \A c \in AllSlots : f[c] = IF s.tree.child[c] = NoRank THEN 0
                                   ELSE SumOver(BranchOf(s.tree.child[c], k), g, k, j)
    BY DEF Source, SlotData, HasSum
  <2> HIDE DEF f
  <2> QED
    BY <1>3, <2>1, SumsBelow
<1>7. SumOver({IndexOf(p, k)}, g, k, j) = Datum(k, IndexOf(p, k), j)
  BY <1>1, <1>3, SumOne
<1>8. BranchOf(p, k) = P \cup {IndexOf(p, k)} /\ P \cap {IndexOf(p, k)} = {}
  BY <1>1, PartsAll
<1>9. /\ SumOver(P, g, k, j) \in Int /\ SumOver({IndexOf(p, k)}, g, k, j) \in Int
      /\ SumOver(BranchOf(p, k), g, k, j) =
           SumOver(P, g, k, j) + SumOver({IndexOf(p, k)}, g, k, j)
  <2> DEFINE I == {IndexOf(p, k)}
  <2>1. BranchOf(p, k) = P \cup I /\ P \cap I = {}
    BY <1>8
  <2> HIDE DEF P, I
  <2>2. SumOver(P, g, k, j) \in Int /\ SumOver(I, g, k, j) \in Int
    BY <1>1, <1>3, SumOverInt
  <2>3. SumOver(P \cup I, g, k, j) = SumOver(P, g, k, j) + SumOver(I, g, k, j)
    BY <1>1, <1>3, <2>1, SumUnion
  <2> QED
    BY <2>1, <2>2, <2>3 DEF I
<1> QED
  BY <1>3, <1>4, <1>5, <1>6, <1>7, <1>9

-----------------------------------------------------------------------------
(* The check for receives.                                                 *)

\* The data changes, nothing else.
LEMMA ReceivedFacts ==
    ASSUME script \in Scripts, NEW p, NEW s \in ProcType, SetFor(p, s, s.op),
           Len(s.ext) = ExtRoom(s), Len(s.buf) = BufRoom(s)
    PROVE  /\ Received(s) \in ProcType /\ SameSetting(s, Received(s))
           /\ Received(s).next = s.next /\ Received(s).send = s.send
<1> DEFINE v == Received(s)
<1>1. s.ext \in Seq(Int) /\ s.buf \in Seq(Int) /\ s.size \in Nat
  BY DEF ProcType
<1>2. CASE s.base = "gather" /\ IsRoot(s)
  <2>1. v = [s EXCEPT !.ext = Unshuffled(s)]
    BY <1>2 DEF Received
  <2>2. Unshuffled(s) \in Seq(Int) /\ Len(Unshuffled(s)) = Len(s.ext)
    BY <1>2, UnshuffledFacts
  <2> QED
    BY <2>1, <2>2 DEF ProcType, SameSetting
<1>3. CASE s.base = "sum" /\ IsRoot(s)
  <2>1. v = [s EXCEPT !.ext = Reduced(s, s.ext)]
    BY <1>3 DEF Received
  <2>2. Len(s.ext) = s.size
    BY <1>3 DEF ExtRoom
  <2>3. Reduced(s, s.ext) \in Seq(Int) /\ Len(Reduced(s, s.ext)) = s.size
    BY <1>1, <1>3, <2>2, ReducedFacts
  <2> QED
    BY <2>1, <2>2, <2>3 DEF ProcType, SameSetting
<1>4. CASE s.base = "sum" /\ ~IsRoot(s)
  <2> DEFINE low == SubSeq(s.buf, 1, Len(s.buf) - s.size)
             top == Reduced(s, LastBlock(s))
  <2>1. v = [s EXCEPT !.buf = low \o top]
    BY <1>4 DEF Received
  <2>2. /\ LastBlock(s) \in Seq(Int) /\ Len(LastBlock(s)) = s.size
        /\ low \in Seq(Int) /\ Len(low) = Len(s.buf) - s.size
    BY <1>4, LastBlockFacts
  <2>3. top \in Seq(Int) /\ Len(top) = s.size
    BY <1>1, <1>4, <2>2, ReducedFacts
  <2> HIDE DEF low, top
  <2>4. low \o top \in Seq(Int) /\ Len(low \o top) = Len(low) + Len(top)
    BY <2>2, <2>3, ConcatProperties
  <2>5. Len(low \o top) = Len(s.buf)
    BY <1>1, <2>2, <2>3, <2>4
  <2> QED
    BY <2>1, <2>4, <2>5 DEF ProcType, SameSetting
<1>5. CASE s.base \notin {"gather", "sum"} \/ (s.base = "gather" /\ ~IsRoot(s))
  <2>1. v = s
    BY <1>5 DEF Received
  <2> QED
    BY <2>1 DEF SameSetting
<1> QED
  BY <1>2, <1>3, <1>4, <1>5

\* With the data of all slots, s has what it is to end with and to send.
LEMMA ReceivedFinal ==
    ASSUME script \in Scripts, NEW p, NEW s \in ProcType, SetFor(p, s, s.op),
           s.size = SizeOf(p, s.op), Len(s.ext) = ExtRoom(s), Len(s.buf) = BufRoom(s),
           OwnData(p, s), \A c \in AllSlots : Source(s, c) # NoRank => SlotData(s, c),
           NEW v, SameSetting(s, v), v.ext = Received(s).ext, v.buf = Received(s).buf
    PROVE  FinalData(p, v)
<1> DEFINE k == s.op
           z == s.size
<1>1. /\ k \in DOMAIN script /\ p \in Group(k) /\ z \in Nat /\ s.base \in Kinds
      /\ s.ext \in Seq(Int) /\ s.buf \in Seq(Int) /\ s.tree = setGroupAndRootIndex(p, k)
  BY OpFacts DEF SetFor, OpOK, ProcType
<1>2. /\ v.base = s.base /\ v.size = z /\ v.op = k /\ Len(v.buf) = Len(s.buf)
      /\ IsRoot(v) <=> IsRoot(s)
      /\ BranchTotal(v) = BranchTotal(s)
  BY DEF SameSetting, IsRoot, BranchTotal, Older
<1>3. CASE s.base = "bcast"
  <2>1. Received(s) = s
    BY <1>3 DEF Received
  <2>2. CASE IsRoot(s)
    <3>1. HasOwn(s.ext, 0, z, p, k)
      BY <1>3, <2>2 DEF OwnData
    <3>2. IndexOf(p, k) = script[k].root /\ z = RootSize(k)
      BY <2>2, RootFacts
    <3>3. \A j \in 1 .. z : 0 + j = j /\ j <= z
      BY <1>1
    <3>4. HasTold(s.ext, z, k)
      BY <1>1, <3>1, <3>2, <3>3 DEF HasOwn, HasTold, Told
    <3> QED
      BY <1>2, <1>3, <2>1, <3>4 DEF FinalData
  <2>3. CASE ~IsRoot(s)
    <3>1. 0 \in AllSlots /\ Source(s, 0) # NoRank
      BY <1>3, <2>3, SlotFacts DEF Source, IsRoot
    <3>2. HasTold(s.ext, z, k)
      BY <1>3, <3>1 DEF SlotData
    <3> QED
      BY <1>2, <1>3, <2>1, <3>2 DEF FinalData
  <2> QED
    BY <2>2, <2>3
<1>4. CASE s.base = "gather"
  <2>1. Blocks(s.buf, 0, BranchTotal(s) + 1, z, k, BranchOf(p, k))
    BY <1>1, <1>4, AllBlocks
  <2>2. Received(s).buf = s.buf
    BY <1>4 DEF Received
  <2>3. CASE IsRoot(s)
    <3>1. Received(s).ext = Unshuffled(s)
      BY <1>4, <2>3 DEF Received, ProcType
    <3>2. HasAll(Unshuffled(s), z, k)
      BY <1>4, <2>1, <2>3, UnshuffledData
    <3> QED
      BY <1>2, <1>4, <2>1, <2>2, <2>3, <3>1, <3>2 DEF FinalData
  <2>4. CASE ~IsRoot(s)
    <3>1. Received(s).ext = s.ext
      BY <1>4, <2>4 DEF Received
    <3>2. HasOwn(s.ext, 0, z, p, k)
      BY <1>4, <2>4 DEF OwnData
    <3> QED
      BY <1>2, <1>4, <2>1, <2>2, <2>4, <3>1, <3>2 DEF FinalData
  <2> QED
    BY <2>3, <2>4
<1>5. CASE s.base = "sum"
  <2>1. HasOwn(s.ext, 0, z, p, k) /\ Len(s.ext) = z
    BY <1>5 DEF OwnData, ExtRoom
  <2>2. CASE IsRoot(s)
    <3>1. Received(s).ext = Reduced(s, s.ext)
      BY <1>5, <2>2 DEF Received, ProcType
    <3>2. HasSum(Reduced(s, s.ext), 0, z, p, k)
      BY <1>1, <1>5, <2>1, ReducedData
    <3> QED
      BY <1>2, <1>5, <2>2, <3>1, <3>2 DEF FinalData
  <2>3. CASE ~IsRoot(s)
    <3> DEFINE n == Len(s.buf) - z
               low == SubSeq(s.buf, 1, n)
               last == LastBlock(s)
               top == Reduced(s, last)
    <3>1. Received(s).ext = s.ext /\ Received(s).buf = low \o top
      BY <1>5, <2>3 DEF Received, ProcType
    <3>2. /\ last \in Seq(Int) /\ Len(last) = z
          /\ low \in Seq(Int) /\ Len(low) = n
      BY <1>5, <2>3, LastBlockFacts
    <3>3. n \in Nat /\ Len(s.buf) = n + z
      <4>1. Len(s.buf) \in Nat /\ Len(low) \in Nat
        BY <1>1, <3>2
      <4> QED
        BY <1>1, <3>2, <4>1
    <3>4. HasOwn(last, 0, z, p, k)
      <4>1. ASSUME NEW j \in 1 .. z PROVE last[0 + j] = s.buf[n + j]
        <5>1. last = SubSeq(s.buf, n + 1, Len(s.buf))
          BY DEF LastBlock
        <5>2. 0 + j = j /\ (n + 1) + j - 1 = n + j /\ j \in 1 .. (Len(s.buf) - (n + 1)) + 1
          BY <1>1, <3>3
        <5> HIDE DEF n
        <5>3. \A i \in n + 1 .. Len(s.buf) : s.buf[i] \in Int
          BY <1>1, <3>3
        <5>4. SubSeq(s.buf, n + 1, Len(s.buf))[j] = s.buf[(n + 1) + j - 1]
          BY <1>1, <3>3, <5>2, <5>3, SubSeqProperties
        <5> QED
          BY <5>1, <5>2, <5>4
      <4>2. \A j \in 1 .. z : s.buf[n + j] = Datum(k, IndexOf(p, k), j)
        BY <1>5, <2>3 DEF OwnData, HasOwn
      <4> QED
        BY <4>1, <4>2 DEF HasOwn
    <3>5. top \in Seq(Int) /\ Len(top) = z
      BY <1>5, <3>2, ReducedFacts
    <3>6. HasSum(top, 0, z, p, k)
      <4> HIDE DEF last
      <4> QED
        BY <1>1, <1>5, <3>2, <3>4, ReducedData
    <3> HIDE DEF n, low, top
    <3>7. ASSUME NEW j \in 1 .. z PROVE (low \o top)[n + j] = top[0 + j]
      <4>1. n + j \in 1 .. Len(low) + Len(top) /\ n + j > Len(low) /\ (n + j) - Len(low) = 0 + j
        BY <1>1, <3>2, <3>3, <3>5
      <4> QED
        BY <3>2, <3>5, <4>1, ConcatProperties
    <3>8. HasSum(low \o top, n, z, p, k)
      BY <3>6, <3>7 DEF HasSum
    <3>9. Len(v.buf) - v.size = n
      BY <1>1, <1>2, <3>3
    <3> QED
      BY <1>2, <1>5, <2>1, <2>3, <3>1, <3>8, <3>9 DEF FinalData
  <2> QED
    BY <2>2, <2>3
<1> QED
  BY <1>1, <1>3, <1>4, <1>5 DEF Kinds

LEMMA recv_checkKeeps ==
    ASSUME GroupInv, NEW p \in Ranks, recv_check(p)
    PROVE  GroupInv'
<1> DEFINE s == proc[p]
           req == Tested(s)
<1>1. /\ s \in ProcType /\ ObjectOK(p, s) /\ script' = script /\ chan' = chan /\ script \in Scripts
      /\ proc \in [Ranks -> ProcType] /\ results' \in [Ranks -> Seq(Seq(Int))]
  BY DEF GroupInv, TypeOK, recv_check
<1>2. s.at = "recv_check" /\ IsReceiving(s) /\ s # Idle
  BY DEF recv_check, IsReceiving, Idle
<1>3. /\ req \in [AllSlots -> RequestStates]
      /\ \A c \in AllSlots : /\ req[c] = "active" <=> s.req[c] = "active"
                             /\ req[c] # "null" => s.req[c] # "null"
  BY <1>1, TestedFacts
<1>4. s.next # "none" /\ s.left = {} /\ s.send = "null"
  BY <1>1, <1>2 DEF ObjectOK, Control
<1>5. CASE ~Over(req)
  <2> DEFINE v == [s EXCEPT !.req = req, !.at = "out", !.next = "recv_check"]
  <2>1. proc' = [proc EXCEPT ![p] = v]
    BY <1>5 DEF recv_check
  <2> HIDE DEF req
  <2>2. v \in ProcType
    BY <1>1, <1>3 DEF ProcType
  <2>3. /\ SameSetting(s, v) /\ v.at = "out" /\ v.next = "recv_check" /\ v.req = req
        /\ v.left = {} /\ v.send = "null" /\ v.ext = s.ext /\ v.buf = s.buf
    BY <1>1, <1>4 DEF ProcType, SameSetting
  <2>4. IsReceiving(v)
    BY <2>3 DEF IsReceiving
  <2>5. \A c \in AllSlots : Source(v, c) = Source(s, c)
    BY <1>1, <1>2, <2>3, SettingKept DEF ObjectOK
  <2>6. Control(v)
    BY <1>1, <1>2, <1>3, <1>5, <2>3, <2>5 DEF ObjectOK, Control
  <2> HIDE DEF v
  <2> QED
    BY <1>1, <1>2, <1>3, <1>4, <2>1, <2>2, <2>3, <2>4, <2>6, PhaseStep
<1>6. CASE Over(req)
  <2> DEFINE v == [Received(s) EXCEPT !.req = req, !.at = "send_start", !.left = Targets(s)]
  <2>1. proc' = [proc EXCEPT ![p] = v]
    BY <1>6 DEF recv_check
  <2> HIDE DEF req
  <2>2. /\ SetFor(p, s, s.op) /\ s.size = SizeOf(p, s.op) /\ Len(s.ext) = ExtRoom(s)
        /\ Len(s.buf) = BufRoom(s)
    BY <1>1, <1>4, Started
  <2>3. /\ Received(s) \in ProcType /\ SameSetting(s, Received(s))
        /\ Received(s).next = s.next /\ Received(s).send = s.send
    BY <1>1, <2>2, ReceivedFacts
  <2>4. Targets(s) \in SUBSET AllSlots
    BY DEF Targets
  <2>5. v \in ProcType
    BY <1>3, <2>3, <2>4 DEF ProcType
  <2>6. /\ SameSetting(s, v) /\ v.at = "send_start" /\ v.next = s.next /\ v.req = req
        /\ v.left = Targets(s) /\ v.send = "null"
        /\ v.ext = Received(s).ext /\ v.buf = Received(s).buf
    BY <1>4, <2>3 DEF ProcType, SameSetting
  <2> HIDE DEF v
  <2>7. /\ Prepared(p, v) /\ Targets(v) = Targets(s)
        /\ \A c \in AllSlots : Source(v, c) = Source(s, c)
                               /\ Destination(v, c) = Destination(s, c)
    BY <1>1, <1>2, <2>6, SettingKept DEF ObjectOK
  <2>8. ~IsReceiving(v)
    BY <2>6 DEF IsReceiving
  <2>9. ObjectOK(p, v)
    <3>1. DataOK(p, v)
      <4>1. \A c \in AllSlots : s.req[c] # "active"
        BY <1>3, <1>6 DEF Over
      <4>2. SameSizes => OwnData(p, s) /\ \A c \in AllSlots : Source(s, c) # NoRank => SlotData(s, c)
        BY <1>1, <1>2, <1>4, <4>1 DEF ObjectOK, DataOK
      <4>3. SameSizes => FinalData(p, v)
        BY <1>1, <2>2, <2>6, <4>2, ReceivedFinal
      <4> QED
        BY <2>8, <4>3 DEF DataOK
    <3> QED
      BY <1>4, <2>5, <2>6, <2>7, <2>8, <3>1 DEF ObjectOK, Control
  <2>10. s.op \in Nat
    BY <1>1 DEF ProcType
  <2>11. SentSame(p, v)
    <3>1. ASSUME NEW q \in Ranks, NEW j, Link(p, q, j)
          PROVE  Sent(v, q, j) <=> Sent(s, q, j)
      <4>1. j = s.op => \E c \in Unsent(v) : Destination(v, c) = q
        <5> SUFFICES ASSUME j = s.op PROVE \E c \in Unsent(v) : Destination(v, c) = q
          OBVIOUS
        <5>1. PICK c \in AllSlots : Destination(s, c) = q
          BY <1>1, <2>2, <3>1, LinkDestination
        <5>2. q # NoRank
          BY <1>1, <3>1, LinkEnds
        <5>3. c \in Targets(s)
          BY <5>1, <5>2 DEF Targets
        <5> QED
          BY <2>6, <2>7, <5>1, <5>3 DEF Unsent
      <4>2. v.op = s.op
        BY <2>6 DEF SameSetting
      <4> QED
        BY <1>2, <4>1, <4>2 DEF Sent
    <3> QED
      BY <3>1 DEF SentSame
  <2>12. GotSame(p, v)
    <3>1. \A c \in AllSlots : s.req[c] # "active"
      BY <1>3, <1>6 DEF Over
    <3> QED
      BY <1>2, <2>6, <2>8, <3>1 DEF GotSame, Got, SameSetting
  <2> QED
    BY <1>1, <2>1, <2>9, <2>11, <2>12, QuietStep
<1> QED
  BY <1>5, <1>6

-----------------------------------------------------------------------------
(* A message more, and the first message less.                             *)

LEMMA CarriesMore ==
    ASSUME NEW ch \in Seq(Seq(Int)), NEW ks, NEW q, NEW S, Carries(ch, ks, q, S),
           NEW k \in Nat, \A j \in S : j < k,
           NEW m \in Seq(Int), Len(m) = MessageLength(q, k), SameSizes => Content(q, k, m)
    PROVE  Carries(Append(ch, m), Append(ks, k), q, S \cup {k})
<1> DEFINE n == Len(ks)
           ls == Append(ks, k)
<1>1. /\ ks \in Seq(Nat) /\ n \in Nat /\ Len(ch) = n /\ {ks[i] : i \in 1 .. n} = S
      /\ \A i, j \in 1 .. n : i < j => ks[i] < ks[j]
      /\ \A i \in 1 .. n : /\ Len(ch[i]) = MessageLength(q, ks[i])
                           /\ SameSizes => Content(q, ks[i], ch[i])
  BY DEF Carries
<1>2. /\ ls \in Seq(Nat) /\ Len(ls) = n + 1 /\ ls[n + 1] = k
      /\ \A i \in 1 .. n : ls[i] = ks[i] /\ ls[i] \in S
  BY <1>1
<1>3. /\ Append(ch, m) \in Seq(Seq(Int)) /\ Len(Append(ch, m)) = n + 1
      /\ Append(ch, m)[n + 1] = m /\ \A i \in 1 .. n : Append(ch, m)[i] = ch[i]
  BY <1>1
<1> HIDE DEF n, ls
<1>4. \A i \in 1 .. n + 1 : i \in 1 .. n \/ i = n + 1
  BY <1>1
<1>5. {ls[i] : i \in 1 .. Len(ls)} = S \cup {k}
  <2>1. ASSUME NEW i \in 1 .. n + 1 PROVE ls[i] \in S \cup {k}
    BY <1>2, <1>4
  <2>2. ASSUME NEW j \in S PROVE \E i \in 1 .. n + 1 : ls[i] = j
    <3>1. PICK i \in 1 .. n : ks[i] = j
      BY <1>1
    <3>2. i \in 1 .. n + 1
      BY <1>1
    <3> QED
      BY <1>2, <3>1, <3>2
  <2>3. n + 1 \in 1 .. n + 1
    BY <1>1
  <2> QED
    BY <1>2, <2>1, <2>2, <2>3
<1>6. ASSUME NEW i \in 1 .. n + 1, NEW j \in 1 .. n + 1, i < j PROVE ls[i] < ls[j]
  <2>1. i \in 1 .. n
    BY <1>1, <1>6
  <2> QED
    BY <1>1, <1>2, <1>4, <1>6, <2>1
<1>7. ASSUME NEW i \in 1 .. n + 1
      PROVE  /\ Len(Append(ch, m)[i]) = MessageLength(q, ls[i])
             /\ SameSizes => Content(q, ls[i], Append(ch, m)[i])
  BY <1>1, <1>2, <1>3, <1>4
<1> QED
  BY <1>2, <1>3, <1>5, <1>6, <1>7 DEF Carries, ls

LEMMA CarriesFirst ==
    ASSUME NEW ch \in Seq(Seq(Int)), ch # <<>>, NEW ks, NEW q, NEW S, Carries(ch, ks, q, S)
    PROVE  /\ ks[1] \in S /\ \A j \in S : ks[1] <= j
           /\ Head(ch) \in Seq(Int) /\ Len(Head(ch)) = MessageLength(q, ks[1])
           /\ SameSizes => Content(q, ks[1], Head(ch))
           /\ Carries(Tail(ch), Tail(ks), q, S \ {ks[1]})
<1> DEFINE n == Len(ks)
           ls == Tail(ks)
<1>1. /\ ks \in Seq(Nat) /\ n \in Nat /\ Len(ch) = n /\ {ks[i] : i \in 1 .. n} = S
      /\ \A i, j \in 1 .. n : i < j => ks[i] < ks[j]
      /\ \A i \in 1 .. n : /\ Len(ch[i]) = MessageLength(q, ks[i])
                           /\ SameSizes => Content(q, ks[i], ch[i])
  BY DEF Carries
<1>2. n >= 1 /\ ks # <<>>
  <2>1. Len(ch) # 0
    BY EmptySeq
  <2> QED
    BY <1>1, <2>1
<1>3. /\ ls \in Seq(Nat) /\ Len(ls) = n - 1 /\ \A i \in 1 .. n - 1 : ls[i] = ks[i + 1]
  BY <1>1, <1>2, HeadTailProperties
<1>4. /\ Tail(ch) \in Seq(Seq(Int)) /\ Len(Tail(ch)) = n - 1
      /\ \A i \in 1 .. n - 1 : Tail(ch)[i] = ch[i + 1]
      /\ Head(ch) = ch[1] /\ Head(ch) \in Seq(Int)
  BY <1>1, <1>2, HeadTailProperties
<1> HIDE DEF n, ls
<1>5. \A i \in 1 .. n - 1 : i + 1 \in 1 .. n
  BY <1>1
<1>6. 1 \in 1 .. n /\ \A i \in 1 .. n : ks[i] \in Nat
  BY <1>1, <1>2 DEF n
<1>7. ks[1] \in S /\ \A j \in S : ks[1] <= j
  <2>1. ASSUME NEW i \in 1 .. n PROVE ks[1] <= ks[i]
    <3>1. i = 1 \/ 1 < i
      BY <1>1
    <3> QED
      BY <1>1, <1>6, <3>1
  <2> QED
    BY <1>1, <1>6, <2>1
<1>8. {ls[i] : i \in 1 .. n - 1} = S \ {ks[1]}
  <2>1. ASSUME NEW i \in 1 .. n - 1 PROVE ls[i] \in S /\ ls[i] # ks[1]
    <3>1. 1 < i + 1
      OBVIOUS
    <3>2. ks[1] < ks[i + 1]
      BY <1>1, <1>5, <1>6, <3>1
    <3>3. i + 1 \in 1 .. n /\ ls[i] = ks[i + 1]
      BY <1>3, <1>5
    <3>4. ks[i + 1] \in S
      BY <1>1, <3>3
    <3>5. ks[i + 1] # ks[1]
      BY <1>6, <3>2, <3>3
    <3> QED
      BY <3>3, <3>4, <3>5
  <2>2. ASSUME NEW j \in S, j # ks[1] PROVE \E i \in 1 .. n - 1 : ls[i] = j
    <3>1. PICK i \in 1 .. n : ks[i] = j
      BY <1>1
    <3>2. i - 1 \in 1 .. n - 1 /\ (i - 1) + 1 = i
      BY <1>1, <2>2, <3>1
    <3> QED
      BY <1>3, <3>1, <3>2
  <2> QED
    BY <2>1, <2>2
<1>9. ASSUME NEW i \in 1 .. n - 1, NEW j \in 1 .. n - 1, i < j PROVE ls[i] < ls[j]
  <2>1. i + 1 < j + 1
    BY <1>9
  <2> QED
    BY <1>1, <1>3, <1>5, <2>1
<1>10. ASSUME NEW i \in 1 .. n - 1
       PROVE  /\ Len(Tail(ch)[i]) = MessageLength(q, ls[i])
              /\ SameSizes => Content(q, ls[i], Tail(ch)[i])
  BY <1>1, <1>3, <1>4, <1>5
<1>11. Len(Head(ch)) = MessageLength(q, ks[1]) /\ (SameSizes => Content(q, ks[1], Head(ch)))
  BY <1>1, <1>4, <1>6
<1> QED
  BY <1>3, <1>4, <1>7, <1>8, <1>9, <1>10, <1>11 DEF Carries, ls

-----------------------------------------------------------------------------
(* A send.                                                                 *)

\* What s sends is what its parent, or its children, wait for.
LEMMA OutgoingFacts ==
    ASSUME script \in Scripts, NEW p, NEW s \in ProcType, SetFor(p, s, s.op),
           s.size = SizeOf(p, s.op), Len(s.ext) = ExtRoom(s), Len(s.buf) = BufRoom(s),
           NEW c \in AllSlots, Destination(s, c) # NoRank
    PROVE  Outgoing(s) \in Seq(Int) /\ Len(Outgoing(s)) = MessageLength(p, s.op)
<1>1. s.base \in Kinds
  BY OpFacts DEF SetFor, OpOK
<1>2. s.ext \in Seq(Int) /\ s.buf \in Seq(Int) /\ s.base = script[s.op].kind
  BY DEF ProcType, SetFor
<1>3. CASE s.base = "bcast"
  BY <1>2, <1>3 DEF Outgoing, ExtRoom, MessageLength
<1>4. CASE s.base = "gather"
  <2>1. BranchTotal(s) = Total(p, s.op)
    BY DEF SetFor, BranchTotal, Older, Total
  <2> QED
    BY <1>2, <1>4, <2>1 DEF Outgoing, BufRoom, MessageLength, PerProc
<1>5. CASE s.base = "sum"
  <2>1. ~IsRoot(s)
    BY <1>5 DEF Destination, IsRoot
  <2> QED
    BY <1>2, <1>5, <2>1, LastBlockFacts DEF Outgoing, MessageLength
<1> QED
  BY <1>1, <1>3, <1>4, <1>5 DEF Kinds

LEMMA OutgoingData ==
    ASSUME script \in Scripts, NEW p, NEW s \in ProcType, SetFor(p, s, s.op),
           s.size = SizeOf(p, s.op), Len(s.buf) = BufRoom(s), FinalData(p, s),
           NEW c \in AllSlots, Destination(s, c) # NoRank
    PROVE  Content(p, s.op, Outgoing(s))
<1> DEFINE k == s.op
           z == s.size
<1>1. s.base \in Kinds /\ s.base = script[k].kind /\ s.buf \in Seq(Int) /\ z \in Nat
  BY OpFacts DEF SetFor, OpOK, ProcType
<1>2. CASE s.base = "bcast"
  BY <1>1, <1>2 DEF Outgoing, FinalData, Content
<1>3. CASE s.base = "gather"
  <2>1. BranchTotal(s) = Total(p, k)
    BY DEF SetFor, BranchTotal, Older, Total
  <2> QED
    BY <1>1, <1>3, <2>1 DEF Outgoing, FinalData, Content
<1>4. CASE s.base = "sum"
  <2>1. ~IsRoot(s)
    BY <1>4 DEF Destination, IsRoot
  <2> DEFINE n == Len(s.buf) - z
             m == LastBlock(s)
  <2>2. HasSum(s.buf, n, z, p, k)
    BY <1>4, <2>1 DEF FinalData
  <2>3. n \in Nat /\ Len(s.buf) = n + z
    <3>1. Len(SubSeq(s.buf, 1, n)) = n /\ SubSeq(s.buf, 1, n) \in Seq(Int)
      BY <1>4, <2>1, LastBlockFacts
    <3>2. Len(s.buf) \in Nat /\ n \in Nat
      BY <1>1, <3>1
    <3> QED
      BY <1>1, <3>2
  <2>4. ASSUME NEW j \in 1 .. z PROVE m[0 + j] = s.buf[n + j]
    <3>1. m = SubSeq(s.buf, n + 1, Len(s.buf))
      BY DEF LastBlock
    <3>2. 0 + j = j /\ (n + 1) + j - 1 = n + j /\ j \in 1 .. (Len(s.buf) - (n + 1)) + 1
      BY <1>1, <2>3
    <3> HIDE DEF n
    <3>3. \A i \in n + 1 .. Len(s.buf) : s.buf[i] \in Int
      BY <1>1, <2>3
    <3>4. SubSeq(s.buf, n + 1, Len(s.buf))[j] = s.buf[(n + 1) + j - 1]
      BY <1>1, <2>3, <3>2, <3>3, SubSeqProperties
    <3> QED
      BY <3>1, <3>2, <3>4
  <2> HIDE DEF m
  <2>5. HasSum(m, 0, z, p, k)
    BY <2>2, <2>4 DEF HasSum
  <2>6. Outgoing(s) = m
    BY <1>4 DEF Outgoing, m
  <2> QED
    BY <1>1, <1>4, <2>5, <2>6 DEF Content
<1> QED
  BY <1>1, <1>2, <1>3, <1>4 DEF Kinds

\* One message more, of a later operation than all that are on their way.
LEMMA ChannelSend ==
    ASSUME GroupInv, script' = script, NEW p \in Ranks, NEW q \in Ranks, NEW k \in Nat,
           Link(p, q, k), NEW m \in Seq(Int), Len(m) = MessageLength(p, k),
           SameSizes => Content(p, k, m),
           chan'[p][q] = Append(chan[p][q], m),
           ~Sent(proc[p], q, k), \A j \in Nat : Sent(proc[p], q, j) => j <= k,
           \A j : Sent(proc'[p], q, j) <=> Sent(proc[p], q, j) \/ j = k,
           \A j : Got(proc'[q], p, j) <=> Got(proc[q], p, j)
    PROVE  ChannelOK(p, q)'
<1> DEFINE S == Pending(p, q)
<1>1. ChannelOK(p, q) /\ chan[p][q] \in Seq(Seq(Int)) /\ k \in DOMAIN script
  BY DEF GroupInv, TypeOK, Link
<1>2. PICK ks : Carries(chan[p][q], ks, p, S)
  BY <1>1 DEF ChannelOK
<1>3. ~Got(proc[q], p, k)
  BY <1>1 DEF ChannelOK
<1>4. Pending(p, q)' = S \cup {k}
  <2>1. ASSUME NEW j PROVE j \in Pending(p, q)' <=> j \in S \cup {k}
    <3>1. Link(p, q, j)' <=> Link(p, q, j)
      BY SameLink
    <3> QED
      BY <1>1, <1>3, <3>1 DEF Pending
  <2> QED
    BY <2>1
<1>5. ASSUME NEW j \in S PROVE j < k
  <2>1. Link(p, q, j) /\ Sent(proc[p], q, j)
    BY DEF Pending
  <2>2. j # k /\ j <= k /\ j \in Nat
    BY <2>1, LinkEnds DEF GroupInv, TypeOK
  <2> QED
    BY <2>2
<1>6. Carries(Append(chan[p][q], m), Append(ks, k), p, S \cup {k})
  <2> HIDE DEF S
  <2> QED
    BY <1>1, <1>2, <1>5, CarriesMore
<1>7. \E ls : Carries(chan[p][q], ls, p, Pending(p, q))'
  <2> DEFINE ls == Append(ks, k)
  <2>1. ASSUME NEW ch, NEW T, ch = chan'[p][q], T = Pending(p, q)' PROVE Carries(ch, ls, p, T)'
    BY <1>4, <1>6, <2>1, SameCarries
  <2> QED
    BY <2>1
<1>8. ASSUME NEW j, Link(p, q, j)', Got(proc'[q], p, j) PROVE Sent(proc'[p], q, j)
  <2>1. Link(p, q, j)
    BY <1>8, SameLink
  <2> QED
    BY <1>1, <1>8, <2>1 DEF ChannelOK
<1> QED
  BY <1>7, <1>8 DEF ChannelOK

LEMMA SendKeeps ==
    ASSUME GroupInv, NEW p \in Ranks, send_start(p), proc[p].left # {}, proc[p].send = "null"
    PROVE  GroupInv'
<1> DEFINE s == proc[p]
           k == s.op
           c == Min(s.left)
           q == Destination(s, c)
           m == Outgoing(s)
           v == IF script[k].blocking THEN [s EXCEPT !.send = "active"]
                ELSE [s EXCEPT !.req[c] = "active", !.left = s.left \ {c}]
<1>1. /\ s \in ProcType /\ ObjectOK(p, s) /\ script' = script /\ script \in Scripts
      /\ proc \in [Ranks -> ProcType] /\ results' \in [Ranks -> Seq(Seq(Int))]
      /\ chan \in [Ranks -> [Ranks -> Seq(Seq(Int))]] /\ s.op \in Nat
  BY DEF GroupInv, TypeOK, send_start, ProcType
<1>2. s.at = "send_start" /\ s # Idle /\ ~IsReceiving(s) /\ s.next # "none"
  BY <1>1 DEF send_start, Idle, IsReceiving, ObjectOK, Control
<1>3. /\ SetFor(p, s, k) /\ s.size = SizeOf(p, k) /\ Len(s.ext) = ExtRoom(s)
      /\ Len(s.buf) = BufRoom(s)
  BY <1>1, Started
<1>4. c \in s.left /\ c \in AllSlots /\ q # NoRank
  <2>1. s.left \in SUBSET Nat
    BY <1>1, SlotFacts DEF ProcType
  <2>2. c \in s.left
    BY <2>1, MinIn
  <2> QED
    BY <1>1, <2>2 DEF ObjectOK, Control, Targets
<1>5. Link(p, q, k) /\ \A d \in AllSlots : Destination(s, d) = q => d = c
  <2> HIDE DEF c
  <2> QED
    BY <1>1, <1>3, <1>4, DestinationLink
<1>6. q \in Ranks /\ q # p
  BY <1>1, <1>5, LinkEnds
<1>7. m \in Seq(Int) /\ Len(m) = MessageLength(p, k) /\ (SameSizes => Content(p, k, m))
  <2>1. SameSizes => FinalData(p, s)
    BY <1>1, <1>2 DEF ObjectOK, DataOK
  <2>2. SameSizes => Content(p, k, m)
    <3> HIDE DEF c
    <3> QED
      BY <1>1, <1>3, <1>4, <2>1, OutgoingData DEF q
  <2> QED
    BY <1>1, <1>3, <1>4, <2>2, OutgoingFacts
<1>8. proc' = [proc EXCEPT ![p] = v] /\ chan' = [chan EXCEPT ![p][q] = Append(@, m)]
  BY DEF send_start
<1>9. v \in ProcType
  BY <1>1, <1>4 DEF ProcType, RequestStates
<1>10. SameSetting(s, v) /\ v.at = s.at /\ v.next = s.next /\ v.ext = s.ext /\ v.buf = s.buf
  BY <1>1 DEF ProcType, SameSetting
<1>11. /\ Unsent(v) = s.left \ {c} /\ v.left \subseteq s.left
       /\ v.send # "null" => v.left # {}
       /\ Unsent(s) = s.left
  <2>1. CASE script[k].blocking
    <3>1. v.send = "active" /\ v.left = s.left
      BY <1>1, <2>1 DEF ProcType
    <3> QED
      BY <3>1 DEF Unsent
  <2>2. CASE ~script[k].blocking
    <3>1. v.send = "null" /\ v.left = s.left \ {c}
      BY <1>1, <2>2 DEF ProcType
    <3> QED
      BY <3>1 DEF Unsent
  <2> QED
    BY <2>1, <2>2
<1> HIDE DEF v, m, c, q
<1>12. /\ Prepared(p, v) /\ Targets(v) = Targets(s)
       /\ \A d \in AllSlots : Source(v, d) = Source(s, d) /\ Destination(v, d) = Destination(s, d)
  BY <1>1, <1>2, <1>10, SettingKept DEF ObjectOK
<1>13. ~IsReceiving(v)
  BY <1>2, <1>10 DEF IsReceiving
<1>14. ObjectOK(p, v)
  <2>1. DataOK(p, v)
    BY <1>1, <1>2, <1>10, <1>13, DataStays DEF ObjectOK, SameSetting
  <2> QED
    BY <1>1, <1>2, <1>9, <1>10, <1>11, <1>12, <1>13, <2>1 DEF ObjectOK, Control
<1>15. \A r \in Ranks : proc'[r] = IF r = p THEN v ELSE proc[r]
  BY <1>1, <1>8
<1>16. \A a, b \in Ranks : chan'[a][b] = IF a = p /\ b = q THEN Append(chan[a][b], m) ELSE chan[a][b]
  BY <1>1, <1>6, <1>8
<1>17. TypeOK'
  <2>1. \A a, b \in Ranks : chan'[a][b] \in Seq(Seq(Int))
    <3>1. chan[p][q] \in Seq(Seq(Int))
      BY <1>1, <1>6
    <3>2. Append(chan[p][q], m) \in Seq(Seq(Int))
      BY <1>7, <3>1
    <3> QED
      BY <1>1, <1>16, <3>2
  <2>2. chan' \in [Ranks -> [Ranks -> Seq(Seq(Int))]]
    <3>1. chan' = [a \in Ranks |-> [b \in Ranks |-> chan'[a][b]]]
      BY <1>1, <1>8
    <3> QED
      BY <2>1, <3>1
  <2>3. proc' \in [Ranks -> ProcType]
    BY <1>1, <1>8, <1>9
  <2> QED
    BY <1>1, <2>2, <2>3 DEF TypeOK, ProcType
<1>18. ASSUME NEW r \in Ranks PROVE ObjectOK(r, proc[r])'
  <2>1. ASSUME NEW u, u = proc'[r] PROVE ObjectOK(r, u)'
    <3>1. ObjectOK(r, u)
      BY <1>14, <1>15, <2>1 DEF GroupInv
    <3> QED
      BY <1>1, <3>1, SameObject
  <2> QED
    BY <2>1
\* What has been sent: what was, and this.
<1>19. ASSUME NEW b \in Ranks, NEW j
       PROVE  Sent(v, b, j) <=> Sent(s, b, j) \/ (b = q /\ j = k)
  <2>1. v.op = s.op /\ s.left \subseteq AllSlots
    BY <1>1, <1>10 DEF SameSetting, ProcType
  <2>2. (\A d \in s.left \ {c} : Destination(s, d) # b)
          <=> (\A d \in s.left : Destination(s, d) # b) \/ b = q
    BY <1>4, <1>5, <2>1 DEF q
  <2> QED
    BY <1>2, <1>11, <1>12, <1>13, <2>1, <2>2 DEF Sent
<1>20. ASSUME NEW a \in Ranks, NEW j PROVE Got(v, a, j) <=> Got(s, a, j)
  BY <1>2, <1>10, <1>13 DEF Got, SameSetting
<1>21. ~Sent(s, q, k)
  BY <1>1, <1>2, <1>4, <1>11 DEF Sent, q
<1>22. ASSUME NEW a \in Ranks, NEW b \in Ranks PROVE ChannelOK(a, b)'
  <2>1. CASE ~(a = p /\ b = q)
    <3>1. \A j : Link(a, b, j) => (Sent(proc'[a], b, j) <=> Sent(proc[a], b, j))
      BY <1>15, <1>19, <2>1
    <3>2. \A j : Link(a, b, j) => (Got(proc'[b], a, j) <=> Got(proc[b], a, j))
      BY <1>15, <1>20
    <3>3. chan'[a][b] = chan[a][b]
      BY <1>16, <2>1
    <3> QED
      BY <1>1, <3>1, <3>2, <3>3, SameChannel
  <2>2. CASE a = p /\ b = q
    <3>1. ASSUME NEW x, NEW l, x = q, l = k PROVE ChannelOK(p, x)'
      <4>1. x \in Ranks /\ Link(p, x, l) /\ l \in Nat /\ Len(m) = MessageLength(p, l)
           /\ (SameSizes => Content(p, l, m))
        BY <1>1, <1>5, <1>6, <1>7, <3>1
      <4>2. chan'[p][x] = Append(chan[p][x], m)
        BY <1>16, <3>1, <4>1
      <4>3. ~Sent(proc[p], x, l) /\ \A j \in Nat : Sent(proc[p], x, j) => j <= l
        BY <1>1, <1>21, <3>1 DEF Sent
      <4>4. \A j : Sent(proc'[p], x, j) <=> Sent(proc[p], x, j) \/ j = l
        BY <1>15, <1>19, <3>1, <4>1
      <4>5. \A j : Got(proc'[x], p, j) <=> Got(proc[x], p, j)
        BY <1>6, <1>15, <3>1, <4>1
      <4> HIDE DEF k
      <4> QED
        BY <1>1, <1>7, <4>1, <4>2, <4>3, <4>4, <4>5, ChannelSend
    <3> QED
      BY <2>2, <3>1
  <2> QED
    BY <2>1, <2>2
<1> QED
  BY <1>17, <1>18, <1>22 DEF GroupInv

-----------------------------------------------------------------------------
(* What a message that is received does to the data.                       *)

LEMMA OverwrittenAt ==
    ASSUME NEW b \in Seq(Int), NEW m \in Seq(Int), NEW at \in Nat
    PROVE  /\ \A y \in 1 .. Len(m) : at + y <= Len(b) => Overwritten(b, at, m)[at + y] = m[y]
           /\ \A y \in 1 .. Len(b) :
                 y <= at \/ y > at + Len(m) => Overwritten(b, at, m)[y] = b[y]
<1>1. DOMAIN b = 1 .. Len(b) /\ Len(b) \in Nat /\ Len(m) \in Nat
  OBVIOUS
<1>2. ASSUME NEW y \in 1 .. Len(m), at + y <= Len(b) PROVE Overwritten(b, at, m)[at + y] = m[y]
  <2>1. at + y \in DOMAIN b /\ at + y \in at + 1 .. at + Len(m) /\ (at + y) - at = y
    BY <1>1, <1>2
  <2> QED
    BY <2>1 DEF Overwritten
<1>3. ASSUME NEW y \in 1 .. Len(b), y <= at \/ y > at + Len(m)
      PROVE  Overwritten(b, at, m)[y] = b[y]
  <2>1. y \in DOMAIN b /\ ~(y \in at + 1 .. at + Len(m))
    BY <1>1, <1>3
  <2> QED
    BY <2>1 DEF Overwritten
<1> QED
  BY <1>2, <1>3

LEMMA BroadcastData ==
    ASSUME script \in Scripts, NEW p, NEW s \in ProcType, SetFor(p, s, s.op), s.base = "bcast",
           Len(s.ext) = ExtRoom(s), OwnData(p, s),
           NEW c \in AllSlots, s.req[c] = "active", NEW q, Source(s, c) = q, q # NoRank,
           NEW m \in Seq(Int), Len(m) = MessageLength(q, s.op), Content(q, s.op, m), Fits(s, c, m)
    PROVE  /\ c = 0 /\ ~IsRoot(s)
           /\ HasTold(Overwritten(s.ext, 0, m), s.size, s.op)
<1> DEFINE k == s.op
           z == s.size
           e == Overwritten(s.ext, 0, m)
           r == RootSize(k)
<1>1. c = 0 /\ ~IsRoot(s)
  BY DEF Source, IsRoot
<1>2. /\ k \in DOMAIN script /\ s.base = script[k].kind /\ z \in Nat /\ s.ext \in Seq(Int)
      /\ Len(s.ext) = z /\ Len(m) \in Nat
  BY DEF SetFor, ProcType, ExtRoom
<1>3. r \in Nat
  <2>1. /\ GroupSize(k) \in Nat \ {0} /\ script[k].root \in 0 .. GroupSize(k) - 1
        /\ script[k].sizes \in [1 .. GroupSize(k) -> Nat]
    BY <1>2, OpFacts DEF OpOK
  <2>2. script[k].root + 1 \in 1 .. GroupSize(k)
    BY <2>1
  <2> QED
    BY <2>1, <2>2 DEF RootSize
<1>4. HasTold(m, Len(m), k) /\ Len(m) <= z
  BY <1>2 DEF Content, MessageLength, Fits, Posted
<1>5. r <= Len(m) /\ r <= z
  <2>1. r <= Len(m)
    BY <1>4 DEF HasTold
  <2> QED
    BY <1>2, <1>3, <1>4, <2>1
<1>6. ASSUME NEW j \in 1 .. z PROVE e[j] = Told(k, j)
  <2>1. CASE j <= Len(m)
    <3>1. j \in 1 .. Len(m) /\ 0 + j = j /\ 0 + j <= Len(s.ext)
      BY <1>2, <2>1
    <3>2. e[j] = m[j]
      BY <1>2, <3>1, OverwrittenAt
    <3> QED
      BY <1>4, <3>1, <3>2 DEF HasTold
  <2>2. CASE ~(j <= Len(m))
    <3>1. j \in 1 .. Len(s.ext) /\ j > 0 + Len(m) /\ ~(j <= r)
      BY <1>2, <1>3, <1>5, <2>2
    <3>2. e[j] = s.ext[j]
      BY <1>2, <3>1, OverwrittenAt
    <3>3. s.ext[j] = 0
      BY <1>1 DEF OwnData
    <3> QED
      BY <3>1, <3>2, <3>3 DEF Told
  <2> QED
    BY <2>1, <2>2
<1> QED
  BY <1>1, <1>5, <1>6 DEF HasTold

\* A slot's blocks are after those of older slots, and before a process's own.
LEMMA SlotPlaces ==
    ASSUME script \in Scripts, NEW p, NEW s, SetFor(p, s, s.op)
    PROVE  /\ BranchTotal(s) \in Nat
           /\ \A c \in AllSlots : /\ Older(s, c) \in Nat /\ s.tree.branch[c] \in Nat
                                  /\ Older(s, c) + s.tree.branch[c] <= BranchTotal(s)
           /\ \A c, d \in AllSlots : d < c => Older(s, d) + s.tree.branch[d] <= Older(s, c)
<1> DEFINE f == s.tree.branch
<1>1. AllSlots = 0 .. MaxChild - 1 /\ MaxChild \in Nat
  BY SlotFacts
<1>2. \A c \in 0 .. MaxChild - 1 : f[c] \in Nat
  <2>1. setGroupAndRootIndex(p, s.op).branch \in [AllSlots -> Nat]
    BY TotalIs DEF SetFor
  <2> QED
    BY <1>1, <2>1 DEF SetFor
<1> HIDE DEF f
<1>3. /\ \A m \in 0 .. MaxChild : SumBelow(f, m) \in Nat
      /\ \A m \in 0 .. MaxChild - 1 : SumBelow(f, m) + f[m] <= SumBelow(f, MaxChild)
  BY <1>1, <1>2, SumNat
<1>4. MaxChild \in 0 .. MaxChild /\ \A c \in AllSlots : c \in 0 .. MaxChild
  BY <1>1
<1>5. ASSUME NEW c \in AllSlots, NEW d \in AllSlots, d < c
      PROVE  SumBelow(f, d) + f[d] <= SumBelow(f, c)
  <2>1. c \in Nat /\ d \in 0 .. c - 1 /\ \A i \in 0 .. c - 1 : i \in 0 .. MaxChild - 1
    BY <1>1, <1>5
  <2>2. \A i \in 0 .. c - 1 : f[i] \in Nat
    BY <1>2, <2>1
  <2>3. \A i \in 0 .. c - 1 : SumBelow(f, i) + f[i] <= SumBelow(f, c)
    BY <2>1, <2>2, SumNat
  <2> QED
    BY <2>1, <2>3
<1> QED
  BY <1>1, <1>2, <1>3, <1>4, <1>5 DEF BranchTotal, Older, f

LEMMA GatherData ==
    ASSUME script \in Scripts, NEW p, NEW s \in ProcType, SetFor(p, s, s.op), s.base = "gather",
           Len(s.buf) = BufRoom(s), NEW c \in AllSlots, NEW q, s.tree.child[c] = q, q # NoRank,
           SizeOf(q, s.op) = s.size, NEW m \in Seq(Int), Len(m) = MessageLength(q, s.op),
           Content(q, s.op, m), NEW b, b = Overwritten(s.buf, Offset(s, c), m)
    PROVE  /\ Blocks(b, Older(s, c), Older(s, c) + s.tree.branch[c], s.size, s.op, BranchOf(q, s.op))
           /\ \A x, e \in Nat : \A S :
                 /\ x <= e /\ e <= BranchTotal(s) + 1
                 /\ e <= Older(s, c) \/ x >= Older(s, c) + s.tree.branch[c]
                 /\ Blocks(s.buf, x, e, s.size, s.op, S)
                 => Blocks(b, x, e, s.size, s.op, S)
<1> DEFINE k == s.op
           z == s.size
           w == 1 + z
           o == Older(s, c)
           n == s.tree.branch[c]
           t == BranchTotal(s)
           len == Len(m)
<1>1. /\ k \in DOMAIN script /\ p \in Group(k) /\ s.tree = setGroupAndRootIndex(p, k)
      /\ s.base = script[k].kind /\ s.buf \in Seq(Int) /\ z \in Nat
  BY DEF SetFor, ProcType
<1>2. o \in Nat /\ n \in Nat /\ t \in Nat /\ o + n <= t
  BY SlotPlaces
<1>3. n = 1 + Total(q, k) /\ Total(q, k) \in Nat
  <2>1. q \in Group(k) /\ n = 1 + Total(q, k)
    BY <1>1, ChildFacts
  <2> QED
    BY <1>1, <2>1, TotalIs
<1>4. len = n * w
  <2>1. Total(q, k) + 1 = n
    BY <1>3
  <2> QED
    BY <1>1, <2>1 DEF MessageLength
<1>5. Blocks(m, 0, n, z, k, BranchOf(q, k))
  <2>1. Total(q, k) + 1 = n
    BY <1>3
  <2> QED
    BY <1>1, <2>1 DEF Content
<1>6. Len(s.buf) = (t + 1) * w /\ Offset(s, c) = o * w
  BY DEF BufRoom, Offset, PerProc
<1> HIDE DEF k, z, w, o, n, t, len
<1>7. w \in Nat /\ w = 1 + z
  BY <1>1 DEF w
<1> DEFINE ow == o * w
           nw == n * w
           tw == (t + 1) * w
<1>8. ow \in Nat /\ nw \in Nat /\ tw \in Nat /\ ow + nw <= tw
  <2>1. o + n \in Nat /\ o + n <= t + 1 /\ t + 1 \in Nat
    BY <1>2
  <2>2. (o + n) * w <= (t + 1) * w /\ (o + n) * w = o * w + n * w
    BY <1>2, <1>7, <2>1
  <2> QED
    BY <1>2, <1>7, <2>2
<1>9. Len(s.buf) = tw /\ Offset(s, c) = ow /\ Len(m) = nw
  BY <1>4, <1>6 DEF len
<1>10. Blocks(b, o, o + n, z, k, BranchOf(q, k))
  <2> HIDE DEF ow, nw, tw
  <2>1. ASSUME NEW y \in 1 .. nw PROVE b[ow + y] = m[y]
    <3>1. y \in 1 .. Len(m) /\ ow + y <= Len(s.buf)
      BY <1>8, <1>9
    <3> QED
      BY <1>1, <1>8, <1>9, <3>1, OverwrittenAt
  <2>2. \A y \in 1 .. n * (1 + z) : b[o * (1 + z) + y] = m[y]
    BY <1>7, <2>1 DEF ow, nw
  <2> QED
    BY <1>1, <1>2, <1>5, <2>2, BlocksMoved DEF z
<1>11. ASSUME NEW x \in Nat, NEW e \in Nat, NEW S, x <= e, e <= t + 1, e <= o \/ x >= o + n,
              Blocks(s.buf, x, e, z, k, S)
       PROVE  Blocks(b, x, e, z, k, S)
  <2> DEFINE xw == x * w
             ew == e * w
  <2>1. xw \in Nat /\ ew \in Nat /\ ew <= tw
    BY <1>2, <1>7, <1>11
  <2>2. ew <= ow \/ xw >= ow + nw
    <3>1. CASE e <= o
      <4>1. e * w <= o * w
        BY <1>2, <1>7, <3>1
      <4> QED
        BY <4>1
    <3>2. CASE x >= o + n
      <4>1. o + n \in Nat /\ (o + n) * w = o * w + n * w
        BY <1>2, <1>7
      <4>2. (o + n) * w <= x * w
        BY <1>7, <3>2, <4>1
      <4> QED
        BY <4>1, <4>2
    <3> QED
      BY <1>11, <3>1, <3>2
  <2> HIDE DEF xw, ew, ow, nw, tw
  <2>3. ASSUME NEW y \in xw + 1 .. ew PROVE b[y] = s.buf[y]
    <3>1. y \in 1 .. Len(s.buf) /\ (y <= ow \/ y > ow + Len(m))
      BY <1>8, <1>9, <2>1, <2>2
    <3> QED
      BY <1>1, <1>8, <1>9, <3>1, OverwrittenAt
  <2>4. \A y \in x * (1 + z) + 1 .. e * (1 + z) : b[y] = s.buf[y]
    BY <1>7, <2>3 DEF xw, ew
  <2> QED
    BY <1>1, <1>11, <2>4, BlocksKept DEF z
<1> QED
  BY <1>10, <1>11 DEF k, z, o, n, t

LEMMA TimesLess ==
    ASSUME NEW a \in Nat, NEW b \in Nat, NEW z \in Nat, a <= b
    PROVE  a * z <= b * z
<1>1. PICK d \in Nat : b = a + d
  <2>1. b - a \in Nat /\ b = a + (b - a)
    OBVIOUS
  <2> QED
    BY <2>1
<1>2. (a + d) * z = a * z + d * z /\ a * z \in Nat /\ d * z \in Nat
  OBVIOUS
<1> QED
  BY <1>1, <1>2

LEMMA SumData ==
    ASSUME script \in Scripts, NEW p, NEW s \in ProcType, SetFor(p, s, s.op), s.base = "sum",
           Len(s.buf) = BufRoom(s), NEW c \in AllSlots, NEW q, s.tree.child[c] = q, q # NoRank,
           SizeOf(q, s.op) = s.size, NEW m \in Seq(Int), Len(m) = MessageLength(q, s.op),
           Content(q, s.op, m), NEW b, b = Overwritten(s.buf, Offset(s, c), m)
    PROVE  /\ HasSum(b, c * s.size, s.size, q, s.op)
           /\ \A a \in Nat :
                 /\ a + s.size <= Len(s.buf)
                 /\ a + s.size <= c * s.size \/ a >= c * s.size + s.size
                 => \A j \in 1 .. s.size : b[a + j] = s.buf[a + j]
<1> DEFINE k == s.op
           z == s.size
           at == c * z
<1>1. s.base = script[k].kind /\ s.buf \in Seq(Int) /\ z \in Nat /\ Len(s.buf) \in Nat
  BY DEF SetFor, ProcType
<1>2. at \in Nat /\ at + z <= Len(s.buf) /\ Offset(s, c) = at
  BY BlockInBuffer DEF Offset
<1>3. Len(m) = z /\ HasSum(m, 0, z, q, k)
  BY <1>1 DEF MessageLength, Content
<1> HIDE DEF at, z
<1>4. ASSUME NEW j \in 1 .. z PROVE b[at + j] = m[0 + j]
  <2>1. j \in 1 .. Len(m) /\ at + j <= Len(s.buf) /\ 0 + j = j
    BY <1>1, <1>2, <1>3
  <2> QED
    BY <1>1, <1>2, <2>1, OverwrittenAt
<1>5. HasSum(b, at, z, q, k)
  BY <1>3, <1>4 DEF HasSum
<1>6. ASSUME NEW a \in Nat, a + z <= Len(s.buf), a + z <= at \/ a >= at + z, NEW j \in 1 .. z
      PROVE  b[a + j] = s.buf[a + j]
  <2>1. a + j \in 1 .. Len(s.buf) /\ (a + j <= at \/ a + j > at + Len(m))
    BY <1>1, <1>2, <1>3, <1>6
  <2> QED
    BY <1>1, <1>2, <2>1, OverwrittenAt
<1> QED
  BY <1>5, <1>6 DEF at, z

LEMMA TransferData ==
    ASSUME script \in Scripts, SameSizes, NEW p, NEW s \in ProcType, SetFor(p, s, s.op),
           s.size = SizeOf(p, s.op), Len(s.ext) = ExtRoom(s), Len(s.buf) = BufRoom(s),
           OwnData(p, s),
           \A d \in AllSlots : Source(s, d) # NoRank /\ s.req[d] # "active" => SlotData(s, d),
           NEW c \in AllSlots, s.req[c] = "active", NEW q, Source(s, c) = q, q # NoRank,
           NEW m \in Seq(Int), Len(m) = MessageLength(q, s.op), Content(q, s.op, m), Fits(s, c, m),
           NEW v, SameSetting(s, v), \A d \in AllSlots \ {c} : v.req[d] = s.req[d],
           v.req[c] = "arrived",
           s.base = "bcast" => v.ext = Overwritten(s.ext, 0, m) /\ v.buf = s.buf,
           s.base # "bcast" => v.ext = s.ext /\ v.buf = Overwritten(s.buf, Offset(s, c), m)
    PROVE  /\ OwnData(p, v)
           /\ \A d \in AllSlots : Source(v, d) # NoRank /\ v.req[d] # "active" => SlotData(v, d)
<1> DEFINE k == s.op
           z == s.size
<1>1. /\ k \in DOMAIN script /\ p \in Group(k) /\ s.tree = setGroupAndRootIndex(p, k)
      /\ s.base = script[k].kind /\ s.base \in Kinds /\ z \in Nat /\ AllSlots \subseteq Nat
      /\ s.buf \in Seq(Int) /\ Len(s.buf) \in Nat
  BY OpFacts, SlotFacts DEF SetFor, OpOK, ProcType
<1>2. /\ v.base = s.base /\ v.size = z /\ v.op = k /\ v.tree = s.tree /\ Len(v.buf) = Len(s.buf)
      /\ IsRoot(v) <=> IsRoot(s)
      /\ BranchTotal(v) = BranchTotal(s)
      /\ \A d : Older(v, d) = Older(s, d) /\ Source(v, d) = Source(s, d)
  BY DEF SameSetting, IsRoot, BranchTotal, Older, Source
<1>3. CASE s.base = "bcast"
  <2>1. c = 0 /\ ~IsRoot(s) /\ HasTold(v.ext, z, k)
    BY <1>3, BroadcastData
  <2>2. OwnData(p, v)
    BY <1>2, <1>3, <2>1 DEF OwnData
  <2>3. \A d \in AllSlots : SlotData(v, d)
    BY <1>2, <1>3, <2>1 DEF SlotData
  <2> QED
    BY <2>2, <2>3
<1>4. ASSUME s.base # "bcast"
      PROVE  /\ \A d \in AllSlots : Source(s, d) = s.tree.child[d]
             /\ SizeOf(q, k) = z /\ q \in Group(k)
             /\ v.buf = Overwritten(s.buf, Offset(s, c), m)
  <2>1. \A d \in AllSlots : Source(s, d) = s.tree.child[d]
    BY <1>4 DEF Source
  <2>2. q \in Group(k)
    BY <1>1, <2>1, ChildFacts
  <2> QED
    BY <1>1, <1>4, <2>1, <2>2 DEF SameSizes
<1>5. CASE s.base = "gather"
  <2> DEFINE t == BranchTotal(s)
             n == s.tree.branch[c]
             o == Older(s, c)
  <2>1. /\ Blocks(v.buf, o, o + n, z, k, BranchOf(q, k))
        /\ \A x, e \in Nat : \A S :
              /\ x <= e /\ e <= t + 1 /\ (e <= o \/ x >= o + n)
              /\ Blocks(s.buf, x, e, z, k, S)
              => Blocks(v.buf, x, e, z, k, S)
    BY <1>4, <1>5, GatherData
  <2>2. t \in Nat /\ o \in Nat /\ n \in Nat /\ o + n <= t
    BY SlotPlaces
  <2>3. IsBlock(v.buf, t, z, k, IndexOf(p, k))
    <3>1. IsBlock(s.buf, t, z, k, IndexOf(p, k))
      BY <1>5 DEF OwnData
    <3> HIDE DEF t, o, n
    <3>2. Blocks(s.buf, t, t + 1, z, k, {IndexOf(p, k)})
      BY <2>2, <3>1, OneBlock
    <3>3. t \in Nat /\ t + 1 \in Nat /\ t <= t + 1 /\ t + 1 <= t + 1 /\ t >= o + n
      BY <2>2
    <3>4. Blocks(v.buf, t, t + 1, z, k, {IndexOf(p, k)})
      BY <2>1, <3>2, <3>3
    <3>5. \A u \in t .. (t + 1) - 1 : u = t
      BY <2>2
    <3> QED
      BY <3>4, <3>5 DEF Blocks
  <2>4. OwnData(p, v)
    BY <1>2, <1>5, <2>3 DEF OwnData, HasOwn
  <2>5. ASSUME NEW d \in AllSlots, Source(v, d) # NoRank, v.req[d] # "active" PROVE SlotData(v, d)
    <3>1. CASE d = c
      <4>1. Blocks(v.buf, Older(v, d), Older(v, d) + v.tree.branch[d], v.size, v.op,
                   BranchOf(v.tree.child[d], v.op))
        BY <1>2, <1>4, <1>5, <2>1, <3>1
      <4> QED
        BY <1>2, <1>5, <4>1 DEF SlotData
    <3>2. CASE d # c
      <4> DEFINE x == Older(s, d)
                 l == s.tree.branch[d]
                 e == x + l
                 S == BranchOf(s.tree.child[d], k)
      <4>1. SlotData(s, d)
        BY <1>2, <2>5, <3>2
      <4>2. Blocks(s.buf, x, e, z, k, S)
        BY <1>5, <4>1 DEF SlotData
      <4>3. x \in Nat /\ l \in Nat /\ e <= t
        BY SlotPlaces
      <4>4. e <= o \/ x >= o + n
        <5>1. d < c \/ c < d
          BY <1>1, <3>2
        <5>2. (d < c => e <= o) /\ (c < d => o + n <= x)
          BY SlotPlaces
        <5> HIDE DEF x, e, o, n
        <5>3. c < d => x >= o + n
          <6>1. x \in Nat /\ o \in Nat /\ n \in Nat
            BY <2>2, <4>3
          <6> QED
            BY <5>2, <6>1
        <5> QED
          BY <5>1, <5>2, <5>3
      <4>5. e \in Nat /\ x <= e /\ e <= t + 1
        BY <2>2, <4>3
      <4> HIDE DEF x, l, S, o, n, t
      <4>6. Blocks(v.buf, x, e, z, k, S)
        BY <2>1, <4>2, <4>3, <4>4, <4>5
      <4>7. Blocks(v.buf, Older(v, d), Older(v, d) + v.tree.branch[d], v.size, v.op,
                   BranchOf(v.tree.child[d], v.op))
        BY <1>2, <4>6 DEF x, l, S
      <4> QED
        BY <1>2, <1>5, <4>7 DEF SlotData
    <3> QED
      BY <3>1, <3>2
  <2> QED
    BY <2>4, <2>5
<1>6. CASE s.base = "sum"
  <2> DEFINE at == c * z
  <2>1. /\ HasSum(v.buf, at, z, q, k)
        /\ \A a \in Nat :
              /\ a + z <= Len(s.buf) /\ (a + z <= at \/ a >= at + z)
              => \A j \in 1 .. z : v.buf[a + j] = s.buf[a + j]
    <3>1. s.tree.child[c] = q /\ SizeOf(q, k) = s.size
          /\ v.buf = Overwritten(s.buf, Offset(s, c), m)
      BY <1>4, <1>6
    <3> QED
      BY <1>6, <3>1, SumData, Zenon
  <2>2. at \in Nat
    BY <1>1
  <2>3. ~IsRoot(s) => HasOwn(v.buf, Len(s.buf) - z, z, p, k)
    <3> SUFFICES ASSUME ~IsRoot(s) PROVE HasOwn(v.buf, Len(s.buf) - z, z, p, k)
      OBVIOUS
    <3> DEFINE ch == Children(s)
               n == Len(s.buf) - z
               zc == z * ch
    <3>1. c + 1 <= ch /\ ch \in Nat /\ c \in Nat
      BY <1>1, <1>4, <1>6, ChildrenFacts
    <3>2. Len(s.buf) = zc + z
      BY <1>6 DEF BufRoom
    <3> HIDE DEF ch
    <3>3. at + z <= zc /\ zc \in Nat
      <4> HIDE DEF z
      <4>1. z \in Nat
        BY <1>1
      <4>3. (c + 1) * z <= ch * z
        BY <3>1, <4>1, TimesLess
      <4>4. (c + 1) * z = c * z + z /\ ch * z = z * ch
        BY <3>1, <4>1
      <4>2. z * ch \in Nat
        BY <1>1, <3>1
      <4> QED
        BY <4>2, <4>3, <4>4
    <3> HIDE DEF zc, at
    <3>4. n \in Nat /\ n + z <= Len(s.buf) /\ n >= at + z
      BY <1>1, <2>2, <3>2, <3>3
    <3>5. HasOwn(s.buf, n, z, p, k)
      BY <1>6 DEF OwnData
    <3> HIDE DEF n
    <3>6. HasOwn(v.buf, n, z, p, k)
      BY <2>1, <3>4, <3>5 DEF HasOwn
    <3> QED
      BY <3>6 DEF n
  <2>4. OwnData(p, v)
    BY <1>2, <1>6, <2>3 DEF OwnData, HasOwn
  <2>5. ASSUME NEW d \in AllSlots, Source(v, d) # NoRank, v.req[d] # "active" PROVE SlotData(v, d)
    <3>1. CASE d = c
      <4>1. HasSum(v.buf, d * v.size, v.size, v.tree.child[d], v.op)
        BY <1>2, <1>4, <1>6, <2>1, <3>1
      <4> QED
        BY <1>2, <1>6, <4>1 DEF SlotData
    <3>2. CASE d # c
      <4> DEFINE a == d * z
      <4>1. SlotData(s, d)
        BY <1>2, <2>5, <3>2
      <4>2. HasSum(s.buf, a, z, s.tree.child[d], k)
        BY <1>6, <4>1 DEF SlotData
      <4>3. a \in Nat /\ a + z <= Len(s.buf)
        BY <1>2, <1>4, <1>6, <2>5, BlockInBuffer
      <4>4. a + z <= at \/ a >= at + z
        <5>1. c \in Nat /\ d \in Nat /\ (d + 1 <= c \/ c + 1 <= d)
          BY <1>1, <3>2
        <5> HIDE DEF z
        <5>2. d + 1 <= c => (d + 1) * z <= c * z
          BY <1>1, <5>1
        <5>3. c + 1 <= d => (c + 1) * z <= d * z
          BY <1>1, <5>1
        <5>4. (d + 1) * z = d * z + z /\ (c + 1) * z = c * z + z
          BY <1>1, <5>1
        <5> QED
          BY <2>2, <4>3, <5>1, <5>2, <5>3, <5>4
      <4> HIDE DEF a, at
      <4>5. HasSum(v.buf, a, z, s.tree.child[d], k)
        BY <2>1, <4>2, <4>3, <4>4 DEF HasSum
      <4> QED
        BY <1>2, <1>6, <4>5 DEF SlotData, a
    <3> QED
      BY <3>1, <3>2
  <2> QED
    BY <2>4, <2>5
<1> QED
  BY <1>1, <1>3, <1>5, <1>6 DEF Kinds

-----------------------------------------------------------------------------
(* A message is received.                                                  *)

\* One message less, of the earliest operation of those on their way.
LEMMA FirstPending ==
    ASSUME GroupInv, NEW p \in Ranks, NEW q \in Ranks, Link(q, p, proc[p].op),
           ~Got(proc[p], q, proc[p].op),
           NEW k \in Pending(q, p), \A j \in Pending(q, p) : k <= j
    PROVE  k = proc[p].op
<1> DEFINE l == proc[p].op
<1>1. /\ l \in DOMAIN script /\ l \in Nat /\ proc[q].op \in Nat /\ script \in Scripts
  BY DEF GroupInv, TypeOK, Link, ProcType
<1>2. Link(q, p, k) /\ Sent(proc[q], p, k) /\ ~Got(proc[p], q, k)
  BY DEF Pending
<1>3. k \in Nat
  BY <1>1, <1>2, LinkEnds
<1>4. l <= k
  BY <1>1, <1>2, <1>3 DEF Got
<1>5. Sent(proc[q], p, l)
  <2>1. CASE l = k
    BY <1>2, <2>1
  <2>2. CASE l < k
    BY <1>1, <1>2, <1>3, <2>2 DEF Sent
  <2> QED
    BY <1>1, <1>3, <1>4, <2>1, <2>2
<1>6. l \in Pending(q, p)
  BY <1>1, <1>5 DEF Pending
<1>7. k <= l
  BY <1>6
<1> QED
  BY <1>1, <1>3, <1>4, <1>7

LEMMA ChannelReceive ==
    ASSUME GroupInv, script' = script, NEW p \in Ranks, NEW q \in Ranks, NEW k \in Nat,
           Link(q, p, k), chan[q][p] # <<>>, chan'[q][p] = Tail(chan[q][p]),
           k = proc[p].op, ~Got(proc[p], q, k),
           \A j : Got(proc'[p], q, j) <=> Got(proc[p], q, j) \/ j = k,
           \A j : Sent(proc'[q], p, j) <=> Sent(proc[q], p, j)
    PROVE  /\ ChannelOK(q, p)'
           /\ Head(chan[q][p]) \in Seq(Int)
           /\ Len(Head(chan[q][p])) = MessageLength(q, k)
<1> DEFINE S == Pending(q, p)
<1>1. /\ ChannelOK(q, p) /\ chan[q][p] \in Seq(Seq(Int)) /\ k \in DOMAIN script
      /\ proc[q].op \in Nat /\ script \in Scripts
  BY DEF GroupInv, TypeOK, Link, ProcType
<1>2. PICK ks : Carries(chan[q][p], ks, q, S)
  BY <1>1 DEF ChannelOK
<1>3. /\ ks[1] \in S /\ \A j \in S : ks[1] <= j
      /\ Head(chan[q][p]) \in Seq(Int) /\ Len(Head(chan[q][p])) = MessageLength(q, ks[1])
      /\ Carries(Tail(chan[q][p]), Tail(ks), q, S \ {ks[1]})
  <2> HIDE DEF S
  <2> QED
    BY <1>1, <1>2, CarriesFirst
<1>6. ks[1] = k
  BY <1>3, FirstPending
<1>7. Pending(q, p)' = S \ {k}
  <2>1. ASSUME NEW j PROVE j \in Pending(q, p)' <=> j \in S \ {k}
    <3>1. Link(q, p, j)' <=> Link(q, p, j)
      BY SameLink
    <3> QED
      BY <3>1 DEF Pending
  <2> QED
    BY <2>1
<1>8. \E ls : Carries(chan[q][p], ls, q, Pending(q, p))'
  <2> DEFINE ls == Tail(ks)
  <2>1. ASSUME NEW ch, NEW T, ch = chan'[q][p], T = Pending(q, p)' PROVE Carries(ch, ls, q, T)'
    BY <1>3, <1>6, <1>7, <2>1, SameCarries
  <2> QED
    BY <2>1
<1>9. ASSUME NEW j, Link(q, p, j)', Got(proc'[p], q, j) PROVE Sent(proc'[q], p, j)
  <2>1. Link(q, p, j)
    BY <1>9, SameLink
  <2>2. Sent(proc[q], p, k)
    BY <1>3, <1>6 DEF Pending
  <2> QED
    BY <1>1, <1>9, <2>1, <2>2 DEF ChannelOK
<1> QED
  BY <1>3, <1>6, <1>8, <1>9 DEF ChannelOK

\* The message an object waits for is the one its operation sends it.
LEMMA FirstMessage ==
    ASSUME GroupInv, NEW p \in Ranks, NEW q \in Ranks, Link(q, p, proc[p].op),
           ~Got(proc[p], q, proc[p].op), chan[q][p] # <<>>
    PROVE  /\ Head(chan[q][p]) \in Seq(Int)
           /\ Len(Head(chan[q][p])) = MessageLength(q, proc[p].op)
           /\ SameSizes => Content(q, proc[p].op, Head(chan[q][p]))
<1>1. ChannelOK(q, p) /\ chan[q][p] \in Seq(Seq(Int))
  BY DEF GroupInv, TypeOK
<1>2. PICK ks : Carries(chan[q][p], ks, q, Pending(q, p))
  BY <1>1 DEF ChannelOK
<1>3. ASSUME NEW S, S = Pending(q, p)
      PROVE  /\ ks[1] \in S /\ \A j \in S : ks[1] <= j
             /\ Head(chan[q][p]) \in Seq(Int) /\ Len(Head(chan[q][p])) = MessageLength(q, ks[1])
             /\ SameSizes => Content(q, ks[1], Head(chan[q][p]))
  BY <1>1, <1>2, <1>3, CarriesFirst
<1>4. ks[1] = proc[p].op
  BY <1>3, FirstPending
<1> QED
  BY <1>3, <1>4

LEMMA TransferKeeps ==
    ASSUME GroupInv, NEW p \in Ranks, NEW q \in Ranks, Transfer(q, p)
    PROVE  GroupInv'
<1> DEFINE s == proc[p]
           k == s.op
           m == Head(chan[q][p])
<1>1. /\ s \in ProcType /\ ObjectOK(p, s) /\ script' = script /\ script \in Scripts
      /\ proc \in [Ranks -> ProcType] /\ results' \in [Ranks -> Seq(Seq(Int))]
      /\ chan \in [Ranks -> [Ranks -> Seq(Seq(Int))]] /\ s.op \in Nat
  BY DEF GroupInv, TypeOK, Transfer, ProcType
<1>2. PICK c \in AllSlots :
        /\ Receiving(p)
        /\ s.req[c] = "active"
        /\ Source(s, c) = q
        /\ chan[q][p] # <<>> /\ Fits(s, c, m)
        /\ proc' = [proc EXCEPT ![p] =
              IF s.base = "bcast"
              THEN [s EXCEPT !.req[c] = "arrived", !.ext = Overwritten(s.ext, 0, m)]
              ELSE [s EXCEPT !.req[c] = "arrived", !.buf = Overwritten(s.buf, Offset(s, c), m)]]
        /\ chan' = [chan EXCEPT ![q][p] = Tail(@)]
  BY DEF Transfer
<1> DEFINE v == IF s.base = "bcast"
                THEN [s EXCEPT !.req[c] = "arrived", !.ext = Overwritten(s.ext, 0, m)]
                ELSE [s EXCEPT !.req[c] = "arrived", !.buf = Overwritten(s.buf, Offset(s, c), m)]
<1>3. IsReceiving(s) /\ ~Over(s.req)
  BY <1>2 DEF IsReceiving, Receiving, Over
<1>4. s # Idle /\ s.next # "none" /\ s.left = {} /\ s.send = "null"
  BY <1>1, <1>3 DEF Idle, IsReceiving, ObjectOK, Control
<1>5. SetFor(p, s, k)
  BY <1>1, <1>4, Started
<1>6. q # NoRank
  BY SlotFacts
<1>7. Link(q, p, k) /\ \A d \in AllSlots : Source(s, d) = q => d = c
  BY <1>1, <1>2, <1>5, <1>6, SourceLink
<1>8. q # p
  BY <1>1, <1>7, LinkEnds
<1>9. chan[q][p] \in Seq(Seq(Int)) /\ m \in Seq(Int)
  BY <1>1, <1>2, HeadTailProperties
<1>10. Offset(s, c) \in Int
  <2>1. s.tree.branch \in [AllSlots -> Nat] /\ s.size \in Nat
    BY <1>1 DEF ProcType
  <2>2. AllSlots = 0 .. MaxChild - 1 /\ MaxChild \in Nat /\ c \in 0 .. MaxChild
    BY SlotFacts
  <2>3. \A d \in 0 .. MaxChild - 1 : s.tree.branch[d] \in Nat
    BY <2>1, <2>2
  <2>4. \A d \in 0 .. MaxChild : SumBelow(s.tree.branch, d) \in Nat
    BY <2>2, <2>3, SumNat
  <2>5. Older(s, c) \in Nat
    BY <2>2, <2>4 DEF Older
  <2>6. Older(s, c) * (1 + s.size) \in Int /\ c * s.size \in Int
    BY <2>1, <2>2, <2>5
  <2> QED
    BY <2>6 DEF Offset, PerProc
<1>11. /\ Overwritten(s.ext, 0, m) \in Seq(Int) /\ Len(Overwritten(s.ext, 0, m)) = Len(s.ext)
       /\ Overwritten(s.buf, Offset(s, c), m) \in Seq(Int)
       /\ Len(Overwritten(s.buf, Offset(s, c), m)) = Len(s.buf)
  <2>1. s.ext \in Seq(Int) /\ s.buf \in Seq(Int)
    BY <1>1 DEF ProcType
  <2> QED
    BY <1>9, <1>10, <2>1, OverwrittenFacts
<1> HIDE DEF m
<1>12. v \in ProcType
  BY <1>1, <1>11 DEF ProcType, RequestStates
<1>13. /\ SameSetting(s, v) /\ v.at = s.at /\ v.next = s.next /\ v.left = s.left
       /\ v.send = s.send /\ v.req = [s.req EXCEPT ![c] = "arrived"]
       /\ s.base = "bcast" => v.ext = Overwritten(s.ext, 0, m) /\ v.buf = s.buf
       /\ s.base # "bcast" => v.ext = s.ext /\ v.buf = Overwritten(s.buf, Offset(s, c), m)
  BY <1>1, <1>11 DEF ProcType, SameSetting
<1>14. proc' = [proc EXCEPT ![p] = v]
  BY <1>2
<1> HIDE DEF v
<1>15. /\ Prepared(p, v) /\ Targets(v) = Targets(s)
       /\ \A d \in AllSlots : Source(v, d) = Source(s, d) /\ Destination(v, d) = Destination(s, d)
  BY <1>1, <1>4, <1>13, SettingKept DEF ObjectOK
<1>16. IsReceiving(v)
  BY <1>3, <1>13 DEF IsReceiving
<1>17. \A d \in AllSlots : v.req[d] = IF d = c THEN "arrived" ELSE s.req[d]
  BY <1>1, <1>13 DEF ProcType
<1>18. ~Over(v.req)
  BY <1>17 DEF Over
<1>19. Control(v)
  BY <1>1, <1>2, <1>3, <1>4, <1>6, <1>13, <1>15, <1>17, <1>18 DEF ObjectOK, Control
<1>20. ObjectOK(p, v)
  <2>1. ~Got(s, q, k)
    BY <1>1, <1>2, <1>3 DEF Got
  <2>2. Len(m) = MessageLength(q, k) /\ (SameSizes => Content(q, k, m))
    BY <1>2, <1>7, <2>1, FirstMessage DEF m
  <2>3. s.size = SizeOf(p, k) /\ Len(s.ext) = ExtRoom(s) /\ Len(s.buf) = BufRoom(s)
    BY <1>1, <1>4, Started
  <2>4. ASSUME SameSizes
        PROVE  /\ OwnData(p, v)
               /\ \A d \in AllSlots : Source(v, d) # NoRank /\ v.req[d] # "active" => SlotData(v, d)
    <3>1. /\ OwnData(p, s)
          /\ \A d \in AllSlots : Source(s, d) # NoRank /\ s.req[d] # "active" => SlotData(s, d)
      BY <1>1, <1>3, <1>4, <2>4 DEF ObjectOK, DataOK
    <3>2. Fits(s, c, m) /\ v.req[c] = "arrived" /\ \A d \in AllSlots \ {c} : v.req[d] = s.req[d]
      BY <1>2, <1>17
    <3>3. Content(q, k, m) /\ Source(s, c) = q /\ s.req[c] = "active"
      BY <1>2, <2>2, <2>4
    <3>4. ASSUME NEW o \in ProcType, o = s
          PROVE  /\ OwnData(p, v)
                 /\ \A d \in AllSlots : Source(v, d) # NoRank /\ v.req[d] # "active" => SlotData(v, d)
      <4>1. /\ SetFor(p, o, o.op) /\ o.size = SizeOf(p, o.op)
            /\ Len(o.ext) = ExtRoom(o) /\ Len(o.buf) = BufRoom(o)
        BY <1>5, <2>3, <3>4
      <4>2. /\ OwnData(p, o)
            /\ \A d \in AllSlots : Source(o, d) # NoRank /\ o.req[d] # "active" => SlotData(o, d)
        BY <3>1, <3>4
      <4>3. o.req[c] = "active" /\ Source(o, c) = q /\ Fits(o, c, m)
        BY <3>2, <3>3, <3>4
      <4>4. Len(m) = MessageLength(q, o.op) /\ Content(q, o.op, m)
        BY <2>2, <3>3, <3>4
      <4>5. SameSetting(o, v) /\ v.req[c] = "arrived" /\ \A d \in AllSlots \ {c} : v.req[d] = o.req[d]
        BY <1>13, <3>2, <3>4
      <4>6. /\ o.base = "bcast" => v.ext = Overwritten(o.ext, 0, m) /\ v.buf = o.buf
            /\ o.base # "bcast" => v.ext = o.ext /\ v.buf = Overwritten(o.buf, Offset(o, c), m)
        BY <1>13, <3>4
      <4> QED
        BY <1>1, <1>6, <1>9, <2>4, <4>1, <4>2, <4>3, <4>4, <4>5, <4>6, TransferData
    <3> QED
      BY <1>1, <3>4
  <2>5. DataOK(p, v)
    BY <1>16, <2>4 DEF DataOK
  <2> QED
    BY <1>12, <1>15, <1>19, <2>5 DEF ObjectOK
<1>21. \A r \in Ranks : proc'[r] = IF r = p THEN v ELSE proc[r]
  BY <1>1, <1>14
<1>22. \A a, b \in Ranks : chan'[a][b] = IF a = q /\ b = p THEN Tail(chan[a][b]) ELSE chan[a][b]
  BY <1>1, <1>2
<1>23. TypeOK'
  <2>1. \A a, b \in Ranks : chan'[a][b] \in Seq(Seq(Int))
    <3>1. Tail(chan[q][p]) \in Seq(Seq(Int))
      BY <1>2, <1>9, HeadTailProperties
    <3> QED
      BY <1>1, <1>22, <3>1
  <2>2. chan' \in [Ranks -> [Ranks -> Seq(Seq(Int))]]
    <3>1. chan' = [a \in Ranks |-> [b \in Ranks |-> chan'[a][b]]]
      BY <1>1, <1>2
    <3> QED
      BY <2>1, <3>1
  <2>3. proc' \in [Ranks -> ProcType]
    BY <1>1, <1>12, <1>14
  <2> QED
    BY <1>1, <2>2, <2>3 DEF TypeOK, ProcType
<1>24. ASSUME NEW r \in Ranks PROVE ObjectOK(r, proc[r])'
  <2>1. ASSUME NEW u, u = proc'[r] PROVE ObjectOK(r, u)'
    <3>1. ObjectOK(r, u)
      BY <1>20, <1>21, <2>1 DEF GroupInv
    <3> QED
      BY <1>1, <3>1, SameObject
  <2> QED
    BY <2>1
<1>25. ASSUME NEW b \in Ranks, NEW j PROVE Sent(v, b, j) <=> Sent(s, b, j)
  BY <1>3, <1>13, <1>16 DEF Sent, SameSetting
\* What has been received: what was, and this.
<1>26. ASSUME NEW a \in Ranks, NEW j
       PROVE  Got(v, a, j) <=> Got(s, a, j) \/ (a = q /\ j = k)
  BY <1>2, <1>3, <1>7, <1>13, <1>15, <1>16, <1>17 DEF Got, SameSetting
<1>27. ~Got(s, q, k)
  BY <1>1, <1>2, <1>3 DEF Got
<1>28. ASSUME NEW a \in Ranks, NEW b \in Ranks PROVE ChannelOK(a, b)'
  <2>1. CASE ~(a = q /\ b = p)
    <3>1. \A j : Link(a, b, j) => (Sent(proc'[a], b, j) <=> Sent(proc[a], b, j))
      BY <1>21, <1>25
    <3>2. \A j : Link(a, b, j) => (Got(proc'[b], a, j) <=> Got(proc[b], a, j))
      BY <1>21, <1>26, <2>1
    <3>3. chan'[a][b] = chan[a][b]
      BY <1>22, <2>1
    <3> QED
      BY <1>1, <3>1, <3>2, <3>3, SameChannel
  <2>2. CASE a = q /\ b = p
    <3>1. ASSUME NEW l, l = k PROVE ChannelOK(q, p)'
      <4>1. Link(q, p, l) /\ l \in Nat /\ l = proc[p].op /\ ~Got(proc[p], q, l)
        BY <1>1, <1>7, <1>27, <3>1
      <4>2. chan[q][p] # <<>> /\ chan'[q][p] = Tail(chan[q][p])
        BY <1>2, <1>22
      <4>3. \A j : Got(proc'[p], q, j) <=> Got(proc[p], q, j) \/ j = l
        BY <1>21, <1>26, <3>1
      <4>4. \A j : Sent(proc'[q], p, j) <=> Sent(proc[q], p, j)
        BY <1>8, <1>21
      <4> QED
        BY <1>1, <4>1, <4>2, <4>3, <4>4, ChannelReceive
    <3> QED
      BY <2>2, <3>1
  <2> QED
    BY <2>1, <2>2
<1> QED
  BY <1>23, <1>24, <1>28 DEF GroupInv

-----------------------------------------------------------------------------
(* The invariant of the group operations, and what follows from it.        *)

LEMMA StepKeeps == GroupInv /\ [Next]_vars => GroupInv'
<1> SUFFICES ASSUME GroupInv, [Next]_vars PROVE GroupInv'
  OBVIOUS
<1>1. ASSUME NEW p \in Ranks, NEW q \in Ranks, Transfer(q, p) PROVE GroupInv'
  BY <1>1, TransferKeeps
<1>2. ASSUME NEW p \in Ranks, NEW c \in AllSlots, SendCompletes(p, c) PROVE GroupInv'
  BY <1>2, SendCompletesKeeps
<1>3. ASSUME NEW p \in Ranks, Begin(p) PROVE GroupInv'
  BY <1>3, BeginKeeps
<1>4. ASSUME NEW p \in Ranks, recv_check(p) PROVE GroupInv'
  BY <1>4, recv_checkKeeps
<1>5. ASSUME NEW p \in Ranks, send_start(p) PROVE GroupInv'
  <2>1. CASE proc[p].left = {} \/ proc[p].send # "null"
    BY <1>5, <2>1, NoSendKeeps
  <2>2. CASE proc[p].left # {} /\ proc[p].send = "null"
    BY <1>5, <2>2, SendKeeps
  <2> QED
    BY <2>1, <2>2
<1>6. ASSUME NEW p \in Ranks, send_check(p) PROVE GroupInv'
  BY <1>6, send_checkKeeps
<1>7. ASSUME NEW p \in Ranks, WaitallReturns(p) PROVE GroupInv'
  BY <1>7, ProceedKeeps DEF WaitallReturns
<1>8. ASSUME NEW p \in Ranks, proceedToNextWait(p) PROVE GroupInv'
  BY <1>8, ProceedKeeps DEF proceedToNextWait
<1>9. CASE UNCHANGED vars
  <2>1. /\ script' = script /\ proc' = proc /\ chan' = chan /\ results' = results
    BY <1>9 DEF vars
  <2>2. TypeOK'
    BY <2>1 DEF GroupInv, TypeOK, ProcType
  <2>3. ASSUME NEW r \in Ranks PROVE ObjectOK(r, proc[r])'
    <3>1. ASSUME NEW u, u = proc'[r] PROVE ObjectOK(r, u)'
      BY <2>1, <3>1, SameObject DEF GroupInv
    <3> QED
      BY <3>1
  <2>4. ASSUME NEW a \in Ranks, NEW b \in Ranks PROVE ChannelOK(a, b)'
    BY <2>1, SameChannel
  <2> QED
    BY <2>2, <2>3, <2>4 DEF GroupInv
<1> QED
  BY <1>1, <1>2, <1>3, <1>4, <1>5, <1>6, <1>7, <1>8, <1>9
     DEF Next, MPIStep, ProcStep, Check, AllOver

LEMMA GroupInvariant == Spec => []GroupInv
  BY GroupInit, StepKeeps, PTL DEF Spec

\* The least a caller must see to: whoever sends has given no more than who receives.
SizesFit ==
    \A p, q \in Ranks : \A k \in DOMAIN script : Link(q, p, k) => SizeOf(q, k) <= SizeOf(p, k)

LEMMA SizesKept == SizesFit /\ [Next]_vars => SizesFit'
<1> SUFFICES ASSUME SizesFit, [Next]_vars PROVE SizesFit'
  OBVIOUS
<1>1. script' = script
  BY DEF Next, MPIStep, Transfer, SendCompletes, ProcStep, Check, Begin, recv_check, send_start,
         send_check, WaitallReturns, proceedToNextWait, Proceed, AllOver, vars
<1>2. ASSUME NEW p \in Ranks, NEW q \in Ranks, NEW k \in DOMAIN script, Link(q, p, k)'
      PROVE  (SizeOf(q, k) <= SizeOf(p, k))'
  BY <1>1, <1>2, SameLink, SameScript DEF SizesFit
<1> QED
  BY <1>1, <1>2 DEF SizesFit

LEMMA InvariantFits == GroupInv /\ SizesFit => BuffersFit
<1> SUFFICES ASSUME GroupInv, SizesFit,
                    NEW p \in Ranks, NEW q \in Ranks, NEW c \in AllSlots,
                    Receiving(p), proc[p].req[c] = "active", Source(proc[p], c) = q
             PROVE  /\ chan[q][p] # <<>> => Fits(proc[p], c, Head(chan[q][p]))
                    /\ proc[p].base # "bcast" =>
                         Offset(proc[p], c) + Posted(proc[p], c) <= Len(proc[p].buf)
  BY DEF BuffersFit, MessagesFit, GroupInv
<1> DEFINE s == proc[p]
           k == s.op
<1>1. s \in ProcType /\ ObjectOK(p, s) /\ script \in Scripts /\ k \in Nat
      /\ chan[q][p] \in Seq(Seq(Int)) /\ ChannelOK(q, p)
  BY DEF GroupInv, TypeOK, ProcType
<1>2. IsReceiving(s) /\ ~Over(s.req)
  BY DEF IsReceiving, Receiving, Over
<1>3. s.next # "none"
  BY <1>1, <1>2 DEF IsReceiving, ObjectOK, Control
<1>4. SetFor(p, s, k) /\ s.size = SizeOf(p, k) /\ Len(s.buf) = BufRoom(s)
  BY <1>1, <1>3, Started
<1>5. q # NoRank
  BY SlotFacts
<1>6. Link(q, p, k)
  BY <1>1, <1>4, <1>5, SourceLink
<1>7. /\ k \in DOMAIN script /\ p \in Group(k) /\ q \in Group(k)
      /\ SizeOf(q, k) \in Nat /\ SizeOf(p, k) \in Nat /\ SizeOf(q, k) <= SizeOf(p, k)
  BY <1>1, <1>6, IndexFacts DEF Link, SizesFit
<1>8. s.base # "bcast" =>
         /\ s.tree.child[c] # NoRank
         /\ s.tree.branch[c] = 1 + Total(q, k) /\ Total(q, k) \in Nat
  <2> SUFFICES ASSUME s.base # "bcast"
               PROVE  /\ s.tree.child[c] # NoRank
                      /\ s.tree.branch[c] = 1 + Total(q, k) /\ Total(q, k) \in Nat
    OBVIOUS
  <2>1. q = setGroupAndRootIndex(p, k).child[c] /\ s.tree = setGroupAndRootIndex(p, k)
    BY <1>4 DEF Source, SetFor
  <2>2. setGroupAndRootIndex(p, k).branch[c] = 1 + Total(q, k)
    BY <1>1, <1>5, <1>7, <2>1, ChildFacts
  <2>3. Total(q, k) \in Nat
    BY <1>1, <1>7, TotalIs
  <2> QED
    BY <1>5, <2>1, <2>2, <2>3
<1>9. ASSUME chan[q][p] # <<>> PROVE Fits(s, c, Head(chan[q][p]))
  <2>1. ~Got(s, q, k)
    BY <1>1, <1>2 DEF Got
  <2>2. Len(Head(chan[q][p])) = MessageLength(q, k)
    BY <1>6, <1>9, <2>1, FirstMessage
  <2>3. CASE s.base # "gather"
    BY <1>4, <1>7, <2>2, <2>3 DEF Fits, Posted, MessageLength, SetFor
  <2>4. CASE s.base = "gather"
    <3> DEFINE t == Total(q, k) + 1
               a == 1 + SizeOf(q, k)
               b == 1 + SizeOf(p, k)
    <3>1. Len(Head(chan[q][p])) = t * a /\ Posted(s, c) = t * b
      BY <1>4, <1>8, <2>2, <2>4 DEF Posted, PerProc, MessageLength, SetFor
    <3>2. t \in Nat /\ a \in Nat /\ b \in Nat /\ a <= b
      BY <1>7, <1>8, <2>4
    <3> HIDE DEF t, a, b
    <3>3. t * a <= t * b
      BY <3>2
    <3> QED
      BY <3>1, <3>3 DEF Fits
  <2> QED
    BY <2>3, <2>4
<1>10. ASSUME s.base # "bcast" PROVE Offset(s, c) + Posted(s, c) <= Len(s.buf)
  <2>1. CASE s.base = "sum"
    <3>1. c * s.size \in Nat /\ c * s.size + s.size <= Len(s.buf)
      BY <1>1, <1>4, <1>8, <2>1, BlockInBuffer
    <3> QED
      BY <2>1, <3>1 DEF Offset, Posted
  <2>2. CASE s.base = "gather"
    <3> DEFINE f == s.tree.branch
               x == SumBelow(f, c)
               y == SumBelow(f, MaxChild)
               z == PerProc(s)
    <3>1. f \in [AllSlots -> Nat] /\ z \in Nat
      BY <1>1 DEF ProcType, PerProc
    <3>2. AllSlots = 0 .. MaxChild - 1 /\ MaxChild \in Nat /\ c \in 0 .. MaxChild - 1
          /\ c \in 0 .. MaxChild /\ MaxChild \in 0 .. MaxChild
      BY SlotFacts
    <3>3. \A d \in 0 .. MaxChild - 1 : f[d] \in Nat
      BY <3>1, <3>2
    <3> HIDE DEF f
    <3>4. x \in Nat /\ y \in Nat /\ f[c] \in Nat /\ x + f[c] <= y
      BY <3>2, <3>3, SumNat
    <3>5. /\ Len(s.buf) = (y + 1) * z /\ Offset(s, c) = x * z /\ Posted(s, c) = f[c] * z
      BY <1>4, <2>2 DEF BufRoom, Offset, Posted, Older, BranchTotal, f
    <3> DEFINE w == f[c]
    <3> HIDE DEF x, y, z
    <3>6. w \in Nat
      BY <3>4
    <3> HIDE DEF w
    <3>7. x + w <= y /\ Len(s.buf) = (y + 1) * z /\ Offset(s, c) + Posted(s, c) = x * z + w * z
      BY <3>4, <3>5 DEF w
    <3>8. x * z + w * z = (x + w) * z
      BY <3>1, <3>4, <3>6 DEF z
    <3>9. (x + w) * z <= (y + 1) * z
      <4>1. z \in Nat
        BY <3>1 DEF z
      <4> QED
        BY <3>4, <3>6, <3>7, <4>1
    <3> QED
      BY <3>7, <3>8, <3>9
  <2>3. s.base \in Kinds
    BY <1>1, <1>7, OpFacts, <1>4 DEF SetFor, OpOK
  <2> QED
    BY <1>10, <2>1, <2>2, <2>3 DEF Kinds
<1> QED
  BY <1>9, <1>10

(***************************************************************************)
(* AsyncCommGroup.C 341-347, 623-640, 941-950: each message fits what its  *)
(* receive is posted for, and what is posted fits the internal buffer,     *)
(* however far processes have gone on: whatever the groups, the trees and  *)
(* the scripts, if in no operation a process gives more than the one it    *)
(* sends to.                                                               *)
(***************************************************************************)
THEOREM MessagesFitBuffers == Spec /\ SizesFit => []BuffersFit
<1>1. GroupInv /\ SizesFit /\ [Next]_vars => (GroupInv /\ SizesFit)'
  BY StepKeeps, SizesKept
<1> QED
  BY <1>1, GroupInit, InvariantFits, PTL DEF Spec

LEMMA InvariantClean == GroupInv => NothingLeftOver
<1> SUFFICES ASSUME GroupInv PROVE NothingLeftOver
  OBVIOUS
<1>1. DoneIsQuiet
  BY DEF GroupInv, ObjectOK, Control, DoneIsQuiet, isDone, Over
<1>2. ASSUME NEW p \in Ranks, NEW q \in Ranks, isDone(p), isDone(q),
             \A k \in DOMAIN script :
               p \in Group(k) /\ q \in Group(k) => (k <= proc[p].op <=> k <= proc[q].op)
      PROVE  chan[p][q] = <<>>
  <2>1. /\ proc[p].op \in Nat /\ proc[q].op \in Nat /\ script \in Scripts
        /\ chan[p][q] \in Seq(Seq(Int)) /\ ChannelOK(p, q)
    BY DEF GroupInv, TypeOK, ProcType
  <2>2. ~IsReceiving(proc[q])
    BY <1>2 DEF GroupInv, ObjectOK, Control, isDone, IsReceiving
  <2>3. ASSUME NEW k \in Pending(p, q) PROVE FALSE
    <3>1. Link(p, q, k) /\ Sent(proc[p], q, k) /\ ~Got(proc[q], p, k)
      BY DEF Pending
    <3>2. k \in DOMAIN script /\ k \in Nat /\ p \in Group(k) /\ q \in Group(k)
      BY <2>1, <3>1, LinkEnds
    <3>3. k <= proc[p].op
      BY <2>1, <3>1, <3>2 DEF Sent
    <3>4. k <= proc[q].op
      BY <1>2, <3>2, <3>3
    <3>5. Got(proc[q], p, k)
      BY <2>1, <2>2, <3>2, <3>4 DEF Got
    <3> QED
      BY <3>1, <3>5
  <2>4. ASSUME chan[p][q] # <<>> PROVE FALSE
    <3>1. PICK ks : Carries(chan[p][q], ks, p, Pending(p, q))
      BY <2>1 DEF ChannelOK
    <3>2. ASSUME NEW S, S = Pending(p, q) PROVE ks[1] \in S
      BY <2>1, <2>4, <3>1, <3>2, CarriesFirst
    <3> QED
      BY <2>3, <3>2
  <2> QED
    BY <2>4
<1> QED
  BY <1>1, <1>2 DEF NothingLeftOver

(***************************************************************************)
(* AsyncCommGroup.h 46-60: operations of one tag do not meet each other's  *)
(* messages: when two processes have ended the same of the operations they *)
(* share, nothing is on its way between them, and an object that is done   *)
(* has no request pending.                                                 *)
(***************************************************************************)
THEOREM NothingIsLeftOver == Spec => []NothingLeftOver
  BY GroupInvariant, InvariantClean, PTL

-----------------------------------------------------------------------------
(* What the group operations promise: the outcomes.                        *)

\* The data of the processes with an index below i, one after the other.
DataBelow(i, z, k) == [x \in 1 .. i * z |-> Datum(k, (x - 1) \div z, ((x - 1) % z) + 1)]

\* The sums of the data of those.
SumsOf(i, z, k) == [j \in 1 .. z |-> SumOver(0 .. i - 1, GroupSize(k), k, j)]

\* The same names mean the same there.
LEMMA SameMeaning ==
    ASSUME NEW p, NEW k, NEW l
    PROVE  /\ Promised!Group(k) = Group(k) /\ Promised!GroupSize(k) = GroupSize(k)
           /\ Promised!IndexOf(p, k) = IndexOf(p, k) /\ Promised!SizeOf(p, k) = SizeOf(p, k)
           /\ Promised!RootOf(k) = RootOf(k)
           /\ Promised!IsNext(p, k, l) <=> IsNext(p, k, l)
           /\ Promised!Own(p, k) = Input(k, IndexOf(p, k), SizeOf(p, k))
  BY DEF Promised!Group, Group, Promised!GroupSize, GroupSize, Promised!IndexOf, IndexOf,
         Promised!SizeOf, SizeOf, Promised!RootOf, RootOf, Promised!IsNext, IsNext,
         Promised!Own, Promised!Input, Input

\* A sequence is the function of its elements.
LEMMA AsFunction ==
    ASSUME NEW q \in Seq(Int), NEW z, Len(q) = z
    PROVE  q = [j \in 1 .. z |-> q[j]]
  OBVIOUS

IsAll(h, k) ==
    h = [i \in 0 .. GroupSize(k) |->
            IF i = 0 THEN <<>> ELSE h[i - 1] \o Promised!Own(script[k].ranks[(i - 1) + 1], k)]

IsTotal(h, n, k) ==
    h = [i \in 0 .. GroupSize(k) |->
            IF i = 0 THEN [j \in 1 .. n |-> 0]
            ELSE [j \in 1 .. n |->
                     h[i - 1][j] + Promised!Own(script[k].ranks[(i - 1) + 1], k)[j]]]

LEMMA BelowOutcome ==
    ASSUME NEW p, NEW k, script[k].kind # "bcast", p # RootOf(k)
    PROVE  Promised!Outcome(p, k) = Promised!Own(p, k)
  BY SameMeaning DEF Promised!Outcome

LEMMA GatherOutcome ==
    ASSUME NEW p, NEW k, script[k].kind = "gather", p = RootOf(k), \E h : IsAll(h, k)
    PROVE  \E h : IsAll(h, k) /\ Promised!Outcome(p, k) = h[GroupSize(k)]
  BY SameMeaning DEF Promised!Outcome, IsAll

LEMMA SumOutcome ==
    ASSUME NEW p, NEW k, script[k].kind = "sum", p = RootOf(k), \E h : IsTotal(h, SizeOf(p, k), k)
    PROVE  \E h : IsTotal(h, SizeOf(p, k), k) /\ Promised!Outcome(p, k) = h[GroupSize(k)]
<1> DEFINE IsH(h) ==
             h = [i \in 0 .. Promised!GroupSize(k) |->
                    IF i = 0 THEN [j \in 1 .. Promised!SizeOf(p, k) |-> 0]
                    ELSE [j \in 1 .. Promised!SizeOf(p, k) |->
                            h[i - 1][j] + Promised!Own(script[k].ranks[(i - 1) + 1], k)[j]]]
           H == CHOOSE h : IsH(h)
<1>1. \A h : IsH(h) <=> IsTotal(h, SizeOf(p, k), k)
  <2>1. Promised!GroupSize(k) = GroupSize(k) /\ Promised!SizeOf(p, k) = SizeOf(p, k)
    BY SameMeaning
  <2> QED
    BY <2>1 DEF IsTotal
<1>2. script[k].kind # "bcast" /\ script[k].kind # "gather" /\ p = Promised!RootOf(k)
  BY SameMeaning
<1>3. Promised!Outcome(p, k) = H[Promised!GroupSize(k)]
  BY <1>2, Zenon DEF Promised!Outcome
<1>4. IsH(H)
  <2> HIDE DEF IsH
  <2> QED
    BY <1>1
<1> QED
  BY <1>1, <1>3, <1>4, SameMeaning

\* Data added to those of the indices before.
LEMMA DataSteps ==
    ASSUME NEW k \in Nat, NEW i \in Nat, NEW z \in Nat
    PROVE  /\ DataBelow(0, z, k) = <<>>
           /\ DataBelow(i + 1, z, k) = DataBelow(i, z, k) \o Input(k, i, z)
<1> DEFINE a == DataBelow(i, z, k)
           b == Input(k, i, z)
           iz == i * z
           v(x) == Datum(k, (x - 1) \div z, ((x - 1) % z) + 1)
<1>1. DataBelow(0, z, k) = <<>>
  <2>1. 0 * z = 0
    OBVIOUS
  <2>2. 1 .. 0 = {}
    OBVIOUS
  <2> QED
    BY <2>1, <2>2 DEF DataBelow
<1>2. iz \in Nat /\ (i + 1) * z = iz + z
  OBVIOUS
<1>3. a = [x \in 1 .. iz |-> v(x)] /\ DataBelow(i + 1, z, k) = [x \in 1 .. iz + z |-> v(x)]
  BY <1>2 DEF DataBelow
<1>4. b = [j \in 1 .. z |-> Datum(k, i, j)]
  BY DEF Input, Datum
<1>5. ASSUME NEW j \in 1 .. z PROVE v(iz + j) = Datum(k, i, j)
  <2>1. \A x \in Nat : x = iz + j => (x - 1) \div z = i /\ (x - 1) % z = j - 1
    BY PlaceFacts
  <2> HIDE DEF iz
  <2>2. iz + j \in Nat /\ (j - 1) + 1 = j
    BY <1>2
  <2> QED
    BY <2>1, <2>2
<1> HIDE DEF iz, v
<1>6. a \o b = [x \in 1 .. iz + z |-> v(x)]
  <2> DEFINE f == [x \in 1 .. iz + z |-> v(x)]
  <2>1. Len(a) = iz /\ Len(b) = z
    BY <1>2, <1>3, <1>4
  <2>2. a \in Seq(Int) /\ b \in Seq(Int)
    <3>1. \A x \in 1 .. iz : v(x) \in Int
      <4>1. ASSUME NEW x \in 1 .. iz PROVE v(x) \in Int
        <5>1. PICK l \in 0 .. i - 1, j \in 1 .. z : x = l * z + j
          BY <4>1, PlaceExists DEF iz
        <5>2. v(x) = Datum(k, l, j)
          <6>1. \A y \in Nat : y = l * z + j => (y - 1) \div z = l /\ (y - 1) % z = j - 1
            BY PlaceFacts
          <6>2. x \in Nat /\ (j - 1) + 1 = j
            BY <1>2
          <6> QED
            BY <5>1, <6>1, <6>2 DEF v
        <5>3. l \in Nat /\ j \in Nat
          OBVIOUS
        <5> QED
          BY <5>2, <5>3, DatumInt
      <4> QED
        BY <4>1
    <3>2. \A j \in 1 .. z : Datum(k, i, j) \in Int
      BY DatumInt
    <3> QED
      BY <1>2, <1>3, <1>4, <3>1, <3>2
  <2>3. ASSUME NEW x \in 1 .. iz + z PROVE (IF x <= iz THEN a[x] ELSE b[x - iz]) = v(x)
    <3>1. CASE x <= iz
      <4>1. x \in 1 .. iz
        BY <1>2, <3>1
      <4> QED
        BY <1>3, <3>1, <4>1
    <3>2. CASE x > iz
      <4>1. x - iz \in 1 .. z /\ iz + (x - iz) = x /\ ~(x <= iz)
        BY <1>2, <3>2
      <4>2. b[x - iz] = Datum(k, i, x - iz)
        BY <1>4, <4>1
      <4> QED
        BY <1>5, <4>1, <4>2
    <3> QED
      BY <1>2, <3>1, <3>2
  <2>4. /\ a \o b \in Seq(Int) /\ Len(a \o b) = iz + z
        /\ \A x \in 1 .. iz + z : (a \o b)[x] = IF x <= iz THEN a[x] ELSE b[x - iz]
    <3> HIDE DEF a, b
    <3> QED
      BY <2>1, <2>2, ConcatProperties
  <2>5. \A x \in 1 .. iz + z : (a \o b)[x] = v(x)
    BY <2>3, <2>4
  <2>6. f \in Seq(Int) /\ Len(f) = iz + z /\ \A x \in 1 .. iz + z : f[x] = v(x)
    <3>1. \A x \in 1 .. iz + z : v(x) \in Int
      <4>1. \A x \in 1 .. iz + z : (a \o b)[x] \in Int
        <5> HIDE DEF a, b
        <5> QED
          BY <2>4
      <4> QED
        BY <2>5, <4>1
    <3> QED
      BY <1>2, <3>1
  <2> HIDE DEF a, b, f
  <2>7. a \o b = f
    BY <2>4, <2>5, <2>6, SeqEqual
  <2> QED
    BY <2>7 DEF f
<1> QED
  BY <1>1, <1>3, <1>6

\* What the process with index i puts in, when all give z.
LEMMA OwnIs ==
    ASSUME script \in Scripts, NEW k \in DOMAIN script, NEW z, \A q \in Group(k) : SizeOf(q, k) = z,
           NEW i \in 0 .. GroupSize(k) - 1
    PROVE  Promised!Own(script[k].ranks[i + 1], k) = Input(k, i, z)
<1> DEFINE q == script[k].ranks[i + 1]
<1>1. i # NoIndex
  BY OpFacts DEF OpOK, NoIndex
<1>2. RankAt(k, i) = q
  BY <1>1 DEF RankAt
<1>3. q \in Group(k) /\ IndexOf(q, k) = i
  BY <1>2, RankFacts
<1>4. SizeOf(q, k) = z
  BY <1>3
<1> HIDE DEF q
<1>5. Promised!Own(q, k) = Input(k, IndexOf(q, k), SizeOf(q, k))
  BY SameMeaning
<1> QED
  BY <1>3, <1>4, <1>5 DEF q

LEMMA AllIs ==
    ASSUME script \in Scripts, NEW k \in DOMAIN script, NEW z \in Nat,
           \A q \in Group(k) : SizeOf(q, k) = z
    PROVE  /\ \E h : IsAll(h, k)
           /\ \A h : IsAll(h, k) => h[GroupSize(k)] = DataBelow(GroupSize(k), z, k)
<1> DEFINE g == GroupSize(k)
           D(i) == DataBelow(i, z, k)
           F == [i \in 0 .. g |-> D(i)]
           own(i) == Promised!Own(script[k].ranks[i + 1], k)
<1>1. g \in Nat /\ k \in Nat
  BY OpFacts DEF OpOK
<1>2. D(0) = <<>>
  BY <1>1, DataSteps
<1>3. ASSUME NEW i \in 0 .. g - 1 PROVE D(i + 1) = D(i) \o own(i)
  <2>1. own(i) = Input(k, i, z)
    BY OwnIs
  <2>2. i \in Nat
    OBVIOUS
  <2> HIDE DEF own
  <2>3. DataBelow(i + 1, z, k) = DataBelow(i, z, k) \o Input(k, i, z)
    BY <1>1, <2>2, DataSteps
  <2> QED
    BY <2>1, <2>3
<1>4. IsAll(F, k)
  <2>1. ASSUME NEW i \in 0 .. g
        PROVE  D(i) = IF i = 0 THEN <<>> ELSE F[i - 1] \o own(i - 1)
    <3>1. CASE i = 0
      BY <1>2, <3>1
    <3>2. CASE i # 0
      <4> DEFINE l == i - 1
      <4>1. l \in 0 .. g - 1 /\ l \in 0 .. g /\ l + 1 = i
        BY <1>1, <3>2
      <4>2. F[l] = D(l)
        BY <4>1
      <4> HIDE DEF l, D, own
      <4>3. D(i) = F[l] \o own(l)
        BY <1>3, <4>1, <4>2
      <4> QED
        BY <3>2, <4>3 DEF l
    <3> QED
      BY <3>1, <3>2
  <2> HIDE DEF D
  <2> QED
    BY <2>1 DEF IsAll
<1>5. ASSUME NEW h, IsAll(h, k) PROVE h[g] = D(g)
  <2> DEFINE T == {i \in Nat : h[i] = D(i)}
  <2>1. \A i \in 0 .. g : h[i] = IF i = 0 THEN <<>> ELSE h[i - 1] \o own(i - 1)
    BY <1>5, Zenon DEF IsAll
  <2>2. 0 \in T
    <3>1. 0 \in 0 .. g
      BY <1>1
    <3> QED
      BY <1>2, <2>1, <3>1
  <2>3. ASSUME NEW i \in 0 .. g - 1, i \in T PROVE i + 1 \in T
    <3>1. i + 1 \in 0 .. g /\ i + 1 # 0 /\ (i + 1) - 1 = i /\ i + 1 \in Nat
      BY <1>1
    <3> HIDE DEF D, own
    <3>2. h[i + 1] = h[i] \o own(i)
      BY <2>1, <3>1
    <3> QED
      BY <1>3, <2>3, <3>1, <3>2
  <2>4. g \in 0 .. g
    BY <1>1
  <2> HIDE DEF T
  <2>5. g \in T
    BY <1>1, <2>2, <2>3, <2>4, NaturalsUpTo
  <2> QED
    BY <2>5 DEF T
<1> QED
  BY <1>4, <1>5

\* A buffer with the data of all is what a gather is to give.
LEMMA AllData ==
    ASSUME NEW k \in Nat, NEW g \in Nat, g = GroupSize(k), NEW z \in Nat,
           NEW e \in Seq(Int), Len(e) = z * g, HasAll(e, z, k)
    PROVE  e = DataBelow(g, z, k)
<1> DEFINE v(x) == Datum(k, (x - 1) \div z, ((x - 1) % z) + 1)
           gz == g * z
<1>1. gz \in Nat /\ Len(e) = gz
  OBVIOUS
<1>2. ASSUME NEW x \in 1 .. gz PROVE e[x] = v(x)
  <2>1. PICK i \in 0 .. g - 1, j \in 1 .. z : x = i * z + j
    BY <1>2, PlaceExists
  <2>2. \A y \in Nat : y = i * z + j => (y - 1) \div z = i /\ (y - 1) % z = j - 1
    BY PlaceFacts
  <2>3. x \in Nat /\ (j - 1) + 1 = j
    BY <1>1
  <2>4. v(x) = Datum(k, i, j)
    BY <2>1, <2>2, <2>3
  <2>5. e[i * z + j] = Datum(k, i, j)
    BY DEF HasAll
  <2> QED
    BY <2>1, <2>4, <2>5
<1>3. DataBelow(g, z, k) = [x \in 1 .. gz |-> v(x)]
  BY DEF DataBelow
<1> HIDE DEF gz, v
<1>4. e = [x \in 1 .. gz |-> e[x]]
  BY <1>1
<1> QED
  BY <1>2, <1>3, <1>4

\* One more process's data added to a sum.
LEMMA SumsSteps ==
    ASSUME NEW k \in DOMAIN script, script \in Scripts, NEW i \in 0 .. GroupSize(k) - 1, NEW z \in Nat
    PROVE  /\ SumsOf(0, z, k) = [j \in 1 .. z |-> 0]
           /\ SumsOf(i + 1, z, k) = [j \in 1 .. z |-> SumsOf(i, z, k)[j] + Input(k, i, z)[j]]
<1> DEFINE g == GroupSize(k)
<1>1. g \in Nat /\ k \in Nat
  BY OpFacts DEF OpOK
<1>2. SumsOf(0, z, k) = [j \in 1 .. z |-> 0]
  <2>1. 0 .. 0 - 1 = {}
    OBVIOUS
  <2>2. ASSUME NEW j \in 1 .. z PROVE SumOver({}, g, k, j) = 0
    BY <1>1, SumEmpty
  <2> QED
    BY <2>1, <2>2 DEF SumsOf
<1>3. ASSUME NEW j \in 1 .. z
      PROVE  SumOver(0 .. (i + 1) - 1, g, k, j) = SumOver(0 .. i - 1, g, k, j) + Input(k, i, z)[j]
  <2> DEFINE S == 0 .. i - 1
  <2>1. 0 .. (i + 1) - 1 = S \cup {i} /\ S \cap {i} = {}
    BY <1>1
  <2>2. Input(k, i, z)[j] = Datum(k, i, j)
    BY DEF Input, Datum
  <2>3. SumOver({i}, g, k, j) = Datum(k, i, j)
    BY <1>1, SumOne
  <2> HIDE DEF S, g
  <2>4. SumOver(S \cup {i}, g, k, j) = SumOver(S, g, k, j) + SumOver({i}, g, k, j)
    BY <1>1, <2>1, SumUnion
  <2> QED
    BY <2>1, <2>2, <2>3, <2>4 DEF S
<1>4. SumsOf(i, z, k) = [j \in 1 .. z |-> SumOver(0 .. i - 1, g, k, j)]
  BY DEF SumsOf
<1>5. SumsOf(i + 1, z, k) = [j \in 1 .. z |-> SumOver(0 .. (i + 1) - 1, g, k, j)]
  BY DEF SumsOf
<1> HIDE DEF g
<1> QED
  BY <1>2, <1>3, <1>4, <1>5

LEMMA TotalsAre ==
    ASSUME script \in Scripts, NEW k \in DOMAIN script, NEW z \in Nat,
           \A q \in Group(k) : SizeOf(q, k) = z
    PROVE  /\ \E h : IsTotal(h, z, k)
           /\ \A h : IsTotal(h, z, k) => h[GroupSize(k)] = SumsOf(GroupSize(k), z, k)
<1> DEFINE g == GroupSize(k)
           D(i) == SumsOf(i, z, k)
           F == [i \in 0 .. g |-> D(i)]
           own(i) == Promised!Own(script[k].ranks[i + 1], k)
           zero == [j \in 1 .. z |-> 0]
           With(a, b) == [j \in 1 .. z |-> a[j] + b[j]]
<1>1. g \in Nat \ {0} /\ k \in Nat
  BY OpFacts DEF OpOK
<1>2. D(0) = zero
  <2>1. 0 \in 0 .. g - 1
    BY <1>1
  <2> QED
    BY <2>1, SumsSteps
<1>3. ASSUME NEW i \in 0 .. g - 1 PROVE D(i + 1) = With(D(i), own(i))
  <2>1. own(i) = Input(k, i, z)
    BY OwnIs
  <2> HIDE DEF own
  <2>2. SumsOf(i + 1, z, k) = With(SumsOf(i, z, k), Input(k, i, z))
    BY SumsSteps
  <2> QED
    BY <2>1, <2>2
<1>4. \A h : IsTotal(h, z, k) <=>
         h = [i \in 0 .. g |-> IF i = 0 THEN zero ELSE With(h[i - 1], own(i - 1))]
  BY Zenon DEF IsTotal
<1> HIDE DEF With, zero
<1>5. IsTotal(F, z, k)
  <2>1. ASSUME NEW i \in 0 .. g
        PROVE  D(i) = IF i = 0 THEN zero ELSE With(F[i - 1], own(i - 1))
    <3>1. CASE i = 0
      BY <1>2, <3>1
    <3>2. CASE i # 0
      <4> DEFINE l == i - 1
      <4>1. l \in 0 .. g - 1 /\ l \in 0 .. g /\ l + 1 = i
        BY <1>1, <3>2
      <4>2. F[l] = D(l)
        BY <4>1
      <4> HIDE DEF l, D, own
      <4>3. D(i) = With(F[l], own(l))
        BY <1>3, <4>1, <4>2
      <4> QED
        BY <3>2, <4>3 DEF l
    <3> QED
      BY <3>1, <3>2
  <2> HIDE DEF D
  <2>2. F = [i \in 0 .. g |-> IF i = 0 THEN zero ELSE With(F[i - 1], own(i - 1))]
    BY <2>1
  <2> HIDE DEF F
  <2> QED
    BY <1>4, <2>2
<1>6. ASSUME NEW h, IsTotal(h, z, k) PROVE h[g] = D(g)
  <2> DEFINE T == {i \in Nat : h[i] = D(i)}
  <2>1. \A i \in 0 .. g : h[i] = IF i = 0 THEN zero ELSE With(h[i - 1], own(i - 1))
    <3>1. h = [i \in 0 .. g |-> IF i = 0 THEN zero ELSE With(h[i - 1], own(i - 1))]
      BY <1>4, <1>6
    <3> QED
      BY <3>1, Zenon
  <2>2. 0 \in T
    <3>1. 0 \in 0 .. g
      BY <1>1
    <3> QED
      BY <1>2, <2>1, <3>1
  <2>3. ASSUME NEW i \in 0 .. g - 1, i \in T PROVE i + 1 \in T
    <3>1. i + 1 \in 0 .. g /\ i + 1 # 0 /\ (i + 1) - 1 = i /\ i + 1 \in Nat
      BY <1>1
    <3> HIDE DEF D, own
    <3>2. h[i + 1] = With(h[i], own(i))
      BY <2>1, <3>1
    <3> QED
      BY <1>3, <2>3, <3>1, <3>2
  <2>4. g \in 0 .. g /\ g \in Nat
    BY <1>1
  <2> HIDE DEF T
  <2>5. g \in T
    BY <2>2, <2>3, <2>4, NaturalsUpTo
  <2> QED
    BY <2>5 DEF T
<1> QED
  BY <1>5, <1>6

-----------------------------------------------------------------------------
(* A process ends with what the operation is to give it.                   *)

LEMMA RootIs ==
    ASSUME script \in Scripts, NEW k \in DOMAIN script
    PROVE  /\ RootOf(k) \in Group(k) /\ IndexOf(RootOf(k), k) = script[k].root
           /\ SizeOf(RootOf(k), k) = RootSize(k)
           /\ \A p \in Group(k) :
                 /\ PosOf(p, k) = 0 <=> p = RootOf(k)
                 /\ setGroupAndRootIndex(p, k).parent = NoRank <=> p = RootOf(k)
<1> DEFINE r == script[k].root
<1>1. r \in 0 .. GroupSize(k) - 1 /\ r \in Nat
  BY OpFacts DEF OpOK
<1>2. RankAt(k, r) = RootOf(k)
  BY <1>1 DEF RankAt, RootOf, NoIndex
<1> HIDE DEF r
<1>3. RootOf(k) \in Group(k) /\ IndexOf(RootOf(k), k) = r
  BY <1>1, <1>2, RankFacts
<1>4. SizeOf(RootOf(k), k) = RootSize(k)
  BY <1>3 DEF SizeOf, RootSize, r
<1>5. ASSUME NEW p \in Group(k)
      PROVE  /\ PosOf(p, k) = 0 <=> p = RootOf(k)
             /\ setGroupAndRootIndex(p, k).parent = NoRank <=> p = RootOf(k)
  <2>1. PosOf(p, k) = 0 <=> IndexOf(p, k) = r
    BY PosFacts DEF r
  <2>2. RankAt(k, IndexOf(p, k)) = p
    BY IndexFacts
  <2>3. IndexOf(p, k) = r <=> p = RootOf(k)
    BY <1>2, <1>3, <2>2
  <2>4. setGroupAndRootIndex(p, k).parent = NoRank <=> PosOf(p, k) = 0
    BY TreeFacts
  <2> QED
    BY <2>1, <2>3, <2>4
<1> QED
  BY <1>3, <1>4, <1>5 DEF r

LEMMA OutcomeIs ==
    ASSUME script \in Scripts, SameSizes, NEW p, NEW s \in ProcType, SetFor(p, s, s.op),
           s.size = SizeOf(p, s.op), Len(s.ext) = ExtRoom(s), FinalData(p, s), NEW k, k = s.op
    PROVE  s.ext = Promised!Outcome(p, k)
<1> DEFINE z == s.size
           g == GroupSize(k)
<1>1. /\ k \in DOMAIN script /\ p \in Group(k) /\ s.tree = setGroupAndRootIndex(p, k)
      /\ s.base = script[k].kind /\ s.base \in Kinds
      /\ s.ext \in Seq(Int) /\ z \in Nat /\ g \in Nat /\ k \in Nat
  BY OpFacts DEF SetFor, OpOK, ProcType
<1>2. IsRoot(s) <=> p = RootOf(k)
  BY <1>1, RootIs DEF IsRoot
<1>3. CASE s.base = "bcast"
  <2> DEFINE n == RootSize(k)
             own == Promised!Own(RootOf(k), k)
  <2>1. Len(s.ext) = z /\ n <= z /\ \A j \in 1 .. z : s.ext[j] = Told(k, j)
    BY <1>3 DEF ExtRoom, FinalData, HasTold
  <2>2. own = Input(k, script[k].root, n)
    <3>1. IndexOf(RootOf(k), k) = script[k].root /\ SizeOf(RootOf(k), k) = n
      BY <1>1, RootIs
    <3>2. own = Input(k, IndexOf(RootOf(k), k), SizeOf(RootOf(k), k))
      BY SameMeaning, Zenon
    <3> QED
      BY <3>1, <3>2
  <2>3. ASSUME NEW j \in 1 .. z
        PROVE  Told(k, j) = IF j <= n THEN own[j] ELSE 0
    <3>1. j <= n => own[j] = Datum(k, script[k].root, j)
      <4>1. own = [x \in 1 .. n |-> Datum(k, script[k].root, x)]
        BY <2>2 DEF Input, Datum
      <4>2. n \in Nat
        BY <1>1, RootIs, IndexFacts
      <4> HIDE DEF n, own
      <4> QED
        BY <1>1, <4>1, <4>2
    <3> HIDE DEF own
    <3> QED
      BY <3>1 DEF Told
  <2>4. SizeOf(p, k) = z /\ SizeOf(RootOf(k), k) = n
    BY <1>1, RootIs
  <2>5. Promised!Outcome(p, k) =
          [j \in 1 .. z |-> IF j <= n THEN own[j] ELSE 0]
    <3>1. script[k].kind = "bcast"
      BY <1>1, <1>3
    <3> DEFINE zz == Promised!SizeOf(p, k)
               r == Promised!RootOf(k)
               nn == Promised!SizeOf(r, k)
               oo == Promised!Own(r, k)
    <3>2. Promised!Outcome(p, k) = [j \in 1 .. zz |-> IF j <= nn THEN oo[j] ELSE 0]
      BY <3>1, Zenon DEF Promised!Outcome
    <3>3. r = RootOf(k) /\ zz = SizeOf(p, k)
      BY SameMeaning, Zenon
    <3>4. nn = SizeOf(RootOf(k), k) /\ oo = own
      <4>1. Promised!SizeOf(RootOf(k), k) = SizeOf(RootOf(k), k)
        BY SameMeaning, Zenon
      <4> QED
        BY <3>3, <4>1
    <3> HIDE DEF own, n, z, zz, nn, oo, r
    <3> QED
      BY <2>4, <3>2, <3>3, <3>4
  <2> HIDE DEF own, n, z
  <2>6. s.ext = [j \in 1 .. z |-> s.ext[j]]
    BY <1>1, <2>1, AsFunction
  <2> QED
    BY <2>1, <2>3, <2>4, <2>5, <2>6
<1>4. CASE s.base # "bcast" /\ p # RootOf(k)
  <2>1. Len(s.ext) = z /\ \A j \in 1 .. z : s.ext[0 + j] = Datum(k, IndexOf(p, k), j)
    BY <1>2, <1>4 DEF ExtRoom, FinalData, HasOwn
  <2>2. Promised!Outcome(p, k) = Input(k, IndexOf(p, k), SizeOf(p, k))
    <3>1. script[k].kind # "bcast" /\ p # RootOf(k)
      BY <1>1, <1>4
    <3>2. Promised!Outcome(p, k) = Promised!Own(p, k)
      BY <3>1, BelowOutcome
    <3>3. Promised!Own(p, k) = Input(k, IndexOf(p, k), SizeOf(p, k))
      BY SameMeaning, Zenon
    <3> QED
      BY <3>2, <3>3
  <2>3. Input(k, IndexOf(p, k), SizeOf(p, k)) = [j \in 1 .. z |-> Datum(k, IndexOf(p, k), j)]
    BY DEF Input, Datum
  <2>4. \A j \in 1 .. z : 0 + j = j
    BY <1>1
  <2>5. s.ext = [j \in 1 .. z |-> s.ext[j]]
    BY <1>1, <2>1
  <2>6. \A j \in 1 .. z : s.ext[j] = Datum(k, IndexOf(p, k), j)
    BY <2>1, <2>4
  <2> HIDE DEF z
  <2> QED
    BY <2>2, <2>3, <2>5, <2>6
<1>5. CASE s.base # "bcast" /\ p = RootOf(k)
  <2>1. \A q \in Group(k) : SizeOf(q, k) = z
    BY <1>1, <1>5 DEF SameSizes
  <2>2. CASE s.base = "gather"
    <3>1. Len(s.ext) = z * g /\ HasAll(s.ext, z, k)
      BY <1>2, <1>5, <2>2 DEF ExtRoom, FinalData
    <3>2. s.ext = DataBelow(g, z, k)
      BY <1>1, <3>1, AllData
    <3>3. PICK h : IsAll(h, k) /\ Promised!Outcome(p, k) = h[g]
      <4>1. \E h : IsAll(h, k)
        BY <1>1, <2>1, AllIs
      <4> QED
        <5>1. script[k].kind = "gather" /\ p = RootOf(k)
          BY <1>1, <1>5, <2>2
        <5> QED
          BY <4>1, <5>1, GatherOutcome
    <3>4. h[g] = DataBelow(g, z, k)
      BY <1>1, <2>1, <3>3, AllIs
    <3> QED
      BY <3>2, <3>3, <3>4
  <2>3. CASE s.base = "sum"
    <3>1. Len(s.ext) = z /\ \A j \in 1 .. z : s.ext[0 + j] = SumOver(BranchOf(p, k), g, k, j)
      BY <1>2, <1>5, <2>3 DEF ExtRoom, FinalData, HasSum
    <3>2. BranchOf(p, k) = 0 .. g - 1
      BY <1>1, <1>2, <1>5, RootFacts
    <3>3. s.ext = SumsOf(g, z, k)
      <4>1. \A j \in 1 .. z : 0 + j = j
        BY <1>1
      <4>2. s.ext = [j \in 1 .. z |-> s.ext[j]]
        BY <1>1, <3>1
      <4> HIDE DEF z, g
      <4> QED
        BY <3>1, <3>2, <4>1, <4>2 DEF SumsOf, g
    <3>4. PICK h : IsTotal(h, z, k) /\ Promised!Outcome(p, k) = h[g]
      <4>1. (\E h : IsTotal(h, z, k)) /\ SizeOf(p, k) = z
        BY <1>1, <2>1, TotalsAre
      <4>2. script[k].kind = "sum" /\ p = RootOf(k)
        BY <1>1, <1>5, <2>3
      <4>3. \E h : IsTotal(h, SizeOf(p, k), k) /\ Promised!Outcome(p, k) = h[g]
        <5>1. \E h : IsTotal(h, SizeOf(p, k), k)
          BY <4>1
        <5> QED
          BY <4>2, <5>1, SumOutcome
      <4> QED
        BY <4>1, <4>3
    <3>5. h[g] = SumsOf(g, z, k)
      BY <1>1, <2>1, <3>4, TotalsAre
    <3> QED
      BY <3>3, <3>4, <3>5
  <2> QED
    BY <1>1, <1>5, <2>2, <2>3 DEF Kinds
<1> QED
  BY <1>3, <1>4, <1>5

-----------------------------------------------------------------------------
(* Those whose data a process needs have begun when it ends.               *)

\* Process q has all it receives in operation k.
Complete(q, k) == k < proc[q].op \/ (k = proc[q].op /\ ~IsReceiving(proc[q]))

LEMMA CompleteBefore ==
    ASSUME GroupInv, NEW k, NEW p, NEW q, Link(q, p, k), Complete(p, k)
    PROVE  Complete(q, k)
<1>1. script \in Scripts
  BY DEF GroupInv, TypeOK
<1>2. p \in Ranks /\ q \in Ranks
  BY <1>1, LinkEnds
<1>3. Got(proc[p], q, k)
  BY DEF Complete, Got
<1>4. Sent(proc[q], p, k)
  BY <1>2, <1>3 DEF GroupInv, ChannelOK
<1> QED
  BY <1>4 DEF Complete, Sent

\* The process above q in operation k.
LEMMA OneUp ==
    ASSUME script \in Scripts, NEW k \in DOMAIN script, NEW q \in Group(k), q # RootOf(k)
    PROVE  \E p \in Group(k) : /\ PosOf(p, k) < PosOf(q, k)
                               /\ script[k].kind = "bcast" => Link(p, q, k)
                               /\ script[k].kind # "bcast" => Link(q, p, k)
<1> DEFINE n == script[k].nchild
           pos == PosOf(q, k)
           p == RankOfPos(k, toParent(n, pos))
<1>1. n \in Nat \ {0} /\ pos \in Nat \ {0} /\ pos < GroupSize(k) /\ GroupSize(k) \in Nat
  BY OpFacts, PosFacts, RootIs DEF OpOK
<1>2. toParent(n, pos) \in 0 .. pos - 1
  <2> HIDE DEF n, pos
  <2> QED
    BY <1>1, ParentPosition
<1>3. setGroupAndRootIndex(q, k).parent = p
  BY <1>1, ParentByPosition
<1>4. p \in Group(k) /\ PosOf(p, k) = toParent(n, pos)
  <2> DEFINE at == toParent(n, pos)
  <2>1. at \in 0 .. GroupSize(k) - 1
    <3> HIDE DEF at, pos
    <3> QED
      BY <1>1, <1>2 DEF at
  <2> HIDE DEF at
  <2>2. RankOfPos(k, at) \in Group(k) /\ PosOf(RankOfPos(k, at), k) = at
    BY <2>1, RankOfPosFacts
  <2> QED
    BY <2>2 DEF at
<1>5. PosOf(p, k) < pos
  <2> HIDE DEF p, n, pos
  <2> QED
    BY <1>1, <1>2, <1>4
<1> HIDE DEF p
<1>6. /\ script[k].kind = "bcast" => Link(p, q, k)
      /\ script[k].kind # "bcast" => Link(q, p, k)
  BY <1>3, <1>4 DEF Link
<1> QED
  BY <1>4, <1>5, <1>6

LEMMA RootComplete ==
    ASSUME GroupInv, NEW k \in DOMAIN script, script[k].kind = "bcast", NEW p \in Group(k),
           Complete(p, k)
    PROVE  Complete(RootOf(k), k)
<1> DEFINE T == {n \in Nat : \A q \in Group(k) :
                     PosOf(q, k) <= n /\ Complete(q, k) => Complete(RootOf(k), k)}
<1>1. script \in Scripts
  BY DEF GroupInv, TypeOK
<1>2. 0 \in T
  <2>1. \A q \in Group(k) : PosOf(q, k) <= 0 => q = RootOf(k)
    BY <1>1, PosFacts, RootIs
  <2> QED
    BY <2>1
<1>3. ASSUME NEW n \in T PROVE n + 1 \in T
  <2> SUFFICES ASSUME NEW q \in Group(k), PosOf(q, k) <= n + 1, Complete(q, k), q # RootOf(k)
               PROVE  Complete(RootOf(k), k)
    OBVIOUS
  <2>1. PICK r \in Group(k) : PosOf(r, k) < PosOf(q, k) /\ Link(r, q, k)
    BY <1>1, OneUp
  <2>2. Complete(r, k)
    BY <2>1, CompleteBefore
  <2>3. PosOf(r, k) <= n
    BY <1>1, <2>1, PosFacts
  <2> QED
    BY <2>2, <2>3
<1>4. T = Nat
  <2> HIDE DEF T
  <2>1. T \in SUBSET Nat
    BY DEF T
  <2> QED
    BY <1>2, <1>3, <2>1, AllNaturals
<1>5. PosOf(p, k) \in T /\ PosOf(p, k) <= PosOf(p, k)
  BY <1>1, <1>4, PosFacts
<1> QED
  BY <1>5

LEMMA AllComplete ==
    ASSUME GroupInv, NEW k \in DOMAIN script, script[k].kind # "bcast", Complete(RootOf(k), k),
           NEW p \in Group(k)
    PROVE  Complete(p, k)
<1> DEFINE T == {n \in Nat : \A q \in Group(k) : PosOf(q, k) <= n => Complete(q, k)}
<1>1. script \in Scripts
  BY DEF GroupInv, TypeOK
<1>2. 0 \in T
  <2>1. \A q \in Group(k) : PosOf(q, k) <= 0 => q = RootOf(k)
    BY <1>1, PosFacts, RootIs
  <2> QED
    BY <2>1
<1>3. ASSUME NEW n \in T PROVE n + 1 \in T
  <2> SUFFICES ASSUME NEW q \in Group(k), PosOf(q, k) <= n + 1, q # RootOf(k)
               PROVE  Complete(q, k)
    OBVIOUS
  <2>1. PICK r \in Group(k) : PosOf(r, k) < PosOf(q, k) /\ Link(q, r, k)
    BY <1>1, OneUp
  <2>2. PosOf(r, k) <= n
    BY <1>1, <2>1, PosFacts
  <2>3. Complete(r, k)
    BY <2>2
  <2> QED
    BY <2>1, <2>3, CompleteBefore
<1>4. T = Nat
  <2> HIDE DEF T
  <2>1. T \in SUBSET Nat
    BY DEF T
  <2> QED
    BY <1>2, <1>3, <2>1, AllNaturals
<1>5. PosOf(p, k) \in T /\ PosOf(p, k) <= PosOf(p, k)
  BY <1>1, <1>4, PosFacts
<1> QED
  BY <1>5

LEMMA NeededBegun ==
    ASSUME GroupInv, NEW p \in Ranks, NEW k, k = proc[p].op, k \in DOMAIN script, p \in Group(k),
           ~IsReceiving(proc[p]), NEW q \in Promised!Needed(p, k)
    PROVE  q \in Ranks /\ proc[q].op >= k
<1>1. script \in Scripts /\ proc \in [Ranks -> ProcType]
  BY DEF GroupInv, TypeOK
<1>2. Complete(p, k) /\ k \in Nat
  BY <1>1, OpFacts DEF Complete, OpOK
<1>3. Complete(q, k) /\ q \in Group(k)
  <2>1. /\ Promised!Group(k) = Group(k) /\ Promised!RootOf(k) = RootOf(k)
    BY SameMeaning
  <2>2. CASE script[k].kind = "bcast"
    <3>1. q = RootOf(k)
      BY <2>1, <2>2 DEF Promised!Needed
    <3> QED
      BY <1>1, <1>2, <2>2, <3>1, RootComplete, RootIs
  <2>3. CASE script[k].kind # "bcast" /\ p = RootOf(k)
    <3>1. q \in Group(k)
      BY <2>1, <2>3 DEF Promised!Needed
    <3> QED
      BY <1>2, <2>3, <3>1, AllComplete
  <2>4. CASE script[k].kind # "bcast" /\ p # RootOf(k)
    <3>1. q = p
      BY <2>1, <2>4 DEF Promised!Needed
    <3> QED
      BY <1>2, <3>1
  <2> QED
    BY <2>2, <2>3, <2>4
<1>4. q \in Ranks
  BY <1>1, <1>3, IndexFacts
<1>5. proc[q].op \in Nat
  BY <1>1, <1>4 DEF ProcType
<1> QED
  BY <1>2, <1>3, <1>4, <1>5 DEF Complete

-----------------------------------------------------------------------------
(* How many operations a process has begun, and how many it has ended.     *)

Tally(p, m) == Cardinality({k \in 1 .. m : p \in Group(k)})

Counted ==
    \A p \in Ranks : Len(results[p]) + (IF isDone(p) THEN 0 ELSE 1) = Tally(p, proc[p].op)

LEMMA TallyFacts ==
    ASSUME NEW p, NEW m \in Nat
    PROVE  /\ Tally(p, m) \in Nat /\ Tally(p, 0) = 0
           /\ \A l \in Nat : IsNext(p, m, l) => Tally(p, l) = Tally(p, m) + 1
<1> DEFINE S(n) == {k \in 1 .. n : p \in Group(k)}
<1>1. ASSUME NEW n \in Nat PROVE IsFiniteSet(S(n)) /\ Cardinality(S(n)) \in Nat
  <2>1. IsFiniteSet(1 .. n)
    BY FS_Interval
  <2>2. S(n) \subseteq 1 .. n
    OBVIOUS
  <2> HIDE DEF S
  <2> QED
    BY <2>1, <2>2, FS_Subset, FS_CardinalityType
<1>2. S(0) = {}
  OBVIOUS
<1>3. Cardinality({}) = 0
  BY FS_EmptySet
<1>4. ASSUME NEW l \in Nat, IsNext(p, m, l) PROVE Cardinality(S(l)) = Cardinality(S(m)) + 1
  <2>1. l > m /\ p \in Group(l) /\ \A j \in m + 1 .. l - 1 : p \notin Group(j)
    BY <1>4 DEF IsNext
  <2>2. \A j \in 1 .. l : j \in 1 .. m \/ j \in m + 1 .. l - 1 \/ j = l
    OBVIOUS
  <2>3. \A j \in 1 .. m : j \in 1 .. l /\ j # l
    BY <2>1
  <2>4. l \in 1 .. l
    BY <2>1
  <2>5. S(l) = S(m) \cup {l} /\ l \notin S(m)
    BY <2>1, <2>2, <2>3, <2>4
  <2> HIDE DEF S
  <2> QED
    BY <1>1, <2>5, FS_AddElement
<1> QED
  BY <1>1, <1>2, <1>3, <1>4 DEF Tally

-----------------------------------------------------------------------------
(* Each step begins an operation, ends one, or is seen by nobody outside.  *)

PromisedStep == [Promised!Next]_<<script, [p \in Ranks |-> proc[p].op], results>>

Unseen ==
    /\ script' = script /\ results' = results
    /\ \A p \in Ranks : proc'[p].op = proc[p].op /\ (isDone(p)' <=> isDone(p))

\* A process ends its operation.
Ends(p) ==
    /\ send_check(p) /\ proc[p].at = "send_check" /\ script' = script
    /\ \A q \in Ranks : proc'[q].op = proc[q].op /\ (q # p => (isDone(q)' <=> isDone(q)))
    /\ isDone(p)'
    /\ results' = [results EXCEPT ![p] = Append(@, proc[p].ext)]

LEMMA OneChanges ==
    ASSUME proc \in [Ranks -> ProcType], script' = script, results' = results,
           NEW p \in Ranks, NEW v, proc' = [proc EXCEPT ![p] = v],
           v.op = proc[p].op, v.next = "none" <=> proc[p].next = "none"
    PROVE  Unseen
  BY DEF Unseen, isDone

LEMMA Seen ==
    ASSUME GroupInv, [Next]_vars
    PROVE  Unseen \/ \E p \in Ranks : Begin(p) \/ Ends(p)
<1>1. proc \in [Ranks -> ProcType] /\ script \in Scripts
  BY DEF GroupInv, TypeOK
<1>2. CASE UNCHANGED vars
  BY <1>2 DEF vars, Unseen, isDone
<1>3. ASSUME NEW p \in Ranks, NEW S, Proceed(p, S) PROVE Unseen
  <2> DEFINE v == [proc[p] EXCEPT !.req = [c \in AllSlots |-> IF c \in S THEN "null" ELSE @[c]],
                                  !.at = proc[p].next]
  <2>1. proc' = [proc EXCEPT ![p] = v] /\ script' = script /\ results' = results
    BY <1>1, <1>3 DEF Proceed
  <2>2. v.op = proc[p].op /\ v.next = proc[p].next
    BY <1>1 DEF ProcType
  <2> HIDE DEF v
  <2> QED
    BY <1>1, <2>1, <2>2, OneChanges
<1>4. ASSUME NEW p \in Ranks, recv_check(p) PROVE Unseen
  <2> DEFINE s == proc[p]
             req == Tested(s)
             v == IF Over(req) THEN [Received(s) EXCEPT !.req = req, !.at = "send_start",
                                                        !.left = Targets(s)]
                  ELSE [s EXCEPT !.req = req, !.at = "out", !.next = "recv_check"]
  <2>1. proc' = [proc EXCEPT ![p] = v] /\ script' = script /\ results' = results
        /\ s.at = "recv_check"
    BY <1>4 DEF recv_check
  <2>2. s \in ProcType /\ s.next # "none"
    BY <1>1, <2>1 DEF GroupInv, ObjectOK, Control
  <2>3. Received(s).op = s.op /\ Received(s).next = s.next /\ Received(s) \in ProcType
    <3>1. ObjectOK(p, s)
      BY DEF GroupInv
    <3> HIDE DEF s
    <3>2. SetFor(p, s, s.op) /\ Len(s.ext) = ExtRoom(s) /\ Len(s.buf) = BufRoom(s)
      BY <2>2, <3>1, Started
    <3> QED
      BY <1>1, <2>2, <3>2, ReceivedFacts DEF SameSetting
  <2>4. v.op = s.op /\ v.next # "none"
    BY <2>2, <2>3 DEF ProcType
  <2> HIDE DEF v
  <2> QED
    BY <1>1, <2>1, <2>2, <2>4, OneChanges
<1>5. ASSUME NEW p \in Ranks, send_start(p) PROVE Unseen
  <2> DEFINE s == proc[p]
             c == Min(s.left)
  <2>1. script' = script /\ results' = results /\ s \in ProcType
    BY <1>1, <1>5 DEF send_start
  <2> DEFINE v1 == IF script[s.op].blocking THEN [s EXCEPT !.send = "active"]
                   ELSE [s EXCEPT !.req[c] = "active", !.left = s.left \ {c}]
             v2 == [s EXCEPT !.send = "null", !.left = s.left \ {c}]
             v3 == [s EXCEPT !.at = "send_check"]
  <2>2. \/ proc' = [proc EXCEPT ![p] = v1]
        \/ proc' = [proc EXCEPT ![p] = v2]
        \/ proc' = [proc EXCEPT ![p] = v3]
    <3> HIDE DEF c
    <3>1. [proc EXCEPT ![p].send = "null", ![p].left = @ \ {c}] = [proc EXCEPT ![p] = v2]
      BY <1>1
    <3>2. [proc EXCEPT ![p].at = "send_check"] = [proc EXCEPT ![p] = v3]
      BY <1>1
    <3> HIDE DEF v2, v3
    <3> QED
      BY <1>5, <3>1, <3>2 DEF send_start, c
  <2>3. /\ v1.op = s.op /\ v1.next = s.next /\ v2.op = s.op /\ v2.next = s.next
        /\ v3.op = s.op /\ v3.next = s.next
    BY <2>1 DEF ProcType
  <2> HIDE DEF v1, v2, v3
  <2> QED
    BY <1>1, <2>1, <2>2, <2>3, OneChanges
<1>6. ASSUME NEW p \in Ranks, send_check(p) PROVE Unseen \/ Ends(p)
  <2> DEFINE s == proc[p]
             req == Tested(s)
  <2>1. s.at = "send_check" /\ script' = script
    BY <1>6 DEF send_check
  <2>2. s \in ProcType /\ s.next # "none"
    BY <1>1, <2>1 DEF GroupInv, ObjectOK, Control
  <2> DEFINE v == [s EXCEPT !.req = req, !.at = "out", !.next = "send_check"]
             w == [s EXCEPT !.req = req, !.at = "out", !.next = "none"]
  <2>3. v.op = s.op /\ v.next = "send_check" /\ w.op = s.op /\ w.next = "none"
    BY <2>2 DEF ProcType
  <2>4. CASE ~Over(req)
    <3>1. proc' = [proc EXCEPT ![p] = v] /\ results' = results
      BY <1>6, <2>4 DEF send_check
    <3> HIDE DEF v
    <3> QED
      BY <1>1, <2>1, <2>2, <2>3, <3>1, OneChanges
  <2>5. CASE Over(req)
    <3>1. proc' = [proc EXCEPT ![p] = w] /\ results' = [results EXCEPT ![p] = Append(@, s.ext)]
      BY <1>6, <2>5 DEF send_check
    <3> HIDE DEF w
    <3> QED
      BY <1>1, <1>6, <2>1, <2>3, <3>1 DEF Ends, isDone
  <2> QED
    BY <2>4, <2>5
<1>7. ASSUME NEW p \in Ranks, NEW q \in Ranks, Transfer(q, p) PROVE Unseen
  <2> DEFINE s == proc[p]
             m == Head(chan[q][p])
             V(c) == IF s.base = "bcast"
                     THEN [s EXCEPT !.req[c] = "arrived", !.ext = Overwritten(s.ext, 0, m)]
                     ELSE [s EXCEPT !.req[c] = "arrived",
                                    !.buf = Overwritten(s.buf, Offset(s, c), m)]
  <2>1. PICK c \in AllSlots : proc' = [proc EXCEPT ![p] = V(c)]
    BY <1>7 DEF Transfer
  <2> DEFINE v == V(c)
  <2>2. script' = script /\ results' = results /\ s \in ProcType
    BY <1>1, <1>7 DEF Transfer
  <2>3. v.op = s.op /\ v.next = s.next
    BY <2>2 DEF ProcType
  <2>4. proc' = [proc EXCEPT ![p] = v]
    BY <2>1
  <2> HIDE DEF V, v
  <2> QED
    BY <1>1, <2>2, <2>3, <2>4, OneChanges
<1>8. ASSUME NEW p \in Ranks, NEW c \in AllSlots, SendCompletes(p, c) PROVE Unseen
  <2> DEFINE s == proc[p]
             v1 == [s EXCEPT !.req[c] = "arrived"]
             v2 == [s EXCEPT !.send = "arrived"]
  <2>1. script' = script /\ results' = results /\ s \in ProcType
    BY <1>1, <1>8 DEF SendCompletes
  <2>2. proc' = [proc EXCEPT ![p] = v1] \/ proc' = [proc EXCEPT ![p] = v2]
    BY <1>1, <1>8 DEF SendCompletes
  <2>3. v1.op = s.op /\ v1.next = s.next /\ v2.op = s.op /\ v2.next = s.next
    BY <2>1 DEF ProcType
  <2> HIDE DEF v1, v2
  <2> QED
    BY <1>1, <2>1, <2>2, <2>3, OneChanges
<1> QED
  BY <1>2, <1>3, <1>4, <1>5, <1>6, <1>7, <1>8
     DEF Next, MPIStep, ProcStep, Check, WaitallReturns, proceedToNextWait, AllOver

-----------------------------------------------------------------------------
(* The steps of the group operations are those Collective promises.        *)

CollectiveInv == GroupInv /\ SameSizes /\ Counted

LEMMA SameCount ==
    ASSUME NEW S
    PROVE  Promised!Cardinality(S) = Cardinality(S)
  BY DEF Promised!Cardinality, Cardinality, Promised!IsFiniteSet, IsFiniteSet

\* An operation is going on there exactly when it is here.
LEMMA OngoingIs ==
    ASSUME CollectiveInv, NEW p \in Ranks
    PROVE  Promised!Ongoing(p) <=> ~isDone(p)
<1>1. results \in [Ranks -> Seq(Seq(Int))]
  BY DEF CollectiveInv, GroupInv, TypeOK
<1>2. Len(results[p]) \in Nat
  BY <1>1
<1>3. Len(results[p]) + (IF isDone(p) THEN 0 ELSE 1) = Tally(p, proc[p].op)
  BY DEF CollectiveInv, Counted
<1>4. Promised!Ongoing(p) <=> Len(results[p]) < Tally(p, proc[p].op)
  <2> DEFINE S == {k \in 1 .. proc[p].op : p \in Group(k)}
             R == {k \in 1 .. [q \in Ranks |-> proc[q].op][p] : p \in Promised!Group(k)}
  <2>1. R = S
    <3>1. \A k : Promised!Group(k) = Group(k)
      BY SameMeaning
    <3> QED
      BY <3>1
  <2>2. Promised!Ongoing(p) <=> Len(results[p]) < Cardinality(R)
    BY SameCount DEF Promised!Ongoing
  <2>3. Tally(p, proc[p].op) = Cardinality(S)
    BY DEF Tally
  <2> HIDE DEF R, S
  <2> QED
    BY <2>1, <2>2, <2>3
<1>5. Tally(p, proc[p].op) \in Nat
  <2>1. proc[p].op \in Nat
    BY DEF CollectiveInv, GroupInv, TypeOK, ProcType
  <2> QED
    BY <2>1, TallyFacts
<1> DEFINE l == Len(results[p])
           t == Tally(p, proc[p].op)
<1>6. Promised!Ongoing(p) <=> l < t
  BY <1>4
<1>7. l \in Nat /\ t \in Nat /\ l + (IF isDone(p) THEN 0 ELSE 1) = t
  BY <1>2, <1>3, <1>5
<1> HIDE DEF l, t
<1> QED
  BY <1>6, <1>7 DEF isDone

\* A step that is not seen outside is a stutter there.
LEMMA UnseenStep ==
    ASSUME CollectiveInv, Unseen, GroupInv'
    PROVE  CollectiveInv' /\ PromisedStep
<1>1. SameSizes'
  BY SameContent DEF CollectiveInv, Unseen
<1>2. Counted'
  <2> SUFFICES ASSUME NEW p \in Ranks
               PROVE  Len(results'[p]) + (IF isDone(p)' THEN 0 ELSE 1) = Tally(p, proc[p].op)'
    BY DEF Counted
  <2>1. Tally(p, proc[p].op)' = Tally(p, proc[p].op)
    BY DEF Unseen, Tally, Group
  <2>2. Len(results[p]) + (IF isDone(p) THEN 0 ELSE 1) = Tally(p, proc[p].op)
    BY DEF CollectiveInv, Counted
  <2> QED
    BY <2>1, <2>2 DEF Unseen
<1>3. UNCHANGED <<script, [p \in Ranks |-> proc[p].op], results>>
  BY DEF Unseen
<1> QED
  BY <1>1, <1>2, <1>3 DEF CollectiveInv, PromisedStep

\* Begin() is the step Begin there.
LEMMA BeginStep ==
    ASSUME CollectiveInv, NEW p \in Ranks, Begin(p), GroupInv'
    PROVE  CollectiveInv' /\ PromisedStep
<1> DEFINE begun == [q \in Ranks |-> proc[q].op]
<1>1. /\ proc \in [Ranks -> ProcType] /\ script \in Scripts
      /\ script' = script /\ results' = results /\ isDone(p) /\ proc[p].op \in Nat
  BY DEF CollectiveInv, GroupInv, TypeOK, Begin, ProcType
<1>2. PICK k \in DOMAIN script : IsNext(p, proc[p].op, k) /\ proc' = [proc EXCEPT ![p] = Begun(p, k)]
  BY DEF Begin
<1>3. Begun(p, k).op = k /\ Begun(p, k).next = "recv_start" /\ k \in Nat
  BY <1>1, OpFacts DEF Begun, Idle, OpOK
<1>4. /\ proc'[p].op = k /\ ~isDone(p)'
      /\ \A q \in Ranks \ {p} : proc'[q].op = proc[q].op /\ (isDone(q)' <=> isDone(q))
  BY <1>1, <1>2, <1>3 DEF isDone
<1>5. SameSizes'
  BY <1>1, SameContent DEF CollectiveInv
<1>6. Counted'
  <2> SUFFICES ASSUME NEW q \in Ranks
               PROVE  Len(results'[q]) + (IF isDone(q)' THEN 0 ELSE 1) = Tally(q, proc[q].op)'
    BY DEF Counted
  <2>1. Tally(q, proc[q].op)' = Tally(q, proc'[q].op)
    BY <1>1 DEF Tally, Group
  <2>2. Len(results[q]) + (IF isDone(q) THEN 0 ELSE 1) = Tally(q, proc[q].op)
    BY DEF CollectiveInv, Counted
  <2>3. CASE q = p
    <3>1. Tally(p, k) = Tally(p, proc[p].op) + 1
      BY <1>1, <1>2, <1>3, TallyFacts
    <3>2. results \in [Ranks -> Seq(Seq(Int))]
      BY DEF CollectiveInv, GroupInv, TypeOK
    <3>3. Len(results[p]) \in Nat
      BY <3>2
    <3> QED
      BY <1>1, <1>4, <2>1, <2>2, <2>3, <3>1, <3>3
  <2>4. CASE q # p
    BY <1>1, <1>4, <2>1, <2>2, <2>4
  <2> QED
    BY <2>3, <2>4
<1>7. Promised!Begin(p)
  <2>1. ~Promised!Ongoing(p)
    BY <1>1, OngoingIs
  <2>2. Promised!IsNext(p, begun[p], k)
    BY <1>2, SameMeaning
  <2>3. begun' = [begun EXCEPT ![p] = k]
    BY <1>4
  <2> QED
    BY <1>1, <2>1, <2>2, <2>3 DEF Promised!Begin
<1> QED
  BY <1>5, <1>6, <1>7 DEF CollectiveInv, PromisedStep, Promised!Next

\* The check that finds all sends complete is the step End there.
LEMMA EndStep ==
    ASSUME CollectiveInv, NEW p \in Ranks, Ends(p), GroupInv'
    PROVE  CollectiveInv' /\ PromisedStep
<1> DEFINE begun == [q \in Ranks |-> proc[q].op]
           s == proc[p]
           k == s.op
<1>1. /\ proc \in [Ranks -> ProcType] /\ script \in Scripts /\ ObjectOK(p, s)
      /\ results \in [Ranks -> Seq(Seq(Int))] /\ s \in ProcType
      /\ script' = script /\ s.at = "send_check" /\ isDone(p)'
      /\ results' = [results EXCEPT ![p] = Append(@, s.ext)]
      /\ \A q \in Ranks : proc'[q].op = proc[q].op /\ (q # p => (isDone(q)' <=> isDone(q)))
  BY DEF CollectiveInv, GroupInv, TypeOK, Ends
<1>2. s.next # "none" /\ ~IsReceiving(s) /\ ~isDone(p)
  BY <1>1 DEF ObjectOK, Control, IsReceiving, isDone
<1>3. SetFor(p, s, k) /\ s.size = SizeOf(p, k) /\ Len(s.ext) = ExtRoom(s)
  BY <1>1, <1>2, Started
<1>4. FinalData(p, s)
  BY <1>1, <1>2 DEF CollectiveInv, ObjectOK, DataOK
<1>5. s.ext = Promised!Outcome(p, k)
  <2> HIDE DEF s
  <2>1. SameSizes
    BY DEF CollectiveInv
  <2> QED
    BY <1>1, <1>3, <1>4, <2>1, OutcomeIs
<1>6. SameSizes'
  BY <1>1, SameContent DEF CollectiveInv
<1>7. Counted'
  <2> SUFFICES ASSUME NEW q \in Ranks
               PROVE  Len(results'[q]) + (IF isDone(q)' THEN 0 ELSE 1) = Tally(q, proc[q].op)'
    BY DEF Counted
  <2>1. Tally(q, proc[q].op)' = Tally(q, proc[q].op)
    BY <1>1 DEF Tally, Group
  <2>2. Len(results[q]) + (IF isDone(q) THEN 0 ELSE 1) = Tally(q, proc[q].op)
    BY DEF CollectiveInv, Counted
  <2>3. CASE q = p
    <3>1. results[p] \in Seq(Seq(Int)) /\ s.ext \in Seq(Int)
      BY <1>1 DEF ProcType
    <3>2. Len(Append(results[p], s.ext)) = Len(results[p]) + 1
      BY <3>1
    <3>3. results'[p] = Append(results[p], s.ext)
      BY <1>1
    <3> QED
      BY <1>1, <1>2, <2>1, <2>2, <2>3, <3>2, <3>3
  <2>4. CASE q # p
    BY <1>1, <2>1, <2>2, <2>4
  <2> QED
    BY <2>3, <2>4
<1>8. Promised!End(p)
  <2>1. Promised!Ongoing(p)
    BY <1>2, OngoingIs
  <2>2. begun[p] = k /\ begun' = begun
    BY <1>1
  <2>3. ASSUME NEW q \in Promised!Needed(p, k) PROVE begun[q] >= k
    <3>1. k \in DOMAIN script /\ p \in Group(k) /\ GroupInv
      BY <1>3 DEF SetFor, CollectiveInv
    <3>2. q \in Ranks /\ proc[q].op >= k
      BY <1>2, <3>1, NeededBegun
    <3> QED
      BY <3>2
  <2>4. results' = [results EXCEPT ![p] = Append(@, Promised!Outcome(p, k))]
    BY <1>1, <1>5
  <2> QED
    BY <1>1, <2>1, <2>2, <2>3, <2>4 DEF Promised!End
<1> QED
  BY <1>6, <1>7, <1>8 DEF CollectiveInv, PromisedStep, Promised!Next

LEMMA StepIsPromised ==
    ASSUME CollectiveInv, [Next]_vars
    PROVE  CollectiveInv' /\ PromisedStep
<1>1. GroupInv /\ GroupInv'
  BY StepKeeps DEF CollectiveInv
<1> QED
  BY <1>1, Seen, UnseenStep, BeginStep, EndStep

LEMMA InitIsPromised ==
    ASSUME Init, SameSizes
    PROVE  CollectiveInv /\ Promised!Init
<1>1. GroupInv
  BY GroupInit
<1>2. /\ proc = [p \in Ranks |-> Idle] /\ results = [p \in Ranks |-> <<>>]
      /\ Idle.op = 0 /\ Idle.next = "none"
  BY DEF Init, Idle
<1>3. Counted
  <2>1. \A p \in Ranks : Tally(p, 0) = 0
    BY TallyFacts
  <2> QED
    BY <1>2, <2>1 DEF Counted, isDone
<1>4. Promised!Init
  BY <1>2 DEF Promised!Init
<1> QED
  BY <1>1, <1>3, <1>4 DEF CollectiveInv

(***************************************************************************)
(* The messages along the tree implement the collective operations         *)
(* (completeCurrentOperation() and the check methods, AsyncCommGroup.C):   *)
(* for groups, trees and scripts of any size, a process ends a broadcast,  *)
(* a gather or a sum reduce with exactly what it is to give it, and not    *)
(* before all have begun it whose data that takes.  SameSizes is what the  *)
(* callers of a gather or a reduction must see to (AsyncCommGroup.h 340,   *)
(* 368); it says nothing of broadcasts.                                    *)
(***************************************************************************)
THEOREM GroupsAreCollective == Spec /\ SameSizes => IsCollective
<1>1. Init /\ SameSizes => CollectiveInv /\ Promised!Init
  BY InitIsPromised
<1>2. CollectiveInv /\ [Next]_vars => CollectiveInv' /\ PromisedStep
  BY StepIsPromised
<1> QED
  BY <1>1, <1>2, PTL DEF Spec, IsCollective, Promised!Spec, PromisedStep

LEMMA BranchFinite ==
    ASSUME NEW n, NEW size \in Nat, NEW pos
    PROVE  /\ IsFiniteSet(Branch(n, size, pos))
           /\ Cardinality(Branch(n, size, pos)) \in Nat
<1>1. IsFiniteSet(0 .. size - 1)
  BY FS_Interval
<1>2. Branch(n, size, pos) \subseteq 0 .. size - 1
  BY DEF Branch
<1>3. IsFiniteSet(Branch(n, size, pos))
  BY <1>1, <1>2, FS_Subset
<1> QED
  BY <1>3, FS_CardinalityType

\* What computeDependentData() counts by generations is who is in the branch.
LEMMA BranchCounted ==
    ASSUME NEW n \in Nat \ {0}, NEW size \in Nat, NEW pos \in Nat
    PROVE  Cardinality(Branch(n, size, pos)) = BranchSize(n, size, pos)
<1> DEFINE Right(p) == Cardinality(Branch(n, size, p)) = BranchSize(n, size, p)
           T == {d \in 0 .. size : ~Right(size - d)}
<1>1. ASSUME NEW p \in Nat, p >= size PROVE Right(p)
  <2>1. Branch(n, size, p) = {}
    BY <1>1, BranchParts
  <2>2. BranchSize(n, size, p) = 0
    BY <1>1, BranchSteps
  <2> QED
    BY <2>1, <2>2, FS_EmptySet
<1> SUFFICES ASSUME ~Right(pos) PROVE FALSE
  OBVIOUS
<1>2. T # {}
  <2>1. pos < size
    BY <1>1
  <2>2. size - pos \in 0 .. size /\ size - (size - pos) = pos
    BY <2>1
  <2>3. size - pos \in T
    BY <2>2
  <2> QED
    BY <2>3
<1>3. PICK d \in T : \A e \in T : d <= e
  <2> HIDE DEF T
  <2>1. T \in SUBSET Nat
    BY DEF T
  <2> QED
    BY <1>2, <2>1, LeastNatural
<1> DEFINE p == size - d
           B(c) == Branch(n, size, p * n + 1 + c)
           f == [c \in 0 .. n - 1 |-> BranchSize(n, size, p * n + 1 + c)]
<1>4. p \in Nat /\ ~Right(p)
  BY <1>3
<1>5. p < size
  BY <1>1, <1>4
<1>6. ASSUME NEW q \in Nat, q > p PROVE Right(q)
  <2>1. CASE q >= size
    BY <1>1, <2>1
  <2>2. CASE q < size
    <3>1. size - q \in 0 .. size /\ size - (size - q) = q /\ ~(d <= size - q)
      BY <1>3, <1>6, <2>2
    <3>2. size - q \notin T
      BY <1>3, <3>1
    <3> QED
      BY <3>1, <3>2
  <2> QED
    BY <2>1, <2>2
<1> HIDE DEF T, p
<1>7. ASSUME NEW c \in 0 .. n - 1 PROVE f[c] \in Nat /\ f[c] = Cardinality(B(c))
  <2>1. p * n \in Nat /\ p * n >= p
    BY <1>4
  <2>2. p * n + 1 + c \in Nat /\ p * n + 1 + c > p
    BY <1>4, <2>1
  <2>3. f[c] = BranchSize(n, size, p * n + 1 + c)
    OBVIOUS
  <2> HIDE DEF f
  <2> QED
    BY <1>6, <2>2, <2>3, BranchFinite
<1> DEFINE A == Branch(n, size, p)
<1>8. /\ p \in A
      /\ \A c \in 0 .. n - 1 : p \notin B(c) /\ B(c) \subseteq A
      /\ \A q \in A : q = p \/ \E c \in 0 .. n - 1 : q \in B(c)
      /\ \A c, e \in 0 .. n - 1 : c # e => B(c) \cap B(e) = {}
  BY <1>4, <1>5, BranchParts
<1>9. BranchSize(n, size, p) = 1 + SumBelow(f, n)
  BY <1>4, <1>5, BranchSteps
<1>10. \A c \in 0 .. n - 1 : IsFiniteSet(B(c))
  BY BranchFinite
<1> HIDE DEF f, B, A
<1> DEFINE U(m) == {p} \cup UNION {B(c) : c \in 0 .. m - 1}
           V == {m \in 0 .. n : IsFiniteSet(U(m)) /\ Cardinality(U(m)) = 1 + SumBelow(f, m)}
<1>11. 0 \in V
  <2>1. U(0) = {p}
    OBVIOUS
  <2>2. SumBelow(f, 0) = 0
    BY SumSteps
  <2>3. 0 \in 0 .. n
    OBVIOUS
  <2>4. IsFiniteSet({p}) /\ Cardinality({p}) = 1
    BY FS_Singleton
  <2>5. IsFiniteSet(U(0)) /\ Cardinality(U(0)) = 1 + SumBelow(f, 0)
    BY <2>1, <2>2, <2>4
  <2> QED
    BY <2>3, <2>5
<1>12. ASSUME NEW m \in 0 .. n - 1, m \in V PROVE m + 1 \in V
  <2>1. U(m + 1) = U(m) \cup B(m)
    <3>1. \A c \in Int : c \in 0 .. m <=> c \in 0 .. m - 1 \/ c = m
      OBVIOUS
    <3>2. (m + 1) - 1 = m
      OBVIOUS
    <3>3. {B(c) : c \in 0 .. m} = {B(c) : c \in 0 .. m - 1} \cup {B(m)}
      BY <3>1
    <3> QED
      BY <3>2, <3>3
  <2>2. U(m) \cap B(m) = {}
    <3>1. \A c \in 0 .. m - 1 : c \in 0 .. n - 1 /\ c # m
      OBVIOUS
    <3> QED
      BY <1>8, <3>1
  <2>3. IsFiniteSet(B(m)) /\ Cardinality(B(m)) = f[m] /\ f[m] \in Nat
    BY <1>7, <1>10
  <2>4. IsFiniteSet(U(m)) /\ Cardinality(U(m)) = 1 + SumBelow(f, m)
    BY <1>12
  <2>5. /\ IsFiniteSet(U(m + 1))
        /\ Cardinality(U(m + 1)) = Cardinality(U(m)) + Cardinality(B(m))
    <3> HIDE DEF U
    <3>1. Cardinality({}) = 0 /\ Cardinality(U(m)) \in Nat /\ Cardinality(B(m)) \in Nat
      BY <2>3, <2>4, FS_EmptySet, FS_CardinalityType
    <3>2. /\ IsFiniteSet(U(m) \cup B(m))
          /\ Cardinality(U(m) \cup B(m)) =
               Cardinality(U(m)) + Cardinality(B(m)) - Cardinality(U(m) \cap B(m))
      BY <2>3, <2>4, FS_Union
    <3>3. Cardinality(U(m) \cap B(m)) = 0
      BY <2>2, <3>1
    <3>4. Cardinality(U(m) \cup B(m)) = Cardinality(U(m)) + Cardinality(B(m))
      BY <3>1, <3>2, <3>3
    <3> QED
      BY <2>1, <3>2, <3>4
  <2>6. SumBelow(f, m + 1) = SumBelow(f, m) + f[m] /\ SumBelow(f, m) \in Int
    <3>1. m \in Nat /\ \A c \in 0 .. m - 1 : f[c] \in Int
      BY <1>7
    <3> QED
      BY <3>1, SumSteps, SumInt
  <2>7. m + 1 \in 0 .. n
    OBVIOUS
  <2> HIDE DEF U
  <2> QED
    BY <2>3, <2>4, <2>5, <2>6, <2>7
<1>13. n \in V
  <2> HIDE DEF V
  <2> QED
    BY <1>11, <1>12, NaturalsUpTo
<1>14. U(n) = A
  BY <1>8
<1>15. Cardinality(A) = 1 + SumBelow(f, n)
  BY <1>13, <1>14
<1> QED
  BY <1>4, <1>9, <1>15 DEF A

-----------------------------------------------------------------------------
(* Going up: a function applied again and again.                           *)

IsPath(h, F, x) == h = [k \in Nat |-> IF k = 0 THEN x ELSE F[h[k - 1]]]

LEMMA PathExists ==
    ASSUME NEW S, NEW F \in [S -> S], NEW x \in S
    PROVE  \E h \in [Nat -> S] : IsPath(h, F, x)
<1> DEFINE Upto(h, m) == h \in [Nat -> S] /\ h[0] = x /\ \A k \in 0 .. m - 1 : h[k + 1] = F[h[k]]
           T == {m \in Nat : \E h : Upto(h, m)}
<1>1. 0 \in T
  <2>1. Upto([k \in Nat |-> x], 0)
    OBVIOUS
  <2> QED
    BY <2>1
<1>2. ASSUME NEW m \in T PROVE m + 1 \in T
  <2>1. PICK h : Upto(h, m)
    OBVIOUS
  <2> DEFINE g == [h EXCEPT ![m + 1] = F[h[m]]]
  <2>2. g \in [Nat -> S] /\ g[0] = x
    BY <2>1
  <2>3. ASSUME NEW k \in 0 .. (m + 1) - 1 PROVE g[k + 1] = F[g[k]]
    <3>1. g[k] = h[k]
      BY <2>1
    <3>2. CASE k = m
      BY <2>1, <3>1, <3>2
    <3>3. CASE k # m
      <4>1. k \in 0 .. m - 1 /\ k + 1 # m + 1 /\ k + 1 \in Nat
        BY <3>3
      <4>2. g[k + 1] = h[k + 1]
        BY <2>1, <4>1
      <4>3. h[k + 1] = F[h[k]]
        BY <2>1, <4>1
      <4> QED
        BY <3>1, <4>2, <4>3
    <3> QED
      BY <3>2, <3>3
  <2> HIDE DEF g
  <2>4. Upto(g, m + 1)
    BY <2>2, <2>3
  <2> HIDE DEF Upto
  <2> QED
    BY <2>4
<1>3. T = Nat
  <2> HIDE DEF T
  <2>1. T \in SUBSET Nat
    BY DEF T
  <2> QED
    BY <1>1, <1>2, <2>1, AllNaturals
<1>4. ASSUME NEW h, NEW g, NEW m \in Nat, Upto(h, m), Upto(g, m) PROVE h[m] = g[m]
  <2> DEFINE V == {k \in 0 .. m : h[k] = g[k]}
  <2>1. 0 \in V
    BY <1>4
  <2>2. ASSUME NEW k \in 0 .. m - 1, k \in V PROVE k + 1 \in V
    BY <1>4, <2>2
  <2>3. m \in V
    <3> HIDE DEF V
    <3> QED
      BY <2>1, <2>2, NaturalsUpTo
  <2> QED
    BY <2>3
<1> DEFINE G(m) == CHOOSE h : Upto(h, m)
           h == [k \in Nat |-> G(k)[k]]
<1>5. \A m \in Nat : Upto(G(m), m)
  BY <1>3
<1> HIDE DEF G
<1>6. h[0] = x /\ h \in [Nat -> S]
  BY <1>5
<1>7. ASSUME NEW k \in Nat PROVE h[k + 1] = F[h[k]]
  <2>1. Upto(G(k + 1), k + 1)
    BY <1>5
  <2>2. Upto(G(k + 1), k)
    BY <2>1
  <2>3. G(k + 1)[k] = G(k)[k]
    <3> HIDE DEF Upto
    <3> QED
      BY <1>4, <1>5, <2>2
  <2>4. G(k + 1)[k + 1] = F[G(k + 1)[k]]
    BY <2>1
  <2> QED
    BY <2>3, <2>4
<1>8. ASSUME NEW k \in Nat PROVE h[k] = IF k = 0 THEN x ELSE F[h[k - 1]]
  <2>1. CASE k = 0
    BY <1>6, <2>1
  <2>2. CASE k # 0
    <3>1. k - 1 \in Nat /\ (k - 1) + 1 = k
      BY <2>2
    <3> HIDE DEF h
    <3>2. h[(k - 1) + 1] = F[h[k - 1]]
      BY <1>7, <3>1
    <3> QED
      BY <2>2, <3>1, <3>2
  <2> QED
    BY <2>1, <2>2
<1>9. IsPath(h, F, x)
  <2>1. h = [k \in Nat |-> h[k]]
    BY <1>6
  <2> HIDE DEF h
  <2> QED
    BY <1>8, <2>1 DEF IsPath
<1> QED
  BY <1>6, <1>9

-----------------------------------------------------------------------------
(* The branches of a group as processes know it.                           *)

Up(i) == CHOOSE h : h = [k \in Nat |-> IF k = 0 THEN i
                                       ELSE IF h[k - 1] = Invalid THEN Invalid ELSE known[h[k - 1]].parent]

LEMMA UpFacts ==
    ASSUME GroupKnown, setup.of = "group", NEW i \in 0 .. setup.size - 1
    PROVE  LET n == setup.nchild
               root == setup.root
               Parent(j) == ParentOf(n, root, j)
           IN  /\ Up(i)[0] = i
               /\ \A k \in Nat : /\ Up(i)[k] \in 0 .. setup.size - 1 \/ Up(i)[k] = -1
                                 /\ Up(i)[k + 1] = IF Up(i)[k] = -1 THEN -1 ELSE Parent(Up(i)[k])
<1> DEFINE n    == setup.nchild
           size == setup.size
           root == setup.root
           N    == 0 .. size - 1
           S    == N \cup {-1}
           F    == [j \in S |-> IF j = -1 THEN -1 ELSE known[j].parent]
<1>1. /\ n \in Nat \ {0} /\ size \in Nat \ {0} /\ root \in N
      /\ known = [j \in N |-> computeDependentData(n, size, root, j)]
  BY DEF GroupKnown
<1>2. \A j \in N : known[j].parent = ParentOf(n, root, j)
  BY <1>1 DEF computeDependentData
<1> HIDE DEF n, size, root
<1>3. ASSUME NEW j \in N PROVE ParentOf(n, root, j) \in S
  <2> DEFINE pos == toPosition(root, j)
  <2>1. pos \in N
    BY <1>1, PositionsAreIndices
  <2>2. CASE pos > 0
    <3>1. toParent(n, pos) \in 0 .. pos - 1
      BY <1>1, <2>1, <2>2, ParentPosition
    <3>2. toParent(n, pos) \in N
      BY <1>1, <2>1, <3>1
    <3>3. toIndex(root, toParent(n, pos)) \in N
      BY <1>1, <3>2, PositionsAreIndices
    <3> QED
      BY <2>2, <3>3 DEF ParentOf
  <2>3. CASE ~(pos > 0)
    BY <2>3 DEF ParentOf, NoIndex
  <2> QED
    BY <2>2, <2>3
<1>4. F \in [S -> S]
  BY <1>2, <1>3
<1>5. PICK h \in [Nat -> S] : IsPath(h, F, i)
  <2>1. i \in S
    BY DEF size
  <2> HIDE DEF F, S
  <2> QED
    BY <1>4, <2>1, PathExists
<1> DEFINE E(g) == [k \in Nat |-> IF k = 0 THEN i
                                  ELSE IF g[k - 1] = Invalid THEN Invalid ELSE known[g[k - 1]].parent]
<1>6. ASSUME NEW k \in Nat
      PROVE  (IF k = 0 THEN i ELSE F[h[k - 1]]) = E(h)[k]
  <2>1. k # 0 => h[k - 1] \in S
    BY <1>5
  <2> QED
    BY <2>1 DEF Invalid
<1>7. h = E(h)
  <2> HIDE DEF F, S
  <2> QED
    BY <1>5, <1>6 DEF IsPath
<1>8. Up(i) = E(Up(i))
  <2>1. Up(i) = CHOOSE g : g = E(g)
    BY DEF Up
  <2> HIDE DEF E
  <2> QED
    BY <1>7, <2>1
<1> DEFINE u == Up(i)
<1>9. u[0] = i /\ \A k \in Nat : u[k + 1] = IF u[k] = -1 THEN -1 ELSE known[u[k]].parent
  <2> HIDE DEF u
  <2>1. u = E(u)
    BY <1>8 DEF u
  <2>2. ASSUME NEW k \in Nat PROVE u[k + 1] = IF u[k] = -1 THEN -1 ELSE known[u[k]].parent
    <3>1. k + 1 \in Nat /\ k + 1 # 0 /\ (k + 1) - 1 = k
      OBVIOUS
    <3>2. E(u)[k + 1] = IF u[k] = -1 THEN -1 ELSE known[u[k]].parent
      BY <3>1 DEF Invalid
    <3> QED
      BY <2>1, <3>2
  <2>3. E(u)[0] = i
    OBVIOUS
  <2> QED
    BY <2>1, <2>2, <2>3
<1> HIDE DEF u
<1> DEFINE T == {k \in Nat : u[k] \in S}
<1>10. T = Nat
  <2>1. 0 \in T
    BY <1>9 DEF size
  <2>2. ASSUME NEW k \in T PROVE k + 1 \in T
    BY <1>2, <1>3, <1>9
  <2> HIDE DEF T
  <2>3. T \in SUBSET Nat
    BY DEF T
  <2> QED
    BY <2>1, <2>2, <2>3, AllNaturals
<1>11. ASSUME NEW k \in Nat
       PROVE  /\ u[k] \in N \/ u[k] = -1
              /\ u[k + 1] = IF u[k] = -1 THEN -1 ELSE ParentOf(n, root, u[k])
  <2>1. u[k] \in S
    BY <1>10
  <2> QED
    BY <1>2, <1>9, <2>1
<1> QED
  BY <1>9, <1>11 DEF u, n, root, size

\* The ancestors of a process are those at the positions above its own.
LEMMA AncestorsAre ==
    ASSUME GroupKnown, setup.of = "group", NEW i \in 0 .. setup.size - 1
    PROVE  Ancestors(i) = {a \in 0 .. setup.size - 1 :
                             IsAbove(setup.nchild, toPosition(setup.root, a), toPosition(setup.root, i))}
<1> DEFINE n    == setup.nchild
           size == setup.size
           root == setup.root
           N    == 0 .. size - 1
           pos(j) == toPosition(root, j)
           u    == Up(i)
<1>1. n \in Nat \ {0} /\ size \in Nat \ {0} /\ root \in N
  BY DEF GroupKnown
<1>2. u[0] = i /\ \A k \in Nat : /\ u[k] \in N \/ u[k] = -1
                                 /\ u[k + 1] = IF u[k] = -1 THEN -1 ELSE ParentOf(n, root, u[k])
  BY UpFacts
<1>3. Members = N /\ Cardinality(N) = size
  <2>1. Members = N
    BY DEF Members
  <2>2. Cardinality(0 .. size - 1) = size
    BY <1>1, FS_Interval
  <2> QED
    BY <2>1, <2>2
<1>4. Ancestors(i) = {u[k] : k \in 0 .. size} \ {-1}
  BY <1>3 DEF Ancestors, Up, Invalid
<1>5. \A j \in N : /\ pos(j) \in N /\ (pos(j) = 0 <=> j = root)
                   /\ toIndex(root, j) \in N
                   /\ toIndex(root, pos(j)) = j /\ pos(toIndex(root, j)) = j
  BY <1>1, PositionsAreIndices
<1> HIDE DEF n, size, root, u
<1>6. ASSUME NEW j \in N
      PROVE  /\ pos(j) = 0 => ParentOf(n, root, j) = -1
             /\ pos(j) # 0 => /\ ParentOf(n, root, j) \in N
                              /\ pos(ParentOf(n, root, j)) = toParent(n, pos(j))
                              /\ toParent(n, pos(j)) \in 0 .. pos(j) - 1
  <2>1. pos(j) \in N /\ pos(j) \in Nat
    BY <1>1, <1>5
  <2>2. CASE pos(j) = 0
    BY <2>2 DEF ParentOf, NoIndex
  <2>3. CASE pos(j) # 0
    <3>1. toParent(n, pos(j)) \in 0 .. pos(j) - 1
      BY <1>1, <2>1, <2>3, ParentPosition
    <3>2. toParent(n, pos(j)) \in N
      BY <1>1, <2>1, <3>1
    <3>3. ParentOf(n, root, j) = toIndex(root, toParent(n, pos(j)))
      BY <2>1, <2>3 DEF ParentOf
    <3> QED
      BY <1>5, <2>3, <3>1, <3>2, <3>3
  <2> QED
    BY <2>2, <2>3
<1>7. \A j \in N : pos(j) \in Nat
  BY <1>1, <1>5
<1>8. i \in N
  BY DEF size
\* Upwards positions decrease, and all are above i's.
<1> DEFINE T == {k \in Nat : u[k] # -1 => /\ u[k] \in N /\ IsAbove(n, pos(u[k]), pos(i))
                                          /\ pos(u[k]) + k <= pos(i)}
<1>9. T = Nat
  <2>1. 0 \in T
    <3>1. IsAbove(n, pos(i), pos(i)) /\ pos(i) \in Nat
      BY <1>1, <1>7, <1>8, AboveSteps
    <3> QED
      BY <1>2, <1>8, <3>1
  <2>2. ASSUME NEW k \in T PROVE k + 1 \in T
    <3> SUFFICES ASSUME u[k + 1] # -1
                 PROVE  /\ u[k + 1] \in N /\ IsAbove(n, pos(u[k + 1]), pos(i))
                        /\ pos(u[k + 1]) + (k + 1) <= pos(i)
      OBVIOUS
    <3>1. u[k] # -1 /\ u[k + 1] = ParentOf(n, root, u[k])
      BY <1>2
    <3>2. u[k] \in N /\ IsAbove(n, pos(u[k]), pos(i)) /\ pos(u[k]) + k <= pos(i)
      BY <3>1
    <3>3. pos(u[k]) # 0 /\ pos(u[k]) \in Nat /\ pos(i) \in Nat
      BY <1>6, <1>7, <1>8, <3>1, <3>2
    <3>4. /\ u[k + 1] \in N /\ pos(u[k + 1]) = toParent(n, pos(u[k]))
          /\ toParent(n, pos(u[k])) \in 0 .. pos(u[k]) - 1
      BY <1>6, <3>1, <3>2, <3>3
    <3> HIDE DEF pos
    <3>5. IsAbove(n, pos(u[k + 1]), pos(u[k]))
      BY <1>1, <3>3, <3>4, AboveSteps
    <3>6. IsAbove(n, pos(u[k + 1]), pos(i))
      BY <3>2, <3>5 DEF IsAbove
    <3>7. pos(u[k + 1]) + (k + 1) <= pos(i)
      BY <3>2, <3>3, <3>4
    <3> QED
      BY <3>4, <3>6, <3>7
  <2> HIDE DEF T
  <2>3. T \in SUBSET Nat
    BY DEF T
  <2> QED
    BY <2>1, <2>2, <2>3, AllNaturals
<1>10. ASSUME NEW a \in Ancestors(i) PROVE a \in N /\ IsAbove(n, pos(a), pos(i))
  <2>1. PICK k \in 0 .. size : a = u[k] /\ a # -1
    BY <1>4
  <2>2. k \in T
    BY <1>1, <1>9
  <2> QED
    BY <2>1, <2>2
\* The positions on the way are closed: i's is there, and none but them are above it.
<1>11. ASSUME NEW a \in N, IsAbove(n, pos(a), pos(i)) PROVE a \in Ancestors(i)
  <2> DEFINE W == {p \in Nat : \E k \in Nat : u[k] \in N /\ p = pos(u[k])}
  <2>1. pos(i) \in W
    BY <1>2, <1>7, <1>8
  <2>2. Closed(n, W)
    <3> SUFFICES ASSUME NEW p \in W, p # 0 PROVE toParent(n, p) \in W
      BY DEF Closed
    <3>1. PICK k \in Nat : u[k] \in N /\ p = pos(u[k])
      OBVIOUS
    <3>2. u[k] # -1 /\ u[k + 1] = ParentOf(n, root, u[k])
      BY <1>1, <1>2, <3>1
    <3>3. u[k + 1] \in N /\ pos(u[k + 1]) = toParent(n, p) /\ k + 1 \in Nat
      BY <1>6, <3>1, <3>2
    <3>4. pos(u[k + 1]) \in Nat
      BY <1>7, <3>3
    <3> HIDE DEF pos
    <3> QED
      BY <3>3, <3>4
  <2>3. pos(a) \in W
    <3> HIDE DEF W
    <3>1. W \in SUBSET Nat
      BY DEF W
    <3> QED
      BY <1>11, <2>1, <2>2, <3>1 DEF IsAbove
  <2>4. PICK k \in Nat : u[k] \in N /\ pos(a) = pos(u[k])
    BY <2>3
  <2>5. a = u[k]
    BY <1>5, <2>4
  <2>6. u[k] # -1 /\ k \in T
    BY <1>1, <1>9, <2>4
  <2>7. pos(u[k]) + k <= pos(i) /\ pos(i) \in N /\ pos(u[k]) \in Nat
    BY <1>5, <1>7, <1>8, <2>4, <2>6
  <2> HIDE DEF pos
  <2>8. k \in 0 .. size
    BY <1>1, <2>7
  <2> QED
    BY <1>4, <2>5, <2>6, <2>8
<1> QED
  BY <1>10, <1>11 DEF n, size, root

\* Those below a process are as many as its branch is said to have.
LEMMA BelowCounted ==
    ASSUME GroupKnown, setup.of = "group", NEW i \in 0 .. setup.size - 1
    PROVE  /\ setup.root \in Ancestors(i)
           /\ Cardinality(Below(i)) =
                BranchSize(setup.nchild, setup.size, toPosition(setup.root, i))
<1> DEFINE n    == setup.nchild
           size == setup.size
           root == setup.root
           N    == 0 .. size - 1
           pos(j) == toPosition(root, j)
           B    == Branch(n, size, pos(i))
<1>1. n \in Nat \ {0} /\ size \in Nat \ {0} /\ root \in N
  BY DEF GroupKnown
<1>2. \A j \in N : /\ pos(j) \in N /\ (pos(j) = 0 <=> j = root)
                   /\ toIndex(root, j) \in N
                   /\ toIndex(root, pos(j)) = j /\ pos(toIndex(root, j)) = j
  BY <1>1, PositionsAreIndices
<1>3. \A j \in N : Ancestors(j) = {a \in N : IsAbove(n, pos(a), pos(j))}
  BY AncestorsAre
<1>4. i \in N /\ Members = N
  BY DEF Members
<1> HIDE DEF n, size, root
<1>5. root \in Ancestors(i)
  <2>1. pos(i) \in Branch(n, size, 0)
    BY <1>1, <1>2, <1>4, AllBelowRoot
  <2>2. pos(root) = 0
    BY <1>1, <1>2
  <2> QED
    BY <1>1, <1>3, <1>4, <2>1, <2>2 DEF Branch
<1>6. Below(i) = {j \in N : pos(j) \in B}
  BY <1>2, <1>3, <1>4 DEF Below, Branch
<1>7. IsFiniteSet(B) /\ B \subseteq N
  BY <1>1, BranchFinite DEF Branch
<1>8. Cardinality(Below(i)) = Cardinality(B)
  <2> DEFINE f == [q \in B |-> toIndex(root, q)]
  <2>1. f \in [B -> Below(i)]
    BY <1>2, <1>6, <1>7
  <2>2. \A a, b \in B : f[a] = f[b] => a = b
    BY <1>2, <1>7
  <2>3. \A j \in Below(i) : \E a \in B : f[a] = j
    BY <1>2, <1>6
  <2> HIDE DEF f, B
  <2>4. f \in Bijection(B, Below(i))
    BY <2>1, <2>2, <2>3 DEF Bijection, Injection, Surjection, IsInjective
  <2>5. ExistsBijection(B, Below(i))
    BY <2>4 DEF ExistsBijection
  <2> QED
    BY <1>7, <2>5, FS_Bijection
<1>9. Cardinality(B) = BranchSize(n, size, pos(i))
  <2>1. pos(i) \in Nat
    BY <1>1, <1>2, <1>4
  <2> QED
    BY <1>1, <2>1, BranchCounted
<1> QED
  BY <1>5, <1>8, <1>9 DEF n, size, root

(***************************************************************************)
(* In a group, every process is below the root, and the size a process     *)
(* computes for the branch in a slot is the number of processes below the  *)
(* child there (AsyncCommGroup.C:1278-1309), however many are in the group *)
(* and wherever the last generation ends.                                  *)
(***************************************************************************)
THEOREM GroupBranchesFit == Setup!Spec => [](setup.of = "group" => BranchesFit)
<1>1. ASSUME GroupKnown, setup.of = "group"
      PROVE  BranchesFit
  <2> DEFINE n    == setup.nchild
             size == setup.size
             root == setup.root
             N    == 0 .. size - 1
             pos(j) == toPosition(root, j)
  <2>1. /\ n \in Nat \ {0} /\ size \in Nat \ {0} /\ root \in N
        /\ known = [i \in N |-> computeDependentData(n, size, root, i)]
    BY <1>1 DEF GroupKnown
  <2>2. Members = N /\ Root = root /\ Degree = n /\ setup.of # "rank tree" /\ Slots(n) = 0 .. n - 1
    BY <1>1 DEF Members, Root, Degree, Slots
  <2>3. \A i \in N, c \in 0 .. n - 1 :
           /\ Child(i, c) = ChildOf(n, size, root, i, c)
           /\ known[i].branch[c] = BranchSize(n, size, toChildPosition(n, pos(i), c))
    BY <1>1, <2>1 DEF Child, computeDependentData, Slots
  <2>4. \A i \in N : root \in Ancestors(i) /\ Cardinality(Below(i)) = BranchSize(n, size, pos(i))
    BY <1>1, BelowCounted
  <2> HIDE DEF n, size, root
  <2>5. ASSUME NEW i \in N, NEW c \in 0 .. n - 1
        PROVE  known[i].branch[c] = IF Child(i, c) = Invalid THEN 0
                                    ELSE Cardinality(Below(Child(i, c)))
    <3> DEFINE x == toChildPosition(n, pos(i), c)
    <3>1. x \in Nat
      <4>1. pos(i) \in Nat
        BY <2>1, PositionsAreIndices
      <4>2. pos(i) * n \in Nat
        BY <2>1, <4>1
      <4> HIDE DEF pos
      <4> QED
        BY <4>2 DEF toChildPosition
    <3>2. Child(i, c) = IF x < size THEN toIndex(root, x) ELSE -1
      BY <2>3 DEF ChildOf, NoIndex
    <3> HIDE DEF x
    <3>3. CASE x < size
      <4>1. x \in N
        BY <2>1, <3>1, <3>3
      <4>2. toIndex(root, x) \in N /\ pos(toIndex(root, x)) = x
        BY <2>1, <4>1, PositionsAreIndices
      <4>3. Cardinality(Below(toIndex(root, x))) = BranchSize(n, size, x)
        BY <2>4, <4>2
      <4>4. toIndex(root, x) # -1
        BY <2>1, <4>2
      <4> QED
        BY <2>3, <3>2, <3>3, <4>3, <4>4 DEF Invalid, x
    <3>4. CASE ~(x < size)
      <4>1. BranchSize(n, size, x) = 0
        <5>1. x >= size
          BY <2>1, <3>1, <3>4
        <5> QED
          BY <2>1, <3>1, <5>1, BranchSteps
      <4> QED
        BY <2>3, <3>2, <3>4, <4>1 DEF Invalid, x
    <3> QED
      BY <3>3, <3>4
  <2> QED
    BY <2>2, <2>4, <2>5 DEF BranchesFit
<1> QED
  BY <1>1, GroupKnownInvariant, PTL

================================================================================
