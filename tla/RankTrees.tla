------------------------------ MODULE RankTrees ------------------------------
(***************************************************************************)
(* The implementations of tbox::RankTreeStrategy: the ranks first to last  *)
(* in a tree, over which processes pass messages up and down (the load     *)
(* balancer's loads, the termination messages of                           *)
(* Connector::computeTransposeOf()).  Each process sets up its own object  *)
(* and learns only its own node.                                           *)
(*                                                                         *)
(* The walk from the root towards a rank is its path: the range of ranks   *)
(* of each subtree it enters.                                              *)
(***************************************************************************)
EXTENDS Integers, Sequences, FiniteSets

Invalid == -1       \* getInvalidRank(), and the invalid child number

NumberOfChildren(node) ==
    Cardinality({c \in DOMAIN node.children : node.children[c] # Invalid})

\* getChildRank(), for c from 1: the valid children are taken to come first.
ChildRank(node, c) ==
    IF c <= NumberOfChildren(node) THEN node.children[c] ELSE Invalid

-----------------------------------------------------------------------------
(* CenteredRankTree: the middle of a range, rounded up, is the root of its *)
(* subtree; the whole tree may have its first rank as its root instead.    *)

Middle(beg, end) == (beg + end + 1) \div 2

\* The middles of what is left and right of the middle.
Halves(beg, end) ==
    LET mid == Middle(beg, end)
    IN  << IF mid > beg THEN (beg + mid) \div 2 ELSE Invalid,
           IF mid < end THEN (mid + 1 + end + 1) \div 2 ELSE Invalid >>

CenteredPath(rank, first, last) ==
    LET path[beg \in Int, end \in Int] ==
            LET mid == Middle(beg, end)
            IN  << <<beg, end>> >> \o
                    CASE rank = mid -> <<>>
                      [] rank < mid -> path[beg, mid - 1]
                      [] rank > mid -> path[mid + 1, end]
    IN  path[first, last]

\* The walk counts a generation before its first subtree.
CenteredNode(rank, root, path, number) ==
    LET above  == path[Len(path) - 1]
        parent == IF Len(path) = 1 THEN root ELSE Middle(above[1], above[2])
        own    == path[Len(path)]
    IN  [parent      |-> parent,
         generation  |-> Len(path),
         childNumber |-> CASE Len(path) = 1 -> number
                           [] Len(path) > 1 /\ rank < parent -> 0
                           [] Len(path) > 1 /\ rank > parent -> 1,
         children    |-> Halves(own[1], own[2])]

CenteredRankTree(first, last, rank, firstIsRoot) ==
    LET beg  == first + 1
        mid  == IF firstIsRoot THEN (beg + last) \div 2 ELSE Middle(first, last)
        root == IF firstIsRoot THEN first ELSE mid
        topChildren ==
            IF firstIsRoot
            THEN << IF beg <= last THEN (beg + mid + 1) \div 2 ELSE Invalid,
                    IF beg < last THEN (mid + 1 + last + 1) \div 2 ELSE Invalid >>
            ELSE Halves(first, last)
        walk ==
            CASE ~firstIsRoot              -> <<first, last>>
              [] firstIsRoot /\ rank <= mid -> <<beg, mid>>
              [] firstIsRoot /\ rank > mid  -> <<mid + 1, last>>
    IN  IF rank = root
        THEN [parent |-> Invalid, generation |-> 0, childNumber |-> Invalid,
              children |-> topChildren]
        ELSE CenteredNode(rank, root, CenteredPath(rank, walk[1], walk[2]),
                          IF rank <= mid THEN 0 ELSE 1)

-----------------------------------------------------------------------------
(* BalancedDepthFirstTree: the first rank of a range is the root, half of  *)
(* the others, rounded up, are to the left.  A parent of two leaves and    *)
(* its left leaf, with their right leaf a trio, may switch places.         *)

OnRight(beg, end) == (end - beg) \div 2

OnLeft(beg, end) == end - beg - OnRight(beg, end)

LeftChild(beg, end) == IF OnLeft(beg, end) > 0 THEN beg + 1 ELSE Invalid

RightChild(beg, end) ==
    IF OnRight(beg, end) > 0 THEN beg + 1 + OnLeft(beg, end) ELSE Invalid

DepthFirstPath(rank, first, last) ==
    LET path[beg \in Int, end \in Int] ==
            LET right == beg + 1 + OnLeft(beg, end)
            IN  << <<beg, end>> >> \o
                    CASE rank = beg                   -> <<>>
                      [] rank # beg /\ rank < right   -> path[beg + 1, right - 1]
                      [] rank # beg /\ rank >= right  -> path[right, end]
    IN  path[first, last]

DepthFirstNode(path) ==
    LET own == path[Len(path)]
    IN  [parent      |-> IF Len(path) = 1 THEN Invalid ELSE path[Len(path) - 1][1],
         generation  |-> Len(path) - 1,
         childNumber |-> CASE Len(path) = 1 -> Invalid
                           [] Len(path) > 1 /\ own[1] = path[Len(path) - 1][1] + 1 -> 0
                           [] Len(path) > 1 /\ own[1] > path[Len(path) - 1][1] + 1 -> 1,
         children    |-> <<LeftChild(own[1], own[2]), RightChild(own[1], own[2])>>]

\* Outside a trio: a child that is the parent of a trio has switched.
\* Variant: only the left one has.
Grandparent_LeftOnly(path) ==
    LET own == path[Len(path)]
    IN  [DepthFirstNode(path) EXCEPT
            !.children[1] = IF OnLeft(own[1], own[2]) = 3 THEN @ + 1 ELSE @]

Grandparent(path) ==
    LET own == path[Len(path)]
    IN  [DepthFirstNode(path) EXCEPT
            !.children[1] = IF OnLeft(own[1], own[2]) = 3 THEN @ + 1 ELSE @,
            !.children[2] = IF OnRight(own[1], own[2]) = 3 THEN @ + 1 ELSE @]

InTrio(path) == \E k \in DOMAIN path : path[k][2] - path[k][1] = 2

LeftLeafSwitch(rank, path) ==
    LET node  == DepthFirstNode(path)
        above == DepthFirstNode(SubSeq(path, 1, Len(path) - 1))
    IN  CASE ~InTrio(path) -> Grandparent(path)
          [] InTrio(path) /\ node.children[1] # Invalid ->              \* the parent
                [node EXCEPT !.parent = node.children[1],
                             !.children = <<Invalid, Invalid>>,
                             !.generation = @ + 1,
                             !.childNumber = 0]
          [] InTrio(path) /\ node.children[1] = Invalid /\ rank = node.parent + 1 ->
                [node EXCEPT !.parent = above.parent,                   \* the left leaf
                             !.children = <<node.parent, rank + 1>>,
                             !.generation = @ - 1,
                             !.childNumber = above.childNumber]
          [] OTHER -> [node EXCEPT !.parent = @ + 1]                    \* the right leaf

BalancedDepthFirstTree(first, last, rank, doSwitch) ==
    LET path == DepthFirstPath(rank, first, last)
    IN  IF doSwitch THEN LeftLeafSwitch(rank, path) ELSE DepthFirstNode(path)

-----------------------------------------------------------------------------
(* BreadthFirstRankTree: the children of a rank are the next ranks that    *)
(* are nobody's yet.  The parent is counted from first and not moved back, *)
(* and the generation is never set after construction.                     *)

BreadthFirstRankTree(first, last, rank, degree) ==
    [parent      |-> IF rank > first THEN (rank - first - 1) \div degree ELSE Invalid,
     generation  |-> 0,
     childNumber |-> IF rank > first THEN (rank - first - 1) % degree ELSE Invalid,
     children    |-> [c \in 1 .. degree |->
                        LET child == first + degree * (rank - first) + c
                        IN  IF child > last THEN Invalid ELSE child]]

-----------------------------------------------------------------------------
\* A tree: its class, and what its constructor was given.
TreeKinds == [class : {"centered", "depth-first"}, option : BOOLEAN]
           \cup [class : {"breadth-first"}, option : Nat \ {0}]

\* getRootRank().
RootRank(kind, first, last) ==
    CASE kind.class = "centered" ->
            IF kind.option THEN first ELSE Middle(first, last)
      [] kind.class = "depth-first" ->
            IF kind.option /\ last - first + 1 = 3 THEN first + 1 ELSE first
      [] kind.class = "breadth-first" -> first

\* setupTreeForContiguousRanks().
NodeOf(kind, first, last, rank) ==
    CASE kind.class = "centered" -> CenteredRankTree(first, last, rank, kind.option)
      [] kind.class = "depth-first" -> BalancedDepthFirstTree(first, last, rank, kind.option)
      [] kind.class = "breadth-first" -> BreadthFirstRankTree(first, last, rank, kind.option)

=============================================================================
