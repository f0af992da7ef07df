------------------------------ MODULE LocalSetup ------------------------------
(***************************************************************************)
(* What processes set up for themselves, each from the same arguments and  *)
(* without a message: the tree of a communication group, a rank tree, an   *)
(* assumed partition.  What they compute separately has to fit together,   *)
(* or one waits for, sends to, or looks for boxes at, the wrong process.   *)
(***************************************************************************)
EXTENDS SetupTrees, AssumedPartition

CONSTANTS
    MaxChild,   \* bound: children per node of a group's tree
    MaxSize,    \* bound: processes in a group
    Setups,     \* pairs of a kind of rank tree and its first rank
    MaxRanks,   \* bound: processes of a rank tree
    BoxLists,   \* the lists of boxes to partition
    Averages,   \* the parts per rank asked for: <<numerator, denominator>>
    MaxOwners   \* bound: processes of a partition

ASSUME LocalSetupAssumption ==
    /\ {MaxChild, MaxSize, MaxRanks, MaxOwners} \subseteq Nat \ {0}
    /\ Setups \subseteq TreeKinds \X Nat
    /\ \A boxes \in BoxLists : Cells(boxes, Len(boxes)) > 0
    /\ Averages \subseteq (Nat \ {0}) \X (Nat \ {0})

vars == <<setup, known>>

Nothing == [of |-> "nothing"]

Init ==
    /\ setup = Nothing
    /\ known = <<>>

\* The objects are destroyed, or set up anew.
Discard ==
    /\ setup # Nothing
    /\ setup' = Nothing
    /\ known' = <<>>

\* AsyncCommGroup, by index in the group.
setGroupAndRootIndex(nchild, size, root) ==
    /\ setup = Nothing
    /\ setup' = [of |-> "group", nchild |-> nchild, size |-> size, root |-> root]
    /\ known' = [i \in 0 .. size - 1 |-> computeDependentData(nchild, size, root, i)]

\* RankTreeStrategy, by rank.
setupTree(kind, first, last) ==
    /\ setup = Nothing
    /\ setup' = [of |-> "rank tree", kind |-> kind, first |-> first, last |-> last]
    /\ known' = [r \in first .. last |-> NodeOf(kind, first, last, r)]

\* AssumedPartition: every process has the whole of it.
partition(boxes, ranks, index, avg) ==
    /\ setup = Nothing
    /\ setup' = [of |-> "partition", boxes |-> boxes, ranks |-> ranks, index |-> index]
    /\ known' = PartedBoxes(boxes, ranks, index, avg)

Next ==
    \/ Discard
    \/ \E n \in 1 .. MaxChild, size \in 1 .. MaxSize : \E root \in 0 .. size - 1 :
           setGroupAndRootIndex(n, size, root)
    \/ \E s \in Setups, n \in 1 .. MaxRanks : setupTree(s[1], s[2], s[2] + n - 1)
    \/ \E boxes \in BoxLists, ranks \in 1 .. MaxOwners, index \in {0, 3}, avg \in Averages :
           partition(boxes, ranks, index, avg)

Spec == Init /\ [][Next]_vars

-----------------------------------------------------------------------------
Parted == IF setup.of = "partition" THEN known ELSE <<>>

Covers(part, cell) ==
    \A d \in Dims : part.lower[d] <= cell[d] /\ cell[d] <= part.upper[d]

CellsOf(box) ==
    {<<x, y>> : x \in box.lower[1] .. box.lower[1] + box.size[1] - 1,
                y \in box.lower[2] .. box.lower[2] + box.size[2] - 1}

(***************************************************************************)
(* Every cell of the boxes is in one part, and every part is in the list   *)
(* of one process, the one everybody takes for its owner.  A part that no  *)
(* process, or two, would put into the level loses or doubles the overlaps *)
(* found there.                                                            *)
(***************************************************************************)
EachCellOwned ==
    \A k \in DOMAIN Parted :
        LET p == Parted[k]
        IN  /\ \A cell \in CellsOf(p.box) :
                   \E i \in Indices(p) :
                       {j \in Indices(p) : Covers(partOf(p, j), cell)} = {i}
            /\ \A i \in Indices(p) :
                   {r \in 0 .. setup.ranks - 1 : i \in PartsOfRank(Parted, r)}
                       = {ownerOf(p.ranks, i)}

\* Boxes to look for: of one or three cells each way, some over the edge.
Queries(box) ==
    {[lower |-> <<cell[1] - w, cell[2] - h>>, upper |-> cell] :
        cell \in CellsOf(box), w \in {0, 2}, h \in {0, 2}}
      \cup
    {[lower |-> cell, upper |-> <<cell[1] + 2, cell[2] + 2>>] : cell \in CellsOf(box)}

Overlap(a, b) == \A d \in Dims : a.lower[d] <= b.upper[d] /\ b.lower[d] <= a.upper[d]

(***************************************************************************)
(* What AssumedPartition.h says of findOverlaps(): it finds the parts that *)
(* overlap a given box (here, one that overlaps the partitioned box).  The *)
(* box levels of a hierarchy are connected through the parts found here.   *)
(***************************************************************************)
OverlapsFound ==
    \A k \in DOMAIN Parted :
        LET p == Parted[k]
        IN  \A query \in Queries(p.box) :
                findOverlaps(p, query) = {i \in Indices(p) : Overlap(partOf(p, i), query)}

=============================================================================
