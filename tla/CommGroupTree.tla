---------------------------- MODULE CommGroupTree ----------------------------
(***************************************************************************)
(* The tree of tbox::AsyncCommGroup: the processes of a group, by index,   *)
(* sit at the positions of an n-ary tree; position 0 is the root's.  Every *)
(* process computes its neighbours and the sizes of the branches below it  *)
(* for itself, from the same list of ranks.                                *)
(*                                                                         *)
(* n is d_nchild, size d_group_size, root d_root_idx.                      *)
(***************************************************************************)
EXTENDS Integers, FiniteSets, TLC

Slots(n) == 0 .. n - 1

\* Index 0 and the root's index swap places.
toPosition(root, index) ==
    CASE index = 0    -> root
      [] index = root -> 0
      [] OTHER        -> index

toIndex(root, position) ==
    CASE position = 0    -> root
      [] position = root -> 0
      [] OTHER           -> position

toChildPosition(n, pos, child) == pos * n + 1 + child

toOldest(n, pos) == pos * n + 1

toYoungest(n, pos) == (pos + 1) * n

toParent(n, pos) == (pos - 1) \div n

(***************************************************************************)
(* The processes in the branch at position pos: the positions between the  *)
(* oldest and the youngest of every generation, cut off at the group's.    *)
(***************************************************************************)
\* Variant: every generation is taken to be complete.
BranchSize_Complete(n, size, pos) ==
    LET generation[g \in Nat \X Nat] ==
            IF g[1] >= size THEN 0
            ELSE g[2] - g[1] + 1 + generation[<<toOldest(n, g[1]), toYoungest(n, g[2])>>]
    IN  generation[<<pos, pos>>]

BranchSize(n, size, pos) ==
    LET Within(y)  == IF y < size THEN y ELSE size - 1
        Younger(y) == IF y < size THEN toYoungest(n, y) ELSE y
        generation[g \in Nat \X Nat] ==
            IF g[1] >= size THEN 0
            ELSE Within(g[2]) - g[1] + 1 + generation[<<toOldest(n, g[1]), Younger(g[2])>>]
    IN  generation[<<pos, pos>>]

(***************************************************************************)
(* computeDependentData() of the process with this index: the indices of   *)
(* its parent and of the child in each slot (-1: none), and the size of    *)
(* the branch in each slot.                                                *)
(***************************************************************************)
NoIndex == -1

ParentOf(n, root, index) ==
    LET pos == toPosition(root, index)
    IN  IF pos > 0 THEN toIndex(root, toParent(n, pos)) ELSE NoIndex

ChildOf(n, size, root, index, c) ==
    LET pos == toChildPosition(n, toPosition(root, index), c)
    IN  IF pos < size THEN toIndex(root, pos) ELSE NoIndex

computeDependentData(n, size, root, index) ==
    LET pos == toPosition(root, index)
    IN  [parent |-> ParentOf(n, root, index),
         child  |-> [c \in Slots(n) |-> ChildOf(n, size, root, index, c)],
         branch |-> [c \in Slots(n) |->
                        BranchSize(n, size, toChildPosition(n, pos, c))]]

=============================================================================
