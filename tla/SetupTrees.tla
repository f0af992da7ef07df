------------------------------ MODULE SetupTrees ------------------------------
(***************************************************************************)
(* The trees processes set up for themselves, those of communication       *)
(* groups and rank trees, and how what they have got is to fit together.   *)
(***************************************************************************)
EXTENDS CommGroupTree, RankTrees

VARIABLES
    setup,      \* what is set up, and its arguments
    known       \* what each process knows of it

-----------------------------------------------------------------------------
(* The two kinds of tree, alike: nodes, slots, the child in a slot.        *)

Members ==
    CASE setup.of = "group"     -> 0 .. setup.size - 1
      [] setup.of = "rank tree" -> setup.first .. setup.last
      [] OTHER                  -> {}

Root ==
    IF setup.of = "group" THEN setup.root
    ELSE RootRank(setup.kind, setup.first, setup.last)

Degree ==
    CASE setup.of = "group"     -> setup.nchild
      [] setup.of = "rank tree" ->
            IF setup.kind.class = "breadth-first" THEN setup.kind.option ELSE 2

Child(i, c) == IF setup.of = "group" THEN known[i].child[c] ELSE ChildRank(known[i], c + 1)

(***************************************************************************)
(* Parents and children agree: every process but the root is in one slot   *)
(* of its parent, the one it thinks it is in, and of nobody else, and the  *)
(* root of nobody.  Otherwise one would send to, or wait for, a process    *)
(* that does not know of it.                                               *)
(***************************************************************************)
LinksAgree ==
    \A j \in Members :
        LET places == {p \in Members \X (0 .. Degree - 1) : Child(p[1], p[2]) = j}
        IN  IF j = Root THEN places = {} /\ known[j].parent = Invalid
            ELSE \E c \in 0 .. Degree - 1 :
                    /\ places = {<<known[j].parent, c>>}
                    /\ setup.of = "rank tree" => known[j].childNumber = c

\* The processes above i, i included.
Ancestors(i) ==
    LET up[k \in Nat] ==
            IF k = 0 THEN i
            ELSE IF up[k - 1] = Invalid THEN Invalid ELSE known[up[k - 1]].parent
    IN  {up[k] : k \in 0 .. Cardinality(Members)} \ {Invalid}

Below(i) == {j \in Members : i \in Ancestors(j)}

(***************************************************************************)
(* Every process is below the root.  In a rank tree it is no deeper than   *)
(* in a balanced one.  In a group the size of a branch, from which the     *)
(* receiver of a gather takes room and offset, is the number of processes  *)
(* in it; the sender adds up its own branches.                             *)
(***************************************************************************)
BranchesFit ==
    LET filled[d \in Nat] == IF d = 0 THEN 0 ELSE 1 + Degree * filled[d - 1]
    IN  \A i \in Members :
            /\ Root \in Ancestors(i)
            /\ setup.of = "rank tree" =>
                   filled[Cardinality(Ancestors(i)) - 1] < Cardinality(Members)
            /\ setup.of = "group" =>
                   \A c \in Slots(Degree) :
                       known[i].branch[c] =
                           IF Child(i, c) = Invalid THEN 0
                           ELSE Cardinality(Below(Child(i, c)))

=============================================================================
