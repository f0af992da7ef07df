------------------------ MODULE MCConnectorTranspose ------------------------
(***************************************************************************)
(* Instances of ConnectorTranspose for TLC, over the tree CenteredRankTree *)
(* sets up: 0 is the root, with children 2 and 4; 1 is below 2, 3 below 4. *)
(***************************************************************************)
EXTENDS ConnectorTranspose

Tree == INSTANCE RankTrees

MCRanks == 0 .. 4

MCNode == [r \in MCRanks |-> Tree!CenteredRankTree(0, 4, r, TRUE)]

MCParent == [r \in MCRanks \ {0} |-> MCNode[r].parent]

MCChildren ==
    [r \in MCRanks |->
        {Tree!ChildRank(MCNode[r], c) : c \in 1 .. Tree!NumberOfChildren(MCNode[r])}]

Box(r) == [owner |-> r, id |-> 0]

Edge(b, h, s) == [base |-> Box(b), head |-> Box(h), shift |-> s]

\* Leaves send to the root and to each other, with a periodic image.
Across == {Edge(1, 0, 0), Edge(1, 3, 1), Edge(3, 1, 0), Edge(2, 2, 0)}

\* Any edge between processes and one of a leaf or the root; then those of
\* the leaves.
MCInputs ==
    {<<{Edge(p[1], p[2], 0), Edge(q[1], q[2], 0)}, Across>> : p \in Pairs, q \in {<<3, 1>>, <<1, 0>>, <<0, 3>>}}
      \cup {<<{}, Across>>, <<Across, {Edge(0, 0, 1)}>>}

=============================================================================
