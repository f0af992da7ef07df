------------------------- MODULE MCTreeLoadBalancer -------------------------
(***************************************************************************)
(* Instances of TreeLoadBalancer for TLC.                                  *)
(***************************************************************************)
EXTENDS TreeLoadBalancer

CONSTANT Unit       \* loads are multiples of it, so that averages are exact

MCRanks == 0 .. 4

Loads == {<<20, 0, 0, 0, 0>>, <<0, 0, 0, 3, 7>>, <<4, 4, 0, 0, 12>>, <<6, 0, 6, 0, 3>>}

Within(loads, group) ==
    {[load |-> [r \in MCRanks |-> Unit * l[r + 1]], group |-> group] : l \in loads}

\* Three cycles, one, two and one.
MCInputs == Within(Loads, MCRanks)

\* Balancing within a part of the processes.
MCGroupInputs == Within({<<0, 3, 0, 0, 0>>, <<0, 2, 1, 3, 0>>}, 1 .. 3)

=============================================================================
