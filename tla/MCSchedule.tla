----------------------------- MODULE MCSchedule -----------------------------
(* Instances of Schedule for TLC. *)
EXTENDS Schedule

\* Only the Peers some link needs.
MCEnds ==
    LET links == UNION {UNION {P[k] : k \in DOMAIN P} : P \in Plans}
    IN  {<<l.src, l.dst, "send">> : l \in links}
          \cup {<<l.dst, l.src, "recv">> : l \in links}

MCPeerOf ==
    [e \in MCEnds |-> <<e[2], e[1], IF e[3] = "send" THEN "recv" ELSE "send">>]

Link(s, d, n) == [src |-> s, dst |-> d, size |-> n, known |-> FALSE, excess |-> 0]

Known(s, d, n, x) == [src |-> s, dst |-> d, size |-> n, known |-> TRUE, excess |-> x]

\* One process sends to two; one receives from two.
FanOut == {Link(1, 0, 1), Link(1, 2, 1)}

FanIn == {Link(0, 2, 1), Known(1, 2, 3, 1)}

\* Two that wait for each other (one message in two chunks), three that do.
Pair == {Link(0, 1, 3), Link(1, 0, 1)}

Cycle == {Known(0, 1, 1, 0), Known(1, 2, 1, 0), Known(2, 0, 1, 0)}

\* Different and equal links in successive calls; waits in a circle.
MCPlans == {<<FanOut, FanIn>>, <<FanIn, FanIn>>, <<Pair>>, <<Cycle>>}

=============================================================================
