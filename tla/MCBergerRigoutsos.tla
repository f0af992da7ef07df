--------------------------- MODULE MCBergerRigoutsos ---------------------------
(***************************************************************************)
(* Instances of BergerRigoutsos for TLC: three processes and two root      *)
(* boxes, the first of which is split once or twice.                       *)
(***************************************************************************)
EXTENDS BergerRigoutsos, TLC

MCNodes == {<<1>>, <<1, 1>>, <<1, 2>>, <<1, 1, 1>>, <<1, 1, 2>>, <<2>>}

Mode(sync, single_owner, buffered, prompt) ==
    [sync |-> sync, single_owner |-> single_owner, buffered |-> buffered, prompt |-> prompt]

\* A fast network, a late one, a slow one, and synchronous advance.
Fast == Mode(FALSE, FALSE, TRUE, TRUE)
Late == Mode(FALSE, FALSE, TRUE, FALSE)
Slow == Mode(FALSE, TRUE, FALSE, FALSE)
Sync == Mode(TRUE, FALSE, FALSE, FALSE)

(***************************************************************************)
(* Who overlaps the halves, and what is split and joined again: the left   *)
(* half is split too in the last, and its halves recombined.               *)
(***************************************************************************)
Boxes(split, small_gain, untagged, l, r, ll, lr) ==
    [split      |-> split,
     small_gain |-> small_gain,
     untagged   |-> untagged,
     overlap    |-> [n \in MCNodes |->
                        CASE n = <<1, 1>>    -> l
                          [] n = <<1, 2>>    -> r
                          [] n = <<1, 1, 1>> -> ll
                          [] n = <<1, 1, 2>> -> lr
                          [] OTHER           -> Ranks]]

Shallow == {Boxes({<<1>>}, {}, {}, {1}, {1, 2}, {0}, {0}),
            Boxes({<<1>>}, {<<1>>}, {<<2>>}, {0, 1}, {1, 2}, {0}, {0}),
            Boxes({<<1>>}, {<<1>>}, {}, {1, 2}, {0}, {0}, {0})}

Deep == {Boxes({<<1>>, <<1, 1>>}, {<<1, 1>>}, {<<2>>}, {0, 1}, {1}, {1}, {0, 1})}

DeepInputs == {b @@ m : b \in Deep, m \in {Fast, Sync}}

MCInputs == DeepInputs \cup {b @@ m : b \in Shallow, m \in {Fast, Late, Slow, Sync}}

=============================================================================
