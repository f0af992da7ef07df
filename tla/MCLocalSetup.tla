----------------------------- MODULE MCLocalSetup -----------------------------
(* Instances of LocalSetup for TLC. *)
EXTENDS LocalSetup

MCKinds == [class : {"centered", "depth-first"}, option : BOOLEAN]
             \cup [class : {"breadth-first"}, option : 1 .. 3]

\* Every kind over the ranks of a communicator, and the kinds that take a
\* range that starts elsewhere over ranks from 3.
MCSetups == MCKinds \X {0} \cup {k \in MCKinds : k.class # "breadth-first"} \X {3}

At(corner, sizes) == [i \in DOMAIN sizes |-> [lower |-> corner, size |-> sizes[i]]]

\* One box, short and long; boxes of several blocks, large, small and empty.
Sizes == { << <<5, 3>> >>, << <<2, 7>> >>, << <<1, 4>> >>, << <<4, 4>> >>,
           << <<4, 3>>, <<1, 1>>, <<0, 0>>, <<3, 5>>, <<1, 2>> >>,
           << <<1, 1>>, <<1, 2>>, <<6, 4>>, <<1, 1>>, <<2, 1>> >>,
           << <<7, 3>>, <<1, 1>>, <<1, 1>>, <<0, 0>> >> }

AtOrigin == {At(<<0, 0>>, sizes) : sizes \in Sizes}

Elsewhere == {At(<<2, -1>>, sizes) : sizes \in Sizes}

MCAverages == {<<1, 1>>, <<1, 2>>, <<3, 1>>}

NoLists == {}
=============================================================================
