-------------------------- MODULE MCAsyncCommGroup --------------------------
(* Instances of AsyncCommGroup for TLC. *)
EXTENDS AsyncCommGroup

Op(kind, ranks, root, n, blocking, sizes) ==
    [kind |-> kind, ranks |-> ranks, root |-> root, nchild |-> n,
     blocking |-> blocking, sizes |-> sizes]

Ones(n) == [i \in 1 .. n |-> 1]

\* Two operations of three processes, the root moving on: any two kinds, a
\* chain or a root with two children; one direction with sends that block.
Full(kind, root, n, blocking) == Op(kind, <<0, 1, 2>>, root, n, blocking, Ones(3))

PairScripts ==
    {<<Full(o[1], 0, 2, FALSE), Full(o[2], 1, 2, FALSE)>> :
        o \in {x \in Kinds \X Kinds : x[1] # x[2]}}
      \cup {<<Full(k, 0, 1, FALSE), Full(k, 1, 1, FALSE)>> : k \in Kinds}
      \cup {<<Full(k, 1, n, TRUE), Full("sum", 0, n, TRUE)>> :
                k \in {"bcast", "gather"}, n \in {1, 2}}

\* Four processes in one operation, in an order that is not that of the ranks.
FourScripts ==
    {<<Op(k, <<2, 0, 3, 1>>, 3, 2, FALSE, [i \in 1 .. 4 |-> 2])>> : k \in Kinds}

\* A group, then those of it that drop out, as in the Berger-Rigoutsos node;
\* the root of a broadcast has less than the others have room for.
DropoutScripts ==
    {<<Op("sum", <<0, 1, 2>>, 0, n, FALSE, Ones(3)),
       Op("bcast", <<2, 0>>, r, n, FALSE, IF r = 0 THEN <<1, 2>> ELSE <<2, 1>>)>> :
        n \in {1, 2}, r \in {0, 1}}

AllScripts == PairScripts \cup DropoutScripts \cup FourScripts

=============================================================================
