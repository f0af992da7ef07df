----------------------------- MODULE GroupScript -----------------------------
(***************************************************************************)
(* The group operations that the processes of a communicator perform: each *)
(* process performs those of a script whose group it is in, in order.      *)
(***************************************************************************)
EXTENDS Integers, Sequences, FiniteSets

CONSTANTS
    Ranks,      \* processes of the communicator
    MaxChild,   \* bound: children per node
    Scripts     \* sequences of operations, one is chosen

Kinds == {"bcast", "gather", "sum"}

(***************************************************************************)
(* An operation: its kind, the ranks of its group, the index of its root,  *)
(* the children per node, whether sends block, and the size every process  *)
(* gives, by index.                                                        *)
(***************************************************************************)
Operations ==
    [kind : Kinds, ranks : Seq(Ranks), root : Nat, nchild : 1 .. MaxChild,
     blocking : BOOLEAN, sizes : Seq(Nat)]

ASSUME GroupAssumption ==
    /\ IsFiniteSet(Ranks) /\ Ranks \subseteq Nat
    /\ MaxChild \in Nat \ {0}
    /\ Scripts \subseteq Seq(Operations)
    /\ \A s \in Scripts : \A k \in DOMAIN s :
           LET o == s[k]
           IN  /\ o.root \in 0 .. Len(o.ranks) - 1
               /\ Len(o.sizes) = Len(o.ranks)
               /\ \A i, j \in DOMAIN o.ranks : o.ranks[i] = o.ranks[j] => i = j

VARIABLE script     \* the operations

Group(k) == {script[k].ranks[i] : i \in DOMAIN script[k].ranks}

GroupSize(k) == Len(script[k].ranks)

\* d_idx of p.
IndexOf(p, k) == (CHOOSE i \in DOMAIN script[k].ranks : script[k].ranks[i] = p) - 1

\* d_external_size of p.
SizeOf(p, k) == script[k].sizes[IndexOf(p, k) + 1]

\* d_root_rank.
RootOf(k) == script[k].ranks[script[k].root + 1]

\* The operation p performs after operation k.
IsNext(p, k, l) ==
    /\ l > k /\ l \in DOMAIN script /\ p \in Group(l)
    /\ \A j \in (k + 1) .. (l - 1) : p \notin Group(j)

(***************************************************************************)
(* What the process with index i puts in for operation k: numbers of which *)
(* a sum still shows each term (bound: operations and sizes up to 2).      *)
(***************************************************************************)
Input(k, i, n) == [j \in 1 .. n |-> (3 * k + j) * 10 ^ i]

=============================================================================
