------------------------------ MODULE Collective ------------------------------
(***************************************************************************)
(* What the group communications promise, whatever tree they use: a        *)
(* process ends an operation with what the operation is to give it, and    *)
(* not before the processes have begun it whose data that takes.           *)
(***************************************************************************)
EXTENDS GroupScript

VARIABLES
    begun,      \* the last operation a process has begun
    results     \* its buffers after the operations it has ended

(***************************************************************************)
(* Those whose data process p needs in operation k, and its buffer after   *)
(* it: the root's data after a broadcast, the data of all in the order of  *)
(* the group at the root of a gather, and the sum of all at the root of a  *)
(* reduction.                                                              *)
(***************************************************************************)
Needed(p, k) ==
    IF script[k].kind = "bcast" THEN {RootOf(k)}
    ELSE IF p = RootOf(k) THEN Group(k) ELSE {p}

Own(p, k) == Input(k, IndexOf(p, k), SizeOf(p, k))

Outcome(p, k) ==
    LET n      == SizeOf(p, k)
        Of(i)  == Own(script[k].ranks[i + 1], k)
        sum[i \in 0 .. GroupSize(k)] ==
            IF i = 0 THEN [j \in 1 .. n |-> 0]
            ELSE [j \in 1 .. n |-> sum[i - 1][j] + Of(i - 1)[j]]
        all[i \in 0 .. GroupSize(k)] ==
            IF i = 0 THEN <<>> ELSE all[i - 1] \o Of(i - 1)
    IN  IF script[k].kind = "bcast"
        THEN [j \in 1 .. n |-> IF j <= SizeOf(RootOf(k), k) THEN Own(RootOf(k), k)[j] ELSE 0]
        ELSE IF p # RootOf(k) THEN Own(p, k)
        ELSE IF script[k].kind = "gather" THEN all[GroupSize(k)]
        ELSE sum[GroupSize(k)]

Init ==
    /\ begun = [p \in Ranks |-> 0]
    /\ results = [p \in Ranks |-> <<>>]

Ongoing(p) == Len(results[p]) < Cardinality({k \in 1 .. begun[p] : p \in Group(k)})

Begin(p) ==
    /\ ~Ongoing(p)
    /\ \E k \in DOMAIN script : IsNext(p, begun[p], k) /\ begun' = [begun EXCEPT ![p] = k]
    /\ UNCHANGED <<script, results>>

End(p) ==
    /\ Ongoing(p)
    /\ \A q \in Needed(p, begun[p]) : begun[q] >= begun[p]
    /\ results' = [results EXCEPT ![p] = Append(@, Outcome(p, begun[p]))]
    /\ UNCHANGED <<script, begun>>

Next == \E p \in Ranks : Begin(p) \/ End(p)

Spec == Init /\ [][Next]_<<script, begun, results>>

=============================================================================
