----------------------------- MODULE ReliableFifo -----------------------------
(***************************************************************************)
(* What AsyncCommPeer promises its users: whole messages, each received    *)
(* exactly once, unchanged and in the order they were sent, whatever their *)
(* lengths.  No chunk, tag or request is visible here.                     *)
(***************************************************************************)
EXTENDS Naturals, Sequences

CONSTANTS
    Ends,       \* the two sides of every connection
    PeerOf,     \* the other side
    Messages    \* what can be sent

VARIABLES
    sent,       \* the messages each end has sent
    got         \* the messages each end has received

Init ==
    /\ sent = [e \in Ends |-> <<>>]
    /\ got = [e \in Ends |-> <<>>]

Send(e, m) ==
    /\ sent' = [sent EXCEPT ![e] = Append(@, m)]
    /\ UNCHANGED got

Receive(e) ==
    LET from == sent[PeerOf[e]]
        k    == Len(got[e]) + 1
    IN  /\ k <= Len(from)
        /\ got' = [got EXCEPT ![e] = Append(@, from[k])]
        /\ UNCHANGED sent

Next == \E e \in Ends : Receive(e) \/ \E m \in Messages : Send(e, m)

Spec == Init /\ [][Next]_<<sent, got>>

=============================================================================
