----------------------------- MODULE PeerSession -----------------------------
(***************************************************************************)
(* Two AsyncCommPeer objects used as the class comment asks: each          *)
(* beginSend() is paired with a beginRecv() of the peer, in the same       *)
(* order, and either end may be the sender of each operation.  The owner   *)
(* of an end polls it, lets a stage advance it, or waits for it with       *)
(* completeCurrentOperation(); between operations it may clear or replace  *)
(* the object.                                                             *)
(***************************************************************************)
EXTENDS AsyncCommPeer

CONSTANTS
    A, B,           \* the two ends
    Rounds,         \* bound: operations of a session
    Sizes,          \* lengths of the messages
    Limits,         \* pairs of sender's and receiver's first data length
    ReuseCleared    \* TRUE: an object is used again after clearRecvData()

ASSUME SessionAssumption ==
    /\ A # B
    /\ Ends = {A, B}
    /\ PeerOf[A] = B
    /\ Rounds \in Nat
    /\ Sizes \subseteq Nat
    /\ Limits \subseteq Nat \X Nat
    /\ ReuseCleared \in BOOLEAN

VARIABLES
    script,     \* the operations both owners are going to begin
    round,      \* the operations an end has begun
    waiting     \* the end is in completeCurrentOperation()

vars == <<end, chan, sent, got, script, round, waiting>>

Operations == [from : Ends, size : Sizes, limits : Limits]

Init ==
    /\ PeerInit
    /\ script \in [1 .. Rounds -> Operations]
    /\ round = [e \in Ends |-> 0]
    /\ waiting = [e \in Ends |-> FALSE]

Sends(e, k) == script[k].from = e

LimitOf(e, k) == IF Sends(e, k) THEN script[k].limits[1] ELSE script[k].limits[2]

Idle(e) == end[e].at = "out" /\ ~waiting[e]

Clear(e) ==
    /\ Idle(e)
    /\ end[e].held
    /\ clearRecvData(e)
    /\ UNCHANGED <<chan, sent, got, script, round, waiting>>

Replace(e) ==
    /\ Idle(e)
    /\ end[e].base # "undefined" \/ (~end[e].held /\ end[e].cap > 0)
    /\ Reconstruct(e) \/ (end[e].base # "undefined" /\ initialize(e))
    /\ UNCHANGED <<chan, sent, got, script, round, waiting>>

Begin(e) ==
    LET k == round[e] + 1
        s == limitFirstDataLength(end[e], LimitOf(e, k))
    IN  /\ Idle(e)
        /\ round[e] < Rounds
        /\ ReuseCleared \/ end[e].held \/ end[e].cap = 0
        /\ IF Sends(e, k) THEN beginSend(e, s, script[k].size) ELSE beginRecv(e, s)
        /\ round' = [round EXCEPT ![e] = k]
        /\ UNCHANGED <<script, waiting>>

\* A check by the owner itself, or by a stage whose wait returned S.
Poll(e) ==
    /\ Idle(e)
    /\ \E S \in SUBSET Arrived(e) : proceedToNextWait(e, S)
    /\ UNCHANGED <<script, round, waiting>>

completeCurrentOperation(e) ==
    /\ Idle(e)
    /\ ~isDone(e)
    /\ waiting' = [waiting EXCEPT ![e] = TRUE]
    /\ UNCHANGED <<end, chan, sent, got, script, round>>

WaitLoop(e) ==
    /\ waiting[e]
    /\ end[e].at = "out"
    /\ \/ isDone(e) /\ waiting' = [waiting EXCEPT ![e] = FALSE] /\ UNCHANGED peerVars
       \/ WaitallReturns(e) /\ UNCHANGED waiting
    /\ UNCHANGED <<script, round>>

Check(e) == CheckStep(e) /\ UNCHANGED <<script, round, waiting>>

Network == MPIStep /\ UNCHANGED <<script, round, waiting>>

\* Both owners have begun and finished all operations.
Over ==
    /\ \A e \in Ends : Idle(e) /\ isDone(e) /\ round[e] = Rounds
    /\ UNCHANGED vars

EndStep(e) ==
    \/ Clear(e) \/ Replace(e) \/ Begin(e)
    \/ Poll(e) \/ completeCurrentOperation(e) \/ WaitLoop(e) \/ Check(e)

Next == Network \/ Over \/ \E e \in Ends : EndStep(e)

(***************************************************************************)
(* Owners begin their operations and keep checking on them; MPI makes      *)
(* progress.                                                               *)
(***************************************************************************)
Fairness ==
    /\ \A e \in Ends :
         /\ WF_vars(Begin(e)) /\ WF_vars(Replace(e))
         /\ WF_vars(Poll(e)) /\ WF_vars(WaitLoop(e)) /\ WF_vars(Check(e))
    /\ MPIFairness

Spec == Init /\ [][Next]_vars /\ Fairness

-----------------------------------------------------------------------------
TypeOK ==
    /\ PeersTypeOK
    /\ script \in [1 .. Rounds -> Operations]
    /\ round \in [Ends -> 0 .. Rounds]
    /\ waiting \in [Ends -> BOOLEAN]

(***************************************************************************)
(* In every state, whatever the lengths: a posted receive is long enough   *)
(* for the message it will get, the buffers hold what MPI reads and writes *)
(* there, and each chunk that comes is the one announced.                  *)
(***************************************************************************)
ChunksFit == TypeOK /\ NoTruncation /\ BuffersHold /\ ChunksInSequence

(***************************************************************************)
(* No message outlives its operation: when both ends have finished the     *)
(* same operations nothing is left in MPI for a later receive to take      *)
(* (what Schedule::communicate() looks for before and after).              *)
(***************************************************************************)
NoErrantMessage ==
    /\ DoneIsQuiet
    /\ round[A] = round[B] /\ (\A e \in Ends : isDone(e) /\ end[e].at = "out") =>
          \A e \in Ends, c \in Chunks : chan[e][c] = <<>>

(***************************************************************************)
(* The two-chunk protocol implements the exchange of whole messages.       *)
(***************************************************************************)
Fifo == INSTANCE ReliableFifo
            WITH Messages <- {Data(k, n) : k \in 1 .. Rounds, n \in Sizes}

ExchangesMessages == Fifo!Init /\ [][Fifo!Next]_<<sent, got>>

(***************************************************************************)
(* A begun operation of either end is finished, whether the owner polls or *)
(* waits, and although a send may not complete before its receive is       *)
(* posted.                                                                 *)
(***************************************************************************)
OperationsFinish == \A e \in Ends : ~isDone(e) ~> isDone(e)

=============================================================================
