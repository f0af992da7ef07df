------------------------- MODULE ConnectorTranspose -------------------------
(***************************************************************************)
(* hier::Connector::computeTransposeOf(): every process knows the          *)
(* neighbors of its own base boxes and has to learn the neighbors its head *)
(* boxes get when base and head change places.  Owners of base boxes send  *)
(* the edges to the owners of the head boxes, who acknowledge them.  No    *)
(* process knows how many edge messages it will get: termination messages  *)
(* go up a rank tree, from processes below which every edge message is     *)
(* acknowledged, and down again, to tell that none is left in transit.     *)
(*                                                                         *)
(* OverlapConnectorAlgorithm transposes two Connectors in a row, with the  *)
(* same tag; a call begins and ends with a check, between two barriers,    *)
(* that no message is waiting.                                             *)
(***************************************************************************)
EXTENDS Integers, Sequences, FiniteSets

CONSTANTS
    Ranks,          \* processes of the communicator
    Root,           \* the rank tree, as CenteredRankTree sets it up
    Parent,
    Children,
    Inputs          \* sequences of Connectors: one for each call

Boxes == [owner : Ranks, id : Nat]

\* An edge from a base box to a neighbor, a periodic image unless shift is 0.
Edges == [base : Boxes, head : Boxes, shift : Int]

ASSUME TransposeAssumption ==
    /\ IsFiniteSet(Ranks)
    /\ Root \in Ranks
    /\ Parent \in [Ranks \ {Root} -> Ranks]
    /\ Children \in [Ranks -> SUBSET Ranks]
    /\ \A r \in Ranks : Children[r] = {q \in Ranks \ {Root} : Parent[q] = r}
    /\ \A S \in SUBSET Ranks : Root \in S /\ (\A r \in S : Children[r] \subseteq S) => S = Ranks
    /\ Inputs \subseteq Seq(SUBSET Edges)

VARIABLES
    others,             \* the Connector each call transposes
    at,                 \* the place of a process in its calls
    transposes,         \* what the processes know of each transpose
    ack_needed,         \* processes that have not acknowledged edges
    child_term_needed,  \* upward messages still to come
    send_upward,        \* send_upward_term_msg
    chan                \* messages sent by one process and not received by another

vars == <<others, at, transposes, ack_needed, child_term_needed, send_upward, chan>>

\* A call: hasReceivableMessage(), the exchange, and hasReceivableMessage().
Stages == << "barrier", "probe", "barrier",
             "send", "receive", "waitall",
             "barrier", "probe", "barrier" >>

End == Len(Stages) * Len(others)

StageOf(r) == IF at[r] < End THEN Stages[(at[r] % Len(Stages)) + 1] ELSE "done"

Call(r) == (at[r] \div Len(Stages)) + 1

Pairs == {p \in Ranks \X Ranks : p[1] # p[2]}

TypesOfMessage == {"edges", "ack", "upward", "downward"}

Init ==
    /\ others \in Inputs
    /\ at = [r \in Ranks |-> 0]
    /\ transposes = [k \in DOMAIN others |-> [r \in Ranks |-> {}]]
    /\ ack_needed = [r \in Ranks |-> {}]
    /\ child_term_needed = [r \in Ranks |-> 0]
    /\ send_upward = [r \in Ranks |-> FALSE]
    /\ chan = [p \in Pairs |-> <<>>]

-----------------------------------------------------------------------------
(***************************************************************************)
(* reorderRelationshipsByHead(): base and head change places; the image    *)
(* goes to the base, on the opposite side.                                 *)
(***************************************************************************)
Transposed(e) == [base |-> e.head, head |-> e.base, shift |-> -e.shift]

\* The edges process r has for process q in call k.
EdgesFor(k, r, q) ==
    {Transposed(e) : e \in {f \in others[k] : f.base.owner = r /\ f.head.owner = q}}

Message(type, edges) == [type |-> type, edges |-> edges]

\* Isend of a termination message or an acknowledgement.
Posted(ch, r, receivers, type) ==
    [p \in Pairs |->
        IF p[1] = r /\ p[2] \in receivers THEN Append(ch[p], Message(type, {})) ELSE ch[p]]

\* Variant: processes do not wait for each other.
AllEntered_Always(r) == TRUE

AllEntered(r) == \A q \in Ranks : at[q] >= at[r]

Advance(r, steps) == at' = [at EXCEPT ![r] = @ + steps]

Barrier(r) ==
    /\ StageOf(r) = "barrier"
    /\ AllEntered(r)
    /\ Advance(r, 1)
    /\ UNCHANGED <<others, transposes, ack_needed, child_term_needed, send_upward, chan>>

\* Iprobe: a message that is waiting here ends the program, see NothingUnexpected.
Probe(r) ==
    /\ StageOf(r) = "probe"
    /\ Advance(r, 1)
    /\ UNCHANGED <<others, transposes, ack_needed, child_term_needed, send_upward, chan>>

-----------------------------------------------------------------------------
(***************************************************************************)
(* A termination message is due: edges sent are acknowledged, the branches *)
(* below have finished, and it has not been sent.                          *)
(***************************************************************************)
\* Variant: acknowledgements are not waited for.
TermDue_Unacknowledged(acks, terms, flag) == terms = 0 /\ flag

TermDue(acks, terms, flag) == acks = {} /\ terms = 0 /\ flag

\* Variant: a leaf waits for a message before it reports.
ReportsFirst_Never(r, acks) == FALSE

ReportsFirst(r, acks) ==
    TermDue(acks, Cardinality(Children[r]), Cardinality(Ranks) > 1)

(***************************************************************************)
(* Edges of local head boxes are stored, the others sent, in one message   *)
(* to each owner.  A leaf that sends none reports at once.  A single       *)
(* process does not enter the loop.                                        *)
(***************************************************************************)
SendEdges(r) ==
    LET k == Call(r)
        receivers == {q \in Ranks \ {r} : EdgesFor(k, r, q) # {}}
        sent == [p \in Pairs |->
                    IF p[1] = r /\ p[2] \in receivers
                    THEN Append(chan[p], Message("edges", EdgesFor(k, r, p[2])))
                    ELSE chan[p]]
    IN  /\ StageOf(r) = "send"
        /\ transposes' = [transposes EXCEPT ![k][r] = EdgesFor(k, r, r)]
        /\ ack_needed' = [ack_needed EXCEPT ![r] = receivers]
        /\ child_term_needed' = [child_term_needed EXCEPT ![r] = Cardinality(Children[r])]
        /\ send_upward' = [send_upward EXCEPT
                              ![r] = Cardinality(Ranks) > 1 /\ ~ReportsFirst(r, receivers)]
        /\ chan' = IF ReportsFirst(r, receivers)
                   THEN Posted(sent, r, {Parent[r]}, "upward") ELSE sent
        /\ Advance(r, IF Cardinality(Ranks) = 1 THEN 2 ELSE 1)
        /\ UNCHANGED others

(***************************************************************************)
(* The end of an iteration, with the acknowledgements and upward messages  *)
(* that are now needed and the channels as the message has left them.      *)
(***************************************************************************)
EndIteration(r, acks, terms, ch, terminated) ==
    LET due == TermDue(acks, terms, send_upward[r])
    IN  /\ ack_needed' = [ack_needed EXCEPT ![r] = acks]
        /\ child_term_needed' = [child_term_needed EXCEPT ![r] = terms]
        /\ send_upward' = [send_upward EXCEPT ![r] = @ /\ ~due]
        /\ chan' = CASE ~due -> ch
                     [] due /\ r = Root -> Posted(ch, r, Children[r], "downward")
                     [] due /\ r # Root -> Posted(ch, r, {Parent[r]}, "upward")
        /\ Advance(r, IF terminated \/ (due /\ r = Root) THEN 1 ELSE 0)
        /\ UNCHANGED others

\* Probe(MPI_ANY_SOURCE) finds the next message of process q.
Receives(r, q, type) ==
    /\ StageOf(r) = "receive"
    /\ chan[<<q, r>>] # <<>>
    /\ Head(chan[<<q, r>>]).type = type

Without(r, q) == [chan EXCEPT ![<<q, r>>] = Tail(@)]

ReceiveEdges(r, q) ==
    /\ Receives(r, q, "edges")
    /\ transposes' = [transposes EXCEPT ![Call(r)][r] = @ \cup Head(chan[<<q, r>>]).edges]
    /\ EndIteration(r, ack_needed[r], child_term_needed[r],
                    Posted(Without(r, q), r, {q}, "ack"), FALSE)

ReceiveAck(r, q) ==
    /\ Receives(r, q, "ack")
    /\ EndIteration(r, ack_needed[r] \ {q}, child_term_needed[r], Without(r, q), FALSE)
    /\ UNCHANGED transposes

ReceiveUpward(r, q) ==
    /\ Receives(r, q, "upward")
    /\ EndIteration(r, ack_needed[r], child_term_needed[r] - 1, Without(r, q), FALSE)
    /\ UNCHANGED transposes

ReceiveDownward(r, q) ==
    /\ Receives(r, q, "downward")
    /\ EndIteration(r, ack_needed[r], child_term_needed[r],
                    Posted(Without(r, q), r, Children[r], "downward"), TRUE)
    /\ UNCHANGED transposes

Receive(r) ==
    \E q \in Ranks \ {r} :
        \/ ReceiveEdges(r, q)
        \/ ReceiveAck(r, q)
        \/ ReceiveUpward(r, q)
        \/ ReceiveDownward(r, q)

\* Waitall: MPI may keep a copy of a message, or wait until it is received.
Waitall(r) ==
    /\ StageOf(r) = "waitall"
    /\ Advance(r, 1)
    /\ UNCHANGED <<others, transposes, ack_needed, child_term_needed, send_upward, chan>>

SendsReceived(r) == \A q \in Ranks \ {r} : chan[<<r, q>>] = <<>>

-----------------------------------------------------------------------------
Step(r) ==
    \/ Barrier(r)
    \/ Probe(r)
    \/ SendEdges(r)
    \/ Receive(r)
    \/ Waitall(r)

Next == \E r \in Ranks : Step(r)

(***************************************************************************)
(* Processes run, and MPI delivers.  A Waitall is only certain to return   *)
(* once the messages have been received.                                   *)
(***************************************************************************)
Progress ==
    \E r \in Ranks :
        \/ Barrier(r)
        \/ Probe(r)
        \/ SendEdges(r)
        \/ Receive(r)
        \/ Waitall(r) /\ SendsReceived(r)

Spec == Init /\ [][Next]_vars /\ WF_vars(Progress)

-----------------------------------------------------------------------------
Messages == [type : TypesOfMessage, edges : SUBSET Edges]

\* Types; no upward message is counted that is not expected.
TypeOK ==
    /\ others \in Inputs
    /\ at \in [Ranks -> 0 .. End]
    /\ transposes \in [DOMAIN others -> [Ranks -> SUBSET Edges]]
    /\ ack_needed \in [Ranks -> SUBSET Ranks]
    /\ child_term_needed \in [Ranks -> Nat]
    /\ send_upward \in [Ranks -> BOOLEAN]
    /\ chan \in [Pairs -> Seq(Messages)]

\* What process r may receive next from q, by the assertions of the loop.
Expected(r, q, type) ==
    CASE type = "edges"    -> TRUE
      [] type = "ack"      -> q \in ack_needed[r]
      [] type = "upward"   -> child_term_needed[r] > 0
      [] type = "downward" -> child_term_needed[r] = 0

(***************************************************************************)
(* No message reaches a process that does not expect it: none is waiting   *)
(* when a call begins or has ended, and the assertions of the loop hold    *)
(* for any message that may be next, of this call or another.              *)
(***************************************************************************)
NothingUnexpected ==
    \A r \in Ranks : \A q \in Ranks \ {r} : chan[<<q, r>>] # <<>> =>
        /\ StageOf(r) # "probe"
        /\ StageOf(r) = "receive" => Expected(r, q, Head(chan[<<q, r>>]).type)

\* In every state; nor is a message that was counted one too many.
CountsAgree == TypeOK /\ NothingUnexpected

\* Process r has left the loop of call k.
LeftLoop(r, k) == at[r] > (k - 1) * Len(Stages) + 4

(***************************************************************************)
(* When a process leaves the loop, every process has its part of the       *)
(* transpose and nobody's edges are in transit: the downward messages mean *)
(* what they are for, however edges, acknowledgements and termination      *)
(* messages overtake each other.                                           *)
(***************************************************************************)
StopsWhenDelivered ==
    \A r \in Ranks, k \in DOMAIN others : LeftLoop(r, k) =>
        \A q \in Ranks :
            transposes[k][q] =
                {Transposed(e) : e \in {f \in others[k] : f.head.owner = q}}

\* Every call returns on every process.
AllReturn == <>(\A r \in Ranks : StageOf(r) = "done")

=============================================================================
