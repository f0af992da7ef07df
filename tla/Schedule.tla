------------------------------ MODULE Schedule ------------------------------
(***************************************************************************)
(* tbox::Schedule: the processes of a communicator exchange data along the *)
(* links of a schedule, again and again.  Each communicate() of a process  *)
(* allocates one AsyncCommPeer per process it receives from and one per    *)
(* process it sends to, posts the receives, posts the sends, copies local  *)
(* data, and then either unpacks messages as their receives complete or    *)
(* completes the receives in the order of the senders' ranks.              *)
(*                                                                         *)
(* The transactions of a link are one message here, of the size they pack  *)
(* to: both processes build their lists from the same transactions.  The   *)
(* stage of a process is the queue of its completed Peers and the waits on *)
(* their requests; that an index in AsyncCommStage's queue always stands   *)
(* for the Peer that finished is checked there.                            *)
(***************************************************************************)
EXTENDS AsyncCommPeer, FiniteSetsExt, SequencesExt

CONSTANTS
    Ranks,          \* processes of the communicator, numbers
    Plans,          \* sequences of sets of links: a set for each call
    FirstLength,    \* d_first_message_length
    Orders          \* values of d_unpack_in_deterministic_order

(***************************************************************************)
(* A link is a non-empty list of transactions from src to dst.  When each  *)
(* of them can estimate its incoming message, known is TRUE; the receiver  *)
(* may overestimate the size by excess.                                    *)
(***************************************************************************)
Links == [src : Ranks, dst : Ranks, size : Nat, known : BOOLEAN, excess : Nat]

ASSUME ScheduleAssumption ==
    /\ Ranks \subseteq Nat /\ IsFiniteSet(Ranks)
    /\ Ends \subseteq Ranks \X Ranks \X {"send", "recv"}
    /\ \A e \in Ends :
           PeerOf[e] = <<e[2], e[1], IF e[3] = "send" THEN "recv" ELSE "send">>
    /\ Plans \subseteq Seq(SUBSET Links)
    /\ \A P \in Plans : \A k \in DOMAIN P : \A l, m \in P[k] :
           /\ l.src # l.dst
           /\ <<l.src, l.dst, "send">> \in Ends
           /\ l.src = m.src /\ l.dst = m.dst => l = m
    /\ FirstLength \in Nat \ {0}
    /\ Orders \subseteq BOOLEAN

VARIABLES
    plan,       \* the links of each call of communicate()
    inOrder,    \* d_unpack_in_deterministic_order
    epoch,      \* calls a process has begun
    pc,         \* where a process is in communicate()
    order,      \* ends it has still to begin, or to complete in order
    checking,   \* ends advanceSome() has still to check
    queue,      \* the stage's completion queue
    unpacked    \* what a process has copied or unpacked in this call

rankVars == <<plan, inOrder, epoch, pc, order, checking, queue, unpacked>>

vars == <<peerVars, rankVars>>

Phases == {"idle", "begin", "finalize"}

\* Those of call k.
LinksIn(r, k) == {l \in plan[k] : l.dst = r}

LinksOut(r, k) == {l \in plan[k] : l.src = r}

\* The objects in d_coms: those of the receives, then those of the sends.
ComsOf(r, k) ==
    {<<r, l.src, "recv">> : l \in LinksIn(r, k)}
      \cup {<<r, l.dst, "send">> : l \in LinksOut(r, k)}

Coms(r) == ComsOf(r, epoch[r])

LinkOf(e) ==
    CHOOSE l \in plan[epoch[e[1]]] :
        IF e[3] = "recv" THEN l.src = e[2] /\ l.dst = e[1]
        ELSE l.src = e[1] /\ l.dst = e[2]

Ascending(S) ==
    CHOOSE s \in SetToSeqs(S) : \A i, j \in DOMAIN s : i < j => s[i] < s[j]

Descending(S) == Reverse(Ascending(S))

Toward(r, kind, ranks) == [i \in DOMAIN ranks |-> <<r, ranks[i], kind>>]

(***************************************************************************)
(* Receives are posted from the highest rank below the process downwards,  *)
(* sends from the lowest rank above it upwards, both going on at the       *)
(* opposite end of the ranks.                                              *)
(***************************************************************************)
RecvOrder(r, k) ==
    LET S == {l.src : l \in LinksIn(r, k)}
    IN  Toward(r, "recv", Descending({p \in S : p < r}) \o Descending({p \in S : p > r}))

SendOrder(r, k) ==
    LET S == {l.dst : l \in LinksOut(r, k)}
    IN  Toward(r, "send", Ascending({p \in S : p > r}) \o Ascending({p \in S : p < r}))

\* The order in which receives are completed, when there is one.
ByRank(r) == Toward(r, "recv", Ascending({l.src : l \in LinksIn(r, epoch[r])}))

Push(q, e) == IF Contains(q, e) THEN q ELSE Append(q, e)

Init ==
    /\ PeerInit
    /\ plan \in Plans
    /\ inOrder \in Orders
    /\ epoch = [r \in Ranks |-> 0]
    /\ pc = [r \in Ranks |-> "idle"]
    /\ order = [r \in Ranks |-> <<>>]
    /\ checking = [r \in Ranks |-> {}]
    /\ queue = [r \in Ranks |-> <<>>]
    /\ unpacked = [r \in Ranks |-> <<>>]

-----------------------------------------------------------------------------
(* beginCommunication().                                                   *)

(***************************************************************************)
(* allocateCommunicationObjects().                                         *)
(***************************************************************************)
Allocate(r) ==
    /\ pc[r] = "idle"
    /\ epoch[r] < Len(plan)
    /\ LET k == epoch[r] + 1
       IN  /\ epoch' = [epoch EXCEPT ![r] = k]
           /\ end' = [e \in Ends |->
                        IF e \in ComsOf(r, k) THEN limitFirstDataLength(NewEnd, FirstLength)
                        ELSE end[e]]
           /\ order' = [order EXCEPT ![r] = RecvOrder(r, k) \o SendOrder(r, k)]
    /\ pc' = [pc EXCEPT ![r] = "begin"]
    /\ unpacked' = [unpacked EXCEPT ![r] = <<>>]
    /\ UNCHANGED <<chan, sent, got, plan, inOrder, checking, queue>>

\* No Peer of r is in one of its check methods.
Outside(r) == \A e \in Ends : e[1] = r => end[e].at = "out"

(***************************************************************************)
(* The first data length both processes of a link derive, each by itself.  *)
(***************************************************************************)
\* Variant: the receiver limits the first message even when it is a guess.
RecvLimit_Always(l) == l.size + l.excess

RecvLimit(l) == IF l.known THEN l.size + l.excess ELSE FirstLength

SendLimit(l) == IF l.known THEN l.size ELSE FirstLength

(***************************************************************************)
(* One turn of the loop of postReceives() or, after it, postSends().       *)
(***************************************************************************)
Post(r) ==
    LET e == Head(order[r])
        l == LinkOf(e)
    IN  /\ pc[r] = "begin"
        /\ Outside(r)
        /\ order[r] # <<>>
        /\ IF e[3] = "recv"
           THEN beginRecv(e, limitFirstDataLength(end[e], RecvLimit(l)))
           ELSE beginSend(e, limitFirstDataLength(end[e], SendLimit(l)), l.size)
        /\ order' = [order EXCEPT ![r] = Tail(@)]
        /\ UNCHANGED <<plan, inOrder, epoch, pc, checking, queue, unpacked>>

(***************************************************************************)
(* Everything is posted; finalizeCommunication() copies the local data (r  *)
(* itself in unpacked) and begins to process messages: the receives, by    *)
(* rank, when they are to be completed in order.                           *)
(***************************************************************************)
performLocalCopies(r) ==
    /\ pc[r] = "begin"
    /\ Outside(r)
    /\ order[r] = <<>>
    /\ unpacked' = [unpacked EXCEPT ![r] = <<[from |-> r, data |-> <<>>]>>]
    /\ pc' = [pc EXCEPT ![r] = "finalize"]
    /\ order' = [order EXCEPT ![r] = IF inOrder THEN ByRank(r) ELSE <<>>]
    /\ UNCHANGED <<peerVars, plan, inOrder, epoch, checking, queue>>

-----------------------------------------------------------------------------
(* The check methods of the Peers, called while posting and by the stage.  *)

(***************************************************************************)
(* Whoever called it pushes a Peer that is done: beginCommunication(), or  *)
(* advanceSome(); completeCurrentOperation() does not.                     *)
(***************************************************************************)
\* Variant: an operation that is over when it begins is not pushed.
Pushes_NotAtBegin(r) == pc[r] = "finalize" /\ order[r] = <<>>

Pushes(r) == pc[r] = "begin" \/ order[r] = <<>>

Check(r) ==
    /\ pc[r] # "idle"
    /\ \E e \in Coms(r) :
          /\ CheckStep(e)
          /\ queue' = [queue EXCEPT ![r] =
                         IF end'[e].at = "out" /\ end'[e].next = "none" /\ Pushes(r)
                         THEN Push(@, e) ELSE @]
    /\ UNCHANGED <<plan, inOrder, epoch, pc, order, checking, unpacked>>

-----------------------------------------------------------------------------
(* finalizeCommunication().                                                *)

Pending(r) == {x \in Coms(r) \X Chunks : end[x[1]].req[x[2]] # "null"}

ArrivedAt(r) == {x \in Coms(r) \X Chunks : x[2] \in Arrived(x[1])}

(***************************************************************************)
(* In the loop that calls advanceSome(), by itself when nothing is queued, *)
(* or in advanceAll() after the receives that are completed in order.      *)
(***************************************************************************)
Advancing(r) ==
    /\ pc[r] = "finalize"
    /\ order[r] = <<>>
    /\ Outside(r)
    /\ checking[r] = {}
    /\ inOrder \/ queue[r] = <<>>

(***************************************************************************)
(* MPI_Waitsome returns S; every Peer with a request in S is then checked. *)
(***************************************************************************)
WaitsomeReturns(r) ==
    /\ Advancing(r)
    /\ \E S \in (SUBSET ArrivedAt(r)) \ {{}} :
          /\ end' = [e \in Ends |->
                       [end[e] EXCEPT !.req =
                           [c \in Chunks |-> IF <<e, c>> \in S THEN "null" ELSE @[c]]]]
          /\ checking' = [checking EXCEPT ![r] = {x[1] : x \in S}]
    /\ UNCHANGED <<chan, sent, got, plan, inOrder, epoch, pc, order, queue, unpacked>>

CheckNext(r) ==
    \E e \in checking[r] :
        /\ Outside(r)
        /\ proceedToNextWait(e, {})
        /\ checking' = [checking EXCEPT ![r] = @ \ {e}]
        /\ UNCHANGED <<plan, inOrder, epoch, pc, order, queue, unpacked>>

\* getRecvSize() items at getRecvData(), unpacked; then clearRecvData().
Unpack(r, e) ==
    /\ unpacked' = [unpacked EXCEPT ![r] =
                      Append(@, [from |-> e[2],
                                 data |-> Items(end[e].data, end[e].full)])]
    /\ clearRecvData(e)

\* The Peer at the head of the queue; a send needs no further action.
PopCompleted(r) ==
    LET e == Head(queue[r])
    IN  /\ pc[r] = "finalize"
        /\ ~inOrder
        /\ Outside(r)
        /\ checking[r] = {}
        /\ queue[r] # <<>>
        /\ queue' = [queue EXCEPT ![r] = Tail(@)]
        /\ IF e[3] = "recv" THEN Unpack(r, e) ELSE UNCHANGED <<end, unpacked>>
        /\ UNCHANGED <<chan, sent, got, plan, inOrder, epoch, pc, order, checking>>

\* Deterministic order: wait for the receive of the next sender.
CompleteNext(r) ==
    /\ pc[r] = "finalize"
    /\ order[r] # <<>>
    /\ WaitallReturns(Head(order[r]))
    /\ UNCHANGED rankVars

\* q without e, which is in it once at most.
Yanked(q, e) ==
    IF Contains(q, e) THEN RemoveAt(q, CHOOSE i \in DOMAIN q : q[i] = e) ELSE q

UnpackNext(r) ==
    LET e == Head(order[r])
    IN  /\ pc[r] = "finalize"
        /\ Outside(r)
        /\ order[r] # <<>>
        /\ isDone(e)
        /\ queue' = [queue EXCEPT ![r] = Yanked(@, e)]
        /\ Unpack(r, e)
        /\ order' = [order EXCEPT ![r] = Tail(@)]
        /\ UNCHANGED <<chan, sent, got, plan, inOrder, epoch, pc, checking>>

(***************************************************************************)
(* The loop ends when nothing is pending (and, as they come, nothing is    *)
(* queued).  What is queued after advanceAll() is popped and dropped.      *)
(* deallocateCommunicationObjects() destroys the Peers.                    *)
(***************************************************************************)
Through(r) == Pending(r) = {}

\* Variant: advanceSome() reports a completed Peer when nothing was pending.
finalizeEnds_Spin(r) == Advancing(r) /\ Through(r) /\ UNCHANGED vars

finalizeEnds(r) ==
    /\ Advancing(r)
    /\ Through(r)
    /\ pc' = [pc EXCEPT ![r] = "idle"]
    /\ queue' = [queue EXCEPT ![r] = <<>>]
    /\ end' = [e \in Ends |-> IF e \in Coms(r) THEN NewEnd ELSE end[e]]
    /\ UNCHANGED <<chan, sent, got, plan, inOrder, epoch, order, checking, unpacked>>

-----------------------------------------------------------------------------
RankStep(r) ==
    \/ Allocate(r) \/ Post(r) \/ performLocalCopies(r) \/ Check(r)
    \/ WaitsomeReturns(r) \/ CheckNext(r) \/ PopCompleted(r)
    \/ CompleteNext(r) \/ UnpackNext(r) \/ finalizeEnds(r)

Network == MPIStep /\ UNCHANGED rankVars

\* Every process has returned from its last call.
Over ==
    /\ \A r \in Ranks : pc[r] = "idle" /\ epoch[r] = Len(plan)
    /\ UNCHANGED vars

Next == Network \/ Over \/ \E r \in Ranks : RankStep(r)

(***************************************************************************)
(* As long as some process can take a step, or MPI can move a message or   *)
(* complete a send whose message has been received, some of that happens.  *)
(***************************************************************************)
Progress == (\E r \in Ranks : RankStep(r)) \/ (MPIOwes /\ UNCHANGED rankVars)

Fairness == WF_vars(Progress)

Spec == Init /\ [][Next]_vars /\ Fairness

-----------------------------------------------------------------------------
TypeOK ==
    /\ PeersTypeOK
    /\ plan \in Plans
    /\ inOrder \in Orders
    /\ epoch \in [Ranks -> 0 .. Len(plan)]
    /\ pc \in [Ranks -> Phases]
    /\ order \in [Ranks -> Seq(Ends)]
    /\ checking \in [Ranks -> SUBSET Ends]
    /\ queue \in [Ranks -> Seq(Ends)]
    /\ unpacked \in [Ranks -> Seq([from : Ranks, data : Payload])]

\* What the message of a link in call k carries: it is the n-th of its link.
Carried(l, k) ==
    LET Same(j) == \E m \in plan[j] : m.src = l.src /\ m.dst = l.dst
    IN  [from |-> l.src, data |-> Data(Cardinality({j \in 1 .. k : Same(j)}), l.size)]

(***************************************************************************)
(* A process that returns from communicate() has copied its local data     *)
(* first, and unpacked from every link of this call, and no other call,    *)
(* exactly the message that was packed for it, once; in the order of the   *)
(* senders when the order is to be deterministic, whatever order the       *)
(* messages came in.                                                       *)
(***************************************************************************)
UnpackedOnce ==
    \A r \in Ranks : pc[r] = "idle" /\ epoch[r] > 0 =>
        LET u == unpacked[r]
        IN  /\ Len(u) = Cardinality(LinksIn(r, epoch[r])) + 1
            /\ Head(u).from = r
            /\ ToSet(Tail(u)) = {Carried(l, epoch[r]) : l \in LinksIn(r, epoch[r])}
            /\ inOrder => \A i, j \in 2 .. Len(u) : i < j => u[i].from < u[j].from

(***************************************************************************)
(* In every state: the receives that were posted with a guess of the size  *)
(* are long enough for what comes, and what has come went to its place.    *)
(***************************************************************************)
DataArrives == TypeOK /\ NoTruncation /\ UnpackedOnce

(***************************************************************************)
(* When the processes have all returned from the same call nothing is left *)
(* in MPI: what communicate() checks, between barriers, before and after.  *)
(***************************************************************************)
NothingErrant ==
    (\A r, p \in Ranks : pc[r] = "idle" /\ epoch[r] = epoch[p]) =>
        \A e \in Ends, c \in Chunks : chan[e][c] = <<>>

(***************************************************************************)
(* Every process returns from every call of communicate(): none waits for  *)
(* a message that is posted only after somebody has waited for it, though  *)
(* sends may complete only when they are received.                         *)
(***************************************************************************)
CommunicateReturns == <>(\A r \in Ranks : pc[r] = "idle" /\ epoch[r] = Len(plan))

=============================================================================
