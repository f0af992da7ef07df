---------------------------- MODULE AsyncCommPeer ----------------------------
(***************************************************************************)
(* tbox::AsyncCommPeer: point-to-point messages of a length the receiver   *)
(* does not know.  The first chunk carries at most d_max_first_data_len    *)
(* items and the true length; the rest, if there is any, follows on a      *)
(* second tag, and the receiver asks for it once it knows the length.      *)
(*                                                                         *)
(* This module has the state of a set of Peer objects ("ends"), their      *)
(* methods and the MPI they use, as actions for the modules that use       *)
(* them.  A check method falls through the cases of one switch; each case  *)
(* is a step here, because messages arrive between them.                   *)
(*                                                                         *)
(* An item of user data is <<operation, position>>, so that a lost, mixed  *)
(* up or repeated item shows.  Lengths in the buffer are counted in        *)
(* FlexData, of which each holds ItemsPerFlex items.                       *)
(***************************************************************************)
EXTENDS Naturals, Sequences, FiniteSets

CONSTANTS
    Ends,           \* the Peer objects of all processes
    PeerOf,         \* the end each one talks to
    ItemsPerFlex    \* sizeof(FlexData) / sizeof(TYPE), 1 when TYPE is larger

ASSUME PeerAssumption ==
    /\ PeerOf \in [Ends -> Ends]
    /\ \A e \in Ends : PeerOf[PeerOf[e]] = e
    /\ ItemsPerFlex \in Nat \ {0}

VARIABLES
    end,    \* the objects, by end
    chan,   \* MPI: messages sent by an end on each tag, not yet received
    sent,   \* history: the data of the sends an end has begun
    got     \* history: the data of the receives an end has finished

peerVars == <<end, chan, sent, got>>

Chunks == {0, 1}        \* sequence numbers; chunk c travels on d_tag<c>

TaskOps == {"none", "send_start", "send_check",
            "recv_start", "recv_check0", "recv_check1"}

(***************************************************************************)
(* An object: d_base_op, d_next_task_op, d_max_first_data_len,             *)
(* d_full_count, whether d_internal_buf is allocated, d_internal_buf_size, *)
(* the user data in the buffer, the two integers behind it, the requests,  *)
(* and the case of the check method that is being executed ("out" when     *)
(* none is).                                                               *)
(***************************************************************************)
NewEnd ==
    [base |-> "undefined", next |-> "none", limit |-> 1, full |-> 0,
     held |-> FALSE, cap |-> 0, data |-> <<>>, trailer |-> [seq |-> 0, full |-> 0],
     req |-> [c \in Chunks |-> "null"], at |-> "out"]

isDone(e) == end[e].next = "none"

hasPendingRequests(e) == \E c \in Chunks : end[e].req[c] # "null"

\* What MPI would return of a wait on the requests of e.
Arrived(e) == {c \in Chunks : end[e].req[c] = "arrived"}

getNumberOfFlexData(n) ==
    n \div ItemsPerFlex + (IF n % ItemsPerFlex > 0 THEN 1 ELSE 0)

Data(k, n) == [i \in 1 .. n |-> <<k, i>>]

\* The first n items at an address; memory behind what was stored is garbage.
Garbage == <<0, 0>>

Items(d, n) == [i \in 1 .. n |-> IF i <= Len(d) THEN d[i] ELSE Garbage]

PeerInit ==
    /\ end = [e \in Ends |-> NewEnd]
    /\ chan = [e \in Ends |-> [c \in Chunks |-> <<>>]]
    /\ sent = [e \in Ends |-> <<>>]
    /\ got = [e \in Ends |-> <<>>]

\* ~AsyncCommPeer() and the constructor of the object that takes its place.
Reconstruct(e) ==
    /\ isDone(e)
    /\ end' = [end EXCEPT ![e] = NewEnd]

\* initialize(): the object is staged anew; buffer and limit stay.
initialize(e) ==
    /\ isDone(e)
    /\ end' = [end EXCEPT ![e].base = "undefined"]

(***************************************************************************)
(* An object s whose owner has called limitFirstDataLength(n) on it.  The  *)
(* owner does so just before it begins an operation: beginSend() and       *)
(* beginRecv() are given the object as the owner has set it.               *)
(***************************************************************************)
limitFirstDataLength(s, n) == [s EXCEPT !.limit = n]

(***************************************************************************)
(* The buffer of s once it has room for n FlexData.  A buffer that is      *)
(* large enough by its recorded size is left as it is, allocated or not.   *)
(***************************************************************************)
\* Variant: a buffer is allocated once and never grows.
resizeBuffer_Once(s, n) ==
    IF s.held THEN s ELSE [s EXCEPT !.held = TRUE, !.cap = n]

resizeBuffer(s, n) == IF s.cap < n THEN [s EXCEPT !.held = TRUE, !.cap = n] ELSE s

-----------------------------------------------------------------------------
(* Sending.                                                                *)

Chunk(d, c, n) == [data |-> d, seq |-> c, full |-> n]

(***************************************************************************)
(* The chunks a message d is sent in, by an end whose limit is lim.        *)
(***************************************************************************)
\* Variant: each chunk is labelled with its own length.
ChunksOf_OwnLength(d, lim) ==
    IF Len(d) <= lim THEN <<Chunk(d, 0, Len(d))>>
    ELSE <<Chunk(SubSeq(d, 1, lim), 0, lim),
           Chunk(SubSeq(d, lim + 1, Len(d)), 1, Len(d))>>

ChunksOf(d, lim) ==
    IF Len(d) <= lim THEN <<Chunk(d, 0, Len(d))>>
    ELSE <<Chunk(SubSeq(d, 1, lim), 0, Len(d)),
           Chunk(SubSeq(d, lim + 1, Len(d)), 1, Len(d))>>

FlexOf(chunk) == getNumberOfFlexData(Len(chunk.data)) + 2

beginSend(e, s, n) ==
    LET d     == Data(Len(sent[e]) + 1, n)
        parts == ChunksOf(d, s.limit)
        room  == FlexOf(parts[1]) + (IF Len(parts) = 2 THEN FlexOf(parts[2]) ELSE 0)
        used  == {c \in Chunks : c < Len(parts)}
    IN  /\ s.at = "out"
        /\ s.next = "none"
        /\ end' = [end EXCEPT ![e] =
                     [resizeBuffer(s, room) EXCEPT
                         !.base = "send", !.next = "send_start", !.full = n,
                         !.req = [c \in Chunks |->
                                     IF c \in used THEN "active" ELSE s.req[c]],
                         !.at = "send_check"]]
        /\ chan' = [chan EXCEPT ![e] =
                     [c \in Chunks |->
                         IF c \in used THEN Append(chan[e][c], parts[c + 1])
                         ELSE chan[e][c]]]
        /\ sent' = [sent EXCEPT ![e] = Append(@, d)]
        /\ UNCHANGED got

\* MPI_Test on the requests in S: those that are complete become null.
\* Variant: the request of the second chunk is never tested.
Tested_First(s, S) ==
    [c \in Chunks |-> IF c \in S \cap {0} /\ s.req[c] = "arrived" THEN "null"
                      ELSE s.req[c]]

Tested(s, S) ==
    [c \in Chunks |-> IF c \in S /\ s.req[c] = "arrived" THEN "null" ELSE s.req[c]]

(***************************************************************************)
(* Case send_check of checkSend().                                         *)
(***************************************************************************)
SendOver(req) == req[0] = "null" /\ req[1] = "null"

send_check(e) ==
    LET s    == end[e]
        req  == Tested(s, Chunks)
        over == SendOver(req)
    IN  /\ s.at = "send_check"
        /\ end' = [end EXCEPT ![e] =
                     [s EXCEPT !.req = req, !.at = "out",
                               !.full = IF over THEN 0 ELSE @,
                               !.next = IF over THEN "none" ELSE "send_check"]]
        /\ UNCHANGED <<chan, sent, got>>

-----------------------------------------------------------------------------
(* Receiving.                                                              *)

beginRecv(e, s) ==
    /\ s.at = "out"
    /\ s.next = "none"
    /\ end' = [end EXCEPT ![e] =
                 [resizeBuffer(s, getNumberOfFlexData(s.limit) + 2) EXCEPT
                     !.base = "recv", !.next = "recv_start", !.full = 0,
                     !.req[0] = "active", !.at = "recv_check0"]]
    /\ UNCHANGED <<chan, sent, got>>

\* FlexData the receive of chunk c was posted for.
Posted(s, c) ==
    IF c = 0 THEN getNumberOfFlexData(s.limit) + 2
    ELSE getNumberOfFlexData(s.full - s.limit) + 2

\* An operation ends: its data are the first d_full_count items.
Finish(e, s) ==
    /\ end' = [end EXCEPT ![e] = [s EXCEPT !.next = "none", !.at = "out"]]
    /\ got' = [got EXCEPT ![e] = Append(@, Items(s.data, s.full))]

(***************************************************************************)
(* Case recv_check0: the first message tells the length; a second receive  *)
(* is posted at once if the data go on, and control falls to recv_check1.  *)
(***************************************************************************)
GoesOn(s) == s.trailer.full > s.limit

recv_check0(e) ==
    LET s   == end[e]
        req == Tested(s, {0})
        t   == [s EXCEPT !.req = req, !.full = s.trailer.full]
        u   == resizeBuffer(t, s.cap + getNumberOfFlexData(t.full - s.limit))
    IN  /\ s.at = "recv_check0"
        /\ \/ /\ req[0] # "null"
              /\ end' = [end EXCEPT ![e].next = "recv_check0", ![e].at = "out"]
              /\ UNCHANGED got
           \/ /\ req[0] = "null"
              /\ GoesOn(s)
              /\ end' = [end EXCEPT ![e] =
                           [u EXCEPT !.req[1] = "active", !.at = "recv_check1"]]
              /\ UNCHANGED got
           \/ /\ req[0] = "null"
              /\ ~GoesOn(s)
              /\ Finish(e, t)
        /\ UNCHANGED <<chan, sent>>

recv_check1(e) ==
    LET s   == end[e]
        req == Tested(s, {1})
    IN  /\ s.at = "recv_check1"
        /\ \/ /\ req[1] # "null"
              /\ end' = [end EXCEPT ![e].next = "recv_check1", ![e].at = "out"]
              /\ UNCHANGED got
           \/ /\ req[1] = "null"
              /\ Finish(e, [s EXCEPT !.req = req])
        /\ UNCHANGED <<chan, sent>>

-----------------------------------------------------------------------------
(* Going on with an operation.                                             *)

(***************************************************************************)
(* proceedToNextWait(), checkSend() or checkRecv(), after a wait that has  *)
(* returned the requests in S: control jumps to the case d_next_task_op.   *)
(***************************************************************************)
proceedToNextWait(e, S) ==
    /\ end[e].at = "out"
    /\ ~isDone(e)
    /\ S \subseteq Arrived(e)
    /\ end' = [end EXCEPT
                 ![e].req = [c \in Chunks |-> IF c \in S THEN "null" ELSE @[c]],
                 ![e].at = end[e].next]
    /\ UNCHANGED <<chan, sent, got>>

\* One turn of the loop of completeCurrentOperation(): Waitall, then proceed.
WaitallReturns(e) ==
    /\ \A c \in Chunks : end[e].req[c] # "active"
    /\ proceedToNextWait(e, Arrived(e))

\* A case of the check method e is in.
CheckStep(e) == send_check(e) \/ recv_check0(e) \/ recv_check1(e)

\* free() of the buffer: d_internal_buf_size keeps its value.
clearRecvData(e) ==
    /\ end[e].at = "out"
    /\ isDone(e)
    /\ end' = [end EXCEPT ![e].held = FALSE, ![e].data = <<>>]

-----------------------------------------------------------------------------
(* MPI: messages of one sender on one tag are received in the order they   *)
(* were sent.                                                              *)

(***************************************************************************)
(* A message lands behind what is in the buffer before its place: at the   *)
(* start, or limit items from it.                                          *)
(***************************************************************************)
\* Variant: the second chunk is received at the start of the buffer.
Landed_AtStart(s, c, d) == d

Landed(s, c, d) == IF c = 0 THEN d ELSE Items(s.data, s.limit) \o d

Transfer(e, c) ==
    LET p == PeerOf[e]
        m == Head(chan[p][c])
    IN  /\ end[e].base = "recv"
        /\ end[e].req[c] = "active"
        /\ chan[p][c] # <<>>
        /\ FlexOf(m) <= Posted(end[e], c)
        /\ end' = [end EXCEPT ![e].req[c] = "arrived",
                              ![e].data = Landed(end[e], c, m.data),
                              ![e].trailer = [seq |-> m.seq, full |-> m.full]]
        /\ chan' = [chan EXCEPT ![p][c] = Tail(@)]
        /\ UNCHANGED <<sent, got>>

(***************************************************************************)
(* A send may complete at any time, MPI having copied the data; it must    *)
(* once its message has been received.                                     *)
(***************************************************************************)
SendCompletes(e, c) ==
    /\ end[e].base = "send"
    /\ end[e].req[c] = "active"
    /\ end' = [end EXCEPT ![e].req[c] = "arrived"]
    /\ UNCHANGED <<chan, sent, got>>

SendMustComplete(e, c) == chan[e][c] = <<>> /\ SendCompletes(e, c)

MPIStep == \E e \in Ends, c \in Chunks : Transfer(e, c) \/ SendCompletes(e, c)

\* What MPI owes: to move a message, to complete a send that was received.
MPIOwes == \E e \in Ends, c \in Chunks : Transfer(e, c) \/ SendMustComplete(e, c)

(***************************************************************************)
(* MPI makes progress: while it can, it moves some message, and completes  *)
(* some send whose message has been received.                              *)
(***************************************************************************)
MPIFairness ==
    /\ WF_peerVars(\E e \in Ends, c \in Chunks : Transfer(e, c))
    /\ WF_peerVars(\E e \in Ends, c \in Chunks : SendMustComplete(e, c))

-----------------------------------------------------------------------------
EndType ==
    [base : {"undefined", "send", "recv"}, next : TaskOps, limit : Nat, full : Nat,
     held : BOOLEAN, cap : Nat, data : Seq(Nat \X Nat),
     trailer : [seq : Chunks, full : Nat],
     req : [Chunks -> {"null", "active", "arrived"}],
     at : {"out", "send_check", "recv_check0", "recv_check1"}]

Payload == Seq(Nat \X Nat)

Message == [data : Payload, seq : Chunks, full : Nat]

PeersTypeOK ==
    /\ end \in [Ends -> EndType]
    /\ chan \in [Ends -> [Chunks -> Seq(Message)]]
    /\ sent \in [Ends -> Seq(Payload)]
    /\ got \in [Ends -> Seq(Payload)]

(***************************************************************************)
(* A posted receive is long enough for the message MPI will match with it: *)
(* no "truncated message" error.  The comment of limitFirstDataLength()    *)
(* says that a receiver's limit no less than the sender's is enough.       *)
(***************************************************************************)
NoTruncation ==
    \A e \in Ends, c \in Chunks :
        LET in == chan[PeerOf[e]][c]
        IN  end[e].base = "recv" /\ end[e].req[c] = "active" /\ in # <<>>
              => FlexOf(Head(in)) <= Posted(end[e], c)

(***************************************************************************)
(* MPI writes to and reads from memory the object has: the buffer of a     *)
(* pending request is allocated and the request lies within it.  The       *)
(* second chunk is received right behind the items of the first, the two   *)
(* integers behind it included.                                            *)
(***************************************************************************)
Room(s) ==
    LET first == getNumberOfFlexData(s.limit) + 2
        rest  == getNumberOfFlexData(s.full - s.limit) + 2
    IN  IF s.base = "send"
        THEN (IF s.full > s.limit THEN first + rest
              ELSE getNumberOfFlexData(s.full) + 2) * ItemsPerFlex
        ELSE IF s.req[1] = "null" THEN first * ItemsPerFlex
             ELSE s.limit + rest * ItemsPerFlex

BuffersHold ==
    \A e \in Ends : hasPendingRequests(e) =>
        end[e].held /\ Room(end[e]) <= end[e].cap * ItemsPerFlex

(***************************************************************************)
(* What the assertions of checkRecv() claim of a message that has come:    *)
(* it is the chunk the object waits for, and of the length announced.      *)
(***************************************************************************)
ChunksInSequence ==
    \A e \in Ends :
        LET s == end[e]
        IN  /\ s.at = "recv_check0" /\ s.req[0] # "active" =>
                  /\ s.trailer.seq = 0
                  /\ getNumberOfFlexData(s.trailer.full)
                        >= getNumberOfFlexData(Len(s.data))
            /\ s.at = "recv_check1" /\ s.req[1] # "active" =>
                  /\ s.trailer = [seq |-> 1, full |-> s.full]
                  /\ Len(s.data) = s.full

(***************************************************************************)
(* What AsyncCommStage relies on: outside its methods a Member is done     *)
(* exactly when it has no pending request.  A done Member with a request   *)
(* would be destroyed under it; one that is not done and has none would    *)
(* never be advanced.                                                      *)
(***************************************************************************)
DoneIsQuiet ==
    \A e \in Ends : end[e].at = "out" => (isDone(e) <=> ~hasPendingRequests(e))

=============================================================================
