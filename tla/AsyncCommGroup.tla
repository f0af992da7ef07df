---------------------------- MODULE AsyncCommGroup ----------------------------
(***************************************************************************)
(* tbox::AsyncCommGroup: broadcast, gather and sum reduce among the        *)
(* processes of a group, by messages along a tree of the group, while the  *)
(* processes go on with other things.                                      *)
(*                                                                         *)
(* For each operation of its script a process initializes its object, sets *)
(* it to the group and root of the operation, begins the operation and     *)
(* checks on it until it is over; all messages have the same tag.  A check *)
(* method falls through the cases of one switch; the cases between which   *)
(* messages matter are steps here.  Data are integers, as in the code: the *)
(* indices a gather sends along are among the data.                        *)
(***************************************************************************)
EXTENDS CommGroupTree, GroupScript, FiniteSetsExt

VARIABLES
    proc,       \* the object of a process
    chan,       \* MPI: messages sent from p to q, not yet received
    results     \* history: external buffers after the operations of a process

vars == <<script, proc, chan, results>>

-----------------------------------------------------------------------------
(* Neighbours in the tree, by slot.                                        *)

AllSlots == Slots(MaxChild)

NoRank == -1

RankAt(k, i) == IF i = NoIndex THEN NoRank ELSE script[k].ranks[i + 1]

(***************************************************************************)
(* setGroupAndRootIndex(): d_parent_rank (none at the root) and, by slot,  *)
(* the rank of the child and the size of its branch in d_child_data.       *)
(***************************************************************************)
setGroupAndRootIndex(p, k) ==
    LET n == script[k].nchild
        d == computeDependentData(n, GroupSize(k), script[k].root, IndexOf(p, k))
    IN  [parent |-> RankAt(k, d.parent),
         child  |-> [c \in AllSlots |-> IF c < n THEN RankAt(k, d.child[c]) ELSE NoRank],
         branch |-> [c \in AllSlots |-> IF c < n THEN d.branch[c] ELSE 0]]

IsRoot(s) == s.tree.parent = NoRank

\* f[0] + ... + f[n - 1].
SumBelow(f, n) ==
    LET sum[d \in 0 .. n] == IF d = 0 THEN 0 ELSE sum[d - 1] + f[d - 1]
    IN  sum[n]

\* The sizes of the branches in the slots before c, summed.
Older(s, c) == SumBelow(s.tree.branch, c)

BranchTotal(s) == Older(s, MaxChild)

(***************************************************************************)
(* Whom an object s receives from, and sends to, by the request in slot c. *)
(***************************************************************************)
\* Variant: only the oldest child is received from.
Source_Oldest(s, c) ==
    IF c # 0 THEN NoRank
    ELSE IF s.base = "bcast" THEN s.tree.parent ELSE s.tree.child[0]

Source(s, c) ==
    IF s.base # "bcast" THEN s.tree.child[c]
    ELSE IF c = 0 THEN s.tree.parent ELSE NoRank

Destination(s, c) ==
    IF s.base = "bcast" THEN s.tree.child[c]
    ELSE IF c = 0 THEN s.tree.parent ELSE NoRank

-----------------------------------------------------------------------------
(* Data.                                                                   *)

Zeros(n) == [i \in 1 .. n |-> 0]

Overwritten(b, at, m) ==
    [i \in DOMAIN b |-> IF i \in at + 1 .. at + Len(m) THEN m[i - at] ELSE b[i]]

\* Of each process in a gather: its index, then its data.
PerProc(s) == 1 + s.size

Children(s) == Cardinality({c \in AllSlots : s.tree.child[c] # NoRank})

\* d_external_buf when p begins: the root of a gather has more room.
ExternalBuffer(p, s) ==
    LET mine == Input(s.op, IndexOf(p, s.op), s.size)
    IN  CASE s.base = "bcast" /\ ~IsRoot(s) -> Zeros(s.size)
          [] s.base = "gather" /\ IsRoot(s) ->
                 Overwritten(Zeros(s.size * GroupSize(s.op)), 0, mine)
          [] OTHER                          -> mine

(***************************************************************************)
(* d_internal_buf when p begins: room for what comes from below and, last, *)
(* what p itself puts in.                                                  *)
(***************************************************************************)
InternalBuffer(p, s) ==
    LET i    == IndexOf(p, s.op)
        mine == Input(s.op, i, s.size)
    IN  CASE s.base = "bcast"  -> <<>>
          [] s.base = "gather" -> Zeros(BranchTotal(s) * PerProc(s)) \o <<i>> \o mine
          [] s.base = "sum"    ->
                 Zeros(s.size * Children(s)) \o (IF IsRoot(s) THEN <<>> ELSE mine)

(***************************************************************************)
(* How many integers the receive in slot c is posted for, and where in the *)
(* internal buffer they go.                                                *)
(***************************************************************************)
\* Variant: no room for the indices.
Posted_DataOnly(s, c) ==
    IF s.base = "gather" THEN s.tree.branch[c] * s.size ELSE s.size

Posted(s, c) ==
    IF s.base = "gather" THEN s.tree.branch[c] * PerProc(s) ELSE s.size

\* Variant: the branches of older siblings are taken to be of one process.
Offset_Compact(s, c) ==
    IF s.base = "gather" THEN c * PerProc(s) ELSE c * s.size

Offset(s, c) ==
    IF s.base = "gather" THEN Older(s, c) * PerProc(s) ELSE c * s.size

(***************************************************************************)
(* The root of a gather sorts the blocks by the index each begins with; of *)
(* two blocks with one index the later stays.                              *)
(***************************************************************************)
Unshuffled(s) ==
    LET Of(i) == {b \in 0 .. GroupSize(s.op) - 1 : s.buf[PerProc(s) * b + 1] = i}
        At(x) == Of((x - 1) \div s.size)
    IN  [x \in DOMAIN s.ext |->
            IF At(x) = {} THEN s.ext[x]
            ELSE s.buf[PerProc(s) * Max(At(x)) + 2 + ((x - 1) % s.size)]]

\* The last block of a reduction, what goes to the parent.
LastBlock(s) == SubSeq(s.buf, Len(s.buf) - s.size + 1, Len(s.buf))

\* reduceData() of every child's block to the local data.
Reduced(s, local) ==
    LET Of(c, j) == IF s.tree.child[c] = NoRank THEN 0 ELSE s.buf[c * s.size + j]
    IN  [j \in DOMAIN local |-> local[j] + SumBelow([c \in AllSlots |-> Of(c, j)], MaxChild)]

-----------------------------------------------------------------------------
(***************************************************************************)
(* An object: the operation it last began, d_base_op, d_external_size, the *)
(* tree, d_next_task_op, the case of the check method that is being        *)
(* executed ("out" when none is), the requests, the two buffers, and the   *)
(* slots it has still to send for; send is the state of a blocking send.   *)
(***************************************************************************)
NoTree ==
    [parent |-> NoRank, child |-> [c \in AllSlots |-> NoRank],
     branch |-> [c \in AllSlots |-> 0]]

Idle ==
    [op |-> 0, base |-> "undefined", size |-> 0, tree |-> NoTree, next |-> "none",
     at |-> "out", req |-> [c \in AllSlots |-> "null"], ext |-> <<>>, buf |-> <<>>,
     left |-> {}, send |-> "null"]

isDone(p) == proc[p].next = "none"

Init ==
    /\ script \in Scripts
    /\ proc = [p \in Ranks |-> Idle]
    /\ chan = [p \in Ranks |-> [q \in Ranks |-> <<>>]]
    /\ results = [p \in Ranks |-> <<>>]

\* initialize(), setGroupAndRootIndex(), and beginX() up to case recv_start.
Begun(p, k) ==
    LET s == [Idle EXCEPT !.op = k, !.base = script[k].kind, !.size = SizeOf(p, k),
                          !.tree = setGroupAndRootIndex(p, k)]
    IN  [s EXCEPT !.ext = ExternalBuffer(p, s), !.buf = InternalBuffer(p, s),
                  !.next = "recv_start", !.at = "recv_check",
                  !.req = [c \in AllSlots |->
                              IF Source(s, c) = NoRank THEN "null" ELSE "active"]]

Begin(p) ==
    /\ isDone(p)
    /\ proc[p].at = "out"
    /\ \E k \in DOMAIN script :
          IsNext(p, proc[p].op, k) /\ proc' = [proc EXCEPT ![p] = Begun(p, k)]
    /\ UNCHANGED <<script, chan, results>>

Arrived(p) == {c \in AllSlots : proc[p].req[c] = "arrived"}

\* MPI_Test on each of the requests: those that are complete become null.
Tested(s) == [c \in AllSlots |-> IF s.req[c] = "arrived" THEN "null" ELSE s.req[c]]

Over(req) == \A c \in AllSlots : req[c] = "null"

\* The slots s sends for.
\* Variant: the loop begins with the second child.
Targets_FromOne(s) == {c \in AllSlots \ {0} : Destination(s, c) # NoRank}

Targets(s) == {c \in AllSlots : Destination(s, c) # NoRank}

\* All receives are complete: what is done with the data before any is sent.
Received(s) ==
    CASE s.base = "gather" /\ IsRoot(s) -> [s EXCEPT !.ext = Unshuffled(s)]
      [] s.base = "sum" /\ IsRoot(s)    -> [s EXCEPT !.ext = Reduced(s, s.ext)]
      [] s.base = "sum" /\ ~IsRoot(s)   ->
             [s EXCEPT !.buf = SubSeq(@, 1, Len(@) - s.size)
                                 \o Reduced(s, LastBlock(s))]
      [] OTHER                          -> s

recv_check(p) ==
    LET s   == proc[p]
        req == Tested(s)
    IN  /\ s.at = "recv_check"
        /\ proc' = [proc EXCEPT ![p] =
              IF Over(req)
              THEN [Received(s) EXCEPT !.req = req, !.at = "send_start",
                                          !.left = Targets(s)]
              ELSE [s EXCEPT !.req = req, !.at = "out", !.next = "recv_check"]]
        /\ UNCHANGED <<script, chan, results>>

\* What is sent.
Outgoing(s) ==
    CASE s.base = "bcast"  -> s.ext
      [] s.base = "gather" -> s.buf
      [] s.base = "sum"    -> LastBlock(s)

(***************************************************************************)
(* Case send_start: the sends one after the other, in the order of the     *)
(* slots; a blocking one is over before the next is posted, and leaves no  *)
(* request.                                                                *)
(***************************************************************************)
send_start(p) ==
    LET s    == proc[p]
        c    == Min(s.left)
        Sent == [chan EXCEPT ![p][Destination(s, c)] = Append(@, Outgoing(s))]
    IN  /\ s.at = "send_start"
        /\ \/ /\ s.left # {} /\ s.send = "null"
              /\ chan' = Sent
              /\ proc' = [proc EXCEPT ![p] =
                    IF script[s.op].blocking THEN [s EXCEPT !.send = "active"]
                    ELSE [s EXCEPT !.req[c] = "active", !.left = @ \ {c}]]
           \/ /\ s.send = "arrived"
              /\ proc' = [proc EXCEPT ![p].send = "null", ![p].left = @ \ {c}]
              /\ UNCHANGED chan
           \/ /\ s.left = {}
              /\ proc' = [proc EXCEPT ![p].at = "send_check"]
              /\ UNCHANGED chan
        /\ UNCHANGED <<script, results>>

send_check(p) ==
    LET s   == proc[p]
        req == Tested(s)
    IN  /\ s.at = "send_check"
        /\ \/ /\ ~Over(req)
              /\ proc' = [proc EXCEPT ![p] =
                             [s EXCEPT !.req = req, !.at = "out", !.next = "send_check"]]
              /\ UNCHANGED results
           \/ /\ Over(req)
              /\ proc' = [proc EXCEPT ![p] =
                             [s EXCEPT !.req = req, !.at = "out", !.next = "none"]]
              /\ results' = [results EXCEPT ![p] = Append(@, s.ext)]
        /\ UNCHANGED <<script, chan>>

(***************************************************************************)
(* A wait has returned the requests in S, or the owner looks by itself     *)
(* (S = {}): control jumps to the case d_next_task_op.  A check made when  *)
(* nothing has arrived leaves everything as it is.                         *)
(***************************************************************************)
Proceed(p, S) ==
    /\ proc[p].at = "out"
    /\ ~isDone(p)
    /\ proc' = [proc EXCEPT
                   ![p].req = [c \in AllSlots |-> IF c \in S THEN "null" ELSE @[c]],
                   ![p].at = proc[p].next]
    /\ UNCHANGED <<script, chan, results>>

proceedToNextWait(p) == Arrived(p) # {} /\ \E S \in SUBSET Arrived(p) : Proceed(p, S)

\* One turn of the loop of completeCurrentOperation(): Waitall, then proceed.
WaitallReturns(p) ==
    /\ \A c \in AllSlots : proc[p].req[c] # "active"
    /\ Proceed(p, Arrived(p))

-----------------------------------------------------------------------------
(* MPI: messages of one process to another are received in order.          *)

\* The receives of p are those it has posted and not completed.
Receiving(p) == proc[p].at = "recv_check" \/ (proc[p].at = "out" /\ proc[p].next = "recv_check")

Fits(s, c, m) == Len(m) <= Posted(s, c)

Transfer(q, p) ==
    \E c \in AllSlots :
        LET s == proc[p]
            m == Head(chan[q][p])
        IN  /\ Receiving(p)
            /\ s.req[c] = "active"
            /\ Source(s, c) = q
            /\ chan[q][p] # <<>>
            /\ Fits(s, c, m)
            /\ proc' = [proc EXCEPT ![p] =
                  IF s.base = "bcast"
                  THEN [s EXCEPT !.req[c] = "arrived", !.ext = Overwritten(@, 0, m)]
                  ELSE [s EXCEPT !.req[c] = "arrived",
                                 !.buf = Overwritten(@, Offset(s, c), m)]]
            /\ chan' = [chan EXCEPT ![q][p] = Tail(@)]
            /\ UNCHANGED <<script, results>>

(***************************************************************************)
(* A send may complete at any time, MPI having copied the data; it must    *)
(* once its message has been received.                                     *)
(***************************************************************************)
SendCompletes(p, c) ==
    /\ ~Receiving(p)
    /\ \/ proc[p].req[c] = "active" /\ proc' = [proc EXCEPT ![p].req[c] = "arrived"]
       \/ /\ proc[p].send = "active" /\ c = Min(proc[p].left)
          /\ proc' = [proc EXCEPT ![p].send = "arrived"]
    /\ UNCHANGED <<script, chan, results>>

SendMustComplete(p, c) ==
    /\ SendCompletes(p, c)
    /\ chan[p][Destination(proc[p], c)] = <<>>

MPIStep ==
    \/ \E p, q \in Ranks : Transfer(q, p)
    \/ \E p \in Ranks, c \in AllSlots : SendCompletes(p, c)

-----------------------------------------------------------------------------
Check(p) == recv_check(p) \/ send_start(p) \/ send_check(p)

ProcStep(p) == Begin(p) \/ Check(p) \/ WaitallReturns(p)

\* Every process has ended all its operations.
AllEnded ==
    \A p \in Ranks : isDone(p) /\ \A k \in DOMAIN script : ~IsNext(p, proc[p].op, k)

AllOver == AllEnded /\ UNCHANGED vars

Next ==
    \/ MPIStep
    \/ \E p \in Ranks : ProcStep(p) \/ proceedToNextWait(p)
    \/ AllOver

(***************************************************************************)
(* As long as some process can go on with its operations, wait for them or *)
(* finish a method it is in, or MPI can move a message or complete a send  *)
(* whose message has been received, some of that happens.                  *)
(***************************************************************************)
Progress ==
    \/ \E p \in Ranks : ProcStep(p)
    \/ \E p, q \in Ranks : Transfer(q, p)
    \/ \E p \in Ranks, c \in AllSlots : SendMustComplete(p, c)

Fairness == WF_vars(Progress)

Spec == Init /\ [][Next]_vars /\ Fairness

-----------------------------------------------------------------------------
RequestStates == {"null", "active", "arrived"}

ProcType ==
    [op : Nat, base : Kinds \cup {"undefined"}, size : Nat,
     tree : [parent : Ranks \cup {NoRank}, child : [AllSlots -> Ranks \cup {NoRank}],
             branch : [AllSlots -> Nat]],
     next : {"none", "recv_start", "recv_check", "send_check"},
     at : {"out", "recv_check", "send_start", "send_check"},
     req : [AllSlots -> RequestStates], ext : Seq(Int), buf : Seq(Int),
     left : SUBSET AllSlots, send : RequestStates]

TypeOK ==
    /\ script \in Scripts
    /\ proc \in [Ranks -> ProcType]
    /\ chan \in [Ranks -> [Ranks -> Seq(Seq(Int))]]
    /\ results \in [Ranks -> Seq(Seq(Int))]

(***************************************************************************)
(* Each message fits the receive MPI will match with it, and the receive   *)
(* fits the buffer: what a process sends up for its whole branch is what   *)
(* its parent has made room for ("Message size bigger than expected").     *)
(***************************************************************************)
MessagesFit ==
    \A p, q \in Ranks, c \in AllSlots :
        LET s == proc[p]
        IN  Receiving(p) /\ s.req[c] = "active" /\ Source(s, c) = q =>
              /\ chan[q][p] # <<>> => Fits(s, c, Head(chan[q][p]))
              /\ s.base # "bcast" =>
                     Offset(s, c) + Posted(s, c) <= Len(s.buf)

\* In every state, types included.
BuffersFit == TypeOK /\ MessagesFit

(***************************************************************************)
(* What AsyncCommStage and the assertions of isDone() and checkReduce()    *)
(* rely on: outside its methods an object is done exactly when it has no   *)
(* pending request.                                                        *)
(***************************************************************************)
DoneIsQuiet ==
    \A p \in Ranks : proc[p].at = "out" =>
        (isDone(p) <=> \A c \in AllSlots : proc[p].req[c] = "null")

(***************************************************************************)
(* No message is left over for a later operation with the same tag: when   *)
(* two processes have ended the same of the operations they share, nothing *)
(* is on its way between them, and they have no request pending.           *)
(***************************************************************************)
NothingLeftOver ==
    /\ DoneIsQuiet
    /\ \A p, q \in Ranks :
          /\ isDone(p) /\ isDone(q)
          /\ \A k \in DOMAIN script :
                 p \in Group(k) /\ q \in Group(k) => (k <= proc[p].op <=> k <= proc[q].op)
          => chan[p][q] = <<>>

(***************************************************************************)
(* The messages along the tree implement the collective operations: a      *)
(* process ends with what it is to get, whatever the order in which        *)
(* messages come and however far other processes have gone on.             *)
(***************************************************************************)
Promised == INSTANCE Collective WITH begun <- [p \in Ranks |-> proc[p].op]

IsCollective == Promised!Spec

(***************************************************************************)
(* The processes get through all their operations, with sends that         *)
(* complete only when they are received, blocking or not: nobody waits for *)
(* a message whose sender waits for him.                                   *)
(***************************************************************************)
ScriptEnds == <>AllEnded

=============================================================================
