--------------------------- MODULE AsyncCommStage ---------------------------
(***************************************************************************)
(* tbox::AsyncCommStage: a registry of communication Members that share    *)
(* one array of MPI requests, so that one MPI_Waitsome or MPI_Waitany      *)
(* waits for all of them.                                                  *)
(*                                                                         *)
(* The stage keeps two maps between Members and requests, and a queue of   *)
(* the INDICES of the Members whose operation is complete.  A Member that  *)
(* leaves the stage leaves a hole in the vector, unless it is at the end,  *)
(* where the vectors are trimmed: an index can be reused by another        *)
(* Member.                                                                 *)
(*                                                                         *)
(* Vectors are 1-based here: slot i is d_members[i-1]; memberToReq[i] is   *)
(* d_member_to_req[i-1], the number of requests that precede slot i's.     *)
(* A Member is abstracted to the contract of the virtual methods isDone()  *)
(* and proceedToNextWait(): an operation is a number of waits (todo), each *)
(* with its own requests.  MPI statuses, timers and handlers are data that *)
(* no decision of the stage depends on; they are left out.                 *)
(***************************************************************************)
EXTENDS Naturals, Sequences, FiniteSets, SequencesExt

CONSTANTS
    Members,            \* the Member objects of the program
    NoMember,           \* the null pointer in d_members
    MaxReq,             \* bound: requests a Member asks for
    MaxSlots,           \* bound: length of d_members
    MaxWaits,           \* bound: waits of one operation
    YankBeforeDetach    \* TRUE: no Member leaves the stage while it is queued

ASSUME StageAssumption ==
    /\ IsFiniteSet(Members)
    /\ NoMember \notin Members
    /\ MaxReq \in Nat \ {0}
    /\ MaxSlots \in Nat \ {0}
    /\ MaxWaits \in Nat \ {0}
    /\ YankBeforeDetach \in BOOLEAN

VARIABLES
    stage,      \* the four vectors: members, memberToReq, reqToMember, req
    count,      \* d_member_count
    completed,  \* d_completed_members: a queue of slot indices
    onStage,    \* Member m: d_stage # 0
    index,      \* Member m: d_index_on_stage
    nreq,       \* Member m: d_nreq
    todo,       \* Member m: waits left in its operation, 0 when isDone()
    call,       \* the stage method that is running, "none" outside of them
    earned      \* history: m finished since it was last staged or returned

vars == <<stage, count, completed, onStage, index, nreq, todo, call, earned>>

(***************************************************************************)
(* A request is MPI_REQUEST_NULL, active, or active with its message       *)
(* already transferred, in which case a wait on it returns.                *)
(***************************************************************************)
RequestStates == {"null", "active", "arrived"}

Unset == 2147483647     \* MathUtilities<int>::getMax()

Calls == {"none", "some", "any", "all"}

EmptyStage ==
    [members |-> <<>>, memberToReq |-> <<0>>, reqToMember |-> <<>>, req |-> <<>>]

Total(s) == s.memberToReq[Len(s.memberToReq)]

Block(s, i) == (s.memberToReq[i] + 1) .. s.memberToReq[i + 1]

Pending(s) == {r \in 1 .. Len(s.req) : s.req[r] # "null"}

isDone(m) == todo[m] = 0

\* The requests a Member works with are those getRequestPointer() gives it.
PendingOf(s, m) ==
    IF onStage[m] THEN Pending(s) \cap Block(s, index[m]) ELSE {}

\* Variant: only the first request of the block is looked at.
hasPendingRequests_FirstOnly(m) ==
    onStage[m] /\ Pending(stage) \cap {stage.memberToReq[index[m]] + 1} # {}

hasPendingRequests(m) == PendingOf(stage, m) # {}

Queued(m) == onStage[m] /\ Contains(completed, index[m])

(***************************************************************************)
(* The vectors after a Member is appended and after slot i is emptied.     *)
(***************************************************************************)
Staged(s, m, n) ==
    [members     |-> Append(s.members, m),
     memberToReq |-> Append(s.memberToReq, Total(s) + n),
     reqToMember |-> s.reqToMember \o [r \in 1 .. n |-> Len(s.members) + 1],
     req         |-> s.req \o [r \in 1 .. n |-> "null"]]

UsedLength(ms) ==
    CHOOSE k \in 0 .. Len(ms) :
        /\ k > 0 => ms[k] # NoMember
        /\ \A j \in (k + 1) .. Len(ms) : ms[j] = NoMember

\* Variant: the map from requests to slots is not shortened.
Destaged_KeepMap(s, i) ==
    LET ms == [s.members EXCEPT ![i] = NoMember]
        k  == UsedLength(ms)
    IN  [members     |-> SubSeq(ms, 1, k),
         memberToReq |-> SubSeq(s.memberToReq, 1, k + 1),
         reqToMember |-> s.reqToMember,
         req         |-> SubSeq(s.req, 1, s.memberToReq[k + 1])]

\* Variant: the requests of the slots behind the hole move up to fill it.
Destaged_Compact(s, i) ==
    LET n == s.memberToReq[i + 1] - s.memberToReq[i]
    IN  [members     |-> [s.members EXCEPT ![i] = NoMember],
         memberToReq |-> [j \in DOMAIN s.memberToReq |->
                             IF j <= i THEN s.memberToReq[j]
                             ELSE s.memberToReq[j] - n],
         reqToMember |-> SelectSeq(s.reqToMember, LAMBDA j : j # i),
         req         |-> SubSeq(s.req, 1, s.memberToReq[i])
                           \o SubSeq(s.req, s.memberToReq[i + 1] + 1, Len(s.req))]

Destaged(s, i) ==
    LET ms == [s.members EXCEPT ![i] = NoMember]
        k  == UsedLength(ms)
        nr == s.memberToReq[k + 1]
    IN  [members     |-> SubSeq(ms, 1, k),
         memberToReq |-> SubSeq(s.memberToReq, 1, k + 1),
         reqToMember |-> SubSeq(s.reqToMember, 1, nr),
         req         |-> SubSeq(s.req, 1, nr)]

\* Variant: no search for an earlier entry.
PushTo_Twice(q, i) == Append(q, i)

PushTo(q, i) == IF Contains(q, i) THEN q ELSE Append(q, i)

Yanked(q, i) ==
    IF Contains(q, i) THEN RemoveAt(q, CHOOSE k \in 1 .. Len(q) : q[k] = i) ELSE q

Init ==
    /\ stage = EmptyStage
    /\ count = 0
    /\ completed = <<>>
    /\ onStage = [m \in Members |-> FALSE]
    /\ index = [m \in Members |-> Unset]
    /\ nreq = [m \in Members |-> Unset]
    /\ todo = [m \in Members |-> 0]
    /\ call = "none"
    /\ earned = [m \in Members |-> FALSE]

-----------------------------------------------------------------------------
(* Calls of a Member's owner, made outside the stage's own methods.        *)

(***************************************************************************)
(* attachStage: a Member that is already staged is destaged first.         *)
(***************************************************************************)
attachStage(m, n) ==
    LET base == IF onStage[m] THEN Destaged(stage, index[m]) ELSE stage
    IN  /\ call = "none"
        /\ ~hasPendingRequests(m)
        /\ onStage[m] /\ YankBeforeDetach => ~Queued(m)
        /\ Len(base.members) < MaxSlots
        /\ stage' = Staged(base, m, n)
        /\ count' = IF onStage[m] THEN count ELSE count + 1
        /\ onStage' = [onStage EXCEPT ![m] = TRUE]
        /\ index' = [index EXCEPT ![m] = Len(base.members) + 1]
        /\ nreq' = [nreq EXCEPT ![m] = n]
        /\ earned' = [earned EXCEPT ![m] = FALSE]
        /\ UNCHANGED <<completed, todo, call>>

(***************************************************************************)
(* What detachStage() and ~Member() share: privateDestageMember().  It     *)
(* refuses a Member with pending requests; it does not look at the queue.  *)
(***************************************************************************)
Leave(m, n) ==
    /\ call = "none"
    /\ onStage[m]
    /\ ~hasPendingRequests(m)
    /\ YankBeforeDetach => ~Queued(m)
    /\ stage' = Destaged(stage, index[m])
    /\ count' = count - 1
    /\ onStage' = [onStage EXCEPT ![m] = FALSE]
    /\ index' = [index EXCEPT ![m] = Unset]
    /\ nreq' = [nreq EXCEPT ![m] = n]
    /\ earned' = [earned EXCEPT ![m] = FALSE]
    /\ UNCHANGED <<completed, todo, call>>

detachStage(m) == Leave(m, 0)

\* ~Member(); the name then stands for an object constructed anew.
Destroy(m) == Leave(m, Unset)

(***************************************************************************)
(* A Member starts an operation of n waits on the requests R of its block. *)
(***************************************************************************)
BeginOperation(m, n, R) ==
    /\ call = "none"
    /\ isDone(m)
    /\ ~Queued(m)
    /\ R # {}
    /\ stage' = [stage EXCEPT !.req =
                    [r \in DOMAIN stage.req |->
                        IF r \in R THEN "active" ELSE stage.req[r]]]
    /\ todo' = [todo EXCEPT ![m] = n]
    /\ UNCHANGED <<count, completed, onStage, index, nreq, call, earned>>

(***************************************************************************)
(* proceedToNextWait of the Members in P, once the requests in S are null: *)
(* a Member whose requests are all null either is done or posts the        *)
(* requests of its next wait; A is the set of those.                       *)
(***************************************************************************)
Free(m, S) == PendingOf(stage, m) \subseteq S

Ending(P, S) == {m \in P : Free(m, S) /\ todo[m] = 1}

Moving(P, S) == {m \in P : Free(m, S) /\ todo[m] > 1}

NextWaits(P, S) ==
    LET blocks == [m \in Moving(P, S) |-> Block(stage, index[m])]
    IN  {A \in SUBSET UNION Range(blocks) :
            \A m \in DOMAIN blocks : A \cap blocks[m] # {}}

Proceed(P, S, A) ==
    /\ stage' = [stage EXCEPT !.req =
                    [r \in DOMAIN stage.req |->
                        IF r \in A THEN "active"
                        ELSE IF r \in S THEN "null" ELSE stage.req[r]]]
    /\ todo' = [m \in Members |->
                    IF m \in P /\ Free(m, S) THEN todo[m] - 1 ELSE todo[m]]
    /\ UNCHANGED <<count, onStage, index, nreq>>

\* Variant: only the first d_member_count slots are waited for, holes or not.
Arrived_Short(s) == {r \in 1 .. s.memberToReq[count + 1] : s.req[r] = "arrived"}

Arrived(s) == {r \in 1 .. Len(s.req) : s.req[r] = "arrived"}

(***************************************************************************)
(* The owner completes the Member by itself, as completeCurrentOperation() *)
(* and the check methods of the Members do.  The stage is not told.        *)
(***************************************************************************)
ProceedAlone(m) ==
    LET S == PendingOf(stage, m)
    IN  /\ call = "none"
        /\ S # {}
        /\ S \subseteq Arrived(stage)
        /\ \E A \in NextWaits({m}, S) : Proceed({m}, S, A)
        /\ UNCHANGED <<completed, call, earned>>

pushToCompletionQueue(m) ==
    /\ call = "none"
    /\ onStage[m]
    /\ isDone(m)
    /\ completed' = PushTo(completed, index[m])
    /\ earned' = [earned EXCEPT ![m] = TRUE]
    /\ UNCHANGED <<stage, count, onStage, index, nreq, todo, call>>

yankFromCompletionQueue(m) ==
    /\ call = "none"
    /\ onStage[m]
    /\ completed' = Yanked(completed, index[m])
    /\ earned' = [earned EXCEPT ![m] = FALSE]
    /\ UNCHANGED <<stage, count, onStage, index, nreq, todo, call>>

clearCompletionQueue ==
    /\ call = "none"
    /\ completed # <<>>
    /\ completed' = <<>>
    /\ earned' = [m \in Members |-> FALSE]
    /\ UNCHANGED <<stage, count, onStage, index, nreq, todo, call>>

(***************************************************************************)
(* The Member an index of the queue stands for when it is dereferenced;    *)
(* NoMember for a null slot and for an index beyond the trimmed vector.    *)
(***************************************************************************)
MemberAt(i) ==
    IF i <= Len(stage.members) THEN stage.members[i] ELSE NoMember

popCompletionQueue ==
    /\ call = "none"
    /\ completed # <<>>
    /\ LET m == MemberAt(Head(completed))
       IN  /\ m # NoMember
           /\ isDone(m)
           /\ earned' = [earned EXCEPT ![m] = FALSE]
    /\ completed' = Tail(completed)
    /\ UNCHANGED <<stage, count, onStage, index, nreq, todo, call>>

-----------------------------------------------------------------------------
(* The stage's waits.                                                      *)

\* MPI transfers the message of an active request, at any time.
Deliver(r) ==
    /\ r \in 1 .. Len(stage.req)
    /\ stage.req[r] = "active"
    /\ stage' = [stage EXCEPT !.req[r] = "arrived"]
    /\ UNCHANGED <<count, completed, onStage, index, nreq, todo, call, earned>>

\* advanceAll() calls advanceSome() only while there are pending requests.
Enter(c) ==
    /\ call = "none"
    /\ c \in {"some", "any", "all"}
    /\ c = "some" => stage.members # <<>>
    /\ c = "all" => Pending(stage) # {}
    /\ call' = c
    /\ UNCHANGED <<stage, count, completed, onStage, index, nreq, todo, earned>>

Owners(S) == {stage.members[stage.reqToMember[r]] : r \in S}

\* Each Member of done is pushed, in the order its requests came up in.
Enqueue(done) ==
    /\ \E order \in SetToSeqs({m \in done : ~Queued(m)}) :
           completed' = completed \o [i \in 1 .. Len(order) |-> index[order[i]]]
    /\ earned' = [m \in Members |-> earned[m] \/ m \in done]

(***************************************************************************)
(* Whether the loop goes on after a wait by which the Members in done have *)
(* finished: advanceSome() until there is one, advanceAll() until nothing  *)
(* is pending.                                                             *)
(***************************************************************************)
\* Variant: advanceSome() returns after its first wait.
GoesOn_Once(done) == call = "all" /\ Pending(stage') # {}

GoesOn(done) == done = {} \/ (call = "all" /\ Pending(stage') # {})

(***************************************************************************)
(* One return of MPI_Waitsome: a non-empty set S of arrived requests, in   *)
(* any order.  advanceSome() repeats until some Member is done.            *)
(***************************************************************************)
WaitsomeReturns(S) ==
    LET P    == Owners(S)
        done == Ending(P, S)
    IN  /\ call \in {"some", "all"}
        /\ S # {}
        /\ \E A \in NextWaits(P, S) : Proceed(P, S, A)
        /\ Enqueue(done)
        /\ call' = IF GoesOn(done) THEN call ELSE "none"

\* MPI_Waitsome and MPI_Waitany return at once when every request is null.
\* Variant: the loop condition accepts a wait that completed nothing.
NothingPending_Spin ==
    /\ call # "none"
    /\ Pending(stage) = {}
    /\ UNCHANGED vars

NothingPending ==
    /\ call # "none"
    /\ Pending(stage) = {}
    /\ call' = "none"
    /\ UNCHANGED <<stage, count, completed, onStage, index, nreq, todo, earned>>

(***************************************************************************)
(* One return of MPI_Waitany.  advanceAny() proceeds with the Member only  *)
(* when all its requests are null, and repeats until one Member is done.   *)
(***************************************************************************)
WaitanyReturns(r) ==
    LET m == stage.members[stage.reqToMember[r]]
        done == Ending({m}, {r})
    IN  /\ call = "any"
        /\ \E A \in NextWaits({m}, {r}) : Proceed({m}, {r}, A)
        /\ IF done = {}
           THEN UNCHANGED <<completed, earned, call>>
           ELSE Enqueue(done) /\ call' = "none"

-----------------------------------------------------------------------------
OwnerStep ==
    \/ \E m \in Members, n \in 1 .. MaxReq : attachStage(m, n)
    \/ \E m \in Members : detachStage(m)
    \/ \E m \in Members : Destroy(m)
    \/ \E m \in {p \in Members : onStage[p]}, n \in 1 .. MaxWaits :
           \E R \in SUBSET Block(stage, index[m]) : BeginOperation(m, n, R)
    \/ \E m \in Members : ProceedAlone(m)
    \/ \E m \in Members : pushToCompletionQueue(m)
    \/ \E m \in Members : yankFromCompletionQueue(m)
    \/ clearCompletionQueue
    \/ popCompletionQueue
    \/ \E c \in Calls : Enter(c)

WaitStep ==
    \/ \E S \in SUBSET Arrived(stage) : WaitsomeReturns(S)
    \/ \E r \in Arrived(stage) : WaitanyReturns(r)
    \/ NothingPending

NetworkStep == \E r \in 1 .. Len(stage.req) : Deliver(r)

Next == OwnerStep \/ WaitStep \/ NetworkStep

(***************************************************************************)
(* Each message is transferred and a blocking call goes on when it can;    *)
(* nothing obliges the owner to make a call.                               *)
(***************************************************************************)
Spec ==
    /\ Init /\ [][Next]_vars
    /\ \A r \in 1 .. MaxSlots * MaxReq : WF_vars(Deliver(r))
    /\ WF_vars(WaitStep)

(***************************************************************************)
(* The client loop advanceSome() is meant for: it keeps calling it and     *)
(* pops what is complete.  MPI's fairness rule for MPI_Waitsome: a request *)
(* that keeps appearing in its list with its message sent is returned.     *)
(***************************************************************************)
WaitsomeServes(m) ==
    \E S \in SUBSET Arrived(stage) :
        S \cap PendingOf(stage, m) # {} /\ WaitsomeReturns(S)

PollingSpec ==
    /\ Spec
    /\ SF_vars(Enter("some"))
    /\ \A m \in Members : SF_vars(WaitsomeServes(m))

-----------------------------------------------------------------------------
StageType ==
    [members : Seq(Members \cup {NoMember}), memberToReq : Seq(Nat),
     reqToMember : Seq(Nat), req : Seq(RequestStates)]

TypeOK ==
    /\ stage \in StageType
    /\ count \in Nat
    /\ completed \in Seq(Nat)
    /\ onStage \in [Members -> BOOLEAN]
    /\ index \in [Members -> Nat]
    /\ nreq \in [Members -> Nat]
    /\ todo \in [Members -> Nat]
    /\ call \in Calls
    /\ earned \in [Members -> BOOLEAN]

(***************************************************************************)
(* The request blocks of the slots tile the request array, in slot order,  *)
(* whatever Members came and went (what assertDataConsistency() looks at,  *)
(* in full: it never compares the two maps element by element).            *)
(***************************************************************************)
Tiles(s) ==
    LET n == Len(s.members)
    IN  /\ Len(s.memberToReq) = n + 1
        /\ s.memberToReq[1] = 0
        /\ Total(s) = Len(s.req)
        /\ Len(s.reqToMember) = Len(s.req)
        /\ \A i, j \in 1 .. n + 1 : i < j => s.memberToReq[i] < s.memberToReq[j]
        /\ \A r \in 1 .. Len(s.req) :
               s.reqToMember[r] \in 1 .. n /\ r \in Block(s, s.reqToMember[r])

BlocksTile == Tiles(stage)

(***************************************************************************)
(* A Member and the stage name each other, no Member holds two slots, and  *)
(* the last slot is never a hole: getRequestPointer() of a Member gives it *)
(* a block nobody else has.                                                *)
(***************************************************************************)
MutualReferences ==
    LET ms == stage.members
    IN  /\ \A m \in Members : onStage[m] =>
               /\ index[m] \in 1 .. Len(ms)
               /\ ms[index[m]] = m
               /\ nreq[m] = stage.memberToReq[index[m] + 1]
                               - stage.memberToReq[index[m]]
        /\ \A i \in 1 .. Len(ms) : ms[i] # NoMember =>
               onStage[ms[i]] /\ index[ms[i]] = i
        /\ Len(ms) > 0 => ms[Len(ms)] # NoMember
        /\ count = Cardinality({m \in Members : onStage[m]})

\* Both, with the request blocks: what every operation of a Member relies on.
MapsConsistent == BlocksTile /\ MutualReferences

(***************************************************************************)
(* A pending request belongs to a Member that is in an operation, never to *)
(* a hole: advanceSome() dereferences d_members[...] of whatever request   *)
(* MPI returns without looking, and asserts that the Member is not done.   *)
(***************************************************************************)
NoOrphanRequest ==
    \A r \in Pending(stage) :
        LET m == stage.members[stage.reqToMember[r]]
        IN  m # NoMember /\ ~isDone(m)

(***************************************************************************)
(* A Member in an operation has a request for the stage to wait on.  One   *)
(* that had none would never be proceeded with again, and advanceAll()     *)
(* would return with its operation unfinished.                             *)
(***************************************************************************)
NoStrandedMember == \A m \in Members : ~isDone(m) => hasPendingRequests(m)

\* Both: requests and operations in flight belong together.
RequestsOwned == NoOrphanRequest /\ NoStrandedMember

(***************************************************************************)
(* The completion queue names each Member that finished through the stage, *)
(* or was pushed, and has not been returned: none is lost, none is listed  *)
(* twice, and popCompletionQueue() never meets a hole, an index beyond the *)
(* vector, a Member back in operation, or another Member in a reused slot. *)
(***************************************************************************)
QueueExact ==
    /\ \A i, j \in 1 .. Len(completed) : completed[i] = completed[j] => i = j
    /\ \A i \in 1 .. Len(completed) :
           LET m == MemberAt(completed[i])
           IN  m # NoMember /\ isDone(m) /\ earned[m]
    /\ \A m \in Members : earned[m] => Queued(m)

(***************************************************************************)
(* advanceSome(), advanceAny() and advanceAll() do not come back from a    *)
(* wait empty-handed: they return with a completed Member in the queue, or *)
(* because no request was pending.                                         *)
(***************************************************************************)
AdvanceDelivers ==
    [][call # "none" /\ call' = "none" =>
          completed' # <<>> \/ Pending(stage) = {}]_vars

(***************************************************************************)
(* Staging and destaging of other Members never move or drop the requests  *)
(* of a Member with communication in flight: MPI will store through them.  *)
(***************************************************************************)
PendingRequestsStay ==
    [][\A m \in Members : ~isDone(m) /\ todo'[m] = todo[m] =>
          /\ index'[m] = index[m]
          /\ stage'.memberToReq[index[m]] = stage.memberToReq[index[m]]
          /\ stage'.memberToReq[index[m] + 1] = stage.memberToReq[index[m] + 1]
      ]_vars

(***************************************************************************)
(* A blocking call of the stage returns: no wait of a call is left for a   *)
(* message that no request of the stage receives.                          *)
(***************************************************************************)
CallsReturn == call # "none" ~> call = "none"

(***************************************************************************)
(* What the class comment says of advanceSome() against advanceAny(): with *)
(* a client that keeps polling, every operation is finished, however often *)
(* the other Members are restarted.                                        *)
(***************************************************************************)
NoStarvation == \A m \in Members : ~isDone(m) ~> isDone(m)

=============================================================================
