-------------------------- MODULE PeerSessionProofs --------------------------
(***************************************************************************)
(* Two AsyncCommPeer objects exchange whole messages, for sessions of any  *)
(* number of operations, messages of any length, any first data length     *)
(* that sender and receiver agree on, and any number of items to a         *)
(* FlexData.  What the methods do to objects and channels is in            *)
(* PeerStreams; here the owners come to it, the sizes of the buffers and   *)
(* the histories that the refinement is about.                             *)
(***************************************************************************)
EXTENDS PeerSession, PeerStreams

(***************************************************************************)
(* Sender and receiver of each operation set the same first data length.   *)
(* The class allows no other use: d_max_first_data_len decides at either   *)
(* end whether there is a second chunk.                                    *)
(***************************************************************************)
LimitsAgree == \A l \in Limits : l[1] = l[2]

-----------------------------------------------------------------------------
(* The invariant.                                                          *)

(***************************************************************************)
(* The buffer has the room its operation needs, the second chunk of a      *)
(* message that is not yet known to have one excepted.                     *)
(***************************************************************************)
Roomy(s) ==
    /\ Phase(s) = "send_check" =>
          s.held /\ Room(s) <= s.cap * ItemsPerFlex
    /\ Phase(s) = "recv_check0" =>
          s.held /\ getNumberOfFlexData(s.limit) + 2 <= s.cap
    /\ Phase(s) = "recv_check1" =>
          /\ s.held
          /\ s.limit + (getNumberOfFlexData(s.full - s.limit) + 2) * ItemsPerFlex
                <= s.cap * ItemsPerFlex

\* The two ends follow one script.
Scripts == [e \in Ends |-> script]

StreamsInv == PeersOK(end, chan, sent, round, Scripts, Rounds)

BuffersInv == ~ReuseCleared => \A e \in Ends : Roomy(end[e])

\* Messages received: those of the receives that are finished.
ReceivedInv ==
    \A e \in Ends :
        Len(got[e]) = Count(script, PeerOf[e], 0, Finished(end[e], round[e]))

SessionInv == TypeOK /\ StreamsInv /\ BuffersInv /\ ReceivedInv

-----------------------------------------------------------------------------
\* An end, in a state of the invariant.
LEMMA EndFacts ==
    ASSUME SessionInv, NEW e \in Ends
    PROVE  /\ end \in [Ends -> EndType] /\ end[e] \in EndType
           /\ chan \in [Ends -> [Chunks -> Seq(Message)]]
           /\ sent \in [Ends -> Seq(Payload)] /\ got \in [Ends -> Seq(Payload)]
           /\ round \in [Ends -> 0 .. Rounds] /\ round[e] \in 0 .. Rounds
           /\ round[e] \in Nat /\ Rounds \in Nat
           /\ waiting \in [Ends -> BOOLEAN]
           /\ script \in [1 .. Rounds -> Operations]
           /\ PeerOf[e] \in Ends /\ PeerOf[e] # e
           /\ \A x \in Ends : x = e \/ x = PeerOf[e]
           /\ EndOK(end[e], e, round[e], script)
           /\ ~ReuseCleared => Roomy(end[e])
           /\ Scripts[e] = script
<1>1. /\ end \in [Ends -> EndType]
      /\ chan \in [Ends -> [Chunks -> Seq(Message)]]
      /\ sent \in [Ends -> Seq(Payload)] /\ got \in [Ends -> Seq(Payload)]
      /\ round \in [Ends -> 0 .. Rounds]
      /\ waiting \in [Ends -> BOOLEAN]
      /\ script \in [1 .. Rounds -> Operations]
  BY DEF SessionInv, TypeOK, PeersTypeOK
<1>2. /\ PeerOf[e] \in Ends /\ PeerOf[e] # e
      /\ \A x \in Ends : x = e \/ x = PeerOf[e]
  BY SessionAssumption, PeerAssumption
<1>3. Scripts[e] = script
  BY DEF Scripts
<1>4. EndOK(end[e], e, round[e], script)
  BY <1>3 DEF SessionInv, StreamsInv, PeersOK
<1>5. ~ReuseCleared => Roomy(end[e])
  BY DEF SessionInv, BuffersInv
<1>6. round[e] \in 0 .. Rounds /\ round[e] \in Nat /\ Rounds \in Nat
  BY <1>1, SessionAssumption
<1> QED
  BY <1>1, <1>2, <1>3, <1>4, <1>5, <1>6

\* The operations of a script are such as PeerStreams is about.
LEMMA OperationFacts ==
    ASSUME LimitsAgree, script \in [1 .. Rounds -> Operations],
           NEW k \in 1 .. Rounds
    PROVE  /\ OperationOK(script[k])
           /\ script[k].from \in Ends
           /\ script[k].size \in Sizes /\ script[k].size \in Nat
<1>1. /\ script[k].from \in Ends /\ script[k].size \in Sizes
      /\ script[k].limits \in Limits
  BY DEF Operations
<1>2. script[k].limits \in Nat \X Nat /\ script[k].size \in Nat
  BY <1>1, SessionAssumption
<1>3. script[k].limits[1] = script[k].limits[2]
  BY <1>1 DEF LimitsAgree
<1> QED
  BY <1>1, <1>2, <1>3 DEF OperationOK

LEMMA ScriptsFit ==
    ASSUME LimitsAgree, script \in [1 .. Rounds -> Operations]
    PROVE  ScriptsOK(Scripts, Rounds)
<1>1. ASSUME NEW e \in Ends
      PROVE  /\ PeerOf[e] # e /\ Scripts[PeerOf[e]] = Scripts[e]
             /\ Scripts[e] = script
  BY SessionAssumption, PeerAssumption DEF Scripts
<1> QED
  BY <1>1, OperationFacts DEF ScriptsOK

(***************************************************************************)
(* A step of end e, whose object becomes t: besides what PeerStreams says  *)
(* of it there is to show that the buffer suffices and that the messages   *)
(* received are counted.                                                   *)
(***************************************************************************)
LEMMA StepOfEnd ==
    ASSUME SessionInv, NEW e \in Ends, NEW t,
           end' = [end EXCEPT ![e] = t], script' = script,
           waiting' \in [Ends -> BOOLEAN], got' \in [Ends -> Seq(Payload)],
           PeersOK(end', chan', sent', round', Scripts, Rounds),
           ~ReuseCleared => Roomy(t),
           Len(got'[e]) = Count(script, PeerOf[e], 0, Finished(t, round'[e])),
           \A x \in Ends : x # e => got'[x] = got[x] /\ round'[x] = round[x]
    PROVE  SessionInv'
<1>1. end \in [Ends -> EndType] /\ script \in [1 .. Rounds -> Operations]
  BY EndFacts
<1>2. end'[e] = t /\ \A x \in Ends : x # e => end'[x] = end[x]
  BY <1>1
<1>3. TypeOK'
  BY <1>1 DEF TypeOK, PeersTypeOK, PeersOK
<1>4. StreamsInv'
  BY DEF StreamsInv, Scripts
<1>5. BuffersInv'
  BY <1>2 DEF BuffersInv, SessionInv
<1>6. ReceivedInv'
  <2> SUFFICES ASSUME NEW x \in Ends
               PROVE  Len(got'[x]) = Count(script', PeerOf[x], 0,
                                           Finished(end'[x], round'[x]))
    BY DEF ReceivedInv
  <2>1. CASE x = e
    BY <2>1, <1>2
  <2>2. CASE x # e
    BY <2>2, <1>2 DEF SessionInv, ReceivedInv
  <2> QED
    BY <2>1, <2>2
<1> QED
  BY <1>3, <1>4, <1>5, <1>6 DEF SessionInv

\* A step that moves nothing between the ends.
LEMMA StepInside ==
    ASSUME SessionInv, NEW e \in Ends, NEW t,
           end' = [end EXCEPT ![e] = t],
           UNCHANGED <<chan, sent, got, script, round>>,
           waiting' \in [Ends -> BOOLEAN],
           StaysOK(end[e], t, e, round[e], script),
           ~ReuseCleared => Roomy(t)
    PROVE  SessionInv'
<1>1. PeersOK(end, chan, sent, round, Scripts, Rounds) /\ Scripts[e] = script
  BY EndFacts DEF SessionInv, StreamsInv
<1>2. PeersOK(end', chan', sent', round', Scripts, Rounds)
  <2>1. PeersOK([end EXCEPT ![e] = t], chan, sent, round, Scripts, Rounds)
    BY <1>1, PeerStays
  <2> QED
    BY <2>1
<1>3. got' \in [Ends -> Seq(Payload)]
  BY EndFacts
<1>4. Len(got'[e]) = Count(script, PeerOf[e], 0, Finished(t, round'[e]))
  <2>1. Finished(t, round[e]) = Finished(end[e], round[e])
    BY DEF StaysOK
  <2> QED
    BY <2>1 DEF SessionInv, ReceivedInv
<1> QED
  BY <1>2, <1>3, <1>4, StepOfEnd

-----------------------------------------------------------------------------
(* One lemma for each operation.                                           *)

FifoStep == [Fifo!Next]_<<sent, got>>

LEMMA StepAtRest ==
    ASSUME SessionInv, NEW e \in Ends, NEW t \in EndType,
           Resting(end[e]), Resting(t),
           end' = [end EXCEPT ![e] = t],
           UNCHANGED <<chan, sent, got, script, round, waiting>>
    PROVE  SessionInv'
<1>1. waiting' \in [Ends -> BOOLEAN]
  BY EndFacts
<1>2. Roomy(t)
  BY DEF Resting, Phase, Roomy
<1>3. StaysOK(end[e], t, e, round[e], script)
  BY RestingStays
<1> QED
  BY <1>1, <1>2, <1>3, StepInside

LEMMA ClearStep ==
    ASSUME SessionInv, NEW e \in Ends, Clear(e)
    PROVE  SessionInv'
<1> DEFINE t == [end[e] EXCEPT !.held = FALSE, !.data = <<>>]
<1>1. end[e].at = "out" /\ isDone(e)
  BY DEF Clear, clearRecvData
<1>2. end[e] \in EndType /\ end \in [Ends -> EndType]
  BY EndFacts
<1>3. t \in EndType /\ t.at = end[e].at /\ t.next = end[e].next /\ t.req = end[e].req
  <2>1. <<>> \in Seq(Nat \X Nat)
    OBVIOUS
  <2> QED
    BY <1>2, <2>1 DEF EndType
<1>4. Resting(end[e])
  BY <1>1, EndFacts, RestingWhenDone DEF isDone
<1>5. end' = [end EXCEPT ![e] = t]
  BY <1>2 DEF Clear, clearRecvData, EndType
<1> HIDE DEF t
<1>6. Resting(t)
  BY <1>3, <1>4 DEF Resting
<1> QED
  BY <1>3, <1>4, <1>5, <1>6, StepAtRest DEF Clear

LEMMA ReplaceStep ==
    ASSUME SessionInv, NEW e \in Ends, Replace(e)
    PROVE  SessionInv'
<1> DEFINE u == [end[e] EXCEPT !.base = "undefined"]
<1>1. end[e].at = "out" /\ isDone(e)
  BY DEF Replace, Idle, Reconstruct, initialize
<1>2. end[e] \in EndType /\ end \in [Ends -> EndType]
  BY EndFacts
<1>3. Resting(end[e])
  BY <1>1, EndFacts, RestingWhenDone DEF isDone
<1>4. NewEnd \in EndType /\ Resting(NewEnd)
  BY DEF NewEnd, EndType, Resting, TaskOps, Chunks
<1>5. u \in EndType /\ u.at = end[e].at /\ u.next = end[e].next /\ u.req = end[e].req
  BY <1>2 DEF EndType
<1>6. end' = [end EXCEPT ![e] = NewEnd] \/ end' = [end EXCEPT ![e] = u]
  BY <1>2 DEF Replace, Reconstruct, initialize, EndType
<1> HIDE DEF u
<1>7. Resting(u)
  BY <1>3, <1>5 DEF Resting
<1> QED
  BY <1>3, <1>4, <1>5, <1>6, <1>7, StepAtRest DEF Replace

\* completeCurrentOperation() is entered or left: the objects stay as they are.
LEMMA OwnerStep ==
    ASSUME SessionInv, waiting' \in [Ends -> BOOLEAN],
           UNCHANGED <<end, chan, sent, got, script, round>>
    PROVE  SessionInv'
BY DEF SessionInv, TypeOK, PeersTypeOK, StreamsInv, Scripts, BuffersInv, ReceivedInv

LEMMA ProceedStep ==
    ASSUME SessionInv, NEW e \in Ends, NEW S, proceedToNextWait(e, S),
           UNCHANGED <<script, round>>, waiting' \in [Ends -> BOOLEAN]
    PROVE  SessionInv'
<1> DEFINE s == end[e]
           t == Proceeding(end[e], S)
<1>1. /\ end' = [end EXCEPT ![e] = t] /\ UNCHANGED <<chan, sent, got>>
      /\ s.at = "out" /\ s.next # "none"
      /\ S \subseteq {c \in Chunks : s.req[c] = "arrived"}
  BY EndFacts, ProceedsTo
<1>2. s \in EndType /\ EndOK(s, e, round[e], script) /\ (~ReuseCleared => Roomy(s))
  BY EndFacts
<1>3. /\ StaysOK(s, t, e, round[e], script)
      /\ t.base = s.base /\ t.limit = s.limit /\ t.full = s.full
      /\ t.held = s.held /\ t.cap = s.cap /\ Phase(t) = Phase(s)
  BY <1>1, <1>2, Proceeds
<1> HIDE DEF s, t
<1>4. ~ReuseCleared => Roomy(t)
  <2>1. Phase(s) = "send_check" => Room(t) = Room(s)
    <3>1. Phase(s) = "send_check" => s.base = "send"
      BY <1>2 DEF EndOK, Resting, Sending, AwaitsFirst, AwaitsRest, Phase
    <3> QED
      BY <3>1, <1>3 DEF Room
  <2> QED
    BY <2>1, <1>2, <1>3 DEF Roomy
<1> QED
  BY <1>1, <1>3, <1>4, StepInside DEF s, t

\* The enlarged buffer has room for the second chunk behind the first.
LEMMA RestFits ==
    ASSUME NEW lim \in Nat, NEW cap \in Nat, NEW f \in Nat,
           getNumberOfFlexData(lim) + 2 <= cap
    PROVE  lim + (f + 2) * ItemsPerFlex <= (cap + f) * ItemsPerFlex
<1> DEFINE I == ItemsPerFlex
           a == getNumberOfFlexData(lim)
<1>1. I \in Nat /\ a \in Nat /\ lim <= a * I
  BY FlexHolds, PeerAssumption
<1> HIDE DEF I, a
<1>2. (f + 2) * I = f * I + 2 * I /\ (cap + f) * I = cap * I + f * I
  BY <1>1
<1>3. (a + 2) * I <= cap * I
  <2>1. a + 2 <= cap
    BY DEF a
  <2> QED
    BY <2>1, <1>1
<1>4. (a + 2) * I = a * I + 2 * I
  BY <1>1
<1>5. a * I \in Nat /\ f * I \in Nat /\ cap * I \in Nat
  BY <1>1
<1>6. lim + (f * I + 2 * I) <= cap * I + f * I
  BY <1>1, <1>3, <1>4, <1>5
<1> QED
  BY <1>2, <1>6 DEF I

\* A case of a check method leaves room for what the object goes on with.
LEMMA ChecksKeepRoom ==
    ASSUME LimitsAgree, SessionInv, NEW e \in Ends, CheckStep(e), Roomy(end[e])
    PROVE  Roomy(end'[e])
<1> DEFINE s == end[e]
           r == round[e]
<1>1. /\ end \in [Ends -> EndType] /\ s \in EndType /\ EndOK(s, e, r, script)
      /\ s.limit \in Nat /\ s.cap \in Nat /\ s.trailer.full \in Nat
  BY EndFacts DEF EndType
<1>2. ASSUME s.at \in {"recv_check0", "recv_check1"} PROVE OperationOK(script[r])
  <2>1. r \in 1 .. Rounds
    BY <1>1, <1>2, Receives, EndFacts
  <2> QED
    BY <2>1, EndFacts, OperationFacts
<1>3. ASSUME NEW t, Phase(t) = "none" PROVE Roomy(t)
  BY <1>3 DEF Roomy
<1>4. CASE send_check(e)
  <2>1. s.at = "send_check" /\ end'[e] = SendChecked(s)
    BY <1>1, <1>4 DEF send_check, SendChecked
  <2>2. PICK t : t = SendChecked(s)
    OBVIOUS
  <2>3. /\ Sending(s, e, r, script)
        /\ t.at = "out" /\ t.base = s.base /\ t.limit = s.limit
        /\ t.held = s.held /\ t.cap = s.cap
        /\ t.next # "none" => t.next = "send_check" /\ t.full = s.full
    BY <1>1, <2>1, <2>2, SendChecks
  <2>4. CASE t.next = "none"
    BY <2>1, <2>2, <2>3, <2>4, <1>3 DEF Phase
  <2>5. CASE t.next # "none"
    <3>1. Phase(t) = "send_check" /\ Phase(s) = "send_check" /\ s.base = "send"
      BY <2>1, <2>3, <2>5 DEF Phase, Sending
    <3>2. Room(t) = Room(s)
      BY <2>3, <2>5, <3>1 DEF Room
    <3> QED
      BY <2>1, <2>2, <2>3, <3>1, <3>2 DEF Roomy
  <2> QED
    BY <2>4, <2>5
<1>5. ASSUME NEW task, s.at = task, task # "out",
             \/ task = "recv_check0" /\ s.req[0] = "active"
             \/ task = "recv_check1" /\ s.req[1] = "active",
             end' = [end EXCEPT ![e].next = task, ![e].at = "out"]
      PROVE  Roomy(end'[e])
  <2> DEFINE t == [s EXCEPT !.next = task, !.at = "out"]
  <2>1. end'[e] = t
    BY <1>1, <1>5 DEF EndType
  <2>2. /\ t.at = "out" /\ t.next = task /\ t.full = s.full /\ t.limit = s.limit
        /\ t.held = s.held /\ t.cap = s.cap /\ t.base = s.base
    BY <1>1 DEF EndType
  <2> HIDE DEF t
  <2>3. Phase(t) = task /\ Phase(s) = task /\ task # "send_check"
    BY <1>5, <2>2 DEF Phase
  <2> QED
    BY <2>1, <2>2, <2>3 DEF Roomy
<1>6. ASSUME NEW t, EndsReceive(s, Received(t), e, r, script), Finish(e, t)
      PROVE  Roomy(end'[e])
  <2>1. end'[e] = Received(t)
    BY <1>1, <1>6 DEF Finish, Received
  <2> QED
    BY <2>1, <1>3, <1>6 DEF EndsReceive, Resting, Phase
<1>7. CASE recv_check0(e)
  <2>1. s.at = "recv_check0" /\ OperationOK(script[r])
    BY <1>7, <1>2 DEF recv_check0
  <2>2. Tested(s, {0})[0] # "null" <=> s.req[0] = "active"
    BY <1>1 DEF Tested, EndType, Chunks
  <2>3. CASE /\ Tested(s, {0})[0] # "null"
             /\ end' = [end EXCEPT ![e].next = "recv_check0", ![e].at = "out"]
    BY <2>1, <2>2, <2>3, <1>5
  <2>4. CASE /\ Tested(s, {0})[0] = "null" /\ GoesOn(s)
             /\ end' = [end EXCEPT ![e] = WithRestPosted(s)]
    <3>1. PICK v : v = WithRestPosted(s)
      OBVIOUS
    <3>2. /\ v.at = "recv_check1" /\ v.limit = s.limit /\ v.full = s.trailer.full
          /\ v.held /\ v.cap = s.cap + getNumberOfFlexData(s.trailer.full - s.limit)
      BY <3>1, <2>1, <2>2, <2>4, <1>1, PostsTheRest
    <3>3. getNumberOfFlexData(s.limit) + 2 <= s.cap
      BY <2>1 DEF Roomy, Phase
    <3>4. getNumberOfFlexData(s.trailer.full - s.limit) \in Nat
      <4>1. s.trailer.full - s.limit \in Nat
        BY <2>4, <1>1 DEF GoesOn
      <4> QED
        BY <4>1, FlexHolds
    <3>5. s.limit + (getNumberOfFlexData(s.trailer.full - s.limit) + 2) * ItemsPerFlex
             <= (s.cap + getNumberOfFlexData(s.trailer.full - s.limit)) * ItemsPerFlex
      BY <3>3, <3>4, <1>1, RestFits
    <3>6. end'[e] = v /\ Phase(v) = "recv_check1"
      BY <3>1, <3>2, <2>4, <1>1 DEF Phase
    <3> HIDE DEF s
    <3> QED
      BY <3>2, <3>5, <3>6 DEF Roomy
  <2>5. CASE /\ Tested(s, {0})[0] = "null" /\ ~GoesOn(s)
             /\ Finish(e, FirstChecked(s))
    <3>1. EndsReceive(s, Received(FirstChecked(s)), e, r, script)
      BY <2>1, <2>2, <2>5, <1>1, EndFacts, EndsWithFirst
    <3> QED
      BY <2>5, <3>1, <1>6
  <2> QED
    BY <2>3, <2>4, <2>5, <1>7 DEF recv_check0, WithRestPosted, FirstChecked
<1>8. CASE recv_check1(e)
  <2>1. s.at = "recv_check1" /\ OperationOK(script[r])
    BY <1>8, <1>2 DEF recv_check1
  <2>2. Tested(s, {1})[1] # "null" <=> s.req[1] = "active"
    BY <1>1 DEF Tested, EndType, Chunks
  <2>3. CASE /\ Tested(s, {1})[1] # "null"
             /\ end' = [end EXCEPT ![e].next = "recv_check1", ![e].at = "out"]
    BY <2>1, <2>2, <2>3, <1>5
  <2>4. CASE Tested(s, {1})[1] = "null" /\ Finish(e, RestChecked(s))
    <3>1. EndsReceive(s, Received(RestChecked(s)), e, r, script)
      BY <2>1, <2>2, <2>4, <1>1, EndFacts, EndsWithRest
    <3> QED
      BY <2>4, <3>1, <1>6
  <2> QED
    BY <2>3, <2>4, <1>8 DEF recv_check1, RestChecked
<1> QED
  BY <1>4, <1>7, <1>8 DEF CheckStep

LEMMA CheckStays ==
    ASSUME LimitsAgree, SessionInv, NEW e \in Ends, Check(e)
    PROVE  SessionInv' /\ FifoStep
<1> DEFINE r == round[e]
           p == PeerOf[e]
<1>1. /\ end \in [Ends -> EndType] /\ got \in [Ends -> Seq(Payload)]
      /\ round \in [Ends -> 0 .. Rounds] /\ r \in Nat
      /\ waiting \in [Ends -> BOOLEAN]
      /\ p \in Ends /\ p # e /\ Scripts[e] = script
      /\ PeersOK(end, chan, sent, round, Scripts, Rounds)
  BY EndFacts DEF SessionInv, StreamsInv
<1>2. CheckStep(e) /\ UNCHANGED <<script, round, waiting>>
  BY DEF Check
<1>3. PICK t \in EndType :
        /\ end' = [end EXCEPT ![e] = t] /\ chan' = chan /\ sent' = sent
        /\ \/ /\ StaysOK(end[e], t, e, round[e], Scripts[e])
              /\ got' = got
           \/ /\ EndsReceive(end[e], t, e, round[e], Scripts[e])
              /\ got' = [got EXCEPT ![e] = Append(@, Msg(Scripts[e], round[e]))]
        /\ PeersOK([end EXCEPT ![e] = t], chan, sent, round, Scripts, Rounds)
  BY <1>1, <1>2, ChecksTo
<1>4. ~ReuseCleared => Roomy(t)
  BY <1>1, <1>2, <1>3, EndFacts, ChecksKeepRoom
<1>5. CASE StaysOK(end[e], t, e, r, script) /\ got' = got
  BY <1>1, <1>2, <1>3, <1>4, <1>5, StepInside DEF FifoStep
<1>6. CASE /\ EndsReceive(end[e], t, e, r, script)
           /\ got' = [got EXCEPT ![e] = Append(@, Msg(script, r))]
  <2>1. /\ Uses(script, p, 0, r) /\ r >= 1
        /\ Finished(t, r) = r /\ Finished(end[e], r) = r - 1
        /\ ~Due(end[e], 0)
    BY <1>6 DEF EndsReceive, Uses, Chunks
  <2>2. /\ Len(got[e]) = Count(script, p, 0, r - 1)
        /\ Count(script, p, 0, r) = Count(script, p, 0, r - 1) + 1
        /\ Count(script, p, 0, r - 1) \in Nat
    <3>1. Len(got[e]) = Count(script, p, 0, r - 1)
      BY <2>1 DEF SessionInv, ReceivedInv
    <3>2. Count(script, p, 0, (r - 1) + 1) = Count(script, p, 0, r - 1) + 1
      <4>1. r - 1 \in Nat /\ (r - 1) + 1 = r
        BY <1>1, <2>1
      <4> HIDE DEF r
      <4> QED
        BY <4>1, <2>1, CountNext
    <3>3. r - 1 \in Nat /\ (r - 1) + 1 = r
      BY <1>1, <2>1
    <3> QED
      BY <3>1, <3>2, <3>3, CountType
  <2>3. /\ r <= round[p]
        /\ sent[p][Count(script, p, 0, r)] = Msg(script, r)
        /\ Count(script, p, 0, r) <= Len(sent[p])
    <3>1. /\ StreamOK(chan[p][0], p, 0, round[p], Taken(end[e], 0, r), script)
          /\ SentOK(sent[p], p, round[p], script) /\ round[p] \in Nat
      BY <1>1, PeerFacts DEF PeersOK, Chunks, Scripts
    <3>2. r <= round[p] /\ r \in 1 .. round[p]
      BY <1>1, <2>1, <3>1 DEF StreamOK, Taken
    <3>3. Count(script, p, 0, r) <= Count(script, p, 0, round[p])
      BY <1>1, <3>1, <3>2, CountGrows
    <3> QED
      BY <2>1, <3>1, <3>2, <3>3 DEF SentOK
  <2>4. Fifo!Receive(e)
    <3> HIDE DEF r
    <3>1. Len(got[e]) + 1 = Count(script, p, 0, r)
      BY <2>2
    <3> QED
      BY <3>1, <2>3, <1>3, <1>6 DEF Fifo!Receive
  <2>5. Msg(script, r) \in Payload
    <3>1. r \in 1 .. Rounds
      BY <2>1, EndFacts
    <3>2. script[r].size \in Nat /\ script[r].limits[1] \in Nat
      BY <3>1, EndFacts, OperationFacts DEF OperationOK
    <3> QED
      BY <1>1, <3>2, PartFacts
  <2>6. /\ got' \in [Ends -> Seq(Payload)]
        /\ Len(got'[e]) = Len(got[e]) + 1
        /\ \A x \in Ends : x # e => got'[x] = got[x]
    BY <1>1, <1>6, <2>5
  <2>7. SessionInv'
    <3>1. PeersOK(end', chan', sent', round', Scripts, Rounds)
      BY <1>2, <1>3
    <3>2. Len(got'[e]) = Count(script, PeerOf[e], 0, Finished(t, round'[e]))
      BY <2>1, <2>2, <2>6, <1>2
    <3>3. \A x \in Ends : x # e => got'[x] = got[x] /\ round'[x] = round[x]
      BY <2>6, <1>2
    <3> HIDE DEF r, p
    <3> QED
      BY <3>1, <3>2, <3>3, <1>1, <1>2, <1>3, <1>4, <2>6, StepOfEnd
  <2> QED
    BY <2>4, <2>7 DEF FifoStep, Fifo!Next
<1> QED
  BY <1>1, <1>3, <1>5, <1>6

LEMMA TransferStep ==
    ASSUME SessionInv, NEW e \in Ends, NEW c \in Chunks, Transfer(e, c),
           UNCHANGED <<script, round, waiting>>
    PROVE  SessionInv'
<1> DEFINE p == PeerOf[e]
           m == Head(chan[p][c])
           s == end[e]
           u == With(end[e], c, m)
<1>1. /\ s \in EndType /\ end \in [Ends -> EndType] /\ waiting \in [Ends -> BOOLEAN]
      /\ got \in [Ends -> Seq(Payload)] /\ Scripts[e] = script
      /\ round[e] \in Nat /\ EndOK(s, e, round[e], script)
      /\ PeersOK(end, chan, sent, round, Scripts, Rounds)
      /\ ~ReuseCleared => Roomy(s)
  BY EndFacts DEF SessionInv, StreamsInv
<1>2. /\ end' = [end EXCEPT ![e] = u] /\ chan' = [chan EXCEPT ![p][c] = Tail(@)]
      /\ s.base = "recv" /\ s.req[c] = "active" /\ chan[p][c] # <<>>
      /\ UNCHANGED <<sent, got>>
  BY <1>1, TransfersTo
<1>3. /\ m = Part(script, c, round[e]) /\ round[e] >= 1
      /\ PeersOK(end', chan', sent', round', Scripts, Rounds)
  <2>1. /\ PeersOK(end, chan, sent, round, Scripts, Rounds)
        /\ end[e].base = "recv" /\ end[e].req[c] = "active"
        /\ chan[PeerOf[e]][c] # <<>>
    BY <1>1, <1>2
  <2>2. /\ m = Part(Scripts[e], c, round[e])
        /\ round[e] >= 1 /\ round[e] <= round[p]
        /\ PeersOK([end EXCEPT ![e] = u],
                   [chan EXCEPT ![p][c] = Tail(@)], sent, round, Scripts, Rounds)
    BY <2>1, ChunkTaken
  <2> HIDE DEF m, p, s, u
  <2> QED
    BY <2>2, <1>1, <1>2
<1>4. OperationOK(script[round[e]])
  BY <1>1, <1>3, PeerFacts
<1>5. /\ Finished(u, round[e]) = Finished(s, round[e])
      /\ u.base = s.base /\ u.full = s.full /\ u.limit = s.limit
      /\ u.held = s.held /\ u.cap = s.cap /\ Phase(u) = Phase(s)
      /\ Phase(s) = IF c = 0 THEN "recv_check0" ELSE "recv_check1"
  <2>1. u = With(s, c, Part(script, c, round[e]))
    BY <1>3
  <2>2. PICK r \in Nat : r = round[e]
    BY <1>1
  <2> HIDE DEF u, m, s
  <2>3. /\ s \in EndType /\ EndOK(s, e, r, script) /\ OperationOK(script[r])
        /\ s.base = "recv" /\ s.req[c] = "active"
        /\ u = With(s, c, Part(script, c, r))
    BY <2>1, <2>2, <1>1, <1>2, <1>4
  <2>4. /\ Part(script, c, r) \in Message
        /\ Landed(s, c, Part(script, c, r).data) \in Payload
    BY <2>3, Lands
  <2>5. Phase(s) = IF c = 0 THEN "recv_check0" ELSE "recv_check1"
    BY <2>3, ChunkComes
  <2>6. /\ u.base = s.base /\ u.full = s.full /\ u.limit = s.limit
        /\ u.held = s.held /\ u.cap = s.cap /\ u.at = s.at /\ u.next = s.next
    BY <2>3, <2>4 DEF With, EndType, Message, Payload
  <2> QED
    BY <2>2, <2>5, <2>6 DEF Phase, Finished
<1> HIDE DEF u, m, s
<1>6. ~ReuseCleared => Roomy(u)
  BY <1>1, <1>5 DEF Roomy
<1>7. Len(got'[e]) = Count(script, PeerOf[e], 0, Finished(u, round'[e]))
  BY <1>2, <1>5 DEF SessionInv, ReceivedInv, s
<1> QED
  BY <1>1, <1>2, <1>3, <1>6, <1>7, StepOfEnd DEF s

LEMMA SendCompletesStep ==
    ASSUME SessionInv, NEW e \in Ends, NEW c \in Chunks, SendCompletes(e, c),
           UNCHANGED <<script, round, waiting>>
    PROVE  SessionInv'
<1> DEFINE s == end[e]
           t == [end[e] EXCEPT !.req[c] = "arrived"]
<1>1. /\ s \in EndType /\ end \in [Ends -> EndType] /\ waiting \in [Ends -> BOOLEAN]
      /\ EndOK(s, e, round[e], script)
      /\ ~ReuseCleared => Roomy(s)
  BY EndFacts
<1>2. /\ end' = [end EXCEPT ![e] = t]
      /\ s.base = "send" /\ s.req[c] = "active"
      /\ UNCHANGED <<chan, sent, got>>
  BY <1>1, CompletesTo
<1>3. /\ StaysOK(s, t, e, round[e], script)
      /\ t.at = s.at /\ t.next = s.next /\ t.base = s.base
      /\ t.full = s.full /\ t.limit = s.limit
      /\ t.held = s.held /\ t.cap = s.cap
  BY <1>1, <1>2, SendIsCompleted
<1> HIDE DEF t, s
<1>4. ~ReuseCleared => Roomy(t)
  BY <1>1, <1>2, <1>3 DEF Roomy, Phase, Room
<1> QED
  BY <1>1, <1>2, <1>3, <1>4, StepInside DEF s

\* The operation that an end begins next, and the object it begins it with.
LEMMA NextOperation ==
    ASSUME LimitsAgree, SessionInv, NEW e \in Ends, Begin(e), end[e].next = "none"
    PROVE  LET k == round[e] + 1
               v == limitFirstDataLength(end[e], LimitOf(e, k))
           IN  /\ k \in 1 .. Rounds /\ round[e] < Rounds
               /\ OperationOK(script[k]) /\ script[k].size \in Sizes
               /\ script[k].from = IF Sends(e, k) THEN e ELSE PeerOf[e]
               /\ v \in EndType /\ Resting(v) /\ Resting(end[e])
               /\ v.limit = script[k].limits[IF Sends(e, k) THEN 1 ELSE 2]
               /\ ReuseCleared \/ v.held \/ v.cap = 0
<1> DEFINE k == round[e] + 1
           n == LimitOf(e, k)
           s == end[e]
<1>1. s.at = "out" /\ round[e] < Rounds /\ (ReuseCleared \/ s.held \/ s.cap = 0)
  BY DEF Begin, Idle
<1>2. k \in 1 .. Rounds /\ s \in EndType /\ EndOK(s, e, round[e], script)
  BY <1>1, EndFacts
<1>3. /\ OperationOK(script[k]) /\ script[k].size \in Sizes
      /\ script[k].from \in Ends
  BY <1>2, EndFacts, OperationFacts
<1>4. script[k].from = IF Sends(e, k) THEN e ELSE PeerOf[e]
  BY <1>3, EndFacts DEF Sends
<1>5. n \in Nat /\ n = script[k].limits[IF Sends(e, k) THEN 1 ELSE 2]
  BY <1>3 DEF LimitOf, OperationOK
<1>6. Resting(s)
  BY <1>2, RestingWhenDone
<1> HIDE DEF n, k, s
<1>7. PICK v : v = limitFirstDataLength(s, n)
  OBVIOUS
<1>8. /\ v \in EndType /\ v.limit = n /\ v.next = s.next /\ v.req = s.req
      /\ v.at = s.at /\ v.cap = s.cap /\ v.held = s.held
  BY <1>2, <1>5, <1>7, LimitedType
<1>9. Resting(v)
  BY <1>6, <1>8 DEF Resting
<1> QED
  BY <1>1, <1>2, <1>3, <1>4, <1>5, <1>6, <1>7, <1>8, <1>9 DEF n, k, s

LEMMA BeginRecvStep ==
    ASSUME LimitsAgree, SessionInv, NEW e \in Ends, Begin(e),
           ~Sends(e, round[e] + 1)
    PROVE  SessionInv' /\ FifoStep
<1> DEFINE k == round[e] + 1
           v == limitFirstDataLength(end[e], LimitOf(e, k))
           t == ReceiveBegun(v)
<1>1. /\ beginRecv(e, v) /\ round' = [round EXCEPT ![e] = k]
      /\ UNCHANGED <<script, waiting>>
  BY DEF Begin
<1>2. /\ end' = [end EXCEPT ![e] = t] /\ UNCHANGED <<chan, sent, got>>
      /\ v.next = "none"
  BY <1>1 DEF beginRecv, ReceiveBegun
<1>3. /\ round \in [Ends -> 0 .. Rounds] /\ round[e] \in Nat /\ k - 1 = round[e]
      /\ waiting \in [Ends -> BOOLEAN] /\ got \in [Ends -> Seq(Payload)]
      /\ Scripts[e] = script /\ Rounds \in Nat
      /\ PeersOK(end, chan, sent, round, Scripts, Rounds)
  <2>1. PeersOK(end, chan, sent, round, Scripts, Rounds)
    BY DEF SessionInv, StreamsInv
  <2>2. round \in [Ends -> 0 .. Rounds] /\ round[e] \in Nat
    BY EndFacts
  <2>3. k - 1 = round[e]
    BY <2>2
  <2>4. waiting \in [Ends -> BOOLEAN]
    BY EndFacts
  <2>5. got \in [Ends -> Seq(Payload)]
    BY EndFacts
  <2>6. Scripts[e] = script /\ Rounds \in Nat
    BY EndFacts
  <2>7. PeerOf[e] \in Ends /\ PeerOf[e] # e
    BY EndFacts
  <2> QED
    BY <2>1, <2>2, <2>3, <2>4, <2>5, <2>6, <2>7
<1>4. end[e].next = "none"
  BY <1>2 DEF limitFirstDataLength
<1>5. /\ k \in 1 .. Rounds /\ round[e] < Rounds /\ OperationOK(script[k])
      /\ script[k].from = PeerOf[e]
      /\ v \in EndType /\ Resting(v) /\ Resting(end[e])
      /\ v.limit = script[k].limits[2]
      /\ ReuseCleared \/ v.held \/ v.cap = 0
  BY <1>4, NextOperation
<1> HIDE DEF v
<1>6. PeersOK([end EXCEPT ![e] = t], chan, sent, [round EXCEPT ![e] = k], Scripts, Rounds)
  BY <1>3, <1>5, BeginsReceive
<1>7. /\ Finished(t, k) = k - 1 /\ t.at = "recv_check0"
      /\ getNumberOfFlexData(t.limit) + 2 <= t.cap
      /\ (v.held \/ v.cap = 0) => t.held = TRUE
  <2>1. k \in Nat /\ k >= 1
    BY <1>5
  <2> HIDE DEF k
  <2> QED
    BY <2>1, <1>5, ReceiveBegins
<1> HIDE DEF t
<1>8. ~ReuseCleared => Roomy(t)
  BY <1>5, <1>7 DEF Roomy, Phase
<1>9. Len(got'[e]) = Count(script, PeerOf[e], 0, Finished(t, k))
  <2>1. Finished(end[e], round[e]) = round[e]
    BY <1>5, AtRest
  <2> QED
    BY <2>1, <1>2, <1>3, <1>7 DEF SessionInv, ReceivedInv
<1>10. SessionInv'
  <2>1. /\ PeersOK(end', chan', sent', round', Scripts, Rounds)
        /\ round'[e] = k /\ \A x \in Ends : x # e => round'[x] = round[x]
    BY <1>1, <1>2, <1>3, <1>6
  <2> HIDE DEF k
  <2> QED
    BY <2>1, <1>1, <1>2, <1>3, <1>8, <1>9, StepOfEnd
<1> QED
  BY <1>2, <1>10 DEF FifoStep

LEMMA BeginSendStep ==
    ASSUME LimitsAgree, SessionInv, NEW e \in Ends, Begin(e),
           Sends(e, round[e] + 1)
    PROVE  SessionInv' /\ FifoStep
<1> DEFINE k == round[e] + 1
           v == limitFirstDataLength(end[e], LimitOf(e, k))
           n == script[k].size
           d == Data(Len(sent[e]) + 1, n)
           u == SendBegun(v, d, n)
<1>1. /\ beginSend(e, v, n) /\ round' = [round EXCEPT ![e] = k]
      /\ UNCHANGED <<script, waiting>>
  BY DEF Begin
<1>2. /\ end' = [end EXCEPT ![e] = u] /\ v.next = "none"
      /\ chan' = SentOn(chan, e, ChunksOf(d, v.limit))
      /\ sent' = [sent EXCEPT ![e] = Append(@, d)]
      /\ UNCHANGED got
  BY <1>1 DEF beginSend, SendBegun, SentOn
<1>3. /\ round \in [Ends -> 0 .. Rounds] /\ round[e] \in Nat /\ k - 1 = round[e]
      /\ waiting \in [Ends -> BOOLEAN] /\ got \in [Ends -> Seq(Payload)]
      /\ Scripts[e] = script /\ Rounds \in Nat
      /\ PeersOK(end, chan, sent, round, Scripts, Rounds)
      /\ PeerOf[e] \in Ends /\ PeerOf[e] # e
  <2>1. PeersOK(end, chan, sent, round, Scripts, Rounds)
    BY DEF SessionInv, StreamsInv
  <2>2. round \in [Ends -> 0 .. Rounds] /\ round[e] \in Nat
    BY EndFacts
  <2>3. k - 1 = round[e]
    BY <2>2
  <2>4. waiting \in [Ends -> BOOLEAN]
    BY EndFacts
  <2>5. got \in [Ends -> Seq(Payload)]
    BY EndFacts
  <2>6. Scripts[e] = script /\ Rounds \in Nat
    BY EndFacts
  <2>7. PeerOf[e] \in Ends /\ PeerOf[e] # e
    BY EndFacts
  <2> QED
    BY <2>1, <2>2, <2>3, <2>4, <2>5, <2>6, <2>7
<1>4. end[e].next = "none"
  BY <1>2 DEF limitFirstDataLength
<1>5. /\ k \in 1 .. Rounds /\ round[e] < Rounds /\ OperationOK(script[k])
      /\ script[k].from = e /\ n \in Sizes
      /\ v \in EndType /\ Resting(v) /\ Resting(end[e])
      /\ v.limit = script[k].limits[1]
      /\ ReuseCleared \/ v.held \/ v.cap = 0
  BY <1>4, NextOperation
<1> HIDE DEF v
<1>6. /\ d = Msg(script, k)
      /\ PeersOK([end EXCEPT ![e] = u], SentOn(chan, e, ChunksOf(d, v.limit)),
                 [sent EXCEPT ![e] = Append(@, d)], [round EXCEPT ![e] = k],
                 Scripts, Rounds)
  <2>1. round[e] < Rounds /\ d = Data(Len(sent[e]) + 1, Scripts[e][round[e] + 1].size)
        /\ Scripts[e][round[e] + 1].from = e
        /\ v.limit = Scripts[e][round[e] + 1].limits[1]
    BY <1>3, <1>5
  <2> HIDE DEF d
  <2>3. PeersOK(end, chan, sent, round, Scripts, Rounds) /\ Resting(end[e])
    BY <1>3, <1>5
  <2>4. v \in EndType /\ Resting(v)
    BY <1>5
  <2>5. PeersOK([end EXCEPT ![e] = SendBegun(v, d, Scripts[e][round[e] + 1].size)],
                SentOn(chan, e, ChunksOf(d, v.limit)),
                [sent EXCEPT ![e] = Append(@, d)],
                [round EXCEPT ![e] = round[e] + 1], Scripts, Rounds)
    BY <2>1, <2>3, <2>4, BeginsSend
  <2>6. d = Msg(Scripts[e], round[e] + 1)
    <3>1. SentOK(sent[e], e, round[e], script)
      BY <2>3, <1>3 DEF PeersOK
    <3>2. Count(script, e, 0, round[e] + 1) = Count(script, e, 0, round[e]) + 1
      <4>1. Uses(script, e, 0, round[e] + 1)
        BY <1>5 DEF Uses
      <4> QED
        BY <4>1, <1>3, CountNext
    <3> QED
      BY <2>1, <3>1, <3>2, <1>3 DEF Msg, SentOK
  <2> QED
    BY <2>5, <2>6, <1>3
<1>7. /\ Finished(u, k) = k /\ u.at = "send_check"
      /\ Room(u) <= u.cap * ItemsPerFlex
      /\ (v.held \/ v.cap = 0) => u.held = TRUE
  <2>1. k \in Nat /\ k >= 1 /\ u = SendBegun(v, Msg(script, k), script[k].size)
        /\ script[k].size \in Nat
    BY <1>5, <1>6 DEF OperationOK
  <2>2. PICK w : w = SendBegun(v, Msg(script, k), script[k].size)
    OBVIOUS
  <2> HIDE DEF k, d, n, u
  <2>3. w.at = "send_check"
    BY <2>1, <2>2, <1>5, SendBegins
  <2>4. Finished(w, k) = k
    BY <2>3 DEF Finished, Phase
  <2>5. Room(w) <= w.cap * ItemsPerFlex
    BY <2>1, <2>2, <1>5, SendBegins
  <2>6. (v.held \/ v.cap = 0) => w.held = TRUE
    BY <2>1, <2>2, <1>5, SendBegins
  <2> QED
    BY <2>1, <2>2, <2>3, <2>4, <2>5, <2>6
<1>8. Len(sent[e]) \in Nat /\ Len(sent[e]) <= round[e]
  <2>1. SentOK(sent[e], e, round[e], script)
    BY <1>3 DEF PeersOK
  <2>2. /\ Count(script, e, 0, round[e]) \in Nat
        /\ Count(script, e, 0, round[e]) <= round[e]
    BY <1>3, CountType
  <2> QED
    BY <2>1, <2>2 DEF SentOK
<1>9. Fifo!Send(e, d) /\ d \in {Data(i, m) : i \in 1 .. Rounds, m \in Sizes}
  <2>1. Fifo!Send(e, d)
    BY <1>2 DEF Fifo!Send
  <2>2. Len(sent[e]) + 1 \in 1 .. Rounds
    BY <1>3, <1>5, <1>8
  <2> QED
    BY <2>1, <2>2, <1>5
<1> HIDE DEF u, d, n
<1>10. ~ReuseCleared => Roomy(u)
  BY <1>5, <1>7 DEF Roomy, Phase
<1>11. Len(got'[e]) = Count(script, PeerOf[e], 0, Finished(u, k))
  <2>1. Len(got[e]) = Count(script, PeerOf[e], 0, round[e])
    BY <1>5, AtRest DEF SessionInv, ReceivedInv
  <2>2. ~Uses(script, PeerOf[e], 0, round[e] + 1)
    BY <1>3, <1>5 DEF Uses
  <2>3. Count(script, PeerOf[e], 0, round[e] + 1) = Count(script, PeerOf[e], 0, round[e])
    <3>1. Count(script, PeerOf[e], 0, round[e]) \in Nat
      BY <1>3, CountType
    <3> QED
      BY <2>2, <3>1, <1>3, CountNext
  <2> QED
    BY <2>1, <2>3, <1>2, <1>7
<1>12. SessionInv'
  <2>1. /\ PeersOK(end', chan', sent', round', Scripts, Rounds)
        /\ round'[e] = k /\ \A x \in Ends : x # e => round'[x] = round[x]
    BY <1>1, <1>2, <1>3, <1>6
  <2> HIDE DEF k
  <2> QED
    BY <2>1, <1>1, <1>2, <1>3, <1>10, <1>11, StepOfEnd
<1> QED
  BY <1>9, <1>12 DEF FifoStep, Fifo!Next

-----------------------------------------------------------------------------
(* The invariant holds from the start, and of every step.                  *)

LEMMA InitHolds ==
    ASSUME LimitsAgree, Init
    PROVE  SessionInv /\ Fifo!Init
<1>1. /\ end = [e \in Ends |-> NewEnd]
      /\ chan = [e \in Ends |-> [c \in Chunks |-> <<>>]]
      /\ sent = [e \in Ends |-> <<>>] /\ got = [e \in Ends |-> <<>>]
      /\ script \in [1 .. Rounds -> Operations]
      /\ round = [e \in Ends |-> 0]
      /\ waiting = [e \in Ends |-> FALSE]
  BY DEF Init, PeerInit
<1>2. StreamsInv
  <2>1. Rounds \in Nat /\ ScriptsOK(Scripts, Rounds)
    BY <1>1, ScriptsFit, SessionAssumption
  <2> QED
    BY <2>1, <1>1, PeersStart DEF StreamsInv
<1>3. NewEnd.at = "out" /\ NewEnd.next = "none"
  BY DEF NewEnd
<1>4. TypeOK
  <2>1. got \in [Ends -> Seq(Payload)] /\ waiting \in [Ends -> BOOLEAN]
    BY <1>1
  <2> QED
    BY <2>1, <1>1, <1>2 DEF TypeOK, PeersTypeOK, StreamsInv, PeersOK
<1> HIDE DEF NewEnd
<1>5. BuffersInv
  BY <1>1, <1>3 DEF BuffersInv, Roomy, Phase
<1>6. ReceivedInv
  <2>1. ASSUME NEW e \in Ends
        PROVE  Len(got[e]) = Count(script, PeerOf[e], 0, Finished(end[e], round[e]))
    BY <1>1, <1>3, CountZero DEF Finished, Phase
  <2> QED
    BY <2>1 DEF ReceivedInv
<1>7. Fifo!Init
  BY <1>1 DEF Fifo!Init
<1> QED
  BY <1>2, <1>4, <1>5, <1>6, <1>7 DEF SessionInv

LEMMA NextHolds ==
    ASSUME LimitsAgree, SessionInv, [Next]_vars
    PROVE  SessionInv' /\ FifoStep
<1>1. ASSUME SessionInv', UNCHANGED <<sent, got>>
      PROVE  SessionInv' /\ FifoStep
  BY <1>1 DEF FifoStep
<1>2. CASE Network
  <2>1. /\ \E e \in Ends, c \in Chunks : Transfer(e, c) \/ SendCompletes(e, c)
        /\ UNCHANGED <<script, round, waiting>>
    BY <1>2 DEF Network, MPIStep
  <2>2. PICK e \in Ends, c \in Chunks : Transfer(e, c) \/ SendCompletes(e, c)
    BY <2>1
  <2>3. UNCHANGED <<sent, got>>
    BY <2>2 DEF Transfer, SendCompletes
  <2> QED
    BY <2>1, <2>2, <2>3, <1>1, TransferStep, SendCompletesStep
<1>3. ASSUME NEW e \in Ends, Clear(e) \/ Replace(e)
      PROVE  SessionInv' /\ FifoStep
  <2>1. UNCHANGED <<sent, got>>
    BY <1>3 DEF Clear, Replace
  <2> QED
    BY <2>1, <1>1, <1>3, ClearStep, ReplaceStep
<1>4. ASSUME NEW e \in Ends, Begin(e)
      PROVE  SessionInv' /\ FifoStep
  BY <1>4, BeginSendStep, BeginRecvStep
<1>5. ASSUME NEW e \in Ends, NEW S, proceedToNextWait(e, S),
             UNCHANGED <<script, round, waiting>>
      PROVE  SessionInv' /\ FifoStep
  <2>1. UNCHANGED <<sent, got>> /\ waiting' \in [Ends -> BOOLEAN]
    BY <1>5, EndFacts DEF proceedToNextWait
  <2> QED
    BY <2>1, <1>1, <1>5, ProceedStep
<1>6. ASSUME NEW e \in Ends, Poll(e)
      PROVE  SessionInv' /\ FifoStep
  BY <1>5, <1>6 DEF Poll
<1>7. ASSUME UNCHANGED <<end, chan, sent, got, script, round>>,
             waiting' \in [Ends -> BOOLEAN]
      PROVE  SessionInv' /\ FifoStep
  BY <1>1, <1>7, OwnerStep
<1>8. ASSUME NEW e \in Ends, completeCurrentOperation(e)
      PROVE  SessionInv' /\ FifoStep
  BY <1>7, <1>8, EndFacts DEF completeCurrentOperation
<1>9. ASSUME NEW e \in Ends, WaitLoop(e)
      PROVE  SessionInv' /\ FifoStep
  <2>1. CASE WaitallReturns(e) /\ UNCHANGED <<script, round, waiting>>
    BY <2>1, <1>5 DEF WaitallReturns
  <2>2. CASE /\ waiting' = [waiting EXCEPT ![e] = FALSE]
             /\ UNCHANGED peerVars /\ UNCHANGED <<script, round>>
    BY <2>2, <1>7, EndFacts DEF peerVars
  <2> QED
    BY <2>1, <2>2, <1>9 DEF WaitLoop
<1>10. ASSUME NEW e \in Ends, Check(e)
       PROVE  SessionInv' /\ FifoStep
  BY <1>10, CheckStays
<1>11. CASE UNCHANGED vars \/ Over
  <2>1. /\ UNCHANGED <<end, chan, sent, got, script, round>>
        /\ waiting' \in [Ends -> BOOLEAN]
    <3>1. Ends # {}
      BY SessionAssumption
    <3> QED
      BY <3>1, <1>11, EndFacts DEF vars, Over
  <2> QED
    BY <2>1, <1>7
<1> QED
  BY <1>2, <1>3, <1>4, <1>6, <1>8, <1>9, <1>10, <1>11 DEF Next, EndStep

-----------------------------------------------------------------------------
(* What the invariant says of the session.                                 *)

\* The chunks of a message are of the lengths their receives are posted for.
LEMMA NoneTruncated ==
    ASSUME SessionInv
    PROVE  NoTruncation
<1>1. PeersOK(end, chan, sent, round, Scripts, Rounds)
  BY DEF SessionInv, StreamsInv
<1> QED
  BY <1>1, ChunkFits DEF NoTruncation

\* An object with a pending request has allocated what MPI uses of it.
LEMMA BuffersSuffice ==
    ASSUME SessionInv, ~ReuseCleared
    PROVE  BuffersHold
<1> SUFFICES ASSUME NEW e \in Ends, hasPendingRequests(e)
             PROVE  end[e].held /\ Room(end[e]) <= end[e].cap * ItemsPerFlex
  BY DEF BuffersHold
<1> DEFINE s == end[e]
           r == round[e]
           I == ItemsPerFlex
           first == getNumberOfFlexData(s.limit) + 2
<1>1. EndOK(s, e, r, script) /\ Roomy(s) /\ s \in EndType
  BY EndFacts
<1>2. s.limit \in Nat /\ s.cap \in Nat /\ I \in Nat /\ I > 0 /\ first \in Nat
  <2>1. s.limit \in Nat /\ s.cap \in Nat
    BY <1>1 DEF EndType
  <2>2. I \in Nat /\ I > 0
    BY PeerAssumption
  <2>3. getNumberOfFlexData(s.limit) \in Nat
    BY <2>1, FlexHolds
  <2> QED
    BY <2>1, <2>2, <2>3
<1>3. CASE Resting(s)
  BY <1>3 DEF Resting, hasPendingRequests
<1>4. CASE Sending(s, e, r, script)
  BY <1>1, <1>4 DEF Sending, Roomy, Phase
<1>5. CASE AwaitsFirst(s, e, r, script)
  <2>1. s.held /\ first <= s.cap /\ Room(s) = first * I
    BY <1>1, <1>5 DEF AwaitsFirst, Roomy, Phase, Room
  <2> HIDE DEF s, first, I
  <2>2. first * I <= s.cap * I
    BY <2>1, <1>2
  <2> QED
    BY <2>1, <2>2 DEF s, I
<1>6. CASE AwaitsRest(s, e, r, script)
  <2>1. s.req[1] # "null"
    BY <1>6 DEF AwaitsRest, hasPendingRequests, Chunks
  <2>2. Room(s) = s.limit + (getNumberOfFlexData(s.full - s.limit) + 2) * I
    BY <2>1, <1>6 DEF AwaitsRest, Room
  <2> QED
    BY <2>2, <1>1, <1>6 DEF AwaitsRest, Roomy, Phase
<1> QED
  BY <1>1, <1>3, <1>4, <1>5, <1>6 DEF EndOK

\* A chunk that has come is the one its receiver is about to look at.
LEMMA ChunksExpected ==
    ASSUME LimitsAgree, SessionInv
    PROVE  ChunksInSequence
<1> SUFFICES ASSUME NEW e \in Ends
             PROVE  LET s == end[e]
                    IN  /\ s.at = "recv_check0" /\ s.req[0] # "active" =>
                              /\ s.trailer.seq = 0
                              /\ getNumberOfFlexData(s.trailer.full)
                                    >= getNumberOfFlexData(Len(s.data))
                        /\ s.at = "recv_check1" /\ s.req[1] # "active" =>
                              /\ s.trailer = [seq |-> 1, full |-> s.full]
                              /\ Len(s.data) = s.full
  BY DEF ChunksInSequence
<1> DEFINE s == end[e]
           r == round[e]
           op == script[r]
<1>1. EndOK(s, e, r, script)
  BY EndFacts
<1>2. ASSUME r >= 1
      PROVE  /\ r \in Nat /\ op.size \in Nat /\ op.limits[1] \in Nat
             /\ Len(Msg(script, r)) = op.size /\ OperationOK(op)
  <2>1. r \in 1 .. Rounds /\ r \in Nat
    BY <1>2, EndFacts
  <2>2. OperationOK(op)
    BY <2>1, EndFacts, OperationFacts
  <2> QED
    BY <2>1, <2>2, PartFacts DEF OperationOK
<1>3. ASSUME s.at = "recv_check0", s.req[0] # "active"
      PROVE  /\ s.trailer.seq = 0
             /\ getNumberOfFlexData(s.trailer.full)
                   >= getNumberOfFlexData(Len(s.data))
  <2>1. AwaitsFirst(s, e, r, script)
    BY <1>1, <1>3 DEF EndOK, Resting, Sending, AwaitsRest
  <2>2. /\ s.data = Part(script, 0, r).data
        /\ s.trailer.seq = 0 /\ s.trailer.full = op.size /\ r >= 1
    BY <1>3, <2>1 DEF AwaitsFirst
  <2>3. /\ Part(script, 0, r) \in Message
        /\ op.size <= op.limits[1] => Part(script, 0, r).data = Msg(script, r)
        /\ op.size > op.limits[1] =>
              Len(Part(script, 0, r).data) = op.limits[1]
    BY <1>2, <2>2, PartFacts
  <2>4. Len(s.data) \in Nat /\ Len(s.data) <= op.size
    BY <1>2, <2>2, <2>3 DEF Message, Payload
  <2>5. getNumberOfFlexData(Len(s.data)) <= getNumberOfFlexData(op.size)
    BY <1>2, <2>2, <2>4, FlexMonotone
  <2> QED
    BY <1>2, <2>2, <2>4, <2>5, FlexHolds
<1>4. ASSUME s.at = "recv_check1", s.req[1] # "active"
      PROVE  /\ s.trailer = [seq |-> 1, full |-> s.full]
             /\ Len(s.data) = s.full
  <2>1. AwaitsRest(s, e, r, script)
    BY <1>1, <1>4 DEF EndOK, Resting, Sending, AwaitsFirst
  <2>2. Len(Msg(script, r)) = op.size
    BY <1>2, <2>1 DEF AwaitsRest
  <2> QED
    BY <1>4, <2>1, <2>2 DEF AwaitsRest
<1> QED
  BY <1>3, <1>4

LEMMA InvFits ==
    ASSUME LimitsAgree, ~ReuseCleared, SessionInv
    PROVE  ChunksFit
BY NoneTruncated, BuffersSuffice, ChunksExpected DEF ChunksFit, SessionInv

LEMMA InvQuiet ==
    ASSUME SessionInv
    PROVE  NoErrantMessage
<1>1. DoneIsQuiet
  <2>1. ASSUME NEW e \in Ends, end[e].at = "out"
        PROVE  isDone(e) <=> ~hasPendingRequests(e)
    <3>1. EndOK(end[e], e, round[e], script)
      BY EndFacts
    <3>2. CASE Resting(end[e])
      BY <3>2 DEF Resting, isDone, hasPendingRequests
    <3>3. CASE Sending(end[e], e, round[e], script)
      BY <2>1, <3>3 DEF Sending, SendOver, isDone, hasPendingRequests, Chunks
    <3>4. CASE AwaitsFirst(end[e], e, round[e], script)
      BY <2>1, <3>4 DEF AwaitsFirst, isDone, hasPendingRequests, Chunks
    <3>5. CASE AwaitsRest(end[e], e, round[e], script)
      BY <2>1, <3>5 DEF AwaitsRest, isDone, hasPendingRequests, Chunks
    <3> QED
      BY <3>1, <3>2, <3>3, <3>4, <3>5 DEF EndOK
  <2> QED
    BY <2>1 DEF DoneIsQuiet
<1>2. ASSUME round[A] = round[B],
             \A e \in Ends : isDone(e) /\ end[e].at = "out",
             NEW e \in Ends, NEW c \in Chunks
      PROVE  chan[e][c] = <<>>
  <2>1. PeersOK(end, chan, sent, round, Scripts, Rounds)
    BY DEF SessionInv, StreamsInv
  <2>2. PeerOf[e] \in Ends /\ round[PeerOf[e]] = round[e]
    BY <1>2, SessionAssumption, EndFacts
  <2>3. Resting(end[PeerOf[e]])
    BY <1>2, <2>2, EndFacts, RestingWhenDone DEF isDone
  <2> QED
    BY <2>1, <2>2, <2>3, NothingLeft
<1> QED
  BY <1>1, <1>2 DEF NoErrantMessage

-----------------------------------------------------------------------------
(***************************************************************************)
(* Whatever the lengths of the messages and the number of operations,      *)
(* checkRecv() posts receives that are long enough for the chunk that      *)
(* comes, into a buffer that resizeBuffer() has made large enough, and the *)
(* chunk is the one that its assertions expect.  This is so of objects     *)
(* whose ends set the same first data length, and which are not used again *)
(* after clearRecvData().                                                  *)
(***************************************************************************)
THEOREM PeerChunksFit ==
    ASSUME LimitsAgree, ~ReuseCleared
    PROVE  Spec => []ChunksFit
<1>1. LimitsAgree /\ Init => SessionInv
  BY InitHolds
<1>2. LimitsAgree /\ SessionInv /\ [Next]_vars => SessionInv'
  BY NextHolds
<1>3. SessionInv => ChunksFit
  BY InvFits
<1> QED
  BY <1>1, <1>2, <1>3, PTL DEF Spec

(***************************************************************************)
(* An object is done exactly when it has no request, and when both ends    *)
(* have finished the same operations no chunk is left in MPI: what one     *)
(* operation sends the same operation receives, however far one end runs   *)
(* ahead of the other, and clearRecvData() or not.                         *)
(***************************************************************************)
THEOREM PeerNoErrantMessage ==
    ASSUME LimitsAgree
    PROVE  Spec => []NoErrantMessage
<1>1. LimitsAgree /\ Init => SessionInv
  BY InitHolds
<1>2. LimitsAgree /\ SessionInv /\ [Next]_vars => SessionInv'
  BY NextHolds
<1>3. SessionInv => NoErrantMessage
  BY InvQuiet
<1> QED
  BY <1>1, <1>2, <1>3, PTL DEF Spec

(***************************************************************************)
(* The exchange in chunks, on two tags and with a buffer that the          *)
(* receiver enlarges when it knows the length, implements the exchange of  *)
(* whole messages: a step of either object sends one message, receives the *)
(* next one unchanged, or is not seen.                                     *)
(***************************************************************************)
THEOREM PeerExchangesMessages ==
    ASSUME LimitsAgree
    PROVE  Spec => ExchangesMessages
<1>1. Init => SessionInv /\ Fifo!Init
  BY InitHolds
<1>2. SessionInv /\ [Next]_vars => SessionInv' /\ [Fifo!Next]_<<sent, got>>
  BY NextHolds DEF FifoStep
<1> QED
  BY <1>1, <1>2, PTL DEF Spec, ExchangesMessages

=============================================================================
