---------------------------- MODULE BergerRigoutsos ----------------------------
(***************************************************************************)
(* mesh::BergerRigoutsos and BergerRigoutsosNode: clustering of tagged     *)
(* cells.  A node stands for a candidate box.  The processes of its group  *)
(* reduce their tag histograms at its owner, who accepts the box or splits *)
(* it; the decision, the groups of the two halves and their owners are     *)
(* broadcast, and the halves become nodes of their own.  A process works   *)
(* on many nodes at a time: one that waits for messages is left alone and  *)
(* continued from the completion queue of the stage, one whose children    *)
(* are completed from the relaunch queue.                                  *)
(*                                                                         *)
(* A group communication is what Collective says of it; the groups here    *)
(* have up to three processes, a flat tree, for which that is exact.       *)
(***************************************************************************)
EXTENDS Integers, Sequences, FiniteSets

CONSTANTS
    Size,           \* processes
    Roots,          \* root boxes
    Nodes,          \* nodes there may be
    TagUpperBound,  \* d_tag_upper_bound
    Inputs          \* tags, patches and modes to run with

Ranks == 0 .. Size - 1

ASSUME BergerRigoutsosAssumption ==
    /\ Size \in Nat \ {0}
    /\ Roots \in Nat \ {0}
    /\ IsFiniteSet(Nodes)
    /\ \A r \in 1 .. Roots : <<r>> \in Nodes
    /\ \A n \in Nodes :
          /\ n \in Seq(Nat) /\ n # <<>> /\ n[1] \in 1 .. Roots
          /\ Len(n) > 1 =>
               /\ n[Len(n)] \in {1, 2}
               /\ SubSeq(n, 1, Len(n) - 1) \in Nodes
               /\ Append(SubSeq(n, 1, Len(n) - 1), 3 - n[Len(n)]) \in Nodes
    /\ TagUpperBound \in Nat
    /\ \A i \in Inputs :
          /\ i.split \subseteq {n \in Nodes : Append(n, 1) \in Nodes}
          /\ i.untagged \subseteq {<<r>> : r \in 1 .. Roots} \ i.split
          /\ i.overlap \in [Nodes -> (SUBSET Ranks) \ {{}}]
          /\ \A n \in i.split, k \in {1, 2} : i.overlap[Append(n, k)] \subseteq i.overlap[n]
          /\ {i.sync, i.single_owner, i.buffered, i.prompt} \subseteq BOOLEAN

VARIABLES
    input,      \* what the processes find, and how they run
    node,       \* what its owner, or its parent's, has determined of a node
    self        \* the processes

vars == <<input, node, self>>

(***************************************************************************)
(* An input has the nodes that acceptOrSplitBox() splits, the roots it     *)
(* finds no tags in, the nodes whose halves do not reduce the box enough,  *)
(* and the processes whose patches overlap a node: all of that is          *)
(* geometry.  It has d_algo_advance_mode, whether d_owner_mode is          *)
(* SINGLE_OWNER, and how MPI behaves: whether it buffers sends, and        *)
(* whether a test right after the beginning of an operation succeeds.      *)
(***************************************************************************)

-----------------------------------------------------------------------------
(***************************************************************************)
(* A node is the path to it: the number of its root box, then 1 for left   *)
(* and 2 for right.                                                        *)
(***************************************************************************)
IsRoot(n) == Len(n) = 1

ParentOf(n) == SubSeq(n, 1, Len(n) - 1)
Lft(n) == Append(n, 1)
Rht(n) == Append(n, 2)
ChildrenOf(n) == {Lft(n), Rht(n)}
SiblingOf(n) == Append(ParentOf(n), 3 - n[Len(n)])

NoNode == <<>>

(***************************************************************************)
(* BoxAcceptance: accepted values are odd, rejected ones even.             *)
(***************************************************************************)
undetermined == -2
hasnotag_by_owner == -1
rejected_by_calculation == 0
accepted_by_calculation == 1
accepted_by_recombination == 5
rejected_by_dropout_bcast == 6
accepted_by_dropout_bcast == 7

Accepted(a) == a >= 0 /\ a % 2 = 1
Rejected(a) == a >= 0 /\ a % 2 = 0

(***************************************************************************)
(* WaitPhase.  d_wait_phase is assigned when a node is left; here it is    *)
(* assigned when the operation of the phase begins.                        *)
(***************************************************************************)
Phases == << "none", "for_data_only", "to_be_launched", "reduce_histogram",
             "bcast_acceptability", "gather_grouping_criteria", "bcast_child_groups",
             "run_children", "bcast_to_dropouts", "completed", "deallocated" >>

Bcasts == {"bcast_acceptability", "bcast_child_groups", "bcast_to_dropouts"}
InGroupOps == {"reduce_histogram", "bcast_acceptability",
               "gather_grouping_criteria", "bcast_child_groups"}
Ops == InGroupOps \cup Bcasts

Order == [ph \in {Phases[i] : i \in DOMAIN Phases} |->
              CHOOSE i \in DOMAIN Phases : Phases[i] = ph]

PhaseOf(p, n) == self[p].phase[n]

-----------------------------------------------------------------------------
(***************************************************************************)
(* Tags: every process has a pool, an equal share of the tags.             *)
(***************************************************************************)
Pool == TagUpperBound \div Size

NoTag == -1

\* claimMPITag() accepts tag t on process p.
MayClaim(p, t) == t <= Pool * (p + 1)

\* Variant: the tag is claimed again.
NextTag_Same(t) == t

NextTag(t) == t + 1

Unset == [group |-> {}, owner |-> 0, tag |-> NoTag]

\* Constructor of a root node: the group is everybody, rank 0 the owner.
RootNode(n) == [Unset EXCEPT !.group = Ranks, !.tag = n[1] - 1]

Init ==
    /\ input \in Inputs
    /\ node = [n \in Nodes |-> IF IsRoot(n) THEN RootNode(n) ELSE Unset]
    /\ self = [p \in Ranks |->
          [pos        |-> "loop",
           at         |-> NoNode,
           relaunch   |-> [r \in 1 .. Roots |-> <<r>>],
           completed  |-> <<>>,
           phase      |-> [n \in Nodes |-> IF IsRoot(n) THEN "to_be_launched" ELSE "none"],
           acceptance |-> [n \in Nodes |-> undetermined],
           told       |-> [n \in Nodes |-> undetermined],
           boxes      |-> {},
           computed   |-> {},
           next_tag   |-> Pool * p + (IF p = 0 THEN Roots ELSE 0),
           received   |-> {}]]

-----------------------------------------------------------------------------
(***************************************************************************)
(* Communication.                                                          *)
(***************************************************************************)
IsOwner(p, n) == node[n].owner = p

\* d_overlap > 0, or owner, or root: the process is in the group of n.
Participates(p, n) == IsRoot(n) \/ p \in input.overlap[n] \/ IsOwner(p, n)

\* computeDropoutGroup(), with the owner as root.
DropoutGroup(n) == (node[ParentOf(n)].group \ node[n].group) \cup {node[n].owner}

CommGroup(n, op) == IF op = "bcast_to_dropouts" THEN DropoutGroup(n) ELSE node[n].group

Begun(q, n, op) == Order[PhaseOf(q, n)] >= Order[op]

(***************************************************************************)
(* The operation process p has begun on node n may end: the processes      *)
(* whose messages it takes have begun it, and those that take its          *)
(* messages, unless MPI buffers them.                                      *)
(***************************************************************************)
MayEnd(p, n) ==
    LET op       == PhaseOf(p, n)
        buffered == input.buffered /\ (IsOwner(p, n) <=> op \in Bcasts)
        partners == IF IsOwner(p, n) THEN CommGroup(n, op) ELSE {node[n].owner}
    IN  op \in Ops /\ (buffered \/ \A q \in partners : Begun(q, n, op))

(***************************************************************************)
(* The four operations of the group block in synchronous mode, and on the  *)
(* root nodes, where they are collective functions of MPI; a group of one  *)
(* has none of them.  The process leaves a node in the others whenever its *)
(* test fails.                                                             *)
(***************************************************************************)
Blocks(p, n) ==
    \/ PhaseOf(p, n) \in InGroupOps /\ (input.sync \/ IsRoot(n))
    \/ Cardinality(CommGroup(n, PhaseOf(p, n))) = 1

(***************************************************************************)
(* An operation that has just begun is tested; one that the stage has      *)
(* completed is too.  The first finds it ended, if it may, unless the      *)
(* network is slow.                                                        *)
(***************************************************************************)
Tests(p, n) == MayEnd(p, n) /\ (input.prompt \/ self[p].at = NoNode)

\* Process p gets past the check of the operation on node n.
Ends(p, n) == MayEnd(p, n) /\ (Blocks(p, n) \/ Tests(p, n))

\* Nodes of p with requests on the stage.
Pending(p) ==
    {n \in Nodes : /\ PhaseOf(p, n) \in Ops
                   /\ n # self[p].at
                   /\ \A i \in DOMAIN self[p].completed : self[p].completed[i] # n}

-----------------------------------------------------------------------------
(***************************************************************************)
(* The ends of continueAlgorithm(), on the state s of process p.           *)
(***************************************************************************)

\* Nodes whose neighborhood sets p computes are those it shares in the group.
computeNewNeighborhoodSets(s, n) == [s EXCEPT !.computed = @ \cup {n}]

Leave(s) == [s EXCEPT !.at = NoNode]

\* Variants: any child wakes the parent; only the right one does.
WakesParent_Any(s, n) == ~IsRoot(n)
WakesParent_Right(s, n) ==
    ~IsRoot(n) /\ n = Rht(ParentOf(n)) /\ s.phase[SiblingOf(n)] = "completed"

\* The last child that is completed puts the parent in front of the queue.
WakesParent(s, n) == ~IsRoot(n) /\ s.phase[SiblingOf(n)] = "completed"

Complete(s, n) ==
    Leave([s EXCEPT !.phase[n] = "completed",
                    !.relaunch = IF WakesParent(s, n) THEN <<ParentOf(n)>> \o @ ELSE @])

HasDropouts(n) ==
    ~IsRoot(n) /\ Cardinality(node[ParentOf(n)].group) > Cardinality(node[n].group)

InDropoutGroup(p, n) == p \notin input.overlap[n] \/ IsOwner(p, n)

\* After the group's part: the root's relationships, and the dropouts.
Finish(p, s, n) ==
    LET t == IF IsRoot(n) /\ Accepted(s.acceptance[n])
             THEN computeNewNeighborhoodSets(s, n) ELSE s
    IN  IF HasDropouts(n) /\ InDropoutGroup(p, n)
        THEN [t EXCEPT !.phase[n] = "bcast_to_dropouts",
                       !.told[n] = IF IsOwner(p, n) THEN s.acceptance[n] ELSE @]
        ELSE Complete(t, n)

-----------------------------------------------------------------------------
(***************************************************************************)
(* continueAlgorithm() of node n on process p, from one label to the next. *)
(* The node process p continues, or goes on with: while the stage has      *)
(* completed Members their nodes, then those in the relaunch queue.        *)
(***************************************************************************)
Queued(p) == self[p].completed \o self[p].relaunch

Current(p) ==
    IF self[p].at # NoNode THEN self[p].at
    ELSE IF Queued(p) # <<>> THEN Head(Queued(p)) ELSE NoNode

\* The process, with its current node taken from the queue.
Popped(p) ==
    IF self[p].at # NoNode THEN self[p]
    ELSE IF self[p].completed # <<>>
         THEN [self[p] EXCEPT !.at = Current(p), !.completed = Tail(@)]
         ELSE [self[p] EXCEPT !.at = Current(p), !.relaunch = Tail(@)]

Continuing(p, n, ph) == Current(p) = n /\ PhaseOf(p, n) = ph

Step(p, s) == self' = [self EXCEPT ![p] = s]

toBeLaunched(p, n) ==
    /\ Continuing(p, n, "to_be_launched")
    /\ Step(p, IF Participates(p, n)
               THEN [Popped(p) EXCEPT !.phase[n] = "reduce_histogram"]
               ELSE Finish(p, Popped(p), n))
    /\ UNCHANGED <<input, node>>

\* A check that finds the operation unfinished.
Unfinished(p, n) ==
    /\ Current(p) = n
    /\ PhaseOf(p, n) \in Ops
    /\ ~Blocks(p, n)
    /\ ~Tests(p, n)
    /\ Step(p, Leave(Popped(p)))
    /\ UNCHANGED <<input, node>>

\* What acceptOrSplitBox() finds.
Decision(n) ==
    IF n \in input.split THEN rejected_by_calculation
    ELSE IF n \in input.untagged THEN hasnotag_by_owner ELSE accepted_by_calculation

CreatedChildren(s, n) ==
    [s EXCEPT !.phase = [m \in Nodes |-> IF m \in ChildrenOf(n) THEN "for_data_only" ELSE @[m]]]

(***************************************************************************)
(* acceptOrSplitBox() and createBox() on the owner: a box is put in the    *)
(* level even when it is split, in case its halves are recombined.  The    *)
(* halves claim the next two tags; the program ends when there are none.   *)
(***************************************************************************)
acceptOrSplitBox(p, n) ==
    LET s == [Popped(p) EXCEPT !.acceptance[n] = Decision(n),
                               !.boxes = IF n \in input.untagged THEN @ ELSE @ \cup {n},
                               !.phase[n] = "bcast_acceptability"]
        t == self[p].next_tag
    IN  IF n \in input.split
        THEN /\ MayClaim(p, t) /\ MayClaim(p, NextTag(t))
             /\ node' = [node EXCEPT ![Lft(n)].tag = t, ![Rht(n)].tag = NextTag(t)]
             /\ Step(p, CreatedChildren([s EXCEPT !.next_tag = NextTag(NextTag(t))], n))
        ELSE /\ Step(p, s)
             /\ UNCHANGED node

reduceHistogram_check(p, n) ==
    /\ Continuing(p, n, "reduce_histogram")
    /\ Ends(p, n)
    /\ IF IsOwner(p, n)
       THEN acceptOrSplitBox(p, n)
       ELSE /\ Step(p, [Popped(p) EXCEPT !.phase[n] = "bcast_acceptability"])
            /\ UNCHANGED node
    /\ UNCHANGED input

\* Others get the owner's decision, marked as remote.
Remote(a) == IF a >= 0 THEN a + 2 ELSE a

broadcastAcceptability_check(p, n) ==
    /\ Continuing(p, n, "bcast_acceptability")
    /\ Ends(p, n)
    /\ LET a == IF IsOwner(p, n) THEN self[p].acceptance[n]
                ELSE Remote(Decision(n))
           s == [Popped(p) EXCEPT !.acceptance[n] = a]
       IN  Step(p, IF Rejected(a)
                   THEN [CreatedChildren(s, n) EXCEPT !.phase[n] = "gather_grouping_criteria"]
                   ELSE Finish(p, s, n))
    /\ UNCHANGED <<input, node>>

(***************************************************************************)
(* formChildGroups(): the group of a half is those with overlap.  The      *)
(* criteria of the owner modes choose one of them as its owner; with a     *)
(* single owner it is the owner of the box, overlap or not.                *)
(***************************************************************************)
ChildGroup(p, n, c) == input.overlap[c] \cup (IF input.single_owner THEN {p} ELSE {})

ChildOwners(p, n, c) == IF input.single_owner THEN {p} ELSE ChildGroup(p, n, c)

formChildGroups(p, n) ==
    \E lft \in ChildOwners(p, n, Lft(n)), rht \in ChildOwners(p, n, Rht(n)) :
        node' = [node EXCEPT ![Lft(n)].owner = lft, ![Lft(n)].group = ChildGroup(p, n, Lft(n)),
                             ![Rht(n)].owner = rht, ![Rht(n)].group = ChildGroup(p, n, Rht(n))]

gatherGroupingCriteria_check(p, n) ==
    /\ Continuing(p, n, "gather_grouping_criteria")
    /\ Ends(p, n)
    /\ IF IsOwner(p, n) THEN formChildGroups(p, n) ELSE UNCHANGED node
    /\ Step(p, [Popped(p) EXCEPT !.phase[n] = "bcast_child_groups"])
    /\ UNCHANGED input

\* runChildren_start(): the left child in front of the right one.
broadcastChildGroups_check(p, n) ==
    /\ Continuing(p, n, "bcast_child_groups")
    /\ Ends(p, n)
    /\ Step(p, Leave([Popped(p) EXCEPT
                        !.phase[n] = "run_children",
                        !.phase[Lft(n)] = "to_be_launched",
                        !.phase[Rht(n)] = "to_be_launched",
                        !.relaunch = <<Lft(n), Rht(n)>> \o @]))
    /\ UNCHANGED <<input, node>>

ChildrenCompleted(p, n) == \A c \in ChildrenOf(n) : PhaseOf(p, c) = "completed"

\* Both halves accepted, and they do not reduce the box enough.
Recombines(s, n) ==
    n \in input.small_gain /\ \A c \in ChildrenOf(n) : Accepted(s.acceptance[c])

Own(p, S) == {n \in S : IsOwner(p, n)}

Recombined(p, s, n) ==
    [s EXCEPT !.acceptance[n] = accepted_by_recombination,
              !.boxes = @ \ Own(p, ChildrenOf(n))]

\* Variant: a process that dropped out of a child computes them too.
Kept_Dropouts(p, s, n) ==
    [s EXCEPT !.boxes = @ \ Own(p, {n}),
              !.computed = @ \cup {c \in ChildrenOf(n) : Accepted(s.acceptance[c])}]

\* Neighborhoods are not computed by processes that know there are none.
Kept(p, s, n) ==
    [s EXCEPT !.boxes = @ \ Own(p, {n}),
              !.computed = @ \cup {c \in ChildrenOf(n) :
                                      /\ Accepted(s.acceptance[c])
                                      /\ s.acceptance[c] # accepted_by_dropout_bcast}]

DeletedChildren(s, n) ==
    [s EXCEPT !.phase = [m \in Nodes |-> IF m \in ChildrenOf(n) THEN "deallocated" ELSE @[m]],
              !.acceptance = [m \in Nodes |-> IF m \in ChildrenOf(n) THEN undetermined ELSE @[m]]]

runChildren_check(p, n) ==
    /\ Continuing(p, n, "run_children")
    /\ LET s == IF Recombines(self[p], n) THEN Recombined(p, Popped(p), n) ELSE Kept(p, Popped(p), n)
       IN  Step(p, IF ChildrenCompleted(p, n)
                   THEN Finish(p, DeletedChildren(s, n), n)
                   ELSE Leave(Popped(p)))
    /\ UNCHANGED <<input, node>>

\* Variant: what the owner decided, not that it is known by a broadcast.
FromDropoutBcast_Raw(a) == a

\* intToBoxAcceptance() of the parity of what the owner sent.
FromDropoutBcast(a) == (a % 2) + rejected_by_dropout_bcast

broadcastToDropouts_check(p, n) ==
    /\ Continuing(p, n, "bcast_to_dropouts")
    /\ Ends(p, n)
    /\ Step(p, Complete(IF IsOwner(p, n) THEN Popped(p)
                        ELSE [Popped(p) EXCEPT !.acceptance[n] =
                                 FromDropoutBcast(self[node[n].owner].told[n])], n))
    /\ UNCHANGED <<input, node>>

continueAlgorithm(p, n) ==
    \/ toBeLaunched(p, n)
    \/ Unfinished(p, n)
    \/ reduceHistogram_check(p, n)
    \/ broadcastAcceptability_check(p, n)
    \/ gatherGroupingCriteria_check(p, n)
    \/ broadcastChildGroups_check(p, n)
    \/ runChildren_check(p, n)
    \/ broadcastToDropouts_check(p, n)

-----------------------------------------------------------------------------
(***************************************************************************)
(* clusterAndComputeRelationships(): the loop.                             *)
(***************************************************************************)
Idle(p) == self[p].pos = "loop" /\ Current(p) = NoNode

Orders(S) ==
    {q \in [1 .. Cardinality(S) -> S] : \A i, j \in DOMAIN q : q[i] = q[j] => i = j}

\* advanceSome(): waits for some of the operations.
advanceSome(p) ==
    /\ Idle(p)
    /\ \E ended \in (SUBSET {n \in Pending(p) : MayEnd(p, n)}) \ {{}} :
          \E q \in Orders(ended) : Step(p, [self[p] EXCEPT !.completed = q])
    /\ UNCHANGED <<input, node>>

\* Once more while a node is queued or has requests.
LoopEnds(p) ==
    /\ Idle(p) /\ Pending(p) = {}
    /\ Step(p, [self[p] EXCEPT !.pos = "barrier"])
    /\ UNCHANGED <<input, node>>

-----------------------------------------------------------------------------
(***************************************************************************)
(* shareNewNeighborhoodSetsWithOwners(): d_relationship_messages go to the *)
(* owners of nodes of others for which relationships were computed;        *)
(* d_relationship_senders are the groups of the own ones.  All messages    *)
(* have one tag and are received from any source.                          *)
(***************************************************************************)
relationship_message(p, o) == {n \in self[p].computed : node[n].owner = o}

relationship_senders(p) ==
    (UNION {node[n].group : n \in Own(p, self[p].computed)}) \ {p}

Sharing == {"share", "done"}

Barrier(p) ==
    /\ self[p].pos = "barrier"
    /\ \A q \in Ranks : self[q].pos \in {"barrier"} \cup Sharing
    /\ Step(p, [self[p] EXCEPT !.pos = "share"])
    /\ UNCHANGED <<input, node>>

\* Messages for process p that are there to be probed.
Incoming(p) ==
    {q \in Ranks \ {p} : /\ self[q].pos \in Sharing
                         /\ relationship_message(q, p) # {}
                         /\ q \notin self[p].received}

WantsMore(p) == Cardinality(self[p].received) < Cardinality(relationship_senders(p))

ReceiveRelationships(p) ==
    /\ self[p].pos = "share" /\ WantsMore(p)
    /\ \E q \in Incoming(p) : Step(p, [self[p] EXCEPT !.received = @ \cup {q}])
    /\ UNCHANGED <<input, node>>

\* MPI_Waitall on the messages sent.
ShareEnds(p) ==
    /\ self[p].pos = "share" /\ ~WantsMore(p)
    /\ input.buffered \/ \A o \in Ranks \ {p} : relationship_message(p, o) # {} => p \in self[o].received
    /\ Step(p, [self[p] EXCEPT !.pos = "done"])
    /\ UNCHANGED <<input, node>>

Progress ==
    \E p \in Ranks :
        \/ advanceSome(p)
        \/ LoopEnds(p)
        \/ \E n \in Nodes : continueAlgorithm(p, n)
        \/ Barrier(p)
        \/ ReceiveRelationships(p)
        \/ ShareEnds(p)

Done == \A p \in Ranks : self[p].pos = "done"

Terminated == Done /\ UNCHANGED vars

Next == Progress \/ Terminated

Spec == Init /\ [][Next]_vars /\ WF_vars(Progress)

-----------------------------------------------------------------------------
(***************************************************************************)
(* No node is stranded: as long as a node is not completed, exactly one    *)
(* thing will continue it - its place in one of the queues, a request on   *)
(* the stage, or a child that is not completed - and when a process has    *)
(* left the loop its root nodes are.                                       *)
(***************************************************************************)
Places(p, n) ==
    LET In(q) == Cardinality({i \in DOMAIN q : q[i] = n})
    IN  (IF self[p].at = n THEN 1 ELSE 0) + In(self[p].relaunch) + In(self[p].completed)
          + (IF n \in Pending(p) THEN 1 ELSE 0)
          + (IF PhaseOf(p, n) = "run_children" /\ ~ChildrenCompleted(p, n) THEN 1 ELSE 0)

Active(ph) == ph \notin {"none", "for_data_only", "completed", "deallocated"}

NoneStranded ==
    \A p \in Ranks, n \in Nodes :
        /\ Places(p, n) = (IF Active(PhaseOf(p, n)) THEN 1 ELSE 0)
        /\ self[p].pos \in {"barrier"} \cup Sharing => ~Active(PhaseOf(p, n))

(***************************************************************************)
(* The boxes to be found.  A box is reached when all those above it are    *)
(* split.  It is whole when it has tags and, if it is split, all that it   *)
(* is split into is joined again: for no box within it the halves are a    *)
(* gain.  Kept are the largest of the boxes that are whole.                *)
(***************************************************************************)
Reached(n) == \A k \in 1 .. Len(n) - 1 : SubSeq(n, 1, k) \in input.split

Within(m, n) == Len(n) <= Len(m) /\ SubSeq(m, 1, Len(n)) = n

Whole(n) ==
    /\ n \notin input.untagged
    /\ \A m \in input.split : Within(m, n) /\ Reached(m) => m \in input.small_gain

KeptBoxes ==
    {n \in Nodes : Reached(n) /\ Whole(n) /\ (IsRoot(n) \/ ~Whole(ParentOf(n)))}

(***************************************************************************)
(* When the loops have ended every box is on its owner, and exactly the    *)
(* processes of its group have computed its neighborhoods: every process   *)
(* has come to the same decisions, those that dropped out of a node by     *)
(* what they were told.                                                    *)
(***************************************************************************)
AllLeft == \A p \in Ranks : self[p].pos \in {"barrier"} \cup Sharing

SameBoxes ==
    AllLeft => \A p \in Ranks :
        /\ self[p].boxes = Own(p, KeptBoxes)
        /\ self[p].computed = {n \in KeptBoxes : p \in node[n].group}

(***************************************************************************)
(* Messages probed from any source come from expected senders, and at the  *)
(* end each has been received.                                             *)
(***************************************************************************)
SendersKnown ==
    \A p \in Ranks :
        /\ self[p].pos = "share" => Incoming(p) \cup self[p].received \subseteq relationship_senders(p)
        /\ self[p].pos = "done"  => Incoming(p) = {}

(***************************************************************************)
(* Tags are unique among the nodes, and none is the one for relationships. *)
(***************************************************************************)
TagsUnique ==
    \A n \in Nodes : node[n].tag # NoTag =>
        /\ node[n].tag # TagUpperBound
        /\ \A m \in Nodes \ {n} : node[m].tag # node[n].tag

\* Clustering ends on every process.
Termination == <>Done

=============================================================================
