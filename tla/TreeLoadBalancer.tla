-------------------------- MODULE TreeLoadBalancer --------------------------
(***************************************************************************)
(* mesh::TreeLoadBalancer, with its work in transit as vouchers.  Loads    *)
(* move over a tree of the processes: every process hears from its         *)
(* children what their branches have, want and send, tells its parent the  *)
(* same of its own branch, hears from it only if it wants work, and sends  *)
(* work to the children that want some.  Then, behind a barrier, vouchers  *)
(* are redeemed: holders demand the work from the issuers, who supply it.  *)
(* Nobody is told who will demand; an issuer counts the work it has not    *)
(* accounted for.                                                          *)
(*                                                                         *)
(* A severe imbalance takes several cycles of this, all but the last in    *)
(* groups of processes.  How boxes are cut is left out: a supply is as     *)
(* much work as the voucher says.                                          *)
(***************************************************************************)
EXTENDS VoucherTransitLoad, Sequences, TLC

CONSTANTS
    MaxSpread,      \* d_max_spread_procs
    Flexibility,    \* d_flexible_load_tol is 1 / Flexibility
    Inputs          \* initial loads, and the rank group the caller gives

ASSUME BalancerAssumption ==
    /\ Ranks = 0 .. (Cardinality(Ranks) - 1)
    /\ MaxSpread \in Nat \ {0, 1}
    /\ Flexibility \in Nat \ {0}
    /\ \A i \in Inputs :
          /\ i.load \in Containers
          /\ i.group \in (SUBSET Ranks) \ {{}}
          /\ Issuers(i.load) \subseteq i.group      \* prebalanceBoxLevel()

VARIABLES
    input,
    cycles,         \* number_of_cycles
    pc,             \* where a process is in its cycle
    cycle,          \* cycles still to come after this one (icycle)
    cells,          \* work a process has boxes for
    tree,           \* a process' d_rank_tree, in ranks, and group_avg_load
    bin,            \* balanced_work, called unassigned during the distribution
    branch,         \* my_branch
    served,         \* children that have been given work, or need none
    child,          \* child_branches of the children heard from
    unaccounted,    \* unaccounted_work
    fulfill,        \* redemptions_to_fulfill: the voucher of each demander
    awaited,        \* redemptions_to_request: issuers to hear from
    net,            \* messages sent and not received
    aborted         \* some process has ended the program with an error

vars == <<input, cycles, pc, cycle, cells, tree, bin, branch, child, served,
          unaccounted, fulfill, awaited, net, aborted>>

Trees == INSTANCE RankTrees

-----------------------------------------------------------------------------
(* Cycles, groups and trees.  The last cycle takes all processes.          *)

Size == Cardinality(Ranks)

GlobalLoad == SumLoad(input.load)

GlobalAverage == GlobalLoad \div Cardinality(input.group)

\* The least number of cycles that spreads the largest load by MaxSpread each;
\* one if the caller gives less than all ranks.
NumberOfCycles ==
    LET largest == Max({input.load[r] : r \in Ranks})
    IN  IF input.group # Ranks THEN 1
        ELSE Min({n \in 0 .. Size : GlobalAverage * MaxSpread ^ n >= largest})

\* int(pow(Size, k / NumberOfCycles)).
NumberOfGroups(k) ==
    Max({g \in 1 .. Size : g ^ cycles =< Size ^ k})

\* First and last rank of the group of p: the first groups have one rank more.
GroupBounds(p, k) ==
    LET groups == NumberOfGroups(k)
        base   == Size \div groups
        larger == Size % groups
        split  == larger * (base + 1)
        first  == IF p < split THEN (p \div (base + 1)) * (base + 1)
                  ELSE split + ((p - split) \div base) * base
    IN  <<first, first + (IF p < split THEN base ELSE base - 1)>>

Bounds(p) == IF cycle[p] = 0 THEN <<0, Size - 1>> ELSE GroupBounds(p, cycle[p])

GroupAverage(first, last, k) ==
    LET load == IF k = 0 THEN GlobalLoad
                ELSE MapThenSumSet(LAMBDA r : cells[r], first .. last)
    IN  Max({load \div (last - first + 1), GlobalAverage})

\* The tree is set up over the positions in the group.
Setup(p) ==
    LET bounds == Bounds(p)
        first  == bounds[1]
        node   == Trees!NodeOf([class |-> "centered", option |-> FALSE],
                               0, bounds[2] - first, p - first)
    IN  [root     |-> node.parent = Trees!Invalid,
         parent   |-> first + node.parent,
         children |-> [c \in 1 .. Trees!NumberOfChildren(node) |-> first + Trees!ChildRank(node, c)],
         average  |-> GroupAverage(first, bounds[2], cycle[p])]

Children(p) == Range(tree[p].children)

UpperLimit(average) == average + average \div Flexibility

-----------------------------------------------------------------------------
(* BranchData: a branch, and its effective part, which leaves out branches *)
(* that do not want work from above.                                       *)

StartingBranch(average, load) ==
    [procs |-> 1, current |-> load, ideal |-> average, upper |-> UpperLimit(average),
     effProcs |-> 1, effCurrent |-> load, effIdeal |-> average,
     effUpper |-> UpperLimit(average), shipment |-> Empty, wants |-> FALSE]

Surplus(b) == b.current - b.ideal

EffDeficit(b) == b.effIdeal - b.effCurrent

EffExcess(b) == b.effCurrent - b.effUpper

\* Forgets what comes with the child's message.
incorporateChild_NoShipment(b, c) ==
    LET eff == IF c.wants THEN 1 ELSE 0
    IN  [b EXCEPT !.procs      = @ + c.procs,
                  !.current    = @ + c.current,
                  !.ideal      = @ + c.ideal,
                  !.upper      = @ + c.upper,
                  !.effProcs   = @ + eff * c.effProcs,
                  !.effCurrent = @ + eff * c.effCurrent,
                  !.effIdeal   = @ + eff * c.effIdeal,
                  !.effUpper   = @ + eff * c.effUpper]

incorporateChild(b, c) ==
    LET eff == IF c.wants THEN 1 ELSE 0
        in  == SumLoad(c.shipment)
    IN  [b EXCEPT !.procs      = @ + c.procs,
                  !.current    = @ + c.current + in,
                  !.ideal      = @ + c.ideal,
                  !.upper      = @ + c.upper,
                  !.effProcs   = @ + eff * c.effProcs,
                  !.effCurrent = @ + eff * c.effCurrent + in,
                  !.effIdeal   = @ + eff * c.effIdeal,
                  !.effUpper   = @ + eff * c.effUpper]

adjustOutboundLoad(b, reserve, ideal, low) ==
    LET moved == adjustLoad(b.shipment, reserve, ideal)
        out   == SumLoad(moved.main)
    IN  IF low > Tolerance
        THEN [branch  |-> [b EXCEPT !.shipment = moved.main,
                                    !.current = @ - out, !.effCurrent = @ - out],
              reserve |-> moved.hold,
              clash   |-> moved.clash]
        ELSE [branch |-> b, reserve |-> reserve, clash |-> FALSE]

-----------------------------------------------------------------------------
(* Messages.  MPI keeps the order of messages of a pair with the same tag. *)

Sent(p, q, tag, data) == [from |-> p, to |-> q, tag |-> tag, cycle |-> cycle[p], data |-> data]

Waiting(p, tag) ==
    {m \in net : /\ m.to = p /\ m.tag = tag
                 /\ \A n \in net : (n.from = m.from /\ n.to = p /\ n.tag = tag) => n.cycle =< m.cycle}

\* The sends of p are complete: at the latest when they are received.
SendsComplete(p, tags) == \A m \in net : m.from = p => m.tag \notin tags

-----------------------------------------------------------------------------
(* distributeLoadAcrossRankGroup().                                        *)

Init ==
    /\ input \in Inputs
    /\ cells = input.load
    /\ cycles = NumberOfCycles
    /\ cycle = [p \in Ranks |-> cycles - 1]
    /\ pc = [p \in Ranks |-> IF cycles = 0 THEN "done" ELSE "start"]
    /\ tree = [p \in Ranks |-> [root |-> TRUE, children |-> <<>>, average |-> 0]]
    /\ bin = [p \in Ranks |-> Empty]
    /\ branch = [p \in Ranks |-> StartingBranch(0, 0)]
    /\ child = [p \in Ranks |-> <<>>]
    /\ served = [p \in Ranks |-> 0]
    /\ unaccounted = [p \in Ranks |-> 0]
    /\ fulfill = [p \in Ranks |-> Empty]
    /\ awaited = [p \in Ranks |-> {}]
    /\ net = {}
    /\ aborted = FALSE

\* All but the last cycle begin with a reduction over all processes.
Start(p) ==
    /\ pc[p] = "start"
    /\ cycle[p] > 0 => \A q \in Ranks : cycle[q] =< cycle[p]
    /\ pc' = [pc EXCEPT ![p] = "children"]
    /\ bin' = [bin EXCEPT ![p] = [Empty EXCEPT ![p] = cells[p]]]
    /\ \E t \in {Setup(p)} :
          /\ tree' = [tree EXCEPT ![p] = t]
          /\ branch' = [branch EXCEPT ![p] = StartingBranch(t.average, cells[p])]
    /\ child' = [child EXCEPT ![p] = <<>>]
    /\ served' = [served EXCEPT ![p] = 0]
    /\ UNCHANGED <<input, cycles, cycle, cells, unaccounted, fulfill, awaited, net, aborted>>

ReceiveFromChild(p, m) ==
    /\ pc[p] = "children"
    /\ m.from \in Children(p) \ DOMAIN child[p]
    /\ child' = [child EXCEPT ![p] = (m.from :> m.data) @@ @]
    /\ branch' = [branch EXCEPT ![p] = incorporateChild(@, m.data)]
    /\ bin' = [bin EXCEPT ![p] = Combined(@, m.data.shipment)]
    /\ net' = net \ {m}
    /\ UNCHANGED <<input, cycles, pc, cycle, cells, tree, served, unaccounted, fulfill, awaited, aborted>>

WantsWork(b) == EffDeficit(b) > 0

\* What is too much for the branch goes to the parent, if the complement of
\* the branch can take it.
Outbound(b, reserve) ==
    IF EffExcess(b) > 0
    THEN adjustOutboundLoad(b, reserve, Surplus(b), Min({EffExcess(b), Surplus(b)}))
    ELSE [branch |-> b, reserve |-> reserve, clash |-> FALSE]

SendToParent(p) ==
    /\ pc[p] = "children"
    /\ Children(p) \subseteq DOMAIN child[p]
    /\ IF tree[p].root
       THEN /\ pc' = [pc EXCEPT ![p] = "distribute"]
            /\ UNCHANGED <<bin, branch, net, aborted>>
       ELSE \E wants \in {WantsWork(branch[p])} :
              \E out \in {Outbound([branch[p] EXCEPT !.wants = wants], bin[p])} :
                 /\ pc' = [pc EXCEPT ![p] = IF wants THEN "parent" ELSE "distribute"]
                 /\ bin' = [bin EXCEPT ![p] = out.reserve]
                 /\ branch' = [branch EXCEPT ![p] = out.branch]
                 /\ net' = net \cup {Sent(p, tree[p].parent, "load", out.branch)}
                 /\ aborted' = (aborted \/ out.clash)
    /\ UNCHANGED <<input, cycles, cycle, cells, tree, child, served, unaccounted, fulfill, awaited>>

ReceiveFromParent(p, m) ==
    /\ pc[p] = "parent"
    /\ m.from = tree[p].parent
    /\ pc' = [pc EXCEPT ![p] = "distribute"]
    /\ bin' = [bin EXCEPT ![p] = Combined(@, m.data.shipment)]
    /\ LET in == SumLoad(m.data.shipment)
       IN  branch' = [branch EXCEPT ![p].shipment = m.data.shipment,
                                    ![p].current = @ + in, ![p].effCurrent = @ + in]
    /\ net' = net \ {m}
    /\ UNCHANGED <<input, cycles, cycle, cells, tree, child, served, unaccounted, fulfill, awaited, aborted>>

-----------------------------------------------------------------------------
(* Work for the children that want some, one after the other.              *)

\* Leaves the deficits of the children still to be served out.
SurplusShare_Greedy(reserve, average, branches, rest, c) ==
    LET procs == MapThenSumSet(LAMBDA d : branches[d].effProcs, rest)
    IN  ((SumLoad(reserve) - UpperLimit(average)) * branches[c].effProcs) \div Max({procs, 1})

\* computeSurplusPerEffectiveDescendent() times the processes of a child: its
\* share of what is too much here after every child from it on got its deficit.
SurplusShare(reserve, average, branches, rest, c) ==
    LET wanting  == {d \in rest : branches[d].wants}
        deficits == MapThenSumSet(LAMBDA d : EffDeficit(branches[d]), wanting)
        procs    == MapThenSumSet(LAMBDA d : branches[d].effProcs, wanting)
    IN  ((SumLoad(reserve) - UpperLimit(average) - deficits) * branches[c].effProcs) \div procs

\* What the i-th child gets; the children from it on have not been served.
Shipment(p, i) ==
    LET children == tree[p].children
        b        == child[p][children[i]]
        rest     == {children[j] : j \in i .. Len(children)}
        share    == SurplusShare(bin[p], tree[p].average, child[p], rest, children[i])
    IN  adjustOutboundLoad(b, bin[p], EffDeficit(b) + Max({share, 0}), EffDeficit(b) + share)

\* One turn of the loop over the children.
SendToChild(p) ==
    /\ pc[p] = "distribute"
    /\ served[p] < Len(tree[p].children)
    /\ served' = [served EXCEPT ![p] = @ + 1]
    /\ LET c == tree[p].children[served[p] + 1]
       IN  IF child[p][c].wants
           THEN \E out \in {Shipment(p, served[p] + 1)} :
                  /\ bin' = [bin EXCEPT ![p] = out.reserve]
                  /\ child' = [child EXCEPT ![p][c] = out.branch]
                  /\ net' = net \cup {Sent(p, c, "load", [shipment |-> out.branch.shipment])}
                  /\ aborted' = (aborted \/ out.clash)
           ELSE UNCHANGED <<bin, child, net, aborted>>
    /\ UNCHANGED <<input, cycles, pc, cycle, cells, tree, branch, unaccounted, fulfill, awaited>>

ArriveAtBarrier(p) ==
    /\ pc[p] = "distribute"
    /\ served[p] = Len(tree[p].children)
    /\ pc' = [pc EXCEPT ![p] = "barrier"]
    /\ UNCHANGED <<input, cycles, cycle, cells, tree, bin, branch, child, served, unaccounted, fulfill, awaited, net, aborted>>

FinishSends(p) == SendsComplete(p, {"load"}) /\ ArriveAtBarrier(p)

\* MPI may complete a send before it is received.
FinishSendsEarly(p) == ~SendsComplete(p, {"load"}) /\ ArriveAtBarrier(p)

-----------------------------------------------------------------------------
(* assignToLocalAndPopulateMaps(): the redemption of the vouchers.         *)

Behind == {"start", "children", "parent", "distribute"}

BarrierOpen(p) ==
    \A q \in Ranks : cycle[q] < cycle[p] \/ (cycle[q] = cycle[p] /\ pc[q] \notin Behind)

\* Looks at the work to be, not at the boxes.
OriginalWork_Balanced(p) == SumLoad(bin[p])

OriginalWork(p) == cells[p]

SendDemands(p) ==
    /\ pc[p] = "barrier"
    /\ BarrierOpen(p)
    /\ LET issuers == Issuers(bin[p]) \ {p}
       IN  /\ awaited' = [awaited EXCEPT ![p] = issuers]
           /\ net' = net \cup {Sent(p, q, "demand", [load |-> bin[p][q]]) : q \in issuers}
    /\ unaccounted' = [unaccounted EXCEPT ![p] = OriginalWork(p) - bin[p][p]]
    /\ fulfill' = [fulfill EXCEPT ![p] = [Empty EXCEPT ![p] = bin[p][p]]]
    /\ pc' = [pc EXCEPT ![p] = "demands"]
    /\ UNCHANGED <<input, cycles, cycle, cells, tree, bin, branch, child, served, aborted>>

\* Stops when less than everything is accounted for.
MoreDemands_All(p) == unaccounted[p] >= 0

MoreDemands(p) == unaccounted[p] > Tolerance

ReceiveDemand(p, m) ==
    /\ pc[p] = "demands"
    /\ MoreDemands(p)
    /\ fulfill' = [fulfill EXCEPT ![p][m.from] = m.data.load]
    /\ unaccounted' = [unaccounted EXCEPT ![p] = @ - m.data.load]
    /\ aborted' = (aborted \/ unaccounted'[p] < -Tolerance)
    /\ net' = net \ {m}
    /\ UNCHANGED <<input, cycles, pc, cycle, cells, tree, bin, branch, child, served, awaited>>

\* recursiveSendWorkSupply(): the last demander gets what is left.
Supply(p, q) ==
    LET demanders == Issuers(fulfill[p])
    IN  IF q = Max(demanders)
        THEN cells[p] - MapThenSumSet(LAMBDA r : fulfill[p][r], demanders \ {q})
        ELSE fulfill[p][q]

SendSupplies(p) ==
    /\ pc[p] = "demands"
    /\ ~MoreDemands(p)
    /\ LET demanders == Issuers(fulfill[p])
       IN  /\ net' = net \cup {Sent(p, q, "supply", [load |-> Supply(p, q)]) : q \in demanders \ {p}}
           /\ cells' = [cells EXCEPT ![p] = CASE demanders = {} -> @
                                             [] p \in demanders -> Supply(p, p)
                                             [] OTHER -> 0]
    /\ pc' = [pc EXCEPT ![p] = "supplies"]
    /\ UNCHANGED <<input, cycles, cycle, tree, bin, branch, child, served, unaccounted, fulfill, awaited, aborted>>

ReceiveSupply(p, m) ==
    /\ pc[p] = "supplies"
    /\ awaited[p] # {}
    /\ cells' = [cells EXCEPT ![p] = @ + m.data.load]
    /\ awaited' = [awaited EXCEPT ![p] = @ \ {m.from}]
    /\ aborted' = (aborted \/ m.from \notin awaited[p])
    /\ net' = net \ {m}
    /\ UNCHANGED <<input, cycles, pc, cycle, tree, bin, branch, child, served, unaccounted, fulfill>>

NextCycle(p) ==
    /\ pc[p] = "supplies"
    /\ awaited[p] = {}
    /\ pc' = [pc EXCEPT ![p] = IF cycle[p] = 0 THEN "done" ELSE "start"]
    /\ cycle' = [cycle EXCEPT ![p] = IF @ = 0 THEN 0 ELSE @ - 1]
    /\ UNCHANGED <<input, cycles, cells, tree, bin, branch, child, served, unaccounted, fulfill, awaited, net, aborted>>

\* Redemptions wait for their sends before they are destroyed.
Redeemed(p) == SendsComplete(p, {"demand", "supply"}) /\ NextCycle(p)

RedeemedEarly(p) == ~SendsComplete(p, {"demand", "supply"}) /\ NextCycle(p)

-----------------------------------------------------------------------------
Step(p) ==
    \/ Start(p)
    \/ \E m \in Waiting(p, "load") : ReceiveFromChild(p, m) \/ ReceiveFromParent(p, m)
    \/ SendToParent(p)
    \/ SendToChild(p)
    \/ FinishSends(p)
    \/ SendDemands(p)
    \/ \E m \in Waiting(p, "demand") : ReceiveDemand(p, m)
    \/ SendSupplies(p)
    \/ \E m \in Waiting(p, "supply") : ReceiveSupply(p, m)
    \/ Redeemed(p)

Progress == \E p \in Ranks : Step(p)

AllDone == \A p \in Ranks : pc[p] = "done"

Over == AllDone /\ UNCHANGED vars

Next ==
    \/ Progress
    \/ \E p \in Ranks : FinishSendsEarly(p) \/ RedeemedEarly(p)
    \/ Over

Spec == Init /\ [][Next]_vars /\ WF_vars(Progress)

-----------------------------------------------------------------------------
Tags == {"load", "demand", "supply"}

\* The state of the processes is made of the values the code keeps there.
TypeOK ==
    /\ input \in Inputs
    /\ pc \in [Ranks -> Behind \cup {"barrier", "demands", "supplies", "done"}]
    /\ cycle \in [Ranks -> -1 .. Size]
    /\ cells \in [Ranks -> Int]
    /\ bin \in [Ranks -> Containers]
    /\ unaccounted \in [Ranks -> Int]
    /\ fulfill \in [Ranks -> Containers]
    /\ awaited \in [Ranks -> SUBSET Ranks]
    /\ \A m \in net : m.from \in Ranks /\ m.to \in Ranks /\ m.tag \in Tags
    /\ aborted \in BOOLEAN

\* No process ever puts a voucher next to one of the same issuer
\* (VoucherTransitLoad::insert() ends the program), gets more demands than
\* it has work unaccounted for, or a supply it did not demand.
NeverAborts == ~aborted

\* What a process has boxes for after a cycle is what its vouchers said.
VouchersPaid ==
    \A p \in Ranks :
        \/ pc[p] = "done" /\ cycles > 0
        \/ pc[p] = "start" /\ cycle[p] < cycles - 1
        => cells[p] = SumLoad(bin[p])

\* A process comes out of a cycle with boxes for just as much work as the
\* vouchers it held said, although it got them from others that had them from
\* others, and sent its demands to processes that did not expect them; and no
\* process ends the program on the way.
RedeemedInFull == TypeOK /\ NeverAborts /\ VouchersPaid

RECURSIVE Descendants(_)
Descendants(p) == {p} \cup UNION {Descendants(c) : c \in Children(p)}

\* What a process believes the load of its branch to be, from what its
\* children said before they got work from it, is the work in the branch.
BranchLoadsTrue ==
    \A p \in Ranks :
        pc[p] \in {"parent", "distribute"} =>
            LET inside   == Descendants(p)
                downward == {m \in net : m.tag = "load" /\ m.from \in inside /\ m.to \in inside}
                Load(m)  == SumLoad(m.data.shipment)
            IN  branch[p].current = MapThenSumSet(LAMBDA q : SumLoad(bin[q]), inside)
                                       + MapThenSumSet(Load, downward)

\* No process ends with more than its share and the flexible load tolerance,
\* although each decides with what it heard from its children before they
\* sent or got any work.
LimitKept == AllDone => \A p \in Ranks : cells[p] =< UpperLimit(GlobalAverage)

\* Work stays within the rank group the caller gives ("we treat it as a
\* specific user request to balance only within the RankGroup",
\* TreeLoadBalancer.C:368).
KeepsToRankGroup == AllDone => \A p \in Ranks \ input.group : cells[p] = 0

\* All processes return.
AllReturn == <>AllDone

=============================================================================
