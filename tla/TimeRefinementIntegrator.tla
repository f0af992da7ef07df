----------------------- MODULE TimeRefinementIntegrator -----------------------
(***************************************************************************)
(* algs::TimeRefinementIntegrator: advance of a hierarchy of levels, with  *)
(* refined timestepping (every level takes several steps in a step of the  *)
(* next coarser one) or with synchronized timestepping (all take the same  *)
(* steps).  Levels that have come to the same time are synchronized, finer *)
(* levels are regridded every few steps, and the data of a level is reset  *)
(* when its next step may begin.  mesh::GriddingAlgorithm recurses over    *)
(* the levels it regrids; StandardTagAndInitialize tells both how cells    *)
(* are tagged.  What the level integrator does is external: here is the    *)
(* account it keeps of its data.                                           *)
(***************************************************************************)
EXTENDS Integers, FiniteSets, FiniteSetsExt

CONSTANTS
    MaxLevels,      \* levels there may be
    EndTime,        \* end of the simulation; it starts at 0
    GrowDt,         \* d_grow_dt
    Dts,            \* time increments that level integrators return
    Ratios,         \* refinement ratios, all levels the same
    SwitchTime,     \* when other tagging criteria apply
    MaxRestarts     \* bound: restarts of the simulation

Levels == 0 .. MaxLevels - 1

ASSUME TimeRefinementIntegratorAssumption ==
    /\ MaxLevels \in Nat \ {0}
    /\ EndTime \in Nat \ {0}
    /\ GrowDt \in Nat \ {0}
    /\ Dts \in [Levels -> SUBSET (1 .. EndTime)]
    /\ Ratios \subseteq {2, 3}
    /\ SwitchTime \in Nat
    /\ MaxRestarts \in Nat

VARIABLES
    input,      \* how the simulation runs
    levels,     \* levels of the hierarchy
    level,      \* the integrator's arrays, and the locals of the recursion
    at,         \* level that is advanced
    pos,        \* where in its loop
    clock,      \* the integrator's members that are not of a level
    tagging,    \* criteria in use, and the cycle they were chosen in
    data,       \* the level integrator's account
    restarts    \* number of restarts

vars == <<input, levels, level, at, pos, clock, tagging, data, restarts>>

Finest == Max(levels)

\* PatchHierarchy::levelCanBeRefined().
levelCanBeRefined(l) == l < MaxLevels - 1

\* Constructor: from the refinement ratio, or 1 with synchronized timestepping.
regrid_interval(l) == IF input.refined /\ MaxLevels > 1 THEN input.ratio ELSE 1

-----------------------------------------------------------------------------
(***************************************************************************)
(* The level integrator.  unreset: steps of a level's data not yet put in  *)
(* place of its current data.  unsynced: times that the next finer level   *)
(* has come to the time of this one and was not synchronized with it.      *)
(* unmatched: new levels whose current data is not synchronized with that  *)
(* of the next coarser.  since: steps since finer levels were regridded.   *)
(* unset: levels made since, for which no increment was computed.          *)
(***************************************************************************)
AdvancedData(d, l, last) ==
    [d EXCEPT !.unreset[l] = @ + 1,
              !.since[l] = @ + 1,
              !.unsynced = [k \in Levels |-> IF last /\ k = l - 1 THEN @[k] + 1 ELSE @[k]]]

standardLevelSynchronization(d, c, f) ==
    [d EXCEPT !.unsynced = [l \in Levels |-> IF l \in c .. f - 1 THEN @[l] - 1 ELSE @[l]]]

resetTimeDependentData(d, S) ==
    [d EXCEPT !.unreset = [l \in Levels |-> IF l \in S THEN @[l] - 1 ELSE @[l]]]

\* "Before this routine is called, all time-dependent data ... has been reset."
synchronizeNewLevels(d, c, f) ==
    [d EXCEPT !.unmatched = IF \A l \in c .. f : d.unreset[l] = 0 THEN @ \ (c + 1 .. f)
                            ELSE @ \cup (c + 1 .. f)]

-----------------------------------------------------------------------------
(***************************************************************************)
(* StandardTagAndInitialize: which criteria apply depends on the time, and *)
(* is looked up once in a cycle.                                           *)
(***************************************************************************)
RichardsonAt(time) == (time >= SwitchTime) # input.richardson

LookedUp(cycle, time) == [cycle |-> cycle, richardson |-> RichardsonAt(time)]

\* Variant: looked up whenever asked.
Criteria_Uncached(t, cycle, time) == LookedUp(cycle, time)

\* setCurrentTaggingCriteria(), with criteria t in use.
Criteria(t, cycle, time) == IF t.cycle = cycle THEN t ELSE LookedUp(cycle, time)

(***************************************************************************)
(* GriddingAlgorithm: regridFinerLevel() tags the cells of a level, goes   *)
(* on to the next level if there is one that can be refined, and on the    *)
(* way back makes the next level, if there are tags on this one, or        *)
(* removes it.  Cells under the level after next are tagged too.           *)
(***************************************************************************)
TaggedLevels(l) == {k \in levels : k >= l /\ levelCanBeRefined(k)}

\* Variant: a level that has no tags of its own is removed under a finer one.
HasTags_Own(userTags, k) == k \in userTags

HasTags(userTags, k) == \E m \in userTags : m >= k

regridFinerLevel(l, userTags) ==
    {k \in levels : k <= l} \cup {k + 1 : k \in {t \in TaggedLevels(l) : HasTags(userTags, t)}}

(***************************************************************************)
(* Tagging with Richardson extrapolation resets the data of the levels     *)
(* tagged; it advances them, and takes that back.                          *)
(***************************************************************************)
DataAfterRegrid(d, l, userTags, richardson) ==
    LET t == IF richardson THEN resetTimeDependentData(d, TaggedLevels(l)) ELSE d
    IN  [t EXCEPT !.unmatched = @ \cup {k \in regridFinerLevel(l, userTags) : k > l},
                  !.since = [k \in Levels |-> IF k >= l THEN 0 ELSE @[k]],
                  !.unset = (@ \cup (regridFinerLevel(l, userTags) \ levels))
                            \cap regridFinerLevel(l, userTags)]

-----------------------------------------------------------------------------
lastLevelStep(l) ==
    IF l = 0 THEN clock.level_0_advanced ELSE level[l].step >= level[l].max_steps

\* Variant: the steps left are not made up to regrid intervals.
MaxSteps_AsNeeded(l, n) == n

\* The number of steps of a level that can be refined is a multiple.
MaxSteps(l, n) ==
    IF ~levelCanBeRefined(l) THEN n
    ELSE LET i == regrid_interval(l)
             m == IF n > i THEN n ELSE i
         IN  ((m + i - 1) \div i) * i

(***************************************************************************)
(* findNextDtAndStepsRemaining() of a level other than 0, on its record s. *)
(* Times are counted in units: a quotient is rounded down, and the last    *)
(* step of a sequence ends with the time remaining.                        *)
(***************************************************************************)
StepsFor(remaining, dt) == (remaining + dt - 1) \div dt

findNextDtAndStepsRemaining(s, l, remaining, bound) ==
    LET dt_max == Min({bound, s.dt_max * GrowDt})
        n      == MaxSteps(l, s.step + StepsFor(remaining, dt_max))
    IN  IF s.step < s.max_steps
        THEN [s EXCEPT !.dt_max = dt_max,
                       !.max_steps = n,
                       !.dt_actual = remaining \div (n - s.step),
                       !.sync_after_step = n - s.step <= 1]
        ELSE [s EXCEPT !.dt_max = dt_max,
                       !.dt_actual = dt_max,
                       !.sync_after_step = TRUE]

(***************************************************************************)
(* The first lines of the recursion for level l > 0: it starts where the   *)
(* coarser one, with record c, did.  dt is what getMaxFinerLevelDt()       *)
(* returned, or what was used before.                                      *)
(***************************************************************************)
IsNew(l) == clock.last_finest_level < l

Entered(c, l) ==
    LET remaining == c.new_time - c.sim_time
        dt        == Min({c.dt_actual, c.dt_actual \div input.ratio})
        dt_max    == IF ~IsNew(l) THEN level[l].dt_max
                     ELSE IF levelCanBeRefined(l)
                          THEN Min({dt, remaining \div regrid_interval(l)}) ELSE dt
        s         == [level[l] EXCEPT !.step = 0, !.max_steps = 1, !.sim_time = c.sim_time,
                                      !.end_time = c.new_time, !.dt_max = dt_max]
    IN  findNextDtAndStepsRemaining(s, l, remaining, dt_max)

-----------------------------------------------------------------------------
\* For what is not a number in the code.
NoLevel == [step |-> 0, max_steps |-> 1, sim_time |-> 0, end_time |-> 0, new_time |-> 0,
            dt_max |-> 1, dt_actual |-> 0, dt_new |-> 0, sync_after_step |-> FALSE]

(***************************************************************************)
(* initializeHierarchy(): levels are made one after the other; data that   *)
(* is advanced to tag cells is taken back.                                 *)
(***************************************************************************)
Init ==
    /\ input \in [refined : BOOLEAN, ratio : Ratios, richardson : BOOLEAN]
    /\ levels \in {0 .. f : f \in Levels}
    /\ \E dt \in Dts[0] :
          level = [l \in Levels |-> IF l = 0 THEN [NoLevel EXCEPT !.dt_max = dt, !.dt_actual = dt]
                                    ELSE NoLevel]
    /\ at = 0
    /\ pos = "idle"
    /\ clock = [integrator_time |-> 0, dt |-> level[0].dt_max, last_finest_level |-> 0,
                level_0_advanced |-> TRUE, hierarchy_advanced |-> TRUE, just_regridded |-> FALSE]
    /\ tagging = LookedUp(0, 0)
    /\ data = [unreset |-> [l \in Levels |-> 0], unsynced |-> [l \in Levels |-> 0],
               unmatched |-> {}, since |-> [l \in Levels |-> 0], unset |-> levels \ {0}]
    /\ restarts = 0

(***************************************************************************)
(* advanceHierarchy() with refined timestepping, until the loop of level   *)
(* 0: one step to its end.  The application goes on with the increment it  *)
(* returned.                                                               *)
(***************************************************************************)
Continues == clock.integrator_time < EndTime

advanceHierarchy ==
    /\ pos = "idle" /\ Continues /\ input.refined
    /\ level' = [level EXCEPT
          ![0] = [@ EXCEPT !.sim_time = clock.integrator_time,
                           !.end_time = clock.integrator_time + clock.dt,
                           !.dt_actual = clock.dt,
                           !.sync_after_step = TRUE]]
    /\ clock' = [clock EXCEPT !.level_0_advanced = FALSE, !.hierarchy_advanced = FALSE]
    /\ at' = 0
    /\ pos' = "step"
    /\ UNCHANGED <<input, levels, tagging, data, restarts>>

(***************************************************************************)
(* A step of level l, up to the recursion if there is a finer level.       *)
(***************************************************************************)
Stepped(l, dt_new) ==
    [level[l] EXCEPT !.new_time = IF level[l].sync_after_step THEN level[l].end_time
                                  ELSE level[l].sim_time + level[l].dt_actual,
                     !.dt_new = dt_new,
                     !.step = IF l = 0 THEN @ ELSE @ + 1]

advanceLevel(l) ==
    /\ at = l /\ pos = "step"
    /\ \E dt_new \in Dts[l] :
          LET s     == Stepped(l, dt_new)
              finer == l + 1 \in levels
              e     == Entered(s, l + 1)
          IN  /\ level' = [k \in Levels |-> IF k = l THEN s
                                            ELSE IF k = l + 1 /\ finer THEN e ELSE level[k]]
              /\ IF finer THEN at' = l + 1 /\ pos' = "step" ELSE at' = l /\ pos' = "sync"
              /\ clock' = [clock EXCEPT !.just_regridded = FALSE,
                                        !.level_0_advanced = @ \/ l = 0,
                                        !.last_finest_level = IF finer /\ @ < l + 1 THEN l + 1 ELSE @]
              /\ data' = [AdvancedData(data, l, l > 0 /\ s.step >= s.max_steps)
                             EXCEPT !.unset = IF finer /\ IsNew(l + 1) THEN @ \ {l + 1} ELSE @]
    /\ UNCHANGED <<input, levels, tagging, restarts>>

-----------------------------------------------------------------------------
atRegridPoint(l) ==
    LET step == IF l = 0 /\ ~clock.hierarchy_advanced THEN level[0].step + 1 ELSE level[l].step
    IN  step > 0 /\ levelCanBeRefined(l) /\ step % regrid_interval(l) = 0

coarserLevelRegridsToo(l) == l > 0 /\ atRegridPoint(l - 1)

\* Whether level l regrids finer levels, and not a coarser one in its place.
Regrids(l) == atRegridPoint(l) /\ (~lastLevelStep(l) \/ ~coarserLevelRegridsToo(l))

CoarsestSyncLevel(l) == IF l > 0 /\ lastLevelStep(l) THEN l - 1 ELSE l

(***************************************************************************)
(* Synchronization after a step of level l and of the finer ones.  After   *)
(* the last step, the next coarser level takes part in it.                 *)
(***************************************************************************)
\* Variant: though a finer level that regridded has done so.
SyncsHere_Again(l) == ~lastLevelStep(l) \/ l = 0

SyncsHere(l) == (~lastLevelStep(l) \/ l = 0) /\ ~clock.just_regridded

SyncedData(l) ==
    IF Regrids(l)
    THEN standardLevelSynchronization(data, CoarsestSyncLevel(l), Finest)
    ELSE IF ~atRegridPoint(l) /\ l < Finest /\ SyncsHere(l)
         THEN resetTimeDependentData(standardLevelSynchronization(data, l, Finest), {Finest})
         ELSE data

\* The step of level 0 is counted when the finer levels are back.
CountStep ==
    /\ at = 0 /\ pos = "sync" /\ ~clock.hierarchy_advanced
    /\ level' = [level EXCEPT ![0].step = @ + 1]
    /\ clock' = [clock EXCEPT !.hierarchy_advanced = TRUE]
    /\ UNCHANGED <<input, levels, at, pos, tagging, data, restarts>>

\* Then its time goes on, and its next increment is determined.
NextIncrement(l) ==
    LET s == level[l]
        t == [s EXCEPT !.sim_time = s.new_time]
    IN  IF l = 0
        THEN LET dt == Min({s.dt_new, s.dt_max * GrowDt})
             IN  [t EXCEPT !.dt_max = dt, !.dt_actual = dt, !.sync_after_step = TRUE]
        ELSE findNextDtAndStepsRemaining(t, l, s.end_time - s.new_time, s.dt_new)

Synchronize(l) ==
    /\ at = l /\ pos = "sync"
    /\ l = 0 => clock.hierarchy_advanced
    /\ data' = SyncedData(l)
    /\ level' = [level EXCEPT ![l] = NextIncrement(l)]
    /\ pos' = "regrid"
    /\ UNCHANGED <<input, levels, at, clock, tagging, restarts>>

-----------------------------------------------------------------------------
(***************************************************************************)
(* The rest of the loop of level l: finer levels are regridded or not, and *)
(* once more, or back to the coarser level.                                *)
(***************************************************************************)
EndOfIteration(l) ==
    IF ~lastLevelStep(l) THEN at' = l /\ pos' = "step"
    ELSE IF l > 0 THEN at' = l - 1 /\ pos' = "sync"
    ELSE at' = 0 /\ pos' = "return"

\* Levels reset by the integrator before it regrids.
ResetBefore(l, richardson) ==
    IF ~richardson THEN l .. Finest
    ELSE IF levelCanBeRefined(Finest) THEN {} ELSE {Finest}

\* Variant: the finest level after regridding.
LastFinestLevel_After == Max(levels')

\* The finest level there was: levels beyond it are new.
LastFinestLevel == Finest

Regrid(l) ==
    /\ at = l /\ pos = "regrid" /\ Regrids(l)
    /\ \E userTags \in SUBSET TaggedLevels(l) :
          LET t   == Criteria(tagging, level[0].step, clock.integrator_time)
              u   == Criteria(t, level[0].step, level[l].sim_time)
              d   == resetTimeDependentData(data, ResetBefore(l, t.richardson))
              e   == DataAfterRegrid(d, l, userTags, u.richardson)
              new == regridFinerLevel(l, userTags)
          IN  /\ tagging' = u
              /\ levels' = new
              /\ data' = synchronizeNewLevels(e, l, Max(new))
    /\ clock' = [clock EXCEPT !.last_finest_level = LastFinestLevel, !.just_regridded = TRUE]
    /\ EndOfIteration(l)
    /\ UNCHANGED <<input, level, restarts>>

\* Variant: the last step of a level is reset here, not by the coarser one.
ResetsHere_Always(l) == TRUE

ResetsHere(l) == ~lastLevelStep(l) \/ l = 0

NoRegrid(l) ==
    /\ at = l /\ pos = "regrid" /\ ~Regrids(l)
    /\ LET d == IF ResetsHere(l) THEN resetTimeDependentData(data, {l}) ELSE data
       IN  data' = IF atRegridPoint(l) THEN data
                   ELSE IF clock.just_regridded THEN synchronizeNewLevels(d, l, Finest) ELSE d
    /\ EndOfIteration(l)
    /\ UNCHANGED <<input, levels, level, clock, tagging, restarts>>

\* End of advanceHierarchy().
Return ==
    /\ pos = "return"
    /\ LET time == clock.integrator_time + clock.dt
       IN  clock' = [clock EXCEPT !.integrator_time = time,
                                  !.dt = Min({level[0].dt_actual, EndTime - time})]
    /\ pos' = "idle"
    /\ UNCHANGED <<input, levels, level, at, tagging, data, restarts>>

-----------------------------------------------------------------------------
(***************************************************************************)
(* advanceForSynchronizedTimestepping(): all levels, all together.         *)
(***************************************************************************)
AllAdvanced ==
    [data EXCEPT !.unreset = [l \in Levels |-> IF l \in levels THEN @[l] + 1 ELSE @[l]],
                 !.since = [l \in Levels |-> IF l \in levels THEN @[l] + 1 ELSE @[l]],
                 !.unsynced = [l \in Levels |-> IF l + 1 \in levels THEN @[l] + 1 ELSE @[l]]]

advanceForSynchronizedTimestepping ==
    /\ pos = "idle" /\ Continues /\ ~input.refined
    /\ \E dt_next \in Dts[0], userTags \in SUBSET TaggedLevels(0) :
          LET time   == clock.integrator_time + clock.dt
              dt_new == Min({dt_next, GrowDt * clock.dt})
              step   == level[0].step + 1
              t      == Criteria(tagging, step, time)
              synced == IF Finest > 0 THEN standardLevelSynchronization(AllAdvanced, 0, Finest)
                        ELSE AllAdvanced
              reset  == resetTimeDependentData(synced, ResetBefore(0, t.richardson))
              new    == regridFinerLevel(0, userTags)
          IN  /\ level' = [l \in Levels |->
                    [level[l] EXCEPT !.step = IF l = 0 THEN step ELSE IF l \in levels THEN 1 ELSE @,
                                     !.sim_time = IF l \in levels THEN clock.integrator_time ELSE @,
                                     !.dt_max = IF l \in levels THEN dt_new ELSE @,
                                     !.dt_actual = IF l \in levels THEN dt_new ELSE @]]
              /\ clock' = [clock EXCEPT !.integrator_time = time,
                                        !.dt = Min({dt_new, EndTime - time}),
                                        !.level_0_advanced = TRUE, !.hierarchy_advanced = TRUE]
              /\ IF step % regrid_interval(0) = 0
                 THEN /\ tagging' = t
                      /\ levels' = IF levelCanBeRefined(0) THEN new ELSE levels
                      /\ data' = synchronizeNewLevels(DataAfterRegrid(reset, 0, userTags, t.richardson),
                                                      0, Max(new))
                 ELSE /\ data' = resetTimeDependentData(synced, levels)
                      /\ UNCHANGED <<levels, tagging>>
    /\ UNCHANGED <<input, at, pos, restarts>>

-----------------------------------------------------------------------------
(***************************************************************************)
(* The application writes a restart file after a step and is started from  *)
(* it later.  The integrator finds what putToRestart() wrote, and what its *)
(* constructor sets; initializeHierarchy() returns the increment of level  *)
(* 0 to go on with.  StandardTagAndInitialize starts anew.  The data of    *)
(* the levels is restored.                                                 *)
(***************************************************************************)
Restored(l) == [NoLevel EXCEPT !.step = IF l = 0 THEN level[0].step ELSE @,
                               !.dt_max = level[l].dt_max, !.dt_actual = level[l].dt_actual]

Restart ==
    /\ pos = "idle" /\ Continues /\ restarts < MaxRestarts
    /\ level' = [l \in Levels |-> Restored(l)]
    /\ clock' = [clock EXCEPT !.dt = level[0].dt_max, !.just_regridded = FALSE]
    /\ tagging' = [tagging EXCEPT !.cycle = -1]
    /\ restarts' = restarts + 1
    /\ UNCHANGED <<input, levels, at, pos, data>>

-----------------------------------------------------------------------------
Done == pos = "idle" /\ ~Continues

Terminated == Done /\ UNCHANGED vars

Progress ==
    \/ advanceHierarchy
    \/ \E l \in Levels : advanceLevel(l)
    \/ CountStep
    \/ \E l \in Levels : Synchronize(l) \/ Regrid(l) \/ NoRegrid(l)
    \/ Return
    \/ advanceForSynchronizedTimestepping

Next == Progress \/ Restart \/ Terminated

Spec == Init /\ [][Next]_vars

-----------------------------------------------------------------------------
(***************************************************************************)
(* The data of a level that has made a step is put in place exactly once   *)
(* before its next step, by this level, a coarser one, or in the tagging   *)
(* of cells; not earlier than the finer levels have come to the same time, *)
(* which use the old and the new data for their boundaries.                *)
(***************************************************************************)
DataResetOnce ==
    /\ \A l \in Levels : data.unreset[l] \in {0, 1}
    /\ pos = "step" => \A l \in levels : data.unreset[l] = IF l < at THEN 1 ELSE 0
    /\ pos = "idle" => \A l \in levels : data.unreset[l] = 0

(***************************************************************************)
(* Two levels that have come to the same time are synchronized exactly     *)
(* once before either is advanced further.                                 *)
(***************************************************************************)
SyncedOnce ==
    /\ \A l \in Levels : data.unsynced[l] \in {0, 1}
    /\ pos = "step" => \A l \in at .. MaxLevels - 1 : data.unsynced[l] = 0
    /\ pos = "idle" => \A l \in Levels : data.unsynced[l] = 0

(***************************************************************************)
(* New levels are made consistent with the coarser ones before a step is   *)
(* made, and this finds all data of the levels reset.                      *)
(***************************************************************************)
NewLevelsMatched == data.unmatched = {}

(***************************************************************************)
(* No level that can be refined makes more steps than the regrid interval  *)
(* before finer levels are regridded, over the ends of its sequences of    *)
(* steps and although coarser levels regrid in its place.                  *)
(***************************************************************************)
RegridOnTime ==
    \A l \in levels : levelCanBeRefined(l) =>
        /\ data.since[l] <= regrid_interval(l)
        /\ (pos = "step" /\ at = l) => data.since[l] < regrid_interval(l)

(***************************************************************************)
(* A level steps to the time the next coarser one has come to, where those *)
(* that were advanced meet, and it makes no step that is longer than the   *)
(* level integrator allows.  The first step of a level that was removed    *)
(* and made again is not made with the increment of the level there was    *)
(* before.                                                                 *)
(***************************************************************************)
StepsFit ==
    /\ pos = "step" => at \notin data.unset
    /\ pos \notin {"idle", "return"} => \A l \in 1 .. at : level[l].end_time = level[l - 1].new_time
    /\ pos = "step" =>
        /\ level[at].sim_time < level[at].end_time
        /\ level[at].dt_actual <= level[at].dt_max
    /\ pos = "sync" =>
        \A l \in levels \ data.unset : l > at => level[l].sim_time = level[at].new_time

(***************************************************************************)
(* No level is removed that lies under a finer one.                        *)
(***************************************************************************)
NoHoles == levels = 0 .. Finest
=============================================================================
