-------------------- MODULE TimeRefinementIntegratorProofs --------------------
(***************************************************************************)
(* The levels of a hierarchy, for any number of levels, ratios, increments *)
(* and restarts.                                                           *)
(***************************************************************************)
EXTENDS TimeRefinementIntegrator, WellFoundedInduction, TLAPS

(***************************************************************************)
(* The levels there are: the numbers from 0 to that of a finest one.       *)
(***************************************************************************)
Nested(S) == \E f \in Levels : S = 0 .. f

\* A set of naturals with an upper bound has a greatest element.
LEMMA GreatestElement ==
    ASSUME NEW S \in SUBSET Nat, S # {}, NEW b \in Nat, \A x \in S : x <= b
    PROVE  \E x \in S : \A y \in S : y <= x
<1> DEFINE T == {n \in Nat : \A x \in S : x <= n}
<1>1. T \in SUBSET Nat /\ T # {}
    OBVIOUS
<1>2. PICK n \in T : \A m \in T : <<m, n>> \notin OpToRel(<, Nat)
  <2> HIDE DEF T
  <2> QED
    BY <1>1, WFMin, NatLessThanWellFounded, Zenon
<1>3. \A m \in T : ~(m < n)
    BY <1>2 DEF OpToRel
<1>4. n \in S
  <2> SUFFICES ASSUME n \notin S PROVE FALSE
    OBVIOUS
  <2>1. \A x \in S : x <= n - 1
    OBVIOUS
  <2>2. n - 1 \in Nat
    <3>1. PICK x \in S : x <= n - 1
        BY <2>1
    <3>2. x \in Nat
        OBVIOUS
    <3> QED
        BY <3>1, <3>2
  <2>3. n - 1 \in T
    BY <2>1, <2>2
  <2> QED
    BY <1>3, <2>3
<1> QED
    BY <1>4

LEMMA NestedMax == ASSUME NEW S, Nested(S) PROVE S = 0 .. Max(S)
<1>1. PICK f \in Levels : S = 0 .. f
    BY DEF Nested
<1>2. f \in Nat
    BY <1>1, TimeRefinementIntegratorAssumption DEF Levels
<1>3. f \in S /\ \A y \in S : f >= y
    BY <1>1, <1>2
<1>4. Max(S) \in S /\ \A y \in S : Max(S) >= y
    BY <1>3 DEF Max
<1>5. Max(S) = f
    BY <1>1, <1>2, <1>3, <1>4
<1> QED
    BY <1>1, <1>5

(***************************************************************************)
(* Regridding makes the levels above the finest one with tags, whatever    *)
(* the tags: a level under it counts as tagged.                            *)
(***************************************************************************)
LEMMA RegridNests ==
    ASSUME Nested(levels), NEW l \in Levels, NEW userTags \in SUBSET TaggedLevels(l)
    PROVE  Nested(regridFinerLevel(l, userTags))
<1> DEFINE new    == regridFinerLevel(l, userTags)
           marked == {t \in TaggedLevels(l) : HasTags(userTags, t)}
<1>1. PICK f \in Levels : levels = 0 .. f
    BY DEF Nested
<1>2. f \in Nat /\ l \in Nat /\ MaxLevels \in Nat /\ f <= MaxLevels - 1 /\ l <= MaxLevels - 1
    BY <1>1, TimeRefinementIntegratorAssumption DEF Levels
<1>3. TaggedLevels(l) = {k \in 0 .. f : k >= l /\ k < MaxLevels - 1}
    BY <1>1 DEF TaggedLevels, levelCanBeRefined
<1>4. new = {k \in 0 .. f : k <= l} \cup {k + 1 : k \in marked}
    BY <1>1 DEF regridFinerLevel
<1>5. \A k : k \in marked <=> k \in TaggedLevels(l) /\ \E m \in userTags : m >= k
    BY DEF HasTags
<1> HIDE DEF new, marked
<1>6. CASE marked = {}
  <2>1. new = 0 .. (IF l <= f THEN l ELSE f)
    BY <1>2, <1>4, <1>6
  <2> QED
    BY <1>1, <2>1 DEF Nested, new
<1>7. CASE marked # {}
  <2>1. PICK top \in marked : \A k \in marked : k <= top
    <3>1. marked \subseteq 0 .. f
        BY <1>3, <1>5
    <3>2. marked \in SUBSET Nat /\ \A k \in marked : k <= f
        BY <1>2, <3>1
    <3> QED
        BY <1>2, <1>7, <3>2, GreatestElement
  <2>2. /\ top \in Nat /\ top >= l /\ top <= f /\ top < MaxLevels - 1
        /\ \E m \in userTags : m >= top
    BY <1>3, <1>5, <2>1
  <2>3. \A m \in userTags : m \in Nat
    BY <1>2, <1>3
  <2>4. \A k \in l .. top : k \in marked
    <3> SUFFICES ASSUME NEW k \in l .. top PROVE k \in marked
        OBVIOUS
    <3>1. k \in TaggedLevels(l)
        BY <1>2, <1>3, <2>2
    <3>2. PICK m \in userTags : m >= top
        BY <2>2
    <3>3. m >= k
        BY <1>2, <2>2, <2>3, <3>2
    <3> QED
        BY <1>5, <3>1, <3>3
  <2>5. \A k \in marked : k \in l .. top
    BY <1>2, <1>3, <1>5, <2>1
  <2>6. ASSUME NEW k PROVE k \in new <=> k \in 0 .. top + 1
    <3>1. CASE k \in new
      <4>1. CASE k \in 0 .. f /\ k <= l
        BY <1>2, <2>2, <3>1, <4>1
      <4>2. CASE \E j \in marked : k = j + 1
        <5>1. PICK j \in marked : k = j + 1
            BY <4>2
        <5>2. j \in l .. top
            BY <2>5
        <5> QED
            BY <1>2, <2>2, <3>1, <5>1, <5>2
      <4> QED
        BY <1>4, <3>1, <4>1, <4>2
    <3>2. CASE k \in 0 .. top + 1
      <4>1. CASE k <= l
        BY <1>2, <1>4, <2>2, <3>2, <4>1
      <4>2. CASE k > l
        <5>1. k - 1 \in l .. top /\ k = (k - 1) + 1
            BY <1>2, <2>2, <3>2, <4>2
        <5>2. k - 1 \in marked
            BY <2>4, <5>1
        <5> QED
            BY <1>4, <3>2, <5>1, <5>2
      <4> QED
        BY <1>2, <2>2, <3>2, <4>1, <4>2
    <3> QED
        BY <3>1, <3>2
  <2>7. new = 0 .. top + 1
    BY <2>6
  <2>8. top + 1 \in Levels
    BY <1>2, <2>2 DEF Levels
  <2> QED
    BY <2>7, <2>8 DEF Nested, new
<1> QED
    BY <1>6, <1>7

-----------------------------------------------------------------------------
LEMMA LevelsNested == Spec => []Nested(levels)
<1>1. Init => Nested(levels)
    BY DEF Init, Nested
<1>2. Nested(levels) /\ [Next]_vars => Nested(levels)'
  <2> SUFFICES ASSUME Nested(levels), [Next]_vars
               PROVE  Nested(levels')
    BY DEF Nested
  <2>1. ASSUME levels' = levels PROVE Nested(levels')
    BY <2>1 DEF Nested
  <2>2. ASSUME NEW l \in Levels, Regrid(l) PROVE Nested(levels')
    BY <2>2, RegridNests DEF Regrid
  <2>3. ASSUME advanceForSynchronizedTimestepping PROVE Nested(levels')
    <3>1. 0 \in Levels
        BY TimeRefinementIntegratorAssumption DEF Levels
    <3>2. PICK userTags \in SUBSET TaggedLevels(0) :
              levels' = regridFinerLevel(0, userTags) \/ levels' = levels
        BY <2>3 DEF advanceForSynchronizedTimestepping
    <3> QED
        BY <2>1, <3>1, <3>2, RegridNests
  <2> QED
    BY <2>1, <2>2, <2>3
    DEF Next, Progress, advanceHierarchy, advanceLevel, CountStep, Synchronize, NoRegrid,
        Return, Restart, Terminated, vars
<1> QED
    BY <1>1, <1>2, PTL DEF Spec

(***************************************************************************)
(* However levels are regridded, from whatever level and tags, no level is *)
(* removed under a finer one (GriddingAlgorithm.C:1100-1420).              *)
(***************************************************************************)
THEOREM HierarchyHasNoHoles == Spec => []NoHoles
<1>1. Nested(levels) => NoHoles
    BY NestedMax DEF NoHoles, Finest
<1> QED
    BY <1>1, LevelsNested, PTL

-----------------------------------------------------------------------------
(* Arithmetic of steps and increments.                                     *)

LEMMA MinOfTwo ==
    ASSUME NEW a \in Int, NEW b \in Int
    PROVE  /\ Min({a, b}) \in {a, b}
           /\ Min({a, b}) <= a /\ Min({a, b}) <= b
<1>1. \E x \in {a, b} : \A y \in {a, b} : x <= y
  <2>1. CASE a <= b
    BY <2>1
  <2>2. CASE ~(a <= b)
    BY <2>2
  <2> QED
    BY <2>1, <2>2
<1> QED
  BY <1>1 DEF Min

LEMMA MinInNat ==
    ASSUME NEW a \in Nat, NEW b \in Nat
    PROVE  Min({a, b}) \in Nat
<1>1. a \in Int /\ b \in Int
  OBVIOUS
<1>2. Min({a, b}) \in {a, b}
  BY <1>1, MinOfTwo, Zenon
<1>3. Min({a, b}) = a \/ Min({a, b}) = b
  BY <1>2
<1> QED
  BY <1>3

LEMMA Quotient ==
    ASSUME NEW a \in Nat, NEW d \in Nat, d >= 1
    PROVE  /\ a \div d \in Nat
           /\ d * (a \div d) <= a
           /\ a < d * (a \div d) + d
<1>1. a \div d \in Int /\ (a % d) \in 0 .. (d - 1) /\ a = d * (a \div d) + (a % d)
  OBVIOUS
<1> DEFINE q == a \div d
           r == a % d
<1> HIDE DEF q, r
<1>2. q \in Int /\ r \in 0 .. (d - 1) /\ a = d * q + r
  BY <1>1 DEF q, r
<1>3. q >= 0
  <2>1. SUFFICES ASSUME q <= -1 PROVE FALSE
    BY <1>2
  <2>2. d * q <= d * (-1)
    BY <2>1, <1>2
  <2> QED
    BY <2>2, <1>2
<1>4. d * q \in Int
  BY <1>2
<1> QED
  BY <1>2, <1>3, <1>4 DEF q

\* So many steps of dt take the time remaining, and do not pass it before.
LEMMA StepsForType ==
    ASSUME NEW r \in Nat, NEW dt \in Nat, r >= 1, dt >= 1
    PROVE  /\ StepsFor(r, dt) \in Nat
           /\ StepsFor(r, dt) >= 1
           /\ r <= dt * StepsFor(r, dt)
<1> DEFINE q == StepsFor(r, dt)
<1>1. r + dt - 1 \in Nat
  OBVIOUS
<1>2. q \in Nat /\ dt * q <= r + dt - 1 /\ r + dt - 1 < dt * q + dt
  BY <1>1, Quotient DEF StepsFor
<1> HIDE DEF q
<1>3. dt * q \in Nat
  BY <1>2
<1>4. r <= dt * q
  BY <1>2, <1>3
<1>5. q # 0
  <2>1. dt * 0 = 0
    OBVIOUS
  <2> QED
    BY <2>1, <1>4
<1> QED
  BY <1>2, <1>4, <1>5 DEF q

\* The time remaining, in n equal steps.
LEMMA Share ==
    ASSUME NEW r \in Nat, NEW n \in Nat, n >= 1
    PROVE  /\ r \div n \in Nat
           /\ n >= 2 /\ r >= 1 => r \div n < r
           /\ \A d \in Nat : r <= d * n => r \div n <= d
<1> DEFINE q == r \div n
<1>1. q \in Nat /\ n * q <= r
  BY Quotient
<1> HIDE DEF q
<1>2. ASSUME n >= 2, r >= 1 PROVE q < r
  <2>1. SUFFICES ASSUME r <= q PROVE FALSE
    BY <1>1
  <2>2. 2 * q <= n * q
    BY <1>1, <1>2
  <2>3. n * q \in Nat
    BY <1>1
  <2> QED
    BY <2>1, <2>2, <2>3, <1>1, <1>2
<1>3. ASSUME NEW d \in Nat, r <= d * n PROVE q <= d
  <2>1. SUFFICES ASSUME d + 1 <= q, r < n * (d + 1) PROVE FALSE
    <3>1. n * (d + 1) = d * n + n
      OBVIOUS
    <3>2. d * n \in Nat
      OBVIOUS
    <3> QED
      BY <3>1, <3>2, <1>1, <1>3
  <2>2. n * (d + 1) <= n * q
    BY <2>1, <1>1
  <2>3. n * q \in Nat /\ n * (d + 1) \in Nat
    BY <1>1
  <2> QED
    BY <2>1, <2>2, <2>3, <1>1
<1> QED
  BY <1>1, <1>2, <1>3 DEF q

\* Counting steps in regrid intervals, of 1, 2 or 3.
LEMMA InInterval ==
    ASSUME NEW n \in Nat, NEW i \in 1 .. 3
    PROVE  /\ (n % i) \in Nat /\ (n % i) < i
           /\ (n + 1) % i # 0 => (n + 1) % i = (n % i) + 1
           /\ (0 % i) = 0
<1>1. CASE i = 1
  BY <1>1
<1>2. CASE i = 2
  BY <1>2
<1>3. CASE i = 3
  BY <1>3
<1> QED
  BY <1>1, <1>2, <1>3

(***************************************************************************)
(* Types.  A record of level is that of the arrays of the integrator.      *)
(***************************************************************************)
LevelType ==
    [step : Nat, max_steps : Nat, sim_time : Nat, end_time : Nat, new_time : Nat,
     dt_max : Nat, dt_actual : Nat, dt_new : Nat, sync_after_step : BOOLEAN]

ClockType ==
    [integrator_time : Nat, dt : Int, last_finest_level : Nat,
     level_0_advanced : BOOLEAN, hierarchy_advanced : BOOLEAN,
     just_regridded : BOOLEAN]

DataType ==
    [unreset : [Levels -> Int], unsynced : [Levels -> Int],
     unmatched : SUBSET Levels, since : [Levels -> Nat], unset : SUBSET Levels]

InputType == [refined : BOOLEAN, ratio : Ratios, richardson : BOOLEAN]

Typed ==
    /\ input \in InputType
    /\ Nested(levels)
    /\ level \in [Levels -> LevelType]
    /\ at \in levels
    /\ pos \in {"idle", "step", "sync", "regrid", "return"}
    /\ clock \in ClockType
    /\ data \in DataType

\* The regrid interval, of all levels the same.
Interval == regrid_interval(0)

LEMMA IntervalType ==
    ASSUME input \in InputType
    PROVE  /\ Interval \in 1 .. 3
           /\ \A l : regrid_interval(l) = Interval
           /\ input.ratio \in {2, 3}
<1>1. input.ratio \in {2, 3}
  BY TimeRefinementIntegratorAssumption DEF InputType
<1> QED
  BY <1>1 DEF Interval, regrid_interval

LEMMA LevelsType ==
    /\ MaxLevels \in Nat /\ MaxLevels >= 1
    /\ \A l \in Levels : l \in Nat /\ l >= 0 /\ l <= MaxLevels - 1
    /\ \A l \in Nat : l <= MaxLevels - 1 => l \in Levels
    /\ 0 \in Levels
    /\ GrowDt \in Nat /\ GrowDt >= 1
BY TimeRefinementIntegratorAssumption DEF Levels

\* The greatest of the levels that a hierarchy without holes has.
LEMMA NestedTop ==
    ASSUME NEW S, Nested(S)
    PROVE  S = 0 .. Max(S) /\ Max(S) \in Levels /\ Max(S) \in Nat
<1>1. PICK f \in Levels : S = 0 .. f
  BY DEF Nested
<1>2. f \in Nat
  BY <1>1, LevelsType
<1>3. f \in S /\ \A y \in S : f >= y
  BY <1>1, <1>2
<1>4. Max(S) \in S /\ \A y \in S : Max(S) >= y
  BY <1>3 DEF Max
<1>5. Max(S) = f
  BY <1>1, <1>2, <1>3, <1>4
<1> QED
  BY <1>1, <1>2, <1>5

LEMMA MaxStepsType ==
    ASSUME input \in InputType, NEW l \in Levels, NEW n \in Nat
    PROVE  /\ MaxSteps(l, n) \in Nat
           /\ MaxSteps(l, n) >= n
           /\ levelCanBeRefined(l) => (MaxSteps(l, n) % Interval) = 0
<1>1. Interval \in 1 .. 3 /\ regrid_interval(l) = Interval
  BY IntervalType
<1>2. CASE ~levelCanBeRefined(l)
  BY <1>2 DEF MaxSteps
<1>3. CASE levelCanBeRefined(l)
  <2> DEFINE i == Interval
             m == IF n > i THEN n ELSE i
             q == (m + i - 1) \div i
  <2>1. MaxSteps(l, n) = q * i
    BY <1>1, <1>3 DEF MaxSteps
  <2>2. m \in Nat /\ m >= n /\ i \in 1 .. 3
    BY <1>1
  <2> HIDE DEF m, i
  <2>3. q * i \in Nat /\ q * i >= m /\ (q * i) % i = 0
    <3>1. CASE i = 1
      BY <3>1, <2>2
    <3>2. CASE i = 2
      BY <3>2, <2>2
    <3>3. CASE i = 3
      BY <3>3, <2>2
    <3> QED
      BY <3>1, <3>2, <3>3, <2>2
  <2> HIDE DEF q
  <2>4. q * i \in Nat /\ q * i >= n
    BY <2>2, <2>3
  <2> QED
    BY <2>1, <2>3, <2>4 DEF i
<1> QED
  BY <1>2, <1>3

(***************************************************************************)
(* What findNextDtAndStepsRemaining() leaves in the record of a level, and *)
(* what a level has that is going to make a step of its sequence.          *)
(***************************************************************************)
Ready(s) ==
    /\ s.sim_time < s.end_time
    /\ s.step < s.max_steps
    /\ s.sync_after_step <=> s.step + 1 >= s.max_steps
    /\ ~s.sync_after_step => s.sim_time + s.dt_actual < s.end_time
    /\ s.dt_actual <= s.dt_max

LEMMA NextDtType ==
    ASSUME input \in InputType, NEW s \in LevelType, NEW l \in Levels,
           NEW bound \in Nat, bound >= 1, s.dt_max >= 1, s.sim_time <= s.end_time
    PROVE  LET r == s.end_time - s.sim_time
               t == findNextDtAndStepsRemaining(s, l, r, bound)
           IN  s.step < s.max_steps /\ s.sim_time < s.end_time =>
               /\ t \in LevelType
               /\ t.step = s.step /\ t.sim_time = s.sim_time
               /\ t.end_time = s.end_time /\ t.new_time = s.new_time
               /\ t.dt_max >= 1
               /\ Ready(t)
               /\ levelCanBeRefined(l) => (t.max_steps % Interval) = 0
<1> DEFINE r == s.end_time - s.sim_time
           dt == Min({bound, s.dt_max * GrowDt})
           f == StepsFor(r, dt)
           n == MaxSteps(l, s.step + f)
           t == findNextDtAndStepsRemaining(s, l, r, bound)
<1> SUFFICES ASSUME s.step < s.max_steps, s.sim_time < s.end_time
             PROVE  /\ t \in LevelType
                    /\ t.step = s.step /\ t.sim_time = s.sim_time
                    /\ t.end_time = s.end_time /\ t.new_time = s.new_time
                    /\ t.dt_max >= 1
                    /\ Ready(t)
                    /\ levelCanBeRefined(l) => (t.max_steps % Interval) = 0
  OBVIOUS
<1>1. /\ s.step \in Nat /\ s.end_time \in Nat /\ s.sim_time \in Nat
      /\ s.dt_max \in Nat /\ r \in Nat /\ r >= 1
  BY DEF LevelType
<1>2. dt \in Nat /\ dt >= 1
  <2> DEFINE g == s.dt_max * GrowDt
  <2>1. g \in Nat /\ g >= 1
    BY <1>1, LevelsType
  <2> HIDE DEF g
  <2>2. Min({bound, g}) \in {bound, g}
    BY <2>1, MinOfTwo
  <2> QED
    BY <2>1, <2>2 DEF g
<1>3. f \in Nat /\ f >= 1 /\ r <= dt * f
  BY <1>1, <1>2, StepsForType
<1> DEFINE e == [s EXCEPT !.dt_max = dt, !.max_steps = n,
                          !.dt_actual = r \div (n - s.step),
                          !.sync_after_step = n - s.step <= 1]
<1>4. t = e
  BY <1>1 DEF findNextDtAndStepsRemaining
<1> HIDE DEF f
<1>5. n \in Nat /\ n >= s.step + f /\ (levelCanBeRefined(l) => (n % Interval) = 0)
  BY <1>1, <1>3, MaxStepsType
<1> HIDE DEF n, dt
<1>6. n - s.step \in Nat /\ n - s.step >= 1 /\ r <= dt * (n - s.step)
  <2>1. n - s.step \in Nat /\ n - s.step >= f
    BY <1>1, <1>3, <1>5
  <2>2. dt * f <= dt * (n - s.step)
    BY <2>1, <1>2, <1>3
  <2>3. dt * f \in Nat /\ dt * (n - s.step) \in Nat
    BY <2>1, <1>2, <1>3
  <2> QED
    BY <2>1, <2>2, <2>3, <1>1, <1>3
<1> DEFINE a == r \div (n - s.step)
<1>7. /\ a \in Nat /\ a <= dt
      /\ n - s.step >= 2 => a < r
  BY <1>1, <1>2, <1>6, Share
<1> HIDE DEF a
<1>8. e = [s EXCEPT !.dt_max = dt, !.max_steps = n, !.dt_actual = a,
                    !.sync_after_step = n - s.step <= 1]
  BY DEF a
<1> HIDE DEF e
<1>9. /\ e \in LevelType
      /\ e.step = s.step /\ e.sim_time = s.sim_time /\ e.end_time = s.end_time
      /\ e.new_time = s.new_time /\ e.dt_max = dt /\ e.max_steps = n
      /\ e.dt_actual = a
      /\ e.sync_after_step <=> n - s.step <= 1
  <2>1. (n - s.step <= 1) \in BOOLEAN
    OBVIOUS
  <2>2. e \in LevelType
    BY <2>1, <1>2, <1>5, <1>7, <1>8 DEF LevelType
  <2>3. e.sync_after_step = (n - s.step <= 1)
    BY <1>8 DEF LevelType
  <2>4. /\ e.step = s.step /\ e.sim_time = s.sim_time /\ e.end_time = s.end_time
        /\ e.new_time = s.new_time /\ e.dt_max = dt /\ e.max_steps = n
        /\ e.dt_actual = a
    BY <1>8 DEF LevelType
  <2> QED
    BY <2>2, <2>3, <2>4
<1>10. Ready(e)
  BY <1>1, <1>6, <1>7, <1>9, <1>5 DEF Ready
<1> HIDE DEF t
<1> QED
  BY <1>2, <1>4, <1>5, <1>9, <1>10

\* After the last step of its sequence a level only gets an increment.
LEMMA LastDtType ==
    ASSUME NEW s \in LevelType, NEW l \in Levels, NEW r,
           NEW bound \in Nat, bound >= 1, s.dt_max >= 1, ~(s.step < s.max_steps)
    PROVE  LET t == findNextDtAndStepsRemaining(s, l, r, bound)
           IN  /\ t \in LevelType
               /\ t.step = s.step /\ t.max_steps = s.max_steps
               /\ t.sim_time = s.sim_time
               /\ t.end_time = s.end_time /\ t.new_time = s.new_time
               /\ t.dt_max >= 1
<1> DEFINE g == s.dt_max * GrowDt
           dt == Min({bound, g})
           t == findNextDtAndStepsRemaining(s, l, r, bound)
           e == [s EXCEPT !.dt_max = dt, !.dt_actual = dt, !.sync_after_step = TRUE]
<1>1. g \in Nat /\ g >= 1
  BY LevelsType DEF LevelType
<1>2. t = e
  BY DEF findNextDtAndStepsRemaining
<1> HIDE DEF g
<1>3. dt \in Nat /\ dt >= 1
  <2>1. dt \in {bound, g}
    BY <1>1, MinOfTwo
  <2> QED
    BY <2>1, <1>1
<1> HIDE DEF dt
<1>4. /\ e \in LevelType
      /\ e.step = s.step /\ e.max_steps = s.max_steps
      /\ e.sim_time = s.sim_time
      /\ e.end_time = s.end_time /\ e.new_time = s.new_time
      /\ e.dt_max = dt
  BY <1>3 DEF LevelType
<1> HIDE DEF e, t
<1> QED
  BY <1>2, <1>3, <1>4 DEF t

\* A level enters the recursion when the next coarser, c, has made a step.
LEMMA EnteredType ==
    ASSUME Typed, NEW c \in LevelType, c.sim_time < c.new_time,
           NEW l \in Levels, Entered(c, l).dt_max >= 1
    PROVE  LET t == Entered(c, l)
           IN  /\ t \in LevelType
               /\ t.step = 0
               /\ t.sim_time = c.sim_time /\ t.end_time = c.new_time
               /\ Ready(t)
               /\ levelCanBeRefined(l) => (t.max_steps % Interval) = 0
<1> DEFINE r == c.new_time - c.sim_time
           q == c.dt_actual \div input.ratio
           dt == Min({c.dt_actual, q})
           i == r \div regrid_interval(l)
           m == IF ~IsNew(l) THEN level[l].dt_max
                ELSE IF levelCanBeRefined(l) THEN Min({dt, i}) ELSE dt
           s == [level[l] EXCEPT !.step = 0, !.max_steps = 1, !.sim_time = c.sim_time,
                                 !.end_time = c.new_time, !.dt_max = m]
           t == findNextDtAndStepsRemaining(s, l, r, m)
<1>1. Entered(c, l) = t
  BY DEF Entered
<1>2. /\ c.dt_actual \in Nat /\ c.new_time \in Nat /\ c.sim_time \in Nat
      /\ r \in Nat /\ level[l] \in LevelType /\ input \in InputType
  <2>1. c.dt_actual \in Nat /\ c.new_time \in Nat /\ c.sim_time \in Nat
    BY DEF LevelType
  <2> QED
    <3>1. level[l] \in LevelType /\ input \in InputType
      BY DEF Typed
    <3>2. c.new_time - c.sim_time \in Nat
      BY <2>1
    <3> QED
      BY <2>1, <3>1, <3>2
<1>3. m \in Nat
  <2>1. input.ratio \in Nat /\ input.ratio >= 1
    <3>1. input.ratio \in {2, 3}
      BY <1>2, IntervalType
    <3> QED
      BY <3>1
  <2>2. q \in Nat
    BY <2>1, <1>2, Quotient
  <2>3. regrid_interval(l) \in Nat /\ regrid_interval(l) >= 1
    BY <1>2, IntervalType
  <2>4. i \in Nat
    BY <2>3, <1>2, Quotient
  <2>5. level[l].dt_max \in Nat
    BY <1>2 DEF LevelType
  <2> HIDE DEF q, i
  <2>7. dt \in Nat
    BY <2>2, <1>2, MinInNat
  <2> HIDE DEF dt
  <2>8. Min({dt, i}) \in Nat
    BY <2>4, <2>7, MinInNat
  <2> QED
    BY <2>4, <2>5, <2>7, <2>8
<1> HIDE DEF m
<1>4. /\ s \in LevelType /\ s.step = 0 /\ s.max_steps = 1
      /\ s.sim_time = c.sim_time /\ s.end_time = c.new_time /\ s.dt_max = m
  BY <1>2, <1>3 DEF LevelType
<1>5. m >= 1
  <2> DEFINE g == s.dt_max * GrowDt
  <2>1. t.dt_max = Min({m, g})
    BY <1>4 DEF findNextDtAndStepsRemaining, LevelType
  <2>2. g \in Nat
    BY <1>3, <1>4, LevelsType
  <2> HIDE DEF g
  <2>3. Min({m, g}) <= m /\ Min({m, g}) \in {m, g}
    BY <1>3, <2>2, MinOfTwo
  <2>4. Min({m, g}) >= 1
    BY <1>1, <2>1
  <2> QED
    BY <2>2, <2>3, <2>4, <1>3
<1> HIDE DEF s
<1>6. r = s.end_time - s.sim_time /\ s.sim_time < s.end_time /\ s.step < s.max_steps
  BY <1>4
<1> HIDE DEF r
<1>7. /\ t \in LevelType
      /\ t.step = s.step /\ t.sim_time = s.sim_time /\ t.end_time = s.end_time
      /\ Ready(t)
      /\ levelCanBeRefined(l) => (t.max_steps % Interval) = 0
  <2>1. /\ s.sim_time <= s.end_time /\ s.dt_max >= 1
    BY <1>2, <1>4, <1>5, <1>6
  <2> QED
    BY <2>1, <1>2, <1>3, <1>4, <1>5, <1>6, NextDtType
<1> HIDE DEF t
<1> QED
  BY <1>1, <1>4, <1>7

-----------------------------------------------------------------------------
(* The account of the data: what each operation does to it.                *)

LEMMA AdvancedDataType ==
    ASSUME NEW d \in DataType, NEW l \in Levels, NEW last \in BOOLEAN
    PROVE  LET e == AdvancedData(d, l, last)
           IN  /\ e \in DataType
               /\ e.unmatched = d.unmatched /\ e.unset = d.unset
               /\ \A k \in Levels :
                     /\ e.unreset[k] = IF k = l THEN d.unreset[k] + 1 ELSE d.unreset[k]
                     /\ e.since[k] = IF k = l THEN d.since[k] + 1 ELSE d.since[k]
                     /\ e.unsynced[k] = IF last /\ k = l - 1 THEN d.unsynced[k] + 1
                                        ELSE d.unsynced[k]
<1> DEFINE x == [d.unreset EXCEPT ![l] = @ + 1]
           y == [d.since EXCEPT ![l] = @ + 1]
           z == [k \in Levels |-> IF last /\ k = l - 1 THEN d.unsynced[k] + 1
                                  ELSE d.unsynced[k]]
           e == [d EXCEPT !.unreset = x, !.since = y, !.unsynced = z]
<1>1. /\ d.unreset \in [Levels -> Int] /\ d.unsynced \in [Levels -> Int]
      /\ d.since \in [Levels -> Nat]
  BY DEF DataType
<1>2. /\ x \in [Levels -> Int] /\ y \in [Levels -> Nat] /\ z \in [Levels -> Int]
  BY <1>1
<1>3. \A k \in Levels :
         /\ x[k] = IF k = l THEN d.unreset[k] + 1 ELSE d.unreset[k]
         /\ y[k] = IF k = l THEN d.since[k] + 1 ELSE d.since[k]
         /\ z[k] = IF last /\ k = l - 1 THEN d.unsynced[k] + 1 ELSE d.unsynced[k]
  BY <1>1
<1>4. AdvancedData(d, l, last) = e
  BY DEF AdvancedData, DataType
<1> HIDE DEF x, y, z
<1>5. /\ e \in DataType
      /\ e.unreset = x /\ e.since = y /\ e.unsynced = z
      /\ e.unmatched = d.unmatched /\ e.unset = d.unset
  BY <1>2 DEF DataType
<1> HIDE DEF e
<1> QED
  BY <1>3, <1>4, <1>5

LEMMA SynchronizedDataType ==
    ASSUME NEW d \in DataType, NEW c, NEW f
    PROVE  LET e == standardLevelSynchronization(d, c, f)
           IN  /\ e \in DataType
               /\ e.unmatched = d.unmatched /\ e.unset = d.unset
               /\ e.unreset = d.unreset /\ e.since = d.since
               /\ \A k \in Levels :
                     e.unsynced[k] = IF k \in c .. (f - 1) THEN d.unsynced[k] - 1
                                     ELSE d.unsynced[k]
<1> DEFINE z == [k \in Levels |-> IF k \in c .. (f - 1) THEN d.unsynced[k] - 1
                                  ELSE d.unsynced[k]]
           e == [d EXCEPT !.unsynced = z]
<1>1. z \in [Levels -> Int]
  BY DEF DataType
<1>2. standardLevelSynchronization(d, c, f) = e
  BY DEF standardLevelSynchronization, DataType
<1>3. \A k \in Levels : z[k] = IF k \in c .. (f - 1) THEN d.unsynced[k] - 1
                               ELSE d.unsynced[k]
  OBVIOUS
<1> HIDE DEF z
<1>4. /\ e \in DataType /\ e.unsynced = z
      /\ e.unmatched = d.unmatched /\ e.unset = d.unset
      /\ e.unreset = d.unreset /\ e.since = d.since
  BY <1>1 DEF DataType
<1> HIDE DEF e
<1> QED
  BY <1>2, <1>3, <1>4

LEMMA ResetDataType ==
    ASSUME NEW d \in DataType, NEW S
    PROVE  LET e == resetTimeDependentData(d, S)
           IN  /\ e \in DataType
               /\ e.unmatched = d.unmatched /\ e.unset = d.unset
               /\ e.unsynced = d.unsynced /\ e.since = d.since
               /\ \A k \in Levels :
                     e.unreset[k] = IF k \in S THEN d.unreset[k] - 1 ELSE d.unreset[k]
<1> DEFINE z == [k \in Levels |-> IF k \in S THEN d.unreset[k] - 1 ELSE d.unreset[k]]
           e == [d EXCEPT !.unreset = z]
<1>1. z \in [Levels -> Int]
  BY DEF DataType
<1>2. resetTimeDependentData(d, S) = e
  BY DEF resetTimeDependentData, DataType
<1>3. \A k \in Levels : z[k] = IF k \in S THEN d.unreset[k] - 1 ELSE d.unreset[k]
  OBVIOUS
<1> HIDE DEF z
<1>4. /\ e \in DataType /\ e.unreset = z
      /\ e.unmatched = d.unmatched /\ e.unset = d.unset
      /\ e.unsynced = d.unsynced /\ e.since = d.since
  BY <1>1 DEF DataType
<1> HIDE DEF e
<1> QED
  BY <1>2, <1>3, <1>4

\* When all data is reset, new levels are matched with the coarser ones.
LEMMA MatchedDataType ==
    ASSUME NEW d \in DataType, NEW c, NEW f, \A k \in c .. f : d.unreset[k] = 0
    PROVE  LET e == synchronizeNewLevels(d, c, f)
           IN  /\ e \in DataType
               /\ e.unmatched = d.unmatched \ (c + 1 .. f)
               /\ e.unset = d.unset /\ e.unreset = d.unreset
               /\ e.unsynced = d.unsynced /\ e.since = d.since
<1> DEFINE z == d.unmatched \ (c + 1 .. f)
           e == [d EXCEPT !.unmatched = z]
<1>1. z \in SUBSET Levels
  BY DEF DataType
<1>2. synchronizeNewLevels(d, c, f) = e
  BY DEF synchronizeNewLevels, DataType
<1> HIDE DEF z
<1>3. /\ e \in DataType /\ e.unmatched = z
      /\ e.unset = d.unset /\ e.unreset = d.unreset
      /\ e.unsynced = d.unsynced /\ e.since = d.since
  BY <1>1 DEF DataType
<1> HIDE DEF e
<1> QED
  BY <1>2, <1>3 DEF z

LEMMA RegriddedDataType ==
    ASSUME Nested(levels), NEW d \in DataType, NEW l \in Levels,
           NEW userTags \in SUBSET TaggedLevels(l), NEW richardson,
           NEW new, new = regridFinerLevel(l, userTags),
           NEW e, e = DataAfterRegrid(d, l, userTags, richardson)
    PROVE  /\ e \in DataType
           /\ e.unsynced = d.unsynced
           /\ e.unmatched = d.unmatched \cup {k \in new : k > l}
           /\ e.unset = (d.unset \cup (new \ levels)) \cap new
           /\ \A k \in Levels :
                 /\ e.unreset[k] = IF richardson /\ k \in TaggedLevels(l)
                                   THEN d.unreset[k] - 1 ELSE d.unreset[k]
                 /\ e.since[k] = IF k >= l THEN 0 ELSE d.since[k]
<1> DEFINE t == IF richardson THEN resetTimeDependentData(d, TaggedLevels(l)) ELSE d
           u == t.unmatched \cup {k \in new : k > l}
           y == [k \in Levels |-> IF k >= l THEN 0 ELSE t.since[k]]
           n == (t.unset \cup (new \ levels)) \cap new
           v == [t EXCEPT !.unmatched = u, !.since = y, !.unset = n]
<1>1. new \subseteq Levels
  <2>1. Nested(new)
    BY RegridNests
  <2> QED
    BY <2>1, LevelsType DEF Nested
<1>2. e = v
  <2>1. t \in DataType
    BY ResetDataType
  <2> QED
    BY <2>1 DEF DataAfterRegrid, DataType
<1>3. /\ t \in DataType /\ t.unsynced = d.unsynced /\ t.unmatched = d.unmatched
      /\ t.unset = d.unset /\ t.since = d.since
      /\ \A k \in Levels :
            t.unreset[k] = IF richardson /\ k \in TaggedLevels(l)
                           THEN d.unreset[k] - 1 ELSE d.unreset[k]
  <2>1. CASE richardson
    BY <2>1, ResetDataType
  <2>2. CASE ~richardson
    BY <2>2
  <2> QED
    BY <2>1, <2>2
<1> HIDE DEF t
<1>4. u \in SUBSET Levels /\ n \in SUBSET Levels /\ y \in [Levels -> Nat]
  BY <1>1, <1>3 DEF DataType
<1>5. \A k \in Levels : y[k] = IF k >= l THEN 0 ELSE t.since[k]
  OBVIOUS
<1> HIDE DEF u, n, y
<1>6. /\ v \in DataType /\ v.unmatched = u /\ v.since = y /\ v.unset = n
      /\ v.unsynced = t.unsynced /\ v.unreset = t.unreset
  BY <1>3, <1>4 DEF DataType
<1> HIDE DEF v
<1> QED
  BY <1>2, <1>3, <1>5, <1>6 DEF u, n

-----------------------------------------------------------------------------
(***************************************************************************)
(* The invariant.  A level k <= at is in the recursion: the coarser ones   *)
(* wait for the finer to come to their time.  Since the number of steps of *)
(* a level that can be refined is a multiple of the regrid interval, its   *)
(* last step is at a regrid point; so a level that leaves the recursion    *)
(* has regridded, or leaves it to the coarser one, or is the finest there  *)
(* may be.  This decides what is still to be synchronized, reset and       *)
(* regridded.                                                              *)
(***************************************************************************)
Looping == pos \in {"step", "sync", "regrid"}

\* Steps that level k has made, the one included that it is in.
Counted(k) ==
    IF k = 0 /\ ~clock.hierarchy_advanced THEN level[0].step + 1 ELSE level[k].step

\* Level k has a step of its sequence before it.
Before(k) == k = at /\ pos = "step"

\* Where in the recursion, and how far each of the levels in it.
Placed ==
    /\ pos # "idle" => input.refined
    /\ ~input.refined => clock.last_finest_level = 0
    /\ pos \in {"idle", "return"} => at = 0
    /\ pos # "idle" => (clock.level_0_advanced <=> ~Before(0))
    /\ pos = "step" \/ (Looping /\ at > 0) => ~clock.hierarchy_advanced
    /\ pos \in {"regrid", "return"} /\ at = 0 => clock.hierarchy_advanced
    /\ pos # "idle" /\ clock.hierarchy_advanced => level[0].step >= 1
    /\ \A k \in 1 .. at :
          /\ Before(k) => level[k].step < level[k].max_steps
          /\ ~Before(k) => level[k].step >= 1 /\ level[k].step <= level[k].max_steps
          /\ levelCanBeRefined(k) => (level[k].max_steps % Interval) = 0

\* The finer levels have come to the time of this one: whether they regridded.
Regridded ==
    pos \in {"sync", "regrid"} =>
        /\ clock.just_regridded => at < Finest /\ ~atRegridPoint(at)
        /\ ~clock.just_regridded /\ at < Finest =>
              atRegridPoint(at) \/ at + 1 = MaxLevels - 1

\* Times and increments.
Timed ==
    /\ pos = "idle" =>
          /\ level[0].dt_max >= 1 /\ level[0].dt_actual = level[0].dt_max
          /\ Continues => clock.dt >= 1 /\ clock.dt <= level[0].dt_max
    /\ pos # "idle" => level[0].dt_max >= 1 /\ clock.dt >= 1
    /\ pos \in {"regrid", "return"} /\ at = 0 => level[0].dt_actual = level[0].dt_max
    /\ pos = "step" /\ at = 0 =>
          /\ level[0].sim_time < level[0].end_time /\ level[0].sync_after_step
          /\ level[0].dt_actual <= level[0].dt_max
    /\ \A k \in 1 .. at :
          /\ level[k].end_time = level[k - 1].new_time
          /\ level[k].dt_max >= 1
          /\ Before(k) => Ready(level[k])
          /\ ~Before(k) => IF lastLevelStep(k) THEN level[k].new_time = level[k].end_time
                           ELSE level[k].new_time < level[k].end_time
          /\ k = at /\ pos = "regrid" /\ ~lastLevelStep(k) => Ready(level[k])
    /\ \A k \in 0 .. at : Looping /\ ~Before(k) => level[k].dt_new >= 1
    /\ pos = "regrid" => level[at].sim_time = level[at].new_time
    /\ pos \in {"sync", "regrid"} =>
          \A k \in levels \ data.unset : k > at => level[k].sim_time = level[at].new_time

\* The levels whose data is to be reset.
ToReset(k) ==
    \/ Looping /\ k < at
    \/ pos = "sync" /\ (k = at \/ (k > at /\ k \in levels /\ ~clock.just_regridded))
    \/ pos = "regrid" /\ (k = at \/ (k > at /\ k \in levels /\ atRegridPoint(at)))

Resets ==
    /\ \A k \in Levels : data.unreset[k] = IF ToReset(k) THEN 1 ELSE 0
    /\ data.unmatched = {}

\* The levels that are to be synchronized with the next finer one.
ToSync(k) ==
    \/ Looping /\ k + 1 < at /\ lastLevelStep(k + 1)
    \/ pos = "sync" /\ k + 1 = at /\ lastLevelStep(at)
    \/ pos = "sync" /\ k >= at /\ k + 1 \in levels /\ ~clock.just_regridded
    \/ /\ pos = "regrid" /\ ~Regrids(at)
       /\ \/ k + 1 = at /\ lastLevelStep(at)
          \/ k >= at /\ k + 1 \in levels /\ atRegridPoint(at)

Syncs == \A k \in Levels : data.unsynced[k] = IF ToSync(k) THEN 1 ELSE 0

\* Steps since finer levels were regridded.
Sinces ==
    \A k \in Levels : levelCanBeRefined(k) =>
        /\ Looping /\ k <= at /\ ~Before(k) =>
              data.since[k] = ((Counted(k) - 1) % Interval) + 1
        /\ k = at /\ pos \in {"idle", "step", "return"} =>
              data.since[k] = (level[k].step % Interval)
        /\ k > at =>
              /\ data.since[k] <= Interval
              /\ \/ k \notin levels \/ clock.just_regridded
                 \/ pos \in {"idle", "step", "return"}
                 => data.since[k] = 0

\* New levels for which there is no increment yet.
Unsets ==
    /\ data.unset \subseteq levels
    /\ \A k \in data.unset : k > at /\ k > clock.last_finest_level
    /\ pos \in {"sync", "regrid"} =>
          IF clock.just_regridded THEN at + 1 \notin data.unset ELSE data.unset = {}

RecursionInv ==
    /\ Typed /\ Placed /\ Regridded /\ Timed
    /\ Resets /\ Syncs /\ Sinces /\ Unsets

-----------------------------------------------------------------------------
LEMMA HierarchyFacts ==
    ASSUME Typed
    PROVE  /\ levels = 0 .. Finest /\ Finest \in Levels /\ Finest \in Nat
           /\ Finest <= MaxLevels - 1
           /\ at \in Nat /\ at \in Levels /\ at <= Finest
           /\ \A k \in Levels : level[k] \in LevelType
           /\ Interval \in 1 .. 3
           /\ \A l : regrid_interval(l) = Interval
<1>1. levels = 0 .. Finest
  BY NestedMax DEF Typed, Finest
<1>2. PICK f \in Levels : levels = 0 .. f
  BY DEF Typed, Nested
<1>3. f \in Nat /\ f <= MaxLevels - 1
  BY <1>2, LevelsType
<1>4. f \in levels /\ \A y \in levels : f >= y
  BY <1>2, <1>3
<1>5. Finest \in levels /\ \A y \in levels : Finest >= y
  BY <1>4 DEF Finest, Max
<1>6. Finest = f
  BY <1>2, <1>3, <1>4, <1>5
<1>7. at \in 0 .. f
  BY <1>2 DEF Typed
<1>8. at \in Nat /\ at <= f /\ at \in Levels
  BY <1>3, <1>7, LevelsType
<1> QED
  BY <1>1, <1>2, <1>3, <1>6, <1>8, IntervalType DEF Typed

\* Where a level regrids, told by the number of its steps.
LEMMA RegridPoint ==
    ASSUME Typed, NEW l \in Levels
    PROVE  atRegridPoint(l) <=>
               Counted(l) > 0 /\ levelCanBeRefined(l) /\ (Counted(l) % Interval) = 0
<1>1. regrid_interval(l) = Interval
  BY HierarchyFacts
<1> QED
  BY <1>1 DEF atRegridPoint, Counted

\* The last step of a level is at a regrid point, if it can be refined at all.
LEMMA LastAtRegridPoint ==
    ASSUME Typed, Placed, pos # "idle", NEW k \in 1 .. at, ~Before(k),
           levelCanBeRefined(k), lastLevelStep(k)
    PROVE  atRegridPoint(k)
<1>1. k \in Levels /\ k > 0
  BY HierarchyFacts, LevelsType
<1>2. level[k].step \in Nat /\ level[k].max_steps \in Nat
  BY <1>1, HierarchyFacts DEF LevelType
<1>3. /\ level[k].step >= 1 /\ level[k].step <= level[k].max_steps
      /\ (level[k].max_steps % Interval) = 0
  BY DEF Placed
<1>4. level[k].step = level[k].max_steps
  BY <1>1, <1>2, <1>3 DEF lastLevelStep
<1>5. Counted(k) = level[k].step
  BY <1>1 DEF Counted
<1> DEFINE n == level[k].max_steps
<1> HIDE DEF n
<1>6. Counted(k) = n /\ n > 0 /\ (n % Interval) = 0
  BY <1>2, <1>3, <1>4, <1>5 DEF n
<1>7. Counted(k) > 0 /\ (Counted(k) % Interval) = 0
  BY <1>6
<1> QED
  BY <1>1, <1>7, RegridPoint

\* The step of level l, as far as the level itself goes.
LEMMA SteppedType ==
    ASSUME Typed, Placed, Timed, pos = "step", level[at].dt_actual >= 1,
           NEW dt_new \in Dts[at]
    PROVE  LET s == Stepped(at, dt_new)
           IN  /\ s \in LevelType
               /\ s.step = IF at = 0 THEN level[at].step ELSE level[at].step + 1
               /\ s.max_steps = level[at].max_steps
               /\ s.sim_time = level[at].sim_time /\ s.end_time = level[at].end_time
               /\ s.dt_max = level[at].dt_max /\ s.dt_new >= 1
               /\ s.sim_time < s.new_time
               /\ at > 0 =>
                     IF s.step >= s.max_steps THEN s.new_time = s.end_time
                     ELSE s.new_time < s.end_time
               /\ at > 0 => s.step >= 1 /\ s.step <= s.max_steps
<1> DEFINE v == level[at]
           n == IF v.sync_after_step THEN v.end_time ELSE v.sim_time + v.dt_actual
           i == IF at = 0 THEN v.step ELSE v.step + 1
           s == [v EXCEPT !.new_time = n, !.dt_new = dt_new, !.step = i]
<1>1. v \in LevelType /\ at \in Nat /\ at \in Levels
  BY HierarchyFacts
<1>2. dt_new \in Nat /\ dt_new >= 1
  <2>1. Dts[at] \in SUBSET (1 .. EndTime) /\ EndTime \in Nat
    BY <1>1, TimeRefinementIntegratorAssumption
  <2> QED
    BY <2>1
<1>3. /\ v.step \in Nat /\ v.max_steps \in Nat /\ v.sim_time \in Nat
      /\ v.end_time \in Nat /\ v.dt_actual \in Nat
  BY <1>1 DEF LevelType
<1>4. /\ v.sim_time < v.end_time
      /\ at = 0 => v.sync_after_step
      /\ at > 0 => /\ v.step < v.max_steps
                   /\ v.sync_after_step <=> v.step + 1 >= v.max_steps
                   /\ ~v.sync_after_step => v.sim_time + v.dt_actual < v.end_time
  <2>1. CASE at = 0
    BY <2>1 DEF Timed
  <2>2. CASE at > 0
    <3>1. Ready(v)
      BY <1>1, <2>2 DEF Timed, Before
    <3> QED
      BY <2>2, <3>1 DEF Ready
  <2> QED
    BY <1>1, <2>1, <2>2
<1>5. n \in Nat /\ i \in Nat
  BY <1>3
<1>6. v.sim_time < n
  BY <1>3, <1>4
<1>7. at > 0 => IF i >= v.max_steps THEN n = v.end_time ELSE n < v.end_time
  BY <1>3, <1>4
<1>8. at > 0 => i >= 1 /\ i <= v.max_steps
  BY <1>3, <1>4
<1>9. Stepped(at, dt_new) = s
  BY DEF Stepped
<1> HIDE DEF n, i
<1>10. /\ s \in LevelType
       /\ s.step = i /\ s.max_steps = v.max_steps
       /\ s.sim_time = v.sim_time /\ s.end_time = v.end_time
       /\ s.dt_max = v.dt_max /\ s.dt_new = dt_new /\ s.new_time = n
  BY <1>1, <1>2, <1>5 DEF LevelType
<1> HIDE DEF s
<1> QED
  BY <1>2, <1>6, <1>7, <1>8, <1>9, <1>10 DEF i

-----------------------------------------------------------------------------
(***************************************************************************)
(* Times are counted in whole units here, and quotients are rounded down.  *)
(* In the code they are positive doubles.  What follows is about runs      *)
(* where no increment that a level is to be advanced with was rounded down *)
(* to nothing.                                                             *)
(***************************************************************************)
Positive == pos = "step" => level[at].dt_max >= 1 /\ level[at].dt_actual >= 1

\* The simulation starts.
LEMMA InitRecursion ==
    ASSUME Init
    PROVE  RecursionInv
<1>1. /\ at = 0 /\ pos = "idle" /\ input \in InputType
      /\ clock.last_finest_level = 0 /\ clock.dt = level[0].dt_max
      /\ clock.integrator_time = 0
  BY DEF Init, InputType
<1>2. Nested(levels) /\ 0 \in levels
  <2>1. PICK f \in Levels : levels = 0 .. f
    BY DEF Init
  <2> QED
    BY <2>1, LevelsType DEF Nested
<1>3. /\ level \in [Levels -> LevelType]
      /\ level[0].step = 0 /\ level[0].dt_max >= 1 /\ level[0].dt_actual = level[0].dt_max
  <2>1. NoLevel \in LevelType /\ NoLevel.step = 0
    BY DEF NoLevel, LevelType
  <2>2. PICK dt \in Dts[0] :
           level = [l \in Levels |-> IF l = 0 THEN [NoLevel EXCEPT !.dt_max = dt, !.dt_actual = dt]
                                     ELSE NoLevel]
    BY DEF Init
  <2>3. dt \in Nat /\ dt >= 1
    BY LevelsType, TimeRefinementIntegratorAssumption
  <2> DEFINE v == [NoLevel EXCEPT !.dt_max = dt, !.dt_actual = dt]
  <2>4. v \in LevelType /\ v.step = 0 /\ v.dt_max = dt /\ v.dt_actual = dt
    BY <2>1, <2>3 DEF LevelType
  <2>5. level = [l \in Levels |-> IF l = 0 THEN v ELSE NoLevel]
    BY <2>2
  <2> HIDE DEF v
  <2>6. level[0] = v /\ level \in [Levels -> LevelType]
    BY <2>1, <2>4, <2>5, LevelsType
  <2> QED
    BY <2>3, <2>4, <2>6
<1>4. clock \in ClockType
  <2>1. level[0].dt_max \in Int
    BY <1>3, LevelsType DEF LevelType
  <2>2. clock = [integrator_time |-> 0, dt |-> level[0].dt_max, last_finest_level |-> 0,
                 level_0_advanced |-> TRUE, hierarchy_advanced |-> TRUE,
                 just_regridded |-> FALSE]
    BY DEF Init
  <2> QED
    BY <2>1, <2>2 DEF ClockType
<1>5. /\ data \in DataType /\ data.unmatched = {} /\ data.unset = levels \ {0}
      /\ \A k \in Levels :
            data.unreset[k] = 0 /\ data.unsynced[k] = 0 /\ data.since[k] = 0
  <2>1. levels \subseteq Levels
    BY <1>2, LevelsType DEF Nested
  <2> QED
    BY <2>1 DEF Init, DataType
<1>6. Typed
  BY <1>1, <1>2, <1>3, <1>4, <1>5 DEF Typed
<1>7. Placed
  BY <1>1 DEF Placed
<1>8. Regridded
  BY <1>1 DEF Regridded
<1>9. Timed
  <2>1. level[0].dt_max \in Nat
    BY <1>3, LevelsType DEF LevelType
  <2> QED
    BY <2>1, <1>1, <1>3 DEF Timed, Looping
<1>10. Resets
  BY <1>1, <1>5 DEF Resets, ToReset, Looping
<1>11. Syncs
  BY <1>1, <1>5 DEF Syncs, ToSync, Looping
<1>12. Sinces
  <2>1. Interval \in 1 .. 3
    BY <1>6, HierarchyFacts
  <2>2. (0 % Interval) = 0
    BY <2>1, InInterval
  <2> QED
    BY <2>1, <2>2, <1>1, <1>3, <1>5 DEF Sinces, Looping
<1>13. Unsets
  <2>1. \A k \in levels : k \in Nat
    BY <1>2, LevelsType DEF Nested
  <2> QED
    BY <2>1, <1>1, <1>5 DEF Unsets
<1> QED
  BY <1>6, <1>7, <1>8, <1>9, <1>10, <1>11, <1>12, <1>13 DEF RecursionInv

\* advanceHierarchy() starts a step of level 0.
LEMMA StartKeepsRecursion ==
    ASSUME RecursionInv, advanceHierarchy
    PROVE  RecursionInv'
<1>1. /\ Typed /\ Placed /\ Timed /\ Resets /\ Syncs /\ Sinces /\ Unsets
      /\ at \in Nat /\ Interval \in 1 .. 3 /\ 0 \in Levels
      /\ level \in [Levels -> LevelType] /\ clock \in ClockType
      /\ \A k \in Levels : k \in Nat
  BY HierarchyFacts, LevelsType DEF RecursionInv, Typed
<1>2. /\ pos = "idle" /\ at = 0 /\ input.refined /\ Continues
      /\ input' = input /\ levels' = levels /\ data' = data
      /\ at' = 0 /\ pos' = "step"
  BY <1>1 DEF advanceHierarchy, Placed
<1>3. /\ level[0].dt_max >= 1 /\ level[0].dt_actual = level[0].dt_max
      /\ clock.dt >= 1 /\ clock.dt <= level[0].dt_max
      /\ clock.dt \in Nat /\ clock.integrator_time \in Nat
  <2>1. clock.dt \in Int /\ clock.integrator_time \in Nat
    BY <1>1 DEF ClockType
  <2> QED
    BY <2>1, <1>1, <1>2 DEF Timed
<1> DEFINE v == [level[0] EXCEPT !.sim_time = clock.integrator_time,
                                 !.end_time = clock.integrator_time + clock.dt,
                                 !.dt_actual = clock.dt,
                                 !.sync_after_step = TRUE]
<1>4. /\ v \in LevelType /\ v.step = level[0].step /\ v.dt_max = level[0].dt_max
      /\ v.sim_time = clock.integrator_time
      /\ v.end_time = clock.integrator_time + clock.dt
      /\ v.dt_actual = clock.dt /\ v.sync_after_step = TRUE
  <2>1. level[0] \in LevelType /\ clock.integrator_time + clock.dt \in Nat
    BY <1>1, <1>3
  <2>2. v \in LevelType
    BY <2>1, <1>3 DEF LevelType
  <2>3. /\ v.step = level[0].step /\ v.dt_max = level[0].dt_max
        /\ v.sim_time = clock.integrator_time
        /\ v.end_time = clock.integrator_time + clock.dt
        /\ v.dt_actual = clock.dt /\ v.sync_after_step = TRUE
    BY <2>1 DEF LevelType
  <2> QED
    BY <2>2, <2>3
<1>5. level' = [level EXCEPT ![0] = v]
  BY DEF advanceHierarchy
<1> HIDE DEF v
<1>6. level' \in [Levels -> LevelType] /\ level'[0] = v
  BY <1>1, <1>4, <1>5
<1>7. /\ clock' \in ClockType
      /\ clock'.level_0_advanced = FALSE /\ clock'.hierarchy_advanced = FALSE
      /\ clock'.dt = clock.dt /\ clock'.last_finest_level = clock.last_finest_level
  <2>1. clock' = [clock EXCEPT !.level_0_advanced = FALSE, !.hierarchy_advanced = FALSE]
    BY DEF advanceHierarchy
  <2> QED
    BY <2>1, <1>1 DEF ClockType
<1>8. Interval' = Interval
  BY <1>2 DEF Interval, regrid_interval
<1>9. Typed'
  BY <1>1, <1>2, <1>6, <1>7 DEF Typed
<1>10. Placed'
  BY <1>2, <1>7 DEF Placed, Before, Looping
<1>11. Regridded'
  BY <1>2 DEF Regridded
<1>12. Timed'
  <2>1. /\ level'[0].dt_max >= 1 /\ clock'.dt >= 1
        /\ level'[0].sim_time < level'[0].end_time
        /\ level'[0].sync_after_step /\ level'[0].dt_actual <= level'[0].dt_max
    BY <1>3, <1>4, <1>6, <1>7
  <2>2. 1 .. at' = {} /\ \A k \in 0 .. at' : Before(k)'
    BY <1>2 DEF Before
  <2> QED
    BY <2>1, <2>2, <1>2 DEF Timed
<1>13. Resets'
  BY <1>1, <1>2 DEF Resets, ToReset, Looping
<1>14. Syncs'
  BY <1>1, <1>2 DEF Syncs, ToSync, Looping
<1>15. Sinces'
  BY <1>1, <1>2, <1>4, <1>6, <1>8 DEF Sinces, Before, Looping, levelCanBeRefined
<1>16. Unsets'
  BY <1>1, <1>2, <1>7 DEF Unsets
<1> QED
  BY <1>9, <1>10, <1>11, <1>12, <1>13, <1>14, <1>15, <1>16 DEF RecursionInv

\* What a step of a level does: s is its record after it.
LEMMA StepFacts ==
    ASSUME RecursionInv, Positive, Positive', NEW l \in Levels, advanceLevel(l)
    PROVE  LET s    == level'[at]
               last == at > 0 /\ s.step >= s.max_steps
           IN  /\ pos = "step" /\ input' = input /\ levels' = levels
               /\ IF at + 1 \in levels THEN at' = at + 1 /\ pos' = "step"
                  ELSE at' = at /\ pos' = "sync"
               /\ level' \in [Levels -> LevelType]
               /\ \A k \in Levels : k < at => level'[k] = level[k]
               /\ s.step = IF at = 0 THEN level[at].step ELSE level[at].step + 1
               /\ s.max_steps = level[at].max_steps
               /\ s.sim_time = level[at].sim_time /\ s.end_time = level[at].end_time
               /\ s.dt_max = level[at].dt_max /\ s.dt_new >= 1
               /\ at > 0 =>
                     IF s.step >= s.max_steps THEN s.new_time = s.end_time
                     ELSE s.new_time < s.end_time
               /\ at > 0 => s.step >= 1 /\ s.step <= s.max_steps
               /\ at + 1 \in levels =>
                     /\ level'[at + 1].step = 0 /\ level'[at + 1].dt_max >= 1
                     /\ level'[at + 1].end_time = s.new_time
                     /\ Ready(level'[at + 1])
                     /\ levelCanBeRefined(at + 1) => (level'[at + 1].max_steps % Interval) = 0
               /\ clock' \in ClockType
               /\ clock'.dt = clock.dt
               /\ clock'.just_regridded = FALSE
               /\ clock'.hierarchy_advanced = clock.hierarchy_advanced
               /\ clock'.level_0_advanced <=> clock.level_0_advanced \/ at = 0
               /\ clock'.last_finest_level =
                     IF at + 1 \in levels /\ clock.last_finest_level < at + 1 THEN at + 1
                     ELSE clock.last_finest_level
               /\ data' \in DataType
               /\ data'.unmatched = data.unmatched
               /\ data'.unset = IF at + 1 \in levels /\ clock.last_finest_level < at + 1
                                THEN data.unset \ {at + 1} ELSE data.unset
               /\ \A k \in Levels :
                     /\ data'.unreset[k] = IF k = at THEN data.unreset[k] + 1 ELSE data.unreset[k]
                     /\ data'.since[k] = IF k = at THEN data.since[k] + 1 ELSE data.since[k]
                     /\ data'.unsynced[k] = IF last /\ k = at - 1 THEN data.unsynced[k] + 1
                                            ELSE data.unsynced[k]
<1>1. /\ Typed /\ Placed /\ Timed /\ at \in Nat /\ at \in Levels /\ level[at] \in LevelType
      /\ level \in [Levels -> LevelType] /\ clock \in ClockType /\ data \in DataType
      /\ \A k \in levels : k \in Levels
  <2>1. Typed /\ Placed /\ Timed
    BY DEF RecursionInv
  <2>2. \A k \in levels : k \in Levels
    BY <2>1, LevelsType DEF Typed, Nested
  <2> QED
    BY <2>1, <2>2, HierarchyFacts DEF Typed
<1>2. at = l /\ pos = "step"
  BY DEF advanceLevel
<1>3. level[at].dt_max >= 1 /\ level[at].dt_actual >= 1
  BY <1>2 DEF Positive
<1> DEFINE finer == at + 1 \in levels
<1>4. PICK dt_new \in Dts[at] :
          LET s == Stepped(at, dt_new)
              e == Entered(s, at + 1)
          IN  /\ level' = [k \in Levels |-> IF k = at THEN s
                                            ELSE IF k = at + 1 /\ finer THEN e ELSE level[k]]
              /\ IF finer THEN at' = at + 1 /\ pos' = "step" ELSE at' = at /\ pos' = "sync"
              /\ clock' = [clock EXCEPT !.just_regridded = FALSE,
                                        !.level_0_advanced = @ \/ at = 0,
                                        !.last_finest_level = IF finer /\ @ < at + 1 THEN at + 1 ELSE @]
              /\ data' = [AdvancedData(data, at, at > 0 /\ s.step >= s.max_steps)
                             EXCEPT !.unset = IF finer /\ IsNew(at + 1) THEN @ \ {at + 1} ELSE @]
  <2>1. advanceLevel(at)
    BY <1>2
  <2> QED
    BY ONLY <2>1, Zenon DEF advanceLevel
<1> DEFINE s == Stepped(at, dt_new)
           e == Entered(s, at + 1)
           last == at > 0 /\ s.step >= s.max_steps
           a == AdvancedData(data, at, last)
<1>0. /\ level' = [k \in Levels |-> IF k = at THEN s
                                    ELSE IF k = at + 1 /\ finer THEN e ELSE level[k]]
      /\ data' = [a EXCEPT !.unset = IF finer /\ IsNew(at + 1) THEN @ \ {at + 1} ELSE @]
  BY <1>4
<1>5. /\ s \in LevelType
      /\ s.step = IF at = 0 THEN level[at].step ELSE level[at].step + 1
      /\ s.max_steps = level[at].max_steps
      /\ s.sim_time = level[at].sim_time /\ s.end_time = level[at].end_time
      /\ s.dt_max = level[at].dt_max /\ s.dt_new >= 1
      /\ s.sim_time < s.new_time
      /\ at > 0 =>
            IF s.step >= s.max_steps THEN s.new_time = s.end_time
            ELSE s.new_time < s.end_time
      /\ at > 0 => s.step >= 1 /\ s.step <= s.max_steps
  BY <1>1, <1>2, <1>3, SteppedType
<1> HIDE DEF s
<1>6. level'[at] = s
  BY <1>0, <1>1
<1>7. ASSUME finer
      PROVE  /\ e \in LevelType /\ e.step = 0 /\ e.end_time = s.new_time /\ e.dt_max >= 1
             /\ level'[at + 1] = e
             /\ Ready(e)
             /\ levelCanBeRefined(at + 1) => (e.max_steps % Interval) = 0
  <2>1. at + 1 \in Levels /\ at' = at + 1 /\ pos' = "step"
    BY <1>1, <1>4, <1>7
  <2>2. level'[at + 1] = e
    BY <2>1, <1>0, <1>1, <1>7
  <2>3. e.dt_max >= 1
    BY <2>1, <2>2 DEF Positive
  <2>4. /\ e \in LevelType /\ e.step = 0 /\ e.end_time = s.new_time
        /\ Ready(e)
        /\ levelCanBeRefined(at + 1) => (e.max_steps % Interval) = 0
    <3> HIDE DEF finer
    <3> QED
      BY <2>1, <2>3, <1>1, <1>5, EnteredType
  <2> QED
    BY <2>2, <2>3, <2>4
<1> HIDE DEF e
<1>8. /\ level' \in [Levels -> LevelType]
      /\ \A k \in Levels : k < at => level'[k] = level[k]
  BY <1>0, <1>1, <1>5, <1>7, LevelsType
<1>9. /\ clock' \in ClockType
      /\ clock'.dt = clock.dt
      /\ clock'.just_regridded = FALSE
      /\ clock'.hierarchy_advanced = clock.hierarchy_advanced
      /\ clock'.level_0_advanced <=> clock.level_0_advanced \/ at = 0
      /\ clock'.last_finest_level =
            IF finer /\ clock.last_finest_level < at + 1 THEN at + 1
            ELSE clock.last_finest_level
  <2> DEFINE f == IF finer /\ clock.last_finest_level < at + 1 THEN at + 1
                  ELSE clock.last_finest_level
             b == clock.level_0_advanced \/ at = 0
  <2>1. f \in Nat /\ b \in BOOLEAN
    BY <1>1 DEF ClockType
  <2>2. clock' = [clock EXCEPT !.just_regridded = FALSE, !.level_0_advanced = b,
                               !.last_finest_level = f]
    BY <1>1, <1>4 DEF ClockType
  <2> HIDE DEF f, b
  <2>3. clock' \in ClockType
    BY <2>1, <2>2, <1>1 DEF ClockType
  <2>4. /\ clock'.dt = clock.dt /\ clock'.just_regridded = FALSE
        /\ clock'.hierarchy_advanced = clock.hierarchy_advanced
        /\ clock'.level_0_advanced = b /\ clock'.last_finest_level = f
    BY <2>2, <1>1 DEF ClockType
  <2> QED
    BY <2>3, <2>4 DEF f, b
<1> DEFINE u == IF finer /\ clock.last_finest_level < at + 1 THEN data.unset \ {at + 1}
                ELSE data.unset
<1>10. last \in BOOLEAN
  OBVIOUS
<1>11. /\ a \in DataType
       /\ a.unmatched = data.unmatched /\ a.unset = data.unset
       /\ \A k \in Levels :
             /\ a.unreset[k] = IF k = at THEN data.unreset[k] + 1 ELSE data.unreset[k]
             /\ a.since[k] = IF k = at THEN data.since[k] + 1 ELSE data.since[k]
             /\ a.unsynced[k] = IF last /\ k = at - 1 THEN data.unsynced[k] + 1
                                ELSE data.unsynced[k]
  <2> HIDE DEF last
  <2> QED
    BY <1>1, <1>10, AdvancedDataType
<1>12. data' = [a EXCEPT !.unset = u]
  <2>1. data' = [a EXCEPT !.unset = IF finer /\ IsNew(at + 1) THEN a.unset \ {at + 1} ELSE a.unset]
    <3> HIDE DEF a, finer
    <3> QED
      BY <1>0, <1>11 DEF DataType
  <2> HIDE DEF a, finer
  <2> QED
    BY <2>1, <1>11 DEF IsNew
<1> HIDE DEF a
<1>13. /\ data' \in DataType /\ data'.unmatched = data.unmatched /\ data'.unset = u
       /\ data'.unreset = a.unreset /\ data'.since = a.since /\ data'.unsynced = a.unsynced
  <2>1. u \in SUBSET Levels
    BY <1>1 DEF DataType
  <2> HIDE DEF u
  <2> QED
    BY <2>1, <1>11, <1>12 DEF DataType
<1>14. /\ input' = input /\ levels' = levels
       /\ IF finer THEN at' = at + 1 /\ pos' = "step" ELSE at' = at /\ pos' = "sync"
  BY <1>4 DEF advanceLevel
<1> HIDE DEF finer
<1> QED
  BY <1>2, <1>5, <1>6, <1>7, <1>8, <1>9, <1>11, <1>13, <1>14 DEF finer, u, last

\* A level that has a finer one steps, and the recursion goes on with that.
LEMMA StepDownKeepsRecursion ==
    ASSUME RecursionInv, Positive, Positive', NEW l \in Levels, advanceLevel(l),
           at + 1 \in levels
    PROVE  RecursionInv'
<1>1. /\ Typed /\ Placed /\ Timed /\ Resets /\ Syncs /\ Sinces /\ Unsets
      /\ at \in Nat /\ at \in Levels /\ Interval \in 1 .. 3
      /\ \A k \in Levels : level[k] \in LevelType
      /\ clock.last_finest_level \in Nat
      /\ \A k \in Levels : k \in Nat
  <2>1. Typed /\ Placed /\ Timed /\ Resets /\ Syncs /\ Sinces /\ Unsets
    BY DEF RecursionInv
  <2>2. clock.last_finest_level \in Nat
    BY <2>1 DEF Typed, ClockType
  <2> QED
    BY <2>1, <2>2, HierarchyFacts, LevelsType
<1> DEFINE s == level'[at]
           last == at > 0 /\ s.step >= s.max_steps
<1>2. /\ pos = "step" /\ input' = input /\ levels' = levels
      /\ at' = at + 1 /\ pos' = "step"
  BY StepFacts
<1>3. /\ level' \in [Levels -> LevelType]
      /\ \A k \in Levels : k < at => level'[k] = level[k]
      /\ s.step = IF at = 0 THEN level[at].step ELSE level[at].step + 1
      /\ s.max_steps = level[at].max_steps
      /\ s.end_time = level[at].end_time
      /\ s.dt_max = level[at].dt_max /\ s.dt_new >= 1
      /\ at > 0 =>
            IF s.step >= s.max_steps THEN s.new_time = s.end_time
            ELSE s.new_time < s.end_time
      /\ at > 0 => s.step >= 1 /\ s.step <= s.max_steps
  BY StepFacts
<1>4. /\ level'[at + 1].step = 0 /\ level'[at + 1].dt_max >= 1
      /\ level'[at + 1].end_time = s.new_time
      /\ Ready(level'[at + 1])
      /\ levelCanBeRefined(at + 1) => (level'[at + 1].max_steps % Interval) = 0
  BY StepFacts
<1>5. /\ clock' \in ClockType
      /\ clock'.dt = clock.dt
      /\ clock'.just_regridded = FALSE
      /\ clock'.hierarchy_advanced = clock.hierarchy_advanced
      /\ clock'.level_0_advanced <=> clock.level_0_advanced \/ at = 0
      /\ clock'.last_finest_level =
            IF clock.last_finest_level < at + 1 THEN at + 1 ELSE clock.last_finest_level
  BY StepFacts
<1>6. /\ data' \in DataType
      /\ data'.unmatched = data.unmatched
      /\ data'.unset = IF clock.last_finest_level < at + 1 THEN data.unset \ {at + 1}
                       ELSE data.unset
      /\ \A k \in Levels :
            /\ data'.unreset[k] = IF k = at THEN data.unreset[k] + 1 ELSE data.unreset[k]
            /\ data'.since[k] = IF k = at THEN data.since[k] + 1 ELSE data.since[k]
            /\ data'.unsynced[k] = IF last /\ k = at - 1 THEN data.unsynced[k] + 1
                                   ELSE data.unsynced[k]
  BY StepFacts
<1>7. Interval' = Interval
  BY <1>2 DEF Interval, regrid_interval
<1>8. ~clock.hierarchy_advanced /\ input.refined
  BY <1>1, <1>2 DEF Placed, Looping
<1>9. Typed'
  BY <1>1, <1>2, <1>3, <1>5, <1>6 DEF Typed
<1>10. Placed'
  <2>1. pos' # "idle" => (clock'.level_0_advanced <=> ~Before(0)')
    <3>1. ~Before(0)'
      BY <1>1, <1>2 DEF Before
    <3>2. clock.level_0_advanced \/ at = 0
      BY <1>1, <1>2 DEF Placed, Before
    <3> QED
      BY <3>1, <3>2, <1>5
  <2>2. ASSUME NEW k \in 1 .. (at + 1)
        PROVE  /\ Before(k)' => level'[k].step < level'[k].max_steps
               /\ ~Before(k)' => level'[k].step >= 1 /\ level'[k].step <= level'[k].max_steps
               /\ levelCanBeRefined(k) => (level'[k].max_steps % Interval) = 0
    <3>1. CASE k = at + 1
      BY <3>1, <1>1, <1>2, <1>4 DEF Before, Ready
    <3>2. CASE k = at
      BY <3>2, <1>1, <1>2, <1>3 DEF Before, Placed
    <3>3. CASE k < at
      <4>1. level'[k] = level[k]
        BY <3>3, <1>1, <1>3, LevelsType
      <4> QED
        BY <3>3, <4>1, <1>1, <1>2 DEF Before, Placed
    <3> QED
      BY <1>1, <3>1, <3>2, <3>3
  <2> QED
    BY <2>1, <2>2, <1>1, <1>2, <1>5, <1>7, <1>8 DEF Placed, Looping, levelCanBeRefined
<1>11. Regridded'
  BY <1>2 DEF Regridded
<1>12. Timed'
  <2>1. level'[0].dt_max >= 1 /\ clock'.dt >= 1
    BY <1>1, <1>2, <1>3, <1>5, LevelsType DEF Timed
  <2>2. ASSUME NEW k \in 1 .. (at + 1)
        PROVE  /\ level'[k].end_time = level'[k - 1].new_time
               /\ level'[k].dt_max >= 1
               /\ Before(k)' => Ready(level'[k])
               /\ ~Before(k)' => IF lastLevelStep(k)' THEN level'[k].new_time = level'[k].end_time
                                 ELSE level'[k].new_time < level'[k].end_time
    <3>1. CASE k = at + 1
      BY <3>1, <1>1, <1>2, <1>4 DEF Before
    <3>2. CASE k = at
      <4>1. level'[k - 1] = level[k - 1]
        BY <3>2, <1>1, <1>3, LevelsType
      <4>2. level[k].end_time = level[k - 1].new_time /\ level[k].dt_max >= 1
        BY <3>2, <1>1 DEF Timed
      <4> QED
        BY <3>2, <4>1, <4>2, <1>1, <1>2, <1>3 DEF Before, lastLevelStep
    <3>3. CASE k < at
      <4>1. level'[k] = level[k] /\ level'[k - 1] = level[k - 1]
        BY <3>3, <1>1, <1>3, LevelsType
      <4> QED
        BY <3>3, <4>1, <1>1, <1>2 DEF Before, Timed, lastLevelStep
    <3> QED
      BY <1>1, <3>1, <3>2, <3>3
  <2>3. ASSUME NEW k \in 0 .. (at + 1), ~Before(k)'
        PROVE  level'[k].dt_new >= 1
    <3>1. CASE k = at + 1
      BY <3>1, <2>3, <1>2 DEF Before
    <3>2. CASE k = at
      BY <3>2, <1>3
    <3>3. CASE k < at
      <4>1. level'[k] = level[k]
        BY <3>3, <1>1, <1>3, LevelsType
      <4> QED
        BY <3>3, <4>1, <1>1, <1>2 DEF Before, Timed, Looping
    <3> QED
      BY <1>1, <3>1, <3>2, <3>3
  <2> QED
    BY <2>1, <2>2, <2>3, <1>1, <1>2 DEF Timed
<1>13. Resets'
  BY <1>1, <1>2, <1>6 DEF Resets, ToReset, Looping
<1>14. Syncs'
  <2>1. ASSUME NEW k \in Levels
        PROVE  data'.unsynced[k] = IF ToSync(k)' THEN 1 ELSE 0
    <3>1. ToSync(k)' <=> k < at /\ lastLevelStep(k + 1)'
      BY <1>1, <1>2 DEF ToSync, Looping
    <3>2. ToSync(k) <=> k + 1 < at /\ lastLevelStep(k + 1)
      BY <1>1, <1>2 DEF ToSync, Looping
    <3>3. data.unsynced[k] = IF ToSync(k) THEN 1 ELSE 0
      BY <1>1 DEF Syncs
    <3>4. CASE k + 1 = at
      <4>1. lastLevelStep(k + 1)' <=> last
        <5>1. k + 1 # 0 /\ at > 0
          BY <3>4, <1>1
        <5> QED
          BY <3>4, <5>1 DEF lastLevelStep
      <4> QED
        BY <3>1, <3>2, <3>3, <3>4, <4>1, <1>1, <1>6
    <3>5. CASE k + 1 < at
      <4>1. level'[k + 1] = level[k + 1]
        BY <3>5, <1>1, <1>3, LevelsType
      <4>2. lastLevelStep(k + 1)' <=> lastLevelStep(k + 1)
        <5>1. k + 1 # 0
          BY <1>1
        <5> QED
          BY <4>1, <5>1 DEF lastLevelStep
      <4> QED
        BY <3>1, <3>2, <3>3, <3>5, <4>2, <1>1, <1>6
    <3>6. CASE k >= at
      BY <3>1, <3>2, <3>3, <3>6, <1>1, <1>6
    <3>7. k \in Nat /\ at \in Nat
      BY <1>1
    <3> QED
      BY <3>4, <3>5, <3>6, <3>7
  <2> QED
    BY <2>1 DEF Syncs
<1>15. Sinces'
  <2>1. ASSUME NEW k \in Levels, levelCanBeRefined(k)
        PROVE  /\ k <= at => data'.since[k] = ((Counted(k)' - 1) % Interval) + 1
               /\ k = at + 1 => data'.since[k] = (level'[k].step % Interval)
               /\ k > at + 1 => data'.since[k] = 0
    <3>1. CASE k > at
      <4>1. data'.since[k] = 0
        BY <3>1, <2>1, <1>1, <1>2, <1>6 DEF Sinces
      <4>2. k = at + 1 => (level'[k].step % Interval) = 0
        BY <1>1, <1>4, InInterval
      <4>3. k \in Nat /\ at \in Nat
        BY <1>1
      <4> QED
        BY <3>1, <4>1, <4>2, <4>3
    <3>2. CASE k = at
      <4>1. data.since[k] = (level[k].step % Interval)
        BY <3>2, <2>1, <1>1, <1>2 DEF Sinces
      <4>2. Counted(k)' = level[k].step + 1
        <5>1. ~clock'.hierarchy_advanced
          BY <1>5, <1>8
        <5>2. CASE k = 0
          BY <3>2, <5>1, <5>2, <1>2, <1>3 DEF Counted
        <5>3. CASE k # 0
          BY <3>2, <5>3, <1>2, <1>3 DEF Counted
        <5> QED
          BY <5>2, <5>3
      <4>3. Counted(k)' - 1 = level[k].step
        <5>1. level[k].step \in Nat
          BY <1>1 DEF LevelType
        <5> QED
          BY <4>2, <5>1
      <4> QED
        BY <3>2, <4>1, <4>3, <1>1, <1>6
    <3>3. CASE k < at
      <4>1. Counted(k)' = Counted(k)
        BY <3>3, <1>1, <1>3, <1>5 DEF Counted
      <4> QED
        BY <3>3, <4>1, <2>1, <1>1, <1>2, <1>6 DEF Sinces, Looping, Before
    <3>4. k < at \/ k = at \/ k > at
      BY <1>1
    <3> QED
      BY <3>1, <3>2, <3>3, <3>4, Zenon
  <2> QED
    BY <2>1, <1>1, <1>2, <1>7 DEF Sinces, Before, Looping, levelCanBeRefined
<1>16. Unsets'
  <2>1. ASSUME NEW k \in data'.unset
        PROVE  k \in levels /\ k > at + 1 /\ k > clock'.last_finest_level
    <3>1. k \in data.unset /\ k \in levels /\ k > at /\ k > clock.last_finest_level
      BY <2>1, <1>1, <1>6 DEF Unsets
    <3>2. k \in Nat
      BY <3>1, <1>1, LevelsType DEF Typed, Nested
    <3> QED
      BY <2>1, <3>1, <3>2, <1>1, <1>5, <1>6
  <2> QED
    BY <2>1, <1>2 DEF Unsets
<1> QED
  BY <1>9, <1>10, <1>11, <1>12, <1>13, <1>14, <1>15, <1>16 DEF RecursionInv

\* The finest level steps, and is then to be synchronized.
LEMMA StepFinestKeepsRecursion ==
    ASSUME RecursionInv, Positive, Positive', NEW l \in Levels, advanceLevel(l),
           at + 1 \notin levels
    PROVE  RecursionInv'
<1>1. /\ Typed /\ Placed /\ Timed /\ Resets /\ Syncs /\ Sinces /\ Unsets
      /\ at \in Nat /\ at \in Levels /\ Interval \in 1 .. 3
      /\ \A k \in Levels : level[k] \in LevelType
      /\ \A k \in Levels : k \in Nat
      /\ \A k \in levels : k \in Nat
      /\ \A k \in levels : k <= at
      /\ at = Finest
  <2>1. Typed /\ Placed /\ Timed /\ Resets /\ Syncs /\ Sinces /\ Unsets
    BY DEF RecursionInv
  <2>2. levels = 0 .. Finest /\ at \in Nat /\ Finest \in Nat /\ at <= Finest
    BY <2>1, HierarchyFacts
  <2>3. at = Finest
    BY <2>2
  <2> QED
    BY <2>1, <2>2, <2>3, HierarchyFacts, LevelsType
<1> DEFINE s == level'[at]
           last == at > 0 /\ s.step >= s.max_steps
<1>2. /\ pos = "step" /\ input' = input /\ levels' = levels
      /\ at' = at /\ pos' = "sync"
  BY StepFacts
<1>3. /\ level' \in [Levels -> LevelType]
      /\ \A k \in Levels : k < at => level'[k] = level[k]
      /\ s.step = IF at = 0 THEN level[at].step ELSE level[at].step + 1
      /\ s.max_steps = level[at].max_steps
      /\ s.end_time = level[at].end_time
      /\ s.dt_max = level[at].dt_max /\ s.dt_new >= 1
      /\ at > 0 =>
            IF s.step >= s.max_steps THEN s.new_time = s.end_time
            ELSE s.new_time < s.end_time
      /\ at > 0 => s.step >= 1 /\ s.step <= s.max_steps
  BY StepFacts
<1>4. /\ clock' \in ClockType
      /\ clock'.dt = clock.dt
      /\ clock'.just_regridded = FALSE
      /\ clock'.hierarchy_advanced = clock.hierarchy_advanced
      /\ clock'.level_0_advanced <=> clock.level_0_advanced \/ at = 0
  BY StepFacts
<1>5. /\ data' \in DataType
      /\ data'.unmatched = data.unmatched
      /\ data'.unset = data.unset
      /\ \A k \in Levels :
            /\ data'.unreset[k] = IF k = at THEN data.unreset[k] + 1 ELSE data.unreset[k]
            /\ data'.since[k] = IF k = at THEN data.since[k] + 1 ELSE data.since[k]
            /\ data'.unsynced[k] = IF last /\ k = at - 1 THEN data.unsynced[k] + 1
                                   ELSE data.unsynced[k]
  BY StepFacts
<1>6. Interval' = Interval
  BY <1>2 DEF Interval, regrid_interval
<1>7. ~clock.hierarchy_advanced /\ input.refined
  BY <1>1, <1>2 DEF Placed, Looping
<1>8. data.unset = {}
  BY <1>1 DEF Unsets
<1>9. Typed'
  BY <1>1, <1>2, <1>3, <1>4, <1>5 DEF Typed
<1>10. Placed'
  <2>1. clock'.level_0_advanced <=> ~Before(0)'
    <3>1. ~Before(0)'
      BY <1>2 DEF Before
    <3>2. clock.level_0_advanced \/ at = 0
      BY <1>1, <1>2 DEF Placed, Before
    <3> QED
      BY <3>1, <3>2, <1>4
  <2>2. ASSUME NEW k \in 1 .. at
        PROVE  /\ ~Before(k)'
               /\ level'[k].step >= 1 /\ level'[k].step <= level'[k].max_steps
               /\ levelCanBeRefined(k) => (level'[k].max_steps % Interval) = 0
    <3>1. CASE k = at
      BY <3>1, <1>1, <1>2, <1>3 DEF Before, Placed
    <3>2. CASE k < at
      <4>1. level'[k] = level[k]
        BY <3>2, <1>1, <1>3, LevelsType
      <4> QED
        BY <3>2, <4>1, <1>1, <1>2 DEF Before, Placed
    <3> QED
      BY <1>1, <3>1, <3>2
  <2> QED
    BY <2>1, <2>2, <1>1, <1>2, <1>4, <1>6, <1>7 DEF Placed, Looping, levelCanBeRefined
<1>11. Regridded'
  <2>1. Finest' = Finest
    BY <1>2 DEF Finest
  <2> QED
    BY <2>1, <1>1, <1>2, <1>4 DEF Regridded
<1>12. Timed'
  <2>1. level'[0].dt_max >= 1 /\ clock'.dt >= 1
    BY <1>1, <1>2, <1>3, <1>4, LevelsType DEF Timed
  <2>2. ASSUME NEW k \in 1 .. at
        PROVE  /\ level'[k].end_time = level'[k - 1].new_time
               /\ level'[k].dt_max >= 1
               /\ ~Before(k)'
               /\ IF lastLevelStep(k)' THEN level'[k].new_time = level'[k].end_time
                  ELSE level'[k].new_time < level'[k].end_time
    <3>1. CASE k = at
      <4>1. level'[k - 1] = level[k - 1]
        BY <3>1, <1>1, <1>3, LevelsType
      <4>2. level[k].end_time = level[k - 1].new_time /\ level[k].dt_max >= 1
        BY <3>1, <1>1 DEF Timed
      <4> QED
        BY <3>1, <4>1, <4>2, <1>1, <1>2, <1>3 DEF Before, lastLevelStep
    <3>2. CASE k < at
      <4>1. level'[k] = level[k] /\ level'[k - 1] = level[k - 1]
        BY <3>2, <1>1, <1>3, LevelsType
      <4> QED
        BY <3>2, <4>1, <1>1, <1>2 DEF Before, Timed, lastLevelStep
    <3> QED
      BY <1>1, <3>1, <3>2
  <2>3. ASSUME NEW k \in 0 .. at
        PROVE  level'[k].dt_new >= 1
    <3>1. CASE k = at
      BY <3>1, <1>3
    <3>2. CASE k < at
      <4>1. level'[k] = level[k]
        BY <3>2, <1>1, <1>3, LevelsType
      <4> QED
        BY <3>2, <4>1, <1>1, <1>2 DEF Before, Timed, Looping
    <3> QED
      BY <1>1, <3>1, <3>2
  <2>4. \A k \in levels' : ~(k > at')
    BY <1>1, <1>2
  <2> QED
    BY <2>1, <2>2, <2>3, <2>4, <1>1, <1>2 DEF Timed
<1>13. Resets'
  <2>1. \A k \in Levels : ToReset(k)' <=> k <= at
    BY <1>1, <1>2 DEF ToReset, Looping
  <2>2. \A k \in Levels : ToReset(k) <=> k < at
    BY <1>1, <1>2 DEF ToReset, Looping
  <2> QED
    BY <2>1, <2>2, <1>1, <1>5 DEF Resets
<1>14. Syncs'
  <2>1. ASSUME NEW k \in Levels
        PROVE  data'.unsynced[k] = IF ToSync(k)' THEN 1 ELSE 0
    <3>1. ToSync(k)' <=> k < at /\ lastLevelStep(k + 1)'
      BY <1>1, <1>2 DEF ToSync, Looping
    <3>2. ToSync(k) <=> k + 1 < at /\ lastLevelStep(k + 1)
      BY <1>1, <1>2 DEF ToSync, Looping
    <3>3. data.unsynced[k] = IF ToSync(k) THEN 1 ELSE 0
      BY <1>1 DEF Syncs
    <3>4. CASE k + 1 = at
      <4>1. lastLevelStep(k + 1)' <=> last
        <5>1. k + 1 # 0 /\ at > 0
          BY <3>4, <1>1
        <5> QED
          BY <3>4, <5>1 DEF lastLevelStep
      <4> QED
        BY <3>1, <3>2, <3>3, <3>4, <4>1, <1>1, <1>5
    <3>5. CASE k + 1 < at
      <4>1. level'[k + 1] = level[k + 1]
        BY <3>5, <1>1, <1>3, LevelsType
      <4>2. lastLevelStep(k + 1)' <=> lastLevelStep(k + 1)
        <5>1. k + 1 # 0
          BY <1>1
        <5> QED
          BY <4>1, <5>1 DEF lastLevelStep
      <4> QED
        BY <3>1, <3>2, <3>3, <3>5, <4>2, <1>1, <1>5
    <3>6. CASE k >= at
      BY <3>1, <3>2, <3>3, <3>6, <1>1, <1>5
    <3>7. k \in Nat /\ at \in Nat
      BY <1>1
    <3> QED
      BY <3>4, <3>5, <3>6, <3>7
  <2> QED
    BY <2>1 DEF Syncs
<1>15. Sinces'
  <2>1. ASSUME NEW k \in Levels, levelCanBeRefined(k)
        PROVE  /\ k <= at => data'.since[k] = ((Counted(k)' - 1) % Interval) + 1
               /\ k > at => data'.since[k] = 0
    <3>1. CASE k > at
      <4>1. data'.since[k] = 0
        BY <3>1, <2>1, <1>1, <1>2, <1>5 DEF Sinces
      <4>2. k \in Nat /\ at \in Nat
        BY <1>1
      <4> QED
        BY <3>1, <4>1, <4>2
    <3>2. CASE k = at
      <4>1. data.since[k] = (level[k].step % Interval)
        BY <3>2, <2>1, <1>1, <1>2 DEF Sinces
      <4>2. Counted(k)' = level[k].step + 1
        <5>1. ~clock'.hierarchy_advanced
          BY <1>4, <1>7
        <5>2. CASE k = 0
          BY <3>2, <5>1, <5>2, <1>2, <1>3 DEF Counted
        <5>3. CASE k # 0
          BY <3>2, <5>3, <1>2, <1>3 DEF Counted
        <5> QED
          BY <5>2, <5>3
      <4>3. Counted(k)' - 1 = level[k].step
        <5>1. level[k].step \in Nat
          BY <1>1 DEF LevelType
        <5> QED
          BY <4>2, <5>1
      <4> QED
        BY <3>2, <4>1, <4>3, <1>1, <1>5
    <3>3. CASE k < at
      <4>1. Counted(k)' = Counted(k)
        BY <3>3, <1>1, <1>3, <1>4 DEF Counted
      <4>2. data'.since[k] = ((Counted(k) - 1) % Interval) + 1
        BY <3>3, <2>1, <1>1, <1>2, <1>5 DEF Sinces, Looping, Before
      <4>3. k \in Nat /\ at \in Nat
        BY <1>1
      <4> QED
        BY <3>3, <4>1, <4>2, <4>3
    <3>4. k < at \/ k = at \/ k > at
      BY <1>1
    <3> QED
      BY <3>1, <3>2, <3>3, <3>4, Zenon
  <2>2. Interval >= 1
    BY <1>1
  <2> QED
    BY <2>1, <2>2, <1>1, <1>2, <1>6 DEF Sinces, Before, Looping, levelCanBeRefined
<1>16. Unsets'
  BY <1>2, <1>4, <1>5, <1>8 DEF Unsets
<1> QED
  BY <1>9, <1>10, <1>11, <1>12, <1>13, <1>14, <1>15, <1>16 DEF RecursionInv

\* The step of level 0 is counted.
LEMMA CountKeepsRecursion ==
    ASSUME RecursionInv, CountStep
    PROVE  RecursionInv'
<1>1. /\ Typed /\ Placed /\ Regridded /\ Timed /\ Resets /\ Syncs /\ Sinces /\ Unsets
      /\ Interval \in 1 .. 3 /\ 0 \in Levels
      /\ level \in [Levels -> LevelType] /\ clock \in ClockType
      /\ \A k \in Levels : k \in Nat
  BY HierarchyFacts, LevelsType DEF RecursionInv, Typed
<1>2. /\ at = 0 /\ pos = "sync" /\ ~clock.hierarchy_advanced
      /\ at' = at /\ pos' = pos /\ input' = input /\ levels' = levels /\ data' = data
  BY DEF CountStep
<1> DEFINE v == [level[0] EXCEPT !.step = @ + 1]
<1>3. /\ v \in LevelType /\ v.step = level[0].step + 1 /\ v.dt_max = level[0].dt_max
      /\ v.dt_new = level[0].dt_new /\ v.new_time = level[0].new_time
  BY <1>1 DEF LevelType
<1>4. level' = [level EXCEPT ![0] = v]
  BY <1>1 DEF CountStep, LevelType
<1> HIDE DEF v
<1>5. /\ level' \in [Levels -> LevelType] /\ level'[0] = v
      /\ \A k \in Levels : k > 0 => level'[k] = level[k]
  BY <1>1, <1>3, <1>4
<1>6. /\ clock' \in ClockType /\ clock'.hierarchy_advanced = TRUE
      /\ clock'.dt = clock.dt /\ clock'.last_finest_level = clock.last_finest_level
      /\ clock'.just_regridded = clock.just_regridded
      /\ clock'.level_0_advanced = clock.level_0_advanced
  <2>1. clock' = [clock EXCEPT !.hierarchy_advanced = TRUE]
    BY DEF CountStep
  <2> QED
    BY <2>1, <1>1 DEF ClockType
<1>7. Interval' = Interval /\ Finest' = Finest
  BY <1>2 DEF Interval, regrid_interval, Finest
<1>8. level[0].step \in Nat
  BY <1>1 DEF LevelType
<1>9. /\ Counted(0)' = Counted(0)
      /\ atRegridPoint(0)' <=> atRegridPoint(0)
  <2>1. Counted(0)' = level[0].step + 1 /\ Counted(0) = level[0].step + 1
    BY <1>2, <1>3, <1>5, <1>6 DEF Counted
  <2>2. regrid_interval(0)' = regrid_interval(0)
    BY <1>2 DEF regrid_interval
  <2>3. /\ (IF 0 = 0 /\ ~clock'.hierarchy_advanced THEN level'[0].step + 1 ELSE level'[0].step)
              = level[0].step + 1
        /\ (IF 0 = 0 /\ ~clock.hierarchy_advanced THEN level[0].step + 1 ELSE level[0].step)
              = level[0].step + 1
    BY <1>2, <1>3, <1>5, <1>6
  <2> QED
    BY <2>1, <2>2, <2>3 DEF atRegridPoint, levelCanBeRefined
<1>10. Typed'
  BY <1>1, <1>2, <1>5, <1>6 DEF Typed
<1>11. Placed'
  BY <1>1, <1>2, <1>3, <1>5, <1>6, <1>8 DEF Placed, Before, Looping
<1>12. Regridded'
  BY <1>1, <1>2, <1>6, <1>7, <1>9 DEF Regridded
<1>13. Timed'
  <2>1. /\ 1 .. at' = {}
        /\ \A k \in 0 .. at' : k = 0
    BY <1>2
  <2>2. level'[0].dt_new >= 1 /\ level'[0].dt_max >= 1
    BY <1>1, <1>2, <1>3, <1>5 DEF Timed, Looping, Before
  <2>3. \A k \in levels \ data.unset : k > at => level'[k].sim_time = level'[at].new_time
    BY <1>1, <1>2, <1>3, <1>5, LevelsType DEF Timed, Typed, Nested
  <2> QED
    BY <2>1, <2>2, <2>3, <1>1, <1>2, <1>6 DEF Timed
<1>14. Resets'
  BY <1>1, <1>2, <1>6 DEF Resets, ToReset, Looping
<1>15. Syncs'
  BY <1>1, <1>2, <1>6 DEF Syncs, ToSync, Looping
<1>16. Sinces'
  BY <1>1, <1>2, <1>6, <1>7, <1>9 DEF Sinces, Before, Looping, levelCanBeRefined
<1>17. Unsets'
  BY <1>1, <1>2, <1>6 DEF Unsets
<1> QED
  BY <1>10, <1>11, <1>12, <1>13, <1>14, <1>15, <1>16, <1>17 DEF RecursionInv



\* The increment of a level after its step, and how many more steps.
LEMMA IncrementType ==
    ASSUME RecursionInv, pos = "sync"
    PROVE  LET s == level[at]
               t == NextIncrement(at)
           IN  /\ t \in LevelType
               /\ t.step = s.step /\ t.end_time = s.end_time
               /\ t.new_time = s.new_time /\ t.sim_time = s.new_time
               /\ t.dt_new = s.dt_new /\ t.dt_max >= 1
               /\ at = 0 => t.dt_actual = t.dt_max
               /\ at > 0 =>
                     /\ t.step >= 1 /\ t.step <= t.max_steps
                     /\ t.step >= t.max_steps <=> s.step >= s.max_steps
                     /\ t.step < t.max_steps => Ready(t)
                     /\ levelCanBeRefined(at) => (t.max_steps % Interval) = 0
<1>1. /\ Typed /\ Placed /\ Timed /\ input \in InputType /\ at \in Nat /\ at \in Levels
      /\ level[at] \in LevelType
  BY HierarchyFacts DEF RecursionInv, Typed
<1> DEFINE s == level[at]
           v == [s EXCEPT !.sim_time = s.new_time]
           t == NextIncrement(at)
<1>2. /\ s.dt_new >= 1 /\ s.dt_max >= 1
      /\ s.step \in Nat /\ s.max_steps \in Nat /\ s.dt_new \in Nat /\ s.dt_max \in Nat
      /\ s.new_time \in Nat /\ s.end_time \in Nat
  <2>1. s.dt_new >= 1
    BY <1>1 DEF Timed, Looping, Before
  <2>2. s.dt_max >= 1
    <3>1. CASE at = 0
      BY <3>1, <1>1 DEF Timed
    <3>2. CASE at > 0
      BY <3>2, <1>1 DEF Timed
    <3> QED
      BY <3>1, <3>2, <1>1
  <2> QED
    BY <2>1, <2>2, <1>1 DEF LevelType
<1>3. /\ v \in LevelType /\ v.step = s.step /\ v.max_steps = s.max_steps
      /\ v.sim_time = s.new_time /\ v.end_time = s.end_time /\ v.new_time = s.new_time
      /\ v.dt_max = s.dt_max /\ v.dt_new = s.dt_new
  BY <1>1 DEF LevelType
<1>4. CASE at = 0
  <2> DEFINE g == s.dt_max * GrowDt
             dt == Min({s.dt_new, g})
             e == [v EXCEPT !.dt_max = dt, !.dt_actual = dt, !.sync_after_step = TRUE]
  <2>1. t = e
    BY <1>4 DEF NextIncrement
  <2>2. g \in Nat /\ g >= 1
    BY <1>2, LevelsType
  <2> HIDE DEF g
  <2>3. dt \in Nat /\ dt >= 1
    <3>1. s.dt_new \in Int /\ g \in Int
      BY <1>2, <2>2
    <3>2. dt \in {s.dt_new, g}
      BY <3>1, MinOfTwo, Zenon
    <3> HIDE DEF dt
    <3>3. dt = s.dt_new \/ dt = g
      BY <3>2
    <3> QED
      BY <3>3, <1>2, <2>2
  <2> HIDE DEF dt, v, s
  <2>4. /\ e \in LevelType /\ e.step = v.step /\ e.end_time = v.end_time
        /\ e.new_time = v.new_time /\ e.sim_time = v.sim_time /\ e.dt_new = v.dt_new
        /\ e.dt_max = dt /\ e.dt_actual = dt
    BY <2>3, <1>3 DEF LevelType
  <2> HIDE DEF e, t
  <2> QED
    BY <2>1, <2>3, <2>4, <1>3, <1>4 DEF s, t
<1>5. CASE at > 0
  <2> DEFINE f == findNextDtAndStepsRemaining(v, at, s.end_time - s.new_time, s.dt_new)
  <2>1. t = f
    BY <1>1, <1>5 DEF NextIncrement
  <2>2. /\ s.step >= 1 /\ s.step <= s.max_steps
        /\ levelCanBeRefined(at) => (s.max_steps % Interval) = 0
    BY <1>1, <1>5 DEF Placed, Before
  <2>3. IF s.step >= s.max_steps THEN s.new_time = s.end_time ELSE s.new_time < s.end_time
    BY <1>1, <1>5 DEF Timed, Before, lastLevelStep
  <2>4. f.dt_new = s.dt_new
    <3> HIDE DEF v, s
    <3>1. f.dt_new = v.dt_new
      BY <1>3 DEF findNextDtAndStepsRemaining, LevelType
    <3> QED
      BY <3>1, <1>3
  <2> HIDE DEF t, v, s
  <2>5. v.sim_time <= v.end_time
    BY <2>3, <1>2, <1>3
  <2>6. CASE s.step < s.max_steps
    <3>1. /\ v.step < v.max_steps /\ v.sim_time < v.end_time
          /\ s.end_time - s.new_time = v.end_time - v.sim_time
      BY <2>3, <2>6, <1>2, <1>3
    <3>2. /\ f \in LevelType /\ f.step = v.step /\ f.sim_time = v.sim_time
          /\ f.end_time = v.end_time /\ f.new_time = v.new_time
          /\ f.dt_max >= 1 /\ Ready(f)
          /\ levelCanBeRefined(at) => (f.max_steps % Interval) = 0
      BY <3>1, <2>5, <1>1, <1>2, <1>3, NextDtType
    <3> HIDE DEF f
    <3>3. f.step < f.max_steps /\ f.step \in Nat /\ f.max_steps \in Nat
      BY <3>2 DEF Ready, LevelType
    <3> QED
      BY <3>2, <3>3, <2>1, <2>2, <2>4, <2>6, <1>2, <1>3, <1>5 DEF s, t
  <2>7. CASE ~(s.step < s.max_steps)
    <3>1. /\ f \in LevelType /\ f.step = v.step /\ f.max_steps = v.max_steps
          /\ f.sim_time = v.sim_time /\ f.end_time = v.end_time
          /\ f.new_time = v.new_time /\ f.dt_max >= 1
      BY <2>7, <1>1, <1>2, <1>3, LastDtType
    <3> HIDE DEF f
    <3> QED
      BY <3>1, <2>1, <2>2, <2>4, <2>7, <1>2, <1>3, <1>5 DEF s, t
  <2> QED
    BY <2>6, <2>7
<1> QED
  BY <1>1, <1>4, <1>5

\* After the finer levels: those that came to the same time are synchronized.
LEMMA SynchronizeKeepsRecursion ==
    ASSUME RecursionInv, NEW l \in Levels, Synchronize(l)
    PROVE  RecursionInv'
<1>1. /\ Typed /\ Placed /\ Regridded /\ Timed /\ Resets /\ Syncs /\ Sinces /\ Unsets
      /\ at \in Nat /\ at \in Levels /\ at <= Finest
      /\ Finest \in Levels /\ Finest \in Nat /\ Finest <= MaxLevels - 1
      /\ MaxLevels \in Nat
      /\ levels = 0 .. Finest
      /\ level \in [Levels -> LevelType] /\ data \in DataType
      /\ \A k \in Levels : k \in Nat
  <2>1. /\ Typed /\ Placed /\ Regridded /\ Timed /\ Resets /\ Syncs /\ Sinces /\ Unsets
    BY DEF RecursionInv
  <2>2. level \in [Levels -> LevelType] /\ data \in DataType
    BY <2>1 DEF Typed
  <2> QED
    BY <2>1, <2>2, HierarchyFacts, LevelsType
<1>2. /\ at = l /\ pos = "sync" /\ pos' = "regrid"
      /\ at' = at /\ input' = input /\ levels' = levels /\ clock' = clock
      /\ at = 0 => clock.hierarchy_advanced
      /\ data' = SyncedData(at)
      /\ level' = [level EXCEPT ![at] = NextIncrement(at)]
  BY DEF Synchronize
<1> DEFINE s == level[at]
           t == NextIncrement(at)
<1>3. /\ t \in LevelType
      /\ t.step = s.step /\ t.end_time = s.end_time
      /\ t.new_time = s.new_time /\ t.sim_time = s.new_time
      /\ t.dt_new = s.dt_new /\ t.dt_max >= 1
      /\ at = 0 => t.dt_actual = t.dt_max
      /\ at > 0 =>
            /\ t.step >= 1 /\ t.step <= t.max_steps
            /\ t.step >= t.max_steps <=> s.step >= s.max_steps
            /\ t.step < t.max_steps => Ready(t)
            /\ levelCanBeRefined(at) => (t.max_steps % Interval) = 0
  BY <1>2, IncrementType
<1> HIDE DEF t
<1>4. /\ level' \in [Levels -> LevelType] /\ level'[at] = t
      /\ \A k \in Levels : k # at => level'[k] = level[k]
      /\ \A k \in Levels : level'[k].step = level[k].step
      /\ \A k \in Levels : level'[k].end_time = level[k].end_time
      /\ \A k \in Levels : level'[k].new_time = level[k].new_time
      /\ \A k \in Levels : level'[k].dt_new = level[k].dt_new
  BY <1>1, <1>2, <1>3 DEF t
<1>5. Interval' = Interval /\ Finest' = Finest
  BY <1>2 DEF Interval, regrid_interval, Finest
<1>6. ASSUME NEW k \in Levels, k <= at
      PROVE  /\ lastLevelStep(k)' <=> lastLevelStep(k)
             /\ atRegridPoint(k)' <=> atRegridPoint(k)
             /\ Counted(k)' = Counted(k)
             /\ Before(k)' <=> Before(k)
  <2>1. lastLevelStep(k)' <=> lastLevelStep(k)
    <3>1. CASE k = 0
      BY <3>1, <1>2 DEF lastLevelStep
    <3>2. CASE k = at /\ k # 0
      <4>1. at > 0
        BY <3>2, <1>1
      <4> QED
        BY <3>2, <4>1, <1>3, <1>4 DEF lastLevelStep
    <3>3. CASE k # at /\ k # 0
      BY <3>3, <1>4 DEF lastLevelStep
    <3> QED
      BY <3>1, <3>2, <3>3
  <2>2. atRegridPoint(k)' <=> atRegridPoint(k)
    BY <1>2, <1>4, LevelsType DEF atRegridPoint, regrid_interval, levelCanBeRefined
  <2>3. Counted(k)' = Counted(k)
    BY <1>2, <1>4, LevelsType DEF Counted
  <2>4. Before(k)' <=> Before(k)
    BY <1>2 DEF Before
  <2> QED
    BY <2>1, <2>2, <2>3, <2>4
<1>7. Regrids(at)' <=> Regrids(at)
  <2>1. /\ lastLevelStep(at)' <=> lastLevelStep(at)
        /\ atRegridPoint(at)' <=> atRegridPoint(at)
    BY <1>1, <1>2, <1>6
  <2>2. CASE at = 0
    BY <2>1, <2>2, <1>2 DEF Regrids, coarserLevelRegridsToo
  <2>3. CASE at > 0
    <3>1. at - 1 \in Levels /\ at - 1 <= at
      BY <2>3, <1>1, LevelsType
    <3>2. atRegridPoint(at - 1)' <=> atRegridPoint(at - 1)
      BY <3>1, <1>2, <1>6
    <3> QED
      BY <2>1, <2>3, <3>2, <1>2 DEF Regrids, coarserLevelRegridsToo
  <2> QED
    BY <2>2, <2>3, <1>1
\* A level that did not hear of a regridding is at a regrid point, or next to finest.
<1>8. /\ clock.just_regridded => at < Finest /\ ~atRegridPoint(at)
      /\ ~clock.just_regridded /\ at < Finest =>
            atRegridPoint(at) \/ (at + 1 = Finest /\ SyncsHere(at))
  <2>1. ASSUME ~clock.just_regridded, at < Finest, ~atRegridPoint(at)
        PROVE  at + 1 = Finest /\ SyncsHere(at)
    <3>1. at + 1 = MaxLevels - 1
      BY <2>1, <1>1, <1>2 DEF Regridded
    <3>2. at + 1 = Finest
      BY <3>1, <2>1, <1>1
    <3>3. ASSUME lastLevelStep(at), at > 0 PROVE FALSE
      <4>1. levelCanBeRefined(at)
        BY <3>1, <1>1 DEF levelCanBeRefined
      <4>2. at \in 1 .. at /\ ~Before(at)
        BY <3>3, <1>1, <1>2 DEF Before
      <4> QED
        BY <4>1, <4>2, <3>3, <2>1, <1>1, <1>2, LastAtRegridPoint
    <3>4. at > 0 \/ at = 0
      BY <1>1
    <3> QED
      BY <3>2, <3>3, <3>4, <2>1 DEF SyncsHere
  <2> QED
    BY <2>1, <1>1, <1>2 DEF Regridded

<1> DEFINE jr == clock.just_regridded
           A == atRegridPoint(at)
           R == Regrids(at)
           last == lastLevelStep(at)
           c == CoarsestSyncLevel(at)
<1>9. R => A
  BY DEF Regrids
<1>10. /\ R => data' = standardLevelSynchronization(data, c, Finest)
       /\ ~R /\ (A \/ jr \/ at = Finest) => data' = data
       /\ ~A /\ ~jr /\ at < Finest =>
             data' = resetTimeDependentData(standardLevelSynchronization(data, at, Finest), {Finest})
  <2>1. ~A /\ ~jr /\ at < Finest => SyncsHere(at)
    BY <1>8
  <2>2. jr => ~SyncsHere(at)
    BY DEF SyncsHere
  <2> QED
    BY <2>1, <2>2, <1>1, <1>2, <1>9 DEF SyncedData
<1> HIDE DEF jr, A, R, last, c
<1>11. jr \/ A \/ at = Finest \/ (at < Finest /\ ~A /\ ~jr)
  BY <1>1 DEF jr
<1>12. /\ jr => ~A
       /\ at < Finest /\ ~jr => A \/ at + 1 = Finest
  BY <1>8 DEF jr, A
\* What is to be reset and synchronized, before and after.
<1>13. ASSUME NEW k \in Levels
       PROVE  /\ data.unreset[k] = IF k <= at \/ (k <= Finest /\ ~jr) THEN 1 ELSE 0
              /\ ToReset(k)' <=> k <= at \/ (k <= Finest /\ A)
  <2>1. A' <=> A
    BY <1>1, <1>2, <1>6 DEF A
  <2>2. ToReset(k) <=> k <= at \/ (k <= Finest /\ ~jr)
    BY <1>1, <1>2 DEF ToReset, Looping, jr
  <2>3. ToReset(k)' <=> k <= at \/ (k <= Finest /\ A)
    BY <2>1, <1>1, <1>2 DEF ToReset, Looping, A
  <2> QED
    BY <2>2, <2>3, <1>1 DEF Resets
<1>14. ASSUME NEW k \in Levels
       PROVE  /\ data.unsynced[k] = IF \/ k + 1 < at /\ lastLevelStep(k + 1)
                                       \/ k + 1 = at /\ last
                                       \/ k >= at /\ k < Finest /\ ~jr
                                    THEN 1 ELSE 0
              /\ ToSync(k)' <=> \/ k + 1 < at /\ lastLevelStep(k + 1)
                                \/ ~R /\ k + 1 = at /\ last
                                \/ ~R /\ k >= at /\ k < Finest /\ A
  <2>1. /\ A' <=> A
        /\ R' <=> R
        /\ last' <=> last
    BY <1>1, <1>2, <1>6, <1>7 DEF A, R, last
  <2>2. k + 1 < at => (lastLevelStep(k + 1)' <=> lastLevelStep(k + 1))
    <3>1. ASSUME k + 1 < at PROVE lastLevelStep(k + 1)' <=> lastLevelStep(k + 1)
      <4>1. k + 1 \in Levels /\ k + 1 <= at
        BY <3>1, <1>1, LevelsType
      <4> QED
        BY <4>1, <1>6
    <3> QED
      BY <3>1
  <2>3. k + 1 \in levels <=> k < Finest
    BY <1>1
  <2>4. ToSync(k) <=> \/ k + 1 < at /\ lastLevelStep(k + 1)
                      \/ k + 1 = at /\ last
                      \/ k >= at /\ k < Finest /\ ~jr
    BY <2>3, <1>1, <1>2 DEF ToSync, Looping, jr, last
  <2>5. ToSync(k)' <=> \/ k + 1 < at /\ lastLevelStep(k + 1)
                       \/ ~R /\ k + 1 = at /\ last
                       \/ ~R /\ k >= at /\ k < Finest /\ A
    BY <2>1, <2>2, <2>3, <1>2 DEF ToSync, Looping, A, R, last
  <2> QED
    BY <2>4, <2>5, <1>1 DEF Syncs
<1>15. ASSUME NEW d \in DataType,
              d = standardLevelSynchronization(data, c, Finest), R
       PROVE  \A k \in Levels :
                 d.unsynced[k] = IF k + 1 < at /\ lastLevelStep(k + 1) THEN 1 ELSE 0
  <2>1. c = IF at > 0 /\ last THEN at - 1 ELSE at
    BY DEF c, last, CoarsestSyncLevel
  <2>2. ~jr
    BY <1>9, <1>12, <1>15
  <2> SUFFICES ASSUME NEW k \in Levels
               PROVE  d.unsynced[k] = IF k + 1 < at /\ lastLevelStep(k + 1) THEN 1 ELSE 0
    OBVIOUS
  <2>3. d.unsynced[k] = IF k \in c .. (Finest - 1) THEN data.unsynced[k] - 1 ELSE data.unsynced[k]
    BY <1>1, <1>15, SynchronizedDataType
  <2>4. k \in c .. (Finest - 1) <=> (k + 1 = at /\ last) \/ (k >= at /\ k < Finest)
    BY <2>1, <1>1
  <2>5. data.unsynced[k] = IF \/ k + 1 < at /\ lastLevelStep(k + 1)
                              \/ k + 1 = at /\ last
                              \/ k >= at /\ k < Finest
                           THEN 1 ELSE 0
    BY <2>2, <1>14
  <2>6. k + 1 < at => ~(k + 1 = at) /\ ~(k >= at)
    BY <1>1
  <2> QED
    BY <2>3, <2>4, <2>5, <2>6
<1>16. /\ data' \in DataType
       /\ data'.unmatched = data.unmatched /\ data'.unset = data.unset
       /\ data'.since = data.since
       /\ \A k \in Levels : data'.unreset[k] = IF ToReset(k)' THEN 1 ELSE 0
       /\ \A k \in Levels : data'.unsynced[k] = IF ToSync(k)' THEN 1 ELSE 0
  <2>1. CASE R
    <3>1. /\ data' \in DataType
          /\ data'.unmatched = data.unmatched /\ data'.unset = data.unset
          /\ data'.since = data.since /\ data'.unreset = data.unreset
      BY <2>1, <1>1, <1>10, SynchronizedDataType
    <3>2. ~jr /\ A
      BY <2>1, <1>9, <1>12
    <3>3. \A k \in Levels : data'.unreset[k] = IF ToReset(k)' THEN 1 ELSE 0
      BY <3>1, <3>2, <1>13
    <3>4. \A k \in Levels : data'.unsynced[k] = IF ToSync(k)' THEN 1 ELSE 0
      BY <2>1, <3>1, <1>10, <1>14, <1>15
    <3> QED
      BY <3>1, <3>3, <3>4
  <2>2. CASE ~R /\ (A \/ jr \/ at = Finest)
    <3>1. data' = data
      BY <2>2, <1>10
    <3>2. \A k \in Levels : data'.unreset[k] = IF ToReset(k)' THEN 1 ELSE 0
      BY <2>2, <3>1, <1>1, <1>12, <1>13
    <3>3. \A k \in Levels : data'.unsynced[k] = IF ToSync(k)' THEN 1 ELSE 0
      BY <2>2, <3>1, <1>1, <1>12, <1>14
    <3> QED
      BY <3>1, <3>2, <3>3, <1>1
  <2>3. CASE ~A /\ ~jr /\ at < Finest
    <3> DEFINE d == standardLevelSynchronization(data, at, Finest)
    <3>1. /\ d \in DataType
          /\ d.unmatched = data.unmatched /\ d.unset = data.unset
          /\ d.unreset = data.unreset /\ d.since = data.since
          /\ \A k \in Levels : d.unsynced[k] = IF k \in at .. (Finest - 1) THEN data.unsynced[k] - 1
                                               ELSE data.unsynced[k]
      BY <1>1, SynchronizedDataType
    <3>2. data' = resetTimeDependentData(d, {Finest})
      BY <2>3, <1>10
    <3> HIDE DEF d
    <3>3. /\ data' \in DataType
          /\ data'.unmatched = d.unmatched /\ data'.unset = d.unset
          /\ data'.unsynced = d.unsynced /\ data'.since = d.since
          /\ \A k \in Levels :
                data'.unreset[k] = IF k \in {Finest} THEN d.unreset[k] - 1 ELSE d.unreset[k]
      BY <3>1, <3>2, ResetDataType
    <3>4. at + 1 = Finest /\ ~R
      BY <2>3, <1>9, <1>12
    <3>5. ASSUME NEW k \in Levels PROVE data'.unreset[k] = IF ToReset(k)' THEN 1 ELSE 0
      <4>1. data'.unreset[k] = IF k = Finest THEN data.unreset[k] - 1 ELSE data.unreset[k]
        BY <3>1, <3>3
      <4>2. /\ data.unreset[k] = IF k <= at \/ k <= Finest THEN 1 ELSE 0
            /\ ToReset(k)' <=> k <= at
        BY <2>3, <1>13
      <4>3. k \in Nat /\ at \in Nat /\ Finest = at + 1
        BY <3>4, <1>1
      <4> QED
        BY <4>1, <4>2, <4>3
    <3>6. ASSUME NEW k \in Levels PROVE data'.unsynced[k] = IF ToSync(k)' THEN 1 ELSE 0
      <4>1. data'.unsynced[k] = IF k >= at /\ k < Finest THEN data.unsynced[k] - 1
                                ELSE data.unsynced[k]
        <5>1. k \in at .. (Finest - 1) <=> k >= at /\ k < Finest
          BY <1>1
        <5> QED
          BY <3>1, <3>3, <5>1
      <4>2. k + 1 < at => ~(k + 1 = at) /\ ~(k >= at)
        BY <1>1
      <4>3. k + 1 = at => ~(k >= at)
        BY <1>1
      <4> QED
        BY <4>1, <4>2, <4>3, <2>3, <3>4, <1>14
    <3> QED
      BY <3>1, <3>3, <3>5, <3>6
  <2> QED
    BY <2>1, <2>2, <2>3, <1>11
<1>17. Typed'
  BY <1>1, <1>2, <1>4, <1>16 DEF Typed
<1>18. Placed'
  <2>1. ASSUME NEW k \in 1 .. at
        PROVE  /\ ~Before(k)'
               /\ level'[k].step >= 1 /\ level'[k].step <= level'[k].max_steps
               /\ levelCanBeRefined(k) => (level'[k].max_steps % Interval) = 0
    <3>1. CASE k = at
      BY <3>1, <1>1, <1>2, <1>3, <1>4 DEF Before
    <3>2. CASE k # at
      <4>1. level'[k] = level[k]
        BY <3>2, <1>1, <1>4, LevelsType
      <4> QED
        BY <3>2, <4>1, <1>1, <1>2 DEF Before, Placed
    <3> QED
      BY <3>1, <3>2
  <2>2. level'[0].step = level[0].step
    BY <1>4, LevelsType
  <2>3. ~Before(0)' /\ ~Before(0)
    BY <1>2 DEF Before
  <2> QED
    BY <2>1, <2>2, <2>3, <1>1, <1>2, <1>5 DEF Placed, Looping, levelCanBeRefined
<1>19. Regridded'
  <2>1. atRegridPoint(at)' <=> atRegridPoint(at)
    BY <1>1, <1>2, <1>6
  <2> QED
    BY <2>1, <1>1, <1>2, <1>5 DEF Regridded
<1>20. Timed'
  <2>1. level'[0].dt_max >= 1 /\ clock'.dt >= 1
    <3>1. CASE at = 0
      BY <3>1, <1>1, <1>2, <1>3, <1>4 DEF Timed
    <3>2. CASE at # 0
      BY <3>2, <1>1, <1>2, <1>4, LevelsType DEF Timed
    <3> QED
      BY <3>1, <3>2
  <2>2. ASSUME NEW k \in 1 .. at
        PROVE  /\ level'[k].end_time = level'[k - 1].new_time
               /\ level'[k].dt_max >= 1
               /\ ~Before(k)'
               /\ IF lastLevelStep(k)' THEN level'[k].new_time = level'[k].end_time
                  ELSE level'[k].new_time < level'[k].end_time
               /\ k = at /\ ~lastLevelStep(k)' => Ready(level'[k])
    <3>1. k \in Levels /\ k <= at /\ k # 0 /\ k - 1 \in Levels
      BY <1>1, LevelsType
    <3>2. /\ level'[k].end_time = level[k].end_time
          /\ level'[k - 1].new_time = level[k - 1].new_time
          /\ level'[k].new_time = level[k].new_time
      BY <3>1, <1>4
    <3>3. ~Before(k)' /\ ~Before(k)
      BY <1>2 DEF Before
    <3>4. level'[k].dt_max >= 1
      BY <3>1, <1>1, <1>3, <1>4 DEF Timed
    <3>5. lastLevelStep(k)' <=> lastLevelStep(k)
      BY <3>1, <1>6
    <3>6. k = at /\ ~lastLevelStep(k)' => Ready(level'[k])
      <4>1. ASSUME k = at, ~lastLevelStep(k)' PROVE Ready(level'[k])
        <5>1. ~(t.step >= t.max_steps)
          BY <4>1, <3>1, <1>2, <1>4 DEF lastLevelStep
        <5>2. t.step < t.max_steps
          BY <5>1, <1>3 DEF LevelType
        <5> QED
          BY <4>1, <5>2, <3>1, <1>1, <1>3, <1>4
      <4> QED
        BY <4>1
    <3>7. /\ level[k].end_time = level[k - 1].new_time
          /\ IF lastLevelStep(k) THEN level[k].new_time = level[k].end_time
             ELSE level[k].new_time < level[k].end_time
      BY <3>3, <1>1 DEF Timed
    <3> QED
      BY <3>2, <3>3, <3>4, <3>5, <3>6, <3>7
  <2>3. ASSUME NEW k \in 0 .. at
        PROVE  level'[k].dt_new >= 1
    <3>1. k \in Levels
      BY <1>1, LevelsType
    <3> QED
      BY <3>1, <1>1, <1>2, <1>4 DEF Before, Timed, Looping
  <2>4. at = 0 => level'[0].dt_actual = level'[0].dt_max
    BY <1>3, <1>4
  <2>5. level'[at].sim_time = level'[at].new_time
    BY <1>3, <1>4
  <2>6. ASSUME NEW k \in levels \ data'.unset, k > at
        PROVE  level'[k].sim_time = level'[at].new_time
    <3>1. k \in Levels /\ k # at
      BY <2>6, <1>1, LevelsType
    <3>2. level[k].sim_time = level[at].new_time
      BY <2>6, <1>1, <1>2, <1>16 DEF Timed
    <3> QED
      BY <3>1, <3>2, <1>1, <1>4
  <2> QED
    BY <2>1, <2>2, <2>3, <2>4, <2>5, <2>6, <1>2 DEF Timed
<1>21. Resets'
  BY <1>1, <1>16 DEF Resets
<1>22. Syncs'
  BY <1>16 DEF Syncs
<1>23. Sinces'
  <2>1. ASSUME NEW k \in Levels, levelCanBeRefined(k)
        PROVE  /\ k <= at => data'.since[k] = ((Counted(k)' - 1) % Interval) + 1
               /\ k > at => /\ data'.since[k] <= Interval
                            /\ k \notin levels \/ clock.just_regridded => data'.since[k] = 0
    <3>1. k <= at => Counted(k)' = Counted(k)
      BY <1>6
    <3>2. k <= at => data.since[k] = ((Counted(k) - 1) % Interval) + 1
      BY <2>1, <1>1, <1>2 DEF Sinces, Looping, Before
    <3>3. k > at => /\ data.since[k] <= Interval
                    /\ k \notin levels \/ clock.just_regridded => data.since[k] = 0
      BY <2>1, <1>1, <1>2 DEF Sinces
    <3> QED
      BY <3>1, <3>2, <3>3, <1>16
  <2> QED
    BY <2>1, <1>1, <1>2, <1>5 DEF Sinces, Before, Looping, levelCanBeRefined
<1>24. Unsets'
  BY <1>1, <1>2, <1>16 DEF Unsets
<1> QED
  BY <1>17, <1>18, <1>19, <1>20, <1>21, <1>22, <1>23, <1>24 DEF RecursionInv

\* Regridding finer levels than l resets l and the finer ones, each once,
\* whether the integrator does or the tagging of cells, and matches new levels.
LEMMA RegriddingData ==
    ASSUME Typed, NEW d \in DataType, NEW l \in levels,
           NEW userTags \in SUBSET TaggedLevels(l), NEW richardson,
           d.unmatched = {},
           \A k \in Levels : k > Finest => d.unreset[k] = 0,
           \A k \in Levels : k >= l /\ k <= Finest => d.unreset[k] = 1
    PROVE  LET b   == resetTimeDependentData(d, ResetBefore(l, richardson))
               new == regridFinerLevel(l, userTags)
               e   == synchronizeNewLevels(DataAfterRegrid(b, l, userTags, richardson), l, Max(new))
           IN  /\ Nested(new) /\ \A k \in levels : k <= l => k \in new
               /\ e \in DataType
               /\ e.unsynced = d.unsynced /\ e.unmatched = {}
               /\ e.unset = (d.unset \cup (new \ levels)) \cap new
               /\ \A k \in Levels :
                     /\ e.unreset[k] = IF k >= l THEN 0 ELSE d.unreset[k]
                     /\ e.since[k] = IF k >= l THEN 0 ELSE d.since[k]
<1> DEFINE b   == resetTimeDependentData(d, ResetBefore(l, richardson))
           new == regridFinerLevel(l, userTags)
           a   == DataAfterRegrid(b, l, userTags, richardson)
           e   == synchronizeNewLevels(a, l, Max(new))
<1>1. /\ levels = 0 .. Finest /\ Finest \in Nat /\ Nested(levels)
      /\ l \in Levels /\ l \in Nat /\ l <= Finest
      /\ \A k \in Levels : k \in Nat
  BY HierarchyFacts, LevelsType DEF Typed, Nested
<1>2. /\ b \in DataType
      /\ b.unmatched = {} /\ b.unset = d.unset /\ b.unsynced = d.unsynced /\ b.since = d.since
      /\ \A k \in Levels :
            b.unreset[k] = IF k \in ResetBefore(l, richardson) THEN d.unreset[k] - 1
                           ELSE d.unreset[k]
  BY ResetDataType
<1> HIDE DEF b
<1>3. Nested(new) /\ \A k \in levels : k <= l => k \in new
  <2>1. Nested(new)
    BY <1>1, RegridNests
  <2>2. \A k \in levels : k <= l => k \in new
    BY DEF regridFinerLevel
  <2> QED
    BY <2>1, <2>2
<1>4. /\ a \in DataType
      /\ a.unsynced = b.unsynced
      /\ a.unmatched = b.unmatched \cup {k \in new : k > l}
      /\ a.unset = (b.unset \cup (new \ levels)) \cap new
      /\ \A k \in Levels :
            /\ a.unreset[k] = IF richardson /\ k \in TaggedLevels(l)
                              THEN b.unreset[k] - 1 ELSE b.unreset[k]
            /\ a.since[k] = IF k >= l THEN 0 ELSE b.since[k]
  <2>1. /\ Nested(levels) /\ l \in Levels /\ b \in DataType
        /\ new = regridFinerLevel(l, userTags)
        /\ a = DataAfterRegrid(b, l, userTags, richardson)
    BY <1>1, <1>2
  <2> HIDE DEF new, a
  <2> QED
    BY <2>1, RegriddedDataType
<1> HIDE DEF a
<1>5. ASSUME NEW k \in Levels
      PROVE  a.unreset[k] = IF k >= l THEN 0 ELSE d.unreset[k]
  <2>1. /\ b.unreset[k] = IF k \in ResetBefore(l, richardson) THEN d.unreset[k] - 1
                          ELSE d.unreset[k]
        /\ a.unreset[k] = IF richardson /\ k \in TaggedLevels(l)
                          THEN b.unreset[k] - 1 ELSE b.unreset[k]
        /\ k > Finest => d.unreset[k] = 0
        /\ k >= l /\ k <= Finest => d.unreset[k] = 1
        /\ k \in Nat
    BY <1>1, <1>2, <1>4
  <2>2. k \in TaggedLevels(l) <=> k <= Finest /\ k >= l /\ levelCanBeRefined(k)
    BY <2>1, <1>1 DEF TaggedLevels
  <2>3. CASE ~richardson
    <3>1. k \in ResetBefore(l, richardson) <=> k >= l /\ k <= Finest
      BY <2>1, <2>3, <1>1 DEF ResetBefore
    <3> QED
      BY <3>1, <2>1, <2>3, <1>1
  <2>4. CASE richardson
    <3>1. k \in ResetBefore(l, richardson) <=> k = Finest /\ ~levelCanBeRefined(Finest)
      BY <2>4 DEF ResetBefore
    <3>2. k < Finest => levelCanBeRefined(k)
      <4>1. Finest <= MaxLevels - 1 /\ MaxLevels \in Nat
        BY HierarchyFacts, LevelsType
      <4> QED
        BY <4>1, <2>1, <1>1 DEF levelCanBeRefined
    <3>3. a.unreset[k] = IF k \in TaggedLevels(l) THEN b.unreset[k] - 1 ELSE b.unreset[k]
      BY <2>1, <2>4, Zenon
    <3>4. CASE k > Finest
      BY <3>1, <3>3, <3>4, <2>1, <2>2, <1>1
    <3>5. CASE k = Finest
      BY <3>1, <3>3, <3>5, <2>1, <2>2, <1>1
    <3>6. CASE k < Finest
      BY <3>1, <3>2, <3>3, <3>6, <2>1, <2>2, <1>1
    <3> QED
      BY <3>4, <3>5, <3>6, <2>1, <1>1
  <2> QED
    BY <2>3, <2>4
<1>6. new = 0 .. Max(new)
  BY <1>3, NestedMax
<1> DEFINE m == Max(new)
<1>7. new \subseteq Levels
  BY <1>3, LevelsType DEF Nested
<1> HIDE DEF new, m
<1>8. \A k \in l .. m : a.unreset[k] = 0
  <2>1. ASSUME NEW k \in l .. m PROVE k \in new /\ k >= l
    <3>1. m \in Nat
      BY <1>3, NestedTop DEF m
    <3>2. k \in Nat /\ k >= l /\ k <= m
      BY <3>1, <1>1
    <3> QED
      BY <3>1, <3>2, <1>6 DEF m
  <2> QED
    BY <2>1, <1>5, <1>7
<1>9. e = synchronizeNewLevels(a, l, m)
  BY DEF m
<1> HIDE DEF e
<1>10. /\ e \in DataType
       /\ e.unmatched = a.unmatched \ (l + 1 .. m)
       /\ e.unset = a.unset /\ e.unreset = a.unreset
       /\ e.unsynced = a.unsynced /\ e.since = a.since
  BY <1>4, <1>8, <1>9, MatchedDataType
<1>11. e.unmatched = {}
  <2>1. ASSUME NEW k \in new, k > l PROVE k \in l + 1 .. m
    <3>1. k \in 0 .. m
      BY <1>6 DEF m
    <3> QED
      BY <3>1, <2>1, <1>1
  <2> QED
    BY <2>1, <1>2, <1>4, <1>10
<1> QED
  BY <1>2, <1>3, <1>4, <1>5, <1>10, <1>11 DEF new, e, b, a, m

\* Regridding: what it leaves.
LEMMA RegridFacts ==
    ASSUME RecursionInv, NEW l \in Levels, Regrid(l)
    PROVE  /\ at = l /\ pos = "regrid" /\ Regrids(at) /\ atRegridPoint(at)
           /\ clock.just_regridded = FALSE /\ data.unset = {}
           /\ input' = input /\ level' = level
           /\ EndOfIteration(at)
           /\ Nested(levels') /\ \A k \in levels : k <= at => k \in levels'
           /\ clock' \in ClockType
           /\ clock'.dt = clock.dt
           /\ clock'.just_regridded = TRUE
           /\ clock'.hierarchy_advanced = clock.hierarchy_advanced
           /\ clock'.level_0_advanced = clock.level_0_advanced
           /\ clock'.last_finest_level = Finest
           /\ data' \in DataType
           /\ data'.unsynced = data.unsynced /\ data'.unmatched = {}
           /\ data'.unset = levels' \ levels
           /\ \A k \in Levels :
                 /\ data'.unreset[k] = IF k >= at THEN 0 ELSE data.unreset[k]
                 /\ data'.since[k] = IF k >= at THEN 0 ELSE data.since[k]
<1>1. /\ Typed /\ Regridded /\ Resets /\ Unsets
      /\ at \in Nat /\ at \in levels /\ at \in Levels
      /\ clock \in ClockType /\ data \in DataType
      /\ levels = 0 .. Finest /\ Finest \in Nat
      /\ \A k \in Levels : k \in Nat
  <2>1. Typed /\ Regridded /\ Resets /\ Unsets
    BY DEF RecursionInv
  <2>2. clock \in ClockType /\ data \in DataType /\ at \in levels
    BY <2>1 DEF Typed
  <2> QED
    BY <2>1, <2>2, HierarchyFacts, LevelsType
<1>2. /\ at = l /\ pos = "regrid" /\ Regrids(at)
      /\ input' = input /\ level' = level
      /\ EndOfIteration(at)
      /\ clock' = [clock EXCEPT !.last_finest_level = LastFinestLevel, !.just_regridded = TRUE]
  BY DEF Regrid
<1>3. atRegridPoint(at)
  BY <1>2 DEF Regrids
<1>4. clock.just_regridded = FALSE
  BY <1>1, <1>2, <1>3 DEF Regridded, ClockType
<1>5. data.unset = {}
  BY <1>1, <1>2, <1>4 DEF Unsets
<1>6. /\ clock' \in ClockType
      /\ clock'.dt = clock.dt
      /\ clock'.just_regridded = TRUE
      /\ clock'.hierarchy_advanced = clock.hierarchy_advanced
      /\ clock'.level_0_advanced = clock.level_0_advanced
      /\ clock'.last_finest_level = Finest
  BY <1>1, <1>2 DEF ClockType, LastFinestLevel
<1>7. PICK userTags \in SUBSET TaggedLevels(at) :
          LET t   == Criteria(tagging, level[0].step, clock.integrator_time)
              u   == Criteria(t, level[0].step, level[at].sim_time)
              d   == resetTimeDependentData(data, ResetBefore(at, t.richardson))
              e   == DataAfterRegrid(d, at, userTags, u.richardson)
              new == regridFinerLevel(at, userTags)
          IN  /\ levels' = new
              /\ data' = synchronizeNewLevels(e, at, Max(new))
  BY <1>2 DEF Regrid
<1> DEFINE t   == Criteria(tagging, level[0].step, clock.integrator_time)
           u   == Criteria(t, level[0].step, level[at].sim_time)
           new == regridFinerLevel(at, userTags)
\* The criteria were looked up for this cycle, and are not again.
<1>8. u = t
  <2>1. t.cycle = level[0].step
    <3>1. CASE tagging.cycle = level[0].step
      BY <3>1 DEF Criteria
    <3>2. CASE tagging.cycle # level[0].step
      BY <3>2 DEF Criteria, LookedUp
    <3> QED
      BY <3>1, <3>2
  <2> HIDE DEF t
  <2> QED
    BY <2>1 DEF Criteria
<1> DEFINE r == t.richardson
           b == resetTimeDependentData(data, ResetBefore(at, r))
           e == synchronizeNewLevels(DataAfterRegrid(b, at, userTags, r), at, Max(new))
<1>9. levels' = new /\ data' = e
  BY <1>7, <1>8
<1>10. /\ data.unmatched = {}
       /\ \A k \in Levels : k > Finest => data.unreset[k] = 0
       /\ \A k \in Levels : k >= at /\ k <= Finest => data.unreset[k] = 1
  <2>1. \A k \in Levels : ToReset(k) <=> k < at \/ k = at \/ (k > at /\ k \in levels)
    BY <1>1, <1>2, <1>3 DEF ToReset, Looping
  <2>2. /\ data.unmatched = {}
        /\ \A k \in Levels : data.unreset[k] = IF ToReset(k) THEN 1 ELSE 0
    BY <1>1 DEF Resets
  <2>3. \A k \in Levels : k \in levels <=> k <= Finest
    BY <1>1
  <2>4. \A k \in Levels : k >= at => k = at \/ k > at
    BY <1>1
  <2>5. \A k \in Levels : k > Finest => ~(k < at) /\ k # at /\ ~(k <= Finest)
    BY <1>1
  <2> QED
    BY <2>1, <2>2, <2>3, <2>4, <2>5
<1> HIDE DEF t, u, r
<1>11. /\ Nested(new) /\ \A k \in levels : k <= at => k \in new
       /\ e \in DataType
       /\ e.unsynced = data.unsynced /\ e.unmatched = {}
       /\ e.unset = (data.unset \cup (new \ levels)) \cap new
       /\ \A k \in Levels :
             /\ e.unreset[k] = IF k >= at THEN 0 ELSE data.unreset[k]
             /\ e.since[k] = IF k >= at THEN 0 ELSE data.since[k]
  BY <1>1, <1>10, RegriddingData
<1> HIDE DEF e, new
<1>12. e.unset = new \ levels
  BY <1>5, <1>11
<1> QED
  BY <1>2, <1>3, <1>4, <1>5, <1>6, <1>9, <1>11, <1>12

\* Where the recursion goes on after a level's iteration.
LEMMA EndFacts ==
    ASSUME RecursionInv, pos = "regrid", EndOfIteration(at)
    PROVE  \/ at > 0 /\ ~lastLevelStep(at) /\ at' = at /\ pos' = "step"
           \/ at > 0 /\ lastLevelStep(at) /\ at' = at - 1 /\ pos' = "sync"
           \/ at = 0 /\ lastLevelStep(at) /\ at' = 0 /\ pos' = "return"
<1>1. at \in Nat
  BY HierarchyFacts DEF RecursionInv
<1>2. at = 0 => lastLevelStep(at)
  BY DEF RecursionInv, Placed, Before, lastLevelStep
<1> QED
  BY <1>1, <1>2 DEF EndOfIteration

\* The end of an iteration, as far as the steps of the levels go.
LEMMA EndKeepsPlacedAndTimed ==
    ASSUME RecursionInv, pos = "regrid", EndOfIteration(at),
           input' = input, level' = level,
           clock'.dt = clock.dt, clock'.hierarchy_advanced = clock.hierarchy_advanced,
           clock'.level_0_advanced = clock.level_0_advanced,
           levels' \ data'.unset \subseteq levels \ data.unset
    PROVE  Placed' /\ Timed'
<1>1. /\ Typed /\ Placed /\ Timed
      /\ at \in Nat /\ at \in Levels
      /\ \A k \in Levels : k \in Nat
      /\ \A k \in levels : k \in Nat
      /\ \A k \in Levels : level[k] \in LevelType
  <2>1. Typed /\ Placed /\ Timed
    BY DEF RecursionInv
  <2>2. \A k \in levels : k \in Nat
    BY <2>1, LevelsType DEF Typed, Nested
  <2> QED
    BY <2>1, <2>2, HierarchyFacts, LevelsType
<1>2. \/ at > 0 /\ ~lastLevelStep(at) /\ at' = at /\ pos' = "step"
      \/ at > 0 /\ lastLevelStep(at) /\ at' = at - 1 /\ pos' = "sync"
      \/ at = 0 /\ lastLevelStep(at) /\ at' = 0 /\ pos' = "return"
  BY EndFacts
<1>3. Interval' = Interval
  BY DEF Interval, regrid_interval
<1>4. /\ ~Before(0)' /\ ~Before(0)
      /\ clock.level_0_advanced
  BY <1>1, <1>2 DEF Before, Placed
<1>5. \A k \in 1 .. at : k \in Levels /\ k \in Nat /\ k # 0 /\ k - 1 \in Levels
  BY <1>1, LevelsType
<1>6. 1 .. at' \subseteq 1 .. at /\ 0 .. at' \subseteq 0 .. at /\ at' \in Nat
  BY <1>1, <1>2
<1>7. ASSUME NEW k \in 1 .. at
      PROVE  /\ ~Before(k)
             /\ lastLevelStep(k)' <=> level[k].step >= level[k].max_steps
             /\ lastLevelStep(k) <=> level[k].step >= level[k].max_steps
             /\ Before(k)' => k = at /\ ~lastLevelStep(at)
  <2>1. k # 0
    BY <1>5
  <2>2. Before(k)' => k = at /\ ~lastLevelStep(at)
    BY <1>2 DEF Before
  <2> QED
    BY <2>1, <2>2 DEF Before, lastLevelStep
<1>8. Placed'
  <2>1. ASSUME NEW k \in 1 .. at'
        PROVE  /\ Before(k)' => level'[k].step < level'[k].max_steps
               /\ ~Before(k)' => level'[k].step >= 1 /\ level'[k].step <= level'[k].max_steps
               /\ levelCanBeRefined(k) => (level'[k].max_steps % Interval) = 0
    <3>1. k \in 1 .. at
      BY <1>6
    <3>2. /\ level[k].step >= 1 /\ level[k].step <= level[k].max_steps
          /\ levelCanBeRefined(k) => (level[k].max_steps % Interval) = 0
      BY <3>1, <1>1, <1>7 DEF Placed
    <3>3. level[k].step \in Nat /\ level[k].max_steps \in Nat
      BY <3>1, <1>1, <1>5 DEF LevelType
    <3>4. Before(k)' => ~(level[k].step >= level[k].max_steps)
      <4>1. ASSUME Before(k)' PROVE ~(level[k].step >= level[k].max_steps)
        <5>1. k = at /\ ~lastLevelStep(at)
          BY <4>1, <3>1, <1>7
        <5> QED
          BY <5>1, <3>1, <1>7
      <4> QED
        BY <4>1
    <3> QED
      BY <3>2, <3>3, <3>4
  <2> QED
    BY <2>1, <1>1, <1>2, <1>3, <1>4 DEF Placed, Looping, levelCanBeRefined
<1>9. Timed'
  <2>1. ASSUME NEW k \in 1 .. at'
        PROVE  /\ level'[k].end_time = level'[k - 1].new_time
               /\ level'[k].dt_max >= 1
               /\ Before(k)' => Ready(level'[k])
               /\ ~Before(k)' => IF lastLevelStep(k)' THEN level'[k].new_time = level'[k].end_time
                                 ELSE level'[k].new_time < level'[k].end_time
    <3>1. k \in 1 .. at
      BY <1>6
    <3>2. /\ level[k].end_time = level[k - 1].new_time
          /\ level[k].dt_max >= 1
          /\ IF lastLevelStep(k) THEN level[k].new_time = level[k].end_time
             ELSE level[k].new_time < level[k].end_time
          /\ k = at /\ ~lastLevelStep(k) => Ready(level[k])
      BY <3>1, <1>1, <1>7 DEF Timed
    <3>3. /\ lastLevelStep(k)' <=> lastLevelStep(k)
          /\ Before(k)' => k = at /\ ~lastLevelStep(k)
      BY <3>1, <1>7
    <3> QED
      BY <3>2, <3>3
  <2>2. ASSUME NEW k \in 0 .. at' PROVE level'[k].dt_new >= 1
    <3>1. k \in 0 .. at /\ ~Before(k)
      BY <1>6 DEF Before
    <3> QED
      BY <3>1, <1>1 DEF Timed, Looping
  <2>3. /\ level'[0].dt_max >= 1 /\ clock'.dt >= 1
        /\ at = 0 => level'[0].dt_actual = level'[0].dt_max
    BY <1>1 DEF Timed
  <2>4. ASSUME pos' = "sync", NEW k \in levels' \ data'.unset, k > at'
        PROVE  level'[k].sim_time = level'[at'].new_time
    <3>1. at > 0 /\ lastLevelStep(at) /\ at' = at - 1 /\ k \in levels \ data.unset /\ k \in Nat
      BY <2>4, <1>1, <1>2
    <3>2. at \in 1 .. at
      BY <3>1, <1>1
    <3>3. level[at].new_time = level[at].end_time /\ level[at].end_time = level[at - 1].new_time
      BY <3>1, <3>2, <1>1, <1>7 DEF Timed
    <3>4. CASE k = at
      BY <3>1, <3>3, <3>4, <1>1 DEF Timed
    <3>5. CASE k > at
      BY <3>1, <3>3, <3>5, <1>1 DEF Timed
    <3> QED
      BY <3>1, <3>4, <3>5, <2>4, <1>1
  <2> QED
    BY <2>1, <2>2, <2>3, <2>4, <1>2 DEF Timed
<1> QED
  BY <1>8, <1>9

\* A level regrids the finer ones.
LEMMA RegridKeepsRecursion ==
    ASSUME RecursionInv, NEW l \in Levels, Regrid(l)
    PROVE  RecursionInv'
<1>1. /\ Typed /\ Placed /\ Regridded /\ Timed /\ Resets /\ Syncs /\ Sinces /\ Unsets
      /\ at \in Nat /\ at \in levels /\ at \in Levels /\ Finest \in Nat /\ Interval \in 1 .. 3
      /\ levels = 0 .. Finest
      /\ level \in [Levels -> LevelType]
      /\ \A k \in Levels : k \in Nat
  <2>1. /\ Typed /\ Placed /\ Regridded /\ Timed /\ Resets /\ Syncs /\ Sinces /\ Unsets
    BY DEF RecursionInv
  <2>2. level \in [Levels -> LevelType] /\ at \in levels
    BY <2>1 DEF Typed
  <2> QED
    BY <2>1, <2>2, HierarchyFacts, LevelsType
<1>2. /\ pos = "regrid" /\ Regrids(at) /\ atRegridPoint(at)
      /\ clock.just_regridded = FALSE /\ data.unset = {}
      /\ input' = input /\ level' = level
      /\ EndOfIteration(at)
      /\ Nested(levels') /\ \A k \in levels : k <= at => k \in levels'
  BY RegridFacts
<1>3. /\ clock' \in ClockType
      /\ clock'.dt = clock.dt
      /\ clock'.just_regridded = TRUE
      /\ clock'.hierarchy_advanced = clock.hierarchy_advanced
      /\ clock'.level_0_advanced = clock.level_0_advanced
      /\ clock'.last_finest_level = Finest
  BY RegridFacts
<1>4. /\ data' \in DataType
      /\ data'.unsynced = data.unsynced /\ data'.unmatched = {}
      /\ data'.unset = levels' \ levels
      /\ \A k \in Levels :
            /\ data'.unreset[k] = IF k >= at THEN 0 ELSE data.unreset[k]
            /\ data'.since[k] = IF k >= at THEN 0 ELSE data.since[k]
  BY RegridFacts
<1>5. \/ at > 0 /\ ~lastLevelStep(at) /\ at' = at /\ pos' = "step"
      \/ at > 0 /\ lastLevelStep(at) /\ at' = at - 1 /\ pos' = "sync"
      \/ at = 0 /\ lastLevelStep(at) /\ at' = 0 /\ pos' = "return"
  BY <1>2, EndFacts
<1>6. Interval' = Interval
  BY <1>2 DEF Interval, regrid_interval
<1>7. at' \in Nat /\ at' \in levels' /\ at' <= at
  <2>1. at' \in Nat /\ at' <= at
    BY <1>1, <1>5
  <2>2. at' \in levels
    BY <2>1, <1>1
  <2> QED
    BY <2>1, <2>2, <1>2
<1>8. Typed'
  BY <1>1, <1>2, <1>3, <1>4, <1>5, <1>7 DEF Typed
<1>9. Placed' /\ Timed'
  BY <1>2, <1>3, <1>4, EndKeepsPlacedAndTimed
\* With the last step of a level, the next coarser one does not regrid too.
<1>10. ASSUME at > 0, lastLevelStep(at) PROVE ~atRegridPoint(at - 1)
  BY <1>2, <1>10 DEF Regrids, coarserLevelRegridsToo
<1>11. Regridded'
  <2>1. ASSUME pos' = "sync" PROVE at' < Finest' /\ ~atRegridPoint(at)'
    <3>1. at > 0 /\ at' = at - 1 /\ lastLevelStep(at)
      BY <2>1, <1>5
    <3>2. at \in levels'
      BY <1>1, <1>2
    <3>3. levels' = 0 .. Finest' /\ Finest' \in Nat
      BY <1>2, NestedTop DEF Finest
    <3>4. atRegridPoint(at)' <=> atRegridPoint(at - 1)
      BY <3>1, <1>2, <1>3 DEF atRegridPoint, levelCanBeRefined, regrid_interval
    <3> QED
      BY <3>1, <3>2, <3>3, <3>4, <1>1, <1>10
  <2> QED
    BY <2>1, <1>3, <1>5 DEF Regridded

<1>12. ASSUME NEW k \in Levels
       PROVE  /\ data.unreset[k] = IF k <= Finest THEN 1 ELSE 0
              /\ data.unsynced[k] = IF k + 1 < at /\ lastLevelStep(k + 1) THEN 1 ELSE 0
              /\ k + 1 < at => (lastLevelStep(k + 1)' <=> lastLevelStep(k + 1))
              /\ k \in Nat
  <2>1. k \in Nat /\ k + 1 # 0 /\ (k \in levels <=> k <= Finest) /\ at <= Finest
    BY <1>1
  <2>2. ToReset(k) <=> k <= Finest
    BY <2>1, <1>1, <1>2 DEF ToReset, Looping
  <2>3. ToSync(k) <=> k + 1 < at /\ lastLevelStep(k + 1)
    BY <2>1, <1>1, <1>2 DEF ToSync, Looping
  <2>4. k + 1 < at => (lastLevelStep(k + 1)' <=> lastLevelStep(k + 1))
    BY <2>1, <1>2 DEF lastLevelStep
  <2>5. /\ data.unreset[k] = IF ToReset(k) THEN 1 ELSE 0
        /\ data.unsynced[k] = IF ToSync(k) THEN 1 ELSE 0
    BY <1>1 DEF Resets, Syncs
  <2> QED
    BY <2>1, <2>2, <2>3, <2>4, <2>5
<1>13. Resets'
  <2>1. ASSUME NEW k \in Levels PROVE data'.unreset[k] = IF ToReset(k)' THEN 1 ELSE 0
    <3>1. k \in Nat /\ data'.unreset[k] = IF k >= at THEN 0 ELSE 1
      <4>1. k < at => k <= Finest
        BY <1>1
      <4> QED
        BY <4>1, <1>1, <1>4, <1>12
    <3>2. CASE at > 0 /\ at' = at /\ pos' = "step"
      <4>1. ToReset(k)' <=> k < at
        BY <3>1, <3>2, <1>1 DEF ToReset, Looping
      <4> QED
        BY <3>1, <4>1, <1>1
    <3>3. CASE at > 0 /\ at' = at - 1 /\ pos' = "sync"
      <4>1. ToReset(k)' <=> k < at
        BY <3>1, <3>3, <1>1, <1>3 DEF ToReset, Looping
      <4> QED
        BY <3>1, <4>1, <1>1
    <3>4. CASE at = 0 /\ at' = 0 /\ pos' = "return"
      <4>1. ~ToReset(k)'
        BY <3>4 DEF ToReset, Looping
      <4> QED
        BY <3>1, <3>4, <4>1
    <3> QED
      BY <3>2, <3>3, <3>4, <1>5
  <2> QED
    BY <2>1, <1>4 DEF Resets
<1>14. Syncs'
  <2>1. ASSUME NEW k \in Levels PROVE data'.unsynced[k] = IF ToSync(k)' THEN 1 ELSE 0
    <3>1. /\ data'.unsynced[k] = IF k + 1 < at /\ lastLevelStep(k + 1) THEN 1 ELSE 0
          /\ k + 1 < at => (lastLevelStep(k + 1)' <=> lastLevelStep(k + 1))
          /\ k \in Nat
      BY <1>4, <1>12
    <3>2. CASE at > 0 /\ at' = at /\ pos' = "step"
      <4>1. ToSync(k)' <=> k + 1 < at /\ lastLevelStep(k + 1)'
        BY <3>1, <3>2, <1>1 DEF ToSync, Looping
      <4> QED
        BY <3>1, <4>1
    <3>3. CASE at > 0 /\ at' = at - 1 /\ pos' = "sync"
      <4>1. ToSync(k)' <=> \/ k + 1 < at - 1 /\ lastLevelStep(k + 1)'
                           \/ k + 1 = at - 1 /\ lastLevelStep(at)'
        BY <3>1, <3>3, <1>1, <1>3 DEF ToSync, Looping
      <4>2. k + 1 = at - 1 => (lastLevelStep(at)' <=> lastLevelStep(k + 1)')
        BY <3>3 DEF lastLevelStep
      <4>3. k + 1 < at <=> k + 1 < at - 1 \/ k + 1 = at - 1
        BY <3>1, <1>1
      <4> QED
        BY <3>1, <4>1, <4>2, <4>3
    <3>4. CASE at = 0 /\ at' = 0 /\ pos' = "return"
      <4>1. ~ToSync(k)' /\ ~(k + 1 < at)
        BY <3>1, <3>4 DEF ToSync, Looping
      <4> QED
        BY <3>1, <4>1
    <3> QED
      BY <3>2, <3>3, <3>4, <1>5
  <2> QED
    BY <2>1 DEF Syncs
<1>15. Sinces'
  <2>1. \A k \in Levels : Counted(k)' = Counted(k)
    BY <1>2, <1>3 DEF Counted
  <2>2. (Counted(at) % Interval) = 0
    BY <1>1, <1>2, RegridPoint
  <2>3. pos' \in {"step", "return"} => at' = at /\ Counted(at) = level[at].step
    BY <1>1, <1>2, <1>5 DEF Counted, Placed
  <2>4. ASSUME NEW k \in Levels, levelCanBeRefined(k)
        PROVE  /\ k < at => data'.since[k] = ((Counted(k)' - 1) % Interval) + 1
               /\ k >= at => data'.since[k] = 0
               /\ k = at /\ pos' \in {"step", "return"} => (level'[k].step % Interval) = 0
    <3>1. ASSUME k < at PROVE data.since[k] = ((Counted(k) - 1) % Interval) + 1
      <4>1. k <= at /\ k # at /\ k \in Nat /\ Looping
        BY <3>1, <1>1, <1>2 DEF Looping
      <4>2. ~Before(k)
        BY <4>1 DEF Before
      <4>3. Sinces
        BY <1>1
      <4> QED
        BY <4>1, <4>2, <4>3, <2>4 DEF Sinces
    <3>2. k < at => data'.since[k] = data.since[k]
      BY <1>1, <1>4
    <3>3. k >= at => data'.since[k] = 0
      BY <1>1, <1>4
    <3>4. k = at /\ pos' \in {"step", "return"} => (level'[k].step % Interval) = 0
      BY <2>2, <2>3, <1>2
    <3> QED
      BY <2>1, <3>1, <3>2, <3>3, <3>4
  <2>5. 0 <= Interval
    BY <1>1
  <2>6. ASSUME NEW k \in Levels
        PROVE  /\ Looping' /\ k <= at' /\ ~Before(k)' => k < at
               /\ k > at' => k >= at
               /\ k = at' /\ pos' \in {"idle", "step", "return"} => k = at
    <3>1. k \in Nat
      BY <1>1
    <3> QED
      BY <3>1, <1>1, <1>5 DEF Looping, Before
  <2>7. ASSUME NEW k \in Levels, levelCanBeRefined(k)
        PROVE  /\ Looping' /\ k <= at' /\ ~Before(k)' =>
                     data'.since[k] = ((Counted(k)' - 1) % Interval) + 1
               /\ k = at' /\ pos' \in {"idle", "step", "return"} =>
                     data'.since[k] = (level'[k].step % Interval)
               /\ k > at' => data'.since[k] = 0
    <3>1. k = at => k >= at
      BY <1>1
    <3>2. pos' # "idle"
      BY <1>5
    <3> QED
      BY <3>1, <3>2, <2>4, <2>6, <2>7
  <2> QED
    BY <2>5, <2>7, <1>6 DEF Sinces, levelCanBeRefined
<1>16. Unsets'
  <2>1. ASSUME NEW k \in data'.unset PROVE k \in levels' /\ k > Finest /\ k > at'
    <3>1. k \in levels' /\ k \notin levels
      BY <2>1, <1>4
    <3>2. k \in Nat
      BY <3>1, <1>2, LevelsType DEF Nested
    <3>3. k > Finest
      BY <3>1, <3>2, <1>1
    <3> QED
      BY <3>1, <3>2, <3>3, <1>1, <1>7
  <2>2. pos' = "sync" => at' + 1 \in levels
    BY <1>1, <1>5
  <2> QED
    BY <2>1, <2>2, <1>3, <1>4, <1>5 DEF Unsets
<1> QED
  BY <1>8, <1>9, <1>11, <1>13, <1>14, <1>15, <1>16 DEF RecursionInv

\* A level that does not regrid has its data reset, unless the coarser one is
\* to do so.  It is then the finest there may be, or at a regrid point.
LEMMA NoRegridFacts ==
    ASSUME RecursionInv, NEW l \in Levels, NoRegrid(l)
    PROVE  LET stays == ~lastLevelStep(at) \/ at = 0
           IN  /\ at = l /\ pos = "regrid" /\ ~Regrids(at)
               /\ input' = input /\ level' = level /\ levels' = levels /\ clock' = clock
               /\ EndOfIteration(at)
               /\ stays => ~atRegridPoint(at)
               /\ ~stays => ~clock.just_regridded
               /\ ~stays /\ atRegridPoint(at) => atRegridPoint(at - 1)
               /\ ~stays /\ ~atRegridPoint(at) => at = Finest /\ at = MaxLevels - 1
               /\ data' \in DataType
               /\ data'.unsynced = data.unsynced /\ data'.unmatched = {}
               /\ data'.unset = data.unset /\ data'.since = data.since
               /\ \A k \in Levels :
                     data'.unreset[k] = IF stays /\ k = at THEN data.unreset[k] - 1
                                        ELSE data.unreset[k]
<1>1. /\ Typed /\ Placed /\ Regridded /\ Resets
      /\ at \in Nat /\ at \in Levels /\ at <= Finest /\ Finest <= MaxLevels - 1
      /\ Finest \in Nat /\ MaxLevels \in Nat
      /\ data \in DataType
      /\ \A k \in Levels : k \in Nat
  <2>1. Typed /\ Placed /\ Regridded /\ Resets
    BY DEF RecursionInv
  <2>2. data \in DataType
    BY <2>1 DEF Typed
  <2> QED
    BY <2>1, <2>2, HierarchyFacts, LevelsType
<1> DEFINE A     == atRegridPoint(at)
           jr    == clock.just_regridded
           stays == ~lastLevelStep(at) \/ at = 0
           d     == IF ResetsHere(at) THEN resetTimeDependentData(data, {at}) ELSE data
<1>2. /\ at = l /\ pos = "regrid" /\ ~Regrids(at)
      /\ input' = input /\ level' = level /\ levels' = levels /\ clock' = clock
      /\ EndOfIteration(at)
      /\ data' = IF A THEN data ELSE IF jr THEN synchronizeNewLevels(d, at, Finest) ELSE d
  BY DEF NoRegrid
<1>3. stays => ~A
  BY <1>2 DEF Regrids, coarserLevelRegridsToo
<1>4. A => atRegridPoint(at - 1)
  BY <1>2 DEF Regrids, coarserLevelRegridsToo
<1>5. ~stays /\ ~A => at = Finest /\ at = MaxLevels - 1
  <2>1. ASSUME ~stays, ~A PROVE ~levelCanBeRefined(at)
    <3>1. at \in 1 .. at /\ ~Before(at) /\ lastLevelStep(at)
      BY <2>1, <1>1, <1>2 DEF Before
    <3> QED
      BY <3>1, <2>1, <1>1, <1>2, LastAtRegridPoint
  <2> QED
    BY <2>1, <1>1 DEF levelCanBeRefined
<1>6. jr => stays /\ ~A
  <2>1. jr => at < Finest /\ ~A
    BY <1>1, <1>2 DEF Regridded
  <2>2. at < Finest => at # Finest
    BY <1>1
  <2> QED
    BY <2>1, <2>2, <1>5
<1>7. ResetsHere(at) <=> stays
  BY DEF ResetsHere
<1>8. /\ d \in DataType
      /\ d.unmatched = data.unmatched /\ d.unset = data.unset
      /\ d.unsynced = data.unsynced /\ d.since = data.since
      /\ \A k \in Levels : d.unreset[k] = IF stays /\ k = at THEN data.unreset[k] - 1
                                          ELSE data.unreset[k]
  <2>1. CASE stays
    <3>1. d = resetTimeDependentData(data, {at})
      BY <2>1, <1>7
    <3> HIDE DEF d
    <3> QED
      BY <2>1, <3>1, <1>1, ResetDataType
  <2>2. CASE ~stays
    <3>1. d = data
      BY <2>2, <1>7
    <3> QED
      BY <2>2, <3>1, <1>1
  <2> QED
    BY <2>1, <2>2
<1> HIDE DEF d, stays, A, jr
<1>9. data.unmatched = {}
  BY <1>1 DEF Resets
<1>10. /\ data' \in DataType
       /\ data'.unsynced = d.unsynced /\ data'.unmatched = {}
       /\ data'.unset = d.unset /\ data'.since = d.since
       /\ data'.unreset = d.unreset
  <2>1. CASE jr
    <3>1. data' = synchronizeNewLevels(d, at, Finest)
      BY <2>1, <1>2, <1>6
    <3>2. ASSUME NEW k \in at .. Finest PROVE d.unreset[k] = 0
      <4>1. k \in Nat /\ k \in Levels /\ k >= at
        BY <1>1, LevelsType
      <4>2. ToReset(k) <=> k = at
        BY <4>1, <2>1, <1>1, <1>2, <1>6 DEF ToReset, Looping, A
      <4>3. data.unreset[k] = IF k = at THEN 1 ELSE 0
        BY <4>1, <4>2, <1>1 DEF Resets
      <4>4. d.unreset[k] = IF k = at THEN data.unreset[k] - 1 ELSE data.unreset[k]
        BY <4>1, <2>1, <1>6, <1>8
      <4> QED
        BY <4>3, <4>4
    <3>3. /\ data' \in DataType
          /\ data'.unmatched = d.unmatched \ (at + 1 .. Finest)
          /\ data'.unset = d.unset /\ data'.unreset = d.unreset
          /\ data'.unsynced = d.unsynced /\ data'.since = d.since
      BY <3>1, <3>2, <1>8, MatchedDataType
    <3> QED
      BY <3>3, <1>8, <1>9
  <2>2. CASE ~jr /\ ~A
    BY <2>2, <1>2, <1>8, <1>9
  <2>3. CASE A
    <3>1. data' = data /\ ~stays
      BY <2>3, <1>2, <1>3
    <3>2. d = data
      BY <3>1, <1>7 DEF d
    <3> QED
      BY <3>1, <3>2, <1>1, <1>9
  <2> QED
    BY <2>1, <2>2, <2>3
<1>11. /\ ~stays => ~jr
       /\ ~stays /\ A => atRegridPoint(at - 1)
  BY <1>4, <1>6
<1> QED
  BY <1>2, <1>3, <1>5, <1>8, <1>10, <1>11 DEF stays, A, jr

\* After NoRegrid, the level goes on, or is level 0 at the end of its step.
LEMMA StayKeepsRecursion ==
    ASSUME RecursionInv, NEW l \in Levels, NoRegrid(l), ~lastLevelStep(at) \/ at = 0
    PROVE  RecursionInv'
<1>1. /\ Typed /\ Placed /\ Regridded /\ Timed /\ Resets /\ Syncs /\ Sinces /\ Unsets
      /\ at \in Nat /\ at \in levels /\ at \in Levels /\ Finest \in Nat /\ Interval \in 1 .. 3
      /\ levels = 0 .. Finest /\ at <= Finest /\ Finest <= MaxLevels - 1 /\ MaxLevels \in Nat
      /\ \A k \in Levels : level[k] \in LevelType
      /\ \A k \in Levels : k \in Nat
  <2>1. /\ Typed /\ Placed /\ Regridded /\ Timed /\ Resets /\ Syncs /\ Sinces /\ Unsets
    BY DEF RecursionInv
  <2>2. at \in levels
    BY <2>1 DEF Typed
  <2> QED
    BY <2>1, <2>2, HierarchyFacts, LevelsType
<1>2. /\ pos = "regrid" /\ ~Regrids(at) /\ ~atRegridPoint(at)
      /\ input' = input /\ level' = level /\ levels' = levels /\ clock' = clock
      /\ EndOfIteration(at)
      /\ data' \in DataType
      /\ data'.unsynced = data.unsynced /\ data'.unmatched = {}
      /\ data'.unset = data.unset /\ data'.since = data.since
      /\ \A k \in Levels :
            data'.unreset[k] = IF k = at THEN data.unreset[k] - 1 ELSE data.unreset[k]
  BY NoRegridFacts
<1>3. /\ at' = at
      /\ \/ at > 0 /\ ~lastLevelStep(at) /\ pos' = "step"
         \/ at = 0 /\ pos' = "return"
  BY <1>1, <1>2, EndFacts
<1>4. Interval' = Interval
  BY <1>2 DEF Interval, regrid_interval
<1>5. Typed'
  BY <1>1, <1>2, <1>3 DEF Typed
<1>6. Placed' /\ Timed'
  BY <1>2, EndKeepsPlacedAndTimed
<1>7. Regridded'
  BY <1>3 DEF Regridded
<1>8. Resets'
  <2>1. ASSUME NEW k \in Levels PROVE data'.unreset[k] = IF ToReset(k)' THEN 1 ELSE 0
    <3>1. k \in Nat
      BY <1>1
    <3>2. ToReset(k) <=> k < at \/ k = at
      BY <1>2 DEF ToReset, Looping
    <3>3. ToReset(k)' <=> k < at
      BY <3>1, <1>1, <1>3 DEF ToReset, Looping
    <3>4. data.unreset[k] = IF ToReset(k) THEN 1 ELSE 0
      BY <1>1 DEF Resets
    <3>5. k = at => ~(k < at)
      BY <1>1
    <3> QED
      BY <3>2, <3>3, <3>4, <3>5, <1>2
  <2> QED
    BY <2>1, <1>2 DEF Resets
<1>9. Syncs'
  <2>1. ASSUME NEW k \in Levels PROVE data'.unsynced[k] = IF ToSync(k)' THEN 1 ELSE 0
    <3>1. k \in Nat /\ k + 1 # 0
      BY <1>1
    <3>2. ToSync(k) <=> k + 1 < at /\ lastLevelStep(k + 1)
      <4>1. k + 1 = at => ~lastLevelStep(at)
        BY <3>1, <1>1, <1>3
      <4> QED
        BY <4>1, <1>2 DEF ToSync, Looping
    <3>3. lastLevelStep(k + 1)' <=> lastLevelStep(k + 1)
      BY <3>1, <1>2 DEF lastLevelStep
    <3>4. ToSync(k)' <=> k + 1 < at /\ lastLevelStep(k + 1)
      <4>1. CASE at > 0 /\ pos' = "step"
        BY <4>1, <3>3, <1>3 DEF ToSync, Looping
      <4>2. CASE at = 0 /\ pos' = "return"
        BY <4>2, <3>1, <1>3 DEF ToSync, Looping
      <4> QED
        BY <4>1, <4>2, <1>3
    <3>5. data.unsynced[k] = IF ToSync(k) THEN 1 ELSE 0
      BY <1>1 DEF Syncs
    <3> QED
      BY <3>2, <3>4, <3>5, <1>2
  <2> QED
    BY <2>1 DEF Syncs
<1>10. Sinces'
  <2>1. ASSUME NEW k \in Levels, levelCanBeRefined(k)
        PROVE  /\ k < at => data.since[k] = ((Counted(k) - 1) % Interval) + 1
               /\ k = at => data.since[k] = (level[k].step % Interval)
               /\ k > at => data.since[k] = 0
    <3>1. k < at => data.since[k] = ((Counted(k) - 1) % Interval) + 1
      <4>1. k < at => k <= at
        BY <1>1
      <4> QED
        BY <4>1, <2>1, <1>1, <1>2 DEF Sinces, Looping, Before
    <3>2. ASSUME k = at PROVE data.since[k] = (level[k].step % Interval)
      <4> DEFINE n == level[k].step
      <4>1. Counted(k) = n /\ n \in Nat
        <5>1. at = 0 => clock.hierarchy_advanced
          BY <1>1, <1>2 DEF Placed
        <5> QED
          BY <5>1, <3>2, <1>1 DEF Counted, LevelType
      <4>2. n >= 1
        <5>1. CASE at = 0
          BY <5>1, <3>2, <1>1, <1>2 DEF Placed
        <5>2. CASE at > 0
          <6>1. at \in 1 .. at /\ ~Before(at)
            BY <5>2, <1>1, <1>2 DEF Before
          <6> QED
            BY <6>1, <3>2, <1>1 DEF Placed
        <5> QED
          BY <5>1, <5>2, <1>1
      <4>3. data.since[k] = ((Counted(k) - 1) % Interval) + 1
        <5>1. k <= at /\ ~Before(k)
          BY <3>2, <1>1, <1>2 DEF Before
        <5> QED
          BY <5>1, <2>1, <1>1, <1>2 DEF Sinces, Looping
      <4>4. (n % Interval) # 0
        BY <4>1, <4>2, <3>2, <2>1, <1>1, <1>2, RegridPoint
      <4> DEFINE m == n - 1
      <4>5. m \in Nat /\ m + 1 = n /\ Counted(k) - 1 = m
        BY <4>1, <4>2
      <4> HIDE DEF m, n
      <4>6. (m + 1) % Interval = (m % Interval) + 1
        BY <4>4, <4>5, <1>1, InInterval
      <4> QED
        BY <4>3, <4>5, <4>6 DEF n
    <3>3. ASSUME k > at PROVE data.since[k] = 0
      <4>1. k \notin levels \/ clock.just_regridded
        <5>1. ASSUME k \in levels, ~clock.just_regridded PROVE FALSE
          <6>1. k \in Nat /\ k <= Finest /\ at < Finest
            BY <5>1, <3>3, <1>1
          <6>2. at + 1 = MaxLevels - 1
            BY <5>1, <6>1, <1>1, <1>2 DEF Regridded
          <6> QED
            BY <6>1, <6>2, <3>3, <2>1, <1>1 DEF levelCanBeRefined
        <5> QED
          BY <5>1
      <4> QED
        BY <4>1, <3>3, <2>1, <1>1 DEF Sinces
    <3> QED
      BY <3>1, <3>2, <3>3
  <2>2. ASSUME NEW k \in Levels
        PROVE  /\ Counted(k)' = Counted(k)
               /\ Looping' /\ k <= at' /\ ~Before(k)' => k < at
               /\ k > at' => k > at
               /\ k = at' => k = at
    <3>1. k \in Nat
      BY <1>1
    <3> QED
      BY <3>1, <1>1, <1>2, <1>3 DEF Looping, Before, Counted
  <2>3. 0 <= Interval
    BY <1>1
  <2>4. ASSUME NEW k \in Levels, levelCanBeRefined(k)
        PROVE  /\ Looping' /\ k <= at' /\ ~Before(k)' =>
                     data'.since[k] = ((Counted(k)' - 1) % Interval) + 1
               /\ k = at' => data'.since[k] = (level'[k].step % Interval)
               /\ k > at' => data'.since[k] = 0
    BY <2>1, <2>2, <2>4, <1>2
  <2> QED
    BY <2>3, <2>4, <1>4 DEF Sinces, levelCanBeRefined
<1>11. Unsets'
  BY <1>1, <1>2, <1>3 DEF Unsets
<1> QED
  BY <1>5, <1>6, <1>7, <1>8, <1>9, <1>10, <1>11 DEF RecursionInv

\* After NoRegrid in the last step of a level, the coarser one goes on.
LEMMA BackKeepsRecursion ==
    ASSUME RecursionInv, NEW l \in Levels, NoRegrid(l), ~(~lastLevelStep(at) \/ at = 0)
    PROVE  RecursionInv'
<1>1. /\ Typed /\ Placed /\ Regridded /\ Timed /\ Resets /\ Syncs /\ Sinces /\ Unsets
      /\ at \in Nat /\ at \in levels /\ at \in Levels /\ Finest \in Nat /\ Interval \in 1 .. 3
      /\ levels = 0 .. Finest /\ at <= Finest /\ Finest <= MaxLevels - 1 /\ MaxLevels \in Nat
      /\ \A k \in Levels : level[k] \in LevelType
      /\ \A k \in Levels : k \in Nat
  <2>1. /\ Typed /\ Placed /\ Regridded /\ Timed /\ Resets /\ Syncs /\ Sinces /\ Unsets
    BY DEF RecursionInv
  <2>2. at \in levels
    BY <2>1 DEF Typed
  <2> QED
    BY <2>1, <2>2, HierarchyFacts, LevelsType
<1>2. /\ pos = "regrid" /\ ~Regrids(at) /\ ~clock.just_regridded
      /\ input' = input /\ level' = level /\ levels' = levels /\ clock' = clock
      /\ EndOfIteration(at)
      /\ atRegridPoint(at) => atRegridPoint(at - 1)
      /\ ~atRegridPoint(at) => at = Finest /\ at = MaxLevels - 1
      /\ data' \in DataType
      /\ data'.unsynced = data.unsynced /\ data'.unmatched = {}
      /\ data'.unset = data.unset /\ data'.since = data.since
      /\ \A k \in Levels : data'.unreset[k] = data.unreset[k]
  BY NoRegridFacts
<1>3. at > 0 /\ lastLevelStep(at) /\ at' = at - 1 /\ pos' = "sync"
  BY <1>1, <1>2, EndFacts
<1>4. Interval' = Interval /\ Finest' = Finest
  BY <1>2 DEF Interval, regrid_interval, Finest
<1>5. Typed'
  <2>1. at' \in levels'
    BY <1>1, <1>2, <1>3
  <2> QED
    BY <2>1, <1>1, <1>2, <1>3 DEF Typed
<1>6. Placed' /\ Timed'
  BY <1>2, EndKeepsPlacedAndTimed
<1>7. Regridded'
  <2>1. atRegridPoint(at)' <=> atRegridPoint(at - 1)
    BY <1>2, <1>3 DEF atRegridPoint, levelCanBeRefined, regrid_interval
  <2>2. atRegridPoint(at - 1) \/ at' + 1 = MaxLevels - 1
    BY <1>1, <1>2, <1>3
  <2> QED
    BY <2>1, <2>2, <1>2 DEF Regridded
\* The finer levels are at a regrid point together with this, or there are none.
<1>8. ASSUME NEW k \in Levels
      PROVE  k > at /\ k \in levels => atRegridPoint(at)
  BY <1>1, <1>2
<1>9. Resets'
  <2>1. ASSUME NEW k \in Levels PROVE ToReset(k)' <=> ToReset(k)
    <3>1. k \in Nat
      BY <1>1
    <3>2. ToReset(k) <=> k <= at \/ (k > at /\ k \in levels)
      BY <3>1, <1>1, <1>2, <1>8 DEF ToReset, Looping
    <3>3. ToReset(k)' <=> k < at \/ (k >= at /\ k \in levels)
      BY <3>1, <1>1, <1>2, <1>3 DEF ToReset, Looping
    <3> QED
      BY <3>1, <3>2, <3>3, <1>1
  <2>2. \A k \in Levels : data.unreset[k] = IF ToReset(k) THEN 1 ELSE 0
    BY <1>1 DEF Resets
  <2> QED
    BY <2>1, <2>2, <1>2 DEF Resets
<1>10. Syncs'
  <2>1. ASSUME NEW k \in Levels PROVE ToSync(k)' <=> ToSync(k)
    <3>1. k \in Nat /\ k + 1 # 0 /\ (k + 1 \in levels => k + 1 <= Finest) /\ at \in levels
      BY <1>1
    <3>2. ToSync(k) <=> \/ k + 1 < at /\ lastLevelStep(k + 1)
                        \/ k + 1 = at
                        \/ k + 1 > at /\ k + 1 \in levels
      <4>1. k >= at /\ k + 1 \in levels => atRegridPoint(at)
        BY <3>1, <1>1, <1>2
      <4>2. k >= at <=> k + 1 > at
        BY <3>1, <1>1
      <4> QED
        BY <4>1, <4>2, <1>2, <1>3 DEF ToSync, Looping
    <3>3. lastLevelStep(k + 1)' <=> lastLevelStep(k + 1)
      BY <3>1, <1>2 DEF lastLevelStep
    <3>4. ToSync(k)' <=> \/ k + 1 < at - 1 /\ lastLevelStep(k + 1)
                         \/ k + 1 = at - 1 /\ lastLevelStep(at)'
                         \/ k >= at - 1 /\ k + 1 \in levels
      BY <3>3, <1>2, <1>3 DEF ToSync, Looping
    <3>5. k + 1 = at - 1 => (lastLevelStep(at)' <=> lastLevelStep(k + 1))
      <4>1. k + 1 = at - 1 => (lastLevelStep(at)' <=> lastLevelStep(k + 1)')
        BY <1>3 DEF lastLevelStep
      <4> QED
        BY <4>1, <3>3
    <3>6. /\ k + 1 < at <=> k + 1 < at - 1 \/ k + 1 = at - 1
          /\ k >= at - 1 <=> k + 1 = at \/ k + 1 > at
      BY <3>1, <1>1, <1>3
    <3> QED
      BY <3>1, <3>2, <3>4, <3>5, <3>6
  <2>2. \A k \in Levels : data.unsynced[k] = IF ToSync(k) THEN 1 ELSE 0
    BY <1>1 DEF Syncs
  <2> QED
    BY <2>1, <2>2, <1>2 DEF Syncs
<1>11. Sinces'
  <2>1. ASSUME NEW k \in Levels, levelCanBeRefined(k)
        PROVE  /\ k <= at => data.since[k] = ((Counted(k) - 1) % Interval) + 1
               /\ k <= at => data.since[k] <= Interval
               /\ k > at => /\ data.since[k] <= Interval
                            /\ k \notin levels => data.since[k] = 0
    <3>1. k <= at => data.since[k] = ((Counted(k) - 1) % Interval) + 1
      BY <2>1, <1>1, <1>2 DEF Sinces, Looping, Before
    <3>2. ASSUME k <= at PROVE data.since[k] <= Interval
      <4>1. Counted(k) - 1 \in Int
        <5>1. level[k].step \in Nat /\ level[0].step \in Nat
          BY <1>1, LevelsType DEF LevelType
        <5> QED
          BY <5>1 DEF Counted
      <4> DEFINE m == Counted(k) - 1
      <4> HIDE DEF m
      <4>2. (m % Interval) + 1 <= Interval
        BY <4>1, <1>1 DEF m
      <4> QED
        BY <4>2, <3>1, <3>2 DEF m
    <3>3. k > at => /\ data.since[k] <= Interval
                    /\ k \notin levels => data.since[k] = 0
      BY <2>1, <1>1, <1>2 DEF Sinces
    <3> QED
      BY <3>1, <3>2, <3>3
  <2>2. ASSUME NEW k \in Levels
        PROVE  /\ Counted(k)' = Counted(k)
               /\ k <= at' => k <= at
               /\ k <= at \/ k > at
               /\ k \notin levels => k > at
    <3>1. k \in Nat
      BY <1>1
    <3> QED
      BY <3>1, <1>1, <1>2, <1>3 DEF Counted
  <2> QED
    BY <2>1, <2>2, <1>2, <1>3, <1>4 DEF Sinces, levelCanBeRefined, Looping, Before
<1>12. Unsets'
  <2>1. data.unset = {}
    BY <1>1, <1>2 DEF Unsets
  <2> QED
    BY <2>1, <1>2 DEF Unsets
<1> QED
  BY <1>5, <1>6, <1>7, <1>9, <1>10, <1>11, <1>12 DEF RecursionInv

\* advanceHierarchy() returns: the time goes on, and the next increment is known.
LEMMA ReturnKeepsRecursion ==
    ASSUME RecursionInv, Return
    PROVE  RecursionInv'
<1>1. /\ Typed /\ Placed /\ Timed /\ Resets /\ Syncs /\ Sinces /\ Unsets
      /\ level \in [Levels -> LevelType] /\ clock \in ClockType /\ 0 \in Levels
      /\ EndTime \in Nat
      /\ \A k \in Levels : k \in Nat
  <2>1. Typed /\ Placed /\ Timed /\ Resets /\ Syncs /\ Sinces /\ Unsets
    BY DEF RecursionInv
  <2>2. level \in [Levels -> LevelType] /\ clock \in ClockType
    BY <2>1 DEF Typed
  <2> QED
    BY <2>1, <2>2, LevelsType, TimeRefinementIntegratorAssumption
<1> DEFINE time == clock.integrator_time + clock.dt
           v    == level[0].dt_actual
           rest == EndTime - time
           dt   == Min({v, rest})
<1>2. /\ pos = "return" /\ pos' = "idle" /\ at = 0 /\ at' = 0
      /\ input' = input /\ levels' = levels /\ level' = level /\ data' = data
      /\ clock' = [clock EXCEPT !.integrator_time = time, !.dt = dt]
  BY <1>1 DEF Return, Placed
<1>3. /\ level[0].dt_max >= 1 /\ v = level[0].dt_max /\ clock.dt >= 1
      /\ input.refined
  BY <1>1, <1>2 DEF Timed, Placed
<1>4. v \in Nat /\ time \in Nat /\ rest \in Int
  <2>1. v \in Nat
    BY <1>1 DEF LevelType
  <2>2. clock.integrator_time \in Nat /\ clock.dt \in Int
    BY <1>1 DEF ClockType
  <2> QED
    BY <2>1, <2>2, <1>1, <1>3
<1> HIDE DEF time, v
<1>5. /\ dt \in Int /\ dt <= v
      /\ rest >= 1 => dt >= 1
  <2> HIDE DEF rest
  <2>1. v \in Int /\ rest \in Int
    BY <1>4
  <2>2. dt \in {v, rest} /\ dt <= v
    BY <2>1, MinOfTwo, Zenon
  <2> HIDE DEF dt
  <2>3. dt = v \/ dt = rest
    BY <2>2
  <2> QED
    BY <2>1, <2>2, <2>3, <1>3
<1> HIDE DEF dt
<1>6. /\ clock' \in ClockType /\ clock'.integrator_time = time /\ clock'.dt = dt
      /\ clock'.last_finest_level = clock.last_finest_level
      /\ clock'.just_regridded = clock.just_regridded
      /\ clock'.hierarchy_advanced = clock.hierarchy_advanced
      /\ clock'.level_0_advanced = clock.level_0_advanced
  BY <1>1, <1>2, <1>4, <1>5 DEF ClockType
<1>7. Interval' = Interval
  BY <1>2 DEF Interval, regrid_interval
<1>8. Typed'
  BY <1>1, <1>2, <1>6 DEF Typed
<1>9. Placed'
  BY <1>2, <1>3 DEF Placed, Looping
<1>10. Regridded'
  BY <1>2 DEF Regridded
<1>11. Timed'
  <2>1. Continues' => rest >= 1
    BY <1>1, <1>4, <1>6 DEF Continues
  <2>2. 1 .. at' = {}
    BY <1>2
  <2>3. /\ level'[0].dt_max >= 1 /\ level'[0].dt_actual = level'[0].dt_max
        /\ Continues' => clock'.dt >= 1 /\ clock'.dt <= level'[0].dt_max
    BY <2>1, <1>2, <1>3, <1>5, <1>6 DEF v
  <2> QED
    BY <2>2, <2>3, <1>2 DEF Timed, Looping
<1>12. Resets'
  BY <1>1, <1>2 DEF Resets, ToReset, Looping
<1>13. Syncs'
  BY <1>1, <1>2 DEF Syncs, ToSync, Looping
<1>14. Sinces'
  BY <1>1, <1>2, <1>7 DEF Sinces, Looping, levelCanBeRefined
<1>15. Unsets'
  BY <1>1, <1>2, <1>6 DEF Unsets
<1> QED
  BY <1>8, <1>9, <1>10, <1>11, <1>12, <1>13, <1>14, <1>15 DEF RecursionInv

\* The simulation is started again from what it wrote.
LEMMA RestartKeepsRecursion ==
    ASSUME RecursionInv, Restart
    PROVE  RecursionInv'
<1>1. /\ Typed /\ Placed /\ Timed /\ Resets /\ Syncs /\ Sinces /\ Unsets
      /\ level \in [Levels -> LevelType] /\ clock \in ClockType /\ 0 \in Levels
      /\ \A k \in Levels : k \in Nat
  <2>1. Typed /\ Placed /\ Timed /\ Resets /\ Syncs /\ Sinces /\ Unsets
    BY DEF RecursionInv
  <2>2. level \in [Levels -> LevelType] /\ clock \in ClockType
    BY <2>1 DEF Typed
  <2> QED
    BY <2>1, <2>2, LevelsType
<1>2. /\ pos = "idle" /\ pos' = "idle" /\ at = 0 /\ at' = 0
      /\ input' = input /\ levels' = levels /\ data' = data
      /\ level' = [l \in Levels |-> Restored(l)]
      /\ clock' = [clock EXCEPT !.dt = level[0].dt_max, !.just_regridded = FALSE]
  BY <1>1 DEF Restart, Placed
<1>3. ASSUME NEW l \in Levels
      PROVE  /\ Restored(l) \in LevelType
             /\ Restored(l).dt_max = level[l].dt_max
             /\ Restored(l).dt_actual = level[l].dt_actual
             /\ l = 0 => Restored(l).step = level[l].step
  <2>1. NoLevel \in LevelType
    BY DEF NoLevel, LevelType
  <2> DEFINE n == IF l = 0 THEN level[0].step ELSE NoLevel.step
  <2>2. n \in Nat /\ level[l].dt_max \in Nat /\ level[l].dt_actual \in Nat
    BY <2>1, <1>1 DEF LevelType
  <2>3. Restored(l) = [NoLevel EXCEPT !.step = n, !.dt_max = level[l].dt_max,
                                      !.dt_actual = level[l].dt_actual]
    BY <2>1 DEF Restored, LevelType
  <2> HIDE DEF n
  <2>4. /\ Restored(l) \in LevelType
        /\ Restored(l).dt_max = level[l].dt_max
        /\ Restored(l).dt_actual = level[l].dt_actual
        /\ Restored(l).step = n
    BY <2>1, <2>2, <2>3 DEF LevelType
  <2> QED
    BY <2>4 DEF n
<1>4. /\ level' \in [Levels -> LevelType]
      /\ level'[0].dt_max = level[0].dt_max /\ level'[0].dt_actual = level[0].dt_actual
      /\ level'[0].step = level[0].step
  BY <1>1, <1>2, <1>3
<1>5. level[0].dt_max >= 1 /\ level[0].dt_actual = level[0].dt_max /\ level[0].dt_max \in Nat
  BY <1>1, <1>2 DEF Timed, LevelType
<1>6. /\ clock' \in ClockType /\ clock'.dt = level[0].dt_max
      /\ clock'.last_finest_level = clock.last_finest_level
  <2> DEFINE m == level[0].dt_max
  <2>1. m \in Int /\ clock' = [clock EXCEPT !.dt = m, !.just_regridded = FALSE]
    BY <1>2, <1>5
  <2> HIDE DEF m
  <2>2. /\ clock' \in ClockType /\ clock'.dt = m
        /\ clock'.last_finest_level = clock.last_finest_level
    BY <2>1, <1>1 DEF ClockType
  <2> QED
    BY <2>2 DEF m
<1>7. Interval' = Interval
  BY <1>2 DEF Interval, regrid_interval
<1>8. Typed'
  BY <1>1, <1>2, <1>4, <1>6 DEF Typed
<1>9. Placed'
  BY <1>1, <1>2, <1>6 DEF Placed, Looping
<1>10. Regridded'
  BY <1>2 DEF Regridded
<1>11. Timed'
  <2>1. 1 .. at' = {}
    BY <1>2
  <2>2. /\ level'[0].dt_max >= 1 /\ level'[0].dt_actual = level'[0].dt_max
        /\ clock'.dt >= 1 /\ clock'.dt <= level'[0].dt_max
    BY <1>4, <1>5, <1>6
  <2> QED
    BY <2>1, <2>2, <1>2 DEF Timed, Looping
<1>12. Resets'
  BY <1>1, <1>2 DEF Resets, ToReset, Looping
<1>13. Syncs'
  BY <1>1, <1>2 DEF Syncs, ToSync, Looping
<1>14. Sinces'
  BY <1>1, <1>2, <1>4, <1>7 DEF Sinces, Looping, levelCanBeRefined
<1>15. Unsets'
  BY <1>1, <1>2, <1>6 DEF Unsets
<1> QED
  BY <1>8, <1>9, <1>10, <1>11, <1>12, <1>13, <1>14, <1>15 DEF RecursionInv

\* Synchronized timestepping: all levels step, are synchronized, regridded, reset.
LEMMA TogetherKeepsRecursion ==
    ASSUME RecursionInv, advanceForSynchronizedTimestepping
    PROVE  RecursionInv'
<1>1. /\ Typed /\ Placed /\ Timed /\ Resets /\ Syncs /\ Sinces /\ Unsets
      /\ level \in [Levels -> LevelType] /\ clock \in ClockType /\ data \in DataType
      /\ 0 \in Levels /\ EndTime \in Nat
      /\ \A k \in Levels : k \in Nat
      /\ levels = 0 .. Finest /\ Finest \in Nat /\ 0 \in levels
      /\ \A k \in levels : k \in Nat
  <2>1. Typed /\ Placed /\ Timed /\ Resets /\ Syncs /\ Sinces /\ Unsets
    BY DEF RecursionInv
  <2>2. level \in [Levels -> LevelType] /\ clock \in ClockType /\ data \in DataType
    BY <2>1 DEF Typed
  <2>3. levels = 0 .. Finest /\ Finest \in Nat
    BY <2>1, HierarchyFacts
  <2> QED
    BY <2>1, <2>2, <2>3, LevelsType, TimeRefinementIntegratorAssumption
<1>2. /\ pos = "idle" /\ Continues /\ ~input.refined
      /\ at = 0 /\ at' = 0 /\ pos' = "idle" /\ input' = input
  BY <1>1 DEF advanceForSynchronizedTimestepping, Placed
<1>3. PICK dt_next \in Dts[0], userTags \in SUBSET TaggedLevels(0) :
          LET time   == clock.integrator_time + clock.dt
              dt_new == Min({dt_next, GrowDt * clock.dt})
              step   == level[0].step + 1
              t      == Criteria(tagging, step, time)
              synced == IF Finest > 0 THEN standardLevelSynchronization(AllAdvanced, 0, Finest)
                        ELSE AllAdvanced
              reset  == resetTimeDependentData(synced, ResetBefore(0, t.richardson))
              new    == regridFinerLevel(0, userTags)
          IN  /\ level' = [l \in Levels |->
                    [level[l] EXCEPT !.step = IF l = 0 THEN step ELSE IF l \in levels THEN 1 ELSE @,
                                     !.sim_time = IF l \in levels THEN clock.integrator_time ELSE @,
                                     !.dt_max = IF l \in levels THEN dt_new ELSE @,
                                     !.dt_actual = IF l \in levels THEN dt_new ELSE @]]
              /\ clock' = [clock EXCEPT !.integrator_time = time,
                                        !.dt = Min({dt_new, EndTime - time}),
                                        !.level_0_advanced = TRUE, !.hierarchy_advanced = TRUE]
              /\ IF step % regrid_interval(0) = 0
                 THEN /\ tagging' = t
                      /\ levels' = IF levelCanBeRefined(0) THEN new ELSE levels
                      /\ data' = synchronizeNewLevels(DataAfterRegrid(reset, 0, userTags, t.richardson),
                                                      0, Max(new))
                 ELSE /\ data' = resetTimeDependentData(synced, levels)
                      /\ UNCHANGED <<levels, tagging>>
  BY DEF advanceForSynchronizedTimestepping
<1> DEFINE time   == clock.integrator_time + clock.dt
           grown  == GrowDt * clock.dt
           dt_new == Min({dt_next, grown})
           step   == level[0].step + 1
           r      == Criteria(tagging, step, time).richardson
           synced == IF Finest > 0 THEN standardLevelSynchronization(AllAdvanced, 0, Finest)
                     ELSE AllAdvanced
           reset  == resetTimeDependentData(synced, ResetBefore(0, r))
           new    == regridFinerLevel(0, userTags)
           e      == synchronizeNewLevels(DataAfterRegrid(reset, 0, userTags, r), 0, Max(new))
           rest   == EndTime - time
           dt     == Min({dt_new, rest})
           record(l) == [level[l] EXCEPT
                           !.step = IF l = 0 THEN step ELSE IF l \in levels THEN 1 ELSE @,
                           !.sim_time = IF l \in levels THEN clock.integrator_time ELSE @,
                           !.dt_max = IF l \in levels THEN dt_new ELSE @,
                           !.dt_actual = IF l \in levels THEN dt_new ELSE @]
\* The regrid interval is 1.
<1>4. Interval = 1 /\ Interval' = 1 /\ step \in Nat /\ step % regrid_interval(0) = 0
  <2>1. regrid_interval(0) = 1 /\ Interval = 1 /\ Interval' = 1
    BY <1>2 DEF Interval, regrid_interval
  <2>2. step \in Nat
    BY <1>1 DEF LevelType
  <2> HIDE DEF step
  <2> QED
    BY <2>1, <2>2
<1>5. /\ level' = [l \in Levels |-> record(l)]
      /\ clock' = [clock EXCEPT !.integrator_time = time, !.dt = dt,
                                !.level_0_advanced = TRUE, !.hierarchy_advanced = TRUE]
      /\ levels' = IF levelCanBeRefined(0) THEN new ELSE levels
      /\ data' = e
  BY <1>3, <1>4
<1>6. /\ clock.dt \in Nat /\ clock.dt >= 1 /\ clock.integrator_time \in Nat
      /\ time \in Nat /\ rest \in Int
  <2>1. clock.dt \in Int /\ clock.integrator_time \in Nat
    BY <1>1 DEF ClockType
  <2>2. clock.dt >= 1
    BY <1>1, <1>2 DEF Timed
  <2> QED
    BY <2>1, <2>2, <1>1
<1>7. dt_new \in Nat /\ dt_new >= 1
  <2>1. dt_next \in Nat /\ dt_next >= 1
    <3>1. Dts[0] \in SUBSET (1 .. EndTime)
      BY <1>1, TimeRefinementIntegratorAssumption
    <3> QED
      BY <3>1, <1>1
  <2>2. grown \in Nat /\ grown >= 1
    BY <1>6, LevelsType
  <2> HIDE DEF grown
  <2>3. dt_next \in Int /\ grown \in Int
    BY <2>1, <2>2
  <2>4. dt_new \in {dt_next, grown}
    BY <2>3, MinOfTwo, Zenon
  <2> HIDE DEF dt_new
  <2>5. dt_new = dt_next \/ dt_new = grown
    BY <2>4
  <2> QED
    BY <2>1, <2>2, <2>5
<1> HIDE DEF dt_new, time
<1>8. /\ dt \in Int /\ dt <= dt_new
      /\ rest >= 1 => dt >= 1
  <2> HIDE DEF rest
  <2>1. dt_new \in Int /\ rest \in Int
    BY <1>6, <1>7
  <2>2. dt \in {dt_new, rest} /\ dt <= dt_new
    BY <2>1, MinOfTwo, Zenon
  <2> HIDE DEF dt
  <2>3. dt = dt_new \/ dt = rest
    BY <2>2
  <2> QED
    BY <2>1, <2>2, <2>3, <1>7
<1> HIDE DEF dt
<1>9. /\ clock' \in ClockType /\ clock'.integrator_time = time /\ clock'.dt = dt
      /\ clock'.last_finest_level = clock.last_finest_level
  BY <1>1, <1>5, <1>6, <1>8 DEF ClockType
<1>10. ASSUME NEW l \in Levels
       PROVE  /\ record(l) \in LevelType
              /\ l = 0 => record(l).dt_max = dt_new /\ record(l).dt_actual = dt_new
  <2> DEFINE i == IF l = 0 THEN step ELSE IF l \in levels THEN 1 ELSE level[l].step
             s == IF l \in levels THEN clock.integrator_time ELSE level[l].sim_time
             m == IF l \in levels THEN dt_new ELSE level[l].dt_max
             a == IF l \in levels THEN dt_new ELSE level[l].dt_actual
  <2>1. level[l] \in LevelType
    BY <1>1
  <2>2. i \in Nat /\ s \in Nat /\ m \in Nat /\ a \in Nat
    BY <2>1, <1>4, <1>6, <1>7 DEF LevelType
  <2>3. record(l) = [level[l] EXCEPT !.step = i, !.sim_time = s, !.dt_max = m, !.dt_actual = a]
    BY <2>1 DEF LevelType
  <2>4. l = 0 => m = dt_new /\ a = dt_new
    BY <1>1
  <2> HIDE DEF i, s, m, a
  <2>5. record(l) \in LevelType /\ record(l).dt_max = m /\ record(l).dt_actual = a
    BY <2>1, <2>2, <2>3 DEF LevelType
  <2> QED
    BY <2>4, <2>5
<1>11. /\ level' \in [Levels -> LevelType]
       /\ level'[0].dt_max = dt_new /\ level'[0].dt_actual = dt_new
  <2> HIDE DEF record
  <2> QED
    BY <1>1, <1>5, <1>10
<1> HIDE DEF record

\* All levels have advanced once, and are synchronized.
<1>12. /\ synced \in DataType
       /\ synced.unmatched = {} /\ synced.unset = data.unset
       /\ \A k \in Levels :
             /\ synced.unreset[k] = IF k \in levels THEN 1 ELSE 0
             /\ synced.unsynced[k] = 0
  <2>1. /\ data.unmatched = {}
        /\ \A k \in Levels : data.unreset[k] = 0 /\ data.unsynced[k] = 0
    <3>1. \A k \in Levels : ~ToReset(k) /\ ~ToSync(k)
      BY <1>2 DEF ToReset, ToSync, Looping
    <3> QED
      BY <3>1, <1>1 DEF Resets, Syncs
  <2> DEFINE x == [l \in Levels |-> IF l \in levels THEN data.unreset[l] + 1 ELSE data.unreset[l]]
             y == [l \in Levels |-> IF l \in levels THEN data.since[l] + 1 ELSE data.since[l]]
             z == [l \in Levels |-> IF l + 1 \in levels THEN data.unsynced[l] + 1
                                    ELSE data.unsynced[l]]
             a == [data EXCEPT !.unreset = x, !.since = y, !.unsynced = z]
  <2>2. AllAdvanced = a
    BY <1>1 DEF AllAdvanced, DataType
  <2>3. x \in [Levels -> Int] /\ y \in [Levels -> Nat] /\ z \in [Levels -> Int]
    BY <1>1 DEF DataType
  <2>4. \A k \in Levels : /\ x[k] = IF k \in levels THEN 1 ELSE 0
                          /\ z[k] = IF k + 1 \in levels THEN 1 ELSE 0
    BY <2>1
  <2> HIDE DEF x, y, z
  <2>5. /\ a \in DataType /\ a.unreset = x /\ a.unsynced = z
        /\ a.unmatched = data.unmatched /\ a.unset = data.unset
    BY <2>3, <1>1 DEF DataType
  <2> HIDE DEF a
  <2>6. CASE Finest > 0
    <3>1. synced = standardLevelSynchronization(a, 0, Finest)
      BY <2>2, <2>6
    <3> HIDE DEF synced
    <3>2. /\ synced \in DataType
          /\ synced.unmatched = a.unmatched /\ synced.unset = a.unset
          /\ synced.unreset = a.unreset
          /\ \A k \in Levels :
                synced.unsynced[k] = IF k \in 0 .. (Finest - 1) THEN a.unsynced[k] - 1
                                     ELSE a.unsynced[k]
      BY <3>1, <2>5, SynchronizedDataType
    <3>3. \A k \in Levels : k \in 0 .. (Finest - 1) <=> k + 1 \in levels
      BY <1>1
    <3>4. \A k \in Levels : synced.unsynced[k] = 0
      BY <3>2, <3>3, <2>4, <2>5
    <3> QED
      BY <3>2, <3>4, <2>1, <2>4, <2>5
  <2>7. CASE ~(Finest > 0)
    <3>1. synced = a
      BY <2>2, <2>7
    <3>2. \A k \in Levels : k + 1 \notin levels
      BY <2>7, <1>1
    <3> HIDE DEF synced
    <3> QED
      BY <3>1, <3>2, <2>1, <2>4, <2>5
  <2> QED
    BY <2>6, <2>7
<1> HIDE DEF synced, r
<1>13. /\ Nested(new) /\ \A k \in levels : k <= 0 => k \in new
       /\ e \in DataType
       /\ e.unsynced = synced.unsynced /\ e.unmatched = {}
       /\ e.unset = (synced.unset \cup (new \ levels)) \cap new
       /\ \A k \in Levels :
             /\ e.unreset[k] = IF k >= 0 THEN 0 ELSE synced.unreset[k]
             /\ e.since[k] = IF k >= 0 THEN 0 ELSE synced.since[k]
  <2>1. /\ \A k \in Levels : k > Finest => synced.unreset[k] = 0
        /\ \A k \in Levels : k >= 0 /\ k <= Finest => synced.unreset[k] = 1
    <3>1. \A k \in Levels : k \in levels <=> k <= Finest
      BY <1>1
    <3>2. \A k \in Levels : k > Finest => ~(k <= Finest)
      BY <1>1
    <3> QED
      BY <3>1, <3>2, <1>12
  <2> QED
    BY <2>1, <1>1, <1>12, RegriddingData
<1> HIDE DEF e, new
<1>14. /\ data' \in DataType
       /\ data'.unmatched = {}
       /\ data'.unset = (data.unset \cup (new \ levels)) \cap new
       /\ \A k \in Levels :
             data'.unreset[k] = 0 /\ data'.since[k] = 0 /\ data'.unsynced[k] = 0
  <2>1. \A k \in Levels : k >= 0
    BY <1>1
  <2> QED
    BY <2>1, <1>5, <1>12, <1>13
<1>15. Nested(levels') /\ 0 \in levels'
  BY <1>1, <1>5, <1>13 DEF Typed
<1>16. Typed'
  BY <1>1, <1>2, <1>9, <1>11, <1>14, <1>15 DEF Typed
<1>17. Placed'
  BY <1>1, <1>2, <1>9 DEF Placed, Looping
<1>18. Regridded'
  BY <1>2 DEF Regridded
<1>19. Timed'
  <2>1. Continues' => rest >= 1
    BY <1>1, <1>6, <1>9 DEF Continues
  <2>2. 1 .. at' = {}
    BY <1>2
  <2>3. /\ level'[0].dt_max >= 1 /\ level'[0].dt_actual = level'[0].dt_max
        /\ Continues' => clock'.dt >= 1 /\ clock'.dt <= level'[0].dt_max
    BY <2>1, <1>7, <1>8, <1>9, <1>11
  <2> QED
    BY <2>2, <2>3, <1>2 DEF Timed, Looping
<1>20. Resets'
  BY <1>2, <1>14 DEF Resets, ToReset, Looping
<1>21. Syncs'
  BY <1>2, <1>14 DEF Syncs, ToSync, Looping
<1>22. Sinces'
  <2>1. level'[0].step \in Nat
    BY <1>1, <1>11 DEF LevelType
  <2>2. (level'[0].step % Interval') = 0
    BY <2>1, <1>4
  <2> QED
    BY <2>2, <1>2, <1>4, <1>14 DEF Sinces, Looping
<1>23. Unsets'
  <2>1. data'.unset \subseteq levels'
    <3>1. CASE levelCanBeRefined(0)
      BY <3>1, <1>5, <1>14
    <3>2. CASE ~levelCanBeRefined(0)
      <4>1. \A k \in new : k = 0
        <5>1. new \subseteq Levels
          BY <1>13, LevelsType DEF Nested
        <5> QED
          BY <5>1, <3>2, LevelsType DEF levelCanBeRefined
      <4> QED
        BY <4>1, <1>14, <1>15
    <3> QED
      BY <3>1, <3>2
  <2>2. ASSUME NEW k \in data'.unset PROVE k > 0
    <3>1. k \in data.unset \/ k \notin levels
      BY <2>2, <1>14
    <3>2. k \in Nat
      BY <2>2, <1>13, <1>14, LevelsType DEF Nested
    <3>3. k \in data.unset => k > 0
      BY <1>1, <1>2 DEF Unsets
    <3> QED
      BY <3>1, <3>2, <3>3, <1>1
  <2>3. clock'.last_finest_level = 0
    BY <1>1, <1>2, <1>9 DEF Placed
  <2> QED
    BY <2>1, <2>2, <2>3, <1>2 DEF Unsets
<1> QED
  BY <1>16, <1>17, <1>18, <1>19, <1>20, <1>21, <1>22, <1>23 DEF RecursionInv

-----------------------------------------------------------------------------
LEMMA NextKeepsRecursion ==
    ASSUME RecursionInv, Positive, Positive', [Next]_vars
    PROVE  RecursionInv'
<1>1. CASE advanceHierarchy
  BY <1>1, StartKeepsRecursion
<1>2. ASSUME NEW l \in Levels, advanceLevel(l) PROVE RecursionInv'
  <2>1. CASE at + 1 \in levels
    BY <1>2, <2>1, StepDownKeepsRecursion
  <2>2. CASE at + 1 \notin levels
    BY <1>2, <2>2, StepFinestKeepsRecursion
  <2> QED
    BY <2>1, <2>2
<1>3. CASE CountStep
  BY <1>3, CountKeepsRecursion
<1>4. ASSUME NEW l \in Levels, Synchronize(l) PROVE RecursionInv'
  BY <1>4, SynchronizeKeepsRecursion
<1>5. ASSUME NEW l \in Levels, Regrid(l) PROVE RecursionInv'
  BY <1>5, RegridKeepsRecursion
<1>6. ASSUME NEW l \in Levels, NoRegrid(l) PROVE RecursionInv'
  <2>1. CASE ~lastLevelStep(at) \/ at = 0
    BY <1>6, <2>1, StayKeepsRecursion
  <2>2. CASE ~(~lastLevelStep(at) \/ at = 0)
    BY <1>6, <2>2, BackKeepsRecursion
  <2> QED
    BY <2>1, <2>2
<1>7. CASE Return
  BY <1>7, ReturnKeepsRecursion
<1>8. CASE advanceForSynchronizedTimestepping
  BY <1>8, TogetherKeepsRecursion
<1>9. CASE Restart
  BY <1>9, RestartKeepsRecursion
<1>10. CASE UNCHANGED vars
  <2>1. /\ input' = input /\ levels' = levels /\ level' = level /\ at' = at /\ pos' = pos
        /\ clock' = clock /\ data' = data
    BY <1>10 DEF vars
  <2>2. Typed' /\ Placed' /\ Regridded'
    BY <2>1 DEF RecursionInv, Typed, Placed, Regridded, Before, Looping, Interval,
                regrid_interval, Finest, atRegridPoint, levelCanBeRefined
  <2>3. Timed'
    BY <2>1 DEF RecursionInv, Timed, Before, Looping, lastLevelStep, Continues
  <2>4. Resets'
    BY <2>1 DEF RecursionInv, Resets, ToReset, Looping, atRegridPoint, levelCanBeRefined,
                regrid_interval
  <2>5. Syncs'
    BY <2>1 DEF RecursionInv, Syncs, ToSync, Looping, lastLevelStep, Regrids,
                coarserLevelRegridsToo, atRegridPoint, levelCanBeRefined, regrid_interval
  <2>6. Sinces'
    BY <2>1 DEF RecursionInv, Sinces, Looping, Before, Counted, Interval, regrid_interval,
                levelCanBeRefined
  <2>7. Unsets'
    BY <2>1 DEF RecursionInv, Unsets
  <2> QED
    BY <2>2, <2>3, <2>4, <2>5, <2>6, <2>7 DEF RecursionInv
<1>11. CASE Terminated
  BY <1>10, <1>11 DEF Terminated
<1> QED
  BY <1>1, <1>2, <1>3, <1>4, <1>5, <1>6, <1>7, <1>8, <1>9, <1>10, <1>11 DEF Next, Progress

LEMMA RecursionInvariant == Spec /\ []Positive => []RecursionInv
<1>1. Init => RecursionInv
  BY InitRecursion
<1>2. RecursionInv /\ Positive /\ Positive' /\ [Next]_vars => RecursionInv'
  BY NextKeepsRecursion
<1> QED
  BY <1>1, <1>2, PTL DEF Spec

(***************************************************************************)
(* The data of every level is reset exactly once between two of its steps, *)
(* by the level itself, a coarser one, or the tagging of cells: in         *)
(* TimeRefinementIntegrator::advanceRecursivelyForRefinedTimestepping()    *)
(* and advanceForSynchronizedTimestepping(), for any number of levels,     *)
(* refinement ratio, increments and regridding.                            *)
(***************************************************************************)
THEOREM DataIsResetOnce == Spec /\ []Positive => []DataResetOnce
<1>1. RecursionInv => DataResetOnce
  <2> SUFFICES ASSUME RecursionInv PROVE DataResetOnce
    OBVIOUS
  <2>1. \A l \in Levels : data.unreset[l] = IF ToReset(l) THEN 1 ELSE 0
    BY DEF RecursionInv, Resets
  <2>2. levels \subseteq Levels
    BY LevelsType DEF RecursionInv, Typed, Nested
  <2>3. pos = "step" => \A l \in Levels : ToReset(l) <=> l < at
    BY DEF ToReset, Looping
  <2>4. pos = "idle" => \A l \in Levels : ~ToReset(l)
    BY DEF ToReset, Looping
  <2> QED
    BY <2>1, <2>2, <2>3, <2>4 DEF DataResetOnce
<1> QED
  BY <1>1, RecursionInvariant, PTL

(***************************************************************************)
(* Two levels that have come to the same time are synchronized exactly     *)
(* once before either steps on, whichever level does it.                   *)
(***************************************************************************)
THEOREM LevelsAreSyncedOnce == Spec /\ []Positive => []SyncedOnce
<1>1. RecursionInv => SyncedOnce
  <2> SUFFICES ASSUME RecursionInv PROVE SyncedOnce
    OBVIOUS
  <2>1. \A l \in Levels : data.unsynced[l] = IF ToSync(l) THEN 1 ELSE 0
    BY DEF RecursionInv, Syncs
  <2>2. at \in Nat /\ MaxLevels \in Nat
    BY HierarchyFacts, LevelsType DEF RecursionInv
  <2>3. pos = "step" => \A l \in Levels : l >= at => ~ToSync(l)
    BY <2>2, LevelsType DEF ToSync, Looping
  <2>4. pos = "idle" => \A l \in Levels : ~ToSync(l)
    BY DEF ToSync, Looping
  <2>5. \A l \in at .. MaxLevels - 1 : l \in Levels /\ l >= at
    BY <2>2, LevelsType
  <2> QED
    BY <2>1, <2>3, <2>4, <2>5 DEF SyncedOnce
<1> QED
  BY <1>1, RecursionInvariant, PTL

(***************************************************************************)
(* New levels are matched with the coarser ones at once, and the data of   *)
(* all levels concerned is then reset, as synchronizeNewLevels() needs it. *)
(***************************************************************************)
THEOREM NewLevelsAreMatched == Spec /\ []Positive => []NewLevelsMatched
<1>1. RecursionInv => NewLevelsMatched
  BY DEF RecursionInv, Resets, NewLevelsMatched
<1> QED
  BY <1>1, RecursionInvariant, PTL

(***************************************************************************)
(* No level makes more steps than the regrid interval without a regridding *)
(* of the finer ones, although a coarser level regrids in its place when   *)
(* both are due: see lastLevelStep() and coarserLevelRegridsToo().         *)
(***************************************************************************)
THEOREM RegriddingIsOnTime == Spec /\ []Positive => []RegridOnTime
<1>1. RecursionInv => RegridOnTime
  <2> SUFFICES ASSUME RecursionInv, NEW l \in levels, levelCanBeRefined(l)
               PROVE  /\ data.since[l] <= regrid_interval(l)
                      /\ pos = "step" /\ at = l => data.since[l] < regrid_interval(l)
    BY DEF RegridOnTime
  <2>1. /\ l \in Levels /\ l \in Nat /\ at \in Nat /\ Interval \in 1 .. 3
        /\ regrid_interval(l) = Interval
        /\ level[l].step \in Nat /\ level[0].step \in Nat
    <3>1. Typed /\ l \in Levels
      BY LevelsType DEF RecursionInv, Typed, Nested
    <3>2. level[l] \in LevelType /\ level[0] \in LevelType
      BY <3>1, HierarchyFacts, LevelsType
    <3> QED
      BY <3>1, <3>2, HierarchyFacts, LevelsType DEF LevelType
  <2>2. Sinces /\ (pos \in {"idle", "return"} => at = 0)
    BY DEF RecursionInv, Placed
  <2>3. CASE l <= at /\ Looping /\ ~Before(l)
    <3>1. data.since[l] = ((Counted(l) - 1) % Interval) + 1
      BY <2>1, <2>2, <2>3 DEF Sinces
    <3> DEFINE m == Counted(l) - 1
    <3>2. m \in Int
      BY <2>1 DEF Counted
    <3> HIDE DEF m
    <3>3. (m % Interval) + 1 <= Interval
      BY <3>2, <2>1
    <3>4. ~(pos = "step" /\ at = l)
      BY <2>3 DEF Before
    <3> QED
      BY <3>1, <3>3, <3>4, <2>1 DEF m
  <2>4. CASE l = at /\ pos \in {"idle", "step", "return"}
    <3>1. data.since[l] = (level[l].step % Interval)
      BY <2>1, <2>2, <2>4 DEF Sinces
    <3>2. (level[l].step % Interval) < Interval
      BY <2>1
    <3>3. (level[l].step % Interval) \in Nat
      BY <2>1
    <3> QED
      BY <3>1, <3>2, <3>3, <2>1
  <2>5. CASE l > at
    BY <2>1, <2>2, <2>5 DEF Sinces
  <2>6. \/ l <= at /\ Looping /\ ~Before(l)
        \/ l = at /\ pos \in {"idle", "step", "return"}
        \/ l > at
    <3>1. l <= at \/ l > at
      BY <2>1
    <3>2. CASE Looping
      <4>1. Before(l) => l = at /\ pos \in {"idle", "step", "return"}
        BY DEF Before
      <4> QED
        <5>1. CASE Before(l)
          BY <4>1, <5>1
        <5>2. CASE ~Before(l)
          BY <3>1, <3>2, <5>2
        <5> QED
          BY <5>1, <5>2
    <3>3. CASE ~Looping
      <4>1. pos \in {"idle", "return"}
        BY <3>3 DEF RecursionInv, Typed, Looping
      <4>2. l = at \/ l > at
        BY <4>1, <2>1, <2>2
      <4> QED
        BY <4>1, <4>2
    <3> QED
      BY <3>2, <3>3
  <2> QED
    BY <2>3, <2>4, <2>5, <2>6
<1> QED
  BY <1>1, RecursionInvariant, PTL

(***************************************************************************)
(* The steps of a level end at the time of the next coarser one, are no    *)
(* longer than the level integrator allows, and the first step of a new    *)
(* level is made with an increment of its own:                             *)
(* findNextDtAndStepsRemaining() and the lines around it.                  *)
(***************************************************************************)
THEOREM StepsDoFit == Spec /\ []Positive => []StepsFit
<1>1. RecursionInv => StepsFit
  <2> SUFFICES ASSUME RecursionInv PROVE StepsFit
    OBVIOUS
  <2>1. Timed /\ Unsets /\ at \in Nat
    BY HierarchyFacts DEF RecursionInv
  <2>2. pos = "step" => at \notin data.unset
    BY <2>1 DEF Unsets
  <2>3. \A l \in 1 .. at : level[l].end_time = level[l - 1].new_time
    BY <2>1 DEF Timed
  <2>4. ASSUME pos = "step"
        PROVE  level[at].sim_time < level[at].end_time /\ level[at].dt_actual <= level[at].dt_max
    <3>1. CASE at = 0
      BY <2>1, <2>4, <3>1 DEF Timed
    <3>2. CASE at > 0
      <4>1. at \in 1 .. at /\ Before(at)
        BY <2>1, <2>4, <3>2 DEF Before
      <4> QED
        BY <4>1, <2>1 DEF Timed, Ready
    <3> QED
      BY <3>1, <3>2, <2>1
  <2>5. pos = "sync" =>
           \A l \in levels \ data.unset : l > at => level[l].sim_time = level[at].new_time
    BY <2>1 DEF Timed
  <2> QED
    BY <2>2, <2>3, <2>4, <2>5 DEF StepsFit
<1> QED
  BY <1>1, RecursionInvariant, PTL

=============================================================================
