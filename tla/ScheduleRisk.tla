---------------------------- MODULE ScheduleRisk ----------------------------
(***************************************************************************)
(* The slippage sample of schedule_analytics.py and the schedule risk that *)
(* evaluate_risks makes of it, while days pass and activities start and    *)
(* finish.  Dates are days, 0 is none.  Numbers with decimals are integers *)
(* of a finer unit; the gap to the baseline, which adds to the impact, is  *)
(* left out.                                                               *)
(***************************************************************************)
EXTENDS Integers, FiniteSets, FiniteSetsExt

CONSTANTS
    Plan,           \* activity -> planned_start, planned_finish, critical
    MaxDay          \* bounds the clock

VARIABLES
    today,
    actual          \* activity -> actual_start, actual_finish

riskVars == <<today, actual>>
Activity == DOMAIN Plan

ASSUME RiskAssumption ==
    /\ IsFiniteSet(Activity)
    /\ \A a \in Activity : Plan[a] \in [start : Nat, finish : Nat, critical : BOOLEAN]
    /\ MaxDay \in Nat \ {0}

RiskInit ==
    /\ today = 1
    /\ actual = [a \in Activity |-> [start |-> 0, finish |-> 0]]

ClockGoesOn ==
    /\ today < MaxDay
    /\ today' = today + 1
    /\ UNCHANGED actual

ActivityStarts(a) ==
    /\ actual[a].start = 0
    /\ actual' = [actual EXCEPT ![a].start = today]
    /\ UNCHANGED today

ActivityFinishes(a) ==
    /\ actual[a].start > 0 /\ actual[a].finish = 0
    /\ actual' = [actual EXCEPT ![a].finish = today]
    /\ UNCHANGED today

RiskNext ==
    \/ ClockGoesOn
    \/ \E a \in Activity : ActivityStarts(a) \/ ActivityFinishes(a)

RiskSpec == RiskInit /\ [][RiskNext]_riskVars
-----------------------------------------------------------------------------
\* collect_schedule_sample: what has no planned finish is not measured.
Measured == {a \in Activity : Plan[a].finish > 0}

slip_days(a) ==
    CASE actual[a].finish > 0 -> actual[a].finish - Plan[a].finish
      [] actual[a].finish = 0 /\ today > Plan[a].finish -> today - Plan[a].finish
      [] actual[a].finish = 0 /\ today <= Plan[a].finish ->
            IF Plan[a].start > 0 THEN Max({0, actual[a].start - Plan[a].start}) ELSE 0

late_activities == {a \in Measured : slip_days(a) > 0}
critical_late == {a \in late_activities : Plan[a].critical}

Share(unit, part, whole) ==
    IF whole = {} THEN 0 ELSE (unit * Cardinality(part)) \div Cardinality(whole)

\* evaluate_risks: 0.15, 0.6 of the share that is late and 0.2 of the share of
\* it that is critical, at most 0.95, in parts of 600 (exact up to six
\* activities); 0.1 and 1/45 for each day of critical slip, in parts of 90.
probability ==
    Min({570, 90 + Share(360, late_activities, Measured)
                 + Share(120, critical_late, late_activities)})

critical_slip_mean ==
    IF critical_late = {} THEN 0
    ELSE MapThenSumSet(slip_days, critical_late) \div Cardinality(critical_late)

critical_slip == Max({0} \cup {slip_days(a) : a \in critical_late})
impact_of_slip == Min({90, 9 + 2 * critical_slip})
-----------------------------------------------------------------------------
RiskTypeOK ==
    /\ today \in 1 .. MaxDay
    /\ actual \in [Activity -> [start : 0 .. MaxDay, finish : 0 .. MaxDay]]

\* An activity that started late is measured by its start until its planned
\* finish, and by the days since from then on: its slip starts again at one.
StartsAgain(a) == today = Plan[a].finish /\ actual[a].finish = 0

\* As days pass and work is reported, delay does not fade from the numbers: no
\* day that passes lowers a slip but that of a late start at its planned
\* finish; and while no slip falls and what becomes late is critical, neither
\* the probability nor the impact of the schedule risk falls.  Work that is
\* not critical and becomes late may lower the probability.
RiskFollowsDelay ==
    [][/\ today' > today =>
             \A a \in Measured : slip_days(a)' >= slip_days(a) \/ StartsAgain(a)
       /\ (/\ today' > today \/ actual' # actual
           /\ \A a \in Measured : slip_days(a)' >= slip_days(a)
           /\ late_activities' \ late_activities \subseteq critical_late') =>
             probability' >= probability /\ impact_of_slip' >= impact_of_slip]_riskVars
=============================================================================
