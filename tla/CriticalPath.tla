---------------------------- MODULE CriticalPath ----------------------------
(***************************************************************************)
(* services/cpm.py: the critical path analysis of one imported schedule.   *)
(*                                                                         *)
(* A schedule is a record of its activities, their durations and measured  *)
(* slips in days, and its links.  The code walks one topological order,    *)
(* that of Kahn's queue; here a pass takes any activity whose              *)
(* predecessors (successors, going back) it has finished, so what is shown *)
(* holds for every such order.  Days are integers: rounding to two         *)
(* decimals is left out.  An import may list a predecessor more than once; *)
(* `place` is a link's position in its activity's list.                    *)
(***************************************************************************)
EXTENDS Integers, FiniteSets, FiniteSetsExt, Functions

CONSTANTS
    Schedules,      \* the schedules that may be imported
    NoActivity      \* the excluded activity of the full propagation

LINK_TYPES == {"FS", "SS", "FF", "SF"}

IsSchedule(s) ==
    /\ IsFiniteSet(s.activities) /\ NoActivity \notin s.activities
    /\ s.duration \in [s.activities -> Nat]
    /\ s.slip \in [s.activities -> Nat]
    /\ IsFiniteSet(s.links)
    /\ s.links \subseteq [from : s.activities, to : s.activities,
                          type : LINK_TYPES, lag : Int, place : Nat]
    /\ \A k, l \in s.links : k.to = l.to /\ k.place = l.place => k = l

ASSUME SchedulesAssumption == \A s \in Schedules : IsSchedule(s)

VARIABLES
    net,            \* the schedule under analysis
    pass,           \* where compute and propagate_delay are
    done,           \* the activities the current pass has finished
    early,          \* activity -> early start
    finish,         \* the project finish of the forward pass
    late,           \* activity -> late finish
    free,           \* activity -> free float
    pushed          \* excluded activity -> activity -> delay handed on

cpVars == <<net, pass, done, early, finish, late, free, pushed>>

Act == net.activities
In(a) == {l \in net.links : l.to = a}
Out(a) == {l \in net.links : l.from = a}

\* Going back, only the first link between two activities is looked up.
First(l) == \A k \in net.links : k.from = l.from /\ k.to = l.to => l.place <= k.place
Read(a) == {l \in Out(a) : First(l)}

Slipping == {a \in Act : net.slip[a] > 0}
Trials == Slipping \cup {NoActivity}

early_finish(a) == early[a] + net.duration[a]
late_start(a) == late[a] - net.duration[a]
total_float(a) == late_start(a) - early[a]
is_critical(a) == total_float(a) <= 0

CPInit ==
    /\ net \in Schedules
    /\ pass = "build"
    /\ done = {}
    /\ early = [a \in Act |-> 0]
    /\ finish = 0
    /\ late = [a \in Act |-> 0]
    /\ free = [a \in Act |-> 0]
    /\ pushed = [x \in Trials |-> [a \in Act |-> 0]]

\* What Kahn's algorithm leaves over: activities that wait for each other.
Cycle == UNION {S \in SUBSET Act : \A a \in S : \E l \in In(a) : l.from \in S}

\* No activities, no logic and circular logic are answers of their own.
Blocked == net.links = {} \/ Cycle # {}

Build ==
    /\ pass = "build"
    /\ pass' = IF Blocked THEN "blocked" ELSE "forward"
    /\ UNCHANGED <<net, done, early, finish, late, free, pushed>>
-----------------------------------------------------------------------------
(* The forward pass: the earliest start that every link into a allows.     *)
Candidate(l) ==
    CASE l.type = "FS" -> early_finish(l.from) + l.lag
      [] l.type = "SS" -> early[l.from] + l.lag
      [] l.type = "FF" -> early_finish(l.from) + l.lag - net.duration[l.to]
      [] l.type = "SF" -> early[l.from] + l.lag - net.duration[l.to]

Forward(a) ==
    /\ pass = "forward" /\ a \notin done
    /\ \A l \in In(a) : l.from \in done
    /\ early' = [early EXCEPT ![a] = Max({0} \cup {Candidate(l) : l \in In(a)})]
    /\ done' = done \cup {a}
    /\ UNCHANGED <<net, pass, finish, late, free, pushed>>

ForwardEnds ==
    /\ pass = "forward" /\ done = Act
    /\ finish' = Max({early_finish(a) : a \in Act})
    /\ late' = [a \in Act |-> finish']
    /\ pass' = "backward" /\ done' = {}
    /\ UNCHANGED <<net, early, free, pushed>>

(* The backward pass.  Only finish-to-start links carry their lag and the  *)
(* successor's start; every other type hands on the successor's finish.    *)
LatestWithoutLag(l) == IF l.type = "FS" THEN late_start(l.to) ELSE late[l.to]

Latest(l) == IF l.type = "FS" THEN late_start(l.to) - l.lag ELSE late[l.to]

Backward(a) ==
    /\ pass = "backward" /\ a \notin done
    /\ \A l \in Out(a) : l.to \in done
    /\ late' = [late EXCEPT ![a] =
                    IF Out(a) = {} THEN @ ELSE Min({Latest(l) : l \in Read(a)})]
    /\ done' = done \cup {a}
    /\ UNCHANGED <<net, pass, early, finish, free, pushed>>

(* The slack before the earliest successor, whatever the link's type.      *)
Gap(l) == early[l.to] - (early_finish(l.from) + l.lag)

free_float_total(a) == total_float(a)

free_float(a) ==
    IF Out(a) = {} THEN total_float(a)
    ELSE Max({0, Min({Gap(l) : l \in Read(a)})})

BackwardEnds ==
    /\ pass = "backward" /\ done = Act
    /\ free' = [a \in Act |-> free_float(a)]
    /\ pass' = "propagate" /\ done' = {}
    /\ UNCHANGED <<net, early, finish, late, pushed>>
-----------------------------------------------------------------------------
(* propagate_delay: once with every slip, and once without each of them.   *)
Slip(x, a) == IF a = x THEN 0 ELSE net.slip[a]

Incoming(x, a) == Max({0} \cup {pushed[x][l.from] : l \in In(a)})

HandedOn(x, a) == Max({0, Incoming(x, a) + Slip(x, a) - free[a]})

Propagate(a) ==
    /\ pass = "propagate" /\ a \notin done
    /\ \A l \in In(a) : l.from \in done
    /\ pushed' = [x \in Trials |-> [pushed[x] EXCEPT ![a] = HandedOn(x, a)]]
    /\ done' = done \cup {a}
    /\ UNCHANGED <<net, pass, early, finish, late, free>>

PropagateEnds ==
    /\ pass = "propagate" /\ done = Act
    /\ pass' = "reported"
    /\ UNCHANGED <<net, done, early, finish, late, free, pushed>>

impact(x) == Max({0} \cup {pushed[x][a] : a \in {b \in Act : Out(b) = {}}})

project_impact_days == impact(NoActivity)
contribution(a) == project_impact_days - impact(a)

CPNext ==
    \/ Build
    \/ \E a \in Act : Forward(a)
    \/ ForwardEnds
    \/ \E a \in Act : Backward(a)
    \/ BackwardEnds
    \/ \E a \in Act : Propagate(a)
    \/ PropagateEnds

CPSpec == CPInit /\ [][CPNext]_cpVars
-----------------------------------------------------------------------------
Computed == pass \in {"backward", "propagate", "reported"}

CPTypeOK ==
    /\ net \in Schedules
    /\ pass \in {"build", "blocked", "forward", "backward", "propagate", "reported"}
    /\ done \subseteq Act
    /\ early \in [Act -> Nat]
    /\ finish \in Nat
    /\ late \in [Act -> Int]
    /\ free \in [Act -> Int]
    /\ pushed \in [Trials -> [Act -> Nat]]

\* What each type of link asks of the dates of the two activities it joins.
Honoured(l) ==
    CASE l.type = "FS" -> early[l.to] >= early_finish(l.from) + l.lag
      [] l.type = "SS" -> early[l.to] >= early[l.from] + l.lag
      [] l.type = "FF" -> early_finish(l.to) >= early_finish(l.from) + l.lag
      [] l.type = "SF" -> early_finish(l.to) >= early[l.from] + l.lag

\* The project finish when activities take longer by `extra`, by definition
\* and not by passes: the reference for float and for propagated delay.
FinishWith(extra) ==
    LET start[a \in Act] ==
            LET end(p) == start[p] + net.duration[p] + extra[p]
                own == net.duration[a] + extra[a]
            IN  Max({0} \cup {CASE l.type = "FS" -> end(l.from) + l.lag
                                [] l.type = "SS" -> start[l.from] + l.lag
                                [] l.type = "FF" -> end(l.from) + l.lag - own
                                [] l.type = "SF" -> start[l.from] + l.lag - own
                              : l \in In(a)})
    IN  Max({start[a] + net.duration[a] + extra[a] : a \in Act})

Longer(a, days) == [b \in Act |-> IF b = a THEN days ELSE 0]

\* Logic of finish-to-start links without leads, which the code's comment
\* calls the overwhelming majority, and without repeated links.
Plain ==
    /\ \A l \in net.links : l.type = "FS" /\ l.lag >= 0
    /\ \A k, l \in net.links : k.from = l.from /\ k.to = l.to => k = l

\* Every activity is as far from each of those that follow it, as it is when
\* at most one does.
OneGap == \A k, l \in net.links : k.from = l.from => Gap(k) = Gap(l)

\* The dates are those the logic asks for: early dates respect every link, of
\* any of the four types, although each was set once from predecessors set
\* before; and on plain logic the float of an activity is exactly what it can
\* be prolonged by - all of it leaves the project finish alone, one day more
\* moves it by one day - so that the critical path is where each day counts.
DatesAreExact ==
    /\ Computed => \A l \in net.links : Honoured(l)
    /\ pass = "reported" /\ Plain =>
        \A a \in Act :
            /\ total_float(a) >= 0
            /\ FinishWith(Longer(a, total_float(a))) = finish
            /\ FinishWith(Longer(a, total_float(a) + 1)) = finish + 1
            /\ is_critical(a) <=> FinishWith(Longer(a, 1)) > finish

\* How much of the measured slips reaches the project finish (cpm.py:298-301).
\* On plain logic the reported impact never understates how far they move it,
\* and it is exactly that where every activity has one gap; where it has
\* several, all of the delay is handed to each successor and the impact may
\* overstate the move.  On any logic the impact does not exceed the slip that
\* was measured, and no activity is held responsible for more of it than its
\* own slip.
ImpactIsRight ==
    pass = "reported" =>
        /\ Plain => FinishWith(net.slip) - finish <= project_impact_days
        /\ Plain /\ OneGap => FinishWith(net.slip) - finish = project_impact_days
        /\ project_impact_days <= FoldFunctionOnSet(+, 0, net.slip, Act)
        /\ \A a \in Slipping : contribution(a) \in 0..net.slip[a]
=============================================================================
