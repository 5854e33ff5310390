--------------------------- MODULE ScheduleProofs ---------------------------
(***************************************************************************)
(* Theorems about the schedule: the dates of the critical path, the delay  *)
(* that is handed on along it, and the risk that is made of the slips.     *)
(***************************************************************************)
EXTENDS CriticalPath, ScheduleRisk, DataLemmas

-----------------------------------------------------------------------------
(* The schedule risk, for any plan of finitely many activities.  A share   *)
(* does not fall when what is added to the whole is also added to the      *)
(* part, and a maximum does not fall when nothing below it does.           *)

LEMMA RiskTypes == RiskSpec => []RiskTypeOK
<1>1. RiskInit => RiskTypeOK
  BY RiskAssumption DEF RiskInit, RiskTypeOK
<1>2. RiskTypeOK /\ [RiskNext]_riskVars => RiskTypeOK'
  <2> SUFFICES ASSUME RiskTypeOK, [RiskNext]_riskVars PROVE RiskTypeOK'
    OBVIOUS
  <2>1. CASE ClockGoesOn
    BY <2>1, RiskAssumption DEF ClockGoesOn, RiskTypeOK
  <2>2. ASSUME NEW a \in Activity, ActivityStarts(a) PROVE RiskTypeOK'
    <3>1. [actual[a] EXCEPT !.start = today] \in [start : 0 .. MaxDay, finish : 0 .. MaxDay]
      BY RiskAssumption DEF RiskTypeOK
    <3>2. actual' = [actual EXCEPT ![a] = [actual[a] EXCEPT !.start = today]]
      BY <2>2 DEF ActivityStarts
    <3>3. QED
      BY <2>2, <3>1, <3>2 DEF ActivityStarts, RiskTypeOK
  <2>3. ASSUME NEW a \in Activity, ActivityFinishes(a) PROVE RiskTypeOK'
    <3>1. [actual[a] EXCEPT !.finish = today] \in [start : 0 .. MaxDay, finish : 0 .. MaxDay]
      BY RiskAssumption DEF RiskTypeOK
    <3>2. actual' = [actual EXCEPT ![a] = [actual[a] EXCEPT !.finish = today]]
      BY <2>3 DEF ActivityFinishes
    <3>3. QED
      BY <2>3, <3>1, <3>2 DEF ActivityFinishes, RiskTypeOK
  <2>4. CASE UNCHANGED riskVars
    BY <2>4 DEF riskVars, RiskTypeOK
  <2>5. QED
    BY <2>1, <2>2, <2>3, <2>4 DEF RiskNext
<1>3. QED
  BY <1>1, <1>2, PTL DEF RiskSpec

\* A slip is a number of days within the clock.
LEMMA SlipIs ==
    ASSUME RiskTypeOK, NEW a \in Activity
    PROVE  slip_days(a) \in Int /\ slip_days(a) <= MaxDay
<1>1. /\ actual[a].start \in 0 .. MaxDay /\ actual[a].finish \in 0 .. MaxDay
      /\ today \in 1 .. MaxDay /\ MaxDay \in Nat /\ Plan[a].start \in Nat
      /\ Plan[a].finish \in Nat
  BY RiskAssumption DEF RiskTypeOK
<1>2. Max({0, actual[a].start - Plan[a].start}) \in 0 .. MaxDay
  <2> DEFINE d == actual[a].start - Plan[a].start
  <2>1. d \in Int /\ d <= MaxDay
    BY <1>1
  <2> HIDE DEF d
  <2>2. Max({0, d}) = IF d <= 0 THEN 0 ELSE d
    BY <2>1, GreaterIs
  <2>3. QED
    BY <1>1, <2>1, <2>2 DEF d
<1> DEFINE m == Max({0, actual[a].start - Plan[a].start})
<1>3. slip_days(a) = IF actual[a].finish > 0 THEN actual[a].finish - Plan[a].finish
                     ELSE IF today > Plan[a].finish THEN today - Plan[a].finish
                     ELSE IF Plan[a].start > 0 THEN m ELSE 0
  BY <1>1 DEF slip_days
<1> HIDE DEF m
<1>4. QED
  BY <1>1, <1>2, <1>3 DEF m

\* A day that passes lowers no slip but that of a late start at its planned
\* finish.
LEMMA DayIsKept ==
    ASSUME RiskTypeOK, ClockGoesOn, NEW a \in Measured
    PROVE  slip_days(a)' >= slip_days(a) \/ StartsAgain(a)
<1> DEFINE m == Max({0, actual[a].start - Plan[a].start})
           value(when) == IF actual[a].finish > 0 THEN actual[a].finish - Plan[a].finish
                         ELSE IF when > Plan[a].finish THEN when - Plan[a].finish
                         ELSE IF Plan[a].start > 0 THEN m ELSE 0
<1>1. /\ a \in Activity /\ actual[a].finish \in Nat /\ actual[a].start \in Nat
      /\ today \in Nat /\ Plan[a].start \in Nat /\ Plan[a].finish \in Nat
      /\ today' = today + 1 /\ actual' = actual
  BY RiskAssumption DEF RiskTypeOK, Measured, ClockGoesOn
<1>2. slip_days(a) = value(today)
  BY <1>1 DEF slip_days
<1>3. slip_days(a)' = value(today')
  BY <1>1 DEF slip_days
<1>4. slip_days(a) \in Int
  BY <1>1, SlipIs
<1> HIDE DEF m
<1>5. CASE actual[a].finish > 0
  BY <1>1, <1>2, <1>3, <1>4, <1>5
<1>6. CASE actual[a].finish = 0 /\ today > Plan[a].finish
  BY <1>1, <1>2, <1>3, <1>6
<1>7. CASE actual[a].finish = 0 /\ today < Plan[a].finish
  BY <1>1, <1>2, <1>3, <1>4, <1>7
<1>8. CASE actual[a].finish = 0 /\ today = Plan[a].finish
  BY <1>8 DEF StartsAgain
<1>9. QED
  BY <1>1, <1>5, <1>6, <1>7, <1>8

\* The share of a part of a finite set is within its unit, and does not fall
\* when what the set gains the part gains.
LEMMA ShareIs ==
    ASSUME NEW unit \in Nat, NEW W, IsFiniteSet(W), NEW P, P \subseteq W
    PROVE  Share(unit, P, W) \in Nat
<1>1. Cardinality(P) \in Nat /\ Cardinality(W) \in Nat /\ (W # {} => Cardinality(W) # 0)
  BY FS_Subset, FS_CardinalityType, FS_EmptySet
<1>2. unit * Cardinality(P) \in Nat
  BY <1>1
<1>3. QED
  BY <1>1, <1>2, QuotientIs DEF Share

LEMMA ShareGrows ==
    ASSUME NEW unit \in Nat, NEW W, NEW V, IsFiniteSet(V), W \subseteq V,
           NEW P, P \subseteq W, NEW Q, P \subseteq Q, Q \subseteq V, V \ W \subseteq Q
    PROVE  Share(unit, P, W) <= Share(unit, Q, V)
<1> DEFINE p == Cardinality(P)
           q == Cardinality(Q)
           w == Cardinality(W)
           v == Cardinality(V)
           new == Cardinality(V \ W)
<1>1. /\ IsFiniteSet(W) /\ IsFiniteSet(P) /\ IsFiniteSet(Q) /\ IsFiniteSet(V \ W)
  BY FS_Subset
<1>2. p \in Nat /\ q \in Nat /\ w \in Nat /\ v \in Nat /\ new \in Nat /\ p <= w
  BY <1>1, FS_CardinalityType, FS_Subset
<1>3. v = w + new
  <2>1. W \cup (V \ W) = V /\ W \cap (V \ W) = {}
    OBVIOUS
  <2>2. Cardinality(W \cup (V \ W)) = w + new - Cardinality({})
    BY <1>1, <2>1, FS_Union
  <2>3. v = Cardinality(W \cup (V \ W)) /\ Cardinality({}) = 0
    BY <2>1, FS_EmptySet, Zenon
  <2>4. QED
    BY <1>2, <2>2, <2>3
<1>4. p + new <= q
  <2>1. P \cap (V \ W) = {} /\ P \cup (V \ W) \subseteq Q
    OBVIOUS
  <2>2. Cardinality(P \cup (V \ W)) = p + new
    BY <1>1, <1>2, <2>1, FS_Union, FS_EmptySet
  <2>3. Cardinality(P \cup (V \ W)) <= q
    BY <1>1, <2>1, FS_Subset
  <2>4. QED
    BY <2>2, <2>3
<1>5. CASE W = {}
  <2>1. Share(unit, P, W) = 0
    BY <1>5 DEF Share
  <2>2. Share(unit, Q, V) \in Nat
    BY ShareIs
  <2>3. QED
    BY <2>1, <2>2
<1>6. CASE W # {}
  <2>1. V # {} /\ w # 0 /\ v # 0
    BY <1>1, <1>6, FS_EmptySet
  <2>2. Share(unit, P, W) = (unit * p) \div w /\ Share(unit, Q, V) = (unit * q) \div v
    BY <1>6, <2>1 DEF Share
  <2> HIDE DEF p, q, w, v, new
  <2>3. p * v <= q * w
    <3>1. p * v = p * w + new * p
      BY <1>2, <1>3
    <3>2. p * new <= w * new
      BY <1>2, ProductGrows
    <3>3. (p + new) * w <= q * w
      BY <1>2, <1>4, ProductGrows
    <3>4. (p + new) * w = p * w + new * w /\ new * p = p * new /\ w * new = new * w
      BY <1>2
    <3>5. QED
      BY <1>2, <3>1, <3>2, <3>3, <3>4
  <2>4. (unit * p) * v <= (unit * q) * w
    <3>1. (p * v) * unit <= (q * w) * unit
      BY <1>2, <2>3, ProductGrows
    <3>2. (p * v) * unit = (unit * p) * v /\ (q * w) * unit = (unit * q) * w
      BY <1>2
    <3>3. QED
      BY <3>1, <3>2
  <2>5. unit * p \in Nat /\ unit * q \in Nat
    BY <1>2
  <2>6. QED
    BY <1>2, <2>1, <2>2, <2>4, <2>5, QuotientGrows
<1>7. QED
  BY <1>5, <1>6

SlipsWithin == \A a \in Activity : slip_days(a) \in Int /\ slip_days(a) <= MaxDay

LEMMA SlipsAre == RiskTypeOK => SlipsWithin
BY SlipIs DEF SlipsWithin

\* The worst critical slip is one of them, or none.
WorstOfAll ==
    /\ critical_slip \in {0} \cup {slip_days(a) : a \in critical_late}
    /\ critical_slip \in Nat
    /\ \A a \in critical_late : slip_days(a) <= critical_slip

LEMMA WorstIs == RiskTypeOK => WorstOfAll
<1> SUFFICES ASSUME RiskTypeOK PROVE WorstOfAll
  OBVIOUS
<1> DEFINE S == {0} \cup {slip_days(a) : a \in critical_late}
<1>1. \A a \in critical_late : slip_days(a) \in Nat /\ slip_days(a) <= MaxDay
  BY SlipIs DEF critical_late, late_activities, Measured
<1>2. S \subseteq Nat /\ S # {} /\ MaxDay \in Nat /\ \A n \in S : n <= MaxDay
  BY <1>1, RiskAssumption
<1>3. critical_slip = Max(S)
  BY DEF critical_slip
<1>4. \A a \in critical_late : slip_days(a) \in S
  OBVIOUS
<1> HIDE DEF S
<1>5. Max(S) \in S /\ \A n \in S : n <= Max(S)
  BY <1>2, GreatestIsIn
<1>6. QED
  BY <1>2, <1>3, <1>4, <1>5 DEF S, WorstOfAll

\* While no slip falls and what becomes late is critical, the risk does not.
LEMMA RiskGrows ==
    ASSUME RiskTypeOK, RiskTypeOK', \A a \in Measured : slip_days(a)' >= slip_days(a),
           late_activities' \ late_activities \subseteq critical_late'
    PROVE  probability' >= probability /\ impact_of_slip' >= impact_of_slip
<1>1. \A a \in Measured : slip_days(a) \in Int /\ slip_days(a)' \in Int
  <2>1. ASSUME NEW a \in Measured PROVE slip_days(a) \in Int /\ slip_days(a)' \in Int
    <3>1. a \in Activity
      BY DEF Measured
    <3>2. slip_days(a) \in Int
      BY <3>1, SlipIs
    <3>3. slip_days(a)' \in Int
      <4>1. SlipsWithin'
        BY SlipsAre, PTL
      <4>2. QED
        BY <3>1, <4>1 DEF SlipsWithin
    <3>4. QED
      BY <3>2, <3>3
  <2>2. QED
    BY <2>1
<1>2. /\ late_activities \subseteq late_activities' /\ late_activities' \subseteq Measured
      /\ critical_late \subseteq critical_late' /\ critical_late \subseteq late_activities
      /\ critical_late' \subseteq late_activities'
  <2>1. Measured' = Measured
    BY DEF Measured
  <2>2. late_activities' = {a \in Measured : slip_days(a)' > 0}
    BY <2>1 DEF late_activities
  <2>3. late_activities = {a \in Measured : slip_days(a) > 0}
    BY DEF late_activities
  <2>4. late_activities \subseteq late_activities'
    BY <1>1, <2>2, <2>3
  <2>5. /\ critical_late' = {a \in late_activities' : Plan[a].critical}
        /\ critical_late = {a \in late_activities : Plan[a].critical}
    BY DEF critical_late
  <2>6. QED
    BY <2>2, <2>3, <2>4, <2>5
<1>3. IsFiniteSet(Measured) /\ IsFiniteSet(late_activities) /\ IsFiniteSet(late_activities')
  BY <1>2, RiskAssumption, FS_Subset DEF Measured
<1>4. probability' >= probability
  <2> DEFINE s1 == Share(360, late_activities, Measured)
             s2 == Share(120, critical_late, late_activities)
             t1 == Share(360, late_activities', Measured)
             t2 == Share(120, critical_late', late_activities')
  <2>1. s1 <= t1
    BY <1>2, <1>3, ShareGrows
  <2>2. s2 <= t2
    BY <1>2, <1>3, ShareGrows
  <2>3. s1 \in Nat /\ s2 \in Nat /\ t1 \in Nat /\ t2 \in Nat
    BY <1>2, <1>3, ShareIs
  <2>4. probability = Min({570, 90 + s1 + s2}) /\ probability' = Min({570, 90 + t1 + t2})
    BY DEF probability, Share, Measured
  <2> HIDE DEF s1, s2, t1, t2
  <2>5. /\ Min({570, 90 + s1 + s2}) = IF 570 <= 90 + s1 + s2 THEN 570 ELSE 90 + s1 + s2
        /\ Min({570, 90 + t1 + t2}) = IF 570 <= 90 + t1 + t2 THEN 570 ELSE 90 + t1 + t2
    BY <2>3, LesserIs
  <2>6. QED
    BY <2>1, <2>2, <2>3, <2>4, <2>5
<1>5. critical_slip \in Nat /\ critical_slip' \in Nat /\ critical_slip <= critical_slip'
  <2>1. /\ critical_slip \in {0} \cup {slip_days(a) : a \in critical_late}
        /\ critical_slip \in Nat
    BY WorstIs DEF WorstOfAll
  <2>2. /\ critical_slip' \in Nat
        /\ \A a \in critical_late' : slip_days(a)' <= critical_slip'
    <3>1. WorstOfAll'
      BY WorstIs, PTL
    <3>2. QED
      BY <3>1 DEF WorstOfAll
  <2>3. CASE critical_slip = 0
    BY <2>1, <2>2, <2>3
  <2>4. ASSUME NEW a \in critical_late, critical_slip = slip_days(a)
        PROVE  critical_slip <= critical_slip'
    <3>1. a \in critical_late' /\ a \in Measured
      BY <1>2 DEF late_activities
    <3>2. QED
      BY <1>1, <2>2, <2>4, <3>1
  <2>5. QED
    BY <2>1, <2>2, <2>3, <2>4
<1>6. impact_of_slip' >= impact_of_slip
  <2>1. impact_of_slip = Min({90, 9 + 2 * critical_slip})
        /\ impact_of_slip' = Min({90, 9 + 2 * critical_slip'})
    BY DEF impact_of_slip
  <2>2. \A n \in Nat : Min({90, 9 + 2 * n}) = IF 90 <= 9 + 2 * n THEN 90 ELSE 9 + 2 * n
    BY LesserIs
  <2>3. QED
    BY <1>5, <2>1, <2>2
<1>7. QED
  BY <1>4, <1>6

\* RiskFollowsDelay, for any plan: as days pass and work is reported, delay
\* does not fade from the numbers of evaluate_risks.
THEOREM RiskAlwaysFollowsDelay == RiskSpec => RiskFollowsDelay
<1> DEFINE Follows ==
      /\ today' > today =>
             \A a \in Measured : slip_days(a)' >= slip_days(a) \/ StartsAgain(a)
      /\ (/\ today' > today \/ actual' # actual
          /\ \A a \in Measured : slip_days(a)' >= slip_days(a)
          /\ late_activities' \ late_activities \subseteq critical_late') =>
             probability' >= probability /\ impact_of_slip' >= impact_of_slip
<1>1. RiskTypeOK /\ RiskTypeOK' /\ [RiskNext]_riskVars => [Follows]_riskVars
  <2> SUFFICES ASSUME RiskTypeOK, RiskTypeOK', RiskNext PROVE Follows
    OBVIOUS
  <2>1. ASSUME today' > today PROVE ClockGoesOn
    BY <2>1 DEF RiskNext, ActivityStarts, ActivityFinishes, RiskTypeOK
  <2>2. today' > today => \A a \in Measured : slip_days(a)' >= slip_days(a) \/ StartsAgain(a)
    BY <2>1, DayIsKept
  <2>3. QED
    BY <2>2, RiskGrows
<1>2. RiskFollowsDelay <=> [][Follows]_riskVars
  BY DEF RiskFollowsDelay
<1> HIDE DEF Follows
<1>3. QED
  BY <1>1, <1>2, RiskTypes, PTL DEF RiskSpec
-----------------------------------------------------------------------------
(* The critical path analysis, for any schedules.  A set of activities each *)
(* of which has a predecessor in the set is empty, since there is no cycle,  *)
(* and so is one each of which has a successor in it: this takes the place   *)
(* of induction along the links.                                             *)
Grounded ==
    \A S \in SUBSET Act : (\A a \in S : \E l \in In(a) : l.from \in S) => S = {}

Topped ==
    \A S \in SUBSET Act : (\A a \in S : \E l \in Out(a) : l.to \in S) => S = {}

LEMMA NetIs ==
    ASSUME CPTypeOK
    PROVE  /\ IsFiniteSet(Act) /\ NoActivity \notin Act /\ IsFiniteSet(net.links)
           /\ \A a \in Act : net.duration[a] \in Nat /\ net.slip[a] \in Nat
           /\ \A l \in net.links : /\ l.from \in Act /\ l.to \in Act /\ l.place \in Nat
                                   /\ l.type \in LINK_TYPES /\ l.lag \in Int
<1>1. IsSchedule(net)
  BY SchedulesAssumption DEF CPTypeOK
<1>2. QED
  BY <1>1 DEF IsSchedule, Act

LEMMA LinksAreFinite ==
    ASSUME CPTypeOK, NEW a \in Act
    PROVE  IsFiniteSet(In(a)) /\ IsFiniteSet(Out(a)) /\ IsFiniteSet(Read(a))
<1>1. In(a) \subseteq net.links /\ Out(a) \subseteq net.links /\ Read(a) \subseteq net.links
  BY DEF In, Out, Read
<1>2. QED
  BY <1>1, NetIs, FS_Subset

\* Of the links between two activities one is the first.
LEMMA SomeIsRead ==
    ASSUME CPTypeOK, NEW a \in Act
    PROVE  Read(a) \subseteq Out(a) /\ (Out(a) # {} => Read(a) # {})
<1>1. ASSUME NEW l \in Out(a) PROVE Read(a) # {}
  <2> DEFINE Same == {k \in net.links : k.from = l.from /\ k.to = l.to}
             Spots == {k.place : k \in Same}
  <2>1. l \in Same /\ \A k \in Same : k \in net.links /\ k.place \in Nat
    BY NetIs DEF Out
  <2>2. Spots \subseteq Nat /\ Spots # {}
    <3> HIDE DEF Same
    <3>1. QED
      BY <2>1
  <2>3. PICK n \in Spots : \A m \in Spots : n <= m
    <3> HIDE DEF Spots
    <3>1. QED
      BY <2>2, LeastNatural
  <2>4. PICK k \in Same : k.place = n
    BY <2>3
  <2>5. \A m \in Same : k.place <= m.place
    BY <2>3, <2>4
  <2>6. k \in net.links /\ k.from = a /\ First(k)
    BY <2>4, <2>5 DEF First, Out
  <2>7. QED
    BY <2>6 DEF Read, Out
<1>2. QED
  BY <1>1 DEF Read

LEMMA NoCycleIsGrounded == Cycle = {} => Grounded
<1> SUFFICES ASSUME Cycle = {}, NEW S \in SUBSET Act,
                    \A a \in S : \E l \in In(a) : l.from \in S
             PROVE  S = {}
  BY Zenon DEF Grounded
<1>1. S \subseteq Cycle
  BY Zenon DEF Cycle
<1>2. QED
  BY <1>1

\* A least set whose members have successors in it would be one whose
\* members have predecessors in it.
LEMMA GroundedIsTopped ==
    ASSUME CPTypeOK, Grounded
    PROVE  Topped
<1> DEFINE GoesOn(S) == \A a \in S : \E l \in Out(a) : l.to \in S
           Sizes == {n \in Nat : \E S \in SUBSET Act : S # {} /\ GoesOn(S) /\ Cardinality(S) = n}
<1> SUFFICES ASSUME NEW S \in SUBSET Act, GoesOn(S), S # {}
             PROVE  FALSE
  BY DEF Topped
<1>1. IsFiniteSet(Act)
  BY NetIs
<1>2. Sizes \in SUBSET Nat /\ Sizes # {}
  <2>1. Cardinality(S) \in Nat
    BY <1>1, FS_Subset, FS_CardinalityType
  <2>2. QED
    BY <2>1, Zenon
<1>3. PICK n \in Sizes : \A m \in Sizes : n <= m
  <2> HIDE DEF Sizes
  <2>1. QED
    BY <1>2, LeastNatural
<1>4. PICK R \in SUBSET Act : R # {} /\ GoesOn(R) /\ Cardinality(R) = n
  BY <1>3, Zenon
<1>5. IsFiniteSet(R) /\ n \in Nat
  BY <1>1, <1>3, FS_Subset
<1>6. ASSUME NEW a \in R, \A l \in In(a) : l.from \notin R
      PROVE  FALSE
  <2> DEFINE Q == R \ {a}
  <2>1. Q \in SUBSET Act
    OBVIOUS
  <2>2. ASSUME NEW b \in R PROVE \E l \in Out(b) : l.to \in Q
    <3>1. PICK l \in Out(b) : l.to \in R
      BY <1>4
    <3>2. l \in net.links /\ l.from = b
      BY DEF Out
    <3>3. l.to # a
      BY <1>6, <2>2, <3>2 DEF In
    <3>4. QED
      BY <3>1, <3>3
  <2>3. Q # {} /\ GoesOn(Q)
    BY <2>2, <1>6
  <2>4. IsFiniteSet(Q) /\ Cardinality(Q) = n - 1
    BY <1>4, <1>5, <1>6, FS_RemoveElement
  <2>5. n - 1 \in Nat
    BY <2>4, FS_CardinalityType
  <2> HIDE DEF Q
  <2>6. n - 1 \in Sizes
    BY <2>1, <2>3, <2>4, <2>5, Zenon
  <2>7. n <= n - 1
    BY <1>3, <2>6
  <2>8. QED
    BY <1>5, <2>7
<1>7. \A a \in R : \E l \in In(a) : l.from \in R
  BY <1>6
<1>8. QED
  BY <1>4, <1>7 DEF Grounded

LEMMA LinkIs ==
    ASSUME CPTypeOK, NEW l \in net.links
    PROVE  /\ l.from \in Act /\ l.to \in Act /\ l.lag \in Int
           /\ l.type \in LINK_TYPES /\ l \in In(l.to) /\ l \in Out(l.from)
           /\ Candidate(l) \in Int /\ Latest(l) \in Int /\ Gap(l) \in Int
<1>1. l.from \in Act /\ l.to \in Act /\ l.lag \in Int /\ l.type \in LINK_TYPES
  BY NetIs
<1>2. /\ early[l.from] \in Nat /\ early[l.to] \in Nat /\ late[l.to] \in Int
      /\ net.duration[l.from] \in Nat /\ net.duration[l.to] \in Nat
  BY <1>1, NetIs DEF CPTypeOK
<1>3. Latest(l) \in Int /\ Gap(l) \in Int
  BY <1>1, <1>2 DEF Latest, Gap, early_finish, late_start
<1>4. Candidate(l) \in Int
  BY <1>1, <1>2 DEF Candidate, early_finish, LINK_TYPES
<1>5. QED
  BY <1>1, <1>3, <1>4 DEF In, Out

\* What the two passes choose from.
LEMMA EarliestIs ==
    ASSUME CPTypeOK, NEW a \in Act
    PROVE  LET top == Max({0} \cup {Candidate(l) : l \in In(a)}) IN
           /\ top \in Nat
           /\ \A l \in In(a) : Candidate(l) <= top
           /\ top = 0 \/ \E l \in In(a) : top = Candidate(l)
<1> DEFINE f == [l \in In(a) |-> Candidate(l)]
           V == {Candidate(l) : l \in In(a)}
<1>1. \A l \in In(a) : f[l] \in Int /\ f[l] = Candidate(l)
  BY LinkIs DEF In
<1>2. IsImage(V, f, In(a))
  BY <1>1, LinksAreFinite DEF IsImage
<1> HIDE DEF f, V
<1>4. /\ Max({0} \cup V) \in Nat
      /\ \A l \in In(a) : f[l] <= Max({0} \cup V)
      /\ Max({0} \cup V) = 0 \/ \E l \in In(a) : Max({0} \cup V) = f[l]
  BY <1>2, ValuesOrNoneAre
<1>5. /\ Max({0} \cup V) \in Nat
      /\ \A l \in In(a) : Candidate(l) <= Max({0} \cup V)
      /\ Max({0} \cup V) = 0 \/ \E l \in In(a) : Max({0} \cup V) = Candidate(l)
  BY <1>1, <1>4
<1>6. QED
  BY <1>5, Zenon DEF V

LEMMA LatestIs ==
    ASSUME CPTypeOK, NEW a \in Act, Read(a) # {}
    PROVE  LET least == Min({Latest(l) : l \in Read(a)}) IN
           /\ least \in Int
           /\ \A l \in Read(a) : least <= Latest(l)
           /\ \E l \in Read(a) : least = Latest(l)
<1> DEFINE f == [l \in Read(a) |-> Latest(l)]
           V == {Latest(l) : l \in Read(a)}
<1>1. \A l \in Read(a) : f[l] \in Int /\ f[l] = Latest(l)
  BY LinkIs DEF Read, Out
<1>2. IsImage(V, f, Read(a))
  BY <1>1, LinksAreFinite DEF IsImage
<1> HIDE DEF f, V
<1>4. /\ Min(V) \in Int
      /\ \A l \in Read(a) : Min(V) <= f[l]
      /\ \E l \in Read(a) : Min(V) = f[l]
  BY <1>2, ValuesAre
<1>5. /\ Min(V) \in Int
      /\ \A l \in Read(a) : Min(V) <= Latest(l)
      /\ \E l \in Read(a) : Min(V) = Latest(l)
  BY <1>1, <1>4
<1>6. QED
  BY <1>5, Zenon DEF V

LEMMA FinishIs ==
    ASSUME CPTypeOK, Act # {}
    PROVE  LET last == Max({early_finish(a) : a \in Act}) IN
           /\ last \in Nat
           /\ \A a \in Act : early_finish(a) <= last
           /\ \E a \in Act : last = early_finish(a)
<1> DEFINE f == [a \in Act |-> early_finish(a)]
           V == {early_finish(a) : a \in Act}
<1>1. \A a \in Act : f[a] \in Nat /\ f[a] = early_finish(a)
  BY NetIs DEF early_finish, CPTypeOK
<1>2. IsImage(V, f, Act)
  BY <1>1, NetIs DEF IsImage
<1> HIDE DEF f, V
<1>4. /\ Max(V) \in Int
      /\ \A a \in Act : f[a] <= Max(V)
      /\ \E a \in Act : Max(V) = f[a]
  BY <1>2, ValuesAre
<1>5. QED
  BY <1>1, <1>4 DEF V

LEMMA FreeIs ==
    ASSUME CPTypeOK, NEW a \in Act, Out(a) # {}
    PROVE  /\ free_float(a) \in Nat
           /\ \A l \in Read(a) : Gap(l) >= 0 => free_float(a) <= Gap(l)
           /\ \E l \in Read(a) : Gap(l) <= free_float(a)
<1> DEFINE f == [l \in Read(a) |-> Gap(l)]
           V == {Gap(l) : l \in Read(a)}
<1>1. \A l \in Read(a) : f[l] \in Int /\ f[l] = Gap(l)
  BY LinkIs DEF Read, Out
<1>2. IsImage(V, f, Read(a)) /\ Read(a) # {}
  BY <1>1, LinksAreFinite, SomeIsRead DEF IsImage
<1>4. free_float(a) = Max({0, Min(V)})
  BY Zenon DEF free_float
<1> HIDE DEF f, V
<1>5. /\ Min(V) \in Int
      /\ \A l \in Read(a) : Min(V) <= f[l]
      /\ \E l \in Read(a) : Min(V) = f[l]
  BY <1>2, ValuesAre
<1> DEFINE least == Min(V)
<1>6. least \in Int
  BY <1>5
<1> HIDE DEF least
<1>7. Max({0, least}) = IF least <= 0 THEN 0 ELSE least
  BY <1>6, GreaterIs
<1>8. QED
  BY <1>1, <1>4, <1>5, <1>6, <1>7 DEF least

(***************************************************************************)
(* The inductive invariant: each pass leaves, for the activities it has    *)
(* finished, what the rule of that pass says of them, and everything it    *)
(* read of their neighbours stays as it was read.                          *)
(***************************************************************************)
EarlyRight(D) ==
    \A a \in D :
        /\ \A l \in In(a) : l.from \in D /\ Candidate(l) <= early[a]
        /\ early[a] = 0 \/ \E l \in In(a) : early[a] = Candidate(l)

FinishRight ==
    /\ \A a \in Act : early_finish(a) <= finish
    /\ \E a \in Act : early_finish(a) = finish

LateRight(D) ==
    \A a \in Act :
        /\ a \notin D \/ Out(a) = {} => late[a] = finish
        /\ a \in D => \A l \in Out(a) : l.to \in D
        /\ a \in D => \A l \in Read(a) : late[a] <= Latest(l)
        /\ a \in D /\ Out(a) # {} => \E l \in Read(a) : late[a] = Latest(l)

FreeRight == free = [a \in Act |-> free_float(a)]

PushedRight(D) ==
    \A a \in D :
        /\ \A l \in In(a) : l.from \in D
        /\ \A x \in Trials : pushed[x][a] = HandedOn(x, a)

CPInv ==
    /\ CPTypeOK
    /\ pass = "build" => done = {}
    /\ pass \notin {"build", "blocked"} => net.links # {} /\ Grounded
    /\ pass = "forward" => EarlyRight(done)
    /\ Computed => EarlyRight(Act) /\ FinishRight
    /\ pass = "backward" => LateRight(done)
    /\ pass \in {"propagate", "reported"} => LateRight(Act) /\ FreeRight
    /\ pass = "propagate" => PushedRight(done)
    /\ pass = "reported" => PushedRight(Act)

LEMMA IncomingIs ==
    ASSUME CPTypeOK, NEW x \in Trials, NEW a \in Act
    PROVE  /\ Incoming(x, a) \in Nat
           /\ \A l \in In(a) : pushed[x][l.from] <= Incoming(x, a)
           /\ Incoming(x, a) = 0 \/ \E l \in In(a) : Incoming(x, a) = pushed[x][l.from]
<1> DEFINE f == [l \in In(a) |-> pushed[x][l.from]]
           V == {pushed[x][l.from] : l \in In(a)}
<1>1. \A l \in In(a) : f[l] \in Int /\ f[l] = pushed[x][l.from]
  <2>1. \A l \in In(a) : l.from \in Act
    BY LinkIs DEF In
  <2>2. \A b \in Act : pushed[x][b] \in Nat
    BY DEF CPTypeOK
  <2>3. QED
    BY <2>1, <2>2
<1>2. IsImage(V, f, In(a))
  BY <1>1, LinksAreFinite DEF IsImage
<1>3. Incoming(x, a) = Max({0} \cup V)
  BY Zenon DEF Incoming
<1> HIDE DEF f, V
<1>4. /\ Max({0} \cup V) \in Nat
      /\ \A l \in In(a) : f[l] <= Max({0} \cup V)
      /\ Max({0} \cup V) = 0 \/ \E l \in In(a) : Max({0} \cup V) = f[l]
  BY <1>2, ValuesOrNoneAre
<1>5. QED
  BY <1>1, <1>3, <1>4

\* Kept apart, so that what is absorbed is one subtraction.
LEMMA HandedOnIs ==
    ASSUME CPTypeOK, NEW x \in Trials, NEW a \in Act
    PROVE  LET rest == Incoming(x, a) + Slip(x, a) - free[a] IN
           /\ rest \in Int /\ Slip(x, a) \in Nat
           /\ HandedOn(x, a) = IF rest <= 0 THEN 0 ELSE rest
           /\ HandedOn(x, a) \in Nat
<1> DEFINE rest == Incoming(x, a) + Slip(x, a) - free[a]
<1>1. Slip(x, a) \in Nat
  BY NetIs DEF Slip
<1>2. rest \in Int
  BY <1>1, IncomingIs DEF CPTypeOK
<1>3. HandedOn(x, a) = Max({0, rest})
  BY DEF HandedOn
<1> HIDE DEF rest
<1>4. HandedOn(x, a) = IF rest <= 0 THEN 0 ELSE rest
  BY <1>2, <1>3, GreaterIs
<1>5. HandedOn(x, a) \in Nat
  BY <1>2, <1>4
<1>6. QED
  BY <1>1, <1>2, <1>4, <1>5 DEF rest

-----------------------------------------------------------------------------
LEMMA SameNet ==
    ASSUME net' = net
    PROVE  /\ Act' = Act /\ Slipping' = Slipping /\ Trials' = Trials
           /\ \A a : In(a)' = In(a) /\ Out(a)' = Out(a) /\ Read(a)' = Read(a)
           /\ Grounded' = Grounded
           /\ \A x, a : Slip(x, a)' = Slip(x, a)
<1>1. Act' = Act /\ \A a : In(a)' = In(a) /\ Out(a)' = Out(a) /\ Read(a)' = Read(a)
  BY DEF Act, In, Out, Read, First
<1>2. Slipping' = Slipping /\ Trials' = Trials
  BY DEF Act, Slipping, Trials
<1>3. Grounded' = Grounded
  BY DEF Act, In, Grounded
<1>4. \A x, a : Slip(x, a)' = Slip(x, a)
  BY DEF Slip
<1>5. QED
  BY <1>1, <1>2, <1>3, <1>4

\* What a later pass leaves alone stays right.
LEMMA EarlyStays ==
    ASSUME CPTypeOK, net' = net, early' = early, finish' = finish,
           EarlyRight(Act), FinishRight
    PROVE  EarlyRight(Act)' /\ FinishRight'
<1>1. \A l : Candidate(l)' = Candidate(l)
  BY DEF Candidate, early_finish
<1>2. EarlyRight(Act)'
  BY <1>1, SameNet DEF EarlyRight
<1>3. \A a : early_finish(a)' = early_finish(a)
  BY DEF early_finish
<1>4. FinishRight'
  BY <1>3, SameNet DEF FinishRight
<1>5. QED
  BY <1>2, <1>4

LEMMA LateStays ==
    ASSUME CPTypeOK, net' = net, late' = late, finish' = finish, early' = early,
           free' = free, LateRight(Act), FreeRight
    PROVE  LateRight(Act)' /\ FreeRight'
<1>1. \A l : Latest(l)' = Latest(l) /\ Gap(l)' = Gap(l)
  BY DEF Latest, late_start, Gap, early_finish
<1>2. LateRight(Act)'
  BY <1>1, SameNet DEF LateRight
<1>3. ASSUME NEW a PROVE free_float(a)' = free_float(a)
  <2>1. {Gap(l) : l \in Read(a)}' = {Gap(l) : l \in Read(a)}
    BY <1>1, SameNet
  <2>2. total_float(a)' = total_float(a) /\ Out(a)' = Out(a)
    BY SameNet DEF total_float, late_start
  <2>3. QED
    BY <2>1, <2>2, Zenon DEF free_float
<1>4. FreeRight'
  BY <1>3, SameNet DEF FreeRight
<1>5. QED
  BY <1>2, <1>4

LEMMA BuildKeeps ==
    ASSUME CPInv, Build
    PROVE  CPInv'
<1>1. CPTypeOK'
  <2>1. pass' \in {"blocked", "forward"}
    BY DEF Build
  <2>2. pass' \in {"build", "blocked", "forward", "backward", "propagate", "reported"}
    BY <2>1
  <2>3. QED
    BY <2>2, SameNet DEF CPInv, CPTypeOK, Build
<1>2. pass' # "blocked" => net.links # {} /\ Grounded
  BY NoCycleIsGrounded DEF Build, Blocked
<1>3. pass' \in {"blocked", "forward"} /\ done' = done /\ net' = net
  BY DEF Build
<1>4. done = {}
  BY DEF CPInv, Build
<1>5. QED
  BY <1>1, <1>2, <1>3, <1>4, SameNet DEF CPInv, Computed, EarlyRight

LEMMA ForwardKeeps ==
    ASSUME CPInv, NEW a \in Act, Forward(a)
    PROVE  CPInv'
<1> DEFINE top == Max({0} \cup {Candidate(l) : l \in In(a)})
<1>1. /\ CPTypeOK /\ EarlyRight(done) /\ pass = "forward" /\ pass' = pass
      /\ net' = net /\ a \notin done /\ done' = done \cup {a}
      /\ \A l \in In(a) : l.from \in done
      /\ UNCHANGED <<finish, late, free, pushed>>
  BY DEF CPInv, Forward
<1>2. early' = [early EXCEPT ![a] = top]
  BY DEF Forward
<1>3. /\ top \in Nat
      /\ \A l \in In(a) : Candidate(l) <= top
      /\ top = 0 \/ \E l \in In(a) : top = Candidate(l)
  BY <1>1, EarliestIs
<1> HIDE DEF top
<1>4. /\ early' \in [Act -> Nat] /\ early'[a] = top
      /\ \A b \in Act : b # a => early'[b] = early[b]
  BY <1>1, <1>2, <1>3 DEF CPTypeOK
<1>5. CPTypeOK'
  BY <1>1, <1>4, SameNet DEF CPTypeOK
<1>6. \A l \in net.links : l.from # a => Candidate(l)' = Candidate(l)
  BY <1>1, <1>4, NetIs DEF Candidate, early_finish
<1>7. \A b \in Act : \A l \in In(b) : l \in net.links /\ l.from \in done => l.from # a
  BY <1>1 DEF In
<1>8. ASSUME NEW b \in done'
      PROVE  /\ \A l \in In(b) : l.from \in done' /\ Candidate(l)' <= early'[b]
             /\ early'[b] = 0 \/ \E l \in In(b) : early'[b] = Candidate(l)'
  <2>1. \A l \in In(b) : l \in net.links
    BY DEF In
  <2>2. b \in Act
    BY <1>1 DEF CPTypeOK
  <2>3. CASE b = a
    BY <1>1, <1>3, <1>4, <1>6, <2>1, <2>3
  <2>4. CASE b # a
    <3>1. b \in done
      BY <1>1, <2>4
    <3>2. early'[b] = early[b]
      BY <1>4, <2>2, <2>4
    <3>3. \A l \in In(b) : l.from \in done /\ Candidate(l) <= early[b]
      BY <1>1, <3>1 DEF EarlyRight
    <3>4. early[b] = 0 \/ \E l \in In(b) : early[b] = Candidate(l)
      BY <1>1, <3>1 DEF EarlyRight
    <3>5. \A l \in In(b) : Candidate(l)' = Candidate(l)
      BY <1>1, <1>6, <2>1, <3>3
    <3>6. QED
      BY <1>1, <3>2, <3>3, <3>4, <3>5
  <2>5. QED
    BY <2>3, <2>4
<1>9. EarlyRight(done)'
  BY <1>1, <1>8, SameNet DEF EarlyRight
<1>10. QED
  BY <1>1, <1>5, <1>9, SameNet DEF CPInv, Computed

LEMMA ForwardEndsKeeps ==
    ASSUME CPInv, ForwardEnds
    PROVE  CPInv'
<1>1. /\ CPTypeOK /\ EarlyRight(done) /\ done = Act /\ net.links # {}
      /\ Grounded /\ pass' = "backward" /\ done' = {} /\ net' = net
      /\ UNCHANGED <<early, free, pushed>>
  BY DEF CPInv, ForwardEnds
<1>2. finish' = Max({early_finish(a) : a \in Act}) /\ late' = [a \in Act |-> finish']
  BY DEF ForwardEnds
<1>3. Act # {}
  <2>1. PICK l \in net.links : TRUE
    BY <1>1
  <2>2. QED
    BY <1>1, <2>1, NetIs
<1>4. /\ finish' \in Nat
      /\ \A a \in Act : early_finish(a) <= finish'
      /\ \E a \in Act : finish' = early_finish(a)
  BY <1>1, <1>2, <1>3, FinishIs
<1>5. late' \in [Act -> Int] /\ \A a \in Act : late'[a] = finish'
  <2>1. late' = [a \in Act |-> finish']
    BY <1>2
  <2>2. finish' \in Int
    BY <1>4
  <2>3. QED
    BY <2>1, <2>2
<1>6. CPTypeOK'
  BY <1>1, <1>4, <1>5, SameNet DEF CPTypeOK
<1>7. EarlyRight(Act)'
  <2>1. \A l : Candidate(l)' = Candidate(l)
    BY <1>1 DEF Candidate, early_finish
  <2>2. QED
    BY <1>1, <2>1, SameNet DEF EarlyRight
<1>8. FinishRight'
  BY <1>1, <1>4, SameNet DEF FinishRight, early_finish
<1>9. LateRight(done)'
  BY <1>1, <1>5, SameNet DEF LateRight
<1>10. QED
  BY <1>1, <1>6, <1>7, <1>8, <1>9, SameNet DEF CPInv, Computed

LEMMA BackwardKeeps ==
    ASSUME CPInv, NEW a \in Act, Backward(a)
    PROVE  CPInv'
<1> DEFINE least == Min({Latest(l) : l \in Read(a)})
<1>1. /\ CPTypeOK /\ LateRight(done) /\ EarlyRight(Act) /\ FinishRight
      /\ pass = "backward" /\ pass' = pass
      /\ net' = net /\ a \notin done /\ done' = done \cup {a}
      /\ \A l \in Out(a) : l.to \in done
      /\ early' = early /\ finish' = finish /\ free' = free /\ pushed' = pushed
  BY DEF CPInv, Backward, Computed
<1>2. late' = [late EXCEPT ![a] = IF Out(a) = {} THEN @ ELSE least]
  BY DEF Backward
<1>3. Out(a) # {} => /\ least \in Int
                     /\ \A l \in Read(a) : least <= Latest(l)
                     /\ \E l \in Read(a) : least = Latest(l)
  BY <1>1, LatestIs, SomeIsRead
<1> HIDE DEF least
<1>4. /\ late' \in [Act -> Int] /\ late'[a] = IF Out(a) = {} THEN finish ELSE least
      /\ \A b \in Act : b # a => late'[b] = late[b]
  <2>1. late \in [Act -> Int] /\ late[a] = finish
    BY <1>1 DEF CPTypeOK, LateRight
  <2>2. (IF Out(a) = {} THEN late[a] ELSE least) \in Int
    BY <1>3, <2>1
  <2>3. QED
    BY <1>2, <2>1, <2>2
<1>5. CPTypeOK'
  BY <1>1, <1>4, SameNet DEF CPTypeOK
<1>6. \A l \in net.links : l.to # a => Latest(l)' = Latest(l)
  BY <1>1, <1>4, NetIs DEF Latest, late_start
<1>7. ASSUME NEW b \in Act
      PROVE  /\ b \notin done' \/ Out(b) = {} => late'[b] = finish
             /\ b \in done' => \A l \in Out(b) : l.to \in done'
             /\ b \in done' => \A l \in Read(b) : late'[b] <= Latest(l)'
             /\ b \in done' /\ Out(b) # {} => \E l \in Read(b) : late'[b] = Latest(l)'
  <2>1. Read(b) \subseteq Out(b) /\ \A l \in Read(b) : l \in net.links
    BY DEF Read, Out
  <2>2. CASE b = a
    <3>1. \A l \in Read(a) : l.to \in done /\ Latest(l)' = Latest(l)
      BY <1>1, <1>6, <2>1, <2>2
    <3>2. (Out(a) = {} => late'[a] = finish) /\ \A l \in Out(a) : l.to \in done'
      BY <1>1, <1>4
    <3>3. \A l \in Read(a) : late'[a] <= Latest(l)'
      BY <1>3, <1>4, <2>1, <2>2, <3>1
    <3>4. Out(a) # {} => \E l \in Read(a) : late'[a] = Latest(l)'
      BY <1>3, <1>4, <3>1
    <3>5. QED
      BY <1>1, <2>2, <3>2, <3>3, <3>4
  <2>3. CASE b # a /\ b \in done
    <3>1. late'[b] = late[b]
      BY <1>4, <2>3
    <3>2. (\A l \in Out(b) : l.to \in done) /\ (\A l \in Read(b) : late[b] <= Latest(l))
      BY <1>1, <2>3 DEF LateRight
    <3>3. Out(b) # {} => \E l \in Read(b) : late[b] = Latest(l)
      BY <1>1, <2>3 DEF LateRight
    <3>4. Out(b) = {} => late[b] = finish
      BY <1>1, <2>3 DEF LateRight
    <3>5. \A l \in Read(b) : Latest(l)' = Latest(l)
      BY <1>1, <1>6, <2>1, <3>2
    <3>6. QED
      BY <1>1, <2>3, <3>1, <3>2, <3>3, <3>4, <3>5
  <2>4. CASE b # a /\ b \notin done
    <3>1. late'[b] = late[b] /\ b \notin done'
      BY <1>1, <1>4, <2>4
    <3>2. late[b] = finish
      BY <1>1, <2>4 DEF LateRight
    <3>3. QED
      BY <3>1, <3>2
  <2>5. QED
    BY <2>2, <2>3, <2>4
<1>8. LateRight(done)'
  BY <1>1, <1>7, SameNet DEF LateRight
<1>9. EarlyRight(Act)' /\ FinishRight'
  BY <1>1, EarlyStays
<1>10. QED
  BY <1>1, <1>5, <1>8, <1>9, SameNet DEF CPInv, Computed

LEMMA FloatIsInt ==
    ASSUME CPTypeOK, NEW a \in Act
    PROVE  total_float(a) \in Int /\ free_float(a) \in Int
<1>1. total_float(a) \in Int
  BY NetIs DEF total_float, late_start, CPTypeOK
<1>2. Out(a) = {} => free_float(a) = total_float(a)
  BY DEF free_float
<1>3. QED
  BY <1>1, <1>2, FreeIs

LEMMA BackwardEndsKeeps ==
    ASSUME CPInv, BackwardEnds
    PROVE  CPInv'
<1>1. /\ CPTypeOK /\ LateRight(done) /\ EarlyRight(Act) /\ FinishRight /\ done = Act
      /\ pass' = "propagate" /\ done' = {} /\ net' = net
      /\ early' = early /\ finish' = finish /\ late' = late /\ pushed' = pushed
  BY DEF CPInv, BackwardEnds, Computed
<1>2. free' = [a \in Act |-> free_float(a)]
  BY DEF BackwardEnds
<1>3. CPTypeOK'
  BY <1>1, <1>2, FloatIsInt, SameNet DEF CPTypeOK
<1>4. \A l : Latest(l)' = Latest(l)
  BY <1>1 DEF Latest, late_start
<1>5. LateRight(Act)'
  BY <1>1, <1>4, SameNet DEF LateRight
<1>6. ASSUME NEW a PROVE free_float(a)' = free_float(a)
  <2>1. \A l : Gap(l)' = Gap(l)
    BY <1>1 DEF Gap, early_finish
  <2>2. {Gap(l) : l \in Read(a)}' = {Gap(l) : l \in Read(a)}
    BY <1>1, <2>1, SameNet
  <2>3. total_float(a)' = total_float(a) /\ Out(a)' = Out(a)
    BY <1>1, SameNet DEF total_float, late_start
  <2>4. QED
    BY <2>2, <2>3, Zenon DEF free_float
<1>7. FreeRight'
  BY <1>1, <1>2, <1>6, SameNet DEF FreeRight
<1>8. EarlyRight(Act)' /\ FinishRight'
  BY <1>1, EarlyStays
<1>9. PushedRight(done)'
  BY <1>1 DEF PushedRight
<1>10. net'.links # {} /\ Grounded'
  BY <1>1, SameNet DEF CPInv, BackwardEnds
<1>11. QED
  BY <1>1, <1>3, <1>5, <1>7, <1>8, <1>9, <1>10 DEF CPInv, Computed

LEMMA PropagateKeeps ==
    ASSUME CPInv, NEW a \in Act, Propagate(a)
    PROVE  CPInv'
<1>1. /\ CPTypeOK /\ LateRight(Act) /\ FreeRight /\ EarlyRight(Act) /\ FinishRight
      /\ PushedRight(done) /\ pass = "propagate" /\ pass' = pass
      /\ net' = net /\ a \notin done /\ done' = done \cup {a}
      /\ \A l \in In(a) : l.from \in done
      /\ early' = early /\ finish' = finish /\ late' = late /\ free' = free
  BY DEF CPInv, Propagate, Computed
<1>2. pushed' = [x \in Trials |-> [pushed[x] EXCEPT ![a] = HandedOn(x, a)]]
  BY DEF Propagate
<1>3. ASSUME NEW x \in Trials
      PROVE  /\ pushed'[x] \in [Act -> Nat] /\ pushed'[x][a] = HandedOn(x, a)
             /\ \A b \in Act : b # a => pushed'[x][b] = pushed[x][b]
  <2>1. pushed[x] \in [Act -> Nat] /\ HandedOn(x, a) \in Nat
    BY <1>1, HandedOnIs DEF CPTypeOK
  <2>2. pushed'[x] = [pushed[x] EXCEPT ![a] = HandedOn(x, a)]
    BY <1>2
  <2>3. QED
    BY <2>1, <2>2
<1>4. pushed' \in [Trials -> [Act -> Nat]]
  <2>1. DOMAIN pushed' = Trials /\ pushed' = [x \in Trials |-> pushed'[x]]
    BY <1>2
  <2>2. QED
    BY <1>3, <2>1
<1>5. CPTypeOK'
  BY <1>1, <1>4, SameNet DEF CPTypeOK
<1>6. ASSUME NEW x \in Trials, NEW b \in Act, \A l \in In(b) : l.from # a
      PROVE  HandedOn(x, b)' = HandedOn(x, b)
  <2>1. \A l \in In(b) : pushed'[x][l.from] = pushed[x][l.from]
    BY <1>1, <1>3, <1>6, NetIs DEF In
  <2>2. {pushed[x][l.from] : l \in In(b)}' = {pushed[x][l.from] : l \in In(b)}
    BY <1>1, <2>1, SameNet
  <2>3. Incoming(x, b)' = Incoming(x, b)
    BY <2>2, Zenon DEF Incoming
  <2>4. Slip(x, b)' = Slip(x, b) /\ free'[b] = free[b]
    BY <1>1, SameNet
  <2>5. QED
    BY <2>3, <2>4, Zenon DEF HandedOn
<1>7. ASSUME NEW b \in done'
      PROVE  /\ \A l \in In(b) : l.from \in done'
             /\ \A x \in Trials : pushed'[x][b] = HandedOn(x, b)'
  <2>1. CASE b = a
    <3>1. \A l \in In(b) : l.from \in done /\ l.from # a
      BY <1>1, <2>1
    <3>2. QED
      BY <1>1, <1>3, <1>6, <2>1, <3>1
  <2>2. CASE b # a
    <3>1. b \in done /\ b \in Act
      BY <1>1, <2>2 DEF CPTypeOK
    <3>2. \A l \in In(b) : l.from \in done /\ l.from # a
      BY <1>1, <3>1 DEF PushedRight
    <3>3. \A x \in Trials : pushed[x][b] = HandedOn(x, b)
      BY <1>1, <3>1 DEF PushedRight
    <3>4. QED
      BY <1>1, <1>3, <1>6, <2>2, <3>1, <3>2, <3>3
  <2>3. QED
    BY <2>1, <2>2
<1>8. PushedRight(done)'
  BY <1>1, <1>7, SameNet DEF PushedRight
<1>9. EarlyRight(Act)' /\ FinishRight'
  BY <1>1, EarlyStays
<1>10. LateRight(Act)' /\ FreeRight'
  BY <1>1, LateStays
<1>11. net'.links # {} /\ Grounded'
  BY <1>1, SameNet DEF CPInv, Propagate
<1>12. QED
  BY <1>1, <1>5, <1>8, <1>9, <1>10, <1>11 DEF CPInv, Computed

LEMMA PushedStays ==
    ASSUME CPTypeOK, net' = net, pushed' = pushed, free' = free, PushedRight(Act)
    PROVE  PushedRight(Act)'
<1>1. ASSUME NEW x, NEW a PROVE HandedOn(x, a)' = HandedOn(x, a)
  <2>1. {pushed[x][l.from] : l \in In(a)}' = {pushed[x][l.from] : l \in In(a)}
    BY SameNet
  <2>2. Incoming(x, a)' = Incoming(x, a)
    BY <2>1, Zenon DEF Incoming
  <2>3. Slip(x, a)' = Slip(x, a)
    BY SameNet
  <2>4. QED
    BY <2>2, <2>3, Zenon DEF HandedOn
<1>2. QED
  BY <1>1, SameNet DEF PushedRight

LEMMA PropagateEndsKeeps ==
    ASSUME CPInv, PropagateEnds
    PROVE  CPInv'
<1>1. /\ CPTypeOK /\ LateRight(Act) /\ FreeRight /\ EarlyRight(Act) /\ FinishRight
      /\ PushedRight(Act) /\ pass' = "reported"
      /\ net' = net /\ done' = done /\ pushed' = pushed
      /\ early' = early /\ finish' = finish /\ late' = late /\ free' = free
  BY DEF CPInv, PropagateEnds, Computed
<1>2. CPTypeOK'
  BY <1>1, SameNet DEF CPTypeOK
<1>3. EarlyRight(Act)' /\ FinishRight'
  BY <1>1, EarlyStays
<1>4. LateRight(Act)' /\ FreeRight'
  BY <1>1, LateStays
<1>5. net'.links # {} /\ Grounded'
  BY <1>1, SameNet DEF CPInv, PropagateEnds
<1>6. PushedRight(Act)'
  BY <1>1, PushedStays
<1>7. QED
  BY <1>1, <1>2, <1>3, <1>4, <1>5, <1>6 DEF CPInv, Computed

LEMMA StandingStillKeeps ==
    ASSUME CPInv, UNCHANGED cpVars
    PROVE  CPInv'
<1>1. /\ CPTypeOK /\ net' = net /\ pass' = pass /\ done' = done /\ early' = early
      /\ finish' = finish /\ late' = late /\ free' = free /\ pushed' = pushed
  BY DEF cpVars, CPInv
<1>2. CPTypeOK'
  BY <1>1, SameNet DEF CPTypeOK
<1>3. EarlyRight(done) => EarlyRight(done)'
  <2>1. \A l : Candidate(l)' = Candidate(l)
    BY <1>1 DEF Candidate, early_finish
  <2>2. QED
    BY <1>1, <2>1, SameNet DEF EarlyRight
<1>4. LateRight(done) => LateRight(done)'
  <2>1. \A l : Latest(l)' = Latest(l)
    BY <1>1 DEF Latest, late_start
  <2>2. QED
    BY <1>1, <2>1, SameNet DEF LateRight
<1>5. PushedRight(done) => PushedRight(done)'
  <2>1. ASSUME NEW x, NEW a PROVE HandedOn(x, a)' = HandedOn(x, a)
    <3>1. {pushed[x][l.from] : l \in In(a)}' = {pushed[x][l.from] : l \in In(a)}
      BY <1>1, SameNet
    <3>2. Incoming(x, a)' = Incoming(x, a)
      BY <3>1, Zenon DEF Incoming
    <3>3. Slip(x, a)' = Slip(x, a)
      BY <1>1, SameNet
    <3>4. QED
      BY <1>1, <3>2, <3>3, Zenon DEF HandedOn
  <2>2. QED
    BY <1>1, <2>1, SameNet DEF PushedRight
<1>6. /\ EarlyRight(Act) /\ FinishRight => EarlyRight(Act)' /\ FinishRight'
      /\ LateRight(Act) /\ FreeRight => LateRight(Act)' /\ FreeRight'
      /\ PushedRight(Act) => PushedRight(Act)'
  BY <1>1, EarlyStays, LateStays, PushedStays
<1>7. QED
  BY <1>1, <1>2, <1>3, <1>4, <1>5, <1>6, SameNet DEF CPInv, Computed

LEMMA CPInvHolds == CPSpec => []CPInv
<1>1. CPInit => CPInv
  <2> SUFFICES ASSUME CPInit PROVE CPInv
    OBVIOUS
  <2>1. CPTypeOK
    BY DEF CPInit, CPTypeOK
  <2>2. QED
    BY <2>1 DEF CPInit, CPInv, Computed
<1>2. CPInv /\ [CPNext]_cpVars => CPInv'
  <2> SUFFICES ASSUME CPInv, [CPNext]_cpVars PROVE CPInv'
    OBVIOUS
  <2>1. CASE Build
    BY <2>1, BuildKeeps
  <2>2. CASE \E a \in Act : Forward(a)
    BY <2>2, ForwardKeeps
  <2>3. CASE ForwardEnds
    BY <2>3, ForwardEndsKeeps
  <2>4. CASE \E a \in Act : Backward(a)
    BY <2>4, BackwardKeeps
  <2>5. CASE BackwardEnds
    BY <2>5, BackwardEndsKeeps
  <2>6. CASE \E a \in Act : Propagate(a)
    BY <2>6, PropagateKeeps
  <2>7. CASE PropagateEnds
    BY <2>7, PropagateEndsKeeps
  <2>8. CASE UNCHANGED cpVars
    BY <2>8, StandingStillKeeps
  <2>9. QED
    BY <2>1, <2>2, <2>3, <2>4, <2>5, <2>6, <2>7, <2>8 DEF CPNext
<1>3. QED
  BY <1>1, <1>2, PTL DEF CPSpec

-----------------------------------------------------------------------------
\* Every link is honoured once the forward pass has ended.
LEMMA LinksAreHonoured ==
    ASSUME CPInv, Computed, NEW l \in net.links
    PROVE  Honoured(l)
<1>1. /\ CPTypeOK /\ l.from \in Act /\ l.to \in Act /\ l.lag \in Int
      /\ l.type \in LINK_TYPES /\ l \in In(l.to)
  BY LinkIs DEF CPInv
<1>2. Candidate(l) <= early[l.to]
  BY <1>1 DEF CPInv, EarlyRight
<1>3. /\ early[l.from] \in Nat /\ early[l.to] \in Nat
      /\ net.duration[l.from] \in Nat /\ net.duration[l.to] \in Nat
  BY <1>1, NetIs DEF CPTypeOK
<1>4. CASE l.type = "FS"
  BY <1>1, <1>2, <1>3, <1>4 DEF Candidate, Honoured, early_finish
<1>5. CASE l.type = "SS"
  BY <1>1, <1>2, <1>3, <1>5 DEF Candidate, Honoured, early_finish
<1>6. CASE l.type = "FF"
  BY <1>1, <1>2, <1>3, <1>6 DEF Candidate, Honoured, early_finish
<1>7. CASE l.type = "SF"
  BY <1>1, <1>2, <1>3, <1>7 DEF Candidate, Honoured, early_finish
<1>8. QED
  BY <1>1, <1>4, <1>5, <1>6, <1>7 DEF LINK_TYPES

(***************************************************************************)
(* The finish by definition.  Its starts are the fixed point of the rule   *)
(* Earliest; that there is one follows from a largest set of activities,   *)
(* closed under predecessors, for which there is one.                      *)
(***************************************************************************)
Earliest(extra, start, a) ==
    LET end(p) == start[p] + net.duration[p] + extra[p]
        own == net.duration[a] + extra[a]
    IN  Max({0} \cup {CASE l.type = "FS" -> end(l.from) + l.lag
                        [] l.type = "SS" -> start[l.from] + l.lag
                        [] l.type = "FF" -> end(l.from) + l.lag - own
                        [] l.type = "SF" -> start[l.from] + l.lag - own
                      : l \in In(a)})

IsStart(extra, start) == start = [a \in Act |-> Earliest(extra, start, a)]
StartWith(extra) == CHOOSE start : IsStart(extra, start)
EndWith(extra, a) == StartWith(extra)[a] + net.duration[a] + extra[a]

LEMMA FinishWithIsTheLastEnd ==
    ASSUME NEW extra
    PROVE  FinishWith(extra) = Max({EndWith(extra, a) : a \in Act})
BY Zenon DEF FinishWith, StartWith, IsStart, Earliest, EndWith

LEMMA EarliestWithIs ==
    ASSUME CPTypeOK, Plain, NEW extra \in [Act -> Nat], NEW start, NEW a \in Act,
           \A l \in In(a) : start[l.from] \in Nat
    PROVE  /\ Earliest(extra, start, a) \in Nat
           /\ \A l \in In(a) : start[l.from] + net.duration[l.from] + extra[l.from] + l.lag
                                 <= Earliest(extra, start, a)
           /\ \/ Earliest(extra, start, a) = 0
              \/ \E l \in In(a) : Earliest(extra, start, a)
                   = start[l.from] + net.duration[l.from] + extra[l.from] + l.lag
<1> DEFINE ask(l) == start[l.from] + net.duration[l.from] + extra[l.from] + l.lag
           f == [l \in In(a) |-> ask(l)]
           V == {ask(l) : l \in In(a)}
<1>1. \A l \in In(a) : l.type = "FS" /\ l.lag \in Int /\ l.from \in Act
  BY LinkIs DEF In, Plain
<1>2. \A l \in In(a) : ask(l) \in Int
  BY <1>1, NetIs
<1>3. Earliest(extra, start, a) = Max({0} \cup V)
  <2> DEFINE own == net.duration[a] + extra[a]
             any(l) == CASE l.type = "FS" -> ask(l)
                         [] l.type = "SS" -> start[l.from] + l.lag
                         [] l.type = "FF" -> ask(l) - own
                         [] l.type = "SF" -> start[l.from] + l.lag - own
  <2>1. \A l \in In(a) : any(l) = ask(l)
    BY <1>1
  <2>2. Earliest(extra, start, a) = Max({0} \cup {any(l) : l \in In(a)})
    BY DEF Earliest
  <2> HIDE DEF any, ask
  <2>3. {any(l) : l \in In(a)} = V
    BY <2>1
  <2>4. QED
    BY <2>2, <2>3, Zenon
<1> HIDE DEF ask
<1>4. IsImage(V, f, In(a)) /\ \A l \in In(a) : f[l] = ask(l)
  BY <1>2, LinksAreFinite DEF IsImage
<1> HIDE DEF f, V
<1>5. /\ Max({0} \cup V) \in Nat
      /\ \A l \in In(a) : f[l] <= Max({0} \cup V)
      /\ Max({0} \cup V) = 0 \/ \E l \in In(a) : Max({0} \cup V) = f[l]
  BY <1>4, ValuesOrNoneAre
<1>6. QED
  BY <1>3, <1>4, <1>5 DEF ask

\* The starts of D are those of the rule, and D holds its predecessors.
StartsOn(extra, D, start) ==
    /\ start \in [Act -> Nat]
    /\ \A a \in D : /\ \A l \in In(a) : l.from \in D
                    /\ start[a] = Earliest(extra, start, a)

LEMMA SameStartsSameRule ==
    ASSUME NEW extra, NEW s, NEW t, NEW a, \A l \in In(a) : s[l.from] = t[l.from]
    PROVE  Earliest(extra, s, a) = Earliest(extra, t, a)
<1> DEFINE ask(f, l) == CASE l.type = "FS" -> f[l.from] + net.duration[l.from] + extra[l.from] + l.lag
                          [] l.type = "SS" -> f[l.from] + l.lag
                          [] l.type = "FF" -> f[l.from] + net.duration[l.from] + extra[l.from] + l.lag
                                                - (net.duration[a] + extra[a])
                          [] l.type = "SF" -> f[l.from] + l.lag - (net.duration[a] + extra[a])
<1>1. \A l \in In(a) : ask(s, l) = ask(t, l)
  BY Zenon
<1>2. /\ Earliest(extra, s, a) = Max({0} \cup {ask(s, l) : l \in In(a)})
      /\ Earliest(extra, t, a) = Max({0} \cup {ask(t, l) : l \in In(a)})
  BY Zenon DEF Earliest
<1> HIDE DEF ask
<1>3. {ask(s, l) : l \in In(a)} = {ask(t, l) : l \in In(a)}
  BY <1>1
<1>4. QED
  BY <1>2, <1>3, Zenon

LEMMA OneMoreStarts ==
    ASSUME CPTypeOK, Grounded, Plain, NEW extra \in [Act -> Nat],
           NEW D \in SUBSET Act, NEW start, StartsOn(extra, D, start), D # Act
    PROVE  \E a \in Act \ D : \E f : StartsOn(extra, D \cup {a}, f)
<1>1. PICK a \in Act \ D : \A l \in In(a) : l.from \in D
  <2> DEFINE R == Act \ D
  <2>1. R \in SUBSET Act /\ R # {}
    OBVIOUS
  <2> HIDE DEF R
  <2>2. PICK a \in R : \A l \in In(a) : l.from \notin R
    BY <2>1, Zenon DEF Grounded
  <2>3. \A l \in In(a) : l.from \in Act
    BY LinkIs DEF In
  <2>4. QED
    BY <2>2, <2>3 DEF R
<1> DEFINE f == [start EXCEPT ![a] = Earliest(extra, start, a)]
<1>2. start \in [Act -> Nat] /\ \A b \in D : \A l \in In(b) : l.from \in D
  BY DEF StartsOn
<1>3. Earliest(extra, start, a) \in Nat
  <2>1. \A l \in In(a) : start[l.from] \in Nat
    BY <1>1, <1>2
  <2>2. QED
    BY <2>1, EarliestWithIs
<1>4. /\ f \in [Act -> Nat] /\ f[a] = Earliest(extra, start, a)
      /\ \A b \in Act : b # a => f[b] = start[b]
  BY <1>2, <1>3
<1> HIDE DEF f
<1>5. ASSUME NEW b \in D \cup {a}
      PROVE  (\A l \in In(b) : l.from \in D \cup {a}) /\ f[b] = Earliest(extra, f, b)
  <2>1. \A l \in In(b) : l.from \in D /\ l.from # a /\ l.from \in Act
    BY <1>1, <1>2
  <2>2. \A l \in In(b) : start[l.from] = f[l.from]
    BY <1>4, <2>1
  <2>3. Earliest(extra, start, b) = Earliest(extra, f, b)
    BY <2>2, SameStartsSameRule
  <2>4. b # a => start[b] = Earliest(extra, start, b) /\ f[b] = start[b]
    BY <1>4 DEF StartsOn
  <2>5. QED
    BY <1>4, <2>1, <2>3, <2>4
<1>6. StartsOn(extra, D \cup {a}, f)
  BY <1>4, <1>5 DEF StartsOn
<1>7. QED
  BY <1>6, Zenon

LEMMA StartsExist ==
    ASSUME CPTypeOK, Grounded, Plain, NEW extra \in [Act -> Nat]
    PROVE  \E start : StartsOn(extra, Act, start)
<1> DEFINE Sizes == {n \in Nat : \E D \in SUBSET Act :
                        \E f : StartsOn(extra, D, f) /\ Cardinality(D) = n}
<1>1. IsFiniteSet(Act) /\ Cardinality(Act) \in Nat
  BY NetIs, FS_CardinalityType
<1>2. Sizes \subseteq Nat /\ \A n \in Sizes : n <= Cardinality(Act)
  <2>1. ASSUME NEW n \in Sizes PROVE n <= Cardinality(Act)
    <3>1. PICK D \in SUBSET Act : Cardinality(D) = n
      BY Zenon
    <3>2. QED
      BY <1>1, <3>1, FS_Subset
  <2>2. QED
    BY <2>1
<1>3. Sizes # {}
  <2> DEFINE f == [a \in Act |-> 0]
  <2>1. StartsOn(extra, {}, f)
    BY DEF StartsOn
  <2> HIDE DEF f
  <2>2. Cardinality({}) = 0 /\ 0 \in Nat /\ {} \in SUBSET Act
    BY FS_EmptySet
  <2>3. QED
    BY <2>1, <2>2, Zenon
<1>4. PICK n \in Sizes : \A m \in Sizes : m <= n
  <2> HIDE DEF Sizes
  <2>1. Max(Sizes) \in Sizes /\ \A m \in Sizes : m <= Max(Sizes)
    BY <1>1, <1>2, <1>3, GreatestIsIn
  <2>2. QED
    BY <2>1
<1>5. PICK D \in SUBSET Act : \E f : StartsOn(extra, D, f) /\ Cardinality(D) = n
  BY <1>4, Zenon
<1>6. PICK start : StartsOn(extra, D, start) /\ Cardinality(D) = n
  BY <1>5, Zenon
<1>7. D = Act
  <2> SUFFICES ASSUME D # Act PROVE FALSE
    OBVIOUS
  <2>1. PICK a \in Act \ D : \E f : StartsOn(extra, D \cup {a}, f)
    BY <1>6, OneMoreStarts
  <2>2. IsFiniteSet(D) /\ n \in Nat
    BY <1>1, <1>4, FS_Subset
  <2> DEFINE E == D \cup {a}
  <2>3. Cardinality(E) = n + 1 /\ n + 1 \in Nat /\ E \in SUBSET Act
    <3>1. Cardinality(E) = Cardinality(D) + 1
      BY <2>1, <2>2, FS_AddElement
    <3>2. E \in SUBSET Act
      BY <2>1
    <3> HIDE DEF E
    <3>3. QED
      BY <1>6, <2>2, <3>1, <3>2
  <2>4. n + 1 \in Sizes
    BY <2>1, <2>3, Zenon
  <2>5. QED
    BY <1>4, <2>2, <2>4
<1>8. QED
  BY <1>6, <1>7

LEMMA StartIs ==
    ASSUME CPTypeOK, Grounded, Plain, NEW extra \in [Act -> Nat]
    PROVE  LET s == StartWith(extra) IN
           /\ s \in [Act -> Nat]
           /\ \A a \in Act, l \in net.links :
                  l.to = a => EndWith(extra, l.from) + l.lag <= s[a]
           /\ \A a \in Act :
                  s[a] = 0 \/ \E l \in In(a) : s[a] = EndWith(extra, l.from) + l.lag
<1> DEFINE s == StartWith(extra)
<1>1. IsStart(extra, s)
  <2>1. PICK start : StartsOn(extra, Act, start)
    BY StartsExist
  <2>2. start = [a \in Act |-> Earliest(extra, start, a)]
    BY <2>1 DEF StartsOn
  <2>3. QED
    BY <2>2, Zenon DEF StartWith, IsStart
<1> HIDE DEF s
<1>2. s = [a \in Act |-> Earliest(extra, s, a)]
  BY <1>1 DEF IsStart
<1>3. \A a \in Act : s[a] = Earliest(extra, s, a)
  BY <1>2
<1>4. \A a \in Act : s[a] \in Nat
  <2> DEFINE Wrong == {a \in Act : s[a] \notin Nat}
  <2>1. ASSUME NEW a \in Wrong PROVE \E l \in In(a) : l.from \in Wrong
    <3>1. a \in Act /\ \A l \in In(a) : l.from \in Act
      BY LinkIs DEF In
    <3>2. (\A l \in In(a) : s[l.from] \in Nat) => s[a] \in Nat
      BY <1>3, <3>1, EarliestWithIs
    <3>3. QED
      BY <3>1, <3>2
  <2>2. Wrong \in SUBSET Act
    OBVIOUS
  <2>3. Wrong = {}
    <3> HIDE DEF Wrong
    <3>1. QED
      BY <2>1, <2>2 DEF Grounded
  <2>4. QED
    BY <2>3
<1>5. s \in [Act -> Nat]
  <2>1. s \in [Act -> {Earliest(extra, s, a) : a \in Act}]
    BY <1>2
  <2>2. QED
    BY <1>4, <2>1
<1>6. ASSUME NEW a \in Act
      PROVE  /\ \A l \in In(a) : s[l.from] + net.duration[l.from] + extra[l.from] + l.lag <= s[a]
             /\ \/ s[a] = 0
                \/ \E l \in In(a) : s[a] = s[l.from] + net.duration[l.from] + extra[l.from] + l.lag
  <2>1. \A l \in In(a) : s[l.from] \in Nat
    BY <1>4, LinkIs DEF In
  <2>2. QED
    BY <1>3, <2>1, EarliestWithIs
<1>7. \A l : EndWith(extra, l.from) = s[l.from] + net.duration[l.from] + extra[l.from]
  BY DEF EndWith, s
<1>8. \A a \in Act, l \in net.links : l.to = a => EndWith(extra, l.from) + l.lag <= s[a]
  BY <1>6, <1>7 DEF In
<1>9. \A a \in Act : s[a] = 0 \/ \E l \in In(a) : s[a] = EndWith(extra, l.from) + l.lag
  BY <1>6, <1>7
<1>10. QED
  BY <1>5, <1>8, <1>9 DEF s

\* The project's finish when activities take longer, from its starts.
LEMMA FinishWithIs ==
    ASSUME CPTypeOK, Grounded, Plain, Act # {}, NEW extra \in [Act -> Nat]
    PROVE  /\ FinishWith(extra) \in Int
           /\ \A a \in Act : EndWith(extra, a) <= FinishWith(extra)
           /\ \E a \in Act : FinishWith(extra) = EndWith(extra, a)
<1> DEFINE f == [a \in Act |-> EndWith(extra, a)]
           V == {EndWith(extra, a) : a \in Act}
<1>1. \A a \in Act : EndWith(extra, a) \in Int
  BY StartIs, NetIs DEF EndWith
<1>2. IsImage(V, f, Act) /\ \A a \in Act : f[a] = EndWith(extra, a)
  BY <1>1, NetIs DEF IsImage
<1>3. FinishWith(extra) = Max(V)
  BY FinishWithIsTheLastEnd, Zenon
<1> HIDE DEF f, V
<1>4. /\ Max(V) \in Int
      /\ \A a \in Act : f[a] <= Max(V)
      /\ \E a \in Act : Max(V) = f[a]
  BY <1>2, ValuesAre
<1>5. QED
  BY <1>2, <1>3, <1>4

(***************************************************************************)
(* What the reported dates are on plain logic, where a link asks for its   *)
(* lag between the end of one activity and the start of the other.         *)
(***************************************************************************)
Reported == CPInv /\ pass = "reported" /\ Plain

LEMMA ReportedIs ==
    ASSUME Reported
    PROVE  /\ CPTypeOK /\ Grounded /\ Topped /\ Plain /\ Act # {} /\ finish \in Nat
           /\ EarlyRight(Act) /\ FinishRight /\ LateRight(Act) /\ FreeRight /\ PushedRight(Act)
           /\ \A a \in Act : /\ early[a] \in Nat /\ net.duration[a] \in Nat
                             /\ late[a] \in Int /\ net.slip[a] \in Nat
<1>1. /\ CPTypeOK /\ Grounded /\ Plain /\ net.links # {} /\ finish \in Nat
      /\ EarlyRight(Act) /\ FinishRight /\ LateRight(Act) /\ FreeRight /\ PushedRight(Act)
  BY DEF Reported, CPInv, Computed, CPTypeOK
<1>2. Topped
  BY <1>1, GroundedIsTopped
<1>3. Act # {}
  <2>1. PICK l \in net.links : TRUE
    BY <1>1
  <2>2. QED
    BY <1>1, <2>1, NetIs
<1>4. \A a \in Act : /\ early[a] \in Nat /\ net.duration[a] \in Nat
                     /\ late[a] \in Int /\ net.slip[a] \in Nat
  BY <1>1, NetIs DEF CPTypeOK
<1>5. QED
  BY <1>1, <1>2, <1>3, <1>4

\* Where no link is repeated every link is read.
LEMMA AllAreRead ==
    ASSUME Reported, NEW a \in Act
    PROVE  Read(a) = Out(a)
<1>1. ASSUME NEW l \in Out(a) PROVE First(l)
  <2>1. \A k \in net.links : k.from = l.from /\ k.to = l.to => k = l
    BY DEF Reported, Plain, Out
  <2>2. l.place \in Nat
    BY ReportedIs, NetIs DEF Out
  <2>3. QED
    BY <2>1, <2>2 DEF First
<1>2. QED
  BY <1>1 DEF Read

LEMMA PlainDates ==
    ASSUME Reported, NEW l \in net.links
    PROVE  /\ l.from \in Act /\ l.to \in Act /\ l.lag \in Nat
           /\ early[l.from] + net.duration[l.from] + l.lag <= early[l.to]
           /\ late[l.from] <= late[l.to] - net.duration[l.to] - l.lag
<1>1. /\ l.from \in Act /\ l.to \in Act /\ l.lag \in Nat /\ l.type = "FS"
      /\ l \in In(l.to) /\ l \in Out(l.from)
  BY ReportedIs, LinkIs DEF Plain
<1>2. Candidate(l) <= early[l.to]
  BY <1>1, ReportedIs DEF EarlyRight
<1>3. late[l.from] <= Latest(l)
  BY <1>1, ReportedIs, AllAreRead DEF LateRight
<1>4. QED
  BY <1>1, <1>2, <1>3 DEF Candidate, Latest, early_finish, late_start

\* Each early start and late finish is asked for by some neighbour.
LEMMA PlainReasons ==
    ASSUME Reported, NEW a \in Act
    PROVE  /\ \/ early[a] = 0
              \/ \E l \in In(a) : early[a] = early[l.from] + net.duration[l.from] + l.lag
           /\ Out(a) = {} => late[a] = finish
           /\ Out(a) # {} => \E l \in Out(a) :
                               late[a] = late[l.to] - net.duration[l.to] - l.lag
<1>1. \A l \in net.links : l.type = "FS"
  BY ReportedIs DEF Plain
<1>2. early[a] = 0 \/ \E l \in In(a) : early[a] = Candidate(l)
  BY ReportedIs DEF EarlyRight
<1>3. \A l \in In(a) : Candidate(l) = early[l.from] + net.duration[l.from] + l.lag
  BY <1>1 DEF Candidate, early_finish, In
<1>4. /\ Out(a) = {} => late[a] = finish
      /\ Out(a) # {} => \E l \in Out(a) : late[a] = Latest(l)
  BY ReportedIs, AllAreRead DEF LateRight
<1>5. \A l \in Out(a) : Latest(l) = late[l.to] - net.duration[l.to] - l.lag
  BY <1>1 DEF Latest, late_start, Out
<1>6. QED
  BY <1>2, <1>3, <1>4, <1>5

\* No activity has to finish before it can, and none after the project.
LEMMA FloatIsNatural ==
    ASSUME Reported, NEW a \in Act
    PROVE  total_float(a) \in Nat /\ late[a] <= finish
<1> DEFINE Tight == {b \in Act : late[b] < early[b] + net.duration[b]}
           Past == {b \in Act : late[b] > finish}
<1>1. ASSUME NEW b \in Tight PROVE \E l \in Out(b) : l.to \in Tight
  <2>1. b \in Act /\ late[b] < early[b] + net.duration[b]
    OBVIOUS
  <2>2. early[b] + net.duration[b] <= finish
    BY <2>1, ReportedIs DEF FinishRight, early_finish
  <2>3. Out(b) # {}
    BY <2>1, <2>2, PlainReasons, ReportedIs
  <2>4. PICK l \in Out(b) : late[b] = late[l.to] - net.duration[l.to] - l.lag
    BY <2>1, <2>3, PlainReasons
  <2>5. l \in net.links /\ l.from = b
    BY DEF Out
  <2>6. /\ l.to \in Act /\ l.lag \in Nat
        /\ early[b] + net.duration[b] + l.lag <= early[l.to]
    BY <2>5, PlainDates
  <2>7. l.to \in Tight
    BY <2>1, <2>4, <2>6, ReportedIs
  <2>8. QED
    BY <2>7
<1>2. ASSUME NEW b \in Past PROVE \E l \in Out(b) : l.to \in Past
  <2>1. b \in Act /\ late[b] > finish
    OBVIOUS
  <2>2. Out(b) # {}
    BY <2>1, PlainReasons, ReportedIs
  <2>3. PICK l \in Out(b) : late[b] = late[l.to] - net.duration[l.to] - l.lag
    BY <2>1, <2>2, PlainReasons
  <2>4. l \in net.links
    BY DEF Out
  <2>5. l.to \in Act /\ l.lag \in Nat
    BY <2>4, PlainDates
  <2>6. l.to \in Past
    BY <2>1, <2>3, <2>5, ReportedIs
  <2>7. QED
    BY <2>6
<1>3. Tight \in SUBSET Act /\ Past \in SUBSET Act
  OBVIOUS
<1>4. Tight = {} /\ Past = {}
  <2> HIDE DEF Tight, Past
  <2>1. QED
    BY <1>1, <1>2, <1>3, ReportedIs DEF Topped
<1>5. ~(late[a] < early[a] + net.duration[a]) /\ ~(late[a] > finish)
  BY <1>4
<1>6. QED
  BY <1>5, ReportedIs DEF total_float, late_start

-----------------------------------------------------------------------------
\* The starts when activities take longer, on plain logic.
LEMMA StartsAre ==
    ASSUME Reported, NEW extra \in [Act -> Nat], NEW a \in Act
    PROVE  LET s == StartWith(extra) IN
           /\ s[a] \in Nat /\ EndWith(extra, a) = s[a] + net.duration[a] + extra[a]
           /\ EndWith(extra, a) \in Nat
           /\ \A l \in Out(a) : EndWith(extra, a) + l.lag <= s[l.to]
           /\ s[a] = 0 \/ \E l \in In(a) : s[a] = EndWith(extra, l.from) + l.lag
<1> DEFINE s == StartWith(extra)
<1>1. /\ s \in [Act -> Nat]
      /\ \A b \in Act, l \in net.links : l.to = b => EndWith(extra, l.from) + l.lag <= s[b]
      /\ \A b \in Act : s[b] = 0 \/ \E l \in In(b) : s[b] = EndWith(extra, l.from) + l.lag
  BY ReportedIs, StartIs
<1>2. EndWith(extra, a) = s[a] + net.duration[a] + extra[a]
  BY DEF EndWith
<1> HIDE DEF s
<1>3. \A l \in Out(a) : l \in net.links /\ l.from = a /\ l.to \in Act
  BY ReportedIs, LinkIs DEF Out
<1>4. s[a] \in Nat /\ EndWith(extra, a) \in Nat
  BY <1>1, <1>2, ReportedIs
<1>5. \A l \in Out(a) : EndWith(extra, a) + l.lag <= s[l.to]
  BY <1>1, <1>3
<1>6. QED
  BY <1>1, <1>2, <1>4, <1>5 DEF s

\* Nothing starts earlier because something takes longer.
LEMMA NoneIsEarlier ==
    ASSUME Reported, NEW extra \in [Act -> Nat], NEW a \in Act
    PROVE  early[a] <= StartWith(extra)[a]
<1> DEFINE s == StartWith(extra)
           Sooner == {b \in Act : s[b] < early[b]}
<1>1. ASSUME NEW b \in Sooner PROVE \E l \in In(b) : l.from \in Sooner
  <2>1. b \in Act /\ s[b] < early[b] /\ s[b] \in Nat /\ early[b] \in Nat
    BY StartsAre, ReportedIs
  <2>2. PICK l \in In(b) : early[b] = early[l.from] + net.duration[l.from] + l.lag
    BY <2>1, PlainReasons
  <2>3. l \in net.links /\ l.to = b
    BY DEF In
  <2>4. l.from \in Act /\ l.lag \in Nat /\ l \in Out(l.from)
    BY <2>3, PlainDates DEF Out
  <2>5. /\ s[l.from] \in Nat
        /\ EndWith(extra, l.from) = s[l.from] + net.duration[l.from] + extra[l.from]
        /\ EndWith(extra, l.from) + l.lag <= s[b]
    BY <2>3, <2>4, StartsAre
  <2>6. net.duration[l.from] \in Nat /\ early[l.from] \in Nat /\ extra[l.from] \in Nat
    BY <2>4, ReportedIs
  <2> HIDE DEF s
  <2>7. s[l.from] < early[l.from]
    BY <2>1, <2>2, <2>4, <2>5, <2>6
  <2>8. QED
    BY <2>4, <2>7
<1>2. Sooner \in SUBSET Act
  OBVIOUS
<1>3. Sooner = {}
  <2> HIDE DEF Sooner
  <2>1. QED
    BY <1>1, <1>2, ReportedIs DEF Grounded
<1>4. ~(s[a] < early[a])
  BY <1>3
<1>5. s[a] \in Nat /\ early[a] \in Nat
  BY StartsAre, ReportedIs
<1>6. QED
  BY <1>4, <1>5

\* What makes an activity longer does not move its own start: what comes
\* before it is as long as it was.
LEMMA OwnStartStays ==
    ASSUME Reported, NEW a \in Act, NEW k \in Nat
    PROVE  StartWith(Longer(a, k))[a] <= early[a]
<1> DEFINE extra == Longer(a, k)
           s == StartWith(extra)
           Moved == {b \in Act : s[b] > early[b]}
<1>1. extra \in [Act -> Nat] /\ \A b \in Act : b # a => extra[b] = 0
  BY DEF Longer
<1> HIDE DEF extra
<1>2. ASSUME NEW b \in Moved PROVE \E l \in In(b) : l.from \in Moved \cup {a}
  <2>1. b \in Act /\ s[b] > early[b] /\ s[b] \in Nat /\ early[b] \in Nat
    BY <1>1, StartsAre, ReportedIs
  <2>2. PICK l \in In(b) : s[b] = EndWith(extra, l.from) + l.lag
    BY <1>1, <2>1, StartsAre
  <2>3. l \in net.links /\ l.to = b
    BY DEF In
  <2>4. /\ l.from \in Act /\ l.lag \in Nat
        /\ early[l.from] + net.duration[l.from] + l.lag <= early[b]
    BY <2>3, PlainDates
  <2>5. CASE l.from = a
    BY <2>5
  <2>6. CASE l.from # a
    <3>1. EndWith(extra, l.from) = s[l.from] + net.duration[l.from] + extra[l.from]
      BY <1>1, <2>4, StartsAre
    <3>2. /\ s[l.from] \in Nat /\ extra[l.from] = 0
          /\ net.duration[l.from] \in Nat /\ early[l.from] \in Nat
      BY <1>1, <2>4, <2>6, StartsAre, ReportedIs
    <3> HIDE DEF s
    <3>3. s[l.from] > early[l.from]
      BY <2>1, <2>2, <2>4, <3>1, <3>2
    <3>4. QED
      BY <2>4, <3>3
  <2>7. QED
    BY <2>5, <2>6
<1>3. a \in Moved => Moved = {}
  <2>1. Moved \in SUBSET Act
    OBVIOUS
  <2> HIDE DEF Moved
  <2>2. a \in Moved => \A b \in Moved : \E l \in In(b) : l.from \in Moved
    BY <1>2
  <2>3. QED
    BY <2>1, <2>2, ReportedIs, Zenon DEF Grounded
<1>4. ~(s[a] > early[a])
  BY <1>3
<1>5. s[a] \in Nat /\ early[a] \in Nat
  BY <1>1, StartsAre, ReportedIs
<1>6. QED
  BY <1>4, <1>5 DEF extra

Exceeds(k, float) == IF k <= float THEN 0 ELSE k - float

\* No activity ends later than its late finish, but for what goes beyond the
\* float of the one that takes longer.
LEMMA LongerAtMost ==
    ASSUME Reported, NEW a \in Act, NEW k \in Nat, NEW b \in Act
    PROVE  EndWith(Longer(a, k), b) <= late[b] + Exceeds(k, total_float(a))
<1> DEFINE extra == Longer(a, k)
           s == StartWith(extra)
           over == Exceeds(k, total_float(a))
           Beyond == {c \in Act : EndWith(extra, c) > late[c] + over}
<1>1. /\ extra \in [Act -> Nat] /\ extra[a] = k
      /\ \A c \in Act : c # a => extra[c] = 0
  BY DEF Longer
<1>2. over \in Nat /\ k - total_float(a) <= over
  BY FloatIsNatural DEF Exceeds
<1>3. s[a] <= early[a]
  BY OwnStartStays
<1> HIDE DEF extra, over
<1>4. \A c \in Act : /\ s[c] \in Nat /\ EndWith(extra, c) = s[c] + net.duration[c] + extra[c]
                     /\ EndWith(extra, c) \in Nat
  BY <1>1, StartsAre
<1>5. \A c \in Act : /\ early[c] \in Nat /\ net.duration[c] \in Nat /\ late[c] \in Int
                     /\ total_float(c) = late[c] - net.duration[c] - early[c]
                     /\ total_float(c) \in Nat
  BY ReportedIs, FloatIsNatural DEF total_float, late_start
<1>6. ASSUME NEW c \in Beyond PROVE \E l \in In(c) : l.from \in Beyond
  <2>1. c \in Act /\ EndWith(extra, c) > late[c] + over
    OBVIOUS
  <2>2. c # a
    <3>1. EndWith(extra, a) = s[a] + net.duration[a] + k /\ s[a] \in Nat
      BY <1>1, <1>4
    <3> HIDE DEF s
    <3>2. EndWith(extra, a) <= late[a] + over
      BY <1>2, <1>3, <1>5, <3>1
    <3>3. late[a] + over \in Int /\ EndWith(extra, a) \in Nat
      BY <1>2, <1>4, <1>5
    <3>4. QED
      BY <2>1, <3>2, <3>3
  <2>3. s[c] > late[c] - net.duration[c] + over
    BY <1>1, <1>2, <1>4, <1>5, <2>1, <2>2
  <2>4. s[c] # 0
    BY <1>2, <1>4, <1>5, <2>1, <2>3
  <2>5. PICK l \in In(c) : s[c] = EndWith(extra, l.from) + l.lag
    BY <1>1, <2>1, <2>4, StartsAre
  <2>6. l \in net.links /\ l.to = c
    BY DEF In
  <2>7. /\ l.from \in Act /\ l.lag \in Nat
        /\ late[l.from] <= late[c] - net.duration[c] - l.lag
    BY <2>6, PlainDates
  <2> HIDE DEF s
  <2>8. EndWith(extra, l.from) > late[l.from] + over
    BY <1>2, <1>4, <1>5, <2>1, <2>3, <2>5, <2>7
  <2>9. QED
    BY <2>7, <2>8
<1>7. Beyond \in SUBSET Act
  OBVIOUS
<1>8. Beyond = {}
  <2> HIDE DEF Beyond
  <2>1. QED
    BY <1>6, <1>7, ReportedIs DEF Grounded
<1>9. ~(EndWith(extra, b) > late[b] + over)
  BY <1>8
<1>10. EndWith(extra, b) <= late[b] + over
  BY <1>2, <1>4, <1>5, <1>9
<1>11. QED
  BY <1>10 DEF extra, over

\* What goes beyond the float reaches an activity nothing follows.
LEMMA LongerReachesTheEnd ==
    ASSUME Reported, NEW a \in Act, NEW k \in Nat
    PROVE  \E b \in Act : EndWith(Longer(a, k), b) >= finish + k - total_float(a)
<1> DEFINE extra == Longer(a, k)
           s == StartWith(extra)
           Reached == {b \in Act : /\ EndWith(extra, b) >= late[b] + k - total_float(a)
                                   /\ Out(b) # {}}
<1>1. extra \in [Act -> Nat] /\ extra[a] = k
  BY DEF Longer
<1> HIDE DEF extra
<1>2. \A c \in Act : /\ s[c] \in Nat /\ EndWith(extra, c) = s[c] + net.duration[c] + extra[c]
                     /\ EndWith(extra, c) \in Nat /\ extra[c] \in Nat
  BY <1>1, StartsAre
<1>3. \A c \in Act : /\ early[c] \in Nat /\ net.duration[c] \in Nat /\ late[c] \in Int
                     /\ total_float(c) = late[c] - net.duration[c] - early[c]
                     /\ total_float(c) \in Nat
  BY ReportedIs, FloatIsNatural DEF total_float, late_start
<1>4. EndWith(extra, a) >= late[a] + k - total_float(a)
  <2>1. early[a] <= s[a]
    BY <1>1, NoneIsEarlier
  <2> HIDE DEF s
  <2>2. QED
    BY <1>1, <1>2, <1>3, <2>1
<1> SUFFICES ASSUME \A b \in Act : ~(EndWith(extra, b) >= finish + k - total_float(a))
             PROVE  FALSE
  BY DEF extra
<1>5. ASSUME NEW b \in Act, EndWith(extra, b) >= late[b] + k - total_float(a)
      PROVE  Out(b) # {}
  BY <1>5, PlainReasons
<1>6. ASSUME NEW b \in Reached PROVE \E l \in Out(b) : l.to \in Reached
  <2>1. /\ b \in Act /\ Out(b) # {}
        /\ EndWith(extra, b) >= late[b] + k - total_float(a)
    OBVIOUS
  <2>2. PICK l \in Out(b) : late[b] = late[l.to] - net.duration[l.to] - l.lag
    BY <2>1, PlainReasons
  <2>3. l.to \in Act /\ l.lag \in Nat
    BY PlainDates DEF Out
  <2>4. EndWith(extra, b) + l.lag <= s[l.to]
    BY <1>1, <2>1, StartsAre
  <2> HIDE DEF s
  <2>5. EndWith(extra, l.to) >= late[l.to] + k - total_float(a)
    BY <1>2, <1>3, <2>1, <2>2, <2>3, <2>4
  <2>6. QED
    BY <1>5, <2>3, <2>5
<1>7. Reached \in SUBSET Act /\ a \in Reached
  BY <1>4, <1>5
<1>8. QED
  <2> HIDE DEF Reached
  <2>1. QED
    BY <1>6, <1>7, ReportedIs DEF Topped

\* Nor does the project finish earlier.
LEMMA FinishIsNotEarlier ==
    ASSUME Reported, NEW extra \in [Act -> Nat]
    PROVE  FinishWith(extra) \in Int /\ finish <= FinishWith(extra)
<1> DEFINE F == FinishWith(extra)
<1>1. F \in Int /\ \A b \in Act : EndWith(extra, b) <= F
  BY ReportedIs, FinishWithIs
<1>2. PICK b \in Act : early[b] + net.duration[b] = finish
  BY ReportedIs DEF FinishRight, early_finish
<1>3. /\ early[b] <= StartWith(extra)[b] /\ StartWith(extra)[b] \in Nat
      /\ EndWith(extra, b) = StartWith(extra)[b] + net.duration[b] + extra[b]
  BY NoneIsEarlier, StartsAre
<1>4. early[b] \in Nat /\ net.duration[b] \in Nat /\ extra[b] \in Nat
  BY ReportedIs
<1>5. EndWith(extra, b) <= F
  BY <1>1
<1> HIDE DEF F
<1>6. finish <= F
  BY <1>1, <1>2, <1>3, <1>4, <1>5
<1>7. QED
  BY <1>1, <1>6 DEF F

\* The finish moves by what goes beyond the float, and by no more.
LEMMA LongerMovesTheFinish ==
    ASSUME Reported, NEW a \in Act, NEW k \in Nat
    PROVE  FinishWith(Longer(a, k)) = finish + Exceeds(k, total_float(a))
<1> DEFINE extra == Longer(a, k)
           over == Exceeds(k, total_float(a))
           F == FinishWith(extra)
<1>1. extra \in [Act -> Nat]
  BY DEF Longer
<1>2. /\ F \in Int /\ \A b \in Act : EndWith(extra, b) <= F
      /\ \E b \in Act : F = EndWith(extra, b)
  BY <1>1, ReportedIs, FinishWithIs
<1>3. /\ total_float(a) \in Nat /\ finish \in Nat /\ over \in Nat
      /\ over = IF k <= total_float(a) THEN 0 ELSE k - total_float(a)
  BY FloatIsNatural, ReportedIs DEF Exceeds
<1>4. F <= finish + over
  <2>1. PICK b \in Act : F = EndWith(extra, b)
    BY <1>2
  <2>2. EndWith(extra, b) <= late[b] + over /\ late[b] <= finish /\ late[b] \in Int
    BY LongerAtMost, FloatIsNatural, ReportedIs
  <2> HIDE DEF over, F
  <2>3. QED
    BY <1>2, <1>3, <2>1, <2>2
<1>5. F >= finish
  BY <1>1, FinishIsNotEarlier
<1>6. F >= finish + k - total_float(a)
  <2>1. PICK b \in Act : EndWith(extra, b) >= finish + k - total_float(a)
    BY LongerReachesTheEnd
  <2>2. EndWith(extra, b) <= F /\ EndWith(extra, b) \in Nat
    BY <1>1, <1>2, StartsAre
  <2> HIDE DEF extra, F
  <2>3. QED
    BY <1>2, <1>3, <2>1, <2>2
<1> HIDE DEF F, over
<1>7. F = finish + over
  BY <1>2, <1>3, <1>4, <1>5, <1>6
<1>8. QED
  BY <1>7 DEF F, over

-----------------------------------------------------------------------------
(* The delay that is handed on, on any logic.                              *)
Settled == CPInv /\ pass = "reported"

LEMMA FreeIsNatural ==
    ASSUME Settled, NEW a \in Act
    PROVE  free[a] \in Nat /\ free[a] = free_float(a)
<1>1. CPTypeOK /\ FinishRight /\ LateRight(Act) /\ FreeRight
  BY DEF Settled, CPInv, Computed
<1>2. free[a] = free_float(a)
  BY <1>1 DEF FreeRight
<1>3. CASE Out(a) = {}
  <2>1. late[a] = finish /\ early_finish(a) <= finish
    BY <1>1, <1>3 DEF LateRight, FinishRight
  <2>2. free_float(a) = late[a] - net.duration[a] - early[a]
    BY <1>3 DEF free_float, total_float, late_start
  <2>3. /\ early[a] \in Nat /\ net.duration[a] \in Nat /\ finish \in Nat
        /\ early_finish(a) = early[a] + net.duration[a]
    BY <1>1, NetIs DEF CPTypeOK, early_finish
  <2>4. QED
    BY <1>2, <2>1, <2>2, <2>3
<1>4. CASE Out(a) # {}
  BY <1>1, <1>2, <1>4, FreeIs
<1>5. QED
  BY <1>2, <1>3, <1>4

LEMMA SettledIs ==
    ASSUME Settled
    PROVE  CPTypeOK /\ Grounded /\ Topped /\ PushedRight(Act)
<1>1. CPTypeOK /\ Grounded /\ PushedRight(Act)
  BY DEF Settled, CPInv
<1>2. QED
  BY <1>1, GroundedIsTopped

Reaches(x, a) == Incoming(x, a) + Slip(x, a)

LEMMA PushedIs ==
    ASSUME Settled, NEW x \in Trials, NEW a \in Act
    PROVE  /\ pushed[x][a] \in Nat /\ Incoming(x, a) \in Nat /\ Slip(x, a) \in Nat
           /\ pushed[x][a] = IF Reaches(x, a) <= free[a] THEN 0 ELSE Reaches(x, a) - free[a]
           /\ \A l \in In(a) : l.from \in Act /\ pushed[x][l.from] <= Incoming(x, a)
           /\ Incoming(x, a) = 0 \/ \E l \in In(a) : Incoming(x, a) = pushed[x][l.from]
<1>1. CPTypeOK /\ pushed[x][a] = HandedOn(x, a)
  BY SettledIs DEF PushedRight
<1>2. /\ Incoming(x, a) \in Nat
      /\ \A l \in In(a) : pushed[x][l.from] <= Incoming(x, a)
      /\ Incoming(x, a) = 0 \/ \E l \in In(a) : Incoming(x, a) = pushed[x][l.from]
  BY <1>1, IncomingIs
<1> DEFINE rest == Incoming(x, a) + Slip(x, a) - free[a]
<1>3. /\ Slip(x, a) \in Nat /\ HandedOn(x, a) = IF rest <= 0 THEN 0 ELSE rest
      /\ HandedOn(x, a) \in Nat
  BY <1>1, HandedOnIs
<1>4. \A l \in In(a) : l.from \in Act
  BY <1>1, LinkIs DEF In
<1>5. pushed[x][a] = IF Reaches(x, a) <= free[a] THEN 0 ELSE Reaches(x, a) - free[a]
  BY <1>1, <1>2, <1>3, FreeIsNatural DEF Reaches
<1>6. QED
  BY <1>1, <1>2, <1>3, <1>4, <1>5

LEMMA ImpactIs ==
    ASSUME Settled, NEW x \in Trials
    PROVE  /\ impact(x) \in Nat
           /\ \A a \in Act : Out(a) = {} => pushed[x][a] <= impact(x)
           /\ impact(x) = 0 \/ \E a \in Act : Out(a) = {} /\ impact(x) = pushed[x][a]
<1> DEFINE Last == {b \in Act : Out(b) = {}}
           f == [a \in Last |-> pushed[x][a]]
           V == {pushed[x][a] : a \in Last}
<1>1. \A a \in Last : f[a] \in Int /\ f[a] = pushed[x][a]
  BY PushedIs
<1>2. IsFiniteSet(Last)
  BY SettledIs, NetIs, FS_Subset
<1>3. IsImage(V, f, Last)
  BY <1>1, <1>2 DEF IsImage
<1>4. impact(x) = Max({0} \cup V)
  BY Zenon DEF impact
<1> HIDE DEF f, V
<1>5. /\ Max({0} \cup V) \in Nat
      /\ \A l \in Last : f[l] <= Max({0} \cup V)
      /\ Max({0} \cup V) = 0 \/ \E l \in Last : Max({0} \cup V) = f[l]
  <2> HIDE DEF Last
  <2>1. QED
    BY <1>3, ValuesOrNoneAre
<1>6. QED
  BY <1>1, <1>4, <1>5

\* The delay handed on is at most the slips it was made of, and so at most
\* all of them: counted over a largest set, closed under predecessors, whose
\* delays are within the sum of its slips.
LEMMA PushedWithinSlips ==
    ASSUME Settled, NEW a \in Act
    PROVE  pushed[NoActivity][a] <= FoldFunctionOnSet(+, 0, net.slip, Act)
<1> DEFINE sum == SumOf(net.slip, Act)
           within(D) == \A b \in D : /\ \A l \in In(b) : l.from \in D
                                     /\ pushed[NoActivity][b] <= sum[D]
           Sizes == {n \in Nat : \E D \in SUBSET Act : within(D) /\ Cardinality(D) = n}
<1>1. /\ IsFiniteSet(Act) /\ net.slip \in [Act -> Nat] /\ NoActivity \notin Act
      /\ NoActivity \in Trials
  <2>1. IsSchedule(net)
    BY SettledIs, SchedulesAssumption DEF CPTypeOK
  <2>2. QED
    BY <2>1 DEF IsSchedule, Act, Trials
<1>2. /\ sum \in [SUBSET Act -> Nat]
      /\ \A s \in SUBSET Act, b \in Act : b \in s => sum[s] = net.slip[b] + sum[s \ {b}]
  <2>1. sum \in [SUBSET Act -> Nat]
    BY <1>1, SumIs, Zenon
  <2>2. \A s \in SUBSET Act, b \in Act : b \in s => Accounts(net.slip, sum, s, b)
    BY <1>1, SumIs, Zenon
  <2> HIDE DEF sum
  <2>3. QED
    BY <2>1, <2>2 DEF Accounts
<1>0. sum[Act] = FoldFunctionOnSet(+, 0, net.slip, Act)
  BY <1>1, SumIs, Zenon
<1> HIDE DEF sum
<1>3. Sizes \subseteq Nat /\ \A n \in Sizes : n <= Cardinality(Act)
  <2>1. ASSUME NEW n \in Sizes PROVE n <= Cardinality(Act)
    <3>1. PICK D \in SUBSET Act : Cardinality(D) = n
      BY Zenon
    <3>2. QED
      BY <1>1, <3>1, FS_Subset
  <2>2. QED
    BY <2>1
<1>4. Sizes # {}
  <2>1. within({}) /\ Cardinality({}) = 0 /\ 0 \in Nat /\ {} \in SUBSET Act
    BY FS_EmptySet
  <2>2. QED
    BY <2>1, Zenon
<1>5. PICK n \in Sizes : \A m \in Sizes : m <= n
  <2>1. Cardinality(Act) \in Nat
    BY <1>1, FS_CardinalityType
  <2> HIDE DEF Sizes
  <2>2. Max(Sizes) \in Sizes /\ \A m \in Sizes : m <= Max(Sizes)
    BY <1>3, <1>4, <2>1, GreatestIsIn
  <2>3. QED
    BY <2>2
<1>6. PICK D \in SUBSET Act : within(D) /\ Cardinality(D) = n
  BY <1>5, Zenon
<1>7. D = Act
  <2> SUFFICES ASSUME D # Act PROVE FALSE
    OBVIOUS
  <2>1. PICK b \in Act \ D : \A l \in In(b) : l.from \in D
    <3> DEFINE R == Act \ D
    <3>1. R \in SUBSET Act /\ R # {}
      OBVIOUS
    <3> HIDE DEF R
    <3>2. PICK b \in R : \A l \in In(b) : l.from \notin R
      BY <3>1, SettledIs, Zenon DEF Grounded
    <3>3. \A l \in In(b) : l.from \in Act
      BY SettledIs, LinkIs DEF In
    <3>4. QED
      BY <3>2, <3>3 DEF R
  <2> DEFINE E == D \cup {b}
  <2>2. E \in SUBSET Act /\ E \ {b} = D /\ b \in E
    BY <2>1
  <2>3. Cardinality(E) = n + 1 /\ n + 1 \in Nat
    <3>1. IsFiniteSet(D) /\ n \in Nat
      BY <1>1, <1>5, FS_Subset
    <3>2. Cardinality(E) = Cardinality(D) + 1
      BY <2>1, <3>1, FS_AddElement
    <3> HIDE DEF E
    <3>3. QED
      BY <1>6, <3>1, <3>2
  <2>4. sum[E] = net.slip[b] + sum[D] /\ sum[D] \in Nat /\ net.slip[b] \in Nat /\ sum[E] \in Nat
    <3>1. sum[E] \in Nat /\ sum[D] \in Nat /\ net.slip[b] \in Nat
      BY <1>1, <1>2, <2>1, <2>2
    <3>2. sum[E] = net.slip[b] + sum[E \ {b}]
      BY <1>2, <2>1, <2>2
    <3> HIDE DEF E
    <3>3. QED
      BY <2>2, <3>1, <3>2
  <2>5. Incoming(NoActivity, b) <= sum[D]
    <3>1. \A l \in In(b) : pushed[NoActivity][l.from] <= sum[D]
      BY <1>6, <2>1
    <3>2. Incoming(NoActivity, b) = 0 \/ \E l \in In(b) : Incoming(NoActivity, b) = pushed[NoActivity][l.from]
      BY <1>1, <2>1, PushedIs
    <3>3. QED
      BY <2>4, <3>1, <3>2
  <2>6. pushed[NoActivity][b] <= sum[E]
    <3>1. Slip(NoActivity, b) = net.slip[b]
      BY <1>1, <2>1 DEF Slip
    <3>2. /\ Incoming(NoActivity, b) \in Nat /\ free[b] \in Nat
          /\ pushed[NoActivity][b] = IF Reaches(NoActivity, b) <= free[b] THEN 0
                                     ELSE Reaches(NoActivity, b) - free[b]
      BY <1>1, <2>1, PushedIs, FreeIsNatural
    <3>3. Reaches(NoActivity, b) <= sum[E] /\ Reaches(NoActivity, b) \in Nat
      BY <2>4, <2>5, <3>1, <3>2 DEF Reaches
    <3>4. QED
      BY <2>4, <3>2, <3>3
  <2>7. ASSUME NEW c \in E PROVE (\A l \in In(c) : l.from \in E) /\ pushed[NoActivity][c] <= sum[E]
    <3>1. CASE c = b
      BY <2>1, <2>6, <3>1
    <3>2. CASE c \in D
      <4>1. (\A l \in In(c) : l.from \in D) /\ pushed[NoActivity][c] <= sum[D]
        BY <1>6, <3>2
      <4>2. pushed[NoActivity][c] \in Nat
        BY <1>1, <3>2, PushedIs
      <4>3. QED
        BY <2>4, <4>1, <4>2
    <3>3. QED
      BY <3>1, <3>2
  <2> HIDE DEF E
  <2>8. n + 1 \in Sizes
    BY <2>2, <2>3, <2>7, Zenon
  <2>9. n + 1 <= n /\ n \in Nat
    BY <1>5, <2>8
  <2>10. QED
    BY <2>9
<1>8. pushed[NoActivity][a] <= sum[Act]
  BY <1>6, <1>7
<1>9. QED
  BY <1>0, <1>8, Zenon

\* Without the slip of an activity, what reaches that activity is the same:
\* a slip is not handed on to what comes before it.
LEMMA SameBefore ==
    ASSUME Settled, NEW a \in Slipping
    PROVE  Incoming(a, a) = Incoming(NoActivity, a)
<1> DEFINE Differs == {b \in Act : pushed[a][b] # pushed[NoActivity][b]}
<1>1. a \in Act /\ a \in Trials /\ NoActivity \in Trials /\ NoActivity \notin Act
  BY SettledIs, NetIs DEF Slipping, Trials
<1>2. ASSUME NEW b \in Act, Incoming(a, b) # Incoming(NoActivity, b)
      PROVE  \E l \in In(b) : l.from \in Differs
  <2> SUFFICES ASSUME \A l \in In(b) : pushed[a][l.from] = pushed[NoActivity][l.from]
               PROVE  Incoming(a, b) = Incoming(NoActivity, b)
    BY <1>1, <1>2, PushedIs
  <2>1. {pushed[a][l.from] : l \in In(b)} = {pushed[NoActivity][l.from] : l \in In(b)}
    OBVIOUS
  <2>2. QED
    BY <2>1, Zenon DEF Incoming
<1>3. ASSUME NEW b \in Differs, b # a
      PROVE  Incoming(a, b) # Incoming(NoActivity, b)
  <2>1. Slip(a, b) = Slip(NoActivity, b)
    BY <1>1, <1>3 DEF Slip
  <2>2. pushed[a][b] # pushed[NoActivity][b] /\ b \in Act
    OBVIOUS
  <2>3. /\ pushed[a][b] = IF Reaches(a, b) <= free[b] THEN 0 ELSE Reaches(a, b) - free[b]
        /\ pushed[NoActivity][b] = IF Reaches(NoActivity, b) <= free[b] THEN 0
                                   ELSE Reaches(NoActivity, b) - free[b]
    BY <1>1, <2>2, PushedIs
  <2>4. QED
    BY <2>1, <2>2, <2>3 DEF Reaches
<1>4. Incoming(a, a) # Incoming(NoActivity, a) => Differs \cup {a} = {}
  <2> SUFFICES ASSUME Incoming(a, a) # Incoming(NoActivity, a) PROVE Differs \cup {a} = {}
    OBVIOUS
  <2>1. ASSUME NEW b \in Differs \cup {a} PROVE \E l \in In(b) : l.from \in Differs \cup {a}
    <3>1. b \in Act /\ Incoming(a, b) # Incoming(NoActivity, b)
      BY <1>1, <1>3
    <3>2. QED
      BY <1>2, <3>1
  <2>2. Differs \cup {a} \in SUBSET Act
    BY <1>1
  <2> HIDE DEF Differs
  <2>3. QED
    BY <2>1, <2>2, SettledIs, Zenon DEF Grounded
<1>5. QED
  BY <1>4

\* What is taken away is handed on no more than it was, and by no more than
\* the slip that was taken away.
LEMMA PushedDiffersBySlip ==
    ASSUME Settled, NEW a \in Slipping, NEW b \in Act
    PROVE  /\ pushed[a][b] <= pushed[NoActivity][b]
           /\ pushed[NoActivity][b] <= pushed[a][b] + net.slip[a]
<1> DEFINE near(c) == /\ pushed[a][c] <= pushed[NoActivity][c]
                      /\ pushed[NoActivity][c] <= pushed[a][c] + net.slip[a]
           Far == {c \in Act : ~near(c)}
<1>1. a \in Act /\ a \in Trials /\ NoActivity \in Trials /\ NoActivity \notin Act
  BY SettledIs, NetIs DEF Slipping, Trials
<1>2. net.slip[a] \in Nat /\ \A c \in Act : net.slip[c] \in Nat
  BY <1>1, SettledIs, NetIs
<1>3. \A c \in Act :
        /\ pushed[a][c] = IF Reaches(a, c) <= free[c] THEN 0 ELSE Reaches(a, c) - free[c]
        /\ pushed[NoActivity][c] = IF Reaches(NoActivity, c) <= free[c] THEN 0
                                   ELSE Reaches(NoActivity, c) - free[c]
        /\ free[c] \in Nat /\ Incoming(a, c) \in Nat /\ Incoming(NoActivity, c) \in Nat
        /\ pushed[a][c] \in Nat /\ pushed[NoActivity][c] \in Nat
  BY <1>1, PushedIs, FreeIsNatural
<1>4. near(a)
  <2>1. Incoming(a, a) = Incoming(NoActivity, a)
    BY SameBefore
  <2>2. Slip(a, a) = 0 /\ Slip(NoActivity, a) = net.slip[a]
    BY <1>1 DEF Slip
  <2>3. QED
    BY <1>1, <1>2, <1>3, <2>1, <2>2 DEF Reaches
<1>5. ASSUME NEW c \in Act, c # a, \A l \in In(c) : near(l.from)
      PROVE  near(c)
  <2>1. Slip(a, c) = net.slip[c] /\ Slip(NoActivity, c) = net.slip[c]
    BY <1>1, <1>5 DEF Slip
  <2>2. Incoming(a, c) <= Incoming(NoActivity, c)
    <3>1. Incoming(a, c) = 0 \/ \E l \in In(c) : Incoming(a, c) = pushed[a][l.from]
      BY <1>1, PushedIs
    <3>2. \A l \in In(c) : l.from \in Act /\ pushed[NoActivity][l.from] <= Incoming(NoActivity, c)
      BY <1>1, PushedIs
    <3>3. QED
      BY <1>3, <1>5, <3>1, <3>2
  <2>3. Incoming(NoActivity, c) <= Incoming(a, c) + net.slip[a]
    <3>1. \/ Incoming(NoActivity, c) = 0
          \/ \E l \in In(c) : Incoming(NoActivity, c) = pushed[NoActivity][l.from]
      BY <1>1, PushedIs
    <3>2. \A l \in In(c) : l.from \in Act /\ pushed[a][l.from] <= Incoming(a, c)
      BY <1>1, PushedIs
    <3>3. QED
      BY <1>2, <1>3, <1>5, <3>1, <3>2
  <2>4. QED
    BY <1>2, <1>3, <2>1, <2>2, <2>3 DEF Reaches
<1> HIDE DEF near
<1>6. ASSUME NEW c \in Far PROVE \E l \in In(c) : l.from \in Far
  <2>1. c \in Act /\ ~near(c) /\ c # a
    BY <1>4
  <2>2. \A l \in In(c) : l.from \in Act
    BY <1>1, <2>1, PushedIs
  <2>3. QED
    BY <1>5, <2>1, <2>2
<1>7. Far \in SUBSET Act
  OBVIOUS
<1>8. Far = {}
  <2> HIDE DEF Far
  <2>1. QED
    BY <1>6, <1>7, SettledIs, Zenon DEF Grounded
<1>9. near(b)
  BY <1>8
<1>10. QED
  BY <1>9 DEF near

LEMMA ContributionWithinSlip ==
    ASSUME Settled, NEW a \in Slipping
    PROVE  contribution(a) \in 0 .. net.slip[a]
<1>1. a \in Act /\ a \in Trials /\ NoActivity \in Trials
  BY DEF Slipping, Trials
<1>2. net.slip[a] \in Nat
  BY <1>1, SettledIs, NetIs
<1>3. \A b \in Act : /\ pushed[a][b] <= pushed[NoActivity][b]
                     /\ pushed[NoActivity][b] <= pushed[a][b] + net.slip[a]
                     /\ pushed[a][b] \in Nat /\ pushed[NoActivity][b] \in Nat
  BY <1>1, PushedDiffersBySlip, PushedIs
<1>4. impact(a) \in Nat /\ impact(NoActivity) \in Nat
  BY <1>1, ImpactIs
<1>5. impact(a) <= impact(NoActivity)
  <2>1. impact(a) = 0 \/ \E b \in Act : Out(b) = {} /\ impact(a) = pushed[a][b]
    BY <1>1, ImpactIs
  <2>2. \A b \in Act : Out(b) = {} => pushed[NoActivity][b] <= impact(NoActivity)
    BY <1>1, ImpactIs
  <2>3. QED
    BY <1>3, <1>4, <2>1, <2>2
<1>6. impact(NoActivity) <= impact(a) + net.slip[a]
  <2>1. \/ impact(NoActivity) = 0
        \/ \E b \in Act : Out(b) = {} /\ impact(NoActivity) = pushed[NoActivity][b]
    BY <1>1, ImpactIs
  <2>2. \A b \in Act : Out(b) = {} => pushed[a][b] <= impact(a)
    BY <1>1, ImpactIs
  <2>3. QED
    BY <1>2, <1>3, <1>4, <2>1, <2>2
<1>7. QED
  BY <1>2, <1>4, <1>5, <1>6 DEF contribution, project_impact_days

LEMMA ImpactWithinSlips ==
    ASSUME Settled
    PROVE  project_impact_days <= FoldFunctionOnSet(+, 0, net.slip, Act)
<1> DEFINE total == FoldFunctionOnSet(+, 0, net.slip, Act)
<1>1. NoActivity \in Trials
  BY DEF Trials
<1>2. \A a \in Act : pushed[NoActivity][a] <= total
  BY PushedWithinSlips, Zenon
<1>3. total \in Nat
  <2>1. IsSchedule(net)
    BY SettledIs, SchedulesAssumption DEF CPTypeOK
  <2>2. IsFiniteSet(Act) /\ net.slip \in [Act -> Nat]
    BY <2>1 DEF IsSchedule, Act
  <2>3. SumOf(net.slip, Act) \in [SUBSET Act -> Nat] /\ Act \in SUBSET Act
    BY <2>2, SumIs, Zenon
  <2>4. SumOf(net.slip, Act)[Act] \in Nat
    BY <2>3
  <2>5. QED
    BY <2>2, <2>4, SumIs, Zenon
<1> HIDE DEF total
<1>4. project_impact_days = 0 \/ \E a \in Act : project_impact_days = pushed[NoActivity][a]
  BY <1>1, ImpactIs DEF project_impact_days
<1>5. project_impact_days <= total
  BY <1>2, <1>3, <1>4
<1>6. QED
  BY <1>5, Zenon DEF total

-----------------------------------------------------------------------------
\* On plain logic an activity ends later by at most what reached it and its
\* own slip: what its predecessor's float absorbed is what lay between them.
LEMMA SlipsReachNoFurther ==
    ASSUME Reported, NEW a \in Act
    PROVE  StartWith(net.slip)[a] <= early[a] + Incoming(NoActivity, a)
<1> DEFINE s == StartWith(net.slip)
           Further == {b \in Act : s[b] > early[b] + Incoming(NoActivity, b)}
<1>1. Settled /\ NoActivity \in Trials /\ NoActivity \notin Act /\ net.slip \in [Act -> Nat]
  <2>1. Settled
    BY DEF Reported, Settled
  <2>2. IsSchedule(net)
    BY <2>1, SettledIs, SchedulesAssumption DEF CPTypeOK
  <2>3. QED
    BY <2>1, <2>2 DEF IsSchedule, Act, Trials
<1>2. \A b \in Act : /\ s[b] \in Nat /\ early[b] \in Nat /\ Incoming(NoActivity, b) \in Nat
                     /\ EndWith(net.slip, b) = s[b] + net.duration[b] + net.slip[b]
                     /\ net.duration[b] \in Nat /\ net.slip[b] \in Nat
  BY <1>1, StartsAre, ReportedIs, PushedIs
<1>3. ASSUME NEW b \in Further PROVE \E l \in In(b) : l.from \in Further
  <2>1. b \in Act /\ s[b] > early[b] + Incoming(NoActivity, b) /\ s[b] # 0
    BY <1>2
  <2>2. PICK l \in In(b) : s[b] = EndWith(net.slip, l.from) + l.lag
    BY <1>1, <2>1, StartsAre
  <2>3. l \in net.links /\ l.to = b
    BY DEF In
  <2>4. /\ l.from \in Act /\ l.lag \in Nat /\ l \in Out(l.from)
        /\ early[l.from] + net.duration[l.from] + l.lag <= early[b]
    BY <2>3, PlainDates DEF Out
  <2> DEFINE p == l.from
  <2>5. free[p] \in Nat /\ free[p] <= early[b] - (early[p] + net.duration[p] + l.lag)
    <3>1. Gap(l) = early[b] - (early[p] + net.duration[p] + l.lag)
      BY <2>3 DEF Gap, early_finish
    <3>2. Gap(l) >= 0
      BY <1>2, <2>1, <2>4, <3>1
    <3>3. free_float(p) <= Gap(l)
      BY <2>4, <3>2, ReportedIs, FreeIs, AllAreRead
    <3>4. QED
      BY <1>1, <2>4, <3>1, <3>3, FreeIsNatural
  <2>6. /\ pushed[NoActivity][p] <= Incoming(NoActivity, b)
        /\ pushed[NoActivity][p] = IF Reaches(NoActivity, p) <= free[p] THEN 0
                                   ELSE Reaches(NoActivity, p) - free[p]
    BY <1>1, <2>1, <2>4, PushedIs
  <2>7. Reaches(NoActivity, p) = Incoming(NoActivity, p) + net.slip[p]
    BY <1>1, <2>4 DEF Reaches, Slip
  <2> HIDE DEF s, p
  <2>8. /\ p \in Act /\ s[b] = s[p] + net.duration[p] + net.slip[p] + l.lag
        /\ early[p] + net.duration[p] + l.lag <= early[b]
    BY <1>2, <2>2, <2>4 DEF p
  <2>9. s[p] > early[p] + Incoming(NoActivity, p)
    BY <1>2, <2>1, <2>4, <2>5, <2>6, <2>7, <2>8
  <2>10. QED
    BY <2>8, <2>9 DEF p
<1>4. Further \in SUBSET Act
  OBVIOUS
<1>5. Further = {}
  <2> HIDE DEF Further
  <2>1. QED
    BY <1>3, <1>4, ReportedIs, Zenon DEF Grounded
<1>6. ~(s[a] > early[a] + Incoming(NoActivity, a))
  BY <1>5
<1>7. QED
  BY <1>2, <1>6

\* So the finish moves by no more than the reported impact: what is not
\* handed on by the last activities is within their own float.
LEMMA ImpactCoversTheMove ==
    ASSUME Reported
    PROVE  FinishWith(net.slip) - finish <= project_impact_days
<1> DEFINE late_end(a) == EndWith(net.slip, a)
           Missed == {a \in Act : late_end(a) > finish + project_impact_days}
<1>1. Settled /\ NoActivity \in Trials /\ NoActivity \notin Act /\ net.slip \in [Act -> Nat]
  <2>1. Settled
    BY DEF Reported, Settled
  <2>2. IsSchedule(net)
    BY <2>1, SettledIs, SchedulesAssumption DEF CPTypeOK
  <2>3. QED
    BY <2>1, <2>2 DEF IsSchedule, Act, Trials
<1>2. project_impact_days \in Nat /\ finish \in Nat
  BY <1>1, ImpactIs, ReportedIs DEF project_impact_days
<1>3. \A a \in Act : late_end(a) \in Nat
  BY <1>1, StartsAre
<1>4. ASSUME NEW a \in Act, Out(a) = {}
      PROVE  late_end(a) <= finish + project_impact_days
  <2>1. /\ late_end(a) = StartWith(net.slip)[a] + net.duration[a] + net.slip[a]
        /\ StartWith(net.slip)[a] \in Nat
    BY <1>1, StartsAre
  <2>2. StartWith(net.slip)[a] <= early[a] + Incoming(NoActivity, a)
    BY SlipsReachNoFurther
  <2>3. free[a] = finish - net.duration[a] - early[a] /\ free[a] \in Nat
    <3>1. late[a] = finish
      BY <1>4, PlainReasons
    <3>2. free_float(a) = late[a] - net.duration[a] - early[a]
      BY <1>4 DEF free_float, total_float, late_start
    <3>3. QED
      BY <1>1, <3>1, <3>2, FreeIsNatural
  <2>4. /\ pushed[NoActivity][a] <= project_impact_days
        /\ Incoming(NoActivity, a) \in Nat
        /\ pushed[NoActivity][a] = IF Reaches(NoActivity, a) <= free[a] THEN 0
                                   ELSE Reaches(NoActivity, a) - free[a]
    BY <1>1, <1>4, PushedIs, ImpactIs DEF project_impact_days
  <2>5. Reaches(NoActivity, a) = Incoming(NoActivity, a) + net.slip[a]
    BY <1>1 DEF Reaches, Slip
  <2>6. early[a] \in Nat /\ net.duration[a] \in Nat /\ net.slip[a] \in Nat
    BY ReportedIs
  <2> HIDE DEF late_end
  <2>7. QED
    BY <1>2, <2>1, <2>2, <2>3, <2>4, <2>5, <2>6
<1>5. ASSUME NEW a \in Missed PROVE \E l \in Out(a) : l.to \in Missed
  <2>1. a \in Act /\ late_end(a) > finish + project_impact_days
    OBVIOUS
  <2>2. Out(a) # {}
    BY <1>2, <1>3, <1>4, <2>1
  <2>3. PICK l \in Out(a) : TRUE
    BY <2>2
  <2>4. l \in net.links
    BY DEF Out
  <2>5. l.to \in Act /\ l.lag \in Nat
    BY <2>4, PlainDates
  <2>6. late_end(a) + l.lag <= StartWith(net.slip)[l.to]
    BY <1>1, <2>1, StartsAre
  <2>7. /\ late_end(l.to) = StartWith(net.slip)[l.to] + net.duration[l.to] + net.slip[l.to]
        /\ StartWith(net.slip)[l.to] \in Nat /\ net.duration[l.to] \in Nat /\ net.slip[l.to] \in Nat
    BY <1>1, <2>5, StartsAre, ReportedIs
  <2> HIDE DEF late_end
  <2>8. late_end(l.to) > finish + project_impact_days
    BY <1>2, <1>3, <2>1, <2>5, <2>6, <2>7
  <2>9. QED
    BY <2>5, <2>8
<1>6. Missed \in SUBSET Act
  OBVIOUS
<1>7. Missed = {}
  <2> HIDE DEF Missed
  <2>1. QED
    BY <1>5, <1>6, ReportedIs, Zenon DEF Topped
<1>8. PICK a \in Act : FinishWith(net.slip) = late_end(a)
  BY <1>1, ReportedIs, FinishWithIs
<1>9. ~(late_end(a) > finish + project_impact_days)
  BY <1>7
<1> HIDE DEF late_end
<1>10. QED
  BY <1>2, <1>3, <1>8, <1>9

\* Where every activity has one gap, that gap is its free float, and all that
\* is handed on is felt: a last activity with what reached it and its own slip
\* ends as late as the impact says.
LEMMA OneGapIsFree ==
    ASSUME Reported, OneGap, NEW l \in net.links
    PROVE  free[l.from] = Gap(l)
<1> DEFINE p == l.from
<1>1. /\ p \in Act /\ l.to \in Act /\ l \in Out(p) /\ Gap(l) \in Int /\ CPTypeOK
      /\ Read(p) = Out(p)
  BY ReportedIs, LinkIs, AllAreRead
<1>2. Gap(l) >= 0
  BY <1>1, PlainDates, ReportedIs DEF Gap, early_finish
<1>3. free_float(p) \in Nat /\ free_float(p) <= Gap(l)
  BY <1>1, <1>2, FreeIs
<1>4. PICK k \in Out(p) : Gap(k) <= free_float(p)
  BY <1>1, FreeIs
<1>5. Gap(k) = Gap(l)
  BY <1>1 DEF OneGap, Out
<1>6. free[p] = free_float(p)
  BY <1>1, FreeIsNatural DEF Reported, Settled
<1> HIDE DEF p
<1>7. free[p] = Gap(l)
  BY <1>1, <1>3, <1>4, <1>5, <1>6
<1>8. QED
  BY <1>7 DEF p

LEMMA SlipsReachThatFar ==
    ASSUME Reported, OneGap, NEW a \in Act
    PROVE  early[a] + Incoming(NoActivity, a) <= StartWith(net.slip)[a]
<1> DEFINE s == StartWith(net.slip)
           Short == {b \in Act : s[b] < early[b] + Incoming(NoActivity, b)}
<1>1. Settled /\ NoActivity \in Trials /\ NoActivity \notin Act /\ net.slip \in [Act -> Nat]
  <2>1. Settled
    BY DEF Reported, Settled
  <2>2. IsSchedule(net)
    BY <2>1, SettledIs, SchedulesAssumption DEF CPTypeOK
  <2>3. QED
    BY <2>1, <2>2 DEF IsSchedule, Act, Trials
<1>2. \A b \in Act : /\ s[b] \in Nat /\ early[b] \in Nat /\ Incoming(NoActivity, b) \in Nat
                     /\ EndWith(net.slip, b) = s[b] + net.duration[b] + net.slip[b]
                     /\ net.duration[b] \in Nat /\ net.slip[b] \in Nat
                     /\ early[b] <= s[b]
  BY <1>1, StartsAre, ReportedIs, PushedIs, NoneIsEarlier
<1>3. ASSUME NEW b \in Short PROVE \E l \in In(b) : l.from \in Short
  <2>1. /\ b \in Act /\ s[b] < early[b] + Incoming(NoActivity, b)
        /\ Incoming(NoActivity, b) # 0
    BY <1>2
  <2>2. PICK l \in In(b) : Incoming(NoActivity, b) = pushed[NoActivity][l.from]
    BY <1>1, <2>1, PushedIs
  <2>3. l \in net.links /\ l.to = b
    BY DEF In
  <2> DEFINE p == l.from
  <2>4. p \in Act /\ l.lag \in Nat /\ l \in Out(p)
    BY <2>3, PlainDates DEF Out
  <2>5. free[p] = early[b] - (early[p] + net.duration[p] + l.lag) /\ free[p] \in Nat
    BY <1>1, <2>3, <2>4, OneGapIsFree, FreeIsNatural DEF Gap, early_finish
  <2>6. /\ pushed[NoActivity][p] = IF Reaches(NoActivity, p) <= free[p] THEN 0
                                   ELSE Reaches(NoActivity, p) - free[p]
        /\ pushed[NoActivity][p] = Incoming(NoActivity, b)
    BY <1>1, <2>2, <2>4, PushedIs
  <2>7. Reaches(NoActivity, p) = Incoming(NoActivity, p) + net.slip[p]
    BY <1>1, <2>4 DEF Reaches, Slip
  <2>8. EndWith(net.slip, p) + l.lag <= s[b]
    BY <1>1, <2>3, <2>4, StartsAre
  <2> HIDE DEF s, p
  <2>9. s[p] < early[p] + Incoming(NoActivity, p)
    BY <1>2, <2>1, <2>4, <2>5, <2>6, <2>7, <2>8
  <2>10. QED
    BY <2>4, <2>9 DEF p
<1>4. Short \in SUBSET Act
  OBVIOUS
<1>5. Short = {}
  <2> HIDE DEF Short
  <2>1. QED
    BY <1>3, <1>4, ReportedIs, Zenon DEF Grounded
<1>6. ~(s[a] < early[a] + Incoming(NoActivity, a))
  BY <1>5
<1>7. QED
  BY <1>2, <1>6

LEMMA ImpactIsTheMove ==
    ASSUME Reported, OneGap
    PROVE  FinishWith(net.slip) - finish = project_impact_days
<1> DEFINE F == FinishWith(net.slip)
<1>1. Settled /\ NoActivity \in Trials /\ NoActivity \notin Act /\ net.slip \in [Act -> Nat]
  <2>1. Settled
    BY DEF Reported, Settled
  <2>2. IsSchedule(net)
    BY <2>1, SettledIs, SchedulesAssumption DEF CPTypeOK
  <2>3. QED
    BY <2>1, <2>2 DEF IsSchedule, Act, Trials
<1>2. /\ project_impact_days \in Nat /\ finish \in Nat /\ F \in Int /\ finish <= F
      /\ F - finish <= project_impact_days
  BY <1>1, ImpactIs, ReportedIs, FinishIsNotEarlier, ImpactCoversTheMove DEF project_impact_days
<1>3. CASE project_impact_days = 0
  <2> HIDE DEF F
  <2>1. F - finish = project_impact_days
    BY <1>2, <1>3
  <2>2. QED
    BY <2>1 DEF F
<1>4. CASE project_impact_days # 0
  <2>1. PICK a \in Act : Out(a) = {} /\ project_impact_days = pushed[NoActivity][a]
    BY <1>1, <1>4, ImpactIs DEF project_impact_days
  <2>2. /\ EndWith(net.slip, a) = StartWith(net.slip)[a] + net.duration[a] + net.slip[a]
        /\ StartWith(net.slip)[a] \in Nat /\ EndWith(net.slip, a) <= F
    BY <1>1, StartsAre, ReportedIs, FinishWithIs
  <2>3. early[a] + Incoming(NoActivity, a) <= StartWith(net.slip)[a]
    BY SlipsReachThatFar
  <2>4. free[a] = finish - net.duration[a] - early[a] /\ free[a] \in Nat
    <3>1. late[a] = finish
      BY <2>1, PlainReasons
    <3>2. free_float(a) = late[a] - net.duration[a] - early[a]
      BY <2>1 DEF free_float, total_float, late_start
    <3>3. QED
      BY <1>1, <3>1, <3>2, FreeIsNatural
  <2>5. /\ Incoming(NoActivity, a) \in Nat
        /\ pushed[NoActivity][a] = IF Reaches(NoActivity, a) <= free[a] THEN 0
                                   ELSE Reaches(NoActivity, a) - free[a]
    BY <1>1, PushedIs
  <2>6. Reaches(NoActivity, a) = Incoming(NoActivity, a) + net.slip[a]
    BY <1>1 DEF Reaches, Slip
  <2>7. early[a] \in Nat /\ net.duration[a] \in Nat /\ net.slip[a] \in Nat
    BY ReportedIs
  <2> HIDE DEF F
  <2>8. project_impact_days = Incoming(NoActivity, a) + net.slip[a] - free[a]
    BY <1>4, <2>1, <2>4, <2>5, <2>6, <2>7
  <2>9. finish + project_impact_days <= EndWith(net.slip, a) /\ EndWith(net.slip, a) \in Int
    BY <1>2, <2>2, <2>3, <2>4, <2>5, <2>7, <2>8
  <2>10. F - finish = project_impact_days
    BY <1>2, <2>2, <2>9
  <2>11. QED
    BY <2>10 DEF F
<1>5. QED
  BY <1>3, <1>4

-----------------------------------------------------------------------------
\* The dates of the critical path analysis: the early dates honour every link
\* of every type, and on plain logic the float of an activity is exactly what
\* it can be prolonged by, whatever order the passes take.
THEOREM DatesAreAlwaysExact == CPSpec => []DatesAreExact
<1>1. CPInv => DatesAreExact
  <2> SUFFICES ASSUME CPInv PROVE DatesAreExact
    OBVIOUS
  <2>1. Computed => \A l \in net.links : Honoured(l)
    BY LinksAreHonoured
  <2>2. ASSUME pass = "reported", Plain, NEW a \in Act
        PROVE  /\ total_float(a) >= 0
               /\ FinishWith(Longer(a, total_float(a))) = finish
               /\ FinishWith(Longer(a, total_float(a) + 1)) = finish + 1
               /\ is_critical(a) <=> FinishWith(Longer(a, 1)) > finish
    <3>1. Reported
      BY <2>2 DEF Reported
    <3> DEFINE float == total_float(a)
    <3>2. float \in Nat /\ finish \in Nat
      BY <3>1, FloatIsNatural, ReportedIs
    <3>3. \A k \in Nat : FinishWith(Longer(a, k)) = finish + Exceeds(k, float)
      BY <3>1, LongerMovesTheFinish
    <3>4. is_critical(a) <=> float <= 0
      BY DEF is_critical
    <3> HIDE DEF float
    <3>5. /\ Exceeds(float, float) = 0 /\ Exceeds(float + 1, float) = 1
          /\ Exceeds(1, float) = IF float = 0 THEN 1 ELSE 0
      BY <3>2 DEF Exceeds
    <3>6. FinishWith(Longer(a, float)) = finish
      BY <3>2, <3>3, <3>5
    <3>7. FinishWith(Longer(a, float + 1)) = finish + 1
      BY <3>2, <3>3, <3>5
    <3>8. FinishWith(Longer(a, 1)) = finish + IF float = 0 THEN 1 ELSE 0
      BY <3>2, <3>3, <3>5
    <3>9. is_critical(a) <=> FinishWith(Longer(a, 1)) > finish
      BY <3>2, <3>4, <3>8
    <3>10. QED
      BY <3>2, <3>6, <3>7, <3>9 DEF float
  <2>3. QED
    BY <2>1, <2>2 DEF DatesAreExact
<1>2. QED
  BY <1>1, CPInvHolds, PTL

\* The impact that is reported: on plain logic it never understates how far
\* the measured slips move the finish, and where every activity has one gap it
\* is exactly that; on any logic it is within the slip that was measured, as is
\* each activity's share of it within its own.
THEOREM ImpactIsAlwaysRight == CPSpec => []ImpactIsRight
<1>1. CPInv => ImpactIsRight
  <2> SUFFICES ASSUME CPInv, pass = "reported"
               PROVE  /\ Plain => FinishWith(net.slip) - finish <= project_impact_days
                      /\ Plain /\ OneGap => FinishWith(net.slip) - finish = project_impact_days
                      /\ project_impact_days <= FoldFunctionOnSet(+, 0, net.slip, Act)
                      /\ \A a \in Slipping : contribution(a) \in 0 .. net.slip[a]
    BY Zenon DEF ImpactIsRight
  <2>1. Settled
    BY DEF Settled
  <2>2. Plain => FinishWith(net.slip) - finish <= project_impact_days
    BY ImpactCoversTheMove DEF Reported
  <2>3. project_impact_days <= FoldFunctionOnSet(+, 0, net.slip, Act)
    BY <2>1, ImpactWithinSlips, Zenon
  <2>4. \A a \in Slipping : contribution(a) \in 0 .. net.slip[a]
    BY <2>1, ContributionWithinSlip
  <2>5. Plain /\ OneGap => FinishWith(net.slip) - finish = project_impact_days
    BY ImpactIsTheMove DEF Reported
  <2>6. QED
    BY <2>2, <2>3, <2>4, <2>5, Zenon
<1>2. QED
  BY <1>1, CPInvHolds, PTL
=============================================================================
