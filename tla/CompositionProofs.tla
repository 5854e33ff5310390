-------------------------- MODULE CompositionProofs --------------------------
(***************************************************************************)
(* The services together.  MCServices lets one service of a behaviour move *)
(* and keeps the others at rest, so a behaviour of it is a behaviour of    *)
(* every service's own specification.  What the proofs of the services     *)
(* show therefore holds of the composition, for every value of the         *)
(* constants, and every service keeps its state within its types.          *)
(***************************************************************************)
EXTENDS MCServices, ServiceProofs, SharingProofs, ScheduleProofs

\* A step of the composition is one of the service it names.
LEMMA OneServiceMoves ==
    ASSUME [ServicesNext]_servicesVars
    PROVE  /\ UNCHANGED component
           /\ [CPNext]_cpVars /\ [CacheNext]_cacheVars /\ [EventsNext]_eventVars
           /\ [HubNext]_hubVars /\ [ThrottleNext]_throttleVars
           /\ [AccessNext]_accessVars /\ [AskNext]_<<evidenceVars, asked>>
           /\ [BackupNext]_backupVars /\ [ReadinessNext]_readinessVars
           /\ [RiskNext]_riskVars /\ [OfflineNext]_offlineVars
<1>1. CASE UNCHANGED servicesVars
  BY <1>1 DEF servicesVars
<1>2. CASE component = "schedule" /\ CPNext /\ Only("schedule")
  BY <1>2 DEF Only, Keeps
<1>3. CASE component = "cache" /\ CacheNext /\ Only("cache")
  BY <1>3 DEF Only, Keeps
<1>4. CASE component = "events" /\ EventsNext /\ Only("events")
  BY <1>4 DEF Only, Keeps
<1>5. CASE component = "hub" /\ HubNext /\ Only("hub")
  BY <1>5 DEF Only, Keeps
<1>6. CASE component = "throttle" /\ ThrottleNext /\ Only("throttle")
  BY <1>6 DEF Only, Keeps
<1>7. CASE component = "access" /\ AccessNext /\ Only("access")
  BY <1>7 DEF Only, Keeps
<1>8. CASE component = "evidence" /\ AskNext /\ Only("evidence")
  BY <1>8 DEF Only, Keeps
<1>9. CASE component = "backup" /\ BackupNext /\ Only("backup")
  BY <1>9 DEF Only, Keeps
<1>10. CASE component = "readiness" /\ ReadinessNext /\ Only("readiness")
  BY <1>10 DEF Only, Keeps
<1>11. CASE component = "risk" /\ RiskNext /\ Only("risk")
  BY <1>11 DEF Only, Keeps
<1>12. CASE component = "offline" /\ OfflineNext /\ Only("offline")
  BY <1>12 DEF Only, Keeps
<1> QED
  BY <1>1, <1>2, <1>3, <1>4, <1>5, <1>6, <1>7, <1>8, <1>9, <1>10, <1>11, <1>12 DEF ServicesNext

\* A behaviour of the composition is one of every service: the schedule and
\* its risk, the cache, the events, the hub, the throttle, the doors, the
\* evidence with its questions, the backup, readiness and the offline queue.
THEOREM EveryServiceRunsItsOwnSpec ==
    ServicesSpec =>
        /\ CPSpec /\ CacheSpec /\ EventsSpec /\ HubSpec /\ ThrottleSpec /\ AccessSpec
        /\ AskSpec /\ EvidenceSpec /\ BackupSpec /\ ReadinessSpec /\ RiskSpec /\ OfflineSpec
<1>1. ServicesInit =>
        /\ CPInit /\ CacheInit /\ EventsInit /\ HubInit /\ ThrottleInit /\ AccessInit
        /\ AskInit /\ EvidenceInit /\ BackupInit /\ ReadinessInit /\ RiskInit /\ OfflineInit
  BY DEF ServicesInit, AskInit
<1>2. [ServicesNext]_servicesVars =>
        /\ [CPNext]_cpVars /\ [CacheNext]_cacheVars /\ [EventsNext]_eventVars
        /\ [HubNext]_hubVars /\ [ThrottleNext]_throttleVars
        /\ [AccessNext]_accessVars /\ [AskNext]_<<evidenceVars, asked>>
        /\ [BackupNext]_backupVars /\ [ReadinessNext]_readinessVars
        /\ [RiskNext]_riskVars /\ [OfflineNext]_offlineVars
  BY OneServiceMoves
<1>3. [AskNext]_<<evidenceVars, asked>> => [EvidenceNext]_evidenceVars
  BY EvidenceIsAsBefore
<1>4. QED
  BY <1>1, <1>2, <1>3, PTL DEF ServicesSpec, CPSpec, CacheSpec, EventsSpec, HubSpec,
     ThrottleSpec, AccessSpec, AskSpec, EvidenceSpec, BackupSpec, ReadinessSpec, RiskSpec,
     OfflineSpec

\* Whichever service a behaviour is of, its state stays within its types.
THEOREM ServicesAreAlwaysTyped ==
    ASSUME BeatsInTime
    PROVE  ServicesSpec => []ServicesTypeOK
<1>1. ServicesSpec => [](component \in Components)
  <2>1. ServicesInit => component \in Components
    BY DEF ServicesInit
  <2>2. component \in Components /\ [ServicesNext]_servicesVars => (component \in Components)'
    BY OneServiceMoves
  <2>3. QED
    BY <2>1, <2>2, PTL DEF ServicesSpec
<1>2. /\ CPInv => CPTypeOK
      /\ CacheInv => CacheTypeOK
      /\ EventsInv => EventsTypeOK
      /\ ThrottleInv => ThrottleTypeOK
      /\ BackupInv => BackupTypeOK
      /\ ReadinessInv => ReadinessTypeOK
  BY DEF CPInv, CacheInv, EventsInv, ThrottleInv, BackupInv, ReadinessInv
<1>3. /\ component \in Components
      /\ CPTypeOK /\ CacheTypeOK /\ EventsTypeOK /\ HubTypeOK /\ ThrottleTypeOK
      /\ AccessTypeOK /\ EvidenceTypeOK /\ AskTypeOK /\ BackupTypeOK /\ ReadinessTypeOK
      /\ RiskTypeOK /\ OfflineTypeOK
      => ServicesTypeOK
  BY DEF ServicesTypeOK, Components
<1>4. QED
  BY <1>1, <1>2, <1>3, EveryServiceRunsItsOwnSpec, CPInvHolds, CacheInvHolds, EventsInvHolds,
     HubIsAlwaysTyped, ThrottleInvHolds, AccessIsAlwaysTyped, AnswersAreAlwaysTyped,
     BackupInvHolds, ReadinessInvHolds, RiskTypes, OfflineIsAlwaysTyped, PTL

\* What every service promises holds of all of them side by side.
THEOREM ServicesKeepTheirPromises ==
    ASSUME BeatsInTime
    PROVE  ServicesSpec =>
               /\ [](DatesAreExact /\ ImpactIsRight /\ CacheIsSound /\ EndIsTold)
               /\ [](HubDelivers /\ ThrottleHolds /\ ProductionIsKeyed)
               /\ [](FiledExactlyOnce /\ ConfidenceIsEarned /\ RestoreIsWhole)
               /\ [](WorkersAreCounted /\ NothingTypedIsLost)
               /\ RiskFollowsDelay
BY EveryServiceRunsItsOwnSpec, DatesAreAlwaysExact, ImpactIsAlwaysRight, CacheIsAlwaysSound,
   EndIsAlwaysTold, HubAlwaysDelivers, BudgetAlwaysHolds, ProductionIsAlwaysKeyed,
   SentIsFiledExactlyOnce, ConfidenceIsAlwaysEarned, RestoreIsAlwaysWhole,
   WorkersAreAlwaysCounted, NothingTypedIsEverLost, RiskAlwaysFollowsDelay, PTL
=============================================================================
