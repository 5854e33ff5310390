----------------------------- MODULE MCServices -----------------------------
(***************************************************************************)
(* The services around the pipeline, each on a small instance of its own.  *)
(* They share no state with each other, so a behaviour is one of the       *)
(* service that `component` names; the others keep an initial state.       *)
(***************************************************************************)
EXTENDS CriticalPath, AssetCache, JobEvents, RealtimeHub, Throttle,
        AccessControl, AskTwin, Backup, Readiness, ScheduleRisk, OfflineComments,
        Integers

VARIABLE component

Components == {"schedule", "cache", "events", "hub", "throttle", "access",
               "evidence", "backup", "readiness", "risk", "offline"}

(* Every logic of three activities with finish-to-start links, circular    *)
(* logic, two links of any types with a lead or a lag, a diamond, a chain  *)
(* beside a wait, a predecessor listed twice, and a slip that is absorbed  *)
(* by one of two successors only.                                          *)
Joined(p, c) == [from |-> p[1], to |-> p[2], type |-> c.type, lag |-> c.lag,
                 place |-> p[1]]

LinkSets(pairs, lags, types) ==
    UNION {{{Joined(p, c[p]) : p \in some} : c \in [some -> [type : types, lag : lags]]}
           : some \in SUBSET pairs}

Schedule(acts, links, durations, slips) ==
    [activities : {acts}, duration : [acts -> durations], slip : [acts -> slips],
     links : links]

FS(pairs) == {Joined(p, [type |-> "FS", lag |-> 0]) : p \in pairs}
Diamond == FS({<<1, 2>>, <<1, 3>>, <<2, 4>>, <<3, 4>>})
Chain == FS({<<1, 2>>, <<2, 3>>, <<3, 4>>})

MCSchedules ==
    Schedule({1, 2, 3}, LinkSets({<<1, 2>>, <<1, 3>>, <<2, 3>>}, {0, 2}, {"FS"}), {1, 2}, {0, 2})
    \cup Schedule({1, 2, 3}, LinkSets({<<1, 2>>, <<2, 3>>, <<3, 2>>, <<2, 1>>}, {0}, {"FS"}), {1}, {0})
    \cup Schedule({1, 2, 3}, LinkSets({<<1, 2>>, <<1, 3>>}, {-1, 1}, LINK_TYPES), {1, 3}, {0})
    \cup Schedule({1, 2, 3, 4}, {Diamond \cup more : more \in LinkSets({<<2, 3>>}, {0, 2}, {"FS"})},
                  {1, 2}, {0, 2})
    \cup Schedule({1, 2, 3, 4}, {Chain \cup {Joined(<<1, 4>>, [type |-> "FS", lag |-> 4])}}, {1}, {0, 2})
    \cup Schedule({1, 2}, {FS({<<1, 2>>}) \cup {[Joined(<<1, 2>>, c) EXCEPT !.place = n]}
                          : c \in [type : {"FS", "SS"}, lag : {2}], n \in {0, 2}}, {1, 2}, {0, 2})
    \cup {[activities |-> {1, 2, 3, 4}, duration |-> [a \in {1, 2, 3, 4} |-> IF a = 4 THEN 6 ELSE 1],
           slip |-> [a \in {1, 2, 3, 4} |-> IF a = 1 THEN 3 ELSE 0],
           links |-> FS({<<1, 2>>, <<1, 3>>, <<4, 3>>})]}

MCHome == [c \in Client |-> CHOOSE r \in Replica : TRUE]

(* Two questions at one process and a member's request at another.         *)
MCArrival == [q1 |-> [at |-> "s1", kind |-> "ask"], q2 |-> [at |-> "s1", kind |-> "ask"],
              q3 |-> [at |-> "s2", kind |-> "member"]]
MCHit == DOMAIN MCArrival

MCDeployments ==
    [production : BOOLEAN, mode : {"headers", "jwt", "oidc", "hybrid"}, dev : BOOLEAN,
     secret : BOOLEAN, issuer : BOOLEAN, client : {TRUE}, default : BOOLEAN, rest : {TRUE}]

MCCredentials ==
    [by : {"key"}, kind : {"key", "other"}, tenant : BOOLEAN,
     roles : {<<>>, <<"service_executor">>, <<"owner">>}]
    \cup [by : {"bearer"}, kind : {"jwt", "oidc", "other"}, tenant : BOOLEAN,
          roles : {<<>>, <<"owner", "project_manager", "viewer">>}]
    \cup [by : {"headers"}, kind : {"none"}, tenant : {TRUE},
          roles : {<<>>, <<"ai_agent">>, <<"owner">>}]

(* Two sheets of one station with the same first item, one with a template *)
(* row and a free-text row, the other with a record that it repeats.       *)
Cells(own, text, other, ref) == [own |-> own, text |-> text, free |-> other, ref |-> ref]
TitleLine(text, label) == [text |-> text, label |-> label]

MCSheets ==
    {[lines |-> <<TitleLine("Weekly", ""), TitleLine("RS01 list", "RS01")>>, type |-> "punch_list",
      rows |-> <<Cells("", "tiles", "", ""), Cells("", "", "doors", "A1"), Cells("", "", "", "")>>],
     [lines |-> <<TitleLine("RS01 snags", "RS01")>>, type |-> "punch_list",
      rows |-> <<Cells("", "tiles", "", ""), Cells("N-1", "crack", "", ""), Cells("N-1", "crack", "", "")>>]}

MCPhotos == {[object |-> "p1", caption |-> "slab", taken |-> 1, ref |-> ""],
             [object |-> "p2", caption |-> "slab", taken |-> 0, ref |-> "A1"]}

MCBatches == LET rain == [type |-> "weather", id |-> "w1", text |-> "rain"]
             IN  {[records |-> <<rain, rain>>]}

MCPlan == LET Days(from, to, critical) ==
                  [start |-> from, finish |-> to, critical |-> critical]
          IN  <<Days(3, 5, TRUE), Days(2, 4, FALSE), Days(1, 2, TRUE)>>
-----------------------------------------------------------------------------
AnySchedule == CHOOSE s \in MCSchedules : TRUE
AnyDeployment == CHOOSE d \in MCDeployments : TRUE

Rests(c) == component # c

ServicesInit ==
    /\ component \in Components
    /\ CPInit /\ (Rests("schedule") => net = AnySchedule)
    /\ CacheInit /\ (Rests("cache") => ~overlap)
    /\ EventsInit
    /\ HubInit /\ (Rests("hub") => redis)
    /\ ThrottleInit /\ (Rests("throttle") => redisUp /\ failOpen)
    /\ AccessInit /\ (Rests("access") => settings = AnyDeployment)
    /\ AskInit /\ (Rests("evidence") => ~crowded /\ asked.gateway)
    /\ BackupInit /\ (Rests("backup") => backend = "local")
    /\ ReadinessInit
    /\ RiskInit
    /\ OfflineInit /\ (Rests("offline") => onLine)

Keeps(c, vars) == IF component = c THEN TRUE ELSE UNCHANGED vars

\* Whatever is not of the named service stays as it is.
Only(c) ==
    /\ component = c /\ UNCHANGED component
    /\ Keeps("schedule", cpVars) /\ Keeps("cache", cacheVars)
    /\ Keeps("events", eventVars) /\ Keeps("hub", hubVars)
    /\ Keeps("throttle", throttleVars) /\ Keeps("access", accessVars)
    /\ Keeps("evidence", <<evidenceVars, asked>>) /\ Keeps("backup", backupVars)
    /\ Keeps("readiness", readinessVars) /\ Keeps("risk", riskVars)
    /\ Keeps("offline", offlineVars)

ServicesNext ==
    \/ component = "schedule" /\ CPNext /\ Only("schedule")
    \/ component = "cache" /\ CacheNext /\ Only("cache")
    \/ component = "events" /\ EventsNext /\ Only("events")
    \/ component = "hub" /\ HubNext /\ Only("hub")
    \/ component = "throttle" /\ ThrottleNext /\ Only("throttle")
    \/ component = "access" /\ AccessNext /\ Only("access")
    \/ component = "evidence" /\ AskNext /\ Only("evidence")
    \/ component = "backup" /\ BackupNext /\ Only("backup")
    \/ component = "readiness" /\ ReadinessNext /\ Only("readiness")
    \/ component = "risk" /\ RiskNext /\ Only("risk")
    \/ component = "offline" /\ OfflineNext /\ Only("offline")

servicesVars == <<component, cpVars, cacheVars, eventVars, hubVars, throttleVars,
                  accessVars, evidenceVars, asked, backupVars, readinessVars, riskVars,
                  offlineVars>>

ServicesSpec == ServicesInit /\ [][ServicesNext]_servicesVars
-----------------------------------------------------------------------------
\* Every service keeps its state within its types.
ServicesTypeOK ==
    CASE component = "schedule" -> CPTypeOK
      [] component = "cache" -> CacheTypeOK
      [] component = "events" -> EventsTypeOK
      [] component = "hub" -> HubTypeOK
      [] component = "throttle" -> ThrottleTypeOK
      [] component = "access" -> AccessTypeOK
      [] component = "evidence" -> EvidenceTypeOK /\ AskTypeOK
      [] component = "backup" -> BackupTypeOK
      [] component = "readiness" -> ReadinessTypeOK
      [] component = "risk" -> RiskTypeOK
      [] component = "offline" -> OfflineTypeOK
=============================================================================
