SPECIFICATION ServicesSpec
CONSTANTS
    Schedules <- MCSchedules
    NoActivity = 0
    Ticket = {t1, t2}
    Emitter = {e1, e2, e3}
    MaxStreams = 2
    Replica = {r1, r2}
    Client = {c1, c2}
    Home <- MCHome
    Message = {m1, m2}
    QueueSize = 1
    Server = {"s1", "s2"}
    Hit <- MCHit
    Arrival <- MCArrival
    Limit = 2
    ReadLimit = 2
    AskLimit = 1
    FailOpens = {TRUE, FALSE}
    Deployments <- MCDeployments
    Credentials <- MCCredentials
    Upload = {u1, u2}
    Sheets <- MCSheets
    Photos <- MCPhotos
    Batches <- MCBatches
    Gateways = {TRUE, FALSE}
    HitLimit = 1
    CandidateLimit = 2
    Invented = invented
    Key = {k1, k2}
    Backends = {"local", "s3"}
    MaxRestores = 2
    Process = {p1, p2}
    HeartbeatEvery = 2
    StaleAfter = 4
    Poll = 1
    SocketTimeout = 2
    MaxWakes = 1
    Plan <- MCPlan
    MaxDay = 6
    Tab = {tab1, tab2}
    Note = {n1, n2}
    MaxAccidents = 2
INVARIANTS
    ServicesTypeOK DatesAreExact ImpactIsRight CacheIsSound EndIsTold HubDelivers
    ThrottleHolds ProductionIsKeyed FiledExactlyOnce ConfidenceIsEarned
    RestoreIsWhole WorkersAreCounted NothingTypedIsLost
PROPERTIES
    RiskFollowsDelay
CHECK_DEADLOCK FALSE
