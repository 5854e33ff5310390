\* Leases run out under live workers, and a user resumes while they are busy.
SPECIFICATION FairSpec
CONSTANTS
    Worker = {w1, w2}
    Part = {p1}
    NoPart = NoPart
    MaxAttempts = 2
    MaxCrashes = 1
    MaxResumes = 1
    MaxOvertaken = 1
    SlowWorkers = TRUE
    EagerResume = TRUE
INVARIANTS
    AttemptsBounded
    ClaimedHasLease
    ListedIsStored
PROPERTIES
    LeasesRecovered
    CancelEnds
