SPECIFICATION FairSpec
CONSTANTS
    Worker = {w1, w2}
    Part = {p1, p2}
    NoPart = NoPart
    MaxAttempts = 2
    MaxCrashes = 0
    MaxResumes = 0
    MaxOvertaken = 0
    SlowWorkers = FALSE
    EagerResume = FALSE
PROPERTIES AllBuiltIsFinalized
