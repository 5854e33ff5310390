SPECIFICATION FairSpec
CONSTANTS
    Worker = {w1}
    Part = {p1}
    NoPart = NoPart
    MaxAttempts = 2
    MaxCrashes = 1
    MaxResumes = 0
    MaxOvertaken = 0
    SlowWorkers = FALSE
    EagerResume = FALSE
PROPERTIES FinalizationRecovered
