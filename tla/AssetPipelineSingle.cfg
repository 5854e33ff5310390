SPECIFICATION FairSpec
CONSTANTS
    Worker = {w1}
    Part = {p1, p2}
    NoPart = NoPart
    MaxAttempts = 2
    MaxCrashes = 0
    MaxResumes = 2
    MaxOvertaken = 0
    SlowWorkers = FALSE
    EagerResume = FALSE
PROPERTIES
    BuildEnds
