\* Two workers, three partitions, one crash, two resumes once the workers are quiet.
SPECIFICATION Spec
CONSTANTS
    Worker = {w1, w2}
    Part = {p1, p2, p3}
    NoPart = NoPart
    MaxAttempts = 2
    MaxCrashes = 1
    MaxResumes = 2
    MaxOvertaken = 0
    SlowWorkers = FALSE
    EagerResume = FALSE
SYMMETRY WorkerPartSymmetry
INVARIANTS
    TypeOK
    OneBuilder
    FinalizeOnlyComplete
    CompletedIsWhole
    QuietInv
PROPERTIES
    CompletedJobStays
    KeepsPromise
