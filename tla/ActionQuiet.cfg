\* One approval, answers that arrive, and an executor that reports up to thrice.
SPECIFICATION FairSpec
CONSTANTS
    Human = {h1}
    Reporter = {r1}
    Outcome = {"executed", "failed"}
    MaxReceipts = 3
    Reapproval = FALSE
    LossyCalls = FALSE
    ApiCrashes = FALSE
INVARIANTS
    UnconfirmedIsVisible
    OneReceipt
PROPERTIES
    OneWayProgression
    DispatchedResolves
