SPECIFICATION Spec
CONSTANTS
    Human = {h1}
    Reporter = {r1}
    Outcome = {"executed", "failed"}
    MaxReceipts = 1
    Reapproval = FALSE
    LossyCalls = TRUE
    ApiCrashes = FALSE
INVARIANTS
    UnconfirmedIsVisible
