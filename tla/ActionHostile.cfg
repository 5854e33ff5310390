\* Two people at once, repeated approvals, lost answers, rehearsals and crashes.
SPECIFICATION FairSpec
CONSTANTS
    Human = {h1, h2}
    Reporter = {r1}
    Outcome = {"executed", "failed", "dry_run"}
    MaxReceipts = 2
    Reapproval = TRUE
    LossyCalls = TRUE
    ApiCrashes = TRUE
INVARIANTS
    TypeOK
    ExecutedMeansDelivered
    SentMeansApproved
    DeliveredOnce
PROPERTIES
    UnconfirmedIsListed
