----------------------------- MODULE AssetBuild -----------------------------
(***************************************************************************)
(* What an asset build promises its readers, without workers, leases or    *)
(* counters (docs/architecture/ALPHA_V06.md, "Control-plane rules"): the   *)
(* model is cut into partitions once, a built partition stays built, the   *)
(* manifest is written once all of them are built, and a build is declared *)
(* completed only with such a manifest, and then for good.  A model whose  *)
(* cutting broke off is never declared completed.                          *)
(***************************************************************************)
CONSTANT Part

VARIABLES
    stage,      \* "open", or the terminal status the job shows
    planned,    \* the partitions the model was cut into
    cut,        \* whether they are the whole model
    built,      \* those whose objects are in storage
    listed      \* those the manifest lists

vars == <<stage, planned, cut, built, listed>>

Whole == cut /\ planned # {} /\ built = planned

Init ==
    /\ stage = "open"
    /\ planned = {}
    /\ cut = FALSE
    /\ built = {}
    /\ listed = {}

Plan ==
    /\ planned = {}
    /\ planned' \in SUBSET Part
    /\ cut' \in BOOLEAN
    /\ stage' = IF cut' THEN "open" ELSE "failed"
    /\ UNCHANGED <<built, listed>>

Build(p) ==
    /\ p \in planned \ built
    /\ built' = built \cup {p}
    /\ UNCHANGED <<stage, planned, cut, listed>>

List ==
    /\ Whole
    /\ listed' = planned
    /\ UNCHANGED <<stage, planned, cut, built>>

Publish ==
    /\ Whole /\ listed = planned
    /\ stage' = "completed"
    /\ UNCHANGED <<planned, cut, built, listed>>

\* Failure, cancellation, resumption, and the late commit of a planner whose
\* job was cancelled under it.
Interrupt ==
    /\ stage # "completed"
    /\ stage' \in {"open", "failed", "cancelled"}
    /\ UNCHANGED <<planned, cut, built, listed>>

Next == Plan \/ (\E p \in Part : Build(p)) \/ List \/ Publish \/ Interrupt

Spec == Init /\ [][Next]_vars
=============================================================================
