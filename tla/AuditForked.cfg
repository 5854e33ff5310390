SPECIFICATION Spec
CONSTANTS
    Tenant = {t1}
    NoTenant = NoTenant
    Request = {q1, q2}
    Body = {b1}
    MaxEntries = 2
    Overlap = {t1}
CHECK_DEADLOCK FALSE
INVARIANTS
    UntouchedVerifies
