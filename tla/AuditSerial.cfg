\* Requests come from outside: a database that nobody writes to is at rest.
SPECIFICATION Spec
CONSTANTS
    Tenant = {t1, t2}
    NoTenant = NoTenant
    Request = {q1, q2}
    Body = {b1, b2}
    MaxEntries = 4
    Overlap = {t2}
SYMMETRY Symmetry
CHECK_DEADLOCK FALSE
INVARIANTS
    TypeOK
    SerialVerifies
    ChangeIsDetected
    VerifiedIsTheLoop
