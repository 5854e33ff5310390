----------------------------- MODULE AuditChain -----------------------------
(***************************************************************************)
(* The hash-chained audit log of services/audit.py: every request that     *)
(* changes something appends entries to its tenant's chain inside its own  *)
(* transaction, and verify_audit_chain recomputes the chain.               *)
(*                                                                         *)
(* audit() finds the tail with plain reads: nothing locks the tenant's     *)
(* rows and the index on (tenant_id, sequence) is not UNIQUE, so what it   *)
(* does not see are the entries other transactions have yet to commit.     *)
(***************************************************************************)
EXTENDS Naturals, FiniteSets, Functions

CONSTANTS
    Tenant,
    NoTenant,       \* a request that has written nothing
    Request,        \* requests being served at the same time
    Body,           \* what an entry says: actor, action, resource, before, after
    MaxEntries,     \* bound: entries written
    Overlap         \* environment: tenants of which two requests may overlap

ASSUME AuditAssumption ==
    NoTenant \notin Tenant /\ MaxEntries \in Nat /\ Overlap \subseteq Tenant

VARIABLES
    log,        \* the committed rows of audit_logs
    request,    \* each request: its tenant and the rows it has flushed
    written,    \* entries written so far: the clock behind created_at
    tampered    \* per tenant, what was changed behind the application's back

vars == <<log, request, written, tampered>>

Closed == [tenant |-> NoTenant, pending |-> {}]

\* A hash is the fields it was computed from: SHA-256 without collisions.
GENESIS_HASH == <<"genesis">>
NO_HASH      == <<"none">>      \* the empty string of a row of v0.7.0

OrGenesis(hash) == IF hash = NO_HASH THEN GENESIS_HASH ELSE hash

HashWithoutBody(row) ==
    <<row.tenant, row.sequence, OrGenesis(row.prev_hash), row.created>>
compute_entry_hash(row) ==
    <<row.tenant, row.sequence, OrGenesis(row.prev_hash), row.body, row.created>>

\* A row written before the chain existed.
Unchained(row) == row.sequence = 0 /\ row.entry_hash = NO_HASH

LegacyRow(t, body) ==
    [tenant |-> t, sequence |-> 0, prev_hash |-> NO_HASH, entry_hash |-> NO_HASH,
     body |-> body, created |-> 0]

Pending == UNION {request[q].pending : q \in Request}

\* Every row belongs to a tenant, has its place, and is hashed before anybody
\* else can see it, unless it is a legacy row.
IsRow(row, now) ==
    /\ DOMAIN row = {"tenant", "sequence", "prev_hash", "entry_hash", "body", "created"}
    /\ row.tenant \in Tenant /\ row.body \in Body
    /\ row.sequence \in Nat /\ row.created \in 0 .. now
    /\ row.sequence = 0 <=> row.entry_hash = NO_HASH

TypeOK ==
    /\ \A row \in log \cup Pending : IsRow(row, written)
    /\ DOMAIN request = Request
    /\ \A q \in Request : request[q].tenant \in Tenant \/ request[q] = Closed
    /\ written \in 0 .. MaxEntries
    /\ tampered \in [Tenant -> {"no", "inside", "hidden"}]

\* A database of v0.7.0, after the migration of its rows, or a new one.
Init ==
    /\ \E old \in SUBSET Tenant, body \in Body : log = {LegacyRow(t, body) : t \in old}
    /\ request = [q \in Request |-> Closed]
    /\ written = 0
    /\ tampered = [t \in Tenant |-> "no"]

-----------------------------------------------------------------------------
(* Writing.                                                                *)

Latest(row, rows) ==
    \A other \in rows : \/ other.sequence < row.sequence
                        \/ /\ other.sequence = row.sequence
                           /\ other.created <= row.created

\* Variants of the definitions below, each with one plausible slip; see README.
TailOfAnyTenant(t, rows) == {row \in rows : Latest(row, rows)}
NewRowUnhashed(t, sequence, prev_hash, body) ==
    [tenant |-> t, sequence |-> sequence, prev_hash |-> prev_hash,
     entry_hash |-> NO_HASH, body |-> body, created |-> written + 1]

OwnRows(t, rows) == {row \in rows : row.tenant = t}

\* The entry with the highest sequence, and of several the newest.
_tail(t, rows) == {row \in OwnRows(t, rows) : Latest(row, OwnRows(t, rows))}

NewRow(t, sequence, prev_hash, body) ==
    LET row == [tenant |-> t, sequence |-> sequence, prev_hash |-> prev_hash,
                entry_hash |-> NO_HASH, body |-> body, created |-> written + 1] IN
    [row EXCEPT !.entry_hash = compute_entry_hash(row)]

Flush(q, t, row) ==
    request' = [request EXCEPT ![q] = [tenant  |-> t,
                                       pending |-> request[q].pending \cup {row}]]

\* A request sees the committed rows and its own.
Audit(q, t, body) ==
    LET visible == log \cup request[q].pending IN
    /\ request[q].tenant \in {NoTenant, t}
    /\ t \in Overlap \/ \A o \in Request \ {q} : request[o].tenant # t
    /\ written < MaxEntries
    /\ \/ /\ OwnRows(t, visible) = {}
          /\ Flush(q, t, NewRow(t, 1, GENESIS_HASH, body))
       \/ \E previous \in _tail(t, visible) :
             Flush(q, t, NewRow(t, previous.sequence + 1,
                                OrGenesis(previous.entry_hash), body))
    /\ written' = written + 1
    /\ UNCHANGED <<log, tampered>>

Commit(q) ==
    /\ request[q] # Closed
    /\ log' = log \cup request[q].pending
    /\ request' = [request EXCEPT ![q] = Closed]
    /\ UNCHANGED <<written, tampered>>

\* The request fails, and its entries with the change they record.
Rollback(q) ==
    /\ request[q] # Closed
    /\ request' = [request EXCEPT ![q] = Closed]
    /\ UNCHANGED <<log, written, tampered>>

-----------------------------------------------------------------------------
(* Somebody with access to the database changes an entry, once per tenant, *)
(* and then as many of those that follow it as they like: the hash has no  *)
(* key.  The tampering is "hidden" when no entry is left to give it away.  *)

ChainIn(rows, t) == {row \in rows : row.tenant = t /\ ~Unchained(row)}
Chain(t) == ChainIn(log, t)

LastIn(row, rows) == \A other \in rows : other.sequence <= row.sequence

EditEntry(t) ==
    /\ tampered[t] = "no"
    /\ \E row \in Chain(t), body \in Body :
          /\ body # row.body
          /\ log' = (log \ {row}) \cup {[row EXCEPT !.body = body]}
    /\ tampered' = [tampered EXCEPT ![t] = "inside"]
    /\ UNCHANGED <<request, written>>

\* The last entry has no successor to miss it.
DeleteEntry(t) ==
    /\ tampered[t] = "no"
    /\ \E row \in Chain(t) :
          /\ log' = log \ {row}
          /\ tampered' = [tampered EXCEPT ![t] =
                IF LastIn(row, Chain(t)) THEN "hidden" ELSE "inside"]
    /\ UNCHANGED <<request, written>>

\* The row with the place, the link and the hash it needs after the last of
\* those before it.
Before(row, rows) == {other \in rows : other.sequence < row.sequence}

Mended(row, sequence, prev_hash) ==
    LET moved == [row EXCEPT !.sequence = sequence, !.prev_hash = prev_hash] IN
    [moved EXCEPT !.entry_hash = compute_entry_hash(moved)]

MendedAfter(row, rows) ==
    IF Before(row, rows) = {} THEN {Mended(row, 1, GENESIS_HASH)}
    ELSE {Mended(row, previous.sequence + 1, previous.entry_hash) :
             previous \in {last \in Before(row, rows) : LastIn(last, Before(row, rows))}}

MendEntry(t) ==
    /\ tampered[t] = "inside"
    /\ \E row \in Chain(t) : \E new \in MendedAfter(row, Chain(t)) :
          /\ new.entry_hash # row.entry_hash
          /\ log' = (log \ {row}) \cup {new}
          /\ tampered' = [tampered EXCEPT ![t] =
                IF LastIn(row, Chain(t)) THEN "hidden" ELSE "inside"]
    /\ UNCHANGED <<request, written>>

Next ==
    \/ \E q \in Request :
          \/ \E t \in Tenant, body \in Body : Audit(q, t, body)
          \/ Commit(q) \/ Rollback(q)
    \/ \E t \in Tenant : EditEntry(t) \/ DeleteEntry(t) \/ MendEntry(t)

Spec == Init /\ [][Next]_vars

-----------------------------------------------------------------------------
(* Verifying.                                                              *)

\* No sequence twice, and every entry hashes to what it records and follows the
\* one before it, back to the genesis hash.
Linked(rows) ==
    /\ \A row, other \in rows : row.sequence = other.sequence => row = other
    /\ \A row \in rows :
          /\ row.entry_hash = compute_entry_hash(row)
          /\ \/ row.sequence = 1 /\ OrGenesis(row.prev_hash) = GENESIS_HASH
             \/ \E previous \in rows : /\ row.sequence = previous.sequence + 1
                                      /\ OrGenesis(row.prev_hash) = previous.entry_hash

\* What verify_audit_chain answers, as conditions on a set of rows.
Verified(t) == Linked(Chain(t))

\* Variant: newest first.
WrittenAfter(row, other) == row.sequence > other.sequence

\* The ORDER BY of the query.
WrittenBefore(row, other) ==
    \/ row.sequence < other.sequence
    \/ row.sequence = other.sequence /\ row.created < other.created

\* The rows in the order of the query.
InOrder(rows, s) ==
    /\ s \in Bijection(1 .. Cardinality(rows), rows)
    /\ \A i, j \in 1 .. Cardinality(rows) : i < j => ~WrittenBefore(s[j], s[i])

Ordered(rows) == CHOOSE s \in Bijection(1 .. Cardinality(rows), rows) : InOrder(rows, s)

\* The loop over n rows: whether no row has failed yet, and what it expects of
\* the next one.
Passes(row, n) ==
    LET loop[i \in 0 .. n] ==
          IF i = 0
          THEN [ok |-> TRUE, expected_prev |-> GENESIS_HASH, expected_sequence |-> 1]
          ELSE [ok |-> /\ loop[i - 1].ok
                       /\ OrGenesis(row[i].prev_hash) = loop[i - 1].expected_prev
                       /\ row[i].sequence = loop[i - 1].expected_sequence
                       /\ row[i].entry_hash = compute_entry_hash(row[i]),
                expected_prev     |-> row[i].entry_hash,
                expected_sequence |-> loop[i - 1].expected_sequence + 1]
    IN  loop[n].ok

verify_audit_chain(t) == Passes(Ordered(Chain(t)), Cardinality(Chain(t)))

\* The conditions are what the loop of verify_audit_chain decides, on whatever
\* chain: intact, forked, edited or with entries missing.
VerifiedIsTheLoop == \A t \in Tenant : Verified(t) <=> verify_audit_chain(t)

\* "Every audit entry is chained to the previous entry of the same tenant"
\* (audit.py): what the application alone has written verifies.
UntouchedVerifies == \A t \in Tenant : tampered[t] = "no" => Verified(t)

\* The same of the tenants whose requests take turns, whatever the requests of
\* the others do to their own chains.
SerialVerifies == \A t \in Tenant \ Overlap : tampered[t] = "no" => Verified(t)

\* "Editing or deleting a record is therefore detectable" (docs/SECURITY.md),
\* for good, whatever is appended later, until the entries after it have been
\* rewritten up to the last one.  What is hidden is not: a last entry that is
\* deleted, or edited and hashed again, or a whole end of the chain.
ChangeIsDetected == \A t \in Tenant \ Overlap : tampered[t] = "inside" => ~Verified(t)

-----------------------------------------------------------------------------
(* Why the chain holds while the requests of a tenant take turns.          *)

TenantsTakeTurns ==
    \A q, o \in Request : q # o /\ request[q].tenant = request[o].tenant
                            => request[q].tenant \in Overlap \cup {NoTenant}

PendingIsOwn ==
    \A q \in Request : \A row \in request[q].pending : row.tenant = request[q].tenant

\* What a request has flushed extends what is committed.
PendingIsLinked ==
    \A q \in Request : \A t \in Tenant \ Overlap :
        request[q].tenant = t /\ tampered[t] = "no"
            => Linked(ChainIn(log \cup request[q].pending, t))

\* The inductive invariant of the chains whose requests take turns.
ChainInv ==
    /\ TypeOK /\ TenantsTakeTurns /\ PendingIsOwn /\ PendingIsLinked
    /\ SerialVerifies
=============================================================================
