-------------------------- MODULE AuditChainProofs --------------------------
(***************************************************************************)
(* Theorems about AuditChain for any number of tenants, requests and       *)
(* entries.                                                                *)
(***************************************************************************)
EXTENDS AuditChain, DataLemmas

\* A hash of fields is never the empty string of a legacy row.
LEMMA HashIsReal ==
    ASSUME NEW row
    PROVE  compute_entry_hash(row) # NO_HASH
BY DEF compute_entry_hash, NO_HASH

\* The fields of a new row.
LEMMA NewRowFields ==
    ASSUME NEW t, NEW sequence, NEW prev_hash, NEW body
    PROVE  LET row == NewRow(t, sequence, prev_hash, body) IN
           /\ row.tenant = t /\ row.sequence = sequence /\ row.body = body
           /\ row.prev_hash = prev_hash /\ row.created = written + 1
           /\ row.entry_hash = compute_entry_hash(row)
BY DEF NewRow, compute_entry_hash

\* An entry after the last one, or the first one, extends a linked chain.
LEMMA Extend ==
    ASSUME NEW rows, NEW new, Linked(rows),
           \A row \in rows : row.sequence \in Nat /\ row.sequence < new.sequence,
           new.entry_hash = compute_entry_hash(new),
           \/ new.sequence = 1 /\ OrGenesis(new.prev_hash) = GENESIS_HASH
           \/ \E previous \in rows : /\ new.sequence = previous.sequence + 1
                                     /\ OrGenesis(new.prev_hash) = previous.entry_hash
    PROVE  Linked(rows \cup {new})
<1>1. ASSUME NEW row \in rows \cup {new}, NEW other \in rows \cup {new},
             row.sequence = other.sequence
      PROVE  row = other
  BY <1>1 DEF Linked
<1>2. ASSUME NEW row \in rows \cup {new}
      PROVE  /\ row.entry_hash = compute_entry_hash(row)
             /\ \/ row.sequence = 1 /\ OrGenesis(row.prev_hash) = GENESIS_HASH
                \/ \E previous \in rows \cup {new} :
                      /\ row.sequence = previous.sequence + 1
                      /\ OrGenesis(row.prev_hash) = previous.entry_hash
  BY <1>2 DEF Linked
<1>3. QED
  BY <1>1, <1>2 DEF Linked

-----------------------------------------------------------------------------
(* Types.                                                                  *)

LEMMA TypeInit == Init => TypeOK
<1> SUFFICES ASSUME Init PROVE TypeOK
  OBVIOUS
<1>1. Pending = {}
  BY DEF Init, Pending, Closed
<1>2. \A row \in log : IsRow(row, written)
  BY DEF Init, IsRow, LegacyRow
<1>3. QED
  BY <1>1, <1>2, AuditAssumption DEF Init, TypeOK, AuditAssumption

\* new is the entry after the chain rows.
Follows(new, rows) ==
    /\ new.entry_hash = compute_entry_hash(new)
    /\ \A row \in rows : row.sequence \in Nat /\ row.sequence < new.sequence
    /\ \/ new.sequence = 1 /\ OrGenesis(new.prev_hash) = GENESIS_HASH
       \/ \E previous \in rows : /\ new.sequence = previous.sequence + 1
                                 /\ OrGenesis(new.prev_hash) = previous.entry_hash

\* What Audit flushes is a row, chained to what the request sees.
LEMMA AuditCases ==
    ASSUME TypeOK, NEW q \in Request, NEW t \in Tenant, NEW body \in Body,
           Audit(q, t, body)
    PROVE  \E new : /\ Flush(q, t, new)
                    /\ IsRow(new, written') /\ new.tenant = t /\ ~Unchained(new)
                    /\ Follows(new, ChainIn(log \cup request[q].pending, t))
<1> DEFINE visible == log \cup request[q].pending
           own == OwnRows(t, visible)
           chain == ChainIn(visible, t)
<1>1. \A row \in visible : IsRow(row, written)
  BY DEF TypeOK, Pending
<1>2. ASSUME NEW sequence \in Nat \ {0}, NEW prev_hash,
             NEW new, new = NewRow(t, sequence, prev_hash, body)
      PROVE  /\ IsRow(new, written') /\ new.tenant = t /\ ~Unchained(new)
             /\ new.entry_hash = compute_entry_hash(new)
             /\ new.sequence = sequence /\ new.prev_hash = prev_hash
  <2>1. /\ new.tenant = t /\ new.sequence = sequence /\ new.body = body
        /\ new.prev_hash = prev_hash /\ new.created = written + 1
        /\ new.entry_hash = compute_entry_hash(new)
    BY NewRowFields, <1>2
  <2>2. DOMAIN new = {"tenant", "sequence", "prev_hash", "entry_hash", "body", "created"}
    BY <1>2 DEF NewRow
  <2>3. new.entry_hash # NO_HASH
    BY <2>1, HashIsReal
  <2>4. new.created \in 0 .. written'
    BY <2>1 DEF Audit, TypeOK
  <2>5. IsRow(new, written')
    BY <2>1, <2>2, <2>3, <2>4 DEF IsRow
  <2>6. QED
    BY <2>1, <2>3, <2>5 DEF Unchained
<1>3. CASE own = {} /\ Flush(q, t, NewRow(t, 1, GENESIS_HASH, body))
  <2> DEFINE new == NewRow(t, 1, GENESIS_HASH, body)
  <2>1. 1 \in Nat \ {0}
    OBVIOUS
  <2> HIDE DEF new
  <2>2. /\ IsRow(new, written') /\ new.tenant = t /\ ~Unchained(new)
        /\ new.entry_hash = compute_entry_hash(new)
        /\ new.sequence = 1 /\ new.prev_hash = GENESIS_HASH
    BY <1>2, <2>1 DEF new
  <2>3. chain = {}
    BY <1>3 DEF OwnRows, ChainIn
  <2>4. Follows(new, chain)
    BY <2>2, <2>3 DEF Follows, OrGenesis
  <2>5. QED
    BY <1>3, <2>2, <2>4 DEF new
<1>4. ASSUME NEW previous \in _tail(t, visible),
             Flush(q, t, NewRow(t, previous.sequence + 1,
                                OrGenesis(previous.entry_hash), body))
      PROVE  \E new : /\ Flush(q, t, new)
                      /\ IsRow(new, written') /\ new.tenant = t /\ ~Unchained(new)
                      /\ Follows(new, chain)
  <2> DEFINE sequence == previous.sequence + 1
             prev_hash == OrGenesis(previous.entry_hash)
             new == NewRow(t, sequence, prev_hash, body)
  <2>1. /\ previous \in visible /\ previous.tenant = t /\ IsRow(previous, written)
        /\ \A row \in own : row.sequence <= previous.sequence
    BY <1>1 DEF _tail, Latest, OwnRows, IsRow
  <2>2. sequence \in Nat \ {0}
    BY <2>1 DEF IsRow
  <2> HIDE DEF new
  <2>3. /\ IsRow(new, written') /\ new.tenant = t /\ ~Unchained(new)
        /\ new.entry_hash = compute_entry_hash(new)
        /\ new.sequence = sequence /\ new.prev_hash = prev_hash
    BY <1>2, <2>2 DEF new
  <2>4. ASSUME NEW row \in chain
        PROVE  row.sequence \in Nat /\ row.sequence < new.sequence
    <3>1. row \in own /\ IsRow(row, written)
      BY <1>1 DEF ChainIn, OwnRows
    <3>2. QED
      BY <2>1, <2>3, <3>1 DEF IsRow
  <2>5. CASE Unchained(previous)
    <3>1. sequence = 1 /\ OrGenesis(prev_hash) = GENESIS_HASH
      BY <2>5 DEF Unchained, OrGenesis
    <3>2. Follows(new, chain)
      BY <2>3, <2>4, <3>1 DEF Follows
    <3>3. QED
      BY <2>3, <3>2, <1>4 DEF new
  <2>6. CASE ~Unchained(previous)
    <3>1. previous \in chain /\ previous.entry_hash # NO_HASH
      BY <2>1, <2>6 DEF ChainIn, Unchained, IsRow
    <3>2. OrGenesis(prev_hash) = previous.entry_hash
      BY <3>1 DEF OrGenesis
    <3>3. Follows(new, chain)
      BY <2>3, <2>4, <3>1, <3>2 DEF Follows
    <3>4. QED
      BY <2>3, <3>3, <1>4 DEF new
  <2>7. QED
    BY <2>5, <2>6
<1>5. QED
  BY <1>3, <1>4 DEF Audit

\* Whoever changes a tenant's chain puts at most one row in the place of
\* another, no later in the chain.
Tampering(t) == EditEntry(t) \/ DeleteEntry(t) \/ MendEntry(t)

LEMMA MendedFields ==
    ASSUME NEW now, NEW row, IsRow(row, now), ~Unchained(row),
           NEW sequence \in Nat \ {0}, NEW prev_hash
    PROVE  LET new == Mended(row, sequence, prev_hash) IN
           /\ IsRow(new, now) /\ ~Unchained(new)
           /\ new.tenant = row.tenant /\ new.sequence = sequence
           /\ new.prev_hash = prev_hash /\ new.body = row.body
           /\ new.entry_hash = compute_entry_hash(new)
<1> DEFINE moved == [row EXCEPT !.sequence = sequence, !.prev_hash = prev_hash]
           new == Mended(row, sequence, prev_hash)
<1>1. /\ moved.tenant = row.tenant /\ moved.sequence = sequence
      /\ moved.prev_hash = prev_hash /\ moved.body = row.body
      /\ moved.created = row.created /\ DOMAIN moved = DOMAIN row
  BY DEF IsRow
<1>2. new = [moved EXCEPT !.entry_hash = compute_entry_hash(moved)]
  BY DEF Mended
<1> HIDE DEF moved, new
<1>3. /\ new.tenant = row.tenant /\ new.sequence = sequence
      /\ new.prev_hash = prev_hash /\ new.body = row.body
      /\ new.created = row.created /\ DOMAIN new = DOMAIN row
      /\ new.entry_hash = compute_entry_hash(moved)
  BY <1>1, <1>2 DEF IsRow
<1>4. compute_entry_hash(new) = compute_entry_hash(moved)
  BY <1>1, <1>3 DEF compute_entry_hash
<1>5. new.entry_hash # NO_HASH
  BY <1>3, HashIsReal
<1>6. IsRow(new, now) /\ ~Unchained(new)
  BY <1>3, <1>5 DEF IsRow, Unchained
<1> QED BY <1>3, <1>4, <1>6 DEF new

\* Where a mended row goes: first, or after the last of those before it.
LEMMA MendedWhere ==
    ASSUME NEW rows, \A row \in rows : row.sequence \in Nat \ {0},
           NEW row \in rows, NEW new \in MendedAfter(row, rows)
    PROVE  \E sequence, prev_hash :
              /\ sequence \in Nat \ {0}
              /\ new = Mended(row, sequence, prev_hash)
              /\ sequence <= row.sequence
              /\ \A other \in Before(row, rows) : other.sequence < sequence
              /\ \/ sequence = 1 /\ prev_hash = GENESIS_HASH
                 \/ \E previous \in Before(row, rows) :
                       sequence = previous.sequence + 1 /\ prev_hash = previous.entry_hash
<1>1. \A other \in rows : other.sequence \in Nat \ {0}
  OBVIOUS
<1>2. CASE Before(row, rows) = {}
  <2>1. new = Mended(row, 1, GENESIS_HASH) /\ 1 <= row.sequence
    BY <1>1, <1>2 DEF MendedAfter
  <2> QED BY <1>2, <2>1
<1>3. CASE Before(row, rows) # {}
  <2>1. PICK previous \in Before(row, rows) :
               /\ LastIn(previous, Before(row, rows))
               /\ new = Mended(row, previous.sequence + 1, previous.entry_hash)
    BY <1>3 DEF MendedAfter
  <2>2. /\ previous.sequence \in Nat /\ previous.sequence + 1 \in Nat \ {0}
        /\ previous.sequence + 1 <= row.sequence
    BY <1>1 DEF Before
  <2>3. \A other \in Before(row, rows) : other.sequence < previous.sequence + 1
    BY <1>1, <2>1, <2>2 DEF LastIn, Before
  <2> QED BY <2>1, <2>2, <2>3
<1> QED BY <1>2, <1>3

LEMMA TamperedRow ==
    ASSUME TypeOK, NEW t \in Tenant, Tampering(t)
    PROVE  \E old \in Chain(t) :
              \/ log' = log \ {old}
              \/ \E new : /\ IsRow(new, written) /\ new.tenant = t /\ ~Unchained(new)
                          /\ new.sequence <= old.sequence
                          /\ log' = (log \ {old}) \cup {new}
<1>1. \A row \in Chain(t) : IsRow(row, written) /\ row.tenant = t /\ ~Unchained(row)
  BY DEF Chain, ChainIn, TypeOK
<1>2. CASE EditEntry(t)
  <2>1. PICK row \in Chain(t), body \in Body :
               log' = (log \ {row}) \cup {[row EXCEPT !.body = body]}
    BY <1>2 DEF EditEntry
  <2> DEFINE new == [row EXCEPT !.body = body]
  <2>2. IsRow(new, written) /\ new.tenant = t /\ ~Unchained(new) /\ new.sequence <= row.sequence
    BY <1>1 DEF IsRow, Unchained
  <2> QED BY <2>1, <2>2
<1>3. CASE DeleteEntry(t)
  BY <1>3 DEF DeleteEntry
<1>4. CASE MendEntry(t)
  <2>1. PICK row \in Chain(t) : \E new \in MendedAfter(row, Chain(t)) :
                                   log' = (log \ {row}) \cup {new}
    BY <1>4 DEF MendEntry
  <2>2. PICK new \in MendedAfter(row, Chain(t)) : log' = (log \ {row}) \cup {new}
    BY <2>1
  <2>3. PICK sequence, prev_hash :
               /\ sequence \in Nat \ {0}
               /\ new = Mended(row, sequence, prev_hash)
               /\ sequence <= row.sequence
    <3> DEFINE rows == Chain(t)
    <3>1. \A other \in rows : other.sequence \in Nat \ {0}
      BY <1>1 DEF IsRow, Unchained
    <3>2. row \in rows /\ new \in MendedAfter(row, rows)
      BY <2>2
    <3> HIDE DEF rows
    <3> QED BY <3>1, <3>2, MendedWhere
  <2>4. IsRow(new, written) /\ new.tenant = t /\ ~Unchained(new) /\ new.sequence = sequence
    <3>1. IsRow(row, written) /\ row.tenant = t /\ ~Unchained(row)
      BY <1>1
    <3>2. LET it == Mended(row, sequence, prev_hash) IN
          /\ IsRow(it, written) /\ ~Unchained(it)
          /\ it.tenant = row.tenant /\ it.sequence = sequence
      BY <2>3, <3>1, MendedFields
    <3> QED BY <2>3, <3>1, <3>2
  <2> QED BY <2>2, <2>3, <2>4
<1> QED BY <1>2, <1>3, <1>4 DEF Tampering

LEMMA TypeNext == TypeOK /\ [Next]_vars => TypeOK'
<1> SUFFICES ASSUME TypeOK, [Next]_vars PROVE TypeOK'
  OBVIOUS
<1>1. ASSUME NEW q \in Request, NEW t \in Tenant, NEW body \in Body,
             Audit(q, t, body)
      PROVE  TypeOK'
  <2>1. PICK new : Flush(q, t, new) /\ IsRow(new, written')
    BY <1>1, AuditCases
  <2>2. Pending' \subseteq Pending \cup {new}
    BY <2>1 DEF Flush, Pending, TypeOK
  <2>3. written' \in 0 .. MaxEntries /\ written' >= written
    BY <1>1, AuditAssumption DEF Audit, TypeOK, AuditAssumption
  <2>4. ASSUME NEW row \in log \cup Pending PROVE IsRow(row, written')
    BY <2>3 DEF TypeOK, IsRow
  <2>5. /\ DOMAIN request' = Request
        /\ \A o \in Request : request'[o].tenant \in Tenant \/ request'[o] = Closed
    BY <2>1 DEF Flush, TypeOK
  <2>6. QED
    BY <1>1, <2>1, <2>2, <2>3, <2>4, <2>5 DEF Audit, TypeOK
<1>2. ASSUME NEW q \in Request, Commit(q) PROVE TypeOK'
  <2>1. (log \cup Pending)' \subseteq log \cup Pending
    BY <1>2 DEF Commit, Pending, Closed, TypeOK
  <2>2. QED
    BY <1>2, <2>1 DEF Commit, TypeOK
<1>3. ASSUME NEW q \in Request, Rollback(q) PROVE TypeOK'
  <2>1. (log \cup Pending)' \subseteq log \cup Pending
    BY <1>3 DEF Rollback, Pending, Closed, TypeOK
  <2>2. QED
    BY <1>3, <2>1 DEF Rollback, TypeOK
<1>4. ASSUME NEW t \in Tenant, Tampering(t) PROVE TypeOK'
  <2>1. PICK old \in Chain(t) :
               \/ log' = log \ {old}
               \/ \E new : IsRow(new, written) /\ log' = (log \ {old}) \cup {new}
    BY <1>4, TamperedRow
  <2>2. \A row \in log' : IsRow(row, written)
    BY <2>1 DEF TypeOK
  <2>3. request' = request /\ written' = written
    BY <1>4 DEF Tampering, EditEntry, DeleteEntry, MendEntry
  <2>4. tampered' \in [Tenant -> {"no", "inside", "hidden"}]
    BY <1>4 DEF Tampering, EditEntry, DeleteEntry, MendEntry, TypeOK
  <2> QED BY <2>2, <2>3, <2>4 DEF TypeOK, Pending
<1>6. CASE UNCHANGED vars
  BY <1>6 DEF vars, TypeOK, Pending
<1>7. QED
  BY <1>1, <1>2, <1>3, <1>4, <1>6 DEF Next, Tampering

\* The rows, the requests and the clock stay within their types, and every row
\* that is not a legacy row has been hashed.
THEOREM TypeCorrect == Spec => []TypeOK
<1>1. Init => TypeOK
  BY TypeInit
<1>2. TypeOK /\ [Next]_vars => TypeOK'
  BY TypeNext
<1>3. QED
  BY <1>1, <1>2, PTL DEF Spec

-----------------------------------------------------------------------------
(* What the application alone writes verifies.                             *)

LEMMA ChainInit == Init => ChainInv
<1> SUFFICES ASSUME Init PROVE ChainInv
  OBVIOUS
<1>1. \A t \in Tenant : Chain(t) = {}
  <2>1. ASSUME NEW row \in log PROVE Unchained(row)
    <3>1. PICK t \in Tenant, body \in Body : row = LegacyRow(t, body)
      BY DEF Init
    <3>2. row.sequence = 0 /\ row.entry_hash = NO_HASH
      BY <3>1 DEF LegacyRow
    <3>3. QED
      BY <3>2 DEF Unchained
  <2>2. QED
    BY <2>1 DEF Chain, ChainIn
<1>2. SerialVerifies
  BY <1>1 DEF SerialVerifies, Verified, Linked
<1>3. \A q \in Request : request[q].tenant = NoTenant /\ request[q].pending = {}
  BY DEF Init, Closed
<1>4. TenantsTakeTurns /\ PendingIsOwn /\ PendingIsLinked
  BY <1>3, AuditAssumption
     DEF TenantsTakeTurns, PendingIsOwn, PendingIsLinked, AuditAssumption
<1>5. QED
  BY <1>2, <1>4, TypeInit DEF ChainInv

\* Audit by a request that has the tenant to itself, if the tenant takes turns.
LEMMA ChainAudit ==
    ASSUME ChainInv,
           NEW q \in Request, NEW t \in Tenant, NEW body \in Body, Audit(q, t, body)
    PROVE  TenantsTakeTurns' /\ PendingIsOwn' /\ PendingIsLinked' /\ SerialVerifies'
<1>a. TypeOK
  BY DEF ChainInv
<1>1. PICK new : /\ Flush(q, t, new) /\ new.tenant = t /\ ~Unchained(new)
                 /\ Follows(new, ChainIn(log \cup request[q].pending, t))
  BY <1>a, AuditCases
<1>2. /\ request'[q].tenant = t
      /\ request'[q].pending = request[q].pending \cup {new}
      /\ \A o \in Request \ {q} : request'[o] = request[o]
      /\ t \in Overlap \/ \A o \in Request \ {q} : request[o].tenant # t
      /\ log' = log /\ tampered' = tampered
  BY <1>a, <1>1 DEF Flush, Audit, TypeOK
<1>3. TenantsTakeTurns'
  BY <1>2 DEF TenantsTakeTurns, ChainInv
<1>4. request[q].pending = {} \/ request[q].tenant = t
  BY <1>a, AuditAssumption DEF Audit, TypeOK, Closed, AuditAssumption
<1>5. PendingIsOwn'
  BY <1>1, <1>2, <1>4 DEF PendingIsOwn, ChainInv
<1>6. SerialVerifies'
  BY <1>2 DEF SerialVerifies, Verified, Chain, ChainInv
<1>7. ASSUME tampered[t] = "no", t \notin Overlap
      PROVE  Linked(ChainIn(log \cup request'[q].pending, t))
  <2> DEFINE chain == ChainIn(log \cup request[q].pending, t)
  <2>1. Linked(chain)
    <3>1. CASE request[q].tenant = t
      BY <1>7, <3>1 DEF ChainInv, PendingIsLinked
    <3>2. CASE request[q].pending = {}
      BY <1>7, <3>2 DEF ChainInv, SerialVerifies, Verified, Chain
    <3>3. QED
      BY <1>4, <3>1, <3>2
  <2>2. ChainIn(log \cup request'[q].pending, t) = chain \cup {new}
    BY <1>1, <1>2 DEF ChainIn
  <2> HIDE DEF chain
  <2>3. Linked(chain \cup {new})
    BY <1>1, <2>1, Extend DEF Follows, chain
  <2>4. QED
    BY <2>2, <2>3
<1>8. PendingIsLinked'
  BY <1>2, <1>7 DEF PendingIsLinked, ChainInv
<1>9. QED
  BY <1>3, <1>5, <1>6, <1>8

\* What Commit adds to the log, its tenant's chain was already checked with, and
\* no other chain notices.
LEMMA ChainCommit ==
    ASSUME ChainInv, NEW q \in Request, Commit(q)
    PROVE  TenantsTakeTurns' /\ PendingIsOwn' /\ PendingIsLinked' /\ SerialVerifies'
<1>1. /\ request'[q] = Closed
      /\ \A o \in Request \ {q} : request'[o] = request[o]
      /\ log' = log \cup request[q].pending /\ tampered' = tampered
  BY DEF Commit, ChainInv, TypeOK
<1>2. TenantsTakeTurns' /\ PendingIsOwn'
  BY <1>1 DEF TenantsTakeTurns, PendingIsOwn, ChainInv, Closed
<1>3. ASSUME NEW t \in Tenant, request[q].tenant # t, NEW rows
      PROVE  ChainIn(log' \cup rows, t) = ChainIn(log \cup rows, t)
  BY <1>1, <1>3 DEF ChainIn, PendingIsOwn, ChainInv
<1>4. ASSUME NEW t \in Tenant \ Overlap, tampered[t] = "no"
      PROVE  Linked(ChainIn(log', t))
  <2>1. CASE request[q].tenant = t
    BY <1>1, <1>4, <2>1 DEF ChainInv, PendingIsLinked
  <2>2. CASE request[q].tenant # t
    <3>1. ChainIn(log' \cup {}, t) = ChainIn(log \cup {}, t)
      BY <1>3, <2>2
    <3>2. ChainIn(log', t) = ChainIn(log, t)
      BY <3>1
    <3>3. QED
      BY <1>4, <3>2 DEF ChainInv, SerialVerifies, Verified, Chain
  <2>3. QED
    BY <2>1, <2>2
<1>5. SerialVerifies'
  BY <1>1, <1>4 DEF SerialVerifies, Verified, Chain
<1>6. ASSUME NEW o \in Request, NEW t \in Tenant \ Overlap, request'[o].tenant = t,
             tampered[t] = "no"
      PROVE  Linked(ChainIn(log' \cup request'[o].pending, t))
  <2>1. o # q /\ request'[o] = request[o]
    BY <1>1, <1>6, AuditAssumption DEF Closed, AuditAssumption
  <2>2. request[q].tenant # t
    BY <1>6, <2>1, AuditAssumption DEF ChainInv, TenantsTakeTurns, AuditAssumption
  <2>3. ChainIn(log' \cup request[o].pending, t) = ChainIn(log \cup request[o].pending, t)
    BY <1>3, <2>2
  <2>4. QED
    BY <1>6, <2>1, <2>3 DEF ChainInv, PendingIsLinked
<1>7. PendingIsLinked'
  BY <1>1, <1>6 DEF PendingIsLinked
<1>8. QED
  BY <1>2, <1>5, <1>7

\* Whoever changes the chain of one tenant leaves the others' as they were.
LEMMA TamperingIsLocal ==
    ASSUME TypeOK, NEW t \in Tenant, Tampering(t),
           NEW u \in Tenant \ {t}, NEW rows
    PROVE  ChainIn(log' \cup rows, u) = ChainIn(log \cup rows, u)
<1>1. \E old \in Chain(t) :
         \/ log' = log \ {old}
         \/ \E new : new.tenant = t /\ log' = (log \ {old}) \cup {new}
  BY TamperedRow
<1>2. QED
  BY <1>1 DEF Chain, ChainIn

\* Nobody changes a tenant's chain without having its mark of it.
LEMMA ChainTamper ==
    ASSUME ChainInv, NEW t \in Tenant, Tampering(t)
    PROVE  TenantsTakeTurns' /\ PendingIsOwn' /\ PendingIsLinked' /\ SerialVerifies'
<1>1. /\ request' = request
      /\ tampered'[t] # "no"
      /\ \A u \in Tenant \ {t} : tampered'[u] = tampered[u]
  BY DEF Tampering, EditEntry, DeleteEntry, MendEntry, ChainInv, TypeOK
<1>2. ASSUME NEW u \in Tenant \ {t}, NEW rows
      PROVE  ChainIn(log' \cup rows, u) = ChainIn(log \cup rows, u)
  BY <1>2, TamperingIsLocal DEF ChainInv
<1>3. ASSUME NEW u \in Tenant \ {t} PROVE ChainIn(log', u) = ChainIn(log, u)
  <2>1. ChainIn(log' \cup {}, u) = ChainIn(log \cup {}, u)
    BY <1>2
  <2>2. QED
    BY <2>1
<1>4. QED
  BY <1>1, <1>2, <1>3
     DEF TenantsTakeTurns, PendingIsOwn, PendingIsLinked, SerialVerifies,
         Verified, Chain, ChainInv

LEMMA ChainNext == ChainInv /\ [Next]_vars => ChainInv'
<1> SUFFICES ASSUME ChainInv, [Next]_vars PROVE ChainInv'
  OBVIOUS
<1>t. TypeOK'
  BY TypeNext DEF ChainInv
<1>1. ASSUME NEW q \in Request, Rollback(q) PROVE ChainInv'
  <2>1. /\ request'[q] = Closed
        /\ \A o \in Request \ {q} : request'[o] = request[o]
        /\ log' = log /\ tampered' = tampered
    BY <1>1 DEF Rollback, ChainInv, TypeOK
  <2>2. TenantsTakeTurns' /\ PendingIsOwn'
    BY <2>1 DEF TenantsTakeTurns, PendingIsOwn, ChainInv, Closed
  <2>3. PendingIsLinked' /\ SerialVerifies'
    BY <2>1, AuditAssumption
       DEF PendingIsLinked, SerialVerifies, Verified, Chain, ChainInv, Closed,
           AuditAssumption
  <2>4. QED
    BY <1>t, <2>2, <2>3 DEF ChainInv
<1>2. CASE UNCHANGED vars
  <2>1. TenantsTakeTurns' /\ PendingIsOwn' /\ PendingIsLinked' /\ SerialVerifies'
    BY <1>2 DEF vars, ChainInv, TenantsTakeTurns, PendingIsOwn, PendingIsLinked,
                SerialVerifies, Verified, Chain
  <2>2. QED
    BY <1>t, <2>1 DEF ChainInv
<1>3. QED
  BY <1>t, <1>1, <1>2, ChainAudit, ChainCommit, ChainTamper DEF Next, ChainInv, Tampering

\* The inductive invariant: of a tenant whose requests take turns, what each
\* has flushed extends what is committed.
THEOREM ChainsGrow == Spec => []ChainInv
<1>1. Init => ChainInv
  BY ChainInit
<1>2. ChainInv /\ [Next]_vars => ChainInv'
  BY ChainNext
<1>3. QED
  BY <1>1, <1>2, PTL DEF Spec

\* "Every audit entry is chained to the previous entry of the same tenant"
\* (audit.py): with any number of tenants at work and any number of entries per
\* request, committed or rolled back, what the application alone has written
\* for a tenant verifies, as long as that tenant's requests do not overlap.
THEOREM UntouchedChainVerifies == Spec => []SerialVerifies
<1>1. ChainInv => SerialVerifies
  BY DEF ChainInv
<1>2. QED
  BY <1>1, ChainsGrow, PTL

-----------------------------------------------------------------------------
(* A change inside a chain is detected, whatever is appended later.        *)

\* A request's entries come after everything its tenant has committed.
PendingIsAhead ==
    \A q \in Request : \A t \in Tenant \ Overlap :
        request[q].tenant = t =>
            \A row \in Chain(t), new \in request[q].pending : row.sequence < new.sequence

\* What holds of a row of a chain that verifies.
Fine(row, rows) ==
    /\ row.entry_hash = compute_entry_hash(row)
    /\ \/ row.sequence = 1 /\ OrGenesis(row.prev_hash) = GENESIS_HASH
       \/ \E previous \in rows : /\ row.sequence = previous.sequence + 1
                                 /\ OrGenesis(row.prev_hash) = previous.entry_hash

\* The scar of a change: the row whose hash is not the one it would have if
\* somebody put it right.  Mending it gives it another hash, which its successor
\* does not know: the scar moves on, and leaves the chain at its end.
Scar(row, rows) == \A new \in MendedAfter(row, rows) : new.entry_hash # row.entry_hash

OneScar(rows) ==
    /\ \A row, other \in rows : row.sequence = other.sequence => row = other
    /\ \E scar \in rows : /\ Scar(scar, rows)
                         /\ \A other \in rows \ {scar} : Fine(other, rows)

\* The rows of a chain.
AreRows(rows) == \A row \in rows : IsRow(row, written) /\ ~Unchained(row)

\* The inductive invariant: the chain, and the chain with what a request is about
\* to append, has one scar.
DetectInv ==
    /\ ChainInv /\ PendingIsAhead
    /\ \A t \in Tenant \ Overlap : tampered[t] = "inside" =>
          /\ OneScar(Chain(t))
          /\ \A q \in Request : request[q].tenant = t =>
                OneScar(ChainIn(log \cup request[q].pending, t))

LEMMA RowFacts ==
    ASSUME NEW rows, AreRows(rows), NEW row \in rows
    PROVE  row.sequence \in Nat \ {0} /\ row.entry_hash # NO_HASH
BY DEF AreRows, IsRow, Unchained

\* Two rows with one hash say the same.
LEMMA OneHash ==
    ASSUME NEW row, NEW other, compute_entry_hash(row) = compute_entry_hash(other)
    PROVE  /\ row.sequence = other.sequence /\ row.body = other.body
           /\ OrGenesis(row.prev_hash) = OrGenesis(other.prev_hash)
BY DEF compute_entry_hash

LEMMA OrGenesisIs ==
    /\ OrGenesis(GENESIS_HASH) = GENESIS_HASH
    /\ \A hash : hash # NO_HASH => OrGenesis(hash) = hash
BY DEF OrGenesis

\* An entry that is not the last, before entries that follow each other, has a
\* successor, which follows it.
LEMMA HasSuccessor ==
    ASSUME NEW rows, AreRows(rows), NEW old \in rows, ~LastIn(old, rows),
           \A row, other \in rows : row.sequence = other.sequence => row = other,
           \A row \in rows : old.sequence < row.sequence => Fine(row, rows)
    PROVE  \E next \in rows : /\ next.sequence = old.sequence + 1
                             /\ OrGenesis(next.prev_hash) = old.entry_hash
                             /\ next.entry_hash = compute_entry_hash(next)
<1> DEFINE after == {n \in Nat : \E row \in rows : row.sequence = n /\ old.sequence < n}
<1>s. \A row \in rows : row.sequence \in Nat \ {0}
  BY RowFacts
<1>1. PICK n \in after : \A m \in after : n <= m
  <2>1. PICK later \in rows : old.sequence < later.sequence
    BY <1>s DEF LastIn
  <2>2. later.sequence \in after
    BY <1>s, <2>1
  <2> HIDE DEF after
  <2>3. after \in SUBSET Nat
    BY DEF after
  <2> QED BY <2>2, <2>3, LeastNatural
<1>2. PICK next \in rows : next.sequence = n /\ old.sequence < n
  BY <1>1
<1>3. Fine(next, rows) /\ next.sequence # 1
  BY <1>s, <1>2
<1>4. PICK previous \in rows : /\ next.sequence = previous.sequence + 1
                              /\ OrGenesis(next.prev_hash) = previous.entry_hash
  BY <1>3 DEF Fine
<1>5. previous.sequence \notin after
  BY <1>s, <1>1, <1>2, <1>4
<1>6. previous.sequence = old.sequence
  BY <1>s, <1>2, <1>4, <1>5
<1>7. previous = old
  BY <1>6
<1> QED BY <1>2, <1>3, <1>4, <1>7 DEF Fine

\* Nobody mends a row that is fine, so a chain with a scar does not verify.
LEMMA FineIsMended ==
    ASSUME NEW rows, AreRows(rows), NEW row \in rows, Fine(row, rows),
           \A one, other \in rows : one.sequence = other.sequence => one = other
    PROVE  /\ \E new \in MendedAfter(row, rows) : new.entry_hash = row.entry_hash
           /\ \A new \in MendedAfter(row, rows) : new.entry_hash = row.entry_hash
<1>s. \A other \in rows : other.sequence \in Nat \ {0} /\ other.entry_hash # NO_HASH
  BY RowFacts
<1>m. ASSUME NEW prev_hash, OrGenesis(prev_hash) = OrGenesis(row.prev_hash)
      PROVE  Mended(row, row.sequence, prev_hash).entry_hash = row.entry_hash
  <2> DEFINE moved == [row EXCEPT !.sequence = row.sequence, !.prev_hash = prev_hash]
             new == [moved EXCEPT !.entry_hash = compute_entry_hash(moved)]
  <2>1. /\ moved.tenant = row.tenant /\ moved.sequence = row.sequence
        /\ moved.prev_hash = prev_hash /\ moved.body = row.body
        /\ moved.created = row.created /\ DOMAIN moved = DOMAIN row
    BY DEF AreRows, IsRow
  <2>2. new.entry_hash = compute_entry_hash(moved)
    <3>1. "entry_hash" \in DOMAIN moved
      BY <2>1 DEF AreRows, IsRow
    <3> HIDE DEF moved
    <3> QED BY <3>1
  <2>3. compute_entry_hash(moved) = compute_entry_hash(row)
    <3> HIDE DEF moved
    <3> QED BY <2>1, <1>m DEF compute_entry_hash
  <2>4. Mended(row, row.sequence, prev_hash) = new
    BY DEF Mended
  <2> HIDE DEF new, moved
  <2> QED BY <2>2, <2>3, <2>4 DEF Fine
<1>1. CASE row.sequence = 1 /\ OrGenesis(row.prev_hash) = GENESIS_HASH
  <2>1. Before(row, rows) = {}
    BY <1>s, <1>1 DEF Before
  <2>2. MendedAfter(row, rows) = {Mended(row, 1, GENESIS_HASH)}
    BY <2>1 DEF MendedAfter
  <2>3. Mended(row, 1, GENESIS_HASH).entry_hash = row.entry_hash
    BY <1>m, <1>1, OrGenesisIs
  <2> QED BY <2>2, <2>3
<1>2. ASSUME NEW previous \in rows, row.sequence = previous.sequence + 1,
             OrGenesis(row.prev_hash) = previous.entry_hash
      PROVE  MendedAfter(row, rows) = {Mended(row, row.sequence, previous.entry_hash)}
             /\ Mended(row, row.sequence, previous.entry_hash).entry_hash = row.entry_hash
  <2>1. previous \in Before(row, rows) /\ LastIn(previous, Before(row, rows))
    BY <1>s, <1>2 DEF Before, LastIn
  <2>2. \A last \in Before(row, rows) : LastIn(last, Before(row, rows)) => last = previous
    BY <1>s, <2>1 DEF Before, LastIn
  <2>3. {last \in Before(row, rows) : LastIn(last, Before(row, rows))} = {previous}
    BY <2>1, <2>2
  <2>4. MendedAfter(row, rows)
          = {Mended(row, last.sequence + 1, last.entry_hash) : last \in {previous}}
    BY <2>1, <2>3 DEF MendedAfter
  <2>5. OrGenesis(previous.entry_hash) = OrGenesis(row.prev_hash)
    BY <1>s, <1>2, OrGenesisIs
  <2> QED BY <1>2, <2>4, <2>5, <1>m
<1> QED BY <1>1, <1>2 DEF Fine

LEMMA ScarIsFound ==
    ASSUME NEW rows, AreRows(rows), OneScar(rows)
    PROVE  ~Linked(rows)
<1>1. PICK scar \in rows : Scar(scar, rows)
  BY DEF OneScar
<1>2. ~Fine(scar, rows)
  BY <1>1, FineIsMended DEF OneScar, Scar
<1> QED BY <1>2 DEF Fine, Linked

\* Whatever follows a chain heals no scar.
LEMMA ScarStays ==
    ASSUME NEW rows, AreRows(rows), OneScar(rows), NEW new, Follows(new, rows)
    PROVE  OneScar(rows \cup {new})
<1>1. PICK scar \in rows : /\ Scar(scar, rows)
                          /\ \A other \in rows \ {scar} : Fine(other, rows)
  BY DEF OneScar
<1>2. \A row, other \in rows \cup {new} : row.sequence = other.sequence => row = other
  BY DEF OneScar, Follows
<1>3. Before(scar, rows \cup {new}) = Before(scar, rows)
  <2>1. scar.sequence \in Nat /\ scar.sequence < new.sequence
    BY DEF Follows
  <2>2. ~(new.sequence < scar.sequence)
    <3>1. CASE new.sequence \in Nat
      BY <2>1, <3>1
    <3>2. CASE new.sequence \notin Nat
      <4>1. \E previous \in rows : new.sequence = previous.sequence + 1
        BY <3>2 DEF Follows
      <4> QED BY <3>2, <4>1 DEF Follows
    <3> QED BY <3>1, <3>2
  <2> QED BY <2>2 DEF Before
<1>4. Scar(scar, rows \cup {new})
  BY <1>1, <1>3 DEF Scar, MendedAfter
<1>5. \A other \in (rows \cup {new}) \ {scar} : Fine(other, rows \cup {new})
  BY <1>1 DEF Fine, Follows
<1> QED BY <1>2, <1>4, <1>5 DEF OneScar

\* Changing the body of an entry that hashed to it leaves a scar.
LEMMA EditScars ==
    ASSUME NEW rows, AreRows(rows), Linked(rows), NEW row \in rows,
           NEW body, body # row.body
    PROVE  OneScar((rows \ {row}) \cup {[row EXCEPT !.body = body]})
<1> DEFINE new == [row EXCEPT !.body = body]
           edited == (rows \ {row}) \cup {new}
<1>1. IsRow(row, written) /\ ~Unchained(row) /\ row.entry_hash = compute_entry_hash(row)
  BY DEF AreRows, Linked
<1>2. /\ new.sequence = row.sequence /\ new.body = body /\ DOMAIN new = DOMAIN row
      /\ new.entry_hash = row.entry_hash
  BY <1>1 DEF IsRow
<1> HIDE DEF new
<1>3. \A one, other \in edited : one.sequence = other.sequence => one = other
  BY <1>2 DEF Linked
<1>4. \A other \in edited \ {new} : Fine(other, edited)
  BY <1>2 DEF Linked, Fine
<1>5. ASSUME NEW mended \in MendedAfter(new, edited), mended.entry_hash = new.entry_hash
      PROVE  FALSE
  <2>1. PICK sequence, prev_hash : mended = Mended(new, sequence, prev_hash)
    BY DEF MendedAfter
  <2> DEFINE moved == [new EXCEPT !.sequence = sequence, !.prev_hash = prev_hash]
  <2>2. moved.body = body /\ DOMAIN moved = DOMAIN new
    BY <1>1, <1>2 DEF IsRow
  <2>3. mended = [moved EXCEPT !.entry_hash = compute_entry_hash(moved)]
    BY <2>1 DEF Mended
  <2> HIDE DEF moved
  <2>4. mended.entry_hash = compute_entry_hash(moved)
    BY <1>1, <1>2, <2>2, <2>3 DEF IsRow
  <2>5. compute_entry_hash(moved) = compute_entry_hash(row)
    BY <1>1, <1>2, <1>5, <2>4
  <2>6. moved.body = row.body
    BY <2>5, OneHash
  <2> QED BY <2>2, <2>6
<1>6. Scar(new, edited)
  BY <1>5 DEF Scar
<1>7. OneScar(edited)
  BY <1>3, <1>4, <1>6 DEF OneScar
<1> QED BY <1>7 DEF new

\* So does taking an entry away from before another one.
LEMMA DeleteScars ==
    ASSUME NEW rows, AreRows(rows), Linked(rows), NEW row \in rows, ~LastIn(row, rows)
    PROVE  OneScar(rows \ {row})
<1> DEFINE left == rows \ {row}
<1>s. \A other \in rows : other.sequence \in Nat \ {0}
  BY RowFacts
<1>f. \A other \in rows : Fine(other, rows)
  BY DEF Linked, Fine
<1>u. \A one, other \in rows : one.sequence = other.sequence => one = other
  BY DEF Linked
<1>1. PICK next \in rows : /\ next.sequence = row.sequence + 1
                          /\ next.entry_hash = compute_entry_hash(next)
  BY <1>f, <1>u, HasSuccessor
<1>2. next \in left
  BY <1>s, <1>1
<1>3. ASSUME NEW other \in left \ {next} PROVE Fine(other, left)
  <2>1. other.sequence # row.sequence + 1
    BY <1>u, <1>1
  <2> QED BY <1>f, <2>1 DEF Fine
<1>4. ASSUME NEW mended \in MendedAfter(next, left), mended.entry_hash = next.entry_hash
      PROVE  FALSE
  <2>a. AreRows(left)
    BY DEF AreRows
  <2> HIDE DEF left
  <2>1. PICK sequence, prev_hash :
               /\ sequence \in Nat \ {0}
               /\ mended = Mended(next, sequence, prev_hash)
               /\ \/ sequence = 1
                  \/ \E previous \in Before(next, left) : sequence = previous.sequence + 1
    <3>1. \A other \in left : other.sequence \in Nat \ {0}
      BY <2>a, RowFacts
    <3>2. PICK sequence, prev_hash :
                 /\ sequence \in Nat \ {0}
                 /\ mended = Mended(next, sequence, prev_hash)
                 /\ \/ sequence = 1 /\ prev_hash = GENESIS_HASH
                    \/ \E previous \in Before(next, left) :
                          sequence = previous.sequence + 1 /\ prev_hash = previous.entry_hash
      BY <1>2, <3>1, MendedWhere
    <3> QED BY <3>2
  <2>2. /\ mended.sequence = sequence
        /\ mended.entry_hash = compute_entry_hash(mended)
    <3>1. IsRow(next, written) /\ ~Unchained(next) /\ sequence \in Nat \ {0}
      BY <1>2, <2>1, <2>a DEF AreRows
    <3>2. LET it == Mended(next, sequence, prev_hash) IN
          it.sequence = sequence /\ it.entry_hash = compute_entry_hash(it)
      BY <3>1, MendedFields
    <3> QED BY <2>1, <3>2
  <2>3. mended.sequence = next.sequence
    BY <1>1, <1>4, <2>2, OneHash
  <2>p. row.sequence \in Nat \ {0} /\ sequence = row.sequence + 1
    BY <1>s, <1>1, <2>2, <2>3
  <2>4. CASE sequence = 1
    BY <2>p, <2>4
  <2>5. ASSUME NEW previous \in Before(next, left), sequence = previous.sequence + 1
        PROVE  FALSE
    <3>1. previous \in rows /\ previous # row
      BY DEF Before, left
    <3>2. previous.sequence = row.sequence
      <4>1. previous.sequence \in Nat
        BY <1>s, <3>1
      <4> QED BY <2>p, <2>5, <4>1
    <3> QED BY <1>u, <3>1, <3>2
  <2> QED BY <2>1, <2>4, <2>5
<1>5. Scar(next, left)
  BY <1>4 DEF Scar
<1> QED BY <1>u, <1>2, <1>3, <1>5 DEF OneScar

\* And mending the scar of an entry that has a successor makes a scar of that.
LEMMA MendMovesScar ==
    ASSUME NEW rows, AreRows(rows), OneScar(rows), NEW row \in rows, ~LastIn(row, rows),
           NEW new \in MendedAfter(row, rows), new.entry_hash # row.entry_hash
    PROVE  OneScar((rows \ {row}) \cup {new})
<1> DEFINE mended == (rows \ {row}) \cup {new}
<1>s. \A other \in rows : other.sequence \in Nat \ {0} /\ other.entry_hash # NO_HASH
  BY RowFacts
<1>u. \A one, other \in rows : one.sequence = other.sequence => one = other
  BY DEF OneScar
<1>f. \A other \in rows \ {row} : Fine(other, rows)
  <2>1. PICK scar \in rows : \A other \in rows \ {scar} : Fine(other, rows)
    BY DEF OneScar
  <2>2. ~Fine(row, rows)
    BY <1>u, FineIsMended
  <2> QED BY <2>1, <2>2
<1>1. PICK next \in rows : /\ next.sequence = row.sequence + 1
                          /\ OrGenesis(next.prev_hash) = row.entry_hash
                          /\ next.entry_hash = compute_entry_hash(next)
  <2>1. \A other \in rows : row.sequence < other.sequence => Fine(other, rows)
    BY <1>s, <1>f
  <2> QED BY <1>u, <2>1, HasSuccessor
<1>2. PICK sequence, prev_hash :
             /\ sequence \in Nat \ {0}
             /\ new = Mended(row, sequence, prev_hash)
             /\ sequence <= row.sequence
             /\ \A other \in Before(row, rows) : other.sequence < sequence
             /\ \/ sequence = 1 /\ prev_hash = GENESIS_HASH
                \/ \E previous \in Before(row, rows) :
                      sequence = previous.sequence + 1 /\ prev_hash = previous.entry_hash
  BY <1>s, MendedWhere
<1>3. /\ IsRow(new, written) /\ ~Unchained(new)
      /\ new.sequence = sequence /\ new.prev_hash = prev_hash
      /\ new.entry_hash = compute_entry_hash(new)
  <2>1. IsRow(row, written) /\ ~Unchained(row)
    BY DEF AreRows
  <2>2. sequence \in Nat \ {0}
    BY <1>2
  <2>3. LET it == Mended(row, sequence, prev_hash) IN
        /\ IsRow(it, written) /\ ~Unchained(it)
        /\ it.sequence = sequence /\ it.prev_hash = prev_hash
        /\ it.entry_hash = compute_entry_hash(it)
    BY <2>1, <2>2, MendedFields
  <2>4. new = Mended(row, sequence, prev_hash)
    BY <1>2
  <2> QED BY <2>3, <2>4
<1>4. ASSUME NEW other \in rows \ {row}
      PROVE  \/ other.sequence < sequence /\ other.sequence < row.sequence
             \/ other.sequence > row.sequence
  <2>1. other.sequence # row.sequence
    BY <1>u
  <2>2. CASE other.sequence < row.sequence
    BY <1>2, <2>2 DEF Before
  <2> QED BY <1>s, <2>1, <2>2
<1>5. \A one, other \in mended : one.sequence = other.sequence => one = other
  <2>1. \A other \in rows \ {row} : other.sequence # sequence
    BY <1>s, <1>2, <1>4
  <2> QED BY <1>u, <1>3, <2>1
<1>6. next \in mended /\ next # row
  BY <1>s, <1>1
<1>7. Fine(new, mended)
  <2>1. CASE sequence = 1 /\ prev_hash = GENESIS_HASH
    BY <1>3, <2>1, OrGenesisIs DEF Fine
  <2>2. ASSUME NEW previous \in Before(row, rows),
               sequence = previous.sequence + 1, prev_hash = previous.entry_hash
        PROVE  Fine(new, mended)
    <3>1. previous \in mended /\ previous.entry_hash # NO_HASH
      BY <1>s DEF Before
    <3> QED BY <1>3, <2>2, <3>1, OrGenesisIs DEF Fine
  <2> QED BY <1>2, <2>1, <2>2
<1>8. ASSUME NEW other \in mended, other # next PROVE Fine(other, mended)
  <2>1. CASE other = new
    BY <1>7, <2>1
  <2>2. CASE other \in rows \ {row}
    <3>1. other.sequence # row.sequence + 1
      BY <1>u, <1>1, <1>8, <2>2
    <3> QED BY <1>f, <2>2, <3>1 DEF Fine
  <2> QED BY <2>1, <2>2
<1>9. ASSUME NEW again \in MendedAfter(next, mended), again.entry_hash = next.entry_hash
      PROVE  FALSE
  <2>1. new \in Before(next, mended)
    BY <1>s, <1>1, <1>2, <1>3 DEF Before
  <2>2. ASSUME NEW other \in Before(next, mended), other # new
        PROVE  other.sequence < new.sequence
    <3>1. other \in rows \ {row} /\ other.sequence < row.sequence + 1
      BY <1>1, <2>2 DEF Before
    <3> QED BY <1>s, <1>3, <1>4, <3>1
  <2>3. \A last \in Before(next, mended) : LastIn(last, Before(next, mended)) => last = new
    <3> SUFFICES ASSUME NEW last \in Before(next, mended), LastIn(last, Before(next, mended)),
                        last # new
                 PROVE  FALSE
      OBVIOUS
    <3>1. last.sequence < new.sequence /\ new.sequence <= last.sequence
      BY <2>1, <2>2 DEF LastIn
    <3>2. last.sequence \in Nat
      BY <1>s DEF Before
    <3> QED BY <1>2, <1>3, <3>1, <3>2
  <2>4. again = Mended(next, new.sequence + 1, new.entry_hash)
    <3>1. PICK last \in Before(next, mended) :
                 /\ LastIn(last, Before(next, mended))
                 /\ again = Mended(next, last.sequence + 1, last.entry_hash)
      BY <2>1 DEF MendedAfter
    <3> QED BY <2>3, <3>1
  <2>5. /\ again.prev_hash = new.entry_hash
        /\ again.entry_hash = compute_entry_hash(again)
    <3>1. IsRow(next, written) /\ ~Unchained(next) /\ new.sequence + 1 \in Nat \ {0}
      BY <1>2, <1>3 DEF AreRows
    <3> QED BY <2>4, <3>1, MendedFields
  <2>6. OrGenesis(again.prev_hash) = OrGenesis(next.prev_hash)
    BY <1>1, <1>9, <2>5, OneHash
  <2>7. new.entry_hash # NO_HASH
    BY <1>3, HashIsReal
  <2> QED BY <1>1, <2>5, <2>6, <2>7, OrGenesisIs
<1>10. Scar(next, mended)
  BY <1>9 DEF Scar
<1> QED BY <1>5, <1>6, <1>8, <1>10 DEF OneScar

LEMMA DetectInit == Init => DetectInv
BY ChainInit, AuditAssumption DEF Init, DetectInv, PendingIsAhead, Closed, AuditAssumption

\* The chain with what a request is about to append is still a chain of rows.
LEMMA TheyAreRows ==
    ASSUME TypeOK, NEW t \in Tenant
    PROVE  /\ AreRows(Chain(t))
           /\ \A q \in Request : AreRows(ChainIn(log \cup request[q].pending, t))
BY DEF TypeOK, Pending, Chain, ChainIn, AreRows

\* Changing an entry of the log changes it in every chain that holds it.
LEMMA TamperingScars ==
    ASSUME DetectInv, NEW t \in Tenant \ Overlap, Tampering(t), tampered'[t] = "inside",
           NEW more, more = {} \/ \E q \in Request : request[q].tenant = t
                                                  /\ more = request[q].pending
    PROVE  OneScar(ChainIn(log' \cup more, t))
<1> DEFINE rows == ChainIn(log \cup more, t)
<1>t. TypeOK
  BY DEF DetectInv, ChainInv
<1>r. AreRows(Chain(t)) /\ AreRows(rows)
  <2>1. CASE more = {}
    BY <1>t, <2>1, TheyAreRows DEF Chain
  <2>2. CASE \E q \in Request : more = request[q].pending
    BY <1>t, <2>2, TheyAreRows
  <2> QED BY <2>1, <2>2
<1>c. Chain(t) \subseteq rows
  BY DEF Chain, ChainIn
<1>s. \A row \in rows : row.sequence \in Nat \ {0}
  BY <1>r, RowFacts
<1>a. \A row \in Chain(t), new \in more : row.sequence < new.sequence
  BY DEF DetectInv, PendingIsAhead
<1>n. \A row \in Chain(t) : row \notin more
  <2>1. \A row \in Chain(t) : row.sequence \in Nat \ {0}
    BY <1>c, <1>s
  <2> QED BY <1>a, <2>1
<1>l. tampered[t] = "no" => Linked(rows)
  <2>1. CASE more = {}
    BY <2>1 DEF DetectInv, ChainInv, SerialVerifies, Verified, Chain
  <2>2. CASE \E q \in Request : request[q].tenant = t /\ more = request[q].pending
    BY <2>2 DEF DetectInv, ChainInv, PendingIsLinked
  <2> QED BY <2>1, <2>2
<1>1. CASE EditEntry(t)
  <2>1. PICK row \in Chain(t), body \in Body :
               /\ body # row.body
               /\ log' = (log \ {row}) \cup {[row EXCEPT !.body = body]}
    BY <1>1 DEF EditEntry
  <2> DEFINE new == [row EXCEPT !.body = body]
  <2>2. new.tenant = t /\ ~Unchained(new)
    BY <1>r DEF AreRows, IsRow, Unchained, Chain, ChainIn
  <2> HIDE DEF new
  <2>3. ChainIn(log' \cup more, t) = (rows \ {row}) \cup {new}
    BY <1>n, <2>1, <2>2 DEF ChainIn, new
  <2>4. OneScar((rows \ {row}) \cup {new})
    <3>1. Linked(rows) /\ row \in rows /\ body # row.body
      BY <1>1, <1>c, <1>l, <2>1 DEF EditEntry
    <3> HIDE DEF rows
    <3> QED BY <1>r, <3>1, EditScars DEF new
  <2> QED BY <2>3, <2>4
<1>2. CASE DeleteEntry(t)
  <2>1. PICK row \in Chain(t) : log' = log \ {row} /\ ~LastIn(row, Chain(t))
    BY <1>2, <1>t DEF DeleteEntry, TypeOK
  <2>2. ChainIn(log' \cup more, t) = rows \ {row}
    BY <1>n, <2>1 DEF ChainIn
  <2>3. ~LastIn(row, rows)
    BY <1>c, <2>1 DEF LastIn
  <2>4. OneScar(rows \ {row})
    <3>1. Linked(rows) /\ row \in rows
      BY <1>2, <1>c, <1>l, <2>1 DEF DeleteEntry
    <3> HIDE DEF rows
    <3> QED BY <1>r, <2>3, <3>1, DeleteScars
  <2> QED BY <2>2, <2>4
<1>3. CASE MendEntry(t)
  <2>1. PICK row \in Chain(t) : \E new \in MendedAfter(row, Chain(t)) :
               /\ new.entry_hash # row.entry_hash
               /\ log' = (log \ {row}) \cup {new}
               /\ ~LastIn(row, Chain(t))
    BY <1>3, <1>t DEF MendEntry, TypeOK
  <2>2. PICK new \in MendedAfter(row, Chain(t)) :
               new.entry_hash # row.entry_hash /\ log' = (log \ {row}) \cup {new}
    BY <2>1
  <2>3. Before(row, rows) = Before(row, Chain(t))
    <3>1. ASSUME NEW other \in rows, other.sequence < row.sequence
          PROVE  other \in Chain(t)
      <4>1. CASE other \in more
        <5>1. row.sequence < other.sequence
          BY <1>a, <4>1
        <5>2. row.sequence \in Nat /\ other.sequence \in Nat
          BY <1>c, <1>s
        <5> QED BY <3>1, <5>1, <5>2
      <4>2. CASE other \notin more
        BY <4>2 DEF Chain, ChainIn
      <4> QED BY <4>1, <4>2
    <3> HIDE DEF rows
    <3> QED BY <1>c, <3>1 DEF Before
  <2>4. new \in MendedAfter(row, rows)
    <3> HIDE DEF rows
    <3> QED BY <2>2, <2>3 DEF MendedAfter
  <2>5. new.tenant = t /\ ~Unchained(new)
    <3> DEFINE chain == Chain(t)
    <3>1. \A other \in chain : IsRow(other, written) /\ ~Unchained(other) /\ other.tenant = t
      BY <1>r DEF AreRows, Chain, ChainIn
    <3>2. row \in chain /\ new \in MendedAfter(row, chain)
      BY <2>2
    <3> HIDE DEF chain
    <3>3. PICK sequence, prev_hash : /\ sequence \in Nat \ {0}
                                      /\ new = Mended(row, sequence, prev_hash)
      <4>1. \A other \in chain : other.sequence \in Nat \ {0}
        BY <3>1 DEF IsRow, Unchained
      <4> QED BY <3>2, <4>1, MendedWhere
    <3> QED BY <3>1, <3>2, <3>3, MendedFields
  <2>6. ChainIn(log' \cup more, t) = (rows \ {row}) \cup {new}
    BY <1>n, <2>2, <2>5 DEF ChainIn
  <2>7. OneScar(rows)
    <3>1. tampered[t] = "inside"
      BY <1>3 DEF MendEntry
    <3>2. CASE more = {}
      BY <3>1, <3>2 DEF DetectInv, Chain
    <3>3. CASE \E q \in Request : request[q].tenant = t /\ more = request[q].pending
      BY <3>1, <3>3 DEF DetectInv
    <3> QED BY <3>2, <3>3
  <2>8. ~LastIn(row, rows) /\ row \in rows
    BY <1>c, <2>1 DEF LastIn
  <2>9. OneScar((rows \ {row}) \cup {new})
    <3> HIDE DEF rows
    <3> QED BY <1>r, <2>2, <2>4, <2>7, <2>8, MendMovesScar
  <2> QED BY <2>6, <2>9
<1> QED BY <1>1, <1>2, <1>3 DEF Tampering

LEMMA DetectNext == DetectInv /\ [Next]_vars => DetectInv'
<1> SUFFICES ASSUME DetectInv, [Next]_vars PROVE DetectInv'
  OBVIOUS
<1>c. ChainInv /\ ChainInv' /\ TypeOK
  BY ChainNext DEF DetectInv, ChainInv
<1> DEFINE Scars == \A t \in Tenant \ Overlap : tampered[t] = "inside" =>
                       /\ OneScar(ChainIn(log, t))
                       /\ \A q \in Request : request[q].tenant = t =>
                             OneScar(ChainIn(log \cup request[q].pending, t))
<1>d. Scars
  BY DEF DetectInv, Chain
<1> SUFFICES PendingIsAhead' /\ Scars'
  BY <1>c DEF DetectInv, Chain
<1>1. ASSUME NEW q \in Request, NEW t \in Tenant, NEW body \in Body, Audit(q, t, body)
      PROVE  PendingIsAhead' /\ Scars'
  <2> DEFINE rows == ChainIn(log \cup request[q].pending, t)
  <2>1. PICK new : /\ Flush(q, t, new) /\ new.tenant = t /\ ~Unchained(new)
                   /\ Follows(new, rows)
    BY <1>c, <1>1, AuditCases
  <2>2. /\ request'[q].tenant = t
        /\ request'[q].pending = request[q].pending \cup {new}
        /\ \A o \in Request \ {q} : request'[o] = request[o]
        /\ log' = log /\ tampered' = tampered
    BY <1>c, <1>1, <2>1 DEF Flush, Audit, TypeOK
  <2>3. \A row \in Chain(t) : row.sequence < new.sequence
    BY <2>1 DEF Follows, Chain, ChainIn
  <2>4. request[q].pending = {} \/ request[q].tenant = t
    BY <1>c, <1>1, AuditAssumption DEF Audit, TypeOK, Closed, AuditAssumption
  <2>5. \A u \in Tenant : Chain(u)' = Chain(u)
    BY <2>2 DEF Chain
  <2>6. PendingIsAhead'
    BY <2>2, <2>3, <2>4, <2>5 DEF PendingIsAhead, DetectInv
  <2>7. ASSUME t \notin Overlap, tampered[t] = "inside"
        PROVE  OneScar(ChainIn(log \cup request'[q].pending, t))
    <3>1. OneScar(rows)
      BY <1>d, <2>4, <2>7
    <3>2. AreRows(rows)
      BY <1>c, TheyAreRows
    <3>3. ChainIn(log \cup request'[q].pending, t) = rows \cup {new}
      BY <2>1, <2>2 DEF ChainIn
    <3> HIDE DEF rows
    <3> QED BY <2>1, <3>1, <3>2, <3>3, ScarStays
  <2>8. Scars'
    BY <1>d, <2>2, <2>7
  <2> QED BY <2>6, <2>8
<1>2. ASSUME NEW q \in Request, Commit(q) PROVE PendingIsAhead' /\ Scars'
  <2>1. /\ request'[q] = Closed
        /\ \A o \in Request \ {q} : request'[o] = request[o]
        /\ log' = log \cup request[q].pending /\ tampered' = tampered
    BY <1>c, <1>2 DEF Commit, TypeOK
  <2>2. ASSUME NEW t \in Tenant, request[q].tenant # t, NEW more
        PROVE  ChainIn(log' \cup more, t) = ChainIn(log \cup more, t)
    BY <1>c, <2>1, <2>2 DEF ChainIn, ChainInv, PendingIsOwn
  <2>3. ASSUME NEW t \in Tenant, request[q].tenant # t
        PROVE  ChainIn(log', t) = ChainIn(log, t)
    <3>1. ChainIn(log' \cup {}, t) = ChainIn(log \cup {}, t)
      BY <2>2, <2>3
    <3> QED BY <3>1
  <2>4. ASSUME NEW t \in Tenant \ Overlap, NEW o \in Request, request'[o].tenant = t
        PROVE  o # q /\ request'[o] = request[o] /\ request[q].tenant # t
    <3>1. o # q /\ request'[o] = request[o]
      BY <2>1, <2>4, AuditAssumption DEF Closed, AuditAssumption
    <3> QED BY <1>c, <2>4, <3>1, AuditAssumption DEF ChainInv, TenantsTakeTurns, AuditAssumption
  <2>5. PendingIsAhead'
    BY <2>3, <2>4 DEF DetectInv, PendingIsAhead, Chain
  <2>6. ASSUME NEW t \in Tenant \ Overlap, tampered[t] = "inside"
        PROVE  OneScar(ChainIn(log', t))
    BY <1>d, <2>1, <2>3, <2>6
  <2>7. Scars'
    BY <1>d, <2>1, <2>2, <2>4, <2>6
  <2> QED BY <2>5, <2>7
<1>3. ASSUME NEW q \in Request, Rollback(q) PROVE PendingIsAhead' /\ Scars'
  <2>1. /\ request'[q] = Closed
        /\ \A o \in Request \ {q} : request'[o] = request[o]
        /\ log' = log /\ tampered' = tampered
    BY <1>c, <1>3 DEF Rollback, TypeOK
  <2>2. \A t \in Tenant, o \in Request : request'[o].tenant = t => request'[o] = request[o]
    BY <2>1, AuditAssumption DEF Closed, AuditAssumption
  <2>3. PendingIsAhead'
    BY <2>1, <2>2 DEF DetectInv, PendingIsAhead, Chain
  <2>4. Scars'
    BY <1>d, <2>1, <2>2
  <2> QED BY <2>3, <2>4
<1>4. ASSUME NEW t \in Tenant, Tampering(t)
      PROVE  PendingIsAhead' /\ Scars'
  <2>1. /\ request' = request
        /\ \A u \in Tenant \ {t} : tampered'[u] = tampered[u]
    BY <1>c, <1>4 DEF Tampering, EditEntry, DeleteEntry, MendEntry, TypeOK
  <2>2. PICK old \in Chain(t) :
              \/ log' = log \ {old}
              \/ \E new : /\ IsRow(new, written) /\ new.tenant = t
                          /\ new.sequence <= old.sequence
                          /\ log' = (log \ {old}) \cup {new}
    BY <1>c, <1>4, TamperedRow
  <2>3. ASSUME NEW u \in Tenant \ {t}, NEW more
        PROVE  ChainIn(log' \cup more, u) = ChainIn(log \cup more, u)
    BY <1>c, <1>4, <2>3, TamperingIsLocal
  <2>4. ASSUME NEW u \in Tenant \ {t} PROVE ChainIn(log', u) = ChainIn(log, u)
    <3>1. ChainIn(log' \cup {}, u) = ChainIn(log \cup {}, u)
      BY <2>3
    <3> QED BY <3>1
  <2>5. ASSUME NEW row \in Chain(t)'
        PROVE  \E was \in Chain(t) : row.sequence <= was.sequence /\ row.sequence \in Nat
    <3>1. \A was \in Chain(t) : was.sequence \in Nat
      BY <1>c DEF TypeOK, Chain, ChainIn, IsRow
    <3>2. CASE row \in Chain(t)
      BY <3>1, <3>2
    <3>3. CASE row \notin Chain(t)
      BY <2>2, <3>3 DEF Chain, ChainIn, IsRow
    <3> QED BY <3>2, <3>3
  <2>6. ASSUME NEW q \in Request, NEW u \in Tenant \ Overlap, request[q].tenant = u,
               NEW row \in Chain(u)', NEW new \in request[q].pending
        PROVE  row.sequence < new.sequence
    <3>1. CASE u = t
      <4>1. PICK was \in Chain(t) : row.sequence <= was.sequence /\ row.sequence \in Nat
        BY <2>5, <2>6, <3>1
      <4>2. was.sequence < new.sequence
        BY <2>6, <3>1 DEF DetectInv, PendingIsAhead
      <4>3. was.sequence \in Nat /\ new.sequence \in Nat
        BY <1>c DEF TypeOK, Chain, ChainIn, IsRow, Pending
      <4> QED BY <4>1, <4>2, <4>3
    <3>2. CASE u # t
      BY <2>4, <2>6, <3>2 DEF DetectInv, PendingIsAhead, Chain
    <3> QED BY <3>1, <3>2
  <2>7. PendingIsAhead'
    BY <2>1, <2>6 DEF PendingIsAhead
  <2>8. ASSUME t \notin Overlap, tampered'[t] = "inside"
        PROVE  /\ OneScar(ChainIn(log', t))
               /\ \A q \in Request : request[q].tenant = t =>
                     OneScar(ChainIn(log' \cup request[q].pending, t))
    <3>1. OneScar(ChainIn(log' \cup {}, t))
      BY <1>4, <2>8, TamperingScars
    <3>2. ASSUME NEW q \in Request, request[q].tenant = t
          PROVE  OneScar(ChainIn(log' \cup request[q].pending, t))
      BY <1>4, <2>8, <3>2, TamperingScars
    <3>3. log' \cup {} = log'
      OBVIOUS
    <3> QED BY <3>1, <3>2, <3>3
  <2>9. Scars'
    BY <1>d, <2>1, <2>3, <2>4, <2>8
  <2> QED BY <2>7, <2>9
<1>5. CASE UNCHANGED vars
  <2>1. log' = log /\ request' = request /\ tampered' = tampered
    BY <1>5 DEF vars
  <2>2. PendingIsAhead'
    BY <2>1 DEF DetectInv, PendingIsAhead, Chain
  <2> QED BY <1>d, <2>1, <2>2
<1>6. QED
  BY <1>1, <1>2, <1>3, <1>4, <1>5 DEF Next, Tampering

\* "Editing or deleting a record is therefore detectable" (docs/SECURITY.md),
\* for good: of a tenant whose requests take turns, a chain with an edited entry
\* or a missing inner one does not verify, however much is appended to it, and
\* however many entries after the change are hashed again, short of the last.
THEOREM ChangesAreDetected == Spec => []ChangeIsDetected
<1>1. Init => DetectInv
  BY DetectInit
<1>2. DetectInv /\ [Next]_vars => DetectInv'
  BY DetectNext
<1>3. DetectInv => ChangeIsDetected
  BY ScarIsFound, TheyAreRows DEF DetectInv, ChainInv, ChangeIsDetected, Verified
<1>4. QED
  BY <1>1, <1>2, <1>3, PTL DEF Spec

-----------------------------------------------------------------------------
(* The loop of verify_audit_chain decides the conditions of Linked.        *)

\* A finite set of rows that is not empty has a last one.
LEMMA LastExists ==
    ASSUME NEW rows, IsFiniteSet(rows), rows # {},
           \A row \in rows : row.sequence \in Nat /\ row.created \in Nat
    PROVE  \E last \in rows : Latest(last, rows)
<1> DEFINE sequenceOf == [row \in rows |-> row.sequence]
           sequences == {row.sequence : row \in rows}
           top == Max(sequences)
           alike == {row \in rows : row.sequence = top}
           createdOf == [row \in alike |-> row.created]
           times == {row.created : row \in alike}
<1>1. IsImage(sequences, sequenceOf, rows)
  BY DEF IsImage
<1>2. /\ \A row \in rows : row.sequence <= top
      /\ \E row \in rows : top = row.sequence
  <2>1. /\ \A row \in rows : sequenceOf[row] <= Max(sequences)
        /\ \E row \in rows : Max(sequences) = sequenceOf[row]
    <3> HIDE DEF sequences, sequenceOf
    <3>1. QED
      BY <1>1, ValuesAre
  <2>2. QED
    BY <2>1
<1> HIDE DEF top
<1>3. alike \subseteq rows /\ alike # {} /\ IsFiniteSet(alike)
  BY <1>2, NoMore
<1>4. IsImage(times, createdOf, alike)
  BY <1>3 DEF IsImage
<1>5. \E last \in alike : \A row \in alike : row.created <= last.created
  <2>1. /\ \A row \in alike : createdOf[row] <= Max(times)
        /\ \E row \in alike : Max(times) = createdOf[row]
    <3> HIDE DEF times, createdOf, alike
    <3>1. QED
      BY <1>3, <1>4, ValuesAre
  <2>2. QED
    BY <2>1
<1>6. QED
  BY <1>2, <1>5 DEF Latest

\* Rows with numbers and times.
Timed(rows) == \A row \in rows : row.sequence \in Nat /\ row.created \in Nat

Unordered(n) ==
    \E rows : /\ IsFiniteSet(rows) /\ Cardinality(rows) = n /\ Timed(rows)
              /\ \A s : ~InOrder(rows, s)

\* A last row goes after the others in their order.
LEMMA LastGoesLast ==
    ASSUME NEW rows, IsFiniteSet(rows), Timed(rows),
           NEW last \in rows, Latest(last, rows),
           NEW s, InOrder(rows \ {last}, s)
    PROVE  \E longer : InOrder(rows, longer)
<1> DEFINE n == Cardinality(rows)
           rest == rows \ {last}
           longer == [i \in 1 .. n |-> IF i = n THEN last ELSE s[i]]
<1>1. n \in Nat \ {0} /\ Cardinality(rest) = n - 1
  BY FS_CardinalityType, FS_RemoveElement, FS_EmptySet
<1> HIDE DEF n
<1>2. /\ s \in Bijection(1 .. n - 1, rest)
      /\ \A i, j \in 1 .. n - 1 : i < j => ~WrittenBefore(s[j], s[i])
  BY <1>1 DEF InOrder
<1>3. /\ s \in [1 .. n - 1 -> rest]
      /\ \A i, j \in 1 .. n - 1 : s[i] = s[j] => i = j
      /\ \A row \in rest : \E i \in 1 .. n - 1 : s[i] = row
  BY <1>2 DEF Bijection, Injection, Surjection, IsInjective
<1>4. \A i \in 1 .. n : i = n \/ i \in 1 .. n - 1
  BY <1>1
<1>5. longer \in [1 .. n -> rows]
  BY <1>3, <1>4
<1>6. longer[n] = last /\ \A i \in 1 .. n - 1 : longer[i] = s[i] /\ s[i] # last
  BY <1>1, <1>3
<1> HIDE DEF longer
<1>7. \A i, j \in 1 .. n : longer[i] = longer[j] => i = j
  BY <1>3, <1>4, <1>6
<1>8. \A row \in rows : \E i \in 1 .. n : longer[i] = row
  <2>1. n \in 1 .. n /\ 1 .. n - 1 \subseteq 1 .. n
    BY <1>1
  <2>2. QED
    BY <1>3, <1>6, <2>1
<1>9. longer \in Bijection(1 .. n, rows)
  BY <1>5, <1>7, <1>8 DEF Bijection, Injection, Surjection, IsInjective
<1>10. ASSUME NEW i \in 1 .. n, NEW j \in 1 .. n, i < j
       PROVE  ~WrittenBefore(longer[j], longer[i])
  <2>1. CASE j = n
    <3>1. longer[i] \in rows /\ longer[j] = last
      BY <1>5, <1>6, <2>1
    <3>2. QED
      BY <3>1 DEF WrittenBefore, Latest, Timed
  <2>2. CASE j # n
    <3>1. i \in 1 .. n - 1 /\ j \in 1 .. n - 1
      BY <1>1, <1>10, <2>2
    <3>2. QED
      BY <1>2, <1>6, <1>10, <3>1
  <2>3. QED
    BY <2>1, <2>2
<1>11. QED
  BY <1>9, <1>10 DEF InOrder, n

\* A finite set of rows has an order.
LEMMA OrderExists ==
    ASSUME NEW rows, IsFiniteSet(rows), Timed(rows)
    PROVE  InOrder(rows, Ordered(rows))
<1> DEFINE T == {n \in Nat : Unordered(n)}
<1>1. ASSUME T # {} PROVE FALSE
  <2>1. PICK n \in T : \A m \in T : n <= m
    BY <1>1, LeastNatural
  <2>2. PICK bad : /\ IsFiniteSet(bad) /\ Cardinality(bad) = n /\ Timed(bad)
                   /\ \A s : ~InOrder(bad, s)
    BY <2>1 DEF Unordered
  <2>3. CASE bad = {}
    <3> DEFINE none == [i \in {} |-> i]
    <3>1. Cardinality(bad) = 0 /\ 1 .. 0 = {}
      BY <2>3, FS_EmptySet
    <3>2. none \in Bijection({}, {})
      BY DEF Bijection, Injection, Surjection, IsInjective
    <3>3. InOrder(bad, none)
      <4> HIDE DEF none
      <4>1. QED
        BY <2>3, <3>1, <3>2 DEF InOrder
    <3>4. QED
      BY <2>2, <3>3
  <2>4. CASE bad # {}
    <3>1. PICK last \in bad : Latest(last, bad)
      BY <2>2, <2>4, LastExists DEF Timed
    <3> DEFINE rest == bad \ {last}
    <3>2. IsFiniteSet(rest) /\ Cardinality(rest) = n - 1 /\ Timed(rest)
      BY <2>2, FS_RemoveElement DEF Timed
    <3>3. n - 1 \in Nat /\ n - 1 \notin T
      BY <2>1, <2>2, <3>2, FS_CardinalityType
    <3> HIDE DEF rest
    <3>4. \E s : InOrder(rest, s)
      BY <3>2, <3>3 DEF Unordered
    <3>5. QED
      BY <2>2, <3>1, <3>4, LastGoesLast DEF rest
  <2>5. QED
    BY <2>3, <2>4
<1>2. Cardinality(rows) \in Nat
  BY FS_CardinalityType
<1>3. \E s : InOrder(rows, s)
  <2>1. ~Unordered(Cardinality(rows))
    BY <1>1, <1>2
  <2>2. QED
    BY <2>1 DEF Unordered
<1>4. \E s \in Bijection(1 .. Cardinality(rows), rows) : InOrder(rows, s)
  BY <1>3 DEF InOrder
<1>5. QED
  BY <1>4, Zenon DEF Ordered

\* What the loop asks of the i-th row.
RowPasses(row, i) ==
    /\ OrGenesis(row[i].prev_hash) = IF i = 1 THEN GENESIS_HASH ELSE row[i - 1].entry_hash
    /\ row[i].sequence = i
    /\ row[i].entry_hash = compute_entry_hash(row[i])

\* The loop goes through when every row passes.
LEMMA LoopIs ==
    ASSUME NEW row, NEW n \in Nat
    PROVE  Passes(row, n) <=> \A i \in 1 .. n : RowPasses(row, i)
<1> DEFINE First == [ok |-> TRUE, expected_prev |-> GENESIS_HASH, expected_sequence |-> 1]
           After(last, i) ==
               [ok |-> /\ last.ok
                       /\ OrGenesis(row[i].prev_hash) = last.expected_prev
                       /\ row[i].sequence = last.expected_sequence
                       /\ row[i].entry_hash = compute_entry_hash(row[i]),
                expected_prev     |-> row[i].entry_hash,
                expected_sequence |-> last.expected_sequence + 1]
           Step(f, i) == IF i = 0 THEN First ELSE After(f[i - 1], i)
           Is(f, m) == f = [i \in 0 .. m |-> Step(f, i)]
           Some(m) == \E f : Is(f, m)
<1>2. ASSUME NEW m \in Nat, m = 0 \/ Some(m - 1) PROVE Some(m)
  <2>1. CASE m = 0
    <3> DEFINE f == [i \in 0 .. 0 |-> First]
    <3> HIDE DEF First
    <3>1. Is(f, 0)
      OBVIOUS
    <3>2. QED
      BY <2>1, <3>1
  <2>2. CASE m # 0
    <3> HIDE DEF First, After
    <3>1. PICK g : Is(g, m - 1)
      BY <1>2, <2>2
    <3> DEFINE f == [i \in 0 .. m |-> IF i = m THEN Step(g, m) ELSE g[i]]
    <3> HIDE DEF Step
    <3>2. \A i \in 0 .. m - 1 : f[i] = g[i] /\ g[i] = Step(g, i)
      BY <2>2, <3>1
    <3>3. \A i \in 0 .. m : Step(f, i) = Step(g, i)
      BY <2>2, <3>2 DEF Step
    <3>4. \A i \in 0 .. m : f[i] = Step(f, i)
      <4>1. f[m] = Step(g, m)
        BY <1>2
      <4>2. ASSUME NEW i \in 0 .. m - 1 PROVE f[i] = Step(f, i)
        <5>1. f[i] = g[i] /\ g[i] = Step(g, i)
          BY <3>2
        <5>2. Step(f, i) = Step(g, i)
          BY <1>2, <3>3
        <5>3. QED
          BY <5>1, <5>2
      <4>3. Step(f, m) = Step(g, m)
        BY <1>2, <3>3
      <4> HIDE DEF f
      <4>4. \A i \in 0 .. m : i = m \/ i \in 0 .. m - 1
        BY <1>2
      <4>5. QED
        BY <4>1, <4>2, <4>3, <4>4
    <3>5. f = [i \in 0 .. m |-> f[i]]
      OBVIOUS
    <3> HIDE DEF f
    <3>6. Is(f, m)
      BY <3>4, <3>5
    <3>7. QED
      BY <3>6
  <2>3. QED
    BY <2>1, <2>2
<1>3. Some(n)
  <2> HIDE DEF Some
  <2> DEFINE T == {m \in Nat : ~Some(m)}
  <2>1. ASSUME T # {} PROVE FALSE
    <3>1. PICK m \in T : \A k \in T : m <= k
      BY <2>1, LeastNatural
    <3>2. m = 0 \/ (m - 1 \in Nat /\ m - 1 \notin T)
      BY <3>1
    <3>3. QED
      BY <1>2, <3>1, <3>2
  <2>2. QED
    BY <2>1
<1> DEFINE loop == CHOOSE f : Is(f, n)
<1>4. Passes(row, n) = loop[n].ok
  BY Zenon DEF Passes
<1>5. Is(loop, n)
  <2> HIDE DEF Is
  <2>1. QED
    BY <1>3, Zenon
<1> HIDE DEF loop
<1>6. \A i \in 0 .. n : loop[i] = Step(loop, i)
  BY <1>5
<1> DEFINE Expects(i) ==
               /\ loop[i].expected_sequence = i + 1
               /\ loop[i].expected_prev = IF i = 0 THEN GENESIS_HASH ELSE row[i].entry_hash
               /\ loop[i].ok <=> \A k \in 1 .. i : RowPasses(row, k)
<1>7. ASSUME NEW i \in 0 .. n, i = 0 \/ Expects(i - 1) PROVE Expects(i)
  <2>1. CASE i = 0
    <3>1. loop[0] = First
      BY <1>6, <2>1
    <3>2. QED
      BY <2>1, <3>1
  <2>2. CASE i # 0
    <3> DEFINE last == loop[i - 1]
    <3>1. loop[i] = After(last, i)
      BY <1>6, <2>2
    <3> HIDE DEF loop
    <3>2. /\ last.expected_sequence = i
          /\ last.expected_prev = IF i = 1 THEN GENESIS_HASH ELSE row[i - 1].entry_hash
          /\ last.ok <=> \A k \in 1 .. i - 1 : RowPasses(row, k)
      BY <1>7, <2>2
    <3> HIDE DEF last
    <3>3. /\ loop[i].expected_sequence = i + 1
          /\ loop[i].expected_prev = row[i].entry_hash
          /\ loop[i].ok <=> last.ok /\ RowPasses(row, i)
      BY <3>1, <3>2 DEF RowPasses
    <3>4. (\A k \in 1 .. i : RowPasses(row, k))
             <=> (\A k \in 1 .. i - 1 : RowPasses(row, k)) /\ RowPasses(row, i)
      <4>1. i \in 1 .. i /\ 1 .. i - 1 \subseteq 1 .. i /\ \A k \in 1 .. i : k = i \/ k \in 1 .. i - 1
        BY <2>2
      <4>2. QED
        BY <4>1
    <3>5. QED
      BY <2>2, <3>2, <3>3, <3>4
  <2>3. QED
    BY <2>1, <2>2
<1> HIDE DEF Expects
<1>8. \A i \in 0 .. n : Expects(i)
  <2> DEFINE T == {i \in 0 .. n : ~Expects(i)}
  <2>1. ASSUME T # {} PROVE FALSE
    <3>1. T \in SUBSET Nat
      OBVIOUS
    <3>2. PICK i \in T : \A k \in T : i <= k
      BY <2>1, <3>1, LeastNatural
    <3>3. i = 0 \/ (i - 1 \in 0 .. n /\ i - 1 \notin T)
      BY <3>1, <3>2
    <3>4. QED
      BY <1>7, <3>2, <3>3
  <2>2. QED
    BY <2>1
<1>9. QED
  BY <1>4, <1>8 DEF Expects

\* In a linked chain the i-th row carries the sequence i.
LEMMA SequencesCount ==
    ASSUME NEW rows, Linked(rows), \A row \in rows : row.sequence \in Nat \ {0},
           NEW n \in Nat, n = Cardinality(rows), NEW s, InOrder(rows, s), NEW i \in 1 .. n
    PROVE  s[i].sequence = i
<1>1. /\ s \in [1 .. n -> rows]
      /\ \A j, k \in 1 .. n : s[j] = s[k] => j = k
      /\ \A row \in rows : \E j \in 1 .. n : s[j] = row
      /\ \A j, k \in 1 .. n : j < k => ~(s[k].sequence < s[j].sequence)
  BY DEF InOrder, Bijection, Injection, Surjection, IsInjective, WrittenBefore
<1> DEFINE T == {k \in 1 .. n : s[k].sequence # k}
<1>2. ASSUME T # {} PROVE FALSE
  <2>1. PICK k \in T : \A j \in T : k <= j
    <3>1. T \in SUBSET Nat
      OBVIOUS
    <3> HIDE DEF T
    <3>2. QED
      BY <1>2, <3>1, LeastNatural
  <2>2. \A j \in 1 .. k - 1 : s[j].sequence = j /\ s[j] # s[k]
    BY <1>1, <2>1
  <2>3. s[k] \in rows /\ s[k].sequence # k
    BY <1>1, <2>1
  <2>4. \A row \in rows : row.sequence = s[k].sequence => row = s[k]
    BY <2>3 DEF Linked
  <2>5. CASE s[k].sequence = 1
    <3>1. 1 \in 1 .. k - 1 /\ s[1] \in rows
      BY <1>1, <2>1, <2>3, <2>5
    <3>2. QED
      BY <2>2, <2>4, <2>5, <3>1
  <2>6. CASE s[k].sequence # 1
    <3>1. PICK previous \in rows : s[k].sequence = previous.sequence + 1
      BY <2>3, <2>6 DEF Linked
    <3>2. PICK j \in 1 .. n : s[j] = previous
      BY <1>1
    <3>3. previous.sequence \in Nat /\ s[j].sequence < s[k].sequence
      BY <3>1, <3>2
    <3>4. j < k
      BY <1>1, <2>1, <3>3
    <3>5. s[j].sequence = j
      BY <2>1, <2>2, <3>4
    <3>6. s[k].sequence = j + 1 /\ j + 1 \in 1 .. k - 1
      BY <2>1, <2>3, <3>1, <3>2, <3>4, <3>5
    <3>7. s[j + 1].sequence = j + 1 /\ s[j + 1] # s[k] /\ s[j + 1] \in rows
      BY <1>1, <2>1, <2>2, <3>6
    <3>8. QED
      BY <2>4, <3>6, <3>7
  <2>7. QED
    BY <2>5, <2>6
<1>3. QED
  BY <1>2

\* The conditions hold of a finite set of numbered rows when each row passes in
\* its place.
LEMMA ConditionsAreTheLoop ==
    ASSUME NEW rows, \A row \in rows : row.sequence \in Nat \ {0},
           NEW n \in Nat, n = Cardinality(rows), NEW s, InOrder(rows, s)
    PROVE  Linked(rows) <=> \A i \in 1 .. n : RowPasses(s, i)
<1>1. /\ s \in [1 .. n -> rows]
      /\ \A j, k \in 1 .. n : s[j] = s[k] => j = k
      /\ \A row \in rows : \E j \in 1 .. n : s[j] = row
  BY DEF InOrder, Bijection, Injection, Surjection, IsInjective
<1>2. ASSUME Linked(rows), NEW i \in 1 .. n PROVE RowPasses(s, i)
  <2>1. \A k \in 1 .. n : s[k].sequence = k
    BY <1>2, SequencesCount
  <2>2. s[i] \in rows /\ s[i].entry_hash = compute_entry_hash(s[i])
    BY <1>1, <1>2 DEF Linked
  <2>3. CASE i = 1
    <3>1. \A previous \in rows : s[1].sequence # previous.sequence + 1
      BY <2>1, <2>3
    <3>2. OrGenesis(s[1].prev_hash) = GENESIS_HASH
      BY <1>2, <2>2, <2>3, <3>1 DEF Linked
    <3>3. QED
      BY <2>1, <2>2, <2>3, <3>2 DEF RowPasses
  <2>4. CASE i # 1
    <3>1. PICK previous \in rows : /\ s[i].sequence = previous.sequence + 1
                                   /\ OrGenesis(s[i].prev_hash) = previous.entry_hash
      BY <1>2, <2>1, <2>2, <2>4 DEF Linked
    <3>2. PICK j \in 1 .. n : s[j] = previous
      BY <1>1
    <3>3. j = i - 1
      BY <2>1, <3>1, <3>2
    <3>4. QED
      BY <2>1, <2>2, <2>4, <3>1, <3>2, <3>3 DEF RowPasses
  <2>5. QED
    BY <2>3, <2>4
<1>3. ASSUME \A i \in 1 .. n : RowPasses(s, i) PROVE Linked(rows)
  <2>1. ASSUME NEW row \in rows, NEW other \in rows, row.sequence = other.sequence
        PROVE  row = other
    <3>1. PICK i \in 1 .. n : s[i] = row
      BY <1>1
    <3>2. PICK j \in 1 .. n : s[j] = other
      BY <1>1
    <3>3. i = j
      BY <1>3, <2>1, <3>1, <3>2 DEF RowPasses
    <3>4. QED
      BY <3>1, <3>2, <3>3
  <2>2. ASSUME NEW row \in rows
        PROVE  /\ row.entry_hash = compute_entry_hash(row)
               /\ \/ row.sequence = 1 /\ OrGenesis(row.prev_hash) = GENESIS_HASH
                  \/ \E previous \in rows : /\ row.sequence = previous.sequence + 1
                                            /\ OrGenesis(row.prev_hash) = previous.entry_hash
    <3>1. PICK i \in 1 .. n : s[i] = row
      BY <1>1
    <3>2. RowPasses(s, i)
      BY <1>3
    <3>3. CASE i = 1
      BY <3>1, <3>2, <3>3 DEF RowPasses
    <3>4. CASE i # 1
      <4>1. i - 1 \in 1 .. n
        BY <3>4
      <4>2. s[i - 1] \in rows /\ s[i - 1].sequence = i - 1
        BY <1>1, <1>3, <4>1 DEF RowPasses
      <4>3. row.sequence = s[i - 1].sequence + 1 /\ OrGenesis(row.prev_hash) = s[i - 1].entry_hash
        BY <3>1, <3>2, <3>4, <4>2 DEF RowPasses
      <4>4. QED
        BY <3>1, <3>2, <4>2, <4>3 DEF RowPasses
    <3>5. QED
      BY <3>3, <3>4
  <2>3. QED
    BY <2>1, <2>2 DEF Linked
<1>4. QED
  BY <1>2, <1>3

\* The inductive invariant: every chain is finite, and so is what a request adds
\* to one.
LoopInv ==
    /\ TypeOK
    /\ \A t \in Tenant : IsFiniteSet(Chain(t))
    /\ \A q \in Request : IsFiniteSet(request[q].pending)

LEMMA LoopInit == Init => LoopInv
<1> SUFFICES ASSUME Init PROVE LoopInv
  OBVIOUS
<1>1. \A row \in log : Unchained(row)
  BY DEF Init, LegacyRow, Unchained
<1>2. \A t \in Tenant : Chain(t) = {}
  BY <1>1 DEF Chain, ChainIn
<1>3. \A q \in Request : request[q].pending = {}
  BY DEF Init, Closed
<1>4. QED
  BY <1>2, <1>3, TypeInit, FS_EmptySet DEF LoopInv

LEMMA LoopNext == LoopInv /\ [Next]_vars => LoopInv'
<1> SUFFICES ASSUME LoopInv, [Next]_vars PROVE LoopInv'
  OBVIOUS
<1>t. TypeOK /\ TypeOK'
  BY TypeNext DEF LoopInv
<1>f. /\ \A t \in Tenant : IsFiniteSet(Chain(t))
      /\ \A q \in Request : IsFiniteSet(request[q].pending)
  BY DEF LoopInv
<1> DEFINE Chains == \A t \in Tenant : IsFiniteSet(Chain(t)')
           Flushed == \A q \in Request : IsFiniteSet(request'[q].pending)
<1> SUFFICES Chains /\ Flushed
  BY <1>t DEF LoopInv
<1>1. ASSUME NEW q \in Request, NEW t \in Tenant, NEW body \in Body, Audit(q, t, body)
      PROVE  Chains /\ Flushed
  <2>1. PICK new : Flush(q, t, new)
    BY <1>t, <1>1, AuditCases
  <2>2. /\ request'[q].pending = request[q].pending \cup {new}
        /\ \A o \in Request \ {q} : request'[o] = request[o]
        /\ log' = log
    BY <1>t, <1>1, <2>1 DEF Flush, Audit, TypeOK
  <2>3. IsFiniteSet(request'[q].pending)
    BY <1>f, <2>2, FS_AddElement
  <2>4. QED
    BY <1>f, <2>2, <2>3 DEF Chain
<1>2. ASSUME NEW q \in Request, Commit(q) PROVE Chains /\ Flushed
  <2>1. /\ request'[q] = Closed
        /\ \A o \in Request \ {q} : request'[o] = request[o]
        /\ log' = log \cup request[q].pending
    BY <1>t, <1>2 DEF Commit, TypeOK
  <2>2. ASSUME NEW t \in Tenant PROVE IsFiniteSet(Chain(t)')
    <3>1. Chain(t)' \in SUBSET (Chain(t) \cup request[q].pending)
      BY <2>1 DEF Chain, ChainIn
    <3>2. IsFiniteSet(Chain(t) \cup request[q].pending)
      BY <1>f, FS_Union
    <3>3. QED
      BY <3>1, <3>2, FS_Subset
  <2>3. IsFiniteSet(request'[q].pending)
    BY <2>1, FS_EmptySet DEF Closed
  <2>4. QED
    BY <1>f, <2>1, <2>2, <2>3
<1>3. ASSUME NEW q \in Request, Rollback(q) PROVE Chains /\ Flushed
  <2>1. /\ request'[q] = Closed
        /\ \A o \in Request \ {q} : request'[o] = request[o]
        /\ log' = log
    BY <1>t, <1>3 DEF Rollback, TypeOK
  <2>2. IsFiniteSet(request'[q].pending)
    BY <2>1, FS_EmptySet DEF Closed
  <2>3. QED
    BY <1>f, <2>1, <2>2 DEF Chain
<1>4. ASSUME NEW t \in Tenant, Tampering(t) PROVE Chains /\ Flushed
  <2>1. request' = request /\ \E new : log' \subseteq log \cup {new}
    BY <1>4 DEF Tampering, EditEntry, DeleteEntry, MendEntry
  <2>2. PICK new : log' \subseteq log \cup {new}
    BY <2>1
  <2>3. ASSUME NEW u \in Tenant PROVE IsFiniteSet(Chain(u)')
    <3>1. Chain(u)' \in SUBSET (Chain(u) \cup {new})
      BY <2>2 DEF Chain, ChainIn
    <3>2. IsFiniteSet(Chain(u) \cup {new})
      BY <1>f, FS_AddElement
    <3>3. QED
      BY <3>1, <3>2, FS_Subset
  <2>4. QED
    BY <1>f, <2>1, <2>3
<1>5. CASE UNCHANGED vars
  BY <1>5, <1>f DEF vars, Chain
<1>6. QED
  BY <1>1, <1>2, <1>3, <1>4, <1>5 DEF Next, Tampering

\* The loop of verify_audit_chain, which walks a chain row by row and stops at
\* the first break, answers what the conditions of the other theorems say, on
\* every chain that any interleaving of requests and changes can leave behind.
THEOREM TheLoopIsSound == Spec => []VerifiedIsTheLoop
<1>1. Init => LoopInv
  BY LoopInit
<1>2. LoopInv /\ [Next]_vars => LoopInv'
  BY LoopNext
<1>3. LoopInv => VerifiedIsTheLoop
  <2> SUFFICES ASSUME LoopInv, NEW t \in Tenant
               PROVE  Verified(t) <=> verify_audit_chain(t)
    BY DEF VerifiedIsTheLoop
  <2> DEFINE rows == Chain(t)
             n == Cardinality(rows)
             s == Ordered(rows)
  <2>1. IsFiniteSet(rows) /\ n \in Nat
    BY FS_CardinalityType DEF LoopInv
  <2>2. \A row \in rows : row.sequence \in Nat \ {0} /\ row.created \in Nat
    BY AuditAssumption DEF LoopInv, TypeOK, Chain, ChainIn, IsRow, Unchained, AuditAssumption
  <2>3. verify_audit_chain(t) <=> Passes(s, n)
    BY DEF verify_audit_chain
  <2> HIDE DEF rows, n, s
  <2>4. InOrder(rows, s)
    BY <2>1, <2>2, OrderExists DEF Timed, s
  <2>5. Linked(rows) <=> \A i \in 1 .. n : RowPasses(s, i)
    BY <2>1, <2>2, <2>4, ConditionsAreTheLoop DEF n
  <2>6. Passes(s, n) <=> \A i \in 1 .. n : RowPasses(s, i)
    BY <2>1, LoopIs
  <2>7. QED
    BY <2>3, <2>5, <2>6 DEF Verified, rows
<1>4. QED
  BY <1>1, <1>2, <1>3, PTL DEF Spec
-----------------------------------------------------------------------------
(* What is left of a chain whose requests overlap.  A request sees what is *)
(* committed and what it has flushed itself, so the entry it follows is    *)
(* in the log when it commits: nothing hangs loose, and what an overlap    *)
(* costs is that two entries may follow one.                               *)

\* Every entry hashes to what it records and follows an entry of the chain, or
\* is a first one: a tree whose root is the genesis hash.
Rooted(rows) ==
    \A row \in rows :
       /\ row.entry_hash = compute_entry_hash(row)
       /\ \/ row.sequence = 1 /\ OrGenesis(row.prev_hash) = GENESIS_HASH
          \/ \E previous \in rows : /\ row.sequence = previous.sequence + 1
                                    /\ OrGenesis(row.prev_hash) = previous.entry_hash

\* A place of the chain is taken twice.
Forked(t) ==
    \E row, other \in Chain(t) : row # other /\ row.sequence = other.sequence

\* Whatever overlaps, an untouched chain is a tree, and all that can keep it
\* from verifying is a fork.
UntouchedIsATree ==
    \A t \in Tenant : tampered[t] = "no" =>
        Rooted(Chain(t)) /\ (Verified(t) <=> ~Forked(t))

\* What a request has flushed hangs on the chain as well.
TreeInv ==
    /\ TypeOK /\ PendingIsOwn
    /\ \A t \in Tenant : tampered[t] = "no" =>
          /\ Rooted(Chain(t))
          /\ \A q \in Request :
                request[q].tenant = t => Rooted(ChainIn(log \cup request[q].pending, t))

\* Trees on one root are one tree.
LEMMA TreesGrow ==
    ASSUME NEW rows, NEW more, Rooted(rows), Rooted(more)
    PROVE  Rooted(rows \cup more)
BY DEF Rooted

LEMMA TreeInit == Init => TreeInv
<1> SUFFICES ASSUME Init PROVE TreeInv
  OBVIOUS
<1>1. \A t \in Tenant : Chain(t) = {}
  BY DEF Init, Chain, ChainIn, LegacyRow, Unchained
<1>2. \A q \in Request : request[q].tenant = NoTenant /\ request[q].pending = {}
  BY DEF Init, Closed
<1>3. PendingIsOwn
  BY <1>2 DEF PendingIsOwn
<1>4. QED
  BY <1>1, <1>2, <1>3, TypeInit, AuditAssumption DEF TreeInv, Rooted, AuditAssumption

\* A new entry follows one that its request sees.
LEMMA TreeAudit ==
    ASSUME TreeInv,
           NEW q \in Request, NEW t \in Tenant, NEW body \in Body, Audit(q, t, body)
    PROVE  TreeInv'
<1>t. TypeOK /\ TypeOK'
  BY TypeNext DEF TreeInv, Next
<1>1. PICK new : /\ Flush(q, t, new) /\ new.tenant = t /\ ~Unchained(new)
                 /\ Follows(new, ChainIn(log \cup request[q].pending, t))
  BY <1>t, AuditCases
<1>2. /\ request'[q].tenant = t
      /\ request'[q].pending = request[q].pending \cup {new}
      /\ \A o \in Request \ {q} : request'[o] = request[o]
      /\ log' = log /\ tampered' = tampered
  BY <1>t, <1>1 DEF Flush, Audit, TypeOK
<1>3. request[q].pending = {} \/ request[q].tenant = t
  BY <1>t, AuditAssumption DEF Audit, TypeOK, Closed, AuditAssumption
<1>4. PendingIsOwn'
  BY <1>1, <1>2, <1>3 DEF PendingIsOwn, TreeInv
<1>5. ASSUME tampered[t] = "no"
      PROVE  Rooted(ChainIn(log \cup request'[q].pending, t))
  <2> DEFINE chain == ChainIn(log \cup request[q].pending, t)
  <2>1. Rooted(chain)
    BY <1>3, <1>5 DEF TreeInv, Chain
  <2>2. ChainIn(log \cup request'[q].pending, t) = chain \cup {new}
    BY <1>1, <1>2 DEF ChainIn
  <2>3. Follows(new, chain)
    BY <1>1
  <2> HIDE DEF chain
  <2>4. Rooted(chain \cup {new})
    BY <2>1, <2>3 DEF Follows, Rooted
  <2>5. QED
    BY <2>2, <2>4
<1>6. ASSUME NEW u \in Tenant, tampered'[u] = "no"
      PROVE  /\ Rooted(Chain(u)')
             /\ \A o \in Request :
                   request'[o].tenant = u => Rooted(ChainIn(log \cup request'[o].pending, u))
  BY <1>2, <1>5, <1>6 DEF TreeInv, Chain
<1>7. QED
  BY <1>t, <1>2, <1>4, <1>6 DEF TreeInv

\* A commit joins what its request has flushed to whatever was committed since.
LEMMA TreeCommit ==
    ASSUME TreeInv, NEW q \in Request, Commit(q)
    PROVE  TreeInv'
<1>t. TypeOK /\ TypeOK'
  BY TypeNext DEF TreeInv, Next
<1>1. /\ request'[q] = Closed
      /\ \A o \in Request \ {q} : request'[o] = request[o]
      /\ log' = log \cup request[q].pending /\ tampered' = tampered
  BY <1>t DEF Commit, TypeOK
<1>2. PendingIsOwn'
  BY <1>1 DEF PendingIsOwn, TreeInv, Closed
<1>3. ASSUME NEW u \in Tenant, tampered[u] = "no" PROVE Rooted(ChainIn(log', u))
  <2>1. CASE request[q].tenant = u
    BY <1>1, <1>3, <2>1 DEF TreeInv
  <2>2. CASE request[q].tenant # u
    <3>1. ChainIn(log', u) = Chain(u)
      BY <1>1, <2>2 DEF ChainIn, Chain, PendingIsOwn, TreeInv
    <3>2. QED
      BY <1>3, <3>1 DEF TreeInv
  <2>3. QED
    BY <2>1, <2>2
<1>4. ASSUME NEW u \in Tenant, tampered[u] = "no",
             NEW o \in Request, request'[o].tenant = u
      PROVE  Rooted(ChainIn(log' \cup request'[o].pending, u))
  <2>1. o # q /\ request'[o] = request[o]
    BY <1>1, <1>4, AuditAssumption DEF Closed, AuditAssumption
  <2>2. Rooted(ChainIn(log', u)) /\ Rooted(ChainIn(log \cup request[o].pending, u))
    BY <1>3, <1>4, <2>1 DEF TreeInv
  <2>3. ChainIn(log' \cup request[o].pending, u)
          = ChainIn(log', u) \cup ChainIn(log \cup request[o].pending, u)
    BY <1>1 DEF ChainIn
  <2>4. QED
    BY <2>1, <2>2, <2>3, TreesGrow
<1>5. QED
  BY <1>t, <1>1, <1>2, <1>3, <1>4 DEF TreeInv, Chain

\* Nothing is promised of the chain that somebody changes, and the others do
\* not notice.
LEMMA TreeTamper ==
    ASSUME TreeInv, NEW t \in Tenant, Tampering(t)
    PROVE  TreeInv'
<1>t. TypeOK /\ TypeOK'
  BY TypeNext DEF TreeInv, Next, Tampering
<1>1. /\ request' = request
      /\ tampered'[t] # "no"
      /\ \A u \in Tenant \ {t} : tampered'[u] = tampered[u]
  BY <1>t DEF Tampering, EditEntry, DeleteEntry, MendEntry, TypeOK
<1>2. PendingIsOwn'
  BY <1>1 DEF PendingIsOwn, TreeInv
<1>3. ASSUME NEW u \in Tenant \ {t}, NEW rows
      PROVE  ChainIn(log' \cup rows, u) = ChainIn(log \cup rows, u)
  BY <1>t, <1>3, TamperingIsLocal
<1>4. ASSUME NEW u \in Tenant \ {t} PROVE ChainIn(log', u) = ChainIn(log, u)
  <2>1. ChainIn(log' \cup {}, u) = ChainIn(log \cup {}, u)
    BY <1>3
  <2>2. QED
    BY <2>1
<1>5. ASSUME NEW u \in Tenant, tampered'[u] = "no"
      PROVE  /\ Rooted(Chain(u)')
             /\ \A o \in Request :
                   request'[o].tenant = u => Rooted(ChainIn(log' \cup request'[o].pending, u))
  <2>1. u # t /\ tampered[u] = "no"
    BY <1>1, <1>5
  <2>2. QED
    BY <1>1, <1>3, <1>4, <2>1 DEF TreeInv, Chain
<1>6. QED
  BY <1>t, <1>2, <1>5 DEF TreeInv

LEMMA TreeNext == TreeInv /\ [Next]_vars => TreeInv'
<1> SUFFICES ASSUME TreeInv, [Next]_vars PROVE TreeInv'
  OBVIOUS
<1>1. ASSUME NEW q \in Request, Rollback(q) PROVE TreeInv'
  <2>t. TypeOK /\ TypeOK'
    BY TypeNext DEF TreeInv
  <2>1. /\ request'[q] = Closed
        /\ \A o \in Request \ {q} : request'[o] = request[o]
        /\ log' = log /\ tampered' = tampered
    BY <1>1, <2>t DEF Rollback, TypeOK
  <2>2. PendingIsOwn'
    BY <2>1 DEF PendingIsOwn, TreeInv, Closed
  <2>3. QED
    BY <2>t, <2>1, <2>2, AuditAssumption DEF TreeInv, Chain, Closed, AuditAssumption
<1>2. CASE UNCHANGED vars
  <2>1. TypeOK'
    BY TypeNext DEF TreeInv
  <2>2. QED
    BY <1>2, <2>1 DEF vars, TreeInv, PendingIsOwn, Chain
<1>3. QED
  BY <1>1, <1>2, TreeAudit, TreeCommit, TreeTamper DEF Next, Tampering

\* What the run AuditForked finds is the whole damage: whatever the requests of
\* a tenant do to each other, each entry the application has written hashes to
\* what it says and hangs on the genesis hash, and verify_audit_chain fails
\* only where two entries have one sequence.
THEOREM ForkedChainsAreTrees == Spec => []UntouchedIsATree
<1>1. Init => TreeInv
  BY TreeInit
<1>2. TreeInv /\ [Next]_vars => TreeInv'
  BY TreeNext
<1>3. TreeInv => UntouchedIsATree
  <2> SUFFICES ASSUME TreeInv, NEW t \in Tenant, tampered[t] = "no"
               PROVE  Rooted(Chain(t)) /\ (Verified(t) <=> ~Forked(t))
    BY DEF UntouchedIsATree
  <2>1. Rooted(Chain(t))
    BY DEF TreeInv
  <2>2. Verified(t) <=> ~Forked(t)
    BY <2>1 DEF Verified, Linked, Rooted, Forked
  <2>3. QED
    BY <2>1, <2>2
<1>4. QED
  BY <1>1, <1>2, <1>3, PTL DEF Spec

\* And it is for good: an untouched chain that does not verify never does
\* again, whatever is appended to it.
THEOREM ForksAreForGood ==
    Spec => [][\A t \in Tenant :
                  tampered'[t] = "no" /\ ~Verified(t) => ~Verified(t)']_vars
<1>1. ASSUME TypeOK, UntouchedIsATree, UntouchedIsATree', [Next]_vars,
             NEW t \in Tenant, tampered'[t] = "no", ~Verified(t)
      PROVE  ~Verified(t)'
  <2>1. tampered[t] = "no" /\ Chain(t) \subseteq Chain(t)'
    <3>1. CASE \E u \in Tenant : Tampering(u)
      <4>1. PICK u \in Tenant : Tampering(u)
        BY <3>1
      <4>2. u # t /\ tampered'[t] = tampered[t]
        BY <1>1, <4>1 DEF Tampering, EditEntry, DeleteEntry, MendEntry, TypeOK
      <4>3. ChainIn(log' \cup {}, t) = ChainIn(log \cup {}, t)
        BY <1>1, <4>1, <4>2, TamperingIsLocal
      <4>4. ChainIn(log', t) = ChainIn(log, t)
        BY <4>3
      <4>5. QED
        BY <1>1, <4>2, <4>4 DEF Chain
    <3>2. ASSUME log \subseteq log', tampered' = tampered
          PROVE  tampered[t] = "no" /\ Chain(t) \subseteq Chain(t)'
      BY <1>1, <3>2 DEF Chain, ChainIn
    <3>3. QED
      BY <1>1, <3>1, <3>2 DEF Next, Tampering, Audit, Commit, Rollback, vars
  <2>2. Forked(t)
    BY <1>1, <2>1 DEF UntouchedIsATree
  <2>3. Forked(t)'
    BY <2>1, <2>2 DEF Forked
  <2>4. QED
    BY <1>1, <2>3 DEF UntouchedIsATree
<1>2. TypeOK /\ UntouchedIsATree /\ UntouchedIsATree' /\ [Next]_vars
        => [\A t \in Tenant :
               tampered'[t] = "no" /\ ~Verified(t) => ~Verified(t)']_vars
  BY <1>1
<1>3. QED
  BY <1>2, TypeCorrect, ForkedChainsAreTrees, PTL DEF Spec
=============================================================================
