------------------------------ MODULE Throttle ------------------------------
(***************************************************************************)
(* The request budget of one caller: EnterpriseMiddleware._allowed with   *)
(* its Redis counter and its local fallback, and the windows of the public *)
(* demo behind it.  Health paths and a disabled limit are outside.         *)
(* INCR and EXPIRE are two commands of one request; processes share the    *)
(* counter, and each has its own local windows.  The end of a window is an *)
(* action; what it empties is started afresh by the next hit.              *)
(***************************************************************************)
EXTENDS Naturals, FiniteSets

CONSTANTS
    Server,         \* API processes
    Hit,            \* requests of the caller
    Arrival,        \* Hit -> the process that serves it, and its kind
    Limit,          \* rate_limit_requests
    ReadLimit,      \* public_demo_rate_limit_requests
    AskLimit,       \* public_demo_ask_rate_limit_requests
    FailOpens       \* a set of Booleans: rate_limit_fail_open

VARIABLES
    hits,           \* Hit -> where the request is, and what it passed
    counter,        \* the Redis key: its value and whether it will expire
    redisUp,        \* does Redis answer?
    latched,        \* the processes with _redis_failed set
    connected,      \* the processes that hold a client
    window,         \* Server -> bucket -> count of the current local window
    failOpen,       \* rate_limit_fail_open of this deployment
    lost            \* was a window left without its EXPIRE? (history)

throttleVars == <<hits, counter, redisUp, latched, connected, window, failOpen, lost>>

BUCKETS == {"api", "read", "ask"}
KINDS == {"member", "demo", "ask"}

ASSUME ThrottleAssumption ==
    /\ Limit \in Nat /\ ReadLimit \in Nat /\ AskLimit \in Nat
    /\ FailOpens \subseteq BOOLEAN
    /\ Arrival \in [Hit -> [at : Server, kind : KINDS]]

ThrottleInit ==
    /\ hits = [q \in Hit |-> [pc |-> "new", at |-> Arrival[q].at,
                              kind |-> Arrival[q].kind, passed |-> {}]]
    /\ counter = [count |-> 0, expires |-> FALSE]
    /\ redisUp \in BOOLEAN
    /\ failOpen \in FailOpens
    /\ latched = {}
    /\ connected = {}
    /\ window = [s \in Server |-> [b \in BUCKETS |-> 0]]
    /\ lost = FALSE

To(q, pc) == hits' = [hits EXCEPT ![q].pc = pc]
Pass(q, pc, budget) ==
    hits' = [hits EXCEPT ![q].pc = pc, ![q].passed = @ \cup {budget}]

Hitting(q, pc) == hits[q].pc = pc

\* After the middleware: an api request is served, a demo request goes on.
Admitted(q) == IF hits[q].kind = "member" THEN "served" ELSE "guard"

\* _redis_client: the first request of a process connects, and a failure is
\* remembered for the life of the process.
Connect(q) ==
    LET s == hits[q].at IN
    /\ Hitting(q, "new")
    /\ To(q, IF s \in latched \/ (s \notin connected /\ ~redisUp) THEN "local" ELSE "incr")
    /\ connected' = IF s \notin latched /\ redisUp THEN connected \cup {s} ELSE connected
    /\ latched' = IF s \notin connected /\ ~redisUp THEN latched \cup {s} ELSE latched
    /\ UNCHANGED <<counter, redisUp, window, failOpen, lost>>

StartsWindowLate(count) == count = Limit
StartsWindow(count) == count = 1

\* What Redis makes of INCR and of EXPIRE.
Counting == [counter EXCEPT !.count = @ + 1]
Expiring == IF counter.count > 0 THEN [counter EXCEPT !.expires = TRUE] ELSE counter

Incr(q) ==
    LET count == counter.count + 1 IN
    /\ Hitting(q, "incr") /\ redisUp
    /\ counter' = Counting
    /\ IF StartsWindow(count) THEN To(q, "expire")
       ELSE IF count <= Limit THEN Pass(q, Admitted(q), "redis") ELSE To(q, "refused")
    /\ UNCHANGED <<redisUp, latched, connected, window, failOpen, lost>>

Expire(q) ==
    /\ Hitting(q, "expire") /\ redisUp
    /\ counter' = Expiring
    /\ IF 1 <= Limit THEN Pass(q, Admitted(q), "redis") ELSE To(q, "refused")
    /\ UNCHANGED <<redisUp, latched, connected, window, failOpen, lost>>

\* A command is not answered, for a timeout of a quarter of a second or for
\* good: the request is refused, or counted by the process itself.
GotNoAnswer(q) ==
    /\ hits[q].pc \in {"incr", "expire"}
    /\ To(q, IF failOpen THEN "local" ELSE "refused")
    /\ UNCHANGED <<redisUp, latched, connected, window, failOpen>>

\* Redis did not get it: an INCR before it stays counted, without its expiry.
CommandFails(q) ==
    /\ GotNoAnswer(q)
    /\ counter' = counter
    /\ lost' = (lost \/ hits[q].pc = "expire")

\* Redis executed it: nobody sends the EXPIRE of an INCR that started a window.
AnswerFails(q) ==
    /\ GotNoAnswer(q)
    /\ counter' = IF hits[q].pc = "incr" THEN Counting ELSE Expiring
    /\ lost' = (lost \/ (hits[q].pc = "incr" /\ counter.count = 0))

\* A hit of a local window, under its lock.
Local(q, pc, bucket, limit, next) ==
    LET s == hits[q].at
        count == window[s][bucket] + 1 IN
    /\ Hitting(q, pc)
    /\ window' = [window EXCEPT ![s][bucket] = count]
    /\ IF count <= limit THEN Pass(q, next, bucket) ELSE To(q, "refused")
    /\ UNCHANGED <<counter, redisUp, latched, connected, failOpen, lost>>

CountLocally(q) == Local(q, "local", "api", Limit, Admitted(q))

demo_guard(q) ==
    Local(q, "guard", "read", ReadLimit, IF hits[q].kind = "ask" THEN "ask" ELSE "served")

ask(q) == Local(q, "ask", "ask", AskLimit, "question")

\* The question is one of the allowed ones and reaches the reasoner, or not.
Question(q) ==
    /\ Hitting(q, "question")
    /\ \E next \in {"reasoned", "refused"} : To(q, next)
    /\ UNCHANGED <<counter, redisUp, latched, connected, window, failOpen, lost>>
-----------------------------------------------------------------------------
\* A request whose budget ended with its window is forgotten.
Forget(members, budget) ==
    hits' = [q \in Hit |-> IF q \in members
                           THEN [hits[q] EXCEPT !.passed = @ \ {budget}] ELSE hits[q]]

RedisWindowEnds ==
    /\ counter.expires
    /\ counter' = [count |-> 0, expires |-> FALSE]
    /\ Forget(Hit, "redis")
    /\ UNCHANGED <<redisUp, latched, connected, window, failOpen, lost>>

LocalWindowEnds(s, bucket) ==
    /\ window[s][bucket] > 0
    /\ window' = [window EXCEPT ![s][bucket] = 0]
    /\ Forget({q \in Hit : hits[q].at = s}, bucket)
    /\ UNCHANGED <<counter, redisUp, latched, connected, failOpen, lost>>

RedisChanges ==
    /\ redisUp' = ~redisUp
    /\ UNCHANGED <<hits, counter, latched, connected, window, failOpen, lost>>

ThrottleNext ==
    \/ \E q \in Hit :
          \/ Connect(q) \/ Incr(q) \/ Expire(q) \/ CommandFails(q) \/ AnswerFails(q)
          \/ CountLocally(q) \/ demo_guard(q) \/ ask(q) \/ Question(q)
    \/ RedisWindowEnds
    \/ \E s \in Server, b \in BUCKETS : LocalWindowEnds(s, b)
    \/ RedisChanges

ThrottleSpec == ThrottleInit /\ [][ThrottleNext]_throttleVars
-----------------------------------------------------------------------------
ThrottleTypeOK ==
    /\ hits \in [Hit -> [pc : {"new", "incr", "expire", "local", "guard", "ask",
                               "question", "served", "reasoned", "refused"},
                         at : Server, kind : KINDS, passed : SUBSET (BUCKETS \cup {"redis"})]]
    /\ counter \in [count : Nat, expires : BOOLEAN]
    /\ latched \subseteq Server /\ connected \subseteq Server
    /\ latched \cap connected = {}
    /\ window \in [Server -> [BUCKETS -> Nat]]

Passed(budget, servers) ==
    Cardinality({q \in Hit : hits[q].at \in servers /\ budget \in hits[q].passed})

\* Whatever overlaps, fails and ends: the processes together admit at most
\* Limit requests per Redis window, each of them at most Limit, ReadLimit and
\* AskLimit per local one, and a counter is without an expiry only while the
\* request that started it is at EXPIRE, or after the answer to the INCR that
\* started it, or that EXPIRE, was lost.
ThrottleHolds ==
    /\ Passed("redis", Server) <= Limit
    /\ \A s \in Server :
          /\ Passed("api", {s}) <= Limit
          /\ Passed("read", {s}) <= ReadLimit
          /\ Passed("ask", {s}) <= AskLimit
    /\ counter.count > 0 /\ ~counter.expires =>
          lost \/ \E q \in Hit : hits[q].pc = "expire"
=============================================================================
