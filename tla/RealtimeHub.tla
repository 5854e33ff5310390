---------------------------- MODULE RealtimeHub ----------------------------
(***************************************************************************)
(* services/realtime.py and the WebSocket of routes/realtime.py, for the   *)
(* subscribers of one project.  A request publishes in two steps: into the *)
(* queues of its own process, then to Redis, whose relay task delivers in  *)
(* every process, the publishing one included.                             *)
(***************************************************************************)
EXTENDS Naturals, Sequences, FiniteSets, Functions

CONSTANTS
    Replica,        \* API processes
    Client,         \* sockets
    Home,           \* Client -> the process it is connected to
    Message,        \* what is published
    QueueSize       \* asyncio.Queue(maxsize=100)

ASSUME HubAssumption == Replica # {} /\ Home \in [Client -> Replica] /\ QueueSize \in Nat

VARIABLES
    socket,         \* Client -> subscription, queue and what was received
    relay,          \* Replica -> its relay task
    wire,           \* Replica -> what Redis has for its relay
    redis,          \* is Redis reachable?
    news            \* Message -> how far it is published, and where

hubVars == <<socket, relay, wire, redis, news>>

Unsubscribed == [on |-> FALSE, queue |-> <<>>, got |-> <<>>, before |-> {},
                 missed |-> {}]

FirstAt == CHOOSE r \in Replica : TRUE

HubInit ==
    /\ socket = [c \in Client |-> Unsubscribed]
    /\ relay = [r \in Replica |-> "none"]
    /\ wire = [r \in Replica |-> <<>>]
    /\ redis \in BOOLEAN
    /\ news = [m \in Message |-> [pc |-> "new", at |-> FirstAt]]

Holds(c) == Range(socket[c].queue) \cup Range(socket[c].got)

FullWhenOver(c) == Len(socket[c].queue) > QueueSize

Full(c) == Len(socket[c].queue) >= QueueSize

\* _deliver_local as one client sees it.  missed is history: what a full queue
\* refused to a client that has no other copy.
Delivered(c, m) ==
    IF ~socket[c].on THEN socket[c]
    ELSE IF Full(c)
         THEN [socket[c] EXCEPT !.missed = @ \cup ({m} \ Holds(c))]
         ELSE [socket[c] EXCEPT !.queue = Append(@, m)]

\* One QueueFull ends the loop over the subscribers.
DeliverUntilFull(r, m) ==
    socket' = [c \in Client |->
                 IF Home[c] = r /\ (\A d \in Client : Home[d] = r /\ socket[d].on => ~Full(d))
                 THEN Delivered(c, m)
                 ELSE IF Home[c] = r /\ Full(c) THEN Delivered(c, m) ELSE socket[c]]

DeliverLocal(r, m) ==
    socket' = [c \in Client |-> IF Home[c] = r THEN Delivered(c, m) ELSE socket[c]]

PublishLocal(m, at) ==
    /\ news[m].pc = "new"
    /\ news' = [news EXCEPT ![m] = [pc |-> "local", at |-> at]]
    /\ DeliverLocal(at, m)
    /\ UNCHANGED <<relay, wire, redis>>

Listening(r) == redis /\ relay[r] = "on"

\* Redis hands m to the relays of listeners, or none does: an error of the
\* publish is passed over in silence.
Handed(m, listeners) ==
    /\ news[m].pc = "local"
    /\ news' = [news EXCEPT ![m].pc = "done"]
    /\ wire' = [r \in Replica |-> IF r \in listeners THEN Append(wire[r], m) ELSE wire[r]]
    /\ socket' = [c \in Client |->
                    IF socket[c].on /\ Home[c] \notin listeners
                    THEN [socket[c] EXCEPT !.missed = @ \cup ({m} \ Holds(c))]
                    ELSE socket[c]]
    /\ UNCHANGED <<relay, redis>>

PublishRedis(m) == Handed(m, {r \in Replica : Listening(r)})

\* One publish runs into its own 0.3 s, whatever the state of Redis.
PublishFails(m) == Handed(m, {})

Subscribe(c) ==
    /\ ~socket[c].on
    /\ socket' = [socket EXCEPT ![c] =
                    [Unsubscribed EXCEPT !.on = TRUE,
                        !.before = {m \in Message : news[m].pc # "new"}]]
    /\ relay' = [relay EXCEPT ![Home[c]] = IF @ = "none" THEN "retry" ELSE @]
    /\ UNCHANGED <<wire, redis, news>>

\* The socket's loop sends what its queue holds; a page that leaves is
\* unsubscribed.
Send(c) ==
    /\ socket[c].on /\ socket[c].queue # <<>>
    /\ socket' = [socket EXCEPT ![c].queue = Tail(@),
                                ![c].got = Append(@, Head(socket[c].queue))]
    /\ UNCHANGED <<relay, wire, redis, news>>

Leave(c) ==
    /\ socket[c].on
    /\ socket' = [socket EXCEPT ![c] = Unsubscribed]
    /\ UNCHANGED <<relay, wire, redis, news>>
-----------------------------------------------------------------------------
(* The relay task of a process: started by its first subscriber, it        *)
(* subscribes to Redis and tries again when the connection is lost.        *)
RelayOn(r) ==
    /\ relay[r] = "retry" /\ redis
    /\ relay' = [relay EXCEPT ![r] = "on"]
    /\ UNCHANGED <<socket, wire, redis, news>>

RelayDelivers(r) ==
    /\ wire[r] # <<>>
    /\ wire' = [wire EXCEPT ![r] = Tail(@)]
    /\ DeliverLocal(r, Head(wire[r]))
    /\ UNCHANGED <<relay, redis, news>>

RedisFails ==
    /\ redis
    /\ redis' = FALSE
    /\ relay' = [r \in Replica |-> IF relay[r] = "on" THEN "retry" ELSE relay[r]]
    /\ wire' = [r \in Replica |-> <<>>]
    /\ socket' = [c \in Client |->
                    IF socket[c].on
                    THEN [socket[c] EXCEPT !.missed =
                            @ \cup (Range(wire[Home[c]]) \ Holds(c))]
                    ELSE socket[c]]
    /\ UNCHANGED news

RedisReturns ==
    /\ ~redis
    /\ redis' = TRUE
    /\ UNCHANGED <<socket, relay, wire, news>>

HubNext ==
    \/ \E m \in Message :
          \/ PublishRedis(m) \/ PublishFails(m)
          \/ \E at \in Replica : PublishLocal(m, at)
    \/ \E c \in Client : Subscribe(c) \/ Send(c) \/ Leave(c)
    \/ \E r \in Replica : RelayOn(r) \/ RelayDelivers(r)
    \/ RedisFails \/ RedisReturns

HubSpec == HubInit /\ [][HubNext]_hubVars
-----------------------------------------------------------------------------
HubTypeOK ==
    /\ redis \in BOOLEAN
    /\ relay \in [Replica -> {"none", "retry", "on"}]
    /\ DOMAIN wire = Replica /\ \A r \in Replica : Range(wire[r]) \subseteq Message
    /\ news \in [Message -> [pc : {"new", "local", "done"},
                             at : Replica]]
    /\ \A c \in Client :
          /\ Len(socket[c].queue) <= QueueSize
          /\ socket[c].missed \subseteq Message /\ socket[c].before \subseteq Message

Copies(c, m) ==
    Cardinality({i \in 1 .. Len(socket[c].queue) : socket[c].queue[i] = m})
  + Cardinality({i \in 1 .. Len(socket[c].got) : socket[c].got[i] = m})

\* "So every replica sees every event": what was published while a page was
\* subscribed is in its hands, in its queue or on the wire to its process,
\* unless its own queue was full, or Redis, the relay or that one publish
\* failed, and it has at most two copies, two only of what its own process
\* published.
HubDelivers ==
    \A c \in Client, m \in Message :
        /\ socket[c].on /\ m \notin socket[c].before /\ news[m].pc = "done" =>
              m \in Holds(c) \cup Range(wire[Home[c]]) \cup socket[c].missed
        /\ Copies(c, m) <= IF news[m].at = Home[c] THEN 2 ELSE 1
=============================================================================
