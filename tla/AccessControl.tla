--------------------------- MODULE AccessControl ---------------------------
(***************************************************************************)
(* Who a request acts as: the start-up validation of core/config.py, the   *)
(* credentials of core/security.py, the development token, and the two     *)
(* doors, HTTP (get_context) and the WebSocket (_context_for_socket).      *)
(* A signature is a fact of the token here: its kind says whose key signed *)
(* it.  Tenants are one, so a token names a tenant or leaves it to the     *)
(* configured default.                                                     *)
(***************************************************************************)
EXTENDS Sequences, SequencesExt, Functions

CONSTANTS
    Deployments,    \* the settings a deployment may start with
    Credentials     \* what a caller may present

Settings == [production : BOOLEAN, mode : {"headers", "jwt", "oidc", "hybrid"},
             dev : BOOLEAN, secret : BOOLEAN, issuer : BOOLEAN, client : BOOLEAN,
             default : BOOLEAN, rest : BOOLEAN]
Credential == [by : {"key", "bearer", "headers"}, kind : {"key", "jwt", "oidc", "other", "none"},
               tenant : BOOLEAN, roles : Seq(STRING)]

ASSUME AccessAssumption == Deployments \subseteq Settings /\ Credentials \subseteq Credential

VARIABLES
    settings,
    door,           \* what the process does: "boot", "refused" or "open"
    fresh,          \* have the presented tokens not expired yet?
    minted,         \* the role of the last token the development endpoint signed
    session         \* the caller of the last request, or the answer it got

accessVars == <<settings, door, fresh, minted, session>>

READS == {"project:read", "twin:read"}
EDITS == READS \cup {"twin:write", "ai:run", "comment:write"}
LEADS == EDITS \cup {"project:write", "action:approve", "audit:read"}
ROLE_PERMISSIONS ==
    [platform_admin     |-> {"*"},
     organization_admin |-> LEADS \cup {"admin:read", "user:manage"},
     project_director   |-> LEADS \cup {"admin:read"},
     project_manager    |-> LEADS,
     planner            |-> EDITS \cup {"audit:read"},
     qa_qc              |-> EDITS \cup {"audit:read"},
     safety             |-> EDITS \cup {"audit:read"},
     contractor         |-> EDITS,
     viewer             |-> READS,
     public_demo        |-> READS \cup {"ai:run"},
     ai_agent           |-> READS \cup {"ai:run", "action:propose"},
     service_executor   |-> {"project:read", "action:execute", "evidence:write"}]
ROLES == DOMAIN ROLE_PERMISSIONS
PERMISSIONS == UNION Range(ROLE_PERMISSIONS) \ {"*"}

\* require, for a role that may be none of ROLES.
Permits(role, permission) ==
    role \in ROLES /\ ROLE_PERMISSIONS[role] \cap {"*", permission} # {}

Nobody(code) == [role |-> code, source |-> "none", via |-> "none"]
As(role, source, via) == [role |-> role, source |-> source, via |-> via]

AccessInit ==
    /\ settings \in Deployments
    /\ door = "boot"
    /\ fresh = TRUE
    /\ minted = {}
    /\ session = Nobody("401")

\* validate_enterprise_configuration.  rest stands for the storage, CORS,
\* HTTPS and demo settings it also insists on.
Validated(s) ==
    s.production =>
        /\ s.mode # "headers" /\ ~s.dev
        /\ s.mode \in {"jwt", "hybrid"} => s.secret
        /\ s.mode \in {"oidc", "hybrid"} => s.issuer /\ s.client
        /\ s.rest

Boot ==
    /\ door = "boot"
    /\ door' = IF Validated(settings) THEN "open" ELSE "refused"
    /\ UNCHANGED <<settings, fresh, minted, session>>

TokensExpire ==
    /\ fresh
    /\ fresh' = FALSE
    /\ UNCHANGED <<settings, door, minted, session>>

\* dev_token.  A role that is not known is answered with 400.
dev_token(role) ==
    /\ door = "open" /\ ~settings.production /\ settings.dev
    /\ role \in ROLES
    /\ minted' = {role}
    /\ UNCHANGED <<settings, door, fresh, session>>

-----------------------------------------------------------------------------
\* _role_from_claims: the first of the candidates that is a role.
_role_from_claims(candidates) ==
    LET first == SelectInSeq(candidates, LAMBDA r : r \in ROLES)
    IN  IF first = 0 THEN "viewer" ELSE candidates[first]

\* _decode_bearer_token: the source whose key verifies the token, or "none".
\* In hybrid mode a token of the configured issuer that the issuer's key does
\* not verify is still tried against the local key.
OidcKey(c) == IF c.kind = "oidc" /\ settings.issuer /\ fresh THEN "oidc" ELSE "none"
LocalKey(c) == IF c.kind = "jwt" /\ c.tenant /\ fresh THEN "jwt" ELSE "none"

DecodedAsHybrid(c) == IF OidcKey(c) # "none" THEN OidcKey(c) ELSE LocalKey(c)

Decoded(c) ==
    CASE settings.mode = "oidc" -> OidcKey(c)
      [] settings.mode = "jwt" -> LocalKey(c)
      [] settings.mode = "hybrid" ->
            IF OidcKey(c) # "none" THEN OidcKey(c) ELSE LocalKey(c)
      [] settings.mode = "headers" -> "none"

_context_from_claims(c) ==
    IF Decoded(c) = "none" THEN Nobody("401")
    ELSE IF ~c.tenant /\ ~settings.default THEN Nobody("403")
    ELSE As(_role_from_claims(c.roles), Decoded(c), "token")

\* _context_from_api_key: c.roles is empty when the record names no role.
_context_from_api_key(c) ==
    LET role == IF c.roles = <<>> THEN "viewer" ELSE Head(c.roles) IN
    IF c.kind # "key" THEN Nobody("401")
    ELSE IF role \notin ROLES THEN Nobody("403")
    ELSE IF ~c.tenant THEN Nobody("500")
    ELSE As(role, "api_key", "key")

HeaderRole(c) == IF c.roles = <<>> THEN "platform_admin" ELSE Head(c.roles)

\* get_context: a key, else a token, else development headers.
get_context(c) ==
    CASE c.by = "key" -> _context_from_api_key(c)
      [] c.by = "bearer" -> _context_from_claims(c)
      [] c.by = "headers" ->
            IF ~(settings.dev /\ ~settings.production
                   /\ settings.mode \in {"headers", "hybrid"}) THEN Nobody("401")
            ELSE IF HeaderRole(c) \notin ROLES THEN Nobody("400")
            ELSE As(HeaderRole(c), "headers", "headers")

Call(c) ==
    /\ door = "open"
    /\ session' = get_context(c)
    /\ UNCHANGED <<settings, door, fresh, minted>>

\* _context_for_socket and the test of project:read behind it: the same
\* credentials, but headers are taken in every auth mode of a development
\* process, and a refusal has no code of its own.
Socket(c) ==
    LET who == IF c.by # "headers" THEN get_context(c)
               ELSE IF settings.dev /\ ~settings.production
                    THEN As(HeaderRole(c), "headers", "headers") ELSE Nobody("1008") IN
    IF Permits(who.role, "project:read") THEN who ELSE Nobody("1008")

OpenSocket(c) ==
    /\ door = "open"
    /\ session' = Socket(c)
    /\ UNCHANGED <<settings, door, fresh, minted>>

AccessNext ==
    \/ Boot \/ TokensExpire
    \/ \E role \in ROLES : dev_token(role)
    \/ \E c \in Credentials : Call(c) \/ OpenSocket(c)
    \/ \E role \in minted :
          LET c == [by |-> "bearer", kind |-> "jwt", tenant |-> TRUE, roles |-> <<role>>]
          IN  Call(c) \/ OpenSocket(c)

AccessSpec == AccessInit /\ [][AccessNext]_accessVars
-----------------------------------------------------------------------------
AccessTypeOK ==
    /\ settings \in Deployments
    /\ door \in {"boot", "refused", "open"}
    /\ fresh \in BOOLEAN
    /\ minted \subseteq ROLES
    /\ session \in [role : ROLES \cup {"400", "401", "403", "500", "1008"},
                    source : {"none", "headers", "api_key", "jwt", "oidc"},
                    via : {"none", "headers", "key", "token"}]

Entered(c) == {s \in {get_context(c), Socket(c)} : s.source # "none"}

\* A process that accepted its production settings lets nobody in on the word
\* of a header and signs no token for the asking; both doors know a caller by
\* a configured key or by a token that is signed by a key of its auth mode
\* and has not expired, as the same role, and none that the credential does
\* not name but viewer.  The roles of machines and of the public never
\* approve, in any deployment.
ProductionIsKeyed ==
    /\ door = "open" /\ settings.production =>
          /\ minted = {}
          /\ \A c \in Credentials : \A s \in Entered(c) :
                /\ s = get_context(c)
                /\ \/ c.by = "key" /\ c.kind = "key"
                   \/ c.by = "bearer" /\ c.kind = s.source /\ fresh
                /\ s.role \in Range(c.roles) \cup {"viewer"}
                /\ s.source \in {"jwt", "oidc"} => settings.mode \in {s.source, "hybrid"}
    /\ session.role \in {"service_executor", "ai_agent", "public_demo", "viewer"} =>
          ~Permits(session.role, "action:approve")
=============================================================================
