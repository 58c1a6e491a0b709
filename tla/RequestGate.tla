----------------------------- MODULE RequestGate -----------------------------
(***************************************************************************)
(* Who may do what: the scopes a client is registered with, the token it   *)
(* is issued, and the three gates an authenticated request passes on its   *)
(* way to a handler (the client policy, the delegated scope, the role).    *)
(*                                                                         *)
(* One account, with a console session and a token delegated to the        *)
(* application App.  Handlers that change registrations are carried out,   *)
(* as requests of either token; the others end at the handler's door.      *)
(* Tombstones and the outbox are those of AuthStateCache: a cached entry   *)
(* of a revoked token may vanish here, and a fill may follow.              *)
(***************************************************************************)
EXTENDS Naturals, SequencesExt

CONSTANTS
    Requests,   \* authenticated requests
    App,        \* the client the delegated token is issued to
    Other,      \* a client registered later
    Console,    \* the built-in client, InternalClientID and ProtectedClientID
    Keep,       \* a field that an update leaves out
    PutLimit,   \* longest time from a request's database read to its SET NX
    Settings    \* situations to start from, with AUTH_STATE_CACHE_TTL and bounds

VARIABLES
    setting,    \* one of Settings: [role: of the account, type, scopes: of App,
                \* registered: whether Other is there from the start,
                \* offers: the scope lists that requests submit, timed: time passes,
                \* active: the requests that are made, cacheTTL,
                \* writes, changes: bounds on updates of registrations and account]
    account,    \* role and state of the tokens' subject
    client,     \* the rows of oauth_clients
    token,      \* the two access tokens
    cache,      \* their auth-state entries
    req         \* the requests

vars == <<setting, account, client, token, cache, req>>

Clients == {Console, App, Other}
Tokens == {"session", "delegated"}
Roles == {"member", "lecturer", "manager", "admin"}
Types == {"first_party", "third_party"}

-----------------------------------------------------------------------------
(* Scopes *)

oidcScopes == <<"openid", "profile", "email">>
adminScopes == <<"admin:read", "admin:write">>
userScopes == <<"user:read", "user:write">>
canonicalOrder == oidcScopes \o adminScopes \o userScopes
Invalid == <<>>

isSupported(name) == name \in ToSet(canonicalOrder)
ContainsAdmin(scopes) == ToSet(scopes) \cap ToSet(adminScopes) # {}
ContainsUser(scopes) == ToSet(scopes) \cap ToSet(userScopes) # {}
Capable(scopes) == ContainsAdmin(scopes) \/ ContainsUser(scopes)

\* Supported names, none twice, openid among them; in canonical order.
Normalize(scopes) ==
    LET names == ToSet(scopes)  IN
    IF /\ \A name \in names : isSupported(name)
       /\ IsInjective(scopes) /\ "openid" \in names
    THEN SelectSeq(canonicalOrder, LAMBDA name : name \in names)
    ELSE Invalid

ContainsAll(granted, requested) ==
    /\ Normalize(granted) # Invalid /\ Normalize(requested) # Invalid
    /\ ToSet(requested) \subseteq ToSet(granted)

\* The admin scopes are for confidential clients, whatever the row says.
checkScopeForClient(row, requested) ==
    /\ ContainsAdmin(requested) => row.type = "third_party"
    /\ ContainsAll(row.scopes, requested)

-----------------------------------------------------------------------------
(* Routes: the client policy, the scopes and the roles each one is mounted   *)
(* behind.  An act stands for the routes with the same gates and purpose.    *)

AdminRole == {"admin"}
ReaderRoles == {"admin", "manager", "lecturer"}
UserWriterRoles == {"admin", "manager"}
AdminReadScopes == {"admin:read", "admin:write"}
AdminWriteScopes == {"admin:write"}
UserReadScopes == {"user:read", "user:write"}
UserWriteScopes == {"user:write"}
Ungated == ToSet(canonicalOrder)

Gate(policy, scopes, roles) == [policy |-> policy, scopes |-> scopes, roles |-> roles]

sessionRoutes == [
    logout    |-> Gate("logout", UserWriteScopes, Roles),
    readOwn   |-> Gate("user", UserReadScopes, Roles),
    writeOwn  |-> Gate("user", UserWriteScopes, Roles)]
badgeRoutes == [
    readBadge |-> Gate("user", UserReadScopes, Roles),
    setBadge  |-> Gate("user", UserWriteScopes, Roles)]
oauthloginRoutes == [
    bindProvider |-> Gate("internal", UserWriteScopes, Roles)]
oauthRoutes == [
    consent   |-> Gate("internal", Ungated, Roles),
    userInfo  |-> Gate("any", Ungated, Roles)]
adminRoutes == [
    readRegistry   |-> Gate("admin", AdminReadScopes, AdminRole),
    writeRegistry  |-> Gate("admin", AdminWriteScopes, AdminRole),
    readDirectory  |-> Gate("admin", AdminReadScopes, ReaderRoles),
    writeDirectory |-> Gate("admin", AdminWriteScopes, UserWriterRoles),
    readAudit      |-> Gate("admin", AdminReadScopes, AdminRole),
    readStats      |-> Gate("admin", AdminReadScopes, UserWriterRoles)]
alumniRoutes == [
    readTickets    |-> Gate("admin", AdminReadScopes, AdminRole),
    decideTickets  |-> Gate("admin", AdminWriteScopes, AdminRole)]

Routes == sessionRoutes @@ badgeRoutes @@ oauthloginRoutes @@ oauthRoutes
            @@ adminRoutes @@ alumniRoutes
Acts == DOMAIN Routes

-----------------------------------------------------------------------------
(* What each act asks of the caller, for EveryActIsBacked: stated from its   *)
(* purpose, not from its gates.                                              *)

OwnActs == {"logout", "readOwn", "writeOwn", "readBadge", "setBadge"}
AdminActs == DOMAIN adminRoutes \cup DOMAIN alumniRoutes
Reads == {"readOwn", "readBadge", "readRegistry", "readDirectory", "readAudit",
          "readStats", "readTickets"}

ScopesFor(act) ==
    {s \in {"user:write", "user:read"} : act \in OwnActs /\ (s = "user:read" => act \in Reads)}
    \cup {s \in {"admin:write", "admin:read"} :
            act \in AdminActs /\ (s = "admin:read" => act \in Reads)}

RolesFor(act) ==
    IF act \notin AdminActs THEN Roles
    ELSE {"admin"} \cup {r \in {"manager"} :
                            act \in {"readDirectory", "writeDirectory", "readStats"}}
                   \cup {r \in {"lecturer"} : act = "readDirectory"}

\* The token is live, its subject may act, and the application's present
\* registration and the consented scopes both cover the act.
Entitled(t, act) ==
    /\ token[t].st = "live" /\ ~account.closed /\ account.role \in RolesFor(act)
    /\ t = "session" => client[Console].exists /\ client[Console].active
    /\ t = "delegated" =>
        /\ client[App].exists /\ client[App].active
        /\ act \in AdminActs => client[App].type = "third_party"
        /\ \/ act = "userInfo"
           \/ ScopesFor(act) \cap ToSet(token[t].scopes) \cap ToSet(client[App].scopes) # {}

-----------------------------------------------------------------------------
(* State *)

StaleLimit == PutLimit + setting.cacheTTL

\* What one database read of a token's state returned.  may and age are
\* history: the acts the caller was entitled to then, and the ticks since.
NotFound == [st |-> "none"]
Snapshot(t) == [st |-> token[t].st, role |-> account.role, closed |-> account.closed,
                may |-> {act \in Acts : Entitled(t, act)}, age |-> 0]
Older(state) ==
    IF state = NotFound \/ state.age > StaleLimit THEN state ELSE [state EXCEPT !.age = @ + 1]

NoEntry == [state |-> NotFound, ttl |-> 0]
Absent == [exists |-> FALSE, active |-> FALSE, type |-> "first_party",
           scopes |-> Invalid, stamp |-> 0]
Row(type, scopes) == [exists |-> TRUE, active |-> TRUE, type |-> type,
                      scopes |-> scopes, stamp |-> 0]

\* acts: the acts whose gates the request passes, whichever of them it asks for.
Idle == [pc |-> "idle", token |-> "session", seen |-> NotFound, left |-> 0,
         acts |-> {}, target |-> Console, row |-> Absent]

\* As Normalize returns a list: in canonical order, each name once.
InOrder(scopes) ==
    LET names == ToSet(scopes)  IN scopes = SelectSeq(canonicalOrder, LAMBDA name : name \in names)

RowOK(row) ==
    /\ row.exists \in BOOLEAN /\ row.active \in BOOLEAN /\ row.type \in Types
    /\ InOrder(row.scopes) /\ row.stamp \in 0..setting.writes

StateOK(state) ==
    state = NotFound \/ /\ state.st \in {"live", "revoked"} /\ state.role \in Roles
                        /\ state.closed \in BOOLEAN /\ state.may \subseteq Acts
                        /\ state.age \in 0..(StaleLimit + 1)

TypeOK ==
    /\ account \in [role: Roles, closed: BOOLEAN, changes: 0..setting.changes]
    /\ \A row \in {client[c] : c \in Clients} \cup {req[p].row : p \in Requests} : RowOK(row)
    /\ \A state \in {cache[t].state : t \in Tokens} \cup {req[p].seen : p \in Requests} :
            StateOK(state)
    /\ \A t \in Tokens : /\ token[t].st \in {"none", "live", "revoked"}
                         /\ token[t].expired \in BOOLEAN /\ InOrder(token[t].scopes)
                         /\ cache[t].ttl \in 0..setting.cacheTTL
    /\ \A p \in Requests :
        /\ req[p].pc \in {"idle", "put", "handler", "update"}
        /\ req[p].token \in Tokens /\ req[p].left \in 0..PutLimit
        /\ req[p].target \in Clients
    /\ UNION {req[p].acts : p \in Requests} \subseteq Acts

Init ==
    /\ setting \in Settings
    /\ account = [role |-> setting.role, closed |-> FALSE, changes |-> 0]
    /\ client = [c \in Clients |-> CASE c = Console -> Row("first_party", oidcScopes)
                                     [] c = App -> Row(setting.type, setting.scopes)
                                     [] c = Other -> IF setting.registered
                                                     THEN Row("third_party", oidcScopes) ELSE Absent]
    /\ token = [t \in Tokens |->
                    IF t = "session" THEN [st |-> "live", expired |-> FALSE, scopes |-> oidcScopes]
                    ELSE [st |-> "none", expired |-> FALSE, scopes |-> Invalid]]
    /\ cache = [t \in Tokens |-> NoEntry]
    /\ req = [p \in Requests |-> Idle]

-----------------------------------------------------------------------------
(* The gates *)

ClientOf(t) == IF t = "session" THEN Console ELSE App
Exempt(t) == ClientOf(t) = Console

\* applyScopedPolicy and requireInternalClient.
Policy(t, policy) ==
    \/ Exempt(t) \/ policy = "any"
    \/ policy \in {"user", "logout"} /\ ContainsUser(token[t].scopes)
    \/ policy = "admin" /\ ContainsAdmin(token[t].scopes)

RequireDelegatedScope(t, allowed) ==
    Exempt(t) \/ ToSet(token[t].scopes) \cap allowed # {}

RequireRole(role, allowed) == allowed = Roles \/ role \in allowed

\* RequireAuth, RequireUserAuth or RequireAdminAuth, and the gates behind it.
Admitted(t, role) ==
    LET routes == Routes  IN
    {act \in DOMAIN routes : /\ Policy(t, routes[act].policy)
                             /\ RequireDelegatedScope(t, routes[act].scopes)
                             /\ RequireRole(role, routes[act].roles)}

-----------------------------------------------------------------------------
(* Authentication: authenticateClaims and authState *)

AtHandler(t, state, acts) ==
    [Idle EXCEPT !.pc = "handler", !.token = t, !.seen = state, !.acts = acts]

\* A live token of an account that is not closed meets the gates.
authenticateClaims(p, t, state) ==
    req' = [req EXCEPT ![p] = IF state.st = "live" /\ ~state.closed
                              THEN AtHandler(t, state, Admitted(t, state.role))
                              ELSE Idle]

\* Verified and unexpired.
VerifyAccessToken(p, t) ==
    /\ req[p].pc = "idle" /\ p \in setting.active
    /\ token[t].st # "none" /\ ~token[t].expired

CacheHit(p, t) ==
    /\ VerifyAccessToken(p, t)
    /\ cache[t].state # NotFound
    /\ authenticateClaims(p, t, cache[t].state)
    /\ UNCHANGED <<account, client, token, cache>>

\* After a miss, or an error of the cache; the rows of a deleted client's
\* tokens are gone with it.
FindAccessAuthStateByJTI(p, t) ==
    /\ VerifyAccessToken(p, t)
    /\ client[ClientOf(t)].exists
    /\ req' = [req EXCEPT ![p] = [Idle EXCEPT !.pc = "put", !.token = t,
                                              !.seen = Snapshot(t), !.left = PutLimit]]
    /\ UNCHANGED <<account, client, token, cache>>

\* SET NX, unless caching is turned off; an error of it is only logged.
PutAuthState(p) ==
    LET t == req[p].token  IN
    /\ req[p].pc = "put"
    /\ \/ /\ cache[t].state = NotFound /\ setting.cacheTTL > 0
          /\ cache' = [cache EXCEPT ![t] = [state |-> req[p].seen, ttl |-> setting.cacheTTL]]
       \/ UNCHANGED cache
    /\ authenticateClaims(p, t, req[p].seen)
    /\ UNCHANGED <<account, client, token>>

\* An expired token is admitted on its claims, and only to the logout.
AuthenticateUserLogout(p, t) ==
    /\ req[p].pc = "idle" /\ p \in setting.active
    /\ token[t].st # "none" /\ token[t].expired
    /\ req' = [req EXCEPT ![p] = AtHandler(t, NotFound, {"logout"} \cap Admitted(t, "none"))]
    /\ UNCHANGED <<account, client, token, cache>>

Respond(p) ==
    /\ req[p].pc = "handler"
    /\ req' = [req EXCEPT ![p] = Idle]
    /\ UNCHANGED <<account, client, token, cache>>

-----------------------------------------------------------------------------
(* The client registry *)

Handles(p) == req[p].pc = "handler" /\ "writeRegistry" \in req[p].acts
actorIsConsole(p) == ClientOf(req[p].token) = Console
RevokedTokens(which) ==
    [t \in Tokens |-> IF t \in which /\ token[t].st = "live"
                      THEN [token[t] EXCEPT !.st = "revoked"] ELSE token[t]]

\* A registration ends up with a capability scope only by the console's hand,
\* and with an admin scope only if it is confidential.
checkCapabilityScopeGrant(p, type, scopes) ==
    Capable(scopes) => /\ ContainsAdmin(scopes) => type = "third_party"
                       /\ actorIsConsole(p)

WritesLeft == client[App].stamp + client[Other].stamp + client[Console].stamp < setting.writes

CreateClient(p, type, scopes) ==
    /\ Handles(p)
    /\ client[Other] = Absent
    /\ client' = IF /\ Normalize(scopes) # Invalid /\ WritesLeft
                    /\ checkCapabilityScopeGrant(p, type, Normalize(scopes))
                 THEN [client EXCEPT ![Other] = [Row(type, Normalize(scopes)) EXCEPT !.stamp = 1]]
                 ELSE client
    /\ req' = [req EXCEPT ![p] = Idle]
    /\ UNCHANGED <<account, token, cache>>

\* The row the guards of an update or a rotation judge.
FindByID(p, c) ==
    /\ Handles(p)
    /\ client[c].exists
    /\ req' = [req EXCEPT ![p].pc = "update", ![p].target = c, ![p].row = client[c]]
    /\ UNCHANGED <<account, client, token, cache>>

Given(field, stored) == IF field = Keep THEN stored ELSE field

\* The built-in client may be renamed and re-enabled; one with a capability
\* scope is the console's to maintain.
checkProtected(p, row, active, scopes) ==
    IF req[p].target = Console THEN active # FALSE /\ scopes = Keep
    ELSE Capable(row.scopes) => actorIsConsole(p)

scopesNarrowed(row, next) == ~(ToSet(row.scopes) \subseteq ToSet(next))

\* Mutant: tokens are cut when a scope is taken away, and not when the client
\* is disabled.
RevokesNarrowed(row, active, next) == scopesNarrowed(row, next)

\* Disabled, narrowed, or given its first scope of a capability class.
Revokes(row, active, next) ==
    \/ active = FALSE /\ row.active
    \/ scopesNarrowed(row, next)
    \/ ContainsAdmin(next) /\ ~ContainsAdmin(row.scopes)
    \/ ContainsUser(next) /\ ~ContainsUser(row.scopes)

\* Mutant: the row is written whatever its updated_at.
AnyRow(p) == client[req[p].target].exists

\* The row is still the one that was judged.
SameRow(p) ==
    LET c == req[p].target  IN client[c].exists /\ client[c].stamp = req[p].row.stamp

TokensOf(c) == {t \in Tokens : ClientOf(t) = c}

\* The guards, then UpdateAndRevoke; an omitted field is kept, and an update
\* of neither is a renaming.
UpdateClient(p, active, scopes) ==
    LET c == req[p].target
        row == req[p].row
        submitted == IF scopes = Keep THEN Keep ELSE Normalize(scopes)
        next == Given(submitted, row.scopes)
    IN
    /\ req[p].pc = "update"
    /\ IF /\ submitted # Invalid
          /\ checkProtected(p, row, active, scopes)
          /\ checkCapabilityScopeGrant(p, row.type, next)
          /\ SameRow(p) /\ WritesLeft
       THEN /\ client' = [client EXCEPT ![c].active = Given(active, @),
                                        ![c].scopes = Given(submitted, @),
                                        ![c].stamp = @ + 1]
            /\ token' = IF Revokes(row, active, next) THEN RevokedTokens(TokensOf(c)) ELSE token
       ELSE UNCHANGED <<client, token>>
    /\ req' = [req EXCEPT ![p] = Idle]
    /\ UNCHANGED <<account, cache>>

\* A new secret for a confidential client; its tokens stay.
RotateClientSecret(p) ==
    LET c == req[p].target  IN
    /\ req[p].pc = "update"
    /\ client' = IF /\ req[p].row.type = "third_party" /\ actorIsConsole(p)
                    /\ SameRow(p) /\ WritesLeft
                 THEN [client EXCEPT ![c].stamp = @ + 1] ELSE client
    /\ req' = [req EXCEPT ![p] = Idle]
    /\ UNCHANGED <<account, token, cache>>

\* Any administrator's request may remove any client but the built-in one.
DeleteClient(p, c) ==
    /\ Handles(p)
    /\ client[c].exists /\ c # Console
    /\ client' = [client EXCEPT ![c].exists = FALSE]
    /\ token' = RevokedTokens(TokensOf(c))
    /\ req' = [req EXCEPT ![p] = Idle]
    /\ UNCHANGED <<account, cache>>

-----------------------------------------------------------------------------
(* The rest of the system *)

\* The delegated token is issued for scopes the registration covers.
CreatePair(scopes) ==
    /\ token["delegated"].st = "none"
    /\ ~account.closed /\ client[App].exists /\ client[App].active
    /\ Normalize(scopes) # Invalid /\ checkScopeForClient(client[App], scopes)
    /\ token' = [token EXCEPT !["delegated"].st = "live", !["delegated"].scopes = Normalize(scopes)]
    /\ UNCHANGED <<account, client, cache, req>>

\* A role change and a close revoke the sessions in the same transaction.
UpdateAdminUser(role) ==
    /\ role # account.role /\ ~account.closed /\ account.changes < setting.changes
    /\ account' = [account EXCEPT !.role = role, !.changes = @ + 1]
    /\ token' = RevokedTokens(Tokens)
    /\ UNCHANGED <<client, cache, req>>

DeleteAdminUser ==
    /\ ~account.closed /\ account.changes < setting.changes
    /\ account' = [account EXCEPT !.closed = TRUE, !.changes = @ + 1]
    /\ token' = RevokedTokens(Tokens)
    /\ UNCHANGED <<client, cache, req>>

RestoreAdminUser ==
    /\ account.closed /\ account.changes < setting.changes
    /\ account' = [account EXCEPT !.closed = FALSE, !.changes = @ + 1]
    /\ UNCHANGED <<client, token, cache, req>>

\* The tombstone of a revocation, whenever it is delivered.
DeliverBlacklist(t) ==
    /\ token[t].st = "revoked" /\ cache[t].state # NotFound
    /\ cache' = [cache EXCEPT ![t] = NoEntry]
    /\ UNCHANGED <<account, client, token, req>>

ExpireToken(t) ==
    /\ setting.timed /\ token[t].st # "none" /\ ~token[t].expired
    /\ token' = [token EXCEPT ![t].expired = TRUE]
    /\ UNCHANGED <<account, client, cache, req>>

\* Time passes, but not over the deadline of a request on its way to SET NX.
Tick ==
    /\ setting.timed
    /\ \A p \in Requests : req[p].pc = "put" => req[p].left > 0
    /\ cache' = [t \in Tokens |-> IF cache[t].ttl <= 1 THEN NoEntry
                                  ELSE [state |-> Older(cache[t].state), ttl |-> cache[t].ttl - 1]]
    /\ req' = [p \in Requests |-> IF req[p].pc # "put" THEN req[p]
                                  ELSE [req[p] EXCEPT !.seen = Older(@), !.left = @ - 1]]
    /\ UNCHANGED <<account, client, token>>

Step ==
    \/ \E p \in Requests, t \in Tokens : \/ CacheHit(p, t)
                                        \/ FindAccessAuthStateByJTI(p, t)
                                        \/ AuthenticateUserLogout(p, t)
    \/ \E p \in Requests : PutAuthState(p) \/ Respond(p) \/ RotateClientSecret(p)
    \/ \E p \in Requests, type \in Types, scopes \in setting.offers : CreateClient(p, type, scopes)
    \/ \E p \in Requests, c \in Clients : FindByID(p, c) \/ DeleteClient(p, c)
    \/ \E p \in Requests, active \in BOOLEAN \cup {Keep}, scopes \in setting.offers \cup {Keep} :
            UpdateClient(p, active, scopes)
    \/ \E scopes \in setting.offers : CreatePair(scopes)
    \/ \E role \in Roles : UpdateAdminUser(role)
    \/ DeleteAdminUser \/ RestoreAdminUser
    \/ \E t \in Tokens : DeliverBlacklist(t) \/ ExpireToken(t)
    \/ Tick

Next == Step /\ UNCHANGED setting

-----------------------------------------------------------------------------
(* Properties *)

\* A request at a handler's door was entitled to the act at one moment no
\* longer ago than a put and a cache lifetime: token, role, account,
\* registration and consent all held then, whatever was demoted, narrowed,
\* disabled or deleted since.  An expired token ends its session, no more.
EveryActIsBacked ==
    \A p \in Requests : req[p].pc \in {"handler", "update"} =>
        IF req[p].seen = NotFound
        THEN req[p].acts \subseteq {"logout"} /\ token[req[p].token].expired
        ELSE req[p].acts \subseteq req[p].seen.may /\ req[p].seen.age <= StaleLimit

\* A registration that holds a capability scope, or is about to, changes only
\* by a request of the console: no delegated request widens what delegates may
\* do, even when the scope was granted while the request was under way.
CapabilityIsTheConsoles ==
    [][\A c \in Clients :
         /\ client'[c] # client[c] /\ client'[c].exists
         /\ Capable(client[c].scopes) \/ Capable(client'[c].scopes)
         => \E p \in Requests : /\ req[p].token = "session" /\ "writeRegistry" \in req[p].acts
                                /\ req'[p] = Idle]_vars
=============================================================================
