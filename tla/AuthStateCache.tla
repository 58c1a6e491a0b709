--------------------------- MODULE AuthStateCache ---------------------------
(***************************************************************************)
(* How a revocation reaches the requests: the middleware serves the state  *)
(* of an access token from a short-lived Redis entry, a revocation writes  *)
(* a tombstone over that entry after its transaction has committed, and an *)
(* outbox row of the same transaction makes a worker repeat the tombstone  *)
(* until it has landed.                                                    *)
(*                                                                         *)
(* One access token; every other token has its own entry and its own row.  *)
(* Times are timers that count down to 0.                                  *)
(***************************************************************************)
EXTENDS Naturals

CONSTANTS
    Requests,       \* authenticated requests carrying the token
    Workers,        \* token-blacklist workers, one per replica
    NoWorker,
    CacheTTL,       \* AUTH_STATE_CACHE_TTL
    TombstoneTTL,   \* Store.AuthStateTombstoneTTL
    PutLimit,       \* longest time from a request's database read to its SET NX
    Lease,          \* defaultTokenBlacklistLease
    MaxBackoff,     \* defaultTokenBlacklistMaxBackoff
    MaxFaults       \* bound: Redis errors and worker crashes

ASSUME CacheAssumption ==
    /\ NoWorker \notin Workers
    /\ CacheTTL \in Nat \ {0} /\ TombstoneTTL \in Nat \ {0}
    /\ PutLimit \in Nat
    /\ PutLimit < TombstoneTTL      \* the tombstone outlives a request in flight
    /\ Lease \in Nat \ {0} /\ MaxBackoff \in Nat \ {0}
    /\ MaxFaults \in Nat

VARIABLES
    revoked,    \* revoked_at of the access row is set
    expired,    \* expires_at has passed
    cache,      \* the Redis entry of the token
    row,        \* its row of token_blacklist_outbox
    sync,       \* the revoking request still has to write its tombstone
    req,        \* the authenticated requests
    wk,         \* the workers
    delivered,  \* history: a tombstone was written after the revocation
    age,        \* history: ticks since the revocation, up to StaleLimit + 1
    faults      \* Redis errors and crashes so far

vars == <<revoked, expired, cache, row, sync, req, wk, delivered, age, faults>>

\* A revoked token may be served from the cache this long after the commit.
StaleLimit == PutLimit + CacheTTL

Larger(a, b) == IF a >= b THEN a ELSE b

Entry == [kind: {"none", "live", "revoked", "tombstone"},
          ttl: 0..Larger(CacheTTL, TombstoneTTL)]
NoEntry == [kind |-> "none", ttl |-> 0]
OutboxRow == [present: BOOLEAN, due: 0..MaxBackoff,
              claim: Workers \cup {NoWorker}, lease: 0..Lease]
NoRow == [present |-> FALSE, due |-> 0, claim |-> NoWorker, lease |-> 0]
Request == [pc: {"idle", "query", "put", "admitted", "rejected"},
            saw: BOOLEAN, left: 0..PutLimit]
Idle == [pc |-> "idle", saw |-> FALSE, left |-> 0]

TypeOK ==
    /\ revoked \in BOOLEAN /\ expired \in BOOLEAN
    /\ sync \in BOOLEAN /\ delivered \in BOOLEAN
    /\ cache \in Entry
    /\ row \in OutboxRow
    /\ req \in [Requests -> Request]
    /\ wk \in [Workers -> {"idle", "claimed", "sent", "failed"}]
    /\ age \in 0..(StaleLimit + 1)
    /\ faults \in 0..MaxFaults

Init ==
    /\ revoked = FALSE /\ expired = FALSE /\ sync = FALSE /\ delivered = FALSE
    /\ cache = NoEntry /\ row = NoRow
    /\ req = [p \in Requests |-> Idle]
    /\ wk = [w \in Workers |-> "idle"]
    /\ age = 0 /\ faults = 0

\* A Redis call that reports an error may have been applied all the same.
Fault == faults < MaxFaults /\ faults' = faults + 1

-----------------------------------------------------------------------------
(* A request: authState and authenticateClaims *)

Verdict(p, isRevoked) ==
    req' = [req EXCEPT ![p] = [saw |-> FALSE, left |-> 0,
                pc |-> IF isRevoked \/ expired THEN "rejected" ELSE "admitted"]]

\* Mutant: a hit renews the entry, as a sliding cache would.
CacheHitSliding(p) ==
    /\ req[p].pc = "idle" /\ ~expired
    /\ cache.kind \in {"live", "revoked"}
    /\ Verdict(p, cache.kind = "revoked")
    /\ cache' = [cache EXCEPT !.ttl = CacheTTL]
    /\ UNCHANGED <<revoked, expired, row, sync, wk, delivered, age, faults>>

CacheHit(p) ==
    /\ req[p].pc = "idle" /\ ~expired
    /\ cache.kind \in {"live", "revoked"}
    /\ Verdict(p, cache.kind = "revoked")
    /\ UNCHANGED <<revoked, expired, cache, row, sync, wk, delivered, age, faults>>

\* A tombstone reads as a miss; an error falls back to the database too.
CacheMiss(p) ==
    /\ req[p].pc = "idle" /\ ~expired
    /\ \/ cache.kind \in {"none", "tombstone"} /\ UNCHANGED faults
       \/ cache.kind \in {"live", "revoked"} /\ Fault
    /\ req' = [req EXCEPT ![p].pc = "query"]
    /\ UNCHANGED <<revoked, expired, cache, row, sync, wk, delivered, age>>

FindAccessAuthState(p) ==
    /\ req[p].pc = "query"
    /\ req' = [req EXCEPT ![p] = [pc |-> "put", saw |-> revoked, left |-> PutLimit]]
    /\ UNCHANGED <<revoked, expired, cache, row, sync, wk, delivered, age, faults>>

\* Mutant: SET instead of SET NX.
PutEntryAlways(p) ==
    cache' = [kind |-> IF req[p].saw THEN "revoked" ELSE "live", ttl |-> CacheTTL]

\* SET NX: whatever entry is there, a tombstone or not, stays.
PutEntry(p) ==
    cache' = IF cache.kind = "none"
             THEN [kind |-> IF req[p].saw THEN "revoked" ELSE "live", ttl |-> CacheTTL]
             ELSE cache

PutAuthState(p) ==
    /\ req[p].pc = "put"
    /\ \/ PutEntry(p) /\ UNCHANGED faults
       \/ UNCHANGED cache /\ Fault
    /\ Verdict(p, req[p].saw)
    /\ UNCHANGED <<revoked, expired, row, sync, wk, delivered, age>>

Respond(p) ==
    /\ req[p].pc \in {"admitted", "rejected"}
    /\ req' = [req EXCEPT ![p] = Idle]
    /\ UNCHANGED <<revoked, expired, cache, row, sync, wk, delivered, age, faults>>

-----------------------------------------------------------------------------
(* The revocation *)

\* The revoking transaction: revoked_at and enqueueBlacklistInTransaction.
Revoke ==
    /\ ~revoked /\ ~expired
    /\ revoked' = TRUE /\ sync' = TRUE
    /\ row' = [present |-> TRUE, due |-> 0, claim |-> NoWorker, lease |-> 0]
    /\ UNCHANGED <<expired, cache, req, wk, delivered, age, faults>>

\* DeleteAuthStates: an unconditional SET of the tombstone.
Tombstone ==
    /\ cache' = [kind |-> "tombstone", ttl |-> TombstoneTTL]
    /\ delivered' = TRUE

\* DeliverBlacklist: skipped for an expired token, and a failure is only logged.
DeliverBlacklist ==
    /\ sync
    /\ sync' = FALSE
    /\ \/ ~expired /\ Tombstone /\ UNCHANGED faults
       \/ ~expired /\ Fault /\ (Tombstone \/ UNCHANGED <<cache, delivered>>)
       \/ expired /\ UNCHANGED <<cache, delivered, faults>>
    /\ UNCHANGED <<revoked, expired, row, req, wk, age>>

-----------------------------------------------------------------------------
(* The worker: processDue, cleanupExpired *)

\* Mutant: a row whose worker died is never claimed again.
ClaimDueUnclaimed(w) ==
    /\ wk[w] = "idle"
    /\ row.present /\ ~expired /\ row.due = 0
    /\ row.claim = NoWorker
    /\ row' = [row EXCEPT !.claim = w, !.lease = Lease]
    /\ wk' = [wk EXCEPT ![w] = "claimed"]
    /\ UNCHANGED <<revoked, expired, cache, sync, req, delivered, age, faults>>

ClaimDue(w) ==
    /\ wk[w] = "idle"
    /\ row.present /\ ~expired /\ row.due = 0
    /\ row.claim = NoWorker \/ row.lease = 0
    /\ row' = [row EXCEPT !.claim = w, !.lease = Lease]
    /\ wk' = [wk EXCEPT ![w] = "claimed"]
    /\ UNCHANGED <<revoked, expired, cache, sync, req, delivered, age, faults>>

DeliverDue(w) ==
    /\ wk[w] = "claimed"
    /\ \/ Tombstone /\ wk' = [wk EXCEPT ![w] = "sent"] /\ UNCHANGED faults
       \/ /\ Fault /\ wk' = [wk EXCEPT ![w] = "failed"]
          /\ Tombstone \/ UNCHANGED <<cache, delivered>>
    /\ UNCHANGED <<revoked, expired, row, sync, req, age>>

\* AckMany deletes the row only while this worker's claim token is on it.
AckMany(w) ==
    /\ wk[w] = "sent"
    /\ row' = IF row.claim = w THEN NoRow ELSE row
    /\ wk' = [wk EXCEPT ![w] = "idle"]
    /\ UNCHANGED <<revoked, expired, cache, sync, req, delivered, age, faults>>

\* Fail clears the lease and schedules the retry.
Fail(w) ==
    /\ wk[w] = "failed"
    /\ \/ /\ row.claim = w
          /\ \E d \in 1..MaxBackoff :
                row' = [row EXCEPT !.due = d, !.claim = NoWorker, !.lease = 0]
       \/ row.claim # w /\ UNCHANGED row
    /\ wk' = [wk EXCEPT ![w] = "idle"]
    /\ UNCHANGED <<revoked, expired, cache, sync, req, delivered, age, faults>>

CleanupExpired ==
    /\ row.present /\ expired
    /\ row' = NoRow
    /\ UNCHANGED <<revoked, expired, cache, sync, req, wk, delivered, age, faults>>

\* A replica dies with whatever its worker held; the lease is not given back.
CrashWorker(w) ==
    /\ wk[w] # "idle"
    /\ Fault
    /\ wk' = [wk EXCEPT ![w] = "idle"]
    /\ UNCHANGED <<revoked, expired, cache, row, sync, req, delivered, age>>

\* The revoking request dies before it has written its tombstone.
CrashRevoker ==
    /\ sync
    /\ Fault
    /\ sync' = FALSE
    /\ UNCHANGED <<revoked, expired, cache, row, req, wk, delivered, age>>

-----------------------------------------------------------------------------
Down(n) == IF n > 0 THEN n - 1 ELSE 0

\* Time passes, but not over the deadline of a request on its way to SET NX.
Tick ==
    /\ \A p \in Requests : req[p].pc = "put" => req[p].left > 0
    /\ cache' = IF cache.ttl <= 1 THEN NoEntry ELSE [cache EXCEPT !.ttl = @ - 1]
    /\ row' = [row EXCEPT !.due = Down(@), !.lease = Down(@)]
    /\ req' = [p \in Requests |-> [req[p] EXCEPT !.left = Down(@)]]
    /\ age' = IF revoked /\ age <= StaleLimit THEN age + 1 ELSE age
    /\ UNCHANGED <<revoked, expired, sync, wk, delivered, faults>>

Expire ==
    /\ ~expired
    /\ expired' = TRUE
    /\ UNCHANGED <<revoked, cache, row, sync, req, wk, delivered, age, faults>>

RequestStep(p) ==
    CacheHit(p) \/ CacheMiss(p) \/ FindAccessAuthState(p) \/ PutAuthState(p) \/ Respond(p)

WorkerStep(w) == ClaimDue(w) \/ DeliverDue(w) \/ AckMany(w) \/ Fail(w)

Next ==
    \/ \E p \in Requests : RequestStep(p)
    \/ Revoke \/ DeliverBlacklist \/ CrashRevoker
    \/ \E w \in Workers : WorkerStep(w) \/ CrashWorker(w)
    \/ CleanupExpired
    \/ Tick \/ Expire

\* TokenBlacklist.Run polls until shutdown; requests finish; time passes.
Fairness ==
    /\ \A w \in Workers : WF_vars(WorkerStep(w))
    /\ \A p \in Requests : WF_vars(PutAuthState(p))
    /\ WF_vars(Tick)

Spec == Init /\ [][Next]_vars /\ Fairness

-----------------------------------------------------------------------------
(* Once a tombstone has been written after the revocation, the cache never      *)
(* holds the token as live again: a request that read the database before the   *)
(* revocation cannot re-seed it (SET NX in PutAuthState, the tombstone's TTL).  *)
DeliveredIsFinal == delivered => cache.kind # "live"

(* A revoked token is admitted no later than StaleLimit after the commit, even  *)
(* if every tombstone is lost: a stale entry is never renewed (authState).      *)
AdmissionEnds ==
    [][\A p \in Requests :
            req[p].pc # "admitted" /\ req'[p].pc = "admitted" /\ revoked
            => age <= StaleLimit]_vars

(* The outbox row disappears only when its tombstone was written or the token   *)
(* has expired, although leases run out and workers die (AckMany, Fail).        *)
RowOutlivesDelivery == revoked /\ ~row.present => delivered \/ expired

(* Every revocation of an unexpired token is eventually delivered, although the *)
(* revoking request and the workers may die half-way (ClaimDue's lease).        *)
RevocationIsDelivered == revoked ~> (delivered \/ expired)

(* What holds of the cache and the outbox at every moment: a delivered          *)
(* revocation is final, and an undelivered one still has its row.               *)
DeliverySound == TypeOK /\ DeliveredIsFinal /\ RowOutlivesDelivery
=============================================================================
