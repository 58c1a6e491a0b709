------------------------ MODULE AuthStateCacheProofs ------------------------
(***************************************************************************)
(* That a delivered revocation is final and that no outbox row is lost,    *)
(* for any number of requests and workers, every TTL with PutLimit <       *)
(* TombstoneTTL, and any number of faults.                                 *)
(***************************************************************************)
EXTENDS AuthStateCache, TLAPS

(* A request still carrying a pre-revocation read meets a tombstone that has    *)
(* longer to live than the request has to reach its SET NX.                     *)
TombstoneCovers ==
    \A p \in Requests : delivered /\ req[p].pc = "put" /\ ~req[p].saw
        => cache.kind = "tombstone" /\ req[p].left < cache.ttl

(* What the workers and the revoking request know of the delivery.              *)
DeliveryKnown ==
    /\ delivered => revoked
    /\ row.present \/ sync => revoked
    /\ \A w \in Workers : /\ wk[w] = "sent" => delivered
                          /\ wk[w] # "idle" => revoked

(* Whatever may still admit the token runs out: a live entry, and a read from    *)
(* before the revocation with the entry it may yet write, by StaleLimit.         *)
Aging ==
    /\ ~revoked => age = 0
    /\ cache.kind = "live" => age + cache.ttl <= StaleLimit
    /\ \A p \in Requests : req[p].pc = "put" /\ ~req[p].saw
            => age + req[p].left <= PutLimit

Inv ==
    /\ TypeOK
    /\ TombstoneCovers
    /\ DeliveryKnown
    /\ DeliveredIsFinal
    /\ RowOutlivesDelivery

-----------------------------------------------------------------------------
(* The initial state has no revocation. *)
LEMMA InitInv == Init => Inv
<1> SUFFICES ASSUME Init PROVE Inv
    OBVIOUS
<1>1. NoEntry \in Entry /\ NoRow \in OutboxRow /\ Idle \in Request
    BY CacheAssumption DEF Entry, NoEntry, OutboxRow, NoRow, Request, Idle, Larger
<1>2. 0 \in 0..(StaleLimit + 1) /\ 0 \in 0..MaxFaults
    BY CacheAssumption DEF StaleLimit
<1>3. TypeOK
    BY <1>1, <1>2 DEF Init, TypeOK
<1>4. TombstoneCovers /\ DeliveryKnown /\ DeliveredIsFinal /\ RowOutlivesDelivery
    BY DEF Init, TombstoneCovers, DeliveryKnown, DeliveredIsFinal, RowOutlivesDelivery,
        NoRow
<1> QED BY <1>3, <1>4 DEF Inv

(* The entries and rows the steps write have the right shape. *)
LEMMA WriteTypes ==
    ASSUME TypeOK
    PROVE  /\ Tombstone => cache' \in Entry /\ delivered' \in BOOLEAN
           /\ Fault => faults' \in 0..MaxFaults
           /\ \A p \in Requests : PutEntry(p) => cache' \in Entry
           /\ \A p \in Requests, b \in BOOLEAN :
                    Verdict(p, b) => req' \in [Requests -> Request]
<1>1. Tombstone => cache' \in Entry /\ delivered' \in BOOLEAN
    BY CacheAssumption DEF Tombstone, Entry, Larger
<1>2. Fault => faults' \in 0..MaxFaults
    BY CacheAssumption DEF TypeOK, Fault
<1>3. ASSUME NEW p \in Requests, PutEntry(p) PROVE cache' \in Entry
    BY <1>3, CacheAssumption DEF TypeOK, PutEntry, Entry, Larger
<1>4. ASSUME NEW p \in Requests, NEW b \in BOOLEAN, Verdict(p, b)
      PROVE  req' \in [Requests -> Request]
    BY <1>4, CacheAssumption DEF TypeOK, Verdict, Request
<1> QED BY <1>1, <1>2, <1>3, <1>4

(* A request's step keeps Inv: a pre-revocation read cannot overwrite a         *)
(* tombstone, and a read after the revocation is not live.                      *)
LEMMA RequestInv ==
    ASSUME Inv, NEW p \in Requests, RequestStep(p)
    PROVE  Inv'
<1>0. TypeOK /\ DeliveryKnown /\ req \in [Requests -> Request]
    BY DEF Inv, TypeOK
<1>t. /\ Fault => faults' \in 0..MaxFaults
      /\ PutEntry(p) => cache' \in Entry
      /\ \A b \in BOOLEAN : Verdict(p, b) => req' \in [Requests -> Request]
    BY <1>0, WriteTypes
<1>1. UNCHANGED <<revoked, expired, row, sync, wk, delivered, age>>
    BY DEF RequestStep, CacheHit, CacheMiss, FindAccessAuthState, PutAuthState, Respond
<1>2. DeliveryKnown' /\ RowOutlivesDelivery'
    BY <1>1 DEF Inv, DeliveryKnown, RowOutlivesDelivery
<1>3. CASE CacheHit(p) \/ CacheMiss(p) \/ Respond(p)
    <2>1. req' \in [Requests -> Request]
        <3>1. CASE CacheHit(p)
            BY <3>1, <1>t DEF CacheHit
        <3>2. CASE CacheMiss(p)
            BY <3>2, <1>0 DEF CacheMiss, Request
        <3>3. CASE Respond(p)
            BY <3>3, <1>0, CacheAssumption DEF Respond, Request, Idle
        <3> QED BY <1>3, <3>1, <3>2, <3>3
    <2>2. \A q \in Requests : req'[q].pc = "put" => req'[q] = req[q]
        BY <1>3, <1>0 DEF CacheHit, CacheMiss, Respond, Verdict, Idle, Request
    <2>3. cache' = cache /\ faults' \in 0..MaxFaults
        BY <1>3, <1>0, <1>t DEF CacheHit, CacheMiss, Respond, TypeOK
    <2>4. TypeOK'
        BY <2>1, <2>3, <1>0, <1>1 DEF TypeOK
    <2>5. TombstoneCovers' /\ DeliveredIsFinal'
        BY <2>2, <2>3, <1>1 DEF Inv, TombstoneCovers, DeliveredIsFinal
    <2> QED BY <2>4, <2>5, <1>2 DEF Inv
<1>4. CASE FindAccessAuthState(p)
    <2> DEFINE r == [pc |-> "put", saw |-> revoked, left |-> PutLimit]
    <2>1. r \in Request /\ req' = [req EXCEPT ![p] = r] /\ UNCHANGED <<cache, faults>>
        BY <1>4, <1>0, CacheAssumption DEF FindAccessAuthState, TypeOK, Request
    <2>2. TypeOK'
        BY <2>1, <1>0, <1>1 DEF TypeOK
    <2>3. DeliveredIsFinal'
        BY <2>1, <1>1 DEF Inv, DeliveredIsFinal
    <2>4. TombstoneCovers'
        <3> SUFFICES ASSUME NEW q \in Requests, delivered, req'[q].pc = "put",
                            ~req'[q].saw
                     PROVE  cache.kind = "tombstone" /\ req'[q].left < cache.ttl
            BY <2>1, <1>1 DEF TombstoneCovers
        <3>1. q # p
            BY <2>1, <1>0 DEF DeliveryKnown
        <3> QED BY <3>1, <2>1, <1>0 DEF Inv, TombstoneCovers
    <2> QED BY <2>2, <2>3, <2>4, <1>2 DEF Inv
<1>5. CASE PutAuthState(p)
    <2>1. cache' \in Entry /\ faults' \in 0..MaxFaults /\ req' \in [Requests -> Request]
        BY <1>5, <1>0, <1>t DEF PutAuthState, TypeOK, Request
    <2>2. TypeOK'
        BY <2>1, <1>0, <1>1 DEF TypeOK
    <2>3. \A q \in Requests : req'[q].pc = "put" => req'[q] = req[q]
        BY <1>5, <1>0 DEF PutAuthState, Verdict
    <2>4. cache' = cache \/ (cache.kind = "none" /\ (~req[p].saw \/ cache'.kind # "live"))
        BY <1>5 DEF PutAuthState, PutEntry
    <2>5. DeliveredIsFinal'
        BY <2>4, <1>1, <1>5 DEF Inv, DeliveredIsFinal, TombstoneCovers, PutAuthState
    <2>6. TombstoneCovers'
        BY <2>3, <2>4, <1>1 DEF Inv, TombstoneCovers
    <2> QED BY <2>2, <2>5, <2>6, <1>2 DEF Inv
<1> QED BY <1>3, <1>4, <1>5 DEF RequestStep

(* A fresh tombstone (DeleteAuthStates) outlives every request that is on its   *)
(* way to SET NX.                                                               *)
LEMMA TombstoneCoversNow ==
    ASSUME Inv, Tombstone, UNCHANGED req
    PROVE  TombstoneCovers' /\ DeliveredIsFinal'
<1>1. \A p \in Requests : req[p].left \in Nat /\ req[p].left <= PutLimit
    BY CacheAssumption DEF Inv, TypeOK, Request
<1> QED BY <1>1, CacheAssumption DEF Tombstone, TombstoneCovers, DeliveredIsFinal

(* The revoking transaction, its DeliverBlacklist and its crash keep Inv.       *)
LEMMA RevokerInv ==
    ASSUME Inv, Revoke \/ DeliverBlacklist \/ CrashRevoker
    PROVE  Inv'
<1>0. TypeOK
    BY DEF Inv
<1>t. /\ Tombstone => cache' \in Entry /\ delivered' \in BOOLEAN
      /\ Fault => faults' \in 0..MaxFaults
    BY <1>0, WriteTypes
<1>1. CASE Revoke
    <2>1. row' \in OutboxRow /\ row'.present
        BY <1>1, CacheAssumption DEF Revoke, OutboxRow
    <2>2. TypeOK'
        BY <2>1, <1>0, <1>1 DEF TypeOK, Revoke
    <2>3. ~delivered
        BY <1>1 DEF Inv, DeliveryKnown, Revoke
    <2>4. TombstoneCovers' /\ DeliveredIsFinal' /\ RowOutlivesDelivery'
        BY <2>1, <2>3, <1>1 DEF Inv, TombstoneCovers, DeliveredIsFinal,
            RowOutlivesDelivery, Revoke
    <2>5. DeliveryKnown'
        BY <1>1 DEF Inv, DeliveryKnown, Revoke
    <2> QED BY <2>2, <2>4, <2>5 DEF Inv
<1>2. CASE DeliverBlacklist
    <2>1. /\ UNCHANGED <<revoked, expired, row, req, wk, age>> /\ sync' = FALSE /\ sync
          /\ Tombstone \/ UNCHANGED <<cache, delivered>>
          /\ Fault \/ UNCHANGED faults
        BY <1>2 DEF DeliverBlacklist
    <2>2. TypeOK'
        BY <2>1, <1>0, <1>t DEF TypeOK
    <2>3. DeliveryKnown' /\ RowOutlivesDelivery'
        BY <2>1 DEF Inv, DeliveryKnown, RowOutlivesDelivery, Tombstone
    <2>4. TombstoneCovers' /\ DeliveredIsFinal'
        <3>1. CASE Tombstone
            BY <3>1, <2>1, TombstoneCoversNow
        <3>2. CASE UNCHANGED <<cache, delivered>>
            BY <3>2, <2>1 DEF Inv, TombstoneCovers, DeliveredIsFinal
        <3> QED BY <2>1, <3>1, <3>2
    <2> QED BY <2>2, <2>3, <2>4 DEF Inv
<1>3. CASE CrashRevoker
    <2>1. TypeOK'
        BY <1>0, <1>3, <1>t DEF TypeOK, CrashRevoker
    <2> QED BY <2>1, <1>3 DEF Inv, CrashRevoker, TombstoneCovers, DeliveryKnown,
            DeliveredIsFinal, RowOutlivesDelivery
<1> QED BY <1>1, <1>2, <1>3

(* A worker's step keeps Inv: only a worker whose tombstone was written deletes  *)
(* the row.                                                                     *)
LEMMA WorkerInv ==
    ASSUME Inv, NEW w \in Workers, WorkerStep(w) \/ CrashWorker(w)
    PROVE  Inv'
<1>0. TypeOK /\ wk \in [Workers -> {"idle", "claimed", "sent", "failed"}]
        /\ row \in OutboxRow
    BY DEF Inv, TypeOK
<1>t. /\ Tombstone => cache' \in Entry /\ delivered' \in BOOLEAN
      /\ Fault => faults' \in 0..MaxFaults
    BY <1>0, WriteTypes
<1>1. UNCHANGED <<revoked, expired, sync, req, age>>
    BY DEF WorkerStep, ClaimDue, DeliverDue, AckMany, Fail, CrashWorker
<1>2. CASE ClaimDue(w)
    <2>0. /\ row' = [row EXCEPT !.claim = w, !.lease = Lease] /\ row.present
          /\ Lease \in 0..Lease
        BY <1>2, CacheAssumption DEF ClaimDue
    <2>1. /\ row' \in OutboxRow /\ row'.present
          /\ wk' = [wk EXCEPT ![w] = "claimed"] /\ UNCHANGED <<cache, delivered, faults>>
        <3>1. row' \in OutboxRow
            BY <2>0, <1>0 DEF OutboxRow
        <3>2. row'.present
            BY <2>0, <1>0 DEF OutboxRow
        <3> QED BY <3>1, <3>2, <1>2 DEF ClaimDue
    <2>2. TypeOK'
        BY <2>1, <1>0, <1>1 DEF TypeOK
    <2>3. revoked
        BY <1>2 DEF Inv, DeliveryKnown, ClaimDue
    <2>4. DeliveryKnown'
        BY <2>1, <2>3, <1>0, <1>1 DEF Inv, DeliveryKnown
    <2>5. TombstoneCovers' /\ DeliveredIsFinal' /\ RowOutlivesDelivery'
        BY <2>1, <1>1 DEF Inv, TombstoneCovers, DeliveredIsFinal, RowOutlivesDelivery
    <2> QED BY <2>2, <2>4, <2>5 DEF Inv
<1>3. CASE DeliverDue(w)
    <2>1. /\ wk[w] = "claimed" /\ UNCHANGED row
          /\ \/ Tombstone
             \/ UNCHANGED <<cache, delivered>> /\ wk' = [wk EXCEPT ![w] = "failed"]
          /\ wk' = [wk EXCEPT ![w] = "sent"] \/ wk' = [wk EXCEPT ![w] = "failed"]
          /\ Fault \/ UNCHANGED faults
        BY <1>3 DEF DeliverDue
    <2>2. cache' \in Entry /\ delivered' \in BOOLEAN /\ faults' \in 0..MaxFaults
        BY <2>1, <1>0, <1>t DEF TypeOK
    <2>3. wk' \in [Workers -> {"idle", "claimed", "sent", "failed"}]
        BY <2>1, <1>0
    <2>4. TypeOK'
        BY <2>1, <2>2, <2>3, <1>0, <1>1 DEF TypeOK
    <2>5. revoked
        BY <2>1 DEF Inv, DeliveryKnown
    <2>6. DeliveryKnown' /\ RowOutlivesDelivery'
        BY <2>1, <2>5, <1>0, <1>1 DEF Inv, DeliveryKnown, RowOutlivesDelivery, Tombstone
    <2>7. TombstoneCovers' /\ DeliveredIsFinal'
        <3>1. CASE Tombstone
            BY <3>1, <1>1, TombstoneCoversNow
        <3>2. CASE UNCHANGED <<cache, delivered>>
            BY <3>2, <1>1 DEF Inv, TombstoneCovers, DeliveredIsFinal
        <3> QED BY <2>1, <3>1, <3>2
    <2> QED BY <2>4, <2>6, <2>7 DEF Inv
<1>4. CASE AckMany(w) \/ Fail(w) \/ CrashWorker(w)
    <2>1. /\ wk' = [wk EXCEPT ![w] = "idle"] /\ UNCHANGED <<cache, delivered>>
          /\ Fault \/ UNCHANGED faults
        BY <1>4 DEF AckMany, Fail, CrashWorker
    <2>2. row' \in OutboxRow /\ (row'.present => row.present)
        <3>1. NoRow \in OutboxRow /\ ~NoRow.present
            BY CacheAssumption DEF NoRow, OutboxRow
        <3>2. CASE AckMany(w) \/ CrashWorker(w)
            BY <3>1, <3>2, <1>0 DEF AckMany, CrashWorker
        <3>3. CASE Fail(w)
            <4>1. CASE UNCHANGED row
                BY <4>1, <1>0
            <4>2. ASSUME NEW d \in 1..MaxBackoff,
                         row' = [row EXCEPT !.due = d, !.claim = NoWorker, !.lease = 0]
                  PROVE  row' \in OutboxRow /\ (row'.present => row.present)
                <5>1. d \in 0..MaxBackoff /\ 0 \in 0..Lease
                    BY CacheAssumption
                <5>2. row' \in OutboxRow
                    BY <5>1, <4>2, <1>0 DEF OutboxRow
                <5>3. row'.present = row.present
                    BY <4>2, <1>0 DEF OutboxRow
                <5> QED BY <5>2, <5>3
            <4> QED BY <3>3, <4>1, <4>2 DEF Fail
        <3> QED BY <1>4, <3>2, <3>3
    <2>3. TypeOK'
        BY <2>1, <2>2, <1>0, <1>1, <1>t DEF TypeOK
    <2>4. DeliveryKnown'
        BY <2>1, <2>2, <1>0, <1>1 DEF Inv, DeliveryKnown
    <2>5. TombstoneCovers' /\ DeliveredIsFinal'
        BY <2>1, <1>1 DEF Inv, TombstoneCovers, DeliveredIsFinal
    <2>6. row'.present = row.present \/ delivered
        <3>1. CASE AckMany(w)
            BY <3>1 DEF AckMany, Inv, DeliveryKnown
        <3>2. CASE Fail(w)
            BY <3>2, <1>0 DEF Fail, OutboxRow
        <3>3. CASE CrashWorker(w)
            BY <3>3 DEF CrashWorker
        <3> QED BY <1>4, <3>1, <3>2, <3>3
    <2>7. RowOutlivesDelivery'
        BY <2>1, <2>6, <1>1 DEF Inv, RowOutlivesDelivery
    <2> QED BY <2>3, <2>4, <2>5, <2>7 DEF Inv
<1> QED BY <1>2, <1>3, <1>4 DEF WorkerStep

(* Time and expiry keep Inv: the tombstone and the request on its way to SET NX  *)
(* run down together, and the request's deadline comes first.                   *)
LEMMA ClockInv ==
    ASSUME Inv, Tick \/ Expire \/ CleanupExpired
    PROVE  Inv'
<1>0. TypeOK /\ row \in OutboxRow /\ cache \in Entry /\ req \in [Requests -> Request]
    BY DEF Inv, TypeOK
<1>1. CASE Expire
    <2>1. TypeOK'
        BY <1>0, <1>1 DEF TypeOK, Expire
    <2> QED BY <2>1, <1>1 DEF Inv, Expire, TombstoneCovers, DeliveryKnown,
            DeliveredIsFinal, RowOutlivesDelivery
<1>2. CASE CleanupExpired
    <2>1. NoRow \in OutboxRow /\ ~NoRow.present
        BY CacheAssumption DEF NoRow, OutboxRow
    <2>2. TypeOK'
        BY <2>1, <1>0, <1>2 DEF TypeOK, CleanupExpired
    <2> QED BY <2>1, <2>2, <1>2 DEF Inv, CleanupExpired, TombstoneCovers,
            DeliveryKnown, DeliveredIsFinal, RowOutlivesDelivery
<1>3. CASE Tick
    <2>0. UNCHANGED <<revoked, expired, sync, wk, delivered, faults>>
        BY <1>3 DEF Tick
    <2>1. cache' = NoEntry \/ (cache.ttl > 1 /\ cache'.kind = cache.kind
                                /\ cache'.ttl = cache.ttl - 1 /\ cache' \in Entry)
        <3>1. CASE cache.ttl <= 1
            BY <3>1, <1>3 DEF Tick
        <3>2. CASE ~(cache.ttl <= 1)
            <4>1. cache' = [cache EXCEPT !.ttl = cache.ttl - 1]
                BY <3>2, <1>3 DEF Tick
            <4>2. cache.ttl - 1 \in 0..Larger(CacheTTL, TombstoneTTL) /\ cache.ttl > 1
                BY <3>2, <1>0, CacheAssumption DEF Entry, Larger
            <4> QED BY <4>1, <4>2, <1>0 DEF Entry
        <3> QED BY <3>1, <3>2
    <2>2. row' \in OutboxRow /\ row'.present = row.present
        <3>1. row' = [row EXCEPT !.due = Down(row.due), !.lease = Down(row.lease)]
            BY <1>3 DEF Tick
        <3>2. Down(row.due) \in 0..MaxBackoff /\ Down(row.lease) \in 0..Lease
            BY <1>0, CacheAssumption DEF OutboxRow, Down
        <3> QED BY <3>1, <3>2, <1>0 DEF OutboxRow
    <2>3. \A p \in Requests : /\ req'[p] \in Request
                              /\ req'[p].pc = req[p].pc /\ req'[p].saw = req[p].saw
                              /\ req'[p].left = Down(req[p].left)
        <3> SUFFICES ASSUME NEW p \in Requests
                     PROVE  /\ req'[p] \in Request
                            /\ req'[p].pc = req[p].pc /\ req'[p].saw = req[p].saw
                            /\ req'[p].left = Down(req[p].left)
            OBVIOUS
        <3>1. req'[p] = [req[p] EXCEPT !.left = Down(req[p].left)] /\ req[p] \in Request
            BY <1>0, <1>3 DEF Tick
        <3>2. Down(req[p].left) \in 0..PutLimit
            BY <3>1, CacheAssumption DEF Request, Down
        <3> QED BY <3>1, <3>2 DEF Request
    <2>4. req' \in [Requests -> Request]
        <3>1. req' = [p \in Requests |-> req'[p]]
            BY <1>3 DEF Tick
        <3> QED BY <3>1, <2>3
    <2>5. age' \in 0..(StaleLimit + 1)
        BY <1>0, <1>3, CacheAssumption DEF Tick, TypeOK, StaleLimit
    <2>6. NoEntry \in Entry
        BY CacheAssumption DEF NoEntry, Entry, Larger
    <2>7. TypeOK'
        BY <2>0, <2>1, <2>2, <2>4, <2>5, <2>6, <1>0 DEF TypeOK
    <2>8. TombstoneCovers'
        <3> SUFFICES ASSUME NEW p \in Requests, delivered, req[p].pc = "put", ~req[p].saw
                     PROVE  cache'.kind = "tombstone" /\ req'[p].left < cache'.ttl
            BY <2>0, <2>3 DEF TombstoneCovers
        <3>1. cache.kind = "tombstone" /\ req[p].left < cache.ttl /\ req[p].left > 0
            BY <1>3 DEF Inv, TombstoneCovers, Tick
        <3>2. req[p].left \in Nat /\ cache.ttl \in Nat
            BY <1>0, CacheAssumption DEF Request, Entry, Larger
        <3>3. cache.ttl > 1
            BY <3>1, <3>2
        <3>4. cache'.kind = cache.kind /\ cache'.ttl = cache.ttl - 1
            <4>1. cache' = [cache EXCEPT !.ttl = cache.ttl - 1]
                BY <1>3, <3>2, <3>3 DEF Tick
            <4> QED BY <4>1, <1>0 DEF Entry
        <3> QED BY <3>1, <3>2, <3>4, <2>3 DEF Down
    <2>9. DeliveredIsFinal' /\ DeliveryKnown' /\ RowOutlivesDelivery'
        BY <2>0, <2>1, <2>2 DEF Inv, DeliveredIsFinal, DeliveryKnown,
            RowOutlivesDelivery, NoEntry
    <2> QED BY <2>7, <2>8, <2>9 DEF Inv
<1> QED BY <1>1, <1>2, <1>3

(* Every step keeps Inv. *)
LEMMA NextInv == Inv /\ [Next]_vars => Inv'
<1> SUFFICES ASSUME Inv, [Next]_vars PROVE Inv'
    OBVIOUS
<1>1. CASE UNCHANGED vars
    BY <1>1 DEF vars, Inv, TypeOK, TombstoneCovers, DeliveryKnown, DeliveredIsFinal,
        RowOutlivesDelivery
<1>2. CASE Next
    BY <1>2, RequestInv, RevokerInv, WorkerInv, ClockInv DEF Next
<1> QED BY <1>1, <1>2

-----------------------------------------------------------------------------
(* Inv holds in every reachable state. *)
THEOREM Invariance == Spec => []Inv
BY InitInv, NextInv, PTL DEF Spec

(* The cache entry, the outbox row, the requests and the workers keep their      *)
(* types; in particular every timer stays within the bound the code gives it.    *)
THEOREM TypeCorrect == Spec => []TypeOK
BY Invariance, PTL DEF Inv

(* A delivered revocation is final: no request that read the database before the *)
(* revocation re-seeds the auth-state cache, as long as the tombstone outlives   *)
(* the way from that read to SET NX (PutAuthState, DeleteAuthStates).            *)
THEOREM DeliveryIsFinal == Spec => []DeliveredIsFinal
BY Invariance, PTL DEF Inv

(* No outbox row is lost before its tombstone is written or its token expires    *)
(* (ClaimDue, AckMany, Fail, CleanupExpired).                                    *)
THEOREM NoRowIsLost == Spec => []RowOutlivesDelivery
BY Invariance, PTL DEF Inv

-----------------------------------------------------------------------------
(* Every step keeps Aging: SET NX gives an entry CacheTTL, which a read from     *)
(* before the revocation reaches within PutLimit of it.                         *)
LEMMA NextAging == Inv /\ Aging /\ [Next]_vars => Aging'
<1> SUFFICES ASSUME Inv, Aging, [Next]_vars PROVE Aging'
    OBVIOUS
<1>0. /\ age \in Nat /\ cache \in Entry /\ cache.ttl \in Nat
      /\ req \in [Requests -> Request]
      /\ \A p \in Requests : req[p].left \in 0..PutLimit
      /\ PutLimit \in Nat /\ CacheTTL \in Nat \ {0}
    BY CacheAssumption DEF Inv, TypeOK, Entry, Request, StaleLimit, Larger
<1>1. CASE UNCHANGED vars
    BY <1>1 DEF vars, Aging
<1>2. ASSUME NEW p \in Requests, RequestStep(p) PROVE Aging'
    <2>1. UNCHANGED <<revoked, age>>
        BY <1>2 DEF RequestStep, CacheHit, CacheMiss, FindAccessAuthState,
            PutAuthState, Respond
    <2>2. CASE FindAccessAuthState(p)
        <3>1. /\ req' = [req EXCEPT ![p] = [pc |-> "put", saw |-> revoked,
                                            left |-> PutLimit]]
              /\ cache' = cache
            BY <2>2 DEF FindAccessAuthState
        <3>2. \A q \in Requests : req'[q].pc = "put" /\ ~req'[q].saw
                => age + req'[q].left <= PutLimit
            <4> SUFFICES ASSUME NEW q \in Requests, req'[q].pc = "put", ~req'[q].saw
                         PROVE  age + req'[q].left <= PutLimit
                OBVIOUS
            <4>1. CASE q = p
                BY <4>1, <3>1, <1>0 DEF Aging
            <4>2. CASE q # p
                BY <4>2, <3>1, <1>0 DEF Aging
            <4> QED BY <4>1, <4>2
        <3> QED BY <3>1, <3>2, <2>1 DEF Aging, StaleLimit
    <2>3. CASE CacheHit(p) \/ CacheMiss(p) \/ Respond(p) \/ PutAuthState(p)
        <3>1. \A q \in Requests : req'[q].pc = "put" => req'[q] = req[q]
            BY <2>3, <1>0 DEF CacheHit, CacheMiss, Respond, PutAuthState, Verdict,
                Idle, Request
        <3>2. \/ cache' = cache
              \/ /\ req[p].pc = "put" /\ cache'.ttl = CacheTTL
                 /\ cache'.kind = "live" => ~req[p].saw
            BY <2>3 DEF CacheHit, CacheMiss, Respond, PutAuthState, PutEntry
        <3>3. cache'.kind = "live" => age + cache'.ttl <= StaleLimit
            BY <3>2, <1>0 DEF Aging, StaleLimit
        <3> QED BY <3>1, <3>3, <2>1 DEF Aging, StaleLimit
    <2> QED BY <1>2, <2>2, <2>3 DEF RequestStep
<1>3. ASSUME UNCHANGED <<req, age>>, revoked => revoked',
             cache' = cache \/ cache'.kind = "tombstone"
      PROVE  Aging'
    BY <1>3 DEF Aging, StaleLimit
<1>5. CASE Revoke \/ DeliverBlacklist \/ CrashRevoker \/ CleanupExpired \/ Expire
    <2>1. UNCHANGED <<req, age>> /\ (revoked => revoked')
        BY <1>5 DEF Revoke, DeliverBlacklist, CrashRevoker, CleanupExpired, Expire
    <2>2. cache' = cache \/ cache'.kind = "tombstone"
        BY <1>5 DEF Revoke, DeliverBlacklist, CrashRevoker, CleanupExpired, Expire,
            Tombstone
    <2> QED BY <2>1, <2>2, <1>3
<1>6. ASSUME NEW w \in Workers, WorkerStep(w) \/ CrashWorker(w) PROVE Aging'
    <2>1. UNCHANGED <<req, age, revoked>>
        BY <1>6 DEF WorkerStep, ClaimDue, DeliverDue, AckMany, Fail, CrashWorker
    <2>2. cache' = cache \/ cache'.kind = "tombstone"
        <3>1. cache' = cache \/ Tombstone
            BY <1>6 DEF WorkerStep, ClaimDue, DeliverDue, AckMany, Fail, CrashWorker
        <3> QED BY <3>1 DEF Tombstone
    <2> QED BY <2>1, <2>2, <1>3
<1>4. CASE Tick
    <2>1. UNCHANGED revoked /\ age' \in {age, age + 1} /\ (~revoked => age' = age)
        BY <1>4 DEF Tick
    <2>2. cache'.kind = "live" => cache.kind = "live" /\ cache'.ttl = cache.ttl - 1
        BY <1>4, <1>0 DEF Tick, NoEntry, Entry
    <2>3. \A p \in Requests : req'[p].pc = "put" /\ ~req'[p].saw
            => /\ req[p].pc = "put" /\ ~req[p].saw
               /\ req[p].left > 0 /\ req'[p].left = req[p].left - 1
        BY <1>4, <1>0 DEF Tick, Down, Request
    <2>4. cache'.kind = "live" => age' + cache'.ttl <= StaleLimit
        BY <2>1, <2>2, <1>0 DEF Aging, StaleLimit
    <2>5. \A p \in Requests : req'[p].pc = "put" /\ ~req'[p].saw
            => age' + req'[p].left <= PutLimit
        BY <2>1, <2>3, <1>0 DEF Aging
    <2> QED BY <2>1, <2>4, <2>5 DEF Aging, StaleLimit
<1> QED BY <1>1, <1>2, <1>4, <1>5, <1>6 DEF Next

(* A request that is admitted after the revocation is admitted by what Aging     *)
(* bounds: a live entry or a read from before the revocation.                   *)
Timely ==
    \A p \in Requests :
        req[p].pc # "admitted" /\ req'[p].pc = "admitted" /\ revoked
        => age <= StaleLimit

LEMMA AdmitsInTime == Inv /\ Aging /\ [Next]_vars => [Timely]_vars
<1> SUFFICES ASSUME Inv, Aging, Next,
                    NEW p \in Requests, req[p].pc # "admitted", req'[p].pc = "admitted"
             PROVE  age <= StaleLimit
    BY DEF Timely
<1>0. /\ age \in Nat /\ cache \in Entry /\ cache.ttl \in Nat
      /\ req \in [Requests -> Request] /\ req[p].left \in 0..PutLimit
      /\ PutLimit \in Nat /\ CacheTTL \in Nat \ {0}
    BY CacheAssumption DEF Inv, TypeOK, Entry, Request, StaleLimit, Larger
<1>1. CacheHit(p) \/ PutAuthState(p)
    <2>1. ASSUME NEW q \in Requests, RequestStep(q) PROVE CacheHit(p) \/ PutAuthState(p)
        BY <2>1, <1>0 DEF RequestStep, CacheHit, CacheMiss, Respond, Verdict,
            FindAccessAuthState, PutAuthState, Idle, Request
    <2>2. CASE Tick
        BY <2>2, <1>0 DEF Tick, Request
    <2>3. CASE req' = req
        BY <2>3
    <2> QED BY <2>1, <2>2, <2>3 DEF Next, Revoke, DeliverBlacklist, CrashRevoker,
            CleanupExpired, Expire, WorkerStep, ClaimDue, DeliverDue, AckMany, Fail,
            CrashWorker
<1>2. CASE CacheHit(p)
    BY <1>2, <1>0 DEF CacheHit, Verdict, Aging, StaleLimit
<1>3. CASE PutAuthState(p)
    BY <1>3, <1>0 DEF PutAuthState, Verdict, Aging, StaleLimit
<1> QED BY <1>1, <1>2, <1>3

(* A revoked token is admitted for at most PutLimit + CacheTTL after the commit, *)
(* even if every tombstone is lost: neither a hit nor a late SET NX renews what   *)
(* the cache says of it (authState, PutAuthState).                              *)
THEOREM StaleAdmissionEnds == Spec => AdmissionEnds
<1>1. Init => Aging
    BY CacheAssumption DEF Init, Aging, NoEntry, Idle
<1>2. Spec => [][Timely]_vars
    BY <1>1, Invariance, NextAging, AdmitsInTime, PTL DEF Spec
<1> QED BY <1>2 DEF AdmissionEnds, Timely

(* The cache and the outbox are sound in every state: types, finality of a       *)
(* delivered revocation, and the row of an undelivered one.                      *)
THEOREM DeliveryIsSound == Spec => []DeliverySound
BY TypeCorrect, DeliveryIsFinal, NoRowIsLost, PTL DEF DeliverySound
=============================================================================
