--------------------------- MODULE DeviceSessions ---------------------------
(***************************************************************************)
(* The device records of one user in Redis beside the sessions in          *)
(* PostgreSQL: a login registers a device, a refresh touches or            *)
(* resurrects it, the oldest record is displaced when there are too many,  *)
(* and the displaced session is revoked by the request itself or, if that  *)
(* request dies, by the eviction worker from the journal.                  *)
(*                                                                         *)
(* The device ID is the family ID.  A request serves one operation; each   *)
(* Lua script and each database transaction is one step.                   *)
(***************************************************************************)
EXTENDS Naturals, FiniteSets

CONSTANTS
    Families,       \* the user's token families
    Opened,         \* those logged in and listed at the start, oldest first
    Requests,
    Workers,        \* device-eviction workers, one per replica
    None,
    Limit,          \* maxDevicesPerUser
    JournalLimit,   \* capacity of pending_evictions
    MaxFaults       \* bound: failed calls and crashes

ASSUME DeviceAssumption ==
    /\ IsFiniteSet(Families) /\ Families \subseteq Nat \ {0}
    /\ Opened \subseteq Families /\ Cardinality(Opened) <= Limit
    /\ IsFiniteSet(Requests)
    /\ None \notin Families \cup Requests
    /\ Limit \in Nat \ {0} /\ JournalLimit \in Nat /\ MaxFaults \in Nat

VARIABLES
    session,    \* the family in the database
    gen,        \* sequence of its newest refresh token
    score,      \* the sorted set: login time of a member, 0 for no member
    hash,       \* the device Hash, and whether it may outlive the set
    clock,      \* the last time handed out as a score
    req,        \* the requests
    committed,  \* the requests whose token pair is in the database
    journal,    \* pending_evictions: <<request, displaced family>>
    ack,        \* worker -> the entries it has resolved and not acknowledged
    displaced,  \* history: every entry ever written to the journal
    evictedBy,  \* history: the requests for which an eviction revoked a family
    faults

vars == <<session, gen, score, hash, clock, req, committed, journal, ack,
          displaced, evictedBy, faults>>
records == <<score, hash, journal, displaced>>
sessions == <<session, gen, committed>>

Times == Nat
Entries == Requests \X Families

\* "cut" was revoked without a reason, "closed" with one (a user-level revocation).
Session == {"none", "live", "expired", "cut", "closed"}
Request == [pc: {"begin", "register", "touch", "rotate", "evict", "remove",
                 "removeAll", "done"},
            fam: Families \cup {None}, gen: Nat, at: Times,
            evicts: Families \cup {None}]
NewRequest == [pc |-> "begin", fam |-> None, gen |-> 0, at |-> 0, evicts |-> None]

TypeOK ==
    /\ session \in [Families -> Session]
    /\ gen \in [Families -> Nat]
    /\ score \in [Families -> Times]
    /\ hash \in [Families -> {"none", "dated", "rebuilt"}]
    /\ clock \in Times
    /\ req \in [Requests -> Request]
    /\ committed \subseteq Requests
    /\ journal \subseteq Entries /\ displaced \subseteq Entries
    /\ ack \in [Workers -> SUBSET Entries]
    /\ evictedBy \subseteq Requests
    /\ faults \in 0..MaxFaults

Init ==
    /\ session = [f \in Families |-> IF f \in Opened THEN "live" ELSE "none"]
    /\ gen = [f \in Families |-> 0]
    /\ score = [f \in Families |-> IF f \in Opened THEN f ELSE 0]
    /\ hash = [f \in Families |-> IF f \in Opened THEN "dated" ELSE "none"]
    /\ clock \in {n \in Families \cup {0} : \A f \in Families : f <= n}
    /\ req = [p \in Requests |-> NewRequest]
    /\ committed = {} /\ journal = {} /\ displaced = {} /\ evictedBy = {}
    /\ ack = [w \in Workers |-> {}]
    /\ faults = 0

Fault == faults < MaxFaults /\ faults' = faults + 1

Listed(f) == score[f] > 0
Dead(f) == session[f] \notin {"none", "live"}

\* A client presents tokens of f, or names it in the device list, only after the
\* login that opened it has got past the registration.
Known(f) == \A p \in Requests : req[p].pc = "register" => req[p].fam # f

Goto(p, pc) == req' = [req EXCEPT ![p].pc = pc]

-----------------------------------------------------------------------------
(* The scripts of device_store.go *)

\* Mutant: members without a Hash keep their place in the cap check.
SweptUnchecked(f) == {g \in Families : g = f \/ Listed(g)}

\* The set with f added and the members without a Hash swept.
Swept(f) == {g \in Families : g = f \/ (Listed(g) /\ hash[g] # "none")}

\* ZADD, HSET, sweep: the set is now S, and the set's TTL covers every Hash again.
Store(S, f, at) ==
    /\ score' = [g \in Families |-> IF g = f /\ f \in S THEN at
                                    ELSE IF g \in S THEN score[g] ELSE 0]
    /\ hash' = [g \in Families |-> IF g = f /\ f \in S THEN "dated"
                                   ELSE IF g \in Swept(f) \ S THEN "none"
                                   ELSE IF g \in S /\ hash[g] = "rebuilt" THEN "dated"
                                   ELSE hash[g]]

\* Add f; past the limit the oldest member g leaves and is journalled.
Enlist(p, f, at, g) ==
    LET S == Swept(f)
        ScoreOf(h) == IF h = f THEN at ELSE score[h]
    IN  \/ /\ Cardinality(S) <= Limit /\ g = None
           /\ Store(S, f, at)
           /\ UNCHANGED <<journal, displaced>>
        \/ /\ Cardinality(S) > Limit
           /\ g \in S /\ \A h \in S : ScoreOf(g) <= ScoreOf(h)
           /\ Store(S \ {g}, f, at)
           /\ journal' = journal \cup {<<p, g>>}
           /\ displaced' = displaced \cup {<<p, g>>}

\* A live member keeps its score; a missing Hash is rebuilt with its own TTL.
TouchMember(f) ==
    /\ hash' = [hash EXCEPT ![f] = IF @ = "none" THEN "rebuilt" ELSE @]
    /\ UNCHANGED <<score, journal, displaced>>

JournalFull == Cardinality(journal) >= JournalLimit

\* One call of a registering script that displaces g (None: nobody).  The caller
\* learns of g unless the call fails, which a lost reply does too.
Call(p, g, effect) ==
    \/ /\ ~JournalFull
       /\ effect
       /\ req' = [req EXCEPT ![p].evicts = g,
                ![p].pc = IF req[p].pc = "touch" THEN "rotate"
                          ELSE IF g = None THEN "done" ELSE "evict"]
       /\ UNCHANGED faults
    \/ /\ JournalFull
       /\ Goto(p, IF req[p].pc = "touch" THEN "rotate" ELSE "done")
       /\ UNCHANGED <<records, faults>>
    \/ /\ Fault
       /\ \/ ~JournalFull /\ effect
          \/ UNCHANGED records
       /\ Goto(p, IF req[p].pc = "touch" THEN "rotate" ELSE "done")

-----------------------------------------------------------------------------
(* A login: the pair is committed first, then the device is registered. *)

LoginCommit(p, f) ==
    /\ req[p].pc = "begin"
    /\ session[f] = "none"
    /\ session' = [session EXCEPT ![f] = "live"]
    /\ committed' = committed \cup {p}
    /\ clock' = clock + 1
    /\ req' = [req EXCEPT ![p] = [pc |-> "register", fam |-> f, gen |-> 0,
                                  at |-> clock + 1, evicts |-> None]]
    /\ UNCHANGED <<gen, records, ack, evictedBy, faults>>

RegisterDevice(p) ==
    /\ req[p].pc = "register"
    /\ \E g \in Families \cup {None} :
            Call(p, g, Enlist(p, req[p].fam, req[p].at, g))
    /\ UNCHANGED <<sessions, clock, ack, evictedBy>>

-----------------------------------------------------------------------------
(* A refresh: pre-read, touch, rotation, and only then the eviction. *)

RefreshFind(p, f) ==
    /\ req[p].pc = "begin"
    /\ session[f] = "live" /\ Known(f)
    /\ clock' = clock + 1
    /\ req' = [req EXCEPT ![p] = [pc |-> "touch", fam |-> f, gen |-> gen[f],
                                  at |-> clock + 1, evicts |-> None]]
    /\ UNCHANGED <<sessions, records, ack, evictedBy, faults>>

\* The presented token has expired: only the record is removed.
RefreshExpired(p, f) ==
    /\ req[p].pc = "begin"
    /\ session[f] = "expired" /\ Known(f)
    /\ req' = [req EXCEPT ![p] = [NewRequest EXCEPT !.pc = "remove", !.fam = f]]
    /\ UNCHANGED <<sessions, clock, records, ack, evictedBy, faults>>

TouchDevice(p) ==
    LET f == req[p].fam  IN
    /\ req[p].pc = "touch"
    /\ \E g \in Families \cup {None} :
            Call(p, g, IF Listed(f) THEN g = None /\ TouchMember(f)
                       ELSE Enlist(p, f, req[p].at, g))
    /\ UNCHANGED <<sessions, clock, ack, evictedBy>>

RotateCommit(p) ==
    LET f == req[p].fam  IN
    /\ req[p].pc = "rotate"
    /\ session[f] = "live" /\ gen[f] = req[p].gen
    /\ gen' = [gen EXCEPT ![f] = @ + 1]
    /\ committed' = committed \cup {p}
    /\ Goto(p, IF req[p].evicts = None THEN "done" ELSE "evict")
    /\ UNCHANGED <<session, clock, records, ack, evictedBy, faults>>

\* SessionRevokedError, or ErrTokenReplayWithinGrace: the record is left alone.
RotateRefused(p) ==
    /\ req[p].pc = "rotate"
    /\ \/ session[req[p].fam] \in {"cut", "closed"}
       \/ session[req[p].fam] = "live" /\ gen[req[p].fam] # req[p].gen
    /\ Goto(p, "done")
    /\ UNCHANGED <<sessions, clock, records, ack, evictedBy, faults>>

\* ErrTokenReplay past the grace window, ErrTokenExpired: the record is removed.
RotateEnds(p) ==
    LET f == req[p].fam  IN
    /\ req[p].pc = "rotate"
    /\ \/ session[f] = "live" /\ gen[f] # req[p].gen
          /\ session' = [session EXCEPT ![f] = "cut"]
       \/ session[f] \in {"cut", "expired"} /\ UNCHANGED session
    /\ Goto(p, "remove")
    /\ UNCHANGED <<gen, committed, clock, records, ack, evictedBy, faults>>

-----------------------------------------------------------------------------
(* Ending sessions *)

CutFamily(f) ==
    session' = [session EXCEPT ![f] = IF @ \in {"live", "expired"} THEN "cut" ELSE @]

\* revokeEvictedDevice; if its RevokeFamily fails it gives up.
RevokeEvicted(p) ==
    /\ req[p].pc = "evict"
    /\ CutFamily(req[p].evicts)
    /\ evictedBy' = evictedBy \cup {p}
    /\ req' = [req EXCEPT ![p].pc = "remove", ![p].fam = req[p].evicts]
    /\ UNCHANGED <<gen, committed, clock, records, ack, faults>>

\* Logout, LogoutDevice, and the replay branch of Refresh's pre-read.
Logout(p, f) ==
    /\ req[p].pc = "begin"
    /\ session[f] # "none" /\ Known(f)
    /\ CutFamily(f)
    /\ req' = [req EXCEPT ![p] = [NewRequest EXCEPT !.pc = "remove", !.fam = f]]
    /\ UNCHANGED <<gen, committed, clock, records, ack, evictedBy, faults>>

RemoveDevice(p) ==
    LET f == req[p].fam  IN
    /\ req[p].pc = "remove"
    /\ score' = [score EXCEPT ![f] = 0]
    /\ hash' = [hash EXCEPT ![f] = "none"]
    /\ Goto(p, "done")
    /\ UNCHANGED <<sessions, clock, journal, ack, displaced, evictedBy, faults>>

\* ChangePassword, ResetPassword, role change and account closure.
RevokeAllByUser(p) ==
    /\ req[p].pc = "begin"
    /\ session' = [f \in Families |->
            IF session[f] \in {"live", "expired"} THEN "closed" ELSE session[f]]
    /\ Goto(p, "removeAll")
    /\ UNCHANGED <<gen, committed, clock, records, ack, evictedBy, faults>>

RemoveAllDevices(p) ==
    /\ req[p].pc = "removeAll"
    /\ hash' = [f \in Families |-> IF Listed(f) THEN "none" ELSE hash[f]]
    /\ score' = [f \in Families |-> 0]
    /\ Goto(p, "done")
    /\ UNCHANGED <<sessions, clock, journal, ack, displaced, evictedBy, faults>>

\* The process dies, or a call the request does not survive fails.
Abandon(p) ==
    /\ req[p].pc \notin {"begin", "done"}
    /\ Fault
    /\ Goto(p, "done")
    /\ UNCHANGED <<sessions, clock, records, ack, evictedBy>>

-----------------------------------------------------------------------------
(* The eviction worker *)

\* Mutant: the worker only confirms what the request itself has revoked.
ResolveDeviceEvictionConfirmed(w, e) ==
    /\ e \in journal \ ack[w]
    /\ e[1] \in evictedBy
    /\ ack' = [ack EXCEPT ![w] = @ \cup {e}]
    /\ UNCHANGED <<sessions, clock, records, req, evictedBy, faults>>

\* The token row of the request proves the eviction; without it the entry waits.
ResolveDeviceEviction(w, e) ==
    /\ e \in journal \ ack[w]
    /\ e[1] \in committed
    /\ CutFamily(e[2])
    /\ evictedBy' = evictedBy \cup {e[1]}
    /\ ack' = [ack EXCEPT ![w] = @ \cup {e}]
    /\ UNCHANGED <<gen, committed, clock, records, req, faults>>

\* Mutant: an entry without a proof is dropped at once.
ResolveUnprovedEarly(w, e) ==
    /\ e \in journal \ ack[w]
    /\ e[1] \notin committed
    /\ ack' = [ack EXCEPT ![w] = @ \cup {e}]
    /\ UNCHANGED <<sessions, clock, records, req, evictedBy, faults>>

\* The token the request proposed has expired, long after the request is over.
ResolveUnproved(w, e) ==
    /\ e \in journal \ ack[w]
    /\ e[1] \notin committed
    /\ req[e[1]].pc = "done"
    /\ ack' = [ack EXCEPT ![w] = @ \cup {e}]
    /\ UNCHANGED <<sessions, clock, records, req, evictedBy, faults>>

AckDeviceEviction(w, e) ==
    /\ e \in ack[w]
    /\ ack' = [ack EXCEPT ![w] = @ \ {e}]
    /\ \/ journal' = journal \ {e} /\ UNCHANGED faults
       \/ UNCHANGED journal /\ Fault
    /\ UNCHANGED <<sessions, score, hash, clock, req, displaced, evictedBy>>

CrashWorker(w) ==
    /\ ack[w] # {}
    /\ Fault
    /\ ack' = [ack EXCEPT ![w] = {}]
    /\ UNCHANGED <<sessions, clock, records, req, evictedBy>>

-----------------------------------------------------------------------------
(* Lists, and the passing of time *)

ListDevices ==
    /\ \E f \in Families : Listed(f) /\ hash[f] = "none"
    /\ score' = [f \in Families |-> IF hash[f] = "none" THEN 0 ELSE score[f]]
    /\ UNCHANGED <<sessions, hash, clock, req, journal, ack, displaced, evictedBy, faults>>

HashExpires(f) ==
    /\ hash[f] # "none"
    /\ hash' = [hash EXCEPT ![f] = "none"]
    /\ UNCHANGED <<sessions, score, clock, req, journal, ack, displaced, evictedBy, faults>>

\* The set outlives the Hashes that were written with it.
SetExpires ==
    /\ \E f \in Families : Listed(f)
    /\ \A f \in Families : Listed(f) => hash[f] # "dated"
    /\ score' = [f \in Families |-> 0]
    /\ UNCHANGED <<sessions, hash, clock, req, journal, ack, displaced, evictedBy, faults>>

SessionExpires(f) ==
    /\ session[f] = "live"
    /\ session' = [session EXCEPT ![f] = "expired"]
    /\ UNCHANGED <<gen, committed, clock, records, req, ack, evictedBy, faults>>

RequestStep(p) ==
    \/ RegisterDevice(p) \/ TouchDevice(p)
    \/ RotateCommit(p) \/ RotateRefused(p) \/ RotateEnds(p)
    \/ RevokeEvicted(p) \/ RemoveDevice(p) \/ RemoveAllDevices(p)

NewStep(p) ==
    \/ \E f \in Families : LoginCommit(p, f) \/ RefreshFind(p, f)
                           \/ RefreshExpired(p, f) \/ Logout(p, f)
    \/ RevokeAllByUser(p)

WorkerStep(w, e) ==
    ResolveDeviceEviction(w, e) \/ ResolveUnproved(w, e) \/ AckDeviceEviction(w, e)

Next ==
    \/ \E p \in Requests : NewStep(p) \/ RequestStep(p) \/ Abandon(p)
    \/ \E w \in Workers : CrashWorker(w) \/ \E e \in journal \cup ack[w] : WorkerStep(w, e)
    \/ ListDevices \/ SetExpires
    \/ \E f \in Families : HashExpires(f) \/ SessionExpires(f)

\* DeviceEvictions.Run polls every second and tries every entry of the journal.
Fairness == \A w \in Workers, e \in Entries : WF_vars(WorkerStep(w, e))

Spec == Init /\ [][Next]_vars /\ Fairness

-----------------------------------------------------------------------------
(* No more than Limit devices are listed, although logins and refreshes of      *)
(* aged-out records race (registerDeviceScript, touchDeviceScript).             *)
ListedWithinLimit == Cardinality({f \in Families : Listed(f)}) <= Limit

(* A device is displaced only when Limit other devices with a Hash are listed:  *)
(* an aged-out record never costs a real device its session (the sweep before   *)
(* the cap check).                                                              *)
DisplacedOnlyWhenFull ==
    [][displaced' # displaced =>
        Cardinality({f \in Families : score'[f] > 0 /\ hash'[f] # "none"}) = Limit]_vars

(* A refresh that fails never has a session revoked as collateral: evictions    *)
(* are carried out only for requests whose token pair is committed (Refresh's   *)
(* order, the proof row of ResolveDeviceEviction).                              *)
NoCollateralEviction == evictedBy \subseteq committed

(* A session displaced by a committed login or refresh is either over or still  *)
(* in the journal, whatever reply was lost and whoever died: none is forgotten. *)
DisplacedIsJournalled ==
    \A e \in displaced :
        e[1] \in committed /\ session[e[2]] = "live" => e \in journal

(* Every session displaced by a committed login or refresh is eventually over.  *)
DisplacedSessionEnds ==
    \A e \in Entries :
        (e \in displaced /\ e[1] \in committed) ~> session[e[2]] # "live"

(* What the comment in Refresh says of the touch before the rotation: a         *)
(* terminating path that interleaves "always removes the record after the       *)
(* touch - the refresh can never resurrect a family that was just revoked".     *)
(* When the rotation is refused because the session is over, its record is gone *)
(* or a request is about to remove it, as long as no call has failed.           *)
TouchedRecordIsRemoved ==
    [][\A p \in Requests :
        /\ req[p].pc = "rotate" /\ req'[p].pc = "done"
        /\ Dead(req[p].fam) /\ faults = 0
        => \/ ~Listed(req[p].fam)
           \/ \E q \in Requests : \/ req[q].pc = "removeAll"
                                  \/ req[q].pc = "remove" /\ req[q].fam = req[p].fam
       ]_vars

(* What holds of the list, the journal and the sessions at every moment: the    *)
(* limit, no eviction without a committed cause, and none forgotten.            *)
EvictionsSound == TypeOK /\ ListedWithinLimit /\ NoCollateralEviction /\ DisplacedIsJournalled
=============================================================================
