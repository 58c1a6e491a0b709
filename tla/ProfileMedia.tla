---------------------------- MODULE ProfileMedia ----------------------------
(***************************************************************************)
(* One account's public face: the profile row, the avatar object it points *)
(* at, and the badge rendered from both.                                   *)
(*                                                                         *)
(* An upload crosses three systems (object store, content review,          *)
(* database) without a transaction around them; a render crosses the       *)
(* database and a per-process cache.  Each call is a sequence of steps, so *)
(* uploads, profile edits, badge switches, renders and the purge of a      *)
(* closed account interleave as requests to several processes do.          *)
(*                                                                         *)
(* A profile's version is the stamp the row's update trigger writes, the   *)
(* start of the writing transaction.  It identifies a write and orders     *)
(* nothing, so it is modelled by the call that wrote.  An uploaded object  *)
(* and a minted badge key are fresh random names, modelled the same way.   *)
(***************************************************************************)
EXTENDS Naturals, FiniteSets

CONSTANTS
  Calls,       \* requests, each made at most once
  Instances,   \* API processes, each with its own render cache
  First,       \* the object, version and badge key an account may start with
  None,        \* no object, no row, no key, no holder
  CacheMax,    \* entries a render cache holds
  Starts       \* initial situations: what exists, who calls, how much goes wrong

Kinds == {"upload", "edit", "clear", "enable", "disable", "blog", "github", "absent"}
Rendering == {"blog", "github"}
Names == Calls \cup {First}

VARIABLES
  acct,     \* "live", "closed" or "purged"
  profile,  \* [ver, nick, avatar]: the profile row; ver = None when there is no row
  store,    \* object keys present in the bucket
  vetted,   \* object keys that passed content review
  badge,    \* [key, on]: the badge row; key = None when there is no row
  cache,    \* per process: cache key -> card
  lane,     \* per process: the call that fills the cache, None when free
  call,     \* the requests
  purging,  \* avatar of the account just purged, still to be removed
  left,     \* failures and administrator's turns still to come
  told,     \* ghost: badge keys handed out to their owner
  excused   \* ghost: something happened that may strand or lose an object

vars == <<acct, profile, store, vetted, badge, cache, lane, call, purging, left, told, excused>>

(***************************************************************************)
(* Object store.  profile.avatar holds an object's public URL, not its     *)
(* key; a URL of another base is one this deployment did not mint.         *)
(***************************************************************************)
PublicURL(k) == [base |-> "own", key |-> k]
ForeignURL(k) == [base |-> "other", key |-> k]
NoURL == [base |-> "none", key |-> None]

\* Mutant: the object to retire is taken from the row instead of the snapshot.
KeyOfCurrentAvatar(url) == IF profile.avatar.base = "own" THEN profile.avatar.key ELSE None

AvatarKeyFromURL(url) == IF url.base = "own" THEN url.key ELSE None

AvatarURLAllowed(url) == url.base = "own"

\* Deleting what is not there succeeds.
Delete(name) == store' = store \ {name}

(***************************************************************************)
(* The public card                                                         *)
(***************************************************************************)
Visible == badge.on /\ acct = "live"

FindBadgeTarget == badge.on /\ acct = "live"

FindPublicCard(target) ==
  [ver |-> profile.ver, nick |-> profile.nick, target |-> target,
   pic |-> IF AvatarURLAllowed(profile.avatar) THEN profile.avatar.key ELSE None]

NoCard == [ver |-> None, nick |-> "none", target |-> "blog", pic |-> None]

RenderCacheKey(p) == <<call[p].seen, call[p].kind>>

Cached(p) == RenderCacheKey(p) \in DOMAIN cache[call[p].at]

Drop(f, keys) == [k \in DOMAIN f \ keys |-> f[k]]

Insert(f, k, card) == [x \in DOMAIN f \cup {k} |-> IF x = k THEN card ELSE f[x]]

\* A full cache drops arbitrary victims before it takes one more entry.
Put(p, card) ==
  LET here == cache[call[p].at] IN
  \E victims \in SUBSET DOMAIN here :
    /\ (Cardinality(DOMAIN here) < CacheMax) <=> (victims = {})
    /\ cache' = [cache EXCEPT ![call[p].at] = Insert(Drop(here, victims), RenderCacheKey(p), card)]

PurgeRenderCache(i) == cache' = [cache EXCEPT ![i] = Drop(@, DOMAIN @)]

(***************************************************************************)
(* Calls.  Two ghosts follow a render: dark, the badge has been hidden     *)
(* without a break since the render began or its display data was          *)
(* complete; fresh, the profile versions current at some moment of it.     *)
(***************************************************************************)
NewCall(kind) ==
  [st |-> "idle", kind |-> kind, at |-> None, prev |-> NoURL, seen |-> None,
   card |-> NoCard, dark |-> FALSE, fresh |-> {}, key |-> None]

Over(c, p) == [c EXCEPT ![p] = [NewCall("absent") EXCEPT !.st = "over"]]

Running(p) == call[p].st \notin {"idle", "over"}

\* A badge that is visible again ends every darkness.
Relit(c, visible) == [p \in Calls |-> [c[p] EXCEPT !.dark = @ /\ ~visible]]

\* A written profile is a version that every running render may show.
Refreshed(c, v) ==
  [p \in Calls |-> IF c[p].kind \in Rendering /\ Running(p)
                   THEN [c[p] EXCEPT !.fresh = @ \cup {v}] ELSE c[p]]

Goto(p, st) == [call EXCEPT ![p].st = st]

\* A failure of the environment: a dependency that times out, a lost connection.
Fault == left.faults > 0 /\ left' = [left EXCEPT !.faults = @ - 1]

At(p, kinds, st) == call[p].kind \in kinds /\ call[p].st = st

Begin(p) ==
  /\ call[p].st = "idle" /\ call[p].kind # "absent"
  /\ \E i \in Instances :
       call' = [call EXCEPT ![p] = [@ EXCEPT !.st = "begin", !.at = i,
                  !.dark = call[p].kind \in Rendering /\ ~Visible,
                  !.fresh = IF call[p].kind \in Rendering THEN {profile.ver} ELSE {}]]
  /\ UNCHANGED <<acct, profile, store, vetted, badge, cache, lane, purging, left, told, excused>>

\* The call's limiter refuses it, its input is invalid or its first lookup fails.
Refuse(p) ==
  /\ call[p].st = "begin"
  /\ call' = Over(call, p)
  /\ UNCHANGED <<acct, profile, store, vetted, badge, cache, lane, purging, left, told, excused>>

----------------------------------------------------------------------------
(* UploadAvatar *)

UploadLoad(p) ==
  /\ At(p, {"upload"}, "begin")
  /\ call' = IF acct = "live"
             THEN [call EXCEPT ![p] = [@ EXCEPT !.st = "put", !.prev = profile.avatar]]
             ELSE Over(call, p)
  /\ UNCHANGED <<acct, profile, store, vetted, badge, cache, lane, purging, left, told, excused>>

UploadObject(p) ==
  /\ At(p, {"upload"}, "put")
  /\ \/ /\ store' = store \cup {p}
        /\ call' = Goto(p, "review")
        /\ UNCHANGED <<left, excused>>
     \/ /\ Fault                        \* the answer is lost; the object may be there
        /\ store' \in {store, store \cup {p}}
        /\ excused' = TRUE
        /\ call' = Over(call, p)
  /\ UNCHANGED <<acct, profile, vetted, badge, cache, lane, purging, told>>

\* Clear, sensitive, or not reviewed at all: only the first goes on.
AuditImage(p) ==
  /\ At(p, {"upload"}, "review")
  /\ \/ vetted' = vetted \cup {p} /\ call' = Goto(p, "write") /\ UNCHANGED left
     \/ UNCHANGED <<vetted, left>> /\ call' = Goto(p, "cleanup")
     \/ Fault /\ UNCHANGED vetted /\ call' = Goto(p, "cleanup")
  /\ UNCHANGED <<acct, profile, store, badge, cache, lane, purging, told, excused>>

\* The superseded object goes once the row no longer names it.
RetireObject(p) ==
  /\ At(p, {"upload"}, "retire")
  /\ LET old == AvatarKeyFromURL(call[p].prev) IN
     \/ Delete(old) /\ UNCHANGED <<left, excused>>
     \/ Fault /\ excused' = TRUE /\ UNCHANGED store
  /\ call' = Over(call, p)
  /\ UNCHANGED <<acct, profile, vetted, badge, cache, lane, purging, told>>

CleanupObject(p) ==
  /\ At(p, {"upload"}, "cleanup")
  /\ \/ Delete(p) /\ UNCHANGED <<left, excused>>
     \/ Fault /\ excused' = TRUE /\ UNCHANGED store
  /\ call' = Over(call, p)
  /\ UNCHANGED <<acct, profile, vetted, badge, cache, lane, purging, told>>

----------------------------------------------------------------------------
(* UserRepository.UpdateProfile, for an upload and for a profile edit *)

Writers == {"upload", "edit", "clear"}

\* Only the columns of the request are assigned.
ProfileColumns(p) ==
  CASE call[p].kind = "upload" -> [profile EXCEPT !.ver = p, !.avatar = PublicURL(p)]
    [] call[p].kind = "edit"   -> [profile EXCEPT !.ver = p, !.nick = "set"]
    [] call[p].kind = "clear"  -> [profile EXCEPT !.ver = p, !.nick = "none"]

InsertOrMerge(p) == ProfileColumns(p)

AfterWrite(p) == IF call[p].kind = "upload" THEN Goto(p, "retire") ELSE Over(call, p)

AfterError(p) == IF call[p].kind = "upload" THEN Goto(p, "cleanup") ELSE Over(call, p)

\* Overwriting an avatar the upload never saw leaves that object behind.
Unseen(p) == call[p].kind = "upload" /\ profile.avatar # call[p].prev

\* The write commits; reading the row back afterwards may still fail.
CommitProfile(p, row) ==
  /\ profile' = row
  /\ \/ /\ call' = Refreshed(AfterWrite(p), p)
        /\ excused' = (excused \/ Unseen(p))
        /\ UNCHANGED left
     \/ /\ Fault
        /\ call' = Refreshed(AfterError(p), p)
        /\ excused' = TRUE
  /\ UNCHANGED <<acct, store, vetted, badge, cache, lane, purging, told>>

AbortProfile(p) ==
  /\ call' = AfterError(p)
  /\ UNCHANGED <<acct, profile, store, vetted, badge, cache, lane, purging, told, excused>>

EditLoad(p) ==
  /\ At(p, {"edit", "clear"}, "begin")
  /\ call' = Goto(p, "write")
  /\ UNCHANGED <<acct, profile, store, vetted, badge, cache, lane, purging, left, told, excused>>

UpdateProfile(p) ==
  /\ At(p, Writers, "write")
  /\ \/ acct = "live" /\ profile.ver # None /\ CommitProfile(p, ProfileColumns(p))
     \/ acct = "live" /\ profile.ver = None
        /\ call' = Goto(p, "insert")
        /\ UNCHANGED <<acct, profile, store, vetted, badge, cache, lane, purging, left, told, excused>>
     \/ acct # "live" /\ AbortProfile(p) /\ UNCHANGED left
     \/ Fault /\ AbortProfile(p)

InsertProfile(p) ==
  /\ At(p, Writers, "insert")
  /\ \/ acct # "purged" /\ CommitProfile(p, InsertOrMerge(p))
     \/ acct = "purged" /\ AbortProfile(p) /\ UNCHANGED left

----------------------------------------------------------------------------
(* Badge switches *)

EnableLoad(p) ==
  /\ At(p, {"enable"}, "begin")
  /\ call' = IF acct = "live" /\ profile.nick = "set" THEN Goto(p, "create") ELSE Over(call, p)
  /\ UNCHANGED <<acct, profile, store, vetted, badge, cache, lane, purging, left, told, excused>>

CreateBadge(p) ==
  /\ At(p, {"enable"}, "create")
  /\ \/ /\ badge.key = None /\ acct # "purged"
        /\ badge' = [key |-> p, on |-> TRUE]
        /\ told' = told \cup {p}
        /\ call' = Relit(Over(call, p), acct = "live")
     \/ /\ badge.key # None
        /\ call' = Goto(p, "find")
        /\ UNCHANGED <<badge, told>>
     \/ /\ badge.key = None /\ acct = "purged"
        /\ call' = Over(call, p)
        /\ UNCHANGED <<badge, told>>
  /\ UNCHANGED <<acct, profile, store, vetted, cache, lane, purging, left, excused>>

\* A row that is sharing answers "already enabled"; a paused one is resumed.
FindBadge(p) ==
  /\ At(p, {"enable", "disable"}, IF call[p].kind = "enable" THEN "find" ELSE "begin")
  /\ call' = IF badge.key # None /\ badge.on = (call[p].kind = "disable")
             THEN [call EXCEPT ![p] = [@ EXCEPT !.st = "switch", !.key = badge.key]]
             ELSE Over(call, p)
  /\ UNCHANGED <<acct, profile, store, vetted, badge, cache, lane, purging, left, told, excused>>

ResumedKey(p) == badge.key

ReEnable(p) ==
  /\ At(p, {"enable"}, "switch")
  /\ \/ /\ badge.key # None /\ ~badge.on
        /\ badge' = [key |-> ResumedKey(p), on |-> TRUE]
        /\ told' = told \cup {call[p].key}
        /\ PurgeRenderCache(call[p].at)
     \/ (badge.key = None \/ badge.on) /\ UNCHANGED <<badge, told, cache>>
  /\ call' = Relit(Over(call, p), acct = "live")
  /\ UNCHANGED <<acct, profile, store, vetted, lane, purging, left, excused>>

Disable(p) ==
  /\ At(p, {"disable"}, "switch")
  /\ \/ badge.on /\ badge' = [badge EXCEPT !.on = FALSE] /\ PurgeRenderCache(call[p].at)
     \/ ~badge.on /\ UNCHANGED <<badge, cache>>
  /\ call' = Over(call, p)
  /\ UNCHANGED <<acct, profile, store, vetted, lane, purging, left, told, excused>>

----------------------------------------------------------------------------
(* Render *)

Resolve(p) ==
  /\ At(p, Rendering, "begin")
  /\ call' = IF FindBadgeTarget
             THEN [call EXCEPT ![p] = [@ EXCEPT !.st = "lookup", !.seen = profile.ver]]
             ELSE Over(call, p)
  /\ UNCHANGED <<acct, profile, store, vetted, badge, cache, lane, purging, left, told, excused>>

Lookup(p) ==
  /\ At(p, Rendering, "lookup")
  /\ call' = IF Cached(p)
             THEN [call EXCEPT ![p] = [@ EXCEPT !.st = "shown",
                                         !.card = cache[call[p].at][RenderCacheKey(p)]]]
             ELSE Goto(p, "wait")
  /\ UNCHANGED <<acct, profile, store, vetted, badge, cache, lane, purging, left, told, excused>>

LockFill(p) ==
  /\ At(p, Rendering, "wait")
  /\ lane[call[p].at] = None
  /\ lane' = [lane EXCEPT ![call[p].at] = p]
  /\ call' = Goto(p, "fill")
  /\ UNCHANGED <<acct, profile, store, vetted, badge, cache, purging, left, told, excused>>

\* The viewer goes away while the lane is busy.
LeaveLane(p) ==
  /\ At(p, Rendering, "wait") /\ lane[call[p].at] # None
  /\ call' = Over(call, p)
  /\ UNCHANGED <<acct, profile, store, vetted, badge, cache, lane, purging, left, told, excused>>

Unlock(p) == lane' = [lane EXCEPT ![call[p].at] = None]

\* The display data is complete; from here on only visibility is asked.
Filled(p, card) ==
  call' = [call EXCEPT ![p] = [@ EXCEPT !.st = "recheck", !.card = card, !.dark = ~Visible]]

Fill(p) ==
  /\ At(p, Rendering, "fill")
  /\ \/ /\ Cached(p)
        /\ Filled(p, cache[call[p].at][RenderCacheKey(p)])
        /\ Unlock(p) /\ UNCHANGED left
     \/ /\ ~Cached(p) /\ acct = "live"
        /\ call' = [call EXCEPT ![p] = [@ EXCEPT !.st = "fetch",
                                          !.card = FindPublicCard(call[p].kind)]]
        /\ UNCHANGED <<lane, left>>
     \/ /\ ~Cached(p)
        /\ (acct # "live" /\ UNCHANGED left) \/ (acct = "live" /\ Fault)
        /\ call' = Over(call, p)
        /\ Unlock(p)
  /\ UNCHANGED <<acct, profile, store, vetted, badge, cache, purging, told, excused>>

\* An avatar that cannot be fetched shows as the initial mark.
FetchAvatar(p) ==
  /\ At(p, Rendering, "fetch")
  /\ \E pic \in {call[p].card.pic, None} :
       LET card == [call[p].card EXCEPT !.pic = pic] IN
       /\ pic # None => pic \in store
       /\ pic # call[p].card.pic /\ call[p].card.pic \in store => left.faults > 0
       /\ left' = IF pic # call[p].card.pic /\ call[p].card.pic \in store
                  THEN [left EXCEPT !.faults = @ - 1] ELSE left
       /\ Put(p, card)
       /\ Filled(p, card)
  /\ Unlock(p)
  /\ UNCHANGED <<acct, profile, store, vetted, badge, purging, told, excused>>

Recheck(p) ==
  /\ At(p, Rendering, "recheck")
  /\ call' = IF FindBadgeTarget THEN Goto(p, "shown") ELSE Over(call, p)
  /\ UNCHANGED <<acct, profile, store, vetted, badge, cache, lane, purging, left, told, excused>>

Respond(p) ==
  /\ At(p, Rendering, "shown")
  /\ call' = Over(call, p)
  /\ UNCHANGED <<acct, profile, store, vetted, badge, cache, lane, purging, left, told, excused>>

Expire(i) ==
  /\ \E k \in DOMAIN cache[i] : cache' = [cache EXCEPT ![i] = Drop(@, {k})]
  /\ UNCHANGED <<acct, profile, store, vetted, badge, lane, call, purging, left, told, excused>>

----------------------------------------------------------------------------
(* The account behind the profile, and the process behind the calls *)

Turn == left.admin > 0 /\ left' = [left EXCEPT !.admin = @ - 1]

CloseOrRestore ==
  /\ Turn
  /\ acct # "purged"
  /\ acct' = IF acct = "live" THEN "closed" ELSE "live"
  /\ call' = Relit(call, acct = "closed" /\ badge.on)
  /\ UNCHANGED <<profile, store, vetted, badge, cache, lane, purging, told, excused>>

\* The row goes with everything that cascades from it; the object follows outside.
PurgeDeletedUser ==
  /\ Turn
  /\ acct = "closed"
  /\ acct' = "purged"
  /\ purging' = profile.avatar
  /\ profile' = [ver |-> None, nick |-> "none", avatar |-> NoURL]
  /\ badge' = [key |-> None, on |-> FALSE]
  /\ UNCHANGED <<store, vetted, cache, lane, call, told, excused>>

\* The profile's avatar column is handed to the store as an object key.
PurgeAvatar ==
  /\ purging # NoURL
  /\ \/ Delete(purging) /\ UNCHANGED <<left, excused>>
     \/ Fault /\ excused' = TRUE /\ UNCHANGED store
  /\ purging' = NoURL
  /\ UNCHANGED <<acct, profile, vetted, badge, cache, lane, call, told>>

\* A process dies: its calls end where they are and its cache is gone.
Crash(i) ==
  /\ Fault
  /\ \E p \in Calls : Running(p) /\ call[p].at = i
  /\ call' = [p \in Calls |-> IF Running(p) /\ call[p].at = i THEN Over(call, p)[p] ELSE call[p]]
  /\ cache' = [cache EXCEPT ![i] = Drop(@, DOMAIN @)]
  /\ lane' = [lane EXCEPT ![i] = None]
  /\ excused' = (excused \/ \E p \in Calls : call[p].kind = "upload" /\ call[p].at = i)
  /\ UNCHANGED <<acct, profile, store, vetted, badge, purging, told>>

Init ==
  \E s \in Starts :
    /\ acct = "live"
    /\ profile = s.profile
    /\ store = {AvatarKeyFromURL(s.profile.avatar)} \ {None}
    /\ vetted = store
    /\ badge = s.badge
    /\ cache = [i \in Instances |-> Drop([k \in {None} |-> NoCard], {None})]
    /\ lane = [i \in Instances |-> None]
    /\ call = [p \in Calls |-> NewCall(s.kinds[p])]
    /\ purging = NoURL
    /\ left = [faults |-> s.faults, admin |-> s.admin]
    /\ told = {s.badge.key} \ {None}
    /\ excused = FALSE

Step(p) ==
  \/ UploadLoad(p) \/ UploadObject(p) \/ AuditImage(p) \/ RetireObject(p) \/ CleanupObject(p)
  \/ EditLoad(p) \/ UpdateProfile(p) \/ InsertProfile(p)
  \/ EnableLoad(p) \/ CreateBadge(p) \/ FindBadge(p) \/ ReEnable(p) \/ Disable(p)
  \/ Resolve(p) \/ Lookup(p) \/ LockFill(p) \/ Fill(p) \/ FetchAvatar(p) \/ Recheck(p) \/ Respond(p)

Next ==
  \/ \E p \in Calls : Begin(p) \/ Refuse(p) \/ Step(p) \/ LeaveLane(p)
  \/ \E i \in Instances : Expire(i) \/ Crash(i)
  \/ CloseOrRestore \/ PurgeDeletedUser \/ PurgeAvatar

Spec == Init /\ [][Next]_vars

----------------------------------------------------------------------------
URLs == [base : {"own", "other"}, key : Names] \cup {NoURL}
Cards == [ver : Names \cup {None}, nick : {"none", "set"}, target : Rendering,
          pic : Names \cup {None}]

\* Every variable has its type, and no render cache exceeds its bound.
TypeOK ==
  /\ acct \in {"live", "closed", "purged"}
  /\ profile \in [ver : Names \cup {None}, nick : {"none", "set"}, avatar : URLs]
  /\ store \subseteq Names /\ vetted \subseteq Names
  /\ badge \in [key : Names \cup {None}, on : BOOLEAN] /\ (badge.on => badge.key # None)
  /\ \A i \in Instances :
       /\ \A k \in DOMAIN cache[i] : cache[i][k] \in Cards
       /\ Cardinality(DOMAIN cache[i]) <= CacheMax
       /\ lane[i] \in Calls \cup {None}
  /\ left \in [faults : Nat, admin : Nat]
  /\ told \subseteq Names /\ excused \in BOOLEAN

\* profile.avatar never names an image of this deployment that was not reviewed, whatever
\* the review answered and whatever failed between the upload and the database write.
AvatarIsVetted == profile.avatar.base = "own" => profile.avatar.key \in vetted

\* The object profile.avatar names is in the store: no interleaving of uploads retires
\* the image another upload has just made current.  A failure reported after the write
\* committed, or a crash, is the one excuse.
AvatarResolves == profile.avatar.base = "own" /\ ~excused => profile.avatar.key \in store

\* Once no call is running the store holds the current avatar and nothing else, unless a
\* delete failed, a process died, or an upload replaced one it had not seen.
NoStrayObject ==
  (acct # "purged" /\ ~excused /\ \A p \in Calls : ~Running(p))
     => store = {AvatarKeyFromURL(profile.avatar)} \ {None}

\* The first writes of a profile row merge: a step that writes the avatar leaves the
\* nickname alone, and the other way round, when both found no row and both insert.
FirstWritesMerge ==
  [][acct' # "purged" => profile'.nick = profile.nick \/ profile'.avatar = profile.avatar]_vars

\* A badge key handed to its owner stays the account's key through every pause, resume
\* and race of two switches, so that a saved embed address keeps working.
EmbedKeyIsForever == \A k \in told : acct # "purged" => badge.key = k

\* A card is shown only if the badge was visible at some moment since the render began
\* and since its display data was complete, cache hit or not, on every process.
HiddenStaysHidden == \A p \in Calls : call[p].st = "shown" => ~call[p].dark

\* A card shown is the profile as it was at some moment of the request, with the
\* click-through the request asked for: no cache entry outlives the row it was made from.
CardIsCurrent ==
  \A p \in Calls : call[p].st = "shown" =>
    call[p].card.ver \in call[p].fresh /\ call[p].card.target = call[p].kind

\* Whoever holds the fill lane of a process is a request of that process that is still
\* working on the card: no error, no crash and no viewer that left keeps the lane from
\* the others.
LaneIsWorkedIn ==
  \A i \in Instances : lane[i] # None =>
    call[lane[i]].at = i /\ call[lane[i]].st \in {"fill", "fetch"}

\* Removing a closed account for good removes its avatar object, unless a delete failed.
PurgeRemovesAvatar ==
  (acct = "purged" /\ purging = NoURL /\ ~excused /\ \A p \in Calls : ~Running(p)) => store = {}

\* What the public side of a profile shows is reviewed, there, visible and current, in
\* every state, and first writes merge.
MediaSound ==
  /\ [](TypeOK /\ AvatarIsVetted /\ AvatarResolves /\ NoStrayObject)
  /\ [](EmbedKeyIsForever /\ HiddenStaysHidden /\ CardIsCurrent /\ LaneIsWorkedIn)
  /\ FirstWritesMerge
============================================================================
