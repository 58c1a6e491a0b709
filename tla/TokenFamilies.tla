---------------------------- MODULE TokenFamilies ----------------------------
(***************************************************************************)
(* The rotating refresh-token families of the identity provider: how a     *)
(* login or a code redemption opens a family, how a refresh rotates it,    *)
(* and everything that can cut it.  Each database transaction is one step  *)
(* (RevocationLocks looks inside the two that are not serialised by one    *)
(* lock); a request is several steps, because the services read the token  *)
(* and the user before the transaction that writes.                        *)
(*                                                                         *)
(* A family is its token rows: sequence s of family f has one access row   *)
(* and one refresh row (uq family_id, sequence).  Times are clock ticks.   *)
(***************************************************************************)
EXTENDS Naturals

CONSTANTS
    Users,          \* account identifiers
    Families,       \* the UUIDs tokenissue.Issue may draw for a new family
    Capability,     \* the families whose scopes carry admin:* or user:*
    Requests,       \* HTTP requests in flight
    NoUser, NoFamily,
    GraceWindow,    \* refreshGracePeriod
    RefreshTTL, AccessTTL,
    Lifetimes,      \* values of JWT_REFRESH_CAPABILITY_MAX_LIFETIME; 0 is no cap
    AccessAge, RefreshAge,      \* RETENTION_{ACCESS,REFRESH}_TOKEN_AGE
    MaxSeq, MaxNow, MaxVersion  \* bounds of the model

ASSUME IdAssumption ==
    /\ NoUser \notin Users
    /\ NoFamily \notin Families
    /\ Capability \subseteq Families

ASSUME TimeAssumption ==
    /\ GraceWindow \in Nat
    /\ RefreshTTL \in Nat \ {0}
    /\ AccessTTL \in Nat \ {0}
    /\ AccessTTL <= RefreshTTL   \* true of the defaults; config does not insist
    /\ Lifetimes \subseteq Nat
    /\ AccessAge \in Nat
    /\ RefreshAge \in Nat

ASSUME BoundAssumption ==
    /\ MaxSeq \in Nat
    /\ MaxNow \in Nat
    /\ MaxVersion \in Nat

VARIABLES
    now,        \* the clock
    cap,        \* the capability lifetime of the running deployment
    version,    \* user.token_version
    closed,     \* user.state = is_deleted
    owner,      \* user_id of a family, NoUser before its first row exists
    born,       \* created_at of the family's first row (history, never pruned)
    access,     \* oauth_access_tokens:  family -> sequence -> row
    refresh,    \* oauth_refresh_tokens: family -> sequence -> row
    req         \* what each request in flight has read so far

vars == <<now, cap, version, closed, owner, born, access, refresh, req>>
accounts == <<cap, version, closed>>
tokens == <<owner, born, access, refresh>>

Seqs == 0..MaxSeq

AccessRow == [present: BOOLEAN, revoked: BOOLEAN, expires: Nat, ver: Nat]
RefreshRow == [present: BOOLEAN, revoked: BOOLEAN, revokedAt: Nat,
               reason: BOOLEAN, created: Nat, expires: Nat]
NoAccess == [present |-> FALSE, revoked |-> FALSE, expires |-> 0, ver |-> 0]
NoRefresh == [present |-> FALSE, revoked |-> FALSE, revokedAt |-> 0,
              reason |-> FALSE, created |-> 0, expires |-> 0]

\* Where a request stands: "login" and "redeem" have read the user, "found" has
\* read a live refresh row, "issued" has read the user too and signed a pair,
\* "cut" has read a row revoked before the grace window.
PCs == {"idle", "login", "redeem", "found", "issued", "cut"}
Request == [pc: PCs, user: Users \cup {NoUser}, fam: Families \cup {NoFamily},
            seq: Seqs, ver: Nat, since: Nat]
Idle == [pc |-> "idle", user |-> NoUser, fam |-> NoFamily, seq |-> 0,
         ver |-> 0, since |-> 0]
\* What a request holds after its first read of a user, or of a token row.
ReadUser(pc, u) == [pc |-> pc, user |-> u, fam |-> NoFamily, seq |-> 0,
                    ver |-> version[u], since |-> now]
ReadToken(pc, f, s) == [pc |-> pc, user |-> NoUser, fam |-> f, seq |-> s,
                        ver |-> 0, since |-> now]

TypeOK ==
    /\ now \in Nat
    /\ cap \in Nat
    /\ version \in [Users -> Nat]
    /\ closed \in [Users -> BOOLEAN]
    /\ owner \in [Families -> Users \cup {NoUser}]
    /\ born \in [Families -> Nat]
    /\ access \in [Families -> [Seqs -> AccessRow]]
    /\ refresh \in [Families -> [Seqs -> RefreshRow]]
    /\ req \in [Requests -> Request]

Init ==
    /\ now = 0
    /\ cap \in Lifetimes
    /\ version = [u \in Users |-> 0]
    /\ closed = [u \in Users |-> FALSE]
    /\ owner = [f \in Families |-> NoUser]
    /\ born = [f \in Families |-> 0]
    /\ access = [f \in Families |-> [s \in Seqs |-> NoAccess]]
    /\ refresh = [f \in Families |-> [s \in Seqs |-> NoRefresh]]
    /\ req = [p \in Requests |-> Idle]

-----------------------------------------------------------------------------
(* Reading rows *)

Unrevoked(f, s) == refresh[f][s].present /\ ~refresh[f][s].revoked

\* Mutant: the boundary tick is no longer inside the grace window.
IsWithinRefreshGraceStrict(revokedAt, at) == at < revokedAt + GraceWindow

IsWithinRefreshGrace(revokedAt, at) == at <= revokedAt + GraceWindow

\* tokenFamilyHasRevokedAccess
FamilyHasRevokedAccess(f) ==
    \E s \in Seqs : access[f][s].present /\ access[f][s].revoked

\* capabilityRefreshLifetime: 0 means uncapped.
Lifetime(f) == IF f \in Capability THEN cap ELSE 0

\* Mutant: the cap is measured from the presented token.
IsOriginPresented(f, s) == Unrevoked(f, s)

\* The origin is the lowest sequence still stored, which retention may change.
IsOrigin(f, s) ==
    /\ refresh[f][s].present
    /\ \A t \in Seqs : refresh[f][t].present => s <= t

Least(a, b) == IF a <= b THEN a ELSE b

\* An expiry held to the deadline of a capped family.
Clamp(expires, f, origin) ==
    IF Lifetime(f) > 0 THEN Least(expires, origin + Lifetime(f)) ELSE expires

\* A row carrying a reason was cut by a user-level revocation: no replay.
SilentlyRevoked(r) == r.present /\ r.revoked /\ ~r.reason

-----------------------------------------------------------------------------
(* Writing rows *)

RevokeAccess(r) == [r EXCEPT !.revoked = r.present]

RevokeRefresh(r, why) ==
    IF r.present /\ ~r.revoked
    THEN [r EXCEPT !.revoked = TRUE, !.revokedAt = now, !.reason = why]
    ELSE r

\* Every row of the families F is revoked; rows already dead keep their own death.
Cut(F, why) ==
    /\ access' = [f \in Families |-> IF f \in F
            THEN [s \in Seqs |-> RevokeAccess(access[f][s])] ELSE access[f]]
    /\ refresh' = [f \in Families |-> IF f \in F
            THEN [s \in Seqs |-> RevokeRefresh(refresh[f][s], why)] ELSE refresh[f]]

RotateAway(r) == [r EXCEPT !.revoked = TRUE, !.revokedAt = now]

NewAccess(v, expires) ==
    [present |-> TRUE, revoked |-> FALSE, expires |-> expires, ver |-> v]
NewRefresh(at, expires) ==
    [present |-> TRUE, revoked |-> FALSE, revokedAt |-> 0, reason |-> FALSE,
     created |-> at, expires |-> expires]

\* A redemption shortens both lifetimes when the cap is the shorter one.
FirstTTL(ttl, f) ==
    IF Lifetime(f) > 0 /\ Lifetime(f) < RefreshTTL
    THEN Least(ttl, Lifetime(f)) ELSE ttl

\* Sequence 0 of a family nobody has used: a random UUID has no rows yet.
CreatePair(f, u, v, at) ==
    /\ owner[f] = NoUser
    /\ owner' = [owner EXCEPT ![f] = u]
    /\ born' = [born EXCEPT ![f] = at]
    /\ access' = [access EXCEPT ![f][0] =
            NewAccess(v, at + FirstTTL(AccessTTL, f))]
    /\ refresh' = [refresh EXCEPT ![f][0] =
            NewRefresh(at, at + FirstTTL(RefreshTTL, f))]

Finish(p) == req' = [req EXCEPT ![p] = Idle]

-----------------------------------------------------------------------------
(* Opening a family *)

\* Service.Login up to the verified password: the user row is read once.
LoginVerify(p, u) ==
    /\ req[p].pc = "idle"
    /\ ~closed[u]
    /\ req' = [req EXCEPT ![p] = ReadUser("login", u)]
    /\ UNCHANGED <<now, accounts, tokens>>

\* CreatePairWithAudit: no lock on the user row and no check of its version.
LoginCommit(p) ==
    /\ req[p].pc = "login"
    /\ \E f \in Families \ Capability, at \in req[p].since..now :
            CreatePair(f, req[p].user, req[p].ver, at)
    /\ Finish(p)
    /\ UNCHANGED <<now, accounts>>

\* The code is consumed; the owner's version is read in the same transaction.
RedeemConsume(p, u) ==
    /\ req[p].pc = "idle"
    /\ ~closed[u]
    /\ req' = [req EXCEPT ![p] = ReadUser("redeem", u)]
    /\ UNCHANGED <<now, accounts, tokens>>

\* CreatePairWithUserAndClientLock: the version must still be the consumed one.
RedeemCommit(p) ==
    /\ req[p].pc = "redeem"
    /\ version[req[p].user] = req[p].ver
    /\ \E f \in Families, at \in req[p].since..now :
            CreatePair(f, req[p].user, req[p].ver, at)
    /\ Finish(p)
    /\ UNCHANGED <<now, accounts>>

\* ErrUserStateChanged: the code stays burned and nothing is minted.
RedeemRefused(p) ==
    /\ req[p].pc = "redeem"
    /\ version[req[p].user] # req[p].ver
    /\ Finish(p)
    /\ UNCHANGED <<now, accounts, tokens>>

-----------------------------------------------------------------------------
(* Refreshing a family *)

\* FindRefreshToken sees a live row.
RefreshFind(p, f, s) ==
    /\ req[p].pc = "idle"
    /\ Unrevoked(f, s)
    /\ refresh[f][s].expires > now
    /\ req' = [req EXCEPT ![p] = ReadToken("found", f, s)]
    /\ UNCHANGED <<now, accounts, tokens>>

\* FindRefreshToken sees a row rotated away longer ago than the grace window.
RefreshFindReplay(p, f, s) ==
    /\ req[p].pc = "idle"
    /\ SilentlyRevoked(refresh[f][s])
    /\ ~IsWithinRefreshGrace(refresh[f][s].revokedAt, now)
    /\ req' = [req EXCEPT ![p] = ReadToken("cut", f, s)]
    /\ UNCHANGED <<now, accounts, tokens>>

\* The separate RevokeFamily transaction of the pre-read's replay branch.
RefreshCutReplay(p) ==
    /\ req[p].pc = "cut"
    /\ Cut({req[p].fam}, FALSE)
    /\ Finish(p)
    /\ UNCHANGED <<now, accounts, owner, born>>

\* FindAuthUserByID, then issuePair signs the version just read.
RefreshIssue(p) ==
    /\ req[p].pc = "found"
    /\ ~closed[owner[req[p].fam]]
    /\ req' = [req EXCEPT ![p].pc = "issued",
                          ![p].ver = version[owner[req[p].fam]]]
    /\ UNCHANGED <<now, accounts, tokens>>

RefreshUserClosed(p) ==
    /\ req[p].pc = "found"
    /\ closed[owner[req[p].fam]]
    /\ Finish(p)
    /\ UNCHANGED <<now, accounts, tokens>>

\* The row rotateRefreshToken re-reads FOR UPDATE under the family lock.
Current(p) == refresh[req[p].fam][req[p].seq]

RotateLive(p) ==
    /\ req[p].pc = "issued"
    /\ Current(p).present
    /\ ~Current(p).revoked
    /\ Current(p).expires > now

\* ErrNotFound, SessionRevokedError, ErrTokenReplayWithinGrace, ErrTokenExpired.
RotateRefused(p) ==
    /\ req[p].pc = "issued"
    /\ Current(p).present /\ Current(p).revoked =>
            Current(p).reason \/ IsWithinRefreshGrace(Current(p).revokedAt, now)
    /\ Unrevoked(req[p].fam, req[p].seq) => Current(p).expires <= now
    /\ Finish(p)
    /\ UNCHANGED <<now, accounts, tokens>>

\* ErrTokenReplay: the transaction itself cuts the family.
RotateReplay(p) ==
    /\ req[p].pc = "issued"
    /\ Current(p).present
    /\ IF Current(p).revoked
       THEN ~Current(p).reason /\ ~IsWithinRefreshGrace(Current(p).revokedAt, now)
       ELSE Current(p).expires > now /\ FamilyHasRevokedAccess(req[p].fam)
    /\ Cut({req[p].fam}, FALSE)
    /\ Finish(p)
    /\ UNCHANGED <<now, accounts, owner, born>>

\* ErrTokenFamilyExpired: the capability lifetime has run out.
RotateCapElapsed(p) ==
    /\ RotateLive(p)
    /\ ~FamilyHasRevokedAccess(req[p].fam)
    /\ Lifetime(req[p].fam) > 0
    /\ \E o \in Seqs : /\ IsOrigin(req[p].fam, o)
                       /\ refresh[req[p].fam][o].created
                            + Lifetime(req[p].fam) <= now
    /\ Cut({req[p].fam}, FALSE)
    /\ Finish(p)
    /\ UNCHANGED <<now, accounts, owner, born>>

\* tokenByRefreshToken signs a capped family's access token to expire no later
\* than the presented refresh token; the internal Refresh has no such limit.
SignedExpiry(p, at) ==
    IF Lifetime(req[p].fam) > 0
    THEN Least(at + AccessTTL, Current(p).expires) ELSE at + AccessTTL

\* The rotation commits: the presented row dies, sequence + 1 is inserted.
RotateCommit(p) ==
    LET f == req[p].fam  s == req[p].seq  IN
    /\ RotateLive(p)
    /\ ~FamilyHasRevokedAccess(f)
    /\ s < MaxSeq
    /\ \E o \in Seqs, at \in req[p].since..now :
        LET origin == refresh[f][o].created  IN
        /\ IsOrigin(f, o)
        /\ Lifetime(f) > 0 => origin + Lifetime(f) > now
        /\ access' = [access EXCEPT ![f][s + 1] =
                NewAccess(req[p].ver, Clamp(SignedExpiry(p, at), f, origin))]
        /\ refresh' = [refresh EXCEPT
                ![f] = [@ EXCEPT
                    ![s] = RotateAway(refresh[f][s]),
                    ![s + 1] = NewRefresh(at, Clamp(at + RefreshTTL, f, origin))]]
    /\ Finish(p)
    /\ UNCHANGED <<now, accounts, owner, born>>

-----------------------------------------------------------------------------
(* Cutting families from outside, retention, time *)

\* RevokeFamily: logout, device logout, eviction, /oauth/revoke, code replay.
RevokeFamily(f) ==
    /\ owner[f] # NoUser
    /\ Cut({f}, FALSE)
    /\ UNCHANGED <<now, accounts, owner, born, req>>

FamiliesOf(u) == {f \in Families : owner[f] = u}

\* Mutant: only the version is bumped.
RevokeSessionsByVersion(u) ==
    /\ version[u] < MaxVersion
    /\ version' = [version EXCEPT ![u] = @ + 1]
    /\ UNCHANGED <<now, cap, closed, tokens, req>>

\* UpdatePasswordAndRevokeSessions, and UpdateAdminUser's role change.
RevokeSessions(u) ==
    /\ version[u] < MaxVersion
    /\ version' = [version EXCEPT ![u] = @ + 1]
    /\ Cut(FamiliesOf(u), TRUE)
    /\ UNCHANGED <<now, cap, closed, owner, born, req>>

SoftDelete(u) ==
    /\ ~closed[u]
    /\ version[u] < MaxVersion
    /\ closed' = [closed EXCEPT ![u] = TRUE]
    /\ version' = [version EXCEPT ![u] = @ + 1]
    /\ Cut(FamiliesOf(u), TRUE)
    /\ UNCHANGED <<now, cap, owner, born, req>>

\* Mutant: restoring an account undoes the revocations its closure made.
RestoreUserAndSessions(u) ==
    /\ closed[u]
    /\ closed' = [closed EXCEPT ![u] = FALSE]
    /\ access' = [f \in Families |-> [s \in Seqs |->
            [access[f][s] EXCEPT !.revoked = @ /\ ~refresh[f][s].reason]]]
    /\ refresh' = [f \in Families |-> [s \in Seqs |->
            [refresh[f][s] EXCEPT !.revoked = @ /\ ~refresh[f][s].reason]]]
    /\ UNCHANGED <<now, cap, version, owner, born, req>>

RestoreUser(u) ==
    /\ closed[u]
    /\ closed' = [closed EXCEPT ![u] = FALSE]
    /\ UNCHANGED <<now, cap, version, tokens, req>>

DeleteExpiredAccessToken(f, s) ==
    /\ access[f][s].present
    /\ access[f][s].expires + AccessAge < now
    /\ access' = [access EXCEPT ![f][s] = NoAccess]
    /\ UNCHANGED <<now, accounts, owner, born, refresh, req>>

\* No member is unrevoked and valid at the cutoff now - RefreshAge.
FamilyIsDead(f) ==
    \A s \in Seqs : Unrevoked(f, s) => refresh[f][s].expires + RefreshAge <= now

DeleteRevokedRefreshToken(f, s) ==
    /\ refresh[f][s].present
    /\ refresh[f][s].expires + RefreshAge < now
    /\ (refresh[f][s].revoked /\ s > 0) \/ FamilyIsDead(f)
    /\ refresh' = [refresh EXCEPT ![f][s] = NoRefresh]
    /\ UNCHANGED <<now, accounts, owner, born, access, req>>

\* The process crashes, the client leaves or a dependency fails between steps.
Abandon(p) ==
    /\ req[p].pc # "idle"
    /\ Finish(p)
    /\ UNCHANGED <<now, accounts, tokens>>

\* A new deployment may run with another cap; requests do not survive it.
Redeploy ==
    /\ cap' \in Lifetimes
    /\ req' = [p \in Requests |-> Idle]
    /\ UNCHANGED <<now, version, closed, tokens>>

Tick ==
    /\ now < MaxNow
    /\ now' = now + 1
    /\ UNCHANGED <<accounts, tokens, req>>

RequestStep(p) ==
    \/ \E u \in Users : LoginVerify(p, u) \/ RedeemConsume(p, u)
    \/ LoginCommit(p) \/ RedeemCommit(p) \/ RedeemRefused(p)
    \/ \E f \in Families, s \in Seqs :
            RefreshFind(p, f, s) \/ RefreshFindReplay(p, f, s)
    \/ RefreshCutReplay(p) \/ RefreshIssue(p) \/ RefreshUserClosed(p)
    \/ RotateRefused(p) \/ RotateReplay(p) \/ RotateCapElapsed(p)
    \/ RotateCommit(p)
    \/ Abandon(p)

Next ==
    \/ Tick \/ Redeploy
    \/ \E p \in Requests : RequestStep(p)
    \/ \E f \in Families : RevokeFamily(f)
    \/ \E u \in Users : RevokeSessions(u) \/ SoftDelete(u) \/ RestoreUser(u)
    \/ \E f \in Families, s \in Seqs :
            DeleteExpiredAccessToken(f, s) \/ DeleteRevokedRefreshToken(f, s)

Spec == Init /\ [][Next]_vars

-----------------------------------------------------------------------------
(* What the families promise *)

Alive(f) == \E s \in Seqs : Unrevoked(f, s)

(* An unrevoked refresh token is the newest of its family: rotation and the    *)
(* revocations never leave two usable tokens, nor one with a successor, however *)
(* stale the pre-reads of concurrent refreshes are (rotateRefreshToken).        *)
LiveIsNewest ==
    \A f \in Families, s, t \in Seqs :
        Unrevoked(f, s) /\ s < t => ~refresh[f][t].present /\ ~access[f][t].present

(* A revoked access row means its family can no longer be refreshed: the two    *)
(* tables are never cut apart, so tokenFamilyHasRevokedAccess, the backstop of  *)
(* rotateRefreshToken, never meets a family that is still alive.                *)
CutIsWhole ==
    \A f \in Families : FamilyHasRevokedAccess(f) => ~Alive(f)

(* A usable access token that was rotated, or that a code redemption of a       *)
(* capability scope minted, carries its owner's current token_version: no       *)
(* refresh or redemption that read the user before a password change, role      *)
(* change or account closure commits after it (the version and the rows change  *)
(* in one transaction).                                                         *)
LiveAccessIsCurrent ==
    \A f \in Families, s \in Seqs :
        /\ access[f][s].present /\ ~access[f][s].revoked
        /\ s > 0 \/ f \in Capability
        => access[f][s].ver = version[owner[f]]

(* No token of a capability family is issued past the family's birth plus the   *)
(* configured lifetime, although the origin is re-read from whatever rows       *)
(* retention has left (rotateRefreshToken, DeleteRevokedRefreshTokens) and a    *)
(* deployment may have shortened the cap since.                                 *)
CapHolds ==
    [][\A f \in Capability, s \in Seqs : cap > 0 =>
        /\ ~access[f][s].present /\ access'[f][s].present
            => access'[f][s].expires <= born'[f] + cap
        /\ ~refresh[f][s].present /\ refresh'[f][s].present
            => refresh'[f][s].expires <= born'[f] + cap]_vars

(* A family that lost its last usable refresh token never has one again: no     *)
(* request in flight can bring a logged-out, replayed or closed session back.   *)
DeadStaysDead ==
    [][\A f \in Families : owner[f] # NoUser /\ ~Alive(f) => ~Alive(f)']_vars

(* A refresh that found its token live no longer ago than the grace window      *)
(* never ends the session that a concurrent refresh of the same token renewed   *)
(* (IsWithinRefreshGrace inside the rotation transaction).                      *)
ConcurrentRefreshKeepsSession ==
    [][\A p \in Requests, f \in Families :
            /\ req[p].pc = "issued" /\ req'[p].pc = "idle"
            /\ req[p].fam = f /\ Lifetime(f) = 0
            /\ now <= req[p].since + GraceWindow
            /\ Alive(f)
            => Alive(f)']_vars

(* What README.md says of a password change: "revoke all sessions on password  *)
(* change".  Every usable session that has not been refreshed yet was opened    *)
(* under the owner's current token_version.                                     *)
SessionsFollowPassword ==
    \A f \in Families :
        Unrevoked(f, 0) /\ access[f][0].present
        => access[f][0].ver = version[owner[f]]

(* The life of each family as SessionLifecycle describes it.                    *)
Lifecycle == INSTANCE SessionLifecycle WITH
    opened <- {f \in Families : owner[f] # NoUser},
    current <- [f \in Families |-> {s \in Seqs : Unrevoked(f, s)}]

(* Every step of the token tables opens a family once, renews the one current   *)
(* token of a family to its successor, or ends sessions for good.               *)
ImplementsLifecycle == Lifecycle!Spec

(* What holds of the two token tables at every moment: one usable refresh token  *)
(* a family, families cut whole, and no usable rotated token of an older         *)
(* token_version.                                                                *)
SessionsSound == TypeOK /\ LiveIsNewest /\ CutIsWhole /\ LiveAccessIsCurrent
=============================================================================
