---------------------------- MODULE OAuthGrants ----------------------------
(***************************************************************************)
(* Delegated access of one user to one OAuth client: the pending request   *)
(* of /oauth/authorize, the consent or silent consent that turns it into a *)
(* code, the redemption of the code, and everything that takes access      *)
(* away: a replayed code, the user's revocation of the grant, a password   *)
(* change or account close, an update or deletion of the client.           *)
(*                                                                         *)
(* A call of a handler runs in steps, one per Redis command or database    *)
(* transaction, and calls interleave between them.  The revocation of a    *)
(* grant is split further, into its statements: its first DELETE does not  *)
(* wait for a consent that has not inserted its row yet.  A call that      *)
(* stops for ever in the middle is a crash.                                *)
(*                                                                         *)
(* Every scope set contains openid, which is left out.  A code and the     *)
(* family_id stored in it have the same name.                              *)
(***************************************************************************)
EXTENDS Naturals, FiniteSets

CONSTANTS
    Calls,          \* handler calls that may be in flight at once
    Requests,       \* request_ids of /oauth/authorize
    Optional,       \* the scopes other than openid
    Admin, User,    \* those that give a client a capability, by class
    Registered,     \* the scopes the client is registered with at first
    Keep,           \* a field an update leaves out
    None,
    MaxCodes,       \* bounds: codes issued,
    MaxVersion,     \* bulk revocations of the user,
    MaxStamp,       \* updates of the client,
    MaxRevokes      \* grant revocations begun

Codes == 1..MaxCodes
CapabilityScopes == Admin \cup User

VARIABLES
    client,         \* the oauth_clients row
    user,           \* the user row: token_version, and whether it is closed
    grant,          \* the oauth_grants row of the pair, or None
    stash,          \* request_id -> the pending request in Redis
    code,           \* the oauth_authorizations rows
    family,         \* code -> the token family redeemed from it
    call,           \* what each call in flight has done
    \* History: what the properties compare the rows with.
    begun,          \* grant revocations begun
    finished,       \* the latest begun of those that committed
    consent,        \* the scopes the user last approved on the consent page
    replayed        \* codes whose replay has been answered with a revocation

rows == <<client, user, grant, stash, code, family>>
history == <<begun, finished, consent, replayed>>
vars == <<rows, call, history>>

Client == [exists: BOOLEAN, active: BOOLEAN, scopes: SUBSET Optional,
           uri: BOOLEAN,            \* the requests' redirect_uri is registered
           stamp: 0..MaxStamp]      \* updated_at
Grant == [scopes: SUBSET Optional, since: 0..MaxRevokes]
Stash == [st: {"unborn", "held", "spent"}, scopes: SUBSET Optional,
          prompt: BOOLEAN]          \* prompt asks for the consent page
Code == [st: {"unborn", "stored", "deleted"}, used: BOOLEAN, expired: BOOLEAN,
         scopes: SUBSET Optional, request: Requests \cup {None}, since: 0..MaxRevokes]
Family == [st: {"none", "live", "revoked"}, version: 0..MaxVersion,
           scopes: SUBSET Optional, since: 0..MaxRevokes]
Call == [pc: {"idle", "consume", "check", "persist", "redeem", "verify", "pair", "sign",
              "cut", "replay", "update", "codes", "families"},
         request: Requests \cup {None}, scopes: SUBSET Optional, silent: BOOLEAN,
         code: Codes \cup {None}, inScope: BOOLEAN, version: 0..MaxVersion,
         row: Client \cup {None},
         grants: BOOLEAN, codes: SUBSET Codes, start: 0..MaxRevokes]

TypeOK ==
    /\ client \in Client
    /\ user \in [version: 0..MaxVersion, deleted: BOOLEAN]
    /\ grant \in Grant \cup {None}
    /\ stash \in [Requests -> Stash]
    /\ code \in [Codes -> Code]
    /\ family \in [Codes -> Family]
    /\ call \in [Calls -> Call]
    /\ begun \in 0..MaxRevokes /\ finished \in 0..MaxRevokes
    /\ consent \in SUBSET Optional
    /\ replayed \in SUBSET Codes

Idle == [pc |-> "idle", request |-> None, scopes |-> {}, silent |-> FALSE,
         code |-> None, inScope |-> FALSE, version |-> 0, row |-> None,
         grants |-> FALSE, codes |-> {}, start |-> 0]

NoStash(st) == [st |-> st, scopes |-> {}, prompt |-> FALSE]
NoRow(st, r) == [st |-> st, used |-> FALSE, expired |-> FALSE,
                 scopes |-> {}, request |-> r, since |-> 0]
BlankFamily(st) == [st |-> st, version |-> 0, scopes |-> {}, since |-> 0]

\* The user may have approved the client before; the code of that consent is gone.
\* Earlier updates, bulk revocations, grant revocations and requests are over.
Init ==
    /\ client \in [exists: {TRUE}, active: {TRUE}, scopes: {Registered},
                   uri: {TRUE}, stamp: 0..MaxStamp]
    /\ user \in [version: 0..MaxVersion, deleted: {FALSE}]
    /\ begun \in 0..MaxRevokes /\ finished = begun
    /\ grant \in {None, [scopes |-> Registered, since |-> begun]}
    /\ stash \in [Requests -> {NoStash("unborn"), NoStash("spent")}]
    /\ code = [c \in Codes |-> NoRow("unborn", None)]
    /\ family = [c \in Codes |-> BlankFamily("none")]
    /\ call = [p \in Calls |-> Idle]
    /\ consent = IF grant = None THEN {} ELSE grant.scopes
    /\ replayed = {}

Return(p) == call' = [call EXCEPT ![p] = Idle]

\* FindActiveByClientID; a disabled client and an unknown one look the same.
Active == client.exists /\ client.active

\* checkScopeForClient, for a third-party client.
InRegistration(S) == S \subseteq client.scopes

\* Row locks of the grant revocations in flight: the client row is share-locked,
\* and what they have deleted cannot be written by others until they end.
Revoking == {p \in Calls : call[p].pc \in {"codes", "families"}}
GrantLocked == \E p \in Revoking : call[p].grants
CodeLocked(c) == \E p \in Revoking : c \in call[p].codes

RevokeFamilies(F) ==
    family' = [c \in Codes |-> IF c \in F /\ family[c].st = "live"
                               THEN BlankFamily("revoked") ELSE family[c]]

WithoutCodes(C) ==
    [c \in Codes |-> IF c \in C THEN NoRow("deleted", code[c].request) ELSE code[c]]

-----------------------------------------------------------------------------
(* The authorization request and its consent.                                *)

\* Authorize: the scopes must be within the registration.
Authorize(r) ==
    /\ stash[r].st = "unborn"
    /\ Active /\ client.uri
    /\ \E S \in SUBSET Optional, prompt \in BOOLEAN :
         /\ InRegistration(S)
         /\ stash' = [stash EXCEPT ![r] = [st |-> "held", scopes |-> S, prompt |-> prompt]]
    /\ UNCHANGED <<client, user, grant, code, family, call, history>>

\* The stash's TTL, or a GETDEL whose answer is lost.
ExpireRequest(r) ==
    /\ stash[r].st = "held"
    /\ stash' = [stash EXCEPT ![r] = NoStash("spent")]
    /\ UNCHANGED <<client, user, grant, code, family, call, history>>

\* Mutant: the stash is read and left to its TTL.
Peeked(r) == stash

\* GETDEL.
Spent(r) == [stash EXCEPT ![r] = NoStash("spent")]

\* Consent up to the stash: a refusal spends it too, and only reads after that.
Consent(p, r) ==
    /\ call[p].pc = "idle"
    /\ stash[r].st = "held"
    /\ stash' = Spent(r)
    /\ \E approve \in BOOLEAN :
         IF approve
         THEN call' = [call EXCEPT ![p].pc = "check", ![p].request = r,
                                 ![p].scopes = stash[r].scopes]
         ELSE UNCHANGED call
    /\ UNCHANGED <<client, user, grant, code, family, history>>

\* SilentConsent up to the grant check: reads only.
SilentConsent(p, r) ==
    /\ call[p].pc = "idle"
    /\ stash[r].st = "held" /\ ~stash[r].prompt
    /\ Active
    /\ grant # None /\ stash[r].scopes \subseteq grant.scopes
    /\ call' = [call EXCEPT ![p].pc = "consume", ![p].request = r, ![p].silent = TRUE]
    /\ UNCHANGED <<rows, history>>

\* ... and its consumption of the stash, which an interactive consent may have won.
ConsumeAuthorizeRequest(p) ==
    LET r == call[p].request  IN
    /\ call[p].pc = "consume"
    /\ IF stash[r].st = "held"
       THEN /\ stash' = Spent(r)
            /\ call' = [call EXCEPT ![p].pc = "check", ![p].scopes = stash[r].scopes]
       ELSE Return(p) /\ UNCHANGED stash
    /\ UNCHANGED <<client, user, grant, code, family, history>>

\* issueAuthorizationCode: the live registration and the user are checked again.
IssueCheck(p) ==
    /\ call[p].pc = "check"
    /\ IF /\ Active /\ client.uri
          /\ InRegistration(call[p].scopes)
          /\ ~user.deleted
       THEN call' = [call EXCEPT ![p].pc = "persist"]
       ELSE Return(p)
    /\ UNCHANGED <<rows, history>>

NewCode(p, since) ==
    [st |-> "stored", used |-> FALSE, expired |-> FALSE,
     scopes |-> call[p].scopes, request |-> call[p].request, since |-> since]

\* Codes are numbered in the order of issue.
Unissued(c) == code[c].st = "unborn" /\ \A d \in 1..(c - 1) : code[d].st # "unborn"

\* INSERT ... ON CONFLICT DO UPDATE.
UpsertedGrant(p) == [scopes |-> call[p].scopes, since |-> begun]

\* The code and the upsert of the grant, in one transaction.
CreateWithGrant(p, c) ==
    /\ call[p].pc = "persist" /\ ~call[p].silent
    /\ Unissued(c)
    /\ ~GrantLocked
    /\ IF client.exists
       THEN /\ code' = [code EXCEPT ![c] = NewCode(p, begun)]
            /\ grant' = UpsertedGrant(p)
            /\ consent' = call[p].scopes
       ELSE UNCHANGED <<code, grant, consent>>
    /\ Return(p)
    /\ UNCHANGED <<client, user, stash, family, begun, finished, replayed>>

\* The predicate of the silent path's UPDATE, evaluated under the row lock.
GrantCovers(p) == grant # None /\ call[p].scopes \subseteq grant.scopes

\* The silent path: the grant must be there and still cover the request.  The
\* code stands on the consent the grant came from, so it inherits its age.
CreateWithExistingGrant(p, c) ==
    /\ call[p].pc = "persist" /\ call[p].silent
    /\ Unissued(c)
    /\ ~GrantLocked
    /\ IF client.exists /\ GrantCovers(p)
       THEN /\ code' = [code EXCEPT ![c] = NewCode(p, grant.since)]
            /\ grant' = [grant EXCEPT !.scopes = call[p].scopes]
       ELSE UNCHANGED <<code, grant>>
    /\ Return(p)
    /\ UNCHANGED <<client, user, stash, family, history>>

-----------------------------------------------------------------------------
(* Redemption of a code at the token endpoint.                               *)

\* Time passes the code's expires_at.
ExpireCode(c) ==
    /\ code[c].st = "stored" /\ ~code[c].expired
    /\ code' = [code EXCEPT ![c].expired = TRUE]
    /\ UNCHANGED <<client, user, grant, stash, family, call, history>>

\* Retention removes a code that expired long ago.
DeleteExpiredAuthorization(c) ==
    /\ code[c].st = "stored" /\ code[c].expired
    /\ ~CodeLocked(c)
    /\ code' = WithoutCodes({c})
    /\ UNCHANGED <<client, user, grant, stash, family, call, history>>

\* authenticateClient reads the registration the scopes are compared with later.
AuthenticateClient(p, c) ==
    /\ call[p].pc = "idle"
    /\ code[c].st # "unborn"
    /\ Active
    /\ call' = [call EXCEPT ![p].pc = "redeem", ![p].code = c,
                            ![p].inScope = InRegistration(code[c].scopes)]
    /\ UNCHANGED <<rows, history>>

\* Mutant: a replay leaves the row alone.
Unfenced(c) == code

\* A replay expires the code, to fence a pair that is not written yet.
Fenced(c) == [code EXCEPT ![c].expired = TRUE]

\* Consume: gone or expired, replayed, or used by this call, which keeps the
\* user's token_version.  A wrong redirect_uri or verifier comes to light after
\* that, and the code stays burned.
Consume(p) ==
    LET c == call[p].code  IN
    /\ call[p].pc = "redeem"
    /\ ~CodeLocked(c)
    /\ \/ /\ code[c].st = "deleted" \/ (~code[c].used /\ code[c].expired)
          /\ Return(p) /\ UNCHANGED code
       \/ /\ code[c].st = "stored" /\ code[c].used
          /\ code' = Fenced(c)
          /\ call' = [call EXCEPT ![p].pc = "replay"]
       \/ /\ code[c].st = "stored" /\ ~code[c].used /\ ~code[c].expired
          /\ code' = [code EXCEPT ![c].used = TRUE]
          /\ \/ call' = [call EXCEPT ![p].pc = "verify", ![p].version = user.version]
             \/ Return(p)
    /\ UNCHANGED <<client, user, grant, stash, family, history>>

\* The checks on the user and on the scopes before the pair is built.
VerifyRedemption(p) ==
    /\ call[p].pc = "verify"
    /\ IF ~user.deleted /\ user.version = call[p].version /\ call[p].inScope
       THEN call' = [call EXCEPT ![p].pc = "pair"]
       ELSE Return(p)
    /\ UNCHANGED <<rows, history>>

\* What the pair's transaction checks under the locks of the three rows.
PairAllowed(p) ==
    LET c == call[p].code  IN
    /\ user.version = call[p].version
    /\ client.exists /\ client.active /\ code[c].scopes \subseteq client.scopes
    /\ code[c].st = "stored" /\ code[c].used /\ ~code[c].expired

\* A second pair of the family is refused by the unique (family_id, sequence).
CreatePairWithUserAndClientLock(p) ==
    LET c == call[p].code  IN
    /\ call[p].pc = "pair"
    /\ ~CodeLocked(c)
    /\ IF PairAllowed(p) /\ family[c].st = "none"
       THEN /\ family' = [family EXCEPT ![c] = [st |-> "live", version |-> call[p].version,
                                scopes |-> code[c].scopes, since |-> code[c].since]]
            /\ call' = [call EXCEPT ![p].pc = "sign"]
       ELSE Return(p) /\ UNCHANGED family
    /\ UNCHANGED <<client, user, grant, stash, code, history>>

\* The ID token; when it cannot be signed the new session is taken back.
SignIDToken(p) ==
    /\ call[p].pc = "sign"
    /\ Return(p) \/ call' = [call EXCEPT ![p].pc = "cut"]
    /\ UNCHANGED <<rows, history>>

\* revokeFamily after a replay or a failed signature; a failure is only logged.
RevokeFamily(p) ==
    LET c == call[p].code  IN
    /\ call[p].pc \in {"replay", "cut"}
    /\ \/ /\ RevokeFamilies({c})
          /\ replayed' = IF call[p].pc = "replay" THEN replayed \cup {c} ELSE replayed
       \/ UNCHANGED <<family, replayed>>
    /\ Return(p)
    /\ UNCHANGED <<client, user, grant, stash, code, begun, finished, consent>>

\* /oauth/revoke by the client that holds one of the family's tokens.
RevokeToken(c) ==
    /\ Active
    /\ family[c].st = "live"
    /\ RevokeFamilies({c})
    /\ UNCHANGED <<client, user, grant, stash, code, call, history>>

-----------------------------------------------------------------------------
(* Revocation by the user.                                                   *)

\* RevokeUserClientTokens: DELETE the grant, ...
BeginRevokeGrant(p) ==
    /\ call[p].pc = "idle"
    /\ client.exists
    /\ ~GrantLocked
    /\ begun < MaxRevokes
    /\ begun' = begun + 1
    /\ call' = [call EXCEPT ![p].pc = "codes", ![p].grants = (grant # None),
                            ![p].start = begun + 1]
    /\ UNCHANGED <<rows, finished, consent, replayed>>

StoredCodes == {c \in Codes : code[c].st = "stored"}

\* ... DELETE the codes, after the writers of those rows, ...
DeleteCodes(p) ==
    /\ call[p].pc = "codes"
    /\ \A c \in StoredCodes : ~CodeLocked(c)
    /\ call' = [call EXCEPT ![p].pc = "families", ![p].codes = StoredCodes]
    /\ UNCHANGED <<rows, history>>

\* ... revoke the families that are live now, and commit.
FinishRevokeGrant(p) ==
    /\ call[p].pc = "families"
    /\ grant' = IF call[p].grants THEN None ELSE grant
    /\ code' = WithoutCodes(call[p].codes)
    /\ RevokeFamilies(Codes)
    /\ finished' = IF call[p].start > finished THEN call[p].start ELSE finished
    /\ Return(p)
    /\ UNCHANGED <<client, user, stash, begun, consent, replayed>>

\* The transaction fails or its connection is lost.
AbortRevokeGrant(p) ==
    /\ call[p].pc \in {"codes", "families"}
    /\ Return(p)
    /\ UNCHANGED <<rows, history>>

\* The unused codes of the user, burned before the families are revoked.
Burned == [c \in Codes |-> IF code[c].st = "stored" /\ ~code[c].used /\ ~code[c].expired
                           THEN [code[c] EXCEPT !.used = TRUE] ELSE code[c]]

RevokeAllByUser(closed) ==
    /\ user.version < MaxVersion
    /\ ~user.deleted
    /\ \A c \in StoredCodes : ~code[c].used => ~CodeLocked(c)
    /\ user' = [version |-> user.version + 1, deleted |-> closed]
    /\ code' = Burned
    /\ RevokeFamilies(Codes)
    /\ UNCHANGED <<client, grant, stash, call, history>>

\* A password change or reset; a role change does the same.
UpdatePasswordAndRevokeSessions == RevokeAllByUser(FALSE)

SoftDeleteAndRevokeSessions == RevokeAllByUser(TRUE)

\* The account is reopened; what its closure revoked stays revoked.
RestoreUser ==
    /\ user.deleted
    /\ user' = [user EXCEPT !.deleted = FALSE]
    /\ UNCHANGED <<client, grant, stash, code, family, call, history>>

-----------------------------------------------------------------------------
(* The client registration.                                                  *)

RevokeAllByClient == RevokeFamilies(Codes)

\* UpdateClient reads the row its guards are evaluated against.
UpdateClient(p) ==
    /\ call[p].pc = "idle"
    /\ client.exists
    /\ client.stamp < MaxStamp
    /\ call' = [call EXCEPT ![p].pc = "update", ![p].row = client]
    /\ UNCHANGED <<rows, history>>

\* The fields of an update; each may be left out, and a renaming leaves out all.
Changes == [active: BOOLEAN \cup {Keep}, scopes: SUBSET Optional \cup {Keep},
            uri: BOOLEAN \cup {Keep}]
Given(field, value) == IF field = Keep THEN value ELSE field

\* A client that holds a capability scope keeps its redirect_uris.  (Updates are
\* the console's: others are refused more and allowed nothing more.)
CheckProtected(row, change) == row.scopes \cap CapabilityScopes # {} => change.uri = Keep

\* Nor do they change in the request that leaves it with one.
CheckCapabilityScopeGrant(row, change) ==
    Given(change.scopes, row.scopes) \cap CapabilityScopes # {} => change.uri = Keep

\* Disabled, narrowed, or given its first scope of a capability class.
RevokesTokens(row, change) ==
    LET next == Given(change.scopes, row.scopes)  IN
    \/ change.active = FALSE /\ row.active
    \/ ~(row.scopes \subseteq next)
    \/ \E class \in {Admin, User} : next \cap class # {} /\ row.scopes \cap class = {}

\* Mutant: the row is written whatever its updated_at.
AnyRow(p) == client.exists

\* The row is still the one the guards saw.
SameRow(p) == client.exists /\ client.stamp = call[p].row.stamp

\* UpdateAndRevoke: only the submitted fields are written.
UpdateAndRevoke(p) ==
    LET row == call[p].row  IN
    /\ call[p].pc = "update"
    /\ Revoking = {}
    /\ \E change \in Changes :
         IF /\ CheckProtected(row, change) /\ CheckCapabilityScopeGrant(row, change)
            /\ SameRow(p) /\ client.stamp < MaxStamp
         THEN /\ client' = [client EXCEPT !.active = Given(change.active, @),
                              !.scopes = Given(change.scopes, @),
                              !.uri = Given(change.uri, @), !.stamp = @ + 1]
              /\ IF RevokesTokens(row, change) THEN RevokeAllByClient ELSE UNCHANGED family
         ELSE UNCHANGED <<client, family>>
    /\ Return(p)
    /\ UNCHANGED <<user, grant, stash, code, history>>

\* Grants, codes, families, then the row and what cascades from it.
DeleteAndRevoke ==
    /\ client' = [client EXCEPT !.exists = FALSE]
    /\ grant' = None
    /\ code' = WithoutCodes(StoredCodes)
    /\ RevokeAllByClient

DeleteClient ==
    /\ client.exists
    /\ Revoking = {}
    /\ DeleteAndRevoke
    /\ UNCHANGED <<user, stash, call, history>>

-----------------------------------------------------------------------------
Next ==
    \/ \E r \in Requests : Authorize(r) \/ ExpireRequest(r)
    \/ \E p \in Calls, r \in Requests : Consent(p, r) \/ SilentConsent(p, r)
    \/ \E p \in Calls : ConsumeAuthorizeRequest(p) \/ IssueCheck(p)
    \/ \E p \in Calls, c \in Codes : \/ CreateWithGrant(p, c)
                                     \/ CreateWithExistingGrant(p, c)
                                     \/ AuthenticateClient(p, c)
    \/ \E c \in Codes : \/ ExpireCode(c)
                        \/ DeleteExpiredAuthorization(c)
                        \/ RevokeToken(c)
    \/ \E p \in Calls : \/ Consume(p)
                        \/ VerifyRedemption(p)
                        \/ CreatePairWithUserAndClientLock(p)
                        \/ SignIDToken(p)
                        \/ RevokeFamily(p)
    \/ \E p \in Calls : \/ BeginRevokeGrant(p)
                        \/ DeleteCodes(p)
                        \/ FinishRevokeGrant(p)
                        \/ AbortRevokeGrant(p)
    \/ UpdatePasswordAndRevokeSessions
    \/ SoftDeleteAndRevokeSessions
    \/ RestoreUser
    \/ \E p \in Calls : UpdateClient(p) \/ UpdateAndRevoke(p)
    \/ DeleteClient

Spec == Init /\ [][Next]_vars

-----------------------------------------------------------------------------
(* Properties.                                                               *)

\* What a grant revocation found is gone when it has committed: no grant, no
\* stored code and no live family stands on a consent older than its start,
\* whatever consents, silent consents and redemptions were in flight.
RevokeIsFinal ==
    /\ grant # None => grant.since >= finished
    /\ \A c \in Codes : /\ code[c].st = "stored" => code[c].since >= finished
                        /\ family[c].st = "live" => family[c].since >= finished

\* An application never holds a redeemable code without being in the user's
\* list of authorized applications.
GrantBacksCode ==
    \A c \in Codes : code[c].st = "stored" /\ ~code[c].used /\ ~code[c].expired
                        => grant # None

\* A silent authorization never widens a grant beyond what the user approved
\* last, even when an interactive consent narrowed it in between.
GrantWithinConsent == grant # None => grant.scopes \subseteq consent

\* A request that was authorized once yields at most one code, although the
\* consent page and the silent path may both be working on it.
OneCodePerRequest ==
    \A c, d \in Codes : c # d /\ code[c].st # "unborn" /\ code[d].st # "unborn"
                            => code[c].request # code[d].request

\* Once a replay has revoked the code's family, that family is not live, even
\* when the replay came before the first redemption wrote its pair.
ReplayEndsFamily == \A c \in replayed : family[c].st # "live"

\* A live family was issued at the user's present token_version: no redemption
\* outlives a password change, role change or account close that it overlapped.
LiveFamilyIsCurrent ==
    \A c \in Codes : family[c].st = "live" => family[c].version = user.version

\* A live family belongs to an active client whose registration still has all
\* of its scopes: no redemption slips past a disabling, narrowing or deletion.
LiveFamilyIsRegistered ==
    \A c \in Codes : family[c].st = "live"
        => client.exists /\ client.active /\ family[c].scopes \subseteq client.scopes

\* The redirect_uris never change while the registration holds a capability
\* scope, nor together with the granting of one.
CapabilityPinsRedirects ==
    [][client'.uri # client.uri
        => (client.scopes \cup client'.scopes) \cap CapabilityScopes = {}]_vars

\* What a user consented to bounds what an application is given: the grant, the codes
\* on it and the requests they came from agree, whoever else was authorizing.
ConsentIsKept == TypeOK /\ GrantBacksCode /\ GrantWithinConsent /\ OneCodePerRequest

\* What takes access away reaches every family, also one whose redemption was in
\* flight: grant revocation, replay, bulk revocation and changes of the registration.
RevocationReaches ==
    RevokeIsFinal /\ ReplayEndsFamily /\ LiveFamilyIsCurrent /\ LiveFamilyIsRegistered
=============================================================================
