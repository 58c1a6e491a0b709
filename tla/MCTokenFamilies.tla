--------------------------- MODULE MCTokenFamilies ---------------------------
(***************************************************************************)
(* How access is given and taken away: the token families of the session   *)
(* endpoints, and the grants, codes and registration behind the families   *)
(* of a third-party client.  The codes' families are OAuthGrants' own, so  *)
(* the two share no state, and each behaviour wakes one.                   *)
(*                                                                         *)
(* Rotation: two requests on one internal family.  Grants: two calls and   *)
(* two codes, on two requests with revocations, or on one with updates of  *)
(* the registration.                                                       *)
(***************************************************************************)
EXTENDS TokenFamilies, FiniteSets, TLC

CONSTANTS
    u1, u2, f1, f2, p1, p2,
    Pending, Optional, Admin, User, Registered, Keep, None,
    MaxCodes, MaxBulk, MaxStamp, MaxRevokes

VARIABLES
    part,   \* which of the two is awake
    client, user, grant, stash, code, family, call, begun, finished, consent, replayed

grantVars == <<client, user, grant, stash, code, family, call, begun, finished, consent, replayed>>

Grants == INSTANCE OAuthGrants WITH Calls <- Requests, Requests <- Pending, MaxVersion <- MaxBulk

\* How much is still ahead: n requests, and whether grant revocations, bulk
\* revocations of the user and updates of the client are.
Ahead(n, revokes, bulk, updates) ==
    /\ Cardinality({r \in Pending : stash[r].st = "unborn"}) = n
    /\ begun = IF revokes THEN 0 ELSE MaxRevokes
    /\ user.version = IF bulk THEN 0 ELSE MaxBulk
    /\ client.stamp = IF updates THEN 0 ELSE MaxStamp

MCInit ==
    /\ part \in {"rotation", "grants"}
    /\ Init /\ Grants!Init
    /\ IF part = "grants"
       THEN \/ Ahead(Cardinality(Pending), TRUE, TRUE, FALSE)
            \/ Ahead(1, FALSE, FALSE, TRUE)
       ELSE Ahead(0, FALSE, FALSE, FALSE) /\ grant = None

MCNext ==
    /\ UNCHANGED part
    /\ \/ part = "rotation" /\ Next /\ UNCHANGED grantVars
       \/ part = "grants" /\ Grants!Next /\ UNCHANGED vars

MCSpec == MCInit /\ [][MCNext]_<<part, vars, grantVars>>

Symmetry == Permutations(Requests) \union Permutations(Pending)

-----------------------------------------------------------------------------
(* The properties of the grants, under their own names. *)

\* Grants, codes and requests stay within the user's last consent.
ConsentIsKept == Grants!ConsentIsKept

\* No family in flight escapes a revocation, a replay or a narrowed registration.
RevocationReaches == Grants!RevocationReaches

\* The callbacks of a client with a capability scope never move.
CapabilityPinsRedirects == Grants!CapabilityPinsRedirects
=============================================================================
