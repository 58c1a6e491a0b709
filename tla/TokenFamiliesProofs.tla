------------------------- MODULE TokenFamiliesProofs -------------------------
(***************************************************************************)
(* The properties of TokenFamilies for every set of users, families and    *)
(* requests and every setting of the clocks.                               *)
(***************************************************************************)
EXTENDS TokenFamilies, TLAPS

(* What a request in flight may rely on.  The version it signed is stale only    *)
(* if its token is dead too; nothing older than the token it presented can be    *)
(* rotated into that token's place; and a token it found live was revoked, if at *)
(* all, after it was found.                                                      *)
RequestOK(r) ==
    /\ r.since <= now
    /\ r.pc \in {"login", "redeem"} => r.user \in Users
    /\ r.pc \in {"found", "issued", "cut"} =>
            r.fam \in Families /\ owner[r.fam] # NoUser
    /\ r.pc = "issued" /\ Unrevoked(r.fam, r.seq) => r.ver = version[owner[r.fam]]
    /\ r.pc \in {"found", "issued"} =>
            /\ \A t \in Seqs : t < r.seq => ~Unrevoked(r.fam, t)
            /\ refresh[r.fam][r.seq].present /\ refresh[r.fam][r.seq].revoked
                    => r.since <= refresh[r.fam][r.seq].revokedAt

RequestsOK == \A p \in Requests : RequestOK(req[p])

(* A family without an owner has no rows. *)
UnopenedIsEmpty ==
    \A f \in Families, s \in Seqs :
        owner[f] = NoUser => ~refresh[f][s].present /\ ~access[f][s].present

(* Retention keeps the origin of every family that can still be refreshed. *)
OriginKept ==
    \A f \in Families, s \in Seqs :
        Unrevoked(f, s) /\ refresh[f][s].expires + RefreshAge > now
        => refresh[f][0].present /\ refresh[f][0].created = born[f]

Inv ==
    /\ TypeOK
    /\ RequestsOK
    /\ UnopenedIsEmpty
    /\ LiveIsNewest
    /\ CutIsWhole
    /\ LiveAccessIsCurrent
    /\ OriginKept

-----------------------------------------------------------------------------
(* Sequences are numbers, and every family has room for its origin. *)
LEMMA SeqsFacts == Seqs \subseteq Nat /\ 0 \in Seqs
BY BoundAssumption DEF Seqs

(* A pair is live when it is written. *)
LEMMA NewRowFields ==
    ASSUME NEW v, NEW at, NEW e
    PROVE  /\ NewAccess(v, e).expires = e
           /\ NewRefresh(at, e).expires = e
           /\ NewRefresh(at, e).present /\ ~NewRefresh(at, e).revoked
BY Zenon DEF NewAccess, NewRefresh

(* The initial state has no rows and no request. *)
LEMMA InitInv == Init => Inv
<1> SUFFICES ASSUME Init PROVE Inv
    BY Zenon
<1>1. TypeOK
    BY SeqsFacts, TimeAssumption, Zenon DEF Init, TypeOK, AccessRow, RefreshRow, NoAccess,
        NoRefresh, Request, Idle, PCs
<1>2. RequestsOK
    BY DEF Init, RequestsOK, RequestOK, Idle
<1>3. UnopenedIsEmpty /\ LiveIsNewest /\ CutIsWhole /\ LiveAccessIsCurrent
        /\ OriginKept
    BY SeqsFacts, Zenon DEF Init, UnopenedIsEmpty, LiveIsNewest, CutIsWhole,
        LiveAccessIsCurrent, OriginKept, Unrevoked, FamilyHasRevokedAccess, Alive,
        NoAccess, NoRefresh
<1> QED BY <1>1, <1>2, <1>3, Zenon DEF Inv

-----------------------------------------------------------------------------
(* What the writes do to a row. *)

(* Cut changes no row but to revoke it, leaves no usable row in the families it  *)
(* names, and dates the revocations it makes now.                                *)
LEMMA CutFacts ==
    ASSUME TypeOK, NEW F, NEW why \in BOOLEAN, Cut(F, why)
    PROVE  /\ access' \in [Families -> [Seqs -> AccessRow]]
           /\ refresh' \in [Families -> [Seqs -> RefreshRow]]
           /\ \A f \in Families, s \in Seqs :
                /\ access'[f][s].present = access[f][s].present
                /\ access'[f][s].ver = access[f][s].ver
                /\ access'[f][s].expires = access[f][s].expires
                /\ f \notin F => access'[f][s] = access[f][s]
                /\ f \in F => access'[f][s].revoked = access[f][s].present
           /\ \A f \in Families, s \in Seqs :
                /\ refresh'[f][s].present = refresh[f][s].present
                /\ refresh'[f][s].created = refresh[f][s].created
                /\ refresh'[f][s].expires = refresh[f][s].expires
                /\ refresh[f][s].revoked => refresh'[f][s] = refresh[f][s]
                /\ f \notin F => refresh'[f][s] = refresh[f][s]
                /\ f \in F /\ refresh[f][s].present => refresh'[f][s].revoked
                /\ ~refresh[f][s].revoked /\ refresh'[f][s].revoked
                        => refresh'[f][s].revokedAt = now
<1>1. \A f \in Families, s \in Seqs :
        access[f][s] \in AccessRow /\ refresh[f][s] \in RefreshRow
    BY Zenon DEF TypeOK
<1>2. \A r \in AccessRow :
        /\ RevokeAccess(r) \in AccessRow
        /\ RevokeAccess(r).present = r.present
        /\ RevokeAccess(r).ver = r.ver
        /\ RevokeAccess(r).expires = r.expires
        /\ RevokeAccess(r).revoked = r.present
    BY Zenon DEF RevokeAccess, AccessRow
<1>3. \A r \in RefreshRow :
        /\ RevokeRefresh(r, why) \in RefreshRow
        /\ RevokeRefresh(r, why).present = r.present
        /\ RevokeRefresh(r, why).created = r.created
        /\ RevokeRefresh(r, why).expires = r.expires
        /\ r.revoked => RevokeRefresh(r, why) = r
        /\ r.present => RevokeRefresh(r, why).revoked
        /\ ~r.revoked /\ RevokeRefresh(r, why).revoked
                => RevokeRefresh(r, why).revokedAt = now
    BY Zenon DEF RevokeRefresh, RefreshRow, TypeOK
<1>4. \A f \in Families, s \in Seqs :
        /\ access'[f][s] = IF f \in F THEN RevokeAccess(access[f][s]) ELSE access[f][s]
        /\ refresh'[f][s] = IF f \in F THEN RevokeRefresh(refresh[f][s], why)
                                       ELSE refresh[f][s]
    BY Zenon DEF Cut
<1>5. /\ access' \in [Families -> [Seqs -> AccessRow]]
      /\ refresh' \in [Families -> [Seqs -> RefreshRow]]
    BY <1>1, <1>2, <1>3, Zenon DEF Cut, TypeOK
<1> QED BY <1>1, <1>2, <1>3, <1>4, <1>5

-----------------------------------------------------------------------------
(* Inv is preserved by each kind of write. *)

(* A step that writes no token row and no version, and whose requests are        *)
(* unchanged, finished, or have just read what RequestOK says.                   *)
LEMMA QuietInv ==
    ASSUME Inv, UNCHANGED tokens, UNCHANGED version,
           now' \in Nat, now <= now', cap' \in Nat, closed' \in [Users -> BOOLEAN],
           req' \in [Requests -> Request],
           \A p \in Requests :
               req'[p] = req[p] \/ req'[p] = Idle \/ RequestOK(req'[p])
    PROVE  Inv'
<1>1. TypeOK'
    BY Zenon DEF Inv, TypeOK, tokens
<1>2. ASSUME NEW r \in Request, RequestOK(r)
      PROVE  RequestOK(r)'
    <2>1. r.since <= now'
        BY <1>2 DEF Inv, TypeOK, Request, RequestOK
    <2>2. UNCHANGED <<owner, refresh, version>>
        BY Zenon DEF tokens
    <2> QED BY <1>2, <2>1, <2>2, Zenon DEF RequestOK, Unrevoked
<1>3. RequestsOK'
    <2> SUFFICES ASSUME NEW p \in Requests PROVE RequestOK(req[p])'
        BY Zenon DEF RequestsOK
    <2>1. CASE req'[p] = Idle
        BY <2>1, SeqsFacts DEF RequestOK, Idle, TypeOK, Inv
    <2>2. CASE req'[p] = req[p] \/ RequestOK(req'[p])
        BY <2>2, <1>2, ZenonT(60) DEF Inv, RequestsOK, RequestOK, Unrevoked
    <2> QED BY <2>1, <2>2, Zenon
<1>4. UnopenedIsEmpty' /\ LiveIsNewest' /\ CutIsWhole' /\ LiveAccessIsCurrent'
    BY Zenon DEF Inv, tokens, UnopenedIsEmpty, LiveIsNewest, CutIsWhole, LiveAccessIsCurrent,
        Unrevoked, Alive, FamilyHasRevokedAccess
<1>5. OriginKept'
    BY SeqsFacts, TimeAssumption DEF Inv, TypeOK, RefreshRow, tokens, OriginKept, Unrevoked
<1> QED BY <1>1, <1>3, <1>4, <1>5, Zenon DEF Inv

(* A step that cuts the families F, and that changes the version of a user only  *)
(* if F holds all of that user's families.                                       *)
LEMMA CutInv ==
    ASSUME Inv, NEW F, NEW why \in BOOLEAN, Cut(F, why),
           UNCHANGED <<now, cap, owner, born>>,
           closed' \in [Users -> BOOLEAN], version' \in [Users -> Nat],
           \A u \in Users : version'[u] = version[u] \/ FamiliesOf(u) \subseteq F,
           req' \in [Requests -> Request],
           \A p \in Requests : req'[p] = req[p] \/ req'[p] = Idle
    PROVE  Inv'
<1> USE SeqsFacts, IdAssumption
<1>0. TypeOK
    BY Zenon DEF Inv
<1>c. /\ \A f \in Families, s \in Seqs :
            /\ access'[f][s].present = access[f][s].present
            /\ f \notin F => access'[f][s] = access[f][s]
            /\ f \in F => access'[f][s].revoked = access[f][s].present
      /\ \A f \in Families, s \in Seqs :
            /\ refresh'[f][s].present = refresh[f][s].present
            /\ refresh'[f][s].created = refresh[f][s].created
            /\ refresh[f][s].revoked => refresh'[f][s] = refresh[f][s]
            /\ f \notin F => refresh'[f][s] = refresh[f][s]
            /\ f \in F /\ refresh[f][s].present => refresh'[f][s].revoked
            /\ ~refresh[f][s].revoked /\ refresh'[f][s].revoked
                    => refresh'[f][s].revokedAt = now
    BY <1>0, CutFacts
<1>1. TypeOK'
    BY <1>0, CutFacts DEF TypeOK
<1>2. ASSUME NEW f \in Families, NEW s \in Seqs, Unrevoked(f, s)'
      PROVE  Unrevoked(f, s) /\ f \notin F /\ refresh'[f][s] = refresh[f][s]
    BY <1>0, <1>2, <1>c, Zenon DEF Unrevoked
<1>3. ASSUME NEW f \in Families, owner[f] # NoUser, f \notin F
      PROVE  version'[owner[f]] = version[owner[f]]
    BY <1>0, <1>3, Zenon DEF TypeOK, FamiliesOf
<1>4. RequestsOK'
    <2> SUFFICES ASSUME NEW p \in Requests PROVE RequestOK(req[p])'
        BY Zenon DEF RequestsOK
    <2>1. CASE req'[p] = Idle
        BY <2>1, <1>0 DEF RequestOK, Idle, TypeOK
    <2>2. CASE req'[p] = req[p] /\ req[p].pc \in {"found", "issued"}
        <3>0. RequestOK(req[p]) /\ req[p] \in Request
            BY <1>0, Zenon DEF Inv, RequestsOK, TypeOK
        <3>1. PICK f \in Families, s \in Seqs :
                f = req[p].fam /\ s = req[p].seq /\ owner[f] # NoUser
            BY <2>2, <3>0, Zenon DEF RequestOK, Request
        <3>2. refresh[f][s].present /\ refresh'[f][s].revoked
                => req[p].since <= refresh'[f][s].revokedAt
            <4>1. CASE refresh[f][s].revoked
                <5>1. refresh'[f][s] = refresh[f][s]
                    BY <4>1, <1>c, Zenon
                <5> QED BY <2>2, <3>0, <3>1, <4>1, <5>1, Zenon DEF RequestOK
            <4>2. CASE ~refresh[f][s].revoked
                <5>1. refresh'[f][s].revoked => refresh'[f][s].revokedAt = now
                    BY <4>2, <1>c
                <5> QED BY <3>0, <5>1, Zenon DEF RequestOK
            <4> QED BY <4>1, <4>2, Zenon
        <3>3. Unrevoked(f, s)' /\ req[p].pc = "issued" => req[p].ver = version'[owner[f]]
            BY <1>2, <1>3, <3>0, <3>1, <2>2, Zenon DEF RequestOK
        <3>4. \A t \in Seqs : t < s => ~Unrevoked(f, t)'
            BY <1>2, <3>0, <3>1, <2>2, Zenon DEF RequestOK
        <3>5. refresh'[f][s].present = refresh[f][s].present
            BY <1>c, Zenon
        <3> QED BY <2>2, <3>0, <3>1, <3>2, <3>3, <3>4, <3>5, Zenon DEF RequestOK, Unrevoked
    <2>3. CASE req'[p] = req[p] /\ req[p].pc \notin {"found", "issued"}
        BY <2>3, Zenon DEF Inv, RequestsOK, RequestOK
    <2> QED BY <2>1, <2>2, <2>3, Zenon
<1>5. UnopenedIsEmpty' /\ LiveIsNewest'
    BY <1>0, <1>2, <1>c DEF Inv, UnopenedIsEmpty, LiveIsNewest
<1>6. CutIsWhole'
    BY <1>0, <1>2, <1>c DEF Inv, CutIsWhole, Alive, FamilyHasRevokedAccess
<1>7. LiveAccessIsCurrent'
    <2> SUFFICES ASSUME NEW f \in Families, NEW s \in Seqs,
                        access'[f][s].present, ~access'[f][s].revoked,
                        s > 0 \/ f \in Capability
                 PROVE  access'[f][s].ver = version'[owner[f]]
        BY Zenon DEF LiveAccessIsCurrent
    <2>1. f \notin F /\ access'[f][s] = access[f][s]
        BY <1>0, <1>c
    <2>2. owner[f] # NoUser
        BY <2>1, Zenon DEF Inv, UnopenedIsEmpty
    <2>3. access[f][s].ver = version[owner[f]]
        BY <2>1, Zenon DEF Inv, LiveAccessIsCurrent
    <2>4. version'[owner[f]] = version[owner[f]]
        BY <2>1, <2>2, <1>3, Zenon
    <2> QED BY <2>1, <2>3, <2>4, Zenon
<1>8. OriginKept'
    BY <1>0, <1>2, <1>c DEF Inv, OriginKept
<1> QED BY <1>1, <1>4, <1>5, <1>6, <1>7, <1>8, Zenon DEF Inv

(* A login or a redemption opens a family: sequence 0 is its only row, and a     *)
(* capability family is opened under its owner's current version.                *)
LEMMA CreateInv ==
    ASSUME Inv, NEW f \in Families, NEW u \in Users, NEW v \in Nat, NEW at \in Nat,
           CreatePair(f, u, v, at), f \in Capability => v = version[u],
           UNCHANGED <<now, cap, version, closed>>,
           req' \in [Requests -> Request],
           \A p \in Requests : req'[p] = req[p] \/ req'[p] = Idle
    PROVE  Inv'
<1> USE SeqsFacts, IdAssumption
<1> DEFINE newAccess == access'[f][0]
           newRefresh == refresh'[f][0]
<1>0. TypeOK /\ owner[f] = NoUser
    BY Zenon DEF Inv, CreatePair
<1>1. FirstTTL(AccessTTL, f) \in Nat /\ FirstTTL(RefreshTTL, f) \in Nat
    BY <1>0, TimeAssumption, Zenon DEF FirstTTL, Lifetime, Least, TypeOK
<1>2. /\ NewAccess(v, at + FirstTTL(AccessTTL, f)) \in AccessRow
      /\ NewRefresh(at, at + FirstTTL(RefreshTTL, f)) \in RefreshRow
    BY <1>1 DEF NewAccess, NewRefresh, AccessRow, RefreshRow
<1>3. TypeOK'
    BY <1>0, <1>2, Zenon DEF TypeOK, CreatePair
<1>4. /\ newAccess = NewAccess(v, at + FirstTTL(AccessTTL, f))
      /\ newRefresh = NewRefresh(at, at + FirstTTL(RefreshTTL, f))
      /\ owner'[f] = u /\ born'[f] = at
    BY <1>0, Zenon DEF CreatePair, TypeOK
<1>5. \A g \in Families, s \in Seqs : g # f \/ s # 0 =>
        access'[g][s] = access[g][s] /\ refresh'[g][s] = refresh[g][s]
    BY <1>0, Zenon DEF CreatePair, TypeOK
<1>6. \A g \in Families : g # f => owner'[g] = owner[g] /\ born'[g] = born[g]
    BY <1>0, Zenon DEF CreatePair, TypeOK
<1>7. \A s \in Seqs : s # 0 => ~access'[f][s].present /\ ~refresh'[f][s].present
    BY <1>0, <1>5, Zenon DEF Inv, UnopenedIsEmpty
<1>8. /\ newRefresh.present /\ ~newRefresh.revoked /\ newRefresh.created = at
      /\ newAccess.present /\ ~newAccess.revoked /\ newAccess.ver = v
    BY <1>4 DEF NewAccess, NewRefresh
<1>9. RequestsOK'
    <2> SUFFICES ASSUME NEW p \in Requests PROVE RequestOK(req[p])'
        BY Zenon DEF RequestsOK
    <2>1. CASE req'[p] = Idle
        BY <2>1, <1>0 DEF RequestOK, Idle, TypeOK
    <2>2. CASE req'[p] = req[p]
        <3>1. RequestOK(req[p]) /\ req[p] \in Request
            BY <1>0, Zenon DEF Inv, RequestsOK, TypeOK
        <3>2. req[p].pc \in {"found", "issued", "cut"} =>
                req[p].fam \in Families /\ req[p].fam # f
            BY <3>1, <1>0, Zenon DEF RequestOK
        <3>3. CASE req[p].pc \in {"found", "issued", "cut"}
            <4>1. PICK g \in Families, s \in Seqs : g = req[p].fam /\ s = req[p].seq
                BY <3>1, <3>2, <3>3, Zenon DEF Request
            <4>2. owner'[g] = owner[g] /\ \A t \in Seqs : refresh'[g][t] = refresh[g][t]
                BY <4>1, <3>2, <3>3, <1>5, <1>6, Zenon
            <4>3. UNCHANGED <<now, version>>
                BY Zenon
            <4>4. \A t \in Seqs : Unrevoked(g, t)' = Unrevoked(g, t)
                BY <4>2, Zenon DEF Unrevoked
            <4> QED BY <2>2, <3>1, <4>1, <4>2, <4>3, <4>4, ZenonT(60) DEF RequestOK
        <3>4. CASE req[p].pc \notin {"found", "issued", "cut"}
            BY <2>2, <3>1, <3>4, Zenon DEF RequestOK
        <3> QED BY <3>3, <3>4, Zenon
    <2> QED BY <2>1, <2>2, Zenon
<1>10. UnopenedIsEmpty'
    <2> SUFFICES ASSUME NEW g \in Families, NEW s \in Seqs, owner'[g] = NoUser
                 PROVE  ~refresh'[g][s].present /\ ~access'[g][s].present
        BY Zenon DEF UnopenedIsEmpty
    <2>1. g # f
        BY <1>4, Zenon
    <2>2. owner[g] = NoUser /\ access'[g][s] = access[g][s] /\ refresh'[g][s] = refresh[g][s]
        BY <2>1, <1>5, <1>6, Zenon
    <2> QED BY <2>2, Zenon DEF Inv, UnopenedIsEmpty
<1>11. LiveIsNewest'
    BY <1>5, <1>7 DEF Inv, LiveIsNewest, Unrevoked
<1>12. CutIsWhole'
    BY <1>5, <1>7, <1>8 DEF Inv, CutIsWhole, FamilyHasRevokedAccess, Alive, Unrevoked
<1>13. LiveAccessIsCurrent'
    BY <1>4, <1>5, <1>6, <1>7, <1>8 DEF Inv, LiveAccessIsCurrent
<1>14. OriginKept'
    BY <1>4, <1>5, <1>6, <1>7, <1>8 DEF Inv, OriginKept, Unrevoked
<1> QED BY <1>3, <1>9, <1>10, <1>11, <1>12, <1>13, <1>14, Zenon DEF Inv

(* A committed rotation of the token s of family f by request p. *)
Rotated(p, f, s, at, ea, er) ==
    /\ f = req[p].fam /\ s = req[p].seq /\ s + 1 \in Seqs
    /\ owner[f] # NoUser /\ owner[f] \in Users
    /\ Unrevoked(f, s) /\ req[p].ver = version[owner[f]]
    /\ ~FamilyHasRevokedAccess(f)
    /\ access' = [access EXCEPT ![f] = [@ EXCEPT ![s + 1] = NewAccess(req[p].ver, ea)]]
    /\ refresh' = [refresh EXCEPT ![f] = [@ EXCEPT
            ![s] = RotateAway(refresh[f][s]),
            ![s + 1] = NewRefresh(at, er)]]
    /\ refresh[f][0].present /\ refresh[f][0].created = born[f]
    /\ Lifetime(f) > 0 => ea <= born[f] + Lifetime(f) /\ er <= born[f] + Lifetime(f)

(* What a committed rotation writes, and the origin it dates the family by: the  *)
(* row retention kept is sequence 0, so both expiries stay inside the cap.       *)
LEMMA RotateFacts ==
    ASSUME Inv, NEW p \in Requests, RotateCommit(p)
    PROVE  \E f \in Families, s \in Seqs, at \in Nat, ea \in Nat, er \in Nat :
                Rotated(p, f, s, at, ea, er)
<1> DEFINE f == req[p].fam
           s == req[p].seq
<1> USE SeqsFacts
<1>1. /\ TypeOK /\ RequestOK(req[p]) /\ req[p] \in Request /\ req[p].pc = "issued"
    BY Zenon DEF Inv, RequestsOK, TypeOK, RotateCommit, RotateLive
<1>2. /\ f \in Families /\ s \in Seqs /\ owner[f] # NoUser /\ owner[f] \in Users
    BY <1>1, Zenon DEF RequestOK, Request, TypeOK
<1>3. /\ Unrevoked(f, s) /\ refresh[f][s].expires > now /\ s < MaxSeq
      /\ ~FamilyHasRevokedAccess(f)
    BY Zenon DEF RotateCommit, RotateLive, Current, Unrevoked
<1>4. s + 1 \in Seqs
    BY <1>2, <1>3, BoundAssumption DEF Seqs
<1>5. req[p].ver = version[owner[f]]
    BY <1>1, <1>3, Zenon DEF RequestOK
<1>6. refresh[f] \in [Seqs -> RefreshRow] /\ access[f] \in [Seqs -> AccessRow]
        /\ now \in Nat /\ cap \in Nat /\ req[p].since \in Nat
    BY <1>1, <1>2, Zenon DEF TypeOK, Request
<1>7. refresh[f][0].present /\ refresh[f][0].created = born[f]
    <2>1. refresh[f][s].expires \in Nat
        BY <1>2, <1>6, Zenon DEF RefreshRow
    <2>2. refresh[f][s].expires + RefreshAge > now
        BY <2>1, <1>3, <1>6, TimeAssumption
    <2> QED BY <2>2, <1>2, <1>3, Zenon DEF Inv, OriginKept
<1>8. PICK o \in Seqs, at \in req[p].since..now :
        LET origin == refresh[f][o].created  IN
        /\ IsOrigin(f, o)
        /\ Lifetime(f) > 0 => origin + Lifetime(f) > now
        /\ access' = [access EXCEPT ![f][s + 1] =
                NewAccess(req[p].ver, Clamp(SignedExpiry(p, at), f, origin))]
        /\ refresh' = [refresh EXCEPT
                ![f] = [@ EXCEPT
                    ![s] = RotateAway(refresh[f][s]),
                    ![s + 1] = NewRefresh(at, Clamp(at + RefreshTTL, f, origin))]]
    BY Zenon DEF RotateCommit
<1>9. o = 0 /\ at \in Nat
    <2>1. o <= 0
        BY <1>7, <1>8, Zenon DEF IsOrigin
    <2>2. at \in Nat
        BY <1>6
    <2> QED BY <2>1, <2>2
<1>10. born[f] \in Nat /\ Lifetime(f) \in Nat
    BY <1>1, <1>2, Zenon DEF TypeOK, Lifetime
<1>11. SignedExpiry(p, at) \in Nat /\ at + RefreshTTL \in Nat
    <2>1. refresh[f][s].expires \in Nat
        BY <1>2, <1>6, Zenon DEF RefreshRow
    <2>2. at + AccessTTL \in Nat /\ at + RefreshTTL \in Nat
        BY <1>9, TimeAssumption
    <2> QED BY <2>1, <2>2, Zenon DEF SignedExpiry, Least, Current
<1>12. \A e \in Nat :
        /\ Clamp(e, f, born[f]) \in Nat
        /\ Lifetime(f) > 0 => Clamp(e, f, born[f]) <= born[f] + Lifetime(f)
    BY <1>10 DEF Clamp, Least
<1>13. /\ at \in Nat
       /\ Clamp(SignedExpiry(p, at), f, born[f]) \in Nat
       /\ Clamp(at + RefreshTTL, f, born[f]) \in Nat
    BY <1>9, <1>11, <1>12, Zenon
<1>14. Rotated(p, f, s, at, Clamp(SignedExpiry(p, at), f, born[f]),
                Clamp(at + RefreshTTL, f, born[f]))
    BY <1>2, <1>3, <1>4, <1>5, <1>7, <1>8, <1>9, <1>11, <1>12, Zenon DEF Rotated
<1> QED BY <1>2, <1>13, <1>14, Zenon

(* A committed rotation moves the one usable token of a family to its successor. *)
LEMMA RotateInv ==
    ASSUME Inv, NEW p \in Requests, RotateCommit(p)
    PROVE  Inv'
<1> USE SeqsFacts
<1>1. PICK f \in Families, s \in Seqs, at \in Nat, ea \in Nat, er \in Nat :
            Rotated(p, f, s, at, ea, er)
    BY RotateFacts, Zenon
<1>2. TypeOK /\ req[p] \in Request
    BY Zenon DEF Inv, TypeOK
<1>3. /\ UNCHANGED <<now, cap, version, closed, owner, born>>
      /\ req' = [req EXCEPT ![p] = Idle]
    BY Zenon DEF RotateCommit, accounts, Finish
<1>4. /\ f = req[p].fam /\ s + 1 \in Seqs /\ owner[f] # NoUser
      /\ Unrevoked(f, s) /\ req[p].ver = version[owner[f]]
      /\ ~FamilyHasRevokedAccess(f)
      /\ refresh[f][0].present /\ refresh[f][0].created = born[f]
    BY <1>1, Zenon DEF Rotated
<1> DEFINE na == NewAccess(req[p].ver, ea)
           nr == NewRefresh(at, er)
           old == RotateAway(refresh[f][s])
<1>5. /\ na \in AccessRow /\ na.present /\ ~na.revoked /\ na.ver = version[owner[f]]
      /\ nr \in RefreshRow /\ nr.present /\ ~nr.revoked
    BY <1>2, <1>4, Zenon DEF NewAccess, NewRefresh, AccessRow, RefreshRow, Request
<1>6. /\ old \in RefreshRow /\ old.present /\ old.revoked /\ old.revokedAt = now
      /\ old.created = refresh[f][s].created
    <2>1. refresh[f][s] \in RefreshRow /\ refresh[f][s].present /\ now \in Nat
        BY <1>2, <1>4, Zenon DEF TypeOK, Unrevoked
    <2> QED BY <2>1, Zenon DEF RotateAway, RefreshRow
<1> HIDE DEF na, nr, old
<1>7. /\ access' = [access EXCEPT ![f] = [@ EXCEPT ![s + 1] = na]]
      /\ refresh' = [refresh EXCEPT ![f] = [@ EXCEPT ![s] = old, ![s + 1] = nr]]
    BY <1>1, Zenon DEF Rotated, na, nr, old
<1>8. /\ \A g \in Families, t \in Seqs :
            access'[g][t] = IF g = f /\ t = s + 1 THEN na ELSE access[g][t]
      /\ \A g \in Families, t \in Seqs :
            refresh'[g][t] = IF g = f /\ t = s + 1 THEN nr
                             ELSE IF g = f /\ t = s THEN old ELSE refresh[g][t]
    BY <1>2, <1>4, <1>7, Zenon DEF TypeOK
<1>9. TypeOK'
    <2>1. access' \in [Families -> [Seqs -> AccessRow]]
        BY <1>2, <1>4, <1>5, <1>7, Zenon DEF TypeOK
    <2>2. refresh' \in [Families -> [Seqs -> RefreshRow]]
        BY <1>2, <1>4, <1>5, <1>6, <1>7, Zenon DEF TypeOK
    <2>3. req' \in [Requests -> Request]
        BY <1>2, <1>3, Zenon DEF TypeOK, Idle, Request, PCs
    <2> QED BY <2>1, <2>2, <2>3, <1>2, <1>3, Zenon DEF TypeOK
<1>10. \A t \in Seqs : t # s + 1 => ~Unrevoked(f, t)'
    <2> SUFFICES ASSUME NEW t \in Seqs, t # s + 1, t # s, Unrevoked(f, t) PROVE FALSE
        BY <1>6, <1>8, Zenon DEF Unrevoked
    <2>1. t < s \/ s < t
        OBVIOUS
    <2> QED BY <1>4, <2>1, Zenon DEF Inv, LiveIsNewest, Unrevoked
<1>11. \A t \in Seqs : s + 1 < t => ~refresh'[f][t].present /\ ~access'[f][t].present
    <2> SUFFICES ASSUME NEW t \in Seqs, s + 1 < t
                 PROVE  ~refresh'[f][t].present /\ ~access'[f][t].present
        BY Zenon
    <2>1. s < t /\ t # s /\ t # s + 1
        OBVIOUS
    <2>2. ~refresh[f][t].present /\ ~access[f][t].present
        BY <2>1, <1>4, Zenon DEF Inv, LiveIsNewest
    <2> QED BY <2>1, <2>2, <1>8, Zenon
<1>12. \A g \in Families, t \in Seqs : g # f => Unrevoked(g, t)' = Unrevoked(g, t)
    BY <1>8, Zenon DEF Unrevoked
<1>13. RequestsOK'
    <2> SUFFICES ASSUME NEW q \in Requests PROVE RequestOK(req[q])'
        BY Zenon DEF RequestsOK
    <2>1. CASE q = p
        <3>1. req'[q] = Idle /\ 0 <= now'
            BY <2>1, <1>2, <1>3 DEF TypeOK
        <3> QED BY <3>1 DEF RequestOK, Idle
    <2>2. CASE q # p
        <3>1. req'[q] = req[q] /\ RequestOK(req[q]) /\ req[q] \in Request
            BY <2>2, <1>2, <1>3, Zenon DEF Inv, RequestsOK, TypeOK
        <3>2. CASE req[q].pc \notin {"found", "issued"}
            BY <3>1, <3>2, <1>3, Zenon DEF RequestOK
        <3>3. CASE req[q].pc \in {"found", "issued"}
            <4>1. PICK g \in Families, t \in Seqs : req[q].fam = g /\ req[q].seq = t
                BY <3>1, <3>3, Zenon DEF RequestOK, Request
            <4>2. CASE g # f
                <5>1. refresh'[g][t] = refresh[g][t] /\ owner'[g] = owner[g]
                        /\ \A x \in Seqs : Unrevoked(g, x)' = Unrevoked(g, x)
                    BY <4>2, <1>3, <1>8, <1>12, Zenon
                <5> QED BY <4>1, <5>1, <3>1, <3>3, <1>3, Zenon DEF RequestOK
            <4>3. CASE g = f
                <5>1. req[q].since <= now /\ \A x \in Seqs : x < t => ~Unrevoked(f, x)
                    BY <3>1, <3>3, <4>1, <4>3, Zenon DEF RequestOK
                <5>2. t <= s
                    BY <5>1, <1>4
                <5>3. t # s + 1 /\ \A x \in Seqs : x < t => x # s + 1
                    BY <5>2
                <5>4. ~Unrevoked(f, t)' /\ \A x \in Seqs : x < t => ~Unrevoked(f, x)'
                    BY <5>3, <1>10, Zenon
                <5>5. refresh'[f][t].present /\ refresh'[f][t].revoked
                        => req[q].since <= refresh'[f][t].revokedAt
                    <6>1. CASE t = s
                        BY <6>1, <5>1, <5>3, <1>6, <1>8, Zenon
                    <6>2. CASE t # s
                        <7>1. refresh'[f][t] = refresh[f][t]
                            BY <6>2, <5>3, <1>8, Zenon
                        <7> QED BY <7>1, <3>1, <3>3, <4>1, <4>3, Zenon DEF RequestOK
                    <6> QED BY <6>1, <6>2, Zenon
                <5> QED BY <3>1, <3>3, <4>1, <4>3, <5>1, <5>4, <5>5, <1>3, Zenon DEF RequestOK
            <4> QED BY <4>2, <4>3, Zenon
        <3> QED BY <3>2, <3>3, Zenon
    <2> QED BY <2>1, <2>2, Zenon
<1>14. UnopenedIsEmpty'
    <2> SUFFICES ASSUME NEW g \in Families, NEW t \in Seqs, owner[g] = NoUser
                 PROVE  ~refresh'[g][t].present /\ ~access'[g][t].present
        BY <1>3, Zenon DEF UnopenedIsEmpty
    <2>1. g # f
        BY <1>4, Zenon
    <2>2. refresh'[g][t] = refresh[g][t] /\ access'[g][t] = access[g][t]
        BY <2>1, <1>8, Zenon
    <2> QED BY <2>2, Zenon DEF Inv, UnopenedIsEmpty
<1>15. LiveIsNewest'
    BY <1>8, <1>10, <1>11, <1>12 DEF Inv, LiveIsNewest
<1>16. CutIsWhole'
    <2>1. \A t \in Seqs : ~(access'[f][t].present /\ access'[f][t].revoked)
        BY <1>4, <1>5, <1>8, Zenon DEF FamilyHasRevokedAccess
    <2>2. \A g \in Families, t \in Seqs : g # f => access'[g][t] = access[g][t]
        BY <1>8, Zenon
    <2> QED BY <2>1, <2>2, <1>12, Zenon DEF Inv, CutIsWhole, Alive, FamilyHasRevokedAccess
<1>17. LiveAccessIsCurrent'
    <2> SUFFICES ASSUME NEW g \in Families, NEW t \in Seqs,
                        access'[g][t].present, ~access'[g][t].revoked,
                        t > 0 \/ g \in Capability
                 PROVE  access'[g][t].ver = version[owner[g]]
        BY <1>3, Zenon DEF LiveAccessIsCurrent
    <2>1. CASE g = f /\ t = s + 1
        BY <2>1, <1>5, <1>8, Zenon
    <2>2. CASE ~(g = f /\ t = s + 1)
        <3>1. access'[g][t] = access[g][t]
            BY <2>2, <1>8, Zenon
        <3> QED BY <3>1 DEF Inv, LiveAccessIsCurrent
    <2> QED BY <2>1, <2>2, Zenon
<1>18. OriginKept'
    <2>1. refresh'[f][0].present /\ refresh'[f][0].created = born[f]
        <3>1. s + 1 # 0
            OBVIOUS
        <3> QED BY <3>1, <1>4, <1>6, <1>8
    <2>2. \A g \in Families, t \in Seqs : g # f => refresh'[g][t] = refresh[g][t]
        BY <1>8, Zenon
    <2> QED BY <2>1, <2>2, <1>3 DEF Inv, OriginKept, Unrevoked
<1> QED BY <1>9, <1>13, <1>14, <1>15, <1>16, <1>17, <1>18, Zenon DEF Inv

(* Retention removes dead rows only, and an origin only with its whole family.   *)
LEMMA PruneInv ==
    ASSUME Inv, NEW f \in Families, NEW s \in Seqs,
           DeleteExpiredAccessToken(f, s) \/ DeleteRevokedRefreshToken(f, s)
    PROVE  Inv'
<1> USE SeqsFacts
<1>0. /\ TypeOK
      /\ UNCHANGED <<now, cap, version, closed, owner, born, req>>
    BY Zenon DEF Inv, DeleteExpiredAccessToken, DeleteRevokedRefreshToken, accounts
<1>1. NoAccess \in AccessRow /\ NoRefresh \in RefreshRow
        /\ ~NoAccess.present /\ ~NoRefresh.present
    BY Zenon DEF NoAccess, NoRefresh, AccessRow, RefreshRow
<1>2. /\ \A g \in Families, t \in Seqs :
            access'[g][t] = access[g][t] \/ access'[g][t] = NoAccess
      /\ \A g \in Families, t \in Seqs :
            refresh'[g][t] = refresh[g][t] \/ refresh'[g][t] = NoRefresh
    BY <1>0 DEF DeleteExpiredAccessToken, DeleteRevokedRefreshToken, TypeOK
<1>3. TypeOK'
    <2>1. CASE DeleteExpiredAccessToken(f, s)
        <3>1. access' \in [Families -> [Seqs -> AccessRow]] /\ refresh' = refresh
            BY <2>1, <1>0, <1>1, Zenon DEF DeleteExpiredAccessToken, TypeOK
        <3> QED BY <3>1, <1>0, Zenon DEF TypeOK
    <2>2. CASE DeleteRevokedRefreshToken(f, s)
        <3>1. refresh' \in [Families -> [Seqs -> RefreshRow]] /\ access' = access
            BY <2>2, <1>0, <1>1, Zenon DEF DeleteRevokedRefreshToken, TypeOK
        <3> QED BY <3>1, <1>0, Zenon DEF TypeOK
    <2> QED BY <2>1, <2>2, Zenon
<1>4. \A g \in Families, t \in Seqs :
        Unrevoked(g, t)' => Unrevoked(g, t) /\ refresh'[g][t] = refresh[g][t]
    BY <1>1, <1>2, Zenon DEF Unrevoked
<1>5. RequestsOK'
    <2> SUFFICES ASSUME NEW p \in Requests PROVE RequestOK(req[p])'
        BY Zenon DEF RequestsOK
    <2>1. RequestOK(req[p]) /\ req[p] \in Request /\ req'[p] = req[p]
        BY <1>0, Zenon DEF Inv, RequestsOK, TypeOK
    <2>2. CASE req[p].pc \notin {"found", "issued"}
        BY <2>1, <2>2, <1>0, Zenon DEF RequestOK
    <2>3. CASE req[p].pc \in {"found", "issued"}
        <3>1. PICK g \in Families, t \in Seqs : req[p].fam = g /\ req[p].seq = t
            BY <2>1, <2>3, Zenon DEF RequestOK, Request
        <3>2. refresh'[g][t].present => refresh'[g][t] = refresh[g][t]
            BY <1>1, <1>2, Zenon
        <3>3. \A x \in Seqs : Unrevoked(g, x)' => Unrevoked(g, x)
            BY <1>4, Zenon
        <3> QED BY <2>1, <2>3, <3>1, <3>2, <3>3, <1>0, Zenon DEF RequestOK
    <2> QED BY <2>2, <2>3, Zenon
<1>6. UnopenedIsEmpty' /\ LiveIsNewest'
    <2>1. \A g \in Families, t \in Seqs :
            /\ access'[g][t].present => access[g][t].present
            /\ refresh'[g][t].present => refresh[g][t].present
        BY <1>1, <1>2
    <2>2. UnopenedIsEmpty'
        BY <2>1, <1>0, Zenon DEF Inv, UnopenedIsEmpty
    <2>3. LiveIsNewest'
        BY <2>1, <1>4, Zenon DEF Inv, LiveIsNewest
    <2> QED BY <2>2, <2>3, Zenon
<1>7. CutIsWhole' /\ LiveAccessIsCurrent'
    <2>1. \A g \in Families, t \in Seqs :
            access'[g][t].present => access'[g][t] = access[g][t]
        BY <1>1, <1>2, Zenon
    <2>2. CutIsWhole'
        <3> SUFFICES ASSUME NEW g \in Families, FamilyHasRevokedAccess(g)' PROVE ~Alive(g)'
            BY Zenon DEF CutIsWhole
        <3>1. FamilyHasRevokedAccess(g)
            BY <2>1, Zenon DEF FamilyHasRevokedAccess
        <3>2. ~Alive(g)
            BY <3>1, Zenon DEF Inv, CutIsWhole
        <3> QED BY <3>2, <1>4, Zenon DEF Alive
    <2>3. LiveAccessIsCurrent'
        <3> SUFFICES ASSUME NEW g \in Families, NEW t \in Seqs,
                            access'[g][t].present, ~access'[g][t].revoked,
                            t > 0 \/ g \in Capability
                     PROVE  access'[g][t].ver = version[owner[g]]
            BY <1>0, Zenon DEF LiveAccessIsCurrent
        <3>1. access'[g][t] = access[g][t]
            BY <2>1, Zenon
        <3> QED BY <3>1 DEF Inv, LiveAccessIsCurrent
    <2> QED BY <2>2, <2>3, Zenon
<1>8. OriginKept'
    <2> SUFFICES ASSUME NEW g \in Families, NEW t \in Seqs, Unrevoked(g, t)',
                        refresh'[g][t].expires + RefreshAge > now
                 PROVE  refresh'[g][0].present /\ refresh'[g][0].created = born[g]
        BY <1>0, Zenon DEF OriginKept
    <2>1. /\ Unrevoked(g, t) /\ refresh[g][t].expires + RefreshAge > now
          /\ refresh[g][0].present /\ refresh[g][0].created = born[g]
        BY <1>4, Zenon DEF Inv, OriginKept
    <2>2. refresh'[g][0] = refresh[g][0]
        <3>1. CASE DeleteExpiredAccessToken(f, s)
            BY <3>1, Zenon DEF DeleteExpiredAccessToken
        <3>2. CASE DeleteRevokedRefreshToken(f, s) /\ (g # f \/ s # 0)
            BY <3>2, <1>0, Zenon DEF DeleteRevokedRefreshToken, TypeOK
        <3>3. CASE DeleteRevokedRefreshToken(f, s) /\ g = f /\ s = 0
            <4>1. FamilyIsDead(f)
                BY <3>3 DEF DeleteRevokedRefreshToken
            <4>2. refresh[f][t].expires + RefreshAge <= now
                BY <4>1, <3>3, <2>1, Zenon DEF FamilyIsDead
            <4>3. refresh[f][t].expires \in Nat /\ now \in Nat
                BY <1>0, Zenon DEF TypeOK, RefreshRow
            <4> QED BY <4>2, <4>3, <3>3, <2>1, TimeAssumption
        <3> QED BY <3>1, <3>2, <3>3, Zenon
    <2> QED BY <2>1, <2>2, Zenon
<1> QED BY <1>3, <1>5, <1>6, <1>7, <1>8, Zenon DEF Inv

(* What a request holds after FindRefreshToken. *)
LEMMA ReadTokenFacts ==
    ASSUME now \in Nat, NEW pc \in PCs, NEW f \in Families, NEW s \in Seqs
    PROVE  /\ ReadToken(pc, f, s) \in Request
           /\ ReadToken(pc, f, s).pc = pc /\ ReadToken(pc, f, s).fam = f
           /\ ReadToken(pc, f, s).seq = s /\ ReadToken(pc, f, s).since = now
BY Zenon DEF ReadToken, Request

-----------------------------------------------------------------------------
(* The steps of a request that only read. *)
LEMMA ReadInv ==
    ASSUME Inv, NEW p \in Requests,
           \/ \E u \in Users : LoginVerify(p, u) \/ RedeemConsume(p, u)
           \/ RedeemRefused(p)
           \/ \E f \in Families, s \in Seqs :
                   RefreshFind(p, f, s) \/ RefreshFindReplay(p, f, s)
           \/ RefreshIssue(p) \/ RefreshUserClosed(p) \/ RotateRefused(p) \/ Abandon(p)
    PROVE  Inv'
<1> USE SeqsFacts
<1>0. TypeOK /\ now \in Nat /\ RequestOK(req[p]) /\ req[p] \in Request
    BY Zenon DEF Inv, TypeOK, RequestsOK
<1>1. UNCHANGED tokens /\ UNCHANGED <<now, cap, version, closed>>
    BY Zenon DEF LoginVerify, RedeemConsume, RedeemRefused, RefreshFind, RefreshFindReplay,
        RefreshIssue, RefreshUserClosed, RotateRefused, Abandon, accounts
<1>2. Idle \in Request
    BY Zenon DEF Idle, Request, PCs
<1>3. ASSUME NEW r \in Request, req' = [req EXCEPT ![p] = r], r = Idle \/ RequestOK(r)
      PROVE  Inv'
    <2>1. /\ req' \in [Requests -> Request]
          /\ \A q \in Requests : req'[q] = req[q] \/ req'[q] = Idle \/ RequestOK(req'[q])
        BY <1>0, <1>3, Zenon DEF TypeOK
    <2>2. now <= now' /\ now' \in Nat /\ cap' \in Nat /\ closed' \in [Users -> BOOLEAN]
        BY <1>0, <1>1 DEF TypeOK
    <2> QED BY <2>1, <2>2, <1>1, QuietInv, Zenon
<1>4. CASE RedeemRefused(p) \/ RefreshUserClosed(p) \/ RotateRefused(p) \/ Abandon(p)
    BY <1>2, <1>3, <1>4, Zenon DEF RedeemRefused, RefreshUserClosed, RotateRefused, Abandon, Finish
<1>5. ASSUME NEW u \in Users, LoginVerify(p, u) \/ RedeemConsume(p, u)
      PROVE  Inv'
    <2>1. PICK pc \in {"login", "redeem"} : req' = [req EXCEPT ![p] = ReadUser(pc, u)]
        BY <1>5, Zenon DEF LoginVerify, RedeemConsume
    <2>2. version[u] \in Nat /\ now \in Nat
        BY <1>0, Zenon DEF TypeOK
    <2>3. ReadUser(pc, u) \in Request
        BY <2>2, Zenon DEF ReadUser, Request, PCs
    <2>4. RequestOK(ReadUser(pc, u))
        <3>1. /\ ReadUser(pc, u).pc \in {"login", "redeem"}
              /\ ReadUser(pc, u).user = u /\ ReadUser(pc, u).since = now
            BY Zenon DEF ReadUser
        <3>2. now <= now
            BY <2>2
        <3> QED BY <3>1, <3>2, Zenon DEF RequestOK
    <2> QED BY <2>1, <2>3, <2>4, <1>3, Zenon
<1>6. ASSUME NEW f \in Families, NEW s \in Seqs, RefreshFind(p, f, s)
      PROVE  Inv'
    <2>1. Unrevoked(f, s) /\ req' = [req EXCEPT ![p] = ReadToken("found", f, s)]
        BY <1>6, Zenon DEF RefreshFind
    <2>2. owner[f] # NoUser
        BY <2>1, Zenon DEF Inv, UnopenedIsEmpty, Unrevoked
    <2>3. \A t \in Seqs : t < s => ~Unrevoked(f, t)
        BY <2>1, Zenon DEF Inv, LiveIsNewest, Unrevoked
    <2>4. /\ ReadToken("found", f, s) \in Request
          /\ ReadToken("found", f, s).pc = "found" /\ ReadToken("found", f, s).fam = f
          /\ ReadToken("found", f, s).seq = s /\ ReadToken("found", f, s).since = now
        <3>1. "found" \in PCs
            BY Zenon DEF PCs
        <3>2. now \in Nat
            BY <1>0, Zenon
        <3> QED BY <3>1, <3>2, ReadTokenFacts
    <2>5. RequestOK(ReadToken("found", f, s))
        <3>1. now <= now
            BY <1>0
        <3> QED BY <2>1, <2>2, <2>3, <2>4, <3>1, Zenon DEF RequestOK, Unrevoked
    <2> QED BY <2>1, <2>4, <2>5, <1>3, Zenon
<1>7. ASSUME NEW f \in Families, NEW s \in Seqs, RefreshFindReplay(p, f, s)
      PROVE  Inv'
    <2>1. refresh[f][s].present /\ req' = [req EXCEPT ![p] = ReadToken("cut", f, s)]
        BY <1>7, Zenon DEF RefreshFindReplay, SilentlyRevoked
    <2>2. owner[f] # NoUser
        BY <2>1, Zenon DEF Inv, UnopenedIsEmpty
    <2>3. /\ ReadToken("cut", f, s) \in Request
          /\ ReadToken("cut", f, s).pc = "cut" /\ ReadToken("cut", f, s).fam = f
          /\ ReadToken("cut", f, s).since = now
        <3>1. "cut" \in PCs
            BY Zenon DEF PCs
        <3>2. now \in Nat
            BY <1>0
        <3> QED BY <3>1, <3>2, ReadTokenFacts
    <2>4. RequestOK(ReadToken("cut", f, s))
        <3>1. now <= now
            BY <1>0
        <3> QED BY <2>2, <2>3, <3>1, Zenon DEF RequestOK
    <2> QED BY <2>1, <2>3, <2>4, <1>3, Zenon
<1>8. CASE RefreshIssue(p)
    <2>1. PICK r \in Request : r = [req[p] EXCEPT !.pc = "issued",
                                                  !.ver = version[owner[req[p].fam]]]
        <3>1. req[p].fam \in Families /\ owner[req[p].fam] \in Users
            BY <1>0, <1>8, Zenon DEF RefreshIssue, RequestOK, TypeOK
        <3> QED BY <3>1, <1>0, Zenon DEF Request, PCs, TypeOK
    <2>2. req' = [req EXCEPT ![p] = r]
        BY <2>1, <1>0, <1>8, Zenon DEF RefreshIssue, TypeOK
    <2>3. RequestOK(r)
        BY <2>1, <1>0, <1>8, Zenon DEF RequestOK, RefreshIssue, Request
    <2> QED BY <2>2, <2>3, <1>3, Zenon
<1> QED BY <1>4, <1>5, <1>6, <1>7, <1>8, Zenon
(* The steps that write rows are a cut, a creation, a rotation or a deletion.    *)
LEMMA StepKind ==
    ASSUME Inv, Next
    PROVE  \/ UNCHANGED tokens
           \/ \E F \in SUBSET Families, why \in BOOLEAN :
                  Cut(F, why) /\ UNCHANGED <<owner, born>>
           \/ \E f \in Families, u \in Users, v \in Nat, at \in Nat :
                  CreatePair(f, u, v, at) /\ UNCHANGED cap
           \/ \E p \in Requests : RotateCommit(p)
           \/ \E f \in Families, s \in Seqs :
                  DeleteExpiredAccessToken(f, s) \/ DeleteRevokedRefreshToken(f, s)
<1>1. CASE Tick \/ Redeploy \/ \E u \in Users : RestoreUser(u)
    BY <1>1, Zenon DEF Tick, Redeploy, RestoreUser
<1>2. ASSUME NEW p \in Requests, RequestStep(p)
      PROVE  \/ UNCHANGED tokens
             \/ \E F \in SUBSET Families, why \in BOOLEAN :
                    Cut(F, why) /\ UNCHANGED <<owner, born>>
             \/ \E f \in Families, u \in Users, v \in Nat, at \in Nat :
                    CreatePair(f, u, v, at) /\ UNCHANGED cap
             \/ RotateCommit(p)
    <2>1. RequestOK(req[p]) /\ req[p] \in Request /\ now \in Nat
        BY Zenon DEF Inv, RequestsOK, TypeOK
    <2>2. CASE LoginCommit(p) \/ RedeemCommit(p)
        <3>1. req[p].user \in Users /\ req[p].ver \in Nat /\ req[p].since \in Nat
            BY <2>1, <2>2, Zenon DEF LoginCommit, RedeemCommit, RequestOK, Request
        <3>2. req[p].since..now \subseteq Nat
            BY <3>1, <2>1
        <3> QED BY <2>2, <3>1, <3>2, Zenon DEF LoginCommit, RedeemCommit, accounts
    <2>3. CASE RefreshCutReplay(p) \/ RotateReplay(p) \/ RotateCapElapsed(p)
        <3>1. req[p].fam \in Families
            BY <2>1, <2>3, Zenon DEF RequestOK, RefreshCutReplay, RotateReplay,
                RotateCapElapsed, RotateLive
        <3> QED BY <2>3, <3>1, Zenon DEF RefreshCutReplay, RotateReplay, RotateCapElapsed
    <2>4. CASE RotateCommit(p)
        BY <2>4, Zenon
    <2> QED BY <1>2, <2>2, <2>3, <2>4, Zenon DEF RequestStep, LoginVerify, RedeemConsume,
            RedeemRefused, RefreshFind, RefreshFindReplay, RefreshIssue,
            RefreshUserClosed, RotateRefused, Abandon
<1>3. CASE \E f \in Families : RevokeFamily(f)
    BY <1>3, Zenon DEF RevokeFamily
<1>4. CASE \E u \in Users : RevokeSessions(u) \/ SoftDelete(u)
    BY <1>4, Zenon DEF RevokeSessions, SoftDelete, FamiliesOf
<1> QED BY <1>1, <1>2, <1>3, <1>4, Zenon DEF Next

(* Every step of the system preserves Inv. *)
LEMMA NextInv == Inv /\ [Next]_vars => Inv'
<1> SUFFICES ASSUME Inv, [Next]_vars PROVE Inv'
    BY Zenon
<1> USE SeqsFacts
<1>0. TypeOK /\ now \in Nat /\ Idle \in Request
    BY Zenon DEF Inv, TypeOK, Idle, Request, PCs
<1>1. CASE UNCHANGED vars
    BY <1>0, <1>1, QuietInv DEF vars, tokens, TypeOK
<1>2. CASE Tick
    BY <1>0, <1>2, QuietInv DEF Tick, accounts, TypeOK
<1>3. CASE Redeploy
    BY <1>0, <1>3, QuietInv, TimeAssumption DEF Redeploy, TypeOK
<1>4. ASSUME NEW u \in Users, RestoreUser(u) PROVE Inv'
    BY <1>0, <1>4, QuietInv DEF RestoreUser, TypeOK
<1>5. ASSUME NEW u \in Users, RevokeSessions(u) \/ SoftDelete(u) PROVE Inv'
    <2>1. /\ Cut(FamiliesOf(u), TRUE) /\ UNCHANGED <<now, cap, owner, born, req>>
          /\ version' = [version EXCEPT ![u] = version[u] + 1]
          /\ closed' = closed \/ closed' = [closed EXCEPT ![u] = TRUE]
        BY <1>5, Zenon DEF RevokeSessions, SoftDelete
    <2>2. /\ version' \in [Users -> Nat]
          /\ \A w \in Users : version'[w] = version[w]
                    \/ FamiliesOf(w) \subseteq FamiliesOf(u)
        BY <2>1, <1>0 DEF TypeOK
    <2>4. closed' \in [Users -> BOOLEAN]
        BY <2>1, <1>0, Zenon DEF TypeOK
    <2>3. req' \in [Requests -> Request] /\ \A p \in Requests : req'[p] = req[p]
        BY <2>1, <1>0, Zenon DEF TypeOK
    <2> QED BY <2>1, <2>2, <2>3, <2>4, CutInv, Zenon
<1>6. ASSUME NEW f \in Families, RevokeFamily(f) PROVE Inv'
    BY <1>0, <1>6, CutInv, Zenon DEF RevokeFamily, accounts, TypeOK
<1>7. ASSUME NEW f \in Families, NEW s \in Seqs,
             DeleteExpiredAccessToken(f, s) \/ DeleteRevokedRefreshToken(f, s)
      PROVE  Inv'
    BY <1>7, PruneInv, Zenon
<1>8. ASSUME NEW p \in Requests, RequestStep(p) PROVE Inv'
    <2>0. RequestOK(req[p]) /\ req[p] \in Request
        BY <1>0, Zenon DEF Inv, RequestsOK, TypeOK
    <2>1. Finish(p) => /\ req' \in [Requests -> Request]
                       /\ \A q \in Requests : req'[q] = req[q] \/ req'[q] = Idle
        BY <1>0, Zenon DEF Finish, TypeOK
    <2>2. CASE LoginCommit(p) \/ RedeemCommit(p)
        <3>1. req[p].user \in Users /\ req[p].ver \in Nat /\ req[p].since \in Nat
            BY <2>0, <2>2, Zenon DEF LoginCommit, RedeemCommit, RequestOK, Request
        <3>2. PICK f \in Families, at \in req[p].since..now :
                /\ CreatePair(f, req[p].user, req[p].ver, at)
                /\ f \in Capability => req[p].ver = version[req[p].user]
            BY <2>2, Zenon DEF LoginCommit, RedeemCommit
        <3>3. Finish(p) /\ UNCHANGED <<now, cap, version, closed>>
            BY <2>2, Zenon DEF LoginCommit, RedeemCommit, accounts
        <3>4. at \in Nat
            BY <3>1, <1>0 DEF TypeOK
        <3> QED BY <3>1, <3>2, <3>3, <3>4, <2>1, CreateInv, Zenon
    <2>3. CASE RefreshCutReplay(p) \/ RotateReplay(p) \/ RotateCapElapsed(p)
        <3>1. /\ Cut({req[p].fam}, FALSE) /\ Finish(p)
              /\ UNCHANGED <<now, cap, version, closed, owner, born>>
            BY <2>3, Zenon DEF RefreshCutReplay, RotateReplay, RotateCapElapsed, accounts
        <3>2. version' \in [Users -> Nat] /\ closed' \in [Users -> BOOLEAN]
            BY <3>1, <1>0, Zenon DEF TypeOK
        <3> QED BY <3>1, <3>2, <2>1, CutInv, Zenon
    <2>4. CASE RotateCommit(p)
        BY <2>4, RotateInv, Zenon
    <2> QED BY <1>8, <2>2, <2>3, <2>4, ReadInv, Zenon DEF RequestStep
<1> QED BY <1>1, <1>2, <1>3, <1>4, <1>5, <1>6, <1>7, <1>8, Zenon DEF Next

-----------------------------------------------------------------------------
(* Token rows, requests and accounts keep their shape, and Inv holds always.     *)
THEOREM Invariance == Spec => []Inv
BY InitInv, NextInv, PTL DEF Spec

(* The types of the token tables (model.OAuthAccessToken, OAuthRefreshToken) and *)
(* of what the requests hold.                                                    *)
THEOREM TypeCorrect == Spec => []TypeOK
BY Invariance, PTL DEF Inv

(* rotateRefreshToken and the revocations never leave two usable refresh tokens  *)
(* in a family, nor a usable one with a successor.                               *)
THEOREM OneLiveToken == Spec => []LiveIsNewest
BY Invariance, PTL DEF Inv

(* revokeFamilyInTransaction and revokeAllByUserInTransaction never leave a      *)
(* family with a revoked access row that can still be refreshed.                 *)
THEOREM CutsAreWhole == Spec => []CutIsWhole
BY Invariance, PTL DEF Inv

(* A rotated access token that is still usable carries its owner's current       *)
(* token_version, whatever the refresh had read before the account changed.      *)
THEOREM RotatedTokensAreCurrent == Spec => []LiveAccessIsCurrent
BY Invariance, PTL DEF Inv
-----------------------------------------------------------------------------
(* What a step may never do. *)

(* A family in use that has no usable refresh token gets none.                   *)
LEMMA NoRevival ==
    ASSUME Inv, [Next]_vars, NEW f \in Families, owner[f] # NoUser, ~Alive(f)
    PROVE  ~Alive(f)'
<1> USE SeqsFacts
<1>0. TypeOK
    BY Zenon DEF Inv
<1>1. CASE UNCHANGED tokens
    BY <1>1, Zenon DEF tokens, Alive, Unrevoked
<1>2. ASSUME NEW F \in SUBSET Families, NEW why \in BOOLEAN, Cut(F, why)
      PROVE  ~Alive(f)'
    <2>1. \A s \in Seqs :
            /\ refresh'[f][s].present = refresh[f][s].present
            /\ refresh[f][s].revoked => refresh'[f][s] = refresh[f][s]
        BY <1>0, <1>2, CutFacts
    <2> QED BY <2>1, Zenon DEF Alive, Unrevoked
<1>3. ASSUME NEW g \in Families, NEW u \in Users, NEW v \in Nat, NEW at \in Nat,
             CreatePair(g, u, v, at)
      PROVE  ~Alive(f)'
    <2>1. g # f /\ refresh'[f] = refresh[f]
        BY <1>3, <1>0, Zenon DEF CreatePair, TypeOK
    <2> QED BY <2>1, Zenon DEF Alive, Unrevoked
<1>4. ASSUME NEW p \in Requests, RotateCommit(p)
      PROVE  ~Alive(f)'
    <2>1. PICK g \in Families, s \in Seqs, at \in Nat, ea \in Nat, er \in Nat :
            Rotated(p, g, s, at, ea, er)
        BY <1>4, RotateFacts, Zenon
    <2>2. g # f
        BY <2>1, Zenon DEF Rotated, Alive
    <2>3. refresh'[f] = refresh[f]
        BY <2>1, <2>2, <1>0, Zenon DEF Rotated, TypeOK
    <2> QED BY <2>3, Zenon DEF Alive, Unrevoked
<1>5. ASSUME NEW g \in Families, NEW s \in Seqs,
             DeleteExpiredAccessToken(g, s) \/ DeleteRevokedRefreshToken(g, s)
      PROVE  ~Alive(f)'
    <2>1. \A t \in Seqs :
            refresh'[f][t] = refresh[f][t] \/ refresh'[f][t] = NoRefresh
        <3>1. CASE DeleteExpiredAccessToken(g, s)
            BY <3>1, Zenon DEF DeleteExpiredAccessToken
        <3>2. CASE DeleteRevokedRefreshToken(g, s)
            BY <3>2, <1>0, Zenon DEF DeleteRevokedRefreshToken, TypeOK
        <3> QED BY <1>5, <3>1, <3>2, Zenon
    <2>2. ~NoRefresh.present
        BY Zenon DEF NoRefresh
    <2>3. \A t \in Seqs : Unrevoked(f, t)' => Unrevoked(f, t)
        BY <2>1, <2>2, Zenon DEF Unrevoked
    <2> QED BY <2>3, Zenon DEF Alive
<1> QED BY <1>1, <1>2, <1>3, <1>4, <1>5, StepKind, Zenon DEF vars, tokens

(* No request in flight brings a session back that a logout, a replay or a       *)
(* revocation has ended.                                                         *)
THEOREM SessionsStayDead == Spec => DeadStaysDead
<1>1. Inv /\ [Next]_vars
        => [\A f \in Families : owner[f] # NoUser /\ ~Alive(f) => ~Alive(f)']_vars
    BY NoRevival, Zenon
<1> QED BY <1>1, Invariance, PTL DEF Spec, DeadStaysDead

(* A refresh that found its token live inside the grace window and ends leaves   *)
(* the family as alive as it was.                                                *)
LEMMA RefreshIsGentle ==
    ASSUME Inv, Next, NEW p \in Requests, NEW f \in Families,
           req[p].pc = "issued", req'[p].pc = "idle", req[p].fam = f, Lifetime(f) = 0,
           now <= req[p].since + GraceWindow, Alive(f)
    PROVE  Alive(f)'
<1> USE SeqsFacts
<1>0. TypeOK /\ RequestOK(req[p]) /\ req[p] \in Request /\ req[p].seq \in Seqs
    BY Zenon DEF Inv, RequestsOK, TypeOK, Request
<1>1. CASE UNCHANGED tokens
    BY <1>1, Zenon DEF tokens, Alive, Unrevoked
<1>2. CASE RotateReplay(p)
    <2>1. Current(p) = refresh[f][req[p].seq] /\ refresh[f][req[p].seq] \in RefreshRow
        BY <1>0, Zenon DEF Current, TypeOK
    <2>2. CASE Current(p).revoked
        <3>1. req[p].since <= Current(p).revokedAt
            BY <1>2, <2>1, <2>2, <1>0, Zenon DEF RotateReplay, RequestOK
        <3>2. /\ now \in Nat /\ req[p].since \in Nat /\ Current(p).revokedAt \in Nat
              /\ GraceWindow \in Nat
            BY <1>0, <2>1, TimeAssumption, Zenon DEF TypeOK, Request, RefreshRow
        <3>3. now <= Current(p).revokedAt + GraceWindow
            BY <3>1, <3>2
        <3> QED BY <1>2, <2>2, <3>3, Zenon DEF RotateReplay, IsWithinRefreshGrace
    <2>3. CASE ~Current(p).revoked
        <3>1. FamilyHasRevokedAccess(f)
            BY <1>2, <2>3, Zenon DEF RotateReplay
        <3> QED BY <3>1, Zenon DEF Inv, CutIsWhole
    <2> QED BY <2>2, <2>3, Zenon
<1>3. CASE RotateCapElapsed(p)
    <2>1. Lifetime(f) > 0
        BY <1>3, Zenon DEF RotateCapElapsed
    <2> QED BY <2>1
<1>4. CASE RotateCommit(p)
    <2>1. PICK g \in Families, s \in Seqs, at \in Nat, ea \in Nat, er \in Nat :
            Rotated(p, g, s, at, ea, er)
        BY <1>4, RotateFacts, Zenon
    <2>2. g = f /\ s + 1 \in Seqs
        BY <2>1, Zenon DEF Rotated
    <2>3. refresh'[f][s + 1] = NewRefresh(at, er)
        BY <2>1, <2>2, <1>0, Zenon DEF Rotated, TypeOK
    <2>4. refresh'[f][s + 1].present /\ ~refresh'[f][s + 1].revoked
        BY <2>3, NewRowFields
    <2>5. Unrevoked(f, s + 1)'
        BY <2>4, Zenon DEF Unrevoked
    <2> QED BY <2>2, <2>5, Zenon DEF Alive
<1>5. ASSUME NEW q \in Requests, RequestStep(q) PROVE Alive(f)'
    <2>1. CASE q = p
        BY <1>0, <1>1, <1>2, <1>3, <1>4, <1>5, <2>1, Zenon
        DEF RequestStep, LoginVerify, RedeemConsume, LoginCommit, RedeemCommit, RedeemRefused,
            RefreshFind, RefreshFindReplay, RefreshCutReplay, RefreshIssue, RefreshUserClosed,
            RotateRefused, Abandon
    <2>2. CASE q # p
        <3>1. req'[p] = req[p]
            BY <1>0, <1>5, <2>2, Zenon
            DEF RequestStep, LoginVerify, RedeemConsume, LoginCommit, RedeemCommit, RedeemRefused,
                RefreshFind, RefreshFindReplay, RefreshCutReplay, RefreshIssue, RefreshUserClosed,
                RotateRefused, RotateReplay, RotateCapElapsed, RotateCommit, Abandon, Finish, TypeOK
        <3> QED BY <3>1, Zenon
    <2> QED BY <2>1, <2>2, Zenon
<1> QED BY <1>1, <1>5, Zenon DEF Next, Tick, Redeploy, RevokeFamily, RevokeSessions, SoftDelete, RestoreUser,
        DeleteExpiredAccessToken, DeleteRevokedRefreshToken

(* The loser of two concurrent refreshes of one token never costs the winner its *)
(* session, up to the last instant of the grace window (rotateRefreshToken).     *)
THEOREM LosersCostNothing == Spec => ConcurrentRefreshKeepsSession
<1> DEFINE A == \A p \in Requests, f \in Families :
                    /\ req[p].pc = "issued" /\ req'[p].pc = "idle"
                    /\ req[p].fam = f /\ Lifetime(f) = 0
                    /\ now <= req[p].since + GraceWindow
                    /\ Alive(f)
                    => Alive(f)'
<1>1. Inv /\ [Next]_vars => [A]_vars
    BY RefreshIsGentle, Zenon
<1>2. Spec => [][A]_vars
    BY <1>1, Invariance, PTL DEF Spec
<1> QED BY <1>2, Zenon DEF ConcurrentRefreshKeepsSession

-----------------------------------------------------------------------------
(* What a step issues to a capability family expires inside the cap.             *)
LEMMA IssuedInsideCap ==
    ASSUME Inv, Next, NEW f \in Capability, NEW s \in Seqs, cap > 0
    PROVE  /\ ~access[f][s].present /\ access'[f][s].present
                => access'[f][s].expires <= born'[f] + cap
           /\ ~refresh[f][s].present /\ refresh'[f][s].present
                => refresh'[f][s].expires <= born'[f] + cap
<1> USE SeqsFacts
<1>0. TypeOK /\ f \in Families /\ cap \in Nat /\ Lifetime(f) = cap
    BY IdAssumption, Zenon DEF Inv, TypeOK, Lifetime
<1>1. CASE UNCHANGED tokens
    BY <1>1, Zenon DEF tokens
<1>2. ASSUME NEW F \in SUBSET Families, NEW why \in BOOLEAN, Cut(F, why)
      PROVE  access'[f][s].present = access[f][s].present /\ refresh'[f][s].present = refresh[f][s].present
    BY <1>0, <1>2, CutFacts
<1>3. ASSUME NEW g \in Families, NEW u \in Users, NEW v \in Nat, NEW at \in Nat,
             CreatePair(g, u, v, at)
      PROVE  /\ ~access[f][s].present /\ access'[f][s].present
                    => access'[f][s].expires <= born'[f] + cap
             /\ ~refresh[f][s].present /\ refresh'[f][s].present
                    => refresh'[f][s].expires <= born'[f] + cap
    <2>1. CASE g # f \/ s # 0
        <3>1. access'[f][s] = access[f][s] /\ refresh'[f][s] = refresh[f][s]
            BY <1>0, <1>3, <2>1, Zenon DEF CreatePair, TypeOK
        <3> QED BY <3>1, Zenon
    <2>2. CASE g = f /\ s = 0
        <3>1. /\ access'[f][s] = NewAccess(v, at + FirstTTL(AccessTTL, f))
              /\ refresh'[f][s] = NewRefresh(at, at + FirstTTL(RefreshTTL, f))
              /\ born'[f] = at
            BY <1>0, <1>3, <2>2, Zenon DEF CreatePair, TypeOK
        <3>2. FirstTTL(AccessTTL, f) <= cap /\ FirstTTL(RefreshTTL, f) <= cap
            BY <1>0, TimeAssumption DEF FirstTTL, Least
        <3>3. FirstTTL(AccessTTL, f) \in Nat /\ FirstTTL(RefreshTTL, f) \in Nat
            BY <1>0, TimeAssumption, Zenon DEF FirstTTL, Least
        <3>4. access'[f][s].expires <= at + cap /\ refresh'[f][s].expires <= at + cap
            <4>1. /\ access'[f][s].expires = at + FirstTTL(AccessTTL, f)
                  /\ refresh'[f][s].expires = at + FirstTTL(RefreshTTL, f)
                BY <3>1, NewRowFields
            <4> QED BY <1>0, <3>2, <3>3, <4>1
        <3> QED BY <3>1, <3>4, Zenon
    <2> QED BY <2>1, <2>2, Zenon
<1>4. ASSUME NEW p \in Requests, RotateCommit(p)
      PROVE  /\ ~access[f][s].present /\ access'[f][s].present
                    => access'[f][s].expires <= born'[f] + cap
             /\ ~refresh[f][s].present /\ refresh'[f][s].present
                    => refresh'[f][s].expires <= born'[f] + cap
    <2>0. born' = born
        BY <1>4, Zenon DEF RotateCommit
    <2>1. PICK g \in Families, t \in Seqs, at \in Nat, ea \in Nat, er \in Nat :
            Rotated(p, g, t, at, ea, er)
        BY <1>4, RotateFacts, Zenon
    <2>2. CASE g # f \/ s # t + 1
        <3>1. access'[f][s] = access[f][s]
            BY <1>0, <2>1, <2>2, Zenon DEF Rotated, TypeOK
        <3>2. refresh'[f][s] = refresh[f][s] \/ (g = f /\ s = t /\ refresh[f][s].present)
            BY <1>0, <2>1, <2>2, Zenon DEF Rotated, TypeOK, Unrevoked
        <3> QED BY <3>1, <3>2, Zenon
    <2>3. CASE g = f /\ s = t + 1
        <3>1. access'[f][s].expires = ea /\ refresh'[f][s].expires = er
            BY <1>0, <2>1, <2>3, Zenon DEF Rotated, TypeOK, NewAccess, NewRefresh
        <3> QED BY <1>0, <2>0, <2>1, <2>3, <3>1, Zenon DEF Rotated
    <2> QED BY <2>2, <2>3, Zenon
<1>5. ASSUME NEW g \in Families, NEW t \in Seqs,
             DeleteExpiredAccessToken(g, t) \/ DeleteRevokedRefreshToken(g, t)
      PROVE  /\ access'[f][s] = access[f][s] \/ ~access'[f][s].present
             /\ refresh'[f][s] = refresh[f][s] \/ ~refresh'[f][s].present
    <2>1. ~NoAccess.present /\ ~NoRefresh.present
        BY Zenon DEF NoAccess, NoRefresh
    <2>2. CASE DeleteExpiredAccessToken(g, t)
        BY <1>0, <2>1, <2>2, Zenon DEF DeleteExpiredAccessToken, TypeOK
    <2>3. CASE DeleteRevokedRefreshToken(g, t)
        BY <1>0, <2>1, <2>3, Zenon DEF DeleteRevokedRefreshToken, TypeOK
    <2> QED BY <1>5, <2>2, <2>3, Zenon
<1> QED BY <1>1, <1>2, <1>3, <1>4, <1>5, StepKind, Zenon

(* No token of a capability family is issued past the family's birth plus the    *)
(* cap in force, however often it was renewed, whatever retention removed and    *)
(* however the cap was changed (rotateRefreshToken, DeleteRevokedRefreshTokens). *)
THEOREM CapabilitiesRunOut == Spec => CapHolds
<1> DEFINE A == \A f \in Capability, s \in Seqs : cap > 0 =>
                    /\ ~access[f][s].present /\ access'[f][s].present
                        => access'[f][s].expires <= born'[f] + cap
                    /\ ~refresh[f][s].present /\ refresh'[f][s].present
                        => refresh'[f][s].expires <= born'[f] + cap
<1>1. Inv /\ [Next]_vars => [A]_vars
    BY IssuedInsideCap, Zenon
<1>2. Spec => [][A]_vars
    BY <1>1, Invariance, PTL DEF Spec
<1> QED BY <1>2, Zenon DEF CapHolds

-----------------------------------------------------------------------------
(* The refinement of SessionLifecycle, by kind of write. *)

Opened == {f \in Families : owner[f] # NoUser}
CurrentOf(f) == {s \in Seqs : Unrevoked(f, s)}

(* The usable refresh token of a family is the only one.                         *)
LEMMA CurrentIsOne ==
    ASSUME Inv, NEW f \in Families, NEW s \in Seqs, Unrevoked(f, s)
    PROVE  CurrentOf(f) = {s}
<1>1. \A t \in Seqs : Unrevoked(f, t) => t = s
    <2> SUFFICES ASSUME NEW t \in Seqs, Unrevoked(f, t), t # s PROVE FALSE
        BY Zenon
    <2>1. s < t \/ t < s
        BY SeqsFacts
    <2> QED BY <2>1, Zenon DEF Inv, LiveIsNewest, Unrevoked
<1> QED BY <1>1, Zenon DEF CurrentOf

(* A cut ends the sessions of the families it names.                             *)
LEMMA CutEnds ==
    ASSUME Inv, NEW F \in SUBSET Families, NEW why \in BOOLEAN, Cut(F, why), UNCHANGED owner
    PROVE  Lifecycle!End(F)
<1>0. TypeOK
    BY Zenon DEF Inv
<1>1. \A f \in F : CurrentOf(f)' = {}
    <2>1. \A f \in F, s \in Seqs :
            /\ refresh'[f][s].present = refresh[f][s].present
            /\ refresh[f][s].present => refresh'[f][s].revoked
        BY <1>0, CutFacts, SMTT(60)
    <2> QED BY <2>1, Zenon DEF CurrentOf, Unrevoked
<1>2. \A f \in Families \ F : CurrentOf(f)' = CurrentOf(f)
    <2>1. \A f \in Families \ F, s \in Seqs : refresh'[f][s] = refresh[f][s]
        BY <1>0, CutFacts, SMTT(60)
    <2> QED BY <2>1, Zenon DEF CurrentOf, Unrevoked
<1>3. [f \in Families |-> CurrentOf(f)]'
        = [f \in Families |-> IF f \in F THEN {} ELSE CurrentOf(f)]
    BY <1>1, <1>2, Zenon
<1> QED BY <1>3, Zenon DEF Lifecycle!End, CurrentOf

(* A created pair opens its family.                                              *)
LEMMA CreateOpens ==
    ASSUME Inv, NEW f \in Families, NEW u \in Users, NEW v \in Nat, NEW at \in Nat,
           CreatePair(f, u, v, at)
    PROVE  Lifecycle!Open(f)
<1> USE SeqsFacts
<1>0. TypeOK
    BY Zenon DEF Inv
<1>1. /\ owner[f] = NoUser /\ owner' = [owner EXCEPT ![f] = u]
      /\ refresh' = [refresh EXCEPT ![f][0] = NewRefresh(at, at + FirstTTL(RefreshTTL, f))]
    BY Zenon DEF CreatePair
<1>2. Opened' = Opened \cup {f} /\ f \notin Opened
    BY <1>0, <1>1, IdAssumption DEF Opened, TypeOK
<1>3. CurrentOf(f)' = {0}
    <2>1. \A s \in Seqs : ~refresh[f][s].present
        BY <1>1, Zenon DEF Inv, UnopenedIsEmpty
    <2>2. \A s \in Seqs : refresh'[f][s] = IF s = 0 THEN NewRefresh(at, at + FirstTTL(RefreshTTL, f))
                                           ELSE refresh[f][s]
        BY <1>0, <1>1, Zenon DEF TypeOK
    <2>3. Unrevoked(f, 0)'
        <3>1. refresh'[f][0] = NewRefresh(at, at + FirstTTL(RefreshTTL, f))
            BY <2>2, SeqsFacts, Zenon
        <3>2. refresh'[f][0].present /\ ~refresh'[f][0].revoked
            BY <3>1, NewRowFields
        <3> QED BY <3>2, Zenon DEF Unrevoked
    <2>4. \A s \in Seqs : s # 0 => ~Unrevoked(f, s)'
        BY <2>1, <2>2, Zenon DEF Unrevoked
    <2> QED BY <2>3, <2>4, Zenon DEF CurrentOf
<1>4. \A g \in Families \ {f} : CurrentOf(g)' = CurrentOf(g)
    <2>1. \A g \in Families \ {f} : refresh'[g] = refresh[g]
        BY <1>0, <1>1, Zenon DEF TypeOK
    <2> QED BY <2>1, Zenon DEF CurrentOf, Unrevoked
<1>5. [g \in Families |-> CurrentOf(g)]' = [[g \in Families |-> CurrentOf(g)] EXCEPT ![f] = {0}]
    BY <1>3, <1>4, Zenon
<1> QED BY <1>2, <1>5, Zenon DEF Lifecycle!Open, CurrentOf, Opened

(* A committed rotation renews its family.                                       *)
LEMMA RotateRenews ==
    ASSUME Inv, NEW p \in Requests, RotateCommit(p)
    PROVE  \E f \in Families : Lifecycle!Renew(f)
<1> USE SeqsFacts
<1>0. TypeOK /\ owner' = owner
    BY Zenon DEF Inv, RotateCommit
<1>1. PICK f \in Families, s \in Seqs, at \in Nat, ea \in Nat, er \in Nat :
        Rotated(p, f, s, at, ea, er)
    BY RotateFacts
<1>2. Unrevoked(f, s) /\ s + 1 \in Seqs
    BY <1>1, Zenon DEF Rotated
<1>3. CurrentOf(f) = {s}
    BY <1>2, CurrentIsOne, Zenon
<1>4. refresh' = [refresh EXCEPT ![f] = [@ EXCEPT ![s] = RotateAway(refresh[f][s]),
                                                  ![s + 1] = NewRefresh(at, er)]]
    BY <1>1, Zenon DEF Rotated
<1>5. \A t \in Seqs : refresh'[f][t] = IF t = s + 1 THEN NewRefresh(at, er)
                                       ELSE IF t = s THEN RotateAway(refresh[f][s])
                                       ELSE refresh[f][t]
    BY <1>0, <1>2, <1>4, Zenon DEF TypeOK
<1>6. CurrentOf(f)' = {s + 1}
    <2>1. Unrevoked(f, s + 1)'
        <3>1. refresh'[f][s + 1] = NewRefresh(at, er)
            BY <1>2, <1>5, Zenon
        <3>2. refresh'[f][s + 1].present /\ ~refresh'[f][s + 1].revoked
            BY <3>1, NewRowFields
        <3> QED BY <3>2, Zenon DEF Unrevoked
    <2>2. refresh[f][s] \in RefreshRow
        BY <1>0, Zenon DEF TypeOK
    <2>3. RotateAway(refresh[f][s]).revoked
        BY <2>2, Zenon DEF RotateAway, RefreshRow
    <2>4. ~Unrevoked(f, s)'
        <3>1. refresh'[f][s] = RotateAway(refresh[f][s])
            <4>1. s # s + 1
                BY SeqsFacts
            <4> QED BY <1>5, <4>1, Zenon
        <3> QED BY <2>3, <3>1, Zenon DEF Unrevoked
    <2>5. \A t \in Seqs : t # s /\ t # s + 1 => ~Unrevoked(f, t)'
        BY <1>3, <1>5, Zenon DEF Unrevoked, CurrentOf
    <2> QED BY <1>2, <2>1, <2>4, <2>5, Zenon DEF CurrentOf
<1>7. \A g \in Families \ {f} : CurrentOf(g)' = CurrentOf(g)
    <2>1. \A g \in Families \ {f} : refresh'[g] = refresh[g]
        BY <1>0, <1>4, Zenon DEF TypeOK
    <2> QED BY <2>1, Zenon DEF CurrentOf, Unrevoked
<1>8. [g \in Families |-> CurrentOf(g)]' = [[g \in Families |-> CurrentOf(g)] EXCEPT ![f] = {s + 1}]
    BY <1>6, <1>7, Zenon
<1>9. Opened' = Opened
    BY <1>0, Zenon DEF Opened
<1>10. Lifecycle!Renew(f)
    <2>1. s \in [g \in Families |-> CurrentOf(g)][f] /\ [g \in Families |-> CurrentOf(g)][f] = {s}
        BY <1>3, Zenon
    <2> QED BY <1>8, <1>9, <2>1, Zenon DEF Lifecycle!Renew, CurrentOf, Opened
<1> QED BY <1>10, Zenon

(* Retention changes nothing a client could use, or ends an expired family.      *)
LEMMA PruneEnds ==
    ASSUME Inv, NEW f \in Families, NEW s \in Seqs,
           DeleteExpiredAccessToken(f, s) \/ DeleteRevokedRefreshToken(f, s)
    PROVE  \E F \in SUBSET Families : Lifecycle!End(F)
<1>0. TypeOK /\ owner' = owner
    BY Zenon DEF Inv, DeleteExpiredAccessToken, DeleteRevokedRefreshToken
<1> DEFINE F == IF refresh' # refresh /\ Unrevoked(f, s) THEN {f} ELSE {}
<1>1. \A g \in Families, t \in Seqs :
        refresh'[g][t] = IF refresh' # refresh /\ g = f /\ t = s THEN NoRefresh ELSE refresh[g][t]
    <2>1. CASE DeleteExpiredAccessToken(f, s)
        BY <2>1, Zenon DEF DeleteExpiredAccessToken
    <2>2. CASE DeleteRevokedRefreshToken(f, s)
        BY <2>2, <1>0 DEF DeleteRevokedRefreshToken, TypeOK
    <2> QED BY <2>1, <2>2, Zenon
<1>2. \A g \in Families : CurrentOf(g)' = IF g \in F THEN {} ELSE CurrentOf(g)
    <2>1. ~NoRefresh.present
        BY Zenon DEF NoRefresh
    <2>2. CASE refresh' # refresh /\ Unrevoked(f, s)
        <3>1. CurrentOf(f) = {s}
            BY <2>2, CurrentIsOne, Zenon
        <3>2. \A t \in Seqs : ~Unrevoked(f, t)'
            BY <1>1, <2>1, <2>2, <3>1, Zenon DEF CurrentOf, Unrevoked
        <3>3. \A g \in Families \ {f}, t \in Seqs : Unrevoked(g, t)' <=> Unrevoked(g, t)
            BY <1>1, Zenon DEF Unrevoked
        <3> QED BY <2>2, <3>2, <3>3, Zenon DEF CurrentOf
    <2>3. CASE ~(refresh' # refresh /\ Unrevoked(f, s))
        <3>1. \A g \in Families, t \in Seqs : Unrevoked(g, t)' <=> Unrevoked(g, t)
            BY <1>1, <2>1, <2>3, Zenon DEF Unrevoked
        <3> QED BY <2>3, <3>1, Zenon DEF CurrentOf
    <2> QED BY <2>2, <2>3, Zenon
<1>3. F \in SUBSET Families
    BY Zenon
<1> HIDE DEF F
<1>4. [g \in Families |-> CurrentOf(g)]' = [g \in Families |-> IF g \in F THEN {} ELSE CurrentOf(g)]
    BY <1>2, Zenon
<1>5. Lifecycle!End(F)
    BY <1>0, <1>4, Zenon DEF Lifecycle!End, CurrentOf
<1> QED BY <1>3, <1>5, Zenon

(* Every step of the token tables is a step of SessionLifecycle, or none: a      *)
(* family is opened once, its one current token is renewed to the next, and an   *)
(* ended session stays ended.                                                    *)
THEOREM SessionsAreLifecycles == Spec => ImplementsLifecycle
<1>1. Init => Lifecycle!Init
    <2> SUFFICES ASSUME Init PROVE Lifecycle!Init
        OBVIOUS
    <2>1. Opened = {}
        BY Zenon DEF Init, Opened
    <2>2. \A f \in Families : CurrentOf(f) = {}
        BY Zenon DEF Init, CurrentOf, Unrevoked, NoRefresh
    <2>3. [f \in Families |-> CurrentOf(f)] = [f \in Families |-> {}]
        BY <2>2, Zenon
    <2> QED BY <2>1, <2>3, Zenon DEF Lifecycle!Init, Opened, CurrentOf
<1>2. Inv /\ [Next]_vars => [Lifecycle!Next]_(Lifecycle!session)
    <2> SUFFICES ASSUME Inv, [Next]_vars, ~(UNCHANGED Lifecycle!session)
                 PROVE  Lifecycle!Next
        BY Zenon
    <2>1. ASSUME UNCHANGED tokens PROVE FALSE
        BY <2>1, Zenon DEF tokens, Lifecycle!session, Unrevoked
    <2>2. CASE UNCHANGED vars
        BY <2>1, <2>2, Zenon DEF vars, tokens
    <2>3. CASE Next
        BY <2>1, <2>3, StepKind, CutEnds, CreateOpens, RotateRenews, PruneEnds, Zenon DEF Lifecycle!Next
    <2> QED BY <2>2, <2>3, Zenon
<1> QED BY <1>1, <1>2, Invariance, PTL DEF Spec, ImplementsLifecycle, Lifecycle!Spec

(* The token tables are sound in every state, for any number of users, families  *)
(* and requests: the four invariants above in one.                               *)
THEOREM SessionsAreSound == Spec => []SessionsSound
BY TypeCorrect, OneLiveToken, CutsAreWhole, RotatedTokensAreCurrent, PTL DEF SessionsSound
=============================================================================
