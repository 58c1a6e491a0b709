------------------------ MODULE RevocationLocksProofs ------------------------
(***************************************************************************)
(* Revocations and rotations that overlap statement by statement: a family *)
(* never has two usable refresh tokens, and no rotation escapes a          *)
(* revocation that saw its family alive.  Proved for every set of          *)
(* families, transactions and every number of rotations.                   *)
(***************************************************************************)
EXTENDS RevocationLocks, FiniteSetTheorems, TLAPS

(* OneLiveToken without counting. *)
LiveIsUnique ==
    \A f \in Families, s, t \in Seqs :
        refresh[f][s] = "live" /\ refresh[f][t] = "live" => s = t

\* The family has a row: no login will use its identifier.
Exists(f) == \E s \in Seqs : refresh[f][s] # "none"

(* A rotation past its family lock holds it, and the row it is about to     *)
(* replace is live and locked until it commits.                             *)
RotatorOK(p) ==
    /\ rot[p].pc # "begin" => rot[p].row \in Rows /\ rot[p].row[2] < MaxSeq
    /\ rot[p].pc \in {"read", "commit"} => lock[rot[p].row[1]] = p
    /\ rot[p].pc = "commit" =>
        rowLock[rot[p].row] = p /\ refresh[rot[p].row[1]][rot[p].row[2]] = "live"

(* A revocation holds the lock of every family it saw and has passed, and   *)
(* from the start of each UPDATE on, that UPDATE reaches every live row of  *)
(* those families: what lockLiveTokenFamilies is there for.                 *)
CutterOK(c) ==
    /\ cut[c].saw \subseteq Covers[c]
    /\ \A f \in cut[c].saw : Exists(f)
    /\ cut[c].pc \notin {"begin", "done"} => \A f \in cut[c].saw \ cut[c].todo : lock[f] = c
    /\ cut[c].pc \notin {"begin", "lock"} => cut[c].todo = {}
    /\ cut[c].pc = "access" => LiveAccess(cut[c].saw) \subseteq cut[c].snap
    /\ cut[c].pc \in {"between", "refresh", "commit"} =>
        LiveAccess(cut[c].saw) \subseteq cut[c].accessRows
    /\ cut[c].pc = "refresh" => LiveRefresh(cut[c].saw) \subseteq cut[c].snap
    /\ cut[c].pc = "commit" =>
        /\ LiveRefresh(cut[c].saw) \subseteq cut[c].refreshRows
        /\ \A r \in cut[c].refreshRows : rowLock[r] = c

Inv ==
    /\ TypeOK
    /\ LiveIsUnique
    /\ \A p \in Rotators : RotatorOK(p)
    /\ \A c \in Cutters : CutterOK(c)

-----------------------------------------------------------------------------
LEMMA InitInv == Init => Inv
<1> SUFFICES ASSUME Init PROVE Inv
    OBVIOUS
<1>0. 0 \in Seqs
    BY FamilyAssumption DEF Seqs
<1>1. TypeOK
    BY <1>0, FamilyAssumption
    DEF Init, TypeOK, NewFamily, NoFamily, Status, Cutter, Rotator, Txs
<1>2. LiveIsUnique
    BY DEF Init, LiveIsUnique, NewFamily, NoFamily
<1>3. \A p \in Rotators : RotatorOK(p)
    BY DEF Init, RotatorOK
<1>4. \A c \in Cutters : CutterOK(c)
    BY FamilyAssumption DEF Init, CutterOK
<1> QED
    BY <1>1, <1>2, <1>3, <1>4 DEF Inv

-----------------------------------------------------------------------------
(* What a step may do to the tables. *)

\* No row comes to life, and none disappears.
Quieter ==
    \A f \in Families, s \in Seqs :
        /\ access'[f][s] = "live" => access[f][s] = "live"
        /\ refresh'[f][s] = "live" => refresh[f][s] = "live"
        /\ refresh[f][s] # "none" => refresh'[f][s] # "none"

\* A transaction that neither ends nor begins keeps its locks.
Keeps(t) ==
    /\ \A f \in Families : lock[f] = t => lock'[f] = t
    /\ \A r \in Rows : rowLock[r] = t => rowLock'[r] = t

(* A step that revives nothing keeps the tokens of a family unique.         *)
LEMMA QuieterUnique == Quieter /\ LiveIsUnique => LiveIsUnique'
    BY DEF Quieter, LiveIsUnique

(* ... and every revocation that it leaves alone, with its locks, in order. *)
LEMMA QuieterCutter ==
    ASSUME TypeOK, Quieter, NEW c \in Cutters, CutterOK(c), cut'[c] = cut[c], Keeps(c)
    PROVE  CutterOK(c)'
<1>1. cut[c] \in Cutter
    BY DEF TypeOK
<1>2. cut[c].saw \subseteq Families /\ cut[c].refreshRows \subseteq Rows
    BY <1>1 DEF Cutter
<1>3. \A f \in cut[c].saw : Exists(f)'
    BY <1>2 DEF CutterOK, Exists, Quieter
<1>4. LiveAccess(cut[c].saw)' \subseteq LiveAccess(cut[c].saw)
    BY DEF LiveAccess, Quieter, Rows
<1>5. LiveRefresh(cut[c].saw)' \subseteq LiveRefresh(cut[c].saw)
    BY DEF LiveRefresh, Quieter, Rows
<1> QED
    BY <1>2, <1>3, <1>4, <1>5 DEF CutterOK, Keeps

(* A rotation keeps its claims through a step that leaves it, its locks and *)
(* the row it is about to replace alone.                                    *)
LEMMA RotatorKept ==
    ASSUME TypeOK, NEW p \in Rotators, RotatorOK(p), rot'[p] = rot[p], Keeps(p),
           rot[p].pc = "commit" => refresh'[rot[p].row[1]][rot[p].row[2]] = "live"
    PROVE  RotatorOK(p)'
    BY DEF RotatorOK, Keeps, Rows

(* Ending one transaction leaves the locks of the others.                   *)
LEMMA ReleaseKeeps ==
    ASSUME TypeOK, NEW t \in Txs, ReleaseAll(t), NEW u \in Txs, u # t
    PROVE  Keeps(u)
<1>1. None \notin Txs
    BY FamilyAssumption DEF Txs
<1> QED
    BY <1>1 DEF ReleaseAll, Keeps, TypeOK

LEMMA ReleaseTypes ==
    ASSUME TypeOK, NEW t \in Txs, ReleaseAll(t)
    PROVE  /\ lock' \in [Families -> Txs \cup {None}]
           /\ rowLock' \in [Rows -> Txs \cup {None}]
    BY DEF ReleaseAll, TypeOK

(* A revoked table is a table.                                              *)
LEMMA RevokedTypes ==
    ASSUME NEW T \in [Families -> [Seqs -> Status]], NEW R
    PROVE  /\ Revoked(T, R) \in [Families -> [Seqs -> Status]]
           /\ \A f \in Families, s \in Seqs :
                Revoked(T, R)[f][s] = IF <<f, s>> \in R THEN "dead" ELSE T[f][s]
    BY DEF Revoked, Status

-----------------------------------------------------------------------------
(* Revocations. *)

\* The steps of c that touch neither a table nor a lock.
LEMMA CutterMoves ==
    ASSUME Inv, NEW c \in Cutters,
           SelectFamilies(c) \/ StartAccessUpdate(c) \/ EndAccessUpdate(c) \/ StartRefreshUpdate(c)
    PROVE  Inv'
<1>1. /\ access' = access /\ refresh' = refresh /\ lock' = lock /\ rowLock' = rowLock /\ rot' = rot
      /\ \A d \in Cutters \ {c} : cut'[d] = cut[d]
    BY DEF Inv, TypeOK, SelectFamilies, StartAccessUpdate, EndAccessUpdate, StartRefreshUpdate
<1>2. Quieter /\ \A t \in Txs : Keeps(t)
    BY <1>1 DEF Quieter, Keeps
<1>3. Covers[c] \subseteq Families
    BY FamilyAssumption
<1>4. cut[c] \in Cutter
    BY DEF Inv, TypeOK
<1>5. cut' \in [Cutters -> Cutter] /\ CutterOK(c)'
    <2>1. CASE SelectFamilies(c)
        <3> DEFINE F == IF c \in Single THEN Covers[c] ELSE {f \in Covers[c] : Live(f)}
        <3>1. cut' = [cut EXCEPT ![c].pc = "lock", ![c].saw = F, ![c].todo = F]
            BY <2>1 DEF SelectFamilies
        <3>2. F \subseteq Covers[c] /\ F \subseteq Families
            BY <1>3
        <3>3. \A f \in F : Exists(f)
            <4> TAKE f \in F
            <4>1. CASE c \in Single
                <5>1. refresh[f] # NoFamily /\ refresh[f] \in [Seqs -> Status]
                    BY <4>1, <2>1, <3>2 DEF SelectFamilies, Inv, TypeOK
                <5> QED
                    BY <5>1 DEF NoFamily, Exists
            <4>2. CASE c \notin Single
                BY <4>2 DEF Live, Exists
            <4> QED
                BY <4>1, <4>2
        <3> HIDE DEF F
        <3>4. cut' \in [Cutters -> Cutter]
            BY <3>1, <3>2, <1>4 DEF Inv, TypeOK, Cutter
        <3>5. cut'[c].pc = "lock" /\ cut'[c].saw = F /\ cut'[c].todo = F
            BY <3>1, <1>4 DEF Inv, TypeOK, Cutter
        <3>6. \A f \in F : Exists(f)'
            BY <3>3, <1>1 DEF Exists
        <3> QED
            BY <3>2, <3>4, <3>5, <3>6 DEF CutterOK
    <2>2. CASE StartAccessUpdate(c)
        <3> DEFINE S == LiveAccess(Covers[c])
        <3>1. /\ cut' = [cut EXCEPT ![c].pc = "access", ![c].snap = S]
              /\ cut[c].pc = "lock" /\ cut[c].todo = {}
            BY <2>2 DEF StartAccessUpdate
        <3>2. S \subseteq Rows /\ LiveAccess(cut[c].saw)' \subseteq S
            BY <1>1, <3>1, <1>4 DEF LiveAccess, CutterOK, Inv, TypeOK, Cutter
        <3> HIDE DEF S
        <3>3. cut' \in [Cutters -> Cutter]
            BY <3>1, <3>2, <1>4 DEF Inv, TypeOK, Cutter
        <3>4. /\ cut'[c].pc = "access" /\ cut'[c].saw = cut[c].saw /\ cut'[c].todo = cut[c].todo
              /\ cut'[c].snap = S
            BY <3>1, <1>4 DEF Inv, TypeOK, Cutter
        <3> QED
            BY <3>1, <3>2, <3>3, <3>4, <1>1 DEF CutterOK, Inv, Exists
    <2>3. CASE EndAccessUpdate(c)
        <3> DEFINE S == cut[c].snap \cap LiveAccess(Covers[c])
        <3>1. /\ cut' = [cut EXCEPT ![c].pc = "between", ![c].accessRows = S]
              /\ cut[c].pc = "access"
            BY <2>3 DEF EndAccessUpdate
        <3>2. S \subseteq Rows /\ LiveAccess(cut[c].saw)' \subseteq S
            BY <1>1, <3>1, <1>4 DEF LiveAccess, CutterOK, Inv, TypeOK, Cutter
        <3> HIDE DEF S
        <3>3. cut' \in [Cutters -> Cutter]
            BY <3>1, <3>2, <1>4 DEF Inv, TypeOK, Cutter
        <3>4. /\ cut'[c].pc = "between" /\ cut'[c].saw = cut[c].saw /\ cut'[c].todo = cut[c].todo
              /\ cut'[c].accessRows = S
            BY <3>1, <1>4 DEF Inv, TypeOK, Cutter
        <3> QED
            BY <3>1, <3>2, <3>3, <3>4, <1>1 DEF CutterOK, Inv, Exists
    <2>4. CASE StartRefreshUpdate(c)
        <3> DEFINE S == LiveRefresh(Covers[c])
        <3>1. /\ cut' = [cut EXCEPT ![c].pc = "refresh", ![c].snap = S]
              /\ cut[c].pc = "between"
            BY <2>4 DEF StartRefreshUpdate
        <3>2. S \subseteq Rows /\ LiveRefresh(cut[c].saw)' \subseteq S
            BY <1>1, <3>1, <1>4 DEF LiveRefresh, CutterOK, Inv, TypeOK, Cutter
        <3> HIDE DEF S
        <3>3. cut' \in [Cutters -> Cutter]
            BY <3>1, <3>2, <1>4 DEF Inv, TypeOK, Cutter
        <3>4. /\ cut'[c].pc = "refresh" /\ cut'[c].saw = cut[c].saw /\ cut'[c].todo = cut[c].todo
              /\ cut'[c].snap = S /\ cut'[c].accessRows = cut[c].accessRows
            BY <3>1, <1>4 DEF Inv, TypeOK, Cutter
        <3>5. LiveAccess(cut[c].saw)' \subseteq cut'[c].accessRows
            BY <3>1, <3>4, <1>1 DEF CutterOK, Inv, LiveAccess
        <3> QED
            BY <3>1, <3>2, <3>3, <3>4, <3>5, <1>1 DEF CutterOK, Inv, Exists
    <2> QED
        BY <2>1, <2>2, <2>3, <2>4
<1>6. TypeOK'
    BY <1>1, <1>5 DEF Inv, TypeOK
<1>7. \A d \in Cutters : CutterOK(d)'
    BY <1>1, <1>2, <1>5, QuieterCutter DEF Inv, Txs
<1>8. \A p \in Rotators : RotatorOK(p)'
    BY <1>1, <1>2, RotatorKept DEF Inv, Txs, RotatorOK
<1> QED
    BY <1>2, <1>6, <1>7, <1>8, QuieterUnique DEF Inv

\* One more family lock, which was free.
LEMMA LockFamilyInv ==
    ASSUME Inv, NEW c \in Cutters, NEW f \in Families, LockFamily(c, f)
    PROVE  Inv'
<1>1. /\ access' = access /\ refresh' = refresh /\ rowLock' = rowLock /\ rot' = rot
      /\ lock' = [lock EXCEPT ![f] = c] /\ lock[f] = None
      /\ cut' = [cut EXCEPT ![c].todo = @ \ {f}] /\ cut[c].pc = "lock"
    BY DEF LockFamily
<1>2. None \notin Txs /\ c \in Txs
    BY FamilyAssumption DEF Txs
<1>3. Quieter /\ \A t \in Txs : Keeps(t)
    BY <1>1, <1>2 DEF Quieter, Keeps, Inv, TypeOK
<1>4. cut[c] \in Cutter
    BY DEF Inv, TypeOK
<1>5. /\ cut'[c].pc = "lock" /\ cut'[c].saw = cut[c].saw /\ cut'[c].todo = cut[c].todo \ {f}
      /\ \A d \in Cutters \ {c} : cut'[d] = cut[d]
    BY <1>1, <1>4 DEF Inv, TypeOK, Cutter
<1>6. TypeOK'
    BY <1>1, <1>2, <1>4 DEF Inv, TypeOK, Cutter
<1>7. CutterOK(c)'
    <2>1. \A g \in cut[c].saw : Exists(g)'
        BY <1>1 DEF CutterOK, Inv, Exists
    <2>2. \A g \in cut[c].saw \ (cut[c].todo \ {f}) : lock'[g] = c
        BY <1>1, <1>4, ZenonT(60) DEF CutterOK, Inv, TypeOK, Cutter
    <2>3. CutterOK(c)
        BY DEF Inv
    <2> QED
        BY <1>5, <2>1, <2>2, <2>3 DEF CutterOK
<1>8. \A d \in Cutters : CutterOK(d)'
    BY <1>3, <1>5, <1>7, QuieterCutter DEF Inv, Txs
<1>9. \A p \in Rotators : RotatorOK(p)'
    BY <1>1, <1>3, RotatorKept DEF Inv, Txs, RotatorOK
<1> QED
    BY <1>3, <1>6, <1>8, <1>9, QuieterUnique DEF Inv

\* The refresh UPDATE takes its rows, none of which another holds.
LEMMA EndRefreshUpdateInv ==
    ASSUME Inv, NEW c \in Cutters, EndRefreshUpdate(c)
    PROVE  Inv'
<1> DEFINE R == cut[c].snap \cap LiveRefresh(Covers[c])
<1>1. /\ access' = access /\ refresh' = refresh /\ lock' = lock /\ rot' = rot
      /\ cut[c].pc = "refresh" /\ \A r \in cut[c].snap : rowLock[r] = None
      /\ rowLock' = [r \in Rows |-> IF r \in R THEN c ELSE rowLock[r]]
      /\ cut' = [cut EXCEPT ![c].pc = "commit", ![c].refreshRows = R]
    BY DEF EndRefreshUpdate
<1>2. None \notin Txs /\ c \in Txs
    BY FamilyAssumption DEF Txs
<1>3. Quieter /\ \A t \in Txs : Keeps(t)
    BY <1>1, <1>2 DEF Quieter, Keeps
<1>4. cut[c] \in Cutter
    BY DEF Inv, TypeOK
<1>5. R \subseteq Rows /\ LiveRefresh(cut[c].saw)' \subseteq R /\ \A r \in R : rowLock'[r] = c
    <2>1. R \subseteq Rows
        BY <1>4 DEF Cutter
    <2>2. LiveRefresh(cut[c].saw)' = LiveRefresh(cut[c].saw)
        BY <1>1, <1>4 DEF LiveRefresh, Inv, TypeOK, Cutter
    <2>3. LiveRefresh(cut[c].saw) \subseteq LiveRefresh(Covers[c])
        BY DEF LiveRefresh, CutterOK, Inv
    <2> QED
        BY <1>1, <2>1, <2>2, <2>3 DEF CutterOK, Inv
<1> HIDE DEF R
<1>6. /\ cut'[c].pc = "commit" /\ cut'[c].saw = cut[c].saw /\ cut'[c].todo = cut[c].todo
      /\ cut'[c].refreshRows = R /\ cut'[c].accessRows = cut[c].accessRows
      /\ \A d \in Cutters \ {c} : cut'[d] = cut[d]
    BY <1>1, <1>4 DEF Inv, TypeOK, Cutter
<1>7. TypeOK'
    BY <1>1, <1>2, <1>4, <1>5 DEF Inv, TypeOK, Cutter
<1>8. LiveAccess(cut[c].saw)' \subseteq cut'[c].accessRows
    BY <1>1, <1>6 DEF CutterOK, Inv, LiveAccess
<1>9. CutterOK(c)'
    <2>1. \A f \in cut[c].saw : Exists(f)'
        BY <1>1 DEF CutterOK, Inv, Exists
    <2>2. CutterOK(c)
        BY DEF Inv
    <2> QED
        BY <1>1, <1>5, <1>6, <1>8, <2>1, <2>2 DEF CutterOK
<1>10. \A d \in Cutters : CutterOK(d)'
    BY <1>3, <1>6, <1>9, QuieterCutter DEF Inv, Txs
<1>11. \A p \in Rotators : RotatorOK(p)'
    BY <1>1, <1>3, RotatorKept DEF Inv, Txs, RotatorOK
<1> QED
    BY <1>3, <1>7, <1>10, <1>11, QuieterUnique DEF Inv

\* The revocation commits; the rows it writes are locked by nobody else.
LEMMA CommitCutInv ==
    ASSUME Inv, NEW c \in Cutters, CommitCut(c)
    PROVE  Inv'
<1>1. /\ access' = Revoked(access, cut[c].accessRows)
      /\ refresh' = Revoked(refresh, cut[c].refreshRows)
      /\ cut[c].pc = "commit" /\ cut' = [cut EXCEPT ![c].pc = "done"]
      /\ ReleaseAll(c) /\ rot' = rot /\ c \in Txs
    BY DEF CommitCut, Txs
<1>2. access' \in [Families -> [Seqs -> Status]] /\ refresh' \in [Families -> [Seqs -> Status]]
    BY <1>1, RevokedTypes DEF Inv, TypeOK
<1>3. Quieter
    <2>1. \A f \in Families, s \in Seqs :
            /\ access'[f][s] = IF <<f, s>> \in cut[c].accessRows THEN "dead" ELSE access[f][s]
            /\ refresh'[f][s] = IF <<f, s>> \in cut[c].refreshRows THEN "dead" ELSE refresh[f][s]
        BY <1>1 DEF Revoked
    <2> QED
        BY <2>1 DEF Quieter
<1>4. cut[c] \in Cutter
    BY DEF Inv, TypeOK
<1>5. /\ cut'[c].pc = "done" /\ cut'[c].saw = cut[c].saw /\ cut'[c].todo = cut[c].todo
      /\ \A d \in Cutters \ {c} : cut'[d] = cut[d]
    BY <1>1, <1>4 DEF Inv, TypeOK, Cutter
<1>6. TypeOK'
    BY <1>1, <1>2, <1>4, ReleaseTypes DEF Inv, TypeOK, Cutter
<1>7. \A f \in cut[c].saw : Exists(f)'
    BY <1>3, <1>4 DEF CutterOK, Inv, Exists, Quieter, Cutter
<1>8. CutterOK(c)'
    BY <1>1, <1>5, <1>7 DEF CutterOK, Inv
<1>9. \A d \in Cutters : CutterOK(d)'
    BY <1>1, <1>3, <1>5, <1>8, QuieterCutter, ReleaseKeeps DEF Inv, Txs
<1>10. \A p \in Rotators : RotatorOK(p)'
    <2> TAKE p \in Rotators
    <2>1. p # c /\ p \in Txs
        BY FamilyAssumption DEF Txs
    <2>2. Keeps(p)
        BY <1>1, <2>1, ReleaseKeeps DEF Inv
    <2>3. ASSUME rot[p].pc = "commit"
          PROVE  refresh'[rot[p].row[1]][rot[p].row[2]] = "live"
        <3>1. PICK f \in Families, s \in Seqs : rot[p].row = <<f, s>>
            BY <2>3 DEF Inv, RotatorOK, Rows
        <3>2. rowLock[<<f, s>>] = p /\ refresh[f][s] = "live"
            BY <2>3, <3>1 DEF Inv, RotatorOK
        <3>3. <<f, s>> \notin cut[c].refreshRows
            BY <1>1, <2>1, <3>2 DEF Inv, CutterOK
        <3> QED
            BY <1>1, <3>1, <3>2, <3>3, RevokedTypes DEF Inv, TypeOK
    <2> QED
        BY <1>1, <2>2, <2>3, RotatorKept DEF Inv
<1> QED
    BY <1>3, <1>6, <1>9, <1>10, QuieterUnique DEF Inv

-----------------------------------------------------------------------------
(* Rotations. *)

\* The token is presented, before the transaction.
LEMMA PresentTokenInv ==
    ASSUME Inv, NEW p \in Rotators, NEW r \in Rows, PresentToken(p, r)
    PROVE  Inv'
<1>1. /\ access' = access /\ refresh' = refresh /\ lock' = lock /\ rowLock' = rowLock /\ cut' = cut
      /\ rot' = [rot EXCEPT ![p] = [pc |-> "lock", row |-> r]] /\ r[2] < MaxSeq
    BY DEF PresentToken
<1>2. Quieter /\ \A t \in Txs : Keeps(t)
    BY <1>1 DEF Quieter, Keeps
<1>3. TypeOK'
    BY <1>1 DEF Inv, TypeOK, Rotator
<1>4. RotatorOK(p)'
    BY <1>1 DEF RotatorOK, Inv, TypeOK
<1>5. \A q \in Rotators : RotatorOK(q)'
    BY <1>1, <1>2, <1>4, RotatorKept DEF Inv, Txs, RotatorOK, TypeOK
<1>6. \A c \in Cutters : CutterOK(c)'
    BY <1>1, <1>2, QuieterCutter DEF Inv, Txs
<1> QED
    BY <1>2, <1>3, <1>5, <1>6, QuieterUnique DEF Inv

\* It takes the free lock of its family.
LEMMA LockTokenFamilyInv ==
    ASSUME Inv, NEW p \in Rotators, LockTokenFamily(p)
    PROVE  Inv'
<1>1. /\ access' = access /\ refresh' = refresh /\ rowLock' = rowLock /\ cut' = cut
      /\ rot[p].pc = "lock" /\ rot' = [rot EXCEPT ![p].pc = "read"]
      /\ lock[rot[p].row[1]] = None /\ lock' = [lock EXCEPT ![rot[p].row[1]] = p]
    BY DEF LockTokenFamily
<1>2. None \notin Txs /\ p \in Txs
    BY FamilyAssumption DEF Txs
<1>3. rot[p] \in Rotator /\ rot[p].row \in Rows /\ rot[p].row[1] \in Families
    BY <1>1 DEF Inv, TypeOK, RotatorOK, Rows
<1>4. Quieter /\ \A t \in Txs : Keeps(t)
    BY <1>1, <1>2 DEF Quieter, Keeps, Inv, TypeOK
<1>5. TypeOK'
    BY <1>1, <1>2, <1>3 DEF Inv, TypeOK, Rotator
<1>6. RotatorOK(p)'
    BY <1>1, <1>3 DEF RotatorOK, Inv, TypeOK, Rotator
<1>7. \A q \in Rotators : RotatorOK(q)'
    BY <1>1, <1>4, <1>6, RotatorKept DEF Inv, Txs, RotatorOK, TypeOK
<1>8. \A c \in Cutters : CutterOK(c)'
    BY <1>1, <1>4, QuieterCutter DEF Inv, Txs
<1> QED
    BY <1>4, <1>5, <1>7, <1>8, QuieterUnique DEF Inv

\* It finds its row live and locks it.
LEMMA FindRefreshTokenInv ==
    ASSUME Inv, NEW p \in Rotators, FindRefreshTokenForUpdate(p)
    PROVE  Inv'
<1>1. /\ access' = access /\ refresh' = refresh /\ lock' = lock /\ cut' = cut
      /\ rot[p].pc = "read" /\ rot' = [rot EXCEPT ![p].pc = "commit"]
      /\ refresh[rot[p].row[1]][rot[p].row[2]] = "live"
      /\ rowLock[rot[p].row] = None /\ rowLock' = [rowLock EXCEPT ![rot[p].row] = p]
    BY DEF FindRefreshTokenForUpdate
<1>2. None \notin Txs /\ p \in Txs
    BY FamilyAssumption DEF Txs
<1>3. rot[p] \in Rotator /\ rot[p].row \in Rows
    BY <1>1 DEF Inv, TypeOK, RotatorOK
<1>4. Quieter /\ \A t \in Txs : Keeps(t)
    BY <1>1, <1>2 DEF Quieter, Keeps, Inv, TypeOK
<1>5. TypeOK'
    BY <1>1, <1>2, <1>3 DEF Inv, TypeOK, Rotator
<1>6. RotatorOK(p)'
    BY <1>1, <1>3 DEF RotatorOK, Inv, TypeOK, Rotator
<1>7. \A q \in Rotators : RotatorOK(q)'
    BY <1>1, <1>4, <1>6, RotatorKept DEF Inv, Txs, RotatorOK, TypeOK
<1>8. \A c \in Cutters : CutterOK(c)'
    BY <1>1, <1>4, QuieterCutter DEF Inv, Txs
<1> QED
    BY <1>4, <1>5, <1>7, <1>8, QuieterUnique DEF Inv

\* It ends without a new token: rolled back, or with its family cut.
LEMMA RefusedInv ==
    ASSUME Inv, NEW p \in Rotators, RollBack(p) \/ CutOnReplay(p)
    PROVE  Inv'
<1> DEFINE f == rot[p].row[1]
<1>1. /\ rot[p].pc = "read" /\ rot' = [rot EXCEPT ![p].pc = "done"] /\ cut' = cut
      /\ ReleaseAll(p) /\ p \in Txs
    BY DEF RollBack, CutOnReplay, Txs
<1>2. rot[p] \in Rotator /\ rot[p].row \in Rows /\ rot[p].row[2] < MaxSeq
    BY <1>1 DEF Inv, TypeOK, RotatorOK
<1>3. /\ access' \in [Families -> [Seqs -> Status]] /\ refresh' \in [Families -> [Seqs -> Status]]
      /\ Quieter
      /\ \A r \in Rows : rowLock[r] \in Txs => refresh'[r[1]][r[2]] = refresh[r[1]][r[2]]
    <2>1. CASE RollBack(p)
        BY <2>1 DEF RollBack, Quieter, Inv, TypeOK
    <2>2. CASE CutOnReplay(p)
        <3>1. /\ access' = Revoked(access, LiveAccess({f})) /\ refresh' = Revoked(refresh, LiveRefresh({f}))
              /\ \A r \in Rows : r[1] = f => rowLock[r] = None
            BY <2>2 DEF CutOnReplay
        <3>2. \A g \in Families, s \in Seqs :
                /\ access'[g][s] = IF <<g, s>> \in LiveAccess({f}) THEN "dead" ELSE access[g][s]
                /\ refresh'[g][s] = IF <<g, s>> \in LiveRefresh({f}) THEN "dead" ELSE refresh[g][s]
            BY <3>1 DEF Revoked
        <3>3. Quieter
            BY <3>2 DEF Quieter
        <3>4. None \notin Txs
            BY FamilyAssumption DEF Txs
        <3>5. \A g \in Families, s \in Seqs : rowLock[<<g, s>>] \in Txs => refresh'[g][s] = refresh[g][s]
            BY <3>1, <3>2, <3>4 DEF LiveRefresh, Rows
        <3>6. \A r \in Rows : rowLock[r] \in Txs => refresh'[r[1]][r[2]] = refresh[r[1]][r[2]]
            BY <3>5 DEF Rows
        <3> QED
            BY <3>1, <3>3, <3>6, RevokedTypes DEF Inv, TypeOK
    <2> QED
        BY <2>1, <2>2
<1>4. TypeOK'
    BY <1>1, <1>2, <1>3, ReleaseTypes DEF Inv, TypeOK, Rotator
<1>5. RotatorOK(p)'
    BY <1>1, <1>2 DEF RotatorOK, Inv, TypeOK, Rotator
<1>6. \A q \in Rotators : RotatorOK(q)'
    <2> SUFFICES ASSUME NEW q \in Rotators, q # p PROVE RotatorOK(q)'
        BY <1>5
    <2>1. Keeps(q) /\ rot'[q] = rot[q]
        BY <1>1, ReleaseKeeps DEF Inv, TypeOK, Txs
    <2>2. rot[q].pc = "commit" => refresh'[rot[q].row[1]][rot[q].row[2]] = "live"
        BY <1>3 DEF Inv, RotatorOK, Txs
    <2> QED
        BY <2>1, <2>2, RotatorKept DEF Inv
<1>7. \A c \in Cutters : CutterOK(c)'
    <2> TAKE c \in Cutters
    <2>1. Keeps(c)
        BY <1>1, ReleaseKeeps, FamilyAssumption DEF Inv, Txs
    <2> QED
        BY <1>1, <1>3, <2>1, QuieterCutter DEF Inv
<1> QED
    BY <1>3, <1>4, <1>6, <1>7, QuieterUnique DEF Inv

\* It commits.  Nobody else holds the family, so the row it replaces is the only
\* live one and no revocation has looked at the family.
LEMMA CommitRotationInv ==
    ASSUME Inv, NEW p \in Rotators, CommitRotation(p)
    PROVE  Inv'
<1>1. PICK f \in Families, s \in Seqs : rot[p].row = <<f, s>> /\ s < MaxSeq
    <2>1. rot[p].pc # "begin"
        BY Zenon DEF CommitRotation
    <2>2. rot[p].row \in Rows /\ rot[p].row[2] < MaxSeq
        BY <2>1, Zenon DEF Inv, RotatorOK
    <2> QED BY ONLY <2>2 DEF Rows
<1>2. /\ rot[p].pc = "commit" /\ rot' = [rot EXCEPT ![p].pc = "done"] /\ cut' = cut
      /\ access' = [access EXCEPT ![f][s + 1] = "live"]
      /\ refresh' = [refresh EXCEPT ![f] = [@ EXCEPT ![s] = "dead", ![s + 1] = "live"]]
      /\ ReleaseAll(p) /\ p \in Txs
    BY <1>1 DEF CommitRotation, Txs
<1>3. lock[f] = p /\ rowLock[<<f, s>>] = p /\ refresh[f][s] = "live"
    BY <1>1, <1>2 DEF Inv, RotatorOK
<1>4. s + 1 \in Seqs /\ s + 1 # s
    BY <1>1, FamilyAssumption DEF Seqs
<1>5. \A g \in Families, t \in Seqs :
        /\ access'[g][t] = IF g = f /\ t = s + 1 THEN "live" ELSE access[g][t]
        /\ refresh'[g][t] = IF g = f /\ t = s + 1 THEN "live"
                            ELSE IF g = f /\ t = s THEN "dead" ELSE refresh[g][t]
    BY <1>2, <1>4 DEF Inv, TypeOK
<1>6. access' \in [Families -> [Seqs -> Status]] /\ refresh' \in [Families -> [Seqs -> Status]]
    BY <1>2, <1>4 DEF Inv, TypeOK, Status
<1>7. rot[p] \in Rotator /\ rot' \in [Rotators -> Rotator]
    BY <1>2 DEF Inv, TypeOK, Rotator
<1>8. TypeOK'
    BY <1>2, <1>6, <1>7, ReleaseTypes DEF Inv, TypeOK
<1>9. LiveIsUnique'
    BY <1>3, <1>5 DEF Inv, LiveIsUnique
<1>10. RotatorOK(p)'
    BY <1>1, <1>2, <1>7 DEF RotatorOK, Inv, TypeOK, Rotator, Rows
<1>11. \A q \in Rotators : RotatorOK(q)'
    <2> SUFFICES ASSUME NEW q \in Rotators, q # p PROVE RotatorOK(q)'
        BY <1>10
    <2>1. Keeps(q) /\ rot'[q] = rot[q]
        BY <1>2, ReleaseKeeps DEF Inv, TypeOK, Txs
    <2>2. ASSUME rot[q].pc = "commit"
          PROVE  refresh'[rot[q].row[1]][rot[q].row[2]] = "live"
        <3>1. PICK g \in Families, t \in Seqs : rot[q].row = <<g, t>>
            BY <2>2 DEF Inv, RotatorOK, Rows
        <3>2. lock[g] = q /\ refresh[g][t] = "live"
            BY <2>2, <3>1 DEF Inv, RotatorOK
        <3> QED
            BY <1>3, <1>5, <3>1, <3>2
    <2> QED
        BY <2>1, <2>2, RotatorKept DEF Inv
<1>12. \A c \in Cutters : CutterOK(c)'
    <2> TAKE c \in Cutters
    <2>1. Keeps(c) /\ c # p
        BY <1>2, ReleaseKeeps, FamilyAssumption DEF Inv, Txs
    <2>2. CutterOK(c) /\ cut[c] \in Cutter /\ cut'[c] = cut[c]
        BY <1>2 DEF Inv, TypeOK
    <2>3. cut[c].saw \subseteq Families /\ cut[c].refreshRows \subseteq Rows
        BY <2>2 DEF Cutter
    <2>4. \A g \in cut[c].saw : Exists(g)'
        BY <1>5, <2>2, <2>3 DEF CutterOK, Exists
    <2>5. CASE cut[c].pc \in {"begin", "lock", "done"}
        BY <2>1, <2>2, <2>4, <2>5 DEF CutterOK, Keeps, Cutter
    <2>6. CASE cut[c].pc \notin {"begin", "lock", "done"}
        <3>1. f \notin cut[c].saw
            BY <1>3, <2>1, <2>2, <2>6 DEF CutterOK
        <3>2. LiveAccess(cut[c].saw)' = LiveAccess(cut[c].saw)
            BY <1>5, <2>2, <3>1 DEF LiveAccess, Rows
        <3>3. LiveRefresh(cut[c].saw)' = LiveRefresh(cut[c].saw)
            BY <1>5, <2>2, <3>1 DEF LiveRefresh, Rows
        <3> QED
            BY <2>1, <2>2, <2>3, <2>4, <3>2, <3>3 DEF CutterOK, Keeps
    <2> QED
        BY <2>5, <2>6
<1> QED
    BY <1>8, <1>9, <1>11, <1>12 DEF Inv

\* A login opens a family that has no row, so nobody has seen it.
LEMMA LoginInv ==
    ASSUME Inv, NEW f \in Families, Login(f)
    PROVE  Inv'
<1>1. /\ lock' = lock /\ rowLock' = rowLock /\ cut' = cut /\ rot' = rot
      /\ access' = [access EXCEPT ![f] = NewFamily] /\ refresh' = [refresh EXCEPT ![f] = NewFamily]
      /\ \A s \in Seqs : refresh[f][s] = "none"
    BY DEF Login, NoFamily
<1>2. NewFamily \in [Seqs -> Status] /\ \A s \in Seqs : NewFamily[s] = "live" => s = 0
    BY DEF NewFamily, Status
<1>3. TypeOK'
    BY <1>1, <1>2 DEF Inv, TypeOK
<1>4. LiveIsUnique'
    BY <1>1, <1>2 DEF Inv, TypeOK, LiveIsUnique
<1>5. \A t \in Txs : Keeps(t)
    BY <1>1 DEF Keeps
<1>6. \A g \in Families \ {f} : access'[g] = access[g] /\ refresh'[g] = refresh[g]
    BY <1>1 DEF Inv, TypeOK
<1>7. \A p \in Rotators : RotatorOK(p)'
    <2> TAKE p \in Rotators
    <2>1. ASSUME rot[p].pc = "commit"
          PROVE  refresh'[rot[p].row[1]][rot[p].row[2]] = "live"
        <3>1. PICK g \in Families, s \in Seqs : rot[p].row = <<g, s>>
            BY <2>1 DEF Inv, RotatorOK, Rows
        <3>2. refresh[g][s] = "live"
            BY <2>1, <3>1 DEF Inv, RotatorOK
        <3> QED
            BY <1>1, <1>6, <3>1, <3>2
    <2> QED
        BY <1>1, <1>5, <2>1, RotatorKept DEF Inv, Txs
<1>8. \A c \in Cutters : CutterOK(c)'
    <2> TAKE c \in Cutters
    <2>1. CutterOK(c) /\ cut[c] \in Cutter /\ cut'[c] = cut[c]
        BY <1>1 DEF Inv, TypeOK
    <2>2. cut[c].saw \subseteq Families \ {f}
        BY <1>1, <2>1 DEF Cutter, CutterOK, Exists
    <2>3. LiveAccess(cut[c].saw)' = LiveAccess(cut[c].saw)
        BY <1>6, <2>1, <2>2 DEF LiveAccess, Rows
    <2>4. LiveRefresh(cut[c].saw)' = LiveRefresh(cut[c].saw)
        BY <1>6, <2>1, <2>2 DEF LiveRefresh, Rows
    <2>5. \A g \in cut[c].saw : Exists(g)'
        BY <1>6, <2>1, <2>2 DEF CutterOK, Exists
    <2> QED
        BY <1>1, <2>1, <2>3, <2>4, <2>5 DEF CutterOK
<1> QED
    BY <1>3, <1>4, <1>7, <1>8 DEF Inv

-----------------------------------------------------------------------------
LEMMA NextInv == Inv /\ [Next]_vars => Inv'
<1> SUFFICES ASSUME Inv, [Next]_vars PROVE Inv'
    OBVIOUS
<1>1. ASSUME NEW c \in Cutters, SelectFamilies(c) \/ CutterStep(c) PROVE Inv'
    BY <1>1, CutterMoves, LockFamilyInv, EndRefreshUpdateInv, CommitCutInv DEF CutterStep
<1>2. ASSUME NEW p \in Rotators, NEW r \in Rows, PresentToken(p, r) PROVE Inv'
    BY <1>2, PresentTokenInv
<1>3. ASSUME NEW p \in Rotators, RotatorStep(p) PROVE Inv'
    BY <1>3, LockTokenFamilyInv, FindRefreshTokenInv, RefusedInv, CommitRotationInv DEF RotatorStep
<1>4. ASSUME NEW f \in Families, Login(f) PROVE Inv'
    BY <1>4, LoginInv
<1>5. CASE UNCHANGED vars
    <2>1. TypeOK' /\ LiveIsUnique'
        BY <1>5 DEF vars, Inv, TypeOK, LiveIsUnique, Exists, LiveRefresh
    <2>2. \A p \in Rotators : RotatorOK(p)'
        BY <1>5 DEF vars, Inv, RotatorOK, Exists, LiveRefresh
    <2>3. \A p \in Cutters : CutterOK(p)'
        <3>1. UNCHANGED <<access, refresh, lock, rowLock, cut>>
            BY <1>5, Zenon DEF vars
        <3>2. ASSUME NEW p \in Cutters PROVE CutterOK(p)'
            <4>1. CutterOK(p)
                BY Zenon DEF Inv
            <4> QED BY <3>1, <4>1, Zenon DEF CutterOK, Exists, LiveAccess, LiveRefresh
        <3> QED BY <3>2, Zenon
    <2> QED BY <2>1, <2>2, <2>3 DEF Inv
<1> QED
    BY <1>1, <1>2, <1>3, <1>4, <1>5 DEF Next

(* The inductive invariant holds in every behaviour.                         *)
THEOREM Invariance == Spec => []Inv
    BY InitInv, NextInv, PTL DEF Spec

(* The tables, the locks and what every transaction has read keep their      *)
(* types: in particular no row leaves the three states of a token row.       *)
THEOREM TypeCorrect == Spec => []TypeOK
<1>1. Inv => TypeOK
    BY DEF Inv
<1> QED
    BY <1>1, Invariance, PTL

(* However rotations, replays and revocations of a family overlap, it never  *)
(* has two usable refresh tokens.                                            *)
THEOREM OneLiveTokenAlways == Spec => []OneLiveToken
<1>1. Inv => OneLiveToken
    <2> SUFFICES ASSUME Inv, NEW f \in Families
                 PROVE  Cardinality({s \in Seqs : refresh[f][s] = "live"}) <= 1
        BY DEF OneLiveToken
    <2> DEFINE L == {s \in Seqs : refresh[f][s] = "live"}
    <2>1. L = {} \/ \E s \in L : L = {s}
        BY DEF Inv, LiveIsUnique
    <2> HIDE DEF L
    <2>2. Cardinality(L) <= 1
        BY <2>1, FS_EmptySet, FS_Singleton
    <2> QED
        BY <2>2 DEF L
<1> QED
    BY <1>1, Invariance, PTL

(* Only its own commit ends a revocation.                                    *)
LEMMA CommitStep ==
    ASSUME Inv, Next, NEW c \in Cutters, cut[c].pc = "commit", cut'[c].pc = "done"
    PROVE  CommitCut(c)
<1>1. ASSUME NEW d \in Cutters, SelectFamilies(d) \/ CutterStep(d) PROVE CommitCut(c)
    <2>1. CASE d = c
        BY <1>1, <2>1
        DEF CutterStep, SelectFamilies, LockFamily, StartAccessUpdate, EndAccessUpdate,
            StartRefreshUpdate, EndRefreshUpdate
    <2>2. CASE d # c
        BY <1>1, <2>2
        DEF CutterStep, SelectFamilies, LockFamily, StartAccessUpdate, EndAccessUpdate,
            StartRefreshUpdate, EndRefreshUpdate, CommitCut, Inv, TypeOK
    <2> QED
        BY <2>1, <2>2
<1>2. ASSUME NEW p \in Rotators, NEW r \in Rows, PresentToken(p, r) PROVE FALSE
    BY <1>2 DEF PresentToken
<1>3. ASSUME NEW p \in Rotators, RotatorStep(p) PROVE FALSE
    BY <1>3 DEF RotatorStep, LockTokenFamily, FindRefreshTokenForUpdate, RollBack, CutOnReplay, CommitRotation
<1>4. ASSUME NEW f \in Families, Login(f) PROVE FALSE
    BY <1>4 DEF Login
<1> QED
    BY <1>1, <1>2, <1>3, <1>4 DEF Next

(* When a revocation commits, no token of a family it saw is usable any more: *)
(* the rotation that was in flight either committed before the UPDATEs looked, *)
(* or waits for the family lock and is refused (lockLiveTokenFamilies).       *)
THEOREM NoTokenEscapes == Spec => NoRotationEscapes
<1> DEFINE A == \A c \in Cutters, f \in Families :
                    cut[c].pc = "commit" /\ cut'[c].pc = "done" /\ f \in cut[c].saw
                    => \A s \in Seqs : refresh'[f][s] # "live" /\ access'[f][s] # "live"
<1>1. Inv /\ [Next]_vars => [A]_vars
    <2> SUFFICES ASSUME Inv, Next, NEW c \in Cutters, NEW f \in Families, NEW s \in Seqs,
                        cut[c].pc = "commit", cut'[c].pc = "done", f \in cut[c].saw
                 PROVE  refresh'[f][s] # "live" /\ access'[f][s] # "live"
        BY DEF vars
    <2>1. CommitCut(c)
        BY CommitStep
    <2>2. /\ access[f][s] = "live" => <<f, s>> \in cut[c].accessRows
          /\ refresh[f][s] = "live" => <<f, s>> \in cut[c].refreshRows
        BY DEF Inv, CutterOK, LiveAccess, LiveRefresh, Rows
    <2>3. /\ access'[f][s] = IF <<f, s>> \in cut[c].accessRows THEN "dead" ELSE access[f][s]
          /\ refresh'[f][s] = IF <<f, s>> \in cut[c].refreshRows THEN "dead" ELSE refresh[f][s]
        BY <2>1 DEF CommitCut, Revoked
    <2> QED
        BY <2>2, <2>3
<1>2. Spec => [][A]_vars
    BY <1>1, Invariance, PTL DEF Spec
<1> QED
    BY <1>2 DEF NoRotationEscapes

(* Both invariants of the statement-by-statement model in one.                   *)
THEOREM FamiliesAreSound == Spec => []FamiliesSound
BY TypeCorrect, OneLiveTokenAlways, PTL DEF FamiliesSound
=============================================================================
