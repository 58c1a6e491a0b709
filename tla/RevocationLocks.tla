--------------------------- MODULE RevocationLocks ---------------------------
(***************************************************************************)
(* The revocations and rotations of token.go statement by statement, under *)
(* PostgreSQL's READ COMMITTED: a statement sees the rows committed when   *)
(* it starts, waits for the row locks of others, and re-checks a row it    *)
(* waited for, but never sees a row inserted after it started.  The family *)
(* advisory lock and its order are what the code adds to that.             *)
(*                                                                         *)
(* The row locks of one UPDATE are taken together.  Families are numbered  *)
(* in the order of their family_id.                                        *)
(***************************************************************************)
EXTENDS Naturals, FiniteSets

CONSTANTS
    Families,       \* numbers, in the order of family_id
    Opened,         \* the families logged in before the transactions start
    Cutters,        \* the transactions that revoke
    Covers,         \* cutter -> the families its predicate (or family_id) matches
    Single,         \* the cutters that are RevokeFamily
    Rotators,       \* the transactions that rotate
    None,
    MaxSeq

ASSUME FamilyAssumption ==
    /\ Families \subseteq Nat /\ IsFiniteSet(Families)
    /\ Opened \subseteq Families
    /\ Covers \in [Cutters -> SUBSET Families]
    /\ Single \subseteq Cutters /\ \A c \in Single : Cardinality(Covers[c]) = 1
    /\ Cutters \cap Rotators = {}
    /\ None \notin Cutters \cup Rotators
    /\ MaxSeq \in Nat

VARIABLES
    access, refresh,    \* committed rows: family -> sequence -> status
    lock,               \* holder of each family advisory lock
    rowLock,            \* holder of the row lock of each live refresh row
    cut,                \* what each cutter has done so far
    rot                 \* what each rotator has done so far

vars == <<access, refresh, lock, rowLock, cut, rot>>

Seqs == 0..MaxSeq
Rows == Families \X Seqs
Status == {"none", "live", "dead"}
Txs == Cutters \cup Rotators

\* saw: the families the lock statement read; todo: those it has still to lock;
\* snap: the rows the running UPDATE read when it started.
Cutter == [pc: {"begin", "lock", "access", "between", "refresh", "commit", "done"},
           saw: SUBSET Families, todo: SUBSET Families,
           accessRows: SUBSET Rows, snap: SUBSET Rows, refreshRows: SUBSET Rows]
Rotator == [pc: {"begin", "lock", "read", "commit", "done"},
            row: Rows \cup {None}]

TypeOK ==
    /\ access \in [Families -> [Seqs -> Status]]
    /\ refresh \in [Families -> [Seqs -> Status]]
    /\ lock \in [Families -> Txs \cup {None}]
    /\ rowLock \in [Rows -> Txs \cup {None}]
    /\ cut \in [Cutters -> Cutter]
    /\ rot \in [Rotators -> Rotator]

NewFamily == [s \in Seqs |-> IF s = 0 THEN "live" ELSE "none"]
NoFamily == [s \in Seqs |-> "none"]

Init ==
    /\ access = [f \in Families |-> IF f \in Opened THEN NewFamily ELSE NoFamily]
    /\ refresh = access
    /\ lock = [f \in Families |-> None]
    /\ rowLock = [r \in Rows |-> None]
    /\ cut = [c \in Cutters |-> [pc |-> "begin", saw |-> {}, todo |-> {},
                accessRows |-> {}, snap |-> {}, refreshRows |-> {}]]
    /\ rot = [p \in Rotators |-> [pc |-> "begin", row |-> None]]

Live(f) == \E s \in Seqs : refresh[f][s] = "live"
LiveAccess(F) == {r \in Rows : r[1] \in F /\ access[r[1]][r[2]] = "live"}
LiveRefresh(F) == {r \in Rows : r[1] \in F /\ refresh[r[1]][r[2]] = "live"}

Revoked(table, R) ==
    [f \in Families |-> [s \in Seqs |-> IF <<f, s>> \in R THEN "dead" ELSE table[f][s]]]
ReleaseAll(t) ==
    /\ lock' = [f \in Families |-> IF lock[f] = t THEN None ELSE lock[f]]
    /\ rowLock' = [r \in Rows |-> IF rowLock[r] = t THEN None ELSE rowLock[r]]

-----------------------------------------------------------------------------
(* A revocation.  By user or client the families to lock are the ones with a *)
(* live row (lockLiveTokenFamilies); RevokeFamily locks the one it was given. *)

\* Mutant: the bulk revocations go straight to their UPDATEs.
SelectFamiliesUnlocked(c) ==
    LET F == IF c \in Single THEN Covers[c] ELSE {f \in Covers[c] : Live(f)}  IN
    /\ cut[c].pc = "begin"
    /\ c \in Single => \A f \in Covers[c] : refresh[f] # NoFamily
    /\ cut' = [cut EXCEPT ![c].pc = "lock", ![c].saw = F]
    /\ UNCHANGED <<access, refresh, lock, rowLock, rot>>

SelectFamilies(c) ==
    LET F == IF c \in Single THEN Covers[c] ELSE {f \in Covers[c] : Live(f)}  IN
    /\ cut[c].pc = "begin"
    /\ c \in Single => \A f \in Covers[c] : refresh[f] # NoFamily
    /\ cut' = [cut EXCEPT ![c].pc = "lock", ![c].saw = F, ![c].todo = F]
    /\ UNCHANGED <<access, refresh, lock, rowLock, rot>>

\* Mutant: without ORDER BY the locks are taken in any order.
LockFamilyUnordered(c, f) ==
    /\ cut[c].pc = "lock"
    /\ f \in cut[c].todo
    /\ lock[f] = None
    /\ lock' = [lock EXCEPT ![f] = c]
    /\ cut' = [cut EXCEPT ![c].todo = @ \ {f}]
    /\ UNCHANGED <<access, refresh, rowLock, rot>>

LockFamily(c, f) ==
    /\ cut[c].pc = "lock"
    /\ f \in cut[c].todo
    /\ \A g \in cut[c].todo : f <= g
    /\ lock[f] = None
    /\ lock' = [lock EXCEPT ![f] = c]
    /\ cut' = [cut EXCEPT ![c].todo = @ \ {f}]
    /\ UNCHANGED <<access, refresh, rowLock, rot>>

\* An UPDATE starts: its snapshot is what is committed now ...
StartAccessUpdate(c) ==
    /\ cut[c].pc = "lock" /\ cut[c].todo = {}
    /\ cut' = [cut EXCEPT ![c].pc = "access", ![c].snap = LiveAccess(Covers[c])]
    /\ UNCHANGED <<access, refresh, lock, rowLock, rot>>

\* The access rows the other revocations have updated and not committed.
AccessLocked(c) ==
    UNION {cut[d].accessRows : d \in {d \in Cutters \ {c} :
                                        cut[d].pc \in {"between", "refresh", "commit"}}}

\* ... and ends: it waits for the rows of others and re-checks them, but a row
\* inserted meanwhile is not in its snapshot.
EndAccessUpdate(c) ==
    /\ cut[c].pc = "access"
    /\ cut[c].snap \cap AccessLocked(c) = {}
    /\ cut' = [cut EXCEPT ![c].pc = "between",
            ![c].accessRows = cut[c].snap \cap LiveAccess(Covers[c])]
    /\ UNCHANGED <<access, refresh, lock, rowLock, rot>>

StartRefreshUpdate(c) ==
    /\ cut[c].pc = "between"
    /\ cut' = [cut EXCEPT ![c].pc = "refresh", ![c].snap = LiveRefresh(Covers[c])]
    /\ UNCHANGED <<access, refresh, lock, rowLock, rot>>

EndRefreshUpdate(c) ==
    LET R == cut[c].snap \cap LiveRefresh(Covers[c])  IN
    /\ cut[c].pc = "refresh"
    /\ \A r \in cut[c].snap : rowLock[r] = None
    /\ rowLock' = [r \in Rows |-> IF r \in R THEN c ELSE rowLock[r]]
    /\ cut' = [cut EXCEPT ![c].pc = "commit", ![c].refreshRows = R]
    /\ UNCHANGED <<access, refresh, lock, rot>>

CommitCut(c) ==
    /\ cut[c].pc = "commit"
    /\ access' = Revoked(access, cut[c].accessRows)
    /\ refresh' = Revoked(refresh, cut[c].refreshRows)
    /\ cut' = [cut EXCEPT ![c].pc = "done"]
    /\ ReleaseAll(c)
    /\ UNCHANGED rot

-----------------------------------------------------------------------------
(* A rotation, and a login. *)

\* FindRefreshToken, before the transaction, saw the row live.
PresentToken(p, r) ==
    /\ rot[p].pc = "begin"
    /\ refresh[r[1]][r[2]] = "live"
    /\ r[2] < MaxSeq
    /\ rot' = [rot EXCEPT ![p] = [pc |-> "lock", row |-> r]]
    /\ UNCHANGED <<access, refresh, lock, rowLock, cut>>

LockTokenFamily(p) ==
    /\ rot[p].pc = "lock"
    /\ lock[rot[p].row[1]] = None
    /\ lock' = [lock EXCEPT ![rot[p].row[1]] = p]
    /\ rot' = [rot EXCEPT ![p].pc = "read"]
    /\ UNCHANGED <<access, refresh, rowLock, cut>>

AccessRevoked(f) == \E s \in Seqs : access[f][s] = "dead"

\* Mutant: the rotation does not look at the family's access tokens.
FindRefreshTokenOnly(p) ==
    /\ rot[p].pc = "read"
    /\ rowLock[rot[p].row] = None
    /\ refresh[rot[p].row[1]][rot[p].row[2]] = "live"
    /\ rowLock' = [rowLock EXCEPT ![rot[p].row] = p]
    /\ rot' = [rot EXCEPT ![p].pc = "commit"]
    /\ UNCHANGED <<access, refresh, lock, cut>>

\* findRefreshTokenForUpdate waits for the row, then the checks pass.
FindRefreshTokenForUpdate(p) ==
    LET f == rot[p].row[1]  s == rot[p].row[2]  IN
    /\ rot[p].pc = "read"
    /\ rowLock[rot[p].row] = None
    /\ refresh[f][s] = "live"
    /\ ~AccessRevoked(f)
    /\ rowLock' = [rowLock EXCEPT ![rot[p].row] = p]
    /\ rot' = [rot EXCEPT ![p].pc = "commit"]
    /\ UNCHANGED <<access, refresh, lock, cut>>

\* The row is dead: ErrTokenReplayWithinGrace or SessionRevokedError rolls back.
RollBack(p) ==
    /\ rot[p].pc = "read"
    /\ rowLock[rot[p].row] = None
    /\ refresh[rot[p].row[1]][rot[p].row[2]] # "live"
    /\ rot' = [rot EXCEPT ![p].pc = "done"]
    /\ ReleaseAll(p)
    /\ UNCHANGED <<access, refresh, cut>>

\* tokenFamilyHasRevokedAccess, or a replay past the grace window: the rotation
\* cuts the family itself, waiting for the rows another revocation is writing.
CutOnReplay(p) ==
    LET f == rot[p].row[1]  IN
    /\ rot[p].pc = "read"
    /\ AccessRevoked(f) \/ refresh[f][rot[p].row[2]] = "dead"
    /\ \A r \in Rows : r[1] = f => rowLock[r] = None
    /\ LiveAccess({f}) \cap AccessLocked(p) = {}
    /\ access' = Revoked(access, LiveAccess({f}))
    /\ refresh' = Revoked(refresh, LiveRefresh({f}))
    /\ rot' = [rot EXCEPT ![p].pc = "done"]
    /\ ReleaseAll(p)
    /\ UNCHANGED cut

\* Mutant: the rotated token stays usable.
CommitRotationUnmarked(p) ==
    LET f == rot[p].row[1]  s == rot[p].row[2]  IN
    /\ rot[p].pc = "commit"
    /\ access' = [access EXCEPT ![f][s + 1] = "live"]
    /\ refresh' = [refresh EXCEPT ![f][s + 1] = "live"]
    /\ rot' = [rot EXCEPT ![p].pc = "done"]
    /\ ReleaseAll(p)
    /\ UNCHANGED cut

CommitRotation(p) ==
    LET f == rot[p].row[1]  s == rot[p].row[2]  IN
    /\ rot[p].pc = "commit"
    /\ access' = [access EXCEPT ![f][s + 1] = "live"]
    /\ refresh' = [refresh EXCEPT ![f] =
            [@ EXCEPT ![s] = "dead", ![s + 1] = "live"]]
    /\ rot' = [rot EXCEPT ![p].pc = "done"]
    /\ ReleaseAll(p)
    /\ UNCHANGED cut

\* CreatePairWithAudit inserts two rows and takes no lock a revocation waits for.
Login(f) ==
    /\ refresh[f] = NoFamily /\ access[f] = NoFamily
    /\ access' = [access EXCEPT ![f] = NewFamily]
    /\ refresh' = [refresh EXCEPT ![f] = NewFamily]
    /\ UNCHANGED <<lock, rowLock, cut, rot>>

-----------------------------------------------------------------------------
CutterStep(c) ==
    \/ \E f \in Families : LockFamily(c, f)
    \/ StartAccessUpdate(c) \/ EndAccessUpdate(c)
    \/ StartRefreshUpdate(c) \/ EndRefreshUpdate(c)
    \/ CommitCut(c)

RotatorStep(p) ==
    \/ LockTokenFamily(p) \/ FindRefreshTokenForUpdate(p)
    \/ RollBack(p) \/ CutOnReplay(p) \/ CommitRotation(p)

Next ==
    \/ \E c \in Cutters : SelectFamilies(c) \/ CutterStep(c)
    \/ \E p \in Rotators, r \in Rows : PresentToken(p, r)
    \/ \E p \in Rotators : RotatorStep(p)
    \/ \E f \in Families : Login(f)

\* The server runs every transaction it has begun.
Fairness ==
    /\ \A c \in Cutters : WF_vars(CutterStep(c))
    /\ \A p \in Rotators : WF_vars(RotatorStep(p))

Spec == Init /\ [][Next]_vars /\ Fairness

-----------------------------------------------------------------------------
(* A family never has two usable refresh tokens, although rotations and         *)
(* revocations of it overlap (the family lock of rotateRefreshToken).           *)
OneLiveToken ==
    \A f \in Families : Cardinality({s \in Seqs : refresh[f][s] = "live"}) <= 1

(* When a revocation commits, every family that was alive when it selected its  *)
(* families has no usable token left: no rotation in flight escapes it          *)
(* (lockLiveTokenFamilies).                                                     *)
NoRotationEscapes ==
    [][\A c \in Cutters, f \in Families :
            cut[c].pc = "commit" /\ cut'[c].pc = "done" /\ f \in cut[c].saw
            => \A s \in Seqs : refresh'[f][s] # "live" /\ access'[f][s] # "live"]_vars

(* A session opened after a revocation selected its families can be half cut:   *)
(* its first access token revoked and a rotated refresh token left.  The next   *)
(* refresh that no other overtakes ends it (tokenFamilyHasRevokedAccess).       *)
NextRefreshEndsHalfCut ==
    \A p \in Rotators, f \in Families :
        (/\ rot[p].pc = "lock" /\ rot[p].row[1] = f
         /\ refresh[f][rot[p].row[2]] = "live" /\ AccessRevoked(f)
         /\ \A q \in Rotators : rot[q].pc = "commit" => rot[q].row[1] # f)
        ~> ~Live(f)

(* Every revocation finishes: the transactions never wait for each other in a   *)
(* circle (ORDER BY family_id, family lock before row lock).                    *)
RevocationsFinish ==
    \A c \in Cutters : cut[c].pc = "lock" ~> cut[c].pc = "done"

(* The state of the statement-by-statement model: types, and one usable token a *)
(* family between any two statements.                                           *)
FamiliesSound == TypeOK /\ OneLiveToken
=============================================================================
