-------------------------- MODULE AccountDirectory --------------------------
(***************************************************************************)
(* The "user" table under its administrative writers: console create,      *)
(* update (single and batch), close and restore; alumni tickets, submitted *)
(* and reviewed; binding of a mailbox; the retention sweep's recompute of  *)
(* derived states and its purge of closed accounts.                        *)
(*                                                                         *)
(* Every writer is one PostgreSQL transaction under READ COMMITTED: it     *)
(* takes its locks one at a time, judges after each what the code judges   *)
(* there, and its writes appear at commit.  A student ID s also stands for *)
(* the mailbox s@njupt.edu.cn; IDs and addresses are folded (lower case,   *)
(* trimmed).  Audit rows, names, phones and the like are left out.         *)
(***************************************************************************)
EXTENDS Integers, Sequences

CONSTANTS
    Calls, NoCall,
    Users, NoUser,          \* rows of the table, some absent
    Sids, NoSid,            \* student IDs, and the mailboxes of that name
    FreeMails,              \* login addresses that name nobody (@sast.fun)
    Personal,               \* the one mailbox outside the school
    Tickets, NoTicket,
    Roles,
    Starts,                 \* the tables a behaviour may start from, its menu of
                            \* operations and how many of them arrive
    Asked,                  \* the edits the console asks for
    Drafts                  \* the [role, sid, mail] of new accounts and tickets

Mails == Sids \union FreeMails
Addresses == Mails \union {Personal}
Locks == {"gate", "sweep", "assign", "admin"} \union Users \union Tickets \union Addresses

VARIABLES
    row,            \* user -> the row, or Absent
    bound,          \* the user whose other_mail identity Personal is
    ticket,         \* alumni tickets
    lock,           \* lock -> the transaction that holds it
    call,           \* transactions, from the first read of the service on
    graduated,      \* student IDs that the academic year has retired
    menu, left      \* the operations that may still arrive

vars == <<row, bound, ticket, lock, call, graduated, menu, left>>

-----------------------------------------------------------------------------
(* Rows, tickets and calls. *)

Live == {"njupter", "on_sast", "retired"}
UserRow == [st: Live \union {"closed", "absent"}, role: Roles, sid: Sids \union {NoSid},
            mail: Mails \union {NoSid}, manual: BOOLEAN, due: BOOLEAN]
Absent == [st |-> "absent", role |-> "member", sid |-> NoSid, mail |-> NoSid, manual |-> FALSE, due |-> FALSE]

Exists(u) == row[u].st # "absent"
IsLive(u) == row[u].st \in Live

TicketRow == [st: {"none", "pending", "approved", "rejected"}, intent: {"provision", "recover"},
              sid: Sids \union {NoSid}, mail: Mails \union {NoSid}, acct: Users \union {NoUser}]
NoRequest == [st |-> "none", intent |-> "provision", sid |-> NoSid, mail |-> NoSid, acct |-> NoUser]

\* One edit of an update; "none" elsewhere.
Edits == [f: {"role"}, v: Roles] \union [f: {"sid"}, v: Sids] \union [f: {"mail"}, v: Mails]
           \union [f: {"pin"}, v: Live] \union [f: {"auto", "personal", "none"}, v: {NoSid}]
NoEdit == [f |-> "none", v |-> NoSid]

Ops == {"create", "update", "batch", "close", "restore", "bind", "submit", "approve", "recover",
        "reject", "recompute", "purge"}

\* A table and tickets the database accepts: complete rows, unique names, and an administrator.
SoundStart(s) ==
    /\ s.row \in [Users -> UserRow] /\ s.ticket \in [Tickets -> TicketRow]
    /\ s.menu \subseteq Ops /\ s.left \in Nat
    /\ \A u \in Users :
         IF s.row[u].st = "absent" THEN s.row[u] = Absent
         ELSE /\ s.row[u].sid \in Sids /\ s.row[u].mail \in Mails /\ (s.row[u].due => s.row[u].st = "closed")
              /\ \A v \in Users \ {u} : s.row[v].st # "absent" =>
                   /\ s.row[u].sid \notin {s.row[v].sid, s.row[v].mail} /\ s.row[u].mail # s.row[v].mail
    /\ \E u \in Users : s.row[u].st \in Live /\ s.row[u].role = "admin"
    /\ \A t \in Tickets : s.ticket[t].st = "pending" => s.ticket[t].sid \in Sids /\ s.ticket[t].mail \in Mails

ASSUME DirectoryAssumption ==
    /\ {NoCall} \intersect Calls = {} /\ {NoUser} \intersect Users = {}
    /\ NoSid \notin Mails /\ Personal \notin Mails /\ NoTicket \notin Tickets
    /\ {"member", "admin"} \subseteq Roles /\ Asked \subseteq Edits \ {NoEdit} /\ Drafts \subseteq [role: Roles, sid: Sids, mail: Mails]

ASSUME StartAssumption == \A s \in Starts : SoundStart(s)

\* Row ids, ticket ids, addresses and advisory keys are locked under names of their own.
ASSUME LockAssumption ==
    /\ Users \intersect Tickets = {} /\ Users \intersect Addresses = {} /\ Tickets \intersect Addresses = {}
    /\ \A l \in {"gate", "sweep", "assign", "admin"} : l \notin Users \union Tickets \union Addresses

Idle == [pc |-> "idle", op |-> "update", user |-> NoUser, by |-> NoUser, as |-> "member",
         edit |-> NoEdit, ticket |-> NoTicket, k |-> 1, new |-> Absent, todo |-> {}, drv |-> <<>>,
         req |-> NoRequest]

\* Types; and only a closed account carries the stamp a purge counts from (RestoreUser clears it).
TypeOK ==
    /\ row \in [Users -> UserRow] /\ \A u \in Users : row[u].due => row[u].st = "closed"
    /\ bound \in Users \union {NoUser}
    /\ ticket \in [Tickets -> TicketRow]
    /\ lock \in [Locks -> Calls \union {NoCall}]
    /\ \A p \in Calls : /\ call[p].pc \in {"idle", "check", "lock", "commit"} /\ call[p].op \in Ops
                        /\ call[p].user \in Users \union {NoUser} /\ call[p].by \in Users \union {NoUser}
                        /\ call[p].edit \in Edits /\ call[p].new \in UserRow /\ call[p].k \in 1..6
                        /\ call[p].as \in Roles /\ call[p].todo \subseteq Users
                        /\ call[p].ticket \in Tickets \union {NoTicket} /\ call[p].req \in TicketRow
    /\ graduated \subseteq Sids /\ menu \subseteq Ops /\ left \in Nat

-----------------------------------------------------------------------------
(* The rules the writers share. *)

\* validate.DeriveState.
DeriveState(role, sid) ==
    IF sid \in graduated THEN "retired"
    ELSE IF role \in {"lecturer", "admin"} THEN "on_sast" ELSE "njupter"

\* ExistsByStudentIDExcluding and FindLoginEmailByStudentID: the owners of an ID.
StudentIDOwners(sid, except) == {v \in Users \ {except} : Exists(v) /\ row[v].sid = sid}
\* UnmatchedNjuptPrefix: the ID a school mailbox names, unless it is the row's own.
UnmatchedNjuptPrefix(mail, sid) == IF mail \in Sids /\ mail # sid THEN mail ELSE NoSid

\* Mutant: the guard looks at the student ID only.
GuardStudentIDOnly(u, sid, mail) == sid # NoSid => StudentIDOwners(sid, u) = {}

\* guardIdentityAssignment: nobody else has the ID or its mailbox; the mailbox
\* names nobody else.
GuardIdentityAssignment(u, sid, mail) ==
    /\ sid # NoSid => /\ StudentIDOwners(sid, u) = {}
                      /\ \A v \in Users \ {u} : row[v].mail # sid
    /\ UnmatchedNjuptPrefix(mail, NoSid) # NoSid => StudentIDOwners(mail, u) = {}

\* Mutant: a closed administrator counts.
AnyOtherAdmin(u) == \E v \in Users \ {u} : Exists(v) /\ row[v].role = "admin"

\* ensureAnotherAdminRemains, judged on committed rows.
EnsureAnotherAdminRemains(u) ==
    \/ \E v \in Users \ {u} : IsLive(v) /\ row[v].role = "admin"
    \/ ~(IsLive(u) /\ row[u].role = "admin")

\* The V005 triggers and unique indexes: is the address free for user u to take?
LoginMailFree(u, mail) == \A v \in Users \ {u} : Exists(v) => row[v].mail # mail
PersonalFree == bound = NoUser

-----------------------------------------------------------------------------
(* Lock order. *)

\* Mutant: the row is read before the guard is taken.
RowThenGuard(c) == <<c.user, "admin">>

\* A close counts administrators under the guard, then locks the row.
GuardThenRow(c) == <<"admin", c.user>>

\* identity_assignment.go: assignment, admin guard, user or ticket, identity
\* (the advisory lock the triggers take on an address).
LocksOf(c) ==
    LET f == c.edit.f
    IN  CASE c.op = "create"  -> IF f = "personal" THEN <<"assign", c.new.mail, Personal>>
                                 ELSE <<"assign", c.new.mail>>
          [] c.op \in {"update", "batch"} ->
               CASE f = "sid"      -> <<"assign", "admin", c.user>>
                 [] f = "mail"     -> <<"assign", "admin", c.user, c.edit.v>>
                 [] f = "personal" -> <<"admin", c.user, Personal>>
                 [] OTHER          -> <<"admin", c.user>>
          [] c.op = "close"   -> GuardThenRow(c)
          [] c.op = "restore" -> <<c.user>>
          [] c.op = "bind"    -> <<c.user, Personal>>
          [] c.op = "approve" -> <<"assign", c.ticket, c.new.mail, Personal>>
          [] c.op = "recover" -> <<"assign", c.ticket, c.user, Personal>>
          [] c.op = "reject"  -> <<c.ticket>>
          [] OTHER            -> <<>>

\* A transaction is over, committed or rolled back.
End(p) ==
    /\ lock' = [l \in Locks |-> IF lock[l] = p THEN NoCall ELSE lock[l]]
    /\ call' = [call EXCEPT ![p] = Idle]

\* The same for one user of a batch: the gate stays and the next user is edited.
Over(p) ==
    \/ call[p].todo = {} /\ End(p)
    \/ \E u \in call[p].todo :
        /\ lock' = [l \in Locks |-> IF lock[l] = p /\ l # "gate" THEN NoCall ELSE lock[l]]
        /\ call' = [call EXCEPT ![p].pc = "check", ![p].user = u, ![p].todo = @ \ {u},
                                ![p].k = 1, ![p].new = Absent]

-----------------------------------------------------------------------------
(* What the services read before they open a transaction. *)

Begin(p, c) ==
    /\ call[p].pc = "idle" /\ c.op \in menu /\ left > 0
    /\ left' = left - 1
    /\ call' = [call EXCEPT ![p] = c]
    /\ UNCHANGED <<row, bound, ticket, lock, graduated, menu>>

Callers == {u \in Users : IsLive(u) /\ row[u].role \in {"admin", "manager"}}
Console(op, by, u) == [Idle EXCEPT !.pc = "check", !.op = op, !.user = u, !.by = by, !.as = row[by].role]

\* The manager boundary as UpdateUser and refuseManagerOnAdminTarget draw it.
RefuseManagerOnAdminTarget(c) == c.as # "admin" /\ row[c.user].role = "admin"

\* UpdateUser up to its call of UpdateAdminUser, read from rows nobody has locked.
UpdateUser(c) ==
    LET u == c.user
        f == c.edit.f
        v == c.edit.v
    IN  /\ IsLive(u)
        /\ f = "sid" => StudentIDOwners(v, u) = {}
        /\ f = "mail" /\ UnmatchedNjuptPrefix(v, row[u].sid) # NoSid => StudentIDOwners(v, u) = {}
        /\ ~(f = "role" /\ v # row[u].role /\ u = c.by)
        /\ ~RefuseManagerOnAdminTarget(c)
        /\ c.as # "admin" => f \notin {"personal", "mail"} /\ ~(f = "role" /\ v = "admin")

DeleteUser(c) == c.user # c.by /\ ~RefuseManagerOnAdminTarget(c)
RestoreUser(c) == ~RefuseManagerOnAdminTarget(c)

\* CreateUser up to CreateAdminUser.
CreateUser(c) ==
    /\ c.as # "admin" => c.new.role # "admin" /\ c.edit.f # "personal"
    /\ StudentIDOwners(c.new.sid, NoUser) = {}
    /\ UnmatchedNjuptPrefix(c.new.mail, c.new.sid) # NoSid => StudentIDOwners(c.new.mail, NoUser) = {}
    /\ c.edit.f = "personal" => bound = NoUser

\* checkOccupancy, for the ticket about to be submitted.
CheckOccupancy(t) ==
    /\ IF t.intent = "recover"
       THEN \E v \in StudentIDOwners(t.sid, NoUser) : row[v].mail = t.mail
       ELSE /\ LoginMailFree(NoUser, t.mail)
            /\ StudentIDOwners(t.sid, NoUser) = {}
    /\ \A x \in Tickets : ticket[x].st # "pending"      \* every ticket names Personal
    /\ bound = NoUser

\* Approve dispatches on the intent; approveProvision looks the prefix up.
Approve(c) ==
    LET t == ticket[c.ticket]
    IN  c.op = "approve" /\ UnmatchedNjuptPrefix(t.mail, t.sid) # NoSid => StudentIDOwners(t.mail, NoUser) = {}

Admitted(c) ==
    CASE c.op \in {"update", "batch"} -> UpdateUser(c)
      [] c.op = "close"   -> DeleteUser(c)
      [] c.op = "restore" -> RestoreUser(c)
      [] c.op = "create"  -> CreateUser(c)
      [] c.op \in {"approve", "recover"} -> Approve(c)
      [] OTHER            -> TRUE

-----------------------------------------------------------------------------
(* What a transaction judges once it holds a lock. *)

\* Mutant: the boundary is the service's business alone.
UpdateWithoutBoundary(c) ==
    LET stored == row[c.user]
        f == c.edit.f
        v == c.edit.v
    IN  /\ IsLive(c.user)
        /\ ~(f = "role" /\ v # stored.role /\ c.by = c.user)
        /\ f = "role" /\ v # "admin" /\ stored.role = "admin" => EnsureAnotherAdminRemains(c.user)

\* UpdateAdminUser against the locked row.
UpdateAdminUserMay(c) ==
    LET stored == row[c.user]
        f == c.edit.f
        v == c.edit.v
    IN  /\ IsLive(c.user)
        /\ ~(f = "role" /\ v # stored.role /\ c.by = c.user)
        /\ c.as # "admin" => stored.role # "admin" /\ ~(f = "role" /\ v = "admin")
        /\ f = "role" /\ v # "admin" /\ stored.role = "admin" => EnsureAnotherAdminRemains(c.user)

\* The columns it writes.  A state pins; state_auto derives and unpins.
AdminUserUpdate(c) ==
    LET stored == row[c.user]
        f == c.edit.f
        v == c.edit.v
    IN  CASE f = "role" -> [stored EXCEPT !.role = v]
          [] f = "sid"  -> [stored EXCEPT !.sid = v]
          [] f = "mail" -> [stored EXCEPT !.mail = v]
          [] f = "pin"  -> [stored EXCEPT !.st = v, !.manual = TRUE]
          [] f = "auto" -> [stored EXCEPT !.st = DeriveState(stored.role, stored.sid), !.manual = FALSE]
          [] OTHER      -> stored

\* SoftDeleteAndRevokeSessions: the row it closes must still be open.
SoftDeleteMay(c) == IsLive(c.user) /\ ~RefuseManagerOnAdminTarget(c)
Closed(c) == [row[c.user] EXCEPT !.st = "closed", !.due = FALSE]

\* RestoreUser of the repository.
RestoreMay(c) == row[c.user].st = "closed" /\ ~RefuseManagerOnAdminTarget(c)
Restored(c) ==
    LET stored == row[c.user]
    IN  [stored EXCEPT !.st = DeriveState(stored.role, stored.sid), !.manual = FALSE, !.due = FALSE]

\* lockPendingRequest.
LockPendingRequest(c) == ticket[c.ticket].st = "pending"

\* ApproveAlumniRequest under the ticket lock: the folded ID is free, and
\* guardNewUserAssignment agrees.
ApproveAlumniRequest(c) ==
    LET t == ticket[c.ticket]
    IN  /\ LockPendingRequest(c) /\ t.intent = "provision"
        /\ StudentIDOwners(t.sid, NoUser) = {}
        /\ GuardIdentityAssignment(NoUser, t.sid, t.mail)

\* buildAccount: a member, in the derived state.
BuildAccount(t) ==
    [Absent EXCEPT !.st = DeriveState("member", t.sid), !.sid = t.sid, !.mail = t.mail]

\* ApproveAlumniRequestRecover: one owner of the ID, whose row is locked next.
RecoverTarget(c) ==
    /\ LockPendingRequest(c) /\ ticket[c.ticket].intent = "recover"
    /\ \E v \in Users : StudentIDOwners(ticket[c.ticket].sid, NoUser) = {v}

\* Mutant: the row is trusted to be what the submission saw.
RecoverAnyRow(c) == Exists(c.user)

\* It is open, and still has the login address the ticket names.
RecoverMay(c) == IsLive(c.user) /\ row[c.user].mail = ticket[c.ticket].mail

Judge(c, l) ==
    CASE l = "assign" -> /\ c.op = "update" => GuardIdentityAssignment(c.user,
                                IF c.edit.f = "sid" THEN c.edit.v ELSE NoSid,
                                IF c.edit.f = "mail" THEN c.edit.v ELSE NoSid)
                         /\ c.op = "create" => GuardIdentityAssignment(NoUser, c.new.sid, c.new.mail)
      [] l = "admin"  -> c.op = "close" => EnsureAnotherAdminRemains(c.user)
      [] l \in Users  -> CASE c.op \in {"update", "batch"} -> UpdateAdminUserMay(c)
                           [] c.op = "close"   -> SoftDeleteMay(c)
                           [] c.op = "restore" -> RestoreMay(c)
                           [] c.op = "recover" -> RecoverMay(c)
                           [] OTHER            -> IsLive(c.user)        \* CreateWithinLimit
      [] l \in Tickets -> CASE c.op = "approve" -> ApproveAlumniRequest(c)
                            [] c.op = "recover" -> RecoverTarget(c)
                            [] OTHER            -> LockPendingRequest(c)
      [] l \in Mails   -> LoginMailFree(c.user, l)
      [] OTHER         -> PersonalFree

\* What the transaction has read or built by then.
Loaded(c, l) ==
    CASE l \in Users -> [c EXCEPT !.new = CASE c.op \in {"update", "batch"} -> AdminUserUpdate(c)
                                            [] c.op = "close"   -> Closed(c)
                                            [] c.op = "restore" -> Restored(c)
                                            [] OTHER            -> row[c.user]]
      [] l \in Tickets /\ c.op = "approve" -> [c EXCEPT !.new = BuildAccount(ticket[l])]
      [] l \in Tickets /\ c.op = "recover" ->
            [c EXCEPT !.user = CHOOSE u \in StudentIDOwners(ticket[l].sid, NoUser) : TRUE]
      [] OTHER -> c

-----------------------------------------------------------------------------
(* Actions: requests arrive. *)

Fresh(u) == ~Exists(u) /\ \A p \in Calls : call[p].user # u

StartUpdate(p) == \E by \in Callers, u \in Users, e \in Asked :
    Exists(u) /\ Begin(p, [Console("update", by, u) EXCEPT !.edit = e])

\* BatchUpdateUsers: one role for several users, behind the process-wide gate.
BatchUpdateUsers(p) == \E by \in Callers, v \in Roles :
    /\ call[p].pc = "idle" /\ "batch" \in menu /\ left > 0
    /\ lock["gate"] = NoCall
    /\ \E u \in Users : Exists(u) /\ call' = [call EXCEPT ![p] = [Console("batch", by, u) EXCEPT
            !.edit = [f |-> "role", v |-> v], !.todo = {w \in Users : Exists(w)} \ {u}]]
    /\ lock' = [lock EXCEPT !["gate"] = p]
    /\ left' = left - 1
    /\ UNCHANGED <<row, bound, ticket, graduated, menu>>

\* ctx.Err() between two items.
BatchCancelled(p) ==
    /\ call[p].op = "batch" /\ call[p].pc = "check"
    /\ End(p) /\ UNCHANGED <<row, bound, ticket, graduated, menu, left>>

StartClose(p) == \E by \in Callers, u \in Users : Exists(u) /\ Begin(p, Console("close", by, u))
StartRestore(p) == \E by \in Callers, u \in Users : Exists(u) /\ Begin(p, Console("restore", by, u))

\* A new account, in the derived state unless one is asked for, which pins it.
StartCreate(p) == \E by \in Callers, u \in Users, d \in Drafts,
                     e \in {x \in Asked : x.f \in {"pin", "personal"}} \union {NoEdit} :
    /\ Fresh(u)
    /\ Begin(p, [Console("create", by, u) EXCEPT !.edit = e,
           !.new = [Absent EXCEPT !.st = IF e.f = "pin" THEN e.v ELSE DeriveState(d.role, d.sid),
                                  !.manual = (e.f = "pin"), !.role = d.role,
                                  !.sid = d.sid, !.mail = d.mail]])

\* The verified code of a bind (Registration) ends in CreateWithinLimit.
StartBind(p) == \E u \in Users :
    IsLive(u) /\ bound = NoUser /\ Begin(p, [Idle EXCEPT !.pc = "lock", !.op = "bind", !.user = u])

Submit(p) == \E t \in Tickets, i \in {"provision", "recover"}, d \in Drafts :
    LET req == [NoRequest EXCEPT !.st = "pending", !.intent = i, !.sid = d.sid, !.mail = d.mail]
    IN  /\ ticket[t].st = "none" /\ \A q \in Calls : call[q].ticket # t
        /\ CheckOccupancy(req)
        /\ Begin(p, [Idle EXCEPT !.pc = "commit", !.op = "submit", !.ticket = t, !.req = req])

StartApprove(p) == \E t \in Tickets, u \in Users :
    /\ ticket[t].st # "none"
    /\ IF ticket[t].intent = "provision"
       THEN Fresh(u) /\ Begin(p, [Idle EXCEPT !.pc = "check", !.op = "approve", !.ticket = t, !.user = u])
       ELSE Begin(p, [Idle EXCEPT !.pc = "check", !.op = "recover", !.ticket = t])

Reject(p) == \E t \in Tickets :
    ticket[t].st # "none" /\ Begin(p, [Idle EXCEPT !.pc = "lock", !.op = "reject", !.ticket = t])

\* The service reads, then opens the transaction or refuses.
Check(p) ==
    /\ call[p].pc = "check"
    /\ IF Admitted(call[p])
       THEN call' = [call EXCEPT ![p].pc = "lock"] /\ UNCHANGED lock
       ELSE Over(p)
    /\ UNCHANGED <<row, bound, ticket, graduated, menu, left>>

\* The transaction takes its next lock and judges; a refusal rolls it back.
TakeLock(p) ==
    /\ call[p].pc = "lock" /\ call[p].op # "recompute"
    /\ LET c == call[p]
           l == LocksOf(c)[c.k]
       IN  /\ lock[l] = NoCall
           /\ IF Judge(c, l)
              THEN /\ lock' = [lock EXCEPT ![l] = p]
                   /\ call' = [call EXCEPT ![p] = [Loaded(c, l) EXCEPT !.k = c.k + 1,
                                  !.pc = IF c.k = Len(LocksOf(c)) THEN "commit" ELSE "lock"]]
              ELSE Over(p)
    /\ UNCHANGED <<row, bound, ticket, graduated, menu, left>>

Writes(c) == c.op \in {"create", "update", "batch", "close", "restore", "approve"}
Binds(c) == c.op \in {"bind", "approve", "recover"} \/ c.edit.f = "personal"

\* writeApprovalVerdict and the two other verdicts of a ticket.
Verdict(c) ==
    CASE c.op \in {"approve", "recover"} -> [ticket[c.ticket] EXCEPT !.st = "approved", !.acct = c.user]
      [] c.op = "reject" -> [ticket[c.ticket] EXCEPT !.st = "rejected"]
      [] OTHER           -> c.req

Commit(p) ==
    LET c == call[p]
    IN  /\ c.pc = "commit" /\ c.op \notin {"recompute", "purge", "submit"}
        /\ row' = IF Writes(c) THEN [row EXCEPT ![c.user] = c.new] ELSE row
        /\ bound' = IF Binds(c) THEN c.user ELSE bound
        /\ ticket' = IF c.ticket = NoTicket THEN ticket ELSE [ticket EXCEPT ![c.ticket] = Verdict(c)]
        /\ Over(p)
        /\ UNCHANGED <<graduated, menu, left>>

\* AlumniRequestRepository.Create, under the pending-student index.
CreateTicket(p) ==
    LET c == call[p]
    IN  /\ c.pc = "commit" /\ c.op = "submit"
        /\ ticket' = IF \E x \in Tickets : ticket[x].st = "pending" /\ ticket[x].sid = c.req.sid
                     THEN ticket ELSE [ticket EXCEPT ![c.ticket] = Verdict(c)]
        /\ End(p)
        /\ UNCHANGED <<row, bound, graduated, menu, left>>

-----------------------------------------------------------------------------
(* The retention sweep. *)

Unpinned(u) == IsLive(u) /\ ~row[u].manual

\* TryLock: one sweep at a time, over all instances.
TryLock(p, c, rows) ==
    /\ call[p].pc = "idle" /\ c.op \in menu /\ left > 0
    /\ lock["sweep"] = NoCall
    /\ lock' = [l \in Locks |-> IF l \in rows \union {"sweep"} THEN p ELSE lock[l]]

Sweep(p, c, rows) ==
    /\ TryLock(p, c, rows)
    /\ call' = [call EXCEPT ![p] = c]
    /\ left' = left - 1
    /\ UNCHANGED <<row, bound, ticket, graduated, menu>>

\* RecomputeDerivedState reads a batch and remembers the rows that diverge ...
RecomputeRead(p) ==
    LET diverges == {u \in Users : Unpinned(u) /\ DeriveState(row[u].role, row[u].sid) # row[u].st}
    IN  /\ diverges # {}
        /\ Sweep(p, [Idle EXCEPT !.pc = "lock", !.op = "recompute",
                         !.drv = [u \in diverges |-> DeriveState(row[u].role, row[u].sid)]], {})

\* Mutant: the UPDATE does not repeat state_manual = FALSE.
StillOpen(u) == IsLive(u)

\* The WHERE of its UPDATE, evaluated on the row once it is locked.
StillUnpinned(u) == Unpinned(u)

\* ... and updates them in one statement, waiting for each row in turn.
RecomputeTake(p) ==
    LET c == call[p]
    IN  /\ c.pc = "lock" /\ c.op = "recompute"
        /\ \E u \in DOMAIN c.drv :
            /\ lock[u] = NoCall
            /\ IF StillUnpinned(u)
               THEN lock' = [lock EXCEPT ![u] = p] /\ UNCHANGED call
               ELSE /\ call' = [call EXCEPT ![p].drv = [w \in DOMAIN c.drv \ {u} |-> c.drv[w]]]
                    /\ UNCHANGED lock
        /\ UNCHANGED <<row, bound, ticket, graduated, menu, left>>

RecomputeDerivedState(p) ==
    LET c == call[p]
    IN  /\ c.pc = "lock" /\ c.op = "recompute"
        /\ \A u \in DOMAIN c.drv : lock[u] = p
        /\ row' = [u \in Users |-> IF u \in DOMAIN c.drv THEN [row[u] EXCEPT !.st = c.drv[u]] ELSE row[u]]
        /\ End(p)
        /\ UNCHANGED <<bound, ticket, graduated, menu, left>>

Due(u) == row[u].st = "closed" /\ row[u].due

\* PurgeDeletedUsers: SELECT ... FOR UPDATE SKIP LOCKED.
PurgeSelect(p) ==
    LET rows == {u \in Users : Due(u) /\ lock[u] = NoCall}
    IN  rows # {} /\ Sweep(p, [Idle EXCEPT !.pc = "commit", !.op = "purge", !.todo = rows], rows)

\* The DELETE, and what it cascades to: identities go, tickets forget the account.
PurgeRows(p, gone) ==
    /\ call[p].pc = "commit" /\ call[p].op = "purge"
    /\ row' = [u \in Users |-> IF u \in gone THEN Absent ELSE row[u]]
    /\ bound' = IF bound \in gone THEN NoUser ELSE bound
    /\ ticket' = [t \in Tickets |-> IF ticket[t].acct \in gone THEN [ticket[t] EXCEPT !.acct = NoUser] ELSE ticket[t]]
    /\ End(p)
    /\ UNCHANGED <<graduated, menu, left>>

PurgeDeletedUsers(p) ==
    \/ PurgeSelect(p)
    \/ PurgeRows(p, {u \in call[p].todo : Due(u)})

\* deleteBatch over alumni_requests: only tickets with a verdict.
DeleteExpiredAlumniRequests(t) ==
    /\ "reject" \in menu /\ ticket[t].st \in {"approved", "rejected"} /\ lock[t] = NoCall
    /\ \A p \in Calls : call[p].ticket # t
    /\ ticket' = [ticket EXCEPT ![t] = NoRequest]
    /\ UNCHANGED <<row, bound, lock, call, graduated, menu, left>>

-----------------------------------------------------------------------------
(* Time. *)

GracePasses(u) ==
    /\ "purge" \in menu /\ row[u].st = "closed" /\ ~row[u].due
    /\ row' = [row EXCEPT ![u].due = TRUE]
    /\ UNCHANGED <<bound, ticket, lock, call, graduated, menu, left>>

\* The first of September retires a cohort.
NewAcademicYear(s) ==
    /\ "recompute" \in menu /\ s \notin graduated
    /\ graduated' = graduated \union {s}
    /\ UNCHANGED <<row, bound, ticket, lock, call, menu, left>>

-----------------------------------------------------------------------------
(* Init: an administrator, and what else the instance starts with. *)

Init ==
    /\ \E s \in Starts : row = s.row /\ ticket = s.ticket /\ menu = s.menu /\ left = s.left
    /\ bound = NoUser /\ graduated = {}
    /\ lock = [l \in Locks |-> NoCall] /\ call = [p \in Calls |-> Idle]

Next ==
    \/ \E p \in Calls :
        \/ StartUpdate(p) \/ BatchUpdateUsers(p) \/ BatchCancelled(p) \/ StartClose(p) \/ StartRestore(p)
        \/ StartCreate(p) \/ StartBind(p) \/ Submit(p) \/ StartApprove(p) \/ Reject(p)
        \/ Check(p) \/ TakeLock(p) \/ Commit(p) \/ CreateTicket(p)
        \/ RecomputeRead(p) \/ RecomputeTake(p) \/ RecomputeDerivedState(p) \/ PurgeDeletedUsers(p)
    \/ \E t \in Tickets : DeleteExpiredAlumniRequests(t)
    \/ \E u \in Users : GracePasses(u)
    \/ \E s \in Sids : NewAcademicYear(s)

Spec == Init /\ [][Next]_vars

-----------------------------------------------------------------------------
(* Properties. *)

\* An open account with the admin role remains, however demotions, closes and
\* batches of several administrators interleave (ensureAnotherAdminRemains).
AdminRemains == \E u \in Users : IsLive(u) /\ row[u].role = "admin"

\* A student ID names one account: nobody else has it as student_id, and nobody
\* else logs in with its school mailbox (guardIdentityAssignment: consoles,
\* registrations and approvals that all looked before any of them wrote).
OneAccountPerStudent ==
    \A u, v \in Users : u # v /\ Exists(u) /\ Exists(v) =>
        /\ row[u].sid # row[v].sid /\ row[u].mail # row[v].mail
        /\ row[u].mail # row[v].sid

\* The locks a transaction may be waiting for.
Wants(p) ==
    LET c == call[p]
    IN  IF c.pc # "lock" THEN {}
        ELSE IF c.op = "recompute" THEN {u \in DOMAIN c.drv : lock[u] # p}
        ELSE {LocksOf(c)[c.k]}

\* No set of transactions waits for itself: the documented order of advisory,
\* row and address locks is one every writer keeps (identity_assignment.go).
NoLockCycle ==
    \A S \in (SUBSET Calls) \ {{}} : \E p \in S : \A l \in Wants(p) : lock[l] \notin S

Commits(p) == call[p].pc = "commit" /\ call'[p] # call[p]
ConsoleWrite(p) == Commits(p) /\ call[p].op \in {"create", "update", "batch", "close", "restore"}

\* A console write authorised for a manager never touches an account that is an
\* administrator's when it lands, grants the role, or asserts an address: the
\* target may be promoted after the service looked (UpdateAdminUser re-judges).
ManagerBoundary ==
    [][\A p \in Calls : ConsoleWrite(p) /\ call[p].as # "admin" =>
         /\ bound' = bound
         /\ \A u \in Users : row'[u] # row[u] =>
              /\ ~(Exists(u) /\ row[u].role = "admin") /\ row'[u].role # "admin"
              /\ Exists(u) => row'[u].mail = row[u].mail]_vars

\* Nobody changes their own role, not even back to what it was when their
\* request was admitted (the self-role guard repeated under the row lock).
NoSelfRoleChange ==
    [][\A p \in Calls : ConsoleWrite(p) /\ call[p].by \in Users =>
         row'[call[p].by].role = row[call[p].by].role]_vars

\* A pinned state is left to people: the sweep, which read the row before it was
\* pinned, does not overwrite it (RecomputeDerivedState).
PinSurvives ==
    [][\A u \in Users : row[u].manual /\ row'[u].st # row[u].st =>
         row[u].st = "closed" \/ \E p \in Calls : ConsoleWrite(p) /\ call[p].user = u]_vars

\* What is purged was closed, and its grace period was over, at that moment: a
\* restore or a second close in between wins (PurgeDeletedUsers).
PurgeHonoursGrace ==
    [][\A u \in Users : Exists(u) /\ row'[u].st = "absent" => Due(u)]_vars

\* A verdict is not written over, by a second reviewer or by the same button
\* (lockPendingRequest).
VerdictIsFinal ==
    [][\A t \in Tickets : ticket[t].st \in {"approved", "rejected"} =>
         ticket'[t].st \in {ticket[t].st, "none"}]_vars

\* An approval hands Personal to an account that, in the committed state, is
\* open and has the student ID and login address the ticket names.
ApprovalReachesOwner ==
    [][\A t \in Tickets : ticket[t].st = "pending" /\ ticket'[t].st = "approved" =>
         LET u == ticket'[t].acct
         IN  /\ bound' = u /\ row'[u].st \in Live
             /\ row'[u].sid = ticket[t].sid /\ row'[u].mail = ticket[t].mail]_vars

\* What holds of the table at every moment: its types, and one account a student.
DirectorySound == TypeOK /\ OneAccountPerStudent

\* The console's authority is judged on the row it writes: the manager boundary and the
\* self-role guard hold where the write lands.
ConsoleBoundary == ManagerBoundary /\ NoSelfRoleChange

\* The sweep leaves what people decided: pins, restores and second closes.
DecisionsStand == PinSurvives /\ PurgeHonoursGrace

\* A ticket is decided once, and an approval reaches the account it names.
VerdictHolds == VerdictIsFinal /\ ApprovalReachesOwner
=============================================================================
