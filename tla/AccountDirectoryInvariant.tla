--------------------- MODULE AccountDirectoryInvariant ----------------------
(***************************************************************************)
(* The inductive invariant of AccountDirectory, for any users, tickets,    *)
(* addresses and number of concurrent transactions, and the steps up to    *)
(* the last lock of a transaction.  What commits, and the theorems, are in *)
(* AccountDirectoryProofs.                                                 *)
(*                                                                         *)
(* The argument is rely-guarantee.  Judged(p) says that what p judged when *)
(* it took a lock is still so; Kept(p) says what p may rely on while       *)
(* others move: under "assign" names only disappear, under "admin" no      *)
(* administrator is lost, a locked row keeps its columns, a locked ticket  *)
(* its text.  Every step of another transaction guarantees Kept(p).        *)
(***************************************************************************)
EXTENDS AccountDirectory, TLAPS

-----------------------------------------------------------------------------
(* The inductive invariant. *)

\* The states a sweep has derived.
DerivedStates == UNION {[S -> Live] : S \in SUBSET Users}

CallRec == [pc: {"idle", "check", "lock", "commit"}, op: Ops, user: Users \union {NoUser},
            by: Users \union {NoUser}, as: Roles, edit: Edits, ticket: Tickets \union {NoTicket},
            k: Nat, new: UserRow, todo: SUBSET Users,
            drv: DerivedStates, req: TicketRow]

Typed ==
    /\ row \in [Users -> UserRow] /\ bound \in Users \union {NoUser}
    /\ ticket \in [Tickets -> TicketRow] /\ lock \in [Locks -> Calls \union {NoCall}]
    /\ call \in [Calls -> CallRec]
    /\ graduated \subseteq Sids /\ menu \subseteq Ops /\ left \in Nat

\* Complete rows, or none; a pending ticket names somebody.
RowsOK ==
    \A u \in Users : /\ row[u].st = "absent" => row[u] = Absent
                     /\ Exists(u) => row[u].sid \in Sids /\ row[u].mail \in Mails
                     /\ row[u].due => row[u].st = "closed"
TicketsOK == \A t \in Tickets : ticket[t].st = "pending" => ticket[t].sid \in Sids /\ ticket[t].mail \in Mails

Sweeps == {"recompute", "purge"}
Consoles == {"update", "batch", "close", "restore"}
Inserts == {"create", "approve"}

\* What the arguments of a call look like, and what the service has judged on them.
Shape(c) ==
    /\ c.pc = "idle" => c = Idle
    /\ c.pc = "check" => c.op \in Consoles \union Inserts \union {"recover"}
    /\ c.op \in {"submit", "purge"} => c.pc = "commit"
    /\ c.op = "recompute" => c.pc = "lock"
    /\ c.k >= 1 /\ (c.op \in Sweeps \union {"submit"} => c.k = 1)
    /\ c.pc # "idle" /\ c.op \in Consoles \union Inserts \union {"bind"} => c.user \in Users
    /\ c.op \in {"approve", "recover", "reject", "submit"} => c.ticket \in Tickets
    /\ c.op \notin {"approve", "recover", "reject", "submit"} => c.ticket = NoTicket
    /\ c.op = "batch" => c.edit.f = "role"
    /\ c.op \notin {"update", "batch", "create"} => c.edit.f = "none"
    /\ c.op = "create" => /\ c.edit.f \in {"pin", "personal", "none"} /\ c.by # c.user
                          /\ c.new.st \in Live /\ ~c.new.due /\ c.new.sid \in Sids /\ c.new.mail \in Mails
    /\ c.op \notin {"batch", "purge"} => c.todo = {}
    /\ c.op = "submit" => c.req.sid \in Sids /\ c.req.mail \in Mails
    /\ c.pc \in {"lock", "commit"} /\ c.as # "admin" =>
         /\ c.op \in {"update", "batch"} => c.edit.f \notin {"personal", "mail"}
         /\ c.op = "create" => c.new.role # "admin" /\ c.edit.f # "personal"

\* A transaction holds the locks it has passed, in their order ...
Place(p) ==
    LET c == call[p]
    IN  c.op \notin Sweeps \union {"submit"} =>
          /\ c.pc \in {"idle", "check"} => c.k = 1
          /\ c.pc = "lock" => c.k <= Len(LocksOf(c))
          /\ c.pc = "commit" => c.k = Len(LocksOf(c)) + 1
          /\ \A i \in 1..(c.k - 1) : LocksOf(c)[i] \in Locks /\ lock[LocksOf(c)[i]] = p

\* ... and no others.
Owned(p) ==
    LET c == call[p]
    IN  \A l \in Locks : lock[l] = p =>
          \/ l = "gate" /\ c.op = "batch"
          \/ l \in Users \union {"sweep"} /\ c.op \in Sweeps
          \/ c.op \notin Sweeps \union {"submit"} /\ \E i \in 1..(c.k - 1) : l = LocksOf(c)[i]

OtherAdmin(u) == \E v \in Users \ {u} : IsLive(v) /\ row[v].role = "admin"

\* What was judged under the assignment lock and the lock of an address.
JudgedNames(p) ==
    LET c == call[p]
    IN  /\ lock["assign"] = p /\ c.op = "update" =>
             GuardIdentityAssignment(c.user, IF c.edit.f = "sid" THEN c.edit.v ELSE NoSid,
                                             IF c.edit.f = "mail" THEN c.edit.v ELSE NoSid)
        /\ lock["assign"] = p /\ c.op = "create" => GuardIdentityAssignment(NoUser, c.new.sid, c.new.mail)
        /\ c.op = "update" /\ c.edit.f = "mail" /\ lock[c.edit.v] = p => LoginMailFree(c.user, c.edit.v)
        /\ c.op \in Inserts /\ c.new.mail \in Mails /\ lock[c.new.mail] = p => LoginMailFree(c.user, c.new.mail)

\* What was judged under the lock of a row, and what will be written there.
JudgedRow(p) ==
    LET c == call[p]
        u == c.user
        f == c.edit.f
        stored == row[u]
    IN  u \in Users /\ lock[u] = p =>
          /\ c.op \in {"update", "batch"} =>
               /\ IsLive(u) /\ c.new.st \in Live /\ ~c.new.due
               /\ c.new.role = IF f = "role" THEN c.edit.v ELSE stored.role
               /\ c.new.sid = IF f = "sid" THEN c.edit.v ELSE stored.sid
               /\ c.new.mail = IF f = "mail" THEN c.edit.v ELSE stored.mail
               /\ c.new.role # stored.role => c.by # u
               /\ c.as # "admin" => stored.role # "admin" /\ c.new.role # "admin"
               /\ stored.role = "admin" /\ c.new.role # "admin" => OtherAdmin(u)
          /\ c.op = "close" =>
               /\ IsLive(u) /\ c.new.st = "closed" /\ ~c.new.due
               /\ c.new.role = stored.role /\ c.new.sid = stored.sid /\ c.new.mail = stored.mail
               /\ c.as # "admin" => stored.role # "admin"
          /\ c.op = "restore" =>
               /\ stored.st = "closed" /\ c.new.st \in Live /\ ~c.new.due
               /\ c.new.role = stored.role /\ c.new.sid = stored.sid /\ c.new.mail = stored.mail
               /\ c.as # "admin" => stored.role # "admin"
          /\ c.op = "recover" => IsLive(u) /\ stored.mail = ticket[c.ticket].mail

\* What was judged under the lock of a ticket.
JudgedTicket(p) ==
    LET c == call[p]
        t == ticket[c.ticket]
    IN  c.ticket \in Tickets /\ lock[c.ticket] = p =>
          /\ t.st = "pending"
          /\ c.op = "approve" =>
               /\ GuardIdentityAssignment(NoUser, t.sid, t.mail)
               /\ c.new.st \in Live /\ ~c.new.due /\ c.new.sid = t.sid /\ c.new.mail = t.mail
          /\ c.op = "recover" => c.user \in Users /\ (Exists(c.user) => row[c.user].sid = t.sid)

\* The row and the ticket of an insert are nobody else's.
Reserved(p) ==
    LET c == call[p]
    IN  /\ c.op \in Inserts => row[c.user] = Absent
        /\ c.op = "submit" => ticket[c.ticket].st = "none"

\* What a sweep has locked.
Swept(p) ==
    LET c == call[p]
    IN  /\ c.op \in Sweeps => lock["sweep"] = p
        /\ c.op = "recompute" => \A u \in DOMAIN c.drv : lock[u] = p => Unpinned(u)
        /\ c.op = "purge" => \A u \in c.todo : lock[u] = p

CallOK(p) ==
    /\ Place(p) /\ Owned(p) /\ JudgedNames(p) /\ JudgedRow(p) /\ JudgedTicket(p)
    /\ (lock["admin"] = p /\ call[p].op = "close" => OtherAdmin(call[p].user))
    /\ Reserved(p) /\ Swept(p)

Distinct ==
    \A p, q \in Calls : p # q =>
      /\ call[p].op \in Inserts /\ call[q].op \in Inserts => call[p].user # call[q].user
      /\ call[p].op = "submit" => call[q].ticket # call[p].ticket

LockedExists == \A u \in Users : lock[u] # NoCall => Exists(u)

Inv ==
    /\ Typed /\ RowsOK /\ TicketsOK /\ OneAccountPerStudent /\ AdminRemains
    /\ (\A p \in Calls : Shape(call[p])) /\ (\A p \in Calls : CallOK(p))
    /\ Distinct /\ LockedExists

-----------------------------------------------------------------------------
(* The operators. *)

USE DirectoryAssumption, LockAssumption

\* A derived state is an open one.
LEMMA DerivedIsLive == ASSUME NEW r, NEW s PROVE DeriveState(r, s) \in Live
  BY Zenon DEF DeriveState, Live

\* The empty record of a call.
LEMMA IdleTyped == Idle \in CallRec
<1>1. Absent \in UserRow /\ NoRequest \in TicketRow /\ NoEdit \in Edits
  BY Zenon DEF Absent, UserRow, NoRequest, TicketRow, NoEdit, Edits
<1>2. <<>> \in DerivedStates
  <2>1. <<>> \in [{} -> Live]
    OBVIOUS
  <2>. QED BY <2>1, Zenon DEF DerivedStates
<1>. QED BY <1>1, <1>2, Zenon DEF Idle, CallRec, Ops

\* The values an edit carries.
LEMMA EditValues ==
  ASSUME NEW e \in Edits
  PROVE  /\ e.f \in {"role", "sid", "mail", "pin", "auto", "personal", "none"}
         /\ e.f = "role" => e.v \in Roles
         /\ e.f = "sid" => e.v \in Sids
         /\ e.f = "mail" => e.v \in Mails
         /\ e.f = "pin" => e.v \in Live
  BY Zenon DEF Edits

\* The locks of each kind of transaction.
LEMMA LockLists ==
  ASSUME NEW c \in CallRec
  PROVE  /\ c.op = "create" => LocksOf(c) = IF c.edit.f = "personal" THEN <<"assign", c.new.mail, Personal>>
                                            ELSE <<"assign", c.new.mail>>
         /\ c.op \in {"update", "batch"} /\ c.edit.f = "sid" => LocksOf(c) = <<"assign", "admin", c.user>>
         /\ c.op \in {"update", "batch"} /\ c.edit.f = "mail" => LocksOf(c) = <<"assign", "admin", c.user, c.edit.v>>
         /\ c.op \in {"update", "batch"} /\ c.edit.f = "personal" => LocksOf(c) = <<"admin", c.user, Personal>>
         /\ c.op \in {"update", "batch"} /\ c.edit.f \notin {"sid", "mail", "personal"} => LocksOf(c) = <<"admin", c.user>>
         /\ c.op = "close" => LocksOf(c) = <<"admin", c.user>>
         /\ c.op = "restore" => LocksOf(c) = <<c.user>>
         /\ c.op = "bind" => LocksOf(c) = <<c.user, Personal>>
         /\ c.op = "approve" => LocksOf(c) = <<"assign", c.ticket, c.new.mail, Personal>>
         /\ c.op = "recover" => LocksOf(c) = <<"assign", c.ticket, c.user, Personal>>
         /\ c.op = "reject" => LocksOf(c) = <<c.ticket>>
  BY Zenon DEF LocksOf, GuardThenRow

LEMMA LockCount ==
  ASSUME NEW c \in CallRec, c.op \in Ops \ {"recompute", "purge", "submit"}
  PROVE  Len(LocksOf(c)) \in 1..4
<1>1. CASE c.op = "create"
  BY <1>1, LockLists
<1>2. CASE c.op \in {"update", "batch"}
  <2>1. CASE c.edit.f = "sid"
    BY <1>2, <2>1, LockLists
  <2>2. CASE c.edit.f = "mail"
    BY <1>2, <2>2, LockLists
  <2>3. CASE c.edit.f = "personal"
    BY <1>2, <2>3, LockLists
  <2>4. CASE c.edit.f \notin {"sid", "mail", "personal"}
    BY <1>2, <2>4, LockLists
  <2>. QED BY <2>1, <2>2, <2>3, <2>4, Zenon
<1>3. CASE c.op = "close"
  BY <1>3, LockLists
<1>4. CASE c.op = "restore"
  BY <1>4, LockLists
<1>5. CASE c.op = "bind"
  BY <1>5, LockLists
<1>6. CASE c.op = "approve"
  BY <1>6, LockLists
<1>7. CASE c.op = "recover"
  BY <1>7, LockLists
<1>8. CASE c.op = "reject"
  BY <1>8, LockLists
<1>. QED BY <1>1, <1>2, <1>3, <1>4, <1>5, <1>6, <1>7, <1>8, Zenon DEF Ops

\* What the invariant says of one call.
LEMMA CallFacts ==
  ASSUME Inv, NEW p \in Calls
  PROVE  /\ call[p] \in CallRec /\ Shape(call[p]) /\ CallOK(p)
         /\ lock \in [Locks -> Calls \union {NoCall}] /\ row \in [Users -> UserRow]
         /\ ticket \in [Tickets -> TicketRow] /\ call \in [Calls -> CallRec]
         /\ call[p].edit \in Edits /\ call[p].k \in Nat /\ call[p].k >= 1
         /\ RowsOK /\ TicketsOK
  BY Zenon DEF Inv, Typed, CallRec, Shape

LEMMA IdleShape == Shape(Idle)
  BY DEF Shape, Idle, NoEdit, Consoles, Inserts, Sweeps

LEMMA AbsentFields == Absent.st = "absent" /\ \A u : row[u] = Absent => ~Exists(u)
<1>1. Absent.st = "absent"
  BY Zenon DEF Absent
<1>. QED BY <1>1, Zenon DEF Exists

LEMMA DerivedDomain == ASSUME NEW d \in DerivedStates PROVE DOMAIN d \subseteq Users
  BY DEF DerivedStates

\* An insert has its row, and nothing is there yet.
LEMMA InsertFacts ==
  ASSUME Inv, NEW p \in Calls, call[p].op \in Inserts
  PROVE  call[p].user \in Users /\ row[call[p].user] = Absent
<1>1. Idle.op \notin Inserts
  BY Zenon DEF Idle, Inserts
<1>2. Shape(call[p]) /\ CallOK(p)
  BY CallFacts, Zenon
<1>3. call[p].pc # "idle"
  BY <1>1, <1>2, Zenon DEF Shape
<1>. QED BY <1>2, <1>3, Zenon DEF Shape, CallOK, Reserved

\* The lock a transaction takes next.
LEMMA NextLock ==
  ASSUME Inv, NEW p \in Calls, call[p].pc = "lock", call[p].op # "recompute",
         NEW l, l = LocksOf(call[p])[call[p].k]
  PROVE  /\ l \in Locks /\ l \notin {"gate", "sweep"} /\ call[p].k \in 1..Len(LocksOf(call[p]))
         /\ l = "assign" => call[p].k = 1 /\ call[p].op \in {"create", "update", "approve", "recover"}
         /\ l = "admin" => call[p].op \in {"update", "batch", "close"}
         /\ l \in Users => l = call[p].user /\ call[p].op \in Consoles \union {"bind", "recover"}
         /\ l \in Tickets => l = call[p].ticket /\ call[p].op \in {"approve", "recover", "reject"}
         /\ l \in Tickets /\ call[p].op \in {"approve", "recover"} => call[p].k = 2
         /\ l \in Mails => \/ call[p].op \in Inserts /\ l = call[p].new.mail
                           \/ call[p].op = "update" /\ call[p].edit.f = "mail" /\ l = call[p].edit.v
<1>. DEFINE c == call[p]
<1>1. /\ c \in CallRec /\ Shape(c) /\ Place(p) /\ JudgedTicket(p) /\ TicketsOK /\ c.k \in Nat /\ c.k >= 1
      /\ c.edit \in Edits
  BY CallFacts, Zenon DEF CallOK
<1>2. c.op \in Ops \ {"recompute", "purge", "submit"} /\ l = LocksOf(c)[c.k]
  BY <1>1, Zenon DEF CallRec, Shape
<1>3. c.k \in 1..Len(LocksOf(c)) /\ \A i \in 1..(c.k - 1) : lock[LocksOf(c)[i]] = p
  <2>1. Len(LocksOf(c)) \in Nat
    BY <1>1, <1>2, LockCount
  <2>. QED BY <1>1, <1>2, <2>1 DEF Place, Sweeps
<1>4. CASE c.op = "create"
  BY <1>1, <1>3, <1>4, LockLists DEF Shape, Locks, Addresses, Mails, Inserts
<1>5. CASE c.op \in {"update", "batch"}
  <2>1. c.user \in Users
    BY <1>1, <1>5, Zenon DEF Shape, Consoles
  <2>2. CASE c.edit.f = "sid"
    BY <1>1, <1>3, <1>5, <2>1, <2>2, LockLists DEF Locks, Addresses, Mails, Consoles, Shape
  <2>3. CASE c.edit.f = "mail"
    <3>1. LocksOf(c) = <<"assign", "admin", c.user, c.edit.v>>
      BY <1>1, <1>5, <2>3, LockLists, Zenon
    <3>2. (c.k = 1 /\ l = "assign") \/ l = "admin" \/ l = c.user \/ l = c.edit.v
      BY ONLY <1>2, <1>3, <3>1
    <3>3. c.edit.v \in Mails /\ c.op = "update"
      BY <1>1, <1>5, <2>3, EditValues, Zenon DEF Shape
    <3>. QED BY <1>3, <2>1, <2>3, <3>2, <3>3, Zenon DEF Locks, Addresses, Consoles
  <2>4. CASE c.edit.f = "personal"
    <3>1. LocksOf(c) = <<"admin", c.user, Personal>>
      BY <1>1, <1>5, <2>4, LockLists, Zenon
    <3>2. l = "admin" \/ l = c.user \/ l = Personal
      BY ONLY <1>2, <1>3, <3>1
    <3>. QED BY <1>3, <1>5, <2>1, <3>2, Zenon DEF Locks, Addresses, Consoles
  <2>5. CASE c.edit.f \notin {"sid", "mail", "personal"}
    <3>1. LocksOf(c) = <<"admin", c.user>>
      BY <1>1, <1>5, <2>5, LockLists, Zenon
    <3>2. l = "admin" \/ l = c.user
      BY ONLY <1>2, <1>3, <3>1
    <3>. QED BY <1>3, <1>5, <2>1, <3>2, Zenon DEF Locks, Addresses, Consoles
  <2>. QED BY <2>2, <2>3, <2>4, <2>5, Zenon
<1>6. CASE c.op \in {"close", "restore", "bind"}
  <2>1. c.user \in Users
    BY <1>1, <1>6, Zenon DEF Shape, Consoles
  <2>. QED BY <1>1, <1>3, <1>6, <2>1, LockLists DEF Locks, Addresses, Consoles
<1>7. CASE c.op \in {"approve", "recover"}
  <2>1. c.ticket \in Tickets
    BY <1>1, <1>7, Zenon DEF Shape
  <2>2. LocksOf(c) = <<"assign", c.ticket, IF c.op = "approve" THEN c.new.mail ELSE c.user, Personal>>
    BY <1>1, <1>7, LockLists, Zenon
  <2>3. c.k > 2 => lock[c.ticket] = p
    BY <1>1, <1>3, <2>2
  <2>4. c.k > 2 => (c.op = "approve" => c.new.mail \in Mails) /\ (c.op = "recover" => c.user \in Users)
    BY <1>1, <2>1, <2>3, Zenon DEF JudgedTicket, TicketsOK
  <2>5. \/ c.k = 1 /\ l = "assign"
        \/ c.k = 2 /\ l = c.ticket
        \/ c.k > 2 /\ l = IF c.op = "approve" THEN c.new.mail ELSE c.user
        \/ l = Personal
    BY ONLY <1>2, <1>3, <2>2
  <2>6. CASE c.op = "approve"
    BY <1>3, <2>1, <2>4, <2>5, <2>6, Zenon DEF Locks, Addresses, Inserts
  <2>7. CASE c.op = "recover"
    BY <1>3, <2>1, <2>4, <2>5, <2>7, Zenon DEF Locks, Addresses
  <2>. QED BY <1>7, <2>6, <2>7, Zenon
<1>8. CASE c.op = "reject"
  <2>1. c.ticket \in Tickets
    BY <1>1, <1>8, Zenon DEF Shape
  <2>. QED BY <1>1, <1>3, <1>8, <2>1, LockLists DEF Locks, Addresses
<1>. QED BY <1>2, <1>4, <1>5, <1>6, <1>7, <1>8, Zenon DEF Ops

\* The locks a transaction holds when it commits.
LEMMA CommitHolds ==
  ASSUME Inv, NEW p \in Calls, call[p].pc = "commit", call[p].op \notin Sweeps \union {"submit"}
  PROVE  /\ call[p].op \in Consoles \union {"bind", "recover"} =>
              call[p].user \in Users /\ lock[call[p].user] = p
         /\ call[p].op \in Inserts =>
              /\ call[p].user \in Users /\ lock["assign"] = p
              /\ call[p].new.mail \in Mails /\ lock[call[p].new.mail] = p
         /\ call[p].op \in {"update", "batch", "close"} => lock["admin"] = p
         /\ call[p].op = "update" /\ call[p].edit.f \in {"sid", "mail"} => lock["assign"] = p
         /\ call[p].op = "update" /\ call[p].edit.f = "mail" => lock[call[p].edit.v] = p
         /\ call[p].op \in {"approve", "recover", "reject"} =>
              call[p].ticket \in Tickets /\ lock[call[p].ticket] = p
<1>. DEFINE c == call[p]
<1>1. /\ c \in CallRec /\ Shape(c) /\ Place(p) /\ JudgedTicket(p) /\ TicketsOK /\ c.k \in Nat /\ c.k >= 1
      /\ c.edit \in Edits
  BY CallFacts, Zenon DEF CallOK
<1>2. c.op \in Ops \ {"recompute", "purge", "submit"}
  BY <1>1, Zenon DEF CallRec, Sweeps
<1>3. \A i \in 1..Len(LocksOf(c)) : lock[LocksOf(c)[i]] = p
  <2>1. Len(LocksOf(c)) \in Nat
    BY <1>1, <1>2, LockCount
  <2>. QED BY <1>1, <1>2, <2>1 DEF Place, Sweeps
<1>4. CASE c.op = "create"
  <2>1. Len(LocksOf(c)) >= 2 /\ LocksOf(c)[1] = "assign" /\ LocksOf(c)[2] = c.new.mail
    BY <1>1, <1>4, LockLists
  <2>2. Len(LocksOf(c)) \in Nat
    BY <1>1, <1>2, LockCount
  <2>3. lock["assign"] = p /\ lock[c.new.mail] = p
    BY <1>3, <2>1, <2>2
  <2>4. c.user \in Users /\ c.new.mail \in Mails
    BY <1>1, <1>4, Zenon DEF Shape, Inserts
  <2>. QED BY <1>4, <2>3, <2>4, Zenon DEF Inserts, Consoles
<1>5. CASE c.op \in {"update", "batch"}
  <2>1. c.user \in Users
    BY <1>1, <1>5, Zenon DEF Shape, Consoles
  <2>2. CASE c.edit.f = "sid"
    <3>1. LocksOf(c) = <<"assign", "admin", c.user>>
      BY <1>1, <1>5, <2>2, LockLists, Zenon
    <3>2. lock["assign"] = p /\ lock["admin"] = p /\ lock[c.user] = p
      BY <1>3, <3>1
    <3>. QED BY <1>5, <2>1, <2>2, <3>2, Zenon DEF Consoles, Inserts
  <2>3. CASE c.edit.f = "mail"
    <3>1. LocksOf(c) = <<"assign", "admin", c.user, c.edit.v>>
      BY <1>1, <1>5, <2>3, LockLists, Zenon
    <3>2. lock["assign"] = p /\ lock["admin"] = p /\ lock[c.user] = p /\ lock[c.edit.v] = p
      BY <1>3, <3>1
    <3>. QED BY <1>5, <2>1, <2>3, <3>2, Zenon DEF Consoles, Inserts
  <2>4. CASE c.edit.f = "personal"
    <3>1. LocksOf(c) = <<"admin", c.user, Personal>>
      BY <1>1, <1>5, <2>4, LockLists, Zenon
    <3>2. lock["admin"] = p /\ lock[c.user] = p
      BY <1>3, <3>1
    <3>. QED BY <1>5, <2>1, <2>4, <3>2, Zenon DEF Consoles, Inserts
  <2>5. CASE c.edit.f \notin {"sid", "mail", "personal"}
    <3>1. LocksOf(c) = <<"admin", c.user>>
      BY <1>1, <1>5, <2>5, LockLists, Zenon
    <3>2. lock["admin"] = p /\ lock[c.user] = p
      BY <1>3, <3>1
    <3>. QED BY <1>5, <2>1, <2>5, <3>2, Zenon DEF Consoles, Inserts
  <2>. QED BY <2>2, <2>3, <2>4, <2>5, Zenon
<1>6. CASE c.op \in {"close", "restore", "bind"}
  <2>1. c.user \in Users
    BY <1>1, <1>6, Zenon DEF Shape, Consoles
  <2>2. c.op = "close" => lock["admin"] = p /\ lock[c.user] = p
    BY <1>1, <1>3, LockLists
  <2>3. c.op = "restore" => lock[c.user] = p
    <3>1. c.op = "restore" => Len(LocksOf(c)) = 1 /\ LocksOf(c)[1] = c.user
      BY <1>1, LockLists
    <3>. QED BY <1>3, <3>1
  <2>4. c.op = "bind" => lock[c.user] = p
    BY <1>1, <1>3, LockLists, SMTT(60)
  <2>. QED BY <1>6, <2>1, <2>2, <2>3, <2>4, Zenon DEF Consoles, Inserts
<1>7. CASE c.op \in {"approve", "recover"}
  <2>1. c.ticket \in Tickets
    BY <1>1, <1>7, Zenon DEF Shape
  <2>2. LocksOf(c) = <<"assign", c.ticket, IF c.op = "approve" THEN c.new.mail ELSE c.user, Personal>>
    BY <1>1, <1>7, LockLists, Zenon
  <2>3. lock["assign"] = p /\ lock[c.ticket] = p /\ lock[IF c.op = "approve" THEN c.new.mail ELSE c.user] = p
    BY <1>3, <2>2
  <2>4. (c.op = "approve" => c.new.mail \in Mails /\ c.user \in Users) /\ (c.op = "recover" => c.user \in Users)
    BY <1>1, <2>1, <2>3, Zenon DEF JudgedTicket, TicketsOK, Shape, Inserts
  <2>. QED BY <1>7, <2>1, <2>3, <2>4, Zenon DEF Inserts, Consoles
<1>8. CASE c.op = "reject"
  <2>1. c.ticket \in Tickets
    BY <1>1, <1>8, Zenon DEF Shape
  <2>. QED BY <1>1, <1>3, <1>8, <2>1, LockLists DEF Inserts, Consoles
<1>. QED BY <1>2, <1>4, <1>5, <1>6, <1>7, <1>8, Zenon DEF Ops

\* The locks that come before the one a transaction holds.
LEMMA HeldBefore ==
  ASSUME Inv, NEW p \in Calls
  PROVE  /\ call[p].op \in Inserts /\ call[p].new.mail \in Mails /\ lock[call[p].new.mail] = p => lock["assign"] = p
         /\ call[p].op = "update" /\ call[p].edit.f = "mail" /\ lock[call[p].edit.v] = p => lock["assign"] = p
         /\ call[p].op \in {"approve", "recover"} /\ lock[call[p].ticket] = p => lock["assign"] = p
         /\ call[p].op = "recover" /\ call[p].user \in Users /\ lock[call[p].user] = p => lock[call[p].ticket] = p
         /\ call[p].op \in {"update", "batch"} /\ call[p].user \in Users /\ lock[call[p].user] = p => lock["admin"] = p
<1>. DEFINE c == call[p]
<1>1. /\ c \in CallRec /\ Shape(c) /\ Place(p) /\ Owned(p) /\ c.k \in Nat /\ c.edit \in Edits
  BY CallFacts, Zenon DEF CallOK
<1>2. ASSUME NEW l \in Locks, lock[l] = p, l # "gate", c.op \notin Sweeps \union {"submit"}
      PROVE  \E i \in 1..(c.k - 1) : l = LocksOf(c)[i] /\ \A j \in 1..i : lock[LocksOf(c)[j]] = p
  BY <1>1, <1>2 DEF Owned, Place
<1>3. c.op \in Inserts /\ c.new.mail \in Mails /\ lock[c.new.mail] = p => lock["assign"] = p
  <2>1. SUFFICES ASSUME c.op \in Inserts, c.new.mail \in Mails, lock[c.new.mail] = p PROVE lock["assign"] = p
    BY Zenon
  <2>2. PICK i \in 1..(c.k - 1) : \A j \in 1..i : lock[LocksOf(c)[j]] = p
    BY <1>2, <2>1, Zenon DEF Locks, Addresses, Inserts, Sweeps
  <2>3. LocksOf(c)[1] = "assign"
    BY <1>1, <2>1, LockLists DEF Inserts
  <2>. QED BY <1>1, <2>2, <2>3
<1>4. c.op = "update" /\ c.edit.f = "mail" /\ lock[c.edit.v] = p => lock["assign"] = p
  <2>1. SUFFICES ASSUME c.op = "update", c.edit.f = "mail", lock[c.edit.v] = p PROVE lock["assign"] = p
    BY Zenon
  <2>2. PICK i \in 1..(c.k - 1) : \A j \in 1..i : lock[LocksOf(c)[j]] = p
    <3>1. c.edit.v \in Locks /\ c.edit.v # "gate"
      BY <1>1, <2>1, EditValues, Zenon DEF Locks, Addresses
    <3>. QED BY <1>2, <2>1, <3>1, Zenon DEF Sweeps
  <2>3. LocksOf(c)[1] = "assign"
    BY <1>1, <2>1, LockLists
  <2>. QED BY <1>1, <2>2, <2>3
<1>5. c.op \in {"approve", "recover"} /\ lock[c.ticket] = p => lock["assign"] = p
  <2>1. SUFFICES ASSUME c.op \in {"approve", "recover"}, lock[c.ticket] = p PROVE lock["assign"] = p
    BY Zenon
  <2>2. PICK i \in 1..(c.k - 1) : \A j \in 1..i : lock[LocksOf(c)[j]] = p
    BY <1>1, <1>2, <2>1 DEF Locks, Sweeps, Shape
  <2>3. LocksOf(c)[1] = "assign"
    BY <1>1, <2>1, LockLists
  <2>. QED BY <1>1, <2>2, <2>3
<1>6. c.op = "recover" /\ c.user \in Users /\ lock[c.user] = p => lock[c.ticket] = p
  <2>1. SUFFICES ASSUME c.op = "recover", c.user \in Users, lock[c.user] = p PROVE lock[c.ticket] = p
    BY Zenon
  <2>2. PICK i \in 1..(c.k - 1) : c.user = LocksOf(c)[i] /\ \A j \in 1..i : lock[LocksOf(c)[j]] = p
    BY <1>1, <1>2, <2>1, Zenon DEF Locks, Sweeps
  <2>3. LocksOf(c)[1] = "assign" /\ LocksOf(c)[2] = c.ticket
    BY <1>1, <2>1, LockLists
  <2>4. i # 1
    BY <2>1, <2>2, <2>3, Zenon
  <2>. QED BY <1>1, <2>2, <2>3, <2>4
<1>7. c.op \in {"update", "batch"} /\ c.user \in Users /\ lock[c.user] = p => lock["admin"] = p
  <2>1. SUFFICES ASSUME c.op \in {"update", "batch"}, c.user \in Users, lock[c.user] = p PROVE lock["admin"] = p
    BY Zenon
  <2>2. PICK i \in 1..(c.k - 1) : c.user = LocksOf(c)[i] /\ \A j \in 1..i : lock[LocksOf(c)[j]] = p
    BY <1>1, <1>2, <2>1, Zenon DEF Locks, Sweeps
  <2>3. \/ LocksOf(c)[1] = "admin"
        \/ LocksOf(c)[1] = "assign" /\ LocksOf(c)[2] = "admin"
    BY <1>1, <2>1, LockLists
  <2>. QED BY <1>1, <2>1, <2>2, <2>3
<1>. QED BY <1>3, <1>4, <1>5, <1>6, <1>7, Zenon

-----------------------------------------------------------------------------
(* Rely and guarantee. *)

\* What a step of somebody else leaves to p.
Kept(p) ==
    /\ call'[p] = call[p]
    /\ \A l \in Locks : lock'[l] = p <=> lock[l] = p
    /\ lock["assign"] = p => \A v \in Users : row'[v].st # "absent" =>
         Exists(v) /\ row'[v].sid = row[v].sid /\ row'[v].mail = row[v].mail
    /\ lock["admin"] = p => \A v \in Users : IsLive(v) /\ row[v].role = "admin" =>
         row'[v].st \in Live /\ row'[v].role = "admin"
    /\ \A u \in Users : lock[u] = p =>
         row'[u] = row[u] \/ (row[u].st = "closed" /\ row'[u] = [row[u] EXCEPT !.due = TRUE])
    /\ \A t \in Tickets : lock[t] = p /\ ticket[t].st = "pending" =>
         ticket'[t].st = "pending" /\ ticket'[t].sid = ticket[t].sid /\ ticket'[t].mail = ticket[t].mail
    /\ call[p].op \in Inserts => row'[call[p].user] = row[call[p].user]
    /\ call[p].op = "submit" => ticket'[call[p].ticket].st = ticket[call[p].ticket].st

\* A guard that held goes on to hold when names only disappear.
LEMMA GuardKept ==
  ASSUME row \in [Users -> UserRow], RowsOK', NEW u, NEW sid, NEW mail,
         sid \in Sids \union {NoSid}, GuardIdentityAssignment(u, sid, mail),
         \A v \in Users : row'[v].st # "absent" =>
           Exists(v) /\ row'[v].sid = row[v].sid /\ row'[v].mail = row[v].mail
  PROVE  GuardIdentityAssignment(u, sid, mail)'
<1>1. \A v \in Users : row'[v].st = "absent" => row'[v].mail = NoSid
  BY DEF RowsOK, Absent
<1>2. \A s : StudentIDOwners(s, u) = {} => StudentIDOwners(s, u)' = {}
  BY Zenon DEF StudentIDOwners, Exists
<1>3. sid # NoSid => \A v \in Users \ {u} : row'[v].mail # sid
  <2>1. SUFFICES ASSUME sid # NoSid, NEW v \in Users \ {u} PROVE row'[v].mail # sid
    BY Zenon
  <2>2. row[v].mail # sid
    BY <2>1, Zenon DEF GuardIdentityAssignment
  <2>. QED BY <1>1, <2>1, <2>2, Zenon
<1>. QED BY <1>2, <1>3, Zenon DEF GuardIdentityAssignment, UnmatchedNjuptPrefix

\* What a transaction has judged survives the steps of the others.
LEMMA Rely ==
  ASSUME Inv, Typed', RowsOK', NEW p \in Calls, Kept(p)
  PROVE  CallOK(p)' /\ Shape(call[p])'
<1>. DEFINE c == call[p]
<1>1. /\ c \in CallRec /\ Shape(c) /\ c.edit \in Edits /\ call'[p] = c
      /\ Place(p) /\ Owned(p) /\ JudgedNames(p) /\ JudgedRow(p) /\ JudgedTicket(p) /\ Reserved(p) /\ Swept(p)
      /\ row \in [Users -> UserRow] /\ row' \in [Users -> UserRow] /\ RowsOK
  BY CallFacts, Zenon DEF CallOK, Kept, Typed
<1>2. \A l \in Locks : lock'[l] = p <=> lock[l] = p
  BY Zenon DEF Kept
<1>3. {"gate", "sweep", "assign", "admin"} \subseteq Locks /\ Users \subseteq Locks /\ Tickets \subseteq Locks
      /\ Mails \subseteq Locks /\ Personal \in Locks
  BY Zenon DEF Locks, Addresses
<1>4. Place(p)'
  <2>1. LocksOf(c)' = LocksOf(c)
    BY <1>1, Zenon DEF LocksOf, GuardThenRow
  <2>. QED BY <1>1, <1>2, <2>1, Zenon DEF Place
<1>5. Owned(p)'
  <2>1. LocksOf(c)' = LocksOf(c)
    BY <1>1 DEF LocksOf, GuardThenRow
  <2>. QED BY <1>1, <1>2, <2>1 DEF Owned
<1>6. JudgedNames(p)'
  <2>1. lock["assign"] = p => \A v \in Users : row'[v].st # "absent" =>
          Exists(v) /\ row'[v].sid = row[v].sid /\ row'[v].mail = row[v].mail
    BY Zenon DEF Kept
  <2>2. ASSUME lock["assign"] = p, NEW u, NEW mail, LoginMailFree(u, mail)
        PROVE  LoginMailFree(u, mail)'
    BY <2>1, <2>2, Zenon DEF LoginMailFree, Exists
  <2>3. ASSUME lock'["assign"] = p, c.op = "update"
        PROVE  GuardIdentityAssignment(c.user, IF c.edit.f = "sid" THEN c.edit.v ELSE NoSid,
                                               IF c.edit.f = "mail" THEN c.edit.v ELSE NoSid)'
    BY <1>1, <1>2, <1>3, <2>1, <2>3, GuardKept, EditValues, Zenon DEF JudgedNames
  <2>4. ASSUME lock'["assign"] = p, c.op = "create"
        PROVE  GuardIdentityAssignment(NoUser, c.new.sid, c.new.mail)'
    BY <1>1, <1>2, <1>3, <2>1, <2>4, GuardKept, Zenon DEF JudgedNames, Shape
  <2>5. ASSUME c.op = "update", c.edit.f = "mail", lock'[c.edit.v] = p PROVE LoginMailFree(c.user, c.edit.v)'
    <3>1. lock[c.edit.v] = p
      BY <1>1, <1>2, <1>3, <2>5, EditValues, Zenon
    <3>. QED BY <1>1, <2>2, <2>5, <3>1, HeldBefore, Zenon DEF JudgedNames
  <2>6. ASSUME c.op \in Inserts, c.new.mail \in Mails, lock'[c.new.mail] = p PROVE LoginMailFree(c.user, c.new.mail)'
    <3>1. lock[c.new.mail] = p
      BY <1>1, <1>2, <1>3, <2>6, Zenon
    <3>. QED BY <1>1, <2>2, <2>6, <3>1, HeldBefore, Zenon DEF JudgedNames
  <2>. QED BY <1>1, <2>3, <2>4, <2>5, <2>6, Zenon DEF JudgedNames
<1>7. JudgedRow(p)'
  <2>1. SUFFICES ASSUME c.user \in Users, lock'[c.user] = p PROVE JudgedRow(p)'
    BY <1>1, Zenon DEF JudgedRow
  <2>2. lock[c.user] = p
    BY <1>2, <1>3, <2>1, Zenon
  <2>3. \/ row'[c.user] = row[c.user]
        \/ row[c.user].st = "closed" /\ row'[c.user] = [row[c.user] EXCEPT !.due = TRUE]
    BY <2>1, <2>2, Zenon DEF Kept
  <2>4. row'[c.user].st = row[c.user].st /\ row'[c.user].role = row[c.user].role
        /\ row'[c.user].sid = row[c.user].sid /\ row'[c.user].mail = row[c.user].mail
    BY <1>1, <2>1, <2>3, Zenon DEF UserRow
  <2>5. c.op \in {"update", "batch"} => (OtherAdmin(c.user) => OtherAdmin(c.user)')
    BY <1>1, <2>1, <2>2, HeldBefore, Zenon DEF Kept, OtherAdmin, IsLive
  <2>6. c.op = "recover" => ticket'[c.ticket].mail = ticket[c.ticket].mail
    <3>1. SUFFICES ASSUME c.op = "recover" PROVE ticket'[c.ticket].mail = ticket[c.ticket].mail
      BY Zenon
    <3>2. c.ticket \in Tickets /\ lock[c.ticket] = p
      BY <1>1, <2>1, <2>2, <3>1, HeldBefore, Zenon DEF Shape
    <3>. QED BY <1>1, <3>2, Zenon DEF Kept, JudgedTicket
  <2>. QED BY <1>1, <2>1, <2>2, <2>4, <2>5, <2>6 DEF JudgedRow, IsLive
<1>8. JudgedTicket(p)'
  <2>1. SUFFICES ASSUME c.ticket \in Tickets, lock'[c.ticket] = p PROVE JudgedTicket(p)'
    BY <1>1, Zenon DEF JudgedTicket
  <2>2. lock[c.ticket] = p
    BY <1>2, <1>3, <2>1, Zenon
  <2>3. ticket[c.ticket].st = "pending" /\ ticket'[c.ticket].st = "pending"
        /\ ticket'[c.ticket].sid = ticket[c.ticket].sid /\ ticket'[c.ticket].mail = ticket[c.ticket].mail
    BY <1>1, <2>1, <2>2, Zenon DEF Kept, JudgedTicket
  <2>4. c.op \in {"approve", "recover"} => \A v \in Users : row'[v].st # "absent" =>
          Exists(v) /\ row'[v].sid = row[v].sid /\ row'[v].mail = row[v].mail
    BY <2>2, HeldBefore, Zenon DEF Kept
  <2>5. ticket[c.ticket].sid \in Sids
    BY <2>1, <2>3, Zenon DEF Inv, TicketsOK
  <2>6. ASSUME c.op = "approve"
        PROVE  GuardIdentityAssignment(NoUser, ticket[c.ticket].sid, ticket[c.ticket].mail)'
    <3>. DEFINE s == ticket[c.ticket].sid
                m == ticket[c.ticket].mail
    <3>1. GuardIdentityAssignment(NoUser, s, m)
      BY <1>1, <2>1, <2>2, <2>6, Zenon DEF JudgedTicket
    <3>2. ASSUME NEW x, NEW y, x \in Sids, GuardIdentityAssignment(NoUser, x, y)
          PROVE  GuardIdentityAssignment(NoUser, x, y)'
      BY <1>1, <2>4, <2>6, <3>2, GuardKept, Zenon
    <3>. QED BY <1>1, <2>3, <2>5, <3>1, <3>2, ZenonT(60) DEF GuardIdentityAssignment
  <2>7. c.op = "recover" => (Exists(c.user)' => row'[c.user].sid = ticket[c.ticket].sid) /\ c.user \in Users
    BY <1>1, <2>1, <2>2, <2>4, Zenon DEF JudgedTicket, Exists
  <2>. QED BY <1>1, <2>1, <2>2, <2>3, <2>6, <2>7, Zenon DEF JudgedTicket, Exists
<1>9. (lock["admin"] = p /\ call[p].op = "close" => OtherAdmin(call[p].user))'
  <2>1. SUFFICES ASSUME lock'["admin"] = p, c.op = "close" PROVE OtherAdmin(c.user)'
    BY <1>1, Zenon
  <2>2. lock["admin"] = p
    BY <1>2, <1>3, <2>1, Zenon
  <2>3. OtherAdmin(c.user)
    BY <2>1, <2>2, CallFacts, Zenon DEF CallOK
  <2>. QED BY <1>1, <2>2, <2>3, Zenon DEF Kept, OtherAdmin, IsLive
<1>10. Reserved(p)'
  BY <1>1, Zenon DEF Kept, Reserved
<1>11. Swept(p)'
  <2>1. ASSUME c.op = "recompute", NEW u \in DOMAIN c.drv, lock'[u] = p PROVE Unpinned(u)'
    <3>1. u \in Users
      BY <1>1, <2>1, DerivedDomain, Zenon DEF CallRec
    <3>2. lock[u] = p /\ Unpinned(u)
      BY <1>1, <1>2, <1>3, <2>1, <3>1, Zenon DEF Swept
    <3>3. row'[u] = row[u]
      BY <3>1, <3>2, Zenon DEF Kept, Unpinned, IsLive, Live
    <3>. QED BY <3>2, <3>3, Zenon DEF Unpinned, IsLive
  <2>2. ASSUME c.op = "purge", NEW u \in c.todo PROVE lock'[u] = p
    BY <1>1, <1>2, <1>3, <2>2, Zenon DEF Swept, CallRec
  <2>3. c.op \in Sweeps => lock'["sweep"] = p
    BY <1>1, <1>2, <1>3, Zenon DEF Swept
  <2>. QED BY <1>1, <2>1, <2>2, <2>3, Zenon DEF Swept
<1>12. Shape(call[p])'
  BY <1>1, ZenonT(60) DEF Shape
<1>. QED BY <1>4, <1>5, <1>6, <1>7, <1>8, <1>9, <1>10, <1>11, <1>12, Zenon DEF CallOK

-----------------------------------------------------------------------------
(* The steps. *)

\* A step is sound when it is for the one who takes it, for the table, and for
\* the reliance of the others.
LEMMA Assemble ==
  ASSUME Inv, NEW p \in Calls, Typed', RowsOK', TicketsOK', OneAccountPerStudent', AdminRemains',
         LockedExists', Distinct', Shape(call[p])', CallOK(p)', \A q \in Calls \ {p} : Kept(q)
  PROVE  Inv'
<1>1. \A q \in Calls \ {p} : CallOK(q)' /\ Shape(call[q])'
  BY Rely, Zenon
<1>. QED BY <1>1, Zenon DEF Inv

\* A transaction ends, or moves on to the next user of its batch.
LEMMA Released ==
  ASSUME Inv, Typed', NEW p \in Calls, Over(p) \/ End(p), call[p].pc # "idle", call[p].op \notin {"submit", "purge"}
  PROVE  /\ Shape(call[p])' /\ CallOK(p)' /\ Distinct'
         /\ \A q \in Calls \ {p} : call'[q] = call[q] /\ \A l \in Locks : lock'[l] = q <=> lock[l] = q
         /\ \A l \in Locks : lock'[l] \in {NoCall, lock[l]}
<1>. DEFINE c == call[p]
<1>1. /\ c \in CallRec /\ Shape(c) /\ call \in [Calls -> CallRec] /\ lock \in [Locks -> Calls \union {NoCall}]
      /\ Owned(p)
  BY CallFacts, Zenon DEF CallOK
<1>2. \A q \in Calls \ {p} : call'[q] = call[q] /\ \A l \in Locks : lock'[l] = q <=> lock[l] = q
  BY <1>1 DEF Over, End
<1>3. \A l \in Locks : lock'[l] \in {NoCall, lock[l]}
  BY <1>1, Zenon DEF Over, End
<1>4. \/ call'[p] = Idle /\ \A l \in Locks : lock'[l] # p
      \/ /\ c.op = "batch" /\ call'[p].op = "batch" /\ call'[p].pc = "check" /\ call'[p].k = 1
         /\ call'[p].user \in Users /\ call'[p].edit = c.edit /\ call'[p].ticket = c.ticket
         /\ \A l \in Locks : lock'[l] = p => l = "gate"
  <2>1. CASE End(p)
    BY <1>1, <2>1, Zenon DEF End
  <2>2. CASE ~End(p)
    <3>1. PICK u \in c.todo :
            /\ lock' = [l \in Locks |-> IF lock[l] = p /\ l # "gate" THEN NoCall ELSE lock[l]]
            /\ call' = [call EXCEPT ![p].pc = "check", ![p].user = u, ![p].todo = @ \ {u},
                                    ![p].k = 1, ![p].new = Absent]
      BY <2>2, Zenon DEF Over
    <3>2. c.op = "batch" /\ u \in Users
      BY <1>1, <3>1, Zenon DEF Shape, CallRec
    <3>3. \A l \in Locks : lock'[l] = p => l = "gate"
      BY <3>1, Zenon
    <3>4. call'[p] = [c EXCEPT !.pc = "check", !.user = u, !.todo = c.todo \ {u}, !.k = 1, !.new = Absent]
      BY <1>1, <3>1, Zenon
    <3>. QED BY <1>1, <3>2, <3>3, <3>4 DEF CallRec
  <2>. QED BY <2>1, <2>2, Zenon
<1>5. call'[p] \in CallRec
  BY Zenon DEF Typed
<1>6. Shape(call[p])'
  <2>1. CASE call'[p] = Idle
    BY <2>1, IdleShape, Zenon
  <2>2. CASE /\ c.op = "batch" /\ call'[p].op = "batch" /\ call'[p].pc = "check" /\ call'[p].k = 1
             /\ call'[p].user \in Users /\ call'[p].edit = c.edit /\ call'[p].ticket = c.ticket
    <3>1. c.edit.f = "role" /\ c.ticket = NoTicket
      BY <1>1, <2>2, Zenon DEF Shape
    <3>2. call'[p].k >= 1
      BY ONLY <2>2
    <3>. QED BY <2>2, <3>1, <3>2, Zenon DEF Shape, Consoles, Inserts, Sweeps
  <2>. QED BY <1>4, <2>1, <2>2, Zenon
<1>7. CallOK(p)'
  <2>1. \A l \in Locks \ {"gate"} : lock'[l] # p
    BY <1>4, Zenon
  <2>2. call'[p].op \in {"update", "batch"} /\ call'[p].k = 1 /\ call'[p].pc \in {"idle", "check"}
        /\ call'[p].ticket = NoTicket /\ call'[p].edit \in Edits
    <3>1. Idle.op = "update" /\ Idle.k = 1 /\ Idle.pc = "idle" /\ Idle.ticket = NoTicket
      BY Zenon DEF Idle
    <3>2. call'[p].edit \in Edits /\ (c.op = "batch" => c.ticket = NoTicket)
      BY <1>1, <1>5, Zenon DEF CallRec, Shape
    <3>. QED BY <1>4, <3>1, <3>2, Zenon
  <2>3. {"assign", "admin"} \subseteq Locks \ {"gate"} /\ Users \subseteq Locks \ {"gate"}
        /\ Mails \subseteq Locks \ {"gate"}
    BY Zenon DEF Locks, Addresses
  <2>4. Place(p)' /\ Reserved(p)' /\ Swept(p)'
    BY <2>2 DEF Place, Reserved, Swept, Sweeps, Inserts
  <2>5. Owned(p)'
    BY <1>4, <2>1, <2>2, Zenon DEF Owned, Idle
  <2>6. JudgedNames(p)'
    BY <2>1, <2>2, <2>3, EditValues, Zenon DEF JudgedNames, Inserts
  <2>7. JudgedRow(p)' /\ JudgedTicket(p)'
    BY <2>1, <2>2, <2>3, Zenon DEF JudgedRow, JudgedTicket
  <2>. QED BY <2>1, <2>2, <2>3, <2>4, <2>5, <2>6, <2>7, Zenon DEF CallOK
<1>8. Distinct'
  <2>1. call'[p].op \notin Inserts \union {"submit"} /\ call'[p].ticket = NoTicket
    <3>1. Idle.op = "update" /\ Idle.ticket = NoTicket
      BY Zenon DEF Idle
    <3>2. c.op = "batch" => c.ticket = NoTicket
      BY <1>1, Zenon DEF Shape
    <3>. QED BY <1>4, <3>1, <3>2, Zenon DEF Inserts
  <2>2. \A q \in Calls : call[q].op = "submit" => call[q].ticket \in Tickets
    BY CallFacts, Zenon DEF Shape
  <2>. QED BY <1>2, <2>1, <2>2 DEF Distinct, Inv
<1>. QED BY <1>2, <1>3, <1>6, <1>7, <1>8, Zenon

\* A table nobody writes is as sound as before.
LEMMA TableKept ==
  ASSUME Inv, UNCHANGED <<row, ticket>>
  PROVE  RowsOK' /\ TicketsOK' /\ OneAccountPerStudent' /\ AdminRemains'
  BY Zenon DEF Inv, RowsOK, TicketsOK, OneAccountPerStudent, AdminRemains, Exists, IsLive

\* ... and the others may go on relying on it.
LEMMA KeptByReader ==
  ASSUME Inv, UNCHANGED <<row, ticket>>, NEW q \in Calls, call'[q] = call[q],
         \A l \in Locks : lock'[l] = q <=> lock[l] = q
  PROVE  Kept(q)
  BY Zenon DEF Kept, Exists, IsLive

\* An idle call holds nothing.
LEMMA IdleHolds ==
  ASSUME Inv, NEW p \in Calls, call[p].pc = "idle"
  PROVE  call[p] = Idle /\ \A l \in Locks : lock[l] # p
<1>1. Shape(call[p]) /\ Owned(p)
  BY CallFacts, Zenon DEF CallOK
<1>2. call[p] = Idle
  BY <1>1, Zenon DEF Shape
<1>3. call[p].op = "update" /\ call[p].k = 1
  BY <1>2 DEF Idle
<1>. QED BY <1>1, <1>2, <1>3 DEF Owned, Sweeps

\* A request arrives.
LEMMA Arrives ==
  ASSUME Inv, NEW p \in Calls, NEW c \in CallRec, call[p].pc = "idle",
         call' = [call EXCEPT ![p] = c], UNCHANGED <<row, bound, ticket, graduated, menu>>, left' \in Nat,
         \/ lock' = lock
         \/ c.op = "batch" /\ lock["gate"] = NoCall /\ lock' = [lock EXCEPT !["gate"] = p],
         Shape(c), c.op \notin Sweeps, c.pc # "idle", c.k = 1, c.pc = "commit" => c.op = "submit",
         c.pc = "lock" => c.op \in {"bind", "reject"},
         c.op \in Inserts => row[c.user] = Absent /\ \A q \in Calls : call[q].user # c.user,
         c.op = "submit" => ticket[c.ticket].st = "none" /\ \A q \in Calls : call[q].ticket # c.ticket,
         c.op # "submit" /\ c.ticket \in Tickets => ticket[c.ticket].st # "none"
  PROVE  Inv'
<1>1. /\ call \in [Calls -> CallRec] /\ lock \in [Locks -> Calls \union {NoCall}] /\ c.edit \in Edits
      /\ call'[p] = c /\ \A q \in Calls \ {p} : call'[q] = call[q]
  BY CallFacts DEF CallRec
<1>2. Typed'
  BY <1>1 DEF Inv, Typed, Locks
<1>3. \A l \in Locks \ {"gate"} : lock'[l] = lock[l] /\ lock'[l] # p
  BY <1>1, IdleHolds
<1>4. (lock'["gate"] = p => c.op = "batch") /\ \A q \in Calls \ {p} : lock'["gate"] = q <=> lock["gate"] = q
  BY <1>1, IdleHolds DEF Locks
<1>5. \A q \in Calls \ {p} : Kept(q)
  BY <1>1, <1>3, <1>4, KeptByReader
<1>6. {"assign", "admin"} \subseteq Locks \ {"gate"} /\ Users \subseteq Locks \ {"gate"}
      /\ Mails \subseteq Locks \ {"gate"} /\ Tickets \subseteq Locks \ {"gate"}
  BY Zenon DEF Locks, Addresses
<1>7. LockedExists'
  BY <1>3, <1>6, Zenon DEF Inv, LockedExists, Exists
<1>8. Distinct'
  <2>1. \A q \in Calls : call[q].op = "submit" => call[q].ticket \in Tickets /\ ticket[call[q].ticket].st = "none"
    BY CallFacts, Zenon DEF Shape, CallOK, Reserved
  <2>2. c.ticket \in Tickets \union {NoTicket}
    BY Zenon DEF CallRec
  <2>. QED BY <1>1, <2>1, <2>2, SMTT(60) DEF Distinct, Inv
<1>9. CallOK(p)'
  <2>1. Place(p)'
    <3>1. LocksOf(call[p])' = LocksOf(c)
      BY <1>1, Zenon DEF LocksOf, GuardThenRow
    <3>2. c.op = "bind" => Len(LocksOf(c)) = 2
      BY LockLists
    <3>3. c.op = "reject" => Len(LocksOf(c)) = 1
      BY LockLists
    <3>4. c.pc \in {"check", "lock"} \/ c.op = "submit"
      BY Zenon DEF CallRec
    <3>5. \A i : i \notin 1..(c.k - 1)
      OBVIOUS
    <3>6. c.op # "submit" => (c.pc = "lock" => c.k <= Len(LocksOf(c))) /\ c.pc # "commit"
      BY <3>2, <3>3, <3>4
    <3>. QED BY ONLY <1>1, <3>1, <3>5, <3>6, c.k = 1, c.pc # "idle", Zenon DEF Place
  <2>2. Owned(p)'
    BY <1>1, <1>3, <1>4, Zenon DEF Owned
  <2>3. JudgedNames(p)'
    BY <1>1, <1>3, <1>6, EditValues, Zenon DEF JudgedNames
  <2>4. JudgedRow(p)' /\ JudgedTicket(p)'
    BY <1>1, <1>3, <1>6, Zenon DEF JudgedRow, JudgedTicket
  <2>5. Reserved(p)' /\ Swept(p)'
    BY <1>1, Zenon DEF Reserved, Swept, Sweeps
  <2>. QED BY <1>3, <1>6, <2>1, <2>2, <2>3, <2>4, <2>5, Zenon DEF CallOK
<1>10. Shape(call[p])'
  BY <1>1, Zenon
<1>. QED BY <1>2, <1>5, <1>7, <1>8, <1>9, <1>10, TableKept, Assemble, Zenon

\* What the console has of a request when it arrives.
LEMMA ConsoleTyped ==
  ASSUME Inv, NEW op \in Ops, NEW by \in Users, NEW u \in Users
  PROVE  Console(op, by, u) \in CallRec
  BY IdleTyped DEF Console, CallRec, Inv, Typed, UserRow

LEMMA StartConsoleInv ==
  ASSUME Inv, NEW p \in Calls, StartUpdate(p) \/ StartClose(p) \/ StartRestore(p)
  PROVE  Inv'
<1>1. ASSUME NEW op \in {"update", "close", "restore"}, NEW by \in Users, NEW u \in Users, NEW e \in Edits,
             NEW c, Begin(p, c),
             \/ op = "update" /\ c = [Console(op, by, u) EXCEPT !.edit = e]
             \/ op # "update" /\ c = Console(op, by, u) /\ e = NoEdit
      PROVE  Inv'
  <2>1. Console(op, by, u) \in CallRec
    BY <1>1, ConsoleTyped, Zenon DEF Ops
  <2>2. c \in CallRec
    BY <1>1, <2>1 DEF CallRec
  <2>3. /\ c.pc = "check" /\ c.op = op /\ c.user = u /\ c.by = by /\ c.edit = e /\ c.ticket = NoTicket
        /\ c.k = 1 /\ c.todo = {}
    BY <1>1, <2>1, ZenonT(60) DEF Console, Idle
  <2>4. Shape(c)
    BY <1>1, <2>3 DEF Shape, Consoles, Inserts, NoEdit
  <2>5. left' \in Nat
    BY <1>1 DEF Begin, Inv, Typed
  <2>. QED BY <1>1, <2>2, <2>3, <2>4, <2>5, Arrives, Zenon DEF Begin, Sweeps, Inserts
<1>2. CASE StartUpdate(p)
  BY <1>1, <1>2, Zenon DEF StartUpdate, Callers
<1>3. NoEdit \in Edits
  BY Zenon DEF NoEdit, Edits
<1>4. CASE StartClose(p)
  <2>1. PICK by \in Callers, u \in Users : Begin(p, Console("close", by, u))
    BY <1>4, Zenon DEF StartClose
  <2>. QED BY <1>1, <1>3, <2>1, Zenon DEF Callers
<1>5. CASE StartRestore(p)
  <2>1. PICK by \in Callers, u \in Users : Begin(p, Console("restore", by, u))
    BY <1>5, Zenon DEF StartRestore
  <2>. QED BY <1>1, <1>3, <2>1, Zenon DEF Callers
<1>. QED BY <1>2, <1>4, <1>5, Zenon

LEMMA BatchUpdateUsersInv ==
  ASSUME Inv, NEW p \in Calls, BatchUpdateUsers(p)
  PROVE  Inv'
<1>1. PICK by \in Callers, v \in Roles, u \in Users :
        /\ call[p].pc = "idle" /\ left > 0 /\ lock["gate"] = NoCall
        /\ call' = [call EXCEPT ![p] = [Console("batch", by, u) EXCEPT
              !.edit = [f |-> "role", v |-> v], !.todo = {w \in Users : Exists(w)} \ {u}]]
        /\ lock' = [lock EXCEPT !["gate"] = p]
        /\ left' = left - 1
        /\ UNCHANGED <<row, bound, ticket, graduated, menu>>
  BY Zenon DEF BatchUpdateUsers
<1>. DEFINE c == [Console("batch", by, u) EXCEPT
              !.edit = [f |-> "role", v |-> v], !.todo = {w \in Users : Exists(w)} \ {u}]
<1>2. Console("batch", by, u) \in CallRec
  BY ConsoleTyped, Zenon DEF Ops, Callers
<1>3. [f |-> "role", v |-> v] \in Edits
  BY Zenon DEF Edits
<1>4. c \in CallRec
  BY <1>2, <1>3, Zenon DEF CallRec
<1>5. /\ c.pc = "check" /\ c.op = "batch" /\ c.user = u /\ c.by = by /\ c.edit.f = "role" /\ c.ticket = NoTicket
      /\ c.k = 1
  BY <1>2, Zenon DEF Console, Idle
<1>6. Shape(c)
  BY <1>5 DEF Shape, Consoles, Inserts
<1>7. left' \in Nat
  BY <1>1 DEF Inv, Typed
<1>. HIDE DEF c
<1>. QED BY <1>1, <1>4, <1>5, <1>6, <1>7, Arrives, Zenon DEF Sweeps, Inserts, c

\* A new account: its row is free and stays reserved.
LEMMA StartCreateInv ==
  ASSUME Inv, NEW p \in Calls, StartCreate(p)
  PROVE  Inv'
<1>1. PICK by \in Callers, u \in Users, d \in Drafts,
           e \in {x \in Asked : x.f \in {"pin", "personal"}} \union {NoEdit} :
        /\ Fresh(u)
        /\ Begin(p, [Console("create", by, u) EXCEPT !.edit = e,
             !.new = [Absent EXCEPT !.st = IF e.f = "pin" THEN e.v ELSE DeriveState(d.role, d.sid),
                                    !.manual = (e.f = "pin"), !.role = d.role,
                                    !.sid = d.sid, !.mail = d.mail]])
  BY Zenon DEF StartCreate
<1>. DEFINE n == [Absent EXCEPT !.st = IF e.f = "pin" THEN e.v ELSE DeriveState(d.role, d.sid),
                                !.manual = (e.f = "pin"), !.role = d.role,
                                !.sid = d.sid, !.mail = d.mail]
            c == [Console("create", by, u) EXCEPT !.edit = e, !.new = n]
<1>2. by \in Users /\ by # u
  BY <1>1, Zenon DEF Callers, Fresh, IsLive, Exists, Live
<1>3. Console("create", by, u) \in CallRec
  BY <1>2, ConsoleTyped, Zenon DEF Ops
<1>4. e \in Edits /\ e.f \in {"pin", "personal", "none"} /\ (e.f = "pin" => e.v \in Live)
  BY EditValues DEF NoEdit, Edits
<1>5. n.st \in Live /\ ~n.due /\ n.sid \in Sids /\ n.mail \in Mails /\ n.role \in Roles /\ n.manual \in BOOLEAN
  BY <1>4, DerivedIsLive, Zenon DEF Absent
<1>6. n \in UserRow
  BY <1>5, Zenon DEF UserRow, Absent
<1>7. c \in CallRec
  BY <1>3, <1>4, <1>6, ZenonT(60) DEF CallRec
<1>8. /\ c.pc = "check" /\ c.op = "create" /\ c.user = u /\ c.by = by /\ c.edit = e /\ c.ticket = NoTicket
      /\ c.k = 1 /\ c.todo = {} /\ c.new = n
  BY <1>3, Zenon DEF Console, Idle
<1>9. Shape(c)
  <2>. HIDE DEF c, n
  <2>. QED BY <1>2, <1>4, <1>5, <1>8 DEF Shape, Consoles, Inserts
<1>10. left' \in Nat /\ call[p].pc = "idle"
  BY <1>1 DEF Begin, Inv, Typed
<1>11. row[u] = Absent /\ \A q \in Calls : call[q].user # u
  BY <1>1, Zenon DEF Fresh, Exists, Inv, RowsOK
<1>12. Begin(p, c)
  BY <1>1, Zenon
<1>. HIDE DEF c
<1>. QED BY <1>7, <1>8, <1>9, <1>10, <1>11, <1>12, Arrives, Zenon DEF Begin, Sweeps, Inserts

\* A bind, a review or a submission arrives.
LEMMA StartOtherInv ==
  ASSUME Inv, NEW p \in Calls, StartBind(p) \/ Submit(p) \/ StartApprove(p) \/ Reject(p)
  PROVE  Inv'
<1>. USE IdleTyped
<1>1. ASSUME NEW c, Begin(p, c) PROVE left' \in Nat /\ call[p].pc = "idle"
  <2>1. left \in Nat /\ left > 0 /\ left' = left - 1 /\ call[p].pc = "idle"
    BY <1>1, Zenon DEF Begin, Inv, Typed
  <2>2. left' \in Nat
    BY ONLY <2>1
  <2>. QED BY <2>1, <2>2, Zenon
<1>2. CASE StartBind(p)
  <2>1. PICK u \in Users : Begin(p, [Idle EXCEPT !.pc = "lock", !.op = "bind", !.user = u])
    BY <1>2, Zenon DEF StartBind
  <2>. DEFINE c == [Idle EXCEPT !.pc = "lock", !.op = "bind", !.user = u]
  <2>2. c \in CallRec
    BY Zenon DEF CallRec, Ops
  <2>3. c.pc = "lock" /\ c.op = "bind" /\ c.user = u /\ c.k = 1 /\ c.edit = NoEdit /\ c.ticket = NoTicket /\ c.todo = {}
    BY Zenon DEF Idle
  <2>4. Shape(c)
    BY <2>3 DEF Shape, NoEdit
  <2>. HIDE DEF c
  <2>. QED BY <1>1, <2>1, <2>2, <2>3, <2>4, Arrives, Zenon DEF Begin, Sweeps, Inserts, c
<1>3. CASE Submit(p)
  <2>1. PICK t \in Tickets, i \in {"provision", "recover"}, d \in Drafts :
          /\ ticket[t].st = "none" /\ \A q \in Calls : call[q].ticket # t
          /\ Begin(p, [Idle EXCEPT !.pc = "commit", !.op = "submit", !.ticket = t,
               !.req = [NoRequest EXCEPT !.st = "pending", !.intent = i, !.sid = d.sid, !.mail = d.mail]])
    BY <1>3, Zenon DEF Submit
  <2>. DEFINE r == [NoRequest EXCEPT !.st = "pending", !.intent = i, !.sid = d.sid, !.mail = d.mail]
              c == [Idle EXCEPT !.pc = "commit", !.op = "submit", !.ticket = t, !.req = r]
  <2>2. r \in TicketRow /\ r.sid \in Sids /\ r.mail \in Mails
    BY Zenon DEF TicketRow, NoRequest
  <2>3. c \in CallRec
    BY <2>2, Zenon DEF CallRec, Ops
  <2>4. c.pc = "commit" /\ c.op = "submit" /\ c.k = 1 /\ c.edit = NoEdit /\ c.ticket = t /\ c.todo = {} /\ c.req = r
    BY Zenon DEF Idle
  <2>5. Shape(c)
    <3>. HIDE DEF c, r
    <3>. QED BY <2>2, <2>4 DEF Shape, NoEdit, Consoles, Inserts
  <2>6. Begin(p, c)
    BY <2>1, Zenon
  <2>. HIDE DEF c
  <2>. QED BY <1>1, <2>1, <2>3, <2>4, <2>5, <2>6, Arrives, Zenon DEF Begin, Sweeps, Inserts
<1>4. CASE StartApprove(p)
  <2>1. PICK t \in Tickets, u \in Users :
          /\ ticket[t].st # "none"
          /\ IF ticket[t].intent = "provision"
             THEN Fresh(u) /\ Begin(p, [Idle EXCEPT !.pc = "check", !.op = "approve", !.ticket = t, !.user = u])
             ELSE Begin(p, [Idle EXCEPT !.pc = "check", !.op = "recover", !.ticket = t])
    BY <1>4, Zenon DEF StartApprove
  <2>2. CASE ticket[t].intent = "provision"
    <3>. DEFINE c == [Idle EXCEPT !.pc = "check", !.op = "approve", !.ticket = t, !.user = u]
    <3>1. c \in CallRec
      BY Zenon DEF CallRec, Ops
    <3>2. c.pc = "check" /\ c.op = "approve" /\ c.k = 1 /\ c.edit = NoEdit /\ c.ticket = t /\ c.todo = {} /\ c.user = u
      BY Zenon DEF Idle
    <3>3. Shape(c)
      BY <3>2 DEF Shape, NoEdit, Consoles, Inserts
    <3>4. Begin(p, c)
      BY <2>1, <2>2, Zenon
    <3>5. row[u] = Absent /\ \A q \in Calls : call[q].user # u
      BY <2>1, <2>2, Zenon DEF Fresh, Exists, Inv, RowsOK
    <3>. HIDE DEF c
    <3>. QED BY <1>1, <2>1, <3>1, <3>2, <3>3, <3>4, <3>5, Arrives, Zenon DEF Begin, Sweeps, Inserts
  <2>3. CASE ticket[t].intent # "provision"
    <3>. DEFINE c == [Idle EXCEPT !.pc = "check", !.op = "recover", !.ticket = t]
    <3>1. c \in CallRec
      BY Zenon DEF CallRec, Ops
    <3>2. c.pc = "check" /\ c.op = "recover" /\ c.k = 1 /\ c.edit = NoEdit /\ c.ticket = t /\ c.todo = {}
      BY Zenon DEF Idle
    <3>3. Shape(c)
      BY <3>2 DEF Shape, NoEdit, Consoles, Inserts
    <3>4. Begin(p, c)
      BY <2>1, <2>3, Zenon
    <3>. HIDE DEF c
    <3>. QED BY <1>1, <2>1, <3>1, <3>2, <3>3, <3>4, Arrives, Zenon DEF Begin, Sweeps, Inserts
  <2>. QED BY <2>2, <2>3, Zenon
<1>5. CASE Reject(p)
  <2>1. PICK t \in Tickets : /\ ticket[t].st # "none"
                             /\ Begin(p, [Idle EXCEPT !.pc = "lock", !.op = "reject", !.ticket = t])
    BY <1>5, Zenon DEF Reject
  <2>. DEFINE c == [Idle EXCEPT !.pc = "lock", !.op = "reject", !.ticket = t]
  <2>2. c \in CallRec
    BY Zenon DEF CallRec, Ops
  <2>3. c.pc = "lock" /\ c.op = "reject" /\ c.k = 1 /\ c.edit = NoEdit /\ c.ticket = t /\ c.todo = {}
    BY Zenon DEF Idle
  <2>4. Shape(c)
    BY <2>3 DEF Shape, NoEdit, Consoles, Inserts
  <2>. HIDE DEF c
  <2>. QED BY <1>1, <2>1, <2>2, <2>3, <2>4, Arrives, Zenon DEF Begin, Sweeps, Inserts, c
<1>. QED BY <1>2, <1>3, <1>4, <1>5, Zenon

LEMMA NextItemTyped ==
  ASSUME NEW c \in CallRec, NEW u \in Users, NEW S \in SUBSET Users, NEW n \in UserRow
  PROVE  [c EXCEPT !.pc = "check", !.user = u, !.todo = S, !.k = 1, !.new = n] \in CallRec
  BY Zenon DEF CallRec

\* The end of a transaction is well typed.
LEMMA OverTyped ==
  ASSUME Inv, NEW p \in Calls, Over(p) \/ End(p)
  PROVE  call' \in [Calls -> CallRec] /\ lock' \in [Locks -> Calls \union {NoCall}]
<1>1. call \in [Calls -> CallRec] /\ lock \in [Locks -> Calls \union {NoCall}] /\ Absent \in UserRow
  BY CallFacts, Zenon DEF Absent, UserRow
<1>2. CASE End(p)
  BY <1>1, <1>2, IdleTyped, Zenon DEF End
<1>3. ASSUME NEW u \in call[p].todo,
             lock' = [l \in Locks |-> IF lock[l] = p /\ l # "gate" THEN NoCall ELSE lock[l]],
             call' = [call EXCEPT ![p].pc = "check", ![p].user = u, ![p].todo = @ \ {u},
                                  ![p].k = 1, ![p].new = Absent]
      PROVE  call' \in [Calls -> CallRec] /\ lock' \in [Locks -> Calls \union {NoCall}]
  <2>1. call[p] \in CallRec /\ u \in Users /\ call[p].todo \ {u} \subseteq Users
    BY <1>1, <1>3, Zenon DEF CallRec
  <2>2. [call[p] EXCEPT !.pc = "check", !.user = u, !.todo = call[p].todo \ {u}, !.k = 1, !.new = Absent] \in CallRec
    BY <1>1, <2>1, NextItemTyped, Zenon
  <2>. QED BY <1>1, <1>3, <2>2, Zenon
<1>. QED BY <1>2, <1>3, Zenon DEF Over

\* A transaction that gives up changes nothing.
LEMMA GivesUp ==
  ASSUME Inv, NEW p \in Calls, Over(p) \/ End(p), call[p].pc # "idle", call[p].op \notin {"submit", "purge"},
         UNCHANGED <<row, bound, ticket, graduated, menu, left>>
  PROVE  Inv'
<1>1. Typed'
  BY OverTyped, Zenon DEF Inv, Typed
<1>2. /\ Shape(call[p])' /\ CallOK(p)' /\ Distinct'
      /\ \A q \in Calls \ {p} : call'[q] = call[q] /\ \A l \in Locks : lock'[l] = q <=> lock[l] = q
      /\ \A l \in Locks : lock'[l] \in {NoCall, lock[l]}
  BY <1>1, Released, Zenon
<1>3. \A q \in Calls \ {p} : Kept(q)
  BY <1>2, KeptByReader, Zenon
<1>4. LockedExists'
  BY <1>2, Zenon DEF Inv, LockedExists, Exists, Locks
<1>. QED BY <1>1, <1>2, <1>3, <1>4, TableKept, Assemble, Zenon

LEMMA CheckInv ==
  ASSUME Inv, NEW p \in Calls, Check(p)
  PROVE  Inv'
<1>. DEFINE c == call[p]
<1>1. /\ c \in CallRec /\ Shape(c) /\ CallOK(p) /\ call \in [Calls -> CallRec] /\ c.edit \in Edits
      /\ lock \in [Locks -> Calls \union {NoCall}]
  BY CallFacts, Zenon
<1>2. c.pc = "check" /\ UNCHANGED <<row, bound, ticket, graduated, menu, left>>
  BY Zenon DEF Check
<1>3. CASE Over(p)
  BY <1>1, <1>2, <1>3, GivesUp, Zenon DEF Shape
<1>4. CASE Admitted(c) /\ call' = [call EXCEPT ![p].pc = "lock"] /\ UNCHANGED lock
  <2>1. /\ call'[p] = [c EXCEPT !.pc = "lock"] /\ [c EXCEPT !.pc = "lock"] \in CallRec
        /\ \A q \in Calls \ {p} : call'[q] = call[q]
    BY <1>1, <1>4, Zenon DEF CallRec
  <2>2. Typed'
    BY <1>1, <1>2, <1>4, <2>1, Zenon DEF Inv, Typed
  <2>3. /\ call'[p].pc = "lock" /\ call'[p].op = c.op /\ call'[p].user = c.user /\ call'[p].by = c.by
        /\ call'[p].as = c.as /\ call'[p].edit = c.edit /\ call'[p].ticket = c.ticket /\ call'[p].k = c.k
        /\ call'[p].new = c.new /\ call'[p].todo = c.todo /\ call'[p].drv = c.drv /\ call'[p].req = c.req
    BY <1>1, <2>1 DEF CallRec
  <2>4. \A q \in Calls \ {p} : Kept(q)
    BY <1>2, <1>4, <2>1, KeptByReader, Zenon
  <2>5. LockedExists' /\ Distinct'
    BY <1>2, <1>4, <2>1, <2>3 DEF Inv, LockedExists, Exists, Distinct
  <2>6. c.as # "admin" => /\ c.op \in {"update", "batch"} => c.edit.f \notin {"personal", "mail"}
                          /\ c.op = "create" => c.new.role # "admin" /\ c.edit.f # "personal"
    BY <1>4, Zenon DEF Admitted, UpdateUser, CreateUser
  <2>7. Shape(call[p])'
    BY <1>1, <1>2, <2>3, <2>6 DEF Shape, Consoles, Inserts
  <2>8. CallOK(p)'
    <3>1. LocksOf(call[p])' = LocksOf(c)
      BY <2>3, Zenon DEF LocksOf, GuardThenRow
    <3>2. 1 <= Len(LocksOf(c)) /\ c.k = 1
      <4>1. c.op \in Consoles \union Inserts \union {"recover"}
        BY <1>1, <1>2, Zenon DEF Shape
      <4>2. c.k = 1
        BY <1>1, <1>2, <4>1, Zenon DEF CallOK, Place, Sweeps, Consoles, Inserts
      <4>3. c.op \in Ops \ {"recompute", "purge", "submit"}
        BY <4>1, Zenon DEF Consoles, Inserts, Ops
      <4>4. Len(LocksOf(c)) \in 1..4
        BY <1>1, <4>3, LockCount, Zenon
      <4>5. 1 <= Len(LocksOf(c))
        BY ONLY <4>4
      <4>. QED BY ONLY <4>2, <4>5, Zenon
    <3>3. Place(p)'
      BY <1>1, <1>4, <2>3, <3>1, <3>2 DEF CallOK, Place
    <3>4. Owned(p)'
      BY <1>1, <1>4, <2>3, <3>1 DEF CallOK, Owned
    <3>5. JudgedNames(p)'
      BY <1>1, <1>2, <1>4, <2>3 DEF CallOK, JudgedNames, GuardIdentityAssignment, LoginMailFree, StudentIDOwners, Exists
    <3>6. JudgedRow(p)' /\ JudgedTicket(p)'
      <4>1. c.op \notin Sweeps
        BY <1>1, <1>2, Zenon DEF Shape, Sweeps, Consoles, Inserts
      <4>2. 1..(c.k - 1) = {}
        BY ONLY <3>2
      <4>3. \A l \in Locks : lock[l] = p => l = "gate"
        BY <1>1, <4>1, <4>2, Zenon DEF CallOK, Owned
      <4>4. \A l \in Users \union Tickets : l \in Locks /\ l # "gate"
        BY Zenon DEF Locks
      <4>. QED BY <1>4, <4>3, <4>4, Zenon DEF JudgedRow, JudgedTicket
    <3>7. (lock["admin"] = p /\ call[p].op = "close" => OtherAdmin(call[p].user))'
      BY <1>1, <1>2, <1>4, <2>3, Zenon DEF CallOK, OtherAdmin, IsLive
    <3>8. Reserved(p)' /\ Swept(p)'
      BY <1>1, <1>2, <1>4, <2>3, Zenon DEF CallOK, Reserved, Swept, Unpinned, IsLive
    <3>. QED BY <3>3, <3>4, <3>5, <3>6, <3>7, <3>8, Zenon DEF CallOK
  <2>. QED BY <1>2, <2>2, <2>4, <2>5, <2>7, <2>8, TableKept, Assemble, Zenon
<1>. QED BY <1>3, <1>4, Zenon DEF Check

LEMMA BatchCancelledInv ==
  ASSUME Inv, NEW p \in Calls, BatchCancelled(p)
  PROVE  Inv'
  BY GivesUp, Zenon DEF BatchCancelled

-----------------------------------------------------------------------------
(* Taking a lock. *)

\* What a transaction decides when it takes a lock, by the kind of lock.
LEMMA JudgeCases ==
  ASSUME NEW c, NEW l, Judge(c, l)
  PROVE  /\ l = "assign" =>
              /\ c.op = "update" => GuardIdentityAssignment(c.user, IF c.edit.f = "sid" THEN c.edit.v ELSE NoSid,
                                                            IF c.edit.f = "mail" THEN c.edit.v ELSE NoSid)
              /\ c.op = "create" => GuardIdentityAssignment(NoUser, c.new.sid, c.new.mail)
         /\ l = "admin" => (c.op = "close" => EnsureAnotherAdminRemains(c.user))
         /\ l \in Users => /\ c.op \in {"update", "batch"} => UpdateAdminUserMay(c)
                           /\ c.op = "close" => SoftDeleteMay(c)
                           /\ c.op = "restore" => RestoreMay(c)
                           /\ c.op = "recover" => RecoverMay(c)
                           /\ c.op = "bind" => IsLive(c.user)
         /\ l \in Tickets => /\ c.op = "approve" => ApproveAlumniRequest(c)
                             /\ c.op = "recover" => RecoverTarget(c)
                             /\ c.op = "reject" => LockPendingRequest(c)
         /\ l \in Mails => LoginMailFree(c.user, l)
<1>1. l \in Users => l \notin {"assign", "admin"} /\ l \notin Tickets /\ l \notin Mails
  BY Zenon DEF Addresses
<1>2. l \in Tickets => l \notin {"assign", "admin"} /\ l \notin Users /\ l \notin Mails
  BY Zenon DEF Addresses
<1>3. l \in Mails => l \notin {"assign", "admin"} /\ l \notin Users /\ l \notin Tickets
  BY Zenon DEF Addresses
<1>4. CASE l = "assign"
  BY <1>1, <1>2, <1>3, <1>4, Zenon DEF Judge
<1>5. CASE l = "admin"
  BY <1>1, <1>2, <1>3, <1>5, Zenon DEF Judge
<1>6. CASE l \in Users
  BY <1>1, <1>6, Zenon DEF Judge
<1>7. CASE l \in Tickets
  BY <1>2, <1>7, Zenon DEF Judge
<1>8. CASE l \in Mails
  BY <1>3, <1>8, Zenon DEF Judge
<1>. QED BY <1>4, <1>5, <1>6, <1>7, <1>8, Zenon

\* The row an update will write: one column of the stored one changed.
LEMMA UpdatedRow ==
  ASSUME NEW c \in CallRec, row \in [Users -> UserRow], RowsOK, c.user \in Users, IsLive(c.user),
         NEW n, n = AdminUserUpdate(c)
  PROVE  /\ n \in UserRow /\ n.st \in Live /\ ~n.due
         /\ n.role = (IF c.edit.f = "role" THEN c.edit.v ELSE row[c.user].role)
         /\ n.sid = (IF c.edit.f = "sid" THEN c.edit.v ELSE row[c.user].sid)
         /\ n.mail = (IF c.edit.f = "mail" THEN c.edit.v ELSE row[c.user].mail)
<1>. DEFINE r == row[c.user]
<1>1. r \in UserRow /\ r.st \in Live /\ ~r.due /\ c.edit \in Edits
  BY Zenon DEF RowsOK, IsLive, Live, CallRec
<1>2. DeriveState(r.role, r.sid) \in Live
  BY DerivedIsLive, Zenon
<1>3. CASE c.edit.f = "role"
  <2>1. n = [r EXCEPT !.role = c.edit.v] /\ c.edit.v \in Roles
    BY <1>1, <1>3, EditValues, Zenon DEF AdminUserUpdate
  <2>. QED BY <1>1, <1>3, <2>1, Zenon DEF UserRow
<1>4. CASE c.edit.f = "sid"
  <2>1. n = [r EXCEPT !.sid = c.edit.v] /\ c.edit.v \in Sids
    BY <1>1, <1>4, EditValues, Zenon DEF AdminUserUpdate
  <2>. QED BY <1>1, <1>4, <2>1, Zenon DEF UserRow
<1>5. CASE c.edit.f = "mail"
  <2>1. n = [r EXCEPT !.mail = c.edit.v] /\ c.edit.v \in Mails
    BY <1>1, <1>5, EditValues, Zenon DEF AdminUserUpdate
  <2>. QED BY <1>1, <1>5, <2>1, Zenon DEF UserRow
<1>6. CASE c.edit.f = "pin"
  <2>1. n = [r EXCEPT !.st = c.edit.v, !.manual = TRUE] /\ c.edit.v \in Live
    BY <1>1, <1>6, EditValues, Zenon DEF AdminUserUpdate
  <2>. QED BY <1>1, <1>6, <2>1, Zenon DEF UserRow
<1>7. CASE c.edit.f = "auto"
  <2>1. n = [r EXCEPT !.st = DeriveState(r.role, r.sid), !.manual = FALSE]
    BY <1>7, Zenon DEF AdminUserUpdate
  <2>. QED BY <1>1, <1>2, <1>7, <2>1, Zenon DEF UserRow
<1>8. CASE c.edit.f \in {"personal", "none"}
  <2>1. n = r
    BY <1>8, Zenon DEF AdminUserUpdate
  <2>. QED BY <1>1, <1>8, <2>1, Zenon DEF UserRow
<1>. QED BY <1>1, <1>3, <1>4, <1>5, <1>6, <1>7, <1>8, EditValues, Zenon

\* The rows a close and a restore will write.
LEMMA ClosedRow ==
  ASSUME NEW c, row \in [Users -> UserRow], c.user \in Users
  PROVE  /\ Closed(c) \in UserRow /\ Closed(c).st = "closed" /\ ~Closed(c).due
         /\ Closed(c).role = row[c.user].role /\ Closed(c).sid = row[c.user].sid /\ Closed(c).mail = row[c.user].mail
         /\ Restored(c) \in UserRow /\ Restored(c).st \in Live /\ ~Restored(c).due
         /\ Restored(c).role = row[c.user].role /\ Restored(c).sid = row[c.user].sid
         /\ Restored(c).mail = row[c.user].mail
<1>1. row[c.user] \in UserRow /\ DeriveState(row[c.user].role, row[c.user].sid) \in Live
  BY DerivedIsLive, Zenon
<1>2. /\ Closed(c) \in UserRow /\ Closed(c).st = "closed" /\ ~Closed(c).due
      /\ Closed(c).role = row[c.user].role /\ Closed(c).sid = row[c.user].sid /\ Closed(c).mail = row[c.user].mail
  BY <1>1, Zenon DEF Closed, UserRow
<1>3. /\ Restored(c) \in UserRow /\ Restored(c).st \in Live /\ ~Restored(c).due
      /\ Restored(c).role = row[c.user].role /\ Restored(c).sid = row[c.user].sid
      /\ Restored(c).mail = row[c.user].mail
  BY <1>1, Zenon DEF Restored, UserRow
<1>. QED BY <1>2, <1>3, Zenon

\* The row an approval will insert.
LEMMA BuiltRow ==
  ASSUME NEW t \in TicketRow, t.sid \in Sids, t.mail \in Mails
  PROVE  /\ BuildAccount(t) \in UserRow /\ BuildAccount(t).st \in Live /\ ~BuildAccount(t).due
         /\ BuildAccount(t).sid = t.sid /\ BuildAccount(t).mail = t.mail
<1>1. DeriveState("member", t.sid) \in Live
  BY DerivedIsLive, Zenon
<1>2. Absent \in UserRow /\ ~Absent.due
  BY Zenon DEF Absent, UserRow
<1>. QED BY <1>1, <1>2, Zenon DEF BuildAccount, UserRow

\* What the transaction is after it has taken lock l: only the row to be written
\* (n) and the target of a recovery (u) are new.
LoadedAs(c, l, n, u) ==
    /\ Loaded(c, l) = [c EXCEPT !.new = n, !.user = u]
    /\ l \notin Users /\ ~(l \in Tickets /\ c.op = "approve") => n = c.new
    /\ ~(l \in Tickets /\ c.op = "recover") => u = c.user
    /\ l \in Users => /\ c.op \in {"update", "batch"} => n = AdminUserUpdate(c)
                      /\ c.op = "close" => n = Closed(c)
                      /\ c.op = "restore" => n = Restored(c)
    /\ l \in Tickets /\ c.op = "approve" => n = BuildAccount(ticket[l])
    /\ l \in Tickets /\ c.op = "recover" => u \in StudentIDOwners(ticket[l].sid, NoUser)

LEMMA LoadedCall ==
  ASSUME Inv, NEW p \in Calls, call[p].pc = "lock", call[p].op # "recompute",
         NEW l, l = LocksOf(call[p])[call[p].k], Judge(call[p], l)
  PROVE  /\ Loaded(call[p], l) \in CallRec
         /\ \E n \in UserRow, u \in Users \union {NoUser} : LoadedAs(call[p], l, n, u)
<1>. DEFINE c == call[p]
            d == Loaded(c, l)
<1>1. /\ c \in CallRec /\ Shape(c) /\ row \in [Users -> UserRow] /\ ticket \in [Tickets -> TicketRow]
      /\ RowsOK /\ TicketsOK
  BY CallFacts, Zenon
<1>2. /\ l \in Users => l = c.user /\ c.op \in Consoles \union {"bind", "recover"}
      /\ l \in Tickets => l = c.ticket /\ c.op \in {"approve", "recover", "reject"}
  BY NextLock, Zenon
<1>3. ASSUME NEW n \in UserRow PROVE [c EXCEPT !.new = n, !.user = c.user] = [c EXCEPT !.new = n]
  BY <1>1, Zenon DEF CallRec
<1>4. [c EXCEPT !.new = c.new, !.user = c.user] = c
  BY <1>1, Zenon DEF CallRec
<1>5. ASSUME NEW n \in UserRow, NEW u \in Users \union {NoUser} PROVE [c EXCEPT !.new = n, !.user = u] \in CallRec
  BY <1>1, Zenon DEF CallRec
<1>6. ASSUME NEW u PROVE [c EXCEPT !.user = u] = [c EXCEPT !.new = c.new, !.user = u]
  BY <1>1, Zenon DEF CallRec
<1>7. c.new \in UserRow /\ c.user \in Users \union {NoUser}
  BY <1>1, Zenon DEF CallRec
<1>8. CASE l \in Users
  <2>. DEFINE n == CASE c.op \in {"update", "batch"} -> AdminUserUpdate(c)
                     [] c.op = "close"   -> Closed(c)
                     [] c.op = "restore" -> Restored(c)
                     [] OTHER            -> row[c.user]
  <2>1. d = [c EXCEPT !.new = n]
    BY <1>8, Zenon DEF Loaded
  <2>2. n \in UserRow
    <3>1. c.op \in {"update", "batch"} => IsLive(c.user)
      BY <1>8, JudgeCases, Zenon DEF UpdateAdminUserMay
    <3>2. c.op \in {"update", "batch"} => AdminUserUpdate(c) \in UserRow
      BY <1>1, <1>2, <1>8, <3>1, UpdatedRow, Zenon
    <3>3. Closed(c) \in UserRow /\ Restored(c) \in UserRow /\ row[c.user] \in UserRow
      BY <1>1, <1>2, <1>8, ClosedRow, Zenon
    <3>. QED BY <3>2, <3>3, Zenon
  <2>3. /\ c.op \in {"update", "batch"} => n = AdminUserUpdate(c)
        /\ c.op = "close" => n = Closed(c)
        /\ c.op = "restore" => n = Restored(c)
    BY Zenon
  <2>. HIDE DEF n
  <2>4. d = [c EXCEPT !.new = n, !.user = c.user] /\ l \notin Tickets
    BY <1>3, <1>8, <2>1, <2>2, Zenon
  <2>5. LoadedAs(c, l, n, c.user)
    BY <1>8, <2>3, <2>4, Zenon DEF LoadedAs
  <2>. QED BY <1>5, <1>7, <2>2, <2>4, <2>5, ZenonT(60)
<1>9. CASE l \in Tickets /\ c.op = "approve"
  <2>1. d = [c EXCEPT !.new = BuildAccount(ticket[l])] /\ l \notin Users
    BY <1>9, Zenon DEF Loaded
  <2>2. BuildAccount(ticket[l]) \in UserRow
    <3>1. ticket[l].st = "pending"
      BY <1>2, <1>9, JudgeCases, Zenon DEF ApproveAlumniRequest, LockPendingRequest
    <3>. QED BY <1>1, <1>9, <3>1, BuiltRow, Zenon DEF TicketsOK
  <2>3. d = [c EXCEPT !.new = BuildAccount(ticket[l]), !.user = c.user]
    BY <1>3, <2>1, <2>2, Zenon
  <2>4. LoadedAs(c, l, BuildAccount(ticket[l]), c.user)
    BY <1>9, <2>1, <2>3, Zenon DEF LoadedAs
  <2>5. d \in CallRec
    <3>. HIDE DEF c, d
    <3>. QED BY <1>1, <2>1, <2>2, Zenon DEF CallRec
  <2>. QED BY <1>7, <2>2, <2>4, <2>5, Zenon
<1>10. CASE l \in Tickets /\ c.op = "recover"
  <2>. DEFINE O == StudentIDOwners(ticket[l].sid, NoUser)
              w == CHOOSE x \in O : TRUE
  <2>1. d = [c EXCEPT !.user = w] /\ l \notin Users
    BY <1>10, Zenon DEF Loaded
  <2>2. O # {}
    <3>1. \E v \in Users : O = {v}
      BY <1>2, <1>10, JudgeCases, Zenon DEF RecoverTarget
    <3>. QED BY <3>1, Zenon
  <2>3. w \in O /\ w \in Users
    BY <2>2, Zenon DEF StudentIDOwners
  <2>. HIDE DEF w
  <2>4. d = [c EXCEPT !.new = c.new, !.user = w]
    BY <1>6, <2>1, Zenon
  <2>5. LoadedAs(c, l, c.new, w)
    BY <1>10, <2>1, <2>3, <2>4, Zenon DEF LoadedAs
  <2>6. d \in CallRec
    <3>. HIDE DEF c, d
    <3>. QED BY <1>1, <2>1, <2>3, Zenon DEF CallRec
  <2>. QED BY <1>7, <2>3, <2>5, <2>6, Zenon
<1>11. CASE l \notin Users /\ ~(l \in Tickets /\ c.op \in {"approve", "recover"})
  <2>1. d = c
    BY <1>11, Zenon DEF Loaded
  <2>2. LoadedAs(c, l, c.new, c.user)
    BY <1>4, <1>11, <2>1, Zenon DEF LoadedAs
  <2>. QED BY <1>1, <1>7, <2>1, <2>2, Zenon
<1>. QED BY <1>8, <1>9, <1>10, <1>11, Zenon

\* The step that takes lock l and finds nothing against it.
Taken(p, l) ==
    /\ call[p].pc = "lock" /\ call[p].op # "recompute" /\ l = LocksOf(call[p])[call[p].k]
    /\ lock[l] = NoCall /\ Judge(call[p], l)
    /\ lock' = [lock EXCEPT ![l] = p]
    /\ call' = [call EXCEPT ![p] = [Loaded(call[p], l) EXCEPT !.k = call[p].k + 1,
                   !.pc = IF call[p].k = Len(LocksOf(call[p])) THEN "commit" ELSE "lock"]]
    /\ UNCHANGED <<row, bound, ticket, graduated, menu, left>>

LEMMA TakenFields ==
  ASSUME Inv, NEW p \in Calls, NEW l, Taken(p, l)
  PROVE  /\ call' \in [Calls -> CallRec] /\ \A q \in Calls \ {p} : call'[q] = call[q]
         /\ call'[p].op = call[p].op /\ call'[p].by = call[p].by /\ call'[p].as = call[p].as
         /\ call'[p].edit = call[p].edit /\ call'[p].ticket = call[p].ticket /\ call'[p].todo = call[p].todo
         /\ call'[p].drv = call[p].drv /\ call'[p].req = call[p].req /\ call'[p].k = call[p].k + 1
         /\ call'[p].pc = IF call[p].k = Len(LocksOf(call[p])) THEN "commit" ELSE "lock"
         /\ l \notin Users /\ ~(l \in Tickets /\ call[p].op = "approve") => call'[p].new = call[p].new
         /\ ~(l \in Tickets /\ call[p].op = "recover") => call'[p].user = call[p].user
         /\ l \in Users => /\ call[p].op \in {"update", "batch"} => call'[p].new = AdminUserUpdate(call[p])
                           /\ call[p].op = "close" => call'[p].new = Closed(call[p])
                           /\ call[p].op = "restore" => call'[p].new = Restored(call[p])
         /\ l \in Tickets /\ call[p].op = "approve" => call'[p].new = BuildAccount(ticket[l])
         /\ l \in Tickets /\ call[p].op = "recover" => call'[p].user \in StudentIDOwners(ticket[l].sid, NoUser)
<1>. DEFINE c == call[p]
            d == Loaded(c, l)
            pc == IF c.k = Len(LocksOf(c)) THEN "commit" ELSE "lock"
<1>1. c \in CallRec /\ call \in [Calls -> CallRec] /\ c.k \in Nat
  BY CallFacts, Zenon
<1>2. d \in CallRec
  BY LoadedCall, Zenon DEF Taken
<1>3. PICK n \in UserRow, u \in Users \union {NoUser} : LoadedAs(c, l, n, u)
  BY LoadedCall, Zenon DEF Taken
<1>4. call' = [call EXCEPT ![p] = [d EXCEPT !.k = c.k + 1, !.pc = pc]]
  BY Zenon DEF Taken
<1>5. pc \in {"lock", "commit"} /\ c.k + 1 \in Nat
  BY <1>1
<1>. HIDE DEF c, d, pc
<1>6. [d EXCEPT !.k = c.k + 1, !.pc = pc] \in CallRec
  BY <1>2, <1>5, Zenon DEF CallRec
<1>7. call' \in [Calls -> CallRec] /\ \A q \in Calls \ {p} : call'[q] = call[q]
  BY <1>1, <1>4, <1>6, Zenon
<1>8. call'[p] = [d EXCEPT !.k = c.k + 1, !.pc = pc]
  BY <1>1, <1>4, Zenon
<1>9. /\ call'[p].op = d.op /\ call'[p].by = d.by /\ call'[p].as = d.as /\ call'[p].edit = d.edit
      /\ call'[p].ticket = d.ticket /\ call'[p].todo = d.todo /\ call'[p].drv = d.drv /\ call'[p].req = d.req
      /\ call'[p].k = c.k + 1 /\ call'[p].pc = pc /\ call'[p].new = d.new /\ call'[p].user = d.user
  BY <1>2, <1>8, Zenon DEF CallRec
<1>10. /\ d.op = c.op /\ d.by = c.by /\ d.as = c.as /\ d.edit = c.edit
       /\ d.ticket = c.ticket /\ d.todo = c.todo /\ d.drv = c.drv /\ d.req = c.req /\ d.new = n /\ d.user = u
  BY <1>1, <1>3 DEF CallRec, LoadedAs, d
<1>. QED BY <1>3, <1>7, <1>9, <1>10 DEF c, pc, LoadedAs

\* The locks already passed keep their places in the list.
LEMMA TakenLocks ==
  ASSUME Inv, NEW p \in Calls, NEW l, Taken(p, l)
  PROVE  /\ Len(LocksOf(call'[p])) = Len(LocksOf(call[p]))
         /\ \A i \in 1..call[p].k : LocksOf(call'[p])[i] = LocksOf(call[p])[i]
<1>. DEFINE c == call[p]
            d == call'[p]
<1>1. /\ c \in CallRec /\ d \in CallRec /\ Shape(c) /\ c.k \in Nat /\ c.k >= 1
      /\ d.op = c.op /\ d.edit = c.edit /\ d.ticket = c.ticket
  BY CallFacts, TakenFields, Zenon
<1>2. /\ c.pc = "lock" /\ c.op # "recompute" /\ l = LocksOf(c)[c.k]
      /\ c.op \in Ops \ {"recompute", "purge", "submit"}
  BY <1>1, Zenon DEF Taken, CallRec, Shape
<1>3. /\ l \in Users => c.op \in Consoles \union {"bind", "recover"}
      /\ l \in Tickets => c.op \in {"approve", "recover", "reject"}
      /\ l \in Tickets /\ c.op \in {"approve", "recover"} => c.k = 2
  BY <1>2, NextLock, Zenon
<1>4. c.op # "recover" => d.user = c.user
  BY TakenFields, Zenon
<1>5. c.op = "create" => d.new = c.new
  BY <1>3, TakenFields, Zenon DEF Consoles
<1>. HIDE DEF c, d
<1>6. CASE c.op \in {"approve", "recover"}
  <2>. DEFINE x == IF c.op = "approve" THEN c.new.mail ELSE c.user
              y == IF c.op = "approve" THEN d.new.mail ELSE d.user
  <2>1. LocksOf(c) = <<"assign", c.ticket, x, Personal>> /\ LocksOf(d) = <<"assign", c.ticket, y, Personal>>
    BY <1>1, <1>6, LockLists, Zenon
  <2>2. x = y \/ c.k = 2
    <3>1. c.op = "approve" /\ l \notin Tickets => d.new = c.new
      BY <1>3, TakenFields, Zenon DEF Consoles, c, d
    <3>2. c.op = "recover" /\ l \notin Tickets => d.user = c.user
      BY TakenFields, Zenon DEF c, d
    <3>. QED BY <1>3, <1>6, <3>1, <3>2, Zenon
  <2>. HIDE DEF x, y
  <2>3. CASE x = y
    BY <2>1, <2>3, Zenon DEF c, d
  <2>4. CASE c.k = 2
    BY <2>1, <2>4 DEF c, d
  <2>. QED BY <2>2, <2>3, <2>4, Zenon
<1>7. CASE c.op \notin {"approve", "recover"}
  <2>1. LocksOf(d) = LocksOf(c)
    BY <1>1, <1>2, <1>4, <1>5, <1>7, Zenon DEF LocksOf, GuardThenRow
  <2>. QED BY <2>1, Zenon DEF c, d
<1>. QED BY <1>6, <1>7, Zenon

\* A transaction that has only the assignment lock.
LEMMA FirstLock ==
  ASSUME Inv, NEW p \in Calls, call[p].op \in {"approve", "recover"}, call[p].k = 2
  PROVE  \A l \in Locks : lock[l] = p => l = "assign"
<1>1. call[p] \in CallRec /\ Owned(p)
  BY CallFacts, Zenon DEF CallOK
<1>2. LocksOf(call[p])[1] = "assign"
  BY <1>1, LockLists
<1>. QED BY <1>1, <1>2 DEF Owned, Sweeps

\* Who holds what after the lock is taken.
LEMMA TakenLock ==
  ASSUME Inv, NEW p \in Calls, NEW l, Taken(p, l)
  PROVE  /\ l \in Locks /\ l \notin {"gate", "sweep"} /\ lock' \in [Locks -> Calls \union {NoCall}]
         /\ \A x \in Locks : lock'[x] = p <=> x = l \/ lock[x] = p
         /\ \A x \in Locks \ {l} : lock'[x] = lock[x]
         /\ \A q \in Calls \ {p} : \A x \in Locks : lock'[x] = q <=> lock[x] = q
<1>1. l \in Locks /\ l \notin {"gate", "sweep"}
  BY NextLock, Zenon DEF Taken
<1>2. lock \in [Locks -> Calls \union {NoCall}] /\ lock' = [lock EXCEPT ![l] = p] /\ lock[l] = NoCall
  BY CallFacts, Zenon DEF Taken
<1>. QED BY <1>1, <1>2, Zenon

\* The names that were free when the assignment lock, or the address, was taken.
LEMMA TakenNames ==
  ASSUME Inv, NEW p \in Calls, NEW l, Taken(p, l)
  PROVE  JudgedNames(p)'
<1>. DEFINE c == call[p]
            d == call'[p]
<1>1. /\ c \in CallRec /\ d \in CallRec /\ Shape(c) /\ JudgedNames(p) /\ c.edit \in Edits
      /\ d.op = c.op /\ d.edit = c.edit
  BY CallFacts, TakenFields, Zenon DEF CallOK
<1>2. row' = row /\ Judge(c, l) /\ c.pc = "lock" /\ c.op # "recompute" /\ l = LocksOf(c)[c.k]
  BY Zenon DEF Taken
<1>3. l \in Locks /\ \A x \in Locks : lock'[x] = p <=> x = l \/ lock[x] = p
  BY TakenLock, Zenon
<1>4. Mails \subseteq Locks /\ "assign" \in Locks
  BY Zenon DEF Locks, Addresses
<1>5. /\ l \in Users => c.op \in Consoles \union {"bind", "recover"}
      /\ l \in Tickets => c.op \in {"approve", "recover", "reject"}
      /\ l \in Tickets /\ c.op \in {"approve", "recover"} => c.k = 2
  BY <1>2, NextLock, Zenon
<1>6. c.op # "recover" => d.user = c.user
  BY TakenFields
<1>7. c.op = "create" => d.new = c.new
  BY <1>5, TakenFields DEF Consoles
<1>. HIDE DEF c, d
<1>8. ASSUME lock'["assign"] = p, c.op = "update"
      PROVE  GuardIdentityAssignment(c.user, IF c.edit.f = "sid" THEN c.edit.v ELSE NoSid,
                                             IF c.edit.f = "mail" THEN c.edit.v ELSE NoSid)
  <2>1. CASE l = "assign"
    BY <1>2, <1>8, <2>1, JudgeCases, Zenon
  <2>2. CASE lock["assign"] = p
    BY <1>1, <1>8, <2>2, Zenon DEF JudgedNames, c
  <2>. QED BY <1>3, <1>4, <1>8, <2>1, <2>2, Zenon
<1>9. ASSUME lock'["assign"] = p, c.op = "create"
      PROVE  GuardIdentityAssignment(NoUser, c.new.sid, c.new.mail)
  <2>1. CASE l = "assign"
    BY <1>2, <1>9, <2>1, JudgeCases, Zenon
  <2>2. CASE lock["assign"] = p
    BY <1>1, <1>9, <2>2, Zenon DEF JudgedNames, c
  <2>. QED BY <1>3, <1>4, <1>9, <2>1, <2>2, Zenon
<1>10. ASSUME c.op = "update", c.edit.f = "mail", lock'[c.edit.v] = p
       PROVE  LoginMailFree(c.user, c.edit.v)
  <2>1. c.edit.v \in Mails
    BY <1>1, <1>10, EditValues, Zenon
  <2>2. CASE l = c.edit.v
    BY <1>2, <2>1, <2>2, JudgeCases, Zenon
  <2>3. CASE lock[c.edit.v] = p
    BY <1>1, <1>10, <2>3, Zenon DEF JudgedNames, c
  <2>. QED BY <1>3, <1>4, <1>10, <2>1, <2>2, <2>3, Zenon
<1>11. ASSUME c.op \in Inserts, d.new.mail \in Mails, lock'[d.new.mail] = p
       PROVE  LoginMailFree(c.user, d.new.mail)
  <2>1. CASE l = d.new.mail
    BY <1>2, <1>11, <2>1, JudgeCases, Zenon
  <2>2. CASE lock[d.new.mail] = p
    <3>1. ~(c.op = "approve" /\ l \in Tickets)
      BY <1>4, <1>5, <1>11, <2>2, FirstLock, Zenon DEF c, Addresses
    <3>2. l \notin Users
      BY <1>5, <1>11, Zenon DEF Inserts, Consoles
    <3>3. d.new = c.new
      BY <3>1, <3>2, TakenFields, Zenon DEF c, d
    <3>. QED BY <1>1, <1>11, <2>2, <3>3, Zenon DEF JudgedNames, c
  <2>. QED BY <1>3, <1>4, <1>11, <2>1, <2>2, Zenon
<1>12. d.op \in {"update", "create"} \union Inserts => d.user = c.user
  BY <1>1, <1>6, Zenon DEF Inserts
<1>13. ASSUME NEW u, NEW s, NEW m, GuardIdentityAssignment(u, s, m) PROVE GuardIdentityAssignment(u, s, m)'
  BY <1>2, <1>13, Zenon DEF GuardIdentityAssignment, UnmatchedNjuptPrefix, StudentIDOwners, Exists
<1>14. ASSUME NEW u, NEW m, LoginMailFree(u, m) PROVE LoginMailFree(u, m)'
  BY <1>2, <1>14, Zenon DEF LoginMailFree, Exists
<1>15. PICK e : e = d
  OBVIOUS
<1>16. lock'["assign"] = p /\ e.op = "update" =>
         GuardIdentityAssignment(e.user, IF e.edit.f = "sid" THEN e.edit.v ELSE NoSid,
                                         IF e.edit.f = "mail" THEN e.edit.v ELSE NoSid)'
  BY <1>1, <1>8, <1>12, <1>13, <1>15, Zenon
<1>17. lock'["assign"] = p /\ e.op = "create" => GuardIdentityAssignment(NoUser, e.new.sid, e.new.mail)'
  BY <1>1, <1>7, <1>9, <1>13, <1>15, Zenon
<1>18. e.op = "update" /\ e.edit.f = "mail" /\ lock'[e.edit.v] = p => LoginMailFree(e.user, e.edit.v)'
  BY <1>1, <1>10, <1>12, <1>14, <1>15, Zenon
<1>19. e.op \in Inserts /\ e.new.mail \in Mails /\ lock'[e.new.mail] = p => LoginMailFree(e.user, e.new.mail)'
  BY <1>1, <1>11, <1>12, <1>14, <1>15, Zenon
<1>. QED BY <1>15, <1>16, <1>17, <1>18, <1>19, Zenon DEF JudgedNames, d

\* What was found on the locked row, and the row to be written.
LEMMA TakenRow ==
  ASSUME Inv, NEW p \in Calls, NEW l, Taken(p, l)
  PROVE  JudgedRow(p)'
<1>. DEFINE c == call[p]
            d == call'[p]
            r == row[c.user]
<1>1. /\ c \in CallRec /\ Shape(c) /\ JudgedRow(p) /\ row \in [Users -> UserRow] /\ RowsOK
      /\ d.op = c.op /\ d.edit = c.edit /\ d.as = c.as /\ d.by = c.by /\ d.ticket = c.ticket
  BY CallFacts, TakenFields, Zenon DEF CallOK
<1>2. /\ row' = row /\ ticket' = ticket /\ Judge(c, l) /\ c.pc = "lock" /\ c.op # "recompute"
      /\ l = LocksOf(c)[c.k]
  BY Zenon DEF Taken
<1>3. \A x \in Locks : lock'[x] = p <=> x = l \/ lock[x] = p
  BY TakenLock, Zenon
<1>4. SUFFICES ASSUME d.user \in Users, lock'[d.user] = p PROVE JudgedRow(p)'
  BY Zenon DEF JudgedRow
<1>5. Users \subseteq Locks
  BY Zenon DEF Locks
<1>6. /\ l \in Users => l = c.user /\ l \notin Tickets
      /\ l \in Tickets => c.op \in {"approve", "recover", "reject"}
      /\ l \in Tickets /\ c.op \in {"approve", "recover"} => c.k = 2
  BY <1>2, NextLock, Zenon
<1>. HIDE DEF c, d, r
<1>7. CASE l \in Users
  <2>1. l = c.user /\ c.user \in Users /\ d.user = c.user
    BY <1>6, <1>7, TakenFields, Zenon DEF c, d
  <2>2. ASSUME c.op \in {"update", "batch"}
        PROVE  /\ IsLive(c.user) /\ d.new.st \in Live /\ ~d.new.due
               /\ d.new.role = (IF c.edit.f = "role" THEN c.edit.v ELSE r.role)
               /\ d.new.sid = (IF c.edit.f = "sid" THEN c.edit.v ELSE r.sid)
               /\ d.new.mail = (IF c.edit.f = "mail" THEN c.edit.v ELSE r.mail)
               /\ d.new.role # r.role => c.by # c.user
               /\ c.as # "admin" => r.role # "admin" /\ d.new.role # "admin"
               /\ r.role = "admin" /\ d.new.role # "admin" => OtherAdmin(c.user)
    <3>1. UpdateAdminUserMay(c)
      BY <1>2, <1>7, <2>2, JudgeCases, Zenon
    <3>2. d.new = AdminUserUpdate(c)
      BY <1>7, <2>2, TakenFields, Zenon DEF c, d
    <3>3. IsLive(c.user)
      BY <3>1, Zenon DEF UpdateAdminUserMay
    <3>4. /\ d.new.st \in Live /\ ~d.new.due
          /\ d.new.role = (IF c.edit.f = "role" THEN c.edit.v ELSE r.role)
          /\ d.new.sid = (IF c.edit.f = "sid" THEN c.edit.v ELSE r.sid)
          /\ d.new.mail = (IF c.edit.f = "mail" THEN c.edit.v ELSE r.mail)
      BY <1>1, <2>1, <3>2, <3>3, UpdatedRow, Zenon DEF r
    <3>5. d.new.role # r.role => c.by # c.user
      BY <3>1, <3>4, SMTT(60) DEF UpdateAdminUserMay, r
    <3>6. c.as # "admin" => r.role # "admin" /\ d.new.role # "admin"
      BY <3>1, <3>4, Zenon DEF UpdateAdminUserMay, r
    <3>7. r.role = "admin" /\ d.new.role # "admin" => OtherAdmin(c.user)
      BY <3>1, <3>3, <3>4, Zenon DEF UpdateAdminUserMay, EnsureAnotherAdminRemains, OtherAdmin, r
    <3>. QED BY <3>3, <3>4, <3>5, <3>6, <3>7, Zenon
  <2>3. ASSUME c.op = "close"
        PROVE  /\ IsLive(c.user) /\ d.new.st = "closed" /\ ~d.new.due
               /\ d.new.role = r.role /\ d.new.sid = r.sid /\ d.new.mail = r.mail
               /\ c.as # "admin" => r.role # "admin"
    <3>1. SoftDeleteMay(c)
      BY <1>2, <1>7, <2>3, JudgeCases, Zenon
    <3>2. d.new = Closed(c)
      BY <1>7, <2>3, TakenFields, Zenon DEF c, d
    <3>. QED BY <1>1, <2>1, <3>1, <3>2, ClosedRow DEF SoftDeleteMay, RefuseManagerOnAdminTarget, r
  <2>4. ASSUME c.op = "restore"
        PROVE  /\ r.st = "closed" /\ d.new.st \in Live /\ ~d.new.due
               /\ d.new.role = r.role /\ d.new.sid = r.sid /\ d.new.mail = r.mail
               /\ c.as # "admin" => r.role # "admin"
    <3>1. RestoreMay(c)
      BY <1>2, <1>7, <2>4, JudgeCases, Zenon
    <3>2. d.new = Restored(c)
      BY <1>7, <2>4, TakenFields, Zenon DEF c, d
    <3>. QED BY <1>1, <2>1, <3>1, <3>2, ClosedRow DEF RestoreMay, RefuseManagerOnAdminTarget, r
  <2>5. ASSUME c.op = "recover" PROVE IsLive(c.user) /\ r.mail = ticket[c.ticket].mail
    BY <1>2, <1>7, <2>5, JudgeCases, Zenon DEF RecoverMay, r
  <2>. QED BY <1>1, <1>2, <2>1, <2>2, <2>3, <2>4, <2>5, ZenonT(60) DEF JudgedRow, OtherAdmin, IsLive, d, r
<1>8. CASE l \notin Users
  <2>1. lock[d.user] = p
    BY <1>3, <1>4, <1>5, <1>8, Zenon
  <2>2. ~(l \in Tickets /\ c.op = "recover")
    BY <1>4, <1>5, <1>6, <2>1, FirstLock, Zenon DEF c
  <2>3. d.user = c.user
    BY <2>2, TakenFields, Zenon DEF c, d
  <2>4. c.op # "approve" => d.new = c.new
    BY <1>8, TakenFields, Zenon DEF c, d
  <2>. QED BY <1>1, <1>2, <1>4, <2>1, <2>3, <2>4 DEF JudgedRow, OtherAdmin, IsLive, c, d
<1>. QED BY <1>7, <1>8, Zenon

\* What was found on the locked ticket.
LEMMA TakenTicket ==
  ASSUME Inv, NEW p \in Calls, NEW l, Taken(p, l)
  PROVE  JudgedTicket(p)'
<1>. DEFINE c == call[p]
            d == call'[p]
            t == ticket[c.ticket]
<1>1. /\ c \in CallRec /\ Shape(c) /\ JudgedTicket(p) /\ ticket \in [Tickets -> TicketRow] /\ TicketsOK
      /\ d.op = c.op /\ d.ticket = c.ticket
  BY CallFacts, TakenFields, Zenon DEF CallOK
<1>2. /\ row' = row /\ ticket' = ticket /\ Judge(c, l) /\ c.pc = "lock" /\ c.op # "recompute"
      /\ l = LocksOf(c)[c.k]
  BY DEF Taken
<1>3. \A x \in Locks : lock'[x] = p <=> x = l \/ lock[x] = p
  BY TakenLock
<1>4. SUFFICES ASSUME c.ticket \in Tickets, lock'[c.ticket] = p PROVE JudgedTicket(p)'
  BY <1>1, Zenon DEF JudgedTicket
<1>5. Tickets \subseteq Locks
  BY Zenon DEF Locks
<1>6. /\ l \in Users => c.op \in Consoles \union {"bind", "recover"}
      /\ l \in Tickets => l = c.ticket /\ c.op \in {"approve", "recover", "reject"}
  BY <1>2, NextLock, Zenon
<1>. HIDE DEF c, d, t
<1>7. CASE l \in Tickets
  <2>1. l = c.ticket
    BY <1>6, <1>7, Zenon
  <2>2. t.st = "pending"
    BY <1>2, <1>6, <1>7, JudgeCases, Zenon DEF ApproveAlumniRequest, RecoverTarget, LockPendingRequest, t
  <2>3. ASSUME c.op = "approve"
        PROVE  /\ GuardIdentityAssignment(NoUser, t.sid, t.mail)
               /\ d.new.st \in Live /\ ~d.new.due /\ d.new.sid = t.sid /\ d.new.mail = t.mail
    <3>1. GuardIdentityAssignment(NoUser, t.sid, t.mail)
      BY <1>2, <1>7, <2>3, JudgeCases, Zenon DEF ApproveAlumniRequest, t
    <3>2. d.new = BuildAccount(t)
      BY <1>7, <2>1, <2>3, TakenFields, ZenonT(60) DEF c, d, t
    <3>3. t \in TicketRow /\ t.sid \in Sids /\ t.mail \in Mails
      BY <1>1, <1>4, <2>2, Zenon DEF TicketsOK, t
    <3>. QED BY <3>1, <3>2, <3>3, BuiltRow, Zenon
  <2>4. ASSUME c.op = "recover"
        PROVE  d.user \in Users /\ row[d.user].sid = t.sid
    <3>1. d.user \in StudentIDOwners(t.sid, NoUser)
      BY <1>7, <2>1, <2>4, TakenFields, Zenon DEF c, d, t
    <3>. QED BY <3>1, Zenon DEF StudentIDOwners
  <2>. QED BY <1>1, <1>2, <2>2, <2>3, <2>4, ZenonT(60)
         DEF JudgedTicket, GuardIdentityAssignment, StudentIDOwners, Exists, d, t
<1>8. CASE l \notin Tickets
  <2>1. lock[c.ticket] = p
    BY <1>3, <1>4, <1>5, <1>8, Zenon
  <2>2. d.user = c.user
    BY <1>8, TakenFields, Zenon DEF c, d
  <2>3. c.op = "approve" => d.new = c.new
    BY <1>6, <1>8, TakenFields, Zenon DEF c, d, Consoles
  <2>. QED BY <1>1, <1>2, <1>4, <2>1, <2>2, <2>3, ZenonT(60)
         DEF JudgedTicket, GuardIdentityAssignment, StudentIDOwners, Exists, c, d
<1>. QED BY <1>7, <1>8, Zenon

\* The locks behind it are its own, and no others.
LEMMA TakenPlace ==
  ASSUME Inv, NEW p \in Calls, NEW l, Taken(p, l)
  PROVE  Place(p)' /\ Owned(p)'
<1>. DEFINE c == call[p]
            d == call'[p]
<1>1. /\ c \in CallRec /\ Shape(c) /\ Place(p) /\ Owned(p) /\ c.k \in Nat /\ c.k >= 1
      /\ d.op = c.op /\ d.k = c.k + 1 /\ d.pc = IF c.k = Len(LocksOf(c)) THEN "commit" ELSE "lock"
  BY CallFacts, TakenFields, Zenon DEF CallOK
<1>2. /\ c.pc = "lock" /\ c.op # "recompute" /\ l = LocksOf(c)[c.k]
      /\ c.op \in Ops \ {"recompute", "purge", "submit"}
  BY <1>1, Zenon DEF Taken, CallRec, Shape
<1>3. l \in Locks /\ \A x \in Locks : lock'[x] = p <=> x = l \/ lock[x] = p
  BY TakenLock
<1>4. Len(LocksOf(c)) \in Nat /\ Len(LocksOf(d)) = Len(LocksOf(c)) /\ c.k <= Len(LocksOf(c))
  <2>1. Len(LocksOf(c)) \in 1..4 /\ Len(LocksOf(d)) = Len(LocksOf(c))
    BY <1>1, <1>2, LockCount, TakenLocks, Zenon
  <2>2. c.k <= Len(LocksOf(c))
    BY <1>1, <1>2, Zenon DEF Place, Sweeps
  <2>3. Len(LocksOf(c)) \in Nat
    BY ONLY <2>1
  <2>. QED BY <2>1, <2>2, <2>3, Zenon
<1>5. \A i \in 1..c.k : LocksOf(d)[i] = LocksOf(c)[i]
  BY TakenLocks, Zenon
<1>6. \A i \in 1..(c.k - 1) : LocksOf(c)[i] \in Locks /\ lock[LocksOf(c)[i]] = p
  BY <1>1, <1>2, Zenon DEF Place, Sweeps
<1>7. \A x \in Locks : lock[x] = p => (x = "gate" /\ c.op = "batch") \/ \E i \in 1..(c.k - 1) : x = LocksOf(c)[i]
  BY <1>1, <1>2, Zenon DEF Owned, Sweeps
<1>8. LocksOf(call[p])' = LocksOf(d)
  BY Zenon DEF LocksOf, GuardThenRow
<1>. HIDE DEF c, d
<1>9. \A i \in 1..(d.k - 1) : LocksOf(d)[i] \in Locks /\ lock'[LocksOf(d)[i]] = p
  <2>1. SUFFICES ASSUME NEW i \in 1..c.k PROVE LocksOf(d)[i] \in Locks /\ lock'[LocksOf(d)[i]] = p
    BY <1>1
  <2>2. CASE i = c.k
    BY <1>1, <1>2, <1>3, <1>5, <2>2, Zenon
  <2>3. CASE i \in 1..(c.k - 1)
    BY <1>3, <1>5, <1>6, <2>3, Zenon
  <2>. QED BY <1>1, <2>2, <2>3
<1>10. \A x \in Locks : lock'[x] = p => (x = "gate" /\ d.op = "batch") \/ \E i \in 1..(d.k - 1) : x = LocksOf(d)[i]
  <2>1. SUFFICES ASSUME NEW x \in Locks, lock'[x] = p, ~(x = "gate" /\ c.op = "batch")
                 PROVE  \E i \in 1..c.k : x = LocksOf(c)[i]
    BY <1>1, <1>5
  <2>2. CASE x = l
    BY <1>1, <1>2, <2>2
  <2>3. CASE lock[x] = p
    <3>1. PICK i \in 1..(c.k - 1) : x = LocksOf(c)[i]
      BY <1>7, <2>1, <2>3, Zenon
    <3>. QED BY <1>1, <3>1
  <2>. QED BY <1>3, <2>1, <2>2, <2>3, Zenon
<1>11. /\ d.pc = "lock" => d.k <= Len(LocksOf(d))
       /\ d.pc = "commit" => d.k = Len(LocksOf(d)) + 1
       /\ d.pc \in {"lock", "commit"}
  BY <1>1, <1>4
<1>12. Place(p)'
  BY <1>8, <1>9, <1>11, Zenon DEF Place, d
<1>13. Owned(p)'
  BY <1>1, <1>2, <1>8, <1>10, Zenon DEF Owned, Sweeps, d
<1>. QED BY <1>12, <1>13, Zenon

\* A lock is taken.
LEMMA TakenInv ==
  ASSUME Inv, NEW p \in Calls, NEW l, Taken(p, l)
  PROVE  Inv'
<1>. DEFINE c == call[p]
            d == call'[p]
<1>1. /\ c \in CallRec /\ Shape(c) /\ CallOK(p) /\ row \in [Users -> UserRow]
      /\ call' \in [Calls -> CallRec] /\ \A q \in Calls \ {p} : call'[q] = call[q]
      /\ d.op = c.op /\ d.by = c.by /\ d.as = c.as /\ d.edit = c.edit /\ d.ticket = c.ticket
      /\ d.todo = c.todo /\ d.drv = c.drv /\ d.req = c.req /\ d.k = c.k + 1 /\ d.pc \in {"lock", "commit"}
  BY CallFacts, TakenFields, Zenon
<1>2. /\ UNCHANGED <<row, bound, ticket, graduated, menu, left>> /\ Judge(c, l) /\ c.pc = "lock"
      /\ c.op # "recompute" /\ l = LocksOf(c)[c.k] /\ c.op \notin {"submit", "purge"}
  BY <1>1, Zenon DEF Taken, Shape
<1>3. /\ l \in Locks /\ lock' \in [Locks -> Calls \union {NoCall}]
      /\ \A x \in Locks : lock'[x] = p <=> x = l \/ lock[x] = p
      /\ \A x \in Locks \ {l} : lock'[x] = lock[x]
      /\ \A q \in Calls \ {p} : \A x \in Locks : lock'[x] = q <=> lock[x] = q
  BY TakenLock, Zenon
<1>4. /\ l \in Users => l = c.user /\ c.op \in Consoles \union {"bind", "recover"}
      /\ l \in Tickets => c.op \in {"approve", "recover", "reject"}
  BY <1>2, NextLock, Zenon
<1>5. (c.op # "recover" => d.user = c.user) /\ (c.op = "create" => d.new = c.new)
  BY <1>4, TakenFields, Zenon DEF Consoles
<1>6. Typed'
  BY <1>1, <1>2, <1>3, Zenon DEF Inv, Typed
<1>7. \A q \in Calls \ {p} : Kept(q)
  BY <1>1, <1>2, <1>3, KeptByReader, Zenon
<1>8. LockedExists'
  <2>1. l \in Users => Exists(l)
    BY <1>2, <1>4, JudgeCases, Zenon DEF UpdateAdminUserMay, SoftDeleteMay, RestoreMay, RecoverMay, IsLive, Live, Exists, Consoles
  <2>. QED BY <1>2, <1>3, <2>1 DEF Inv, LockedExists, Exists, Locks
<1>9. Distinct'
  <2>1. /\ \A q \in Calls : call'[q].op = call[q].op /\ call'[q].ticket = call[q].ticket
        /\ \A q \in Calls : call[q].op # "recover" => call'[q].user = call[q].user
    BY <1>1, <1>5, Zenon
  <2>2. SUFFICES ASSUME NEW q \in Calls, NEW s \in Calls, q # s
                 PROVE  /\ call'[q].op \in Inserts /\ call'[s].op \in Inserts => call'[q].user # call'[s].user
                        /\ call'[q].op = "submit" => call'[s].ticket # call'[q].ticket
    BY Zenon DEF Distinct
  <2>3. /\ call[q].op \in Inserts /\ call[s].op \in Inserts => call[q].user # call[s].user
        /\ call[q].op = "submit" => call[s].ticket # call[q].ticket
    BY <2>2, Zenon DEF Inv, Distinct
  <2>4. "recover" \notin Inserts
    BY Zenon DEF Inserts
  <2>5. /\ call'[q].op = call[q].op /\ call'[q].ticket = call[q].ticket
        /\ call'[s].op = call[s].op /\ call'[s].ticket = call[s].ticket
    BY <2>1, <2>2, Zenon
  <2>6. /\ call[q].op \in Inserts => call'[q].user = call[q].user
        /\ call[s].op \in Inserts => call'[s].user = call[s].user
    BY <2>1, <2>2, <2>4, Zenon
  <2>. QED BY ONLY <2>3, <2>5, <2>6
<1>10. Shape(call[p])'
  <2>. HIDE DEF c, d
  <2>1. d.k >= 1
    <3>1. c.k \in Nat /\ d.k = c.k + 1
      BY <1>1, Zenon DEF CallRec
    <3>. QED BY ONLY <3>1
  <2>. QED BY <1>1, <1>2, <1>5, <2>1 DEF Shape, Sweeps, Consoles, Inserts, d
<1>11. (lock["admin"] = p /\ call[p].op = "close" => OtherAdmin(call[p].user))'
  <2>1. SUFFICES ASSUME lock'["admin"] = p, c.op = "close" PROVE OtherAdmin(c.user)
    BY <1>1, <1>2, <1>5, Zenon DEF OtherAdmin, IsLive
  <2>2. CASE l = "admin"
    <3>1. EnsureAnotherAdminRemains(c.user)
      BY <1>2, <2>1, <2>2, JudgeCases, Zenon
    <3>. QED BY <3>1, Zenon DEF EnsureAnotherAdminRemains, Inv, AdminRemains, OtherAdmin
  <2>3. CASE lock["admin"] = p
    BY <1>1, <2>1, <2>3, Zenon DEF CallOK
  <2>. QED BY <1>3, <2>1, <2>2, <2>3, Zenon DEF Locks
<1>12. Reserved(p)' /\ Swept(p)'
  BY <1>1, <1>2, <1>5, Zenon DEF CallOK, Reserved, Swept, Inserts, Sweeps
<1>13. CallOK(p)'
  BY <1>11, <1>12, TakenPlace, TakenNames, TakenRow, TakenTicket, Zenon DEF CallOK
<1>. QED BY <1>2, <1>6, <1>7, <1>8, <1>9, <1>10, <1>13, TableKept, Assemble, Zenon

LEMMA TakeLockInv ==
  ASSUME Inv, NEW p \in Calls, TakeLock(p)
  PROVE  Inv'
<1>1. call[p].pc = "lock" /\ call[p].op # "recompute" /\ UNCHANGED <<row, bound, ticket, graduated, menu, left>>
  BY Zenon DEF TakeLock
<1>2. CASE Over(p)
  BY <1>1, <1>2, CallFacts, GivesUp, Zenon DEF Shape
<1>3. CASE ~Over(p)
  BY <1>1, <1>3, TakenInv, Zenon DEF TakeLock, Taken
<1>. QED BY <1>2, <1>3, Zenon
=============================================================================
