----------------------- MODULE AccountDirectoryProofs -----------------------
(***************************************************************************)
(* Commits, sweeps and the passage of time keep the invariant of           *)
(* AccountDirectoryInvariant; and what follows from it about the account   *)
(* directory, for any users, tickets, addresses and number of concurrent   *)
(* transactions.                                                           *)
(***************************************************************************)
EXTENDS AccountDirectoryInvariant

USE DirectoryAssumption, LockAssumption

-----------------------------------------------------------------------------
(* Commit. *)

\* What a transaction is about to write, and why it may.
LEMMA CommitWrites ==
  ASSUME Inv, NEW p \in Calls, call[p].pc = "commit", Writes(call[p]),
         NEW u, u = call[p].user, NEW n, n = call[p].new
  PROVE  /\ u \in Users /\ n \in UserRow /\ n.st # "absent" /\ ~n.due /\ n.sid \in Sids /\ n.mail \in Mails
         /\ \A v \in Users \ {u} : Exists(v) =>
              n.sid # row[v].sid /\ n.mail # row[v].mail /\ n.mail # row[v].sid /\ n.sid # row[v].mail
         /\ (Exists(u) /\ n.sid = row[u].sid /\ n.mail = row[u].mail) \/ lock["assign"] = p
         /\ IsLive(u) /\ row[u].role = "admin" /\ ~(n.st \in Live /\ n.role = "admin") =>
              OtherAdmin(u) /\ lock["admin"] = p
         /\ (Exists(u) /\ lock[u] = p) \/ (call[p].op \in Inserts /\ row[u] = Absent)
<1>. DEFINE c == call[p]
            r == row[u]
<1>1. /\ c \in CallRec /\ Shape(c) /\ CallOK(p) /\ row \in [Users -> UserRow] /\ ticket \in [Tickets -> TicketRow]
      /\ RowsOK /\ TicketsOK /\ c.edit \in Edits
  BY CallFacts, Zenon
<1>2. c.op \in {"create", "update", "batch", "close", "restore", "approve"}
  BY Zenon DEF Writes
<1>3. /\ c.op \in Consoles => u \in Users /\ lock[u] = p
      /\ c.op \in Inserts => u \in Users /\ lock["assign"] = p /\ n.mail \in Mails /\ lock[n.mail] = p
      /\ c.op \in {"update", "batch", "close"} => lock["admin"] = p
      /\ c.op = "update" /\ c.edit.f \in {"sid", "mail"} => lock["assign"] = p
      /\ c.op = "update" /\ c.edit.f = "mail" => lock[c.edit.v] = p
      /\ c.op = "approve" => c.ticket \in Tickets /\ lock[c.ticket] = p
  BY <1>2, CommitHolds, Zenon DEF Sweeps
<1>4. u \in Users /\ n \in UserRow /\ r \in UserRow
  BY <1>1, <1>2, <1>3, Zenon DEF CallRec, Consoles, Inserts
<1>5. ASSUME NEW v \in Users, Exists(v) PROVE row[v].sid \in Sids /\ row[v].mail \in Mails
  BY <1>1, <1>5, Zenon DEF RowsOK
<1>6. \A v \in Users \ {u} : Exists(v) /\ Exists(u) =>
        /\ r.sid # row[v].sid /\ r.mail # row[v].mail
        /\ r.mail # row[v].sid /\ r.sid # row[v].mail
  BY <1>4, Zenon DEF Inv, OneAccountPerStudent
<1>. HIDE DEF c, r
<1>7. CASE c.op \in Inserts
  <2>1. n.st \in Live /\ ~n.due /\ n.sid \in Sids /\ n.mail \in Mails /\ GuardIdentityAssignment(NoUser, n.sid, n.mail)
    <3>1. CASE c.op = "create"
      BY <1>1, <1>3, <1>7, <3>1, Zenon DEF CallOK, JudgedNames, Shape, c
    <3>2. CASE c.op = "approve"
      BY <1>1, <1>3, <1>7, <3>2, Zenon DEF CallOK, JudgedTicket, TicketsOK, c
    <3>. QED BY <1>7, <3>1, <3>2, Zenon DEF Inserts
  <2>2. LoginMailFree(u, n.mail)
    BY <1>1, <1>3, <1>7, Zenon DEF CallOK, JudgedNames, c
  <2>3. row[u] = Absent
    BY <1>1, <1>7, Zenon DEF CallOK, Reserved, c
  <2>4. ASSUME NEW v \in Users \ {u}, Exists(v)
        PROVE  n.sid # row[v].sid /\ n.mail # row[v].mail /\ n.mail # row[v].sid /\ n.sid # row[v].mail
    <3>1. n.mail # row[v].mail
      BY <2>2, <2>4, Zenon DEF LoginMailFree
    <3>2. n.sid # NoSid /\ v \in Users \ {NoUser}
      BY <2>1, Zenon DEF Mails
    <3>3. n.sid # row[v].sid /\ n.sid # row[v].mail
      BY <2>1, <2>4, <3>2, Zenon DEF GuardIdentityAssignment, StudentIDOwners
    <3>4. n.mail # row[v].sid
      BY <1>5, <2>1, <2>4, <3>2, Zenon DEF GuardIdentityAssignment, StudentIDOwners, UnmatchedNjuptPrefix, Mails
    <3>. QED BY <3>1, <3>3, <3>4, Zenon
  <2>. QED BY <1>3, <1>4, <1>7, <2>1, <2>3, <2>4 DEF c, Live, IsLive, Absent
<1>8. CASE c.op \in {"close", "restore"}
  <2>1. lock[u] = p
    BY <1>3, <1>8, Zenon DEF Consoles
  <2>2. /\ Exists(u) /\ n.st # "absent" /\ ~n.due /\ n.sid = r.sid /\ n.mail = r.mail /\ n.role = r.role
        /\ c.op = "restore" => r.st = "closed"
    BY <1>1, <1>4, <1>8, <2>1, Zenon DEF CallOK, JudgedRow, Exists, IsLive, Live, c, r
  <2>3. c.op = "close" => lock["admin"] = p /\ OtherAdmin(u)
    BY <1>1, <1>3, Zenon DEF CallOK, c
  <2>. QED BY <1>4, <1>5, <1>6, <1>8, <2>1, <2>2, <2>3 DEF IsLive, Live, r
<1>9. CASE c.op \in {"update", "batch"}
  <2>1. lock[u] = p /\ lock["admin"] = p
    BY <1>3, <1>9, Zenon DEF Consoles
  <2>2. /\ IsLive(u) /\ n.st \in Live /\ ~n.due
        /\ n.sid = IF c.edit.f = "sid" THEN c.edit.v ELSE r.sid
        /\ n.mail = IF c.edit.f = "mail" THEN c.edit.v ELSE r.mail
        /\ r.role = "admin" /\ n.role # "admin" => OtherAdmin(u)
    BY <1>1, <1>4, <1>9, <2>1, Zenon DEF CallOK, JudgedRow, c, r
  <2>3. Exists(u) /\ n.st # "absent"
    BY <2>2, Zenon DEF IsLive, Exists, Live
  <2>4. r.sid \in Sids /\ r.mail \in Mails
    BY <1>4, <1>5, <2>3, Zenon DEF r
  <2>5. CASE c.edit.f \notin {"sid", "mail"}
    BY <1>4, <1>6, <2>1, <2>2, <2>3, <2>4, <2>5, ZenonT(60) DEF r
  <2>6. c.edit.f \in {"sid", "mail"} =>
          /\ c.op = "update" /\ lock["assign"] = p
          /\ GuardIdentityAssignment(u, IF c.edit.f = "sid" THEN c.edit.v ELSE NoSid,
                                        IF c.edit.f = "mail" THEN c.edit.v ELSE NoSid)
    BY <1>1, <1>3, <1>9, Zenon DEF Shape, CallOK, JudgedNames, c
  <2>7. CASE c.edit.f = "sid"
    <3>1. n.sid \in Sids /\ n.sid # NoSid /\ n.mail = r.mail /\ GuardIdentityAssignment(u, n.sid, NoSid)
      BY <1>1, <2>2, <2>6, <2>7, EditValues DEF Mails
    <3>2. \A v \in Users \ {u} : Exists(v) => n.sid # row[v].sid /\ n.sid # row[v].mail
      BY <3>1, Zenon DEF GuardIdentityAssignment, StudentIDOwners
    <3>. QED BY <1>4, <1>6, <2>1, <2>2, <2>3, <2>4, <2>6, <2>7, <3>1, <3>2, ZenonT(60) DEF r
  <2>8. CASE c.edit.f = "mail"
    <3>1. n.mail \in Mails /\ n.sid = r.sid /\ GuardIdentityAssignment(u, NoSid, n.mail) /\ LoginMailFree(u, n.mail)
      BY <1>1, <1>3, <2>2, <2>6, <2>8, EditValues, Zenon DEF CallOK, JudgedNames, c
    <3>2. \A v \in Users \ {u} : Exists(v) => n.mail # row[v].mail
      BY <3>1, Zenon DEF LoginMailFree
    <3>3. \A v \in Users \ {u} : Exists(v) => n.mail # row[v].sid
      BY <1>5, <3>1, Zenon DEF GuardIdentityAssignment, StudentIDOwners, UnmatchedNjuptPrefix, Mails
    <3>. QED BY <1>4, <1>6, <2>1, <2>2, <2>3, <2>4, <2>6, <2>8, <3>1, <3>2, <3>3, ZenonT(60) DEF r
  <2>. QED BY <2>5, <2>7, <2>8, Zenon
<1>. QED BY <1>2, <1>7, <1>8, <1>9, Zenon DEF Inserts

\* The table after such a write.
LEMMA TableWritten ==
  ASSUME Inv, NEW u \in Users, NEW n \in UserRow, row' = [row EXCEPT ![u] = n],
         n.st # "absent", ~n.due, n.sid \in Sids, n.mail \in Mails,
         \A v \in Users \ {u} : Exists(v) =>
           n.sid # row[v].sid /\ n.mail # row[v].mail /\ n.mail # row[v].sid /\ n.sid # row[v].mail,
         IsLive(u) /\ row[u].role = "admin" /\ ~(n.st \in Live /\ n.role = "admin") => OtherAdmin(u)
  PROVE  row' \in [Users -> UserRow] /\ RowsOK' /\ OneAccountPerStudent' /\ AdminRemains'
<1>1. row \in [Users -> UserRow] /\ RowsOK /\ OneAccountPerStudent /\ AdminRemains
  BY Zenon DEF Inv, Typed
<1>2. row'[u] = n /\ \A v \in Users \ {u} : row'[v] = row[v]
  BY <1>1, Zenon
<1>3. RowsOK'
  BY <1>1, <1>2, Zenon DEF RowsOK, Exists
<1>4. OneAccountPerStudent'
  BY <1>1, <1>2 DEF OneAccountPerStudent, Exists
<1>5. AdminRemains'
  <2>1. CASE n.st \in Live /\ n.role = "admin"
    BY <1>2, <2>1, Zenon DEF AdminRemains, IsLive
  <2>2. CASE ~(n.st \in Live /\ n.role = "admin")
    <3>1. PICK v \in Users : IsLive(v) /\ row[v].role = "admin"
      BY <1>1, Zenon DEF AdminRemains
    <3>2. PICK w \in Users \ {u} : IsLive(w) /\ row[w].role = "admin"
      BY <2>2, <3>1, Zenon DEF OtherAdmin
    <3>. QED BY <1>2, <3>2, Zenon DEF AdminRemains, IsLive
  <2>. QED BY <2>1, <2>2, Zenon
<1>. QED BY <1>1, <1>3, <1>4, <1>5, Zenon

\* The verdict a review writes.
LEMMA VerdictTyped ==
  ASSUME Inv, NEW p \in Calls, call[p].op \in {"approve", "recover", "reject"}
  PROVE  /\ call[p].ticket \in Tickets /\ Verdict(call[p]) \in TicketRow
         /\ Verdict(call[p]).st = IF call[p].op = "reject" THEN "rejected" ELSE "approved"
         /\ call[p].op # "reject" => Verdict(call[p]).acct = call[p].user
<1>1. call[p] \in CallRec /\ Shape(call[p]) /\ ticket \in [Tickets -> TicketRow]
  BY CallFacts, Zenon
<1>2. call[p].ticket \in Tickets /\ call[p].user \in Users \union {NoUser} /\ ticket[call[p].ticket] \in TicketRow
  BY <1>1, Zenon DEF Shape, CallRec
<1>3. CASE call[p].op = "reject"
  BY <1>2, <1>3, Zenon DEF Verdict, TicketRow
<1>4. CASE call[p].op # "reject"
  BY <1>2, <1>4, Zenon DEF Verdict, TicketRow
<1>. QED BY <1>2, <1>3, <1>4, Zenon

\* The tickets after a commit.
LEMMA CommitTickets ==
  ASSUME Inv, NEW p \in Calls, Commit(p)
  PROVE  /\ ticket' \in [Tickets -> TicketRow] /\ TicketsOK'
         /\ \A t \in Tickets :
              \/ ticket'[t] = ticket[t]
              \/ /\ call[p].op \in {"approve", "recover", "reject"} /\ t = call[p].ticket /\ lock[t] = p
                 /\ ticket'[t] = Verdict(call[p])
<1>. DEFINE c == call[p]
<1>1. Shape(c) /\ ticket \in [Tickets -> TicketRow] /\ TicketsOK /\ c.pc = "commit" /\ c.op \notin Sweeps \union {"submit"}
  BY CallFacts, Zenon DEF Commit, Sweeps
<1>2. CASE c.op \in {"approve", "recover", "reject"}
  <2>1. /\ c.ticket \in Tickets /\ lock[c.ticket] = p /\ Verdict(c) \in TicketRow /\ Verdict(c).st # "pending"
    BY <1>1, <1>2, CommitHolds, VerdictTyped, Zenon
  <2>2. ticket' = [ticket EXCEPT ![c.ticket] = Verdict(c)]
    BY <2>1, Zenon DEF Commit
  <2>3. ticket'[c.ticket] = Verdict(c) /\ \A t \in Tickets \ {c.ticket} : ticket'[t] = ticket[t]
    BY <1>1, <2>1, <2>2, Zenon
  <2>4. TicketsOK'
    BY <1>1, <2>1, <2>3, Zenon DEF TicketsOK
  <2>5. ticket' \in [Tickets -> TicketRow]
    BY <1>1, <2>1, <2>2, Zenon
  <2>. QED BY <1>2, <2>1, <2>3, <2>4, <2>5, Zenon
<1>3. CASE c.op \notin {"approve", "recover", "reject"}
  <2>1. ticket' = ticket
    BY <1>1, <1>3, Zenon DEF Commit, Shape
  <2>. QED BY <1>1, <2>1, Zenon DEF TicketsOK
<1>. QED BY <1>2, <1>3, Zenon

\* The table after a commit.
LEMMA CommitTable ==
  ASSUME Inv, NEW p \in Calls, Commit(p)
  PROVE  /\ row' \in [Users -> UserRow] /\ RowsOK' /\ OneAccountPerStudent' /\ AdminRemains'
         /\ \A u \in Users :
              \/ row'[u] = row[u]
              \/ /\ u = call[p].user /\ row'[u] = call[p].new /\ Writes(call[p]) /\ row'[u].st # "absent"
                 /\ (Exists(u) /\ row'[u].sid = row[u].sid /\ row'[u].mail = row[u].mail) \/ lock["assign"] = p
                 /\ IsLive(u) /\ row[u].role = "admin" /\ ~(row'[u].st \in Live /\ row'[u].role = "admin") =>
                      lock["admin"] = p
                 /\ (Exists(u) /\ lock[u] = p) \/ (call[p].op \in Inserts /\ row[u] = Absent)
<1>. DEFINE c == call[p]
            u == c.user
            n == c.new
<1>1. row \in [Users -> UserRow] /\ c.pc = "commit"
  BY CallFacts, Zenon DEF Commit
<1>2. CASE Writes(c)
  <2>1. /\ u \in Users /\ n \in UserRow /\ n.st # "absent" /\ ~n.due /\ n.sid \in Sids /\ n.mail \in Mails
        /\ \A v \in Users \ {u} : Exists(v) =>
             n.sid # row[v].sid /\ n.mail # row[v].mail /\ n.mail # row[v].sid /\ n.sid # row[v].mail
        /\ (Exists(u) /\ n.sid = row[u].sid /\ n.mail = row[u].mail) \/ lock["assign"] = p
        /\ IsLive(u) /\ row[u].role = "admin" /\ ~(n.st \in Live /\ n.role = "admin") =>
             OtherAdmin(u) /\ lock["admin"] = p
        /\ (Exists(u) /\ lock[u] = p) \/ (call[p].op \in Inserts /\ row[u] = Absent)
    BY <1>1, <1>2, CommitWrites
  <2>2. row' = [row EXCEPT ![u] = n]
    BY <1>2, Zenon DEF Commit
  <2>. HIDE DEF u, n, c
  <2>3. row' \in [Users -> UserRow] /\ RowsOK' /\ OneAccountPerStudent' /\ AdminRemains'
    BY <2>1, <2>2, TableWritten, Zenon
  <2>4. row'[u] = n /\ \A v \in Users \ {u} : row'[v] = row[v]
    BY <1>1, <2>1, <2>2, Zenon
  <2>. QED BY <1>2, <2>1, <2>3, <2>4, Zenon DEF u, n, c
<1>3. CASE ~Writes(c)
  <2>1. row' = row
    BY <1>3, Zenon DEF Commit
  <2>. QED BY <1>1, <2>1 DEF Inv, RowsOK, OneAccountPerStudent, AdminRemains, Exists, IsLive
<1>. QED BY <1>2, <1>3, Zenon

\* A transaction commits.
LEMMA CommitInv ==
  ASSUME Inv, NEW p \in Calls, Commit(p)
  PROVE  Inv'
<1>. DEFINE c == call[p]
            u == c.user
<1>1. /\ c \in CallRec /\ Shape(c) /\ c.pc = "commit" /\ c.op \notin {"recompute", "purge", "submit"} /\ Over(p)
      /\ UNCHANGED <<graduated, menu, left>>
  BY CallFacts, Zenon DEF Commit
<1>2. /\ row' \in [Users -> UserRow] /\ RowsOK' /\ OneAccountPerStudent' /\ AdminRemains'
      /\ ticket' \in [Tickets -> TicketRow] /\ TicketsOK'
  BY CommitTable, CommitTickets, Zenon
<1>3. bound' \in Users \union {NoUser}
  BY <1>1, Zenon DEF Commit, CallRec, Inv, Typed
<1>4. Typed'
  BY <1>1, <1>2, <1>3, OverTyped, Zenon DEF Inv, Typed
<1>5. /\ Shape(call[p])' /\ CallOK(p)' /\ Distinct'
      /\ \A q \in Calls \ {p} : call'[q] = call[q] /\ \A l \in Locks : lock'[l] = q <=> lock[l] = q
      /\ \A l \in Locks : lock'[l] \in {NoCall, lock[l]}
  BY <1>1, <1>4, Released, Zenon
<1>6. LockedExists'
  <2>1. \A v \in Users : Exists(v) => row'[v].st # "absent"
    BY CommitTable, Zenon DEF Exists
  <2>. QED BY <1>5, <2>1, Zenon DEF Inv, LockedExists, Exists, Locks
<1>7. ASSUME NEW q \in Calls \ {p} PROVE Kept(q)
  <2>1. call'[q] = call[q] /\ \A l \in Locks : lock'[l] = q <=> lock[l] = q
    BY <1>5, Zenon
  <2>2. lock["assign"] = q => \A v \in Users : row'[v].st # "absent" =>
          Exists(v) /\ row'[v].sid = row[v].sid /\ row'[v].mail = row[v].mail
    BY <1>7, CommitTable DEF Exists
  <2>3. lock["admin"] = q => \A v \in Users : IsLive(v) /\ row[v].role = "admin" =>
          row'[v].st \in Live /\ row'[v].role = "admin"
    BY <1>7, CommitTable, Zenon DEF IsLive
  <2>4. \A v \in Users : lock[v] = q => row'[v] = row[v]
    <3>1. SUFFICES ASSUME NEW v \in Users, lock[v] = q, row'[v] # row[v] PROVE FALSE
      BY Zenon
    <3>2. Exists(v)
      BY <3>1, Zenon DEF Inv, LockedExists
    <3>3. lock[v] = p \/ row[v] = Absent
      BY <3>1, CommitTable
    <3>. QED BY <1>7, <3>1, <3>2, <3>3 DEF Exists, Absent
  <2>5. \A t \in Tickets : lock[t] = q => ticket'[t] = ticket[t]
    BY <1>7, CommitTickets, Zenon
  <2>6. call[q].op \in Inserts => row'[call[q].user] = row[call[q].user]
    <3>1. SUFFICES ASSUME call[q].op \in Inserts, row'[call[q].user] # row[call[q].user] PROVE FALSE
      BY Zenon
    <3>2. call[q].user \in Users /\ row[call[q].user] = Absent
      BY <3>1, InsertFacts, Zenon
    <3>3. call[q].user = c.user /\ c.op \in Inserts
      BY <3>1, <3>2, CommitTable DEF Exists, Absent
    <3>. QED BY <1>7, <3>1, <3>3, Zenon DEF Inv, Distinct
  <2>7. call[q].op = "submit" => ticket'[call[q].ticket] = ticket[call[q].ticket]
    <3>1. call[q].op = "submit" => call[q].ticket \in Tickets /\ call[q].ticket # c.ticket
      BY <1>7, CallFacts, ZenonT(60) DEF Shape, Inv, Distinct
    <3>. QED BY <3>1, CommitTickets
  <2>. QED BY <2>1, <2>2, <2>3, <2>4, <2>5, <2>6, <2>7, Zenon DEF Kept
<1>. QED BY <1>2, <1>4, <1>5, <1>6, <1>7, Assemble, Zenon

-----------------------------------------------------------------------------
(* Submissions, the sweep and time. *)

\* A transaction that is over holds nothing and has judged nothing.
LEMMA Ended ==
  ASSUME Inv, NEW p \in Calls, End(p)
  PROVE  /\ Shape(call[p])' /\ CallOK(p)' /\ Distinct'
         /\ call' \in [Calls -> CallRec] /\ lock' \in [Locks -> Calls \union {NoCall}]
         /\ \A q \in Calls \ {p} : call'[q] = call[q] /\ \A l \in Locks : lock'[l] = q <=> lock[l] = q
         /\ \A l \in Locks : lock'[l] = IF lock[l] = p THEN NoCall ELSE lock[l]
<1>1. call \in [Calls -> CallRec] /\ lock \in [Locks -> Calls \union {NoCall}]
  BY CallFacts, Zenon
<1>2. call' \in [Calls -> CallRec] /\ lock' \in [Locks -> Calls \union {NoCall}]
  BY OverTyped, Zenon
<1>3. /\ call'[p] = Idle /\ \A q \in Calls \ {p} : call'[q] = call[q]
      /\ \A l \in Locks : lock'[l] = IF lock[l] = p THEN NoCall ELSE lock[l]
  BY <1>1, Zenon DEF End
<1>4. (\A l \in Locks : lock'[l] # p) /\ \A q \in Calls \ {p} : \A l \in Locks : lock'[l] = q <=> lock[l] = q
  BY <1>1, <1>3, Zenon
<1>5. call'[p].op = "update" /\ call'[p].k = 1 /\ call'[p].pc = "idle" /\ call'[p].ticket = NoTicket
      /\ call'[p].edit.f = "none" /\ call'[p].user = NoUser /\ call'[p].todo = {}
  BY <1>3, SMTT(60) DEF Idle, NoEdit
<1>6. Shape(call[p])'
  BY <1>3, <1>5 DEF Shape, Consoles, Inserts, Sweeps
<1>7. CallOK(p)'
  <2>1. {"assign", "admin"} \subseteq Locks /\ Users \subseteq Locks /\ Tickets \subseteq Locks
    BY Zenon DEF Locks
  <2>2. Place(p)' /\ Reserved(p)' /\ Swept(p)'
    BY <1>5 DEF Place, Reserved, Swept, Sweeps, Inserts
  <2>3. Owned(p)' /\ JudgedNames(p)' /\ JudgedRow(p)' /\ JudgedTicket(p)'
    BY <1>4, <1>5, <2>1, Zenon DEF Owned, JudgedNames, JudgedRow, JudgedTicket, Inserts
  <2>. QED BY <1>4, <1>5, <2>1, <2>2, <2>3, Zenon DEF CallOK
<1>8. Distinct'
  <2>1. \A q \in Calls : call[q].op = "submit" => call[q].ticket \in Tickets
    BY CallFacts, Zenon DEF Shape
  <2>. QED BY <1>3, <1>5, <2>1 DEF Distinct, Inv, Inserts
<1>. QED BY <1>2, <1>3, <1>4, <1>6, <1>7, <1>8, Zenon

LEMMA CreateTicketInv ==
  ASSUME Inv, NEW p \in Calls, CreateTicket(p)
  PROVE  Inv'
<1>. DEFINE c == call[p]
<1>1. /\ c \in CallRec /\ Shape(c) /\ CallOK(p) /\ ticket \in [Tickets -> TicketRow] /\ TicketsOK /\ RowsOK
  BY CallFacts, Zenon
<1>2. c.op = "submit" /\ End(p) /\ UNCHANGED <<row, bound, graduated, menu, left>>
  BY Zenon DEF CreateTicket
<1>3. c.ticket \in Tickets /\ ticket[c.ticket].st = "none" /\ c.req \in TicketRow /\ c.req.sid \in Sids /\ c.req.mail \in Mails
  BY <1>1, <1>2, Zenon DEF CallRec, Shape, CallOK, Reserved
<1>4. ticket' = ticket \/ ticket' = [ticket EXCEPT ![c.ticket] = c.req]
  BY <1>2, Zenon DEF CreateTicket, Verdict
<1>5. ticket' \in [Tickets -> TicketRow] /\ \A t \in Tickets : ticket'[t] = ticket[t] \/ (t = c.ticket /\ ticket'[t] = c.req)
  BY <1>1, <1>3, <1>4, Zenon
<1>6. TicketsOK'
  BY <1>1, <1>3, <1>5, Zenon DEF TicketsOK
<1>7. Typed'
  BY <1>2, <1>5, Ended, Zenon DEF Inv, Typed
<1>8. LockedExists'
  BY <1>2, Ended DEF Inv, LockedExists, Exists, Locks
<1>9. RowsOK' /\ OneAccountPerStudent' /\ AdminRemains'
  BY <1>2, Zenon DEF Inv, RowsOK, OneAccountPerStudent, AdminRemains, Exists, IsLive
<1>10. ASSUME NEW q \in Calls \ {p} PROVE Kept(q)
  <2>1. call'[q] = call[q] /\ \A l \in Locks : lock'[l] = q <=> lock[l] = q
    BY <1>2, Ended, Zenon
  <2>2. \A t \in Tickets : ticket[t].st = "pending" => ticket'[t] = ticket[t]
    BY <1>3, <1>5, Zenon
  <2>3. call[q].op = "submit" => ticket'[call[q].ticket] = ticket[call[q].ticket]
    <3>1. call[q].op = "submit" => call[q].ticket \in Tickets /\ call[q].ticket # c.ticket
      BY <1>10, CallFacts, ZenonT(60) DEF Shape, Inv, Distinct
    <3>. QED BY <1>5, <3>1, Zenon
  <2>. QED BY <1>2, <2>1, <2>2, <2>3, Zenon DEF Kept, Exists, IsLive
<1>. QED BY <1>2, <1>6, <1>7, <1>8, <1>9, <1>10, Ended, Assemble, Zenon

\* A sweep starts: it has the sweep lock and the rows it selected.
LEMMA SweepInv ==
  ASSUME Inv, NEW p \in Calls, NEW c \in CallRec, NEW rows \in SUBSET Users, Sweep(p, c, rows),
         \A u \in rows : Exists(u) /\ lock[u] = NoCall,
         c.op \in Sweeps, Shape(c), c.user = NoUser, c.ticket = NoTicket, c.edit = NoEdit,
         c.op = "recompute" => rows = {}, c.op = "purge" => c.todo = rows
  PROVE  Inv'
<1>1. call \in [Calls -> CallRec] /\ lock \in [Locks -> Calls \union {NoCall}] /\ left \in Nat
  BY CallFacts, Zenon DEF Inv, Typed
<1>2. /\ call[p].pc = "idle" /\ left > 0 /\ lock["sweep"] = NoCall
      /\ lock' = [l \in Locks |-> IF l \in rows \union {"sweep"} THEN p ELSE lock[l]]
      /\ call' = [call EXCEPT ![p] = c] /\ left' = left - 1
      /\ UNCHANGED <<row, bound, ticket, graduated, menu>>
  BY Zenon DEF Sweep, TryLock
<1>3. call'[p] = c /\ \A q \in Calls \ {p} : call'[q] = call[q]
  BY <1>1, <1>2, Zenon
<1>4. \A l \in Locks : lock[l] # p
  BY <1>2, IdleHolds, Zenon
<1>5. \A l \in Locks : lock'[l] = p <=> l \in rows \union {"sweep"}
  BY <1>2, <1>4, Zenon
<1>6. \A q \in Calls \ {p} : \A l \in Locks : lock'[l] = q <=> lock[l] = q
  BY <1>2, Zenon
<1>7. Typed'
  BY <1>1, <1>2 DEF Inv, Typed
<1>8. \A q \in Calls \ {p} : Kept(q)
  BY <1>2, <1>3, <1>6, KeptByReader, Zenon
<1>9. LockedExists'
  BY <1>2, Zenon DEF Inv, LockedExists, Exists, Locks
<1>10. Distinct'
  <2>1. \A q \in Calls : call[q].op = "submit" => call[q].ticket \in Tickets
    BY CallFacts, Zenon DEF Shape
  <2>. QED BY <1>3, <2>1 DEF Inv, Distinct, Inserts, Sweeps
<1>11. CallOK(p)'
  <2>1. {"assign", "admin", "sweep"} \subseteq Locks /\ Users \subseteq Locks
    BY Zenon DEF Locks
  <2>2. c.edit.f = "none"
    BY DEF NoEdit
  <2>3. Place(p)' /\ Reserved(p)'
    BY <1>3, Zenon DEF Place, Reserved, Sweeps, Inserts
  <2>4. Owned(p)'
    BY <1>3, <1>5, Zenon DEF Owned
  <2>5. JudgedNames(p)' /\ JudgedRow(p)' /\ JudgedTicket(p)'
    BY <1>3, <2>2, Zenon DEF JudgedNames, JudgedRow, JudgedTicket, Inserts, Sweeps
  <2>6. c.op = "recompute" => DOMAIN c.drv \subseteq Users
    BY DEF CallRec, DerivedStates
  <2>7. Swept(p)'
    BY <1>3, <1>5, <2>1, <2>6 DEF Swept, Sweeps
  <2>. QED BY <1>3, <2>3, <2>4, <2>5, <2>7, Zenon DEF CallOK, Sweeps
<1>12. Shape(call[p])'
  BY <1>3, Zenon
<1>. QED BY <1>2, <1>7, <1>8, <1>9, <1>10, <1>11, <1>12, TableKept, Assemble, Zenon

LEMMA RecomputeReadInv ==
  ASSUME Inv, NEW p \in Calls, RecomputeRead(p)
  PROVE  Inv'
<1>. DEFINE S == {u \in Users : Unpinned(u) /\ DeriveState(row[u].role, row[u].sid) # row[u].st}
            f == [u \in S |-> DeriveState(row[u].role, row[u].sid)]
            c == [Idle EXCEPT !.pc = "lock", !.op = "recompute", !.drv = f]
<1>1. Sweep(p, c, {})
  BY Zenon DEF RecomputeRead
<1>2. f \in DerivedStates
  <2>1. f \in [S -> Live] /\ S \in SUBSET Users
    BY DerivedIsLive, Zenon
  <2>. HIDE DEF f, S
  <2>. QED BY <2>1, Zenon DEF DerivedStates
<1>. HIDE DEF f
<1>3. c \in CallRec
  BY <1>2, IdleTyped DEF CallRec, Ops
<1>4. c.pc = "lock" /\ c.op = "recompute" /\ c.k = 1 /\ c.edit = NoEdit /\ c.ticket = NoTicket /\ c.todo = {} /\ c.user = NoUser
  BY Zenon DEF Idle
<1>. HIDE DEF c
<1>5. Shape(c)
  BY <1>4 DEF Shape, NoEdit, Consoles, Inserts
<1>. QED BY <1>1, <1>3, <1>4, <1>5, SweepInv, Zenon DEF Sweeps

LEMMA PurgeSelectInv ==
  ASSUME Inv, NEW p \in Calls, PurgeSelect(p)
  PROVE  Inv'
<1>. DEFINE rows == {u \in Users : Due(u) /\ lock[u] = NoCall}
            c == [Idle EXCEPT !.pc = "commit", !.op = "purge", !.todo = rows]
<1>1. Sweep(p, c, rows)
  BY Zenon DEF PurgeSelect
<1>2. rows \in SUBSET Users /\ \A u \in rows : Exists(u) /\ lock[u] = NoCall
  BY Zenon DEF Due, Exists
<1>. HIDE DEF rows
<1>3. c \in CallRec
  BY <1>2, IdleTyped DEF CallRec, Ops
<1>4. c.pc = "commit" /\ c.op = "purge" /\ c.k = 1 /\ c.edit = NoEdit /\ c.ticket = NoTicket /\ c.todo = rows /\ c.user = NoUser
  BY Zenon DEF Idle
<1>. HIDE DEF c
<1>5. Shape(c)
  BY <1>4 DEF Shape, NoEdit, Consoles, Inserts
<1>. QED BY <1>1, <1>2, <1>3, <1>4, <1>5, SweepInv, Zenon DEF Sweeps

\* The sweep locks a row that is still unpinned, or leaves it out.
LEMMA RecomputeTakeInv ==
  ASSUME Inv, NEW p \in Calls, RecomputeTake(p)
  PROVE  Inv'
<1>. DEFINE c == call[p]
<1>1. /\ c \in CallRec /\ Shape(c) /\ CallOK(p) /\ call \in [Calls -> CallRec]
      /\ lock \in [Locks -> Calls \union {NoCall}]
  BY CallFacts, Zenon
<1>2. c.op = "recompute" /\ c.pc = "lock" /\ UNCHANGED <<row, bound, ticket, graduated, menu, left>>
  BY Zenon DEF RecomputeTake
<1>3. PICK u \in DOMAIN c.drv :
        /\ lock[u] = NoCall
        /\ IF StillUnpinned(u)
           THEN lock' = [lock EXCEPT ![u] = p] /\ UNCHANGED call
           ELSE /\ call' = [call EXCEPT ![p].drv = [w \in DOMAIN c.drv \ {u} |-> c.drv[w]]]
                /\ UNCHANGED lock
  BY Zenon DEF RecomputeTake
<1>4. PICK D \in SUBSET Users : c.drv \in [D -> Live]
  BY <1>1 DEF CallRec, DerivedStates
<1>5. DOMAIN c.drv = D /\ u \in Users /\ u \in Locks
  BY <1>3, <1>4, Zenon DEF Locks
<1>6. /\ c.ticket = NoTicket /\ Swept(p) /\ Owned(p)
  BY <1>1, <1>2, Zenon DEF Shape, CallOK
<1>7. CASE StillUnpinned(u)
  <2>1. lock' = [lock EXCEPT ![u] = p] /\ call' = call /\ Unpinned(u)
    BY <1>3, <1>7, Zenon DEF StillUnpinned
  <2>2. \A l \in Locks : lock'[l] = p <=> l = u \/ lock[l] = p
    BY <1>1, <1>5, <2>1, Zenon
  <2>3. \A q \in Calls \ {p} : \A l \in Locks : lock'[l] = q <=> lock[l] = q
    BY <1>1, <1>3, <1>5, <2>1, Zenon
  <2>4. Typed'
    BY <1>1, <1>2, <1>5, <2>1, Zenon DEF Inv, Typed
  <2>5. \A q \in Calls \ {p} : Kept(q)
    BY <1>2, <2>1, <2>3, KeptByReader, Zenon
  <2>6. LockedExists'
    BY <1>1, <1>2, <1>5, <2>1, Zenon DEF Inv, LockedExists, Exists, Unpinned, IsLive, Live, Locks
  <2>7. Distinct' /\ Shape(call[p])'
    BY <1>1, <2>1, Zenon DEF Inv, Distinct
  <2>8. CallOK(p)'
    <3>1. Place(p)' /\ Reserved(p)' /\ JudgedNames(p)' /\ JudgedRow(p)' /\ JudgedTicket(p)'
      BY <1>2, <1>6, <2>1, Zenon DEF Place, Reserved, JudgedNames, JudgedRow, JudgedTicket, Sweeps, Inserts
    <3>2. Owned(p)'
      BY <1>2, <1>5, <1>6, <2>1, <2>2, Zenon DEF Owned, Sweeps
    <3>3. "sweep" \in Locks /\ D \subseteq Locks
      BY Zenon DEF Locks
    <3>4. Swept(p)'
      BY <1>2, <1>5, <1>6, <2>1, <2>2, <3>3, Zenon DEF Swept, Sweeps, Unpinned, IsLive
    <3>. QED BY <1>2, <2>1, <3>1, <3>2, <3>4, Zenon DEF CallOK
  <2>. QED BY <1>2, <2>4, <2>5, <2>6, <2>7, <2>8, TableKept, Assemble, Zenon
<1>8. CASE ~StillUnpinned(u)
  <2>. DEFINE f == [w \in DOMAIN c.drv \ {u} |-> c.drv[w]]
  <2>1. lock' = lock /\ call' = [call EXCEPT ![p].drv = f]
    BY <1>3, <1>8, Zenon
  <2>2. f \in [D \ {u} -> Live] /\ DOMAIN f \subseteq DOMAIN c.drv
    BY <1>4, <1>5, Zenon
  <2>. HIDE DEF f
  <2>3. f \in DerivedStates
    <3>1. D \ {u} \in SUBSET Users
      BY Zenon
    <3>. QED BY <2>2, <3>1, Zenon DEF DerivedStates
  <2>4. call'[p] = [c EXCEPT !.drv = f] /\ \A q \in Calls \ {p} : call'[q] = call[q]
    BY <1>1, <2>1, Zenon
  <2>5. [c EXCEPT !.drv = f] \in CallRec
    BY <1>1, <2>3, Zenon DEF CallRec
  <2>6. call' \in [Calls -> CallRec]
    BY <1>1, <2>1, <2>5, Zenon
  <2>7. Typed'
    BY <1>2, <2>1, <2>6, Zenon DEF Inv, Typed
  <2>8. /\ call'[p].pc = "lock" /\ call'[p].op = "recompute" /\ call'[p].user = c.user /\ call'[p].as = c.as
        /\ call'[p].edit = c.edit /\ call'[p].ticket = NoTicket /\ call'[p].k = c.k /\ call'[p].todo = c.todo
        /\ call'[p].drv = f
    BY <1>1, <1>2, <1>6, <2>4 DEF CallRec
  <2>9. \A q \in Calls \ {p} : Kept(q)
    BY <1>2, <2>1, <2>4, KeptByReader, Zenon
  <2>10. LockedExists'
    BY <1>2, <2>1, Zenon DEF Inv, LockedExists, Exists
  <2>11. Distinct'
    <3>1. \A q \in Calls : call[q].op = "submit" => call[q].ticket \in Tickets
      BY CallFacts, Zenon DEF Shape
    <3>2. call'[p].op = "recompute" /\ call'[p].ticket = NoTicket
      BY <2>8, Zenon
    <3>3. Distinct /\ \A q \in Calls \ {p} : call'[q] = call[q]
      BY <2>4, Zenon DEF Inv
    <3>. QED BY <3>1, <3>2, <3>3 DEF Distinct, Inserts
  <2>12. Shape(call[p])'
    BY <1>1, <1>2, <2>8, Zenon DEF Shape, Consoles, Inserts, Sweeps
  <2>13. CallOK(p)'
    <3>1. Place(p)' /\ Reserved(p)' /\ JudgedNames(p)' /\ JudgedRow(p)' /\ JudgedTicket(p)'
      BY <2>8, Zenon DEF Place, Reserved, JudgedNames, JudgedRow, JudgedTicket, Sweeps, Inserts
    <3>2. Owned(p)'
      BY <1>2, <1>6, <2>1, <2>8, Zenon DEF Owned, Sweeps
    <3>3. Swept(p)'
      BY <1>2, <1>6, <2>1, <2>2, <2>8, Zenon DEF Swept, Sweeps, Unpinned, IsLive
    <3>. QED BY <2>8, <3>1, <3>2, <3>3, Zenon DEF CallOK
  <2>. QED BY <1>2, <2>7, <2>9, <2>10, <2>11, <2>12, <2>13, TableKept, Assemble, Zenon
<1>. QED BY <1>7, <1>8, Zenon

\* The sweep writes the derived states.
LEMMA RecomputeDerivedStateInv ==
  ASSUME Inv, NEW p \in Calls, RecomputeDerivedState(p)
  PROVE  /\ Inv'
         /\ \A u \in Users : row'[u] # row[u] => Unpinned(u) /\ row'[u] = [row[u] EXCEPT !.st = row'[u].st]
                                                  /\ row'[u].st \in Live
<1>. DEFINE c == call[p]
<1>1. /\ c \in CallRec /\ CallOK(p) /\ row \in [Users -> UserRow] /\ RowsOK
  BY CallFacts, Zenon
<1>2. /\ c.op = "recompute" /\ \A u \in DOMAIN c.drv : lock[u] = p
      /\ row' = [u \in Users |-> IF u \in DOMAIN c.drv THEN [row[u] EXCEPT !.st = c.drv[u]] ELSE row[u]]
      /\ End(p) /\ UNCHANGED <<bound, ticket, graduated, menu, left>>
  BY Zenon DEF RecomputeDerivedState
<1>3. PICK D \in SUBSET Users : c.drv \in [D -> Live]
  BY <1>1 DEF CallRec, DerivedStates
<1>4. DOMAIN c.drv = D
  BY <1>3, Zenon
<1>5. \A u \in D : Unpinned(u) /\ lock[u] = p /\ c.drv[u] \in Live
  BY <1>1, <1>2, <1>3, <1>4, Zenon DEF CallOK, Swept
<1>6. ASSUME NEW u \in D
      PROVE  /\ row'[u] = [row[u] EXCEPT !.st = c.drv[u]] /\ row'[u] \in UserRow /\ row'[u].st = c.drv[u]
             /\ row'[u].sid = row[u].sid /\ row'[u].mail = row[u].mail /\ row'[u].role = row[u].role
             /\ row'[u].due = row[u].due
  <2>1. row'[u] = [row[u] EXCEPT !.st = c.drv[u]] /\ row[u] \in UserRow
    BY <1>1, <1>2, <1>4, Zenon
  <2>2. c.drv[u] \in Live
    BY <1>5, Zenon
  <2>. QED BY <2>1, <2>2, Zenon DEF UserRow
<1>7. \A u \in Users \ D : row'[u] = row[u]
  BY <1>2, <1>4, Zenon
<1>8. row' \in [Users -> UserRow]
  <2>1. row' = [u \in Users |-> row'[u]]
    BY <1>2, Zenon
  <2>. QED BY <1>1, <1>6, <1>7, <2>1, Zenon
<1>9. \A u \in Users : /\ row'[u].sid = row[u].sid /\ row'[u].mail = row[u].mail /\ row'[u].role = row[u].role
                       /\ IsLive(u) <=> row'[u].st \in Live
                       /\ Exists(u) <=> row'[u].st # "absent"
                       /\ row'[u] # row[u] => u \in D
  BY <1>5, <1>6, <1>7, Zenon DEF Unpinned, IsLive, Exists, Live
<1>10. RowsOK'
  <2>1. SUFFICES ASSUME NEW u \in Users
                 PROVE  /\ row'[u].st = "absent" => row'[u] = Absent
                        /\ row'[u].st # "absent" => row'[u].sid \in Sids /\ row'[u].mail \in Mails
                        /\ row'[u].due => row'[u].st = "closed"
    BY Zenon DEF RowsOK, Exists
  <2>2. CASE u \in D
    BY <1>1, <1>5, <1>6, <2>2, Zenon DEF RowsOK, Unpinned, IsLive, Live, Exists
  <2>3. CASE u \notin D
    BY <1>1, <1>7, <2>3, Zenon DEF RowsOK, Exists
  <2>. QED BY <2>2, <2>3, Zenon
<1>11. OneAccountPerStudent' /\ AdminRemains'
  BY <1>9 DEF Inv, OneAccountPerStudent, AdminRemains, Exists, IsLive
<1>12. TicketsOK'
  BY <1>2, Zenon DEF Inv, TicketsOK
<1>13. Typed'
  BY <1>2, <1>8, Ended, Zenon DEF Inv, Typed
<1>14. LockedExists'
  BY <1>2, <1>9, Ended DEF Inv, LockedExists, Exists, Locks
<1>15. ASSUME NEW q \in Calls \ {p} PROVE Kept(q)
  <2>1. call'[q] = call[q] /\ \A l \in Locks : lock'[l] = q <=> lock[l] = q
    BY <1>2, Ended, Zenon
  <2>2. \A u \in Users : lock[u] = q => row'[u] = row[u]
    BY <1>5, <1>7, <1>15, Zenon
  <2>3. call[q].op \in Inserts => row'[call[q].user] = row[call[q].user]
    <3>1. call[q].op \in Inserts => call[q].user \in Users /\ row[call[q].user] = Absent
      BY InsertFacts, Zenon
    <3>2. call[q].op \in Inserts => call[q].user \notin D
      BY <1>5, <3>1, SMTT(60) DEF Unpinned, IsLive, Live, Absent
    <3>. QED BY <1>7, <3>1, <3>2, Zenon
  <2>. QED BY <1>2, <1>9, <2>1, <2>2, <2>3, Zenon DEF Kept
<1>16. Inv'
  BY <1>2, <1>10, <1>11, <1>12, <1>13, <1>14, <1>15, Ended, Assemble, Zenon
<1>17. \A u \in Users : row'[u] # row[u] => Unpinned(u) /\ row'[u] = [row[u] EXCEPT !.st = row'[u].st] /\ row'[u].st \in Live
  BY <1>5, <1>6, <1>7, Zenon
<1>. QED BY <1>16, <1>17, Zenon

\* The sweep deletes closed accounts whose grace period is over.
LEMMA PurgeRowsInv ==
  ASSUME Inv, NEW p \in Calls, NEW gone, gone = {u \in call[p].todo : Due(u)}, PurgeRows(p, gone)
  PROVE  Inv'
<1>1. /\ call[p] \in CallRec /\ CallOK(p) /\ row \in [Users -> UserRow] /\ ticket \in [Tickets -> TicketRow]
      /\ RowsOK /\ TicketsOK /\ Absent \in UserRow
  BY CallFacts, Zenon DEF Absent, UserRow
<1>2. /\ call[p].op = "purge"
      /\ row' = [u \in Users |-> IF u \in gone THEN Absent ELSE row[u]]
      /\ bound' = IF bound \in gone THEN NoUser ELSE bound
      /\ ticket' = [t \in Tickets |-> IF ticket[t].acct \in gone THEN [ticket[t] EXCEPT !.acct = NoUser] ELSE ticket[t]]
      /\ End(p) /\ UNCHANGED <<graduated, menu, left>>
  BY Zenon DEF PurgeRows
<1>3. gone \subseteq Users /\ \A u \in gone : Due(u) /\ lock[u] = p
  BY <1>1, <1>2, Zenon DEF CallRec, CallOK, Swept
<1>4. \A u \in Users : IF u \in gone THEN row'[u] = Absent ELSE row'[u] = row[u]
  BY <1>2, Zenon
<1>5. row' \in [Users -> UserRow]
  BY <1>1, <1>2, Zenon
<1>6. ticket' \in [Tickets -> TicketRow]
  <2>1. \A t \in Tickets : [ticket[t] EXCEPT !.acct = NoUser] \in TicketRow
    BY <1>1 DEF TicketRow
  <2>. QED BY <1>1, <1>2, <2>1, Zenon
<1>7. \A t \in Tickets : ticket'[t].st = ticket[t].st /\ ticket'[t].sid = ticket[t].sid /\ ticket'[t].mail = ticket[t].mail
  BY <1>1, <1>2 DEF TicketRow
<1>8. Typed'
  BY <1>2, <1>5, <1>6, Ended, Zenon DEF Inv, Typed
<1>9. Absent.st = "absent" /\ ~Absent.due
  BY Zenon DEF Absent
<1>10. RowsOK' /\ TicketsOK'
  BY <1>1, <1>4, <1>7, <1>9 DEF RowsOK, TicketsOK, Exists
<1>11. OneAccountPerStudent'
  BY <1>4, <1>9 DEF Inv, OneAccountPerStudent, Exists
<1>12. AdminRemains'
  BY <1>3, <1>4, Zenon DEF Inv, AdminRemains, IsLive, Live, Due
<1>13. LockedExists'
  <2>1. SUFFICES ASSUME NEW u \in Users, lock'[u] # NoCall PROVE row'[u].st # "absent"
    BY Zenon DEF LockedExists, Exists
  <2>2. lock[u] # p /\ lock[u] # NoCall
    BY <1>2, <2>1, Ended, Zenon DEF Locks
  <2>3. u \notin gone /\ Exists(u)
    BY <1>3, <2>2, Zenon DEF Inv, LockedExists
  <2>. QED BY <1>4, <2>3, Zenon DEF Exists
<1>14. ASSUME NEW q \in Calls \ {p} PROVE Kept(q)
  <2>1. call'[q] = call[q] /\ \A l \in Locks : lock'[l] = q <=> lock[l] = q
    BY <1>2, Ended, Zenon
  <2>2. \A u \in Users : lock[u] = q => row'[u] = row[u]
    BY <1>3, <1>4, <1>14, Zenon
  <2>3. call[q].op \in Inserts => row'[call[q].user] = row[call[q].user]
    <3>1. call[q].op \in Inserts => call[q].user \in Users /\ row[call[q].user] = Absent
      BY InsertFacts, Zenon
    <3>. QED BY <1>4, <3>1, Zenon
  <2>4. \A u \in Users : row'[u].st # "absent" => row'[u] = row[u]
    BY <1>4, <1>9, Zenon
  <2>5. \A u \in Users : IsLive(u) => row'[u] = row[u]
    BY <1>3, <1>4, Zenon DEF IsLive, Live, Due
  <2>6. call[q].op = "submit" => ticket'[call[q].ticket].st = ticket[call[q].ticket].st
    BY <1>7, CallFacts, Zenon DEF Shape
  <2>. QED BY <1>7, <2>1, <2>2, <2>3, <2>4, <2>5, <2>6, Zenon DEF Kept, Exists, IsLive
<1>. QED BY <1>2, <1>8, <1>10, <1>11, <1>12, <1>13, <1>14, Ended, Assemble, Zenon

\* A step outside the transactions that leaves each its reliance.
LEMMA AssembleAll ==
  ASSUME Inv, Typed', RowsOK', TicketsOK', OneAccountPerStudent', AdminRemains', LockedExists',
         call' = call, \A q \in Calls : Kept(q)
  PROVE  Inv'
<1>1. \A q \in Calls : CallOK(q)' /\ Shape(call[q])'
  BY Rely, Zenon
<1>2. Distinct'
  BY Zenon DEF Inv, Distinct
<1>. QED BY <1>1, <1>2, Zenon DEF Inv

LEMMA DeleteExpiredAlumniRequestsInv ==
  ASSUME Inv, NEW t \in Tickets, DeleteExpiredAlumniRequests(t)
  PROVE  Inv'
<1>1. ticket \in [Tickets -> TicketRow] /\ NoRequest \in TicketRow /\ TicketsOK /\ NoRequest.st = "none"
  BY Zenon DEF Inv, Typed, NoRequest, TicketRow
<1>2. /\ lock[t] = NoCall /\ (\A p \in Calls : call[p].ticket # t) /\ ticket' = [ticket EXCEPT ![t] = NoRequest]
      /\ UNCHANGED <<row, bound, lock, call, graduated, menu, left>>
  BY Zenon DEF DeleteExpiredAlumniRequests
<1>3. ticket'[t] = NoRequest /\ \A x \in Tickets \ {t} : ticket'[x] = ticket[x]
  BY <1>1, <1>2, Zenon
<1>4. Typed'
  BY <1>1, <1>2, Zenon DEF Inv, Typed
<1>5. RowsOK' /\ OneAccountPerStudent' /\ AdminRemains' /\ LockedExists'
  BY <1>2 DEF Inv, RowsOK, OneAccountPerStudent, AdminRemains, LockedExists, Exists, IsLive
<1>6. TicketsOK'
  BY <1>1, <1>3, Zenon DEF TicketsOK
<1>7. ASSUME NEW q \in Calls PROVE Kept(q)
  <2>1. \A x \in Tickets : lock[x] = q => ticket'[x] = ticket[x]
    BY <1>2, <1>3, Zenon
  <2>2. call[q].op = "submit" => ticket'[call[q].ticket] = ticket[call[q].ticket]
    BY <1>2, <1>3, CallFacts, Zenon DEF Shape
  <2>. QED BY <1>2, <2>1, <2>2, Zenon DEF Kept, Exists, IsLive
<1>. QED BY <1>2, <1>4, <1>5, <1>6, <1>7, AssembleAll, Zenon

LEMMA GracePassesInv ==
  ASSUME Inv, NEW u \in Users, GracePasses(u)
  PROVE  Inv'
<1>1. row \in [Users -> UserRow] /\ RowsOK
  BY Zenon DEF Inv, Typed
<1>2. /\ row[u].st = "closed" /\ row' = [row EXCEPT ![u].due = TRUE]
      /\ UNCHANGED <<bound, ticket, lock, call, graduated, menu, left>>
  BY Zenon DEF GracePasses
<1>3. row'[u] = [row[u] EXCEPT !.due = TRUE] /\ \A v \in Users \ {u} : row'[v] = row[v]
  BY <1>1, <1>2, Zenon
<1>4. /\ [row[u] EXCEPT !.due = TRUE] \in UserRow
      /\ row'[u].st = "closed" /\ row'[u].sid = row[u].sid /\ row'[u].mail = row[u].mail /\ row'[u].role = row[u].role
  BY <1>1, <1>2, <1>3 DEF UserRow
<1>5. row' \in [Users -> UserRow]
  BY <1>1, <1>2, <1>4, Zenon
<1>6. Typed'
  BY <1>2, <1>5, Zenon DEF Inv, Typed
<1>7. \A v \in Users : row'[v].st = row[v].st /\ row'[v].sid = row[v].sid /\ row'[v].mail = row[v].mail /\ row'[v].role = row[v].role
  BY <1>2, <1>3, <1>4, Zenon
<1>8. OneAccountPerStudent' /\ AdminRemains' /\ LockedExists' /\ TicketsOK'
  BY <1>2, <1>7 DEF Inv, OneAccountPerStudent, AdminRemains, LockedExists, TicketsOK, Exists, IsLive
<1>9. RowsOK'
  <2>1. SUFFICES ASSUME NEW v \in Users
                 PROVE  /\ row'[v].st = "absent" => row'[v] = Absent
                        /\ row'[v].st # "absent" => row'[v].sid \in Sids /\ row'[v].mail \in Mails
                        /\ row'[v].due => row'[v].st = "closed"
    BY Zenon DEF RowsOK, Exists
  <2>2. CASE v = u
    BY <1>1, <1>2, <1>4, <2>2, Zenon DEF RowsOK, Exists
  <2>3. CASE v # u
    BY <1>1, <1>3, <2>3 DEF RowsOK, Exists
  <2>. QED BY <2>2, <2>3, Zenon
<1>10. ASSUME NEW q \in Calls PROVE Kept(q)
  <2>1. call[q].op \in Inserts => row'[call[q].user] = row[call[q].user]
    <3>1. call[q].op \in Inserts => call[q].user \in Users /\ row[call[q].user] = Absent
      BY InsertFacts, Zenon
    <3>2. call[q].op \in Inserts => call[q].user # u
      BY <1>2, <3>1 DEF Absent
    <3>. QED BY <1>3, <3>1, <3>2, Zenon
  <2>2. \A v \in Users : row'[v] = row[v] \/ (row[v].st = "closed" /\ row'[v] = [row[v] EXCEPT !.due = TRUE])
    BY <1>2, <1>3, Zenon
  <2>. QED BY <1>2, <1>7, <2>1, <2>2, Zenon DEF Kept, Exists, IsLive
<1>. QED BY <1>2, <1>6, <1>8, <1>9, <1>10, AssembleAll, Zenon

\* Steps that leave the table, the locks and the calls alone.
LEMMA QuietInv ==
  ASSUME Inv, UNCHANGED <<row, bound, ticket, lock, call, menu, left>>, graduated' \subseteq Sids
  PROVE  Inv'
<1>1. Typed' /\ LockedExists'
  BY Zenon DEF Inv, Typed, LockedExists, Exists
<1>2. \A q \in Calls : Kept(q)
  BY KeptByReader, Zenon
<1>. QED BY <1>1, <1>2, TableKept, AssembleAll, Zenon

-----------------------------------------------------------------------------
(* The invariant. *)

LEMMA InitInv == Init => Inv
<1>1. SUFFICES ASSUME Init PROVE Inv
  BY Zenon
<1>2. PICK s \in Starts : row = s.row /\ ticket = s.ticket /\ menu = s.menu /\ left = s.left
  BY <1>1, Zenon DEF Init
<1>3. SoundStart(s)
  BY StartAssumption, Zenon
<1>4. bound = NoUser /\ graduated = {} /\ lock = [l \in Locks |-> NoCall] /\ call = [p \in Calls |-> Idle]
  BY <1>1, Zenon DEF Init
<1>5. Typed
  BY <1>2, <1>3, <1>4, IdleTyped, Zenon DEF Typed, SoundStart
<1>6. RowsOK /\ TicketsOK
  <2>1. Absent.due = FALSE
    BY Zenon DEF Absent
  <2>. QED BY <1>2, <1>3, <2>1, Zenon DEF RowsOK, TicketsOK, SoundStart, Exists
<1>7. OneAccountPerStudent
  BY <1>2, <1>3, Zenon DEF OneAccountPerStudent, SoundStart, Exists
<1>8. AdminRemains
  BY <1>2, <1>3, Zenon DEF AdminRemains, SoundStart, IsLive
<1>9. LockedExists /\ Distinct
  BY <1>4, Zenon DEF LockedExists, Distinct, Locks, Idle, Inserts
<1>10. ASSUME NEW p \in Calls PROVE Shape(call[p]) /\ CallOK(p)
  <2>1. (\A l \in Locks : lock[l] # p) /\ call[p] = Idle
    BY <1>4, Zenon
  <2>2. call[p].op = "update" /\ call[p].k = 1 /\ call[p].pc = "idle" /\ call[p].ticket = NoTicket
        /\ call[p].edit.f = "none" /\ call[p].user = NoUser /\ call[p].todo = {}
    BY <2>1, SMTT(60) DEF Idle, NoEdit
  <2>3. Shape(call[p])
    BY <2>1, <2>2, SMTT(60) DEF Shape, Consoles, Inserts, Sweeps
  <2>4. {"assign", "admin"} \subseteq Locks /\ Users \subseteq Locks /\ Tickets \subseteq Locks
    BY Zenon DEF Locks
  <2>5. Place(p) /\ Reserved(p) /\ Swept(p)
    BY <2>2 DEF Place, Reserved, Swept, Sweeps, Inserts
  <2>6. Owned(p) /\ JudgedNames(p) /\ JudgedRow(p) /\ JudgedTicket(p)
    BY <2>1, <2>2, <2>4, Zenon DEF Owned, JudgedNames, JudgedRow, JudgedTicket, Inserts
  <2>. QED BY <2>1, <2>2, <2>3, <2>4, <2>5, <2>6, Zenon DEF CallOK
<1>. QED BY <1>5, <1>6, <1>7, <1>8, <1>9, <1>10, Zenon DEF Inv

LEMMA NextInv == Inv /\ [Next]_vars => Inv'
<1>1. SUFFICES ASSUME Inv, [Next]_vars PROVE Inv'
  BY Zenon
<1>2. ASSUME NEW p \in Calls,
             \/ StartUpdate(p) \/ BatchUpdateUsers(p) \/ BatchCancelled(p) \/ StartClose(p) \/ StartRestore(p)
             \/ StartCreate(p) \/ StartBind(p) \/ Submit(p) \/ StartApprove(p) \/ Reject(p)
      PROVE  Inv'
  BY <1>1, <1>2, StartConsoleInv, BatchUpdateUsersInv, BatchCancelledInv, StartCreateInv, StartOtherInv, Zenon
<1>3. ASSUME NEW p \in Calls, Check(p) \/ TakeLock(p) \/ Commit(p) \/ CreateTicket(p)
      PROVE  Inv'
  BY <1>1, <1>3, CheckInv, TakeLockInv, CommitInv, CreateTicketInv, Zenon
<1>4. ASSUME NEW p \in Calls, RecomputeRead(p) \/ RecomputeTake(p) \/ RecomputeDerivedState(p) \/ PurgeDeletedUsers(p)
      PROVE  Inv'
  BY <1>1, <1>4, RecomputeReadInv, RecomputeTakeInv, RecomputeDerivedStateInv, PurgeSelectInv, PurgeRowsInv, Zenon
     DEF PurgeDeletedUsers
<1>5. ASSUME NEW t \in Tickets, DeleteExpiredAlumniRequests(t) PROVE Inv'
  BY <1>1, <1>5, DeleteExpiredAlumniRequestsInv, Zenon
<1>6. ASSUME NEW u \in Users, GracePasses(u) PROVE Inv'
  BY <1>1, <1>6, GracePassesInv, Zenon
<1>7. ASSUME NEW s \in Sids, NewAcademicYear(s) PROVE Inv'
  BY <1>1, <1>7, QuietInv, Zenon DEF NewAcademicYear, Inv, Typed
<1>8. CASE UNCHANGED vars
  BY <1>1, <1>8, QuietInv, Zenon DEF vars, Inv, Typed
<1>. QED BY <1>1, <1>2, <1>3, <1>4, <1>5, <1>6, <1>7, <1>8, Zenon DEF Next

LEMMA Invariant == Spec => []Inv
  BY InitInv, NextInv, PTL DEF Spec

-----------------------------------------------------------------------------
(* The table. *)

\* How far a transaction can have come.
LEMMA PlaceBound ==
  ASSUME Inv, NEW p \in Calls
  PROVE  call[p].k \in 1..6
<1>1. call[p] \in CallRec /\ Shape(call[p]) /\ Place(p) /\ call[p].k \in Nat /\ call[p].k >= 1
  BY CallFacts, Zenon DEF CallOK
<1>2. CASE call[p].op \in Sweeps \union {"submit"}
  BY <1>1, <1>2 DEF Shape
<1>3. CASE call[p].op \notin Sweeps \union {"submit"}
  <2>1. Len(LocksOf(call[p])) \in 1..4
    BY <1>1, <1>3, LockCount, Zenon DEF CallRec, Sweeps
  <2>2. call[p].k = 1 \/ call[p].k <= Len(LocksOf(call[p])) \/ call[p].k = Len(LocksOf(call[p])) + 1
    BY <1>1, <1>3, Zenon DEF Place, CallRec
  <2>. DEFINE n == Len(LocksOf(call[p]))
              k == call[p].k
  <2>3. n \in 1..4 /\ k \in Nat /\ k >= 1 /\ (k = 1 \/ k <= n \/ k = n + 1)
    BY <1>1, <2>1, <2>2, Zenon
  <2>. HIDE DEF n, k
  <2>4. k \in 1..6
    BY ONLY <2>3
  <2>. QED BY <2>4, Zenon DEF k
<1>. QED BY <1>2, <1>3, Zenon

\* The table, the locks and the calls are well typed, only a closed account waits for
\* its purge, and no two accounts share a student ID, a login address, or the one's
\* address and the other's ID, however the console, reviewers and binds interleave.
THEOREM DirectoryIsSound == Spec => []DirectorySound
<1>1. Inv => TypeOK
  <2>1. SUFFICES ASSUME Inv PROVE TypeOK
    BY Zenon
  <2>2. \A p \in Calls : call[p].k \in 1..6 /\ call[p] \in CallRec
    BY <2>1, PlaceBound, CallFacts, Zenon
  <2>3. \A u \in Users : row[u].due => row[u].st = "closed"
    BY <2>1, Zenon DEF Inv, RowsOK
  <2>. QED BY <2>1, <2>2, <2>3, Zenon DEF Inv, Typed, TypeOK, CallRec
<1>2. Inv => DirectorySound
  BY <1>1, Zenon DEF DirectorySound, Inv
<1>. QED BY <1>2, Invariant, PTL

\* An open administrator is left, whoever demotes or closes whom at once
\* (ensureAnotherAdminRemains under the admin guard).
THEOREM AnAdminAlwaysRemains == Spec => []AdminRemains
<1>1. Inv => AdminRemains
  BY Zenon DEF Inv
<1>. QED BY <1>1, Invariant, PTL

-----------------------------------------------------------------------------
(* Waiting. *)

\* The order of identity_assignment.go.
Rank(l) ==
    IF l = "assign" THEN 1 ELSE IF l = "admin" THEN 2 ELSE IF l \in Tickets THEN 3
    ELSE IF l \in Users THEN 4 ELSE IF l \in Mails THEN 5 ELSE IF l = Personal THEN 6 ELSE 0

LEMMA Ranks ==
  /\ Rank("assign") = 1 /\ Rank("admin") = 2 /\ Rank(Personal) = 6
  /\ \A l \in Tickets : Rank(l) = 3
  /\ \A l \in Users : Rank(l) = 4
  /\ \A l \in Mails : Rank(l) = 5
<1>1. \A l \in Mails : l \in Addresses /\ l # Personal
  BY Zenon DEF Addresses
<1>2. Personal \in Addresses
  BY Zenon DEF Addresses
<1>3. \A l \in {"assign", "admin"} : l \notin Users \union Tickets \union Addresses
  BY Zenon
<1>. QED BY <1>1, <1>2, <1>3, Zenon DEF Rank

\* A transaction waits for a lock that comes after those it holds.
LEMMA WaitsUpwards ==
  ASSUME Inv, NEW p \in Calls, call[p].pc = "lock", call[p].op # "recompute",
         NEW l \in Locks, lock[l] = p, l # "gate"
  PROVE  Rank(LocksOf(call[p])[call[p].k]) > Rank(l) /\ Rank(l) > 0
<1>. DEFINE c == call[p]
            L == LocksOf(c)
<1>1. /\ c \in CallRec /\ Shape(c) /\ Place(p) /\ Owned(p) /\ JudgedTicket(p) /\ TicketsOK /\ c.k \in Nat
      /\ c.edit \in Edits
  BY CallFacts, Zenon DEF CallOK
<1>2. c.op \in Ops \ {"recompute", "purge", "submit"}
  BY <1>1, Zenon DEF CallRec, Shape
<1>3. PICK i \in 1..(c.k - 1) : l = L[i]
  BY <1>1, <1>2, Zenon DEF Owned, Sweeps
<1>4. Len(L) \in 1..4 /\ c.k \in 1..Len(L)
  BY <1>1, <1>2, LockCount, NextLock, Zenon
<1>. HIDE DEF c, L
<1>5. CASE c.op = "create"
  <2>1. Rank(c.new.mail) = 5
    BY <1>1, <1>5, Ranks, Zenon DEF Shape
  <2>2. L = <<"assign", c.new.mail>> \/ L = <<"assign", c.new.mail, Personal>>
    BY <1>1, <1>5, LockLists, Zenon DEF L
  <2>3. Rank(L[c.k]) > Rank(L[i]) /\ Rank(L[i]) > 0
    <3>1. CASE L = <<"assign", c.new.mail>>
      BY ONLY <1>3, <1>4, <2>1, <3>1, Ranks
    <3>2. CASE L = <<"assign", c.new.mail, Personal>>
      BY ONLY <1>3, <1>4, <2>1, <3>2, Ranks
    <3>. QED BY <2>2, <3>1, <3>2, Zenon
  <2>. QED BY <1>3, <2>3, Zenon DEF c, L
<1>6. CASE c.op \in {"update", "batch"}
  <2>1. Rank(c.user) = 4
    BY <1>1, <1>6, Ranks, Zenon DEF Shape, Consoles, c
  <2>2. CASE c.edit.f = "mail"
    <3>1. L = <<"assign", "admin", c.user, c.edit.v>> /\ Rank(c.edit.v) = 5
      BY <1>1, <1>6, <2>2, LockLists, EditValues, Ranks, Zenon DEF L
    <3>2. Rank(L[c.k]) > Rank(L[i]) /\ Rank(L[i]) > 0
      BY ONLY <1>3, <1>4, <2>1, <3>1, Ranks
    <3>. QED BY <1>3, <3>2 DEF c, L
  <2>3. CASE c.edit.f # "mail"
    <3>1. L = <<"assign", "admin", c.user>> \/ L = <<"admin", c.user, Personal>> \/ L = <<"admin", c.user>>
      BY <1>1, <1>6, <2>3, LockLists, Zenon DEF L
    <3>2. Rank(L[c.k]) > Rank(L[i]) /\ Rank(L[i]) > 0
      <4>1. CASE L = <<"assign", "admin", c.user>>
        BY ONLY <1>3, <1>4, <2>1, <4>1, Ranks
      <4>2. CASE L = <<"admin", c.user, Personal>>
        BY ONLY <1>3, <1>4, <2>1, <4>2, Ranks
      <4>3. CASE L = <<"admin", c.user>>
        BY ONLY <1>3, <1>4, <2>1, <4>3, Ranks
      <4>. QED BY <3>1, <4>1, <4>2, <4>3, Zenon
    <3>. QED BY <1>3, <3>2 DEF c, L
  <2>. QED BY <2>2, <2>3, Zenon
<1>7. CASE c.op \in {"close", "restore", "bind"}
  <2>1. Rank(c.user) = 4
    BY <1>1, <1>7, Ranks, Zenon DEF Shape, Consoles, c
  <2>2. L = <<"admin", c.user>> \/ L = <<c.user>> \/ L = <<c.user, Personal>>
    BY <1>1, <1>7, LockLists, Zenon DEF L
  <2>3. Rank(L[c.k]) > Rank(L[i]) /\ Rank(L[i]) > 0
    <3>1. CASE L = <<"admin", c.user>>
      BY ONLY <1>3, <1>4, <2>1, <3>1, Ranks
    <3>2. CASE L = <<c.user>>
      BY ONLY <1>3, <1>4, <2>1, <3>2, Ranks
    <3>3. CASE L = <<c.user, Personal>>
      BY ONLY <1>3, <1>4, <2>1, <3>3, Ranks
    <3>. QED BY <2>2, <3>1, <3>2, <3>3, Zenon
  <2>. QED BY <1>3, <2>3 DEF c, L
<1>8. CASE c.op \in {"approve", "recover"}
  <2>. DEFINE x == IF c.op = "approve" THEN c.new.mail ELSE c.user
  <2>1. c.ticket \in Tickets
    BY <1>1, <1>8, Zenon DEF Shape
  <2>2. L = <<"assign", c.ticket, x, Personal>>
    BY <1>1, <1>8, LockLists, Zenon DEF L
  <2>3. c.k > 2 => lock[c.ticket] = p
    <3>1. c.k > 2 => 2 \in 1..(c.k - 1)
      BY <1>4
    <3>2. \A j \in 1..(c.k - 1) : lock[L[j]] = p
      BY <1>1, <1>2, Zenon DEF Place, Sweeps, c, L
    <3>3. L[2] = c.ticket
      BY <2>2, Zenon
    <3>. QED BY <3>1, <3>2, <3>3, Zenon
  <2>4. c.k > 2 => Rank(x) \in {4, 5}
    BY <1>1, <1>8, <2>1, <2>3, Ranks, Zenon DEF JudgedTicket, TicketsOK, c
  <2>5. Rank(c.ticket) = 3
    BY <2>1, Ranks, Zenon
  <2>. HIDE DEF x
  <2>6. Rank(L[c.k]) > Rank(L[i]) /\ Rank(L[i]) > 0
    BY ONLY <1>3, <1>4, <2>2, <2>4, <2>5, Ranks
  <2>. QED BY <1>3, <2>6 DEF c, L
<1>9. CASE c.op = "reject"
  <2>1. L = <<c.ticket>>
    BY <1>1, <1>9, LockLists, Zenon DEF L
  <2>. QED BY ONLY <1>3, <1>4, <2>1
<1>. QED BY <1>2, <1>5, <1>6, <1>7, <1>8, <1>9, Zenon DEF Ops

\* A sweep has the sweep lock, so there is one; it holds and wants rows only.
LEMMA SweepsHold ==
  ASSUME Inv, NEW p \in Calls, call[p].op \in Sweeps
  PROVE  lock["sweep"] = p /\ DOMAIN call[p].drv \subseteq Users
<1>1. call[p] \in CallRec /\ lock["sweep"] = p
  BY CallFacts, Zenon DEF CallOK, Swept
<1>. QED BY <1>1, DerivedDomain, Zenon DEF CallRec

LEMMA RankRange ==
  ASSUME NEW l \in Locks \ {"gate", "sweep"}
  PROVE  Rank(l) \in 1..6
<1>1. l \in {"assign", "admin"} \/ l \in Users \/ l \in Tickets \/ l \in Mails \/ l = Personal
  BY Zenon DEF Locks, Addresses
<1>. QED BY <1>1, Ranks

LEMMA InvNoLockCycle == Inv => NoLockCycle
<1>1. SUFFICES ASSUME Inv, NEW S \in (SUBSET Calls) \ {{}}, \A p \in S : \E l \in Wants(p) : lock[l] \in S
               PROVE  FALSE
  BY Zenon DEF NoLockCycle
<1>. DEFINE Held(l) == l \in Locks \ {"gate", "sweep"} /\ lock[l] \in S
            Sweeper(l) == call[lock[l]].op = "recompute"
<1>2. \A p \in S : p \in Calls /\ call[p].pc = "lock"
  BY <1>1, Zenon DEF Wants
<1>3. ASSUME NEW p \in S, call[p].op # "recompute"
      PROVE  Held(LocksOf(call[p])[call[p].k])
  BY <1>1, <1>2, <1>3, NextLock, Zenon DEF Wants
<1>4. ASSUME NEW p \in S, call[p].op = "recompute"
      PROVE  \E m \in Users : Held(m) /\ ~Sweeper(m)
  <2>1. PICK m \in DOMAIN call[p].drv : lock[m] # p /\ lock[m] \in S
    BY <1>1, <1>2, <1>4, Zenon DEF Wants
  <2>2. m \in Users /\ lock["sweep"] = p
    BY <1>1, <1>2, <1>4, SweepsHold, Zenon DEF Sweeps
  <2>3. Held(m)
    BY <2>1, <2>2, Zenon DEF Locks
  <2>4. ~Sweeper(m)
    BY <1>1, <1>2, <2>1, <2>2, SweepsHold, Zenon DEF Sweeps
  <2>. QED BY <2>2, <2>3, <2>4, Zenon
<1>5. ASSUME NEW l, Held(l), ~Sweeper(l) PROVE \E m : Held(m) /\ Rank(m) > Rank(l)
  <2>1. lock[l] \in S /\ lock[l] \in Calls /\ call[lock[l]].pc = "lock" /\ call[lock[l]].op # "recompute"
    BY <1>2, <1>5, Zenon
  <2>2. Rank(LocksOf(call[lock[l]])[call[lock[l]].k]) > Rank(l)
    BY <1>1, <1>5, <2>1, WaitsUpwards, Zenon
  <2>3. Held(LocksOf(call[lock[l]])[call[lock[l]].k])
    BY <1>3, <2>1, Zenon
  <2>. QED BY <2>2, <2>3, Zenon
<1>6. ASSUME NEW l, Held(l), Sweeper(l) PROVE l \in Users
  <2>1. lock[l] \in Calls /\ Owned(lock[l])
    BY <1>1, <1>2, <1>6, CallFacts, Zenon DEF CallOK
  <2>. QED BY <1>6, <2>1, Zenon DEF Owned, Sweeps
<1>7. \A l : Held(l) => Rank(l) \in 1..6 /\ (l \in Users => Rank(l) = 4)
  BY RankRange, Ranks, Zenon
<1>8. \A l : Held(l) /\ Sweeper(l) => Rank(l) = 4 /\ \E m : Held(m) /\ ~Sweeper(m) /\ Rank(m) = 4
  BY <1>4, <1>6, <1>7, Zenon
<1>9. \A l : Held(l) /\ ~Sweeper(l) => \E m : Held(m) /\ Rank(m) > Rank(l)
  BY <1>5, Zenon
<1>10. \E l : Held(l)
  <2>1. PICK p \in S : TRUE
    BY <1>1, Zenon
  <2>. QED BY <1>3, <1>4, <2>1, Zenon
<1>. HIDE DEF Held, Sweeper
<1>11. \A l : Held(l) => Rank(l) # 6
  BY <1>7, <1>8, <1>9
<1>12. \A l : Held(l) => Rank(l) # 5
  BY <1>7, <1>8, <1>9, <1>11
<1>13. \A l : Held(l) /\ ~Sweeper(l) => Rank(l) # 4
  BY <1>7, <1>9, <1>11, <1>12
<1>14. \A l : Held(l) => Rank(l) # 4
  BY <1>8, <1>13, Zenon
<1>15. \A l : Held(l) => Rank(l) # 3
  BY <1>7, <1>8, <1>9, <1>11, <1>12, <1>14
<1>16. \A l : Held(l) => Rank(l) # 2
  BY <1>7, <1>8, <1>9, <1>11, <1>12, <1>14, <1>15
<1>17. \A l : Held(l) => Rank(l) # 1
  BY <1>7, <1>8, <1>9, <1>11, <1>12, <1>14, <1>15, <1>16
<1>. QED BY <1>7, <1>10, <1>11, <1>12, <1>14, <1>15, <1>16, <1>17

\* No set of transactions, however large, waits for itself: every writer takes its locks
\* in the order of identity_assignment.go, and the one writer that takes several rows in
\* no order, the retention sweep, waits for nobody who could wait for it.
THEOREM NobodyWaitsForever == Spec => []NoLockCycle
  BY Invariant, InvNoLockCycle, PTL

-----------------------------------------------------------------------------
(* Steps. *)

\* Only its own commit takes a transaction out of "commit".
LEMMA CommitsBy ==
  ASSUME Inv, Next, NEW p \in Calls, Commits(p), call[p].op \notin Sweeps \union {"submit"}
  PROVE  Commit(p)
<1>1. call \in [Calls -> CallRec] /\ call[p].pc = "commit" /\ call'[p] # call[p]
  BY CallFacts, Zenon DEF Commits
<1>2. ASSUME NEW q \in Calls,
             \/ StartUpdate(q) \/ BatchUpdateUsers(q) \/ BatchCancelled(q) \/ StartClose(q) \/ StartRestore(q)
             \/ StartCreate(q) \/ StartBind(q) \/ Submit(q) \/ StartApprove(q) \/ Reject(q)
      PROVE  FALSE
  <2>1. call[q].pc \in {"idle", "check"} /\ \E c : call' = [call EXCEPT ![q] = c]
    BY <1>2, ZenonT(60) DEF StartUpdate, BatchUpdateUsers, BatchCancelled, StartClose, StartRestore, StartCreate, StartBind,
         Submit, StartApprove, Reject, Begin, End
  <2>. QED BY <1>1, <2>1, Zenon
<1>3. ASSUME NEW q \in Calls, Over(q) \/ End(q) PROVE q # p => call'[p] = call[p]
  BY <1>1, <1>3, Zenon DEF Over, End
<1>4. ASSUME NEW q \in Calls, Check(q) \/ TakeLock(q) PROVE FALSE
  <2>1. call[q].pc \in {"check", "lock"} /\ (q # p => call'[p] = call[p])
    BY <1>1, <1>3, <1>4, Zenon DEF Check, TakeLock
  <2>. QED BY <1>1, <2>1, Zenon
<1>5. ASSUME NEW q \in Calls, Commit(q) PROVE Commit(p)
  BY <1>1, <1>3, <1>5, Zenon DEF Commit
<1>6. ASSUME NEW q \in Calls, CreateTicket(q) PROVE FALSE
  BY <1>1, <1>3, <1>6, Zenon DEF CreateTicket
<1>7. ASSUME NEW q \in Calls, RecomputeRead(q) \/ RecomputeTake(q) \/ RecomputeDerivedState(q) PROVE FALSE
  <2>1. CASE RecomputeRead(q)
    BY <1>1, <2>1, Zenon DEF RecomputeRead, Sweep, TryLock
  <2>2. CASE RecomputeTake(q)
    BY <1>1, <2>2, Zenon DEF RecomputeTake
  <2>3. CASE RecomputeDerivedState(q)
    BY <1>1, <1>3, <2>3, Zenon DEF RecomputeDerivedState
  <2>. QED BY <1>7, <2>1, <2>2, <2>3, Zenon
<1>8. ASSUME NEW q \in Calls, PurgeDeletedUsers(q) PROVE FALSE
  <2>1. CASE PurgeSelect(q)
    BY <1>1, <2>1, Zenon DEF PurgeSelect, Sweep, TryLock
  <2>2. ASSUME NEW gone, PurgeRows(q, gone) PROVE FALSE
    BY <1>1, <1>3, <2>2, Zenon DEF PurgeRows, Sweeps
  <2>. QED BY <1>8, <2>1, <2>2, Zenon DEF PurgeDeletedUsers
<1>9. ASSUME call' = call PROVE FALSE
  BY <1>1, <1>9, Zenon
<1>. QED BY <1>2, <1>4, <1>5, <1>6, <1>7, <1>8, <1>9, Zenon
       DEF Next, DeleteExpiredAlumniRequests, GracePasses, NewAcademicYear

\* ... and a commit does take it out.
LEMMA CommitMoves ==
  ASSUME Inv, NEW p \in Calls, Commit(p)
  PROVE  Commits(p)
<1>1. call \in [Calls -> CallRec] /\ call[p].pc = "commit" /\ Over(p)
  BY CallFacts, Zenon DEF Commit
<1>2. CASE End(p)
  <2>1. call'[p] = Idle /\ Idle.pc = "idle"
    BY <1>1, <1>2, Zenon DEF End, Idle
  <2>. QED BY <1>1, <2>1, Zenon DEF Commits
<1>3. CASE ~End(p)
  <2>1. PICK u : call' = [call EXCEPT ![p].pc = "check", ![p].user = u, ![p].todo = @ \ {u},
                                      ![p].k = 1, ![p].new = Absent]
    BY <1>1, <1>3, Zenon DEF Over
  <2>2. call'[p].pc = "check"
    BY <1>1, <2>1 DEF CallRec
  <2>. QED BY <1>1, <2>2, Zenon DEF Commits
<1>. QED BY <1>2, <1>3, Zenon

\* What may happen to a row.
LEMMA RowChanges ==
  ASSUME Inv, Next, NEW u \in Users, row'[u] # row[u]
  PROVE  \/ \E p \in Calls : Commit(p)
         \/ Unpinned(u) /\ row'[u].st \in Live
         \/ Due(u) /\ row'[u] = Absent
         \/ row[u].st = "closed" /\ row'[u].st = "closed"
<1>1. ASSUME row' = row PROVE FALSE
  BY <1>1, Zenon
<1>2. ASSUME NEW p \in Calls, RecomputeDerivedState(p) PROVE Unpinned(u) /\ row'[u].st \in Live
  BY <1>2, RecomputeDerivedStateInv, Zenon
<1>3. ASSUME NEW p \in Calls, NEW gone, gone = {x \in call[p].todo : Due(x)}, PurgeRows(p, gone)
      PROVE  Due(u) /\ row'[u] = Absent
  BY <1>3, Zenon DEF PurgeRows
<1>4. ASSUME NEW v \in Users, GracePasses(v) PROVE row[u].st = "closed" /\ row'[u].st = "closed"
  <2>1. row \in [Users -> UserRow]
    BY Zenon DEF Inv, Typed
  <2>2. row[v].st = "closed" /\ row' = [row EXCEPT ![v].due = TRUE]
    BY <1>4, Zenon DEF GracePasses
  <2>3. v = u /\ row'[u] = [row[u] EXCEPT !.due = TRUE]
    BY <2>1, <2>2, Zenon
  <2>. QED BY <2>1, <2>2, <2>3 DEF UserRow
<1>5. ASSUME NEW p \in Calls,
             \/ StartUpdate(p) \/ BatchUpdateUsers(p) \/ BatchCancelled(p) \/ StartClose(p) \/ StartRestore(p)
             \/ StartCreate(p) \/ StartBind(p) \/ Submit(p) \/ StartApprove(p) \/ Reject(p)
      PROVE  row' = row
  BY <1>5, ZenonT(60) DEF StartUpdate, BatchUpdateUsers, BatchCancelled, StartClose, StartRestore, StartCreate, StartBind,
       Submit, StartApprove, Reject, Begin
<1>6. ASSUME NEW p \in Calls,
             Check(p) \/ TakeLock(p) \/ CreateTicket(p) \/ RecomputeRead(p) \/ RecomputeTake(p) \/ PurgeSelect(p)
      PROVE  row' = row
  BY <1>6, Zenon DEF Check, TakeLock, CreateTicket, RecomputeRead, RecomputeTake, PurgeSelect, Sweep
<1>7. ASSUME NEW t \in Tickets, DeleteExpiredAlumniRequests(t) PROVE row' = row
  BY <1>7, Zenon DEF DeleteExpiredAlumniRequests
<1>8. ASSUME NEW s \in Sids, NewAcademicYear(s) PROVE row' = row
  BY <1>8, Zenon DEF NewAcademicYear
<1>. QED BY <1>1, <1>2, <1>3, <1>4, <1>5, <1>6, <1>7, <1>8, Zenon DEF Next, PurgeDeletedUsers

\* What may happen to the state of a ticket.
LEMMA TicketChanges ==
  ASSUME Inv, Next, NEW t \in Tickets, ticket'[t].st # ticket[t].st
  PROVE  (\E p \in Calls : Commit(p)) \/ ticket[t].st = "none" \/ ticket'[t].st = "none"
<1>1. ticket \in [Tickets -> TicketRow]
  BY Zenon DEF Inv, Typed
<1>2. ASSUME ticket' = ticket PROVE FALSE
  BY <1>2, Zenon
<1>3. ASSUME NEW p \in Calls, CreateTicket(p) PROVE ticket[t].st = "none"
  <2>1. call[p].op = "submit" /\ (ticket' = ticket \/ ticket' = [ticket EXCEPT ![call[p].ticket] = Verdict(call[p])])
    BY <1>3, Zenon DEF CreateTicket
  <2>2. t = call[p].ticket
    BY <1>1, <2>1, Zenon
  <2>. QED BY <2>1, <2>2, CallFacts, Zenon DEF CallOK, Reserved
<1>4. ASSUME NEW p \in Calls, NEW gone, PurgeRows(p, gone) PROVE FALSE
  <2>1. ticket'[t] = ticket[t] \/ ticket'[t] = [ticket[t] EXCEPT !.acct = NoUser]
    BY <1>4, Zenon DEF PurgeRows
  <2>. QED BY <1>1, <2>1, Zenon DEF TicketRow
<1>5. ASSUME NEW x \in Tickets, DeleteExpiredAlumniRequests(x) PROVE ticket'[t].st = "none"
  <2>1. ticket' = [ticket EXCEPT ![x] = NoRequest]
    BY <1>5, Zenon DEF DeleteExpiredAlumniRequests
  <2>2. ticket'[t] = NoRequest
    BY <1>1, <2>1, Zenon
  <2>. QED BY <2>2 DEF NoRequest
<1>6. ASSUME NEW p \in Calls,
             \/ StartUpdate(p) \/ BatchUpdateUsers(p) \/ BatchCancelled(p) \/ StartClose(p) \/ StartRestore(p)
             \/ StartCreate(p) \/ StartBind(p) \/ Submit(p) \/ StartApprove(p) \/ Reject(p)
      PROVE  ticket' = ticket
  BY <1>6, ZenonT(60) DEF StartUpdate, BatchUpdateUsers, BatchCancelled, StartClose, StartRestore, StartCreate, StartBind,
       Submit, StartApprove, Reject, Begin
<1>7. ASSUME NEW p \in Calls, \/ Check(p) \/ TakeLock(p) \/ RecomputeRead(p) \/ RecomputeTake(p)
                              \/ RecomputeDerivedState(p) \/ PurgeSelect(p)
      PROVE  ticket' = ticket
  BY <1>7, Zenon DEF Check, TakeLock, RecomputeRead, RecomputeTake, RecomputeDerivedState, PurgeSelect, Sweep
<1>8. ASSUME NEW u \in Users, GracePasses(u) PROVE ticket' = ticket
  BY <1>8, Zenon DEF GracePasses
<1>9. ASSUME NEW s \in Sids, NewAcademicYear(s) PROVE ticket' = ticket
  BY <1>9, Zenon DEF NewAcademicYear
<1>. QED BY <1>2, <1>3, <1>4, <1>5, <1>6, <1>7, <1>8, <1>9, Zenon DEF Next, PurgeDeletedUsers

\* The row a console transaction commits.
LEMMA ConsoleCommit ==
  ASSUME Inv, NEW p \in Calls, Commit(p), call[p].op \in Consoles \union {"create"},
         NEW u \in Users, row'[u] # row[u]
  PROVE  /\ u = call[p].user /\ (call[p].op = "create" => ~Exists(u))
         /\ row'[u].role # row[u].role /\ Exists(u) => call[p].by # u
         /\ call[p].by = u => Exists(u)
         /\ call[p].as # "admin" =>
              /\ ~(Exists(u) /\ row[u].role = "admin") /\ row'[u].role # "admin"
              /\ Exists(u) => row'[u].mail = row[u].mail
<1>. DEFINE c == call[p]
<1>1. c \in CallRec /\ Shape(c) /\ CallOK(p) /\ c.pc = "commit" /\ c.edit \in Edits
  BY CallFacts, Zenon DEF Commit
<1>2. /\ u = c.user /\ row'[u] = c.new /\ Writes(c)
      /\ (Exists(u) /\ lock[u] = p) \/ (c.op \in Inserts /\ row[u] = Absent)
  BY CommitTable
<1>3. CASE c.op = "create"
  <2>1. row[u] = Absent
    BY <1>1, <1>2, <1>3, Zenon DEF CallOK, Reserved, Inserts
  <2>2. c.by # u /\ (c.as # "admin" => c.new.role # "admin")
    BY <1>1, <1>2, <1>3, Zenon DEF Shape
  <2>. QED BY <1>2, <1>3, <2>1, <2>2, AbsentFields, Zenon
<1>4. CASE c.op \in {"update", "batch"}
  <2>1. Exists(u) /\ lock[u] = p
    BY <1>2, <1>4, Zenon DEF Inserts
  <2>2. /\ c.new.mail = IF c.edit.f = "mail" THEN c.edit.v ELSE row[u].mail
        /\ c.new.role # row[u].role => c.by # u
        /\ c.as # "admin" => row[u].role # "admin" /\ c.new.role # "admin"
    BY <1>1, <1>2, <1>4, <2>1, Zenon DEF CallOK, JudgedRow
  <2>3. c.as # "admin" => c.edit.f # "mail"
    BY <1>1, <1>4, Zenon DEF Shape
  <2>. QED BY <1>2, <1>4, <2>1, <2>2, <2>3, Zenon
<1>5. CASE c.op \in {"close", "restore"}
  <2>1. Exists(u) /\ lock[u] = p
    BY <1>2, <1>5, Zenon DEF Inserts
  <2>2. c.new.mail = row[u].mail /\ c.new.role = row[u].role /\ (c.as # "admin" => row[u].role # "admin")
    BY <1>1, <1>2, <1>5, <2>1, Zenon DEF CallOK, JudgedRow
  <2>. QED BY <1>2, <1>5, <2>1, <2>2, Zenon
<1>. QED BY <1>3, <1>4, <1>5, Zenon DEF Consoles

\* A console write authorised for a manager lands on no administrator's row, makes nobody
\* one, and asserts no address; and nobody changes their own role: both are judged again on
\* the locked row, so a promotion in between does not slip through (UpdateAdminUser).
THEOREM ConsoleBoundaryHolds == Spec => ConsoleBoundary
<1>. DEFINE A == \A p \in Calls : ConsoleWrite(p) /\ call[p].as # "admin" =>
                   /\ bound' = bound
                   /\ \A u \in Users : row'[u] # row[u] =>
                        /\ ~(Exists(u) /\ row[u].role = "admin") /\ row'[u].role # "admin"
                        /\ Exists(u) => row'[u].mail = row[u].mail
            B == \A p \in Calls : ConsoleWrite(p) /\ call[p].by \in Users =>
                   row'[call[p].by].role = row[call[p].by].role
<1>1. ASSUME Inv, Next, NEW p \in Calls, ConsoleWrite(p)
      PROVE  Commit(p) /\ call[p].op \in Consoles \union {"create"}
  BY <1>1, CommitsBy, Zenon DEF ConsoleWrite, Consoles, Sweeps
<1>2. Inv /\ [Next]_vars => [A]_vars
  <2>1. SUFFICES ASSUME Inv, Next, NEW p \in Calls, ConsoleWrite(p), call[p].as # "admin"
                 PROVE  /\ bound' = bound
                        /\ \A u \in Users : row'[u] # row[u] =>
                             /\ ~(Exists(u) /\ row[u].role = "admin") /\ row'[u].role # "admin"
                             /\ Exists(u) => row'[u].mail = row[u].mail
    BY Zenon DEF vars
  <2>2. Commit(p) /\ call[p].op \in Consoles \union {"create"}
    BY <1>1, <2>1, Zenon
  <2>3. ~Binds(call[p])
    <3>1. Shape(call[p]) /\ call[p].pc = "commit"
      BY <2>1, <2>2, CallFacts, Zenon DEF Commit
    <3>. QED BY <2>1, <2>2, <3>1, Zenon DEF Shape, Binds, Consoles
  <2>. QED BY <2>1, <2>2, <2>3, ConsoleCommit, Zenon DEF Commit
<1>3. Inv /\ [Next]_vars => [B]_vars
  <2>1. SUFFICES ASSUME Inv, Next, NEW p \in Calls, ConsoleWrite(p), call[p].by \in Users
                 PROVE  row'[call[p].by].role = row[call[p].by].role
    BY Zenon DEF vars
  <2>. QED BY <1>1, <2>1, ConsoleCommit, Zenon
<1>4. Spec => [][A]_vars /\ [][B]_vars
  BY <1>2, <1>3, Invariant, PTL DEF Spec
<1>. QED BY <1>4, Zenon DEF ConsoleBoundary, ManagerBoundary, NoSelfRoleChange

\* The sweep leaves what people decided: a pinned state changes by a console write or on a
\* closed account only, and what is purged was closed and due at that moment.
THEOREM DecisionsAlwaysStand == Spec => DecisionsStand
<1>. DEFINE A == \A u \in Users : row[u].manual /\ row'[u].st # row[u].st =>
                   row[u].st = "closed" \/ \E p \in Calls : ConsoleWrite(p) /\ call[p].user = u
            B == \A u \in Users : Exists(u) /\ row'[u].st = "absent" => Due(u)
<1>1. Inv /\ [Next]_vars => [A]_vars
  <2>1. SUFFICES ASSUME Inv, Next, NEW u \in Users, row[u].manual, row'[u].st # row[u].st
                 PROVE  row[u].st = "closed" \/ \E p \in Calls : ConsoleWrite(p) /\ call[p].user = u
    BY Zenon DEF vars
  <2>2. ~Unpinned(u)
    BY <2>1, Zenon DEF Unpinned
  <2>3. CASE \E p \in Calls : Commit(p)
    <3>1. PICK p \in Calls : Commit(p)
      BY <2>3, Zenon
    <3>2. u = call[p].user /\ Writes(call[p]) /\ (Exists(u) \/ row[u] = Absent)
      BY <2>1, <3>1, CommitTable
    <3>3. Exists(u)
      BY <2>1, <3>2 DEF Absent
    <3>4. call[p].op # "approve"
      <4>1. row[call[p].user] # Absent
        BY <3>2, <3>3, AbsentFields, Zenon
      <4>2. "approve" \in Inserts
        BY Zenon DEF Inserts
      <4>. QED BY <2>1, <3>1, <4>1, <4>2, InsertFacts, Zenon
    <3>. QED BY <2>1, <3>1, <3>2, <3>4, CommitMoves, Zenon DEF ConsoleWrite, Writes
  <2>. QED BY <2>1, <2>2, <2>3, RowChanges, Zenon DEF Due
<1>2. Inv /\ [Next]_vars => [B]_vars
  <2>1. SUFFICES ASSUME Inv, Next, NEW u \in Users, Exists(u), row'[u].st = "absent" PROVE Due(u)
    BY Zenon DEF vars, Exists
  <2>2. row'[u] # row[u]
    BY <2>1, Zenon DEF Exists
  <2>3. ~ \E p \in Calls : Commit(p)
    BY <2>1, <2>2, CommitTable, Zenon
  <2>. QED BY <2>1, <2>2, <2>3, RowChanges, Zenon DEF Live
<1>3. Spec => [][A]_vars /\ [][B]_vars
  BY <1>1, <1>2, Invariant, PTL DEF Spec
<1>. QED BY <1>3, Zenon DEF DecisionsStand, PinSurvives, PurgeHonoursGrace

\* A ticket is decided once, and an approval hands the mailbox to an open account that has
\* the student ID and the login address the ticket names when it commits, whatever was
\* renamed, closed or created since the ticket was submitted.
THEOREM VerdictsHold == Spec => VerdictHolds
<1>. DEFINE A == \A t \in Tickets : ticket[t].st \in {"approved", "rejected"} => ticket'[t].st \in {ticket[t].st, "none"}
            B == \A t \in Tickets : ticket[t].st = "pending" /\ ticket'[t].st = "approved" =>
                   LET u == ticket'[t].acct
                   IN  /\ bound' = u /\ row'[u].st \in Live
                       /\ row'[u].sid = ticket[t].sid /\ row'[u].mail = ticket[t].mail
<1>1. ASSUME Inv, NEW p \in Calls, Commit(p), NEW t \in Tickets, ticket'[t] # ticket[t]
      PROVE  /\ call[p].op \in {"approve", "recover", "reject"} /\ t = call[p].ticket /\ lock[t] = p
             /\ ticket'[t] = Verdict(call[p]) /\ JudgedTicket(p) /\ ticket[t].st = "pending"
  <2>1. /\ call[p].op \in {"approve", "recover", "reject"} /\ t = call[p].ticket /\ lock[t] = p
        /\ ticket'[t] = Verdict(call[p])
    BY <1>1, CommitTickets, Zenon
  <2>2. JudgedTicket(p)
    BY <1>1, CallFacts, Zenon DEF CallOK
  <2>. QED BY <2>1, <2>2, Zenon DEF JudgedTicket
<1>2. Inv /\ [Next]_vars => [A]_vars
  <2>1. SUFFICES ASSUME Inv, Next, NEW t \in Tickets, ticket[t].st \in {"approved", "rejected"},
                        ticket'[t].st # ticket[t].st
                 PROVE  ticket'[t].st = "none"
    BY Zenon DEF vars
  <2>2. ~ \E p \in Calls : Commit(p)
    BY <1>1, <2>1, Zenon
  <2>. QED BY <2>1, <2>2, TicketChanges, Zenon
<1>3. Inv /\ [Next]_vars => [B]_vars
  <2>1. SUFFICES ASSUME Inv, Next, NEW t \in Tickets, ticket[t].st = "pending", ticket'[t].st = "approved"
                 PROVE  /\ bound' = ticket'[t].acct /\ row'[ticket'[t].acct].st \in Live
                        /\ row'[ticket'[t].acct].sid = ticket[t].sid /\ row'[ticket'[t].acct].mail = ticket[t].mail
    BY Zenon DEF vars
  <2>2. PICK p \in Calls : Commit(p)
    BY <2>1, TicketChanges, Zenon
  <2>. DEFINE c == call[p]
              u == c.user
  <2>3. /\ c.op \in {"approve", "recover", "reject"} /\ t = c.ticket /\ lock[t] = p /\ ticket'[t] = Verdict(c)
        /\ JudgedTicket(p) /\ c.pc = "commit" /\ JudgedRow(p) /\ row \in [Users -> UserRow]
    <3>1. ticket'[t] # ticket[t]
      BY <2>1, Zenon
    <3>2. c.op \in {"approve", "recover", "reject"} /\ t = c.ticket /\ lock[t] = p /\ ticket'[t] = Verdict(c) /\ JudgedTicket(p)
      BY <1>1, <2>1, <2>2, <3>1, ZenonT(60)
    <3>3. CallOK(p) /\ row \in [Users -> UserRow]
      BY <2>1, CallFacts, Zenon
    <3>. QED BY <2>2, <3>2, <3>3, Zenon DEF Commit, CallOK
  <2>4. c.op \in {"approve", "recover"} /\ ticket'[t].acct = u /\ bound' = u
    <3>1. c.op # "reject" /\ ticket'[t].acct = u
      BY <2>1, <2>3, VerdictTyped, Zenon
    <3>. QED BY <2>2, <2>3, <3>1, Zenon DEF Commit, Binds
  <2>5. u \in Users /\ (c.op = "recover" => lock[u] = p)
    BY <2>1, <2>3, <2>4, CommitHolds, Zenon DEF Inserts, Sweeps
  <2>6. CASE c.op = "approve"
    <3>1. row'[u] = c.new
      BY <2>2, <2>3, <2>5, <2>6, Zenon DEF Commit, Writes
    <3>. QED BY <2>3, <2>4, <2>6, <3>1, Zenon DEF JudgedTicket
  <2>7. CASE c.op = "recover"
    <3>1. row' = row
      BY <2>2, <2>7, Zenon DEF Commit, Writes
    <3>2. IsLive(u) /\ row[u].mail = ticket[t].mail
      BY <2>3, <2>5, <2>7, Zenon DEF JudgedRow
    <3>3. row[u].sid = ticket[t].sid
      BY <2>3, <2>7, <3>2, Zenon DEF JudgedTicket, IsLive, Live, Exists
    <3>. QED BY <2>4, <3>1, <3>2, <3>3, Zenon DEF IsLive
  <2>. QED BY <2>4, <2>6, <2>7, Zenon
<1>4. Spec => [][A]_vars /\ [][B]_vars
  BY <1>2, <1>3, Invariant, PTL DEF Spec
<1>. QED BY <1>4, Zenon DEF VerdictHolds, VerdictIsFinal, ApprovalReachesOwner
=============================================================================
