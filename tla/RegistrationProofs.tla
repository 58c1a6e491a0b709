------------------------- MODULE RegistrationProofs -------------------------
(***************************************************************************)
(* Proofs about Registration, for any addresses, number of calls, limits   *)
(* and faults.                                                             *)
(*                                                                         *)
(* An address has one owner because both writers look it up under the lock *)
(* of the address and keep that lock until they commit; the limit holds    *)
(* because the row lock covers the count and the insert.  That each use    *)
(* costs a code is a matter of counting: every binding under way, and      *)
(* every one that was made, has had a code of its own accepted.            *)
(***************************************************************************)
EXTENDS Registration, FiniteSetTheorems, TLAPS

-----------------------------------------------------------------------------
(* The inductive invariant. *)

\* The numbers of codes only rise, a stored code has not been accepted yet, and its
\* counter is the number of wrong guesses at it.
CodesOK ==
    \A b \in Boxes :
        /\ proofs[b] \subseteq 1..issued[b] /\ code[b].code <= issued[b]
        /\ code[b].code # 0 => code[b].code \notin proofs[b] /\ code[b].attempts = tries[b]

\* A ticket is for the address it was made for; a Register-Ticket came from a code.
TicketsOK ==
    \A t \in Tickets :
        /\ ticket[t] \in {t[1][2], NoPayload}
        /\ t[1][1] = "register" /\ ticket[t] # NoPayload => t[2] \in proofs[t[1]]

\* What a call has behind it, and what its locks keep for it.
CallOK(c) ==
    /\ call[c].pc \in {"ticket", "hash", "spend"} => Registering(c)
    /\ call[c].pc \in {"matched", "checked", "tx"} => ~Registering(c)
    /\ call[c].pc # "idle" /\ Registering(c) => call[c].ticket[2] \in proofs[BoxOf(c)]
    /\ call[c].pc \in {"hash", "insert", "commit"} /\ Registering(c) /\ call[c].via => call[c].identity
    /\ call[c].pc \in {"insert", "commit"} /\ ~Registering(c) => rowLock = c /\ Cardinality(mails) < MailLimit
    /\ call[c].pc = "commit" => addressLock[Address(c)] = c /\ ~ExistsAsEmailAnywhere(Address(c))
    /\ call[c].pc = "spend" => \E u \in accounts : u.email = Address(c)

\* An address that may register has no account, or one, which cost it a code.
AccountsOK ==
    \A a \in LoginAddresses :
        LET b == <<"register", a>>
            A == {u \in accounts : u.email = a}
        IN  \/ A = {} /\ uses[b] = 0
            \/ (\E u \in accounts : A = {u}) /\ uses[b] = 1 /\ proofs[b] # {}

MailsOK ==
    /\ IsFiniteSet(mails) /\ Cardinality(mails) <= MailLimit
    /\ \A a \in mails : \A u \in accounts : u.email # a

\* The bindings of a mailbox whose code was accepted and that have not ended.
Binders(b) == {c \in Calls : BoxOf(c) = b /\ call[c].pc \in {"matched", "checked", "tx", "insert", "commit"}}

CountOK == \A a \in Addresses : LET b == <<"bind", a>>
                                IN  uses[b] + Cardinality(Binders(b)) <= Cardinality(proofs[b])

Inv ==
    /\ TypeOK /\ CodesOK /\ TicketsOK /\ (\A c \in Calls : CallOK(c))
    /\ AccountsOK /\ MailsOK /\ CountOK /\ ProviderRegistrationIsBound

-----------------------------------------------------------------------------
(* Names and types. *)

USE RegistrationAssumption, StoreAssumption

LEMMA BoxFacts ==
  /\ \A b \in Boxes : /\ b[2] \in Addresses /\ b[1] \in {"register", "bind"}
                      /\ b[1] = "register" => b[2] \in LoginAddresses /\ b = <<"register", b[2]>>
                      /\ b[1] # "register" => b = <<"bind", b[2]>>
  /\ \A a \in LoginAddresses : <<"register", a>> \in Boxes
  /\ \A a \in Addresses : <<"bind", a>> \in Boxes
  BY DEF Boxes

LEMMA TicketFacts ==
  /\ \A t \in Tickets : t[1] \in Boxes /\ t[2] \in Numbers /\ t = <<t[1], t[2]>>
  /\ \A b \in Boxes, n \in Numbers : <<b, n>> \in Tickets
  BY DEF Tickets

LEMMA IdleTyped == Idle \in Call /\ Idle.pc = "idle"
<1>1. \E t \in Tickets : TRUE
  <2>1. PICK a \in Addresses : TRUE
    BY Zenon
  <2>2. <<"bind", a>> \in Boxes /\ 1 \in Numbers
    BY BoxFacts DEF Numbers
  <2>. QED BY <2>2, TicketFacts, Zenon
<1>2. AnyTicket \in Tickets
  BY <1>1, Zenon DEF AnyTicket
<1>. QED BY <1>2, Zenon DEF Idle, Call, Steps

\* What the type of a call says of its ticket.
LEMMA CallFacts ==
  ASSUME TypeOK, NEW c \in Calls
  PROVE  /\ call[c] \in Call /\ call[c].pc \in Steps /\ call[c].ticket \in Tickets
         /\ BoxOf(c) \in Boxes /\ Address(c) \in Addresses /\ call[c].ticket[2] \in Numbers
         /\ Registering(c) => Address(c) \in LoginAddresses /\ BoxOf(c) = <<"register", Address(c)>>
         /\ ~Registering(c) => BoxOf(c) = <<"bind", Address(c)>>
<1>1. call[c] \in Call /\ call[c].pc \in Steps /\ call[c].ticket \in Tickets
  BY Zenon DEF TypeOK, Call
<1>. QED BY <1>1, TicketFacts, BoxFacts, Zenon DEF BoxOf, Address, Registering

\* The scripts on a stored code keep its type.
LEMMA ScriptsTyped ==
  ASSUME NEW s \in StoredCode(MaxCodes)
  PROVE  /\ NoCode \in StoredCode(MaxCodes)
         /\ \A v : VerifyVerificationCode(s, v).after \in StoredCode(MaxCodes)
         /\ \A n \in 1..MaxCodes : SaveVerificationCode(s, n) \in StoredCode(MaxCodes)
         /\ \A x \in ExpiredCodes(s) : x \in StoredCode(MaxCodes)
  BY DEF StoredCode, NoCode, VerifyVerificationCode, Match, Mismatch, SaveVerificationCode, ExpiredCodes

\* What the comparison with a stored code does to it.
LEMMA VerifyFacts ==
  ASSUME NEW s \in StoredCode(MaxCodes), NEW v \in 0..MaxCodes,
         NEW r, r = VerifyVerificationCode(s, v)
  PROVE  /\ r.ok \in BOOLEAN
         /\ r.ok => s.code # 0 /\ v = s.code /\ v \in Numbers /\ r.after.code = 0
         /\ r.after.code # 0 => ~r.ok /\ s.code # 0 /\ r.after.code = s.code /\ r.after.attempts = s.attempts + 1
<1>1. CASE s.code = 0
  <2>1. r = [after |-> NoCode, ok |-> FALSE, remaining |-> 0]
    BY <1>1, Zenon DEF VerifyVerificationCode
  <2>. QED BY <2>1 DEF NoCode
<1>2. CASE s.code # 0 /\ s.code = v
  <2>1. r = Match(s)
    BY <1>2, Zenon DEF VerifyVerificationCode
  <2>. QED BY <1>2, <2>1 DEF NoCode, Match, Numbers
<1>3. CASE s.code # 0 /\ s.code # v
  <2>1. r = Mismatch(s)
    BY <1>3, Zenon DEF VerifyVerificationCode
  <2>. QED BY <1>3, <2>1 DEF StoredCode, NoCode, Mismatch
<1>. QED BY <1>1, <1>2, <1>3, Zenon

-----------------------------------------------------------------------------
(* What the parts of the invariant rest on. *)

LEMMA CodesKept ==
  ASSUME CodesOK, UNCHANGED <<code, issued, tries, proofs>>
  PROVE  CodesOK'
  BY Zenon DEF CodesOK

\* A mailbox gets a new code, or loses the one it has.
LEMMA CodesChanged ==
  ASSUME TypeOK, CodesOK, NEW b \in Boxes, NEW x \in StoredCode(MaxCodes), NEW n \in {issued[b], issued[b] + 1},
         code' = [code EXCEPT ![b] = x], issued' = [issued EXCEPT ![b] = n], tries' = [tries EXCEPT ![b] = 0],
         x.code = 0 \/ (x.code = n /\ n = issued[b] + 1 /\ x.attempts = 0), UNCHANGED proofs
  PROVE  CodesOK'
<1>1. issued[b] \in Nat /\ proofs[b] \subseteq 1..issued[b] /\ n \in Nat /\ x.code <= n
  BY DEF TypeOK, CodesOK, StoredCode
<1>2. /\ code'[b] = x /\ issued'[b] = n /\ tries'[b] = 0 /\ proofs'[b] = proofs[b]
      /\ \A d \in Boxes \ {b} : code'[d] = code[d] /\ issued'[d] = issued[d] /\ tries'[d] = tries[d] /\ proofs'[d] = proofs[d]
  BY Zenon DEF TypeOK
<1>3. x.code # 0 => x.code \notin proofs[b] /\ x.attempts = 0
  BY <1>1
<1>4. proofs[b] \subseteq 1..n
  BY <1>1
<1>. QED BY <1>1, <1>2, <1>3, <1>4 DEF CodesOK

LEMMA CodesVerified ==
  ASSUME TypeOK, CodesOK, NEW b \in Boxes, NEW v \in 0..MaxCodes, VerifyCode(b, v), UNCHANGED issued
  PROVE  /\ CodesOK'
         /\ code' \in [Boxes -> StoredCode(MaxCodes)] /\ tries' \in [Boxes -> Nat]
         /\ proofs' \in [Boxes -> SUBSET Numbers] /\ \A d \in Boxes : proofs[d] \subseteq proofs'[d]
         /\ Matches(b, v) => v \in Numbers /\ v \notin proofs[b] /\ proofs' = [proofs EXCEPT ![b] = @ \union {v}]
         /\ ~Matches(b, v) => proofs' = proofs
<1>. DEFINE s == code[b]
            r == VerifyVerificationCode(s, v)
<1>1. s \in StoredCode(MaxCodes) /\ tries[b] \in Nat /\ issued[b] \in Nat /\ s.code \in 0..MaxCodes
  BY DEF TypeOK, StoredCode
<1>2. /\ r.ok \in BOOLEAN
      /\ r.ok => s.code # 0 /\ v = s.code /\ v \in Numbers /\ r.after.code = 0
      /\ r.after.code # 0 => ~r.ok /\ s.code # 0 /\ r.after.code = s.code /\ r.after.attempts = s.attempts + 1
  BY <1>1, VerifyFacts, Zenon
<1>3. r.after \in StoredCode(MaxCodes)
  BY <1>1, ScriptsTyped, Zenon
<1>4. /\ code' = [code EXCEPT ![b] = r.after]
      /\ proofs' = [proofs EXCEPT ![b] = IF r.ok THEN @ \union {v} ELSE @]
      /\ tries' = [tries EXCEPT ![b] = IF r.after.code = 0 THEN 0 ELSE IF r.ok THEN @ ELSE @ + 1]
      /\ Matches(b, v) <=> r.ok
  BY Zenon DEF VerifyCode, Matches
<1>. HIDE DEF r
<1>5. /\ code'[b] = r.after /\ proofs'[b] = (IF r.ok THEN proofs[b] \union {v} ELSE proofs[b])
      /\ tries'[b] = (IF r.after.code = 0 THEN 0 ELSE IF r.ok THEN tries[b] ELSE tries[b] + 1)
      /\ \A d \in Boxes \ {b} : code'[d] = code[d] /\ tries'[d] = tries[d] /\ proofs'[d] = proofs[d]
      /\ UNCHANGED issued
  BY <1>4, Zenon DEF TypeOK
<1>6. /\ proofs[b] \subseteq 1..issued[b] /\ s.code <= issued[b]
      /\ s.code # 0 => s.code \notin proofs[b] /\ s.attempts = tries[b]
  BY Zenon DEF CodesOK
<1>7. proofs'[b] \subseteq 1..issued[b]
  BY <1>1, <1>2, <1>5, <1>6
<1>8. r.after.code <= issued[b]
  BY <1>1, <1>2, <1>6
<1>9. r.after.code # 0 => r.after.code \notin proofs'[b] /\ r.after.attempts = tries'[b]
  BY <1>1, <1>2, <1>5, <1>6, Zenon
<1>10. CodesOK'
  BY <1>5, <1>7, <1>8, <1>9, Zenon DEF CodesOK
<1>11. code' \in [Boxes -> StoredCode(MaxCodes)] /\ tries' \in [Boxes -> Nat] /\ proofs' \in [Boxes -> SUBSET Numbers]
  BY <1>1, <1>2, <1>3, <1>4 DEF TypeOK
<1>12. Matches(b, v) => v \in Numbers /\ v \notin proofs[b] /\ proofs' = [proofs EXCEPT ![b] = @ \union {v}]
  BY <1>2, <1>4, <1>6, Zenon
<1>13. ~Matches(b, v) => proofs' = proofs
  BY <1>4, Zenon DEF TypeOK
<1>14. \A d \in Boxes : proofs[d] \subseteq proofs'[d]
  BY <1>5, Zenon
<1>. QED BY <1>10, <1>11, <1>12, <1>13, <1>14, Zenon

\* Another call keeps what it has while codes are only added, nothing it locked
\* changes hands, and what it found under its locks stays so.
LEMMA CallKept ==
  ASSUME TypeOK, NEW d \in Calls, CallOK(d), call'[d] = call[d],
         \A b \in Boxes : proofs[b] \subseteq proofs'[b], accounts \subseteq accounts',
         rowLock = d => rowLock' = d /\ (Cardinality(mails) < MailLimit => Cardinality(mails') < MailLimit),
         \A a \in Addresses : addressLock[a] = d => /\ addressLock'[a] = d
                                                    /\ ~ExistsAsEmailAnywhere(a) => ~ExistsAsEmailAnywhere(a)'
  PROVE  CallOK(d)'
<1>1. BoxOf(d) \in Boxes /\ Address(d) \in Addresses
  BY CallFacts, Zenon
<1>2. BoxOf(d)' = BoxOf(d) /\ Address(d)' = Address(d) /\ Registering(d)' = Registering(d)
  BY Zenon DEF BoxOf, Address, Registering
<1>3. call[d].pc = "commit" => addressLock'[Address(d)] = d /\ ~ExistsAsEmailAnywhere(Address(d))'
  BY <1>1, <1>2 DEF CallOK, ExistsAsEmailAnywhere
<1>. QED BY <1>1, <1>2, <1>3, Zenon DEF CallOK

LEMMA TicketsKept ==
  ASSUME TicketsOK, UNCHANGED ticket, \A b \in Boxes : proofs[b] \subseteq proofs'[b]
  PROVE  TicketsOK'
  BY TicketFacts, Zenon DEF TicketsOK

\* A ticket that is dropped, or made for the address of its box.
LEMMA TicketsChanged ==
  ASSUME TypeOK, TicketsOK, NEW t \in Tickets, NEW p \in {t[1][2], NoPayload},
         ticket' = [ticket EXCEPT ![t] = p] \/ ticket' = ticket, UNCHANGED proofs,
         t[1][1] = "register" /\ p # NoPayload => t[2] \in proofs[t[1]]
  PROVE  TicketsOK' /\ ticket' \in [Tickets -> Addresses \union {NoPayload}]
<1>1. t[1][2] \in Addresses
  BY TicketFacts, BoxFacts, Zenon
<1>. QED BY <1>1 DEF TypeOK, TicketsOK

LEMMA AccountsKept ==
  ASSUME TypeOK, AccountsOK, UNCHANGED <<accounts, uses>>, \A b \in Boxes : proofs[b] \subseteq proofs'[b]
  PROVE  AccountsOK'
<1>1. \A a \in LoginAddresses : proofs[<<"register", a>>] # {} => proofs'[<<"register", a>>] # {}
  BY BoxFacts, Zenon
<1>. QED BY <1>1, Zenon DEF AccountsOK

\* The sets that are counted are finite.
LEMMA Countable ==
  ASSUME TypeOK
  PROVE  /\ \A b \in Boxes : IsFiniteSet(proofs[b]) /\ Cardinality(proofs[b]) \in Nat
         /\ \A b : IsFiniteSet(Binders(b)) /\ Cardinality(Binders(b)) \in Nat
<1>1. IsFiniteSet(Numbers)
  BY FS_Interval DEF Numbers
<1>2. ASSUME NEW b \in Boxes PROVE IsFiniteSet(proofs[b]) /\ Cardinality(proofs[b]) \in Nat
  <2>1. proofs[b] \subseteq Numbers
    BY Zenon DEF TypeOK
  <2>. QED BY <1>1, <2>1, FS_Subset, FS_CardinalityType, Zenon
<1>3. ASSUME NEW b PROVE IsFiniteSet(Binders(b)) /\ Cardinality(Binders(b)) \in Nat
  <2>1. Binders(b) \subseteq Calls
    BY Zenon DEF Binders
  <2>. QED BY <2>1, FS_Subset, FS_CardinalityType, Zenon
<1>. QED BY <1>2, <1>3, Zenon

\* Nothing is lost by the bindings that end.
LEMMA CountKept ==
  ASSUME TypeOK, TypeOK', CountOK, UNCHANGED uses, \A b \in Boxes : proofs[b] \subseteq proofs'[b],
         \A b \in Boxes : b[1] # "register" => Binders(b)' \subseteq Binders(b)
  PROVE  CountOK'
<1>. SUFFICES ASSUME NEW a \in Addresses, NEW b, b = <<"bind", a>>
              PROVE  uses'[b] + Cardinality(Binders(b)') <= Cardinality(proofs'[b])
  BY Zenon DEF CountOK
<1>1. b \in Boxes /\ b[1] # "register"
  BY BoxFacts, Zenon
<1>2. IsFiniteSet(proofs'[b]) /\ Cardinality(proofs'[b]) \in Nat /\ Cardinality(proofs[b]) \in Nat
  <2>1. IsFiniteSet(Numbers)
    BY FS_Interval DEF Numbers
  <2>2. proofs'[b] \subseteq Numbers /\ proofs[b] \subseteq Numbers
    BY <1>1, Zenon DEF TypeOK
  <2>. QED BY <2>1, <2>2, FS_Subset, FS_CardinalityType, Zenon
<1>3. Cardinality(proofs[b]) <= Cardinality(proofs'[b])
  BY <1>1, <1>2, FS_Subset, Zenon
<1>4. IsFiniteSet(Binders(b)) /\ Cardinality(Binders(b)) \in Nat
  BY Countable, Zenon
<1>5. Cardinality(Binders(b)') <= Cardinality(Binders(b)) /\ Cardinality(Binders(b)') \in Nat
  BY <1>1, <1>4, FS_Subset, FS_CardinalityType, Zenon
<1>6. uses[b] + Cardinality(Binders(b)) <= Cardinality(proofs[b])
  BY Zenon DEF CountOK
<1>7. uses'[b] \in Nat /\ uses'[b] = uses[b]
  BY <1>1, Zenon DEF TypeOK
<1>. QED BY <1>2, <1>3, <1>4, <1>5, <1>6, <1>7

-----------------------------------------------------------------------------
(* Every step keeps the types. *)

\* The ways a call moves, and what a transaction releases.
LEMMA CallMoves ==
  ASSUME TypeOK, NEW c \in Calls
  PROVE  /\ \A pc \in Steps : To(c, pc) => call' \in [Calls -> Call] /\ call'[c] = [call[c] EXCEPT !.pc = pc]
         /\ Ends(c) => call' \in [Calls -> Call] /\ call'[c] = Idle
         /\ \A pc : To(c, pc) \/ Ends(c) => \A d \in Calls \ {c} : call'[d] = call[d]
<1>1. call \in [Calls -> Call] /\ call[c] \in Call
  BY Zenon DEF TypeOK
<1>2. ASSUME NEW pc \in Steps, To(c, pc)
      PROVE  call' \in [Calls -> Call] /\ call'[c] = [call[c] EXCEPT !.pc = pc]
  BY <1>1, <1>2, Zenon DEF To, Call
<1>3. ASSUME Ends(c) PROVE call' \in [Calls -> Call] /\ call'[c] = Idle
  BY <1>1, <1>3, IdleTyped, Zenon DEF Ends
<1>4. ASSUME NEW pc, To(c, pc) \/ Ends(c) PROVE \A d \in Calls \ {c} : call'[d] = call[d]
  BY <1>1, <1>4, Zenon DEF To, Ends
<1>. QED BY <1>2, <1>3, <1>4, Zenon

LEMMA ReleasedFacts ==
  ASSUME TypeOK, NEW c \in Calls, Released(c)
  PROVE  /\ assignLock' \in Calls \union {NoCall} /\ rowLock' \in Calls \union {NoCall}
         /\ addressLock' \in [Addresses -> Calls \union {NoCall}]
         /\ \A d \in Calls \ {c} : /\ rowLock = d => rowLock' = d
                                   /\ \A a \in Addresses : addressLock[a] = d => addressLock'[a] = d
  BY Zenon DEF TypeOK, Released

LEMMA FaultTyped == TypeOK /\ Fault => faults' \in 0..MaxFaults
  BY DEF TypeOK, Fault

LEMMA IssueFacts ==
  ASSUME TypeOK, CodesOK, NEW b \in Boxes, Issue(b), UNCHANGED proofs
  PROVE  /\ CodesOK' /\ issued[b] + 1 \in Numbers
         /\ code' \in [Boxes -> StoredCode(MaxCodes)] /\ tries' \in [Boxes -> Nat]
         /\ issued' \in [Boxes -> 0..MaxCodes]
<1>. DEFINE n == issued[b] + 1
            x == SaveVerificationCode(code[b], n)
<1>1. issued[b] \in 0..MaxCodes /\ issued[b] < MaxCodes /\ code[b] \in StoredCode(MaxCodes)
  BY Zenon DEF TypeOK, Issue
<1>2. n \in Numbers /\ n \in 0..MaxCodes
  BY <1>1 DEF Numbers
<1>3. x = [code |-> n, attempts |-> 0] /\ x \in StoredCode(MaxCodes)
  BY <1>2 DEF SaveVerificationCode, StoredCode
<1>4. /\ code' = [code EXCEPT ![b] = x] /\ issued' = [issued EXCEPT ![b] = n] /\ tries' = [tries EXCEPT ![b] = 0]
  BY Zenon DEF Issue, SaveVerificationCode
<1>. HIDE DEF x, n
<1>5. code' \in [Boxes -> StoredCode(MaxCodes)] /\ tries' \in [Boxes -> Nat] /\ issued' \in [Boxes -> 0..MaxCodes]
  BY <1>2, <1>3, <1>4, Zenon DEF TypeOK
<1>6. CodesOK'
  <2>1. x.code = n /\ x.attempts = 0
    BY <1>3, Zenon
  <2>2. n = issued[b] + 1
    BY Zenon DEF n
  <2>. QED BY <1>3, <1>4, <2>1, <2>2, CodesChanged, Zenon
<1>. QED BY <1>2, <1>5, <1>6, Zenon DEF n

\* The code of a mailbox is discarded, or expires.
LEMMA DropFacts ==
  ASSUME TypeOK, CodesOK, NEW b \in Boxes, NEW x \in ExpiredCodes(code[b]),
         code' = [code EXCEPT ![b] = x], tries' = [tries EXCEPT ![b] = 0], UNCHANGED <<issued, proofs>>
  PROVE  CodesOK' /\ code' \in [Boxes -> StoredCode(MaxCodes)] /\ tries' \in [Boxes -> Nat]
<1>1. code[b] \in StoredCode(MaxCodes)
  BY Zenon DEF TypeOK
<1>2. x \in StoredCode(MaxCodes) /\ x.code = 0
  BY <1>1, ScriptsTyped DEF ExpiredCodes, NoCode, StoredCode
<1>3. issued' = [issued EXCEPT ![b] = issued[b]]
  BY Zenon DEF TypeOK
<1>4. CodesOK'
  BY <1>2, <1>3, CodesChanged, Zenon
<1>. QED BY <1>2, <1>4, Zenon DEF TypeOK

-----------------------------------------------------------------------------
(* Steps that write no row. *)

LocksKept(d) ==
    /\ rowLock = d => rowLock' = d
    /\ \A a \in Addresses : addressLock[a] = d => addressLock'[a] = d

\* A step of d starts no binding that has a code behind it.
NoNewBinder(d) ==
    call'[d].pc \in {"matched", "checked", "tx", "insert", "commit"} /\ BoxOf(d)'[1] # "register" =>
        call[d].pc \in {"matched", "checked", "tx", "insert", "commit"} /\ BoxOf(d)' = BoxOf(d)

\* What such a step has to show: its own call, and that the others keep their locks.
LEMMA QuietInv ==
  ASSUME Inv, TypeOK', CodesOK', TicketsOK', UNCHANGED <<accounts, mails, uses>>,
         \A b \in Boxes : proofs[b] \subseteq proofs'[b],
         \A d \in Calls : (call'[d] = call[d] /\ LocksKept(d)) \/ (CallOK(d)' /\ NoNewBinder(d))
  PROVE  Inv'
<1>1. ASSUME NEW d \in Calls PROVE CallOK(d)'
  <2>1. CASE call'[d] = call[d] /\ LocksKept(d)
    BY <2>1, CallKept, Zenon DEF Inv, LocksKept, ExistsAsEmailAnywhere
  <2>. QED BY <2>1, Zenon
<1>2. ASSUME NEW b \in Boxes, b[1] # "register" PROVE Binders(b)' \subseteq Binders(b)
  BY <1>2, Zenon DEF Binders, NoNewBinder, BoxOf
<1>3. CountOK'
  BY <1>2, CountKept, Zenon DEF Inv
<1>4. AccountsOK'
  BY AccountsKept, Zenon DEF Inv
<1>. QED BY <1>1, <1>3, <1>4, Zenon DEF Inv, MailsOK, ProviderRegistrationIsBound

LEMMA EndedOK ==
  ASSUME NEW c \in Calls, call'[c] = Idle
  PROVE  CallOK(c)' /\ NoNewBinder(c)
<1>1. call'[c].pc = "idle"
  BY IdleTyped, Zenon
<1>. QED BY <1>1, Zenon DEF CallOK, NoNewBinder

\* The end of a call, with or without a transaction to roll back.
LEMMA EndInv ==
  ASSUME Inv, NEW c \in Calls, Ends(c), TypeOK', CodesOK', TicketsOK',
         UNCHANGED <<accounts, mails, uses, proofs>>, Released(c) \/ UNCHANGED locks
  PROVE  Inv'
<1>1. TypeOK
  BY Zenon DEF Inv
<1>2. call'[c] = Idle /\ \A d \in Calls \ {c} : call'[d] = call[d]
  BY <1>1, CallMoves, Zenon
<1>3. \A d \in Calls \ {c} : LocksKept(d)
  BY <1>1, ReleasedFacts, Zenon DEF LocksKept, locks
<1>. QED BY <1>2, <1>3, EndedOK, QuietInv, Zenon

LEMMA RollbackInv == ASSUME Inv, NEW c \in Calls, Rollback(c) PROVE Inv'
<1>1. TypeOK'
  BY CallMoves, ReleasedFacts, Zenon DEF Inv, TypeOK, Rollback, stores, rows, history
<1>2. CodesOK' /\ TicketsOK'
  BY CodesKept, TicketsKept, Zenon DEF Inv, Rollback, stores, history
<1>. QED BY <1>1, <1>2, EndInv, Zenon DEF Rollback, rows, history

LEMMA SendRegisterCodeInv ==
  ASSUME Inv, NEW a \in LoginAddresses, SendRegisterCode(a) PROVE Inv'
<1>1. /\ CodesOK' /\ code' \in [Boxes -> StoredCode(MaxCodes)] /\ tries' \in [Boxes -> Nat]
      /\ issued' \in [Boxes -> 0..MaxCodes]
  BY BoxFacts, IssueFacts, Zenon DEF Inv, SendRegisterCode
<1>2. TypeOK'
  BY <1>1, Zenon DEF Inv, TypeOK, SendRegisterCode, rows, locks
<1>3. TicketsOK'
  BY TicketsKept, Zenon DEF Inv, SendRegisterCode
<1>. QED BY <1>1, <1>2, <1>3, QuietInv, Zenon DEF SendRegisterCode, rows, locks, LocksKept

LEMMA BindEmailSendCodeInv ==
  ASSUME Inv, NEW a \in Addresses, BindEmailSendCode(a) PROVE Inv'
<1>. DEFINE b == <<"bind", a>>
            t == <<b, issued[b] + 1>>
<1>0. b \in Boxes /\ Issue(b) /\ UNCHANGED <<parked, rows, call, locks, proofs, uses>>
  BY BoxFacts, Zenon DEF BindEmailSendCode
<1>1. /\ CodesOK' /\ code' \in [Boxes -> StoredCode(MaxCodes)] /\ tries' \in [Boxes -> Nat]
      /\ issued' \in [Boxes -> 0..MaxCodes] /\ issued[b] + 1 \in Numbers
  BY <1>0, IssueFacts, Zenon DEF Inv
<1>2. t \in Tickets /\ t[1][1] # "register" /\ t[1][2] = a
  BY <1>0, <1>1, TicketFacts, Zenon
<1>3. ticket' = [ticket EXCEPT ![t] = a] \/ ticket' = ticket
  BY Zenon DEF BindEmailSendCode, SetOneTime
<1>. HIDE DEF t
<1>4. TicketsOK' /\ ticket' \in [Tickets -> Addresses \union {NoPayload}]
  BY <1>0, <1>2, <1>3, TicketsChanged, Zenon DEF Inv
<1>5. faults' \in 0..MaxFaults
  BY FaultTyped, Zenon DEF Inv, TypeOK, BindEmailSendCode
<1>6. TypeOK'
  BY <1>0, <1>1, <1>4, <1>5, Zenon DEF Inv, TypeOK, rows, locks
<1>. QED BY <1>0, <1>1, <1>4, <1>6, QuietInv, Zenon DEF rows, locks, LocksKept

LEMMA ExpireInv ==
  ASSUME Inv, (\E b \in Boxes : ExpireCode(b)) \/ (\E t \in Tickets : ExpireTicket(t)) PROVE Inv'
<1>1. ASSUME NEW b \in Boxes, ExpireCode(b) PROVE Inv'
  <2>1. PICK x \in ExpiredCodes(code[b]) : code' = [code EXCEPT ![b] = x]
    BY <1>1, Zenon DEF ExpireCode
  <2>2. CodesOK' /\ code' \in [Boxes -> StoredCode(MaxCodes)] /\ tries' \in [Boxes -> Nat]
    BY <1>1, <2>1, DropFacts, Zenon DEF Inv, ExpireCode
  <2>3. TypeOK'
    BY <1>1, <2>2, Zenon DEF Inv, TypeOK, ExpireCode, rows, locks
  <2>4. TicketsOK'
    BY <1>1, TicketsKept, Zenon DEF Inv, ExpireCode
  <2>. QED BY <1>1, <2>2, <2>3, <2>4, QuietInv, Zenon DEF ExpireCode, rows, locks, LocksKept
<1>2. ASSUME NEW t \in Tickets, ExpireTicket(t) PROVE Inv'
  <2>1. TicketsOK' /\ ticket' \in [Tickets -> Addresses \union {NoPayload}]
    BY <1>2, TicketsChanged, Zenon DEF Inv, ExpireTicket, history
  <2>2. TypeOK'
    BY <1>2, <2>1, Zenon DEF Inv, TypeOK, ExpireTicket, rows, locks, history
  <2>3. CodesOK'
    BY <1>2, CodesKept, Zenon DEF Inv, ExpireTicket, history
  <2>. QED BY <1>2, <2>1, <2>2, <2>3, QuietInv, Zenon DEF ExpireTicket, rows, locks, history, LocksKept
<1>. QED BY <1>1, <1>2, Zenon

\* A call that moves on keeps its ticket.
LEMMA MovedFacts ==
  ASSUME TypeOK, NEW c \in Calls, NEW pc \in Steps, To(c, pc)
  PROVE  /\ call' \in [Calls -> Call] /\ call'[c].pc = pc /\ \A d \in Calls \ {c} : call'[d] = call[d]
         /\ BoxOf(c)' = BoxOf(c) /\ Address(c)' = Address(c) /\ Registering(c)' = Registering(c)
         /\ call'[c].ticket = call[c].ticket /\ call'[c].via = call[c].via /\ call'[c].identity = call[c].identity
<1>1. call' \in [Calls -> Call] /\ call'[c] = [call[c] EXCEPT !.pc = pc] /\ \A d \in Calls \ {c} : call'[d] = call[d]
  BY CallMoves, Zenon
<1>2. /\ call'[c].pc = pc /\ call'[c].ticket = call[c].ticket
      /\ call'[c].via = call[c].via /\ call'[c].identity = call[c].identity
  BY <1>1 DEF TypeOK, Call
<1>. QED BY <1>1, <1>2, Zenon DEF BoxOf, Address, Registering

LEMMA VerifyRegisterCodeInv ==
  ASSUME Inv, NEW c \in Calls, NEW a \in LoginAddresses, NEW v \in 0..MaxCodes, VerifyRegisterCode(c, a, v)
  PROVE  Inv'
<1>. DEFINE b == <<"register", a>>
            t == <<b, v>>
<1>0. /\ b \in Boxes /\ VerifyCode(b, v) /\ UNCHANGED <<ticket, parked, rows, locks, faults, issued, uses>>
      /\ TypeOK /\ CodesOK /\ TicketsOK
  BY BoxFacts, Zenon DEF VerifyRegisterCode, Inv
<1>1. /\ CodesOK'
      /\ code' \in [Boxes -> StoredCode(MaxCodes)] /\ tries' \in [Boxes -> Nat]
      /\ proofs' \in [Boxes -> SUBSET Numbers] /\ \A d \in Boxes : proofs[d] \subseteq proofs'[d]
      /\ Matches(b, v) => v \in Numbers /\ v \notin proofs[b] /\ proofs' = [proofs EXCEPT ![b] = @ \union {v}]
  BY <1>0, CodesVerified, Zenon
<1>2. TicketsOK'
  BY <1>0, <1>1, TicketsKept, Zenon
<1>3. CASE Matches(b, v)
  <2>1. t \in Tickets /\ v \in proofs'[b]
    BY <1>0, <1>1, <1>3, TicketFacts DEF TypeOK
  <2>2. /\ call' = [call EXCEPT ![c].pc = "ticket", ![c].ticket = t]
        /\ \A d \in Calls \ {c} : call'[d] = call[d]
    BY <1>0, <1>3, Zenon DEF VerifyRegisterCode, TypeOK
  <2>. HIDE DEF t
  <2>3. call[c] \in Call
    BY <1>0, Zenon DEF TypeOK
  <2>4. /\ call'[c] = [call[c] EXCEPT !.pc = "ticket", !.ticket = t] /\ DOMAIN call' = Calls
        /\ call' = [d \in Calls |-> call'[d]]
    BY <1>0, <2>2, Zenon DEF TypeOK
  <2>5. call'[c] \in Call /\ call'[c].pc = "ticket" /\ call'[c].ticket = t
    BY <2>1, <2>3, <2>4, Zenon DEF Call, Steps
  <2>6. call' \in [Calls -> Call]
    BY <1>0, <2>2, <2>4, <2>5 DEF TypeOK
  <2>7. CallOK(c)' /\ NoNewBinder(c)
    BY <2>1, <2>5 DEF t, CallOK, NoNewBinder, BoxOf, Registering
  <2>8. TypeOK'
    BY <1>0, <1>1, <2>6, Zenon DEF TypeOK, rows, locks
  <2>. QED BY <1>0, <1>1, <1>2, <2>2, <2>7, <2>8, QuietInv, Zenon DEF rows, locks, LocksKept
<1>4. CASE ~Matches(b, v)
  <2>1. UNCHANGED call
    BY <1>4, Zenon DEF VerifyRegisterCode
  <2>2. TypeOK'
    BY <1>0, <1>1, <2>1, Zenon DEF TypeOK, rows, locks
  <2>. QED BY <1>0, <1>1, <1>2, <2>1, <2>2, QuietInv, Zenon DEF rows, locks, LocksKept
<1>. QED BY <1>3, <1>4, Zenon

LEMMA IssueRegisterTicketInv ==
  ASSUME Inv, NEW c \in Calls, IssueRegisterTicket(c) PROVE Inv'
<1>0. /\ TypeOK /\ CodesOK /\ TicketsOK /\ Ends(c) /\ UNCHANGED <<parked, rows, locks, issued, proofs, uses>>
      /\ call' \in [Calls -> Call]
  BY CallMoves, Zenon DEF Inv, IssueRegisterTicket
<1>1. call[c].ticket \in Tickets /\ BoxOf(c) \in Boxes /\ call[c].ticket[2] \in proofs[BoxOf(c)]
  BY <1>0, CallFacts, Zenon DEF Inv, CallOK, IssueRegisterTicket
<1>2. CASE ticket' = SetOneTime(ticket, call[c].ticket, Address(c)) /\ UNCHANGED <<code, faults, tries>>
  <2>1. TicketsOK' /\ ticket' \in [Tickets -> Addresses \union {NoPayload}]
    BY <1>0, <1>1, <1>2, TicketsChanged, Zenon DEF SetOneTime, BoxOf, Address
  <2>2. CodesOK'
    BY <1>0, <1>2, CodesKept, Zenon
  <2>3. TypeOK'
    BY <1>0, <1>2, <2>1, Zenon DEF TypeOK, rows, locks
  <2>. QED BY <1>0, <2>1, <2>2, <2>3, EndInv, Zenon DEF rows
<1>3. CASE /\ Fault /\ UNCHANGED ticket
           /\ code' = [code EXCEPT ![BoxOf(c)] = DiscardVerificationCode(@)]
           /\ tries' = [tries EXCEPT ![BoxOf(c)] = 0]
  <2>1. NoCode \in ExpiredCodes(code[BoxOf(c)]) /\ code' = [code EXCEPT ![BoxOf(c)] = NoCode]
    BY <1>3, Zenon DEF ExpiredCodes, DiscardVerificationCode
  <2>2. CodesOK' /\ code' \in [Boxes -> StoredCode(MaxCodes)] /\ tries' \in [Boxes -> Nat]
    BY <1>0, <1>1, <1>3, <2>1, DropFacts, Zenon
  <2>3. TypeOK'
    BY <1>0, <1>3, <2>2, FaultTyped, Zenon DEF TypeOK, rows, locks
  <2>4. TicketsOK'
    BY <1>0, <1>3, TicketsKept, Zenon
  <2>. QED BY <1>0, <2>2, <2>3, <2>4, EndInv, Zenon DEF rows
<1>. QED BY <1>2, <1>3, Zenon DEF IssueRegisterTicket

LEMMA ConsumeRegisterTicketInv ==
  ASSUME Inv, NEW c \in Calls, ConsumeRegisterTicket(c) PROVE Inv'
<1>0. /\ TypeOK /\ CodesOK /\ TicketsOK /\ Ends(c) /\ UNCHANGED <<code, parked, rows, locks, history>>
      /\ call' \in [Calls -> Call] /\ call[c].ticket \in Tickets
  BY CallMoves, CallFacts, Zenon DEF Inv, ConsumeRegisterTicket
<1>1. ticket' = [ticket EXCEPT ![call[c].ticket] = NoPayload] \/ ticket' = ticket
  BY Zenon DEF ConsumeRegisterTicket, DeleteOneTime
<1>2. TicketsOK' /\ ticket' \in [Tickets -> Addresses \union {NoPayload}]
  BY <1>0, <1>1, TicketsChanged, Zenon DEF history
<1>3. faults' \in 0..MaxFaults
  BY <1>0, FaultTyped, Zenon DEF ConsumeRegisterTicket, TypeOK
<1>4. TypeOK'
  BY <1>0, <1>2, <1>3, Zenon DEF TypeOK, rows, locks, history
<1>5. CodesOK'
  BY <1>0, CodesKept, Zenon DEF history
<1>. QED BY <1>0, <1>2, <1>4, <1>5, EndInv, Zenon DEF rows, history

LEMMA RegisterInv ==
  ASSUME Inv, NEW c \in Calls, NEW t \in Tickets, NEW via \in BOOLEAN, Register(c, t, via)
  PROVE  Inv'
<1>0. /\ TypeOK /\ CodesOK /\ TicketsOK /\ UNCHANGED <<stores, rows, locks, faults, history>>
      /\ t[1][1] = "register" /\ ticket[t] # NoPayload
  BY Zenon DEF Inv, Register, PeekOneTime
<1>. DEFINE k == [pc |-> IF via THEN "peeked" ELSE "hash", ticket |-> t, via |-> via, identity |-> FALSE]
<1>1. call' = [call EXCEPT ![c] = k] /\ k \in Call
  BY Zenon DEF Register, Call, Steps
<1>. HIDE DEF k
<1>2. call' \in [Calls -> Call] /\ call'[c] = k /\ \A d \in Calls \ {c} : call'[d] = call[d]
  BY <1>0, <1>1, Zenon DEF TypeOK
<1>3. t[2] \in proofs'[t[1]]
  BY <1>0, Zenon DEF TicketsOK, history
<1>4. CallOK(c)' /\ NoNewBinder(c)
  BY <1>0, <1>2, <1>3 DEF CallOK, NoNewBinder, BoxOf, Registering, k
<1>5. TypeOK'
  BY <1>0, <1>2, Zenon DEF TypeOK, stores, rows, locks, history
<1>6. CodesOK' /\ TicketsOK'
  BY <1>0, CodesKept, TicketsKept, Zenon DEF stores, history
<1>. QED BY <1>0, <1>2, <1>4, <1>5, <1>6, QuietInv, Zenon DEF rows, locks, history, LocksKept

LEMMA ResolveRegistrationIdentityInv ==
  ASSUME Inv, NEW c \in Calls, ResolveRegistrationIdentity(c) PROVE Inv'
<1>0. /\ TypeOK /\ CodesOK /\ TicketsOK /\ UNCHANGED <<code, ticket, rows, locks, history>> /\ call[c] \in Call
      /\ call[c].pc = "peeked" /\ Registering(c) /\ parked' \in BOOLEAN /\ faults' \in 0..MaxFaults
  BY FaultTyped, Zenon DEF Inv, ResolveRegistrationIdentity, TypeOK
<1>1. CodesOK' /\ TicketsOK'
  BY <1>0, CodesKept, TicketsKept, Zenon DEF history
<1>2. CASE Ends(c)
  <2>1. TypeOK'
    BY <1>0, <1>2, CallMoves, Zenon DEF TypeOK, rows, locks, history
  <2>. QED BY <1>0, <1>1, <1>2, <2>1, EndInv, Zenon DEF rows, history
<1>3. CASE call' = [call EXCEPT ![c].pc = "hash", ![c].identity = TRUE]
  <2>1. /\ call'[c] = [call[c] EXCEPT !.pc = "hash", !.identity = TRUE]
        /\ \A d \in Calls \ {c} : call'[d] = call[d]
    BY <1>0, <1>3, Zenon DEF TypeOK
  <2>2. call'[c] \in Call /\ call'[c].pc = "hash" /\ call'[c].identity /\ call'[c].ticket = call[c].ticket
    BY <1>0, <2>1, Zenon DEF Call, Steps
  <2>3. call' \in [Calls -> Call]
    BY <1>0, <1>3, <2>1, <2>2, Zenon DEF TypeOK
  <2>4. TypeOK'
    BY <1>0, <2>3, Zenon DEF TypeOK, rows, locks, history
  <2>5. CallOK(c)' /\ NoNewBinder(c)
    BY <1>0, <2>2, Zenon DEF Inv, CallOK, NoNewBinder, BoxOf, Registering, history
  <2>. QED BY <1>0, <1>1, <2>1, <2>4, <2>5, QuietInv, Zenon DEF rows, locks, history, LocksKept
<1>. QED BY <1>2, <1>3, Zenon DEF ResolveRegistrationIdentity

LEMMA LockIdentityAssignmentInv ==
  ASSUME Inv, NEW c \in Calls, LockIdentityAssignment(c) PROVE Inv'
<1>1. CASE Rollback(c)
  BY <1>1, RollbackInv, Zenon
<1>2. CASE assignLock' = c /\ To(c, "insert") /\ UNCHANGED <<stores, rows, rowLock, addressLock, faults, history>>
  <2>1. TypeOK /\ CodesOK /\ TicketsOK /\ CallOK(c) /\ call[c].pc = "hash" /\ "insert" \in Steps
    BY Zenon DEF Inv, LockIdentityAssignment, Steps
  <2>2. /\ call' \in [Calls -> Call] /\ call'[c].pc = "insert" /\ \A d \in Calls \ {c} : call'[d] = call[d]
        /\ BoxOf(c)' = BoxOf(c) /\ Registering(c)' = Registering(c)
        /\ call'[c].ticket = call[c].ticket /\ call'[c].via = call[c].via /\ call'[c].identity = call[c].identity
    BY <1>2, <2>1, MovedFacts, Zenon
  <2>3. TypeOK'
    BY <1>2, <2>1, <2>2, Zenon DEF TypeOK, stores, rows, history
  <2>4. CodesOK' /\ TicketsOK'
    BY <1>2, <2>1, CodesKept, TicketsKept, Zenon DEF stores, history
  <2>5. CallOK(c)' /\ NoNewBinder(c)
    BY <1>2, <2>1, <2>2, Zenon DEF CallOK, NoNewBinder, Registering, history
  <2>. QED BY <1>2, <2>2, <2>3, <2>4, <2>5, QuietInv, Zenon DEF rows, history, LocksKept
<1>. QED BY <1>1, <1>2, Zenon DEF LockIdentityAssignment

\* Both inserts: the lock of the address, and nobody has the address.
LEMMA InsertInv ==
  ASSUME Inv, NEW c \in Calls, call[c].pc = "insert", ~ExistsAsEmailAnywhere(Address(c)),
         AddressLockTaken(c), To(c, "commit"), UNCHANGED <<stores, rows, faults, history>>
  PROVE  Inv'
<1>1. TypeOK /\ CodesOK /\ TicketsOK /\ CallOK(c) /\ "commit" \in Steps /\ Address(c) \in Addresses
  BY CallFacts, Zenon DEF Inv, Steps
<1>2. /\ call' \in [Calls -> Call] /\ call'[c].pc = "commit" /\ \A d \in Calls \ {c} : call'[d] = call[d]
      /\ BoxOf(c)' = BoxOf(c) /\ Registering(c)' = Registering(c) /\ Address(c)' = Address(c)
      /\ call'[c].ticket = call[c].ticket /\ call'[c].via = call[c].via /\ call'[c].identity = call[c].identity
  BY <1>1, MovedFacts, Zenon
<1>3. /\ UNCHANGED <<assignLock, rowLock>> /\ addressLock' \in [Addresses -> Calls \union {NoCall}]
      /\ addressLock'[Address(c)] = c /\ \A d \in Calls \ {c} : LocksKept(d)
  BY <1>1, Zenon DEF AddressLockTaken, TypeOK, LocksKept
<1>4. TypeOK'
  BY <1>1, <1>2, <1>3, Zenon DEF TypeOK, stores, rows, history
<1>5. CodesOK' /\ TicketsOK'
  BY <1>1, CodesKept, TicketsKept, Zenon DEF stores, history
<1>6. ~ExistsAsEmailAnywhere(Address(c))'
  BY <1>2, Zenon DEF ExistsAsEmailAnywhere, rows
<1>7. CallOK(c)'
  BY <1>1, <1>2, <1>3, <1>6, Zenon DEF CallOK, rows, history
<1>8. NoNewBinder(c)
  BY <1>2, Zenon DEF NoNewBinder
<1>. QED BY <1>2, <1>3, <1>4, <1>5, <1>7, <1>8, QuietInv, Zenon DEF rows, history

LEMMA InsertUserInv == ASSUME Inv, NEW c \in Calls, InsertUser(c) PROVE Inv'
  BY InsertInv, RollbackInv, Zenon DEF InsertUser

LEMMA InsertIdentityInv == ASSUME Inv, NEW c \in Calls, InsertIdentity(c) PROVE Inv'
  BY InsertInv, RollbackInv, Zenon DEF InsertIdentity

LEMMA BindEmailVerifyInv ==
  ASSUME Inv, NEW c \in Calls, NEW t \in Tickets, BindEmailVerify(c, t) PROVE Inv'
<1>0. /\ TypeOK /\ CodesOK /\ TicketsOK /\ UNCHANGED <<stores, rows, locks, faults, history>>
      /\ t[1][1] = "bind" /\ call' = [call EXCEPT ![c].pc = "peeked", ![c].ticket = t]
  BY Zenon DEF Inv, BindEmailVerify
<1>1. /\ call[c] \in Call /\ call'[c] = [call[c] EXCEPT !.pc = "peeked", !.ticket = t]
      /\ \A d \in Calls \ {c} : call'[d] = call[d]
  BY <1>0, Zenon DEF TypeOK
<1>2. call'[c] \in Call /\ call'[c].pc = "peeked" /\ call'[c].ticket = t
  BY <1>1, Zenon DEF Call, Steps
<1>3. call' \in [Calls -> Call]
  BY <1>0, <1>1, <1>2, Zenon DEF TypeOK
<1>4. TypeOK'
  BY <1>0, <1>3, Zenon DEF TypeOK, stores, rows, locks, history
<1>5. CodesOK' /\ TicketsOK'
  BY <1>0, CodesKept, TicketsKept, Zenon DEF stores, history
<1>6. CallOK(c)' /\ NoNewBinder(c)
  BY <1>0, <1>2, Zenon DEF CallOK, NoNewBinder, BoxOf, Registering
<1>. QED BY <1>0, <1>1, <1>4, <1>5, <1>6, QuietInv, Zenon DEF rows, locks, history, LocksKept

LEMMA ConsumeBindTicketInv ==
  ASSUME Inv, NEW c \in Calls, ConsumeBindTicket(c) PROVE Inv'
<1>0. /\ TypeOK /\ CodesOK /\ TicketsOK /\ CallOK(c) /\ UNCHANGED <<parked, rows, locks, issued, proofs, uses>>
      /\ call[c].pc = "matched" /\ "checked" \in Steps
  BY Zenon DEF Inv, ConsumeBindTicket, Steps
<1>1. call[c].ticket \in Tickets /\ BoxOf(c) \in Boxes
  BY <1>0, CallFacts, Zenon
<1>2. CASE /\ ticket' = GetDelOneTime(ticket, call[c].ticket)
           /\ To(c, "checked") /\ UNCHANGED <<code, faults, tries>>
  <2>1. /\ call' \in [Calls -> Call] /\ call'[c].pc = "checked" /\ \A d \in Calls \ {c} : call'[d] = call[d]
        /\ BoxOf(c)' = BoxOf(c) /\ Registering(c)' = Registering(c)
    BY <1>0, <1>2, MovedFacts, Zenon
  <2>2. TicketsOK' /\ ticket' \in [Tickets -> Addresses \union {NoPayload}]
    BY <1>0, <1>1, <1>2, TicketsChanged, Zenon DEF GetDelOneTime
  <2>3. TypeOK'
    BY <1>0, <1>2, <2>1, <2>2, Zenon DEF TypeOK, rows, locks
  <2>4. CodesOK'
    BY <1>0, <1>2, CodesKept, Zenon
  <2>5. CallOK(c)' /\ NoNewBinder(c)
    BY <1>0, <2>1, Zenon DEF CallOK, NoNewBinder
  <2>. QED BY <1>0, <2>1, <2>2, <2>3, <2>4, <2>5, QuietInv, Zenon DEF rows, locks, LocksKept
<1>3. CASE BindLost(c) /\ UNCHANGED ticket /\ (Fault \/ UNCHANGED faults)
  <2>1. NoCode \in ExpiredCodes(code[BoxOf(c)]) /\ code' = [code EXCEPT ![BoxOf(c)] = NoCode]
    BY <1>3, Zenon DEF ExpiredCodes, DiscardVerificationCode, BindLost
  <2>2. CodesOK' /\ code' \in [Boxes -> StoredCode(MaxCodes)] /\ tries' \in [Boxes -> Nat]
    BY <1>0, <1>1, <1>3, <2>1, DropFacts, Zenon DEF BindLost
  <2>3. call' \in [Calls -> Call] /\ faults' \in 0..MaxFaults
    BY <1>0, <1>3, FaultTyped, CallMoves, Zenon DEF BindLost, TypeOK
  <2>4. TypeOK'
    BY <1>0, <1>3, <2>2, <2>3, Zenon DEF TypeOK, rows, locks
  <2>5. TicketsOK'
    BY <1>0, <1>3, TicketsKept, Zenon
  <2>. QED BY <1>0, <1>3, <2>2, <2>4, <2>5, EndInv, Zenon DEF rows, BindLost
<1>. QED BY <1>2, <1>3, Zenon DEF ConsumeBindTicket

LEMMA BindChecksAddressInv ==
  ASSUME Inv, NEW c \in Calls, BindChecksAddress(c) PROVE Inv'
<1>0. /\ TypeOK /\ CodesOK /\ TicketsOK /\ CallOK(c) /\ UNCHANGED <<stores, rows, locks, faults, history>>
      /\ call[c].pc = "checked" /\ "tx" \in Steps
  BY Zenon DEF Inv, BindChecksAddress, Steps
<1>1. CodesOK' /\ TicketsOK'
  BY <1>0, CodesKept, TicketsKept, Zenon DEF stores, history
<1>2. CASE Ends(c)
  <2>1. TypeOK'
    BY <1>0, <1>2, CallMoves, Zenon DEF TypeOK, stores, rows, locks, history
  <2>. QED BY <1>0, <1>1, <1>2, <2>1, EndInv, Zenon DEF rows, history
<1>3. CASE To(c, "tx")
  <2>1. /\ call' \in [Calls -> Call] /\ call'[c].pc = "tx" /\ \A d \in Calls \ {c} : call'[d] = call[d]
        /\ BoxOf(c)' = BoxOf(c) /\ Registering(c)' = Registering(c)
    BY <1>0, <1>3, MovedFacts, Zenon
  <2>2. TypeOK'
    BY <1>0, <2>1, Zenon DEF TypeOK, stores, rows, locks, history
  <2>3. CallOK(c)' /\ NoNewBinder(c)
    BY <1>0, <2>1, Zenon DEF CallOK, NoNewBinder
  <2>. QED BY <1>0, <1>1, <2>1, <2>2, <2>3, QuietInv, Zenon DEF rows, locks, history, LocksKept
<1>. QED BY <1>2, <1>3, Zenon DEF BindChecksAddress

LEMMA CreateWithinLimitInv ==
  ASSUME Inv, NEW c \in Calls, CreateWithinLimit(c) PROVE Inv'
<1>0. /\ TypeOK /\ CodesOK /\ TicketsOK /\ CallOK(c) /\ call[c].pc = "tx" /\ "insert" \in Steps
      /\ UNCHANGED <<stores, rows, assignLock, addressLock, faults, history>> /\ rowLock = NoCall
  BY Zenon DEF Inv, CreateWithinLimit, Steps
<1>1. CodesOK' /\ TicketsOK'
  BY <1>0, CodesKept, TicketsKept, Zenon DEF stores, history
<1>2. CASE Ends(c) /\ UNCHANGED rowLock
  <2>1. TypeOK'
    BY <1>0, <1>2, CallMoves, Zenon DEF TypeOK, stores, rows, history
  <2>. QED BY <1>0, <1>1, <1>2, <2>1, EndInv, Zenon DEF rows, locks, history
<1>3. CASE Cardinality(mails) < MailLimit /\ rowLock' = c /\ To(c, "insert")
  <2>1. /\ call' \in [Calls -> Call] /\ call'[c].pc = "insert" /\ \A d \in Calls \ {c} : call'[d] = call[d]
        /\ BoxOf(c)' = BoxOf(c) /\ Registering(c)' = Registering(c)
    BY <1>0, <1>3, MovedFacts, Zenon
  <2>2. TypeOK'
    BY <1>0, <1>3, <2>1, Zenon DEF TypeOK, stores, rows, history
  <2>3. CallOK(c)' /\ NoNewBinder(c)
    BY <1>0, <1>3, <2>1, Zenon DEF CallOK, NoNewBinder, rows
  <2>. QED BY <1>0, <1>1, <2>1, <2>2, <2>3, QuietInv, Zenon DEF rows, history, LocksKept
<1>. QED BY <1>2, <1>3, Zenon DEF CreateWithinLimit

LEMMA CallDiesInv == ASSUME Inv, NEW c \in Calls, CallDies(c) PROVE Inv'
<1>0. TypeOK /\ CodesOK /\ TicketsOK /\ Released(c) /\ Ends(c) /\ UNCHANGED <<stores, rows, history>> /\ Fault
  BY Zenon DEF Inv, CallDies
<1>1. CodesOK' /\ TicketsOK'
  BY <1>0, CodesKept, TicketsKept, Zenon DEF stores, history
<1>2. TypeOK'
  BY <1>0, CallMoves, ReleasedFacts, FaultTyped, Zenon DEF TypeOK, stores, rows, history
<1>. QED BY <1>0, <1>1, <1>2, EndInv, Zenon DEF rows, history

LEMMA BindProviderInv == ASSUME Inv, BindProvider PROVE Inv'
<1>1. CodesOK' /\ TicketsOK'
  BY CodesKept, TicketsKept, Zenon DEF Inv, BindProvider, stores, history
<1>2. TypeOK'
  BY Zenon DEF Inv, TypeOK, BindProvider, stores, locks, history
<1>. QED BY <1>1, <1>2, QuietInv, Zenon DEF BindProvider, locks, history, LocksKept

-----------------------------------------------------------------------------
(* Steps that accept a code of a binding, or write a row. *)

\* The mailbox b0 counts one code more, the call c being a binding more.
LEMMA BindVerifyCodeInv ==
  ASSUME Inv, NEW c \in Calls, NEW v \in 0..MaxCodes, BindVerifyCode(c, v) PROVE Inv'
<1>. DEFINE b0 == BoxOf(c)
<1>0. /\ TypeOK /\ CodesOK /\ TicketsOK /\ CallOK(c) /\ CountOK /\ call[c].pc = "peeked" /\ ~Registering(c)
      /\ VerifyCode(b0, v) /\ UNCHANGED <<ticket, parked, rows, locks, faults, issued, uses>> /\ "matched" \in Steps
  BY Zenon DEF Inv, BindVerifyCode, Steps
<1>1. b0 \in Boxes
  BY <1>0, CallFacts, Zenon
<1>2. /\ CodesOK'
      /\ code' \in [Boxes -> StoredCode(MaxCodes)] /\ tries' \in [Boxes -> Nat]
      /\ proofs' \in [Boxes -> SUBSET Numbers] /\ \A d \in Boxes : proofs[d] \subseteq proofs'[d]
      /\ Matches(b0, v) => v \in Numbers /\ v \notin proofs[b0] /\ proofs' = [proofs EXCEPT ![b0] = @ \union {v}]
      /\ ~Matches(b0, v) => proofs' = proofs
  BY <1>0, <1>1, CodesVerified, Zenon
<1>3. TicketsOK'
  BY <1>0, <1>2, TicketsKept, Zenon
<1>4. CASE ~Matches(b0, v)
  <2>1. Ends(c)
    BY <1>4, Zenon DEF BindVerifyCode
  <2>2. TypeOK'
    BY <1>0, <1>2, <2>1, CallMoves, Zenon DEF TypeOK, rows, locks
  <2>. QED BY <1>0, <1>2, <1>3, <1>4, <2>1, <2>2, EndInv, Zenon DEF rows
<1>5. CASE Matches(b0, v)
  <2>1. /\ call' \in [Calls -> Call] /\ call'[c].pc = "matched" /\ \A d \in Calls \ {c} : call'[d] = call[d]
        /\ BoxOf(c)' = BoxOf(c) /\ Registering(c)' = Registering(c)
    BY <1>0, <1>5, MovedFacts, Zenon DEF BindVerifyCode
  <2>2. TypeOK'
    BY <1>0, <1>2, <2>1, Zenon DEF TypeOK, rows, locks
  <2>3. ASSUME NEW d \in Calls PROVE CallOK(d)'
    <3>1. CASE d = c
      BY <1>0, <2>1, <3>1, Zenon DEF CallOK
    <3>2. CASE d # c
      BY <1>0, <1>2, <2>1, <3>2, CallKept, Zenon DEF Inv, rows, locks, ExistsAsEmailAnywhere
    <3>. QED BY <3>1, <3>2, Zenon
  <2>4. AccountsOK'
    BY <1>0, <1>2, AccountsKept, Zenon DEF Inv, rows
  <2>5. ASSUME NEW a \in Addresses, NEW b, b = <<"bind", a>>
        PROVE  uses'[b] + Cardinality(Binders(b)') <= Cardinality(proofs'[b])
    <3>1. b \in Boxes /\ uses[b] \in Nat /\ uses'[b] = uses[b]
      BY <1>0, <2>5, BoxFacts, Zenon DEF TypeOK
    <3>2. /\ IsFiniteSet(proofs[b]) /\ Cardinality(proofs[b]) \in Nat
          /\ IsFiniteSet(Binders(b)) /\ Cardinality(Binders(b)) \in Nat
      BY <1>0, <3>1, Countable, Zenon
    <3>3. uses[b] + Cardinality(Binders(b)) <= Cardinality(proofs[b])
      BY <1>0, <2>5, Zenon DEF CountOK
    <3>4. CASE b # b0
      <4>1. Binders(b)' = Binders(b)
        BY <2>1, <3>4 DEF Binders, BoxOf
      <4>2. proofs'[b] = proofs[b]
        BY <1>0, <1>1, <1>2, <1>5, <3>1, <3>4, Zenon DEF TypeOK
      <4>. QED BY <3>1, <3>3, <4>1, <4>2, Zenon
    <3>5. CASE b = b0
      <4>1. Binders(b)' = Binders(b) \union {c} /\ c \notin Binders(b)
        BY <1>0, <2>1, <3>5 DEF Binders, BoxOf
      <4>2. proofs'[b] = proofs[b] \union {v} /\ v \notin proofs[b]
        BY <1>0, <1>1, <1>2, <1>5, <3>5, Zenon DEF TypeOK
      <4>3. Cardinality(Binders(b)') = Cardinality(Binders(b)) + 1
        BY <3>2, <4>1, FS_AddElement, Zenon
      <4>4. Cardinality(proofs'[b]) = Cardinality(proofs[b]) + 1
        BY <3>2, <4>2, FS_AddElement, Zenon
      <4>. QED BY <3>1, <3>2, <3>3, <4>3, <4>4
    <3>. QED BY <3>4, <3>5, Zenon
  <2>6. CountOK'
    BY <2>5, Zenon DEF CountOK
  <2>. QED BY <1>0, <1>2, <1>3, <2>2, <2>3, <2>4, <2>6, Zenon DEF Inv, MailsOK, ProviderRegistrationIsBound, rows
<1>. QED BY <1>4, <1>5, Zenon

LEMMA UnbindIdentityInv == ASSUME Inv, NEW a \in Addresses, UnbindIdentity(a) PROVE Inv'
<1>0. /\ TypeOK /\ CodesOK /\ TicketsOK /\ MailsOK /\ UNCHANGED <<stores, accounts, bound, call, locks, faults, history>>
      /\ mails' = mails \ {a} /\ rowLock = NoCall
  BY Zenon DEF Inv, UnbindIdentity
<1>1. CodesOK' /\ TicketsOK'
  BY <1>0, CodesKept, TicketsKept, Zenon DEF stores, history
<1>2. TypeOK'
  BY <1>0, Zenon DEF TypeOK, stores, locks, history
<1>3. ASSUME NEW d \in Calls PROVE CallOK(d)'
  <2>1. \A x \in Addresses : ~ExistsAsEmailAnywhere(x) => ~ExistsAsEmailAnywhere(x)'
    BY <1>0, Zenon DEF ExistsAsEmailAnywhere
  <2>. QED BY <1>0, <2>1, CallKept, Zenon DEF Inv, locks, history
<1>4. AccountsOK'
  BY <1>0, AccountsKept, Zenon DEF Inv, history
<1>5. CountOK'
  <2>1. \A b \in Boxes : Binders(b)' \subseteq Binders(b)
    BY <1>0, Zenon DEF Binders, BoxOf
  <2>. QED BY <1>0, <1>2, <2>1, CountKept, Zenon DEF Inv, history
<1>6. MailsOK'
  <2>1. IsFiniteSet(mails \ {a}) /\ Cardinality(mails \ {a}) <= Cardinality(mails)
    BY <1>0, FS_Subset, Zenon DEF MailsOK
  <2>2. Cardinality(mails \ {a}) \in Nat /\ Cardinality(mails) \in Nat
    BY <1>0, <2>1, FS_CardinalityType, Zenon DEF MailsOK
  <2>3. Cardinality(mails \ {a}) <= MailLimit
    BY <1>0, <2>1, <2>2 DEF MailsOK
  <2>. QED BY <1>0, <2>1, <2>3, Zenon DEF MailsOK
<1>. QED BY <1>0, <1>1, <1>2, <1>3, <1>4, <1>5, <1>6, Zenon DEF Inv, ProviderRegistrationIsBound

\* A commit gives the address of c an owner: whoever else holds the lock of an
\* address holds that of another one.
LEMMA OthersKept ==
  ASSUME Inv, NEW c \in Calls, call[c].pc = "commit", Released(c),
         \A d \in Calls \ {c} : call'[d] = call[d],
         mails \subseteq mails', mails' \subseteq mails \union {Address(c)}, accounts \subseteq accounts',
         \A u \in accounts' : u \in accounts \/ u.email = Address(c),
         rowLock # c => mails' = mails, UNCHANGED proofs
  PROVE  \A d \in Calls \ {c} : CallOK(d)'
<1>. SUFFICES ASSUME NEW d \in Calls, d # c PROVE CallOK(d)'
  BY Zenon
<1>1. TypeOK /\ CallOK(c) /\ CallOK(d)
  BY Zenon DEF Inv
<1>2. addressLock[Address(c)] = c
  BY <1>1, Zenon DEF CallOK
<1>3. /\ rowLock = d => rowLock' = d
      /\ \A a \in Addresses : addressLock[a] = d => addressLock'[a] = d
  BY <1>1, ReleasedFacts
<1>4. \A a \in Addresses : a # Address(c) /\ ~ExistsAsEmailAnywhere(a) => ~ExistsAsEmailAnywhere(a)'
  BY Zenon DEF ExistsAsEmailAnywhere
<1>. QED BY <1>1, <1>2, <1>3, <1>4, CallKept, Zenon

LEMMA CommitRegistrationInv ==
  ASSUME Inv, NEW c \in Calls, CommitRegistration(c) PROVE Inv'
<1>. DEFINE n == [email |-> Address(c), via |-> call[c].via, bound |-> call[c].identity]
<1>0. /\ TypeOK /\ CodesOK /\ TicketsOK /\ CallOK(c) /\ CountOK /\ AccountsOK /\ MailsOK /\ ProviderRegistrationIsBound
      /\ call[c].pc = "commit" /\ Registering(c)
      /\ accounts' = accounts \union {n} /\ bound' = (bound \/ call[c].identity)
      /\ uses' = [uses EXCEPT ![BoxOf(c)] = @ + 1] /\ Released(c) /\ To(c, "spend") /\ "spend" \in Steps
      /\ UNCHANGED <<stores, mails, faults, issued, tries, proofs>>
  BY Zenon DEF Inv, CommitRegistration, Steps
<1>1. /\ call[c] \in Call /\ Address(c) \in LoginAddresses /\ BoxOf(c) = <<"register", Address(c)>> /\ BoxOf(c) \in Boxes
      /\ call[c].ticket[2] \in proofs[BoxOf(c)] /\ (call[c].via => call[c].identity)
      /\ ~ExistsAsEmailAnywhere(Address(c))
  BY <1>0, CallFacts, Zenon DEF CallOK
<1>2. n \in AccountRow /\ n.email = Address(c) /\ (n.via => n.bound)
  BY <1>1, Zenon DEF AccountRow, Call
<1>. HIDE DEF n
<1>3. /\ call' \in [Calls -> Call] /\ call'[c].pc = "spend" /\ \A d \in Calls \ {c} : call'[d] = call[d]
      /\ BoxOf(c)' = BoxOf(c) /\ Registering(c)' = Registering(c) /\ Address(c)' = Address(c)
      /\ call'[c].ticket = call[c].ticket
  BY <1>0, MovedFacts, Zenon
<1>4. bound' \in BOOLEAN /\ uses' \in [Boxes -> Nat] /\ accounts' \subseteq AccountRow
  BY <1>0, <1>1, <1>2 DEF TypeOK, Call
<1>5. TypeOK'
  BY <1>0, <1>3, <1>4, ReleasedFacts, Zenon DEF TypeOK, stores
<1>6. CodesOK' /\ TicketsOK'
  BY <1>0, CodesKept, TicketsKept, Zenon DEF stores
<1>7. ASSUME NEW d \in Calls PROVE CallOK(d)'
  <2>1. CASE d # c
    BY <1>0, <1>2, <1>3, <2>1, OthersKept, Zenon
  <2>2. CASE d = c
    BY <1>0, <1>1, <1>2, <1>3, <2>2, Zenon DEF CallOK
  <2>. QED BY <2>1, <2>2, Zenon
<1>8. AccountsOK'
  <2>. SUFFICES ASSUME NEW a \in LoginAddresses, NEW b, b = <<"register", a>>,
                       NEW A, A = {u \in accounts' : u.email = a}
                PROVE  \/ A = {} /\ uses'[b] = 0
                       \/ (\E u \in accounts' : A = {u}) /\ uses'[b] = 1 /\ proofs'[b] # {}
    BY Zenon DEF AccountsOK
  <2>1. b \in Boxes
    BY BoxFacts, Zenon
  <2>2. CASE a = Address(c)
    <3>1. {u \in accounts : u.email = a} = {}
      BY <1>1, <2>2, Zenon DEF ExistsAsEmailAnywhere
    <3>2. uses[b] = 0
      BY <1>0, <3>1, Zenon DEF AccountsOK
    <3>3. A = {n} /\ n \in accounts'
      BY <1>0, <1>2, <2>2, <3>1, Zenon
    <3>4. uses'[b] = 1 /\ proofs'[b] # {}
      BY <1>0, <1>1, <2>1, <2>2, <3>2 DEF TypeOK
    <3>. QED BY <3>3, <3>4, Zenon
  <2>3. CASE a # Address(c)
    <3>1. A = {u \in accounts : u.email = a} /\ accounts \subseteq accounts'
      BY <1>0, <1>2, <2>3, Zenon
    <3>2. uses'[b] = uses[b] /\ proofs'[b] = proofs[b]
      BY <1>0, <1>1, <2>1, <2>3 DEF TypeOK
    <3>. QED BY <1>0, <3>1, <3>2, Zenon DEF AccountsOK
  <2>. QED BY <2>2, <2>3, Zenon
<1>9. MailsOK'
  BY <1>0, <1>1, <1>2, Zenon DEF MailsOK, ExistsAsEmailAnywhere
<1>10. CountOK'
  <2>. SUFFICES ASSUME NEW a \in Addresses, NEW b, b = <<"bind", a>>
                PROVE  uses'[b] + Cardinality(Binders(b)') <= Cardinality(proofs'[b])
    BY Zenon DEF CountOK
  <2>1. b \in Boxes /\ b # BoxOf(c)
    BY <1>1, BoxFacts, Zenon
  <2>2. uses'[b] = uses[b] /\ proofs'[b] = proofs[b]
    BY <1>0, <1>1, <2>1, Zenon DEF TypeOK
  <2>3. Binders(b)' = Binders(b)
    BY <1>3, <2>1 DEF Binders, BoxOf
  <2>. QED BY <1>0, <2>2, <2>3, Zenon DEF CountOK
<1>11. ProviderRegistrationIsBound'
  BY <1>0, <1>2, Zenon DEF ProviderRegistrationIsBound
<1>. QED BY <1>5, <1>6, <1>7, <1>8, <1>9, <1>10, <1>11, Zenon DEF Inv

LEMMA CommitIdentityInv ==
  ASSUME Inv, NEW c \in Calls, CommitIdentity(c) PROVE Inv'
<1>0. /\ TypeOK /\ CodesOK /\ TicketsOK /\ CallOK(c) /\ CountOK /\ AccountsOK /\ MailsOK /\ ProviderRegistrationIsBound
      /\ call[c].pc = "commit" /\ ~Registering(c) /\ mails' = mails \union {Address(c)}
      /\ uses' = [uses EXCEPT ![BoxOf(c)] = @ + 1] /\ Released(c) /\ Ends(c)
      /\ UNCHANGED <<stores, accounts, bound, faults, issued, tries, proofs>>
  BY Zenon DEF Inv, CommitIdentity
<1>1. /\ Address(c) \in Addresses /\ BoxOf(c) = <<"bind", Address(c)>> /\ BoxOf(c) \in Boxes
      /\ rowLock = c /\ Cardinality(mails) < MailLimit /\ ~ExistsAsEmailAnywhere(Address(c))
  BY <1>0, CallFacts, Zenon DEF CallOK
<1>2. call' \in [Calls -> Call] /\ call'[c] = Idle /\ \A d \in Calls \ {c} : call'[d] = call[d]
  BY <1>0, CallMoves, Zenon
<1>3. uses' \in [Boxes -> Nat] /\ mails' \subseteq Addresses
  BY <1>0, <1>1 DEF TypeOK
<1>4. TypeOK'
  BY <1>0, <1>2, <1>3, ReleasedFacts, Zenon DEF TypeOK, stores
<1>5. CodesOK' /\ TicketsOK'
  BY <1>0, CodesKept, TicketsKept, Zenon DEF stores
<1>6. ASSUME NEW d \in Calls PROVE CallOK(d)'
  <2>1. CASE d # c
    BY <1>0, <1>1, <1>2, <2>1, OthersKept, Zenon
  <2>2. CASE d = c
    BY <1>2, <2>2, EndedOK, Zenon
  <2>. QED BY <2>1, <2>2
<1>7. AccountsOK'
  <2>1. \A a \in LoginAddresses : uses'[<<"register", a>>] = uses[<<"register", a>>]
    BY <1>0, <1>1, BoxFacts, Zenon DEF TypeOK
  <2>. QED BY <1>0, <2>1, Zenon DEF AccountsOK
<1>8. MailsOK'
  <2>1. IsFiniteSet(mails) /\ Cardinality(mails) \in Nat /\ Address(c) \notin mails
    BY <1>0, <1>1, FS_CardinalityType, Zenon DEF MailsOK, ExistsAsEmailAnywhere
  <2>2. IsFiniteSet(mails') /\ Cardinality(mails') = Cardinality(mails) + 1
    BY <1>0, <2>1, FS_AddElement, Zenon
  <2>3. Cardinality(mails') <= MailLimit
    BY <1>1, <2>1, <2>2
  <2>. QED BY <1>0, <1>1, <2>2, <2>3, Zenon DEF MailsOK, ExistsAsEmailAnywhere
<1>9. CountOK'
  <2>. SUFFICES ASSUME NEW a \in Addresses, NEW b, b = <<"bind", a>>
                PROVE  uses'[b] + Cardinality(Binders(b)') <= Cardinality(proofs'[b])
    BY DEF CountOK
  <2>1. b \in Boxes /\ uses[b] \in Nat /\ proofs'[b] = proofs[b]
    BY <1>0, BoxFacts, Zenon DEF TypeOK
  <2>2. uses[b] + Cardinality(Binders(b)) <= Cardinality(proofs[b])
    BY <1>0, Zenon DEF CountOK
  <2>3. call'[c].pc = "idle"
    BY <1>2, IdleTyped, Zenon
  <2>4. CASE b # BoxOf(c)
    <3>1. Binders(b)' = Binders(b)
      BY <1>2, <2>3, <2>4 DEF Binders, BoxOf
    <3>2. uses'[b] = uses[b]
      BY <1>0, <1>1, <2>1, <2>4, Zenon DEF TypeOK
    <3>. QED BY <2>1, <2>2, <3>1, <3>2, Zenon
  <2>5. CASE b = BoxOf(c)
    <3>1. Binders(b)' = Binders(b) \ {c} /\ c \in Binders(b)
      BY <1>0, <1>2, <2>3, <2>5 DEF Binders, BoxOf
    <3>2. /\ IsFiniteSet(Binders(b)) /\ Cardinality(Binders(b)) \in Nat /\ Cardinality(proofs[b]) \in Nat
      BY <1>0, <2>1, Countable, Zenon
    <3>3. Cardinality(Binders(b)') = Cardinality(Binders(b)) - 1
      BY <3>1, <3>2, FS_RemoveElement
    <3>4. uses'[b] = uses[b] + 1
      BY <1>0, <1>1, <2>1, <2>5, Zenon DEF TypeOK
    <3>. QED BY <2>1, <2>2, <3>2, <3>3, <3>4
  <2>. QED BY <2>4, <2>5, Zenon
<1>. QED BY <1>0, <1>4, <1>5, <1>6, <1>7, <1>8, <1>9, Zenon DEF Inv, ProviderRegistrationIsBound

-----------------------------------------------------------------------------
(* The invariant, and what follows from it. *)

LEMMA InitInv == Init => Inv
<1>. SUFFICES ASSUME Init PROVE Inv
  BY Zenon
<1>1. NoCode \in StoredCode(MaxCodes)
  BY DEF NoCode, StoredCode
<1>2. TypeOK
  <2>1. /\ code \in [Boxes -> StoredCode(MaxCodes)] /\ ticket \in [Tickets -> Addresses \union {NoPayload}]
        /\ call \in [Calls -> Call] /\ addressLock \in [Addresses -> Calls \union {NoCall}]
    BY <1>1, IdleTyped, Zenon DEF Init
  <2>2. issued \in [Boxes -> 0..MaxCodes] /\ tries \in [Boxes -> Nat] /\ uses \in [Boxes -> Nat] /\ faults \in 0..MaxFaults
    BY DEF Init
  <2>3. proofs \in [Boxes -> SUBSET Numbers] /\ accounts \subseteq AccountRow /\ mails \subseteq Addresses
    BY Zenon DEF Init
  <2>4. parked \in BOOLEAN /\ bound \in BOOLEAN
    BY Zenon DEF Init
  <2>5. assignLock \in Calls \union {NoCall} /\ rowLock \in Calls \union {NoCall}
    BY Zenon DEF Init
  <2>. QED BY <2>1, <2>2, <2>3, <2>4, <2>5, Zenon DEF TypeOK
<1>3. CodesOK /\ TicketsOK
  BY DEF Init, CodesOK, TicketsOK, NoCode
<1>4. \A c \in Calls : CallOK(c) /\ call[c].pc = "idle"
  BY IdleTyped, Zenon DEF Init, CallOK
<1>5. AccountsOK
  BY BoxFacts, Zenon DEF Init, AccountsOK
<1>6. MailsOK
  BY FS_EmptySet DEF Init, MailsOK
<1>7. CountOK
  <2>1. ASSUME NEW a \in Addresses, NEW b, b = <<"bind", a>>
        PROVE  uses[b] + Cardinality(Binders(b)) <= Cardinality(proofs[b])
    <3>1. b \in Boxes /\ Binders(b) = {}
      BY <1>4, <2>1, BoxFacts, Zenon DEF Binders
    <3>. QED BY <3>1, FS_EmptySet DEF Init
  <2>. QED BY <2>1, Zenon DEF CountOK
<1>. QED BY <1>2, <1>3, <1>4, <1>5, <1>6, <1>7, Zenon DEF Inv, ProviderRegistrationIsBound, Init

LEMMA NextInv == Inv /\ [Next]_vars => Inv'
<1>. SUFFICES ASSUME Inv, [Next]_vars PROVE Inv'
  BY Zenon
<1>1. CASE UNCHANGED vars
  <2>1. UNCHANGED <<code, ticket, parked, accounts, mails, bound, call, assignLock, rowLock, addressLock, faults,
                    issued, tries, proofs, uses>>
    BY <1>1, Zenon DEF vars, stores, rows, locks, history
  <2>2. TypeOK' /\ CodesOK' /\ TicketsOK'
    BY <2>1, CodesKept, TicketsKept, Zenon DEF Inv, TypeOK
  <2>. QED BY <2>1, <2>2, QuietInv, Zenon DEF LocksKept
<1>2. CASE \E a \in LoginAddresses : SendRegisterCode(a)
  BY <1>2, SendRegisterCodeInv, Zenon
<1>3. CASE \E a \in Addresses : BindEmailSendCode(a) \/ UnbindIdentity(a)
  BY <1>3, BindEmailSendCodeInv, UnbindIdentityInv, Zenon
<1>4. CASE \E c \in Calls, a \in LoginAddresses, v \in 0..MaxCodes : VerifyRegisterCode(c, a, v)
  BY <1>4, VerifyRegisterCodeInv, Zenon
<1>5. CASE (\E b \in Boxes : ExpireCode(b)) \/ (\E t \in Tickets : ExpireTicket(t))
  BY <1>5, ExpireInv, Zenon
<1>6. CASE \E c \in Calls, t \in Tickets : BindEmailVerify(c, t) \/ \E via \in BOOLEAN : Register(c, t, via)
  BY <1>6, BindEmailVerifyInv, RegisterInv, Zenon
<1>7. CASE \E c \in Calls, v \in 0..MaxCodes : BindVerifyCode(c, v)
  BY <1>7, BindVerifyCodeInv, Zenon
<1>8. ASSUME NEW c \in Calls,
             \/ IssueRegisterTicket(c) \/ ResolveRegistrationIdentity(c) \/ LockIdentityAssignment(c)
             \/ InsertUser(c) \/ CommitRegistration(c) \/ ConsumeRegisterTicket(c)
      PROVE  Inv'
  BY <1>8, IssueRegisterTicketInv, ResolveRegistrationIdentityInv, LockIdentityAssignmentInv,
     InsertUserInv, CommitRegistrationInv, ConsumeRegisterTicketInv, Zenon
<1>9. ASSUME NEW c \in Calls,
             \/ ConsumeBindTicket(c) \/ BindChecksAddress(c) \/ CreateWithinLimit(c)
             \/ InsertIdentity(c) \/ CommitIdentity(c) \/ CallDies(c)
      PROVE  Inv'
  BY <1>9, ConsumeBindTicketInv, BindChecksAddressInv, CreateWithinLimitInv,
     InsertIdentityInv, CommitIdentityInv, CallDiesInv, Zenon
<1>10. CASE BindProvider
  BY <1>10, BindProviderInv, Zenon
<1>. QED BY <1>1, <1>2, <1>3, <1>4, <1>5, <1>6, <1>7, <1>8, <1>9, <1>10, Zenon DEF Next

(* The inductive invariant holds throughout every behaviour. *)
THEOREM Invariant == Spec => []Inv
  BY InitInv, NextInv, PTL DEF Spec

(* An address is the login e-mail of one account or a mailbox bound to one, never   *)
(* both and never two; the mailboxes of an account stay within their limit, and an  *)
(* account registered through a provider has its identity: for any number of        *)
(* registrations and bindings in flight, whichever of them die.                     *)
THEOREM IdentitiesStaySound == Spec => []IdentitiesSound
<1>1. Inv => IdentitiesSound
  <2>. SUFFICES ASSUME Inv PROVE IdentitiesSound
    BY Zenon
  <2>1. ASSUME NEW a \in LoginAddresses
        PROVE  uses[<<"register", a>>] = Cardinality({u \in accounts : u.email = a})
    <3>. DEFINE A == {u \in accounts : u.email = a}
    <3>1. (A = {} /\ uses[<<"register", a>>] = 0) \/ ((\E u \in accounts : A = {u}) /\ uses[<<"register", a>>] = 1)
      BY Zenon DEF Inv, AccountsOK
    <3>. HIDE DEF A
    <3>2. uses[<<"register", a>>] = Cardinality(A)
      BY <3>1, FS_EmptySet, FS_Singleton, Zenon
    <3>. QED BY <3>2, Zenon DEF A
  <2>2. AddressHasOneOwner /\ OtherMailWithinLimit
    BY <2>1, Zenon DEF AddressHasOneOwner, OtherMailWithinLimit, Inv, MailsOK
  <2>. QED BY <2>2, Zenon DEF IdentitiesSound, Inv
<1>. QED BY <1>1, Invariant, PTL

(* However calls repeat, overtake each other or die, no more accounts and bindings  *)
(* come from a mailbox than codes of it were accepted, and no stored code has been  *)
(* guessed at as often as the attempt limit.                                        *)
THEOREM CodesAreSpentOnce == Spec => []CodesAreSpent
<1>1. Inv => CodesAreSpent
  <2>. SUFFICES ASSUME Inv PROVE CodesAreSpent
    OBVIOUS
  <2>1. TypeOK
    BY Zenon DEF Inv
  <2>2. ASSUME NEW b \in Boxes PROVE uses[b] <= Cardinality(proofs[b])
    <3>1. IsFiniteSet(proofs[b]) /\ Cardinality(proofs[b]) \in Nat /\ uses[b] \in Nat
      BY <2>1, Countable, Zenon DEF TypeOK
    <3>2. CASE b[1] = "register"
      <4>1. uses[b] = 0 \/ (uses[b] = 1 /\ proofs[b] # {})
        BY <3>2, BoxFacts, Zenon DEF Inv, AccountsOK
      <4>2. proofs[b] # {} => Cardinality(proofs[b]) # 0
        BY <3>1, FS_EmptySet, Zenon
      <4>. QED BY <3>1, <4>1, <4>2
    <3>3. CASE b[1] # "register"
      <4>1. b = <<"bind", b[2]>> /\ b[2] \in Addresses
        BY <3>3, BoxFacts, Zenon
      <4>2. uses[b] + Cardinality(Binders(b)) <= Cardinality(proofs[b])
        BY <4>1, Zenon DEF Inv, CountOK
      <4>3. Cardinality(Binders(b)) \in Nat
        BY <2>1, Countable, Zenon
      <4>. QED BY <3>1, <4>2, <4>3
    <3>. QED BY <3>2, <3>3, Zenon
  <2>3. BudgetIsPerCode
    BY <2>1 DEF Inv, CodesOK, BudgetIsPerCode, TypeOK, StoredCode
  <2>. QED BY <2>2, <2>3, Zenon DEF CodesAreSpent, EachUseSpendsACode
<1>. QED BY <1>1, Invariant, PTL

(* A Register-Ticket is gone only because it expired or because its address has an   *)
(* account: no registration that is refused, or dies, takes one (Register peeks, and  *)
(* ConsumeRegisterTicket comes after the commit).                                     *)
THEOREM RefusalsCostNoTicket == Spec => TicketOutlivesRefusal
<1>. DEFINE A == \A t \in Tickets :
                    (t[1][1] = "register" /\ ticket[t] # NoPayload /\ ticket'[t] = NoPayload) =>
                        \/ UNCHANGED call
                        \/ \E u \in accounts : u.email = ticket[t]
<1>1. Inv /\ [Next]_vars => [A]_vars
  <2>. SUFFICES ASSUME Inv, Next, NEW t \in Tickets, t[1][1] = "register", ticket[t] # NoPayload,
                       ticket'[t] = NoPayload, call' # call
                PROVE  \E u \in accounts : u.email = ticket[t]
    BY Zenon
  <2>0. TypeOK /\ TicketsOK /\ \A c \in Calls : CallOK(c)
    BY Zenon DEF Inv
  <2>1. ticket' # ticket
    BY Zenon
  <2>2. \E c \in Calls : IssueRegisterTicket(c) \/ ConsumeRegisterTicket(c) \/ ConsumeBindTicket(c)
    <3>1. ~(\E a \in LoginAddresses : SendRegisterCode(a)) /\ ~BindProvider
      BY Zenon DEF SendRegisterCode, BindProvider
    <3>2. ~(\E a \in Addresses : BindEmailSendCode(a) \/ UnbindIdentity(a))
      BY Zenon DEF BindEmailSendCode, UnbindIdentity
    <3>3. ~(\E b \in Boxes : ExpireCode(b)) /\ ~(\E x \in Tickets : ExpireTicket(x))
      BY Zenon DEF ExpireCode, ExpireTicket
    <3>4. ~(\E c \in Calls, a \in LoginAddresses, v \in 0..MaxCodes : VerifyRegisterCode(c, a, v))
      BY <2>1, Zenon DEF VerifyRegisterCode
    <3>5. ~(\E c \in Calls, x \in Tickets : BindEmailVerify(c, x) \/ \E via \in BOOLEAN : Register(c, x, via))
      BY <2>1, Zenon DEF BindEmailVerify, Register, stores
    <3>6. ~(\E c \in Calls, v \in 0..MaxCodes : BindVerifyCode(c, v))
      BY <2>1, Zenon DEF BindVerifyCode
    <3>7. \A c \in Calls : ~(\/ ResolveRegistrationIdentity(c) \/ LockIdentityAssignment(c)
                             \/ InsertUser(c) \/ CommitRegistration(c))
      BY <2>1, Zenon DEF ResolveRegistrationIdentity, LockIdentityAssignment, InsertUser, CommitRegistration, Rollback, stores
    <3>8. \A c \in Calls : ~(\/ BindChecksAddress(c) \/ CreateWithinLimit(c)
                             \/ InsertIdentity(c) \/ CommitIdentity(c) \/ CallDies(c))
      BY <2>1, Zenon DEF BindChecksAddress, CreateWithinLimit, InsertIdentity, CommitIdentity, CallDies, Rollback, stores
    <3>. QED BY <3>1, <3>2, <3>3, <3>4, <3>5, <3>6, <3>7, <3>8, Zenon DEF Next
  <2>3. PICK c \in Calls : IssueRegisterTicket(c) \/ ConsumeRegisterTicket(c) \/ ConsumeBindTicket(c)
    BY <2>2, Zenon
  <2>4. call[c].ticket \in Tickets /\ Address(c) \in Addresses /\ CallOK(c)
    BY <2>0, CallFacts, Zenon
  <2>5. CASE IssueRegisterTicket(c)
    BY <2>0, <2>1, <2>4, <2>5, Zenon DEF IssueRegisterTicket, SetOneTime, TypeOK
  <2>6. CASE ConsumeRegisterTicket(c)
    <3>1. t = call[c].ticket /\ call[c].pc = "spend"
      BY <2>0, <2>1, <2>4, <2>6, Zenon DEF ConsumeRegisterTicket, DeleteOneTime, TypeOK
    <3>2. ticket[t] = Address(c)
      BY <2>0, <3>1, Zenon DEF TicketsOK, Address
    <3>. QED BY <2>4, <3>1, <3>2, Zenon DEF CallOK
  <2>7. CASE ConsumeBindTicket(c)
    <3>1. t = call[c].ticket /\ call[c].pc = "matched"
      BY <2>0, <2>1, <2>4, <2>7, Zenon DEF ConsumeBindTicket, GetDelOneTime, TypeOK
    <3>. QED BY <2>4, <3>1, Zenon DEF CallOK, Registering, BoxOf
  <2>. QED BY <2>3, <2>5, <2>6, <2>7, Zenon
<1>2. Spec => [][A]_vars
  BY <1>1, Invariant, PTL DEF Spec
<1>. QED BY <1>2, Zenon DEF TicketOutlivesRefusal
=============================================================================
