---------------------------- MODULE Registration ----------------------------
(***************************************************************************)
(* How an address becomes a login e-mail or a bound mailbox: verification  *)
(* codes, Register-Tickets, Bind-Tickets, parked third-party identities,   *)
(* and the two transactions that write the address, with the triggers of   *)
(* migration 000005 that keep it from having two owners.                   *)
(*                                                                         *)
(* One account, Owner, binds mailboxes while callers register new ones.    *)
(* Refusals that change nothing (fields, domains, limiters) are left out;  *)
(* that a student ID is taken is a free choice here, and the subject of    *)
(* AccountDirectory.  A caller that goes away, and a server that dies, end a  *)
(* call between any two of its steps; PostgreSQL then rolls back.          *)
(***************************************************************************)
EXTENDS RedisStore, FiniteSets

CONSTANTS
    Calls,          \* requests in flight
    NoCall,
    Addresses,      \* the mailboxes that may be bound,
    LoginAddresses, \* and those that may also register
    MailLimit,      \* maxOtherMailBindings
    MaxCodes,       \* bounds: codes sent to one mailbox for one purpose,
    MaxSends,       \* codes sent in all,
    MaxFaults       \* failing Redis commands and calls that die

ASSUME RegistrationAssumption ==
    /\ LoginAddresses \subseteq Addresses /\ Addresses # {} /\ NoPayload \notin Addresses
    /\ IsFiniteSet(Calls) /\ NoCall \notin Calls
    /\ MailLimit \in Nat \ {0} /\ MaxCodes \in Nat \ {0} /\ MaxSends \in Nat /\ MaxFaults \in Nat

VARIABLES
    code,           \* stored codes, by purpose and mailbox
    ticket,         \* tickets: an address, or NoPayload
    parked,         \* the registration state an OAuth callback left, if any
    accounts,       \* committed accounts
    mails,          \* committed other_mail identities of Owner
    bound,          \* the provider account is bound
    call,
    assignLock, rowLock, addressLock,   \* who holds which
    faults,
    \* History.
    issued,         \* codes sent
    tries,          \* wrong submissions compared with the stored code
    proofs,         \* the codes accepted
    uses            \* accounts opened and bindings made

stores == <<code, ticket, parked>>
rows == <<accounts, mails, bound>>
locks == <<assignLock, rowLock, addressLock>>
history == <<issued, tries, proofs, uses>>
vars == <<stores, rows, call, locks, faults, history>>

-----------------------------------------------------------------------------
Numbers == 1..MaxCodes
\* A purpose and a mailbox.
Boxes == ({"register"} \X LoginAddresses) \union ({"bind"} \X Addresses)
\* A ticket is named by its box and the code it came with.
Tickets == Boxes \X Numbers
\* An account: its login e-mail, whether its registration carried a
\* registration_state, and whether it has the identity.
AccountRow == [email: LoginAddresses, via: BOOLEAN, bound: BOOLEAN]
Steps == {"idle", "ticket", "peeked", "matched", "checked", "hash", "tx", "insert", "commit", "spend"}
Call == [pc: Steps, ticket: Tickets, via: BOOLEAN, identity: BOOLEAN]

AnyTicket == CHOOSE t \in Tickets : TRUE
Idle == [pc |-> "idle", ticket |-> AnyTicket, via |-> FALSE, identity |-> FALSE]

TypeOK ==
    /\ code \in [Boxes -> StoredCode(MaxCodes)]
    /\ ticket \in [Tickets -> Addresses \union {NoPayload}]
    /\ parked \in BOOLEAN /\ bound \in BOOLEAN
    /\ accounts \subseteq AccountRow /\ mails \subseteq Addresses
    /\ call \in [Calls -> Call]
    /\ assignLock \in Calls \union {NoCall} /\ rowLock \in Calls \union {NoCall}
    /\ addressLock \in [Addresses -> Calls \union {NoCall}]
    /\ faults \in 0..MaxFaults
    /\ issued \in [Boxes -> 0..MaxCodes] /\ tries \in [Boxes -> Nat]
    /\ proofs \in [Boxes -> SUBSET Numbers] /\ uses \in [Boxes -> Nat]

Init ==
    /\ code = [b \in Boxes |-> NoCode]
    /\ ticket = [t \in Tickets |-> NoPayload]
    /\ parked \in BOOLEAN /\ bound = FALSE
    /\ accounts = {} /\ mails = {}
    /\ call = [c \in Calls |-> Idle]
    /\ assignLock = NoCall /\ rowLock = NoCall
    /\ addressLock = [a \in Addresses |-> NoCall]
    /\ faults = 0
    /\ issued = [b \in Boxes |-> 0] /\ tries = [b \in Boxes |-> 0]
    /\ proofs = [b \in Boxes |-> {}] /\ uses = [b \in Boxes |-> 0]

Fault == faults < MaxFaults /\ faults' = faults + 1
To(c, pc) == call' = [call EXCEPT ![c].pc = pc]
Ends(c) == call' = [call EXCEPT ![c] = Idle]
Address(c) == call[c].ticket[1][2]
BoxOf(c) == call[c].ticket[1]
Registering(c) == BoxOf(c)[1] = "register"

\* A transaction ends: its locks are released.
Released(c) ==
    /\ assignLock' = IF assignLock = c THEN NoCall ELSE assignLock
    /\ rowLock' = IF rowLock = c THEN NoCall ELSE rowLock
    /\ addressLock' = [a \in Addresses |-> IF addressLock[a] = c THEN NoCall ELSE addressLock[a]]
Rollback(c) == Released(c) /\ Ends(c) /\ UNCHANGED <<stores, rows, faults, history>>

-----------------------------------------------------------------------------
(* Codes. *)

\* ExistsAsEmailAnywhere.
ExistsAsEmailAnywhere(a) == a \in mails \/ \E u \in accounts : u.email = a

Issue(b) ==
    /\ issued[b] < MaxCodes
    /\ Cardinality({t \in Tickets : t[2] <= issued[t[1]]}) < MaxSends
    /\ issued' = [issued EXCEPT ![b] = @ + 1] /\ tries' = [tries EXCEPT ![b] = 0]
    /\ code' = [code EXCEPT ![b] = SaveVerificationCode(@, issued[b] + 1)]

\* The code is stored and mailed; a mail that fails leaves it stored.
SendRegisterCode(a) ==
    /\ Issue(<<"register", a>>)
    /\ UNCHANGED <<ticket, parked, rows, call, locks, faults, proofs, uses>>

\* The address must be free and Owner below the limit, as far as these reads
\* tell; the ticket is stored after the code, or not at all.
BindEmailSendCode(a) ==
    LET b == <<"bind", a>>  IN
    /\ ~ExistsAsEmailAnywhere(a) /\ Cardinality(mails) < MailLimit
    /\ Issue(b)
    /\ \/ ticket' = SetOneTime(ticket, <<b, issued[b] + 1>>, a) /\ UNCHANGED faults
       \/ Fault /\ UNCHANGED ticket
    /\ UNCHANGED <<parked, rows, call, locks, proofs, uses>>

\* verifyCode: a submission v is compared with the stored code.
VerifyCode(b, v) ==
    LET r == VerifyVerificationCode(code[b], v)  IN
    /\ code' = [code EXCEPT ![b] = r.after]
    /\ proofs' = [proofs EXCEPT ![b] = IF r.ok THEN @ \union {v} ELSE @]
    /\ tries' = [tries EXCEPT ![b] =
            IF r.after.code = 0 THEN 0 ELSE IF r.ok THEN @ ELSE @ + 1]
Matches(b, v) == VerifyVerificationCode(code[b], v).ok

VerifyRegisterCode(c, a, v) ==
    LET b == <<"register", a>>  IN
    /\ call[c].pc = "idle"
    /\ VerifyCode(b, v)
    /\ IF Matches(b, v)
       THEN call' = [call EXCEPT ![c].pc = "ticket", ![c].ticket = <<b, v>>] ELSE UNCHANGED call
    /\ UNCHANGED <<ticket, parked, rows, locks, faults, issued, uses>>

\* The Register-Ticket is stored; when that fails, whatever code the mailbox
\* has by then is discarded.
IssueRegisterTicket(c) ==
    /\ call[c].pc = "ticket"
    /\ Ends(c)
    /\ \/ /\ ticket' = SetOneTime(ticket, call[c].ticket, Address(c))
          /\ UNCHANGED <<code, faults, tries>>
       \/ /\ Fault
          /\ code' = [code EXCEPT ![BoxOf(c)] = DiscardVerificationCode(@)]
          /\ tries' = [tries EXCEPT ![BoxOf(c)] = 0]
          /\ UNCHANGED ticket
    /\ UNCHANGED <<parked, rows, locks, issued, proofs, uses>>

ExpireCode(b) ==
    /\ code[b].code # 0
    /\ \E x \in ExpiredCodes(code[b]) : code' = [code EXCEPT ![b] = x]
    /\ tries' = [tries EXCEPT ![b] = 0]
    /\ UNCHANGED <<ticket, parked, rows, call, locks, faults, issued, proofs, uses>>

ExpireTicket(t) ==
    /\ ticket[t] # NoPayload
    /\ ticket' = [ticket EXCEPT ![t] = NoPayload]
    /\ UNCHANGED <<code, parked, rows, call, locks, faults, history>>

-----------------------------------------------------------------------------
(* Register. *)

\* Mutant: the ticket is taken where it should be read.
RegisterConsuming(c, t, via) ==
    /\ call[c].pc = "idle" /\ t[1][1] = "register"
    /\ ticket[t] # NoPayload /\ ~ExistsAsEmailAnywhere(ticket[t])
    /\ ticket' = GetDelOneTime(ticket, t)
    /\ call' = [call EXCEPT ![c] =
            [pc |-> IF via THEN "peeked" ELSE "hash", ticket |-> t, via |-> via, identity |-> FALSE]]
    /\ UNCHANGED <<code, parked, rows, locks, faults, history>>

\* The ticket is read, not spent; the address and the student ID look free and
\* the limiter lets the ticket through.
Register(c, t, via) ==
    /\ call[c].pc = "idle" /\ t[1][1] = "register"
    /\ PeekOneTime(ticket, t) # NoPayload
    /\ ~ExistsAsEmailAnywhere(ticket[t])
    /\ call' = [call EXCEPT ![c] =
            [pc |-> IF via THEN "peeked" ELSE "hash", ticket |-> t, via |-> via, identity |-> FALSE]]
    /\ UNCHANGED <<stores, rows, locks, faults, history>>

\* resolveRegistrationIdentity: GETDEL, and the stored oauth_state must be the
\* caller's.  Nothing is found, the states differ or Redis fails: the call ends.
ResolveRegistrationIdentity(c) ==
    /\ call[c].pc = "peeked" /\ Registering(c)
    /\ \/ /\ parked /\ parked' = FALSE
          /\ \/ call' = [call EXCEPT ![c].pc = "hash", ![c].identity = TRUE]
             \/ Ends(c)
          /\ UNCHANGED faults
       \/ ~parked /\ Ends(c) /\ UNCHANGED <<parked, faults>>
       \/ Fault /\ Ends(c) /\ UNCHANGED parked
    /\ UNCHANGED <<code, ticket, rows, locks, history>>

\* CreateRegistrationWithIdentity.  The assignment lock first; the guard on the
\* student ID may refuse.
LockIdentityAssignment(c) ==
    /\ call[c].pc = "hash" /\ assignLock = NoCall
    /\ \/ assignLock' = c /\ To(c, "insert") /\ UNCHANGED <<stores, rows, rowLock, addressLock, faults, history>>
       \/ Rollback(c)

\* Mutant: the trigger looks without the advisory lock.
AddressLookup(c) ==
    /\ addressLock' = addressLock
    /\ UNCHANGED <<assignLock, rowLock>>

\* The advisory lock on the address, which either trigger takes first.
AddressLockTaken(c) ==
    /\ addressLock[Address(c)] = NoCall
    /\ addressLock' = [addressLock EXCEPT ![Address(c)] = c]
    /\ UNCHANGED <<assignLock, rowLock>>

\* INSERT of the user, with forbid_identity_as_login_email and the unique index
\* on login_email, then of the identity and the token pair.  uq_identities
\* refuses a provider account that is bound by now.
InsertUser(c) ==
    LET taken == ExistsAsEmailAnywhere(Address(c)) \/ (call[c].identity /\ bound)  IN
    /\ call[c].pc = "insert" /\ Registering(c)
    /\ \/ ~taken /\ AddressLockTaken(c) /\ To(c, "commit") /\ UNCHANGED <<stores, rows, faults, history>>
       \/ taken /\ addressLock[Address(c)] = NoCall /\ Rollback(c)

CommitRegistration(c) ==
    /\ call[c].pc = "commit" /\ Registering(c)
    /\ accounts' = accounts \union
            {[email |-> Address(c), via |-> call[c].via, bound |-> call[c].identity]}
    /\ bound' = (bound \/ call[c].identity)
    /\ uses' = [uses EXCEPT ![BoxOf(c)] = @ + 1]
    /\ Released(c) /\ To(c, "spend")
    /\ UNCHANGED <<stores, mails, faults, issued, tries, proofs>>

\* ConsumeRegisterTicket; a failure is logged and leaves the ticket.
ConsumeRegisterTicket(c) ==
    /\ call[c].pc = "spend"
    /\ Ends(c)
    /\ \/ ticket' = DeleteOneTime(ticket, call[c].ticket) /\ UNCHANGED faults
       \/ Fault /\ UNCHANGED ticket
    /\ UNCHANGED <<code, parked, rows, locks, history>>

-----------------------------------------------------------------------------
(* Binding and unbinding a mailbox. *)

\* The ticket is read and belongs to the caller.
BindEmailVerify(c, t) ==
    /\ call[c].pc = "idle" /\ t[1][1] = "bind"
    /\ PeekOneTime(ticket, t) # NoPayload
    /\ call' = [call EXCEPT ![c].pc = "peeked", ![c].ticket = t]
    /\ UNCHANGED <<stores, rows, locks, faults, history>>

\* A wrong code costs an attempt and leaves the ticket.
BindVerifyCode(c, v) ==
    /\ call[c].pc = "peeked" /\ ~Registering(c)
    /\ VerifyCode(BoxOf(c), v)
    /\ IF Matches(BoxOf(c), v) THEN To(c, "matched") ELSE Ends(c)
    /\ UNCHANGED <<ticket, parked, rows, locks, faults, issued, uses>>

\* The end of a bind that lost its ticket: the code of the mailbox is discarded.
BindLost(c) ==
    /\ Ends(c)
    /\ code' = [code EXCEPT ![BoxOf(c)] = DiscardVerificationCode(@)]
    /\ tries' = [tries EXCEPT ![BoxOf(c)] = 0]

\* ConsumeBindTicket: only the caller that removes the key goes on.  The others,
\* and one whose Redis fails, discard the code of the mailbox.
ConsumeBindTicket(c) ==
    /\ call[c].pc = "matched"
    /\ \/ /\ ticket[call[c].ticket] # NoPayload
          /\ ticket' = GetDelOneTime(ticket, call[c].ticket)
          /\ To(c, "checked") /\ UNCHANGED <<code, faults, tries>>
       \/ ticket[call[c].ticket] = NoPayload /\ BindLost(c) /\ UNCHANGED <<ticket, faults>>
       \/ Fault /\ BindLost(c) /\ UNCHANGED ticket
    /\ UNCHANGED <<parked, rows, locks, issued, proofs, uses>>

\* FindByProviderID and ExistsAsEmailAnywhere.
BindChecksAddress(c) ==
    /\ call[c].pc = "checked"
    /\ IF ExistsAsEmailAnywhere(Address(c)) THEN Ends(c) ELSE To(c, "tx")
    /\ UNCHANGED <<stores, rows, locks, faults, history>>

\* CreateWithinLimit: the user row, then the count.
CreateWithinLimit(c) ==
    /\ call[c].pc = "tx" /\ rowLock = NoCall
    /\ IF Cardinality(mails) < MailLimit THEN rowLock' = c /\ To(c, "insert")
       ELSE Ends(c) /\ UNCHANGED rowLock
    /\ UNCHANGED <<stores, rows, assignLock, addressLock, faults, history>>

\* INSERT, with forbid_login_email_as_identity and uq_identities.
InsertIdentity(c) ==
    /\ call[c].pc = "insert" /\ ~Registering(c)
    /\ \/ /\ ~ExistsAsEmailAnywhere(Address(c))
          /\ AddressLockTaken(c) /\ To(c, "commit") /\ UNCHANGED <<stores, rows, faults, history>>
       \/ /\ ExistsAsEmailAnywhere(Address(c))
          /\ addressLock[Address(c)] = NoCall /\ Rollback(c)

CommitIdentity(c) ==
    /\ call[c].pc = "commit" /\ ~Registering(c)
    /\ mails' = mails \union {Address(c)}
    /\ uses' = [uses EXCEPT ![BoxOf(c)] = @ + 1]
    /\ Released(c) /\ Ends(c)
    /\ UNCHANGED <<stores, accounts, bound, faults, issued, tries, proofs>>

\* DeleteIdentityGuardingLoginMethod, under the lock on the user row.
UnbindIdentity(a) ==
    /\ a \in mails /\ rowLock = NoCall
    /\ mails' = mails \ {a}
    /\ UNCHANGED <<stores, accounts, bound, call, locks, faults, history>>

\* The provider account is bound by another flow (ThirdPartyLogin).
BindProvider ==
    /\ ~bound /\ \A c \in Calls : ~(call[c].pc = "commit" /\ call[c].identity)
    /\ bound' = TRUE
    /\ UNCHANGED <<stores, accounts, mails, call, locks, faults, history>>

\* The caller or the server goes away.
CallDies(c) ==
    /\ call[c].pc # "idle"
    /\ Fault
    /\ Released(c) /\ Ends(c)
    /\ UNCHANGED <<stores, rows, history>>

Next ==
    \/ \E a \in LoginAddresses : SendRegisterCode(a)
    \/ \E a \in Addresses : BindEmailSendCode(a) \/ UnbindIdentity(a)
    \/ \E c \in Calls, a \in LoginAddresses, v \in 0..MaxCodes : VerifyRegisterCode(c, a, v)
    \/ \E b \in Boxes : ExpireCode(b)
    \/ \E t \in Tickets : ExpireTicket(t)
    \/ \E c \in Calls, t \in Tickets : BindEmailVerify(c, t) \/ \E via \in BOOLEAN : Register(c, t, via)
    \/ \E c \in Calls, v \in 0..MaxCodes : BindVerifyCode(c, v)
    \/ \E c \in Calls :
        \/ IssueRegisterTicket(c) \/ ResolveRegistrationIdentity(c) \/ LockIdentityAssignment(c)
        \/ InsertUser(c) \/ CommitRegistration(c) \/ ConsumeRegisterTicket(c)
        \/ ConsumeBindTicket(c) \/ BindChecksAddress(c) \/ CreateWithinLimit(c)
        \/ InsertIdentity(c) \/ CommitIdentity(c) \/ CallDies(c)
    \/ BindProvider

Spec == Init /\ [][Next]_vars

-----------------------------------------------------------------------------
(* An address is the login e-mail of one account or a mailbox bound to one,    *)
(* never both and never two, though a registration and a binding look it up    *)
(* before they write it (Register, BindEmailVerify, the 000005 triggers).      *)
AddressHasOneOwner ==
    /\ \A a \in mails : \A u \in accounts : u.email # a
    /\ \A a \in LoginAddresses :
        uses[<<"register", a>>] = Cardinality({u \in accounts : u.email = a})

(* Concurrent bindings never give an account more mailboxes than the limit,     *)
(* although each request counted them before it was mailed (CreateWithinLimit). *)
OtherMailWithinLimit == Cardinality(mails) <= MailLimit

(* Every account and every binding has cost its mailbox a code of its own: a    *)
(* ticket or a code that is tried again, by another call or after a fault,      *)
(* opens nothing more (verificationCodeAttemptScript, ConsumeBindTicket).       *)
EachUseSpendsACode == \A b \in Boxes : uses[b] <= Cardinality(proofs[b])

(* A stored code has been guessed wrong exactly as often as its counter says,   *)
(* which is below the limit: no code inherits the attempts of the one before    *)
(* it, and none escapes its own (SaveVerificationCode, the attempt script).     *)
BudgetIsPerCode ==
    \A b \in Boxes : code[b].code # 0 => code[b].attempts = tries[b] /\ tries[b] < MaxAttempts

(* An account whose registration came with a registration_state has the         *)
(* identity that was parked there: no fault turns it into an account that the   *)
(* provider does not know (resolveRegistrationIdentity fails closed).           *)
ProviderRegistrationIsBound == \A u \in accounts : u.via => u.bound

(* A Register-Ticket disappears when it expires, or once its address has an     *)
(* account: a registration that is refused, or dies, costs no ticket.           *)
TicketOutlivesRefusal ==
    [][\A t \in Tickets :
        (t[1][1] = "register" /\ ticket[t] # NoPayload /\ ticket'[t] = NoPayload) =>
            \/ UNCHANGED call
            \/ \E u \in accounts : u.email = ticket[t]]_vars

(* What holds of accounts and bound mailboxes at every moment: addresses have    *)
(* one owner, mailboxes their limit, and a registration through a provider its   *)
(* identity.                                                                     *)
IdentitiesSound ==
    TypeOK /\ AddressHasOneOwner /\ OtherMailWithinLimit /\ ProviderRegistrationIsBound

(* Mailed codes are worth what they should be: each opens one thing, and is      *)
(* guessed at MaxAttempts times at most.                                         *)
CodesAreSpent == EachUseSpendsACode /\ BudgetIsPerCode
=============================================================================
