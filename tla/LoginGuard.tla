----------------------------- MODULE LoginGuard -----------------------------
(***************************************************************************)
(* Who may prove a password, how often, and which password that is: login  *)
(* with its lock and its rehash, and change and reset of the password.     *)
(*                                                                         *)
(* One account and one identifier, which may be bound to it or not.  A     *)
(* call runs in steps, one per Redis command, database statement or        *)
(* password derivation.  Sessions are the subject of TokenFamilies and     *)
(* DeviceSessions: here a login ends with the reset of its counter, and a  *)
(* call that the endpoint limiter refuses never starts.  Any row that is   *)
(* read may be of a closed account.                                        *)
(***************************************************************************)
EXTENDS RedisStore, FiniteSets

CONSTANTS
    Logins,         \* login calls in flight
    Setters,        \* password changes and resets, one call each
    FailureLimit,   \* LOGIN_FAILURE_LIMIT
    Passwords,
    MaxFaults       \* bound: Redis failures and lost expiries

VARIABLES
    account,        \* the stored hash of the user row
    known,          \* the identifier names the account
    failures,       \* login failure counters by key
    login, setter,  \* what each call has done
    faults,
    \* History.
    guesses,        \* per key, wrong attempts since the counter was last absent
    password        \* the password last set by a change or a reset

history == <<guesses, password>>
vars == <<account, known, failures, login, setter, faults, history>>

\* loginFailureKey: by account once it is known, by identifier before.
Keys == {"user", "identifier"}
FailureKey == IF known THEN "user" ELSE "identifier"

\* A hash tells its password and whether its parameters are outdated.
Account == [password: Passwords, stale: BOOLEAN]
LoginCall == [pc: {"idle", "lock", "verify", "fail", "rehash", "reset"},
              key: Keys, seen: Account, password: Passwords]
SetterCall == [pc: {"idle", "over", "find", "hash", "update", "clear"}, seen: Account, password: Passwords]
MaxCount == FailureLimit + Cardinality(Logins) * (1 + MaxFaults)

TypeOK ==
    /\ account \in Account /\ known \in BOOLEAN
    /\ failures \in [Keys -> Window(MaxCount)]
    /\ login \in [Logins -> LoginCall] /\ setter \in [Setters -> SetterCall]
    /\ faults \in 0..MaxFaults
    /\ guesses \in [Keys -> Nat] /\ password \in Passwords

Blank == CHOOSE a \in Account : ~a.stale
IdleLogin == [pc |-> "idle", key |-> "user", seen |-> Blank, password |-> Blank.password]
IdleSetter == [pc |-> "idle", seen |-> Blank, password |-> Blank.password]

Init ==
    /\ account \in Account /\ known \in BOOLEAN
    /\ failures = [k \in Keys |-> NoKey]
    /\ login = [p \in Logins |-> IdleLogin]
    /\ setter = [s \in Setters |-> IdleSetter]
    /\ faults = 0
    /\ guesses = [k \in Keys |-> 0] /\ password = account.password

Fault == faults < MaxFaults /\ faults' = faults + 1
LoginTo(p, pc) == login' = [login EXCEPT ![p].pc = pc]
\* What the rest of the call does not read is forgotten.
LoginOn(p, pc) == login' = [login EXCEPT ![p] = [IdleLogin EXCEPT !.pc = pc, !.key = login[p].key]]
LoginEnds(p) == login' = [login EXCEPT ![p] = IdleLogin]
SetterEnds(s) == setter' = [setter EXCEPT ![s] = [IdleSetter EXCEPT !.pc = "over"]]

-----------------------------------------------------------------------------
(* Login. *)

\* The limiter lets the call through, or Redis is down; then the user is read.
LoginStart(p, v) ==
    /\ login[p].pc = "idle"
    /\ login' = [login EXCEPT ![p] =
            IF known THEN [pc |-> "lock", key |-> FailureKey, seen |-> account, password |-> v]
            ELSE [IdleLogin EXCEPT !.pc = "lock", !.key = FailureKey]]
    /\ UNCHANGED <<account, known, failures, setter, faults, history>>

\* IsLocked of LoginFailureStore; an unreadable counter is not locked.
IsLocked(key) ==
    GetLoginFailures(failures[key]).ok /\ GetLoginFailures(failures[key]).n >= FailureLimit

\* An unknown identifier has no password to verify: the attempt is a failure.
PastLock(p) ==
    /\ IF login[p].key = "user" THEN LoginTo(p, "verify") ELSE LoginOn(p, "fail")
    /\ guesses' = IF login[p].key = "user" THEN guesses
                  ELSE [guesses EXCEPT !["identifier"] = @ + 1]
    /\ UNCHANGED <<account, known, failures, setter, password>>

\* checkLoginLock: with Redis down the attempt is allowed.
CheckLoginLock(p) ==
    /\ login[p].pc = "lock"
    /\ \/ ~IsLocked(login[p].key) /\ PastLock(p) /\ UNCHANGED faults
       \/ Fault /\ PastLock(p)

\* The call is refused: by the lock, or because the row it read is of a closed
\* account, which is not counted.
LoginRefused(p) ==
    /\ login[p].pc = "lock"
    /\ IsLocked(login[p].key) \/ login[p].key = "user"
    /\ LoginEnds(p)
    /\ UNCHANGED <<account, known, failures, setter, faults, history>>

VerifyPassword(seen, v) == seen.password = v

LoginVerified(p) ==
    /\ login[p].pc = "verify"
    /\ VerifyPassword(login[p].seen, login[p].password)
    /\ IF login[p].seen.stale THEN LoginTo(p, "rehash") ELSE LoginOn(p, "reset")
    /\ UNCHANGED <<account, known, failures, setter, faults, history>>

LoginRejected(p) ==
    /\ login[p].pc = "verify"
    /\ ~VerifyPassword(login[p].seen, login[p].password)
    /\ LoginOn(p, "fail")
    /\ guesses' = [guesses EXCEPT !["user"] = @ + 1]
    /\ UNCHANGED <<account, known, failures, setter, faults, password>>

\* The caller went away during the derivation: nothing is proved or counted.
LoginCancelled(p) ==
    /\ login[p].pc = "verify"
    /\ LoginEnds(p)
    /\ UNCHANGED <<account, known, failures, setter, faults, history>>

\* failLogin: the failure is counted, or Redis is down and it is not.
FailLogin(p) ==
    /\ login[p].pc = "fail"
    /\ LoginEnds(p)
    /\ \/ failures' = [failures EXCEPT ![login[p].key] = RecordLoginFailure(@)] /\ UNCHANGED faults
       \/ Fault /\ UNCHANGED failures
    /\ UNCHANGED <<account, known, setter, history>>

\* Mutant: the rehash is written whatever the row holds by then.
RehashUnguarded(p) ==
    /\ login[p].pc = "rehash"
    /\ account' = [account EXCEPT !.password = login[p].password, !.stale = FALSE]
    /\ LoginOn(p, "reset")
    /\ UNCHANGED <<known, failures, setter, faults, history>>

\* UpdatePasswordHash WHERE password = the hash this login verified.
UpdatePasswordHash(p) ==
    LET same == account.password = login[p].seen.password /\ account.stale = login[p].seen.stale  IN
    /\ login[p].pc = "rehash"
    /\ account' = IF same THEN [account EXCEPT !.password = login[p].password, !.stale = FALSE]
                          ELSE account
    /\ LoginOn(p, "reset")
    /\ UNCHANGED <<known, failures, setter, faults, history>>

\* The pair is created (TokenFamilies) and the counter of this login is cleared.
LoginResetsFailures(p) ==
    /\ login[p].pc = "reset"
    /\ LoginEnds(p)
    /\ \/ /\ failures' = [failures EXCEPT ![login[p].key] = ResetLoginFailures(@)]
          /\ guesses' = [guesses EXCEPT ![login[p].key] = 0]
          /\ UNCHANGED faults
       \/ Fault /\ UNCHANGED <<failures, guesses>>
    /\ UNCHANGED <<account, known, setter, password>>

-----------------------------------------------------------------------------
(* Change and reset of the password. *)

\* ChangePassword up to its transaction: the old password is proved against
\* the row as read.
ChangePassword(s, old, new) ==
    /\ setter[s].pc = "idle"
    /\ new # old
    /\ VerifyPassword(account, old)
    /\ setter' = [setter EXCEPT ![s] = [pc |-> "update", seen |-> Blank, password |-> new]]
    /\ UNCHANGED <<account, known, failures, login, faults, history>>

\* ResetPassword: its code matched and is spent (Registration has the codes).
ResetPassword(s, new) ==
    /\ setter[s].pc = "idle"
    /\ setter' = [setter EXCEPT ![s] = [pc |-> "find", seen |-> Blank, password |-> new]]
    /\ UNCHANGED <<account, known, failures, login, faults, history>>

\* FindAuthUserByLoginIdentifier: unknown or closed ends the call.
ResetFindUser(s) ==
    /\ setter[s].pc = "find"
    /\ \/ known /\ setter' = [setter EXCEPT ![s].pc = "hash", ![s].seen = account]
       \/ SetterEnds(s)
    /\ UNCHANGED <<account, known, failures, login, faults, history>>

\* The new password must differ from the one read; the code is gone either way.
ResetCompare(s) ==
    /\ setter[s].pc = "hash"
    /\ IF VerifyPassword(setter[s].seen, setter[s].password)
       THEN SetterEnds(s) ELSE setter' = [setter EXCEPT ![s].pc = "update", ![s].seen = Blank]
    /\ UNCHANGED <<account, known, failures, login, faults, history>>

\* UpdatePasswordAndRevokeSessions: WHERE id, nothing else.
UpdatePasswordAndRevokeSessions(s) ==
    /\ setter[s].pc = "update"
    /\ account' = [account EXCEPT !.password = setter[s].password, !.stale = FALSE]
    /\ password' = setter[s].password
    /\ setter' = [setter EXCEPT ![s] = [IdleSetter EXCEPT !.pc = "clear"]]
    /\ UNCHANGED <<known, failures, login, faults, guesses>>

\* clearLoginFailures: both keys, one DEL each; a failing one is logged.
ClearLoginFailures(s) ==
    /\ setter[s].pc = "clear"
    /\ SetterEnds(s)
    /\ \E K \in SUBSET Keys :
        /\ IF K = Keys THEN UNCHANGED faults ELSE Fault
        /\ failures' = [k \in Keys |-> IF k \in K THEN ResetLoginFailures(failures[k]) ELSE failures[k]]
        /\ guesses' = [k \in Keys |-> IF k \in K THEN 0 ELSE guesses[k]]
    /\ UNCHANGED <<account, known, login, password>>

-----------------------------------------------------------------------------
(* Time, other flows, and faults of Redis. *)

ExpireFailures(k) ==
    /\ failures[k].n > 0 /\ failures[k].ttl
    /\ failures' = [failures EXCEPT ![k] = NoKey]
    /\ guesses' = [guesses EXCEPT ![k] = 0]
    /\ UNCHANGED <<account, known, login, setter, faults, password>>

\* A counter is restored without its expiry.
LoseExpiry(k) ==
    /\ failures[k].ttl
    /\ Fault
    /\ failures' = [failures EXCEPT ![k].ttl = FALSE]
    /\ UNCHANGED <<account, known, login, setter, history>>

\* The address is bound to the account or unbound from it.
BindOrUnbind ==
    /\ known' = ~known
    /\ UNCHANGED <<account, failures, login, setter, faults, history>>

Next ==
    \/ \E p \in Logins, v \in Passwords : LoginStart(p, v)
    \/ \E p \in Logins :
        \/ CheckLoginLock(p) \/ LoginRefused(p)
        \/ LoginVerified(p) \/ LoginRejected(p) \/ LoginCancelled(p) \/ FailLogin(p)
        \/ UpdatePasswordHash(p) \/ LoginResetsFailures(p)
    \/ \E s \in Setters, old, new \in Passwords : ChangePassword(s, old, new)
    \/ \E s \in Setters, new \in Passwords : ResetPassword(s, new)
    \/ \E s \in Setters :
        \/ ResetFindUser(s) \/ ResetCompare(s)
        \/ UpdatePasswordAndRevokeSessions(s) \/ ClearLoginFailures(s)
    \/ \E k \in Keys : ExpireFailures(k) \/ LoseExpiry(k)
    \/ BindOrUnbind

Spec == Init /\ [][Next]_vars

-----------------------------------------------------------------------------
(* However many logins interleave their check with their count, the passwords  *)
(* (or unknown identifiers) tried in one window exceed the limit by at most     *)
(* the calls in flight, and again for every fault of Redis: a counter that lost *)
(* its expiry cannot be read, which opens the lock until the next failure       *)
(* restores the expiry (checkLoginLock, failLogin, RecordLoginFailure).         *)
GuessesPerWindow ==
    \A k \in Keys : guesses[k] <= FailureLimit - 1 + Cardinality(Logins) * (1 + faults)

(* The stored hash is of the password last set: a rehash on login never brings  *)
(* back a password that a change or a reset has replaced (UpdatePasswordHash).  *)
RehashKeepsPassword == account.password = password

(* What holds of the password login at every moment: guesses are bounded in a    *)
(* window, and the password is the last one set.                                 *)
GuardSound == TypeOK /\ GuessesPerWindow /\ RehashKeepsPassword
=============================================================================
