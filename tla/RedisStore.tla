----------------------------- MODULE RedisStore -----------------------------
(***************************************************************************)
(* The Redis keys of auth_store.go and limiter.go that more than one flow  *)
(* uses, as operators from the stored value to the stored value: counters  *)
(* with a window, verification codes with an attempt budget, and one-time  *)
(* payloads.  Each is one command or one Lua script, so it is one step of  *)
(* whoever calls it.  A code is the number of its issue; 0 is no code.     *)
(***************************************************************************)
EXTENDS Integers

CONSTANTS
    MaxAttempts,        \* maximumVerificationCodeAttempts
    NoPayload           \* the value of an absent one-time key

ASSUME StoreAssumption == MaxAttempts \in Nat \ {0}

-----------------------------------------------------------------------------
(* Counters.  n = 0 is an absent key; ttl tells whether the key will expire:   *)
(* a restore from persistence or an operator's SET can leave one that will not. *)

NoKey == [n |-> 0, ttl |-> FALSE]
Window(max) == [n: 0..max, ttl: BOOLEAN]

\* INCR, then PEXPIRE on the first one or when PTTL is negative.
RecordLoginFailure(w) == [n |-> w.n + 1, ttl |-> TRUE]

\* The read fails on a key without expiry: redisInt refuses its PTTL of -1.
GetLoginFailures(w) ==
    IF w.n > 0 /\ ~w.ttl THEN [ok |-> FALSE, n |-> 0] ELSE [ok |-> TRUE, n |-> w.n]

ResetLoginFailures(w) == NoKey

\* FixedWindowLimiter.Allow: the counter after the call, and the decision on it.
CountCall(w) == [n |-> w.n + 1, ttl |-> TRUE]
Allowed(w, limit) == CountCall(w).n <= limit

-----------------------------------------------------------------------------
(* Verification codes, per purpose and mailbox. *)

NoCode == [code |-> 0, attempts |-> 0]
StoredCode(max) == [code: 0..max, attempts: 0..MaxAttempts - 1]

\* Mutant: the new code is written over the old one and the counter stays.
SaveOverCode(c, code) == [c EXCEPT !.code = code]

SaveVerificationCode(c, code) == [code |-> code, attempts |-> 0]

Match(c) == [after |-> NoCode, ok |-> TRUE, remaining |-> 0]

\* The attempt is counted; the one that reaches the limit drops the code.
Mismatch(c) ==
    IF c.attempts + 1 >= MaxAttempts
    THEN [after |-> NoCode, ok |-> FALSE, remaining |-> 0]
    ELSE [after |-> [c EXCEPT !.attempts = @ + 1], ok |-> FALSE,
          remaining |-> MaxAttempts - (c.attempts + 1)]

\* verificationCodeAttemptScript.
VerifyVerificationCode(c, code) ==
    IF c.code = 0 THEN [after |-> NoCode, ok |-> FALSE, remaining |-> 0]
    ELSE IF c.code = code THEN Match(c)
    ELSE Mismatch(c)

DiscardVerificationCode(c) == NoCode

\* The code expires.  The counter was given the code's remaining TTL, unless
\* less than a millisecond was left: then it stays until the next script.
ExpiredCodes(c) == {NoCode, [c EXCEPT !.code = 0]}

-----------------------------------------------------------------------------
(* One-time payloads. *)

\* SET NX: ErrAlreadyExists leaves the stored payload alone.
SetOneTime(store, key, payload) ==
    IF store[key] = NoPayload THEN [store EXCEPT ![key] = payload] ELSE store
PeekOneTime(store, key) == store[key]
\* GETDEL and DEL: the caller that finds the key is the only one that removes it.
GetDelOneTime(store, key) == [store EXCEPT ![key] = NoPayload]
DeleteOneTime(store, key) == [store EXCEPT ![key] = NoPayload]
=============================================================================
