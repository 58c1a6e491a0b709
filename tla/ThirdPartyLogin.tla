--------------------------- MODULE ThirdPartyLogin ---------------------------
(***************************************************************************)
(* Login with a provider account (GitHub or Lark): the authorize leg, the  *)
(* callback with its one-time state, state cookie and code exchange, the   *)
(* login-free Lark entrance, redemption of the login code, and binding of  *)
(* the provider account to a signed-in user.                               *)
(*                                                                         *)
(* One person, one provider account, one browser with a few tabs: each tab *)
(* makes one round trip, and all share the one state cookie.  The provider *)
(* is external: its code works once, and any of its answers may be lost.   *)
(* A callback may be sent twice (a refresh, a proxy).  Calls that a        *)
(* limiter refuses touch neither state nor cookie and are left out.        *)
(***************************************************************************)
EXTENDS RedisStore, FiniteSets

CONSTANTS
    Calls, NoCall,
    Tabs, NoTab,
    Users, NoUser,
    Newcomer,       \* the user that a registration with the parked account makes
    MaxFaults       \* bound: lost answers, failing Redis commands, calls cancelled

ASSUME LoginAssumption ==
    /\ IsFiniteSet(Calls) /\ NoCall \notin Calls /\ NoTab \notin Tabs
    /\ NoUser \notin Users /\ Newcomer \notin Users \union {NoUser}
    /\ NoPayload \notin Users \union {Newcomer, "live"} /\ MaxFaults \in Nat

VARIABLES
    state,          \* OAuth states in Redis, by tab
    loginCode,      \* login codes in Redis: the user, by tab
    parked,         \* registration states in Redis
    cookie,         \* the tab whose state the cookie of the browser pairs with
    provider,       \* per tab, the code at the provider
    owner,          \* the user the provider account is bound to
    second,         \* users with another account of this provider
    closed,         \* closed users
    rowLock, claim, \* the lock on a user row; an uncommitted binding
    appToken,       \* the cached app token: none, live or being fetched
    call, answer,   \* calls in flight, and what each was last answered
    faults,
    \* History.
    sessions        \* sessions opened by the login code of the tab

stores == <<state, loginCode, parked>>
rows == <<owner, second, closed>>
vars == <<stores, cookie, provider, rows, rowLock, claim, appToken, call, answer, faults, sessions>>

-----------------------------------------------------------------------------
Kinds == {"callback", "app", "bind", "exchange"}
Steps == {"idle", "state", "app", "wait", "token", "user", "outage", "lookup", "issue", "park",
          "redeem", "pair", "tx", "insert", "commit"}
Call == [pc: Steps, kind: Kinds, tab: Tabs \union {NoTab}, user: Users \union {NoUser, Newcomer},
         cookie: Tabs \union {NoTab}, attempt: 1..2]
Answers == {"none", "done", "bound", "occupied", "alreadyBound", "outage", "refused"}
Idle == [pc |-> "idle", kind |-> "callback", tab |-> NoTab,
         user |-> NoUser, cookie |-> NoTab, attempt |-> 1]

TypeOK ==
    /\ state \in [Tabs -> {NoPayload, "live"}]
    /\ loginCode \in [Tabs -> Users \union {Newcomer, NoPayload}]
    /\ parked \in [Tabs -> {NoPayload, "live"}]
    /\ cookie \in Tabs \union {NoTab}
    /\ provider \in [Tabs -> {"none", "asked", "fresh", "spent"}]
    /\ owner \in Users \union {NoUser, Newcomer} /\ second \subseteq Users /\ closed \subseteq Users
    /\ rowLock \in [Users -> Calls \union {NoCall}] /\ claim \in Calls \union {NoCall}
    /\ appToken \in {"none", "live", "fetching"}
    /\ call \in [Calls -> Call] /\ answer \in [Calls -> Answers]
    /\ faults \in 0..MaxFaults
    /\ sessions \in [Tabs -> 0..Cardinality(Calls)]

Init ==
    /\ state = [t \in Tabs |-> NoPayload]
    /\ loginCode = [t \in Tabs |-> NoPayload] /\ parked = [t \in Tabs |-> NoPayload]
    /\ cookie = NoTab /\ provider = [t \in Tabs |-> "none"]
    /\ owner \in Users \union {NoUser} /\ second \in SUBSET (Users \ {owner}) /\ closed = {}
    /\ rowLock = [u \in Users |-> NoCall] /\ claim = NoCall /\ appToken \in {"none", "live"}
    /\ call = [p \in Calls |-> Idle] /\ answer = [p \in Calls |-> "none"]
    /\ faults = 0
    /\ sessions = [t \in Tabs |-> 0]

Fault == faults < MaxFaults /\ faults' = faults + 1
To(p, pc) == call' = [call EXCEPT ![p].pc = pc, ![p].attempt = 1]
Reply(p, a) == call' = [call EXCEPT ![p] = Idle] /\ answer' = [answer EXCEPT ![p] = a]

\* The handler clears the cookie with every answer to a callback but an outage.
CookieAfter(p, a) ==
    cookie' = IF call[p].kind = "callback" /\ a # "outage" THEN NoTab ELSE cookie
Answer(p, a) == Reply(p, a) /\ CookieAfter(p, a)

-----------------------------------------------------------------------------
(* The authorize leg, and the provider's page. *)

\* Fail-closed: a state that cannot be stored starts no login.
Authorize(t) ==
    /\ provider[t] = "none"
    /\ state' = SetOneTime(state, t, "live")
    /\ cookie' = t
    /\ provider' = [provider EXCEPT ![t] = "asked"]
    /\ UNCHANGED <<loginCode, parked, rows, rowLock, claim, appToken, call, answer, faults, sessions>>

\* The person consents (a code is issued) or cancels.
ProviderConsent(t) ==
    /\ provider[t] = "asked"
    /\ provider' = [provider EXCEPT ![t] = "fresh"]
    /\ UNCHANGED <<stores, cookie, rows, rowLock, claim, appToken, call, answer, faults, sessions>>

\* access_denied: the state is spent if it is there, and no code is asked for.
CallbackDenied(p, t) ==
    /\ call[p].pc = "idle" /\ provider[t] = "asked"
    /\ state' = GetDelOneTime(state, t)
    /\ answer' = [answer EXCEPT ![p] = "done"] /\ cookie' = NoTab
    /\ UNCHANGED <<loginCode, parked, provider, rows, rowLock, claim, appToken, call, faults, sessions>>

ExpireState(t) ==
    /\ state[t] # NoPayload
    /\ state' = [state EXCEPT ![t] = NoPayload]
    /\ UNCHANGED <<loginCode, parked, cookie, provider, rows, rowLock, claim, appToken, call, answer, faults, sessions>>

-----------------------------------------------------------------------------
(* The callback up to the exchange. *)

Callback(p, t) ==
    /\ call[p].pc = "idle" /\ provider[t] \in {"fresh", "spent"}
    /\ call' = [call EXCEPT ![p] = [Idle EXCEPT !.pc = "state", !.kind = "callback", !.tab = t, !.cookie = cookie]]
    /\ answer' = [answer EXCEPT ![p] = "none"]
    /\ UNCHANGED <<stores, cookie, provider, rows, rowLock, claim, appToken, faults, sessions>>

\* stateDigestMatches: the cookie that came with the callback is of this state.
StateDigestMatches(p) == call[p].cookie = call[p].tab

\* GETDEL: the callback that finds the state is the only one.
TakeOAuthState(t) == GetDelOneTime(state, t)

\* ConsumeOAuthState, then the pairing.  A state that is gone, or that Redis
\* does not give, or that is not this browser's, ends the callback.
ConsumeOAuthState(p) ==
    LET t == call[p].tab  IN
    /\ call[p].pc = "state"
    /\ \/ /\ state' = TakeOAuthState(t)
          /\ IF PeekOneTime(state, t) # NoPayload /\ StateDigestMatches(p)
             THEN To(p, "app") /\ UNCHANGED <<answer, cookie>> ELSE Answer(p, "refused")
          /\ UNCHANGED faults
       \/ Fault /\ Answer(p, "refused") /\ UNCHANGED state
    /\ UNCHANGED <<loginCode, parked, provider, rows, rowLock, claim, appToken, sessions>>

\* The Lark page inside the client posts a code of its own: no state, no cookie.
AppCodeLogin(p, t) ==
    /\ call[p].pc = "idle" /\ provider[t] = "none"
    /\ provider' = [provider EXCEPT ![t] = "fresh"]
    /\ call' = [call EXCEPT ![p] = [Idle EXCEPT !.pc = "app", !.kind = "app", !.tab = t]]
    /\ answer' = [answer EXCEPT ![p] = "none"]
    /\ UNCHANGED <<stores, cookie, rows, rowLock, claim, appToken, faults, sessions>>

\* Bind: the signed-in user is open, and the code was asked for by another page.
Bind(p, u, t) ==
    /\ call[p].pc = "idle" /\ provider[t] = "none" /\ u \notin closed
    /\ provider' = [provider EXCEPT ![t] = "fresh"]
    /\ call' = [call EXCEPT ![p] = [Idle EXCEPT !.pc = "app", !.kind = "bind", !.tab = t, !.user = u]]
    /\ answer' = [answer EXCEPT ![p] = "none"]
    /\ UNCHANGED <<stores, cookie, rows, rowLock, claim, appToken, faults, sessions>>

-----------------------------------------------------------------------------
(* The exchange with the provider. *)

\* Mutant: the browser is told to retry although the state was not written back.
RestorableRegardless(p) == Answer(p, "outage")

\* The write failed: the retry would not find the state, so it is not promised.
RestoreFailed(p) == Answer(p, "refused")

\* A network leg failed.  A callback writes its state back, and only when Redis
\* took it does the browser keep its cookie for the retry.
RestoreStateAfterOutage(p) ==
    LET t == call[p].tab  IN
    /\ call[p].pc = "outage"
    /\ IF call[p].kind # "callback"
       THEN Answer(p, "outage") /\ UNCHANGED <<state, faults>>
       ELSE \/ /\ state' = SetOneTime(state, t, "live")
               /\ Answer(p, "outage") /\ UNCHANGED faults
            \/ Fault /\ RestoreFailed(p) /\ UNCHANGED state
    /\ UNCHANGED <<loginCode, parked, provider, rows, rowLock, claim, appToken, sessions>>

\* fetchAppAccessToken (Lark): the cached token, or a fetch that all who need
\* it share.  GitHub has no such leg.
FetchAppAccessToken(p) ==
    /\ call[p].pc = "app"
    /\ \/ appToken = "live" /\ To(p, "token") /\ UNCHANGED appToken
       \/ appToken # "live" /\ To(p, "wait") /\ appToken' = "fetching"
    /\ UNCHANGED <<stores, cookie, provider, rows, rowLock, claim, answer, faults, sessions>>

\* The fetch is the client's own: a caller that goes away leaves it running.
FlightSurvives(p) == Reply(p, "refused") /\ UNCHANGED appToken

\* The fetch is done: every waiter has the token, or every waiter has the error.
AppTokenFetched ==
    /\ appToken = "fetching"
    /\ appToken' = "live"
    /\ call' = [p \in Calls |-> IF call[p].pc = "wait" THEN [call[p] EXCEPT !.pc = "token"] ELSE call[p]]
    /\ UNCHANGED <<stores, cookie, provider, rows, rowLock, claim, answer, faults, sessions>>
AppTokenFailed ==
    /\ appToken = "fetching"
    /\ Fault
    /\ appToken' = "none"
    /\ call' = [p \in Calls |-> IF call[p].pc = "wait" THEN [call[p] EXCEPT !.pc = "outage"] ELSE call[p]]
    /\ UNCHANGED <<stores, cookie, provider, rows, rowLock, claim, answer, sessions>>
AppTokenExpires ==
    /\ appToken = "live"
    /\ appToken' = "none"
    /\ UNCHANGED <<stores, cookie, provider, rows, rowLock, claim, call, answer, faults, sessions>>

\* The code is exchanged, or the provider has seen it before.
TokenExchange(p) ==
    /\ call[p].pc = "token"
    /\ IF provider[call[p].tab] = "fresh"
       THEN To(p, "user") /\ UNCHANGED <<answer, cookie>> ELSE Answer(p, "refused")
    /\ provider' = [provider EXCEPT ![call[p].tab] = "spent"]
    /\ UNCHANGED <<stores, rows, rowLock, claim, appToken, faults, sessions>>

\* doJSONRetry: a lost request or answer is tried once more; the login-free code
\* is asked for once.
DoJSONRetry(p) ==
    IF call[p].attempt = 1 /\ ~(call[p].kind = "app" /\ call[p].pc = "token")
    THEN call' = [call EXCEPT ![p].attempt = 2] ELSE To(p, "outage")

TokenExchangeLost(p) ==
    /\ call[p].pc = "token"
    /\ Fault
    /\ \E seen \in {provider[call[p].tab], "spent"} : provider' = [provider EXCEPT ![call[p].tab] = seen]
    /\ DoJSONRetry(p)
    /\ UNCHANGED <<stores, cookie, rows, rowLock, claim, appToken, answer, sessions>>

\* The account is fetched; one of a foreign tenant is refused.
FetchUser(p) ==
    /\ call[p].pc = "user"
    /\ \/ To(p, "lookup") /\ UNCHANGED <<answer, cookie>>
       \/ Answer(p, "refused")
    /\ UNCHANGED <<stores, provider, rows, rowLock, claim, appToken, faults, sessions>>

FetchUserLost(p) ==
    /\ call[p].pc = "user"
    /\ Fault
    /\ DoJSONRetry(p)
    /\ UNCHANGED <<stores, cookie, provider, rows, rowLock, claim, appToken, answer, sessions>>

\* The caller goes away during the exchange: not an outage, nothing is written
\* back, and the answer may not reach the browser.
ExchangeCanceled(p) ==
    /\ call[p].pc \in {"app", "wait", "token", "user"}
    /\ Fault
    /\ IF call[p].pc = "wait" THEN FlightSurvives(p) ELSE Reply(p, "refused") /\ UNCHANGED appToken
    /\ CookieAfter(p, "refused") \/ UNCHANGED cookie
    /\ UNCHANGED <<stores, provider, rows, rowLock, claim, sessions>>

-----------------------------------------------------------------------------
(* After the exchange: a login code, a parked identity, or a binding. *)

FindByProviderID(p) ==
    /\ call[p].pc = "lookup"
    /\ \/ /\ call[p].kind \in {"callback", "app"} /\ owner # NoUser
          /\ call' = [call EXCEPT ![p].pc = "issue", ![p].user = owner] /\ UNCHANGED <<answer, cookie>>
       \/ /\ call[p].kind \in {"callback", "app"} /\ owner = NoUser
          /\ To(p, "park") /\ UNCHANGED <<answer, cookie>>
       \/ call[p].kind = "bind" /\ owner = call[p].user /\ Answer(p, "alreadyBound")
       \/ call[p].kind = "bind" /\ owner \notin {call[p].user, NoUser} /\ Answer(p, "occupied")
       \/ call[p].kind = "bind" /\ owner = NoUser /\ To(p, "tx") /\ UNCHANGED <<answer, cookie>>
    /\ UNCHANGED <<stores, provider, rows, rowLock, claim, appToken, faults, sessions>>

\* loginBranch: the bound user must be open.
LoginBranch(p) ==
    /\ call[p].pc = "issue"
    /\ \/ /\ call[p].user \notin closed
          /\ loginCode' = SetOneTime(loginCode, call[p].tab, call[p].user)
          /\ Answer(p, "done") /\ UNCHANGED faults
       \/ call[p].user \in closed /\ Answer(p, "refused") /\ UNCHANGED <<loginCode, faults>>
       \/ Fault /\ Answer(p, "refused") /\ UNCHANGED loginCode
    /\ UNCHANGED <<state, parked, provider, rows, rowLock, claim, appToken, sessions>>

\* registrationBranch and appCodeRegistrationBranch.
RegistrationBranch(p) ==
    /\ call[p].pc = "park"
    /\ \/ parked' = SetOneTime(parked, call[p].tab, "live") /\ Answer(p, "done") /\ UNCHANGED faults
       \/ Fault /\ Answer(p, "refused") /\ UNCHANGED parked
    /\ UNCHANGED <<state, loginCode, provider, rows, rowLock, claim, appToken, sessions>>

\* Registration spends the parked identity, and its new user has the account
\* unless somebody took it meanwhile (Registration.tla).
RegisterParked(t) ==
    /\ PeekOneTime(parked, t) # NoPayload /\ claim = NoCall
    /\ parked' = GetDelOneTime(parked, t)
    /\ owner' = IF owner = NoUser THEN Newcomer ELSE owner
    /\ UNCHANGED <<state, loginCode, cookie, provider, second, closed, rowLock, claim, appToken, call, answer, faults, sessions>>

-----------------------------------------------------------------------------
(* Redemption of the login code. *)

\* The page presents its code; a reload that lost the verifier fails below.
ExchangeCode(p, t) ==
    /\ call[p].pc = "idle" /\ PeekOneTime(loginCode, t) # NoPayload
    /\ call' = [call EXCEPT ![p] = [Idle EXCEPT !.pc = "redeem", !.kind = "exchange", !.tab = t]]
    /\ answer' = [answer EXCEPT ![p] = "none"]
    /\ UNCHANGED <<stores, cookie, provider, rows, rowLock, claim, appToken, faults, sessions>>

\* Mutant: the code is read, and deleted only with the session.
PeekLoginCode(t) == loginCode

\* ConsumeLoginCode takes the code out before anything is verified.
ConsumeLoginCode(t) == GetDelOneTime(loginCode, t)

ExchangeVerify(p) ==
    LET t == call[p].tab  u == loginCode[t]  IN
    /\ call[p].pc = "redeem"
    /\ loginCode' = ConsumeLoginCode(t)
    /\ \/ u # NoPayload /\ u \notin closed
          /\ call' = [call EXCEPT ![p].pc = "pair", ![p].user = u] /\ UNCHANGED answer
       \/ Reply(p, "refused")
    /\ UNCHANGED <<state, parked, cookie, provider, rows, rowLock, claim, appToken, faults, sessions>>

\* CreatePair, and the device list after it (TokenFamilies, DeviceSessions).
CreatePair(p) ==
    /\ call[p].pc = "pair"
    /\ \/ sessions' = [sessions EXCEPT ![call[p].tab] = @ + 1] /\ Reply(p, "done") /\ UNCHANGED faults
       \/ Fault /\ Reply(p, "refused") /\ UNCHANGED sessions
    /\ UNCHANGED <<stores, cookie, provider, rows, rowLock, claim, appToken>>

-----------------------------------------------------------------------------
(* Binding, and what moves the rows meanwhile. *)

\* CreateWithinLimit: the row lock, then the count.
CreateWithinLimit(p) ==
    LET u == call[p].user  IN
    /\ rowLock[u] = NoCall
    /\ IF u \in second \/ owner = u THEN Reply(p, "alreadyBound") /\ UNCHANGED rowLock
       ELSE To(p, "insert") /\ rowLock' = [rowLock EXCEPT ![u] = p] /\ UNCHANGED answer

BindCount(p) ==
    /\ call[p].pc = "tx" /\ CreateWithinLimit(p)
    /\ UNCHANGED <<stores, cookie, provider, rows, claim, appToken, faults, sessions>>

Unlocked(p) == rowLock' = [u \in Users |-> IF rowLock[u] = p THEN NoCall ELSE rowLock[u]]

\* bindWriteError: which unique index was hit.
BindWriteError(p) ==
    IF call[p].user \in second \/ owner = call[p].user THEN "alreadyBound" ELSE "occupied"

\* The insert waits for an uncommitted one of the same provider account.
BindInsert(p) ==
    /\ call[p].pc = "insert" /\ claim = NoCall
    /\ IF owner = NoUser THEN claim' = p /\ To(p, "commit") /\ UNCHANGED <<rowLock, answer>>
                         ELSE Reply(p, BindWriteError(p)) /\ Unlocked(p) /\ UNCHANGED claim
    /\ UNCHANGED <<stores, cookie, provider, rows, appToken, faults, sessions>>

BindCommit(p) ==
    /\ call[p].pc = "commit"
    /\ \/ owner' = call[p].user /\ Reply(p, "bound") /\ UNCHANGED faults
       \/ Fault /\ Reply(p, "refused") /\ UNCHANGED owner
    /\ claim' = NoCall /\ Unlocked(p)
    /\ UNCHANGED <<stores, cookie, provider, second, closed, appToken, sessions>>

\* The user unbinds the account, or the account is closed.
Unbind(u) ==
    /\ owner = u /\ rowLock[u] = NoCall
    /\ owner' = NoUser
    /\ UNCHANGED <<stores, cookie, provider, second, closed, rowLock, claim, appToken, call, answer, faults, sessions>>
CloseUser(u) ==
    /\ u \notin closed /\ rowLock[u] = NoCall
    /\ closed' = closed \union {u}
    /\ UNCHANGED <<stores, cookie, provider, owner, second, rowLock, claim, appToken, call, answer, faults, sessions>>

-----------------------------------------------------------------------------
CallStep(p) ==
    \/ ConsumeOAuthState(p) \/ FetchAppAccessToken(p) \/ TokenExchange(p) \/ FetchUser(p)
    \/ RestoreStateAfterOutage(p) \/ FindByProviderID(p) \/ LoginBranch(p) \/ RegistrationBranch(p)
    \/ ExchangeVerify(p) \/ CreatePair(p) \/ BindCount(p) \/ BindInsert(p) \/ BindCommit(p)

Next ==
    \/ \E t \in Tabs : Authorize(t) \/ ProviderConsent(t) \/ ExpireState(t) \/ RegisterParked(t)
    \/ \E p \in Calls, t \in Tabs : \/ Callback(p, t) \/ CallbackDenied(p, t) \/ AppCodeLogin(p, t)
                                    \/ ExchangeCode(p, t) \/ \E u \in Users : Bind(p, u, t)
    \/ \E p \in Calls : CallStep(p) \/ TokenExchangeLost(p) \/ FetchUserLost(p) \/ ExchangeCanceled(p)
    \/ AppTokenFetched \/ AppTokenFailed \/ AppTokenExpires
    \/ \E u \in Users : Unbind(u) \/ CloseUser(u)

Spec == Init /\ [][Next]_vars

-----------------------------------------------------------------------------
(* Properties. *)

Holding(t) == {p \in Calls : /\ call[p].kind = "callback" /\ call[p].tab = t
                             /\ call[p].pc \in {"app", "wait", "token", "user", "outage"}}

(* However often a callback is sent, and although an outage puts the state     *)
(* back, one round trip at most is under way for it: the state is in Redis, or *)
(* with one callback, never both (ConsumeOAuthState, restoreStateAfterOutage). *)
StateInOneHand ==
    \A t \in Tabs : Cardinality(Holding(t)) + (IF state[t] # NoPayload THEN 1 ELSE 0) <= 1

(* A browser that is told of an outage can retry: when it keeps its cookie, the *)
(* state the cookie pairs with was written back, until it expires, is spent by *)
(* a copy of the callback, or the browser starts another login.                *)
OutageIsRetryable ==
    [][\A p \in Calls :
         (answer'[p] = "outage" /\ call[p].pc = "outage" /\ call'[p].pc = "idle" /\ call[p].kind = "callback")
           => (state'[call[p].tab] # NoPayload /\ cookie' = cookie)]_vars

(* One login code opens one session, however many tabs or retries present it   *)
(* at once (ConsumeLoginCode).                                                 *)
OneSessionPerCode == \A t \in Tabs : sessions[t] <= 1

(* A caller is told its request was cancelled only if it was its own: one that *)
(* shares the fetch of the app token is not failed by another caller leaving   *)
(* (fetchAppAccessToken).                                                      *)
CancelIsOwn ==
    [][\A p, q \in Calls : (p # q /\ call[p].pc # "idle" /\ call'[p].pc = "idle")
                             => (call'[q] = call[q] \/ call'[q].pc # "idle")]_vars

(* A user has one account of the provider, and a bind that is refused names    *)
(* the cause: the caller already has one, or another user has this one, also   *)
(* when the conflict appeared after the lookup (bindWriteError).               *)
ConflictNamesCause ==
    [][\A p \in Calls : call[p].kind = "bind" /\ call[p].pc # "idle" /\ call'[p].pc = "idle" =>
         LET u == call[p].user  IN
         /\ answer'[p] = "alreadyBound" => (owner = u \/ u \in second)
         /\ answer'[p] = "occupied" => owner \notin {u, NoUser}
         /\ answer'[p] = "bound" => u \notin second]_vars

(* What is to be used once is used once: the state of a round trip, and the      *)
(* login code.                                                                   *)
LoginsAreSingle == TypeOK /\ StateInOneHand /\ OneSessionPerCode

(* What a caller is told is true of its own request: that an outage can be       *)
(* retried, that it was cancelled, and why its bind was refused.                 *)
AnswersAreHonest == OutageIsRetryable /\ CancelIsOwn /\ ConflictNamesCause
=============================================================================
