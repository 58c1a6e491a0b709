------------------------ MODULE ThirdPartyLoginProofs ------------------------
(***************************************************************************)
(* Proofs about ThirdPartyLogin, for any number of calls, tabs, users and  *)
(* faults.                                                                 *)
(*                                                                         *)
(* Two things pass from hand to hand.  The state of a round trip is in     *)
(* Redis or with one callback.  The code of the provider is spent once,    *)
(* and what it buys is with one call, then in the login code, then with    *)
(* one redemption, and ends as a session.                                  *)
(***************************************************************************)
EXTENDS ThirdPartyLogin, FiniteSetTheorems, TLAPS

-----------------------------------------------------------------------------
(* The inductive invariant. *)

\* A call under way is for a tab that has had its code; what it looked up is so.
CallOK(p) ==
    LET c == call[p]
    IN  /\ c.pc # "idle" => c.tab \in Tabs /\ provider[c.tab] \in {"fresh", "spent"}
        /\ c.pc = "state" => c.kind = "callback"
        /\ c.pc = "issue" => c.user \in Users \union {Newcomer}
        /\ c.pc \in {"tx", "insert", "commit"} => c.kind = "bind"
        /\ c.pc \in {"insert", "commit"} => c.user \notin second

\* The state of t is in the hands of p.
Holds(p, t) ==
    /\ call[p].kind = "callback" /\ call[p].tab = t
    /\ call[p].pc \in {"app", "wait", "token", "user", "outage"}

StateOK(t) ==
    /\ \A p, q \in Calls : Holds(p, t) /\ Holds(q, t) => p = q
    /\ state[t] # NoPayload => provider[t] # "none" /\ \A p \in Calls : ~Holds(p, t)

\* p has what the code of t bought: the account, or the user of the login code.
Bought(p, t) == call[p].tab = t /\ call[p].pc \in {"user", "lookup", "issue", "pair"}

CodeOK(t) ==
    /\ \A p, q \in Calls : Bought(p, t) /\ Bought(q, t) => p = q
    /\ \A p \in Calls : Bought(p, t) => provider[t] = "spent" /\ loginCode[t] = NoPayload /\ sessions[t] = 0
    /\ loginCode[t] # NoPayload => provider[t] = "spent" /\ sessions[t] = 0
    /\ sessions[t] = 0 \/ (sessions[t] = 1 /\ provider[t] = "spent")

Inv ==
    /\ TypeOK /\ \A p \in Calls : CallOK(p)
    /\ \A t \in Tabs : StateOK(t) /\ CodeOK(t)

USE LoginAssumption

-----------------------------------------------------------------------------
(* How calls move. *)

LEMMA IdleTyped == Idle \in Call /\ Idle.pc = "idle"
  BY DEF Idle, Call, Steps, Kinds

LEMMA CallFacts ==
  ASSUME Inv, NEW p \in Calls
  PROVE  /\ TypeOK /\ CallOK(p) /\ call[p] \in Call /\ call[p].pc \in Steps /\ call[p].kind \in Kinds
         /\ call[p].tab \in Tabs \union {NoTab} /\ call[p].user \in Users \union {NoUser, Newcomer}
         /\ call[p].pc # "idle" => call[p].tab \in Tabs /\ provider[call[p].tab] \in {"fresh", "spent"}
  BY Zenon DEF Inv, TypeOK, CallOK, Call

LEMMA MovedFacts ==
  ASSUME Inv, NEW p \in Calls, NEW pc \in Steps, To(p, pc)
  PROVE  /\ call' \in [Calls -> Call] /\ \A q \in Calls \ {p} : call'[q] = call[q]
         /\ call'[p].pc = pc /\ call'[p].kind = call[p].kind /\ call'[p].tab = call[p].tab
         /\ call'[p].user = call[p].user
<1>1. call \in [Calls -> Call] /\ call[p] \in Call
  BY Zenon DEF Inv, TypeOK
<1>2. /\ call'[p] = [call[p] EXCEPT !.pc = pc, !.attempt = 1] /\ \A q \in Calls \ {p} : call'[q] = call[q]
      /\ DOMAIN call' = Calls
  BY <1>1, Zenon DEF To
<1>3. /\ call'[p] \in Call /\ call'[p].pc = pc /\ call'[p].kind = call[p].kind /\ call'[p].tab = call[p].tab
      /\ call'[p].user = call[p].user
  <2>1. 1 \in 1..2
    OBVIOUS
  <2>2. ASSUME NEW r \in Call, NEW s, s = [r EXCEPT !.pc = pc, !.attempt = 1]
        PROVE  s \in Call /\ s.pc = pc /\ s.kind = r.kind /\ s.tab = r.tab /\ s.user = r.user
    BY <2>1, <2>2, Zenon DEF Call
  <2>. QED BY <1>1, <1>2, <2>2, Zenon
<1>4. call' \in [Calls -> Call]
  BY <1>1, <1>2, <1>3, Zenon DEF To
<1>. QED BY <1>2, <1>3, <1>4, Zenon

LEMMA ReplyFacts ==
  ASSUME Inv, NEW p \in Calls, NEW a \in Answers, Reply(p, a)
  PROVE  /\ call' \in [Calls -> Call] /\ \A q \in Calls \ {p} : call'[q] = call[q]
         /\ call'[p] = Idle /\ call'[p].pc = "idle" /\ answer' \in [Calls -> Answers] /\ answer'[p] = a
  BY IdleTyped, Zenon DEF Inv, TypeOK, Reply

LEMMA FaultTyped == Inv /\ Fault => faults' \in 0..MaxFaults
  BY DEF Inv, TypeOK, Fault

LEMMA CookieTyped ==
  ASSUME Inv, NEW p, NEW a, CookieAfter(p, a) PROVE cookie' \in Tabs \union {NoTab}
  BY Zenon DEF Inv, TypeOK, CookieAfter

-----------------------------------------------------------------------------
(* What the parts of the invariant rest on. *)

\* The codes of the provider only go from one stage to the next.
ProviderMoves ==
    \A t \in Tabs : /\ provider[t] # "none" => provider'[t] # "none"
                    /\ provider[t] \in {"fresh", "spent"} => provider'[t] \in {"fresh", "spent"}
                    /\ provider[t] = "spent" => provider'[t] = "spent"

\* p gets nothing of t that it has not had.
NoGain(p, t) == (Holds(p, t)' => Holds(p, t)) /\ (Bought(p, t)' => Bought(p, t))

StateQuiet(t) == state'[t] \in {state[t], NoPayload}
CodeQuiet(t) == loginCode'[t] \in {loginCode[t], NoPayload} /\ sessions'[t] = sessions[t]

LEMMA SameCall ==
  ASSUME Inv, NEW p \in Calls, call'[p] = call[p]
  PROVE  /\ \A t : (Holds(p, t)' <=> Holds(p, t)) /\ (Bought(p, t)' <=> Bought(p, t))
         /\ ProviderMoves /\ UNCHANGED second => CallOK(p)'
<1>1. \A t : (Holds(p, t)' <=> Holds(p, t)) /\ (Bought(p, t)' <=> Bought(p, t))
  BY Zenon DEF Holds, Bought
<1>2. ASSUME ProviderMoves, UNCHANGED second PROVE CallOK(p)'
  <2>1. CallOK(p)
    BY Zenon DEF Inv
  <2>. QED BY <1>2, <2>1, Zenon DEF CallOK, ProviderMoves
<1>. QED BY <1>1, <1>2, Zenon

LEMMA StateKept ==
  ASSUME NEW t \in Tabs, StateOK(t), ProviderMoves, StateQuiet(t), \A p \in Calls : Holds(p, t)' => Holds(p, t)
  PROVE  StateOK(t)'
  BY Zenon DEF StateOK, ProviderMoves, StateQuiet

LEMMA CodeKept ==
  ASSUME NEW t \in Tabs, CodeOK(t), ProviderMoves, CodeQuiet(t), \A p \in Calls : Bought(p, t)' => Bought(p, t)
  PROVE  CodeOK(t)'
<1>1. \A p, q \in Calls : Bought(p, t)' /\ Bought(q, t)' => p = q
  BY Zenon DEF CodeOK
<1>2. provider[t] = "spent" => provider'[t] = "spent"
  BY Zenon DEF ProviderMoves
<1>3. loginCode[t] = NoPayload => loginCode'[t] = NoPayload
  BY Zenon DEF CodeQuiet
<1>4. sessions'[t] = sessions[t]
  BY Zenon DEF CodeQuiet
<1>5. \A p \in Calls : Bought(p, t)' => provider'[t] = "spent" /\ loginCode'[t] = NoPayload /\ sessions'[t] = 0
  BY <1>2, <1>3, <1>4, Zenon DEF CodeOK
<1>6. loginCode'[t] # NoPayload => provider'[t] = "spent" /\ sessions'[t] = 0
  BY <1>2, <1>3, <1>4, Zenon DEF CodeOK
<1>7. sessions'[t] = 0 \/ (sessions'[t] = 1 /\ provider'[t] = "spent")
  BY <1>2, <1>4, Zenon DEF CodeOK
<1>. QED BY <1>1, <1>5, <1>6, <1>7, Zenon DEF CodeOK

\* A step of p that hands nothing over.
LEMMA QuietInv ==
  ASSUME Inv, TypeOK', NEW p \in Calls, \A q \in Calls \ {p} : call'[q] = call[q], CallOK(p)',
         UNCHANGED second, ProviderMoves, \A t \in Tabs : NoGain(p, t) /\ StateQuiet(t) /\ CodeQuiet(t)
  PROVE  Inv'
<1>1. ASSUME NEW q \in Calls PROVE CallOK(q)' /\ \A t \in Tabs : (Holds(q, t)' => Holds(q, t)) /\ (Bought(q, t)' => Bought(q, t))
  <2>1. CASE q = p
    BY <2>1, Zenon DEF NoGain
  <2>2. CASE q # p
    BY <2>2, SameCall, Zenon
  <2>. QED BY <2>1, <2>2, Zenon
<1>2. ASSUME NEW t \in Tabs PROVE StateOK(t)' /\ CodeOK(t)'
  <2>1. StateOK(t) /\ CodeOK(t)
    BY Zenon DEF Inv
  <2>. QED BY <1>1, <2>1, StateKept, CodeKept, Zenon
<1>. QED BY <1>1, <1>2, Zenon DEF Inv

\* A step that moves no call.
LEMMA StillInv ==
  ASSUME Inv, TypeOK', UNCHANGED <<call, second>>, ProviderMoves,
         \A t \in Tabs : StateOK(t)' \/ StateQuiet(t), \A t \in Tabs : CodeQuiet(t)
  PROVE  Inv'
<1>1. \A q \in Calls : CallOK(q)' /\ \A t \in Tabs : (Holds(q, t)' => Holds(q, t)) /\ (Bought(q, t)' => Bought(q, t))
  BY SameCall, Zenon
<1>2. ASSUME NEW t \in Tabs PROVE StateOK(t)' /\ CodeOK(t)'
  <2>1. StateOK(t) /\ CodeOK(t)
    BY Zenon DEF Inv
  <2>. QED BY <1>1, <2>1, StateKept, CodeKept, Zenon
<1>. QED BY <1>1, <1>2, Zenon DEF Inv

LEMMA IdleGains ==
  ASSUME NEW p \in Calls, call'[p].pc = "idle"
  PROVE  CallOK(p)' /\ \A t : NoGain(p, t) /\ ~Holds(p, t)' /\ ~Bought(p, t)'
  BY Zenon DEF CallOK, NoGain, Holds, Bought

\* A step of p that ends its call and hands nothing over.
LEMMA EndInv ==
  ASSUME Inv, TypeOK', NEW p \in Calls, NEW a \in Answers, Reply(p, a),
         UNCHANGED second, ProviderMoves, \A t \in Tabs : StateQuiet(t) /\ CodeQuiet(t)
  PROVE  Inv'
  BY ReplyFacts, IdleGains, QuietInv, Zenon

-----------------------------------------------------------------------------
(* The authorize leg, the provider, and what moves no call. *)

LEMMA AuthorizeInv == ASSUME Inv, NEW t \in Tabs, Authorize(t) PROVE Inv'
<1>1. /\ state' \in [Tabs -> {NoPayload, "live"}] /\ provider' \in [Tabs -> {"none", "asked", "fresh", "spent"}]
      /\ ProviderMoves /\ provider'[t] # "none" /\ \A u \in Tabs \ {t} : state'[u] = state[u]
  BY Zenon DEF Inv, TypeOK, Authorize, SetOneTime, ProviderMoves
<1>2. TypeOK'
  BY <1>1, Zenon DEF Inv, TypeOK, Authorize, rows
<1>3. \A p \in Calls : ~Holds(p, t)
  BY CallFacts, Zenon DEF Authorize, Holds
<1>4. StateOK(t)'
  BY <1>1, <1>3, Zenon DEF Authorize, StateOK, Holds
<1>5. \A u \in Tabs : StateOK(u)' \/ StateQuiet(u)
  BY <1>1, <1>4, Zenon DEF StateQuiet
<1>6. \A u \in Tabs : CodeQuiet(u)
  BY Zenon DEF Authorize, CodeQuiet
<1>. QED BY <1>1, <1>2, <1>5, <1>6, StillInv, Zenon DEF Authorize, rows

LEMMA ProviderConsentInv == ASSUME Inv, NEW t \in Tabs, ProviderConsent(t) PROVE Inv'
<1>1. provider' \in [Tabs -> {"none", "asked", "fresh", "spent"}] /\ ProviderMoves
  BY Zenon DEF Inv, TypeOK, ProviderConsent, ProviderMoves
<1>2. TypeOK'
  BY <1>1, Zenon DEF Inv, TypeOK, ProviderConsent, stores, rows
<1>. QED BY <1>1, <1>2, StillInv, Zenon DEF ProviderConsent, stores, rows, StateQuiet, CodeQuiet

\* Steps that leave the provider, the login codes and the calls alone.
LEMMA AsideInv ==
  ASSUME Inv, \/ \E t \in Tabs : ExpireState(t) \/ RegisterParked(t)
              \/ \E p \in Calls, t \in Tabs : CallbackDenied(p, t)
              \/ AppTokenExpires
              \/ \E u \in Users : Unbind(u) \/ CloseUser(u)
              \/ UNCHANGED vars
  PROVE  Inv'
<1>1. /\ UNCHANGED <<call, second, provider, loginCode, sessions>>
      /\ state' = state \/ \E t \in Tabs : state' = [state EXCEPT ![t] = NoPayload]
  BY Zenon DEF ExpireState, RegisterParked, CallbackDenied, AppTokenExpires, Unbind, CloseUser, GetDelOneTime, rows, stores, vars
<1>2. state' \in [Tabs -> {NoPayload, "live"}] /\ \A t \in Tabs : state'[t] \in {state[t], NoPayload}
  BY <1>1, Zenon DEF Inv, TypeOK
<1>3. /\ parked' \in [Tabs -> {NoPayload, "live"}] /\ cookie' \in Tabs \union {NoTab}
      /\ owner' \in Users \union {NoUser, Newcomer} /\ closed' \subseteq Users
  BY Zenon DEF Inv, TypeOK, ExpireState, RegisterParked, CallbackDenied, AppTokenExpires, Unbind, CloseUser, GetDelOneTime, rows, stores, vars
<1>4. /\ UNCHANGED <<rowLock, claim, faults>> /\ appToken' \in {"none", "live", "fetching"}
      /\ answer' \in [Calls -> Answers]
  BY Zenon DEF Inv, TypeOK, ExpireState, RegisterParked, CallbackDenied, AppTokenExpires, Unbind, CloseUser, Answers, vars
<1>5. TypeOK'
  BY <1>1, <1>2, <1>3, <1>4, Zenon DEF Inv, TypeOK
<1>. QED BY <1>1, <1>2, <1>5, StillInv, Zenon DEF ProviderMoves, StateQuiet, CodeQuiet

-----------------------------------------------------------------------------
(* Calls that arrive. *)

\* A call starts for a tab whose code is out.
Started(p, pc, kind, t, u) ==
    /\ call' \in [Calls -> Call] /\ \A q \in Calls \ {p} : call'[q] = call[q]
    /\ call'[p].pc = pc /\ call'[p].kind = kind /\ call'[p].tab = t /\ call'[p].user = u

LEMMA StartFacts ==
  ASSUME Inv, NEW p \in Calls, NEW r \in Call, call' = [call EXCEPT ![p] = r]
  PROVE  Started(p, r.pc, r.kind, r.tab, r.user)
  BY Zenon DEF Inv, TypeOK, Started

LEMMA StartInv ==
  ASSUME Inv, TypeOK', NEW p \in Calls, NEW t \in Tabs, NEW kind \in Kinds, NEW u,
         NEW pc \in {"state", "app", "redeem"}, Started(p, pc, kind, t, u),
         pc = "state" => kind = "callback", kind = "callback" => pc # "app",
         UNCHANGED <<state, loginCode, sessions, second>>, ProviderMoves, provider'[t] \in {"fresh", "spent"}
  PROVE  Inv'
<1>1. CallOK(p)'
  BY Zenon DEF CallOK, Started
<1>2. \A x \in Tabs : NoGain(p, x)
  BY Zenon DEF NoGain, Holds, Bought, Started
<1>. QED BY <1>1, <1>2, QuietInv, Zenon DEF Started, StateQuiet, CodeQuiet

LEMMA CallbackInv == ASSUME Inv, NEW p \in Calls, NEW t \in Tabs, Callback(p, t) PROVE Inv'
<1>. DEFINE r == [Idle EXCEPT !.pc = "state", !.kind = "callback", !.tab = t, !.cookie = cookie]
<1>0. r \in Call /\ r.pc = "state" /\ r.kind = "callback" /\ r.tab = t
  <2>1. ASSUME NEW i \in Call, NEW s, s = [i EXCEPT !.pc = "state", !.kind = "callback", !.tab = t, !.cookie = cookie]
        PROVE  s \in Call /\ s.pc = "state" /\ s.kind = "callback" /\ s.tab = t
    BY <2>1, Zenon DEF Inv, TypeOK, Call, Steps, Kinds
  <2>. QED BY IdleTyped, <2>1, Zenon
<1>. HIDE DEF r
<1>1. Started(p, "state", "callback", t, r.user)
  BY <1>0, StartFacts, ZenonT(60) DEF Callback, r
<1>2. answer' \in [Calls -> Answers]
  BY Zenon DEF Inv, TypeOK, Callback, Answers
<1>3. TypeOK'
  BY <1>1, <1>2, Zenon DEF Inv, TypeOK, Callback, stores, rows, Started
<1>. QED BY <1>1, <1>3, StartInv, Zenon DEF Callback, stores, rows, Kinds, ProviderMoves

LEMMA AppCodeLoginInv == ASSUME Inv, NEW p \in Calls, NEW t \in Tabs, AppCodeLogin(p, t) PROVE Inv'
<1>. DEFINE r == [Idle EXCEPT !.pc = "app", !.kind = "app", !.tab = t]
<1>0. r \in Call /\ r.pc = "app" /\ r.kind = "app" /\ r.tab = t
  <2>1. ASSUME NEW i \in Call, NEW s, s = [i EXCEPT !.pc = "app", !.kind = "app", !.tab = t]
        PROVE  s \in Call /\ s.pc = "app" /\ s.kind = "app" /\ s.tab = t
    BY <2>1, Zenon DEF Call, Steps, Kinds
  <2>. QED BY IdleTyped, <2>1, Zenon
<1>. HIDE DEF r
<1>1. Started(p, "app", "app", t, r.user)
  BY <1>0, StartFacts, Zenon DEF AppCodeLogin, r
<1>2. /\ answer' \in [Calls -> Answers] /\ provider' \in [Tabs -> {"none", "asked", "fresh", "spent"}]
      /\ ProviderMoves /\ provider'[t] = "fresh"
  BY Zenon DEF Inv, TypeOK, AppCodeLogin, Answers, ProviderMoves
<1>3. TypeOK'
  BY <1>1, <1>2, Zenon DEF Inv, TypeOK, AppCodeLogin, stores, rows, Started
<1>. QED BY <1>1, <1>2, <1>3, StartInv, Zenon DEF AppCodeLogin, stores, rows, Kinds

LEMMA BindInv == ASSUME Inv, NEW p \in Calls, NEW t \in Tabs, NEW u \in Users, Bind(p, u, t) PROVE Inv'
<1>. DEFINE r == [Idle EXCEPT !.pc = "app", !.kind = "bind", !.tab = t, !.user = u]
<1>0. r \in Call /\ r.pc = "app" /\ r.kind = "bind" /\ r.tab = t /\ r.user = u
  <2>1. ASSUME NEW i \in Call, NEW s, s = [i EXCEPT !.pc = "app", !.kind = "bind", !.tab = t, !.user = u]
        PROVE  s \in Call /\ s.pc = "app" /\ s.kind = "bind" /\ s.tab = t /\ s.user = u
    BY <2>1, Zenon DEF Call, Steps, Kinds
  <2>. QED BY IdleTyped, <2>1, Zenon
<1>. HIDE DEF r
<1>1. Started(p, "app", "bind", t, u)
  BY <1>0, StartFacts, Zenon DEF Bind, r
<1>2. /\ answer' \in [Calls -> Answers] /\ provider' \in [Tabs -> {"none", "asked", "fresh", "spent"}]
      /\ ProviderMoves /\ provider'[t] = "fresh"
  BY Zenon DEF Inv, TypeOK, Bind, Answers, ProviderMoves
<1>3. TypeOK'
  BY <1>1, <1>2, Zenon DEF Inv, TypeOK, Bind, stores, rows, Started
<1>. QED BY <1>1, <1>2, <1>3, StartInv, Zenon DEF Bind, stores, rows, Kinds

LEMMA ExchangeCodeInv == ASSUME Inv, NEW p \in Calls, NEW t \in Tabs, ExchangeCode(p, t) PROVE Inv'
<1>. DEFINE r == [Idle EXCEPT !.pc = "redeem", !.kind = "exchange", !.tab = t]
<1>0. r \in Call /\ r.pc = "redeem" /\ r.kind = "exchange" /\ r.tab = t
  <2>1. ASSUME NEW i \in Call, NEW s, s = [i EXCEPT !.pc = "redeem", !.kind = "exchange", !.tab = t]
        PROVE  s \in Call /\ s.pc = "redeem" /\ s.kind = "exchange" /\ s.tab = t
    BY <2>1, Zenon DEF Call, Steps, Kinds
  <2>. QED BY IdleTyped, <2>1, Zenon
<1>. HIDE DEF r
<1>1. Started(p, "redeem", "exchange", t, r.user)
  BY <1>0, StartFacts, Zenon DEF ExchangeCode, r
<1>2. answer' \in [Calls -> Answers] /\ provider'[t] = "spent"
  BY Zenon DEF Inv, TypeOK, ExchangeCode, Answers, PeekOneTime, CodeOK
<1>3. TypeOK'
  BY <1>1, <1>2, Zenon DEF Inv, TypeOK, ExchangeCode, stores, rows, Started
<1>. QED BY <1>1, <1>2, <1>3, StartInv, Zenon DEF ExchangeCode, stores, rows, Kinds, ProviderMoves

-----------------------------------------------------------------------------
(* Calls that go on, or end, and hand nothing over. *)

InExchange == {"app", "wait", "token", "user", "outage"}
HasBought == {"user", "lookup", "issue", "pair"}

\* A step of p that takes its call to pc.
LEMMA MoveInv ==
  ASSUME Inv, TypeOK', NEW p \in Calls, call[p].pc # "idle", NEW pc \in Steps \ {"state", "issue"}, To(p, pc),
         UNCHANGED second, ProviderMoves, \A t \in Tabs : StateQuiet(t) /\ CodeQuiet(t),
         pc \in InExchange => call[p].pc \in InExchange, pc \in HasBought => call[p].pc \in HasBought,
         pc \in {"tx", "insert", "commit"} => call[p].kind = "bind",
         pc \in {"insert", "commit"} => call[p].user \notin second
  PROVE  Inv'
<1>1. /\ \A q \in Calls \ {p} : call'[q] = call[q]
      /\ call'[p].pc = pc /\ call'[p].kind = call[p].kind
      /\ call'[p].tab = call[p].tab /\ call'[p].user = call[p].user
  BY MovedFacts, Zenon
<1>2. CallOK(p)'
  <2>1. call[p].tab \in Tabs /\ provider'[call[p].tab] \in {"fresh", "spent"} /\ CallOK(p)
    BY CallFacts, Zenon DEF ProviderMoves
  <2>. QED BY <1>1, <2>1, Zenon DEF CallOK
<1>3. \A t \in Tabs : NoGain(p, t)
  BY <1>1, Zenon DEF NoGain, Holds, Bought, InExchange, HasBought
<1>. QED BY <1>1, <1>2, <1>3, QuietInv, Zenon

LEMMA FetchAppAccessTokenInv == ASSUME Inv, NEW p \in Calls, FetchAppAccessToken(p) PROVE Inv'
<1>1. PICK pc \in {"token", "wait"} : To(p, pc) /\ appToken' \in {appToken, "fetching"}
  BY Zenon DEF FetchAppAccessToken
<1>2. pc \in Steps
  BY Zenon DEF Steps
<1>3. TypeOK'
  BY <1>1, <1>2, MovedFacts, Zenon DEF Inv, TypeOK, FetchAppAccessToken, stores, rows
<1>. QED BY <1>1, <1>2, <1>3, MoveInv, Zenon
     DEF FetchAppAccessToken, stores, rows, ProviderMoves, StateQuiet, CodeQuiet, InExchange, HasBought

\* The attempt is no part of what the invariant says.
LEMMA RetryFacts ==
  ASSUME Inv, NEW p \in Calls, call' = [call EXCEPT ![p].attempt = 2]
  PROVE  /\ call' \in [Calls -> Call] /\ \A q \in Calls \ {p} : call'[q] = call[q]
         /\ call'[p].pc = call[p].pc /\ call'[p].kind = call[p].kind /\ call'[p].tab = call[p].tab
         /\ call'[p].user = call[p].user
<1>1. call \in [Calls -> Call] /\ call[p] \in Call
  BY Zenon DEF Inv, TypeOK
<1>2. /\ call'[p] = [call[p] EXCEPT !.attempt = 2] /\ \A q \in Calls \ {p} : call'[q] = call[q]
      /\ DOMAIN call' = Calls
  BY <1>1, Zenon
<1>3. /\ call'[p] \in Call /\ call'[p].pc = call[p].pc /\ call'[p].kind = call[p].kind
      /\ call'[p].tab = call[p].tab /\ call'[p].user = call[p].user
  <2>1. 2 \in 1..2
    OBVIOUS
  <2>2. ASSUME NEW r \in Call, NEW s, s = [r EXCEPT !.attempt = 2]
        PROVE  s \in Call /\ s.pc = r.pc /\ s.kind = r.kind /\ s.tab = r.tab /\ s.user = r.user
    BY <2>1, <2>2, Zenon DEF Call
  <2>. QED BY <1>1, <1>2, <2>2
<1>4. call' \in [Calls -> Call]
  BY <1>1, <1>2, <1>3, Zenon
<1>. QED BY <1>2, <1>3, <1>4, Zenon

LEMMA DoJSONRetryInv ==
  ASSUME Inv, NEW p \in Calls, call[p].pc \in {"token", "user"}, DoJSONRetry(p), Fault, ProviderMoves,
         provider' \in [Tabs -> {"none", "asked", "fresh", "spent"}],
         UNCHANGED <<stores, cookie, rows, rowLock, claim, appToken, answer, sessions>>
  PROVE  Inv'
<1>1. "outage" \in Steps
  BY Zenon DEF Steps
<1>2. call' \in [Calls -> Call]
  BY <1>1, RetryFacts, MovedFacts, Zenon DEF DoJSONRetry
<1>3. TypeOK'
  BY <1>2, FaultTyped, Zenon DEF Inv, TypeOK, stores, rows
<1>4. \A t \in Tabs : StateQuiet(t) /\ CodeQuiet(t)
  BY Zenon DEF StateQuiet, CodeQuiet, stores
<1>5. CASE call' = [call EXCEPT ![p].attempt = 2]
  <2>1. CallOK(p)'
    <3>1. /\ call'[p].pc = call[p].pc /\ call'[p].kind = call[p].kind /\ call'[p].tab = call[p].tab
          /\ call'[p].user = call[p].user
      BY <1>5, RetryFacts, Zenon
    <3>2. call[p].tab \in Tabs /\ provider'[call[p].tab] \in {"fresh", "spent"} /\ CallOK(p)
      BY CallFacts, Zenon DEF ProviderMoves
    <3>. QED BY <3>1, <3>2, Zenon DEF CallOK, rows
  <2>2. \A t \in Tabs : NoGain(p, t)
    BY <1>5, RetryFacts, Zenon DEF NoGain, Holds, Bought
  <2>3. \A q \in Calls \ {p} : call'[q] = call[q]
    BY <1>5, RetryFacts, Zenon
  <2>. QED BY <1>3, <1>4, <2>1, <2>2, <2>3, QuietInv, Zenon DEF rows
<1>6. CASE To(p, "outage")
  BY <1>1, <1>3, <1>4, <1>6, MoveInv, Zenon DEF rows, InExchange, HasBought
<1>. QED BY <1>5, <1>6, Zenon DEF DoJSONRetry

LEMMA TokenExchangeLostInv == ASSUME Inv, NEW p \in Calls, TokenExchangeLost(p) PROVE Inv'
<1>1. call[p].tab \in Tabs
  BY CallFacts, Zenon DEF TokenExchangeLost
<1>2. PICK seen \in {provider[call[p].tab], "spent"} : provider' = [provider EXCEPT ![call[p].tab] = seen]
  BY Zenon DEF TokenExchangeLost
<1>3. provider' \in [Tabs -> {"none", "asked", "fresh", "spent"}] /\ ProviderMoves
  BY <1>1, <1>2, Zenon DEF Inv, TypeOK, ProviderMoves
<1>. QED BY <1>3, DoJSONRetryInv, Zenon DEF TokenExchangeLost

LEMMA FetchUserLostInv == ASSUME Inv, NEW p \in Calls, FetchUserLost(p) PROVE Inv'
<1>1. provider' \in [Tabs -> {"none", "asked", "fresh", "spent"}] /\ ProviderMoves
  BY Zenon DEF Inv, TypeOK, ProviderMoves, FetchUserLost
<1>. QED BY <1>1, DoJSONRetryInv, Zenon DEF FetchUserLost

LEMMA AnswersTyped == {"done", "bound", "occupied", "alreadyBound", "outage", "refused"} \subseteq Answers
  BY Zenon DEF Answers

LEMMA FetchUserInv == ASSUME Inv, NEW p \in Calls, FetchUser(p) PROVE Inv'
<1>1. ProviderMoves /\ UNCHANGED second /\ \A t \in Tabs : StateQuiet(t) /\ CodeQuiet(t)
  BY Zenon DEF FetchUser, stores, rows, ProviderMoves, StateQuiet, CodeQuiet
<1>2. CASE To(p, "lookup") /\ UNCHANGED <<answer, cookie>>
  <2>1. "lookup" \in Steps
    BY Zenon DEF Steps
  <2>2. TypeOK'
    BY <1>2, <2>1, MovedFacts, Zenon DEF Inv, TypeOK, FetchUser, stores, rows
  <2>. QED BY <1>1, <1>2, <2>1, <2>2, MoveInv, Zenon DEF FetchUser, InExchange, HasBought
<1>3. CASE Answer(p, "refused")
  <2>1. TypeOK'
    BY <1>3, AnswersTyped, ReplyFacts, CookieTyped, Zenon DEF Inv, TypeOK, FetchUser, stores, rows, Answer
  <2>. QED BY <1>1, <1>3, <2>1, AnswersTyped, EndInv, Zenon DEF Answer
<1>. QED BY <1>2, <1>3, Zenon DEF FetchUser

LEMMA ExchangeCanceledInv == ASSUME Inv, NEW p \in Calls, ExchangeCanceled(p) PROVE Inv'
<1>1. ProviderMoves /\ UNCHANGED second /\ \A t \in Tabs : StateQuiet(t) /\ CodeQuiet(t)
  BY Zenon DEF ExchangeCanceled, stores, rows, ProviderMoves, StateQuiet, CodeQuiet
<1>2. Reply(p, "refused") /\ UNCHANGED appToken
  BY Zenon DEF ExchangeCanceled, FlightSurvives
<1>3. cookie' \in Tabs \union {NoTab}
  <2>1. cookie \in Tabs \union {NoTab}
    BY Zenon DEF Inv, TypeOK
  <2>. QED BY <2>1, CookieTyped, Zenon DEF ExchangeCanceled
<1>4. TypeOK'
  BY <1>2, <1>3, AnswersTyped, ReplyFacts, FaultTyped, Zenon DEF Inv, TypeOK, ExchangeCanceled, stores, rows
<1>. QED BY <1>1, <1>2, <1>4, AnswersTyped, EndInv, Zenon

\* A step that takes a call to pc with the user it found.
LEMMA TakenFacts ==
  ASSUME Inv, NEW p \in Calls, NEW pc \in Steps, NEW u \in Users \union {NoUser, Newcomer},
         call' = [call EXCEPT ![p].pc = pc, ![p].user = u]
  PROVE  /\ call' \in [Calls -> Call] /\ \A q \in Calls \ {p} : call'[q] = call[q]
         /\ call'[p].pc = pc /\ call'[p].kind = call[p].kind /\ call'[p].tab = call[p].tab
         /\ call'[p].user = u
<1>1. call \in [Calls -> Call] /\ call[p] \in Call
  BY Zenon DEF Inv, TypeOK
<1>2. /\ call'[p] = [call[p] EXCEPT !.pc = pc, !.user = u] /\ \A q \in Calls \ {p} : call'[q] = call[q]
      /\ DOMAIN call' = Calls
  BY <1>1, Zenon
<1>3. /\ call'[p] \in Call /\ call'[p].pc = pc /\ call'[p].kind = call[p].kind /\ call'[p].tab = call[p].tab
      /\ call'[p].user = u
  <2>1. ASSUME NEW r \in Call, NEW s, s = [r EXCEPT !.pc = pc, !.user = u]
        PROVE  s \in Call /\ s.pc = pc /\ s.kind = r.kind /\ s.tab = r.tab /\ s.user = u
    BY <2>1, Zenon DEF Call
  <2>. QED BY <1>1, <1>2, <2>1
<1>4. call' \in [Calls -> Call]
  BY <1>1, <1>2, <1>3
<1>. QED BY <1>2, <1>3, <1>4, Zenon

LEMMA FindByProviderIDInv == ASSUME Inv, NEW p \in Calls, FindByProviderID(p) PROVE Inv'
<1>1. ProviderMoves /\ UNCHANGED second /\ \A t \in Tabs : StateQuiet(t) /\ CodeQuiet(t)
  BY Zenon DEF FindByProviderID, stores, rows, ProviderMoves, StateQuiet, CodeQuiet
<1>2. call[p].pc = "lookup" /\ {"issue", "park", "tx"} \subseteq Steps /\ owner \in Users \union {NoUser, Newcomer}
  BY Zenon DEF FindByProviderID, Steps, Inv, TypeOK
<1>3. CASE /\ call[p].kind \in {"callback", "app"} /\ owner # NoUser
           /\ call' = [call EXCEPT ![p].pc = "issue", ![p].user = owner] /\ UNCHANGED <<answer, cookie>>
  <2>1. /\ call' \in [Calls -> Call] /\ \A q \in Calls \ {p} : call'[q] = call[q]
        /\ call'[p].pc = "issue" /\ call'[p].kind = call[p].kind /\ call'[p].tab = call[p].tab
        /\ call'[p].user = owner
    BY <1>2, <1>3, TakenFacts
  <2>2. TypeOK'
    BY <1>3, <2>1, Zenon DEF Inv, TypeOK, FindByProviderID, stores, rows
  <2>3. CallOK(p)'
    <3>1. call[p].tab \in Tabs /\ provider'[call[p].tab] \in {"fresh", "spent"}
      BY <1>1, <1>2, CallFacts, Zenon DEF ProviderMoves
    <3>. QED BY <1>2, <1>3, <2>1, <3>1, Zenon DEF CallOK
  <2>4. \A t \in Tabs : NoGain(p, t)
    BY <1>2, <2>1, Zenon DEF NoGain, Holds, Bought
  <2>5. \A q \in Calls \ {p} : call'[q] = call[q]
    BY <2>1, Zenon
  <2>. QED BY <1>1, <2>2, <2>3, <2>4, <2>5, QuietInv, Zenon
<1>4. ASSUME NEW pc \in {"park", "tx"}, To(p, pc), UNCHANGED <<answer, cookie>>, pc = "tx" => call[p].kind = "bind"
      PROVE  Inv'
  <2>1. pc \in Steps \ {"state", "issue"}
    BY Zenon DEF Steps
  <2>2. TypeOK'
    BY <1>4, <2>1, MovedFacts, Zenon DEF Inv, TypeOK, FindByProviderID, stores, rows
  <2>. QED BY <1>1, <1>2, <1>4, <2>1, <2>2, MoveInv, Zenon DEF InExchange, HasBought
<1>5. ASSUME NEW a \in {"alreadyBound", "occupied"}, Answer(p, a) PROVE Inv'
  <2>1. a \in Answers
    BY AnswersTyped, Zenon
  <2>2. TypeOK'
    BY <1>5, <2>1, ReplyFacts, CookieTyped, Zenon DEF Inv, TypeOK, FindByProviderID, stores, rows, Answer
  <2>. QED BY <1>1, <1>5, <2>1, <2>2, EndInv, Zenon DEF Answer
<1>. QED BY <1>3, <1>4, <1>5, Zenon DEF FindByProviderID

LEMMA RegistrationBranchInv == ASSUME Inv, NEW p \in Calls, RegistrationBranch(p) PROVE Inv'
<1>1. ProviderMoves /\ UNCHANGED second /\ \A t \in Tabs : StateQuiet(t) /\ CodeQuiet(t)
  BY Zenon DEF RegistrationBranch, rows, ProviderMoves, StateQuiet, CodeQuiet
<1>2. PICK a \in {"done", "refused"} : Answer(p, a)
  BY Zenon DEF RegistrationBranch
<1>3. parked' \in [Tabs -> {NoPayload, "live"}] /\ faults' \in 0..MaxFaults
  BY FaultTyped, Zenon DEF Inv, TypeOK, RegistrationBranch, SetOneTime
<1>4. a \in Answers /\ TypeOK'
  BY <1>2, <1>3, AnswersTyped, ReplyFacts, CookieTyped DEF Inv, TypeOK, RegistrationBranch, rows, Answer
<1>. QED BY <1>1, <1>2, <1>4, EndInv, Zenon DEF Answer

-----------------------------------------------------------------------------
(* The transaction of a bind. *)

LEMMA UnlockedTyped == ASSUME Inv, NEW p, Unlocked(p) PROVE rowLock' \in [Users -> Calls \union {NoCall}]
  BY Zenon DEF Inv, TypeOK, Unlocked

LEMMA BindCountInv == ASSUME Inv, NEW p \in Calls, BindCount(p) PROVE Inv'
<1>1. ProviderMoves /\ UNCHANGED second /\ \A t \in Tabs : StateQuiet(t) /\ CodeQuiet(t)
  BY Zenon DEF BindCount, stores, rows, ProviderMoves, StateQuiet, CodeQuiet
<1>2. call[p].pc = "tx" /\ "insert" \in Steps /\ call[p].kind = "bind"
  BY CallFacts, Zenon DEF BindCount, CallOK, Steps
<1>3. rowLock' \in [Users -> Calls \union {NoCall}]
  BY DEF Inv, TypeOK, BindCount, CreateWithinLimit
<1>4. CASE Reply(p, "alreadyBound")
  <2>1. TypeOK'
    BY <1>3, <1>4, AnswersTyped, ReplyFacts, Zenon DEF Inv, TypeOK, BindCount, stores, rows
  <2>. QED BY <1>1, <1>4, <2>1, AnswersTyped, EndInv, Zenon
<1>5. CASE To(p, "insert") /\ UNCHANGED answer /\ call[p].user \notin second
  <2>1. TypeOK'
    BY <1>2, <1>3, <1>5, MovedFacts, Zenon DEF Inv, TypeOK, BindCount, stores, rows
  <2>. QED BY <1>1, <1>2, <1>5, <2>1, MoveInv, Zenon DEF InExchange, HasBought
<1>. QED BY <1>4, <1>5, Zenon DEF BindCount, CreateWithinLimit

LEMMA BindInsertInv == ASSUME Inv, NEW p \in Calls, BindInsert(p) PROVE Inv'
<1>1. ProviderMoves /\ UNCHANGED second /\ \A t \in Tabs : StateQuiet(t) /\ CodeQuiet(t)
  BY Zenon DEF BindInsert, stores, rows, ProviderMoves, StateQuiet, CodeQuiet
<1>2. call[p].pc = "insert" /\ "commit" \in Steps /\ call[p].kind = "bind" /\ call[p].user \notin second
  BY CallFacts, Zenon DEF BindInsert, CallOK, Steps
<1>3. CASE claim' = p /\ To(p, "commit") /\ UNCHANGED <<rowLock, answer>>
  <2>1. TypeOK'
    BY <1>2, <1>3, MovedFacts, Zenon DEF Inv, TypeOK, BindInsert, stores, rows
  <2>. QED BY <1>1, <1>2, <1>3, <2>1, MoveInv, Zenon DEF InExchange, HasBought
<1>4. CASE Reply(p, BindWriteError(p)) /\ Unlocked(p) /\ UNCHANGED claim
  <2>1. BindWriteError(p) \in Answers
    BY AnswersTyped, Zenon DEF BindWriteError
  <2>2. TypeOK'
    BY <1>4, <2>1, ReplyFacts, UnlockedTyped, Zenon DEF Inv, TypeOK, BindInsert, stores, rows
  <2>. QED BY <1>1, <1>4, <2>1, <2>2, EndInv, Zenon
<1>. QED BY <1>3, <1>4, Zenon DEF BindInsert

LEMMA BindCommitInv == ASSUME Inv, NEW p \in Calls, BindCommit(p) PROVE Inv'
<1>1. ProviderMoves /\ UNCHANGED second /\ \A t \in Tabs : StateQuiet(t) /\ CodeQuiet(t)
  BY Zenon DEF BindCommit, stores, ProviderMoves, StateQuiet, CodeQuiet
<1>2. PICK a \in {"bound", "refused"} : Reply(p, a)
  BY Zenon DEF BindCommit
<1>3. owner' \in Users \union {NoUser, Newcomer} /\ faults' \in 0..MaxFaults
  <2>1. call[p].user \in Users \union {NoUser, Newcomer} /\ owner \in Users \union {NoUser, Newcomer} /\ faults \in 0..MaxFaults
    BY CallFacts, Zenon DEF Inv, TypeOK
  <2>. QED BY <2>1, FaultTyped, Zenon DEF BindCommit
<1>4. a \in Answers /\ TypeOK'
  BY <1>2, <1>3, AnswersTyped, ReplyFacts, UnlockedTyped DEF Inv, TypeOK, BindCommit, stores
<1>. QED BY <1>1, <1>2, <1>4, EndInv, Zenon

-----------------------------------------------------------------------------
(* The fetch of the app token moves every call that waits for it. *)

LEMMA WaitersInv ==
  ASSUME Inv, NEW pc \in {"token", "outage"}, faults' \in 0..MaxFaults, appToken' \in {"none", "live", "fetching"},
         call' = [p \in Calls |-> IF call[p].pc = "wait" THEN [call[p] EXCEPT !.pc = pc] ELSE call[p]],
         UNCHANGED <<stores, cookie, provider, rows, rowLock, claim, answer, sessions>>
  PROVE  Inv'
<1>1. ASSUME NEW p \in Calls
      PROVE  /\ call'[p] \in Call /\ call'[p].pc \in {call[p].pc, pc} /\ (call'[p].pc # call[p].pc => call[p].pc = "wait")
             /\ call'[p].kind = call[p].kind /\ call'[p].tab = call[p].tab /\ call'[p].user = call[p].user
  <2>1. pc \in Steps /\ call[p] \in Call
    BY CallFacts, Zenon DEF Steps
  <2>2. ASSUME NEW r \in Call, NEW s, s = [r EXCEPT !.pc = pc]
        PROVE  s \in Call /\ s.pc = pc /\ s.kind = r.kind /\ s.tab = r.tab /\ s.user = r.user
    BY <2>1, <2>2, Zenon DEF Call
  <2>3. call'[p] = IF call[p].pc = "wait" THEN [call[p] EXCEPT !.pc = pc] ELSE call[p]
    BY Zenon
  <2>4. CASE call[p].pc = "wait"
    BY <2>1, <2>2, <2>3, <2>4
  <2>5. CASE call[p].pc # "wait"
    BY <2>1, <2>3, <2>5, Zenon
  <2>. QED BY <2>4, <2>5, Zenon
<1>2. TypeOK'
  <2>1. call' \in [Calls -> Call]
    BY <1>1, Zenon
  <2>. QED BY <2>1, Zenon DEF Inv, TypeOK, stores, rows
<1>3. ProviderMoves /\ \A t \in Tabs : StateQuiet(t) /\ CodeQuiet(t)
  BY Zenon DEF stores, ProviderMoves, StateQuiet, CodeQuiet
<1>4. ASSUME NEW p \in Calls PROVE CallOK(p)'
  <2>1. CallOK(p)
    BY Zenon DEF Inv
  <2>. QED BY <1>1, <2>1, Zenon DEF CallOK, rows
<1>5. \A p \in Calls, t \in Tabs : (Holds(p, t)' => Holds(p, t)) /\ (Bought(p, t)' => Bought(p, t))
  BY <1>1, Zenon DEF Holds, Bought
<1>6. ASSUME NEW t \in Tabs PROVE StateOK(t)' /\ CodeOK(t)'
  <2>1. StateOK(t) /\ CodeOK(t)
    BY Zenon DEF Inv
  <2>. QED BY <1>3, <1>5, <2>1, StateKept, CodeKept, Zenon
<1>. QED BY <1>2, <1>4, <1>6, Zenon DEF Inv

LEMMA AppTokenInv == ASSUME Inv, AppTokenFetched \/ AppTokenFailed PROVE Inv'
<1>1. CASE AppTokenFetched
  <2>1. faults' \in 0..MaxFaults
    BY <1>1, Zenon DEF Inv, TypeOK, AppTokenFetched
  <2>. QED BY <1>1, <2>1, WaitersInv, Zenon DEF AppTokenFetched
<1>2. CASE AppTokenFailed
  BY <1>2, FaultTyped, WaitersInv, Zenon DEF AppTokenFailed
<1>. QED BY <1>1, <1>2, Zenon

-----------------------------------------------------------------------------
(* The state changes hands. *)

\* A step of p that may give or take the state of its own tab, and nothing else.
LEMMA HandInv ==
  ASSUME Inv, TypeOK', NEW p \in Calls, \A q \in Calls \ {p} : call'[q] = call[q], CallOK(p)',
         UNCHANGED second, ProviderMoves, NEW t \in Tabs, StateOK(t)',
         \A u \in Tabs \ {t} : StateQuiet(u) /\ NoGain(p, u),
         \A u \in Tabs : CodeQuiet(u) /\ (Bought(p, u)' => Bought(p, u))
  PROVE  Inv'
<1>1. ASSUME NEW q \in Calls
      PROVE  /\ CallOK(q)' /\ \A u \in Tabs : Bought(q, u)' => Bought(q, u)
             /\ \A u \in Tabs \ {t} : Holds(q, u)' => Holds(q, u)
  <2>1. CASE q = p
    BY <2>1, Zenon DEF NoGain
  <2>2. CASE q # p
    BY <2>2, SameCall, Zenon
  <2>. QED BY <2>1, <2>2, Zenon
<1>2. ASSUME NEW u \in Tabs PROVE StateOK(u)' /\ CodeOK(u)'
  <2>1. StateOK(u) /\ CodeOK(u)
    BY Zenon DEF Inv
  <2>2. CodeOK(u)'
    BY <1>1, <2>1, CodeKept, Zenon
  <2>3. u # t => StateOK(u)'
    BY <1>1, <2>1, StateKept, Zenon
  <2>. QED BY <2>2, <2>3, Zenon
<1>. QED BY <1>1, <1>2, Zenon DEF Inv

LEMMA ConsumeOAuthStateInv == ASSUME Inv, NEW p \in Calls, ConsumeOAuthState(p) PROVE Inv'
<1>0. PICK t \in Tabs : t = call[p].tab
  BY CallFacts, Zenon DEF ConsumeOAuthState
<1>1. call[p].pc = "state" /\ call[p].kind = "callback" /\ provider[t] \in {"fresh", "spent"}
  BY <1>0, CallFacts, Zenon DEF ConsumeOAuthState, CallOK
<1>2. ProviderMoves /\ UNCHANGED second /\ \A u \in Tabs : CodeQuiet(u)
  BY Zenon DEF ConsumeOAuthState, rows, ProviderMoves, CodeQuiet
<1>3. /\ state' \in [Tabs -> {NoPayload, "live"}] /\ \A u \in Tabs : StateQuiet(u)
      /\ state' = TakeOAuthState(t) => state'[t] = NoPayload
  BY <1>0, Zenon DEF Inv, TypeOK, ConsumeOAuthState, TakeOAuthState, GetDelOneTime, StateQuiet
<1>4. faults' \in 0..MaxFaults
  BY FaultTyped, Zenon DEF Inv, TypeOK, ConsumeOAuthState
<1>5. CASE state[t] # NoPayload /\ state' = TakeOAuthState(t) /\ To(p, "app") /\ UNCHANGED <<answer, cookie>>
  <2>1. "app" \in Steps
    BY Zenon DEF Steps
  <2>2. /\ call' \in [Calls -> Call] /\ \A q \in Calls \ {p} : call'[q] = call[q]
        /\ call'[p].pc = "app" /\ call'[p].kind = "callback" /\ call'[p].tab = t
    BY <1>0, <1>1, <1>5, <2>1, MovedFacts, Zenon
  <2>3. TypeOK'
    BY <1>3, <1>4, <1>5, <2>2, Zenon DEF Inv, TypeOK, ConsumeOAuthState, rows
  <2>4. CallOK(p)'
    BY <1>1, <1>2, <2>2, Zenon DEF CallOK, ProviderMoves
  <2>5. \A q \in Calls \ {p} : ~Holds(q, t)'
    <3>1. StateOK(t)
      BY Zenon DEF Inv
    <3>. QED BY <1>5, <2>2, <3>1, Zenon DEF StateOK, Holds
  <2>6. StateOK(t)'
    <3>1. state'[t] = NoPayload
      BY <1>3, <1>5, Zenon
    <3>. QED BY <2>5, <3>1, Zenon DEF StateOK
  <2>7. /\ \A u \in Tabs \ {t} : NoGain(p, u)
        /\ \A u \in Tabs : ~Bought(p, u)'
    BY <2>2, Zenon DEF NoGain, Holds, Bought
  <2>8. \A q \in Calls \ {p} : call'[q] = call[q]
    BY <2>2, Zenon
  <2>. QED BY <1>1, <1>2, <1>3, <2>3, <2>4, <2>6, <2>7, <2>8, HandInv, Zenon
<1>6. CASE Answer(p, "refused")
  <2>1. TypeOK'
    BY <1>3, <1>4, <1>6, AnswersTyped, ReplyFacts, CookieTyped, Zenon DEF Inv, TypeOK, ConsumeOAuthState, rows, Answer
  <2>. QED BY <1>2, <1>3, <1>6, <2>1, AnswersTyped, EndInv, Zenon DEF Answer
<1>. QED BY <1>0, <1>5, <1>6, Zenon DEF ConsumeOAuthState, PeekOneTime

LEMMA RestoreStateAfterOutageInv == ASSUME Inv, NEW p \in Calls, RestoreStateAfterOutage(p) PROVE Inv'
<1>0. PICK t \in Tabs : t = call[p].tab
  BY CallFacts, Zenon DEF RestoreStateAfterOutage
<1>1. call[p].pc = "outage" /\ provider[t] \in {"fresh", "spent"}
  BY <1>0, CallFacts, Zenon DEF RestoreStateAfterOutage
<1>2. ProviderMoves /\ UNCHANGED second /\ \A u \in Tabs : CodeQuiet(u)
  BY Zenon DEF RestoreStateAfterOutage, rows, ProviderMoves, CodeQuiet
<1>3. state' \in [Tabs -> {NoPayload, "live"}] /\ \A u \in Tabs \ {t} : StateQuiet(u)
  BY <1>0, Zenon DEF Inv, TypeOK, RestoreStateAfterOutage, SetOneTime, StateQuiet
<1>4. faults' \in 0..MaxFaults
  BY FaultTyped, Zenon DEF Inv, TypeOK, RestoreStateAfterOutage
<1>5. PICK a \in {"outage", "refused"} : Answer(p, a)
  BY Zenon DEF RestoreStateAfterOutage, RestoreFailed
<1>6. a \in Answers /\ TypeOK'
  BY <1>3, <1>4, <1>5, AnswersTyped, ReplyFacts, CookieTyped DEF Inv, TypeOK, RestoreStateAfterOutage, rows, Answer
<1>7. /\ call'[p].pc = "idle" /\ CallOK(p)' /\ \A q \in Calls \ {p} : call'[q] = call[q]
      /\ \A u \in Tabs : NoGain(p, u) /\ ~Holds(p, u)' /\ ~Bought(p, u)'
  BY <1>5, <1>6, ReplyFacts, IdleGains, Zenon DEF Answer
<1>8. CASE UNCHANGED state
  BY <1>2, <1>6, <1>7, <1>8, QuietInv, Zenon DEF StateQuiet
<1>9. CASE call[p].kind = "callback"
  <2>1. \A q \in Calls : ~Holds(q, t)'
    <3>1. StateOK(t) /\ Holds(p, t)
      BY <1>0, <1>1, <1>9, Zenon DEF Inv, Holds
    <3>2. \A q \in Calls \ {p} : ~Holds(q, t)
      BY <3>1, Zenon DEF StateOK
    <3>3. \A q \in Calls \ {p} : ~Holds(q, t)'
      BY <1>7, <3>2, Zenon DEF Holds
    <3>. QED BY <1>1, <1>7, <3>3, Zenon
  <2>2. StateOK(t)'
    BY <1>1, <1>2, <2>1, Zenon DEF StateOK, ProviderMoves
  <2>. QED BY <1>1, <1>2, <1>3, <1>6, <1>7, <2>2, HandInv, Zenon
<1>. QED BY <1>8, <1>9, Zenon DEF RestoreStateAfterOutage

-----------------------------------------------------------------------------
(* What the code buys changes hands. *)

\* A step of p that may give or take what the code of its own tab bought.
LEMMA BuyInv ==
  ASSUME Inv, TypeOK', NEW p \in Calls, \A q \in Calls \ {p} : call'[q] = call[q], CallOK(p)',
         UNCHANGED second, ProviderMoves, NEW t \in Tabs, CodeOK(t)',
         \A u \in Tabs \ {t} : CodeQuiet(u) /\ NoGain(p, u),
         \A u \in Tabs : StateQuiet(u) /\ (Holds(p, u)' => Holds(p, u))
  PROVE  Inv'
<1>1. ASSUME NEW q \in Calls
      PROVE  /\ CallOK(q)' /\ \A u \in Tabs : Holds(q, u)' => Holds(q, u)
             /\ \A u \in Tabs \ {t} : Bought(q, u)' => Bought(q, u)
  <2>1. CASE q = p
    BY <2>1, Zenon DEF NoGain
  <2>2. CASE q # p
    BY <2>2, SameCall, Zenon
  <2>. QED BY <2>1, <2>2, Zenon
<1>2. ASSUME NEW u \in Tabs PROVE StateOK(u)' /\ CodeOK(u)'
  <2>1. StateOK(u) /\ CodeOK(u)
    BY Zenon DEF Inv
  <2>2. StateOK(u)'
    BY <1>1, <2>1, StateKept, Zenon
  <2>3. u # t => CodeOK(u)'
    BY <1>1, <2>1, CodeKept, Zenon
  <2>. QED BY <2>2, <2>3, Zenon
<1>. QED BY <1>1, <1>2, Zenon DEF Inv

LEMMA TokenExchangeInv == ASSUME Inv, NEW p \in Calls, TokenExchange(p) PROVE Inv'
<1>0. PICK t \in Tabs : t = call[p].tab
  BY CallFacts, Zenon DEF TokenExchange
<1>1. call[p].pc = "token" /\ provider[t] \in {"fresh", "spent"}
  BY <1>0, CallFacts, Zenon DEF TokenExchange
<1>2. /\ provider' \in [Tabs -> {"none", "asked", "fresh", "spent"}] /\ ProviderMoves /\ provider'[t] = "spent"
      /\ UNCHANGED second /\ \A u \in Tabs : StateQuiet(u) /\ CodeQuiet(u)
  BY <1>0, Zenon DEF Inv, TypeOK, TokenExchange, stores, rows, ProviderMoves, StateQuiet, CodeQuiet
<1>3. CASE provider[t] = "fresh" /\ To(p, "user") /\ UNCHANGED <<answer, cookie>>
  <2>1. "user" \in Steps
    BY Zenon DEF Steps
  <2>2. /\ call' \in [Calls -> Call] /\ \A q \in Calls \ {p} : call'[q] = call[q]
        /\ call'[p].pc = "user" /\ call'[p].kind = call[p].kind /\ call'[p].tab = t
    BY <1>0, <1>3, <2>1, MovedFacts, Zenon
  <2>3. TypeOK'
    BY <1>2, <1>3, <2>2, Zenon DEF Inv, TypeOK, TokenExchange, stores, rows
  <2>4. CallOK(p)'
    BY <1>2, <2>2, Zenon DEF CallOK
  <2>5. CodeOK(t)'
    <3>1. CodeOK(t)
      BY Zenon DEF Inv
    <3>2. loginCode[t] = NoPayload /\ sessions[t] = 0 /\ \A q \in Calls : ~Bought(q, t)
      BY <1>3, <3>1, Zenon DEF CodeOK
    <3>3. loginCode'[t] = NoPayload /\ sessions'[t] = 0 /\ \A q \in Calls \ {p} : ~Bought(q, t)'
      BY <1>2, <2>2, <3>2, Zenon DEF CodeQuiet, Bought
    <3>. QED BY <1>2, <3>3, Zenon DEF CodeOK
  <2>6. /\ \A u \in Tabs \ {t} : NoGain(p, u)
        /\ \A u \in Tabs : Holds(p, u)' => Holds(p, u)
    BY <1>0, <1>1, <2>2, Zenon DEF NoGain, Holds, Bought
  <2>7. \A q \in Calls \ {p} : call'[q] = call[q]
    BY <2>2, Zenon
  <2>. QED BY <1>2, <2>3, <2>4, <2>5, <2>6, <2>7, BuyInv, Zenon
<1>4. CASE Answer(p, "refused")
  <2>1. TypeOK'
    BY <1>2, <1>4, AnswersTyped, ReplyFacts, CookieTyped, Zenon DEF Inv, TypeOK, TokenExchange, stores, rows, Answer
  <2>. QED BY <1>2, <1>4, <2>1, AnswersTyped, EndInv, Zenon DEF Answer
<1>. QED BY <1>0, <1>3, <1>4, Zenon DEF TokenExchange

\* p has what t bought, and ends: nobody has it any more.
LEMMA SoldFacts ==
  ASSUME Inv, NEW p \in Calls, NEW t \in Tabs, Bought(p, t), \A q \in Calls \ {p} : call'[q] = call[q], ~Bought(p, t)'
  PROVE  /\ \A q \in Calls : ~Bought(q, t)'
         /\ provider[t] = "spent" /\ loginCode[t] = NoPayload /\ sessions[t] = 0
<1>1. CodeOK(t)
  BY Zenon DEF Inv
<1>2. \A q \in Calls \ {p} : ~Bought(q, t)
  BY <1>1, Zenon DEF CodeOK
<1>3. \A q \in Calls \ {p} : ~Bought(q, t)'
  BY <1>2, Zenon DEF Bought
<1>. QED BY <1>1, <1>3, Zenon DEF CodeOK

LEMMA LoginBranchInv == ASSUME Inv, NEW p \in Calls, LoginBranch(p) PROVE Inv'
<1>0. PICK t \in Tabs : t = call[p].tab
  BY CallFacts, Zenon DEF LoginBranch
<1>1. /\ call[p].pc = "issue" /\ Bought(p, t) /\ call[p].user \in Users \union {Newcomer}
  BY <1>0, CallFacts, Zenon DEF LoginBranch, CallOK, Bought
<1>2. PICK a \in {"done", "refused"} : Answer(p, a)
  BY Zenon DEF LoginBranch
<1>3. /\ loginCode' \in [Tabs -> Users \union {Newcomer, NoPayload}] /\ faults' \in 0..MaxFaults
      /\ \A u \in Tabs \ {t} : loginCode'[u] = loginCode[u]
  BY <1>0, <1>1, FaultTyped DEF Inv, TypeOK, LoginBranch, SetOneTime
<1>4. ProviderMoves /\ UNCHANGED <<second, sessions, provider>> /\ \A u \in Tabs : StateQuiet(u)
  BY Zenon DEF LoginBranch, rows, ProviderMoves, StateQuiet
<1>5. a \in Answers /\ TypeOK'
  BY <1>2, <1>3, AnswersTyped, ReplyFacts, CookieTyped DEF Inv, TypeOK, LoginBranch, rows, Answer
<1>6. /\ call'[p].pc = "idle" /\ CallOK(p)' /\ \A q \in Calls \ {p} : call'[q] = call[q]
      /\ \A u \in Tabs : NoGain(p, u) /\ ~Holds(p, u)' /\ ~Bought(p, u)'
  BY <1>2, <1>5, ReplyFacts, IdleGains, Zenon DEF Answer
<1>7. CodeOK(t)'
  <2>1. /\ \A q \in Calls : ~Bought(q, t)'
        /\ provider[t] = "spent" /\ loginCode[t] = NoPayload /\ sessions[t] = 0
    BY <1>1, <1>6, SoldFacts, Zenon
  <2>. QED BY <1>4, <2>1, Zenon DEF CodeOK
<1>8. \A u \in Tabs \ {t} : CodeQuiet(u)
  BY <1>3, <1>4, Zenon DEF CodeQuiet
<1>. QED BY <1>4, <1>5, <1>6, <1>7, <1>8, BuyInv, Zenon

LEMMA ExchangeVerifyInv == ASSUME Inv, NEW p \in Calls, ExchangeVerify(p) PROVE Inv'
<1>0. PICK t \in Tabs : t = call[p].tab
  BY CallFacts, Zenon DEF ExchangeVerify
<1>1. call[p].pc = "redeem" /\ provider[t] \in {"fresh", "spent"} /\ loginCode[t] \in Users \union {Newcomer, NoPayload}
  BY <1>0, CallFacts, Zenon DEF ExchangeVerify, TypeOK
<1>2. /\ loginCode' \in [Tabs -> Users \union {Newcomer, NoPayload}] /\ loginCode'[t] = NoPayload
      /\ \A u \in Tabs : StateQuiet(u) /\ CodeQuiet(u)
  BY <1>0, Zenon DEF Inv, TypeOK, ExchangeVerify, ConsumeLoginCode, GetDelOneTime, StateQuiet, CodeQuiet
<1>3. ProviderMoves /\ UNCHANGED <<second, provider, sessions>>
  BY Zenon DEF ExchangeVerify, rows, ProviderMoves
<1>4. CASE /\ loginCode[t] # NoPayload /\ UNCHANGED answer
           /\ call' = [call EXCEPT ![p].pc = "pair", ![p].user = loginCode[t]]
  <2>1. "pair" \in Steps /\ loginCode[t] \in Users \union {NoUser, Newcomer}
    BY <1>1, <1>4, Zenon DEF Steps
  <2>2. /\ call' \in [Calls -> Call] /\ \A q \in Calls \ {p} : call'[q] = call[q]
        /\ call'[p].pc = "pair" /\ call'[p].tab = t
    BY <1>0, <1>4, <2>1, TakenFacts, ZenonT(60)
  <2>3. TypeOK'
    BY <1>2, <1>4, <2>2, Zenon DEF Inv, TypeOK, ExchangeVerify, rows
  <2>4. CallOK(p)'
    BY <1>1, <1>3, <2>2, Zenon DEF CallOK, ProviderMoves
  <2>5. CodeOK(t)'
    <3>1. CodeOK(t)
      BY DEF Inv
    <3>2. provider[t] = "spent" /\ sessions[t] = 0 /\ \A q \in Calls : ~Bought(q, t)
      BY <1>4, <3>1, Zenon DEF CodeOK
    <3>3. \A q \in Calls \ {p} : ~Bought(q, t)'
      BY <2>2, <3>2, Zenon DEF Bought
    <3>. QED BY <1>2, <1>3, <3>2, <3>3, Zenon DEF CodeOK
  <2>6. /\ \A u \in Tabs \ {t} : NoGain(p, u)
        /\ \A u \in Tabs : ~Holds(p, u)'
    BY <2>2, Zenon DEF NoGain, Holds, Bought
  <2>7. \A q \in Calls \ {p} : call'[q] = call[q]
    BY <2>2, Zenon
  <2>. QED BY <1>2, <1>3, <2>3, <2>4, <2>5, <2>6, <2>7, BuyInv, Zenon
<1>5. CASE Reply(p, "refused")
  <2>1. TypeOK'
    BY <1>2, <1>5, AnswersTyped, ReplyFacts, Zenon DEF Inv, TypeOK, ExchangeVerify, rows
  <2>. QED BY <1>2, <1>3, <1>5, <2>1, AnswersTyped, EndInv, Zenon
<1>. QED BY <1>0, <1>4, <1>5, Zenon DEF ExchangeVerify

LEMMA CreatePairInv == ASSUME Inv, NEW p \in Calls, CreatePair(p) PROVE Inv'
<1>0. PICK t \in Tabs : t = call[p].tab
  BY CallFacts, Zenon DEF CreatePair
<1>1. call[p].pc = "pair" /\ Bought(p, t)
  BY <1>0, Zenon DEF CreatePair, Bought
<1>2. PICK a \in {"done", "refused"} : Reply(p, a)
  BY Zenon DEF CreatePair
<1>3. ProviderMoves /\ UNCHANGED <<second, loginCode, provider>> /\ \A u \in Tabs : StateQuiet(u)
  BY Zenon DEF CreatePair, stores, rows, ProviderMoves, StateQuiet
<1>4. /\ call' \in [Calls -> Call] /\ answer' \in [Calls -> Answers] /\ call'[p].pc = "idle" /\ CallOK(p)'
      /\ \A q \in Calls \ {p} : call'[q] = call[q]
      /\ \A u \in Tabs : NoGain(p, u) /\ ~Holds(p, u)' /\ ~Bought(p, u)'
  BY <1>2, AnswersTyped, ReplyFacts, IdleGains, Zenon
<1>5. /\ \A q \in Calls : ~Bought(q, t)'
      /\ provider[t] = "spent" /\ loginCode[t] = NoPayload /\ sessions[t] = 0
  BY <1>1, <1>4, SoldFacts, Zenon
<1>6. Cardinality(Calls) \in Nat \ {0}
  BY FS_CardinalityType, FS_EmptySet, Zenon
<1>7. /\ sessions' \in [Tabs -> 0..Cardinality(Calls)] /\ sessions'[t] \in {0, 1}
      /\ \A u \in Tabs \ {t} : sessions'[u] = sessions[u]
  BY <1>0, <1>5, <1>6 DEF Inv, TypeOK, CreatePair
<1>8. TypeOK'
  <2>1. faults' \in 0..MaxFaults
    BY FaultTyped, Zenon DEF Inv, TypeOK, CreatePair
  <2>. QED BY <1>4, <1>7, <2>1, Zenon DEF Inv, TypeOK, CreatePair, stores, rows
<1>9. CodeOK(t)' /\ \A u \in Tabs \ {t} : CodeQuiet(u)
  BY <1>3, <1>5, <1>7, Zenon DEF CodeOK, CodeQuiet
<1>. QED BY <1>3, <1>4, <1>8, <1>9, BuyInv, Zenon

-----------------------------------------------------------------------------
(* The invariant. *)

LEMMA InitInv == Init => Inv
<1>. SUFFICES ASSUME Init PROVE Inv
  BY Zenon
<1>1. \A p \in Calls : call[p] = Idle /\ call[p].pc = "idle"
  BY IdleTyped, Zenon DEF Init
<1>2. Cardinality(Calls) \in Nat
  BY FS_CardinalityType, Zenon
<1>3. sessions \in [Tabs -> 0..Cardinality(Calls)] /\ faults \in 0..MaxFaults
  BY <1>2 DEF Init
<1>4. call \in [Calls -> Call] /\ answer \in [Calls -> Answers]
  BY IdleTyped, Zenon DEF Init, Answers
<1>5. TypeOK
  BY <1>3, <1>4, Zenon DEF Init, TypeOK
<1>6. \A p \in Calls : CallOK(p) /\ \A t : ~Holds(p, t) /\ ~Bought(p, t)
  BY <1>1, Zenon DEF CallOK, Holds, Bought
<1>7. \A t \in Tabs : state[t] = NoPayload /\ loginCode[t] = NoPayload /\ sessions[t] = 0
  BY Zenon DEF Init
<1>. QED BY <1>5, <1>6, <1>7, Zenon DEF Inv, StateOK, CodeOK

LEMMA CallStepInv == ASSUME Inv, NEW p \in Calls, CallStep(p) PROVE Inv'
  BY ConsumeOAuthStateInv, FetchAppAccessTokenInv, TokenExchangeInv, FetchUserInv, RestoreStateAfterOutageInv,
     FindByProviderIDInv, LoginBranchInv, RegistrationBranchInv, ExchangeVerifyInv, CreatePairInv,
     BindCountInv, BindInsertInv, BindCommitInv, Zenon DEF CallStep

LEMMA NextInv == Inv /\ [Next]_vars => Inv'
<1>. SUFFICES ASSUME Inv, [Next]_vars PROVE Inv'
  BY Zenon
<1>1. CASE \E t \in Tabs : Authorize(t) \/ ProviderConsent(t) \/ ExpireState(t) \/ RegisterParked(t)
  BY <1>1, AuthorizeInv, ProviderConsentInv, AsideInv, Zenon
<1>2. CASE \E p \in Calls, t \in Tabs : \/ Callback(p, t) \/ CallbackDenied(p, t) \/ AppCodeLogin(p, t)
                                        \/ ExchangeCode(p, t) \/ \E u \in Users : Bind(p, u, t)
  BY <1>2, CallbackInv, AsideInv, AppCodeLoginInv, ExchangeCodeInv, BindInv, Zenon
<1>3. CASE \E p \in Calls : CallStep(p) \/ TokenExchangeLost(p) \/ FetchUserLost(p) \/ ExchangeCanceled(p)
  BY <1>3, CallStepInv, TokenExchangeLostInv, FetchUserLostInv, ExchangeCanceledInv, Zenon
<1>4. CASE AppTokenFetched \/ AppTokenFailed
  BY <1>4, AppTokenInv, Zenon
<1>5. CASE AppTokenExpires \/ (\E u \in Users : Unbind(u) \/ CloseUser(u)) \/ UNCHANGED vars
  BY <1>5, AsideInv, Zenon
<1>. QED BY <1>1, <1>2, <1>3, <1>4, <1>5, Zenon DEF Next

LEMMA Invariant == Spec => []Inv
<1>. QED BY InitInv, NextInv, PTL DEF Spec

-----------------------------------------------------------------------------
(* The theorems. *)

\* A set whose members are all equal has one at most.
LEMMA AtMostOne ==
  ASSUME NEW S, \A x, y \in S : x = y
  PROVE  Cardinality(S) \in {0, 1} /\ (Cardinality(S) = 1 => S # {})
<1>1. CASE S = {}
  BY <1>1, FS_EmptySet
<1>2. CASE S # {}
  <2>1. PICK x : S = {x}
    BY <1>2
  <2>. QED BY <1>2, <2>1, FS_Singleton, Zenon
<1>. QED BY <1>1, <1>2, Zenon

(* What is to be used once is used once, for any number of calls, tabs and    *)
(* faults: the state of a round trip is in Redis or with one callback, though *)
(* an outage puts it back (ConsumeOAuthState, restoreStateAfterOutage), and   *)
(* one login code opens one session (ConsumeLoginCode).                       *)
THEOREM LoginsStaySingle == Spec => []LoginsAreSingle
<1>1. ASSUME Inv PROVE LoginsAreSingle
  <2>1. ASSUME NEW t \in Tabs
        PROVE  Cardinality(Holding(t)) + (IF state[t] # NoPayload THEN 1 ELSE 0) <= 1
    <3>1. StateOK(t)
      BY <1>1, Zenon DEF Inv
    <3>2. Holding(t) = {p \in Calls : Holds(p, t)}
      BY Zenon DEF Holding, Holds
    <3>3. \A p, q \in Holding(t) : p = q
      BY <3>1, <3>2, Zenon DEF StateOK
    <3>4. Cardinality(Holding(t)) \in {0, 1} /\ (Cardinality(Holding(t)) = 1 => Holding(t) # {})
      BY <3>3, AtMostOne, Zenon
    <3>5. state[t] # NoPayload => Holding(t) = {}
      BY <3>1, <3>2, Zenon DEF StateOK
    <3>. QED BY <3>4, <3>5
  <2>2. \A t \in Tabs : sessions[t] <= 1
    BY <1>1 DEF Inv, CodeOK
  <2>. QED BY <1>1, <2>1, <2>2, Zenon DEF Inv, LoginsAreSingle, StateInOneHand, OneSessionPerCode
<1>. QED BY <1>1, Invariant, PTL

-----------------------------------------------------------------------------
(* Who answers whom: a call ends by a step of its own. *)

Alone(p) == \A q \in Calls \ {p} : call'[q] = call[q]

LEMMA StepIsOwn ==
  ASSUME Inv, NEW p \in Calls, CallStep(p) \/ TokenExchangeLost(p) \/ FetchUserLost(p) \/ ExchangeCanceled(p)
  PROVE  Alone(p)
<1>1. call \in [Calls -> Call]
  BY Zenon DEF Inv, TypeOK
<1>2. \A pc : To(p, pc) => Alone(p)
  BY <1>1, Zenon DEF To, Alone
<1>3. \A a : Reply(p, a) \/ Answer(p, a) => Alone(p)
  BY <1>1, Zenon DEF Reply, Answer, Alone
<1>4. \A pc, u : call' = [call EXCEPT ![p].pc = pc, ![p].user = u] => Alone(p)
  BY <1>1, Zenon DEF Alone
<1>5. DoJSONRetry(p) => Alone(p)
  BY <1>1, <1>2, Zenon DEF DoJSONRetry, Alone
<1>6. ConsumeOAuthState(p) \/ FetchAppAccessToken(p) \/ TokenExchange(p) \/ FetchUser(p) => Alone(p)
  BY <1>2, <1>3, Zenon DEF ConsumeOAuthState, FetchAppAccessToken, TokenExchange, FetchUser
<1>7. RestoreStateAfterOutage(p) \/ LoginBranch(p) \/ RegistrationBranch(p) \/ CreatePair(p) => Alone(p)
  BY <1>3, Zenon DEF RestoreStateAfterOutage, RestoreFailed, LoginBranch, RegistrationBranch, CreatePair
<1>8. FindByProviderID(p) \/ ExchangeVerify(p) => Alone(p)
  BY <1>2, <1>3, <1>4, Zenon DEF FindByProviderID, ExchangeVerify
<1>9. BindCount(p) \/ BindInsert(p) \/ BindCommit(p) => Alone(p)
  BY <1>2, <1>3, Zenon DEF BindCount, CreateWithinLimit, BindInsert, BindCommit
<1>10. TokenExchangeLost(p) \/ FetchUserLost(p) \/ ExchangeCanceled(p) => Alone(p)
  BY <1>3, <1>5, Zenon DEF TokenExchangeLost, FetchUserLost, ExchangeCanceled, FlightSurvives
<1>. QED BY <1>6, <1>7, <1>8, <1>9, <1>10, Zenon DEF CallStep

LEMMA EndIsOwn ==
  ASSUME Inv, [Next]_vars, NEW p \in Calls, call[p].pc # "idle", call'[p].pc = "idle"
  PROVE  Alone(p) /\ (CallStep(p) \/ ExchangeCanceled(p))
<1>0. call \in [Calls -> Call] /\ call'[p] # call[p]
  BY Zenon DEF Inv, TypeOK
<1>1. call' # call
  BY <1>0, Zenon
<1>2. ASSUME NEW q \in Calls, call[q].pc = "idle", NEW r, call' = [call EXCEPT ![q] = r] PROVE FALSE
  BY <1>0, <1>2, Zenon
<1>3. ~\E q \in Calls, t \in Tabs : \/ Callback(q, t) \/ AppCodeLogin(q, t) \/ ExchangeCode(q, t)
                                    \/ \E u \in Users : Bind(q, u, t)
  BY <1>2, Zenon DEF Callback, AppCodeLogin, ExchangeCode, Bind
<1>4. ~\E q \in Calls : TokenExchangeLost(q) \/ FetchUserLost(q)
  <2>. SUFFICES ASSUME NEW q \in Calls, TokenExchangeLost(q) \/ FetchUserLost(q) PROVE FALSE
    BY Zenon
  <2>1. q = p
    BY <1>0, StepIsOwn, Zenon DEF Alone
  <2>2. DoJSONRetry(p)
    BY <2>1, Zenon DEF TokenExchangeLost, FetchUserLost
  <2>3. "outage" \in Steps
    BY Zenon DEF Steps
  <2>4. ~To(p, "outage")
    BY <2>3, MovedFacts, Zenon
  <2>5. call' # [call EXCEPT ![p].attempt = 2]
    BY RetryFacts, Zenon
  <2>. QED BY <2>2, <2>4, <2>5, Zenon DEF DoJSONRetry
<1>5. ~AppTokenFetched /\ ~AppTokenFailed
  <2>. SUFFICES ASSUME NEW pc \in {"token", "outage"}, 
                       call' = [q \in Calls |-> IF call[q].pc = "wait" THEN [call[q] EXCEPT !.pc = pc] ELSE call[q]]
                PROVE  FALSE
    BY Zenon DEF AppTokenFetched, AppTokenFailed
  <2>1. call'[p] = [call[p] EXCEPT !.pc = pc]
    BY <1>0, Zenon
  <2>2. ASSUME NEW r \in Call, NEW s, s = [r EXCEPT !.pc = pc] PROVE s.pc = pc
    BY <2>2, Zenon DEF Call
  <2>3. call'[p].pc = pc
    BY <1>0, <2>1, <2>2, Zenon
  <2>. QED BY <2>3, Zenon
<1>6. /\ ~\E t \in Tabs : Authorize(t) \/ ProviderConsent(t) \/ ExpireState(t) \/ RegisterParked(t)
      /\ ~\E q \in Calls, t \in Tabs : CallbackDenied(q, t)
      /\ ~AppTokenExpires /\ ~\E u \in Users : Unbind(u) \/ CloseUser(u)
      /\ ~UNCHANGED vars
  BY <1>1, Zenon DEF Authorize, ProviderConsent, ExpireState, RegisterParked, CallbackDenied, AppTokenExpires,
              Unbind, CloseUser, vars
<1>7. PICK q \in Calls : CallStep(q) \/ ExchangeCanceled(q)
  BY <1>3, <1>4, <1>5, <1>6, Zenon DEF Next
<1>8. q = p
  BY <1>0, <1>7, StepIsOwn, Zenon DEF Alone
<1>. QED BY <1>7, <1>8, StepIsOwn, Zenon

\* What each step that ends a call tells it.
LEMMA Told ==
  ASSUME Inv, NEW p \in Calls, call'[p].pc = "idle"
  PROVE  /\ \A a : Reply(p, a) \/ Answer(p, a) => answer'[p] = a
         /\ \A pc \in Steps \ {"idle"} : ~To(p, pc)
<1>1. \A a : Reply(p, a) \/ Answer(p, a) => answer'[p] = a
  BY Zenon DEF Inv, TypeOK, Reply, Answer
<1>2. ASSUME NEW pc \in Steps \ {"idle"}, To(p, pc) PROVE FALSE
  BY <1>2, MovedFacts, Zenon
<1>. QED BY <1>1, <1>2, Zenon

LEMMA OutageStep ==
  ASSUME Inv, [Next]_vars, NEW p \in Calls, answer'[p] = "outage", call[p].pc = "outage", call'[p].pc = "idle",
         call[p].kind = "callback"
  PROVE  state'[call[p].tab] # NoPayload /\ cookie' = cookie
<1>1. RestoreStateAfterOutage(p)
  BY EndIsOwn, Zenon DEF CallStep, ConsumeOAuthState, FetchAppAccessToken, TokenExchange, FetchUser, FindByProviderID,
     LoginBranch, RegistrationBranch, ExchangeVerify, CreatePair, BindCount, BindInsert, BindCommit, ExchangeCanceled
<1>2. state' = SetOneTime(state, call[p].tab, "live") /\ Answer(p, "outage")
  <2>1. ~RestoreFailed(p)
    BY Told, Zenon DEF RestoreFailed
  <2>. QED BY <1>1, <2>1, Zenon DEF RestoreStateAfterOutage
<1>3. call[p].tab \in Tabs
  BY CallFacts, Zenon
<1>4. state'[call[p].tab] # NoPayload
  BY <1>2, <1>3, Zenon DEF Inv, TypeOK, SetOneTime
<1>. QED BY <1>2, <1>4, Zenon DEF Answer, CookieAfter

LEMMA ConflictStep ==
  ASSUME Inv, [Next]_vars, NEW p \in Calls, call[p].kind = "bind", call[p].pc # "idle", call'[p].pc = "idle"
  PROVE  /\ answer'[p] = "alreadyBound" => (owner = call[p].user \/ call[p].user \in second)
         /\ answer'[p] = "occupied" => owner \notin {call[p].user, NoUser}
         /\ answer'[p] = "bound" => call[p].user \notin second
<1>. DEFINE Goal == /\ answer'[p] = "alreadyBound" => (owner = call[p].user \/ call[p].user \in second)
                    /\ answer'[p] = "occupied" => owner \notin {call[p].user, NoUser}
                    /\ answer'[p] = "bound" => call[p].user \notin second
<1>1. /\ \A a : Reply(p, a) \/ Answer(p, a) => answer'[p] = a
      /\ ~To(p, "app") /\ ~To(p, "token") /\ ~To(p, "wait") /\ ~To(p, "user") /\ ~To(p, "lookup")
      /\ ~To(p, "tx") /\ ~To(p, "insert") /\ ~To(p, "commit")
  BY Told, Zenon DEF Steps
<1>2. \A a \in {"done", "refused", "outage"} : Reply(p, a) \/ Answer(p, a) => Goal
  BY <1>1, Zenon
<1>3. /\ ConsumeOAuthState(p) \/ FetchAppAccessToken(p) \/ TokenExchange(p) \/ FetchUser(p) => Goal
      /\ RestoreStateAfterOutage(p) \/ LoginBranch(p) \/ RegistrationBranch(p) => Goal
      /\ CreatePair(p) \/ ExchangeCanceled(p) => Goal
  <2>. HIDE DEF Goal
  <2>. QED BY <1>1, <1>2, Zenon DEF ConsumeOAuthState, FetchAppAccessToken, TokenExchange, FetchUser,
           RestoreStateAfterOutage, RestoreFailed, LoginBranch, RegistrationBranch, CreatePair,
           ExchangeCanceled, FlightSurvives
<1>4. ExchangeVerify(p) => Goal
  <2>. SUFFICES ASSUME ExchangeVerify(p), ~Reply(p, "refused") PROVE FALSE
    BY <1>2, Zenon
  <2>0. PICK t \in Tabs : t = call[p].tab
    BY CallFacts, Zenon
  <2>1. /\ call' = [call EXCEPT ![p].pc = "pair", ![p].user = loginCode[t]]
        /\ loginCode[t] \in Users \union {NoUser, Newcomer} /\ "pair" \in Steps
    BY <2>0, Zenon DEF ExchangeVerify, Inv, TypeOK, Steps
  <2>. QED BY <2>1, TakenFacts, ZenonT(60)
<1>5. FindByProviderID(p) => Goal
  BY <1>1, Zenon DEF FindByProviderID
<1>6. BindCount(p) => Goal
  BY <1>1, Zenon DEF BindCount, CreateWithinLimit
<1>7. BindInsert(p) => Goal
  BY <1>1, Zenon DEF BindInsert, BindWriteError
<1>8. BindCommit(p) => Goal
  <2>1. call[p].pc = "commit" => call[p].user \notin second
    BY CallFacts, Zenon DEF CallOK
  <2>. QED BY <1>1, <2>1, Zenon DEF BindCommit
<1>. HIDE DEF Goal
<1>9. Goal
  BY <1>3, <1>4, <1>5, <1>6, <1>7, <1>8, EndIsOwn, Zenon DEF CallStep
<1>. QED BY <1>9, Zenon DEF Goal

(* What a caller is told is true of its own request, for any number of calls, *)
(* tabs, users and faults: an outage it may retry left its state behind       *)
(* (restoreStateAfterOutage), no call ends with another's, so a caller that   *)
(* leaves the shared fetch takes nobody along (fetchAppAccessToken), and a    *)
(* refused bind names its cause (bindWriteError).                             *)
THEOREM AnswersStayHonest == Spec => AnswersAreHonest
<1>1. ASSUME Inv, [Next]_vars
      PROVE  [\A p \in Calls :
                (answer'[p] = "outage" /\ call[p].pc = "outage" /\ call'[p].pc = "idle" /\ call[p].kind = "callback")
                  => (state'[call[p].tab] # NoPayload /\ cookie' = cookie)]_vars
  BY <1>1, OutageStep, Zenon
<1>2. ASSUME Inv, [Next]_vars
      PROVE  [\A p, q \in Calls : (p # q /\ call[p].pc # "idle" /\ call'[p].pc = "idle")
                                    => (call'[q] = call[q] \/ call'[q].pc # "idle")]_vars
  BY <1>2, EndIsOwn, Zenon DEF Alone
<1>3. ASSUME Inv, [Next]_vars
      PROVE  [\A p \in Calls : call[p].kind = "bind" /\ call[p].pc # "idle" /\ call'[p].pc = "idle" =>
                LET u == call[p].user  IN
                /\ answer'[p] = "alreadyBound" => (owner = u \/ u \in second)
                /\ answer'[p] = "occupied" => owner \notin {u, NoUser}
                /\ answer'[p] = "bound" => u \notin second]_vars
  BY <1>3, ConflictStep, Zenon
<1>. QED BY <1>1, <1>2, <1>3, Invariant, PTL
     DEF Spec, AnswersAreHonest, OutageIsRetryable, CancelIsOwn, ConflictNamesCause
=============================================================================
