--------------------------- MODULE BrowserSession ---------------------------
(***************************************************************************)
(* One browser and its link session: the tabs keep a token pair each, all  *)
(* share the httpOnly session cookie, whose value is a refresh token.  A   *)
(* login and a refresh set the cookie, a logout and a password change      *)
(* clear it, a refused refresh clears it in some cases, and a navigation   *)
(* to /oauth/authorize only reads it.                                      *)
(*                                                                         *)
(* The answers travel: an answer changes the cookie and its tab when it    *)
(* arrives, in any order with the others, or never.  The tab (the front    *)
(* end, which is not part of the repository) sends its own refresh token   *)
(* when it has one and else leaves the cookie to speak, and drops its own  *)
(* token when a refresh ends its session or collides with another.         *)
(***************************************************************************)
EXTENDS Naturals, FiniteSets

CONSTANTS
    Tabs,
    NoToken,
    MaxLogins,      \* bounds: families opened,
    MaxSeq,         \* rotations of a family,
    MaxRequests,    \* requests sent,
    MaxFaults       \* answers lost and requests failing on a dependency

Families == 1..MaxLogins
Token == [f: Families, n: 0..MaxSeq]

VARIABLES
    jar,            \* the session cookie
    tab,            \* tab -> the pair in its sessionStorage
    fam,            \* the token families of the account
    closed,         \* the account is closed
    call,           \* tab -> its request on the way
    requests, faults,   \* how many have been sent, and gone wrong
    \* History.
    out,            \* families whose logout has been answered
    excused         \* families that met what no server can tell from a replay

bounds == <<requests, faults>>
vars == <<jar, tab, fam, closed, call, bounds, out, excused>>

\* aged: the tokens numbered below it were revoked longer ago than the grace window.
Family == [st: {"unborn", "live", "over", "cut", "bulk", "replayed"},
           cur: 0..MaxSeq, aged: 0..(MaxSeq + 1)]
\* after: history, the request left after a logout of its family was answered.
Call == [pc: {"idle", "sent", "user", "rotate", "gate", "revoke", "identify", "mint", "answered"},
         op: {"none", "login", "refresh", "logout", "password", "navigate"},
         tok: Token \cup {NoToken}, cookie: BOOLEAN, late: BOOLEAN,
         ans: {"none", "ok", "gone", "invalid", "conflict", "closed", "fault", "page", "code"},
         after: BOOLEAN]

TypeOK ==
    /\ jar \in Token \cup {NoToken}
    /\ tab \in [Tabs -> Token \cup {NoToken}]
    /\ fam \in [Families -> Family]
    /\ closed \in BOOLEAN
    /\ call \in [Tabs -> Call]
    /\ requests \in 0..MaxRequests /\ faults \in 0..MaxFaults
    /\ out \subseteq Families /\ excused \subseteq Families

IdleCall == [pc |-> "idle", op |-> "none", tok |-> NoToken, cookie |-> FALSE,
             late |-> FALSE, ans |-> "none", after |-> FALSE]

First == [f |-> 1, n |-> 0]

\* Somebody has signed in; the tab it happened in may have been closed since.
Init ==
    /\ jar = First
    /\ \E T \in {S \in SUBSET Tabs : Cardinality(S) <= 1} :
         tab = [t \in Tabs |-> IF t \in T THEN First ELSE NoToken]
    /\ fam = [f \in Families |-> [st |-> IF f = 1 THEN "live" ELSE "unborn",
                                  cur |-> 0, aged |-> 0]]
    /\ closed = FALSE
    /\ call = [t \in Tabs |-> IdleCall]
    /\ requests = 0 /\ faults = 0
    /\ out = {} /\ excused = {}

\* The token is the live one of its family.
Current(k) == k # NoToken /\ fam[k.f].st = "live" /\ fam[k.f].cur = k.n

\* revoked_at is set: rotated away, or cut with its family.
Revoked(k) == fam[k.f].cur > k.n \/ fam[k.f].st \in {"cut", "bulk", "replayed"}

\* revoked_reason is set on the tokens a revocation of all sessions found alive.
Reasoned(k) == fam[k.f].st = "bulk" /\ fam[k.f].cur = k.n

WithinRefreshGrace(k) == k.n >= fam[k.f].aged

AllCut == [f \in Families |->
    IF fam[f].st \in {"live", "over"} THEN [fam[f] EXCEPT !.st = "bulk"] ELSE fam[f]]

Cut(f, why) == [fam EXCEPT ![f].st = IF @ \in {"live", "over"} THEN why ELSE @]

Send(t, op, pc, k, cookie) ==
    call' = [call EXCEPT ![t] = [pc |-> pc, op |-> op, tok |-> k, cookie |-> cookie,
                                 late |-> FALSE, ans |-> "none", after |-> k.f \in out]]
Answer(t, ans) == call' = [call EXCEPT ![t].pc = "answered", ![t].ans = ans]
Proceed(t, pc) == call' = [call EXCEPT ![t].pc = pc]

\* A tab sends one request at a time.
MaySend(t) ==
    /\ call[t].pc = "idle"
    /\ requests < MaxRequests /\ requests' = requests + 1

-----------------------------------------------------------------------------
(* Signing in.                                                               *)

\* Login, Register and ExchangeCode open a family and answer with its first pair.
Login(t) ==
    /\ MaySend(t) /\ tab[t] = NoToken
    /\ ~closed
    /\ \E f \in Families :
         /\ fam[f].st = "unborn" /\ \A g \in 1..(f - 1) : fam[g].st # "unborn"
         /\ fam' = [fam EXCEPT ![f].st = "live"]
         /\ call' = [call EXCEPT ![t] = [IdleCall EXCEPT !.pc = "answered", !.op = "login",
                                         !.tok = [f |-> f, n |-> 0], !.ans = "ok"]]
    /\ UNCHANGED <<jar, tab, closed, faults, out, excused>>

-----------------------------------------------------------------------------
(* POST /auth/refresh.                                                       *)

\* The body's token, or the cookie's when there is none.
Refresh(t) ==
    LET k == IF tab[t] # NoToken THEN tab[t] ELSE jar  IN
    /\ MaySend(t)
    /\ k # NoToken
    /\ Send(t, "refresh", "sent", k, tab[t] = NoToken)
    /\ excused' = excused \cup (IF tab[t] = NoToken THEN {} ELSE {k.f})
    /\ UNCHANGED <<jar, tab, fam, closed, faults, out>>

\* ErrConcurrentRefresh.
RefuseConcurrent(t) == Answer(t, "conflict")

\* A revoked token: ended with all sessions, just rotated by a sibling, or replayed.
RefuseRevoked(t) ==
    LET k == call[t].tok  IN
    \/ /\ Reasoned(k)
       /\ Answer(t, "invalid") /\ UNCHANGED fam
    \/ /\ ~Reasoned(k) /\ WithinRefreshGrace(k)
       /\ RefuseConcurrent(t) /\ UNCHANGED fam
    \/ /\ ~Reasoned(k) /\ ~WithinRefreshGrace(k)
       /\ fam' = Cut(k.f, "replayed")
       /\ Answer(t, "invalid")

FindRefreshToken(t) ==
    LET k == call[t].tok  IN
    /\ call[t].pc = "sent"
    /\ \/ Revoked(k) /\ RefuseRevoked(t)
       \/ ~Revoked(k) /\ fam[k.f].st = "over" /\ Answer(t, "invalid") /\ UNCHANGED fam
       \/ Current(k) /\ Proceed(t, "user") /\ UNCHANGED fam
    /\ UNCHANGED <<jar, tab, closed, bounds, out, excused>>

FindAuthUserByID(t) ==
    /\ call[t].pc = "user"
    /\ IF closed THEN Answer(t, "closed") ELSE Proceed(t, "rotate")
    /\ UNCHANGED <<jar, tab, fam, closed, bounds, out, excused>>

\* The rotation's transaction judges the row again.
RotateRefreshToken(t) ==
    LET k == call[t].tok  IN
    /\ call[t].pc = "rotate"
    /\ \/ Revoked(k) /\ RefuseRevoked(t)
       \/ ~Revoked(k) /\ fam[k.f].st = "over" /\ Answer(t, "invalid") /\ UNCHANGED fam
       \/ /\ Current(k) /\ k.n < MaxSeq
          /\ fam' = [fam EXCEPT ![k.f].cur = k.n + 1]
          /\ call' = [call EXCEPT ![t].pc = "answered", ![t].ans = "ok",
                                  ![t].tok = [f |-> k.f, n |-> k.n + 1]]
    /\ UNCHANGED <<jar, tab, closed, bounds, out, excused>>

-----------------------------------------------------------------------------
(* Ending sessions.                                                          *)

\* POST /auth/logout carries the access token of the tab's pair.  An access token
\* outlives the grace window, so it is late only when older rotations have aged.
Logout(t) ==
    /\ MaySend(t) /\ tab[t] # NoToken
    /\ \E late \in {FALSE, fam[tab[t].f].aged >= tab[t].n} :
         call' = [call EXCEPT ![t] = [IdleCall EXCEPT !.pc = "gate", !.op = "logout",
                                      !.tok = tab[t], !.late = late]]
    /\ UNCHANGED <<jar, tab, fam, closed, faults, out, excused>>

AccessRevoked(k) == fam[k.f].st \in {"cut", "bulk", "replayed"}

\* AuthenticateUserLogout: an expired token passes on its claims alone; a fresh one
\* whose family is cut passes while its cached state is older than the cut.
AuthenticateUserLogout(t) ==
    /\ call[t].pc = "gate"
    /\ \/ Proceed(t, "revoke")
       \/ /\ ~call[t].late
          /\ AccessRevoked(call[t].tok)
          /\ Answer(t, "fault")
    /\ UNCHANGED <<jar, tab, fam, closed, bounds, out, excused>>

\* A revoked access row is a session already ended.
SessionGone(t) == AccessRevoked(call[t].tok)

\* The family of the access token is cut; success too when its row is revoked, or
\* when retention has deleted it long after it expired.
RevokeFamily(t) ==
    /\ call[t].pc = "revoke"
    /\ \/ SessionGone(t) /\ Answer(t, "ok") /\ UNCHANGED fam
       \/ call[t].late /\ Answer(t, "gone") /\ UNCHANGED fam
       \/ /\ ~SessionGone(t)
          /\ fam' = Cut(call[t].tok.f, "cut")
          /\ Answer(t, "ok")
    /\ UNCHANGED <<jar, tab, closed, bounds, out, excused>>

\* ChangePassword and ResetPassword end every session of the account.
ChangePassword(t) ==
    /\ MaySend(t)
    /\ ~closed
    /\ \E f \in Families : fam[f].st = "live"
    /\ fam' = AllCut
    /\ call' = [call EXCEPT ![t] = [IdleCall EXCEPT !.pc = "answered",
                                    !.op = "password", !.ans = "ok"]]
    /\ UNCHANGED <<jar, tab, closed, faults, out, excused>>

\* A role change, or the closing of the account, outside this browser.
RevokedElsewhere ==
    /\ \E f \in Families : fam[f].st = "live"
    /\ fam' = AllCut
    /\ closed' \in {closed, TRUE}
    /\ UNCHANGED <<jar, tab, call, bounds, out, excused>>

-----------------------------------------------------------------------------
(* A top-level navigation to /oauth/authorize.                               *)

Authorize(t) ==
    /\ MaySend(t)
    /\ jar # NoToken
    /\ Send(t, "navigate", "identify", jar, TRUE)
    /\ UNCHANGED <<jar, tab, fam, closed, faults, out, excused>>

\* Mutant: the grace window of Refresh holds for the identity as well.
IdentifiesInGrace(k) == ~closed /\ (Current(k) \/ (Revoked(k) /\ ~Reasoned(k) /\ WithinRefreshGrace(k)))

\* IdentifyByRefreshToken: only the live token, and nothing is written.
Identifies(k) == ~closed /\ Current(k)

IdentifyUser(t) ==
    /\ call[t].pc = "identify"
    /\ IF Identifies(call[t].tok) THEN Proceed(t, "mint") ELSE Answer(t, "page")
    /\ UNCHANGED <<jar, tab, fam, closed, bounds, out, excused>>

\* SilentConsent gives a code when the user's grant covers the request.
TrySilentConsent(t) ==
    /\ call[t].pc = "mint"
    /\ \E ans \in {"code", "page"} : Answer(t, ans)
    /\ UNCHANGED <<jar, tab, fam, closed, bounds, out, excused>>

-----------------------------------------------------------------------------
(* The answers.                                                              *)

\* Mutant: whatever token failed, the cookie goes.
RefusalClearsAny(c) == c.ans \in {"invalid", "closed"}

\* A refused refresh clears the cookie when it came from there and is dead for good.
RefusalClears(c) == c.cookie /\ c.ans \in {"invalid", "closed"}

SetsCookie(c) == c.op \in {"login", "refresh"} /\ c.ans = "ok"

Cleared == NoToken

ClearsCookie(c) ==
    \/ c.op \in {"logout", "password"} /\ c.ans \in {"ok", "gone"}
    \/ c.op = "refresh" /\ RefusalClears(c)

\* What the answer does to the cookie.
JarAfter(c) ==
    IF SetsCookie(c) THEN c.tok ELSE IF ClearsCookie(c) THEN Cleared ELSE jar

\* What the front end makes of it: a refresh that ends in 401 ends the session, and
\* after a collision the tab turns to the cookie.  A closed account answers 403 to a
\* body's token.
TabAfter(t) ==
    LET c == call[t]  IN
    CASE c.op \in {"login", "refresh"} /\ c.ans = "ok" -> c.tok
      [] c.op \in {"logout", "password"} /\ c.ans \in {"ok", "gone"} -> NoToken
      [] c.op = "refresh" /\ c.ans \in {"invalid", "conflict"} -> NoToken
      [] OTHER -> tab[t]

Deliver(t) ==
    LET c == call[t]  IN
    /\ c.pc = "answered"
    /\ jar' = JarAfter(c)
    /\ tab' = [tab EXCEPT ![t] = TabAfter(t)]
    /\ out' = out \cup (IF c.op = "logout" /\ c.ans = "ok" THEN {c.tok.f} ELSE {})
    /\ call' = [call EXCEPT ![t] = IdleCall]
    /\ UNCHANGED <<fam, closed, bounds, excused>>

\* The connection breaks before the answer arrives.
Lose(t) ==
    /\ call[t].pc = "answered" /\ faults < MaxFaults
    /\ faults' = faults + 1
    /\ excused' = excused \cup (IF SetsCookie(call[t]) THEN {call[t].tok.f} ELSE {})
    /\ call' = [call EXCEPT ![t] = IdleCall]
    /\ UNCHANGED <<jar, tab, fam, closed, requests, out>>

\* A rate limit or a dependency that fails: 429, 500, 503.
Fail(t) ==
    /\ call[t].pc \in {"sent", "user", "rotate", "revoke"} /\ faults < MaxFaults
    /\ faults' = faults + 1
    /\ Answer(t, "fault")
    /\ UNCHANGED <<jar, tab, fam, closed, requests, out, excused>>

-----------------------------------------------------------------------------
(* Time.                                                                     *)

\* The grace window of the oldest revoked token ends; what is still on the way for
\* the family by then is as good as lost.
GraceEnds(f) ==
    /\ fam[f].aged <= fam[f].cur
    /\ Revoked([f |-> f, n |-> fam[f].aged])
    /\ fam' = [fam EXCEPT ![f].aged = @ + 1]
    /\ excused' = excused \cup
         (IF \E t \in Tabs : call[t].tok # NoToken /\ call[t].tok.f = f THEN {f} ELSE {})
    /\ UNCHANGED <<jar, tab, closed, call, bounds, out>>

\* The refresh token expires unused, and with it the cookie.
SessionExpires(f) ==
    /\ fam[f].st = "live"
    /\ fam' = [fam EXCEPT ![f].st = "over"]
    /\ jar' = IF jar # NoToken /\ jar.f = f THEN NoToken ELSE jar
    /\ UNCHANGED <<tab, closed, call, bounds, out, excused>>

-----------------------------------------------------------------------------
TabNext(t) ==
    \/ Login(t) \/ Refresh(t) \/ Logout(t) \/ ChangePassword(t) \/ Authorize(t)
    \/ FindRefreshToken(t) \/ FindAuthUserByID(t) \/ RotateRefreshToken(t)
    \/ AuthenticateUserLogout(t) \/ RevokeFamily(t)
    \/ IdentifyUser(t) \/ TrySilentConsent(t)
    \/ Deliver(t) \/ Lose(t) \/ Fail(t)

Next ==
    \/ \E t \in Tabs : TabNext(t)
    \/ \E f \in Families : GraceEnds(f) \/ SessionExpires(f)
    \/ RevokedElsewhere

Spec == Init /\ [][Next]_vars

-----------------------------------------------------------------------------
(* Properties.                                                               *)

\* Refresh clears "a stale cookie only when the dead token came from it": the cookie
\* of a live session is removed by the end of a session alone, or by a refusal of a
\* token that was in the cookie when the request left and has been replaced since.
LiveCookieKept ==
    [][jar # NoToken /\ jar' = NoToken /\ Current(jar) =>
         \/ \E f \in Families : fam'[f].st = "over" /\ fam[f].st = "live"
         \/ \E t \in Tabs :
              /\ call[t].pc = "answered" /\ call'[t] = IdleCall
              /\ \/ call[t].op \in {"logout", "password"}
                 \/ call[t].op = "refresh" /\ call[t].cookie /\ call[t].tok # jar]_vars

\* Two tabs that leave the cookie to speak never end their own session: a family is
\* cut as replayed only after a tab sent a token of its own, an answer was lost, or a
\* request or answer took longer than the grace window.
CookieOnlyIsSafe ==
    \A f \in Families : fam[f].st = "replayed" => f \in excused

\* A request that leaves after a logout was answered gets neither a token nor a silent
\* authorization out of the family that was logged out, although a late answer may
\* have put a token of it back into the cookie.
LogoutIsFinal ==
    \A t \in Tabs :
        call[t].op \in {"refresh", "navigate"} /\ call[t].ans \in {"ok", "code"} =>
            ~call[t].after

\* A logout that reports success has ended the session, with an expired access token
\* too, unless retention has deleted the token's row.
LogoutEndsSession ==
    \A t \in Tabs : call[t].op = "logout" /\ call[t].ans = "ok" =>
        fam[call[t].tok.f].st \notin {"live", "over"}

\* The API documentation has other tabs keep their session when one logs out.
LogoutLeavesOtherTabs ==
    [][\A t, u \in Tabs :
         /\ t # u
         /\ call[t].op = "logout" /\ call[t].pc = "revoke" /\ call'[t].pc = "answered"
         /\ Current(tab[u])
         => Current(tab[u])']_vars

\* Logout does what it says and nothing ends a session by mistake: the types, and what
\* tabs that share a cookie may rely on.
LogoutHolds == TypeOK /\ CookieOnlyIsSafe /\ LogoutIsFinal /\ LogoutEndsSession
=============================================================================
