----------------------------- MODULE MCBrowser -----------------------------
(***************************************************************************)
(* What a browser and its tabs hold between requests: the state cookie and *)
(* login code of a third-party login, the session cookie, and beside them  *)
(* the token family of a client with a capability, which lives as long as  *)
(* its cap allows.  They share no state here, so each behaviour wakes one. *)
(*                                                                         *)
(* Third-party login: two calls, two tabs, two users.  Session: two tabs,  *)
(* two logins, one rotation each, three requests, one fault.  Cap: one     *)
(* family, one request, retention, and a deployment that changes the cap.  *)
(***************************************************************************)
EXTENDS ThirdPartyLogin, TLC

CONSTANTS
    p1, p2, t1, t2, u1, u2,
    NoToken, MaxLogins, MaxRotations, MaxRequests, MaxLosses,
    c1, f1, NoFamily, Lifetimes

VARIABLES
    part,   \* which of the three is awake
    jar, tab, fam, gone, sent, requests, losses, out, excused,
    now, cap, version, shut, holder, born, access, refresh, req

sessionVars == <<jar, tab, fam, gone, sent, requests, losses, out, excused>>
capVars == <<now, cap, version, shut, holder, born, access, refresh, req>>

Session == INSTANCE BrowserSession WITH
    MaxSeq <- MaxRotations, MaxFaults <- MaxLosses,
    closed <- gone, call <- sent, faults <- losses

Family == INSTANCE TokenFamilies WITH
    Users <- {c1}, Families <- {f1}, Capability <- {f1}, Requests <- {c1},
    GraceWindow <- 1, RefreshTTL <- 2, AccessTTL <- 1, AccessAge <- 1, RefreshAge <- 1,
    MaxSeq <- 3, MaxNow <- 4, MaxVersion <- 0,
    closed <- shut, owner <- holder

MCInit ==
    /\ part \in {"login", "session", "cap"}
    /\ Init /\ Session!Init /\ Family!Init
    /\ part # "login" => owner = NoUser /\ second = {} /\ appToken = "none"
    /\ part # "session" => \A t \in Tabs : tab[t] = NoToken
    /\ part # "cap" => cap = CHOOSE l \in Lifetimes : TRUE

MCNext ==
    /\ UNCHANGED part
    /\ \/ part = "login" /\ Next /\ UNCHANGED <<sessionVars, capVars>>
       \/ part = "session" /\ Session!Next /\ UNCHANGED <<vars, capVars>>
       \/ part = "cap" /\ Family!Next /\ UNCHANGED <<vars, sessionVars>>

MCSpec == MCInit /\ [][MCNext]_<<part, vars, sessionVars, capVars>>

Symmetry == Permutations(Calls) \union Permutations(Tabs) \union Permutations(Users)

-----------------------------------------------------------------------------
(* The properties of the session and of the capped family, under their own   *)
(* names.                                                                    *)

\* A refused refresh takes no cookie of a live session away, unless the cookie has
\* changed since the request left.
LiveCookieKept == Session!LiveCookieKept

\* A logout that reports success has ended the session for good, and tabs that refresh by
\* cookie end no session of their own.
LogoutHolds == Session!LogoutHolds

\* Another tab keeps its session when one logs out.
LogoutLeavesOtherTabs == Session!LogoutLeavesOtherTabs

\* No token of a capability family is issued past the family's birth plus the cap.
CapHolds == Family!CapHolds

=============================================================================
