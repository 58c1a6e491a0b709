-------------------------- MODULE MCAuthStateCache --------------------------
(***************************************************************************)
(* The road of a request to its handler, in two parts that one initial     *)
(* situation each wakes.                                                   *)
(*                                                                         *)
(* "cache": two requests and two workers on one token.  "gate": a console  *)
(* session and a delegated token at every gate; the situations are a       *)
(* console that changes the application's registration, an account that    *)
(* is demoted or closed while its tokens are cached, and two requests that *)
(* change one registration at once.                                        *)
(***************************************************************************)
EXTENDS AuthStateCache, TLC

CONSTANTS p1, p2, w1, w2, Keep

VARIABLES
    part,   \* "cache" or "gate"
    setting, account, client, token, entry, call

-----------------------------------------------------------------------------
Lists == {<<"openid">>, <<"admin:write", "openid">>, <<"openid", "user:write">>,
          <<"openid", "admin:read", "user:read">>, <<"profile">>, <<"openid", "openid">>}

Setting(role, type, scopes, ttl, writes, changes) ==
    [role |-> role, type |-> type, scopes |-> scopes, registered |-> FALSE,
     offers |-> Lists, timed |-> TRUE, active |-> {p1},
     cacheTTL |-> ttl, writes |-> writes, changes |-> changes]

AdminWrite == <<"openid", "admin:write">>
BothRead == <<"openid", "admin:read", "user:read">>

Asleep == [Setting("member", "first_party", <<"openid">>, 0, 0, 0) EXCEPT !.active = {}]
Awake ==
    { Setting("admin", "third_party", AdminWrite, 1, 1, 0),
      Setting("admin", "first_party", <<"openid">>, 1, 1, 0),
      [Setting("admin", "third_party", <<"openid">>, 1, 1, 1)
            EXCEPT !.offers = {<<"openid">>, <<"admin:write", "openid">>}],
      Setting("manager", "third_party", AdminWrite, 2, 0, 1),
      Setting("manager", "third_party", BothRead, 1, 0, 1),
      Setting("lecturer", "third_party", AdminWrite, 1, 0, 2),
      Setting("member", "first_party", <<"openid", "user:write">>, 1, 0, 1),
      [Setting("admin", "third_party", AdminWrite, 0, 2, 0)
            EXCEPT !.offers = {<<"openid">>, <<"admin:write", "openid">>},
                   !.registered = TRUE, !.timed = FALSE, !.active = {p1, p2}] }

Gate == INSTANCE RequestGate WITH
    App <- "app", Other <- "other", Console <- "console",
    Settings <- Awake \cup {Asleep}, cache <- entry, req <- call

-----------------------------------------------------------------------------
gateVars == <<setting, account, client, token, entry, call>>

MCInit ==
    /\ part \in {"cache", "gate"}
    /\ Init /\ Gate!Init
    /\ setting = Asleep <=> part = "cache"

MCNext ==
    /\ UNCHANGED part
    /\ \/ part = "cache" /\ Next /\ UNCHANGED gateVars
       \/ part = "gate" /\ Gate!Next /\ UNCHANGED vars

MCSpec == MCInit /\ [][MCNext]_<<part, vars, gateVars>> /\ Fairness

-----------------------------------------------------------------------------
(* The properties of the gates, under their own names. *)

\* A request at a handler was entitled to its act at one moment no longer ago
\* than a put and a cache lifetime; and the types of the gates' state.
EveryActIsBacked == part = "gate" => Gate!TypeOK /\ Gate!EveryActIsBacked

\* What a capability client is registered with changes by the console's hand.
CapabilityIsTheConsoles == Gate!CapabilityIsTheConsoles
=============================================================================
