--------------------------- MODULE MCCredentials ---------------------------
(***************************************************************************)
(* Proving who one is without a provider: registering and binding a        *)
(* mailbox with a mailed code, and the password login with its failure     *)
(* windows.  They use keys of their own in Redis and no common row, so     *)
(* each behaviour wakes one of them.                                       *)
(*                                                                         *)
(* Registration: two calls, two addresses of which one may register, room  *)
(* for one bound mailbox.  Guard: two logins and a password change or      *)
(* reset around a limit of two.                                            *)
(***************************************************************************)
EXTENDS Registration, TLC

CONSTANTS
    p1, p2, a1, a2,
    Logins, Setters, s1, FailureLimit, Passwords

VARIABLES
    part,   \* which of the two is awake
    account, known, failures, login, setter, guardFaults, guesses, password

Guard == INSTANCE LoginGuard WITH faults <- guardFaults

guardVars == <<account, known, failures, login, setter, guardFaults, guesses, password>>
MCInit ==
    /\ part \in {"registration", "guard"}
    /\ Init /\ Guard!Init
    /\ account.password = 1
    /\ parked <=> part = "registration"
    /\ known /\ (account.stale <=> part = "guard")

MCNext ==
    /\ UNCHANGED part
    /\ \/ part = "registration" /\ Next /\ UNCHANGED guardVars
       \/ part = "guard" /\ Guard!Next /\ UNCHANGED vars

MCSpec == MCInit /\ [][MCNext]_<<part, vars, guardVars>>

Symmetry == Permutations({p1, p2})

-----------------------------------------------------------------------------
(* The properties of the login, under their own names. *)

\* Guesses are bounded in a window and a rehash at login never undoes a password change
\* or reset.
GuardSound == Guard!GuardSound
=============================================================================
