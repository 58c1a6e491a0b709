-------------------------- MODULE SessionLifecycle ---------------------------
(***************************************************************************)
(* What a session is to the rest of the system, without rows, clocks or    *)
(* requests: it is opened once, its single current token is renewed to the *)
(* next generation, and once ended it stays ended.                         *)
(***************************************************************************)
EXTENDS Naturals

CONSTANT Families

VARIABLES
    opened,     \* the families ever opened
    current     \* family -> the generations that can still be refreshed

session == <<opened, current>>

Init ==
    /\ opened = {}
    /\ current = [f \in Families |-> {}]

Open(f) ==
    /\ f \notin opened
    /\ opened' = opened \cup {f}
    /\ current' = [current EXCEPT ![f] = {0}]

Renew(f) ==
    /\ \E n \in current[f] :
            /\ current[f] = {n}
            /\ current' = [current EXCEPT ![f] = {n + 1}]
    /\ UNCHANGED opened

End(F) ==
    /\ current' = [f \in Families |-> IF f \in F THEN {} ELSE current[f]]
    /\ UNCHANGED opened

Next ==
    \/ \E F \in SUBSET Families : End(F)
    \/ \E f \in Families : Open(f) \/ Renew(f)

Spec == Init /\ [][Next]_session
=============================================================================
