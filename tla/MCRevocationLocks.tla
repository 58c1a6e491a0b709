-------------------------- MODULE MCRevocationLocks --------------------------
(* A revocation by user, one by client and a logout over three families, the    *)
(* last of which is opened while they run.                                      *)
EXTENDS RevocationLocks

CONSTANTS byUser, byClient, logout, p1, p2

MCCovers == [c \in Cutters |->
    CASE c = byUser -> Families [] c = byClient -> {1, 2} [] OTHER -> {3}]
=============================================================================
