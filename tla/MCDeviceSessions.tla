--------------------------- MODULE MCDeviceSessions --------------------------
(* A user with as many devices as the limit allows, and requests that go past it. *)
EXTENDS DeviceSessions

CONSTANTS p1, p2, p3, w1

=============================================================================
