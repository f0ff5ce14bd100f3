----------------------------- MODULE MCAcpServer -----------------------------
(***************************************************************************)
(* Model of AcpServer: one session that is prompted twice, one prompt      *)
(* after the other or both at once, and an agent in its background.        *)
(***************************************************************************)
EXTENDS AcpServer

CONSTANTS s1, p1, p2, g1

InOneSession == [a \in Asker |-> s1]

=============================================================================
