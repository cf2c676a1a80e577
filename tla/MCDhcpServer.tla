---------------------------- MODULE MCDhcpServer -----------------------------
(* Instances of DhcpServer for TLC. *)
EXTENDS DhcpServer, TLC

CONSTANTS m1, m2, m3

Reservations == {<<m1, 1>>, <<m2, 1>>, <<m2, 3>>}
=============================================================================
