---------------------------- MODULE MCManagerLink ----------------------------
(* ManagerLink with two configurations, for TLC. *)
EXTENDS ManagerLink
=============================================================================
