---------------------------- MODULE MCSupervisor ----------------------------
(***************************************************************************)
(* A small instance of Supervisor: two vassals, a few restarts.            *)
(***************************************************************************)
EXTENDS Supervisor, TLC
=============================================================================
