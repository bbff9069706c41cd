---------------------------- MODULE MCSupervisor ----------------------------
(* Supervisor with the code's restart budget and a delay of two turns. *)
EXTENDS Supervisor

Restarts == 3
Delay == 2
=============================================================================
