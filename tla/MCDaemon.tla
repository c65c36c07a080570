------------------------------ MODULE MCDaemon ------------------------------
(* Daemon.tla with two actions. *)
EXTENDS Daemon
=============================================================================
