---------------------------- MODULE MCDaemonEngine ----------------------------
(* Small instances of DaemonEngine. *)
EXTENDS DaemonEngine
=============================================================================
