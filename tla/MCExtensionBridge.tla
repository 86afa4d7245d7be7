-------------------------- MODULE MCExtensionBridge --------------------------
(* Small instances of ExtensionBridge. *)
EXTENDS ExtensionBridge
=============================================================================
