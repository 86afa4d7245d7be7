--------------------------- MODULE MCExtensionIPC ---------------------------
(* Small instances of ExtensionIPC: polls and loops are interchangeable. *)
EXTENDS ExtensionIPC, TLC

IPCSymmetry == Permutations(Polls) \cup Permutations(Loops)
=============================================================================
