--------------------------- MODULE MCToolPipeline ---------------------------
(* Small instances of ToolPipeline: all pages on one host, and no host for calls *)
(* that name no URL. *)
EXTENDS ToolPipeline

CONSTANTS host, nohost

OneHost == [t \in Tabs \cup {NoTab} |-> IF t = NoTab THEN nohost ELSE host]
=============================================================================
