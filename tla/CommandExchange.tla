--------------------------- MODULE CommandExchange ---------------------------
(***************************************************************************)
(* What the daemon promises the callers of extension_execute: a call that  *)
(* was accepted is answered, once, and its answer never changes.  Nothing  *)
(* is said of polls, deliveries, reconciliation or the executed log: those *)
(* are how ExtensionBridge keeps the promise.                              *)
(***************************************************************************)
EXTENDS Naturals

CONSTANT MaxCommands    \* how many calls are ever made

Commands == 1 .. MaxCommands

\* How a call ends: the page's value, the page's error, the 90 s timeout, or
\* the connection that broke because the daemon process went away.
Answers == {"value", "error", "timeout", "dropped"}

VARIABLE call    \* for each call: not made yet, open, or its answer

Init == call = [c \in Commands |-> "unissued"]

Open(c) ==
    /\ call[c] = "unissued"
    /\ call' = [call EXCEPT ![c] = "open"]

Close(c) ==
    /\ call[c] = "open"
    /\ \E a \in Answers : call' = [call EXCEPT ![c] = a]

\* The process dies: every open call is dropped at once.
DropAll ==
    /\ \E c \in Commands : call[c] = "open"
    /\ call' = [c \in Commands |-> IF call[c] = "open" THEN "dropped" ELSE call[c]]

Next ==
    \/ \E c \in Commands : Open(c) \/ Close(c)
    \/ DropAll

SafeSpec == Init /\ [][Next]_call

Spec ==
    /\ SafeSpec
    /\ \A c \in Commands : WF_call(Close(c))
=============================================================================
