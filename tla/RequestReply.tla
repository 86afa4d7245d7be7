---------------------------- MODULE RequestReply ----------------------------
(***************************************************************************)
(* What a client of the daemon is promised about its commands: each one is *)
(* carried out at most once, and ends once, with the daemon's answer to    *)
(* this very command or with a failure.  A failure says nothing of whether *)
(* the command was, or will still be, carried out.                         *)
(***************************************************************************)
CONSTANT Calls

VARIABLES
    request,    \* for each command: not made, open, or how it ended
    ran         \* the commands a daemon has begun to carry out

replyVars == <<request, ran>>

Init ==
    /\ request = [c \in Calls |-> "none"]
    /\ ran = {}

Open(c) ==
    /\ request[c] = "none"
    /\ request' = [request EXCEPT ![c] = "open"]
    /\ UNCHANGED ran

\* Possibly after the client has given up.
Run(c) ==
    /\ request[c] # "none"
    /\ c \notin ran
    /\ ran' = ran \cup {c}
    /\ UNCHANGED request

Reply(c) ==
    /\ request[c] = "open"
    /\ c \in ran
    /\ request' = [request EXCEPT ![c] = "own"]
    /\ UNCHANGED ran

\* Several at once: a daemon that dies takes all its commands with it.
Fail(C) ==
    /\ \A c \in C : request[c] = "open"
    /\ request' = [c \in Calls |-> IF c \in C THEN "failed" ELSE request[c]]
    /\ UNCHANGED ran

Next ==
    \/ \E c \in Calls : Open(c) \/ Run(c) \/ Reply(c)
    \/ \E C \in SUBSET Calls : Fail(C)

SafeSpec == Init /\ [][Next]_replyVars

\* A failure must not be for ever postponed.
Spec == SafeSpec /\ \A c \in Calls : WF_replyVars(Reply(c) \/ Fail({c}))
=============================================================================
