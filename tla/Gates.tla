------------------------------- MODULE Gates -------------------------------
(***************************************************************************)
(* The gates a tool call passes before an engine is chosen                 *)
(* (executeToolWithSecurity of server.ts, steps 0.9 to 5b, and 8c after    *)
(* the tool ran): wall cap, kill switch, domain policy, human approval,    *)
(* rate limiter and loop detector.                                         *)
(*                                                                         *)
(* The gates run without an await, so a call takes them in one step; the   *)
(* answers of snapshots come later, in any order, between other calls.     *)
(* Kill switch and circuit breaker are the matter of ToolPipeline.         *)
(***************************************************************************)
EXTENDS Naturals, FiniteSets, Sequences, SequencesExt, FiniteSetsExt

CONSTANTS
    Calls,           \* [tool, key, domain, url, fields] of a tool call
    BuiltIn, Blocked, Trusted,  \* sequences of patterns of the domain policy
    Matches(_),      \* the domains a pattern matches
    Results,         \* what a snapshot shows, without its volatile fields
    GlobalLimit, WindowMs, WallMs,
    LoopThreshold, ThrashThreshold,
    MaxClock, MaxSnapshots  \* bounds of the model

GatesAssumption ==
    /\ {GlobalLimit, WindowMs, LoopThreshold, ThrashThreshold} \subseteq Nat \ {0}
    /\ {WallMs, MaxClock, MaxSnapshots} \subseteq Nat

VARIABLES
    clock,
    windows,         \* time stamps of the rate limiter, per domain
    callHistory, snapshotResultHistory,
    open,            \* snapshots that have passed the gates and not answered
    answered,        \* what the last call got
    admitted,        \* history: the latest stamps, one more than the limit
    streak,          \* history: the last call at the loop gate, and how many
                     \* equal ones in a row it let through since the last reset
    shown            \* history: the same for results of snapshots

vars == <<clock, windows, callHistory, snapshotResultHistory, open, answered,
          admitted, streak, shown>>

Domains == {c.domain : c \in Calls}
SensitiveTools == {"safari_register_selector"}
DownloadTools == {"safari_wait_for_download"}
FormTools == {"safari_fill", "safari_click"}
Nobody == [what |-> <<>>, times |-> 0]

-----------------------------------------------------------------------------
\* Pure parts of the gates.

\* A pattern of the configuration does not replace a rule that is there.
Rules ==
    LET blocked == SelectSeq(Blocked, LAMBDA p : p \notin ToSet(BuiltIn))
    IN  BuiltIn \o blocked
            \o SelectSeq(Trusted, LAMBDA p : p \notin ToSet(BuiltIn) \cup ToSet(Blocked))

IsBlocked(domain) ==
    LET fits == {i \in DOMAIN Rules : domain \in Matches(Rules[i])}
    IN  fits # {} /\ Rules[Min(fits)] \in ToSet(Blocked)

RequiresApproval(c) ==
    \/ c.tool \in SensitiveTools
    \/ c.url \in {"oauth", "financial", "download", "account"}
    \/ "financial" \in c.fields
    \/ c.tool \in DownloadTools
    \/ c.tool \in FormTools /\ "secret" \in c.fields

\* Stamps are in the order of time: those that the filter keeps are the last.
Prune(stamps) ==
    LET live == {i \in DOMAIN stamps : stamps[i] + WindowMs > clock}
    IN  IF live = {} THEN <<>> ELSE SubSeq(stamps, Min(live), Len(stamps))

\* The last n of a history and a new entry.
Shifted(history, x, n) ==
    LET all == Append(history, x)
    IN  IF Len(all) > n THEN Tail(all) ELSE all

\* Mutant: the history is cleared when a loop is found.
PushedCleared(history, x, threshold) ==
    LET kept == Shifted(history, x, threshold)
    IN  IF Len(kept) = threshold /\ ToSet(kept) = {x} THEN <<>> ELSE kept

Pushed(history, x, threshold) == Shifted(history, x, threshold)

Repeats(history, x, threshold) ==
    LET n == Len(history)
    IN  /\ n + 1 >= threshold
        /\ \A i \in 1..n : i + threshold > n + 1 => history[i] = x

Counted(ghost, x, through) ==
    LET before == IF ghost.what = x THEN ghost.times ELSE 0
    IN  [what |-> x, times |-> IF through THEN before + 1 ELSE before]

-----------------------------------------------------------------------------
Init ==
    /\ clock = 0
    /\ windows = [d \in Domains |-> <<>>]
    /\ callHistory = <<>> /\ snapshotResultHistory = <<>>
    /\ open = 0
    /\ answered = "nothing"
    /\ admitted = [d \in Domains |-> <<>>]
    /\ streak = Nobody /\ shown = Nobody

Tick ==
    /\ clock < MaxClock
    /\ clock' = clock + 1
    /\ UNCHANGED <<windows, callHistory, snapshotResultHistory, open, answered,
                   admitted, streak, shown>>

WallCapReached == WallMs # 0 /\ clock > WallMs

\* Refused before the rate limiter: nothing is recorded but in the audit log.
Refuse(c) ==
    /\ WallCapReached \/ IsBlocked(c.domain) \/ RequiresApproval(c)
    /\ answered' = IF WallCapReached THEN "wall_cap"
                   ELSE IF IsBlocked(c.domain) THEN "blocked" ELSE "approval_required"
    /\ UNCHANGED <<clock, windows, callHistory, snapshotResultHistory, open, admitted, streak, shown>>

Reaches(c) == ~WallCapReached /\ ~IsBlocked(c.domain) /\ ~RequiresApproval(c)

RateLimited(c) ==
    LET live == Prune(windows[c.domain])
    IN  /\ Reaches(c)
        /\ Len(live) >= GlobalLimit
        /\ windows' = [windows EXCEPT ![c.domain] = live]
        /\ answered' = "rate_limited"
        /\ UNCHANGED <<clock, callHistory, snapshotResultHistory, open, admitted, streak, shown>>

RecordAction(c) ==
    LET live == Prune(windows[c.domain])
    IN  /\ Reaches(c)
        /\ Len(live) < GlobalLimit
        /\ windows' = [windows EXCEPT ![c.domain] = Append(live, clock)]
        /\ admitted' = [admitted EXCEPT ![c.domain] = Shifted(@, clock, GlobalLimit + 1)]

\* safari_health_check starts the detector anew.
HealthCheck(c) ==
    /\ c.tool = "safari_health_check"
    /\ RecordAction(c)
    /\ callHistory' = <<>> /\ snapshotResultHistory' = <<>>
    /\ streak' = Nobody /\ shown' = Nobody
    /\ answered' = "passed"
    /\ UNCHANGED <<clock, open>>

\* The quota is spent even when the detector then refuses the call.
Call(c) ==
    LET key == <<c.tool, c.key>>
        looping == Repeats(callHistory, key, LoopThreshold)
        snapshot == c.tool = "safari_snapshot"
    IN  /\ c.tool # "safari_health_check"
        /\ snapshot => open < MaxSnapshots
        /\ RecordAction(c)
        /\ callHistory' = Pushed(callHistory, key, LoopThreshold)
        /\ streak' = Counted(streak, key, ~looping)
        /\ answered' = IF looping THEN "loop_detected" ELSE "passed"
        /\ open' = IF snapshot /\ ~looping THEN open + 1 ELSE open
        /\ UNCHANGED <<clock, snapshotResultHistory, shown>>

SnapshotAnswers(result) ==
    LET thrashing == Repeats(snapshotResultHistory, result, ThrashThreshold)
    IN  /\ open > 0
        /\ open' = open - 1
        /\ snapshotResultHistory' = Pushed(snapshotResultHistory, result, ThrashThreshold)
        /\ shown' = Counted(shown, result, ~thrashing)
        /\ answered' = IF thrashing THEN "thrash_detected" ELSE "shown"
        /\ UNCHANGED <<clock, windows, callHistory, admitted, streak>>

\* A later gate, the engine or the tool fails.
SnapshotFails ==
    /\ open > 0
    /\ open' = open - 1
    /\ answered' = "failed"
    /\ UNCHANGED <<clock, windows, callHistory, snapshotResultHistory, admitted, streak, shown>>

Next ==
    \/ Tick
    \/ \E c \in Calls : Refuse(c) \/ RateLimited(c) \/ HealthCheck(c) \/ Call(c)
    \/ \E result \in Results : SnapshotAnswers(result)
    \/ SnapshotFails

Spec == Init /\ [][Next]_vars

-----------------------------------------------------------------------------
\* Properties.

\* Of all actions ever admitted no more than the limit lie in any one window.
QuotaHeld ==
    \A d \in Domains :
        Len(admitted[d]) > GlobalLimit => Head(admitted[d]) + WindowMs <= Last(admitted[d])

\* Whatever is tried in between, the guards hold over the whole session: no
\* window has more actions than the limit (rate-limiter.ts:71-104), and of equal
\* calls or results in a row those from the threshold on are all refused, until
\* another one comes or the agent asks for a health check: a refusal does not
\* buy new attempts (loop-detector.ts:57-63, 83-87).
GuardsHold ==
    /\ QuotaHeld
    /\ streak.times < LoopThreshold
    /\ shown.times < ThrashThreshold

\* The window of a domain is the end of what was admitted, in the order of time,
\* and what it lacks of it has expired.
QuotaInv(window, all) ==
    LET n == Len(all) - Len(window)
    IN  /\ Len(window) <= GlobalLimit /\ Len(all) <= GlobalLimit + 1 /\ n >= 0
        /\ \A i \in DOMAIN window : window[i] = all[n + i]
        /\ \A i, k \in DOMAIN all : i <= k => all[i] <= all[k]
        /\ \A i \in DOMAIN all : all[i] <= clock /\ (i <= n => all[i] + WindowMs <= clock)
        /\ Len(all) = GlobalLimit + 1 => all[1] + WindowMs <= all[Len(all)]

\* The history ends with at least as many equal entries as were let through.
RepeatsInv(history, ghost, threshold) ==
    /\ ghost.times \in Nat /\ ghost.times < threshold /\ ghost.times <= Len(history)
    /\ \A i \in DOMAIN history : i > Len(history) - ghost.times => history[i] = ghost.what

Keys == {<<c.tool, c.key>> : c \in Calls}

GatesInv ==
    /\ clock \in Nat /\ windows \in [Domains -> Seq(Nat)] /\ admitted \in [Domains -> Seq(Nat)]
    /\ callHistory \in Seq(Keys) /\ snapshotResultHistory \in Seq(Results)
    /\ \A d \in Domains : QuotaInv(windows[d], admitted[d])
    /\ RepeatsInv(callHistory, streak, LoopThreshold)
    /\ RepeatsInv(snapshotResultHistory, shown, ThrashThreshold)
=============================================================================
