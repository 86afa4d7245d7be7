------------------------- MODULE SessionWindowsProofs -------------------------
(***************************************************************************)
(* A clean exit leaves no dashboard window behind, for any number of       *)
(* servers, windows and faults.                                            *)
(***************************************************************************)
EXTENDS SessionWindows, TLAPS

-----------------------------------------------------------------------------
\* The inductive invariant.

Steps == {"idle", "register", "check", "sweep", "open", "poll"}

WindowTypes ==
    /\ step \in [Servers -> [Threads -> Steps]]
    /\ windowId \in [Servers -> Windows \cup {None}]
    /\ opener \in [Windows -> Servers \cup {None}]
    /\ life \in [Servers -> {"off", "starting", "serving", "stopping", "clean", "cut", "dead"}]
    /\ stop \in [Servers -> {"no", "count", "close", "sweep", "engines"}]

HasNone(s) == \A w \in Windows : opener[w] # s

\* The server knows of all its windows, which is at most one.
Knows(s) ==
    /\ Running(s) => \A w \in Windows : opener[w] = s => w = windowId[s]
    /\ life[s] \in {"off", "clean"} => HasNone(s)

\* One thread is under way: start, then a call, and none when it was told to stop.
OneThread(s) ==
    \A t \in Threads : step[s][t] # "idle" =>
        \/ life[s] = "starting" /\ t = "start"
        \/ life[s] = "serving" /\ t \in Calls

\* Nobody opens a window while there is one.
NoneYet(s) ==
    /\ \A t \in Threads : step[s][t] \in {"sweep", "open"} => HasNone(s)
    /\ step[s]["start"] = "register" => HasNone(s)

NoneLeft(s) == life[s] = "stopping" /\ stop[s] \in {"sweep", "engines"} => HasNone(s)

Tidy(s) == s \notin busy \cup failed => Knows(s) /\ OneThread(s) /\ NoneYet(s) /\ NoneLeft(s)

WindowsInv == WindowTypes /\ \A s \in Servers : Tidy(s)

OneCall == \A c, d \in Calls : c = d

-----------------------------------------------------------------------------
LEMMA WindowsInit == Init => WindowsInv
    BY SessionWindowsAssumption
    DEF Init, WindowsInv, WindowTypes, Steps, Tidy, Knows, OneThread, NoneYet, NoneLeft, HasNone, Running, Threads

\* What a step does not touch stays tidy, although others close its windows.
LEMMA BystanderTidy ==
    ASSUME NEW s \in Servers, Tidy(s),
           life'[s] = life[s], step'[s] = step[s], stop'[s] = stop[s], windowId'[s] = windowId[s],
           \A w \in Windows : opener'[w] = s => opener[w] = s,
           busy \subseteq busy', failed \subseteq failed'
    PROVE  Tidy(s)'
    BY DEF Tidy, Knows, OneThread, NoneYet, NoneLeft, HasNone, Running, Threads

LEMMA GotoTypes ==
    ASSUME WindowTypes, NEW s \in Servers, NEW t \in Threads, NEW n \in Steps, Goto(s, t, n)
    PROVE  step' \in [Servers -> [Threads -> Steps]]
    BY DEF WindowTypes, Goto

LEMMA EndedTypes ==
    ASSUME WindowTypes, NEW s \in Servers, NEW how \in {"clean", "cut", "dead"}, Ended(s, how)
    PROVE  WindowTypes'
<1>1. [t \in Threads |-> "idle"] \in [Threads -> Steps]
    BY DEF Steps
<1>2. step' \in [Servers -> [Threads -> Steps]]
    BY <1>1 DEF Ended, WindowTypes
<1>. QED  BY <1>2 DEF Ended, WindowTypes, windowVars

LEMMA ThreadTypes ==
    ASSUME WindowTypes, NEW s \in Servers, NEW t \in Threads, ThreadStep(s, t)
    PROVE  WindowTypes'
<1> USE DEF WindowTypes, windowVars
<1>1. CASE Register(s, t)
    <2>1. \E n \in Steps : Goto(s, t, n)
        BY <1>1 DEF Register, Steps
    <2>. QED  BY <1>1, <2>1, GotoTypes DEF Register
<1>2. CASE Sweep(s, t)
    <2>1. \E n \in Steps : Goto(s, t, n)
        BY <1>2 DEF Sweep, Steps
    <2>2. opener' \in [Windows -> Servers \cup {None}]
        BY <1>2 DEF Sweep, CloseTitled
    <2>. QED  BY <1>2, <2>1, <2>2, GotoTypes DEF Sweep
<1>3. CASE OpenWindow(s, t)
    <2>1. \E n \in Steps : Goto(s, t, n)
        BY <1>3 DEF OpenWindow, Steps
    <2>2. /\ opener' \in [Windows -> Servers \cup {None}]
          /\ windowId' \in [Servers -> Windows \cup {None}]
        BY <1>3, ZenonT(60) DEF OpenWindow
    <2>3. life' \in [Servers -> {"off", "starting", "serving", "stopping", "clean", "cut", "dead"}]
        BY <1>3 DEF OpenWindow
    <2>. QED  BY <1>3, <2>1, <2>2, <2>3, GotoTypes DEF OpenWindow
<1>4. CASE Poll(s, t)
    <2>1. \E n \in Steps : Goto(s, t, n)
        BY <1>4 DEF Poll, Steps
    <2>2. life' \in [Servers -> {"off", "starting", "serving", "stopping", "clean", "cut", "dead"}]
        BY <1>4 DEF Poll
    <2>. QED  BY <1>4, <2>1, <2>2, GotoTypes DEF Poll
<1>. QED  BY <1>1, <1>2, <1>3, <1>4 DEF ThreadStep

LEMMA WindowTypesStep == ASSUME WindowTypes, [Next]_vars PROVE WindowTypes'
<1> USE DEF WindowTypes, windowVars
<1>1. CASE UNCHANGED vars
    BY <1>1 DEF vars
<1>2. ASSUME NEW s \in Servers, Launch(s) PROVE WindowTypes'
    <2>1. Goto(s, "start", "register") /\ "start" \in Threads /\ "register" \in Steps
        BY <1>2 DEF Launch, Threads, Steps
    <2>. QED  BY <1>2, <2>1, GotoTypes DEF Launch
<1>3. ASSUME NEW s \in Servers, Killed(s) \/ Exit(s) \/ ThreeSeconds(s) PROVE WindowTypes'
    BY <1>3, EndedTypes DEF Killed, Exit, ThreeSeconds
<1>4. ASSUME NEW s \in Servers, NEW t \in Threads, ThreadStep(s, t) PROVE WindowTypes'
    BY <1>4, ThreadTypes
<1>5. ASSUME NEW s \in Servers, NEW c \in Calls, CallStep(s, c) PROVE WindowTypes'
    <2>1. c \in Threads /\ \E n \in Steps : Goto(s, c, n)
        BY <1>5 DEF CallStep, Gate, Check, Steps, Threads
    <2>2. windowId' \in [Servers -> Windows \cup {None}]
        BY <1>5 DEF CallStep, Gate, Check
    <2>3. UNCHANGED <<life, stop, opener>>
        BY <1>5 DEF CallStep, Gate, Check
    <2>. QED  BY <2>1, <2>2, <2>3, GotoTypes
<1>6. ASSUME NEW s \in Servers, Stop(s) \/ CountTitled(s) \/ CloseOwn(s) \/ SweepRemaining(s)
      PROVE  WindowTypes'
    <2>1. CASE Stop(s) \/ CountTitled(s)
        BY <2>1 DEF Stop, CountTitled
    <2>2. CASE CloseOwn(s)
        BY <2>2 DEF CloseOwn, Closes
    <2>3. CASE SweepRemaining(s)
        BY <2>3 DEF SweepRemaining, CloseTitled
    <2>. QED  BY <1>6, <2>1, <2>2, <2>3
<1>7. ASSUME NEW w \in Windows, PageLoads(w) \/ UserCloses(w) PROVE WindowTypes'
    BY <1>7 DEF PageLoads, UserCloses
<1>8. ASSUME DaemonRestarts \/ \E s \in Servers : SixtySeconds(s) PROVE WindowTypes'
    BY <1>8 DEF DaemonRestarts, SixtySeconds
<1>. QED  BY <1>1, <1>2, <1>3, <1>4, <1>5, <1>6, <1>7, <1>8 DEF Next, StopStep

-----------------------------------------------------------------------------
\* Tidiness.  A failed script or request ends what is claimed of the server.

LEMMA FaultExcused == ASSUME NEW s \in Servers, Fault(s) PROVE Tidy(s)'
    BY DEF Fault, Tidy

LEMMA LaunchTidy ==
    ASSUME WindowsInv, NEW s \in Servers, Launch(s)
    PROVE  Tidy(s)'
<1> USE DEF WindowsInv, WindowTypes, Tidy, windowVars
<1>1. CASE s \in busy \cup failed
    BY <1>1 DEF Launch
<1>2. CASE s \notin busy \cup failed
    <2>1. HasNone(s)' /\ (\A t \in Threads : step[s][t] = "idle")
        BY <1>2 DEF Launch, Knows, HasNone, OneThread
    <2>2. life'[s] = "starting" /\ step'[s] = [step[s] EXCEPT !["start"] = "register"]
        BY DEF Launch, Goto
    <2>3. \A t \in Threads : step'[s][t] # "idle" => t = "start"
        BY <2>1, <2>2
    <2>. QED  BY <2>1, <2>2, <2>3 DEF Knows, OneThread, NoneYet, NoneLeft, HasNone, Running
<1>. QED  BY <1>1, <1>2

LEMMA ThreadTidy ==
    ASSUME WindowsInv, OneCall, NEW s \in Servers, NEW t \in Threads, ThreadStep(s, t)
    PROVE  Tidy(s)'
<1> USE DEF WindowsInv, WindowTypes, windowVars
<1> SUFFICES ASSUME s \notin busy' \cup failed' PROVE (Knows(s) /\ OneThread(s) /\ NoneYet(s) /\ NoneLeft(s))'
    BY DEF Tidy
<1>1. s \notin busy \cup failed /\ Works
    BY DEF ThreadStep, Register, Sweep, OpenWindow, Poll, Works, Fault
<1>2. Knows(s) /\ OneThread(s) /\ NoneYet(s) /\ NoneLeft(s)
    BY <1>1 DEF Tidy
<1>3. step[s][t] # "idle"
    BY DEF ThreadStep, Register, Sweep, OpenWindow, Poll
<1>4. \A u \in Threads : u # t => step[s][u] = "idle"
    BY <1>2, <1>3 DEF OneThread, OneCall
<1>5. \E n \in Steps : Goto(s, t, n)
    BY DEF ThreadStep, Register, Sweep, OpenWindow, Poll, Steps
<1>6. \A u \in Threads : u # t => step'[s][u] = "idle"
    BY <1>4, <1>5 DEF Goto
<1>7. stop' = stop /\ \/ life[s] = "starting" /\ t = "start"
                      \/ life[s] = "serving" /\ t \in Calls
    <2>1. stop' = stop
        BY DEF ThreadStep, Register, Sweep, OpenWindow, Poll
    <2>. QED  BY <1>2, <1>3, <2>1 DEF OneThread
<1>8. CASE Register(s, t)
    <2>1. /\ UNCHANGED <<life, windowId, opener>>
          /\ step'[s][t] = IF t = "start" THEN "sweep" ELSE "idle"
        BY <1>8 DEF Register, Goto
    <2>. QED
        BY <1>2, <1>6, <1>7, <1>8, <2>1 DEF Register, Knows, OneThread, NoneYet, NoneLeft, HasNone, Running, Threads
<1>9. CASE Sweep(s, t)
    <2>1. UNCHANGED <<life, windowId>> /\ step'[s][t] = "open" /\ HasNone(s)
        BY <1>2, <1>9 DEF Sweep, Goto, NoneYet
    <2>2. HasNone(s)'
        BY <1>9, <2>1, SessionWindowsAssumption DEF Sweep, CloseTitled, HasNone
    <2>. QED
        BY <1>6, <1>7, <2>1, <2>2 DEF Knows, OneThread, NoneYet, NoneLeft, HasNone, Running, Threads
<1>10. CASE OpenWindow(s, t)
    <2>1. HasNone(s)
        BY <1>2, <1>10 DEF OpenWindow, NoneYet
    <2>2. step'[s][t] = "poll" /\ life' = life
        BY <1>10 DEF OpenWindow, Goto, Fault
    <2>3. \A w \in Windows : opener'[w] = s => w = windowId'[s]
        BY <1>10, <2>1 DEF OpenWindow, HasNone, Fault
    <2>. QED
        BY <1>6, <1>7, <2>2, <2>3 DEF Knows, OneThread, NoneYet, NoneLeft, HasNone, Running, Threads
<1>11. CASE Poll(s, t)
    <2>1. /\ UNCHANGED <<windowId, opener>> /\ step'[s][t] \in {"idle", "register"}
          /\ t = "start" => step'[s][t] = "idle"
          /\ life'[s] = IF life[s] = "starting" THEN "serving" ELSE life[s]
        BY <1>7, <1>11, SessionWindowsAssumption DEF Poll, Goto
    <2>. QED
        BY <1>2, <1>6, <1>7, <2>1, SessionWindowsAssumption DEF Knows, OneThread, NoneYet, NoneLeft, HasNone, Running, Threads
<1>. QED  BY <1>8, <1>9, <1>10, <1>11 DEF ThreadStep

LEMMA CallTidy ==
    ASSUME WindowsInv, OneCall, NEW s \in Servers, NEW c \in Calls, CallStep(s, c)
    PROVE  Tidy(s)'
<1> USE DEF WindowsInv, WindowTypes, windowVars
<1> SUFFICES ASSUME s \notin busy' \cup failed' PROVE (Knows(s) /\ OneThread(s) /\ NoneYet(s) /\ NoneLeft(s))'
    BY DEF Tidy
<1>1. s \notin busy \cup failed /\ Works
    BY DEF CallStep, Gate, Check, Works, Fault
<1>2. Knows(s) /\ OneThread(s) /\ NoneYet(s) /\ NoneLeft(s)
    BY <1>1 DEF Tidy
<1>3. c \in Threads /\ c # "start" /\ \E n \in Steps : Goto(s, c, n)
    BY SessionWindowsAssumption DEF CallStep, Gate, Check, Steps, Threads
<1>4. UNCHANGED <<life, stop, opener>> /\ Running(s)
    BY DEF CallStep, Gate, Check, Running
<1>5. CASE Gate(s, c)
    <2>1. life[s] = "serving" /\ step'[s][c] \in {"check", "idle"} /\ UNCHANGED windowId
        BY <1>3, <1>5 DEF Gate, Goto
    <2>2. \A u \in Threads : u # c => step'[s][u] = step[s][u]
        BY <1>3 DEF Goto
    <2>. QED
        BY <1>2, <1>3, <1>4, <2>1, <2>2 DEF Knows, OneThread, NoneYet, NoneLeft, HasNone, Running, Threads
<1>6. CASE Check(s, c)
    <2>1. step[s][c] = "check" /\ life[s] = "serving"
        BY <1>2, <1>3, <1>6 DEF Check, OneThread
    <2>2. \A u \in Threads : u # c => step'[s][u] = step[s][u]
        BY <1>3 DEF Goto
    <2>3. CASE step'[s][c] = "poll" /\ UNCHANGED windowId
        BY <1>2, <1>3, <1>4, <2>1, <2>2, <2>3 DEF Knows, OneThread, NoneYet, NoneLeft, HasNone, Running, Threads
    <2>4. CASE ~Exists(s) /\ step'[s][c] = "sweep"
        <3>1. HasNone(s)
            BY <1>2, <1>4, <2>4, SessionWindowsAssumption DEF Exists, Open, Knows, HasNone
        <3>. QED
            BY <1>2, <1>3, <1>4, <2>1, <2>2, <2>4, <3>1 DEF Knows, OneThread, NoneYet, NoneLeft, HasNone, Running, Threads
    <2>5. \/ step'[s][c] = "poll" /\ UNCHANGED windowId
          \/ ~Exists(s) /\ step'[s][c] = "sweep"
        BY <1>3, <1>6 DEF Check, Goto, Fault
    <2>. QED  BY <2>3, <2>4, <2>5
<1>. QED  BY <1>5, <1>6 DEF CallStep

LEMMA EndedTidy ==
    ASSUME WindowsInv, NEW s \in Servers, Exit(s) \/ ThreeSeconds(s) \/ Killed(s)
    PROVE  Tidy(s)'
<1> USE DEF WindowsInv, WindowTypes, windowVars
<1> SUFFICES ASSUME s \notin busy' \cup failed' PROVE (Knows(s) /\ OneThread(s) /\ NoneYet(s) /\ NoneLeft(s))'
    BY DEF Tidy
<1>1. /\ life'[s] \in {"clean", "cut", "dead"} /\ opener' = opener
      /\ \A t \in Threads : step'[s][t] = "idle"
    BY DEF Exit, ThreeSeconds, Killed, Ended
<1>2. life'[s] = "clean" => HasNone(s)
    <2>1. HAVE life'[s] = "clean"
    <2>2. Exit(s)
        BY <2>1 DEF ThreeSeconds, Killed, Ended
    <2>3. s \notin busy \cup failed
        BY <2>2 DEF Exit, Ended, Works
    <2>. QED  BY <2>2, <2>3 DEF Exit, Tidy, NoneLeft
<1>. QED
    BY <1>1, <1>2 DEF Knows, OneThread, NoneYet, NoneLeft, HasNone, Running, Threads

LEMMA StopTidy ==
    ASSUME WindowsInv, NEW s \in Servers,
           Stop(s) \/ CountTitled(s) \/ CloseOwn(s) \/ SweepRemaining(s)
    PROVE  Tidy(s)'
<1> USE DEF WindowsInv, WindowTypes, windowVars
<1> SUFFICES ASSUME s \notin busy' \cup failed' PROVE (Knows(s) /\ OneThread(s) /\ NoneYet(s) /\ NoneLeft(s))'
    BY DEF Tidy
<1>1. s \notin busy \cup failed
    BY DEF Stop, CountTitled, CloseOwn, SweepRemaining, Works, Fault
<1>2. Knows(s) /\ OneThread(s) /\ NoneYet(s) /\ NoneLeft(s)
    BY <1>1 DEF Tidy
<1>3. step' = step /\ life'[s] = "stopping" /\ \A t \in Threads : step[s][t] = "idle"
    BY <1>2 DEF Stop, CountTitled, CloseOwn, SweepRemaining, OneThread
<1>4. CASE Stop(s) \/ CountTitled(s)
    <2>1. UNCHANGED <<opener, windowId>> /\ stop'[s] \in {"count", "close"} /\ Running(s)
        BY <1>4 DEF Stop, CountTitled, Running
    <2>. QED
        BY <1>2, <1>3, <2>1 DEF Knows, OneThread, NoneYet, NoneLeft, HasNone, Running, Threads
<1>5. CASE CloseOwn(s)
    <2>1. HasNone(s)'
        <3>1. \A w \in Windows : opener[w] = s => w = windowId[s]
            BY <1>2, <1>5 DEF CloseOwn, Knows, Running
        <3>. QED  BY <1>5, <3>1, SessionWindowsAssumption DEF CloseOwn, Closes, HasNone, Fault
    <2>. QED
        BY <1>3, <2>1 DEF Knows, OneThread, NoneYet, NoneLeft, HasNone, Running, Threads
<1>6. CASE SweepRemaining(s)
    <2>1. HasNone(s)'
        <3>1. HasNone(s)
            BY <1>2, <1>6 DEF SweepRemaining, NoneLeft
        <3>. QED  BY <1>6, <3>1, SessionWindowsAssumption DEF SweepRemaining, CloseTitled, HasNone
    <2>. QED
        BY <1>3, <2>1 DEF Knows, OneThread, NoneYet, NoneLeft, HasNone, Running, Threads
<1>. QED  BY <1>4, <1>5, <1>6

\* What others do to a server's windows is to close them.
LEMMA OthersTidy ==
    ASSUME WindowsInv, NEW s \in Servers, NEW x \in Servers \ {s},
           \/ Launch(s) \/ Killed(s) \/ StopStep(s)
           \/ \E t \in Threads : ThreadStep(s, t)
           \/ \E c \in Calls : CallStep(s, c)
    PROVE  Tidy(x)'
<1> USE DEF WindowsInv, WindowTypes, windowVars
<1>1. CASE Launch(s)
    BY <1>1, BystanderTidy DEF Launch, Goto
<1>2. CASE Killed(s) \/ Exit(s) \/ ThreeSeconds(s)
    <2>1. UNCHANGED <<opener, busy>> /\ failed \subseteq failed'
        BY <1>2 DEF Killed, Exit, ThreeSeconds, Ended, Accident, Works
    <2>2. life'[x] = life[x] /\ step'[x] = step[x] /\ stop'[x] = stop[x] /\ windowId'[x] = windowId[x]
        BY <1>2 DEF Killed, Exit, ThreeSeconds, Ended
    <2>. QED  BY <2>1, <2>2, BystanderTidy
<1>3. ASSUME NEW t \in Threads, ThreadStep(s, t) PROVE Tidy(x)'
    <2>1. step'[x] = step[x] /\ stop' = stop /\ busy' = busy /\ failed \subseteq failed'
        BY <1>3 DEF ThreadStep, Register, Sweep, OpenWindow, Poll, Goto, Fault, Works
    <2>2. life'[x] = life[x] /\ windowId'[x] = windowId[x]
        BY <1>3 DEF ThreadStep, Register, Sweep, OpenWindow, Poll
    <2>3. \A w \in Windows : opener'[w] = x => opener[w] = x
        <3>1. CASE Sweep(s, t)
            BY <3>1, SessionWindowsAssumption DEF Sweep, CloseTitled
        <3>2. CASE OpenWindow(s, t)
            BY <3>2 DEF OpenWindow
        <3>. QED  BY <1>3, <3>1, <3>2 DEF ThreadStep, Register, Poll
    <2>. QED  BY <2>1, <2>2, <2>3, BystanderTidy
<1>4. ASSUME NEW c \in Calls, CallStep(s, c) PROVE Tidy(x)'
    <2>1. UNCHANGED <<life, stop, opener, busy>> /\ step'[x] = step[x] /\ windowId'[x] = windowId[x]
        BY <1>4 DEF CallStep, Gate, Check, Goto
    <2>2. failed \subseteq failed'
        BY <1>4 DEF CallStep, Gate, Check, Fault, Works
    <2>. QED  BY <2>1, <2>2, BystanderTidy
<1>5. CASE Stop(s) \/ CountTitled(s) \/ CloseOwn(s) \/ SweepRemaining(s)
    <2>1. step' = step /\ busy \subseteq busy' /\ failed \subseteq failed'
        BY <1>5 DEF Stop, CountTitled, CloseOwn, SweepRemaining, Fault, Works
    <2>2. life'[x] = life[x] /\ stop'[x] = stop[x] /\ windowId'[x] = windowId[x]
        BY <1>5 DEF Stop, CountTitled, CloseOwn, SweepRemaining
    <2>3. \A w \in Windows : opener'[w] = x => opener[w] = x
        BY <1>5, SessionWindowsAssumption DEF Stop, CountTitled, CloseOwn, Closes, SweepRemaining, CloseTitled
    <2>. QED  BY <2>1, <2>2, <2>3, BystanderTidy
<1>. QED  BY <1>1, <1>2, <1>3, <1>4, <1>5 DEF StopStep

LEMMA WindowsStep == ASSUME OneCall, WindowsInv, [Next]_vars PROVE WindowsInv'
<1>1. WindowTypes'
    BY WindowTypesStep DEF WindowsInv
<1>2. ASSUME NEW s \in Servers,
             \/ Launch(s) \/ Killed(s) \/ StopStep(s)
             \/ \E t \in Threads : ThreadStep(s, t)
             \/ \E c \in Calls : CallStep(s, c),
             NEW x \in Servers
      PROVE  Tidy(x)'
    <2>1. CASE x = s
        BY <1>2, <2>1, LaunchTidy, ThreadTidy, CallTidy, EndedTidy, StopTidy DEF StopStep
    <2>2. CASE x # s
        BY <1>2, <2>2, OthersTidy
    <2>. QED  BY <2>1, <2>2
<1>3. ASSUME NEW x \in Servers,
             \/ \E s \in Servers : SixtySeconds(s)
             \/ \E w \in Windows : PageLoads(w) \/ UserCloses(w)
             \/ DaemonRestarts \/ UNCHANGED vars
      PROVE  Tidy(x)'
    <2>1. UNCHANGED <<life, step, stop, windowId, busy, failed>>
        BY <1>3 DEF SixtySeconds, PageLoads, UserCloses, DaemonRestarts, Accident, vars
    <2>2. \A w \in Windows : opener'[w] = x => opener[w] = x
        BY <1>3, SessionWindowsAssumption
        DEF SixtySeconds, PageLoads, UserCloses, DaemonRestarts, windowVars, vars, WindowsInv, WindowTypes
    <2>3. Tidy(x)
        BY DEF WindowsInv
    <2>. QED  BY <2>1, <2>2, <2>3, BystanderTidy
<1>4. ASSUME NEW x \in Servers PROVE Tidy(x)'
    BY <1>2, <1>3 DEF Next
<1>. QED  BY <1>1, <1>4 DEF WindowsInv

\* A server whose calls come one at a time leaves no dashboard window behind if
\* it exits by itself, was told to stop between two calls and none of its
\* scripts failed, whatever users, other servers and the daemon did
\* (index.ts:26-51, server.ts:1836-1873).
THEOREM CleanExitCorrect == ASSUME OneCall PROVE Spec => []CleanExitLeavesNothing
<1>1. WindowsInv => CleanExitLeavesNothing
    BY DEF WindowsInv, Tidy, Knows, HasNone, CleanExitLeavesNothing
<1>. QED  BY <1>1, WindowsInit, WindowsStep, PTL DEF Spec
=============================================================================
