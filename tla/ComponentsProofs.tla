----------------------------- MODULE ComponentsProofs ------------------------------
(***************************************************************************)
(* In Components a behaviour is one part's.  So what the modules of proofs *)
(* show of a part holds of the run.                                        *)
(***************************************************************************)
EXTENDS Components, ToolPartsProofs, PagePartsProofs, TLAPS
-----------------------------------------------------------------------------
\* Uploads.
UploadsInv == focus = "upload" => UploadInv

LEMMA UploadsInit == Init => UploadsInv
BY ComponentsAssumption, UploadInit DEF Init, UploadsInv

LEMMA UploadsStep == UploadsInv /\ [Next]_vars => UploadsInv'
<1> SUFFICES ASSUME UploadsInv, [Next]_vars, focus' = "upload" PROVE UploadInv'
  BY DEF UploadsInv
<1>1. focus = "upload" /\ [Upload!Next]_(Upload!vars)
  <2>1. CASE Next
    BY <2>1 DEF Next
  <2>2. CASE UNCHANGED vars
    BY <2>2 DEF vars, uploadVars, Upload!vars, Upload!daemon, Upload!page
  <2> QED BY <2>1, <2>2
<1> QED BY <1>1, ComponentsAssumption, UploadStep DEF UploadsInv

\* A field holds all the files of one call in their order, and a call that
\* reports success has set its files, whatever expired, broke, gave up or was
\* replaced on the way (content-isolated.js:363-390, file-upload.ts:214-228).
THEOREM UploadsCorrect == Spec => []UploadTruthful
<1>1. UploadsInv => UploadTruthful
  BY DEF UploadsInv, UploadTruthful, UploadInv, Upload!UploadTruthful
<1> QED BY UploadsInit, UploadsStep, <1>1, PTL DEF Spec

-----------------------------------------------------------------------------
\* Downloads.
DownloadsInv == focus = "downloads" => Download!WatchInv

LEMMA DownloadsInit == Init => DownloadsInv
BY ComponentsAssumption, WatchInit DEF Init, DownloadsInv

LEMMA DownloadsStep == DownloadsInv /\ [Next]_vars => DownloadsInv'
<1> SUFFICES ASSUME DownloadsInv, [Next]_vars, focus' = "downloads" PROVE Download!WatchInv'
  BY DEF DownloadsInv
<1>1. focus = "downloads" /\ [Download!Next]_(Download!vars)
  <2>1. CASE Next
    BY <2>1 DEF Next
  <2>2. CASE UNCHANGED vars
    BY <2>2 DEF vars, downloadsVars, Download!vars, Download!dir, Download!asked, Download!handler, Download!watcher
  <2> QED BY <2>1, <2>2
<1> QED BY <1>1, ComponentsAssumption, WatchStep DEF DownloadsInv

\* The watcher answers with a file that the call asked for and that was not there
\* when it began (DownloadWatcher.swift:352-432).
THEOREM DownloadsCorrect == Spec => []WatchFindsNew
<1>1. DownloadsInv => WatchFindsNew
  BY DEF DownloadsInv, WatchFindsNew, Download!WatchInv, Download!WatchFindsNew
<1> QED BY DownloadsInit, DownloadsStep, <1>1, PTL DEF Spec

-----------------------------------------------------------------------------
\* Frames.
FramesInv == focus = "frames" => BusInv

LEMMA FramesInit == Init => FramesInv
BY ComponentsAssumption, BusInit DEF Init, FramesInv

LEMMA FramesStep == FramesInv /\ [Next]_vars => FramesInv'
<1> SUFFICES ASSUME FramesInv, [Next]_vars, focus' = "frames" PROVE BusInv'
  BY DEF FramesInv
<1>1. focus = "frames" /\ [Bus!Next]_(Bus!vars)
  <2>1. CASE Next
    BY <2>1 DEF Next
  <2>2. CASE UNCHANGED vars
    BY <2>2 DEF vars, framesVars, Bus!vars, Bus!background, Bus!page, Bus!document, Bus!budget
  <2> QED BY <2>1, <2>2
<1> QED BY <1>1, ComponentsAssumption, BusStep DEF FramesInv

\* In whatever order a script learns of its tab, of its frame and of a command,
\* the command is taken or refused, or something is still to come that will
\* bring it, unless a call of its own failed (content-isolated.js:61-100,
\* 611-666).
THEOREM FramesCorrect == Spec => []NothingForgotten
<1>1. FramesInv => NothingForgotten
  BY DEF FramesInv, NothingForgotten, BusInv, Bus!NothingForgotten
<1> QED BY FramesInit, FramesStep, <1>1, PTL DEF Spec

-----------------------------------------------------------------------------
\* Waits.
WaitsInv == focus = "interaction" => Waits!WaitInv

LEMMA WaitsInit == Init => WaitsInv
BY ComponentsAssumption, InteractionInit DEF Init, WaitsInv

LEMMA WaitsStep == WaitsInv /\ [Next]_vars => WaitsInv'
<1> SUFFICES ASSUME WaitsInv, [Next]_vars, focus' = "interaction" PROVE Waits!WaitInv'
  BY DEF WaitsInv
<1>1. focus = "interaction" /\ [Waits!Next]_(Waits!vars)
  <2>1. CASE Next
    BY <2>1 DEF Next
  <2>2. CASE UNCHANGED vars
    BY <2>2 DEF vars, interactionVars, Waits!vars, Waits!pageVars, Waits!callVars, Waits!waitVars
  <2> QED BY <2>1, <2>2
<1> QED BY <1>1, ComponentsAssumption, InteractionStep DEF WaitsInv

\* A wait that says ready found every check of its action to hold at one time and
\* its element in one place in three frames since; one that says not ready blames
\* a check that failed, after its timeout (auto-wait.ts:90-118, 292-460).
THEOREM WaitsCorrect == Spec => []WaitTellsTruth
<1>1. WaitsInv => WaitTellsTruth
  BY ReadyTells DEF WaitsInv, WaitTellsTruth
<1> QED BY WaitsInit, WaitsStep, <1>1, PTL DEF Spec

-----------------------------------------------------------------------------
\* Routing.
RoutedInv == focus = "routing" => Routing!RoutingInv

LEMMA RoutedInit == Init => RoutedInv
BY ComponentsAssumption, RoutingInit DEF Init, RoutedInv

LEMMA RoutedStep == RoutedInv /\ [Next]_vars => RoutedInv'
<1> SUFFICES ASSUME RoutedInv, [Next]_vars, focus' = "routing" PROVE Routing!RoutingInv'
  BY DEF RoutedInv
<1>1. focus = "routing" /\ [Routing!Next]_(Routing!vars)
  <2>1. CASE Next
    BY <2>1 DEF Next
  <2>2. CASE UNCHANGED vars
    BY <2>2 DEF vars, routingVars, Routing!vars, Routing!safari, Routing!index, Routing!loading, Routing!sessions
  <2> QED BY <2>1, <2>2
<1> QED BY <1>1, ComponentsAssumption, RoutingStep DEF RoutedInv

\* While the page knows a session's dashboard, the session's commands go to tabs
\* of a window where one of its dashboards is (background.js:66-118, 493-560).
THEOREM RoutedCorrect == Spec => []RoutedWithinSession
<1>1. RoutedInv => RoutedWithinSession
  BY DEF RoutedInv, RoutedWithinSession, Routing!RoutingInv, Routing!RoutedWithinSession
<1> QED BY RoutedInit, RoutedStep, <1>1, PTL DEF Spec

-----------------------------------------------------------------------------
\* Forms.
FormsInv == focus = "forms" => Forms!FormInv

LEMMA FormsInit == Init => FormsInv
BY ComponentsAssumption, FormInit DEF Init, FormsInv

LEMMA FormsStep == FormsInv /\ [Next]_vars => FormsInv'
<1> SUFFICES ASSUME FormsInv, [Next]_vars, focus' = "forms" PROVE Forms!FormInv'
  BY DEF FormsInv
<1>1. focus = "forms" /\ [Forms!Next]_(Forms!vars)
  <2>1. CASE Next
    BY <2>1 DEF Next
  <2>2. CASE UNCHANGED vars
    BY <2>2 DEF vars, formsVars, Forms!vars
  <2> QED BY <2>1, <2>2
<1> QED BY <1>1, ComponentsAssumption, FormStep DEF FormsInv

\* The value that an action reported stays in its control until the page, the user
\* or another action changes it (content-main.js:848-873, interaction.ts:731-843).
THEOREM FormsCorrect == Spec => []ReportSticks
<1>1. FormsInv => ReportSticks
  BY DEF FormsInv, ReportSticks, Forms!FormInv, Forms!ReportSticks
<1> QED BY FormsInit, FormsStep, <1>1, PTL DEF Spec

-----------------------------------------------------------------------------
\* PDF export.
PdfsInv == focus = "pdf" => Prints!PdfInv

LEMMA PdfsInit == Init => PdfsInv
BY ComponentsAssumption, PdfInit DEF Init, PdfsInv

LEMMA PdfsStep == PdfsInv /\ [Next]_vars => PdfsInv'
<1> SUFFICES ASSUME PdfsInv, [Next]_vars, focus' = "pdf" PROVE Prints!PdfInv'
  BY DEF PdfsInv
<1>1. focus = "pdf" /\ [Prints!Next]_(Prints!vars)
  <2>1. CASE Next
    BY <2>1 DEF Next
  <2>2. CASE UNCHANGED vars
    BY <2>2 DEF vars, pdfVars, Prints!vars, Prints!tool
  <2> QED BY <2>1, <2>2
<1> QED BY <1>1, ComponentsAssumption, PdfStep DEF PdfsInv

\* A call that reports a PDF has just that file at its path; over TCP, if it did
\* not give up on a rendering (pdf.ts:495-552, PdfGenerator.swift:291-354).
THEOREM PdfsCorrect == Spec => []AnswerDescribesFile
<1>1. PdfsInv => AnswerDescribesFile
  BY ComponentsAssumption, PdfTold DEF PdfsInv, AnswerDescribesFile
<1> QED BY PdfsInit, PdfsStep, <1>1, PTL DEF Spec

-----------------------------------------------------------------------------
\* Gates.
GuardsInv == focus = "gates" => Guard!GatesInv

LEMMA GuardsInit == Init => GuardsInv
BY ComponentsAssumption, GatesInit DEF Init, GuardsInv

LEMMA GuardsStep == GuardsInv /\ [Next]_vars => GuardsInv'
<1> SUFFICES ASSUME GuardsInv, [Next]_vars, focus' = "gates" PROVE Guard!GatesInv'
  BY DEF GuardsInv
<1>1. focus = "gates" /\ [Guard!Next]_(Guard!vars)
  <2>1. CASE Next
    BY <2>1 DEF Next
  <2>2. CASE UNCHANGED vars
    BY <2>2 DEF vars, gatesVars, Guard!vars
  <2> QED BY <2>1, <2>2
<1> QED BY <1>1, ComponentsAssumption, GatesStep DEF GuardsInv

\* No domain gets more actions in a window than the limit, and no run of equal
\* calls or results comes to the threshold, whatever is tried in between and
\* however often (rate-limiter.ts:59-104, loop-detector.ts:44-92).
THEOREM GuardsCorrect == Spec => []GuardsHold
<1>1. GuardsInv => GuardsHold
  BY ComponentsAssumption, GuardsFollow DEF GuardsInv, GuardsHold
<1> QED BY GuardsInit, GuardsStep, <1>1, PTL DEF Spec

-----------------------------------------------------------------------------
\* Network tools.
TrafficInv == focus = "network" => Traffic!NetInv

LEMMA TrafficInit == Init => TrafficInv
BY ComponentsAssumption, NetInit DEF Init, TrafficInv

LEMMA TrafficStep == TrafficInv /\ [Next]_vars => TrafficInv'
<1> SUFFICES ASSUME TrafficInv, [Next]_vars, focus' = "network" PROVE Traffic!NetInv'
  BY DEF TrafficInv
<1>1. focus = "network" /\ [Traffic!Next]_(Traffic!vars)
  <2>1. CASE Next
    BY <2>1 DEF Next
  <2>2. CASE UNCHANGED vars
    BY <2>2 DEF vars, networkVars, Traffic!vars, Traffic!toolVars, Traffic!waitVars
  <2> QED BY <2>1, <2>2
<1> QED BY <1>1, ComponentsAssumption, NetStep DEF TrafficInv

\* However the tools were stacked, saved and restored, no request is recorded twice,
\* and when networkidle is met none is under way that has passed its counter
\* (network.ts:427-768, wait.ts:43-70).
THEOREM TrafficCorrect == Spec => []TrafficAccounted
<1>1. TrafficInv => TrafficAccounted
  BY ComponentsAssumption, TrafficTold DEF TrafficInv, TrafficAccounted
<1> QED BY TrafficInit, TrafficStep, <1>1, PTL DEF Spec

-----------------------------------------------------------------------------
\* Matching of URLs.
MatchedInv == focus = "matching" => Matcher!MatchInv

LEMMA MatchedInit == Init => MatchedInv
BY ComponentsAssumption, MatchInit DEF Init, MatchedInv

LEMMA MatchedStep == MatchedInv /\ [Next]_vars => MatchedInv'
<1> SUFFICES ASSUME MatchedInv, [Next]_vars, focus' = "matching" PROVE Matcher!MatchInv'
  BY DEF MatchedInv
<1>1. focus = "matching" /\ [Matcher!Next]_(Matcher!vars)
  <2>1. CASE Next
    BY <2>1 DEF Next
  <2>2. CASE UNCHANGED vars
    BY <2>2 DEF vars, matchingVars, Matcher!vars
  <2> QED BY <2>1, <2>2
<1> QED BY <1>1, ComponentsAssumption, MatchStep DEF MatchedInv

\* Asked again after any change of the order of the tabs, the matcher finds the URL
\* it found before (lib/tab-url-matcher.js:20-30, 105-145).
THEOREM MatchedCorrect == Spec => MatchIgnoresOrder
<1>1. MatchedInv /\ [Next]_vars => [focus = "matching" => Matcher!FoundAgain]_vars
  <2> SUFFICES ASSUME MatchedInv, [Next]_vars, focus = "matching" PROVE Matcher!FoundAgain
    OBVIOUS
  <2>1. focus' = focus
    BY DEF Next, vars
  <2>2. [Matcher!Next]_(Matcher!vars)
    <3>1. CASE Next
      BY <3>1 DEF Next
    <3>2. CASE UNCHANGED vars
      BY <3>2 DEF vars, matchingVars, Matcher!vars
    <3> QED BY <3>1, <3>2
  <2> QED BY <2>2, MatchStep DEF MatchedInv
<1> QED BY MatchedInit, MatchedStep, <1>1, PTL DEF Spec, MatchIgnoresOrder

-----------------------------------------------------------------------------
\* Locators.
NamedInv == focus = "locators" => Finder!RefInv

LEMMA NamedInit == Init => NamedInv
BY ComponentsAssumption, RefInit DEF Init, NamedInv

LEMMA NamedStep == NamedInv /\ [Next]_vars => NamedInv'
<1> SUFFICES ASSUME NamedInv, [Next]_vars, focus' = "locators" PROVE Finder!RefInv'
  BY DEF NamedInv
<1>1. focus = "locators" /\ [Finder!Next]_(Finder!vars)
  <2>1. CASE Next
    BY <2>1 DEF Next
  <2>2. CASE UNCHANGED vars
    BY <2>2 DEF vars, locatorsVars, Finder!vars
  <2> QED BY <2>1, <2>2
<1> QED BY <1>1, ComponentsAssumption, RefStep DEF NamedInv

\* An action hits the element that its ref was handed out for, and one that a
\* locator resolved hits the only match unless the locator says which of them
\* (locator.js:1153-1225, aria.ts:430-475).
THEOREM NamedCorrect == Spec => []HitsTheNamedOne
<1>1. NamedInv => HitsTheNamedOne
  BY DEF NamedInv, HitsTheNamedOne, Finder!RefInv, Finder!HitsTheNamedOne
<1> QED BY NamedInit, NamedStep, <1>1, PTL DEF Spec

-----------------------------------------------------------------------------
\* Selector packs, from SelectorPacksProofs.
PackedInv == focus = "packs" => Packs!PacksInv

LEMMA PackedInit == Init => PackedInv
BY ComponentsAssumption, Packs!PacksInit DEF Init, PackedInv

LEMMA PackedStep == PackedInv /\ [Next]_vars => PackedInv'
<1> SUFFICES ASSUME PackedInv, [Next]_vars, focus' = "packs" PROVE Packs!PacksInv'
  BY DEF PackedInv
<1>1. focus = "packs" /\ [Packs!Next]_(Packs!vars)
  <2>1. CASE Next
    BY <2>1 DEF Next
  <2>2. CASE UNCHANGED vars
    BY <2>2 DEF vars, packsVars, Packs!vars, Packs!page
  <2> QED BY <2>1, <2>2
<1> QED BY <1>1, ComponentsAssumption, Packs!PacksStep DEF PackedInv

\* A page at rest has the packs that the agent was told of, whatever the listener
\* did while a tool was at work (background.js:188-239, 926-1005).
THEOREM PackedCorrect == Spec => []PacksFollowTab
<1>1. PackedInv => PacksFollowTab
  BY ComponentsAssumption, Packs!PacksTold DEF PackedInv, PacksFollowTab
<1> QED BY PackedInit, PackedStep, <1>1, PTL DEF Spec

-----------------------------------------------------------------------------
\* Batches and skills.
BatchesInv == focus = "tools" => BoxInv

LEMMA BatchesInit == Init => BatchesInv
BY ComponentsAssumption, BoxInit DEF Init, BatchesInv

LEMMA BatchesStep == BatchesInv /\ [Next]_vars => BatchesInv'
<1> SUFFICES ASSUME BatchesInv, [Next]_vars, focus' = "tools" PROVE BoxInv'
  BY DEF BatchesInv
<1>1. focus = "tools" /\ [Box!Next]_(Box!vars)
  <2>1. CASE Next
    BY <2>1 DEF Next
  <2>2. CASE UNCHANGED vars
    BY <2>2 DEF vars, toolsVars, Box!vars
  <2> QED BY <2>1, <2>2
<1> QED BY <1>1, ComponentsAssumption, BoxStep DEF BatchesInv

\* The results of a batch are those of its actions in order, up to a failure that
\* it was to stop at; a skill that answers has run every step, all of them steps of
\* navigation, and none failed (batch.ts:139-168, runner.ts:51-75, server.ts:552-565).
THEOREM BatchesCorrect == Spec => []ReportsMatchRuns
<1>1. BatchesInv => ReportsMatchRuns
  BY ComponentsAssumption, RightlyTold DEF BatchesInv, ReportsMatchRuns
<1> QED BY BatchesInit, BatchesStep, <1>1, PTL DEF Spec
=============================================================================
