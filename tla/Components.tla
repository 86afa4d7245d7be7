-------------------------------- MODULE Components ---------------------------------
(* Components that do not interact, checked in one run: a behaviour is one  *)
(* of them.                                                                 *)
EXTENDS ToolParts, PageParts

CONSTANTS
    \* Benchmark
    Suite, Configs, Outputs, OldRuns, MaxHistory,
    \* SelectorPacks
    PackTabs, Names, Bodies, Broken, Unknown, MaxLoads, MaxCalls

VARIABLES
    focus,  \* the component that runs; the variables of the others are idle
    \* Benchmark
    config, stage, engines, eligible, skipped, todo, queue, work, results, duels,
    history, traces, inHand, passes,
    \* SelectorPacks
    openTabs, loading, strict, pack, storedPacks, requests, packBus, packCall,
    told, spoilt, loads, calls

benchmarkVars == <<config, stage, engines, eligible, skipped, todo, queue, work,
                   results, duels, history, traces, inHand, passes>>
packsVars == <<openTabs, loading, strict, pack, storedPacks, requests, packBus,
               packCall, told, spoilt, loads, calls>>

vars == <<focus, uploadVars, routingVars, downloadsVars, framesVars, matchingVars,
          gatesVars, locatorsVars, interactionVars, pdfVars, networkVars,
          benchmarkVars, packsVars, formsVars, toolsVars>>

Bench == INSTANCE Benchmark WITH
    left <- inHand

Packs == INSTANCE SelectorPacksProofs WITH
    Tabs <- PackTabs, open <- openTabs, stored <- storedPacks, bus <- packBus,
    call <- packCall

ASSUME ComponentsAssumption ==
    /\ Upload!UploadAssumption
    /\ Routing!RoutingAssumption
    /\ Download!DownloadAssumption
    /\ Bus!FrameBusAssumption
    /\ Matcher!UrlMatchAssumption
    /\ Guard!GatesAssumption
    /\ Finder!LocatorsAssumption
    /\ Waits!InteractionAssumption
    /\ Prints!PdfAssumption
    /\ Traffic!NetworkAssumption
    /\ Bench!BenchmarkAssumption
    /\ Packs!PacksAssumption
    /\ Forms!FormAssumption
    /\ Box!ToolboxAssumption

\* The component that runs starts, and the variables of the others have no value.
Init ==
    /\ focus \in {"upload", "routing", "downloads", "frames", "matching",
                    "gates", "locators", "interaction", "pdf", "network",
                    "benchmark", "packs", "forms", "tools"}
    /\ IF focus = "upload" THEN Upload!Init
       ELSE /\ call = None /\ want = None /\ staged = None /\ store = None
            /\ service = None /\ runs = None /\ content = None /\ fetched = None
            /\ main = None /\ result = None /\ field = None /\ input = None
            /\ faults = None /\ installed = None
    /\ IF focus = "routing" THEN Routing!Init
       ELSE /\ shows = None /\ home = None /\ events = None /\ up = None
            /\ life = None /\ cache = None /\ stored = None /\ load = None
            /\ answer = None /\ windowOf = None /\ dashboard = None /\ sent = None
            /\ happened = None /\ wakes = None
    /\ IF focus = "downloads" THEN Download!Init
       ELSE /\ disk = None /\ listed = None /\ named = None /\ wanted = None
            /\ context = None /\ took = None /\ wait = None /\ found = None
            /\ before = None /\ watch = None /\ snapshot = None /\ created = None
            /\ sources = None /\ vanished = None /\ checks = None /\ reply = None
    /\ IF focus = "frames" THEN Bus!Init
       ELSE /\ me = None /\ target = None /\ step = None /\ expected = None
            /\ bus = None /\ alive = None /\ location = None /\ script = None
            /\ changes = None /\ running = None /\ posted = None /\ moves = None
            /\ upsets = None
    /\ IF focus = "matching" THEN Matcher!Init
       ELSE /\ requested = None /\ tabs = None /\ matched = None
    /\ IF focus = "gates" THEN Guard!Init
       ELSE /\ clock = None /\ windows = None /\ callHistory = None
            /\ snapshotResultHistory = None /\ open = None /\ answered = None
            /\ admitted = None /\ streak = None /\ shown = None
    /\ IF focus = "locators" THEN Finder!Init
       ELSE /\ present = None /\ ref = None /\ resolved = None /\ owner = None
            /\ acted = None /\ left = None /\ returned = None /\ renders = None
    /\ IF focus = "interaction" THEN Waits!Init
       ELSE /\ inPage = None /\ wrong = None /\ place = None /\ rerenders = None
            /\ centered = None /\ request = None /\ phase = None /\ actedOn = None
            /\ awaiting = None /\ element = None /\ lastRect = None
            /\ stableCount = None /\ failedCheck = None /\ late = None
            /\ held = None /\ samples = None
    /\ IF focus = "pdf" THEN Prints!Init
       ELSE /\ transport = None /\ printRequest = None /\ printPhase = None
            /\ attempt = None /\ printed = None /\ gaveUp = None /\ inbox = None
            /\ job = None /\ file = None
    /\ IF focus = "network" THEN Traffic!Init
       ELSE /\ fn = None /\ saved = None /\ interceptor = None /\ entries = None
            /\ mocks = None /\ inflight = None /\ quiet = None /\ req = None
            /\ harFile = None /\ har = None /\ waiting = None /\ idleWith = None
            /\ uses = None
    /\ IF focus = "benchmark" THEN Bench!Init
       ELSE /\ config = None /\ stage = None /\ engines = None /\ eligible = None
            /\ skipped = None /\ todo = None /\ queue = None /\ work = None
            /\ results = None /\ duels = None /\ history = None /\ traces = None
            /\ inHand = None /\ passes = None
    /\ IF focus = "packs" THEN Packs!Init
       ELSE /\ openTabs = None /\ loading = None /\ strict = None /\ pack = None
            /\ storedPacks = None /\ requests = None /\ packBus = None
            /\ packCall = None /\ told = None /\ spoilt = None /\ loads = None
            /\ calls = None
    /\ IF focus = "forms" THEN Forms!Init
       ELSE /\ tag = None /\ framework = None /\ control = None /\ promised = None
            /\ pending = None /\ commands = None
    /\ IF focus = "tools" THEN Box!Init
       ELSE /\ legacy = None /\ strictPage = None /\ extension = None /\ stack = None
            /\ toolAnswer = None /\ shifts = None

Next ==
    /\ UNCHANGED focus
    /\ IF focus = "upload" THEN Upload!Next ELSE UNCHANGED uploadVars
    /\ IF focus = "routing" THEN Routing!Next ELSE UNCHANGED routingVars
    /\ IF focus = "downloads" THEN Download!Next ELSE UNCHANGED downloadsVars
    /\ IF focus = "frames" THEN Bus!Next ELSE UNCHANGED framesVars
    /\ IF focus = "matching" THEN Matcher!Next ELSE UNCHANGED matchingVars
    /\ IF focus = "gates" THEN Guard!Next ELSE UNCHANGED gatesVars
    /\ IF focus = "locators" THEN Finder!Next ELSE UNCHANGED locatorsVars
    /\ IF focus = "interaction" THEN Waits!Next ELSE UNCHANGED interactionVars
    /\ IF focus = "pdf" THEN Prints!Next ELSE UNCHANGED pdfVars
    /\ IF focus = "network" THEN Traffic!Next ELSE UNCHANGED networkVars
    /\ IF focus = "benchmark" THEN Bench!Next ELSE UNCHANGED benchmarkVars
    /\ IF focus = "packs" THEN Packs!Next ELSE UNCHANGED packsVars
    /\ IF focus = "forms" THEN Forms!Next ELSE UNCHANGED formsVars
    /\ IF focus = "tools" THEN Box!Next ELSE UNCHANGED toolsVars

Spec == Init /\ [][Next]_vars

-----------------------------------------------------------------------------
\* FileUpload: a field holds all the files of one call, and a call that
\* reports success has set them.
UploadTruthful == focus = "upload" => Upload!UploadTruthful

\* TabRouting: a session's commands stay in a window that has its dashboard.
RoutedWithinSession == focus = "routing" => Routing!RoutedWithinSession

\* Downloads: the watcher answers with a new file that the call asked for.
WatchFindsNew == focus = "downloads" => Download!WatchFindsNew

\* FrameBus: a command on the bus is not forgotten by the script of its
\* frame.
NothingForgotten == focus = "frames" => Bus!NothingForgotten

\* UrlMatch: which tab a URL means does not depend on the order of the tabs.
MatchIgnoresOrder == [][focus = "matching" => Matcher!FoundAgain]_vars

\* Gates: no window has more actions than the limit, and a loop stays broken.
GuardsHold == focus = "gates" => Guard!GuardsHold

\* Locators: an action hits the node that its ref was handed out for.
HitsTheNamedOne == focus = "locators" => Finder!HitsTheNamedOne

\* Interaction: a wait is ready if and only if its checks held and its
\* element stood still.
WaitTellsTruth == focus = "interaction" => Waits!WaitTellsTruth

\* PdfExport: a call that reports a PDF has just that file at its path.
AnswerDescribesFile == focus = "pdf" => Prints!AnswerDescribesFile

\* NetworkTools: no request is recorded twice, and none that was counted is
\* under way when networkidle is met.
TrafficAccounted == focus = "network" => Traffic!TrafficAccounted

\* Benchmark: two workers are never on one domain, and a report counts each
\* task as what its output was worth.
ReportTellsRun == focus = "benchmark" => Bench!ReportTellsRun

\* SelectorPacks: a page has the packs that were registered for its tab last.
PacksFollowTab == focus = "packs" => Packs!PacksFollowTab

\* FormActions: the value an action reported stays in its control, however
\* often the page renders.
ReportSticks == focus = "forms" => Forms!ReportSticks

\* Toolbox: a tool that answers with success ran where it can work and has a
\* result.
SuccessIsReal == focus = "tools" => Box!SuccessIsReal

\* Toolbox: what a batch or a skill reports is what ran, and it stops where
\* it should.
ReportsMatchRuns == focus = "tools" => Box!ReportsMatchRuns
=============================================================================
