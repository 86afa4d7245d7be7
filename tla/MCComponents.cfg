\* Small instances of each component.
SPECIFICATION Spec
CONSTANTS
    None = None
    Faults = 1
    k1 = k1 k2 = k2
    Uploads = {k1, k2}
    MaxFiles = 2
    MaxRestarts = 1
    j1 = j1 j2 = j2 blog = blog shop = shop t1 = t1 t2 = t2
    Tabs = {t1, t2}
    Windows = {k1, k2}
    Sessions = {j1, j2}
    Pages = {blog, shop}
    MaxEvents = 2
    MaxWakes = 1
    Files = {k1, k2}
    Retries = 2
    top = top child = child
    Frames = {top, child}
    Top = top
    Commands = {k1, k2}
    Addresses = {j1, j2}
    MaxMoves = 1
    Canonical = "plain"
    MaxTabs = 3
    Paths <- SomePaths
    Origins = {"o", "r"}
    Variants <- SomeVariants
    Unparsed = {"about"}
    ToolCalls <- SomeCalls
    BuiltIn <- OnePattern
    Blocked <- AnotherPattern
    Trusted <- TwoPatterns
    Matches <- MatchesOf
    Results = {j1, j2}
    GlobalLimit = 2 WindowMs = 1 WallMs = 1 LoopThreshold = 3 ThrashThreshold = 2 MaxClock = 2 MaxSnapshots = 1
    Document <- ShopOrder
    Attr <- ShopAttr
    Locators <- SomeLocators
    MaxRefs = 2 MaxRenders = 1
    Candidates <- TwoElements
    Around = {"form"}
    Above <- FormAbove
    Flaws = {"undisplayed", "covered"}
    Waiters = {k1, k2}
    Actions <- SomeActions
    MaxChanges = 1
    Exports = {k1, k2}
    PdfRequests <- TwoSheets
    MaxPages = 2
    PageRequests = {k1, k2}
    PageUrls <- LongUrl
    Patterns <- LongUrl
    MaxEntries = 2
    MaxUses = 2
    Suite <- BenchmarkSuite
    Configs <- BenchmarkConfigs
    Outputs <- BenchmarkOutputs
    OldRuns <- OneRun
    MaxHistory = 2
    PackTabs = {"t1"}
    Names = {k1, k2}
    Bodies = {"f", "bad"}
    Broken = {"bad"}
    Unknown = "unknown"
    MaxLoads = 1
    MaxCalls = 2
    Texts <- SomeTexts
    Options <- TwoOptions
    MaxCommands = 2
    Composed <- SomeComposed
    MaxItems = 2
    MaxShifts = 1
INVARIANTS
    UploadTruthful
    
    WatchFindsNew
    NothingForgotten
    GuardsHold
    
    WaitTellsTruth
    AnswerDescribesFile
    
    ReportTellsRun
    PacksFollowTab
    ReportSticks
    
    
PROPERTIES
    MatchIgnoresOrder
SYMMETRY Alike
CHECK_DEADLOCK FALSE
