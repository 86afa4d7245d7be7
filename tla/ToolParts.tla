--------------------------------- MODULE ToolParts ---------------------------------
(* What the tools of the server rest on: files that come and go, the tab    *)
(* that a URL means, the gates before a call, what a page exchanges with    *)
(* the network, and calls that call others.                                 *)
EXTENDS Parts, Naturals, Sequences, FiniteSets

CONSTANTS
    \* FileUpload
    Uploads, MaxFiles, MaxRestarts,
    \* Downloads
    Files, Retries,
    \* UrlMatch
    Canonical, MaxTabs, Paths, Origins, Variants, Unparsed,
    \* Gates
    ToolCalls, BuiltIn, Blocked, Trusted, Matches(_), Results,
    GlobalLimit, WindowMs, WallMs, LoopThreshold, ThrashThreshold, MaxClock, MaxSnapshots,
    \* PdfExport
    Exports, PdfRequests, MaxPages,
    \* NetworkTools
    PageRequests, PageUrls, Patterns, MaxEntries, MaxUses,
    \* Toolbox
    Composed, MaxItems, MaxShifts

VARIABLES
    \* FileUpload
    call, want, staged, store, service, runs, content, fetched, main, result,
    field, input, faults, installed,
    \* Downloads
    disk, listed, named, wanted, context, took, wait, found, before, watch,
    snapshot, created, sources, vanished, checks, reply,
    \* UrlMatch
    requested, tabs, matched,
    \* Gates
    clock, windows, callHistory, snapshotResultHistory, open, answered, admitted,
    streak, shown,
    \* PdfExport
    transport, printRequest, printPhase, attempt, printed, gaveUp, inbox, job,
    file,
    \* NetworkTools
    fn, saved, interceptor, entries, mocks, inflight, quiet, req, harFile, har,
    waiting, idleWith, uses,
    \* Toolbox
    legacy, strictPage, extension, stack, toolAnswer, shifts

uploadVars == <<call, want, staged, store, service, runs, content, fetched, main,
                result, field, input, faults, installed>>
downloadsVars == <<disk, listed, named, wanted, context, took, wait, found,
                   before, watch, snapshot, created, sources, vanished, checks,
                   reply>>
matchingVars == <<requested, tabs, matched>>
gatesVars == <<clock, windows, callHistory, snapshotResultHistory, open, answered,
               admitted, streak, shown>>
pdfVars == <<transport, printRequest, printPhase, attempt, printed, gaveUp, inbox,
             job, file>>
networkVars == <<fn, saved, interceptor, entries, mocks, inflight, quiet, req,
                 harFile, har, waiting, idleWith, uses>>
toolsVars == <<legacy, strictPage, extension, stack, toolAnswer, shifts>>

Upload == INSTANCE FileUpload

Download == INSTANCE Downloads

Matcher == INSTANCE UrlMatch

Guard == INSTANCE Gates WITH
    Calls <- ToolCalls

Prints == INSTANCE PdfExport WITH
    Calls <- Exports, Requests <- PdfRequests, request <- printRequest,
    phase <- printPhase, answer <- printed

Traffic == INSTANCE NetworkTools WITH
    Requests <- PageRequests, Urls <- PageUrls, file <- harFile

Box == INSTANCE Toolbox WITH
    answer <- toolAnswer
=============================================================================
