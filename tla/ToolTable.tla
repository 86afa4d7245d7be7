---------------------------- MODULE ToolTable ----------------------------
(***************************************************************************)
(* The tools of the server: what each one requires of an engine, and the   *)
(* steps of its handler, which are the scripts it gives to the engine and  *)
(* what it does with their outcome. A script is abstracted to its kind:    *)
(* "sentinel", "bare" and "label" are names the content script knows, the  *)
(* last two of them also a word and a label of the language; "plain" is a  *)
(* function body with a return, "promise" one that returns a promise,      *)
(* "lost" an expression whose value nothing returns, "await" a body that   *)
(* awaits; "legacy" and "either" are chosen by the configuration and by    *)
(* the engine; "apple" is AppleScript of its own, "raw" a command that     *)
(* goes to no page.                                                        *)
(***************************************************************************)
EXTENDS Naturals, Sequences, SequencesExt, FiniteSetsExt

\* Steps of a handler, by what it does with the outcome.

Step(role, kind) == [role |-> role, kind |-> kind, opt |-> FALSE]
Maybe(s) == [s EXCEPT !.opt = TRUE]   \* only for some parameters

Must(kind) == Step("must", kind)     \* without a value the tool throws
Act(kind) == Step("act", kind)       \* throws on an error, takes an empty result for success
Soft(kind) == Step("soft", kind)     \* the same, but an error is an ordinary answer
Try(kind) == Step("try", kind)       \* goes on in any case
While(kind) == Step("while", kind)   \* the tool ends when there is no more
Until(kind) == Step("until", kind)   \* the tool ends when the page says so
Guard == Step("guard", "none")       \* throws on another engine than the extension
Again == Step("again", "none")       \* once more, until there is no time left
Late == Step("late", "none")         \* the time is over

Each(names, needs, steps) == [t \in names |-> [needs |-> needs, steps |-> steps]]

-----------------------------------------------------------------------------
\* The modules of tools. Navigation and compound tools hold the AppleScript
\* engine itself, all others the proxy.

NavigateSteps == <<Soft("apple"), Try("plain")>>
HistorySteps == <<Try("plain"), Try("plain")>>
NewTabSteps == <<Soft("apple")>>
CloseTabSteps == <<Try("apple")>>

NavigationSteps(tool) ==
    IF tool = "safari_navigate" THEN NavigateSteps
    ELSE IF tool \in {"safari_new_tab", "safari_list_tabs"} THEN NewTabSteps
    ELSE IF tool = "safari_close_tab" THEN CloseTabSteps ELSE HistorySteps

Navigation ==
    [t \in {"safari_navigate", "safari_navigate_back", "safari_navigate_forward", "safari_reload",
            "safari_new_tab", "safari_list_tabs", "safari_close_tab"} |->
        [needs |-> {"applescript"}, steps |-> NavigationSteps(t)]]

\* Find the element, wait until it can be acted upon, act. The wait has no
\* return of its own, and an action goes on without its answer.
Resolve == Maybe(Must("legacy"))
AutoWait == Maybe(Try("lost"))

ElementTools ==
    Each({"safari_click", "safari_fill"}, {"cspPreferred"}, <<Resolve, AutoWait, Act("legacy")>>)
    @@ Each({"safari_double_click", "safari_select_option", "safari_check", "safari_hover"},
            {}, <<Maybe(Must("sentinel")), AutoWait, Act("plain")>>)

InputTools ==
    Each({"safari_type", "safari_scroll"}, {"cspPreferred"}, <<Resolve, Act("legacy")>>)
    @@ Each({"safari_press_key"}, {}, <<Maybe(Must("sentinel")), Act("plain")>>)
    @@ Each({"safari_drag"}, {}, <<AutoWait, Act("plain")>>)
    @@ Each({"safari_handle_dialog"}, {}, <<Act("plain")>>)
    @@ Each({"safari_scroll_to_element"}, {"asyncJs"}, <<Act("sentinel")>>)

\* A getter looks its pack up, seeks its element, and reads it; one whose seek
\* failed reads the whole page.
Pack == Maybe(Must("plain"))
Seek == Maybe(Try("legacy"))
InFrames == {"framesCrossOrigin", "cspBypass"}

SnapshotSteps == <<Act("legacy")>>
TextSteps == <<Pack, Seek, Act("legacy")>>
HtmlSteps == <<Pack, Seek, Act("plain")>>
AttributeSteps == <<Pack, Seek, Act("plain")>>
QuerySteps == <<Pack, Act("legacy")>>
EvaluateSteps == <<Act("promise")>>
ScreenshotSteps == <<Until("bare"), Act("raw")>>

Getters ==
    Each({"safari_snapshot"}, {"cspBypass"}, SnapshotSteps)
    @@ Each({"safari_get_text"}, InFrames, TextSteps)
    @@ Each({"safari_get_html"}, InFrames, HtmlSteps)
    @@ Each({"safari_get_attribute"}, InFrames, AttributeSteps)

PageReaders ==
    Each({"safari_evaluate"}, {"asyncJs"}, EvaluateSteps)
    @@ Each({"safari_take_screenshot"}, {"viewportCapture"}, ScreenshotSteps)
    @@ Each({"safari_get_console_messages"}, {}, <<Act("plain")>>)
    @@ Each({"safari_query_all"}, InFrames, QuerySteps)

\* One mock for each rule of the archive.
RouteSteps == <<Act("plain"), Again>>

TrafficTools ==
    Each({"safari_list_network_requests", "safari_get_network_request",
          "safari_intercept_requests", "safari_network_offline", "safari_mock_request"},
         {}, <<Act("plain")>>)
    @@ Each({"safari_network_throttle", "safari_websocket_listen"}, {"networkIntercept"}, <<Act("plain")>>)

RecordTools ==
    Each({"safari_websocket_filter", "safari_dump_har"}, {}, <<Act("plain")>>)
    @@ Each({"safari_route_from_har"}, {}, RouteSteps)

CookieSteps == <<Act("either")>>
StateSteps == <<Act("plain")>>
IdbSteps == <<Act("promise")>>

CookieTools ==
    Each({"safari_get_cookies", "safari_set_cookie", "safari_delete_cookie"}, {}, CookieSteps)
    @@ Each({"safari_storage_state_export", "safari_storage_state_import", "safari_local_storage_get",
             "safari_local_storage_set", "safari_session_storage_get"}, {}, StateSteps)

StorageTools ==
    Each({"safari_session_storage_set"}, {}, StateSteps)
    @@ Each({"safari_idb_list", "safari_idb_get"}, {"asyncJs"}, IdbSteps)

Auth == Each({"safari_authenticate", "safari_clear_authentication"}, {}, <<Guard, Act("sentinel")>>)

FileUploads == Each({"safari_file_upload"}, {}, <<Guard, Act("sentinel"), Act("sentinel")>>)

Shadow == Each({"safari_query_shadow", "safari_click_shadow"},
               {"shadowDom", "framesCrossOrigin"}, <<Act("plain")>>)

FramesTools ==
    Each({"safari_list_frames"}, {}, <<Act("either")>>)
    @@ Each({"safari_eval_in_frame"}, {"framesCrossOrigin"}, <<Act("plain")>>)

OverrideSteps == <<Act("plain")>>

Permissions ==
    Each({"safari_permission_get"}, {}, <<Act("await")>>)
    @@ Each({"safari_permission_set"}, {}, <<>>)
    @@ Each({"safari_override_geolocation", "safari_override_timezone",
             "safari_override_locale", "safari_override_useragent"}, {}, OverrideSteps)

Clipboard == Each({"safari_clipboard_read", "safari_clipboard_write"}, {}, <<Soft("lost")>>)
ServiceWorkers == Each({"safari_sw_list", "safari_sw_unregister"}, {}, <<Soft("lost")>>)
Performance == Each({"safari_begin_trace", "safari_end_trace", "safari_get_page_metrics"}, {}, <<Soft("lost")>>)

TableSteps == <<Act("legacy")>>
LinkSteps == <<Act("legacy")>>

Structured ==
    Each({"safari_smart_scrape", "safari_extract_tables"}, {"cspBypass"}, TableSteps)
    @@ Each({"safari_extract_links", "safari_extract_images", "safari_extract_metadata"},
            {"cspBypass"}, LinkSteps)

WaitSteps == <<Until("plain"), Again, Late>>

Wait == Each({"safari_wait_for"}, {}, WaitSteps)

\* A page that cannot be read counts as empty to the monitor.
FlowSteps == <<Soft("plain"), Again>>
MonitorSteps == <<Try("plain"), Again>>
PaginateSteps == <<Try("plain"), While("plain"), While("plain"), Soft("plain"), Again>>
MediaSteps == <<Soft("plain")>>

Compound ==
    Each({"safari_test_flow"}, {"applescript"}, FlowSteps)
    @@ Each({"safari_monitor_page"}, {"applescript"}, MonitorSteps)
    @@ Each({"safari_paginate_scrape"}, {"applescript"}, PaginateSteps)
    @@ Each({"safari_media_control"}, {"applescript"}, MediaSteps)

\* These talk to the daemon or to other tools, and to no page.
DownloadTools == Each({"safari_wait_for_download"}, {}, <<>>)
PdfTools == Each({"safari_export_pdf"}, {}, <<>>)
Batch == Each({"safari_batch"}, {}, <<>>)
Skills == Each({"safari_run_skill", "safari_list_skills"}, {}, <<>>)
ToolSearch == Each({"safari_tool_search"}, {}, <<>>)

Diagnostics ==
    Each({"safari_extension_health"}, {}, <<Soft("raw")>>)
    @@ Each({"safari_extension_debug_dump"}, {}, <<Act("raw")>>)

PackTools == Each({"safari_register_selector", "safari_unregister_selector"}, {}, <<Act("sentinel")>>)
Overlays == Each({"safari_dismiss_overlays"}, {"asyncJs", "shadowDom"}, <<Act("sentinel")>>)
PageInfo == Each({"safari_get_page_info", "safari_get_meta_tags", "safari_extract_text_window"},
                 {"cspBypass"}, <<Act("sentinel")>>)
FinalProof == Each({"safari_compose_final_evidence"}, {"cspPreferred"}, <<Act("sentinel")>>)

\* The script that asks about the rate limit has an empty object for payload.
RateLimitSteps == <<Until("label"), Again, Late>>

Playbooks ==
    Each({"safari_normalize_date"}, {}, <<>>)
    @@ Each({"safari_dismiss_cookie_consent"}, {"asyncJs", "shadowDom"}, <<Act("sentinel")>>)
    @@ Each({"safari_wait_for_rate_limit_clear"}, {"cspPreferred"}, RateLimitSteps)

\* In the order in which they are asked for a tool; some throw at a name that
\* is not theirs instead of passing it on.
Asked(tools) == [tools |-> tools, refuses |-> TRUE]
Passes(tools) == [tools |-> tools, refuses |-> FALSE]
Modules == <<
    Asked(Navigation), Passes(ElementTools @@ InputTools), Passes(Batch), Passes(Getters @@ PageReaders),
    Passes(TrafficTools @@ RecordTools), Passes(CookieTools @@ StorageTools), Passes(Auth),
    Passes(FileUploads), Passes(Shadow), Passes(FramesTools), Passes(Permissions), Asked(Clipboard),
    Asked(ServiceWorkers), Asked(Performance), Asked(Structured), Asked(Wait), Asked(Compound),
    Passes(DownloadTools), Passes(PdfTools), Passes(Diagnostics), Passes(PackTools), Passes(Overlays),
    Passes(PageInfo), Passes(FinalProof), Passes(Playbooks), Passes(ToolSearch), Passes(Skills)>>

Registered == UNION {DOMAIN Modules[i].tools : i \in DOMAIN Modules}

\* The server registers two tools of its own.
Tools ==
    [t \in Registered |-> (CHOOSE m \in ToSet(Modules) : t \in DOMAIN m.tools).tools[t]]
    @@ Each({"safari_health_check"}, {"applescript"}, <<>>)
    @@ Each({"safari_emergency_stop"}, {}, <<>>)

\* What a step of a skill finds: the first module that has the tool or throws.
Dispatched(tool) ==
    LET found == {i \in DOMAIN Modules : Modules[i].refuses \/ tool \in DOMAIN Modules[i].tools}
    IN  /\ tool \notin DOMAIN Skills
        /\ found # {} /\ tool \in DOMAIN Modules[Min(found)].tools

\* A call: the parts of a batch are calls, those of a skill its steps, and
\* those of a loop the steps it repeats. A skill that is not there has none.
Call(tool, parts, stop) == [tool |-> tool, parts |-> parts, stop |-> stop]

Composite == {"safari_batch", "safari_run_skill"}

Plain == {Call(t, <<>>, FALSE) : t \in DOMAIN Tools \ Composite}
==========================================================================
