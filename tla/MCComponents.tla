------------------------------- MODULE MCComponents -------------------------------
\* Small instances of each component.
EXTENDS Components, TLC

\* UrlMatch: a segment of a path is its name and its length.
SomePaths == {<<<<"a", 1>>>>, <<<<"a", 1>>, <<"b", 1>>, <<"b", 1>>>>, <<<<"a", 1>>, <<"c", 3>>>>}
SomeVariants == {<<"", Canonical>>, <<"q", "www">>}

\* Gates: b is built in; x is blocked, and d2 is left to the rule before it.
ToolCall(tool, domain, fields) ==
    [tool |-> tool, key |-> "k", domain |-> domain, url |-> "plain", fields |-> fields]
SomeCalls == {
    ToolCall("safari_health_check", "d1", {}), ToolCall("safari_snapshot", "d1", {}),
    ToolCall("safari_click", "d1", {}), ToolCall("safari_click", "d2", {}),
    ToolCall("safari_click", "d3", {}), ToolCall("safari_fill", "d1", {"secret"})}
OnePattern == <<"b">>
AnotherPattern == <<"x">>
TwoPatterns == <<"x", "t">>
MatchesOf(pattern) == IF pattern = "b" THEN {"d2"} ELSE IF pattern = "x" THEN {"d2", "d3"} ELSE {}

\* Locators: two equal buttons in a list, and one in a shadow root.
PageNode(above, shadow, role, explicit, name) ==
    [above |-> above, shadow |-> shadow, interactable |-> role = "button", hidden |-> FALSE,
     role |-> role, explicit |-> explicit, name |-> name, text |-> {name},
     testId |-> None, placeholder |-> None, label |-> None]
ShopOrder == <<"list", "one", "two", "deep">>
ShopAttr == [n \in {"list", "one", "two", "deep"} |->
    CASE n = "list" -> PageNode({}, FALSE, "group", "group", "goods")
      [] n = "one" -> PageNode({"list"}, FALSE, "button", "none", "buy")
      [] n = "two" -> PageNode({"list"}, FALSE, "button", "button", "buy")
      [] n = "deep" -> PageNode({}, TRUE, "button", "button", "sell")]
Locate(by, value, name, nth, chain) ==
    [by |-> by, value |-> value, name |-> name, exact |-> FALSE, hasText |-> None,
     nth |-> nth, chain |-> chain]
SomeLocators == {
    Locate("role", "button", "buy", None, <<>>),
    Locate("text", "buy", None, 1, <<>>),
    Locate("role", "group", None, None, <<[op |-> "descendant", role |-> "button", name |-> None],
        [op |-> "filter", hasText |-> "buy"], [op |-> "or", role |-> "button", name |-> None], [op |-> "first"]>>)}

\* Interaction: a form, and in it an element that takes the place of another.
TwoElements == <<"first", "second">>
FormAbove == [e \in {"first", "second", "form"} |-> IF e = "form" THEN {} ELSE {"form"}]
SomeActions == {[kind |-> "click", force |-> FALSE], [kind |-> "fill", force |-> TRUE]}

\* Benchmark: two tasks of one site, a local one that is a competition, one
\* that waits for a tool, and one that does not parse.
Expecting(word) == [type |-> "exact_match", expected |-> {word}]
Assignment(id, host, category, eval, fallback, competitive, gated) ==
    [valid |-> id # "t5", id |-> id, host |-> host, category |-> category, eval |-> eval, fallback |-> fallback,
     competitive |-> competitive, gated |-> gated, engines |-> {"applescript"}]
BenchmarkSuite == <<
    Assignment("t1", "site", "forms", Expecting("yes"), [type |-> "llm_judge"], FALSE, FALSE),
    Assignment("t2", "localhost", "local", [type |-> "contains", mustInclude |-> {"yes"}], None, TRUE, FALSE),
    Assignment("t3", "site", "local", [type |-> "structured_output",
        schema |-> [required |-> {"k"}, types |-> [k |-> "number"]]], None, FALSE, FALSE),
    Assignment("t4", "late", "local", Expecting("yes"), None, FALSE, TRUE),
    Assignment("t5", "site", "local", Expecting("yes"), None, FALSE, FALSE)>>
BenchmarkConfigs == {
    [models |-> <<"m", "n">>, parallel |-> 2, competitive |-> FALSE, dryRun |-> FALSE,
     categories |-> None, taskIds |-> {"t1", "t3"}],
    [models |-> <<"m">>, parallel |-> 2, competitive |-> TRUE, dryRun |-> FALSE,
     categories |-> None, taskIds |-> None],
    [models |-> <<"m", "m">>, parallel |-> 2, competitive |-> FALSE, dryRun |-> FALSE,
     categories |-> {"local"}, taskIds |-> {"t3"}]}
Says(out) == [type |-> "text", content |-> out]
AnswerYes == [text |-> {"yes"}, result |-> None, json |-> FALSE, fields |-> <<>>]
AnswerJson == [text |-> {"no"}, result |-> {"yes"}, json |-> TRUE, fields |-> [k |-> "number"]]
BenchmarkOutputs == {
    <<[type |-> "system", content |-> <<>>], [type |-> "assistant", content |-> <<Says(AnswerYes)>>], None>>,
    <<[type |-> "assistant", content |-> <<Says(AnswerYes), [type |-> "tool_use", content |-> None]>>],
      [type |-> "result", content |-> <<Says(AnswerJson)>>]>>}

\* PdfExport: the second one turns its sheet and asks for pages that may not be there.
TwoSheets == {
    [paper |-> <<59528, 84189>>, landscape |-> FALSE, css |-> FALSE, range |-> None],
    [paper |-> <<61200, 100800>>, landscape |-> TRUE, css |-> FALSE, range |-> <<2, 3>>]}

\* NetworkTools
LongUrl == {<<1, 2>>}

\* Benchmark: a run of an earlier session
OneRun == <<"m">>

\* FormActions
SomeTexts == {<<>>, <<"a">>, <<"a", "b">>}
TwoOptions == {<<"x">>, <<"y">>}

\* Toolbox: batches, one with a skill in it, and skills.
Uses(tool) == [tool |-> tool, parts |-> <<>>, stop |-> FALSE]
Composes(tool, parts, stop) == [tool |-> tool, parts |-> parts, stop |-> stop]
SomeComposed == {
    Composes("safari_batch", <<Uses("safari_evaluate"), Uses("safari_snapshot"), Uses("safari_tool_search")>>, TRUE),
    Composes("safari_batch", <<Uses("safari_sw_list"),
        Composes("safari_run_skill", <<Uses("safari_new_tab")>>, FALSE)>>, FALSE),
    Composes("safari_batch", <<Uses("safari_batch")>>, FALSE),
    Composes("safari_run_skill", None, FALSE),
    Composes("safari_run_skill", <<Uses("safari_navigate"), Uses("safari_fill")>>, FALSE),
    Composes("safari_run_skill", <<Composes("_loop", <<Uses("safari_reload")>>, FALSE), Uses("safari_new_tab")>>, FALSE)}

\* In each component the k may change places, and so may the j.
Alike == Permutations(Uploads) \cup Permutations(Addresses)
===================================================================================
