------------------------------ MODULE UrlMatch ------------------------------
(***************************************************************************)
(* Which of a session's tabs a URL means: spMatchTabUrl of                 *)
(* extension/background.js, which is lib/tab-url-matcher.js copied.        *)
(*                                                                         *)
(* The URL of a call and those of the tabs drift apart.  Three tiers look  *)
(* for the tab: the same URL; the same but for what normalization drops;   *)
(* the longest path below the one asked for.                               *)
(***************************************************************************)
EXTENDS Naturals, FiniteSets, Sequences, SequencesExt, FiniteSetsExt

CONSTANTS
    Paths,      \* sequences of segments; a segment is its name and its length
    Origins,
    Variants,   \* pairs of what normalization keeps of a query, and of what it
                \* drops: www., case, fragment and tracking parameters
    Canonical,      \* nothing to drop
    Unparsed,   \* strings that are no URL
    MaxTabs

UrlMatchAssumption ==
    /\ MaxTabs \in Nat /\ Unparsed \cap Origins = {}
    /\ \A v \in Variants : DOMAIN v = {1, 2}

VARIABLES
    requested,  \* the URL of the call
    tabs,       \* URLs of the tabs, in the order of the cache
    matched     \* the position of the tab that is found

vars == <<requested, tabs, matched>>

Url(origin, path, variant) ==
    [origin |-> origin, path |-> path, query |-> variant[1], style |-> variant[2]]
Urls ==
    {Url(o, p, v) : o \in Origins, p \in Paths, v \in Variants}
        \cup {Url(u, <<>>, <<"", Canonical>>) : u \in Unparsed}

Parsed(u) == u.origin \notin Unparsed

NormalizeForMatch(u) == [u EXCEPT !.style = Canonical]

\* In characters, a slash before each segment.
PathLength(p) == FoldLeft(LAMBDA n, segment : n + 1 + segment[2], 0, p)

PathIsPrefix(p, q) == IsPrefix(p, q)

-----------------------------------------------------------------------------
Exact(r, cs) == {i \in DOMAIN cs : cs[i] = r}

Normalized(r, cs) == {i \in DOMAIN cs : NormalizeForMatch(cs[i]) = NormalizeForMatch(r)}

Below(r, cs) ==
    {i \in DOMAIN cs :
        /\ Parsed(r) /\ cs[i].origin = r.origin
        /\ PathIsPrefix(r.path, cs[i].path)}

\* Mutant: of the longest the first is taken, without counting them.
LongestFirst(cs, is) ==
    {i \in is : \A j \in is :
        \/ PathLength(cs[i].path) > PathLength(cs[j].path)
        \/ PathLength(cs[i].path) = PathLength(cs[j].path) /\ i <= j}

Longest(cs, is) == {i \in is : \A j \in is : PathLength(cs[i].path) >= PathLength(cs[j].path)}

\* Of equal URLs the first is taken; several that are only like it count for
\* nothing, and the next tier has its turn.
MatchTabUrl(r, cs) ==
    LET exact == Exact(r, cs)
        normalized == Normalized(r, cs)
        longest == Longest(cs, Below(r, cs))
    IN  CASE exact # {} -> Min(exact)
          [] exact = {} /\ Cardinality(normalized) = 1 -> Min(normalized)
          [] exact = {} /\ Cardinality(normalized) # 1 /\ Cardinality(longest) = 1 -> Min(longest)
          [] OTHER -> 0

-----------------------------------------------------------------------------
Init ==
    /\ requested \in Urls
    /\ tabs \in SeqOf(Urls, MaxTabs)
    /\ matched = 0

FindTargetTab ==
    /\ matched' = MatchTabUrl(requested, tabs)
    /\ UNCHANGED <<requested, tabs>>

\* The cache is a map, and its order that of the tabs' first entries: a tab that
\* closes and comes back, or a restarted page, changes it.
CacheReorders ==
    \E i \in DOMAIN tabs :
        /\ tabs' = Append(RemoveAt(tabs, i), tabs[i])
        /\ matched' = IF matched = i THEN Len(tabs) ELSE IF matched > i THEN matched - 1 ELSE matched
        /\ UNCHANGED requested

Next == FindTargetTab \/ CacheReorders

Spec == Init /\ [][Next]_vars

-----------------------------------------------------------------------------
\* Properties.

\* The answer does not depend on the order of the tabs: asked again after any
\* change of it, the matcher finds the URL it found before, and nothing if it
\* found nothing; unlike tabs that match equally well are never guessed between
\* (lib/tab-url-matcher.js:20-30, 105-145).
FoundAgain ==
    matched # 0 /\ tabs' = tabs => matched' # 0 /\ tabs[matched'] = tabs[matched]

MatchIgnoresOrder == [][FoundAgain]_vars

\* Why it holds: the tab that was found is still the one that would be found.
MatchInv ==
    /\ tabs \in Seq(Urls)
    /\ matched # 0 =>
          /\ matched \in 1..Len(tabs)
          /\ MatchTabUrl(requested, tabs) # 0
          /\ tabs[MatchTabUrl(requested, tabs)] = tabs[matched]
=============================================================================
