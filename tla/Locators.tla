------------------------------ MODULE Locators ------------------------------
(***************************************************************************)
(* How a tool finds the element it acts on: locators and refs              *)
(* (extension/locator.js; src/locator.ts and src/aria.ts build the same    *)
(* scripts for the other engines).                                         *)
(*                                                                         *)
(* A snapshot stamps elements with refs e1, e2, ... that the agent uses in *)
(* later calls; a locator stamps the element it finds with a random ref,   *)
(* by which a second script finds it again to act on it.  Between the two  *)
(* the page renders as it likes.                                           *)
(***************************************************************************)
EXTENDS Naturals, FiniteSets, Sequences, SequencesExt, FiniteSetsExt

CONSTANTS
    Order,      \* the nodes a page may hold, in document order
    Attr,       \* their attributes: [above, shadow, interactable, hidden, role,
                \* explicit, name, text, testId, placeholder, label]
    Locators,   \* [by, value, name, exact, hasText, nth, chain]
    None,
    MaxRefs,    \* how many refs of each kind: a bound of the model
    MaxRenders  \* how often the page changes: a bound of the model

Nodes == ToSet(Order)
Refs == {"e", "sp"} \X (1..MaxRefs)

LocatorsAssumption ==
    /\ {MaxRefs, MaxRenders} \subseteq Nat
    /\ Order \in Seq(Nodes)
    /\ DOMAIN Attr = Nodes /\ \A n \in Nodes : Attr[n].above \subseteq Nodes
    /\ \A l \in Locators :
          l.by \in {"testId", "role", "label", "placeholder", "text"} /\ Len(l.chain) \in Nat
    /\ None \notin Nodes /\ None \notin Refs

VARIABLES
    present,    \* the nodes that are in the page
    ref,        \* their data-sp-ref
    resolved,   \* calls whose locator is resolved: [ref, locator, matched]
    owner,      \* history: the node a ref was handed out for last
    acted,      \* history: the last action: its node, the one its ref was
                \* handed out for, and its call if a locator was resolved
    left,       \* history: nodes that have left the page
    returned,   \* history: one of them came back
    renders

vars == <<present, ref, resolved, owner, acted, left, returned, renders>>

-----------------------------------------------------------------------------
\* The document.

\* Those of a list that are in a set.
Those(s, S) ==
    LET upTo[i \in 0..Len(s)] ==
        IF i = 0 THEN <<>> ELSE IF s[i] \in S THEN Append(upTo[i - 1], s[i]) ELSE upTo[i - 1]
    IN  upTo[Len(s)]

\* Selectors do not look into shadow roots.
Flat == {n \in present : ~Attr[n].shadow}
Listed(S) == Those(Order, S \cap Flat)
Under(n) == {m \in present : n \in Attr[m].above /\ ~Attr[m].shadow}
Text(n) == Attr[n].text \cup UNION {Attr[m].text : m \in Under(n)}
FirstOf(s) == IF s = <<>> THEN <<>> ELSE <<s[1]>>
QuerySelector(r) == FirstOf(Listed({n \in Nodes : ref[n] = r}))

MatchText(text, needle, exact) == IF exact THEN text = {needle} ELSE needle \in text

ByRole(l) ==
    Listed({n \in Nodes : /\ Attr[n].role = l.value
                          /\ l.name # None => MatchText({Attr[n].name}, l.name, l.exact)})

\* Of nested matches the innermost.
ByText(l) ==
    LET fit == {n \in present : MatchText(Text(n), l.value, l.exact)}
    IN  Listed({n \in fit : Under(n) \cap fit = {}})

ByLabel(l) ==
    Listed({n \in Nodes : Attr[n].label # None /\ MatchText({Attr[n].label}, l.value, l.exact)})

ByPlaceholder(l) ==
    LET all == Listed({n \in Nodes : Attr[n].placeholder = l.value})
    IN  IF l.exact THEN FirstOf(all) ELSE all

Base(l) ==
    CASE l.by = "testId" -> FirstOf(Listed({n \in Nodes : Attr[n].testId = l.value}))
      [] l.by = "role" -> ByRole(l)
      [] l.by = "label" -> ByLabel(l)
      [] l.by = "placeholder" -> ByPlaceholder(l)
      [] l.by = "text" -> ByText(l)

\* In a chain only what the role attribute says counts.
ExplicitRole(role, name) ==
    {n \in Flat : Attr[n].explicit = role /\ (name # None => Attr[n].name = name)}

At(s, i) ==
    LET j == IF i < 0 THEN Len(s) + i + 1 ELSE i + 1
    IN  IF j \in DOMAIN s THEN <<s[j]>> ELSE <<>>

ApplyChainOp(s, cop) ==
    CASE s = <<>> -> <<>>
      [] s # <<>> /\ cop.op = "first" -> FirstOf(s)
      [] s # <<>> /\ cop.op = "last" -> <<Last(s)>>
      [] s # <<>> /\ cop.op = "nth" -> At(s, cop.n)
      [] s # <<>> /\ cop.op = "filter" -> Those(s, {n \in Nodes : cop.hasText \in Text(n)})
      [] s # <<>> /\ cop.op = "descendant" ->
            FlattenSeq([i \in DOMAIN s |-> Listed(ExplicitRole(cop.role, cop.name) \cap Under(s[i]))])
      [] s # <<>> /\ cop.op = "or" ->
            s \o Listed(ExplicitRole(cop.role, cop.name) \ ToSet(s))
      [] s # <<>> /\ cop.op = "and" ->
            Those(s, ExplicitRole(cop.role, cop.name))
      [] OTHER -> s

ResolveMatchedSet(l) ==
    LET base == Those(Base(l), {n \in Nodes : l.hasText # None => l.hasText \in Text(n)})
        after[k \in 0..Len(l.chain)] ==
            IF k = 0 THEN IF l.nth \in {None, 0} THEN base ELSE At(base, l.nth)
            ELSE ApplyChainOp(after[k - 1], l.chain[k])
    IN  after[Len(l.chain)]

StrictnessSatisfied(l, matched) ==
    \/ Len(matched) = 1
    \/ l.by = "testId"
    \/ l.nth # None
    \/ l.chain # <<>> /\ Last(l.chain).op \in {"first", "last", "nth"}

-----------------------------------------------------------------------------
Init ==
    /\ present \in SUBSET Nodes
    /\ \A n \in present : Attr[n].above \subseteq present
    /\ ref = [n \in Nodes |-> None]
    /\ resolved = {}
    /\ owner = [r \in Refs |-> None]
    /\ acted = None
    /\ left = {} /\ returned = FALSE /\ renders = 0

\* Nothing in a shadow root is stamped, and no node came back with a stamp.
Plain ==
    /\ ~returned
    /\ \A n \in Nodes : Attr[n].shadow => ref[n] = None

\* Math.random(): a number no other ref has.
FreshRefs == {r \in Refs : r[1] = "sp" /\ owner[r] = None}

\* The element is stamped, whether or not the tool then takes it.
Resolve(l, matched) ==
    LET r == CHOOSE x \in FreshRefs : TRUE
    IN  /\ FreshRefs # {} /\ matched # <<>>
        /\ ref' = [ref EXCEPT ![matched[1]] = r]
        /\ owner' = [owner EXCEPT ![r] = matched[1]]
        /\ resolved' = IF StrictnessSatisfied(l, matched)
                       THEN resolved \cup {[ref |-> r, locator |-> l, matched |-> matched]}
                       ELSE resolved
        /\ UNCHANGED <<present, acted, left, returned, renders>>

\* safari_query_all: every element gets a ref of its own.
ResolveAll(matched) ==
    LET fresh == SetToSeq(FreshRefs)
        gets(n) == fresh[CHOOSE i \in DOMAIN matched : /\ matched[i] = n
                                                      /\ \A j \in DOMAIN matched : matched[j] = n => j <= i]
    IN  /\ Len(fresh) >= Len(matched) /\ matched # <<>>
        /\ ref' = [n \in Nodes |-> IF n \in ToSet(matched) THEN gets(n) ELSE ref[n]]
        /\ owner' = [r \in Refs |->
                IF \E i \in DOMAIN matched : fresh[i] = r
                THEN matched[CHOOSE i \in DOMAIN matched : fresh[i] = r] ELSE owner[r]]
        /\ UNCHANGED <<present, resolved, acted, left, returned, renders>>

Act(call) ==
    /\ call \in resolved
    /\ resolved' = resolved \ {call}
    /\ acted' = IF QuerySelector(call.ref) = <<>> THEN None
                ELSE [node |-> QuerySelector(call.ref)[1], named |-> owner[call.ref],
                      call |-> call, plain |-> Plain]
    /\ UNCHANGED <<present, ref, owner, left, returned, renders>>

\* The agent names a ref it was given.
ActByRef(r) ==
    /\ owner[r] # None
    /\ LET found == QuerySelector(r)
       IN  acted' = IF found = <<>> THEN None
                    ELSE [node |-> found[1], named |-> owner[r], call |-> None, plain |-> Plain]
    /\ UNCHANGED <<present, ref, resolved, owner, left, returned, renders>>

Numbers == {ref[n][2] : n \in {m \in present : ~Attr[m].shadow /\ ref[m] # None /\ ref[m][1] = "e"}}

\* Mutant: each snapshot counts from one.
HighestNone == 0

\* The numbering goes on from the highest ref that a selector finds.
Highest == IF Numbers = {} THEN 0 ELSE Max(Numbers)

\* The walk sees shadow roots, and leaves out what is hidden with all below it.
Walked ==
    Those(Order, {n \in present :
        /\ Attr[n].interactable
        /\ \A m \in Attr[n].above \cup {n} : ~Attr[m].hidden})

BuildSnapshot ==
    LET walked == Walked
        highest == Highest
        new == Those(walked, {n \in Nodes : ref[n] = None})
        number(n) == highest + (CHOOSE i \in DOMAIN new : new[i] = n)
        stamped == [n \in Nodes |-> IF n \in ToSet(new) THEN <<"e", number(n)>> ELSE ref[n]]
    IN  /\ highest + Len(new) <= MaxRefs
        /\ ref' = stamped
        /\ owner' = [r \in Refs |->
                LET named == Those(walked, {n \in Nodes : stamped[n] = r})
                IN  IF named = <<>> THEN owner[r] ELSE Last(named)]
        /\ UNCHANGED <<present, resolved, acted, left, returned, renders>>

\* The page: a node leaves with all below it, a node comes; one that was there
\* before brings its stamp along.
Render ==
    /\ renders < MaxRenders
    /\ renders' = renders + 1
    /\ \/ \E n \in present :
            LET gone == {m \in present : m = n \/ n \in Attr[m].above}
            IN  /\ present' = present \ gone
                /\ left' = left \cup gone
                /\ UNCHANGED returned
       \/ \E n \in Nodes \ present :
            /\ Attr[n].above \subseteq present
            /\ present' = present \cup {n}
            /\ returned' = (returned \/ n \in left)
            /\ UNCHANGED left
    /\ UNCHANGED <<ref, resolved, owner, acted>>

Next ==
    \/ \E l \in Locators :
        LET matched == ResolveMatchedSet(l)
        IN  Resolve(l, matched) \/ ResolveAll(matched)
    \/ \E call \in resolved : Act(call)
    \/ \E r \in Refs : ActByRef(r)
    \/ BuildSnapshot
    \/ Render

Spec == Init /\ [][Next]_vars

-----------------------------------------------------------------------------
\* Properties.

\* On a plain page an action hits the node its ref was handed out for last,
\* however the page was rendered, other calls resolved and snapshots taken
\* since: refs do not collide.  If the caller did not choose among several
\* matches, the node was the only one (locator.js:813-846, 1075-1091,
\* 1235-1245, tools/interaction.ts:90-95).
HitsTheNamedOne ==
    acted # None /\ acted.plain =>
        /\ acted.node = acted.named
        /\ acted.call # None =>
            \/ acted.call.matched = <<acted.node>>
            \/ acted.call.locator.by = "testId" \/ acted.call.locator.nth # None
            \/ acted.call.locator.chain # <<>>

-----------------------------------------------------------------------------
\* Why it holds.

\* An element's stamp was handed out for it last, unless it is the number of a
\* snapshot and the element out of the sight of later ones; one that has never
\* been in the page has no number.
StampsName ==
    /\ \A n \in Nodes : ref[n] # None /\ ref[n][1] = "sp" => owner[ref[n]] = n
    /\ Plain => /\ \A n \in present : ref[n] # None => owner[ref[n]] = n
                /\ \A n \in Nodes \ (present \cup left) : ref[n] # None => ref[n][1] = "sp"

RefInv ==
    /\ present \subseteq Nodes /\ ref \in [Nodes -> Refs \cup {None}]
    /\ owner \in [Refs -> Nodes \cup {None}]
    /\ StampsName
    /\ \A call \in resolved :
          /\ call.ref \in Refs /\ call.ref[1] = "sp"
          /\ call.matched \in Seq(Nodes) /\ call.matched # <<>>
          /\ owner[call.ref] = call.matched[1]
          /\ StrictnessSatisfied(call.locator, call.matched)
    /\ HitsTheNamedOne
=============================================================================
