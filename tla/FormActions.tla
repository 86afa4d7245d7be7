----------------------------- MODULE FormActions -----------------------------
(***************************************************************************)
(* What the actions of src/tools/interaction.ts do to a control of a page  *)
(* (their scripts there, and the sentinels of src/extension/content-main.js*)
(* 768-906, which do the same).                                            *)
(*                                                                         *)
(* A component of the page holds the value it wants the control to have,   *)
(* and writes it back whenever it renders.  It learns of another value by  *)
(* events only.  React compares the value with the one it saw assigned     *)
(* last, and takes an event for no change if they are the same, so that a  *)
(* plain assignment is lost on it (content-main.js:96-99).                 *)
(*                                                                         *)
(* A value is a sequence of characters; a checkbox that is not checked has *)
(* the empty one.  An action runs to its end before the page goes on.      *)
(***************************************************************************)
EXTENDS Naturals, Sequences

CONSTANTS
    Texts,          \* what may be filled or typed
    Options,        \* the options of a select
    None,
    MaxCommands     \* bound

On == <<"on">>
Off == <<>>

FormAssumption == None \notin Texts \cup Options /\ MaxCommands \in Nat

Tags == {"input", "textarea", "select", "checkbox", "link"}
Frameworks == {"vanilla", "react", "vue"}

VARIABLES
    tag, framework,
    field,      \* [value, tracker: what React saw assigned, state: what the component wants]
    promised,   \* history: the last command and the value it answered
    pending,    \* history: has the page changed the value and not rendered yet
    commands

vars == <<tag, framework, field, promised, pending, commands>>

Showing(v) == [value |-> v, tracker |-> v, state |-> v]

ValuesOf(t) == CASE t = "checkbox" -> {On, Off} [] t = "select" -> Options [] OTHER -> Texts

Init ==
    /\ tag \in Tags /\ framework \in Frameworks
    /\ \E v \in ValuesOf(tag) : field = Showing(v)
    /\ promised = None /\ pending = FALSE /\ commands = 0

-----------------------------------------------------------------------------
\* Assignments and events.

Tracked == framework = "react" /\ tag \in {"input", "textarea"}

\* el.value = v, which React sees.
Assign(f, v) == [f EXCEPT !.value = v, !.tracker = v]

\* The setter of the prototype, and what the browser does itself.
SetNative(f, v) == [f EXCEPT !.value = v]

\* An input or a change event.
Event(f) == IF Tracked /\ f.value = f.tracker THEN f ELSE Showing(f.value)

\* The control must be an input element, also a textarea must (line 852).
NativeSetterFits == tag = "input"

\* Mutant: the value is assigned for React as well.
FilledPlainly(f, v, fw) == Event(Assign(f, v))

Filled(f, v, fw) == Event(IF fw = "react" THEN SetNative(f, v) ELSE Assign(f, v))

Cleared(f, clearFirst) == IF clearFirst THEN Event(Assign(f, <<>>)) ELSE f

\* One character after the other is assigned, and an event tells of each; the
\* last one tells of them all.
Typed(f, text) == IF text = <<>> THEN f ELSE Event(Assign(f, f.value \o text))

\* A click checks a checkbox or takes the check away.
Clicked(f) ==
    IF tag = "checkbox" THEN Event(SetNative(f, IF f.value = Off THEN On ELSE Off)) ELSE f

-----------------------------------------------------------------------------
\* The tools.  What an action says of the value of the control is its promise.

Command == commands < MaxCommands /\ commands' = commands + 1 /\ UNCHANGED <<tag, framework>>

Answers(cmd, f) ==
    /\ field' = f /\ UNCHANGED pending
    /\ promised' = IF pending THEN None ELSE [cmd |-> cmd, value |-> f.value]

\* It throws, or says nothing of the value.
Only(f) == field' = f /\ promised' = None /\ UNCHANGED pending

NewDocument ==
    /\ \E v \in ValuesOf(tag) : field' = Showing(v)
    /\ promised' = None /\ pending' = FALSE

\* With the first button the script itself follows a link into this window.
Click(button) ==
    /\ Command
    /\ IF tag = "link" /\ button = "left" THEN NewDocument
       ELSE Only(IF button = "left" THEN Clicked(field) ELSE field)

DoubleClick == Command /\ Only(Clicked(Clicked(field)))

\* Enter may submit the form, and the page empties it.
Fill(v, hint, clearFirst, enter) ==
    LET fw == IF hint = "auto" THEN framework ELSE hint
        before == Cleared(field, clearFirst)
        after == Filled(before, v, fw)
    IN  /\ Command /\ tag \in {"input", "textarea"}
        /\ IF fw = "react" /\ ~NativeSetterFits THEN Only(before)
           ELSE \/ Answers([kind |-> "fill", text |-> v, hint |-> hint, seen |-> before.tracker], after)
                \/ /\ enter /\ field' = [after EXCEPT !.state = <<>>]
                   /\ promised' = None /\ pending' = TRUE

Type(text) ==
    /\ Command /\ tag \in {"input", "textarea"}
    /\ Answers([kind |-> "type"], Typed(field, text))

\* No select, or no such option: it throws.  React does not track a select.
SelectOption(v) ==
    /\ Command
    /\ IF tag = "select" /\ v \in Options
       THEN Answers([kind |-> "select"], Event(Assign(field, v)))
       ELSE Only(field)

Check(want) ==
    /\ Command /\ tag = "checkbox"
    /\ Answers([kind |-> "check"], IF field.value # want THEN Clicked(field) ELSE field)

\* Events that change no value.  A key dispatched by a script types nothing.
Gesture == UNCHANGED <<field, promised, pending>>

Hover == Command /\ Gesture
PressKey == Command /\ Gesture
Drag == Command /\ Gesture
Scroll == Command /\ Gesture

-----------------------------------------------------------------------------
\* The page.

Render ==
    /\ field' = Showing(field.state) /\ pending' = FALSE
    /\ UNCHANGED <<tag, framework, promised, commands>>

\* The page or the user changes the value.
Change ==
    /\ \E v \in ValuesOf(tag) : field' = [field EXCEPT !.state = v]
    /\ promised' = None /\ pending' = TRUE /\ UNCHANGED <<tag, framework, commands>>

Reload == NewDocument /\ UNCHANGED <<tag, framework, commands>>

Next ==
    \/ \E button \in {"left", "right"} : Click(button)
    \/ DoubleClick
    \/ \E v \in Texts, hint \in Frameworks \cup {"auto"}, clear, enter \in BOOLEAN : Fill(v, hint, clear, enter)
    \/ \E v \in Texts : Type(v)
    \/ \E v \in Texts \cup Options : SelectOption(v)
    \/ \E want \in {On, Off} : Check(want)
    \/ Hover \/ PressKey \/ Drag \/ Scroll
    \/ Render \/ Change \/ Reload

Spec == Init /\ [][Next]_vars

-----------------------------------------------------------------------------
\* Property.

\* Commands whose value a page keeps.  React is not told of a text that is
\* typed, or that it saw assigned last, as the empty one after the field was
\* cleared; and a hint at another framework may miss the page's own.
Kept(cmd) ==
    CASE cmd.kind = "fill" ->
            cmd.hint \in {"auto", framework} /\ (Tracked => cmd.text # cmd.seen)
      [] cmd.kind = "type" -> ~Tracked
      [] OTHER -> TRUE

FormTypes ==
    /\ tag \in Tags /\ framework \in Frameworks /\ pending \in BOOLEAN
    /\ field = [value |-> field.value, tracker |-> field.tracker, state |-> field.state]

\* A component that hears of every event wants what the control has, unless
\* something has changed that and not rendered.  A kept promise is wanted.
FormInv ==
    /\ FormTypes
    /\ ~pending /\ ~Tracked => field.state = field.value
    /\ pending => promised = None
    /\ promised # None /\ Kept(promised.cmd) =>
            field.value = promised.value /\ field.state = promised.value

\* The value that fill, select_option or check reported, or type left, stays in
\* the control until the page, the user or another action changes it, however
\* often the component renders (content-main.js:848-873, interaction.ts:731-843).
ReportSticks ==
    promised # None /\ Kept(promised.cmd) => field.value = promised.value
=============================================================================
