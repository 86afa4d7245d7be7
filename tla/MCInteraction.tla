--------------------------- MODULE MCInteraction ---------------------------
(* One call that clicks an element of a page that changes once. *)
EXTENDS Interaction

OneElement == <<"button">>
Nothing == [e \in {"button"} |-> {}]
Clicks == {[kind |-> "click", force |-> FALSE], [kind |-> "click", force |-> TRUE]}
=============================================================================
