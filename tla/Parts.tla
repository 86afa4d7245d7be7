----------------------------------- MODULE Parts -----------------------------------
(* What the components of one run have in common.                           *)
CONSTANTS
    None,   \* no value
    Faults  \* a bound on the faults of a component that has them
=============================================================================
