\* One call, one element that may be covered.
CONSTANTS
    None = None
    Order <- OneElement
    Around = {}
    Above <- Nothing
    Faults = {"covered"}
    Calls = {c1}
    Requests <- Clicks
    MaxChanges = 1
SPECIFICATION Spec
INVARIANTS
    ActsWhenReady
CHECK_DEADLOCK FALSE
