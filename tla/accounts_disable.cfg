\* A disable, a password reset and a call.
CONSTANTS
    o1 = o1  o2 = o2  o3 = o3
    Op = {o1, o2, o3}
    Kinds = {"update", "call"}
    First = First
    Faults = FALSE
SPECIFICATION Spec
SYMMETRY Symmetry
INVARIANTS
    DisablingStopsCalls
