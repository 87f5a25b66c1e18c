\* An update and a query.
CONSTANTS
    o1 = o1  o2 = o2  o3 = o3
    Op = {o1, o2}
    Kinds = {"update", "query"}
    MaxVersion = 2
    NoPool = NoPool
    Faults = FALSE
SPECIFICATION Spec
SYMMETRY Symmetry
INVARIANTS
    OldSettingsLeaveTheCache
