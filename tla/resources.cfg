\* Three requests of any kind on one resource, three versions, every fault.
CONSTANTS
    o1 = o1  o2 = o2  o3 = o3
    Op = {o1, o2, o3}
    Kinds = {"update", "mask", "test", "query"}
    MaxVersion = 3
    NoPool = NoPool
    Faults = TRUE
SPECIFICATION Spec
SYMMETRY Symmetry
INVARIANTS
    TypeOK
    NoChangeIsOverwritten
    RowsFromCurrentSettings
    ChangesRetirePools
