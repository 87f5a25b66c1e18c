\* Three requests of any kind over one earlier grant; one text is no action.
CONSTANTS
    o1 = o1  o2 = o2  o3 = o3  g1 = g1
    Unset = Unset
    MaxResultRows = 1
    MaxTimeout = 1
    MinTimeout = 1
    Op = {o1, o2, o3}
    Old = {g1}
    Principal = {"p"}
    Resource = {"r"}
    Text = {"schema_read", "query_read", "unknown"}
SPECIFICATION Spec
SYMMETRY Symmetry
CHECK_DEADLOCK FALSE
INVARIANTS
    RepliesAreTrue
    ShownIsUsable
PROPERTIES
    RevocationHolds
