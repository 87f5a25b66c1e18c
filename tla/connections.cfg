\* Three requests of any kind and one connection of each pool.
CONSTANTS
    o1 = o1  o2 = o2  o3 = o3
    Op = {o1, o2, o3}
    Kinds = {"read", "write", "schema", "mask", "create", "admin"}
    Size <- OneOfEach
SPECIFICATION Spec
INVARIANTS
    OrderOfPools
PROPERTIES
    RequestsEnd
