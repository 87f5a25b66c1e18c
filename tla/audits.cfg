\* Four requests, up to three rows of earlier releases, sizes around both limits.
CONSTANTS
    r1 = r1  r2 = r2  r3 = r3  r4 = r4
    Request = {r1, r2, r3, r4}
    MaxOld = 3
    Pages = {0, 1, 3}
    Sizes = {0, 1, 2, 4}
    DefaultSize = 2
    MaxSize = 3
SPECIFICATION Spec
SYMMETRY Symmetry
CHECK_DEADLOCK FALSE
INVARIANTS
    NothingIsSkipped
    OneStatePerRequest
