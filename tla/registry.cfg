\* Two calls and two administrators over two versions of one resource.
CONSTANTS
    c1 = c1  c2 = c2  a1 = a1  a2 = a2
    k1 = k1  k2 = k2  r1 = r1
    Call = {c1, c2}
    Admin = {a1, a2}
    Config = {k1, k2}
    Resource = {r1}
    ResourceOf <- TwoVersions
    NoAdapter = NoAdapter
SPECIFICATION FairSpec
INVARIANTS
    TypeOK
    CacheIsSound
    NoLeak
    OnePool
    ReleasedForAReason
PROPERTIES
    KeepsPromise
    CallsReturn
    OrphansAreClosed
