\* Three requests of any kind on one account, and a store that may fail.
CONSTANTS
    o1 = o1  o2 = o2  o3 = o3
    Op = {o1, o2, o3}
    Kinds = {"login", "logout", "password", "update", "create", "revoke", "call"}
    First = First
    Faults = TRUE
SPECIFICATION Spec
SYMMETRY Symmetry
INVARIANTS
    TypeOK
    OldPasswordsAreShutOut
    OnlyRacesRestoreStatus
    RevokedTokensAreRefused
