\* Selects, joins, unions and writes, with a statement within another one, and
\* lists of grants with limits on both sides of every boundary.
CONSTANTS
    Cases <- AllCases
    Grant <- Grants
    Limits = {0, 1, 2, 3, 4}
    BaseTables <- Columns
    Views <- ViewOf
    MaxKept = 4
    Default = Default
    Unset = Unset
    MaxResultRows = 3
    MaxTimeout = 3
    MinTimeout = 2
    Elsewhere = Elsewhere
    Locks = Locks
    Denied = Denied
    Everything = Everything
    OtherKind = OtherKind
    Unseen = Unseen
SPECIFICATION StatementSpec
CHECK_DEADLOCK FALSE
INVARIANTS
    EvaluateIsMostRestrictive
    GrantNeverLoosens
    LimitsWithinEveryCap
    
    MaskedStaysMasked
    RewriteIsTransparent
