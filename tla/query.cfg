\* One request of any kind, two policy changes at any point, every fault.
CONSTANTS
    q1 = q1  q2 = q2
    Unset = Unset
    NoGrant = NoGrant
    MaxResultRows = 1000
    MaxTimeout = 10000
    MinTimeout = 100
    WriteLimits = {1, 2}
    MaxAffected = 2
    Request = {q1}
    Kinds = {"read", "write", "tables", "describe"}
    MaxChanges = 2
    Grantable = {"query_read", "query_write"}
    Terms <- StrictOnly
    Faults = {"audit", "crash"}
SPECIFICATION FairSpec
INVARIANTS
    AuthorizedAgain
    CurrentRulesApplied
    AuditIsTrue
PROPERTIES
    ImplementsAnswers
    RequestsEnd
    AuditSettles
