\* One DescribeTable and one change of a masking rule.
CONSTANTS
    q1 = q1  q2 = q2
    Unset = Unset
    NoGrant = NoGrant
    MaxResultRows = 1000
    MaxTimeout = 10000
    MinTimeout = 100
    WriteLimits = {1, 2}
    MaxAffected = 2
    Request = {q1}
    Kinds = {"describe"}
    MaxChanges = 1
    Grantable = {"schema_read"}
    Terms <- PlainOnly
    Faults = {}
SPECIFICATION Spec
INVARIANTS
    DescribeUsesCurrentRules
