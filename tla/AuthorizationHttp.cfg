SPECIFICATION FairSpec
CONSTANTS
    Call = {c1, c2}
    Client = {k1}
    Token = {a, b}
    MaxFailures = 2
    LockoutSeconds = 2
    SessionExpires = 1
    CodeExpires = 1
    AccessExpires = 1
    RefreshExpires = 2
    MaxOverlap = 1
INVARIANTS TypeOK LockoutExact GrantsMultiplyByOverlap
PROPERTIES LockoutEnds RenewalOutlivesAccess
