SPECIFICATION Spec
CONSTANTS
    Call = {c1, c2}
    Date = {d1}
    Role = {}
    Content = {t1}
    IdList = {{}, {1}}
    RoleList = {{}}
    MaxRemember = 3
    MaxTopic = 1
INVARIANT NoDoubleCompaction
