SPECIFICATION LiveSpec
CONSTANTS
    Call = {c1, c2}
    Date = {d1, d2}
    Role = {r1, r2}
    Content = {t1}
    IdList = {{}, {1}, {1, 2}}
    RoleList = {{r1, r2}}
    MaxRemember = 2
    MaxTopic = 1
PROPERTIES CallsReturn ActsAtomically
