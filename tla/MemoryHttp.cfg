SPECIFICATION ModeSpec
CONSTANTS
    Call = {c1, c2}
    Date = {d1, d2}
    Role = {r1}
    Content = {t1, t2}
    IdList = {{}, {1}, {2}, {1, 2}}
    RoleList = {{r1}}
    MaxRemember = 3
    MaxTopic = 2
SYMMETRY Symmetry
INVARIANTS TypeOK CompactionWellFounded OneSessionPerDate References SerialNoDoubleCompaction
PROPERTIES SavedWhole MessagesPersist SerialCompactionSound
