SPECIFICATION FairSpec
CONSTANTS
    Call = {c1, c2}
    Path = {p1}
    Content = {t1, t2}
    Persona = {a1, a2}
    MaxVersion = 3
INVARIANTS TypeOK VersionsContiguous OnePersonaPerPath
PROPERTIES AppendOnly RetireRemovesRule CallsReturn
