SPECIFICATION Spec
CONSTANTS
    Call = {c1}
    Path = {p1}
    Content = {t1, t2}
    Persona = {a1, a2}
    MaxVersion = 3
PROPERTY ConstitutionStays
