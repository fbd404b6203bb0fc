SPECIFICATION OrderSpec
CONSTANTS
    Table = {t1, t2}
    Key = {k1, k2}
INVARIANT RefusesOnlyCycles
