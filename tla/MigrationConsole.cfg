SPECIFICATION Spec
CONSTANTS
    Table = {t1, t2, t3}
    Key = {k1, k2}
    MaxId = 1
SYMMETRY Symmetry
INVARIANTS TypeOK OrderRight ParentsFilledFirst
INVARIANTS ServiceFindsItsRows NextIdFresh NothingReadsWork
