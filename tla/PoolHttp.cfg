SPECIFICATION FairSpec
CONSTANTS
    Session = {s1, s2}
    Tool = {t1, t2}
    Route = {r1}
    MaxSize = 1
    MaxPool = 3
INVARIANTS TypeOK WaitersHavePool
PROPERTIES ServiceRecovers WaitersAnswered LostByOverlapOnly
