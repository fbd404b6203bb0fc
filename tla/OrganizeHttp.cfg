SPECIFICATION FairSpec
CONSTANTS
    Call = {c1, c2}
    MessageId = {1}
    Blank = ""
    Name <- MCName
    Tag <- MCTag
    Normal <- MCNormal
    Lower <- MCLower
    Request <- MCRequest
INVARIANT TypeOK
PROPERTIES AppliedUnlessOpposed RetagsAll CallsReturn
