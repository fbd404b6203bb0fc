SPECIFICATION Spec
CONSTANTS
    Id = {m1, m2, m3}
    TopicIds = {1}
    Date = {d1}
    Content = {0, 1}
    RoleList <- Roles
    IdList = {{}}
    Filter <- Filters
    Limit = {2}
    MinOccurrences = {1}
    Moment = {1, 2}
    MaxChange = 1
SYMMETRY Symmetry
INVARIANTS TypeOK WalkToShortPage WalkToTotal StatsWithinSummary
