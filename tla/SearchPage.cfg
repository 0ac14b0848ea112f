SPECIFICATION Spec
CONSTANTS
    None = None
    Message = {m1, m2, m3}
    Hit = {m1, m2}
    Limit = {None, 0, 3}
    DefaultLimit = 1
    MaxLimit = 2
    MaxUid = 3
    MaxRebuilds = 1
INVARIANTS
    TypeOK
    UncutIsAll
    NoHoles
    PagingComplete
PROPERTIES
    ResultsStayStable
CHECK_DEADLOCK FALSE
