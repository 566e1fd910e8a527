SPECIFICATION MCSpec
CONSTANTS
    Goroutines = {1, 2}
    Names = {1, 2, 3}
    PageLimit = 1
    MaxChanges = 2
    MaxCalls = 2
    MaxSeq = 4
    PageSize = 2
    MaxNext = 4
INVARIANTS
    SuccessMeansDone
    ListIsExplained
    InfoNotOlder
    PagerReturnsAll
    ReadsAreHonest
PROPERTIES
    CallsReturn
CHECK_DEADLOCK FALSE
