SPECIFICATION FairSpec
CONSTANTS
    Total = 5
    Jobs = 2
    Size = 2
    Flaky = TRUE
    Mortal = TRUE
INVARIANTS
    FindsLowest
    ReportsReproduce
    MismatchIsReal
PROPERTIES
    ParallelIsTheVerdict
    SearchEnds
CHECK_DEADLOCK FALSE
