SPECIFICATION FairSpec
CONSTANTS
    MaxKeys = 2
    MaxDay = 2
    MaxTests = 2
    Tries = 2
CHECK_DEADLOCK FALSE
INVARIANTS
    StopsItsOwn
    Authorised
PROPERTIES
    OutcomesSpec
    LeavesNoContainer
    TestEnds
