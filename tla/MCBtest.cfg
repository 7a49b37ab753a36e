SPECIFICATION Spec
CONSTANTS
    TestRange <- MCTestRange
    RandomVals <- MCRandomVals
    MaxTimeouts = 1
    Given <- MCGiven
INVARIANTS
    AnswersExact
    WindowsMissFaults
CHECK_DEADLOCK FALSE
