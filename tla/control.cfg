SPECIFICATION FairSpec
CONSTANTS
    Request = {r1, r2, r3}
    None = None
    Faults <- AllFaults
PROPERTY AnsweredUnlessTimeout
CHECK_DEADLOCK FALSE
INVARIANT ControlInv
