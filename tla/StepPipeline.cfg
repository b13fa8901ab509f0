CONSTANTS
    w1 = w1
    w2 = w2
    None = None
    Worker = {w1, w2}
    MaxAttempts = 2
    MaxReceiveCount = 2
    MaxFaults = 2
    Cases <- MCCases
SPECIFICATION Spec
SYMMETRY Symmetric
CHECK_DEADLOCK FALSE
INVARIANTS ReviewedIsComplete SeededIsInherited RetryFindsOutputs
