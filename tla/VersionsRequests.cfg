CONSTANTS
    w1 = w1
    c1 = c1
    c2 = c2
    f1 = f1
    f2 = f2
    None = None
    Worker = {w1}
    Client = {c1, c2}
    Feedback = {f1, f2}
    MaxVersion = 2
    MaxAttempt = 1
    MaxLock = 2
SPECIFICATION Spec
SYMMETRY Symmetric
CHECK_DEADLOCK FALSE
INVARIANTS TypeOK AcceptedRevisionIsTheChild
PROPERTY CommitIsFresh
