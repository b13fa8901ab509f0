CONSTANTS
    w1 = w1
    w2 = w2
    c1 = c1
    None = None
    Gone = Gone
    Worker = {w1, w2}
    Client = {c1}
    Message = {1, 2, 3}
    MaxAttempts = 2
    MaxDeliveryAttempts = 1
    MaxReceiveCount = 3
    MaxLock = 0
    MaxReceptions = 3
    Requests = {"retry"}
    LostReplies = FALSE
SPECIFICATION Spec
SYMMETRY Symmetric
CHECK_DEADLOCK FALSE
INVARIANT OneRetryPerFailure
