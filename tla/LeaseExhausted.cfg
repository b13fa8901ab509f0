CONSTANTS
    w1 = w1
    w2 = w2
    c1 = c1
    None = None
    Gone = Gone
    Worker = {w1, w2}
    Client = {c1}
    Message = {1}
    MaxAttempts = 2
    MaxDeliveryAttempts = 1
    MaxReceiveCount = 2
    MaxLock = 3
    MaxReceptions = 2
    Requests = {"cancel", "retry"}
    LostReplies = FALSE
SPECIFICATION Spec
SYMMETRY Symmetric
CHECK_DEADLOCK FALSE
INVARIANTS TypeOK AckIsDurable
PROPERTIES CancelledStays NoSelfFencing FencedSpec
