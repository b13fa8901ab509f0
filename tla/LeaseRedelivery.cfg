CONSTANTS
    w1 = w1
    w2 = w2
    None = None
    Gone = Gone
    Worker = {w1, w2}
    Client = {}
    Message = {1}
    MaxAttempts = 2
    MaxDeliveryAttempts = 2
    MaxReceiveCount = 2
    MaxLock = 2
    MaxReceptions = 2
    Requests = {"cancel", "retry"}
    LostReplies = TRUE
SPECIFICATION FairSpec
CHECK_DEADLOCK FALSE
INVARIANT CompletedJobIsQuiet
PROPERTY DeliveryEnds
