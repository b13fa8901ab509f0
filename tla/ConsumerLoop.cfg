CONSTANTS
    c1 = c1
    c2 = c2
    j1 = j1
    j2 = j2
    x1 = x1
    None = None
    Former = Former
    Consumer = {c1, c2}
    Job = {j1}
    Junk = {x1}
    BatchSize = 2
    MaxDeliveryAttempts = 2
    MaxReceiveCount = 3
    MaxBackoff = 2
    MaxDisturbances = 2
SPECIFICATION FairSpec
INVARIANTS TypeOK NothingRunsAfterShutdown DeadLetteredIsFailed 
PROPERTIES ShutdownEnds MessagesSettle
