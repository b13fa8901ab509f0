CONSTANTS
    c1 = c1
    c2 = c2
    c3 = c3
    b1 = b1
    b2 = b2
    None = None
    Client = {c1, c2, c3}
    Brief = {b1, b2}
    MaxMessages = 2
    MaxLock = 3
SPECIFICATION Spec
SYMMETRY Symmetric
INVARIANTS TypeOK CreatorActsAlone QueuedWasSent AcceptedIsKept WorkedOnExists
