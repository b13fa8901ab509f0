CONSTANTS
    w1 = w1
    w2 = w2
    s1 = s1
    s2 = s2
    m1 = m1
    a1 = a1
    c1 = c1
    Created = Created
    None = None
    Worker = {w1, w2}
    Client = {c1}
    StepEvent = {s1, s2}
    Milestone = {m1}
    ApiEvent = {a1}
    Retries = 2
    MaxSeq = 4
    Limit = 2
    MaxLock = 3
SPECIFICATION PagesSpec
SYMMETRY Symmetric
INVARIANTS TypeOK LogIsDense MilestonesOnce RecordIsLastEvent ContentionIsProgress ReaderSkipsNothing
