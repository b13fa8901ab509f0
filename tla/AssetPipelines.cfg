CONSTANTS
    w1 = w1
    w2 = w2
    p1 = p1
    p2 = p2
    p3 = p3
    None = None
    Worker = {w1, w2}
    SceneCount = 2
    Photo = {p1, p2, p3}
    Modes = {"stock", "fallback"}
    Spoken = {TRUE, FALSE}
    MaxMade = 4
    MaxFaults = 2
SPECIFICATION Spec
SYMMETRY Symmetric
CHECK_DEADLOCK FALSE
INVARIANTS ProviderIsTrue PhotosAreDistinct VideoIsOfItsReferences FilesAreTheReferences
