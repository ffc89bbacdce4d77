SPECIFICATION Spec
CONSTANTS
    one = one
    two = two
    three = three
    v1 = v1
    v2 = v2
    Paths = {one, two, three}
    Contents = {v1, v2}
    None = None
    Large = 2
    RepublishFails = FALSE
    MaxRequests = 3
    MaxFaults = 2
SYMMETRY MCSymmetry
CHECK_DEADLOCK FALSE
INVARIANTS TypeOK CompleteIsCurrent SavedNeverStale
PROPERTY PausePublishedClean
