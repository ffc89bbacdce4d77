\* Three sources of one folder on two light slots, every one with a classifier of two costs.
CONSTANTS
    a = a
    b = b
    c = c
    open = open
    closed = closed
    Keys = {a, b, c}
    Folders = {open}
    FolderOf <- MCOneFolder
    LaneOf <- MCLight
    LaneCapacity <- MCDefault
    ClassifierCapacity = 1
    Classified = {a, b, c}
    Requested = {"background"}
    Costs = {0, 1}
SPECIFICATION Spec
SYMMETRY MCSymmetry
INVARIANTS TypeOK LaneAccounting NoLostDrain ClassifierAccounting
PROPERTY KeepsPromise
