\* Liveness: two sources compete for one slot, explicit and background requests.
CONSTANTS
    a = a
    b = b
    c = c
    open = open
    closed = closed
    Keys = {a, c}
    Folders = {open}
    FolderOf <- MCOneFolder
    LaneOf <- MCHeavy
    LaneCapacity <- MCSingle
    ClassifierCapacity = 1
    Classified = {a}
    Requested = {"interactive", "active-folder", "background"}
    Costs = {0}
SPECIFICATION FairSpec
PROPERTIES CancelSettles BackgroundNotStarved
