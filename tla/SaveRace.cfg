\* The file operations of two requests may alternate.
SPECIFICATION Spec
CONSTANTS
    Agents = {x}
    x = x
    None = None
    MaxEdits = 3
    MaxFaults = 0
    Overtaken = TRUE
    Late = FALSE
    TypesAhead = FALSE
CHECK_DEADLOCK FALSE
PROPERTY StaleSaveRejected
