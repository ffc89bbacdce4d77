SPECIFICATION Spec
CONSTANTS
  Format = "docx"
  SemanticEnabled = TRUE
  KeptStamps = FALSE
  MaxVersion = 3
  MaxRequests = 3
  MaxCrashes = 0
INVARIANTS TypeOK ServedTextCurrent IndexedTextCurrent
