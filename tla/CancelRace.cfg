SPECIFICATION Spec
CONSTANTS
  Format = "pdf"
  SemanticEnabled = FALSE
  KeptStamps = FALSE
  MaxVersion = 1
  MaxRequests = 2
  MaxCrashes = 0
PROPERTY CancelStops
