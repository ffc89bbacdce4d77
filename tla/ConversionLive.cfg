SPECIFICATION FairSpec
CONSTANTS
  Format = "pdf"
  SemanticEnabled = FALSE
  KeptStamps = TRUE
  MaxVersion = 3
  MaxRequests = 2
  MaxCrashes = 1
INVARIANT GateHolds
PROPERTIES EventuallyPrepared UsesPromise
