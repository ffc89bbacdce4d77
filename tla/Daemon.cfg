CONSTANTS
  c1 = c1
  c2 = c2
  f1 = f1
  f2 = f2
  Clients = {c1, c2}
  Folders = {f1, f2}
  MaxFaults = 1
  Resets = TRUE
SPECIFICATION FairSpec
INVARIANTS TypeOK OneStore ConfiguredBarrier
PROPERTY CallsSettle
