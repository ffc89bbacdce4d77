CONSTANTS
  f = f
  g = g
  w = w
  None = None
  Folders = {f, g}
  Windows = {w}
  Sweeps = {"reconcile", "bind"}
  Files = 2
  MaxRequests = 3
  MaxFaults = 2
SPECIFICATION FairSpec
INVARIANTS TypeOK NoSyncUnderCleanup OneRemovalHeals
PROPERTIES RemovalLeavesNothing OpenIsSynced RemovalEnds
CHECK_DEADLOCK FALSE
