CONSTANTS
  p = p
  q = q
  i1 = i1
  i2 = i2
  i3 = i3
  i4 = i4
  i5 = i5
  i6 = i6
  User = User
  NoInode = NoInode
  Imports = {p, q}
  Inodes = {i1, i2, i3, i4, i5, i6}
  Reuse = FALSE
  Overtaken = FALSE
  MaxEdits = 2
  MaxCrashes = 2
  MaxFaults = 1
SPECIFICATION Spec
SYMMETRY MCSymmetry
INVARIANTS TypeOK NoPartialLeft
PROPERTIES OthersKept PublishedKept
CHECK_DEADLOCK FALSE
