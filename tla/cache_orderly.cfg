SPECIFICATION OrderlySpec
CONSTANTS
  None = None
  v1 = v1
  v2 = v2
  d1 = d1
  d2 = d2
  Pid = {p1, p2, p3}
  Version = {v1}
  Digest = {d1}
  Binary <- WithAndWithout
  Inode = {i1, i2, i3, i4}
  Faults <- AllFaults
  Damageable = {"helper"}
SYMMETRY Symmetry
PROPERTIES BootsOnlyWholeTrees LiveVmKeepsItsTree
