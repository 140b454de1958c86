SPECIFICATION Spec
CONSTANTS
  None = None
  v1 = v1
  v2 = v2
  d1 = d1
  d2 = d2
  Pid = {p1, p2}
  Version = {v1}
  Digest = {d1}
  Binary <- OneBinary
  Inode = {i1, i2, i3, i4}
  Faults = {}
  Damageable = {}
SYMMETRY Symmetry
PROPERTIES LiveVmKeepsItsTree
