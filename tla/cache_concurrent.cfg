SPECIFICATION Spec
CONSTANTS
  None = None
  v1 = v1
  v2 = v2
  d1 = d1
  d2 = d2
  Pid = {p1, p2}
  Version = {v1}
  Digest = {d1, d2}
  Binary <- TwoDigests
  Inode = {i1, i2, i3, i4}
  Faults <- AllFaults
  Damageable = {"helper"}
SYMMETRY Symmetry
INVARIANTS TypeOK StagedTreeIsWhole NeverMixed
PROPERTIES InstallCleansUp CacheImplementsStore
