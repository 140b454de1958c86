SPECIFICATION FairSpec
CONSTANTS
  None = None
  v1 = v1
  v2 = v2
  d1 = d1
  d2 = d2
  Pid = {p1, p2}
  Version = {v1, v2}
  Digest = {d1}
  Binary <- TwoVersions
  Inode = {i1, i2, i3, i4, i5}
  Faults = {}
  Damageable = {"helper"}
INVARIANTS RaceHasAWinner OneVersionInstalled
PROPERTIES InstallTerminates InstallMakesProgress OnlyReplacedOrSwept
