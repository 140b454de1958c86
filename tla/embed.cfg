SPECIFICATION Spec
CONSTANTS
  None = None
  Cut = Cut
  Path = {p1, p2}
  Tree = {t1}
  Faults = {"read", "zstd", "write", "kill"}
INVARIANTS DigestIsOfTheArchive EmbeddedArchiveDecodes BuildIsUpToDate
