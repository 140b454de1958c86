SPECIFICATION Spec
CONSTANTS
  Leader = leader
  Kid = {k1, k2}
  Faults = {"deny", "intr", "wait"}
INVARIANT OnlyItsOwnGroup
