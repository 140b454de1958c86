SPECIFICATION Spec
CONSTANTS
  None = None
  CommandLines <- AllCommandLines
  Faults = {"temp", "spawn", "build"}
INVARIANTS OnlyTheOutputNameIsLate FromIsOneInstruction CopyFindsItsFile ExitZeroMeansBuilt DefaultIsInCurrentDirectory
