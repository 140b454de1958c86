SPECIFICATION Spec
CONSTANTS
  None = None
  Build = {b1, b2}
  Library = {b2}
  Outs <- OwnOrShared
  WithDns = {b1, b2}
  Faults = {"host", "guest", "kill"}
INVARIANTS ContextOutlivesVm BadRootfsLeavesContext RefusedMeansNoVm OkMeansWholeTarball ResolvesThroughItsOwn RootfsStaysClean
PROPERTIES BuildsEnd BuildImplementsRunner
