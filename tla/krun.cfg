SPECIFICATION Spec
CONSTANTS
  None = None
  Caller = caller
  Thread = {t1, t2, t3, t4}
  Code = {0, 1, 118, 119, 125}
  Faults = {"args", "count", "fork", "wait", "krun"}
INVARIANTS NoInheritedLock ReportsTheWorkload
PROPERTIES RunReturns RunImplementsRunner
