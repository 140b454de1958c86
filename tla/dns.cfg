SPECIFICATION Spec
CONSTANTS
  Junk = Junk
  Unreadable = Unreadable
  Inputs <- AllInputs
INVARIANTS HostServersAreUsed GuestCanResolve
