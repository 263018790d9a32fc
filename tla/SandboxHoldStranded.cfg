CONSTANTS
  Lifetime = 2
  Grace = 4
  LastCreate = 1
  MaxClock = 6
  MaxCreates = 1
  MaxCalls = 1
  MaxSandboxFaults = 0
SPECIFICATION SandboxSpec
PROPERTY HoldsAreClosed
CHECK_DEADLOCK FALSE
