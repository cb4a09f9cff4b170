CONSTANTS
  Threads = {a, b, c}
  NoThread = none
  MaxCalls = 3
  MaxDepth = 2
  Readers = {a, b}
  Writers = {b, c}
SPECIFICATION LocksSpec
INVARIANTS OwnerAccurate SleeperHasRescuer Exclusion
PROPERTIES ImplementsLock SpinImplementsLock LocksReturn
CHECK_DEADLOCK FALSE
