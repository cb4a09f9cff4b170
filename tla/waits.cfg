CONSTANTS
  Threads = {a, b, c}
  NoThread = none
  MaxCalls = 0
  Initial = 0
  IntMax = 8
  SemCalls = 4
  Takers = {a}
  Timed = {b}
  Givers = {d, e}
SPECIFICATION WaitsSpec
INVARIANTS Conservation UnitsAttended ReturnsLocked
PROPERTIES NothingMissed TimedWaitsReturn
CHECK_DEADLOCK FALSE
