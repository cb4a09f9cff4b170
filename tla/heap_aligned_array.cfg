CONSTANTS
  Threads = {a}
  Sizes = {1, 2}
  Extra = 1
  Magic = 99
  Resizable = {"plain", "aligned"}
  MaxBlocks = 3
  MaxOps = 4
SPECIFICATION Spec
INVARIANTS RecallocZeroes
CHECK_DEADLOCK FALSE
