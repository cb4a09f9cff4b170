SPECIFICATION EnvSpec
CONSTANTS
  SetNames = {x, y}
  PutNames = {z}
  Values = {1, 2}
  Unset = Unset
  CopyFails = {}
  PutOver = {TRUE, FALSE}
  MaxEnvOps = 4
INVARIANT ClientStringsKept
CHECK_DEADLOCK FALSE
