SPECIFICATION ProcessSpec
CONSTANTS
  Parts = {"env", "exit", "two", "one", "aio", "launch", "load", "calls"}
  SetNames = {x, y}
  PutNames = {z}
  Values = {1, 2}
  Unset = Unset
  CopyFails = {FALSE}
  PutOver = {FALSE}
  MaxEnvOps = 4
  Callers = {a, b}
  Nested = FALSE
  Solo = {a}
  Kinds = {"spawn", "system", "read", "write"}
  MaxChildren = 2
  Handlers = {f, g}
  ATEXIT_MAX = 3
  Clients = {p, q}
  Cbs = {c, d, e}
  AioFds = {c, d, e}
  Fd <- FdOf
  Uses <- OwnBlocks
  Watches <- OwnBlocks
  p = p
  q = q
  c = c
  d = d
  e = e
  MaxTasks = 3
  Actions <- SmallActions
  SearchPaths <- SmallSearch
  MaxFileActions = 2
  Files = {"f", "g"}
  Objects <- SmallObjects
  Places = {8, 16}
  MaxHandles = 3
  MaxFd = 4
  MaxResCalls = 3
  Idents = {"", "prog"}
  MaxItems = 2
  Members = {0, 4}
  ListCap = 1
  MaxCap = 2
  Ranges <- SmallRanges
INVARIANTS   TasksExact LaunchExact LoaderExact ResourcesExact
PROPERTIES  SpawnReturns RequestsFinish
CHECK_DEADLOCK FALSE
