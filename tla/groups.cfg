CONSTANTS
  Threads = {a, b, c}
  NoThread = none
  MaxCalls = 3
  Count = 3
  Controls = {c1, c2}
  NoControl = nocontrol
  KeyUsers = {a, b}
  Single = a
  KEY_MAX = 2
  Values = {x}
  Null = null
  MaxCreate = 3
SPECIFICATION GroupsSpec
INVARIANTS WaitingExact OnceExact KeysExact
PROPERTIES ImplementsBarrier GroupsReturn
CHECK_DEADLOCK FALSE
