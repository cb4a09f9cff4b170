CONSTANTS
  Threads = {a, b}
  NoThread = none
  MaxCalls = 1
  Readers = {a}
  Writers = {b}
SPECIFICATION FairSpec
PROPERTIES WriterEnters
CHECK_DEADLOCK FALSE
