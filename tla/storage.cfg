SPECIFICATION StorageSpec
CONSTANTS
  Threads = {a, b}
  Sizes = {1, 2, 3}
  Extra = 1
  Magic = 99
  Resizable = {"plain"}
  MaxBlocks = 3
  MaxOps = 4
  Bytes = {1, 2, 9}
  NL = 9
  Contents <- SmallContents
  Streams <- AllStreams
  Requests <- SmallRequests
  Counts = {0, 1, 2, 3}
  Offsets <- SmallOffsets
  BufSizes = {1, 2}
  MemSize = 2
  Rewound = {"fd", "cookie"}
  Faults = TRUE
  MaxLen = 4
  MaxCalls = 4
  Patterns <- SmallPatterns
  Matched <- SmallMatched
  Segments <- SmallSegments
  CommandLines <- SmallLines
  ScarceLines <- SmallScarce
  Homes <- SmallHomes
  WordCap = 2
  Tree <- SmallTree
  Dirs <- SmallDirs
  Paths <- SmallPaths
  Cwds <- SmallCwds
  Trees <- SmallTrees
  News <- SmallNews
  MaxChanges = 2
  Callers = {"c1", "c2"}
  Names = {"n1", "n2", "n3"}
  MaxTries = 2
  MaxTempCalls = 3
  MaxOthers = 1
  PasswdFiles <- SmallPasswd
  GroupFiles <- SmallGroup
  FileLines = 3
  LineMembers = 2
  StackGroups = 2
  Rooms = {1, 2}
  MaxEntCalls = 4
  MaxEdits = 1
  NWords = 4
  Decimal <- SmallDecimal
  Hex <- SmallHex
  AddressTexts <- SmallAddressTexts
  AddressWords = {0, 1, 65535}
  HostFiles <- SmallHostFiles
  Nodes <- SmallNodes
  Hosts4 <- SmallHosts4
  Hosts6 <- SmallHosts6
  Services = {65537}
  HostRooms = {29, 64}
  MaxHostCalls = 2
  MaxHostEdits = 1
INVARIANTS NoSharing  ContentsExact PositionExact  StreamExact  
SYMMETRY ThreadSymmetry
CHECK_DEADLOCK FALSE
