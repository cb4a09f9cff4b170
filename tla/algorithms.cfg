SPECIFICATION AlgorithmsSpec
CONSTANTS
  Parts = {"sort", "regex", "getopt", "tree", "hash", "number", "format", "string", "charset", "vis", "calendar"}
  SortKeys = {1, 2, 3}
  Lengths = {0, 1, 2, 3, 4}
  Patterns <- SmallPatterns
  Texts <- SmallTexts
  Junk = {"a", "none"}
  Flags = {"a"}
  Taking = {"b"}
  Others = {"x"}
  LongFlags = {"flag"}
  LongTaking = {"value"}
  LongOptional = {"maybe"}
  OtherNames = {"other"}
  Apis = {"getopt", "getopt_long", "getopt_long_only"}
  Clustering = {"getopt"}
  MaxArgs = 3
  Keys = {1, 2, 3, 4, 5}
  MaxNodes = 6
  MaxCalls = 6
  HashKeys = {"x", "y", "z"}
  Data = {1, 2}
  Hashes = {0, 1}
  Sizes = {1, 2}
  MaxHashOps = 5
  Width = 5
  IntWidth = 4
  StackSize = 3
  NumberTexts <- SmallNumbers
  Bases = {0, 1, 8, 10, 16}
  CharWidth = 2
  ShortWidth = 3
  BufSize = 9
  LineSize = 4
  WideSize = 5
  Stale <- SmallStale
  FormatJobs <- SmallJobs
  Bytes = {0, 44, 200}
  Memories <- SmallMemories
  Charsets = {"ASCII", "UTF-8", "LATIN1", "UTF-16", "KOI8-R"}
  CodePoints = {65, 127, 128, 255, 2047, 2048, 55296, 65535}
  MaxText = 3
  MaxRoom = 4
  NoText <- SmallNoText
  VisFlags <- SmallVisFlags
  VisBytes = {0, 10, 32, 48, 92, 110, 255}
  VisLength = 3
  Starts <- SmallStarts
  DaySteps = {1, 29}
  MaxTicks = 10
  Zones <- SmallZones
  Formats <- SmallFormats
  Rooms = {6, 26}
  Inputs <- SmallInputs
INVARIANTS SortExact RegexExact OptionsExact TablesExact   TimesExact
CHECK_DEADLOCK FALSE
