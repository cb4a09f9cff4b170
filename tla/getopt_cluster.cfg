SPECIFICATION Spec
CONSTANTS
  Flags = {"a"}
  Taking = {"b"}
  Others = {"x"}
  LongFlags = {"flag"}
  LongTaking = {"value"}
  LongOptional = {"maybe"}
  OtherNames = {"other"}
  Apis = {"getopt_long"}
  Clustering = {"getopt_long"}
  MaxArgs = 1
INVARIANTS OptionsExact
CHECK_DEADLOCK FALSE
