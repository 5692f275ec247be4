CONSTANTS
  Modes = {TRUE}
  Chunk = 1
  Files <- OneFile
  Filter <- MCFilter
  Appending = {"combined"}
  StartNonblocking = {"STDOUT"}
  ExitCodes = {0, 42}
  DeathSignals = {2}
  SentSignals = {15}
  MaxUnits = 1
  MaxLength = 2
SPECIFICATION Spec
INVARIANTS
  StreamsBlocking
