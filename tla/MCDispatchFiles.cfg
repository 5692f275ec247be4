CONSTANTS
  Modes = {FALSE}
  Chunk = 1
  Files <- TwoFiles
  Filter <- MCFilter
  Appending = {"combined"}
  StartNonblocking = {"STDOUT", "STDERR"}
  ExitCodes = {0, 42}
  DeathSignals = {2}
  SentSignals = {15}
  MaxUnits = 2
  MaxLength = 2
SPECIFICATION Spec
INVARIANTS
  NoSilentLoss
  FilesIndependent
  StreamsBlocking
