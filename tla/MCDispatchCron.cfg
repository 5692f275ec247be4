CONSTANTS
  Modes = {TRUE}
  Chunk = 1
  Files <- OneFile
  Filter <- MCFilter
  Appending = {"combined"}
  StartNonblocking = {}
  ExitCodes = {0, 42}
  DeathSignals = {2}
  SentSignals = {15}
  MaxUnits = 3
  MaxLength = 2
SPECIFICATION Spec
INVARIANTS
  TypeOK
  ShownInOrder
  NoSilentLoss
  QuietOnSuccess
  RevealedOnFailure
  ReportAgrees
