CONSTANTS
  Files = {"out"}
  Filter <- MCFilter
  Appending = {"out"}
  Chunk = 1
  StartNonblocking = {"STDERR"}
  ExitCodes = {0, 42}
  DeathSignals = {2}
  SentSignals = {15}
  MaxUnits = 2
  MaxLength = 1
  Modes = {TRUE, FALSE}
  IgnoreInterrupts = FALSE
  Stoppable = TRUE
  MaxWrites = 2
  Capacity = 2
SPECIFICATION Spec
INVARIANTS
  NothingUnseen
  Unobtrusive
PROPERTIES
  TeeSpec
