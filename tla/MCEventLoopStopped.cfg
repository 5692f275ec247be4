CONSTANTS
  Modes = {FALSE}
  IgnoreInterrupts = FALSE
  Stoppable = TRUE
  Background = FALSE
  Ends <- MCEnds
  SentSignals = {}
  MaxWrites = 2
  Capacity = 2
SPECIFICATION Spec
INVARIANTS
  Transparent
