CONSTANTS
  Modes = {TRUE}
  IgnoreInterrupts = FALSE
  Stoppable = TRUE
  Background = TRUE
  Ends <- MCEnds
  SentSignals = {1, 2, 13, 15}
  MaxWrites = 2
  Capacity = 2
SPECIFICATION Spec
INVARIANTS
  TypeOK
  Drained
  Explained
  NothingForgotten
