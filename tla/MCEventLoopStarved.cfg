CONSTANTS
  Modes = {FALSE}
  IgnoreInterrupts = FALSE
  Stoppable = FALSE
  Background = TRUE
  Ends <- MCEnds
  SentSignals = {}
  MaxWrites = 1
  Capacity = 1
SPECIFICATION FairSpec
PROPERTIES
  Finishes
