CONSTANTS
  Modes = {TRUE, FALSE}
  IgnoreInterrupts = TRUE
  Stoppable = FALSE
  Background = TRUE
  Ends <- MCEnds
  SentSignals = {2, 15, 13}
  MaxWrites = 2
  Capacity = 2
SPECIFICATION FiniteBackgroundSpec
INVARIANTS
  Transparent
PROPERTIES
  Finishes
  WritesProceed
  SignalsHonoured
  ReportNotCut
