CONSTANTS
  Modes = {TRUE, FALSE}
  IgnoreInterrupts = TRUE
  InitiallyIgnored = {1}
  InitiallyBlocked = {2}
  SentSignals = {1, 2, 13, 15}
SPECIFICATION FairSpec
INVARIANTS
  TypeOK
  NothingSwallowed
  NothingMissed
  CleanCommand
  ExecutedOnce
  NotAfterError
PROPERTIES
  CronExecutes
