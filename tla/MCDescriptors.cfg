CONSTANTS
  CronMode = TRUE
  OutputFiles = {"file1", "file2"}
  MaxFd = 11
SPECIFICATION Spec
INVARIANTS
  TypeOK
  OutputsAreNotReused
  CommandWritesToSockets
  NothingLeaks
  TemporaryRemoved
