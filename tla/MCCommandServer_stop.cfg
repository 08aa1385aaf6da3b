SPECIFICATION FairSpec
CONSTANTS
  MaxCnt = 4
  MaxLines = 2
  Kinds <- StopAndRun
  JoinOutcomes <- JoinEither
  Entries <- ThePutCommands
PROPERTIES StopEndsServer
CHECK_DEADLOCK FALSE
