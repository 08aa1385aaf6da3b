SPECIFICATION FairSpec
CONSTANTS
  MaxCnt = 4
  MaxLines = 5
  Kinds <- AnyLine
  JoinOutcomes <- JoinEither
  Entries <- ThePutCommands
INVARIANTS FirstCommandsInOrder
PROPERTIES NoNullCommand QuietServerReturns
CHECK_DEADLOCK FALSE
