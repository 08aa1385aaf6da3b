SPECIFICATION Spec
CONSTANTS
  MaxCnt = 3
  MaxLines = 4
  Kinds <- NoConfig
  JoinOutcomes <- JoinReturns
  Entries <- ThePutCommands
INVARIANTS PushStaysInRing
CHECK_DEADLOCK FALSE
