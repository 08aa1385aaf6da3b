SPECIFICATION FairSpec
CONSTANTS
  LastStage = 2
  DataCnt = 2
  Statuses <- AllStatuses
  ClientsCrash = TRUE
INVARIANTS TypeOK MailboxTurn ClientTurn SingleOwner VisitsAllSteps StopDrains NoChunkLost
PROPERTIES NothingAfterStop ImplementsFlow ExitEndsAllThreads EveryFrameReturns
CHECK_DEADLOCK FALSE
