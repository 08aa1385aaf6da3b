SPECIFICATION FairStartSpec
CONSTANTS
  LastStage = 3
  DataCnt = 1
  Statuses <- AnsweringStatuses
  ClientsCrash = FALSE
  Lists <- AllOrders
  EarlierSlots <- FirstOrLater
INVARIANTS DestroyedUnused
PROPERTIES StartsPipeline FailedStartEnds
CHECK_DEADLOCK FALSE
