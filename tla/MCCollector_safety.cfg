SPECIFICATION FairSpec
CONSTANTS
  Descriptions <- OneOrMixed
  Limit = 3
  MaxFrames = 7
  MaxJobs = 6
INVARIANTS FullObjects FramesInOrder
PROPERTIES StopEndsCollector
CHECK_DEADLOCK FALSE
