SPECIFICATION FairSpec
CONSTANTS
  Descriptions <- OneTcp
  Limit = 2
  MaxFrames = 3
  MaxJobs = 3
PROPERTIES StopEndsSources
CHECK_DEADLOCK FALSE
