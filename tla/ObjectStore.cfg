SPECIFICATION Spec
CONSTANTS
  LastStage = 4
  DataCnt = 3
  SourceCnt = 1
  Limit = 2
  \* room for two objects less than can be alive, and for just all of them:
  \* 2 and DataCnt + 1 times FullUnits, which is 4 here
  Capacities = {8, 16}
  PointerUsers = {2}
  MaxObjects = 7
INVARIANTS NamedObjectsExist NoObjectLeft EnoughForAll
CHECK_DEADLOCK FALSE
