CONSTANTS
  BufLen = 4
  StreamLen = 6
  HeaderLen = 2
  DataLen = 2
  ImageCnt = 5
  ObjectMin = 2
  EmptyMin = 1
  StreamCnt = 3
  BlockCnt = 2
  Disorder = 4
  PacketSizes = {0, 20, 1000, 5000}
  Watchdogs = 1
  MaxValue = 255
  Size = 32
  Align = 256
  EditCnt = 3
  TimerConst = 3
  NoticeCnt = 3
  OddReads = 1
  ImageBorder = 10
  Window = 6
  CommandCnt = 3
  AnswerCnt = 1
  PeerCnt = 2
  PieceCnt = 2
  PictureCnt = 2
  TakeCnt = 4
  BufferCnt = 2
  FrameCnt = 4
  BeatCnt = 2
  RoomCnt = 2
  TreeCnt = 5
  NetWidth = 25
  NetHeight = 4
  SettingsCnt = 5
  SaveCnt = 2
  SegmentCnt = 2
  ChildCnt = 2
  ChunkCnt = 2
  SourceSlots = {0, 2}
SPECIFICATION Spec
INVARIANTS LinesServed ImagesInOrder FramesKeepApart AnswersInStep DeviceReachable PlanesShowAngles PlanesOfOwnAngle FilesGiveChains ObjectsReported SavedIsLoaded
CHECK_DEADLOCK FALSE
