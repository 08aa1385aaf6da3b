\* stop may wait for ever, so the system may stop anywhere
CONSTANTS
  CameraCnt = 3
  WarmUps = 2
  MaxBeats = 2
  MaxPresses = 3
SPECIFICATION Spec
INVARIANTS BeatsComplete OneCameraWarms FramesOnRequest
CHECK_DEADLOCK FALSE
