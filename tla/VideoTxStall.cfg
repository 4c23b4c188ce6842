SPECIFICATION Spec
CONSTANTS
  Depth = 2
  K = 3
  MaxChunks = 2
  Sizes = {1, 2}
  MaxFrames = 2
PROPERTY StalledStreamDrains
CHECK_DEADLOCK FALSE
