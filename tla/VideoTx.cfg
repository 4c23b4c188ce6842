SPECIFICATION Spec
CONSTANTS
  Depth = 2
  K = 3
  MaxChunks = 2
  Sizes = {2, 3}
  MaxFrames = 4
INVARIANTS TypeOK StreamIsWhole OrderKept KeyframeOnItsWay
 
\* The program ends.
CHECK_DEADLOCK FALSE
