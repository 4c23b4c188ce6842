SPECIFICATION Spec
CONSTANTS
  Margin = 2
  Sizes = {1, 2}
  MaxFrames = 9
INVARIANTS TypeOK   SmoothAfterLoss
\* The transmitter may stop sending.
CHECK_DEADLOCK FALSE
