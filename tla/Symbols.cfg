SPECIFICATION Spec
CONSTANTS
  Cp = 1
  Sym = 2
  Period = 2
  Sizes = {1, 2, 3}
  Full = 2
  MaxFrames = 3
INVARIANTS TypeOK WholeFrameDelivered NothingOlderThanHeader
