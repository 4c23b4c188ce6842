SPECIFICATION SpreadSpec
CONSTANTS
  Half = 8
  Window = 2
  LargeJump = 5
  Confirm = 2
  Reacquire = 2
  K = 2
  R = 1
  Esi = {0, 1, 2}
  Data = x
  Source = {x}
  Depth = 2
  MaxFade = 3
  MaxWild = 2
INVARIANTS DecoderTypeOK WindowBound FadeMended
PROPERTY NeverBack
