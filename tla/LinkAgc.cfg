SPECIFICATION Spec
CONSTANTS
  GainMin = 10
  GainMax = 34
  WinLow = 40
  WinHigh = 54
  ClipLevel = 58
  FullScale = 68
  AttackStep = 6
  MaxDown = 3
  UpStep = 1
  UpHold = 3
  Signals = {10, 36, 60}
  Settings = {0, 22, 40}
  Lag = 1
  MaxMoves = 1
  MaxFaults = 1
INVARIANT TypeOK
PROPERTIES NoEcho Converges
