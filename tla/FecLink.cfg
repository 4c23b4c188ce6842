SPECIFICATION LinkSpec
CONSTANTS
  Half = 5
  Window = 2
  LargeJump = 2
  Confirm = 2
  Reacquire = 4
  K = 2
  Esi = {0, 1, 2}
  Source <- Sources
  R = 1
  MaxRestarts = 1
  MaxCorrupt = 1
  MaxOutage = 3
INVARIANTS TypeOK AnyKSuffice HealsInTime
 
