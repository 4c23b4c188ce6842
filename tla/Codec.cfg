\* A run ends with its frame.
CHECK_DEADLOCK FALSE
SPECIFICATION Spec
CONSTANTS
    Frames <- EveryRate
    Burst <- SomeNoise
INVARIANTS TypeOK HeaderHeard PayloadHeard OneLevelOneBit
