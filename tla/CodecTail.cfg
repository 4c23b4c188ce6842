\* A run ends with its frame.
CHECK_DEADLOCK FALSE
SPECIFICATION Spec
CONSTANTS
    Frames <- ShortTail
    Burst <- NoNoise
INVARIANT CrcHeard
