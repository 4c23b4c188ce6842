SPECIFICATION Spec
CONSTANTS
  N = 6
  MaxCalls = 8
INVARIANTS TypeOK NoRace ConsumedOnce
PROPERTY DelaySpec
\* The user may stop calling process_samples.
CHECK_DEADLOCK FALSE
