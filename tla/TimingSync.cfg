SPECIFICATION Spec
CONSTANTS
  Lts = 4
  Cp = 3
  Carry = 11
  Back = 1
  Lags = {1, 2}
  Batches = {12, 17}
  Gap = 24
  Reset = 16
  Fractions = {0, 10}
  Limit = 0
  Heavy = 10
INVARIANTS TypeOK TagsFollowStream EstimateNotOutlived NotLearntFromClipped
