SPECIFICATION Spec
CONSTANTS
  MaxNonce = 3
  MaxBatch = 2
  MaxForeign = 1
  MaxRestarts = 1
INVARIANTS AnsweredMeansDelivered
PROPERTIES PathProgresses
CHECK_DEADLOCK FALSE
