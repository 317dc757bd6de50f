SPECIFICATION FairSpec
CONSTANTS
  s1 = s1  s2 = s2
  Src = {s1, s2}
  MaxTasks = 3
  MaxRestarts = 1
INVARIANTS PayoutSafe OutcomeTrue
PROPERTIES BundleEnds
CHECK_DEADLOCK FALSE
