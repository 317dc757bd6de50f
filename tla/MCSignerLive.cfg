SPECIFICATION Spec
CONSTANTS
  Tx = {t1, t2}
  Gap = Gap  External = External  Pull = Pull
  Silent = {"send"}
  PullGas = FALSE
  MaxBump = 0
  MaxExternal = 1
  MaxCrashes = 1
PROPERTIES SignerProgresses
CHECK_DEADLOCK FALSE
