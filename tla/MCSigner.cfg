SPECIFICATION SafetySpec
CONSTANTS
  Tx = {t1, t2}
  Gap = Gap  External = External  Pull = Pull
  Silent = {"send", "resume"}
  PullGas = TRUE
  MaxBump = 1
  MaxExternal = 0
  MaxCrashes = 1
INVARIANTS NoncesSafe LandsOnce
PROPERTIES ReportsHold
SYMMETRY TxSymmetry
CHECK_DEADLOCK FALSE
