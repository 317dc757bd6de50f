SPECIFICATION RebalanceSpec
CONSTANTS
  Chains = {1, 2}
  Transfers = {t1, t2}
  t1 = t1  t2 = t2
  Unit <- MCUnit
  SCALE_FACTOR = 2
  Coins = 2
  Funds <- MCFunds
  Networks <- MCNetworks
  MaxSpends = 1
  MaxRestarts = 1
INVARIANTS SourceKeepsThreshold MovedOnce
SYMMETRY Symmetry
