SPECIFICATION FairSpec
CONSTANTS
  gas = gas  usd = usd  bundle = bundle  pull = pull
  Assets = {gas, usd}
  Holders = {bundle, pull}
  PullsOfGas = {pull}
  Need <- MCNeed
  Supply <- MCSupply
  MaxNeed = 2
  PruneMargin = 1
  Staleness = 1
  MaxBlock = 4
  MaxRestarts = 1
INVARIANTS LocksCovered
PROPERTIES PruneChangesNoDecision LocksDrain
CHECK_DEADLOCK FALSE
