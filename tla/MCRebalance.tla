----------------------------- MODULE MCRebalance -----------------------------
EXTENDS Rebalance, TLC

\* Two chains with different decimals; Binance carries money to chain 2 only.
MCUnit == <<2, 1>>
MCFunds == <<8, 1>>
MCNetworks ==
  <<[deposit |-> TRUE, withdraw |-> FALSE, step |-> 0, min |-> 0],
    [deposit |-> TRUE, withdraw |-> TRUE, step |-> 1, min |-> 2]>>
Symmetry == Permutations(Transfers)
==============================================================================
