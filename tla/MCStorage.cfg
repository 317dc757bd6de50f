SPECIFICATION StorageSpec
CONSTANTS
  t1 = t1  t2 = t2  b1 = b1  b2 = b2  s1 = s1  x1 = x1  x2 = x2  a1 = a1  a2 = a2
  Single = {t1, t2}
  BundleOf <- MCBundleOf
  Interop = {b1, b2}
  ChainOf <- MCChainOf
  MaxI32 = 3
  Transfers = {x1, x2}
  Pulls = {p1}
  Accounts = {a1, a2}
  MaxEnvelopes = 2
  MaxHash = 1
SYMMETRY MCSymmetry
INVARIANTS BackendsAgree PagesSliceHistory
CHECK_DEADLOCK FALSE
