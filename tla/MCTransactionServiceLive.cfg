SPECIFICATION Spec
CONSTANTS
  Tx = {t1, t2, i1}
  Internal = {i1}
  Unrecorded = {i1}
  Awaited = {t1, i1}
  A = A  NoEoa = NoEoa
  Eoa = {A}
  EoaOf <- MCEoaOf
  MaxQueuedPerEoa = 1
  Signers = {s1}
  NoSigner = NoSigner
  MaxPerSigner = 1
  MaxPending = 1
  MaxCrashes = 0
PROPERTIES ServiceProgresses
CHECK_DEADLOCK FALSE
