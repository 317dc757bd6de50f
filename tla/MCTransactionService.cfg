SPECIFICATION SafetySpec
CONSTANTS
  Tx = {t1, t2, t3}
  Internal = {}
  Unrecorded = {}
  Awaited = {t1}
  A = A  NoEoa = NoEoa
  Eoa = {A}
  EoaOf <- MCEoaOf
  MaxQueuedPerEoa = 1
  Signers = {s1}
  NoSigner = NoSigner
  MaxPerSigner = 2
  MaxPending = 2
  MaxCrashes = 1
INVARIANTS OneTaskPerEoa RestartsResume WaiterInformed
PROPERTIES FinalStatusStays
CHECK_DEADLOCK FALSE
