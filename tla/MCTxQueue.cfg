SPECIFICATION FairSpec
CONSTANTS
  a1 = a1  a2 = a2  a3 = a3  a4 = a4  b1 = b1  i1 = i1
  A = A  B = B  NoEoa = NoEoa
  Tx <- MCTx
  Eoa = {A, B}
  EoaOf <- MCEoaOf
  MaxQueuedPerEoa = 2
INVARIANTS StructInvariants PerEoaFifo
PROPERTIES AcceptedIsSent
CHECK_DEADLOCK FALSE
