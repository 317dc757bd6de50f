----------------------- MODULE MCTransactionService -----------------------
(* The transaction service on a few transactions: those of Sent belong to one EOA,
   the others are internal. *)
EXTENDS TransactionService, TLC

CONSTANTS A, Internal

MCEoaOf == [t \in Tx |-> IF t \in Internal THEN NoEoa ELSE A]
SignerSymmetry == Permutations(Signers)
===========================================================================
