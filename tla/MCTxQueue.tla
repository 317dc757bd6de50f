------------------------------ MODULE MCTxQueue ------------------------------
(* TxQueue on two EOAs and one internal transaction. *)
EXTENDS TxQueue

CONSTANTS a1, a2, a3, a4, b1, i1, A, B

MCTx == {a1, a2, a3, a4, b1, i1}
MCEoaOf == [t \in MCTx |->
  IF t \in {a1, a2, a3, a4} THEN A ELSE IF t = b1 THEN B ELSE NoEoa]
==============================================================================
