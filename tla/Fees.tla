--------------------------------- MODULE Fees --------------------------------
(***************************************************************************)
(* The fees of one transaction: those of its first envelope, and those of  *)
(* each replacement as the base fee and the recommended tip move.  Amounts *)
(* are whole numbers and percentages round down, as in the code.           *)
(***************************************************************************)
EXTENDS Naturals, Sequences

CONSTANTS
  BaseFees,     \* base fees of the latest block
  Rewards,      \* priority fees estimated from the fee history
  MinimumFee,   \* FeeConfig.minimum_fee, 0 if there is none
  Ceilings,     \* max_fee_for_transaction: what the quote was priced with
  MaxSent       \* bound on the envelopes of the transaction

ASSUME AmountsAssumption ==
  MinimumFee \in Nat /\ MaxSent \in Nat /\ BaseFees \cup Rewards \cup Ceilings \subseteq Nat

VARIABLES
  market,    \* FeeContext: last_base_fee and recommended_priority_fee
  ceiling,   \* the most that the transaction may pay for gas
  sent,      \* fees of the envelopes sent, the best one last
  seen,      \* the base fee at which each of them was made
  gaveUp     \* "no", or the error that ended the transaction

feeVars == <<market, ceiling, sent, seen, gaveUp>>

MIN_GAS_PRICE_BUMP == 10
BASE_FEE_DELTA == 20
PRIORITY_FEE_THRESHOLD == 10

Raised(x, percent) == (x * (100 + percent)) \div 100
Larger(x, y) == IF x >= y THEN x ELSE y
Smaller(x, y) == IF x <= y THEN x ELSE y

\* get_fee_context with adjust_eip1559_estimation.
FeeContext(base, reward) == [base |-> base, tip |-> Larger(reward, MinimumFee)]

FeeInit ==
  /\ market \in {FeeContext(b, r) : b \in BaseFees, r \in Rewards}
  /\ ceiling \in Ceilings
  /\ sent = <<>> /\ seen = <<>> /\ gaveUp = "no"

Market(base, reward) ==
  /\ market' = FeeContext(base, reward) /\ market' # market
  /\ UNCHANGED <<ceiling, sent, seen, gaveUp>>

-----------------------------------------------------------------------------
FeesForNewTransaction(ctx, max) ==
  LET cap == Smaller(max, Raised(ctx.base, BASE_FEE_DELTA) + ctx.tip)
  IN  [max |-> cap, tip |-> Smaller(ctx.tip, cap)]

ShouldBumpBaseFee(ctx, tx) == tx.max < ctx.base
ShouldBumpPriorityFee(ctx, tx) == ctx.tip > Raised(tx.tip, PRIORITY_FEE_THRESHOLD)
ShouldBump(ctx, tx) == ShouldBumpBaseFee(ctx, tx) \/ ShouldBumpPriorityFee(ctx, tx)

\* Mutant of CantAffordReplacement: the bump that the network demands is forgotten.
CantAffordUnbumped(tx, max) == tx.max > max
CantAffordReplacement(tx, max) == Raised(tx.max, MIN_GAS_PRICE_BUMP) > max

\* The fees that prepare_replacement computes once it can afford them.
ReplacementFees(ctx, tx, max) ==
  LET increase == IF ShouldBumpPriorityFee(ctx, tx) THEN ctx.tip - tx.tip ELSE 0
      bestMax == (IF ShouldBumpBaseFee(ctx, tx) THEN Raised(ctx.base, BASE_FEE_DELTA) ELSE tx.max) + increase
      newMax == Smaller(Larger(bestMax, Raised(tx.max, MIN_GAS_PRICE_BUMP)), max)
  IN  [max |-> newMax, tip |-> Smaller(Larger(tx.tip + increase, Raised(tx.tip, MIN_GAS_PRICE_BUMP)), newMax)]

Best == sent[Len(sent)]

-----------------------------------------------------------------------------
SendNew ==
  /\ sent = <<>> /\ gaveUp = "no"
  /\ IF ceiling < market.base
     THEN gaveUp' = "base_fee" /\ UNCHANGED <<sent, seen>>
     ELSE /\ sent' = <<FeesForNewTransaction(market, ceiling)>> /\ seen' = <<market.base>>
          /\ UNCHANGED gaveUp
  /\ UNCHANGED <<market, ceiling>>

\* The watch window ended and prepare_replacement found fees.
Replace ==
  /\ sent # <<>> /\ Len(sent) < MaxSent /\ gaveUp = "no"
  /\ ShouldBump(market, Best) /\ ~CantAffordReplacement(Best, ceiling) /\ ceiling >= market.base
  /\ sent' = Append(sent, ReplacementFees(market, Best, ceiling))
  /\ seen' = Append(seen, market.base)
  /\ UNCHANGED <<market, ceiling, gaveUp>>

\* It failed: the base fee outgrew what the transaction may pay.  Without
\* fees for a higher tip alone, the transaction is sent again as it is.
GiveUp ==
  /\ sent # <<>> /\ gaveUp = "no" /\ ShouldBump(market, Best)
  /\ \/ CantAffordReplacement(Best, ceiling) /\ ShouldBumpBaseFee(market, Best) /\ gaveUp' = "replacement"
     \/ ~CantAffordReplacement(Best, ceiling) /\ ceiling < market.base /\ gaveUp' = "base_fee"
  /\ UNCHANGED <<market, ceiling, sent, seen>>

FeeNext == (\E b \in BaseFees, r \in Rewards : Market(b, r)) \/ SendNew \/ Replace \/ GiveUp

FeeSpec == FeeInit /\ [][FeeNext]_feeVars

-----------------------------------------------------------------------------
\* The pool's rule, as in the clients that fees.rs refers to: both fees rise, and by
\* ten percent at least.
Accepts(old, new) ==
  /\ new.max > old.max /\ new.max >= Raised(old.max, MIN_GAS_PRICE_BUMP)
  /\ new.tip > old.tip /\ new.tip >= Raised(old.tip, MIN_GAS_PRICE_BUMP)

\* However the market moves, an envelope pays the base fee at which it was made, its
\* tip is within its maximum and that within what the quote allows; and the pool accepts
\* every replacement of an envelope with a tip of at least ten wei (ten percent of
\* less rounds down to no increase).
FeesReplaceable ==
  /\ \A i \in DOMAIN sent : seen[i] <= sent[i].max /\ sent[i].tip <= sent[i].max /\ sent[i].max <= ceiling
  /\ \A i \in DOMAIN sent \ {1} : sent[i - 1].tip >= 10 => Accepts(sent[i - 1], sent[i])

(***************************************************************************)
(* The inductive invariant behind the theorem about it in RelayProofs      *)
(***************************************************************************)

FeeTypeOK ==
  /\ market \in [base : Nat, tip : Nat] /\ ceiling \in Nat
  /\ sent \in Seq([max : Nat, tip : Nat]) /\ seen \in Seq(Nat) /\ Len(seen) = Len(sent)

FeeIInv == FeeTypeOK /\ FeesReplaceable
==============================================================================
