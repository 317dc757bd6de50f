--------------------------- MODULE LayerZeroProofs ---------------------------
(***************************************************************************)
(* Delivery on a LayerZero path, for any number of messages, batch size,   *)
(* restarts and messages delivered by others: a settlement that the pool   *)
(* answered is settled on the destination chain.                           *)
(***************************************************************************)
EXTENDS LayerZero, FiniteSetTheorems, TLAPS

(***************************************************************************)
(* Runs of nonces                                                          *)
(***************************************************************************)

\* The number of nonces in an interval.
LEMMA IntervalSize ==
  ASSUME NEW a \in Int, NEW b \in Int
  PROVE  /\ IsFiniteSet(a..b)
         /\ Cardinality(a..b) = IF a > b THEN 0 ELSE b - a + 1
  BY FS_Interval

\* A set of numbers that begins at 0, has no gap and is bounded has a last member.
LEMMA LastOfRun ==
  ASSUME NEW N \in Nat, NEW S \in SUBSET (0..N), 0 \in S,
         \A k \in S : 0..k \subseteq S
  PROVE  \E k \in S : \A j \in S : j <= k
<1> DEFINE c == Cardinality(S)
<1>1. IsFiniteSet(0..N)
  BY IntervalSize
<1>2. IsFiniteSet(S) /\ c \in Nat
  BY <1>1, FS_Subset, FS_CardinalityType, Zenon
<1>3. \A k \in S : k + 1 <= c
  <2> TAKE k \in S
  <2>1. k \in Nat
    OBVIOUS
  <2>2. Cardinality(0..k) = k + 1
    <3>1. Cardinality(0..k) = IF 0 > k THEN 0 ELSE k - 0 + 1
      BY <2>1, IntervalSize
    <3> QED
      BY <2>1, <3>1
  <2>3. 0..k \in SUBSET S
    OBVIOUS
  <2>4. Cardinality(0..k) <= c
    BY <1>2, <2>3, FS_Subset, Zenon
  <2> QED
    BY <2>2, <2>4
<1>4. c - 1 \in S
  <2> SUFFICES ASSUME c - 1 \notin S PROVE FALSE
    OBVIOUS
  <2>1. S \in SUBSET (0..c - 2)
    <3> SUFFICES ASSUME NEW k \in S PROVE k \in 0..c - 2
      OBVIOUS
    <3>1. k \in Nat /\ k + 1 <= c /\ k # c - 1
      BY <1>3
    <3> HIDE DEF c
    <3> QED
      BY <1>2, <3>1
  <2>2. c >= 1
    <3>1. 0 + 1 <= c
      BY <1>3, Zenon
    <3> QED
      BY <3>1
  <2>3. IsFiniteSet(0..c - 2) /\ Cardinality(0..c - 2) = c - 1
    <3> HIDE DEF c
    <3>1. c - 2 \in Int
      BY <1>2
    <3>2. IsFiniteSet(0..c - 2) /\ Cardinality(0..c - 2) = IF 0 > c - 2 THEN 0 ELSE c - 2 - 0 + 1
      BY <3>1, IntervalSize
    <3> QED
      BY <1>2, <2>2, <3>2
  <2>4. c <= Cardinality(0..c - 2)
    BY <2>1, <2>3, FS_Subset, Zenon
  <2> HIDE DEF c
  <2> QED
    BY <1>2, <2>3, <2>4
<1> HIDE DEF c
<1> QED
  BY <1>2, <1>3, <1>4

\* handle_get_pending_batch: a batch begins above the nonce, is a part of the pool and
\* no longer than the limit.
LEMMA BatchIsRun ==
  ASSUME TypeOK, NEW nonce \in Nat
  PROVE  \E k \in 0..MaxBatch :
           /\ Batch(nonce) = <<nonce + 1, nonce + k>>
           /\ nonce + 1..nonce + k \subseteq pending
<1> DEFINE R == {k \in 0..MaxBatch : nonce + 1..nonce + k \subseteq pending}
           longest == CHOOSE k \in R : \A j \in R : j <= k
<1>1. R \in SUBSET (0..MaxBatch) /\ 0 \in R
  BY PathAssumption
<1>2. \A k \in R : 0..k \subseteq R
  <2> TAKE k \in R
  <2> SUFFICES ASSUME NEW j \in 0..k PROVE j \in R
    OBVIOUS
  <2>1. k \in Nat /\ k <= MaxBatch /\ j \in Nat /\ j <= k
    BY PathAssumption
  <2>2. nonce + 1..nonce + j \subseteq nonce + 1..nonce + k
    BY <2>1
  <2>3. nonce + 1..nonce + j \subseteq pending /\ j \in 0..MaxBatch
    BY <2>1, <2>2, PathAssumption
  <2> QED
    BY <2>3
<1>3. \E k \in R : \A j \in R : j <= k
  <2> HIDE DEF R
  <2> QED
    BY <1>1, <1>2, PathAssumption, LastOfRun
<1>4. longest \in R
  BY <1>3
<1>5. Batch(nonce) = <<nonce + 1, nonce + longest>>
  BY DEF Batch
<1> QED
  BY <1>4, <1>5

\* A batch that is not empty is a run of nonces of the path.
LEMMA BatchInRuns ==
  ASSUME TypeOK, NEW nonce \in Nat, ~IsEmpty(Batch(nonce))
  PROVE  Batch(nonce) \in Runs
<1>1. PICK k \in 0..MaxBatch :
        Batch(nonce) = <<nonce + 1, nonce + k>> /\ nonce + 1..nonce + k \subseteq pending
  BY BatchIsRun
<1>2. k \in Nat /\ ~(nonce + k < nonce + 1)
  BY <1>1, PathAssumption DEF IsEmpty
<1>3. nonce + 1 \in pending /\ nonce + k \in pending
  BY <1>1, <1>2
<1>4. nonce + 1 \in Nonces /\ nonce + k \in Nonces
  BY <1>3 DEF TypeOK
<1> QED
  BY <1>1, <1>2, <1>4 DEF Runs

\* A run that executes takes the inbound nonce to its last message.
LEMMA DeliveredRun ==
  ASSUME TypeOK, NEW b \in Runs, CanExecute(b), Delivered(b[1]..b[2])
  PROVE  /\ inbound' = b[2] /\ inbound' \in 0..MaxNonce /\ inbound < inbound'
         /\ available' \subseteq available
         /\ b[1]..b[2] \subseteq 1..inbound'
<1>1. b[1] \in Nat /\ b[2] \in Nat /\ 1 <= b[1] /\ b[1] <= b[2] /\ b[2] <= MaxNonce
  BY PathAssumption DEF Runs, Nonces
<1>2. inbound \in Nat /\ b[1] = inbound + 1
  BY PathAssumption DEF TypeOK, CanExecute
<1>3. Cardinality(b[1]..b[2]) = b[2] - b[1] + 1
  <2>0. b[1] \in Int /\ b[2] \in Int
    BY <1>1
  <2>1. Cardinality(b[1]..b[2]) = IF b[1] > b[2] THEN 0 ELSE b[2] - b[1] + 1
    BY <2>0, IntervalSize, Zenon
  <2> QED
    BY <1>1, <2>1
<1>4. inbound' = b[2]
  BY <1>1, <1>2, <1>3 DEF Delivered
<1>5. available' \subseteq available
  BY DEF Delivered
<1> QED
  BY <1>1, <1>2, <1>4, <1>5, PathAssumption

(***************************************************************************)
(* The invariant is inductive                                              *)
(***************************************************************************)

LEMMA InitInv == Init => IInv
<1> SUFFICES ASSUME Init PROVE IInv
  OBVIOUS
<1>1. TypeOK
  BY PathAssumption DEF Init, TypeOK, None, Off, Idle, Early
<1>2. AnsweredMeansDelivered
  BY <1>1 DEF Init, AnsweredMeansDelivered, None
<1>3. ProcessorShape
  BY PathAssumption DEF Init, ProcessorShape, Off, Idle, Phases
<1>4. FlyingShape /\ ConfirmedLanded /\ reverted \in BOOLEAN
  BY DEF Init, FlyingShape, ConfirmedLanded, Off, Idle
<1> QED
  BY <1>2, <1>3, <1>4 DEF IInv

\* What a message's own steps leave alone.
LEMMA StageInv ==
  ASSUME IInv, NEW n \in Nonces, NEW o \in Early \cup {"skipped"} \cup Wait!Outcomes,
         stage[n] # "submitted", stage' = [stage EXCEPT ![n] = o],
         UNCHANGED <<poolVars, chainVars, proc, restarts>>
  PROVE  IInv'
<1>1. o \notin {"submitted", "ok"}
  BY DEF Early, Wait!Outcomes
<1>2. TypeOK'
  BY DEF IInv, AnsweredMeansDelivered, TypeOK, poolVars, chainVars
<1>3. \A m \in Nonces : stage'[m] = "submitted" <=> m \in pending'
  BY <1>1 DEF IInv, AnsweredMeansDelivered, TypeOK, poolVars
<1>4. ~reverted' => highest' <= inbound' /\ \A m \in Nonces : stage'[m] = "ok" => m <= inbound'
  BY <1>1 DEF IInv, AnsweredMeansDelivered, TypeOK, poolVars, chainVars
<1>5. ProcessorShape' /\ FlyingShape' /\ ConfirmedLanded' /\ reverted' \in BOOLEAN
  BY DEF IInv, ProcessorShape, FlyingShape, ConfirmedLanded, chainVars
<1> QED
  BY <1>2, <1>3, <1>4, <1>5 DEF IInv, AnsweredMeansDelivered

LEMMA TaskInv ==
  ASSUME IInv, NEW n \in Nonces,
         ExecuteSend(n) \/ ExtractPackets(n) \/ \E o \in Wait!Outcomes : VerificationEnds(n, o)
  PROVE  IInv'
  BY StageInv DEF ExecuteSend, ExtractPackets, VerificationEnds, Early

LEMMA BecomesAvailableInv ==
  ASSUME IInv, NEW n \in Nonces, BecomesAvailable(n)
  PROVE  IInv'
<1>1. AnsweredMeansDelivered'
  BY DEF IInv, AnsweredMeansDelivered, TypeOK, BecomesAvailable, poolVars
<1>2. ProcessorShape' /\ FlyingShape' /\ ConfirmedLanded' /\ reverted' \in BOOLEAN
  BY DEF IInv, ProcessorShape, FlyingShape, ConfirmedLanded, BecomesAvailable
<1> QED
  BY <1>1, <1>2 DEF IInv

\* The chain goes forward: what was delivered stays delivered.
LEMMA ChainInv ==
  ASSUME IInv, available' \subseteq available, inbound' \in 0..MaxNonce, inbound <= inbound',
         elsewhere' \subseteq 1..inbound', UNCHANGED <<poolVars, stage, restarts>>,
         reverted' \in BOOLEAN, reverted => reverted',
         ProcessorShape', FlyingShape', ConfirmedLanded'
  PROVE  IInv'
<1>1. TypeOK'
  BY DEF IInv, AnsweredMeansDelivered, TypeOK, ProcessorShape, poolVars, Phases
<1>2. \A m \in Nonces : stage'[m] = "submitted" <=> m \in pending'
  BY DEF IInv, AnsweredMeansDelivered, poolVars
<1>3. inbound \in Nat /\ highest \in Int /\ Nonces \subseteq Int /\ inbound' \in Nat
  BY PathAssumption DEF IInv, AnsweredMeansDelivered, TypeOK, Nonces, None
<1>4. ~reverted' => highest' <= inbound' /\ \A m \in Nonces : stage'[m] = "ok" => m <= inbound'
  BY <1>3 DEF IInv, AnsweredMeansDelivered, poolVars
<1> QED
  BY <1>1, <1>2, <1>4 DEF IInv, AnsweredMeansDelivered

LEMMA OthersInv ==
  ASSUME IInv, DeliveredByOthers
  PROVE  IInv'
<1> DEFINE b == <<inbound + 1, inbound + 1>>
<1>1. TypeOK /\ inbound \in Nat
  BY PathAssumption DEF IInv, AnsweredMeansDelivered, TypeOK
<1>2. b \in Runs
  <2>1. inbound + 1 \in Nonces
    BY <1>1 DEF TypeOK, DeliveredByOthers, CanExecute
  <2> QED
    BY <1>1, <2>1 DEF Runs
<1>3. b[1]..b[2] = {inbound + 1}
  BY <1>1
<1>4. CanExecute(b) /\ Delivered(b[1]..b[2])
  BY <1>3 DEF DeliveredByOthers
<1>5. /\ inbound' = b[2] /\ inbound' \in 0..MaxNonce /\ inbound < inbound'
      /\ available' \subseteq available
      /\ b[1]..b[2] \subseteq 1..inbound'
  BY <1>1, <1>2, <1>4, DeliveredRun
<1>6. inbound <= inbound' /\ elsewhere' \subseteq 1..inbound'
  BY <1>1, <1>3, <1>5, PathAssumption DEF TypeOK, DeliveredByOthers
<1>7. ProcessorShape' /\ FlyingShape' /\ reverted' \in BOOLEAN /\ (reverted => reverted')
  BY DEF IInv, ProcessorShape, FlyingShape, DeliveredByOthers
<1>8. ConfirmedLanded'
  <2>1. proc.phase = "confirmed" => proc.batch[2] \in Int
    BY DEF IInv, ProcessorShape, Runs, Nonces
  <2> QED
    BY <1>1, <1>5, <2>1 DEF IInv, ConfirmedLanded, DeliveredByOthers
<1> QED
  BY <1>5, <1>6, <1>7, <1>8, ChainInv DEF DeliveredByOthers

\* A batch lands: the processor that waits for it goes on only after it executed, or
\* the flag reverted says that it did not.
LEMMA LandsInv ==
  ASSUME IInv, NEW tx \in flying, Lands(tx)
  PROVE  IInv'
<1> DEFINE b == <<tx[1], tx[2]>>
           own == tx[3] = restarts /\ proc.phase = "sent"
<1>1. TypeOK /\ inbound \in Nat
  BY PathAssumption DEF IInv, AnsweredMeansDelivered, TypeOK
<1>2. b \in Runs /\ b[2] \in Nat
  BY PathAssumption DEF IInv, FlyingShape, Runs, Nonces
<1>3. proc' = IF own THEN [proc EXCEPT !.phase = "confirmed"] ELSE proc
  BY DEF Lands
<1>4. ProcessorShape'
  BY <1>3 DEF IInv, ProcessorShape, Phases
<1>5. FlyingShape'
  <2>1. restarts' = restarts /\ flying' = flying \ {tx}
    BY DEF Lands
  <2>2. \A u \in flying' : u[3] = restarts => ~own
    <3> SUFFICES ASSUME NEW u \in flying', u[3] = restarts, own PROVE FALSE
      OBVIOUS
    <3>1. u \in flying /\ u # tx
      BY <2>1
    <3>2. <<u[1], u[2]>> = b /\ u[3] = tx[3]
      BY <3>1 DEF IInv, FlyingShape
    <3>3. u = <<u[1], u[2], u[3]>> /\ tx = <<tx[1], tx[2], tx[3]>>
      BY <3>1 DEF IInv, FlyingShape
    <3> QED
      BY <3>1, <3>2, <3>3
  <2> QED
    BY <1>3, <2>1, <2>2 DEF IInv, FlyingShape
<1>6. own => proc'.phase = "confirmed" /\ proc'.batch = b
  BY <1>3 DEF IInv, ProcessorShape, FlyingShape
<1>7. CASE CanExecute(b)
  <2>1. Delivered(b[1]..b[2]) /\ reverted' = reverted
    BY <1>7 DEF Lands
  <2>2. /\ inbound' = b[2] /\ inbound' \in 0..MaxNonce /\ inbound < inbound'
        /\ available' \subseteq available
        /\ b[1]..b[2] \subseteq 1..inbound'
    BY <1>1, <1>2, <1>7, <2>1, DeliveredRun
  <2>3. elsewhere' \subseteq elsewhere \cup (b[1]..b[2])
    BY <1>7 DEF Lands
  <2>4. inbound <= inbound' /\ elsewhere' \subseteq 1..inbound'
    BY <1>1, <2>2, <2>3, PathAssumption DEF TypeOK
  <2>5. ConfirmedLanded'
    <3>1. CASE own
      BY <1>2, <1>6, <2>2, <3>1 DEF ConfirmedLanded
    <3>2. CASE ~own
      <4>1. proc' = proc
        BY <1>3, <3>2
      <4>2. proc.phase = "confirmed" => proc.batch[2] \in Int
        BY DEF IInv, ProcessorShape, Runs, Nonces
      <4> QED
        BY <1>1, <1>2, <2>1, <2>2, <4>1, <4>2 DEF IInv, ConfirmedLanded
    <3> QED
      BY <3>1, <3>2
  <2>6. reverted' \in BOOLEAN /\ (reverted => reverted')
    BY <2>1 DEF IInv
  <2> QED
    BY <1>4, <1>5, <2>2, <2>4, <2>5, <2>6, ChainInv DEF Lands
<1>8. CASE ~CanExecute(b)
  <2>1. reverted' = (reverted \/ own) /\ UNCHANGED <<inbound, available, elsewhere>>
    BY <1>8 DEF Lands
  <2>2. reverted' \in BOOLEAN /\ (reverted => reverted')
    BY <2>1 DEF IInv
  <2>3. inbound' \in 0..MaxNonce /\ inbound <= inbound' /\ elsewhere' \subseteq 1..inbound'
    BY <1>1, <2>1 DEF TypeOK
  <2>4. ConfirmedLanded'
    BY <1>3, <2>1 DEF IInv, ConfirmedLanded
  <2> QED
    BY <1>4, <1>5, <2>1, <2>2, <2>3, <2>4, ChainInv DEF Lands
<1> QED
  BY <1>7, <1>8

\* handle_settlement and the check before it.
LEMMA BuildInv ==
  ASSUME IInv, NEW n \in Nonces, BuildExecuteReceive(n)
  PROVE  IInv'
<1>1. stage[n] # "submitted" /\ stage[n] \in {"verified", "timeout"}
  BY DEF BuildExecuteReceive
<1>2. CASE n \notin available
  BY <1>1, <1>2, StageInv DEF BuildExecuteReceive, poolVars
<1>3. CASE n \in available /\ n <= highest
  <2>1. /\ stage' = [stage EXCEPT ![n] = "ok"]
        /\ UNCHANGED <<poolVars, chainVars, proc, restarts>>
    BY <1>3 DEF BuildExecuteReceive, HandleSettlement, poolVars
  <2>2. TypeOK'
    BY <2>1 DEF IInv, AnsweredMeansDelivered, TypeOK, poolVars, chainVars
  <2>3. \A m \in Nonces : stage'[m] = "submitted" <=> m \in pending'
    BY <1>1, <2>1 DEF IInv, AnsweredMeansDelivered, TypeOK, poolVars
  <2>4. n \in Int /\ highest \in Int /\ inbound \in Int
    BY PathAssumption DEF IInv, AnsweredMeansDelivered, TypeOK, Nonces, None
  <2>5. ~reverted' => highest' <= inbound' /\ \A m \in Nonces : stage'[m] = "ok" => m <= inbound'
    BY <1>3, <2>1, <2>4 DEF IInv, AnsweredMeansDelivered, TypeOK, poolVars, chainVars
  <2>6. ProcessorShape' /\ FlyingShape' /\ ConfirmedLanded' /\ reverted' \in BOOLEAN
    BY <2>1 DEF IInv, ProcessorShape, FlyingShape, ConfirmedLanded, chainVars
  <2> QED
    BY <2>2, <2>3, <2>5, <2>6 DEF IInv, AnsweredMeansDelivered
<1>4. CASE n \in available /\ ~(n <= highest)
  <2>1. /\ stage' = [stage EXCEPT ![n] = "submitted"] /\ pending' = pending \cup {n}
        /\ proc' = (IF proc.phase = "off" THEN Idle ELSE proc)
        /\ UNCHANGED <<highest, chainVars, restarts>>
    BY <1>4 DEF BuildExecuteReceive, HandleSettlement
  <2>2. ProcessorShape'
    BY <2>1, PathAssumption DEF IInv, ProcessorShape, Idle, Phases
  <2>3. TypeOK'
    BY <2>1, <2>2 DEF IInv, AnsweredMeansDelivered, TypeOK, chainVars, ProcessorShape, Phases
  <2>4. \A m \in Nonces : stage'[m] = "submitted" <=> m \in pending'
    BY <2>1 DEF IInv, AnsweredMeansDelivered, TypeOK
  <2>5. ~reverted' => highest' <= inbound' /\ \A m \in Nonces : stage'[m] = "ok" => m <= inbound'
    BY <2>1 DEF IInv, AnsweredMeansDelivered, TypeOK, chainVars
  <2>6. FlyingShape' /\ ConfirmedLanded' /\ reverted' \in BOOLEAN
    BY <2>1 DEF IInv, FlyingShape, ConfirmedLanded, chainVars, Idle
  <2> QED
    BY <2>2, <2>3, <2>4, <2>5, <2>6 DEF IInv, AnsweredMeansDelivered
<1> QED
  BY <1>2, <1>3, <1>4

\* A step of the processor that confirms nothing.
LEMMA ProcessorInv ==
  ASSUME IInv, ProcessorShape', FlyingShape', proc'.phase # "confirmed",
         UNCHANGED <<poolVars, available, inbound, elsewhere, reverted, stage, restarts>>
  PROVE  IInv'
<1>1. /\ available' \subseteq available /\ inbound' \in 0..MaxNonce /\ inbound <= inbound'
      /\ elsewhere' \subseteq 1..inbound'
  BY PathAssumption DEF IInv, AnsweredMeansDelivered, TypeOK
<1>2. reverted' \in BOOLEAN /\ (reverted => reverted')
  BY DEF IInv
<1>3. ConfirmedLanded'
  BY DEF ConfirmedLanded
<1> QED
  BY <1>1, <1>2, <1>3, ChainInv

\* The steps of the processor before it sends.
LEMMA FetchInv ==
  ASSUME IInv, GetHighestNonce \/ GetPendingBatch \/ RetryWithChainNonce
  PROVE  IInv'
<1>1. TypeOK /\ inbound \in 0..MaxNonce /\ inbound \in Nat /\ proc.nonce \in Nat
  BY PathAssumption DEF IInv, AnsweredMeansDelivered, TypeOK, ProcessorShape
<1>2. proc.phase \notin {"sent", "confirmed"} /\ proc.phase \in {"idle", "fetch", "mismatch"}
  BY DEF GetHighestNonce, GetPendingBatch, RetryWithChainNonce
<1>3. proc' \in [phase : Phases, nonce : 0..MaxNonce, batch : Runs \cup {NoBatch}]
      /\ proc'.phase # "sent" /\ proc'.phase # "confirmed"
      /\ (proc'.phase = "build" => proc'.batch \in Runs)
  <2>1. CASE GetHighestNonce
    <3>1. (IF highest = None THEN CurrentInboundNonce ELSE highest) \in 0..MaxNonce
      BY <1>1, PathAssumption DEF TypeOK, None, CurrentInboundNonce, Nonces
    <3> QED
      BY <2>1, <3>1 DEF IInv, ProcessorShape, GetHighestNonce, Phases
  <2>2. CASE GetPendingBatch
    <3>1. ~IsEmpty(Batch(proc.nonce)) => Batch(proc.nonce) \in Runs
      BY <1>1, BatchInRuns
    <3>2. CASE ~IsEmpty(Batch(proc.nonce))
      <4>1. proc' = [proc EXCEPT !.phase = "build", !.batch = Batch(proc.nonce)]
        BY <2>2, <3>2 DEF GetPendingBatch
      <4> QED
        BY <3>1, <3>2, <4>1 DEF IInv, ProcessorShape, Phases
    <3>3. CASE IsEmpty(Batch(proc.nonce))
      <4>1. proc' = [proc EXCEPT !.phase = "mismatch"] \/ proc' = Idle
        BY <2>2, <3>3 DEF GetPendingBatch
      <4> QED
        BY <4>1, PathAssumption DEF IInv, ProcessorShape, Phases, Idle
    <3> QED
      BY <3>2, <3>3
  <2>3. CASE RetryWithChainNonce
    <3>1. ~IsEmpty(Batch(inbound)) => Batch(inbound) \in Runs
      BY <1>1, BatchInRuns
    <3>2. \/ /\ proc' = [proc EXCEPT !.phase = "build", !.batch = Batch(inbound)]
             /\ ~IsEmpty(Batch(inbound))
          \/ proc' = Idle
      BY <2>3 DEF RetryWithChainNonce, CurrentInboundNonce
    <3>3. CASE proc' = Idle
      BY <3>3, PathAssumption DEF Phases, Idle
    <3>4. CASE /\ proc' = [proc EXCEPT !.phase = "build", !.batch = Batch(inbound)]
               /\ ~IsEmpty(Batch(inbound))
      BY <3>1, <3>4 DEF IInv, ProcessorShape, Phases
    <3> QED
      BY <3>2, <3>3, <3>4
  <2> QED
    BY <2>1, <2>2, <2>3
<1>4. UNCHANGED <<poolVars, chainVars, stage, restarts>>
  BY DEF GetHighestNonce, GetPendingBatch, RetryWithChainNonce
<1>5. ProcessorShape'
  BY <1>3 DEF ProcessorShape
<1>6. FlyingShape'
  BY <1>2, <1>4 DEF IInv, FlyingShape, chainVars
<1> QED
  BY <1>3, <1>4, <1>5, <1>6, ProcessorInv DEF chainVars

\* A new batch is the only one in flight of the running process.
LEMMA CreateInv ==
  ASSUME IInv, CreateBatchTransaction
  PROVE  IInv'
<1>1. CASE CanExecute(proc.batch)
  <2>1. /\ proc' = [proc EXCEPT !.phase = "sent"] /\ restarts' = restarts
        /\ flying' = flying \cup {<<proc.batch[1], proc.batch[2], restarts>>}
    BY <1>1 DEF CreateBatchTransaction
  <2>2. proc.phase = "build" /\ proc.batch \in Runs
    BY DEF IInv, ProcessorShape, CreateBatchTransaction
  <2>3. ProcessorShape' /\ proc'.phase = "sent" /\ proc'.batch = proc.batch
    BY <2>1, <2>2 DEF IInv, ProcessorShape, Phases
  <2>4. \A tx \in flying : tx[3] # restarts
    BY <2>2 DEF IInv, FlyingShape
  <2>5. FlyingShape'
    <3>1. proc.batch = <<proc.batch[1], proc.batch[2]>> /\ proc.batch[1] <= proc.batch[2]
          /\ proc.batch[1] \in Nonces /\ proc.batch[2] \in Nonces
      BY <2>2 DEF Runs
    <3>2. restarts \in Nat /\ restarts \in 0..restarts
      BY DEF IInv, FlyingShape
    <3>3. flying' \subseteq Nonces \X Nonces \X (0..restarts)
      <4>1. flying \subseteq Nonces \X Nonces \X (0..restarts)
        BY DEF IInv, FlyingShape
      <4>2. <<proc.batch[1], proc.batch[2], restarts>> \in Nonces \X Nonces \X (0..restarts)
        BY <3>1, <3>2
      <4> QED
        BY <2>1, <4>1, <4>2
    <3>4. \A tx \in flying' :
            /\ tx[1] <= tx[2]
            /\ tx[3] = restarts => <<tx[1], tx[2]>> = proc.batch
      BY <2>1, <2>4, <3>1 DEF IInv, FlyingShape
    <3> QED
      BY <2>1, <2>3, <3>2, <3>3, <3>4 DEF FlyingShape
  <2> QED
    BY <2>3, <2>5, ProcessorInv DEF CreateBatchTransaction
<1>2. CASE ~CanExecute(proc.batch)
  <2>1. proc' = Idle /\ flying' = flying /\ restarts' = restarts /\ proc.phase = "build"
    BY <1>2 DEF CreateBatchTransaction
  <2>2. ProcessorShape'
    BY <2>1, PathAssumption DEF ProcessorShape, Idle, Phases
  <2>3. FlyingShape'
    BY <2>1 DEF IInv, FlyingShape
  <2>4. proc'.phase # "confirmed"
    BY <2>1 DEF Idle
  <2> QED
    BY <2>2, <2>3, <2>4, ProcessorInv DEF CreateBatchTransaction
<1> QED
  BY <1>1, <1>2

LEMMA BatchFailsInv ==
  ASSUME IInv, BatchFails
  PROVE  IInv'
<1>1. proc' = Idle /\ restarts' = restarts /\ flying' = {tx \in flying : tx[3] # restarts}
  BY DEF BatchFails
<1>2. ProcessorShape' /\ proc'.phase # "confirmed"
  BY <1>1, PathAssumption DEF ProcessorShape, Idle, Phases
<1>3. FlyingShape'
  BY <1>1 DEF IInv, FlyingShape
<1> QED
  BY <1>2, <1>3, ProcessorInv DEF BatchFails

\* handle_update_highest_nonce answers messages up to a batch that was executed.
LEMMA UpdateInv ==
  ASSUME IInv, UpdateHighestNonce
  PROVE  IInv'
<1>1. /\ proc.batch[2] \in Nonces /\ highest' = proc.batch[2] /\ proc' = Idle
      /\ pending' = {n \in pending : n > highest'}
      /\ stage' = [n \in Nonces |-> IF n \in pending \ pending' THEN "ok" ELSE stage[n]]
      /\ UNCHANGED <<chainVars, restarts>>
  BY DEF IInv, ProcessorShape, UpdateHighestNonce, Runs
<1>2. TypeOK'
  BY <1>1 DEF IInv, AnsweredMeansDelivered, TypeOK, chainVars, Idle
<1>3. \A m \in Nonces : stage'[m] = "submitted" <=> m \in pending'
  BY <1>1 DEF IInv, AnsweredMeansDelivered, TypeOK
<1>4. ~reverted' => highest' <= inbound' /\ \A m \in Nonces : stage'[m] = "ok" => m <= inbound'
  <2> SUFFICES ASSUME ~reverted'
               PROVE  highest' <= inbound' /\ \A m \in Nonces : stage'[m] = "ok" => m <= inbound'
    OBVIOUS
  <2>1. highest' <= inbound /\ ~reverted /\ inbound' = inbound
    BY <1>1 DEF IInv, ConfirmedLanded, UpdateHighestNonce, chainVars
  <2>2. inbound \in Int /\ highest' \in Int /\ Nonces \subseteq Int
    BY <1>1, PathAssumption DEF IInv, AnsweredMeansDelivered, TypeOK, Nonces
  <2>3. \A m \in Nonces : stage'[m] = "ok" => stage[m] = "ok" \/ m \in pending \ pending'
    BY <1>1
  <2>4. \A m \in pending \ pending' : m \in Nonces /\ ~(m > highest')
    BY <1>1 DEF IInv, AnsweredMeansDelivered, TypeOK
  <2> QED
    BY <2>1, <2>2, <2>3, <2>4 DEF IInv, AnsweredMeansDelivered
<1>5. ProcessorShape' /\ ConfirmedLanded' /\ reverted' \in BOOLEAN
  BY <1>1, PathAssumption DEF IInv, ProcessorShape, ConfirmedLanded, Idle, Phases, chainVars
<1>6. FlyingShape'
  BY <1>1 DEF IInv, FlyingShape, UpdateHighestNonce, chainVars
<1> QED
  BY <1>2, <1>3, <1>4, <1>5, <1>6 DEF IInv, AnsweredMeansDelivered

\* After a restart every batch in flight is one of an earlier process.
LEMMA RestartInv ==
  ASSUME IInv, Restart
  PROVE  IInv'
<1>1. /\ pending' = {} /\ highest' = None /\ proc' = Off /\ elsewhere' = 1..inbound
      /\ restarts' = restarts + 1 /\ UNCHANGED <<available, flying, inbound, reverted>>
      /\ stage' = [n \in Nonces |-> IF stage[n] \in {"unsent", "ok", "skipped"} THEN stage[n] ELSE "sent"]
  BY DEF Restart
<1>2. TypeOK'
  BY <1>1 DEF IInv, AnsweredMeansDelivered, TypeOK, Off, Idle, Early
<1>3. \A m \in Nonces : stage'[m] = "submitted" <=> m \in pending'
  BY <1>1
<1>4. ~reverted' => highest' <= inbound' /\ \A m \in Nonces : stage'[m] = "ok" => m <= inbound'
  BY <1>1, PathAssumption DEF IInv, AnsweredMeansDelivered, TypeOK, None
<1>5. ProcessorShape' /\ ConfirmedLanded' /\ reverted' \in BOOLEAN
  BY <1>1, PathAssumption DEF IInv, ProcessorShape, ConfirmedLanded, Off, Idle, Phases
<1>6. FlyingShape'
  <2>1. restarts \in Nat /\ \A k \in 0..restarts : k \in 0..restarts + 1 /\ k # restarts + 1
    BY DEF IInv, FlyingShape
  <2>2. flying' \subseteq Nonces \X Nonces \X (0..restarts')
    BY <1>1, <2>1 DEF IInv, FlyingShape
  <2>3. \A tx \in flying' : tx[1] <= tx[2] /\ tx[3] # restarts'
    BY <1>1, <2>1 DEF IInv, FlyingShape
  <2> QED
    BY <1>1, <2>1, <2>2, <2>3 DEF FlyingShape
<1> QED
  BY <1>2, <1>3, <1>4, <1>5, <1>6 DEF IInv, AnsweredMeansDelivered

LEMMA StutterInv ==
  ASSUME IInv, UNCHANGED vars
  PROVE  IInv'
<1>1. AnsweredMeansDelivered'
  BY DEF IInv, AnsweredMeansDelivered, TypeOK, vars, poolVars, chainVars
<1> QED
  BY <1>1 DEF IInv, ProcessorShape, FlyingShape, ConfirmedLanded, vars, poolVars, chainVars

\* Every step keeps the invariant.
LEMMA StepInv ==
  ASSUME IInv, [Next]_vars
  PROVE  IInv'
<1>1. CASE UNCHANGED vars
  BY <1>1, StutterInv
<1>2. CASE \E n \in Nonces :
             \/ BecomesAvailable(n) \/ ExecuteSend(n) \/ ExtractPackets(n) \/ BuildExecuteReceive(n)
             \/ \E o \in Wait!Outcomes : VerificationEnds(n, o)
  BY <1>2, BecomesAvailableInv, TaskInv, BuildInv
<1>3. CASE DeliveredByOthers \/ \E tx \in flying : Lands(tx)
  BY <1>3, OthersInv, LandsInv
<1>4. CASE ProcessorStep \/ BatchFails \/ Restart
  BY <1>4, FetchInv, CreateInv, UpdateInv, BatchFailsInv, RestartInv DEF ProcessorStep
<1> QED
  BY <1>1, <1>2, <1>3, <1>4 DEF Next

\* IInv is an inductive invariant of a settlement path: of its pool, its processor and
\* the batches in flight, of this process and of those before it.
THEOREM Inductive == Spec => []IInv
<1> QED
  BY InitInv, StepInv, PTL DEF Spec

\* handle_settlement and handle_update_highest_nonce: a task that waits is in the pool,
\* and a settlement that was answered is on the chain, unless a batch reverted.
THEOREM AnswersAreTrue == Spec => []AnsweredMeansDelivered
<1>1. IInv => AnsweredMeansDelivered
  BY DEF IInv
<1> QED
  BY <1>1, Inductive, PTL
=============================================================================
