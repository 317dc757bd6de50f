------------------------------ MODULE LayerZero ------------------------------
(***************************************************************************)
(* Delivery of settlement messages on one LayerZero path (destination      *)
(* chain, source endpoint, settler).  Message n belongs to one bundle,     *)
(* whose task waits for its verification, hands it to the batch pool and   *)
(* waits for the answer.  The processor of the path takes gapless batches  *)
(* from the pool, sends them, and reports the highest nonce confirmed.     *)
(* The chain takes messages in the order of their nonces; anyone may       *)
(* deliver one.                                                            *)
(***************************************************************************)
EXTENDS Integers, FiniteSets

CONSTANTS
  MaxNonce,    \* messages 1..MaxNonce are sent on the path
  MaxBatch,    \* MAX_SETTLEMENTS_PER_BATCH
  MaxForeign,  \* bound on messages delivered by others
  MaxRestarts  \* bound on the restarts

ASSUME PathAssumption == MaxNonce \in Nat /\ MaxBatch \in Nat

VARIABLES
  available,  \* messages that the receive library reports as verified
  stage,      \* [n]: where the task of the bundle is
  pending,    \* pending_settlements of the path
  highest,    \* highest_nonce_confirmed, None without one
  proc,       \* the processor: phase, current nonce, batch <<first, last>>
  flying,     \* batches sent and not landed, with the process that sent them
  inbound,    \* the chain's inbound nonce
  elsewhere,  \* messages delivered by others or by an earlier process
  reverted,   \* a batch was included, but reverted
  foreign,    \* number of messages delivered by others
  restarts    \* number of restarts

poolVars == <<pending, highest>>
chainVars == <<available, flying, inbound, elsewhere, reverted, foreign>>
vars == <<poolVars, chainVars, stage, proc, restarts>>

Nonces == 1..MaxNonce
None == -1
NoBatch == <<1, 0>>
Early == {"unsent", "sent", "waiting"}
Wait == INSTANCE PacketWait WITH
  Packets <- Nonces,
  outcome <- [n \in Nonces |-> IF stage[n] \in Early THEN "none" ELSE stage[n]]

Idle == [phase |-> "idle", nonce |-> 0, batch |-> NoBatch]
Off == [Idle EXCEPT !.phase = "off"]

Init ==
  /\ available = {}
  /\ stage = [n \in Nonces |-> "unsent"]
  /\ pending = {} /\ highest = None
  /\ proc = Off
  /\ flying = {} /\ inbound = 0
  /\ elsewhere = {} /\ reverted = FALSE /\ foreign = 0
  /\ restarts = 0

(***************************************************************************)
(* The destination chain                                                   *)
(***************************************************************************)

BecomesAvailable(n) ==
  /\ stage[n] # "unsent" /\ n > inbound /\ n \notin available
  /\ available' = available \cup {n}
  /\ UNCHANGED <<poolVars, stage, proc, flying, inbound, elsewhere, reverted, foreign, restarts>>

\* The calls commitVerification and lzReceive of a batch succeed in the order of the
\* nonces only.
CanExecute(batch) == batch[1] = inbound + 1 /\ batch[1]..batch[2] \subseteq available

\* Delivered messages; the library may forget their verifications.
Delivered(ns) ==
  /\ inbound' = inbound + Cardinality(ns)
  /\ \E forgotten \in {{}, ns} : available' = available \ forgotten

DeliveredByOthers ==
  /\ foreign < MaxForeign
  /\ CanExecute(<<inbound + 1, inbound + 1>>)
  /\ Delivered({inbound + 1})
  /\ elsewhere' = elsewhere \cup {inbound + 1}
  /\ foreign' = foreign + 1
  /\ UNCHANGED <<poolVars, stage, proc, flying, reverted, restarts>>

\* A batch is included and executes, or reverts as a whole.  The processor that
\* waits for it sees it confirmed in both cases.
Lands(tx) ==
  LET batch == <<tx[1], tx[2]>>
      own == tx[3] = restarts /\ proc.phase = "sent"
  IN  /\ tx \in flying
      /\ flying' = flying \ {tx}
      /\ proc' = IF own THEN [proc EXCEPT !.phase = "confirmed"] ELSE proc
      /\ \/ /\ CanExecute(batch)
            /\ Delivered(batch[1]..batch[2])
            /\ elsewhere' = IF own THEN elsewhere ELSE elsewhere \cup (batch[1]..batch[2])
            /\ UNCHANGED reverted
         \/ /\ ~CanExecute(batch)
            /\ reverted' = (reverted \/ own)
            /\ UNCHANGED <<inbound, available, elsewhere>>
      /\ UNCHANGED <<poolVars, stage, foreign, restarts>>

(***************************************************************************)
(* The tasks of the bundles                                                *)
(***************************************************************************)

\* The executeSend transaction of a bundle is confirmed on the other chain; the
\* messages of a path get their nonces in that order.
ExecuteSend(n) ==
  /\ stage[n] = "unsent" /\ \A m \in 1..n - 1 : stage[m] # "unsent"
  /\ stage' = [stage EXCEPT ![n] = "sent"]
  /\ UNCHANGED <<poolVars, chainVars, proc, restarts>>

\* The PacketSent events of its receipt tell the packets to wait for.
ExtractPackets(n) ==
  /\ stage[n] = "sent"
  /\ stage' = [stage EXCEPT ![n] = "waiting"]
  /\ UNCHANGED <<poolVars, chainVars, proc, restarts>>

\* wait_for_verifications ends, see PacketWait.
VerificationEnds(n, o) ==
  /\ stage[n] = "waiting"
  /\ o = "verified" => n \in available
  /\ stage' = [stage EXCEPT ![n] = o]
  /\ UNCHANGED <<poolVars, chainVars, proc, restarts>>

\* handle_settlement: the pool answers at once for a nonce that is confirmed; the
\* first message of the path starts the processor.
HandleSettlement(n) ==
  IF n <= highest
  THEN stage' = [stage EXCEPT ![n] = "ok"] /\ UNCHANGED <<pending, proc>>
  ELSE /\ stage' = [stage EXCEPT ![n] = "submitted"]
       /\ pending' = pending \cup {n}
       /\ proc' = IF proc.phase = "off" THEN Idle ELSE proc

\* Only messages that are available now are handed to the pool.
BuildExecuteReceive(n) ==
  /\ stage[n] \in {"verified", "timeout"}
  /\ IF n \in available THEN HandleSettlement(n)
     ELSE stage' = [stage EXCEPT ![n] = "skipped"] /\ UNCHANGED <<pending, proc>>
  /\ UNCHANGED <<highest, chainVars, restarts>>

(***************************************************************************)
(* The processor of the path                                               *)
(***************************************************************************)

\* handle_get_pending_batch: the gapless run above a nonce.
Batch(nonce) ==
  LET runs == {k \in 0..MaxBatch : nonce + 1..nonce + k \subseteq pending}
      longest == CHOOSE k \in runs : \A j \in runs : j <= k
  IN  <<nonce + 1, nonce + longest>>

IsEmpty(batch) == batch[2] < batch[1]

\* get_current_inbound_nonce asks the endpoint of the chain.
CurrentInboundNonce == inbound

\* The nonce to go on from: the pool's, or at first the chain's.
GetHighestNonce ==
  /\ proc.phase = "idle"
  /\ proc' = [proc EXCEPT !.phase = "fetch", !.nonce = IF highest = None THEN CurrentInboundNonce ELSE highest]
  /\ UNCHANGED <<poolVars, chainVars, stage, restarts>>

GetPendingBatch ==
  LET batch == Batch(proc.nonce) IN
  /\ proc.phase = "fetch"
  /\ proc' = IF ~IsEmpty(batch) THEN [proc EXCEPT !.phase = "build", !.batch = batch]
             ELSE IF pending # {} THEN [proc EXCEPT !.phase = "mismatch"] ELSE Idle
  /\ UNCHANGED <<poolVars, chainVars, stage, restarts>>

\* Messages, but no batch: the chain may be ahead.
RetryWithChainNonce ==
  LET batch == Batch(CurrentInboundNonce) IN
  /\ proc.phase = "mismatch"
  /\ proc' = IF CurrentInboundNonce # proc.nonce /\ ~IsEmpty(batch)
             THEN [proc EXCEPT !.phase = "build", !.batch = batch] ELSE Idle
  /\ UNCHANGED <<poolVars, chainVars, stage, restarts>>

\* The batch is simulated by the gas estimate, and sent if that succeeds.
CreateBatchTransaction ==
  /\ proc.phase = "build"
  /\ \/ /\ CanExecute(proc.batch)
        /\ proc' = [proc EXCEPT !.phase = "sent"]
        /\ flying' = flying \cup {<<proc.batch[1], proc.batch[2], restarts>>}
     \/ /\ ~CanExecute(proc.batch)
        /\ proc' = Idle /\ UNCHANGED flying
  /\ UNCHANGED <<poolVars, available, inbound, elsewhere, reverted, foreign, stage, restarts>>

\* A call of the node fails, or the transaction does.
BatchFails ==
  /\ proc.phase \in {"fetch", "mismatch", "build", "sent"}
  /\ proc' = Idle
  /\ flying' = {tx \in flying : tx[3] # restarts}
  /\ UNCHANGED <<poolVars, available, inbound, elsewhere, reverted, foreign, stage, restarts>>

\* Mutant of UpdateHighestNonce: only the entry with that nonce is answered.
UpdateHighestOnly ==
  /\ proc.phase = "confirmed"
  /\ highest' = proc.batch[2]
  /\ pending' = pending \ {proc.batch[2]}
  /\ stage' = [stage EXCEPT ![proc.batch[2]] = "ok"]
  /\ proc' = Idle
  /\ UNCHANGED <<chainVars, restarts>>

\* Mutant of UpdateHighestNonce: everything in the pool is answered.
UpdateAnswersAll ==
  /\ proc.phase = "confirmed"
  /\ highest' = proc.batch[2]
  /\ pending' = {}
  /\ stage' = [n \in Nonces |-> IF n \in pending THEN "ok" ELSE stage[n]]
  /\ proc' = Idle
  /\ UNCHANGED <<chainVars, restarts>>

\* handle_update_highest_nonce: everything up to the nonce is answered and removed.
UpdateHighestNonce ==
  /\ proc.phase = "confirmed"
  /\ highest' = proc.batch[2]
  /\ pending' = {n \in pending : n > highest'}
  /\ stage' = [n \in Nonces |-> IF n \in pending \ pending' THEN "ok" ELSE stage[n]]
  /\ proc' = Idle
  /\ UNCHANGED <<chainVars, restarts>>

(***************************************************************************)
(* Restart                                                                 *)
(***************************************************************************)

\* Pool and tasks are gone; bundles that had not got past the settlement read the
\* receipts again and wait anew.
Restart ==
  /\ restarts < MaxRestarts
  /\ restarts' = restarts + 1
  /\ stage' = [n \in Nonces |-> IF stage[n] \in {"unsent", "ok", "skipped"} THEN stage[n] ELSE "sent"]
  /\ pending' = {} /\ highest' = None /\ proc' = Off
  /\ elsewhere' = 1..inbound
  /\ UNCHANGED <<available, flying, inbound, reverted, foreign>>

ProcessorStep ==
  GetHighestNonce \/ GetPendingBatch \/ RetryWithChainNonce \/ CreateBatchTransaction \/ UpdateHighestNonce

Next ==
  \/ \E n \in Nonces :
       \/ BecomesAvailable(n) \/ ExecuteSend(n) \/ ExtractPackets(n) \/ BuildExecuteReceive(n)
       \/ \E o \in Wait!Outcomes : VerificationEnds(n, o)
  \/ DeliveredByOthers
  \/ \E tx \in flying : Lands(tx)
  \/ ProcessorStep \/ BatchFails
  \/ Restart

\* The processor ticks, a submission goes on, a batch that was sent lands, and the
\* node does not fail for ever.
Fairness ==
  /\ WF_vars(GetHighestNonce) /\ SF_vars(GetPendingBatch) /\ SF_vars(RetryWithChainNonce)
  /\ SF_vars(CreateBatchTransaction) /\ WF_vars(UpdateHighestNonce)
  /\ SF_vars(\E tx \in flying : Lands(tx))
  /\ \A n \in Nonces : WF_vars(BuildExecuteReceive(n))

Spec == Init /\ [][Next]_vars /\ Fairness

(***************************************************************************)
(* Properties                                                              *)
(***************************************************************************)

\* Types of the variables.
TypeOK ==
  /\ available \subseteq Nonces
  /\ stage \in [Nonces -> Early \cup {"submitted", "skipped", "ok"} \cup Wait!Outcomes]
  /\ pending \subseteq Nonces /\ highest \in {None} \cup Nonces
  /\ proc.phase \in {"off", "idle", "fetch", "mismatch", "build", "sent", "confirmed"}
  /\ inbound \in 0..MaxNonce
  /\ elsewhere \subseteq 1..inbound

\* A task that waits for the pool is in the pool, so that no answer is dropped; and a
\* bundle whose settlement was answered is settled: its message was delivered.  Only a
\* batch that reverts after its simulation breaks this.
AnsweredMeansDelivered ==
  /\ TypeOK
  /\ \A n \in Nonces : stage[n] = "submitted" <=> n \in pending
  /\ ~reverted => highest <= inbound /\ \A n \in Nonces : stage[n] = "ok" => n <= inbound

\* The inductive invariant behind the theorem: a batch in work or in flight is a run of
\* nonces; the batch in flight of the running process is the one its processor waits
\* for; and one that is seen confirmed was executed, unless it reverted.
Runs == {b \in Nonces \X Nonces : b[1] <= b[2]}
Phases == {"off", "idle", "fetch", "mismatch", "build", "sent", "confirmed"}
ProcessorShape ==
  /\ proc \in [phase : Phases, nonce : 0..MaxNonce, batch : Runs \cup {NoBatch}]
  /\ proc.phase \in {"build", "sent", "confirmed"} => proc.batch \in Runs
FlyingShape ==
  /\ restarts \in Nat /\ flying \subseteq Nonces \X Nonces \X (0..restarts)
  /\ \A tx \in flying :
       /\ tx[1] <= tx[2]
       /\ tx[3] = restarts => proc.phase = "sent" /\ proc.batch = <<tx[1], tx[2]>>
ConfirmedLanded == proc.phase = "confirmed" /\ ~reverted => proc.batch[2] <= inbound
IInv ==
  /\ AnsweredMeansDelivered /\ reverted \in BOOLEAN
  /\ ProcessorShape /\ FlyingShape /\ ConfirmedLanded

\* A message that was handed to the pool is answered, unless one before it is
\* missing, or was delivered by somebody else: then every batch that contains it
\* fails in the simulation.
PathProgresses ==
  \A n \in Nonces :
    stage[n] = "submitted" ~>
      \/ stage[n] # "submitted"
      \/ \E m \in 1..n : (m > inbound /\ m \notin pending) \/ m \in elsewhere
      \/ reverted
=============================================================================
