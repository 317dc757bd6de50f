------------------------ MODULE InteropBundleProofs ------------------------
(***************************************************************************)
(* The relay pays a bundle only out of locked liquidity and after it was   *)
(* paid, gives the lock back once, and a finished bundle is what it says:  *)
(* for every number of sources, tasks and restarts.                        *)
(*                                                                         *)
(* Until refunds are scheduled (OneTask) one task at most works on the     *)
(* bundle and its status tells what has happened; a step moves the task,   *)
(* and Moved says what that takes.  Afterwards (Refunding) any number of   *)
(* tasks may work on it, and nothing but refunds can happen.               *)
(*                                                                         *)
(* Before that, the quotes of a bundle say where its funds come from: a    *)
(* quote without deficits is covered by the balances that it names.        *)
(***************************************************************************)
EXTENDS InteropBundle, Quotes, FiniteSetTheorems, SequenceTheorems, WellFoundedInduction, TLAPS

(***************************************************************************)
(* Transactions                                                            *)
(***************************************************************************)

\* The transactions of a bundle are different ones.
LEMMA TxFacts ==
  /\ FeeTx \in Txs /\ DstTx \in Txs /\ SettleTx \in Txs /\ RefundTxs \subseteq Txs
  /\ \A s \in Src : SrcTx(s) \in Txs /\ RecvTx(s) \in Txs
  /\ \A s \in Src, k \in Tasks : RefundTx(s, k) \in RefundTxs
  /\ FeeTx # DstTx /\ FeeTx # SettleTx /\ DstTx # SettleTx
  /\ \A s \in Src : SrcTx(s) # FeeTx /\ SrcTx(s) # DstTx /\ SrcTx(s) # SettleTx
  /\ \A s \in Src : RecvTx(s) # FeeTx /\ RecvTx(s) # DstTx /\ RecvTx(s) # SettleTx
  /\ \A s, r \in Src : SrcTx(s) # RecvTx(r)
  /\ FeeTx \notin RefundTxs /\ DstTx \notin RefundTxs /\ SettleTx \notin RefundTxs
  /\ \A s \in Src : SrcTx(s) \notin RefundTxs /\ RecvTx(s) \notin RefundTxs
  BY DEF Txs, RefundTxs, FeeTx, DstTx, SettleTx, SrcTx, RecvTx, RefundTx

\* A refund is known by its source.
LEMMA RefundFacts ==
  ASSUME NEW t \in RefundTxs
  PROVE  t[2] \in Src /\ \E k \in Tasks : t = RefundTx(t[2], k)
  BY DEF RefundTxs, RefundTx

(***************************************************************************)
(* The type invariant                                                      *)
(***************************************************************************)

LEMMA CopyType ==
  ASSUME NEW c \in Copies, NEW status \in Statuses
  PROVE  /\ [c EXCEPT !.status = status] \in Copies
         /\ [c EXCEPT !.status = status].status \notin {"off", "none"}
  BY DEF Copies, Statuses

LEMMA OffType == Off \in Copies /\ NoRow \in Copies /\ Off.status = "off" /\ NoRow.status = "none"
                 /\ NoRow.refunds = {} /\ Off.refunds = {}
  BY DEF Off, NoRow, Copy, Copies, Statuses

\* Where a handler may go.
LEMMA TargetType ==
  ASSUME NEW from, NEW to, CanTransition(from, to)
  PROVE  to \in Statuses
  BY DEF CanTransition, Statuses

LEMMA SetStatusType ==
  ASSUME TypeOK, NEW status \in Statuses, SetStatus(status)
  PROVE  row' \in Copies /\ row'.status # "off"
<1>1. /\ [row EXCEPT !.status = status] \in Copies
      /\ [row EXCEPT !.status = status].status \notin {"off", "none"}
  BY CopyType DEF TypeOK
<1> QED  BY <1>1 DEF TypeOK, SetStatus

LEMMA GotoType ==
  ASSUME TypeOK, NEW k \in Tasks, NEW status \in Statuses, Goto(k, status)
  PROVE  task' \in [Tasks -> Copies]
<1>1. task' = [task EXCEPT ![k] = [task[k] EXCEPT !.status = status]]  BY DEF Goto, TypeOK
<1> QED  BY <1>1, CopyType DEF TypeOK

LEMMA QueueType ==
  ASSUME TypeOK, NEW k \in Tasks, NEW ts, NEW status, NEW copy \in Copies,
         QueueAndSend(k, ts, status, copy)
  PROVE  row' \in Copies /\ row'.status # "off" /\ tx' \in [Txs -> TxStates] /\ status \in Statuses
<1>1. status \in Statuses  BY TargetType DEF QueueAndSend
<1>2. row' \in Copies /\ row'.status # "off"  BY <1>1, CopyType DEF QueueAndSend
<1>3. tx' \in [Txs -> TxStates]  BY DEF QueueAndSend, TypeOK, TxStates
<1> QED  BY <1>1, <1>2, <1>3

\* A delivery never makes a message pending again, and leaves none of the verified so.
LEMMA Delivered ==
  ASSUME TypeOK, NEW verified, packet' \in Deliveries(verified)
  PROVE  /\ packet' \in [Src -> PacketFates]
         /\ \A s \in Src : packet[s] # "pending" => packet'[s] # "pending"
         /\ \A s \in Packets \cap verified : packet'[s] # "pending"
<1>1. packet' \in [Src -> PacketFates]  BY DEF Deliveries
<1>2. Packets \subseteq Src  BY DEF Packets, TypeOK
<1>3. \A s \in Src : packet'[s] \in IF s \in Packets THEN Fates(s, s \in verified) ELSE {packet[s]}
  BY DEF Deliveries
<1>4. \A s \in Src : packet[s] # "pending" => packet'[s] # "pending"  BY <1>3 DEF Fates
<1>5. \A s \in Packets \cap verified : packet'[s] # "pending"  BY <1>2, <1>3 DEF Fates
<1> QED  BY <1>1, <1>4, <1>5

LEMMA StepType ==
  ASSUME TypeOK, NEW k \in Tasks, Step(k)
  PROVE  TypeOK'
<1> USE DEF taskVars, moneyVars, procVars
<1>0. task[k] \in Copies  BY DEF TypeOK
<1>1. CASE OnInit(k)
  <2>1. row' \in Copies /\ row'.status # "off" /\ task' \in [Tasks -> Copies]
    BY <1>1, SetStatusType, GotoType, TargetType DEF OnInit, UpdateBundleStatus
  <2> QED  BY <1>1, <2>1 DEF OnInit, TypeOK
<1>2. CASE OnLiquidityLocked(k)
  <2>1. PICK status, ts : QueueAndSend(k, ts, status, task[k]) /\ Goto(k, status)
    BY <1>2 DEF OnLiquidityLocked
  <2>2. row' \in Copies /\ row'.status # "off" /\ task' \in [Tasks -> Copies] /\ tx' \in [Txs -> TxStates]
    BY <1>0, <2>1, QueueType, GotoType
  <2> QED  BY <1>2, <2>2 DEF OnLiquidityLocked, TypeOK
<1>3. ASSUME NEW ts, NEW success \in Statuses, NEW failure \in Statuses,
             WatchPrerequisiteIntents(k, ts, success, failure)
      PROVE  TypeOK'
  <2>1. row' \in Copies /\ row'.status # "off" /\ task' \in [Tasks -> Copies]
    BY <1>3, SetStatusType, GotoType DEF WatchPrerequisiteIntents, UpdateBundleStatus, TypeOK
  <2> QED  BY <1>3, <2>1 DEF WatchPrerequisiteIntents, TypeOK
<1>4. CASE OnFeePayerQueued(k)  BY <1>3, <1>4 DEF OnFeePayerQueued, Statuses
<1>5. CASE OnSourceQueued(k)  BY <1>3, <1>5 DEF OnSourceQueued, Statuses
<1>6. CASE OnFeePayerCompleted(k)
  <2>2. row' \in Copies /\ row'.status # "off" /\ task' \in [Tasks -> Copies] /\ tx' \in [Txs -> TxStates]
    BY <1>0, <1>6, QueueType, GotoType DEF OnFeePayerCompleted
  <2> QED  BY <1>6, <2>2 DEF OnFeePayerCompleted, TypeOK
<1>7. CASE OnSourceConfirmed(k)
  <2>2. row' \in Copies /\ row'.status # "off" /\ task' \in [Tasks -> Copies] /\ tx' \in [Txs -> TxStates]
    BY <1>0, <1>7, QueueType, GotoType DEF OnSourceConfirmed
  <2> QED  BY <1>7, <2>2 DEF OnSourceConfirmed, TypeOK
<1>8. ASSUME NEW status, UpdateBundleStatus(k, status)
      PROVE  row' \in Copies /\ row'.status # "off" /\ task' \in [Tasks -> Copies]
  BY <1>8, SetStatusType, GotoType, TargetType DEF UpdateBundleStatus
<1>9. CASE OnDestinationQueued(k)  BY <1>8, <1>9 DEF OnDestinationQueued, TypeOK
<1>10. CASE OnFailures(k)
  <2>1. PICK status : UpdateBundleStatus(k, status)  BY <1>10 DEF OnFailures, ScheduleRefunds
  <2>2. scheduled' \in BOOLEAN  BY <1>10 DEF OnFailures, ScheduleRefunds, TypeOK
  <2> QED  BY <1>8, <1>10, <2>1, <2>2 DEF OnFailures, TypeOK
<1>11. CASE OnRefundsScheduled(k)  BY <1>11, OffType DEF OnRefundsScheduled, TypeOK
<1>12. CASE OnRefundsReady(k)
  <2> DEFINE new == {RefundTx(s, k) : s \in NeedRefund(k)}
  <2>1. new \in SUBSET RefundTxs /\ task[k].refunds \cup new \in SUBSET RefundTxs
    BY <1>0, TxFacts DEF NeedRefund, ConfirmedEscrows, Copies, TypeOK
  <2> HIDE DEF new
  <2>2. [task[k] EXCEPT !.refunds = @ \cup new] \in Copies  BY <1>0, <2>1 DEF Copies
  <2>3. row' \in Copies /\ row'.status # "off" /\ tx' \in [Txs -> TxStates]
    BY <1>12, <2>2, QueueType DEF OnRefundsReady, new
  <2>4. task' = [task EXCEPT ![k] = [task[k] EXCEPT !.status = "RefundsQueued", !.refunds = new]]
    BY <1>12 DEF OnRefundsReady, new, TypeOK
  <2>5. "RefundsQueued" \in Statuses  BY DEF Statuses
  <2>6. [task[k] EXCEPT !.status = "RefundsQueued", !.refunds = new] \in Copies
    BY <1>0, <2>1, <2>5 DEF Copies
  <2>7. task' \in [Tasks -> Copies]  BY <2>4, <2>6 DEF TypeOK
  <2> QED  BY <1>12, <2>3, <2>7 DEF OnRefundsReady, TypeOK
<1>13. CASE OnRefundsQueued(k)  BY <1>8, <1>13 DEF OnRefundsQueued, TypeOK
<1>14. CASE OnDestinationConfirmed(k)
  <2>1. row' \in Copies /\ row'.status # "off" /\ task' \in [Tasks -> Copies] /\ tx' \in [Txs -> TxStates]
    BY <1>0, <1>8, <1>14, QueueType, GotoType DEF OnDestinationConfirmed, TypeOK
  <2> QED  BY <1>14, <2>1 DEF OnDestinationConfirmed, TypeOK
<1>15. CASE OnSettlementsQueued(k)  BY <1>8, <1>15 DEF OnSettlementsQueued, TypeOK
<1>16. ASSUME NEW failed \in SUBSET Src, OnSettlementsProcessing(k, failed)
       PROVE  TypeOK'
  <2>0. PICK unverified \in BOOLEAN : unverified = (failed # {})  OBVIOUS
  <2>1. [task[k] EXCEPT !.unverified = unverified] \in Copies  BY <1>0 DEF Copies
  <2>2. row' \in Copies /\ row'.status # "off" /\ tx' \in [Txs -> TxStates]
    BY <1>16, <2>0, <2>1, QueueType DEF OnSettlementsProcessing
  <2>3. task' = [task EXCEPT ![k] =
                   [task[k] EXCEPT !.status = "SettlementCompletionQueued", !.unverified = unverified]]
    BY <1>16, <2>0 DEF OnSettlementsProcessing, TypeOK
  <2>4. "SettlementCompletionQueued" \in Statuses  BY DEF Statuses
  <2>5. [task[k] EXCEPT !.status = "SettlementCompletionQueued", !.unverified = unverified] \in Copies
    BY <1>0, <2>4 DEF Copies
  <2>6. task' \in [Tasks -> Copies]  BY <2>3, <2>5 DEF TypeOK
  <2>7. packet' \in [Src -> PacketFates]  BY <1>16, Delivered DEF OnSettlementsProcessing
  <2> QED  BY <1>16, <2>2, <2>6, <2>7 DEF OnSettlementsProcessing, TypeOK
<1>17. CASE OnSettlementCompletionQueued(k)  BY <1>8, <1>17 DEF OnSettlementCompletionQueued, TypeOK
<1>18. CASE OnEnd(k)
  <2>1. task' \in [Tasks -> Copies]  BY <1>18, OffType DEF OnEnd, TypeOK
  <2>2. /\ row' \in Copies /\ row'.status # "off" /\ finished' \in Statuses \cup {"none"}
        /\ died' \in BOOLEAN
    BY <1>18, OffType DEF OnEnd, TypeOK, Copies
  <2> QED  BY <1>18, <2>1, <2>2 DEF OnEnd, TypeOK
<1> QED  BY <1>1, <1>2, <1>4, <1>5, <1>6, <1>7, <1>9, <1>10, <1>11, <1>12, <1>13, <1>14, <1>15,
            <1>16, <1>17, <1>18 DEF Step

LEMMA NextType ==
  ASSUME TypeOK, [Next]_vars
  PROVE  TypeOK'
<1> USE DEF taskVars, moneyVars, procVars
<1>1. CASE UNCHANGED vars  BY <1>1 DEF vars, TypeOK
<1>2. ASSUME NEW t \in Txs, NEW outcome \in Outcomes, TxEnds(t, outcome)
      PROVE  TypeOK'
  BY <1>2 DEF TxEnds, TypeOK, TxStates
<1>3. ASSUME NEW k \in Tasks, TaskFails(k)
      PROVE  TypeOK'
  <2>1. packet' \in [Src -> PacketFates]  BY <1>3, Delivered DEF TaskFails, TypeOK
  <2> QED  BY <1>3, <2>1, OffType DEF TaskFails, TypeOK
<1>4. ASSUME NEW copy \in Copies, Spawn(copy)
      PROVE  started' \in Nat /\ task' \in [Tasks -> Copies]
  BY <1>4, TaskAssumption DEF Spawn, TypeOK, Tasks
<1>5. CASE MarkRefundReady
  <2>1. "RefundsReady" \in Statuses  BY DEF Statuses
  <2>2. row' \in Copies /\ row'.status # "off"  BY <1>5, <2>1, SetStatusType DEF MarkRefundReady
  <2>3. marked' \in Copies  BY <1>5, <2>1, CopyType DEF MarkRefundReady, TypeOK
  <2> QED  BY <1>5, <2>2, <2>3 DEF MarkRefundReady, TypeOK
<1>6. CASE ResumeForRefund  BY <1>4, <1>6, OffType DEF ResumeForRefund, TypeOK
<1>7. CASE Restart
  <2>1. task' \in [Tasks -> Copies] /\ marked' \in Copies  BY <1>7, OffType DEF Restart
  <2>2. restarts' \in Nat  BY <1>7 DEF Restart, TypeOK
  <2> QED  BY <1>7, <2>1, <2>2 DEF Restart, TypeOK
<1>8. CASE LoadPendingBundles  BY <1>4, <1>8 DEF LoadPendingBundles, TypeOK
<1> QED  BY <1>1, <1>2, <1>3, <1>5, <1>6, <1>7, <1>8, StepType DEF Next

(***************************************************************************)
(* Before refunds: one task                                                *)
(***************************************************************************)

\* The task of a bundle moves on: the row follows it, or a success is noted.
LEMMA Moved ==
  ASSUME TypeOK, OneTask, NEW k \in Tasks, Live(k), NEW c \in Copies,
         c.status \in Statuses \ RefundStatuses, c.refunds = {},
         task' = [task EXCEPT ![k] = c],
         UNCHANGED <<scheduled, marked, booting, finished>>,
         None(RefundTxs)', Reached(c)',
         \/ row' = c
         \/ /\ row' = row /\ Reached(row)' /\ c.unverified = row.unverified
            /\ <<c.status, row.status>> \in Ahead
  PROVE  OneTask'
<1>1. row.status # "none" /\ row.status \notin RefundStatuses /\ finished = "none" /\ row.refunds = {}
      /\ ~booting
  BY DEF OneTask
<1>2. c.status # "none" /\ c.status # "off"  BY DEF Statuses
<1>3. task'[k] = c /\ \A j \in Tasks : j # k => task'[j] = task[j]  BY DEF TypeOK
<1>4. \A j \in Tasks : j # k => ~Live(j)  BY DEF OneTask
<1>5. \A j \in Tasks : Live(j)' => j = k  BY <1>3, <1>4 DEF Live
<1>6. row'.status # "none" /\ row'.status \notin RefundStatuses /\ row'.refunds = {}
  BY <1>1, <1>2
<1>7. Reached(row)'
  <2>1. CASE row' = c  BY <2>1 DEF Reached
  <2> QED  BY <2>1
<1>8. ASSUME NEW j \in Tasks, Live(j)'
      PROVE  /\ task'[j].status \in Statuses \ RefundStatuses /\ Reached(task[j])'
             /\ task'[j].status = row'.status \/ <<task'[j].status, row'.status>> \in Ahead
             /\ task'[j].refunds = {} /\ task'[j].unverified = row'.unverified
  <2>1. task'[j] = c  BY <1>3, <1>5, <1>8
  <2>2. Reached(task[j])'  BY <2>1 DEF Reached
  <2> QED  BY <2>1, <2>2
<1>9. ~scheduled' /\ marked' = NoRow  BY DEF OneTask
<1> QED  BY <1>1, <1>5, <1>6, <1>7, <1>8, <1>9 DEF OneTask

\* What a live task knows of its row.
LEMMA LiveFacts ==
  ASSUME TypeOK, OneTask, NEW k \in Tasks, Live(k)
  PROVE  /\ row.status # "none" /\ finished = "none" /\ row.refunds = {} /\ None(RefundTxs)
         /\ task[k] \in Copies /\ task[k].refunds = {} /\ task[k].unverified = row.unverified
         /\ task[k].status \in Statuses \ RefundStatuses /\ Reached(task[k])
  BY DEF OneTask, TypeOK

\* update_bundle_status leaves the row and the task's copy the same.
LEMMA Advance ==
  ASSUME TypeOK, OneTask, NEW k \in Tasks, Live(k), NEW status, UpdateBundleStatus(k, status)
  PROVE  \E c \in Copies : /\ c.status = status /\ c.refunds = {}
                           /\ c.unverified = task[k].unverified
                           /\ row' = c /\ task' = [task EXCEPT ![k] = c]
<1>1. status \in Statuses  BY TargetType DEF UpdateBundleStatus
<1>2. PICK c \in Copies : c = [task[k] EXCEPT !.status = status]
  BY <1>1, CopyType, LiveFacts
<1>3. c.status = status /\ c.refunds = {} /\ c.unverified = task[k].unverified
  BY <1>2, LiveFacts DEF Copies
<1>4. task' = [task EXCEPT ![k] = c]  BY <1>2 DEF UpdateBundleStatus, Goto, TypeOK
<1>5. row' = [row EXCEPT !.status = status]  BY LiveFacts DEF UpdateBundleStatus, SetStatus
<1>6. row' = c  BY <1>2, <1>5, LiveFacts DEF TypeOK, Copies
<1> QED  BY <1>3, <1>4, <1>6

\* So does queue_and_send_bundle_transactions.
LEMMA Sent ==
  ASSUME TypeOK, OneTask, NEW k \in Tasks, Live(k), NEW ts, NEW status,
         QueueAndSend(k, ts, status, task[k]), Goto(k, status)
  PROVE  \E c \in Copies : /\ c.status = status /\ c.refunds = {}
                           /\ c.unverified = task[k].unverified
                           /\ row' = c /\ task' = [task EXCEPT ![k] = c]
<1>1. status \in Statuses  BY TargetType DEF QueueAndSend
<1>2. PICK c \in Copies : c = [task[k] EXCEPT !.status = status]
  BY <1>1, CopyType, LiveFacts
<1>3. c.status = status /\ c.refunds = {} /\ c.unverified = task[k].unverified
  BY <1>2, LiveFacts DEF Copies
<1>4. task' = [task EXCEPT ![k] = c]  BY <1>2 DEF Goto, TypeOK
<1>5. row' = c  BY <1>2 DEF QueueAndSend
<1> QED  BY <1>3, <1>4, <1>5

\* No refund is queued by queueing something else.
LEMMA Unsent ==
  ASSUME TypeOK, NEW ts, tx' = [t \in Txs |-> IF t \in ts THEN "queued" ELSE tx[t]],
         UNCHANGED bundle, ts \cap RefundTxs = {}, None(RefundTxs)
  PROVE  None(RefundTxs)'
  BY TxFacts DEF None

(***************************************************************************)
(* One lemma per handler: the task's new status tells the truth.           *)
(***************************************************************************)

LEMMA InitKeeps ==
  ASSUME IInv, OneTask, NEW k \in Tasks, OnInit(k)
  PROVE  OneTask' /\ PaysOnlyAfterSources'
<1> USE DEF taskVars, moneyVars, procVars, At
<1>0. Live(k) /\ TypeOK  BY DEF OnInit, Live, IInv
<1>1. PICK c \in Copies : /\ c.status = "LiquidityLocked" /\ c.refunds = {}
                          /\ row' = c /\ task' = [task EXCEPT ![k] = c]
  BY <1>0, Advance DEF OnInit
<1>2. Reached(task[k]) /\ None(RefundTxs) /\ task[k].status = "Init"  BY <1>0, LiveFacts DEF OnInit
<1>3. None(RefundTxs)'  BY <1>2 DEF OnInit, None
<1>4. Reached(c)'
  BY <1>1, <1>2 DEF OnInit, Reached, None, SrcTxs, BeforeSources, BeforePayout, Paid, HoldsLock
<1>5. PaysOnlyAfterSources'  BY DEF OnInit, PaysOnlyAfterSources, IInv, AllOk, FeeTxs, SrcTxs
<1> QED  BY <1>0, <1>1, <1>3, <1>4, <1>5, Moved DEF OnInit, Statuses, RefundStatuses

LEMMA LiquidityLockedKeeps ==
  ASSUME IInv, OneTask, NEW k \in Tasks, OnLiquidityLocked(k)
  PROVE  OneTask' /\ PaysOnlyAfterSources'
<1> USE DEF taskVars, moneyVars, procVars, At
<1>0. Live(k) /\ TypeOK  BY DEF OnLiquidityLocked, Live, IInv
<1>2. Reached(task[k]) /\ None(RefundTxs) /\ task[k].status = "LiquidityLocked"
  BY <1>0, LiveFacts DEF OnLiquidityLocked
<1>3. None(SrcTxs) /\ None({DstTx} \cup LateTxs) /\ locks = 1 /\ unlocks = 0
  BY <1>2 DEF Reached, BeforeSources, BeforePayout, HoldsLock
<1>4. UNCHANGED <<bundle, scheduled, marked, booting, finished, locks, unlocks, packet>>
  BY DEF OnLiquidityLocked
<1>5. bundle.src \subseteq Src  BY <1>0 DEF TypeOK
<1>6. CASE bundle.fee
  <2>1. QueueAndSend(k, FeeTxs, "FeePayerQueued", task[k]) /\ Goto(k, "FeePayerQueued")
    BY <1>6 DEF OnLiquidityLocked
  <2>2. PICK c \in Copies : /\ c.status = "FeePayerQueued" /\ c.refunds = {}
                            /\ row' = c /\ task' = [task EXCEPT ![k] = c]
    BY <1>0, <2>1, Sent
  <2>3. tx' = [t \in Txs |-> IF t \in FeeTxs THEN "queued" ELSE tx[t]]  BY <2>1 DEF QueueAndSend
  <2>4. FeeTxs = {FeeTx}  BY <1>6 DEF FeeTxs
  <2>5. None(RefundTxs)'  BY <1>0, <1>2, <1>4, <2>3, <2>4, Unsent, TxFacts
  <2>6. None(SrcTxs)' /\ None({DstTx} \cup LateTxs)'
    BY <1>3, <1>4, <1>5, <2>3, <2>4, TxFacts DEF None, SrcTxs, LateTxs
  <2>7. Reached(c)'
    BY <1>3, <1>4, <2>2, <2>6 DEF Reached, BeforeSources, BeforePayout, Paid, HoldsLock
  <2>8. PaysOnlyAfterSources'  BY <2>6 DEF PaysOnlyAfterSources, None
  <2> QED  BY <1>0, <1>4, <2>2, <2>5, <2>7, <2>8, Moved DEF Statuses, RefundStatuses
<1>7. CASE ~bundle.fee
  <2>1. QueueAndSend(k, SrcTxs, "SourceQueued", task[k]) /\ Goto(k, "SourceQueued")
    BY <1>7 DEF OnLiquidityLocked
  <2>2. PICK c \in Copies : /\ c.status = "SourceQueued" /\ c.refunds = {}
                            /\ row' = c /\ task' = [task EXCEPT ![k] = c]
    BY <1>0, <2>1, Sent
  <2>3. tx' = [t \in Txs |-> IF t \in SrcTxs THEN "queued" ELSE tx[t]]  BY <2>1 DEF QueueAndSend
  <2>4. AllOk(FeeTxs)'  BY <1>4, <1>7 DEF FeeTxs, AllOk
  <2>5. None(RefundTxs)'
    <3>1. SrcTxs \cap RefundTxs = {}  BY <1>5, TxFacts DEF SrcTxs
    <3> QED  BY <1>0, <1>2, <1>4, <2>3, <3>1, Unsent
  <2>6. None({DstTx} \cup LateTxs)'
    BY <1>3, <1>4, <1>5, <2>3, TxFacts DEF None, SrcTxs, LateTxs
  <2>7. Reached(c)'
    BY <1>3, <1>4, <2>2, <2>4, <2>6 DEF Reached, BeforeSources, BeforePayout, Paid, HoldsLock
  <2>8. PaysOnlyAfterSources'  BY <2>6 DEF PaysOnlyAfterSources, None
  <2> QED  BY <1>0, <1>4, <2>2, <2>5, <2>7, <2>8, Moved DEF Statuses, RefundStatuses
<1> QED  BY <1>6, <1>7

\* The watch of the prerequisites notes a success in the task only.
LEMMA FeePayerQueuedKeeps ==
  ASSUME IInv, OneTask, NEW k \in Tasks, OnFeePayerQueued(k)
  PROVE  OneTask' /\ PaysOnlyAfterSources'
<1> USE DEF taskVars, moneyVars, procVars, At
<1>0. Live(k) /\ TypeOK  BY DEF OnFeePayerQueued, Live, IInv
<1>2. Reached(task[k]) /\ None(RefundTxs) /\ task[k].status = "FeePayerQueued"
  BY <1>0, LiveFacts DEF OnFeePayerQueued
<1>3. None(SrcTxs) /\ None({DstTx} \cup LateTxs) /\ locks = 1 /\ unlocks = 0
  BY <1>2 DEF Reached, BeforeSources, BeforePayout, HoldsLock
<1>4. UNCHANGED <<bundle, scheduled, marked, booting, finished, locks, packet, tx>>
  BY DEF OnFeePayerQueued, WatchPrerequisiteIntents
<1>5. None(RefundTxs)' /\ None(SrcTxs)' /\ None({DstTx} \cup LateTxs)'
  BY <1>2, <1>3, <1>4 DEF None, SrcTxs
<1>6. PaysOnlyAfterSources'  BY <1>5 DEF PaysOnlyAfterSources, None
<1>7. CASE AllOk(FeeTxs) /\ Goto(k, "FeePayerCompleted") /\ UNCHANGED <<row, unlocks>>
  <2>1. PICK c \in Copies : c = [task[k] EXCEPT !.status = "FeePayerCompleted"]
    BY <1>0, CopyType, LiveFacts DEF Statuses
  <2>2. /\ c.status = "FeePayerCompleted" /\ c.refunds = {} /\ c.unverified = row.unverified
        /\ task' = [task EXCEPT ![k] = c]
    BY <1>0, <1>7, <2>1, LiveFacts DEF Goto, Copies, TypeOK
  <2>3. AllOk(FeeTxs)'  BY <1>4, <1>7 DEF AllOk, FeeTxs
  <2>4. Reached(c)'
    BY <1>3, <1>4, <1>5, <1>7, <2>2, <2>3 DEF Reached, BeforeSources, BeforePayout, Paid, HoldsLock
  <2>5. row.status = "FeePayerQueued"
    BY <1>0, <1>2 DEF OneTask, Ahead
  <2>6. Reached(row)'
    BY <1>3, <1>4, <1>5, <1>7, <2>5 DEF Reached, BeforeSources, BeforePayout, Paid, HoldsLock
  <2> QED  BY <1>0, <1>4, <1>5, <1>6, <1>7, <2>2, <2>4, <2>5, <2>6, Moved
           DEF Statuses, RefundStatuses, Ahead
<1>8. CASE UpdateBundleStatus(k, "Failed") /\ unlocks' = unlocks + 1
  <2>2. PICK c \in Copies : /\ c.status = "Failed" /\ c.refunds = {}
                            /\ row' = c /\ task' = [task EXCEPT ![k] = c]
    BY <1>0, <1>8, Advance
  <2>3. \A s \in bundle'.src : tx'[SrcTx(s)] = "none"  BY <1>5 DEF None, SrcTxs
  <2>4. tx'[DstTx] = "none"  BY <1>5 DEF None
  <2>5. Reached(c)'
    BY <1>3, <1>4, <1>8, <2>2, <2>3, <2>4 DEF Reached, BeforeSources, BeforePayout, Paid, HoldsLock
  <2> QED  BY <1>0, <1>4, <1>5, <1>6, <2>2, <2>5, Moved DEF Statuses, RefundStatuses
<1> QED  BY <1>7, <1>8 DEF OnFeePayerQueued, WatchPrerequisiteIntents

LEMMA FeePayerCompletedKeeps ==
  ASSUME IInv, OneTask, NEW k \in Tasks, OnFeePayerCompleted(k)
  PROVE  OneTask' /\ PaysOnlyAfterSources'
<1> USE DEF taskVars, moneyVars, procVars, At
<1>0. Live(k) /\ TypeOK  BY DEF OnFeePayerCompleted, Live, IInv
<1>2. Reached(task[k]) /\ None(RefundTxs) /\ task[k].status = "FeePayerCompleted"
  BY <1>0, LiveFacts DEF OnFeePayerCompleted
<1>3. None({DstTx} \cup LateTxs) /\ locks = 1 /\ unlocks = 0 /\ AllOk(FeeTxs)
  BY <1>2 DEF Reached, BeforeSources, BeforePayout, HoldsLock
<1>4. UNCHANGED <<bundle, scheduled, marked, booting, finished, locks, unlocks, packet>>
  BY DEF OnFeePayerCompleted
<1>5. bundle.src \subseteq Src  BY <1>0 DEF TypeOK
<1>6. QueueAndSend(k, SrcTxs, "SourceQueued", task[k]) /\ Goto(k, "SourceQueued")
  BY DEF OnFeePayerCompleted
<1>7. PICK c \in Copies : /\ c.status = "SourceQueued" /\ c.refunds = {}
                          /\ row' = c /\ task' = [task EXCEPT ![k] = c]
  BY <1>0, <1>6, Sent
<1>8. tx' = [t \in Txs |-> IF t \in SrcTxs THEN "queued" ELSE tx[t]]  BY <1>6 DEF QueueAndSend
<1>9. AllOk(FeeTxs)'  BY <1>3, <1>4, <1>5, <1>8, TxFacts DEF FeeTxs, SrcTxs, AllOk
<1>10. None(RefundTxs)'
  <2>1. SrcTxs \cap RefundTxs = {}  BY <1>5, TxFacts DEF SrcTxs
  <2> QED  BY <1>0, <1>2, <1>4, <1>8, <2>1, Unsent
<1>11. None({DstTx} \cup LateTxs)'
  BY <1>3, <1>4, <1>5, <1>8, TxFacts DEF None, SrcTxs, LateTxs
<1>12. Reached(c)'
  BY <1>3, <1>4, <1>7, <1>9, <1>11 DEF Reached, BeforeSources, BeforePayout, Paid, HoldsLock
<1>13. PaysOnlyAfterSources'  BY <1>11 DEF PaysOnlyAfterSources, None
<1> QED  BY <1>0, <1>4, <1>7, <1>10, <1>12, <1>13, Moved DEF Statuses, RefundStatuses

LEMMA SourceQueuedKeeps ==
  ASSUME IInv, OneTask, NEW k \in Tasks, OnSourceQueued(k)
  PROVE  OneTask' /\ PaysOnlyAfterSources'
<1> USE DEF taskVars, moneyVars, procVars, At
<1>0. Live(k) /\ TypeOK  BY DEF OnSourceQueued, Live, IInv
<1>2. Reached(task[k]) /\ None(RefundTxs) /\ task[k].status = "SourceQueued"
  BY <1>0, LiveFacts DEF OnSourceQueued
<1>3. None({DstTx} \cup LateTxs) /\ locks = 1 /\ unlocks = 0 /\ AllOk(FeeTxs)
  BY <1>2 DEF Reached, BeforeSources, BeforePayout, HoldsLock
<1>4. UNCHANGED <<bundle, scheduled, marked, booting, finished, locks, packet, tx>>
  BY DEF OnSourceQueued, WatchPrerequisiteIntents
<1>5. None(RefundTxs)' /\ None({DstTx} \cup LateTxs)' /\ AllOk(FeeTxs)'
  BY <1>2, <1>3, <1>4 DEF None, AllOk, FeeTxs
<1>6. PaysOnlyAfterSources'  BY <1>5 DEF PaysOnlyAfterSources, None
<1>7. CASE AllOk(SrcTxs) /\ Goto(k, "SourceConfirmed") /\ UNCHANGED <<row, unlocks>>
  <2>1. PICK c \in Copies : c = [task[k] EXCEPT !.status = "SourceConfirmed"]
    BY <1>0, CopyType, LiveFacts DEF Statuses
  <2>2. /\ c.status = "SourceConfirmed" /\ c.refunds = {} /\ c.unverified = row.unverified
        /\ task' = [task EXCEPT ![k] = c]
    BY <1>0, <1>7, <2>1, LiveFacts DEF Goto, Copies, TypeOK
  <2>3. AllOk(SrcTxs)'  BY <1>4, <1>7 DEF AllOk, SrcTxs
  <2>4. Reached(c)'
    BY <1>3, <1>4, <1>5, <1>7, <2>2, <2>3 DEF Reached, BeforeSources, BeforePayout, Paid, HoldsLock
  <2>5. row.status = "SourceQueued"
    BY <1>0, <1>2 DEF OneTask, Ahead
  <2>6. Reached(row)'
    BY <1>3, <1>4, <1>5, <1>7, <2>5 DEF Reached, BeforeSources, BeforePayout, Paid, HoldsLock
  <2> QED  BY <1>0, <1>4, <1>5, <1>6, <1>7, <2>2, <2>4, <2>5, <2>6, Moved
           DEF Statuses, RefundStatuses, Ahead
<1>8. CASE UpdateBundleStatus(k, "SourceFailures") /\ unlocks' = unlocks + 1
  <2>2. PICK c \in Copies : /\ c.status = "SourceFailures" /\ c.refunds = {}
                            /\ row' = c /\ task' = [task EXCEPT ![k] = c]
    BY <1>0, <1>8, Advance
  <2>3. Final(SrcTxs)'
    BY <1>4 DEF OnSourceQueued, WatchPrerequisiteIntents, Final, SrcTxs
  <2>4. tx'[DstTx] = "none"  BY <1>5 DEF None
  <2>5. Reached(c)'
    BY <1>3, <1>4, <1>5, <1>8, <2>2, <2>3, <2>4
    DEF Reached, BeforeSources, BeforePayout, Paid, HoldsLock
  <2> QED  BY <1>0, <1>4, <1>5, <1>6, <2>2, <2>5, Moved DEF Statuses, RefundStatuses
<1> QED  BY <1>7, <1>8 DEF OnSourceQueued, WatchPrerequisiteIntents

LEMMA SourceConfirmedKeeps ==
  ASSUME IInv, OneTask, NEW k \in Tasks, OnSourceConfirmed(k)
  PROVE  OneTask' /\ PaysOnlyAfterSources'
<1> USE DEF taskVars, moneyVars, procVars, At
<1>0. Live(k) /\ TypeOK  BY DEF OnSourceConfirmed, Live, IInv
<1>2. Reached(task[k]) /\ None(RefundTxs) /\ task[k].status = "SourceConfirmed"
  BY <1>0, LiveFacts DEF OnSourceConfirmed
<1>3. None({DstTx} \cup LateTxs) /\ locks = 1 /\ unlocks = 0 /\ AllOk(FeeTxs) /\ AllOk(SrcTxs)
  BY <1>2 DEF Reached, BeforeSources, BeforePayout, HoldsLock
<1>4. UNCHANGED <<bundle, scheduled, marked, booting, finished, locks, unlocks, packet>>
  BY DEF OnSourceConfirmed
<1>5. bundle.src \subseteq Src  BY <1>0 DEF TypeOK
<1>6. QueueAndSend(k, {DstTx}, "DestinationQueued", task[k]) /\ Goto(k, "DestinationQueued")
  BY DEF OnSourceConfirmed
<1>7. PICK c \in Copies : /\ c.status = "DestinationQueued" /\ c.refunds = {}
                          /\ row' = c /\ task' = [task EXCEPT ![k] = c]
  BY <1>0, <1>6, Sent
<1>8. tx' = [t \in Txs |-> IF t \in {DstTx} THEN "queued" ELSE tx[t]]  BY <1>6 DEF QueueAndSend
<1>9. PaysOnlyAfterSources'
  <2>1. AllOk(FeeTxs)'  BY <1>3, <1>4, <1>8, TxFacts DEF FeeTxs, AllOk
  <2>2. AllOk(SrcTxs)'  BY <1>3, <1>4, <1>5, <1>8, TxFacts DEF SrcTxs, AllOk
  <2> QED  BY <2>1, <2>2 DEF PaysOnlyAfterSources, AllOk
<1>10. None(RefundTxs)'  BY <1>0, <1>2, <1>4, <1>8, Unsent, TxFacts
<1>11. None(LateTxs)'  BY <1>3, <1>8, TxFacts DEF None, LateTxs
<1>12. tx'[DstTx] = "queued"  BY <1>8, TxFacts
<1>13. Reached(c)'
  BY <1>3, <1>4, <1>7, <1>11, <1>12 DEF Reached, BeforeSources, BeforePayout, Paid, HoldsLock
<1> QED  BY <1>0, <1>4, <1>7, <1>9, <1>10, <1>13, Moved DEF Statuses, RefundStatuses

LEMMA DestinationQueuedKeeps ==
  ASSUME IInv, OneTask, NEW k \in Tasks, OnDestinationQueued(k)
  PROVE  OneTask' /\ PaysOnlyAfterSources'
<1> USE DEF taskVars, moneyVars, procVars, At
<1>0. Live(k) /\ TypeOK  BY DEF OnDestinationQueued, Live, IInv
<1>2. Reached(task[k]) /\ None(RefundTxs) /\ task[k].status = "DestinationQueued"
  BY <1>0, LiveFacts DEF OnDestinationQueued
<1>3. None(LateTxs) /\ locks = 1 /\ unlocks = 0  BY <1>2 DEF Reached, HoldsLock
<1>4. UNCHANGED <<bundle, scheduled, marked, booting, finished, locks, packet, tx>>
      /\ unlocks' = 1
  BY <1>3 DEF OnDestinationQueued
<1>5. None(RefundTxs)' /\ None(LateTxs)'  BY <1>2, <1>3, <1>4 DEF None
<1>6. PaysOnlyAfterSources'  BY <1>4 DEF IInv, PaysOnlyAfterSources, AllOk, FeeTxs, SrcTxs
<1>7. tx'[DstTx] \in Outcomes /\ (tx'[DstTx] = "ok" <=> AllOk({DstTx}))
  BY <1>4 DEF OnDestinationQueued, Final, AllOk
<1>8. PICK c \in Copies : /\ c.status = DestinationOutcome /\ c.refunds = {}
                          /\ row' = c /\ task' = [task EXCEPT ![k] = c]
  BY <1>0, Advance DEF OnDestinationQueued
<1>9. CASE AllOk({DstTx})
  <2>1. c.status = "DestinationConfirmed"  BY <1>8, <1>9 DEF DestinationOutcome
  <2>2. Reached(c)'
    BY <1>3, <1>4, <1>5, <1>7, <1>9, <2>1 DEF Reached, BeforeSources, BeforePayout, Paid, HoldsLock
  <2> QED  BY <1>0, <1>4, <1>5, <1>6, <1>8, <2>1, <2>2, Moved DEF Statuses, RefundStatuses
<1>10. CASE ~AllOk({DstTx})
  <2>1. c.status = "DestinationFailures"  BY <1>8, <1>10 DEF DestinationOutcome
  <2>2. Reached(c)'
    BY <1>3, <1>4, <1>5, <1>7, <1>10, <2>1
    DEF Reached, BeforeSources, BeforePayout, Paid, HoldsLock, Outcomes
  <2> QED  BY <1>0, <1>4, <1>5, <1>6, <1>8, <2>1, <2>2, Moved DEF Statuses, RefundStatuses
<1> QED  BY <1>9, <1>10

\* schedule_refunds: without an escrow to refund the bundle has failed, otherwise
\* the refunds begin.
LEMMA FailuresKeep ==
  ASSUME IInv, OneTask, NEW k \in Tasks, OnFailures(k)
  PROVE  (OneTask' \/ Refunding') /\ PaysOnlyAfterSources'
<1> USE DEF taskVars, moneyVars, procVars, At
<1>0. Live(k) /\ TypeOK  BY DEF OnFailures, Live, IInv
<1>1. task[k].status \in {"SourceFailures", "DestinationFailures"}  BY DEF OnFailures
<1>2. Reached(task[k]) /\ None(RefundTxs) /\ finished = "none" /\ row.status # "none"
  BY <1>0, LiveFacts
<1>3. None(LateTxs) /\ locks = 1 /\ unlocks = 1 /\ tx[DstTx] \notin {"ok", "queued"}
  BY <1>1, <1>2 DEF Reached, None, BeforePayout, HoldsLock, BeforeSources
<1>4. UNCHANGED <<bundle, marked, booting, finished, locks, unlocks, packet, tx>>
  BY DEF OnFailures
<1>5. Final(SrcTxs)
  <2>1. CASE task[k].status = "SourceFailures"  BY <1>2, <2>1 DEF Reached
  <2>2. CASE task[k].status = "DestinationFailures"
    <3>1. tx[DstTx] # "none"  BY <1>2, <2>2 DEF Reached
    <3>2. AllOk(FeeTxs \cup SrcTxs)  BY <3>1 DEF IInv, PaysOnlyAfterSources
    <3> QED  BY <3>2 DEF AllOk, Final, Outcomes
  <2> QED  BY <1>1, <2>1, <2>2
<1>6. PaysOnlyAfterSources'  BY <1>4 DEF IInv, PaysOnlyAfterSources, AllOk, FeeTxs, SrcTxs
<1>7. None(RefundTxs)' /\ None(LateTxs)' /\ Final(SrcTxs)'
  BY <1>2, <1>3, <1>4, <1>5 DEF None, Final, SrcTxs
<1>8. CASE ConfirmedEscrows = {}
  <2>1. UpdateBundleStatus(k, "Failed") /\ UNCHANGED scheduled
    BY <1>8 DEF OnFailures, ScheduleRefunds
  <2>2. PICK c \in Copies : /\ c.status = "Failed" /\ c.refunds = {}
                            /\ row' = c /\ task' = [task EXCEPT ![k] = c]
    BY <1>0, <2>1, Advance
  <2>3. \A s \in bundle'.src : tx'[SrcTx(s)] \in {"none", "failed"}
    BY <1>4, <1>5, <1>8 DEF ConfirmedEscrows, Confirmed, Final, SrcTxs, Outcomes
  <2>4. Reached(c)'
    BY <1>3, <1>4, <2>2, <2>3 DEF Reached, BeforeSources, BeforePayout, Paid, HoldsLock
  <2> QED  BY <1>0, <1>4, <1>6, <1>7, <2>1, <2>2, <2>4, Moved DEF Statuses, RefundStatuses
<1>9. CASE ConfirmedEscrows # {}
  <2>1. UpdateBundleStatus(k, "RefundsScheduled")  BY <1>9 DEF OnFailures, ScheduleRefunds
  <2>2. PICK c \in Copies : /\ c.status = "RefundsScheduled" /\ c.refunds = {}
                            /\ row' = c /\ task' = [task EXCEPT ![k] = c]
    BY <1>0, <2>1, Advance
  <2>3. marked' = NoRow /\ finished' = "none"  BY <1>2, <1>4 DEF OneTask
  <2>4. \A j \in Tasks : j # k => task[j].status = "off" BY <1>0 DEF OneTask, Live
  <2>5. \A j \in Tasks : task'[j].status \in {"off", "RefundsScheduled"}
    BY <1>0, <2>2, <2>4 DEF TypeOK
  <2>6. \A j \in Tasks : Live(j)' => task'[j].refunds \subseteq Begun'
    <3>1. \A j \in Tasks : Live(j)' => j = k  BY <1>0, <2>2, <2>4 DEF Live, TypeOK
    <3> QED  BY <1>0, <2>2, <3>1 DEF TypeOK
  <2>7. tx'[DstTx] \in {"none", "reverted", "failed"}
    BY <1>0, <1>3, <1>4, TxFacts DEF TypeOK, TxStates, Outcomes
  <2> QED  BY <1>3, <1>4, <1>6, <1>7, <2>2, <2>3, <2>5, <2>6, <2>7, OffType
           DEF Refunding, RefundStatuses
<1> QED  BY <1>8, <1>9

LEMMA DestinationConfirmedKeeps ==
  ASSUME IInv, OneTask, NEW k \in Tasks, OnDestinationConfirmed(k)
  PROVE  OneTask' /\ PaysOnlyAfterSources'
<1> USE DEF taskVars, moneyVars, procVars, At
<1>0. Live(k) /\ TypeOK  BY DEF OnDestinationConfirmed, Live, IInv
<1>2. Reached(task[k]) /\ None(RefundTxs) /\ task[k].status = "DestinationConfirmed"
  BY <1>0, LiveFacts DEF OnDestinationConfirmed
<1>3. None(LateTxs) /\ locks = 1 /\ unlocks = 1 /\ tx[DstTx] = "ok"
  BY <1>2 DEF Reached, HoldsLock, BeforePayout, BeforeSources, Paid
<1>4. UNCHANGED <<bundle, scheduled, marked, booting, finished, locks, unlocks, packet>>
  BY DEF OnDestinationConfirmed
<1>5. CASE bundle.src = {} /\ UpdateBundleStatus(k, "Done") /\ UNCHANGED tx
  <2>1. PICK c \in Copies : /\ c.status = "Done" /\ c.refunds = {}
                            /\ row' = c /\ task' = [task EXCEPT ![k] = c]
    BY <1>0, <1>5, Advance
  <2>2. Reached(c)'
    BY <1>3, <1>4, <1>5, <2>1 DEF Reached, BeforeSources, BeforePayout, Paid, HoldsLock
  <2>3. None(RefundTxs)'  BY <1>2, <1>5 DEF None
  <2>4. PaysOnlyAfterSources'  BY <1>4, <1>5 DEF IInv, PaysOnlyAfterSources, AllOk, FeeTxs, SrcTxs
  <2> QED  BY <1>0, <1>4, <2>1, <2>2, <2>3, <2>4, Moved DEF Statuses, RefundStatuses
<1>6. CASE /\ bundle.src # {}
           /\ QueueAndSend(k, SettleTxs, "SettlementsQueued", task[k]) /\ Goto(k, "SettlementsQueued")
  <2>0. QueueAndSend(k, SettleTxs, "SettlementsQueued", task[k]) /\ Goto(k, "SettlementsQueued")
    BY <1>6
  <2>1. PICK c \in Copies : /\ c.status = "SettlementsQueued" /\ c.refunds = {}
                            /\ row' = c /\ task' = [task EXCEPT ![k] = c]
    <3>1. \E c \in Copies : /\ c.status = "SettlementsQueued" /\ c.refunds = {}
                            /\ c.unverified = task[k].unverified
                            /\ row' = c /\ task' = [task EXCEPT ![k] = c]
      BY <1>0, <2>0, Sent
    <3> QED  BY <3>1
  <2>2. tx' = [t \in Txs |-> IF t \in SettleTxs THEN "queued" ELSE tx[t]]  BY <1>6 DEF QueueAndSend
  <2>3. SettleTxs \subseteq {SettleTx}  BY DEF SettleTxs
  <2>4. \A s \in Src : tx'[RecvTx(s)] = "none"  BY <1>3, <2>2, <2>3, TxFacts DEF None, LateTxs
  <2>5. tx'[DstTx] = "ok"  BY <1>3, <2>2, <2>3, TxFacts
  <2>6. Reached(c)'
    BY <1>3, <1>4, <1>6, <2>1, <2>4, <2>5 DEF Reached, BeforeSources, BeforePayout, Paid, HoldsLock
  <2>7. None(RefundTxs)'  BY <1>0, <1>2, <1>4, <2>2, <2>3, Unsent, TxFacts
  <2>8. AllOk(FeeTxs \cup SrcTxs)'
    <3>1. AllOk(FeeTxs \cup SrcTxs)  BY <1>3 DEF IInv, PaysOnlyAfterSources
    <3>2. \A t \in FeeTxs \cup SrcTxs : t \in Txs /\ t # SettleTx
      BY <1>0, TxFacts DEF TypeOK, FeeTxs, SrcTxs
    <3>3. \A t \in FeeTxs \cup SrcTxs : tx'[t] = "ok"  BY <2>2, <2>3, <3>1, <3>2 DEF AllOk
    <3> QED  BY <1>4, <3>3 DEF AllOk, FeeTxs, SrcTxs
  <2> QED  BY <1>0, <1>4, <2>1, <2>6, <2>7, <2>8, Moved
           DEF Statuses, RefundStatuses, PaysOnlyAfterSources
<1> QED  BY <1>5, <1>6 DEF OnDestinationConfirmed

LEMMA SettlementsQueuedKeeps ==
  ASSUME IInv, OneTask, NEW k \in Tasks, OnSettlementsQueued(k)
  PROVE  OneTask' /\ PaysOnlyAfterSources'
<1> USE DEF taskVars, moneyVars, procVars, At
<1>0. Live(k) /\ TypeOK  BY DEF OnSettlementsQueued, Live, IInv
<1>2. Reached(task[k]) /\ None(RefundTxs) /\ task[k].status = "SettlementsQueued"
  BY <1>0, LiveFacts DEF OnSettlementsQueued
<1>3. /\ locks = 1 /\ unlocks = 1 /\ tx[DstTx] = "ok" /\ bundle.src # {}
      /\ \A s \in Src : tx[RecvTx(s)] = "none"
  BY <1>2 DEF Reached, HoldsLock, BeforePayout, BeforeSources, Paid
<1>4. UNCHANGED <<bundle, scheduled, marked, booting, finished, locks, unlocks, packet, tx>>
  BY DEF OnSettlementsQueued
<1>5. None(RefundTxs)'  BY <1>2, <1>4 DEF None
<1>6. PaysOnlyAfterSources'  BY <1>4 DEF IInv, PaysOnlyAfterSources, AllOk, FeeTxs, SrcTxs
<1>7. CASE \A t \in SettleTxs : Confirmed(t)
  <2>1. PICK c \in Copies : /\ c.status = "SettlementsProcessing" /\ c.refunds = {}
                            /\ row' = c /\ task' = [task EXCEPT ![k] = c]
    BY <1>0, <1>7, Advance DEF OnSettlementsQueued
  <2>2. (\A t \in SettleTxs : Confirmed(t))'  BY <1>4, <1>7 DEF SettleTxs, Confirmed
  <2>3. Reached(c)'
    BY <1>3, <1>4, <2>1, <2>2 DEF Reached, BeforeSources, BeforePayout, Paid, HoldsLock
  <2> QED  BY <1>0, <1>4, <1>5, <1>6, <2>1, <2>3, Moved DEF Statuses, RefundStatuses
<1>8. CASE ~(\A t \in SettleTxs : Confirmed(t))
  <2>1. PICK c \in Copies : /\ c.status = "Failed" /\ c.refunds = {}
                            /\ row' = c /\ task' = [task EXCEPT ![k] = c]
    BY <1>0, <1>8, Advance DEF OnSettlementsQueued
  <2>3. Reached(c)'
    BY <1>3, <1>4, <2>1 DEF Reached, BeforeSources, BeforePayout, Paid, HoldsLock
  <2> QED  BY <1>0, <1>4, <1>5, <1>6, <2>1, <2>3, Moved DEF Statuses, RefundStatuses
<1> QED  BY <1>7, <1>8

LEMMA SettlementsProcessingKeeps ==
  ASSUME IInv, OneTask, NEW k \in Tasks, NEW failed \in SUBSET Src,
         OnSettlementsProcessing(k, failed)
  PROVE  OneTask' /\ PaysOnlyAfterSources'
<1> USE DEF taskVars, moneyVars, procVars, At
<1>0. Live(k) /\ TypeOK  BY DEF OnSettlementsProcessing, Live, IInv
<1>2. Reached(task[k]) /\ None(RefundTxs) /\ task[k].status = "SettlementsProcessing"
  BY <1>0, LiveFacts DEF OnSettlementsProcessing
<1>3. /\ locks = 1 /\ unlocks = 1 /\ tx[DstTx] = "ok" /\ bundle.src # {}
      /\ \A t \in SettleTxs : Confirmed(t)
  BY <1>2 DEF Reached, HoldsLock, BeforePayout, BeforeSources, Paid
<1>4. UNCHANGED <<bundle, scheduled, marked, booting, finished, locks, unlocks>>
  BY DEF OnSettlementsProcessing
<1> DEFINE unverified == failed # {}
<1>5. PICK c \in Copies : c = [task[k] EXCEPT !.status = "SettlementCompletionQueued",
                                             !.unverified = unverified]
  <2>1. task[k] \in Copies /\ "SettlementCompletionQueued" \in Statuses
    BY <1>0, LiveFacts DEF Statuses
  <2>2. [task[k] EXCEPT !.status = "SettlementCompletionQueued", !.unverified = unverified] \in Copies
    BY <2>1 DEF Copies
  <2> QED  BY <2>2
<1>6. /\ c.status = "SettlementCompletionQueued" /\ c.refunds = {} /\ c.unverified = unverified
  BY <1>0, <1>5, LiveFacts DEF Copies
<1>7. task' = [task EXCEPT ![k] = c]  BY <1>0, <1>5 DEF OnSettlementsProcessing, TypeOK
<1>8. row' = c
  <2>1. row' = [[task[k] EXCEPT !.unverified = unverified] EXCEPT !.status = "SettlementCompletionQueued"]
    BY DEF OnSettlementsProcessing, QueueAndSend
  <2> QED  BY <1>0, <1>5, <2>1, LiveFacts DEF Copies
<1>9. tx' = [t \in Txs |-> IF t \in RecvTxs THEN "queued" ELSE tx[t]]
  BY DEF OnSettlementsProcessing, QueueAndSend
<1>10. RecvTxs \subseteq {RecvTx(s) : s \in Src}  BY <1>0 DEF RecvTxs, TypeOK
<1>11. \A t \in {DstTx, SettleTx} \cup FeeTxs \cup SrcTxs : t \in Txs /\ t \notin RecvTxs
  BY <1>0, <1>10, TxFacts DEF TypeOK, FeeTxs, SrcTxs
<1>12. tx'[DstTx] = "ok" /\ tx'[SettleTx] = tx[SettleTx]  BY <1>3, <1>9, <1>11
<1>13. (\A t \in SettleTxs : Confirmed(t))'  BY <1>3, <1>4, <1>12 DEF SettleTxs, Confirmed
<1>14. ~unverified => SettledAll'
  <2>1. Packets' = Packets  BY <1>4, <1>12 DEF Packets, SettleTxs, AllOk
  <2>2. \A s \in Packets \ failed : packet'[s] # "pending"  BY <1>0, Delivered DEF OnSettlementsProcessing
  <2> QED  BY <2>1, <2>2 DEF SettledAll
<1>15. Reached(c)'
  BY <1>3, <1>4, <1>6, <1>12, <1>13, <1>14 DEF Reached, BeforeSources, BeforePayout, Paid, HoldsLock
<1>16. None(RefundTxs)'
  <2>1. RecvTxs \cap RefundTxs = {}  BY <1>10, TxFacts
  <2> QED  BY <1>0, <1>2, <1>4, <1>9, <2>1, Unsent
<1>17. PaysOnlyAfterSources'
  <2>1. AllOk(FeeTxs \cup SrcTxs)  BY <1>3 DEF IInv, PaysOnlyAfterSources
  <2>2. \A t \in FeeTxs \cup SrcTxs : tx'[t] = "ok"  BY <1>9, <1>11, <2>1 DEF AllOk
  <2> QED  BY <1>4, <2>2 DEF PaysOnlyAfterSources, AllOk, FeeTxs, SrcTxs
<1> QED  BY <1>0, <1>4, <1>6, <1>7, <1>8, <1>15, <1>16, <1>17, Moved DEF Statuses, RefundStatuses

LEMMA SettlementCompletionQueuedKeeps ==
  ASSUME IInv, OneTask, NEW k \in Tasks, OnSettlementCompletionQueued(k)
  PROVE  OneTask' /\ PaysOnlyAfterSources'
<1> USE DEF taskVars, moneyVars, procVars, At
<1>0. Live(k) /\ TypeOK  BY DEF OnSettlementCompletionQueued, Live, IInv
<1>2. Reached(task[k]) /\ None(RefundTxs) /\ task[k].status = "SettlementCompletionQueued"
  BY <1>0, LiveFacts DEF OnSettlementCompletionQueued
<1>3. /\ locks = 1 /\ unlocks = 1 /\ tx[DstTx] = "ok" /\ bundle.src # {}
      /\ (\A t \in SettleTxs : Confirmed(t)) /\ (~task[k].unverified => SettledAll)
  BY <1>2 DEF Reached, HoldsLock, BeforePayout, BeforeSources, Paid
<1>4. UNCHANGED <<bundle, scheduled, marked, booting, finished, locks, unlocks, packet, tx>>
  BY DEF OnSettlementCompletionQueued
<1>5. None(RefundTxs)'  BY <1>2, <1>4 DEF None
<1>6. PaysOnlyAfterSources'  BY <1>4 DEF IInv, PaysOnlyAfterSources, AllOk, FeeTxs, SrcTxs
<1>7. CASE ~task[k].unverified /\ \A t \in RecvTxs : Confirmed(t)
  <2>1. PICK c \in Copies : /\ c.status = "Done" /\ c.refunds = {}
                            /\ row' = c /\ task' = [task EXCEPT ![k] = c]
    BY <1>0, <1>7, Advance DEF OnSettlementCompletionQueued
  <2>2. (\A t \in SettleTxs \cup RecvTxs : Confirmed(t))' /\ SettledAll'
    BY <1>3, <1>4, <1>7 DEF SettleTxs, RecvTxs, Confirmed, SettledAll, Packets, AllOk
  <2>3. Reached(c)'
    BY <1>3, <1>4, <2>1, <2>2 DEF Reached, BeforeSources, BeforePayout, Paid, HoldsLock
  <2> QED  BY <1>0, <1>4, <1>5, <1>6, <2>1, <2>3, Moved DEF Statuses, RefundStatuses
<1>8. CASE ~(~task[k].unverified /\ \A t \in RecvTxs : Confirmed(t))
  <2>1. PICK c \in Copies : /\ c.status = "Failed" /\ c.refunds = {}
                            /\ row' = c /\ task' = [task EXCEPT ![k] = c]
    BY <1>0, <1>8, Advance DEF OnSettlementCompletionQueued
  <2>3. Reached(c)'
    BY <1>3, <1>4, <2>1 DEF Reached, BeforeSources, BeforePayout, Paid, HoldsLock
  <2> QED  BY <1>0, <1>4, <1>5, <1>6, <2>1, <2>3, Moved DEF Statuses, RefundStatuses
<1> QED  BY <1>7, <1>8

\* move_bundle_to_finished: the row's last status is the outcome.
LEMMA EndKeeps ==
  ASSUME IInv, OneTask, NEW k \in Tasks, OnEnd(k)
  PROVE  OneTask' /\ PaysOnlyAfterSources'
<1> USE DEF taskVars, moneyVars, procVars, At
<1>0. Live(k) /\ TypeOK  BY DEF OnEnd, Live, IInv
<1>1. row.status # "none" /\ finished = "none" /\ None(RefundTxs) /\ Reached(task[k])
  BY <1>0, LiveFacts
<1>2. task[k].status \in {"Done", "Failed"} /\ row.status = task[k].status
  BY <1>0 DEF OnEnd, OneTask, Ahead
<1>3. /\ UNCHANGED <<bundle, scheduled, tx, marked, booting, locks, unlocks, packet>>
      /\ finished' = row.status /\ row' = NoRow /\ task' = [task EXCEPT ![k] = Off]
  BY <1>1 DEF OnEnd
<1>4. \A j \in Tasks : ~Live(j)'  BY <1>0, <1>3, OffType DEF OneTask, Live, TypeOK
<1>5. None(RefundTxs)'  BY <1>1, <1>3 DEF None
<1>6. PaysOnlyAfterSources'  BY <1>3 DEF IInv, PaysOnlyAfterSources, AllOk, FeeTxs, SrcTxs
<1>7. Reached(Copy(finished, {}, FALSE))'
  <2>1. PICK c : c = Copy(row.status, {}, FALSE)  OBVIOUS
  <2>2. c.status = task[k].status  BY <1>2, <2>1 DEF Copy
  <2>3. Reached(c)
    BY <1>1, <1>2, <2>2 DEF Reached
  <2>4. Reached(c)'
    BY <1>3, <2>3 DEF Reached, None, AllOk, Final, Confirmed, SettledAll, Packets, FeeTxs, SrcTxs, SettleTxs, RecvTxs
  <2>5. finished' = c.status /\ c.unverified = FALSE  BY <1>3, <2>1 DEF Copy
  <2> QED  BY <2>4, <2>5 DEF Reached, Copy
<1> QED  BY <1>2, <1>3, <1>4, <1>5, <1>6, <1>7, OffType DEF OneTask

\* Tasks may stop and transactions end: what was reached stays so.
LEMMA Kept ==
  ASSUME TypeOK, OneTask, \A k \in Tasks : Live(k)' => Live(k) /\ task'[k] = task[k],
         UNCHANGED <<row, finished, scheduled>>, None(RefundTxs)',
         marked' = NoRow, booting' => \A k \in Tasks : ~Live(k)',
         \A c \in Copies : Reached(c) => Reached(c)'
  PROVE  OneTask'
<1>1. row.status # "none" => Reached(row)'
  <2>1. PICK c \in Copies : c = row  BY DEF TypeOK
  <2>2. row.status # "none" => Reached(c)  BY <2>1 DEF OneTask
  <2> QED  BY <2>1, <2>2 DEF Reached
<1>2. ASSUME NEW k \in Tasks, Live(k)'
      PROVE  /\ task'[k].status \in Statuses \ RefundStatuses /\ Reached(task[k])'
             /\ task'[k].status = row'.status \/ <<task'[k].status, row'.status>> \in Ahead
             /\ task'[k].refunds = {} /\ task'[k].unverified = row'.unverified
  <2>1. Live(k) /\ task'[k] = task[k]  BY <1>2
  <2>2. PICK c \in Copies : c = task[k]  BY DEF TypeOK
  <2>0. Reached(task[k])  BY <2>1 DEF OneTask
  <2>5. Reached(c)  BY <2>0, <2>2
  <2>3. Reached(c)'  BY <2>5
  <2>6. task'[k] = c  BY <2>1, <2>2
  <2>4. Reached(task[k])'  BY <2>3, <2>6 DEF Reached
  <2> QED  BY <2>1, <2>4 DEF OneTask
<1>3. row.status = "none" => Reached(Copy(finished, {}, FALSE))'
  <2>1. PICK c \in Copies : c = Copy(finished, {}, FALSE)  BY DEF TypeOK, Copies, Copy
  <2>2. row.status = "none" => Reached(c)'  BY <2>1 DEF OneTask
  <2>3. c.status = finished' /\ c.unverified = FALSE  BY <2>1 DEF Copy
  <2> QED  BY <2>2, <2>3 DEF Reached, Copy
<1>4. \A j, k \in Tasks : Live(j)' /\ Live(k)' => j = k  BY DEF OneTask
<1>5. row.status = "none" => (\A k \in Tasks : ~Live(k)') /\ finished' \in {"Done", "Failed"}
  BY DEF OneTask
<1>6. row.status # "none" => finished' = "none" /\ row'.status \notin RefundStatuses
  BY DEF OneTask
<1>7. ~scheduled' /\ row'.refunds = {}  BY DEF OneTask
<1> QED  BY <1>1, <1>2, <1>3, <1>4, <1>5, <1>6, <1>7 DEF OneTask

\* What was reached depends on these only.
LEMMA ReachedStays ==
  ASSUME UNCHANGED <<bundle, tx, locks, unlocks, packet>>, NEW c, Reached(c)
  PROVE  Reached(c)'
  BY DEF Reached, None, AllOk, Final, Confirmed, SettledAll, Packets, FeeTxs, SrcTxs, SettleTxs, RecvTxs

\* Delivering messages takes nothing back.
LEMMA ReachedGrows ==
  ASSUME UNCHANGED <<bundle, tx, locks, unlocks>>, SettledAll => SettledAll', NEW c, Reached(c)
  PROVE  Reached(c)'
  BY DEF Reached, None, AllOk, Final, Confirmed, FeeTxs, SrcTxs, SettleTxs, RecvTxs

\* A transaction that ends takes nothing back.
LEMMA EndedStays ==
  ASSUME TypeOK, NEW t \in Txs, NEW outcome \in Outcomes, TxEnds(t, outcome), NEW c, Reached(c)
  PROVE  Reached(c)'
<1> USE DEF taskVars, moneyVars, procVars
<1>1. UNCHANGED <<bundle, locks, unlocks, packet>>  BY DEF TxEnds
<1>2. \A u \in Txs : tx'[u] = tx[u] \/ (tx[u] = "queued" /\ tx'[u] \in Outcomes)
  BY DEF TxEnds, TypeOK
<1>3. ASSUME NEW ts \in SUBSET Txs
      PROVE  /\ None(ts) => \A u \in ts : tx'[u] = "none"
             /\ AllOk(ts) => \A u \in ts : tx'[u] = "ok"
             /\ Final(ts) => \A u \in ts : tx'[u] \in Outcomes
             /\ (\A u \in ts : Confirmed(u)) => \A u \in ts : tx'[u] \in {"ok", "reverted"}
  BY <1>2 DEF None, AllOk, Final, Confirmed, Outcomes
<1>4. /\ FeeTxs \in SUBSET Txs /\ SrcTxs \in SUBSET Txs /\ SettleTxs \in SUBSET Txs
      /\ RecvTxs \in SUBSET Txs /\ LateTxs \in SUBSET Txs /\ {DstTx} \cup LateTxs \in SUBSET Txs
      /\ SettleTxs \cup RecvTxs \in SUBSET Txs
  BY TxFacts DEF TypeOK, FeeTxs, SrcTxs, SettleTxs, RecvTxs, LateTxs
<1>5. FeeTxs' = FeeTxs /\ SrcTxs' = SrcTxs /\ SettleTxs' = SettleTxs /\ RecvTxs' = RecvTxs
  BY <1>1 DEF FeeTxs, SrcTxs, SettleTxs, RecvTxs
<1>6. /\ None(SrcTxs) => None(SrcTxs)'
      /\ None({DstTx} \cup LateTxs) => None({DstTx} \cup LateTxs)'
      /\ None(LateTxs) => None(LateTxs)'
      /\ AllOk(FeeTxs) => AllOk(FeeTxs)'
      /\ AllOk(SrcTxs) => AllOk(SrcTxs)'
      /\ Final(SrcTxs) => Final(SrcTxs)'
  <2>1. None(SrcTxs) => None(SrcTxs)'  BY <1>3, <1>4, <1>5 DEF None
  <2>2. None({DstTx} \cup LateTxs) => None({DstTx} \cup LateTxs)'  BY <1>3, <1>4 DEF None
  <2>3. None(LateTxs) => None(LateTxs)'  BY <1>3, <1>4 DEF None
  <2>4. AllOk(FeeTxs) => AllOk(FeeTxs)'  BY <1>3, <1>4, <1>5 DEF AllOk
  <2>5. AllOk(SrcTxs) => AllOk(SrcTxs)'  BY <1>3, <1>4, <1>5 DEF AllOk
  <2>6. Final(SrcTxs) => Final(SrcTxs)'  BY <1>3, <1>4, <1>5 DEF Final
  <2> QED  BY <2>1, <2>2, <2>3, <2>4, <2>5, <2>6
<1>7. /\ (\A u \in SettleTxs : Confirmed(u)) => (\A u \in SettleTxs : Confirmed(u))'
      /\ (\A u \in SettleTxs \cup RecvTxs : Confirmed(u)) => (\A u \in SettleTxs \cup RecvTxs : Confirmed(u))'
  <2>1. (\A u \in SettleTxs : Confirmed(u)) => (\A u \in SettleTxs : Confirmed(u))'
    BY <1>3, <1>4, <1>5 DEF Confirmed
  <2>2. (\A u \in SettleTxs \cup RecvTxs : Confirmed(u)) => (\A u \in SettleTxs \cup RecvTxs : Confirmed(u))'
    BY <1>3, <1>4, <1>5 DEF Confirmed
  <2> QED  BY <2>1, <2>2
<1>8. (\A u \in SettleTxs : Confirmed(u)) /\ SettledAll => SettledAll'
  <2>1. (\A u \in SettleTxs : Confirmed(u)) => \A u \in SettleTxs : tx'[u] = tx[u]
    BY <1>2, <1>4 DEF Confirmed
  <2>2. (\A u \in SettleTxs : Confirmed(u)) => Packets' = Packets
    BY <1>1, <1>5, <2>1 DEF Packets, AllOk
  <2> QED  BY <1>1, <2>2 DEF SettledAll
<1>9. /\ tx[DstTx] # "none" => tx'[DstTx] # "none"
      /\ tx[DstTx] # "queued" => tx'[DstTx] = tx[DstTx]
      /\ tx[DstTx] = "ok" => tx'[DstTx] = "ok"
      /\ \A s \in Src : tx[RecvTx(s)] = "none" => tx'[RecvTx(s)] = "none"
      /\ \A s \in bundle.src : tx[SrcTx(s)] \in {"none", "failed"} => tx'[SrcTx(s)] \in {"none", "failed"}
  BY <1>2, TxFacts DEF TypeOK, Outcomes
<1>10. (\A u \in SettleTxs \cup RecvTxs : Confirmed(u)) => (\A u \in SettleTxs : Confirmed(u))
  OBVIOUS
<1> HIDE DEF taskVars, moneyVars, procVars
<1>11. /\ c.status \in BeforeSources => None(SrcTxs)'
       /\ c.status \in BeforePayout => None({DstTx} \cup LateTxs)'
       /\ c.status = "Init" => locks' = 0 /\ unlocks' = 0
       /\ c.status \in HoldsLock => locks' = 1 /\ unlocks' = 0
       /\ c.status \notin HoldsLock \cup {"Init"} => locks' = 1 /\ unlocks' = 1 /\ tx'[DstTx] # "queued"
       /\ c.status \in {"FeePayerCompleted", "SourceQueued", "SourceConfirmed"} => AllOk(FeeTxs)'
       /\ c.status = "SourceConfirmed" => AllOk(SrcTxs)'
       /\ c.status = "SourceFailures" => Final(SrcTxs)'
  BY <1>1, <1>6, <1>9 DEF Reached
<1>12. /\ c.status \in {"DestinationQueued", "DestinationFailures", "DestinationConfirmed"} => None(LateTxs)'
       /\ c.status \in {"DestinationQueued", "DestinationFailures"} => tx'[DstTx] # "none"
       /\ c.status = "DestinationFailures" => tx'[DstTx] # "ok"
       /\ c.status \in Paid => tx'[DstTx] = "ok"
       /\ c.status \in Paid \ {"DestinationConfirmed", "Done"} => bundle'.src # {}
       /\ c.status \in {"SettlementsQueued", "SettlementsProcessing"} => \A s \in Src : tx'[RecvTx(s)] = "none"
  <2>1. "DestinationFailures" \notin HoldsLock \cup {"Init"}  BY DEF HoldsLock, BeforePayout, BeforeSources
  <2> QED  BY <1>1, <1>6, <1>9, <2>1 DEF Reached
<1>13. /\ c.status \in {"SettlementsProcessing", "SettlementCompletionQueued"} =>
            (\A u \in SettleTxs : Confirmed(u))'
       /\ c.status = "SettlementCompletionQueued" /\ ~c.unverified => SettledAll'
       /\ c.status = "Done" /\ bundle'.src # {} =>
            SettledAll' /\ (\A u \in SettleTxs \cup RecvTxs : Confirmed(u))'
       /\ c.status = "Failed" =>
            tx'[DstTx] = "ok" \/ \A s \in bundle'.src : tx'[SrcTx(s)] \in {"none", "failed"}
  BY <1>1, <1>7, <1>8, <1>9, <1>10 DEF Reached
<1> QED  BY <1>11, <1>12, <1>13 DEF Reached

\* One task, a step of any kind.
LEMMA OneTaskKept ==
  ASSUME IInv, OneTask, Next
  PROVE  (OneTask' \/ Refunding') /\ PaysOnlyAfterSources'
<1> USE DEF taskVars, moneyVars, procVars
<1>0. TypeOK /\ PaysOnlyAfterSources  BY DEF IInv
<1>1. ASSUME NEW t \in Txs, NEW outcome \in Outcomes, TxEnds(t, outcome)
      PROVE  OneTask' /\ PaysOnlyAfterSources'
  <2>1. UNCHANGED <<bundle, row, finished, scheduled, task, marked, booting>> /\ tx[t] = "queued"
        /\ \A u \in Txs : u # t => tx'[u] = tx[u]
    BY <1>0, <1>1 DEF TxEnds, TypeOK
  <2>2. None(RefundTxs)'  BY <2>1, TxFacts DEF OneTask, None
  <2>3. \A c \in Copies : Reached(c) => Reached(c)'  BY <1>0, <1>1, EndedStays
  <2>4. \A k \in Tasks : Live(k)' => Live(k) /\ task'[k] = task[k]  BY <2>1 DEF Live
  <2>5. marked' = NoRow /\ (booting' => \A k \in Tasks : ~Live(k)')  BY <2>1, <2>4 DEF OneTask
  <2>6. OneTask'  BY <1>0, <2>1, <2>2, <2>3, <2>4, <2>5, Kept
  <2>7. PaysOnlyAfterSources'
    <3>1. SUFFICES ASSUME tx'[DstTx] # "none" PROVE AllOk(FeeTxs \cup SrcTxs)'
      BY DEF PaysOnlyAfterSources
    <3>2. tx[DstTx] # "none"  BY <2>1, <3>1, TxFacts
    <3>3. AllOk(FeeTxs \cup SrcTxs)  BY <1>0, <3>2 DEF PaysOnlyAfterSources
    <3>4. \A u \in FeeTxs \cup SrcTxs : u \in Txs  BY <1>0, TxFacts DEF TypeOK, FeeTxs, SrcTxs
    <3>5. \A u \in FeeTxs \cup SrcTxs : tx'[u] = "ok"  BY <2>1, <3>3, <3>4 DEF AllOk
    <3> QED  BY <2>1, <3>5 DEF AllOk, FeeTxs, SrcTxs
  <2> QED  BY <2>6, <2>7
<1>2. ASSUME NEW k \in Tasks, Step(k)
      PROVE  (OneTask' \/ Refunding') /\ PaysOnlyAfterSources'
  <2>1. Live(k) => task[k].status \notin RefundStatuses  BY <1>0, LiveFacts
  <2>2. ~OnRefundsScheduled(k) /\ ~OnRefundsReady(k) /\ ~OnRefundsQueued(k)
    BY <2>1 DEF OnRefundsScheduled, OnRefundsReady, OnRefundsQueued, At, Live, RefundStatuses
  <2> QED  BY <1>2, <2>2, InitKeeps, LiquidityLockedKeeps, FeePayerQueuedKeeps, FeePayerCompletedKeeps,
              SourceQueuedKeeps, SourceConfirmedKeeps, DestinationQueuedKeeps, FailuresKeep,
              DestinationConfirmedKeeps, SettlementsQueuedKeeps, SettlementsProcessingKeeps,
              SettlementCompletionQueuedKeeps, EndKeeps DEF Step
<1>3. ASSUME UNCHANGED <<bundle, row, finished, scheduled, tx, locks, unlocks, packet>>,
             \A k \in Tasks : Live(k)' => Live(k) /\ task'[k] = task[k],
             marked' = NoRow, booting' => \A k \in Tasks : ~Live(k)'
      PROVE  OneTask'
  <2>1. \A c \in Copies : Reached(c) => Reached(c)'  BY <1>3, ReachedStays
  <2>2. None(RefundTxs)'  BY <1>3 DEF OneTask, None
  <2> QED  BY <1>0, <1>3, <2>1, <2>2, Kept
<1>4. ASSUME UNCHANGED <<bundle, tx>>
      PROVE  PaysOnlyAfterSources'
  BY <1>0, <1>4 DEF PaysOnlyAfterSources, AllOk, FeeTxs, SrcTxs
<1>5. ASSUME NEW k \in Tasks, TaskFails(k)
      PROVE  OneTask' /\ PaysOnlyAfterSources'
  <2>1. UNCHANGED <<bundle, row, finished, scheduled, tx, locks, unlocks, marked, booting>>
        /\ task' = [task EXCEPT ![k] = Off]
    BY <1>5 DEF TaskFails
  <2>2. \A j \in Tasks : Live(j)' => Live(j) /\ task'[j] = task[j]
    BY <1>0, <2>1, OffType DEF Live, TypeOK
  <2>3. marked' = NoRow /\ (booting' => \A j \in Tasks : ~Live(j)')  BY <2>1, <2>2 DEF OneTask
  <2>4. SettledAll => SettledAll'
    <3>1. Packets' = Packets /\ Packets \subseteq Src  BY <1>0, <2>1 DEF Packets, SettleTxs, AllOk, TypeOK
    <3>2. \A s \in Src : packet[s] # "pending" => packet'[s] # "pending"
      BY <1>0, <1>5, Delivered DEF TaskFails
    <3> QED  BY <3>1, <3>2 DEF SettledAll
  <2>5. \A c \in Copies : Reached(c) => Reached(c)'  BY <2>1, <2>4, ReachedGrows
  <2>6. None(RefundTxs)'  BY <2>1 DEF OneTask, None
  <2> QED  BY <1>0, <1>4, <2>1, <2>2, <2>3, <2>5, <2>6, Kept
<1>6. ~MarkRefundReady /\ ~ResumeForRefund  BY DEF OneTask, MarkRefundReady, ResumeForRefund
<1>7. CASE Restart
  <2>1. \A j \in Tasks : ~Live(j)'  BY <1>7, OffType DEF Restart, Live
  <2> QED  BY <1>3, <1>4, <1>7, <2>1 DEF Restart
<1>8. CASE LoadPendingBundles
  <2>1. UNCHANGED <<bundle, row, finished, scheduled, tx, locks, unlocks, packet, marked>>
        /\ booting' = FALSE /\ marked' = NoRow /\ \A j \in Tasks : ~Live(j)
    BY <1>8 DEF LoadPendingBundles, OneTask
  <2>2. CASE UNCHANGED task
    <3>1. \A j \in Tasks : ~Live(j)'  BY <2>1, <2>2 DEF Live
    <3> QED  BY <1>3, <1>4, <2>1, <3>1
  <2>3. CASE row.status # "none" /\ Spawn(row)
    <3>1. started + 1 \in Tasks /\ task' = [task EXCEPT ![started + 1] = row]
      BY <1>0, <2>3, TaskAssumption DEF Spawn, Tasks, TypeOK
    <3>2. PICK k \in Tasks : task' = [task EXCEPT ![k] = row]  BY <3>1
    <3>3. task'[k] = row /\ \A j \in Tasks : Live(j)' => j = k
      BY <1>0, <2>1, <3>2 DEF Live, TypeOK
    <3>4. PICK c \in Copies : c = row  BY <1>0 DEF TypeOK
    <3>5. Reached(row)  BY <2>3 DEF OneTask
    <3>6. Reached(c)  BY <3>4, <3>5
    <3>7. Reached(c)'  BY <2>1, <3>6, ReachedStays
    <3>8. Reached(row)'  BY <2>1, <3>4, <3>7 DEF Reached
    <3>9. Reached(task[k])'  BY <3>3, <3>4, <3>7 DEF Reached
    <3>10. None(RefundTxs)' /\ ~scheduled' /\ row'.refunds = {} /\ row'.status # "none"
           /\ finished' = "none" /\ row'.status \notin RefundStatuses
      BY <2>1, <2>3 DEF OneTask, None
    <3>11. ASSUME NEW j \in Tasks, Live(j)'
           PROVE  /\ task'[j].status \in Statuses \ RefundStatuses /\ Reached(task[j])'
                  /\ task'[j].status = row'.status \/ <<task'[j].status, row'.status>> \in Ahead
                  /\ task'[j].refunds = {} /\ task'[j].unverified = row'.unverified
      <4>1. j = k  BY <3>3, <3>11
      <4>2. row.status \in Statuses  BY <1>0, <2>3 DEF TypeOK, Copies
      <4> QED  BY <2>1, <3>3, <3>9, <3>10, <4>1, <4>2
    <3>12. OneTask'  BY <2>1, <3>3, <3>8, <3>10, <3>11 DEF OneTask
    <3> QED  BY <1>4, <2>1, <3>12
  <2> QED  BY <1>8, <2>2, <2>3 DEF LoadPendingBundles
<1> QED  BY <1>1, <1>2, <1>5, <1>6, <1>7, <1>8 DEF Next

(***************************************************************************)
(* Refunds: many tasks, but nothing is paid                                *)
(***************************************************************************)

\* What the refunds found stays as it was.
RefundsOnly ==
  /\ bundle' = bundle /\ locks' = locks /\ unlocks' = unlocks
  /\ \A t \in {DstTx} \cup LateTxs \cup SrcTxs : tx'[t] = tx[t]
  /\ \A t \in RefundTxs : tx[t] # "none" => tx'[t] # "none"

LEMMA MoneyStays ==
  ASSUME TypeOK, Refunding, RefundsOnly
  PROVE  /\ tx'[DstTx] \in {"none", "reverted", "failed"} /\ None(LateTxs)' /\ Final(SrcTxs)'
         /\ locks' = 1 /\ unlocks' = 1 /\ ConfirmedEscrows' = ConfirmedEscrows
         /\ Begun \subseteq Begun' /\ (RefundsTried => RefundsTried')
<1>3. bundle.src \subseteq Src  BY DEF TypeOK
<1>4. tx'[DstTx] \in {"none", "reverted", "failed"} /\ locks' = 1 /\ unlocks' = 1
  BY DEF Refunding, RefundsOnly
<1>5. None(LateTxs)'  BY DEF Refunding, RefundsOnly, None
<1>6. \A s \in bundle.src : tx'[SrcTx(s)] = tx[SrcTx(s)]  BY DEF RefundsOnly, SrcTxs
<1>7. Final(SrcTxs)'  BY <1>6 DEF Refunding, RefundsOnly, Final, SrcTxs
<1>8. ConfirmedEscrows' = ConfirmedEscrows  BY <1>6 DEF RefundsOnly, ConfirmedEscrows, Confirmed
<1>9. Begun \subseteq Begun'  BY DEF RefundsOnly, Begun
<1>10. RefundsTried => RefundsTried'
  <2>1. SUFFICES ASSUME RefundsTried, NEW s \in ConfirmedEscrows
                 PROVE  \E k \in Tasks : tx'[RefundTx(s, k)] # "none"
    BY <1>8 DEF RefundsTried
  <2>2. PICK k \in Tasks : tx[RefundTx(s, k)] # "none"  BY <2>1 DEF RefundsTried
  <2>3. RefundTx(s, k) \in RefundTxs  BY <1>3, TxFacts DEF ConfirmedEscrows
  <2> QED  BY <2>2, <2>3 DEF RefundsOnly
<1> QED  BY <1>4, <1>5, <1>7, <1>8, <1>9, <1>10

\* The payout of a bundle in refund is over.
LEMMA PaymentStays ==
  ASSUME TypeOK, PaysOnlyAfterSources, Refunding, RefundsOnly,
         tx'[FeeTx] = tx[FeeTx] \/ tx[FeeTx] # "ok"
  PROVE  PaysOnlyAfterSources'
<1>1. SUFFICES ASSUME tx'[DstTx] # "none" PROVE AllOk(FeeTxs \cup SrcTxs)'
  BY DEF PaysOnlyAfterSources
<1>2. tx[DstTx] # "none"  BY <1>1 DEF RefundsOnly
<1>3. AllOk(FeeTxs \cup SrcTxs)  BY <1>2 DEF PaysOnlyAfterSources
<1>4. \A t \in SrcTxs : tx'[t] = "ok"  BY <1>3 DEF AllOk, RefundsOnly
<1>5. \A t \in FeeTxs : tx'[t] = "ok"  BY <1>3 DEF AllOk, FeeTxs
<1>6. FeeTxs' = FeeTxs /\ SrcTxs' = SrcTxs  BY DEF RefundsOnly, FeeTxs, SrcTxs
<1> QED  BY <1>4, <1>5, <1>6 DEF AllOk

\* A task of a bundle in refund ends, and the row may be moved.
LEMMA RefundingKept ==
  ASSUME TypeOK, Refunding, RefundsOnly,
         row' \in Copies, marked' \in Copies, task' \in [Tasks -> Copies],
         row'.status \in {"none", "Failed"} \cup RefundStatuses,
         finished' \in {"none", "Failed"} \cup RefundStatuses,
         marked' = NoRow \/ marked'.status = "RefundsReady",
         \A k \in Tasks : task'[k].status \in {"off", "Failed"} \cup RefundStatuses,
         row'.refunds \cup marked'.refunds \subseteq Begun',
         \A k \in Tasks : Live(k)' => task'[k].refunds \subseteq Begun',
         \/ row'.status \in {"RefundsQueued", "Failed"} \/ finished' # "none"
         \/ \E k \in Tasks : task'[k].status \in {"RefundsQueued", "Failed"}
         => RefundsTried'
  PROVE  Refunding'
  BY MoneyStays DEF Refunding

\* build_missing_refunds: after it every escrow that may hold money has a refund.
LEMMA RefundsReadyKeeps ==
  ASSUME IInv, TypeOK', Refunding, NEW k \in Tasks, OnRefundsReady(k)
  PROVE  Refunding' /\ PaysOnlyAfterSources'
<1> USE DEF taskVars, moneyVars, procVars, At
<1> DEFINE new == {RefundTx(s, k) : s \in NeedRefund(k)}
<1>0. TypeOK /\ PaysOnlyAfterSources /\ task[k] \in Copies  BY DEF IInv, TypeOK
<1>1. new \subseteq RefundTxs
  BY <1>0, TxFacts DEF NeedRefund, ConfirmedEscrows, TypeOK
<1>2. \A s \in NeedRefund(k) : RefundTx(s, k) \in new  OBVIOUS
<1>3. tx' = [t \in Txs |-> IF t \in new THEN "queued" ELSE tx[t]]
  BY DEF OnRefundsReady, QueueAndSend
<1>4. row' = [[task[k] EXCEPT !.refunds = @ \cup new] EXCEPT !.status = "RefundsQueued"]
  BY DEF OnRefundsReady, QueueAndSend
<1>5. task' = [task EXCEPT ![k] = [task[k] EXCEPT !.status = "RefundsQueued", !.refunds = new]]
  BY <1>0 DEF OnRefundsReady, TypeOK
<1>6. UNCHANGED <<bundle, finished, scheduled, marked, booting, locks, unlocks>>
  BY DEF OnRefundsReady
<1> HIDE DEF new
<1>7. \A t \in {DstTx, FeeTx} \cup LateTxs \cup SrcTxs : t \in Txs \ RefundTxs
  BY <1>0, TxFacts DEF LateTxs, SrcTxs, TypeOK
<1>8. RefundsOnly /\ tx'[FeeTx] = tx[FeeTx]
  <2>1. \A t \in {DstTx, FeeTx} \cup LateTxs \cup SrcTxs : tx'[t] = tx[t]  BY <1>1, <1>3, <1>7
  <2>2. \A t \in RefundTxs : tx[t] # "none" => tx'[t] # "none"  BY <1>3, TxFacts
  <2> QED  BY <1>6, <2>1, <2>2 DEF RefundsOnly
<1>9. new \subseteq Begun'  BY <1>1, <1>3, TxFacts DEF Begun
<1>10. Live(k) /\ task[k].refunds \subseteq Begun
  BY DEF OnRefundsReady, Live, Refunding
<1>11. Begun \subseteq Begun' /\ ConfirmedEscrows' = ConfirmedEscrows  BY <1>0, <1>8, MoneyStays
<1>12. RefundsTried'
  <2>1. SUFFICES ASSUME NEW s \in ConfirmedEscrows PROVE \E j \in Tasks : tx'[RefundTx(s, j)] # "none"
    BY <1>11 DEF RefundsTried
  <2>2. CASE s \in NeedRefund(k)
    <3>1. RefundTx(s, k) \in Begun'  BY <1>2, <1>9, <2>2
    <3> QED  BY <3>1 DEF Begun
  <2>3. CASE s \notin NeedRefund(k)
    <3>1. PICK t \in task[k].refunds : t[2] = s  BY <2>1, <2>3 DEF NeedRefund
    <3>2. t \in Begun' /\ t \in RefundTxs  BY <1>10, <1>11, <3>1 DEF Begun
    <3>3. PICK j \in Tasks : t = RefundTx(s, j)  BY <3>1, <3>2, RefundFacts
    <3>4. tx'[t] # "none"  BY <3>2 DEF Begun
    <3> QED  BY <3>3, <3>4
  <2> QED  BY <2>2, <2>3
<1>13. row'.status = "RefundsQueued" /\ row'.refunds \subseteq Begun'
  BY <1>0, <1>4, <1>9, <1>10, <1>11 DEF Copies
<1>14. \A j \in Tasks : task'[j].status \in {"off", "Failed"} \cup RefundStatuses
  <2>1. task'[k].status = "RefundsQueued"  BY <1>0, <1>5 DEF TypeOK, Copies
  <2>2. \A j \in Tasks : j # k => task'[j] = task[j]  BY <1>0, <1>5 DEF TypeOK
  <2> QED  BY <2>1, <2>2 DEF Refunding, RefundStatuses
<1>15. \A j \in Tasks : Live(j)' => task'[j].refunds \subseteq Begun'
  <2>1. task'[k].refunds = new  BY <1>0, <1>5 DEF TypeOK, Copies
  <2>2. \A j \in Tasks : j # k => task'[j] = task[j]  BY <1>0, <1>5 DEF TypeOK
  <2> QED  BY <1>9, <1>11, <2>1, <2>2 DEF Refunding, Live
<1>16. marked'.refunds \subseteq Begun' /\ (marked' = NoRow \/ marked'.status = "RefundsReady")
       /\ finished' \in {"none", "Failed"} \cup RefundStatuses
  BY <1>6, <1>11 DEF Refunding
<1>17. row' \in Copies /\ marked' \in Copies /\ task' \in [Tasks -> Copies]  BY DEF TypeOK
<1>18. Refunding'
  BY <1>0, <1>8, <1>12, <1>13, <1>14, <1>15, <1>16, <1>17, RefundingKept DEF RefundStatuses
<1> QED  BY <1>0, <1>8, <1>18, PaymentStays

\* A bundle in refund, a step that changes no transaction.
LEMMA StillRefunding ==
  ASSUME TypeOK, TypeOK', PaysOnlyAfterSources, Refunding, UNCHANGED <<bundle, tx, locks, unlocks>>,
         row'.status \in {"none", "Failed"} \cup RefundStatuses,
         finished' \in {"none", "Failed"} \cup RefundStatuses,
         marked' = NoRow \/ marked'.status = "RefundsReady",
         \A k \in Tasks : task'[k].status \in {"off", "Failed"} \cup RefundStatuses,
         row'.refunds \cup marked'.refunds \subseteq Begun,
         \A k \in Tasks : Live(k)' => task'[k].refunds \subseteq Begun,
         \/ row'.status \in {"RefundsQueued", "Failed"} \/ finished' # "none"
         \/ \E k \in Tasks : task'[k].status \in {"RefundsQueued", "Failed"}
         => RefundsTried
  PROVE  Refunding' /\ PaysOnlyAfterSources'
<1>1. RefundsOnly /\ tx'[FeeTx] = tx[FeeTx]  BY DEF RefundsOnly
<1>2. Begun \subseteq Begun' /\ (RefundsTried => RefundsTried')  BY <1>1, MoneyStays
<1>3. row' \in Copies /\ marked' \in Copies /\ task' \in [Tasks -> Copies]  BY DEF TypeOK
<1>4. /\ row'.refunds \cup marked'.refunds \subseteq Begun'
      /\ \A k \in Tasks : Live(k)' => task'[k].refunds \subseteq Begun'
  BY <1>2
<1>5. Refunding'  BY <1>1, <1>2, <1>3, <1>4, RefundingKept
<1> QED  BY <1>1, <1>5, PaymentStays

\* Refunds, a step of any kind.
LEMMA RefundingStep ==
  ASSUME IInv, TypeOK', Refunding, Next
  PROVE  Refunding' /\ PaysOnlyAfterSources'
<1> USE DEF taskVars, moneyVars, procVars
<1>0. TypeOK /\ PaysOnlyAfterSources  BY DEF IInv
<1> DEFINE tried == /\ (row.status \in {"RefundsQueued", "Failed"} => RefundsTried)
                    /\ (finished # "none" => RefundsTried)
                    /\ \A k \in Tasks : task[k].status \in {"RefundsQueued", "Failed"} => RefundsTried
<1>1. tried  BY DEF Refunding
<1> HIDE DEF tried
<1>2. ASSUME NEW t \in Txs, NEW outcome \in Outcomes, TxEnds(t, outcome)
      PROVE  Refunding' /\ PaysOnlyAfterSources'
  <2>1. UNCHANGED <<bundle, row, finished, task, marked, locks, unlocks>> /\ tx[t] = "queued"
        /\ tx'[t] = outcome /\ \A u \in Txs : u # t => tx'[u] = tx[u]
    BY <1>0, <1>2 DEF TxEnds, TypeOK
  <2>2. RefundsOnly
    <3>1. tx[DstTx] # "queued"  BY DEF Refunding
    <3>2. \A u \in LateTxs : tx[u] # "queued"  BY DEF Refunding, None
    <3>3. \A u \in SrcTxs : tx[u] # "queued"  BY DEF Refunding, Final, Outcomes
    <3>4. \A u \in {DstTx} \cup LateTxs \cup SrcTxs : u \in Txs
      BY <1>0, TxFacts DEF LateTxs, SrcTxs, TypeOK
    <3>5. \A u \in {DstTx} \cup LateTxs \cup SrcTxs : tx'[u] = tx[u]
      BY <2>1, <3>1, <3>2, <3>3, <3>4
    <3>6. \A u \in RefundTxs : tx[u] # "none" => tx'[u] # "none"
      BY <2>1, TxFacts DEF Outcomes
    <3> QED  BY <2>1, <3>5, <3>6 DEF RefundsOnly
  <2>3. tx'[FeeTx] = tx[FeeTx] \/ tx[FeeTx] # "ok"  BY <2>1, TxFacts
  <2>4. Begun \subseteq Begun' /\ (RefundsTried => RefundsTried')  BY <1>0, <2>2, MoneyStays
  <2>5. row' \in Copies /\ marked' \in Copies /\ task' \in [Tasks -> Copies]  BY DEF TypeOK
  <2>6. /\ row'.refunds \cup marked'.refunds \subseteq Begun'
        /\ \A k \in Tasks : Live(k)' => task'[k].refunds \subseteq Begun'
    BY <2>1, <2>4 DEF Refunding, Live
  <2>7. /\ row'.status \in {"none", "Failed"} \cup RefundStatuses
        /\ finished' \in {"none", "Failed"} \cup RefundStatuses
        /\ marked' = NoRow \/ marked'.status = "RefundsReady"
        /\ \A k \in Tasks : task'[k].status \in {"off", "Failed"} \cup RefundStatuses
    BY <2>1 DEF Refunding
  <2>8. \/ row'.status \in {"RefundsQueued", "Failed"} \/ finished' # "none"
        \/ \E k \in Tasks : task'[k].status \in {"RefundsQueued", "Failed"}
        => RefundsTried'
    BY <1>1, <2>1, <2>4 DEF tried
  <2>9. Refunding'  BY <1>0, <2>2, <2>5, <2>6, <2>7, <2>8, RefundingKept
  <2> QED  BY <1>0, <2>2, <2>3, <2>9, PaymentStays
<1>3. ASSUME NEW k \in Tasks, OnRefundsScheduled(k) \/ TaskFails(k)
      PROVE  Refunding' /\ PaysOnlyAfterSources'
  <2>1. UNCHANGED <<bundle, row, finished, tx, marked, locks, unlocks>> /\ task' = [task EXCEPT ![k] = Off]
    BY <1>3 DEF OnRefundsScheduled, TaskFails
  <2>2. \A j \in Tasks : task'[j] = task[j] \/ task'[j] = Off  BY <1>0, <2>1 DEF TypeOK
  <2>3. /\ \A j \in Tasks : task'[j].status \in {"off", "Failed"} \cup RefundStatuses
        /\ \A j \in Tasks : Live(j)' => task'[j].refunds \subseteq Begun
    BY <2>2, OffType DEF Refunding, Live
  <2>4. \A j \in Tasks : task'[j].status \in {"RefundsQueued", "Failed"} => RefundsTried
    BY <1>1, <2>2, OffType DEF tried
  <2>5. /\ row'.status \in {"none", "Failed"} \cup RefundStatuses
        /\ finished' \in {"none", "Failed"} \cup RefundStatuses
        /\ marked' = NoRow \/ marked'.status = "RefundsReady"
        /\ row'.refunds \cup marked'.refunds \subseteq Begun
    BY <2>1 DEF Refunding
  <2>6. row'.status \in {"RefundsQueued", "Failed"} \/ finished' # "none" => RefundsTried
    BY <1>1, <2>1 DEF tried
  <2> QED  BY <1>0, <2>1, <2>3, <2>4, <2>5, <2>6, StillRefunding
<1>4. ASSUME NEW k \in Tasks, OnRefundsQueued(k)
      PROVE  Refunding' /\ PaysOnlyAfterSources'
  <2>1. UNCHANGED <<bundle, finished, tx, marked, locks, unlocks>> /\ UpdateBundleStatus(k, "Failed")
        /\ task[k].status = "RefundsQueued"
    BY <1>4 DEF OnRefundsQueued, At
  <2>2. RefundsTried  BY <1>1, <2>1 DEF tried
  <2>3. task' = [task EXCEPT ![k] = [task[k] EXCEPT !.status = "Failed"]]
    BY <1>0, <2>1 DEF UpdateBundleStatus, Goto, TypeOK
  <2>4. task'[k].status = "Failed" /\ task'[k].refunds = task[k].refunds
        /\ \A j \in Tasks : j # k => task'[j] = task[j]
    BY <1>0, <2>3 DEF TypeOK, Copies
  <2>5. /\ \A j \in Tasks : task'[j].status \in {"off", "Failed"} \cup RefundStatuses
        /\ \A j \in Tasks : Live(j)' => task'[j].refunds \subseteq Begun
    BY <2>1, <2>4 DEF Refunding, Live
  <2>6. row'.status \in {"none", "Failed"} /\ row'.refunds = row.refunds
    BY <1>0, <2>1 DEF UpdateBundleStatus, SetStatus, TypeOK, Copies
  <2>7. /\ finished' \in {"none", "Failed"} \cup RefundStatuses
        /\ marked' = NoRow \/ marked'.status = "RefundsReady"
        /\ row'.refunds \cup marked'.refunds \subseteq Begun
    BY <2>1, <2>6 DEF Refunding
  <2> QED  BY <1>0, <2>1, <2>2, <2>5, <2>6, <2>7, StillRefunding
<1>5. ASSUME NEW k \in Tasks, OnEnd(k)
      PROVE  Refunding' /\ PaysOnlyAfterSources'
  <2>1. UNCHANGED <<bundle, tx, marked, locks, unlocks>> /\ task' = [task EXCEPT ![k] = Off]
    BY <1>5 DEF OnEnd
  <2>2. task[k].status = "Failed"  BY <1>5 DEF OnEnd, At, Refunding, RefundStatuses
  <2>3. RefundsTried  BY <1>1, <2>2 DEF tried
  <2>4. \A j \in Tasks : task'[j] = task[j] \/ task'[j] = Off  BY <1>0, <2>1 DEF TypeOK
  <2>5. /\ \A j \in Tasks : task'[j].status \in {"off", "Failed"} \cup RefundStatuses
        /\ \A j \in Tasks : Live(j)' => task'[j].refunds \subseteq Begun
    BY <2>4, OffType DEF Refunding, Live
  <2>6. (row' = NoRow /\ finished' = row.status) \/ UNCHANGED <<row, finished>>  BY <1>5 DEF OnEnd
  <2>7. /\ row'.status \in {"none", "Failed"} \cup RefundStatuses
        /\ finished' \in {"none", "Failed"} \cup RefundStatuses
        /\ marked' = NoRow \/ marked'.status = "RefundsReady"
        /\ row'.refunds \cup marked'.refunds \subseteq Begun
    BY <2>1, <2>6, OffType DEF Refunding
  <2> QED  BY <1>0, <2>1, <2>3, <2>5, <2>7, StillRefunding
<1>6. ASSUME NEW k \in Tasks, Step(k)
      PROVE  Refunding' /\ PaysOnlyAfterSources'
  <2>1. task[k].status \in {"off", "Failed"} \cup RefundStatuses  BY DEF Refunding
  <2>2. OnRefundsScheduled(k) \/ OnRefundsReady(k) \/ OnRefundsQueued(k) \/ OnEnd(k)
    BY <1>6, <2>1 DEF Step, RefundStatuses, At, OnInit, OnLiquidityLocked, OnFeePayerQueued,
       OnFeePayerCompleted, OnSourceQueued, OnSourceConfirmed, OnDestinationQueued, OnFailures,
       OnDestinationConfirmed, OnSettlementsQueued, OnSettlementsProcessing, OnSettlementCompletionQueued
  <2> QED  BY <1>3, <1>4, <1>5, <2>2, RefundsReadyKeeps
<1>7. CASE MarkRefundReady
  <2>1. UNCHANGED <<bundle, finished, tx, task, locks, unlocks>> /\ row.status # "none"
        /\ row' = [row EXCEPT !.status = "RefundsReady"] /\ marked' = [row EXCEPT !.status = "RefundsReady"]
    BY <1>7 DEF MarkRefundReady, SetStatus
  <2>2. /\ row'.status = "RefundsReady" /\ row'.refunds = row.refunds
        /\ marked'.status = "RefundsReady" /\ marked'.refunds = row.refunds
    BY <1>0, <2>1 DEF TypeOK, Copies
  <2>3. /\ \A j \in Tasks : task'[j].status \in {"off", "Failed"} \cup RefundStatuses
        /\ \A j \in Tasks : Live(j)' => task'[j].refunds \subseteq Begun
        /\ finished' \in {"none", "Failed"} \cup RefundStatuses
        /\ row'.refunds \cup marked'.refunds \subseteq Begun
    BY <2>1, <2>2 DEF Refunding, Live
  <2>4. finished' # "none" \/ (\E j \in Tasks : task'[j].status \in {"RefundsQueued", "Failed"}) => RefundsTried
    BY <1>1, <2>1 DEF tried
  <2> QED  BY <1>0, <2>1, <2>2, <2>3, <2>4, StillRefunding DEF RefundStatuses
<1>8. ASSUME NEW c \in Copies, Spawn(c), c.status \in {"Failed"} \cup RefundStatuses,
             c.refunds \subseteq Begun, c.status \in {"RefundsQueued", "Failed"} => RefundsTried,
             UNCHANGED <<bundle, row, finished, tx, locks, unlocks>>, marked' = NoRow \/ marked' = marked
      PROVE  Refunding' /\ PaysOnlyAfterSources'
  <2>1. \A j \in Tasks : task'[j] = task[j] \/ task'[j] = c  BY <1>0, <1>8 DEF Spawn, TypeOK
  <2>2. /\ \A j \in Tasks : task'[j].status \in {"off", "Failed"} \cup RefundStatuses
        /\ \A j \in Tasks : Live(j)' => task'[j].refunds \subseteq Begun
    BY <1>8, <2>1 DEF Refunding, Live
  <2>3. \A j \in Tasks : task'[j].status \in {"RefundsQueued", "Failed"} => RefundsTried
    BY <1>1, <1>8, <2>1 DEF tried
  <2>4. /\ row'.status \in {"none", "Failed"} \cup RefundStatuses
        /\ finished' \in {"none", "Failed"} \cup RefundStatuses
        /\ marked' = NoRow \/ marked'.status = "RefundsReady"
        /\ row'.refunds \cup marked'.refunds \subseteq Begun
    BY <1>8, OffType DEF Refunding
  <2>5. row'.status \in {"RefundsQueued", "Failed"} \/ finished' # "none" => RefundsTried
    BY <1>1, <1>8 DEF tried
  <2> QED  BY <1>0, <1>8, <2>2, <2>3, <2>4, <2>5, StillRefunding
<1>9. CASE ResumeForRefund
  <2>1. marked.status = "RefundsReady" /\ marked.refunds \subseteq Begun /\ marked \in Copies
    BY <1>0, <1>9 DEF ResumeForRefund, Refunding, TypeOK
  <2>2. Spawn(marked) /\ marked' = NoRow /\ UNCHANGED <<bundle, row, finished, tx, locks, unlocks>>
    BY <1>9 DEF ResumeForRefund
  <2> QED  BY <1>8, <2>1, <2>2 DEF RefundStatuses
<1>10. CASE Restart
  <2>1. /\ UNCHANGED <<bundle, row, finished, tx, locks, unlocks>> /\ marked' = NoRow
        /\ \A j \in Tasks : task'[j] = Off
    BY <1>10 DEF Restart
  <2>2. /\ row'.status \in {"none", "Failed"} \cup RefundStatuses
        /\ finished' \in {"none", "Failed"} \cup RefundStatuses
        /\ row'.refunds \cup marked'.refunds \subseteq Begun
    BY <2>1, OffType DEF Refunding
  <2>3. /\ \A j \in Tasks : task'[j].status = "off"
        /\ \A j \in Tasks : Live(j)' => task'[j].refunds \subseteq Begun
    BY <2>1, OffType DEF Live
  <2>4. row'.status \in {"RefundsQueued", "Failed"} \/ finished' # "none" => RefundsTried
    BY <1>1, <2>1 DEF tried
  <2> QED  BY <1>0, <2>1, <2>2, <2>3, <2>4, StillRefunding
<1>11. CASE LoadPendingBundles
  <2>1. UNCHANGED <<bundle, row, finished, tx, locks, unlocks, marked>>
    BY <1>11 DEF LoadPendingBundles
  <2>2. CASE row.status \notin {"none", "RefundsScheduled"} /\ Spawn(row)
    <3>1. row \in Copies /\ row.status \in {"Failed"} \cup RefundStatuses /\ row.refunds \subseteq Begun
      BY <1>0, <2>2 DEF Refunding, TypeOK
    <3>2. row.status \in {"RefundsQueued", "Failed"} => RefundsTried  BY <1>1 DEF tried
    <3> QED  BY <1>8, <2>1, <2>2, <3>1, <3>2
  <2>3. CASE UNCHANGED task
    <3>1. /\ row'.status \in {"none", "Failed"} \cup RefundStatuses
          /\ finished' \in {"none", "Failed"} \cup RefundStatuses
          /\ marked' = NoRow \/ marked'.status = "RefundsReady"
          /\ row'.refunds \cup marked'.refunds \subseteq Begun
          /\ \A j \in Tasks : task'[j].status \in {"off", "Failed"} \cup RefundStatuses
          /\ \A j \in Tasks : Live(j)' => task'[j].refunds \subseteq Begun
      BY <2>1, <2>3 DEF Refunding, Live
    <3>2. \/ row'.status \in {"RefundsQueued", "Failed"} \/ finished' # "none"
          \/ \E j \in Tasks : task'[j].status \in {"RefundsQueued", "Failed"}
          => RefundsTried
      BY <1>1, <2>1, <2>3 DEF tried
    <3> QED  BY <1>0, <2>1, <3>1, <3>2, StillRefunding
  <2> QED  BY <1>11, <2>2, <2>3 DEF LoadPendingBundles
<1> QED  BY <1>2, <1>3, <1>6, <1>7, <1>9, <1>10, <1>11 DEF Next

(***************************************************************************)
(* Theorems                                                                *)
(***************************************************************************)

LEMMA InitIInv == Init => IInv
<1> SUFFICES ASSUME Init PROVE IInv  OBVIOUS
<1>1. PICK c \in Copies : c = Copy("Init", {}, FALSE)  BY DEF Copies, Copy, Statuses
<1>2. c.status = "Init" /\ c.refunds = {} /\ c.unverified = FALSE  BY <1>1 DEF Copy
<1>3. row = c /\ task = [k \in Tasks |-> IF k = 1 THEN c ELSE Off]  BY <1>1 DEF Init
<1>4. TypeOK
  <2>1. row \in Copies /\ row.status # "off" /\ task \in [Tasks -> Copies]  BY <1>2, <1>3, OffType
  <2>2. bundle \in [fee : BOOLEAN, src : SUBSET Src, settler : {"simple", "layerzero"}]
    BY DEF Init
  <2>3. tx \in [Txs -> TxStates]  BY DEF Init, TxStates
  <2>4. marked \in Copies /\ finished \in Statuses \cup {"none"}  BY OffType DEF Init
  <2>7. packet \in [Src -> PacketFates]  BY DEF Init, PacketFates
  <2>5. {scheduled, booting, died} \subseteq BOOLEAN
    <3>1. scheduled = FALSE /\ booting = FALSE /\ died = FALSE  BY DEF Init
    <3>2. scheduled \in BOOLEAN /\ booting \in BOOLEAN /\ died \in BOOLEAN
      BY <3>1
    <3> QED  BY <3>2
  <2>6. {started, restarts, locks, unlocks} \subseteq Nat
    BY DEF Init
  <2> QED  BY <2>1, <2>2, <2>3, <2>4, <2>5, <2>6, <2>7 DEF TypeOK
<1>5. \A t \in Txs : tx[t] = "none"  BY DEF Init
<1>6. PaysOnlyAfterSources  BY <1>5, TxFacts DEF PaysOnlyAfterSources
<1>7. None(RefundTxs) /\ None({DstTx} \cup LateTxs) /\ None(SrcTxs)
  BY <1>4, <1>5, TxFacts DEF None, LateTxs, SrcTxs, TypeOK
<1>8. Reached(c)  BY <1>2, <1>7 DEF Init, Reached, BeforeSources, BeforePayout, HoldsLock, Paid
<1>9. \A k \in Tasks : Live(k) => k = 1 /\ task[k] = c  BY <1>3, OffType DEF Live
<1>10. Reached(row)  BY <1>3, <1>8
<1>11. ASSUME NEW k \in Tasks, Live(k)
       PROVE  /\ task[k].status \in Statuses \ RefundStatuses /\ Reached(task[k])
              /\ task[k].status = row.status /\ task[k].refunds = {} /\ task[k].unverified = row.unverified
  <2>1. task[k] = c  BY <1>9, <1>11
  <2>2. Reached(task[k])  BY <1>8, <2>1
  <2> QED  BY <1>2, <1>3, <2>1, <2>2 DEF Statuses, RefundStatuses
<1>12. ~scheduled /\ marked = NoRow /\ finished = "none" /\ ~booting  BY DEF Init
<1>13. OneTask
  BY <1>2, <1>3, <1>7, <1>9, <1>10, <1>11, <1>12 DEF OneTask, RefundStatuses
<1> QED  BY <1>4, <1>6, <1>13 DEF IInv

\* A step of the service, of a transaction, of the refund monitor or a restart
\* keeps the invariant.
LEMMA NextIInv == IInv /\ [Next]_vars => IInv'
<1> SUFFICES ASSUME IInv, [Next]_vars PROVE IInv'  OBVIOUS
<1>1. TypeOK'  BY NextType DEF IInv
<1>2. CASE UNCHANGED vars
  <2>1. UNCHANGED <<bundle, row, finished, scheduled, tx, task, started, died, locks, unlocks, packet,
                    marked, booting, restarts>>
    BY <1>2 DEF vars, taskVars, moneyVars, procVars
  <2>2. PaysOnlyAfterSources'  BY <2>1 DEF IInv, PaysOnlyAfterSources, AllOk, FeeTxs, SrcTxs
  <2>3. CASE OneTask
    <3>1. \A c \in Copies : Reached(c) => Reached(c)'  BY <2>1, ReachedStays
    <3>2. None(RefundTxs)'  BY <2>1, <2>3 DEF OneTask, None
    <3>3. \A k \in Tasks : Live(k)' => Live(k) /\ task'[k] = task[k]  BY <2>1 DEF Live
    <3>4. marked' = NoRow /\ (booting' => \A k \in Tasks : ~Live(k)')  BY <2>1, <2>3, <3>3 DEF OneTask
    <3>5. TypeOK  BY DEF IInv
    <3>6. OneTask'  BY <2>1, <2>3, <3>1, <3>2, <3>3, <3>4, <3>5, Kept
    <3> QED  BY <1>1, <2>2, <3>6 DEF IInv
  <2>4. CASE Refunding
    <3>1. TypeOK /\ PaysOnlyAfterSources  BY DEF IInv
    <3>2. Refunding'
      BY <1>1, <2>1, <2>4, <3>1, StillRefunding DEF Refunding, Live
    <3> QED  BY <1>1, <2>2, <3>2 DEF IInv
  <2> QED  BY <2>3, <2>4 DEF IInv
<1>3. CASE Next  BY <1>1, <1>3, OneTaskKept, RefundingStep DEF IInv
<1> QED  BY <1>2, <1>3

\* Until refunds are scheduled one task works on a bundle and its status tells what
\* was locked, queued and paid; afterwards no task can pay: for any number of sources,
\* of tasks started by restarts and the refund monitor, and of restarts.
THEOREM Inductive == Spec => []IInv
  BY InitIInv, NextIInv, PTL DEF Spec

\* The destination transaction is queued only after the fee payer and all sources
\* succeeded, it is outstanding only while the liquidity is locked, and the lock is
\* taken once and given back once by the end.
THEOREM PayoutsAreSafe == Spec => []PayoutSafe
<1>1. IInv => PayoutSafe
  <2> SUFFICES ASSUME IInv PROVE PayoutSafe  OBVIOUS
  <2>1. CASE OneTask /\ row.status # "none"
    <3>1. PICK c : c = row  OBVIOUS
    <3>2. Reached(c) /\ finished = "none"  BY <2>1, <3>1 DEF OneTask
    <3>3. c.status \in HoldsLock \/ c.status = "Init" \/ c.status \notin HoldsLock \cup {"Init"}  OBVIOUS
    <3>4. c.status = "Init" => tx[DstTx] = "none"
      BY <3>2 DEF Reached, None, BeforePayout, BeforeSources
    <3> QED  BY <3>2, <3>3, <3>4 DEF IInv, PayoutSafe, LockedWhileSpending, LiquidityBalanced, Reached
  <2>2. CASE OneTask /\ row.status = "none"
    <3>1. PICK c : c = Copy(finished, {}, FALSE)  OBVIOUS
    <3>2. Reached(c) /\ c.status \in {"Done", "Failed"}  BY <2>2, <3>1 DEF OneTask, Copy
    <3>3. c.status \notin HoldsLock \cup {"Init"}  BY <3>2 DEF HoldsLock, BeforePayout, BeforeSources
    <3> QED  BY <3>2, <3>3 DEF IInv, PayoutSafe, LockedWhileSpending, LiquidityBalanced, Reached
  <2>3. CASE Refunding
    BY <2>3 DEF IInv, PayoutSafe, LockedWhileSpending, LiquidityBalanced, Refunding
  <2> QED  BY <2>1, <2>2, <2>3 DEF IInv
<1> QED  BY <1>1, Inductive, PTL

\* A bundle in finished_bundles is what it says: nobody is both paid and refunded, an
\* unpaid bundle has tried to refund every escrow with money, and Done means that
\* the user was paid, every settlement was confirmed, and no message that was sent is
\* still pending: what became of it after the pool's answer is not known.
THEOREM OutcomesAreTrue == Spec => []OutcomeTrue
<1>1. IInv => OutcomeTrue
  <2> SUFFICES ASSUME IInv PROVE OutcomeTrue  OBVIOUS
  <2>0. bundle.src \subseteq Src  BY DEF IInv, TypeOK
  <2>1. CASE OneTask
    <3>1. NoRefundAfterPayout  BY <2>1 DEF OneTask, None, NoRefundAfterPayout
    <3>2. ASSUME finished # "none"
          PROVE  finished \in {"Done", "Failed"} /\ Reached(Copy(finished, {}, FALSE))
      BY <2>1, <3>2 DEF OneTask
    <3>3. PICK c : c = Copy(finished, {}, FALSE)  OBVIOUS
    <3>4. finished # "none" => Reached(c) /\ c.status = finished /\ finished \in {"Done", "Failed"}
      BY <3>2, <3>3 DEF Copy
    <3>5. EscrowsRefunded  BY <3>4 DEF EscrowsRefunded, Reached, Paid
    <3>6. DoneMeansAnswered
      BY <3>4 DEF DoneMeansAnswered, Reached, Paid, SettledAll, Packets
    <3> QED  BY <3>1, <3>5, <3>6 DEF OutcomeTrue
  <2>2. CASE Refunding
    <3>1. NoRefundAfterPayout  BY <2>2 DEF Refunding, None, LateTxs, NoRefundAfterPayout
    <3>2. EscrowsRefunded
      BY <2>2 DEF Refunding, EscrowsRefunded, RefundsTried, ConfirmedEscrows, Confirmed
    <3>3. DoneMeansAnswered  BY <2>2 DEF Refunding, RefundStatuses, DoneMeansAnswered
    <3> QED  BY <3>1, <3>2, <3>3 DEF OutcomeTrue
  <2> QED  BY <2>1, <2>2 DEF IInv
<1> QED  BY <1>1, Inductive, PTL

(***************************************************************************)
(* Quotes: the funds of a bundle                                          *)
(***************************************************************************)

\* A set of natural numbers has a least element.
LEMMA LeastNumber ==
  ASSUME NEW T, T \subseteq Nat, T # {}
  PROVE  \E x \in T : \A y \in T : x <= y
<1> DEFINE Lt == {ss \in Nat \X Nat : ss[1] < ss[2]}
<1>1. IsWellFoundedOn(Lt, Nat)  BY NatLessThanWellFounded DEF OpToRel
<1> HIDE DEF Lt
<1>2. PICK x \in T : \A y \in T : ~ (<<y, x>> \in Lt)  BY <1>1, WFMin
<1>3. ASSUME NEW y \in T PROVE x <= y
  <2>1. x \in Nat /\ y \in Nat  OBVIOUS
  <2>2. y < x => <<y, x>> \in Lt  BY <2>1 DEF Lt
  <2> QED  BY <1>2, <2>1, <2>2
<1> QED  BY <1>3

\* Numbers up to a bound have a greatest one, which Max returns.
LEMMA MaxOfBounded ==
  ASSUME NEW T, NEW b \in Nat, T \subseteq 0..b, T # {}
  PROVE  Max(T) \in T /\ \A y \in T : y <= Max(T)
<1> DEFINE U == {u \in Nat : \A y \in T : y <= u}
<1>1. b \in U  OBVIOUS
<1>2. PICK m \in U : \A u \in U : m <= u
  <2>1. U \subseteq Nat /\ U # {}  BY <1>1
  <2> QED  BY <2>1, LeastNumber
<1>3. m \in T
  <2> SUFFICES ASSUME m \notin T PROVE FALSE  OBVIOUS
  <2>1. PICK y \in T : TRUE  OBVIOUS
  <2>2. m \in Nat /\ \A z \in T : z \in Nat /\ z <= m /\ z # m  OBVIOUS
  <2>3. m - 1 \in Nat /\ \A z \in T : z <= m - 1  BY <2>1, <2>2
  <2>4. m - 1 \in U  BY <2>3
  <2> QED  BY <1>2, <2>2, <2>4
<1>4. \A y \in T : y <= m  BY <1>2
<1>5. \E x \in T : \A y \in T : x >= y  BY <1>3, <1>4
<1> HIDE DEF U
<1> QED  BY <1>5 DEF Max

\* Steps taken one after the other, each a function on a set.
Iterates(f, start, steps, n) ==
  f = [i \in 0..n |-> IF i = 0 THEN start ELSE steps[i][f[i - 1]]]

LEMMA IteratesExist ==
  ASSUME NEW start, NEW steps, NEW n \in Nat
  PROVE  \E f : Iterates(f, start, steps, n)
<1> DEFINE T == {m \in Nat : ~ \E f : Iterates(f, start, steps, m)}
<1> SUFFICES ASSUME T # {} PROVE FALSE  OBVIOUS
<1>1. PICK m \in T : \A y \in T : m <= y
  <2>1. T \subseteq Nat  OBVIOUS
  <2> QED  BY <2>1, LeastNumber
<1>2. CASE m = 0
  <2> PICK f : f = [i \in 0..0 |-> start]  OBVIOUS
  <2>1. f = [i \in 0..0 |-> IF i = 0 THEN start ELSE steps[i][f[i - 1]]]
    <3>1. \A i \in 0..0 : i = 0  OBVIOUS
    <3> QED  BY <3>1
  <2> QED  BY <1>2, <2>1 DEF Iterates
<1>3. CASE m # 0
  <2>1. m \in Nat /\ m - 1 \in Nat /\ m - 1 \notin T  BY <1>1, <1>3
  <2>2. PICK g : Iterates(g, start, steps, m - 1)  BY <2>1
  <2> PICK f : f = [i \in 0..m |-> IF i = m THEN steps[m][g[m - 1]] ELSE g[i]]  OBVIOUS
  <2>3. g = [i \in 0..(m - 1) |-> IF i = 0 THEN start ELSE steps[i][g[i - 1]]]
    BY <2>2 DEF Iterates
  <2>4. \A i \in 0..m : i # m => i \in 0..(m - 1)  BY <2>1
  <2>5. \A i \in 0..m : i # 0 => i - 1 \in 0..m /\ i - 1 # m /\ f[i - 1] = g[i - 1]  BY <2>1
  <2>6. \A i \in 0..m : f[i] = IF i = 0 THEN start ELSE steps[i][f[i - 1]]
    <3> TAKE i \in 0..m
    <3>1. CASE i = m
      <4>1. f[i] = steps[m][g[m - 1]]  BY <3>1
      <4>2. f[i - 1] = g[m - 1]  BY <3>1, <1>3, <2>5
      <4> QED  BY <4>1, <4>2, <3>1, <1>3
    <3>2. CASE i # m
      <4>1. f[i] = g[i] /\ i \in 0..(m - 1)  BY <3>2, <2>4
      <4>2. g[i] = IF i = 0 THEN start ELSE steps[i][g[i - 1]]  BY <4>1, <2>3
      <4>3. i # 0 => f[i - 1] = g[i - 1]  BY <2>5
      <4> QED  BY <4>1, <4>2, <4>3
    <3> QED  BY <3>1, <3>2
  <2>7. f = [i \in 0..m |-> IF i = 0 THEN start ELSE steps[i][f[i - 1]]]
    <3>1. f = [i \in 0..m |-> f[i]]  OBVIOUS
    <3> QED  BY <2>6, <3>1
  <2> QED  BY <2>7 DEF Iterates
<1> QED  BY <1>2, <1>3

\* A set that every step stays in.
LEMMA IteratesStay ==
  ASSUME NEW C, NEW n \in Nat, NEW g, g[0] \in C, \A i \in 1..n : g[i - 1] \in C => g[i] \in C
  PROVE  \A i \in 0..n : g[i] \in C
<1> DEFINE T == {i \in 0..n : g[i] \notin C}
<1> SUFFICES ASSUME T # {} PROVE FALSE  OBVIOUS
<1>1. PICK m \in T : \A y \in T : m <= y
  <2>1. T \subseteq Nat  OBVIOUS
  <2> HIDE DEF T
  <2> QED  BY <2>1, LeastNumber
<1>2. m \in 0..n /\ g[m] \notin C /\ m # 0  OBVIOUS
<1>3. m - 1 \in 0..n /\ ~(m <= m - 1) /\ m \in 1..n  BY <1>2
<1>4. g[m - 1] \in C
  <2>1. m - 1 \notin T  BY <1>1, <1>3
  <2> QED  BY <1>3, <2>1
<1> QED  BY <1>2, <1>3, <1>4

\* Steps that stay in a set can be taken one after the other.
Iterable(C, n, start, steps) ==
  \E f \in [0..n -> C] : f[0] = start /\ \A i \in 1..n : f[i] = steps[i][f[i - 1]]

LEMMA IteratesWithin ==
  ASSUME NEW C, NEW n \in Nat, NEW start \in C, NEW steps,
         \A i \in 1..n : \A c \in C : steps[i][c] \in C
  PROVE  Iterable(C, n, start, steps)
<1>1. PICK f : Iterates(f, start, steps, n)  BY IteratesExist
<1>2. f = [i \in 0..n |-> IF i = 0 THEN start ELSE steps[i][f[i - 1]]]  BY <1>1 DEF Iterates
<1>3. f[0] = start  BY <1>2
<1>4. \A i \in 1..n : f[i] = steps[i][f[i - 1]]
  <2> TAKE i \in 1..n
  <2>1. i \in 0..n /\ i # 0  OBVIOUS
  <2> QED  BY <1>2, <2>1
<1>5. \A i \in 0..n : f[i] \in C
  <2>1. \A i \in 1..n : f[i - 1] \in C => f[i] \in C  BY <1>4
  <2> QED  BY <1>3, <2>1, IteratesStay
<1>6. f \in [0..n -> C]  BY <1>2, <1>5
<1> QED  BY <1>3, <1>4, <1>6 DEF Iterable

\* Powers of ten are positive.
LEMMA PowerPositive ==
  ASSUME NEW k \in Nat
  PROVE  Power(k) \in Nat /\ Power(k) > 0 /\ Power(0) = 1
<1> DEFINE C == Nat \ {0}
           Steps == [i \in 1..k |-> [x \in C |-> Ten * x]]
<1>1. Ten \in Nat \ {0}  BY QuoteAssumption
<1>2. \A x \in C : Ten * x \in C  BY <1>1
<1>3. \A i \in 1..k : \A x \in C : Steps[i][x] = Ten * x  OBVIOUS
<1>4. Iterable(C, k, 1, Steps)
  <2>1. 1 \in C /\ \A i \in 1..k : \A x \in C : Steps[i][x] \in C  BY <1>2, <1>3
  <2> HIDE DEF C, Steps
  <2> QED  BY <2>1, IteratesWithin
<1>5. PICK f \in [0..k -> C] : f[0] = 1 /\ \A i \in 1..k : f[i] = Steps[i][f[i - 1]]
  BY <1>4 DEF Iterable
<1>6. f = [i \in 0..k |-> IF i = 0 THEN 1 ELSE Ten * f[i - 1]]
  <2>1. \A i \in 0..k : f[i] = IF i = 0 THEN 1 ELSE Ten * f[i - 1]
    <3> TAKE i \in 0..k
    <3>1. i # 0 => i \in 1..k /\ i - 1 \in 0..k  OBVIOUS
    <3> QED  BY <1>3, <1>5, <3>1
  <2> QED  BY <2>1
<1>c. PICK g : g = CHOOSE h : h = [i \in 0..k |-> IF i = 0 THEN 1 ELSE Ten * h[i - 1]]  OBVIOUS
<1>7. g = [i \in 0..k |-> IF i = 0 THEN 1 ELSE Ten * g[i - 1]]  BY <1>6, <1>c
<1>8. g[0] \in C /\ \A i \in 1..k : g[i - 1] \in C => g[i] \in C
  <2>1. g[0] = 1  BY <1>7
  <2>2. \A i \in 1..k : g[i] = Ten * g[i - 1]
    <3> TAKE i \in 1..k
    <3>1. i \in 0..k /\ i # 0  OBVIOUS
    <3> QED  BY <1>7, <3>1
  <2> QED  BY <1>2, <2>1, <2>2
<1>9. g[k] \in C
  <2> HIDE DEF C
  <2>1. \A i \in 0..k : g[i] \in C  BY <1>8, IteratesStay
  <2> QED  BY <2>1
<1>10. Power(k) = g[k]  BY <1>c DEF Power
<1>11. Power(0) = 1
  <2>c. PICK u : u = CHOOSE h : h = [i \in 0..0 |-> IF i = 0 THEN 1 ELSE Ten * h[i - 1]]  OBVIOUS
  <2>1. PICK v : v = [i \in 0..0 |-> 1]  OBVIOUS
  <2>2. v = [i \in 0..0 |-> IF i = 0 THEN 1 ELSE Ten * v[i - 1]]
    <3>1. \A i \in 0..0 : i = 0  OBVIOUS
    <3> QED  BY <2>1, <3>1
  <2>3. u = [i \in 0..0 |-> IF i = 0 THEN 1 ELSE Ten * u[i - 1]]  BY <2>2, <2>c
  <2>4. u[0] = 1  BY <2>3
  <2> QED  BY <2>4, <2>c DEF Power
<1> QED  BY <1>9, <1>10, <1>11

\* What a sum of members of a set that is closed under addition is.
LEMMA AddedStays ==
  ASSUME NEW C, 0 \in C, \A x, y \in C : x + y \in C, NEW s \in Seq(C)
  PROVE  Added(s) \in C
<1> PICK n \in Nat : n = Len(s)  OBVIOUS
<1> DEFINE Steps == [i \in 1..n |-> [x \in C |-> x + s[i]]]
<1>1. \A i \in 1..n : s[i] \in C  OBVIOUS
<1>3. \A i \in 1..n : \A x \in C : Steps[i][x] = x + s[i]  OBVIOUS
<1>4. Iterable(C, n, 0, Steps)
  <2>1. \A i \in 1..n : \A x \in C : Steps[i][x] \in C  BY <1>1, <1>3
  <2> HIDE DEF Steps
  <2> QED  BY <2>1, IteratesWithin
<1>5. PICK f \in [0..n -> C] : f[0] = 0 /\ \A i \in 1..n : f[i] = Steps[i][f[i - 1]]
  BY <1>4 DEF Iterable
<1>6. f = [i \in 0..n |-> IF i = 0 THEN 0 ELSE f[i - 1] + s[i]]
  <2>1. \A i \in 0..n : f[i] = IF i = 0 THEN 0 ELSE f[i - 1] + s[i]
    <3> TAKE i \in 0..n
    <3>1. i # 0 => i \in 1..n /\ i - 1 \in 0..n  OBVIOUS
    <3>2. i # 0 => f[i - 1] \in C /\ f[i] = Steps[i][f[i - 1]]  BY <1>5, <3>1
    <3> HIDE DEF Steps
    <3> QED  BY <1>3, <1>5, <3>1, <3>2
  <2> QED  BY <2>1
<1>c. PICK g : g = CHOOSE h : h = [i \in 0..n |-> IF i = 0 THEN 0 ELSE h[i - 1] + s[i]]  OBVIOUS
<1>7. g = [i \in 0..n |-> IF i = 0 THEN 0 ELSE g[i - 1] + s[i]]  BY <1>6, <1>c
<1>8. g[0] \in C /\ \A i \in 1..n : g[i - 1] \in C => g[i] \in C
  <2>1. g[0] = 0  BY <1>7
  <2>2. \A i \in 1..n : g[i] = g[i - 1] + s[i]
    <3> TAKE i \in 1..n
    <3>1. i \in 0..n /\ i # 0  OBVIOUS
    <3> QED  BY <1>7, <3>1
  <2> QED  BY <1>1, <2>1, <2>2
<1>9. g[n] \in C
  <2>1. \A i \in 0..n : g[i] \in C  BY <1>8, IteratesStay
  <2> QED  BY <2>1
<1> QED  BY <1>9, <1>c DEF Added

LEMMA AppendKeeps ==
  ASSUME NEW T, NEW y \in Seq(T), NEW e \in T
  PROVE  Append(y, e) # <<>> /\ Append(y, e) \in Seq(T)
  BY AppendProperties

\* What is left of a sequence when only the members of a set stay.
LEMMA OnlyKeeps ==
  ASSUME NEW D, NEW s \in Seq(D), NEW S
  PROVE  /\ Only(s, S) \in Seq(D \cap S)
         /\ Only(s, S) = <<>> => \A i \in DOMAIN s : s[i] \notin S
<1> DEFINE C == Seq(D \cap S)
<1> PICK n \in Nat : n = Len(s) /\ DOMAIN s = 1..n  OBVIOUS
<1> DEFINE Steps == [i \in 1..n |-> [x \in C |-> IF s[i] \in S THEN Append(x, s[i]) ELSE x]]
<1>1. \A i \in 1..n : s[i] \in D  OBVIOUS
<1>2. \A i \in 1..n : \A x \in C : (IF s[i] \in S THEN Append(x, s[i]) ELSE x) \in C  BY <1>1
<1>3. \A i \in 1..n : \A x \in C : Steps[i][x] = IF s[i] \in S THEN Append(x, s[i]) ELSE x
  <2> HIDE DEF C
  <2> QED  OBVIOUS
<1>4. Iterable(C, n, <<>>, Steps)
  <2>1. <<>> \in C /\ \A i \in 1..n : \A x \in C : Steps[i][x] \in C  BY <1>2, <1>3
  <2> HIDE DEF C, Steps
  <2> QED  BY <2>1, IteratesWithin
<1>5. PICK f \in [0..n -> C] : f[0] = <<>> /\ \A i \in 1..n : f[i] = Steps[i][f[i - 1]]
  <2> HIDE DEF C, Steps
  <2> QED  BY <1>4 DEF Iterable
<1> HIDE DEF Steps
<1>6. f = [i \in 0..n |-> IF i = 0 THEN <<>> ELSE IF s[i] \in S THEN Append(f[i - 1], s[i]) ELSE f[i - 1]]
  <2> HIDE DEF C
  <2>1. \A i \in 0..n : f[i] = IF i = 0 THEN <<>> ELSE IF s[i] \in S THEN Append(f[i - 1], s[i]) ELSE f[i - 1]
    <3> TAKE i \in 0..n
    <3>1. i # 0 => i \in 1..n /\ i - 1 \in 0..n  OBVIOUS
    <3>2. i # 0 => f[i - 1] \in C /\ f[i] = Steps[i][f[i - 1]]  BY <1>5, <3>1
    <3> QED  BY <1>3, <1>5, <3>1, <3>2
  <2> QED  BY <2>1
<1>c. PICK g : g = CHOOSE h : h = [i \in 0..n |-> IF i = 0 THEN <<>> ELSE IF s[i] \in S THEN Append(h[i - 1], s[i]) ELSE h[i - 1]]
  OBVIOUS
<1>7. g = [i \in 0..n |-> IF i = 0 THEN <<>> ELSE IF s[i] \in S THEN Append(g[i - 1], s[i]) ELSE g[i - 1]]  BY <1>6, <1>c
<1>8. g[0] = <<>> /\ \A i \in 1..n : g[i] = IF s[i] \in S THEN Append(g[i - 1], s[i]) ELSE g[i - 1]
  <2>1. g[0] = <<>>  BY <1>7
  <2>2. ASSUME NEW i \in 1..n PROVE g[i] = IF s[i] \in S THEN Append(g[i - 1], s[i]) ELSE g[i - 1]
    <3>1. i \in 0..n /\ i # 0  OBVIOUS
    <3> QED  BY <1>7, <3>1
  <2> QED  BY <2>1, <2>2
<1>9. \A i \in 0..n : g[i] \in C
  <2>0. <<>> \in C  OBVIOUS
  <2> HIDE DEF C
  <2>1. g[0] \in C  BY <1>8, <2>0
  <2>2. \A i \in 1..n : g[i - 1] \in C => g[i] \in C  BY <1>2, <1>8
  <2> QED  BY <2>1, <2>2, IteratesStay
<1>10. Only(s, S) = g[n]  BY <1>c DEF Only
<1>11. ASSUME NEW j \in 1..n, s[j] \in S PROVE g[n] # <<>>
  <2> DEFINE N == C \ {<<>>}
             h == [i \in 0..(n - j) |-> g[j + i]]
  <2>1. h[0] \in N
    <3>1. h[0] = g[j] /\ j - 1 \in 0..n  OBVIOUS
    <3>2. g[j] = Append(g[j - 1], s[j]) /\ g[j - 1] \in Seq(D \cap S) /\ s[j] \in D \cap S
      BY <1>1, <1>8, <1>9, <1>11, <3>1
    <3>3. PICK y \in Seq(D \cap S), e \in D \cap S : g[j] = Append(y, e)  BY <3>2
    <3>4. Append(y, e) # <<>> /\ Append(y, e) \in Seq(D \cap S)  BY AppendKeeps, Zenon
    <3> QED  BY <3>1, <3>3, <3>4
  <2>2. ASSUME NEW i \in 1..(n - j), h[i - 1] \in N PROVE h[i] \in N
    <3>1. j + i \in 1..n /\ h[i] = g[j + i] /\ h[i - 1] = g[j + i - 1]  OBVIOUS
    <3> PICK x : x = g[j + i - 1]  OBVIOUS
    <3> PICK k \in 1..n : k = j + i  BY <3>1
    <3>2. x \in Seq(D \cap S) /\ x # <<>>  BY <2>2, <3>1
    <3>3. g[k] = IF s[k] \in S THEN Append(x, s[k]) ELSE x  BY <1>8
    <3>4. s[k] \in S => s[k] \in D \cap S /\ Append(x, s[k]) \in Seq(D \cap S) /\ Append(x, s[k]) # <<>>
      BY <1>1, <3>2, AppendProperties
    <3>5. g[k] \in Seq(D \cap S) /\ g[k] # <<>>  BY <3>2, <3>3, <3>4
    <3> QED  BY <3>1, <3>5
  <2>3. h[n - j] \in N
    <3>0. n - j \in Nat  OBVIOUS
    <3> PICK m \in Nat : m = n - j  BY <3>0
    <3>1. \A i \in 1..m : h[i - 1] \in N => h[i] \in N  BY <2>2
    <3> HIDE DEF N, h
    <3>2. \A i \in 0..m : h[i] \in N  BY <2>1, <3>1, IteratesStay
    <3> QED  BY <3>2
  <2>4. h[n - j] = g[n]  OBVIOUS
  <2> QED  BY <2>3, <2>4
<1> QED  BY <1>9, <1>10, <1>11
\* Conversion between decimals: down and back loses less than a unit, up and back nothing.
LEMMA Divided ==
  ASSUME NEW n \in Nat, NEW t \in Nat, t > 0
  PROVE  /\ n \div t \in Nat /\ n * t \in Nat
         /\ (n * t) \div t = n
         /\ n - (n \div t) * t < t
         /\ \A m \in Nat : m <= n \div t => m * t <= n
         /\ \A m \in Nat : m <= n * t => m \div t <= n
  OBVIOUS

\* An adjusted amount is natural.
LEMMA AdjustType ==
  ASSUME NEW n \in Nat, NEW from \in Nat, NEW to \in Nat
  PROVE  AdjustBalanceForDecimals(n, from, to) \in Nat
<1>1. CASE from > to
  <2>1. from - to \in Nat  BY <1>1
  <2> PICK t \in Nat : t = Power(from - to) /\ t > 0  BY <2>1, PowerPositive
  <2> QED  BY <1>1, Divided DEF AdjustBalanceForDecimals
<1>2. CASE ~(from > to)
  <2>1. to - from \in Nat  BY <1>2
  <2> PICK t \in Nat : t = Power(to - from) /\ t > 0  BY <2>1, PowerPositive
  <2> QED  BY <1>2, Divided DEF AdjustBalanceForDecimals
<1> QED  BY <1>1, <1>2

\* Adjusted back, an amount that was adjusted is no more than it was.
LEMMA AdjustBack ==
  ASSUME NEW n \in Nat, NEW m \in Nat, NEW from \in Nat, NEW to \in Nat,
         m <= AdjustBalanceForDecimals(n, from, to)
  PROVE  AdjustBalanceForDecimals(m, to, from) <= n
<1>1. CASE from > to
  <2>1. from - to \in Nat /\ ~(to > from)  BY <1>1
  <2> PICK t \in Nat : t = Power(from - to) /\ t > 0  BY <2>1, PowerPositive
  <2>2. m <= n \div t /\ AdjustBalanceForDecimals(m, to, from) = m * t
    BY <1>1, <2>1 DEF AdjustBalanceForDecimals
  <2> QED  BY <2>2, Divided
<1>2. CASE to > from
  <2>1. to - from \in Nat /\ ~(from > to)  BY <1>2
  <2> PICK t \in Nat : t = Power(to - from) /\ t > 0  BY <2>1, PowerPositive
  <2>2. m <= n * t /\ AdjustBalanceForDecimals(m, to, from) = m \div t
    BY <1>2, <2>1 DEF AdjustBalanceForDecimals
  <2> QED  BY <2>2, Divided
<1>3. CASE from = to
  <2>1. Power(from - to) = 1 /\ Power(to - from) = 1
    <3>1. from - to = 0 /\ to - from = 0  BY <1>3
    <3> QED  BY <3>1, PowerPositive
  <2> QED  BY <1>3, <2>1 DEF AdjustBalanceForDecimals
<1> QED  BY <1>1, <1>2, <1>3

\* Adjusted and adjusted back, an amount loses less than one unit of the coarser decimals.
LEMMA AdjustLoss ==
  ASSUME NEW n \in Nat, NEW from \in Nat, NEW to \in Nat
  PROVE  n - AdjustBalanceForDecimals(AdjustBalanceForDecimals(n, from, to), to, from)
           < IF from > to THEN Power(from - to) ELSE 1
<1>1. CASE from > to
  <2>1. from - to \in Nat /\ ~(to > from)  BY <1>1
  <2> PICK t \in Nat : t = Power(from - to) /\ t > 0  BY <2>1, PowerPositive
  <2>2. AdjustBalanceForDecimals(AdjustBalanceForDecimals(n, from, to), to, from) = (n \div t) * t
    BY <1>1, <2>1 DEF AdjustBalanceForDecimals
  <2> QED  BY <1>1, <2>2, Divided
<1>2. CASE to > from
  <2>1. to - from \in Nat /\ ~(from > to)  BY <1>2
  <2> PICK t \in Nat : t = Power(to - from) /\ t > 0  BY <2>1, PowerPositive
  <2>2. AdjustBalanceForDecimals(AdjustBalanceForDecimals(n, from, to), to, from) = (n * t) \div t
    BY <1>2, <2>1 DEF AdjustBalanceForDecimals
  <2> QED  BY <1>2, <2>1, <2>2, Divided
<1>3. CASE from = to
  <2>1. Power(from - to) = 1 /\ Power(to - from) = 1
    <3>1. from - to = 0 /\ to - from = 0  BY <1>3
    <3> QED  BY <3>1, PowerPositive
  <2> QED  BY <1>3, <2>1 DEF AdjustBalanceForDecimals
<1> QED  BY <1>1, <1>2, <1>3

LEMMA FeeDecType ==
  ASSUME NEW c \in Chains, FeeToken \in DOMAIN Token[c]
  PROVE  FeeDec(c) \in 0..255
  BY QuoteAssumption DEF FeeDec

\* Quotes whose fees can be added up in the fee token.
Payable(quotes, n) ==
  /\ DOMAIN quotes = 1..n
  /\ \A i \in 1..n : /\ quotes[i].chain \in Chains /\ FeeToken \in DOMAIN Token[quotes[i].chain]
                     /\ quotes[i].fee \in Nat

\* The most decimals of the fee tokens of some quotes.
LEMMA MostDecType ==
  ASSUME NEW n \in Nat, n > 0, NEW quotes, Payable(quotes, n)
  PROVE  MostDec(quotes) \in Nat
<1> DEFINE T == {FeeDec(quotes[i].chain) : i \in DOMAIN quotes}
<1>1. T \subseteq 0..255  BY FeeDecType DEF Payable
<1>2. T # {}
  <2>1. 1 \in DOMAIN quotes  BY DEF Payable
  <2> QED  BY <2>1
<1>3. Max(T) \in 0..255
  <2> HIDE DEF T
  <2>1. PICK b \in Nat : b = 255  OBVIOUS
  <2>2. Max(T) \in T  BY <1>1, <1>2, <2>1, MaxOfBounded
  <2> QED  BY <1>1, <2>2
<1> QED  BY <1>3 DEF MostDec

\* The sum of the fees, in the most decimals, is natural.
LEMMA FeeTotalType ==
  ASSUME NEW n \in Nat, n > 0, NEW quotes, Payable(quotes, n)
  PROVE  FeeTotal(quotes) \in Nat
<1> PICK most \in Nat : most = MostDec(quotes)  BY MostDecType
<1> DEFINE s == [i \in DOMAIN quotes |-> AdjustBalanceForDecimals(quotes[i].fee, FeeDec(quotes[i].chain), most)]
<1>1. \A i \in 1..n : AdjustBalanceForDecimals(quotes[i].fee, FeeDec(quotes[i].chain), most) \in Nat
  <2> TAKE i \in 1..n
  <2> PICK c : c = quotes[i].chain  OBVIOUS
  <2>1. quotes[i].fee \in Nat /\ c \in Chains /\ FeeToken \in DOMAIN Token[c]  BY DEF Payable
  <2>2. FeeDec(c) \in Nat  BY <2>1, FeeDecType
  <2> QED  BY <2>1, <2>2, AdjustType
<1>2. s \in Seq(Nat)
  <2>1. s \in [1..n -> Nat]  BY <1>1 DEF Payable
  <2> HIDE DEF s
  <2> QED  BY <2>1
<1>3. Added(s) \in Nat
  <2> HIDE DEF s
  <2>1. 0 \in Nat /\ \A x, y \in Nat : x + y \in Nat  OBVIOUS
  <2> QED  BY <1>2, <2>1, AddedStays
<1> QED  BY <1>3 DEF FeeTotal

\* The payer's quote is for the fees, and within the payer's balance.
LEMMA PayersCover ==
  ASSUME ask \in Situations, NEW n \in Nat, n > 0, NEW quotes, Payable(quotes, n), NEW p \in FeePayerQuotes(quotes)
  PROVE  PayerCovers(p)
<1> PICK most \in Nat : most = MostDec(quotes)  BY MostDecType
<1> PICK total \in Nat : total = FeeTotal(quotes)  BY FeeTotalType
<1>1. PICK c \in DOMAIN ask.payer :
        /\ p = PaidOn(c, total, most) /\ FeeToken \in DOMAIN Token[c]
        /\ PayerHas(c, most) >= 2 * total
  BY DEF FeePayerQuotes
<1>2. c \in Chains /\ ask.payer[c] \in Nat  BY QuoteAssumption
<1> PICK dec \in Nat : dec = FeeDec(c)  BY <1>1, <1>2, FeeDecType
<1> PICK has \in Nat : has = ask.payer[c]  BY <1>2
<1> PICK amount \in Nat : amount = AdjustBalanceForDecimals(total, most, dec)  BY AdjustType
<1>3. p.chain = c /\ p.amount = amount /\ p.total = total /\ p.dec = most  BY <1>1 DEF PaidOn
<1>4. total - AdjustBalanceForDecimals(amount, dec, most) < IF most > dec THEN Power(most - dec) ELSE 1
  BY AdjustLoss
<1>5. amount <= has
  <2>1. PICK worth \in Nat : worth = AdjustBalanceForDecimals(has, dec, most)  BY AdjustType
  <2>2. worth >= 2 * total  BY <1>1, <2>1 DEF PayerHas
  <2>3. total <= worth  BY <2>2
  <2> QED  BY <2>1, <2>3, AdjustBack
<1> QED  BY <1>3, <1>4, <1>5 DEF PayerCovers

Fundings == [asset : Assets, required : Int]

\* A source's balances are of assets that it has.
Usable(c) == {a \in Assets : a \in DOMAIN Token[c] /\ a \in Assets /\ BalanceOf(c, a) > 0}

LEMMA BalancesUsable ==
  ASSUME NEW c \in Sources, NEW funds \in Seq(Fundings)
  PROVE  Balances(c, funds) \in Seq(Usable(c))
<1> DEFINE s == [i \in DOMAIN funds |-> funds[i].asset]
           S == {a \in fetched : MapInteropAsset(Dst, c, a) /\ BalanceOf(c, a) > 0}
<1>1. s \in Seq(Assets)
  <2> PICK n \in Nat : DOMAIN funds = 1..n  OBVIOUS
  <2>0. \A i \in 1..n : funds[i] \in Fundings  OBVIOUS
  <2>1. \A i \in 1..n : funds[i].asset \in Assets  BY <2>0 DEF Fundings
  <2>2. s \in [1..n -> Assets]  BY <2>1
  <2> HIDE DEF s
  <2> QED  BY <2>2
<1>2. Balances(c, funds) = Only(s, S)  BY DEF Balances
<1>3. Only(s, S) \in Seq(Assets \cap S)
  <2> HIDE DEF s, S
  <2> QED  BY <1>1, OnlyKeeps
<1>4. Assets \cap S \subseteq Usable(c)  BY DEF Usable, MapInteropAsset
<1>5. Seq(Assets \cap S) \subseteq Seq(Usable(c))
  <2> PICK A : A = Assets \cap S  OBVIOUS
  <2> PICK B : B = Usable(c)  OBVIOUS
  <2>1. A \subseteq B  BY <1>4
  <2>2. Seq(A) \subseteq Seq(B)  BY <2>1
  <2> QED  BY <2>2
<1> QED  BY <1>2, <1>3, <1>5

LEMMA BalanceNat ==
  ASSUME ask \in Situations, NEW c \in Chains, NEW a \in DOMAIN Token[c]
  PROVE  BalanceOf(c, a) \in Nat /\ BalanceOf(c, a) = ask.bal[c][a] /\ Token[c][a].dec \in Nat
<1>1. ask.bal[c][a] \in Nat  BY QuoteAssumption
<1>2. Token[c][a].dec \in 0..255  BY QuoteAssumption
<1>3. Token[c][a].dec \in Nat  BY <1>2
<1> QED  BY <1>1, <1>3 DEF BalanceOf

\* The decimals that are looked up are the ones of the asset.
LEMMA DstDecIs ==
  ASSUME SameDecimals, NEW c \in Sources, NEW a \in Assets, a \in DOMAIN Token[c], DstDecimals(c, a) # {}
  PROVE  DstDec(c, a) = Token[Dst][a].dec
<1>1. DstDec(c, a) \in DstDecimals(c, a)  BY DEF DstDec
<1>2. \A d \in DstDecimals(c, a) : d = Token[Dst][a].dec  BY DEF DstDecimals, SameDecimals
<1> QED  BY <1>1, <1>2

\* What a source offers can be taken back from it, with its fee.
LEMMA OfferedBounds ==
  ASSUME SameDecimals, ask \in Situations, NEW c \in Sources, NEW funds \in Seq(Fundings), NEW cost \in Nat,
         NEW a \in Assets
  PROVE  /\ Offered(c, a, funds, cost) \in Nat
         /\ \A m \in Nat : m > 0 /\ m <= Offered(c, a, funds, cost) =>
              LET amount == AdjustBalanceForDecimals(m, DstDec(c, a), Token[c][a].dec)
              IN  /\ a \in DOMAIN Token[c] /\ DstDec(c, a) = Token[Dst][a].dec
                  /\ amount \in Nat
                  /\ amount + (IF a = SourceFeeToken(c, funds) THEN (IF PayerPays THEN 0 ELSE cost) ELSE 0)
                       <= ask.bal[c][a]
                  /\ m - Up(amount, c, a) < Unit(c, a)
<1>1. CASE a \notin ToSet(Balances(c, funds)) \/ DstDecimals(c, a) = {}
  BY <1>1 DEF Offered
<1>2. CASE ~(a \notin ToSet(Balances(c, funds)) \/ DstDecimals(c, a) = {})
  <2>1. a \in Usable(c)
    <3>1. Balances(c, funds) \in Seq(Usable(c))  BY BalancesUsable
    <3> PICK b \in Seq(Usable(c)) : b = Balances(c, funds)  BY <3>1
    <3>2. a \in ToSet(b)  BY <1>2
    <3> QED  BY <3>2 DEF ToSet
  <2>2. a \in DOMAIN Token[c] /\ DstDecimals(c, a) # {} /\ c \in Chains /\ Dst \in Chains
    BY <1>2, <2>1 DEF Usable, Chains
  <2>3. a \in DOMAIN Token[Dst]  BY DEF Assets
  <2> PICK bal \in Nat : bal = BalanceOf(c, a) /\ bal = ask.bal[c][a]  BY <2>2, BalanceNat
  <2> PICK dec \in Nat : dec = Token[c][a].dec  BY <2>2, BalanceNat
  <2> PICK dst \in Nat : dst = Token[Dst][a].dec  BY <2>2, <2>3, BalanceNat
  <2>4. DstDec(c, a) = dst  BY <2>2, DstDecIs
  <2> PICK keeps \in BOOLEAN : keeps = (~PayerPays /\ SourceFeeToken(c, funds) = a)  OBVIOUS
  <2>5. PICK n \in Nat : n = IF keeps THEN Less(bal, cost) ELSE bal  BY DEF Less
  <2>6. Offered(c, a, funds, cost) = AdjustBalanceForDecimals(n, dec, dst)
    BY <1>2, <2>4, <2>5 DEF Offered, MaxTake
  <2>7. Offered(c, a, funds, cost) \in Nat  BY <2>6, AdjustType
  <2>8. ASSUME NEW m \in Nat, m > 0, m <= Offered(c, a, funds, cost)
        PROVE  LET amount == AdjustBalanceForDecimals(m, DstDec(c, a), Token[c][a].dec)
               IN  /\ a \in DOMAIN Token[c] /\ DstDec(c, a) = Token[Dst][a].dec
                   /\ amount \in Nat
                   /\ amount + (IF a = SourceFeeToken(c, funds) THEN (IF PayerPays THEN 0 ELSE cost) ELSE 0)
                        <= ask.bal[c][a]
                   /\ m - Up(amount, c, a) < Unit(c, a)
    <3> PICK amount \in Nat : amount = AdjustBalanceForDecimals(m, dst, dec)  BY AdjustType
    <3>1. amount <= n  BY <2>6, <2>8, AdjustBack
    <3>2. n > 0
      <4>1. CASE n = 0
        <5>1. AdjustBalanceForDecimals(0, dec, dst) = 0
          <6>1. CASE dec > dst
            <7>1. dec - dst \in Nat  BY <6>1
            <7> PICK t \in Nat : t = Power(dec - dst) /\ t > 0  BY <7>1, PowerPositive
            <7>2. 0 \div t = 0  OBVIOUS
            <7> QED  BY <6>1, <7>2 DEF AdjustBalanceForDecimals
          <6>2. CASE ~(dec > dst)
            <7>1. dst - dec \in Nat  BY <6>2
            <7> PICK t \in Nat : t = Power(dst - dec) /\ t > 0  BY <7>1, PowerPositive
            <7>2. 0 * t = 0  OBVIOUS
            <7> QED  BY <6>2, <7>2 DEF AdjustBalanceForDecimals
          <6> QED  BY <6>1, <6>2
        <5> QED  BY <2>6, <2>8, <4>1, <5>1
      <4> QED  BY <4>1
    <3>3. amount + (IF a = SourceFeeToken(c, funds) THEN (IF PayerPays THEN 0 ELSE cost) ELSE 0) <= bal
      <4>1. CASE keeps
        <5>1. n = Less(bal, cost) /\ ~PayerPays /\ SourceFeeToken(c, funds) = a  BY <2>5, <4>1
        <5>2. n = bal - cost  BY <3>2, <5>1 DEF Less
        <5> QED  BY <3>1, <5>1, <5>2
      <4>2. CASE ~keeps
        <5>1. n = bal /\ (a = SourceFeeToken(c, funds) => PayerPays)  BY <2>5, <4>2
        <5>2. amount <= bal  BY <3>1, <5>1
        <5> QED  BY <5>1, <5>2
      <4> QED  BY <4>1, <4>2
    <3>4. m - AdjustBalanceForDecimals(amount, dec, dst) < IF dst > dec THEN Power(dst - dec) ELSE 1
      BY AdjustLoss
    <3>5. m - Up(amount, c, a) < Unit(c, a)  BY <3>4 DEF Up, Unit
    <3> QED  BY <2>2, <2>4, <3>3, <3>5
  <2> QED  BY <2>7, <2>8
<1> QED  BY <1>1, <1>2

LEMMA FeeTokenUsable ==
  ASSUME ask \in Situations, NEW funds \in Seq(Fundings), NEW c \in UsableSources(funds)
  PROVE  /\ SourceFeeToken(c, funds) \in Assets /\ SourceFeeToken(c, funds) \in DOMAIN Token[c]
         /\ PayerPays => SourceFeeToken(c, funds) = FeeToken
<1>1. c \in Sources /\ Balances(c, funds) # <<>> /\ (PayerPays => MapInteropAsset(Dst, c, FeeToken))
  BY DEF UsableSources
<1>2. CASE PayerPays
  <2>1. FeeToken \in Assets /\ FeeToken \in DOMAIN Token[c]
    BY <1>1, <1>2, QuoteAssumption DEF MapInteropAsset
  <2> QED  BY <1>2, <2>1 DEF SourceFeeToken
<1>3. CASE ~PayerPays
  <2>1. PICK b \in Seq(Usable(c)) : b = Balances(c, funds)  BY <1>1, BalancesUsable
  <2>2. b # <<>>  BY <1>1, <2>1
  <2>3. b[1] \in Usable(c)  BY <2>2
  <2>4. SourceFeeToken(c, funds) = b[1]  BY <1>3, <2>1 DEF SourceFeeToken
  <2> QED  BY <1>3, <2>3, <2>4 DEF Usable
<1> QED  BY <1>2, <1>3

\* A source gives no more than it offers, so it can keep what is planned.
LEMMA TakingKept ==
  ASSUME SameDecimals, ask \in Situations, NEW funds \in Seq(Fundings), NEW c \in UsableSources(funds),
         NEW cost \in Nat, NEW take \in [Assets -> Nat],
         \A a \in Assets : take[a] <= Offered(c, a, funds, cost)
  PROVE  Taking(take, c, funds, cost) \in Takings
<1> PICK ft : ft = SourceFeeToken(c, funds)  OBVIOUS
<1> DEFINE Back(a) == AdjustBalanceForDecimals(take[a], DstDec(c, a), Token[c][a].dec)
           amount == [a \in Assets |-> IF take[a] > 0 THEN Back(a) ELSE 0]
<1>1. c \in Sources  BY DEF UsableSources
<1>2. \A a \in Assets : take[a] > 0 =>
        /\ a \in DOMAIN Token[c] /\ Back(a) \in Nat
        /\ Back(a) + (IF a = ft THEN (IF PayerPays THEN 0 ELSE cost) ELSE 0) <= ask.bal[c][a]
        /\ take[a] - Up(Back(a), c, a) < Unit(c, a)
  <2> TAKE a \in Assets
  <2>1. take[a] \in Nat /\ take[a] <= Offered(c, a, funds, cost)  OBVIOUS
  <2> QED  BY <1>1, <2>1, OfferedBounds
<1> PICK s : s = Taking(take, c, funds, cost)  OBVIOUS
<1>3. s = [chain |-> c, take |-> take, feeToken |-> ft, cost |-> cost, amount |-> amount]
  BY DEF Taking
<1>4. amount \in [Assets -> Nat]  BY <1>2
<1>5. \A a \in Assets : take[a] > 0 => amount[a] = Back(a)  OBVIOUS
<1> HIDE DEF Back
<1>6. \A a \in Assets : take[a] > 0 =>
        /\ amount[a] + (IF a = ft THEN (IF PayerPays THEN 0 ELSE cost) ELSE 0) <= ask.bal[c][a]
        /\ take[a] - Up(amount[a], c, a) < Unit(c, a)
  BY <1>2, <1>5
<1> HIDE DEF amount
<1>7. s.chain = c /\ s.take = take /\ s.feeToken = ft /\ s.cost = cost /\ s.amount = amount  BY <1>3
<1>8. SourceCovers(s, IF PayerPays THEN 0 ELSE s.cost)  BY <1>6, <1>7 DEF SourceCovers
<1>9. ft \in Assets /\ ft \in DOMAIN Token[c] /\ (PayerPays => ft = FeeToken)  BY FeeTokenUsable
<1>10. s \in [chain : Sources, take : [Assets -> Nat], feeToken : Assets, cost : Nat, amount : [Assets -> Nat]]
  BY <1>1, <1>3, <1>4, <1>9
<1> QED  BY <1>2, <1>7, <1>8, <1>9, <1>10 DEF Takings

Progressing == [left : [Assets -> Nat], plan : Seq(Takings)]

\* A source that gives funds gives what it can: the plan stays one of Takings.
LEMMA TakeFromKeeps ==
  ASSUME SameDecimals, ask \in Situations, NEW funds \in Seq(Fundings), NEW c \in UsableSources(funds),
         NEW cost \in Nat, NEW acc \in Progressing
  PROVE  TakeFrom(acc, c, funds, cost) \in Progressing
<1>1. c \in Sources  BY DEF UsableSources
<1> PICK left \in [Assets -> Nat] : left = acc.left  BY DEF Progressing
<1> PICK planned \in Seq(Takings) : planned = acc.plan  BY DEF Progressing
<1> PICK offered \in [Assets -> Nat] : \A a \in Assets : offered[a] = Offered(c, a, funds, cost)
  <2>1. \A a \in Assets : Offered(c, a, funds, cost) \in Nat  BY <1>1, OfferedBounds
  <2>2. [a \in Assets |-> Offered(c, a, funds, cost)] \in [Assets -> Nat]  BY <2>1
  <2> QED  BY <2>2
<1> DEFINE take == [a \in Assets |-> Min({acc.left[a], Offered(c, a, funds, cost)})]
<1>2. \A x, y \in Nat : Min({x, y}) \in Nat /\ Min({x, y}) <= x /\ Min({x, y}) <= y
  <2> TAKE x, y \in Nat
  <2>1. \E z \in {x, y} : \A w \in {x, y} : z <= w
    <3>1. x <= y \/ y <= x  OBVIOUS
    <3> QED  BY <3>1
  <2> PICK z : z = Min({x, y})  OBVIOUS
  <2>2. z \in {x, y} /\ \A w \in {x, y} : z <= w  BY <2>1 DEF Min
  <2> QED  BY <2>2
<1>3. \A a \in Assets : take[a] \in Nat /\ take[a] <= left[a] /\ take[a] <= offered[a]
  <2> TAKE a \in Assets
  <2>1. take[a] = Min({left[a], offered[a]})  OBVIOUS
  <2>2. left[a] \in Nat /\ offered[a] \in Nat  OBVIOUS
  <2> HIDE DEF take
  <2> QED  BY <1>2, <2>1, <2>2
<1>4. take \in [Assets -> Nat]  BY <1>3
<1>5. TakeFrom(acc, c, funds, cost) = acc
      \/ TakeFrom(acc, c, funds, cost)
           = [left |-> [a \in Assets |-> left[a] - take[a]], plan |-> Append(planned, Taking(take, c, funds, cost))]
  BY DEF TakeFrom
<1> HIDE DEF take
<1>6. Taking(take, c, funds, cost) \in Takings  BY <1>3, <1>4, TakingKept
<1>7. Append(planned, Taking(take, c, funds, cost)) \in Seq(Takings)
  <2> PICK e : e = Taking(take, c, funds, cost)  OBVIOUS
  <2>1. e \in Takings  BY <1>6
  <2> QED  BY <2>1, AppendKeeps
<1>8. [a \in Assets |-> left[a] - take[a]] \in [Assets -> Nat]  BY <1>3
<1>9. PICK l \in [Assets -> Nat] : l = [a \in Assets |-> left[a] - take[a]]  BY <1>8
<1>10. PICK q \in Seq(Takings) : q = Append(planned, Taking(take, c, funds, cost))  BY <1>7
<1>11. [left |-> l, plan |-> q] \in Progressing  BY DEF Progressing
<1> QED  BY <1>5, <1>9, <1>10, <1>11

\* So does the loop over all sources, by its recursion.
LEMMA SourcedKeeps ==
  ASSUME SameDecimals, ask \in Situations, NEW funds \in Seq(Fundings), NEW left \in [Assets -> Nat],
         NEW cost \in [Sources -> Costs], NEW n \in Nat, NEW ord \in [1..n -> UsableSources(funds)]
  PROVE  Sourced(left, ord, funds, cost) \in Progressing
<1> DEFINE start == [left |-> left, plan |-> <<>>]
           StepTo(i, acc) == TakeFrom(acc, ord[i], funds, cost[ord[i]])
           Steps == [i \in 1..n |-> [acc \in Progressing |-> StepTo(i, acc)]]
<1>1. Len(ord) = n  OBVIOUS
<1>2. ASSUME NEW i \in 1..n, NEW acc \in Progressing PROVE StepTo(i, acc) \in Progressing
  <2>1. ord[i] \in UsableSources(funds)  OBVIOUS
  <2>2. ord[i] \in Sources  BY <2>1 DEF UsableSources
  <2>3. cost[ord[i]] \in Nat  BY <2>2, QuoteAssumption
  <2> QED  BY <2>1, <2>3, TakeFromKeeps
<1>3. start \in Progressing  BY DEF Progressing
<1> HIDE DEF start, StepTo
<1>4. \A i \in 1..n : \A acc \in Progressing : Steps[i][acc] = StepTo(i, acc)  OBVIOUS
<1> HIDE DEF Steps
<1>5. Iterable(Progressing, n, start, Steps)  BY <1>2, <1>3, <1>4, IteratesWithin
<1>6. PICK f \in [0..n -> Progressing] : f[0] = start /\ \A i \in 1..n : f[i] = Steps[i][f[i - 1]]
  BY <1>5 DEF Iterable
<1>7. f = [i \in 0..n |-> IF i = 0 THEN start ELSE StepTo(i, f[i - 1])]
  <2>1. \A i \in 0..n : f[i] = IF i = 0 THEN start ELSE StepTo(i, f[i - 1])
    <3> TAKE i \in 0..n
    <3>1. i # 0 => i \in 1..n /\ i - 1 \in 0..n  OBVIOUS
    <3>2. i # 0 => f[i - 1] \in Progressing /\ f[i] = Steps[i][f[i - 1]]  BY <1>6, <3>1
    <3> QED  BY <1>4, <1>6, <3>1, <3>2
  <2> QED  BY <2>1
<1>8. PICK g : g = CHOOSE h : h = [i \in 0..n |-> IF i = 0 THEN start ELSE StepTo(i, h[i - 1])]  OBVIOUS
<1>9. g = [i \in 0..n |-> IF i = 0 THEN start ELSE StepTo(i, g[i - 1])]  BY <1>7, <1>8
<1>10. \A i \in 0..n : g[i] \in Progressing
  <2>1. g[0] = start  BY <1>9
  <2>2. ASSUME NEW i \in 1..n, g[i - 1] \in Progressing PROVE g[i] \in Progressing
    <3>1. i \in 0..n /\ i # 0  OBVIOUS
    <3>2. g[i] = StepTo(i, g[i - 1])  BY <1>9, <3>1
    <3> QED  BY <1>2, <2>2, <3>2
  <2> QED  BY <1>3, <2>1, <2>2, IteratesStay
<1>11. Sourced(left, ord, funds, cost) = g[n]  BY <1>1, <1>8 DEF Sourced, StepTo, start
<1> QED  BY <1>10, <1>11

LEMMA RequiredType ==
  ASSUME NEW funds \in Seq(Fundings), NEW a
  PROVE  RequiredOf(funds, a) \in Int
<1> DEFINE s == [i \in DOMAIN funds |-> IF funds[i].asset = a THEN funds[i].required ELSE 0]
<1> PICK n \in Nat : DOMAIN funds = 1..n  OBVIOUS
<1>1. \A i \in 1..n : funds[i] \in Fundings  OBVIOUS
<1>2. s \in [1..n -> Int]  BY <1>1 DEF Fundings
<1>3. 0 \in Int /\ \A x, y \in Int : x + y \in Int  OBVIOUS
<1> HIDE DEF s
<1>4. s \in Seq(Int)  BY <1>2
<1>5. Added(s) \in Int  BY <1>3, <1>4, AddedStays
<1> QED  BY <1>5 DEF RequiredOf, s

LEMMA FundedType ==
  ASSUME NEW sources \in Seq(Takings), NEW a \in Assets
  PROVE  FundedBy(sources)[a] \in Nat
<1> DEFINE s == [i \in DOMAIN sources |-> sources[i].take[a]]
<1> PICK n \in Nat : DOMAIN sources = 1..n  OBVIOUS
<1>1. \A i \in 1..n : sources[i] \in Takings  OBVIOUS
<1>2. \A i \in 1..n : sources[i].take \in [Assets -> Nat]  BY <1>1 DEF Takings
<1>3. s \in [1..n -> Nat]  BY <1>2
<1>4. 0 \in Nat /\ \A x, y \in Nat : x + y \in Nat  OBVIOUS
<1> HIDE DEF s
<1>5. s \in Seq(Nat)  BY <1>3
<1>6. Added(s) \in Nat  BY <1>4, <1>5, AddedStays
<1> QED  BY <1>6 DEF FundedBy, s

Deficits == [asset : Assets, required : Int, deficit : Int]

LEMMA OrderType ==
  ASSUME NEW ord \in UNION {SetToSeqs(S) : S \in SUBSET Assets}
  PROVE  ord \in Seq(Assets)
<1>1. PICK S \in SUBSET Assets : ord \in SetToSeqs(S)  OBVIOUS
<1>2. IsFiniteSet(S)  BY FS_Subset, QuoteAssumption
<1> PICK n \in Nat : n = Cardinality(S)  BY <1>2, FS_CardinalityType
<1>3. ord \in [1..n -> S]  BY <1>1 DEF SetToSeqs
<1>4. ord \in [1..n -> Assets]  BY <1>3
<1> QED  BY <1>4

LEMMA DstFacts ==
  ASSUME ask \in Situations, NEW a \in Assets
  PROVE  ask.want[a] \in Nat /\ BalanceOf(Dst, a) \in Nat /\ ask.funder[a] \in Nat
<1>1. Dst \in Chains /\ a \in DOMAIN Token[Dst]  BY DEF Chains, Assets
<1> QED  BY <1>1, BalanceNat, QuoteAssumption

LEMMA AskFacts ==
  ASSUME ask \in Situations
  PROVE  /\ FeeToken \in Assets /\ ~(PayerPays /\ ask.sponsored)
         /\ ask.payer[Dst] \in Nat
  BY QuoteAssumption DEF PayerPays

LEMMA FeeDeficitType ==
  ASSUME ask \in Situations, NEW fee \in Nat, NEW funding \in [Assets -> Nat], NEW payer \in BOOLEAN
  PROVE  FeeTokenDeficit(fee, funding, payer) \in Nat
<1>1. /\ FeeToken \in Assets /\ ask.payer[Dst] \in Nat /\ funding[FeeToken] \in Nat
      /\ BalanceOf(Dst, FeeToken) \in Nat /\ ask.want[FeeToken] \in Nat
  BY AskFacts, DstFacts
<1> QED  BY <1>1 DEF FeeTokenDeficit, Less

LEMMA DeficitsType ==
  ASSUME ask \in Situations, NEW ord \in Seq(Assets), NEW fee \in Nat, NEW fd \in Nat
  PROVE  /\ AssetDeficits(ord, fee, fd) \in Seq(Deficits)
         /\ AssetDeficits(ord, fee, fd) = <<>> => ord = <<>> /\ fd = 0
         /\ \A i \in DOMAIN ord :
              /\ i \in DOMAIN AssetDeficits(ord, fee, fd)
              /\ AssetDeficits(ord, fee, fd)[i].asset = ord[i]
              /\ AssetDeficits(ord, fee, fd)[i].deficit
                   = ask.want[ord[i]] - BalanceOf(Dst, ord[i]) + IF ord[i] = FeeToken /\ fd # 0 THEN fee ELSE 0
<1> DEFINE of == [i \in DOMAIN ord |->
                    Deficit(ord[i], ask.want[ord[i]], ask.want[ord[i]] - BalanceOf(Dst, ord[i]))]
           charged == [i \in DOMAIN of |->
                         IF of[i].asset = FeeToken
                         THEN Deficit(FeeToken, of[i].required + fee, of[i].deficit + fee) ELSE of[i]]
           last == Deficit(FeeToken, fee + ask.want[FeeToken], fd)
<1> PICK n \in Nat : DOMAIN ord = 1..n /\ Len(ord) = n  OBVIOUS
<1>1. \A i \in 1..n : /\ ord[i] \in Assets /\ ask.want[ord[i]] \in Nat /\ BalanceOf(Dst, ord[i]) \in Nat
  BY DstFacts
<1>2. \A i \in 1..n : of[i] = Deficit(ord[i], ask.want[ord[i]], ask.want[ord[i]] - BalanceOf(Dst, ord[i]))
  OBVIOUS
<1>3. DOMAIN of = 1..n /\ DOMAIN charged = 1..n  OBVIOUS
<1>4. \A i \in 1..n : charged[i] = IF of[i].asset = FeeToken
        THEN Deficit(FeeToken, of[i].required + fee, of[i].deficit + fee) ELSE of[i]
  BY <1>3
<1>5. AssetDeficits(ord, fee, fd)
        = IF fd = 0 THEN of ELSE IF \E i \in DOMAIN ord : ord[i] = FeeToken THEN charged ELSE Append(of, last)
  BY DEF AssetDeficits
<1>6. \A T : /\ (\A i \in 1..n : of[i] \in T) => of \in [1..n -> T]
             /\ (\A i \in 1..n : charged[i] \in T) => charged \in [1..n -> T]
  <2> TAKE T
  <2>1. (\A i \in 1..n : of[i] \in T) => of \in [1..n -> T]  OBVIOUS
  <2>2. (\A i \in 1..n : charged[i] \in T) => charged \in [1..n -> T]
    <3> HIDE DEF of
    <3> QED  BY <1>3
  <2> QED  BY <2>1, <2>2
<1>7. FeeToken \in Assets /\ ask.want[FeeToken] \in Nat  BY AskFacts, DstFacts
<1>8. last \in Deficits  BY <1>7 DEF Deficits, Deficit
<1> HIDE DEF of, charged, last
<1>9. ASSUME NEW i \in 1..n
      PROVE  /\ of[i] \in Deficits /\ of[i].asset = ord[i]
             /\ of[i].deficit = ask.want[ord[i]] - BalanceOf(Dst, ord[i])
             /\ charged[i] \in Deficits /\ charged[i].asset = ord[i]
             /\ charged[i].deficit = ask.want[ord[i]] - BalanceOf(Dst, ord[i]) + IF ord[i] = FeeToken THEN fee ELSE 0
  <2> PICK w \in Nat : w = ask.want[ord[i]]  BY <1>1
  <2> PICK b \in Nat : b = BalanceOf(Dst, ord[i])  BY <1>1
  <2> PICK a \in Assets : a = ord[i]  BY <1>1
  <2> PICK o : o = of[i]  OBVIOUS
  <2>1. o = [asset |-> a, required |-> w, deficit |-> w - b]  BY <1>2 DEF Deficit
  <2>2. o \in Deficits  BY <2>1 DEF Deficits
  <2>3. charged[i] = IF a = FeeToken THEN Deficit(FeeToken, o.required + fee, o.deficit + fee) ELSE o
    <3>1. charged[i] = IF o.asset = FeeToken THEN Deficit(FeeToken, o.required + fee, o.deficit + fee) ELSE o
      BY <1>4, Zenon
    <3>2. o.asset = a  BY <2>1
    <3> QED  BY <3>1, <3>2, Zenon
  <2>4. a = FeeToken => charged[i] = [asset |-> a, required |-> w + fee, deficit |-> w - b + fee]
    <3>1. o.required = w /\ o.deficit = w - b  BY <2>1
    <3> QED  BY <2>3, <3>1 DEF Deficit
  <2>5. [asset |-> a, required |-> w + fee, deficit |-> w - b + fee] \in Deficits  BY DEF Deficits
  <2>6. CASE a = FeeToken  BY <2>1, <2>2, <2>3, <2>4, <2>5, <2>6
  <2>7. CASE a # FeeToken  BY <2>1, <2>2, <2>3, <2>7
  <2> QED  BY <2>6, <2>7
<1>10. of \in Seq(Deficits) /\ charged \in Seq(Deficits) /\ Len(of) = n
  <2>1. of \in [1..n -> Deficits] /\ charged \in [1..n -> Deficits]  BY <1>6, <1>9
  <2> QED  BY <2>1
<1>11. /\ Append(of, last) \in Seq(Deficits) /\ Append(of, last) # <<>>
       /\ DOMAIN Append(of, last) = 1..(n + 1)
       /\ \A i \in 1..n : Append(of, last)[i] = of[i]
  BY <1>8, <1>10, AppendProperties
<1>12. CASE fd = 0
  <2>1. AssetDeficits(ord, fee, fd) = of  BY <1>5, <1>12
  <2>2. of = <<>> => ord = <<>>  BY <1>10
  <2>3. ASSUME NEW i \in 1..n
        PROVE  /\ i \in DOMAIN of /\ of[i].asset = ord[i]
               /\ of[i].deficit = ask.want[ord[i]] - BalanceOf(Dst, ord[i]) + IF ord[i] = FeeToken /\ fd # 0 THEN fee ELSE 0
    <3>1. of[i].deficit = ask.want[ord[i]] - BalanceOf(Dst, ord[i])  BY <1>9
    <3> QED  BY <1>1, <1>3, <1>9, <1>12, <3>1
  <2> QED  BY <1>10, <1>12, <2>1, <2>2, <2>3
<1>13. CASE fd # 0 /\ \E i \in DOMAIN ord : ord[i] = FeeToken
  <2>1. AssetDeficits(ord, fee, fd) = charged  BY <1>5, <1>13
  <2>2. charged # <<>>
    <3>1. n # 0  BY <1>13
    <3>2. 1 \in DOMAIN charged  BY <1>3, <3>1
    <3> QED  BY <3>2
  <2> QED  BY <1>3, <1>9, <1>10, <1>13, <2>1, <2>2
<1>14. CASE fd # 0 /\ ~\E i \in DOMAIN ord : ord[i] = FeeToken
  <2>1. AssetDeficits(ord, fee, fd) = Append(of, last)  BY <1>5, <1>14
  <2>2. \A i \in 1..n : i \in 1..(n + 1) /\ ord[i] # FeeToken  BY <1>14
  <2>3. ASSUME NEW i \in 1..n
        PROVE  /\ i \in DOMAIN Append(of, last) /\ Append(of, last)[i].asset = ord[i]
               /\ Append(of, last)[i].deficit
                    = ask.want[ord[i]] - BalanceOf(Dst, ord[i]) + IF ord[i] = FeeToken /\ fd # 0 THEN fee ELSE 0
    <3>1. Append(of, last)[i] = of[i] /\ i \in DOMAIN Append(of, last)  BY <1>11, <2>2
    <3>2. of[i].asset = ord[i] /\ of[i].deficit = ask.want[ord[i]] - BalanceOf(Dst, ord[i])  BY <1>9
    <3> QED  BY <1>1, <2>2, <3>1, <3>2
  <2> QED  BY <1>11, <1>14, <2>1, <2>3
<1> QED  BY <1>12, <1>13, <1>14

\* The deficits of an order of assets: none is left out.
DeficitsRight(ord, fee, fd, ds) ==
  /\ ds \in Seq(Deficits)
  /\ ds = <<>> => ord = <<>> /\ fd = 0
  /\ \A i \in DOMAIN ord :
       /\ i \in DOMAIN ds /\ ds[i].asset = ord[i]
       /\ ds[i].deficit = ask.want[ord[i]] - BalanceOf(Dst, ord[i]) + IF ord[i] = FeeToken /\ fd # 0 THEN fee ELSE 0

\* What the deficits of estimate_fee tell, as one predicate.
LEMMA DeficitsTell ==
  ASSUME ask \in Situations, NEW ord \in Seq(Assets), NEW fee \in Nat, NEW fd \in Nat
  PROVE  DeficitsRight(ord, fee, fd, AssetDeficits(ord, fee, fd))
  BY DeficitsType DEF DeficitsRight

LEMMA RemovedType ==
  ASSUME ask \in Situations, NEW ds \in Seq(Deficits), NEW amount \in Nat
  PROVE  /\ RemoveFeeAmount(ds, amount) \in Seq(Deficits)
         /\ RemoveFeeAmount(ds, amount) = <<>> =>
              \A i \in DOMAIN ds : ds[i].asset = FeeToken /\ ds[i].deficit <= amount
<1> DEFINE S == {d \in ToSet(ds) : d.asset # FeeToken \/ d.deficit > amount}
<1>1. PICK kept : kept = Only(ds, S)  OBVIOUS
<1>2. kept \in Seq(Deficits \cap S) /\ (kept = <<>> => \A i \in DOMAIN ds : ds[i] \notin S)
  <2> HIDE DEF S
  <2> QED  BY <1>1, OnlyKeeps
<1>3. PICK n \in Nat : DOMAIN kept = 1..n /\ Len(kept) = n  BY <1>2
<1>4. \A i \in 1..n : kept[i] \in Deficits
  <2>1. \A i \in 1..n : kept[i] \in Deficits \cap S
    <3> HIDE DEF S
    <3> QED  BY <1>2, <1>3
  <2> QED  BY <2>1
<1> DEFINE res == [i \in DOMAIN kept |->
                     IF kept[i].asset # FeeToken THEN kept[i]
                     ELSE Deficit(FeeToken, kept[i].required - amount, kept[i].deficit - amount)]
<1>5. RemoveFeeAmount(ds, amount) = res  BY <1>1 DEF RemoveFeeAmount
<1>6. FeeToken \in Assets  BY AskFacts
<1>7. \A i \in 1..n : res[i] \in Deficits
  <2> TAKE i \in 1..n
  <2>1. kept[i] \in Deficits /\ i \in DOMAIN kept  BY <1>3, <1>4
  <2>2. kept[i].required - amount \in Int /\ kept[i].deficit - amount \in Int  BY <2>1 DEF Deficits
  <2>3. Deficit(FeeToken, kept[i].required - amount, kept[i].deficit - amount) \in Deficits
    BY <1>6, <2>2 DEF Deficits, Deficit
  <2> QED  BY <2>1, <2>3
<1>8. res \in [1..n -> Deficits]  BY <1>3, <1>7
<1>9. res \in Seq(Deficits)
  <2> HIDE DEF res
  <2> QED  BY <1>8
<1>10. res = <<>> => kept = <<>>
  <2>1. DOMAIN res = 1..n  BY <1>3
  <2>2. SUFFICES ASSUME res = <<>> PROVE kept = <<>>  OBVIOUS
  <2>3. n = 0
    <3> HIDE DEF res
    <3>1. DOMAIN res = {}  BY <2>2
    <3>2. 1..n = {}  BY <2>1, <3>1
    <3> QED  BY <3>2
  <2> HIDE DEF S
  <2> QED  BY <1>2, <1>3, <2>3
<1>11. ASSUME kept = <<>>, NEW i \in DOMAIN ds PROVE ds[i].asset = FeeToken /\ ds[i].deficit <= amount
  <2>1. ds[i] \notin S  BY <1>2, <1>11
  <2>2. ds[i] \in ToSet(ds)  BY DEF ToSet
  <2>3. ds[i] \in Deficits  OBVIOUS
  <2>4. ~(ds[i].asset # FeeToken \/ ds[i].deficit > amount)  BY <2>1, <2>2
  <2>5. ds[i].deficit \in Int  BY <2>3 DEF Deficits
  <2> HIDE DEF S
  <2> QED  BY <2>4, <2>5
<1> QED  BY <1>5, <1>9, <1>10, <1>11

LEMMA WithoutFeeType ==
  ASSUME ask \in Situations, NEW q, q.deficits \in Seq(Deficits), q.fee \in Nat, q.deficit \in Nat
  PROVE  WithoutFee(q) \in Seq(Deficits)
<1>1. PICK ds \in Seq(Deficits) : ds = q.deficits  OBVIOUS
<1>2. PICK n \in Nat : DOMAIN ds = 1..n  OBVIOUS
<1> DEFINE less == [i \in DOMAIN q.deficits |->
                      LET d == q.deficits[i]
                      IN  IF PayerPays \/ d.asset # FeeToken THEN d
                          ELSE Deficit(FeeToken, Less(d.required, q.fee), Less(d.deficit, q.deficit))]
           S == {d \in ToSet(less) : d.deficit > 0 \/ d.asset # FeeToken \/ PayerPays \/ Len(q.deficits) = 1}
<1>3. FeeToken \in Assets  BY AskFacts
<1>4. \A i \in 1..n : less[i] \in Deficits
  <2> TAKE i \in 1..n
  <2>1. PICK d \in Deficits : d = q.deficits[i]  BY <1>1, <1>2
  <2>2. d.required \in Int /\ d.deficit \in Int  BY DEF Deficits
  <2>3. Less(d.required, q.fee) \in Int /\ Less(d.deficit, q.deficit) \in Int  BY <2>2 DEF Less
  <2>4. Deficit(FeeToken, Less(d.required, q.fee), Less(d.deficit, q.deficit)) \in Deficits
    BY <1>3, <2>3 DEF Deficits, Deficit
  <2>5. less[i] = IF PayerPays \/ d.asset # FeeToken THEN d
                  ELSE Deficit(FeeToken, Less(d.required, q.fee), Less(d.deficit, q.deficit))
    BY <1>1, <1>2, <2>1
  <2> HIDE DEF less
  <2> QED  BY <2>4, <2>5
<1>5. less \in [1..n -> Deficits]  BY <1>1, <1>2, <1>4
<1>6. WithoutFee(q) = Only(less, S)  BY DEF WithoutFee
<1> HIDE DEF less, S
<1>7. less \in Seq(Deficits)  BY <1>5
<1>8. Only(less, S) \in Seq(Deficits \cap S)  BY <1>7, OnlyKeeps
<1>9. Seq(Deficits \cap S) \subseteq Seq(Deficits)
  <2> PICK A : A = Deficits \cap S  OBVIOUS
  <2> PICK B : B = Deficits  OBVIOUS
  <2>1. A \subseteq B  OBVIOUS
  <2>2. Seq(A) \subseteq Seq(B)  BY <2>1
  <2> QED  BY <2>2
<1> QED  BY <1>6, <1>8, <1>9

QuoteTyped(q) == q.fee \in Nat /\ q.deficit \in Nat /\ q.deficits \in Seq(Deficits)

LEMMA NothingType == Nothing \in [Assets -> Nat] /\ \A a \in Assets : Nothing[a] = 0
  BY DEF Nothing

\* A quote without deficits is for calls that the account can do.
LEMMA NoneMissing ==
  ASSUME ask \in Situations, Missing(Nothing) = {}
  PROVE  \A a \in Assets : BalanceOf(Dst, a) >= ask.want[a]
<1> TAKE a \in Assets
<1>1. ask.want[a] \in Nat /\ BalanceOf(Dst, a) \in Nat /\ Nothing[a] = 0  BY DstFacts, NothingType
<1>2. ~(ask.want[a] > BalanceOf(Dst, a) + Nothing[a])  BY DEF Missing
<1> QED  BY <1>1, <1>2

LEMMA PayerIsBool ==
  ASSUME ask \in Situations
  PROVE  PayerPays \in BOOLEAN /\ ask.sponsored \in BOOLEAN
  BY QuoteAssumption DEF PayerPays

\* A quote of estimate_fee without deficits is covered on its chain.
LEMMA EstimateCovers ==
  ASSUME ask \in Situations, NEW fee \in Fees, NEW ord \in Seq(Assets), ToSet(ord) = Missing(Nothing),
         NEW q, q = EstimateFee(fee, Nothing, PayerPays, ord)
  PROVE  /\ QuoteTyped(q) /\ q.fee = fee
         /\ q.deficits = <<>> => \A a \in Assets : BalanceOf(Dst, a) >= ask.want[a]
         /\ q.deficits = <<>> /\ q.deficit = 0 => SingleCovers(q, {})
<1>1. fee \in Nat /\ fee > 0  BY QuoteAssumption
<1> PICK payer \in BOOLEAN : payer = PayerPays  BY PayerIsBool
<1> PICK d \in Nat : d = FeeTokenDeficit(fee, Nothing, payer)  BY <1>1, NothingType, FeeDeficitType
<1> PICK fd \in Nat : fd = IF payer THEN 0 ELSE d  OBVIOUS
<1>2. q.fee = fee /\ q.deficit = d /\ q.deficits = AssetDeficits(ord, fee, fd)  BY DEF EstimateFee
<1>0. DeficitsRight(ord, fee, fd, q.deficits)  BY <1>1, <1>2, DeficitsTell
<1>3. QuoteTyped(q)
  <2>1. q.deficits \in Seq(Deficits)  BY <1>0 DEF DeficitsRight
  <2> QED  BY <1>1, <1>2, <2>1 DEF QuoteTyped
<1>4. ASSUME q.deficits = <<>> PROVE fd = 0 /\ \A a \in Assets : BalanceOf(Dst, a) >= ask.want[a]
  <2>1. ord = <<>> /\ fd = 0  BY <1>0, <1>4 DEF DeficitsRight
  <2>2. Missing(Nothing) = {}  BY <2>1 DEF ToSet
  <2> QED  BY <2>1, <2>2, NoneMissing
<1>5. ASSUME q.deficits = <<>>, q.deficit = 0 PROVE SingleCovers(q, {})
  <2>1. /\ FeeToken \in Assets /\ ask.payer[Dst] \in Nat
        /\ BalanceOf(Dst, FeeToken) \in Nat /\ ask.want[FeeToken] \in Nat /\ Nothing[FeeToken] = 0
    BY AskFacts, DstFacts, NothingType
  <2> PICK w \in Nat : w = ask.want[FeeToken]  BY <2>1
  <2> PICK b \in Nat : b = BalanceOf(Dst, FeeToken)  BY <2>1
  <2>2. b >= w /\ d = 0  BY <1>2, <1>4, <1>5, <2>1
  <2>3. payer => ask.payer[Dst] >= fee
    BY <1>1, <2>1, <2>2 DEF FeeTokenDeficit, Less
  <2>4. ~payer => b >= w + fee
    <3>1. ~payer => Less(fee, Less(b + 0, w)) = 0  BY <2>1, <2>2 DEF FeeTokenDeficit
    <3>2. Less(b + 0, w) \in Nat /\ Less(b + 0, w) = b - w  BY <2>2 DEF Less
    <3> QED  BY <1>1, <2>2, <3>1, <3>2 DEF Less
  <2>5. ASSUME NEW a \in Assets
        PROVE  BalanceOf(Dst, a) >= ask.want[a] + IF PayerPays THEN 0 ELSE OwnFee(q, a)
    <3>1. BalanceOf(Dst, a) >= ask.want[a] /\ ask.want[a] \in Nat /\ BalanceOf(Dst, a) \in Nat
      BY <1>4, <1>5, DstFacts
    <3>2. CASE a = FeeToken /\ ~payer  BY <1>2, <2>4, <3>2 DEF OwnFee
    <3>3. CASE ~(a = FeeToken /\ ~payer)
      <4>1. (IF PayerPays THEN 0 ELSE OwnFee(q, a)) = 0  BY <3>3 DEF OwnFee
      <4> QED  BY <3>1, <4>1
    <3> QED  BY <3>2, <3>3
  <2>6. PayerPays => ask.payer[Dst] >= q.fee  BY <1>2, <2>3
  <2>7. q.fee # 0  BY <1>1, <1>2
  <2> QED  BY <2>5, <2>6, <2>7 DEF SingleCovers
<1> QED  BY <1>2, <1>3, <1>4, <1>5

\* The same of a sponsored quote: only what is missing of the fee was removed from it.
LEMMA SponsoredCovers ==
  ASSUME ask \in Situations, NEW fee \in Fees, NEW ord \in Seq(Assets), ToSet(ord) = Missing(Nothing),
         NEW q, q = Sponsored(EstimateFee(fee, Nothing, PayerPays, ord))
  PROVE  /\ QuoteTyped(q)
         /\ q.deficits = <<>> => \A a \in Assets : BalanceOf(Dst, a) >= ask.want[a]
         /\ q.deficits = <<>> /\ q.deficit = 0 => SingleCovers(q, {})
<1>1. PICK e : e = EstimateFee(fee, Nothing, PayerPays, ord)  OBVIOUS
<1>2. CASE ~ask.sponsored
  <2>1. q = e  BY <1>1, <1>2 DEF Sponsored
  <2> QED  BY <1>1, <2>1, EstimateCovers
<1>3. CASE ask.sponsored
  <2>1. ~PayerPays /\ FeeToken \in Assets  BY <1>3, AskFacts
  <2>2. fee \in Nat /\ fee > 0  BY QuoteAssumption
  <2> PICK payer \in BOOLEAN : payer = PayerPays  BY PayerIsBool
  <2>d. PICK d \in Nat : d = FeeTokenDeficit(fee, Nothing, payer)  BY <2>2, NothingType, FeeDeficitType
  <2>3. e.deficit = d /\ e.deficits = AssetDeficits(ord, fee, d)
    BY <1>1, <2>1, <2>d DEF EstimateFee
  <2>0. DeficitsRight(ord, fee, d, AssetDeficits(ord, fee, d))  BY <2>2, DeficitsTell
  <2>4. PICK ds \in Seq(Deficits) : ds = AssetDeficits(ord, fee, d)  BY <2>0 DEF DeficitsRight
  <2>5. q.fee = 0 /\ q.deficit = 0 /\ q.deficits = RemoveFeeAmount(ds, d)
    BY <1>1, <1>3, <2>3, <2>4 DEF Sponsored
  <2>6. QuoteTyped(q)
    <3>1. RemoveFeeAmount(ds, d) \in Seq(Deficits)  BY RemovedType
    <3> QED  BY <2>5, <3>1 DEF QuoteTyped
  <2>7. ASSUME q.deficits = <<>> PROVE ord = <<>>
    <3>1. \A i \in DOMAIN ds : ds[i].asset = FeeToken /\ ds[i].deficit <= d  BY <2>5, <2>7, RemovedType
    <3>2. ASSUME NEW i \in DOMAIN ord PROVE FALSE
      <4>1. /\ i \in DOMAIN ds /\ ds[i].asset = ord[i]
            /\ ds[i].deficit = ask.want[ord[i]] - BalanceOf(Dst, ord[i])
                                 + IF ord[i] = FeeToken /\ d # 0 THEN fee ELSE 0
        BY <2>0, <2>4 DEF DeficitsRight
      <4>2. ord[i] = FeeToken /\ ds[i].deficit <= d  BY <3>1, <4>1
      <4> PICK w \in Nat : w = ask.want[FeeToken]  BY <2>1, DstFacts
      <4> PICK b \in Nat : b = BalanceOf(Dst, FeeToken)  BY <2>1, DstFacts
      <4>3. w > b
        <5>1. FeeToken \in Missing(Nothing)  BY <4>2 DEF ToSet
        <5>2. w > b + Nothing[FeeToken] /\ Nothing[FeeToken] = 0  BY <2>1, <5>1, NothingType DEF Missing
        <5> QED  BY <5>2
      <4>4. w - b + (IF d # 0 THEN fee ELSE 0) <= d  BY <4>1, <4>2
      <4>5. d <= fee
        <5>1. d = Less(fee, Less(b + 0, w))  BY <2>1, <2>d, NothingType DEF FeeTokenDeficit
        <5>2. Less(b + 0, w) = 0  BY <4>3 DEF Less
        <5>3. d = Less(fee, 0)  BY <5>1, <5>2
        <5> QED  BY <2>2, <5>3 DEF Less
      <4>6. CASE d = 0
        <5>1. w - b <= 0  BY <4>4, <4>6
        <5> QED  BY <4>3, <5>1
      <4>7. CASE d # 0
        <5>1. w - b + fee <= d  BY <4>4, <4>7
        <5> QED  BY <2>2, <4>3, <4>5, <5>1
      <4> QED  BY <4>6, <4>7
    <3>3. PICK n \in Nat : DOMAIN ord = 1..n /\ Len(ord) = n  OBVIOUS
    <3>4. n = 0
      <4>1. n # 0 => 1 \in DOMAIN ord  BY <3>3
      <4> QED  BY <3>2, <4>1
    <3> QED  BY <3>3, <3>4
  <2>8. ASSUME q.deficits = <<>> PROVE \A a \in Assets : BalanceOf(Dst, a) >= ask.want[a]
    <3>1. Missing(Nothing) = {}  BY <2>7, <2>8 DEF ToSet
    <3> QED  BY <3>1, NoneMissing
  <2>9. ASSUME q.deficits = <<>> PROVE SingleCovers(q, {})
    <3>1. ASSUME NEW a \in Assets
          PROVE  BalanceOf(Dst, a) >= ask.want[a] + IF PayerPays THEN 0 ELSE OwnFee(q, a)
      <4>1. (IF PayerPays THEN 0 ELSE OwnFee(q, a)) = 0  BY <2>5 DEF OwnFee
      <4>2. BalanceOf(Dst, a) >= ask.want[a] /\ ask.want[a] \in Nat  BY <2>8, <2>9, DstFacts
      <4> QED  BY <4>1, <4>2
    <3> QED  BY <1>3, <2>1, <3>1 DEF SingleCovers
  <2> QED  BY <2>6, <2>8, <2>9
<1> QED  BY <1>2, <1>3

\* What sources may give, and what an answer covers, depends on the situation, which stays.
LEMMA TakingsStay ==
  ASSUME ask' = ask
  PROVE  Takings' = Takings
  BY DEF Takings, SourceCovers, PayerPays

LEMMA AnswerStays ==
  ASSUME ask' = ask, NEW ans, answer' = ans, AnswerCovers(ans)
  PROVE  AnswerCovers(answer)'
<1>1. \A p : PayerCovers(p)' <=> PayerCovers(p)  BY DEF PayerCovers
<1>2. \A q, s : SingleCovers(q, s)' <=> SingleCovers(q, s)  BY DEF SingleCovers, BalanceOf, PayerPays
<1>3. \A q, s, r : OutputCovers(q, s, r)' <=> OutputCovers(q, s, r)  BY DEF OutputCovers, BalanceOf
<1>4. \A s, f : SourceCovers(s, f)' <=> SourceCovers(s, f)  BY DEF SourceCovers
<1> QED  BY <1>1, <1>2, <1>3, <1>4 DEF AnswerCovers

LEMMA ReturnKeeps ==
  ASSUME QuoteIInv, NEW ans, Return(ans), AnswerCovers(ans)
  PROVE  QuoteIInv'
<1>1. /\ ask' = ask /\ asked' = asked /\ output' = output /\ plan' = plan
      /\ quoting' = "done" /\ answer' = ans
  BY DEF Return
<1>2. AnswerCovers(answer)'  BY <1>1, AnswerStays
<1>3. Takings' = Takings  BY <1>1, TakingsStay
<1> QED  BY <1>1, <1>2, <1>3 DEF QuoteIInv, QuotesAreCovered

LEMMA FailKeeps ==
  ASSUME QuoteIInv, Fail, quoting # "done"
  PROVE  QuoteIInv'
<1>1. /\ ask' = ask /\ asked' = asked /\ output' = output /\ plan' = plan
      /\ quoting' = "failed" /\ answer' = answer
  BY DEF Fail
<1>3. Takings' = Takings  BY <1>1, TakingsStay
<1> QED  BY <1>1, <1>3 DEF QuoteIInv, QuotesAreCovered

\* An answer of one quote covers what its quote does.
LEMMA SingleAnswer ==
  ASSUME NEW q, NEW payers, \A p \in payers : PayerCovers(p),
         q.deficit = 0 /\ q.deficits = <<>> /\ ~ask.unknown => SingleCovers(q, payers),
         NEW ans, ans = [kind |-> "single", quote |-> q, payer |-> payers]
  PROVE  AnswerCovers(ans)
<1>1. ans.kind = "single" /\ ans.quote = q /\ ans.payer = payers  OBVIOUS
<1>2. ans.kind # "multi"  BY <1>1
<1> QED  BY <1>1, <1>2 DEF AnswerCovers

\* A single chain quote that is returned as it is.
LEMMA SingleReturned ==
  ASSUME QuoteIInv, NEW q, Return(Single(q)),
         q.deficit = 0 /\ q.deficits = <<>> /\ ~ask.unknown => SingleCovers(q, {})
  PROVE  QuoteIInv'
<1>1. PICK ans : ans = Single(q)  OBVIOUS
<1>2. ans = [kind |-> "single", quote |-> q, payer |-> {}]  BY <1>1 DEF Single
<1>3. AnswerCovers(ans)
  <2>1. \A p \in {} : PayerCovers(p)  OBVIOUS
  <2> QED  BY <1>2, <2>1, SingleAnswer
<1> QED  BY <1>1, <1>3, ReturnKeeps

LEMMA SkipKeeps ==
  ASSUME QuoteIInv, NEW ord \in Seq(Assets), SkipSingle(ord)
  PROVE  QuoteIInv'
<1>1. /\ ask' = ask /\ output' = output /\ plan' = plan /\ answer' = answer /\ quoting = "start" /\ quoting' = "output"
      /\ asked' = [i \in DOMAIN ord |-> [asset |-> ord[i], required |-> ask.want[ord[i]]]]
  BY DEF SkipSingle
<1>2. ask \in Situations  BY DEF QuoteIInv
<1>3. asked' \in Seq(Fundings)
  <2> PICK n \in Nat : DOMAIN ord = 1..n  OBVIOUS
  <2>1. \A i \in 1..n : ord[i] \in Assets  OBVIOUS
  <2>2. \A i \in 1..n : ask.want[ord[i]] \in Int  BY <1>2, <2>1, DstFacts
  <2>3. \A i \in 1..n : [asset |-> ord[i], required |-> ask.want[ord[i]]] \in Fundings
    BY <2>1, <2>2 DEF Fundings
  <2>4. asked' \in [1..n -> Fundings]  BY <1>1, <2>3
  <2> QED  BY <2>4
<1>4. Takings' = Takings  BY <1>1, TakingsStay
<1> QED  BY <1>1, <1>3, <1>4 DEF QuoteIInv, QuotesAreCovered, Fundings

LEMMA SingleKeeps ==
  ASSUME QuoteIInv, NEW fee \in Fees, NEW ord \in Seq(Assets), BuildSingleChainQuote(fee, ord)
  PROVE  QuoteIInv'
<1>1. ask \in Situations  BY DEF QuoteIInv
<1>2. PICK q : q = Sponsored(EstimateFee(fee, Nothing, PayerPays, ord))  OBVIOUS
<1>3. quoting = "start" /\ ToSet(ord) = Missing(Nothing)  BY DEF BuildSingleChainQuote
<1>4. /\ QuoteTyped(q)
      /\ q.deficits = <<>> => \A a \in Assets : BalanceOf(Dst, a) >= ask.want[a]
      /\ q.deficits = <<>> /\ q.deficit = 0 => SingleCovers(q, {})
  BY <1>1, <1>2, <1>3, SponsoredCovers
<1> DEFINE payers == FeePayerQuotes(<<[chain |-> Dst, fee |-> fee]>>)
           rest == WithoutFee(q)
<1>5. \/ Return(Single(q))
      \/ Fail
      \/ /\ q.deficits = <<>> /\ PayerPays
         /\ \E p \in payers : Return([kind |-> "single", payer |-> {p}, quote |-> [q EXCEPT !.fee = 0, !.deficit = 0]])
      \/ /\ q.deficits # <<>>
         /\ quoting' = "output"
         /\ asked' = [i \in DOMAIN rest |-> [asset |-> rest[i].asset, required |-> rest[i].required]]
         /\ answer' = Single(q)
         /\ UNCHANGED <<ask, output, fetched, plan, attempt>>
  BY <1>2, Zenon DEF BuildSingleChainQuote
<1> HIDE DEF payers, rest
<1>6. CASE Return(Single(q))  BY <1>4, <1>6, SingleReturned
<1>7. CASE Fail  BY <1>3, <1>7, FailKeeps
<1>8. ASSUME q.deficits = <<>>, PayerPays, NEW p \in payers,
             Return([kind |-> "single", payer |-> {p}, quote |-> [q EXCEPT !.fee = 0, !.deficit = 0]])
      PROVE  QuoteIInv'
  <2>1. PICK quotes : quotes = <<[chain |-> Dst, fee |-> fee]>>  OBVIOUS
  <2>2. PayerCovers(p)
    <3>1. Payable(quotes, 1)
      <4>1. Dst \in Chains /\ FeeToken \in DOMAIN Token[Dst] /\ fee \in Nat  BY QuoteAssumption DEF Chains, Assets
      <4>2. DOMAIN quotes = 1..1 /\ quotes[1] = [chain |-> Dst, fee |-> fee]  BY <2>1
      <4>3. \A i \in 1..1 : i = 1  OBVIOUS
      <4> QED  BY <4>1, <4>2, <4>3 DEF Payable
    <3>2. PICK one \in Nat : one = 1  OBVIOUS
    <3>3. p \in FeePayerQuotes(quotes)  BY <1>8, <2>1 DEF payers
    <3> QED  BY <1>1, <3>1, <3>2, <3>3, PayersCover
  <2>3. PICK z : z = [q EXCEPT !.fee = 0, !.deficit = 0]  OBVIOUS
  <2>4. z.fee = 0
    <3>1. "fee" \in DOMAIN q  BY <1>2 DEF Sponsored, EstimateFee
    <3> QED  BY <2>3, <3>1
  <2>5. SingleCovers(z, {p})
    <3>1. ask.payer[Dst] \in Nat  BY <1>1, AskFacts
    <3>2. ASSUME NEW a \in Assets
          PROVE  BalanceOf(Dst, a) >= ask.want[a] + IF PayerPays THEN 0 ELSE OwnFee(z, a)
      <4>1. BalanceOf(Dst, a) >= ask.want[a] /\ ask.want[a] \in Nat  BY <1>1, <1>4, <1>8, DstFacts
      <4> QED  BY <1>8, <4>1
    <3> QED  BY <2>4, <3>1, <3>2 DEF SingleCovers
  <2>6. PICK ans : ans = [kind |-> "single", payer |-> {p}, quote |-> z]  OBVIOUS
  <2>7. AnswerCovers(ans)
    <3>1. \A r \in {p} : PayerCovers(r)  BY <2>2
    <3>2. ans = [kind |-> "single", quote |-> z, payer |-> {p}]  BY <2>6
    <3> QED  BY <2>5, <3>1, <3>2, SingleAnswer
  <2>8. Return(ans)  BY <1>8, <2>3, <2>6
  <2> QED  BY <2>7, <2>8, ReturnKeeps
<1>9. CASE /\ q.deficits # <<>>
           /\ quoting' = "output"
           /\ asked' = [i \in DOMAIN rest |-> [asset |-> rest[i].asset, required |-> rest[i].required]]
           /\ answer' = Single(q)
           /\ UNCHANGED <<ask, output, fetched, plan, attempt>>
  <2>1. ask' = ask /\ output' = output /\ plan' = plan  BY <1>9
  <2>2. Takings' = Takings  BY <2>1, TakingsStay
  <2>3. rest \in Seq(Deficits)  BY <1>1, <1>4, WithoutFeeType DEF QuoteTyped, rest
  <2>4. asked' \in Seq(Fundings)
    <3> PICK n \in Nat : DOMAIN rest = 1..n  BY <2>3
    <3>1. \A i \in 1..n : rest[i] \in Deficits  BY <2>3
    <3>2. \A i \in 1..n : [asset |-> rest[i].asset, required |-> rest[i].required] \in Fundings
      BY <3>1 DEF Fundings, Deficits
    <3>3. asked' \in [1..n -> Fundings]  BY <1>9, <3>2
    <3> QED  BY <3>3
  <2>5. answer'.payer = {} /\ answer'.quote = q  BY <1>9 DEF Single
  <2> QED  BY <1>9, <2>1, <2>2, <2>4, <2>5 DEF QuoteIInv, QuotesAreCovered, Fundings
<1> QED  BY <1>5, <1>6, <1>7, <1>8, <1>9

\* The quote of the output intent, with some funding.
LEMMA OutputQuote ==
  ASSUME ask \in Situations, NEW fee \in Fees, NEW funding \in [Assets -> Nat],
         NEW q, q = EstimateFee(fee, funding, FALSE, <<>>)
  PROVE  /\ q.fee = fee /\ fee \in Nat /\ fee > 0 /\ q.deficit \in Nat
         /\ ~q.reverted => \A a \in Assets : BalanceOf(Dst, a) + funding[a] >= ask.want[a]
         /\ ~q.reverted /\ q.deficit = 0 =>
              BalanceOf(Dst, FeeToken) + funding[FeeToken] >= ask.want[FeeToken] + fee
<1>1. fee \in Nat /\ fee > 0  BY QuoteAssumption
<1>2. /\ FeeToken \in Assets /\ funding[FeeToken] \in Nat
      /\ BalanceOf(Dst, FeeToken) \in Nat /\ ask.want[FeeToken] \in Nat
  BY AskFacts, DstFacts
<1> PICK w \in Nat : w = ask.want[FeeToken]  BY <1>2
<1> PICK b \in Nat : b = BalanceOf(Dst, FeeToken) + funding[FeeToken]  BY <1>2
<1>3. q.fee = fee /\ q.deficit = Less(fee, Less(b, w)) /\ q.reverted = (Missing(funding) # {})
  BY DEF EstimateFee, FeeTokenDeficit, SimulationFails
<1>4. Less(b, w) \in Nat /\ Less(fee, Less(b, w)) \in Nat  BY <1>1 DEF Less
<1>5. ASSUME ~q.reverted, NEW a \in Assets PROVE BalanceOf(Dst, a) + funding[a] >= ask.want[a]
  <2>1. ask.want[a] \in Nat /\ BalanceOf(Dst, a) \in Nat /\ funding[a] \in Nat  BY DstFacts
  <2>2. ~(ask.want[a] > BalanceOf(Dst, a) + funding[a])  BY <1>3, <1>5 DEF Missing
  <2> QED  BY <2>1, <2>2
<1>6. ASSUME ~q.reverted, q.deficit = 0 PROVE b >= w + fee
  <2>1. b >= w  BY <1>2, <1>5, <1>6
  <2> PICK k \in Nat : k = Less(b, w)  BY <1>4
  <2>2. k = b - w \/ (k = 0 /\ b = w)  BY <2>1 DEF Less
  <2>3. Less(fee, k) = 0  BY <1>3, <1>6
  <2>4. ~(fee > k)  BY <1>1, <2>3 DEF Less
  <2> QED  BY <1>1, <2>1, <2>2, <2>4
<1> QED  BY <1>1, <1>3, <1>4, <1>5, <1>6

OutputTells(q, fee, funding) ==
  /\ q.fee = fee /\ fee \in Nat /\ fee > 0 /\ q.deficit \in Nat
  /\ ~q.reverted => \A a \in Assets : BalanceOf(Dst, a) + funding[a] >= ask.want[a]
  /\ ~q.reverted /\ q.deficit = 0 =>
       BalanceOf(Dst, FeeToken) + funding[FeeToken] >= ask.want[FeeToken] + fee

LEMMA OutputQuoteTells ==
  ASSUME ask \in Situations, NEW fee \in Fees, NEW funding, funding \in [Assets -> Nat],
         NEW q, q = EstimateFee(fee, funding, FALSE, <<>>)
  PROVE  OutputTells(q, fee, funding)
  BY OutputQuote DEF OutputTells

LEMMA OutputKeeps ==
  ASSUME QuoteIInv, NEW fee \in Fees, BuildOutput(fee)
  PROVE  QuoteIInv'
<1>1. ask \in Situations /\ asked \in Seq(Fundings)  BY DEF QuoteIInv, Fundings
<1> DEFINE needed == [a \in Assets |-> Less(RequiredOf(asked, a), BalanceOf(Dst, a))]
           q == EstimateFee(fee, needed, FALSE, <<>>)
<1>2. quoting = "output"  BY DEF BuildOutput
<1>3. \/ Fail
      \/ /\ quoting' = "source" /\ output' = q /\ ask' = ask /\ asked' = asked /\ plan' = plan /\ answer' = answer
  BY DEF BuildOutput
<1>4. needed \in [Assets -> Nat]
  <2>1. ASSUME NEW a \in Assets PROVE Less(RequiredOf(asked, a), BalanceOf(Dst, a)) \in Nat
    <3>1. RequiredOf(asked, a) \in Int /\ BalanceOf(Dst, a) \in Nat  BY <1>1, RequiredType, DstFacts
    <3> QED  BY <3>1 DEF Less
  <2> QED  BY <2>1
<1>5. q.fee \in Nat
  <2>1. q.fee = fee  BY DEF EstimateFee
  <2> QED  BY <2>1, QuoteAssumption
<1> HIDE DEF needed, q
<1>6. CASE Fail  BY <1>2, <1>6, FailKeeps
<1>7. CASE /\ quoting' = "source" /\ output' = q /\ ask' = ask /\ asked' = asked /\ plan' = plan /\ answer' = answer
  <2>1. Takings' = Takings  BY <1>7, TakingsStay
  <2>2. output'.fee \in Nat  BY <1>5, <1>7
  <2> QED  BY <1>2, <1>7, <2>1, <2>2 DEF QuoteIInv, QuotesAreCovered
<1> QED  BY <1>3, <1>6, <1>7

LEMMA RequestedType ==
  ASSUME ask \in Situations, asked \in Seq(Fundings), output.fee \in Nat
  PROVE  RequestedFunds \in Seq(Fundings)
<1> PICK n \in Nat : DOMAIN asked = 1..n  OBVIOUS
<1> DEFINE with == [i \in DOMAIN asked |->
                      IF asked[i].asset # FeeToken THEN asked[i]
                      ELSE [asset |-> FeeToken, required |-> asked[i].required + output.fee]]
           last == [asset |-> FeeToken, required |-> output.fee]
<1>1. FeeToken \in Assets  BY AskFacts
<1>2. last \in Fundings  BY <1>1 DEF Fundings
<1>3. \A i \in 1..n : asked[i] \in Fundings  OBVIOUS
<1>4. \A i \in 1..n : [asset |-> FeeToken, required |-> asked[i].required + output.fee] \in Fundings
  BY <1>1, <1>3 DEF Fundings
<1>5. with \in [1..n -> Fundings]  BY <1>3, <1>4
<1>6. RequestedFunds \in {asked, with, Append(asked, last)}  BY DEF RequestedFunds
<1> HIDE DEF with, last
<1>7. with \in Seq(Fundings)  BY <1>5
<1>8. Append(asked, last) \in Seq(Fundings)  BY <1>2, AppendKeeps
<1> QED  BY <1>6, <1>7, <1>8

\* source_funds returns a plan of Takings, or the answer that waited and has deficits.
LEMMA SourceKeeps ==
  ASSUME SameDecimals, QuoteIInv, NEW cost \in [Sources -> Costs], SourceFunds(cost)
  PROVE  QuoteIInv'
<1>1. ask \in Situations /\ asked \in Seq(Fundings) /\ output.fee \in Nat  BY DEF QuoteIInv, Fundings
<1>2. PICK funds \in Seq(Fundings) : funds = RequestedFunds  BY <1>1, RequestedType
<1> DEFINE left == [a \in Assets |-> Less(RequiredOf(funds, a), IF a \in fetched THEN BalanceOf(Dst, a) ELSE 0)]
<1>3. left \in [Assets -> Nat]
  <2>1. ASSUME NEW a \in Assets
        PROVE  Less(RequiredOf(funds, a), IF a \in fetched THEN BalanceOf(Dst, a) ELSE 0) \in Nat
    <3>1. RequiredOf(funds, a) \in Int /\ BalanceOf(Dst, a) \in Nat  BY <1>1, RequiredType, DstFacts
    <3> QED  BY <3>1 DEF Less
  <2> QED  BY <2>1
<1>4. PICK ord \in Orderings(funds) :
        \/ /\ quoting' = "rebuild" /\ plan' = Sourced(left, ord, funds, cost).plan
           /\ UNCHANGED <<ask, asked, output, fetched, attempt, answer>>
        \/ answer.kind = "single" /\ Return(answer)
        \/ \E fee \in Fees, miss \in SetToSeqs(Missing(Nothing)) :
             Return(Single(EstimateFee(fee, Nothing, PayerPays, miss)))
  BY <1>2, Zenon DEF SourceFunds
<1>5. quoting = "source"  BY DEF SourceFunds
<1>6. PICK n \in Nat : ord \in [1..n -> UsableSources(funds)]
  <2>1. UsableSources(funds) \subseteq Sources  BY DEF UsableSources
  <2>2. IsFiniteSet(UsableSources(funds))  BY <2>1, FS_Subset, QuoteAssumption
  <2>3. Cardinality(UsableSources(funds)) \in Nat  BY <2>2, FS_CardinalityType
  <2>4. ord \in SetToSeqs(UsableSources(funds))  BY DEF Orderings
  <2> QED  BY <2>3, <2>4 DEF SetToSeqs
<1> HIDE DEF left
<1>7. CASE /\ quoting' = "rebuild" /\ plan' = Sourced(left, ord, funds, cost).plan
           /\ UNCHANGED <<ask, asked, output, fetched, attempt, answer>>
  <2>1. PICK found \in Progressing : found = Sourced(left, ord, funds, cost)  BY <1>1, <1>3, <1>6, SourcedKeeps
  <2>2. found.plan \in Seq(Takings)  BY DEF Progressing
  <2>3. /\ ask' = ask /\ asked' = asked /\ output' = output /\ answer' = answer /\ plan' = found.plan
        /\ quoting' = "rebuild"
    BY <1>7, <2>1
  <2>4. Takings' = Takings  BY <2>3, TakingsStay
  <2> QED  BY <1>5, <2>2, <2>3, <2>4 DEF QuoteIInv, QuotesAreCovered
<1>8. CASE answer.kind = "single" /\ Return(answer)
  <2>1. PICK ans : ans = answer  OBVIOUS
  <2>2. ans.kind = "single" /\ ans.payer = {} /\ ans.quote.deficits # <<>>  BY <1>5, <1>8, <2>1 DEF QuoteIInv
  <2>3. AnswerCovers(ans)  BY <2>2 DEF AnswerCovers
  <2>4. Return(ans)  BY <1>8, <2>1
  <2> QED  BY <2>3, <2>4, ReturnKeeps
<1>9. ASSUME NEW fee \in Fees, NEW miss \in SetToSeqs(Missing(Nothing)),
             Return(Single(EstimateFee(fee, Nothing, PayerPays, miss)))
      PROVE  QuoteIInv'
  <2>1. PICK q : q = EstimateFee(fee, Nothing, PayerPays, miss)  OBVIOUS
  <2>2. miss \in Seq(Assets) /\ ToSet(miss) = Missing(Nothing)
    <3> PICK M : M = Missing(Nothing)  OBVIOUS
    <3>1. M \subseteq Assets  BY DEF Missing
    <3>2. IsFiniteSet(M)  BY <3>1, FS_Subset, QuoteAssumption
    <3> PICK k \in Nat : k = Cardinality(M)  BY <3>2, FS_CardinalityType
    <3>3. miss \in [1..k -> M] /\ \A i, j \in 1..k : i # j => miss[i] # miss[j]  BY DEF SetToSeqs
    <3>4. ToSet(miss) = M
      <4>1. ToSet(miss) \subseteq M /\ IsFiniteSet(M)  BY <3>2, <3>3 DEF ToSet
      <4>2. Cardinality(ToSet(miss)) = k
        <5>1. miss \in Bijection(1..k, ToSet(miss))
          <6>1. miss \in [1..k -> ToSet(miss)]  BY <3>3 DEF ToSet
          <6>2. miss \in Injection(1..k, ToSet(miss))  BY <3>3, <6>1 DEF Injection, IsInjective
          <6>3. miss \in Surjection(1..k, ToSet(miss))  BY <3>3, <6>1 DEF Surjection, ToSet
          <6> QED  BY <6>2, <6>3 DEF Bijection
        <5>2. ExistsBijection(1..k, ToSet(miss))  BY <5>1 DEF ExistsBijection
        <5> QED  BY <5>2, FS_CountingElements
      <4> QED  BY <4>1, <4>2, FS_Subset
    <3> QED  BY <3>1, <3>3, <3>4
  <2>3. q.deficits = <<>> /\ q.deficit = 0 => SingleCovers(q, {})  BY <1>1, <2>1, <2>2, EstimateCovers
  <2>4. Return(Single(q))  BY <1>9, <2>1
  <2> QED  BY <2>3, <2>4, SingleReturned
<1> QED  BY <1>4, <1>7, <1>8, <1>9

QuotedFees == [chain : Chains, fee : Nat, deficit : Nat]

FundingQuote(s) ==
  [chain |-> s.chain, fee |-> s.cost,
   deficit |-> Less(s.cost, Less(BalanceOf(s.chain, s.feeToken), s.amount[s.feeToken]))]

\* What a planned source is asked for, and that it has its fee if it gives the token of it.
LEMMA FundingQuoteType ==
  ASSUME ask \in Situations, NEW s \in Takings
  PROVE  /\ FundingQuote(s) \in QuotedFees
         /\ FundingQuote(s).chain = s.chain /\ FundingQuote(s).fee = s.cost
         /\ PayerPays => FeeToken \in DOMAIN Token[s.chain]
         /\ ~PayerPays /\ s.take[s.feeToken] > 0 => FundingQuote(s).deficit = 0
<1>1. /\ s.chain \in Sources /\ s.cost \in Nat /\ s.feeToken \in Assets
      /\ s.take \in [Assets -> Nat] /\ s.amount \in [Assets -> Nat]
  BY DEF Takings
<1>2. /\ s.feeToken \in DOMAIN Token[s.chain] /\ (PayerPays => s.feeToken = FeeToken)
      /\ SourceCovers(s, IF PayerPays THEN 0 ELSE s.cost)
  BY DEF Takings
<1>3. s.chain \in Chains  BY <1>1 DEF Chains
<1> PICK ft \in Assets : ft = s.feeToken  BY <1>1
<1> PICK b \in Nat : b = BalanceOf(s.chain, ft) /\ b = ask.bal[s.chain][ft]  BY <1>2, <1>3, BalanceNat
<1> PICK k \in Nat : k = s.cost  BY <1>1
<1> PICK m \in Nat : m = s.amount[ft]  BY <1>1
<1>4. Less(b, m) \in Nat /\ Less(k, Less(b, m)) \in Nat  BY DEF Less
<1>5. ASSUME ~PayerPays, s.take[ft] > 0 PROVE Less(k, Less(b, m)) = 0
  <2>1. m + k <= b  BY <1>2, <1>5 DEF SourceCovers
  <2>2. PICK l \in Nat : l = Less(b, m)  BY <1>4
  <2>3. l >= k  BY <2>1, <2>2 DEF Less
  <2>4. Less(k, l) = 0  BY <2>3 DEF Less
  <2> QED  BY <2>2, <2>4
<1>6. PICK d \in Nat : d = Less(k, Less(b, m))  BY <1>4
<1>7. FundingQuote(s) = [chain |-> s.chain, fee |-> k, deficit |-> d]  BY <1>6 DEF FundingQuote
<1>8. FundingQuote(s) \in QuotedFees  BY <1>3, <1>7 DEF QuotedFees
<1> QED  BY <1>2, <1>5, <1>6, <1>7, <1>8

\* The quotes of the sources, then the one of the output intent.
AllQuotes(q) == Append(FundingQuotes, [chain |-> Dst, fee |-> q.fee, deficit |-> q.deficit])

LEMMA AllQuotesAre ==
  ASSUME ask \in Situations, plan \in Seq(Takings), NEW q, q.fee \in Nat, q.deficit \in Nat,
         NEW n \in Nat, n = Len(plan)
  PROVE  /\ AllQuotes(q) \in Seq(QuotedFees) /\ Len(AllQuotes(q)) = n + 1 /\ DOMAIN AllQuotes(q) = 1..(n + 1)
         /\ AllQuotes(q)[n + 1] = [chain |-> Dst, fee |-> q.fee, deficit |-> q.deficit]
         /\ \A i \in 1..n : AllQuotes(q)[i] = FundingQuote(plan[i])
<1> DEFINE last == [chain |-> Dst, fee |-> q.fee, deficit |-> q.deficit]
<1>1. DOMAIN plan = 1..n /\ \A i \in 1..n : plan[i] \in Takings  OBVIOUS
<1>2. FundingQuotes = [i \in 1..n |-> FundingQuote(plan[i])]  BY <1>1 DEF FundingQuotes, FundingQuote
<1>3. \A s \in Takings : FundingQuote(s) \in QuotedFees  BY FundingQuoteType
<1>4. last \in QuotedFees  BY DEF QuotedFees, Chains
<1> HIDE DEF last
<1>5. FundingQuotes \in [1..n -> QuotedFees]  BY <1>1, <1>2, <1>3
<1>6. FundingQuotes \in Seq(QuotedFees) /\ Len(FundingQuotes) = n  BY <1>5
<1>7. PICK fq \in Seq(QuotedFees) : fq = FundingQuotes /\ Len(fq) = n  BY <1>6
<1>8. /\ Append(fq, last) \in Seq(QuotedFees) /\ Len(Append(fq, last)) = n + 1
      /\ Append(fq, last)[n + 1] = last /\ \A i \in 1..n : Append(fq, last)[i] = fq[i]
  BY <1>4, <1>7, AppendProperties
<1>9. AllQuotes(q) = Append(fq, last)  BY <1>7 DEF AllQuotes, last
<1>10. \A i \in 1..n : fq[i] = FundingQuote(plan[i])  BY <1>2, <1>7
<1>11. DOMAIN AllQuotes(q) = 1..(n + 1)  BY <1>8, <1>9
<1> QED  BY <1>8, <1>9, <1>10, <1>11 DEF last

LEMMA FundingType ==
  ASSUME plan \in Seq(Takings)
  PROVE  Funding \in [Assets -> Nat]
<1>1. \A a \in Assets : FundedBy(plan)[a] \in Nat  BY FundedType
<1>2. \E F : FundedBy(plan) = [a \in Assets |-> F[a]]
  <2>1. FundedBy(plan) = [a \in Assets |-> [b \in Assets |-> Added([i \in DOMAIN plan |-> plan[i].take[b]])][a]]
    BY DEF FundedBy
  <2> QED  BY <2>1
<1> QED  BY <1>1, <1>2 DEF Funding

\* The final quote of the output intent, with the funds of the plan.
LEMMA FinalQuote ==
  ASSUME ask \in Situations, plan \in Seq(Takings), NEW fee \in Fees,
         NEW e, OutputTells(e, fee, Funding), NEW q, q = Sponsored(e)
  PROVE  /\ q.fee \in Nat /\ q.deficit \in Nat
         /\ ~q.reverted => \A a \in Assets : BalanceOf(Dst, a) + Funding[a] >= ask.want[a]
         /\ ~q.reverted /\ q.deficit = 0 =>
              \A a \in Assets : BalanceOf(Dst, a) + Funding[a] >= ask.want[a] + OwnFee(q, a)
         /\ q.fee = 0 => ask.sponsored
<1>1. Funding \in [Assets -> Nat]  BY FundingType
<1>2. PICK funding \in [Assets -> Nat] : funding = Funding  BY <1>1
<1>4. /\ e.fee = fee /\ fee \in Nat /\ fee > 0 /\ e.deficit \in Nat
      /\ ~e.reverted => \A a \in Assets : BalanceOf(Dst, a) + funding[a] >= ask.want[a]
      /\ ~e.reverted /\ e.deficit = 0 =>
           BalanceOf(Dst, FeeToken) + funding[FeeToken] >= ask.want[FeeToken] + fee
  BY <1>2 DEF OutputTells
<1>5. q = IF ask.sponsored
          THEN [fee |-> 0, deficit |-> 0, deficits |-> RemoveFeeAmount(e.deficits, e.deficit), reverted |-> e.reverted]
          ELSE e
  BY DEF Sponsored
<1>6. \A a \in Assets : ask.want[a] \in Nat /\ BalanceOf(Dst, a) \in Nat /\ funding[a] \in Nat  BY DstFacts
<1>7. CASE ask.sponsored
  <2>1. q.fee = 0 /\ q.deficit = 0 /\ q.reverted = e.reverted  BY <1>5, <1>7
  <2>2. \A a \in Assets : OwnFee(q, a) = 0  BY <2>1 DEF OwnFee
  <2> QED  BY <1>2, <1>4, <1>6, <1>7, <2>1, <2>2
<1>8. CASE ~ask.sponsored
  <2>1. q = e  BY <1>5, <1>8
  <2>2. ASSUME ~q.reverted, q.deficit = 0, NEW a \in Assets
        PROVE  BalanceOf(Dst, a) + funding[a] >= ask.want[a] + OwnFee(q, a)
    <3>1. CASE a = FeeToken  BY <1>4, <2>1, <2>2, <3>1 DEF OwnFee
    <3>2. CASE a # FeeToken
      <4>1. OwnFee(q, a) = 0  BY <3>2 DEF OwnFee
      <4> QED  BY <1>4, <1>6, <2>1, <2>2, <4>1
    <3> QED  BY <3>1, <3>2
  <2> QED  BY <1>2, <1>4, <2>1, <2>2
<1> QED  BY <1>7, <1>8

\* An answer for several chains, from what it has to say of its parts.
LEMMA MultiAnswer ==
  ASSUME NEW n \in Nat, NEW qs, NEW sources, NEW payers, DOMAIN sources = 1..n, DOMAIN qs = 1..(n + 1), Len(qs) = n + 1,
         \A p \in payers : PayerCovers(p),
         \A i \in 1..n : sources[i].take[sources[i].feeToken] > 0 => qs[i].deficit = 0,
         qs[n + 1].deficit = 0 => OutputCovers(qs[n + 1], sources, payers),
         \A i \in 1..n : SourceCovers(sources[i], qs[i].fee),
         NEW ans, ans = [kind |-> "multi", quotes |-> qs, sources |-> sources, payer |-> payers]
  PROVE  AnswerCovers(ans)
<1>1. ans.kind = "multi" /\ ans.quotes = qs /\ ans.sources = sources /\ ans.payer = payers  OBVIOUS
<1>2. Last(qs) = qs[n + 1] /\ n + 1 \in DOMAIN qs  BY DEF Last
<1>3. ans.kind # "single"  BY <1>1
<1> QED  BY <1>1, <1>2, <1>3 DEF AnswerCovers

\* The last quotes are covered: by the sources, the funder, and the fee payer.
LEMMA QuotesKeep ==
  ASSUME QuoteIInv, NEW fee \in Fees, BuildQuotes(fee)
  PROVE  QuoteIInv'
<1>1. ask \in Situations /\ plan \in Seq(Takings)  BY DEF QuoteIInv
<1>0. PICK e : e = EstimateFee(fee, Funding, FALSE, <<>>)  OBVIOUS
<1>2. PICK q : q = Sponsored(e)  OBVIOUS
<1> DEFINE all == AllQuotes(q)
           zero == [i \in DOMAIN all |-> [all[i] EXCEPT !.fee = 0, !.deficit = 0]]
           payers == FeePayerQuotes(all)
<1>3. quoting = "rebuild"  BY DEF BuildQuotes
<1>4. \/ Fail
      \/ /\ ~(\E a \in Assets : Funding[a] > ask.funder[a]) /\ ~q.reverted
         /\ \/ /\ q.deficit = 0 /\ ~PayerPays
               /\ Return([kind |-> "multi", quotes |-> all, sources |-> plan, payer |-> {}])
            \/ /\ PayerPays
               /\ \E p \in payers :
                    Return([kind |-> "multi", quotes |-> zero, sources |-> plan, payer |-> {p}])
            \/ /\ quoting' = "source" /\ output' = q
               /\ ask' = ask /\ asked' = asked /\ plan' = plan /\ answer' = answer
  BY <1>0, <1>2 DEF BuildQuotes, AllQuotes
<1>5. /\ q.fee \in Nat /\ q.deficit \in Nat
      /\ ~q.reverted => \A a \in Assets : BalanceOf(Dst, a) + Funding[a] >= ask.want[a]
      /\ ~q.reverted /\ q.deficit = 0 =>
           \A a \in Assets : BalanceOf(Dst, a) + Funding[a] >= ask.want[a] + OwnFee(q, a)
      /\ q.fee = 0 => ask.sponsored
  <2>1. OutputTells(e, fee, Funding)  BY <1>0, <1>1, FundingType, OutputQuoteTells
  <2> QED  BY <1>1, <1>2, <2>1, FinalQuote
<1>6. PICK n \in Nat : n = Len(plan) /\ DOMAIN plan = 1..n /\ \A i \in 1..n : plan[i] \in Takings  BY <1>1
<1>7. /\ all \in Seq(QuotedFees) /\ Len(all) = n + 1 /\ DOMAIN all = 1..(n + 1)
      /\ all[n + 1] = [chain |-> Dst, fee |-> q.fee, deficit |-> q.deficit]
      /\ \A i \in 1..n : all[i] = FundingQuote(plan[i])
  BY <1>1, <1>5, <1>6, AllQuotesAre
<1>8. ASSUME ~(\E a \in Assets : Funding[a] > ask.funder[a])
      PROVE  \A a \in Assets : FundedBy(plan)[a] \in Nat /\ FundedBy(plan)[a] <= ask.funder[a]
  <2> TAKE a \in Assets
  <2>1. FundedBy(plan)[a] \in Nat /\ ask.funder[a] \in Nat  BY <1>1, FundedType, DstFacts
  <2>2. ~(FundedBy(plan)[a] > ask.funder[a])  BY <1>8 DEF Funding
  <2> QED  BY <2>1, <2>2
<1>9. CASE Fail  BY <1>3, <1>9, FailKeeps
<1>10. CASE /\ ~(\E a \in Assets : Funding[a] > ask.funder[a]) /\ ~q.reverted /\ q.deficit = 0 /\ ~PayerPays
            /\ Return([kind |-> "multi", quotes |-> all, sources |-> plan, payer |-> {}])
  <2>1. PICK qs : qs = all  OBVIOUS
  <2>2. PICK src : src = plan  OBVIOUS
  <2>3. PICK ans : ans = [kind |-> "multi", quotes |-> qs, sources |-> src, payer |-> {}]  OBVIOUS
  <2> HIDE DEF all
  <2>4. \A i \in 1..n : src[i].take[src[i].feeToken] > 0 => qs[i].deficit = 0
    <3> TAKE i \in 1..n
    <3>1. PICK s \in Takings : s = src[i]  BY <1>6, <2>2
    <3>2. qs[i] = FundingQuote(s)  BY <1>7, <2>1, <2>2, <3>1
    <3>3. s.take[s.feeToken] > 0 => FundingQuote(s).deficit = 0  BY <1>1, <1>10, FundingQuoteType
    <3> QED  BY <3>1, <3>2, <3>3
  <2>5. OutputCovers(qs[n + 1], src, {})
    <3>1. qs[n + 1].fee = q.fee  BY <1>7, <2>1
    <3>2. \A a \in Assets : OwnFee(qs[n + 1], a) = OwnFee(q, a)  BY <3>1 DEF OwnFee
    <3> QED  BY <1>5, <1>8, <1>10, <2>2, <3>1, <3>2 DEF OutputCovers, Funding
  <2>6. \A i \in 1..n : SourceCovers(src[i], qs[i].fee)
    <3> TAKE i \in 1..n
    <3>1. SourceCovers(plan[i], IF PayerPays THEN 0 ELSE plan[i].cost)  BY <1>6 DEF Takings
    <3>2. qs[i].fee = plan[i].cost
      <4>1. PICK s \in Takings : s = plan[i]  BY <1>6
      <4>2. qs[i] = FundingQuote(s)  BY <1>7, <2>1, <4>1
      <4>3. FundingQuote(s).fee = s.cost  BY <1>1, FundingQuoteType
      <4> QED  BY <4>1, <4>2, <4>3
    <3> QED  BY <1>10, <2>2, <3>1, <3>2
  <2>7. AnswerCovers(ans)
    <3>1. DOMAIN src = 1..n /\ DOMAIN qs = 1..(n + 1) /\ Len(qs) = n + 1  BY <1>6, <1>7, <2>1, <2>2
    <3>2. \A p \in {} : PayerCovers(p)  OBVIOUS
    <3> QED  BY <2>3, <2>4, <2>5, <2>6, <3>1, <3>2, MultiAnswer
  <2>8. Return(ans)  BY <1>10, <2>1, <2>2, <2>3
  <2> QED  BY <2>7, <2>8, ReturnKeeps
<1>11. ASSUME ~(\E a \in Assets : Funding[a] > ask.funder[a]), ~q.reverted, PayerPays, NEW p \in payers,
              Return([kind |-> "multi", quotes |-> zero, sources |-> plan, payer |-> {p}])
       PROVE  QuoteIInv'
  <2>1. PICK qs : qs = zero  OBVIOUS
  <2>2. PICK src : src = plan  OBVIOUS
  <2>3. PICK ans : ans = [kind |-> "multi", quotes |-> qs, sources |-> src, payer |-> {p}]  OBVIOUS
  <2>4. DOMAIN qs = 1..(n + 1) /\ Len(qs) = n + 1 /\ \A i \in 1..(n + 1) : qs[i].fee = 0 /\ qs[i].deficit = 0
    <3> HIDE DEF all
    <3>1. \A i \in 1..(n + 1) : all[i] \in QuotedFees  BY <1>7
    <3>2. DOMAIN qs = 1..(n + 1)  BY <1>7, <2>1
    <3>3. ASSUME NEW i \in 1..(n + 1) PROVE qs[i].fee = 0 /\ qs[i].deficit = 0
      <4>1. PICK r \in QuotedFees : r = all[i]  BY <3>1
      <4>2. qs[i] = [r EXCEPT !.fee = 0, !.deficit = 0]  BY <1>7, <2>1, <4>1
      <4>3. "fee" \in DOMAIN r /\ "deficit" \in DOMAIN r  BY DEF QuotedFees
      <4> QED  BY <4>2, <4>3
    <3>5. Len(qs) = n + 1
      <4>1. PICK k \in Nat : k = n + 1  OBVIOUS
      <4>2. PICK T : T = {qs[i] : i \in 1..k}  OBVIOUS
      <4>3. qs \in [1..k -> T]  BY <1>7, <2>1, <4>1, <4>2
      <4> HIDE DEF zero
      <4>4. Len(qs) = k  BY <4>3
      <4> QED  BY <4>1, <4>4
    <3> QED  BY <3>2, <3>3, <3>5
  <2>5. PayerCovers(p)
    <3>1. Payable(all, n + 1)
      <4>1. \A i \in 1..(n + 1) : all[i] \in QuotedFees
        <5> HIDE DEF all
        <5> QED  BY <1>7
      <4>2. ASSUME NEW i \in 1..(n + 1) PROVE FeeToken \in DOMAIN Token[all[i].chain]
        <5> HIDE DEF all
        <5>1. CASE i = n + 1  BY <1>7, <5>1, QuoteAssumption DEF Assets
        <5>2. CASE i # n + 1
          <6>1. i \in 1..n  BY <5>2
          <6>2. PICK s \in Takings : s = plan[i]  BY <1>6, <6>1
          <6>3. all[i] = FundingQuote(s)  BY <1>7, <6>1, <6>2
          <6>4. FundingQuote(s).chain = s.chain /\ FeeToken \in DOMAIN Token[s.chain]
            BY <1>1, <1>11, FundingQuoteType
          <6> QED  BY <6>3, <6>4
        <5> QED  BY <5>1, <5>2
      <4> HIDE DEF all
      <4>3. \A i \in 1..(n + 1) : all[i].chain \in Chains /\ all[i].fee \in Nat  BY <4>1 DEF QuotedFees
      <4> QED  BY <1>7, <4>2, <4>3 DEF Payable
    <3>2. PICK k \in Nat : k = n + 1 /\ k > 0  OBVIOUS
    <3>3. p \in FeePayerQuotes(all)  BY <1>11
    <3> HIDE DEF all, payers
    <3> QED  BY <1>1, <3>1, <3>2, <3>3, PayersCover
  <2> HIDE DEF all, zero, payers
  <2>6. OutputCovers(qs[n + 1], src, {p})
    <3>1. qs[n + 1].fee = 0  BY <2>4
    <3>2. \A a \in Assets : OwnFee(qs[n + 1], a) = 0  BY <3>1 DEF OwnFee
    <3>3. \A a \in Assets : ask.want[a] \in Nat  BY <1>1, DstFacts
    <3>4. \A a \in Assets : BalanceOf(Dst, a) + FundedBy(plan)[a] >= ask.want[a] + OwnFee(qs[n + 1], a)
      BY <1>5, <1>11, <3>2, <3>3 DEF Funding
    <3> QED  BY <1>8, <1>11, <2>2, <3>4 DEF OutputCovers
  <2>7. \A i \in 1..n : SourceCovers(src[i], qs[i].fee)
    <3> TAKE i \in 1..n
    <3>1. SourceCovers(plan[i], IF PayerPays THEN 0 ELSE plan[i].cost)  BY <1>6 DEF Takings
    <3>2. qs[i].fee = 0  BY <2>4
    <3> QED  BY <1>11, <2>2, <3>1, <3>2
  <2>8. AnswerCovers(ans)
    <3>1. DOMAIN src = 1..n  BY <1>6, <2>2
    <3>2. \A r \in {p} : PayerCovers(r)  BY <2>5
    <3>3. \A i \in 1..n : qs[i].deficit = 0  BY <2>4
    <3> QED  BY <2>3, <2>4, <2>6, <2>7, <3>1, <3>2, <3>3, MultiAnswer
  <2>9. Return(ans)  BY <1>11, <2>1, <2>2, <2>3
  <2> QED  BY <2>8, <2>9, ReturnKeeps
<1>12. CASE /\ quoting' = "source" /\ output' = q
            /\ ask' = ask /\ asked' = asked /\ plan' = plan /\ answer' = answer
  <2>1. Takings' = Takings  BY <1>12, TakingsStay
  <2>2. output'.fee \in Nat  BY <1>5, <1>12
  <2> QED  BY <1>3, <1>12, <2>1, <2>2 DEF QuoteIInv, QuotesAreCovered
<1> QED  BY <1>4, <1>9, <1>10, <1>11, <1>12

LEMMA QuoteStep ==
  ASSUME SameDecimals, QuoteIInv, [QuoteNext]_quoteVars
  PROVE  QuoteIInv'
<1>1. ASSUME NEW fee \in Fees, BuildOutput(fee) \/ BuildQuotes(fee) PROVE QuoteIInv'
  BY <1>1, OutputKeeps, QuotesKeep
<1>2. ASSUME NEW fee \in Fees, NEW ord \in UNION {SetToSeqs(S) : S \in SUBSET Assets},
             BuildSingleChainQuote(fee, ord)
      PROVE  QuoteIInv'
  BY <1>2, OrderType, SingleKeeps
<1>3. ASSUME NEW ord \in UNION {SetToSeqs(S) : S \in SUBSET Assets}, SkipSingle(ord) PROVE QuoteIInv'
  BY <1>3, OrderType, SkipKeeps
<1>4. ASSUME NEW cost \in [Sources -> Costs], SourceFunds(cost) PROVE QuoteIInv'
  BY <1>4, SourceKeeps
<1>5. CASE UNCHANGED quoteVars
  <2>1. ask' = ask /\ asked' = asked /\ output' = output /\ plan' = plan /\ answer' = answer /\ quoting' = quoting
    BY <1>5 DEF quoteVars
  <2>2. Takings' = Takings  BY <2>1, TakingsStay
  <2>3. QuotesAreCovered'
    <3>1. PICK ans : ans = answer  OBVIOUS
    <3>2. quoting = "done" => AnswerCovers(ans)  BY <3>1 DEF QuoteIInv, QuotesAreCovered
    <3>3. quoting = "done" => AnswerCovers(answer)'  BY <2>1, <3>1, <3>2, AnswerStays
    <3> QED  BY <2>1, <3>3 DEF QuotesAreCovered
  <2> QED  BY <2>1, <2>2, <2>3 DEF QuoteIInv
<1> QED  BY <1>1, <1>2, <1>3, <1>4, <1>5 DEF QuoteNext

LEMMA QuoteInitial ==
  ASSUME QuoteInit
  PROVE  QuoteIInv
<1>1. /\ ask \in Situations /\ asked = <<>> /\ plan = <<>> /\ output.fee = 0
      /\ quoting = "start" /\ answer.kind = "none"
  BY DEF QuoteInit, NoQuote
<1>2. quoting # "done" /\ answer.kind # "single"  BY <1>1
<1> QED  BY <1>1, <1>2 DEF QuoteIInv, QuotesAreCovered

\* For any chains, tokens, balances, fees and costs, if an address that a source and the
\* chain of the request share is of tokens with the same decimals: a quote without
\* deficits is paid for, by the account on its chains, by the fee payer or by the relay.
THEOREM QuotesAreAlwaysCovered == SameDecimals => (QuoteSpec => []QuotesAreCovered)
<1> SUFFICES ASSUME SameDecimals PROVE QuoteSpec => []QuotesAreCovered  OBVIOUS
<1>1. QuoteInit => QuoteIInv  BY QuoteInitial
<1>2. QuoteIInv /\ [QuoteNext]_quoteVars => QuoteIInv'  BY QuoteStep
<1>3. QuoteIInv => QuotesAreCovered  BY DEF QuoteIInv
<1> QED  BY <1>1, <1>2, <1>3, PTL DEF QuoteSpec

==============================================================================
