---------------------------- MODULE InteropBundle ----------------------------
(***************************************************************************)
(* The life of one cross-chain bundle: liquidity is locked, an optional    *)
(* fee payer and the source transactions put the user's money into         *)
(* escrows, the destination transaction pays the user, and settlements     *)
(* release the escrows to the relay; when a source or the destination      *)
(* fails, the escrows are refunded to the user after a delay.              *)
(*                                                                         *)
(* A task works on its own copy of the bundle and writes the row of        *)
(* pending_bundles at some of its steps; an error ends the task and leaves *)
(* the row.  A restart starts a task from the row, and the refund monitor  *)
(* starts one when the delay has passed.  Each SQL transaction is one      *)
(* step.  Transactions are sent by TransactionService, here external.      *)
(***************************************************************************)
EXTENDS Integers, FiniteSets

CONSTANTS
  Src,         \* possible source transactions, one escrow each
  MaxTasks,    \* bound on the tasks ever started
  MaxRestarts  \* bound on the restarts

ASSUME TaskAssumption == MaxTasks \in Nat /\ MaxRestarts \in Nat

VARIABLES
  bundle,     \* what the user asked for: fee payer, sources, kind of settler
  row,        \* the row of pending_bundles; status "none" without one
  finished,   \* the status in finished_bundles, "none" without a row there
  scheduled,  \* whether pending_refunds has a row
  tx,         \* [t]: a transaction as its status row and the chain know it
  task,       \* [k]: the copy of the bundle a task works on; status "off"
  started,    \* number of tasks started
  marked,     \* the copy the refund monitor is about to hand over, or none
  booting,    \* InteropService::new has not loaded the bundles yet
  locks,      \* number of times liquidity was locked
  unlocks,    \* number of times it was unlocked
  packet,     \* [s]: what became of the LayerZero message to source s
  died,       \* a task ended with an error since the start of the process
  restarts    \* number of restarts

taskVars == <<task, started, died>>
moneyVars == <<locks, unlocks, packet>>
procVars == <<marked, booting, restarts>>
vars == <<bundle, row, finished, scheduled, tx, taskVars, moneyVars, procVars>>

Tasks == 1..MaxTasks

(***************************************************************************)
(* Transactions                                                            *)
(***************************************************************************)

NoSrc == "none"
FeeTx == <<"fee", NoSrc, 0>>
SrcTx(s) == <<"src", s, 0>>
DstTx == <<"dst", NoSrc, 0>>
SettleTx == <<"settle", NoSrc, 0>>
RecvTx(s) == <<"receive", s, 0>>
RefundTx(s, k) == <<"refund", s, k>>

RefundTxs == {RefundTx(s, k) : s \in Src, k \in Tasks}
Txs == {FeeTx, DstTx, SettleTx} \cup {SrcTx(s) : s \in Src} \cup {RecvTx(s) : s \in Src} \cup RefundTxs

\* "ok": confirmed, and the intent or call succeeded; "reverted": confirmed, but
\* it did not; "failed": not confirmed.
Outcomes == {"ok", "reverted", "failed"}
TxStates == {"none", "queued"} \cup Outcomes

Final(ts) == \A t \in ts : tx[t] \in Outcomes
AllOk(ts) == \A t \in ts : tx[t] = "ok"
Confirmed(t) == tx[t] \in {"ok", "reverted"}

FeeTxs == IF bundle.fee THEN {FeeTx} ELSE {}
SrcTxs == {SrcTx(s) : s \in bundle.src}
\* The simple settler sends nothing at first and one call per source chain at
\* the end; LayerZero sends one message transaction and delivers in batches.
SettleTxs == IF bundle.settler = "layerzero" THEN {SettleTx} ELSE {}
RecvTxs == IF bundle.settler = "simple" THEN {RecvTx(s) : s \in bundle.src} ELSE {}

Refunded(s) == \E k \in Tasks : tx[RefundTx(s, k)] = "ok"

\* The contracts: an escrow is released once, to the user or to the relay.
CanSucceed(t) ==
  /\ t[1] = "refund"  => tx[SrcTx(t[2])] = "ok" /\ ~Refunded(t[2]) /\ tx[RecvTx(t[2])] # "ok"
  /\ t[1] = "receive" => tx[SrcTx(t[2])] = "ok" /\ ~Refunded(t[2])

(***************************************************************************)
(* Rows and tasks                                                          *)
(***************************************************************************)

Statuses ==
  { "Init", "LiquidityLocked", "FeePayerQueued", "FeePayerCompleted", "SourceQueued",
    "SourceConfirmed", "SourceFailures", "DestinationQueued", "DestinationFailures",
    "DestinationConfirmed", "SettlementsQueued", "SettlementsProcessing",
    "SettlementCompletionQueued", "RefundsScheduled", "RefundsReady", "RefundsQueued",
    "Done", "Failed" }

\* The part of a bundle that changes: refunds and failed_verifications.
Copy(status, refunds, unverified) ==
  [status |-> status, refunds |-> refunds, unverified |-> unverified]
NoRow == Copy("none", {}, FALSE)
Off == Copy("off", {}, FALSE)

At(k, status) == task[k].status = status
Goto(k, status) == task' = [task EXCEPT ![k].status = status]

\* update_pending_bundle_status: no row, no effect.
SetStatus(status) == row' = IF row.status = "none" THEN row ELSE [row EXCEPT !.status = status]

\* can_transition_to; a handler that tries anything else ends with an error.
CanTransition(from, to) ==
  <<from, to>> \in
    { <<"Init", "LiquidityLocked">>,
      <<"LiquidityLocked", "FeePayerQueued">>, <<"LiquidityLocked", "SourceQueued">>,
      <<"FeePayerQueued", "FeePayerCompleted">>, <<"FeePayerQueued", "Failed">>,
      <<"FeePayerCompleted", "SourceQueued">>,
      <<"SourceQueued", "SourceConfirmed">>, <<"SourceQueued", "SourceFailures">>,
      <<"SourceConfirmed", "DestinationQueued">>,
      <<"SourceFailures", "RefundsScheduled">>, <<"SourceFailures", "Failed">>,
      <<"DestinationQueued", "DestinationConfirmed">>, <<"DestinationQueued", "DestinationFailures">>,
      <<"DestinationFailures", "RefundsScheduled">>, <<"DestinationFailures", "Failed">>,
      <<"DestinationConfirmed", "SettlementsQueued">>, <<"DestinationConfirmed", "Done">>,
      <<"SettlementsQueued", "SettlementsProcessing">>, <<"SettlementsQueued", "Failed">>,
      <<"SettlementsProcessing", "SettlementCompletionQueued">>, <<"SettlementsProcessing", "Done">>,
      <<"SettlementCompletionQueued", "Done">>, <<"SettlementCompletionQueued", "Failed">>,
      <<"RefundsScheduled", "RefundsReady">>, <<"RefundsReady", "RefundsQueued">>,
      <<"RefundsQueued", "Done">>, <<"RefundsQueued", "Failed">> }

\* update_bundle_status: the row and the task's copy.
UpdateBundleStatus(k, status) ==
  CanTransition(task[k].status, status) /\ SetStatus(status) /\ Goto(k, status)

\* queue_and_send_bundle_transactions: the task's copy with the new transactions
\* replaces the row, or makes a new one, in the transaction that queues them.
QueueAndSend(k, ts, status, copy) ==
  /\ CanTransition(task[k].status, status)
  /\ row' = [copy EXCEPT !.status = status]
  /\ tx' = [t \in Txs |-> IF t \in ts THEN "queued" ELSE tx[t]]

Spawn(copy) ==
  /\ started < MaxTasks
  /\ started' = started + 1
  /\ task' = [task EXCEPT ![started + 1] = copy]

\* The state after send_bundle.
Init ==
  /\ bundle \in [fee : BOOLEAN, src : SUBSET Src, settler : {"simple", "layerzero"}]
  /\ bundle.fee \/ bundle.src # {}
  /\ row = Copy("Init", {}, FALSE)
  /\ finished = "none" /\ scheduled = FALSE
  /\ tx = [t \in Txs |-> "none"]
  /\ task = [k \in Tasks |-> IF k = 1 THEN Copy("Init", {}, FALSE) ELSE Off]
  /\ started = 1 /\ died = FALSE
  /\ marked = NoRow /\ booting = FALSE
  /\ locks = 0 /\ unlocks = 0 /\ packet = [s \in Src |-> "pending"]
  /\ restarts = 0

\* A queued transaction ends.
TxEnds(t, outcome) ==
  /\ tx[t] = "queued"
  /\ outcome = "ok" => CanSucceed(t)
  /\ tx' = [tx EXCEPT ![t] = outcome]
  /\ UNCHANGED <<bundle, row, finished, scheduled, taskVars, moneyVars, procVars>>

(***************************************************************************)
(* Handlers up to the destination                                          *)
(***************************************************************************)

OnInit(k) ==
  /\ At(k, "Init")
  /\ UpdateBundleStatus(k, "LiquidityLocked")
  /\ locks' = locks + 1
  /\ UNCHANGED <<bundle, finished, scheduled, tx, started, died, unlocks, packet, procVars>>

OnLiquidityLocked(k) ==
  LET status == IF bundle.fee THEN "FeePayerQueued" ELSE "SourceQueued"
  IN  /\ At(k, "LiquidityLocked")
      /\ QueueAndSend(k, IF bundle.fee THEN FeeTxs ELSE SrcTxs, status, task[k])
      /\ Goto(k, status)
      /\ UNCHANGED <<bundle, finished, scheduled, started, died, moneyVars, procVars>>

\* Mutant of WatchPrerequisiteIntents: success unlocks as well.
WatchUnlocksAlways(k, ts, success, failure) ==
  /\ Final(ts)
  /\ UpdateBundleStatus(k, IF AllOk(ts) THEN success ELSE failure)
  /\ unlocks' = unlocks + 1
  /\ UNCHANGED <<bundle, finished, scheduled, tx, started, died, locks, packet, procVars>>

\* Success is only noted in the task; a failure is recorded together with the
\* unlock.
WatchPrerequisiteIntents(k, ts, success, failure) ==
  /\ Final(ts)
  /\ \/ /\ AllOk(ts)
        /\ Goto(k, success) /\ UNCHANGED <<row, unlocks>>
     \/ /\ ~AllOk(ts)
        /\ UpdateBundleStatus(k, failure) /\ unlocks' = unlocks + 1
  /\ UNCHANGED <<bundle, finished, scheduled, tx, started, died, locks, packet, procVars>>

OnFeePayerQueued(k) ==
  At(k, "FeePayerQueued") /\ WatchPrerequisiteIntents(k, FeeTxs, "FeePayerCompleted", "Failed")

OnFeePayerCompleted(k) ==
  /\ At(k, "FeePayerCompleted")
  /\ QueueAndSend(k, SrcTxs, "SourceQueued", task[k])
  /\ Goto(k, "SourceQueued")
  /\ UNCHANGED <<bundle, finished, scheduled, started, died, moneyVars, procVars>>

OnSourceQueued(k) ==
  At(k, "SourceQueued") /\ WatchPrerequisiteIntents(k, SrcTxs, "SourceConfirmed", "SourceFailures")

OnSourceConfirmed(k) ==
  /\ At(k, "SourceConfirmed")
  /\ QueueAndSend(k, {DstTx}, "DestinationQueued", task[k])
  /\ Goto(k, "DestinationQueued")
  /\ UNCHANGED <<bundle, finished, scheduled, started, died, moneyVars, procVars>>

\* process_destination_transactions: one failure is enough.
DestinationOutcome == IF AllOk({DstTx}) THEN "DestinationConfirmed" ELSE "DestinationFailures"

\* The new status and the unlock, with the receipts of what succeeded, are one
\* SQL transaction.
OnDestinationQueued(k) ==
  /\ At(k, "DestinationQueued") /\ Final({DstTx})
  /\ UpdateBundleStatus(k, DestinationOutcome)
  /\ unlocks' = unlocks + 1
  /\ UNCHANGED <<bundle, finished, scheduled, tx, started, died, locks, packet, procVars>>

(***************************************************************************)
(* Refunds                                                                 *)
(***************************************************************************)

\* get_confirmed_escrows asks for confirmed transactions, whatever the intent did.
ConfirmedEscrows == {s \in bundle.src : Confirmed(SrcTx(s))}

\* Mutant of ScheduleRefunds: the bundle waits, but no refund is scheduled.
ScheduleNothing(k) ==
  IF ConfirmedEscrows = {}
  THEN UpdateBundleStatus(k, "Failed") /\ UNCHANGED scheduled
  ELSE UpdateBundleStatus(k, "RefundsScheduled") /\ UNCHANGED scheduled

\* schedule_refunds, and the callers' answer to "no escrows".
ScheduleRefunds(k) ==
  IF ConfirmedEscrows = {}
  THEN UpdateBundleStatus(k, "Failed") /\ UNCHANGED scheduled
  ELSE UpdateBundleStatus(k, "RefundsScheduled") /\ scheduled' = TRUE

OnFailures(k) ==
  /\ At(k, "SourceFailures") \/ At(k, "DestinationFailures")
  /\ ScheduleRefunds(k)
  /\ UNCHANGED <<bundle, finished, tx, started, died, moneyVars, procVars>>

\* The task ends; the refund monitor will go on.
OnRefundsScheduled(k) ==
  /\ At(k, "RefundsScheduled")
  /\ task' = [task EXCEPT ![k] = Off]
  /\ UNCHANGED <<bundle, row, finished, scheduled, tx, started, died, moneyVars, procVars>>

\* build_missing_refunds: the escrows without a refund that has not failed, as
\* far as the task's copy knows.
NeedRefund(k) ==
  {s \in ConfirmedEscrows : \A t \in task[k].refunds : t[2] = s => tx[t] = "failed"}

OnRefundsReady(k) ==
  LET new == {RefundTx(s, k) : s \in NeedRefund(k)}
  IN  /\ At(k, "RefundsReady")
      /\ QueueAndSend(k, new, "RefundsQueued", [task[k] EXCEPT !.refunds = @ \cup new])
      /\ task' = [task EXCEPT ![k].status = "RefundsQueued", ![k].refunds = new]
      /\ UNCHANGED <<bundle, finished, scheduled, started, died, moneyVars, procVars>>

\* The outcome of the refunds is looked at, but it does not matter.
OnRefundsQueued(k) ==
  /\ At(k, "RefundsQueued") /\ Final(task[k].refunds)
  /\ UpdateBundleStatus(k, "Failed")
  /\ UNCHANGED <<bundle, finished, scheduled, tx, started, died, moneyVars, procVars>>

(***************************************************************************)
(* Settlement and end                                                      *)
(***************************************************************************)

OnDestinationConfirmed(k) ==
  /\ At(k, "DestinationConfirmed")
  /\ \/ bundle.src = {} /\ UpdateBundleStatus(k, "Done") /\ UNCHANGED tx
     \/ /\ bundle.src # {}
        /\ QueueAndSend(k, SettleTxs, "SettlementsQueued", task[k])
        /\ Goto(k, "SettlementsQueued")
  /\ UNCHANGED <<bundle, finished, scheduled, started, died, moneyVars, procVars>>

\* monitor_bundle_transactions takes a confirmed transaction for a success.
OnSettlementsQueued(k) ==
  /\ At(k, "SettlementsQueued") /\ Final(SettleTxs)
  /\ UpdateBundleStatus(k,
       IF \A t \in SettleTxs : Confirmed(t) THEN "SettlementsProcessing" ELSE "Failed")
  /\ UNCHANGED <<bundle, finished, scheduled, tx, started, died, moneyVars, procVars>>

\* extract_packet_infos: one message per source chain, if the send succeeded.
Packets == IF SettleTxs # {} /\ AllOk(SettleTxs) THEN bundle.src ELSE {}

\* "gone": verified, but not available when it was to be handed to the pool.
\* "answered": the pool's answer was Ok, but the batch had reverted, or its call of
\* settle, which is allowed to fail, had failed.  "released": the escrow's money came.
PacketFates == {"pending", "gone", "answered", "released"}

\* A message is handed over if it is available, whether its verification was
\* awaited in time or not; what is delivered is not available any more.
Fates(s, verified) ==
  IF packet[s] = "released" THEN {"released"}
  ELSE {"answered", "released", IF verified THEN "gone" ELSE packet[s]}

\* build_execute_receive_transactions of the LayerZero settler.
Deliveries(verified) ==
  {f \in [Src -> PacketFates] :
     \A s \in Src : f[s] \in IF s \in Packets THEN Fates(s, s \in verified) ELSE {packet[s]}}

\* Mutant of OnSettlementsProcessing: the packets that were not verified are kept
\* in the task only.
ProcessingKeepsFailures(k, failed) ==
  /\ At(k, "SettlementsProcessing") /\ failed \subseteq Packets
  /\ packet' \in Deliveries(Packets \ failed)
  /\ QueueAndSend(k, RecvTxs, "SettlementCompletionQueued", task[k])
  /\ task' = [task EXCEPT ![k].status = "SettlementCompletionQueued", ![k].unverified = (failed # {})]
  /\ UNCHANGED <<bundle, finished, scheduled, started, died, locks, unlocks, procVars>>

\* Wait for the messages of a successful send, as long as the timeout allows; the
\* pool delivers before the transactions of the simple settler, if any, are queued.
OnSettlementsProcessing(k, failed) ==
  /\ At(k, "SettlementsProcessing") /\ failed \subseteq Packets
  /\ packet' \in Deliveries(Packets \ failed)
  /\ QueueAndSend(k, RecvTxs, "SettlementCompletionQueued", [task[k] EXCEPT !.unverified = (failed # {})])
  /\ task' = [task EXCEPT ![k].status = "SettlementCompletionQueued", ![k].unverified = (failed # {})]
  /\ UNCHANGED <<bundle, finished, scheduled, started, died, locks, unlocks, procVars>>

OnSettlementCompletionQueued(k) ==
  /\ At(k, "SettlementCompletionQueued") /\ Final(RecvTxs)
  /\ UpdateBundleStatus(k,
       IF ~task[k].unverified /\ \A t \in RecvTxs : Confirmed(t) THEN "Done" ELSE "Failed")
  /\ UNCHANGED <<bundle, finished, scheduled, tx, started, died, moneyVars, procVars>>

\* move_bundle_to_finished moves the row as it is; without a row, or with one in
\* finished_bundles already, it is an error and nothing changes.
OnEnd(k) ==
  /\ At(k, "Done") \/ At(k, "Failed")
  /\ task' = [task EXCEPT ![k] = Off]
  /\ \/ /\ row.status # "none" /\ finished = "none"
        /\ finished' = row.status /\ row' = NoRow /\ UNCHANGED died
     \/ /\ row.status = "none" \/ finished # "none"
        /\ died' = TRUE /\ UNCHANGED <<row, finished>>
  /\ UNCHANGED <<bundle, scheduled, tx, started, moneyVars, procVars>>

\* A call of the handler returns an error: no liquidity, a status that cannot be
\* waited for, a failing node or database, an error for one message while the
\* pool delivers others.  The row stays as it is.
TaskFails(k) ==
  /\ task[k].status \notin {"off", "RefundsScheduled"}
  /\ task' = [task EXCEPT ![k] = Off]
  /\ died' = TRUE
  /\ \/ UNCHANGED packet
     \/ /\ At(k, "SettlementsProcessing")
        /\ \E verified \in SUBSET Packets : packet' \in Deliveries(verified)
  /\ UNCHANGED <<bundle, row, finished, scheduled, tx, started, locks, unlocks, procVars>>

(***************************************************************************)
(* Refund monitor, crash and restart                                       *)
(***************************************************************************)

\* The refund time has passed: resume_bundle_for_refund reads the bundle and
\* marks it.
MarkRefundReady ==
  /\ scheduled /\ row.status # "none" /\ marked = NoRow
  /\ SetStatus("RefundsReady")
  /\ scheduled' = FALSE
  /\ marked' = [row EXCEPT !.status = "RefundsReady"]
  /\ UNCHANGED <<bundle, finished, tx, taskVars, moneyVars, booting, restarts>>

\* It hands the bundle over to the service.
ResumeForRefund ==
  /\ marked # NoRow
  /\ Spawn(marked)
  /\ marked' = NoRow
  /\ UNCHANGED <<bundle, row, finished, scheduled, tx, died, moneyVars, booting, restarts>>

Restart ==
  /\ restarts < MaxRestarts
  /\ restarts' = restarts + 1
  /\ task' = [k \in Tasks |-> Off]
  /\ died' = FALSE /\ marked' = NoRow /\ booting' = TRUE
  /\ UNCHANGED <<bundle, row, finished, scheduled, tx, started, moneyVars>>

\* InteropService::new has spawned the monitor and then loads the bundles, except
\* for those with scheduled refunds.
LoadPendingBundles ==
  /\ booting
  /\ booting' = FALSE
  /\ \/ row.status \notin {"none", "RefundsScheduled"} /\ Spawn(row)
     \/ row.status \in {"none", "RefundsScheduled"} /\ UNCHANGED <<task, started>>
  /\ UNCHANGED <<bundle, row, finished, scheduled, tx, died, moneyVars, marked, restarts>>

Step(k) ==
  \/ OnInit(k) \/ OnLiquidityLocked(k) \/ OnFeePayerQueued(k) \/ OnFeePayerCompleted(k)
  \/ OnSourceQueued(k) \/ OnSourceConfirmed(k) \/ OnDestinationQueued(k)
  \/ OnFailures(k) \/ OnRefundsScheduled(k) \/ OnRefundsReady(k) \/ OnRefundsQueued(k)
  \/ OnDestinationConfirmed(k) \/ OnSettlementsQueued(k)
  \/ \E failed \in SUBSET Src : OnSettlementsProcessing(k, failed)
  \/ OnSettlementCompletionQueued(k) \/ OnEnd(k)

Next ==
  \/ \E t \in Txs, outcome \in Outcomes : TxEnds(t, outcome)
  \/ \E k \in Tasks : Step(k) \/ TaskFails(k)
  \/ MarkRefundReady \/ ResumeForRefund
  \/ Restart \/ LoadPendingBundles

\* Tasks go on, transactions end, refund times pass, a starting process loads.
Fairness ==
  /\ \A k \in Tasks : WF_vars(Step(k))
  /\ \A t \in Txs : WF_vars(\E outcome \in Outcomes : TxEnds(t, outcome))
  /\ WF_vars(MarkRefundReady) /\ WF_vars(ResumeForRefund) /\ WF_vars(LoadPendingBundles)

Spec == Init /\ [][Next]_vars
FairSpec == Spec /\ Fairness

(***************************************************************************)
(* Properties                                                              *)
(***************************************************************************)

\* The relay pays only what it gets back: the destination transaction is queued
\* only when the fee payer and all sources succeeded, although that success is
\* never written to the row.
PaysOnlyAfterSources == tx[DstTx] # "none" => AllOk(FeeTxs \cup SrcTxs)

\* While the destination transaction may still spend, its liquidity is locked.
LockedWhileSpending == tx[DstTx] = "queued" => locks = 1 /\ unlocks = 0

\* Liquidity is locked at most once and given back exactly once by the time the
\* bundle is finished.
LiquidityBalanced ==
  /\ locks <= 1 /\ unlocks <= locks
  /\ finished # "none" => unlocks = locks

\* The relay pays only after it was paid and from liquidity that is locked, and gives
\* the lock back once, whatever task of the bundle does it.
PayoutSafe == PaysOnlyAfterSources /\ LockedWhileSpending /\ LiquidityBalanced

\* The user is not both paid and refunded.
NoRefundAfterPayout ==
  (\E t \in RefundTxs : tx[t] # "none") => tx[DstTx] # "ok" /\ \A s \in Src : tx[RecvTx(s)] = "none"

\* A bundle that ended without paying the user has tried to refund every escrow
\* that holds money.
EscrowsRefunded ==
  finished # "none" /\ tx[DstTx] # "ok" =>
    \A s \in bundle.src : tx[SrcTx(s)] = "ok" => \E k \in Tasks : tx[RefundTx(s, k)] # "none"

\* A bundle reported as done paid the user, its settlement transactions were
\* confirmed, and none of its LayerZero messages was left behind: each was handed to
\* the pool and answered, or was verified and gone by then.  Whether an escrow's
\* money came is looked at by nobody.
DoneMeansAnswered ==
  finished = "Done" =>
    /\ tx[DstTx] = "ok"
    /\ bundle.src # {} => \A t \in SettleTxs \cup RecvTxs : Confirmed(t)
    /\ \A s \in Packets : packet[s] # "pending"

\* A finished bundle is what it says: the user was paid, or a refund was tried for
\* every escrow with money, never both, and done means that settlement was answered.
OutcomeTrue == NoRefundAfterPayout /\ EscrowsRefunded /\ DoneMeansAnswered

\* Every bundle is finished, unless an error ended its task and nobody restarted
\* the process.
BundleEnds == <>(finished # "none" \/ died)

(***************************************************************************)
(* The inductive invariant behind the theorems in InteropBundleProofs.     *)
(* Until refunds are scheduled one task at most works on the bundle, and   *)
(* what has happened can be read from its status; afterwards several may,  *)
(* but none of them can pay any more.                                      *)
(***************************************************************************)

RefundStatuses == {"RefundsScheduled", "RefundsReady", "RefundsQueued"}
BeforeSources == {"Init", "LiquidityLocked", "FeePayerQueued", "FeePayerCompleted"}
BeforePayout == BeforeSources \cup {"SourceQueued", "SourceConfirmed", "SourceFailures"}
Paid ==
  {"DestinationConfirmed", "SettlementsQueued", "SettlementsProcessing", "SettlementCompletionQueued", "Done"}
HoldsLock ==
  (BeforePayout \ {"Init", "SourceFailures"}) \cup {"DestinationQueued"}

LateTxs == {SettleTx} \cup {RecvTx(s) : s \in Src}
None(ts) == \A t \in ts : tx[t] = "none"
Copies == [status : Statuses \cup {"none", "off"}, refunds : SUBSET RefundTxs, unverified : BOOLEAN]

TypeOK ==
  /\ bundle \in [fee : BOOLEAN, src : SUBSET Src, settler : {"simple", "layerzero"}]
  /\ row \in Copies /\ row.status # "off" /\ marked \in Copies /\ task \in [Tasks -> Copies]
  /\ finished \in Statuses \cup {"none"} /\ tx \in [Txs -> TxStates]
  /\ {scheduled, booting, died} \subseteq BOOLEAN /\ packet \in [Src -> PacketFates]
  /\ {started, restarts, locks, unlocks} \subseteq Nat

\* no LayerZero message that was sent is pending
SettledAll == \A s \in Packets : packet[s] # "pending"

\* what has happened to a bundle whose status, before any refund, is that of the copy
Reached(c) ==
  /\ c.status \in BeforeSources => None(SrcTxs)
  /\ c.status \in BeforePayout => None({DstTx} \cup LateTxs)
  /\ c.status = "Init" => locks = 0 /\ unlocks = 0
  /\ c.status \in HoldsLock => locks = 1 /\ unlocks = 0
  /\ c.status \notin HoldsLock \cup {"Init"} => locks = 1 /\ unlocks = 1 /\ tx[DstTx] # "queued"
  /\ c.status \in {"FeePayerCompleted", "SourceQueued", "SourceConfirmed"} => AllOk(FeeTxs)
  /\ c.status = "SourceConfirmed" => AllOk(SrcTxs)
  /\ c.status = "SourceFailures" => Final(SrcTxs)
  /\ c.status \in {"DestinationQueued", "DestinationFailures", "DestinationConfirmed"} => None(LateTxs)
  /\ c.status \in {"DestinationQueued", "DestinationFailures"} => tx[DstTx] # "none"
  /\ c.status = "DestinationFailures" => tx[DstTx] # "ok"
  /\ c.status \in Paid => tx[DstTx] = "ok"
  /\ c.status \in Paid \ {"DestinationConfirmed", "Done"} => bundle.src # {}
  /\ c.status \in {"SettlementsQueued", "SettlementsProcessing"} => \A s \in Src : tx[RecvTx(s)] = "none"
  /\ c.status \in {"SettlementsProcessing", "SettlementCompletionQueued"} => \A t \in SettleTxs : Confirmed(t)
  /\ c.status = "SettlementCompletionQueued" /\ ~c.unverified => SettledAll
  /\ c.status = "Done" /\ bundle.src # {} => SettledAll /\ \A t \in SettleTxs \cup RecvTxs : Confirmed(t)
  /\ c.status = "Failed" =>
       tx[DstTx] = "ok" \/ \A s \in bundle.src : tx[SrcTx(s)] \in {"none", "failed"}

\* a success is noted in the task before the row tells of it
Ahead == {<<"FeePayerCompleted", "FeePayerQueued">>, <<"SourceConfirmed", "SourceQueued">>}

Live(k) == task[k].status # "off"

OneTask ==
  /\ ~scheduled /\ marked = NoRow /\ None(RefundTxs) /\ row.refunds = {}
  /\ \A j, k \in Tasks : Live(j) /\ Live(k) => j = k
  /\ booting => \A k \in Tasks : ~Live(k)
  /\ row.status # "none" => finished = "none" /\ row.status \notin RefundStatuses /\ Reached(row)
  /\ row.status = "none" =>
       /\ \A k \in Tasks : ~Live(k)
       /\ finished \in {"Done", "Failed"} /\ Reached(Copy(finished, {}, FALSE))
  /\ \A k \in Tasks : Live(k) =>
       /\ task[k].status \in Statuses \ RefundStatuses /\ Reached(task[k])
       /\ task[k].status = row.status \/ <<task[k].status, row.status>> \in Ahead
       /\ task[k].refunds = {} /\ task[k].unverified = row.unverified

\* every escrow that may hold money has a refund
RefundsTried == \A s \in ConfirmedEscrows : \E k \in Tasks : tx[RefundTx(s, k)] # "none"

Begun == {t \in RefundTxs : tx[t] # "none"}

Refunding ==
  /\ tx[DstTx] \in {"none", "reverted", "failed"} /\ None(LateTxs) /\ Final(SrcTxs)
  /\ locks = 1 /\ unlocks = 1
  /\ row.status \in {"none", "Failed"} \cup RefundStatuses
  /\ finished \in {"none", "Failed"} \cup RefundStatuses
  /\ marked = NoRow \/ marked.status = "RefundsReady"
  /\ \A k \in Tasks : task[k].status \in {"off", "Failed"} \cup RefundStatuses
  /\ row.refunds \cup marked.refunds \subseteq Begun
  /\ \A k \in Tasks : Live(k) => task[k].refunds \subseteq Begun
  /\ \/ row.status \in {"RefundsQueued", "Failed"} \/ finished # "none"
     \/ \E k \in Tasks : task[k].status \in {"RefundsQueued", "Failed"}
     => RefundsTried

IInv == TypeOK /\ PaysOnlyAfterSources /\ (OneTask \/ Refunding)
=============================================================================
