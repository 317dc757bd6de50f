-------------------------- MODULE TransactionService --------------------------
(***************************************************************************)
(* The transaction service of one chain (transactions/service.rs), the     *)
(* storage rows of its transactions (storage/pg.rs) and the tasks of its   *)
(* signers, down to the storage writes of a task (transactions/signer.rs;  *)
(* nonces and envelopes are the subject of module Signer).  The process    *)
(* may crash between any two storage writes and restarts from the rows.    *)
(*                                                                         *)
(* The service handles one event or command per step.  Events and          *)
(* commands come from other tasks and may arrive between any two of them,  *)
(* so their relative order in one poll is not fixed.                       *)
(***************************************************************************)
EXTENDS Integers, Sequences, FiniteSets

CONSTANTS
  Tx, Eoa, NoEoa, EoaOf, MaxQueuedPerEoa,   \* see TxQueue
  Unrecorded,       \* transactions sent with send_transaction_no_queue and no row
  Awaited,          \* transactions somebody calls wait_for_tx for
  Signers,
  NoSigner,
  MaxPerSigner,     \* config.max_transactions_per_signer
  MaxPending,       \* config.max_pending_transactions
  MaxCrashes        \* bound on the restarts of a behaviour

ASSUME UnrecordedAssumption ==
  /\ Awaited \subseteq Tx
  /\ Unrecorded \subseteq {t \in Tx : EoaOf[t] = NoEoa}
ASSUME QueueAssumption ==
  /\ NoEoa \notin Eoa /\ EoaOf \in [Tx -> Eoa \cup {NoEoa}] /\ MaxQueuedPerEoa \in Nat
  /\ NoSigner \notin Signers
ASSUME LimitsAssumption == {MaxPerSigner, MaxPending, MaxCrashes} \subseteq Nat

VARIABLES
  \* the queue, and its history (module TxQueue)
  eoa_to_pending, pending_to_eoa, ready, ready_per_eoa, blocked,
  phase, loaded, accepted, sent, seen,
  \* storage
  queued_txs,       \* rows of queued_txs, in the order of their id
  pending_txs,      \* sender of a transaction's row in pending_txs, or NoSigner
  status,           \* status column of txs; "none" when there is no row
  \* memory of the process
  boot,             \* what TransactionService::new has still to load
  commands,         \* command channel of the service
  events,           \* from_signers: <<transaction, status>>
  subscriptions,    \* transactions with a status channel
  task,             \* where the task that handles a transaction is
  signerOf,         \* the signer that task belongs to
  \* callers
  client,           \* progress of send_transaction
  waiter,           \* progress of wait_for_tx
  mailbox,          \* final status in the waiter's receiver, or "none"
  crashes,          \* restarts so far
  lost              \* transactions a crash took while they had no row (see Crash)

queueVars == <<eoa_to_pending, pending_to_eoa, ready, ready_per_eoa, blocked,
               phase, loaded, accepted, sent, seen>>
rowVars == <<queued_txs, pending_txs, status>>
serviceVars == <<boot, commands, events, subscriptions>>
taskVars == <<task, signerOf>>
callerVars == <<client, waiter, mailbox>>
vars == <<queueVars, rowVars, serviceVars, taskVars, callerVars, crashes, lost>>

Q == INSTANCE TxQueue

FinalStatus == {"confirmed", "failed"}

NothingToLoad == [pending |-> {}, queued |-> <<>>]

Running == boot = NothingToLoad

\* delete ... where tx_id = tx; the column is unique
RemoveRow(rows, tx) ==
  LET at(i) == rows[i] = tx
      row == CHOOSE i \in 1..Len(rows) : at(i)
  IN  IF \E i \in 1..Len(rows) : at(i)
      THEN [i \in 1..Len(rows) - 1 |-> rows[IF i < row THEN i ELSE i + 1]] ELSE rows

\* A status write touches only an existing row of txs.
WriteStatus(tx, st) ==
  status' = [status EXCEPT ![tx] = IF @ = "none" THEN @ ELSE st]

\* Mutant of UpdateTxStatus: the row is not written.
UpdateTxStatusEventOnly(tx, st) ==
  /\ UNCHANGED status
  /\ events' = Append(events, <<tx, st>>)

\* update_tx_status: the row first, then the event.
UpdateTxStatus(tx, st) ==
  /\ WriteStatus(tx, st)
  /\ events' = Append(events, <<tx, st>>)

Init ==
  /\ Q!Init
  /\ queued_txs = <<>>
  /\ pending_txs = [t \in Tx |-> NoSigner]
  /\ status = [t \in Tx |-> "none"]
  /\ boot = NothingToLoad
  /\ commands = <<>>
  /\ events = <<>>
  /\ subscriptions = {}
  /\ task = [t \in Tx |-> "none"]
  /\ signerOf = [t \in Tx |-> NoSigner]
  /\ client = [t \in Tx |-> "new"]
  /\ waiter = [t \in Tx |-> "idle"]
  /\ mailbox = [t \in Tx |-> "none"]
  /\ crashes = 0
  /\ lost = {}

(***************************************************************************)
(* Callers                                                                 *)
(***************************************************************************)

\* send_transaction, up to its await on the storage
QueueTransaction(tx) ==
  /\ Running
  /\ client[tx] = "new" /\ tx \notin Unrecorded
  /\ client' = [client EXCEPT ![tx] = "stored"]
  /\ queued_txs' = Append(queued_txs, tx)
  /\ status' = [status EXCEPT ![tx] = "inflight"]
  /\ UNCHANGED <<queueVars, pending_txs, serviceVars, taskVars, waiter, mailbox, crashes, lost>>

\* send_transaction_no_queue
SendTransactionNoQueue(tx) ==
  /\ Running
  /\ client[tx] = "stored" \/ (client[tx] = "new" /\ tx \in Unrecorded)
  /\ client' = [client EXCEPT ![tx] = "sent"]
  /\ commands' = Append(commands, <<"send", tx>>)
  /\ UNCHANGED <<queueVars, rowVars, boot, events, subscriptions, taskVars, waiter,
                 mailbox, crashes, lost>>

\* wait_for_tx asks for the status channel
Subscribe(tx) ==
  /\ Running
  /\ tx \in Awaited /\ client[tx] = "sent" /\ waiter[tx] = "idle"
  /\ waiter' = [waiter EXCEPT ![tx] = "subscribing"]
  /\ commands' = Append(commands, <<"subscribe", tx>>)
  /\ UNCHANGED <<queueVars, rowVars, boot, events, subscriptions, taskVars, client,
                 mailbox, crashes, lost>>

\* wait_for_tx reads the stored status after the service answered, and either
\* returns it, waits on the channel, or gives up when there is none
ReadStatus(tx) ==
  /\ waiter[tx] \in {"subscribed", "unsubscribed"}
  /\ waiter' = [waiter EXCEPT ![tx] =
        CASE status[tx] \in FinalStatus -> "ok"
          [] status[tx] \notin FinalStatus /\ @ = "subscribed" -> "waiting"
          [] OTHER -> "error"]
  /\ UNCHANGED <<queueVars, rowVars, serviceVars, taskVars, client, mailbox, crashes, lost>>

\* the receiver yields a final status
ReceiveFinal(tx) ==
  /\ waiter[tx] = "waiting" /\ mailbox[tx] \in FinalStatus
  /\ waiter' = [waiter EXCEPT ![tx] = "ok"]
  /\ UNCHANGED <<queueVars, rowVars, serviceVars, taskVars, client, mailbox, crashes, lost>>

(***************************************************************************)
(* The service                                                             *)
(***************************************************************************)

\* TransactionService::send_transaction and push_to_queue: a transaction over the
\* queue's capacity gets a task that fails it
HandleSend(tx) ==
  /\ subscriptions' = subscriptions \cup {tx}
  /\ Q!Push(tx)
  /\ task' = [task EXCEPT ![tx] = IF Q!Overflows(tx) THEN "overflow" ELSE @]
  /\ UNCHANGED <<waiter, mailbox>>

HandleSubscribe(tx) ==
  /\ waiter' = [waiter EXCEPT ![tx] =
        IF tx \in subscriptions THEN "subscribed" ELSE "unsubscribed"]
  /\ mailbox' = [mailbox EXCEPT ![tx] = "none"]
  /\ UNCHANGED <<queueVars, subscriptions, task>>

HandleCommand ==
  /\ Running
  /\ commands # <<>>
  /\ commands' = Tail(commands)
  /\ \/ Head(commands)[1] = "send" /\ HandleSend(Head(commands)[2])
     \/ Head(commands)[1] = "subscribe" /\ HandleSubscribe(Head(commands)[2])
  /\ UNCHANGED <<rowVars, boot, events, signerOf, client, crashes, lost>>

\* Mutant of HandleEvent: every status is treated as a final one.
HandleEventAnyStatus ==
  /\ Running
  /\ events # <<>>
  /\ events' = Tail(events)
  /\ LET tx == Head(events)[1]
     IN  /\ mailbox' = [mailbox EXCEPT ![tx] =
               IF tx \in subscriptions /\ waiter[tx] \in {"subscribed", "waiting"}
               THEN Head(events)[2] ELSE @]
         /\ subscriptions' = subscriptions \ {tx}
         /\ Q!Finish(tx)
  /\ UNCHANGED <<rowVars, boot, commands, taskVars, client, waiter, crashes, lost>>

\* Mutant of HandleEvent: the subscription is removed before the status is sent to it.
HandleEventUnsubscribed ==
  /\ Running
  /\ events # <<>>
  /\ events' = Tail(events)
  /\ LET tx == Head(events)[1]
     IN  IF Head(events)[2] \in FinalStatus
         THEN subscriptions' = subscriptions \ {tx} /\ Q!Finish(tx)
         ELSE UNCHANGED <<subscriptions, queueVars>>
  /\ UNCHANGED <<rowVars, boot, commands, taskVars, callerVars, crashes, lost>>

\* A status event is forwarded to the subscribers; a final one ends the subscription
\* and lets the queue promote the next transaction of the EOA.
HandleEvent ==
  /\ Running
  /\ events # <<>>
  /\ events' = Tail(events)
  /\ LET tx == Head(events)[1]
         st == Head(events)[2]
     IN  /\ mailbox' = [mailbox EXCEPT ![tx] =
               IF tx \in subscriptions /\ st \in FinalStatus
                  /\ waiter[tx] \in {"subscribed", "waiting"} THEN st ELSE @]
         /\ \/ /\ st \in FinalStatus
               /\ subscriptions' = subscriptions \ {tx}
               /\ Q!Finish(tx)
            \/ /\ st \notin FinalStatus
               /\ UNCHANGED <<subscriptions, queueVars>>
  /\ UNCHANGED <<rowVars, boot, commands, taskVars, client, waiter, crashes, lost>>

TasksOf(s) == {t \in Tx : signerOf[t] = s /\ task[t] # "none"}

\* SignerTask::capacity of a signer that is not paused
Capacity(s) ==
  LET n == Cardinality(TasksOf(s)) IN IF n < MaxPerSigner THEN MaxPerSigner - n ELSE 0

\* best_signer_and_tx and SignerTask::push_transaction
Dispatch(s) ==
  /\ Running
  /\ Capacity(s) > 0
  /\ \A r \in Signers : Capacity(r) <= Capacity(s)
  /\ Cardinality(UNION {TasksOf(r) : r \in Signers}) < MaxPending
  /\ Q!Pop
  /\ task' = [task EXCEPT ![Head(ready)] = "start"]
  /\ signerOf' = [signerOf EXCEPT ![Head(ready)] = s]
  /\ UNCHANGED <<rowVars, serviceVars, callerVars, crashes, lost>>

(***************************************************************************)
(* The task of a transaction, one action per storage write                 *)
(***************************************************************************)

TaskStep(tx, from, to) ==
  /\ task[tx] \in from
  /\ task' = [task EXCEPT ![tx] = to]
  /\ UNCHANGED <<queueVars, boot, commands, subscriptions, signerOf, callerVars, crashes, lost>>

TaskEnd(tx, from) ==
  /\ task[tx] \in from
  /\ task' = [task EXCEPT ![tx] = "none"]
  /\ signerOf' = [signerOf EXCEPT ![tx] = NoSigner]
  /\ UNCHANGED <<queueVars, boot, commands, subscriptions, callerVars, crashes, lost>>

\* Mutant of Persist: the pending row is written and the queued one is kept.
PersistKeepingQueued(tx) ==
  /\ TaskStep(tx, {"start"}, "persisted")
  /\ pending_txs' = [pending_txs EXCEPT ![tx] = signerOf[tx]]
  /\ UNCHANGED <<queued_txs, status, events>>

\* replace_queued_tx_with_pending
Persist(tx) ==
  /\ \/ task[tx] = "start" /\ TaskStep(tx, {"start"}, "persisted")
     \/ task[tx] = "resync" /\ TaskStep(tx, {"resync"}, "persisted_again")
  /\ queued_txs' = RemoveRow(queued_txs, tx)
  /\ pending_txs' = [pending_txs EXCEPT ![tx] = signerOf[tx]]
  /\ UNCHANGED <<status, events>>

\* the node says the nonce is used: the row is dropped and the task tries once more
Resync(tx) ==
  /\ TaskStep(tx, {"persisted"}, "resync")
  /\ pending_txs' = [pending_txs EXCEPT ![tx] = NoSigner]
  /\ UNCHANGED <<queued_txs, status, events>>

\* sent, or the node did not answer
Broadcast(tx) ==
  /\ TaskStep(tx, {"persisted", "persisted_again"}, "watching")
  /\ UpdateTxStatus(tx, "pending")
  /\ UNCHANGED <<queued_txs, pending_txs>>

\* on_confirmed_transaction, its first write
Confirm(tx) ==
  /\ TaskStep(tx, {"watching"}, "confirmed")
  /\ UpdateTxStatus(tx, "confirmed")
  /\ UNCHANGED <<queued_txs, pending_txs>>

\* on_confirmed_transaction, its second write
RemovePending(tx) ==
  /\ TaskEnd(tx, {"confirmed"})
  /\ pending_txs' = [pending_txs EXCEPT ![tx] = NoSigner]
  /\ UNCHANGED <<queued_txs, status, events>>

\* Mutant of RemoveRows: only the queued row is removed.
RemoveRowsQueuedOnly(tx) ==
  /\ TaskStep(tx, {"start", "persisted", "resync", "persisted_again", "watching"}, "failed")
  /\ queued_txs' = RemoveRow(queued_txs, tx)
  /\ UNCHANGED <<pending_txs, status, events>>

\* on_failed_transaction removes the rows: no fees, a simulation that reverts, a signature
\* or a send that fails, also after a resync, or a watched transaction whose nonce was
\* filled by another and no receipt was found.  The receipt may exist (the node need not
\* answer), so a confirmed transaction that a restart watches again may end here too.
\* One of the two rows is absent, so the two deletes are one step.
RemoveRows(tx) ==
  /\ TaskStep(tx, {"start", "persisted", "resync", "persisted_again", "watching"}, "failed")
  /\ queued_txs' = RemoveRow(queued_txs, tx)
  /\ pending_txs' = [pending_txs EXCEPT ![tx] = NoSigner]
  /\ UNCHANGED <<status, events>>

\* on_failed_transaction writes the status after that
WriteFailed(tx) ==
  /\ TaskEnd(tx, {"failed", "overflow_removed"})
  /\ UpdateTxStatus(tx, "failed")
  /\ UNCHANGED <<queued_txs, pending_txs>>

\* the task push_to_queue spawns for a transaction over the capacity
OverflowRemove(tx) ==
  /\ TaskStep(tx, {"overflow"}, "overflow_removed")
  /\ queued_txs' = RemoveRow(queued_txs, tx)
  /\ UNCHANGED <<pending_txs, status, events>>

Task(tx) ==
  \/ Persist(tx) \/ Resync(tx) \/ Broadcast(tx) \/ Confirm(tx) \/ RemovePending(tx)
  \/ RemoveRows(tx) \/ WriteFailed(tx) \/ OverflowRemove(tx)

(***************************************************************************)
(* Crash and restart                                                       *)
(***************************************************************************)

\* where a task has removed the rows of its transaction and not yet written the next one,
\* or the final status
Rowless == {"resync", "failed", "overflow_removed"}

\* The process dies and TransactionService::new starts.  A caller's call dies with it;
\* what a caller has already learnt is kept.  A transaction without rows is lost.
Crash ==
  /\ crashes < MaxCrashes
  /\ crashes' = crashes + 1
  /\ lost' = lost \cup {t \in Tx : task[t] \in Rowless /\ status[t] \in {"inflight", "pending"}}
  /\ Q!Restart
  /\ boot' = [pending |-> {t \in Tx : pending_txs[t] # NoSigner}, queued |-> queued_txs]
  /\ commands' = <<>>
  /\ events' = <<>>
  /\ subscriptions' = {}
  /\ task' = [t \in Tx |-> "none"]
  /\ signerOf' = [t \in Tx |-> NoSigner]
  /\ client' = [t \in Tx |-> IF client[t] = "stored" THEN "sent" ELSE client[t]]
  /\ waiter' = [t \in Tx |-> IF waiter[t] \in {"ok", "error"} THEN waiter[t] ELSE "idle"]
  /\ mailbox' = [t \in Tx |-> "none"]
  /\ UNCHANGED rowVars

\* create_signer: a loaded transaction is pending in the queue, has a status channel
\* and is watched again
LoadPendingTransaction(tx) ==
  /\ tx \in boot.pending
  /\ boot' = [boot EXCEPT !.pending = @ \ {tx}]
  /\ IF EoaOf[tx] \in Eoa THEN Q!LoadPending(tx) ELSE UNCHANGED queueVars
  /\ subscriptions' = subscriptions \cup {tx}
  /\ task' = [task EXCEPT ![tx] = "watching"]
  /\ signerOf' = [signerOf EXCEPT ![tx] = pending_txs[tx]]
  /\ UNCHANGED <<rowVars, commands, events, callerVars, crashes, lost>>

\* the queued rows are pushed after that, in the order of their ids, with no channel
PushLoaded ==
  /\ boot.pending = {} /\ boot.queued # <<>>
  /\ LET tx == Head(boot.queued)
     IN  /\ Q!Push(tx)
         /\ task' = [task EXCEPT ![tx] = IF Q!Overflows(tx) THEN "overflow" ELSE @]
  /\ boot' = [boot EXCEPT !.queued = Tail(@)]
  /\ UNCHANGED <<rowVars, commands, events, subscriptions, signerOf, callerVars, crashes, lost>>

(***************************************************************************)
(* Specification                                                           *)
(***************************************************************************)

Caller(tx) ==
  \/ QueueTransaction(tx) \/ SendTransactionNoQueue(tx) \/ Subscribe(tx)
  \/ ReadStatus(tx) \/ ReceiveFinal(tx)

Next ==
  \/ \E tx \in Tx : Caller(tx) \/ Task(tx) \/ LoadPendingTransaction(tx)
  \/ \E s \in Signers : Dispatch(s)
  \/ HandleCommand \/ HandleEvent \/ PushLoaded \/ Crash

\* Every task that can run runs: tokio polls each of them, a call of a caller goes on
\* once started, and every watch ends in a receipt or a filled nonce.  A caller need
\* not start, and the process need not crash.
Fairness ==
  /\ WF_vars(HandleCommand) /\ WF_vars(HandleEvent) /\ WF_vars(PushLoaded)
  /\ WF_vars(\E s \in Signers : Dispatch(s))
  /\ \A tx \in Tx :
       /\ WF_vars(Task(tx))
       /\ WF_vars(LoadPendingTransaction(tx))
       /\ WF_vars(SendTransactionNoQueue(tx) /\ client[tx] = "stored")
       /\ WF_vars(ReadStatus(tx))
       /\ WF_vars(ReceiveFinal(tx))

SafetySpec == Init /\ [][Next]_vars

Spec == SafetySpec /\ Fairness

(***************************************************************************)
(* Properties                                                              *)
(***************************************************************************)

TypeOK ==
  /\ Q!TypeOK
  /\ queued_txs \in Seq(Tx)
  /\ pending_txs \in [Tx -> Signers \cup {NoSigner}]
  /\ status \in [Tx -> {"none", "inflight", "pending"} \cup FinalStatus]
  /\ boot \in [pending : SUBSET Tx, queued : Seq(Tx)]
  /\ commands \in Seq({"send", "subscribe"} \X Tx)
  /\ events \in Seq(Tx \X ({"pending"} \cup FinalStatus))
  /\ subscriptions \subseteq Tx
  /\ task \in [Tx -> {"none", "start", "persisted", "resync", "persisted_again",
                      "watching", "confirmed", "failed", "overflow", "overflow_removed"}]
  /\ signerOf \in [Tx -> Signers \cup {NoSigner}]
  /\ client \in [Tx -> {"new", "stored", "sent"}]
  /\ waiter \in [Tx -> {"idle", "subscribing", "subscribed", "unsubscribed", "waiting",
                        "ok", "error"}]
  /\ mailbox \in [Tx -> {"none"} \cup FinalStatus]
  /\ crashes \in 0..MaxCrashes
  /\ lost \subseteq Tx

HasQueuedRow(tx) == \E i \in 1..Len(queued_txs) : queued_txs[i] = tx

\* A transaction has a row in one of queued_txs and pending_txs, never in both: at a
\* restart it would be watched and sent a second time.
RowsExclusive ==
  \A tx \in Tx : HasQueuedRow(tx) => pending_txs[tx] = NoSigner

\* What a restart would send again is not final, across restarts: a failed
\* transaction has no row left, a confirmed one can only be watched once more.
FinalNotResumed ==
  \A tx \in Tx :
    /\ status[tx] \in FinalStatus => ~HasQueuedRow(tx)
    /\ status[tx] = "failed" => pending_txs[tx] = NoSigner

\* Two transactions of an EOA are never handled by signers at once (what the queue is
\* for), while the process does not restart.
OneTaskPerEoa ==
  crashes = 0 => \A t, u \in Tx :
    /\ t # u /\ EoaOf[t] = EoaOf[u] /\ EoaOf[t] \in Eoa
    /\ task[t] \in {"start", "persisted", "resync", "persisted_again", "watching"}
    /\ task[u] \in {"start", "persisted", "resync", "persisted_again", "watching"}
    => FALSE

\* A transaction whose status is not final has a row from which a restart resumes it,
\* unless its task is between two writes without one, or the process died there: after the
\* rows were removed for a failure (signer.rs:342, service.rs:392) or for a second attempt
\* (signer.rs:685).  A crash at any other step loses nothing, and these are lost for good.
TrackedUntilFinal ==
  \A tx \in Tx :
    status[tx] \in {"inflight", "pending"} =>
      \/ HasQueuedRow(tx)
      \/ pending_txs[tx] # NoSigner
      \/ task[tx] \in Rowless
      \/ tx \in lost

\* Across restarts, the rows decide what a restart does with a transaction: one that is
\* not finished is resumed, and once, unless a crash met it in the moment without a row
\* (the stated windows of TrackedUntilFinal); a finished one is not sent again.
RestartsResume == TypeOK /\ TrackedUntilFinal /\ RowsExclusive /\ FinalNotResumed

\* A final status that was reported is not taken back: a failed transaction is never taken
\* up again, over any number of restarts, and a confirmed one stays confirmed in the process
\* that confirmed it.  (Only after a restart can it be watched once more and, when the node
\* does not give its receipt, be marked failed: signer.rs:603.)
FinalStatusStays ==
  [][\A tx \in Tx :
       /\ status[tx] = "failed" => status'[tx] = "failed"
       /\ status[tx] = "confirmed" =>
            status'[tx] = "confirmed" \/ (status'[tx] = "failed" /\ crashes > 0)]_vars

\* A caller that waits for a recorded transaction it has sent learns its final status
\* from wait_for_tx, however the subscription races with the final event: the status
\* is written before the event, and read after the subscription.
WaiterNeverFails ==
  crashes = 0 => \A tx \in Tx \ Unrecorded : waiter[tx] # "error"

\* ... and what it learns is what is stored.
WaiterLearnsStored ==
  \A tx \in Tx \ Unrecorded : waiter[tx] = "ok" => status[tx] \in FinalStatus

\* A wait tells the caller the truth, however it races with the final event.
WaiterInformed == WaiterNeverFails /\ WaiterLearnsStored

\* Every wait_for_tx returns.
WaitReturns ==
  \A tx \in Tx : (waiter[tx] = "subscribing") ~> (waiter[tx] \in {"ok", "error", "idle"})

\* Every recorded transaction reaches a final status.
EventuallyFinal ==
  \A tx \in Tx : (status[tx] = "inflight") ~> (status[tx] \in FinalStatus)

\* With every limit at one, nothing waits for ever: transactions end and waits return.
ServiceProgresses == WaitReturns /\ EventuallyFinal
===============================================================================
