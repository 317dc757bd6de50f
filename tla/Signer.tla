-------------------------------- MODULE Signer --------------------------------
(***************************************************************************)
(* One signer of the transaction service (transactions/signer.rs): how it  *)
(* gives nonces to transactions, persists, sends, watches and replaces     *)
(* their envelopes, and closes the nonce gaps left by those that fail.     *)
(*                                                                         *)
(* An envelope is a signed transaction: its owner, its nonce and how often *)
(* its fees were bumped.  The node is external: it includes any envelope   *)
(* of its pool whose nonce is the next one, also one that was replaced     *)
(* (another node may not have seen the replacement).  Storage always       *)
(* answers; the two writes of on_confirmed_transaction, and those of       *)
(* on_failed_transaction, are one step here (a crash between them is       *)
(* modelled in TransactionService).                                        *)
(***************************************************************************)
EXTENDS Integers, Sequences, FiniteSets

CONSTANTS
  Tx,            \* transactions the service hands to this signer
  Gap,           \* owner of an envelope that closes a nonce gap
  External,      \* owner of an envelope sent by another user of the key
  Pull,          \* owner of the pull gas envelope
  Silent,        \* calls the node may leave without an answer
  PullGas,       \* whether the balance check pulls gas once
  MaxBump,       \* bound on the replacements of a transaction
  MaxExternal,   \* bound on the external envelopes
  MaxCrashes     \* bound on the restarts

ASSUME OwnersAssumption ==
  /\ Gap \notin Tx /\ External \notin Tx /\ Pull \notin Tx
  /\ Gap # External /\ Gap # Pull /\ External # Pull
ASSUME SignerBoundsAssumption ==
  /\ {MaxBump, MaxExternal, MaxCrashes} \subseteq Nat
  /\ PullGas \in BOOLEAN
  /\ Silent \subseteq {"send", "replace", "receipt", "resume"}

VARIABLES
  \* the node
  mined,         \* envelopes of the account on chain; mined[n + 1] has nonce n
  pool,          \* envelopes the network may still include
  external,      \* external envelopes sent so far
  \* the signer
  boot,          \* "up", or how far Signer::new and into_future have come
  nonce,         \* the local nonce: the next one to give out
  gaps,          \* nonces that startup tasks close
  pc,            \* where the task of a transaction is
  txNonce,       \* the nonce that task holds
  sent,          \* PendingTransaction::sent, in memory
  resynced,      \* send_and_watch_transaction has resynced once
  pull,          \* where the pull gas transaction is
  pullNonce,     \* its nonce
  \* storage
  queued,        \* transactions with a queued row
  rows,          \* envelopes of a transaction's pending row; {} when it has none
  pullRow,       \* the pull gas row is in state Pending
  status,        \* "open", "confirmed" or "failed"
  crashes

chainVars == <<mined, pool, external>>
pullVars == <<pull, pullNonce, pullRow>>
taskVars == <<pc, txNonce, sent, resynced>>
storedVars == <<queued, rows, status>>
vars == <<chainVars, boot, nonce, gaps, taskVars, pullVars, storedVars, crashes>>

Envelope(owner, n, bump) == [tx |-> owner, nonce |-> n, bump |-> bump]

\* PendingTransaction::best_tx: the envelope sent last has the highest fees
Best(envs) == CHOOSE e \in envs : \A f \in envs : f.bump <= e.bump

Mined(e) == e.nonce < Len(mined) /\ mined[e.nonce + 1] = e

Larger(a, b) == IF a < b THEN b ELSE a

(***************************************************************************)
(* The node                                                                *)
(***************************************************************************)

\* eth_getTransactionCount of the latest and of the pending block
LatestNonce == Len(mined)
PendingNonce ==
  CHOOSE n \in LatestNonce..(LatestNonce + Cardinality(pool)) :
    /\ \A e \in pool : e.nonce # n
    /\ \A m \in LatestNonce..(n - 1) : \E e \in pool : e.nonce = m

\* What eth_sendRawTransaction may answer to the first send of e: that the nonce is
\* used (nonce too low, replacement underpriced), that e is pooled, another error, or
\* nothing.
Answers(e, call) ==
  (IF \/ e.nonce < LatestNonce
      \/ \E f \in pool : f.nonce = e.nonce /\ f.tx # e.tx THEN {"used"} ELSE {})
  \cup (IF e.nonce < LatestNonce THEN {} ELSE {"pooled", "rejected"})
  \cup (IF call \in Silent THEN {"silent"} ELSE {})

\* The node answers a send of e; a send without an answer may have reached the pool.
Deliver(e, call, answer) ==
  /\ answer \in Answers(e, call)
  /\ \/ /\ answer \in {"pooled", "silent"} /\ e.nonce >= LatestNonce
        /\ pool' = pool \cup {e}
     \/ /\ answer # "pooled"
        /\ UNCHANGED pool
  /\ UNCHANGED <<mined, external>>

\* The network includes an envelope; the others of its nonce become invalid.
Mine(e) ==
  /\ e \in pool /\ e.nonce = LatestNonce
  /\ mined' = Append(mined, e)
  /\ pool' = {f \in pool : f.nonce # e.nonce}
  /\ UNCHANGED <<external, boot, nonce, gaps, taskVars, pullVars, storedVars, crashes>>

\* Another user of the key sends a transaction.
SendExternal ==
  /\ external < MaxExternal
  /\ external' = external + 1
  /\ pool' = pool \cup {Envelope(External, PendingNonce, 0)}
  /\ UNCHANGED <<mined, boot, nonce, gaps, taskVars, pullVars, storedVars, crashes>>

(***************************************************************************)
(* Steps of a task                                                         *)
(***************************************************************************)

Goto(tx, from, to) ==
  /\ boot = "up" /\ pc[tx] = from
  /\ pc' = [pc EXCEPT ![tx] = to]

\* on_confirmed_transaction: any receipt confirms, also that of a revert
OnConfirmed(tx) ==
  /\ status' = [status EXCEPT ![tx] = "confirmed"]
  /\ rows' = [rows EXCEPT ![tx] = {}]
  /\ UNCHANGED queued

OnFailed(tx) ==
  /\ status' = [status EXCEPT ![tx] = "failed"]
  /\ rows' = [rows EXCEPT ![tx] = {}]
  /\ queued' = queued \ {tx}

\* next_nonce, for a validated transaction or after a resync
NextNonce(tx) ==
  /\ \/ Goto(tx, "queued", "signing") /\ UNCHANGED resynced
     \/ Goto(tx, "resync", "signing") /\ resynced' = [resynced EXCEPT ![tx] = TRUE]
  /\ txNonce' = [txNonce EXCEPT ![tx] = nonce]
  /\ nonce' = nonce + 1
  /\ UNCHANGED <<chainVars, boot, gaps, sent, pullVars, storedVars, crashes>>

\* the fees are too high for the transaction, or its simulation fails
Reject(tx) ==
  /\ Goto(tx, "queued", "done")
  /\ OnFailed(tx)
  /\ UNCHANGED <<chainVars, boot, nonce, gaps, txNonce, sent, resynced, pullVars, crashes>>

\* replace_queued_tx_with_pending
Persist(tx) ==
  /\ Goto(tx, "signing", "sending")
  /\ sent' = [sent EXCEPT ![tx] = {Envelope(tx, txNonce[tx], 0)}]
  /\ rows' = [rows EXCEPT ![tx] = sent'[tx]]
  /\ queued' = queued \ {tx}
  /\ UNCHANGED <<chainVars, boot, nonce, gaps, txNonce, resynced, pullVars, status, crashes>>

\* the key service does not sign
SignFails(tx) ==
  /\ Goto(tx, "signing", "releasing")
  /\ OnFailed(tx)
  /\ UNCHANGED <<chainVars, boot, nonce, gaps, txNonce, sent, resynced, pullVars, crashes>>

\* send_transaction: pooled, and likewise when there is no answer
Send(tx) ==
  /\ Goto(tx, "sending", "watching")
  /\ \E answer \in {"pooled", "silent"} : Deliver(Best(sent[tx]), "send", answer)
  /\ UNCHANGED <<boot, nonce, gaps, txNonce, sent, resynced, pullVars, storedVars, crashes>>

\* Mutant of SendResync: a missing answer is taken for a rejection.
SendResyncOnSilence(tx) ==
  /\ ~resynced[tx]
  /\ Goto(tx, "sending", "syncing")
  /\ \E answer \in {"used", "silent"} : Deliver(Best(sent[tx]), "send", answer)
  /\ rows' = [rows EXCEPT ![tx] = {}]
  /\ UNCHANGED <<boot, nonce, gaps, txNonce, sent, resynced, pullVars, queued, status, crashes>>

\* the nonce is used, for the first time: the row is dropped and sync_nonce follows
SendResync(tx) ==
  /\ ~resynced[tx]
  /\ Goto(tx, "sending", "syncing")
  /\ Deliver(Best(sent[tx]), "send", "used")
  /\ rows' = [rows EXCEPT ![tx] = {}]
  /\ UNCHANGED <<boot, nonce, gaps, txNonce, sent, resynced, pullVars, queued, status, crashes>>

\* sync_nonce in the task; the node may fail to tell its nonce
SyncAfterSend(tx) ==
  /\ Goto(tx, "syncing", "resync")
  /\ nonce' \in {nonce, Larger(nonce, PendingNonce)}
  /\ UNCHANGED <<chainVars, boot, gaps, txNonce, sent, resynced, pullVars, storedVars, crashes>>

\* Mutant of SendFails: a missing answer fails the transaction.
SendFailsOnSilence(tx) ==
  /\ Goto(tx, "sending", "releasing")
  /\ \E answer \in {"rejected", "silent"} : Deliver(Best(sent[tx]), "send", answer)
  /\ OnFailed(tx)
  /\ UNCHANGED <<boot, nonce, gaps, txNonce, sent, resynced, pullVars, crashes>>

\* any other error of the send fails the transaction
SendFails(tx) ==
  /\ Goto(tx, "sending", "releasing")
  /\ \/ Deliver(Best(sent[tx]), "send", "rejected")
     \/ resynced[tx] /\ Deliver(Best(sent[tx]), "send", "used")
  /\ OnFailed(tx)
  /\ UNCHANGED <<boot, nonce, gaps, txNonce, sent, resynced, pullVars, crashes>>

\* The nonce of a transaction that was not sent is given back if it was the last one,
\* otherwise its gap is closed.
Release(tx) ==
  /\ \/ nonce = txNonce[tx] + 1 /\ Goto(tx, "releasing", "done") /\ nonce' = txNonce[tx]
     \/ nonce # txNonce[tx] + 1 /\ Goto(tx, "releasing", "filling") /\ UNCHANGED nonce
  /\ UNCHANGED <<chainVars, boot, gaps, txNonce, sent, resynced, pullVars, storedVars, crashes>>

\* a watch yields the receipt of any of the sent envelopes
Receipt(tx) ==
  /\ Goto(tx, "watching", "done")
  /\ \E e \in sent[tx] : Mined(e)
  /\ OnConfirmed(tx)
  /\ UNCHANGED <<chainVars, boot, nonce, gaps, txNonce, sent, resynced, pullVars, crashes>>

\* the watch of the envelopes ends without a receipt and the best one is sent again
Resend(tx) ==
  /\ Goto(tx, "watching", "watching")
  /\ Best(sent[tx]).nonce >= LatestNonce
  /\ pool' = pool \cup {Best(sent[tx])}
  /\ UNCHANGED <<mined, external, boot, nonce, gaps, txNonce, sent, resynced, pullVars,
                 storedVars, crashes>>

\* prepare_replacement returns new fees: add_pending_envelope
Replace(tx) ==
  /\ Goto(tx, "watching", "replacing")
  /\ Best(sent[tx]).bump < MaxBump
  /\ rows' = [rows EXCEPT ![tx] = @ \cup {Envelope(tx, txNonce[tx], Best(sent[tx]).bump + 1)}]
  /\ UNCHANGED <<chainVars, boot, nonce, gaps, txNonce, sent, resynced, pullVars, queued,
                 status, crashes>>

\* the replacement is sent; any error, a missing answer too, ends the watch
SendReplacement(tx) ==
  LET e == Envelope(tx, txNonce[tx], Best(sent[tx]).bump + 1) IN
  /\ \/ /\ Goto(tx, "replacing", "watching")
        /\ Deliver(e, "replace", "pooled")
        /\ sent' = [sent EXCEPT ![tx] = @ \cup {e}]
     \/ /\ Goto(tx, "replacing", "closing")
        /\ \E answer \in {"used", "rejected", "silent"} : Deliver(e, "replace", answer)
        /\ UNCHANGED sent
  /\ UNCHANGED <<boot, nonce, gaps, txNonce, resynced, pullVars, storedVars, crashes>>

\* watch_transaction_inner fails: a timeout, no fees, fees it cannot afford
WatchFails(tx) ==
  /\ Goto(tx, "watching", "closing")
  /\ UNCHANGED <<chainVars, boot, nonce, gaps, txNonce, sent, resynced, pullVars,
                 storedVars, crashes>>

\* close_nonce_gap, as long as it does not succeed, sends a transaction with the nonce
CloseSend(n) ==
  /\ n >= LatestNonce
  /\ pool' = pool \cup {Envelope(Gap, n, 0)}
  /\ UNCHANGED <<mined, external, boot, nonce, gaps, taskVars, pullVars, storedVars, crashes>>

CloseOwn(tx) == boot = "up" /\ pc[tx] \in {"closing", "filling"} /\ CloseSend(txNonce[tx])

\* close_nonce_gap returns once the nonce is used
Closed(tx) ==
  /\ LatestNonce > txNonce[tx]
  /\ Goto(tx, "closing", "checking") \/ Goto(tx, "filling", "done")
  /\ UNCHANGED <<chainVars, boot, nonce, gaps, txNonce, sent, resynced, pullVars,
                 storedVars, crashes>>

\* was it used by a sent envelope?  A receipt the node does not deliver counts as none.
Check(tx) ==
  /\ Goto(tx, "checking", "done")
  /\ \/ (\E e \in sent[tx] : Mined(e)) /\ OnConfirmed(tx)
     \/ (\A e \in sent[tx] : ~Mined(e)) /\ OnFailed(tx)
     \/ "receipt" \in Silent /\ OnFailed(tx)
  /\ UNCHANGED <<chainVars, boot, nonce, gaps, txNonce, sent, resynced, pullVars, crashes>>

Task(tx) ==
  \/ NextNonce(tx) \/ Reject(tx) \/ Persist(tx) \/ SignFails(tx) \/ Send(tx)
  \/ SendResync(tx) \/ SyncAfterSend(tx) \/ SendFails(tx) \/ Release(tx) \/ Receipt(tx)
  \/ Resend(tx) \/ Replace(tx) \/ SendReplacement(tx) \/ WatchFails(tx)
  \/ Closed(tx) \/ Check(tx)

(***************************************************************************)
(* Maintenance                                                             *)
(***************************************************************************)

\* the periodic sync_nonce
SyncNonce ==
  /\ boot = "up"
  /\ nonce' = Larger(nonce, PendingNonce)
  /\ UNCHANGED <<chainVars, boot, gaps, taskVars, pullVars, storedVars, crashes>>

\* a startup task that closes a gap
CloseLoadedGap(n) ==
  /\ boot = "up" /\ n \in gaps
  /\ \/ CloseSend(n)
     \/ /\ LatestNonce > n
        /\ gaps' = gaps \ {n}
        /\ UNCHANGED <<chainVars, boot, nonce, taskVars, pullVars, storedVars, crashes>>

\* record_and_check_balance, also at startup: initiate_pull_gas takes a nonce ...
PullNonce ==
  /\ boot \in {"balance", "up"} /\ PullGas /\ pull = "idle"
  /\ pull' = "signing"
  /\ pullNonce' = nonce
  /\ nonce' = nonce + 1
  /\ UNCHANGED <<chainVars, boot, gaps, taskVars, pullRow, storedVars, crashes>>

\* ... locks liquidity with the row, or returns an error and forgets the nonce
PullLock ==
  /\ pull = "signing"
  /\ \/ pull' = "locked" /\ pullRow' = TRUE
     \/ pull' = "done" /\ UNCHANGED pullRow
  /\ UNCHANGED <<chainVars, boot, nonce, gaps, taskVars, pullNonce, storedVars, crashes>>

\* get_transaction_receipt or get_transaction_by_hash finds the pull gas transaction
PullKnown ==
  Envelope(Pull, pullNonce, 0) \in pool \/ Mined(Envelope(Pull, pullNonce, 0))

\* broadcast_and_monitor_pull_gas: an error finishes the row like a timeout does.  In
\* the startup stage "pull" it is resume_pull_gas_transaction that sends.
PullSend ==
  /\ pull = "locked"
  /\ boot \in {"balance", "up"} \/ (boot = "pull" /\ ~PullKnown)
  /\ \E answer \in {"pooled", "rejected", "used", "silent"} :
       /\ Deliver(Envelope(Pull, pullNonce, 0), "send", answer)
       /\ pull' = IF answer = "pooled" THEN "sent" ELSE "done"
       /\ pullRow' = (answer = "pooled")
  /\ UNCHANGED <<boot, nonce, gaps, taskVars, pullNonce, storedVars, crashes>>

\* update_pull_gas_state_and_unlock_liquidity after a receipt or a timeout
PullEnd ==
  /\ boot # "rows" /\ pull = "sent"
  /\ pull' = "done" /\ pullRow' = FALSE
  /\ UNCHANGED <<chainVars, boot, nonce, gaps, taskVars, pullNonce, storedVars, crashes>>

(***************************************************************************)
(* Restart                                                                 *)
(***************************************************************************)

\* The process dies; Signer::new takes the node's pending nonce.
Crash ==
  /\ crashes < MaxCrashes
  /\ crashes' = crashes + 1
  /\ boot' = "rows"
  /\ nonce' = PendingNonce
  /\ gaps' = {}
  /\ pc' = [tx \in Tx |-> IF tx \in queued THEN "queued" ELSE "done"]
  /\ sent' = [tx \in Tx |-> {}]
  /\ resynced' = [tx \in Tx |-> FALSE]
  /\ pull' = IF pullRow THEN "locked" ELSE IF pull = "idle" THEN "idle" ELSE "done"
  /\ UNCHANGED <<chainVars, txNonce, pullNonce, pullRow, storedVars>>

\* Mutant of LoadRows: the nonce stays at the node's pending nonce.
LoadRowsNonceKept ==
  /\ boot = "rows"
  /\ boot' = "pull"
  /\ LET loaded == {tx \in Tx : rows[tx] # {}}
     IN  /\ pc' = [tx \in Tx |-> IF tx \in loaded THEN "watching" ELSE pc[tx]]
         /\ txNonce' = [tx \in Tx |->
                          IF tx \in loaded THEN Best(rows[tx]).nonce ELSE txNonce[tx]]
         /\ sent' = rows
  /\ UNCHANGED <<chainVars, nonce, gaps, resynced, pullVars, storedVars, crashes>>

\* into_future reads the pending rows and raises the nonce above theirs
LoadRows ==
  /\ boot = "rows"
  /\ boot' = "pull"
  /\ LET loaded == {tx \in Tx : rows[tx] # {}}
     IN  /\ nonce' = CHOOSE n \in {nonce} \cup {Best(rows[tx]).nonce + 1 : tx \in loaded} :
                       n >= nonce /\ \A tx \in loaded : n > Best(rows[tx]).nonce
         /\ pc' = [tx \in Tx |-> IF tx \in loaded THEN "watching" ELSE pc[tx]]
         /\ txNonce' = [tx \in Tx |->
                          IF tx \in loaded THEN Best(rows[tx]).nonce ELSE txNonce[tx]]
         /\ sent' = rows
  /\ UNCHANGED <<chainVars, gaps, resynced, pullVars, storedVars, crashes>>

\* resume_pull_gas_transaction waits for a transaction the node knows already; when
\* the node does not answer it returns and leaves the row as it is
ResumePull ==
  /\ boot = "pull" /\ pull = "locked"
  /\ \/ PullKnown /\ pull' = "sent"
     \/ "resume" \in Silent /\ pull' = "done"
  /\ UNCHANGED <<chainVars, boot, nonce, gaps, taskVars, pullNonce, pullRow, storedVars,
                 crashes>>

\* then the balance is checked
ResumeEnds ==
  /\ boot = "pull" /\ pull \in {"idle", "done"}
  /\ boot' = "balance"
  /\ UNCHANGED <<chainVars, nonce, gaps, taskVars, pullVars, storedVars, crashes>>

\* Mutant of SpawnTasks: no gap is looked for.
SpawnTasksNoGaps ==
  /\ boot = "balance" /\ pull \in {"idle", "done"}
  /\ boot' = "up"
  /\ UNCHANGED <<chainVars, nonce, gaps, taskVars, pullVars, storedVars, crashes>>

\* then the gaps are found, after a pull of gas has ended, and the tasks are spawned
SpawnTasks ==
  /\ boot = "balance" /\ pull \in {"idle", "done"}
  /\ boot' = "up"
  /\ gaps' = {n \in LatestNonce..(nonce - 1) :
                \A tx \in Tx : rows[tx] # {} => Best(rows[tx]).nonce # n}
  /\ UNCHANGED <<chainVars, nonce, taskVars, pullVars, storedVars, crashes>>

(***************************************************************************)
(* Specification                                                           *)
(***************************************************************************)

Init ==
  /\ mined = <<>> /\ pool = {} /\ external = 0
  /\ boot = "rows" /\ nonce = 0 /\ gaps = {}
  /\ pc = [tx \in Tx |-> "queued"]
  /\ txNonce = [tx \in Tx |-> 0]
  /\ sent = [tx \in Tx |-> {}]
  /\ resynced = [tx \in Tx |-> FALSE]
  /\ pull = "idle" /\ pullNonce = 0 /\ pullRow = FALSE
  /\ queued = Tx
  /\ rows = [tx \in Tx |-> {}]
  /\ status = [tx \in Tx |-> "open"]
  /\ crashes = 0

Next ==
  \/ \E tx \in Tx : Task(tx) \/ CloseOwn(tx)
  \/ \E n \in gaps : CloseLoadedGap(n)
  \/ \E e \in pool : Mine(e)
  \/ SendExternal \/ SyncNonce
  \/ PullNonce \/ PullLock \/ PullSend \/ PullEnd
  \/ Crash \/ LoadRows \/ ResumePull \/ ResumeEnds \/ SpawnTasks

SafetySpec == Init /\ [][Next]_vars

\* tokio runs every task, close_nonce_gap retries for ever and so sends at some time,
\* and the network includes pooled envelopes.
Fairness ==
  /\ \A tx \in Tx : WF_vars(Task(tx)) /\ WF_vars(CloseOwn(tx))
  /\ WF_vars(\E n \in gaps : CloseLoadedGap(n))
  /\ WF_vars(\E e \in pool : Mine(e))
  /\ WF_vars(PullLock) /\ WF_vars(PullSend) /\ WF_vars(PullEnd)
  /\ WF_vars(LoadRows) /\ WF_vars(ResumePull) /\ WF_vars(ResumeEnds) /\ WF_vars(SpawnTasks)

Spec == SafetySpec /\ Fairness

(***************************************************************************)
(* Properties                                                              *)
(***************************************************************************)

Envelopes ==
  [tx : Tx \cup {Gap, External, Pull}, nonce : Nat, bump : 0..MaxBump]

TypeOK ==
  /\ mined \in Seq(Envelopes)
  /\ pool \in SUBSET Envelopes
  /\ external \in 0..MaxExternal
  /\ boot \in {"rows", "pull", "balance", "up"}
  /\ nonce \in Nat
  /\ gaps \in SUBSET Nat
  /\ pc \in [Tx -> {"queued", "signing", "sending", "syncing", "resync", "releasing",
                    "filling", "watching", "replacing", "closing", "checking", "done"}]
  /\ txNonce \in [Tx -> Nat]
  /\ sent \in [Tx -> SUBSET Envelopes]
  /\ resynced \in [Tx -> BOOLEAN]
  /\ pull \in {"idle", "signing", "locked", "sent", "done"}
  /\ pullNonce \in Nat
  /\ queued \in SUBSET Tx
  /\ rows \in [Tx -> SUBSET Envelopes]
  /\ pullRow \in BOOLEAN
  /\ status \in [Tx -> {"open", "confirmed", "failed"}]
  /\ crashes \in 0..MaxCrashes

\* No nonce is ever given to two transactions whose envelopes reach the network: one
\* would push the other out.  Across resyncs, nonces given back and restarts.
NoNonceCollision ==
  LET out == pool \cup {mined[i] : i \in 1..Len(mined)}
  IN  \A e, f \in out : e.tx \in Tx /\ f.tx \in Tx /\ e.nonce = f.nonce => e.tx = f.tx

\* A transaction lands at most once, although it may have several envelopes and two
\* nonces in its life.
LandsOnce ==
  \A i, j \in 1..Len(mined) : mined[i].tx = mined[j].tx /\ mined[i].tx \in Tx => i = j

\* "Failing the intent here could report a failure for a transaction that lands": a
\* transaction that is reported as failed is not on chain and never gets there.
FailedNeverLands ==
  \A tx \in Tx : status[tx] = "failed" =>
    \A e \in pool \cup {mined[i] : i \in 1..Len(mined)} : e.tx # tx

\* A transaction that is reported as confirmed is on chain.
ConfirmedLanded ==
  \A tx \in Tx : status[tx] = "confirmed" => \E i \in 1..Len(mined) : mined[i].tx = tx

\* An envelope the network may still include is in a row, so a restart watches it and
\* does not give its nonce to another transaction.
PooledIsRecorded ==
  \A e \in pool : e.tx \in Tx => e \in rows[e.tx]

\* Every transaction that got a nonce reaches a final status unless the process dies:
\* no gap before it stays open.
EventuallyFinal ==
  \A tx \in Tx : (pc[tx] = "signing" /\ crashes = 0) ~> (status[tx] # "open" \/ crashes > 0)

\* Every nonce that was given out is used in the end, or given back.
GapsClose ==
  \A n \in 0..(Cardinality(Tx) + MaxExternal) :
    (nonce > n) ~> (LatestNonce > n \/ nonce <= n)

\* A nonce belongs to one transaction, across resyncs, nonces given back and restarts,
\* because whatever may still be included is in a row.
NoncesSafe == TypeOK /\ NoNonceCollision /\ PooledIsRecorded

\* What is reported of a transaction is true after every step, and no step, of a
\* restarted task included, reports something else.
ReportsHold ==
  [][/\ FailedNeverLands' /\ ConfirmedLanded'
     /\ \A tx \in Tx : status[tx] # "open" => status'[tx] = status[tx]]_vars

\* Nothing waits behind a nonce for ever.
SignerProgresses == EventuallyFinal /\ GapsClose

(***************************************************************************)
(* The inductive invariants behind the theorems in SignerProofs.  A nonce  *)
(* is claimed by the task that holds it, by the row that records it and by *)
(* the envelopes with it that reached the network; no two transactions     *)
(* claim the same one, and the nonce given out next is above all claims.   *)
(***************************************************************************)

Out == pool \cup {mined[i] : i \in 1..Len(mined)}

\* the envelopes of a transaction, recorded or on the network
Own(tx) == rows[tx] \cup {e \in Out : e.tx = tx}

Watching == {"watching", "replacing", "closing", "checking"}
Recording == {"sending"} \cup Watching
Holding == {"signing", "releasing"} \cup Recording
Unsent == {"queued", "signing", "sending", "syncing", "resync", "releasing", "filling"}

\* the node: no gap on chain, nothing in the pool with a used nonce
NodeOK ==
  /\ \A i \in 1..Len(mined) : mined[i].nonce = i - 1
  /\ \A e \in pool : e.nonce >= LatestNonce
  /\ IsFiniteSet(pool)

\* where a task is, what it has sent and what is recorded for it: all there is
TaskOK(tx) ==
  /\ boot = "rows" => pc[tx] \in {"queued", "done"}
  /\ tx \in queued => pc[tx] \in {"queued", "signing"}
  /\ pc[tx] \in Unsent => \A e \in Out : e.tx # tx
  /\ pc[tx] \in Unsent \ {"sending"} => rows[tx] = {}
  /\ pc[tx] = "done" /\ boot # "rows" => rows[tx] = {}
  /\ pc[tx] \in Recording => sent[tx] # {} /\ sent[tx] \subseteq rows[tx]
  /\ pc[tx] = "replacing" => Envelope(tx, txNonce[tx], Best(sent[tx]).bump + 1) \in rows[tx]
  /\ pc[tx] = "checking" => txNonce[tx] < LatestNonce
  /\ \A e \in rows[tx] : e.tx = tx
  /\ \A e \in pool : e.tx = tx => e \in rows[tx]
  /\ rows[tx] # {} => \A e \in Out : e.tx = tx => e \in rows[tx]

\* one nonce for a transaction, and none for two
ClaimsOK ==
  /\ \A tx \in Tx : \A e, f \in Own(tx) : e.nonce = f.nonce
  /\ \A tx \in Tx : pc[tx] \in Holding => \A e \in Own(tx) : e.nonce = txNonce[tx]
  /\ \A tx, u \in Tx : tx # u => \A e \in Own(tx), f \in Own(u) : e.nonce # f.nonce
  /\ \A tx, u \in Tx : tx # u /\ pc[tx] \in Holding => \A e \in Own(u) : e.nonce # txNonce[tx]
  /\ \A tx, u \in Tx :
       tx # u /\ pc[tx] \in Holding /\ pc[u] \in Holding => txNonce[tx] # txNonce[u]
  /\ \A tx \in Tx : pc[tx] \in Holding => txNonce[tx] < nonce
  /\ \A tx \in Tx : \A e \in Own(tx) : e.nonce < nonce \/ (boot = "rows" /\ e \in rows[tx])

NonceInv == TypeOK /\ NodeOK /\ (\A tx \in Tx : TaskOK(tx)) /\ ClaimsOK

\* What is reported and what may still be: the reports are final and true.  A watched
\* transaction knows all of its envelopes, unless a replacement got no answer.
ReportInv ==
  /\ FailedNeverLands /\ ConfirmedLanded
  /\ \A tx \in Tx :
       pc[tx] \in {"queued", "syncing", "resync", "signing"} \cup Recording => status[tx] = "open"
  /\ \A tx \in Tx : rows[tx] # {} \/ tx \in queued => status[tx] = "open"
  /\ \A tx \in Tx : pc[tx] \in Watching => \A e \in Out : e.tx = tx => e \in sent[tx]
===============================================================================
