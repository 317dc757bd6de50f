------------------------------- MODULE Storage -------------------------------
(***************************************************************************)
(* The two backends of StorageApi side by side: PgStorage (Postgres) and   *)
(* InMemoryStorage, which the tests run on.  Every operation is applied to *)
(* both, and the reads are compared.  A table is a function on the keys    *)
(* that have a row.  Operations on tables that share no read are explored  *)
(* apart: topic is the group of tables in use.  For the history, which has *)
(* rows of several tables, a transaction's rows change in the order in     *)
(* which the signer writes them.                                           *)
(***************************************************************************)
EXTENDS Integers, Sequences, FiniteSets, Functions

CONSTANTS
  Single,     \* transactions of one-chain bundles
  BundleOf,   \* [transaction of a one-chain bundle]: its bundle, the hash of the quotes
  Interop,    \* interop bundles; the destination transaction goes by the same name
  ChainOf,    \* [transaction]: chain id
  MaxI32,     \* largest chain id that fits an i32
  Transfers,  \* bridge transfers
  Pulls,      \* pull gas transactions
  Accounts,   \* accounts, which also name precalls
  MaxEnvelopes, MaxHash  \* bounds on envelopes of a transaction and on hashes

ASSUME StorageAssumption ==
  /\ MaxI32 \in Nat /\ ChainOf \in [Single \cup Interop -> Nat]
  /\ Single \cap Interop = {} /\ \A t \in Single : BundleOf[t] \notin Interop

VARIABLES
  topic,  \* the group of tables in use
  clock,  \* timestamps are ticks of this clock
  pg,     \* the tables of Postgres
  mem     \* the maps of InMemoryStorage

storageVars == <<topic, clock, pg, mem>>

Tx == Single \cup Interop
Chains == {ChainOf[t] : t \in Tx}
Topics == {"transactions", "history", "bundles", "transfers", "accounts"}
Empty == <<>>
Put(f, k, v) == [x \in DOMAIN f \cup {k} |-> IF x = k THEN v ELSE f[x]]
Drop(f, k) == Restrict(f, DOMAIN f \ {k})
Has(f, k) == k \in DOMAIN f
Without(s, t) == SelectSeq(s, LAMBDA u : u # t)
OfChain(s, c) == SelectSeq(s, LAMBDA t : ChainOf[t] = c)

(***************************************************************************)
(* Transactions                                                            *)
(***************************************************************************)

None == 0
InFlight == [kind |-> "inflight", hash |-> None, error |-> None]
Pending(h) == [InFlight EXCEPT !.kind = "pending", !.hash = h]
Confirmed(h) == [InFlight EXCEPT !.kind = "confirmed", !.hash = h]
Failed(e) == [InFlight EXCEPT !.kind = "failed", !.error = e]
Statuses == {InFlight, Failed(1)} \cup UNION {{Pending(h), Confirmed(h)} : h \in 1..MaxHash}
NotFound == [InFlight EXCEPT !.kind = "notfound"]

\* Chain ids are written as i64; "as i32" wraps above the largest i32.
AsI32(c) == IF c <= MaxI32 THEN c ELSE c - 2 * (MaxI32 + 1)

\* queue_transaction_with: the row of txs, with the transaction unless the bundle
\* holds it, and the row of queued_txs.
PgQueueTransaction(db, t, keep) ==
  [db EXCEPT !.txs = Put(@, t, [status |-> "inflight", hash |-> None, receipt |-> None,
                                error |-> None, data |-> keep, received |-> clock]),
             !.queued = Append(@, t)]

MemQueueTransaction(db, t) ==
  [db EXCEPT !.statuses = Put(@, t, InFlight),
             !.queued = Append(@, t),
             !.byAddress = Put(@, t, clock)]

PgReplaceQueued(db, t) ==
  [db EXCEPT !.queued = Without(@, t), !.pending = Put(@, t, 1)]
MemReplaceQueued(db, t) ==
  [db EXCEPT !.queued = Without(@, t), !.pending = Put(@, t, 1)]
PgRemoveQueued(db, t) == [db EXCEPT !.queued = Without(@, t)]
MemRemoveQueued(db, t) == [db EXCEPT !.queued = Without(@, t)]

\* Only rows that exist get the envelope.
PgAddEnvelope(db, t) == [db EXCEPT !.pending = [u \in DOMAIN @ |-> @[u] + (IF u = t THEN 1 ELSE 0)]]
MemAddEnvelope(db, t) == IF Has(db.pending, t) THEN [db EXCEPT !.pending[t] = @ + 1] ELSE db

PgRemovePending(db, t) == [db EXCEPT !.pending = Drop(@, t)]
MemRemovePending(db, t) == [db EXCEPT !.pending = Drop(@, t)]

\* Three updates in one transaction: the columns a status says nothing about keep
\* what an earlier status wrote.
PgWriteStatus(db, t, s) ==
  LET row == db.txs[t] IN
  IF ~Has(db.txs, t) THEN db ELSE
  [db EXCEPT !.txs[t] =
     [row EXCEPT !.status = s.kind,
                 !.error = IF s.kind = "failed" THEN s.error ELSE @,
                 !.hash = IF s.kind \in {"pending", "confirmed"} THEN s.hash ELSE @,
                 !.receipt = IF s.kind = "confirmed" THEN s.hash ELSE @]]

MemWriteStatus(db, t, s) ==
  IF Has(db.statuses, t) THEN [db EXCEPT !.statuses[t] = s] ELSE db

\* parse_transaction_status! puts the status together again; it panics on a pending
\* row without a hash and on a confirmed one without a receipt.
ParseStatus(row) ==
  CASE row.status = "inflight" -> InFlight
    [] row.status = "pending" -> Pending(row.hash)
    [] row.status = "confirmed" -> Confirmed(row.receipt)
    [] row.status = "failed" -> Failed(row.error)
Panics(row) ==
  (row.status = "pending" /\ row.hash = None) \/ (row.status = "confirmed" /\ row.receipt = None)

PgReadStatus(db, t) == IF Has(db.txs, t) THEN ParseStatus(db.txs[t]) ELSE NotFound
MemReadStatus(db, t) == IF Has(db.statuses, t) THEN db.statuses[t] ELSE NotFound
PgReadStatuses(db, ts) ==
  LET found == [t \in ts \cap DOMAIN db.txs |-> ParseStatus(db.txs[t])]
  IN  [t \in ts |-> IF Has(found, t) THEN found[t] ELSE NotFound]
MemReadStatuses(db, ts) == [t \in ts |-> MemReadStatus(db, t)]

PgReadQueued(db, c) == OfChain(db.queued, AsI32(c))
MemReadQueued(db, c) == OfChain(db.queued, c)
PgReadPending(db, c) == Restrict(db.pending, {t \in DOMAIN db.pending : ChainOf[t] = AsI32(c)})
MemReadPending(db, c) == Restrict(db.pending, {t \in DOMAIN db.pending : ChainOf[t] = c})

\* Rows of asset_diffs refer to txs.
PgStoreDiffs(db, t) == IF Has(db.txs, t) THEN [db EXCEPT !.diffs = @ \cup {t}] ELSE db
MemStoreDiffs(db, t) == [db EXCEPT !.diffs = @ \cup {t}]
PgReadDiffs(db, ts) == ts \cap db.diffs
MemReadDiffs(db, ts) == {t \in ts : t \in db.diffs}

(***************************************************************************)
(* Bundles and refunds                                                     *)
(***************************************************************************)

\* A row of bundle_transactions for each transaction; in memory the bundle's vector,
\* of which the history and the count look at the first only.
PgAddBundleTx(db, t) == [db EXCEPT !.links = @ \cup {t}]
MemAddBundleTx(db, t) ==
  LET b == BundleOf[t]
  IN  [db EXCEPT !.links = Put(@, b, Append(IF Has(@, b) THEN @[b] ELSE <<>>, t))]
PgGetBundleTxs(db, b) == {t \in db.links : BundleOf[t] = b}
MemGetBundleTxs(db, b) == IF Has(db.links, b) THEN Range(db.links[b]) ELSE {}
First(db, b) == db.links[b][1]

\* An upsert keeps created_at; the in-memory one starts it anew.
PgStorePendingBundle(db, b, status) ==
  [db EXCEPT !.bundles = Put(@, b, [status |-> status,
                                    created |-> IF Has(@, b) THEN @[b].created ELSE clock])]
MemStorePendingBundle(db, b, status) ==
  [db EXCEPT !.bundles = Put(@, b, [status |-> status, created |-> clock])]

PgUpdateBundleStatus(db, b, status) ==
  IF Has(db.bundles, b) THEN [db EXCEPT !.bundles[b] = [@ EXCEPT !.status = status]] ELSE db
MemUpdateBundleStatus(db, b, status) ==
  IF Has(db.bundles, b) THEN [db EXCEPT !.bundles[b] = [@ EXCEPT !.status = status]] ELSE db

PgUpdateBundleAndQueue(db, b, status, txs) ==
  LET stored == PgStorePendingBundle(db, b, status)
  IN  IF txs = {} THEN stored ELSE PgQueueTransaction(stored, b, FALSE)
MemUpdateBundleAndQueue(db, b, status, txs) ==
  LET stored == MemStorePendingBundle(db, b, status)
  IN  IF txs = {} THEN stored ELSE MemQueueTransaction(stored, b)

PgMoveToFinished(db, b) ==
  [db EXCEPT !.bundles = Drop(@, b),
             !.finished = Put(@, b, [status |-> db.bundles[b].status, finished |-> clock])]
MemMoveToFinished(db, b) ==
  [db EXCEPT !.bundles = Drop(@, b), !.finished = Put(@, b, db.bundles[b])]

PgInteropStatus(db, b) ==
  {db.bundles[x].status : x \in {b} \cap DOMAIN db.bundles}
    \cup {db.finished[x].status : x \in {b} \cap DOMAIN db.finished}
MemInteropStatus(db, b) ==
  IF Has(db.bundles, b) THEN {db.bundles[b].status}
  ELSE IF Has(db.finished, b) THEN {db.finished[b].status} ELSE {}
PgGetPendingBundle(db, b) == IF Has(db.bundles, b) THEN db.bundles[b].status ELSE "none"
MemGetPendingBundle(db, b) == IF Has(db.bundles, b) THEN db.bundles[b].status ELSE "none"
PgGetPendingBundles(db) == {<<b, db.bundles[b].status>> : b \in DOMAIN db.bundles}
MemGetPendingBundles(db) == {<<b, db.bundles[b].status>> : b \in DOMAIN db.bundles}
PgGetFinished(db, b) == IF Has(db.finished, b) THEN db.finished[b].status ELSE "none"
MemGetFinished(db, b) == IF Has(db.finished, b) THEN db.finished[b].status ELSE "none"

\* The refund and the status of the bundle, in one transaction; the later time wins.
PgStorePendingRefund(db, b, at) ==
  LET later == IF Has(db.refunds, b) /\ db.refunds[b] > at THEN db.refunds[b] ELSE at
  IN  PgUpdateBundleStatus([db EXCEPT !.refunds = Put(@, b, later)], b, "refunds_scheduled")
MemStorePendingRefund(db, b, at) ==
  MemUpdateBundleStatus([db EXCEPT !.refunds = Put(@, b, at)], b, "refunds_scheduled")
PgRemoveRefund(db, b) == [db EXCEPT !.refunds = Drop(@, b)]
MemRemoveRefund(db, b) == [db EXCEPT !.refunds = Drop(@, b)]
PgMarkRefundReady(db, b) == PgRemoveRefund(PgUpdateBundleStatus(db, b, "refunds_ready"), b)
MemMarkRefundReady(db, b) == MemRemoveRefund(MemUpdateBundleStatus(db, b, "refunds_ready"), b)
PgRefundsReady(db, now) == {b \in DOMAIN db.refunds : db.refunds[b] <= now}
MemRefundsReady(db, now) == {b \in DOMAIN db.refunds : db.refunds[b] <= now}

(***************************************************************************)
(* The history of an address                                               *)
(***************************************************************************)

Before(e, f, desc) == IF desc THEN e.at > f.at ELSE e.at < f.at
\* The first n rows: ORDER BY ... LIMIT n.
Limit(rows, n, desc) == {e \in rows : Cardinality({f \in rows : Before(f, e, desc)}) < n}

HistoryRow(table, b, t, at) == [table |-> table, id |-> b, tx |-> t, at |-> at]
PgPendingRows(db) == {HistoryRow("pending", b, b, db.bundles[b].created) : b \in DOMAIN db.bundles}
PgFinishedRows(db) == {HistoryRow("finished", b, b, db.finished[b].finished) : b \in DOMAIN db.finished}
PgSingleRows(db) ==
  {HistoryRow("single", BundleOf[t], t, db.txs[t].received) :
     t \in {x \in db.links \cap DOMAIN db.txs :
              db.txs[x].data /\ ~Has(db.bundles, BundleOf[x]) /\ ~Has(db.finished, BundleOf[x])}}
PgHistory(db) == PgPendingRows(db) \cup PgFinishedRows(db) \cup PgSingleRows(db)

\* Mutant of PgHistoryPage: every branch is cut at the limit.
PgHistoryPageCut(db, limit, offset, desc) ==
  LET multi == Limit(PgPendingRows(db) \cup PgFinishedRows(db), limit, desc)
      all == multi \cup Limit(PgSingleRows(db), limit, desc)
  IN  Limit(all, offset + limit, desc) \ Limit(all, offset, desc)

\* get_bundles_by_address: every branch of the union is cut at limit + offset.
PgHistoryPage(db, limit, offset, desc) ==
  LET n == limit + offset
      multi == Limit(Limit(PgPendingRows(db), n, desc) \cup Limit(PgFinishedRows(db), n, desc), n, desc)
      all == multi \cup Limit(PgSingleRows(db), n, desc)
  IN  Limit(all, offset + limit, desc) \ Limit(all, offset, desc)

PgBundleCount(db) ==
  Cardinality(DOMAIN db.bundles) + Cardinality(DOMAIN db.finished) + Cardinality(PgSingleRows(db))

\* The in-memory history lists a one-chain bundle once, and only while the status of
\* its first transaction has a hash.
MemSingles(db) ==
  {b \in DOMAIN db.links : /\ ~Has(db.bundles, b) /\ ~Has(db.finished, b)
                           /\ Has(db.statuses, First(db, b)) /\ db.statuses[First(db, b)].hash # None
                           /\ Has(db.byAddress, First(db, b))}
MemHistory(db) ==
  {<<"pending", b>> : b \in DOMAIN db.bundles} \cup {<<"finished", b>> : b \in DOMAIN db.finished}
    \cup {<<"single", b>> : b \in MemSingles(db)}

\* find_transaction; the count has one-chain bundles while their first transaction
\* is queued or pending.
Found(db, t) == (\E i \in DOMAIN db.queued : db.queued[i] = t) \/ Has(db.pending, t)
MemBundleCount(db) ==
  Cardinality(DOMAIN db.bundles) + Cardinality(DOMAIN db.finished)
    + Cardinality({b \in DOMAIN db.links : Found(db, First(db, b))})

(***************************************************************************)
(* Bridge transfers, pull gas                                              *)
(***************************************************************************)

TransferState(kind, block) == [kind |-> kind, block |-> block]

PgLockForBridge(db, x) ==
  [db EXCEPT !.transfers = Put(@, x, [status |-> "pending", out |-> None, in |-> None, data |-> None])]
MemLockForBridge(db, x) ==
  [db EXCEPT !.transfers = Put(@, x, [state |-> TransferState("pending", None), data |-> None])]

PgUpdateBridgeData(db, x, d) == IF Has(db.transfers, x) THEN [db EXCEPT !.transfers[x] = [@ EXCEPT !.data = d]] ELSE db
MemUpdateBridgeData(db, x, d) == IF Has(db.transfers, x) THEN [db EXCEPT !.transfers[x] = [@ EXCEPT !.data = d]] ELSE db
PgGetBridgeData(db, x) == IF Has(db.transfers, x) THEN db.transfers[x].data ELSE None
TransferNotFound == -1  \* an error
MemGetBridgeData(db, x) == IF Has(db.transfers, x) THEN db.transfers[x].data ELSE TransferNotFound

\* Mutant of PgUpdateTransferState: the block of the arrival is written to the
\* column of the departure.
PgUpdateTransferOut(db, x, s) ==
  [db EXCEPT !.transfers[x] =
     [@ EXCEPT !.status = s.kind, !.out = IF s.kind \in {"sent", "completed"} THEN s.block ELSE @]]
PgTransferRow(row, s) ==
  [row EXCEPT !.status = s.kind, !.out = IF s.kind = "sent" THEN s.block ELSE @,
              !.in = IF s.kind = "completed" THEN s.block ELSE @]
PgUpdateTransferState(db, x, s) == [db EXCEPT !.transfers[x] = PgTransferRow(@, s)]
MemUpdateTransferState(db, x, s) == [db EXCEPT !.transfers[x] = [@ EXCEPT !.state = s]]

\* The state and the row of pending_unlocks in one transaction.
PgUpdateTransferAndUnlock(db, x, s) ==
  [PgUpdateTransferState(db, x, s) EXCEPT !.unlocks = Put(@, x, s.block)]
MemUpdateTransferAndUnlock(db, x, s) ==
  [MemUpdateTransferState(db, x, s) EXCEPT !.unlocks = Put(@, x, s.block)]

PgGetTransferState(db, x) ==
  LET row == db.transfers[x] IN
  TransferState(row.status, CASE row.status = "sent" -> row.out [] row.status = "completed" -> row.in
                              [] OTHER -> None)
MemGetTransferState(db, x) == db.transfers[x].state
PgLoadPendingTransfers(db) ==
  {x \in DOMAIN db.transfers : db.transfers[x].status \in {"pending", "sent"}}
MemLoadPendingTransfers(db) ==
  {x \in DOMAIN db.transfers : db.transfers[x].state.kind \in {"pending", "sent"}}

PgLockForPullGas(db, p) == [db EXCEPT !.pulls = Put(@, p, "pending")]
MemLockForPullGas(db, p) == [db EXCEPT !.pulls = Put(@, p, "pending")]

\* The unlock needs the row, which was written together with the lock.
PgUpdatePullGas(db, p, s) ==
  IF Has(db.pulls, p) THEN [db EXCEPT !.pulls = Put(@, p, s), !.unlocks = Put(@, p, 1)] ELSE db
MemUpdatePullGas(db, p, s) ==
  [db EXCEPT !.pulls = IF Has(@, p) THEN Put(@, p, s) ELSE @, !.unlocks = Put(@, p, 1)]
PgLoadPendingPulls(db) == {p \in DOMAIN db.pulls : db.pulls[p] = "pending"}
MemLoadPendingPulls(db) == {p \in DOMAIN db.pulls : db.pulls[p] = "pending"}

(***************************************************************************)
(* Accounts and precalls                                                   *)
(***************************************************************************)

PgWriteAccount(db, a, v) == [db EXCEPT !.accounts = Put(@, a, v)]
MemWriteAccount(db, a, v) == [db EXCEPT !.accounts = Put(@, a, v)]
PgReadAccount(db, a) == IF Has(db.accounts, a) THEN db.accounts[a] ELSE None
MemReadAccount(db, a) == IF Has(db.accounts, a) THEN db.accounts[a] ELSE None

\* The primary key is the account, the chain and the nonce: an insert of a key that is
\* there fails, the in-memory map replaces the call.
PgStorePrecall(db, a, nonce) == [db EXCEPT !.precalls = @ \cup {<<a, nonce>>}]
MemStorePrecall(db, a, nonce) == [db EXCEPT !.precalls = @ \cup {<<a, nonce>>}]
PgRemovePrecall(db, a, nonce) == [db EXCEPT !.precalls = @ \ {<<a, nonce>>}]
MemRemovePrecall(db, a, nonce) == [db EXCEPT !.precalls = @ \ {<<a, nonce>>}]
PgReadPrecalls(db, a) == {k \in db.precalls : k[1] = a}
MemReadPrecalls(db, a) == {k \in db.precalls : k[1] = a}

(***************************************************************************)
(* Operations                                                              *)
(***************************************************************************)

\* A database without rows.
Tables == {"queued", "pending", "links", "bundles", "finished", "refunds", "diffs", "transfers", "pulls",
           "unlocks", "accounts", "precalls"}
NoRows(tables, sets) == [k \in tables |-> IF k \in sets THEN {} ELSE Empty]
PgTables == Tables \cup {"txs"}
MemTables == Tables \cup {"statuses", "byAddress"}

StorageInit ==
  /\ topic \in Topics
  /\ clock = 1
  /\ pg = NoRows(PgTables, {"links", "diffs", "precalls"}) /\ mem = NoRows(MemTables, {"diffs", "precalls"})

\* An operation of a topic writes both databases.
Write(topics, dbs) ==
  /\ topic \in topics
  /\ pg' = dbs[1] /\ mem' = dbs[2]
  /\ UNCHANGED <<topic, clock>>

\* An operation that writes a timestamp; timestamps do not repeat.
Stamped(topics, dbs) ==
  /\ topic \in topics
  /\ pg' = dbs[1] /\ mem' = dbs[2]
  /\ clock' = IF topic = "history" THEN clock + 1 ELSE clock
  /\ UNCHANGED topic

\* Ids of transactions are random, so that a row is inserted once.
QueueTransaction(t) ==
  /\ ~Has(pg.txs, t)
  /\ Stamped({"transactions", "history"}, <<PgQueueTransaction(pg, t, TRUE), MemQueueTransaction(mem, t)>>)

\* The service replaces a queued transaction, or records one that was not queued.
ReplaceQueuedWithPending(t) ==
  /\ ~Has(pg.pending, t)
  /\ topic = "history" => PgReadStatus(pg, t) = InFlight
  /\ Write({"transactions", "history"}, <<PgReplaceQueued(pg, t), MemReplaceQueued(mem, t)>>)

RemoveQueued(t) == Write({"transactions"}, <<PgRemoveQueued(pg, t), MemRemoveQueued(mem, t)>>)

AddPendingEnvelope(t) ==
  /\ Has(pg.pending, t) => pg.pending[t] < MaxEnvelopes
  /\ Write({"transactions"}, <<PgAddEnvelope(pg, t), MemAddEnvelope(mem, t)>>)

RemovePending(t) ==
  /\ topic = "history" => Has(pg.pending, t) /\ PgReadStatus(pg, t) # InFlight
  /\ Write({"transactions", "history"}, <<PgRemovePending(pg, t), MemRemovePending(mem, t)>>)

WriteStatus(t, s) ==
  /\ topic = "history" => Has(pg.pending, t) /\ PgReadStatus(pg, t) = InFlight /\ s.kind = "pending"
  /\ Write({"transactions", "history"}, <<PgWriteStatus(pg, t, s), MemWriteStatus(mem, t, s)>>)

\* Diffs are stored for confirmed transactions.
StoreAssetDiffs(t) ==
  /\ PgReadStatus(pg, t).kind = "confirmed"
  /\ Write({"transactions"}, <<PgStoreDiffs(pg, t), MemStoreDiffs(mem, t)>>)

\* send_intents links a one-chain bundle with its transaction, before it is queued.
\* The same quotes sent again are the same bundle, and another transaction.
AddBundleTx(t) ==
  /\ t \notin pg.links
  /\ Write({"history"}, <<PgAddBundleTx(pg, t), MemAddBundleTx(mem, t)>>)

\* A bundle that is pending is not stored again (Postgres: an error); one that is
\* finished is.
StorePendingBundle(b) ==
  /\ ~Has(pg.bundles, b)
  /\ Stamped({"history", "bundles"}, <<PgStorePendingBundle(pg, b, "init"), MemStorePendingBundle(mem, b, "init")>>)

UpdatePendingBundleStatus(b, status) ==
  Write({"bundles"}, <<PgUpdateBundleStatus(pg, b, status), MemUpdateBundleStatus(mem, b, status)>>)

UpdateBundleAndQueueTransactions(b, txs) ==
  /\ Has(pg.bundles, b)
  /\ txs # {} => ~Has(pg.txs, b)
  /\ Stamped({"bundles"},
           <<PgUpdateBundleAndQueue(pg, b, "source_queued", txs), MemUpdateBundleAndQueue(mem, b, "source_queued", txs)>>)

\* A second end of a bundle is an error in Postgres, and replaces the first in memory.
MoveBundleToFinished(b) ==
  /\ Has(pg.bundles, b) /\ ~Has(pg.finished, b)
  /\ Stamped({"history", "bundles"}, <<PgMoveToFinished(pg, b), MemMoveToFinished(mem, b)>>)

\* The time of a refund is fixed by the bundle's escrows.
StorePendingRefund(b) ==
  Write({"bundles"}, <<PgStorePendingRefund(pg, b, 1), MemStorePendingRefund(mem, b, 1)>>)

MarkRefundReady(b) == Write({"bundles"}, <<PgMarkRefundReady(pg, b), MemMarkRefundReady(mem, b)>>)
RemoveProcessedRefund(b) == Write({"bundles"}, <<PgRemoveRefund(pg, b), MemRemoveRefund(mem, b)>>)

\* Transfer ids are random.
LockLiquidityForBridge(x) ==
  /\ ~Has(pg.transfers, x)
  /\ Write({"transfers"}, <<PgLockForBridge(pg, x), MemLockForBridge(mem, x)>>)

UpdateTransferBridgeData(x, d) ==
  /\ Has(pg.transfers, x)
  /\ Write({"transfers"}, <<PgUpdateBridgeData(pg, x, d), MemUpdateBridgeData(mem, x, d)>>)

UpdateTransferState(x, s) ==
  /\ Has(pg.transfers, x) /\ s.kind \in {"completed", "inbound_failed"}
  /\ Write({"transfers"}, <<PgUpdateTransferState(pg, x, s), MemUpdateTransferState(mem, x, s)>>)

UpdateTransferStateAndUnlock(x, s) ==
  /\ Has(pg.transfers, x) /\ s.kind \in {"sent", "outbound_failed"}
  /\ Write({"transfers"}, <<PgUpdateTransferAndUnlock(pg, x, s), MemUpdateTransferAndUnlock(mem, x, s)>>)

\* The lock and the row are rolled back together when they fail.
LockLiquidityForPullGas(p, fails) ==
  /\ ~Has(pg.pulls, p)
  /\ Write({"transfers"}, IF fails THEN <<pg, mem>>
                          ELSE <<PgLockForPullGas(pg, p), MemLockForPullGas(mem, p)>>)

UpdatePullGas(p, s) == Write({"transfers"}, <<PgUpdatePullGas(pg, p, s), MemUpdatePullGas(mem, p, s)>>)

WriteAccount(a, v) == Write({"accounts"}, <<PgWriteAccount(pg, a, v), MemWriteAccount(mem, a, v)>>)
StorePrecall(a, n) == Write({"accounts"}, <<PgStorePrecall(pg, a, n), MemStorePrecall(mem, a, n)>>)
RemovePrecall(a, n) == Write({"accounts"}, <<PgRemovePrecall(pg, a, n), MemRemovePrecall(mem, a, n)>>)

TransferStates ==
  {TransferState(k, None) : k \in {"outbound_failed", "inbound_failed"}}
    \cup {TransferState(k, n) : k \in {"sent", "completed"}, n \in 1..2}

StorageNext ==
  \/ \E t \in Single :
       \/ QueueTransaction(t) \/ ReplaceQueuedWithPending(t) \/ RemoveQueued(t)
       \/ AddPendingEnvelope(t) \/ RemovePending(t) \/ StoreAssetDiffs(t) \/ AddBundleTx(t)
       \/ \E s \in Statuses : WriteStatus(t, s)
  \/ \E b \in Interop :
       \/ StorePendingBundle(b) \/ MoveBundleToFinished(b)
       \/ UpdatePendingBundleStatus(b, "done")
       \/ \E txs \in {{}, {b}} : UpdateBundleAndQueueTransactions(b, txs)
       \/ StorePendingRefund(b) \/ MarkRefundReady(b) \/ RemoveProcessedRefund(b)
  \/ \E x \in Transfers :
       \/ LockLiquidityForBridge(x)
       \/ \E d \in 1..2 : UpdateTransferBridgeData(x, d)
       \/ \E s \in TransferStates : UpdateTransferState(x, s) \/ UpdateTransferStateAndUnlock(x, s)
  \/ \E p \in Pulls :
       \/ \E fails \in BOOLEAN : LockLiquidityForPullGas(p, fails)
       \/ \E s \in {"completed", "failed"} : UpdatePullGas(p, s)
  \/ \E a \in Accounts, v \in 1..2 : WriteAccount(a, v) \/ StorePrecall(a, v) \/ RemovePrecall(a, v)

StorageSpec == StorageInit /\ [][StorageNext]_storageVars

(***************************************************************************)
(* Properties                                                              *)
(***************************************************************************)

\* A row of txs can always be read: the two unwraps of parse_transaction_status!
\* never panic, whatever statuses were written before.
StatusesParse == \A t \in DOMAIN pg.txs : ~Panics(pg.txs[t])

TransactionsAgree ==
  /\ \A t \in Tx : PgReadStatus(pg, t) = MemReadStatus(mem, t)
  /\ \A ts \in SUBSET Tx : /\ PgReadStatuses(pg, ts) = MemReadStatuses(mem, ts)
                           /\ PgReadDiffs(pg, ts) = MemReadDiffs(mem, ts)
  /\ \A c \in Chains : c <= MaxI32 => /\ PgReadQueued(pg, c) = MemReadQueued(mem, c)
                                      /\ PgReadPending(pg, c) = MemReadPending(mem, c)

BundlesAgree ==
  /\ \A t \in Single : PgGetBundleTxs(pg, BundleOf[t]) = MemGetBundleTxs(mem, BundleOf[t])
  /\ \A b \in Interop : /\ MemInteropStatus(mem, b) \subseteq PgInteropStatus(pg, b)
                        /\ MemInteropStatus(mem, b) = {} => PgInteropStatus(pg, b) = {}
                        /\ PgGetPendingBundle(pg, b) = MemGetPendingBundle(mem, b)
                        /\ PgGetFinished(pg, b) = MemGetFinished(mem, b)
  /\ PgGetPendingBundles(pg) = MemGetPendingBundles(mem)
  /\ \A now \in 0..2 : PgRefundsReady(pg, now) = MemRefundsReady(mem, now)

TransfersAgree ==
  /\ \A x \in DOMAIN pg.transfers : /\ PgGetBridgeData(pg, x) = MemGetBridgeData(mem, x)
                                     /\ PgGetTransferState(pg, x) = MemGetTransferState(mem, x)
  /\ PgLoadPendingTransfers(pg) = MemLoadPendingTransfers(mem)
  /\ PgLoadPendingPulls(pg) = MemLoadPendingPulls(mem)

AccountsAgree ==
  \A a \in Accounts : /\ PgReadAccount(pg, a) = MemReadAccount(mem, a)
                      /\ PgReadPrecalls(pg, a) = MemReadPrecalls(mem, a)

\* The histories agree on interop bundles, and list the same one-chain bundles while
\* the status of their first transaction has a hash; Postgres lists the others, too.
MemLists(e) ==
  e.table = "single" => e.tx = First(mem, e.id) /\ PgReadStatus(pg, e.tx).hash # None
HistoriesAgree == MemHistory(mem) = {<<e.table, e.id>> : e \in {f \in PgHistory(pg) : MemLists(f)}}

\* The counts differ by the one-chain transactions that ended, and those of bundles
\* sent again, once what was linked is queued.
MemCounts(e) == e.tx = First(mem, e.id) /\ Found(mem, e.tx)
CountsAgree ==
  pg.links \subseteq DOMAIN pg.txs =>
    MemBundleCount(mem) + Cardinality({e \in PgSingleRows(pg) : ~MemCounts(e)}) = PgBundleCount(pg)

\* After the same operations the two backends answer the reads alike, so that what the
\* tests see in memory is what Postgres does: transactions of a chain whose id fits an
\* i32, bundles, refunds, transfers that exist, pull gas, accounts, precalls; and their
\* histories and counts differ by certain one-chain bundles only.  A row of txs can
\* always be read.
BackendsAgree ==
  /\ StatusesParse /\ TransactionsAgree /\ BundlesAgree
  /\ HistoriesAgree /\ CountsAgree /\ TransfersAgree /\ AccountsAgree

\* the same quotes were sent again: a one-chain bundle has two transactions, or an
\* interop bundle is pending although it is finished
SentAgain(b) ==
  (\E t, u \in PgGetBundleTxs(pg, b) : t # u) \/ (Has(pg.bundles, b) /\ Has(pg.finished, b))

\* The pages of get_bundles_by_address are the slices of the whole history, in both
\* orders, although each branch of the query is cut; get_bundle_count_by_address is
\* the length of the history; and no bundle is listed twice unless it was sent again.
PagesSliceHistory ==
  LET all == PgHistory(pg) IN
  /\ \A limit, offset \in 0..3, desc \in BOOLEAN :
       PgHistoryPage(pg, limit, offset, desc) = Limit(all, offset + limit, desc) \ Limit(all, offset, desc)
  /\ PgBundleCount(pg) = Cardinality(all)
  /\ \A e, f \in all : e.id = f.id => e = f \/ SentAgain(e.id)

(***************************************************************************)
(* The inductive invariant                                                 *)
(***************************************************************************)

\* The tables that are the same in both databases.
TablesEqual ==
  /\ pg.queued = mem.queued /\ pg.pending = mem.pending /\ pg.diffs = mem.diffs
  /\ pg.refunds = mem.refunds /\ pg.pulls = mem.pulls /\ pg.accounts = mem.accounts /\ pg.precalls = mem.precalls

\* A row of txs holds the status of the map, and the hash or receipt it needs.
StatusRow(row, s) ==
  /\ DOMAIN row = {"status", "hash", "receipt", "error", "data", "received"}
  /\ row.status \in {"inflight", "pending", "confirmed", "failed"}
  /\ ParseStatus(row) = s /\ ~Panics(row) /\ row.received \in 0..clock

StatusesFollow ==
  /\ DOMAIN pg.txs = DOMAIN mem.statuses /\ DOMAIN pg.txs = DOMAIN mem.byAddress
  /\ \A t \in DOMAIN pg.txs : StatusRow(pg.txs[t], mem.statuses[t]) /\ (t \in Single => pg.txs[t].data)

\* The rows of bundle_transactions are the vectors of the bundles.
LinksFollow ==
  /\ DOMAIN mem.links = {BundleOf[t] : t \in pg.links}
  /\ \A b \in DOMAIN mem.links :
       /\ mem.links[b] \in Seq(pg.links) /\ Len(mem.links[b]) > 0
       /\ Range(mem.links[b]) = PgGetBundleTxs(pg, b)

BundlesFollow ==
  /\ DOMAIN pg.bundles = DOMAIN mem.bundles /\ DOMAIN pg.finished = DOMAIN mem.finished
  /\ DOMAIN pg.bundles \cup DOMAIN pg.finished \subseteq Interop
  /\ \A b \in DOMAIN pg.bundles :
       /\ DOMAIN pg.bundles[b] = {"status", "created"} /\ DOMAIN mem.bundles[b] = {"status", "created"}
       /\ pg.bundles[b].status = mem.bundles[b].status /\ pg.bundles[b].created \in 0..clock
  /\ \A b \in DOMAIN pg.finished :
       pg.finished[b].status = mem.finished[b].status /\ pg.finished[b].finished \in 0..clock

TransfersFollow ==
  /\ DOMAIN pg.transfers = DOMAIN mem.transfers
  /\ \A x \in DOMAIN pg.transfers :
       /\ DOMAIN pg.transfers[x] = {"status", "out", "in", "data"} /\ DOMAIN mem.transfers[x] = {"state", "data"}
       /\ pg.transfers[x].data = mem.transfers[x].data
       /\ PgGetTransferState(pg, x) = MemGetTransferState(mem, x)

StorageTypeOK ==
  /\ clock \in Nat /\ DOMAIN pg = PgTables /\ DOMAIN mem = MemTables
  /\ pg.pending \in [DOMAIN pg.pending -> Nat] /\ pg.links \subseteq Single
  /\ pg.refunds = [b \in DOMAIN pg.refunds |-> 1]
  /\ IsFiniteSet(DOMAIN pg.bundles) /\ IsFiniteSet(DOMAIN pg.finished) /\ IsFiniteSet(pg.links)

StorageIInv ==
  StorageTypeOK /\ TablesEqual /\ LinksFollow /\ StatusesFollow /\ BundlesFollow /\ TransfersFollow
=============================================================================
