# Verification of the relay

TLA+ modules, TLC runs and TLAPS proofs for the relay in `src/`. The relay takes signed
intents over JSON-RPC, wraps them in transactions, and sends these on several chains with its
own signers; cross-chain bundles, liquidity and settlements are built on that pipeline.

## Inventory

| Part | State it keeps | Operations | Interacts with | What is hard, and what makes it correct |
|---|---|---|---|---|
| Transaction queue (`transactions/service.rs`, `TxQueue`) | ready, blocked and pending transactions per EOA | push, pop, finish, load | owned by the service | one transaction in flight per EOA, order, limit, nothing left behind |
| Transaction service (`transactions/service.rs`) | queue, signer tasks, status channels, command and event channels | send, subscribe, dispatch, handle status, restart | callers by channel, signers by events, storage | subscription races, restart from rows, overflow |
| Signer (`transactions/signer.rs`) | local nonce, pending tasks, paused flag | send, watch, replace, close gap, resync, pull gas, restart | node by RPC, storage, service by events | nonces shared by concurrent tasks, lost answers, crash between write and send |
| Monitor, flashblocks (`transactions/monitor.rs`, `flashblocks.rs`) | table of watched hashes, deadlines | watch, reap | signer | a watch reaped while a newer one exists; no watch may hang |
| Fees (`transactions/fees.rs`, `estimation/`) | none | new fees, replacement fees | signer | integer rounding, affordable bumps that a pool accepts |
| Interop bundles (`transactions/interop.rs`) | bundle row and status | one handler per status, refund scheduling, restart | service, liquidity, settlement | persisted status against side effects already done |
| Liquidity (`liquidity/tracker.rs`, `storage/pg.rs`) | locked amount, pending unlocks by block | lock, unlock, prune | bundles, bridges, pull gas | a balance read before the lock, pruned unlocks |
| Rebalance, bridges (`liquidity/`) | transfer rows, saved bridge data, tasks | choose, lock, pull, deliver, restart | liquidity, chains, Binance | table behind the tasks, ignored storage errors, retries: money moves once and no chain is drained |
| Refunds (`interop/refund/`) | pending refund rows | monitor, process | bundles | start-up race of monitor and bundle loader |
| Settlement (`interop/settler/`) | batch pools, shared log subscriptions, verification waiters | subscribe, poll, verify, batch, send | bundles, service | order of nonces in a batch, clean-up of a shared subscription, lost events |
| Storage (`storage/`) | tables | SQL transactions, in-memory counterparts | all | which writes are atomic; the two backends answer alike |
| RPC server (`rpc/relay.rs`, `rpc/account.rs`) | accounts, pre-calls, bundles' transactions, emails and phones | prepare, send, status, history, upgrade, pre-calls, faucet, contacts | all | quotes covered by funds that other rounds were computed for; statuses over repeated sends |
| Sponsorship (`sponsorship/`) | usage ledger | decide, report, book | RPC, signer | read at the quote, booked after the receipt |
| Prices (`price/`), assets (`asset.rs`), auth (`auth.rs`) | registry of rates, metadata cache, key cache | fetch, look up, refresh | RPC | stale or evicted entries, overlapping refreshes |
| Asset diffs, Merkle tree (`types/`) | diff builder, tree array | record, merge, remove fee; root, proof | RPC | netting, odd layers, laziness |
| Transport (`transport/`) | none | call, fall back, time out, retry | nodes | answers in any order |
| Configuration, spawning, CLI, diagnostics, metrics | none | wiring | all | not protocol-like; see "Not modelled" |

`PROJECT.json` lists the components with their files, and the hazards with the lines where they
bite and the properties aimed at them.

## Modules

- **TxQueue** is the queue alone. One operator per method (`PushTransaction`, `PopReady`,
  `OnSentTransaction`, `OnFinishedPending`); a map without an entry is the empty value. The
  actions around them (`LoadPending`, `Push`, `Pop`, `Finish`, `Restart`) use the queue as
  `TransactionService::new` and `poll` do and add the history the properties speak of: what was
  loaded, accepted and sent.
- **TransactionService** is the service with the rows of `queued_txs`, `pending_txs` and `txs`,
  the command and event channels, the status channels, the callers (`send_transaction`,
  `wait_for_tx`) and the task of each transaction, one action per storage write. Each SQL
  transaction is one step. `Crash` may happen between any two steps and the service reloads from
  the rows (`LoadPendingTransaction`, then `PushLoaded`). Its queue is `INSTANCE TxQueue`: its
  actions are the queue's, so the theorems on the queue apply to the one inside the service. `lost` is history:
  the transactions that a crash met in a moment in which the code has removed their rows (`Rowless`).
- **Signer** is one signer below that: nonces, envelopes and the node. An envelope is a record of
  owner, nonce and number of fee bumps. The node (external) has a chain and a pool; it may answer
  a send with "pooled", "used" (nonce too low, replacement underpriced), "rejected", or not at
  all, in which case the envelope may or may not be in the pool. Any pooled envelope with the
  next nonce can be included, also a replaced one. Another user of the key may take nonces. Tasks
  run `send_and_watch_transaction`, `watch_transaction` and `close_nonce_gap` step by step; the
  pull of gas takes nonces from the same counter; a restart runs `Signer::new` and `into_future`
  in their stages (rows, pull gas, balance check, gaps).
- **Liquidity** is the locking of the funder's money on one chain. A holder is a bundle, a bridge
  transfer or a pull of gas; it reads balances with their block (`GetBalanceWithBlock`, asset by
  asset; a pull of gas asks for the two concurrently, `GetBalance` and `GetBlockNumber`), then its lock transaction decides for all assets at once (`Lock`, `Refuse`), its
  transfers are sent and their money leaves in later blocks (`Land`, external), and the unlock
  writes a row of `pending_unlocks` per transfer with the block of its receipt, or block 0 without
  one (`Release`, `Cancel`); the row of a failed pull of gas takes some block up to the latest instead
  (`FailureBlocks`). `PruneStart` asks for the latest block and `Prune` removes old rows
  later. A transfer that the relay gave up may land afterwards (`LandLate`): a pull of gas that
  timed out, a bridge transaction whose wait failed. Time between a read and its lock is bounded
  by `Staleness` blocks, a parameter: the code has no such bound.
- **InteropBundle** is the life of one bundle in `InteropService`: one action per handler
  (`OnInit` ... `OnEnd`), the row of `pending_bundles`, the tasks with their own copies of the
  bundle, the refund monitor (`MarkRefundReady`, `ResumeForRefund`), errors that end a task
  (`TaskFails`) and a restart that loads from the row while the monitor already runs. The initial
  states are all shapes of a bundle: with or without a fee payer, some subset of the sources, both
  kinds of settler. Its transactions are external here: they end as "ok" (confirmed, and the intent
  succeeded), "reverted" (confirmed, and it did not) or "failed"; the handlers differ in which of
  these they tell apart, and the model keeps that difference. `packet` is what became of each LayerZero
  message (`Deliveries`, `build_execute_receive_transactions`): still pending, verified but not available any more, answered
  by the pool, or answered and the escrow's money released; the pool itself is the module LayerZero. An escrow contract releases its money
  once (`CanSucceed`). Liquidity appears as the number of locks and unlocks; what a lock means is
  the module Liquidity, whose holder locks once and is released or cancelled once, which is what
  `LiquidityBalanced` shows of the bundle.
- **Verification** is the monitor behind `wait_for_verifications` for one destination chain: the
  table of log subscriptions behind its lock, the task of each stream (which may end, stall
  silently, or be asked to clean up), the packets that subscribe, read the chain, listen, poll and
  meet their deadline. **PacketWait** is what it promises, on two variables: a wait ends once, and
  as verified only for a message that can be executed. `KeepsPromise` is that specification under
  the mapping of the monitor's states to outcomes.
- **LayerZero** is one settlement path below the bundles: the tasks that hand their message to the
  pool, the pool's handlers, the processor's loop (`process_next_batch`), batches that fail in the
  simulation or revert, deliveries by somebody else (external), and a restart that empties the
  pool.
- **Rebalance** is the rebalance service with both bridges: the ranges of balances, the choice of a
  transfer (`FindNextRebalance`), its lock, the tasks of the simple and of the Binance bridge with the
  data they save, the event channel to the service, which alone writes the state of a transfer and
  ignores storage errors, and the restart from the rows.
- **Storage** applies each operation to both backends and compares the reads, after any sequence
  of operations on a few rows. The tables that share no read are explored apart. The same quotes may be sent
  again: a one-chain bundle then has a second transaction (`AddBundleTx`; Postgres has a row for each, the memory a
  vector of which it reads the first), and an interop bundle is pending although it is finished
  (`StorePendingBundle`).
- **Auth, Sponsorship, Quotes, Accounts, RelayCalls, Contacts** are the request side of the relay:
  tokens and their key cache; quota decisions and the ledger; the search for funds of
  `prepareCalls`; account upgrades and pre-calls; `sendPreparedCalls` with the status and history
  of a bundle; emails and phones with the mail service and Twilio (external). In Accounts a client may sign any
  pre-call: with the nonce the relay offered, or with one it chose itself, which `send_prepared_calls` stores
  unchecked. RelayCalls has a row per transaction that a send registered, the settlement stage of a bundle after
  its payout, and its move to the finished bundles. In AssetInfo a contract answers some of its metadata or none (`Contract`).
- **Prices, AssetInfo, Fees, Monitor, AssetDiffs, Merkle, Transport** support it: the price
  oracle's task, the token metadata service, the fees of an envelope and its replacements, the
  watch of a transaction by three sources, the asset diffs of a simulation, the Merkle tree of an
  intent set, and the transport layers between the relay and the nodes.
- **MCRelay** composes these thirteen. They do not share state in the code but through values that
  another module leaves open (a rate, a receipt, a status), so that a behaviour of MCRelay runs one
  of them while the others stay as they are; `part` says which.
- **MCTxQueue, MCTransactionService, MCSigner, MCLiquidity, MCInteropBundle, MCStorage,
  MCVerification, MCRebalance** give constants their values for TLC; LayerZero needs none.
- **TxQueueProofs, TransactionServiceProofs, SignerProofs, InteropBundleProofs, LayerZeroProofs** hold
  the theorems on the modules they are named after, InteropBundleProofs also those on Quotes; **StorageProofs** holds those on Liquidity and
  Storage, **CrossChainProofs** those on Verification, Rebalance and Merkle, **RelayProofs** those on Fees, Transport, Monitor, Auth,
  Contacts, Prices, RelayCalls, Sponsorship, Accounts, AssetDiffs and AssetInfo.

Definitions named "Mutant of ..." in a comment are wrong variants kept beside the original. Each
property has one that violates it, which shows that the property can fail.

## Runs

| Run | Shows | Bounds |
|---|---|---|
| queue | `StructInvariants`: one in flight per EOA (or as many as were loaded), blocked transactions have a predecessor, the limit; `PerEoaFifo`: per-EOA order; `AcceptedIsSent` | two EOAs with four and one transactions, one internal, limit 2: a third push overflows, promotions chain, several transactions may be loaded for one EOA |
| service | `OneTaskPerEoa` without a restart; `RestartsResume`: over a restart the rows resume what is unfinished, once, and nothing else, but for what a crash met without rows; `WaiterInformed`: a waiter gets the stored final status however its subscription races; `FinalStatusStays`: a final status is not taken back | three transactions of one EOA, limit 1 (so one overflows), one crash |
| service_live | `ServiceProgresses`: every recorded transaction ends, every wait returns | limits of one everywhere, one unrecorded internal transaction, no crash |
| signer | `NoncesSafe`: no nonce for two transactions, and what is pooled is recorded; `LandsOnce`; `ReportsHold`: reported results are true and final | two transactions, one pull of gas, one bump, one crash, unanswered sends |
| signer_live | `SignerProgresses`: every nonce given out is used or given back, every transaction ends unless the process dies, with a foreign user of the key | two transactions, one foreign transaction, one crash |
| liquidity | `LocksCovered`: the locked total is what active locks and unlock rows stand for, and no money is promised twice; `PruneChangesNoDecision`; `LocksDrain` | a bundle over two assets, a pull of gas over one of them, not enough for both; margin and staleness one block, four blocks, one restart |
| bundle | `PayoutSafe`: the destination is paid only after all sources succeeded and while liquidity is locked, which is locked and unlocked once; `OutcomeTrue`: no refund after a payout, every escrow's refund is tried, "done" means that the user was paid, the settlements are confirmed and no message is left pending; `BundleEnds` | up to two sources, three tasks, one restart |
| storage | `BackendsAgree`, `PagesSliceHistory` | two transactions of one one-chain bundle, two interop bundles, chain ids on both sides of the i32 limit (scaled to 3), two transfers, one pull, two accounts, two envelopes |
| verification | `OneSubscription`, `WaitsAnswered`, and `KeepsPromise`, the refinement of PacketWait | two packets, three streams |
| layerzero | `AnsweredMeansDelivered`, `PathProgresses` | three messages, batches of two, one foreign delivery, one restart |
| rebalance | `SourceKeepsThreshold`, `MovedOnce` | two transfers between two chains of different decimals, one spending beside them, one restart |
| relay | one property per part: `TokensJudgedRight`, `QuotaHolds`, `QuotesAreCovered`, `PrecallsKept`, `StatusesHonest`, `RatesAreFresh`, `AssetsAnswered`, `ContactsProven`, `FeesReplaceable`, `WatchesEnd`, `DiffsTell`, `ProofsVerify`, `SubmissionsAccounted` | per part, see below |

Why the bounds are enough: every rule of the queue and the service concerns one EOA at a time or
the comparison of two transactions; three transactions of one EOA with limit one give a pending,
a blocked and an overflowing one at once. The signer's rules compare two holders of nonces; two
transactions plus the pull of gas or a foreign envelope give a nonce given back with and without a
later one taken. One crash reaches every pair of (rows, chain) a restart can see; a second one
starts from the states the first leads to and added nothing in trial runs. For liquidity only the
order of a read, a receipt, the margin and the lock matters: with a margin of one block, four
blocks hold a spending, its margin, a pruning and a lock after it; the proofs cover all margins.
A bundle shares only liquidity and the transaction pipeline with other bundles, so one is enough;
two sources allow one to succeed and the other to fail; the most tasks one restart can lead to are
three (the first, and one each from the loader and the refund monitor).

Two packets on one subscription give a first, a last and a joining listener; a third stream is the
one that replaces a broken one's replacement. Three messages with batches of two give a full batch,
a rest and a gap. Two transfers let a second one be chosen while the first is between any two of
its steps. In the relay run: two token requests over two keys and two rotations; two sponsored
orders over two hours with a window of one; quotes with three source chains, decimals that
differ in both directions, and every fee from 1 to 4 in every round; one key with two stored pre-calls
of nonces 0 and 1, the latter also chosen by the client, one intent (with at most one pre-call of its own,
which authorizes a key) and one execution beside each other; two sends of bundles of one and two quotes, one of
them with a fee payer, one refused; three uids of two coins and two minutes with a time to live of
one; a cache of one entry for two tokens that are not pinned, one without a symbol and one without decimals; three contact requests over two
accounts, two emails and a phone; three envelopes over base fees and
tips on both sides of every threshold; two watches of one hash; three transfers among three parties
with an NFT; trees of one to nine leaves; two delegates, the node and one retry. Each is the
smallest instance in which two requests of the kind overlap and every branch of the code is taken.

The relay run has some 820,000 states; the other runs are smaller.

Deadlock is checked only in the rebalance run, whose service always has a next round; elsewhere the
system may stop when everything is final.

## Fairness

- queue: a pop happens while something is ready (a signer gets capacity again), and every pending
  transaction finishes, because `send_and_watch_transaction` ends in `on_confirmed_transaction`
  or `on_failed_transaction` on every path.
- service: tokio polls every task; a task's steps, the two channels, dispatch and a started call
  go on. A caller need not start, a crash need not happen.
- signer: tasks go on; `close_nonce_gap` retries for ever, so its send is accepted at some time;
  the network includes pooled envelopes in the order of nonces. `transaction_timeout` ends every
  watch, so a watching task cannot stay there.
- liquidity: blocks come; a started lock is decided; a locked holder is sent or cancelled, and a
  sent one ends, with or without a receipt, because its transactions do; the pruning task loops.
  Nothing forces a transfer to land or money to arrive.
- bundle: a task goes on, a transaction that was queued ends (the runs of the service and the
  signer show it, with the exceptions listed under "Disagreements"), refund times pass, a started process
  loads. Nothing forces errors or restarts. A task that ended with an error waits for a restart,
  so `BundleEnds` excludes bundles in that state.
- verification: tokio polls each packet's task, so that its poll interval comes round, and
  `tokio::select!` picks among ready branches at random, so that a deadline that stays due is taken
  (the one strong fairness); the task of a stream handles its clean-up. Streams need not end or
  report anything, packets need not be verified.
- layerzero: the processor's loop and the pool's handlers go on; a batch is built and lands again
  and again as long as it can (strong fairness, because a failing round returns to the start of the
  loop); a bundle's task hands its message over. Nobody need deliver a message, and nothing is
  fair about errors, reverts and restarts.

The runs storage, rebalance and relay check safety only.

## Disagreements

Where the code does something else than a comment, a document or a test says, or than a reader
would expect, the properties state what does hold. The exceptions are these.

Transactions:

- A crash loses a transaction when it comes between the removal of its rows and the next write: before the failed
  status (`signer.rs:342`, `service.rs:392`), or before the second attempt after a used nonce (`signer.rs:685`). Its
  status stays pending for ever: `ServiceProgresses` fails when `MCTransactionServiceLive.cfg` allows one crash, and
  `RestartsResume` says that these are the only moments.
- A confirmed transaction whose row is still there at a restart is watched again, and is marked failed when the watch
  ends with an error and the node does not give its receipt (`signer.rs:603`). Hence the exception in
  `FinalStatusStays`.
- A replacement whose send is not answered can land after its transaction was reported as failed
  (`signer.rs:561`): `ReportsHold` fails with "replace" in `Silent`.
- A pull of gas that cannot lock liquidity returns after it took a nonce, which stays a gap
  (`signer.rs:1138`): `SignerProgresses` fails with `PullGas = TRUE`. At start-up a pull of gas also
  waits for its receipt before the tasks that fill the nonces below it run (`signer.rs:1005`).
- After a restart two transactions of an EOA can be pending or ready, although `TxQueue` says "at
  most one" (`service.rs:492`): several may be loaded, and each end promotes one more. The bound
  that does hold, and is proved, is `InFlightBound`.
- After a restart `wait_for_tx` fails for a queued transaction that is about to be sent: it was
  reloaded without a subscription (`service.rs:214`, against the comment at line 100). Hence
  `WaiterNeverFails` speaks of one process. A popped, not yet persisted transaction is queued again
  at reload and can exceed the limit.
- Tips below ten wei are not raised by ten percent (`fees.rs:114`).
- A second watch of a hash drops the sender of the first, and the first one's deadline removes the
  second's entry (`flashblocks.rs:133`); the node's own watch covers both.

Bundles, liquidity and settlement:

- A bundle is done although its settlement transaction reverted (`interop.rs:1100`, against
  `docs/architecture/cross-chain.md:72`), although the batch with its message reverted
  (`batcher/processor.rs:217`) or its call of settle, which may fail, did (`layerzero/mod.rs:597-611`), and although a verified
  message was not available any more (`layerzero/mod.rs:484-494`). Hence `DoneMeansAnswered` says confirmed and not
  pending, never successful: nobody looks whether an escrow's money came.
- After a restart two tasks can work on one bundle (`interop.rs:1331`, `1341`), and its row may be
  finished while the other task is queueing refunds.
- Pruning changes a lock decision when the lock transaction runs more than the margin after its
  balance was read (`pg.rs:1194`, against `tracker.rs:52`); nothing in the code bounds that time.
  Hence the parameter `Staleness`.
- A pull of gas reads the funder's balance and the block number concurrently (`signer.rs:1083`), so that the number
  need not be the "block number at which the balance was fetched" (`storage/api.rs:91`). If a spending lies between
  the two, its unlock row is counted although the balance still holds its money, and more is locked than the funder
  has: `NoOvercommit` fails without the term `SkewedOf`, which excepts exactly these locks. The opposite order only
  refuses too much.
- `on_refunds_queued` finishes a bundle as failed whatever became of its refunds
  (`interop.rs:787`; so `EscrowsRefunded` says that a refund was tried), although `RefundsQueued` is said to last "while retrying" (line 306).
- LayerZero: a reverted batch counts as confirmed; a pending nonce that somebody else delivered makes
  every batch with it fail until a restart, and a message that was delivered while the process was
  down waits for ever; a missing nonce blocks all later ones; a second message with the same nonce
  drops the first caller.
- Rebalancing: `pending_inbound` counts amounts in units of the source (`rebalance.rs:134`); a
  Binance withdrawal takes the amount with the decimals of the destination; an inbound nonce is
  taken without coordination with other senders; a lost "Sent" followed by "Completed" leaks the lock; a
  mined inbound transfer that is sent again after a restart is recorded as failed though it was
  delivered; an outbound transaction that reverted still leads to a delivery. `misjudged` marks the transfers
  concerned.

Storage, memory against Postgres:

- Memory overwrites where Postgres reports a duplicate (bundles, pre-calls); it sets a refund time
  where Postgres takes the later one; its history leaves out one-chain bundles whose transaction has no hash
  yet, and orders finished bundles by creation instead of end; it unlocks a pull of gas that has no row; it counts a
  sponsored transaction twice. Postgres reads chain ids as i32, so that transactions of a chain with a larger id are
  not found. `BackendsAgree` compares what is left: the reads after operations that both accept, of chains whose id
  fits.
- The bridge data of a missing transfer is an error in memory (`memory.rs:629`) and `None` in Postgres (`pg.rs:1345`).
- `get_bundle_count_by_address` counts one-chain transactions by row in Postgres; in memory it counts bundles, while their
  first transaction is queued or pending (`memory.rs:876`). `CountsAgree` says by which rows they differ.
- Nothing keeps quotes from being sent again. `bundle_transactions` has no key (migration 0014), so that a one-chain
  bundle sent twice is listed and counted twice (`pg.rs:1673`); in memory once. A finished interop bundle can be
  stored as pending again (`pg.rs:919`, `memory.rs` alike); it is then listed under both, `get_interop_status` has two
  rows to choose from (memory takes the pending one), and its second end is an error in Postgres and an overwritten
  entry in memory (`pg.rs:1022`). `PagesSliceHistory` exempts what was sent again (`SentAgain`).

Requests:

- `getCallsHistory`, descending and without an index, returns the oldest page (`relay.rs:3372`).
- Sending the same quotes again registers transactions that may never be sent, so that the bundle
  stays pending, and a failing second send turns a confirmed bundle into a failed one; a reverted
  source leaves a bundle pending; history and faucet report a reverted transaction as confirmed
  (`transaction.rs:404`). `StatusesHonest` promises no failure only for bundles sent once.
- A bundle whose settlement fails after its payout ends as failed (`interop.rs:811-817`, `904-919`): the history says
  failed (`relay.rs:3518`) while `getCallsStatus`, which reads the transactions, says confirmed. `StatusesHonest` allows
  the history this failure and no other.
- An interop bundle that is sent again after it finished runs again (`pg.rs:919` conflicts with pending bundles only),
  and its second row never moves to the finished ones, whose key is taken: the history lists it twice.
- `send_prepared_calls` does not look at the nonce of a pre-call (`relay.rs:3082-3135`), so that a client that chooses
  its nonces can leave a gap. `build_intent` (`relay.rs:1248`) and `execute_pre_calls` (`relay.rs:3826`) stop at it, and
  what lies behind waits. `PrecallsKept` says that the relay itself offers no nonce that leaves one.
- Concurrent `executePreCalls` send the same pre-calls twice (the second reverts).
- Quotes: conversions round down, so that less than a unit of a source's token is lost; a sponsored
  multichain quote still charges the escrow cost on sources; the decimals of the destination are
  looked up by the source's address.
- Sponsorship: overlapping quotes overshoot the quota; failed intents are not booked; a quote that
  was prepared for a verified user and sent without is booked for the account; a failed write of
  the ledger is ignored.
- Auth: cached keys are dropped only when an unknown id comes; an older answer can replace a newer.
- Contacts: an address can be verified for two accounts; the comment that other verified emails are
  removed does not hold; a `setPhone` beside a verification makes the phone unverified again;
  overlapping `verifyPhone` requests exceed the limit of attempts.
- Prices: the recorder stores prices that are too old for a rate. Assets: the empty metadata of a
  token that was not deployed yet stays cached; each field of a token may be missing (`asset.rs:416-434`), and one without
  a symbol is read again for every diff. Diffs: a payer who received exactly the fee gets no
  entry, and merging matches by address only.
- Transport: a delegate's RPC error followed by another one's transport error is overwritten, so that
  the transaction goes to the regular node, against the comment at `delegate.rs:93`.
- Merkle: the root of a single leaf leaves the tree uncomputed; the caller asks for proofs only
  of several quotes (`relay.rs:2534`).

## Proofs

Each theorem holds for every value of the constants that its module's named assumptions allow, and
in every reachable state, restarts included. The invariants that the runs check are not inductive as
they stand; the inductive invariant behind each is a definition of the component's module or of its proofs, and TLC
checked it before it was proved.

**TxQueueProofs** (assumptions: `NoEoa` is not an EOA, `EoaOf` is a function, the limit is natural).

- `StructInvariantsHold`: the structural invariant of the run "queue", whose parts are
  `InFlightBounded`, `BlockedAlwaysHasPredecessor` and `CapacityRespected`; `TypeCorrect`;
- `OrderIsKept`: `PerEoaFifo`, the order of each EOA's transactions.
- `Inductive`: the inductive invariant `IInv` behind them.

`IInv` adds that the two pending maps are inverse (`PendingMapsAgree`), that `ready_per_eoa` counts
the ready queue (`ReadyCountExact`, by counting positions), that a blocked queue holds only its
EOA's transactions (`BlockedOwner`), that the compared sets are finite, and that during loading the
loaded transactions are all there is (`LoadingOnly`). The bound on transactions in flight then
follows action by action: a push to ready needs both counts to be zero, a pop moves one from ready
to pending, and a finish takes one away before the promotion adds one. The order is stated by
positions (`Joined`): what was accepted of an EOA is what was sent, then its transactions in the
ready queue by their rank there, then its blocked queue. Filtering a sequence would need an induction;
ranks are cardinalities, which the library's theorems on finite sets handle.

**TransactionServiceProofs** (assumptions: `QueueAssumption`, those of the queue; awaited and
unrecorded transactions are transactions, the unrecorded ones internal; limits are natural).

- `RowsDecideRestarts`, `WaitsTellTruth`, `TasksSerialised`: the invariants `RestartsResume`,
  `WaiterInformed` and `OneTaskPerEoa` of the run "service";
- `FinalStatusesStay`: the action property `FinalStatusStays`; a failed transaction has no row left, one that is
  watched has one (`Tracked`), so none is both;
- `EveryIdIsNew`: the queue is never given an id twice between two restarts;
- `QueuePromisesHold`: what TxQueueProofs shows of the queue holds for the one inside the service. The
  lemmas of TxQueueProofs are cited through INSTANCE, none is repeated.

The invariant follows a transaction through callers, command channel, queue, task, rows and events:
it is in one place (`OnePlace`, `NothingTwice`), its rows are those of that place (`RowsFollow`), its
status is not ahead of it (`StatusFollows`), tasks are those of the queue's pending transactions
(`TasksPending`), events in the channel are final (`EventsFinal`), and a subscription made before or
after the final event finds the stored status (`WaitersFollow`). While a process loads, the rows
alone decide (`NothingLoaded`), and a transaction that is not final has one, or is `Rowless` or `lost` (`Tracked`).

**SignerProofs** (assumptions: the owners of envelopes differ; bounds are natural).

- `NoncesAreSafe`, `TransactionsLandOnce`: `NoncesSafe` and `LandsOnce`, whatever calls the node
  leaves unanswered;
- `ReportsAreTrue`: `ReportsHold` if the node answers sends of replacements and queries for
  receipts (the hypothesis of the theorem). Without it the property fails, see "Disagreements".

A nonce is claimed by the task that holds it, by the row that records it and by the envelopes that
reached the network (`Own`). No two transactions claim the same one and the next nonce is above all
claims (`ClaimsOK`), except between a restart and the loading of the rows, when the rows still do.
`TaskOK` says what a task at each step has recorded and sent, which decides what a nonce that is
given back or resynchronised may still stand for. The transaction count of the node bounds the nonces
of its pool, and the count of pending envelopes is compared with it by cardinality.

**StorageProofs** has two sections.

Liquidity (assumptions: finitely many holders; `Staleness <= PruneMargin`, a hypothesis of the
theorems that need it):

- `LocksAreCovered`: the invariant of the run "liquidity", from the next two;
- `LocksAreAccounted`: a locked total is the sum over active holders and rows. In particular the
  floor at 0 in `prune_unlocked_entries` never takes effect;
- `NeverOvercommitted`: balance plus late spendings and skewed locks of pulls of gas cover the locks still to be paid;
- `PruningIsNeutral`: pruning changes no lock decision;
- `Inductive`: the invariant behind them.

Sums are cardinalities of sets of units (`Units`), so that they add up over disjoint sets by the
library's theorems on finite sets instead of an induction. The invariant has to relate a balance
read in the past to the present one: `ReadsBounded` says it is too high at most by what landed
after its block, and `RowsKept` with `ReadsFresh` says that each of these spendings is still in
the locked total, as an active lock or as a row that the lock does not count, because pruning
stays `PruneMargin` behind (`PruneBehind`) and reads are at most `Staleness` old. Spending that was
reported as failed is counted apart (`late`), since its row gives the money back early. A balance is
bounded by what landed after the block it was read at (`readAt`, history), which the decision's block number covers
unless the lock is `Skewed`; skewed locks are counted apart too. `RowsUnique` and `RowsEnded` make one row per transfer, so that pruning subtracts exactly
what the row stands for. Without the assumption it fails: with a margin of one
block and a staleness of two, TLC finds a lock whose decision the pruning changed.

Storage (assumptions: chain ids are natural; ids of transactions and of interop bundles differ, as they
are random or hashes):

- `BackendsCorrespond`: the invariant. Most tables are equal (`TablesEqual`); for the others it says how a
  row and an entry of the in-memory map correspond, whatever earlier writes left in the row's other
  columns (`StatusesFollow`, `BundlesFollow`, `TransfersFollow`), and that the rows of `bundle_transactions` are
  the vectors of the bundles (`LinksFollow`);
- `BackendsAlwaysAgree`: `BackendsAgree`, read by read from the invariant. For the counts, the rows that the memory
  counts are in bijection with its bundles by the first transaction (`FirstIs`, `CountsAgreeNow`);
- `PagesAlwaysSlice`: `PagesSliceHistory`, and `EveryPageIsASlice` for pages of any length and offset. The
  argument is `LimitInside`: a part of a table that has its first n rows is cut like the table at every
  m up to n, because the first row that is missing ahead of some row has n rows before it, all of
  which are there; and the first n rows of a union are among the first n rows of its parts
  (`LimitOfUnion`), so that cutting each branch of the query at the end of the page loses none of the page.

**InteropBundleProofs** (assumption: bounds are natural; any set of sources).

- `PayoutsAreSafe`, `OutcomesAreTrue`: the invariants of the run "bundle".

The invariant has two regimes. Until refunds are scheduled at most one task works on the bundle
(`OneTask`) and the status tells what has happened (`Reached`), in the row and in the task's copy, which
is ahead of the row in two places (`Ahead`). Afterwards several tasks may work on it (`Refunding`), but
the sources are final, the destination was not paid and will not be, and the lock is gone.

The funds of a bundle are in the same module:

- `QuotesAreAlwaysCovered` (Quotes; finitely many chains and assets, decimals are a byte, fees are positive, and a
  request with a fee payer is not sponsored, `relay.rs:1812`): `QuotesAreCovered`, under one hypothesis on the
  configuration, `SameDecimals`. `source_funds` looks up the decimals of the destination under the address that the
  token has on the source (`relay.rs:1643`), so the theorem needs that what is found there is the same asset or has
  the same decimals; the tokens of the run "relay"
  satisfy it, and have different decimals on two chains. The
  inductive invariant `QuoteIInv` says that the plan is a sequence of `Takings`, amounts that a source has along with
  its fee, which every step of the loop over the sources keeps, and that an answer that waits while funds are
  sourced has deficits. Converted to other decimals and back, an amount loses less than one unit (`AdjustLoss`,
  `AdjustBack`), and a chain with twice the sum of the fees has the sum once it is rounded to that chain's decimals.

**CrossChainProofs** has a section for each of these.

Verification (assumption: finitely many packets, at least one verification needed):

- `SubscriptionIsOne`: `OneSubscription`, which needs only that a packet holds a receiver exactly
  while it listens (`ReceiverHeld`); the counts are cardinalities of the listeners;
- `ImplementsPacketWait`: `KeepsPromise`, every step maps to a step of PacketWait or a stutter.

Rebalance (assumptions: finitely many transfers; amounts are natural; the unit of every chain divides
the common scale):

- `MoneyMovesOnce`: `MovedOnce`. The table, the channel and the task of a transfer are
  behind what the chains and the exchange did (`FollowsChains`), so that whatever of them is lost, the
  restart resumes no half that cannot be repeated. Amounts are left out of this invariant;
- `SourcesKeepThreshold`: `SourceKeepsThreshold`. A lock is released at the block at which its money
  left, or once it will not leave any more (`LocksTell`); a balance that was read is higher than the present
  one at most by what left since its block (`ReadsExplained`); and a source holds its threshold, what
  may still leave and what a transfer in preparation has found (`SourceCovered`). Sums over transfers are
  cardinalities of sets of units, also after scaling.

Merkle (assumption: a quote has at least one intent):

- `ProofsAlwaysVerify`: `ProofsVerify`, for any number of leaves. The layers of the array lie one behind
  the other (`LayersApart`), and their sizes stay below the powers of two, so that the last one is one node
  (`OneRoot`). Hashing a layer leaves the ones below it alone (`LayerHashed`), so that each node of the
  computed tree is the hash of its pair, padded or not; a proof's rolling hash therefore meets the node above
  in every layer (`Climb`), and the symbolic hash is injective, so that only one leaf can (`OneLeaf`). What a
  recursive function computes layer by layer is shown by way of the least layer at which it would
  fail (`LeastNumber`, from the library's well-founded relations). The limit `MAX_TREE_SIZE` is not in the model.

**LayerZeroProofs** (assumption: bounds are natural).

- `AnswersAreTrue`: `AnsweredMeansDelivered`. Batches are runs of nonces (`ProcessorShape`,
  `FlyingShape`), the batch of the running process is the one its processor waits for, and one that it
  takes for confirmed was executed unless it reverted (`ConfirmedLanded`).

**RelayProofs** has a section for each of these parts:

- `EnvelopesReplaceable` (Fees; amounts are natural): `FeesReplaceable`, from lemmas on rounded
  percentages for all base fees, tips and ceilings;
- `SubmissionsAreAccounted` (Transport; delegates are not the node or the sequencer):
  `SubmissionsAccounted`, with `AnswerTrue`, `OnlyMeant` and `DelegatesFirst`;
- `WatchesAllEnd` (Monitor; times are natural): `WatchesEnd`, with `OneKeeper`, `MapKept` and
  `ReceiptsReal`: the watcher knows a watch in one place, and only while its future waits;
- `TokensAreJudgedRight` (Auth; tokens are well formed): `TokensJudgedRight`, with `KeysServed`,
  `SteadyKeys` and `LookupsOfJwts`: cached and fetched keys were served, and a key served all the
  while is in every answer;
- `ContactsAreProven` (Contacts; a positive limit of attempts): `ContactsProven`, with `TokensMailed`,
  `PhonesApproved` and `OneAsking`;
- `RatesStayFresh` (Prices; times are natural, pairs are of known coins): `RatesAreFresh`. A sample is dated no
  later than it was taken, wherever it is on its way (`SamplesDated`), and samples reach the registry and the table of
  historical prices in order (`SamplesInOrder`, `OneRecording`, `RowsInOrder`); so a rate that a pricing used was
  younger than `RateTtl` (`PricesAge`), and all tokens of a coin have the same one (`CoinsAgree`);
- `StatusesAreHonest` (RelayCalls; at most `MaxQuotes` quotes in a bundle, faucet requests are apart):
  `StatusesHonest`. A status is read from rows that other requests write: `RequestsRegister`,
  `RowsOfSent` and `BundlesOfSent` tie each row to the request and the step that wrote it, and the stage of a
  bundle to the quotes that were executed by then (`Behind`);
- `QuotasHold` (Sponsorship; limits are natural, finitely many orders): `QuotaHolds`. Unless two quotes overlapped or
  one was booked for somebody else, everything granted and included is in the ledger (`SpendingBooked`), one
  order is between its quote and its booking (`OneAtATime`), and both sums stay below their limit with
  it (`BelowBreaker`, `BelowQuota`); sums are counted by units;
- `PrecallsAreKept` (Accounts; nonces are natural): `PrecallsKept`, with `NoGaps` and `ConfirmedUsed`: a nonce
  missing in front of a stored or offered one is accounted for by a nonce that the client chose (`Accounted`); what a transaction
  finds on the chain after each of its calls is described by way of the first call that would break it;
- `DiffsAlwaysTell` (AssetDiffs; amounts are natural): `DiffsTell`. The builder's entry of an account
  and token is what was moved (`Booked`), the one of an NFT what its first and its present owner tell
  (`NftsTracked`); collapsing, merging and removing the fee keep that;
- `AssetsAreAnswered` (AssetInfo; the cache has a place): `AssetsAnswered`. The cache is a sequence
  without repetition of at most `Capacity` entries with what their contracts answer (`Caches`, `TrueOf`), after every asset of a message;
  what a message was answered from is what the cache had before it or the chain told (`InquiryOK`).

Only model-checked:

- liveness (`AcceptedIsSent`, `ServiceProgresses`, `SignerProgresses`, `LocksDrain`, `BundleEnds`,
  `WaitsAnswered`, `PathProgresses`): the prover has no rules for fairness and ENABLED.

## Not modelled

- Configuration, spawning, command line, diagnostics and metrics: wiring and start-up checks.
- ABI encodings, signatures and hashing (a signature is good or not, hashes do not collide), gas
  estimation as a number, the exchange's and Twilio's requests beyond their answers.
- RPC methods that only read and format: capabilities, keys, assets, health.
- Storage errors in the pipeline: a storage call always answers, except where the code ignores the
  error (Rebalance, Prices). A lost connection is the crash.
- The active and paused lists of the service, which only metrics read; a paused signer is one that
  takes no transaction, which the model allows by not dispatching to it.
- Liquidity of several chains in one lock (each chain has its own blocks and rows), and the
  database's abort of one of two transactions that wait for each other (`pg.rs:178`).
- In InteropBundle and Verification the clock: a refund time or a deadline may pass at any time.
  A deadline that starts anew after a restart (`verification.rs:195`) is therefore one of them.
- In Signer the two writes of `on_confirmed_transaction` and of `on_failed_transaction` are one
  step; TransactionService has them apart, with a crash in between.
- A LayerZero batch whose wait failed leaves the model (`BatchFails`) although it may land later
  (`processor.rs:205-214`); landing then is a delivery by somebody else, which the model has, and a late revert changes
  nothing.
- The exchange of the Binance bridge tells the truth and pays out what it accepted: a wrong "no such withdrawal"
  (`binance.rs:447`) and a payout whose receipt is a revert (`binance.rs:501`) do not occur.
- The recorder of prices asks at most once a minute; a tokio interval that was delayed catches up with several ticks
  (`oracle.rs:149`), which would write the minute's rows again with newer prices.
- The nonces of a pre-call are those of the key it configures; pre-calls that configure no key have random sequences
  and cannot meet. What a contract answers about its token does not change, unless it is deployed. Diffs merge
  fungible tokens; the deadlines of two watches are distinct instants.
- The tools and benchmarks of the repository (`tools/`, `tests/`, `scripts/`).

## Plan

Every invariant and action property of the runs has a theorem; liveness stays with TLC. What may follow are new
questions, each checked before it is proved: several chains in one liquidity lock, U256 amounts near their
limit (`adjust_balance_for_decimals` multiplies unchecked), and the validation of the configuration, from which
`SameDecimals` would follow if it were checked there.
