------------------------------ MODULE Rebalance ------------------------------
(***************************************************************************)
(* The rebalance service and its bridges.  The service reads the ranges of *)
(* the funder's balances, picks a chain below its threshold and one above  *)
(* it, locks the amount and starts a transfer; a task of the bridge pulls  *)
(* the money on one chain and delivers it on the other.  The tasks tell    *)
(* the service about their progress through a channel, and only the        *)
(* service writes the state of a transfer, so that the table lags behind   *)
(* the tasks.  A restart resumes the transfers from the table and from the *)
(* data that the bridges saved.                                            *)
(***************************************************************************)
EXTENDS Integers, Sequences, FiniteSetsExt

CONSTANTS
  Chains,       \* chains on which the relay holds the asset
  Transfers,    \* transfers that the run may start
  Unit,         \* Unit[c]: 10^decimals of the asset on the chain
  SCALE_FACTOR, \* a common multiple of the units
  Coins,        \* threshold in coins
  Funds,        \* Funds[c]: the funder's balance at first
  Networks,     \* Networks[c]: what Binance tells about the asset on the chain
  MaxSpends,    \* bound on the spendings by others
  MaxRestarts   \* bound on the restarts

ASSUME UnitAssumption ==
  /\ SCALE_FACTOR \in Nat \ {0}
  /\ \A c \in Chains : Unit[c] \in Nat \ {0} /\ SCALE_FACTOR % Unit[c] = 0

\* Amounts are unsigned.
ASSUME FundsAssumption ==
  /\ IsFiniteSet(Transfers) /\ Coins \in Nat
  /\ \A c \in Chains : Funds[c] \in Nat /\ Networks[c].step \in Nat

VARIABLES
  balance,    \* [c]: balance of the funder and the number of its changes, a block
  before,     \* [c]: the same before the last change: what a lagging node answers
  spent,      \* [c]: what bundles took from the balance
  rows,       \* [t]: table bridge_transfers, and the lock on the source's liquidity
  data,       \* [t]: the parts of bridge_data that were saved
  outbound,   \* [t]: the outbound transaction in the transaction service
  landed,     \* [t]: the block of its receipt
  pulls,      \* [t]: how often the money left the source
  inbound,    \* [t]: the inbound transaction, or the withdrawal at the exchange
  nonce,      \* [t]: its nonce
  deliveries, \* [t]: how often the money reached the destination
  task,       \* [t]: where the task of the bridge is
  events,     \* [t]: events in the channel
  progress,   \* transfers_in_progress
  service,    \* the service's loop: phase, ranges read, rebalance found
  misjudged,  \* transfers taken for failed although the money left or may leave
  restarts    \* number of restarts

chainVars == <<balance, before, spent, landed, pulls, deliveries>>
txVars    == <<outbound, inbound, nonce>>
dbVars    == <<rows, data>>
taskVars  == <<task, events, progress, service>>
rebalanceVars == <<chainVars, txVars, dbVars, taskVars, misjudged, restarts>>

Held == -1
NoTransfer == [state |-> "none", lock |-> 0]
Idle == [phase |-> "idle"]

\* A threshold is configured in coins and kept in the units of its chain.
Threshold(c) == Coins * Unit[c]

RebalanceInit ==
  /\ balance = [c \in Chains |-> [amount |-> Funds[c], block |-> 1]]
  /\ before = balance
  /\ spent = [c \in Chains |-> 0]
  /\ rows = [t \in Transfers |-> NoTransfer]
  /\ data = [t \in Transfers |-> {}]
  /\ outbound = [t \in Transfers |-> "none"]
  /\ inbound = [t \in Transfers |-> "none"]
  /\ nonce = [t \in Transfers |-> 0]
  /\ landed = [t \in Transfers |-> 0]
  /\ pulls = [t \in Transfers |-> 0]
  /\ deliveries = [t \in Transfers |-> 0]
  /\ task = [t \in Transfers |-> "off"]
  /\ events = [t \in Transfers |-> << >>]
  /\ progress = {}
  /\ service = Idle
  /\ misjudged = {} /\ restarts = 0

(***************************************************************************)
(* The chains                                                              *)
(***************************************************************************)

Changed(c, amount) ==
  /\ before' = [before EXCEPT ![c] = balance[c]]
  /\ balance' = [balance EXCEPT ![c] = [amount |-> @.amount + amount, block |-> @.block + 1]]

\* A bundle pays from the funder's balance.
Spend(c) ==
  /\ FoldSet(LAMBDA x, y : spent[x] + y, 0, Chains) < MaxSpends
  /\ balance[c].amount >= Unit[c]
  /\ Changed(c, -Unit[c])
  /\ spent' = [spent EXCEPT ![c] = @ + Unit[c]]
  /\ UNCHANGED <<landed, pulls, deliveries, txVars, dbVars, taskVars, misjudged, restarts>>

\* The outbound transaction is included: it pulls the money, or reverts for want
\* of it, and is confirmed in both cases.
OutboundLands(t) ==
  /\ outbound[t] = "queued"
  /\ outbound' = [outbound EXCEPT ![t] = "confirmed"]
  /\ IF balance[rows[t].from].amount >= rows[t].amount
     THEN /\ Changed(rows[t].from, -rows[t].amount)
          /\ pulls' = [pulls EXCEPT ![t] = @ + 1]
     ELSE UNCHANGED <<balance, before, pulls>>
  /\ landed' = [landed EXCEPT ![t] = balance'[rows[t].from].block]
  /\ UNCHANGED <<spent, deliveries, inbound, nonce, dbVars, taskVars, misjudged, restarts>>

OutboundDropped(t) ==
  /\ outbound[t] = "queued"
  /\ outbound' = [outbound EXCEPT ![t] = "failed"]
  /\ UNCHANGED <<chainVars, inbound, nonce, dbVars, taskVars, misjudged, restarts>>

\* Nodes answer with the balance of the latest block or of an earlier one.
Read(c) == {balance[c], before[c]}

(***************************************************************************)
(* Finding a rebalance                                                     *)
(***************************************************************************)

Known == {t \in Transfers : rows[t] # NoTransfer}

\* The sum of the amounts of transfers, counted unit by unit.
TotalAmount(ts) == Cardinality(UNION {{t} \X (1..rows[t].amount) : t \in ts})

\* get_total_locked_at: locks that are held, or released after that block.
LockedAt(c, block) ==
  TotalAmount({t \in Known : rows[t].from = c /\ (rows[t].lock = Held \/ rows[t].lock > block)})

\* The lower bound counts the locks, saturating at zero.
BalanceRange(c, seen) ==
  LET locked == LockedAt(c, seen.block)
  IN  [low |-> IF seen.amount > locked THEN seen.amount - locked ELSE 0, high |-> seen.amount]

\* The upper bound counts transfers under way, in the units of their source.
PendingInbound(c) == TotalAmount({t \in progress : rows[t].to = c})

Scaled(c, amount) == (amount - Threshold(c)) * (SCALE_FACTOR \div Unit[c])

\* The tick of the interval: balances of all chains are read...
BalanceRanges ==
  /\ service.phase = "idle"
  /\ \E seen \in [Chains -> UNION {Read(c) : c \in Chains}] :
       /\ \A c \in Chains : seen[c] \in Read(c)
       /\ service' = [phase |-> "ranges", seen |-> seen]
  /\ UNCHANGED <<chainVars, txVars, dbVars, task, events, progress, misjudged, restarts>>

\* The start of the Binance bridge keeps the deposit addresses of the networks that
\* take deposits, and the withdrawals whose granularity and minimum it can read.
DepositAddresses == {c \in Chains : Networks[c].deposit}
SupportedWithdrawals == {c \in Chains : Networks[c].withdraw /\ Networks[c].step > 0}

\* The smallest amount that a bridge carries, if it serves the direction.
BridgeIds == {"simple", "binance"}
Supports(b, src, dst) ==
  IF b = "simple" THEN {0}
  ELSE {Networks[c].min : c \in {dst} \cap {d \in SupportedWithdrawals : src \in DepositAddresses}}

Min2(a, b) == IF a < b THEN a ELSE b

\* Smallest amount that some bridge carries, and a tenth of the threshold at least.
MinAmounts(src, dst) == UNION {Supports(b, src, dst) : b \in BridgeIds}
GetMinRebalance(src, dst) == Max({Threshold(src) \div 10, Min(MinAmounts(src, dst))})

\* ... then their locks: the chain farthest below its threshold at best gets money
\* from the one farthest above it at worst.
Rebalances ==
  LET low  == [c \in Chains |-> Scaled(c, BalanceRange(c, service.seen[c]).low)]
      high == [c \in Chains |->
                 Scaled(c, BalanceRange(c, service.seen[c]).high + PendingInbound(c))]
      dsts == {c \in Chains : high[c] < 0 /\ \A d \in Chains : high[c] <= high[d]}
      srcs == {c \in Chains : low[c] > 0 /\ \A d \in Chains : low[c] >= low[d]}
      Amount(s, d) == (Min2(-high[d], low[s]) * Unit[s]) \div SCALE_FACTOR
      pairs == {p \in srcs \X dsts : /\ MinAmounts(p[1], p[2]) # {}
                                     /\ Amount(p[1], p[2]) >= GetMinRebalance(p[1], p[2])}
  IN  {[from |-> p[1], to |-> p[2], amount |-> Amount(p[1], p[2])] : p \in pairs}

FindNextRebalance ==
  /\ service.phase = "ranges"
  /\ IF Rebalances = {} THEN service' = Idle
     ELSE \E r \in Rebalances : service' = [phase |-> "found", rebalance |-> r]
  /\ UNCHANGED <<chainVars, txVars, dbVars, task, events, progress, misjudged, restarts>>

\* A bridge that carries the amount in this direction; which one comes first is
\* not determined.
Bridges(r) ==
  {b \in BridgeIds : \E min \in Supports(b, r.from, r.to) : r.amount >= min}

\* try_lock_liquidity_for_bridge: the lock and the row are one SQL transaction.
Bridge(t) ==
  LET r == service.rebalance
  IN  /\ service.phase = "found" /\ rows[t] = NoTransfer
      /\ \E b \in Bridges(r), seen \in Read(r.from) :
           /\ seen.amount >= LockedAt(r.from, seen.block) + r.amount
           /\ rows' = [rows EXCEPT ![t] =
                [state |-> "pending", lock |-> Held, from |-> r.from, to |-> r.to,
                 amount |-> r.amount, bridge |-> b]]
      /\ task' = [task EXCEPT ![t] = "outbound"]
      /\ progress' = progress \cup {t}
      /\ service' = Idle
      /\ UNCHANGED <<chainVars, txVars, data, events, misjudged, restarts>>

\* No bridge, not enough liquidity, or an error of the storage.
BridgeFails ==
  /\ service.phase = "found"
  /\ service' = Idle
  /\ UNCHANGED <<chainVars, txVars, dbVars, task, events, progress, misjudged, restarts>>

(***************************************************************************)
(* The task of a transfer: the outbound half, alike in both bridges        *)
(***************************************************************************)

\* The task tells the service about a state and goes on.
Reports(t, state, block, next) ==
  /\ events' = [events EXCEPT ![t] = Append(@, [state |-> state, block |-> block])]
  /\ task' = [task EXCEPT ![t] = next]

\* The transaction is built, and saved before it is sent.
BuildOutbound(t) ==
  /\ task[t] = "outbound" /\ "outbound" \notin data[t]
  /\ data' = [data EXCEPT ![t] = @ \cup {"outbound"}]
  /\ UNCHANGED <<chainVars, txVars, rows, taskVars, misjudged, restarts>>

\* Mutant of SendOutbound: a transaction is sent whether or not the service knows it.
SendOutboundAgain(t) ==
  /\ task[t] = "outbound" /\ "outbound" \in data[t]
  /\ task' = [task EXCEPT ![t] = "outboundWait"]
  /\ outbound' = [outbound EXCEPT ![t] = "queued"]
  /\ UNCHANGED <<chainVars, inbound, nonce, dbVars, events, progress, service, misjudged, restarts>>

\* It is sent unless the transaction service knows it already.
SendOutbound(t) ==
  /\ task[t] = "outbound" /\ "outbound" \in data[t]
  /\ task' = [task EXCEPT ![t] = "outboundWait"]
  /\ outbound' = [outbound EXCEPT ![t] = IF @ = "none" THEN "queued" ELSE @]
  /\ UNCHANGED <<chainVars, inbound, nonce, dbVars, events, progress, service, misjudged, restarts>>

\* An error before the transaction was sent.
OutboundError(t) ==
  /\ task[t] = "outbound" /\ outbound[t] = "none"
  /\ Reports(t, "outboundFailed", 0, "off")
  /\ UNCHANGED <<chainVars, txVars, dbVars, progress, service, misjudged, restarts>>

\* The receipt's block; whether it succeeded is not looked at.  Binance saves
\* the hash of the deposit first.
OutboundConfirmed(t) ==
  /\ task[t] = "outboundWait" /\ outbound[t] = "confirmed"
  /\ Reports(t, "sent", landed[t], "inbound")
  /\ data' = [data EXCEPT ![t] = IF rows[t].bridge = "binance" THEN @ \cup {"hash"} ELSE @]
  /\ UNCHANGED <<chainVars, txVars, rows, progress, service, misjudged, restarts>>

OutboundFailed(t) ==
  /\ task[t] = "outboundWait" /\ outbound[t] = "failed"
  /\ Reports(t, "outboundFailed", 0, "off")
  /\ UNCHANGED <<chainVars, txVars, dbVars, progress, service, misjudged, restarts>>

\* The wait for the transaction fails though it is under way (nobody is told about
\* transactions that were queued before a restart), or the storage fails.
OutboundLost(t) ==
  /\ task[t] \in {"outbound", "outboundWait"}
  /\ \/ outbound[t] = "queued" /\ restarts > 0
     \/ outbound[t] = "confirmed" /\ (rows[t].bridge = "binance" \/ task[t] = "outbound")
  /\ Reports(t, "outboundFailed", 0, "off")
  /\ misjudged' = misjudged \cup {t}
  /\ UNCHANGED <<chainVars, txVars, dbVars, progress, service, restarts>>

(***************************************************************************)
(* The inbound half of the simple bridge                                   *)
(***************************************************************************)

AdjustBalanceForDecimals(amount, src, dst) ==
  IF Unit[dst] >= Unit[src] THEN amount * (Unit[dst] \div Unit[src])
  ELSE amount \div (Unit[src] \div Unit[dst])

Simple(t) == rows[t].bridge = "simple"
InboundOn(c) == {t \in Known : rows[t].to = c /\ Simple(t)}
Mined(t) == inbound[t] \in {"mined", "reverted"}
TransactionCount(c) == Cardinality({t \in InboundOn(c) : Mined(t)})

\* Signed with the number of transactions that the bridge's signer has on the
\* chain, whoever else is about to use that nonce.
BuildInbound(t) ==
  /\ task[t] = "inbound" /\ Simple(t) /\ "inbound" \notin data[t]
  /\ data' = [data EXCEPT ![t] = @ \cup {"inbound"}]
  /\ nonce' = [nonce EXCEPT ![t] = TransactionCount(rows[t].to)]
  /\ UNCHANGED <<chainVars, outbound, inbound, rows, taskVars, misjudged, restarts>>

\* The node takes a transaction that it does not know, with a nonce that is
\* neither used nor taken.
NodeAccepts(t) ==
  /\ inbound[t] = "none"
  /\ nonce[t] >= TransactionCount(rows[t].to)
  /\ \A u \in InboundOn(rows[t].to) : inbound[u] = "pooled" => nonce[u] # nonce[t]

SendInbound(t) ==
  /\ task[t] = "inbound" /\ Simple(t) /\ "inbound" \in data[t] /\ NodeAccepts(t)
  /\ inbound' = [inbound EXCEPT ![t] = "pooled"]
  /\ task' = [task EXCEPT ![t] = "inboundWait"]
  /\ UNCHANGED <<chainVars, outbound, nonce, dbVars, events, progress, service, misjudged, restarts>>

InboundLands(t) ==
  /\ inbound[t] = "pooled" /\ nonce[t] = TransactionCount(rows[t].to)
  /\ \/ /\ inbound' = [inbound EXCEPT ![t] = "mined"]
        /\ deliveries' = [deliveries EXCEPT ![t] = @ + 1]
        /\ Changed(rows[t].to, AdjustBalanceForDecimals(rows[t].amount, rows[t].from, rows[t].to))
     \/ /\ inbound' = [inbound EXCEPT ![t] = "reverted"]
        /\ UNCHANGED <<deliveries, balance, before>>
  /\ UNCHANGED <<spent, landed, pulls, outbound, nonce, dbVars, taskVars, misjudged, restarts>>

InboundConfirmed(t) ==
  /\ task[t] = "inboundWait" /\ Simple(t) /\ inbound[t] = "mined"
  /\ Reports(t, "completed", 0, "off")
  /\ UNCHANGED <<chainVars, txVars, dbVars, progress, service, misjudged, restarts>>

(***************************************************************************)
(* The inbound half of the Binance bridge                                  *)
(***************************************************************************)

Binance(t) == rows[t].bridge = "binance"

\* The exchange credits a deposit that it saw on the chain.
Credit(t) ==
  /\ rows[t] # NoTransfer /\ Binance(t) /\ pulls[t] > 0 /\ inbound[t] = "none"
  /\ inbound' = [inbound EXCEPT ![t] = "credited"]
  /\ UNCHANGED <<chainVars, outbound, nonce, dbVars, taskVars, misjudged, restarts>>

\* Once the deposit is complete, the withdrawal is sent unless the exchange knows
\* one with the id of the transfer.
WaitForDepositAndWithdraw(t) ==
  /\ task[t] = "inbound" /\ Binance(t) /\ "hash" \in data[t] /\ inbound[t] # "none"
  /\ inbound' = [inbound EXCEPT ![t] = IF @ = "credited" THEN "withdrawn" ELSE @]
  /\ task' = [task EXCEPT ![t] = "inboundWait"]
  /\ UNCHANGED <<chainVars, outbound, nonce, dbVars, events, progress, service, misjudged, restarts>>

\* The amount is rounded down to what the exchange accepts.
WithdrawalAmount(t) == rows[t].amount - (rows[t].amount % Networks[rows[t].to].step)

PayOut(t) ==
  /\ rows[t] # NoTransfer /\ Binance(t) /\ inbound[t] = "withdrawn"
  /\ inbound' = [inbound EXCEPT ![t] = "paid"]
  /\ deliveries' = [deliveries EXCEPT ![t] = @ + 1]
  /\ Changed(rows[t].to, WithdrawalAmount(t))
  /\ UNCHANGED <<spent, landed, pulls, outbound, nonce, dbVars, taskVars, misjudged, restarts>>

\* find_withdrawal knows the hash, and the receipt is there.
FindWithdrawal(t) ==
  /\ task[t] = "inboundWait" /\ Binance(t) /\ inbound[t] = "paid"
  /\ Reports(t, "completed", 0, "off")
  /\ UNCHANGED <<chainVars, txVars, dbVars, progress, service, misjudged, restarts>>

\* Any error of the inbound half: a node that refuses the transaction, a reverted
\* or missing receipt, an error of the exchange.
InboundFailed(t) ==
  /\ task[t] \in {"inbound", "inboundWait"}
  /\ Reports(t, "inboundFailed", 0, "off")
  /\ UNCHANGED <<chainVars, txVars, dbVars, progress, service, misjudged, restarts>>

(***************************************************************************)
(* The service's events, and restarts                                      *)
(***************************************************************************)

\* Mutant of Stored: the lock ends with the event, not with the block of the pull.
StoredAtOnce(r, e) ==
  [r EXCEPT !.state = e.state,
            !.lock = IF e.state \in {"sent", "outboundFailed"} THEN 0 ELSE @]

\* update_transfer_state, and the unlock in the same SQL transaction once the
\* outbound half is over.
Stored(r, e) ==
  [r EXCEPT !.state = e.state,
            !.lock = IF e.state \in {"sent", "outboundFailed"} THEN e.block ELSE @]

\* An error of the storage is ignored.
HandleEvent(t) ==
  /\ service.phase = "idle" /\ events[t] # << >>
  /\ LET e == Head(events[t])
     IN  /\ rows' \in {rows, [rows EXCEPT ![t] = Stored(@, e)]}
         /\ progress' = IF e.state = "sent" THEN progress ELSE progress \ {t}
  /\ events' = [events EXCEPT ![t] = Tail(@)]
  /\ UNCHANGED <<chainVars, txVars, data, task, service, misjudged, restarts>>

\* into_future starts the tasks of the pending transfers, which go on from the
\* state and the data that were saved.
Resumed(t) ==
  CASE rows[t].state = "pending" -> "outbound"
    [] rows[t].state = "sent" -> "inbound"
    [] OTHER -> "off"

IntoFuture ==
  /\ restarts < MaxRestarts
  /\ restarts' = restarts + 1
  /\ task' = [t \in Transfers |-> Resumed(t)]
  /\ progress' = {t \in Transfers : Resumed(t) # "off"}
  /\ events' = [t \in Transfers |-> << >>]
  /\ service' = Idle
  /\ UNCHANGED <<chainVars, txVars, dbVars, misjudged>>

AdvanceTransfer(t) ==
  \/ BuildOutbound(t) \/ SendOutbound(t) \/ OutboundError(t)
  \/ OutboundConfirmed(t) \/ OutboundFailed(t) \/ OutboundLost(t)
  \/ BuildInbound(t) \/ SendInbound(t) \/ InboundConfirmed(t)
  \/ WaitForDepositAndWithdraw(t) \/ FindWithdrawal(t) \/ InboundFailed(t)

RebalanceNext ==
  \/ BalanceRanges \/ FindNextRebalance \/ BridgeFails \/ IntoFuture
  \/ \E c \in Chains : Spend(c)
  \/ \E t \in Transfers :
       \/ Bridge(t) \/ AdvanceTransfer(t) \/ HandleEvent(t)
       \/ OutboundLands(t) \/ OutboundDropped(t) \/ InboundLands(t)
       \/ Credit(t) \/ PayOut(t)

RebalanceSpec == RebalanceInit /\ [][RebalanceNext]_rebalanceVars

(***************************************************************************)
(* Properties                                                              *)
(***************************************************************************)

\* Rebalancing alone takes no chain below its threshold, though balances may be
\* read from a lagging node and the table lags behind the tasks: the locks of the
\* transfers cover what left or will leave, until the balance shows it.  The
\* exception are transfers that the bridges took for failed by mistake.
SourceKeepsThreshold ==
  \A c \in Chains : Funds[c] >= Threshold(c) =>
    \/ balance[c].amount + spent[c] >= Threshold(c)
    \/ \E t \in misjudged : rows[t].from = c

\* Whatever is lost in a restart, a transfer pulls the money at most once and
\* delivers it at most once, never before its outbound transaction is confirmed;
\* and a transfer recorded as completed has delivered.
MovedOnce ==
  \A t \in Transfers :
    /\ pulls[t] <= 1 /\ deliveries[t] <= 1
    /\ deliveries[t] = 1 => outbound[t] = "confirmed"
    /\ rows[t].state = "completed" => deliveries[t] = 1

(***************************************************************************)
(* The inductive invariant of MovedOnce.  Amounts are left out: no step of *)
(* a transfer depends on one but for whether the outbound one reverts.     *)
(***************************************************************************)

TransferStates == {"pending", "sent", "outboundFailed", "completed", "inboundFailed"}
RowShape(r) ==
  /\ DOMAIN r = {"state", "lock", "from", "to", "amount", "bridge"}
  /\ r.state \in TransferStates /\ r.from \in Chains /\ r.to \in Chains

RebalanceTypeOK ==
  /\ DOMAIN balance = Chains /\ \A c \in Chains : balance[c].block \in Nat
  /\ DOMAIN rows = Transfers /\ \A t \in Transfers : rows[t] = NoTransfer \/ RowShape(rows[t])
  /\ outbound \in [Transfers -> {"none", "queued", "confirmed", "failed"}]
  /\ inbound \in [Transfers ->
       {"none", "pooled", "mined", "reverted", "credited", "withdrawn", "paid"}]
  /\ landed \in [Transfers -> Nat] /\ pulls \in [Transfers -> Nat]
  /\ deliveries \in [Transfers -> Nat]
  /\ task \in [Transfers -> {"off", "outbound", "outboundWait", "inbound", "inboundWait"}]
  /\ events \in [Transfers -> Seq([state : TransferStates, block : Nat])]
  /\ service.phase = "found" => service.rebalance.from \in Chains /\ service.rebalance.to \in Chains

\* What the table, the channel and the task say of a transfer is behind what the
\* chains did: none of them can run ahead, and no half is started anew.
FollowsChains(t) ==
  /\ rows[t] = NoTransfer => outbound[t] = "none" /\ task[t] = "off" /\ events[t] = << >>
  /\ \/ task[t] \in {"inbound", "inboundWait"} \/ rows[t].state = "sent" \/ inbound[t] # "none"
     \/ pulls[t] # 0 \/ \E i \in 1..Len(events[t]) : events[t][i].state = "sent"
     => outbound[t] = "confirmed"
  /\ pulls[t] <= 1
  /\ deliveries[t] = IF inbound[t] \in {"mined", "paid"} THEN 1 ELSE 0
  /\ \/ rows[t].state = "completed"
     \/ \E i \in 1..Len(events[t]) : events[t][i].state = "completed"
     => deliveries[t] = 1

RebalanceIInv == RebalanceTypeOK /\ \A t \in Transfers : FollowsChains(t)

(***************************************************************************)
(* The inductive invariant of SourceKeepsThreshold adds the amounts.       *)
(***************************************************************************)

Seen == [amount : Nat, block : Nat]

AmountsTypeOK ==
  /\ balance \in [Chains -> Seen] /\ before \in [Chains -> Seen] /\ spent \in [Chains -> Nat]
  /\ progress \subseteq Known /\ misjudged \subseteq Known
  /\ \A t \in Known :
       /\ rows[t].amount \in Nat /\ rows[t].lock \in Nat \cup {Held}
       /\ rows[t].bridge = "binance" => Networks[rows[t].to].step > 0
  /\ service.phase = "ranges" => service.seen \in [Chains -> Seen]
  /\ service.phase = "found" => service.rebalance.amount \in Nat

\* A lock is released when the money left, at the block where it left, or when it
\* will not leave; and so it is told in the channel.
LocksTell(t) ==
  /\ rows[t] # NoTransfer /\ rows[t].lock # Held =>
       \/ outbound[t] = "failed"
       \/ outbound[t] = "confirmed" /\ rows[t].lock = landed[t]
       \/ outbound[t] = "none" /\ task[t] = "off" /\ rows[t].state \notin {"pending", "sent"}
  /\ \A i \in 1..Len(events[t]) :
       LET e == events[t][i]
       IN  /\ e.state # "pending" /\ (e.state = "sent" => e.block = landed[t])
           /\ e.state = "outboundFailed" =>
                outbound[t] = "failed" \/ (outbound[t] = "none" /\ task[t] = "off")

\* What left a chain after a block, and what may still leave it.
LeftSince(c, block) == {t \in Known : rows[t].from = c /\ pulls[t] > 0 /\ landed[t] > block}
MayLeave(c) ==
  {t \in Known : /\ rows[t].from = c
                 /\ outbound[t] = "queued" \/ (outbound[t] = "none" /\ rows[t].lock = Held)}

\* A balance that was read is explained by what bundles took and transfers pulled since.
Explains(c, seen) ==
  /\ seen.block <= balance[c].block
  /\ balance[c].amount + spent[c] + TotalAmount(LeftSince(c, seen.block)) >= seen.amount
Reads(c) == {before[c]} \cup IF service.phase = "ranges" THEN {service.seen[c]} ELSE {}
ReadsExplained(c) == \A seen \in Reads(c) : Explains(c, seen)

\* A chain keeps its threshold whatever may still leave it, and the rebalance that
\* was found, if it takes from the chain.
SourceCovered(c) ==
  \/ \E t \in misjudged : rows[t].from = c
  \/ /\ Funds[c] >= Threshold(c) =>
          balance[c].amount + spent[c] >= Threshold(c) + TotalAmount(MayLeave(c))
     /\ service.phase = "found" /\ service.rebalance.from = c =>
          balance[c].amount + spent[c] >=
            Threshold(c) + TotalAmount(MayLeave(c)) + service.rebalance.amount

SourcesIInv ==
  /\ AmountsTypeOK
  /\ \A t \in Transfers \ misjudged : LocksTell(t)
  /\ \A c \in Chains : ReadsExplained(c) /\ SourceCovered(c)
==============================================================================
