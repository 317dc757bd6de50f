------------------------------ MODULE Liquidity ------------------------------
(***************************************************************************)
(* Locks on the funder's balance of the assets of one chain.               *)
(*                                                                         *)
(* Before the relay spends an asset (an interop bundle, a bridge transfer  *)
(* or a pull of gas: here a "holder") it reads the funder's balance        *)
(* together with the block it belongs to (a pull of gas asks for the two   *)
(* concurrently), and later, in one SQL transaction, compares it with the  *)
(* locked total.  A finished holder does not reduce the total: it inserts  *)
(* a row of pending_unlocks that carries the block of its receipt, because *)
(* only balances of that block or later ones are known to be without the   *)
(* money.  A task removes old rows and subtracts them from the total.      *)
(*                                                                         *)
(* Every action that is one SQL transaction is one step; reading the       *)
(* chain, the lock, the spending, the unlock and the pruning interleave.   *)
(***************************************************************************)
EXTENDS Integers, FiniteSets

CONSTANTS
  Assets,       \* assets of the chain
  Holders,      \* those who lock: bundles, bridge transfers, pulls of gas
  PullsOfGas,   \* the pulls of gas among them
  Need,         \* Need[h][a]: the amount h locks of a, 0 for none
  MaxNeed,      \* the largest of these amounts
  Supply,       \* Supply[a]: the funder's balance at first
  PruneMargin,  \* rows younger than this many blocks are kept (10 in the code)
  Staleness,    \* a lock is decided within this many blocks of its reads
  MaxBlock,     \* bound on the blocks
  MaxRestarts   \* bound on the restarts

ASSUME NeedAssumption ==
  /\ MaxNeed \in Nat
  /\ Need \in [Holders -> [Assets -> 0..MaxNeed]]

ASSUME BoundAssumption ==
  /\ IsFiniteSet(Holders) /\ PullsOfGas \subseteq Holders
  /\ Supply \in [Assets -> Nat]
  /\ PruneMargin \in Nat /\ Staleness \in Nat
  /\ MaxBlock \in Nat /\ MaxRestarts \in Nat

VARIABLES
  block,        \* latest block of the chain
  balance,      \* [a]: the funder's balance at that block
  locked,       \* table locked_liquidity
  unlocks,      \* table pending_unlocks: holder, asset and block of a row
  phase,        \* [h]: where the holder is, as the database records it
  read,         \* [h]: the assets whose balance was read for the lock
  dated,        \* [h]: the assets for which a block number was read
  seenBalance,  \* [h][a]: that balance
  readAt,       \* [h][a]: the block that was the latest then (history)
  seenBlock,    \* [h][a]: the block number that is taken for it
  spent,        \* [h][a]: the block in which the money left, 0 if it did not
  late,         \* the spendings that the relay takes for failed
  skewed,       \* the locks given on a balance older than its block (history)
  pruneUntil,   \* the block up to which the pruning task will prune
  restarts      \* number of restarts

chainVars == <<block, balance, spent>>
readVars  == <<read, dated, seenBalance, readAt, seenBlock>>
vars == <<chainVars, locked, unlocks, phase, readVars, late, skewed, pruneUntil, restarts>>

NotPruning == -1
Phases == {"idle", "refused", "locked", "sent", "released", "cancelled"}
Row == [holder : Holders, asset : Assets, block : Nat]

Wanted(h) == {a \in Assets : Need[h][a] > 0}

\* The amount of an asset that a set of holders locks, counted unit by unit.
Units(S, a) == {u \in S \X (1..MaxNeed) : u[2] <= Need[u[1]][a]}
Sum(S, a)   == Cardinality(Units(S, a))

HoldersOf(rows, a) == {h \in Holders : \E r \in rows : r.holder = h /\ r.asset = a}

Init ==
  /\ block = 1
  /\ balance = Supply
  /\ locked = [a \in Assets |-> 0]
  /\ unlocks = {}
  /\ phase = [h \in Holders |-> "idle"]
  /\ read = [h \in Holders |-> {}]
  /\ dated = [h \in Holders |-> {}]
  /\ readAt = [h \in Holders |-> [a \in Assets |-> 0]]
  /\ seenBalance = [h \in Holders |-> [a \in Assets |-> 0]]
  /\ seenBlock = [h \in Holders |-> [a \in Assets |-> 0]]
  /\ spent = [h \in Holders |-> [a \in Assets |-> 0]]
  /\ late = {} /\ skewed = {}
  /\ pruneUntil = NotPruning
  /\ restarts = 0

(***************************************************************************)
(* The chain                                                               *)
(***************************************************************************)

\* A new block; what was read for a lock is then one block older.
NewBlock ==
  /\ block < MaxBlock
  /\ \A h \in Holders : \A a \in read[h] : block + 1 - readAt[h][a] <= Staleness
  /\ \A h \in Holders : \A a \in dated[h] : block + 1 - seenBlock[h][a] <= Staleness
  /\ block' = block + 1

EmptyBlock ==
  /\ NewBlock
  /\ UNCHANGED <<balance, spent, locked, unlocks, phase, readVars, late, skewed, pruneUntil, restarts>>

\* Money arrives at the funder.
Fund(a) ==
  /\ NewBlock
  /\ balance' = [balance EXCEPT ![a] = @ + 1]
  /\ UNCHANGED <<spent, locked, unlocks, phase, readVars, late, skewed, pruneUntil, restarts>>

\* The money of one of a holder's transfers leaves the funder in a new block.
Spend(h, a) ==
  /\ a \in Wanted(h) /\ spent[h][a] = 0 /\ balance[a] >= Need[h][a]
  /\ NewBlock
  /\ balance' = [balance EXCEPT ![a] = @ - Need[h][a]]
  /\ spent' = [spent EXCEPT ![h][a] = block + 1]

\* Not so late that its row could not be pruned within MaxBlock.
Land(h, a) ==
  /\ phase[h] = "sent" /\ block + 1 + PruneMargin <= MaxBlock
  /\ Spend(h, a)
  /\ UNCHANGED <<locked, unlocks, phase, readVars, late, skewed, pruneUntil, restarts>>

\* A transfer that was given up lands after all.
LandLate(h, a) ==
  /\ phase[h] = "released"
  /\ Spend(h, a)
  /\ late' = late \cup {<<h, a>>}
  /\ UNCHANGED <<locked, unlocks, phase, readVars, skewed, pruneUntil, restarts>>

(***************************************************************************)
(* Locking                                                                 *)
(***************************************************************************)

\* get_balance_with_block: the balance and its block are read together, each
\* asset on its own.
GetBalanceWithBlock(h, a) ==
  /\ phase[h] = "idle" /\ h \notin PullsOfGas /\ a \in Wanted(h) \ read[h]
  /\ read' = [read EXCEPT ![h] = @ \cup {a}]
  /\ dated' = [dated EXCEPT ![h] = @ \cup {a}]
  /\ seenBalance' = [seenBalance EXCEPT ![h][a] = balance[a]]
  /\ readAt' = [readAt EXCEPT ![h][a] = block]
  /\ seenBlock' = [seenBlock EXCEPT ![h][a] = block]
  /\ UNCHANGED <<chainVars, locked, unlocks, phase, late, skewed, pruneUntil, restarts>>

\* create_pull_gas_context asks for the balance and for the block number in one
\* try_join!: two requests, answered in either order and maybe blocks apart.
GetBalance(h, a) ==
  /\ phase[h] = "idle" /\ h \in PullsOfGas /\ a \in Wanted(h) \ read[h]
  /\ read' = [read EXCEPT ![h] = @ \cup {a}]
  /\ seenBalance' = [seenBalance EXCEPT ![h][a] = balance[a]]
  /\ readAt' = [readAt EXCEPT ![h][a] = block]
  /\ UNCHANGED <<dated, seenBlock>>
  /\ UNCHANGED <<chainVars, locked, unlocks, phase, late, skewed, pruneUntil, restarts>>

GetBlockNumber(h, a) ==
  /\ phase[h] = "idle" /\ h \in PullsOfGas /\ a \in Wanted(h) \ dated[h]
  /\ dated' = [dated EXCEPT ![h] = @ \cup {a}]
  /\ seenBlock' = [seenBlock EXCEPT ![h][a] = block]
  /\ UNCHANGED <<read, seenBalance, readAt>>
  /\ UNCHANGED <<chainVars, locked, unlocks, phase, late, skewed, pruneUntil, restarts>>

\* Mutant of UnlockedAt: every row counts, whatever its block.
UnlockedAtAnyBlock(a, b) == {r \in unlocks : r.asset = a}

\* The rows of an asset that a balance of block b already reflects.
UnlockedAt(a, b) == {r \in unlocks : r.asset = a /\ r.block <= b}

\* The decision of try_lock_liquidity_with for one asset.
Enough(h, a) ==
  seenBalance[h][a] + Sum(HoldersOf(UnlockedAt(a, seenBlock[h][a]), a), a)
    >= locked[a] + Need[h][a]

ForgetReads(hs) ==
  LET Forget(f, none) == [h \in Holders |-> IF h \in hs THEN none ELSE f[h]]
      NoNumber == [a \in Assets |-> 0]
  IN  /\ read' = Forget(read, {}) /\ dated' = Forget(dated, {})
      /\ seenBalance' = Forget(seenBalance, NoNumber)
      /\ readAt' = Forget(readAt, NoNumber)
      /\ seenBlock' = Forget(seenBlock, NoNumber)

\* Both reads of every asset have been answered.
ReadsDone(h) == read[h] = Wanted(h) /\ dated[h] = Wanted(h)

\* Money that left after the balance of an asset was read and not after the
\* block number that is taken for the balance.
Skewed(h, a) ==
  \E g \in Holders : readAt[h][a] < spent[g][a] /\ spent[g][a] <= seenBlock[h][a]

\* The lock of all assets and the holder's own row are one SQL transaction.
Lock(h) ==
  /\ phase[h] = "idle" /\ ReadsDone(h)
  /\ \A a \in Wanted(h) : Enough(h, a)
  /\ locked' = [a \in Assets |-> locked[a] + Need[h][a]]
  /\ phase' = [phase EXCEPT ![h] = "locked"]
  /\ skewed' = skewed \cup {<<h, a>> : a \in {x \in Wanted(h) : Skewed(h, x)}}
  /\ ForgetReads({h})
  /\ UNCHANGED <<chainVars, unlocks, late, pruneUntil, restarts>>

\* One asset without enough liquidity rolls the whole transaction back.
Refuse(h) ==
  /\ phase[h] = "idle" /\ ReadsDone(h)
  /\ \E a \in Wanted(h) : ~Enough(h, a)
  /\ phase' = [phase EXCEPT ![h] = "refused"]
  /\ ForgetReads({h})
  /\ UNCHANGED <<chainVars, locked, unlocks, late, skewed, pruneUntil, restarts>>

(***************************************************************************)
(* Spending and unlocking                                                  *)
(***************************************************************************)

Send(h) ==
  /\ phase[h] = "locked"
  /\ phase' = [phase EXCEPT ![h] = "sent"]
  /\ UNCHANGED <<chainVars, locked, unlocks, readVars, late, skewed, pruneUntil, restarts>>

\* The block of the row of a transfer that is not known to have succeeded: 0 for
\* a bundle and a bridge transfer.  A pull of gas takes the block of the receipt
\* of its revert, else the number of the latest block, or 0 if it gets none; the
\* bound leaves room for the pruning of the row.
FailureBlocks(h) ==
  {0} \cup {b \in 1..block : h \in PullsOfGas /\ b + PruneMargin <= MaxBlock}

\* One row per transfer.
UnlockRows(h, ok, b) ==
  {[holder |-> h, asset |-> a, block |-> IF a \in ok THEN spent[h][a] ELSE b] : a \in Wanted(h)}

\* All transfers have ended: those of ok with a receipt, the others as failed.
\* The unlock and the new status are one SQL transaction.
Release(h, ok, b) ==
  /\ phase[h] = "sent" /\ b \in FailureBlocks(h)
  /\ \A a \in ok : a \in Wanted(h) /\ spent[h][a] > 0
  /\ unlocks' = unlocks \cup UnlockRows(h, ok, b)
  /\ late' = late \cup {<<h, a>> : a \in {x \in Wanted(h) \ ok : spent[h][x] > 0}}
  /\ phase' = [phase EXCEPT ![h] = "released"]
  /\ UNCHANGED <<chainVars, locked, readVars, skewed, pruneUntil, restarts>>

\* What had to happen before the transfers failed; they are never sent.
Cancel(h) ==
  /\ phase[h] = "locked" /\ h \notin PullsOfGas
  /\ unlocks' = unlocks \cup UnlockRows(h, {}, 0)
  /\ phase' = [phase EXCEPT ![h] = "cancelled"]
  /\ UNCHANGED <<chainVars, locked, readVars, late, skewed, pruneUntil, restarts>>

(***************************************************************************)
(* Pruning and restart                                                     *)
(***************************************************************************)

\* Mutant of PruneStart: no margin below the latest block.
PruneStartNoMargin ==
  /\ pruneUntil = NotPruning
  /\ pruneUntil' = block
  /\ UNCHANGED <<chainVars, locked, unlocks, phase, readVars, late, skewed, restarts>>

\* The pruning task asks for the latest block.
PruneStart ==
  /\ pruneUntil = NotPruning
  /\ pruneUntil' = IF block >= PruneMargin THEN block - PruneMargin ELSE 0
  /\ UNCHANGED <<chainVars, locked, unlocks, phase, readVars, late, skewed, restarts>>

Floored(n) == IF n < 0 THEN 0 ELSE n

\* Mutant of Prune: the row of the last block to prune is left.
PruneBelow ==
  LET gone == {r \in unlocks : r.block < pruneUntil}
  IN  /\ pruneUntil # NotPruning
      /\ unlocks' = unlocks \ gone
      /\ locked' = [a \in Assets |-> Floored(locked[a] - Sum(HoldersOf(gone, a), a))]
      /\ pruneUntil' = NotPruning
      /\ UNCHANGED <<chainVars, phase, readVars, late, skewed, restarts>>

\* prune_unlocked_entries: delete the rows and subtract them, floored at 0.
Prune ==
  LET gone == {r \in unlocks : r.block <= pruneUntil}
  IN  /\ pruneUntil # NotPruning
      /\ unlocks' = unlocks \ gone
      /\ locked' = [a \in Assets |-> Floored(locked[a] - Sum(HoldersOf(gone, a), a))]
      /\ pruneUntil' = NotPruning
      /\ UNCHANGED <<chainVars, phase, readVars, late, skewed, restarts>>

\* Only what is in the database survives.  A refused bundle is tried again; a
\* refused transfer left no row and its holder may ask anew.
Restart ==
  /\ restarts < MaxRestarts
  /\ restarts' = restarts + 1
  /\ ForgetReads(Holders)
  /\ phase' = [h \in Holders |-> IF phase[h] = "refused" THEN "idle" ELSE phase[h]]
  /\ pruneUntil' = NotPruning
  /\ UNCHANGED <<chainVars, locked, unlocks, late, skewed>>

Next ==
  \/ EmptyBlock
  \/ \E a \in Assets : Fund(a)
  \/ \E h \in Holders, a \in Assets :
        \/ Land(h, a) \/ LandLate(h, a)
        \/ GetBalanceWithBlock(h, a) \/ GetBalance(h, a) \/ GetBlockNumber(h, a)
  \/ \E h \in Holders : Lock(h) \/ Refuse(h) \/ Send(h) \/ Cancel(h)
  \/ \E h \in Holders, ok \in SUBSET Assets, b \in 0..block : Release(h, ok, b)
  \/ PruneStart
  \/ Prune
  \/ Restart

\* A lock that is taken is decided and used, transactions end, blocks come and
\* the pruning task runs.
Fairness ==
  /\ WF_vars(EmptyBlock)
  /\ WF_vars(PruneStart) /\ WF_vars(Prune)
  /\ \A h \in Holders :
       /\ WF_vars(\E a \in Assets :
                    GetBalanceWithBlock(h, a) \/ GetBalance(h, a) \/ GetBlockNumber(h, a))
       /\ WF_vars(Lock(h) \/ Refuse(h))
       /\ WF_vars(Send(h) \/ Cancel(h))
       /\ WF_vars(\E ok \in SUBSET Assets, b \in 0..block : Release(h, ok, b))

Spec == Init /\ [][Next]_vars
FairSpec == Spec /\ Fairness

(***************************************************************************)
(* Properties                                                              *)
(***************************************************************************)

\* Types of the variables; in particular a locked total is never negative, as
\* numeric_to_u256 assumes.
TypeOK ==
  /\ block \in Nat /\ restarts \in Nat
  /\ balance \in [Assets -> Nat]
  /\ locked \in [Assets -> Nat]
  /\ unlocks \subseteq Row
  /\ phase \in [Holders -> Phases]
  /\ read \in [Holders -> SUBSET Assets]
  /\ dated \in [Holders -> SUBSET Assets]
  /\ seenBalance \in [Holders -> [Assets -> Nat]]
  /\ readAt \in [Holders -> [Assets -> Nat]]
  /\ seenBlock \in [Holders -> [Assets -> Nat]]
  /\ spent \in [Holders -> [Assets -> Nat]]
  /\ late \subseteq Holders \X Assets
  /\ skewed \subseteq Holders \X Assets
  /\ pruneUntil \in Nat \cup {NotPruning}

\* Those whose amount of an asset is in the locked total.
Active == {h \in Holders : phase[h] \in {"locked", "sent"}}
Held(a) == Active \cup HoldersOf(unlocks, a)

\* The locked total of an asset is what the active holders and the rows of
\* pending_unlocks still stand for: no path of lock, unlock, prune, roll-back
\* and restart leaks a lock or takes one back twice.
LocksAccounted == \A a \in Assets : locked[a] = Sum(Held(a), a)

\* Locks whose money is still to leave, money that left although the relay had
\* reported the transfer as failed, and locks of pulls of gas that were given on a
\* balance read before, and a block number read after, a spending.
Outstanding(a) == {h \in Active : spent[h][a] = 0}
LateOf(a) == {h \in Holders : <<h, a>> \in late}
SkewedOf(a) == {h \in Holders : <<h, a>> \in skewed}

\* The funder can pay for every lock that is given out: its balance covers the
\* locks that are not spent yet, except for what transfers reported as failed
\* took from it afterwards, and for the skewed locks themselves.
NoOvercommit ==
  \A a \in Assets :
    balance[a] + Sum(LateOf(a), a) + Sum(SkewedOf(a), a) >= Sum(Outstanding(a), a)

\* Both at once: the totals are exact, and what they allow can be paid.
LocksCovered == LocksAccounted /\ NoOvercommit

\* Pruning is only housekeeping: it never changes the answer that a lock in
\* preparation is going to get.
PruneChangesNoDecision ==
  [][Prune => \A h \in Holders : \A a \in read[h] \cap dated[h] :
               Enough(h, a)' <=> Enough(h, a)]_vars

\* Every lock is taken out of the total in the end.
LocksDrain ==
  \A h \in Holders :
    phase[h] = "locked" ~>
      /\ phase[h] \in {"released", "cancelled"}
      /\ \A r \in unlocks : r.holder # h

(***************************************************************************)
(* The inductive invariant behind LocksAccounted and NoOvercommit          *)
(***************************************************************************)

\* Money leaves only for a holder that was sent.
SpentWhenSent ==
  \A h \in Holders, a \in Assets : spent[h][a] > 0 =>
    a \in Wanted(h) /\ phase[h] \in {"sent", "released"} /\ spent[h][a] <= block

LateWhenReleased ==
  \A h \in Holders, a \in Assets : <<h, a>> \in late =>
    phase[h] = "released" /\ spent[h][a] > 0

\* A lock is recorded as skewed when it is given.
SkewedLocked ==
  \A h \in Holders, a \in Assets : <<h, a>> \in skewed => phase[h] \notin {"idle", "refused"}

\* A row belongs to a holder that has ended, and to the block in which its money
\* left if that is known.
RowsEnded ==
  \A r \in unlocks :
    /\ phase[r.holder] \in {"released", "cancelled"} /\ r.asset \in Wanted(r.holder)
    /\ spent[r.holder][r.asset] > 0 /\ <<r.holder, r.asset>> \notin late =>
         r.block = spent[r.holder][r.asset]

RowsUnique ==
  \A r, s \in unlocks : r.holder = s.holder /\ r.asset = s.asset => r = s

\* The row of known spending is there as long as the margin lasts.
RowsKept ==
  \A h \in Holders, a \in Assets :
    phase[h] = "released" /\ spent[h][a] > 0 /\ <<h, a>> \notin late =>
      \/ spent[h][a] + PruneMargin <= block
      \/ [holder |-> h, asset |-> a, block |-> spent[h][a]] \in unlocks

PruneBehind == pruneUntil > 0 => pruneUntil + PruneMargin <= block

\* What was read is not older than Staleness.
ReadsFresh ==
  \A h \in Holders :
    /\ \A a \in read[h] : readAt[h][a] <= block
    /\ \A a \in dated[h] : seenBlock[h][a] <= block /\ block - seenBlock[h][a] <= Staleness

\* A balance that was read can only be too high by what left since then.
LandedAfter(a, b) == {h \in Holders : spent[h][a] > b /\ <<h, a>> \notin late}
ReadsBounded ==
  \A h \in Holders : \A a \in read[h] :
    balance[a] + Sum(LateOf(a), a) + Sum(LandedAfter(a, readAt[h][a]), a) >= seenBalance[h][a]

Shape ==
  /\ TypeOK /\ SpentWhenSent /\ LateWhenReleased /\ SkewedLocked /\ RowsEnded /\ RowsUnique
  /\ RowsKept /\ PruneBehind /\ ReadsFresh

IInv == Shape /\ LocksAccounted /\ ReadsBounded /\ NoOvercommit
=============================================================================
