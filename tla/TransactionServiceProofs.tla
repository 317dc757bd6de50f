---------------------- MODULE TransactionServiceProofs ----------------------
(***************************************************************************)
(* The transaction service for any transactions, accounts, signers, limits *)
(* and number of restarts.  The queue inside the service obeys the queue's *)
(* specification, so that what TxQueueProofs shows of the queue holds in   *)
(* the service; from this and from the order of the storage writes follow  *)
(* the properties of tasks, rows and waits.                                *)
(***************************************************************************)
EXTENDS TransactionService, TLAPS

QP == INSTANCE TxQueueProofs

(***************************************************************************)
(* The inductive invariant                                                 *)
(***************************************************************************)

Elems(s) == {s[i] : i \in 1..Len(s)}
Unique(s) == \A i, j \in 1..Len(s) : s[i] = s[j] => i = j

\* transactions with a send command that is not handled yet
Sends == {t \in Tx : <<"send", t>> \in Elems(commands)}

\* transactions in the queue and not popped
InQueue == Elems(ready) \cup UNION {Elems(blocked[e]) : e \in Eoa}

\* transactions the queue has not been given yet, and may be
Coming ==
  {t \in Tx : client[t] \in {"new", "stored"}} \cup Sends \cup boot.pending \cup Elems(boot.queued)

Active == {"start", "persisted", "resync", "persisted_again", "watching"}

\* no id occurs twice where it could be taken twice
QueuedOnce ==
  /\ Unique(ready)
  /\ \A e \in Eoa : Unique(blocked[e]) /\ Elems(ready) \cap Elems(blocked[e]) = {}
NothingTwice == Unique(queued_txs) /\ Unique(boot.queued) /\ Unique(commands) /\ QueuedOnce

\* a transaction is in one place: with its caller, in the command channel, to be loaded,
\* in the queue, or with a task
OnePlace ==
  /\ \A t \in Coming : t \notin seen /\ task[t] = "none"
  /\ \A t \in InQueue : t \in seen /\ task[t] = "none"
  /\ \A t \in Tx : client[t] # "sent" => t \notin Sends \cup boot.pending \cup Elems(boot.queued)
  /\ Sends \cap (boot.pending \cup Elems(boot.queued)) = {}

\* the rows of a transaction follow its place
RowsFollow ==
  /\ \A t \in Elems(queued_txs) :
       t \notin Unrecorded /\ client[t] # "new" /\ status[t] = "inflight" /\ pending_txs[t] = NoSigner
  /\ \A t \in Tx : client[t] = "stored" => t \in Elems(queued_txs)
  /\ \A t \in (Sends \cup InQueue) \ Unrecorded : t \in Elems(queued_txs)
  /\ Elems(boot.queued) \subseteq Elems(queued_txs)
  /\ \A t \in boot.pending : pending_txs[t] # NoSigner
  /\ \A t \in Tx : client[t] = "new" => pending_txs[t] = NoSigner
  /\ \A t \in Tx \ Unrecorded : task[t] \in {"start", "overflow"} => t \in Elems(queued_txs)
  /\ \A t \in Tx : task[t] \notin {"none", "start", "overflow"} => t \notin Elems(queued_txs)
  /\ \A t \in Tx \ Unrecorded :
       task[t] \in {"resync", "failed", "overflow_removed"} => pending_txs[t] = NoSigner

\* the status of a transaction follows its task
StatusFollows ==
  /\ \A t \in Unrecorded : status[t] = "none"
  /\ \A t \in Tx \ Unrecorded : status[t] = "none" <=> client[t] = "new"
  /\ \A t \in Tx : task[t] \in {"persisted", "resync", "persisted_again"} => status[t] \notin FinalStatus
  /\ \A t \in Tx \ Unrecorded : task[t] = "confirmed" => status[t] = "confirmed"

\* a transaction that a signer handles is pending in the queue
TasksPending ==
  \A t \in Tx : task[t] \in Active =>
    signerOf[t] \in Signers /\ (EoaOf[t] \in Eoa => t \in eoa_to_pending[EoaOf[t]])

\* a final event comes after the write, and from a task that is over
EventsFinal ==
  \A t \in Tx, st \in FinalStatus : <<t, st>> \in Elems(events) =>
    /\ task[t] \in {"confirmed", "none"} /\ t \notin Coming \cup InQueue
    /\ t \notin Unrecorded => status[t] \in FinalStatus

\* without a restart nothing is loaded
NothingLoaded ==
  crashes = 0 => boot = NothingToLoad /\ \A e \in Eoa : loaded[e] = {}

\* no send command comes after a subscription to it
Ordered(c) ==
  \A i, j \in 1..Len(c) : c[i][1] = "subscribe" /\ c[j] = <<"send", c[i][2]>> => j < i

\* a waiter has sent its transaction, and its command comes after the send
WaitersFollow ==
  /\ \A t \in Tx : waiter[t] # "idle" => client[t] = "sent"
  /\ \A t \in Tx : <<"subscribe", t>> \in Elems(commands) => waiter[t] = "subscribing"
  /\ Ordered(commands)
  /\ \A t \in Tx \ Unrecorded : mailbox[t] \in FinalStatus => status[t] \in FinalStatus
  /\ crashes = 0 => \A t \in Tx \ Unrecorded :
       /\ client[t] = "sent" /\ t \notin Sends => t \in subscriptions \/ status[t] \in FinalStatus
       /\ waiter[t] = "unsubscribed" => status[t] \in FinalStatus

\* where a task keeps the row from which its transaction is watched
Watched == {"persisted", "persisted_again", "watching"}

\* what is left of RestartsResume and FinalStatusStays
Tracked ==
  /\ \A t \in Tx : status[t] \in {"inflight", "pending"} =>
       t \in Elems(queued_txs) \/ pending_txs[t] # NoSigner \/ task[t] \in Rowless \/ t \in lost
  /\ \A t \in Tx : status[t] = "failed" => pending_txs[t] = NoSigner
  /\ \A t \in Tx \ Unrecorded : task[t] \in Watched => pending_txs[t] # NoSigner
  /\ crashes = 0 => \A t \in Tx : status[t] = "confirmed" => task[t] \in {"confirmed", "none"}

IInv ==
  /\ TypeOK /\ QP!IInv /\ Tracked /\ WaiterInformed
  /\ NothingTwice /\ OnePlace /\ RowsFollow /\ StatusFollows /\ TasksPending
  /\ EventsFinal /\ NothingLoaded /\ WaitersFollow

(***************************************************************************)
(* Sequences                                                               *)
(***************************************************************************)

LEMMA AppendElems ==
  ASSUME NEW S, NEW s \in Seq(S), NEW x \in S
  PROVE  /\ Append(s, x) \in Seq(S)
         /\ Elems(Append(s, x)) = Elems(s) \cup {x}
         /\ Unique(s) /\ x \notin Elems(s) => Unique(Append(s, x))
<1>1. /\ Len(Append(s, x)) = Len(s) + 1 /\ Len(s) \in Nat
      /\ Append(s, x)[Len(s) + 1] = x
      /\ \A i \in 1..Len(s) : Append(s, x)[i] = s[i]
  OBVIOUS
<1>2. \A i \in 1..Len(s) + 1 : i \in 1..Len(s) \/ i = Len(s) + 1
  BY <1>1
<1>3. Elems(Append(s, x)) = Elems(s) \cup {x}
  <2>1. Elems(Append(s, x)) \subseteq Elems(s) \cup {x}
    BY <1>1, <1>2 DEF Elems
  <2>2. \A i \in 1..Len(s) : s[i] \in Elems(Append(s, x))
    BY <1>1 DEF Elems
  <2>3. x \in Elems(Append(s, x))
    BY <1>1 DEF Elems
  <2> QED
    BY <2>1, <2>2, <2>3 DEF Elems
<1>4. Unique(s) /\ x \notin Elems(s) => Unique(Append(s, x))
  BY <1>1, <1>2 DEF Unique, Elems
<1> QED
  BY <1>3, <1>4

LEMMA TailElems ==
  ASSUME NEW S, NEW s \in Seq(S), s # <<>>
  PROVE  /\ Tail(s) \in Seq(S) /\ Head(s) \in S
         /\ Elems(s) = {Head(s)} \cup Elems(Tail(s))
         /\ Unique(s) => Unique(Tail(s)) /\ Head(s) \notin Elems(Tail(s))
<1>1. /\ Len(s) \in Nat /\ Len(s) > 0 /\ Len(Tail(s)) = Len(s) - 1 /\ Head(s) = s[1]
      /\ \A i \in 1..Len(Tail(s)) : Tail(s)[i] = s[i + 1]
  OBVIOUS
<1>2. Elems(s) = {Head(s)} \cup Elems(Tail(s))
  <2>1. ASSUME NEW i \in 1..Len(s) PROVE s[i] \in {Head(s)} \cup Elems(Tail(s))
    <3>1. CASE i = 1
      BY <1>1, <3>1
    <3>2. CASE i # 1
      <4>1. i - 1 \in 1..Len(Tail(s)) /\ i - 1 + 1 = i
        BY <1>1, <3>2
      <4>2. Tail(s)[i - 1] = s[i]
        BY <1>1, <4>1
      <4> QED
        BY <4>1, <4>2 DEF Elems
    <3> QED
      BY <3>1, <3>2
  <2>2. \A i \in 1..Len(Tail(s)) : i + 1 \in 1..Len(s)
    BY <1>1
  <2>3. 1 \in 1..Len(s)
    BY <1>1
  <2> QED
    BY <1>1, <2>1, <2>2, <2>3 DEF Elems
<1>3. Unique(s) => Unique(Tail(s))
  <2> SUFFICES ASSUME Unique(s), NEW i \in 1..Len(Tail(s)), NEW j \in 1..Len(Tail(s)),
                      Tail(s)[i] = Tail(s)[j]
               PROVE  i = j
    BY DEF Unique
  <2>1. i + 1 \in 1..Len(s) /\ j + 1 \in 1..Len(s) /\ s[i + 1] = s[j + 1]
    BY <1>1
  <2>2. i + 1 = j + 1
    BY <2>1 DEF Unique
  <2> QED
    BY <2>2
<1>4. Unique(s) => Head(s) \notin Elems(Tail(s))
  <2> SUFFICES ASSUME Unique(s), NEW i \in 1..Len(Tail(s)), Tail(s)[i] = Head(s)
               PROVE  FALSE
    BY DEF Elems
  <2>1. i + 1 \in 1..Len(s) /\ 1 \in 1..Len(s) /\ s[i + 1] = s[1]
    BY <1>1
  <2>2. i + 1 = 1
    BY <2>1 DEF Unique
  <2> QED
    BY <2>2
<1> QED
  BY <1>2, <1>3, <1>4

LEMMA RemoveElems ==
  ASSUME NEW s \in Seq(Tx), Unique(s), NEW tx
  PROVE  /\ RemoveRow(s, tx) \in Seq(Tx)
         /\ Elems(RemoveRow(s, tx)) = Elems(s) \ {tx}
         /\ Unique(RemoveRow(s, tx))
<1>1. CASE tx \notin Elems(s)
  <2>1. RemoveRow(s, tx) = s
    BY <1>1 DEF RemoveRow, Elems
  <2> QED
    BY <1>1, <2>1
<1>2. CASE tx \in Elems(s)
  <2> DEFINE row == CHOOSE i \in 1..Len(s) : s[i] = tx
             n == Len(s) - 1
             r == [i \in 1..n |-> s[IF i < row THEN i ELSE i + 1]]
  <2>1. \E i \in 1..Len(s) : s[i] = tx
    BY <1>2 DEF Elems
  <2>2. row \in 1..Len(s) /\ s[row] = tx /\ Len(s) \in Nat
    BY <2>1
  <2>3. RemoveRow(s, tx) = r
    BY <2>1 DEF RemoveRow
  <2> HIDE DEF row
  <2>4. n \in Nat /\ \A i \in 1..n : (IF i < row THEN i ELSE i + 1) \in 1..Len(s) \ {row}
    BY <2>2
  <2>5. \A i \in 1..Len(s) : s[i] \in Tx
    OBVIOUS
  <2>6. r \in [1..n -> Tx]
    BY <2>4, <2>5
  <2>7. r \in Seq(Tx) /\ Len(r) = n
    BY <2>4, <2>6
  <2>8. \A i \in 1..n : r[i] \in Elems(s) /\ r[i] # tx
    BY <2>2, <2>4 DEF Elems, Unique
  <2>9. ASSUME NEW i \in 1..Len(s), s[i] # tx PROVE \E j \in 1..n : r[j] = s[i]
    <3>1. CASE i < row
      <4>1. i \in 1..n /\ r[i] = s[i]
        BY <2>2, <3>1
      <4> QED
        BY <4>1
    <3>2. CASE ~(i < row)
      <4>1. i # row
        BY <2>2, <2>9
      <4>2. i - 1 \in 1..n /\ ~(i - 1 < row) /\ i - 1 + 1 = i
        BY <2>2, <3>2, <4>1
      <4>3. r[i - 1] = s[i]
        BY <4>2
      <4> QED
        BY <4>2, <4>3
    <3> QED
      BY <3>1, <3>2
  <2>10. Elems(r) = Elems(s) \ {tx}
    <3>1. Elems(r) \subseteq Elems(s) \ {tx}
      BY <2>7, <2>8 DEF Elems
    <3>2. \A i \in 1..Len(s) : s[i] # tx => s[i] \in Elems(r)
      BY <2>7, <2>9 DEF Elems
    <3> QED
      BY <3>1, <3>2 DEF Elems
  <2>11. Unique(r)
    <3> SUFFICES ASSUME NEW i \in 1..n, NEW j \in 1..n, r[i] = r[j] PROVE i = j
      BY <2>7 DEF Unique
    <3>1. (IF i < row THEN i ELSE i + 1) = (IF j < row THEN j ELSE j + 1)
      BY <2>4 DEF Unique
    <3> QED
      BY <2>2, <3>1
  <2> QED
    BY <2>3, <2>7, <2>10, <2>11
<1> QED
  BY <1>1, <1>2

(***************************************************************************)
(* The queue inside the service                                            *)
(***************************************************************************)

\* The parts of the queue's type that the service looks at.
LEMMA QueueShape ==
  ASSUME QP!IInv
  PROVE  /\ Q!TypeOK
         /\ ready \in Seq(Tx) /\ blocked \in [Eoa -> Seq(Tx)]
         /\ eoa_to_pending \in [Eoa -> SUBSET Tx] /\ seen \subseteq Tx
         /\ \A e \in Eoa : \A t \in Elems(blocked[e]) : EoaOf[t] = e
<1>1. Q!TypeOK
  BY DEF QP!IInv, QP!TypeOK, Q!TypeOK
<1>2. \A e \in Eoa : \A t \in Elems(blocked[e]) : EoaOf[t] = e
  BY DEF QP!IInv, QP!BlockedOwner, Elems
<1> QED
  BY <1>1, <1>2 DEF Q!TypeOK

\* A step that does not touch the queue.
LEMMA QueueFrame ==
  ASSUME QP!IInv, UNCHANGED queueVars
  PROVE  /\ QP!IInv' /\ InQueue' = InQueue /\ (QueuedOnce => QueuedOnce')
         /\ UNCHANGED <<seen, loaded, eoa_to_pending>>
<1>1. QP!IInv'
  BY DEF QP!IInv, QP!TypeOK, QP!PendingMapsAgree, QP!ReadyCountExact, QP!BlockedOwner,
     QP!FinitePending, QP!LoadingOnly, QP!InFlightBound, QP!BlockedHasPredecessor,
     QP!QueueBound, QP!InFlight, QP!CountQueued, QP!Positions, queueVars
<1> QED
  BY <1>1 DEF InQueue, QueuedOnce, queueVars

LEMMA PushEffect ==
  ASSUME QP!IInv, QueuedOnce, NEW tx \in Tx, tx \notin InQueue, Q!Push(tx)
  PROVE  /\ QP!IInv' /\ QueuedOnce'
         /\ seen' = seen \cup {tx} /\ UNCHANGED <<loaded, eoa_to_pending>>
         /\ InQueue' = IF Q!Overflows(tx) THEN InQueue ELSE InQueue \cup {tx}
<1>1. QP!Push(tx)
  BY DEF Q!Push, QP!Push, Q!PushTransaction, QP!PushTransaction, Q!PushReady, QP!PushReady,
     Q!PushBlocked, QP!PushBlocked, Q!Overflows, QP!Overflows, Q!CountQueued, QP!CountQueued,
     Q!queueVars, QP!queueVars
<1>2. QP!IInv'
  BY <1>1, QP!PushInv, QueueAssumption DEF QP!EoaOfAssumption, QP!MaxQueuedAssumption
<1>3. seen' = seen \cup {tx} /\ UNCHANGED <<loaded, eoa_to_pending>>
  BY DEF Q!Push, Q!PushTransaction, Q!PushReady, Q!PushBlocked, Q!queueVars
<1>4. ready \in Seq(Tx) /\ blocked \in [Eoa -> Seq(Tx)]
  BY QueueShape
<1>5. tx \notin Elems(ready) /\ \A e \in Eoa : tx \notin Elems(blocked[e])
  BY DEF InQueue
<1>6. CASE Q!Overflows(tx)
  <2>1. UNCHANGED <<ready, blocked>>
    BY <1>6 DEF Q!Push, Q!PushTransaction, Q!queueVars
  <2> QED
    BY <1>2, <1>3, <1>6, <2>1 DEF InQueue, QueuedOnce
<1>7. CASE ~Q!Overflows(tx) /\ Q!PushReady(tx)
  <2>1. ready' = Append(ready, tx) /\ blocked' = blocked
    BY <1>7 DEF Q!PushReady
  <2>2. Elems(ready') = Elems(ready) \cup {tx} /\ (Unique(ready) => Unique(ready'))
    BY <1>4, <1>5, <2>1, AppendElems
  <2>3. InQueue' = InQueue \cup {tx}
    BY <2>1, <2>2 DEF InQueue
  <2>4. QueuedOnce'
    BY <1>5, <2>1, <2>2 DEF QueuedOnce
  <2> QED
    BY <1>2, <1>3, <1>7, <2>3, <2>4
<1>8. CASE ~Q!Overflows(tx) /\ Q!PushBlocked(tx)
  <2> DEFINE b == EoaOf[tx]
  <2>1. b \in Eoa /\ ready' = ready /\ blocked' = [blocked EXCEPT ![b] = Append(@, tx)]
    BY <1>8 DEF Q!PushBlocked
  <2>2. /\ Elems(blocked'[b]) = Elems(blocked[b]) \cup {tx}
        /\ Unique(blocked[b]) => Unique(blocked'[b])
    BY <1>4, <1>5, <2>1, AppendElems
  <2>3. \A e \in Eoa \ {b} : blocked'[e] = blocked[e]
    BY <1>4, <2>1
  <2> HIDE DEF b
  <2>4. InQueue' = InQueue \cup {tx}
    <3>1. \A t : t \in InQueue' <=> t \in InQueue \cup {tx}
      BY <2>1, <2>2, <2>3 DEF InQueue
    <3> QED
      BY <3>1
  <2>5. QueuedOnce'
    BY <1>5, <2>1, <2>2, <2>3 DEF QueuedOnce
  <2> QED
    BY <1>2, <1>3, <1>8, <2>4, <2>5
<1> QED
  BY <1>6, <1>7, <1>8 DEF Q!Push, Q!PushTransaction

LEMMA PopEffect ==
  ASSUME QP!IInv, QueuedOnce, Q!Pop
  PROVE  /\ QP!IInv' /\ QueuedOnce' /\ UNCHANGED <<loaded, seen>>
         /\ Head(ready) \in Tx /\ Head(ready) \in InQueue
         /\ InQueue' = InQueue \ {Head(ready)}
         /\ \A e \in Eoa : eoa_to_pending[e] \subseteq eoa_to_pending'[e]
         /\ EoaOf[Head(ready)] \in Eoa => Head(ready) \in eoa_to_pending'[EoaOf[Head(ready)]]
<1>1. QP!Pop
  BY DEF Q!Pop, QP!Pop, Q!PopReady, QP!PopReady, Q!OnSentTransaction, QP!OnSentTransaction
<1>2. QP!IInv'
  BY <1>1, QP!PopInv, QueueAssumption DEF QP!EoaOfAssumption, QP!MaxQueuedAssumption
<1>3. /\ UNCHANGED <<loaded, seen>> /\ ready # <<>> /\ ready' = Tail(ready) /\ blocked' = blocked
      /\ eoa_to_pending' = [e \in Eoa |->
            IF e = EoaOf[Head(ready)] THEN eoa_to_pending[e] \cup {Head(ready)} ELSE eoa_to_pending[e]]
  BY DEF Q!Pop, Q!PopReady, Q!OnSentTransaction
<1>4. ready \in Seq(Tx)
  BY QueueShape
<1>5. /\ Head(ready) \in Tx /\ Elems(ready) = {Head(ready)} \cup Elems(Tail(ready))
      /\ Unique(Tail(ready)) /\ Head(ready) \notin Elems(Tail(ready))
  BY <1>3, <1>4, TailElems DEF QueuedOnce
<1>6. \A e \in Eoa : Head(ready) \notin Elems(blocked[e])
  BY <1>5 DEF QueuedOnce
<1>7. InQueue' = InQueue \ {Head(ready)} /\ Head(ready) \in InQueue
  BY <1>3, <1>5, <1>6 DEF InQueue
<1>8. QueuedOnce'
  BY <1>3, <1>5 DEF QueuedOnce
<1> QED
  BY <1>2, <1>3, <1>5, <1>7, <1>8

LEMMA FinishEffect ==
  ASSUME QP!IInv, QueuedOnce, NEW tx \in Tx, Q!Finish(tx)
  PROVE  /\ QP!IInv' /\ QueuedOnce' /\ UNCHANGED <<loaded, seen>>
         /\ InQueue' = InQueue
         /\ \A e \in Eoa : eoa_to_pending[e] \ {tx} \subseteq eoa_to_pending'[e]
<1> DEFINE o == pending_to_eoa[tx]
<1>1. QP!Finish(tx)
  BY DEF Q!Finish, QP!Finish, Q!OnFinishedPending, QP!OnFinishedPending, Q!Promote, QP!Promote,
     Q!queueVars, QP!queueVars
<1>2. QP!IInv'
  BY <1>1, QP!FinishInv, QueueAssumption DEF QP!EoaOfAssumption, QP!MaxQueuedAssumption
<1>3. UNCHANGED <<loaded, seen>>
  BY DEF Q!Finish
<1>4. ready \in Seq(Tx) /\ blocked \in [Eoa -> Seq(Tx)] /\ eoa_to_pending \in [Eoa -> SUBSET Tx]
  BY QueueShape
<1>5. o \in Eoa \cup {NoEoa}
  BY DEF QP!IInv, QP!TypeOK
<1>6. CASE o = NoEoa
  <2>1. UNCHANGED <<ready, blocked, eoa_to_pending>>
    BY <1>6 DEF Q!Finish, Q!OnFinishedPending, Q!queueVars
  <2> QED
    BY <1>2, <1>3, <2>1 DEF InQueue, QueuedOnce
<1>7. CASE o # NoEoa
  <2>1. o \in Eoa /\ eoa_to_pending' = [eoa_to_pending EXCEPT ![o] = @ \ {tx}] /\ Q!Promote(o)
    BY <1>5, <1>7 DEF Q!Finish, Q!OnFinishedPending
  <2> HIDE DEF o
  <2>2. \A e \in Eoa : eoa_to_pending[e] \ {tx} \subseteq eoa_to_pending'[e]
    BY <1>4, <2>1
  <2>3. CASE blocked[o] = <<>>
    <3>1. UNCHANGED <<ready, blocked>>
      BY <2>1, <2>3 DEF Q!Promote
    <3> QED
      BY <1>2, <1>3, <2>2, <3>1 DEF InQueue, QueuedOnce
  <2>4. CASE blocked[o] # <<>>
    <3> DEFINE h == Head(blocked[o])
    <3>1. ready' = Append(ready, h) /\ blocked' = [blocked EXCEPT ![o] = Tail(@)]
      BY <2>1, <2>4 DEF Q!Promote
    <3>2. blocked[o] \in Seq(Tx) /\ Unique(blocked[o])
      BY <1>4, <2>1 DEF QueuedOnce
    <3>3. /\ h \in Tx /\ Elems(blocked[o]) = {h} \cup Elems(Tail(blocked[o]))
          /\ Unique(Tail(blocked[o])) /\ h \notin Elems(Tail(blocked[o]))
      BY <2>4, <3>2, TailElems
    <3>4. h \notin Elems(ready)
      BY <2>1, <3>3 DEF QueuedOnce
    <3> HIDE DEF h
    <3>5. Elems(ready') = Elems(ready) \cup {h} /\ Unique(ready')
      BY <1>4, <3>1, <3>3, <3>4, AppendElems DEF QueuedOnce
    <3>6. blocked'[o] = Tail(blocked[o]) /\ \A e \in Eoa \ {o} : blocked'[e] = blocked[e]
      BY <1>4, <2>1, <3>1
    <3>7. \A e \in Eoa \ {o} : h \notin Elems(blocked[e])
      BY <2>1, <3>3, QueueShape
    <3>8. InQueue' = InQueue
      <4>1. \A t : t \in InQueue' <=> t \in InQueue
        BY <2>1, <3>3, <3>5, <3>6 DEF InQueue
      <4> QED
        BY <4>1
    <3>9. QueuedOnce'
      BY <2>1, <3>3, <3>5, <3>6, <3>7 DEF QueuedOnce
    <3> QED
      BY <1>2, <1>3, <2>2, <3>8, <3>9
  <2> QED
    BY <2>3, <2>4
<1> QED
  BY <1>5, <1>6, <1>7

LEMMA LoadEffect ==
  ASSUME QP!IInv, QueuedOnce, NEW tx \in Tx, Q!LoadPending(tx)
  PROVE  /\ QP!IInv' /\ QueuedOnce' /\ InQueue' = InQueue
         /\ seen' = seen \cup {tx}
         /\ \A e \in Eoa : eoa_to_pending[e] \subseteq eoa_to_pending'[e]
         /\ tx \in eoa_to_pending'[EoaOf[tx]]
<1>1. QP!LoadPending(tx)
  BY DEF Q!LoadPending, QP!LoadPending, Q!OnSentTransaction, QP!OnSentTransaction
<1>2. QP!IInv'
  BY <1>1, QP!LoadPendingInv, QueueAssumption DEF QP!EoaOfAssumption, QP!MaxQueuedAssumption
<1>3. UNCHANGED <<ready, blocked>> /\ seen' = seen \cup {tx}
  BY DEF Q!LoadPending
<1>4. \A e \in Eoa : eoa_to_pending[e] \subseteq eoa_to_pending'[e]
  BY DEF Q!LoadPending, Q!OnSentTransaction
<1>5. tx \in eoa_to_pending'[EoaOf[tx]]
  BY DEF Q!LoadPending, Q!OnSentTransaction
<1> QED
  BY <1>2, <1>3, <1>4, <1>5 DEF InQueue, QueuedOnce

LEMMA RestartEffect ==
  ASSUME QP!IInv, Q!Restart
  PROVE  QP!IInv' /\ QueuedOnce' /\ InQueue' = {} /\ seen' = {}
<1>1. QP!Restart
  BY DEF Q!Restart, QP!Restart
<1>2. QP!IInv'
  BY <1>1, QP!RestartInv, QueueAssumption DEF QP!EoaOfAssumption, QP!MaxQueuedAssumption
<1>3. ready' = <<>> /\ blocked' = [e \in Eoa |-> <<>>] /\ seen' = {}
  BY DEF Q!Restart
<1>4. Elems(<<>>) = {} /\ Unique(<<>>)
  BY DEF Elems, Unique
<1> QED
  BY <1>2, <1>3, <1>4 DEF InQueue, QueuedOnce

(***************************************************************************)
(* The command channel                                                     *)
(***************************************************************************)

Command == {"send", "subscribe"} \X Tx

LEMMA OrderedAppend ==
  ASSUME NEW c \in Seq(Command), NEW x \in Command, Ordered(c),
         x[1] = "send" => <<"subscribe", x[2]>> \notin Elems(c)
  PROVE  Ordered(Append(c, x))
<1>1. /\ Len(Append(c, x)) = Len(c) + 1 /\ Len(c) \in Nat
      /\ Append(c, x)[Len(c) + 1] = x
      /\ \A i \in 1..Len(c) : Append(c, x)[i] = c[i] /\ c[i] \in Command
  OBVIOUS
<1> SUFFICES ASSUME NEW i \in 1..Len(c) + 1, NEW j \in 1..Len(c) + 1,
                    Append(c, x)[i][1] = "subscribe",
                    Append(c, x)[j] = <<"send", Append(c, x)[i][2]>>
             PROVE  j < i
  BY <1>1 DEF Ordered
<1>2. CASE i \in 1..Len(c) /\ j \in 1..Len(c)
  BY <1>1, <1>2 DEF Ordered
<1>3. CASE i \in 1..Len(c) /\ j = Len(c) + 1
  <2>1. x = <<"send", c[i][2]>> /\ c[i][1] = "subscribe" /\ c[i] \in Command
    BY <1>1, <1>3
  <2>2. c[i] = <<"subscribe", x[2]>> /\ x[1] = "send"
    BY <2>1 DEF Command
  <2> QED
    BY <1>3, <2>2 DEF Elems
<1>4. CASE i = Len(c) + 1 /\ j \in 1..Len(c)
  BY <1>1, <1>4
<1>5. CASE i = Len(c) + 1 /\ j = Len(c) + 1
  <2>1. x[1] = "subscribe" /\ x = <<"send", x[2]>>
    BY <1>1, <1>5
  <2> QED
    BY <2>1
<1> QED
  BY <1>1, <1>2, <1>3, <1>4, <1>5

LEMMA OrderedTail ==
  ASSUME NEW c \in Seq(Command), c # <<>>, Ordered(c)
  PROVE  /\ Ordered(Tail(c))
         /\ Head(c)[1] = "subscribe" => <<"send", Head(c)[2]>> \notin Elems(c)
<1>1. /\ Len(c) \in Nat /\ Len(c) > 0 /\ Len(Tail(c)) = Len(c) - 1 /\ Head(c) = c[1]
      /\ \A i \in 1..Len(Tail(c)) : Tail(c)[i] = c[i + 1]
  OBVIOUS
<1>2. Ordered(Tail(c))
  <2> SUFFICES ASSUME NEW i \in 1..Len(Tail(c)), NEW j \in 1..Len(Tail(c)),
                      Tail(c)[i][1] = "subscribe", Tail(c)[j] = <<"send", Tail(c)[i][2]>>
               PROVE  j < i
    BY DEF Ordered
  <2>1. /\ i + 1 \in 1..Len(c) /\ j + 1 \in 1..Len(c)
        /\ c[i + 1][1] = "subscribe" /\ c[j + 1] = <<"send", c[i + 1][2]>>
    BY <1>1
  <2>2. j + 1 < i + 1
    BY <2>1 DEF Ordered
  <2> QED
    BY <2>2
<1>3. Head(c)[1] = "subscribe" => <<"send", Head(c)[2]>> \notin Elems(c)
  <2> SUFFICES ASSUME c[1][1] = "subscribe", NEW j \in 1..Len(c), c[j] = <<"send", c[1][2]>>
               PROVE  FALSE
    BY <1>1 DEF Elems
  <2>1. j < 1
    BY <1>1 DEF Ordered
  <2> QED
    BY <2>1
<1> QED
  BY <1>2, <1>3

(***************************************************************************)
(* The initial state                                                       *)
(***************************************************************************)

LEMMA InitInv == Init => IInv
<1> SUFFICES ASSUME Init PROVE IInv
  OBVIOUS
<1>1. QP!IInv
  <2>1. QP!Init
    BY DEF Init, Q!Init, QP!Init, Q!EmptyQueue, QP!EmptyQueue
  <2> QED
    BY <2>1, QP!InitInv, QueueAssumption DEF QP!EoaOfAssumption, QP!MaxQueuedAssumption
<1>2. Q!TypeOK
  BY <1>1, QueueShape
<1>3. TypeOK
  BY <1>2, LimitsAssumption DEF Init, TypeOK, NothingToLoad
<1>4. Elems(<<>>) = {} /\ Unique(<<>>) /\ Ordered(<<>>)
  BY DEF Elems, Unique, Ordered
<1>5. /\ Elems(queued_txs) = {} /\ Elems(boot.queued) = {} /\ Sends = {} /\ boot.pending = {}
      /\ seen = {} /\ \A e \in Eoa : loaded[e] = {}
  BY <1>4 DEF Init, Q!Init, NothingToLoad, Sends
<1>6. InQueue = {} /\ NothingTwice
  BY <1>4 DEF Init, Q!Init, Q!EmptyQueue, NothingTwice, QueuedOnce, InQueue, NothingToLoad
<1>7. OnePlace /\ RowsFollow /\ StatusFollows /\ TasksPending
  BY <1>5, <1>6, UnrecordedAssumption
    DEF Init, OnePlace, RowsFollow, StatusFollows, TasksPending, Coming, Active
<1>8. EventsFinal /\ NothingLoaded /\ WaitersFollow
  BY <1>4, <1>5 DEF Init, EventsFinal, NothingLoaded, WaitersFollow, FinalStatus
<1>9. Tracked /\ WaiterInformed
  BY DEF Init, Tracked, Watched, WaiterInformed, WaiterNeverFails, WaiterLearnsStored
<1> QED
  BY <1>1, <1>3, <1>6, <1>7, <1>8, <1>9 DEF IInv

(***************************************************************************)
(* Callers                                                                 *)
(***************************************************************************)

LEMMA QueueTransactionInv ==
  ASSUME IInv, NEW tx \in Tx, QueueTransaction(tx)
  PROVE  IInv'
<1> USE DEF IInv
<1>1. /\ client[tx] = "new" /\ tx \notin Unrecorded /\ client' = [client EXCEPT ![tx] = "stored"]
      /\ queued_txs' = Append(queued_txs, tx) /\ status' = [status EXCEPT ![tx] = "inflight"]
      /\ UNCHANGED <<queueVars, pending_txs, boot, commands, events, subscriptions, task,
                     signerOf, waiter, mailbox, crashes, lost>>
  BY DEF QueueTransaction, serviceVars, taskVars
<1>2. /\ QP!IInv' /\ InQueue' = InQueue /\ QueuedOnce'
      /\ UNCHANGED <<seen, loaded, eoa_to_pending>>
  BY <1>1, QueueFrame DEF NothingTwice
<1>3. client \in [Tx -> {"new", "stored", "sent"}] /\ queued_txs \in Seq(Tx)
      /\ status \in [Tx -> {"none", "inflight", "pending"} \cup FinalStatus]
  BY DEF TypeOK
<1>4. tx \notin Elems(queued_txs) /\ pending_txs[tx] = NoSigner /\ status[tx] = "none"
  BY <1>1 DEF RowsFollow, StatusFollows
<1>5. /\ queued_txs' \in Seq(Tx) /\ Elems(queued_txs') = Elems(queued_txs) \cup {tx}
      /\ Unique(queued_txs')
  BY <1>1, <1>3, <1>4, AppendElems DEF NothingTwice
<1>6. TypeOK'
  BY <1>1, <1>2, <1>5, QueueShape DEF TypeOK, Q!TypeOK, queueVars
<1>7. Sends' = Sends /\ Coming' = Coming /\ tx \in Coming /\ boot' = boot
  BY <1>1, <1>3 DEF Sends, Coming
<1>8. NothingTwice'
  BY <1>1, <1>2, <1>5 DEF NothingTwice
<1>9. OnePlace'
  BY <1>1, <1>2, <1>3, <1>7 DEF OnePlace
<1>10. tx \notin InQueue /\ task[tx] = "none" /\ waiter[tx] = "idle"
  BY <1>1, <1>7 DEF OnePlace, WaitersFollow
<1>11. RowsFollow'
  BY <1>1, <1>2, <1>3, <1>4, <1>5, <1>7, <1>10 DEF RowsFollow
<1>12. StatusFollows' /\ TasksPending'
  BY <1>1, <1>2, <1>3, <1>10, UnrecordedAssumption DEF StatusFollows, TasksPending, FinalStatus
<1>13. EventsFinal' /\ NothingLoaded'
  BY <1>1, <1>2, <1>3, <1>7 DEF EventsFinal, NothingLoaded
<1>14. WaitersFollow'
  BY <1>1, <1>3, <1>4, <1>7, <1>10 DEF WaitersFollow, FinalStatus
<1>15. Tracked' /\ WaiterInformed'
  BY <1>1, <1>3, <1>4, <1>5, <1>10
    DEF Tracked, WaiterInformed, WaiterNeverFails, WaiterLearnsStored
<1> QED
  BY <1>2, <1>6, <1>8, <1>9, <1>11, <1>12, <1>13, <1>14, <1>15

LEMMA SendInv ==
  ASSUME IInv, NEW tx \in Tx, SendTransactionNoQueue(tx)
  PROVE  IInv'
<1> USE DEF IInv
<1>1. /\ client[tx] = "stored" \/ (client[tx] = "new" /\ tx \in Unrecorded)
      /\ client' = [client EXCEPT ![tx] = "sent"]
      /\ commands' = Append(commands, <<"send", tx>>)
      /\ UNCHANGED <<queueVars, rowVars, boot, events, subscriptions, task, signerOf, waiter,
                     mailbox, crashes, lost>>
  BY DEF SendTransactionNoQueue, taskVars
<1>2. /\ QP!IInv' /\ InQueue' = InQueue /\ QueuedOnce'
      /\ UNCHANGED <<seen, loaded, eoa_to_pending, queued_txs, pending_txs, status>>
  BY <1>1, QueueFrame DEF NothingTwice, rowVars
<1>3. client \in [Tx -> {"new", "stored", "sent"}] /\ commands \in Seq(Command)
  BY DEF TypeOK, Command
<1>4. tx \in Coming /\ tx \notin seen /\ task[tx] = "none" /\ tx \notin InQueue
      /\ tx \notin Sends \cup boot.pending \cup Elems(boot.queued) /\ waiter[tx] = "idle"
  BY <1>1 DEF Coming, OnePlace, WaitersFollow
<1>5. <<"send", tx>> \in Command /\ <<"send", tx>> \notin Elems(commands)
  BY <1>4 DEF Command, Sends
<1>6. /\ commands' \in Seq(Command) /\ Elems(commands') = Elems(commands) \cup {<<"send", tx>>}
      /\ Unique(commands')
  BY <1>1, <1>3, <1>5, AppendElems DEF NothingTwice
<1>7. Ordered(commands')
  <2>1. <<"subscribe", tx>> \notin Elems(commands)
    BY <1>4 DEF WaitersFollow
  <2> QED
    BY <1>1, <1>3, <1>5, <2>1, OrderedAppend DEF WaitersFollow
<1>8. Sends' = Sends \cup {tx} /\ Coming' = Coming /\ boot' = boot
  <2>1. Sends' = Sends \cup {tx}
    BY <1>6 DEF Sends
  <2> QED
    BY <1>1, <1>3, <1>4, <2>1 DEF Coming
<1>9. TypeOK'
  BY <1>1, <1>2, <1>6, QueueShape DEF TypeOK, Q!TypeOK, queueVars, Command
<1>10. NothingTwice'
  BY <1>1, <1>2, <1>6 DEF NothingTwice
<1>11. OnePlace'
  BY <1>1, <1>2, <1>3, <1>4, <1>8 DEF OnePlace
<1>12. tx \in Unrecorded \/ tx \in Elems(queued_txs)
  BY <1>1 DEF RowsFollow
<1>13. RowsFollow'
  BY <1>1, <1>2, <1>3, <1>8, <1>12 DEF RowsFollow
<1>14. StatusFollows' /\ TasksPending'
  BY <1>1, <1>2, <1>3, UnrecordedAssumption DEF StatusFollows, TasksPending
<1>15. EventsFinal' /\ NothingLoaded'
  BY <1>1, <1>2, <1>8 DEF EventsFinal, NothingLoaded
<1>16. \A t \in Tx : <<"subscribe", t>> \in Elems(commands') => <<"subscribe", t>> \in Elems(commands)
  BY <1>6
<1>17. WaitersFollow'
  BY <1>1, <1>2, <1>3, <1>4, <1>7, <1>8, <1>16 DEF WaitersFollow
<1>18. Tracked' /\ WaiterInformed'
  BY <1>1, <1>2 DEF Tracked, WaiterInformed, WaiterNeverFails, WaiterLearnsStored
<1> QED
  BY <1>2, <1>9, <1>10, <1>11, <1>13, <1>14, <1>15, <1>17, <1>18

LEMMA SubscribeInv ==
  ASSUME IInv, NEW tx \in Tx, Subscribe(tx)
  PROVE  IInv'
<1> USE DEF IInv
<1>1. /\ client[tx] = "sent" /\ waiter[tx] = "idle"
      /\ waiter' = [waiter EXCEPT ![tx] = "subscribing"]
      /\ commands' = Append(commands, <<"subscribe", tx>>)
      /\ UNCHANGED <<queueVars, rowVars, boot, events, subscriptions, task, signerOf, client,
                     mailbox, crashes, lost>>
  BY DEF Subscribe, taskVars
<1>2. /\ QP!IInv' /\ InQueue' = InQueue /\ QueuedOnce'
      /\ UNCHANGED <<seen, loaded, eoa_to_pending, queued_txs, pending_txs, status>>
  BY <1>1, QueueFrame DEF NothingTwice, rowVars
<1>3. commands \in Seq(Command)
      /\ waiter \in [Tx -> {"idle", "subscribing", "subscribed", "unsubscribed", "waiting", "ok", "error"}]
  BY DEF TypeOK, Command
<1>4. <<"subscribe", tx>> \in Command /\ <<"subscribe", tx>> \notin Elems(commands)
  BY <1>1 DEF Command, WaitersFollow
<1>5. /\ commands' \in Seq(Command) /\ Elems(commands') = Elems(commands) \cup {<<"subscribe", tx>>}
      /\ Unique(commands')
  BY <1>1, <1>3, <1>4, AppendElems DEF NothingTwice
<1>6. Ordered(commands')
  BY <1>1, <1>3, <1>4, OrderedAppend DEF WaitersFollow
<1>7. Sends' = Sends /\ Coming' = Coming
  <2>1. Sends' = Sends
    BY <1>5 DEF Sends
  <2> QED
    BY <1>1, <2>1 DEF Coming
<1>8. TypeOK'
  BY <1>1, <1>2, <1>5, QueueShape DEF TypeOK, Q!TypeOK, queueVars, Command
<1>9. NothingTwice' /\ OnePlace' /\ RowsFollow'
  BY <1>1, <1>2, <1>5, <1>7 DEF NothingTwice, OnePlace, RowsFollow
<1>10. StatusFollows' /\ TasksPending' /\ EventsFinal' /\ NothingLoaded'
  BY <1>1, <1>2, <1>7 DEF StatusFollows, TasksPending, EventsFinal, NothingLoaded
<1>11. \A t \in Tx : <<"subscribe", t>> \in Elems(commands') =>
         t = tx \/ <<"subscribe", t>> \in Elems(commands)
  BY <1>5
<1>12. WaitersFollow'
  BY <1>1, <1>2, <1>3, <1>6, <1>7, <1>11 DEF WaitersFollow
<1>13. Tracked' /\ WaiterInformed'
  BY <1>1, <1>2, <1>3 DEF Tracked, WaiterInformed, WaiterNeverFails, WaiterLearnsStored
<1> QED
  BY <1>2, <1>8, <1>9, <1>10, <1>12, <1>13

\* A waiter that reads the stored status, or the channel.
LEMMA ReadInv ==
  ASSUME IInv, NEW tx \in Tx, ReadStatus(tx) \/ ReceiveFinal(tx)
  PROVE  IInv'
<1> USE DEF IInv
<1>1. PICK w \in {"ok", "waiting", "error"} :
        /\ waiter' = [waiter EXCEPT ![tx] = w]
        /\ w = "ok" => status[tx] \in FinalStatus \/ mailbox[tx] \in FinalStatus
        /\ w = "error" => waiter[tx] = "unsubscribed" /\ status[tx] \notin FinalStatus
        /\ waiter[tx] \in {"subscribed", "unsubscribed", "waiting"}
  <2>1. CASE ReceiveFinal(tx)
    BY <2>1 DEF ReceiveFinal
  <2>2. CASE ReadStatus(tx) /\ status[tx] \in FinalStatus
    BY <2>2 DEF ReadStatus
  <2>3. CASE ReadStatus(tx) /\ status[tx] \notin FinalStatus /\ waiter[tx] = "subscribed"
    BY <2>3 DEF ReadStatus
  <2>4. CASE ReadStatus(tx) /\ status[tx] \notin FinalStatus /\ waiter[tx] = "unsubscribed"
    BY <2>4 DEF ReadStatus
  <2> QED
    BY <2>1, <2>2, <2>3, <2>4 DEF ReadStatus
<1>2. UNCHANGED <<queueVars, rowVars, boot, commands, events, subscriptions, task, signerOf, client,
                  mailbox, crashes, lost>>
  BY DEF ReadStatus, ReceiveFinal, serviceVars, taskVars
<1>3. /\ QP!IInv' /\ InQueue' = InQueue /\ QueuedOnce'
      /\ UNCHANGED <<seen, loaded, eoa_to_pending, queued_txs, pending_txs, status>>
  BY <1>2, QueueFrame DEF NothingTwice, rowVars
<1>4. waiter \in [Tx -> {"idle", "subscribing", "subscribed", "unsubscribed", "waiting", "ok", "error"}]
  BY DEF TypeOK
<1>5. Sends' = Sends /\ Coming' = Coming
  BY <1>2 DEF Sends, Coming
<1>6. TypeOK'
  BY <1>1, <1>2, <1>3, QueueShape DEF TypeOK, Q!TypeOK, queueVars
<1>7. NothingTwice' /\ OnePlace' /\ RowsFollow'
  BY <1>2, <1>3, <1>5 DEF NothingTwice, OnePlace, RowsFollow
<1>8. StatusFollows' /\ TasksPending' /\ EventsFinal' /\ NothingLoaded'
  BY <1>2, <1>3, <1>5 DEF StatusFollows, TasksPending, EventsFinal, NothingLoaded
<1>9. WaitersFollow'
  BY <1>1, <1>2, <1>3, <1>4, <1>5 DEF WaitersFollow
<1>10. Tracked' /\ WaiterInformed'
  BY <1>1, <1>2, <1>3, <1>4
    DEF Tracked, WaiterInformed, WaiterNeverFails, WaiterLearnsStored, WaitersFollow
<1> QED
  BY <1>3, <1>6, <1>7, <1>8, <1>9, <1>10

(***************************************************************************)
(* The service                                                             *)
(***************************************************************************)

\* A transaction that comes to the queue, by a command or from its row.
LEMMA PushedInv ==
  ASSUME IInv, NEW tx \in Coming, tx \notin boot.pending, client[tx] = "sent", Q!Push(tx),
         task' = [task EXCEPT ![tx] = IF Q!Overflows(tx) THEN "overflow" ELSE @],
         Coming' = Coming \ {tx}, Sends' = Sends \ {tx}, boot'.pending = boot.pending,
         Elems(boot'.queued) = Elems(boot.queued) \ {tx},
         TypeOK', Unique(boot'.queued), Unique(commands'),
         boot = NothingToLoad => boot' = NothingToLoad,
         UNCHANGED <<rowVars, events, signerOf, client, crashes, lost>>
  PROVE  /\ QP!IInv' /\ NothingTwice' /\ OnePlace' /\ RowsFollow' /\ StatusFollows'
         /\ TasksPending' /\ EventsFinal' /\ NothingLoaded' /\ Tracked'
<1> USE DEF IInv
<1>1. tx \in Tx /\ tx \notin seen /\ task[tx] = "none" /\ tx \notin InQueue
  <2>1. tx \in Tx
    BY DEF Coming, Sends, TypeOK, Elems
  <2> QED
    BY <2>1 DEF OnePlace
<1>2. /\ QP!IInv' /\ QueuedOnce' /\ seen' = seen \cup {tx} /\ UNCHANGED <<loaded, eoa_to_pending>>
      /\ InQueue' = (IF Q!Overflows(tx) THEN InQueue ELSE InQueue \cup {tx})
  BY <1>1, PushEffect DEF NothingTwice
<1>3. UNCHANGED <<queued_txs, pending_txs, status>>
  BY DEF rowVars
<1>4. task \in [Tx -> {"none", "start", "persisted", "resync", "persisted_again", "watching",
                       "confirmed", "failed", "overflow", "overflow_removed"}]
  BY DEF TypeOK
<1>5. \/ Q!Overflows(tx) /\ task' = [task EXCEPT ![tx] = "overflow"] /\ InQueue' = InQueue
      \/ ~Q!Overflows(tx) /\ task' = task /\ InQueue' = InQueue \cup {tx}
  BY <1>1, <1>2, <1>4
<1>6. tx \in Unrecorded \/ tx \in Elems(queued_txs)
  BY DEF Coming, RowsFollow
<1>7. NothingTwice'
  BY <1>2, <1>3 DEF NothingTwice
<1>8. OnePlace'
  BY <1>1, <1>2, <1>4, <1>5 DEF OnePlace
<1>9. RowsFollow'
  BY <1>1, <1>3, <1>4, <1>5, <1>6 DEF RowsFollow
<1>10. StatusFollows' /\ TasksPending'
  BY <1>1, <1>2, <1>3, <1>4, <1>5 DEF StatusFollows, TasksPending, Active
<1>11. EventsFinal'
  BY <1>1, <1>3, <1>4, <1>5 DEF EventsFinal
<1>12. NothingLoaded'
  BY <1>2 DEF NothingLoaded
<1>13. Tracked'
  <2>1. status[tx] # "confirmed"
    BY <1>1, <1>6 DEF StatusFollows, RowsFollow
  <2> QED
    BY <1>1, <1>3, <1>4, <1>5, <2>1 DEF Tracked, Watched, Rowless
<1> QED
  BY <1>2, <1>7, <1>8, <1>9, <1>10, <1>11, <1>12, <1>13

LEMMA HandleCommandInv ==
  ASSUME IInv, HandleCommand
  PROVE  IInv'
<1> USE DEF IInv
<1>1. /\ commands # <<>> /\ commands' = Tail(commands)
      /\ UNCHANGED <<rowVars, boot, events, signerOf, client, crashes, lost>>
  BY DEF HandleCommand
<1>2. commands \in Seq(Command)
  BY DEF TypeOK, Command
<1>3. /\ Head(commands) \in Command /\ commands' \in Seq(Command) /\ Unique(commands')
      /\ Elems(commands) = {Head(commands)} \cup Elems(commands')
      /\ Head(commands) \notin Elems(commands')
  BY <1>1, <1>2, TailElems DEF NothingTwice
<1>4. Ordered(commands')
      /\ (Head(commands)[1] = "subscribe" => <<"send", Head(commands)[2]>> \notin Elems(commands))
  BY <1>1, <1>2, OrderedTail DEF WaitersFollow
<1>5. PICK tx \in Tx :
        \/ Head(commands) = <<"send", tx>> /\ HandleSend(tx)
        \/ Head(commands) = <<"subscribe", tx>> /\ HandleSubscribe(tx)
  <2>1. PICK k \in {"send", "subscribe"}, t \in Tx : Head(commands) = <<k, t>>
    BY <1>3 DEF Command
  <2> QED
    BY <2>1 DEF HandleCommand
<1>6. UNCHANGED <<queued_txs, pending_txs, status>>
  BY <1>1 DEF rowVars
<1>7. \A t \in Tx : <<"subscribe", t>> \in Elems(commands') => <<"subscribe", t>> \in Elems(commands)
  BY <1>3
<1>8. /\ task \in [Tx -> {"none", "start", "persisted", "resync", "persisted_again", "watching",
                           "confirmed", "failed", "overflow", "overflow_removed"}]
      /\ waiter \in [Tx -> {"idle", "subscribing", "subscribed", "unsubscribed", "waiting", "ok", "error"}]
      /\ mailbox \in [Tx -> {"none"} \cup FinalStatus] /\ subscriptions \subseteq Tx
      /\ client \in [Tx -> {"new", "stored", "sent"}]
  BY DEF TypeOK
<1>9. CASE Head(commands) = <<"send", tx>> /\ HandleSend(tx)
  <2>1. /\ subscriptions' = subscriptions \cup {tx} /\ Q!Push(tx)
        /\ task' = [task EXCEPT ![tx] = IF Q!Overflows(tx) THEN "overflow" ELSE @]
        /\ UNCHANGED <<waiter, mailbox>>
    BY <1>9 DEF HandleSend
  <2>2. tx \in Sends /\ tx \in Coming
    BY <1>3, <1>9 DEF Sends, Coming
  <2>3. client[tx] = "sent" /\ tx \notin boot.pending /\ tx \notin Elems(boot.queued)
        /\ tx \notin seen /\ tx \notin InQueue
    BY <1>8, <2>2 DEF OnePlace
  <2>4. Sends' = Sends \ {tx}
    BY <1>3, <1>9 DEF Sends
  <2>5. Coming' = Coming \ {tx}
    BY <1>1, <2>3, <2>4 DEF Coming
  <2>6. Q!TypeOK'
    <3>1. QP!IInv'
      BY <2>1, <2>3, PushEffect DEF NothingTwice
    <3> QED
      BY <3>1 DEF QP!IInv, QP!TypeOK, Q!TypeOK
  <2>7. TypeOK'
    BY <1>1, <1>3, <1>6, <1>8, <2>1, <2>6 DEF TypeOK, Command
  <2>8. Unique(boot'.queued) /\ Elems(boot'.queued) = Elems(boot.queued) \ {tx}
    BY <1>1, <2>3 DEF NothingTwice
  <2>9. /\ QP!IInv' /\ NothingTwice' /\ OnePlace' /\ RowsFollow' /\ StatusFollows'
        /\ TasksPending' /\ EventsFinal' /\ NothingLoaded' /\ Tracked'
    BY <1>1, <1>3, <2>1, <2>2, <2>3, <2>4, <2>5, <2>7, <2>8, PushedInv
  <2>10. WaitersFollow'
    BY <1>1, <1>4, <1>6, <1>7, <2>1, <2>4 DEF WaitersFollow
  <2>11. WaiterInformed'
    BY <1>1, <1>6, <2>1 DEF WaiterInformed, WaiterNeverFails, WaiterLearnsStored
  <2> QED
    BY <2>7, <2>9, <2>10, <2>11
<1>10. CASE Head(commands) = <<"subscribe", tx>> /\ HandleSubscribe(tx)
  <2>1. /\ waiter' = [waiter EXCEPT ![tx] = IF tx \in subscriptions THEN "subscribed" ELSE "unsubscribed"]
        /\ mailbox' = [mailbox EXCEPT ![tx] = "none"]
        /\ UNCHANGED <<queueVars, subscriptions, task>>
    BY <1>10 DEF HandleSubscribe
  <2>2. /\ QP!IInv' /\ InQueue' = InQueue /\ QueuedOnce'
        /\ UNCHANGED <<seen, loaded, eoa_to_pending>>
    BY <2>1, QueueFrame DEF NothingTwice
  <2>3. Sends' = Sends /\ Coming' = Coming
    <3>1. Sends' = Sends
      BY <1>3, <1>10 DEF Sends
    <3> QED
      BY <1>1, <3>1 DEF Coming
  <2>4. TypeOK'
    BY <1>1, <1>3, <1>6, <1>8, <2>1, <2>2, QueueShape DEF TypeOK, Q!TypeOK, queueVars, Command
  <2>5. NothingTwice' /\ OnePlace' /\ RowsFollow'
    BY <1>1, <1>3, <1>6, <2>1, <2>2, <2>3 DEF NothingTwice, OnePlace, RowsFollow
  <2>6. StatusFollows' /\ TasksPending' /\ EventsFinal' /\ NothingLoaded' /\ Tracked'
    BY <1>1, <1>6, <2>1, <2>2, <2>3
      DEF StatusFollows, TasksPending, EventsFinal, NothingLoaded, Tracked
  <2>7. tx \notin Sends /\ waiter[tx] = "subscribing" /\ client[tx] = "sent"
    BY <1>3, <1>4, <1>10 DEF Sends, WaitersFollow
  <2>8. crashes = 0 /\ tx \notin Unrecorded /\ tx \notin subscriptions => status[tx] \in FinalStatus
    BY <2>7 DEF WaitersFollow
  <2>9. \A t \in Tx : <<"subscribe", t>> \in Elems(commands') => t # tx
    BY <1>3, <1>10
  <2>10. WaitersFollow'
    BY <1>1, <1>4, <1>6, <1>7, <1>8, <2>1, <2>3, <2>7, <2>8, <2>9 DEF WaitersFollow, FinalStatus
  <2>11. WaiterInformed'
    BY <1>1, <1>6, <1>8, <2>1 DEF WaiterInformed, WaiterNeverFails, WaiterLearnsStored
  <2> QED
    BY <2>2, <2>4, <2>5, <2>6, <2>10, <2>11
<1> QED
  BY <1>5, <1>9, <1>10

LEMMA PushLoadedInv ==
  ASSUME IInv, PushLoaded
  PROVE  IInv'
<1> USE DEF IInv
<1>0. boot.queued # <<>> /\ boot.queued \in Seq(Tx)
  BY DEF PushLoaded, TypeOK
<1> PICK tx \in Tx : tx = Head(boot.queued)
  BY <1>0
<1>1. /\ boot.pending = {} /\ boot.queued # <<>> /\ Q!Push(tx)
      /\ task' = [task EXCEPT ![tx] = IF Q!Overflows(tx) THEN "overflow" ELSE @]
      /\ boot' = [boot EXCEPT !.queued = Tail(@)]
      /\ UNCHANGED <<rowVars, commands, events, subscriptions, signerOf, client, waiter, mailbox, crashes, lost>>
  BY DEF PushLoaded, callerVars
<1>2. boot \in [pending : SUBSET Tx, queued : Seq(Tx)] /\ boot.queued \in Seq(Tx)
  BY DEF TypeOK
<1>3. boot' \in [pending : SUBSET Tx, queued : Seq(Tx)]
      /\ boot'.pending = boot.pending /\ boot'.queued = Tail(boot.queued)
  <2>1. Tail(boot.queued) \in Seq(Tx)
    BY <1>1, <1>2
  <2> QED
    BY <1>1, <1>2, <2>1
<1>4. /\ Unique(boot'.queued)
      /\ Elems(boot.queued) = {tx} \cup Elems(boot'.queued) /\ tx \notin Elems(boot'.queued)
      /\ Elems(boot'.queued) = Elems(boot.queued) \ {tx}
  BY <1>1, <1>2, <1>3, TailElems DEF NothingTwice
<1>5. tx \in Coming /\ tx \notin boot.pending /\ tx \notin seen /\ tx \notin InQueue
  BY <1>1, <1>4 DEF Coming, OnePlace
<1>6. client[tx] = "sent" /\ tx \notin Sends
  BY <1>4 DEF OnePlace
<1>7. Sends' = Sends /\ Sends' = Sends \ {tx}
  BY <1>1, <1>6 DEF Sends
<1>8. Coming' = Coming \ {tx}
  BY <1>1, <1>3, <1>4, <1>5, <1>6, <1>7 DEF Coming
<1>9. Q!TypeOK'
  <2>1. QP!IInv'
    BY <1>1, <1>4, <1>5, PushEffect DEF NothingTwice
  <2> QED
    BY <2>1 DEF QP!IInv, QP!TypeOK, Q!TypeOK
<1>10. TypeOK'
  BY <1>1, <1>3, <1>4, <1>9 DEF TypeOK, rowVars
<1>11. Unique(commands') /\ (boot = NothingToLoad => boot' = NothingToLoad)
  BY <1>1 DEF NothingTwice, NothingToLoad
<1>12. /\ QP!IInv' /\ NothingTwice' /\ OnePlace' /\ RowsFollow' /\ StatusFollows'
       /\ TasksPending' /\ EventsFinal' /\ NothingLoaded' /\ Tracked'
  BY <1>1, <1>3, <1>4, <1>5, <1>6, <1>7, <1>8, <1>10, <1>11, PushedInv
<1>13. WaitersFollow' /\ WaiterInformed'
  BY <1>1, <1>7 DEF WaitersFollow, WaiterInformed, WaiterNeverFails, WaiterLearnsStored, rowVars
<1> QED
  BY <1>10, <1>12, <1>13

\* The components of a pair.
LEMMA PairParts ==
  ASSUME NEW A, NEW B, NEW v \in A \X B
  PROVE  v[1] \in A /\ v[2] \in B /\ v = <<v[1], v[2]>>
  OBVIOUS

Event == Tx \X ({"pending"} \cup FinalStatus)

LEMMA HandleEventInv ==
  ASSUME IInv, HandleEvent
  PROVE  IInv'
<1> USE DEF IInv
<1>1. /\ events # <<>> /\ events' = Tail(events)
      /\ UNCHANGED <<rowVars, boot, commands, task, signerOf, client, waiter, crashes, lost>>
  BY DEF HandleEvent, taskVars
<1>2. events \in Seq(Event)
  BY DEF TypeOK, Event
<1>3. /\ Head(events) \in Event
      /\ events' \in Seq(Event)
      /\ Elems(events') \subseteq Elems(events) /\ Head(events) \in Elems(events)
  BY <1>1, <1>2, TailElems
<1>4. PICK tx \in Tx, st \in {"pending"} \cup FinalStatus : Head(events) = <<tx, st>>
  <2>1. /\ Head(events)[1] \in Tx /\ Head(events)[2] \in {"pending"} \cup FinalStatus
        /\ Head(events) = <<Head(events)[1], Head(events)[2]>>
    <3> HIDE DEF IInv
    <3> QED
      BY <1>3, PairParts DEF Event
  <2> QED
    BY <2>1, Zenon
<1>5. /\ mailbox' = [mailbox EXCEPT ![tx] =
            IF tx \in subscriptions /\ st \in FinalStatus
               /\ waiter[tx] \in {"subscribed", "waiting"} THEN st ELSE @]
      /\ \/ st \in FinalStatus /\ subscriptions' = subscriptions \ {tx} /\ Q!Finish(tx)
         \/ st \notin FinalStatus /\ UNCHANGED <<subscriptions, queueVars>>
  <2>1. Head(events)[1] = tx /\ Head(events)[2] = st
    BY <1>4
  <2> QED
    BY <2>1, Zenon DEF HandleEvent
<1>6. st \in FinalStatus =>
        task[tx] \in {"confirmed", "none"} /\ (tx \notin Unrecorded => status[tx] \in FinalStatus)
  BY <1>3, <1>4 DEF EventsFinal
<1>7. UNCHANGED <<queued_txs, pending_txs, status>>
  BY <1>1 DEF rowVars
<1>8. /\ QP!IInv' /\ InQueue' = InQueue /\ QueuedOnce' /\ UNCHANGED <<seen, loaded>>
      /\ \A e \in Eoa : \A t \in eoa_to_pending[e] :
           t \in eoa_to_pending'[e] \/ (t = tx /\ st \in FinalStatus)
  <2>1. CASE st \in FinalStatus /\ Q!Finish(tx)
    BY <2>1, FinishEffect DEF NothingTwice
  <2>2. CASE UNCHANGED queueVars
    BY <2>2, QueueFrame DEF NothingTwice
  <2> QED
    BY <1>5, <2>1, <2>2
<1>9. mailbox \in [Tx -> {"none"} \cup FinalStatus] /\ subscriptions \subseteq Tx
  BY DEF TypeOK
<1>10. Sends' = Sends /\ Coming' = Coming
  BY <1>1 DEF Sends, Coming
<1>11. TypeOK'
  <2>1. Q!TypeOK'
    BY <1>8 DEF QP!IInv, QP!TypeOK, Q!TypeOK
  <2>2. mailbox' \in [Tx -> {"none"} \cup FinalStatus] /\ subscriptions' \subseteq Tx
    BY <1>5, <1>9
  <2> QED
    BY <1>1, <1>3, <1>7, <2>1, <2>2 DEF TypeOK, Event
<1>12. NothingTwice' /\ OnePlace' /\ RowsFollow'
  BY <1>1, <1>7, <1>8, <1>10 DEF NothingTwice, OnePlace, RowsFollow
<1>13. StatusFollows' /\ NothingLoaded' /\ Tracked'
  BY <1>1, <1>7, <1>8 DEF StatusFollows, NothingLoaded, Tracked
<1>14. TasksPending'
  BY <1>1, <1>6, <1>8 DEF TasksPending, Active
<1>15. EventsFinal'
  BY <1>1, <1>3, <1>7, <1>8, <1>10 DEF EventsFinal
<1>16. WaitersFollow'
  BY <1>1, <1>5, <1>6, <1>7, <1>9, <1>10 DEF WaitersFollow
<1>17. WaiterInformed'
  BY <1>1, <1>7 DEF WaiterInformed, WaiterNeverFails, WaiterLearnsStored
<1> QED
  BY <1>8, <1>11, <1>12, <1>13, <1>14, <1>15, <1>16, <1>17

LEMMA DispatchInv ==
  ASSUME IInv, NEW s \in Signers, Dispatch(s)
  PROVE  IInv'
<1> USE DEF IInv
<1>1. /\ Q!Pop /\ task' = [task EXCEPT ![Head(ready)] = "start"]
      /\ signerOf' = [signerOf EXCEPT ![Head(ready)] = s]
      /\ UNCHANGED <<rowVars, boot, commands, events, subscriptions, client, waiter, mailbox, crashes, lost>>
  BY DEF Dispatch, serviceVars, callerVars
<1>2. PICK tx \in Tx : tx = Head(ready)
  BY <1>1, PopEffect DEF NothingTwice
<1>3. /\ QP!IInv' /\ QueuedOnce' /\ UNCHANGED <<loaded, seen>>
      /\ tx \in InQueue /\ InQueue' = InQueue \ {tx}
      /\ \A e \in Eoa : eoa_to_pending[e] \subseteq eoa_to_pending'[e]
      /\ EoaOf[tx] \in Eoa => tx \in eoa_to_pending'[EoaOf[tx]]
  BY <1>1, <1>2, PopEffect DEF NothingTwice
<1>4. UNCHANGED <<queued_txs, pending_txs, status>>
  BY <1>1 DEF rowVars
<1>5. /\ task \in [Tx -> {"none", "start", "persisted", "resync", "persisted_again", "watching",
                           "confirmed", "failed", "overflow", "overflow_removed"}]
      /\ signerOf \in [Tx -> Signers \cup {NoSigner}]
  BY DEF TypeOK
<1>6. tx \in seen /\ task[tx] = "none" /\ tx \notin Coming
  BY <1>3 DEF OnePlace
<1>7. Sends' = Sends /\ Coming' = Coming
  BY <1>1 DEF Sends, Coming
<1>8. TypeOK'
  <2>1. Q!TypeOK'
    BY <1>3 DEF QP!IInv, QP!TypeOK, Q!TypeOK
  <2> QED
    BY <1>1, <1>2, <1>4, <1>5, <2>1 DEF TypeOK
<1>9. NothingTwice' /\ OnePlace'
  BY <1>1, <1>2, <1>3, <1>4, <1>5, <1>6, <1>7 DEF NothingTwice, OnePlace
<1>10. RowsFollow'
  BY <1>1, <1>2, <1>3, <1>4, <1>5, <1>7 DEF RowsFollow
<1>11. StatusFollows' /\ NothingLoaded'
  BY <1>1, <1>2, <1>3, <1>4, <1>5 DEF StatusFollows, NothingLoaded
<1>12. TasksPending'
  BY <1>1, <1>2, <1>3, <1>5 DEF TasksPending
<1>13. EventsFinal'
  BY <1>1, <1>2, <1>3, <1>4, <1>5, <1>7 DEF EventsFinal
<1>14. WaitersFollow' /\ WaiterInformed'
  BY <1>1, <1>4, <1>7 DEF WaitersFollow, WaiterInformed, WaiterNeverFails, WaiterLearnsStored
<1>15. Tracked'
  <2>1. status[tx] # "confirmed"
    BY <1>3 DEF StatusFollows, RowsFollow
  <2> QED
    BY <1>1, <1>2, <1>4, <1>5, <1>6, <2>1 DEF Tracked, Watched, Rowless
<1> QED
  BY <1>3, <1>8, <1>9, <1>10, <1>11, <1>12, <1>13, <1>14, <1>15

(***************************************************************************)
(* The task of a transaction                                               *)
(***************************************************************************)

LEMMA ComingInTx ==
  ASSUME TypeOK PROVE Coming \subseteq Tx
<1>1. boot.pending \subseteq Tx /\ boot.queued \in Seq(Tx)
  BY DEF TypeOK
<1>2. Elems(boot.queued) \subseteq Tx
  BY <1>1 DEF Elems
<1> QED
  BY <1>1, <1>2 DEF Coming, Sends

LEMMA RowsInTx ==
  ASSUME TypeOK PROVE Elems(queued_txs) \subseteq Tx
  BY DEF TypeOK, Elems

\* A step of a task keeps the invariant if it keeps it for its own transaction.
LEMMA OwnTransactionInv ==
  ASSUME IInv, NEW tx \in Tx, task[tx] # "none", TypeOK',
         UNCHANGED <<queueVars, boot, commands, subscriptions, client, waiter, mailbox, crashes, lost>>,
         \A t \in Tx \ {tx} : /\ task'[t] = task[t] /\ signerOf'[t] = signerOf[t]
                             /\ pending_txs'[t] = pending_txs[t] /\ status'[t] = status[t],
         Unique(queued_txs'), Elems(queued_txs') = Elems(queued_txs) \ {tx},
         \A t \in Tx, st \in FinalStatus : <<t, st>> \in Elems(events') =>
           \/ <<t, st>> \in Elems(events)
           \/ t = tx /\ task'[tx] \in {"confirmed", "none"} /\ (tx \notin Unrecorded => status'[tx] = st),
         task'[tx] \notin {"start", "overflow"},
         task[tx] = "confirmed" => task'[tx] = "none",
         task'[tx] \in Active => task[tx] \in Active /\ signerOf'[tx] \in Signers,
         tx \notin Unrecorded /\ task'[tx] \in {"resync", "failed", "overflow_removed"}
           => pending_txs'[tx] = NoSigner,
         status'[tx] = "none" <=> status[tx] = "none",
         status[tx] \in FinalStatus => status'[tx] \in FinalStatus,
         task'[tx] \in {"persisted", "resync", "persisted_again"} => status'[tx] \notin FinalStatus,
         tx \notin Unrecorded /\ task'[tx] = "confirmed" => status'[tx] = "confirmed",
         status'[tx] = "failed" => pending_txs'[tx] = NoSigner,
         status'[tx] \in {"inflight", "pending"} =>
           pending_txs'[tx] # NoSigner \/ task'[tx] \in Rowless \/ tx \in lost,
         tx \notin Unrecorded /\ task'[tx] \in Watched => pending_txs'[tx] # NoSigner,
         crashes = 0 /\ status'[tx] = "confirmed" => task'[tx] \in {"confirmed", "none"}
  PROVE  IInv'
<1> USE DEF IInv
<1>1. /\ QP!IInv' /\ InQueue' = InQueue /\ QueuedOnce'
      /\ UNCHANGED <<seen, loaded, eoa_to_pending>>
  BY QueueFrame DEF NothingTwice
<1>2. Sends' = Sends /\ Coming' = Coming
  BY DEF Sends, Coming
<1>3. tx \notin Coming /\ tx \notin InQueue
  BY DEF OnePlace
<1>4. client[tx] = "sent" /\ tx \notin Sends /\ tx \notin boot.pending /\ tx \notin Elems(boot.queued)
  BY <1>3 DEF Coming, TypeOK
<1>5. NothingTwice' /\ OnePlace'
  <2>1. UNCHANGED <<boot, commands, client, seen>>
    BY <1>1
  <2>2. NothingTwice'
    BY <1>1, <2>1 DEF NothingTwice
  <2>3. Coming \subseteq Tx /\ InQueue \subseteq Tx
    <3>1. Coming \subseteq Tx
      BY ComingInTx
    <3>2. InQueue \subseteq Tx
      BY QueueShape DEF OnePlace
    <3> QED
      BY <3>1, <3>2
  <2>4. \A t \in Coming \cup InQueue : task'[t] = task[t]
    BY <1>3, <2>3
  <2>5. \A t \in Coming' : t \notin seen' /\ task'[t] = "none"
    BY <1>2, <2>1, <2>4 DEF OnePlace
  <2>6. \A t \in InQueue' : t \in seen' /\ task'[t] = "none"
    BY <1>1, <2>1, <2>4 DEF OnePlace
  <2> QED
    BY <1>2, <2>1, <2>2, <2>5, <2>6 DEF OnePlace
<1>6. RowsFollow'
  <2>1. UNCHANGED <<boot, commands, client>>
    OBVIOUS
  <2>2. \A t \in Elems(queued_txs') : t \in Elems(queued_txs) /\ t \in Tx \ {tx}
    BY RowsInTx
  <2>3. \A t \in Elems(queued_txs') :
          t \notin Unrecorded /\ client'[t] # "new" /\ status'[t] = "inflight" /\ pending_txs'[t] = NoSigner
    BY <2>1, <2>2 DEF RowsFollow
  <2>4. \A t \in Tx : client'[t] = "stored" => t \in Elems(queued_txs')
    BY <1>4, <2>1 DEF RowsFollow
  <2>5. \A t \in (Sends' \cup InQueue') \ Unrecorded : t \in Elems(queued_txs')
    BY <1>1, <1>2, <1>3, <1>4 DEF RowsFollow
  <2>6. Elems(boot'.queued) \subseteq Elems(queued_txs')
    BY <1>4, <2>1 DEF RowsFollow
  <2>7. \A t \in boot'.pending : pending_txs'[t] # NoSigner
    <3>1. boot.pending \subseteq Tx \ {tx}
      BY <1>4 DEF TypeOK
    <3> QED
      BY <2>1, <3>1 DEF RowsFollow
  <2>8. \A t \in Tx : client'[t] = "new" => pending_txs'[t] = NoSigner
    BY <1>4, <2>1 DEF RowsFollow
  <2>9. \A t \in Tx \ Unrecorded : task'[t] \in {"start", "overflow"} => t \in Elems(queued_txs')
    BY DEF RowsFollow
  <2>10. \A t \in Tx : task'[t] \notin {"none", "start", "overflow"} => t \notin Elems(queued_txs')
    BY DEF RowsFollow
  <2>11. \A t \in Tx \ Unrecorded :
           task'[t] \in {"resync", "failed", "overflow_removed"} => pending_txs'[t] = NoSigner
    BY DEF RowsFollow
  <2> QED
    BY <2>3, <2>4, <2>5, <2>6, <2>7, <2>8, <2>9, <2>10, <2>11 DEF RowsFollow
<1>7. StatusFollows'
  BY <1>4, UnrecordedAssumption DEF StatusFollows
<1>8. TasksPending' /\ NothingLoaded'
  BY <1>1 DEF TasksPending, NothingLoaded
<1>9. EventsFinal'
  BY <1>1, <1>2, <1>3 DEF EventsFinal
<1>10. \A t \in Tx : status[t] \in FinalStatus => status'[t] \in FinalStatus
  OBVIOUS
<1>11. WaitersFollow' /\ WaiterInformed'
  BY <1>2, <1>10 DEF WaitersFollow, WaiterInformed, WaiterNeverFails, WaiterLearnsStored
<1>12. Tracked'
  BY DEF Tracked
<1> QED
  BY <1>1, <1>5, <1>6, <1>7, <1>8, <1>9, <1>11, <1>12

Places == {"none", "start", "persisted", "resync", "persisted_again", "watching",
           "confirmed", "failed", "overflow", "overflow_removed"}
Statuses == {"none", "inflight", "pending"} \cup FinalStatus

\* What the invariant says of a transaction with a task.
LEMMA TaskFacts ==
  ASSUME IInv, NEW tx \in Tx, task[tx] # "none"
  PROVE  /\ task \in [Tx -> Places] /\ signerOf \in [Tx -> Signers \cup {NoSigner}]
         /\ pending_txs \in [Tx -> Signers \cup {NoSigner}] /\ status \in [Tx -> Statuses]
         /\ queued_txs \in Seq(Tx) /\ Unique(queued_txs) /\ events \in Seq(Event)
         /\ tx \in Unrecorded <=> status[tx] = "none"
         /\ task[tx] \notin {"start", "overflow"} => tx \notin Elems(queued_txs)
         /\ task[tx] \in {"start", "overflow"} =>
              tx \in Unrecorded \/ (status[tx] = "inflight" /\ pending_txs[tx] = NoSigner)
<1> USE DEF IInv
<1>1. /\ task \in [Tx -> Places] /\ signerOf \in [Tx -> Signers \cup {NoSigner}]
      /\ pending_txs \in [Tx -> Signers \cup {NoSigner}] /\ status \in [Tx -> Statuses]
      /\ queued_txs \in Seq(Tx) /\ Unique(queued_txs) /\ events \in Seq(Event)
  BY DEF TypeOK, Places, Statuses, Event, NothingTwice
<1>2. client[tx] = "sent"
  BY DEF OnePlace, Coming, TypeOK
<1>3. tx \in Unrecorded <=> status[tx] = "none"
  BY <1>2 DEF StatusFollows
<1> QED
  BY <1>1, <1>3 DEF RowsFollow

\* The type of what a task writes.
LEMMA TaskTypes ==
  ASSUME IInv, UNCHANGED <<queueVars, boot, commands, subscriptions, client, waiter, mailbox, crashes, lost>>,
         queued_txs' \in Seq(Tx), events' \in Seq(Event),
         task' \in [Tx -> Places], signerOf' \in [Tx -> Signers \cup {NoSigner}],
         pending_txs' \in [Tx -> Signers \cup {NoSigner}], status' \in [Tx -> Statuses]
  PROVE  TypeOK'
<1>1. Q!TypeOK'
  <2>1. QP!IInv'
    BY QueueFrame DEF IInv
  <2> QED
    BY <2>1 DEF QP!IInv, QP!TypeOK, Q!TypeOK
<1> QED
  BY <1>1 DEF IInv, TypeOK, Places, Statuses, Event

\* A task that writes rows and no status.
LEMMA RowStepInv ==
  ASSUME IInv, NEW tx \in Tx, NEW to \in Places, NEW row \in Signers \cup {NoSigner},
         task[tx] # "none",
         task' = [task EXCEPT ![tx] = to], pending_txs' = [pending_txs EXCEPT ![tx] = row],
         signerOf' = signerOf \/ (to = "none" /\ signerOf' = [signerOf EXCEPT ![tx] = NoSigner]),
         queued_txs' = RemoveRow(queued_txs, tx)
           \/ (queued_txs' = queued_txs /\ task[tx] \notin {"start", "overflow"}),
         UNCHANGED <<status, events, queueVars, boot, commands, subscriptions, client, waiter,
                     mailbox, crashes, lost>>,
         to \notin {"start", "overflow"},
         task[tx] = "confirmed" => to = "none",
         to \in Active => task[tx] \in Active,
         tx \notin Unrecorded /\ to \in {"resync", "failed", "overflow_removed"} => row = NoSigner,
         to \in {"persisted", "resync", "persisted_again"} => status[tx] \notin FinalStatus,
         tx \notin Unrecorded /\ to = "confirmed" => status[tx] = "confirmed",
         status[tx] = "failed" => row = NoSigner,
         status[tx] \in {"inflight", "pending"} => row # NoSigner \/ to \in Rowless \/ tx \in lost,
         tx \notin Unrecorded /\ to \in Watched => row # NoSigner,
         crashes = 0 /\ status[tx] = "confirmed" => to \in {"confirmed", "none"}
  PROVE  IInv'
<1>1. /\ task \in [Tx -> Places] /\ signerOf \in [Tx -> Signers \cup {NoSigner}]
      /\ pending_txs \in [Tx -> Signers \cup {NoSigner}] /\ status \in [Tx -> Statuses]
      /\ queued_txs \in Seq(Tx) /\ Unique(queued_txs) /\ events \in Seq(Event)
      /\ task[tx] \notin {"start", "overflow"} => tx \notin Elems(queued_txs)
  BY TaskFacts
<1>2. /\ queued_txs' \in Seq(Tx) /\ Unique(queued_txs') /\ Elems(queued_txs') = Elems(queued_txs) \ {tx}
  <2>1. CASE queued_txs' = RemoveRow(queued_txs, tx)
    BY <1>1, <2>1, RemoveElems
  <2>2. CASE queued_txs' = queued_txs /\ task[tx] \notin {"start", "overflow"}
    BY <1>1, <2>2
  <2> QED
    BY <2>1, <2>2
<1>3. /\ task' \in [Tx -> Places] /\ signerOf' \in [Tx -> Signers \cup {NoSigner}]
      /\ pending_txs' \in [Tx -> Signers \cup {NoSigner}]
      /\ task'[tx] = to /\ pending_txs'[tx] = row /\ (to # "none" => signerOf'[tx] = signerOf[tx])
  BY <1>1
<1>4. TypeOK'
  BY <1>1, <1>2, <1>3, TaskTypes
<1>5. \A t \in Tx \ {tx} : /\ task'[t] = task[t] /\ signerOf'[t] = signerOf[t]
                          /\ pending_txs'[t] = pending_txs[t] /\ status'[t] = status[t]
  BY <1>1
<1>6. to \in Active => signerOf'[tx] \in Signers
  BY <1>3 DEF IInv, TasksPending, Active
<1> QED
  BY <1>2, <1>3, <1>4, <1>5, <1>6, OwnTransactionInv

\* A task that writes a status: the row of txs, then the event.
LEMMA StatusStepInv ==
  ASSUME IInv, NEW tx \in Tx, NEW to \in Places, NEW st \in {"pending"} \cup FinalStatus,
         task[tx] \notin {"none", "start", "overflow", "confirmed"},
         task' = [task EXCEPT ![tx] = to], UpdateTxStatus(tx, st),
         signerOf' = signerOf \/ (to = "none" /\ signerOf' = [signerOf EXCEPT ![tx] = NoSigner]),
         UNCHANGED <<queued_txs, pending_txs, queueVars, boot, commands, subscriptions, client,
                     waiter, mailbox, crashes, lost>>,
         \/ to = "watching" /\ st = "pending" /\ task[tx] \in {"persisted", "persisted_again"}
         \/ to = "confirmed" /\ st = "confirmed" /\ task[tx] = "watching"
         \/ to = "none" /\ st = "failed" /\ task[tx] \in {"failed", "overflow_removed"}
  PROVE  IInv'
<1>1. /\ task \in [Tx -> Places] /\ signerOf \in [Tx -> Signers \cup {NoSigner}]
      /\ pending_txs \in [Tx -> Signers \cup {NoSigner}] /\ status \in [Tx -> Statuses]
      /\ queued_txs \in Seq(Tx) /\ Unique(queued_txs) /\ events \in Seq(Event)
      /\ tx \in Unrecorded <=> status[tx] = "none"
      /\ tx \notin Elems(queued_txs)
  BY TaskFacts
<1>2. /\ status' = [status EXCEPT ![tx] = IF @ = "none" THEN @ ELSE st]
      /\ events' = Append(events, <<tx, st>>)
  BY DEF UpdateTxStatus, WriteStatus
<1>3. status' \in [Tx -> Statuses] /\ status'[tx] = (IF tx \in Unrecorded THEN "none" ELSE st)
  BY <1>1, <1>2 DEF Statuses
<1>4. events' \in Seq(Event) /\ Elems(events') = Elems(events) \cup {<<tx, st>>}
  <2>1. PICK v \in Event : v = <<tx, st>>
    BY DEF Event
  <2>2. events' = Append(events, v)
    BY <1>2, <2>1
  <2>3. events' \in Seq(Event) /\ Elems(events') = Elems(events) \cup {v}
    BY <1>1, <2>2, AppendElems
  <2> QED
    BY <2>1, <2>3
<1>5. /\ task' \in [Tx -> Places] /\ signerOf' \in [Tx -> Signers \cup {NoSigner}]
      /\ task'[tx] = to /\ (to # "none" => signerOf'[tx] = signerOf[tx])
  BY <1>1
<1>6. TypeOK'
  BY <1>1, <1>3, <1>4, <1>5, TaskTypes
<1>7. \A t \in Tx \ {tx} : /\ task'[t] = task[t] /\ signerOf'[t] = signerOf[t]
                          /\ pending_txs'[t] = pending_txs[t] /\ status'[t] = status[t]
  BY <1>1, <1>2
<1>8. \A t \in Tx, r \in FinalStatus : <<t, r>> \in Elems(events') =>
        \/ <<t, r>> \in Elems(events)
        \/ t = tx /\ task'[tx] \in {"confirmed", "none"} /\ (tx \notin Unrecorded => status'[tx] = r)
  <2> SUFFICES ASSUME NEW t \in Tx, NEW r \in FinalStatus, <<t, r>> = <<tx, st>>
               PROVE  t = tx /\ task'[tx] \in {"confirmed", "none"}
                        /\ (tx \notin Unrecorded => status'[tx] = r)
    BY <1>4
  <2>1. t = tx /\ r = st
    OBVIOUS
  <2>2. st # "pending"
    BY <2>1 DEF FinalStatus
  <2> QED
    BY <1>3, <1>5, <2>1, <2>2
<1>9. to \in Active => task[tx] \in Active /\ signerOf'[tx] \in Signers
  BY <1>5 DEF IInv, TasksPending, Active
<1>10. /\ status'[tx] = "none" <=> status[tx] = "none"
       /\ status[tx] \in FinalStatus => status'[tx] \in FinalStatus
  <2>1. task[tx] \in {"persisted", "persisted_again"} => status[tx] \notin FinalStatus
    BY DEF IInv, StatusFollows
  <2> QED
    BY <1>1, <1>3, <2>1 DEF FinalStatus
<1>11. /\ tx \notin Unrecorded /\ task'[tx] = "confirmed" => status'[tx] = "confirmed"
       /\ task'[tx] \notin {"persisted", "resync", "persisted_again", "failed", "overflow_removed"}
       /\ status'[tx] = "failed" => to = "none"
  BY <1>3, <1>5
<1>12. status'[tx] = "failed" => pending_txs'[tx] = NoSigner
  BY <1>3, <1>11 DEF IInv, RowsFollow
<1>13. /\ status'[tx] \in {"inflight", "pending"} => pending_txs'[tx] # NoSigner
       /\ tx \notin Unrecorded /\ task'[tx] \in Watched => pending_txs'[tx] # NoSigner
       /\ crashes = 0 /\ status'[tx] = "confirmed" => task'[tx] \in {"confirmed", "none"}
  <2>1. tx \notin Unrecorded /\ task[tx] \in Watched => pending_txs[tx] # NoSigner
    BY DEF IInv, Tracked
  <2> QED
    BY <1>3, <1>5, <2>1 DEF Watched
<1>14. Elems(queued_txs') = Elems(queued_txs) \ {tx} /\ Unique(queued_txs')
  BY <1>1
<1> QED
  BY <1>5, <1>6, <1>7, <1>8, <1>9, <1>10, <1>11, <1>12, <1>13, <1>14, OwnTransactionInv

LEMMA TaskInv ==
  ASSUME IInv, NEW tx \in Tx, Task(tx)
  PROVE  IInv'
<1> USE DEF Places, Active, Watched, Rowless
<1>1. task[tx] # "none"
  BY DEF Task, Persist, Resync, Broadcast, Confirm, RemovePending, RemoveRows, WriteFailed,
     OverflowRemove, TaskStep, TaskEnd
<1>2. /\ signerOf \in [Tx -> Signers \cup {NoSigner}]
      /\ pending_txs \in [Tx -> Signers \cup {NoSigner}] /\ status \in [Tx -> Statuses]
      /\ tx \in Unrecorded <=> status[tx] = "none"
      /\ task[tx] \in {"start", "overflow"} =>
           tx \in Unrecorded \/ (status[tx] = "inflight" /\ pending_txs[tx] = NoSigner)
  BY <1>1, TaskFacts
<1>3. /\ task[tx] \in {"start", "persisted", "resync", "persisted_again", "watching"}
           => signerOf[tx] \in Signers
      /\ task[tx] \in {"persisted", "resync", "persisted_again"} => status[tx] \notin FinalStatus
      /\ tx \notin Unrecorded /\ task[tx] = "confirmed" => status[tx] = "confirmed"
  BY DEF IInv, TasksPending, StatusFollows
<1>12. crashes = 0 /\ task[tx] # "confirmed" => status[tx] # "confirmed"
  BY <1>1 DEF IInv, Tracked
<1>4. CASE Persist(tx)
  <2>1. PICK to \in {"persisted", "persisted_again"} :
          /\ task[tx] \in {"start", "resync"} /\ TaskStep(tx, {"start", "resync"}, to)
    BY <1>4 DEF Persist, TaskStep
  <2>2. PICK row \in Signers \cup {NoSigner} : row = signerOf[tx]
    BY <1>2
  <2>3. status[tx] \notin FinalStatus /\ row # NoSigner
    BY <1>2, <1>3, <2>1, <2>2, QueueAssumption DEF FinalStatus
  <2>4. /\ pending_txs' = [pending_txs EXCEPT ![tx] = row]
        /\ queued_txs' = RemoveRow(queued_txs, tx)
        /\ UNCHANGED <<status, events>>
    BY <1>4, <2>2 DEF Persist
  <2> QED
    BY <1>1, <2>1, <2>3, <2>4, RowStepInv DEF TaskStep, callerVars, FinalStatus
<1>5. CASE Resync(tx)
  BY <1>1, <1>3, <1>5, RowStepInv DEF Resync, TaskStep, callerVars, FinalStatus
<1>6. CASE Broadcast(tx)
  BY <1>6, StatusStepInv DEF Broadcast, TaskStep, callerVars
<1>7. CASE Confirm(tx)
  BY <1>7, StatusStepInv DEF Confirm, TaskStep, callerVars, FinalStatus
<1>8. CASE RemovePending(tx)
  <2>1. status[tx] \notin {"inflight", "pending"}
    BY <1>2, <1>3, <1>8 DEF RemovePending, TaskEnd
  <2> QED
    BY <1>1, <1>8, <2>1, RowStepInv DEF RemovePending, TaskEnd, callerVars
<1>9. CASE RemoveRows(tx)
  BY <1>1, <1>12, <1>9, RowStepInv DEF RemoveRows, TaskStep, callerVars
<1>10. CASE WriteFailed(tx)
  BY <1>10, StatusStepInv DEF WriteFailed, TaskEnd, callerVars, FinalStatus
<1>11. CASE OverflowRemove(tx)
  <2>1. PICK row \in Signers \cup {NoSigner} : row = pending_txs[tx]
    BY <1>2
  <2>2. pending_txs' = [pending_txs EXCEPT ![tx] = row]
    BY <1>2, <1>11, <2>1 DEF OverflowRemove
  <2>3. task[tx] = "overflow" /\ (tx \notin Unrecorded => row = NoSigner)
    BY <1>2, <1>11, <2>1 DEF OverflowRemove, TaskStep
  <2>4. status[tx] \notin {"failed", "confirmed"}
    BY <1>2, <2>3
  <2> QED
    BY <1>1, <1>11, <2>2, <2>3, <2>4, RowStepInv DEF OverflowRemove, TaskStep, callerVars
<1> QED
  BY <1>4, <1>5, <1>6, <1>7, <1>8, <1>9, <1>10, <1>11 DEF Task

(***************************************************************************)
(* Crash and restart                                                       *)
(***************************************************************************)

LEMMA CrashInv ==
  ASSUME IInv, Crash
  PROVE  IInv'
<1> USE DEF IInv
<1>1. /\ crashes < MaxCrashes /\ crashes' = crashes + 1
      /\ boot' = [pending |-> {t \in Tx : pending_txs[t] # NoSigner}, queued |-> queued_txs]
      /\ commands' = <<>> /\ events' = <<>> /\ subscriptions' = {}
      /\ task' = [t \in Tx |-> "none"] /\ signerOf' = [t \in Tx |-> NoSigner]
      /\ client' = [t \in Tx |-> IF client[t] = "stored" THEN "sent" ELSE client[t]]
      /\ waiter' = [t \in Tx |-> IF waiter[t] \in {"ok", "error"} THEN waiter[t] ELSE "idle"]
      /\ mailbox' = [t \in Tx |-> "none"]
      /\ UNCHANGED <<queued_txs, pending_txs, status>>
      /\ lost' = lost \cup {t \in Tx : task[t] \in Rowless /\ status[t] \in {"inflight", "pending"}}
  BY DEF Crash, rowVars
<1>2. QP!IInv' /\ QueuedOnce' /\ InQueue' = {} /\ seen' = {}
  BY RestartEffect DEF Crash
<1>3. Elems(<<>>) = {} /\ Unique(<<>>) /\ Ordered(<<>>)
  BY DEF Elems, Unique, Ordered
<1>4. Sends' = {} /\ Elems(events') = {} /\ Elems(commands') = {}
  BY <1>1, <1>3 DEF Sends
<1>5. crashes \in Nat /\ crashes' \in 0..MaxCrashes /\ crashes' # 0
  BY <1>1, LimitsAssumption DEF TypeOK
<1>6. /\ client \in [Tx -> {"new", "stored", "sent"}] /\ queued_txs \in Seq(Tx)
      /\ waiter \in [Tx -> {"idle", "subscribing", "subscribed", "unsubscribed", "waiting",
                           "ok", "error"}]
  BY DEF TypeOK
<1>7. TypeOK'
  <2>1. Q!TypeOK'
    BY <1>2 DEF QP!IInv, QP!TypeOK, Q!TypeOK
  <2>2. /\ commands' \in Seq({"send", "subscribe"} \X Tx)
        /\ events' \in Seq(Tx \X ({"pending"} \cup FinalStatus))
    BY <1>1
  <2>3. boot' \in [pending : SUBSET Tx, queued : Seq(Tx)]
    BY <1>1, <1>6
  <2>4. /\ task' \in [Tx -> {"none", "start", "persisted", "resync", "persisted_again",
                             "watching", "confirmed", "failed", "overflow", "overflow_removed"}]
        /\ signerOf' \in [Tx -> Signers \cup {NoSigner}]
        /\ mailbox' \in [Tx -> {"none"} \cup FinalStatus]
    BY <1>1
  <2>5. /\ client' \in [Tx -> {"new", "stored", "sent"}]
        /\ waiter' \in [Tx -> {"idle", "subscribing", "subscribed", "unsubscribed", "waiting",
                              "ok", "error"}]
    BY <1>1, <1>6
  <2>6. lost' \subseteq Tx
    BY <1>1 DEF TypeOK
  <2> QED
    BY <1>1, <1>5, <2>1, <2>2, <2>3, <2>4, <2>5, <2>6 DEF TypeOK
<1>8. /\ \A t \in Tx : client'[t] # "stored" /\ (client'[t] = "new" <=> client[t] = "new")
      /\ \A t \in Tx : task'[t] = "none" /\ mailbox'[t] = "none"
  BY <1>1, <1>6
<1>9. boot'.pending = {t \in Tx : pending_txs[t] # NoSigner} /\ boot'.queued = queued_txs
  BY <1>1
<1>10. NothingTwice'
  BY <1>1, <1>2, <1>3, <1>9 DEF NothingTwice
<1>11. OnePlace'
  <2>1. Coming' \subseteq Tx
    BY <1>4, <1>9, RowsInTx DEF Coming
  <2>2. \A t \in Tx : client'[t] # "sent" => client[t] = "new"
    BY <1>1, <1>6
  <2>3. \A t \in Tx : client[t] = "new" => t \notin Elems(queued_txs) /\ pending_txs[t] = NoSigner
    BY DEF RowsFollow
  <2> QED
    BY <1>2, <1>4, <1>8, <1>9, <2>1, <2>2, <2>3 DEF OnePlace
<1>12. RowsFollow'
  <2>1. Elems(queued_txs) \subseteq Tx
    BY RowsInTx
  <2>2. \A t \in Elems(queued_txs') : t \notin Unrecorded /\ client'[t] # "new"
          /\ status'[t] = "inflight" /\ pending_txs'[t] = NoSigner
    BY <1>1, <1>8, <2>1 DEF RowsFollow
  <2>3. \A t \in Tx : client'[t] = "new" => pending_txs'[t] = NoSigner
    BY <1>1, <1>8 DEF RowsFollow
  <2> QED
    BY <1>1, <1>2, <1>4, <1>8, <1>9, <2>2, <2>3 DEF RowsFollow
<1>13. StatusFollows'
  BY <1>1, <1>8, UnrecordedAssumption DEF StatusFollows
<1>14. TasksPending' /\ EventsFinal' /\ NothingLoaded' /\ Tracked'
  BY <1>1, <1>4, <1>5, <1>8 DEF TasksPending, EventsFinal, NothingLoaded, Tracked, Active, Watched
<1>15. WaitersFollow'
  <2>1. \A t \in Tx : waiter'[t] # "idle" => client'[t] = "sent"
    BY <1>1, <1>6 DEF WaitersFollow
  <2> QED
    BY <1>1, <1>3, <1>4, <1>5, <1>8, <2>1 DEF WaitersFollow, FinalStatus
<1>16. WaiterInformed'
  BY <1>1, <1>5 DEF WaiterInformed, WaiterNeverFails, WaiterLearnsStored
<1> QED
  BY <1>2, <1>7, <1>10, <1>11, <1>12, <1>13, <1>14, <1>15, <1>16

LEMMA LoadPendingTransactionInv ==
  ASSUME IInv, NEW tx \in Tx, LoadPendingTransaction(tx)
  PROVE  IInv'
<1> USE DEF IInv
<1>1. /\ tx \in boot.pending /\ boot' = [boot EXCEPT !.pending = @ \ {tx}]
      /\ subscriptions' = subscriptions \cup {tx}
      /\ task' = [task EXCEPT ![tx] = "watching"]
      /\ signerOf' = [signerOf EXCEPT ![tx] = pending_txs[tx]]
      /\ UNCHANGED <<queued_txs, pending_txs, status, commands, events, client, waiter, mailbox,
                     crashes, lost>>
  BY DEF LoadPendingTransaction, rowVars, callerVars
<1>2. /\ QP!IInv' /\ QueuedOnce' /\ InQueue' = InQueue /\ seen' \subseteq seen \cup {tx}
      /\ seen \subseteq seen'
      /\ \A e \in Eoa : eoa_to_pending[e] \subseteq eoa_to_pending'[e]
      /\ EoaOf[tx] \in Eoa => tx \in eoa_to_pending'[EoaOf[tx]]
  <2>1. CASE EoaOf[tx] \in Eoa
    <3>1. Q!LoadPending(tx)
      BY <2>1 DEF LoadPendingTransaction
    <3> QED
      BY <3>1, LoadEffect DEF NothingTwice
  <2>2. CASE EoaOf[tx] \notin Eoa
    <3>1. UNCHANGED queueVars
      BY <2>2 DEF LoadPendingTransaction
    <3> QED
      BY <2>2, <3>1, QueueFrame DEF NothingTwice
  <2> QED
    BY <2>1, <2>2
<1>3. /\ boot \in [pending : SUBSET Tx, queued : Seq(Tx)] /\ subscriptions \subseteq Tx
      /\ task \in [Tx -> Places] /\ signerOf \in [Tx -> Signers \cup {NoSigner}]
      /\ pending_txs \in [Tx -> Signers \cup {NoSigner}]
  BY DEF TypeOK, Places
<1>4. /\ boot'.pending = boot.pending \ {tx} /\ boot'.queued = boot.queued
      /\ boot' \in [pending : SUBSET Tx, queued : Seq(Tx)]
  BY <1>1, <1>3
<1>5. tx \in Coming /\ tx \notin seen /\ task[tx] = "none" /\ tx \notin InQueue
  BY <1>1 DEF Coming, OnePlace
<1>6. tx \notin Sends /\ client[tx] = "sent"
  BY <1>1 DEF OnePlace
<1>7. tx \notin Elems(queued_txs) /\ pending_txs[tx] # NoSigner /\ tx \notin Elems(boot.queued)
  BY <1>1 DEF RowsFollow
<1>8. crashes # 0
  BY <1>1 DEF NothingLoaded, NothingToLoad
<1>9. Sends' = Sends /\ Coming' = Coming \ {tx}
  <2>1. Sends' = Sends
    BY <1>1 DEF Sends
  <2> QED
    BY <1>1, <1>4, <1>6, <1>7, <2>1 DEF Coming
<1>10. /\ task' \in [Tx -> Places] /\ signerOf' \in [Tx -> Signers \cup {NoSigner}]
       /\ task'[tx] = "watching" /\ signerOf'[tx] \in Signers
       /\ \A t \in Tx \ {tx} : task'[t] = task[t] /\ signerOf'[t] = signerOf[t]
  BY <1>1, <1>3, <1>7 DEF Places
<1>11. TypeOK'
  <2>1. Q!TypeOK'
    BY <1>2 DEF QP!IInv, QP!TypeOK, Q!TypeOK
  <2>2. subscriptions' \subseteq Tx
    BY <1>1, <1>3
  <2> QED
    BY <1>1, <1>4, <1>10, <2>1, <2>2 DEF TypeOK, Places
<1>12. NothingTwice'
  BY <1>1, <1>2, <1>4 DEF NothingTwice
<1>13. OnePlace'
  <2>1. Coming \subseteq Tx /\ InQueue \subseteq Tx
    BY ComingInTx, QueueShape DEF OnePlace
  <2>2. \A t \in Coming' : t \notin seen' /\ task'[t] = "none"
    BY <1>2, <1>9, <1>10, <2>1 DEF OnePlace
  <2>3. \A t \in InQueue' : t \in seen' /\ task'[t] = "none"
    BY <1>2, <1>5, <1>10, <2>1 DEF OnePlace
  <2> QED
    BY <1>1, <1>4, <1>9, <2>2, <2>3 DEF OnePlace
<1>14. RowsFollow'
  BY <1>1, <1>2, <1>4, <1>7, <1>9, <1>10 DEF RowsFollow
<1>15. StatusFollows'
  BY <1>1, <1>10 DEF StatusFollows
<1>16. TasksPending'
  BY <1>2, <1>10 DEF TasksPending, Active
<1>17. EventsFinal'
  BY <1>1, <1>2, <1>5, <1>9, <1>10 DEF EventsFinal
<1>18. NothingLoaded' /\ WaitersFollow' /\ Tracked'
  BY <1>1, <1>5, <1>7, <1>8, <1>9, <1>10 DEF NothingLoaded, WaitersFollow, Tracked, Rowless
<1>19. WaiterInformed'
  BY <1>1 DEF WaiterInformed, WaiterNeverFails, WaiterLearnsStored
<1> QED
  BY <1>2, <1>11, <1>12, <1>13, <1>14, <1>15, <1>16, <1>17, <1>18, <1>19

LEMMA StutterInv ==
  ASSUME IInv, UNCHANGED vars
  PROVE  IInv'
<1> USE DEF IInv
<1>1. UNCHANGED <<queueVars, queued_txs, pending_txs, status, boot, commands, events, subscriptions,
                  task, signerOf, client, waiter, mailbox, crashes, lost>>
  BY DEF vars, rowVars, serviceVars, taskVars, callerVars
<1>2. /\ QP!IInv' /\ InQueue' = InQueue /\ QueuedOnce' /\ UNCHANGED <<seen, loaded, eoa_to_pending>>
  BY <1>1, QueueFrame DEF NothingTwice
<1>3. Sends' = Sends /\ Coming' = Coming
  BY <1>1 DEF Sends, Coming
<1>4. Q!TypeOK'
  BY <1>2 DEF QP!IInv, QP!TypeOK, Q!TypeOK
<1>5. TypeOK'
  BY <1>1, <1>4 DEF TypeOK
<1>6. NothingTwice' /\ OnePlace' /\ RowsFollow'
  BY <1>1, <1>2, <1>3 DEF NothingTwice, OnePlace, RowsFollow
<1>7. StatusFollows' /\ TasksPending' /\ EventsFinal' /\ NothingLoaded'
  BY <1>1, <1>2, <1>3 DEF StatusFollows, TasksPending, EventsFinal, NothingLoaded
<1>8. WaitersFollow' /\ Tracked' /\ WaiterInformed'
  BY <1>1, <1>3 DEF WaitersFollow, Tracked, WaiterInformed, WaiterNeverFails, WaiterLearnsStored
<1> QED
  BY <1>2, <1>5, <1>6, <1>7, <1>8

(***************************************************************************)
(* Theorems                                                                *)
(***************************************************************************)

\* IInv is an inductive invariant of the service, across crashes and restarts.
THEOREM Inductive == SafetySpec => []IInv
<1>1. IInv /\ [Next]_vars => IInv'
  <2> SUFFICES ASSUME IInv, [Next]_vars PROVE IInv'
    OBVIOUS
  <2>1. ASSUME NEW tx \in Tx, Caller(tx) PROVE IInv'
    BY <2>1, QueueTransactionInv, SendInv, SubscribeInv, ReadInv DEF Caller
  <2> QED
    BY <2>1, TaskInv, LoadPendingTransactionInv, DispatchInv, HandleCommandInv, HandleEventInv,
       PushLoadedInv, CrashInv, StutterInv DEF Next
<1> QED
  BY <1>1, InitInv, PTL DEF SafetySpec

\* Whatever the service, its callers and its tasks do, and however often the process
\* restarts, an unfinished transaction has exactly one row, unless a crash stopped its task
\* in one of the windows without a row (Rowless), and a finished one is not sent again
\* (queue_transaction, replace_queued_tx_with_pending, on_failed_transaction,
\* on_confirmed_transaction).
THEOREM RowsDecideRestarts == SafetySpec => []RestartsResume
<1>1. IInv => RestartsResume
  <2> SUFFICES ASSUME IInv PROVE RestartsResume
    OBVIOUS
  <2>1. \A t \in Tx : HasQueuedRow(t) <=> t \in Elems(queued_txs)
    BY DEF HasQueuedRow, Elems
  <2>2. TrackedUntilFinal
    BY <2>1 DEF TrackedUntilFinal, IInv, Tracked
  <2>3. RowsExclusive
    BY <2>1 DEF RowsExclusive, IInv, RowsFollow
  <2>4. FinalNotResumed
    BY <2>1 DEF FinalNotResumed, IInv, RowsFollow, Tracked, FinalStatus
  <2> QED
    BY <2>2, <2>3, <2>4 DEF RestartsResume, IInv
<1> QED
  BY <1>1, Inductive, PTL

\* wait_for_tx never fails for a recorded transaction in a process that does not restart,
\* and what it returns is stored, however the subscription races with the final event.
THEOREM WaitsTellTruth == SafetySpec => []WaiterInformed
<1>1. IInv => WaiterInformed
  BY DEF IInv
<1> QED
  BY <1>1, Inductive, PTL

\* Signers never handle two transactions of an EOA at once while the process does not
\* restart: what the queue bounds is what the tasks do.
THEOREM TasksSerialised == SafetySpec => []OneTaskPerEoa
<1>1. IInv => OneTaskPerEoa
  <2> SUFFICES ASSUME IInv, crashes = 0, NEW t \in Tx, NEW u \in Tx, t # u,
                      EoaOf[t] = EoaOf[u], EoaOf[t] \in Eoa,
                      task[t] \in Active, task[u] \in Active
               PROVE  FALSE
    BY DEF OneTaskPerEoa, Active
  <2>1. t \in eoa_to_pending[EoaOf[t]] /\ u \in eoa_to_pending[EoaOf[t]]
    BY DEF IInv, TasksPending
  <2>2. loaded[EoaOf[t]] = {}
    BY DEF IInv, NothingLoaded
  <2> QED
    BY <2>1, <2>2, QP!OneInFlight, QueueAssumption
      DEF IInv, QP!EoaOfAssumption, QP!MaxQueuedAssumption
<1> QED
  BY <1>1, Inductive, PTL

\* The queue is never given an id twice between two restarts: what a command or a row
\* brings is new to it, so that the queue's specification refuses no push of the service.
THEOREM EveryIdIsNew == SafetySpec => [](Coming \cap seen = {})
<1>1. IInv => Coming \cap seen = {}
  BY DEF IInv, OnePlace
<1> QED
  BY <1>1, Inductive, PTL

\* What was reported as final is not taken back: a failed transaction is never taken up
\* again however often the process restarts, and a confirmed one stays confirmed in the
\* process that confirmed it (update_tx_status after the rows are removed).
THEOREM FinalStatusesStay == SafetySpec => FinalStatusStays
<1> DEFINE Stays(tx) ==
      /\ status[tx] = "failed" => status'[tx] = "failed"
      /\ status[tx] = "confirmed" =>
           status'[tx] = "confirmed" \/ (status'[tx] = "failed" /\ crashes > 0)
<1>1. IInv /\ [Next]_vars => \A tx \in Tx : Stays(tx)
  <2> SUFFICES ASSUME IInv, [Next]_vars, status' # status, NEW u \in Tx PROVE Stays(u)
    OBVIOUS
  <2>0. status \in [Tx -> Statuses]
    BY DEF IInv, TypeOK, Statuses
  <2>1. ASSUME NEW tx \in Tx, QueueTransaction(tx) PROVE Stays(u)
    <3>1. status[tx] = "none" /\ status' = [status EXCEPT ![tx] = "inflight"]
      BY <2>1 DEF QueueTransaction, IInv, StatusFollows
    <3> QED
      BY <2>0, <3>1
  <2>2. ASSUME NEW tx \in Tx, NEW st \in {"pending"} \cup FinalStatus, UpdateTxStatus(tx, st),
               status[tx] \in {"none", "inflight", "pending"} \/ Stays(tx)
        PROVE  Stays(u)
    BY <2>0, <2>2 DEF UpdateTxStatus, WriteStatus
  <2>3. ASSUME NEW tx \in Tx, Task(tx) PROVE Stays(u)
    <3>1. CASE Broadcast(tx)
      <4>1. status[tx] \notin FinalStatus
        BY <3>1 DEF Broadcast, TaskStep, IInv, StatusFollows
      <4> QED
        BY <2>0, <2>2, <3>1, <4>1 DEF Broadcast, Statuses
    <3>2. CASE Confirm(tx)
      <4>1. tx \notin Unrecorded => pending_txs[tx] # NoSigner
        BY <3>2 DEF Confirm, TaskStep, IInv, Tracked, Watched
      <4>2. status[tx] # "failed"
        BY <4>1 DEF IInv, Tracked, StatusFollows
      <4>3. UpdateTxStatus(tx, "confirmed") /\ "confirmed" \in FinalStatus
        BY <3>2 DEF Confirm, FinalStatus
      <4>4. status'[tx] = (IF status[tx] = "none" THEN "none" ELSE "confirmed")
        BY <2>0, <4>3 DEF UpdateTxStatus, WriteStatus
      <4> QED
        BY <2>0, <2>2, <4>2, <4>3, <4>4 DEF Statuses, FinalStatus
    <3>3. CASE WriteFailed(tx)
      <4>1. crashes = 0 => status[tx] # "confirmed"
        BY <3>3 DEF WriteFailed, TaskEnd, IInv, Tracked
      <4>2. UpdateTxStatus(tx, "failed") /\ "failed" \in FinalStatus
        BY <3>3 DEF WriteFailed, FinalStatus
      <4>3. status'[tx] = (IF status[tx] = "none" THEN "none" ELSE "failed")
        BY <2>0, <4>2 DEF UpdateTxStatus, WriteStatus
      <4>4. crashes \in Nat
        BY DEF IInv, TypeOK
      <4>5. Stays(tx)
        BY <4>1, <4>3, <4>4
      <4> QED
        BY <2>2, <4>2, <4>5
    <3> QED
      BY <2>3, <3>1, <3>2, <3>3
        DEF Task, Persist, Resync, RemovePending, RemoveRows, OverflowRemove
  <2>4. ASSUME NEW tx \in Tx, Caller(tx) PROVE Stays(u)
    BY <2>1, <2>4 DEF Caller, SendTransactionNoQueue, Subscribe, ReadStatus, ReceiveFinal, rowVars
  <2> QED
    BY <2>3, <2>4 DEF Next, LoadPendingTransaction, Dispatch, HandleCommand, HandleEvent, PushLoaded,
       Crash, vars, rowVars
<1> QED
  BY <1>1, Inductive, PTL DEF SafetySpec, FinalStatusStays

\* So the promises of the queue hold for the queue inside the service: one transaction of
\* an EOA in flight, none blocked behind nothing, no more queued than allowed.
THEOREM QueuePromisesHold == SafetySpec => []QP!StructInvariants
<1>1. IInv => QP!StructInvariants
  BY DEF IInv, QP!IInv, QP!StructInvariants
<1> QED
  BY <1>1, Inductive, PTL
=============================================================================
