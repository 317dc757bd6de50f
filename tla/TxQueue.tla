------------------------------- MODULE TxQueue -------------------------------
(***************************************************************************)
(* The in-memory pool of the transaction service (TxQueue in               *)
(* transactions/service.rs).  It serialises the transactions of one EOA:   *)
(* while one of them is ready or pending, the later ones are blocked.      *)
(*                                                                         *)
(* A map that has no entry for an EOA is modelled by the empty value (0,   *)
(* {} or <<>>), which is how the code reads a missing entry.               *)
(***************************************************************************)
EXTENDS Integers, Sequences, FiniteSets

CONSTANTS
  Tx,               \* transaction ids
  Eoa,              \* accounts that send intents
  NoEoa,            \* the sender of an internal transaction: none
  EoaOf,            \* RelayTransaction::eoa
  MaxQueuedPerEoa   \* config.max_queued_per_eoa

ASSUME EoaOfAssumption == NoEoa \notin Eoa /\ EoaOf \in [Tx -> Eoa \cup {NoEoa}]
ASSUME MaxQueuedAssumption == MaxQueuedPerEoa \in Nat

VARIABLES
  eoa_to_pending,   \* EOA -> transactions handed to a signer and not finished
  pending_to_eoa,   \* the inverse map; NoEoa where it has no entry
  ready,            \* transactions that may be sent, in order
  ready_per_eoa,    \* EOA -> how many of its transactions are in ready
  blocked           \* EOA -> transactions that wait for another one of the EOA

queueVars == <<eoa_to_pending, pending_to_eoa, ready, ready_per_eoa, blocked>>

(***************************************************************************)
(* Operations                                                              *)
(***************************************************************************)

EmptyQueue ==
  /\ eoa_to_pending = [e \in Eoa |-> {}]
  /\ pending_to_eoa = [t \in Tx |-> NoEoa]
  /\ ready = <<>>
  /\ ready_per_eoa = [e \in Eoa |-> 0]
  /\ blocked = [e \in Eoa |-> <<>>]

CountQueued(e) == ready_per_eoa[e] + Len(blocked[e])

\* push_transaction returns QueueError::CapacityOverflow for tx
Overflows(tx) ==
  /\ EoaOf[tx] \in Eoa
  /\ CountQueued(EoaOf[tx]) >= MaxQueuedPerEoa

\* Mutant of PushReady: only the ready transactions of the EOA are looked at.
PushReadyIgnoringPending(tx) ==
  /\ EoaOf[tx] \in Eoa => ready_per_eoa[EoaOf[tx]] = 0
  /\ ready' = Append(ready, tx)
  /\ ready_per_eoa' = [e \in Eoa |->
        IF e = EoaOf[tx] THEN ready_per_eoa[e] + 1 ELSE ready_per_eoa[e]]
  /\ UNCHANGED <<eoa_to_pending, pending_to_eoa, blocked>>

\* tx goes to the back of the ready queue
PushReady(tx) ==
  /\ EoaOf[tx] \in Eoa =>
       eoa_to_pending[EoaOf[tx]] = {} /\ ready_per_eoa[EoaOf[tx]] = 0
  /\ ready' = Append(ready, tx)
  /\ ready_per_eoa' = [e \in Eoa |->
        IF e = EoaOf[tx] THEN ready_per_eoa[e] + 1 ELSE ready_per_eoa[e]]
  /\ UNCHANGED <<eoa_to_pending, pending_to_eoa, blocked>>

\* another transaction of the EOA is pending or ready
PushBlocked(tx) ==
  /\ EoaOf[tx] \in Eoa
  /\ eoa_to_pending[EoaOf[tx]] # {} \/ ready_per_eoa[EoaOf[tx]] # 0
  /\ blocked' = [blocked EXCEPT ![EoaOf[tx]] = Append(@, tx)]
  /\ UNCHANGED <<eoa_to_pending, pending_to_eoa, ready, ready_per_eoa>>

PushTransaction(tx) ==
  \/ Overflows(tx) /\ UNCHANGED queueVars
  \/ ~Overflows(tx) /\ (PushReady(tx) \/ PushBlocked(tx))

OnSentTransaction(tx) ==
  LET eoa == EoaOf[tx] IN
  /\ eoa_to_pending' = [e \in Eoa |->
        IF e = eoa THEN eoa_to_pending[e] \cup {tx} ELSE eoa_to_pending[e]]
  /\ pending_to_eoa' = [pending_to_eoa EXCEPT ![tx] = IF eoa \in Eoa THEN eoa ELSE @]

PopReady ==
  /\ ready # <<>>
  /\ ready' = Tail(ready)
  /\ ready_per_eoa' = [e \in Eoa |->
        IF e = EoaOf[Head(ready)] /\ ready_per_eoa[e] > 0
        THEN ready_per_eoa[e] - 1 ELSE ready_per_eoa[e]]
  /\ OnSentTransaction(Head(ready))
  /\ UNCHANGED blocked

\* Mutant of Promote: the youngest blocked transaction goes first.
PromoteLast(e) ==
  IF blocked[e] = <<>>
  THEN UNCHANGED <<ready, ready_per_eoa, blocked>>
  ELSE /\ ready' = Append(ready, blocked[e][Len(blocked[e])])
       /\ ready_per_eoa' = [ready_per_eoa EXCEPT ![e] = @ + 1]
       /\ blocked' = [blocked EXCEPT ![e] = SubSeq(@, 1, Len(@) - 1)]

\* Mutant of Promote: the transaction is taken from blocked and dropped.
PromoteNothing(e) ==
  /\ blocked' = [blocked EXCEPT ![e] = IF @ = <<>> THEN @ ELSE Tail(@)]
  /\ UNCHANGED <<ready, ready_per_eoa>>

\* The first blocked transaction of e, if there is one, becomes ready.  The code
\* does not look at what else of e is pending or ready.
Promote(e) ==
  IF blocked[e] = <<>>
  THEN UNCHANGED <<ready, ready_per_eoa, blocked>>
  ELSE /\ ready' = Append(ready, Head(blocked[e]))
       /\ ready_per_eoa' = [ready_per_eoa EXCEPT ![e] = @ + 1]
       /\ blocked' = [blocked EXCEPT ![e] = Tail(@)]

\* An id that is not pending (internal, overflowed, already finished) is ignored.
OnFinishedPending(tx) ==
  LET e == pending_to_eoa[tx] IN
  IF e = NoEoa
  THEN UNCHANGED queueVars
  ELSE /\ pending_to_eoa' = [pending_to_eoa EXCEPT ![tx] = NoEoa]
       /\ eoa_to_pending' = [eoa_to_pending EXCEPT ![e] = @ \ {tx}]
       /\ Promote(e)

(***************************************************************************)
(* The queue used as TransactionService::new uses it: the transactions     *)
(* loaded as pending are inserted first, then every push is of a new id.   *)
(***************************************************************************)
VARIABLES
  phase,            \* "loading" while TransactionService::new creates the signers
  loaded,           \* EOA -> its transactions that were pending at startup
  accepted,         \* EOA -> its transactions in the order push accepted them
  sent,             \* EOA -> its accepted transactions in the order they were sent
  seen              \* ids given to the queue

historyVars == <<phase, loaded, accepted, sent, seen>>
vars == <<queueVars, historyVars>>

Init ==
  /\ EmptyQueue
  /\ phase = "loading"
  /\ loaded = [e \in Eoa |-> {}]
  /\ accepted = [e \in Eoa |-> <<>>]
  /\ sent = [e \in Eoa |-> <<>>]
  /\ seen = {}

LoadPending(tx) ==
  /\ phase = "loading"
  /\ tx \notin seen
  /\ EoaOf[tx] \in Eoa
  /\ OnSentTransaction(tx)
  /\ loaded' = [loaded EXCEPT ![EoaOf[tx]] = @ \cup {tx}]
  /\ seen' = seen \cup {tx}
  /\ UNCHANGED <<ready, ready_per_eoa, blocked, phase, accepted, sent>>

Push(tx) ==
  /\ tx \notin seen
  /\ PushTransaction(tx)
  /\ phase' = "running"
  /\ seen' = seen \cup {tx}
  /\ accepted' = [e \in Eoa |->
        IF e = EoaOf[tx] /\ ~Overflows(tx) THEN Append(accepted[e], tx) ELSE accepted[e]]
  /\ UNCHANGED <<loaded, sent>>

Pop ==
  /\ PopReady
  /\ phase' = "running"
  /\ sent' = [e \in Eoa |->
        IF e = EoaOf[Head(ready)] THEN Append(sent[e], Head(ready)) ELSE sent[e]]
  /\ UNCHANGED <<loaded, accepted, seen>>

Finish(tx) ==
  /\ OnFinishedPending(tx)
  /\ phase' = "running"
  /\ UNCHANGED <<loaded, accepted, sent, seen>>

Step ==
  \/ \E tx \in Tx : LoadPending(tx) \/ Push(tx) \/ Finish(tx)
  \/ Pop

\* The process restarts: TransactionService::new starts from an empty queue.
Restart ==
  /\ eoa_to_pending' = [e \in Eoa |-> {}]
  /\ pending_to_eoa' = [t \in Tx |-> NoEoa]
  /\ ready' = <<>>
  /\ ready_per_eoa' = [e \in Eoa |-> 0]
  /\ blocked' = [e \in Eoa |-> <<>>]
  /\ phase' = "loading"
  /\ loaded' = [e \in Eoa |-> {}]
  /\ accepted' = [e \in Eoa |-> <<>>]
  /\ sent' = [e \in Eoa |-> <<>>]
  /\ seen' = {}

Next == Step \/ Restart

Spec == Init /\ [][Next]_vars

\* A signer has capacity again and again, and every transaction a signer holds
\* ends with a final status (Signer::send_and_watch_transaction always ends in
\* on_confirmed_transaction or on_failed_transaction), in a run without a restart.
FairSpec ==
  /\ Init /\ [][Step]_vars
  /\ WF_vars(Pop)
  /\ \A tx \in Tx : WF_vars(Finish(tx))

(***************************************************************************)
(* Properties                                                              *)
(***************************************************************************)

TypeOK ==
  /\ eoa_to_pending \in [Eoa -> SUBSET Tx]
  /\ pending_to_eoa \in [Tx -> Eoa \cup {NoEoa}]
  /\ ready \in Seq(Tx)
  /\ ready_per_eoa \in [Eoa -> Nat]
  /\ blocked \in [Eoa -> Seq(Tx)]
  /\ phase \in {"loading", "running"}
  /\ loaded \in [Eoa -> SUBSET Tx]
  /\ accepted \in [Eoa -> Seq(Tx)]
  /\ sent \in [Eoa -> Seq(Tx)]
  /\ seen \subseteq Tx

\* Transactions of e that are pending or ready: what the struct's doc comment bounds.
InFlight(e) == Cardinality(eoa_to_pending[e]) + ready_per_eoa[e]

AtLeastOne(n) == IF n = 0 THEN 1 ELSE n

\* The positions of e's transactions in the sequence s.
Positions(s, e) == {i \in 1..Len(s) : EoaOf[s[i]] = e}

\* "EOA can have at most one pending or ready transaction": so it is for an EOA
\* that was loaded with at most one pending transaction, and in general pushing,
\* popping and promoting never make an EOA hold more transactions in flight than
\* it was loaded with.
InFlightBound == \A e \in Eoa : InFlight(e) <= AtLeastOne(Cardinality(loaded[e]))

\* "If EOA has any blocked transactions, it must have either one pending or one
\* ready transaction": otherwise nothing would ever promote them.
BlockedHasPredecessor ==
  \A e \in Eoa : blocked[e] # <<>> => eoa_to_pending[e] # {} \/ ready_per_eoa[e] > 0

\* max_queued_per_eoa bounds the ready and blocked transactions of an EOA through
\* every promotion, although push checks it against two separate containers.
QueueBound == \A e \in Eoa : CountQueued(e) <= MaxQueuedPerEoa

\* What the doc comment of TxQueue promises, through loads, pushes, pops, promotions
\* and restarts in any order: one transaction of an EOA in flight, none blocked behind
\* nothing, and no more queued than allowed.
StructInvariants == InFlightBound /\ BlockedHasPredecessor /\ QueueBound

\* How many transactions of e the sequence s holds up to its position p.
Rank(s, e, p) == Cardinality({q \in Positions(s, e) : q <= p})

\* The sequence all is first, then the n transactions of e in the sequence mid, then last.
Joined(all, first, mid, n, e, last) ==
  /\ Len(all) = Len(first) + n + Len(last)
  /\ \A i \in 1..Len(first) : all[i] = first[i]
  /\ \A p \in Positions(mid, e) : all[Len(first) + Rank(mid, e, p)] = mid[p]
  /\ \A i \in 1..Len(last) : all[Len(first) + n + i] = last[i]

\* Over ready, blocked and pending, an EOA's accepted transactions leave the queue
\* in the order push accepted them, none lost and none twice: what was accepted is
\* what was sent, then what is ready, then what is blocked.
PerEoaFifo ==
  \A e \in Eoa : Joined(accepted[e], sent[e], ready, ready_per_eoa[e], e, blocked[e])

\* Every transaction the queue accepts is sent in the end: promotion leaves no
\* transaction behind, whatever the order in which pending ones finish.
AcceptedIsSent ==
  \A e \in Eoa : \A n \in 1..Cardinality(Tx) :
    (Len(accepted[e]) >= n) ~> (Len(sent[e]) >= n)

(***************************************************************************)
(* The inductive invariant behind the theorems of TxQueueProofs            *)
(***************************************************************************)

\* the two pending maps are inverse to each other and file a transaction under its EOA
PendingMapsAgree ==
  \A e \in Eoa, t \in Tx :
    /\ pending_to_eoa[t] = e <=> t \in eoa_to_pending[e]
    /\ t \in eoa_to_pending[e] => EoaOf[t] = e

\* the counters kept beside the ready queue count it
ReadyCountExact ==
  \A e \in Eoa : ready_per_eoa[e] = Cardinality(Positions(ready, e))

\* each blocked queue holds the transactions of its own EOA
BlockedOwner ==
  \A e \in Eoa : \A i \in 1..Len(blocked[e]) : EoaOf[blocked[e][i]] = e

\* the sets whose sizes are compared are finite
FinitePending == \A e \in Eoa : IsFiniteSet(eoa_to_pending[e]) /\ IsFiniteSet(loaded[e])

\* while loading, the loaded transactions are all there is
LoadingOnly ==
  phase = "loading" => \A e \in Eoa : eoa_to_pending[e] = loaded[e] /\ ready_per_eoa[e] = 0

IInv ==
  /\ TypeOK
  /\ PendingMapsAgree
  /\ ReadyCountExact
  /\ BlockedOwner
  /\ FinitePending
  /\ LoadingOnly
  /\ InFlightBound
  /\ BlockedHasPredecessor
  /\ QueueBound
==============================================================================
