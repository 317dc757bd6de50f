-------------------------------- MODULE Monitor ------------------------------
(***************************************************************************)
(* Watching transactions for their receipts.  A watch asks the local node, *)
(* an external node and the flashblocks watcher at once; the first receipt *)
(* wins, and without one it ends when all three have.  The flashblocks     *)
(* watcher is one task with a map from hashes to the watch that waits for  *)
(* them and a list of the deadlines at which it forgets a hash.  Deadlines *)
(* are distinct instants.                                                  *)
(***************************************************************************)
EXTENDS Naturals, Sequences

CONSTANTS
  Hashes,        \* hashes of transactions
  Watches,       \* calls of watch_transaction
  WatchWindow,   \* timeout of a watch
  MaxInstant     \* bound on the time

ASSUME WindowAssumption == WatchWindow \in Nat /\ MaxInstant \in Nat

VARIABLES
  instant,     \* the time
  included,    \* transactions in a block
  watch,       \* [w]: its hash, and the state of its three futures
  requests,    \* requests_rx of the flashblocks watcher
  pending,     \* pending: pairs of a hash and the watch that waits, one per hash
  reapAt,      \* reap_at: pairs of an instant and a hash
  receiptOf    \* watches whose receipt a spawned task fetches

monitorVars == <<instant, included, watch, requests, pending, reapAt, receiptOf>>

Futures == {"local", "external", "flash"}
Unwatched == [hash |-> "none", result |-> "new", future |-> [f \in Futures |-> "idle"]]

MonitorInit ==
  /\ instant = 0 /\ included = {}
  /\ watch = [w \in Watches |-> Unwatched]
  /\ requests = <<>> /\ pending = {} /\ reapAt = {} /\ receiptOf = {}

\* TransactionMonitoringHandle::watch_transaction.
WatchTransaction(w, h) ==
  /\ watch[w].result = "new"
  /\ watch' = [watch EXCEPT ![w] = [hash |-> h, result |-> "waiting", future |-> [f \in Futures |-> "waiting"]]]
  /\ requests' = Append(requests, w)
  /\ UNCHANGED <<instant, included, pending, reapAt, receiptOf>>

\* A node confirms the transaction, and gives its receipt or fails to.
NodeConfirms(w, f, found) ==
  /\ watch[w].result = "waiting" /\ f # "flash" /\ watch[w].future[f] = "waiting"
  /\ watch[w].hash \in included
  /\ watch' = [watch EXCEPT ![w].future[f] = IF found THEN "receipt" ELSE "nothing"]
  /\ UNCHANGED <<instant, included, requests, pending, reapAt, receiptOf>>

\* The node's own watch timed out or failed.
NodeEnds(w, f) ==
  /\ watch[w].result = "waiting" /\ f # "flash" /\ watch[w].future[f] = "waiting"
  /\ watch' = [watch EXCEPT ![w].future[f] = "nothing"]
  /\ UNCHANGED <<instant, included, requests, pending, reapAt, receiptOf>>

-----------------------------------------------------------------------------
(* The flashblocks watcher: after each event it reaps what is due. *)

Expired(reap) == {x \in reap : x[1] < instant}
\* A sender that leaves the map is dropped, which ends the watch's future.
Dropped(ws) ==
  watch' = [w \in Watches |->
    IF w \in ws /\ watch[w].future["flash"] = "waiting" THEN [watch[w] EXCEPT !.future["flash"] = "nothing"]
    ELSE watch[w]]

\* The end of the loop's body: pend and reap are the maps after the event, and over
\* the watches that the event itself dropped.
ReapTimeouts(pend, reap, over) ==
  LET due == {x[2] : x \in Expired(reap)}
  IN  /\ reapAt' = reap \ Expired(reap)
      /\ pending' = {x \in pend : x[1] \notin due}
      /\ Dropped(over \cup {x[2] : x \in {y \in pend : y[1] \in due}})

\* A request replaces the watch that waited for the same hash.
TakeRequest ==
  /\ requests # <<>>
  /\ LET w == Head(requests)
         h == watch[w].hash
         others == {x \in pending : x[1] # h}
     IN  ReapTimeouts(others \cup {<<h, w>>}, reapAt \cup {<<instant + WatchWindow, h>>},
                      {x[2] : x \in pending \ others})
  /\ requests' = Tail(requests)
  /\ UNCHANGED <<instant, included, receiptOf>>

Flashblock(hs) ==
  /\ hs # {} /\ hs \subseteq included
  /\ LET hit == {x \in pending : x[1] \in hs}
     IN  /\ receiptOf' = receiptOf \cup {x[2] : x \in hit}
         /\ ReapTimeouts(pending \ hit, reapAt, {})
  /\ UNCHANGED <<instant, included, requests>>

\* The watcher slept until the first deadline.
SleepUntilFirstDeadline ==
  /\ Expired(reapAt) # {}
  /\ ReapTimeouts(pending, reapAt, {})
  /\ UNCHANGED <<instant, included, requests, receiptOf>>

ReceiptFetched(w, found) ==
  /\ w \in receiptOf /\ receiptOf' = receiptOf \ {w}
  /\ watch' = [watch EXCEPT ![w].future["flash"] = IF found THEN "receipt" ELSE "nothing"]
  /\ UNCHANGED <<instant, included, requests, pending, reapAt>>

-----------------------------------------------------------------------------
\* Mutant of Result: the first future to end decides.
ResultOfFirst(future) ==
  IF \E f \in Futures : future[f] = "receipt" THEN "receipt"
  ELSE IF \E f \in Futures : future[f] = "nothing" THEN "nothing" ELSE "waiting"
\* The loop over the futures of a watch.
Result(future) ==
  IF \E f \in Futures : future[f] = "receipt" THEN "receipt"
  ELSE IF \A f \in Futures : future[f] = "nothing" THEN "nothing" ELSE "waiting"

\* The watch returns; the futures that still run are dropped.
WatchReturns(w) ==
  /\ watch[w].result = "waiting" /\ Result(watch[w].future) # "waiting"
  /\ watch' = [watch EXCEPT ![w].result = Result(watch[w].future)]
  /\ UNCHANGED <<instant, included, requests, pending, reapAt, receiptOf>>

Include(h) ==
  /\ h \notin included /\ included' = included \cup {h}
  /\ UNCHANGED <<instant, watch, requests, pending, reapAt, receiptOf>>

MonitorTick ==
  /\ instant < MaxInstant /\ instant' = instant + 1
  /\ UNCHANGED <<included, watch, requests, pending, reapAt, receiptOf>>

MonitorNext ==
  \/ \E w \in Watches :
       \/ \E h \in Hashes : WatchTransaction(w, h)
       \/ \E f \in Futures : NodeEnds(w, f) \/ \E found \in BOOLEAN : NodeConfirms(w, f, found)
       \/ (\E found \in BOOLEAN : ReceiptFetched(w, found)) \/ WatchReturns(w)
  \/ TakeRequest \/ (\E hs \in SUBSET Hashes : Flashblock(hs)) \/ SleepUntilFirstDeadline
  \/ (\E h \in Hashes : Include(h)) \/ MonitorTick

MonitorSpec == MonitorInit /\ [][MonitorNext]_monitorVars

-----------------------------------------------------------------------------
\* No watch is forgotten: one whose flashblocks future has not ended is still queued,
\* or is the one that the map has for its hash with a deadline to end it, or its receipt
\* is being fetched.  A watch returns without a receipt only after all three have ended
\* (the signer then replaces or resends), and with one only for an included transaction.
WatchesEnd ==
  \A w \in Watches :
    /\ watch[w].future["flash"] = "waiting" =>
         \/ \E i \in DOMAIN requests : requests[i] = w
         \/ <<watch[w].hash, w>> \in pending /\ \E x \in reapAt : x[2] = watch[w].hash
         \/ w \in receiptOf
    /\ watch[w].result = "receipt" => watch[w].hash \in included
    /\ watch[w].result = "nothing" => \A f \in Futures : watch[w].future[f] = "nothing"

(***************************************************************************)
(* The inductive invariant behind the theorem about it in RelayProofs      *)
(***************************************************************************)

FutureStates == {"idle", "waiting", "receipt", "nothing"}
WatchRow ==
  [hash : Hashes \cup {"none"}, result : {"new", "waiting", "receipt", "nothing"},
   future : [Futures -> FutureStates]]
MonitorTypeOK ==
  /\ instant \in Nat /\ included \subseteq Hashes /\ watch \in [Watches -> WatchRow]
  /\ requests \in Seq(Watches) /\ pending \subseteq Hashes \X Watches
  /\ reapAt \subseteq Nat \X Hashes /\ receiptOf \subseteq Watches

Queued(w) == \E i \in DOMAIN requests : requests[i] = w
Mapped(w) == \E x \in pending : x[2] = w

\* the watcher knows a watch in one place, and only while its future waits
OneKeeper ==
  /\ \A i, j \in DOMAIN requests : requests[i] = requests[j] => i = j
  /\ \A w \in Watches :
       /\ Queued(w) => ~Mapped(w) /\ w \notin receiptOf
       /\ Mapped(w) => w \notin receiptOf
       /\ Queued(w) \/ Mapped(w) \/ w \in receiptOf =>
            watch[w].future["flash"] = "waiting" /\ watch[w].result # "new"

\* the map files a watch under its hash, and has a deadline for each
MapKept ==
  \A x \in pending : watch[x[2]].hash = x[1] /\ \E y \in reapAt : y[2] = x[1]

\* a receipt is that of an included transaction
ReceiptsReal ==
  \A w \in Watches :
    /\ w \in receiptOf => watch[w].hash \in included
    /\ \A f \in Futures : watch[w].future[f] = "receipt" => watch[w].hash \in included
    /\ IF watch[w].result = "new" THEN \A f \in Futures : watch[w].future[f] = "idle"
       ELSE watch[w].hash \in Hashes

MonitorIInv == MonitorTypeOK /\ OneKeeper /\ MapKept /\ ReceiptsReal /\ WatchesEnd
==============================================================================
