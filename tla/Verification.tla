---------------------------- MODULE Verification ----------------------------
(***************************************************************************)
(* The LayerZero verification monitor, for one pair of destination chain   *)
(* and receive library: all packets share one log subscription of the      *)
(* node, kept in log_subscriptions, whose task broadcasts the events to    *)
(* the packets that listen.  A packet subscribes, reads the chain, and     *)
(* then waits for an event, its poll or the deadline; the last listener    *)
(* asks for the clean-up of the subscription, a failing stream removes it. *)
(***************************************************************************)
EXTENDS Integers, FiniteSets

CONSTANTS
  Packets,    \* packets that are waited for
  Dvns,       \* verifications a packet needs
  MaxStreams  \* bound on the subscriptions at one time; packets + 1 are enough

\* Finitely many packets; no message can be executed without a verification.
ASSUME PacketsAssumption == IsFiniteSet(Packets) /\ Dvns \in Nat \ {0} /\ MaxStreams \in Nat

VARIABLES
  dvns,      \* [p]: verifications on the destination chain
  listed,    \* the subscription in log_subscriptions, 0 without one
  stream,    \* [s]: "alive", "failing" (its stream ended) or "dead" (also: not used)
  count,     \* [s]: subscribers_count
  cleanup,   \* [s]: cleanup_tx holds a request
  logs,      \* [s]: packets of events the node sent that the task has not read
  monitor,   \* [p]: where monitor_packet is
  rx,        \* [p]: the subscription the packet listens to, 0 without one
  inbox,     \* [p]: an event of the packet waits in its receiver
  late       \* the deadline has passed

streamVars == <<listed, stream, count, cleanup, logs>>
packetVars == <<monitor, rx, inbox>>
vars == <<dvns, streamVars, packetVars, late>>

Streams == 1..MaxStreams
Listening == {"check", "wait", "event"}
Ended == {"verified", "timeout", "error"}

\* is_message_available: the receive library has enough verifications.
Available(p) == dvns[p] = Dvns

Init ==
  /\ dvns = [p \in Packets |-> 0]
  /\ listed = 0
  /\ stream = [s \in Streams |-> "dead"]
  /\ count = [s \in Streams |-> 0]
  /\ cleanup = [s \in Streams |-> FALSE]
  /\ logs = [s \in Streams |-> {}]
  /\ monitor = [p \in Packets |-> "idle"]
  /\ rx = [p \in Packets |-> 0]
  /\ inbox = [p \in Packets |-> FALSE]
  /\ late = FALSE

(***************************************************************************)
(* The chain and its node                                                  *)
(***************************************************************************)

\* A verification is recorded; a node that stalls silently does not report it.
Verify(p, reported) ==
  /\ dvns[p] < Dvns
  /\ dvns' = [dvns EXCEPT ![p] = @ + 1]
  /\ logs' = [s \in Streams |->
                IF stream[s] = "alive" /\ reported THEN logs[s] \cup {p} ELSE logs[s]]
  /\ UNCHANGED <<listed, stream, count, cleanup, packetVars, late>>

\* The stream ends with an error, and its task is about to leave.
StreamFails(s) ==
  /\ stream[s] = "alive"
  /\ stream' = [stream EXCEPT ![s] = "failing"]
  /\ UNCHANGED <<dvns, listed, count, cleanup, logs, packetVars, late>>

DeadlinePasses ==
  /\ ~late
  /\ late' = TRUE
  /\ UNCHANGED <<dvns, streamVars, packetVars>>

(***************************************************************************)
(* The task of a subscription                                              *)
(***************************************************************************)

Broadcast(s, p) ==
  /\ stream[s] = "alive" /\ p \in logs[s]
  /\ logs' = [logs EXCEPT ![s] = @ \ {p}]
  /\ inbox' = [inbox EXCEPT ![p] = @ \/ rx[p] = s]
  /\ UNCHANGED <<dvns, listed, stream, count, cleanup, monitor, rx, late>>

\* force_cleanup removes the entry of the key, whatever it is, and the task ends.
ForceCleanup(s) ==
  /\ stream[s] = "failing"
  /\ stream' = [stream EXCEPT ![s] = "dead"]
  /\ listed' = 0
  /\ logs' = [logs EXCEPT ![s] = {}] /\ cleanup' = [cleanup EXCEPT ![s] = FALSE]
  /\ UNCHANGED <<dvns, count, packetVars, late>>

\* A request for clean-up: under the write lock, the entry of the key is removed if
\* nobody listens, and the task ends.
TryCleanup(s) ==
  /\ stream[s] = "alive" /\ cleanup[s]
  /\ cleanup' = [cleanup EXCEPT ![s] = FALSE]
  /\ IF listed # 0 /\ count[listed] = 0
     THEN /\ listed' = 0 /\ stream' = [stream EXCEPT ![s] = "dead"]
          /\ logs' = [logs EXCEPT ![s] = {}]
     ELSE UNCHANGED <<listed, stream, logs>>
  /\ UNCHANGED <<dvns, count, packetVars, late>>

(***************************************************************************)
(* monitor_packet                                                          *)
(***************************************************************************)

\* Drop of a PacketSubscription (notify_drop), and the new place of the packet.
Leave(p, place) ==
  LET s == rx[p] IN
  /\ rx' = [rx EXCEPT ![p] = 0]
  /\ inbox' = [inbox EXCEPT ![p] = FALSE]
  /\ monitor' = [monitor EXCEPT ![p] = place]
  /\ count' = [count EXCEPT ![s] = @ - 1]
  /\ cleanup' = [cleanup EXCEPT ![s] = @ \/ (count[s] = 1 /\ stream[s] # "dead")]
  /\ UNCHANGED <<dvns, listed, stream, logs, late>>

Goto(p, place) == monitor' = [monitor EXCEPT ![p] = place]

Start(p) ==
  /\ monitor[p] = "idle"
  /\ Goto(p, "subscribe")
  /\ UNCHANGED <<dvns, streamVars, rx, inbox, late>>

\* A fresh subscription: no listener of an earlier one is left.
Fresh(s) == stream[s] = "dead" /\ \A p \in Packets : rx[p] # s

Listen(p, s) ==
  /\ rx' = [rx EXCEPT ![p] = s]
  /\ Goto(p, "check")
  /\ count' = [count EXCEPT ![s] = @ + 1]

\* Mutant of SubscribeToPayloadEvents: without the second look under the write lock.
SubscribeAgain(p) ==
  /\ monitor[p] = "subscribe"
  /\ \/ listed # 0 /\ Listen(p, listed) /\ UNCHANGED <<listed, stream>>
     \/ \E s \in Streams :
          /\ Fresh(s)
          /\ stream' = [stream EXCEPT ![s] = "alive"]
          /\ listed' = s /\ Listen(p, s)
  /\ UNCHANGED <<dvns, cleanup, logs, inbox, late>>

\* The entry of the table is used if there is one; otherwise, under the write lock,
\* a new subscription is made and entered.
SubscribeToPayloadEvents(p) ==
  /\ monitor[p] = "subscribe"
  /\ \/ listed # 0 /\ Listen(p, listed) /\ UNCHANGED <<listed, stream>>
     \/ /\ listed = 0
        /\ \E s \in Streams :
             /\ Fresh(s)
             /\ stream' = [stream EXCEPT ![s] = "alive"]
             /\ listed' = s /\ Listen(p, s)
  /\ UNCHANGED <<dvns, cleanup, logs, inbox, late>>

\* The node refuses the subscription.
SubscribeFails(p) ==
  /\ monitor[p] = "subscribe" /\ listed = 0
  /\ Goto(p, "error")
  /\ UNCHANGED <<dvns, streamVars, rx, inbox, late>>

\* The chain is read after subscribing, so that no event is missed.
Check(p) ==
  /\ monitor[p] = "check"
  /\ IF Available(p) THEN Leave(p, "verified")
     ELSE Goto(p, "wait") /\ UNCHANGED <<dvns, streamVars, rx, inbox, late>>

\* An event says that some verification came; whether it is the last one is read
\* from the chain.
Receive(p) ==
  /\ monitor[p] = "wait" /\ inbox[p]
  /\ Goto(p, "event")
  /\ inbox' = [inbox EXCEPT ![p] = FALSE]
  /\ UNCHANGED <<dvns, streamVars, rx, late>>

\* Mutant of CheckEvent: any event counts as the last verification.
CheckEventTrusts(p) ==
  /\ monitor[p] = "event"
  /\ Leave(p, "verified")

CheckEvent(p) ==
  /\ monitor[p] = "event"
  /\ IF Available(p) THEN Leave(p, "verified")
     ELSE Goto(p, "wait") /\ UNCHANGED <<dvns, streamVars, rx, inbox, late>>

\* Mutant of Poll: there is none.
PollNever(p) == FALSE /\ UNCHANGED vars

\* The poll that does not depend on events.
Poll(p) ==
  /\ monitor[p] = "wait" /\ Available(p)
  /\ Leave(p, "verified")

\* recv fails: the channel is closed, or the receiver was too slow.
Resubscribe(p) ==
  /\ monitor[p] = "wait"
  /\ stream[rx[p]] = "dead" \/ inbox[p]
  /\ Leave(p, "subscribe")

\* Reading the chain fails.
ReadFails(p) ==
  /\ monitor[p] \in Listening
  /\ Leave(p, "error")

TimesOut(p) ==
  /\ monitor[p] = "wait" /\ late
  /\ Leave(p, "timeout")

PacketStep(p) ==
  \/ SubscribeToPayloadEvents(p) \/ Check(p) \/ Receive(p) \/ CheckEvent(p)
  \/ Poll(p) \/ Resubscribe(p) \/ TimesOut(p)

StreamStep(s) ==
  (\E p \in Packets : Broadcast(s, p)) \/ ForceCleanup(s) \/ TryCleanup(s)

Environment ==
  \/ \E p \in Packets :
       \/ \E reported \in BOOLEAN : Verify(p, reported)
       \/ SubscribeFails(p) \/ ReadFails(p)
  \/ \E s \in Streams : StreamFails(s)
  \/ DeadlinePasses

Next ==
  \/ \E p \in Packets : Start(p) \/ PacketStep(p)
  \/ \E s \in Streams : StreamStep(s)
  \/ Environment

\* Tasks go on and polls tick; select! takes a ready branch at
\* random, so the deadline is not passed over for ever.
Fairness ==
  /\ \A p \in Packets :
       /\ WF_vars(SubscribeToPayloadEvents(p) \/ Check(p) \/ CheckEvent(p))
       /\ WF_vars(Poll(p)) /\ SF_vars(TimesOut(p))
       /\ WF_vars(Resubscribe(p) /\ stream[rx[p]] = "dead")
  /\ \A s \in Streams : WF_vars(ForceCleanup(s)) /\ WF_vars(TryCleanup(s))

Spec == Init /\ [][Next]_vars /\ Fairness
(***************************************************************************)
(* Properties                                                              *)
(***************************************************************************)

\* Types of the variables.
TypeOK ==
  /\ dvns \in [Packets -> 0..Dvns]
  /\ listed \in 0..MaxStreams
  /\ stream \in [Streams -> {"alive", "failing", "dead"}]
  /\ count \in [Streams -> 0..Cardinality(Packets)]
  /\ cleanup \in [Streams -> BOOLEAN]
  /\ logs \in [Streams -> SUBSET Packets]
  /\ monitor \in [Packets -> {"idle", "subscribe"} \cup Listening \cup Ended]
  /\ rx \in [Packets -> 0..MaxStreams]
  /\ inbox \in [Packets -> BOOLEAN]
  /\ late \in BOOLEAN

\* There is one subscription of the node, and it is the one new packets find: none
\* leaks beside the table, the table never holds one whose task is gone, and its count
\* is the number of its listeners.
OneSubscription ==
  TypeOK /\ \A s \in Streams : /\ stream[s] # "dead" <=> listed = s
                               /\ count[s] = Cardinality({p \in Packets : rx[p] = s})

\* The inductive invariant behind the theorems: a packet holds a receiver exactly while
\* it listens, so that its drop takes down the count of a subscription that counted it.
ReceiverHeld == \A p \in Packets : rx[p] # 0 <=> monitor[p] \in Listening
IInv == OneSubscription /\ ReceiverHeld

\* A packet that is verified while it is waited for is reported as verified before
\* the deadline, also when the node silently stops reporting events or the stream
\* breaks; only a failing read of the chain can prevent it.
VerifiedInTime ==
  \A p \in Packets :
    (monitor[p] \in Listening /\ Available(p)) ~> (monitor[p] \in {"verified", "error"} \/ late)

\* PacketWait seen through the monitor: what can be executed, and how a wait ended.
Wait == INSTANCE PacketWait WITH
  available <- {p \in Packets : Available(p)},
  outcome <- [p \in Packets |-> IF monitor[p] \in Ended THEN monitor[p] ELSE "none"]

\* The monitor keeps what wait_for_verifications promises (PacketWait): a packet is
\* reported once, and as verified only when the chain says so.
KeepsPromise == Wait!Spec

\* Once the deadline has passed every wait ends, and when no packet is left the node's
\* subscription is given up.
WaitsEnd ==
  /\ \A p \in Packets : (late /\ monitor[p] = "subscribe") ~> (monitor[p] \in Ended)
  /\ (\A p \in Packets : monitor[p] \in Ended) ~> (listed = 0)

\* A wait ends, and in time for what was verified.
WaitsAnswered == VerifiedInTime /\ WaitsEnd
=============================================================================
