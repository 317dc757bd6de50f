-------------------------- MODULE CrossChainProofs --------------------------
(***************************************************************************)
(* What crosses chains, one section each.  The packets of a settlement:    *)
(* the verification monitor for any finite set of packets, any number of   *)
(* verifications and of subscriptions keeps the table and the node agreed  *)
(* on the one subscription, and implements PacketWait.  The transfers of   *)
(* the rebalance service, for any chains, amounts and number of restarts:  *)
(* the money moves once, and no source falls below its threshold.  The one *)
(* root that is signed for the intents of all chains: every intent has a   *)
(* proof under it that is good for no other.                               *)
(***************************************************************************)
EXTENDS Verification, Rebalance, Merkle, FiniteSetTheorems, SequenceTheorems, WellFoundedInduction, TLAPS

(***************************************************************************)
(* Listeners                                                               *)
(***************************************************************************)

Listeners(s) == {p \in Packets : rx[p] = s}

\* A listener that comes.
LEMMA CardinalityAdd ==
  ASSUME NEW S \in SUBSET Packets, NEW p \in Packets, p \notin S
  PROVE  /\ IsFiniteSet(S) /\ Cardinality(S) \in Nat
         /\ Cardinality(S \cup {p}) = Cardinality(S) + 1
<1>1. IsFiniteSet(S)
  BY PacketsAssumption, FS_Subset, Zenon
<1> QED
  BY <1>1, FS_AddElement, FS_CardinalityType, Zenon

\* A listener that goes.
LEMMA CardinalityRemove ==
  ASSUME NEW S \in SUBSET Packets, NEW p \in S
  PROVE  /\ IsFiniteSet(S) /\ Cardinality(S) \in Nat \ {0}
         /\ Cardinality(S \ {p}) = Cardinality(S) - 1
<1>1. IsFiniteSet(S)
  BY PacketsAssumption, FS_Subset, Zenon
<1>2. Cardinality(S) \in Nat /\ Cardinality(S) # 0
  BY <1>1, FS_CardinalityType, FS_EmptySet, Zenon
<1>3. Cardinality(S \ {p}) = Cardinality(S) - 1
  BY <1>1, FS_RemoveElement, Zenon
<1> QED
  BY <1>1, <1>2, <1>3

\* No subscription has more listeners than there are packets.
LEMMA ListenersBound ==
  ASSUME NEW S \in SUBSET Packets
  PROVE  Cardinality(S) \in 0..Cardinality(Packets)
<1>1. Cardinality(S) <= Cardinality(Packets)
  BY PacketsAssumption, FS_Subset, Zenon
<1>2. IsFiniteSet(S)
  BY PacketsAssumption, FS_Subset, Zenon
<1>3. Cardinality(S) \in Nat /\ Cardinality(Packets) \in Nat
  BY <1>2, PacketsAssumption, FS_CardinalityType, Zenon
<1> QED
  BY <1>1, <1>3

(***************************************************************************)
(* The invariant is inductive                                              *)
(***************************************************************************)

LEMMA InitInv == Init => IInv
<1> SUFFICES ASSUME Init PROVE IInv
  OBVIOUS
<1>1. Cardinality({}) = 0
  BY FS_EmptySet, Zenon
<1>2. \A s \in Streams : {p \in Packets : rx[p] = s} = {}
  BY PacketsAssumption DEF Init, Streams
<1>3. \A s \in Streams : count[s] = Cardinality({p \in Packets : rx[p] = s})
  BY <1>1, <1>2 DEF Init
<1>4. TypeOK
  <2>1. Cardinality(Packets) \in Nat
    BY PacketsAssumption, FS_CardinalityType, Zenon
  <2>2. count \in [Streams -> 0..Cardinality(Packets)] /\ dvns \in [Packets -> 0..Dvns]
    BY <2>1, PacketsAssumption DEF Init
  <2>3. /\ rx \in [Packets -> 0..MaxStreams] /\ listed \in 0..MaxStreams
        /\ stream \in [Streams -> {"alive", "failing", "dead"}]
        /\ monitor \in [Packets -> {"idle", "subscribe"} \cup Listening \cup Ended]
    BY PacketsAssumption DEF Init
  <2>4. /\ cleanup \in [Streams -> BOOLEAN] /\ logs \in [Streams -> SUBSET Packets]
        /\ inbox \in [Packets -> BOOLEAN] /\ late \in BOOLEAN
    BY DEF Init
  <2> QED
    BY <2>2, <2>3, <2>4 DEF TypeOK
<1>5. \A s \in Streams : stream[s] # "dead" <=> listed = s
  BY PacketsAssumption DEF Init, Streams
<1>6. ReceiverHeld
  BY DEF Init, ReceiverHeld, Listening
<1> QED
  BY <1>3, <1>4, <1>5, <1>6 DEF IInv, OneSubscription

\* The table and the streams, taken out of the invariant.
LEMMA TableShape ==
  ASSUME IInv
  PROVE  /\ 0 \notin Streams /\ listed \in Streams \cup {0}
         /\ stream \in [Streams -> {"alive", "failing", "dead"}]
         /\ \A s \in Streams : stream[s] # "dead" <=> listed = s
         /\ rx \in [Packets -> Streams \cup {0}]
         /\ \A p \in Packets : rx[p] # 0 <=> monitor[p] \in Listening
<1>1. 0..MaxStreams = Streams \cup {0} /\ 0 \notin Streams
  BY PacketsAssumption DEF Streams
<1> QED
  BY <1>1 DEF IInv, OneSubscription, TypeOK, ReceiverHeld

\* The steps that leave count and receivers alone.
LEMMA QuietInv ==
  ASSUME IInv, TypeOK', UNCHANGED <<count, rx>>,
         \A s \in Streams : stream'[s] # "dead" <=> listed' = s,
         \A p \in Packets : monitor'[p] \in Listening <=> monitor[p] \in Listening
  PROVE  IInv'
<1>1. \A s \in Streams : count'[s] = Cardinality({p \in Packets : rx'[p] = s})
  BY DEF IInv, OneSubscription
<1>2. ReceiverHeld'
  BY DEF IInv, ReceiverHeld
<1> QED
  BY <1>1, <1>2 DEF IInv, OneSubscription

LEMMA VerifyInv ==
  ASSUME IInv, NEW p \in Packets, NEW reported \in BOOLEAN, Verify(p, reported)
  PROVE  IInv'
<1>1. TypeOK'
  <2>1. dvns' \in [Packets -> 0..Dvns]
    BY PacketsAssumption DEF IInv, OneSubscription, TypeOK, Verify
  <2>2. logs' \in [Streams -> SUBSET Packets]
    BY DEF IInv, OneSubscription, TypeOK, Verify
  <2> QED
    BY <2>1, <2>2 DEF IInv, OneSubscription, TypeOK, Verify, packetVars
<1> QED
  BY <1>1, QuietInv DEF IInv, OneSubscription, Verify, packetVars

LEMMA TaskInv ==
  ASSUME IInv, NEW s \in Streams, StreamStep(s) \/ StreamFails(s)
  PROVE  IInv'
<1>1. CASE \E p \in Packets : Broadcast(s, p)
  <2>1. PICK p \in Packets : Broadcast(s, p)
    BY <1>1
  <2>2. logs' \in [Streams -> SUBSET Packets] /\ inbox' \in [Packets -> BOOLEAN]
    BY <2>1 DEF IInv, OneSubscription, TypeOK, Broadcast
  <2>3. TypeOK'
    BY <2>1, <2>2 DEF IInv, OneSubscription, TypeOK, Broadcast
  <2> QED
    BY <2>1, <2>3, QuietInv DEF IInv, OneSubscription, Broadcast
<1>2. CASE ForceCleanup(s)
  <2>1. TypeOK'
    BY <1>2, PacketsAssumption DEF IInv, OneSubscription, TypeOK, ForceCleanup, packetVars
  <2>2. listed = s
    BY <1>2 DEF IInv, OneSubscription, ForceCleanup
  <2>3. \A t \in Streams : stream'[t] # "dead" <=> listed' = t
    BY <1>2, <2>2, TableShape DEF ForceCleanup
  <2> QED
    BY <1>2, <2>1, <2>3, QuietInv DEF ForceCleanup, packetVars
<1>3. CASE TryCleanup(s)
  <2>1. TypeOK'
    BY <1>3, PacketsAssumption DEF IInv, OneSubscription, TypeOK, TryCleanup, packetVars
  <2>2. listed = s
    BY <1>3 DEF IInv, OneSubscription, TryCleanup
  <2>3. \A t \in Streams : stream'[t] # "dead" <=> listed' = t
    BY <1>3, <2>2, TableShape DEF TryCleanup
  <2> QED
    BY <1>3, <2>1, <2>3, QuietInv DEF TryCleanup, packetVars
<1>4. CASE StreamFails(s)
  <2>1. TypeOK'
    BY <1>4 DEF IInv, OneSubscription, TypeOK, StreamFails, packetVars
  <2>2. \A t \in Streams : stream'[t] # "dead" <=> listed' = t
    BY <1>4 DEF IInv, OneSubscription, TypeOK, StreamFails
  <2> QED
    BY <1>4, <2>1, <2>2, QuietInv DEF StreamFails, packetVars
<1> QED
  BY <1>1, <1>2, <1>3, <1>4 DEF StreamStep

LEMMA DeadlineInv ==
  ASSUME IInv, DeadlinePasses
  PROVE  IInv'
<1>1. TypeOK'
  BY DEF IInv, OneSubscription, TypeOK, DeadlinePasses, streamVars, packetVars
<1> QED
  BY <1>1, QuietInv DEF IInv, OneSubscription, DeadlinePasses, streamVars, packetVars

\* A packet moves between places that need no receiver, or between ones that keep it.
LEMMA GotoInv ==
  ASSUME IInv, NEW p \in Packets, NEW place \in {"subscribe"} \cup Listening \cup Ended,
         Goto(p, place), place \in Listening <=> monitor[p] \in Listening,
         inbox' \in [Packets -> BOOLEAN], UNCHANGED <<dvns, streamVars, rx, late>>
  PROVE  IInv'
<1>1. TypeOK'
  BY DEF IInv, OneSubscription, TypeOK, Goto, streamVars
<1>2. \A q \in Packets : monitor'[q] \in Listening <=> monitor[q] \in Listening
  BY DEF IInv, OneSubscription, TypeOK, Goto
<1> QED
  BY <1>1, <1>2, QuietInv DEF IInv, OneSubscription, streamVars

\* The drop of a subscription takes one listener off its count.
LEMMA LeaveInv ==
  ASSUME IInv, NEW p \in Packets, monitor[p] \in Listening,
         NEW place \in {"subscribe"} \cup Ended, Leave(p, place)
  PROVE  IInv'
<1>1. PICK s \in Streams : s = rx[p]
  BY TableShape
<1>2. Listeners(s)' = Listeners(s) \ {p} /\ p \in Listeners(s)
  BY <1>1, TableShape DEF Leave, Listeners
<1>3. \A t \in Streams \ {s} : Listeners(t)' = Listeners(t)
  BY <1>1, TableShape DEF Leave, Listeners
<1>4. count'[s] = count[s] - 1 /\ \A t \in Streams \ {s} : count'[t] = count[t]
  BY <1>1 DEF IInv, OneSubscription, TypeOK, Leave
<1>5. \A t \in Streams : count[t] = Cardinality(Listeners(t))
  BY DEF IInv, OneSubscription, Listeners
<1>6. Listeners(s) \in SUBSET Packets
  BY DEF Listeners
<1>7. count'[s] = Cardinality(Listeners(s) \ {p})
  <2>1. Cardinality(Listeners(s) \ {p}) = Cardinality(Listeners(s)) - 1
    BY <1>2, <1>6, CardinalityRemove, Zenon
  <2> QED
    BY <1>1, <1>4, <1>5, <2>1
<1>8. \A t \in Streams : count'[t] = Cardinality(Listeners(t)')
  <2> TAKE t \in Streams
  <2>1. CASE t = s
    BY <1>2, <1>7, <2>1
  <2>2. CASE t # s
    BY <1>3, <1>4, <1>5, <2>2
  <2> QED
    BY <2>1, <2>2
<1>9. count' \in [Streams -> 0..Cardinality(Packets)]
  <2>1. \A t \in Streams : Listeners(t)' \in SUBSET Packets
    BY DEF Listeners
  <2>2. \A t \in Streams : count'[t] \in 0..Cardinality(Packets)
    BY <1>8, <2>1, ListenersBound
  <2>3. count' = [t \in Streams |-> count'[t]]
    BY DEF IInv, OneSubscription, TypeOK, Leave
  <2> QED
    BY <2>2, <2>3
<1>10. TypeOK'
  BY <1>9, PacketsAssumption DEF IInv, OneSubscription, TypeOK, Leave
<1>11. ReceiverHeld'
  BY PacketsAssumption DEF IInv, OneSubscription, TypeOK, Leave, ReceiverHeld, Listening, Ended
<1>12. \A t \in Streams : count'[t] = Cardinality({q \in Packets : rx'[q] = t})
  BY <1>8 DEF Listeners
<1> QED
  BY <1>10, <1>11, <1>12 DEF IInv, OneSubscription, Leave

\* A packet that subscribes, to the entry of the table or to a new subscription.
LEMMA SubscribeInv ==
  ASSUME IInv, NEW p \in Packets, SubscribeToPayloadEvents(p)
  PROVE  IInv'
<1>1. PICK s \in Streams :
        /\ Listen(p, s) /\ listed' = s
        /\ \/ listed = s /\ UNCHANGED stream
           \/ listed = 0 /\ stream' = [stream EXCEPT ![s] = "alive"]
  BY PacketsAssumption
    DEF IInv, OneSubscription, TypeOK, SubscribeToPayloadEvents, Streams
<1>2. rx[p] = 0 /\ monitor[p] = "subscribe"
  BY PacketsAssumption
    DEF IInv, OneSubscription, TypeOK, ReceiverHeld, SubscribeToPayloadEvents, Listening
<1>3. Listeners(s)' = Listeners(s) \cup {p} /\ p \notin Listeners(s)
  BY <1>1, <1>2, PacketsAssumption
    DEF IInv, OneSubscription, TypeOK, Listen, Listeners, Streams
<1>4. \A t \in Streams \ {s} : Listeners(t)' = Listeners(t)
  BY <1>1, <1>2, PacketsAssumption
    DEF IInv, OneSubscription, TypeOK, Listen, Listeners, Streams
<1>5. count'[s] = count[s] + 1 /\ \A t \in Streams \ {s} : count'[t] = count[t]
  BY <1>1 DEF IInv, OneSubscription, TypeOK, Listen
<1>6. \A t \in Streams : count[t] = Cardinality(Listeners(t))
  BY DEF IInv, OneSubscription, Listeners
<1>7. Listeners(s) \in SUBSET Packets
  BY DEF Listeners
<1>8. count'[s] = Cardinality(Listeners(s) \cup {p})
  <2>1. Cardinality(Listeners(s) \cup {p}) = Cardinality(Listeners(s)) + 1
    BY <1>3, <1>7, CardinalityAdd, Zenon
  <2> QED
    BY <1>5, <1>6, <2>1
<1>9. \A t \in Streams : count'[t] = Cardinality(Listeners(t)')
  <2> TAKE t \in Streams
  <2>1. CASE t = s
    BY <1>3, <1>8, <2>1
  <2>2. CASE t # s
    BY <1>4, <1>5, <1>6, <2>2
  <2> QED
    BY <2>1, <2>2
<1>10. count' \in [Streams -> 0..Cardinality(Packets)]
  <2>1. \A t \in Streams : Listeners(t)' \in SUBSET Packets
    BY DEF Listeners
  <2>2. \A t \in Streams : count'[t] \in 0..Cardinality(Packets)
    BY <1>9, <2>1, ListenersBound
  <2>3. count' = [t \in Streams |-> count'[t]]
    BY <1>1 DEF IInv, OneSubscription, TypeOK, Listen
  <2> QED
    BY <2>2, <2>3
<1>11. TypeOK'
  <2>1. stream' \in [Streams -> {"alive", "failing", "dead"}] /\ listed' \in 0..MaxStreams
    BY <1>1, PacketsAssumption DEF IInv, OneSubscription, TypeOK, Streams
  <2>2. /\ rx' \in [Packets -> 0..MaxStreams]
        /\ monitor' \in [Packets -> {"idle", "subscribe"} \cup Listening \cup Ended]
    BY <1>1, PacketsAssumption
      DEF IInv, OneSubscription, TypeOK, Listen, Goto, Streams, Listening
  <2> QED
    BY <1>10, <2>1, <2>2 DEF IInv, OneSubscription, TypeOK, SubscribeToPayloadEvents
<1>12. \A t \in Streams : stream'[t] # "dead" <=> listed' = t
  BY <1>1, TableShape
<1>13. ReceiverHeld'
  BY <1>1, <1>2, PacketsAssumption
    DEF IInv, OneSubscription, TypeOK, Listen, Goto, ReceiverHeld, Listening, Streams
<1>14. \A t \in Streams : count'[t] = Cardinality({q \in Packets : rx'[q] = t})
  BY <1>9 DEF Listeners
<1> QED
  BY <1>11, <1>12, <1>13, <1>14 DEF IInv, OneSubscription

LEMMA PacketInv ==
  ASSUME IInv, NEW p \in Packets, Start(p) \/ PacketStep(p) \/ SubscribeFails(p) \/ ReadFails(p)
  PROVE  IInv'
<1>1. monitor[p] \in {"idle", "subscribe"} \cup Listening \cup Ended /\ inbox \in [Packets -> BOOLEAN]
  BY DEF IInv, OneSubscription, TypeOK
<1>2. CASE Start(p)
  BY <1>2, <1>1, GotoInv DEF Start, Listening
<1>3. CASE SubscribeFails(p)
  BY <1>3, <1>1, GotoInv DEF SubscribeFails, Listening, Ended
<1>4. CASE ReadFails(p)
  BY <1>4, LeaveInv DEF ReadFails, Ended
<1>5. CASE SubscribeToPayloadEvents(p)
  BY <1>5, SubscribeInv
<1>6. CASE Check(p) \/ CheckEvent(p)
  <2>1. monitor[p] \in Listening
    BY <1>6 DEF Check, CheckEvent, Listening
  <2>2. CASE Leave(p, "verified")
    BY <2>1, <2>2, LeaveInv DEF Ended
  <2>3. CASE Goto(p, "wait") /\ UNCHANGED <<dvns, streamVars, rx, inbox, late>>
    BY <1>1, <2>1, <2>3, GotoInv DEF Listening
  <2> QED
    BY <1>6, <2>2, <2>3 DEF Check, CheckEvent
<1>7. CASE Receive(p)
  <2>1. inbox' \in [Packets -> BOOLEAN]
    BY <1>1, <1>7 DEF Receive
  <2> QED
    BY <1>7, <2>1, GotoInv DEF Receive, Listening
<1>8. CASE Poll(p) \/ Resubscribe(p) \/ TimesOut(p)
  BY <1>8, LeaveInv DEF Poll, Resubscribe, TimesOut, Listening, Ended
<1> QED
  BY <1>2, <1>3, <1>4, <1>5, <1>6, <1>7, <1>8 DEF PacketStep

LEMMA StutterInv ==
  ASSUME IInv, UNCHANGED vars
  PROVE  IInv'
BY DEF IInv, OneSubscription, TypeOK, ReceiverHeld, Available, vars, streamVars, packetVars

\* Every step keeps the invariant.
LEMMA StepInv ==
  ASSUME IInv, [Next]_vars
  PROVE  IInv'
<1>1. CASE UNCHANGED vars
  BY <1>1, StutterInv
<1>2. CASE Next
  BY <1>2, PacketInv, TaskInv, VerifyInv, DeadlineInv DEF Next, Environment
<1> QED
  BY <1>1, <1>2

\* IInv is an inductive invariant of the verification monitor: the counts of its
\* subscriptions and the receivers that its packets hold agree.
THEOREM Inductive == Spec => []IInv
<1> QED
  BY InitInv, StepInv, PTL DEF Spec

\* subscribe_to_payload_events and its clean-up: at any time the subscription of the
\* node is the one in log_subscriptions, and its count that of its listeners.
THEOREM SubscriptionIsOne == Spec => []OneSubscription
<1>1. IInv => OneSubscription
  BY DEF IInv
<1> QED
  BY <1>1, Inductive, PTL

(***************************************************************************)
(* The monitor implements PacketWait                                       *)
(***************************************************************************)

\* The packet's own steps: one that ends the wait is PacketWait's, the others it does
\* not see.
LEMMA PlaceRefines ==
  ASSUME TypeOK, UNCHANGED dvns, NEW p \in Packets, monitor[p] \notin Ended,
         NEW place \in {"subscribe"} \cup Listening \cup Ended, Goto(p, place),
         place = "verified" => Available(p)
  PROVE  [Wait!Next]_(Wait!vars)
<1> DEFINE outcome == [q \in Packets |-> IF monitor[q] \in Ended THEN monitor[q] ELSE "none"]
           available == {q \in Packets : Available(q)}
<1>1. monitor' = [monitor EXCEPT ![p] = place] /\ monitor = [q \in Packets |-> monitor[q]]
  BY DEF TypeOK, Goto
<1>2. available' = available
  BY DEF Available
<1>3. CASE place \in Ended
  <2>1. outcome' = [outcome EXCEPT ![p] = place] /\ outcome[p] = "none"
    BY <1>1, <1>3
  <2>2. place = "verified" => p \in available
    BY DEF Available
  <2>3. Wait!Ends(p, place)
    BY <1>2, <2>1, <2>2 DEF Wait!Ends
  <2> QED
    BY <1>3, <2>3 DEF Wait!Next, Wait!Outcomes, Ended
<1>4. CASE place \notin Ended
  <2>1. outcome' = outcome
    BY <1>1, <1>4
  <2> QED
    BY <1>2, <2>1 DEF Wait!vars
<1> QED
  BY <1>3, <1>4

LEMMA PacketRefines ==
  ASSUME IInv, NEW p \in Packets, Start(p) \/ PacketStep(p) \/ SubscribeFails(p) \/ ReadFails(p)
  PROVE  [Wait!Next]_(Wait!vars)
<1>1. TypeOK
  BY DEF IInv, OneSubscription
<1>2. PICK place \in {"subscribe"} \cup Listening \cup Ended :
        /\ Goto(p, place) /\ monitor[p] \notin Ended /\ UNCHANGED dvns
        /\ place = "verified" => Available(p)
  <2>1. CASE Start(p) \/ Receive(p)
    BY <2>1 DEF Start, Receive, Listening, Ended
  <2>2. CASE SubscribeFails(p) \/ ReadFails(p)
    BY <2>2 DEF SubscribeFails, ReadFails, Leave, Goto, Listening, Ended
  <2>3. CASE SubscribeToPayloadEvents(p)
    BY <2>3 DEF SubscribeToPayloadEvents, Listen, Listening, Ended
  <2>4. CASE Check(p) \/ CheckEvent(p)
    BY <2>4 DEF Check, CheckEvent, Leave, Goto, Listening, Ended
  <2>5. CASE Poll(p) \/ Resubscribe(p) \/ TimesOut(p)
    BY <2>5 DEF Poll, Resubscribe, TimesOut, Leave, Goto, Ended
  <2> QED
    BY <2>1, <2>2, <2>3, <2>4, <2>5 DEF PacketStep
<1> QED
  BY <1>1, <1>2, PlaceRefines

\* The last verification makes the message available.
LEMMA VerifyRefines ==
  ASSUME IInv, NEW p \in Packets, NEW reported \in BOOLEAN, Verify(p, reported)
  PROVE  [Wait!Next]_(Wait!vars)
<1> DEFINE available == {q \in Packets : Available(q)}
           outcome == [q \in Packets |-> IF monitor[q] \in Ended THEN monitor[q] ELSE "none"]
<1>1. dvns \in [Packets -> 0..Dvns] /\ dvns' = [dvns EXCEPT ![p] = @ + 1]
  BY DEF IInv, OneSubscription, TypeOK, Verify
<1>2. outcome' = outcome
  BY DEF Verify, packetVars
<1>3. CASE dvns'[p] = Dvns
  <2>1. available' = available \cup {p}
    BY <1>1, <1>3 DEF Available
  <2>2. Wait!BecomesAvailable(p)
    BY <1>2, <2>1 DEF Wait!BecomesAvailable
  <2> QED
    BY <2>2 DEF Wait!Next
<1>4. CASE dvns'[p] # Dvns
  <2>1. dvns[p] # Dvns
    BY <1>1, PacketsAssumption DEF Verify
  <2>2. available' = available
    BY <1>1, <1>4, <2>1 DEF Available
  <2> QED
    BY <1>2, <2>2 DEF Wait!vars
<1> QED
  BY <1>3, <1>4

\* Every step of the monitor is one of PacketWait or changes nothing it sees.
LEMMA StepRefines ==
  ASSUME IInv, [Next]_vars
  PROVE  [Wait!Next]_(Wait!vars)
<1>1. CASE UNCHANGED <<dvns, monitor>>
  BY <1>1 DEF Wait!vars, Available
<1>2. CASE \E s \in Streams : StreamStep(s) \/ StreamFails(s)
  BY <1>1, <1>2 DEF StreamStep, StreamFails, Broadcast, ForceCleanup, TryCleanup, packetVars
<1>3. CASE DeadlinePasses \/ UNCHANGED vars
  BY <1>1, <1>3 DEF DeadlinePasses, vars, packetVars
<1> QED
  BY <1>2, <1>3, PacketRefines, VerifyRefines DEF Next, Environment

LEMMA InitRefines == Init => Wait!Init
<1> SUFFICES ASSUME Init PROVE Wait!Init
  OBVIOUS
<1>1. {p \in Packets : Available(p)} = {}
  BY PacketsAssumption DEF Init, Available
<1>2. [p \in Packets |-> IF monitor[p] \in Ended THEN monitor[p] ELSE "none"]
        = [p \in Packets |-> "none"]
  BY DEF Init, Ended
<1> QED
  BY <1>1, <1>2 DEF Wait!Init

\* monitor_packet keeps what wait_for_verifications promises: each wait ends once, and
\* as verified only for a message that the destination chain can execute.
THEOREM ImplementsPacketWait == Spec => KeepsPromise
<1>1. Spec => Wait!Init /\ [][Wait!Next]_(Wait!vars)
  BY InitRefines, StepRefines, Inductive, PTL DEF Spec
<1> QED
  BY <1>1 DEF KeepsPromise, Wait!Spec

(***************************************************************************)
(* Rebalancing: transfers, and the money that moves once                   *)
(***************************************************************************)

\* A rebalance that is found is one between two chains of the relay.
LEMMA RebalanceChains ==
  ASSUME NEW r \in Rebalances
  PROVE  r.from \in Chains /\ r.to \in Chains
<1> DEFINE low  == [c \in Chains |-> Scaled(c, BalanceRange(c, service.seen[c]).low)]
           high == [c \in Chains |->
                      Scaled(c, BalanceRange(c, service.seen[c]).high + PendingInbound(c))]
           dsts == {c \in Chains : high[c] < 0 /\ \A d \in Chains : high[c] <= high[d]}
           srcs == {c \in Chains : low[c] > 0 /\ \A d \in Chains : low[c] >= low[d]}
           Amount(s, d) == (Min2(-high[d], low[s]) * Unit[s]) \div SCALE_FACTOR
           pairs == {p \in srcs \X dsts : /\ MinAmounts(p[1], p[2]) # {}
                                          /\ Amount(p[1], p[2]) >= GetMinRebalance(p[1], p[2])}
<1>1. r \in {[from |-> p[1], to |-> p[2], amount |-> Amount(p[1], p[2])] : p \in pairs}
  BY DEF Rebalances
<1>2. pairs \subseteq srcs \X dsts /\ srcs \subseteq Chains /\ dsts \subseteq Chains
  OBVIOUS
<1> HIDE DEF low, high, dsts, srcs, Amount, pairs
<1>3. PICK p \in pairs : r = [from |-> p[1], to |-> p[2], amount |-> Amount(p[1], p[2])]
  BY <1>1
<1> QED
  BY <1>2, <1>3

\* An event joins the channel at its end and leaves it at its head.
LEMMA ChannelStates ==
  ASSUME NEW S, NEW es \in Seq(S), NEW e \in S
  PROVE  /\ Append(es, e) \in Seq(S)
         /\ \A i \in 1..Len(Append(es, e)) :
              Append(es, e)[i] = e \/ \E j \in 1..Len(es) : Append(es, e)[i] = es[j]
         /\ es # << >> => /\ Tail(es) \in Seq(S) /\ Head(es) = es[1] /\ 1 \in 1..Len(es)
                          /\ \A i \in 1..Len(Tail(es)) : i + 1 \in 1..Len(es) /\ Tail(es)[i] = es[i + 1]
  OBVIOUS

LEMMA RebalanceStart == RebalanceInit => RebalanceIInv
  BY DEF RebalanceInit, RebalanceIInv, RebalanceTypeOK, FollowsChains, NoTransfer, Idle

\* What the invariant speaks of, for a step that leaves the table and the chains alone.
LEMMA ReportKeeps ==
  ASSUME RebalanceIInv, NEW t \in Transfers, task[t] # "off",
         NEW state \in TransferStates, NEW block \in Nat, NEW next \in {"off", "inbound"},
         Reports(t, state, block, next),
         state = "sent" \/ next = "inbound" => outbound[t] = "confirmed",
         state = "completed" => deliveries[t] = 1,
         UNCHANGED <<chainVars, txVars, rows, service>>
  PROVE  RebalanceIInv'
<1> DEFINE E == [state : TransferStates, block : Nat]
           e == [state |-> state, block |-> block]
<1>1. /\ events \in [Transfers -> Seq(E)]
      /\ task \in [Transfers -> {"off", "outbound", "outboundWait", "inbound", "inboundWait"}]
      /\ e \in E
  BY DEF RebalanceIInv, RebalanceTypeOK
<1>2. /\ events' = [events EXCEPT ![t] = Append(@, e)]
      /\ task' = [task EXCEPT ![t] = next]
  BY DEF Reports
<1>3. /\ Append(events[t], e) \in Seq(E)
      /\ \A i \in 1..Len(Append(events[t], e)) :
           Append(events[t], e)[i] = e \/ \E j \in 1..Len(events[t]) : Append(events[t], e)[i] = events[t][j]
  <2> HIDE DEF E, e
  <2> events[t] \in Seq(E)
    BY <1>1
  <2> QED
    BY <1>1, ChannelStates
<1>4. RebalanceTypeOK'
  <2>1. /\ events' \in [Transfers -> Seq(E)]
        /\ task' \in [Transfers -> {"off", "outbound", "outboundWait", "inbound", "inboundWait"}]
    BY <1>1, <1>2, <1>3
  <2>2. UNCHANGED <<balance, rows, outbound, inbound, landed, pulls, deliveries, service>>
    BY DEF chainVars, txVars
  <2> QED
    BY <2>1, <2>2, Zenon DEF RebalanceIInv, RebalanceTypeOK, RowShape
<1>5. ASSUME NEW u \in Transfers PROVE FollowsChains(u)'
  <2>1. FollowsChains(u) /\ FollowsChains(t)
    BY DEF RebalanceIInv
  <2>2. CASE u # t
    BY <1>1, <1>2, <2>1, <2>2 DEF FollowsChains, chainVars, txVars
  <2>3. CASE u = t
    <3>1. events'[t] = Append(events[t], e) /\ task'[t] = next
      BY <1>1, <1>2
    <3>2. \A i \in 1..Len(events'[t]) :
            events'[t][i] = e \/ \E j \in 1..Len(events[t]) : events'[t][i] = events[t][j]
      BY <1>3, <3>1
    <3> HIDE DEF e
    <3>3. e.state = state
      BY DEF e
    <3>4. ASSUME NEW x \in {"sent", "completed"}, NEW i \in 1..Len(events'[t]), events'[t][i].state = x
          PROVE  state = x \/ \E j \in 1..Len(events[t]) : events[t][j].state = x
      BY <3>2, <3>3, <3>4
    <3> QED
      BY <2>1, <2>3, <3>1, <3>4 DEF FollowsChains, chainVars, txVars
  <2> QED
    BY <2>2, <2>3
<1> QED
  BY <1>4, <1>5 DEF RebalanceIInv

\* Steps of a task that send something: the transaction service, the node and the exchange
\* take a transaction once, and the outbound half is over before the inbound one begins.
LEMMA SendStep ==
  ASSUME RebalanceIInv, NEW t \in Transfers,
         \/ BuildOutbound(t) \/ SendOutbound(t)
         \/ BuildInbound(t) \/ SendInbound(t) \/ WaitForDepositAndWithdraw(t)
  PROVE  RebalanceIInv'
<1>1. /\ outbound \in [Transfers -> {"none", "queued", "confirmed", "failed"}]
      /\ inbound \in [Transfers ->
           {"none", "pooled", "mined", "reverted", "credited", "withdrawn", "paid"}]
      /\ task \in [Transfers -> {"off", "outbound", "outboundWait", "inbound", "inboundWait"}]
      /\ RebalanceTypeOK /\ \A u \in Transfers : FollowsChains(u)
  BY DEF RebalanceIInv, RebalanceTypeOK
<1>2. UNCHANGED <<balance, rows, landed, pulls, deliveries, events, service>>
  BY DEF BuildOutbound, SendOutbound, BuildInbound, SendInbound, WaitForDepositAndWithdraw,
         chainVars, taskVars, dbVars
<1>3. \/ UNCHANGED <<task, inbound, outbound>>
      \/ /\ task[t] = "outbound" /\ task' = [task EXCEPT ![t] = "outboundWait"]
         /\ outbound' = [outbound EXCEPT ![t] = IF @ = "none" THEN "queued" ELSE @]
         /\ UNCHANGED inbound
      \/ /\ task[t] = "inbound" /\ task' = [task EXCEPT ![t] = "inboundWait"]
         /\ \/ inbound[t] = "none" /\ inbound' = [inbound EXCEPT ![t] = "pooled"]
            \/ inbound' = [inbound EXCEPT ![t] = IF @ = "credited" THEN "withdrawn" ELSE @]
         /\ UNCHANGED outbound
  BY DEF BuildOutbound, SendOutbound, BuildInbound, SendInbound, WaitForDepositAndWithdraw,
         NodeAccepts, txVars, taskVars
<1>4. RebalanceTypeOK'
  <2>1. /\ outbound' \in [Transfers -> {"none", "queued", "confirmed", "failed"}]
        /\ inbound' \in [Transfers ->
             {"none", "pooled", "mined", "reverted", "credited", "withdrawn", "paid"}]
        /\ task' \in [Transfers -> {"off", "outbound", "outboundWait", "inbound", "inboundWait"}]
    BY <1>1, <1>3
  <2> QED
    BY <1>1, <1>2, <2>1, Zenon DEF RebalanceTypeOK, RowShape
<1>5. ASSUME NEW u \in Transfers PROVE FollowsChains(u)'
  <2>1. FollowsChains(u)
    BY <1>1
  <2>2. /\ task'[u] \in {"inbound", "inboundWait"} => task[u] \in {"inbound", "inboundWait"}
        /\ task[u] = "off" => task'[u] = "off"
        /\ outbound'[u] # outbound[u] => outbound[u] = "none" /\ task[u] # "off"
        /\ inbound'[u] # "none" => (inbound[u] # "none" \/ task[u] = "inbound")
        /\ (inbound'[u] \in {"mined", "paid"}) = (inbound[u] \in {"mined", "paid"})
    <3>1. CASE u # t
      <4>1. task'[u] = task[u] /\ outbound'[u] = outbound[u] /\ inbound'[u] = inbound[u]
        BY <1>1, <1>3, <3>1
      <4> QED
        BY <4>1
    <3>2. CASE u = t
      <4>1. CASE UNCHANGED <<task, inbound, outbound>>
        BY <4>1
      <4>2. CASE /\ task[t] = "outbound" /\ task' = [task EXCEPT ![t] = "outboundWait"]
                 /\ outbound' = [outbound EXCEPT ![t] = IF @ = "none" THEN "queued" ELSE @]
                 /\ UNCHANGED inbound
        BY <1>1, <3>2, <4>2
      <4>3. CASE /\ task[t] = "inbound" /\ task' = [task EXCEPT ![t] = "inboundWait"]
                 /\ \/ inbound[t] = "none" /\ inbound' = [inbound EXCEPT ![t] = "pooled"]
                    \/ inbound' = [inbound EXCEPT ![t] = IF @ = "credited" THEN "withdrawn" ELSE @]
                 /\ UNCHANGED outbound
        BY <1>1, <3>2, <4>3
      <4> QED
        BY <1>3, <4>1, <4>2, <4>3
    <3> QED
      BY <3>1, <3>2
  <2> QED
    BY <1>2, <2>1, <2>2 DEF FollowsChains
<1> QED
  BY <1>4, <1>5 DEF RebalanceIInv

\* Steps of the chains and of the exchange.
LEMMA LandStep ==
  ASSUME RebalanceIInv, NEW t \in Transfers,
         OutboundLands(t) \/ OutboundDropped(t) \/ InboundLands(t) \/ Credit(t) \/ PayOut(t)
  PROVE  RebalanceIInv'
<1>1. /\ outbound \in [Transfers -> {"none", "queued", "confirmed", "failed"}]
      /\ inbound \in [Transfers ->
           {"none", "pooled", "mined", "reverted", "credited", "withdrawn", "paid"}]
      /\ landed \in [Transfers -> Nat] /\ pulls \in [Transfers -> Nat]
      /\ deliveries \in [Transfers -> Nat]
      /\ RebalanceTypeOK /\ \A u \in Transfers : FollowsChains(u)
  BY DEF RebalanceIInv, RebalanceTypeOK
<1>2. UNCHANGED <<rows, task, events, service>>
  BY DEF OutboundLands, OutboundDropped, InboundLands, Credit, PayOut, taskVars, dbVars
<1>3. DOMAIN balance' = Chains /\ \A c \in Chains : balance'[c].block \in Nat
  BY <1>1 DEF OutboundLands, OutboundDropped, InboundLands, Credit, PayOut, Changed, chainVars,
              RebalanceTypeOK
<1>4. OutboundLands(t) => landed' \in [Transfers -> Nat]
  <2> SUFFICES ASSUME OutboundLands(t) PROVE landed' \in [Transfers -> Nat]
    OBVIOUS
  <2>1. rows[t] # NoTransfer
    BY <1>1 DEF OutboundLands, FollowsChains
  <2>2. rows[t].from \in Chains
    BY <1>1, <2>1 DEF RebalanceTypeOK, RowShape
  <2> QED
    BY <1>1, <1>3, <2>2 DEF OutboundLands
<1>5. landed' \in [Transfers -> Nat]
  BY <1>1, <1>4 DEF OutboundDropped, InboundLands, Credit, PayOut, chainVars
<1>6. \/ /\ outbound[t] = "queued"
         /\ \/ /\ outbound' = [outbound EXCEPT ![t] = "confirmed"]
               /\ pulls' = [pulls EXCEPT ![t] = @ + 1] \/ pulls' = pulls
            \/ outbound' = [outbound EXCEPT ![t] = "failed"] /\ pulls' = pulls
         /\ UNCHANGED <<inbound, deliveries>>
      \/ /\ inbound[t] \in {"pooled", "withdrawn"}
         /\ \/ /\ \E x \in {"mined", "paid"} : inbound' = [inbound EXCEPT ![t] = x]
               /\ deliveries' = [deliveries EXCEPT ![t] = @ + 1]
            \/ inbound' = [inbound EXCEPT ![t] = "reverted"] /\ deliveries' = deliveries
         /\ UNCHANGED <<outbound, pulls>>
      \/ /\ inbound[t] = "none" /\ pulls[t] > 0
         /\ inbound' = [inbound EXCEPT ![t] = "credited"]
         /\ UNCHANGED <<outbound, pulls, deliveries>>
  BY DEF OutboundLands, OutboundDropped, InboundLands, Credit, PayOut, chainVars
<1>7. RebalanceTypeOK'
  <2>1. /\ outbound' \in [Transfers -> {"none", "queued", "confirmed", "failed"}]
        /\ inbound' \in [Transfers ->
             {"none", "pooled", "mined", "reverted", "credited", "withdrawn", "paid"}]
        /\ pulls' \in [Transfers -> Nat] /\ deliveries' \in [Transfers -> Nat]
    BY <1>1, <1>6
  <2> QED
    BY <1>1, <1>2, <1>3, <1>5, <2>1, Zenon DEF RebalanceTypeOK, RowShape
<1>8. ASSUME NEW u \in Transfers PROVE FollowsChains(u)'
  <2>1. FollowsChains(u) /\ FollowsChains(t)
    BY <1>1
  <2>2. CASE u # t
    <3>1. /\ outbound'[u] = outbound[u] /\ inbound'[u] = inbound[u]
          /\ pulls'[u] = pulls[u] /\ deliveries'[u] = deliveries[u]
      BY <1>1, <1>6, <2>2
    <3> QED
      BY <1>2, <2>1, <3>1 DEF FollowsChains
  <2>3. CASE u = t
    <3>1. CASE inbound[t] = "none" /\ outbound[t] = "queued" /\ UNCHANGED <<inbound, deliveries>>
      <4>1. pulls[t] = 0 /\ pulls'[t] \in {0, 1} /\ (pulls'[t] # 0 => outbound'[t] = "confirmed")
        BY <1>1, <1>6, <2>1, <3>1 DEF FollowsChains
      <4> QED
        BY <1>2, <2>1, <2>3, <3>1, <4>1 DEF FollowsChains
    <3>2. CASE inbound[t] \in {"pooled", "withdrawn"} /\ UNCHANGED <<outbound, pulls>>
      <4>1. /\ deliveries[t] = 0 /\ outbound[t] = "confirmed"
            /\ deliveries'[t] = IF inbound'[t] \in {"mined", "paid"} THEN 1 ELSE 0
        BY <1>1, <1>6, <2>1, <3>2 DEF FollowsChains
      <4> QED
        BY <1>2, <2>1, <2>3, <3>2, <4>1 DEF FollowsChains
    <3>3. CASE inbound[t] = "none" /\ pulls[t] > 0 /\ inbound'[t] = "credited"
               /\ UNCHANGED <<outbound, pulls, deliveries>>
      BY <1>1, <1>2, <2>1, <2>3, <3>3 DEF FollowsChains
    <3>4. outbound[t] = "queued" => inbound[t] = "none"
      BY <2>1 DEF FollowsChains
    <3> QED
      BY <1>1, <1>6, <3>1, <3>2, <3>3, <3>4
  <2> QED
    BY <2>2, <2>3
<1> QED
  BY <1>7, <1>8 DEF RebalanceIInv

\* The service hears of a transfer what its task sent, stores it or not, and forgets it.
LEMMA HandleStep ==
  ASSUME RebalanceIInv, NEW t \in Transfers, HandleEvent(t)
  PROVE  RebalanceIInv'
<1> DEFINE E == [state : TransferStates, block : Nat]
           e == Head(events[t])
<1>1. /\ events \in [Transfers -> Seq(E)] /\ events[t] \in Seq(E) /\ events[t] # << >>
      /\ RebalanceTypeOK /\ \A u \in Transfers : FollowsChains(u)
  BY DEF RebalanceIInv, RebalanceTypeOK, HandleEvent
<1>2. /\ rows' \in {rows, [rows EXCEPT ![t] = Stored(@, e)]}
      /\ events' = [events EXCEPT ![t] = Tail(@)]
      /\ UNCHANGED <<balance, outbound, inbound, landed, pulls, deliveries, task, service>>
  BY DEF HandleEvent, chainVars, txVars
<1>3. /\ Tail(events[t]) \in Seq(E) /\ e = events[t][1] /\ 1 \in 1..Len(events[t]) /\ e \in E
      /\ \A i \in 1..Len(Tail(events[t])) :
           i + 1 \in 1..Len(events[t]) /\ Tail(events[t])[i] = events[t][i + 1]
  <2> HIDE DEF E
  <2>1. e \in E
    BY <1>1
  <2> QED
    BY <1>1, <2>1, ChannelStates
<1> HIDE DEF e
<1>4. rows[t] # NoTransfer
  BY <1>1 DEF FollowsChains
<1>5. RowShape(rows[t]) /\ DOMAIN rows = Transfers
  BY <1>1, <1>4 DEF RebalanceTypeOK
<1>6. RowShape(Stored(rows[t], e)) /\ Stored(rows[t], e).state = e.state
  BY <1>3, <1>5 DEF RowShape, Stored
<1>7. RowShape(Stored(rows[t], e)) => Stored(rows[t], e) # NoTransfer
  BY DEF RowShape, NoTransfer
<1>8. /\ DOMAIN rows' = Transfers
      /\ \A u \in Transfers : u # t => rows'[u] = rows[u]
      /\ rows'[t] = rows[t] \/ rows'[t] = Stored(rows[t], e)
  <2> HIDE DEF E
  <2> QED
    BY <1>2, <1>5
<1>9. RebalanceTypeOK'
  <2>1. \A u \in Transfers : rows'[u] = NoTransfer \/ RowShape(rows'[u])
    BY <1>1, <1>6, <1>8 DEF RebalanceTypeOK
  <2>2. \A u \in Transfers : (rows[u] = NoTransfer \/ RowShape(rows[u]))' <=>
                             (rows'[u] = NoTransfer \/ RowShape(rows'[u]))
    BY DEF RowShape, NoTransfer
  <2>3. events' \in [Transfers -> Seq(E)]
    BY <1>1, <1>2, <1>3
  <2> QED
    BY <1>1, <1>2, <1>8, <2>1, <2>3, Zenon DEF RebalanceTypeOK, RowShape, NoTransfer
<1>10. ASSUME NEW u \in Transfers PROVE FollowsChains(u)'
  <2>1. FollowsChains(u) /\ FollowsChains(t)
    BY <1>1
  <2>2. CASE u # t
    <3>1. events'[u] = events[u] /\ rows'[u] = rows[u]
      BY <1>1, <1>2, <1>8, <2>2
    <3> QED
      BY <1>2, <2>1, <3>1 DEF FollowsChains, NoTransfer
  <2>3. CASE u = t
    <3>1. events'[t] = Tail(events[t])
      BY <1>1, <1>2
    <3>2. ASSUME NEW x \in {"sent", "completed"}, NEW i \in 1..Len(events'[t]), events'[t][i].state = x
          PROVE  \E j \in 1..Len(events[t]) : events[t][j].state = x
      BY <1>3, <3>1, <3>2
    <3>3. rows'[t] # NoTransfer
      BY <1>4, <1>6, <1>7, <1>8
    <3>4. ASSUME NEW x \in {"sent", "completed"}, rows'[t].state = x
          PROVE  rows[t].state = x \/ \E j \in 1..Len(events[t]) : events[t][j].state = x
      BY <1>3, <1>6, <1>8, <3>4
    <3> QED
      BY <1>2, <2>1, <2>3, <3>2, <3>3, <3>4 DEF FollowsChains, NoTransfer
  <2> QED
    BY <2>2, <2>3
<1> QED
  BY <1>9, <1>10 DEF RebalanceIInv

\* A transfer starts from nothing, and a restart resumes it where its row says.
LEMMA ServiceStep ==
  ASSUME RebalanceIInv,
         \/ BalanceRanges \/ FindNextRebalance \/ BridgeFails \/ IntoFuture
         \/ \E c \in Chains : Spend(c)
         \/ \E t \in Transfers : Bridge(t)
  PROVE  RebalanceIInv'
<1>1. RebalanceTypeOK /\ \A u \in Transfers : FollowsChains(u)
  BY DEF RebalanceIInv
<1>2. CASE BalanceRanges \/ FindNextRebalance \/ BridgeFails
  <2>1. UNCHANGED <<balance, rows, outbound, inbound, landed, pulls, deliveries, task, events>>
    BY <1>2 DEF BalanceRanges, FindNextRebalance, BridgeFails, chainVars, txVars, dbVars
  <2>2. service'.phase = "found" => service'.rebalance.from \in Chains /\ service'.rebalance.to \in Chains
    <3>1. BalanceRanges \/ BridgeFails \/ service' = Idle => service'.phase # "found"
      BY DEF BalanceRanges, BridgeFails, Idle
    <3>2. FindNextRebalance =>
            service' = Idle \/ \E r \in Rebalances : service' = [phase |-> "found", rebalance |-> r]
      BY DEF FindNextRebalance
    <3> QED
      BY <1>2, <3>1, <3>2, RebalanceChains
  <2>3. RebalanceTypeOK'
    BY <1>1, <2>1, <2>2, Zenon DEF RebalanceTypeOK, RowShape, NoTransfer
  <2> QED
    BY <1>1, <2>1, <2>3 DEF RebalanceIInv, FollowsChains, NoTransfer
<1>3. ASSUME NEW c \in Chains, Spend(c) PROVE RebalanceIInv'
  <2>1. UNCHANGED <<rows, outbound, inbound, landed, pulls, deliveries, task, events, service>>
    BY <1>3 DEF Spend, txVars, dbVars, taskVars
  <2>2. DOMAIN balance' = Chains /\ \A d \in Chains : balance'[d].block \in Nat
    <3>1. Changed(c, -Unit[c])
      BY <1>3, Zenon DEF Spend
    <3> QED
      BY <1>1, <3>1 DEF Changed, RebalanceTypeOK
  <2>3. RebalanceTypeOK'
    BY <1>1, <2>1, <2>2, Zenon DEF RebalanceTypeOK, RowShape, NoTransfer
  <2> QED
    BY <1>1, <2>1, <2>3 DEF RebalanceIInv, FollowsChains, NoTransfer
<1>4. ASSUME NEW t \in Transfers, Bridge(t) PROVE RebalanceIInv'
  <2> DEFINE New(b) == [state |-> "pending", lock |-> Held, from |-> service.rebalance.from,
                        to |-> service.rebalance.to, amount |-> service.rebalance.amount, bridge |-> b]
  <2>1. PICK b : rows' = [rows EXCEPT ![t] = New(b)]
    BY <1>4 DEF Bridge
  <2>2. /\ UNCHANGED <<balance, outbound, inbound, landed, pulls, deliveries, events>>
        /\ rows[t] = NoTransfer /\ service' = Idle
        /\ task' = [task EXCEPT ![t] = "outbound"]
        /\ service.rebalance.from \in Chains /\ service.rebalance.to \in Chains
    BY <1>1, <1>4 DEF Bridge, chainVars, txVars, RebalanceTypeOK
  <2>3. RowShape(New(b)) /\ New(b).state = "pending" /\ New(b) # NoTransfer
    BY <2>2 DEF RowShape, NoTransfer, TransferStates
  <2> HIDE DEF New
  <2>4. /\ DOMAIN rows' = Transfers /\ rows'[t] = New(b)
        /\ \A u \in Transfers : u # t => rows'[u] = rows[u]
    BY <1>1, <2>1 DEF RebalanceTypeOK
  <2>5. RebalanceTypeOK'
    <3>1. \A u \in Transfers : rows'[u] = NoTransfer \/ RowShape(rows'[u])
      BY <1>1, <2>3, <2>4 DEF RebalanceTypeOK
    <3>2. task' \in [Transfers -> {"off", "outbound", "outboundWait", "inbound", "inboundWait"}]
      BY <1>1, <2>2 DEF RebalanceTypeOK
    <3>3. service'.phase # "found"
      BY <2>2 DEF Idle
    <3> QED
      BY <1>1, <2>2, <2>4, <3>1, <3>2, <3>3, Zenon DEF RebalanceTypeOK, RowShape, NoTransfer
  <2>6. ASSUME NEW u \in Transfers PROVE FollowsChains(u)'
    <3>1. /\ FollowsChains(u)
          /\ task \in [Transfers -> {"off", "outbound", "outboundWait", "inbound", "inboundWait"}]
      BY <1>1 DEF RebalanceTypeOK
    <3>2. CASE u # t
      <4>1. rows'[u] = rows[u] /\ task'[u] = task[u]
        BY <2>2, <2>4, <3>1, <3>2
      <4> QED
        BY <2>2, <3>1, <4>1 DEF FollowsChains, NoTransfer
    <3>3. CASE u = t
      <4>1. rows'[u].state = "pending" /\ rows'[u] # NoTransfer /\ task'[u] = "outbound"
        BY <2>2, <2>3, <2>4, <3>1, <3>3
      <4> QED
        BY <2>2, <3>1, <4>1 DEF FollowsChains, NoTransfer
    <3> QED
      BY <3>2, <3>3
  <2> QED
    BY <2>5, <2>6 DEF RebalanceIInv
<1>5. CASE IntoFuture
  <2>1. /\ UNCHANGED <<balance, rows, outbound, inbound, landed, pulls, deliveries>>
        /\ task' = [t \in Transfers |-> Resumed(t)] /\ events' = [t \in Transfers |-> << >>]
        /\ service' = Idle
    BY <1>5 DEF IntoFuture, chainVars, txVars, dbVars
  <2>2. ASSUME NEW t \in Transfers
        PROVE  /\ Resumed(t) \in {"off", "outbound", "inbound"}
               /\ Resumed(t) = "inbound" => rows[t].state = "sent"
               /\ rows[t] = NoTransfer => Resumed(t) = "off"
    BY DEF Resumed, NoTransfer
  <2>3. RebalanceTypeOK'
    <3>1. /\ task' \in [Transfers -> {"off", "outbound", "outboundWait", "inbound", "inboundWait"}]
          /\ events' \in [Transfers -> Seq([state : TransferStates, block : Nat])]
          /\ service'.phase # "found"
      BY <2>1, <2>2 DEF Idle
    <3> QED
      BY <1>1, <2>1, <3>1, Zenon DEF RebalanceTypeOK, RowShape, NoTransfer
  <2>4. ASSUME NEW u \in Transfers PROVE FollowsChains(u)'
    <3>1. /\ FollowsChains(u) /\ task'[u] = Resumed(u) /\ events'[u] = << >>
          /\ Resumed(u) \in {"off", "outbound", "inbound"}
          /\ Resumed(u) = "inbound" => rows[u].state = "sent"
          /\ rows[u] = NoTransfer => Resumed(u) = "off"
      BY <1>1, <2>1, <2>2
    <3> HIDE DEF Resumed
    <3> QED
      BY <2>1, <3>1 DEF FollowsChains, NoTransfer
  <2> QED
    BY <2>3, <2>4 DEF RebalanceIInv
<1> QED
  BY <1>2, <1>3, <1>4, <1>5

LEMMA RebalanceStep == RebalanceIInv /\ [RebalanceNext]_rebalanceVars => RebalanceIInv'
<1> SUFFICES ASSUME RebalanceIInv, [RebalanceNext]_rebalanceVars PROVE RebalanceIInv'
  OBVIOUS
<1>1. CASE UNCHANGED rebalanceVars
  <2>1. UNCHANGED <<balance, rows, outbound, inbound, landed, pulls, deliveries, task, events, service>>
    BY <1>1 DEF rebalanceVars, chainVars, txVars, dbVars, taskVars
  <2>2. RebalanceTypeOK'
    BY <2>1, Zenon DEF RebalanceIInv, RebalanceTypeOK, RowShape, NoTransfer
  <2> QED
    BY <2>1, <2>2 DEF RebalanceIInv, FollowsChains, NoTransfer
<1>2. ASSUME NEW t \in Transfers,
             \/ OutboundError(t) \/ OutboundConfirmed(t) \/ OutboundFailed(t) \/ OutboundLost(t)
             \/ InboundConfirmed(t) \/ FindWithdrawal(t) \/ InboundFailed(t)
      PROVE  RebalanceIInv'
  <2>1. UNCHANGED <<chainVars, txVars, rows, service>> /\ task[t] # "off"
    BY <1>2 DEF OutboundError, OutboundConfirmed, OutboundFailed, OutboundLost, InboundConfirmed,
                FindWithdrawal, InboundFailed, dbVars
  <2>2. FollowsChains(t) /\ landed[t] \in Nat
    BY DEF RebalanceIInv, RebalanceTypeOK
  <2>3. \/ Reports(t, "outboundFailed", 0, "off") \/ Reports(t, "inboundFailed", 0, "off")
        \/ Reports(t, "sent", landed[t], "inbound") /\ outbound[t] = "confirmed"
        \/ Reports(t, "completed", 0, "off") /\ inbound[t] \in {"mined", "paid"}
    BY <1>2 DEF OutboundError, OutboundConfirmed, OutboundFailed, OutboundLost, InboundConfirmed,
                FindWithdrawal, InboundFailed
  <2>4. inbound[t] \in {"mined", "paid"} => deliveries[t] = 1
    BY <2>2 DEF FollowsChains
  <2>5. {"outboundFailed", "inboundFailed", "sent", "completed"} \subseteq TransferStates /\ 0 \in Nat
    BY DEF TransferStates
  <2> QED
    BY <2>1, <2>2, <2>3, <2>4, <2>5, ReportKeeps
<1> QED
  <2>1. ASSUME RebalanceNext PROVE RebalanceIInv'
    <3>1. CASE \/ BalanceRanges \/ FindNextRebalance \/ BridgeFails \/ IntoFuture
               \/ \E c \in Chains : Spend(c)
               \/ \E t \in Transfers : Bridge(t)
      BY <3>1, ServiceStep
    <3>2. ASSUME NEW t \in Transfers,
                 \/ AdvanceTransfer(t) \/ HandleEvent(t)
                 \/ OutboundLands(t) \/ OutboundDropped(t) \/ InboundLands(t)
                 \/ Credit(t) \/ PayOut(t)
          PROVE  RebalanceIInv'
      <4>1. CASE HandleEvent(t)
        BY <4>1, HandleStep
      <4>2. CASE OutboundLands(t) \/ OutboundDropped(t) \/ InboundLands(t) \/ Credit(t) \/ PayOut(t)
        BY <4>2, LandStep
      <4>3. CASE \/ BuildOutbound(t) \/ SendOutbound(t)
                 \/ BuildInbound(t) \/ SendInbound(t) \/ WaitForDepositAndWithdraw(t)
        BY <4>3, SendStep
      <4> QED
        BY <1>2, <3>2, <4>1, <4>2, <4>3 DEF AdvanceTransfer
    <3> QED
      BY <2>1, <3>1, <3>2 DEF RebalanceNext
  <2> QED
    BY <1>1, <2>1

\* For any chains, transfers and number of restarts, over both bridges: whatever events and
\* storage writes are lost, a transfer pulls its money at most once and delivers it at most
\* once, never before its outbound transaction is confirmed, and a transfer recorded as
\* completed has delivered.
THEOREM MoneyMovesOnce == RebalanceSpec => []MovedOnce
<1>1. RebalanceIInv => MovedOnce
  BY DEF RebalanceIInv, FollowsChains, MovedOnce
<1> QED
  BY <1>1, RebalanceStart, RebalanceStep, PTL DEF RebalanceSpec

(***************************************************************************)
(* Rebalancing: sums of the amounts of transfers, and of scaled amounts    *)
(***************************************************************************)

\* The amounts of transfers as a set of units.
Heap(ts) == UNION {{t} \X (1..rows[t].amount) : t \in ts}
Counted(ts) == ts \subseteq Transfers /\ \A t \in ts : rows[t].amount \in Nat

\* Sums of the amounts of transfers are numbers.
LEMMA TotalAmountType ==
  ASSUME NEW ts, Counted(ts)
  PROVE  IsFiniteSet(Heap(ts)) /\ TotalAmount(ts) = Cardinality(Heap(ts)) /\ TotalAmount(ts) \in Nat
<1> DEFINE P == {{t} \X (1..rows[t].amount) : t \in ts}
           f == [t \in ts |-> {t} \X (1..rows[t].amount)]
<1>1. IsFiniteSet(ts)
  BY FundsAssumption, FS_Subset DEF Counted
<1>2. f \in Surjection(ts, P)
  BY DEF Surjection
<1>3. IsFiniteSet(P)
  BY <1>1, <1>2, FS_Surjection, Zenon
<1>4. ASSUME NEW x \in P PROVE IsFiniteSet(x)
  <2>1. PICK t \in ts : x = {t} \X (1..rows[t].amount)
    OBVIOUS
  <2>2. rows[t].amount \in Nat
    BY DEF Counted
  <2>3. IsFiniteSet(1..rows[t].amount)
    BY <2>2, FS_Interval
  <2>4. IsFiniteSet({t})
    BY FS_Singleton, Zenon
  <2> QED
    BY <2>1, <2>3, <2>4, FS_Product, Zenon
<1>5. IsFiniteSet(Heap(ts))
  BY <1>3, <1>4, FS_UNION, Zenon DEF Heap
<1> QED
  BY <1>5, FS_CardinalityType, Zenon DEF TotalAmount, Heap

\* Sums of disjoint sets add up, and a part has no more than the whole.
LEMMA TotalAmountUnion ==
  ASSUME NEW S, NEW T, Counted(S), Counted(T), S \cap T = {}
  PROVE  Counted(S \cup T) /\ TotalAmount(S \cup T) = TotalAmount(S) + TotalAmount(T)
<1>1. Counted(S \cup T)
  BY DEF Counted
<1>2. Heap(S \cup T) = Heap(S) \cup Heap(T)
  BY DEF Heap
<1>3. Heap(S) \cap Heap(T) = {}
  <2>1. ASSUME NEW u \in Heap(S), u \in Heap(T) PROVE FALSE
    <3>1. PICK t \in S : u \in {t} \X (1..rows[t].amount)
      BY <2>1 DEF Heap
    <3>2. PICK v \in T : u \in {v} \X (1..rows[v].amount)
      BY <2>1 DEF Heap
    <3>3. u[1] = t /\ u[1] = v
      BY <3>1, <3>2
    <3> QED
      BY <3>3
  <2> QED
    BY <2>1
<1>4. /\ IsFiniteSet(Heap(S)) /\ TotalAmount(S) = Cardinality(Heap(S)) /\ TotalAmount(S) \in Nat
      /\ IsFiniteSet(Heap(T)) /\ TotalAmount(T) = Cardinality(Heap(T)) /\ TotalAmount(T) \in Nat
      /\ TotalAmount(S \cup T) = Cardinality(Heap(S \cup T))
  BY <1>1, TotalAmountType
<1>5. Cardinality(Heap(S) \cup Heap(T)) =
        Cardinality(Heap(S)) + Cardinality(Heap(T)) - Cardinality(Heap(S) \cap Heap(T))
  BY <1>4, FS_Union, Zenon
<1>6. Cardinality({}) = 0
  BY FS_EmptySet, Zenon
<1>7. TotalAmount(S \cup T) = TotalAmount(S) + TotalAmount(T) - 0
  BY <1>2, <1>3, <1>4, <1>5, <1>6, Zenon
<1> QED
  BY <1>1, <1>4, <1>7

LEMMA TotalAmountMono ==
  ASSUME NEW T, NEW S \in SUBSET T, Counted(T)
  PROVE  Counted(S) /\ TotalAmount(S) <= TotalAmount(T)
<1>1. Counted(S)
  BY DEF Counted
<1>2. Heap(S) \in SUBSET Heap(T)
  BY DEF Heap
<1>3. /\ IsFiniteSet(Heap(T)) /\ TotalAmount(T) = Cardinality(Heap(T))
      /\ TotalAmount(S) = Cardinality(Heap(S))
  BY <1>1, TotalAmountType, Zenon
<1>4. Cardinality(Heap(S)) <= Cardinality(Heap(T))
  BY <1>2, <1>3, FS_Subset, Zenon
<1> QED
  BY <1>1, <1>3, <1>4

\* The number of units of an amount.
LEMMA IntervalSize ==
  ASSUME NEW n \in Nat
  PROVE  IsFiniteSet(1..n) /\ Cardinality(1..n) = n
<1>1. \A k \in Nat : IsFiniteSet(1..k) /\ Cardinality(1..k) = IF 1 > k THEN 0 ELSE k - 1 + 1
  BY FS_Interval
<1>2. \A k \in Nat : (IF 1 > k THEN 0 ELSE k - 1 + 1) = k
  OBVIOUS
<1> QED
  BY <1>1, <1>2, Zenon

\* The sum of one transfer, and of none.
LEMMA TotalAmountOne ==
  ASSUME NEW t \in Transfers, rows[t].amount \in Nat
  PROVE  Counted({t}) /\ TotalAmount({t}) = rows[t].amount
<1> PICK n \in Nat : n = rows[t].amount
  OBVIOUS
<1>1. Counted({t})
  BY DEF Counted
<1>2. Heap({t}) = {t} \X (1..n)
  BY DEF Heap
<1>3. IsFiniteSet(1..n) /\ Cardinality(1..n) = n
  BY IntervalSize
<1>4. IsFiniteSet({t}) /\ Cardinality({t}) = 1
  BY FS_Singleton, Zenon
<1>5. Cardinality({t} \X (1..n)) = Cardinality({t}) * Cardinality(1..n)
  BY <1>3, <1>4, FS_Product, Zenon
<1>6. TotalAmount({t}) = 1 * n
  BY <1>1, <1>2, <1>3, <1>4, <1>5, TotalAmountType, Zenon
<1> QED
  BY <1>1, <1>6

LEMMA TotalAmountEmpty == Counted({}) /\ TotalAmount({}) = 0
<1>1. Heap({}) = {} /\ Counted({})
  BY DEF Heap, Counted
<1> QED
  BY <1>1, FS_EmptySet, TotalAmountType, Zenon

\* Steps do not change the amount of a transfer.
LEMMA TotalAmountSame ==
  ASSUME NEW S, \A t \in S : rows'[t].amount = rows[t].amount
  PROVE  TotalAmount(S)' = TotalAmount(S)
<1>1. {{t} \X (1..rows'[t].amount) : t \in S} = {{t} \X (1..rows[t].amount) : t \in S}
  OBVIOUS
<1> QED
  BY <1>1, Zenon DEF TotalAmount

\* A transfer joins a set of transfers.
LEMMA TotalAmountJoin ==
  ASSUME NEW S, NEW t, Counted(S), t \notin S, t \in Transfers, rows[t].amount \in Nat
  PROVE  TotalAmount(S \cup {t}) = TotalAmount(S) + rows[t].amount
<1>1. S \cap {t} = {} /\ Counted({t}) /\ TotalAmount({t}) = rows[t].amount
  BY TotalAmountOne
<1> QED
  BY <1>1, TotalAmountUnion, Zenon

\* The same for a transfer that a step makes known.
LEMMA TotalAmountJoins ==
  ASSUME NEW S, NEW t, Counted(S), t \notin S, t \in Transfers, rows'[t].amount \in Nat,
         \A u \in S : rows'[u].amount = rows[u].amount
  PROVE  TotalAmount(S \cup {t})' = TotalAmount(S) + rows'[t].amount
<1>1. Counted(S)' /\ (rows[t].amount \in Nat)'
  BY DEF Counted
<1>2. (TotalAmount(S \cup {t}) = TotalAmount(S) + rows[t].amount)'
  BY <1>1, TotalAmountJoin, PTL
<1>3. TotalAmount(S)' = TotalAmount(S)
  BY TotalAmountSame
<1> QED
  BY <1>2, <1>3

\* What stays of the two sums when the table and the sets stay.
LEMMA SumsStay ==
  ASSUME NEW c, rows' = rows, MayLeave(c)' = MayLeave(c), \A b : LeftSince(c, b)' = LeftSince(c, b)
  PROVE  /\ TotalAmount(MayLeave(c))' = TotalAmount(MayLeave(c))
         /\ \A b : TotalAmount(LeftSince(c, b))' = TotalAmount(LeftSince(c, b))
  BY DEF TotalAmount

\* Amounts are scaled up before they are compared, and back for the transfer.
LEMMA ScaledBack ==
  ASSUME NEW c \in Chains, NEW x \in Int, NEW m \in Int, m <= x * (SCALE_FACTOR \div Unit[c])
  PROVE  /\ (m * Unit[c]) \div SCALE_FACTOR \in Int
         /\ (m * Unit[c]) \div SCALE_FACTOR <= x
         /\ m >= 0 => (m * Unit[c]) \div SCALE_FACTOR >= 0
<1> PICK s, u, k \in Int : s = SCALE_FACTOR /\ u = Unit[c] /\ k = s \div u /\ s > 0 /\ u > 0
  BY UnitAssumption
<1>1. s = u * k
  BY UnitAssumption, Z3
<1>2. m * u <= x * s
  <2>1. (x * k - m) \in Nat
    BY Z3
  <2>2. (x * k - m) * u >= 0
    BY <2>1, Z3
  <2> QED
    BY <1>1, <2>2, Z3
<1> PICK y \in Int : y = m * u
  OBVIOUS
<1>3. y \div s \in Int /\ s * (y \div s) <= y /\ y < s * (y \div s) + s
  BY Z3
<1>4. y \div s <= x
  BY <1>2, <1>3, Z3
<1>5. m >= 0 => y \div s >= 0
  BY <1>3, Z3
<1> QED
  BY <1>3, <1>4, <1>5

\* The scale keeps the sign.
LEMMA ScaledSign ==
  ASSUME NEW c \in Chains, NEW x \in Int, x * (SCALE_FACTOR \div Unit[c]) > 0
  PROVE  x > 0
<1> PICK s, u, k \in Int : s = SCALE_FACTOR /\ u = Unit[c] /\ k = s \div u /\ s > 0 /\ u > 0
  BY UnitAssumption
<1>1. k >= 0
  BY Z3
<1> QED
  BY <1>1, Z3

\* What is delivered is an amount.
LEMMA Delivered ==
  ASSUME NEW a \in Nat, NEW src \in Chains, NEW dst \in Chains
  PROVE  AdjustBalanceForDecimals(a, src, dst) \in Nat
<1> PICK u, v \in Nat : u = Unit[src] /\ v = Unit[dst] /\ u > 0 /\ v > 0
  BY UnitAssumption
<1>1. v >= u => v \div u \in Nat
  BY Z3
<1>2. u > v => u \div v \in Nat /\ u \div v > 0
  BY Z3
<1>3. ASSUME NEW n \in Nat, n > 0 PROVE a \div n \in Nat
  BY <1>3, Z3
<1>4. ASSUME NEW n \in Nat PROVE a * n \in Nat
  OBVIOUS
<1> QED
  BY <1>1, <1>2, <1>3, <1>4 DEF AdjustBalanceForDecimals

\* What the exchange pays out is an amount.
LEMMA RoundedDown ==
  ASSUME NEW a \in Nat, NEW n \in Nat, n > 0
  PROVE  a - (a % n) \in Nat
<1>1. a % n \in Nat /\ a = n * (a \div n) + (a % n) /\ a \div n \in Nat
  BY Z3
<1>2. n * (a \div n) \in Nat
  BY <1>1, Z3
<1> QED
  BY <1>1, <1>2

(***************************************************************************)
(* Rebalancing: what the sources keep                                      *)
(***************************************************************************)

\* The sums that the invariant compares are numbers.
LEMMA SourceSums ==
  ASSUME AmountsTypeOK, NEW c
  PROVE  /\ Counted(MayLeave(c)) /\ TotalAmount(MayLeave(c)) \in Nat
         /\ \A b : Counted(LeftSince(c, b)) /\ TotalAmount(LeftSince(c, b)) \in Nat
<1>1. Counted(MayLeave(c)) /\ \A b : Counted(LeftSince(c, b))
  BY DEF AmountsTypeOK, Counted, MayLeave, LeftSince, Known
<1> QED
  BY <1>1, TotalAmountType

LEMMA LeftSinceNat ==
  ASSUME AmountsTypeOK, NEW c, NEW b
  PROVE  TotalAmount(LeftSince(c, b)) \in Nat
  BY SourceSums

\* A chain does not get poorer: what leaves it was counted, and is counted.
NoPoorer(c) ==
  /\ balance'[c].block >= balance[c].block
  /\ \A b \in 0..balance[c].block :
       balance'[c].amount + spent'[c] + TotalAmount(LeftSince(c, b))'
         >= balance[c].amount + spent[c] + TotalAmount(LeftSince(c, b))
  /\ \/ \E t \in misjudged' : rows'[t].from = c
     \/ balance'[c].amount + spent'[c] + TotalAmount(MayLeave(c))
          >= balance[c].amount + spent[c] + TotalAmount(MayLeave(c))'

\* A chain from which nothing left, and as much may leave.
LEMMA SameWealth ==
  ASSUME AmountsTypeOK, NEW c \in Chains, balance'[c] = balance[c], spent'[c] = spent[c],
         \A b : TotalAmount(LeftSince(c, b))' = TotalAmount(LeftSince(c, b)),
         \/ \E t \in misjudged' : rows'[t].from = c
         \/ TotalAmount(MayLeave(c))' = TotalAmount(MayLeave(c))
  PROVE  NoPoorer(c)
<1>1. /\ balance[c].amount \in Nat /\ balance[c].block \in Nat /\ spent[c] \in Nat
      /\ TotalAmount(MayLeave(c)) \in Nat /\ \A b : TotalAmount(LeftSince(c, b)) \in Nat
  BY SourceSums DEF AmountsTypeOK, Seen
<1>2. /\ balance'[c].block >= balance[c].block
      /\ \A b \in 0..balance[c].block :
           balance'[c].amount + spent'[c] + TotalAmount(LeftSince(c, b))'
             >= balance[c].amount + spent[c] + TotalAmount(LeftSince(c, b))
  BY <1>1
<1>3. TotalAmount(MayLeave(c))' = TotalAmount(MayLeave(c)) =>
        balance'[c].amount + spent'[c] + TotalAmount(MayLeave(c))
          >= balance[c].amount + spent[c] + TotalAmount(MayLeave(c))'
  BY <1>1
<1> QED
  BY <1>2, <1>3, Zenon DEF NoPoorer

\* A balance that is read now is explained.
LEMMA ExplainsNow ==
  ASSUME AmountsTypeOK, NEW c \in Chains
  PROVE  Explains(c, balance[c])
<1>1. balance[c] \in Seen /\ spent[c] \in Nat /\ TotalAmount(LeftSince(c, balance[c].block)) \in Nat
  BY SourceSums DEF AmountsTypeOK
<1> QED
  BY <1>1 DEF Explains, Seen

\* What was read before stays explained.
LEMMA ReadsStayExplained ==
  ASSUME AmountsTypeOK, AmountsTypeOK', NEW c \in Chains, ReadsExplained(c), NoPoorer(c),
         Reads(c)' \subseteq Reads(c) \cup {balance[c]}
  PROVE  ReadsExplained(c)'
<1> SUFFICES ASSUME NEW s \in Reads(c)' PROVE Explains(c, s)'
  BY DEF ReadsExplained
<1>1. Explains(c, s)
  BY ExplainsNow DEF ReadsExplained
<1>2. s \in Seen
  BY DEF AmountsTypeOK, Reads
<1>3. PICK b \in Nat : b = s.block
  BY <1>2 DEF Seen
<1>4. /\ balance[c].amount \in Nat /\ balance[c].block \in Nat /\ spent[c] \in Nat
      /\ balance'[c].amount \in Nat /\ balance'[c].block \in Nat /\ spent'[c] \in Nat /\ s.amount \in Nat
  BY <1>2 DEF AmountsTypeOK, Seen
<1>5. TotalAmount(LeftSince(c, b)) \in Nat
  BY SourceSums
<1>6. TotalAmount(LeftSince(c, b))' \in Nat
  <2>1. (TotalAmount(LeftSince(c, b)) \in Nat)'
    BY LeftSinceNat, PTL
  <2> QED
    BY <2>1
<1>7. /\ b <= balance[c].block
      /\ balance[c].amount + spent[c] + TotalAmount(LeftSince(c, b)) >= s.amount
  BY <1>1, <1>3 DEF Explains
<1>8. /\ balance'[c].amount + spent'[c] + TotalAmount(LeftSince(c, b))'
           >= balance[c].amount + spent[c] + TotalAmount(LeftSince(c, b))
      /\ balance'[c].block >= balance[c].block
  BY <1>4, <1>7 DEF NoPoorer
<1>9. /\ b <= balance'[c].block
      /\ balance'[c].amount + spent'[c] + TotalAmount(LeftSince(c, b))' >= s.amount
  BY <1>4, <1>5, <1>6, <1>7, <1>8
<1> QED
  BY <1>3, <1>9, Zenon DEF Explains

LEMMA ThresholdType ==
  ASSUME NEW c \in Chains
  PROVE  Threshold(c) \in Nat
  BY FundsAssumption, UnitAssumption DEF Threshold

\* A chain that does not get poorer stays covered.
LEMMA StaysCovered ==
  ASSUME AmountsTypeOK, AmountsTypeOK', NEW c \in Chains, SourceCovered(c), NoPoorer(c),
         misjudged \subseteq misjudged', \A t \in misjudged : rows'[t].from = rows[t].from,
         service'.phase = "found" => service' = service
  PROVE  SourceCovered(c)'
<1>1. CASE \E t \in misjudged : rows[t].from = c
  BY <1>1 DEF SourceCovered
<1>2. CASE \E t \in misjudged' : rows'[t].from = c
  BY <1>2 DEF SourceCovered
<1>3. CASE ~(\E t \in misjudged : rows[t].from = c) /\ ~(\E t \in misjudged' : rows'[t].from = c)
  <2>1. PICK w, v, m, n, h \in Nat :
          /\ w = balance[c].amount + spent[c] /\ v = balance'[c].amount + spent'[c]
          /\ m = TotalAmount(MayLeave(c)) /\ n = TotalAmount(MayLeave(c))' /\ h = Threshold(c)
    <3>1. TotalAmount(MayLeave(c)) \in Nat
      BY SourceSums
    <3>2. (TotalAmount(MayLeave(c)) \in Nat)'
      BY SourceSums, PTL
    <3>3. /\ balance[c].amount \in Nat /\ spent[c] \in Nat
          /\ balance'[c].amount \in Nat /\ spent'[c] \in Nat
      BY DEF AmountsTypeOK, Seen
    <3>4. balance[c].amount + spent[c] \in Nat /\ balance'[c].amount + spent'[c] \in Nat
      BY <3>3
    <3> QED
      BY <3>1, <3>2, <3>4, ThresholdType
  <2>2. v + m >= w + n
    BY <1>3, <2>1 DEF NoPoorer
  <2>3. Funds[c] >= Threshold(c) => w >= h + m
    BY <1>3, <2>1 DEF SourceCovered
  <2>4. ASSUME service'.phase = "found", service'.rebalance.from = c
        PROVE  v >= h + n + service'.rebalance.amount
    <3>1. service' = service /\ service.rebalance.amount \in Nat
      BY <2>4 DEF AmountsTypeOK
    <3>2. w >= h + m + service.rebalance.amount
      BY <1>3, <2>1, <2>4, <3>1 DEF SourceCovered
    <3> QED
      BY <2>2, <3>1, <3>2
  <2>5. Funds[c] >= Threshold(c) => v >= h + n
    BY <2>2, <2>3
  <2>6. Threshold(c)' = Threshold(c)
    BY DEF Threshold
  <2> QED
    BY <2>1, <2>4, <2>5, <2>6, Zenon DEF SourceCovered
<1> QED
  BY <1>1, <1>2, <1>3

\* The parts of the invariant of the sources that are left to show for a step.
LEMMA SourcesKept ==
  ASSUME SourcesIInv, AmountsTypeOK', \A t \in Transfers \ misjudged' : LocksTell(t)',
         \A c \in Chains : NoPoorer(c) /\ Reads(c)' \subseteq Reads(c) \cup {balance[c]},
         misjudged \subseteq misjudged', \A t \in misjudged : rows'[t].from = rows[t].from,
         service'.phase = "found" => service' = service
  PROVE  SourcesIInv'
<1>1. ASSUME NEW c \in Chains PROVE ReadsExplained(c)' /\ SourceCovered(c)'
  BY ReadsStayExplained, StaysCovered DEF SourcesIInv
<1> QED
  BY <1>1 DEF SourcesIInv

\* Steps that leave the table and the chains alone.
LEMMA QuietSources ==
  ASSUME RebalanceIInv, SourcesIInv, UNCHANGED <<balance, before, spent, landed, pulls, outbound, rows>>,
         misjudged \subseteq misjudged', misjudged' \subseteq Known, progress' \subseteq Known,
         \A t \in Transfers \ misjudged' : LocksTell(t)',
         \/ service' = service \/ service' = Idle
         \/ BalanceRanges
  PROVE  SourcesIInv'
<1>0. AmountsTypeOK
  BY DEF SourcesIInv
<1>1. Known' = Known
  BY DEF Known, NoTransfer
<1>2. \A c \in Chains : Read(c) = {balance[c], before[c]} /\ balance[c] \in Seen /\ before[c] \in Seen
  BY <1>0 DEF Read, AmountsTypeOK
<1>3. \/ service' = service \/ service' = Idle
      \/ \E seen \in [Chains -> Seen] :
           service' = [phase |-> "ranges", seen |-> seen] /\ \A c \in Chains : seen[c] \in Read(c)
  <2>1. CASE BalanceRanges
    <3>1. PICK seen \in [Chains -> UNION {Read(c) : c \in Chains}] :
            service' = [phase |-> "ranges", seen |-> seen] /\ \A c \in Chains : seen[c] \in Read(c)
      BY <2>1 DEF BalanceRanges
    <3>2. seen \in [Chains -> Seen]
      BY <1>2, <3>1
    <3> QED
      BY <3>1, <3>2
  <2> QED
    BY <2>1
<1>4. /\ service'.phase = "found" => service' = service
      /\ service'.phase = "ranges" => service'.seen \in [Chains -> Seen]
      /\ \A c \in Chains : service'.phase = "ranges" =>
           service'.seen[c] \in {balance[c], before[c]} \/ (service.phase = "ranges" /\ service'.seen = service.seen)
  BY <1>0, <1>2, <1>3 DEF Idle, AmountsTypeOK
<1>5. AmountsTypeOK'
  <2>1. service'.phase = "found" => service'.rebalance.amount \in Nat
    BY <1>0, <1>4 DEF AmountsTypeOK
  <2>2. \A t \in Known' : /\ rows'[t].amount \in Nat /\ rows'[t].lock \in Nat \cup {Held}
                          /\ rows'[t].bridge = "binance" => Networks[rows'[t].to].step > 0
    BY <1>0, <1>1 DEF AmountsTypeOK
  <2> QED
    BY <1>0, <1>1, <1>4, <2>1, <2>2 DEF AmountsTypeOK, Held, Seen
<1>6. ASSUME NEW c \in Chains
      PROVE  NoPoorer(c) /\ Reads(c)' \subseteq Reads(c) \cup {balance[c]}
  <2>1. MayLeave(c)' = MayLeave(c) /\ \A b : LeftSince(c, b)' = LeftSince(c, b)
    BY <1>1 DEF MayLeave, LeftSince, Held
  <2>2. /\ TotalAmount(MayLeave(c))' = TotalAmount(MayLeave(c))
        /\ \A b : TotalAmount(LeftSince(c, b))' = TotalAmount(LeftSince(c, b))
    BY <2>1 DEF TotalAmount
  <2>3. /\ balance[c].amount \in Nat /\ balance[c].block \in Nat /\ spent[c] \in Nat
        /\ TotalAmount(MayLeave(c)) \in Nat /\ \A b : TotalAmount(LeftSince(c, b)) \in Nat
    BY <1>0, SourceSums DEF AmountsTypeOK, Seen
  <2>4. NoPoorer(c)
    BY <2>2, <2>3 DEF NoPoorer
  <2>5. Reads(c)' \subseteq Reads(c) \cup {balance[c]}
    BY <1>4 DEF Reads
  <2> QED
    BY <2>4, <2>5
<1>7. \A t \in misjudged : rows'[t].from = rows[t].from
  OBVIOUS
<1> QED
  BY <1>4, <1>5, <1>6, <1>7, SourcesKept

\* A task that is on has not given its outbound half up.
LEMMA TaskTells ==
  ASSUME RebalanceIInv, UNCHANGED <<rows, landed, events>>, NEW u \in Transfers, LocksTell(u),
         task'[u] = task[u] \/ task[u] # "off",
         outbound'[u] = outbound[u] \/ (task[u] # "off" /\ outbound[u] = "none" /\ outbound'[u] = "queued")
  PROVE  LocksTell(u)'
  BY DEF LocksTell, NoTransfer, Held

\* A report tells of the outbound half what became of it.
LEMMA ReportTells ==
  ASSUME RebalanceIInv, UNCHANGED <<rows, landed, outbound>>, NEW t \in Transfers, task[t] # "off",
         NEW state \in TransferStates, NEW block \in Nat, NEW next \in {"off", "inbound"},
         Reports(t, state, block, next), state # "pending", state = "sent" => block = landed[t],
         state = "outboundFailed" => next = "off" /\ outbound[t] \in {"failed", "none"},
         NEW u \in Transfers, LocksTell(u)
  PROVE  LocksTell(u)'
<1> DEFINE E == [state : TransferStates, block : Nat]
           e == [state |-> state, block |-> block]
<1>1. /\ events \in [Transfers -> Seq(E)] /\ e \in E
      /\ task \in [Transfers -> {"off", "outbound", "outboundWait", "inbound", "inboundWait"}]
  BY DEF RebalanceIInv, RebalanceTypeOK
<1>2. /\ events' = [events EXCEPT ![t] = Append(@, e)]
      /\ task' = [task EXCEPT ![t] = next]
  BY DEF Reports
<1>3. CASE u # t
  <2>1. events'[u] = events[u] /\ task'[u] = task[u]
    BY <1>1, <1>2, <1>3
  <2> QED
    BY <2>1 DEF LocksTell, NoTransfer, Held
<1>4. CASE u = t
  <2>1. /\ events'[u] = Append(events[u], e) /\ task'[u] = next
        /\ \A i \in 1..Len(events'[u]) :
             events'[u][i] = e \/ \E j \in 1..Len(events[u]) : events'[u][i] = events[u][j]
    <3>1. events[t] \in Seq(E) /\ events'[t] = Append(events[t], e) /\ task'[t] = next
      BY <1>1, <1>2
    <3> HIDE DEF E, e
    <3>2. \A i \in 1..Len(Append(events[t], e)) :
            Append(events[t], e)[i] = e \/ \E j \in 1..Len(events[t]) : Append(events[t], e)[i] = events[t][j]
      BY <1>1, <3>1, ChannelStates
    <3> QED
      BY <1>4, <3>1, <3>2
  <2>2. e.state = state /\ e.block = block
    OBVIOUS
  <2> HIDE DEF e, E
  <2>3. ASSUME NEW i \in 1..Len(events'[u])
        PROVE  /\ events'[u][i].state # "pending"
               /\ events'[u][i].state = "sent" => events'[u][i].block = landed[u]
               /\ events'[u][i].state = "outboundFailed" =>
                    outbound[u] = "failed" \/ (outbound[u] = "none" /\ task'[u] = "off")
    <3>1. CASE events'[u][i] = e
      BY <1>4, <2>1, <2>2, <3>1
    <3>2. ASSUME NEW j \in 1..Len(events[u]), events'[u][i] = events[u][j]
          PROVE  /\ events'[u][i].state # "pending"
                 /\ events'[u][i].state = "sent" => events'[u][i].block = landed[u]
                 /\ events'[u][i].state = "outboundFailed" => outbound[u] = "failed"
      BY <1>4, <3>2 DEF LocksTell
    <3> QED
      BY <2>1, <3>1, <3>2
  <2>4. rows[u] # NoTransfer /\ rows[u].lock # Held =>
          outbound[u] = "failed" \/ (outbound[u] = "confirmed" /\ rows[u].lock = landed[u])
    BY <1>4 DEF LocksTell
  <2> QED
    BY <2>3, <2>4 DEF LocksTell, NoTransfer, Held
<1> QED
  BY <1>3, <1>4

\* Steps of a task that report to the service.
LEMMA ReportSources ==
  ASSUME RebalanceIInv, SourcesIInv, NEW t \in Transfers,
         \/ OutboundError(t) \/ OutboundConfirmed(t) \/ OutboundFailed(t) \/ OutboundLost(t)
         \/ InboundConfirmed(t) \/ FindWithdrawal(t) \/ InboundFailed(t)
  PROVE  SourcesIInv'
<1>1. /\ UNCHANGED <<balance, before, spent, landed, pulls, outbound, rows, service, progress>>
      /\ task[t] # "off"
  BY DEF OutboundError, OutboundConfirmed, OutboundFailed, OutboundLost, InboundConfirmed,
         FindWithdrawal, InboundFailed, dbVars, chainVars, txVars
<1>2. landed[t] \in Nat /\ misjudged \subseteq Known /\ progress \subseteq Known
  BY DEF RebalanceIInv, RebalanceTypeOK, SourcesIInv, AmountsTypeOK
<1>3. {"outboundFailed", "inboundFailed", "sent", "completed"} \subseteq TransferStates /\ 0 \in Nat
  BY DEF TransferStates
<1>4. CASE OutboundLost(t)
  <2>1. Reports(t, "outboundFailed", 0, "off") /\ misjudged' = misjudged \cup {t} /\ t \in Known
    <3>1. rows[t] # NoTransfer
      BY <1>4 DEF OutboundLost, RebalanceIInv, FollowsChains
    <3> QED
      BY <1>4, <3>1 DEF OutboundLost, Known
  <2>2. ASSUME NEW u \in Transfers \ misjudged' PROVE LocksTell(u)'
    <3>1. u # t /\ LocksTell(u)
      BY <2>1, <2>2 DEF SourcesIInv
    <3>2. events'[u] = events[u] /\ task'[u] = task[u]
      BY <2>1, <3>1 DEF Reports, RebalanceIInv, RebalanceTypeOK
    <3> QED
      BY <1>1, <3>1, <3>2 DEF LocksTell, NoTransfer, Held
  <2> QED
    BY <1>1, <1>2, <2>1, <2>2, QuietSources
<1>5. CASE ~OutboundLost(t)
  <2>1. /\ misjudged' = misjudged
        /\ \/ Reports(t, "outboundFailed", 0, "off") /\ outbound[t] \in {"failed", "none"}
           \/ Reports(t, "inboundFailed", 0, "off")
           \/ Reports(t, "sent", landed[t], "inbound")
           \/ Reports(t, "completed", 0, "off")
    BY <1>5 DEF OutboundError, OutboundConfirmed, OutboundFailed, InboundConfirmed, FindWithdrawal, InboundFailed
  <2>2. ASSUME NEW u \in Transfers \ misjudged' PROVE LocksTell(u)'
    <3>1. LocksTell(u)
      BY <2>1 DEF SourcesIInv
    <3> QED
      BY <1>1, <1>2, <1>3, <2>1, <3>1, ReportTells
  <2> QED
    BY <1>1, <1>2, <2>1, <2>2, QuietSources
<1> QED
  BY <1>4, <1>5

\* Steps that change neither the chains nor the table, but for the outbound transaction.
LEMMA QuietTaskSources ==
  ASSUME RebalanceIInv, SourcesIInv, NEW t \in Transfers,
         BuildOutbound(t) \/ BuildInbound(t) \/ SendInbound(t) \/ WaitForDepositAndWithdraw(t) \/ Credit(t)
  PROVE  SourcesIInv'
<1>1. /\ UNCHANGED <<balance, before, spent, landed, pulls, outbound, rows, service, progress, misjudged, events>>
      /\ task' = task \/ (task[t] = "inbound" /\ task' = [task EXCEPT ![t] = "inboundWait"])
  BY DEF BuildOutbound, BuildInbound, SendInbound, WaitForDepositAndWithdraw, Credit, dbVars, chainVars,
         txVars, taskVars
<1>2. misjudged \subseteq Known /\ progress \subseteq Known /\ \A u \in Transfers \ misjudged : LocksTell(u)
  BY DEF SourcesIInv, AmountsTypeOK
<1>3. \A u \in Transfers : task'[u] = task[u] \/ task[u] # "off"
  BY <1>1 DEF RebalanceIInv, RebalanceTypeOK
<1>4. ASSUME NEW u \in Transfers \ misjudged' PROVE LocksTell(u)'
  BY <1>1, <1>2, <1>3, TaskTells
<1> QED
  BY <1>1, <1>2, <1>4, QuietSources

\* The service's loop and its restart.
LEMMA LoopSources ==
  ASSUME RebalanceIInv, SourcesIInv, BalanceRanges \/ BridgeFails \/ IntoFuture
  PROVE  SourcesIInv'
<1>1. /\ UNCHANGED <<balance, before, spent, landed, pulls, outbound, rows, misjudged>>
      /\ service' = Idle \/ BalanceRanges
  BY DEF BalanceRanges, BridgeFails, IntoFuture, dbVars, chainVars, txVars
<1>2. misjudged \subseteq Known /\ progress \subseteq Known /\ \A u \in Transfers \ misjudged : LocksTell(u)
  BY DEF SourcesIInv, AmountsTypeOK
<1>3. ASSUME NEW u \in Transfers
      PROVE  /\ Resumed(u) # "off" => rows[u].state \in {"pending", "sent"}
             /\ rows[u] = NoTransfer => Resumed(u) = "off"
  BY DEF Resumed, NoTransfer
<1>4. progress' \subseteq Known
  BY <1>2, <1>3 DEF BalanceRanges, BridgeFails, IntoFuture, Known
<1>5. ASSUME NEW u \in Transfers \ misjudged' PROVE LocksTell(u)'
  <2>1. LocksTell(u)
    BY <1>1, <1>2
  <2>2. CASE IntoFuture
    <3>1. events'[u] = << >> /\ task'[u] = Resumed(u)
      BY <2>2 DEF IntoFuture
    <3>2. rows[u] # NoTransfer /\ rows[u].lock # Held =>
            \/ outbound[u] = "failed"
            \/ outbound[u] = "confirmed" /\ rows[u].lock = landed[u]
            \/ outbound[u] = "none" /\ task'[u] = "off" /\ rows[u].state \notin {"pending", "sent"}
      BY <1>3, <2>1, <3>1 DEF LocksTell
    <3> QED
      BY <1>1, <3>1, <3>2 DEF LocksTell, NoTransfer, Held
  <2>3. CASE ~IntoFuture
    <3>1. UNCHANGED <<task, events>>
      BY <2>3 DEF BalanceRanges, BridgeFails
    <3> QED
      BY <1>1, <2>1, <3>1, TaskTells
  <2> QED
    BY <2>2, <2>3
<1> QED
  BY <1>1, <1>2, <1>4, <1>5, QuietSources

\* The outbound transaction is sent while its lock is held.
LEMMA SendOutboundSources ==
  ASSUME RebalanceIInv, SourcesIInv, NEW t \in Transfers, SendOutbound(t)
  PROVE  SourcesIInv'
<1>1. /\ UNCHANGED <<balance, before, spent, landed, pulls, rows, service, progress, misjudged, events>>
      /\ task[t] = "outbound" /\ task' = [task EXCEPT ![t] = "outboundWait"]
      /\ outbound' = [outbound EXCEPT ![t] = IF @ = "none" THEN "queued" ELSE @]
  BY DEF SendOutbound, dbVars, chainVars
<1>2. AmountsTypeOK /\ \A u \in Transfers \ misjudged : LocksTell(u)
  BY DEF SourcesIInv
<1>3. \A u \in Transfers :
        /\ task'[u] = task[u] \/ task[u] # "off"
        /\ outbound'[u] = outbound[u] \/ (u = t /\ task[u] # "off" /\ outbound[u] = "none" /\ outbound'[u] = "queued")
  BY <1>1 DEF RebalanceIInv, RebalanceTypeOK
<1>4. ASSUME NEW u \in Transfers \ misjudged' PROVE LocksTell(u)'
  BY <1>1, <1>2, <1>3, TaskTells
<1>5. Known' = Known
  BY <1>1 DEF Known, NoTransfer
<1>6. AmountsTypeOK'
  BY <1>1, <1>2, <1>5, Zenon DEF AmountsTypeOK, Held, Seen
<1>7. ASSUME NEW c \in Chains
      PROVE  NoPoorer(c) /\ Reads(c)' \subseteq Reads(c) \cup {balance[c]}
  <2>1. \A b : LeftSince(c, b)' = LeftSince(c, b)
    BY <1>1, <1>5 DEF LeftSince
  <2>2. \A b : TotalAmount(LeftSince(c, b))' = TotalAmount(LeftSince(c, b))
    BY <1>1, <2>1 DEF TotalAmount
  <2>3. balance'[c] = balance[c] /\ spent'[c] = spent[c] /\ Reads(c)' = Reads(c)
    BY <1>1 DEF Reads
  <2>4. CASE \E u \in misjudged : rows[u].from = c
    <3>1. \E u \in misjudged' : rows'[u].from = c
      BY <1>1, <2>4
    <3> QED
      BY <1>2, <2>2, <2>3, <3>1, SameWealth
  <2>5. CASE ~(\E u \in misjudged : rows[u].from = c)
    <3>1. t \in Known /\ rows[t].from = c /\ outbound[t] = "none" => rows[t].lock = Held
      BY <1>1, <1>2, <2>5 DEF LocksTell, Known
    <3>2. MayLeave(c)' = MayLeave(c)
      BY <1>1, <1>3, <1>5, <3>1 DEF MayLeave, Held, Known
    <3>3. TotalAmount(MayLeave(c))' = TotalAmount(MayLeave(c))
      BY <1>1, <3>2 DEF TotalAmount
    <3> QED
      BY <1>2, <2>2, <2>3, <3>3, SameWealth
  <2> QED
    BY <2>4, <2>5
<1> QED
  BY <1>1, <1>4, <1>6, <1>7, SourcesKept

\* What a change of a balance does.
LEMMA ChangedBalances ==
  ASSUME AmountsTypeOK, NEW d \in Chains, NEW x \in Int, Changed(d, x), balance[d].amount + x >= 0
  PROVE  /\ balance' \in [Chains -> Seen] /\ before' \in [Chains -> Seen]
         /\ balance'[d].amount = balance[d].amount + x /\ balance'[d].block = balance[d].block + 1
         /\ before'[d] = balance[d]
         /\ \A c \in Chains \ {d} : balance'[c] = balance[c] /\ before'[c] = before[c]
<1>1. balance[d] \in Seen /\ balance \in [Chains -> Seen] /\ before \in [Chains -> Seen]
  BY DEF AmountsTypeOK
<1> DEFINE new == [amount |-> balance[d].amount + x, block |-> balance[d].block + 1]
<1>2. new \in Seen
  BY <1>1 DEF Seen
<1>3. new.amount = balance[d].amount + x /\ new.block = balance[d].block + 1
  OBVIOUS
<1>4. balance' = [balance EXCEPT ![d] = new] /\ before' = [before EXCEPT ![d] = balance[d]]
  BY DEF Changed
<1> HIDE DEF new
<1>5. /\ balance' \in [Chains -> Seen] /\ balance'[d] = new
      /\ \A c \in Chains \ {d} : balance'[c] = balance[c]
  BY <1>1, <1>2, <1>4
<1>6. /\ before' \in [Chains -> Seen] /\ before'[d] = balance[d]
      /\ \A c \in Chains \ {d} : before'[c] = before[c]
  BY <1>1, <1>4
<1> QED
  BY <1>3, <1>5, <1>6

\* Money that bundles take is counted, and money that arrives is gain.
LEMMA PaidSources ==
  ASSUME RebalanceIInv, SourcesIInv, NEW d \in Chains, NEW x \in Int,
         Changed(d, x), balance[d].amount + x >= 0, spent' \in [Chains -> Nat],
         \A c \in Chains : spent'[c] >= spent[c], spent'[d] >= spent[d] - x,
         UNCHANGED <<landed, pulls, outbound, rows, service, progress, misjudged, events, task>>
  PROVE  SourcesIInv'
<1>0. rows' = rows
  OBVIOUS
<1>1. AmountsTypeOK /\ \A u \in Transfers \ misjudged : LocksTell(u)
  BY DEF SourcesIInv
<1>2. /\ balance' \in [Chains -> Seen] /\ before' \in [Chains -> Seen]
      /\ balance'[d].amount = balance[d].amount + x /\ balance'[d].block = balance[d].block + 1
      /\ before'[d] = balance[d]
      /\ \A c \in Chains \ {d} : balance'[c] = balance[c] /\ before'[c] = before[c]
  BY <1>1, ChangedBalances
<1>3. Known' = Known
  BY DEF Known, NoTransfer
<1>4. AmountsTypeOK'
  BY <1>1, <1>2, <1>3, Zenon DEF AmountsTypeOK, Held, Seen
<1>5. ASSUME NEW u \in Transfers \ misjudged' PROVE LocksTell(u)'
  BY <1>1, TaskTells
<1>6. ASSUME NEW c \in Chains
      PROVE  NoPoorer(c) /\ Reads(c)' \subseteq Reads(c) \cup {balance[c]}
  <2>1. MayLeave(c)' = MayLeave(c) /\ \A b : LeftSince(c, b)' = LeftSince(c, b)
    BY <1>3 DEF MayLeave, LeftSince, Held
  <2>2. /\ TotalAmount(MayLeave(c))' = TotalAmount(MayLeave(c))
        /\ \A b : TotalAmount(LeftSince(c, b))' = TotalAmount(LeftSince(c, b))
    BY <1>0, <2>1, SumsStay
  <2>3. /\ balance[c].amount \in Nat /\ balance[c].block \in Nat /\ spent[c] \in Nat
        /\ TotalAmount(MayLeave(c)) \in Nat /\ \A b : TotalAmount(LeftSince(c, b)) \in Nat
        /\ spent'[c] \in Nat /\ balance'[c].amount \in Nat
    BY <1>1, <1>4, SourceSums DEF AmountsTypeOK, Seen
  <2>4. balance'[c].amount + spent'[c] >= balance[c].amount + spent[c] /\ balance'[c].block >= balance[c].block
    <3>1. CASE c = d
      BY <1>2, <2>3, <3>1
    <3>2. CASE c # d
      <4>1. spent'[c] >= spent[c] /\ balance'[c] = balance[c]
        BY <1>2, <3>2
      <4> QED
        BY <2>3, <4>1
    <3> QED
      BY <3>1, <3>2
  <2>5. NoPoorer(c)
    BY <2>2, <2>3, <2>4 DEF NoPoorer
  <2>6. Reads(c)' \subseteq Reads(c) \cup {balance[c]}
    BY <1>2 DEF Reads
  <2> QED
    BY <2>5, <2>6
<1> QED
  BY <1>4, <1>5, <1>6, SourcesKept

\* Bundles spend, and what they take is counted.
LEMMA SpendSources ==
  ASSUME RebalanceIInv, SourcesIInv, NEW c \in Chains, Spend(c)
  PROVE  SourcesIInv'
<1>1. /\ balance[c].amount >= Unit[c] /\ Changed(c, -Unit[c])
      /\ spent' = [spent EXCEPT ![c] = @ + Unit[c]]
      /\ UNCHANGED <<landed, pulls, outbound, rows, service, progress, misjudged, events, task>>
  BY Zenon DEF Spend, txVars, dbVars, taskVars
<1>2. spent \in [Chains -> Nat] /\ balance[c].amount \in Nat /\ Unit[c] \in Nat
  BY UnitAssumption DEF SourcesIInv, AmountsTypeOK, Seen
<1>3. PICK x \in Int : x = -Unit[c]
  BY <1>2
<1>4. /\ balance[c].amount + x >= 0 /\ spent' \in [Chains -> Nat]
      /\ \A d \in Chains : spent'[d] >= spent[d]
      /\ spent'[c] >= spent[c] - x
  <2>1. spent'[c] = spent[c] + Unit[c] /\ \A d \in Chains \ {c} : spent'[d] = spent[d]
    BY <1>1, <1>2
  <2>2. spent[c] \in Nat /\ spent[c] + Unit[c] \in Nat /\ \A d \in Chains : spent[d] \in Nat
    BY <1>2
  <2>3. spent' \in [Chains -> Nat]
    BY <1>1, <1>2, <2>2
  <2> QED
    BY <1>1, <1>2, <1>3, <2>1, <2>2, <2>3
<1>5. Changed(c, x)
  BY <1>1, <1>3, Zenon
<1> QED
  BY <1>1, <1>4, <1>5, PaidSources

\* Money that is delivered.
LEMMA DeliverySources ==
  ASSUME RebalanceIInv, SourcesIInv, NEW t \in Transfers, InboundLands(t) \/ PayOut(t)
  PROVE  SourcesIInv'
<1>1. /\ UNCHANGED <<spent, landed, pulls, outbound, rows, service, progress, misjudged, events, task>>
      /\ inbound[t] # "none"
  BY DEF InboundLands, PayOut, txVars, dbVars, taskVars
<1>2. rows[t] # NoTransfer
  BY <1>1 DEF RebalanceIInv, FollowsChains
<1>3. /\ rows[t].from \in Chains /\ rows[t].to \in Chains /\ rows[t].amount \in Nat
      /\ rows[t].bridge = "binance" => Networks[rows[t].to].step > 0
      /\ spent \in [Chains -> Nat] /\ \A c \in Chains : balance[c].amount \in Nat
      /\ misjudged \subseteq Known /\ progress \subseteq Known
      /\ \A u \in Transfers \ misjudged : LocksTell(u)
  BY <1>2 DEF RebalanceIInv, RebalanceTypeOK, RowShape, SourcesIInv, AmountsTypeOK, Known, Seen
<1>4. ASSUME NEW x \in Nat, Changed(rows[t].to, x) PROVE SourcesIInv'
  <2>1. balance[rows[t].to].amount + x >= 0
    BY <1>3
  <2>2. spent' \in [Chains -> Nat] /\ \A c \in Chains : spent'[c] >= spent[c]
    BY <1>1, <1>3
  <2>3. spent'[rows[t].to] >= spent[rows[t].to] - x
    BY <1>1, <1>3
  <2> QED
    BY <1>1, <1>3, <1>4, <2>1, <2>2, <2>3, PaidSources
<1>5. CASE UNCHANGED <<balance, before>>
  <2>1. ASSUME NEW u \in Transfers \ misjudged' PROVE LocksTell(u)'
    BY <1>1, <1>3, TaskTells
  <2> QED
    BY <1>1, <1>3, <1>5, <2>1, QuietSources
<1>6. CASE InboundLands(t)
  BY <1>3, <1>4, <1>5, <1>6, Delivered DEF InboundLands
<1>7. CASE PayOut(t)
  <2>1. WithdrawalAmount(t) \in Nat
    BY <1>3, <1>7, FundsAssumption, RoundedDown DEF PayOut, Binance, WithdrawalAmount
  <2> QED
    BY <1>4, <1>7, <2>1 DEF PayOut
<1> QED
  BY <1>6, <1>7

\* A chain from which less may leave, and nothing left.
LEMMA LessMayLeave ==
  ASSUME AmountsTypeOK, NEW c \in Chains, balance'[c] = balance[c], spent'[c] = spent[c],
         \A u \in Known : rows'[u].amount = rows[u].amount,
         \A b : LeftSince(c, b)' = LeftSince(c, b),
         \/ \E u \in misjudged' : rows'[u].from = c
         \/ MayLeave(c)' \subseteq MayLeave(c)
  PROVE  NoPoorer(c)
<1>1. MayLeave(c) \subseteq Known /\ \A b : LeftSince(c, b) \subseteq Known
  BY DEF MayLeave, LeftSince
<1>2. ASSUME NEW b PROVE TotalAmount(LeftSince(c, b))' = TotalAmount(LeftSince(c, b))
  <2>1. PICK S : S = LeftSince(c, b)
    OBVIOUS
  <2>2. TotalAmount(S)' = TotalAmount(S)
    BY <1>1, <2>1, TotalAmountSame
  <2>3. LeftSince(c, b)' = S
    BY <2>1
  <2> QED
    BY <2>1, <2>2, <2>3, Zenon DEF TotalAmount
<1>3. ASSUME MayLeave(c)' \subseteq MayLeave(c)
      PROVE  TotalAmount(MayLeave(c))' \in Nat /\ TotalAmount(MayLeave(c))' <= TotalAmount(MayLeave(c))
  <2>1. PICK S : S = MayLeave(c)'
    OBVIOUS
  <2>2. TotalAmount(S)' = TotalAmount(S)
    BY <1>1, <1>3, <2>1, TotalAmountSame
  <2>3. Counted(MayLeave(c)) /\ S \in SUBSET MayLeave(c)
    BY <1>3, <2>1, SourceSums
  <2>4. Counted(S) /\ TotalAmount(S) <= TotalAmount(MayLeave(c)) /\ TotalAmount(S) \in Nat
    BY <2>3, TotalAmountMono, TotalAmountType
  <2>5. TotalAmount(MayLeave(c))' = TotalAmount(S)'
    BY <2>1, Zenon DEF TotalAmount
  <2> QED
    BY <2>2, <2>4, <2>5
<1>4. /\ balance[c].amount \in Nat /\ balance[c].block \in Nat /\ spent[c] \in Nat
      /\ TotalAmount(MayLeave(c)) \in Nat /\ \A b : TotalAmount(LeftSince(c, b)) \in Nat
  BY SourceSums DEF AmountsTypeOK, Seen
<1>5. /\ balance'[c].block >= balance[c].block
      /\ \A b \in 0..balance[c].block :
           balance'[c].amount + spent'[c] + TotalAmount(LeftSince(c, b))'
             >= balance[c].amount + spent[c] + TotalAmount(LeftSince(c, b))
  BY <1>2, <1>4
<1>6. MayLeave(c)' \subseteq MayLeave(c) =>
        balance'[c].amount + spent'[c] + TotalAmount(MayLeave(c))
          >= balance[c].amount + spent[c] + TotalAmount(MayLeave(c))'
  BY <1>3, <1>4
<1> QED
  BY <1>5, <1>6, Zenon DEF NoPoorer

\* The lock of an outbound transaction is held until its end is known.
LEMMA QueuedTells ==
  ASSUME RebalanceIInv, NEW t \in Transfers, outbound[t] = "queued", LocksTell(t),
         UNCHANGED <<rows, events>>
  PROVE  LocksTell(t)'
<1>1. FollowsChains(t)
  BY DEF RebalanceIInv
<1>2. rows[t].lock = Held /\ rows[t] # NoTransfer
  BY <1>1 DEF LocksTell, FollowsChains
<1>3. \A i \in 1..Len(events[t]) : events[t][i].state \notin {"pending", "sent", "outboundFailed"}
  BY <1>1 DEF LocksTell, FollowsChains
<1> QED
  BY <1>2, <1>3 DEF LocksTell, NoTransfer, Held

\* The money leaves a chain: it may leave no more, and it left after the blocks before.
LEMMA PulledWealth ==
  ASSUME AmountsTypeOK, NEW c \in Chains, NEW t \in MayLeave(c), rows' = rows, spent'[c] = spent[c],
         NEW a \in Nat, a = rows[t].amount, NEW v \in Nat, v + a = balance[c].amount, balance'[c].amount = v,
         balance'[c].block >= balance[c].block, MayLeave(c)' = MayLeave(c) \ {t},
         \A b \in 0..balance[c].block :
           t \notin LeftSince(c, b) /\ LeftSince(c, b)' = LeftSince(c, b) \cup {t}
  PROVE  NoPoorer(c)
<1>1. /\ spent[c] \in Nat /\ balance[c].amount \in Nat /\ balance[c].block \in Nat
      /\ Counted(MayLeave(c)) /\ TotalAmount(MayLeave(c)) \in Nat
      /\ \A b : Counted(LeftSince(c, b)) /\ TotalAmount(LeftSince(c, b)) \in Nat
      /\ t \in Transfers
  BY SourceSums DEF AmountsTypeOK, Seen, MayLeave, Known
<1>2. Counted({t}) /\ TotalAmount({t}) = a
  BY <1>1, TotalAmountOne
<1>3. TotalAmount(MayLeave(c)) = TotalAmount(MayLeave(c))' + a /\ TotalAmount(MayLeave(c))' \in Nat
  <2>1. PICK S : S = MayLeave(c) \ {t}
    OBVIOUS
  <2>2. Counted(S) /\ S \cap {t} = {} /\ S \cup {t} = MayLeave(c)
    BY <1>1, <2>1 DEF Counted
  <2>3. TotalAmount(MayLeave(c)) = TotalAmount(S) + a /\ TotalAmount(S) \in Nat
    BY <1>2, <2>2, TotalAmountUnion, TotalAmountType
  <2>4. TotalAmount(MayLeave(c))' = TotalAmount(S)
    BY <2>1 DEF TotalAmount
  <2> QED
    BY <2>3, <2>4
<1>4. ASSUME NEW b \in 0..balance[c].block
      PROVE  TotalAmount(LeftSince(c, b))' = TotalAmount(LeftSince(c, b)) + a
  <2>1. PICK S : S = LeftSince(c, b)
    OBVIOUS
  <2>2. LeftSince(c, b)' = S \cup {t} /\ t \notin S /\ Counted(S)
    BY <1>1, <2>1
  <2>3. S \cap {t} = {}
    BY <2>2
  <2>4. TotalAmount(S \cup {t}) = TotalAmount(S) + a
    BY <1>2, <2>2, <2>3, TotalAmountUnion, Zenon
  <2>5. TotalAmount(LeftSince(c, b))' = TotalAmount(S \cup {t})
    BY <2>2, Zenon DEF TotalAmount
  <2> QED
    BY <2>1, <2>4, <2>5, Zenon
<1>5. \A b \in 0..balance[c].block :
        balance'[c].amount + spent'[c] + TotalAmount(LeftSince(c, b))'
          >= balance[c].amount + spent[c] + TotalAmount(LeftSince(c, b))
  BY <1>1, <1>4
<1>6. balance'[c].amount + spent'[c] + TotalAmount(MayLeave(c))
        >= balance[c].amount + spent[c] + TotalAmount(MayLeave(c))'
  BY <1>1, <1>3
<1> QED
  BY <1>5, <1>6, Zenon DEF NoPoorer

\* The outbound transaction ends.
LEMMA OutboundSources ==
  ASSUME RebalanceIInv, SourcesIInv, NEW t \in Transfers, OutboundLands(t) \/ OutboundDropped(t)
  PROVE  SourcesIInv'
<1>1. /\ UNCHANGED <<spent, rows, service, progress, misjudged, events, task>>
      /\ outbound[t] = "queued"
  BY DEF OutboundLands, OutboundDropped, txVars, dbVars, taskVars, chainVars
<1>2. /\ AmountsTypeOK /\ \A u \in Transfers \ misjudged : LocksTell(u)
      /\ outbound \in [Transfers -> {"none", "queued", "confirmed", "failed"}]
      /\ landed \in [Transfers -> Nat] /\ pulls \in [Transfers -> Nat] /\ FollowsChains(t)
  BY DEF SourcesIInv, RebalanceIInv, RebalanceTypeOK
<1>3. rows[t] # NoTransfer /\ t \in Known /\ pulls[t] = 0
  BY <1>1, <1>2 DEF FollowsChains, Known
<1>4. Known' = Known
  BY <1>1 DEF Known, NoTransfer
<1>5. PICK d \in Chains : d = rows[t].from
  BY <1>3 DEF RebalanceIInv, RebalanceTypeOK, RowShape
<1>6. PICK a \in Nat : a = rows[t].amount
  BY <1>2, <1>3 DEF AmountsTypeOK
<1>7. \A c \in Chains : balance[c].amount \in Nat /\ balance[c].block \in Nat
  BY <1>2 DEF AmountsTypeOK, Seen
<1>8. /\ outbound'[t] \in {"confirmed", "failed"}
      /\ \A u \in Transfers \ {t} :
           outbound'[u] = outbound[u] /\ landed'[u] = landed[u] /\ pulls'[u] = pulls[u]
  BY <1>2 DEF OutboundLands, OutboundDropped, chainVars
<1>9. ASSUME NEW u \in Transfers \ misjudged' PROVE LocksTell(u)'
  <2>1. LocksTell(u)
    BY <1>1, <1>2
  <2>2. CASE u = t
    BY <1>1, <2>1, <2>2, QueuedTells
  <2>3. CASE u # t
    BY <1>1, <1>8, <2>1, <2>3 DEF LocksTell, NoTransfer, Held
  <2> QED
    BY <2>2, <2>3
<1>10. MayLeave(d)' = MayLeave(d) \ {t} /\ t \in MayLeave(d)
  BY <1>1, <1>3, <1>4, <1>5, <1>8 DEF MayLeave, Known, Held
<1>11. \A c \in Chains \ {d} : MayLeave(c)' = MayLeave(c) /\ \A b : LeftSince(c, b)' = LeftSince(c, b)
  BY <1>1, <1>4, <1>5, <1>8 DEF MayLeave, LeftSince, Known, Held
<1>12. CASE OutboundLands(t) /\ balance[d].amount >= a
  <2>1. /\ Changed(d, -a) /\ pulls' = [pulls EXCEPT ![t] = @ + 1]
        /\ landed' = [landed EXCEPT ![t] = balance'[d].block]
    BY <1>5, <1>6, <1>12 DEF OutboundLands
  <2>2. PICK v \in Nat : v = balance[d].amount - a
    BY <1>7, <1>12
  <2>3. PICK x \in Int : x = -a
    OBVIOUS
  <2>4. Changed(d, x) /\ balance[d].amount + x >= 0
    BY <1>7, <1>12, <2>1, <2>3
  <2>5. /\ balance' \in [Chains -> Seen] /\ before' \in [Chains -> Seen]
        /\ balance'[d].amount = balance[d].amount + x /\ balance'[d].block = balance[d].block + 1
        /\ before'[d] = balance[d]
        /\ \A c \in Chains \ {d} : balance'[c] = balance[c] /\ before'[c] = before[c]
    BY <1>2, <2>4, ChangedBalances
  <2>6. balance'[d].amount = v /\ v + a = balance[d].amount /\ balance'[d].block >= balance[d].block
    BY <1>7, <2>2, <2>3, <2>5
  <2>7. AmountsTypeOK'
    BY <1>1, <1>2, <1>4, <2>5, Zenon DEF AmountsTypeOK, Held, Seen
  <2>8. pulls'[t] > 0 /\ landed'[t] = balance[d].block + 1
    BY <1>2, <1>3, <2>1, <2>5
  <2>9. ASSUME NEW b \in 0..balance[d].block
        PROVE  t \notin LeftSince(d, b) /\ LeftSince(d, b)' = LeftSince(d, b) \cup {t}
    <3>1. landed'[t] > b
      BY <1>7, <2>8
    <3> QED
      BY <1>1, <1>3, <1>4, <1>5, <1>8, <2>8, <3>1 DEF LeftSince, Known
  <2>10. NoPoorer(d)
    BY <1>1, <1>2, <1>6, <1>10, <2>6, <2>9, PulledWealth
  <2>11. ASSUME NEW c \in Chains \ {d} PROVE NoPoorer(c)
    BY <1>1, <1>2, <1>11, <2>5, LessMayLeave
  <2>12. ASSUME NEW c \in Chains PROVE Reads(c)' \subseteq Reads(c) \cup {balance[c]}
    BY <1>1, <2>5 DEF Reads
  <2> QED
    BY <1>1, <1>9, <2>7, <2>10, <2>11, <2>12, SourcesKept
<1>13. CASE UNCHANGED <<balance, before, pulls>>
  <2>1. AmountsTypeOK'
    BY <1>1, <1>2, <1>4, <1>13, Zenon DEF AmountsTypeOK, Held, Seen
  <2>2. \A b : LeftSince(d, b)' = LeftSince(d, b)
    BY <1>1, <1>3, <1>4, <1>8, <1>13 DEF LeftSince, Known
  <2>3. ASSUME NEW c \in Chains PROVE NoPoorer(c)
    <3>1. MayLeave(c)' \subseteq MayLeave(c) /\ \A b : LeftSince(c, b)' = LeftSince(c, b)
      BY <1>10, <1>11, <2>2
    <3> QED
      BY <1>1, <1>2, <1>13, <3>1, LessMayLeave
  <2>4. ASSUME NEW c \in Chains PROVE Reads(c)' \subseteq Reads(c) \cup {balance[c]}
    BY <1>1, <1>13 DEF Reads
  <2> QED
    BY <1>1, <1>9, <2>1, <2>3, <2>4, SourcesKept
<1> QED
  BY <1>5, <1>6, <1>12, <1>13 DEF OutboundLands, OutboundDropped, chainVars

\* The service stores what a task told: the lock ends where the money left.
LEMMA HandleSources ==
  ASSUME RebalanceIInv, SourcesIInv, NEW t \in Transfers, HandleEvent(t)
  PROVE  SourcesIInv'
<1> DEFINE E == [state : TransferStates, block : Nat]
           e == Head(events[t])
<1>1. /\ events \in [Transfers -> Seq(E)] /\ events[t] \in Seq(E) /\ events[t] # << >>
      /\ RebalanceTypeOK /\ FollowsChains(t)
      /\ AmountsTypeOK /\ \A u \in Transfers \ misjudged : LocksTell(u)
  BY DEF RebalanceIInv, RebalanceTypeOK, HandleEvent, SourcesIInv
<1>2. /\ rows' \in {rows, [rows EXCEPT ![t] = Stored(@, e)]} /\ progress' \subseteq progress
      /\ events' = [events EXCEPT ![t] = Tail(@)]
      /\ UNCHANGED <<balance, before, spent, outbound, landed, pulls, task, service, misjudged>>
  BY DEF HandleEvent, chainVars, txVars
<1>3. /\ e = events[t][1] /\ 1 \in 1..Len(events[t]) /\ e \in E
      /\ \A i \in 1..Len(Tail(events[t])) :
           i + 1 \in 1..Len(events[t]) /\ Tail(events[t])[i] = events[t][i + 1]
  <2> HIDE DEF E
  <2>1. e \in E
    BY <1>1
  <2> QED
    BY <1>1, <2>1, ChannelStates
<1> HIDE DEF e
<1>4. rows[t] # NoTransfer /\ RowShape(rows[t]) /\ DOMAIN rows = Transfers
  BY <1>1 DEF FollowsChains, RebalanceTypeOK
<1>5. /\ RowShape(Stored(rows[t], e)) /\ Stored(rows[t], e).state = e.state
      /\ Stored(rows[t], e).lock = IF e.state \in {"sent", "outboundFailed"} THEN e.block ELSE rows[t].lock
      /\ Stored(rows[t], e).from = rows[t].from /\ Stored(rows[t], e).to = rows[t].to
      /\ Stored(rows[t], e).amount = rows[t].amount /\ Stored(rows[t], e).bridge = rows[t].bridge
  BY <1>3, <1>4 DEF RowShape, Stored
<1>6. RowShape(Stored(rows[t], e)) => Stored(rows[t], e) # NoTransfer
  BY DEF RowShape, NoTransfer
<1>7. /\ \A u \in Transfers \ {t} : rows'[u] = rows[u]
      /\ rows'[t] = rows[t] \/ rows'[t] = Stored(rows[t], e)
  <2> HIDE DEF E
  <2> QED
    BY <1>2, <1>4
<1>8. /\ e.block \in Nat /\ rows'[t] # NoTransfer
      /\ rows'[t].from = rows[t].from /\ rows'[t].to = rows[t].to
      /\ rows'[t].amount = rows[t].amount /\ rows'[t].bridge = rows[t].bridge
      /\ \/ rows'[t].lock = rows[t].lock /\ rows'[t].state = rows[t].state
         \/ /\ rows'[t].state = e.state
            /\ rows'[t].lock = IF e.state \in {"sent", "outboundFailed"} THEN e.block ELSE rows[t].lock
  BY <1>3, <1>4, <1>5, <1>6, <1>7
<1>9. Known' = Known /\ t \in Known
  BY <1>4, <1>7, <1>8 DEF Known, NoTransfer
<1>10. \A u \in Known : /\ rows'[u].from = rows[u].from /\ rows'[u].to = rows[u].to
                         /\ rows'[u].amount = rows[u].amount /\ rows'[u].bridge = rows[u].bridge
                         /\ (rows'[u].lock = rows[u].lock \/ rows'[u].lock \in Nat)
  BY <1>7, <1>8 DEF Known
<1>11. AmountsTypeOK'
  <2>1. \A u \in Known' :
          /\ rows'[u].amount \in Nat /\ rows'[u].lock \in Nat \cup {Held}
          /\ rows'[u].bridge = "binance" => Networks[rows'[u].to].step > 0
    <3> HIDE DEF E
    <3> QED
      BY <1>1, <1>9, <1>10 DEF AmountsTypeOK
  <2>2. progress' \subseteq Known' /\ misjudged' \subseteq Known'
    BY <1>1, <1>2, <1>9 DEF AmountsTypeOK
  <2> QED
    BY <1>1, <1>2, <2>1, <2>2, Zenon DEF AmountsTypeOK, Held, Seen
<1>12. ASSUME NEW u \in Transfers \ misjudged' PROVE LocksTell(u)'
  <2>1. LocksTell(u)
    BY <1>1, <1>2
  <2>2. CASE u # t
    <3>1. events'[u] = events[u] /\ rows'[u] = rows[u]
      BY <1>1, <1>2, <1>7, <2>2
    <3> QED
      BY <1>2, <2>1, <3>1 DEF LocksTell, NoTransfer, Held
  <2>3. CASE u = t
    <3>1. events'[t] = Tail(events[t])
      BY <1>1, <1>2
    <3>2. /\ e.state # "pending"
          /\ e.state = "sent" => e.block = landed[t] /\ outbound[t] = "confirmed"
          /\ e.state = "outboundFailed" => outbound[t] = "failed" \/ (outbound[t] = "none" /\ task[t] = "off")
      BY <1>1, <1>3, <2>1, <2>3 DEF LocksTell, FollowsChains
    <3>3. rows'[t].lock # Held =>
            \/ outbound[t] = "failed"
            \/ outbound[t] = "confirmed" /\ rows'[t].lock = landed[t]
            \/ outbound[t] = "none" /\ task[t] = "off" /\ rows'[t].state \notin {"pending", "sent"}
      BY <1>4, <1>8, <2>1, <2>3, <3>2 DEF LocksTell
    <3>4. ASSUME NEW i \in 1..Len(events'[t])
          PROVE  /\ events'[t][i].state # "pending"
                 /\ events'[t][i].state = "sent" => events'[t][i].block = landed[t]
                 /\ events'[t][i].state = "outboundFailed" =>
                      outbound[t] = "failed" \/ (outbound[t] = "none" /\ task[t] = "off")
      BY <1>3, <2>1, <2>3, <3>1 DEF LocksTell
    <3> QED
      BY <1>2, <2>3, <3>3, <3>4 DEF LocksTell, NoTransfer, Held
  <2> QED
    BY <2>2, <2>3
<1>13. ASSUME NEW c \in Chains
       PROVE  NoPoorer(c) /\ Reads(c)' \subseteq Reads(c) \cup {balance[c]}
  <2>1. MayLeave(c)' \subseteq MayLeave(c)
    BY <1>2, <1>9, <1>10 DEF MayLeave, Held
  <2>2. \A b : LeftSince(c, b)' = LeftSince(c, b)
    BY <1>2, <1>9, <1>10 DEF LeftSince
  <2>3. balance'[c] = balance[c] /\ spent'[c] = spent[c] /\ Reads(c)' = Reads(c)
    BY <1>2 DEF Reads
  <2> QED
    BY <1>1, <1>10, <2>1, <2>2, <2>3, LessMayLeave
<1>14. \A u \in misjudged : rows'[u].from = rows[u].from
  BY <1>1, <1>10 DEF AmountsTypeOK
<1> QED
  BY <1>2, <1>11, <1>12, <1>13, <1>14, SourcesKept

\* A transfer starts: what was found is left to leave, under a lock.
LEMMA BridgeSources ==
  ASSUME RebalanceIInv, SourcesIInv, NEW t \in Transfers, Bridge(t)
  PROVE  SourcesIInv'
<1>1. /\ AmountsTypeOK /\ RebalanceTypeOK /\ FollowsChains(t)
      /\ \A u \in Transfers \ misjudged : LocksTell(u)
      /\ \A c \in Chains : ReadsExplained(c) /\ SourceCovered(c)
      /\ service.phase = "found" /\ rows[t] = NoTransfer
  BY DEF RebalanceIInv, SourcesIInv, Bridge
<1>2. PICK r : r = service.rebalance
  OBVIOUS
<1>3. PICK d \in Chains, a \in Nat : d = r.from /\ a = r.amount /\ r.to \in Chains
  BY <1>1, <1>2 DEF RebalanceTypeOK, AmountsTypeOK
<1>4. PICK b \in Bridges(r) :
        /\ rows' = [rows EXCEPT ![t] = [state |-> "pending", lock |-> Held, from |-> r.from, to |-> r.to,
                                        amount |-> r.amount, bridge |-> b]]
        /\ task' = [task EXCEPT ![t] = "outbound"] /\ progress' = progress \cup {t} /\ service' = Idle
        /\ UNCHANGED <<balance, before, spent, landed, pulls, outbound, events, misjudged>>
  BY <1>2 DEF Bridge, chainVars, txVars
<1>5. b = "binance" => Networks[r.to].step > 0
  BY DEF Bridges, Supports, SupportedWithdrawals
<1>6. DOMAIN rows = Transfers /\ task \in [Transfers -> {"off", "outbound", "outboundWait", "inbound", "inboundWait"}]
  BY <1>1 DEF RebalanceTypeOK
<1>7. /\ \A u \in Transfers \ {t} : rows'[u] = rows[u] /\ task'[u] = task[u]
      /\ rows'[t] # NoTransfer /\ rows'[t].lock = Held /\ rows'[t].from = d /\ rows'[t].to = r.to
      /\ rows'[t].amount = a /\ rows'[t].bridge = b
  <2> DEFINE new == [state |-> "pending", lock |-> Held, from |-> r.from, to |-> r.to,
                     amount |-> r.amount, bridge |-> b]
  <2>1. /\ new # NoTransfer /\ new.lock = Held /\ new.from = r.from /\ new.to = r.to
        /\ new.amount = r.amount /\ new.bridge = b
    BY DEF NoTransfer
  <2>2. rows' = [rows EXCEPT ![t] = new]
    BY <1>4
  <2> HIDE DEF new
  <2>3. rows'[t] = new /\ \A u \in Transfers \ {t} : rows'[u] = rows[u] /\ task'[u] = task[u]
    BY <1>4, <1>6, <2>2
  <2> QED
    BY <1>3, <2>1, <2>3
<1>8. /\ outbound[t] = "none" /\ events[t] = << >> /\ pulls[t] = 0 /\ t \notin Known /\ t \notin misjudged
      /\ Known \subseteq Transfers
  BY <1>1 DEF FollowsChains, Known, AmountsTypeOK
<1>9. Known' = Known \cup {t}
  BY <1>7, <1>8 DEF Known, NoTransfer
<1>10. \A u \in Known : rows'[u] = rows[u]
  BY <1>7, <1>8
<1>11. AmountsTypeOK'
  <2>1. \A u \in Known' :
          /\ rows'[u].amount \in Nat /\ rows'[u].lock \in Nat \cup {Held}
          /\ rows'[u].bridge = "binance" => Networks[rows'[u].to].step > 0
    <3>1. ASSUME NEW u \in Known
          PROVE /\ rows'[u].amount \in Nat /\ rows'[u].lock \in Nat \cup {Held}
                /\ rows'[u].bridge = "binance" => Networks[rows'[u].to].step > 0
      BY <1>1, <1>10 DEF AmountsTypeOK
    <3> QED
      BY <1>3, <1>5, <1>7, <1>9, <3>1
  <2>2. progress' \subseteq Known' /\ misjudged' \subseteq Known' /\ service'.phase = "idle"
    BY <1>1, <1>4, <1>9 DEF AmountsTypeOK, Idle
  <2>3. /\ balance' \in [Chains -> Seen] /\ before' \in [Chains -> Seen] /\ spent' \in [Chains -> Nat]
        /\ service'.phase # "ranges" /\ service'.phase # "found"
    BY <1>1, <1>4, <2>2 DEF AmountsTypeOK
  <2> QED
    BY <2>1, <2>2, <2>3, Zenon DEF AmountsTypeOK, Held, Seen
<1>12. ASSUME NEW u \in Transfers \ misjudged' PROVE LocksTell(u)'
  <2>1. CASE u = t
    BY <1>4, <1>7, <1>8, <2>1 DEF LocksTell, Held
  <2>2. CASE u # t
    BY <1>1, <1>4, <1>7, <2>2 DEF LocksTell, NoTransfer, Held
  <2> QED
    BY <2>1, <2>2
<1>13. \A c \in Chains : \A x : LeftSince(c, x)' = LeftSince(c, x)
  BY <1>4, <1>7, <1>8, <1>9, <1>10 DEF LeftSince
<1>14. MayLeave(d)' = MayLeave(d) \cup {t} /\ t \notin MayLeave(d)
  BY <1>4, <1>7, <1>8, <1>9, <1>10 DEF MayLeave, Held
<1>15. \A c \in Chains \ {d} : MayLeave(c)' \subseteq MayLeave(c)
  BY <1>4, <1>7, <1>8, <1>9, <1>10 DEF MayLeave, Held
<1>16. ASSUME NEW c \in Chains PROVE ReadsExplained(c)'
  <2>1. Reads(c)' \subseteq Reads(c) /\ balance'[c] = balance[c] /\ spent'[c] = spent[c]
    BY <1>4 DEF Reads, Idle
  <2>2. ASSUME NEW x PROVE TotalAmount(LeftSince(c, x))' = TotalAmount(LeftSince(c, x))
    <3>0. LeftSince(c, x)' = LeftSince(c, x) /\ LeftSince(c, x) \subseteq Known
      <4>1. LeftSince(c, x) \subseteq Known
        BY DEF LeftSince
      <4> QED
        BY <1>13, <4>1
    <3>1. PICK S : S = LeftSince(c, x) /\ S \subseteq Known /\ LeftSince(c, x)' = S
      BY <3>0
    <3>2. TotalAmount(S)' = TotalAmount(S)
      BY <1>10, <3>1, TotalAmountSame
    <3> QED
      BY <3>1, <3>2, Zenon DEF TotalAmount
  <2>3. ASSUME NEW x \in Reads(c)' PROVE Explains(c, x)'
    <3>1. Explains(c, x)
      BY <1>1, <2>1 DEF ReadsExplained
    <3> QED
      BY <2>1, <2>2, <3>1, Zenon DEF Explains
  <2> QED
    BY <2>3 DEF ReadsExplained
<1>17. ASSUME NEW c \in Chains \ {d} PROVE SourceCovered(c)'
  <2>1. NoPoorer(c)
    BY <1>1, <1>4, <1>10, <1>13, <1>15, LessMayLeave
  <2>2. /\ \A u \in misjudged : rows'[u].from = rows[u].from
        /\ misjudged \subseteq misjudged' /\ service'.phase # "found"
    BY <1>1, <1>4, <1>10 DEF AmountsTypeOK, Idle
  <2> QED
    BY <1>1, <1>11, <2>1, <2>2, StaysCovered
<1>18. SourceCovered(d)'
  <2>1. CASE \E u \in misjudged : rows[u].from = d
    BY <1>1, <1>4, <1>10, <2>1 DEF SourceCovered, AmountsTypeOK
  <2>2. CASE ~(\E u \in misjudged : rows[u].from = d)
    <3>1. balance[d].amount + spent[d] >= Threshold(d) + TotalAmount(MayLeave(d)) + a
      BY <1>1, <1>2, <1>3, <2>2 DEF SourceCovered
    <3>2. PICK S : S = MayLeave(d) /\ S \subseteq Known /\ t \notin S /\ MayLeave(d)' = S \cup {t}
      BY <1>14 DEF MayLeave
    <3>3. Counted(S)
      BY <1>1, <3>2, SourceSums
    <3>4. rows'[t].amount \in Nat /\ \A u \in S : rows'[u].amount = rows[u].amount
      BY <1>7, <1>10, <3>2
    <3>5. TotalAmount(S \cup {t})' = TotalAmount(S) + a
      BY <1>7, <3>2, <3>3, <3>4, TotalAmountJoins
    <3>6. TotalAmount(MayLeave(d))' = TotalAmount(MayLeave(d)) + a
      BY <3>2, <3>5, Zenon DEF TotalAmount
    <3>7. Threshold(d) \in Nat /\ TotalAmount(MayLeave(d)) \in Nat /\ Threshold(d)' = Threshold(d)
      BY <1>1, ThresholdType, SourceSums DEF Threshold
    <3>8. balance'[d].amount + spent'[d] >= Threshold(d)' + TotalAmount(MayLeave(d))'
      BY <1>4, <3>1, <3>6, <3>7
    <3>9. service'.phase # "found"
      BY <1>4 DEF Idle
    <3> QED
      BY <3>8, <3>9, Zenon DEF SourceCovered
  <2> QED
    BY <2>1, <2>2
<1> QED
  BY <1>11, <1>12, <1>16, <1>17, <1>18 DEF SourcesIInv

\* The locks count all that may leave a chain, and all that left it since a block.
LEMMA LocksCover ==
  ASSUME RebalanceIInv, SourcesIInv, NEW c \in Chains, ~(\E t \in misjudged : rows[t].from = c), NEW b \in Nat
  PROVE  /\ LockedAt(c, b) \in Nat
         /\ LockedAt(c, b) >= TotalAmount(MayLeave(c)) + TotalAmount(LeftSince(c, b))
<1> DEFINE L == {t \in Known : rows[t].from = c /\ (rows[t].lock = Held \/ rows[t].lock > b)}
<1>1. AmountsTypeOK /\ \A t \in Known : rows[t].from = c => LocksTell(t) /\ FollowsChains(t)
  BY DEF SourcesIInv, RebalanceIInv, Known
<1>2. Counted(MayLeave(c)) /\ Counted(LeftSince(c, b))
  BY <1>1, SourceSums
<1>3. MayLeave(c) \cap LeftSince(c, b) = {}
  <2>1. ASSUME NEW t \in MayLeave(c), t \in LeftSince(c, b) PROVE FALSE
    <3>1. t \in Known /\ rows[t].from = c /\ pulls[t] > 0 /\ outbound[t] # "confirmed"
      BY <2>1 DEF MayLeave, LeftSince
    <3>2. FollowsChains(t) /\ t \in Transfers /\ pulls \in [Transfers -> Nat]
      BY <1>1, <3>1 DEF Known, RebalanceIInv, RebalanceTypeOK
    <3> QED
      BY <3>1, <3>2 DEF FollowsChains
  <2> QED
    BY <2>1
<1>4. MayLeave(c) \subseteq L
  BY <1>1 DEF MayLeave, LocksTell, Known
<1>5. LeftSince(c, b) \subseteq L
  <2>1. ASSUME NEW t \in LeftSince(c, b) PROVE t \in L
    <3>1. t \in Known /\ rows[t].from = c /\ pulls[t] > 0 /\ landed[t] > b
      BY DEF LeftSince
    <3>2. LocksTell(t) /\ FollowsChains(t) /\ t \in Transfers /\ pulls \in [Transfers -> Nat] /\ rows[t] # NoTransfer
      BY <1>1, <3>1 DEF Known, RebalanceIInv, RebalanceTypeOK
    <3>3. outbound[t] = "confirmed"
      BY <3>1, <3>2 DEF FollowsChains
    <3>4. rows[t].lock = Held \/ rows[t].lock = landed[t]
      BY <3>2, <3>3 DEF LocksTell
    <3> QED
      BY <3>1, <3>4
  <2> QED
    BY <2>1
<1>6. Counted(L)
  BY <1>1 DEF AmountsTypeOK, Counted, Known
<1>7. LockedAt(c, b) = TotalAmount(L)
  BY DEF LockedAt
<1> HIDE DEF L
<1>8. MayLeave(c) \cup LeftSince(c, b) \in SUBSET L
  BY <1>4, <1>5
<1>9. TotalAmount(MayLeave(c) \cup LeftSince(c, b)) = TotalAmount(MayLeave(c)) + TotalAmount(LeftSince(c, b))
  BY <1>2, <1>3, TotalAmountUnion, Zenon
<1>10. TotalAmount(MayLeave(c) \cup LeftSince(c, b)) <= TotalAmount(L)
  BY <1>6, <1>8, TotalAmountMono, Zenon
<1>11. TotalAmount(L) \in Nat /\ TotalAmount(MayLeave(c)) \in Nat /\ TotalAmount(LeftSince(c, b)) \in Nat
  BY <1>2, <1>6, TotalAmountType, Zenon
<1> QED
  BY <1>7, <1>9, <1>10, <1>11

\* Scaled amounts are integers.
LEMMA ScaledType ==
  ASSUME NEW c \in Chains, NEW x \in Int
  PROVE  Scaled(c, x) \in Int
<1> PICK s, u, h \in Int : s = SCALE_FACTOR /\ u = Unit[c] /\ h = Threshold(c) /\ u > 0
  BY UnitAssumption, ThresholdType
<1>1. s \div u \in Int
  BY Z3
<1>2. (x - h) * (s \div u) \in Int
  BY <1>1
<1> QED
  BY <1>2 DEF Scaled

\* What is found leaves the threshold of the source beside what is locked.
LEMMA RebalanceAmount ==
  ASSUME RebalanceIInv, SourcesIInv, service.phase = "ranges", NEW r \in Rebalances
  PROVE  /\ r.from \in Chains /\ r.amount \in Nat
         /\ service.seen[r.from].amount
              >= LockedAt(r.from, service.seen[r.from].block) + Threshold(r.from) + r.amount
<1> DEFINE low  == [c \in Chains |-> Scaled(c, BalanceRange(c, service.seen[c]).low)]
           high == [c \in Chains |->
                      Scaled(c, BalanceRange(c, service.seen[c]).high + PendingInbound(c))]
           dsts == {c \in Chains : high[c] < 0 /\ \A d \in Chains : high[c] <= high[d]}
           srcs == {c \in Chains : low[c] > 0 /\ \A d \in Chains : low[c] >= low[d]}
           Amount(s, d) == (Min2(-high[d], low[s]) * Unit[s]) \div SCALE_FACTOR
           pairs == {p \in srcs \X dsts : /\ MinAmounts(p[1], p[2]) # {}
                                          /\ Amount(p[1], p[2]) >= GetMinRebalance(p[1], p[2])}
<1>1. r \in {[from |-> p[1], to |-> p[2], amount |-> Amount(p[1], p[2])] : p \in pairs}
  BY DEF Rebalances
<1>2. /\ pairs \subseteq srcs \X dsts
      /\ \A c \in srcs : c \in Chains /\ low[c] > 0
      /\ \A c \in dsts : c \in Chains /\ high[c] < 0
      /\ \A c \in Chains : /\ low[c] = Scaled(c, BalanceRange(c, service.seen[c]).low)
                            /\ high[c] = Scaled(c, BalanceRange(c, service.seen[c]).high + PendingInbound(c))
      /\ \A s, d : Amount(s, d) = (Min2(-high[d], low[s]) * Unit[s]) \div SCALE_FACTOR
  OBVIOUS
<1> HIDE DEF low, high, dsts, srcs, Amount, pairs
<1>3. PICK p \in pairs : r = [from |-> p[1], to |-> p[2], amount |-> Amount(p[1], p[2])]
  BY <1>1
<1>4. PICK s \in Chains, d \in Chains :
        r.from = s /\ r.amount = Amount(s, d) /\ low[s] > 0 /\ high[d] < 0
  <2>1. p[1] \in srcs /\ p[2] \in dsts
    BY <1>2
  <2> QED
    BY <1>2, <1>3, <2>1
<1>5. PICK n, k, i, q, h, e \in Nat :
        /\ n = service.seen[s].amount /\ k = LockedAt(s, service.seen[s].block) /\ h = Threshold(s)
        /\ q = service.seen[d].amount /\ i = PendingInbound(d) /\ e = service.seen[s].block
  <2>1. AmountsTypeOK
    BY DEF SourcesIInv
  <2>2. service.seen[s] \in Seen /\ service.seen[d] \in Seen
    BY <2>1 DEF AmountsTypeOK
  <2>3. LockedAt(s, service.seen[s].block) \in Nat
    <3>1. Counted({t \in Known : rows[t].from = s /\ (rows[t].lock = Held \/ rows[t].lock > service.seen[s].block)})
      BY <2>1 DEF AmountsTypeOK, Counted, Known
    <3> QED
      BY <3>1, TotalAmountType, Zenon DEF LockedAt
  <2>4. PendingInbound(d) \in Nat
    <3>1. Counted({t \in progress : rows[t].to = d})
      BY <2>1 DEF AmountsTypeOK, Counted, Known
    <3> QED
      BY <3>1, TotalAmountType, Zenon DEF PendingInbound
  <2> QED
    BY <2>2, <2>3, <2>4, ThresholdType DEF Seen
<1>6. PICK y \in Int : y = IF n > k THEN n - k ELSE 0
  <2>1. n - k \in Int /\ 0 \in Int
    OBVIOUS
  <2> QED
    BY <2>1, Zenon
<1>7. BalanceRange(s, service.seen[s]).low = y /\ BalanceRange(d, service.seen[d]).high = q
  BY <1>5, <1>6 DEF BalanceRange
<1>8. low[s] = (y - h) * (SCALE_FACTOR \div Unit[s])
  BY <1>2, <1>5, <1>7 DEF Scaled
<1>9. low[s] \in Int /\ high[d] \in Int
  <2>1. q + i \in Int
    OBVIOUS
  <2> QED
    BY <1>2, <1>5, <1>7, <2>1, ScaledType
<1>10. PICK x \in Int : x = y - h
  OBVIOUS
<1>11. x > 0
  BY <1>4, <1>8, <1>10, ScaledSign
<1>12. PICK m \in Int : m = Min2(-high[d], low[s]) /\ m <= low[s] /\ m >= 0
  BY <1>4, <1>9 DEF Min2
<1>13. m <= x * (SCALE_FACTOR \div Unit[s])
  BY <1>8, <1>10, <1>12
<1>14. r.amount = (m * Unit[s]) \div SCALE_FACTOR
  BY <1>2, <1>4, <1>12
<1>15. r.amount \in Int /\ r.amount <= x /\ r.amount >= 0
  BY <1>12, <1>13, <1>14, ScaledBack
<1>16. n >= k + h + r.amount
  BY <1>6, <1>10, <1>11, <1>15
<1> QED
  BY <1>4, <1>5, <1>15, <1>16

\* A rebalance is found for balances read before, against the locks of now.
LEMMA FindSources ==
  ASSUME RebalanceIInv, SourcesIInv, FindNextRebalance
  PROVE  SourcesIInv'
<1>1. /\ UNCHANGED <<balance, before, spent, landed, pulls, outbound, rows, task, events, progress, misjudged>>
      /\ service.phase = "ranges"
      /\ service' = Idle \/ \E r \in Rebalances : service' = [phase |-> "found", rebalance |-> r]
  BY DEF FindNextRebalance, chainVars, txVars, dbVars
<1>2. /\ AmountsTypeOK /\ \A u \in Transfers \ misjudged : LocksTell(u)
      /\ misjudged \subseteq Known /\ progress \subseteq Known
  BY DEF SourcesIInv, AmountsTypeOK
<1>3. ASSUME NEW u \in Transfers \ misjudged' PROVE LocksTell(u)'
  BY <1>1, <1>2, TaskTells
<1>4. CASE service' = Idle
  BY <1>1, <1>2, <1>3, <1>4, QuietSources
<1>5. ASSUME NEW r \in Rebalances, service' = [phase |-> "found", rebalance |-> r] PROVE SourcesIInv'
  <2>1. /\ r.from \in Chains /\ r.amount \in Nat
        /\ service.seen[r.from].amount
             >= LockedAt(r.from, service.seen[r.from].block) + Threshold(r.from) + r.amount
    BY <1>1, RebalanceAmount
  <2>2. service'.phase = "found" /\ service'.rebalance = r
    BY <1>5
  <2>3. Known' = Known
    BY <1>1 DEF Known, NoTransfer
  <2>4. AmountsTypeOK'
    BY <1>1, <1>2, <2>1, <2>2, <2>3, Zenon DEF AmountsTypeOK, Held, Seen
  <2>5. ASSUME NEW c \in Chains
        PROVE  /\ TotalAmount(MayLeave(c))' = TotalAmount(MayLeave(c))
               /\ \A b : TotalAmount(LeftSince(c, b))' = TotalAmount(LeftSince(c, b))
    <3>1. MayLeave(c)' = MayLeave(c) /\ \A b : LeftSince(c, b)' = LeftSince(c, b)
      BY <1>1, <2>3 DEF MayLeave, LeftSince, Held
    <3> QED
      BY <1>1, <3>1, SumsStay
  <2>6. ASSUME NEW c \in Chains PROVE ReadsExplained(c)'
    <3>1. ReadsExplained(c)
      BY DEF SourcesIInv
    <3>2. Reads(c)' \subseteq Reads(c)
      BY <1>1, <2>2 DEF Reads
    <3>3. NoPoorer(c)
      BY <1>1, <1>2, <2>5, SameWealth
    <3> QED
      BY <1>2, <2>4, <3>1, <3>2, <3>3, ReadsStayExplained
  <2>7. ASSUME NEW c \in Chains PROVE SourceCovered(c)'
    <3>1. SourceCovered(c)
      BY DEF SourcesIInv
    <3>2. CASE \E u \in misjudged : rows[u].from = c
      BY <1>1, <3>2 DEF SourceCovered
    <3>3. CASE ~(\E u \in misjudged : rows[u].from = c)
      <4>1. Funds[c] >= Threshold(c) =>
              balance[c].amount + spent[c] >= Threshold(c) + TotalAmount(MayLeave(c))
        BY <3>1, <3>3 DEF SourceCovered
      <4>2. ASSUME r.from = c
            PROVE  balance[c].amount + spent[c] >= Threshold(c) + TotalAmount(MayLeave(c)) + r.amount
        <5>1. service.seen[c] \in Seen /\ Explains(c, service.seen[c])
          BY <1>1, <1>2 DEF AmountsTypeOK, SourcesIInv, ReadsExplained, Reads
        <5>2. PICK b \in Nat : b = service.seen[c].block
          BY <5>1 DEF Seen
        <5>3. /\ LockedAt(c, b) \in Nat
              /\ LockedAt(c, b) >= TotalAmount(MayLeave(c)) + TotalAmount(LeftSince(c, b))
          BY <3>3, LocksCover
        <5>4. balance[c].amount + spent[c] + TotalAmount(LeftSince(c, b)) >= service.seen[c].amount
          BY <5>1, <5>2 DEF Explains
        <5>5. service.seen[c].amount >= LockedAt(c, b) + Threshold(c) + r.amount
          BY <2>1, <4>2, <5>2
        <5>6. /\ balance[c].amount \in Nat /\ spent[c] \in Nat /\ service.seen[c].amount \in Nat
              /\ TotalAmount(MayLeave(c)) \in Nat /\ TotalAmount(LeftSince(c, b)) \in Nat
              /\ Threshold(c) \in Nat
          BY <1>2, <5>1, SourceSums, ThresholdType DEF AmountsTypeOK, Seen
        <5> QED
          BY <2>1, <5>3, <5>4, <5>5, <5>6
      <4>3. /\ balance'[c] = balance[c] /\ spent'[c] = spent[c] /\ Threshold(c)' = Threshold(c)
            /\ TotalAmount(MayLeave(c))' = TotalAmount(MayLeave(c))
        BY <1>1, <2>5 DEF Threshold
      <4> QED
        BY <2>2, <4>1, <4>2, <4>3, Zenon DEF SourceCovered
    <3> QED
      BY <3>2, <3>3
  <2> QED
    BY <1>3, <2>4, <2>6, <2>7 DEF SourcesIInv
<1> QED
  BY <1>1, <1>4, <1>5

\* At first no chain has anything to lose.
LEMMA SourcesStart == RebalanceInit => SourcesIInv
<1> SUFFICES ASSUME RebalanceInit PROVE SourcesIInv
  OBVIOUS
<1>1. /\ \A c \in Chains : balance[c] = [amount |-> Funds[c], block |-> 1] /\ before[c] = balance[c]
      /\ balance = [c \in Chains |-> [amount |-> Funds[c], block |-> 1]] /\ before = balance
      /\ spent = [c \in Chains |-> 0] /\ \A t \in Transfers : rows[t] = NoTransfer /\ events[t] = << >>
      /\ progress = {} /\ misjudged = {} /\ service.phase = "idle"
  BY DEF RebalanceInit, Idle
<1>2. Known = {}
  BY <1>1 DEF Known
<1>3. AmountsTypeOK
  <2>1. ASSUME NEW c \in Chains PROVE [amount |-> Funds[c], block |-> 1] \in Seen
    BY FundsAssumption DEF Seen
  <2>2. balance \in [Chains -> Seen] /\ before \in [Chains -> Seen] /\ spent \in [Chains -> Nat]
    BY <1>1, <2>1
  <2> QED
    BY <1>1, <1>2, <2>2 DEF AmountsTypeOK
<1>4. ASSUME NEW t \in Transfers PROVE LocksTell(t)
  BY <1>1 DEF LocksTell
<1>5. ASSUME NEW c \in Chains PROVE ReadsExplained(c)
  BY <1>1, <1>3, ExplainsNow DEF ReadsExplained, Reads
<1>6. ASSUME NEW c \in Chains PROVE SourceCovered(c)
  <2>1. MayLeave(c) = {}
    BY <1>2 DEF MayLeave
  <2>2. balance[c].amount = Funds[c] /\ spent[c] = 0 /\ Funds[c] \in Nat /\ Threshold(c) \in Nat
    BY <1>1, FundsAssumption, ThresholdType
  <2>3. TotalAmount(MayLeave(c)) = 0
    BY <2>1, TotalAmountEmpty
  <2> QED
    BY <1>1, <2>2, <2>3 DEF SourceCovered
<1> QED
  BY <1>3, <1>4, <1>5, <1>6 DEF SourcesIInv

\* Every step keeps the invariant of the sources.
LEMMA SourcesStep == RebalanceIInv /\ SourcesIInv /\ [RebalanceNext]_rebalanceVars => SourcesIInv'
<1> SUFFICES ASSUME RebalanceIInv, SourcesIInv, [RebalanceNext]_rebalanceVars PROVE SourcesIInv'
  OBVIOUS
<1>1. CASE UNCHANGED rebalanceVars
  <2>1. UNCHANGED <<balance, before, spent, landed, pulls, outbound, rows, task, events, progress, misjudged, service>>
    BY <1>1 DEF rebalanceVars, chainVars, txVars, dbVars, taskVars
  <2>2. /\ \A u \in Transfers \ misjudged : LocksTell(u)
        /\ misjudged \subseteq Known /\ progress \subseteq Known
    BY DEF SourcesIInv, AmountsTypeOK
  <2>3. ASSUME NEW u \in Transfers \ misjudged' PROVE LocksTell(u)'
    BY <2>1, <2>2, TaskTells
  <2> QED
    BY <2>1, <2>2, <2>3, QuietSources
<1>2. CASE BalanceRanges \/ FindNextRebalance \/ BridgeFails \/ IntoFuture
  BY <1>2, LoopSources, FindSources
<1>3. ASSUME NEW c \in Chains, Spend(c) PROVE SourcesIInv'
  BY <1>3, SpendSources
<1>4. ASSUME NEW t \in Transfers,
             \/ Bridge(t) \/ AdvanceTransfer(t) \/ HandleEvent(t)
             \/ OutboundLands(t) \/ OutboundDropped(t) \/ InboundLands(t)
             \/ Credit(t) \/ PayOut(t)
      PROVE  SourcesIInv'
  <2>1. CASE Bridge(t) \/ HandleEvent(t)
    BY <2>1, BridgeSources, HandleSources
  <2>2. CASE OutboundLands(t) \/ OutboundDropped(t)
    BY <2>2, OutboundSources
  <2>3. CASE InboundLands(t) \/ PayOut(t)
    BY <2>3, DeliverySources
  <2>4. CASE BuildOutbound(t) \/ BuildInbound(t) \/ SendInbound(t) \/ WaitForDepositAndWithdraw(t) \/ Credit(t)
    BY <2>4, QuietTaskSources
  <2>5. CASE SendOutbound(t)
    BY <2>5, SendOutboundSources
  <2>6. CASE \/ OutboundError(t) \/ OutboundConfirmed(t) \/ OutboundFailed(t) \/ OutboundLost(t)
             \/ InboundConfirmed(t) \/ FindWithdrawal(t) \/ InboundFailed(t)
    BY <2>6, ReportSources
  <2> QED
    BY <1>4, <2>1, <2>2, <2>3, <2>4, <2>5, <2>6 DEF AdvanceTransfer
<1> QED
  BY <1>1, <1>2, <1>3, <1>4 DEF RebalanceNext

\* For any chains, decimals, thresholds and funds, and any number of transfers, spendings and
\* restarts: the service that decides from balances a lagging node gave it, and from a table
\* that lags behind its tasks, takes no source below its threshold, unless a bridge took a
\* transfer from there for failed whose money left.
THEOREM SourcesKeepThreshold == RebalanceSpec => []SourceKeepsThreshold
<1>1. SourcesIInv => SourceKeepsThreshold
  <2> SUFFICES ASSUME SourcesIInv, NEW c \in Chains, Funds[c] >= Threshold(c),
                      ~(\E t \in misjudged : rows[t].from = c)
               PROVE  balance[c].amount + spent[c] >= Threshold(c)
    BY DEF SourceKeepsThreshold
  <2>1. AmountsTypeOK /\ balance[c].amount + spent[c] >= Threshold(c) + TotalAmount(MayLeave(c))
    BY DEF SourcesIInv, SourceCovered
  <2>2. /\ balance[c].amount \in Nat /\ spent[c] \in Nat /\ Threshold(c) \in Nat
        /\ TotalAmount(MayLeave(c)) \in Nat
    BY <2>1, SourceSums, ThresholdType DEF AmountsTypeOK, Seen
  <2> QED
    BY <2>1, <2>2
<1> QED
  BY <1>1, RebalanceStart, RebalanceStep, SourcesStart, SourcesStep, PTL DEF RebalanceSpec

(***************************************************************************)
(* Numbers, and steps that are taken one after the other                   *)
(***************************************************************************)

\* A set of numbers has a least one.
LEMMA LeastNumber ==
  ASSUME NEW T, T \subseteq Nat, T # {}
  PROVE  \E x \in T : \A y \in T : x <= y
<1> DEFINE Lt == {ss \in Nat \X Nat : ss[1] < ss[2]}
<1>1. IsWellFoundedOn(Lt, Nat)  BY NatLessThanWellFounded DEF OpToRel
<1> HIDE DEF Lt
<1>2. PICK x \in T : \A y \in T : ~ (<<y, x>> \in Lt)  BY <1>1, WFMin
<1>3. ASSUME NEW y \in T PROVE x <= y
  <2>1. x \in Nat /\ y \in Nat  OBVIOUS
  <2>2. y < x => <<y, x>> \in Lt  BY <2>1 DEF Lt
  <2> QED  BY <1>2, <2>1, <2>2
<1> QED  BY <1>3

\* Steps taken one after the other, each a function on a set.
Iterates(f, start, steps, n) ==
  f = [i \in 0..n |-> IF i = 0 THEN start ELSE steps[i][f[i - 1]]]

LEMMA IteratesExist ==
  ASSUME NEW start, NEW steps, NEW n \in Nat
  PROVE  \E f : Iterates(f, start, steps, n)
<1> DEFINE T == {m \in Nat : ~ \E f : Iterates(f, start, steps, m)}
<1> SUFFICES ASSUME T # {} PROVE FALSE  OBVIOUS
<1>1. PICK m \in T : \A y \in T : m <= y
  <2>1. T \subseteq Nat  OBVIOUS
  <2> QED  BY <2>1, LeastNumber
<1>2. CASE m = 0
  <2> PICK f : f = [i \in 0..0 |-> start]  OBVIOUS
  <2>1. f = [i \in 0..0 |-> IF i = 0 THEN start ELSE steps[i][f[i - 1]]]
    <3>1. \A i \in 0..0 : i = 0  OBVIOUS
    <3> QED  BY <3>1
  <2> QED  BY <1>2, <2>1 DEF Iterates
<1>3. CASE m # 0
  <2>1. m \in Nat /\ m - 1 \in Nat /\ m - 1 \notin T  BY <1>1, <1>3
  <2>2. PICK g : Iterates(g, start, steps, m - 1)  BY <2>1
  <2> PICK f : f = [i \in 0..m |-> IF i = m THEN steps[m][g[m - 1]] ELSE g[i]]  OBVIOUS
  <2>3. g = [i \in 0..(m - 1) |-> IF i = 0 THEN start ELSE steps[i][g[i - 1]]]
    BY <2>2 DEF Iterates
  <2>4. \A i \in 0..m : i # m => i \in 0..(m - 1)  BY <2>1
  <2>5. \A i \in 0..m : i # 0 => i - 1 \in 0..m /\ i - 1 # m /\ f[i - 1] = g[i - 1]  BY <2>1
  <2>6. \A i \in 0..m : f[i] = IF i = 0 THEN start ELSE steps[i][f[i - 1]]
    <3> TAKE i \in 0..m
    <3>1. CASE i = m
      <4>1. f[i] = steps[m][g[m - 1]]  BY <3>1
      <4>2. f[i - 1] = g[m - 1]  BY <3>1, <1>3, <2>5
      <4> QED  BY <4>1, <4>2, <3>1, <1>3
    <3>2. CASE i # m
      <4>1. f[i] = g[i] /\ i \in 0..(m - 1)  BY <3>2, <2>4
      <4>2. g[i] = IF i = 0 THEN start ELSE steps[i][g[i - 1]]  BY <4>1, <2>3
      <4>3. i # 0 => f[i - 1] = g[i - 1]  BY <2>5
      <4> QED  BY <4>1, <4>2, <4>3
    <3> QED  BY <3>1, <3>2
  <2>7. f = [i \in 0..m |-> IF i = 0 THEN start ELSE steps[i][f[i - 1]]]
    <3>1. f = [i \in 0..m |-> f[i]]  OBVIOUS
    <3> QED  BY <2>6, <3>1
  <2> QED  BY <2>7 DEF Iterates
<1> QED  BY <1>2, <1>3

\* A set that every step stays in.
LEMMA IteratesStay ==
  ASSUME NEW C, NEW n \in Nat, NEW g, g[0] \in C, \A i \in 1..n : g[i - 1] \in C => g[i] \in C
  PROVE  \A i \in 0..n : g[i] \in C
<1> DEFINE T == {i \in 0..n : g[i] \notin C}
<1> SUFFICES ASSUME T # {} PROVE FALSE  OBVIOUS
<1>1. PICK m \in T : \A y \in T : m <= y
  <2>1. T \subseteq Nat  OBVIOUS
  <2> HIDE DEF T
  <2> QED  BY <2>1, LeastNumber
<1>2. m \in 0..n /\ g[m] \notin C /\ m # 0  OBVIOUS
<1>3. m - 1 \in 0..n /\ ~(m <= m - 1) /\ m \in 1..n  BY <1>2
<1>4. g[m - 1] \in C
  <2>1. m - 1 \notin T  BY <1>1, <1>3
  <2> QED  BY <1>3, <2>1
<1> QED  BY <1>2, <1>3, <1>4

\* Steps that stay in a set can be taken one after the other.
Iterable(C, n, start, steps) ==
  \E f \in [0..n -> C] : f[0] = start /\ \A i \in 1..n : f[i] = steps[i][f[i - 1]]

LEMMA IteratesWithin ==
  ASSUME NEW C, NEW n \in Nat, NEW start \in C, NEW steps,
         \A i \in 1..n : \A c \in C : steps[i][c] \in C
  PROVE  Iterable(C, n, start, steps)
<1>1. PICK f : Iterates(f, start, steps, n)  BY IteratesExist
<1>2. f = [i \in 0..n |-> IF i = 0 THEN start ELSE steps[i][f[i - 1]]]  BY <1>1 DEF Iterates
<1>3. f[0] = start  BY <1>2
<1>4. \A i \in 1..n : f[i] = steps[i][f[i - 1]]
  <2> TAKE i \in 1..n
  <2>1. i \in 0..n /\ i # 0  OBVIOUS
  <2> QED  BY <1>2, <2>1
<1>5. \A i \in 0..n : f[i] \in C
  <2>1. \A i \in 1..n : f[i - 1] \in C => f[i] \in C  BY <1>4
  <2> QED  BY <1>3, <2>1, IteratesStay
<1>6. f \in [0..n -> C]  BY <1>2, <1>5
<1> QED  BY <1>3, <1>4, <1>6 DEF Iterable

\* A sequence is one of its own elements.
OfItsOwn(s) == s \in Seq({s[i] : i \in DOMAIN s}) /\ DOMAIN s = 1..Len(s)

LEMMA OwnElements ==
  ASSUME NEW S, NEW s \in Seq(S)
  PROVE  OfItsOwn(s)
<1>1. Len(s) \in Nat /\ DOMAIN s = 1..Len(s)  OBVIOUS
<1>2. s \in [1..Len(s) -> {s[i] : i \in DOMAIN s}]  BY <1>1
<1> QED  BY <1>1, <1>2 DEF OfItsOwn

\* Induction up to a number.
LEMMA Upward ==
  ASSUME NEW n \in Nat, NEW T, 0 \in T, \A i \in 1..n : i - 1 \in T => i \in T
  PROVE  \A i \in 0..n : i \in T
<1> DEFINE U == {i \in 0..n : i \notin T}
<1> SUFFICES ASSUME U # {} PROVE FALSE  OBVIOUS
<1>1. PICK m \in U : \A y \in U : m <= y
  <2>1. U \subseteq Nat  OBVIOUS
  <2> HIDE DEF U
  <2> QED  BY <2>1, LeastNumber
<1>2. m \in 0..n /\ m \notin T /\ m # 0  OBVIOUS
<1>3. m - 1 \in 0..n /\ ~(m <= m - 1) /\ m \in 1..n  BY <1>2
<1>4. m - 1 \in T
  <2>1. m - 1 \notin U  BY <1>1, <1>3
  <2> QED  BY <1>3, <2>1
<1> QED  BY <1>2, <1>3, <1>4

(***************************************************************************)
(* The Merkle tree of the intents of all chains                            *)
(***************************************************************************)

\* The numbers of a tree: powers of two, and halves that are rounded up.
Doubling(p, n) == p \in [0..n -> Nat] /\ p[0] = 1 /\ \A k \in 1..n : p[k] = 2 * p[k - 1]

LEMMA PowersOfTwo ==
  ASSUME NEW n \in Nat
  PROVE  LET power == CHOOSE g : g = [k \in 0..n |-> IF k = 0 THEN 1 ELSE 2 * g[k - 1]]
         IN  Doubling(power, n)
<1> DEFINE power == CHOOSE g : g = [k \in 0..n |-> IF k = 0 THEN 1 ELSE 2 * g[k - 1]]
<1>1. power = [k \in 0..n |-> IF k = 0 THEN 1 ELSE 2 * power[k - 1]]
  <2> PICK steps : steps = [i \in 1..n |-> [c \in Nat |-> 2 * c]]  OBVIOUS
  <2>1. \A i \in 1..n : \A c \in Nat : steps[i][c] = 2 * c /\ steps[i][c] \in Nat  OBVIOUS
  <2>2. Iterable(Nat, n, 1, steps)
    <3>1. \A i \in 1..n : \A c \in Nat : steps[i][c] \in Nat  BY <2>1
    <3>2. 1 \in Nat  OBVIOUS
    <3> QED  BY <3>1, <3>2, IteratesWithin, Zenon
  <2>3. PICK f \in [0..n -> Nat] : f[0] = 1 /\ \A i \in 1..n : f[i] = steps[i][f[i - 1]]
    BY <2>2 DEF Iterable
  <2>4. \A i \in 0..n : i # 0 => i \in 1..n /\ i - 1 \in 0..n  OBVIOUS
  <2>5. \A i \in 0..n : f[i] = IF i = 0 THEN 1 ELSE 2 * f[i - 1]  BY <2>1, <2>3, <2>4
  <2>6. f = [i \in 0..n |-> IF i = 0 THEN 1 ELSE 2 * f[i - 1]]
    <3>1. f = [i \in 0..n |-> f[i]]  BY <2>3
    <3> QED  BY <2>5, <3>1
  <2> QED  BY <2>6
<1> HIDE DEF power
<1>2. power[0] = 1 /\ \A i \in 1..n : power[i] = 2 * power[i - 1]
  <2>1. \A i \in 1..n : i \in 0..n /\ i # 0  OBVIOUS
  <2> QED  BY <1>1, <2>1
<1>3. \A i \in 0..n : power[i] \in Nat
  <2>1. power[0] \in Nat  BY <1>2
  <2>2. \A i \in 1..n : power[i - 1] \in Nat => power[i] \in Nat  BY <1>2
  <2> QED  BY <2>1, <2>2, IteratesStay
<1>4. power \in [0..n -> Nat]  BY <1>1, <1>3
<1>5. Doubling(power, n)  BY <1>2, <1>4 DEF Doubling
<1> QED  BY <1>5 DEF power

\* log2_ceil(n) layers of pairs are enough for n leaves.
LEMMA HeightIs ==
  ASSUME NEW n \in Nat
  PROVE  Log2Ceil(n) \in 0..n /\ \E p : Doubling(p, n) /\ p[Log2Ceil(n)] >= n
<1> DEFINE power == CHOOSE g : g = [k \in 0..n |-> IF k = 0 THEN 1 ELSE 2 * g[k - 1]]
           h == CHOOSE i \in 0..n : power[i] >= n /\ (i = 0 \/ power[i - 1] < n)
<1>1. Log2Ceil(n) = h  BY DEF Log2Ceil
<1>2. Doubling(power, n)  BY PowersOfTwo
<1> HIDE DEF power
<1>3. \A i \in 0..n : power[i] \in Nat /\ power[i] >= i
  <2> DEFINE T == {i \in 0..n : power[i] \in Nat /\ power[i] > i}
  <2>1. 0 \in T  BY <1>2 DEF Doubling
  <2>2. ASSUME NEW i \in 1..n, i - 1 \in T PROVE i \in T
    <3>1. i \in 0..n /\ i \in Nat /\ power[i - 1] \in Nat /\ power[i - 1] > i - 1  BY <2>2
    <3>2. power[i] = 2 * power[i - 1]  BY <1>2 DEF Doubling
    <3>3. power[i] \in Nat /\ power[i] > i  BY <3>1, <3>2
    <3> QED  BY <3>1, <3>3
  <2>3. \A i \in 0..n : i \in T
    <3> HIDE DEF T
    <3> QED  BY <2>1, <2>2, Upward
  <2>4. \A i \in 0..n : power[i] \in Nat /\ power[i] > i  BY <2>3
  <2> QED  BY <2>4
<1>4. \E i \in 0..n : power[i] >= n /\ (i = 0 \/ power[i - 1] < n)
  <2> DEFINE T == {i \in 0..n : power[i] >= n}
  <2>1. n \in T  BY <1>3
  <2>2. PICK m \in T : \A y \in T : m <= y
    <3>1. T \subseteq Nat /\ T # {}  BY <2>1
    <3> HIDE DEF T
    <3> QED  BY <3>1, LeastNumber
  <2>3. m \in 0..n /\ power[m] >= n  OBVIOUS
  <2>4. CASE m = 0  BY <2>3, <2>4
  <2>5. CASE m # 0
    <3>1. m - 1 \in 0..n /\ ~(m <= m - 1)  BY <2>3, <2>5
    <3>2. m - 1 \notin T  BY <2>2, <3>1
    <3>3. power[m - 1] < n  BY <1>3, <3>1, <3>2
    <3> QED  BY <2>3, <3>3
  <2> QED  BY <2>4, <2>5
<1>5. h \in 0..n /\ power[h] >= n  BY <1>4
<1> HIDE DEF h
<1> QED  BY <1>1, <1>2, <1>5

Sized(S, n, h) == S \in [0..h -> Nat] /\ S[0] = n /\ \A l \in 1..h : S[l] = (S[l - 1] + 1) \div 2
Placed(O, S, h) == O \in [0..h -> Nat] /\ O[0] = 0 /\ \A l \in 1..h : O[l] = O[l - 1] + S[l - 1]

LEMMA SizesAre ==
  ASSUME NEW n \in Nat
  PROVE  Sized(LayerSizes(n), n, Log2Ceil(n))
<1> PICK h : h = Log2Ceil(n)  OBVIOUS
<1> DEFINE size == CHOOSE g : g = [l \in 0..h |-> IF l = 0 THEN n ELSE (g[l - 1] + 1) \div 2]
<1>1. LayerSizes(n) = size  BY DEF LayerSizes
<1>2. h \in Nat  BY HeightIs
<1>3. size = [l \in 0..h |-> IF l = 0 THEN n ELSE (size[l - 1] + 1) \div 2]
  <2> PICK steps : steps = [i \in 1..h |-> [c \in Nat |-> (c + 1) \div 2]]  OBVIOUS
  <2>1. \A i \in 1..h : \A c \in Nat : steps[i][c] = (c + 1) \div 2  OBVIOUS
  <2>2. Iterable(Nat, h, n, steps)
    <3>1. \A i \in 1..h : \A c \in Nat : steps[i][c] \in Nat  BY <2>1
    <3> QED  BY <1>2, <3>1, IteratesWithin, Zenon
  <2>3. PICK f \in [0..h -> Nat] : f[0] = n /\ \A i \in 1..h : f[i] = steps[i][f[i - 1]]
    BY <2>2 DEF Iterable
  <2>4. \A i \in 0..h : i # 0 => i \in 1..h /\ i - 1 \in 0..h  BY <1>2
  <2>5. \A i \in 0..h : f[i] = IF i = 0 THEN n ELSE (f[i - 1] + 1) \div 2  BY <2>1, <2>3, <2>4
  <2>6. f = [i \in 0..h |-> IF i = 0 THEN n ELSE (f[i - 1] + 1) \div 2]
    <3>1. f = [i \in 0..h |-> f[i]]  BY <2>3
    <3> QED  BY <2>5, <3>1
  <2> QED  BY <2>6
<1> HIDE DEF size
<1>4. size[0] = n /\ \A i \in 1..h : size[i] = (size[i - 1] + 1) \div 2
  <2>1. \A i \in 1..h : i \in 0..h /\ i # 0  OBVIOUS
  <2> QED  BY <1>2, <1>3, <2>1
<1>5. \A i \in 0..h : size[i] \in Nat
  <2>1. size[0] \in Nat  BY <1>4
  <2>2. ASSUME NEW i \in 1..h, size[i - 1] \in Nat PROVE size[i] \in Nat
    <3>1. size[i] = (size[i - 1] + 1) \div 2  BY <1>4
    <3> QED  BY <2>2, <3>1
  <2> QED  BY <1>2, <2>1, <2>2, IteratesStay
<1>6. size \in [0..h -> Nat]  BY <1>3, <1>5
<1> QED  BY <1>1, <1>4, <1>6 DEF Sized

LEMMA OffsetsAre ==
  ASSUME NEW n \in Nat
  PROVE  Placed(LayerOffsets(n), LayerSizes(n), Log2Ceil(n))
<1> PICK h : h = Log2Ceil(n)  OBVIOUS
<1> PICK S : S = LayerSizes(n)  OBVIOUS
<1> DEFINE offset == CHOOSE g : g = [l \in 0..h |-> IF l = 0 THEN 0 ELSE g[l - 1] + S[l - 1]]
<1>1. LayerOffsets(n) = offset  BY DEF LayerOffsets
<1>2. h \in Nat  BY HeightIs
<1>3. \A i \in 1..h : i \in 0..h /\ i - 1 \in 0..h /\ i # 0  BY <1>2
<1>4. \A i \in 1..h : S[i - 1] \in Nat
  <2>1. S \in [0..h -> Nat]  BY SizesAre DEF Sized
  <2> QED  BY <1>3, <2>1
<1>5. offset = [l \in 0..h |-> IF l = 0 THEN 0 ELSE offset[l - 1] + S[l - 1]]
  <2>0. \A i \in 1..h : \A c \in Nat : c + S[i - 1] \in Nat  BY <1>4
  <2> PICK steps : steps = [i \in 1..h |-> [c \in Nat |-> c + S[i - 1]]]  OBVIOUS
  <2>1. \A i \in 1..h : \A c \in Nat : steps[i][c] = c + S[i - 1]  OBVIOUS
  <2>2. Iterable(Nat, h, 0, steps)
    <3>1. \A i \in 1..h : \A c \in Nat : steps[i][c] \in Nat  BY <2>0, <2>1, Zenon
    <3>2. 0 \in Nat  OBVIOUS
    <3> QED  BY <1>2, <3>1, <3>2, IteratesWithin, Zenon
  <2>3. PICK f \in [0..h -> Nat] : f[0] = 0 /\ \A i \in 1..h : f[i] = steps[i][f[i - 1]]
    BY <2>2 DEF Iterable
  <2>4. \A i \in 0..h : i # 0 => i \in 1..h /\ i - 1 \in 0..h  BY <1>2
  <2>5. \A i \in 0..h : f[i] = IF i = 0 THEN 0 ELSE f[i - 1] + S[i - 1]  BY <2>1, <2>3, <2>4
  <2>6. f = [i \in 0..h |-> IF i = 0 THEN 0 ELSE f[i - 1] + S[i - 1]]
    <3>1. f = [i \in 0..h |-> f[i]]  BY <2>3
    <3> QED  BY <2>5, <3>1
  <2> QED  BY <2>6
<1> HIDE DEF offset
<1>6. offset[0] = 0 /\ \A i \in 1..h : offset[i] = offset[i - 1] + S[i - 1]  BY <1>2, <1>3, <1>5
<1>7. \A i \in 0..h : offset[i] \in Nat
  <2>1. offset[0] \in Nat  BY <1>6
  <2>2. ASSUME NEW i \in 1..h, offset[i - 1] \in Nat PROVE offset[i] \in Nat
    <3>1. offset[i] = offset[i - 1] + S[i - 1] /\ S[i - 1] \in Nat  BY <1>4, <1>6
    <3> QED  BY <2>2, <3>1
  <2> QED  BY <1>2, <2>1, <2>2, IteratesStay
<1>8. offset \in [0..h -> Nat]  BY <1>5, <1>7
<1> QED  BY <1>1, <1>6, <1>8 DEF Placed

\* No layer is empty, and the last one is the root.
LEMMA OneRoot ==
  ASSUME NEW n \in Nat, n # 0
  PROVE  /\ \A l \in 0..Log2Ceil(n) : LayerSizes(n)[l] >= 1
         /\ LayerSizes(n)[Log2Ceil(n)] = 1
<1> PICK h, S : h = Log2Ceil(n) /\ S = LayerSizes(n)  OBVIOUS
<1>1. PICK p : Doubling(p, n) /\ p[h] >= n  BY HeightIs
<1>2. h \in Nat /\ h <= n  BY HeightIs
<1>3. S \in [0..h -> Nat] /\ S[0] = n /\ \A l \in 1..h : S[l] = (S[l - 1] + 1) \div 2  BY SizesAre DEF Sized
<1>4. \A l \in 0..h : S[l] >= 1
  <2> DEFINE T == {l \in 0..h : S[l] >= 1}
  <2>1. 0 \in T  BY <1>2, <1>3
  <2>2. ASSUME NEW l \in 1..h, l - 1 \in T PROVE l \in T
    <3>1. l \in 0..h /\ S[l - 1] \in Nat /\ S[l - 1] >= 1 /\ S[l] = (S[l - 1] + 1) \div 2  BY <1>2, <1>3, <2>2
    <3> QED  BY <3>1
  <2>3. \A l \in 0..h : l \in T
    <3> HIDE DEF T
    <3> QED  BY <1>2, <2>1, <2>2, Upward
  <2> QED  BY <2>3
<1>5. \A l \in 0..h : S[l] <= p[h - l]
  <2> DEFINE T == {l \in 0..h : S[l] <= p[h - l]}
  <2>1. 0 \in T  BY <1>1, <1>2, <1>3
  <2>2. ASSUME NEW l \in 1..h, l - 1 \in T PROVE l \in T
    <3>0. l \in 0..h /\ l - 1 \in 0..h  BY <1>2, <2>2
    <3>1. S[l - 1] \in Nat /\ S[l] = (S[l - 1] + 1) \div 2  BY <1>3, <3>0
    <3>2. h - (l - 1) \in 1..n /\ h - (l - 1) - 1 = h - l /\ h - l \in 0..n  BY <1>2, <2>2
    <3>3. p[h - (l - 1)] = 2 * p[h - l] /\ p[h - l] \in Nat  BY <1>1, <3>2 DEF Doubling
    <3>4. S[l - 1] <= 2 * p[h - l]  BY <2>2, <3>3
    <3>5. S[l] <= p[h - l]  BY <3>1, <3>3, <3>4
    <3> QED  BY <3>0, <3>5
  <2>3. \A l \in 0..h : l \in T
    <3> HIDE DEF T
    <3> QED  BY <1>2, <2>1, <2>2, Upward
  <2> QED  BY <2>3
<1>6. S[h] <= 1 /\ S[h] >= 1 /\ S[h] \in Nat
  <2>1. h \in 0..h /\ h - h = 0 /\ p[0] = 1  BY <1>1, <1>2 DEF Doubling
  <2> QED  BY <1>3, <1>4, <1>5, <2>1
<1> QED  BY <1>4, <1>6

\* The layers follow each other.
LEMMA LayersApart ==
  ASSUME NEW n \in Nat
  PROVE  \A l \in 0..Log2Ceil(n) : \A j \in 0..Log2Ceil(n) :
           j < l => LayerOffsets(n)[j] + LayerSizes(n)[j] <= LayerOffsets(n)[l]
<1> PICK h, S, O : h = Log2Ceil(n) /\ S = LayerSizes(n) /\ O = LayerOffsets(n)  OBVIOUS
<1>1. h \in Nat /\ S \in [0..h -> Nat]  BY HeightIs, SizesAre DEF Sized
<1>2. O \in [0..h -> Nat] /\ \A l \in 1..h : O[l] = O[l - 1] + S[l - 1]  BY OffsetsAre DEF Placed
<1> DEFINE T == {l \in 0..h : \A j \in 0..h : j < l => O[j] + S[j] <= O[l]}
<1>3. 0 \in T  BY <1>1
<1>4. ASSUME NEW l \in 1..h, l - 1 \in T PROVE l \in T
  <2>1. l \in 0..h /\ l - 1 \in 0..h /\ O[l] = O[l - 1] + S[l - 1] /\ S[l - 1] \in Nat /\ O[l - 1] \in Nat
    BY <1>1, <1>2
  <2>2. ASSUME NEW j \in 0..h, j < l PROVE O[j] + S[j] <= O[l]
    <3>1. O[j] \in Nat /\ S[j] \in Nat  BY <1>1, <1>2
    <3>2. CASE j = l - 1  BY <2>1, <3>1, <3>2
    <3>3. CASE j # l - 1
      <4>1. j < l - 1  BY <1>1, <2>2, <3>3
      <4>2. O[j] + S[j] <= O[l - 1]  BY <1>4, <4>1
      <4> QED  BY <2>1, <3>1, <4>2
    <3> QED  BY <3>2, <3>3
  <2> QED  BY <2>1, <2>2
<1>5. \A l \in 0..h : l \in T
  <2> HIDE DEF T
  <2> QED  BY <1>1, <1>3, <1>4, Upward
<1> QED  BY <1>5

\* What the numbers of a layer and of the next one are.
LEMMA LayerNumbers ==
  ASSUME NEW n \in Nat, n # 0, NEW l \in Nat, l < Log2Ceil(n)
  PROVE  /\ LayerOffsets(n)[l] \in Nat /\ LayerSizes(n)[l] \in Nat
         /\ LayerOffsets(n)[l + 1] = LayerOffsets(n)[l] + LayerSizes(n)[l]
         /\ LayerSizes(n)[l + 1] = (LayerSizes(n)[l] + 1) \div 2
         /\ TotalNodes(n) \in Nat /\ LayerOffsets(n)[l + 1] + LayerSizes(n)[l + 1] <= TotalNodes(n)
         /\ n <= LayerOffsets(n)[l + 1]
<1> PICK h, S, O : h = Log2Ceil(n) /\ S = LayerSizes(n) /\ O = LayerOffsets(n)  OBVIOUS
<1>1. h \in Nat  BY HeightIs
<1>2. S \in [0..h -> Nat] /\ S[0] = n /\ \A i \in 1..h : S[i] = (S[i - 1] + 1) \div 2  BY SizesAre DEF Sized
<1>3. O \in [0..h -> Nat] /\ O[0] = 0 /\ \A i \in 1..h : O[i] = O[i - 1] + S[i - 1]  BY OffsetsAre DEF Placed
<1>4. l \in 0..h /\ l + 1 \in 1..h /\ (l + 1) - 1 = l /\ l + 1 \in 0..h /\ h \in 0..h /\ 0 \in 0..h  BY <1>1
<1>5. TotalNodes(n) = O[h] + S[h]  BY DEF TotalNodes
<1>6. \A i \in 0..h : \A j \in 0..h : j < i => O[j] + S[j] <= O[i]  BY LayersApart
<1>7. O[l + 1] + S[l + 1] <= O[h] + S[h]
  <2>1. O[l + 1] \in Nat /\ S[l + 1] \in Nat /\ O[h] \in Nat /\ S[h] \in Nat  BY <1>2, <1>3, <1>4
  <2>2. CASE l + 1 = h  BY <2>1, <2>2
  <2>3. CASE l + 1 # h
    <3>1. l + 1 < h  BY <1>1, <1>4, <2>3
    <3>2. O[l + 1] + S[l + 1] <= O[h]  BY <1>4, <1>6, <3>1
    <3> QED  BY <2>1, <3>2
  <2> QED  BY <2>2, <2>3
<1>8. n <= O[l + 1]
  <2>1. 0 < l + 1  OBVIOUS
  <2>2. O[0] + S[0] <= O[l + 1]  BY <1>4, <1>6, <2>1
  <2> QED  BY <1>2, <1>3, <2>2
<1>9. O[l] \in Nat /\ S[l] \in Nat /\ O[h] + S[h] \in Nat
  <2>1. O[l] \in Nat /\ S[l] \in Nat /\ O[h] \in Nat /\ S[h] \in Nat  BY <1>2, <1>3, <1>4
  <2> QED  BY <2>1
<1>10. O[l + 1] = O[l] + S[l] /\ S[l + 1] = (S[l] + 1) \div 2  BY <1>2, <1>3, <1>4
<1> QED  BY <1>5, <1>7, <1>8, <1>9, <1>10

\* A layer that is hashed into the next one.
HashedLayer(ns, n, l) ==
  \A i \in 0..(LayerSizes(n)[l + 1] - 1) :
    ns[LayerOffsets(n)[l + 1] + i + 1] =
      HashLeafPairs(ns[LayerOffsets(n)[l] + 2 * i + 1],
                    IF 2 * i + 1 < LayerSizes(n)[l] THEN ns[LayerOffsets(n)[l] + 2 * i + 2] ELSE ZERO)

HashedUpTo(ns, leaves, n, m) ==
  /\ ns = [k \in 1..TotalNodes(n) |-> ns[k]]
  /\ \A k \in 1..n : ns[k] = leaves[k]
  /\ \A l \in 0..(m - 1) : HashedLayer(ns, n, l)

\* The pairs of a layer lie within it.
LEMMA PairNumbers ==
  ASSUME NEW s \in Nat, NEW i \in Nat, i < (s + 1) \div 2
  PROVE  2 * i + 1 <= s
  OBVIOUS

\* Writing behind a layer's next one does not change what is hashed.
LEMMA LayerKept ==
  ASSUME NEW n \in Nat, n # 0, NEW m \in Nat, m < Log2Ceil(n), NEW l \in Nat, l < m,
         NEW ns, NEW new, \A k \in 1..LayerOffsets(n)[m + 1] : new[k] = ns[k],
         HashedLayer(ns, n, l)
  PROVE  HashedLayer(new, n, l)
<1> PICK h, S, O : h = Log2Ceil(n) /\ S = LayerSizes(n) /\ O = LayerOffsets(n)  OBVIOUS
<1> PICK o, s, p, t, w : o = O[l] /\ s = S[l] /\ p = O[l + 1] /\ t = S[l + 1] /\ w = O[m + 1]  OBVIOUS
<1>0. h \in Nat /\ l < h  BY HeightIs
<1>1. o \in Nat /\ s \in Nat /\ p = o + s /\ t = (s + 1) \div 2  BY <1>0, LayerNumbers
<1>2. p + t <= w /\ w \in Nat
  <2>1. m + 1 \in 0..h /\ l + 1 \in 0..h /\ l + 1 < m + 1  BY <1>0
  <2>2. p + t <= w  BY <2>1, LayersApart
  <2>3. O \in [0..h -> Nat]  BY OffsetsAre DEF Placed
  <2> QED  BY <2>1, <2>2, <2>3
<1>3. \A k \in 1..w : new[k] = ns[k]  OBVIOUS
<1>4. ASSUME NEW i \in 0..(t - 1)
      PROVE  new[p + i + 1] = HashLeafPairs(new[o + 2 * i + 1], IF 2 * i + 1 < s THEN new[o + 2 * i + 2] ELSE ZERO)
  <2>1. i \in Nat /\ i < t /\ t \in Nat  BY <1>1
  <2>2. 2 * i + 1 <= s  BY <1>1, <2>1, PairNumbers
  <2>3. p + i + 1 \in 1..w /\ o + 2 * i + 1 \in 1..w /\ (2 * i + 1 < s => o + 2 * i + 2 \in 1..w)
    BY <1>1, <1>2, <2>1, <2>2
  <2>4. ns[p + i + 1] = HashLeafPairs(ns[o + 2 * i + 1], IF 2 * i + 1 < s THEN ns[o + 2 * i + 2] ELSE ZERO)
    BY DEF HashedLayer
  <2>5. new[p + i + 1] = ns[p + i + 1] /\ new[o + 2 * i + 1] = ns[o + 2 * i + 1]  BY <1>3, <2>3
  <2>6. CASE 2 * i + 1 < s
    <3>1. new[o + 2 * i + 2] = ns[o + 2 * i + 2]  BY <1>3, <2>3, <2>6
    <3> QED  BY <2>4, <2>5, <2>6, <3>1, Zenon
  <2>7. CASE ~(2 * i + 1 < s)  BY <2>4, <2>5, <2>7, Zenon
  <2> QED  BY <2>6, <2>7
<1> QED  BY <1>4, Zenon DEF HashedLayer

LEMMA LayerHashed ==
  ASSUME NEW n \in Nat, n # 0, NEW m \in Nat, m < Log2Ceil(n), NEW ns, NEW leaves, HashedUpTo(ns, leaves, n, m)
  PROVE  HashedUpTo(HashLayer(ns, n, m), leaves, n, m + 1)
<1> PICK N, o, s, p, t : /\ N = TotalNodes(n) /\ o = LayerOffsets(n)[m] /\ s = LayerSizes(n)[m]
                         /\ p = LayerOffsets(n)[m + 1] /\ t = LayerSizes(n)[m + 1]
  OBVIOUS
<1> PICK new : new = HashLayer(ns, n, m)  OBVIOUS
<1>1. /\ o \in Nat /\ s \in Nat /\ p = o + s /\ t = (s + 1) \div 2 /\ N \in Nat /\ p + t <= N /\ n <= p
  BY LayerNumbers
<1>2. ns = [k \in 1..N |-> ns[k]] /\ DOMAIN ns = 1..N  BY DEF HashedUpTo
<1> DEFINE V(k) == LET i == k - 1 - o - s
                   IN  IF i \notin 0..((s + 1) \div 2 - 1) THEN ns[k]
                       ELSE HashLeafPairs(ns[o + 2 * i + 1], IF 2 * i + 1 < s THEN ns[o + 2 * i + 2] ELSE ZERO)
<1>3. new = [k \in 1..N |-> V(k)]  BY <1>2 DEF HashLayer
<1>4. ASSUME NEW k \in 1..p PROVE new[k] = ns[k]
  <2>1. k - 1 - o - s \notin 0..((s + 1) \div 2 - 1) /\ k \in 1..N  BY <1>1
  <2> QED  BY <1>3, <2>1
<1>5. ASSUME NEW i \in 0..(t - 1)
      PROVE  new[p + i + 1] = HashLeafPairs(ns[o + 2 * i + 1], IF 2 * i + 1 < s THEN ns[o + 2 * i + 2] ELSE ZERO)
  <2> PICK k : k = p + i + 1  OBVIOUS
  <2>1. k - 1 - o - s = i /\ i \in 0..((s + 1) \div 2 - 1) /\ k \in 1..N  BY <1>1
  <2>2. new[k] = V(k)  BY <1>3, <2>1
  <2> HIDE DEF V
  <2>3. V(k) = HashLeafPairs(ns[o + 2 * i + 1], IF 2 * i + 1 < s THEN ns[o + 2 * i + 2] ELSE ZERO)
    BY <2>1, Zenon DEF V
  <2> QED  BY <2>2, <2>3
<1> HIDE DEF V
<1>6. HashedLayer(new, n, m)
  <2>1. ASSUME NEW i \in 0..(t - 1)
        PROVE  new[p + i + 1] = HashLeafPairs(new[o + 2 * i + 1], IF 2 * i + 1 < s THEN new[o + 2 * i + 2] ELSE ZERO)
    <3>1. i \in Nat /\ i < t /\ t \in Nat  BY <1>1
    <3>2. 2 * i + 1 <= s  BY <1>1, <3>1, PairNumbers
    <3>3. o + 2 * i + 1 \in 1..p /\ (2 * i + 1 < s => o + 2 * i + 2 \in 1..p)  BY <1>1, <3>1, <3>2
    <3>4. new[o + 2 * i + 1] = ns[o + 2 * i + 1]  BY <1>4, <3>3
    <3>5. CASE 2 * i + 1 < s
      <4>1. new[o + 2 * i + 2] = ns[o + 2 * i + 2]  BY <1>4, <3>3, <3>5
      <4> QED  BY <1>5, <3>4, <3>5, <4>1, Zenon
    <3>6. CASE ~(2 * i + 1 < s)  BY <1>5, <3>4, <3>6, Zenon
    <3> QED  BY <3>5, <3>6
  <2> QED  BY <2>1, Zenon DEF HashedLayer
<1>7. ASSUME NEW l \in 0..((m + 1) - 1) PROVE HashedLayer(new, n, l)
  <2>1. CASE l = m  BY <1>6, <2>1
  <2>2. CASE l # m
    <3>1. l \in Nat /\ l < m /\ l \in 0..(m - 1)  BY <2>2
    <3>2. HashedLayer(ns, n, l)  BY <3>1 DEF HashedUpTo
    <3>3. \A k \in 1..LayerOffsets(n)[m + 1] : new[k] = ns[k]  BY <1>4
    <3> QED  BY <3>1, <3>2, <3>3, LayerKept
  <2> QED  BY <2>1, <2>2
<1>8. \A k \in 1..n : new[k] = leaves[k]
  <2> TAKE k \in 1..n
  <2>1. k \in 1..p  BY <1>1
  <2>2. ns[k] = leaves[k]  BY DEF HashedUpTo
  <2> QED  BY <1>4, <2>1, <2>2
<1>9. new = [k \in 1..N |-> new[k]]  BY <1>3
<1> QED  BY <1>7, <1>8, <1>9 DEF HashedUpTo

\* A half of an index lies in the next layer.
LEMMA HalfNumbers ==
  ASSUME NEW s \in Nat, NEW i \in Nat, i < s
  PROVE  LET j == i \div 2
         IN  /\ j \in Nat /\ j < (s + 1) \div 2 /\ j \in 0..((s + 1) \div 2 - 1)
             /\ i % 2 = 0 => i = 2 * j
             /\ i % 2 # 0 => i = 2 * j + 1
<1> PICK j : j = i \div 2  OBVIOUS
<1>1. j \in Nat /\ (i = 2 * j \/ i = 2 * j + 1) /\ (i % 2 = 0 <=> i = 2 * j)  OBVIOUS
<1>2. j < (s + 1) \div 2 /\ (s + 1) \div 2 \in Nat  BY <1>1
<1>3. j \in 0..((s + 1) \div 2 - 1)  BY <1>1, <1>2
<1> QED  BY <1>1, <1>2, <1>3

\* A node and its sibling are hashed to the node above them.
LEMMA ClimbStep ==
  ASSUME NEW n \in Nat, n # 0, NEW l \in Nat, l < Log2Ceil(n), NEW t, t.count = n, HashedLayer(t.nodes, n, l),
         NEW i \in Nat, i < LayerSizes(n)[l]
  PROVE  /\ i \div 2 \in Nat /\ i \div 2 < LayerSizes(n)[l + 1]
         /\ HashLeafPairs(t.nodes[LayerOffsets(n)[l] + i + 1], Sibling(t, l, i))
              = t.nodes[LayerOffsets(n)[l + 1] + (i \div 2) + 1]
<1> PICK ns, j : ns = t.nodes /\ j = i \div 2  OBVIOUS
<1> PICK o, s, p, u : o = LayerOffsets(n)[l] /\ s = LayerSizes(n)[l] /\ p = LayerOffsets(n)[l + 1] /\ u = LayerSizes(n)[l + 1]
  OBVIOUS
<1>1. o \in Nat /\ s \in Nat /\ u = (s + 1) \div 2  BY LayerNumbers
<1>2. /\ j \in Nat /\ j < u /\ j \in 0..(u - 1) /\ (i % 2 = 0 => i = 2 * j) /\ (i % 2 # 0 => i = 2 * j + 1)
  BY <1>1, HalfNumbers
<1>3. ns[p + j + 1] = HashLeafPairs(ns[o + 2 * j + 1], IF 2 * j + 1 < s THEN ns[o + 2 * j + 2] ELSE ZERO)
  BY <1>2, Zenon DEF HashedLayer
<1>4. Sibling(t, l, i) = IF SiblingIndex(i) < s THEN ns[o + SiblingIndex(i) + 1] ELSE ZERO  BY DEF Sibling
<1>5. CASE i % 2 = 0
  <2>1. SiblingIndex(i) = 2 * j + 1 /\ i = 2 * j  BY <1>2, <1>5 DEF SiblingIndex
  <2>2. o + (2 * j + 1) + 1 = o + 2 * j + 2 /\ o + i + 1 = o + 2 * j + 1  BY <1>1, <1>2, <2>1
  <2>3. Sibling(t, l, i) = IF 2 * j + 1 < s THEN ns[o + 2 * j + 2] ELSE ZERO  BY <1>4, <2>1, <2>2, Zenon
  <2>4. HashLeafPairs(ns[o + i + 1], Sibling(t, l, i)) = ns[p + j + 1]  BY <1>3, <2>2, <2>3, Zenon
  <2> QED  BY <1>2, <2>4
<1>6. CASE i % 2 # 0
  <2>1. SiblingIndex(i) = 2 * j /\ i = 2 * j + 1 /\ 2 * j < s /\ 2 * j + 1 < s
    BY <1>1, <1>2, <1>6 DEF SiblingIndex
  <2>2. o + i + 1 = o + 2 * j + 2  BY <1>1, <1>2, <2>1
  <2>3. Sibling(t, l, i) = ns[o + 2 * j + 1]  BY <1>4, <2>1, Zenon
  <2>4. ns[p + j + 1] = HashLeafPairs(ns[o + 2 * j + 1], ns[o + 2 * j + 2])  BY <1>3, <2>1, Zenon
  <2>5. \A x, y : HashLeafPairs(x, y) = HashLeafPairs(y, x)
    <3>1. \A x, y : {x, y} = {y, x}  OBVIOUS
    <3> QED  BY <3>1 DEF HashLeafPairs
  <2>6. HashLeafPairs(ns[o + i + 1], Sibling(t, l, i)) = ns[p + j + 1]  BY <2>2, <2>3, <2>4, <2>5, Zenon
  <2> QED  BY <1>2, <2>6
<1> QED  BY <1>5, <1>6

\* The hash that is rolled along a proof.
Rolling(f, leaf, proof, m) ==
  f = [k \in 0..m |-> IF k = 0 THEN leaf ELSE HashLeafPairs(f[k - 1], proof[k])]

\* The indices of a proof's nodes.
Halving(at, index, h) == at \in [0..h -> Nat] /\ at[0] = index /\ \A l \in 1..h : at[l] = at[l - 1] \div 2

\* The siblings along the way, and its end.
SiblingsAlong(proof, t, at, h) == \A l \in 1..h : proof[l] = Sibling(t, l - 1, at[l - 1])
AtRoot(f, t, n) == f[Log2Ceil(n)] = t.nodes[TotalNodes(n)]

\* From a leaf to the root.
LEMMA Climb ==
  ASSUME NEW n \in Nat, n # 0, NEW t, NEW leaves, t.count = n, HashedUpTo(t.nodes, leaves, n, Log2Ceil(n)),
         NEW index \in 0..(n - 1), NEW at, Halving(at, index, Log2Ceil(n)),
         NEW proof, SiblingsAlong(proof, t, at, Log2Ceil(n)),
         NEW f, Rolling(f, leaves[index + 1], proof, Log2Ceil(n))
  PROVE  AtRoot(f, t, n)
<1> PICK h, S, O, ns : h = Log2Ceil(n) /\ S = LayerSizes(n) /\ O = LayerOffsets(n) /\ ns = t.nodes  OBVIOUS
<1>1. h \in Nat  BY HeightIs
<1>2. S \in [0..h -> Nat] /\ S[0] = n  BY SizesAre DEF Sized
<1>3. O \in [0..h -> Nat] /\ O[0] = 0  BY OffsetsAre DEF Placed
<1>4. at \in [0..h -> Nat] /\ at[0] = index /\ \A l \in 1..h : at[l] = at[l - 1] \div 2  BY DEF Halving
<1>5. f = [k \in 0..h |-> IF k = 0 THEN leaves[index + 1] ELSE HashLeafPairs(f[k - 1], proof[k])]  BY DEF Rolling
<1>6. f[0] = leaves[index + 1] /\ \A k \in 1..h : f[k] = HashLeafPairs(f[k - 1], proof[k])
  <2>1. \A k \in 1..h : k \in 0..h /\ k # 0  OBVIOUS
  <2> QED  BY <1>1, <1>5, <2>1
<1> DEFINE T == {l \in 0..h : at[l] < S[l] /\ f[l] = ns[O[l] + at[l] + 1]}
<1>7. 0 \in T
  <2>1. index + 1 \in 1..n /\ O[0] + at[0] + 1 = index + 1 /\ at[0] < S[0]  BY <1>2, <1>3, <1>4
  <2>2. ns[index + 1] = leaves[index + 1]  BY <2>1 DEF HashedUpTo
  <2> QED  BY <1>1, <1>6, <2>1, <2>2
<1>8. ASSUME NEW k \in 1..h, k - 1 \in T PROVE k \in T
  <2> PICK l, i : l = k - 1 /\ i = at[l]  OBVIOUS
  <2>1. l \in Nat /\ l < h /\ l \in 0..(h - 1) /\ l \in 0..h /\ k = l + 1 /\ k \in 0..h  BY <1>1
  <2>2. i \in Nat /\ i < S[l] /\ f[l] = ns[O[l] + i + 1]  BY <1>4, <1>8, <2>1
  <2>3. HashedLayer(t.nodes, n, l)  BY <2>1 DEF HashedUpTo
  <2>4. /\ i \div 2 < S[l + 1]
        /\ HashLeafPairs(ns[O[l] + i + 1], Sibling(t, l, i)) = ns[O[l + 1] + (i \div 2) + 1]
    BY <2>1, <2>2, <2>3, ClimbStep
  <2>5. at[k] = i \div 2 /\ proof[k] = Sibling(t, l, i) /\ f[k] = HashLeafPairs(f[l], proof[k])
    BY <1>4, <1>6 DEF SiblingsAlong
  <2>6. f[k] = ns[O[k] + at[k] + 1]  BY <2>1, <2>2, <2>4, <2>5, Zenon
  <2>7. at[k] < S[k]  BY <2>1, <2>4, <2>5, Zenon
  <2> QED  BY <2>1, <2>6, <2>7
<1>9. \A l \in 0..h : l \in T
  <2> HIDE DEF T
  <2> QED  BY <1>1, <1>7, <1>8, Upward
<1>10. h \in 0..h /\ at[h] < S[h] /\ f[h] = ns[O[h] + at[h] + 1]
  <2>1. h \in 0..h  BY <1>1
  <2> QED  BY <1>9, <2>1
<1>11. S[h] = 1  BY OneRoot
<1>12. at[h] = 0  BY <1>4, <1>10, <1>11
<1>13. TotalNodes(n) = O[h] + 1 /\ O[h] + at[h] + 1 = O[h] + 1
  <2>1. TotalNodes(n) = O[h] + S[h]  BY DEF TotalNodes
  <2>2. O[h] \in Nat  BY <1>3, <1>10
  <2> QED  BY <1>11, <1>12, <2>1, <2>2
<1> QED  BY <1>10, <1>13, Zenon DEF AtRoot

\* A hash can be rolled along every proof, and a tree be hashed layer by layer.
LEMMA RollingExists ==
  ASSUME NEW leaf, NEW proof, NEW n \in Nat
  PROVE  \E f : Rolling(f, leaf, proof, n)
<1> DEFINE T == {m \in Nat : ~ \E f : Rolling(f, leaf, proof, m)}
<1> SUFFICES ASSUME T # {} PROVE FALSE  OBVIOUS
<1>1. PICK m \in T : \A y \in T : m <= y
  <2>1. T \subseteq Nat  OBVIOUS
  <2> QED  BY <2>1, LeastNumber
<1>2. CASE m = 0
  <2> PICK f : f = [i \in 0..0 |-> leaf]  OBVIOUS
  <2>1. f = [i \in 0..0 |-> IF i = 0 THEN leaf ELSE HashLeafPairs(f[i - 1], proof[i])]
    <3>1. \A i \in 0..0 : i = 0  OBVIOUS
    <3> QED  BY <3>1
  <2> QED  BY <1>2, <2>1 DEF Rolling
<1>3. CASE m # 0
  <2>1. m \in Nat /\ m - 1 \in Nat /\ m - 1 \notin T  BY <1>1, <1>3
  <2>2. PICK g : Rolling(g, leaf, proof, m - 1)  BY <2>1
  <2> PICK f : f = [i \in 0..m |-> IF i = m THEN HashLeafPairs(g[m - 1], proof[m]) ELSE g[i]]  OBVIOUS
  <2>3. g = [i \in 0..(m - 1) |-> IF i = 0 THEN leaf ELSE HashLeafPairs(g[i - 1], proof[i])]
    BY <2>2 DEF Rolling
  <2>4. \A i \in 0..m : i # m => i \in 0..(m - 1)  BY <2>1
  <2>5. \A i \in 0..m : i # 0 => i - 1 \in 0..m /\ i - 1 # m /\ f[i - 1] = g[i - 1]  BY <2>1
  <2>6. \A i \in 0..m : f[i] = IF i = 0 THEN leaf ELSE HashLeafPairs(f[i - 1], proof[i])
    <3> TAKE i \in 0..m
    <3>1. CASE i = m
      <4>1. f[i] = HashLeafPairs(g[m - 1], proof[m])  BY <3>1
      <4>2. f[i - 1] = g[m - 1]  BY <3>1, <1>3, <2>5
      <4> QED  BY <4>1, <4>2, <3>1, <1>3
    <3>2. CASE i # m
      <4>1. f[i] = g[i] /\ i \in 0..(m - 1)  BY <3>2, <2>4
      <4>2. g[i] = IF i = 0 THEN leaf ELSE HashLeafPairs(g[i - 1], proof[i])  BY <4>1, <2>3
      <4>3. i # 0 => f[i - 1] = g[i - 1]  BY <2>5
      <4> QED  BY <4>1, <4>2, <4>3
    <3> QED  BY <3>1, <3>2
  <2>7. f = [i \in 0..m |-> IF i = 0 THEN leaf ELSE HashLeafPairs(f[i - 1], proof[i])]
    <3>1. f = [i \in 0..m |-> f[i]]  OBVIOUS
    <3> QED  BY <2>6, <3>1
  <2> QED  BY <2>7 DEF Rolling
<1> QED  BY <1>2, <1>3

Layered(f, nodes, c, m) ==
  f = [i \in 0..m |-> IF i = 0 THEN nodes ELSE HashLayer(f[i - 1], c, i - 1)]

LEMMA LayersExist ==
  ASSUME NEW nodes, NEW c, NEW n \in Nat
  PROVE  \E f : Layered(f, nodes, c, n)
<1> DEFINE T == {m \in Nat : ~ \E f : Layered(f, nodes, c, m)}
<1> SUFFICES ASSUME T # {} PROVE FALSE  OBVIOUS
<1>1. PICK m \in T : \A y \in T : m <= y
  <2>1. T \subseteq Nat  OBVIOUS
  <2> QED  BY <2>1, LeastNumber
<1>2. CASE m = 0
  <2> PICK f : f = [i \in 0..0 |-> nodes]  OBVIOUS
  <2>1. f = [i \in 0..0 |-> IF i = 0 THEN nodes ELSE HashLayer(f[i - 1], c, i - 1)]
    <3>1. \A i \in 0..0 : i = 0  OBVIOUS
    <3> QED  BY <3>1
  <2> QED  BY <1>2, <2>1 DEF Layered
<1>3. CASE m # 0
  <2>1. m \in Nat /\ m - 1 \in Nat /\ m - 1 \notin T  BY <1>1, <1>3
  <2>2. PICK g : Layered(g, nodes, c, m - 1)  BY <2>1
  <2> PICK f : f = [i \in 0..m |-> IF i = m THEN HashLayer(g[m - 1], c, m - 1) ELSE g[i]]  OBVIOUS
  <2>3. g = [i \in 0..(m - 1) |-> IF i = 0 THEN nodes ELSE HashLayer(g[i - 1], c, i - 1)]
    BY <2>2 DEF Layered
  <2>4. \A i \in 0..m : i # m => i \in 0..(m - 1)  BY <2>1
  <2>5. \A i \in 0..m : i # 0 => i - 1 \in 0..m /\ i - 1 # m /\ f[i - 1] = g[i - 1]  BY <2>1
  <2>6. \A i \in 0..m : f[i] = IF i = 0 THEN nodes ELSE HashLayer(f[i - 1], c, i - 1)
    <3> TAKE i \in 0..m
    <3>1. CASE i = m
      <4>1. f[i] = HashLayer(g[m - 1], c, m - 1)  BY <3>1
      <4>2. f[i - 1] = g[m - 1]  BY <3>1, <1>3, <2>5
      <4> QED  BY <4>1, <4>2, <3>1, <1>3
    <3>2. CASE i # m
      <4>1. f[i] = g[i] /\ i \in 0..(m - 1)  BY <3>2, <2>4
      <4>2. g[i] = IF i = 0 THEN nodes ELSE HashLayer(g[i - 1], c, i - 1)  BY <4>1, <2>3
      <4>3. i # 0 => f[i - 1] = g[i - 1]  BY <2>5
      <4> QED  BY <4>1, <4>2, <4>3
    <3> QED  BY <3>1, <3>2
  <2>7. f = [i \in 0..m |-> IF i = 0 THEN nodes ELSE HashLayer(f[i - 1], c, i - 1)]
    <3>1. f = [i \in 0..m |-> f[i]]  OBVIOUS
    <3> QED  BY <2>6, <3>1
  <2> QED  BY <2>7 DEF Layered
<1> QED  BY <1>2, <1>3

\* The tree of some leaves, as root() leaves it.
LEMMA TreeComputed ==
  ASSUME NEW leaves, NEW n \in Nat, n # 0, n = Len(leaves)
  PROVE  LET t0 == FromLeaves(leaves)
             t == EnsureComputed(t0)
         IN  /\ t0.count = n /\ t.count = n /\ t.computed = TRUE /\ t0.nodes[1] = leaves[1]
             /\ n # 1 => HashedUpTo(t.nodes, leaves, n, Log2Ceil(n))
<1> PICK h, N, t0, t : h = Log2Ceil(n) /\ N = TotalNodes(n) /\ t0 = FromLeaves(leaves) /\ t = EnsureComputed(t0)  OBVIOUS
<1> PICK nodes : nodes = [k \in 1..N |-> IF k <= n THEN leaves[k] ELSE ZERO]  OBVIOUS
<1>1. t0 = [nodes |-> nodes, count |-> n, computed |-> FALSE]  BY Zenon DEF FromLeaves
<1>2. t0.nodes = nodes /\ t0.count = n /\ t0.computed = FALSE  BY <1>1
<1>3. h \in Nat  BY HeightIs
<1>4. n <= N /\ N \in Nat
  <2>1. CASE h = 0
    <3>1. N = LayerOffsets(n)[0] + LayerSizes(n)[0]  BY <2>1 DEF TotalNodes
    <3>2. LayerOffsets(n)[0] = 0  BY OffsetsAre DEF Placed
    <3>3. LayerSizes(n)[0] = n  BY SizesAre DEF Sized
    <3> QED  BY <3>1, <3>2, <3>3
  <2>2. CASE h # 0
    <3>1. 0 \in Nat /\ 0 < h  BY <1>3, <2>2
    <3> PICK x, y : x = LayerOffsets(n)[0 + 1] /\ y = LayerSizes(n)[0 + 1]  OBVIOUS
    <3>2. LayerOffsets(n)[0] \in Nat /\ LayerSizes(n)[0] \in Nat /\ x = LayerOffsets(n)[0] + LayerSizes(n)[0]
          /\ y = (LayerSizes(n)[0] + 1) \div 2 /\ N \in Nat /\ x + y <= N /\ n <= x
      BY <3>1, LayerNumbers
    <3>3. x \in Nat /\ y \in Nat  BY <3>2
    <3> QED  BY <3>2, <3>3
  <2> QED  BY <2>1, <2>2
<1>5. HashedUpTo(nodes, leaves, n, 0)
  <2>1. \A k \in 1..n : k \in 1..N /\ k <= n  BY <1>4
  <2>2. \A k \in 1..n : nodes[k] = leaves[k]  BY <2>1
  <2>3. nodes = [k \in 1..N |-> nodes[k]]  OBVIOUS
  <2>4. \A l \in 0..(0 - 1) : FALSE  OBVIOUS
  <2> QED  BY <2>2, <2>3, <2>4 DEF HashedUpTo
<1>6. nodes[1] = leaves[1]
  <2>1. 1 \in 1..n  OBVIOUS
  <2> QED  BY <1>5, <2>1 DEF HashedUpTo
<1> DEFINE upto == CHOOSE f : f = [l \in 0..Log2Ceil(t0.count) |->
                                   IF l = 0 THEN t0.nodes ELSE HashLayer(f[l - 1], t0.count, l - 1)]
<1>7. /\ upto[0] = nodes
      /\ \A l \in 1..h : upto[l] = HashLayer(upto[l - 1], n, l - 1)
  <2>1. Log2Ceil(t0.count) = h  BY <1>2
  <2>2. PICK f : Layered(f, t0.nodes, t0.count, Log2Ceil(t0.count))  BY <1>3, <2>1, LayersExist
  <2>3. f = [l \in 0..Log2Ceil(t0.count) |-> IF l = 0 THEN t0.nodes ELSE HashLayer(f[l - 1], t0.count, l - 1)]
    BY <2>2 DEF Layered
  <2>4. upto = [l \in 0..Log2Ceil(t0.count) |-> IF l = 0 THEN t0.nodes ELSE HashLayer(upto[l - 1], t0.count, l - 1)]
    BY <2>3
  <2> HIDE DEF upto
  <2>5. \A l \in 0..h : upto[l] = IF l = 0 THEN t0.nodes ELSE HashLayer(upto[l - 1], t0.count, l - 1)
    BY <2>1, <2>4
  <2>6. 0 \in 0..h /\ \A l \in 1..h : l \in 0..h /\ l # 0  BY <1>3
  <2> QED  BY <1>2, <2>5, <2>6
<1>8. t = [nodes |-> IF t0.count <= 1 \/ t0.computed THEN t0.nodes ELSE upto[Log2Ceil(t0.count)],
           count |-> t0.count, computed |-> TRUE]
  BY Zenon DEF EnsureComputed
<1> HIDE DEF upto
<1>9. t.count = n /\ t.computed = TRUE /\ (n # 1 => t.nodes = upto[h])
  <2>1. n # 1 => ~(n <= 1)  OBVIOUS
  <2> QED  BY <1>2, <1>8, <2>1
<1> DEFINE T == {l \in 0..h : HashedUpTo(upto[l], leaves, n, l)}
<1>10. 0 \in T
  <2>1. upto[0] = nodes /\ 0 \in 0..h  BY <1>3, <1>7
  <2> QED  BY <1>5, <2>1
<1>11. ASSUME NEW k \in 1..h, k - 1 \in T PROVE k \in T
  <2> PICK l : l = k - 1  OBVIOUS
  <2>1. l \in Nat /\ l < h /\ k = l + 1 /\ k \in 0..h /\ k # 0  BY <1>3
  <2>2. HashedUpTo(upto[l], leaves, n, l)  BY <1>11
  <2>3. HashedUpTo(HashLayer(upto[l], n, l), leaves, n, l + 1)  BY <2>1, <2>2, LayerHashed
  <2>4. upto[k] = HashLayer(upto[l], n, l)  BY <1>7, <2>1
  <2>5. HashedUpTo(upto[k], leaves, n, k)  BY <2>1, <2>3, <2>4, Zenon
  <2> QED  BY <2>1, <2>5
<1>12. \A l \in 0..h : l \in T
  <2> HIDE DEF T
  <2> QED  BY <1>3, <1>10, <1>11, Upward
<1>13. HashedUpTo(upto[h], leaves, n, h)
  <2>1. h \in 0..h  BY <1>3
  <2> QED  BY <1>12, <2>1
<1> QED  BY <1>2, <1>6, <1>9, <1>13

LEMMA HashInjective ==
  ASSUME NEW x, NEW y, NEW z, HashLeafPairs(x, z) = HashLeafPairs(y, z)
  PROVE  x = y
<1>1. <<"hash", {x, z}>> = <<"hash", {y, z}>>  BY DEF HashLeafPairs
<1>2. {x, z} = {y, z}  BY <1>1
<1> QED  BY <1>2

\* Two leaves with the same proof and the same root are one.
LEMMA OneLeaf ==
  ASSUME NEW m \in Nat, NEW proof, NEW f, NEW g, NEW x, NEW y,
         Rolling(f, x, proof, m), Rolling(g, y, proof, m), f[m] = g[m]
  PROVE  x = y
<1>1. /\ f[0] = x /\ \A k \in 1..m : f[k] = HashLeafPairs(f[k - 1], proof[k])
      /\ g[0] = y /\ \A k \in 1..m : g[k] = HashLeafPairs(g[k - 1], proof[k])
  <2>1. \A k \in 1..m : k \in 0..m /\ k # 0  OBVIOUS
  <2>2. f = [k \in 0..m |-> IF k = 0 THEN x ELSE HashLeafPairs(f[k - 1], proof[k])]  BY DEF Rolling
  <2>3. g = [k \in 0..m |-> IF k = 0 THEN y ELSE HashLeafPairs(g[k - 1], proof[k])]  BY DEF Rolling
  <2>4. f[0] = x /\ \A k \in 1..m : f[k] = HashLeafPairs(f[k - 1], proof[k])  BY <2>1, <2>2
  <2>5. g[0] = y /\ \A k \in 1..m : g[k] = HashLeafPairs(g[k - 1], proof[k])  BY <2>1, <2>3
  <2> QED  BY <2>4, <2>5
<1> DEFINE T == {i \in 0..m : f[m - i] = g[m - i]}
<1>2. 0 \in T  BY m - 0 = m
<1>3. ASSUME NEW i \in 1..m, i - 1 \in T PROVE i \in T
  <2> PICK k : k = m - (i - 1)  OBVIOUS
  <2>1. k \in 1..m /\ k - 1 = m - i /\ i \in 0..m  OBVIOUS
  <2>2. f[k] = g[k]  BY <1>3
  <2>3. HashLeafPairs(f[k - 1], proof[k]) = HashLeafPairs(g[k - 1], proof[k])  BY <1>1, <2>1, <2>2
  <2>4. f[k - 1] = g[k - 1]  BY <2>3, HashInjective
  <2> QED  BY <2>1, <2>4
<1>4. \A i \in 0..m : i \in T
  <2> HIDE DEF T
  <2> QED  BY <1>2, <1>3, Upward
<1>5. m \in 0..m /\ m - m = 0  OBVIOUS
<1>6. f[0] = g[0]  BY <1>4, <1>5
<1> QED  BY <1>1, <1>6

\* A proof has one sibling for each layer below the root.
LEMMA ProofIs ==
  ASSUME NEW t, NEW n \in Nat, t.count = n, NEW index \in Nat
  PROVE  \E at : /\ Halving(at, index, Log2Ceil(n))
                 /\ GenerateProof(t, index) = [l \in 1..Log2Ceil(n) |-> Sibling(t, l - 1, at[l - 1])]
<1> DEFINE h == Log2Ceil(t.count)
           at == CHOOSE g : g = [l \in 0..h |-> IF l = 0 THEN index ELSE g[l - 1] \div 2]
<1>1. GenerateProof(t, index) = [l \in 1..h |-> Sibling(t, l - 1, at[l - 1])]  BY Zenon DEF GenerateProof
<1>2. h \in Nat /\ h = Log2Ceil(n)  BY HeightIs
<1> HIDE DEF h
<1>3. at = [l \in 0..h |-> IF l = 0 THEN index ELSE at[l - 1] \div 2]
  <2>0. \A c \in Nat : c \div 2 \in Nat  OBVIOUS
  <2> PICK steps : steps = [i \in 1..h |-> [c \in Nat |-> c \div 2]]  OBVIOUS
  <2>1. \A i \in 1..h : \A c \in Nat : steps[i][c] = c \div 2  OBVIOUS
  <2>2. Iterable(Nat, h, index, steps)
    <3>1. \A i \in 1..h : \A c \in Nat : steps[i][c] \in Nat  BY <2>0, <2>1, Zenon
    <3> QED  BY <1>2, <3>1, IteratesWithin, Zenon
  <2>3. PICK f \in [0..h -> Nat] : f[0] = index /\ \A i \in 1..h : f[i] = steps[i][f[i - 1]]
    BY <2>2 DEF Iterable
  <2>4. \A i \in 0..h : i # 0 => i \in 1..h /\ i - 1 \in 0..h  BY <1>2
  <2>5. \A i \in 0..h : f[i] = IF i = 0 THEN index ELSE f[i - 1] \div 2  BY <2>1, <2>3, <2>4
  <2>6. f = [i \in 0..h |-> IF i = 0 THEN index ELSE f[i - 1] \div 2]
    <3>1. f = [i \in 0..h |-> f[i]]  BY <2>3
    <3> QED  BY <2>5, <3>1
  <2> QED  BY <2>6
<1> HIDE DEF at
<1>4. at[0] = index /\ \A i \in 1..h : at[i] = at[i - 1] \div 2
  <2>1. \A i \in 1..h : i \in 0..h /\ i # 0  OBVIOUS
  <2> QED  BY <1>2, <1>3, <2>1
<1>5. \A i \in 0..h : at[i] \in Nat
  <2>1. at[0] \in Nat  BY <1>4
  <2>2. ASSUME NEW i \in 1..h, at[i - 1] \in Nat PROVE at[i] \in Nat
    <3>1. at[i] = at[i - 1] \div 2  BY <1>4
    <3> QED  BY <2>2, <3>1
  <2> QED  BY <1>2, <2>1, <2>2, IteratesStay
<1>6. at \in [0..h -> Nat]  BY <1>3, <1>5
<1>7. Halving(at, index, h)  BY <1>4, <1>6 DEF Halving
<1> QED  BY <1>1, <1>2, <1>7

LEMMA ProofLength ==
  ASSUME NEW t, NEW n \in Nat, t.count = n, NEW index \in Nat
  PROVE  Len(GenerateProof(t, index)) = Log2Ceil(n)
<1> PICK h, proof : h = Log2Ceil(n) /\ proof = GenerateProof(t, index)  OBVIOUS
<1>1. PICK at : Halving(at, index, h) /\ proof = [l \in 1..h |-> Sibling(t, l - 1, at[l - 1])]  BY ProofIs
<1>2. h \in Nat  BY HeightIs
<1> PICK S : S = {proof[l] : l \in 1..h}  OBVIOUS
<1>3. proof \in [1..h -> S]  BY <1>1
<1>4. Len(proof) = h  BY <1>2, <1>3
<1> QED  BY <1>4

\* verify_proof rolls a hash along the proof.
LEMMA VerifyIs ==
  ASSUME NEW root, NEW proof, NEW leaf, Len(proof) \in Nat
  PROVE  \E f : Rolling(f, leaf, proof, Len(proof)) /\ (VerifyProof(root, proof, leaf) <=> root = f[Len(proof)])
<1> DEFINE rolling == CHOOSE f : f = [k \in 0..Len(proof) |-> IF k = 0 THEN leaf ELSE HashLeafPairs(f[k - 1], proof[k])]
<1>1. VerifyProof(root, proof, leaf) <=> root = rolling[Len(proof)]  BY Zenon DEF VerifyProof
<1>2. PICK f : Rolling(f, leaf, proof, Len(proof))  BY RollingExists
<1>3. f = [k \in 0..Len(proof) |-> IF k = 0 THEN leaf ELSE HashLeafPairs(f[k - 1], proof[k])]  BY <1>2 DEF Rolling
<1>4. rolling = [k \in 0..Len(proof) |-> IF k = 0 THEN leaf ELSE HashLeafPairs(rolling[k - 1], proof[k])]  BY <1>3
<1> HIDE DEF rolling
<1>5. Rolling(rolling, leaf, proof, Len(proof))  BY <1>4, Zenon DEF Rolling
<1> QED  BY <1>1, <1>5

\* A leaf's proof is good for the leaf and for nothing else.
GoodOnlyFor(t, n, index, leaf) ==
  \A d : VerifyProof(t.nodes[TotalNodes(n)], GenerateProof(t, index), d) <=> d = leaf

LEMMA Verifies ==
  ASSUME NEW n \in Nat, n # 0, NEW t, NEW leaves, t.count = n, HashedUpTo(t.nodes, leaves, n, Log2Ceil(n)),
         NEW index \in 0..(n - 1)
  PROVE  GoodOnlyFor(t, n, index, leaves[index + 1])
<1> SUFFICES ASSUME NEW d
             PROVE  VerifyProof(t.nodes[TotalNodes(n)], GenerateProof(t, index), d) <=> d = leaves[index + 1]
  BY DEF GoodOnlyFor
<1> PICK h, proof, leaf, root : /\ h = Log2Ceil(n) /\ proof = GenerateProof(t, index)
                                /\ leaf = leaves[index + 1] /\ root = t.nodes[TotalNodes(n)]
  OBVIOUS
<1>0. index \in Nat  OBVIOUS
<1>1. h \in Nat  BY HeightIs
<1>2. Len(proof) = h  BY <1>0, ProofLength
<1>3. PICK at : Halving(at, index, h) /\ proof = [l \in 1..h |-> Sibling(t, l - 1, at[l - 1])]  BY <1>0, ProofIs
<1>4. SiblingsAlong(proof, t, at, Log2Ceil(n))  BY <1>3 DEF SiblingsAlong
<1>5. PICK f : Rolling(f, leaf, proof, h)  BY <1>1, RollingExists
<1>6. f[h] = root
  <2>1. Halving(at, index, Log2Ceil(n)) /\ Rolling(f, leaves[index + 1], proof, Log2Ceil(n))  BY <1>3, <1>5
  <2>2. AtRoot(f, t, n)  BY <1>4, <2>1, Climb, Zenon
  <2> QED  BY <2>2 DEF AtRoot
<1>7. PICK g : Rolling(g, d, proof, h) /\ (VerifyProof(root, proof, d) <=> root = g[h])
  BY <1>1, <1>2, VerifyIs
<1>8. ASSUME VerifyProof(root, proof, d) PROVE d = leaf
  <2>1. f[h] = g[h]  BY <1>6, <1>7, <1>8
  <2> QED  BY <1>1, <1>5, <1>7, <2>1, OneLeaf
<1>9. ASSUME d = leaf PROVE VerifyProof(root, proof, d)
  <2>1. Halving(at, index, Log2Ceil(n)) /\ Rolling(g, leaves[index + 1], proof, Log2Ceil(n))  BY <1>3, <1>7, <1>9
  <2>2. AtRoot(g, t, n)  BY <1>4, <2>1, Climb, Zenon
  <2> QED  BY <1>7, <2>2 DEF AtRoot
<1> QED  BY <1>8, <1>9

\* A single leaf is its own root.
LEMMA VerifiesAlone ==
  ASSUME NEW leaf, NEW d
  PROVE  VerifyProof(leaf, <<>>, d) <=> d = leaf
<1>1. Len(<<>>) = 0  OBVIOUS
<1>2. PICK f : Rolling(f, d, <<>>, 0) /\ (VerifyProof(leaf, <<>>, d) <=> leaf = f[0])
  <2>1. Len(<<>>) \in Nat  BY <1>1
  <2> QED  BY <1>1, <2>1, VerifyIs
<1>3. f = [k \in 0..0 |-> IF k = 0 THEN d ELSE HashLeafPairs(f[k - 1], <<>>[k])]  BY <1>2 DEF Rolling
<1>4. f[0] = d
  <2>1. 0 \in 0..0  OBVIOUS
  <2> QED  BY <1>3, <2>1, Zenon
<1> QED  BY <1>2, <1>4

\* root() of a tree, before and after it is computed.
LEMMA RootIs ==
  ASSUME NEW leaves, NEW n \in Nat, n # 0, n = Len(leaves)
  PROVE  LET t0 == FromLeaves(leaves)
             t == AfterRoot(t0)
         IN  /\ t.count = n /\ t # NoTree /\ Root(t) = Root(t0)
             /\ n = 1 => Root(t0) = leaves[1]
             /\ n # 1 => /\ t.computed = TRUE /\ Root(t0) = t.nodes[TotalNodes(n)]
                         /\ HashedUpTo(t.nodes, leaves, n, Log2Ceil(n))
<1> PICK t0, t, u : t0 = FromLeaves(leaves) /\ t = AfterRoot(t0) /\ u = EnsureComputed(t0)  OBVIOUS
<1>1. /\ t0.count = n /\ u.count = n /\ u.computed = TRUE /\ t0.nodes[1] = leaves[1]
      /\ n # 1 => HashedUpTo(u.nodes, leaves, n, Log2Ceil(n))
  BY TreeComputed
<1>2. NoTree.count = 0  BY DEF NoTree
<1>3. CASE n = 1
  <2>1. t = t0  BY <1>1, <1>3 DEF AfterRoot
  <2>2. t.count = n /\ t # NoTree  BY <1>1, <1>2, <2>1
  <2>3. Root(t0) = t0.nodes[1]  BY <1>1, <1>3 DEF Root
  <2> QED  BY <1>1, <1>3, <2>1, <2>2, <2>3
<1>4. CASE n # 1
  <2>1. t = u  BY <1>1, <1>4 DEF AfterRoot
  <2>2. t.count = n /\ t # NoTree  BY <1>1, <1>2, <2>1
  <2>3. Root(t0) = t.nodes[Len(t.nodes)]  BY <1>1, <1>4 DEF Root
  <2>4. EnsureComputed(t).nodes = t.nodes
    <3>1. t.computed = TRUE  BY <1>1, <2>1
    <3> QED  BY <3>1 DEF EnsureComputed
  <2>5. AfterRoot(t) = EnsureComputed(t)  BY <2>2, <1>4 DEF AfterRoot
  <2>6. Root(t) = t.nodes[Len(t.nodes)]
    <3>1. t.count # 1  BY <1>4, <2>2
    <3>2. Root(t) = AfterRoot(t).nodes[Len(AfterRoot(t).nodes)]  BY <3>1 DEF Root
    <3> QED  BY <2>4, <2>5, <3>2, Zenon
  <2>7. Len(t.nodes) = TotalNodes(n)
    <3> PICK N, ns, S : N = TotalNodes(n) /\ ns = t.nodes /\ S = {ns[k] : k \in 1..N}  OBVIOUS
    <3>1. ns = [k \in 1..N |-> ns[k]]  BY <1>1, <1>4, <2>1 DEF HashedUpTo
    <3>2. N \in Nat
      <4>1. N = LayerOffsets(n)[Log2Ceil(n)] + LayerSizes(n)[Log2Ceil(n)]  BY DEF TotalNodes
      <4>2. LayerOffsets(n) \in [0..Log2Ceil(n) -> Nat]  BY OffsetsAre DEF Placed
      <4>3. LayerSizes(n) \in [0..Log2Ceil(n) -> Nat]  BY SizesAre DEF Sized
      <4>4. Log2Ceil(n) \in 0..Log2Ceil(n)  BY HeightIs
      <4>5. LayerOffsets(n)[Log2Ceil(n)] \in Nat /\ LayerSizes(n)[Log2Ceil(n)] \in Nat  BY <4>2, <4>3, <4>4
      <4> QED  BY <4>1, <4>5
    <3>3. ns \in [1..N -> S]  BY <3>1
    <3>4. Len(ns) = N  BY <3>2, <3>3
    <3> QED  BY <3>4
  <2>8. Root(t0) = t.nodes[TotalNodes(n)]  BY <2>3, <2>7, Zenon
  <2>9. Root(t) = Root(t0)  BY <2>3, <2>6
  <2> QED  BY <1>1, <1>4, <2>1, <2>2, <2>8, <2>9
<1> QED  BY <1>3, <1>4

LEMMA LeavesExist ==
  ASSUME MerkleIInv
  PROVE  Len(digests) \in Nat /\ Len(digests) # 0 /\ DOMAIN digests = 1..Len(digests)
<1>1. digests # <<>> /\ digests \in Seq({digests[k] : k \in DOMAIN digests})  BY MerkleAssumption DEF MerkleIInv
<1> QED  BY <1>1

\* What is appended is the last element; the others stay.
Appended(t, s, x) ==
  /\ t \in Seq({t[k] : k \in DOMAIN t})
  /\ DOMAIN s = 1..Len(s) /\ DOMAIN t = 1..Len(t) /\ Len(s) \in Nat /\ Len(t) = Len(s) + 1
  /\ t[Len(t)] = x /\ \A k \in DOMAIN s : t[k] = s[k]

LEMMA AppendsOne ==
  ASSUME NEW s, s \in Seq({s[k] : k \in DOMAIN s}), NEW x
  PROVE  Appended(Append(s, x), s, x)
<1> PICK S, t : S = {s[k] : k \in DOMAIN s} \cup {x} /\ t = Append(s, x)  OBVIOUS
<1>1. s \in Seq(S)
  <2>1. DOMAIN s = 1..Len(s) /\ Len(s) \in Nat  OBVIOUS
  <2>2. s \in [1..Len(s) -> S]  BY <2>1
  <2> QED  BY <2>1, <2>2
<1>2. t \in Seq(S) /\ Len(t) = Len(s) + 1 /\ t[Len(t)] = x /\ \A k \in 1..Len(s) : t[k] = s[k]
  BY <1>1, AppendProperties
<1>3. t \in Seq({t[k] : k \in DOMAIN t}) /\ DOMAIN t = 1..Len(t)  BY <1>2, OwnElements DEF OfItsOwn
<1>4. DOMAIN s = 1..Len(s) /\ Len(s) \in Nat  BY <1>1
<1> QED  BY <1>2, <1>3, <1>4 DEF Appended

LEMMA MerkleStarts ==
  ASSUME MerkleInit
  PROVE  MerkleIInv
<1>1. digests \in Digests /\ simulated = <<>> /\ signedRoot = ZERO /\ tree = NoTree /\ proofs = <<>> /\ panicked = FALSE
  BY DEF MerkleInit
<1>2. \A S : <<>> \in Seq(S) /\ Len(<<>>) = 0 /\ DOMAIN <<>> = {}  OBVIOUS
<1>3. Len(digests) \in Nat
  <2>1. digests \in Seq({digests[k] : k \in DOMAIN digests})  BY <1>1, MerkleAssumption
  <2> QED  BY <2>1
<1>4. SameTree  BY <1>1 DEF SameTree
<1>5. SimulatedFirst  BY <1>1, <1>2, Zenon DEF SimulatedFirst
<1>6. ProofsOfTree
  <2>1. proofs \in Seq({proofs[k] : k \in DOMAIN proofs}) /\ DOMAIN proofs = {} /\ Len(proofs) = 0
    BY <1>1, <1>2, Zenon
  <2>2. Len(proofs) <= Len(digests)  BY <1>3, <2>1
  <2> QED  BY <2>1, <2>2, Zenon DEF ProofsOfTree
<1> QED  BY <1>1, <1>4, <1>5, <1>6 DEF MerkleIInv

\* A mock proof has the length that the real one will have.
LEMMA Simulates ==
  ASSUME MerkleIInv, NEW index, WithMockMerkleSignature(index)
  PROVE  MerkleIInv'
<1>0. Len(digests) \in Nat /\ Len(digests) # 0 /\ DOMAIN digests = 1..Len(digests)  BY LeavesExist
<1>1. /\ signedRoot = ZERO /\ Len(digests) > 1 /\ index = Len(simulated)
      /\ UNCHANGED <<digests, signedRoot, tree, proofs, panicked>>
  BY DEF WithMockMerkleSignature
<1> PICK n : n = Len(digests)  OBVIOUS
<1> PICK leaves : leaves = [k \in DOMAIN digests |-> IF k = index + 1 THEN digests[k] ELSE RANDOM]  OBVIOUS
<1> PICK t : t = EnsureComputed(FromLeaves(leaves))  OBVIOUS
<1> PICK x : x = GenerateProof(t, index)  OBVIOUS
<1>2. simulated' = Append(simulated, x)  BY Zenon DEF WithMockMerkleSignature
<1>3. Len(leaves) = n
  <2> PICK S : S = {leaves[k] : k \in 1..n}  OBVIOUS
  <2>1. leaves \in [1..n -> S]  BY <1>0
  <2> QED  BY <1>0, <2>1
<1>4. t.count = n  BY <1>0, <1>3, TreeComputed
<1>5. simulated \in Seq({simulated[k] : k \in DOMAIN simulated})
      /\ \A k \in DOMAIN simulated : Len(simulated[k]) = Log2Ceil(n)
  BY <1>1 DEF MerkleIInv, SimulatedFirst
<1>6. index \in Nat  BY <1>1, <1>5
<1>7. Len(x) = Log2Ceil(n)  BY <1>0, <1>4, <1>6, ProofLength
<1>8. Appended(simulated', simulated, x)  BY <1>2, <1>5, AppendsOne
<1>9. SimulatedFirst'
  <2>1. \A k \in DOMAIN simulated' : Len(simulated'[k]) = Log2Ceil(n)
    <3> TAKE k \in DOMAIN simulated'
    <3>1. k = Len(simulated') \/ k \in DOMAIN simulated  BY <1>8 DEF Appended
    <3>2. CASE k = Len(simulated')  BY <1>7, <1>8, <3>2 DEF Appended
    <3>3. CASE k \in DOMAIN simulated  BY <1>5, <1>8, <3>3 DEF Appended
    <3> QED  BY <3>1, <3>2, <3>3
  <2>2. simulated' \in Seq({simulated'[k] : k \in DOMAIN simulated'})  BY <1>8 DEF Appended
  <2>3. digests' = digests /\ signedRoot' = ZERO  BY <1>1
  <2> QED  BY <2>1, <2>2, <2>3 DEF SimulatedFirst
<1>10. SameTree'  BY <1>1 DEF MerkleIInv, SameTree
<1>11. ProofsOfTree'  BY <1>1 DEF MerkleIInv, ProofsOfTree
<1> QED  BY <1>1, <1>9, <1>10, <1>11 DEF MerkleIInv

LEMMA Signs ==
  ASSUME MerkleIInv, WithMerklePayload
  PROVE  MerkleIInv'
<1>0. Len(digests) \in Nat /\ Len(digests) # 0  BY LeavesExist
<1>1. /\ signedRoot = ZERO /\ (Len(simulated) = Len(digests) \/ Len(digests) = 1)
      /\ signedRoot' = Root(FromLeaves(digests)) /\ UNCHANGED <<digests, simulated, tree, proofs, panicked>>
  BY DEF WithMerklePayload
<1>2. tree = NoTree  BY <1>1 DEF MerkleIInv, SameTree
<1>3. SameTree'  BY <1>1, <1>2 DEF SameTree
<1>4. SimulatedFirst'
  <2> PICK n : n = Len(digests)  OBVIOUS
  <2>1. n > 1 => n # 1  BY <1>0
  <2> QED  BY <1>1, <2>1 DEF MerkleIInv, SimulatedFirst
<1>5. ProofsOfTree'  BY <1>1 DEF MerkleIInv, ProofsOfTree
<1> QED  BY <1>1, <1>3, <1>4, <1>5 DEF MerkleIInv

LEMMA Bundles ==
  ASSUME MerkleIInv, CreateInteropBundle
  PROVE  MerkleIInv'
<1>1. /\ signedRoot # ZERO /\ tree = NoTree /\ tree' = AfterRoot(FromLeaves(digests))
      /\ UNCHANGED <<digests, simulated, signedRoot, proofs, panicked>>
  BY DEF CreateInteropBundle
<1>2. SameTree'  BY <1>1 DEF MerkleIInv, SameTree
<1>3. SimulatedFirst'  BY <1>1 DEF MerkleIInv, SimulatedFirst
<1>4. ProofsOfTree'
  <2>1. \A k \in DOMAIN proofs : FALSE  BY <1>1 DEF MerkleIInv, ProofsOfTree
  <2>2. proofs \in Seq({proofs[k] : k \in DOMAIN proofs}) /\ Len(proofs) <= Len(digests)  BY DEF MerkleIInv, ProofsOfTree
  <2> QED  BY <1>1, <2>1, <2>2 DEF ProofsOfTree
<1> QED  BY <1>1, <1>2, <1>3, <1>4 DEF MerkleIInv

\* A tree of several leaves is computed before its first proof.
LEMMA Proves ==
  ASSUME MerkleIInv, NEW index, GetProofImmutable(index)
  PROVE  MerkleIInv'
<1>0. Len(digests) \in Nat /\ Len(digests) # 0  BY LeavesExist
<1>1. /\ tree # NoTree /\ index = Len(proofs) /\ index < Len(digests)
      /\ UNCHANGED <<digests, simulated, signedRoot, tree>>
  BY DEF GetProofImmutable
<1> PICK x : x = IF Len(digests) = 1 THEN <<>> ELSE GenerateProof(tree, index)  OBVIOUS
<1>2. Len(digests) = 1 \/ tree.computed
  <2>1. tree = AfterRoot(FromLeaves(digests))  BY <1>1 DEF MerkleIInv, SameTree
  <2>2. Len(digests) # 1 => tree.computed = TRUE  BY <1>0, <2>1, RootIs
  <2> QED  BY <2>2
<1>3. proofs' = Append(proofs, x) /\ panicked' = panicked
  <2>1. CASE Len(digests) = 1
    <3>1. x = <<>>  BY <2>1
    <3> QED  BY <2>1, <3>1 DEF GetProofImmutable
  <2>2. CASE Len(digests) # 1
    <3>1. x = GenerateProof(tree, index) /\ tree.computed  BY <1>2, <2>2
    <3> QED  BY <2>2, <3>1 DEF GetProofImmutable
  <2> QED  BY <2>1, <2>2
<1>4. proofs \in Seq({proofs[k] : k \in DOMAIN proofs})  BY DEF MerkleIInv, ProofsOfTree
<1>5. Appended(proofs', proofs, x)  BY <1>3, <1>4, AppendsOne
<1>6. ProofsOfTree'
  <2>1. proofs' \in Seq({proofs'[k] : k \in DOMAIN proofs'})  BY <1>5 DEF Appended
  <2>2. Len(proofs') <= Len(digests)  BY <1>0, <1>1, <1>5 DEF Appended
  <2>3. ASSUME NEW k \in DOMAIN proofs'
        PROVE  proofs'[k] = IF Len(digests) = 1 THEN <<>> ELSE GenerateProof(tree, k - 1)
    <3>1. k = Len(proofs') \/ k \in DOMAIN proofs  BY <1>5 DEF Appended
    <3>2. CASE k = Len(proofs')
      <4>1. proofs'[k] = x /\ k - 1 = index  BY <1>1, <1>5, <3>2 DEF Appended
      <4> QED  BY <4>1, Zenon
    <3>3. CASE k \in DOMAIN proofs
      <4>1. proofs'[k] = proofs[k]  BY <1>5, <3>3 DEF Appended
      <4>2. proofs[k] = IF Len(digests) = 1 THEN <<>> ELSE GenerateProof(tree, k - 1)
        BY <3>3, Zenon DEF MerkleIInv, ProofsOfTree
      <4> QED  BY <4>1, <4>2
    <3> QED  BY <3>1, <3>2, <3>3
  <2>4. tree' = tree /\ digests' = digests  BY <1>1
  <2> QED  BY <1>1, <2>1, <2>2, <2>3, <2>4 DEF ProofsOfTree
<1>7. SameTree'  BY <1>1 DEF MerkleIInv, SameTree
<1>8. SimulatedFirst'  BY <1>1 DEF MerkleIInv, SimulatedFirst
<1> QED  BY <1>1, <1>3, <1>6, <1>7, <1>8 DEF MerkleIInv

LEMMA MerkleNextKeeps ==
  ASSUME MerkleIInv, [MerkleNext]_merkleVars
  PROVE  MerkleIInv'
<1>1. CASE WithMerklePayload  BY <1>1, Signs
<1>2. CASE CreateInteropBundle  BY <1>2, Bundles
<1>3. ASSUME NEW index \in 0..Len(digests), WithMockMerkleSignature(index) PROVE MerkleIInv'  BY <1>3, Simulates
<1>4. ASSUME NEW index \in 0..Len(digests), GetProofImmutable(index) PROVE MerkleIInv'  BY <1>4, Proves
<1>5. CASE UNCHANGED merkleVars
  <2>1. UNCHANGED <<digests, simulated, signedRoot, tree, proofs, panicked>>  BY <1>5 DEF merkleVars
  <2>2. SameTree'  BY <2>1 DEF MerkleIInv, SameTree
  <2>3. SimulatedFirst'  BY <2>1 DEF MerkleIInv, SimulatedFirst
  <2>4. ProofsOfTree'  BY <2>1 DEF MerkleIInv, ProofsOfTree
  <2> QED  BY <2>1, <2>2, <2>3, <2>4 DEF MerkleIInv
<1> QED  BY <1>1, <1>2, <1>3, <1>4, <1>5 DEF MerkleNext

LEMMA MerkleIInvImplies ==
  ASSUME MerkleIInv
  PROVE  ProofsVerify
<1> PICK n, leaves, t : n = Len(digests) /\ leaves = digests /\ t = tree  OBVIOUS
<1>0. n \in Nat /\ n # 0 /\ n = Len(leaves)  BY LeavesExist
<1>1. ~panicked  BY DEF MerkleIInv
<1> PICK t0 : t0 = FromLeaves(leaves)  OBVIOUS
<1>2. t # NoTree => t = AfterRoot(t0) /\ signedRoot = Root(t0)  BY DEF MerkleIInv, SameTree
<1>3. t # NoTree =>
        /\ t.count = n /\ Root(t) = Root(t0)
        /\ n = 1 => Root(t0) = leaves[1]
        /\ n # 1 => Root(t0) = t.nodes[TotalNodes(n)] /\ HashedUpTo(t.nodes, leaves, n, Log2Ceil(n))
  BY <1>0, <1>2, RootIs
<1>4. t # NoTree => Root(t) = signedRoot  BY <1>2, <1>3
<1>5. ASSUME NEW k \in DOMAIN proofs
      PROVE  /\ \A d : VerifyProof(signedRoot, proofs[k], d) <=> d = leaves[k]
             /\ n > 1 => Len(proofs[k]) = Len(simulated[k])
  <2>1. t # NoTree /\ proofs[k] = IF n = 1 THEN <<>> ELSE GenerateProof(t, k - 1)  BY DEF MerkleIInv, ProofsOfTree
  <2>2. k \in 1..n
    <3>1. proofs \in Seq({proofs[j] : j \in DOMAIN proofs}) /\ Len(proofs) <= n  BY DEF MerkleIInv, ProofsOfTree
    <3>2. Len(proofs) \in Nat /\ DOMAIN proofs = 1..Len(proofs)  BY <3>1
    <3> QED  BY <1>0, <3>1, <3>2
  <2>3. CASE n = 1
    <3>1. k = 1 /\ ~(n > 1)  BY <2>2, <2>3
    <3>2. proofs[k] = <<>> /\ signedRoot = leaves[k]  BY <1>2, <1>3, <2>1, <2>3, <3>1
    <3> QED  BY <3>1, <3>2, VerifiesAlone
  <2>4. CASE n # 1
    <3> PICK index : index = k - 1  OBVIOUS
    <3>1. index \in 0..(n - 1) /\ index \in Nat /\ index + 1 = k /\ n > 1  BY <1>0, <2>2, <2>4
    <3>2. proofs[k] = GenerateProof(t, index) /\ signedRoot = t.nodes[TotalNodes(n)]  BY <1>2, <1>3, <2>1, <2>4
    <3>3. \A d : VerifyProof(t.nodes[TotalNodes(n)], GenerateProof(t, index), d) <=> d = leaves[index + 1]
      <4>1. t.count = n /\ HashedUpTo(t.nodes, leaves, n, Log2Ceil(n))  BY <1>3, <2>1, <2>4
      <4>2. GoodOnlyFor(t, n, index, leaves[index + 1])  BY <1>0, <3>1, <4>1, Verifies
      <4> QED  BY <4>2, Zenon DEF GoodOnlyFor
    <3>4. Len(proofs[k]) = Log2Ceil(n)
      <4>1. t.count = n  BY <1>3, <2>1
      <4>2. Len(GenerateProof(t, index)) = Log2Ceil(n)  BY <1>0, <3>1, <4>1, ProofLength
      <4> QED  BY <3>2, <4>2
    <3>5. Len(simulated[k]) = Log2Ceil(n)
      <4>1. signedRoot # ZERO  BY <2>1 DEF MerkleIInv, SameTree
      <4>2. /\ simulated \in Seq({simulated[j] : j \in DOMAIN simulated}) /\ Len(simulated) = n
            /\ \A j \in DOMAIN simulated : Len(simulated[j]) = Log2Ceil(n)
        BY <3>1, <4>1 DEF MerkleIInv, SimulatedFirst
      <4>3. DOMAIN simulated = 1..n  BY <4>2
      <4> QED  BY <2>2, <4>2, <4>3
    <3>6. \A d : VerifyProof(signedRoot, proofs[k], d) <=> d = leaves[k]  BY <3>1, <3>2, <3>3, Zenon
    <3> QED  BY <3>4, <3>5, <3>6
  <2> QED  BY <2>3, <2>4
<1> QED  BY <1>1, <1>4, <1>5, Zenon DEF ProofsVerify

\* However many intents a quote has, each one's proof is accepted under the root that its
\* user signed, though the relay builds the tree once for the quote and again for the
\* bundle (with_merkle_payload, create_interop_bundle), and is accepted for no other
\* intent; it is as long as the mock proof with which the intent was simulated.
THEOREM ProofsAlwaysVerify == MerkleSpec => []ProofsVerify
<1>1. MerkleInit => MerkleIInv  BY MerkleStarts
<1>2. MerkleIInv /\ [MerkleNext]_merkleVars => MerkleIInv'  BY MerkleNextKeeps
<1>3. MerkleIInv => ProofsVerify  BY MerkleIInvImplies
<1> QED  BY <1>1, <1>2, <1>3, PTL DEF MerkleSpec

==============================================================================
