----------------------------- MODULE RelayProofs -----------------------------
(***************************************************************************)
(* The parts of the relay around its core, one section each: the fees of a *)
(* transaction, its submission, the watches for its receipt, the tokens of *)
(* requests, the contacts of accounts, the price oracle, the calls of a    *)
(* request with the status that is told of them, the sponsoring of gas,    *)
(* the pre-calls of accounts, the asset diffs of a bundle, and the         *)
(* metadata of its assets.  Each section proves that the inductive         *)
(* invariant of the component's module holds, and from it the property     *)
(* that the module states.                                                 *)
(***************************************************************************)
EXTENDS Fees, Transport, Monitor, Auth, Contacts, Prices, RelayCalls, Sponsorship, Accounts,
        AssetDiffs, AssetInfo, FiniteSetTheorems, SequenceTheorems, WellFoundedInduction, TLAPS

-----------------------------------------------------------------------------
(* Fees *)

LEMMA FeeContextType ==
  ASSUME NEW b \in BaseFees, NEW r \in Rewards
  PROVE  FeeContext(b, r) \in [base : Nat, tip : Nat]
  BY AmountsAssumption DEF FeeContext, Larger

\* Percentages round down, and ten percent of at least ten is at least one.
LEMMA RaisedBound ==
  ASSUME NEW x \in Nat, NEW p \in {10, 20}
  PROVE  /\ Raised(x, p) \in Nat /\ Raised(x, p) >= x
         /\ x >= 10 => Raised(x, p) > x
<1> DEFINE y == x * (100 + p)
<1>1. /\ y \in Nat /\ y \div 100 \in Int
      /\ 100 * (y \div 100) <= y /\ y < 100 * (y \div 100) + 100
  BY SMT
<1>2. y >= 110 * x /\ y \in Nat
  BY SMT
<1>3. Raised(x, p) = y \div 100
  BY DEF Raised
<1> HIDE DEF y
<1> QED
  BY <1>1, <1>2, <1>3, SMT

LEMMA RaisedMonotone ==
  ASSUME NEW x \in Nat, NEW y \in Nat, x <= y
  PROVE  Raised(x, 10) <= Raised(y, 10)
<1> PICK a \in Nat : a = x * 110
  OBVIOUS
<1> PICK b \in Nat : b = y * 110
  OBVIOUS
<1>1. a <= b
  OBVIOUS
<1>2. /\ a \div 100 \in Int /\ 100 * (a \div 100) <= a /\ a < 100 * (a \div 100) + 100
      /\ b \div 100 \in Int /\ 100 * (b \div 100) <= b /\ b < 100 * (b \div 100) + 100
  BY SMT
<1>3. Raised(x, 10) = a \div 100 /\ Raised(y, 10) = b \div 100
  BY DEF Raised
<1> QED
  BY <1>1, <1>2, <1>3, SMT

\* A first envelope pays the base fee of its block, within the quote's ceiling.
LEMMA NewFees ==
  ASSUME NEW ctx \in [base : Nat, tip : Nat], NEW max \in Nat, max >= ctx.base
  PROVE  LET f == FeesForNewTransaction(ctx, max)
         IN  f \in [max : Nat, tip : Nat] /\ ctx.base <= f.max /\ f.tip <= f.max /\ f.max <= max
<1> DEFINE raised == Raised(ctx.base, BASE_FEE_DELTA)
<1>1. raised \in Nat /\ raised >= ctx.base
  BY RaisedBound DEF BASE_FEE_DELTA
<1> HIDE DEF raised
<1>2. FeesForNewTransaction(ctx, max) =
        [max |-> Smaller(max, raised + ctx.tip), tip |-> Smaller(ctx.tip, Smaller(max, raised + ctx.tip))]
  BY DEF FeesForNewTransaction, raised
<1> QED
  BY <1>1, <1>2 DEF Smaller

\* A replacement that the ceiling can afford pays the base fee too, and the pool accepts it.
LEMMA BumpedFees ==
  ASSUME NEW ctx \in [base : Nat, tip : Nat], NEW tx \in [max : Nat, tip : Nat], NEW max \in Nat,
         tx.tip <= tx.max, ~CantAffordReplacement(tx, max), max >= ctx.base
  PROVE  LET f == ReplacementFees(ctx, tx, max)
         IN  /\ f \in [max : Nat, tip : Nat] /\ ctx.base <= f.max /\ f.tip <= f.max /\ f.max <= max
             /\ tx.tip >= 10 => Accepts(tx, f)
<1> DEFINE base == Raised(ctx.base, BASE_FEE_DELTA)
           least == Raised(tx.max, MIN_GAS_PRICE_BUMP)
           leastTip == Raised(tx.tip, MIN_GAS_PRICE_BUMP)
           increase == IF ShouldBumpPriorityFee(ctx, tx) THEN ctx.tip - tx.tip ELSE 0
           bestMax == (IF ShouldBumpBaseFee(ctx, tx) THEN base ELSE tx.max) + increase
           newMax == Smaller(Larger(bestMax, least), max)
           newTip == Smaller(Larger(tx.tip + increase, leastTip), newMax)
<1>1. base \in Nat /\ base >= ctx.base
  BY RaisedBound DEF BASE_FEE_DELTA
<1>2. least \in Nat /\ least >= tx.max /\ (tx.max >= 10 => least > tx.max)
  BY RaisedBound DEF MIN_GAS_PRICE_BUMP
<1>3. leastTip \in Nat /\ leastTip >= tx.tip /\ (tx.tip >= 10 => leastTip > tx.tip)
  BY RaisedBound DEF MIN_GAS_PRICE_BUMP
<1>4. leastTip <= least
  BY RaisedMonotone DEF MIN_GAS_PRICE_BUMP
<1>5. least <= max
  BY <1>2 DEF CantAffordReplacement
<1>6. ReplacementFees(ctx, tx, max) = [max |-> newMax, tip |-> newTip]
  BY DEF ReplacementFees
<1>7. increase \in Nat
  <2>1. leastTip = Raised(tx.tip, PRIORITY_FEE_THRESHOLD)
    BY DEF MIN_GAS_PRICE_BUMP, PRIORITY_FEE_THRESHOLD
  <2> HIDE DEF leastTip
  <2> QED
    BY <1>3, <2>1 DEF ShouldBumpPriorityFee
<1>8. bestMax \in Nat /\ ctx.base <= bestMax
  <2> HIDE DEF base, increase
  <2> QED
    BY <1>1, <1>7 DEF ShouldBumpBaseFee
<1>9. newMax \in Nat /\ least <= newMax /\ ctx.base <= newMax /\ newMax <= max
  <2> HIDE DEF bestMax, least
  <2> QED
    BY <1>2, <1>5, <1>8 DEF Smaller, Larger
<1>10. newTip \in Nat /\ leastTip <= newTip /\ newTip <= newMax
  <2> HIDE DEF increase, leastTip, least, newMax
  <2> QED
    BY <1>2, <1>3, <1>4, <1>7, <1>9 DEF Smaller, Larger
<1>11. tx.tip >= 10 => Accepts(tx, [max |-> newMax, tip |-> newTip])
  <2> HIDE DEF newMax, newTip, least, leastTip
  <2>1. tx.tip >= 10 => newMax > tx.max /\ newMax >= least /\ newTip > tx.tip /\ newTip >= leastTip
    BY <1>2, <1>3, <1>9, <1>10
  <2> QED
    BY <2>1, Zenon DEF Accepts, least, leastTip
<1> HIDE DEF newMax, newTip
<1> QED
  BY <1>6, <1>9, <1>10, <1>11

LEMMA FeeStep ==
  ASSUME FeeIInv, [FeeNext]_feeVars
  PROVE  FeeIInv'
<1> USE DEF FeeIInv
<1>1. CASE UNCHANGED feeVars
  BY <1>1 DEF feeVars, FeeTypeOK, FeesReplaceable
<1>2. ASSUME NEW b \in BaseFees, NEW r \in Rewards, Market(b, r)
      PROVE  FeeIInv'
  BY <1>2, FeeContextType DEF Market, FeeTypeOK, FeesReplaceable
<1>3. CASE SendNew
  <2>1. CASE ceiling < market.base
    BY <1>3, <2>1 DEF SendNew, FeeTypeOK, FeesReplaceable
  <2>2. CASE ~(ceiling < market.base)
    <3> PICK f : f = FeesForNewTransaction(market, ceiling)
      OBVIOUS
    <3>1. f \in [max : Nat, tip : Nat] /\ market.base <= f.max /\ f.tip <= f.max /\ f.max <= ceiling
      BY <2>2, NewFees DEF FeeTypeOK
    <3>2. sent' = <<f>> /\ seen' = <<market.base>> /\ UNCHANGED <<market, ceiling>>
      BY <1>3, <2>2 DEF SendNew
    <3> QED
      BY <3>1, <3>2 DEF FeeTypeOK, FeesReplaceable
  <2> QED
    BY <2>1, <2>2
<1>4. CASE Replace
  <2> PICK f : f = ReplacementFees(market, Best, ceiling)
    OBVIOUS
  <2> PICK n \in Nat : n = Len(sent)
    BY DEF FeeTypeOK
  <2>1. n > 0 /\ n \in DOMAIN sent /\ DOMAIN sent = 1..n /\ DOMAIN seen = 1..n /\ Best = sent[n]
    BY <1>4 DEF Replace, FeeTypeOK, Best
  <2>2. Best \in [max : Nat, tip : Nat] /\ Best.tip <= Best.max
    <3>1. sent[n] \in [max : Nat, tip : Nat]
      <4>1. sent \in Seq([max : Nat, tip : Nat]) /\ n \in 1..Len(sent)
        BY <2>1 DEF FeeTypeOK
      <4> QED
        BY <4>1, ElementOfSeq, Zenon
    <3>2. sent[n].tip <= sent[n].max
      BY <2>1, Zenon DEF FeesReplaceable
    <3> QED
      BY <2>1, <3>1, <3>2, Zenon
  <2>3. /\ f \in [max : Nat, tip : Nat] /\ market.base <= f.max /\ f.tip <= f.max /\ f.max <= ceiling
        /\ sent[n].tip >= 10 => Accepts(sent[n], f)
    BY <1>4, <2>1, <2>2, BumpedFees DEF Replace, FeeTypeOK
  <2>4. sent' = Append(sent, f) /\ seen' = Append(seen, market.base) /\ UNCHANGED <<market, ceiling>>
    BY <1>4 DEF Replace
  <2>5. FeeTypeOK'
    BY <2>3, <2>4 DEF FeeTypeOK
  <2>6. /\ DOMAIN sent' = 1..(n + 1) /\ sent'[n + 1] = f /\ seen'[n + 1] = market.base
        /\ \A i \in 1..n : sent'[i] = sent[i] /\ seen'[i] = seen[i]
    BY <2>1, <2>3, <2>4 DEF FeeTypeOK
  <2>7. \A i \in DOMAIN sent' :
          seen'[i] <= sent'[i].max /\ sent'[i].tip <= sent'[i].max /\ sent'[i].max <= ceiling'
    BY <2>1, <2>3, <2>4, <2>6 DEF FeesReplaceable
  <2>8. ASSUME NEW i \in DOMAIN sent' \ {1}, sent'[i - 1].tip >= 10
        PROVE  Accepts(sent'[i - 1], sent'[i])
    <3>1. CASE i = n + 1
      BY <2>1, <2>3, <2>6, <2>8, <3>1
    <3>2. CASE i # n + 1
      <4>1. i \in 1..n /\ i - 1 \in 1..n
        BY <2>6, <3>2
      <4> QED
        BY <2>1, <2>6, <2>8, <4>1 DEF FeesReplaceable
    <3> QED
      BY <3>1, <3>2
  <2> QED
    BY <2>5, <2>7, <2>8 DEF FeesReplaceable
<1>5. CASE GiveUp
  BY <1>5 DEF GiveUp, FeeTypeOK, FeesReplaceable
<1> QED
  BY <1>1, <1>2, <1>3, <1>4, <1>5 DEF FeeNext

\* Whatever the base fees, tips and ceilings are, every envelope pays the base fee at
\* which it was made within the quote's ceiling, and the pool accepts each replacement
\* of an envelope whose tip is ten wei or more.
THEOREM EnvelopesReplaceable == FeeSpec => []FeesReplaceable
<1>1. FeeInit => FeeIInv
  BY FeeContextType, AmountsAssumption DEF FeeInit, FeeIInv, FeeTypeOK, FeesReplaceable
<1>2. FeeIInv /\ [FeeNext]_feeVars => FeeIInv'
  BY FeeStep
<1>3. FeeIInv => FeesReplaceable
  BY DEF FeeIInv
<1> QED
  BY <1>1, <1>2, <1>3, PTL DEF FeeSpec

-----------------------------------------------------------------------------
(* Submission *)

\* The first wave of calls goes where the layer sends the method.
LEMMA CalledTargets ==
  ASSUME TransportTypeOK, NEW method \in {"raw", "other"}
  PROVE  LET cs == Called(Targets(method))
         IN  /\ cs \in [Endpoints -> {"idle", "called", "received", "answered", "dropped"}]
             /\ method = "other" => \A e \in Endpoints \ {Node} : cs[e] = "idle"
             /\ method = "raw" /\ layer = "delegates" =>
                  /\ cs[Sequencer] = "idle" /\ cs[Node] = "idle"
                  /\ \A e \in RawDelegates : cs[e] = "called"
  BY DelegatesAssumption DEF TransportTypeOK, Called, Targets, Endpoints, Node, Sequencer

\* What a layer keeps of the answers is a success if it had or gets one.
LEMMA AnswerKept ==
  ASSUME NEW res \in Outcomes \cup {"none"}, NEW out \in Outcomes
  PROVE  /\ MulticastAnswer(res, out) \in Outcomes
         /\ MulticastAnswer(res, out) = "ok" <=> res = "ok" \/ out = "ok"
         /\ SequencerAnswer(res, out) \in Outcomes
         /\ SequencerAnswer(res, out) = "ok" <=> res = "ok" \/ out = "ok"
  BY DEF Outcomes, MulticastAnswer, SequencerAnswer, Failed

LEMMA EndpointAnswersStep ==
  ASSUME TransportIInv, NEW e \in Endpoints, NEW out \in Outcomes, EndpointAnswers(e, out)
  PROVE  TransportIInv'
<1> DEFINE multicast == layer = "delegates" /\ e \in RawDelegates
           cs == [calls EXCEPT ![e] = "answered"]
           res == IF multicast THEN MulticastAnswer(rpc.res, out) ELSE SequencerAnswer(rpc.res, out)
           ended == Awaited(cs) = {} \/ (~multicast /\ out = "ok")
<1>1. /\ rpc.phase \in {"first", "fallback"} /\ calls[e] \in {"called", "received"}
      /\ calls' = IF ended THEN DropCalls(cs) ELSE cs
      /\ rpc' = [rpc EXCEPT !.res = res, !.phase = IF ended THEN "answered" ELSE @]
      /\ accepted' = IF out = "ok" THEN accepted \cup {e} ELSE accepted
      /\ UNCHANGED <<layer, received, tries>>
  BY Zenon DEF EndpointAnswers
<1>2. /\ res \in Outcomes
      /\ res = "ok" <=> rpc.res = "ok" \/ out = "ok"
  BY AnswerKept DEF TransportIInv, TransportTypeOK
<1>3. /\ rpc'.method = rpc.method /\ rpc'.res = res
      /\ rpc'.phase = IF ended THEN "answered" ELSE rpc.phase
      /\ rpc' \in [method : {"none", "raw", "other", "chain_id"}, res : Outcomes \cup {"none"},
                   phase : {"new", "first", "fallback", "answered", "done", "timeout"}]
  BY <1>1, <1>2 DEF TransportIInv, TransportTypeOK
<1>4. /\ calls' \in [Endpoints -> {"idle", "called", "received", "answered", "dropped"}]
      /\ calls'[e] = "answered"
      /\ \A f \in Endpoints \ {e} :
           /\ calls'[f] = calls[f] \/ (ended /\ calls[f] \in {"called", "received"} /\ calls'[f] = "dropped")
           /\ ended /\ calls[f] \in {"called", "received"} => calls'[f] = "dropped"
  BY <1>1 DEF TransportIInv, TransportTypeOK, DropCalls
<1>5. ended /\ ~(~multicast /\ out = "ok") => \A f \in Endpoints \ {e} : calls'[f] = calls[f] /\ calls[f] \notin {"called", "received"}
  <2> SUFFICES ASSUME Awaited(cs) = {}, ended
               PROVE  \A f \in Endpoints \ {e} : calls'[f] = calls[f] /\ calls[f] \notin {"called", "received"}
    OBVIOUS
  <2>1. \A f \in Endpoints \ {e} : calls[f] \notin {"called", "received"}
    BY DEF Awaited, TransportIInv, TransportTypeOK
  <2> QED
    BY <1>4, <2>1
<1> HIDE DEF multicast, cs, res, ended
<1>6. TransportTypeOK'
  BY <1>1, <1>3, <1>4 DEF TransportIInv, TransportTypeOK
<1>7. AnswerTrue'
  <2>1. rpc.method # "chain_id" /\ (rpc.res = "ok" <=> accepted # {})
    BY <1>1 DEF TransportIInv, AnswerTrue, OnlyMeant
  <2>2. rpc'.res = "ok" <=> accepted' # {}
    BY <1>1, <1>2, <1>3, <2>1
  <2> QED
    BY <2>2 DEF AnswerTrue
<1>8. rpc.method \in {"raw", "other"} /\ rpc'.method = rpc.method /\ rpc'.phase \in {"first", "fallback", "answered"}
  BY <1>1, <1>3 DEF TransportIInv, OnlyMeant
<1>9. OnlyMeant'
  <2>1. rpc.method = "other" => e = Node
    BY <1>1 DEF TransportIInv, OnlyMeant
  <2> QED
    BY <1>1, <1>4, <1>8, <2>1 DEF TransportIInv, OnlyMeant
<1>10. DelegatesFirst'
  <2> SUFFICES ASSUME rpc.method = "raw", layer = "delegates"
               PROVE  DelegatesFirst'
    BY <1>1, <1>8 DEF DelegatesFirst
  <2>1. /\ Node \in Endpoints /\ Sequencer \in Endpoints /\ RawDelegates \subseteq Endpoints
        /\ Node \notin RawDelegates /\ Sequencer \notin RawDelegates /\ Node # Sequencer
    BY DelegatesAssumption DEF Endpoints, Node, Sequencer
  <2>2. /\ calls[Sequencer] = "idle"
        /\ rpc.phase = "first" =>
             calls[Node] = "idle" /\ \A f \in RawDelegates : calls[f] \in {"called", "received", "answered"}
        /\ rpc.phase = "fallback" => \A f \in RawDelegates : calls[f] = "answered"
        /\ calls[Node] # "idle" => accepted \subseteq {Node}
    BY DEF TransportIInv, DelegatesFirst
  <2>3. CASE rpc.phase = "first"
    <3>1. e # Node /\ e # Sequencer /\ e \in RawDelegates
      BY <1>1, <2>2, <2>3 DEF Endpoints
    <3>2. calls'[Sequencer] = "idle" /\ calls'[Node] = "idle"
      BY <1>4, <2>1, <2>2, <2>3, <3>1
    <3>3. rpc'.phase = "first" => \A f \in RawDelegates : calls'[f] \in {"called", "received", "answered"}
      <4>1. rpc'.phase = "first" => ~ended
        BY <1>3
      <4> QED
        BY <1>4, <2>1, <2>2, <2>3, <4>1
    <3>4. rpc'.phase # "first" => \A f \in RawDelegates : calls'[f] = "answered"
      <4>1. rpc'.phase # "first" => ended
        BY <1>3, <2>3
      <4>2. multicast
        BY <3>1 DEF multicast
      <4> QED
        BY <1>4, <1>5, <2>1, <2>2, <2>3, <4>1, <4>2
    <3> QED
      BY <3>2, <3>3, <3>4, <1>1, <1>8 DEF DelegatesFirst
  <2>4. CASE rpc.phase = "fallback"
    <3>1. e = Node
      BY <1>1, <2>2, <2>4 DEF Endpoints
    <3>2. calls'[Sequencer] = "idle" /\ \A f \in RawDelegates : calls'[f] = "answered"
      BY <1>4, <2>1, <2>2, <2>4, <3>1
    <3>3. accepted' \subseteq {Node}
      BY <1>1, <2>2, <3>1
    <3>4. rpc'.phase # "first"
      BY <1>3, <2>4
    <3> QED
      BY <3>2, <3>3, <3>4 DEF DelegatesFirst
  <2> QED
    BY <1>1, <2>3, <2>4
<1> QED
  BY <1>6, <1>7, <1>9, <1>10 DEF TransportIInv

LEMMA TransportStep ==
  ASSUME TransportIInv, [TransportNext]_transportVars
  PROVE  TransportIInv'
<1> USE DEF TransportIInv
<1>0. /\ Node \in Endpoints /\ Sequencer \in Endpoints /\ RawDelegates \subseteq Endpoints
      /\ Node \notin RawDelegates /\ Sequencer \notin RawDelegates /\ Node # Sequencer
  BY DelegatesAssumption DEF Endpoints, Node, Sequencer
<1>1. CASE UNCHANGED transportVars
  BY <1>1 DEF transportVars, TransportTypeOK, AnswerTrue, OnlyMeant, DelegatesFirst
<1>2. ASSUME NEW method \in {"raw", "other", "chain_id"}, CallTransport(method)
      PROVE  TransportIInv'
  <2>1. rpc.phase = "new" /\ rpc.method = "none" /\ received = {} /\ accepted = {}
        /\ \A e \in Endpoints : calls[e] = "idle"
    BY <1>2 DEF CallTransport, OnlyMeant
  <2>2. CASE method = "chain_id"
    BY <1>2, <2>1, <2>2 DEF CallTransport, TransportTypeOK, AnswerTrue, OnlyMeant, DelegatesFirst, Outcomes
  <2>3. CASE method # "chain_id"
    <3>1. /\ calls' = Called(Targets(method)) /\ rpc' = [method |-> method, phase |-> "first", res |-> "none"]
          /\ UNCHANGED <<layer, received, accepted, tries>>
      BY <1>2, <2>3 DEF CallTransport
    <3> QED
      BY <2>1, <2>3, <3>1, CalledTargets DEF TransportTypeOK, AnswerTrue, OnlyMeant, DelegatesFirst
  <2> QED
    BY <2>2, <2>3
<1>3. ASSUME NEW e \in Endpoints, Receive(e)
      PROVE  TransportIInv'
  <2>1. /\ calls' = [calls EXCEPT ![e] = IF @ = "called" THEN "received" ELSE @]
        /\ received' = received \cup {e} /\ UNCHANGED <<layer, rpc, accepted, tries>>
        /\ calls[e] # "idle"
    BY <1>3 DEF Receive
  <2>2. TransportTypeOK'
    BY <2>1 DEF TransportTypeOK
  <2>3. \A f \in Endpoints : calls'[f] = calls[f] \/ (calls[f] = "called" /\ calls'[f] = "received")
    BY <2>1 DEF TransportTypeOK
  <2>4. AnswerTrue'
    BY <2>1 DEF AnswerTrue
  <2>5. OnlyMeant'
    <3>1. rpc.method \notin {"none", "chain_id"} /\ (rpc.method = "other" => e = Node)
      BY <2>1 DEF OnlyMeant
    <3> QED
      BY <2>1, <2>3, <3>1 DEF OnlyMeant
  <2>6. DelegatesFirst'
    BY <1>0, <2>1, <2>3 DEF DelegatesFirst
  <2> QED
    BY <2>2, <2>4, <2>5, <2>6
<1>4. ASSUME NEW e \in Endpoints, NEW out \in Outcomes, EndpointAnswers(e, out)
      PROVE  TransportIInv'
  BY <1>4, EndpointAnswersStep
<1>5. CASE Fallback
  <2>1. /\ rpc.phase = "answered" /\ rpc.method = "raw" /\ layer = "delegates" /\ rpc.res = "err" /\ calls[Node] = "idle"
        /\ calls' = [calls EXCEPT ![Node] = "called"]
        /\ rpc' = [rpc EXCEPT !.phase = "fallback", !.res = "none"]
        /\ UNCHANGED <<layer, received, accepted, tries>>
    BY <1>5 DEF Fallback, FallsBack
  <2>2. rpc'.phase = "fallback" /\ rpc'.res = "none" /\ rpc'.method = "raw"
    BY <2>1 DEF TransportTypeOK
  <2>3. TransportTypeOK'
    BY <2>1 DEF TransportTypeOK
  <2>4. accepted = {}
    BY <2>1 DEF AnswerTrue
  <2>5. /\ calls'[Node] = "called" /\ \A f \in Endpoints \ {Node} : calls'[f] = calls[f]
    BY <1>0, <2>1 DEF TransportTypeOK
  <2> QED
    BY <1>0, <2>1, <2>2, <2>3, <2>4, <2>5 DEF AnswerTrue, OnlyMeant, DelegatesFirst
<1>6. CASE Retry
  <2>1. /\ rpc.phase = "answered" /\ rpc.res \in {"rpc", "err"}
        /\ tries' = tries + 1 /\ calls' = Called(Targets(rpc.method))
        /\ rpc' = [rpc EXCEPT !.phase = "first", !.res = "none"]
        /\ UNCHANGED <<layer, received, accepted>>
    BY <1>6 DEF Retry, Finished
  <2>2. rpc.method \in {"raw", "other"}
    BY <2>1 DEF OnlyMeant
  <2>3. rpc'.phase = "first" /\ rpc'.res = "none" /\ rpc'.method = rpc.method
    BY <2>1 DEF TransportTypeOK
  <2>4. TransportTypeOK'
    <3>1. calls' \in [Endpoints -> {"idle", "called", "received", "answered", "dropped"}]
      BY <2>1, <2>2, CalledTargets
    <3>2. rpc' \in [method : {"none", "raw", "other", "chain_id"}, res : Outcomes \cup {"none"},
                    phase : {"new", "first", "fallback", "answered", "done", "timeout"}]
      BY <2>1 DEF TransportTypeOK
    <3>3. tries' \in Nat
      BY <2>1 DEF TransportTypeOK
    <3> QED
      BY <2>1, <3>1, <3>2, <3>3 DEF TransportTypeOK
  <2>5. accepted = {}
    BY <2>1, <2>2 DEF AnswerTrue
  <2> QED
    BY <2>1, <2>2, <2>3, <2>4, <2>5, CalledTargets DEF AnswerTrue, OnlyMeant, DelegatesFirst
<1>7. CASE ReturnAnswer
  <2>1. /\ rpc.phase = "answered" /\ rpc' = [rpc EXCEPT !.phase = "done"]
        /\ UNCHANGED <<layer, calls, received, accepted, tries>>
    BY <1>7 DEF ReturnAnswer, Finished
  <2>2. TransportTypeOK' /\ rpc'.phase = "done" /\ rpc'.res = rpc.res /\ rpc'.method = rpc.method
    BY <2>1 DEF TransportTypeOK
  <2> QED
    BY <2>1, <2>2 DEF AnswerTrue, OnlyMeant, DelegatesFirst
<1>8. CASE Timeout
  <2>1. /\ rpc.phase \in {"first", "fallback", "answered"}
        /\ rpc' = [rpc EXCEPT !.phase = "timeout", !.res = "none"]
        /\ calls' = DropCalls(calls) /\ UNCHANGED <<layer, received, accepted, tries>>
    BY <1>8 DEF Timeout
  <2>2. TransportTypeOK' /\ rpc'.phase = "timeout" /\ rpc'.method = rpc.method
    BY <2>1 DEF TransportTypeOK, DropCalls
  <2>3. \A f \in Endpoints : calls'[f] = "idle" <=> calls[f] = "idle"
    BY <2>1 DEF TransportTypeOK, DropCalls
  <2> QED
    BY <1>0, <2>1, <2>2, <2>3 DEF AnswerTrue, OnlyMeant, DelegatesFirst
<1> QED
  BY <1>1, <1>2, <1>3, <1>4, <1>5, <1>6, <1>7, <1>8 DEF TransportNext

\* Whatever the delegates and however often the layers retry, the relay hears of a success
\* exactly when an endpoint answered with one, and the node is asked about a transaction
\* for delegates only once all of them have failed.
THEOREM SubmissionsAreAccounted == TransportSpec => []SubmissionsAccounted
<1>1. TransportInit => TransportIInv
  BY DEF TransportInit, TransportIInv, TransportTypeOK, AnswerTrue, OnlyMeant, DelegatesFirst, Outcomes, Endpoints
<1>2. TransportIInv /\ [TransportNext]_transportVars => TransportIInv'
  BY TransportStep
<1>3. TransportIInv => SubmissionsAccounted
  BY DEF TransportIInv, AnswerTrue, OnlyMeant, DelegatesFirst, SubmissionsAccounted
<1> QED
  BY <1>1, <1>2, <1>3, PTL DEF TransportSpec

-----------------------------------------------------------------------------
(* Authentication *)

\* A step that replaces one request's record keeps the invariant if the record is right.
LEMMA OneRequest ==
  ASSUME AuthIInv, UNCHANGED <<published, past, rotations, cache, now>>,
         NEW r \in AuthRequests, NEW q \in AuthRequest, request' = [request EXCEPT ![r] = q],
         q.fetched \subseteq past,
         q.steady => q.token.kind = "jwt" /\ q.token.kid \in published,
         q.steady /\ q.phase = "fetched" => q.token.kid \in q.fetched,
         q.steady /\ q.phase = "reread" => q.token.kid \in cache \/ q.crossed,
         q.phase \in {"lookup", "fetched", "reread"} =>
           q.token \in Tokens /\ q.token.kind = "jwt" /\ q.token.eddsa,
         q.phase # "done" => q.sub = NoSub,
         q.phase = "done" /\ q.sub # NoSub =>
           q.token.kind = "dev"
           \/ (q.token.kind = "jwt" /\ q.token.good /\ q.token.eddsa /\ q.token.kid \in past),
         q.phase = "done" /\ q.sub = NoSub /\ q.token.kind = "jwt" /\ q.token.good /\ q.token.eddsa /\ q.steady =>
           q.token.exp <= now \/ q.failed \/ q.crossed
  PROVE  AuthIInv'
<1> USE DEF AuthIInv
<1>1. AuthTypeOK'
  BY DEF AuthTypeOK
<1>2. \A s \in AuthRequests : request'[s] = IF s = r THEN q ELSE request[s]
  BY DEF AuthTypeOK
<1>3. KeysServed'
  BY <1>2 DEF KeysServed
<1>4. SteadyKeys'
  <2> SUFFICES ASSUME NEW s \in AuthRequests
               PROVE  LET p == request'[s]
                      IN  /\ p.steady => p.token.kind = "jwt" /\ p.token.kid \in published
                          /\ p.steady /\ p.phase = "fetched" => p.token.kid \in p.fetched
                          /\ p.steady /\ p.phase = "reread" => p.token.kid \in cache \/ p.crossed
    BY DEF SteadyKeys
  <2> QED
    BY <1>2 DEF SteadyKeys
<1>5. LookupsOfJwts'
  BY <1>2 DEF LookupsOfJwts
<1>6. TokensJudgedRight'
  <2> SUFFICES ASSUME NEW s \in AuthRequests, request'[s].phase = "done"
               PROVE  LET t == request'[s].token
                      IN  IF request'[s].sub # NoSub
                          THEN t.kind = "dev" \/ (t.kind = "jwt" /\ t.good /\ t.eddsa /\ t.kid \in past)
                          ELSE t.kind = "jwt" /\ t.good /\ t.eddsa /\ request'[s].steady =>
                                 t.exp <= now \/ request'[s].failed \/ request'[s].crossed
    BY DEF TokensJudgedRight
  <2>1. CASE s = r
    BY <1>2, <2>1
  <2>2. CASE s # r
    BY <1>2, <2>2, Zenon DEF TokensJudgedRight
  <2> QED
    BY <2>1, <2>2
<1> QED
  BY <1>1, <1>3, <1>4, <1>5, <1>6

\* The checks find a subject for a good token that has not expired, and only then.
LEMMA CheckedToken ==
  ASSUME NEW t \in Tokens, t.kind = "jwt"
  PROVE  /\ Checked(t) \in Subjects
         /\ Checked(t) # NoSub => t.good
         /\ Checked(t) = NoSub /\ t.good => ~(t.exp > now)
  BY TokensAssumption DEF Checked, Subjects

LEMMA CallStep ==
  ASSUME AuthIInv, NEW r \in AuthRequests, NEW t \in Tokens, Call(r, t)
  PROVE  AuthIInv'
<1> DEFINE asked == [request[r] EXCEPT !.token = t, !.steady = t.kind = "jwt" /\ t.kid \in published]
<1>1. request \in [AuthRequests -> AuthRequest] /\ request[r] \in AuthRequest /\ request[r].fetched \subseteq past
      /\ request[r].sub = NoSub
  BY DEF AuthIInv, AuthTypeOK, KeysServed, LookupsOfJwts, Call
<1>2. /\ asked \in AuthRequest /\ asked.token = t /\ asked.fetched = request[r].fetched /\ asked.sub = NoSub
      /\ asked.steady => t.kind = "jwt" /\ t.kid \in published
  BY <1>1 DEF AuthRequest
<1>3. UNCHANGED <<published, past, rotations, cache, now>>
  BY DEF Call
<1>4. t.kind \in {"none", "dev", "jwt"} /\ (t.kind # "none" => t.sub # NoSub /\ t.sub \in Subjects)
  BY TokensAssumption DEF Subjects
<1>5. CASE t.kind = "none"
  <2> DEFINE q == [asked EXCEPT !.phase = "done"]
  <2>1. request' = [request EXCEPT ![r] = q]
    BY <1>1, <1>5 DEF Call, AuthRequest
  <2>2. /\ q \in AuthRequest /\ q.phase = "done" /\ q.token = t /\ q.fetched = request[r].fetched
        /\ q.steady = asked.steady /\ q.sub = asked.sub
    BY <1>2 DEF AuthRequest
  <2> HIDE DEF q, asked
  <2> QED
    BY <1>1, <1>2, <1>3, <1>5, <2>1, <2>2, OneRequest
<1>6. CASE t.kind = "dev"
  <2> DEFINE q == [asked EXCEPT !.phase = "done", !.sub = t.sub]
  <2>1. request' = [request EXCEPT ![r] = q]
    BY <1>1, <1>6 DEF Call, AuthRequest
  <2>2. /\ q \in AuthRequest /\ q.phase = "done" /\ q.token = t /\ q.fetched = request[r].fetched
        /\ q.steady = asked.steady /\ q.sub = t.sub
    BY <1>2, <1>4, <1>6 DEF AuthRequest
  <2> HIDE DEF q, asked
  <2> QED
    BY <1>1, <1>2, <1>3, <1>4, <1>6, <2>1, <2>2, OneRequest
<1>7. CASE t.kind = "jwt"
  <2> DEFINE q == [asked EXCEPT !.phase = IF t.eddsa THEN "lookup" ELSE "done"]
  <2>1. request' = [request EXCEPT ![r] = q]
    BY <1>1, <1>7 DEF Call, AuthRequest
  <2>2. /\ q \in AuthRequest /\ q.phase = (IF t.eddsa THEN "lookup" ELSE "done") /\ q.token = t
        /\ q.fetched = request[r].fetched /\ q.steady = asked.steady /\ q.sub = asked.sub
    BY <1>2 DEF AuthRequest
  <2> HIDE DEF q, asked
  <2> QED
    BY <1>1, <1>2, <1>3, <1>7, <2>1, <2>2, OneRequest
<1> QED
  BY <1>4, <1>5, <1>6, <1>7

\* The steps of a lookup.
LEMMA LookupStep ==
  ASSUME AuthIInv, NEW r \in AuthRequests, KeyFound(r) \/ FetchKeys(r) \/ FetchFails(r) \/ KeyMissing(r)
  PROVE  AuthIInv'
<1> PICK p \in AuthRequest : p = request[r]
  BY DEF AuthIInv, AuthTypeOK
<1>1. request \in [AuthRequests -> AuthRequest] /\ p.fetched \subseteq past /\ published \subseteq past /\ cache \subseteq past
      /\ published \subseteq Kids
  BY DEF AuthIInv, AuthTypeOK, KeysServed
<1>2. UNCHANGED <<published, past, rotations, cache, now>> /\ p.phase \in {"lookup", "reread"}
  BY DEF KeyFound, FetchKeys, FetchFails, KeyMissing
<1>3. p.token \in Tokens /\ p.token.kind = "jwt" /\ p.token.eddsa /\ p.sub = NoSub
  BY <1>2 DEF AuthIInv, LookupsOfJwts
<1>4. /\ p.steady => p.token.kid \in published
      /\ p.steady /\ p.phase = "reread" => p.token.kid \in cache \/ p.crossed
  BY DEF AuthIInv, SteadyKeys
<1>5. NoSub \in Subjects /\ p.token.exp \in Nat /\ now \in Nat
  BY <1>3, TokensAssumption DEF Subjects, AuthIInv, AuthTypeOK
<1>6. CASE KeyFound(r)
  <2> PICK sub : sub = Checked(p.token)
    OBVIOUS
  <2> DEFINE q == [p EXCEPT !.phase = "done", !.sub = sub]
  <2>1. request' = [request EXCEPT ![r] = q] /\ p.token.kid \in cache
    BY <1>1, <1>6 DEF KeyFound, Answer, AuthRequest
  <2>2. sub \in Subjects /\ (sub # NoSub => p.token.good) /\ (sub = NoSub /\ p.token.good => p.token.exp <= now)
    BY <1>3, <1>5, CheckedToken
  <2>3. /\ q \in AuthRequest /\ q.phase = "done" /\ q.token = p.token /\ q.fetched = p.fetched
        /\ q.steady = p.steady /\ q.sub = sub
    BY <2>2 DEF AuthRequest
  <2> HIDE DEF q
  <2> QED
    BY <1>1, <1>2, <1>3, <1>4, <2>1, <2>2, <2>3, OneRequest
<1>7. CASE FetchKeys(r)
  <2> DEFINE q == [p EXCEPT !.phase = "fetched", !.fetched = published]
  <2>1. request' = [request EXCEPT ![r] = q]
    BY <1>1, <1>7 DEF FetchKeys, AuthRequest
  <2>2. /\ q \in AuthRequest /\ q.phase = "fetched" /\ q.token = p.token /\ q.fetched = published
        /\ q.steady = p.steady /\ q.sub = p.sub
    BY <1>1 DEF AuthRequest
  <2> HIDE DEF q
  <2> QED
    BY <1>1, <1>2, <1>3, <1>4, <2>1, <2>2, OneRequest
<1>8. CASE FetchFails(r)
  <2> DEFINE q == [p EXCEPT !.phase = "done", !.sub = NoSub, !.failed = TRUE]
  <2>1. request' = [request EXCEPT ![r] = q]
    BY <1>1, <1>8 DEF FetchFails, Answer, AuthRequest
  <2>2. /\ q \in AuthRequest /\ q.phase = "done" /\ q.token = p.token /\ q.fetched = p.fetched
        /\ q.steady = p.steady /\ q.sub = NoSub /\ q.failed
    BY <1>5 DEF AuthRequest
  <2> HIDE DEF q
  <2> QED
    BY <1>1, <1>2, <1>3, <1>4, <2>1, <2>2, OneRequest
<1>9. CASE KeyMissing(r)
  <2> DEFINE q == [p EXCEPT !.phase = "done", !.sub = NoSub]
  <2>1. request' = [request EXCEPT ![r] = q] /\ p.phase = "reread" /\ p.token.kid \notin cache
    BY <1>1, <1>9 DEF KeyMissing, Answer, AuthRequest
  <2>2. /\ q \in AuthRequest /\ q.phase = "done" /\ q.token = p.token /\ q.fetched = p.fetched
        /\ q.steady = p.steady /\ q.sub = NoSub /\ q.crossed = p.crossed
    BY <1>5 DEF AuthRequest
  <2> HIDE DEF q
  <2> QED
    BY <1>1, <1>2, <1>3, <1>4, <2>1, <2>2, OneRequest
<1> QED
  BY <1>6, <1>7, <1>8, <1>9

\* A refresh replaces the cache; whoever was about to read it again is marked as crossed.
LEMMA RefreshStep ==
  ASSUME AuthIInv, NEW r \in AuthRequests, Refresh(r)
  PROVE  AuthIInv'
<1> USE DEF AuthIInv
<1>1. /\ request[r].phase = "fetched" /\ cache' = request[r].fetched
      /\ UNCHANGED <<published, past, rotations, now>>
      /\ request' = [q \in AuthRequests |->
           IF q = r THEN [request[q] EXCEPT !.phase = "reread"]
           ELSE [request[q] EXCEPT !.crossed = @ \/ request[q].phase = "reread"]]
  BY DEF Refresh
<1>2. request'[r] = [request[r] EXCEPT !.phase = "reread"]
  BY <1>1
<1>3. /\ request'[r] \in AuthRequest /\ request'[r].phase = "reread" /\ request'[r].token = request[r].token
      /\ request'[r].fetched = request[r].fetched /\ request'[r].steady = request[r].steady
  BY <1>2 DEF AuthTypeOK, AuthRequest
<1>4. ASSUME NEW s \in AuthRequests, s # r
      PROVE  /\ request'[s] \in AuthRequest
             /\ request'[s].phase = request[s].phase /\ request'[s].token = request[s].token
             /\ request'[s].fetched = request[s].fetched /\ request'[s].sub = request[s].sub
             /\ request'[s].steady = request[s].steady /\ request'[s].failed = request[s].failed
             /\ request'[s].crossed = (request[s].crossed \/ request[s].phase = "reread")
  <2>1. request'[s] = [request[s] EXCEPT !.crossed = @ \/ request[s].phase = "reread"]
    BY <1>1, <1>4
  <2>2. request[s] \in AuthRequest
    BY DEF AuthTypeOK
  <2> QED
    BY <2>1, <2>2 DEF AuthRequest
<1>5. AuthTypeOK'
  <2>1. \A s \in AuthRequests : request'[s] \in AuthRequest
    BY <1>3, <1>4
  <2>2. request' \in [AuthRequests -> AuthRequest]
    BY <1>1, <2>1
  <2>3. cache' \subseteq Kids
    BY <1>1 DEF AuthTypeOK, AuthRequest
  <2> QED
    BY <1>1, <2>2, <2>3 DEF AuthTypeOK
<1>6. KeysServed'
  BY <1>1, <1>3, <1>4 DEF KeysServed
<1>7. SteadyKeys'
  <2> SUFFICES ASSUME NEW s \in AuthRequests
               PROVE  LET p == request'[s]
                      IN  /\ p.steady => p.token.kind = "jwt" /\ p.token.kid \in published
                          /\ p.steady /\ p.phase = "fetched" => p.token.kid \in p.fetched
                          /\ p.steady /\ p.phase = "reread" => p.token.kid \in cache' \/ p.crossed
    BY <1>1 DEF SteadyKeys
  <2>1. CASE s = r
    BY <1>1, <1>3, <2>1 DEF SteadyKeys
  <2>2. CASE s # r
    BY <1>4, <2>2 DEF SteadyKeys
  <2> QED
    BY <2>1, <2>2
<1>8. LookupsOfJwts'
  <2>1. request'[r].sub = request[r].sub
    BY <1>2 DEF AuthTypeOK, AuthRequest
  <2> QED
    BY <1>1, <1>3, <1>4, <2>1 DEF LookupsOfJwts
<1>9. TokensJudgedRight'
  <2> SUFFICES ASSUME NEW s \in AuthRequests, request'[s].phase = "done"
               PROVE  LET t == request'[s].token
                      IN  IF request'[s].sub # NoSub
                          THEN t.kind = "dev" \/ (t.kind = "jwt" /\ t.good /\ t.eddsa /\ t.kid \in past)
                          ELSE t.kind = "jwt" /\ t.good /\ t.eddsa /\ request'[s].steady =>
                                 t.exp <= now \/ request'[s].failed \/ request'[s].crossed
    BY <1>1 DEF TokensJudgedRight
  <2>1. s # r /\ request[s].phase = "done"
    BY <1>3, <1>4
  <2>2. LET t == request[s].token
        IN  IF request[s].sub # NoSub
            THEN t.kind = "dev" \/ (t.kind = "jwt" /\ t.good /\ t.eddsa /\ t.kid \in past)
            ELSE t.kind = "jwt" /\ t.good /\ t.eddsa /\ request[s].steady =>
                   t.exp <= now \/ request[s].failed \/ request[s].crossed
    BY <2>1, Zenon DEF TokensJudgedRight
  <2> QED
    BY <1>4, <2>1, <2>2
<1> QED
  BY <1>5, <1>6, <1>7, <1>8, <1>9

\* A rotation ends the steadiness of whoever's key is no longer served.
LEMMA RotateStep ==
  ASSUME AuthIInv, NEW ks \in SUBSET Kids, Rotate(ks)
  PROVE  AuthIInv'
<1> USE DEF AuthIInv
<1>1. /\ published' = ks /\ past' = past \cup ks /\ rotations' = rotations + 1 /\ UNCHANGED <<cache, now>>
      /\ request' = [r \in AuthRequests |-> [request[r] EXCEPT !.steady = @ /\ request[r].token.kid \in ks]]
  BY DEF Rotate
<1>2. ASSUME NEW s \in AuthRequests
      PROVE  /\ request'[s] \in AuthRequest
             /\ request'[s].phase = request[s].phase /\ request'[s].token = request[s].token
             /\ request'[s].fetched = request[s].fetched /\ request'[s].sub = request[s].sub
             /\ request'[s].crossed = request[s].crossed /\ request'[s].failed = request[s].failed
             /\ request'[s].steady = (request[s].steady /\ request[s].token.kid \in ks)
  <2>1. request'[s] = [request[s] EXCEPT !.steady = @ /\ request[s].token.kid \in ks]
    BY <1>1
  <2>2. request[s] \in AuthRequest
    BY DEF AuthTypeOK
  <2> QED
    BY <2>1, <2>2 DEF AuthRequest
<1>3. AuthTypeOK'
  <2>1. request' \in [AuthRequests -> AuthRequest]
    BY <1>1, <1>2
  <2> QED
    BY <1>1, <2>1 DEF AuthTypeOK
<1>4. KeysServed'
  BY <1>1, <1>2 DEF KeysServed
<1>5. SteadyKeys'
  <2> SUFFICES ASSUME NEW s \in AuthRequests
               PROVE  LET p == request'[s]
                      IN  /\ p.steady => p.token.kind = "jwt" /\ p.token.kid \in ks
                          /\ p.steady /\ p.phase = "fetched" => p.token.kid \in p.fetched
                          /\ p.steady /\ p.phase = "reread" => p.token.kid \in cache \/ p.crossed
    BY <1>1 DEF SteadyKeys
  <2> QED
    BY <1>2 DEF SteadyKeys
<1>6. LookupsOfJwts'
  BY <1>2 DEF LookupsOfJwts
<1>7. TokensJudgedRight'
  <2> SUFFICES ASSUME NEW s \in AuthRequests, request'[s].phase = "done"
               PROVE  LET t == request'[s].token
                      IN  IF request'[s].sub # NoSub
                          THEN t.kind = "dev" \/ (t.kind = "jwt" /\ t.good /\ t.eddsa /\ t.kid \in past \cup ks)
                          ELSE t.kind = "jwt" /\ t.good /\ t.eddsa /\ request'[s].steady =>
                                 t.exp <= now \/ request'[s].failed \/ request'[s].crossed
    BY <1>1 DEF TokensJudgedRight
  <2>1. LET t == request[s].token
        IN  IF request[s].sub # NoSub
            THEN t.kind = "dev" \/ (t.kind = "jwt" /\ t.good /\ t.eddsa /\ t.kid \in past)
            ELSE t.kind = "jwt" /\ t.good /\ t.eddsa /\ request[s].steady =>
                   t.exp <= now \/ request[s].failed \/ request[s].crossed
    BY <1>2, Zenon DEF TokensJudgedRight
  <2> QED
    BY <1>2, <2>1
<1> QED
  BY <1>3, <1>4, <1>5, <1>6, <1>7

LEMMA AuthStep ==
  ASSUME AuthIInv, [AuthNext]_authVars
  PROVE  AuthIInv'
<1>1. CASE UNCHANGED authVars
  BY <1>1 DEF authVars, AuthIInv, AuthTypeOK, KeysServed, SteadyKeys, LookupsOfJwts, TokensJudgedRight
<1>2. CASE AuthTick
  <2>1. now \in Nat /\ now' = now + 1 /\ UNCHANGED <<published, past, rotations, cache, request>>
    BY <1>2 DEF AuthTick, AuthIInv, AuthTypeOK
  <2>2. AuthTypeOK' /\ KeysServed' /\ SteadyKeys' /\ LookupsOfJwts'
    BY <2>1 DEF AuthIInv, AuthTypeOK, KeysServed, SteadyKeys, LookupsOfJwts
  <2>3. ASSUME NEW s \in AuthRequests, request[s].phase = "done", request[s].token.kind = "jwt",
               request[s].token.exp <= now
        PROVE  request[s].token.exp <= now'
    <3>1. request[s].token \in Tokens \cup {[kind |-> "none"]}
      BY DEF AuthIInv, AuthTypeOK, AuthRequest
    <3>2. request[s].token \in Tokens
      BY <2>3, <3>1
    <3>3. request[s].token.exp \in Nat
      BY <2>3, <3>2, TokensAssumption
    <3> QED
      BY <2>1, <2>3, <3>3
  <2>4. TokensJudgedRight'
    BY <2>1, <2>3, Zenon DEF AuthIInv, TokensJudgedRight
  <2> QED
    BY <2>2, <2>4 DEF AuthIInv
<1>3. ASSUME NEW ks \in SUBSET Kids, Rotate(ks) PROVE AuthIInv'
  BY <1>3, RotateStep
<1>4. ASSUME NEW r \in AuthRequests, NEW t \in Tokens, Call(r, t) PROVE AuthIInv'
  BY <1>4, CallStep
<1>5. ASSUME NEW r \in AuthRequests, KeyFound(r) \/ FetchKeys(r) \/ FetchFails(r) \/ KeyMissing(r) PROVE AuthIInv'
  BY <1>5, LookupStep
<1>6. ASSUME NEW r \in AuthRequests, Refresh(r) PROVE AuthIInv'
  BY <1>6, RefreshStep
<1> QED
  BY <1>1, <1>2, <1>3, <1>4, <1>5, <1>6 DEF AuthNext

\* For any keys, tokens and number of requests that rotate, refresh and look up together:
\* a subject is believed only for the developer key or a good token of a key that was
\* served, and a good token of a key that is served all the while is refused only for one
\* of the three reasons that the code has.
THEOREM TokensAreJudgedRight == AuthSpec => []TokensJudgedRight
<1>1. AuthInit => AuthIInv
  <2> SUFFICES ASSUME AuthInit PROVE AuthIInv
    OBVIOUS
  <2>1. Fresh \in AuthRequest
    BY DEF Fresh, AuthRequest, Subjects
  <2>2. /\ published \subseteq Kids /\ past = published /\ rotations = 0 /\ cache = {} /\ now = 0
        /\ request = [r \in AuthRequests |-> Fresh]
    BY DEF AuthInit
  <2>3. AuthTypeOK
    BY <2>1, <2>2 DEF AuthTypeOK
  <2> QED
    BY <2>2, <2>3 DEF AuthIInv, KeysServed, SteadyKeys, LookupsOfJwts, TokensJudgedRight, Fresh
<1>2. AuthIInv /\ [AuthNext]_authVars => AuthIInv'
  BY AuthStep
<1>3. AuthIInv => TokensJudgedRight
  BY DEF AuthIInv
<1> QED
  BY <1>1, <1>2, <1>3, PTL DEF AuthSpec

-----------------------------------------------------------------------------
(* Watches *)

\* A step that changes the record of one watch, and of that not its flashblocks future.
LEMMA OneWatch ==
  ASSUME MonitorIInv, UNCHANGED <<instant, included, requests, pending, reapAt, receiptOf>>,
         NEW w \in Watches, NEW q \in WatchRow, watch' = [watch EXCEPT ![w] = q],
         watch[w].result # "new", q.result # "new",
         q.hash = watch[w].hash, q.future["flash"] = watch[w].future["flash"],
         \A f \in Futures : q.future[f] = "receipt" => q.hash \in included,
         q.result = "receipt" => q.hash \in included,
         q.result = "nothing" => \A f \in Futures : q.future[f] = "nothing"
  PROVE  MonitorIInv'
<1> USE DEF MonitorIInv
<1>1. MonitorTypeOK'
  BY DEF MonitorTypeOK
<1>2. \A v \in Watches : watch'[v] = IF v = w THEN q ELSE watch[v]
  BY DEF MonitorTypeOK
<1>3. OneKeeper'
  BY <1>2 DEF OneKeeper, Queued, Mapped
<1>4. MapKept'
  <2>1. \A x \in pending : x[2] \in Watches
    BY DEF MonitorTypeOK
  <2> QED
    BY <1>2, <2>1 DEF MapKept
<1>5. ReceiptsReal'
  BY <1>2 DEF ReceiptsReal
<1>6. WatchesEnd'
  <2> SUFFICES ASSUME NEW v \in Watches
               PROVE  /\ watch'[v].future["flash"] = "waiting" =>
                           \/ \E i \in DOMAIN requests : requests[i] = v
                           \/ <<watch'[v].hash, v>> \in pending /\ \E x \in reapAt : x[2] = watch'[v].hash
                           \/ v \in receiptOf
                      /\ watch'[v].result = "receipt" => watch'[v].hash \in included
                      /\ watch'[v].result = "nothing" => \A f \in Futures : watch'[v].future[f] = "nothing"
    BY DEF WatchesEnd
  <2>1. CASE v = w
    <3>1. watch'[v] = q
      BY <1>2, <2>1
    <3>2. watch[w].future["flash"] = "waiting" =>
            \/ \E i \in DOMAIN requests : requests[i] = w
            \/ <<watch[w].hash, w>> \in pending /\ \E x \in reapAt : x[2] = watch[w].hash
            \/ w \in receiptOf
      BY DEF WatchesEnd
    <3> QED
      BY <2>1, <3>1, <3>2, Zenon
  <2>2. CASE v # w
    <3>1. watch'[v] = watch[v]
      BY <1>2, <2>2
    <3> QED
      BY <3>1, Zenon DEF WatchesEnd
  <2> QED
    BY <2>1, <2>2
<1> QED
  BY <1>1, <1>3, <1>4, <1>5, <1>6

\* The map and the deadlines that an event leaves to be reaped.
MapReady(pend, reap) ==
  /\ pend \subseteq Hashes \X Watches /\ reap \subseteq Nat \X Hashes
  /\ \A x \in pend : watch[x[2]].hash = x[1] /\ \E y \in reap : y[2] = x[1]

\* After an event a watch that waits is queued, in the map, fetching its receipt or
\* dropped, and no two of these.
EventKeeps(pend, over, queue, fetching) ==
  /\ queue \in Seq(Watches) /\ fetching \subseteq Watches
  /\ \A i, j \in DOMAIN queue : queue[i] = queue[j] => i = j
  /\ \A i \in DOMAIN queue :
       /\ queue[i] \notin over /\ queue[i] \notin fetching /\ \A x \in pend : x[2] # queue[i]
       /\ watch[queue[i]].future["flash"] = "waiting" /\ watch[queue[i]].result # "new"
  /\ \A x \in pend :
       /\ x[2] \notin over /\ x[2] \notin fetching
       /\ watch[x[2]].future["flash"] = "waiting" /\ watch[x[2]].result # "new"
  /\ \A w \in fetching :
       /\ w \notin over /\ watch[w].hash \in included
       /\ watch[w].future["flash"] = "waiting" /\ watch[w].result # "new"
  /\ \A w \in Watches : watch[w].future["flash"] = "waiting" =>
       \/ \E i \in DOMAIN queue : queue[i] = w
       \/ \E x \in pend : x[2] = w
       \/ w \in fetching \/ w \in over

\* The end of each event of the flashblocks watcher.  It reaps the hashes that are due,
\* and drops their watches and those in over; what stays in the map keeps a deadline.
LEMMA ReapStep ==
  ASSUME MonitorIInv, NEW pend, NEW reap, NEW over, ReapTimeouts(pend, reap, over),
         UNCHANGED <<instant, included>>,
         MapReady(pend, reap), EventKeeps(pend, over, requests', receiptOf')
  PROVE  MonitorIInv'
<1> USE DEF MapReady, EventKeeps
<1> DEFINE due == {x[2] : x \in Expired(reap)}
           gone == over \cup {x[2] : x \in {y \in pend : y[1] \in due}}
<1>1. /\ reapAt' = reap \ Expired(reap) /\ pending' = {x \in pend : x[1] \notin due}
      /\ watch' = [w \in Watches |->
           IF w \in gone /\ watch[w].future["flash"] = "waiting" THEN [watch[w] EXCEPT !.future["flash"] = "nothing"]
           ELSE watch[w]]
  BY DEF ReapTimeouts, Dropped
<1>2. \A x \in pend : x[1] \in Hashes /\ x[2] \in Watches /\ x = <<x[1], x[2]>>
  OBVIOUS
<1>3. \A x \in pending' : x \in pend /\ x[1] \notin due /\ \E y \in reapAt' : y[2] = x[1]
  <2> SUFFICES ASSUME NEW x \in pending'
               PROVE  x \in pend /\ x[1] \notin due /\ \E y \in reapAt' : y[2] = x[1]
    OBVIOUS
  <2>1. x \in pend /\ x[1] \notin due
    BY <1>1
  <2> PICK y \in reap : y[2] = x[1]
    BY <2>1
  <2>2. y \notin Expired(reap)
    BY <2>1
  <2> QED
    BY <1>1, <2>1, <2>2
<1>4. \A x \in pend : x[2] \in gone <=> x[1] \in due
  BY <1>2
<1>5. \A x \in pend : x[2] \in gone \/ x \in pending'
  BY <1>1, <1>4
<1>6. \A w \in Watches : w \in gone => w \in over \/ \E x \in pend : x[2] = w
  OBVIOUS
<1> HIDE DEF due, gone
<1>7. ASSUME NEW w \in Watches
      PROVE  /\ watch'[w] \in WatchRow /\ watch'[w].hash = watch[w].hash /\ watch'[w].result = watch[w].result
             /\ \A f \in Futures : f # "flash" => watch'[w].future[f] = watch[w].future[f]
             /\ w \notin gone => watch'[w] = watch[w]
             /\ w \in gone /\ watch[w].future["flash"] = "waiting" => watch'[w].future["flash"] = "nothing"
             /\ watch[w].future["flash"] # "waiting" => watch'[w] = watch[w]
  <2>1. watch[w] \in WatchRow
    BY DEF MonitorIInv, MonitorTypeOK
  <2>2. CASE w \in gone /\ watch[w].future["flash"] = "waiting"
    <3>1. watch'[w] = [watch[w] EXCEPT !.future["flash"] = "nothing"]
      BY <1>1, <2>2
    <3> QED
      BY <2>1, <2>2, <3>1 DEF WatchRow, Futures, FutureStates
  <2>3. CASE ~(w \in gone /\ watch[w].future["flash"] = "waiting")
    <3>1. watch'[w] = watch[w]
      BY <1>1, <2>3
    <3> QED
      BY <2>1, <2>3, <3>1
  <2> QED
    BY <2>2, <2>3
<1>8. MonitorTypeOK'
  <2>1. watch' \in [Watches -> WatchRow]
    BY <1>1, <1>7
  <2>2. pending' \subseteq Hashes \X Watches /\ reapAt' \subseteq Nat \X Hashes
    BY <1>1
  <2> QED
    BY <2>1, <2>2 DEF MonitorIInv, MonitorTypeOK
<1>9. OneKeeper'
  <2>1. ASSUME NEW i \in DOMAIN requests'
        PROVE  /\ requests'[i] \in Watches /\ watch'[requests'[i]] = watch[requests'[i]]
               /\ \A x \in pending' : x[2] # requests'[i]
    <3>1. requests'[i] \in Watches
      OBVIOUS
    <3> QED
      BY <1>3, <1>6, <1>7, <3>1
  <2>2. \A x \in pending' : x[2] \in Watches /\ watch'[x[2]] = watch[x[2]]
    BY <1>2, <1>3, <1>4, <1>7
  <2>3. \A w \in receiptOf' : w \in Watches /\ watch'[w] = watch[w]
    BY <1>6, <1>7
  <2> SUFFICES ASSUME NEW w \in Watches
               PROVE  /\ Queued(w)' => ~Mapped(w)' /\ w \notin receiptOf'
                      /\ Mapped(w)' => w \notin receiptOf'
                      /\ Queued(w)' \/ Mapped(w)' \/ w \in receiptOf' =>
                           watch'[w].future["flash"] = "waiting" /\ watch'[w].result # "new"
    BY DEF OneKeeper
  <2>4. Queued(w)' => /\ ~Mapped(w)' /\ w \notin receiptOf'
                      /\ watch'[w].future["flash"] = "waiting" /\ watch'[w].result # "new"
    BY <2>1 DEF Queued, Mapped
  <2>5. Mapped(w)' => /\ w \notin receiptOf'
                      /\ watch'[w].future["flash"] = "waiting" /\ watch'[w].result # "new"
    BY <1>3, <2>2 DEF Mapped
  <2>6. w \in receiptOf' => watch'[w].future["flash"] = "waiting" /\ watch'[w].result # "new"
    BY <2>3
  <2> QED
    BY <2>4, <2>5, <2>6
<1>10. MapKept'
  BY <1>2, <1>3, <1>7 DEF MapKept
<1>11. ASSUME NEW w \in Watches, NEW f \in Futures
       PROVE  watch'[w].future[f] = watch[w].future[f] \/ watch'[w].future[f] = "nothing"
  <2>1. CASE f # "flash"
    BY <1>7, <2>1
  <2>2. CASE f = "flash"
    BY <1>7, <2>2
  <2> QED
    BY <2>1, <2>2
<1>12. ReceiptsReal'
  <2> SUFFICES ASSUME NEW w \in Watches
               PROVE  /\ w \in receiptOf' => watch'[w].hash \in included
                      /\ \A f \in Futures : watch'[w].future[f] = "receipt" => watch'[w].hash \in included
                      /\ watch'[w].result = "new" => \A f \in Futures : watch'[w].future[f] = "idle"
                      /\ watch'[w].result # "new" => watch'[w].hash \in Hashes
    BY DEF ReceiptsReal
  <2>1. w \in receiptOf' => watch'[w].hash \in included
    BY <1>7
  <2>2. \A f \in Futures : watch'[w].future[f] = "receipt" => watch'[w].hash \in included
    BY <1>7, <1>11 DEF MonitorIInv, ReceiptsReal
  <2>3. watch'[w].result = "new" => \A f \in Futures : watch'[w].future[f] = "idle"
    <3>1. watch[w].result = "new" => \A f \in Futures : watch[w].future[f] = "idle"
      BY DEF MonitorIInv, ReceiptsReal
    <3>2. watch[w].result = "new" => watch[w].future["flash"] # "waiting"
      BY <3>1 DEF Futures
    <3> QED
      BY <1>7, <3>1, <3>2
  <2>4. watch'[w].result # "new" => watch'[w].hash \in Hashes
    BY <1>7 DEF MonitorIInv, ReceiptsReal
  <2> QED
    BY <2>1, <2>2, <2>3, <2>4
<1>13. WatchesEnd'
  <2> SUFFICES ASSUME NEW w \in Watches
               PROVE  /\ watch'[w].future["flash"] = "waiting" =>
                           \/ \E i \in DOMAIN requests' : requests'[i] = w
                           \/ <<watch'[w].hash, w>> \in pending' /\ \E x \in reapAt' : x[2] = watch'[w].hash
                           \/ w \in receiptOf'
                      /\ watch'[w].result = "receipt" => watch'[w].hash \in included
                      /\ watch'[w].result = "nothing" => \A f \in Futures : watch'[w].future[f] = "nothing"
    BY DEF WatchesEnd
  <2>1. watch'[w].result = "receipt" => watch'[w].hash \in included
    BY <1>7 DEF MonitorIInv, WatchesEnd
  <2>2. watch'[w].result = "nothing" => \A f \in Futures : watch'[w].future[f] = "nothing"
    <3>1. watch[w].result = "nothing" => \A f \in Futures : watch[w].future[f] = "nothing"
      BY DEF MonitorIInv, WatchesEnd
    <3> QED
      BY <1>7, <1>11, <3>1
  <2>3. ASSUME watch'[w].future["flash"] = "waiting"
        PROVE  \/ \E i \in DOMAIN requests' : requests'[i] = w
               \/ <<watch'[w].hash, w>> \in pending' /\ \E x \in reapAt' : x[2] = watch'[w].hash
               \/ w \in receiptOf'
    <3>1. watch[w].future["flash"] = "waiting" /\ w \notin gone
      BY <1>7, <2>3
    <3>2. w \notin over
      BY <3>1 DEF gone
    <3>3. CASE \E x \in pend : x[2] = w
      <4> PICK x \in pend : x[2] = w
        BY <3>3
      <4>1. x \in pending' /\ \E y \in reapAt' : y[2] = x[1]
        BY <1>3, <1>5, <3>1
      <4>2. x = <<watch'[w].hash, w>> /\ x[1] = watch'[w].hash
        BY <1>2, <1>7
      <4> QED
        BY <4>1, <4>2
    <3> QED
      BY <3>1, <3>2, <3>3
  <2> QED
    BY <2>1, <2>2, <2>3
<1> QED
  BY <1>8, <1>9, <1>10, <1>12, <1>13 DEF MonitorIInv

LEMMA WatchTransactionStep ==
  ASSUME MonitorIInv, NEW w \in Watches, NEW h \in Hashes, WatchTransaction(w, h)
  PROVE  MonitorIInv'
<1> USE DEF MonitorIInv
<1> PICK q : q = [hash |-> h, result |-> "waiting", future |-> [f \in Futures |-> "waiting"]]
  OBVIOUS
<1>1. /\ watch[w].result = "new" /\ watch' = [watch EXCEPT ![w] = q] /\ requests' = Append(requests, w)
      /\ UNCHANGED <<instant, included, pending, reapAt, receiptOf>>
  BY DEF WatchTransaction
<1>2. q \in WatchRow /\ q.hash = h /\ q.result = "waiting" /\ \A f \in Futures : q.future[f] = "waiting"
  BY DEF WatchRow, FutureStates
<1>3. \A v \in Watches : watch'[v] = IF v = w THEN q ELSE watch[v]
  BY <1>1 DEF MonitorTypeOK
<1>4. ~Queued(w) /\ ~Mapped(w) /\ w \notin receiptOf
  BY <1>1 DEF OneKeeper
<1> PICK n \in Nat : n = Len(requests)
  BY DEF MonitorTypeOK
<1>5. /\ requests' \in Seq(Watches) /\ DOMAIN requests = 1..n /\ DOMAIN requests' = 1..(n + 1)
      /\ requests'[n + 1] = w /\ \A i \in 1..n : requests'[i] = requests[i]
  BY <1>1 DEF MonitorTypeOK
<1>6. \A v \in Watches : Queued(v)' <=> Queued(v) \/ v = w
  <2>1. n + 1 \in DOMAIN requests' /\ \A i \in 1..n : i \in DOMAIN requests'
    BY <1>5
  <2>2. \A i \in DOMAIN requests' : i = n + 1 \/ i \in 1..n
    BY <1>5
  <2> QED
    BY <1>5, <2>1, <2>2, Zenon DEF Queued
<1>7. MonitorTypeOK'
  BY <1>1, <1>2, <1>5 DEF MonitorTypeOK
<1>8. OneKeeper'
  <2>1. ASSUME NEW i \in DOMAIN requests', NEW j \in DOMAIN requests', requests'[i] = requests'[j]
        PROVE  i = j
    <3>1. \A k \in 1..n : requests[k] # w
      BY <1>4, <1>5 DEF Queued
    <3> QED
      BY <1>5, <2>1, <3>1 DEF OneKeeper
  <2>2. ASSUME NEW v \in Watches
        PROVE  /\ Queued(v)' => ~Mapped(v)' /\ v \notin receiptOf'
               /\ Mapped(v)' => v \notin receiptOf'
               /\ Queued(v)' \/ Mapped(v)' \/ v \in receiptOf' =>
                    watch'[v].future["flash"] = "waiting" /\ watch'[v].result # "new"
    <3>1. Mapped(v)' <=> Mapped(v)
      BY <1>1 DEF Mapped
    <3>2. CASE v = w
      BY <1>1, <1>2, <1>3, <1>4, <3>1, <3>2 DEF Futures
    <3>3. CASE v # w
      BY <1>1, <1>3, <1>6, <3>1, <3>3 DEF OneKeeper
    <3> QED
      BY <3>2, <3>3
  <2> QED
    BY <2>1, <2>2 DEF OneKeeper
<1>9. MapKept'
  <2>1. \A x \in pending : x[2] \in Watches /\ x[2] # w
    BY <1>4 DEF MonitorTypeOK, Mapped
  <2> QED
    BY <1>1, <1>3, <2>1 DEF MapKept
<1>10. ReceiptsReal'
  BY <1>1, <1>2, <1>3, <1>4 DEF ReceiptsReal
<1>11. WatchesEnd'
  <2> SUFFICES ASSUME NEW v \in Watches
               PROVE  /\ watch'[v].future["flash"] = "waiting" =>
                           \/ Queued(v)'
                           \/ <<watch'[v].hash, v>> \in pending /\ \E x \in reapAt : x[2] = watch'[v].hash
                           \/ v \in receiptOf
                      /\ watch'[v].result = "receipt" => watch'[v].hash \in included
                      /\ watch'[v].result = "nothing" => \A f \in Futures : watch'[v].future[f] = "nothing"
    BY <1>1 DEF WatchesEnd, Queued
  <2>1. CASE v = w
    BY <1>2, <1>3, <1>6, <2>1
  <2>2. CASE v # w
    <3>1. watch'[v] = watch[v]
      BY <1>3, <2>2
    <3>2. Queued(v) => Queued(v)'
      BY <1>6
    <3> QED
      BY <3>1, <3>2, Zenon DEF WatchesEnd, Queued
  <2> QED
    BY <2>1, <2>2
<1> QED
  BY <1>7, <1>8, <1>9, <1>10, <1>11

\* A node's future ends, or the watch itself.
LEMMA FutureEndsStep ==
  ASSUME MonitorIInv, NEW w \in Watches, NEW f \in Futures, NEW found \in BOOLEAN,
         NodeEnds(w, f) \/ NodeConfirms(w, f, found) \/ WatchReturns(w)
  PROVE  MonitorIInv'
<1> PICK p \in WatchRow : p = watch[w]
  BY DEF MonitorIInv, MonitorTypeOK
<1>1. p.result = "waiting" /\ UNCHANGED <<instant, included, requests, pending, reapAt, receiptOf>>
  BY DEF NodeEnds, NodeConfirms, WatchReturns
<1>2. \A g \in Futures : p.future[g] = "receipt" => p.hash \in included
  BY DEF MonitorIInv, ReceiptsReal
<1>3. ASSUME NodeEnds(w, f) \/ NodeConfirms(w, f, found)
      PROVE  MonitorIInv'
  <2> PICK out \in {"receipt", "nothing"} :
        watch' = [watch EXCEPT ![w].future[f] = out] /\ (out = "receipt" => p.hash \in included) /\ f # "flash"
    BY <1>3 DEF NodeEnds, NodeConfirms
  <2> DEFINE q == [p EXCEPT !.future[f] = out]
  <2>1. watch' = [watch EXCEPT ![w] = q]
    BY DEF WatchRow, MonitorIInv, MonitorTypeOK
  <2>2. /\ q \in WatchRow /\ q.result = p.result /\ q.hash = p.hash /\ q.future["flash"] = p.future["flash"]
        /\ \A g \in Futures : q.future[g] = IF g = f THEN out ELSE p.future[g]
    BY DEF WatchRow, FutureStates, Futures
  <2> HIDE DEF q
  <2>3. \A g \in Futures : q.future[g] = "receipt" => q.hash \in included
    BY <1>2, <2>2
  <2> QED
    BY <1>1, <2>1, <2>2, <2>3, OneWatch
<1>4. CASE WatchReturns(w)
  <2> PICK res : res = Result(p.future)
    OBVIOUS
  <2>1. watch' = [watch EXCEPT ![w].result = res] /\ res # "waiting"
    BY <1>4 DEF WatchReturns
  <2>2. /\ res \in {"receipt", "nothing"}
        /\ res = "receipt" => p.hash \in included
        /\ res = "nothing" => \A g \in Futures : p.future[g] = "nothing"
    BY <1>2, <2>1 DEF Result
  <2> DEFINE q == [p EXCEPT !.result = res]
  <2>3. watch' = [watch EXCEPT ![w] = q]
    BY <2>1 DEF WatchRow, MonitorIInv, MonitorTypeOK
  <2>4. q \in WatchRow /\ q.result = res /\ q.hash = p.hash /\ q.future = p.future
    BY <2>2 DEF WatchRow
  <2> HIDE DEF q
  <2>5. /\ watch[w].result # "new" /\ q.result # "new" /\ q.hash = watch[w].hash
        /\ q.future["flash"] = watch[w].future["flash"]
        /\ \A g \in Futures : q.future[g] = "receipt" => q.hash \in included
        /\ q.result = "receipt" => q.hash \in included
        /\ q.result = "nothing" => \A g \in Futures : q.future[g] = "nothing"
    BY <1>1, <1>2, <2>2, <2>4
  <2> QED
    BY <1>1, <2>3, <2>4, <2>5, OneWatch, Zenon
<1> QED
  BY <1>3, <1>4

LEMMA ReceiptFetchedStep ==
  ASSUME MonitorIInv, NEW w \in Watches, NEW found \in BOOLEAN, ReceiptFetched(w, found)
  PROVE  MonitorIInv'
<1> USE DEF MonitorIInv
<1> PICK out \in {"receipt", "nothing"} : out = IF found THEN "receipt" ELSE "nothing"
  OBVIOUS
<1>1. /\ w \in receiptOf /\ receiptOf' = receiptOf \ {w} /\ watch' = [watch EXCEPT ![w].future["flash"] = out]
      /\ UNCHANGED <<instant, included, requests, pending, reapAt>>
  BY DEF ReceiptFetched
<1>2. /\ ~Queued(w) /\ ~Mapped(w) /\ watch[w].future["flash"] = "waiting" /\ watch[w].result # "new"
      /\ watch[w].hash \in included
  BY <1>1 DEF OneKeeper, ReceiptsReal
<1>3. \A v \in Watches : v # w => watch'[v] = watch[v]
  BY <1>1 DEF MonitorTypeOK
<1>4. /\ watch'[w] \in WatchRow /\ watch'[w].hash = watch[w].hash /\ watch'[w].result = watch[w].result
      /\ watch'[w].future["flash"] = out
  BY <1>1 DEF MonitorTypeOK, WatchRow, FutureStates, Futures
<1>5. MonitorTypeOK'
  <2>1. watch' \in [Watches -> WatchRow]
    BY <1>1, <1>3, <1>4 DEF MonitorTypeOK
  <2> QED
    BY <1>1, <2>1 DEF MonitorTypeOK
<1>6. OneKeeper'
  <2>1. \A v \in Watches : (Queued(v)' <=> Queued(v)) /\ (Mapped(v)' <=> Mapped(v))
    BY <1>1 DEF Queued, Mapped
  <2> QED
    BY <1>1, <1>2, <1>3, <2>1 DEF OneKeeper
<1>7. MapKept'
  <2>1. \A x \in pending : x[2] \in Watches /\ x[2] # w
    BY <1>2 DEF MonitorTypeOK, Mapped
  <2> QED
    BY <1>1, <1>3, <2>1 DEF MapKept
<1>8. ReceiptsReal'
  BY <1>1, <1>2, <1>3, <1>4 DEF ReceiptsReal
<1>9. WatchesEnd'
  <2> SUFFICES ASSUME NEW v \in Watches
               PROVE  /\ watch'[v].future["flash"] = "waiting" =>
                           \/ \E i \in DOMAIN requests : requests[i] = v
                           \/ <<watch'[v].hash, v>> \in pending /\ \E x \in reapAt : x[2] = watch'[v].hash
                           \/ v \in receiptOf'
                      /\ watch'[v].result = "receipt" => watch'[v].hash \in included
                      /\ watch'[v].result = "nothing" => \A f \in Futures : watch'[v].future[f] = "nothing"
    BY <1>1 DEF WatchesEnd
  <2>1. CASE v = w
    <3>1. watch[w].result # "nothing"
      BY <1>2 DEF WatchesEnd, Futures
    <3> QED
      BY <1>2, <1>4, <2>1, <3>1
  <2>2. CASE v # w
    <3>1. watch'[v] = watch[v] /\ (v \in receiptOf => v \in receiptOf')
      BY <1>1, <1>3, <2>2
    <3> QED
      BY <3>1, Zenon DEF WatchesEnd
  <2> QED
    BY <2>1, <2>2
<1> QED
  BY <1>5, <1>6, <1>7, <1>8, <1>9

\* The watcher takes a request: its watch moves from the queue to the map, and the watch
\* that had the hash before is dropped.
LEMMA TakeRequestStep ==
  ASSUME MonitorIInv, TakeRequest
  PROVE  MonitorIInv'
<1> USE DEF MonitorIInv
<1> PICK w \in Watches : w = Head(requests)
  BY DEF TakeRequest, MonitorTypeOK
<1> PICK h : h = watch[w].hash
  OBVIOUS
<1> DEFINE others == {x \in pending : x[1] # h}
<1> PICK pend : pend = others \cup {<<h, w>>}
  OBVIOUS
<1> PICK reap : reap = reapAt \cup {<<instant + WatchWindow, h>>}
  OBVIOUS
<1> PICK over : over = {x[2] : x \in pending \ others}
  OBVIOUS
<1>1. /\ requests # <<>> /\ ReapTimeouts(pend, reap, over) /\ requests' = Tail(requests)
      /\ UNCHANGED <<instant, included, receiptOf>>
  BY DEF TakeRequest
<1> PICK n \in Nat : n = Len(requests)
  BY DEF MonitorTypeOK
<1>2. /\ n > 0 /\ DOMAIN requests = 1..n /\ w = requests[1] /\ requests' \in Seq(Watches)
      /\ DOMAIN requests' = 1..(n - 1) /\ \A i \in 1..(n - 1) : requests'[i] = requests[i + 1]
  BY <1>1 DEF MonitorTypeOK
<1>3. Queued(w)
  BY <1>2 DEF Queued
<1>4. ~Mapped(w) /\ w \notin receiptOf /\ watch[w].future["flash"] = "waiting" /\ watch[w].result # "new"
  BY <1>3 DEF OneKeeper
<1>5. ASSUME NEW i \in DOMAIN requests'
      PROVE  requests'[i] \in Watches /\ Queued(requests'[i]) /\ requests'[i] # w
  <2>1. i + 1 \in DOMAIN requests /\ requests'[i] = requests[i + 1] /\ i + 1 # 1 /\ 1 \in DOMAIN requests
    BY <1>2
  <2> QED
    BY <1>2, <2>1 DEF OneKeeper, Queued
<1>6. \A v \in Watches : Queued(v) => v = w \/ \E i \in DOMAIN requests' : requests'[i] = v
  <2> SUFFICES ASSUME NEW i \in DOMAIN requests, requests[i] # w
               PROVE  \E j \in DOMAIN requests' : requests'[j] = requests[i]
    BY DEF Queued
  <2>1. i - 1 \in DOMAIN requests' /\ requests'[i - 1] = requests[i]
    BY <1>2
  <2> QED
    BY <2>1
<1>7. h \in Hashes
  BY <1>4 DEF ReceiptsReal
<1>8. pend \subseteq Hashes \X Watches /\ reap \subseteq Nat \X Hashes
  BY <1>7, WindowAssumption DEF MonitorTypeOK
<1>9. \A x \in pend : x \in others \/ (x[1] = h /\ x[2] = w)
  OBVIOUS
<1>10. \A x \in pend : watch[x[2]].hash = x[1] /\ \E y \in reap : y[2] = x[1]
  <2>1. <<instant + WatchWindow, h>> \in reap /\ reapAt \subseteq reap
    OBVIOUS
  <2> QED
    BY <1>9, <2>1 DEF MapKept
<1>11. \A v \in over : Mapped(v) /\ watch[v].hash = h
  BY DEF MapKept, Mapped
<1>12. \A i, j \in DOMAIN requests' : requests'[i] = requests'[j] => i = j
  <2> SUFFICES ASSUME NEW i \in DOMAIN requests', NEW j \in DOMAIN requests', requests'[i] = requests'[j]
               PROVE  i = j
    OBVIOUS
  <2>1. i + 1 \in DOMAIN requests /\ j + 1 \in DOMAIN requests /\ requests[i + 1] = requests[j + 1] /\ i \in Nat /\ j \in Nat
    BY <1>2
  <2>2. i + 1 = j + 1
    BY <2>1 DEF OneKeeper
  <2> QED
    BY <2>1, <2>2
<1>13. \A x \in others : Mapped(x[2]) /\ x[2] \in Watches /\ watch[x[2]].hash # h
  BY DEF MonitorTypeOK, Mapped, MapKept
<1>14. \A i \in DOMAIN requests' :
         /\ requests'[i] \notin over /\ requests'[i] \notin receiptOf'
         /\ \A x \in pend : x[2] # requests'[i]
         /\ watch[requests'[i]].future["flash"] = "waiting" /\ watch[requests'[i]].result # "new"
  <2> SUFFICES ASSUME NEW v \in Watches, Queued(v), v # w
               PROVE  /\ v \notin over /\ v \notin receiptOf /\ \A x \in pend : x[2] # v
                      /\ watch[v].future["flash"] = "waiting" /\ watch[v].result # "new"
    BY <1>1, <1>5
  <2>1. ~Mapped(v) /\ v \notin receiptOf /\ watch[v].future["flash"] = "waiting" /\ watch[v].result # "new"
    BY DEF OneKeeper
  <2> QED
    BY <1>9, <1>11, <1>13, <2>1
<1>15. \A x \in pend :
         /\ x[2] \notin over /\ x[2] \notin receiptOf'
         /\ watch[x[2]].future["flash"] = "waiting" /\ watch[x[2]].result # "new"
  <2> SUFFICES ASSUME NEW x \in pend
               PROVE  /\ x[2] \notin over /\ x[2] \notin receiptOf
                      /\ watch[x[2]].future["flash"] = "waiting" /\ watch[x[2]].result # "new"
    BY <1>1
  <2>1. CASE x \in others
    BY <1>11, <1>13, <2>1 DEF OneKeeper
  <2>2. CASE x[2] = w
    BY <1>4, <1>11, <2>2
  <2> QED
    BY <1>9, <2>1, <2>2
<1>16. \A v \in receiptOf' :
         /\ v \notin over /\ watch[v].hash \in included
         /\ watch[v].future["flash"] = "waiting" /\ watch[v].result # "new"
  <2>1. receiptOf' = receiptOf /\ receiptOf \subseteq Watches
    BY <1>1 DEF MonitorTypeOK
  <2> QED
    BY <1>11, <2>1 DEF OneKeeper, ReceiptsReal
<1>17. \A v \in Watches : watch[v].future["flash"] = "waiting" =>
         \/ \E i \in DOMAIN requests' : requests'[i] = v
         \/ \E x \in pend : x[2] = v
         \/ v \in receiptOf' \/ v \in over
  <2> SUFFICES ASSUME NEW v \in Watches, watch[v].future["flash"] = "waiting"
               PROVE  \/ \E i \in DOMAIN requests' : requests'[i] = v
                      \/ \E x \in pend : x[2] = v
                      \/ v \in receiptOf \/ v \in over
    BY <1>1
  <2>1. Queued(v) \/ Mapped(v) \/ v \in receiptOf
    BY DEF WatchesEnd, Queued, Mapped
  <2>2. Mapped(v) => v \in over \/ \E x \in pend : x[2] = v
    BY DEF Mapped
  <2>3. \E x \in pend : x[2] = w
    <3>1. <<h, w>> \in pend /\ <<h, w>>[2] = w
      OBVIOUS
    <3> QED
      BY <3>1, Zenon
  <2> QED
    BY <1>6, <2>1, <2>2, <2>3
<1>18. receiptOf' \subseteq Watches
  BY <1>1 DEF MonitorTypeOK
<1>19. MapReady(pend, reap)
  BY <1>8, <1>10 DEF MapReady
<1>20. EventKeeps(pend, over, requests', receiptOf')
  BY <1>2, <1>12, <1>14, <1>15, <1>16, <1>17, <1>18, Zenon DEF EventKeeps
<1> HIDE DEF MonitorIInv
<1> QED
  BY <1>1, <1>19, <1>20, ReapStep

\* A flashblock moves the watches of its hashes from the map to the fetching tasks; the
\* first deadline only reaps.
LEMMA WatcherStep ==
  ASSUME MonitorIInv, NEW hs \in SUBSET Hashes, Flashblock(hs) \/ SleepUntilFirstDeadline
  PROVE  MonitorIInv'
<1> USE DEF MonitorIInv
<1> PICK hit \in SUBSET pending :
      /\ \A x \in hit : x[1] \in included
      /\ receiptOf' = receiptOf \cup {x[2] : x \in hit} /\ ReapTimeouts(pending \ hit, reapAt, {})
      /\ UNCHANGED <<instant, included, requests>>
  <2>1. CASE Flashblock(hs)
    <3> DEFINE h == {x \in pending : x[1] \in hs}
    <3>1. /\ h \in SUBSET pending /\ \A x \in h : x[1] \in included
          /\ receiptOf' = receiptOf \cup {x[2] : x \in h} /\ ReapTimeouts(pending \ h, reapAt, {})
          /\ UNCHANGED <<instant, included, requests>>
      BY <2>1 DEF Flashblock
    <3> HIDE DEF h
    <3> QED
      BY <3>1, Zenon
  <2>2. CASE SleepUntilFirstDeadline
    <3>1. /\ ReapTimeouts(pending, reapAt, {}) /\ pending \ {} = pending
          /\ receiptOf' = receiptOf \cup {x[2] : x \in {}} /\ UNCHANGED <<instant, included, requests>>
          /\ {} \in SUBSET pending /\ \A x \in {} : x[1] \in included
      BY <2>2 DEF SleepUntilFirstDeadline
    <3> QED
      BY <3>1, Zenon
  <2> QED
    BY <2>1, <2>2
<1> PICK pend : pend = pending \ hit
  OBVIOUS
<1>1. /\ pending \subseteq Hashes \X Watches /\ reapAt \subseteq Nat \X Hashes /\ requests \in Seq(Watches)
      /\ receiptOf \subseteq Watches
  BY DEF MonitorTypeOK
<1>2. \A x \in pending : /\ x[2] \in Watches /\ watch[x[2]].hash = x[1] /\ Mapped(x[2])
                         /\ \E y \in reapAt : y[2] = x[1]
  BY <1>1 DEF MapKept, Mapped
<1>3. MapReady(pend, reapAt)
  BY <1>1, <1>2 DEF MapReady
<1>4. \A v \in Watches : Mapped(v) => ~Queued(v) /\ v \notin receiptOf
                                      /\ watch[v].future["flash"] = "waiting" /\ watch[v].result # "new"
  BY DEF OneKeeper
<1>5. receiptOf' \subseteq Watches
  BY <1>1, <1>2
<1>6. \A x \in pend : x \in pending /\ x[2] \notin receiptOf'
  <2> SUFFICES ASSUME NEW x \in pend
               PROVE  x \in pending /\ x[2] \notin receiptOf'
    OBVIOUS
  <2>1. x \in pending /\ x \notin hit
    OBVIOUS
  <2>2. ASSUME NEW y \in hit, y[2] = x[2]
        PROVE  FALSE
    <3>1. x \in pending /\ y \in pending /\ x # y
      BY <2>1, <2>2, Zenon
    <3>2. watch[x[2]].hash = x[1] /\ watch[y[2]].hash = y[1]
      BY <1>2, <3>1, Zenon
    <3>3. y[1] = x[1]
      BY <2>2, <3>2, Zenon
    <3>4. x \in Hashes \X Watches /\ y \in Hashes \X Watches
      BY <1>1, <3>1, Zenon
    <3>5. y = <<y[1], y[2]>> /\ x = <<x[1], x[2]>>
      BY <3>4
    <3>6. y = x
      BY <2>2, <3>3, <3>5, Zenon
    <3> QED
      BY <3>1, <3>6, Zenon
  <2> QED
    BY <1>2, <1>4, <2>1, <2>2
<1>7. \A i \in DOMAIN requests :
        /\ requests[i] \in Watches /\ Queued(requests[i])
        /\ watch[requests[i]].future["flash"] = "waiting" /\ watch[requests[i]].result # "new"
        /\ requests[i] \notin receiptOf
  <2>1. \A i \in DOMAIN requests : requests[i] \in Watches /\ Queued(requests[i])
    BY <1>1 DEF Queued
  <2> QED
    BY <2>1 DEF OneKeeper
<1>8. \A v \in receiptOf' :
        watch[v].hash \in included /\ watch[v].future["flash"] = "waiting" /\ watch[v].result # "new"
  <2>1. ASSUME NEW v \in receiptOf
        PROVE  watch[v].hash \in included /\ watch[v].future["flash"] = "waiting" /\ watch[v].result # "new"
    BY <1>1 DEF ReceiptsReal, OneKeeper
  <2>2. ASSUME NEW x \in hit
        PROVE  watch[x[2]].hash \in included /\ watch[x[2]].future["flash"] = "waiting" /\ watch[x[2]].result # "new"
    BY <1>2, <1>4
  <2> QED
    BY <2>1, <2>2
<1>9. \A v \in Watches : watch[v].future["flash"] = "waiting" =>
        \/ \E i \in DOMAIN requests : requests[i] = v
        \/ \E x \in pend : x[2] = v
        \/ v \in receiptOf'
  <2> SUFFICES ASSUME NEW v \in Watches, watch[v].future["flash"] = "waiting",
                      ~\E i \in DOMAIN requests : requests[i] = v
               PROVE  v \in receiptOf' \/ \E x \in pend : x[2] = v
    OBVIOUS
  <2>1. v \in receiptOf \/ Mapped(v)
    BY DEF WatchesEnd, Mapped
  <2> QED
    BY <2>1 DEF Mapped
<1>10. EventKeeps(pend, {}, requests', receiptOf')
  <2>1. \A i, j \in DOMAIN requests : requests[i] = requests[j] => i = j
    BY DEF OneKeeper
  <2>2. \A i \in DOMAIN requests : requests[i] \notin receiptOf' /\ \A x \in pend : x[2] # requests[i]
    BY <1>2, <1>4, <1>6, <1>7
  <2>3. \A x \in pend : watch[x[2]].future["flash"] = "waiting" /\ watch[x[2]].result # "new"
    BY <1>2, <1>4, <1>6
  <2>4. EventKeeps(pend, {}, requests, receiptOf')
    BY <1>1, <1>5, <1>6, <1>7, <1>8, <1>9, <2>1, <2>2, <2>3 DEF EventKeeps
  <2> QED
    BY <2>4, Zenon
<1> HIDE DEF MonitorIInv
<1> QED
  BY <1>3, <1>10, ReapStep

LEMMA MonitorStep ==
  ASSUME MonitorIInv, [MonitorNext]_monitorVars
  PROVE  MonitorIInv'
<1>1. CASE UNCHANGED monitorVars
  BY <1>1 DEF monitorVars, MonitorIInv, MonitorTypeOK, OneKeeper, Queued, Mapped, MapKept, ReceiptsReal, WatchesEnd
<1>2. ASSUME NEW w \in Watches, NEW h \in Hashes, WatchTransaction(w, h) PROVE MonitorIInv'
  BY <1>2, WatchTransactionStep
<1>3. ASSUME NEW w \in Watches, NEW f \in Futures, NEW found \in BOOLEAN,
             NodeEnds(w, f) \/ NodeConfirms(w, f, found) \/ WatchReturns(w)
      PROVE  MonitorIInv'
  BY <1>3, FutureEndsStep
<1>4. ASSUME NEW w \in Watches, NEW found \in BOOLEAN, ReceiptFetched(w, found) PROVE MonitorIInv'
  BY <1>4, ReceiptFetchedStep
<1>5. CASE TakeRequest
  BY <1>5, TakeRequestStep
<1>6. ASSUME NEW hs \in SUBSET Hashes, Flashblock(hs) \/ SleepUntilFirstDeadline PROVE MonitorIInv'
  BY <1>6, WatcherStep
<1>7. ASSUME NEW h \in Hashes, Include(h) PROVE MonitorIInv'
  <2>1. /\ included' = included \cup {h}
        /\ UNCHANGED <<instant, watch, requests, pending, reapAt, receiptOf>>
    BY <1>7 DEF Include
  <2>2. MonitorTypeOK' /\ OneKeeper' /\ MapKept'
    BY <2>1 DEF MonitorIInv, MonitorTypeOK, OneKeeper, Queued, Mapped, MapKept
  <2>3. ReceiptsReal'
    BY <2>1 DEF MonitorIInv, ReceiptsReal
  <2>4. WatchesEnd'
    BY <2>1, Zenon DEF MonitorIInv, WatchesEnd
  <2> QED
    BY <2>2, <2>3, <2>4 DEF MonitorIInv
<1>8. CASE MonitorTick
  <2>1. instant' = instant + 1 /\ UNCHANGED <<included, watch, requests, pending, reapAt, receiptOf>>
    BY <1>8 DEF MonitorTick
  <2> QED
    BY <2>1 DEF MonitorIInv, MonitorTypeOK, OneKeeper, Queued, Mapped, MapKept, ReceiptsReal, WatchesEnd
<1>9. "local" \in Futures /\ TRUE \in BOOLEAN /\ {} \in SUBSET Hashes
  BY DEF Futures
<1> QED
  BY <1>1, <1>2, <1>3, <1>4, <1>5, <1>6, <1>7, <1>8, <1>9, Zenon DEF MonitorNext

\* For any number of watches, hashes and deadlines, no watch is forgotten by the
\* flashblocks watcher: while its future waits it is queued, filed under its hash with
\* a deadline, or being fetched; and a watch ends without a receipt only after all three
\* of its futures have, and with one only for a transaction that is in a block.
THEOREM WatchesAllEnd == MonitorSpec => []WatchesEnd
<1>1. MonitorInit => MonitorIInv
  <2> SUFFICES ASSUME MonitorInit PROVE MonitorIInv
    OBVIOUS
  <2>1. Unwatched \in WatchRow /\ Unwatched.result = "new" /\ \A f \in Futures : Unwatched.future[f] = "idle"
    BY DEF Unwatched, WatchRow, FutureStates
  <2>2. /\ instant = 0 /\ included = {} /\ requests = <<>> /\ pending = {} /\ reapAt = {} /\ receiptOf = {}
        /\ watch \in [Watches -> WatchRow] /\ \A w \in Watches : watch[w] = Unwatched
    BY <2>1 DEF MonitorInit
  <2>3. MonitorTypeOK
    BY <2>2 DEF MonitorTypeOK
  <2> QED
    BY <2>1, <2>2, <2>3 DEF MonitorIInv, OneKeeper, Queued, Mapped, MapKept, ReceiptsReal, WatchesEnd, Futures
<1>2. MonitorIInv /\ [MonitorNext]_monitorVars => MonitorIInv'
  BY MonitorStep
<1>3. MonitorIInv => WatchesEnd
  BY DEF MonitorIInv
<1> QED
  BY <1>1, <1>2, <1>3, PTL DEF MonitorSpec

-----------------------------------------------------------------------------
(* Contacts *)

MailAsk == [phase : MailPhases, wallet : Wallets, with : Mails, code : Nat]
PhoneAsk == [phase : PhonePhases, wallet : Wallets, with : Phones, code : Nat]

\* What a request's phase says of its other fields.
LEMMA AskFields ==
  ASSUME ContactTypeOK, NEW r \in ContactAsks
  PROVE  /\ contact[r].phase \in {"new", "done"} \cup MailPhases \cup PhonePhases
         /\ contact[r].phase \in MailPhases => contact[r] \in MailAsk
         /\ contact[r].phase \in PhonePhases => contact[r] \in PhoneAsk
  BY DEF ContactTypeOK, MailPhases, PhonePhases, MailAsk, PhoneAsk

\* A row that is stored has the fields of one.
LEMMA RowFields ==
  ASSUME ContactTypeOK
  PROVE  /\ \A w \in Wallets : emails[w].stored => emails[w] \in EmailRow
         /\ \A k \in Wallets \X Phones : phones[k].stored => phones[k] \in PhoneRow
  BY DEF ContactTypeOK, NoRow

\* The step of one request, which becomes q: what it must keep for the invariant.
AskKept(q) ==
  /\ q.phase = "store_email" => Mail(q.wallet, q.with, q.code) \in mailed'
  /\ q.phase = "update_email" => Mail(q.wallet, q.with, q.code) \in shown'
  /\ q.phase = "right" => <<q.wallet, q.with>> \in approved'

LEMMA AskStep ==
  ASSUME ContactIInv, NEW r \in ContactAsks, NEW q \in [phase : {"new", "done"}] \cup MailAsk \cup PhoneAsk,
         contact' = [contact EXCEPT ![r] = q], AskKept(q),
         mailed \subseteq mailed', shown \subseteq shown', approved \subseteq approved'
  PROVE  /\ contact' \in [ContactAsks -> [phase : {"new", "done"}] \cup MailAsk \cup PhoneAsk]
         /\ \A s \in ContactAsks :
              /\ contact'[s] = IF s = r THEN q ELSE contact[s]
              /\ contact'[s].phase = "store_email" =>
                   Mail(contact'[s].wallet, contact'[s].with, contact'[s].code) \in mailed'
              /\ contact'[s].phase = "update_email" =>
                   Mail(contact'[s].wallet, contact'[s].with, contact'[s].code) \in shown'
              /\ contact'[s].phase = "right" => <<contact'[s].wallet, contact'[s].with>> \in approved'
<1>1. contact \in [ContactAsks -> [phase : {"new", "done"}] \cup MailAsk \cup PhoneAsk]
  BY DEF ContactIInv, ContactTypeOK, MailAsk, PhoneAsk
<1>2. \A s \in ContactAsks : contact'[s] = IF s = r THEN q ELSE contact[s]
  BY <1>1
<1> QED
  BY <1>1, <1>2 DEF AskKept, ContactIInv, TokensMailed, PhonesApproved, KeyOf

\* The onramp is told of marked phones only.
LEMMA PhonesTold ==
  PhonesApproved => \A w \in Wallets : \A p \in OnrampContactInfo(w).phones : <<w, p>> \in approved
  BY DEF PhonesApproved, OnrampContactInfo

\* A verifyPhone request that goes on, or one that comes when there is no other and its
\* row has an attempt left.
AskingAllowed(r, q) ==
  q.phase \in {"check", "wrong", "right"} =>
    \/ Asking(r) /\ q.wallet = contact[r].wallet /\ q.with = contact[r].with
    \/ /\ \A s \in ContactAsks : ~Asking(s)
       /\ phones[<<q.wallet, q.with>>].stored => phones[<<q.wallet, q.with>>].attempts < MaxAttempts

\* A step that writes no row.
LEMMA QuietStep ==
  ASSUME ContactIInv, NEW r \in ContactAsks, NEW q \in [phase : {"new", "done"}] \cup MailAsk \cup PhoneAsk,
         contact' = [contact EXCEPT ![r] = q], AskKept(q),
         mailed \subseteq mailed', shown \subseteq shown', approved \subseteq approved',
         UNCHANGED <<emails, phones>>, issued' \in Nat, texted' \in [Phones -> Nat], raced' \in BOOLEAN,
         raced => raced', ~raced' => AskingAllowed(r, q)
  PROVE  ContactIInv'
<1> USE DEF ContactIInv
<1>1. ContactTypeOK'
  BY AskStep DEF ContactTypeOK, MailAsk, PhoneAsk
<1>2. \A s \in ContactAsks : contact'[s] = IF s = r THEN q ELSE contact[s]
  BY AskStep
<1>3. TokensMailed'
  BY AskStep DEF TokensMailed
<1>4. PhonesApproved'
  BY AskStep DEF PhonesApproved, KeyOf
<1>5. OneAsking'
  <2> SUFFICES ASSUME ~raced'
               PROVE  /\ \A s, t \in ContactAsks : Asking(s)' /\ Asking(t)' => s = t
                      /\ \A s \in ContactAsks : Asking(s)' =>
                           (phones[KeyOf(s)'].stored => phones[KeyOf(s)'].attempts < MaxAttempts)
    BY DEF OneAsking
  <2>1. ~raced /\ AskingAllowed(r, q)
    OBVIOUS
  <2>2. /\ \A s, t \in ContactAsks : Asking(s) /\ Asking(t) => s = t
        /\ \A s \in ContactAsks : Asking(s) =>
             (phones[KeyOf(s)].stored => phones[KeyOf(s)].attempts < MaxAttempts)
    BY <2>1 DEF OneAsking
  <2>3. \A s \in ContactAsks : s # r => (Asking(s)' <=> Asking(s)) /\ KeyOf(s)' = KeyOf(s)
    BY <1>2 DEF Asking, KeyOf
  <2>4. /\ Asking(r)' <=> q.phase \in {"check", "wrong", "right"}
        /\ KeyOf(r)' = <<q.wallet, q.with>>
    BY <1>2 DEF Asking, KeyOf
  <2>5. CASE ~Asking(r)'
    BY <2>2, <2>3, <2>5
  <2>6. CASE Asking(r)' /\ Asking(r) /\ q.wallet = contact[r].wallet /\ q.with = contact[r].with
    <3>1. KeyOf(r)' = KeyOf(r)
      BY <2>4, <2>6 DEF KeyOf
    <3> QED
      BY <2>2, <2>3, <2>6, <3>1
  <2>7. CASE /\ Asking(r)' /\ \A s \in ContactAsks : ~Asking(s)
             /\ phones[<<q.wallet, q.with>>].stored => phones[<<q.wallet, q.with>>].attempts < MaxAttempts
    BY <2>3, <2>4, <2>7
  <2> QED
    BY <2>1, <2>4, <2>5, <2>6, <2>7 DEF AskingAllowed
<1>6. ContactsProven'
  <2>1. \A w \in Wallets : emails[w].stored /\ emails[w].verified =>
          \E m \in mailed' \cap shown' : m.wallet = w /\ m.email = emails[w].email
    BY DEF ContactsProven
  <2>2. raced' \/ \A k \in DOMAIN phones : phones[k].stored => phones[k].attempts <= MaxAttempts
    BY DEF ContactsProven
  <2>3. (\A w \in Wallets : \A p \in OnrampContactInfo(w).phones : <<w, p>> \in approved)'
    BY <1>4, PhonesTold, PTL
  <2> QED
    BY <2>1, <2>2, <2>3 DEF ContactsProven
<1> QED
  BY <1>1, <1>3, <1>4, <1>5, <1>6

\* A request that ends by writing rows of phones.
LEMMA PhoneWritten ==
  ASSUME ContactIInv, NEW r \in ContactAsks, Over(r),
         UNCHANGED <<emails, mailed, texted, issued, shown, approved, raced>>,
         phones' \in [Wallets \X Phones -> {NoRow} \cup PhoneRow],
         \A k \in Wallets \X Phones : phones'[k].stored /\ phones'[k].verified # "no" => k \in approved,
         ~raced => \A k \in Wallets \X Phones : phones'[k].stored => phones'[k].attempts <= MaxAttempts,
         ~raced => \A s \in ContactAsks : s # r /\ Asking(s) =>
                     (phones'[KeyOf(s)].stored => phones'[KeyOf(s)].attempts < MaxAttempts)
  PROVE  ContactIInv'
<1> USE DEF ContactIInv
<1> PICK q : q = [phase |-> "done"]
  OBVIOUS
<1>1. /\ q \in [phase : {"new", "done"}] \cup MailAsk \cup PhoneAsk /\ AskKept(q) /\ q.phase = "done"
      /\ contact' = [contact EXCEPT ![r] = q]
      /\ mailed \subseteq mailed' /\ shown \subseteq shown' /\ approved \subseteq approved'
  BY DEF AskKept, Over
<1>2. ContactTypeOK'
  BY <1>1, AskStep DEF ContactTypeOK, MailAsk, PhoneAsk
<1>3. \A s \in ContactAsks : contact'[s] = IF s = r THEN q ELSE contact[s]
  BY <1>1, AskStep
<1>4. TokensMailed'
  BY <1>1, AskStep DEF TokensMailed
<1>5. PhonesApproved'
  BY <1>1, AskStep DEF PhonesApproved, KeyOf
<1>6. OneAsking'
  <2>1. ~Asking(r)' /\ \A s \in ContactAsks : s # r => (Asking(s)' <=> Asking(s)) /\ KeyOf(s)' = KeyOf(s)
    BY <1>1, <1>3 DEF Asking, KeyOf
  <2> QED
    BY <2>1 DEF OneAsking
<1>7. ContactsProven'
  <2>1. (\A w \in Wallets : \A p \in OnrampContactInfo(w).phones : <<w, p>> \in approved)'
    BY <1>5, PhonesTold, PTL
  <2>2. DOMAIN phones' = Wallets \X Phones
    OBVIOUS
  <2> QED
    BY <2>1, <2>2 DEF ContactsProven
<1> QED
  BY <1>2, <1>4, <1>5, <1>6, <1>7

\* A request that ends by writing the row of an account's email.
LEMMA EmailWritten ==
  ASSUME ContactIInv, NEW r \in ContactAsks, Over(r),
         UNCHANGED <<phones, mailed, texted, issued, shown, approved, raced>>,
         emails' \in [Wallets -> {NoRow} \cup EmailRow],
         \A w \in Wallets : emails'[w].stored =>
           /\ Mail(w, emails'[w].email, emails'[w].token) \in mailed
           /\ emails'[w].verified => \E m \in mailed \cap shown : m.wallet = w /\ m.email = emails'[w].email
  PROVE  ContactIInv'
<1> USE DEF ContactIInv
<1> PICK q : q = [phase |-> "done"]
  OBVIOUS
<1>1. /\ q \in [phase : {"new", "done"}] \cup MailAsk \cup PhoneAsk /\ AskKept(q) /\ q.phase = "done"
      /\ contact' = [contact EXCEPT ![r] = q]
      /\ mailed \subseteq mailed' /\ shown \subseteq shown' /\ approved \subseteq approved'
  BY DEF AskKept, Over
<1>2. ContactTypeOK'
  BY <1>1, AskStep DEF ContactTypeOK, MailAsk, PhoneAsk
<1>3. \A s \in ContactAsks : contact'[s] = IF s = r THEN q ELSE contact[s]
  BY <1>1, AskStep
<1>4. TokensMailed'
  BY <1>1, AskStep DEF TokensMailed
<1>5. PhonesApproved'
  BY <1>1, AskStep DEF PhonesApproved, KeyOf
<1>6. OneAsking'
  <2>1. ~Asking(r)' /\ \A s \in ContactAsks : s # r => (Asking(s)' <=> Asking(s)) /\ KeyOf(s)' = KeyOf(s)
    BY <1>1, <1>3 DEF Asking, KeyOf
  <2> QED
    BY <2>1 DEF OneAsking
<1>7. ContactsProven'
  <2>1. (\A w \in Wallets : \A p \in OnrampContactInfo(w).phones : <<w, p>> \in approved)'
    BY <1>5, PhonesTold, PTL
  <2> QED
    BY <2>1 DEF ContactsProven
<1> QED
  BY <1>2, <1>4, <1>5, <1>6, <1>7

\* A request that ends, or goes on to a phase that the invariant says nothing of, while
\* tokens are issued.
LEMMA PlainStep ==
  ASSUME ContactIInv, NEW r \in ContactAsks, NEW q \in [phase : {"new", "done"}] \cup MailAsk \cup PhoneAsk,
         contact' = [contact EXCEPT ![r] = q],
         q.phase \notin {"store_email", "update_email", "check", "wrong", "right"},
         UNCHANGED <<emails, phones, mailed, shown, approved, raced>>,
         issued' \in Nat, texted' \in [Phones -> Nat]
  PROVE  ContactIInv'
<1>1. AskKept(q) /\ AskingAllowed(r, q)
  BY DEF AskKept, AskingAllowed
<1>2. raced' \in BOOLEAN /\ (raced => raced')
  BY DEF ContactIInv, ContactTypeOK
<1>3. mailed \subseteq mailed' /\ shown \subseteq shown' /\ approved \subseteq approved' /\ UNCHANGED <<emails, phones>>
  OBVIOUS
<1> QED
  BY <1>1, <1>2, <1>3, QuietStep

LEMMA NewEmailRow ==
  ASSUME NEW e \in Mails, NEW token \in Nat
  PROVE  [stored |-> TRUE, email |-> e, token |-> token, verified |-> FALSE] \in EmailRow
  BY DEF EmailRow

LEMMA EmailStep ==
  ASSUME ContactIInv, NEW r \in ContactAsks, NEW w \in Wallets, NEW e \in Mails,
         NEW token \in 0..issued, NEW signed \in BOOLEAN,
         \/ SetEmail(r, w, e) \/ VerifyEmail(r, w, e, token, signed)
         \/ SendMail(r) \/ AddUnverifiedEmail(r) \/ UpdateEmail(r)
  PROVE  ContactIInv'
<1>1. /\ ContactTypeOK /\ issued \in Nat /\ texted \in [Phones -> Nat] /\ raced \in BOOLEAN
      /\ contact \in [ContactAsks -> [phase : {"new", "done"}] \cup MailAsk \cup PhoneAsk]
  BY DEF ContactIInv, ContactTypeOK, MailAsk, PhoneAsk
<1> PICK over : over = [phase |-> "done"]
  OBVIOUS
<1>2. over \in [phase : {"new", "done"}] \cup MailAsk \cup PhoneAsk /\ over.phase = "done"
  OBVIOUS
<1>3. CASE SetEmail(r, w, e)
  <2> PICK q : q = IF VerifiedEmailExists(e) THEN over
                   ELSE [phase |-> "mail", wallet |-> w, with |-> e, code |-> 0]
    OBVIOUS
  <2>1. /\ contact' = [contact EXCEPT ![r] = q]
        /\ UNCHANGED <<emails, phones, mailed, texted, issued, shown, approved, raced>>
    BY <1>3 DEF SetEmail, Over, Begin
  <2>2. q \in [phase : {"new", "done"}] \cup MailAsk \cup PhoneAsk /\ q.phase \in {"done", "mail"}
    BY DEF MailAsk, MailPhases
  <2> QED
    BY <1>1, <2>1, <2>2, PlainStep
<1>4. CASE VerifyEmail(r, w, e, token, signed)
  <2>1. CASE ~signed
    <3>1. /\ contact' = [contact EXCEPT ![r] = over]
          /\ UNCHANGED <<emails, phones, mailed, texted, issued, shown, approved, raced>>
      BY <1>4, <2>1 DEF VerifyEmail, Over
    <3> QED
      BY <1>1, <1>2, <3>1, PlainStep
  <2>2. CASE signed
    <3> PICK q : q = [phase |-> "update_email", wallet |-> w, with |-> e, code |-> token]
      OBVIOUS
    <3>1. /\ contact' = [contact EXCEPT ![r] = q] /\ shown' = shown \cup {Mail(w, e, token)}
          /\ UNCHANGED <<emails, phones, mailed, texted, issued, approved, raced>>
      BY <1>4, <2>2 DEF VerifyEmail, Begin, Mail
    <3>2. token \in Nat
      BY <1>1
    <3>3. q \in [phase : {"new", "done"}] \cup MailAsk \cup PhoneAsk
      BY <3>2 DEF MailAsk, MailPhases
    <3>4. AskKept(q) /\ AskingAllowed(r, q)
      BY <3>1 DEF AskKept, AskingAllowed
    <3>5. /\ mailed \subseteq mailed' /\ shown \subseteq shown' /\ approved \subseteq approved' /\ UNCHANGED <<emails, phones>>
          /\ issued' \in Nat /\ texted' \in [Phones -> Nat] /\ raced' \in BOOLEAN /\ (raced => raced')
      BY <1>1, <3>1
    <3> QED
      BY <3>1, <3>3, <3>4, <3>5, QuietStep
  <2> QED
    BY <2>1, <2>2
<1>5. CASE SendMail(r)
  <2>1. CASE Over(r) /\ UNCHANGED <<mailed, issued>>
    <3>1. /\ contact' = [contact EXCEPT ![r] = over]
          /\ UNCHANGED <<emails, phones, mailed, texted, issued, shown, approved, raced>>
      BY <1>5, <2>1 DEF SendMail, Over
    <3> QED
      BY <1>1, <1>2, <3>1, PlainStep
  <2>2. CASE /\ issued' = issued + 1
             /\ mailed' = mailed \cup {[wallet |-> contact[r].wallet, email |-> contact[r].with, token |-> issued']}
             /\ contact' = [contact EXCEPT ![r].phase = "store_email", ![r].code = issued']
    <3> PICK p \in MailAsk : p = contact[r]
      BY <1>1, <1>5, AskFields DEF SendMail, MailPhases
    <3> PICK q : q = [p EXCEPT !.phase = "store_email", !.code = issued']
      OBVIOUS
    <3>1. contact' = [contact EXCEPT ![r] = q]
      BY <1>1, <2>2 DEF MailAsk
    <3>2. mailed' = mailed \cup {Mail(q.wallet, q.with, q.code)} /\ q.phase = "store_email"
      BY <2>2 DEF Mail, MailAsk
    <3>3. UNCHANGED <<emails, phones, texted, shown, approved, raced>>
      BY <1>5 DEF SendMail
    <3>4. q \in [phase : {"new", "done"}] \cup MailAsk \cup PhoneAsk /\ issued' \in Nat
      <4>1. issued' \in Nat
        BY <1>1, <2>2
      <4>2. q \in MailAsk
        BY <4>1 DEF MailAsk, MailPhases
      <4> QED
        BY <4>1, <4>2
    <3>5. AskKept(q) /\ AskingAllowed(r, q)
      BY <3>2 DEF AskKept, AskingAllowed
    <3>6. /\ mailed \subseteq mailed' /\ shown \subseteq shown' /\ approved \subseteq approved' /\ UNCHANGED <<emails, phones>>
          /\ texted' \in [Phones -> Nat] /\ raced' \in BOOLEAN /\ (raced => raced')
      BY <1>1, <3>2, <3>3
    <3> QED
      BY <3>1, <3>4, <3>5, <3>6, QuietStep
  <2> QED
    BY <1>5, <2>1, <2>2 DEF SendMail
<1>6. ASSUME NEW v \in Wallets, emails[v].stored
      PROVE  emails[v] \in EmailRow /\ Mail(v, emails[v].email, emails[v].token) \in mailed
             /\ (emails[v].verified => \E m \in mailed \cap shown : m.wallet = v /\ m.email = emails[v].email)
  BY <1>1, <1>6, RowFields DEF ContactIInv, TokensMailed, ContactsProven
<1>7. emails \in [Wallets -> {NoRow} \cup EmailRow] /\ ~NoRow.stored
  BY DEF ContactIInv, ContactTypeOK, NoRow
<1>8. CASE AddUnverifiedEmail(r)
  <2> PICK p \in MailAsk : p = contact[r]
    BY <1>1, <1>8, AskFields DEF AddUnverifiedEmail, MailPhases
  <2> PICK row : row = CASE ~emails[p.wallet].stored ->
                              [stored |-> TRUE, email |-> p.with, token |-> p.code, verified |-> FALSE]
                         [] emails[p.wallet].stored /\ emails[p.wallet].email = p.with ->
                              [emails[p.wallet] EXCEPT !.token = p.code]
                         [] OTHER -> emails[p.wallet]
    OBVIOUS
  <2>1. /\ Over(r) /\ UNCHANGED <<phones, mailed, texted, issued, shown, approved, raced>>
        /\ emails' = [emails EXCEPT ![p.wallet] = row]
    BY <1>8 DEF AddUnverifiedEmail
  <2>2. p.wallet \in Wallets /\ p.with \in Mails /\ p.code \in Nat /\ Mail(p.wallet, p.with, p.code) \in mailed
    BY <1>8 DEF AddUnverifiedEmail, MailAsk, ContactIInv, TokensMailed
  <2>3. /\ row \in EmailRow /\ Mail(p.wallet, row.email, row.token) \in mailed
        /\ row.verified => \E m \in mailed \cap shown : m.wallet = p.wallet /\ m.email = row.email
    <3>1. CASE ~emails[p.wallet].stored
      <4>1. row = [stored |-> TRUE, email |-> p.with, token |-> p.code, verified |-> FALSE]
        BY <3>1
      <4>2. row.email = p.with /\ row.token = p.code /\ row.verified = FALSE
        BY <4>1
      <4>3. row \in EmailRow
        BY <2>2, <4>1, NewEmailRow, Zenon
      <4> QED
        BY <2>2, <4>2, <4>3
    <3>2. CASE emails[p.wallet].stored /\ emails[p.wallet].email = p.with
      <4>1. row = [emails[p.wallet] EXCEPT !.token = p.code]
        BY <3>2
      <4>2. emails[p.wallet] \in EmailRow
        BY <1>6, <2>2, <3>2
      <4>3. row \in EmailRow /\ row.email = p.with /\ row.token = p.code /\ row.verified = emails[p.wallet].verified
        BY <2>2, <3>2, <4>1, <4>2 DEF EmailRow
      <4> QED
        BY <1>6, <2>2, <3>2, <4>3
    <3>3. CASE emails[p.wallet].stored /\ emails[p.wallet].email # p.with
      <4>1. row = emails[p.wallet]
        BY <3>3
      <4> QED
        BY <1>6, <2>2, <3>3, <4>1
    <3> QED
      BY <3>1, <3>2, <3>3
  <2>4. emails' \in [Wallets -> {NoRow} \cup EmailRow] /\ emails'[p.wallet] = row
        /\ \A v \in Wallets : v # p.wallet => emails'[v] = emails[v]
    BY <1>7, <2>1, <2>2, <2>3
  <2>5. \A v \in Wallets : emails'[v].stored =>
          /\ Mail(v, emails'[v].email, emails'[v].token) \in mailed
          /\ emails'[v].verified => \E m \in mailed \cap shown : m.wallet = v /\ m.email = emails'[v].email
    <3> SUFFICES ASSUME NEW v \in Wallets, emails'[v].stored
                 PROVE  /\ Mail(v, emails'[v].email, emails'[v].token) \in mailed
                        /\ emails'[v].verified => \E m \in mailed \cap shown : m.wallet = v /\ m.email = emails'[v].email
      OBVIOUS
    <3>1. CASE v = p.wallet
      BY <2>3, <2>4, <3>1
    <3>2. CASE v # p.wallet
      BY <1>6, <2>4, <3>2
    <3> QED
      BY <3>1, <3>2
  <2> QED
    BY <2>1, <2>4, <2>5, EmailWritten
<1>9. CASE UpdateEmail(r)
  <2> PICK p \in MailAsk : p = contact[r]
    BY <1>1, <1>9, AskFields DEF UpdateEmail, MailPhases
  <2>1. /\ Over(r) /\ UNCHANGED <<phones, mailed, texted, issued, shown, approved, raced>>
        /\ emails' = IF EmailMatches(emails[p.wallet], p.with, p.code)
                     THEN [emails EXCEPT ![p.wallet].verified = TRUE] ELSE emails
    BY <1>9 DEF UpdateEmail
  <2>2. p.wallet \in Wallets /\ Mail(p.wallet, p.with, p.code) \in shown
    BY <1>9 DEF UpdateEmail, MailAsk, ContactIInv, TokensMailed
  <2>3. CASE ~EmailMatches(emails[p.wallet], p.with, p.code)
    <3>1. emails' = emails
      BY <2>1, <2>3
    <3>2. \A v \in Wallets : emails'[v].stored =>
            /\ Mail(v, emails'[v].email, emails'[v].token) \in mailed
            /\ emails'[v].verified => \E m \in mailed \cap shown : m.wallet = v /\ m.email = emails'[v].email
      BY <1>6, <3>1, Zenon
    <3> QED
      BY <1>7, <2>1, <3>1, <3>2, EmailWritten
  <2>4. CASE EmailMatches(emails[p.wallet], p.with, p.code)
    <3> PICK row \in EmailRow : row = emails[p.wallet]
      BY <1>6, <2>2, <2>4 DEF EmailMatches
    <3> PICK new : new = [row EXCEPT !.verified = TRUE]
      OBVIOUS
    <3>1. new \in EmailRow /\ new.email = row.email /\ new.token = row.token
      BY DEF EmailRow
    <3>2. row.stored /\ row.email = p.with /\ row.token = p.code /\ Mail(p.wallet, row.email, row.token) \in mailed
      BY <1>6, <2>2, <2>4 DEF EmailMatches
    <3>3. \E m \in mailed \cap shown : m.wallet = p.wallet /\ m.email = new.email
      <4>1. Mail(p.wallet, new.email, new.token) \in mailed \cap shown
        BY <2>2, <3>1, <3>2
      <4> QED
        BY <4>1 DEF Mail
    <3>4. emails' = [emails EXCEPT ![p.wallet] = new]
      BY <1>7, <2>1, <2>4 DEF EmailRow
    <3>5. emails' \in [Wallets -> {NoRow} \cup EmailRow] /\ emails'[p.wallet] = new
          /\ \A v \in Wallets : v # p.wallet => emails'[v] = emails[v]
      BY <1>7, <2>2, <3>1, <3>4
    <3>6. \A v \in Wallets : emails'[v].stored =>
            /\ Mail(v, emails'[v].email, emails'[v].token) \in mailed
            /\ emails'[v].verified => \E m \in mailed \cap shown : m.wallet = v /\ m.email = emails'[v].email
      <4> SUFFICES ASSUME NEW v \in Wallets, emails'[v].stored
                   PROVE  /\ Mail(v, emails'[v].email, emails'[v].token) \in mailed
                          /\ emails'[v].verified => \E m \in mailed \cap shown : m.wallet = v /\ m.email = emails'[v].email
        OBVIOUS
      <4>1. CASE v = p.wallet
        <5>1. emails'[v] = new
          BY <3>5, <4>1
        <5>2. Mail(v, new.email, new.token) \in mailed
          BY <3>1, <3>2, <4>1
        <5> QED
          BY <3>3, <4>1, <5>1, <5>2, Zenon
      <4>2. CASE v # p.wallet
        BY <1>6, <3>5, <4>2
      <4> QED
        BY <4>1, <4>2
    <3> QED
      BY <2>1, <3>5, <3>6, EmailWritten
  <2> QED
    BY <2>3, <2>4
<1> QED
  BY <1>3, <1>4, <1>5, <1>8, <1>9

\* The phone requests up to the answer of Twilio.
LEMMA PhoneAskStep ==
  ASSUME ContactIInv, NEW r \in ContactAsks, NEW w \in Wallets, NEW p \in Phones, NEW pin \in 0..issued,
         \/ SetPhone(r, w, p) \/ ResendVerifyPhone(r, w, p) \/ VerifyPhone(r, w, p, pin)
         \/ IsPhoneAllowed(r) \/ StartVerification(r) \/ CheckVerification(r)
  PROVE  ContactIInv'
<1>1. /\ ContactTypeOK /\ issued \in Nat /\ texted \in [Phones -> Nat] /\ raced \in BOOLEAN
      /\ contact \in [ContactAsks -> [phase : {"new", "done"}] \cup MailAsk \cup PhoneAsk]
  BY DEF ContactIInv, ContactTypeOK, MailAsk, PhoneAsk
<1> PICK over : over = [phase |-> "done"]
  OBVIOUS
<1>2. over \in [phase : {"new", "done"}] \cup MailAsk \cup PhoneAsk /\ over.phase = "done"
  OBVIOUS
<1>3. ASSUME Over(r), UNCHANGED <<emails, phones, mailed, texted, issued, shown, approved, raced>>
      PROVE  ContactIInv'
  <2>1. contact' = [contact EXCEPT ![r] = over]
    BY <1>3 DEF Over
  <2> QED
    BY <1>1, <1>2, <1>3, <2>1, PlainStep
<1>4. ASSUME NEW phase \in {"line_type", "text_again"}, Begin(r, phase, w, p, 0),
             UNCHANGED <<emails, phones, mailed, texted, issued, shown, approved, raced>>
      PROVE  ContactIInv'
  <2> PICK q : q = [phase |-> phase, wallet |-> w, with |-> p, code |-> 0]
    OBVIOUS
  <2>1. contact' = [contact EXCEPT ![r] = q]
    BY <1>4 DEF Begin
  <2>2. q \in PhoneAsk /\ q.phase = phase
    BY DEF PhoneAsk, PhonePhases
  <2> QED
    BY <1>1, <1>4, <2>1, <2>2, PlainStep
<1>5. CASE SetPhone(r, w, p)
  BY <1>3, <1>4, <1>5 DEF SetPhone
<1>6. CASE ResendVerifyPhone(r, w, p)
  BY <1>3, <1>4, <1>6 DEF ResendVerifyPhone
<1>7. CASE IsPhoneAllowed(r)
  <2>1. CASE Over(r)
    BY <1>3, <1>7, <2>1 DEF IsPhoneAllowed
  <2>2. CASE Now(r, "text_new")
    <3> PICK c \in PhoneAsk : c = contact[r]
      BY <1>1, <1>7, AskFields DEF IsPhoneAllowed, PhonePhases
    <3> PICK q : q = [c EXCEPT !.phase = "text_new"]
      OBVIOUS
    <3>1. contact' = [contact EXCEPT ![r] = q]
      BY <1>1, <2>2 DEF Now, PhoneAsk
    <3>2. q \in PhoneAsk /\ q.phase = "text_new"
      BY DEF PhoneAsk, PhonePhases
    <3>3. UNCHANGED <<emails, phones, mailed, texted, issued, shown, approved, raced>>
      BY <1>7 DEF IsPhoneAllowed
    <3> QED
      BY <1>1, <3>1, <3>2, <3>3, PlainStep
  <2> QED
    BY <1>7, <2>1, <2>2 DEF IsPhoneAllowed
<1>8. CASE StartVerification(r)
  <2>1. CASE Over(r) /\ UNCHANGED <<texted, issued>>
    BY <1>3, <1>8, <2>1 DEF StartVerification
  <2>2. CASE /\ issued' = issued + 1 /\ texted' = [texted EXCEPT ![contact[r].with] = issued']
             /\ contact' = [contact EXCEPT ![r].code = issued',
                              ![r].phase = IF @ = "text_new" THEN "store_phone" ELSE "store_sid"]
    <3> PICK c \in PhoneAsk : c = contact[r]
      BY <1>1, <1>8, AskFields DEF StartVerification, PhonePhases
    <3> PICK phase \in {"store_phone", "store_sid"} : phase = IF c.phase = "text_new" THEN "store_phone" ELSE "store_sid"
      OBVIOUS
    <3> PICK n \in Nat : n = issued'
      BY <1>1, <2>2
    <3> PICK q : q = [c EXCEPT !.code = n, !.phase = phase]
      OBVIOUS
    <3>1. contact' = [contact EXCEPT ![r] = q]
      BY <1>1, <2>2 DEF PhoneAsk
    <3>2. q \in PhoneAsk /\ q.phase = phase
      BY DEF PhoneAsk, PhonePhases
    <3>3. UNCHANGED <<emails, phones, mailed, shown, approved, raced>>
      BY <1>8 DEF StartVerification
    <3>4. texted' \in [Phones -> Nat]
      BY <1>1, <2>2 DEF PhoneAsk
    <3> QED
      BY <3>1, <3>2, <3>3, <3>4, PlainStep
  <2> QED
    BY <1>8, <2>1, <2>2 DEF StartVerification
<1>9. CASE VerifyPhone(r, w, p, pin)
  <2> PICK left \in BOOLEAN : left = ~(phones[<<w, p>>].stored /\ phones[<<w, p>>].attempts >= MaxAttempts)
    OBVIOUS
  <2> PICK q : q = IF left THEN [phase |-> "check", wallet |-> w, with |-> p, code |-> pin] ELSE over
    OBVIOUS
  <2>1. /\ contact' = [contact EXCEPT ![r] = q] /\ raced' = (raced \/ \E s \in ContactAsks : Asking(s))
        /\ UNCHANGED <<emails, phones, mailed, texted, issued, shown, approved>>
    BY <1>9 DEF VerifyPhone, Over, Begin, Asking
  <2>2. pin \in Nat
    BY <1>1
  <2>3. /\ q \in [phase : {"new", "done"}] \cup MailAsk \cup PhoneAsk
        /\ q.phase = (IF left THEN "check" ELSE "done") /\ (left => q.wallet = w /\ q.with = p)
    <3>1. CASE left
      BY <2>2, <3>1 DEF PhoneAsk, PhonePhases
    <3>2. CASE ~left
      BY <1>2, <3>2
    <3> QED
      BY <3>1, <3>2
  <2>4. AskKept(q)
    BY <2>3 DEF AskKept
  <2>5. left => (phones[<<w, p>>].stored => phones[<<w, p>>].attempts < MaxAttempts)
    <3> SUFFICES ASSUME left, phones[<<w, p>>].stored
                 PROVE  phones[<<w, p>>].attempts < MaxAttempts
      OBVIOUS
    <3>1. phones[<<w, p>>] \in PhoneRow
      BY <1>1, RowFields
    <3>2. phones[<<w, p>>].attempts \in Nat
      BY <3>1 DEF PhoneRow
    <3>3. ~(phones[<<w, p>>].attempts >= MaxAttempts)
      OBVIOUS
    <3> QED
      BY <3>2, <3>3, AttemptsAssumption
  <2>6. ~raced' => AskingAllowed(r, q)
    BY <2>1, <2>3, <2>5 DEF AskingAllowed
  <2>7. /\ mailed \subseteq mailed' /\ shown \subseteq shown' /\ approved \subseteq approved' /\ UNCHANGED <<emails, phones>>
        /\ issued' \in Nat /\ texted' \in [Phones -> Nat]
    BY <1>1, <2>1
  <2>8. raced' \in BOOLEAN /\ (raced => raced')
    BY <1>1, <2>1, Zenon
  <2> QED
    BY <2>1, <2>3, <2>4, <2>6, <2>7, <2>8, QuietStep
<1>10. CASE CheckVerification(r)
  <2> PICK c \in PhoneAsk : c = contact[r]
    BY <1>1, <1>10, AskFields DEF CheckVerification, PhonePhases
  <2>1. UNCHANGED <<emails, phones, mailed, issued, shown, raced>> /\ Asking(r) /\ c.with \in Phones
    BY <1>10 DEF CheckVerification, Asking, PhoneAsk
  <2>2. CASE Over(r) /\ UNCHANGED <<texted, approved>>
    BY <1>3, <2>1, <2>2
  <2>3. ASSUME NEW phase \in {"right", "wrong"}, Now(r, phase), approved \subseteq approved',
               phase = "right" => <<c.wallet, c.with>> \in approved', texted' \in [Phones -> Nat]
        PROVE  ContactIInv'
    <3> PICK q : q = [c EXCEPT !.phase = phase]
      OBVIOUS
    <3>1. contact' = [contact EXCEPT ![r] = q]
      BY <1>1, <2>3 DEF Now, PhoneAsk
    <3>2. q \in PhoneAsk /\ q.phase = phase /\ q.wallet = c.wallet /\ q.with = c.with
      BY DEF PhoneAsk, PhonePhases
    <3>3. AskKept(q) /\ AskingAllowed(r, q)
      BY <2>1, <2>3, <3>2 DEF AskKept, AskingAllowed
    <3>4. /\ mailed \subseteq mailed' /\ shown \subseteq shown' /\ UNCHANGED <<emails, phones>>
          /\ issued' \in Nat /\ raced' \in BOOLEAN /\ (raced => raced')
      BY <1>1, <2>1
    <3> QED
      BY <2>3, <3>1, <3>2, <3>3, <3>4, QuietStep
  <2>4. CASE /\ texted' = [texted EXCEPT ![c.with] = 0]
             /\ approved' = approved \cup {<<c.wallet, c.with>>} /\ Now(r, "right")
    <3>1. texted' \in [Phones -> Nat]
      BY <1>1, <2>1, <2>4
    <3> QED
      BY <2>3, <2>4, <3>1
  <2>5. CASE Now(r, "wrong") /\ UNCHANGED <<texted, approved>>
    BY <1>1, <2>3, <2>5
  <2> QED
    BY <1>10, <2>2, <2>4, <2>5 DEF CheckVerification
<1> QED
  BY <1>5, <1>6, <1>7, <1>8, <1>9, <1>10

\* One row is written, with no more attempts than it may have.
LEMMA OnePhoneWritten ==
  ASSUME ContactIInv, NEW r \in ContactAsks, Over(r),
         UNCHANGED <<emails, mailed, texted, issued, shown, approved, raced>>,
         NEW k \in Wallets \X Phones, NEW row \in PhoneRow, phones' = [phones EXCEPT ![k] = row],
         row.verified # "no" => k \in approved,
         ~raced => row.attempts <= MaxAttempts,
         ~raced => row.attempts < MaxAttempts \/ Asking(r) \/ (phones[k].stored /\ row.attempts = phones[k].attempts)
  PROVE  ContactIInv'
<1> USE DEF ContactIInv
<1>1. phones \in [Wallets \X Phones -> {NoRow} \cup PhoneRow]
  BY DEF ContactTypeOK
<1>2. /\ phones' \in [Wallets \X Phones -> {NoRow} \cup PhoneRow]
      /\ \A j \in Wallets \X Phones : phones'[j] = IF j = k THEN row ELSE phones[j]
  BY <1>1
<1>3. \A j \in Wallets \X Phones : phones'[j].stored /\ phones'[j].verified # "no" => j \in approved
  BY <1>2 DEF PhonesApproved
<1>4. ~raced => \A j \in Wallets \X Phones : phones'[j].stored => phones'[j].attempts <= MaxAttempts
  BY <1>1, <1>2 DEF ContactsProven
<1>5. ASSUME ~raced, NEW s \in ContactAsks, s # r, Asking(s), phones'[KeyOf(s)].stored
      PROVE  phones'[KeyOf(s)].attempts < MaxAttempts
  <2>1. KeyOf(s) \in Wallets \X Phones
    <3>1. contact[s] \in PhoneAsk
      BY <1>5, AskFields DEF Asking, PhonePhases
    <3> QED
      BY <3>1 DEF PhoneAsk, KeyOf
  <2>2. phones[KeyOf(s)].stored => phones[KeyOf(s)].attempts < MaxAttempts
    BY <1>5 DEF OneAsking
  <2>3. ~Asking(r)
    BY <1>5 DEF OneAsking
  <2> QED
    BY <1>2, <1>5, <2>1, <2>2, <2>3
<1> HIDE DEF ContactIInv
<1> QED
  BY <1>2, <1>3, <1>4, <1>5, PhoneWritten

\* The rows of phones, written at the end of a request.
LEMMA PhoneRowStep ==
  ASSUME ContactIInv, NEW r \in ContactAsks,
         \/ AddUnverifiedPhone(r) \/ UpdatePhoneVerificationSid(r)
         \/ IncrementPhoneVerificationAttempts(r) \/ MarkPhoneVerified(r)
  PROVE  ContactIInv'
<1>1. /\ ContactTypeOK /\ phones \in [Wallets \X Phones -> {NoRow} \cup PhoneRow]
      /\ UNCHANGED <<emails, mailed, texted, issued, shown, approved, raced>> /\ Over(r)
  BY DEF ContactIInv, ContactTypeOK, AddUnverifiedPhone, UpdatePhoneVerificationSid,
         IncrementPhoneVerificationAttempts, MarkPhoneVerified
<1> PICK c \in PhoneAsk : c = contact[r]
  BY <1>1, AskFields DEF AddUnverifiedPhone, UpdatePhoneVerificationSid, IncrementPhoneVerificationAttempts,
         MarkPhoneVerified, PhonePhases
<1> PICK k : k = <<c.wallet, c.with>>
  OBVIOUS
<1>2. k \in Wallets \X Phones /\ c.code \in Nat /\ MaxAttempts \in Nat /\ 0 < MaxAttempts
  BY AttemptsAssumption DEF PhoneAsk
<1>3. ASSUME phones' = phones
      PROVE  ContactIInv'
  <2>1. PhonesApproved /\ OneAsking /\ ContactsProven /\ DOMAIN phones = Wallets \X Phones
    BY <1>1 DEF ContactIInv
  <2>2. \A j \in Wallets \X Phones : phones'[j].stored /\ phones'[j].verified # "no" => j \in approved
    BY <1>3, <2>1, Zenon DEF PhonesApproved
  <2>3. ~raced => \A j \in Wallets \X Phones : phones'[j].stored => phones'[j].attempts <= MaxAttempts
    BY <1>3, <2>1, Zenon DEF ContactsProven
  <2>4. ~raced => \A s \in ContactAsks : s # r /\ Asking(s) =>
                    (phones'[KeyOf(s)].stored => phones'[KeyOf(s)].attempts < MaxAttempts)
    BY <1>3, <2>1, Zenon DEF OneAsking
  <2> QED
    BY <1>1, <1>3, <2>2, <2>3, <2>4, PhoneWritten
<1>4. ASSUME phones[k].stored
      PROVE  /\ phones[k] \in PhoneRow
             /\ phones[k].verified # "no" => k \in approved
             /\ ~raced => phones[k].attempts <= MaxAttempts
             /\ ~raced /\ Asking(r) => phones[k].attempts < MaxAttempts
  BY <1>1, <1>2, <1>4, RowFields DEF ContactIInv, PhonesApproved, ContactsProven, OneAsking, KeyOf
<1>5. CASE AddUnverifiedPhone(r)
  <2> PICK row : row = [stored |-> TRUE, sid |-> c.code, attempts |-> 0, verified |-> "no"]
    OBVIOUS
  <2>1. phones' = [phones EXCEPT ![k] = row]
    BY <1>5 DEF AddUnverifiedPhone
  <2>2. row \in PhoneRow /\ row.verified = "no" /\ row.attempts = 0
    BY <1>2 DEF PhoneRow
  <2>3. row.attempts <= MaxAttempts /\ row.attempts < MaxAttempts
    BY <1>2, <2>2
  <2> QED
    BY <1>1, <1>2, <2>1, <2>2, <2>3, OnePhoneWritten
<1>6. CASE UpdatePhoneVerificationSid(r)
  <2>1. CASE ~phones[k].stored
    BY <1>3, <1>6, <2>1 DEF UpdatePhoneVerificationSid
  <2>2. CASE phones[k].stored
    <3> PICK old \in PhoneRow : old = phones[k]
      BY <1>4, <2>2
    <3> PICK row : row = [old EXCEPT !.sid = c.code]
      OBVIOUS
    <3>1. phones' = [phones EXCEPT ![k] = row]
      BY <1>1, <1>2, <1>6, <2>2 DEF UpdatePhoneVerificationSid, PhoneRow
    <3>2. row \in PhoneRow /\ row.verified = old.verified /\ row.attempts = old.attempts
      BY <1>2 DEF PhoneRow
    <3> QED
      BY <1>1, <1>2, <1>4, <2>2, <3>1, <3>2, OnePhoneWritten
  <2> QED
    BY <2>1, <2>2
<1>7. CASE IncrementPhoneVerificationAttempts(r)
  <2>1. CASE ~phones[k].stored
    BY <1>3, <1>7, <2>1 DEF IncrementPhoneVerificationAttempts
  <2>2. CASE phones[k].stored
    <3> PICK old \in PhoneRow : old = phones[k]
      BY <1>4, <2>2
    <3>0. old.attempts \in Nat /\ old.attempts + 1 \in Nat
      <4>1. old.attempts \in Nat
        BY Zenon DEF PhoneRow
      <4> QED
        BY <4>1
    <3> PICK n : n = old.attempts + 1
      OBVIOUS
    <3> PICK row : row = [old EXCEPT !.attempts = n]
      OBVIOUS
    <3>1. phones' = [phones EXCEPT ![k] = row]
      <4>1. phones' = [phones EXCEPT ![k].attempts = @ + 1]
        BY <1>7, <2>2 DEF IncrementPhoneVerificationAttempts
      <4> QED
        BY <1>1, <1>2, <4>1 DEF PhoneRow
    <3>2. row \in PhoneRow /\ row.verified = old.verified /\ row.attempts = old.attempts + 1 /\ old.attempts \in Nat
      <4>1. row.verified = old.verified /\ row.attempts = n
        BY DEF PhoneRow
      <4>2. row \in PhoneRow
        BY <3>0 DEF PhoneRow
      <4> QED
        BY <3>0, <4>1, <4>2
    <3>3. Asking(r)
      BY <1>7 DEF IncrementPhoneVerificationAttempts, Asking
    <3>4. ~raced => row.attempts <= MaxAttempts
      BY <1>2, <1>4, <2>2, <3>2, <3>3
    <3> QED
      BY <1>1, <1>2, <1>4, <2>2, <3>1, <3>2, <3>3, <3>4, OnePhoneWritten
  <2> QED
    BY <2>1, <2>2
<1>8. CASE MarkPhoneVerified(r)
  <2>1. CASE ~(phones[k].stored /\ phones[k].verified = "no")
    BY <1>3, <1>8, <2>1 DEF MarkPhoneVerified
  <2>2. CASE phones[k].stored /\ phones[k].verified = "no"
    <3> PICK old \in PhoneRow : old = phones[k]
      BY <1>4, <2>2
    <3> PICK row : row = [old EXCEPT !.verified = "recent"]
      OBVIOUS
    <3>1. phones' = [phones EXCEPT ![k] = row]
      BY <1>1, <1>2, <1>8, <2>2 DEF MarkPhoneVerified, PhoneRow
    <3>2. row \in PhoneRow /\ row.attempts = old.attempts
      BY DEF PhoneRow
    <3>3. k \in approved
      BY <1>8 DEF MarkPhoneVerified, ContactIInv, PhonesApproved, KeyOf
    <3> QED
      BY <1>1, <1>2, <1>4, <2>2, <3>1, <3>2, <3>3, OnePhoneWritten
  <2> QED
    BY <2>1, <2>2
<1> QED
  BY <1>5, <1>6, <1>7, <1>8

\* Sixty days make verifications old, and change nothing else.
LEMMA SixtyDaysStep ==
  ASSUME ContactIInv, SixtyDays
  PROVE  ContactIInv'
<1> USE DEF ContactIInv
<1>1. /\ phones' = [k \in DOMAIN phones |->
           IF phones[k].stored /\ phones[k].verified = "recent" THEN [phones[k] EXCEPT !.verified = "old"] ELSE phones[k]]
      /\ UNCHANGED <<emails, mailed, texted, issued, contact, shown, approved, raced>>
      /\ DOMAIN phones = Wallets \X Phones
  BY DEF SixtyDays, ContactTypeOK
<1>2. ASSUME NEW k \in Wallets \X Phones
      PROVE  /\ phones'[k] \in {NoRow} \cup PhoneRow /\ phones'[k].stored = phones[k].stored
             /\ phones[k].stored => phones'[k].attempts = phones[k].attempts
             /\ phones[k].stored /\ phones'[k].verified # "no" => phones[k].verified # "no"
  <2>1. CASE phones[k].stored /\ phones[k].verified = "recent"
    <3>1. phones'[k] = [phones[k] EXCEPT !.verified = "old"]
      BY <1>1, <2>1
    <3>2. phones[k] \in PhoneRow
      BY <2>1, RowFields
    <3> QED
      BY <2>1, <3>1, <3>2 DEF PhoneRow
  <2>2. CASE ~(phones[k].stored /\ phones[k].verified = "recent")
    <3>1. phones'[k] = phones[k]
      BY <1>1, <2>2
    <3> QED
      BY <3>1 DEF ContactTypeOK
  <2> QED
    BY <2>1, <2>2
<1>3. ContactTypeOK'
  <2>1. phones' \in [Wallets \X Phones -> {NoRow} \cup PhoneRow]
    BY <1>1, <1>2
  <2> QED
    BY <1>1, <2>1 DEF ContactTypeOK
<1>4. TokensMailed'
  BY <1>1 DEF TokensMailed
<1>5. PhonesApproved'
  BY <1>1, <1>2 DEF PhonesApproved, KeyOf
<1>6. OneAsking'
  <2>1. \A s \in ContactAsks : Asking(s) => KeyOf(s) \in Wallets \X Phones
    <3> SUFFICES ASSUME NEW s \in ContactAsks, Asking(s) PROVE KeyOf(s) \in Wallets \X Phones
      OBVIOUS
    <3>1. contact[s] \in PhoneAsk
      BY AskFields DEF Asking, PhonePhases
    <3> QED
      BY <3>1 DEF PhoneAsk, KeyOf
  <2>2. \A s \in ContactAsks : (Asking(s)' <=> Asking(s)) /\ KeyOf(s)' = KeyOf(s)
    BY <1>1 DEF Asking, KeyOf
  <2> QED
    BY <1>1, <1>2, <2>1, <2>2 DEF OneAsking
<1>7. ContactsProven'
  <2>1. (\A w \in Wallets : \A p \in OnrampContactInfo(w).phones : <<w, p>> \in approved)'
    BY <1>5, PhonesTold, PTL
  <2>2. raced' \/ \A k \in DOMAIN phones' : phones'[k].stored => phones'[k].attempts <= MaxAttempts
    BY <1>1, <1>2 DEF ContactsProven
  <2>3. \A w \in Wallets : emails'[w].stored /\ emails'[w].verified =>
          \E m \in mailed' \cap shown' : m.wallet = w /\ m.email = emails'[w].email
    BY <1>1 DEF ContactsProven
  <2> QED
    BY <2>1, <2>2, <2>3 DEF ContactsProven
<1> QED
  BY <1>3, <1>4, <1>5, <1>6, <1>7

LEMMA ContactStep ==
  ASSUME ContactIInv, [ContactNext]_contactVars
  PROVE  ContactIInv'
<1>1. CASE UNCHANGED contactVars
  BY <1>1 DEF contactVars, ContactIInv, ContactTypeOK, TokensMailed, PhonesApproved, OneAsking, Asking, KeyOf,
              ContactsProven, OnrampContactInfo
<1>2. CASE SixtyDays
  BY <1>2, SixtyDaysStep
<1>3. ASSUME NEW r \in ContactAsks, NEW w \in Wallets, NEW e \in Mails, NEW token \in 0..issued, NEW signed \in BOOLEAN,
             SetEmail(r, w, e) \/ VerifyEmail(r, w, e, token, signed)
      PROVE  ContactIInv'
  BY <1>3, EmailStep
<1>4. ASSUME NEW r \in ContactAsks, SendMail(r) \/ AddUnverifiedEmail(r) \/ UpdateEmail(r)
      PROVE  ContactIInv'
  <2>1. contact[r] \in MailAsk
    BY <1>4, AskFields DEF ContactIInv, SendMail, AddUnverifiedEmail, UpdateEmail, MailPhases
  <2>2. contact[r].wallet \in Wallets /\ contact[r].with \in Mails /\ 0 \in 0..issued
    BY <2>1 DEF MailAsk, ContactIInv, ContactTypeOK
  <2> QED
    BY <1>4, <2>2, EmailStep
<1>5. ASSUME NEW r \in ContactAsks, NEW w \in Wallets, NEW p \in Phones, NEW pin \in 0..issued,
             SetPhone(r, w, p) \/ ResendVerifyPhone(r, w, p) \/ VerifyPhone(r, w, p, pin)
      PROVE  ContactIInv'
  BY <1>5, PhoneAskStep
<1>6. ASSUME NEW r \in ContactAsks, IsPhoneAllowed(r) \/ StartVerification(r) \/ CheckVerification(r)
      PROVE  ContactIInv'
  <2>1. contact[r] \in PhoneAsk
    BY <1>6, AskFields DEF ContactIInv, IsPhoneAllowed, StartVerification, CheckVerification, PhonePhases
  <2>2. contact[r].wallet \in Wallets /\ contact[r].with \in Phones /\ 0 \in 0..issued
    BY <2>1 DEF PhoneAsk, ContactIInv, ContactTypeOK
  <2> QED
    BY <1>6, <2>2, PhoneAskStep
<1>7. ASSUME NEW r \in ContactAsks,
             \/ AddUnverifiedPhone(r) \/ UpdatePhoneVerificationSid(r)
             \/ IncrementPhoneVerificationAttempts(r) \/ MarkPhoneVerified(r)
      PROVE  ContactIInv'
  BY <1>7, PhoneRowStep
<1>8. 0 \in 0..issued /\ TRUE \in BOOLEAN
  BY DEF ContactIInv, ContactTypeOK
<1> QED
  BY <1>1, <1>2, <1>3, <1>4, <1>5, <1>6, <1>7, <1>8, Zenon DEF ContactNext

\* For any accounts, addresses and number of overlapping requests: an email is verified
\* only by a token that was mailed to it for that account and came back signed, the onramp
\* hears only of phones that Twilio approved for that account, and unless two verifyPhone
\* requests overlapped no row counts more failures than max_attempts.
THEOREM ContactsAreProven == ContactSpec => []ContactsProven
<1>1. ContactInit => ContactIInv
  <2> SUFFICES ASSUME ContactInit PROVE ContactIInv
    OBVIOUS
  <2>1. /\ emails = [w \in Wallets |-> NoRow] /\ phones = [k \in Wallets \X Phones |-> NoRow]
        /\ mailed = {} /\ texted = [p \in Phones |-> 0] /\ issued = 0 /\ raced = FALSE
        /\ contact = [r \in ContactAsks |-> [phase |-> "new"]] /\ ~NoRow.stored
    BY DEF ContactInit, NoRow
  <2>2. ContactTypeOK
    BY <2>1 DEF ContactTypeOK
  <2>3. TokensMailed /\ PhonesApproved /\ OneAsking
    BY <2>1 DEF TokensMailed, PhonesApproved, OneAsking, Asking
  <2>4. ContactsProven
    BY <2>1, <2>3, PhonesTold DEF ContactsProven
  <2> QED
    BY <2>2, <2>3, <2>4 DEF ContactIInv
<1>2. ContactIInv /\ [ContactNext]_contactVars => ContactIInv'
  BY ContactStep
<1>3. ContactIInv => ContactsProven
  BY DEF ContactIInv
<1> QED
  BY <1>1, <1>2, <1>3, PTL DEF ContactSpec

-----------------------------------------------------------------------------
(* Prices *)

Messages == Update \cup Question \cup [kind : {"all"}]

\* What a message is told apart by.
LEMMA MessageFields ==
  ASSUME NEW m \in Messages
  PROVE  /\ m.kind = "update" => m \in Update
         /\ m.kind = "lookup" => m.from \in Uids /\ m.to \in Uids /\ m.p \in Pricings
         /\ m.kind = "usd" => m.from \in Uids /\ m.p \in Pricings
  BY DEF Messages, Update, Question

\* A message arrives behind the others.
LEMMA InboxGrows ==
  ASSUME PriceTypeOK, NEW m \in Messages, inbox' = Append(inbox, m)
  PROVE  /\ inbox' \in Seq(Messages) /\ Len(inbox) \in Nat /\ DOMAIN inbox = 1..Len(inbox)
         /\ DOMAIN inbox' = (DOMAIN inbox) \cup {Len(inbox) + 1}
         /\ inbox'[Len(inbox) + 1] = m
         /\ \A i \in DOMAIN inbox : inbox'[i] = inbox[i] /\ inbox[i] \in Messages
         /\ m.kind # "update" => Updates' = Updates
<1>1. inbox \in Seq(Messages)
  BY DEF PriceTypeOK, Messages
<1>2. /\ inbox' \in Seq(Messages) /\ Len(inbox') = Len(inbox) + 1
      /\ \A i \in 1..Len(inbox) : inbox'[i] = inbox[i] /\ inbox[i] \in Messages
      /\ inbox'[Len(inbox) + 1] = m
  BY <1>1, AppendProperties, ElementOfSeq
<1>3. DOMAIN inbox = 1..Len(inbox) /\ DOMAIN inbox' = 1..Len(inbox') /\ Len(inbox) \in Nat
  BY <1>1, <1>2, LenProperties
<1>4. DOMAIN inbox' = (DOMAIN inbox) \cup {Len(inbox) + 1}
  BY <1>2, <1>3
<1>5. m.kind # "update" => Updates' = Updates
  BY <1>2, <1>3, <1>4 DEF Updates
<1> QED
  BY <1>2, <1>3, <1>4, <1>5

\* The first message is taken and the others move up.
LEMMA InboxShrinks ==
  ASSUME PriceTypeOK, inbox # <<>>, inbox' = Tail(inbox)
  PROVE  /\ inbox' \in Seq(Messages) /\ 1 \in DOMAIN inbox /\ Head(inbox) = inbox[1] /\ Head(inbox) \in Messages
         /\ \A i \in DOMAIN inbox' : i \in Nat /\ i + 1 \in DOMAIN inbox /\ i + 1 # 1 /\ inbox'[i] = inbox[i + 1]
         /\ \A i \in Updates' : i \in DOMAIN inbox' /\ i + 1 \in Updates
         /\ \A i \in DOMAIN inbox : i \in Nat /\ inbox[i] \in Messages
<1>1. inbox \in Seq(Messages)
  BY DEF PriceTypeOK, Messages
<1>2. /\ inbox' \in Seq(Messages) /\ Len(inbox') = Len(inbox) - 1 /\ Head(inbox) \in Messages
      /\ \A i \in 1..Len(inbox') : inbox'[i] = inbox[i + 1]
      /\ Len(inbox) \in Nat /\ Len(inbox) # 0
  BY <1>1, HeadTailProperties, EmptySeq, LenProperties
<1>3. DOMAIN inbox = 1..Len(inbox) /\ DOMAIN inbox' = 1..Len(inbox')
  BY <1>1, <1>2, LenProperties
<1>4. \A i \in DOMAIN inbox' : i \in Nat /\ i + 1 \in DOMAIN inbox /\ i + 1 # 1 /\ inbox'[i] = inbox[i + 1]
  BY <1>2, <1>3
<1>5. \A i \in Updates' : i \in DOMAIN inbox' /\ i + 1 \in Updates
  BY <1>4 DEF Updates
<1>6. Head(inbox) = inbox[1]
  BY DEF Head
<1>7. \A i \in DOMAIN inbox : i \in Nat /\ inbox[i] \in Messages
  BY <1>1, <1>3, ElementOfSeq
<1> QED
  BY <1>2, <1>3, <1>4, <1>5, <1>6, <1>7

\* A request to the feed is over.
LEMMA FetchEnds ==
  ASSUME PriceTypeOK
  PROVE  /\ FetchOver.phase = "idle"
         /\ FetchOver \in [phase : {"idle", "asked", "sampled"}, timestamp : Nat, sample : Nat,
                           has : SUBSET UNION Responses, next : Nat]
<1>1. /\ fetch \in [phase : {"idle", "asked", "sampled"}, timestamp : Nat, sample : Nat,
                   has : SUBSET UNION Responses, next : Nat]
      /\ clock + 1 \in Nat /\ {} \in SUBSET UNION Responses
  BY DEF PriceTypeOK
<1> QED
  BY <1>1 DEF FetchOver

\* The request to the feed begins, is answered or fails.
LEMMA FetchStep ==
  ASSUME PriceIInv, UpdatePrices \/ (\E coins \in Responses : FeedSamples(coins)) \/ FeedFails
  PROVE  PriceIInv'
<1> USE DEF PriceIInv
<1>1. UNCHANGED <<clock, inbox, registry, pricing, recorder, historical>> /\ Updates' = Updates
  BY DEF UpdatePrices, FeedSamples, FeedFails, Updates
<1> DEFINE F == [phase : {"idle", "asked", "sampled"}, timestamp : Nat, sample : Nat,
                 has : SUBSET UNION Responses, next : Nat]
<1>2. /\ fetch' \in F
      /\ fetch'.phase # "idle" => fetch'.timestamp <= clock
      /\ fetch'.phase = "sampled" => fetch'.timestamp <= fetch'.sample /\ fetch'.sample = clock
  <2> fetch \in F /\ clock \in Nat
    BY DEF PriceTypeOK
  <2>1. CASE UpdatePrices
    <3>1. fetch' = [fetch EXCEPT !.phase = "asked", !.timestamp = clock]
      BY <2>1 DEF UpdatePrices
    <3>2. fetch' \in F /\ fetch'.phase = "asked" /\ fetch'.timestamp = clock
      BY <3>1
    <3> QED
      BY <3>2
  <2>2. CASE FeedFails
    BY <2>2, FetchEnds DEF FeedFails
  <2>3. ASSUME NEW coins \in Responses, FeedSamples(coins)
        PROVE  /\ fetch' \in F
               /\ fetch'.phase # "idle" => fetch'.timestamp <= clock
               /\ fetch'.phase = "sampled" => fetch'.timestamp <= fetch'.sample /\ fetch'.sample = clock
    <3>1. fetch.phase = "asked" /\ fetch' = [fetch EXCEPT !.phase = "sampled", !.sample = clock, !.has = coins]
      BY <2>3 DEF FeedSamples
    <3>2. fetch \in F /\ clock \in Nat /\ coins \in SUBSET UNION Responses /\ fetch.timestamp <= clock
      BY <3>1 DEF PriceTypeOK, SamplesDated
    <3> QED
      BY <3>1, <3>2
  <2> QED
    BY <2>1, <2>2, <2>3
<1>3. PriceTypeOK'
  BY <1>1, <1>2 DEF PriceTypeOK
<1>4. fetch'.phase = "sampled" => clock <= clock /\ clock \in Nat
  BY DEF PriceTypeOK
<1>5. SamplesDated'
  BY <1>1, <1>2, <1>4 DEF SamplesDated
<1>6. SamplesInOrder'
  BY <1>1, <1>2 DEF SamplesInOrder, SamplesDated
<1>7. OneRecording' /\ RowsInOrder' /\ PricesAge' /\ CoinsAgree'
  BY <1>1, Zenon DEF OneRecording, RowsInOrder, PricesAge, CoinsAgree
<1> QED
  BY <1>3, <1>5, <1>6, <1>7

LEMMA FeedAnswersStep ==
  ASSUME PriceIInv, FeedAnswers
  PROVE  PriceIInv'
<1> USE DEF PriceIInv
<1> DEFINE m == [kind |-> "update", timestamp |-> fetch.timestamp, rate |-> fetch.sample,
                 uids |-> {u \in Uids : CoinOf[u] \in fetch.has}]
<1>1. /\ UNCHANGED <<clock, registry, pricing, recorder, historical>> /\ inbox' = Append(inbox, m)
      /\ fetch.phase = "sampled"
  BY DEF FeedAnswers
<1>2. /\ fetch'.phase = "idle"
      /\ fetch' \in [phase : {"idle", "asked", "sampled"}, timestamp : Nat, sample : Nat,
                     has : SUBSET UNION Responses, next : Nat]
  BY FetchEnds DEF FeedAnswers
<1>3. /\ m \in Messages /\ m.kind = "update" /\ m.rate = fetch.sample /\ m.timestamp = fetch.timestamp
      /\ m.rate \in Nat
      /\ \A u, v \in Uids : CoinOf[u] = CoinOf[v] /\ u \in m.uids => v \in m.uids
  BY DEF PriceTypeOK, Messages, Update
<1> HIDE DEF m
<1>4. /\ inbox' \in Seq(Messages) /\ Len(inbox) \in Nat /\ DOMAIN inbox = 1..Len(inbox)
      /\ DOMAIN inbox' = (DOMAIN inbox) \cup {Len(inbox) + 1}
      /\ inbox'[Len(inbox) + 1] = m
      /\ \A i \in DOMAIN inbox : inbox'[i] = inbox[i]
  BY <1>1, <1>3, InboxGrows
<1>5. Updates' = Updates \cup {Len(inbox) + 1}
  BY <1>3, <1>4 DEF Updates
<1>6. PriceTypeOK'
  BY <1>1, <1>2, <1>4 DEF PriceTypeOK, Messages
<1>7. \A i \in Updates : i \in 1..Len(inbox) /\ inbox'[i] = inbox[i]
  BY <1>4 DEF Updates
<1>8. SamplesDated'
  BY <1>1, <1>2, <1>3, <1>4, <1>5, <1>7 DEF SamplesDated
<1>9. SamplesInOrder'
  BY <1>1, <1>2, <1>3, <1>4, <1>5, <1>7 DEF SamplesInOrder
<1>10. OneRecording'
  BY <1>1, <1>3, <1>4 DEF OneRecording
<1>11. RowsInOrder' /\ PricesAge' /\ CoinsAgree'
  BY <1>1, Zenon DEF RowsInOrder, PricesAge, CoinsAgree
<1> QED
  BY <1>6, <1>8, <1>9, <1>10, <1>11

LEMMA AskedPrice ==
  ASSUME PriceIInv, NEW p \in Pricings, NEW from \in Uids, NEW to \in Uids \cup {"usd"},
         pricing' = [pricing EXCEPT ![p].phase = "asked", ![p].from = from, ![p].to = to]
  PROVE  /\ pricing' \in [Pricings -> [phase : {"new", "asked", "done"}, from : Uids \cup {"none"},
                                       to : Uids \cup {"none", "usd"}, rate : Seq(Nat), at : Nat]]
         /\ PricesAge'
<1> DEFINE P == [phase : {"new", "asked", "done"}, from : Uids \cup {"none"},
                 to : Uids \cup {"none", "usd"}, rate : Seq(Nat), at : Nat]
<1>1. pricing \in [Pricings -> P]
  BY DEF PriceIInv, PriceTypeOK
<1>2. /\ pricing' \in [Pricings -> P] /\ pricing'[p].phase = "asked"
      /\ \A q \in Pricings : q # p => pricing'[q] = pricing[q]
  BY <1>1
<1> QED
  BY <1>2 DEF PriceIInv, PricesAge

\* A request is asked, or answered at once.
LEMMA AskPriceStep ==
  ASSUME PriceIInv, NEW p \in Pricings,
         \/ \E pair \in Pairs : NativeConversionRate(p, pair[1], pair[2])
         \/ \E uid \in UsdUids : UsdConversionRate(p, uid)
  PROVE  PriceIInv'
<1> USE DEF PriceIInv
<1>1. UNCHANGED <<clock, fetch, registry, recorder, historical>>
  BY DEF NativeConversionRate, UsdConversionRate
<1>2. /\ pricing' \in [Pricings -> [phase : {"new", "asked", "done"}, from : Uids \cup {"none"},
                                    to : Uids \cup {"none", "usd"}, rate : Seq(Nat), at : Nat]]
      /\ PricesAge'
  <2>1. CASE \E pair \in Pairs : NativeConversionRate(p, pair[1], pair[2])
    <3> PICK pair \in Pairs : NativeConversionRate(p, pair[1], pair[2])
      BY <2>1
    <3>1. pair[1] \in Uids /\ pair[2] \in Uids
      BY PriceAssumption
    <3>2. CASE pair[1] = pair[2]
      <4>1. pricing' = [pricing EXCEPT ![p] = [phase |-> "done", from |-> pair[1], to |-> pair[2],
                                               rate |-> <<clock, clock>>, at |-> clock]]
        BY <3>2 DEF NativeConversionRate
      <4>2. clock \in Nat /\ <<clock, clock>> \in Seq(Nat) /\ RateTtl \in Nat
        BY PriceAssumption DEF PriceTypeOK
      <4>3. pricing' \in [Pricings -> [phase : {"new", "asked", "done"}, from : Uids \cup {"none"},
                                       to : Uids \cup {"none", "usd"}, rate : Seq(Nat), at : Nat]]
        BY <4>1, <4>2, <3>1 DEF PriceTypeOK
      <4>4. \A q \in Pricings : q # p => pricing'[q] = pricing[q]
        BY <4>1 DEF PriceTypeOK
      <4>5. pricing'[p].rate = <<clock, clock>> /\ pricing'[p].at = clock
        BY <4>1 DEF PriceTypeOK
      <4>6. \A i \in DOMAIN pricing'[p].rate :
              pricing'[p].rate[i] <= pricing'[p].at /\ pricing'[p].at - pricing'[p].rate[i] <= RateTtl
        BY <4>2, <4>5
      <4> QED
        BY <4>3, <4>4, <4>6 DEF PricesAge
    <3>3. CASE pair[1] # pair[2]
      <4>1. pricing' = [pricing EXCEPT ![p].phase = "asked", ![p].from = pair[1], ![p].to = pair[2]]
        BY <3>3 DEF NativeConversionRate
      <4> QED
        BY <3>1, <4>1, AskedPrice
    <3> QED
      BY <3>2, <3>3
  <2>2. CASE \E uid \in UsdUids : UsdConversionRate(p, uid)
    <3> PICK uid \in UsdUids : UsdConversionRate(p, uid)
      BY <2>2
    <3>1. uid \in Uids /\ pricing' = [pricing EXCEPT ![p].phase = "asked", ![p].from = uid, ![p].to = "usd"]
      BY PriceAssumption DEF UsdConversionRate
    <3> QED
      BY <3>1, AskedPrice
  <2> QED
    BY <2>1, <2>2
<1>3. inbox' = inbox \/ \E m \in Question : inbox' = Append(inbox, m)
  <2>1. CASE \E pair \in Pairs : NativeConversionRate(p, pair[1], pair[2])
    <3> PICK pair \in Pairs : NativeConversionRate(p, pair[1], pair[2])
      BY <2>1
    <3>1. [kind |-> "lookup", from |-> pair[1], to |-> pair[2], p |-> p] \in Question
      BY PriceAssumption DEF Question
    <3> QED
      BY <3>1 DEF NativeConversionRate
  <2>2. CASE \E uid \in UsdUids : UsdConversionRate(p, uid)
    <3> PICK uid \in UsdUids : UsdConversionRate(p, uid)
      BY <2>2
    <3>1. [kind |-> "usd", from |-> uid, p |-> p] \in Question
      BY PriceAssumption DEF Question
    <3> QED
      BY <3>1 DEF UsdConversionRate
  <2> QED
    BY <2>1, <2>2
<1>4. /\ inbox' \in Seq(Messages) /\ Updates' = Updates
      /\ \A i \in Updates : inbox'[i] = inbox[i]
      /\ \A i \in DOMAIN inbox' : inbox'[i].kind = "all" => i \in DOMAIN inbox /\ inbox[i].kind = "all"
  <2>1. CASE inbox' = inbox
    BY <2>1 DEF PriceTypeOK, Messages, Updates
  <2>2. CASE \E m \in Question : inbox' = Append(inbox, m)
    <3> PICK m \in Question : inbox' = Append(inbox, m)
      BY <2>2
    <3>1. m \in Messages /\ m.kind \notin {"update", "all"}
      BY DEF Question, Messages
    <3> QED
      BY <3>1, InboxGrows DEF Updates
  <2> QED
    BY <1>3, <2>1, <2>2
<1>5. PriceTypeOK'
  BY <1>1, <1>2, <1>4 DEF PriceTypeOK, Messages
<1>6. SamplesDated' /\ SamplesInOrder'
  BY <1>1, <1>4 DEF SamplesDated, SamplesInOrder
<1>7. OneRecording'
  BY <1>1, <1>4 DEF OneRecording
<1>8. RowsInOrder' /\ CoinsAgree'
  BY <1>1, Zenon DEF RowsInOrder, CoinsAgree
<1> QED
  BY <1>2, <1>5, <1>6, <1>7, <1>8

\* What the other messages still say when the first one is taken.
LEMMA TakeRest ==
  ASSUME PriceIInv, inbox # <<>>, inbox' = Tail(inbox), UNCHANGED <<clock, fetch>>
  PROVE  /\ \A i \in Updates' :
              /\ inbox'[i].timestamp <= inbox'[i].rate /\ inbox'[i].rate <= clock
              /\ \A u, v \in Uids : CoinOf[u] = CoinOf[v] /\ u \in inbox'[i].uids => v \in inbox'[i].uids
              /\ \A u \in Uids : registry[u].rate <= inbox'[i].rate
              /\ inbox[1].kind = "update" => inbox[1].rate <= inbox'[i].rate
              /\ fetch.phase = "sampled" => inbox'[i].rate <= fetch.sample
              /\ \A j \in Updates' : i < j => inbox'[i].rate <= inbox'[j].rate
         /\ \A i \in DOMAIN inbox' : inbox'[i].kind = "all" =>
              /\ inbox[1].kind # "all" /\ recorder.phase = "asked"
              /\ \A j \in DOMAIN inbox' : inbox'[j].kind = "all" => j = i
<1> USE DEF PriceIInv
<1>1. /\ 1 \in DOMAIN inbox
      /\ \A i \in DOMAIN inbox' : i \in Nat /\ i + 1 \in DOMAIN inbox /\ i + 1 # 1 /\ inbox'[i] = inbox[i + 1]
      /\ \A i \in Updates' : i \in DOMAIN inbox' /\ i + 1 \in Updates
      /\ \A i \in DOMAIN inbox : i \in Nat
  BY InboxShrinks
<1>2. ASSUME NEW i \in Updates'
      PROVE  /\ inbox'[i].timestamp <= inbox'[i].rate /\ inbox'[i].rate <= clock
             /\ \A u, v \in Uids : CoinOf[u] = CoinOf[v] /\ u \in inbox'[i].uids => v \in inbox'[i].uids
             /\ \A u \in Uids : registry[u].rate <= inbox'[i].rate
             /\ inbox[1].kind = "update" => inbox[1].rate <= inbox'[i].rate
             /\ fetch.phase = "sampled" => inbox'[i].rate <= fetch.sample
             /\ \A j \in Updates' : i < j => inbox'[i].rate <= inbox'[j].rate
  <2>1. /\ i \in Nat /\ i + 1 \in Updates /\ 1 < i + 1 /\ inbox'[i] = inbox[i + 1]
        /\ \A j \in Updates' : j \in Nat /\ j + 1 \in Updates /\ inbox'[j] = inbox[j + 1]
        /\ inbox[1].kind = "update" => 1 \in Updates
    BY <1>1 DEF Updates
  <2>2. \A j \in Updates' : i < j => i + 1 < j + 1
    BY <2>1
  <2>3. /\ inbox[i + 1].timestamp <= inbox[i + 1].rate /\ inbox[i + 1].rate <= clock
        /\ \A u, v \in Uids : CoinOf[u] = CoinOf[v] /\ u \in inbox[i + 1].uids => v \in inbox[i + 1].uids
    BY <2>1 DEF SamplesDated
  <2>4. /\ \A u \in Uids : registry[u].rate <= inbox[i + 1].rate
        /\ fetch.phase = "sampled" => inbox[i + 1].rate <= fetch.sample
        /\ \A j \in Updates : i + 1 < j => inbox[i + 1].rate <= inbox[j].rate
        /\ 1 \in Updates => inbox[1].rate <= inbox[i + 1].rate
    BY <2>1 DEF SamplesInOrder
  <2> QED
    BY <2>1, <2>2, <2>3, <2>4
<1>3. ASSUME NEW i \in DOMAIN inbox', inbox'[i].kind = "all"
      PROVE  /\ inbox[1].kind # "all" /\ recorder.phase = "asked"
             /\ \A j \in DOMAIN inbox' : inbox'[j].kind = "all" => j = i
  BY <1>1, <1>3 DEF OneRecording
<1> QED
  BY <1>2, <1>3

LEMMA InsertStep ==
  ASSUME PriceIInv, inbox # <<>>, inbox' = Tail(inbox), InsertUsd(Head(inbox)), UNCHANGED <<clock, fetch, historical>>
  PROVE  PriceIInv'
<1> USE DEF PriceIInv
<1> DEFINE m == inbox[1]
<1>1. /\ m.kind = "update" /\ UNCHANGED <<pricing, recorder>> /\ m \in Messages /\ 1 \in DOMAIN inbox
      /\ registry' = [u \in Uids |->
           IF u \in m.uids THEN [rate |-> m.rate, timestamp |-> m.timestamp, known |-> TRUE] ELSE registry[u]]
      /\ inbox' \in Seq(Messages)
  BY InboxShrinks DEF InsertUsd
<1>2. m \in Update /\ 1 \in Updates
  BY <1>1, MessageFields DEF Updates
<1>3. /\ m.timestamp <= m.rate /\ m.rate <= clock
      /\ \A u, v \in Uids : CoinOf[u] = CoinOf[v] /\ u \in m.uids => v \in m.uids
      /\ \A u \in Uids : registry[u].rate <= m.rate
      /\ fetch.phase = "sampled" => m.rate <= fetch.sample
  BY <1>2 DEF SamplesDated, SamplesInOrder
<1>4. m.rate \in Nat /\ m.timestamp \in Nat
  BY <1>2 DEF Update
<1> HIDE DEF m
<1>5. /\ registry \in [Uids -> [rate : Nat, timestamp : Nat, known : BOOLEAN]]
      /\ registry' \in [Uids -> [rate : Nat, timestamp : Nat, known : BOOLEAN]]
  BY <1>1, <1>4 DEF PriceTypeOK
<1>6. \A u \in Uids :
        /\ u \in m.uids => registry'[u].rate = m.rate /\ registry'[u].timestamp = m.timestamp
        /\ u \notin m.uids => registry'[u] = registry[u]
        /\ registry[u].rate \in Nat /\ registry'[u].rate \in Nat
  BY <1>1, <1>5
<1>7. \A u \in Uids : registry[u].rate <= registry'[u].rate
  BY <1>3, <1>4, <1>6
<1>8. PriceTypeOK'
  BY <1>1, <1>5 DEF PriceTypeOK, Messages
<1>9. SamplesDated'
  <2>1. \A u \in Uids : registry'[u].timestamp <= registry'[u].rate /\ registry'[u].rate <= clock
    BY <1>3, <1>6 DEF SamplesDated
  <2> QED
    BY <2>1, TakeRest DEF SamplesDated
<1>10. SamplesInOrder'
  <2>1. ASSUME NEW u \in Uids
        PROVE  /\ fetch.phase = "sampled" => registry'[u].rate <= fetch.sample
               /\ \A i \in Updates' : registry'[u].rate <= inbox'[i].rate
    BY <1>1, <1>3, <1>6, TakeRest DEF SamplesInOrder, m
  <2> QED
    BY <2>1, TakeRest DEF SamplesInOrder
<1>11. OneRecording'
  BY <1>1, TakeRest DEF OneRecording
<1>12. RowsInOrder'
  <2>1. \A k \in DOMAIN historical : k[1] \in Uids /\ historical[k] \in Nat /\ historical[k] <= registry[k[1]].rate
    BY DEF PriceTypeOK, RowsInOrder
  <2>2. \A k \in DOMAIN historical : historical[k] <= registry'[k[1]].rate
    BY <1>6, <1>7, <2>1
  <2>3. \A u \in DOMAIN recorder.prices : u \in Uids /\ recorder.prices[u] \in Nat
    BY DEF PriceTypeOK
  <2>4. recorder.phase = "told" => \A u \in DOMAIN recorder.prices : recorder.prices[u] <= registry'[u].rate
    BY <1>6, <1>7, <2>3 DEF RowsInOrder
  <2> QED
    BY <1>1, <2>2, <2>4 DEF RowsInOrder
<1>13. PricesAge'
  BY <1>1, Zenon DEF PricesAge
<1>14. CoinsAgree'
  BY <1>3, <1>6 DEF CoinsAgree
<1> QED
  BY <1>8, <1>9, <1>10, <1>11, <1>12, <1>13, <1>14

\* A rate that the oracle answers with is at most rate_ttl old: its timestamp is no later
\* than its sample.
LEMMA LiveRate ==
  ASSUME PriceIInv, NEW u \in Uids, Live(u)
  PROVE  registry[u].rate \in Nat /\ registry[u].rate <= clock /\ clock - registry[u].rate <= RateTtl
<1>1. /\ registry[u].rate \in Nat /\ registry[u].timestamp \in Nat /\ clock \in Nat
      /\ registry[u].timestamp <= registry[u].rate /\ registry[u].rate <= clock
  BY DEF PriceIInv, PriceTypeOK, SamplesDated
<1> QED
  BY <1>1, PriceAssumption DEF Live

LEMMA PriceLookupStep ==
  ASSUME PriceIInv, inbox # <<>>, inbox' = Tail(inbox), Lookup(Head(inbox)) \/ LookupUsd(Head(inbox)),
         UNCHANGED <<clock, fetch, historical>>
  PROVE  PriceIInv'
<1> USE DEF PriceIInv
<1> DEFINE m == inbox[1]
<1>1. /\ UNCHANGED <<registry, recorder>> /\ m \in Messages /\ m = Head(inbox)
      /\ inbox' \in Seq(Messages)
  BY InboxShrinks DEF Lookup, LookupUsd
<1>2. m.p \in Pricings
  BY <1>1, MessageFields DEF Lookup, LookupUsd
<1> DEFINE P == [phase : {"new", "asked", "done"}, from : Uids \cup {"none"},
                 to : Uids \cup {"none", "usd"}, rate : Seq(Nat), at : Nat]
<1>3. \E r \in Seq(Nat) :
        /\ pricing' = [pricing EXCEPT ![m.p] = [@ EXCEPT !.phase = "done", !.at = clock, !.rate = r]]
        /\ \A i \in DOMAIN r : r[i] <= clock /\ clock - r[i] <= RateTtl
  <2>1. CASE Lookup(Head(inbox))
    <3>1. m.from \in Uids /\ m.to \in Uids
      BY <1>1, <2>1, MessageFields DEF Lookup
    <3> DEFINE r == IF Live(m.from) /\ Live(m.to) THEN <<registry[m.from].rate, registry[m.to].rate>> ELSE NoRate
    <3>2. pricing' = [pricing EXCEPT ![m.p] = [@ EXCEPT !.phase = "done", !.at = clock, !.rate = r]]
      BY <1>1, <2>1 DEF Lookup
    <3>3. r \in Seq(Nat) /\ \A i \in DOMAIN r : r[i] <= clock /\ clock - r[i] <= RateTtl
      <4>1. CASE Live(m.from) /\ Live(m.to)
        BY <3>1, <4>1, LiveRate
      <4>2. CASE ~(Live(m.from) /\ Live(m.to))
        BY <4>2 DEF NoRate
      <4> QED
        BY <4>1, <4>2
    <3> HIDE DEF r
    <3> QED
      BY <3>2, <3>3
  <2>2. CASE LookupUsd(Head(inbox))
    <3>1. m.from \in Uids
      BY <1>1, <2>2, MessageFields DEF LookupUsd
    <3> DEFINE r == IF Live(m.from) THEN <<registry[m.from].rate>> ELSE NoRate
    <3>2. pricing' = [pricing EXCEPT ![m.p] = [@ EXCEPT !.phase = "done", !.at = clock, !.rate = r]]
      BY <1>1, <2>2 DEF LookupUsd
    <3>3. r \in Seq(Nat) /\ \A i \in DOMAIN r : r[i] <= clock /\ clock - r[i] <= RateTtl
      <4>1. CASE Live(m.from)
        BY <3>1, <4>1, LiveRate
      <4>2. CASE ~Live(m.from)
        BY <4>2 DEF NoRate
      <4> QED
        BY <4>1, <4>2
    <3> HIDE DEF r
    <3> QED
      BY <3>2, <3>3
  <2> QED
    BY <2>1, <2>2
<1> HIDE DEF m
<1>4. PICK r \in Seq(Nat) :
        /\ pricing' = [pricing EXCEPT ![m.p] = [@ EXCEPT !.phase = "done", !.at = clock, !.rate = r]]
        /\ \A i \in DOMAIN r : r[i] <= clock /\ clock - r[i] <= RateTtl
  BY <1>3
<1>5. pricing \in [Pricings -> P] /\ clock \in Nat
  BY DEF PriceTypeOK
<1>6. PICK p \in Pricings : p = m.p
  BY <1>2
<1>7. pricing' = [pricing EXCEPT ![p] = [@ EXCEPT !.phase = "done", !.at = clock, !.rate = r]]
  BY <1>4, <1>6
<1>8. pricing' \in [Pricings -> P]
  BY <1>5, <1>7
<1>9. pricing'[p].rate = r /\ pricing'[p].at = clock /\ \A q \in Pricings : q # p => pricing'[q] = pricing[q]
  BY <1>5, <1>7
<1>10. PricesAge'
  BY <1>4, <1>9 DEF PricesAge
<1>11. PriceTypeOK'
  BY <1>1, <1>8 DEF PriceTypeOK, Messages
<1>12. SamplesDated' /\ SamplesInOrder'
  BY <1>1, TakeRest DEF SamplesDated, SamplesInOrder
<1>13. OneRecording'
  BY <1>1, TakeRest DEF OneRecording
<1>14. RowsInOrder' /\ CoinsAgree'
  BY <1>1, Zenon DEF RowsInOrder, CoinsAgree
<1> QED
  BY <1>10, <1>11, <1>12, <1>13, <1>14

LEMMA GetAllStep ==
  ASSUME PriceIInv, inbox # <<>>, inbox' = Tail(inbox), GetAllPrices(Head(inbox)), UNCHANGED <<clock, fetch, historical>>
  PROVE  PriceIInv'
<1> USE DEF PriceIInv
<1> DEFINE told == [u \in {v \in Uids : registry[v].known} |-> registry[u].rate]
<1>1. /\ UNCHANGED <<registry, pricing>> /\ inbox[1].kind = "all" /\ 1 \in DOMAIN inbox /\ inbox' \in Seq(Messages)
      /\ recorder' = [recorder EXCEPT !.phase = "told", !.prices = told]
  BY InboxShrinks DEF GetAllPrices
<1>2. recorder.phase = "asked"
  BY <1>1 DEF OneRecording
<1>3. registry \in [Uids -> [rate : Nat, timestamp : Nat, known : BOOLEAN]]
  BY DEF PriceTypeOK
<1>4. /\ DOMAIN told \subseteq Uids
      /\ \A u \in DOMAIN told : told[u] = registry[u].rate /\ told[u] \in Nat
  BY <1>3
<1> HIDE DEF told
<1>5. recorder \in [phase : {"idle", "asked", "told"}, minute : Nat, next : Nat, prices : {recorder.prices}]
  BY DEF PriceTypeOK
<1>6. /\ recorder' \in [phase : {"idle", "asked", "told"}, minute : Nat, next : Nat, prices : {recorder'.prices}]
      /\ recorder'.prices = told /\ recorder'.phase = "told" /\ recorder'.minute = recorder.minute
      /\ recorder'.next = recorder.next
  BY <1>1, <1>5
<1>7. PriceTypeOK'
  BY <1>1, <1>4, <1>6 DEF PriceTypeOK, Messages
<1>8. SamplesDated' /\ SamplesInOrder'
  BY <1>1, TakeRest DEF SamplesDated, SamplesInOrder
<1>9. OneRecording'
  BY <1>1, TakeRest DEF OneRecording
<1>10. RowsInOrder'
  <2>1. \A u \in DOMAIN told : told[u] <= registry[u].rate
    BY <1>4
  <2>2. \A k \in DOMAIN historical :
          /\ k[2] < recorder.next /\ k[2] < recorder.minute /\ historical[k] <= registry[k[1]].rate
          /\ \A l \in DOMAIN historical : k[1] = l[1] /\ k[2] < l[2] => historical[k] <= historical[l]
    BY <1>2 DEF RowsInOrder
  <2>3. \A k \in DOMAIN historical : k[1] \in DOMAIN told => historical[k] <= told[k[1]]
    BY <1>4, <2>2
  <2>4. recorder.next = recorder.minute + 1
    BY <1>2 DEF RowsInOrder
  <2> QED
    BY <1>1, <1>6, <2>1, <2>2, <2>3, <2>4 DEF RowsInOrder
<1>11. PricesAge' /\ CoinsAgree'
  BY <1>1, Zenon DEF PricesAge, CoinsAgree
<1> QED
  BY <1>7, <1>8, <1>9, <1>10, <1>11

LEMMA RecorderAsksStep ==
  ASSUME PriceIInv, RecorderAsks
  PROVE  PriceIInv'
<1> USE DEF PriceIInv
<1> DEFINE m == [kind |-> "all"]
<1>1. /\ UNCHANGED <<clock, fetch, registry, pricing, historical>> /\ inbox' = Append(inbox, m)
      /\ recorder.phase = "idle" /\ clock >= recorder.next
      /\ recorder' = [recorder EXCEPT !.phase = "asked", !.minute = clock, !.next = clock + 1]
  BY DEF RecorderAsks
<1>2. m \in Messages /\ m.kind = "all"
  BY DEF Messages
<1> HIDE DEF m
<1>3. /\ inbox' \in Seq(Messages) /\ Updates' = Updates
      /\ DOMAIN inbox' = (DOMAIN inbox) \cup {Len(inbox) + 1}
      /\ \A i \in DOMAIN inbox : inbox'[i] = inbox[i]
      /\ \A i \in Updates : inbox'[i] = inbox[i]
  BY <1>1, <1>2, InboxGrows DEF Updates
<1>4. /\ recorder \in [phase : {"idle", "asked", "told"}, minute : Nat, next : Nat, prices : {recorder.prices}]
      /\ clock \in Nat /\ clock + 1 \in Nat
  BY DEF PriceTypeOK
<1>5. /\ recorder' \in [phase : {"idle", "asked", "told"}, minute : Nat, next : Nat, prices : {recorder'.prices}]
      /\ recorder'.prices = recorder.prices /\ recorder'.phase = "asked" /\ recorder'.minute = clock
      /\ recorder'.next = clock + 1
  BY <1>1, <1>4
<1>6. PriceTypeOK'
  BY <1>1, <1>3, <1>5 DEF PriceTypeOK, Messages
<1>7. SamplesDated' /\ SamplesInOrder'
  BY <1>1, <1>3 DEF SamplesDated, SamplesInOrder
<1>8. OneRecording'
  BY <1>1, <1>3, <1>5 DEF OneRecording
<1>9. RowsInOrder'
  <2>1. \A k \in DOMAIN historical :
          /\ k[2] < recorder.next /\ k[2] \in Nat /\ historical[k] <= registry[k[1]].rate
          /\ \A l \in DOMAIN historical : k[1] = l[1] /\ k[2] < l[2] => historical[k] <= historical[l]
    BY DEF RowsInOrder, PriceTypeOK
  <2>2. recorder.next \in Nat
    BY <1>4
  <2>3. \A k \in DOMAIN historical : k[2] < clock /\ k[2] < clock + 1
    BY <1>1, <1>4, <2>1, <2>2
  <2> QED
    BY <1>1, <1>5, <2>1, <2>3 DEF RowsInOrder
<1>10. PricesAge' /\ CoinsAgree'
  BY <1>1, Zenon DEF PricesAge, CoinsAgree
<1> QED
  BY <1>6, <1>7, <1>8, <1>9, <1>10

LEMMA RecorderDoneStep ==
  ASSUME PriceIInv, StoreHistoricalUsdPrices \/ StoreFails
  PROVE  PriceIInv'
<1> USE DEF PriceIInv
<1>1. /\ UNCHANGED <<clock, fetch, inbox, registry, pricing>> /\ recorder.phase = "told" /\ Updates' = Updates
      /\ recorder' = [recorder EXCEPT !.phase = "idle", !.prices = <<>>]
  BY DEF StoreHistoricalUsdPrices, StoreFails, Updates
<1>2. /\ recorder \in [phase : {"idle", "asked", "told"}, minute : Nat, next : Nat, prices : {recorder.prices}]
      /\ DOMAIN <<>> = {}
  BY DEF PriceTypeOK
<1>3. /\ recorder' \in [phase : {"idle", "asked", "told"}, minute : Nat, next : Nat, prices : {recorder'.prices}]
      /\ recorder'.prices = <<>> /\ recorder'.phase = "idle" /\ recorder'.next = recorder.next
  BY <1>1, <1>2
<1> DEFINE minute == recorder.minute
           new == (DOMAIN recorder.prices) \X {minute}
           old == DOMAIN historical
<1>4. /\ recorder.next = minute + 1 /\ minute \in Nat
      /\ \A u \in DOMAIN recorder.prices :
           u \in Uids /\ recorder.prices[u] \in Nat /\ recorder.prices[u] <= registry[u].rate
      /\ \A k \in old :
           /\ k \in Uids \X Nat /\ historical[k] \in Nat
           /\ k[2] < minute /\ historical[k] <= registry[k[1]].rate
           /\ k[1] \in DOMAIN recorder.prices => historical[k] <= recorder.prices[k[1]]
           /\ \A l \in old : k[1] = l[1] /\ k[2] < l[2] => historical[k] <= historical[l]
  BY <1>1, <1>2 DEF PriceTypeOK, RowsInOrder
<1>5. /\ DOMAIN historical' \subseteq Uids \X Nat
      /\ \A k \in DOMAIN historical' :
           \/ k \in new /\ historical'[k] = recorder.prices[k[1]]
           \/ k \in old /\ historical'[k] = historical[k]
  <2>1. CASE StoreFails
    BY <1>4, <2>1 DEF StoreFails
  <2>2. CASE StoreHistoricalUsdPrices
    <3>1. historical' = [k \in new \cup old |-> IF k \in new THEN recorder.prices[k[1]] ELSE historical[k]]
      BY <2>2 DEF StoreHistoricalUsdPrices
    <3>2. new \subseteq Uids \X Nat /\ old \subseteq Uids \X Nat
      BY <1>4
    <3> HIDE DEF new, old
    <3> QED
      BY <3>1, <3>2
  <2> QED
    BY <2>1, <2>2
<1>6. \A k \in new : k[1] \in DOMAIN recorder.prices /\ k[2] = minute
  OBVIOUS
<1> HIDE DEF new, old, minute
<1>7. \A k \in DOMAIN historical' :
        /\ historical'[k] \in Nat /\ k[2] < minute + 1 /\ historical'[k] <= registry[k[1]].rate
        /\ \A l \in DOMAIN historical' : k[1] = l[1] /\ k[2] < l[2] => historical'[k] <= historical'[l]
  <2> TAKE k \in DOMAIN historical'
  <2>1. historical'[k] \in Nat /\ k[2] < minute + 1 /\ historical'[k] <= registry[k[1]].rate
    BY <1>4, <1>5, <1>6
  <2>2. ASSUME NEW l \in DOMAIN historical', k[1] = l[1], k[2] < l[2]
        PROVE  historical'[k] <= historical'[l]
    <3>1. k \in old /\ historical'[k] = historical[k] /\ k[1] \in Uids
      BY <1>4, <1>5, <1>6, <2>2
    <3>2. CASE l \in old /\ historical'[l] = historical[l]
      BY <1>4, <2>2, <3>1, <3>2
    <3>3. CASE l \in new /\ historical'[l] = recorder.prices[l[1]]
      BY <1>4, <1>6, <2>2, <3>1, <3>3
    <3> QED
      BY <1>5, <3>2, <3>3
  <2> QED
    BY <2>1, <2>2
<1>8. RowsInOrder'
  BY <1>1, <1>3, <1>4, <1>7 DEF RowsInOrder
<1>9. PriceTypeOK'
  BY <1>1, <1>2, <1>3, <1>5, <1>7 DEF PriceTypeOK
<1>10. SamplesDated' /\ SamplesInOrder'
  BY <1>1, Zenon DEF SamplesDated, SamplesInOrder
<1>11. OneRecording'
  BY <1>1 DEF OneRecording
<1>12. PricesAge' /\ CoinsAgree'
  BY <1>1, Zenon DEF PricesAge, CoinsAgree
<1> QED
  BY <1>8, <1>9, <1>10, <1>11, <1>12

LEMMA PriceTickStep ==
  ASSUME PriceIInv, PriceTick
  PROVE  PriceIInv'
<1> USE DEF PriceIInv
<1>1. UNCHANGED <<fetch, inbox, registry, pricing, recorder, historical>> /\ clock' = clock + 1 /\ Updates' = Updates
  BY DEF PriceTick, Updates
<1>2. /\ clock \in Nat /\ clock' \in Nat /\ fetch.timestamp \in Nat /\ fetch.sample \in Nat
      /\ \A u \in Uids : registry[u].rate \in Nat
  BY <1>1 DEF PriceTypeOK
<1>3. \A i \in Updates : inbox[i].rate \in Nat
  <2> TAKE i \in Updates
  <2>1. inbox \in Seq(Messages) /\ i \in DOMAIN inbox /\ inbox[i].kind = "update"
    BY DEF PriceTypeOK, Messages, Updates
  <2>2. inbox[i] \in Messages
    BY <2>1, ElementOfSeq, LenProperties
  <2> QED
    BY <2>1, <2>2, MessageFields DEF Update
<1>4. PriceTypeOK'
  BY <1>1, <1>2 DEF PriceTypeOK
<1>5. SamplesDated'
  BY <1>1, <1>2, <1>3 DEF SamplesDated
<1>6. SamplesInOrder' /\ OneRecording' /\ RowsInOrder' /\ PricesAge' /\ CoinsAgree'
  BY <1>1, Zenon DEF SamplesInOrder, OneRecording, RowsInOrder, PricesAge, CoinsAgree
<1> QED
  BY <1>4, <1>5, <1>6

LEMMA PriceStep ==
  ASSUME PriceIInv, [PriceNext]_priceVars
  PROVE  PriceIInv'
<1>1. CASE UNCHANGED priceVars
  <2>1. UNCHANGED <<clock, fetch, inbox, registry, pricing, recorder, historical>> /\ Updates' = Updates
    BY <1>1 DEF priceVars, Updates
  <2> QED
    BY <2>1, Zenon DEF PriceIInv, PriceTypeOK, SamplesDated, SamplesInOrder, OneRecording, RowsInOrder, PricesAge,
       CoinsAgree
<1>2. CASE TakeMessage
  <2>1. inbox # <<>> /\ inbox' = Tail(inbox) /\ UNCHANGED <<clock, fetch, historical>>
    BY <1>2 DEF TakeMessage
  <2>2. InsertUsd(Head(inbox)) \/ Lookup(Head(inbox)) \/ LookupUsd(Head(inbox)) \/ GetAllPrices(Head(inbox))
    BY <1>2 DEF TakeMessage
  <2> QED
    BY <2>1, <2>2, InsertStep, PriceLookupStep, GetAllStep
<1>3. CASE UpdatePrices \/ (\E coins \in Responses : FeedSamples(coins)) \/ FeedFails
  BY <1>3, FetchStep
<1>4. ASSUME NEW p \in Pricings,
             \/ \E pair \in Pairs : NativeConversionRate(p, pair[1], pair[2])
             \/ \E uid \in UsdUids : UsdConversionRate(p, uid)
      PROVE  PriceIInv'
  BY <1>4, AskPriceStep
<1> QED
  BY <1>1, <1>2, <1>3, <1>4, FeedAnswersStep, RecorderAsksStep, RecorderDoneStep, PriceTickStep, Zenon DEF PriceNext

\* Two readings of a uid's history: the row nearest to the later time is not the earlier one.
LEMMA NearestRows ==
  ASSUME PriceIInv, NEW u \in Uids, NEW m \in Nat, NEW n \in Nat, m < n,
         NEW x \in ReadHistoricalUsdPrices(u, m), NEW y \in ReadHistoricalUsdPrices(u, n)
  PROVE  x <= y
<1> DEFINE Far(k, t) == IF k[2] > t THEN k[2] - t ELSE t - k[2]
           Near(t) == {k \in DOMAIN historical : k[1] = u /\ Far(k, t) <= 5}
<1>1. PICK k \in Near(m) : x = historical[k] /\ \A l \in Near(m) : Far(k, m) <= Far(l, m)
  BY DEF ReadHistoricalUsdPrices
<1>2. PICK l \in Near(n) : y = historical[l] /\ \A j \in Near(n) : Far(l, n) <= Far(j, n)
  BY DEF ReadHistoricalUsdPrices
<1>3. /\ k \in Uids \X Nat /\ l \in Uids \X Nat /\ k[1] = u /\ l[1] = u /\ k \in DOMAIN historical
      /\ l \in DOMAIN historical /\ historical[k] \in Nat
  BY <1>1, <1>2 DEF PriceIInv, PriceTypeOK
<1>4. k[2] \in Nat /\ l[2] \in Nat
  BY <1>3
<1>5. CASE k[2] < l[2]
  BY <1>1, <1>2, <1>3, <1>5 DEF PriceIInv, RowsInOrder
<1>6. CASE k[2] = l[2]
  <2>1. k = l
    BY <1>3, <1>6
  <2> QED
    BY <1>1, <1>2, <1>3, <2>1
<1>7. CASE l[2] < k[2]
  <2>1. Far(k, m) <= 5 /\ Far(l, n) <= 5
    OBVIOUS
  <2>2. Far(l, m) <= 5 => Far(k, m) <= Far(l, m)
    BY <1>1, <1>3
  <2>3. Far(k, n) <= 5 => Far(l, n) <= Far(k, n)
    BY <1>2, <1>3
  <2> QED
    BY <1>4, <1>7, <2>1, <2>2, <2>3
<1> QED
  BY <1>4, <1>5, <1>6, <1>7

\* For any feed, coins and number of requests, with the feed's response, the lookups and
\* the recorder's reads in any order: a quote is computed with rates that were the market's
\* at most rate_ttl before the oracle answered, the uids of a coin have one price, and a
\* price read back for a later time is never an older one.
THEOREM RatesStayFresh == PriceSpec => []RatesAreFresh
<1>1. PriceInit => PriceIInv
  <2> SUFFICES ASSUME PriceInit PROVE PriceIInv
    OBVIOUS
  <2>1. /\ clock = 0 /\ inbox = <<>> /\ historical = <<>> /\ DOMAIN <<>> = {}
        /\ fetch = [phase |-> "idle", timestamp |-> 0, sample |-> 0, has |-> {}, next |-> 0]
        /\ recorder = [phase |-> "idle", minute |-> 0, next |-> 0, prices |-> <<>>]
        /\ <<>> \in Seq(Nat) /\ Updates = {}
    BY DEF PriceInit, Updates
  <2>2. registry = [u \in Uids |-> [rate |-> 0, timestamp |-> 0, known |-> FALSE]]
    BY DEF PriceInit, Unpriced
  <2>3. pricing = [p \in Pricings |-> [phase |-> "new", from |-> "none", to |-> "none", rate |-> <<>>, at |-> 0]]
    BY DEF PriceInit, NoRate
  <2>4. PriceTypeOK
    BY <2>1, <2>2, <2>3 DEF PriceTypeOK
  <2>5. SamplesDated /\ SamplesInOrder /\ OneRecording
    BY <2>1, <2>2 DEF SamplesDated, SamplesInOrder, OneRecording
  <2>6. RowsInOrder /\ PricesAge /\ CoinsAgree
    BY <2>1, <2>2, <2>3 DEF RowsInOrder, PricesAge, CoinsAgree
  <2> QED
    BY <2>4, <2>5, <2>6 DEF PriceIInv
<1>2. PriceIInv /\ [PriceNext]_priceVars => PriceIInv'
  BY PriceStep
<1>3. PriceIInv => RatesAreFresh
  <2> SUFFICES ASSUME PriceIInv PROVE RatesAreFresh
    OBVIOUS
  <2>1. \A u \in Uids : \A m, n \in 0..MaxClock : m < n =>
          \A x \in ReadHistoricalUsdPrices(u, m), y \in ReadHistoricalUsdPrices(u, n) : x <= y
    BY NearestRows, PriceAssumption
  <2> QED
    BY <2>1 DEF RatesAreFresh, PriceIInv, PricesAge, CoinsAgree
<1> QED
  BY <1>1, <1>2, <1>3, PTL DEF PriceSpec

-----------------------------------------------------------------------------
(* Calls and their statuses *)

QuoteIndex == 0..MaxQuotes
TxRow == [at : {"none", "pending", "inflight", "failed"}] \cup [at : {"confirmed"}, ok : BOOLEAN, ahead : BOOLEAN]
SendRow == [phase : {"new", "refused", "sent"}] \cup [phase : {"ready"}, of : Bundles]
           \cup [phase : {"preparing"}, of : Bundles, left : SUBSET QuoteIndex]

LEMMA TxOfRequest ==
  ASSUME NEW t \in Sends \X QuoteIndex
  PROVE  t[1] \in Sends /\ t[2] \in QuoteIndex /\ t = <<t[1], t[2]>>
  OBVIOUS

LEMMA IndicesType ==
  ASSUME NEW b \in Bundles
  PROVE  /\ Indices(b) \subseteq QuoteIndex /\ SourcesOf(b) \subseteq Indices(b)
         /\ Quoted[b].quotes \in Indices(b) /\ (Quoted[b].payer => 0 \in Indices(b))
         /\ ~Multi(b) => Indices(b) = {1}
  BY CallsAssumption DEF Indices, SourcesOf, Multi, QuoteIndex

LEMMA SendFields ==
  ASSUME CallsTypeOK, NEW s \in Sends
  PROVE  /\ send[s].phase \in {"new", "refused", "sent", "ready", "preparing"}
         /\ send[s].phase = "ready" => send[s] \in [phase : {"ready"}, of : Bundles]
         /\ send[s].phase = "preparing" => send[s] \in [phase : {"preparing"}, of : Bundles, left : SUBSET QuoteIndex]
  BY DEF CallsTypeOK, QuoteIndex

LEMMA TxFields ==
  ASSUME CallsTypeOK, NEW t \in AllTxs
  PROVE  /\ txs[t] \in TxRow /\ txs[t].at \in {"none", "pending", "inflight", "failed", "confirmed"}
         /\ txs[t].at = "confirmed" => txs[t] \in [at : {"confirmed"}, ok : BOOLEAN, ahead : BOOLEAN]
  BY DEF CallsTypeOK, TxRow

LEMMA BundleFields ==
  ASSUME CallsTypeOK, NEW s \in Sends, bundle[s] # None
  PROVE  bundle[s] \in BundleRow /\ bundle[s].of \in Bundles /\ bundle[s].at \in BundleStages
  BY DEF CallsTypeOK, BundleRow

LEMMA BehindType ==
  ASSUME NEW b \in Bundles, NEW at
  PROVE  Behind(b, at) \subseteq Indices(b) /\ Behind(b, at) \subseteq QuoteIndex
<1>1. Behind(b, at) \subseteq Indices(b)  BY DEF Behind
<1> QED  BY <1>1, IndicesType

\* How an ended transaction of request r ended stays so.
EndsStay(r) ==
  \A i \in QuoteIndex :
    /\ Succeeded(<<r, i>>) => Succeeded(<<r, i>>)'
    /\ Ended(<<r, i>>) /\ ~Succeeded(<<r, i>>) => Ended(<<r, i>>)' /\ ~Succeeded(<<r, i>>)'

\* A row that stays tells of its transactions what it told, if they ended as they did.
LEMMA RowKept ==
  ASSUME CallsIInv, NEW r \in Sends, bundle'[r] = bundle[r], send[r].phase = "sent" => send'[r].phase = "sent",
         \A c \in Bundles : Complete(r, c) => Complete(r, c)', send[r].phase = "sent" => EndsStay(r)
  PROVE  RowOfSent(r)'
<1> SUFFICES ASSUME bundle[r] # None PROVE RowOfSent(r)'  BY DEF RowOfSent
<1> PICK row : row = bundle[r]  OBVIOUS
<1> PICK b \in Bundles : b = row.of  BY BundleFields DEF CallsIInv
<1>1. /\ send[r].phase = "sent" /\ Complete(r, b)
      /\ \A i \in Behind(b, row.at) : Succeeded(<<r, i>>)
      /\ row.at = "payer" => Quoted[b].payer
      /\ row.at = "failed" /\ row.from # "settlement" => \E i \in Indices(b) : Ended(<<r, i>>) /\ ~Succeeded(<<r, i>>)
  BY DEF CallsIInv, BundlesOfSent, RowOfSent
<1>2. send'[r].phase = "sent" /\ Complete(r, b)'  BY <1>1
<1>3. \A i \in Behind(b, row.at) : Succeeded(<<r, i>>)'  BY <1>1, BehindType DEF EndsStay
<1>4. row.at = "failed" /\ row.from # "settlement" =>
        \E i \in Indices(b) : Ended(<<r, i>>)' /\ ~Succeeded(<<r, i>>)'
  BY <1>1, IndicesType DEF EndsStay
<1>5. bundle'[r] = row  OBVIOUS
<1> QED  BY <1>1, <1>2, <1>3, <1>4, <1>5 DEF RowOfSent, Succeeded, Ended, Complete, Registered

\* The transactions registered for a bundle are transactions of requests.
LEMMA RegisteredType ==
  ASSUME CallsTypeOK, NEW b \in Bundles
  PROVE  /\ Registered(b) \subseteq Sends \X QuoteIndex /\ Registered(b) \subseteq AllTxs
         /\ (ids[b] = <<>>) = (Registered(b) = {})
         /\ ids[b] # <<>> => Head(ids[b]) \in Registered(b)
<1>1. ids[b] \in Seq(Sends \X QuoteIndex)
  BY DEF CallsTypeOK, QuoteIndex
<1>2. /\ DOMAIN ids[b] = 1..Len(ids[b]) /\ Len(ids[b]) \in Nat
      /\ \A i \in 1..Len(ids[b]) : ids[b][i] \in Sends \X QuoteIndex
      /\ (ids[b] = <<>>) = (Len(ids[b]) = 0)
  BY <1>1, LenProperties, ElementOfSeq, EmptySeq
<1>3. Registered(b) = {ids[b][i] : i \in 1..Len(ids[b])}
  BY <1>2 DEF Registered, ToSet
<1>4. Head(ids[b]) = ids[b][1]
  BY DEF Head
<1>5. Registered(b) \subseteq Sends \X QuoteIndex
  BY <1>2, <1>3
<1>6. (ids[b] = <<>>) = (Registered(b) = {})
  <2>1. Len(ids[b]) = 0 => Registered(b) = {}
    BY <1>2, <1>3
  <2>2. Len(ids[b]) # 0 => 1 \in 1..Len(ids[b])
    BY <1>2
  <2>3. Len(ids[b]) # 0 => ids[b][1] \in Registered(b)
    BY <1>3, <2>2
  <2> QED
    BY <1>2, <2>1, <2>3
<1>7. ids[b] # <<>> => Head(ids[b]) \in Registered(b)
  <2> SUFFICES ASSUME ids[b] # <<>> PROVE ids[b][1] \in Registered(b)
    BY <1>4
  <2>1. 1 \in 1..Len(ids[b])
    BY <1>2
  <2> QED
    BY <1>3, <2>1
<1> QED
  BY <1>5, <1>6, <1>7 DEF AllTxs, QuoteIndex

\* One more transaction is registered for b.
LEMMA RegisteredGrows ==
  ASSUME CallsTypeOK, NEW b \in Bundles, NEW t \in Sends \X QuoteIndex, ids' = [ids EXCEPT ![b] = Append(@, t)]
  PROVE  /\ ids' \in [Bundles -> Seq(Sends \X QuoteIndex)]
         /\ Registered(b)' = Registered(b) \cup {t}
         /\ \A c \in Bundles : c # b => Registered(c)' = Registered(c)
         /\ \A c \in Bundles : Registered(c) \subseteq Registered(c)'
<1>1. ids \in [Bundles -> Seq(Sends \X QuoteIndex)] /\ ids[b] \in Seq(Sends \X QuoteIndex)
  BY DEF CallsTypeOK, QuoteIndex
<1>2. ids'[b] = Append(ids[b], t) /\ \A c \in Bundles : c # b => ids'[c] = ids[c]
  BY <1>1
<1>3. /\ Append(ids[b], t) \in Seq(Sends \X QuoteIndex) /\ Len(Append(ids[b], t)) = Len(ids[b]) + 1
      /\ \A i \in 1..Len(ids[b]) : Append(ids[b], t)[i] = ids[b][i]
      /\ Append(ids[b], t)[Len(ids[b]) + 1] = t /\ Len(ids[b]) \in Nat
      /\ DOMAIN ids[b] = 1..Len(ids[b])
  BY <1>1, AppendProperties, LenProperties
<1>4. DOMAIN Append(ids[b], t) = 1..(Len(ids[b]) + 1)
  BY <1>3, LenProperties
<1>5. Registered(b)' = {ids'[b][i] : i \in DOMAIN ids'[b]} /\ Registered(b) = {ids[b][i] : i \in DOMAIN ids[b]}
  BY DEF Registered, ToSet
<1>6. Registered(b)' = Registered(b) \cup {t}
  BY <1>2, <1>3, <1>4, <1>5
<1>7. ids' \in [Bundles -> Seq(Sends \X QuoteIndex)]
  BY <1>1, <1>3
<1>8. \A c \in Bundles : c # b => Registered(c)' = Registered(c)
  BY <1>2 DEF Registered
<1> QED
  BY <1>6, <1>7, <1>8

\* A step of a request that registers nothing and hands nothing over.
LEMMA QuietSend ==
  ASSUME CallsIInv, NEW s \in Sends, NEW q \in SendRow, send' = [send EXCEPT ![s] = q], UNCHANGED <<ids, txs, bundle, faucet>>,
         send[s].phase # "sent", q.phase \notin {"new", "ready"},
         q.phase = "preparing" => q.left = Indices(q.of) /\ send[s].phase = "new"
  PROVE  CallsIInv'
<1> USE DEF CallsIInv
<1>1. send \in [Sends -> SendRow]
  BY DEF CallsTypeOK, SendRow, QuoteIndex
<1>2. /\ send' \in [Sends -> SendRow] /\ send'[s] = q /\ \A r \in Sends : r # s => send'[r] = send[r]
  BY <1>1
<1>3. \A b \in Bundles : Registered(b)' = Registered(b)
  BY DEF Registered
<1>4. CallsTypeOK'
  BY <1>2 DEF CallsTypeOK, SendRow, QuoteIndex
<1>5. \A b \in Bundles : \A t \in Registered(b) : t[1] \in Sends
  BY RegisteredType
<1>6. RequestsRegister'
  <2>1. ASSUME NEW b \in Bundles, NEW t \in Registered(b)
        PROVE  /\ t[2] \in Indices(b) /\ send'[t[1]].phase # "new"
               /\ send'[t[1]].phase \in {"preparing", "ready"} => send'[t[1]].of = b
               /\ \A c \in Bundles : \A u \in Registered(c) : t[1] = u[1] => b = c
    <3>1. /\ t[2] \in Indices(b) /\ send[t[1]].phase # "new"
          /\ send[t[1]].phase \in {"preparing", "ready"} => send[t[1]].of = b
          /\ \A c \in Bundles : \A u \in Registered(c) : t[1] = u[1] => b = c
      BY DEF RequestsRegister
    <3> QED
      BY <1>2, <1>5, <3>1
  <2>2. ASSUME NEW r \in Sends
        PROVE  /\ send'[r].phase = "preparing" =>
                    /\ send'[r].left \subseteq Indices(send'[r].of)
                    /\ \A i \in Indices(send'[r].of) : i \in send'[r].left \/ <<r, i>> \in Registered(send'[r].of)
               /\ send'[r].phase = "ready" => \A i \in Indices(send'[r].of) : <<r, i>> \in Registered(send'[r].of)
    BY <1>2 DEF RequestsRegister, Complete
  <2>3. \A r \in Sends : send'[r].phase \in {"preparing", "ready"} => send'[r].of \in Bundles
    BY <1>2 DEF SendRow
  <2> QED
    BY <1>3, <2>1, <2>2, <2>3 DEF RequestsRegister, Complete
<1>7. \A b \in Bundles, r \in Sends : Complete(r, b)' = Complete(r, b)
  BY <1>3 DEF Complete
<1>8. RowsOfSent'
  BY <1>2, <1>3, <1>5, <1>7 DEF RowsOfSent
<1>9. BundlesOfSent'
  <2> SUFFICES ASSUME NEW r \in Sends PROVE RowOfSent(r)'  BY DEF BundlesOfSent
  <2>1. EndsStay(r)  BY DEF EndsStay, Ended, Succeeded
  <2>2. send[r].phase = "sent" => send'[r].phase = "sent"  BY <1>2
  <2> QED  BY <1>7, <2>1, <2>2, RowKept
<1>10. FaucetsTold'
  BY DEF FaucetsTold
<1> QED
  BY <1>4, <1>6, <1>8, <1>9, <1>10

LEMMA SendPreparedStep ==
  ASSUME CallsIInv, NEW s \in Sends, NEW b \in Bundles, NEW how, SendPreparedCalls(s, b, how)
  PROVE  CallsIInv'
<1>1. CASE Incomplete(b, how) \/ Refused(b, how)
  <2>1. send' = [send EXCEPT ![s] = [phase |-> "refused"]] /\ [phase |-> "refused"] \in SendRow
        /\ send[s].phase = "new" /\ UNCHANGED <<ids, txs, bundle, faucet>>
    BY <1>1 DEF SendPreparedCalls, SendRow
  <2> QED
    BY <2>1, QuietSend
<1>2. CASE ~(Incomplete(b, how) \/ Refused(b, how))
  <2> DEFINE q == [phase |-> "preparing", of |-> b, left |-> Indices(b)]
  <2>1. send' = [send EXCEPT ![s] = q] /\ send[s].phase = "new" /\ UNCHANGED <<ids, txs, bundle, faucet>>
    BY <1>2 DEF SendPreparedCalls
  <2>2. q \in SendRow /\ q.phase = "preparing" /\ q.left = Indices(q.of)
    BY IndicesType DEF SendRow
  <2> HIDE DEF q
  <2> QED
    BY <2>1, <2>2, QuietSend
<1> QED
  BY <1>1, <1>2

LEMMA PrepareFailsStep ==
  ASSUME CallsIInv, NEW s \in Sends, PrepareTxFails(s)
  PROVE  CallsIInv'
<1>1. send' = [send EXCEPT ![s] = [phase |-> "refused"]] /\ [phase |-> "refused"] \in SendRow
      /\ send[s].phase = "preparing" /\ UNCHANGED <<ids, txs, bundle, faucet>>
  BY DEF PrepareTxFails, SendRow
<1> QED
  BY <1>1, QuietSend

LEMMA PrepareStep ==
  ASSUME CallsIInv, NEW s \in Sends, NEW i \in QuoteIndex, PrepareTxOf(s, i)
  PROVE  CallsIInv'
<1> USE DEF CallsIInv
<1>1. send[s].phase = "preparing" /\ i \in send[s].left /\ UNCHANGED <<txs, bundle, faucet>>
  BY DEF PrepareTxOf
<1>2. send \in [Sends -> SendRow]
  BY DEF CallsTypeOK, SendRow, QuoteIndex
<1>3. send[s] \in [phase : {"preparing"}, of : Bundles, left : SUBSET QuoteIndex]
  BY <1>1, SendFields
<1> PICK b \in Bundles : b = send[s].of
  BY <1>3
<1> PICK left \in SUBSET QuoteIndex : left = send[s].left \ {i}
  BY <1>3
<1>4. ids' = [ids EXCEPT ![b] = Append(@, <<s, i>>)]
  BY DEF PrepareTxOf
<1>5. PICK q \in SendRow :
        /\ send' = [send EXCEPT ![s] = q] /\ q.phase \in {"ready", "preparing"} /\ q.of = b
        /\ q.phase = "preparing" => q.left = left
        /\ q.phase = "ready" => left = {}
  <2>1. CASE left = {}
    <3>1. send' = [send EXCEPT ![s] = [phase |-> "ready", of |-> b]]
      BY <2>1 DEF PrepareTxOf
    <3> DEFINE q == [phase |-> "ready", of |-> b]
    <3>2. q \in SendRow /\ q.phase = "ready" /\ q.of = b
      BY DEF SendRow
    <3> HIDE DEF q
    <3> QED
      BY <2>1, <3>1, <3>2 DEF q
  <2>2. CASE left # {}
    <3>1. send' = [send EXCEPT ![s] = [send[s] EXCEPT !.left = left]]
      BY <2>2 DEF PrepareTxOf
    <3> DEFINE q == [send[s] EXCEPT !.left = left]
    <3>2. q \in SendRow /\ q.phase = "preparing" /\ q.of = b /\ q.left = left
      BY <1>3 DEF SendRow
    <3> HIDE DEF q
    <3> QED
      BY <3>1, <3>2 DEF q
  <2> QED
    BY <2>1, <2>2
<1>6. <<s, i>> \in Sends \X QuoteIndex
  OBVIOUS
<1>7. /\ left \subseteq Indices(b) /\ i \in Indices(b)
      /\ \A j \in Indices(b) : j = i \/ j \in left \/ <<s, j>> \in Registered(b)
  BY <1>1 DEF RequestsRegister
<1>8. send' \in [Sends -> SendRow] /\ send'[s] = q /\ \A r \in Sends : r # s => send'[r] = send[r]
  BY <1>2, <1>5
<1>9. /\ ids' \in [Bundles -> Seq(Sends \X QuoteIndex)]
      /\ Registered(b)' = Registered(b) \cup {<<s, i>>}
      /\ \A c \in Bundles : c # b => Registered(c)' = Registered(c)
      /\ \A c \in Bundles : Registered(c) \subseteq Registered(c)'
  <2>1. PICK t \in Sends \X QuoteIndex : t = <<s, i>>
    BY <1>6
  <2>2. ids' = [ids EXCEPT ![b] = Append(@, t)]
    BY <1>4, <2>1
  <2>3. /\ ids' \in [Bundles -> Seq(Sends \X QuoteIndex)]
        /\ Registered(b)' = Registered(b) \cup {t}
        /\ \A c \in Bundles : c # b => Registered(c)' = Registered(c)
        /\ \A c \in Bundles : Registered(c) \subseteq Registered(c)'
    BY <2>2, RegisteredGrows
  <2> QED
    BY <2>1, <2>3
<1>10. CallsTypeOK'
  BY <1>1, <1>8, <1>9 DEF CallsTypeOK, SendRow, QuoteIndex
<1>11. \A c \in Bundles : \A t \in Registered(c) : t[1] \in Sends
  BY RegisteredType
<1>12. \A c \in Bundles : \A t \in Registered(c)' : t \in Registered(c) \/ (c = b /\ t = <<s, i>>)
  BY <1>9
<1>13. \A c \in Bundles : \A t \in Registered(c)' : t[1] = s => c = b
  <2>1. \A c \in Bundles : \A t \in Registered(c) : t[1] = s => c = b
    BY <1>1 DEF RequestsRegister
  <2> QED
    BY <1>12, <2>1
<1>14. RequestsRegister'
  <2>1. ASSUME NEW c \in Bundles, NEW t \in Registered(c)'
        PROVE  /\ t[2] \in Indices(c) /\ send'[t[1]].phase # "new"
               /\ send'[t[1]].phase \in {"preparing", "ready"} => send'[t[1]].of = c
               /\ \A d \in Bundles : \A u \in Registered(d)' : t[1] = u[1] => c = d
    <3>1. CASE t[1] = s
      <4>1. c = b /\ \A d \in Bundles : \A u \in Registered(d)' : t[1] = u[1] => c = d
        BY <1>13, <3>1
      <4>2. t[2] \in Indices(c)
        BY <1>7, <1>12, <4>1 DEF RequestsRegister
      <4> QED
        BY <1>5, <1>8, <3>1, <4>1, <4>2
    <3>2. CASE t[1] # s
      <4>1. t \in Registered(c) /\ t[1] \in Sends /\ send'[t[1]] = send[t[1]]
        BY <1>8, <1>11, <1>12, <3>2
      <4>2. \A d \in Bundles : \A u \in Registered(d)' : t[1] = u[1] => u \in Registered(d)
        BY <1>12, <3>2
      <4> QED
        BY <4>1, <4>2 DEF RequestsRegister
    <3> QED
      BY <3>1, <3>2
  <2>2. ASSUME NEW r \in Sends, NEW c \in Bundles, send'[r].of = c
        PROVE  /\ send'[r].phase = "preparing" =>
                    /\ send'[r].left \subseteq Indices(c)
                    /\ \A j \in Indices(c) : j \in send'[r].left \/ <<r, j>> \in Registered(c)'
               /\ send'[r].phase = "ready" => \A j \in Indices(c) : <<r, j>> \in Registered(c)'
    <3>1. CASE r = s
      <4>1. \A j \in Indices(b) : j \in left \/ <<s, j>> \in Registered(b)'
        BY <1>7, <1>9
      <4>2. send'[r] = q /\ c = b
        BY <1>5, <1>8, <2>2, <3>1
      <4> QED
        BY <1>5, <1>7, <3>1, <4>1, <4>2
    <3>2. CASE r # s
      <4>1. send'[r] = send[r] /\ send[r].of = c
        BY <1>8, <2>2, <3>2
      <4>2. /\ send[r].phase = "preparing" =>
                 /\ send[r].left \subseteq Indices(c)
                 /\ \A j \in Indices(c) : j \in send[r].left \/ <<r, j>> \in Registered(c)
            /\ send[r].phase = "ready" => \A j \in Indices(c) : <<r, j>> \in Registered(c)
        BY <4>1 DEF RequestsRegister, Complete
      <4> QED
        BY <1>9, <4>1, <4>2
    <3> QED
      BY <3>1, <3>2
  <2>3. \A r \in Sends : send'[r].phase \in {"preparing", "ready"} => send'[r].of \in Bundles
    BY <1>8 DEF SendRow
  <2> QED
    BY <2>1, <2>2, <2>3 DEF RequestsRegister, Complete
<1>15. \A c \in Bundles, r \in Sends : Complete(r, c) => Complete(r, c)'
  BY <1>9 DEF Complete
<1>16. RowsOfSent'
  <2>1. txs[<<s, i>>].at = "none"
    BY <1>1 DEF RowsOfSent, QuoteIndex
  <2>2. \A r \in Sends : send'[r].phase # "sent" => send[r].phase # "sent"
    BY <1>1, <1>8
  <2>3. \A c \in Bundles : \A t \in Registered(c)' :
          txs[t].at # "none" => Complete(t[1], c)' /\ (Multi(c) => bundle[t[1]] # None)
    BY <1>11, <1>12, <1>15, <2>1 DEF RowsOfSent
  <2> QED
    BY <1>1, <2>2, <2>3 DEF RowsOfSent
<1>17. BundlesOfSent'
  <2> SUFFICES ASSUME NEW r \in Sends PROVE RowOfSent(r)'  BY DEF BundlesOfSent
  <2>1. EndsStay(r) /\ bundle' = bundle  BY <1>1 DEF EndsStay, Ended, Succeeded
  <2>2. send[r].phase = "sent" => send'[r].phase = "sent"  BY <1>1, <1>8
  <2> QED  BY <1>15, <2>1, <2>2, RowKept
<1>18. FaucetsTold'
  BY <1>1 DEF FaucetsTold
<1> QED
  BY <1>10, <1>14, <1>16, <1>17, <1>18

\* A step that registers nothing and takes no request back: what it must keep.
LEMMA RegistersNothing ==
  ASSUME CallsIInv, ids' = ids, send' \in [Sends -> SendRow],
         \A r \in Sends : send'[r] = send[r] \/ (send[r].phase = "ready" /\ send'[r].phase \in {"refused", "sent"})
  PROVE  /\ RequestsRegister' /\ \A c \in Bundles : Registered(c)' = Registered(c)
         /\ \A c \in Bundles, r \in Sends : Complete(r, c)' = Complete(r, c)
<1> USE DEF CallsIInv
<1>1. \A c \in Bundles : Registered(c)' = Registered(c)
  BY DEF Registered
<1>2. \A c \in Bundles, r \in Sends : Complete(r, c)' = Complete(r, c)
  BY <1>1 DEF Complete
<1>3. ASSUME NEW c \in Bundles, NEW t \in Registered(c)
      PROVE  /\ t[2] \in Indices(c) /\ send'[t[1]].phase # "new"
             /\ send'[t[1]].phase \in {"preparing", "ready"} => send'[t[1]].of = c
             /\ \A d \in Bundles : \A u \in Registered(d) : t[1] = u[1] => c = d
  <2>1. t[1] \in Sends
    BY RegisteredType
  <2> QED
    BY <2>1 DEF RequestsRegister
<1>4. ASSUME NEW r \in Sends
      PROVE  /\ send'[r].phase = "preparing" =>
                  /\ send'[r].left \subseteq Indices(send'[r].of)
                  /\ \A j \in Indices(send'[r].of) : j \in send'[r].left \/ <<r, j>> \in Registered(send'[r].of)
             /\ send'[r].phase = "ready" => \A j \in Indices(send'[r].of) : <<r, j>> \in Registered(send'[r].of)
  BY DEF RequestsRegister, Complete
<1>5. \A r \in Sends : send'[r].phase \in {"preparing", "ready"} => send'[r].of \in Bundles
  BY DEF SendRow
<1> QED
  BY <1>1, <1>2, <1>3, <1>4, <1>5 DEF RequestsRegister, Complete

LEMMA HandOverStep ==
  ASSUME CallsIInv, NEW s \in Sends, HandOver(s)
  PROVE  CallsIInv'
<1> USE DEF CallsIInv
<1>1. send[s].phase = "ready" /\ UNCHANGED <<ids, faucet>>
  BY DEF HandOver
<1>2. send \in [Sends -> SendRow]
  BY DEF CallsTypeOK, SendRow, QuoteIndex
<1> PICK b \in Bundles : b = send[s].of
  BY <1>1, SendFields
<1>3. Complete(s, b)
  BY <1>1 DEF RequestsRegister
<1> PICK new : new = [of |-> b, at |-> "init", from |-> "init", table |-> "pending"]  OBVIOUS
<1> PICK asSent, asRefused : asSent = [phase |-> "sent"] /\ asRefused = [phase |-> "refused"]  OBVIOUS
<1>4. asSent \in SendRow /\ asRefused \in SendRow /\ asSent.phase = "sent" /\ asRefused.phase = "refused"
  BY DEF SendRow
<1>5. \/ ~Multi(b) /\ txs' = [txs EXCEPT ![<<s, 1>>] = [at |-> "pending"]] /\ send' = [send EXCEPT ![s] = asSent] /\ bundle' = bundle
      \/ Multi(b) /\ bundle' = [bundle EXCEPT ![s] = new] /\ send' = [send EXCEPT ![s] = asSent] /\ txs' = txs
      \/ Multi(b) /\ send' = [send EXCEPT ![s] = asRefused] /\ bundle' = bundle /\ txs' = txs
  BY Zenon DEF HandOver
<1>6. PICK q \in SendRow : q \in {asSent, asRefused} /\ send' = [send EXCEPT ![s] = q]
  BY <1>4, <1>5
<1>8. send' \in [Sends -> SendRow] /\ send'[s] = q /\ \A r \in Sends : r # s => send'[r] = send[r]
  BY <1>2, <1>6
<1>9. /\ RequestsRegister' /\ \A c \in Bundles : Registered(c)' = Registered(c)
      /\ \A c \in Bundles, r \in Sends : Complete(r, c)' = Complete(r, c)
  <2>1. \A r \in Sends : send'[r] = send[r] \/ (send[r].phase = "ready" /\ send'[r].phase \in {"refused", "sent"})
    BY <1>1, <1>4, <1>6, <1>8
  <2> QED
    BY <1>1, <1>8, <2>1, RegistersNothing
<1>10. \A c \in Bundles : \A t \in Registered(c) : t[1] \in Sends /\ t \in AllTxs /\ (t[1] = s => c = b)
  BY <1>1, RegisteredType DEF RequestsRegister
<1>11. \A r \in Sends : send[r].phase = "sent" => r # s /\ send'[r].phase = "sent"
  BY <1>1, <1>8
<1>12. CASE Multi(b)
  <2>1. txs' = txs
    BY <1>5, <1>12
  <2>2. bundle \in [Sends -> {None} \cup BundleRow]
    BY DEF CallsTypeOK
  <2>3. new \in BundleRow /\ new.of = b /\ new.at = "init"
    BY DEF BundleRow, BundleStages
  <2>4. bundle' = bundle \/ (bundle' = [bundle EXCEPT ![s] = new] /\ q = asSent)
    BY <1>2, <1>4, <1>5, <1>8, <1>12
  <2>5. bundle' \in [Sends -> {None} \cup BundleRow]
    BY <2>2, <2>3, <2>4
  <2>6. CallsTypeOK'
    BY <1>1, <1>8, <2>1, <2>5 DEF CallsTypeOK, SendRow, QuoteIndex
  <2>7. RowsOfSent'
    <3>1. \A r \in Sends : send'[r].phase # "sent" => send[r].phase # "sent"
      BY <1>11
    <3>2. new # None
      BY <2>3 DEF None
    <3>3. \A r \in Sends : bundle[r] # None => bundle'[r] # None
      BY <2>2, <2>4, <3>2
    <3>4. \A c \in Bundles : \A t \in Registered(c) : txs[t].at # "none" => Complete(t[1], c) /\ (Multi(c) => bundle'[t[1]] # None)
      BY <1>10, <3>3 DEF RowsOfSent
    <3> QED
      BY <1>9, <1>10, <2>1, <3>1, <3>4 DEF RowsOfSent
  <2>8. BundlesOfSent'
    <3> SUFFICES ASSUME NEW r \in Sends PROVE RowOfSent(r)'  BY DEF BundlesOfSent
    <3>1. EndsStay(r)  BY <2>1 DEF EndsStay, Ended, Succeeded
    <3>2. CASE bundle'[r] = bundle[r]  BY <1>9, <1>11, <3>1, <3>2, RowKept
    <3>3. CASE bundle'[r] # bundle[r]
      <4>1. r = s /\ bundle'[s] = new /\ q = asSent  BY <2>2, <2>4, <3>3
      <4>2. Complete(s, b)' /\ send'[s].phase = "sent"  BY <1>3, <1>4, <1>8, <1>9, <4>1
      <4>3. Behind(b, "init") = {}  BY DEF Behind
      <4> QED  BY <2>3, <4>1, <4>2, <4>3 DEF RowOfSent
    <3> QED  BY <3>2, <3>3
  <2>9. FaucetsTold'
    BY <1>1, <2>1 DEF FaucetsTold
  <2> QED
    BY <1>9, <2>6, <2>7, <2>8, <2>9
<1>13. CASE ~Multi(b)
  <2>1. txs' = [txs EXCEPT ![<<s, 1>>] = [at |-> "pending"]] /\ bundle' = bundle /\ send'[s].phase = "sent"
    BY <1>2, <1>4, <1>5, <1>13
  <2>2. 1 \in QuoteIndex /\ <<s, 1>> \in AllTxs
    BY <1>3, <1>13, IndicesType DEF AllTxs, QuoteIndex
  <2>3. txs \in [AllTxs -> TxRow] /\ [at |-> "pending"] \in TxRow
    BY DEF CallsTypeOK, TxRow
  <2>4. txs' \in [AllTxs -> TxRow] /\ \A t \in AllTxs : t # <<s, 1>> => txs'[t] = txs[t]
    BY <2>1, <2>3
  <2>5. CallsTypeOK'
    BY <1>1, <1>8, <2>1, <2>4 DEF CallsTypeOK, SendRow, QuoteIndex, TxRow
  <2>6. RowsOfSent'
    <3>1. \A r \in Sends : send'[r].phase # "sent" => send[r].phase # "sent" /\ r # s
      BY <1>11, <2>1
    <3>2. \A r \in Sends, i \in QuoteIndex : <<r, i>> \in AllTxs
      BY DEF AllTxs, QuoteIndex
    <3>3. \A r \in Sends : send'[r].phase # "sent" => \A i \in 0..MaxQuotes : txs'[<<r, i>>].at = "none"
      BY <2>4, <3>1, <3>2 DEF RowsOfSent, QuoteIndex
    <3>4. \A c \in Bundles : \A t \in Registered(c) : txs'[t].at # "none" => Complete(t[1], c) /\ (Multi(c) => bundle[t[1]] # None)
      <4> TAKE c \in Bundles
      <4> TAKE t \in Registered(c)
      <4>1. CASE t[1] = s
        BY <1>3, <1>10, <1>13, <4>1
      <4>2. CASE t[1] # s
        <5>1. txs'[t] = txs[t]
          BY <1>10, <2>4, <4>2
        <5> QED
          BY <5>1 DEF RowsOfSent
      <4> QED
        BY <4>1, <4>2
    <3> QED
      BY <1>9, <1>10, <2>1, <3>3, <3>4 DEF RowsOfSent
  <2>7. BundlesOfSent'
    <3> SUFFICES ASSUME NEW r \in Sends PROVE RowOfSent(r)'  BY DEF BundlesOfSent
    <3>1. send[r].phase = "sent" => EndsStay(r)
      <4> SUFFICES ASSUME send[r].phase = "sent" PROVE EndsStay(r)  OBVIOUS
      <4>1. \A i \in QuoteIndex : <<r, i>> \in AllTxs /\ <<r, i>> # <<s, 1>>  BY <1>11 DEF AllTxs, QuoteIndex
      <4>2. \A i \in QuoteIndex : txs'[<<r, i>>] = txs[<<r, i>>]  BY <2>4, <4>1
      <4> QED  BY <4>2 DEF EndsStay, Ended, Succeeded
    <3> QED  BY <1>9, <1>11, <2>1, <3>1, RowKept
  <2>8. FaucetsTold'
    <3>1. \A f \in Faucets : <<f, 1>> \in AllTxs /\ <<f, 1>> # <<s, 1>>
      BY CallsAssumption DEF AllTxs
    <3> QED
      BY <1>1, <2>4, <3>1 DEF FaucetsTold
  <2> QED
    BY <1>9, <2>5, <2>6, <2>7, <2>8
<1> QED
  BY <1>12, <1>13

\* The rows of some transactions change, and none of them goes back: an ended one keeps how it ended.
LEMMA RowsMove ==
  ASSUME CallsIInv, UNCHANGED <<send, ids, bundle, faucet>>, txs' \in [AllTxs -> TxRow],
         \A t \in AllTxs :
           \/ txs'[t] = txs[t]
           \/ /\ txs[t].at \in {"pending", "inflight", "confirmed"} /\ txs'[t].at # "none"
              /\ txs[t].at = "confirmed" => txs'[t].at = "confirmed" /\ txs'[t].ok = txs[t].ok
  PROVE  CallsIInv'
<1> USE DEF CallsIInv
<1>1. CallsTypeOK'
  BY DEF CallsTypeOK, TxRow
<1>2. send' \in [Sends -> SendRow]
  BY DEF CallsTypeOK, SendRow, QuoteIndex
<1>3. /\ RequestsRegister' /\ \A c \in Bundles : Registered(c)' = Registered(c)
      /\ \A c \in Bundles, r \in Sends : Complete(r, c)' = Complete(r, c)
  BY <1>2, RegistersNothing
<1>4. \A t \in AllTxs : (txs'[t].at = "none") = (txs[t].at = "none")
  OBVIOUS
<1>5. \A t \in AllTxs : Ended(t) /\ ~Succeeded(t) => Ended(t)' /\ ~Succeeded(t)'
  BY DEF Ended, Succeeded
<1>6. \A r \in Sends, i \in QuoteIndex : <<r, i>> \in AllTxs
  BY DEF AllTxs, QuoteIndex
<1>7. \A c \in Bundles : \A t \in Registered(c) : t \in AllTxs /\ t[1] \in Sends
  BY RegisteredType
<1>8. RowsOfSent'
  BY <1>3, <1>4, <1>6, <1>7 DEF RowsOfSent, QuoteIndex
<1>9. BundlesOfSent'
  <2> SUFFICES ASSUME NEW r \in Sends PROVE RowOfSent(r)'  BY DEF BundlesOfSent
  <2>1. \A t \in AllTxs : Succeeded(t) => Succeeded(t)'  BY DEF Succeeded
  <2>2. EndsStay(r)  BY <1>5, <1>6, <2>1 DEF EndsStay
  <2> QED  BY <1>3, <2>2, RowKept
<1>10. FaucetsTold'
  <2>1. \A f \in Faucets : <<f, 1>> \in AllTxs
    BY DEF AllTxs
  <2>2. \A t \in AllTxs : txs[t].at \in {"none", "failed"} => txs'[t] = txs[t]
    OBVIOUS
  <2> QED
    BY <2>1, <2>2 DEF FaucetsTold
<1> QED
  BY <1>1, <1>3, <1>8, <1>9, <1>10

LEMMA TxStepKeeps ==
  ASSUME CallsIInv, NEW t \in AllTxs, TxStep(t)
  PROVE  CallsIInv'
<1>1. UNCHANGED <<send, ids, bundle, faucet>>
  BY DEF TxStep
<1>2. txs \in [AllTxs -> TxRow]
  BY DEF CallsIInv, CallsTypeOK, TxRow
<1>3. \E x \in TxRow :
        /\ txs' = [txs EXCEPT ![t] = x] /\ txs[t].at \in {"pending", "inflight", "confirmed"} /\ x.at # "none"
        /\ txs[t].at = "confirmed" => x.at = "confirmed" /\ x.ok = txs[t].ok
  <2>1. CASE txs[t].at = "pending" /\ \E x \in {[at |-> "inflight"], [at |-> "failed"]} : txs' = [txs EXCEPT ![t] = x]
    <3>1. PICK x \in {[at |-> "inflight"], [at |-> "failed"]} : txs' = [txs EXCEPT ![t] = x]
      BY <2>1
    <3>2. x \in TxRow /\ x.at # "none"
      BY DEF TxRow
    <3> QED
      BY <2>1, <3>1, <3>2
  <2>2. CASE txs[t].at = "inflight" /\ txs' = [txs EXCEPT ![t] = [at |-> "failed"]]
    <3> DEFINE x == [at |-> "failed"]
    <3>1. x \in TxRow /\ x.at # "none"
      BY DEF TxRow
    <3> HIDE DEF x
    <3> QED
      BY <2>2, <3>1 DEF x
  <2>3. CASE txs[t].at = "inflight"
             /\ \E ok, ahead \in BOOLEAN : txs' = [txs EXCEPT ![t] = [at |-> "confirmed", ok |-> ok, ahead |-> ahead]]
    <3>1. PICK ok, ahead \in BOOLEAN : txs' = [txs EXCEPT ![t] = [at |-> "confirmed", ok |-> ok, ahead |-> ahead]]
      BY <2>3
    <3> DEFINE x == [at |-> "confirmed", ok |-> ok, ahead |-> ahead]
    <3>2. x \in TxRow /\ x.at # "none"
      BY DEF TxRow
    <3> HIDE DEF x
    <3> QED
      BY <2>3, <3>1, <3>2 DEF x
  <2>4. CASE txs[t].at = "confirmed" /\ txs' = [txs EXCEPT ![t].ahead = FALSE]
    <3> DEFINE x == [txs[t] EXCEPT !.ahead = FALSE]
    <3>1. txs[t] \in [at : {"confirmed"}, ok : BOOLEAN, ahead : BOOLEAN]
      BY <2>4, TxFields DEF CallsIInv
    <3>2. x \in TxRow /\ x.at = "confirmed" /\ x.ok = txs[t].ok
      BY <3>1 DEF TxRow
    <3>3. txs' = [txs EXCEPT ![t] = x]
      BY <2>4
    <3> HIDE DEF x
    <3> QED
      BY <2>4, <3>2, <3>3
  <2> QED
    BY <2>1, <2>2, <2>3, <2>4 DEF TxStep
<1>4. PICK x \in TxRow :
        /\ txs' = [txs EXCEPT ![t] = x] /\ txs[t].at \in {"pending", "inflight", "confirmed"} /\ x.at # "none"
        /\ txs[t].at = "confirmed" => x.at = "confirmed" /\ x.ok = txs[t].ok
  BY <1>3
<1>5. txs' \in [AllTxs -> TxRow] /\ txs'[t] = x /\ \A u \in AllTxs : u # t => txs'[u] = txs[u]
  BY <1>2, <1>4
<1> QED
  BY <1>1, <1>4, <1>5, RowsMove

\* What a bundle that is at a status has behind it, and what it has to fail with.
Fits(s, b, at, from) ==
  /\ \A i \in Behind(b, at) : Succeeded(<<s, i>>)
  /\ at = "payer" => Quoted[b].payer
  /\ at = "failed" /\ from # "settlement" => \E i \in Indices(b) : Ended(<<s, i>>) /\ ~Succeeded(<<s, i>>)

\* A step of a bundle queues transactions that are not behind it, or none.
LEMMA BundleStepShape ==
  ASSUME CallsIInv, NEW s \in Sends, bundle[s] # None, NEW b \in Bundles, b = bundle[s].of, BundleStep(s)
  PROVE  /\ UNCHANGED <<send, ids, faucet>>
         /\ \E at \in BundleStages, S \in SUBSET Indices(b) :
              /\ bundle' = [bundle EXCEPT ![s] = [of |-> b, at |-> at, from |-> bundle[s].at, table |-> "pending"]]
              /\ Fits(s, b, at, bundle[s].at) /\ S \cap Behind(b, at) = {} /\ (at = "failed" => S = {})
              /\ txs' = [t \in AllTxs |-> IF t \in {<<s, i>> : i \in S} THEN [at |-> "pending"] ELSE txs[t]]
<1> DEFINE dst == {Quoted[b].quotes}
           To(at) == bundle' = [bundle EXCEPT ![s] = [of |-> b, at |-> at, from |-> bundle[s].at, table |-> "pending"]]
           Ends(at) == To(at) /\ UNCHANGED txs
           Queue(S, at) == To(at) /\ txs' = [t \in AllTxs |-> IF t \in {<<s, i>> : i \in S} THEN [at |-> "pending"] ELSE txs[t]]
           Settled(S) == \A i \in S : Ended(<<s, i>>)
           Good(S) == \A i \in S : Succeeded(<<s, i>>)
           AfterPayer == IF SourcesOf(b) = {} THEN Queue(dst, "destination") ELSE Queue(SourcesOf(b), "sources")
           Shape == \E at \in BundleStages, S \in SUBSET Indices(b) :
                      Fits(s, b, at, bundle[s].at) /\ S \cap Behind(b, at) = {} /\ (at = "failed" => S = {}) /\ Queue(S, at)
<1>1. /\ \/ bundle[s].at = "init" /\ IF Quoted[b].payer THEN Queue({0}, "payer") ELSE AfterPayer
         \/ bundle[s].at = "payer" /\ Settled({0}) /\ IF Good({0}) THEN AfterPayer ELSE Ends("failed")
         \/ bundle[s].at = "sources" /\ Settled(SourcesOf(b))
            /\ IF Good(SourcesOf(b)) THEN Queue(dst, "destination") ELSE Ends("failed")
         \/ bundle[s].at = "destination" /\ Settled(dst)
            /\ Ends(IF ~Good(dst) THEN "failed" ELSE IF SourcesOf(b) = {} THEN "done" ELSE "settlement")
         \/ bundle[s].at = "settlement" /\ (Ends("done") \/ Ends("failed"))
      /\ UNCHANGED <<send, ids, faucet>>
  BY DEF BundleStep
<1>2. Fits(s, b, bundle[s].at, bundle[s].from)
  BY DEF CallsIInv, BundlesOfSent, RowOfSent, Fits
<1>3. /\ dst \in SUBSET Indices(b) /\ SourcesOf(b) \in SUBSET Indices(b) /\ {} \in SUBSET Indices(b)
      /\ Quoted[b].payer => {0} \in SUBSET Indices(b)
  BY IndicesType
<1>4. /\ 0 \notin SourcesOf(b) /\ Quoted[b].quotes \notin SourcesOf(b) /\ Quoted[b].quotes # 0
      /\ 0 \in Indices(b) => Quoted[b].payer
      /\ Indices(b) \ dst = (Indices(b) \cap {0}) \cup SourcesOf(b)
  <2>1. Quoted[b].quotes \in 1..MaxQuotes /\ MaxQuotes \in Nat  BY CallsAssumption
  <2> QED  BY <2>1 DEF SourcesOf, Indices
<1>5. \A at \in BundleStages : Ends(at) => Queue({}, at)
  <2>1. txs = [t \in AllTxs |-> txs[t]]  BY DEF CallsIInv, CallsTypeOK
  <2> QED  BY <2>1
<1>0. ASSUME NEW at \in BundleStages, NEW S \in SUBSET Indices(b),
             Fits(s, b, at, bundle[s].at), S \cap Behind(b, at) = {}, at = "failed" => S = {}, Queue(S, at)
      PROVE  Shape
  BY <1>0
<1> SUFFICES Shape  BY <1>1
<1> HIDE DEF Queue, Ends, Settled, Good, Shape
<1>6. ASSUME NEW i \in Indices(b), Ended(<<s, i>>), ~Succeeded(<<s, i>>), Ends("failed") PROVE Shape
  <2>1. Fits(s, b, "failed", bundle[s].at)  BY <1>6 DEF Fits, Behind
  <2> QED  BY <1>0, <1>3, <1>5, <1>6, <2>1 DEF BundleStages
<1>7. ASSUME AfterPayer, Quoted[b].payer => Succeeded(<<s, 0>>) PROVE Shape
  <2>1. CASE SourcesOf(b) = {} /\ Queue(dst, "destination")
    <3>1. Behind(b, "destination") \subseteq {0} /\ dst \cap Behind(b, "destination") = {}  BY <1>4, <2>1 DEF Behind
    <3>2. 0 \in Behind(b, "destination") => Quoted[b].payer  BY <1>4 DEF Behind
    <3>3. Fits(s, b, "destination", bundle[s].at)  BY <1>7, <3>1, <3>2 DEF Fits
    <3> QED  BY <1>0, <1>3, <2>1, <3>1, <3>3 DEF BundleStages
  <2>2. CASE Queue(SourcesOf(b), "sources")
    <3>1. Behind(b, "sources") = Indices(b) \cap {0} /\ SourcesOf(b) \cap Behind(b, "sources") = {}  BY <1>4 DEF Behind
    <3>2. Fits(s, b, "sources", bundle[s].at)  BY <1>4, <1>7, <3>1 DEF Fits
    <3> QED  BY <1>0, <1>3, <2>2, <3>1, <3>2 DEF BundleStages
  <2> QED  BY <1>7, <2>1, <2>2
<1>8. CASE bundle[s].at = "init" /\ IF Quoted[b].payer THEN Queue({0}, "payer") ELSE AfterPayer
  <2>1. CASE Quoted[b].payer /\ Queue({0}, "payer")
    <3>1. Behind(b, "payer") = {}  BY DEF Behind
    <3>2. Fits(s, b, "payer", bundle[s].at)  BY <2>1, <3>1 DEF Fits
    <3> QED  BY <1>0, <1>3, <2>1, <3>1, <3>2 DEF BundleStages
  <2>2. CASE ~Quoted[b].payer /\ AfterPayer  BY <1>7, <2>2
  <2> QED  BY <1>8, <2>1, <2>2
<1>9. CASE bundle[s].at = "payer" /\ Settled({0}) /\ IF Good({0}) THEN AfterPayer ELSE Ends("failed")
  <2>1. CASE Good({0}) /\ AfterPayer  BY <1>7, <2>1 DEF Good
  <2>2. CASE ~Good({0}) /\ Ends("failed")
    <3>1. Ended(<<s, 0>>) /\ ~Succeeded(<<s, 0>>)  BY <1>9, <2>2 DEF Settled, Good
    <3>2. 0 \in Indices(b)  BY <1>2, <1>3, <1>9 DEF Fits
    <3> QED  BY <1>6, <2>2, <3>1, <3>2
  <2> QED  BY <1>9, <2>1, <2>2
<1>10. CASE bundle[s].at = "sources" /\ Settled(SourcesOf(b))
            /\ IF Good(SourcesOf(b)) THEN Queue(dst, "destination") ELSE Ends("failed")
  <2>1. CASE Good(SourcesOf(b)) /\ Queue(dst, "destination")
    <3>1. Behind(b, "destination") = Behind(b, "sources") \cup SourcesOf(b) /\ dst \cap Behind(b, "destination") = {}
      BY <1>4 DEF Behind
    <3>2. Fits(s, b, "destination", bundle[s].at)  BY <1>2, <1>10, <2>1, <3>1 DEF Fits, Good
    <3> QED  BY <1>0, <1>3, <2>1, <3>1, <3>2 DEF BundleStages
  <2>2. CASE ~Good(SourcesOf(b)) /\ Ends("failed")
    <3>1. PICK i \in SourcesOf(b) : Ended(<<s, i>>) /\ ~Succeeded(<<s, i>>)  BY <1>10, <2>2 DEF Settled, Good
    <3> QED  BY <1>3, <1>6, <2>2, <3>1
  <2> QED  BY <1>10, <2>1, <2>2
<1>11. CASE bundle[s].at = "destination" /\ Settled(dst)
            /\ Ends(IF ~Good(dst) THEN "failed" ELSE IF SourcesOf(b) = {} THEN "done" ELSE "settlement")
  <2>1. CASE ~Good(dst)
    <3>1. Ended(<<s, Quoted[b].quotes>>) /\ ~Succeeded(<<s, Quoted[b].quotes>>)  BY <1>11, <2>1 DEF Settled, Good
    <3>2. Ends("failed")  BY <1>11, <2>1
    <3> QED  BY <1>3, <1>6, <3>1, <3>2
  <2>2. CASE Good(dst)
    <3>1. PICK at \in {"done", "settlement"} : Ends(at)  BY <1>11, <2>2
    <3>2. Behind(b, at) = Indices(b) /\ Behind(b, "destination") = Indices(b) \ dst  BY DEF Behind
    <3>3. \A i \in Indices(b) : Succeeded(<<s, i>>)  BY <1>2, <1>11, <2>2, <3>2 DEF Fits, Good
    <3>4. Fits(s, b, at, bundle[s].at)  BY <3>2, <3>3 DEF Fits
    <3> QED  BY <1>0, <1>3, <1>5, <3>1, <3>4 DEF BundleStages
  <2> QED  BY <2>1, <2>2
<1>12. CASE bundle[s].at = "settlement" /\ (Ends("done") \/ Ends("failed"))
  <2>1. PICK at \in {"done", "failed"} : Ends(at)  BY <1>12
  <2>2. Behind(b, at) \subseteq Behind(b, "settlement")  BY DEF Behind
  <2>3. Fits(s, b, at, bundle[s].at)  BY <1>2, <1>12, <2>2 DEF Fits
  <2> QED  BY <1>0, <1>3, <1>5, <2>1, <2>3 DEF BundleStages
<1> QED  BY <1>1, <1>8, <1>9, <1>10, <1>11, <1>12

\* The row of a bundle changes, with transactions of its request that it queues.
LEMMA BundleMoves ==
  ASSUME CallsIInv, NEW s \in Sends, send[s].phase = "sent", UNCHANGED <<send, ids, faucet>>, txs' \in [AllTxs -> TxRow],
         \A t \in AllTxs : txs'[t] = txs[t] \/ (t[1] = s /\ txs'[t].at = "pending"),
         NEW q \in BundleRow, bundle' = [bundle EXCEPT ![s] = q], Complete(s, q.of), Fits(s, q.of, q.at, q.from)'
  PROVE  CallsIInv'
<1> USE DEF CallsIInv
<1>1. /\ bundle' \in [Sends -> {None} \cup BundleRow] /\ bundle'[s] = q
      /\ \A r \in Sends : r # s => bundle'[r] = bundle[r]
  BY DEF CallsTypeOK
<1>2. CallsTypeOK'
  BY <1>1 DEF CallsTypeOK, TxRow
<1>3. send' \in [Sends -> SendRow] /\ ids' = ids
  BY DEF CallsTypeOK, SendRow, QuoteIndex
<1>4. /\ RequestsRegister' /\ \A c \in Bundles : Registered(c)' = Registered(c)
      /\ \A c \in Bundles, r \in Sends : Complete(r, c)' = Complete(r, c)
  BY <1>3, RegistersNothing
<1>5. \A c \in Bundles : \A t \in Registered(c) : t \in AllTxs /\ t[1] \in Sends
  BY RegisteredType
<1> PICK b \in Bundles : b = q.of
  BY DEF BundleRow
<1>6. \A c \in Bundles : \A t \in Registered(c) : t[1] = s => c = b
  <2> TAKE c \in Bundles
  <2> TAKE t \in Registered(c)
  <2>1. <<s, Quoted[b].quotes>> \in Registered(b) /\ <<s, Quoted[b].quotes>>[1] = s
    BY IndicesType DEF Complete
  <2> QED
    BY <2>1 DEF RequestsRegister
<1>7. \A r \in Sends, i \in QuoteIndex : <<r, i>> \in AllTxs /\ <<r, i>>[1] = r
  BY DEF AllTxs, QuoteIndex
<1>8. RowsOfSent'
  <2>1. \A r \in Sends : send'[r].phase # "sent" => \A i \in 0..MaxQuotes : txs'[<<r, i>>].at = "none"
    BY <1>7 DEF RowsOfSent, QuoteIndex
  <2>2. \A c \in Bundles : \A t \in Registered(c) : txs'[t].at # "none" => Complete(t[1], c)
    BY <1>5, <1>6 DEF RowsOfSent
  <2>3. q # None
    BY DEF BundleRow, BundleStages, None
  <2>4. \A c \in Bundles : \A t \in Registered(c) : txs'[t].at # "none" => (Multi(c) => bundle'[t[1]] # None)
    BY <1>1, <1>5, <2>3 DEF RowsOfSent
  <2> QED
    BY <1>4, <1>5, <2>1, <2>2, <2>4 DEF RowsOfSent
<1>9. BundlesOfSent'
  <2> SUFFICES ASSUME NEW r \in Sends PROVE RowOfSent(r)'  BY DEF BundlesOfSent
  <2>1. CASE r = s
    <3>1. send'[s].phase = "sent" /\ Complete(s, q.of)'  BY <1>4
    <3> QED  BY <1>1, <2>1, <3>1 DEF RowOfSent, Fits
  <2>2. CASE r # s
    <3>1. \A i \in QuoteIndex : txs'[<<r, i>>] = txs[<<r, i>>]  BY <1>7, <2>2
    <3>2. EndsStay(r)  BY <3>1 DEF EndsStay, Ended, Succeeded
    <3> QED  BY <1>1, <1>4, <2>2, <3>2, RowKept
  <2> QED  BY <2>1, <2>2
<1>10. FaucetsTold'
  <2>1. \A f \in Faucets : <<f, 1>> \in AllTxs /\ <<f, 1>>[1] # s
    BY CallsAssumption DEF AllTxs
  <2> QED
    BY <2>1 DEF FaucetsTold
<1> QED
  BY <1>2, <1>4, <1>8, <1>9, <1>10

LEMMA BundleStepKeeps ==
  ASSUME CallsIInv, NEW s \in Sends, BundleStep(s)
  PROVE  CallsIInv'
<1>1. bundle[s] # None
  BY DEF BundleStep
<1>2. PICK b \in Bundles : b = bundle[s].of
  BY <1>1, BundleFields DEF CallsIInv
<1> PICK old \in BundleStages : old = bundle[s].at
  BY <1>1, BundleFields DEF CallsIInv
<1>3. send[s].phase = "sent" /\ Complete(s, b)
  BY <1>1, <1>2 DEF CallsIInv, BundlesOfSent, RowOfSent
<1>4. PICK at \in BundleStages, S \in SUBSET Indices(b) :
        /\ bundle' = [bundle EXCEPT ![s] = [of |-> b, at |-> at, from |-> bundle[s].at, table |-> "pending"]]
        /\ Fits(s, b, at, bundle[s].at) /\ S \cap Behind(b, at) = {} /\ (at = "failed" => S = {})
        /\ txs' = [t \in AllTxs |-> IF t \in {<<s, i>> : i \in S} THEN [at |-> "pending"] ELSE txs[t]]
  <2>1. \E at \in BundleStages, S \in SUBSET Indices(b) :
          /\ bundle' = [bundle EXCEPT ![s] = [of |-> b, at |-> at, from |-> bundle[s].at, table |-> "pending"]]
          /\ Fits(s, b, at, bundle[s].at) /\ S \cap Behind(b, at) = {} /\ (at = "failed" => S = {})
          /\ txs' = [t \in AllTxs |-> IF t \in {<<s, i>> : i \in S} THEN [at |-> "pending"] ELSE txs[t]]
    BY <1>1, <1>2, BundleStepShape, Zenon
  <2> QED
    BY <2>1, Zenon
<1>5. UNCHANGED <<send, ids, faucet>>
  BY <1>1, <1>2, BundleStepShape
<1> PICK q : q = [of |-> b, at |-> at, from |-> old, table |-> "pending"]  OBVIOUS
<1>6. q \in BundleRow /\ q.of = b /\ q.at = at /\ q.from = old /\ bundle' = [bundle EXCEPT ![s] = q]
  BY <1>4 DEF BundleRow
<1>7. txs \in [AllTxs -> TxRow] /\ [at |-> "pending"] \in TxRow /\ [at |-> "pending"].at = "pending"
  BY DEF CallsIInv, CallsTypeOK, TxRow
<1>8. /\ txs' \in [AllTxs -> TxRow]
      /\ \A t \in AllTxs : txs'[t] = txs[t] \/ (t[1] = s /\ txs'[t].at = "pending")
      /\ \A i \in QuoteIndex : i \notin S => txs'[<<s, i>>] = txs[<<s, i>>]
  <2> DEFINE T == {<<s, i>> : i \in S}
  <2>1. \A t \in T : t[1] = s
    OBVIOUS
  <2>2. txs' = [t \in AllTxs |-> IF t \in T THEN [at |-> "pending"] ELSE txs[t]]
    BY <1>4
  <2>3. \A i \in QuoteIndex : <<s, i>> \in AllTxs /\ (i \notin S => <<s, i>> \notin T)
    BY DEF AllTxs, QuoteIndex
  <2> HIDE DEF T
  <2> QED
    BY <1>7, <2>1, <2>2, <2>3
<1>9. Fits(s, b, at, old)'
  <2>1. \A i \in QuoteIndex : i \notin S => Succeeded(<<s, i>>)' = Succeeded(<<s, i>>) /\ Ended(<<s, i>>)' = Ended(<<s, i>>)
    BY <1>8 DEF Succeeded, Ended
  <2>2. \A i \in Behind(b, at) : Succeeded(<<s, i>>)'
    BY <1>4, <2>1, BehindType DEF Fits
  <2>3. at = "failed" /\ old # "settlement" => \E i \in Indices(b) : Ended(<<s, i>>)' /\ ~Succeeded(<<s, i>>)'
    BY <1>4, <2>1, IndicesType DEF Fits
  <2>4. at = "payer" => Quoted[b].payer
    BY <1>4 DEF Fits
  <2> QED
    BY <2>2, <2>3, <2>4 DEF Fits, Ended, Succeeded
<1> QED
  BY <1>3, <1>5, <1>6, <1>8, <1>9, BundleMoves

LEMMA FinishKeeps ==
  ASSUME CallsIInv, NEW s \in Sends, MoveBundleToFinished(s)
  PROVE  CallsIInv'
<1>1. bundle[s] # None /\ UNCHANGED <<send, ids, txs, faucet>>
  BY DEF MoveBundleToFinished
<1> PICK row \in BundleRow : row = bundle[s]
  BY <1>1, BundleFields DEF CallsIInv
<1> PICK q : q = [row EXCEPT !.table = "finished"]  OBVIOUS
<1>2. q \in BundleRow /\ q.of = row.of /\ q.at = row.at /\ q.from = row.from
  BY DEF BundleRow
<1>3. bundle' = [bundle EXCEPT ![s] = q]
  BY DEF MoveBundleToFinished
<1>4. send[s].phase = "sent" /\ Complete(s, q.of) /\ Fits(s, q.of, q.at, q.from)
  BY <1>1, <1>2 DEF CallsIInv, BundlesOfSent, RowOfSent, Fits
<1>5. Fits(s, q.of, q.at, q.from)'
  BY <1>1, <1>4 DEF Fits, Ended, Succeeded
<1>6. txs' \in [AllTxs -> TxRow]
  BY <1>1 DEF CallsIInv, CallsTypeOK, TxRow
<1> QED
  BY <1>1, <1>2, <1>3, <1>4, <1>5, <1>6, BundleMoves

LEMMA FaucetStep ==
  ASSUME CallsIInv, NEW f \in Faucets, NEW chain, NEW tokenOk \in BOOLEAN, NEW mints \in BOOLEAN,
         AddFaucetFunds(f, chain, tokenOk, mints) \/ FaucetAnswers(f)
  PROVE  CallsIInv'
<1> USE DEF CallsIInv
<1> DEFINE F == [phase : {"new", "waiting"}] \cup [phase : {"answered"}, says : {"not supported", "successful", "failed"}]
<1>1. UNCHANGED <<send, ids, bundle>>
  BY DEF AddFaucetFunds, FaucetAnswers
<1>2. faucet \in [Faucets -> F] /\ txs \in [AllTxs -> TxRow] /\ <<f, 1>> \in AllTxs
  BY DEF CallsTypeOK, AllTxs, TxRow
<1>3. PICK q \in F, x \in TxRow :
        /\ faucet' = [faucet EXCEPT ![f] = q] /\ txs' = [txs EXCEPT ![<<f, 1>>] = x] /\ q.phase # "new"
        /\ q.phase = "answered" /\ q.says = "not supported" => x.at = "none"
        /\ q.phase = "answered" /\ q.says = "failed" => x.at = "failed"
  <2>1. CASE faucet[f].phase = "new" /\ faucet' = [faucet EXCEPT ![f] = [phase |-> "waiting"]]
             /\ txs' = [txs EXCEPT ![<<f, 1>>] = [at |-> "pending"]]
    <3>1. [phase |-> "waiting"] \in F /\ [at |-> "pending"] \in TxRow /\ [phase |-> "waiting"].phase = "waiting"
      BY DEF TxRow
    <3> QED
      BY <2>1, <3>1
  <2>2. CASE faucet[f].phase = "new" /\ txs' = txs
             /\ faucet' = [faucet EXCEPT ![f] = [phase |-> "answered", says |-> "not supported"]]
    <3> DEFINE q == [phase |-> "answered", says |-> "not supported"]
    <3>1. q \in F /\ q.phase = "answered" /\ q.says = "not supported"
      OBVIOUS
    <3>2. txs[<<f, 1>>].at = "none" /\ txs[<<f, 1>>] \in TxRow /\ txs' = [txs EXCEPT ![<<f, 1>>] = txs[<<f, 1>>]]
      BY <1>2, <2>2 DEF FaucetsTold
    <3> HIDE DEF q
    <3> QED
      BY <2>2, <3>1, <3>2 DEF q
  <2>3. CASE Ended(<<f, 1>>) /\ txs' = txs
             /\ faucet' = [faucet EXCEPT ![f] = [phase |-> "answered",
                              says |-> IF txs[<<f, 1>>].at = "confirmed" THEN "successful" ELSE "failed"]]
    <3> DEFINE q == [phase |-> "answered", says |-> IF txs[<<f, 1>>].at = "confirmed" THEN "successful" ELSE "failed"]
    <3>1. q \in F /\ q.phase = "answered" /\ q.says # "not supported"
          /\ (q.says = "failed" => txs[<<f, 1>>].at = "failed")
      BY <2>3 DEF Ended
    <3>2. txs[<<f, 1>>] \in TxRow /\ txs' = [txs EXCEPT ![<<f, 1>>] = txs[<<f, 1>>]]
      BY <1>2, <2>3
    <3> HIDE DEF q
    <3> QED
      BY <2>3, <3>1, <3>2 DEF q
  <2>4. \/ /\ faucet[f].phase = "new" /\ faucet' = [faucet EXCEPT ![f] = [phase |-> "waiting"]]
           /\ txs' = [txs EXCEPT ![<<f, 1>>] = [at |-> "pending"]]
        \/ /\ faucet[f].phase = "new" /\ txs' = txs
           /\ faucet' = [faucet EXCEPT ![f] = [phase |-> "answered", says |-> "not supported"]]
        \/ /\ Ended(<<f, 1>>) /\ txs' = txs
           /\ faucet' = [faucet EXCEPT ![f] = [phase |-> "answered",
                            says |-> IF txs[<<f, 1>>].at = "confirmed" THEN "successful" ELSE "failed"]]
    BY DEF AddFaucetFunds, FaucetAnswers
  <2> HIDE DEF F
  <2> QED
    BY <2>1, <2>2, <2>3, <2>4
<1>4. /\ faucet' \in [Faucets -> F] /\ faucet'[f] = q /\ \A g \in Faucets : g # f => faucet'[g] = faucet[g]
      /\ txs' \in [AllTxs -> TxRow] /\ txs'[<<f, 1>>] = x /\ \A t \in AllTxs : t # <<f, 1>> => txs'[t] = txs[t]
  BY <1>2, <1>3
<1>5. CallsTypeOK'
  BY <1>1, <1>4 DEF CallsTypeOK, TxRow
<1>6. send' \in [Sends -> SendRow]
  BY <1>1 DEF CallsTypeOK, SendRow, QuoteIndex
<1>7. /\ RequestsRegister' /\ \A c \in Bundles : Registered(c)' = Registered(c)
      /\ \A c \in Bundles, r \in Sends : Complete(r, c)' = Complete(r, c)
  BY <1>1, <1>6, RegistersNothing
<1>8. \A r \in Sends, i \in QuoteIndex : txs'[<<r, i>>] = txs[<<r, i>>]
  <2>1. \A r \in Sends, i \in QuoteIndex : <<r, i>> \in AllTxs /\ <<r, i>> # <<f, 1>>
    BY CallsAssumption DEF AllTxs, QuoteIndex
  <2> QED
    BY <1>4, <2>1
<1>9. \A c \in Bundles : \A t \in Registered(c) : txs'[t] = txs[t] /\ t[1] \in Sends
  <2> TAKE c \in Bundles
  <2> TAKE t \in Registered(c)
  <2>1. t \in Sends \X QuoteIndex
    BY RegisteredType
  <2>2. t[1] \in Sends /\ t[2] \in QuoteIndex /\ t = <<t[1], t[2]>>
    BY <2>1, TxOfRequest
  <2>3. txs'[<<t[1], t[2]>>] = txs[<<t[1], t[2]>>]
    BY <1>8, <2>2
  <2> QED
    BY <2>2, <2>3
<1>10. RowsOfSent'
  <2>1. \A r \in Sends : send'[r].phase # "sent" => \A i \in 0..MaxQuotes : txs'[<<r, i>>].at = "none"
    BY <1>1, <1>8 DEF RowsOfSent, QuoteIndex
  <2>2. \A c \in Bundles : \A t \in Registered(c) : txs'[t].at # "none" => Complete(t[1], c) /\ (Multi(c) => bundle[t[1]] # None)
    BY <1>9 DEF RowsOfSent
  <2> QED
    BY <1>1, <1>7, <1>9, <2>1, <2>2 DEF RowsOfSent
<1>11. BundlesOfSent'
  <2> SUFFICES ASSUME NEW r \in Sends PROVE RowOfSent(r)'  BY DEF BundlesOfSent
  <2>1. EndsStay(r)  BY <1>8 DEF EndsStay, Ended, Succeeded
  <2> QED  BY <1>1, <1>7, <2>1, RowKept
<1>13. FaucetsTold'
  <2>1. \A g \in Faucets : g # f => <<g, 1>> \in AllTxs /\ <<g, 1>> # <<f, 1>>
    BY DEF AllTxs
  <2> QED
    BY <1>3, <1>4, <2>1 DEF FaucetsTold
<1> QED
  BY <1>5, <1>7, <1>10, <1>11, <1>13

LEMMA CallsStep ==
  ASSUME CallsIInv, [CallsNext \/ FaucetNext]_callVars
  PROVE  CallsIInv'
<1>1. CASE UNCHANGED callVars
  <2>1. UNCHANGED <<send, ids, txs, bundle, faucet>>
    BY <1>1 DEF callVars
  <2>2. txs' \in [AllTxs -> TxRow]
    BY <2>1 DEF CallsIInv, CallsTypeOK, TxRow
  <2> QED
    BY <2>1, <2>2, RowsMove
<1>2. ASSUME NEW s \in Sends, NEW b \in Bundles, NEW key \in {"root", "none"}, NEW feeSig \in BOOLEAN, NEW late \in BOOLEAN,
             SendPreparedCalls(s, b, [key |-> key, feeSig |-> feeSig, late |-> late])
      PROVE  CallsIInv'
  BY <1>2, SendPreparedStep
<1>3. ASSUME NEW s \in Sends, (\E i \in 0..MaxQuotes : PrepareTxOf(s, i)) \/ PrepareTxFails(s) \/ HandOver(s)
      PROVE  CallsIInv'
  BY <1>3, PrepareStep, PrepareFailsStep, HandOverStep DEF QuoteIndex
<1>4. ASSUME NEW s \in Sends, NEW i \in 0..MaxQuotes, TxStep(<<s, i>>)
      PROVE  CallsIInv'
  <2>1. <<s, i>> \in AllTxs
    BY DEF AllTxs
  <2> QED
    BY <1>4, <2>1, TxStepKeeps
<1>5. ASSUME NEW s \in Sends, BundleStep(s) \/ MoveBundleToFinished(s)
      PROVE  CallsIInv'
  BY <1>5, BundleStepKeeps, FinishKeeps
<1>6. CASE CallsNext
  BY <1>2, <1>3, <1>4, <1>5, <1>6, Zenon DEF CallsNext
<1>7. CASE FaucetNext
  <2> PICK f \in Faucets :
         \/ \E chain \in {"mainnet", "testnet"}, tokenOk \in BOOLEAN, mints \in BOOLEAN : AddFaucetFunds(f, chain, tokenOk, mints)
         \/ FaucetAnswers(f) \/ TxStep(<<f, 1>>)
    BY <1>7 DEF FaucetNext
  <2>1. <<f, 1>> \in AllTxs /\ TRUE \in BOOLEAN
    BY DEF AllTxs
  <2> QED
    BY <2>1, FaucetStep, TxStepKeeps
<1> QED
  BY <1>1, <1>6, <1>7

\* A bundle whose transactions all succeeded is one whose request was executed.
LEMMA AllSucceeded ==
  ASSUME CallsIInv, NEW b \in Bundles, GetCallsStatus(b) \in {"confirmed", "preconfirmed"}
  PROVE  /\ ids[b] # <<>> /\ \A t \in Registered(b) : Succeeded(t)
         /\ \E s \in Tried(b) : Executed(s, b)
         /\ "failed" \in HistoryStatuses(b) => SettlementFailed(b)
<1> USE DEF CallsIInv
<1>1. ids[b] # <<>>
  BY DEF GetCallsStatus
<1>2. /\ Registered(b) \subseteq AllTxs /\ Registered(b) \subseteq Sends \X QuoteIndex
      /\ Registered(b) # {} /\ Head(ids[b]) \in Registered(b)
  BY <1>1, RegisteredType
<1>3. ASSUME NEW t \in Registered(b)
      PROVE  Succeeded(t)
  <2> DEFINE told == {txs[u] : u \in Registered(b)}
             receipts == {x \in told : x.at = "confirmed"}
  <2>1. /\ ~(\E x \in told : x.at = "failed") /\ ~AnyPending(b) /\ ~(\E x \in receipts : ~x.ok)
    BY DEF GetCallsStatus
  <2>2. txs[t] \in told
    OBVIOUS
  <2>3. txs[t].at \notin {"failed", "none", "pending", "inflight"}
    BY <2>1, <2>2 DEF AnyPending
  <2>4. txs[t].at = "confirmed"
    BY <1>2, <2>3, TxFields
  <2>5. txs[t] \in receipts
    BY <2>2, <2>4
  <2> QED
    BY <2>1, <2>4, <2>5 DEF Succeeded
<1>4. \E s \in Tried(b) : Executed(s, b)
  <2> PICK t \in Registered(b) : TRUE
    BY <1>2
  <2>1. t[1] \in Tried(b)
    BY DEF Tried
  <2>2. txs[t].at # "none"
    BY <1>3 DEF Succeeded
  <2>3. Complete(t[1], b)
    BY <2>2 DEF RowsOfSent
  <2>4. Executed(t[1], b)
    BY <1>3, <2>3 DEF Executed, Complete
  <2> QED
    BY <2>1, <2>4
<1>5. "failed" \in HistoryStatuses(b) => SettlementFailed(b)
  <2> DEFINE Code(at) == IF at \in {"done", "confirmed"} THEN "confirmed" ELSE IF at = "failed" THEN "failed" ELSE "pending"
  <2> SUFFICES ASSUME "failed" \in HistoryStatuses(b) PROVE SettlementFailed(b)  OBVIOUS
  <2>0. HistoryStatuses(b) = IF BundleRows(b) # {} THEN {Code(bundle[s].at) : s \in BundleRows(b)}
                             ELSE {Code(txs[Head(ids[b])].at) : t \in {t \in Registered(b) : txs[t].at # "none"}}
    BY DEF HistoryStatuses
  <2>1. CASE BundleRows(b) # {}
    <3>1. PICK s \in BundleRows(b) : Code(bundle[s].at) = "failed"  BY <2>0, <2>1, Zenon
    <3>2. bundle[s].at = "failed" /\ s \in Sends /\ bundle[s] # None /\ bundle[s].of = b  BY <3>1 DEF BundleRows
    <3>3. bundle[s].from = "settlement"
      <4> SUFFICES ASSUME bundle[s].from # "settlement" PROVE FALSE  OBVIOUS
      <4>1. PICK i \in Indices(b) : ~Succeeded(<<s, i>>)  BY <3>2 DEF BundlesOfSent, RowOfSent
      <4>2. <<s, i>> \in Registered(b)  BY <3>2 DEF BundlesOfSent, RowOfSent, Complete
      <4> QED  BY <1>3, <4>1, <4>2
    <3> QED  BY <3>2, <3>3 DEF SettlementFailed
  <2>2. CASE BundleRows(b) = {}
    <3>1. txs[Head(ids[b])].at = "confirmed"  BY <1>2, <1>3 DEF Succeeded
    <3> QED  BY <2>0, <2>2, <3>1
  <2> QED  BY <2>1, <2>2
<1> QED
  BY <1>1, <1>3, <1>4, <1>5

\* The only request of a bundle was executed: its transactions are all confirmed and good.
LEMMA ExecutedOnce ==
  ASSUME CallsIInv, NEW b \in Bundles, Cardinality(Tried(b)) = 1, NEW s \in Tried(b), Executed(s, b)
  PROVE  GetCallsStatus(b) \in {"confirmed", "preconfirmed"}
<1> USE DEF CallsIInv
<1>1. Registered(b) \subseteq Sends \X QuoteIndex /\ (ids[b] = <<>>) = (Registered(b) = {})
  BY RegisteredType
<1>2. IsFiniteSet(Tried(b))
  <2>0. ids[b] \in Seq(Sends \X QuoteIndex)
    BY DEF CallsTypeOK, QuoteIndex
  <2>1. DOMAIN ids[b] = 1..Len(ids[b]) /\ Len(ids[b]) \in Nat
    BY <2>0, LenProperties
  <2>2. IsFiniteSet(1..Len(ids[b]))
    <3>1. PICK n \in Nat : n = Len(ids[b])
      BY <2>1
    <3>2. IsFiniteSet(1..n)
      BY FS_Interval
    <3> QED
      BY <3>1, <3>2
  <2>3. Tried(b) = {ids[b][i][1] : i \in 1..Len(ids[b])}
    BY <2>1 DEF Tried, Registered, ToSet
  <2> DEFINE who == [i \in 1..Len(ids[b]) |-> ids[b][i][1]]
  <2>4. who \in Surjection(1..Len(ids[b]), Tried(b))
    BY <2>3 DEF Surjection
  <2> QED
    BY <2>2, <2>4, FS_Surjection
<1>3. Tried(b) = {s}
  BY <1>2, FS_Singleton
<1>4. ASSUME NEW t \in Registered(b)
      PROVE  txs[t].at = "confirmed" /\ txs[t].ok
  <2>1. t[1] = s
    BY <1>3 DEF Tried
  <2>2. t = <<s, t[2]>> /\ t[2] \in Indices(b)
    BY <1>1, <2>1 DEF RequestsRegister
  <2> QED
    BY <2>2 DEF Executed, Succeeded
<1>5. Registered(b) # {} /\ ids[b] # <<>>
  BY <1>1 DEF Tried
<1> DEFINE told == {txs[t] : t \in Registered(b)}
           receipts == {x \in told : x.at = "confirmed"}
<1>6. ~AnyPending(b) /\ ~(\E x \in told : x.at = "failed")
  BY <1>4 DEF AnyPending
<1>7. ~(\E x \in receipts : ~x.ok)
  BY <1>4
<1>8. ~(\A x \in receipts : ~x.ok)
  BY <1>4, <1>5
<1>9. GetCallsStatus(b) = IF ids[b] = <<>> THEN "unknown"
        ELSE IF \E x \in told : x.at = "failed" THEN "failed"
        ELSE IF AnyPending(b) THEN "pending"
        ELSE IF \A x \in receipts : ~x.ok THEN "reverted"
        ELSE IF \E x \in receipts : ~x.ok THEN "partially reverted"
        ELSE IF \E x \in receipts : x.ahead THEN "preconfirmed"
        ELSE "confirmed"
  BY DEF GetCallsStatus
<1> HIDE DEF told, receipts
<1> QED
  BY <1>5, <1>6, <1>7, <1>8, <1>9

\* The history says confirmed of a multichain bundle: a request of it was executed.
LEMMA DoneExecuted ==
  ASSUME CallsIInv, NEW b \in Bundles, Multi(b), "confirmed" \in HistoryStatuses(b)
  PROVE  \E s \in Tried(b) : Executed(s, b)
<1> USE DEF CallsIInv
<1> DEFINE Code(at) == IF at \in {"done", "confirmed"} THEN "confirmed" ELSE IF at = "failed" THEN "failed" ELSE "pending"
<1>0. HistoryStatuses(b) = IF BundleRows(b) # {} THEN {Code(bundle[s].at) : s \in BundleRows(b)}
                           ELSE {Code(txs[Head(ids[b])].at) : t \in {t \in Registered(b) : txs[t].at # "none"}}
  BY DEF HistoryStatuses
<1>1. CASE BundleRows(b) # {}
  <2>1. PICK s \in BundleRows(b) : Code(bundle[s].at) = "confirmed"  BY <1>0, <1>1, Zenon
  <2>2. s \in Sends /\ bundle[s] # None /\ bundle[s].of = b  BY DEF BundleRows
  <2>3. bundle[s].at = "done"  BY <2>1, <2>2, BundleFields DEF BundleStages
  <2>4. Complete(s, b) /\ \A i \in Behind(b, "done") : Succeeded(<<s, i>>)  BY <2>2, <2>3 DEF BundlesOfSent, RowOfSent
  <2>5. Behind(b, "done") = Indices(b)  BY DEF Behind
  <2>6. <<s, Quoted[b].quotes>> \in Registered(b) /\ <<s, Quoted[b].quotes>>[1] = s  BY <2>4, IndicesType DEF Complete
  <2>7. s \in Tried(b)  BY <2>6 DEF Tried
  <2> QED  BY <2>4, <2>5, <2>7 DEF Executed
<1>2. CASE BundleRows(b) = {}
  <2>1. PICK t \in Registered(b) : txs[t].at # "none"  BY <1>0, <1>2
  <2>2. bundle[t[1]] # None  BY <2>1 DEF RowsOfSent
  <2>3. t[1] \in Sends /\ RowOfSent(t[1])  BY RegisteredType DEF BundlesOfSent
  <2>4. bundle[t[1]].of = b
    <3>1. PICK c \in Bundles : c = bundle[t[1]].of  BY <2>2, <2>3, BundleFields
    <3>2. <<t[1], Quoted[c].quotes>> \in Registered(c) /\ <<t[1], Quoted[c].quotes>>[1] = t[1]
      BY <2>2, <2>3, <3>1, IndicesType DEF RowOfSent, Complete
    <3> QED  BY <3>1, <3>2 DEF RequestsRegister
  <2> QED  BY <1>2, <2>2, <2>3, <2>4 DEF BundleRows
<1> QED  BY <1>1, <1>2

\* For any bundles, quotes and requests, however often a bundle is sent and whatever becomes of
\* its transactions: wallet_getCallsStatus says confirmed only if some request for the bundle
\* was executed in full, and the history then says failed only if the settlement failed; the
\* history says confirmed of a multichain bundle only if it was executed; a bundle that was
\* sent once is failed, pending or reverted only if something was not executed.  The faucet
\* never says that funds are missing that arrived.
THEOREM StatusesAreHonest == CallsSpec => []StatusesHonest
<1>1. CallsInit => CallsIInv
  <2> SUFFICES ASSUME CallsInit PROVE CallsIInv
    OBVIOUS
  <2>1. /\ send = [s \in Sends |-> [phase |-> "new"]] /\ ids = [b \in Bundles |-> <<>>]
        /\ txs = [t \in AllTxs |-> [at |-> "none"]] /\ bundle = [s \in Sends |-> None] /\ None = [at |-> "none"]
        /\ faucet = [f \in Faucets |-> [phase |-> "new"]]
    BY DEF CallsInit, None
  <2>2. CallsTypeOK
    BY <2>1 DEF CallsTypeOK
  <2>3. \A b \in Bundles : Registered(b) = {}
    BY <2>1, <2>2, RegisteredType
  <2>4. RequestsRegister /\ BundlesOfSent
    BY <2>1, <2>3 DEF RequestsRegister, BundlesOfSent, RowOfSent
  <2>5. \A s \in Sends, i \in 0..MaxQuotes : <<s, i>> \in AllTxs
    BY DEF AllTxs
  <2>6. RowsOfSent
    BY <2>1, <2>3, <2>5 DEF RowsOfSent
  <2>7. \A f \in Faucets : <<f, 1>> \in AllTxs
    BY DEF AllTxs
  <2>8. FaucetsTold
    BY <2>1, <2>7 DEF FaucetsTold
  <2> QED
    BY <2>2, <2>4, <2>6, <2>8 DEF CallsIInv
<1>2. CallsIInv /\ [CallsNext \/ FaucetNext]_callVars => CallsIInv'
  BY CallsStep
<1>3. CallsIInv => StatusesHonest
  <2> SUFFICES ASSUME CallsIInv PROVE StatusesHonest
    OBVIOUS
  <2>1. \A f \in Faucets : faucet[f].phase = "answered" /\ faucet[f].says # "successful" => ~Succeeded(<<f, 1>>)
    BY DEF CallsIInv, FaucetsTold, Succeeded, CallsTypeOK
  <2>2. ASSUME NEW b \in Bundles
        PROVE  /\ GetCallsStatus(b) \in {"confirmed", "preconfirmed"} =>
                    (\E s \in Tried(b) : Executed(s, b)) /\ ("failed" \in HistoryStatuses(b) => SettlementFailed(b))
               /\ Multi(b) /\ "confirmed" \in HistoryStatuses(b) => \E s \in Tried(b) : Executed(s, b)
               /\ Cardinality(Tried(b)) = 1 =>
                    (GetCallsStatus(b) \in {"failed", "pending", "reverted", "partially reverted"} =>
                       \A s \in Tried(b) : ~Executed(s, b))
    BY AllSucceeded, DoneExecuted, ExecutedOnce
  <2> QED
    BY <2>1, <2>2 DEF StatusesHonest
<1> QED
  BY <1>1, <1>2, <1>3, PTL DEF CallsSpec

-----------------------------------------------------------------------------
(* Gas sponsorship *)

WeiUnits(C) == {u \in C \X (1..MaxCost) : u[2] <= u[1][2]}
Bills == SUBSET (Orders \X (1..MaxCost))
CostsOf(os) == {<<o, order[o].wei>> : o \in os}
SpentPhases == {"landed", "failed", "booked"}

\* Sums of the costs of orders are numbers.
LEMMA TotalType ==
  ASSUME NEW C \in Bills
  PROVE  IsFiniteSet(WeiUnits(C)) /\ TotalWei(C) = Cardinality(WeiUnits(C)) /\ TotalWei(C) \in Nat
<1>1. IsFiniteSet(1..MaxCost) /\ IsFiniteSet(Orders)
  BY FS_Interval, LimitsAssumption
<1>2. IsFiniteSet(Orders \X (1..MaxCost))
  BY <1>1, FS_Product, Zenon
<1>3. IsFiniteSet(C)
  BY <1>2, FS_Subset, Zenon DEF Bills
<1>4. IsFiniteSet(C \X (1..MaxCost))
  BY <1>1, <1>3, FS_Product, Zenon
<1>5. WeiUnits(C) \in SUBSET (C \X (1..MaxCost))
  BY DEF WeiUnits
<1> QED
  BY <1>4, <1>5, FS_Subset, FS_CardinalityType, Zenon DEF TotalWei, WeiUnits

\* More orders cost no less.
LEMMA TotalMono ==
  ASSUME NEW D \in Bills, NEW C \in SUBSET D
  PROVE  TotalWei(C) <= TotalWei(D)
<1>1. WeiUnits(C) \in SUBSET WeiUnits(D) /\ C \in Bills
  BY DEF WeiUnits, Bills
<1> QED
  BY <1>1, TotalType, FS_Subset, Zenon

\* One more order adds at most the cost of one transaction.
LEMMA TotalAdd ==
  ASSUME NEW C \in Bills, NEW p \in Orders \X (1..MaxCost)
  PROVE  C \cup {p} \in Bills /\ TotalWei(C \cup {p}) <= TotalWei(C) + MaxCost
<1> DEFINE one == {p} \X (1..MaxCost)
<1>1. C \cup {p} \in Bills
  BY DEF Bills
<1>2. WeiUnits(C \cup {p}) \in SUBSET (WeiUnits(C) \cup one)
  <2>1. (C \cup {p}) \X (1..MaxCost) = (C \X (1..MaxCost)) \cup one
    OBVIOUS
  <2> HIDE DEF one
  <2>2. ASSUME NEW u \in WeiUnits(C \cup {p}) PROVE u \in WeiUnits(C) \cup one
    <3>1. u \in (C \cup {p}) \X (1..MaxCost) /\ u[2] <= u[1][2]
      BY DEF WeiUnits
    <3>2. u \in C \X (1..MaxCost) \/ u \in one
      BY <2>1, <3>1
    <3> QED
      BY <3>1, <3>2, Zenon DEF WeiUnits
  <2> QED
    BY <2>2, Zenon
<1>3. IsFiniteSet(1..MaxCost) /\ Cardinality(1..MaxCost) = MaxCost
  <2>1. MaxCost \in Nat \ {0}
    BY LimitsAssumption
  <2> QED
    BY <2>1, FS_Interval
<1>4. IsFiniteSet({p}) /\ Cardinality({p}) = 1
  BY FS_Singleton, Zenon
<1>5. IsFiniteSet(one) /\ Cardinality(one) = 1 * MaxCost
  BY <1>3, <1>4, FS_Product, Zenon
<1>6. IsFiniteSet(WeiUnits(C)) /\ TotalWei(C) = Cardinality(WeiUnits(C)) /\ TotalWei(C) \in Nat
  BY TotalType
<1> HIDE DEF one
<1>7. /\ IsFiniteSet(WeiUnits(C) \cup one)
      /\ Cardinality(WeiUnits(C) \cup one) = TotalWei(C) + 1 * MaxCost - Cardinality(WeiUnits(C) \cap one)
  BY <1>5, <1>6, FS_Union, Zenon
<1>8. Cardinality(WeiUnits(C) \cap one) \in Nat
  <2>1. WeiUnits(C) \cap one \in SUBSET one
    OBVIOUS
  <2> QED
    BY <1>5, <2>1, FS_Subset, FS_CardinalityType, Zenon
<1>9. TotalWei(C \cup {p}) <= Cardinality(WeiUnits(C) \cup one)
  BY <1>1, <1>2, <1>7, TotalType, FS_Subset, Zenon
<1>10. TotalWei(C \cup {p}) \in Nat
  BY <1>1, TotalType
<1> QED
  BY <1>1, <1>6, <1>7, <1>8, <1>9, <1>10, LimitsAssumption

LEMMA TotalEmpty == TotalWei({}) = 0
<1>1. {u \in {} \X (1..MaxCost) : u[2] <= u[1][2]} = {}
  OBVIOUS
<1> QED
  BY <1>1, FS_EmptySet, Zenon DEF TotalWei

\* The limits that apply to a chain and a subject.
LEMMA LimitsType ==
  ASSUME NEW c \in PolicyChains
  PROVE  /\ Resolve(c).breaker \in Nat /\ Resolve(c).window \in Nat /\ Resolve(c).sponsor_all \in BOOLEAN
         /\ \A s : Cap(Resolve(c), s) \in Nat
<1>1. PICK q \in Asked : q.chain = c
  BY DEF PolicyChains
<1>2. /\ Resolve(c).breaker \in Nat /\ Resolve(c).per_user \in Nat /\ Resolve(c).window \in Nat
      /\ Resolve(c).sponsor_all \in BOOLEAN
      /\ \A s \in DOMAIN Resolve(c).quota_overrides : Resolve(c).quota_overrides[s] \in Nat
  BY <1>1, LimitsAssumption, Zenon
<1> QED
  BY <1>2, Zenon DEF Cap

\* What is known of an order by its phase.
LEMMA OrderFields ==
  ASSUME NEW r \in OrderRow
  PROVE  /\ r.phase \in {"new", "breaker", "quota", "quoted", "denied", "sent", "landed", "failed", "booked"}
         /\ r.phase # "new" => r.asked \in Asked /\ r.user \in Subs
         /\ r.phase \in {"sent", "landed", "failed", "booked"} => r.subject \in SponsoredSubjects
         /\ r.phase \in SpentPhases => r.wei \in 1..MaxCost /\ r.landed \in Nat
  BY DEF OrderRow, SpentPhases

\* The subject of a question is an account or that of a request.
LEMMA SubjectType ==
  ASSUME NEW q \in Asked, NEW user \in Subs
  PROVE  QuotaSubject(Resolve(q.chain), q.eoa, user) \in SponsoredSubjects /\ q.chain \in PolicyChains
         /\ q.eoa \in SponsoredSubjects
  BY Zenon DEF QuotaSubject, SponsoredSubjects, PolicyChains

\* A step replaces the row of one order.
LEMMA OrderChange ==
  ASSUME SponsorTypeOK, NEW o \in Orders, NEW row \in OrderRow, order' = [order EXCEPT ![o] = row]
  PROVE  /\ order' \in [Orders -> OrderRow] /\ order'[o] = row
         /\ \A p \in Orders \ {o} : order'[p] = order[p]
  BY DEF SponsorTypeOK

\* The costs of what was spent.
LEMMA PaidType ==
  ASSUME SponsorTypeOK, NEW c
  PROVE  /\ CostsOf(Paid(c)) \in Bills /\ Cost(Paid(c)) = TotalWei(CostsOf(Paid(c)))
         /\ \A s : /\ CostsOf(PaidFor(s, c)) \in Bills
                   /\ Cost(PaidFor(s, c)) = TotalWei(CostsOf(PaidFor(s, c)))
<1>1. \A o \in Paid(c) : o \in Orders /\ order[o].wei \in 1..MaxCost
  BY OrderFields DEF SponsorTypeOK, Paid, Open, SpentPhases
<1>2. \A s : PaidFor(s, c) \subseteq Paid(c)
  BY DEF PaidFor
<1> QED
  BY <1>1, <1>2 DEF CostsOf, Bills, Cost

\* When nothing is in between, the ledger of a window holds at least what was spent in it.
LEMMA LedgerCovers ==
  ASSUME SponsorTypeOK, SpendingBooked, Open({"landed"}) = {}, NEW c \in PolicyChains
  PROVE  /\ Cost(Paid(c)) <= GlobalSponsoredWei(c, Resolve(c).window)
         /\ GlobalSponsoredWei(c, Resolve(c).window) \in Nat /\ Cost(Paid(c)) \in Nat
         /\ \A s : /\ Cost(PaidFor(s, c)) <= SponsoredWei(s, c, Resolve(c).window)
                   /\ SponsoredWei(s, c, Resolve(c).window) \in Nat /\ Cost(PaidFor(s, c)) \in Nat
<1> DEFINE w == Resolve(c).window
           All == {<<r.tx, r.wei>> : r \in InWindow(c, w)}
           Of(s) == {<<r.tx, r.wei>> : r \in {x \in InWindow(c, w) : x.subject = s}}
<1>1. ASSUME NEW o \in Paid(c)
      PROVE  \E r \in InWindow(c, w) : r.tx = o /\ r.wei = order[o].wei /\ r.subject = Decided(o)
  <2>1. o \in Open({"booked"}) /\ order[o].asked.chain = c /\ order[o].landed >= hour - w
    BY <1>1 DEF Paid, Open, SpendingBooked
  <2>2. PICK r \in ledger : /\ r.tx = o /\ r.chain = order[o].asked.chain /\ r.wei = order[o].wei
                            /\ r.subject = Decided(o) /\ r.at >= order[o].landed
    BY <2>1 DEF SpendingBooked
  <2>3. order[o].landed \in Nat /\ r.at \in Nat /\ hour \in Nat /\ w \in Nat
    <3>1. order[o] \in OrderRow /\ order[o].phase \in SpentPhases
      BY <2>1 DEF SponsorTypeOK, Open, SpentPhases
    <3> QED
      BY <3>1, OrderFields, LimitsType DEF SponsorTypeOK, UsageRow
  <2>4. r.at >= hour - w
    BY <2>1, <2>2, <2>3
  <2> QED
    BY <2>1, <2>2, <2>4 DEF InWindow
<1>2. All \in Bills /\ \A s : Of(s) \in SUBSET All
  BY DEF SponsorTypeOK, UsageRow, InWindow, Bills
<1>3. CostsOf(Paid(c)) \subseteq All
  BY <1>1 DEF CostsOf
<1>4. \A s : CostsOf(PaidFor(s, c)) \subseteq Of(s)
  BY <1>1 DEF CostsOf, PaidFor
<1>5. /\ TotalWei(All) = GlobalSponsoredWei(c, w)
      /\ \A s : TotalWei(Of(s)) = SponsoredWei(s, c, w)
  BY DEF GlobalSponsoredWei, SponsoredWei, Spent
<1>6. \A s : Of(s) \in Bills
  BY <1>2 DEF Bills
<1> HIDE DEF All, Of, w
<1>7. /\ TotalWei(All) \in Nat /\ Cost(Paid(c)) <= TotalWei(All) /\ Cost(Paid(c)) \in Nat
  BY <1>2, <1>3, TotalMono, TotalType, PaidType
<1>8. \A s : TotalWei(Of(s)) \in Nat /\ Cost(PaidFor(s, c)) <= TotalWei(Of(s)) /\ Cost(PaidFor(s, c)) \in Nat
  BY <1>6, <1>4, TotalMono, TotalType, PaidType
<1> QED
  BY <1>5, <1>7, <1>8 DEF w

\* A step that spends nothing leaves the costs of a window, or the clock takes some out of it.
LEMMA NothingSpent ==
  ASSUME SponsorTypeOK, SponsorTypeOK', hour' >= hour,
         \A o \in Orders : /\ order'[o].phase \in SpentPhases => order[o].phase \in SpentPhases
                           /\ order[o].phase \in SpentPhases =>
                                /\ order'[o].asked = order[o].asked /\ order'[o].user = order[o].user
                                /\ order'[o].wei = order[o].wei /\ order'[o].landed = order[o].landed,
         NEW c \in PolicyChains
  PROVE  /\ Cost(Paid(c))' <= Cost(Paid(c)) /\ Cost(Paid(c)) \in Nat /\ Cost(Paid(c))' \in Nat
         /\ \A s : /\ Cost(PaidFor(s, c))' <= Cost(PaidFor(s, c))
                   /\ Cost(PaidFor(s, c)) \in Nat /\ Cost(PaidFor(s, c))' \in Nat
<1>1. ASSUME NEW o \in Paid(c)'
      PROVE  /\ o \in Paid(c) /\ order'[o].wei = order[o].wei /\ Decided(o)' = Decided(o)
  <2>1. o \in Orders /\ order'[o].phase \in SpentPhases
    BY <1>1 DEF Paid, Open, SpentPhases
  <2>2. /\ order[o].phase \in SpentPhases /\ order'[o].asked = order[o].asked /\ order'[o].user = order[o].user
        /\ order'[o].wei = order[o].wei /\ order'[o].landed = order[o].landed
    BY <2>1
  <2>3. order'[o].asked.chain = c /\ order'[o].landed >= hour' - Resolve(c).window
    BY <1>1 DEF Paid, Resolve
  <2>4. order[o].landed \in Nat /\ hour \in Nat /\ hour' \in Nat /\ Resolve(c).window \in Nat
    BY <2>1, <2>2, OrderFields, LimitsType DEF SponsorTypeOK
  <2>5. order[o].landed >= hour - Resolve(c).window
    BY <2>2, <2>3, <2>4
  <2> QED
    BY <2>1, <2>2, <2>3, <2>5 DEF Paid, Open, SpentPhases, Decided, QuotaSubject, Resolve
<1>2. CostsOf(Paid(c))' \subseteq CostsOf(Paid(c))
  BY <1>1 DEF CostsOf
<1>3. \A s : CostsOf(PaidFor(s, c))' \subseteq CostsOf(PaidFor(s, c))
  BY <1>1 DEF CostsOf, PaidFor
<1>4. /\ CostsOf(Paid(c)) \in Bills /\ Cost(Paid(c)) = TotalWei(CostsOf(Paid(c)))
      /\ \A s : /\ CostsOf(PaidFor(s, c)) \in Bills
                /\ Cost(PaidFor(s, c)) = TotalWei(CostsOf(PaidFor(s, c)))
  BY PaidType
<1>5. /\ CostsOf(Paid(c))' \in Bills /\ Cost(Paid(c))' = TotalWei(CostsOf(Paid(c))')
      /\ \A s : /\ CostsOf(PaidFor(s, c))' \in Bills
                /\ Cost(PaidFor(s, c))' = TotalWei(CostsOf(PaidFor(s, c))')
  <2>1. (/\ CostsOf(Paid(c)) \in Bills /\ Cost(Paid(c)) = TotalWei(CostsOf(Paid(c)))
         /\ \A s : /\ CostsOf(PaidFor(s, c)) \in Bills
                   /\ Cost(PaidFor(s, c)) = TotalWei(CostsOf(PaidFor(s, c))))'
    BY PaidType, PTL
  <2> QED
    BY <2>1 DEF TotalWei, Bills
<1>6. Cost(Paid(c))' <= Cost(Paid(c)) /\ Cost(Paid(c)) \in Nat /\ Cost(Paid(c))' \in Nat
  BY <1>2, <1>4, <1>5, TotalMono, TotalType, Zenon
<1>7. ASSUME NEW s
      PROVE  /\ Cost(PaidFor(s, c))' <= Cost(PaidFor(s, c))
             /\ Cost(PaidFor(s, c)) \in Nat /\ Cost(PaidFor(s, c))' \in Nat
  BY <1>3, <1>4, <1>5, TotalMono, TotalType, Zenon
<1> QED
  BY <1>6, <1>7

\* A transaction adds its cost to those of its chain and its subject, and to no other.
LEMMA OneSpent ==
  ASSUME SponsorTypeOK, SponsorTypeOK', hour' = hour, NEW o \in Orders, order[o].phase = "sent",
         order'[o].asked = order[o].asked, order'[o].user = order[o].user, order'[o].wei \in 1..MaxCost,
         \A p \in Orders \ {o} : order'[p] = order[p],
         NEW c \in PolicyChains
  PROVE  /\ Cost(Paid(c)) \in Nat /\ Cost(Paid(c))' \in Nat
         /\ Cost(Paid(c))' <= Cost(Paid(c)) + MaxCost
         /\ order[o].asked.chain # c => Cost(Paid(c))' <= Cost(Paid(c))
         /\ \A s : /\ Cost(PaidFor(s, c)) \in Nat /\ Cost(PaidFor(s, c))' \in Nat
                   /\ Cost(PaidFor(s, c))' <= Cost(PaidFor(s, c)) + MaxCost
                   /\ order[o].asked.chain # c \/ Decided(o) # s =>
                        Cost(PaidFor(s, c))' <= Cost(PaidFor(s, c))
<1> DEFINE bill == <<o, order'[o].wei>>
<1>0. bill \in Orders \X (1..MaxCost) /\ Decided(o)' = Decided(o)
  BY DEF Decided, QuotaSubject, Resolve
<1>1. ASSUME NEW p \in Paid(c)'
      PROVE  \/ p = o /\ order[o].asked.chain = c
             \/ p \in Paid(c) /\ order'[p].wei = order[p].wei /\ Decided(p)' = Decided(p)
  <2>1. CASE p = o
    BY <1>1, <2>1 DEF Paid
  <2>2. CASE p # o
    <3>1. p \in Orders /\ order'[p] = order[p]
      BY <1>1, <2>2 DEF Paid, Open
    <3> QED
      BY <1>1, <3>1 DEF Paid, Open, Decided, QuotaSubject, Resolve
  <2> QED
    BY <2>1, <2>2
<1>2. /\ CostsOf(Paid(c))' \subseteq CostsOf(Paid(c)) \cup {bill}
      /\ order[o].asked.chain # c => CostsOf(Paid(c))' \subseteq CostsOf(Paid(c))
  BY <1>1 DEF CostsOf
<1>3. ASSUME NEW s
      PROVE  /\ CostsOf(PaidFor(s, c))' \subseteq CostsOf(PaidFor(s, c)) \cup {bill}
             /\ order[o].asked.chain # c \/ Decided(o) # s =>
                  CostsOf(PaidFor(s, c))' \subseteq CostsOf(PaidFor(s, c))
  <2>1. ASSUME NEW p \in PaidFor(s, c)'
        PROVE  \/ p = o /\ order[o].asked.chain = c /\ Decided(o) = s
               \/ p \in PaidFor(s, c) /\ order'[p].wei = order[p].wei
    BY <1>0, <1>1, <2>1 DEF PaidFor
  <2> QED
    BY <2>1 DEF CostsOf
<1>4. /\ CostsOf(Paid(c)) \in Bills /\ Cost(Paid(c)) = TotalWei(CostsOf(Paid(c)))
      /\ \A s : /\ CostsOf(PaidFor(s, c)) \in Bills
                /\ Cost(PaidFor(s, c)) = TotalWei(CostsOf(PaidFor(s, c)))
  BY PaidType
<1>5. /\ CostsOf(Paid(c))' \in Bills /\ Cost(Paid(c))' = TotalWei(CostsOf(Paid(c))')
      /\ \A s : /\ CostsOf(PaidFor(s, c))' \in Bills
                /\ Cost(PaidFor(s, c))' = TotalWei(CostsOf(PaidFor(s, c))')
  <2>1. (/\ CostsOf(Paid(c)) \in Bills /\ Cost(Paid(c)) = TotalWei(CostsOf(Paid(c)))
         /\ \A s : /\ CostsOf(PaidFor(s, c)) \in Bills
                   /\ Cost(PaidFor(s, c)) = TotalWei(CostsOf(PaidFor(s, c))))'
    BY PaidType, PTL
  <2> QED
    BY <2>1 DEF TotalWei, Bills
<1> HIDE DEF bill
<1>6. ASSUME NEW C \in Bills, NEW D \in Bills, D \subseteq C \cup {bill}
      PROVE  /\ TotalWei(C) \in Nat /\ TotalWei(D) \in Nat /\ TotalWei(D) <= TotalWei(C) + MaxCost
             /\ D \subseteq C => TotalWei(D) <= TotalWei(C)
  <2>1. TotalWei(C) \in Nat /\ TotalWei(D) \in Nat
    BY TotalType
  <2>2. C \cup {bill} \in Bills /\ TotalWei(C \cup {bill}) <= TotalWei(C) + MaxCost
    BY <1>0, TotalAdd
  <2>3. TotalWei(D) <= TotalWei(C \cup {bill}) /\ TotalWei(C \cup {bill}) \in Nat
    BY <1>6, <2>2, TotalMono, TotalType, Zenon
  <2>4. D \subseteq C => TotalWei(D) <= TotalWei(C)
    BY TotalMono, Zenon
  <2> QED
    BY <2>1, <2>2, <2>3, <2>4, LimitsAssumption
<1>7. /\ Cost(Paid(c)) \in Nat /\ Cost(Paid(c))' \in Nat
      /\ Cost(Paid(c))' <= Cost(Paid(c)) + MaxCost
      /\ order[o].asked.chain # c => Cost(Paid(c))' <= Cost(Paid(c))
  BY <1>2, <1>4, <1>5, <1>6, Zenon
<1>8. ASSUME NEW s
      PROVE  /\ Cost(PaidFor(s, c)) \in Nat /\ Cost(PaidFor(s, c))' \in Nat
             /\ Cost(PaidFor(s, c))' <= Cost(PaidFor(s, c)) + MaxCost
             /\ order[o].asked.chain # c \/ Decided(o) # s => Cost(PaidFor(s, c))' <= Cost(PaidFor(s, c))
  BY <1>3, <1>4, <1>5, <1>6, Zenon
<1> QED
  BY <1>7, <1>8

\* The rest of the invariant while nothing overlapped and everything was booked.
Kept == SpendingBooked /\ OneAtATime /\ BelowBreaker /\ BelowQuota

LEMMA SponsorStart == SponsorInit => SponsorIInv
<1> SUFFICES ASSUME SponsorInit PROVE SponsorIInv
  OBVIOUS
<1>1. SponsorTypeOK
  BY DEF SponsorInit, SponsorTypeOK, OrderRow, Open
<1>2. \A S : "new" \notin S => Open(S) = {}
  BY DEF SponsorInit, Open
<1>3. SpendingBooked /\ OneAtATime
  BY DEF SponsorInit, Open, SpendingBooked, OneAtATime
<1>4. \A c : Paid(c) = {} /\ \A s : PaidFor(s, c) = {}
  BY DEF SponsorInit, Open, Paid, PaidFor
<1>5. Cost({}) = 0
  <2>1. {<<o, order[o].wei>> : o \in {}} = {}
    OBVIOUS
  <2> QED
    BY <2>1, TotalEmpty, Zenon DEF Cost
<1>6. BelowBreaker /\ BelowQuota
  <2>1. Open({"quota", "quoted", "sent"}) = {} /\ Open({"quoted", "sent"}) = {}
    BY DEF SponsorInit, Open
  <2>2. ASSUME NEW c \in PolicyChains
        PROVE  /\ Cost(Paid(c)) < Resolve(c).breaker + MaxCost
               /\ \A s : Cost(PaidFor(s, c)) < Cap(Resolve(c), s) + MaxCost
    <3>1. /\ Resolve(c).breaker \in Nat /\ \A s : Cap(Resolve(c), s) \in Nat
          /\ Cost(Paid(c)) = 0 /\ \A s : Cost(PaidFor(s, c)) = 0
      BY <1>4, <1>5, LimitsType, Zenon
    <3>2. \A n \in Nat : 0 < n + MaxCost
      BY LimitsAssumption
    <3> QED
      BY <3>1, <3>2, Zenon
  <2> QED
    BY <2>1, <2>2, Zenon DEF BelowBreaker, BelowQuota
<1> QED
  BY <1>1, <1>3, <1>6 DEF SponsorIInv

\* Orders may be quoted, sent or booked without a step past the breaker or the quota of a limited chain.
Passing == {"quota", "quoted", "sent", "landed"}
NoPass ==
  \A o \in Orders :
    /\ order'[o].phase \in SpentPhases => order[o].phase \in SpentPhases
    /\ order[o].phase \in SpentPhases =>
         /\ order'[o].asked = order[o].asked /\ order'[o].user = order[o].user
         /\ order'[o].wei = order[o].wei /\ order'[o].landed = order[o].landed
    /\ order'[o].phase \in Passing /\ Limited(o)' =>
         /\ order'[o].asked = order[o].asked /\ order'[o].user = order[o].user /\ order[o].phase \in Passing
         /\ order'[o].phase \in {"quota", "quoted", "sent"} => order[o].phase \in {"quota", "quoted", "sent"}
         /\ order'[o].phase \in {"quoted", "sent"} => order[o].phase \in {"quoted", "sent"}

\* A step that spends nothing and approves nothing keeps the spending below the limits.
LEMMA LimitsKept ==
  ASSUME SponsorTypeOK, SponsorTypeOK', Kept, hour' >= hour, NoPass
  PROVE  (OneAtATime /\ BelowBreaker /\ BelowQuota)'
<1>1. OneAtATime'
  <2> SUFFICES ASSUME NEW o \in Open(Passing)', NEW p \in Open(Passing)', Limited(o)', Limited(p)'
               PROVE  o = p
    BY DEF OneAtATime, Passing
  <2>1. o \in Open(Passing) /\ Limited(o) /\ p \in Open(Passing) /\ Limited(p)
    BY DEF NoPass, Open, Limited, Resolve
  <2> QED
    BY <2>1 DEF Kept, OneAtATime, Passing
<1>2. ASSUME NEW c \in PolicyChains, ~Resolve(c).sponsor_all
      PROVE  /\ (Cost(Paid(c)) < Resolve(c).breaker + MaxCost)'
             /\ ((\E o \in Open({"quota", "quoted", "sent"}) : order[o].asked.chain = c) =>
                  Cost(Paid(c)) < Resolve(c).breaker)'
             /\ \A s \in SponsoredSubjects :
                  /\ (Cost(PaidFor(s, c)) < Cap(Resolve(c), s) + MaxCost)'
                  /\ ((\E o \in Open({"quoted", "sent"}) : order[o].asked.chain = c /\ Decided(o) = s) =>
                       Cost(PaidFor(s, c)) < Cap(Resolve(c), s))'
  <2>1. /\ Cost(Paid(c))' <= Cost(Paid(c)) /\ Cost(Paid(c)) \in Nat /\ Cost(Paid(c))' \in Nat
        /\ \A s : /\ Cost(PaidFor(s, c))' <= Cost(PaidFor(s, c))
                  /\ Cost(PaidFor(s, c)) \in Nat /\ Cost(PaidFor(s, c))' \in Nat
    <3>1. \A o \in Orders : /\ order'[o].phase \in SpentPhases => order[o].phase \in SpentPhases
                            /\ order[o].phase \in SpentPhases =>
                                 /\ order'[o].asked = order[o].asked /\ order'[o].user = order[o].user
                                 /\ order'[o].wei = order[o].wei /\ order'[o].landed = order[o].landed
      BY DEF NoPass
    <3> QED
      BY <3>1, NothingSpent
  <2>2. Resolve(c).breaker \in Nat /\ MaxCost \in Nat /\ \A s : Cap(Resolve(c), s) \in Nat
    BY LimitsType, LimitsAssumption
  <2>3. Resolve(c)' = Resolve(c) /\ \A s : Cap(Resolve(c), s)' = Cap(Resolve(c), s)
    BY DEF Resolve, Cap
  <2>4. ASSUME NEW o \in Orders, order'[o].phase \in {"quota", "quoted", "sent"}, order'[o].asked.chain = c
        PROVE  /\ order[o].phase \in {"quota", "quoted", "sent"} /\ order[o].asked.chain = c
               /\ order'[o].phase \in {"quoted", "sent"} => order[o].phase \in {"quoted", "sent"}
               /\ Decided(o)' = Decided(o)
    <3>1. Limited(o)' /\ order'[o].phase \in Passing
      BY <1>2, <2>4 DEF Limited, Resolve, Passing
    <3>2. order'[o].asked = order[o].asked /\ order'[o].user = order[o].user
      BY <3>1 DEF NoPass
    <3> QED
      BY <2>4, <3>1, <3>2 DEF NoPass, Decided, QuotaSubject, Resolve
  <2>5. /\ Cost(Paid(c)) < Resolve(c).breaker + MaxCost
        /\ (\E o \in Open({"quota", "quoted", "sent"}) : order[o].asked.chain = c) =>
             Cost(Paid(c)) < Resolve(c).breaker
    BY <1>2 DEF Kept, BelowBreaker
  <2>6. \A s \in SponsoredSubjects :
          /\ Cost(PaidFor(s, c)) < Cap(Resolve(c), s) + MaxCost
          /\ (\E o \in Open({"quoted", "sent"}) : order[o].asked.chain = c /\ Decided(o) = s) =>
               Cost(PaidFor(s, c)) < Cap(Resolve(c), s)
    BY <1>2 DEF Kept, BelowQuota
  <2>7. (\E o \in Open({"quota", "quoted", "sent"}) : order[o].asked.chain = c)' =>
          \E o \in Open({"quota", "quoted", "sent"}) : order[o].asked.chain = c
    BY <2>4 DEF Open
  <2>8. \A s : (\E o \in Open({"quoted", "sent"}) : order[o].asked.chain = c /\ Decided(o) = s)' =>
          \E o \in Open({"quoted", "sent"}) : order[o].asked.chain = c /\ Decided(o) = s
    BY <2>4 DEF Open
  <2>9. /\ (Cost(Paid(c)) < Resolve(c).breaker + MaxCost)'
        /\ ((\E o \in Open({"quota", "quoted", "sent"}) : order[o].asked.chain = c) =>
              Cost(Paid(c)) < Resolve(c).breaker)'
    BY <2>1, <2>2, <2>3, <2>5, <2>7
  <2>10. ASSUME NEW s \in SponsoredSubjects
         PROVE  /\ (Cost(PaidFor(s, c)) < Cap(Resolve(c), s) + MaxCost)'
                /\ ((\E o \in Open({"quoted", "sent"}) : order[o].asked.chain = c /\ Decided(o) = s) =>
                      Cost(PaidFor(s, c)) < Cap(Resolve(c), s))'
    <3>1. PICK a, b \in Nat : a = Cost(PaidFor(s, c)) /\ b = Cost(PaidFor(s, c))' /\ b <= a
      BY <2>1
    <3>2. PICK n \in Nat : n = Cap(Resolve(c), s) /\ n = Cap(Resolve(c), s)'
      BY <2>2, <2>3
    <3>3. a < n + MaxCost => b < n + MaxCost
      BY <2>2, <3>1
    <3>4. a < n => b < n
      BY <3>1
    <3> QED
      BY <2>6, <2>8, <3>1, <3>2, <3>3, <3>4, Zenon
  <2> QED
    BY <2>9, <2>10
<1>3. PolicyChains' = PolicyChains /\ SponsoredSubjects' = SponsoredSubjects
  BY DEF PolicyChains, SponsoredSubjects
<1>4. \A c : Resolve(c)' = Resolve(c)
  BY DEF Resolve
<1> QED
  BY <1>1, <1>2, <1>3, <1>4, Zenon DEF BelowBreaker, BelowQuota

\* What was booked stays booked.
LEMMA BookedKept ==
  ASSUME SpendingBooked, ledger \subseteq ledger',
         \A o \in Orders : order'[o].phase \in {"failed", "booked"} =>
           /\ order'[o].phase = order[o].phase /\ order'[o].asked = order[o].asked /\ order'[o].user = order[o].user
           /\ order'[o].wei = order[o].wei /\ order'[o].landed = order[o].landed
  PROVE  SpendingBooked'
<1>1. Open({"failed"})' = {}
  BY DEF SpendingBooked, Open
<1>2. ASSUME NEW o \in Open({"booked"})'
      PROVE  \E r \in ledger' : /\ r.tx = o /\ r.chain = order'[o].asked.chain /\ r.wei = order'[o].wei
                                /\ r.subject = Decided(o)' /\ r.at >= order'[o].landed
  <2>1. /\ o \in Open({"booked"}) /\ order'[o].asked = order[o].asked /\ order'[o].user = order[o].user
        /\ order'[o].wei = order[o].wei /\ order'[o].landed = order[o].landed
    BY DEF Open
  <2>2. Decided(o)' = Decided(o)
    BY <2>1 DEF Decided, QuotaSubject, Resolve
  <2> QED
    BY <2>1, <2>2 DEF SpendingBooked
<1> QED
  BY <1>1, <1>2 DEF SpendingBooked

\* An order that is alone passes a check of the ledger: the real spending is below the limit too.
LEMMA AlonePasses ==
  ASSUME SponsorTypeOK, SponsorTypeOK', Kept, hour' = hour, ledger' = ledger,
         NEW o \in Orders, Open(Underway) = {o}, order[o].phase \in {"breaker", "quota"},
         order'[o].phase \in {"quota", "quoted"}, order'[o].asked = order[o].asked, order'[o].user = order[o].user,
         \A p \in Orders \ {o} : order'[p] = order[p],
         NEW d \in PolicyChains, d = order[o].asked.chain, Cost(Paid(d)) < Resolve(d).breaker,
         order'[o].phase = "quoted" => Cost(PaidFor(Decided(o), d)) < Cap(Resolve(d), Decided(o))
  PROVE  Kept'
<1>1. \A p \in Orders : order'[p].phase \in Underway => p = o
  BY DEF Open, Underway
<1>2. OneAtATime'
  BY <1>1 DEF OneAtATime, Open, Underway
<1>3. SpendingBooked'
  <2>1. SpendingBooked /\ ledger \subseteq ledger'
    BY DEF Kept
  <2> QED
    BY <2>1, BookedKept
<1>4. ASSUME NEW c \in PolicyChains
      PROVE  /\ Cost(Paid(c))' <= Cost(Paid(c)) /\ Cost(Paid(c)) \in Nat /\ Cost(Paid(c))' \in Nat
             /\ \A s : /\ Cost(PaidFor(s, c))' <= Cost(PaidFor(s, c))
                       /\ Cost(PaidFor(s, c)) \in Nat /\ Cost(PaidFor(s, c))' \in Nat
  <2>1. \A p \in Orders : /\ order'[p].phase \in SpentPhases => order[p].phase \in SpentPhases
                          /\ order[p].phase \in SpentPhases =>
                               /\ order'[p].asked = order[p].asked /\ order'[p].user = order[p].user
                               /\ order'[p].wei = order[p].wei /\ order'[p].landed = order[p].landed
    BY DEF SpentPhases
  <2>2. hour' >= hour
    BY DEF SponsorTypeOK
  <2> QED
    BY <2>1, <2>2, NothingSpent
<1>5. \A c : Resolve(c)' = Resolve(c) /\ \A s : Cap(Resolve(c), s)' = Cap(Resolve(c), s)
  BY DEF Resolve, Cap
<1>6. Decided(o)' = Decided(o)
  BY DEF Decided, QuotaSubject, Resolve
<1>7. ASSUME NEW c \in PolicyChains, ~Resolve(c).sponsor_all
      PROVE  /\ (Cost(Paid(c)) < Resolve(c).breaker + MaxCost)'
             /\ ((\E p \in Open({"quota", "quoted", "sent"}) : order[p].asked.chain = c) =>
                  Cost(Paid(c)) < Resolve(c).breaker)'
  <2>1. Resolve(c).breaker \in Nat /\ MaxCost \in Nat
    BY LimitsType, LimitsAssumption
  <2>2. Cost(Paid(c)) < Resolve(c).breaker + MaxCost
    BY <1>7 DEF Kept, BelowBreaker
  <2>3. (\E p \in Open({"quota", "quoted", "sent"}) : order[p].asked.chain = c)' => c = d
    BY <1>1 DEF Open, Underway
  <2>4. \A x \in Nat : Cost(Paid(c)) < x => Cost(Paid(c))' < x
    BY <1>4
  <2>5. (Cost(Paid(c)) < Resolve(c).breaker + MaxCost)'
    BY <1>5, <2>1, <2>2, <2>4
  <2>6. c = d => (Cost(Paid(c)) < Resolve(c).breaker)'
    BY <1>5, <2>1, <2>4
  <2> QED
    BY <2>3, <2>5, <2>6
<1>8. ASSUME NEW c \in PolicyChains, NEW s \in SponsoredSubjects, ~Resolve(c).sponsor_all
      PROVE  /\ (Cost(PaidFor(s, c)) < Cap(Resolve(c), s) + MaxCost)'
             /\ ((\E p \in Open({"quoted", "sent"}) : order[p].asked.chain = c /\ Decided(p) = s) =>
                  Cost(PaidFor(s, c)) < Cap(Resolve(c), s))'
  <2>1. Cap(Resolve(c), s) \in Nat /\ MaxCost \in Nat
    BY LimitsType, LimitsAssumption
  <2>2. Cost(PaidFor(s, c)) < Cap(Resolve(c), s) + MaxCost
    BY <1>8 DEF Kept, BelowQuota
  <2>3. (\E p \in Open({"quoted", "sent"}) : order[p].asked.chain = c /\ Decided(p) = s)' =>
          order'[o].phase = "quoted" /\ c = d /\ s = Decided(o)
    BY <1>1, <1>6 DEF Open, Underway
  <2>4. \A x \in Nat : Cost(PaidFor(s, c)) < x => Cost(PaidFor(s, c))' < x
    BY <1>4
  <2>5. (Cost(PaidFor(s, c)) < Cap(Resolve(c), s) + MaxCost)'
    <3>1. Cap(Resolve(c), s) + MaxCost \in Nat
      BY <2>1
    <3> QED
      BY <1>5, <3>1, <2>2, <2>4, Zenon
  <2>6. c = d /\ s = Decided(o) /\ order'[o].phase = "quoted" => (Cost(PaidFor(s, c)) < Cap(Resolve(c), s))'
    BY <1>5, <2>1, <2>4, Zenon
  <2> QED
    BY <2>3, <2>5, <2>6, Zenon
<1>9. PolicyChains' = PolicyChains /\ SponsoredSubjects' = SponsoredSubjects
  BY DEF PolicyChains, SponsoredSubjects
<1>10. BelowBreaker'
  BY <1>5, <1>7, <1>9, Zenon DEF BelowBreaker
<1>11. BelowQuota'
  BY <1>5, <1>8, <1>9, Zenon DEF BelowQuota
<1> QED
  BY <1>2, <1>3, <1>10, <1>11 DEF Kept

LEMMA SponsorTickStep ==
  ASSUME SponsorIInv, SponsorTick
  PROVE  SponsorIInv'
<1>1. SponsorTypeOK'
  <2>1. \A o \in Orders : order[o].phase \in SpentPhases => order[o].landed \in Nat /\ order[o].landed <= hour
    BY OrderFields DEF SponsorIInv, SponsorTypeOK, Open, SpentPhases
  <2>2. \A n \in Nat : n <= hour => n <= hour'
    BY DEF SponsorIInv, SponsorTypeOK, SponsorTick
  <2> QED
    BY <2>1, <2>2 DEF SponsorIInv, SponsorTypeOK, SponsorTick, Open, SpentPhases
<1>2. CASE Kept /\ ~overlapped /\ ~misbooked
  <2>1. hour' >= hour /\ NoPass
    BY DEF SponsorIInv, SponsorTypeOK, SponsorTick, NoPass, Limited
  <2>2. (OneAtATime /\ BelowBreaker /\ BelowQuota)'
    BY <1>1, <1>2, <2>1, LimitsKept DEF SponsorIInv
  <2>3. SpendingBooked'
    BY <1>2, BookedKept DEF SponsorTick, Kept
  <2> QED
    BY <1>1, <2>2, <2>3 DEF SponsorIInv
<1>3. CASE overlapped \/ misbooked
  BY <1>1, <1>3 DEF SponsorIInv, SponsorTick
<1> QED
  BY <1>2, <1>3 DEF SponsorIInv, Kept

LEMMA EvaluateStep ==
  ASSUME SponsorIInv, NEW o \in Orders, NEW q \in Asked, NEW user \in Subs, Evaluate(o, q, user)
  PROVE  SponsorIInv'
<1>0. PICK ph \in {"breaker", "quoted", "denied"} :
        /\ order' = [order EXCEPT ![o] = [phase |-> ph, asked |-> q, user |-> user]]
        /\ ph = "quoted" => Resolve(q.chain).sponsor_all
  <2>1. Resolve(q.chain).sponsor_all \in BOOLEAN
    BY LimitsType, SubjectType
  <2> QED
    BY <2>1 DEF Evaluate
<1> DEFINE row == [phase |-> ph, asked |-> q, user |-> user]
<1>1. row \in OrderRow
  BY DEF OrderRow
<1>2. /\ order' \in [Orders -> OrderRow] /\ order'[o] = row
      /\ \A p \in Orders \ {o} : order'[p] = order[p]
  BY <1>0, <1>1, OrderChange DEF SponsorIInv
<1>3. /\ UNCHANGED <<hour, ledger, overlapped, misbooked>> /\ order[o].phase = "new"
  BY DEF Evaluate
<1>4. SponsorTypeOK'
  BY <1>2, <1>3 DEF SponsorIInv, SponsorTypeOK, Open
<1>5. CASE Kept /\ ~overlapped /\ ~misbooked
  <2>1. order'[o].phase = ph /\ order'[o].asked = q
    BY <1>2
  <2>2. order'[o].phase = "quoted" => ~Limited(o)'
    BY <1>0, <2>1 DEF Limited, Resolve
  <2>3. \A p \in Orders : p = o \/ order'[p] = order[p]
    BY <1>2
  <2>4. hour' >= hour /\ NoPass
    BY <1>3, <2>1, <2>2, <2>3 DEF SponsorIInv, SponsorTypeOK, NoPass, Limited, SpentPhases, Passing
  <2>5. (OneAtATime /\ BelowBreaker /\ BelowQuota)'
    BY <1>4, <1>5, <2>4, LimitsKept DEF SponsorIInv
  <2>6. SpendingBooked'
    BY <1>3, <1>5, <2>1, <2>3, BookedKept DEF Kept
  <2> QED
    BY <1>4, <2>5, <2>6 DEF SponsorIInv
<1>6. CASE overlapped \/ misbooked
  BY <1>3, <1>4, <1>6 DEF SponsorIInv
<1> QED
  BY <1>5, <1>6 DEF SponsorIInv, Kept

\* A check of the ledger moves an order on, or denies it.
LEMMA CheckMoves ==
  ASSUME SponsorTypeOK, NEW o \in Orders, NEW ph \in {"quota", "quoted", "denied"},
         order[o].phase \in {"breaker", "quota"}, order' = [order EXCEPT ![o].phase = ph],
         hour' = hour, ledger' = ledger, overlapped' \in BOOLEAN, misbooked' \in BOOLEAN
  PROVE  /\ SponsorTypeOK' /\ order[o].asked \in Asked /\ order[o].user \in Subs
         /\ order'[o].phase = ph /\ order'[o].asked = order[o].asked /\ order'[o].user = order[o].user
         /\ \A p \in Orders \ {o} : order'[p] = order[p]
<1>1. order[o] \in [phase : {"breaker", "quota", "quoted", "denied"}, asked : Asked, user : Subs]
  BY DEF SponsorTypeOK, OrderRow
<1> DEFINE row == [order[o] EXCEPT !.phase = ph]
<1>2. /\ row \in [phase : {"breaker", "quota", "quoted", "denied"}, asked : Asked, user : Subs]
      /\ row.phase = ph /\ row.asked = order[o].asked /\ row.user = order[o].user
  BY <1>1
<1>3. row \in OrderRow
  BY <1>2 DEF OrderRow
<1>4. order' = [order EXCEPT ![o] = row]
  OBVIOUS
<1> HIDE DEF row
<1>5. /\ order' \in [Orders -> OrderRow] /\ order'[o] = row
      /\ \A p \in Orders \ {o} : order'[p] = order[p]
  BY <1>3, <1>4, OrderChange
<1>6. SponsorTypeOK'
  BY <1>2, <1>5 DEF SponsorTypeOK, Open
<1> QED
  BY <1>1, <1>2, <1>5, <1>6

\* An order that is denied passes nothing.
LEMMA DeniedKept ==
  ASSUME SponsorTypeOK, SponsorTypeOK', Kept, hour' = hour, ledger' = ledger,
         NEW o \in Orders, order[o].phase \in {"breaker", "quota"}, order'[o].phase = "denied",
         \A p \in Orders \ {o} : order'[p] = order[p]
  PROVE  Kept'
<1>1. \A p \in Orders : p = o \/ order'[p] = order[p]
  OBVIOUS
<1>2. hour' >= hour /\ NoPass
  BY <1>1 DEF SponsorTypeOK, NoPass, Limited, SpentPhases, Passing
<1>3. (OneAtATime /\ BelowBreaker /\ BelowQuota)'
  BY <1>2, LimitsKept
<1>4. SpendingBooked'
  BY <1>1, BookedKept DEF Kept
<1> QED
  BY <1>3, <1>4 DEF Kept

LEMMA ReadBreakerStep ==
  ASSUME SponsorIInv, NEW o \in Orders, ReadBreaker(o)
  PROVE  SponsorIInv'
<1> PICK d : d = order[o].asked.chain
  OBVIOUS
<1>0. PICK ph \in {"quota", "denied"} :
        /\ order' = [order EXCEPT ![o].phase = ph]
        /\ ph = "quota" => ~(GlobalSponsoredWei(d, Resolve(d).window) >= Resolve(d).breaker)
  BY DEF ReadBreaker
<1>1. /\ order[o].phase = "breaker" /\ hour' = hour /\ ledger' = ledger /\ misbooked' = misbooked
      /\ overlapped' = (overlapped \/ Open(Underway) # {o})
  BY DEF ReadBreaker
<1>2. overlapped' \in BOOLEAN /\ misbooked' \in BOOLEAN /\ SponsorTypeOK
  BY <1>1 DEF SponsorIInv, SponsorTypeOK
<1>3. /\ SponsorTypeOK' /\ order[o].asked \in Asked
      /\ order'[o].phase = ph /\ order'[o].asked = order[o].asked /\ order'[o].user = order[o].user
      /\ \A p \in Orders \ {o} : order'[p] = order[p]
  BY <1>0, <1>1, <1>2, CheckMoves
<1>4. CASE Kept /\ Open(Underway) = {o}
  <2>1. CASE ph = "denied"
    <3>1. Kept'
      BY <1>1, <1>2, <1>3, <1>4, <2>1, DeniedKept
    <3> QED
      BY <1>3, <3>1 DEF SponsorIInv, Kept
  <2>2. CASE ph = "quota"
    <3>1. Open({"landed"}) = {} /\ SpendingBooked /\ d \in PolicyChains
      BY <1>1, <1>3, <1>4 DEF Open, Underway, Kept, PolicyChains
    <3>2. /\ Cost(Paid(d)) <= GlobalSponsoredWei(d, Resolve(d).window)
          /\ GlobalSponsoredWei(d, Resolve(d).window) \in Nat /\ Cost(Paid(d)) \in Nat
      BY <1>2, <3>1, LedgerCovers
    <3>3. Resolve(d).breaker \in Nat
      BY <3>1, LimitsType
    <3>4. Cost(Paid(d)) < Resolve(d).breaker
      BY <1>0, <2>2, <3>2, <3>3
    <3>5. Kept'
      BY <1>1, <1>2, <1>3, <1>4, <2>2, <3>1, <3>4, AlonePasses
    <3> QED
      BY <1>3, <3>5 DEF SponsorIInv, Kept
  <2> QED
    BY <2>1, <2>2
<1>5. CASE overlapped' \/ misbooked'
  BY <1>3, <1>5 DEF SponsorIInv
<1> QED
  BY <1>1, <1>4, <1>5 DEF SponsorIInv, Kept

LEMMA ReadQuotaStep ==
  ASSUME SponsorIInv, NEW o \in Orders, ReadQuota(o)
  PROVE  SponsorIInv'
<1> PICK d : d = order[o].asked.chain
  OBVIOUS
<1> PICK s : s = Decided(o)
  OBVIOUS
<1>0. PICK ph \in {"quoted", "denied"} :
        /\ order' = [order EXCEPT ![o].phase = ph]
        /\ ph = "quoted" => SponsoredWei(s, d, Resolve(d).window) < Cap(Resolve(d), s)
  BY DEF ReadQuota, Decided
<1>1. /\ order[o].phase = "quota" /\ hour' = hour /\ ledger' = ledger /\ misbooked' = misbooked
      /\ overlapped' = (overlapped \/ Open(Underway) # {o})
  BY DEF ReadQuota
<1>2. overlapped' \in BOOLEAN /\ misbooked' \in BOOLEAN /\ SponsorTypeOK
  BY <1>1 DEF SponsorIInv, SponsorTypeOK
<1>3. /\ SponsorTypeOK' /\ order[o].asked \in Asked
      /\ order'[o].phase = ph /\ order'[o].asked = order[o].asked /\ order'[o].user = order[o].user
      /\ \A p \in Orders \ {o} : order'[p] = order[p]
  BY <1>0, <1>1, <1>2, CheckMoves
<1>4. CASE Kept /\ Open(Underway) = {o}
  <2>1. CASE ph = "denied"
    <3>1. Kept'
      BY <1>1, <1>2, <1>3, <1>4, <2>1, DeniedKept
    <3> QED
      BY <1>3, <3>1 DEF SponsorIInv, Kept
  <2>2. CASE ph = "quoted"
    <3>1. Open({"landed"}) = {} /\ SpendingBooked /\ d \in PolicyChains
      BY <1>1, <1>3, <1>4 DEF Open, Underway, Kept, PolicyChains
    <3>2. /\ Cost(PaidFor(s, d)) <= SponsoredWei(s, d, Resolve(d).window)
          /\ SponsoredWei(s, d, Resolve(d).window) \in Nat /\ Cost(PaidFor(s, d)) \in Nat
      BY <1>2, <3>1, LedgerCovers
    <3>3. Cap(Resolve(d), s) \in Nat
      BY <3>1, LimitsType
    <3>4. Cost(PaidFor(s, d)) < Cap(Resolve(d), s)
      BY <1>0, <2>2, <3>2, <3>3
    <3>5. CASE Resolve(d).sponsor_all
      <4>1. \A p \in Orders : p = o \/ order'[p] = order[p]
        BY <1>3
      <4>2. ~Limited(o)'
        BY <1>3, <3>5 DEF Limited, Resolve
      <4>3. hour' >= hour /\ NoPass
        BY <1>1, <1>2, <1>3, <4>1, <4>2, <2>2 DEF SponsorTypeOK, NoPass, Limited, SpentPhases, Passing
      <4>4. (OneAtATime /\ BelowBreaker /\ BelowQuota)'
        BY <1>2, <1>3, <1>4, <4>3, LimitsKept
      <4>5. SpendingBooked'
        BY <1>1, <1>3, <2>2, <3>1, <4>1, BookedKept
      <4> QED
        BY <1>3, <4>4, <4>5 DEF SponsorIInv
    <3>6. CASE ~Resolve(d).sponsor_all
      <4>1. Cost(Paid(d)) < Resolve(d).breaker
        BY <1>1, <1>4, <3>1, <3>6 DEF Kept, BelowBreaker, Open
      <4>2. Kept'
        BY <1>1, <1>2, <1>3, <1>4, <2>2, <3>1, <3>4, <4>1, AlonePasses
      <4> QED
        BY <1>3, <4>2 DEF SponsorIInv, Kept
    <3> QED
      BY <3>5, <3>6
  <2> QED
    BY <2>1, <2>2
<1>5. CASE overlapped' \/ misbooked'
  BY <1>3, <1>5 DEF SponsorIInv
<1> QED
  BY <1>1, <1>4, <1>5 DEF SponsorIInv, Kept

LEMMA SendSponsoredStep ==
  ASSUME SponsorIInv, NEW o \in Orders, NEW user \in Subs, SendSponsored(o, user)
  PROVE  SponsorIInv'
<1>1. /\ UNCHANGED <<hour, ledger, overlapped, misbooked>> /\ order[o].phase = "quoted" /\ SponsorTypeOK
  BY DEF SendSponsored, SponsorIInv
<1>2. order[o].asked \in Asked /\ order[o].user \in Subs
  BY <1>1, OrderFields DEF SponsorTypeOK
<1>3. PICK s \in SponsoredSubjects : s = QuotaSubject(Resolve(order[o].asked.chain), order[o].asked.eoa, user)
  BY <1>2, SubjectType
<1> DEFINE row == [phase |-> "sent", asked |-> order[o].asked, user |-> order[o].user, subject |-> s]
<1>4. row \in OrderRow
  BY <1>2 DEF OrderRow
<1>5. order' = [order EXCEPT ![o] = row]
  BY <1>3 DEF SendSponsored
<1>6. row.phase = "sent" /\ row.asked = order[o].asked /\ row.user = order[o].user
  OBVIOUS
<1> HIDE DEF row
<1>7. /\ order' \in [Orders -> OrderRow] /\ order'[o] = row
      /\ \A p \in Orders \ {o} : order'[p] = order[p]
  BY <1>1, <1>4, <1>5, OrderChange
<1>8. SponsorTypeOK'
  BY <1>1, <1>6, <1>7 DEF SponsorTypeOK, Open
<1>9. CASE Kept /\ ~overlapped /\ ~misbooked
  <2>1. \A p \in Orders : p = o \/ order'[p] = order[p]
    BY <1>7
  <2>2. hour' >= hour /\ NoPass
    BY <1>1, <1>6, <1>7, <2>1 DEF SponsorTypeOK, NoPass, Limited, SpentPhases, Passing
  <2>3. (OneAtATime /\ BelowBreaker /\ BelowQuota)'
    BY <1>1, <1>8, <1>9, <2>2, LimitsKept
  <2>4. SpendingBooked'
    BY <1>1, <1>6, <1>7, <1>9, <2>1, BookedKept DEF Kept
  <2> QED
    BY <1>8, <2>3, <2>4 DEF SponsorIInv
<1>10. CASE overlapped \/ misbooked
  BY <1>1, <1>8, <1>10 DEF SponsorIInv
<1> QED
  BY <1>9, <1>10 DEF SponsorIInv, Kept

\* The one order that passed spends at most the cost of one transaction, and none is left behind it.
LEMMA ExecuteStep ==
  ASSUME SponsorIInv, NEW o \in Orders, NEW wei \in 1..MaxCost, NEW ok \in BOOLEAN, Execute(o, wei, ok)
  PROVE  SponsorIInv'
<1>1. /\ UNCHANGED <<hour, ledger, overlapped>> /\ misbooked' = (misbooked \/ ~ok)
      /\ order[o].phase = "sent" /\ SponsorTypeOK
  BY DEF Execute, SponsorIInv
<1>2. order[o].asked \in Asked /\ order[o].user \in Subs /\ order[o].subject \in SponsoredSubjects
  BY <1>1, OrderFields DEF SponsorTypeOK
<1>3. PICK ph \in {"landed", "failed"} : ph = IF ok THEN "landed" ELSE "failed"
  OBVIOUS
<1> DEFINE row == [phase |-> ph, asked |-> order[o].asked, user |-> order[o].user,
                   subject |-> order[o].subject, wei |-> wei, landed |-> hour]
<1>4. row \in OrderRow
  <2>1. hour \in Nat
    BY <1>1 DEF SponsorTypeOK
  <2> QED
    BY <1>2, <2>1 DEF OrderRow
<1>5. order' = [order EXCEPT ![o] = row]
  BY <1>3 DEF Execute
<1>6. row.phase = ph /\ row.asked = order[o].asked /\ row.user = order[o].user /\ row.wei = wei /\ row.landed = hour
  OBVIOUS
<1> HIDE DEF row
<1>7. /\ order' \in [Orders -> OrderRow] /\ order'[o] = row
      /\ \A p \in Orders \ {o} : order'[p] = order[p]
  BY <1>1, <1>4, <1>5, OrderChange
<1>8. \A p \in Orders : p = o \/ order'[p] = order[p]
  BY <1>7
<1>9. SponsorTypeOK'
  BY <1>1, <1>6, <1>7, <1>8 DEF SponsorTypeOK, Open
<1>10. CASE Kept /\ ok
  <2>1. ph = "landed"
    BY <1>3, <1>10
  <2>2. SpendingBooked'
    BY <1>1, <1>6, <1>7, <1>8, <1>10, <2>1, BookedKept DEF Kept
  <2>3. /\ order'[o].phase = "landed" /\ order'[o].asked = order[o].asked /\ order'[o].user = order[o].user
        /\ order'[o].wei \in 1..MaxCost
    BY <1>6, <1>7, <2>1
  <2>4. ASSUME NEW p \in Open(Passing)', Limited(p)'
        PROVE  p \in Open(Passing) /\ Limited(p)
    <3>1. CASE p = o
      BY <1>1, <2>3, <2>4, <3>1 DEF Open, Passing, Limited, Resolve
    <3>2. CASE p # o
      BY <1>8, <2>4, <3>2 DEF Open, Limited, Resolve
    <3> QED
      BY <3>1, <3>2
  <2>5. OneAtATime'
    BY <1>10, <2>4 DEF Kept, OneAtATime, Passing
  <2>6. \A c : Resolve(c)' = Resolve(c) /\ \A s : Cap(Resolve(c), s)' = Cap(Resolve(c), s)
    BY DEF Resolve, Cap
  <2>7. ASSUME NEW c \in PolicyChains, ~Resolve(c).sponsor_all, NEW p \in Orders,
               order'[p].phase \in {"quota", "quoted", "sent"}, order'[p].asked.chain = c
        PROVE  p # o /\ order[o].asked.chain # c
    <3>1. p # o /\ order'[p] = order[p]
      BY <1>8, <2>3, <2>7
    <3>2. SUFFICES ASSUME order[o].asked.chain = c PROVE FALSE
      BY <3>1
    <3>3. Limited(p) /\ Limited(o) /\ p \in Open(Passing) /\ o \in Open(Passing)
      BY <1>1, <2>7, <3>1, <3>2 DEF Limited, Open, Passing
    <3> QED
      BY <1>10, <3>1, <3>3 DEF Kept, OneAtATime, Passing
  <2>8. ASSUME NEW c \in PolicyChains
        PROVE  /\ Cost(Paid(c)) \in Nat /\ Cost(Paid(c))' \in Nat
               /\ Cost(Paid(c))' <= Cost(Paid(c)) + MaxCost
               /\ order[o].asked.chain # c => Cost(Paid(c))' <= Cost(Paid(c))
               /\ \A s : /\ Cost(PaidFor(s, c)) \in Nat /\ Cost(PaidFor(s, c))' \in Nat
                         /\ Cost(PaidFor(s, c))' <= Cost(PaidFor(s, c)) + MaxCost
                         /\ order[o].asked.chain # c \/ Decided(o) # s =>
                              Cost(PaidFor(s, c))' <= Cost(PaidFor(s, c))
    BY <1>1, <1>7, <1>9, <2>3, OneSpent
  <2>9. ASSUME NEW c \in PolicyChains, ~Resolve(c).sponsor_all
        PROVE  /\ (Cost(Paid(c)) < Resolve(c).breaker + MaxCost)'
               /\ ((\E p \in Open({"quota", "quoted", "sent"}) : order[p].asked.chain = c) =>
                    Cost(Paid(c)) < Resolve(c).breaker)'
    <3>1. PICK a, b, n \in Nat : a = Cost(Paid(c)) /\ b = Cost(Paid(c))' /\ n = Resolve(c).breaker
      BY <2>8, LimitsType
    <3>2. /\ a < n + MaxCost
          /\ (\E p \in Open({"quota", "quoted", "sent"}) : order[p].asked.chain = c) => a < n
      BY <1>10, <2>9, <3>1 DEF Kept, BelowBreaker
    <3>3. b <= a + MaxCost /\ (order[o].asked.chain # c => b <= a)
      BY <2>8, <3>1, Zenon
    <3>4. order[o].asked.chain = c => a < n
      BY <1>1, <3>2 DEF Open
    <3>5. MaxCost \in Nat
      BY LimitsAssumption
    <3>6. b < n + MaxCost
      BY <3>1, <3>2, <3>3, <3>4, <3>5
    <3>7. ASSUME (\E p \in Open({"quota", "quoted", "sent"}) : order[p].asked.chain = c)'
          PROVE  b < n
      <4>1. PICK p \in Orders : order'[p].phase \in {"quota", "quoted", "sent"} /\ order'[p].asked.chain = c
        BY <3>7 DEF Open
      <4>2. p # o /\ order[o].asked.chain # c /\ order'[p] = order[p]
        BY <1>8, <2>7, <2>9, <4>1
      <4>3. a < n
        BY <3>2, <4>1, <4>2 DEF Open
      <4> QED
        BY <3>3, <4>2, <4>3
    <3> QED
      BY <2>6, <3>1, <3>6, <3>7
  <2>10. ASSUME NEW c \in PolicyChains, NEW s \in SponsoredSubjects, ~Resolve(c).sponsor_all
        PROVE  /\ (Cost(PaidFor(s, c)) < Cap(Resolve(c), s) + MaxCost)'
               /\ ((\E p \in Open({"quoted", "sent"}) : order[p].asked.chain = c /\ Decided(p) = s) =>
                    Cost(PaidFor(s, c)) < Cap(Resolve(c), s))'
    <3>1. PICK a, b, n \in Nat :
            a = Cost(PaidFor(s, c)) /\ b = Cost(PaidFor(s, c))' /\ n = Cap(Resolve(c), s)
      BY <2>8, LimitsType
    <3>2. /\ a < n + MaxCost
          /\ (\E p \in Open({"quoted", "sent"}) : order[p].asked.chain = c /\ Decided(p) = s) => a < n
      BY <1>10, <2>10, <3>1 DEF Kept, BelowQuota
    <3>3. b <= a + MaxCost /\ (order[o].asked.chain # c \/ Decided(o) # s => b <= a)
      BY <2>8, <3>1, Zenon
    <3>4. order[o].asked.chain = c /\ Decided(o) = s => a < n
      BY <1>1, <3>2 DEF Open
    <3>5. MaxCost \in Nat
      BY LimitsAssumption
    <3>6. b < n + MaxCost
      BY <3>1, <3>2, <3>3, <3>4, <3>5
    <3>7. ASSUME (\E p \in Open({"quoted", "sent"}) : order[p].asked.chain = c /\ Decided(p) = s)'
          PROVE  b < n
      <4>1. PICK p \in Orders :
              /\ order'[p].phase \in {"quoted", "sent"} /\ order'[p].asked.chain = c /\ Decided(p)' = s
        BY <3>7 DEF Open
      <4>2. p # o /\ order[o].asked.chain # c /\ order'[p] = order[p]
        BY <1>8, <2>7, <2>10, <4>1
      <4>3. Decided(p) = s
        BY <4>1, <4>2 DEF Decided, QuotaSubject, Resolve
      <4>4. a < n
        BY <3>2, <4>1, <4>2, <4>3 DEF Open
      <4> QED
        BY <3>3, <4>2, <4>4
    <3> QED
      BY <2>6, <3>1, <3>6, <3>7, Zenon
  <2>11. PolicyChains' = PolicyChains /\ SponsoredSubjects' = SponsoredSubjects
    BY DEF PolicyChains, SponsoredSubjects
  <2>12. BelowBreaker'
    BY <2>6, <2>9, <2>11, Zenon DEF BelowBreaker
  <2>13. BelowQuota'
    BY <2>6, <2>10, <2>11, Zenon DEF BelowQuota
  <2> QED
    BY <1>9, <2>2, <2>5, <2>12, <2>13 DEF SponsorIInv
<1>11. CASE overlapped \/ misbooked \/ ~ok
  BY <1>1, <1>9, <1>11 DEF SponsorIInv
<1> QED
  BY <1>10, <1>11 DEF SponsorIInv, Kept

LEMMA RecordStep ==
  ASSUME SponsorIInv, NEW o \in Orders, NEW booked \in BOOLEAN, RecordSponsorshipUsage(o, booked)
  PROVE  SponsorIInv'
<1> PICK q : q = order[o].asked
  OBVIOUS
<1> PICK s : s = IF order[o].subject = NoUser THEN q.eoa ELSE order[o].subject
  OBVIOUS
<1> PICK usage : usage = [tx |-> o, subject |-> s, chain |-> q.chain, wei |-> order[o].wei, at |-> hour]
  OBVIOUS
<1>1. /\ order[o].phase = "landed" /\ order' = [order EXCEPT ![o].phase = "booked"]
      /\ hour' = hour /\ overlapped' = overlapped /\ SponsorTypeOK
      /\ ledger' = ledger \cup IF booked THEN {usage} ELSE {}
      /\ misbooked' = (misbooked \/ ~booked \/ s # Decided(o))
  BY Zenon DEF RecordSponsorshipUsage, SponsorIInv, Decided
<1>2. order[o] \in [phase : {"landed", "failed", "booked"}, asked : Asked, user : Subs, subject : SponsoredSubjects,
                    wei : 1..MaxCost, landed : Nat]
  BY <1>1 DEF SponsorTypeOK, OrderRow
<1> DEFINE row == [order[o] EXCEPT !.phase = "booked"]
<1>3. /\ row \in [phase : {"landed", "failed", "booked"}, asked : Asked, user : Subs, subject : SponsoredSubjects,
                  wei : 1..MaxCost, landed : Nat]
      /\ row.phase = "booked" /\ row.asked = order[o].asked /\ row.user = order[o].user
      /\ row.wei = order[o].wei /\ row.landed = order[o].landed
  BY <1>2
<1>4. row \in OrderRow
  BY <1>3 DEF OrderRow
<1>5. order' = [order EXCEPT ![o] = row]
  BY <1>1
<1> HIDE DEF row
<1>6. /\ order' \in [Orders -> OrderRow] /\ order'[o] = row
      /\ \A p \in Orders \ {o} : order'[p] = order[p]
  BY <1>1, <1>4, <1>5, OrderChange
<1>7. \A p \in Orders : p = o \/ order'[p] = order[p]
  BY <1>6
<1>8. usage \in UsageRow
  <2>1. q \in Asked /\ order[o].subject \in SponsoredSubjects /\ order[o].wei \in 1..MaxCost
    BY <1>2
  <2>2. q.eoa \in SponsoredSubjects /\ q.chain \in PolicyChains
    BY <2>1 DEF SponsoredSubjects, PolicyChains
  <2>3. s \in SponsoredSubjects /\ hour \in Nat
    BY <1>1, <2>1, <2>2 DEF SponsorTypeOK
  <2> QED
    BY <2>1, <2>2, <2>3 DEF UsageRow
<1>9. SponsorTypeOK'
  <2>1. order[o].landed <= hour
    BY <1>1 DEF SponsorTypeOK, Open
  <2>2. \A p \in Open({"landed", "failed", "booked"})' : order'[p].landed <= hour'
    BY <1>1, <1>3, <1>6, <1>7, <2>1 DEF SponsorTypeOK, Open
  <2>3. ledger' \in SUBSET UsageRow /\ hour' \in Nat /\ overlapped' \in BOOLEAN /\ misbooked' \in BOOLEAN
    BY <1>1, <1>8 DEF SponsorTypeOK
  <2> QED
    BY <1>6, <2>2, <2>3 DEF SponsorTypeOK
<1>10. CASE Kept /\ booked /\ s = Decided(o)
  <2>1. hour' >= hour /\ NoPass
    BY <1>1, <1>3, <1>6, <1>7 DEF SponsorTypeOK, NoPass, Limited, SpentPhases, Passing
  <2>2. (OneAtATime /\ BelowBreaker /\ BelowQuota)'
    BY <1>1, <1>9, <1>10, <2>1, LimitsKept
  <2>3. Open({"failed"})' = {}
    BY <1>3, <1>6, <1>7, <1>10 DEF Kept, SpendingBooked, Open
  <2>4. ASSUME NEW p \in Open({"booked"})'
        PROVE  \E r \in ledger' : /\ r.tx = p /\ r.chain = order'[p].asked.chain /\ r.wei = order'[p].wei
                                  /\ r.subject = Decided(p)' /\ r.at >= order'[p].landed
    <3>1. CASE p = o
      <4>1. usage \in ledger'
        BY <1>1, <1>10
      <4>2. Decided(o)' = s
        BY <1>3, <1>6, <1>10 DEF Decided, QuotaSubject, Resolve
      <4>3. order[o].landed \in Nat /\ hour \in Nat /\ order[o].landed <= hour
        BY <1>1, <1>2 DEF SponsorTypeOK, Open
      <4>4. /\ usage.tx = o /\ usage.chain = q.chain /\ usage.wei = order[o].wei /\ usage.subject = s
            /\ usage.at = hour
        OBVIOUS
      <4>5. /\ usage.chain = order'[o].asked.chain /\ usage.wei = order'[o].wei /\ usage.at >= order'[o].landed
        BY <1>3, <1>6, <4>3, <4>4
      <4> QED
        BY <3>1, <4>1, <4>2, <4>4, <4>5
    <3>2. CASE p # o
      <4>1. order'[p] = order[p] /\ p \in Open({"booked"})
        BY <1>7, <2>4, <3>2 DEF Open
      <4>2. Decided(p)' = Decided(p)
        BY <4>1 DEF Decided, QuotaSubject, Resolve
      <4> QED
        BY <1>1, <1>10, <4>1, <4>2 DEF Kept, SpendingBooked
    <3> QED
      BY <3>1, <3>2
  <2> QED
    BY <1>9, <2>2, <2>3, <2>4 DEF SponsorIInv, SpendingBooked
<1>11. CASE overlapped \/ misbooked \/ ~booked \/ s # Decided(o)
  BY <1>1, <1>9, <1>11 DEF SponsorIInv
<1> QED
  BY <1>10, <1>11 DEF SponsorIInv, Kept

\* For any policy, orders and subjects: as long as approvals do not overlap and all spending is booked under
\* the subject that it was approved for, a window's real spending stays below the breaker and the quota plus
\* one transaction, and a subject that is told of a remaining quota is below it.
THEOREM QuotasHold == SponsorSpec => []QuotaHolds
<1>1. SponsorIInv /\ [SponsorNext]_sponsorVars => SponsorIInv'
  <2> SUFFICES ASSUME SponsorIInv, [SponsorNext]_sponsorVars PROVE SponsorIInv'
    OBVIOUS
  <2>1. CASE SponsorTick
    BY <2>1, SponsorTickStep
  <2>2. ASSUME NEW o \in Orders, NEW q \in Asked, NEW user \in Subs, Evaluate(o, q, user) PROVE SponsorIInv'
    BY <2>2, EvaluateStep
  <2>3. ASSUME NEW o \in Orders, ReadBreaker(o) \/ ReadQuota(o) PROVE SponsorIInv'
    BY <2>3, ReadBreakerStep, ReadQuotaStep
  <2>4. ASSUME NEW o \in Orders, NEW user \in Subs, SendSponsored(o, user) PROVE SponsorIInv'
    BY <2>4, SendSponsoredStep
  <2>5. ASSUME NEW o \in Orders, NEW wei \in 1..MaxCost, NEW ok \in BOOLEAN, Execute(o, wei, ok)
        PROVE  SponsorIInv'
    BY <2>5, ExecuteStep
  <2>6. ASSUME NEW o \in Orders, NEW booked \in BOOLEAN, RecordSponsorshipUsage(o, booked) PROVE SponsorIInv'
    BY <2>6, RecordStep
  <2>7. CASE UNCHANGED sponsorVars
    <3>1. hour' = hour /\ ledger' = ledger /\ order' = order /\ overlapped' = overlapped /\ misbooked' = misbooked
      BY <2>7 DEF sponsorVars
    <3>2. SponsorTypeOK'
      BY <3>1 DEF SponsorIInv, SponsorTypeOK, Open
    <3>3. CASE Kept
      <4>1. hour' >= hour /\ NoPass /\ SponsorTypeOK
        BY <3>1 DEF SponsorIInv, SponsorTypeOK, NoPass, Limited
      <4>2. (OneAtATime /\ BelowBreaker /\ BelowQuota)'
        BY <3>2, <3>3, <4>1, LimitsKept
      <4>3. SpendingBooked'
        BY <3>1, <3>3, BookedKept DEF Kept
      <4> QED
        BY <3>2, <4>2, <4>3 DEF SponsorIInv
    <3> QED
      BY <3>1, <3>2, <3>3 DEF SponsorIInv, Kept
  <2> QED
    BY <2>1, <2>2, <2>3, <2>4, <2>5, <2>6, <2>7, Zenon DEF SponsorNext
<1>2. SponsorIInv => QuotaHolds
  <2> SUFFICES ASSUME SponsorIInv, ~overlapped, ~misbooked, NEW c \in PolicyChains, ~Resolve(c).sponsor_all
               PROVE  /\ Cost(Paid(c)) < Resolve(c).breaker + MaxCost
                      /\ \A s \in SponsoredSubjects \ {NoUser} :
                           /\ Cost(PaidFor(s, c)) < Cap(Resolve(c), s) + MaxCost
                           /\ Cost(PaidFor(s, c)) >= Cap(Resolve(c), s) /\ Open({"landed"}) = {} =>
                                QuotaStatus(s, c).remaining = 0
    BY Zenon DEF QuotaHolds
  <2>1. SponsorTypeOK /\ SpendingBooked /\ BelowBreaker /\ BelowQuota
    BY DEF SponsorIInv
  <2>2. /\ Cost(Paid(c)) < Resolve(c).breaker + MaxCost
        /\ \A s \in SponsoredSubjects : Cost(PaidFor(s, c)) < Cap(Resolve(c), s) + MaxCost
    BY <2>1 DEF BelowBreaker, BelowQuota
  <2>3. ASSUME NEW s, Cost(PaidFor(s, c)) >= Cap(Resolve(c), s), Open({"landed"}) = {}
        PROVE  QuotaStatus(s, c).remaining = 0
    <3>1. /\ Cost(PaidFor(s, c)) <= SponsoredWei(s, c, Resolve(c).window)
          /\ SponsoredWei(s, c, Resolve(c).window) \in Nat /\ Cost(PaidFor(s, c)) \in Nat
      BY <2>1, <2>3, LedgerCovers
    <3>2. Cap(Resolve(c), s) \in Nat
      BY LimitsType
    <3>3. ~(SponsoredWei(s, c, Resolve(c).window) < Cap(Resolve(c), s))
      BY <2>3, <3>1, <3>2
    <3> QED
      BY <3>3 DEF QuotaStatus
  <2> QED
    BY <2>2, <2>3
<1> QED
  BY <1>1, <1>2, SponsorStart, PTL DEF SponsorSpec

-----------------------------------------------------------------------------
(* Accounts and pre-calls *)

\* A set of natural numbers has a least element.
LEMMA LeastNumber ==
  ASSUME NEW T, T \subseteq Nat, T # {}
  PROVE  \E x \in T : \A y \in T : x <= y
<1> DEFINE Lt == {ss \in Nat \X Nat : ss[1] < ss[2]}
<1>1. IsWellFoundedOn(Lt, Nat)  BY NatLessThanWellFounded DEF OpToRel
<1> HIDE DEF Lt
<1>2. PICK x \in T : \A y \in T : ~ (<<y, x>> \in Lt)  BY <1>1, WFMin
<1>3. ASSUME NEW y \in T PROVE x <= y
  <2>1. x \in Nat /\ y \in Nat  OBVIOUS
  <2>2. y < x => <<y, x>> \in Lt  BY <2>1 DEF Lt
  <2> QED  BY <1>2, <2>1, <2>2
<1> QED  BY <1>3

\* Numbers up to a bound have a greatest one, which Max returns.
LEMMA MaxOfBounded ==
  ASSUME NEW T, NEW b \in Nat, T \subseteq 0..b, T # {}
  PROVE  Max(T) \in T /\ \A y \in T : y <= Max(T)
<1> DEFINE U == {u \in Nat : \A y \in T : y <= u}
<1>1. b \in U  OBVIOUS
<1>2. PICK m \in U : \A u \in U : m <= u
  <2>1. U \subseteq Nat /\ U # {}  BY <1>1
  <2> QED  BY <2>1, LeastNumber
<1>3. m \in T
  <2> SUFFICES ASSUME m \notin T PROVE FALSE  OBVIOUS
  <2>1. PICK y \in T : TRUE  OBVIOUS
  <2>2. m \in Nat /\ \A z \in T : z \in Nat /\ z <= m /\ z # m  OBVIOUS
  <2>3. m - 1 \in Nat /\ \A z \in T : z <= m - 1  BY <2>1, <2>2
  <2>4. m - 1 \in U  BY <2>3
  <2> QED  BY <1>2, <2>2, <2>4
<1>4. \A y \in T : y <= m  BY <1>2
<1>5. \E x \in T : \A y \in T : x >= y  BY <1>3, <1>4
<1> HIDE DEF U
<1> QED  BY <1>5 DEF Max

\* What the chain's account is while pre-calls are applied.
ChainState(s) ==
  /\ s = [ok |-> s.ok, seq |-> s.seq, keys |-> s.keys]
  /\ s.ok \in BOOLEAN /\ s.seq \in [Keys -> Nat]

LEMMA AppliedCallStep ==
  ASSUME NEW s, NEW p, ChainState(s)
  PROVE  LET t == AppliedCall(s, p)
         IN  /\ ChainState(t) /\ \A k \in Keys : t.seq[k] >= s.seq[k]
             /\ t.ok => s.ok /\ (p.key \in Keys => p.nonce \in Nat /\ p.nonce < t.seq[p.key])
<1> DEFINE good == s.ok /\ s.seq[p.key] = p.nonce /\ (p.by = "root" \/ p.by \in s.keys)
           t == AppliedCall(s, p)
<1>0. s.seq \in [Keys -> Nat] /\ s.ok \in BOOLEAN /\ s = [ok |-> s.ok, seq |-> s.seq, keys |-> s.keys]
  BY DEF ChainState
<1>1. CASE good
  <2> PICK q : q = [s.seq EXCEPT ![p.key] = @ + 1]  OBVIOUS
  <2> PICK ks : ks = IF p.op = "authorize" THEN s.keys \cup {p.key} ELSE s.keys \ {p.key}  OBVIOUS
  <2>1. t = [ok |-> TRUE, seq |-> q, keys |-> ks]  BY <1>1 DEF AppliedCall
  <2>2. q \in [Keys -> Nat] /\ \A k \in Keys : q[k] >= s.seq[k]
    <3>1. \A k \in Keys : s.seq[k] \in Nat /\ s.seq[k] + 1 \in Nat /\ s.seq[k] + 1 >= s.seq[k] /\ s.seq[k] >= s.seq[k]
      BY <1>0
    <3> QED  BY <1>0, <3>1
  <2>6. \A k \in Keys : s.seq[k] \in Nat  BY <1>0
  <2>3. p.key \in Keys => p.nonce \in Nat /\ p.nonce < q[p.key]  BY <1>0, <1>1
  <2>4. t.ok = TRUE /\ t.seq = q /\ t.keys = ks  BY <2>1
  <2>5. s.ok  BY <1>1
  <2> HIDE DEF t
  <2> QED  BY <2>1, <2>2, <2>3, <2>4, <2>5 DEF ChainState, t
<1>2. CASE ~good
  <2>1. t = [s EXCEPT !.ok = FALSE]  BY <1>2 DEF AppliedCall
  <2>2. t = [ok |-> FALSE, seq |-> s.seq, keys |-> s.keys]  BY <1>0, <2>1
  <2>3. t.ok = FALSE /\ t.seq = s.seq /\ t.keys = s.keys  BY <2>2
  <2>4. \A k \in Keys : s.seq[k] >= s.seq[k]  BY <1>0
  <2> HIDE DEF t
  <2> QED  BY <1>0, <2>2, <2>3, <2>4 DEF ChainState, t
<1> QED  BY <1>1, <1>2

\* The states one after the other, up to the n-th.
States(start, cs, n, f) ==
  f = [i \in 0..n |-> IF i = 0 THEN start ELSE AppliedCall(f[i - 1], cs[i])]

LEMMA StatesExist ==
  ASSUME NEW start, NEW cs, NEW n \in Nat
  PROVE  \E f : States(start, cs, n, f)
<1> DEFINE T == {m \in Nat : ~ \E f : States(start, cs, m, f)}
<1> SUFFICES ASSUME T # {} PROVE FALSE  OBVIOUS
<1>1. PICK m \in T : \A y \in T : m <= y
  <2>1. T \subseteq Nat  OBVIOUS
  <2> QED  BY <2>1, LeastNumber
<1>2. CASE m = 0
  <2> PICK f : f = [i \in 0..0 |-> start]  OBVIOUS
  <2>1. f = [i \in 0..0 |-> IF i = 0 THEN start ELSE AppliedCall(f[i - 1], cs[i])]
    <3>1. \A i \in 0..0 : i = 0  OBVIOUS
    <3> QED  BY <3>1
  <2> QED  BY <1>2, <2>1 DEF States
<1>3. CASE m # 0
  <2>1. m \in Nat /\ m - 1 \in Nat /\ m - 1 \notin T  BY <1>1, <1>3
  <2>2. PICK g : States(start, cs, m - 1, g)  BY <2>1
  <2> PICK f : f = [i \in 0..m |-> IF i = m THEN AppliedCall(g[m - 1], cs[m]) ELSE g[i]]  OBVIOUS
  <2>3. g = [i \in 0..(m - 1) |-> IF i = 0 THEN start ELSE AppliedCall(g[i - 1], cs[i])]
    BY <2>2 DEF States
  <2>4. \A i \in 0..m : i # m => i \in 0..(m - 1)  BY <2>1
  <2>5. \A i \in 0..m : i # 0 => i - 1 \in 0..m /\ i - 1 # m /\ f[i - 1] = g[i - 1]  BY <2>1
  <2>6. \A i \in 0..m : f[i] = IF i = 0 THEN start ELSE AppliedCall(f[i - 1], cs[i])
    <3> TAKE i \in 0..m
    <3>1. CASE i = m
      <4>1. f[i] = AppliedCall(g[m - 1], cs[m])  BY <3>1
      <4>2. f[i - 1] = g[m - 1]  BY <3>1, <1>3, <2>5
      <4> QED  BY <4>1, <4>2, <3>1, <1>3
    <3>2. CASE i # m
      <4>1. f[i] = g[i] /\ i \in 0..(m - 1)  BY <3>2, <2>4
      <4>2. g[i] = IF i = 0 THEN start ELSE AppliedCall(g[i - 1], cs[i])  BY <4>1, <2>3
      <4>3. i # 0 => f[i - 1] = g[i - 1]  BY <2>5
      <4> QED  BY <4>1, <4>2, <4>3
    <3> QED  BY <3>1, <3>2
  <2>7. f = [i \in 0..m |-> IF i = 0 THEN start ELSE AppliedCall(f[i - 1], cs[i])]
    <3>1. f = [i \in 0..m |-> f[i]]  OBVIOUS
    <3> QED  BY <2>6, <3>1
  <2> QED  BY <2>7 DEF States
<1> QED  BY <1>2, <1>3

\* The sequences of nonces only grow; after calls that do not fail, their nonces
\* are used.
LEMMA AppliedState ==
  ASSUME NEW start, NEW cs, ChainState(start), IsCallList(cs)
  PROVE  LET end == Applied(start, cs)
         IN  /\ ChainState(end) /\ \A k \in Keys : end.seq[k] >= start.seq[k]
             /\ end.ok => \A j \in DOMAIN cs : cs[j].key \in Keys => cs[j].nonce \in Nat /\ cs[j].nonce < end.seq[cs[j].key]
<1> DEFINE N == Len(cs)
           f == CHOOSE g : g = [i \in 0..N |-> IF i = 0 THEN start ELSE AppliedCall(g[i - 1], cs[i])]
<1>1. N \in Nat /\ DOMAIN cs = 1..N  BY DEF IsCallList
<1>2. Applied(start, cs) = f[N]  BY DEF Applied
<1>3. f = [i \in 0..N |-> IF i = 0 THEN start ELSE AppliedCall(f[i - 1], cs[i])]
  <2>1. \E g : g = [i \in 0..N |-> IF i = 0 THEN start ELSE AppliedCall(g[i - 1], cs[i])]
    <3>1. PICK g : States(start, cs, N, g)  BY <1>1, StatesExist
    <3> QED  BY <3>1 DEF States
  <2> HIDE DEF N
  <2> QED  BY <2>1
<1> HIDE DEF N, f
<1> DEFINE P(n) ==
      /\ ChainState(f[n]) /\ \A k \in Keys : f[n].seq[k] >= start.seq[k]
      /\ f[n].ok => \A j \in 1..n : cs[j].key \in Keys => cs[j].nonce \in Nat /\ cs[j].nonce < f[n].seq[cs[j].key]
           T == {n \in 0..N : ~P(n)}
<1>4. T = {}
  <2> SUFFICES ASSUME T # {} PROVE FALSE  OBVIOUS
  <2>1. PICK m \in T : \A y \in T : m <= y
    <3>1. T \subseteq Nat  BY <1>1
    <3> HIDE DEF T
    <3> QED  BY <3>1, LeastNumber
  <2>2. m \in 0..N /\ ~P(m)  OBVIOUS
  <2>3. CASE m = 0
    <3>1. f[0] = start  BY <1>1, <1>3
    <3>2. \A k \in Keys : start.seq[k] >= start.seq[k]  BY DEF ChainState
    <3>3. \A j \in 1..0 : FALSE  OBVIOUS
    <3> QED  BY <2>2, <2>3, <3>1, <3>2, <3>3
  <2>4. CASE m # 0
    <3>1. m - 1 \in 0..N /\ ~(m <= m - 1)  BY <1>1, <2>2, <2>4
    <3>2. P(m - 1)
      <4>1. m - 1 \notin T  BY <2>1, <3>1
      <4> QED  BY <3>1, <4>1
    <3> HIDE DEF T
    <3> PICK s, p, t : s = f[m - 1] /\ p = cs[m] /\ t = AppliedCall(s, p)  OBVIOUS
    <3>3. f[m] = t  BY <1>1, <1>3, <2>2, <2>4
    <3>4. /\ ChainState(s) /\ \A k \in Keys : s.seq[k] >= start.seq[k]
          /\ s.ok => \A j \in 1..(m - 1) : cs[j].key \in Keys => cs[j].nonce \in Nat /\ cs[j].nonce < s.seq[cs[j].key]
      BY <3>2
    <3>5. /\ ChainState(t) /\ \A k \in Keys : t.seq[k] >= s.seq[k]
          /\ t.ok => s.ok /\ (p.key \in Keys => p.nonce \in Nat /\ p.nonce < t.seq[p.key])
      BY <3>4, AppliedCallStep
    <3>6. \A k \in Keys : start.seq[k] \in Nat /\ s.seq[k] \in Nat /\ t.seq[k] \in Nat
      BY <3>4, <3>5 DEF ChainState
    <3> HIDE DEF P
    <3>7. \A k \in Keys : t.seq[k] >= start.seq[k]  BY <3>4, <3>5, <3>6
    <3>8. ASSUME t.ok, NEW j \in 1..m, cs[j].key \in Keys PROVE cs[j].nonce \in Nat /\ cs[j].nonce < t.seq[cs[j].key]
      <4>1. CASE j = m  BY <3>5, <3>8, <4>1
      <4>2. CASE j # m
        <5>1. j \in 1..(m - 1)  BY <2>2, <4>2
        <5>2. cs[j].nonce \in Nat /\ cs[j].nonce < s.seq[cs[j].key]  BY <3>4, <3>5, <3>8, <5>1
        <5> QED  BY <3>5, <3>6, <3>8, <5>2
      <4> QED  BY <4>1, <4>2
    <3> QED  BY <2>2, <3>3, <3>5, <3>7, <3>8 DEF P
  <2> QED  BY <2>3, <2>4
<1>5. P(N)  BY <1>1, <1>4
<1> QED  BY <1>1, <1>2, <1>5

\* A function on the first numbers is a list of calls.
LEMMA FirstNumbers ==
  ASSUME NEW n \in Nat, NEW f, f = [i \in 1..n |-> f[i]]
  PROVE  f \in Seq({f[i] : i \in 1..n}) /\ IsCallList(f)
<1> DEFINE V == {f[i] : i \in 1..n}
<1>1. f \in [1..n -> V]  OBVIOUS
<1>2. f \in Seq(V)  BY <1>1, SeqDef
<1> HIDE DEF V
<1>3. IsCallList(f)  BY <1>2, LenProperties DEF IsCallList
<1> QED  BY <1>2, <1>3 DEF V

LEMMA InOrderList ==
  ASSUME NEW S, IsFiniteSet(S)
  PROVE  IsCallList(InOrder(S)) /\ \E V : InOrder(S) \in Seq(V)
<1> PICK f, n : f = InOrder(S) /\ n = Cardinality(S)  OBVIOUS
<1>1. n \in Nat  BY FS_CardinalityType
<1> DEFINE E(i) == CHOOSE p \in S : Cardinality({q \in S : q.nonce < p.nonce}) = i - 1
<1>2. f = [i \in 1..n |-> f[i]]
  <2>1. f = [i \in 1..n |-> E(i)]  BY DEF InOrder
  <2> HIDE DEF E
  <2> QED  BY <2>1
<1> QED  BY <1>1, <1>2, FirstNumbers

LEMMA KeyByKeyList ==
  ASSUME NEW turns, IsFiniteSet(precalls)
  PROVE  IsCallList(KeyByKey(turns))
<1> DEFINE all == UNION {Executable(turns[i]) : i \in DOMAIN turns}
<1> PICK f, n : f = KeyByKey(turns) /\ n = Cardinality(all)  OBVIOUS
<1>1. n \in Nat
  <2>1. all \subseteq precalls  BY DEF Executable, Rows
  <2>2. IsFiniteSet(all)  BY <2>1, FS_Subset
  <2> QED  BY <2>2, FS_CardinalityType
<1> DEFINE Before(q, p) ==
             \E i, j \in DOMAIN turns :
               turns[i] = q.key /\ turns[j] = p.key /\ (i < j \/ (i = j /\ q.nonce < p.nonce))
           E(i) == CHOOSE p \in all : Cardinality({q \in all : Before(q, p)}) = i - 1
<1>2. f = [i \in 1..n |-> f[i]]
  <2>1. f = [i \in 1..n |-> E(i)]  BY DEF KeyByKey
  <2> HIDE DEF E
  <2> QED  BY <2>1
<1> QED  BY <1>1, <1>2, FirstNumbers

LEMMA ConcatList ==
  ASSUME NEW f, NEW g, NEW V, NEW W, f \in Seq(V), g \in Seq(W)
  PROVE  IsCallList(f \o g)
<1>1. f \in Seq(V \cup W) /\ g \in Seq(V \cup W)  BY SeqMonotonic
<1>2. f \o g \in Seq(V \cup W)  BY <1>1, ConcatProperties
<1> QED  BY <1>2, LenProperties DEF IsCallList

\* Nonces of the chain that were used leave fewer to be stored.
LEMMA NonceUse ==
  ASSUME AccountIInv, UNCHANGED <<precalls, offers>>, seqNonce' \in [Keys -> Nat],
         \A k \in Keys : seqNonce'[k] >= seqNonce[k]
  PROVE  NoGaps'
<1>1. /\ seqNonce \in [Keys -> Nat]
      /\ \A p \in offers \cup precalls : p.key \in Keys /\ p.nonce \in 0..MaxNonce
      /\ \A p \in offers \cup precalls : \A n \in seqNonce[p.key]..(p.nonce - 1) : Accounted(p, n)
  BY DEF AccountIInv, AccountTypeOK, NoGaps
<1>2. \A k : Rows(k)' = Rows(k)  BY DEF Rows
<1>3. ASSUME NEW p \in offers \cup precalls, NEW n \in seqNonce'[p.key]..(p.nonce - 1)
      PROVE  n \in seqNonce[p.key]..(p.nonce - 1)
  <2>1. p.key \in Keys /\ seqNonce[p.key] \in Nat /\ seqNonce'[p.key] \in Nat /\ seqNonce'[p.key] >= seqNonce[p.key]
    BY <1>1
  <2>2. p.nonce \in Nat  BY <1>1, AccountAssumption
  <2> QED  BY <2>1, <2>2
<1>4. ASSUME NEW p \in offers \cup precalls, NEW n \in seqNonce'[p.key]..(p.nonce - 1)
      PROVE  Accounted(p, n)'
  <2>1. PICK q \in Rows(p.key) : q.nonce = n \/ (q.chosen /\ q.nonce \in (n + 1)..p.nonce)
    BY <1>1, <1>3 DEF Accounted
  <2> QED  BY <1>2, <2>1 DEF Accounted
<1> QED  BY <1>4 DEF NoGaps

\* Rows whose nonces are used may be removed.
LEMMA RowsGo ==
  ASSUME AccountIInv, NEW gone, gone \subseteq precalls, \A p \in gone : p.nonce < seqNonce[p.key],
         precalls' = precalls \ gone, lost' = lost \cup Unused(gone), UNCHANGED <<seqNonce, offers>>
  PROVE  /\ NoGaps' /\ lost' = {} /\ IsFiniteSet(precalls')
         /\ \A p \in offers' \cup precalls' : p.key \in Keys /\ p.nonce \in 0..MaxNonce
<1>1. /\ seqNonce \in [Keys -> Nat] /\ IsFiniteSet(precalls) /\ lost = {}
      /\ \A p \in offers \cup precalls : p.key \in Keys /\ p.nonce \in 0..MaxNonce
      /\ \A p \in offers \cup precalls : \A n \in seqNonce[p.key]..(p.nonce - 1) : Accounted(p, n)
  BY DEF AccountIInv, AccountTypeOK, NoGaps
<1>2. \A p \in precalls : p.key \in Keys /\ seqNonce[p.key] \in Nat /\ p.nonce \in Nat
  BY <1>1, AccountAssumption
<1>3. Unused(gone) = {}
  <2>1. \A p \in gone : ~(p.nonce >= seqNonce[p.key])  BY <1>2
  <2> QED  BY <2>1 DEF Unused
<1>4. IsFiniteSet(precalls')  BY <1>1, FS_Subset
<1>5. ASSUME NEW p \in offers' \cup precalls', NEW n \in seqNonce'[p.key]..(p.nonce - 1)
      PROVE  Accounted(p, n)'
  <2>1. p \in offers \cup precalls /\ n \in seqNonce[p.key]..(p.nonce - 1)  OBVIOUS
  <2>2. PICK q \in Rows(p.key) : q.nonce = n \/ (q.chosen /\ q.nonce \in (n + 1)..p.nonce)
    BY <1>1, <2>1 DEF Accounted
  <2>3. q \in precalls /\ q.key = p.key  BY DEF Rows
  <2>4. seqNonce[q.key] \in Nat /\ p.nonce \in Nat  BY <1>1, <1>2, <2>1, <2>3, AccountAssumption
  <2>5. ~(q.nonce < seqNonce[q.key])  BY <2>1, <2>2, <2>3, <2>4
  <2>6. q \in precalls'  BY <2>3, <2>5
  <2> QED  BY <2>2, <2>3, <2>6 DEF Rows, Accounted
<1>6. NoGaps'  BY <1>5 DEF NoGaps
<1> QED  BY <1>1, <1>3, <1>4, <1>6

\* What was confirmed stays used.
LEMMA ConfirmedStay ==
  ASSUME AccountIInv, seqNonce' \in [Keys -> Nat], \A k \in Keys : seqNonce'[k] >= seqNonce[k],
         NEW e \in Executions, execution'[e] = execution[e], execution'[e].phase = "confirmed",
         NEW i \in DOMAIN execution'[e].calls, execution'[e].calls[i].key \in Keys
  PROVE  execution'[e].calls[i].nonce \in 0..(seqNonce'[execution'[e].calls[i].key] - 1)
<1> PICK p : p = execution[e].calls[i]  OBVIOUS
<1>1. p.nonce \in 0..(seqNonce[p.key] - 1)  BY DEF AccountIInv, ConfirmedUsed
<1>2. seqNonce[p.key] \in Nat /\ seqNonce'[p.key] \in Nat /\ seqNonce'[p.key] >= seqNonce[p.key]
  BY DEF AccountIInv, AccountTypeOK
<1> QED  BY <1>1, <1>2

LEMMA AccountInitInv == ASSUME AccountInit PROVE AccountIInv
<1>1. seqNonce \in [Keys -> Nat] /\ IsFiniteSet(precalls)  BY FS_EmptySet DEF AccountInit
<1>2. DOMAIN intent = Intents /\ DOMAIN execution = Executions  BY DEF AccountInit
<1>3. /\ \A i \in Intents : intent[i].phase = "new"
      /\ \A e \in Executions : execution[e].phase = "new"
  BY DEF AccountInit, Idle
<1>4. offers = {} /\ precalls = {} /\ lost = {}  BY DEF AccountInit
<1> QED  BY <1>1, <1>2, <1>3, <1>4 DEF AccountIInv, AccountTypeOK, NoGaps, ConfirmedUsed

\* The chain's account at the start of a transaction.
LEMMA StartState ==
  ASSUME AccountTypeOK, NEW auth
  PROVE  ChainState(StartOf(auth)) /\ StartOf(auth).seq = seqNonce
<1> PICK b, ks : /\ b = (code # "none" \/ Delegates(auth))
                 /\ ks = keysOn \cup (IF Delegates(auth) THEN UNION {a.keys : a \in auth} ELSE {})
  OBVIOUS
<1>1. StartOf(auth) = [ok |-> b, seq |-> seqNonce, keys |-> ks]  BY Zenon DEF StartOf
<1>2. b \in BOOLEAN  BY Zenon DEF Delegates
<1>3. seqNonce \in [Keys -> Nat]  BY DEF AccountTypeOK
<1> PICK s : s = StartOf(auth)  OBVIOUS
<1>4. s.ok = b /\ s.seq = seqNonce /\ s.keys = ks  BY <1>1
<1> QED  BY <1>1, <1>2, <1>3, <1>4 DEF ChainState

\* The sequences after a transaction landed.
LEMMA LandedNonces ==
  ASSUME AccountTypeOK, NEW auth, NEW end, ChainState(end), \A k \in Keys : end.seq[k] >= seqNonce[k],
         seqNonce' = IF end.ok THEN end.seq ELSE seqNonce
  PROVE  seqNonce' \in [Keys -> Nat] /\ \A k \in Keys : seqNonce'[k] >= seqNonce[k]
<1>1. end.seq \in [Keys -> Nat] /\ seqNonce \in [Keys -> Nat]  BY DEF ChainState, AccountTypeOK
<1>2. \A k \in Keys : seqNonce[k] >= seqNonce[k]  BY <1>1
<1> QED  BY <1>1, <1>2

\* What the relay gives out leaves no gap of its own.
LEMMA NonceFits ==
  ASSUME AccountIInv, NEW k \in Keys, NEW named, NEW o, o.key = k, o.nonce = GetNonce(k, NoNonce, named),
         o.nonce < MaxNonce
  PROVE  o.nonce \in 0..MaxNonce /\ \A n \in seqNonce[k]..(o.nonce - 1) : Accounted(o, n)
<1>1. /\ seqNonce \in [Keys -> Nat] /\ IsFiniteSet(precalls)
      /\ \A p \in offers \cup precalls : p.key \in Keys /\ p.nonce \in 0..MaxNonce
      /\ \A p \in offers \cup precalls : \A n \in seqNonce[p.key]..(p.nonce - 1) : Accounted(p, n)
  BY DEF AccountIInv, AccountTypeOK, NoGaps
<1>2. seqNonce[k] \in Nat  BY <1>1
<1>3. CASE ~named
  <2>1. o.nonce = 0  BY <1>3 DEF GetNonce
  <2> QED  BY <1>2, <2>1, AccountAssumption
<1>4. CASE named /\ Rows(k) = {}
  <2>1. o.nonce = seqNonce[k]  BY <1>4 DEF GetNonce
  <2> QED  BY <1>2, <2>1, AccountAssumption
<1>5. CASE named /\ Rows(k) # {}
  <2> DEFINE T == {p.nonce : p \in Rows(k)}
  <2>1. T \subseteq 0..MaxNonce /\ T # {}  BY <1>1, <1>5 DEF Rows
  <2>2. Max(T) \in T /\ \A y \in T : y <= Max(T)
    <3> HIDE DEF T
    <3> QED  BY <2>1, MaxOfBounded, AccountAssumption
  <2> PICK m : m = Max(T)  OBVIOUS
  <2>3. PICK r \in Rows(k) : r.nonce = m  BY <2>2
  <2>4. o.nonce = m + 1  BY <1>5 DEF GetNonce
  <2>5. m \in Nat /\ m + 1 < MaxNonce  BY <2>1, <2>2, <2>4, AccountAssumption
  <2>6. r.key = k /\ r \in precalls  BY DEF Rows
  <2>7. ASSUME NEW n \in seqNonce[k]..(o.nonce - 1) PROVE Accounted(o, n)
    <3>0. n \in Nat /\ n <= m  BY <1>2, <2>4, <2>5
    <3>1. CASE n = m  BY <2>3, <3>1 DEF Accounted
    <3>2. CASE n # m
      <4>1. Accounted(r, n)  BY <1>1, <1>2, <2>3, <2>5, <2>6, <3>0, <3>2
      <4>2. PICK q \in Rows(k) : q.nonce = n \/ (q.chosen /\ q.nonce \in (n + 1)..m)
        BY <2>3, <2>6, <4>1 DEF Accounted
      <4>3. \A x \in (n + 1)..m : x \in (n + 1)..o.nonce  BY <2>4, <2>5, <3>0
      <4> QED  BY <4>2, <4>3 DEF Accounted
    <3> QED  BY <3>1, <3>2
  <2>8. o.nonce \in 0..MaxNonce  BY <2>4, <2>5, AccountAssumption
  <2> QED  BY <2>7, <2>8
<1> QED  BY <1>3, <1>4, <1>5

LEMMA PreparePreCallInv ==
  ASSUME AccountIInv, NEW k \in Keys, NEW given, NEW named, PreparePreCall(k, given, named)
  PROVE  AccountIInv'
<1>1. /\ seqNonce \in [Keys -> Nat] /\ IsFiniteSet(precalls)
      /\ \A p \in offers \cup precalls : p.key \in Keys /\ p.nonce \in 0..MaxNonce
      /\ \A p \in offers \cup precalls : \A n \in seqNonce[p.key]..(p.nonce - 1) : Accounted(p, n)
  BY DEF AccountIInv, AccountTypeOK, NoGaps
<1> PICK o : o = [key |-> k, nonce |-> GetNonce(k, given, named)]  OBVIOUS
<1>2. /\ GetNonce(k, given, named) < MaxNonce
      /\ offers' = IF given = NoNonce THEN offers \cup {o} ELSE offers
      /\ UNCHANGED <<seqNonce, precalls, intent, execution, lost>>
  BY DEF PreparePreCall
<1>3. o.key = k /\ o.nonce = GetNonce(k, given, named)  OBVIOUS
<1>4. given = NoNonce => o.nonce \in 0..MaxNonce /\ \A n \in seqNonce[k]..(o.nonce - 1) : Accounted(o, n)
  BY <1>2, <1>3, NonceFits
<1>5. \A p \in offers' \cup precalls' : (p = o /\ given = NoNonce) \/ p \in offers \cup precalls  BY <1>2
<1>6. \A p, n : Accounted(p, n) => Accounted(p, n)'
  <2>1. \A j : Rows(j)' = Rows(j)  BY <1>2 DEF Rows
  <2> QED  BY <2>1 DEF Accounted
<1>7. \A p \in offers' \cup precalls' : p.key \in Keys /\ p.nonce \in 0..MaxNonce  BY <1>1, <1>3, <1>4, <1>5
<1>8. NoGaps'
  <2>1. ASSUME NEW p \in offers' \cup precalls', NEW n \in seqNonce'[p.key]..(p.nonce - 1)
        PROVE  Accounted(p, n)'
    <3>1. seqNonce' = seqNonce  BY <1>2
    <3>2. CASE p = o /\ given = NoNonce
      <4>1. Accounted(p, n)  BY <1>3, <1>4, <3>1, <3>2
      <4> QED  BY <1>6, <4>1
    <3>3. CASE p \in offers \cup precalls
      <4>1. Accounted(p, n)  BY <1>1, <3>1, <3>3
      <4> QED  BY <1>6, <4>1
    <3> QED  BY <1>5, <3>2, <3>3
  <2> QED  BY <2>1 DEF NoGaps
<1>9. AccountTypeOK'  BY <1>1, <1>2, <1>7 DEF AccountIInv, AccountTypeOK
<1>10. ConfirmedUsed' /\ lost' = {}  BY <1>2 DEF AccountIInv, ConfirmedUsed
<1> QED  BY <1>8, <1>9, <1>10 DEF AccountIInv

LEMMA SendPreCallInv ==
  ASSUME AccountIInv, NEW p \in PreCalls, NEW by, SendPreCall(p, by)
  PROVE  AccountIInv'
<1>1. /\ seqNonce \in [Keys -> Nat] /\ IsFiniteSet(precalls)
      /\ \A q \in offers \cup precalls : q.key \in Keys /\ q.nonce \in 0..MaxNonce
      /\ \A q \in offers \cup precalls : \A n \in seqNonce[q.key]..(q.nonce - 1) : Accounted(q, n)
  BY DEF AccountIInv, AccountTypeOK, NoGaps
<1> PICK c : c = ~GivenOut(p)  OBVIOUS
<1> PICK o : o = [key |-> p.key, nonce |-> p.nonce, op |-> p.op, by |-> by, chosen |-> c]  OBVIOUS
<1>2. precalls' = precalls \cup {o} /\ UNCHANGED <<seqNonce, offers, intent, execution, lost>>
  BY Zenon DEF SendPreCall
<1>3. o.key = p.key /\ o.nonce = p.nonce /\ o.chosen = c  OBVIOUS
<1>4. p.key \in Keys /\ p.nonce \in 0..MaxNonce
  <2>1. p \in [key : Keys, nonce : 0..(MaxNonce - 1), op : Operations]  BY DEF PreCalls
  <2>2. p.key \in Keys /\ p.nonce \in 0..(MaxNonce - 1)  BY <2>1
  <2> QED  BY <2>2, AccountAssumption
<1>5. \A q, n : Accounted(q, n) => Accounted(q, n)'
  <2>1. \A j : Rows(j) \subseteq Rows(j)'  BY <1>2 DEF Rows
  <2> QED  BY <2>1 DEF Accounted
<1>6. \A q \in offers' \cup precalls' : q.key \in Keys /\ q.nonce \in 0..MaxNonce  BY <1>1, <1>2, <1>3, <1>4
<1>7. NoGaps'
  <2>1. ASSUME NEW q \in offers' \cup precalls', NEW n \in seqNonce'[q.key]..(q.nonce - 1)
        PROVE  Accounted(q, n)'
    <3>1. n \in seqNonce[q.key]..(q.nonce - 1)  BY <1>2
    <3>2. CASE q \in offers \cup precalls
      <4>1. Accounted(q, n)  BY <1>1, <3>1, <3>2
      <4> QED  BY <1>5, <4>1
    <3>3. CASE q = o /\ ~c
      <4> PICK f : f = [key |-> p.key, nonce |-> p.nonce]  OBVIOUS
      <4>1. f \in offers /\ f.key = q.key /\ f.nonce = q.nonce  BY <1>3, <3>3 DEF GivenOut
      <4>2. Accounted(f, n)  BY <1>1, <3>1, <4>1
      <4>3. Accounted(q, n)  BY <4>1, <4>2 DEF Accounted
      <4> QED  BY <1>5, <4>3
    <3>4. CASE q = o /\ c
      <4>1. o \in Rows(o.key)'  BY <1>2 DEF Rows
      <4>2. seqNonce[q.key] \in Nat /\ q.nonce \in Nat  BY <1>1, <1>3, <1>4, <3>4, AccountAssumption
      <4>3. o.nonce \in (n + 1)..q.nonce  BY <3>1, <3>4, <4>2
      <4> QED  BY <1>3, <3>4, <4>1, <4>3 DEF Accounted
    <3> QED  BY <1>2, <3>2, <3>3, <3>4
  <2> QED  BY <2>1 DEF NoGaps
<1>8. IsFiniteSet(precalls')  BY <1>1, <1>2, FS_AddElement
<1>9. AccountTypeOK'  BY <1>1, <1>2, <1>6, <1>8 DEF AccountIInv, AccountTypeOK
<1>10. ConfirmedUsed' /\ lost' = {}  BY <1>2 DEF AccountIInv, ConfirmedUsed
<1> QED  BY <1>7, <1>9, <1>10 DEF AccountIInv

\* An intent that changed has the calls of a list, if it has calls.
LEMMA IntentCalls ==
  ASSUME AccountIInv, NEW i \in Intents, NEW q, intent' = [intent EXCEPT ![i] = q],
         q.phase \in {"quoted", "sent"} => IsCallList(q.calls)
  PROVE  DOMAIN intent' = Intents /\ \A j \in Intents : intent'[j].phase \in {"quoted", "sent"} => IsCallList(intent'[j].calls)
<1>1. DOMAIN intent = Intents /\ \A j \in Intents : intent[j].phase \in {"quoted", "sent"} => IsCallList(intent[j].calls)
  BY DEF AccountIInv, AccountTypeOK
<1>2. \A j \in Intents : intent'[j] = IF j = i THEN q ELSE intent[j]  BY <1>1
<1>3. ASSUME NEW j \in Intents, intent'[j].phase \in {"quoted", "sent"} PROVE IsCallList(intent'[j].calls)
  <2>1. CASE j = i  BY <1>2, <1>3, <2>1
  <2>2. CASE j # i  BY <1>1, <1>2, <1>3, <2>2
  <2> QED  BY <2>1, <2>2
<1> QED  BY <1>1, <1>3

\* The same of an execution.
LEMMA ExecutionCalls ==
  ASSUME AccountIInv, NEW e \in Executions, NEW x, execution' = [execution EXCEPT ![e] = x],
         x.phase \in {"sent", "confirmed"} => IsCallList(x.calls)
  PROVE  /\ DOMAIN execution' = Executions /\ execution'[e] = x
         /\ \A d \in Executions : d # e => execution'[d] = execution[d]
         /\ \A d \in Executions : execution'[d].phase \in {"sent", "confirmed"} => IsCallList(execution'[d].calls)
<1>1. /\ DOMAIN execution = Executions
      /\ \A d \in Executions : execution[d].phase \in {"sent", "confirmed"} => IsCallList(execution[d].calls)
  BY DEF AccountIInv, AccountTypeOK
<1>2. \A d \in Executions : execution'[d] = IF d = e THEN x ELSE execution[d]  BY <1>1
<1>3. ASSUME NEW d \in Executions, execution'[d].phase \in {"sent", "confirmed"} PROVE IsCallList(execution'[d].calls)
  <2>1. CASE d = e  BY <1>2, <1>3, <2>1
  <2>2. CASE d # e  BY <1>1, <1>2, <1>3, <2>2
  <2> QED  BY <2>1, <2>2
<1> QED  BY <1>1, <1>2, <1>3

\* Executions that did not change keep what was confirmed.
LEMMA ConfirmedUnchanged ==
  ASSUME AccountIInv, seqNonce' \in [Keys -> Nat], \A k \in Keys : seqNonce'[k] >= seqNonce[k], UNCHANGED execution
  PROVE  ConfirmedUsed'
<1>1. ASSUME NEW e \in Executions, execution'[e].phase = "confirmed",
             NEW i \in DOMAIN execution'[e].calls, execution'[e].calls[i].key \in Keys
      PROVE  execution'[e].calls[i].nonce \in 0..(seqNonce'[execution'[e].calls[i].key] - 1)
  BY <1>1, ConfirmedStay
<1> QED  BY <1>1 DEF ConfirmedUsed

LEMMA BuildIntentInv ==
  ASSUME AccountIInv, NEW i \in Intents, NEW k \in Keys \cup {"root"}, NEW inline \in Inline, BuildIntent(i, k, inline)
  PROVE  AccountIInv'
<1> DEFINE mine == IF k = "root" THEN {} ELSE Executable(k)
           old == IF k = "root" THEN {} ELSE Stale(k)
           cs == InOrder(inline) \o InOrder(mine)
<1>1. PICK q :
        /\ intent' = [intent EXCEPT ![i] = q]
        /\ q = IF DelegationStatus # "unknown" /\ ~TryFindKey(k, cs) THEN Idle
               ELSE [phase |-> "quoted", key |-> k, calls |-> cs, unknown |-> DelegationStatus = "unknown",
                     auth |-> IF DelegationStatus = "stored" THEN stored ELSE {},
                     migrate |-> code = "legacy"]
  BY Zenon DEF BuildIntent
<1>2. /\ precalls' = precalls \ old /\ lost' = lost \cup Unused(old)
      /\ UNCHANGED <<code, txCount, keysOn, seqNonce, stored, upgrade, offers, execution>>
  BY Zenon DEF BuildIntent
<1>3. old \subseteq precalls /\ \A p \in old : p.nonce < seqNonce[p.key]  BY DEF Stale, Rows
<1>4. /\ NoGaps' /\ lost' = {} /\ IsFiniteSet(precalls')
      /\ \A p \in offers' \cup precalls' : p.key \in Keys /\ p.nonce \in 0..MaxNonce
  <2>1. UNCHANGED <<seqNonce, offers>>  BY <1>2
  <2> HIDE DEF old
  <2> QED  BY <1>2, <1>3, <2>1, RowsGo
<1>5. IsCallList(cs)
  <2>1. IsFiniteSet(inline)
    <3>1. inline = {} \/ \E x : inline = {x}  BY DEF Inline
    <3>2. \A x : IsFiniteSet({x})  BY FS_Singleton
    <3>3. IsFiniteSet({})  BY FS_EmptySet
    <3> QED  BY <3>1, <3>2, <3>3, Zenon
  <2>2. IsFiniteSet(mine)
    <3>1. mine \subseteq precalls /\ IsFiniteSet(precalls)  BY DEF Executable, Rows, AccountIInv, AccountTypeOK
    <3> QED  BY <3>1, FS_Subset
  <2> HIDE DEF mine
  <2>3. PICK V : InOrder(inline) \in Seq(V)  BY <2>1, InOrderList
  <2>4. PICK W : InOrder(mine) \in Seq(W)  BY <2>2, InOrderList
  <2> QED  BY <2>3, <2>4, ConcatList
<1> HIDE DEF cs, old
<1>6. q.phase \in {"quoted", "sent"} => IsCallList(q.calls)
  <2>1. q = Idle \/ (q.phase = "quoted" /\ q.calls = cs)  BY <1>1
  <2>2. CASE q = Idle  BY <2>2 DEF Idle
  <2>3. CASE q.phase = "quoted" /\ q.calls = cs  BY <1>5, <2>3
  <2> QED  BY <2>1, <2>2, <2>3
<1>7. DOMAIN intent' = Intents /\ \A j \in Intents : intent'[j].phase \in {"quoted", "sent"} => IsCallList(intent'[j].calls)
  BY <1>1, <1>6, IntentCalls
<1>8. AccountTypeOK'  BY <1>2, <1>4, <1>7 DEF AccountIInv, AccountTypeOK
<1>9. ConfirmedUsed'  BY <1>2 DEF AccountIInv, ConfirmedUsed
<1> QED  BY <1>4, <1>8, <1>9 DEF AccountIInv

LEMMA PrepareTxInv ==
  ASSUME AccountIInv, NEW i \in Intents, PrepareTx(i)
  PROVE  AccountIInv'
<1> PICK q : q = intent[i]  OBVIOUS
<1> PICK a : a = IF q.auth = {} THEN {} ELSE stored  OBVIOUS
<1> PICK good : good = [q EXCEPT !.phase = "sent", !.auth = a]  OBVIOUS
<1>0. intent' = [intent EXCEPT ![i] = good] \/ intent' = [intent EXCEPT ![i] = Idle]
  BY DEF PrepareTx
<1>1. PICK r : /\ intent' = [intent EXCEPT ![i] = r]
               /\ r = Idle \/ r = [q EXCEPT !.phase = "sent", !.auth = a]
  BY <1>0
<1>2. q.phase = "quoted" /\ UNCHANGED <<seqNonce, precalls, offers, execution, lost>>  BY DEF PrepareTx
<1>3. IsCallList(q.calls)  BY <1>2 DEF AccountIInv, AccountTypeOK
<1>4. r.phase \in {"quoted", "sent"} => IsCallList(r.calls)
  <2>1. CASE r = Idle  BY <2>1 DEF Idle
  <2>2. CASE r = [q EXCEPT !.phase = "sent", !.auth = a]
    <3>1. r.calls = q.calls  BY <2>2
    <3> QED  BY <1>3, <3>1
  <2> QED  BY <1>1, <2>1, <2>2
<1>5. DOMAIN intent' = Intents /\ \A j \in Intents : intent'[j].phase \in {"quoted", "sent"} => IsCallList(intent'[j].calls)
  BY <1>1, <1>4, IntentCalls
<1>6. AccountTypeOK'  BY <1>2, <1>5 DEF AccountIInv, AccountTypeOK
<1>7. NoGaps'  BY <1>2 DEF AccountIInv, NoGaps, Accounted, Rows
<1>8. ConfirmedUsed' /\ lost' = {}  BY <1>2 DEF AccountIInv, ConfirmedUsed
<1> QED  BY <1>6, <1>7, <1>8 DEF AccountIInv

LEMMA ExecuteIntentInv ==
  ASSUME AccountIInv, NEW i \in Intents, ExecuteIntent(i)
  PROVE  AccountIInv'
<1> PICK q : q = intent[i]  OBVIOUS
<1> PICK start, end : start = StartOf(q.auth) /\ end = Applied(start, q.calls)  OBVIOUS
<1> PICK good : good = [end EXCEPT !.ok = @ /\ (q.key = "root" \/ q.key \in end.keys)]  OBVIOUS
<1>1. /\ q.phase = "sent" /\ intent' = [intent EXCEPT ![i] = [phase |-> "done"]]
      /\ UNCHANGED <<stored, upgrade, precalls, offers, execution, lost>>
  BY Zenon DEF ExecuteIntent
<1>2. seqNonce' = IF good.ok THEN good.seq ELSE seqNonce
  <2>1. \/ good.ok /\ seqNonce' = good.seq
        \/ Landed(q.auth, good)
    BY Zenon DEF ExecuteIntent
  <2> QED  BY <2>1 DEF Landed
<1>3. IsCallList(q.calls)  BY <1>1 DEF AccountIInv, AccountTypeOK
<1>4. ChainState(start) /\ start.seq = seqNonce  BY StartState DEF AccountIInv
<1>5. ChainState(end) /\ \A k \in Keys : end.seq[k] >= start.seq[k]  BY <1>3, <1>4, AppliedState
<1>6. ChainState(good) /\ good.seq = end.seq
  <2> PICK b, sq, ks : b = end.ok /\ sq = end.seq /\ ks = end.keys  OBVIOUS
  <2>1. end = [ok |-> b, seq |-> sq, keys |-> ks] /\ b \in BOOLEAN /\ sq \in [Keys -> Nat]  BY <1>5 DEF ChainState
  <2> PICK c : c = (b /\ (q.key = "root" \/ q.key \in ks))  OBVIOUS
  <2>2. c \in BOOLEAN  BY <2>1
  <2>3. good = [end EXCEPT !.ok = c]  BY <2>1
  <2>4. good = [ok |-> c, seq |-> sq, keys |-> ks]  BY <2>1, <2>3
  <2>5. good.ok = c /\ good.seq = sq /\ good.keys = ks  BY <2>4
  <2> QED  BY <2>1, <2>2, <2>4, <2>5 DEF ChainState
<1>7. seqNonce' \in [Keys -> Nat] /\ \A k \in Keys : seqNonce'[k] >= seqNonce[k]
  BY <1>2, <1>4, <1>5, <1>6, LandedNonces DEF AccountIInv
<1>8. DOMAIN intent' = Intents /\ \A j \in Intents : intent'[j].phase \in {"quoted", "sent"} => IsCallList(intent'[j].calls)
  <2> PICK r : r = [phase |-> "done"]  OBVIOUS
  <2>1. r.phase = "done" /\ intent' = [intent EXCEPT ![i] = r]  BY <1>1
  <2> QED  BY <2>1, IntentCalls
<1>9. AccountTypeOK'  BY <1>1, <1>7, <1>8 DEF AccountIInv, AccountTypeOK
<1>10. NoGaps'  BY <1>1, <1>7, NonceUse
<1>11. ConfirmedUsed'  BY <1>1, <1>7, ConfirmedUnchanged
<1> QED  BY <1>1, <1>9, <1>10, <1>11 DEF AccountIInv

LEMMA SelectPreCallsInv ==
  ASSUME AccountIInv, NEW e \in Executions, NEW turns, NEW sponsored, SelectPreCalls(e, turns, sponsored)
  PROVE  AccountIInv'
<1> DEFINE stale == UNION {Stale(k) : k \in Keys}
<1> PICK cs, auth : cs = KeyByKey(turns) /\ auth = IF code = "none" THEN stored ELSE {}  OBVIOUS
<1>1. PICK x : /\ execution' = [execution EXCEPT ![e] = x]
               /\ x = Idle \/ x = [phase |-> "sent", calls |-> cs, auth |-> auth]
  BY Zenon DEF SelectPreCalls
<1>2. /\ precalls' = precalls \ stale /\ lost' = lost \cup Unused(stale)
      /\ UNCHANGED <<code, txCount, keysOn, seqNonce, stored, upgrade, offers, intent>>
  BY Zenon DEF SelectPreCalls
<1>3. stale \subseteq precalls /\ \A p \in stale : p.nonce < seqNonce[p.key]  BY DEF Stale, Rows
<1>4. /\ NoGaps' /\ lost' = {} /\ IsFiniteSet(precalls')
      /\ \A p \in offers' \cup precalls' : p.key \in Keys /\ p.nonce \in 0..MaxNonce
  <2>1. UNCHANGED <<seqNonce, offers>>  BY <1>2
  <2> HIDE DEF stale
  <2> QED  BY <1>2, <1>3, <2>1, RowsGo
<1> HIDE DEF stale
<1>5. IsCallList(cs)  BY KeyByKeyList DEF AccountIInv, AccountTypeOK
<1>6. x.phase # "confirmed" /\ (x.phase \in {"sent", "confirmed"} => IsCallList(x.calls))
  <2>1. CASE x = Idle  BY <2>1 DEF Idle
  <2>2. CASE x = [phase |-> "sent", calls |-> cs, auth |-> auth]
    <3>1. x.phase = "sent" /\ x.calls = cs  BY <2>2
    <3> QED  BY <1>5, <3>1
  <2> QED  BY <1>1, <2>1, <2>2
<1>7. /\ DOMAIN execution' = Executions /\ execution'[e] = x
      /\ \A d \in Executions : d # e => execution'[d] = execution[d]
      /\ \A d \in Executions : execution'[d].phase \in {"sent", "confirmed"} => IsCallList(execution'[d].calls)
  BY <1>1, <1>6, ExecutionCalls
<1>8. AccountTypeOK'  BY <1>2, <1>4, <1>7 DEF AccountIInv, AccountTypeOK
<1>9. ConfirmedUsed'
  <2>1. \A d \in Executions : execution'[d].phase = "confirmed" => execution'[d] = execution[d]  BY <1>6, <1>7
  <2> QED  BY <1>2, <2>1 DEF AccountIInv, ConfirmedUsed
<1> QED  BY <1>4, <1>8, <1>9 DEF AccountIInv

LEMMA ExecutionLandsInv ==
  ASSUME AccountIInv, NEW e \in Executions, ExecutionLands(e)
  PROVE  AccountIInv'
<1> PICK x : x = execution[e]  OBVIOUS
<1> PICK start, end : start = StartOf(x.auth) /\ end = Applied(start, x.calls)  OBVIOUS
<1> PICK y : y = [x EXCEPT !.phase = IF end.ok THEN "confirmed" ELSE "reverted"]  OBVIOUS
<1>1. /\ x.phase = "sent" /\ Landed(x.auth, end)
      /\ execution' = [execution EXCEPT ![e] = y]
      /\ UNCHANGED <<stored, upgrade, precalls, offers, intent, lost>>
  BY Zenon DEF ExecutionLands
<1>2. seqNonce' = IF end.ok THEN end.seq ELSE seqNonce  BY <1>1 DEF Landed
<1>3. IsCallList(x.calls)  BY <1>1 DEF AccountIInv, AccountTypeOK
<1>4. ChainState(start) /\ start.seq = seqNonce  BY StartState DEF AccountIInv
<1>5. /\ ChainState(end) /\ \A k \in Keys : end.seq[k] >= start.seq[k]
      /\ end.ok => \A j \in DOMAIN x.calls :
           x.calls[j].key \in Keys => x.calls[j].nonce \in Nat /\ x.calls[j].nonce < end.seq[x.calls[j].key]
  BY <1>3, <1>4, AppliedState
<1>6. seqNonce' \in [Keys -> Nat] /\ \A k \in Keys : seqNonce'[k] >= seqNonce[k]
  BY <1>2, <1>4, <1>5, LandedNonces DEF AccountIInv
<1>7. y.calls = x.calls /\ (y.phase = "confirmed" => end.ok)  OBVIOUS
<1>8. /\ DOMAIN execution' = Executions /\ execution'[e] = y
      /\ \A d \in Executions : d # e => execution'[d] = execution[d]
      /\ \A d \in Executions : execution'[d].phase \in {"sent", "confirmed"} => IsCallList(execution'[d].calls)
  BY <1>1, <1>3, <1>7, ExecutionCalls
<1>9. AccountTypeOK'  BY <1>1, <1>6, <1>8 DEF AccountIInv, AccountTypeOK
<1>10. NoGaps'  BY <1>1, <1>6, NonceUse
<1>11. ConfirmedUsed'
  <2>1. ASSUME NEW d \in Executions, execution'[d].phase = "confirmed",
               NEW i \in DOMAIN execution'[d].calls, execution'[d].calls[i].key \in Keys
        PROVE  execution'[d].calls[i].nonce \in 0..(seqNonce'[execution'[d].calls[i].key] - 1)
    <3>1. CASE d # e  BY <1>6, <1>8, <2>1, <3>1, ConfirmedStay
    <3>2. CASE d = e
      <4>1. end.ok /\ execution'[d].calls = x.calls  BY <1>7, <1>8, <2>1, <3>2
      <4>2. seqNonce' = end.seq  BY <1>2, <4>1
      <4> PICK p : p = x.calls[i]  OBVIOUS
      <4>3. p.key \in Keys /\ p.nonce \in Nat /\ p.nonce < end.seq[p.key]  BY <1>5, <2>1, <4>1
      <4>4. end.seq[p.key] \in Nat  BY <4>3, <1>6, <4>2
      <4>5. p.nonce \in 0..(end.seq[p.key] - 1)  BY <4>3, <4>4
      <4> QED  BY <4>1, <4>2, <4>5
    <3> QED  BY <3>1, <3>2
  <2> QED  BY <2>1 DEF ConfirmedUsed
<1> QED  BY <1>1, <1>9, <1>10, <1>11 DEF AccountIInv

LEMMA ExecutionDoneInv ==
  ASSUME AccountIInv, NEW e \in Executions, ExecutionDone(e)
  PROVE  AccountIInv'
<1> PICK x : x = execution[e]  OBVIOUS
<1> DEFINE used == IF x.phase = "confirmed" THEN SameRows(x.calls) ELSE {}
<1> PICK y : y = [phase |-> "done"]  OBVIOUS
<1>1. /\ execution' = [execution EXCEPT ![e] = y]
      /\ lost' = lost \cup Unused(used) /\ precalls' = precalls \ used
      /\ UNCHANGED <<code, txCount, keysOn, seqNonce, stored, upgrade, offers, intent>>
  BY Zenon DEF ExecutionDone
<1>2. used \subseteq precalls  BY DEF SameRows
<1>3. ASSUME NEW p \in used PROVE p.nonce < seqNonce[p.key]
  <2>1. x.phase = "confirmed" /\ p \in SameRows(x.calls)  OBVIOUS
  <2>2. PICK i \in DOMAIN x.calls : x.calls[i].key = p.key /\ x.calls[i].nonce = p.nonce  BY <2>1 DEF SameRows
  <2>3. p \in precalls /\ p.key \in Keys /\ seqNonce[p.key] \in Nat  BY <1>2 DEF AccountIInv, AccountTypeOK
  <2>4. p.nonce \in 0..(seqNonce[p.key] - 1)  BY <2>1, <2>2, <2>3 DEF AccountIInv, ConfirmedUsed
  <2> QED  BY <2>3, <2>4
<1> HIDE DEF used
<1>4. /\ NoGaps' /\ lost' = {} /\ IsFiniteSet(precalls')
      /\ \A p \in offers' \cup precalls' : p.key \in Keys /\ p.nonce \in 0..MaxNonce
  <2>1. UNCHANGED <<seqNonce, offers>>  BY <1>1
  <2> QED  BY <1>1, <1>2, <1>3, <2>1, RowsGo
<1>5. /\ DOMAIN execution' = Executions /\ execution'[e] = y
      /\ \A d \in Executions : d # e => execution'[d] = execution[d]
      /\ \A d \in Executions : execution'[d].phase \in {"sent", "confirmed"} => IsCallList(execution'[d].calls)
  <2>1. y.phase = "done"  OBVIOUS
  <2> QED  BY <1>1, <2>1, ExecutionCalls
<1>6. AccountTypeOK'  BY <1>1, <1>4, <1>5 DEF AccountIInv, AccountTypeOK
<1>7. ConfirmedUsed'
  <2>1. y.phase = "done"  OBVIOUS
  <2>2. \A d \in Executions : execution'[d].phase = "confirmed" => execution'[d] = execution[d]  BY <1>5, <2>1
  <2> QED  BY <1>1, <2>2 DEF AccountIInv, ConfirmedUsed
<1> QED  BY <1>4, <1>6, <1>7 DEF AccountIInv

LEMMA AccountInductive ==
  ASSUME AccountIInv, [AccountNext]_accountVars
  PROVE  AccountIInv'
<1>1. ASSUME UNCHANGED <<seqNonce, precalls, offers, intent, execution, lost>> PROVE AccountIInv'
  <2>1. AccountTypeOK'  BY <1>1 DEF AccountIInv, AccountTypeOK
  <2>2. NoGaps' /\ ConfirmedUsed' /\ lost' = {}  BY <1>1 DEF AccountIInv, NoGaps, Accounted, Rows, ConfirmedUsed
  <2> QED  BY <2>1, <2>2 DEF AccountIInv
<1>2. ASSUME NEW ks \in SUBSET Keys, PrepareUpgradeAccount(ks) PROVE AccountIInv'
  BY <1>1, <1>2 DEF PrepareUpgradeAccount
<1>3. CASE UpgradeAccount  BY <1>1, <1>3 DEF UpgradeAccount
<1>4. CASE OwnTransaction  BY <1>1, <1>4 DEF OwnTransaction
<1>5. ASSUME NEW k \in Keys, NEW given \in {NoNonce} \cup ClientNonces, NEW named \in BOOLEAN,
             PreparePreCall(k, given, named)
      PROVE  AccountIInv'
  BY <1>5, PreparePreCallInv
<1>6. ASSUME NEW p \in PreCalls, NEW by \in Keys \cup {"root"}, SendPreCall(p, by) PROVE AccountIInv'
  BY <1>6, SendPreCallInv
<1>7. ASSUME NEW i \in Intents, NEW k \in Keys \cup {"root"}, NEW inline \in Inline, BuildIntent(i, k, inline)
      PROVE  AccountIInv'
  BY <1>7, BuildIntentInv
<1>8. ASSUME NEW i \in Intents, PrepareTx(i) PROVE AccountIInv'  BY <1>8, PrepareTxInv
<1>9. ASSUME NEW i \in Intents, ExecuteIntent(i) PROVE AccountIInv'  BY <1>9, ExecuteIntentInv
<1>10. ASSUME NEW e \in Executions, NEW turns \in SetToSeqs(Keys), NEW sponsored \in BOOLEAN,
              SelectPreCalls(e, turns, sponsored)
       PROVE  AccountIInv'
  BY <1>10, SelectPreCallsInv
<1>11. ASSUME NEW e \in Executions, ExecutionLands(e) PROVE AccountIInv'  BY <1>11, ExecutionLandsInv
<1>12. ASSUME NEW e \in Executions, ExecutionDone(e) PROVE AccountIInv'  BY <1>12, ExecutionDoneInv
<1>13. CASE UNCHANGED accountVars  BY <1>1, <1>13 DEF accountVars
<1> QED
  BY <1>2, <1>3, <1>4, <1>5, <1>6, <1>7, <1>8, <1>9, <1>10, <1>11, <1>12, <1>13 DEF AccountNext

\* No pre-call is removed before its nonce is used, and the relay leaves no nonce out: one
\* that is missing in front of a stored pre-call is missing in front of a nonce that a
\* client chose (prepare_calls, send_prepared_calls, execute_pre_calls).
THEOREM PrecallsAreKept == AccountSpec => []PrecallsKept
<1>1. AccountInit => AccountIInv  BY AccountInitInv
<1>2. AccountIInv /\ [AccountNext]_accountVars => AccountIInv'  BY AccountInductive
<1>3. AccountIInv => PrecallsKept  BY DEF AccountIInv, NoGaps, PrecallsKept
<1> QED  BY <1>1, <1>2, <1>3, PTL DEF AccountSpec

-----------------------------------------------------------------------------
(* Asset diffs *)

Directed(map) == \A e \in map : e.dir \in {"in", "out"}

\* The sides of an NFT after one side of a transfer, and those of the others.
SidesAfter(map, c, who, dir, other, id) ==
  /\ Directed(c) /\ \A j : j # id => Sides(c, j) = Sides(map, j)
  /\ Sides(c, id) = IF <<who, other>> \in Sides(map, id) THEN Sides(map, id) \ {<<who, other>>}
                    ELSE Sides(map, id) \cup {<<who, dir>>}

\* What a side of a transfer does to the sides of its NFT, and of no other.
LEMMA CollapseSides ==
  ASSUME NEW map, NEW who, NEW dir \in {"in", "out"}, NEW other \in {"in", "out"}, other # dir, NEW id, NEW to,
         Directed(map)
  PROVE  SidesAfter(map, Collapse(map, who, dir, id, to), who, dir, other, id)
<1> DEFINE Opposite(e) == e.who = who /\ e.id = id /\ e.dir # dir
           Same(e) == e.who = who /\ e.id = id /\ e.dir = dir
<1> PICK new : new = [who |-> who, dir |-> dir, id |-> id, to |-> to]  OBVIOUS
<1> PICK c : c = Collapse(map, who, dir, id, to)  OBVIOUS
<1>1. \A e \in map : Opposite(e) <=> e.who = who /\ e.id = id /\ e.dir = other  BY DEF Directed
<1>2. new.who = who /\ new.dir = dir /\ new.id = id  OBVIOUS
<1>3. <<who, other>> \in Sides(map, id) <=> \E e \in map : Opposite(e)
  <2>1. ASSUME <<who, other>> \in Sides(map, id) PROVE \E e \in map : Opposite(e)
    <3>1. PICK e \in map : e.id = id /\ <<e.who, e.dir>> = <<who, other>>  BY <2>1 DEF Sides
    <3>2. e.who = who /\ e.dir = other  BY <3>1
    <3> QED  BY <1>1, <3>1, <3>2
  <2>2. ASSUME NEW e \in map, Opposite(e) PROVE <<who, other>> \in Sides(map, id)
    <3>1. e.who = who /\ e.id = id /\ e.dir = other  BY <1>1, <2>2
    <3> QED  BY <3>1 DEF Sides
  <2> QED  BY <2>1, <2>2
<1>4. CASE \E e \in map : Opposite(e)
  <2>1. c = {e \in map : ~Opposite(e)}  BY <1>4 DEF Collapse
  <2>2. ASSUME NEW j, j # id PROVE Sides(c, j) = Sides(map, j)
    <3>1. \A e \in map : e.id = j => ~Opposite(e)  BY <2>2
    <3>2. {e \in c : e.id = j} = {e \in map : e.id = j}  BY <2>1, <3>1
    <3> QED  BY <3>2 DEF Sides
  <2>3. Sides(c, id) = Sides(map, id) \ {<<who, other>>}
    <3>1. ASSUME NEW s \in Sides(c, id) PROVE s \in Sides(map, id) \ {<<who, other>>}
      <4>1. PICK e \in c : e.id = id /\ s = <<e.who, e.dir>>  BY <3>1 DEF Sides
      <4>2. e \in map /\ ~Opposite(e)  BY <2>1
      <4>3. s # <<who, other>>  BY <1>1, <4>1, <4>2
      <4> QED  BY <4>1, <4>2, <4>3 DEF Sides
    <3>2. ASSUME NEW s \in Sides(map, id), s # <<who, other>> PROVE s \in Sides(c, id)
      <4>1. PICK e \in map : e.id = id /\ s = <<e.who, e.dir>>  BY <3>2 DEF Sides
      <4>2. ~Opposite(e)  BY <1>1, <3>2, <4>1
      <4>3. e \in c  BY <2>1, <4>2
      <4> QED  BY <4>1, <4>3 DEF Sides
    <3> QED  BY <3>1, <3>2
  <2>4. Directed(c)  BY <2>1 DEF Directed
  <2> QED  BY <1>3, <1>4, <2>2, <2>3, <2>4 DEF SidesAfter
<1>5. CASE ~ \E e \in map : Opposite(e)
  <2>1. c = {e \in map : ~Same(e)} \cup {new}  BY <1>5 DEF Collapse
  <2>2. ASSUME NEW j, j # id PROVE Sides(c, j) = Sides(map, j)
    <3>1. \A e \in map : e.id = j => ~Same(e)  BY <2>2
    <3>2. {e \in c : e.id = j} = {e \in map : e.id = j}  BY <1>2, <2>1, <2>2, <3>1
    <3> QED  BY <3>2 DEF Sides
  <2>3. Sides(c, id) = Sides(map, id) \cup {<<who, dir>>}
    <3>1. ASSUME NEW s \in Sides(c, id) PROVE s \in Sides(map, id) \cup {<<who, dir>>}
      <4>1. PICK e \in c : e.id = id /\ s = <<e.who, e.dir>>  BY <3>1 DEF Sides
      <4>2. CASE e = new  BY <1>2, <4>1, <4>2
      <4>3. CASE e \in map  BY <4>1, <4>3 DEF Sides
      <4> QED  BY <2>1, <4>2, <4>3
    <3>2. ASSUME NEW s \in Sides(map, id) PROVE s \in Sides(c, id)
      <4>1. PICK e \in map : e.id = id /\ s = <<e.who, e.dir>>  BY <3>2 DEF Sides
      <4>2. CASE Same(e)
        <5>1. s = <<new.who, new.dir>> /\ new \in c /\ new.id = id  BY <1>2, <2>1, <4>1, <4>2
        <5> QED  BY <5>1 DEF Sides
      <4>3. CASE ~Same(e)
        <5>1. e \in c  BY <2>1, <4>3
        <5> QED  BY <4>1, <5>1 DEF Sides
      <4> QED  BY <4>2, <4>3
    <3>3. <<who, dir>> \in Sides(c, id)
      <4>1. <<who, dir>> = <<new.who, new.dir>> /\ new \in c /\ new.id = id  BY <1>2, <2>1
      <4> QED  BY <4>1 DEF Sides
    <3> QED  BY <3>1, <3>2, <3>3
  <2>4. Directed(c)  BY <1>2, <2>1 DEF Directed
  <2> QED  BY <1>3, <1>5, <2>2, <2>3, <2>4 DEF SidesAfter
<1> QED  BY <1>4, <1>5

\* Both sides of a transfer: the NFT went from its first owner to its last one.
LEMMA TransferSides ==
  ASSUME NEW map, NEW id, NEW to, NEW from, NEW first, Directed(map),
         Sides(map, id) = FirstToLast(first, from)
  PROVE  LET d == Collapse(Collapse(map, from, "out", id, {to}), to, "in", id, {})
         IN  /\ Directed(d)
             /\ \A j : j # id => Sides(d, j) = Sides(map, j)
             /\ Sides(d, id) = FirstToLast(first, to)
<1> PICK c : c = Collapse(map, from, "out", id, {to})  OBVIOUS
<1> PICK d : d = Collapse(c, to, "in", id, {})  OBVIOUS
<1>0. "out" \in {"in", "out"} /\ "in" \in {"in", "out"} /\ "in" # "out"  OBVIOUS
<1>1. SidesAfter(map, c, from, "out", "in", id)  BY <1>0, CollapseSides
<1>2. SidesAfter(c, d, to, "in", "out", id)
  <2>1. Directed(c)  BY <1>1 DEF SidesAfter
  <2> QED  BY <1>0, <2>1, CollapseSides
<1>3. Sides(c, id) = {<<first, "out">>}
  <2>1. CASE first = from
    <3>1. Sides(map, id) = {}  BY <2>1 DEF FirstToLast
    <3> QED  BY <1>1, <2>1, <3>1 DEF SidesAfter
  <2>2. CASE first # from
    <3>1. Sides(map, id) = {<<first, "out">>, <<from, "in">>}  BY <2>2 DEF FirstToLast
    <3>2. <<first, "out">> # <<from, "in">>  OBVIOUS
    <3>3. Sides(c, id) = Sides(map, id) \ {<<from, "in">>}  BY <1>1, <3>1 DEF SidesAfter
    <3> QED  BY <3>1, <3>2, <3>3
  <2> QED  BY <2>1, <2>2
<1>4. Sides(d, id) = FirstToLast(first, to)
  <2>1. CASE first = to
    <3>1. <<to, "out">> \in Sides(c, id)  BY <1>3, <2>1
    <3> QED  BY <1>2, <1>3, <2>1, <3>1 DEF FirstToLast, SidesAfter
  <2>2. CASE first # to
    <3>1. <<to, "out">> # <<first, "out">>  BY <2>2
    <3>2. Sides(d, id) = {<<first, "out">>} \cup {<<to, "in">>}  BY <1>2, <1>3, <3>1 DEF SidesAfter
    <3> QED  BY <2>2, <3>2 DEF FirstToLast
  <2> QED  BY <2>1, <2>2
<1> QED  BY <1>1, <1>2, <1>4 DEF SidesAfter

-----------------------------------------------------------------------------

LEMMA DiffInitInv == ASSUME DiffInit PROVE DiffIInv
<1> DEFINE zero == [credit |-> 0, debit |-> 0, to |-> {}]
<1> PICK z : z = zero  OBVIOUS
<1> PICK f : f = [k \in Parties \X Fungibles |-> z]  OBVIOUS
<1> PICK n : n = [fungible |-> f, nft |-> {}]  OBVIOUS
<1>1. EmptyBuilder = n
  <2>1. [k \in Parties \X Fungibles |-> [credit |-> 0, debit |-> 0, to |-> {}]] = f  OBVIOUS
  <2> QED  BY <2>1 DEF EmptyBuilder
<1>2. intentOf = [b \in Runs |-> n] /\ n.fungible = f /\ n.nft = {} /\ DOMAIN n = {"fungible", "nft"}
  BY <1>1 DEF DiffInit
<1>3. \A b \in Runs : intentOf[b].fungible = f /\ intentOf[b].nft = {} /\ DOMAIN intentOf[b] = {"fungible", "nft"}
  BY <1>2
<1>4. \A k \in Parties \X Fungibles : f[k].credit = 0 /\ f[k].debit = 0 /\ DOMAIN f[k] = {"credit", "debit", "to"}
  OBVIOUS
<1>5. \A b \in Runs : DOMAIN moved[b] = Parties \X Fungibles /\ \A k \in Parties \X Fungibles : moved[b][k] = 0
  BY DEF DiffInit
<1>6. DOMAIN intentOf = Runs /\ DOMAIN origin = Runs /\ DOMAIN moved = Runs /\ current = 1 /\ 1 \in Runs
  BY DEF DiffInit, Runs
<1>7. owner \in [Nfts -> Parties] /\ \A b \in Runs : origin[b] = owner  BY DEF DiffInit
<1>8. DiffTypeOK
  <2>1. DOMAIN f = Parties \X Fungibles  OBVIOUS
  <2> QED  BY <1>3, <1>4, <1>5, <1>6, <1>7, <2>1 DEF DiffTypeOK
<1>9. Booked
  <2>1. \A k \in Parties \X Fungibles : f[k].credit \in Nat /\ f[k].debit \in Nat /\ 0 = f[k].credit - f[k].debit
    BY <1>4
  <2> QED  BY <1>3, <1>5, <2>1 DEF Booked
<1>10. NftsTracked
  <2>1. \A id : Sides({}, id) = {}  BY DEF Sides
  <2>2. 2 \in Runs  BY DEF Runs
  <2> QED  BY <1>3, <1>6, <1>7, <2>1, <2>2 DEF NftsTracked, FirstToLast
<1> QED  BY <1>8, <1>9, <1>10 DEF DiffIInv

Ledger(f) ==
  /\ DOMAIN f = Parties \X Fungibles
  /\ \A k \in Parties \X Fungibles : /\ DOMAIN f[k] = {"credit", "debit", "to"}
                                     /\ f[k].credit \in Nat /\ f[k].debit \in Nat
Transferred(f, g, t, from, to, n) ==
  /\ DOMAIN g = Parties \X Fungibles
  /\ \A k \in Parties \X Fungibles :
       /\ DOMAIN g[k] = {"credit", "debit", "to"}
       /\ g[k].credit = f[k].credit + (IF k = <<to, t>> THEN n ELSE 0)
       /\ g[k].debit = f[k].debit + (IF k = <<from, t>> THEN n ELSE 0)

\* A transfer is booked on both sides, even if they are the same.
LEMMA RecordErc20Books ==
  ASSUME NEW f, Ledger(f), NEW t \in Fungibles, NEW from \in Parties, NEW to \in Parties, NEW n \in Nat
  PROVE  Transferred(f, RecordErc20(f, t, from, to, n), t, from, to, n)
<1> USE DEF Ledger
<1> PICK h : h = [f EXCEPT ![<<to, t>>].credit = @ + n]  OBVIOUS
<1> PICK g : g = [h EXCEPT ![<<from, t>>].debit = @ + n, ![<<from, t>>].to = @ \cup {to}]  OBVIOUS
<1>1. RecordErc20(f, t, from, to, n) = g  BY DEF RecordErc20
<1>2. DOMAIN h = Parties \X Fungibles /\ DOMAIN g = Parties \X Fungibles  OBVIOUS
<1>3. ASSUME NEW k \in Parties \X Fungibles
      PROVE  /\ DOMAIN h[k] = {"credit", "debit", "to"}
             /\ h[k].credit = f[k].credit + (IF k = <<to, t>> THEN n ELSE 0)
             /\ h[k].debit = f[k].debit
  <2>1. CASE k = <<to, t>>
    <3>1. h[k] = [f[k] EXCEPT !.credit = @ + n]  BY <2>1
    <3> QED  BY <2>1, <3>1
  <2>2. CASE k # <<to, t>>
    <3>1. h[k] = f[k]  BY <2>2
    <3> QED  BY <2>2, <3>1
  <2> QED  BY <2>1, <2>2
<1>4. ASSUME NEW k \in Parties \X Fungibles
      PROVE  /\ DOMAIN g[k] = {"credit", "debit", "to"}
             /\ g[k].credit = h[k].credit
             /\ g[k].debit = h[k].debit + (IF k = <<from, t>> THEN n ELSE 0)
  <2>0. h[k].debit \in Nat  BY <1>3
  <2>1. CASE k = <<from, t>>
    <3> PICK x : x = h[k]  OBVIOUS
    <3>1. g[k] = [[x EXCEPT !.debit = @ + n] EXCEPT !.to = @ \cup {to}]  BY <1>2, <2>1
    <3>2. DOMAIN x = {"credit", "debit", "to"}  BY <1>3
    <3>3. g[k].debit = x.debit + n /\ g[k].credit = x.credit /\ DOMAIN g[k] = DOMAIN x  BY <3>1, <3>2
    <3> QED  BY <2>1, <3>2, <3>3
  <2>2. CASE k # <<from, t>>
    <3>1. g[k] = h[k]  BY <1>2, <2>2
    <3> QED  BY <1>3, <2>0, <2>2, <3>1
  <2> QED  BY <2>1, <2>2
<1>5. \A k \in Parties \X Fungibles :
        /\ DOMAIN g[k] = {"credit", "debit", "to"}
        /\ g[k].credit = f[k].credit + (IF k = <<to, t>> THEN n ELSE 0)
        /\ g[k].debit = f[k].debit + (IF k = <<from, t>> THEN n ELSE 0)
  <2> TAKE k \in Parties \X Fungibles
  <2>1. /\ DOMAIN g[k] = {"credit", "debit", "to"} /\ g[k].credit = h[k].credit
        /\ g[k].debit = h[k].debit + (IF k = <<from, t>> THEN n ELSE 0)
    BY <1>4
  <2>2. h[k].credit = f[k].credit + (IF k = <<to, t>> THEN n ELSE 0) /\ h[k].debit = f[k].debit
    BY <1>3
  <2> QED  BY <2>1, <2>2, Zenon
<1> QED  BY <1>1, <1>2, <1>5, Zenon DEF Transferred

LEMMA LogErc20Inv ==
  ASSUME DiffIInv, NEW b \in Runs, NEW t \in Fungibles, NEW from \in Parties, NEW to \in Parties, NEW n \in Amounts,
         LogErc20(b, t, from, to, n)
  PROVE  DiffIInv'
<1> DEFINE K == Parties \X Fungibles
<1> PICK f, g : f = intentOf[b].fungible /\ g = RecordErc20(f, t, from, to, n)  OBVIOUS
<1> PICK old, new : old = moved[b]
                    /\ new = [k \in K |-> old[k] + (IF k = <<to, t>> THEN n ELSE 0) - (IF k = <<from, t>> THEN n ELSE 0)]
  OBVIOUS
<1>1. /\ DOMAIN intentOf = Runs /\ DOMAIN moved = Runs /\ DOMAIN moved[b] = K
      /\ \A c \in Runs : DOMAIN intentOf[c] = {"fungible", "nft"}
  BY DEF DiffIInv, DiffTypeOK
<1>2. /\ intentOf' = [intentOf EXCEPT ![b] = [@ EXCEPT !.fungible = g]]
      /\ moved' = [moved EXCEPT ![b] = new]
      /\ UNCHANGED <<owner, origin, current>>
  BY <1>1 DEF LogErc20
<1>3. \A c \in Runs : /\ intentOf'[c].nft = intentOf[c].nft /\ DOMAIN intentOf'[c] = {"fungible", "nft"}
                      /\ intentOf'[c].fungible = IF c = b THEN g ELSE intentOf[c].fungible
                      /\ moved'[c] = IF c = b THEN new ELSE moved[c]
  BY <1>1, <1>2
<1>4. DOMAIN intentOf' = Runs /\ DOMAIN moved' = Runs  BY <1>1, <1>2
<1>5. /\ DOMAIN f = K
      /\ \A k \in K : /\ DOMAIN f[k] = {"credit", "debit", "to"} /\ f[k].credit \in Nat /\ f[k].debit \in Nat
                      /\ old[k] = f[k].credit - f[k].debit
  BY DEF DiffIInv, DiffTypeOK, Booked
<1>6. n \in Nat  BY DiffAssumption
<1>7. /\ DOMAIN g = K
      /\ \A k \in K : /\ DOMAIN g[k] = {"credit", "debit", "to"}
                      /\ g[k].credit = f[k].credit + (IF k = <<to, t>> THEN n ELSE 0)
                      /\ g[k].debit = f[k].debit + (IF k = <<from, t>> THEN n ELSE 0)
  <2>1. Ledger(f)  BY <1>5 DEF Ledger
  <2>2. Transferred(f, g, t, from, to, n)  BY <1>6, <2>1, RecordErc20Books
  <2> QED  BY <2>2, Zenon DEF Transferred
<1>8. ASSUME NEW k \in K PROVE g[k].credit \in Nat /\ g[k].debit \in Nat /\ new[k] = g[k].credit - g[k].debit
  <2> PICK x, y : x = (IF k = <<to, t>> THEN n ELSE 0) /\ y = (IF k = <<from, t>> THEN n ELSE 0)  OBVIOUS
  <2>1. x \in Nat /\ y \in Nat  BY <1>6
  <2>2. g[k].credit = f[k].credit + x /\ g[k].debit = f[k].debit + y  BY <1>7
  <2>3. new[k] = old[k] + x - y  OBVIOUS
  <2>4. f[k].credit \in Nat /\ f[k].debit \in Nat /\ old[k] = f[k].credit - f[k].debit  BY <1>5
  <2> QED  BY <2>1, <2>2, <2>3, <2>4
<1>9. DOMAIN new = K  OBVIOUS
<1> HIDE DEF K
<1>10. DiffTypeOK'
  <2>1. \A c \in Runs : /\ DOMAIN intentOf'[c].fungible = K /\ DOMAIN moved'[c] = K
                        /\ \A k \in K : DOMAIN intentOf'[c].fungible[k] = {"credit", "debit", "to"}
    <3> TAKE c \in Runs
    <3>1. CASE c = b
      <4>1. intentOf'[c].fungible = g /\ moved'[c] = new  BY <1>3, <3>1
      <4>2. \A k \in K : DOMAIN g[k] = {"credit", "debit", "to"}  BY <1>7
      <4> QED  BY <1>7, <1>9, <4>1, <4>2
    <3>2. CASE c # b
      <4>1. intentOf'[c].fungible = intentOf[c].fungible /\ moved'[c] = moved[c]  BY <1>3, <3>2
      <4> QED  BY <4>1 DEF DiffIInv, DiffTypeOK, K
    <3> QED  BY <3>1, <3>2
  <2> QED  BY <1>2, <1>3, <1>4, <2>1 DEF DiffIInv, DiffTypeOK, K
<1>11. Booked'
  <2>1. ASSUME NEW c \in Runs, NEW k \in K
        PROVE  /\ intentOf'[c].fungible[k].credit \in Nat /\ intentOf'[c].fungible[k].debit \in Nat
               /\ moved'[c][k] = intentOf'[c].fungible[k].credit - intentOf'[c].fungible[k].debit
    <3>1. CASE c = b
      <4>1. intentOf'[c].fungible = g /\ moved'[c] = new  BY <1>3, <3>1
      <4> QED  BY <1>8, <4>1
    <3>2. CASE c # b
      <4>1. intentOf'[c].fungible = intentOf[c].fungible /\ moved'[c] = moved[c]  BY <1>3, <3>2
      <4> QED  BY <4>1 DEF DiffIInv, Booked, K
    <3> QED  BY <3>1, <3>2
  <2> QED  BY <2>1 DEF Booked, K
<1>12. NftsTracked'
  <2>1. 1 \in Runs /\ 2 \in Runs /\ current \in Runs  BY DEF Runs, DiffIInv, DiffTypeOK
  <2> QED  BY <1>2, <1>3, <2>1 DEF DiffIInv, NftsTracked
<1> QED  BY <1>10, <1>11, <1>12 DEF DiffIInv

LEMMA LogErc721Inv ==
  ASSUME DiffIInv, NEW b \in Runs, NEW id \in Nfts, NEW to \in Parties, LogErc721(b, id, to)
  PROVE  DiffIInv'
<1> PICK map, from, first : map = intentOf[b].nft /\ from = owner[id] /\ first = origin[b][id]  OBVIOUS
<1> PICK d : d = Collapse(Collapse(map, from, "out", id, {to}), to, "in", id, {})  OBVIOUS
<1>1. /\ DOMAIN intentOf = Runs /\ \A c \in Runs : DOMAIN intentOf[c] = {"fungible", "nft"}
      /\ Directed(map) /\ owner \in [Nfts -> Parties]
  BY DEF DiffIInv, DiffTypeOK, Directed
<1>2. /\ current = b /\ intentOf' = [intentOf EXCEPT ![b] = [@ EXCEPT !.nft = d]]
      /\ owner' = [owner EXCEPT ![id] = to]
      /\ UNCHANGED <<moved, origin, current>>
  BY DEF LogErc721
<1>3. \A c \in Runs : /\ intentOf'[c].fungible = intentOf[c].fungible /\ DOMAIN intentOf'[c] = {"fungible", "nft"}
                      /\ intentOf'[c].nft = IF c = b THEN d ELSE intentOf[c].nft
  BY <1>1, <1>2
<1>4. Sides(map, id) = FirstToLast(first, from)  BY <1>2 DEF DiffIInv, NftsTracked
<1>5. Directed(d) /\ (\A j : j # id => Sides(d, j) = Sides(map, j)) /\ Sides(d, id) = FirstToLast(first, to)
  BY <1>1, <1>4, TransferSides
<1>6. DiffTypeOK'
  <2>1. DOMAIN intentOf' = Runs /\ owner' \in [Nfts -> Parties]  BY <1>1, <1>2
  <2>2. \A c \in Runs : \A e \in intentOf'[c].nft : e.dir \in {"in", "out"}
    <3> TAKE c \in Runs
    <3>1. CASE c = b  BY <1>3, <1>5, <3>1 DEF Directed
    <3>2. CASE c # b  BY <1>3, <3>2 DEF DiffIInv, DiffTypeOK
    <3> QED  BY <3>1, <3>2
  <2>3. \A c \in Runs : /\ DOMAIN intentOf'[c] = {"fungible", "nft"} /\ intentOf'[c].fungible = intentOf[c].fungible
                        /\ moved'[c] = moved[c] /\ origin'[c] = origin[c]
    BY <1>2, <1>3
  <2>4. \A c \in Runs :
          /\ DOMAIN intentOf'[c].fungible = Parties \X Fungibles /\ DOMAIN moved'[c] = Parties \X Fungibles
          /\ origin'[c] \in [Nfts -> Parties]
          /\ \A k \in Parties \X Fungibles : DOMAIN intentOf'[c].fungible[k] = {"credit", "debit", "to"}
    BY <2>3 DEF DiffIInv, DiffTypeOK
  <2>5. DOMAIN origin' = Runs /\ DOMAIN moved' = Runs /\ current' \in Runs  BY <1>2 DEF DiffIInv, DiffTypeOK
  <2> QED  BY <2>1, <2>2, <2>3, <2>4, <2>5 DEF DiffTypeOK
<1>7. Booked'  BY <1>2, <1>3 DEF DiffIInv, Booked
<1>8. NftsTracked'
  <2>1. ASSUME NEW j \in Nfts PROVE Sides(d, j) = FirstToLast(origin[b][j], owner'[j])
    <3>1. CASE j = id
      <4>1. owner'[j] = to  BY <1>1, <1>2, <3>1
      <4> QED  BY <1>5, <3>1, <4>1
    <3>2. CASE j # id
      <4>1. owner'[j] = owner[j]  BY <1>1, <1>2, <3>2
      <4>2. Sides(map, j) = FirstToLast(origin[b][j], owner[j])  BY <1>2 DEF DiffIInv, NftsTracked
      <4> QED  BY <1>5, <3>2, <4>1, <4>2
    <3> QED  BY <3>1, <3>2
  <2>2. intentOf'[current'].nft = d /\ current' = b /\ origin' = origin  BY <1>2, <1>3
  <2>3. current = 1 => intentOf'[2].nft = {}
    <3>1. 2 \in Runs  BY DEF Runs
    <3> QED  BY <1>2, <1>3, <3>1 DEF DiffIInv, NftsTracked
  <2>4. current = 2 => \A j \in Nfts : Sides(intentOf'[1].nft, j) = FirstToLast(origin[1][j], origin[2][j])
    <3>1. 1 \in Runs  BY DEF Runs
    <3> QED  BY <1>2, <1>3, <3>1 DEF DiffIInv, NftsTracked
  <2>5. \A j \in Nfts : Sides(intentOf'[current'].nft, j) = FirstToLast(origin'[current'][j], owner'[j])
    BY <2>1, <2>2
  <2>6. current' = current  BY <1>2
  <2>7. current' = 2 => \A j \in Nfts : Sides(intentOf'[1].nft, j) = FirstToLast(origin'[1][j], origin'[2][j])
    BY <2>2, <2>4, <2>6
  <2> QED  BY <2>3, <2>5, <2>6, <2>7 DEF NftsTracked
<1> QED  BY <1>6, <1>7, <1>8 DEF DiffIInv

LEMMA NextIntentInv == ASSUME DiffIInv, NextIntent PROVE DiffIInv'
<1>1. /\ current = 1 /\ current' = 2 /\ origin' = [origin EXCEPT ![2] = owner]
      /\ UNCHANGED <<intentOf, moved, owner>>
  BY DEF NextIntent
<1>2. DOMAIN origin = Runs /\ 1 \in Runs /\ 2 \in Runs  BY DEF DiffIInv, DiffTypeOK, Runs
<1>3. origin'[2] = owner /\ origin'[1] = origin[1] /\ DOMAIN origin' = Runs  BY <1>1, <1>2
<1>4. \A b \in Runs : origin'[b] \in [Nfts -> Parties]
  <2>1. \A b \in Runs : b = 1 \/ b = 2  BY DEF Runs
  <2> QED  BY <1>2, <1>3, <2>1 DEF DiffIInv, DiffTypeOK
<1>5. DiffTypeOK'  BY <1>1, <1>2, <1>3, <1>4 DEF DiffIInv, DiffTypeOK
<1>6. Booked'  BY <1>1 DEF DiffIInv, Booked
<1>7. NftsTracked'
  <2>1. intentOf[2].nft = {} /\ \A id \in Nfts : Sides(intentOf[1].nft, id) = FirstToLast(origin[1][id], owner[id])
    BY <1>1 DEF DiffIInv, NftsTracked
  <2>2. \A id : Sides({}, id) = {}  BY DEF Sides
  <2>3. \A x : FirstToLast(x, x) = {}  BY DEF FirstToLast
  <2> QED  BY <1>1, <1>3, <2>1, <2>2, <2>3 DEF NftsTracked
<1> QED  BY <1>5, <1>6, <1>7 DEF DiffIInv

LEMMA DiffInductive == ASSUME DiffIInv, [DiffNext]_diffVars PROVE DiffIInv'
<1>1. ASSUME NEW b \in Runs, NEW t \in Fungibles, NEW from \in Parties, NEW to \in Parties, NEW n \in Amounts,
             LogErc20(b, t, from, to, n)
      PROVE  DiffIInv'
  BY <1>1, LogErc20Inv
<1>2. ASSUME NEW b \in Runs, NEW id \in Nfts, NEW to \in Parties, LogErc721(b, id, to) PROVE DiffIInv'
  BY <1>2, LogErc721Inv
<1>3. CASE NextIntent  BY <1>3, NextIntentInv
<1>4. CASE UNCHANGED diffVars
  BY <1>4 DEF diffVars, DiffIInv, DiffTypeOK, Booked, NftsTracked
<1> QED  BY <1>1, <1>2, <1>3, <1>4 DEF DiffNext

\* An entry of a diff stands for a change of the balance that is not zero.
EntryFor(x, net) ==
  /\ DOMAIN x = {"value", "dir", "to"} /\ x.dir \in {"in", "out"} /\ x.value \in Nat /\ x.value # 0
  /\ net = IF x.dir = "in" THEN x.value ELSE -x.value
\* A diff that tells changes.
Tells(xs, k, net) == IF k \in DOMAIN xs THEN EntryFor(xs[k], net) ELSE net = 0

LEMMA TellsChange ==
  ASSUME NEW xs, NEW k, NEW net, Tells(xs, k, net)
  PROVE  Change(xs, k) = net
<1>1. CASE k \in DOMAIN xs  BY <1>1 DEF Tells, EntryFor, Change
<1>2. CASE k \notin DOMAIN xs  BY <1>2 DEF Tells, Change
<1> QED  BY <1>1, <1>2

LEMMA BuildTells ==
  ASSUME NEW f, Ledger(f), NEW k \in Parties \X Fungibles
  PROVE  Tells(Build(f), k, f[k].credit - f[k].debit)
<1> PICK in, out, to : in = f[k].credit /\ out = f[k].debit /\ to = f[k].to  OBVIOUS
<1>1. in \in Nat /\ out \in Nat /\ DOMAIN f = Parties \X Fungibles  BY DEF Ledger
<1> PICK xs : xs = Build(f)  OBVIOUS
<1>2. DOMAIN xs = {j \in DOMAIN f : f[j].credit # f[j].debit}  BY DEF Build
<1>3. k \in DOMAIN xs <=> in # out  BY <1>1, <1>2
<1>4. CASE in # out
  <2>1. xs[k] = Entry(in, out, to)  BY <1>1, <1>4 DEF Build
  <2>2. CASE in > out
    <3>1. xs[k] = [value |-> in - out, dir |-> "in", to |-> {}]  BY <2>1, <2>2 DEF Entry
    <3>2. in - out \in Nat /\ in - out # 0  BY <1>1, <2>2
    <3>3. EntryFor(xs[k], in - out)  BY <3>1, <3>2 DEF EntryFor
    <3> QED  BY <1>3, <1>4, <3>3 DEF Tells
  <2>3. CASE ~(in > out)
    <3>1. xs[k] = [value |-> out - in, dir |-> "out", to |-> to]  BY <2>1, <2>3 DEF Entry
    <3>2. out - in \in Nat /\ out - in # 0 /\ in - out = -(out - in)  BY <1>1, <1>4, <2>3
    <3>3. EntryFor(xs[k], in - out)  BY <3>1, <3>2 DEF EntryFor
    <3> QED  BY <1>3, <1>4, <3>3 DEF Tells
  <2> QED  BY <2>2, <2>3
<1>5. CASE in = out
  <2>1. in - out = 0  BY <1>1, <1>5
  <2> QED  BY <1>3, <1>5, <2>1 DEF Tells
<1> QED  BY <1>4, <1>5

\* Two entries are merged into one for the sum of the changes, unless that is zero.
LEMMA MergeDiffSum ==
  ASSUME NEW x, NEW y, NEW m \in Int, NEW n \in Int, EntryFor(x, m), EntryFor(y, n)
  PROVE  LET z == MergeDiff(x, y)
         IN  IF z.value = 0 THEN m + n = 0 ELSE EntryFor(z, m + n)
<1> PICK z : z = MergeDiff(x, y)  OBVIOUS
<1> PICK u, v, d, e : u = x.value /\ v = y.value /\ d = x.dir /\ e = y.dir  OBVIOUS
<1>1. /\ u \in Nat /\ v \in Nat /\ u # 0 /\ v # 0 /\ d \in {"in", "out"} /\ e \in {"in", "out"}
      /\ m = (IF d = "in" THEN u ELSE -u) /\ n = (IF e = "in" THEN v ELSE -v)
  BY DEF EntryFor
<1>2. /\ DOMAIN z = {"value", "dir", "to"}
      /\ z.dir = (IF d # e /\ v > u THEN e ELSE d)
      /\ z.value = (IF d = e THEN u + v ELSE IF v > u THEN v - u ELSE u - v)
  BY DEF MergeDiff
<1>3. z.value \in Nat /\ z.dir \in {"in", "out"}  BY <1>1, <1>2
<1>4. m + n = IF z.dir = "in" THEN z.value ELSE -z.value
  <2>1. CASE d = e  BY <1>1, <1>2, <2>1
  <2>2. CASE d # e /\ v > u  BY <1>1, <1>2, <2>2
  <2>3. CASE d # e /\ ~(v > u)  BY <1>1, <1>2, <2>3
  <2> QED  BY <2>1, <2>2, <2>3
<1>5. z.value = 0 => m + n = 0  BY <1>4
<1> QED  BY <1>2, <1>3, <1>4, <1>5 DEF EntryFor

LEMMA MergeTells ==
  ASSUME NEW xs, NEW ys, NEW k, NEW m \in Int, NEW n \in Int, Tells(xs, k, m), Tells(ys, k, n)
  PROVE  Tells(MergeDiffs(xs, ys), k, m + n)
<1> DEFINE both == DOMAIN xs \cap DOMAIN ys
<1> PICK all : all = [j \in DOMAIN xs \cup DOMAIN ys |->
        IF j \in both THEN MergeDiff(xs[j], ys[j]) ELSE IF j \in DOMAIN xs THEN xs[j] ELSE ys[j]]
  OBVIOUS
<1> PICK zs : zs = [j \in {j \in DOMAIN all : all[j].value # 0} |-> all[j]]  OBVIOUS
<1>1. MergeDiffs(xs, ys) = zs  BY DEF MergeDiffs
<1>2. k \in DOMAIN zs <=> (k \in DOMAIN xs \cup DOMAIN ys /\ all[k].value # 0)  OBVIOUS
<1>3. k \in DOMAIN zs => zs[k] = all[k]  OBVIOUS
<1>4. CASE k \in both
  <2>1. all[k] = MergeDiff(xs[k], ys[k])  BY <1>4
  <2>2. EntryFor(xs[k], m) /\ EntryFor(ys[k], n)  BY <1>4 DEF Tells
  <2>3. IF all[k].value = 0 THEN m + n = 0 ELSE EntryFor(all[k], m + n)  BY <2>1, <2>2, MergeDiffSum
  <2> QED  BY <1>1, <1>2, <1>3, <1>4, <2>3 DEF Tells
<1>5. CASE k \in DOMAIN xs /\ k \notin DOMAIN ys
  <2>1. all[k] = xs[k] /\ EntryFor(xs[k], m) /\ n = 0  BY <1>5 DEF Tells
  <2>2. all[k].value # 0 /\ m + n = m  BY <2>1 DEF EntryFor
  <2> QED  BY <1>1, <1>2, <1>3, <1>5, <2>1, <2>2 DEF Tells
<1>6. CASE k \notin DOMAIN xs /\ k \in DOMAIN ys
  <2>1. all[k] = ys[k] /\ EntryFor(ys[k], n) /\ m = 0  BY <1>6 DEF Tells
  <2>2. all[k].value # 0 /\ m + n = n  BY <2>1 DEF EntryFor
  <2> QED  BY <1>1, <1>2, <1>3, <1>6, <2>1, <2>2 DEF Tells
<1>7. CASE k \notin DOMAIN xs /\ k \notin DOMAIN ys
  <2>1. m = 0 /\ n = 0  BY <1>7 DEF Tells
  <2>2. m + n = 0  BY <2>1
  <2> QED  BY <1>1, <1>2, <1>7, <2>2 DEF Tells
<1> QED  BY <1>4, <1>5, <1>6, <1>7

LEMMA FeeArithmetic ==
  ASSUME NEW v \in Nat, NEW fee \in Nat, NEW net \in Int
  PROVE  /\ net = v => v + fee \in Nat /\ net + fee = v + fee
         /\ net = -v /\ v > fee => v - fee \in Nat /\ net + fee = -(v - fee)
         /\ net = -v /\ ~(v > fee) => fee - v \in Nat /\ net + fee = fee - v
         /\ net = v \/ net = -v => (v = 0 => net = 0)
         /\ net + fee \in Int
  OBVIOUS

LEMMA NothingEither ==
  ASSUME NEW v \in Nat, NEW n \in Int, n = v \/ n = -v, v = 0
  PROVE  n = 0
  OBVIOUS

\* The payment is taken out again, except from a diff that does not name its payer.
LEMMA RemovePayerFeeTells ==
  ASSUME NEW xs, NEW k, NEW net \in Int, NEW fee \in Nat, NEW payer, NEW asset, Tells(xs, k, net)
  PROVE  LET ys == RemovePayerFee(xs, payer, asset, fee)
         IN  /\ k # <<payer, asset>> => Tells(ys, k, net)
             /\ k = <<payer, asset>> /\ k \in DOMAIN xs => Tells(ys, k, net + fee)
             /\ k = <<payer, asset>> /\ k \notin DOMAIN xs => Tells(ys, k, 0)
<1> DEFINE Without(x) ==
        IF x.dir = "in" THEN [x EXCEPT !.value = @ + fee]
        ELSE IF x.value > fee THEN [x EXCEPT !.value = @ - fee]
        ELSE [x EXCEPT !.value = fee - @, !.dir = "in"]
<1> PICK all : all = [j \in DOMAIN xs |-> IF j = <<payer, asset>> THEN Without(xs[j]) ELSE xs[j]]  OBVIOUS
<1> PICK ys : ys = [j \in {j \in DOMAIN all : all[j].value # 0} |-> all[j]]  OBVIOUS
<1>1. RemovePayerFee(xs, payer, asset, fee) = ys  BY DEF RemovePayerFee
<1>2. k \in DOMAIN ys <=> (k \in DOMAIN xs /\ all[k].value # 0)
  <2>1. DOMAIN all = DOMAIN xs  OBVIOUS
  <2>2. DOMAIN ys = {j \in DOMAIN all : all[j].value # 0}  OBVIOUS
  <2> QED  BY <2>1, <2>2, Zenon
<1>3. k \in DOMAIN ys => ys[k] = all[k]  OBVIOUS
<1>4. k \notin DOMAIN xs => net = 0 /\ k \notin DOMAIN ys  BY <1>2 DEF Tells
<1>5. ASSUME k # <<payer, asset>>, k \in DOMAIN xs PROVE Tells(ys, k, net)
  <2>1. all[k] = xs[k] /\ EntryFor(xs[k], net)  BY <1>5 DEF Tells
  <2>2. all[k].value # 0  BY <2>1 DEF EntryFor
  <2> QED  BY <1>2, <1>3, <1>5, <2>1, <2>2 DEF Tells
<1>6. ASSUME k = <<payer, asset>>, k \in DOMAIN xs PROVE Tells(ys, k, net + fee)
  <2> PICK x : x = xs[k]  OBVIOUS
  <2> PICK z : z = all[k]  OBVIOUS
  <2>1. z = Without(x) /\ EntryFor(x, net)  BY <1>6 DEF Tells
  <2>2. /\ DOMAIN x = {"value", "dir", "to"} /\ x.dir \in {"in", "out"} /\ x.value \in Nat /\ x.value # 0
        /\ net = IF x.dir = "in" THEN x.value ELSE -x.value
    BY <2>1 DEF EntryFor
  <2>3. /\ DOMAIN z = {"value", "dir", "to"} /\ z.dir \in {"in", "out"} /\ z.value \in Nat
        /\ net + fee = IF z.dir = "in" THEN z.value ELSE -z.value
    <3>1. CASE x.dir = "in"
      <4>1. z = [x EXCEPT !.value = @ + fee]  BY <2>1, <3>1
      <4>2. DOMAIN z = {"value", "dir", "to"} /\ z.dir = "in" /\ z.value = x.value + fee  BY <2>2, <3>1, <4>1
      <4>3. x.value \in Nat /\ net = x.value  BY <2>2, <3>1
      <4>5. x.value + fee \in Nat /\ net + fee = x.value + fee  BY <4>3, FeeArithmetic, Zenon
      <4>4. z.value \in Nat /\ net + fee = z.value  BY <4>2, <4>5, Zenon
      <4> QED  BY <4>2, <4>4
    <3>2. CASE x.dir # "in" /\ x.value > fee
      <4>1. z = [x EXCEPT !.value = @ - fee]  BY <2>1, <3>2
      <4>2. DOMAIN z = {"value", "dir", "to"} /\ z.dir = "out" /\ z.value = x.value - fee  BY <2>2, <3>2, <4>1
      <4>4. x.value \in Nat /\ net = -x.value  BY <2>2, <3>2
      <4>3. x.value - fee \in Nat /\ net + fee = -(x.value - fee)  BY <3>2, <4>4, FeeArithmetic, Zenon
      <4> QED  BY <4>2, <4>3
    <3>3. CASE x.dir # "in" /\ ~(x.value > fee)
      <4>1. z = [[x EXCEPT !.value = fee - @] EXCEPT !.dir = "in"]  BY <2>1, <3>3
      <4>2. DOMAIN z = {"value", "dir", "to"} /\ z.dir = "in" /\ z.value = fee - x.value  BY <2>2, <4>1
      <4>4. x.value \in Nat /\ net = -x.value  BY <2>2, <3>3
      <4>3. fee - x.value \in Nat /\ net + fee = fee - x.value  BY <3>3, <4>4, FeeArithmetic, Zenon
      <4> QED  BY <4>2, <4>3
    <3> QED  BY <3>1, <3>2, <3>3
  <2>4. z.value # 0 => EntryFor(z, net + fee)  BY <2>3 DEF EntryFor
  <2>5. z.value = 0 => net + fee = 0
    <3>1. net + fee = z.value \/ net + fee = -z.value  BY <2>3, Zenon
    <3>2. z.value \in Nat  BY <2>3, Zenon
    <3>3. net + fee \in Int  BY FeeArithmetic, Zenon
    <3> QED  BY <3>1, <3>2, <3>3, NothingEither, Zenon
  <2> QED  BY <1>2, <1>3, <1>6, <2>4, <2>5 DEF Tells
<1>7. k \notin DOMAIN xs => Tells(ys, k, net) /\ Tells(ys, k, 0)  BY <1>4 DEF Tells
<1> QED  BY <1>1, <1>5, <1>6, <1>7

LEMMA DiffsTellInv == ASSUME DiffIInv PROVE DiffsTell
<1> DEFINE K == Parties \X Fungibles
           F(b) == intentOf[b].fungible
<1>1. 1 \in Runs /\ 2 \in Runs /\ current \in Runs /\ \A b \in 1..current : b \in Runs
  BY DEF Runs, DiffIInv, DiffTypeOK
<1>2. \A b \in Runs : Ledger(F(b)) /\ DOMAIN moved[b] = K /\ \A k \in K : moved[b][k] = F(b)[k].credit - F(b)[k].debit
  BY DEF DiffIInv, DiffTypeOK, Booked, Ledger
<1>3. \A b \in Runs : \A k \in K : F(b)[k].credit \in Nat /\ F(b)[k].debit \in Nat /\ moved[b][k] \in Int
  BY <1>2 DEF Ledger
<1>4. \A b \in Runs : \A k \in K : Tells(Build(F(b)), k, moved[b][k])
  <2> TAKE b \in Runs
  <2> TAKE k \in K
  <2>1. Ledger(F(b)) /\ moved[b][k] = F(b)[k].credit - F(b)[k].debit  BY <1>2
  <2> HIDE DEF F
  <2>2. Tells(Build(F(b)), k, F(b)[k].credit - F(b)[k].debit)  BY <2>1, BuildTells
  <2> QED  BY <2>1, <2>2
<1>5. \A b \in Runs : \A k \in K : Change(Build(F(b)), k) = moved[b][k]  BY <1>4, TellsChange
<1>6. ASSUME NEW b \in Runs, NEW k \in K, k[1] # Collector
      PROVE  LET paid == RecordErc20(F(b), FeeAsset, Payer, Collector, FeeAmount)
                 told == Change(RemovePayerFee(Build(paid), Payer, FeeAsset, FeeAmount), k)
             IN  told = moved[b][k] \/ (k = <<Payer, FeeAsset>> /\ moved[b][k] = FeeAmount /\ told = 0)
  <2> PICK f : f = F(b)  OBVIOUS
  <2> PICK g : g = RecordErc20(f, FeeAsset, Payer, Collector, FeeAmount)  OBVIOUS
  <2> PICK xs : xs = Build(g)  OBVIOUS
  <2> PICK ys : ys = RemovePayerFee(xs, Payer, FeeAsset, FeeAmount)  OBVIOUS
  <2> PICK pay : pay = IF k = <<Payer, FeeAsset>> THEN FeeAmount ELSE 0  OBVIOUS
  <2> PICK net : net = moved[b][k]  OBVIOUS
  <2>1. Ledger(f) /\ net = f[k].credit - f[k].debit /\ net \in Int  BY <1>2, <1>3
  <2>2. Transferred(f, g, FeeAsset, Payer, Collector, FeeAmount)  BY <2>1, RecordErc20Books, DiffAssumption
  <2>3. pay \in Nat /\ FeeAmount \in Nat  BY DiffAssumption
  <2>4. g[k].credit = f[k].credit /\ g[k].debit = f[k].debit + pay
    <3>1. k # <<Collector, FeeAsset>>  BY <1>6
    <3>2. /\ g[k].credit = f[k].credit + (IF k = <<Collector, FeeAsset>> THEN FeeAmount ELSE 0)
          /\ g[k].debit = f[k].debit + pay
      BY <2>2, Zenon DEF Transferred
    <3>3. f[k].credit \in Nat  BY <2>1 DEF Ledger
    <3> QED  BY <3>1, <3>2, <3>3
  <2>5. Ledger(g)
    <3>1. DOMAIN g = K /\ \A j \in K : DOMAIN g[j] = {"credit", "debit", "to"}  BY <2>2 DEF Transferred
    <3>2. ASSUME NEW j \in K PROVE g[j].credit \in Nat /\ g[j].debit \in Nat
      <4> PICK x, y : /\ x = (IF j = <<Collector, FeeAsset>> THEN FeeAmount ELSE 0)
                      /\ y = (IF j = <<Payer, FeeAsset>> THEN FeeAmount ELSE 0)
        OBVIOUS
      <4>1. x \in Nat /\ y \in Nat  BY <2>3
      <4>2. g[j].credit = f[j].credit + x /\ g[j].debit = f[j].debit + y  BY <2>2, Zenon DEF Transferred
      <4>3. f[j].credit \in Nat /\ f[j].debit \in Nat  BY <2>1 DEF Ledger
      <4> QED  BY <4>1, <4>2, <4>3
    <3> QED  BY <3>1, <3>2 DEF Ledger
  <2>6. Tells(xs, k, net - pay)
    <3>1. f[k].credit \in Nat /\ f[k].debit \in Nat  BY <2>1 DEF Ledger
    <3>2. Tells(xs, k, g[k].credit - g[k].debit)  BY <2>5, BuildTells
    <3>3. g[k].credit - g[k].debit = net - pay  BY <2>1, <2>3, <2>4, <3>1
    <3> QED  BY <3>2, <3>3
  <2> PICK rest : rest = net - pay  OBVIOUS
  <2>7. rest \in Int /\ Tells(xs, k, rest)  BY <2>1, <2>3, <2>6
  <2>8. /\ k # <<Payer, FeeAsset>> => Tells(ys, k, rest)
        /\ k = <<Payer, FeeAsset>> /\ k \in DOMAIN xs => Tells(ys, k, rest + FeeAmount)
        /\ k = <<Payer, FeeAsset>> /\ k \notin DOMAIN xs => Tells(ys, k, 0)
    BY <2>3, <2>7, RemovePayerFeeTells
  <2>9. Change(ys, k) = net \/ (k = <<Payer, FeeAsset>> /\ net = FeeAmount /\ Change(ys, k) = 0)
    <3>1. CASE k # <<Payer, FeeAsset>>
      <4>1. rest = net  BY <2>1, <3>1
      <4> QED  BY <2>8, <3>1, <4>1, TellsChange
    <3>2. CASE k = <<Payer, FeeAsset>> /\ k \in DOMAIN xs
      <4>1. rest + FeeAmount = net  BY <2>1, <2>3, <3>2
      <4> QED  BY <2>8, <3>2, <4>1, TellsChange
    <3>3. CASE k = <<Payer, FeeAsset>> /\ k \notin DOMAIN xs
      <4>1. rest = 0  BY <2>7, <3>3 DEF Tells
      <4>2. net = FeeAmount  BY <2>1, <2>3, <3>3, <4>1
      <4>3. Change(ys, k) = 0  BY <2>8, <3>3, TellsChange
      <4> QED  BY <3>3, <4>2, <4>3
    <3> QED  BY <3>1, <3>2, <3>3
  <2> QED  BY <2>9, Zenon
<1>7. \A k \in K : Change(MergeDiffs(Build(F(1)), Build(F(2))), k) = moved[1][k] + moved[2][k]
  <2> TAKE k \in K
  <2>1. moved[1][k] \in Int /\ moved[2][k] \in Int  BY <1>1, <1>3
  <2>2. Tells(Build(F(1)), k, moved[1][k]) /\ Tells(Build(F(2)), k, moved[2][k])  BY <1>1, <1>4
  <2>3. Tells(MergeDiffs(Build(F(1)), Build(F(2))), k, moved[1][k] + moved[2][k])  BY <2>1, <2>2, MergeTells
  <2> QED  BY <2>3, TellsChange
<1>8. \A b \in 1..current : \A id \in Nfts :
        LET last == IF b = 1 /\ current = 2 THEN origin[2][id] ELSE owner[id]
        IN  Sides(intentOf[b].nft, id) = FirstToLast(origin[b][id], last)
  <2> TAKE b \in 1..current
  <2> TAKE id \in Nfts
  <2>1. current = 1 \/ current = 2  BY <1>1 DEF Runs
  <2>2. CASE b = 1 /\ current = 2  BY <2>2 DEF DiffIInv, NftsTracked
  <2>3. CASE ~(b = 1 /\ current = 2)
    <3>1. b = current  BY <2>1, <2>3
    <3> QED  BY <2>3, <3>1 DEF DiffIInv, NftsTracked
  <2> QED  BY <2>2, <2>3
<1> QED
  <2>1. \A b \in {b \in 1..current : logged[b] > 0} : DOMAIN moved[b] = K /\ b \in Runs  BY <1>1, <1>2
  <2>2. DOMAIN moved[1] = K  BY <1>1, <1>2
  <2> HIDE DEF K
  <2>3. \A b \in {b \in 1..current : logged[b] > 0} : \A k \in DOMAIN moved[b] :
       /\ Change(Build(intentOf[b].fungible), k) = moved[b][k]
       /\ LET paid == RecordErc20(intentOf[b].fungible, FeeAsset, Payer, Collector, FeeAmount)
              told == Change(RemovePayerFee(Build(paid), Payer, FeeAsset, FeeAmount), k)
          IN  k[1] # Collector => told = moved[b][k] \/ (k = <<Payer, FeeAsset>> /\ moved[b][k] = FeeAmount /\ told = 0)
    <3> TAKE b \in {b \in 1..current : logged[b] > 0}
    <3> TAKE k \in DOMAIN moved[b]
    <3>1. b \in Runs /\ k \in K  BY <2>1
    <3> QED  BY <1>5, <1>6, <3>1, Zenon
  <2>4. current = 2 => \A k \in DOMAIN moved[1] :
       Change(MergeDiffs(Build(intentOf[1].fungible), Build(intentOf[2].fungible)), k) = moved[1][k] + moved[2][k]
    BY <1>7, <2>2
  <2> QED  BY <1>8, <2>3, <2>4, Zenon DEF DiffsTell, Sides, FirstToLast

\* Whatever transfers an intent and its fee payer's log, the diffs that a quote and a
\* bundle show are the changes of the balances and the owners (AssetDiffsBuilder).
THEOREM DiffsAlwaysTell == DiffSpec => []DiffsTell
<1>1. DiffInit => DiffIInv  BY DiffInitInv
<1>2. DiffIInv /\ [DiffNext]_diffVars => DiffIInv'  BY DiffInductive
<1>3. DiffIInv => DiffsTell  BY DiffsTellInv
<1> QED  BY <1>1, <1>2, <1>3, PTL DEF DiffSpec

-----------------------------------------------------------------------------
(* Metadata of assets *)

\* Steps taken one after the other, each a function on a set.
Iterates(f, start, steps, n) ==
  f = [i \in 0..n |-> IF i = 0 THEN start ELSE steps[i][f[i - 1]]]

LEMMA IteratesExist ==
  ASSUME NEW start, NEW steps, NEW n \in Nat
  PROVE  \E f : Iterates(f, start, steps, n)
<1> DEFINE T == {m \in Nat : ~ \E f : Iterates(f, start, steps, m)}
<1> SUFFICES ASSUME T # {} PROVE FALSE  OBVIOUS
<1>1. PICK m \in T : \A y \in T : m <= y
  <2>1. T \subseteq Nat  OBVIOUS
  <2> QED  BY <2>1, LeastNumber
<1>2. CASE m = 0
  <2> PICK f : f = [i \in 0..0 |-> start]  OBVIOUS
  <2>1. f = [i \in 0..0 |-> IF i = 0 THEN start ELSE steps[i][f[i - 1]]]
    <3>1. \A i \in 0..0 : i = 0  OBVIOUS
    <3> QED  BY <3>1
  <2> QED  BY <1>2, <2>1 DEF Iterates
<1>3. CASE m # 0
  <2>1. m \in Nat /\ m - 1 \in Nat /\ m - 1 \notin T  BY <1>1, <1>3
  <2>2. PICK g : Iterates(g, start, steps, m - 1)  BY <2>1
  <2> PICK f : f = [i \in 0..m |-> IF i = m THEN steps[m][g[m - 1]] ELSE g[i]]  OBVIOUS
  <2>3. g = [i \in 0..(m - 1) |-> IF i = 0 THEN start ELSE steps[i][g[i - 1]]]
    BY <2>2 DEF Iterates
  <2>4. \A i \in 0..m : i # m => i \in 0..(m - 1)  BY <2>1
  <2>5. \A i \in 0..m : i # 0 => i - 1 \in 0..m /\ i - 1 # m /\ f[i - 1] = g[i - 1]  BY <2>1
  <2>6. \A i \in 0..m : f[i] = IF i = 0 THEN start ELSE steps[i][f[i - 1]]
    <3> TAKE i \in 0..m
    <3>1. CASE i = m
      <4>1. f[i] = steps[m][g[m - 1]]  BY <3>1
      <4>2. f[i - 1] = g[m - 1]  BY <3>1, <1>3, <2>5
      <4> QED  BY <4>1, <4>2, <3>1, <1>3
    <3>2. CASE i # m
      <4>1. f[i] = g[i] /\ i \in 0..(m - 1)  BY <3>2, <2>4
      <4>2. g[i] = IF i = 0 THEN start ELSE steps[i][g[i - 1]]  BY <4>1, <2>3
      <4>3. i # 0 => f[i - 1] = g[i - 1]  BY <2>5
      <4> QED  BY <4>1, <4>2, <4>3
    <3> QED  BY <3>1, <3>2
  <2>7. f = [i \in 0..m |-> IF i = 0 THEN start ELSE steps[i][f[i - 1]]]
    <3>1. f = [i \in 0..m |-> f[i]]  OBVIOUS
    <3> QED  BY <2>6, <3>1
  <2> QED  BY <2>7 DEF Iterates
<1> QED  BY <1>2, <1>3

\* A set that every step stays in.
LEMMA IteratesStay ==
  ASSUME NEW C, NEW n \in Nat, NEW g, g[0] \in C, \A i \in 1..n : g[i - 1] \in C => g[i] \in C
  PROVE  \A i \in 0..n : g[i] \in C
<1> DEFINE T == {i \in 0..n : g[i] \notin C}
<1> SUFFICES ASSUME T # {} PROVE FALSE  OBVIOUS
<1>1. PICK m \in T : \A y \in T : m <= y
  <2>1. T \subseteq Nat  OBVIOUS
  <2> HIDE DEF T
  <2> QED  BY <2>1, LeastNumber
<1>2. m \in 0..n /\ g[m] \notin C /\ m # 0  OBVIOUS
<1>3. m - 1 \in 0..n /\ ~(m <= m - 1) /\ m \in 1..n  BY <1>2
<1>4. g[m - 1] \in C
  <2>1. m - 1 \notin T  BY <1>1, <1>3
  <2> QED  BY <1>3, <2>1
<1> QED  BY <1>2, <1>3, <1>4

\* Steps that stay in a set can be taken one after the other.
Iterable(C, n, start, steps) ==
  \E f \in [0..n -> C] : f[0] = start /\ \A i \in 1..n : f[i] = steps[i][f[i - 1]]

LEMMA IteratesWithin ==
  ASSUME NEW C, NEW n \in Nat, NEW start \in C, NEW steps,
         \A i \in 1..n : \A c \in C : steps[i][c] \in C
  PROVE  Iterable(C, n, start, steps)
<1>1. PICK f : Iterates(f, start, steps, n)  BY IteratesExist
<1>2. f = [i \in 0..n |-> IF i = 0 THEN start ELSE steps[i][f[i - 1]]]  BY <1>1 DEF Iterates
<1>3. f[0] = start  BY <1>2
<1>4. \A i \in 1..n : f[i] = steps[i][f[i - 1]]
  <2> TAKE i \in 1..n
  <2>1. i \in 0..n /\ i # 0  OBVIOUS
  <2> QED  BY <1>2, <2>1
<1>5. \A i \in 0..n : f[i] \in C
  <2>1. \A i \in 1..n : f[i - 1] \in C => f[i] \in C  BY <1>4
  <2> QED  BY <1>3, <2>1, IteratesStay
<1>6. f \in [0..n -> C]  BY <1>2, <1>5
<1> QED  BY <1>3, <1>4, <1>6 DEF Iterable

CacheEntry == [token : Listable, meta : Metas]

LEMMA CacheIs ==
  ASSUME NEW c
  PROVE  c \in Caches <=> /\ c \in Seq(CacheEntry) /\ Len(c) <= Capacity
                          /\ \A i, j \in DOMAIN c : c[i].token = c[j].token => i = j
                          /\ \A i \in DOMAIN c : TrueOf(c[i].token, c[i].meta)
  BY DEF Caches, CacheEntry

\* Moving an entry to the end leaves a cache a cache.
LEMMA TouchedCache ==
  ASSUME NEW c \in Caches, NEW t
  PROVE  Touch(c, t) \in Caches
<1>1. CASE ~Holds(c, t)  BY <1>1 DEF Touch
<1>2. CASE Holds(c, t)
  <2> PICK at : at = CHOOSE i \in DOMAIN c : c[i].token = t  OBVIOUS
  <2>1. at \in DOMAIN c  BY <1>2 DEF Holds
  <2> PICK L : L = Len(c)  OBVIOUS
  <2>2. c \in Seq(CacheEntry) /\ L \in Nat /\ DOMAIN c = 1..L /\ L <= Capacity
    BY CacheIs
  <2>3. \A i, j \in DOMAIN c : c[i].token = c[j].token => i = j  BY CacheIs
  <2>4. \A i \in DOMAIN c : TrueOf(c[i].token, c[i].meta)  BY CacheIs
  <2> DEFINE p(i) == IF i < at THEN i ELSE IF i < L THEN i + 1 ELSE at
  <2> PICK d : d = [i \in DOMAIN c |-> c[p(i)]]  OBVIOUS
  <2>5. Touch(c, t) = d  BY <1>2 DEF Touch
  <2>6. \A i \in 1..L : p(i) \in 1..L  BY <2>1, <2>2
  <2>7. \A i, j \in 1..L : p(i) = p(j) => i = j  BY <2>1, <2>2
  <2> HIDE DEF p
  <2>8. \A i \in 1..L : d[i] = c[p(i)] /\ p(i) \in DOMAIN c  BY <2>2, <2>6
  <2>9. \A i \in 1..L : c[i] \in CacheEntry  BY <2>2, ElementOfSeq
  <2>10. d \in Seq(CacheEntry) /\ Len(d) = L /\ DOMAIN d = 1..L
    <3>1. d \in [1..L -> CacheEntry]  BY <2>2, <2>8, <2>9
    <3> QED  BY <2>2, <3>1
  <2>11. ASSUME NEW i \in DOMAIN d, NEW j \in DOMAIN d, d[i].token = d[j].token PROVE i = j
    <3>1. i \in 1..L /\ j \in 1..L  BY <2>10
    <3>2. p(i) = p(j)  BY <2>3, <2>8, <2>11, <3>1
    <3> QED  BY <2>7, <3>1, <3>2
  <2>12. \A i \in DOMAIN d : TrueOf(d[i].token, d[i].meta)  BY <2>4, <2>8, <2>10
  <2>13. d \in Caches  BY <2>2, <2>10, <2>11, <2>12, CacheIs
  <2> QED  BY <2>5, <2>13
<1> QED  BY <1>1, <1>2

\* Room for a new entry is made before it comes in.
LEMMA InsertedCache ==
  ASSUME NEW c \in Caches, NEW t \in Listable, NEW meta \in Metas, TrueOf(t, meta)
  PROVE  GetOrInsert(c, t, meta) \in Caches
<1>1. CASE Holds(c, t)  BY <1>1, TouchedCache DEF GetOrInsert
<1>2. CASE ~Holds(c, t)
  <2> PICK e : e = [token |-> t, meta |-> meta]  OBVIOUS
  <2> PICK b : b = IF Len(c) = Capacity THEN Tail(c) ELSE c  OBVIOUS
  <2> PICK d : d = Append(b, e)  OBVIOUS
  <2>1. GetOrInsert(c, t, meta) = d  BY <1>2 DEF GetOrInsert
  <2>2. e \in CacheEntry /\ e.token = t /\ e.meta = meta  BY DEF CacheEntry
  <2>3. /\ c \in Seq(CacheEntry) /\ Len(c) \in Nat /\ Len(c) <= Capacity /\ DOMAIN c = 1..Len(c)
        /\ Capacity \in Nat /\ Capacity > 0
    BY CacheIs, AssetAssumption
  <2>4. /\ \A i, j \in DOMAIN c : c[i].token = c[j].token => i = j
        /\ \A i \in DOMAIN c : TrueOf(c[i].token, c[i].meta) /\ c[i].token # t
    BY <1>2, CacheIs DEF Holds
  <2>5. /\ b \in Seq(CacheEntry) /\ Len(b) \in Nat /\ Len(b) < Capacity /\ DOMAIN b = 1..Len(b)
        /\ \A i, j \in DOMAIN b : b[i].token = b[j].token => i = j
        /\ \A i \in DOMAIN b : TrueOf(b[i].token, b[i].meta) /\ b[i].token # t
    <3>1. CASE Len(c) = Capacity
      <4>1. c # <<>> /\ b = Tail(c)  BY <2>3, <3>1
      <4>2. /\ b \in Seq(CacheEntry) /\ Len(b) = Len(c) - 1 /\ DOMAIN b = 1..Len(b)
            /\ \A i \in 1..Len(b) : b[i] = c[i + 1]
        <5>1. /\ Tail(c) \in Seq(CacheEntry) /\ Len(Tail(c)) = Len(c) - 1
              /\ \A i \in 1..Len(Tail(c)) : Tail(c)[i] = c[i + 1]
          BY <2>3, <4>1, HeadTailProperties, Zenon
        <5>2. b \in Seq(CacheEntry)  BY <4>1, <5>1, Zenon
        <5>3. DOMAIN b = 1..Len(b)  BY <5>2
        <5> QED  BY <4>1, <5>1, <5>2, <5>3, Zenon
      <4>3. \A i \in DOMAIN b : i + 1 \in DOMAIN c /\ b[i] = c[i + 1] /\ i \in Nat
        <5> PICK m, D, F : m = Len(c) /\ D = DOMAIN c /\ F = DOMAIN b  OBVIOUS
        <5>1. m \in Nat /\ D = 1..m /\ F = 1..(m - 1)  BY <2>3, <4>2
        <5>2. \A i \in F : i + 1 \in D /\ i \in Nat  BY <5>1
        <5> QED  BY <4>2, <5>2, Zenon
      <4>4. ASSUME NEW i \in DOMAIN b, NEW j \in DOMAIN b, b[i].token = b[j].token PROVE i = j
        <5>1. i + 1 = j + 1  BY <2>4, <4>3, <4>4
        <5> QED  BY <4>3, <5>1
      <4>5. \A i \in DOMAIN b : TrueOf(b[i].token, b[i].meta) /\ b[i].token # t  BY <2>4, <4>3
      <4>6. Len(b) \in Nat /\ Len(b) < Capacity  BY <2>3, <4>1, <4>2, <3>1
      <4> QED  BY <4>2, <4>4, <4>5, <4>6
    <3>2. CASE Len(c) # Capacity
      <4>1. b = c  BY <3>2
      <4>2. Len(c) < Capacity
        <5> PICK m, k : m = Len(c) /\ k = Capacity  OBVIOUS
        <5>1. m \in Nat /\ k \in Nat /\ m <= k /\ m # k  BY <2>3, <3>2, Zenon
        <5>2. m < k  BY <5>1
        <5> QED  BY <5>2, Zenon
      <4> QED  BY <2>3, <2>4, <4>1, <4>2, Zenon
    <3> QED  BY <3>1, <3>2
  <2> PICK n : n = Len(b)  OBVIOUS
  <2>6. /\ d \in Seq(CacheEntry) /\ Len(d) = n + 1 /\ DOMAIN d = 1..(n + 1)
        /\ \A i \in 1..n : d[i] = b[i]
        /\ d[n + 1] = e
    BY <2>2, <2>5, AppendProperties
  <2>7. \A i \in DOMAIN d : i # n + 1 => i \in DOMAIN b /\ d[i] = b[i]  BY <2>5, <2>6
  <2>8. ASSUME NEW i \in DOMAIN d, NEW j \in DOMAIN d, d[i].token = d[j].token PROVE i = j
    <3>1. CASE i = n + 1 /\ j # n + 1  BY <2>2, <2>5, <2>6, <2>7, <2>8, <3>1
    <3>2. CASE j = n + 1 /\ i # n + 1  BY <2>2, <2>5, <2>6, <2>7, <2>8, <3>2
    <3>3. CASE i # n + 1 /\ j # n + 1
      <4>1. i \in DOMAIN b /\ j \in DOMAIN b /\ b[i].token = b[j].token  BY <2>7, <2>8, <3>3
      <4> QED  BY <2>5, <4>1
    <3> QED  BY <3>1, <3>2, <3>3
  <2>9. \A i \in DOMAIN d : TrueOf(d[i].token, d[i].meta)
    <3> TAKE i \in DOMAIN d
    <3>1. CASE i = n + 1  BY <2>2, <2>6, <3>1, Zenon
    <3>2. CASE i # n + 1  BY <2>5, <2>7, <3>2, Zenon
    <3> QED  BY <3>1, <3>2
  <2>10. Len(d) <= Capacity
    <3> PICK m, k : m = Len(d) /\ k = Capacity  OBVIOUS
    <3>1. n \in Nat /\ k \in Nat /\ n < k /\ m = n + 1  BY <2>3, <2>5, <2>6, Zenon
    <3>2. m <= k  BY <3>1
    <3> QED  BY <3>2, Zenon
  <2> QED  BY <2>1, <2>6, <2>8, <2>9, <2>10, CacheIs
<1> QED  BY <1>1, <1>2

\* The task works through the assets of a message one after the other.
LEMMA LookedUpCache ==
  ASSUME NEW assets \in Seq(Listable), lru \in Caches
  PROVE  AfterLookup(assets) \in Caches
<1> PICK start, N : start = lru /\ N = Len(assets)  OBVIOUS
<1> DEFINE Step(i, c) == IF assets[i] = Native \/ PinnedNow(assets[i]) THEN c ELSE Touch(c, assets[i])
           after == CHOOSE g : g = [i \in 0..N |-> IF i = 0 THEN start ELSE Step(i, g[i - 1])]
<1>1. AfterLookup(assets) = after[N]  BY DEF AfterLookup
<1>2. N \in Nat  OBVIOUS
<1>3. \A i \in 1..N : \A c \in Caches : Step(i, c) \in Caches  BY TouchedCache
<1> HIDE DEF Step
<1>4. after = [i \in 0..N |-> IF i = 0 THEN start ELSE Step(i, after[i - 1])]
  <2> PICK C : C = Caches  OBVIOUS
  <2> PICK steps : steps = [i \in 1..N |-> [c \in C |-> Step(i, c)]]  OBVIOUS
  <2>1. \A i \in 1..N : \A c \in C : steps[i][c] = Step(i, c)  OBVIOUS
  <2>2. PICK f \in [0..N -> C] : f[0] = start /\ \A i \in 1..N : f[i] = steps[i][f[i - 1]]
    <3>1. \A i \in 1..N : \A c \in C : steps[i][c] \in C  BY <1>3, <2>1
    <3>2. start \in C  OBVIOUS
    <3>3. Iterable(C, N, start, steps)  BY <1>2, <3>1, <3>2, IteratesWithin, Zenon
    <3> QED  BY <3>3 DEF Iterable
  <2>3. \A i \in 0..N : i # 0 => i \in 1..N /\ i - 1 \in 0..N  BY <1>2
  <2>4. \A i \in 0..N : f[i] = IF i = 0 THEN start ELSE Step(i, f[i - 1])  BY <2>1, <2>2, <2>3
  <2>5. f = [i \in 0..N |-> IF i = 0 THEN start ELSE Step(i, f[i - 1])]
    <3>1. f = [i \in 0..N |-> f[i]]  BY <2>2
    <3> QED  BY <2>2, <2>4, <3>1
  <2> QED  BY <2>5
<1> HIDE DEF after
<1>5. after[0] \in Caches /\ \A i \in 1..N : after[i - 1] \in Caches => after[i] \in Caches
  BY <1>2, <1>3, <1>4
<1>6. \A i \in 0..N : after[i] \in Caches  BY <1>2, <1>5, IteratesStay
<1> QED  BY <1>1, <1>2, <1>6

LEMMA UpdatedCache ==
  ASSUME NEW tokens \in Seq(Listable), NEW metas, TrueMetas(metas), lru \in Caches
  PROVE  AfterUpdate(tokens, metas) \in Caches
<1> PICK start, N : start = lru /\ N = Len(tokens)  OBVIOUS
<1> DEFINE Step(i, c) == IF tokens[i] \in PinnedErc20s \/ tokens[i] \notin DOMAIN metas THEN c
                         ELSE GetOrInsert(c, tokens[i], metas[tokens[i]])
           after == CHOOSE g : g = [i \in 0..N |-> IF i = 0 THEN start ELSE Step(i, g[i - 1])]
<1>1. AfterUpdate(tokens, metas) = after[N]  BY DEF AfterUpdate
<1>2. N \in Nat  OBVIOUS
<1>3. \A i \in 1..N : \A c \in Caches : Step(i, c) \in Caches  BY InsertedCache DEF TrueMetas
<1> HIDE DEF Step
<1>4. after = [i \in 0..N |-> IF i = 0 THEN start ELSE Step(i, after[i - 1])]
  <2> PICK C : C = Caches  OBVIOUS
  <2> PICK steps : steps = [i \in 1..N |-> [c \in C |-> Step(i, c)]]  OBVIOUS
  <2>1. \A i \in 1..N : \A c \in C : steps[i][c] = Step(i, c)  OBVIOUS
  <2>2. PICK f \in [0..N -> C] : f[0] = start /\ \A i \in 1..N : f[i] = steps[i][f[i - 1]]
    <3>1. \A i \in 1..N : \A c \in C : steps[i][c] \in C  BY <1>3, <2>1
    <3>2. start \in C  OBVIOUS
    <3>3. Iterable(C, N, start, steps)  BY <1>2, <3>1, <3>2, IteratesWithin, Zenon
    <3> QED  BY <3>3 DEF Iterable
  <2>3. \A i \in 0..N : i # 0 => i \in 1..N /\ i - 1 \in 0..N  BY <1>2
  <2>4. \A i \in 0..N : f[i] = IF i = 0 THEN start ELSE Step(i, f[i - 1])  BY <2>1, <2>2, <2>3
  <2>5. f = [i \in 0..N |-> IF i = 0 THEN start ELSE Step(i, f[i - 1])]
    <3>1. f = [i \in 0..N |-> f[i]]  BY <2>2
    <3> QED  BY <2>2, <2>4, <3>1
  <2> QED  BY <2>5
<1> HIDE DEF after
<1>5. after[0] \in Caches /\ \A i \in 1..N : after[i - 1] \in Caches => after[i] \in Caches
  BY <1>2, <1>3, <1>4
<1>6. \A i \in 0..N : after[i] \in Caches  BY <1>2, <1>5, IteratesStay
<1> QED  BY <1>1, <1>2, <1>6


\* What is true of the tokens that exist stays true: tokens only come into being.
LEMMA TruthStays ==
  ASSUME deployed \subseteq deployed'
  PROVE  /\ \A a, m : TrueOf(a, m) => TrueOf(a, m)'
         /\ \A metas : TrueMetas(metas) => TrueMetas(metas)'
         /\ \A msg : MessageOK(msg) => MessageOK(msg)'
         /\ \A c : c \in Caches => c \in Caches'
         /\ \A r, q : InquiryOK(r, q) => InquiryOK(r, q)'
<1>1. \A a, m : TrueOf(a, m) => TrueOf(a, m)'  BY DEF TrueOf
<1>2. \A metas : TrueMetas(metas) => TrueMetas(metas)'  BY <1>1 DEF TrueMetas, Listable, Metas
<1>3. \A msg : MessageOK(msg) => MessageOK(msg)'  BY <1>2 DEF MessageOK, Listable
<1>4. \A c : c \in Caches => c \in Caches'  BY <1>1 DEF Caches, Listable, Metas
<1>5. \A r, q : InquiryOK(r, q) => InquiryOK(r, q)'  BY <1>2 DEF InquiryOK, Listable
<1> QED  BY <1>1, <1>2, <1>3, <1>4, <1>5

\* A sequence is one of its own elements.
OfItsOwn(s) == s \in Seq({s[i] : i \in DOMAIN s}) /\ DOMAIN s = 1..Len(s)

LEMMA OwnElements ==
  ASSUME NEW S, NEW s \in Seq(S)
  PROVE  OfItsOwn(s)
<1>1. Len(s) \in Nat /\ DOMAIN s = 1..Len(s)  OBVIOUS
<1>2. s \in [1..Len(s) -> {s[i] : i \in DOMAIN s}]  BY <1>1
<1> QED  BY <1>1, <1>2 DEF OfItsOwn

LEMMA MessagesAfterTail ==
  ASSUME MessagesOK, mailbox # <<>>, mailbox' = Tail(mailbox), deployed \subseteq deployed'
  PROVE  MessagesOK' /\ MessageOK(Head(mailbox))
<1> PICK b, d : b = mailbox /\ d = mailbox'  OBVIOUS
<1> PICK S : S = {b[i] : i \in DOMAIN b}  OBVIOUS
<1>1. b \in Seq(S) /\ b # <<>> /\ d = Tail(b) /\ \A i \in DOMAIN b : MessageOK(b[i])  BY DEF MessagesOK
<1>2. DOMAIN b = 1..Len(b) /\ Len(b) \in Nat /\ Len(b) # 0  BY <1>1
<1>3. /\ d \in Seq(S) /\ Len(d) = Len(b) - 1 /\ \A i \in 1..Len(d) : d[i] = b[i + 1]
  BY <1>1, HeadTailProperties, Zenon
<1>4. d \in Seq({d[i] : i \in DOMAIN d}) /\ DOMAIN d = 1..Len(d)
  <2>1. OfItsOwn(d)  BY <1>3, OwnElements, Zenon
  <2> QED  BY <2>1 DEF OfItsOwn
<1>5. \A i \in DOMAIN d : i + 1 \in DOMAIN b /\ d[i] = b[i + 1]
  <2> PICK m, D, F : m = Len(b) /\ D = DOMAIN b /\ F = DOMAIN d  OBVIOUS
  <2>1. m \in Nat /\ D = 1..m /\ F = 1..(m - 1)  BY <1>2, <1>3, <1>4
  <2>2. \A i \in F : i + 1 \in D  BY <2>1
  <2> QED  BY <1>3, <1>4, <2>2, Zenon
<1>6. \A i \in DOMAIN d : MessageOK(d[i])'  BY <1>1, <1>5, TruthStays, Zenon
<1>7. Head(b) = b[1] /\ 1 \in DOMAIN b  BY <1>1, <1>2
<1> QED  BY <1>1, <1>4, <1>6, <1>7 DEF MessagesOK

LEMMA MessagesAfterAppend ==
  ASSUME MessagesOK, NEW msg, MessageOK(msg), mailbox' = Append(mailbox, msg), deployed \subseteq deployed'
  PROVE  MessagesOK'
<1> PICK b, d : b = mailbox /\ d = mailbox'  OBVIOUS
<1> PICK S : S = {b[i] : i \in DOMAIN b} \cup {msg}  OBVIOUS
<1>1. /\ b \in Seq({b[i] : i \in DOMAIN b}) /\ d = Append(b, msg)
      /\ \A i \in DOMAIN b : MessageOK(b[i])
  BY DEF MessagesOK
<1>2. DOMAIN b = 1..Len(b) /\ Len(b) \in Nat  BY <1>1
<1>3. b \in Seq(S) /\ msg \in S
  <2>1. b \in [1..Len(b) -> S]  BY <1>1, <1>2
  <2> QED  BY <1>2, <2>1
<1>4. d \in Seq(S) /\ Len(d) = Len(b) + 1 /\ d[Len(b) + 1] = msg /\ \A i \in 1..Len(b) : d[i] = b[i]
  BY <1>1, <1>3, AppendProperties
<1>5. d \in Seq({d[i] : i \in DOMAIN d}) /\ DOMAIN d = 1..Len(d)
  <2>1. OfItsOwn(d)  BY <1>4, OwnElements, Zenon
  <2> QED  BY <2>1 DEF OfItsOwn
<1>6. \A i \in DOMAIN d : d[i] = msg \/ (i \in DOMAIN b /\ d[i] = b[i])
  <2> PICK m, D, F : m = Len(b) /\ D = DOMAIN b /\ F = DOMAIN d  OBVIOUS
  <2>1. m \in Nat /\ D = 1..m /\ F = 1..(m + 1)  BY <1>2, <1>4, <1>5
  <2>2. \A i \in F : i = m + 1 \/ i \in D  BY <2>1
  <2> QED  BY <1>2, <1>4, <2>2, Zenon
<1>7. \A i \in DOMAIN d : MessageOK(d[i])'  BY <1>1, <1>6, TruthStays, Zenon
<1> QED  BY <1>1, <1>5, <1>7 DEF MessagesOK

LEMMA RestStays ==
  ASSUME AssetIInv, deployed \subseteq deployed'
  PROVE  /\ mailbox' = mailbox => MessagesOK'
         /\ pinned' = pinned => PinnedOK'
         /\ lru' \in Caches => (lru \in Caches)'
         /\ info' = info => InquiriesOK'
         /\ \A r \in Inquiries : \A q : InquiryOK(r, q) /\ info' = [info EXCEPT ![r] = q] => InquiriesOK'
<1>1. ASSUME mailbox' = mailbox PROVE MessagesOK'
  <2> PICK b : b = mailbox  OBVIOUS
  <2>1. \A i \in DOMAIN b : MessageOK(b[i])  BY DEF AssetIInv, MessagesOK
  <2>2. \A i \in DOMAIN b : MessageOK(b[i])'  BY <2>1, TruthStays, Zenon
  <2> QED  BY <1>1, <2>2 DEF AssetIInv, MessagesOK
<1>2. ASSUME pinned' = pinned PROVE PinnedOK'
  <2>1. \A t \in PinnedErc20s : pinned[t] = "none" \/ (pinned[t] \in Metas /\ TrueOf(t, pinned[t]) /\ TrueOf(t, pinned[t])')
    BY <1>2, TruthStays, Zenon DEF AssetIInv, PinnedOK
  <2> QED  BY <1>2, <2>1 DEF AssetIInv, PinnedOK, Metas
<1>3. lru' \in Caches => (lru \in Caches)'  BY TruthStays, Zenon
<1>4. \A r, q : InquiryOK(r, q) => InquiryOK(r, q)'  BY TruthStays
<1>5. ASSUME info' = info PROVE InquiriesOK'
  BY <1>4, <1>5 DEF AssetIInv, InquiriesOK, Inquiries
<1>6. ASSUME NEW r \in Inquiries, NEW q, InquiryOK(r, q), info' = [info EXCEPT ![r] = q] PROVE InquiriesOK'
  <2>1. DOMAIN info = Inquiries /\ \A s \in Inquiries : InquiryOK(s, info[s])
    BY DEF AssetIInv, InquiriesOK
  <2>2. DOMAIN info' = Inquiries /\ info'[r] = q /\ \A s \in Inquiries : s # r => info'[s] = info[s]
    BY <1>6, <2>1
  <2> PICK old, new : old = info /\ new = info'  OBVIOUS
  <2>3. \A s \in Inquiries : InquiryOK(s, new[s])
    <3> TAKE s \in Inquiries
    <3>1. CASE s = r  BY <1>6, <2>2, <3>1, Zenon
    <3>2. CASE s # r  BY <2>1, <2>2, <3>2, Zenon
    <3> QED  BY <3>1, <3>2
  <2>4. \A s \in Inquiries : InquiryOK(s, new[s])'  BY <1>4, <2>3, Zenon
  <2> QED  BY <2>2, <2>4, Zenon DEF InquiriesOK, Inquiries
<1> QED  BY <1>1, <1>2, <1>3, <1>5, <1>6

LEMMA AssetInitial ==
  ASSUME AssetInit
  PROVE  AssetIInv
<1>1. MessagesOK  BY DEF AssetInit, MessagesOK
<1>2. PinnedOK  BY DEF AssetInit, PinnedOK
<1>3. lru \in Caches
  <2> PICK c : c = lru  OBVIOUS
  <2>1. c = <<>> /\ c \in Seq(CacheEntry) /\ Len(c) = 0 /\ DOMAIN c = {}  BY DEF AssetInit
  <2>2. Len(c) <= Capacity  BY <2>1, AssetAssumption
  <2> QED  BY <2>1, <2>2, CacheIs
<1>4. InquiriesOK
  <2>1. ASSUME NEW r PROVE InquiryOK(r, NoList)
    <3> PICK q : q = NoList  OBVIOUS
    <3>1. /\ DOMAIN q = {"phase", "assets", "creates", "found"} /\ q.phase = "new" /\ q.assets = <<>> /\ q.found = <<>>
      BY DEF NoList
    <3>2. q.assets \in Seq(Listable) /\ ToSet(q.assets) = {} /\ DOMAIN q.found = {}  BY <3>1 DEF ToSet
    <3> QED  BY <3>1, <3>2 DEF InquiryOK, TrueMetas
  <2> QED  BY <2>1 DEF AssetInit, InquiriesOK
<1> QED  BY <1>1, <1>2, <1>3, <1>4 DEF AssetIInv

LEMMA InquireKeeps ==
  ASSUME AssetIInv, NEW r \in Inquiries, NEW assets \in Wanted, NEW creates \in SUBSET Erc20s,
         Inquire(r, assets, creates)
  PROVE  AssetIInv'
<1> PICK q : q = [phase |-> "asked", assets |-> assets, creates |-> creates, found |-> <<>>]  OBVIOUS
<1> PICK msg : msg = [kind |-> "lookup", r |-> r]  OBVIOUS
<1>1. /\ info' = [info EXCEPT ![r] = q] /\ mailbox' = Append(mailbox, msg)
      /\ deployed' = deployed /\ pinned' = pinned /\ lru' = lru
      /\ (r \in Diffs => ToSet(assets) \cap Erc20s \subseteq deployed \cup creates)
  BY Zenon DEF Inquire
<1>2. /\ DOMAIN q = {"phase", "assets", "creates", "found"} /\ q.phase = "asked" /\ q.assets = assets
      /\ q.creates = creates /\ q.found = <<>> /\ DOMAIN q.found = {} /\ msg.kind = "lookup" /\ msg.r = r
  OBVIOUS
<1>3. InquiryOK(r, q)
  <2>1. assets \in Seq(Listable)  BY AssetAssumption DEF Listable, Native
  <2> QED  BY <1>1, <1>2, <2>1 DEF InquiryOK, TrueMetas
<1>4. MessageOK(msg)  BY <1>2 DEF MessageOK
<1>5. deployed \subseteq deployed'  BY <1>1
<1>6. MessagesOK'  BY <1>1, <1>4, <1>5, MessagesAfterAppend DEF AssetIInv
<1>7. PinnedOK' /\ (lru \in Caches)' /\ InquiriesOK'  BY <1>1, <1>3, <1>5, RestStays DEF AssetIInv
<1> QED  BY <1>6, <1>7 DEF AssetIInv

LEMMA DeployKeeps ==
  ASSUME AssetIInv, NEW t, Deploy(t)
  PROVE  AssetIInv'
<1>1. deployed \subseteq deployed' /\ mailbox' = mailbox /\ pinned' = pinned /\ lru' = lru /\ info' = info
  BY DEF Deploy
<1> QED  BY <1>1, RestStays DEF AssetIInv

LEMMA FailureKeeps ==
  ASSUME AssetIInv, NEW r \in Inquiries, QueryFails(r)
  PROVE  AssetIInv'
<1> PICK old, q : old = info[r] /\ q = [old EXCEPT !.phase = "failed"]  OBVIOUS
<1>1. /\ info' = [info EXCEPT ![r] = q] /\ (old.phase = "listed" \/ old.phase = "answered")
      /\ deployed' = deployed /\ mailbox' = mailbox /\ pinned' = pinned /\ lru' = lru
  BY DEF QueryFails
<1>2. InquiryOK(r, old)  BY DEF AssetIInv, InquiriesOK
<1>3. DOMAIN old = {"phase", "assets", "creates", "found"}  BY <1>2 DEF InquiryOK
<1>4. /\ DOMAIN q = {"phase", "assets", "creates", "found"} /\ q.phase = "failed" /\ q.assets = old.assets
      /\ q.creates = old.creates /\ q.found = old.found
  BY <1>3
<1>5. InquiryOK(r, q)  BY <1>1, <1>2, <1>4 DEF InquiryOK
<1>6. deployed \subseteq deployed'  BY <1>1
<1> QED  BY <1>1, <1>5, <1>6, RestStays DEF AssetIInv

\* The answer has what was found and what was missing.
Merged(found, metas, all) ==
  /\ DOMAIN all = DOMAIN found \cup DOMAIN metas
  /\ TrueMetas(found) /\ TrueMetas(metas) => TrueMetas(all)
  /\ \A a \in DOMAIN found \cup DOMAIN metas : all[a] = IF a \in DOMAIN metas THEN metas[a] ELSE found[a]

LEMMA MergedMetas ==
  ASSUME NEW found, NEW metas
  PROVE  Merged(found, metas, Merge(found, metas))
  BY DEF Merge, TrueMetas, Merged

LEMMA GotInfo ==
  ASSUME NEW tokens, tokens \subseteq Erc20s
  PROVE  DOMAIN GetInfo(tokens, deployed) = tokens /\ TrueMetas(GetInfo(tokens, deployed))
<1>1. \A t \in tokens : Contract[t] \in Metas /\ t \in Listable  BY AssetAssumption DEF Listable
<1>2. "empty" \in Metas  BY DEF Metas
<1> QED  BY <1>1, <1>2 DEF GetInfo, TrueMetas, TrueOf

LEMMA ListedSet ==
  ASSUME NEW s \in Seq(Listable)
  PROVE  ToSet(s) \subseteq Listable
<1>1. \A i \in DOMAIN s : s[i] \in Listable  BY ElementOfSeq
<1> QED  BY <1>1 DEF ToSet

\* What is missing is read, and then all assets have metadata.
LEMMA FetchMissingKeeps ==
  ASSUME AssetIInv, NEW r \in Inquiries, FetchMissing(r)
  PROVE  AssetIInv'
<1> PICK next : next = IF r \in Diffs THEN "listed" ELSE "done"  OBVIOUS
<1>0. (next = "listed" /\ r \in Diffs) \/ (next = "done" /\ r \notin Diffs)
  <2>1. CASE r \in Diffs  BY <2>1, Zenon
  <2>2. CASE r \notin Diffs  BY <2>2, Zenon
  <2> QED  BY <2>1, <2>2
<1> PICK old : old = info[r]  OBVIOUS
<1> PICK missing : missing = ToSet(old.assets) \ DOMAIN old.found  OBVIOUS
<1> PICK metas : metas = GetInfo(missing, deployed)  OBVIOUS
<1> PICK msg : msg = [kind |-> "update", tokens |-> old.assets, metas |-> metas]  OBVIOUS
<1>1. InquiryOK(r, old)  BY DEF AssetIInv, InquiriesOK
<1>2. old.phase = "answered" /\ deployed' = deployed /\ pinned' = pinned /\ lru' = lru
  BY DEF FetchMissing
<1>3. /\ DOMAIN old = {"phase", "assets", "creates", "found"} /\ old.assets \in Seq(Listable)
      /\ DOMAIN old.found \subseteq ToSet(old.assets) /\ TrueMetas(old.found)
      /\ (r \in Diffs => ToSet(old.assets) \cap Erc20s \subseteq deployed \cup old.creates)
      /\ ToSet(old.assets) \ DOMAIN old.found \subseteq Erc20s
  BY <1>1, <1>2 DEF InquiryOK
<1>4. missing \subseteq Erc20s  BY <1>3
<1>5. deployed \subseteq deployed'  BY <1>2
<1>6. CASE missing = {}
  <2> PICK q : q = [old EXCEPT !.phase = next]  OBVIOUS
  <2>1. info' = [info EXCEPT ![r] = q] /\ mailbox' = mailbox  BY <1>6 DEF FetchMissing
  <2>2. /\ DOMAIN q = {"phase", "assets", "creates", "found"} /\ q.phase = next /\ q.assets = old.assets
        /\ q.creates = old.creates /\ q.found = old.found
    BY <1>3
  <2>3. DOMAIN q.found = ToSet(q.assets)  BY <1>3, <1>6, <2>2
  <2>4. InquiryOK(r, q)  BY <1>0, <1>3, <2>2, <2>3 DEF InquiryOK
  <2> QED  BY <1>2, <1>5, <2>1, <2>4, RestStays DEF AssetIInv
<1>7. CASE missing # {}
  <2> PICK all : all = Merge(old.found, metas)  OBVIOUS
  <2> PICK q : q = [old EXCEPT !.phase = next, !.found = all]  OBVIOUS
  <2>1. info' = [info EXCEPT ![r] = q] /\ mailbox' = Append(mailbox, msg)
    BY <1>7 DEF FetchMissing
  <2>2. /\ DOMAIN q = {"phase", "assets", "creates", "found"} /\ q.phase = next /\ q.assets = old.assets
        /\ q.creates = old.creates /\ q.found = all
    BY <1>3
  <2>3. DOMAIN metas = missing /\ TrueMetas(metas)  BY <1>4, GotInfo
  <2>4. DOMAIN all = ToSet(old.assets) /\ TrueMetas(all)
    <3>1. DOMAIN all = DOMAIN old.found \cup missing /\ TrueMetas(all)
      <4>1. Merged(old.found, metas, all)  BY MergedMetas, Zenon
      <4> QED  BY <1>3, <2>3, <4>1, Zenon DEF Merged
    <3> QED  BY <1>3, <3>1
  <2>5. InquiryOK(r, q)  BY <1>0, <1>3, <2>2, <2>4 DEF InquiryOK
  <2>6. msg.kind = "update" /\ msg.tokens = old.assets /\ msg.metas = metas  OBVIOUS
  <2>7. MessageOK(msg)  BY <1>3, <2>3, <2>6 DEF MessageOK
  <2>8. MessagesOK'  BY <1>5, <2>1, <2>7, MessagesAfterAppend DEF AssetIInv
  <2> QED  BY <1>2, <1>5, <2>1, <2>5, <2>8, RestStays DEF AssetIInv
<1> QED  BY <1>6, <1>7

\* What was without metadata before the transaction has it after the transaction.
LEMMA FetchUndeployedKeeps ==
  ASSUME AssetIInv, NEW r \in Inquiries, FetchUndeployed(r)
  PROVE  AssetIInv'
<1> PICK old : old = info[r]  OBVIOUS
<1> PICK fresh : fresh = {a \in ToSet(old.assets) : a # Native /\ ~HasSymbol(old.found[a])}  OBVIOUS
<1> PICK exist : exist = deployed \cup old.creates  OBVIOUS
<1> PICK metas : metas = GetInfo(fresh, exist)  OBVIOUS
<1> PICK all : all = Merge(old.found, metas)  OBVIOUS
<1> PICK q : q = [old EXCEPT !.phase = "done", !.found = all]  OBVIOUS
<1>1. InquiryOK(r, old)  BY DEF AssetIInv, InquiriesOK
<1>2. /\ old.phase = "listed" /\ deployed' = deployed /\ mailbox' = mailbox /\ pinned' = pinned /\ lru' = lru
      /\ info' = [info EXCEPT ![r] = q]
  BY DEF FetchUndeployed
<1>3. /\ DOMAIN old = {"phase", "assets", "creates", "found"} /\ old.assets \in Seq(Listable)
      /\ DOMAIN old.found = ToSet(old.assets) /\ TrueMetas(old.found) /\ r \in Diffs
      /\ ToSet(old.assets) \cap Erc20s \subseteq exist
  BY <1>1, <1>2 DEF InquiryOK
<1>4. ToSet(old.assets) \subseteq Listable  BY <1>3, ListedSet
<1>5. /\ DOMAIN q = {"phase", "assets", "creates", "found"} /\ q.phase = "done" /\ q.assets = old.assets
      /\ q.creates = old.creates /\ q.found = all
  BY <1>3
<1>6. \A a \in fresh : a \in Erc20s /\ a \in exist  BY <1>3, <1>4 DEF Listable
<1>7. DOMAIN metas = fresh /\ \A a \in fresh : metas[a] = Contract[a]  BY <1>6 DEF GetInfo
<1>8. /\ DOMAIN all = ToSet(old.assets)
      /\ \A a \in ToSet(old.assets) : all[a] = IF a \in fresh THEN metas[a] ELSE old.found[a]
  <2>1. /\ DOMAIN all = DOMAIN old.found \cup DOMAIN metas
        /\ \A a \in DOMAIN old.found \cup DOMAIN metas : all[a] = IF a \in DOMAIN metas THEN metas[a] ELSE old.found[a]
    <3>1. Merged(old.found, metas, all)  BY MergedMetas, Zenon
    <3> QED  BY <3>1, Zenon DEF Merged
  <2>2. fresh \subseteq ToSet(old.assets)  OBVIOUS
  <2>3. DOMAIN old.found \cup DOMAIN metas = ToSet(old.assets)  BY <1>3, <1>7, <2>2, Zenon
  <2>4. DOMAIN metas = fresh  BY <1>7
  <2>5. DOMAIN all = ToSet(old.assets)  BY <2>1, <2>3, Zenon
  <2>6. \A a \in ToSet(old.assets) : all[a] = IF a \in DOMAIN metas THEN metas[a] ELSE old.found[a]
    BY <2>1, <2>3, Zenon
  <2> QED  BY <2>4, <2>5, <2>6, Zenon
<1>9. ASSUME NEW a \in ToSet(old.assets), a # Native PROVE all[a] = Contract[a]
  <2>1. CASE a \in fresh
    <3>1. all[a] = metas[a]  BY <1>8, <2>1, Zenon
    <3>2. metas[a] = Contract[a]  BY <1>7, <2>1
    <3> QED  BY <3>1, <3>2
  <2>2. CASE a \notin fresh
    <3>1. old.found[a] # "empty"  BY <1>9, <2>2 DEF HasSymbol
    <3>2. TrueOf(a, old.found[a])  BY <1>3 DEF TrueMetas
    <3>3. old.found[a] = Contract[a]  BY <1>9, <3>1, <3>2 DEF TrueOf
    <3>4. all[a] = old.found[a]  BY <1>8, <2>2, Zenon
    <3> QED  BY <3>3, <3>4
  <2> QED  BY <2>1, <2>2
<1>10. \A a \in DOMAIN all \ {Native} : all[a] = Contract[a]  BY <1>8, <1>9
<1>11. InquiryOK(r, q)  BY <1>3, <1>5, <1>8, <1>10 DEF InquiryOK
<1>12. deployed \subseteq deployed'  BY <1>2
<1> QED  BY <1>2, <1>11, <1>12, RestStays DEF AssetIInv

\* What the task knows of an asset is true.
LEMMA KnownIsTrue ==
  ASSUME AssetIInv, NEW a \in Listable, NEW m \in Known(a)
  PROVE  m \in Metas /\ TrueOf(a, m)
<1>1. CASE a = Native  BY <1>1 DEF Known, Metas, TrueOf
<1>2. CASE a # Native /\ PinnedNow(a)
  <2>1. m = pinned[a] /\ a \in PinnedErc20s /\ pinned[a] # "none"  BY <1>2 DEF Known, PinnedNow
  <2> QED  BY <2>1 DEF AssetIInv, PinnedOK
<1>3. CASE a # Native /\ ~PinnedNow(a)
  <2> PICK c : c = lru  OBVIOUS
  <2>1. PICK i \in DOMAIN c : c[i].token = a /\ m = c[i].meta  BY <1>3 DEF Known
  <2>2. c \in Seq(CacheEntry) /\ TrueOf(c[i].token, c[i].meta)  BY CacheIs DEF AssetIInv
  <2>3. c[i] \in CacheEntry  BY <2>2, ElementOfSeq
  <2> QED  BY <2>1, <2>2, <2>3 DEF CacheEntry
<1> QED  BY <1>1, <1>2, <1>3

LEMMA LookupKeeps ==
  ASSUME AssetIInv, NEW msg, MessageOK(msg), LookupAssets(msg), deployed' = deployed, MessagesOK'
  PROVE  AssetIInv'
<1> PICK r : r = msg.r  OBVIOUS
<1> PICK old : old = info[r]  OBVIOUS
<1> PICK known : known = {a \in ToSet(old.assets) : Known(a) # {}}  OBVIOUS
<1> PICK found : found = [a \in known |-> CHOOSE m \in Known(a) : TRUE]  OBVIOUS
<1> PICK q : q = [old EXCEPT !.phase = "answered", !.found = found]  OBVIOUS
<1>1. /\ info' = [info EXCEPT ![r] = q] /\ lru' = AfterLookup(old.assets) /\ pinned' = pinned
      /\ msg.kind = "lookup"
  BY DEF LookupAssets
<1>2. r \in Inquiries  BY <1>1 DEF MessageOK
<1>3. InquiryOK(r, old)  BY <1>2 DEF AssetIInv, InquiriesOK
<1>4. /\ DOMAIN old = {"phase", "assets", "creates", "found"} /\ old.assets \in Seq(Listable)
      /\ (r \in Diffs => ToSet(old.assets) \cap Erc20s \subseteq deployed \cup old.creates)
  BY <1>3 DEF InquiryOK
<1>5. ToSet(old.assets) \subseteq Listable  BY <1>4, ListedSet
<1>6. /\ DOMAIN q = {"phase", "assets", "creates", "found"} /\ q.phase = "answered" /\ q.assets = old.assets
      /\ q.creates = old.creates /\ q.found = found
  BY <1>4
<1>7. /\ DOMAIN found = known /\ known \subseteq ToSet(old.assets)
      /\ ToSet(old.assets) \ known \subseteq Erc20s
  <2>1. Known(Native) # {}  BY DEF Known
  <2> QED  BY <1>5, <2>1 DEF Listable
<1>8. TrueMetas(found)
  <2>1. ASSUME NEW a \in DOMAIN found PROVE a \in Listable /\ found[a] \in Metas /\ TrueOf(a, found[a])
    <3>1. a \in Listable /\ Known(a) # {} /\ a \in known  BY <1>5, <1>7
    <3>2. found[a] \in Known(a)
      <4>1. (CHOOSE m \in Known(a) : TRUE) \in Known(a)  BY <3>1, Zenon
      <4>2. found[a] = CHOOSE m \in Known(a) : TRUE  BY <3>1, Zenon
      <4> QED  BY <4>1, <4>2
    <3> QED  BY <3>1, <3>2, KnownIsTrue
  <2> QED  BY <2>1 DEF TrueMetas
<1>9. InquiryOK(r, q)  BY <1>4, <1>6, <1>7, <1>8 DEF InquiryOK
<1>10. lru' \in Caches  BY <1>1, <1>4, LookedUpCache DEF AssetIInv
<1>11. deployed \subseteq deployed'  OBVIOUS
<1> QED  BY <1>1, <1>2, <1>9, <1>10, <1>11, RestStays DEF AssetIInv

LEMMA UpdateKeeps ==
  ASSUME AssetIInv, NEW msg, MessageOK(msg), UpdateAssets(msg), deployed' = deployed, MessagesOK'
  PROVE  AssetIInv'
<1> PICK metas, tokens : metas = msg.metas /\ tokens = msg.tokens  OBVIOUS
<1>1. /\ pinned' = [t \in PinnedErc20s |-> IF t \in DOMAIN metas THEN metas[t] ELSE pinned[t]]
      /\ lru' = AfterUpdate(tokens, metas) /\ info' = info /\ msg.kind = "update"
  BY DEF UpdateAssets
<1>2. tokens \in Seq(Listable) /\ TrueMetas(metas)  BY <1>1 DEF MessageOK
<1>3. lru' \in Caches  BY <1>1, <1>2, UpdatedCache DEF AssetIInv
<1>4. PinnedOK'
  <2> PICK new : new = pinned'  OBVIOUS
  <2>1. DOMAIN new = PinnedErc20s  BY <1>1
  <2>2. \A t \in PinnedErc20s : new[t] = "none" \/ (new[t] \in Metas /\ TrueOf(t, new[t]))
    <3> TAKE t \in PinnedErc20s
    <3>1. CASE t \in DOMAIN metas
      <4>1. new[t] = metas[t]  BY <1>1, <3>1
      <4> QED  BY <1>2, <3>1, <4>1 DEF TrueMetas
    <3>2. CASE t \notin DOMAIN metas
      <4>1. new[t] = pinned[t]  BY <1>1, <3>2
      <4> QED  BY <4>1 DEF AssetIInv, PinnedOK
    <3> QED  BY <3>1, <3>2
  <2>3. \A a, m : TrueOf(a, m) => TrueOf(a, m)'  BY TruthStays
  <2> QED  BY <2>1, <2>2, <2>3, Zenon DEF PinnedOK, Metas
<1>5. deployed \subseteq deployed'  OBVIOUS
<1> QED  BY <1>1, <1>3, <1>4, <1>5, RestStays DEF AssetIInv

LEMMA ServeKeeps ==
  ASSUME AssetIInv, ServeMessage
  PROVE  AssetIInv'
<1> PICK msg : msg = Head(mailbox)  OBVIOUS
<1>1. /\ mailbox # <<>> /\ mailbox' = Tail(mailbox) /\ deployed' = deployed
      /\ (LookupAssets(msg) \/ UpdateAssets(msg))
  BY DEF ServeMessage
<1>2. MessagesOK' /\ MessageOK(msg)  BY <1>1, MessagesAfterTail DEF AssetIInv
<1> QED  BY <1>1, <1>2, LookupKeeps, UpdateKeeps

LEMMA AssetStep ==
  ASSUME AssetIInv, [AssetNext]_assetVars
  PROVE  AssetIInv'
<1>1. CASE ServeMessage  BY <1>1, ServeKeeps
<1>2. CASE \E t \in Erc20s : Deploy(t)  BY <1>2, DeployKeeps
<1>3. ASSUME NEW r \in Inquiries, NEW assets \in Wanted, NEW creates \in SUBSET Erc20s, Inquire(r, assets, creates)
      PROVE  AssetIInv'
  BY <1>3, InquireKeeps
<1>4. ASSUME NEW r \in Inquiries, FetchMissing(r) \/ FetchUndeployed(r) \/ QueryFails(r)
      PROVE  AssetIInv'
  BY <1>4, FetchMissingKeeps, FetchUndeployedKeeps, FailureKeeps
<1>5. CASE UNCHANGED assetVars
  <2>1. deployed' = deployed /\ mailbox' = mailbox /\ pinned' = pinned /\ lru' = lru /\ info' = info
    BY <1>5 DEF assetVars
  <2>2. deployed \subseteq deployed'  BY <2>1
  <2> QED  BY <2>1, <2>2, RestStays DEF AssetIInv
<1> QED  BY <1>1, <1>2, <1>3, <1>4, <1>5 DEF AssetNext

LEMMA AssetIInvTells ==
  ASSUME AssetIInv
  PROVE  AssetsAnswered
<1>1. Len(lru) <= Capacity /\ \A i, j \in DOMAIN lru : lru[i].token = lru[j].token => i = j
  BY CacheIs DEF AssetIInv
<1>2. ASSUME NEW r \in Inquiries, info[r].phase = "done"
      PROVE  /\ DOMAIN info[r].found = ToSet(info[r].assets)
             /\ \A a \in DOMAIN info[r].found \ {Native} :
                  \/ info[r].found[a] = Contract[a] /\ (r \in Diffs \/ a \in deployed)
                  \/ info[r].found[a] = "empty" /\ r \notin Diffs
  <2> PICK q : q = info[r]  OBVIOUS
  <2>1. InquiryOK(r, q) /\ q.phase = "done"  BY <1>2 DEF AssetIInv, InquiriesOK
  <2>2. DOMAIN q.found = ToSet(q.assets)  BY <2>1 DEF InquiryOK
  <2>3. ASSUME NEW a \in DOMAIN q.found, a # Native
        PROVE  \/ q.found[a] = Contract[a] /\ (r \in Diffs \/ a \in deployed)
               \/ q.found[a] = "empty" /\ r \notin Diffs
    <3>1. CASE r \in Diffs  BY <2>1, <2>3, <3>1 DEF InquiryOK
    <3>2. CASE r \notin Diffs
      <4>1. TrueMetas(q.found)  BY <2>1, <3>2 DEF InquiryOK
      <4> QED  BY <2>3, <3>2, <4>1 DEF TrueMetas, TrueOf
    <3> QED  BY <3>1, <3>2
  <2> QED  BY <2>2, <2>3
<1> QED  BY <1>1, <1>2 DEF AssetsAnswered

\* However requests overlap, and whatever the cache evicts: an answer has metadata
\* for exactly what was asked; what it has of a token is what its contract answers, whichever
\* fields that leaves out, or in a list nothing; a diff has what the contracts answer of all
\* its tokens, those that its transaction creates too; and the cache keeps to its capacity.
THEOREM AssetsAreAnswered == AssetSpec => []AssetsAnswered
<1>1. AssetInit => AssetIInv  BY AssetInitial
<1>2. AssetIInv /\ [AssetNext]_assetVars => AssetIInv'  BY AssetStep
<1>3. AssetIInv => AssetsAnswered  BY AssetIInvTells
<1> QED  BY <1>1, <1>2, <1>3, PTL DEF AssetSpec

==============================================================================
