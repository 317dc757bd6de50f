------------------------------ MODULE Transport ------------------------------
(***************************************************************************)
(* How a transaction reaches the nodes.  A request passes the layers of a  *)
(* chain's provider: the chain id is answered at once, the timeout covers  *)
(* everything below it, a retry repeats the whole submission.  A raw       *)
(* transaction goes to the sequencer and the node together, or to several  *)
(* delegates and to the node only if they fail; anything else to the node. *)
(***************************************************************************)
EXTENDS Integers, FiniteSets

CONSTANTS
  RawDelegates, \* eth_sendRawTransaction delegates
  MaxRetries    \* bound on RETRY_LAYER's retries

VARIABLES
  layer,        \* "sequencer", "delegates" or "plain": the provider's last layer
  rpc,          \* the request: its method, phase and answer
  calls,        \* [endpoint]: the call of this attempt
  received,     \* endpoints that got the request
  accepted,     \* endpoints that answered with a success
  tries         \* retries so far

transportVars == <<layer, rpc, calls, received, accepted, tries>>

Node == "node"
Sequencer == "sequencer"
Endpoints == {Node, Sequencer} \cup RawDelegates
\* A success, an error response of the node and a failure of the transport.
Outcomes == {"ok", "rpc", "err"}
Failed(res) == res \in {"rpc", "err", "none"}

ASSUME DelegatesAssumption == {Node, Sequencer} \cap RawDelegates = {} /\ MaxRetries \in Nat

TransportInit ==
  /\ layer \in {"sequencer", "delegates", "plain"}
  /\ rpc = [method |-> "none", phase |-> "new", res |-> "none"]
  /\ calls = [e \in Endpoints |-> "idle"]
  /\ received = {} /\ accepted = {} /\ tries = 0

\* Whom the last layer calls first.
Targets(method) ==
  IF method # "raw" \/ layer = "plain" THEN {Node}
  ELSE IF layer = "sequencer" THEN {Node, Sequencer} ELSE RawDelegates

Called(es) == [e \in Endpoints |-> IF e \in es THEN "called" ELSE "idle"]

\* ChainIdService answers a chain id itself; everything else goes on.
CallTransport(method) ==
  /\ rpc.phase = "new"
  /\ IF method = "chain_id"
     THEN rpc' = [method |-> method, phase |-> "done", res |-> "ok"] /\ UNCHANGED calls
     ELSE /\ rpc' = [method |-> method, phase |-> "first", res |-> "none"]
          /\ calls' = Called(Targets(method))
  /\ UNCHANGED <<layer, received, accepted, tries>>

\* A call that was made reaches its endpoint, even when nobody waits for it any more.
Receive(e) ==
  /\ calls[e] = "called" \/ (calls[e] = "dropped" /\ e \notin received)
  /\ calls' = [calls EXCEPT ![e] = IF @ = "called" THEN "received" ELSE @]
  /\ received' = received \cup {e}
  /\ UNCHANGED <<layer, rpc, accepted, tries>>

\* Mutant of MulticastAnswer: the first answer is kept.
MulticastAnswerFirst(res, next) == IF res = "none" THEN next ELSE res

\* MulticastService: a failure is replaced by whatever comes next.
MulticastAnswer(res, next) == IF Failed(res) THEN next ELSE res

\* SequencerService: a success ends it, and the first of two failures is returned.
SequencerAnswer(res, next) == IF next = "ok" \/ res = "none" THEN next ELSE res

Awaited(cs) == {e \in Endpoints : cs[e] \in {"called", "received"}}
\* Calls whose future was dropped are no longer answered.
DropCalls(cs) == [e \in Endpoints |-> IF cs[e] \in {"called", "received"} THEN "dropped" ELSE cs[e]]

\* An endpoint answers; without having received the request the transport fails.
EndpointAnswers(e, out) ==
  LET multicast == layer = "delegates" /\ e \in RawDelegates
      cs == [calls EXCEPT ![e] = "answered"]
      res == IF multicast THEN MulticastAnswer(rpc.res, out) ELSE SequencerAnswer(rpc.res, out)
      ended == Awaited(cs) = {} \/ (~multicast /\ out = "ok")
  IN  /\ rpc.phase \in {"first", "fallback"}
      /\ calls[e] = "received" \/ (calls[e] = "called" /\ out = "err")
      /\ calls' = IF ended THEN DropCalls(cs) ELSE cs
      /\ rpc' = [rpc EXCEPT !.res = res,
                                    !.phase = IF ended THEN "answered" ELSE @]
      /\ accepted' = IF out = "ok" THEN accepted \cup {e} ELSE accepted
      /\ UNCHANGED <<layer, received, tries>>

FallsBack ==
  rpc.method = "raw" /\ layer = "delegates" /\ rpc.res = "err" /\ calls[Node] = "idle"

\* EthSendRawDelegateService asks the node after a failure of the transport.
Fallback ==
  /\ rpc.phase = "answered" /\ FallsBack
  /\ calls' = [calls EXCEPT ![Node] = "called"]
  /\ rpc' = [rpc EXCEPT !.phase = "fallback", !.res = "none"]
  /\ UNCHANGED <<layer, received, accepted, tries>>

Finished == rpc.phase = "answered" /\ ~FallsBack

\* RETRY_LAYER repeats a request that was refused.
Retry ==
  /\ Finished /\ rpc.res \in {"rpc", "err"} /\ tries < MaxRetries
  /\ tries' = tries + 1
  /\ calls' = Called(Targets(rpc.method))
  /\ rpc' = [rpc EXCEPT !.phase = "first", !.res = "none"]
  /\ UNCHANGED <<layer, received, accepted>>

ReturnAnswer ==
  /\ Finished
  /\ rpc' = [rpc EXCEPT !.phase = "done"]
  /\ UNCHANGED <<layer, calls, received, accepted, tries>>

\* TimeoutService drops everything below it.
Timeout ==
  /\ rpc.phase \in {"first", "fallback", "answered"}
  /\ rpc' = [rpc EXCEPT !.phase = "timeout", !.res = "none"]
  /\ calls' = DropCalls(calls)
  /\ UNCHANGED <<layer, received, accepted, tries>>

TransportNext ==
  \/ \E method \in {"raw", "other", "chain_id"} : CallTransport(method)
  \/ \E e \in Endpoints : Receive(e) \/ \E out \in Outcomes : EndpointAnswers(e, out)
  \/ Fallback \/ Retry \/ ReturnAnswer \/ Timeout

TransportSpec == TransportInit /\ [][TransportNext]_transportVars

\* The relay hears of a success that any endpoint answered, in whatever order they
\* answer, and of a failure only when nobody accepted the request; the delegates are
\* all asked before a submission is over.  The node is asked about a transaction that is
\* meant for delegates only when none of them accepted it, and a request that is not a
\* transaction goes nowhere else.
SubmissionsAccounted ==
  /\ rpc.phase = "done" /\ rpc.method # "chain_id" => (rpc.res = "ok" <=> accepted # {})
  /\ rpc.method = "raw" /\ layer = "delegates" =>
       /\ calls[Node] # "idle" => accepted \subseteq {Node}
       /\ rpc.phase = "done" => \A e \in RawDelegates : calls[e] = "answered"
  /\ rpc.method = "chain_id" => received = {}
  /\ rpc.method = "other" => received \subseteq {Node}

(***************************************************************************)
(* The inductive invariant behind the theorem about it in RelayProofs      *)
(***************************************************************************)

TransportTypeOK ==
  /\ layer \in {"sequencer", "delegates", "plain"}
  /\ rpc \in [method : {"none", "raw", "other", "chain_id"}, res : Outcomes \cup {"none"},
              phase : {"new", "first", "fallback", "answered", "done", "timeout"}]
  /\ calls \in [Endpoints -> {"idle", "called", "received", "answered", "dropped"}]
  /\ received \subseteq Endpoints /\ accepted \subseteq Endpoints /\ tries \in Nat

\* the answer kept so far is a success if and only if somebody accepted
AnswerTrue ==
  rpc.phase \in {"first", "fallback", "answered", "done"} /\ rpc.method # "chain_id" =>
    (rpc.res = "ok" <=> accepted # {})

\* nobody is called but those the layer is for
OnlyMeant ==
  /\ rpc.phase = "new" => rpc.method = "none"
  /\ rpc.phase = "first" \/ rpc.phase = "fallback" \/ rpc.phase = "answered" => rpc.method \in {"raw", "other"}
  /\ rpc.method \in {"none", "chain_id"} =>
       rpc.phase \in {"new", "done"} /\ received = {} /\ accepted = {} /\ \A e \in Endpoints : calls[e] = "idle"
  /\ rpc.method = "other" => received \subseteq {Node} /\ \A e \in Endpoints \ {Node} : calls[e] = "idle"

\* the delegates are asked together, and the node after all of them
DelegatesFirst ==
  rpc.method = "raw" /\ layer = "delegates" =>
    /\ calls[Sequencer] = "idle"
    /\ rpc.phase = "first" =>
         calls[Node] = "idle" /\ \A e \in RawDelegates : calls[e] \in {"called", "received", "answered"}
    /\ rpc.phase \in {"answered", "fallback", "done"} => \A e \in RawDelegates : calls[e] = "answered"
    /\ calls[Node] # "idle" => accepted \subseteq {Node}

TransportIInv == TransportTypeOK /\ AnswerTrue /\ OnlyMeant /\ DelegatesFirst
==============================================================================
