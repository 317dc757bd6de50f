------------------------------ MODULE RelayCalls ------------------------------
(***************************************************************************)
(* wallet_sendPreparedCalls, wallet_getCallsStatus, wallet_getCallsHistory *)
(* and the faucet.  A set of signed quotes is a bundle, named by the hash  *)
(* of the quotes; sending it again registers more transactions for it.     *)
(***************************************************************************)
EXTENDS Integers, Sequences, SequencesExt, FiniteSets

CONSTANTS
  Bundles,   \* bundles
  Quoted,    \* [b] signed quotes: number of quotes, whether a fee payer
             \* has a quote of its own, whether the user's names a payer, and flaws
  MaxQuotes, \* bound on the quotes of a bundle
  Sends,     \* requests of wallet_sendPreparedCalls
  Faucets    \* requests of wallet_addFaucetFunds

ASSUME CallsAssumption ==
  /\ MaxQuotes \in Nat /\ Sends \cap Faucets = {}
  /\ \A b \in Bundles : Quoted[b].quotes \in 1..MaxQuotes /\ Quoted[b].payer \in BOOLEAN

VARIABLES
  send,      \* [s] request
  ids,       \* [b] rows of bundle_transactions, in order
  txs,       \* [t] row of txs, or nothing; t = <<request, index of the quote>>
  bundle,    \* [s] row of pending_bundles or finished_bundles of the request, or nothing;
             \* "from" is the status before the last, which no row has
  faucet     \* [f] request

callVars == <<send, ids, txs, bundle, faucet>>

None == [at |-> "none"]

\* Index 0 is the quote of the fee payer, the last one is the destination's.
Indices(b) == (IF Quoted[b].payer THEN {0} ELSE {}) \cup 1..Quoted[b].quotes
SourcesOf(b) == 1..(Quoted[b].quotes - 1)
Multi(b) == Quoted[b].quotes > 1 \/ Quoted[b].payer
AllTxs == (Sends \X (0..MaxQuotes)) \cup (Faucets \X {1})

CallsInit ==
  /\ send = [s \in Sends |-> [phase |-> "new"]]
  /\ ids = [b \in Bundles |-> <<>>]
  /\ txs = [t \in AllTxs |-> None]
  /\ bundle = [s \in Sends |-> None]
  /\ faucet = [f \in Faucets |-> [phase |-> "new"]]

\* send_prepared_calls: MissingKey, MissingFeeSignature, UnknownAccountQuote.
Incomplete(b, how) ==
  \/ how.key = "none"
  \/ Quoted[b].quotes = 1 /\ Quoted[b].byOther /\ ~how.feeSig
  \/ Quoted[b].flaw = "unknown account"

\* send_intents: QuoteExpired, QuoteHasDeficits, InvalidQuoteSignature.
Refused(b, how) == how.late \/ Quoted[b].flaw \in {"deficit", "payer deficit", "not ours"}

SendPreparedCalls(s, b, how) ==
  /\ send[s].phase = "new"
  /\ send' = [send EXCEPT ![s] = IF Incomplete(b, how) \/ Refused(b, how) THEN [phase |-> "refused"]
                                 ELSE [phase |-> "preparing", of |-> b, left |-> Indices(b)]]
  /\ UNCHANGED <<ids, txs, bundle, faucet>>

\* prepare_tx of one quote: the quotes of the user concurrently, then the fee payer's.
\* Its last step registers the transaction; an error ends the request.
PrepareTxOf(s, i) ==
  LET b == send[s].of
      left == send[s].left \ {i}
  IN  /\ send[s].phase = "preparing" /\ i \in send[s].left
      /\ i = 0 => send[s].left = {0}
      /\ ids' = [ids EXCEPT ![b] = Append(@, <<s, i>>)]
      /\ send' = [send EXCEPT ![s] = IF left = {} THEN [phase |-> "ready", of |-> b] ELSE [@ EXCEPT !.left = left]]
      /\ UNCHANGED <<txs, bundle, faucet>>
PrepareTxFails(s) ==
  /\ send[s].phase = "preparing"
  /\ send' = [send EXCEPT ![s] = [phase |-> "refused"]]
  /\ UNCHANGED <<ids, txs, bundle, faucet>>

\* Requests whose rows are of bundle b, of either table or of one.
BundleRows(b) == {s \in Sends : bundle[s] # None /\ bundle[s].of = b}
RowsIn(b, table) == {s \in BundleRows(b) : bundle[s].table = table}

\* send_transaction, or send_bundle, whose insert conflicts with a pending row only.
HandOver(s) ==
  LET b == send[s].of
  IN  /\ send[s].phase = "ready"
      /\ \/ /\ ~Multi(b)
            /\ txs' = [txs EXCEPT ![<<s, 1>>] = [at |-> "pending"]]
            /\ send' = [send EXCEPT ![s] = [phase |-> "sent"]] /\ UNCHANGED bundle
         \/ /\ Multi(b) /\ RowsIn(b, "pending") = {}
            /\ bundle' = [bundle EXCEPT ![s] = [of |-> b, at |-> "init", from |-> "init", table |-> "pending"]]
            /\ send' = [send EXCEPT ![s] = [phase |-> "sent"]] /\ UNCHANGED txs
         \/ /\ Multi(b) /\ RowsIn(b, "pending") # {}
            /\ send' = [send EXCEPT ![s] = [phase |-> "refused"]] /\ UNCHANGED <<bundle, txs>>
      /\ UNCHANGED <<ids, faucet>>

\* What the transaction service makes of a transaction.  The calls of an intent can
\* fail although its transaction succeeds; a receipt can be ahead of the chain's head.
TxStep(t) ==
  /\ \/ /\ txs[t].at = "pending"
        /\ \E x \in {[at |-> "inflight"], [at |-> "failed"]} : txs' = [txs EXCEPT ![t] = x]
     \/ /\ txs[t].at = "inflight"
        /\ \/ txs' = [txs EXCEPT ![t] = [at |-> "failed"]]
           \/ \E ok, ahead \in BOOLEAN : txs' = [txs EXCEPT ![t] = [at |-> "confirmed", ok |-> ok, ahead |-> ahead]]
     \/ /\ txs[t].at = "confirmed" /\ txs[t].ahead
        /\ txs' = [txs EXCEPT ![t].ahead = FALSE]
  /\ UNCHANGED <<send, ids, bundle, faucet>>

Succeeded(t) == txs[t].at = "confirmed" /\ txs[t].ok
Ended(t) == txs[t].at \in {"confirmed", "failed"}

\* The interop service with the bundle of request s: fee payer, sources, destination, each
\* after the success of the one before, then the settlement, if there are sources.  A
\* failure before it is refunded first; the settlement may fail although the calls were
\* executed: its transactions, its verification, or the delivery.
BundleStep(s) ==
  LET b == bundle[s].of
      dst == {Quoted[b].quotes}
      To(at) == bundle' = [bundle EXCEPT ![s] = [of |-> b, at |-> at, from |-> bundle[s].at, table |-> "pending"]]
      Ends(at) == To(at) /\ UNCHANGED txs
      Queue(S, at) == To(at) /\ txs' = [t \in AllTxs |-> IF t \in {<<s, i>> : i \in S} THEN [at |-> "pending"] ELSE txs[t]]
      Over(S) == \A i \in S : Ended(<<s, i>>)
      Good(S) == \A i \in S : Succeeded(<<s, i>>)
      AfterPayer == IF SourcesOf(b) = {} THEN Queue(dst, "destination") ELSE Queue(SourcesOf(b), "sources")
  IN  /\ bundle[s] # None
      /\ \/ bundle[s].at = "init" /\ IF Quoted[b].payer THEN Queue({0}, "payer") ELSE AfterPayer
         \/ bundle[s].at = "payer" /\ Over({0}) /\ IF Good({0}) THEN AfterPayer ELSE Ends("failed")
         \/ bundle[s].at = "sources" /\ Over(SourcesOf(b))
            /\ IF Good(SourcesOf(b)) THEN Queue(dst, "destination") ELSE Ends("failed")
         \/ bundle[s].at = "destination" /\ Over(dst)
            /\ Ends(IF ~Good(dst) THEN "failed" ELSE IF SourcesOf(b) = {} THEN "done" ELSE "settlement")
         \/ bundle[s].at = "settlement" /\ (Ends("done") \/ Ends("failed"))
      /\ UNCHANGED <<send, ids, faucet>>

\* move_bundle_to_finished, which fails if the bundle finished before.
MoveBundleToFinished(s) ==
  /\ bundle[s] # None /\ bundle[s].at \in {"done", "failed"} /\ bundle[s].table = "pending"
  /\ RowsIn(bundle[s].of, "finished") = {}
  /\ bundle' = [bundle EXCEPT ![s].table = "finished"]
  /\ UNCHANGED <<send, ids, txs, faucet>>

\* get_bundle_transactions.
Registered(b) == ToSet(ids[b])

\* Mutant of AnyPending: a transaction without a row is not counted.
AnyPendingFlattened(b) == \E t \in Registered(b) : txs[t].at \in {"pending", "inflight"}
AnyPending(b) == \E t \in Registered(b) : txs[t].at \in {"none", "pending", "inflight"}

\* get_calls_status.
GetCallsStatus(b) ==
  LET rows == {txs[t] : t \in Registered(b)}
      receipts == {x \in rows : x.at = "confirmed"}
  IN  IF ids[b] = <<>> THEN "unknown"
      ELSE IF \E x \in rows : x.at = "failed" THEN "failed"
      ELSE IF AnyPending(b) THEN "pending"
      ELSE IF \A x \in receipts : ~x.ok THEN "reverted"
      ELSE IF \E x \in receipts : ~x.ok THEN "partially reverted"
      ELSE IF \E x \in receipts : x.ahead THEN "preconfirmed"
      ELSE "confirmed"

\* get_calls_history: an entry for each row of the bundle, with its status; if it has none,
\* one for each of its transactions that has a row, with the status of the first registered.
HistoryStatuses(b) ==
  LET Code(at) == IF at \in {"done", "confirmed"} THEN "confirmed" ELSE IF at = "failed" THEN "failed" ELSE "pending"
  IN  IF BundleRows(b) # {} THEN {Code(bundle[s].at) : s \in BundleRows(b)}
      ELSE {Code(txs[Head(ids[b])].at) : t \in {t \in Registered(b) : txs[t].at # "none"}}

\* add_faucet_funds.
AddFaucetFunds(f, chain, tokenOk, mints) ==
  /\ faucet[f].phase = "new"
  /\ IF chain = "testnet" /\ tokenOk /\ mints
     THEN /\ faucet' = [faucet EXCEPT ![f] = [phase |-> "waiting"]]
          /\ txs' = [txs EXCEPT ![<<f, 1>>] = [at |-> "pending"]]
     ELSE /\ faucet' = [faucet EXCEPT ![f] = [phase |-> "answered", says |-> "not supported"]]
          /\ UNCHANGED txs
  /\ UNCHANGED <<send, ids, bundle>>
FaucetAnswers(f) ==
  /\ faucet[f].phase = "waiting" /\ Ended(<<f, 1>>)
  /\ faucet' = [faucet EXCEPT ![f] = [phase |-> "answered",
                  says |-> IF txs[<<f, 1>>].at = "confirmed" THEN "successful" ELSE "failed"]]
  /\ UNCHANGED <<send, ids, txs, bundle>>

CallsNext ==
  \/ \E s \in Sends :
       \/ \E b \in Bundles, key \in {"root", "none"}, feeSig \in BOOLEAN, late \in BOOLEAN :
            SendPreparedCalls(s, b, [key |-> key, feeSig |-> feeSig, late |-> late])
       \/ \E i \in 0..MaxQuotes : PrepareTxOf(s, i)
       \/ PrepareTxFails(s) \/ HandOver(s)
  \/ \E s \in Sends, i \in 0..MaxQuotes : TxStep(<<s, i>>)
  \/ \E s \in Sends : BundleStep(s) \/ MoveBundleToFinished(s)

FaucetNext ==
  \E f \in Faucets :
       \/ \E chain \in {"mainnet", "testnet"}, tokenOk \in BOOLEAN, mints \in BOOLEAN : AddFaucetFunds(f, chain, tokenOk, mints)
       \/ FaucetAnswers(f) \/ TxStep(<<f, 1>>)

CallsSpec == CallsInit /\ [][CallsNext \/ FaucetNext]_callVars

\* Requests that registered something for b, and whether one was executed.
Tried(b) == {t[1] : t \in Registered(b)}
Executed(s, b) == \A i \in Indices(b) : Succeeded(<<s, i>>)

\* The calls of b were executed and its settlement failed.
SettlementFailed(b) == \E s \in BundleRows(b) : bundle[s].at = "failed" /\ bundle[s].from = "settlement"

\* wallet_getCallsStatus says confirmed only if every quote of the bundle was executed,
\* whatever requests were made for it, and the history then says failed only if it was the
\* settlement that failed; the history says that a multichain bundle is confirmed only if
\* every quote of it was executed.  For a bundle that was sent once the status is never
\* failed of calls that were all executed, and pending only while something is missing.
StatusesHonest ==
  /\ \A b \in Bundles :
       LET status == GetCallsStatus(b)
           executed == \E s \in Tried(b) : Executed(s, b)
       IN  /\ status \in {"confirmed", "preconfirmed"} =>
                executed /\ ("failed" \in HistoryStatuses(b) => SettlementFailed(b))
           /\ Multi(b) /\ "confirmed" \in HistoryStatuses(b) => executed
           /\ Cardinality(Tried(b)) = 1 /\ status \in {"failed", "pending", "reverted", "partially reverted"} => ~executed
  /\ \A f \in Faucets : faucet[f].phase = "answered" /\ faucet[f].says # "successful" => ~Succeeded(<<f, 1>>)

(***************************************************************************)
(* The inductive invariant behind the theorem about it in RelayProofs      *)
(***************************************************************************)

BundleStages == {"init", "payer", "sources", "destination", "settlement", "done", "failed"}
BundleRow == [of : Bundles, at : BundleStages, from : BundleStages, table : {"pending", "finished"}]

CallsTypeOK ==
  /\ send \in [Sends -> [phase : {"new", "refused", "sent"}] \cup [phase : {"ready"}, of : Bundles]
                       \cup [phase : {"preparing"}, of : Bundles, left : SUBSET (0..MaxQuotes)]]
  /\ ids \in [Bundles -> Seq(Sends \X (0..MaxQuotes))]
  /\ txs \in [AllTxs -> [at : {"none", "pending", "inflight", "failed"}]
                       \cup [at : {"confirmed"}, ok : BOOLEAN, ahead : BOOLEAN]]
  /\ bundle \in [Sends -> {None} \cup BundleRow]
  /\ faucet \in [Faucets -> [phase : {"new", "waiting"}]
                           \cup [phase : {"answered"}, says : {"not supported", "successful", "failed"}]]

Complete(s, b) == \A i \in Indices(b) : <<s, i>> \in Registered(b)

\* a request registers quotes of one bundle, and all of them before it hands over
RequestsRegister ==
  /\ \A b \in Bundles : \A t \in Registered(b) :
       /\ t[2] \in Indices(b) /\ send[t[1]].phase # "new"
       /\ send[t[1]].phase \in {"preparing", "ready"} => send[t[1]].of = b
       /\ \A c \in Bundles : \A u \in Registered(c) : t[1] = u[1] => b = c
  /\ \A s \in Sends :
       /\ send[s].phase = "preparing" =>
            /\ send[s].left \subseteq Indices(send[s].of)
            /\ \A i \in Indices(send[s].of) : i \in send[s].left \/ <<s, i>> \in Registered(send[s].of)
       /\ send[s].phase = "ready" => Complete(s, send[s].of)

\* only what was handed over has a row, and those of a multichain bundle have one of the bundle
RowsOfSent ==
  /\ \A s \in Sends : send[s].phase # "sent" => \A i \in 0..MaxQuotes : txs[<<s, i>>].at = "none"
  /\ \A b \in Bundles : \A t \in Registered(b) : txs[t].at # "none" => Complete(t[1], b) /\ (Multi(b) => bundle[t[1]] # None)

\* the quotes of a bundle that were executed when it has a status
Behind(b, at) ==
  CASE at = "sources" -> Indices(b) \cap {0}
    [] at = "destination" -> Indices(b) \ {Quoted[b].quotes}
    [] at \in {"settlement", "done"} -> Indices(b)
    [] OTHER -> {}

\* a bundle is that of a request, has the status of its transactions, and fails with one
\* of them or with its settlement
RowOfSent(s) ==
  bundle[s] # None =>
    /\ send[s].phase = "sent" /\ Complete(s, bundle[s].of)
    /\ \A i \in Behind(bundle[s].of, bundle[s].at) : Succeeded(<<s, i>>)
    /\ bundle[s].at = "payer" => Quoted[bundle[s].of].payer
    /\ bundle[s].at = "failed" /\ bundle[s].from # "settlement" =>
         \E i \in Indices(bundle[s].of) : Ended(<<s, i>>) /\ ~Succeeded(<<s, i>>)
BundlesOfSent == \A s \in Sends : RowOfSent(s)

FaucetsTold ==
  \A f \in Faucets :
    /\ faucet[f].phase = "new" => txs[<<f, 1>>].at = "none"
    /\ faucet[f].phase = "answered" /\ faucet[f].says = "not supported" => txs[<<f, 1>>].at = "none"
    /\ faucet[f].phase = "answered" /\ faucet[f].says = "failed" => txs[<<f, 1>>].at = "failed"

CallsIInv == CallsTypeOK /\ RequestsRegister /\ RowsOfSent /\ BundlesOfSent /\ FaucetsTold
==============================================================================
