-------------------------------- MODULE Prices -------------------------------
(***************************************************************************)
(* The price oracle: a task that owns the registry of USD prices and       *)
(* answers, in the order in which messages arrive, the updates of the      *)
(* CoinGecko fetcher, the lookups of rates and the recorder of historical  *)
(* prices.  A price is identified with the time at which the feed sampled  *)
(* it, so that a rate tells how old it is.  The clock counts minutes, and  *)
(* they pass between any two steps.                                        *)
(***************************************************************************)
EXTENDS Naturals, Sequences

CONSTANTS
  Uids,       \* asset uids
  CoinOf,     \* [uid]: id of the coin at the feed, after the remapping
  Pricings,   \* requests for a price
  Pairs,      \* pairs of uids that they ask the rate of
  UsdUids,    \* uids that they ask the USD price of
  Responses,  \* sets of coins that the feed may answer for
  RateTtl,    \* rate_ttl
  MaxClock    \* bound on the clock

ASSUME PriceAssumption ==
  /\ RateTtl \in Nat /\ MaxClock \in Nat
  /\ Pairs \subseteq Uids \X Uids /\ UsdUids \subseteq Uids

VARIABLES
  clock,      \* the time
  fetch,      \* the fetcher: when its request began and what the feed answered
  inbox,      \* messages of the oracle's task
  registry,   \* PriceRegistry.usd_prices
  pricing,    \* [p]: a request, its answer and when the oracle gave it
  recorder,   \* phase of the recorder and the minute it records
  historical  \* rows of historical_usd_prices: [<<uid, minute>>] -> price

priceVars == <<clock, fetch, inbox, registry, pricing, recorder, historical>>

Unpriced == [rate |-> 0, timestamp |-> 0, known |-> FALSE]
NoRate == <<>>

PriceInit ==
  /\ clock = 0 /\ inbox = <<>>
  /\ fetch = [phase |-> "idle", timestamp |-> 0, sample |-> 0, has |-> {}, next |-> 0]
  /\ registry = [u \in Uids |-> Unpriced]
  /\ pricing = [p \in Pricings |-> [phase |-> "new", from |-> "none", to |-> "none", rate |-> NoRate, at |-> 0]]
  /\ recorder = [phase |-> "idle", minute |-> 0, next |-> 0, prices |-> <<>>]
  /\ historical = <<>>

-----------------------------------------------------------------------------
(* The fetcher: one request at a time, a failed one ends without an update. *)

\* The interval of a minute starts anew when a request has ended.
FetchOver == [fetch EXCEPT !.phase = "idle", !.next = clock + 1, !.sample = 0, !.has = {}]

\* update_prices: the timestamp is taken before the request leaves.
UpdatePrices ==
  /\ fetch.phase = "idle" /\ clock >= fetch.next
  /\ fetch' = [fetch EXCEPT !.phase = "asked", !.timestamp = clock]
  /\ UNCHANGED <<clock, inbox, registry, pricing, recorder, historical>>

\* The feed samples the prices of the coins it has.
FeedSamples(coins) ==
  /\ fetch.phase = "asked"
  /\ fetch' = [fetch EXCEPT !.phase = "sampled", !.sample = clock, !.has = coins]
  /\ UNCHANGED <<clock, inbox, registry, pricing, recorder, historical>>

\* Mutant of FeedAnswers: the timestamp is that of the response.
FeedAnswersNow ==
  /\ fetch.phase = "sampled"
  /\ inbox' = Append(inbox, [kind |-> "update", timestamp |-> clock, rate |-> fetch.sample,
                             uids |-> {u \in Uids : CoinOf[u] \in fetch.has}])
  /\ fetch' = FetchOver
  /\ UNCHANGED <<clock, registry, pricing, recorder, historical>>

\* The response prices every uid of every coin it names.
FeedAnswers ==
  /\ fetch.phase = "sampled"
  /\ inbox' = Append(inbox, [kind |-> "update", timestamp |-> fetch.timestamp, rate |-> fetch.sample,
                             uids |-> {u \in Uids : CoinOf[u] \in fetch.has}])
  /\ fetch' = FetchOver
  /\ UNCHANGED <<clock, registry, pricing, recorder, historical>>

FeedFails ==
  /\ fetch.phase = "sampled"
  /\ fetch' = FetchOver
  /\ UNCHANGED <<clock, inbox, registry, pricing, recorder, historical>>

-----------------------------------------------------------------------------
(* Requests.  With constant_rate, a testing aid, unset. *)

\* native_conversion_rate: an asset is worth itself, and nobody is asked.
NativeConversionRate(p, from, to) ==
  /\ pricing[p].phase = "new"
  /\ IF from = to
     THEN /\ pricing' = [pricing EXCEPT ![p] = [phase |-> "done", from |-> from, to |-> to,
                                                rate |-> <<clock, clock>>, at |-> clock]]
          /\ UNCHANGED inbox
     ELSE /\ pricing' = [pricing EXCEPT ![p].phase = "asked", ![p].from = from, ![p].to = to]
          /\ inbox' = Append(inbox, [kind |-> "lookup", from |-> from, to |-> to, p |-> p])
  /\ UNCHANGED <<clock, fetch, registry, recorder, historical>>

\* usd_conversion_rate.
UsdConversionRate(p, uid) ==
  /\ pricing[p].phase = "new"
  /\ pricing' = [pricing EXCEPT ![p].phase = "asked", ![p].from = uid, ![p].to = "usd"]
  /\ inbox' = Append(inbox, [kind |-> "usd", from |-> uid, p |-> p])
  /\ UNCHANGED <<clock, fetch, registry, recorder, historical>>

-----------------------------------------------------------------------------
(* The oracle's task takes one message after another. *)

Live(uid) == registry[uid].known /\ clock - registry[uid].timestamp <= RateTtl

InsertUsd(msg) ==
  /\ msg.kind = "update"
  /\ registry' = [u \in Uids |->
       IF u \in msg.uids THEN [rate |-> msg.rate, timestamp |-> msg.timestamp, known |-> TRUE]
       ELSE registry[u]]
  /\ UNCHANGED <<pricing, recorder>>

Lookup(msg) ==
  /\ msg.kind = "lookup"
  /\ pricing' = [pricing EXCEPT ![msg.p] = [@ EXCEPT !.phase = "done", !.at = clock,
       !.rate = IF Live(msg.from) /\ Live(msg.to)
                THEN <<registry[msg.from].rate, registry[msg.to].rate>> ELSE NoRate]]
  /\ UNCHANGED <<registry, recorder>>

LookupUsd(msg) ==
  /\ msg.kind = "usd"
  /\ pricing' = [pricing EXCEPT ![msg.p] = [@ EXCEPT !.phase = "done", !.at = clock,
       !.rate = IF Live(msg.from) THEN <<registry[msg.from].rate>> ELSE NoRate]]
  /\ UNCHANGED <<registry, recorder>>

\* GetAllPrices asks for every price of the registry, however old.
GetAllPrices(msg) ==
  /\ msg.kind = "all"
  /\ recorder' = [recorder EXCEPT !.phase = "told",
       !.prices = [u \in {v \in Uids : registry[v].known} |-> registry[u].rate]]
  /\ UNCHANGED <<registry, pricing>>

TakeMessage ==
  /\ inbox # <<>> /\ inbox' = Tail(inbox)
  /\ LET msg == Head(inbox) IN InsertUsd(msg) \/ Lookup(msg) \/ LookupUsd(msg) \/ GetAllPrices(msg)
  /\ UNCHANGED <<clock, fetch, historical>>

-----------------------------------------------------------------------------
(* The recorder of with_storage, once a minute. *)

RecorderAsks ==
  /\ recorder.phase = "idle" /\ clock >= recorder.next
  /\ recorder' = [recorder EXCEPT !.phase = "asked", !.minute = clock, !.next = clock + 1]
  /\ inbox' = Append(inbox, [kind |-> "all"])
  /\ UNCHANGED <<clock, fetch, registry, pricing, historical>>

\* store_historical_usd_prices overwrites the row of that uid and minute.
StoreHistoricalUsdPrices ==
  LET new == (DOMAIN recorder.prices) \X {recorder.minute}
  IN  /\ recorder.phase = "told"
      /\ recorder' = [recorder EXCEPT !.phase = "idle", !.prices = <<>>]
      /\ historical' = [k \in new \cup DOMAIN historical |->
                          IF k \in new THEN recorder.prices[k[1]] ELSE historical[k]]
      /\ UNCHANGED <<clock, fetch, inbox, registry, pricing>>

StoreFails ==
  /\ recorder.phase = "told"
  /\ recorder' = [recorder EXCEPT !.phase = "idle", !.prices = <<>>]
  /\ UNCHANGED <<clock, fetch, inbox, registry, pricing, historical>>

PriceTick ==
  /\ clock < MaxClock /\ clock' = clock + 1
  /\ UNCHANGED <<fetch, inbox, registry, pricing, recorder, historical>>

PriceNext ==
  \/ UpdatePrices \/ (\E coins \in Responses : FeedSamples(coins)) \/ FeedAnswers \/ FeedFails
  \/ \E p \in Pricings :
       \/ \E pair \in Pairs : NativeConversionRate(p, pair[1], pair[2])
       \/ \E uid \in UsdUids : UsdConversionRate(p, uid)
  \/ TakeMessage \/ RecorderAsks \/ StoreHistoricalUsdPrices \/ StoreFails \/ PriceTick

PriceSpec == PriceInit /\ [][PriceNext]_priceVars

-----------------------------------------------------------------------------
\* read_historical_usd_prices: the row of that minute, or else one at the least
\* distance within the tolerance of five minutes.
ReadHistoricalUsdPrices(uid, minute) ==
  LET Distance(k) == IF k[2] > minute THEN k[2] - minute ELSE minute - k[2]
      near == {k \in DOMAIN historical : k[1] = uid /\ Distance(k) <= 5}
  IN  {historical[k] : k \in {n \in near : \A l \in near : Distance(n) <= Distance(l)}}

\* Every rate that a quote is computed with was the market's at most rate_ttl
\* before the oracle answered, however late the feed's response came; the uids of
\* one coin never have different prices in the registry; and reading back the
\* price of a later time never yields an older price.
RatesAreFresh ==
  /\ \A p \in Pricings : pricing[p].phase = "done" =>
       \A i \in DOMAIN pricing[p].rate :
         pricing[p].rate[i] <= pricing[p].at /\ pricing[p].at - pricing[p].rate[i] <= RateTtl
  /\ \A u, v \in Uids : CoinOf[u] = CoinOf[v] => registry[u].rate = registry[v].rate
  /\ \A u \in Uids : \A m, n \in 0..MaxClock : m < n =>
       \A x \in ReadHistoricalUsdPrices(u, m), y \in ReadHistoricalUsdPrices(u, n) : x <= y

(***************************************************************************)
(* The inductive invariant behind the theorem about it in RelayProofs      *)
(***************************************************************************)

Update == [kind : {"update"}, timestamp : Nat, rate : Nat, uids : SUBSET Uids]
Question ==
  [kind : {"lookup"}, from : Uids, to : Uids, p : Pricings] \cup [kind : {"usd"}, from : Uids, p : Pricings]
PriceTypeOK ==
  /\ clock \in Nat
  /\ fetch \in [phase : {"idle", "asked", "sampled"}, timestamp : Nat, sample : Nat,
                has : SUBSET UNION Responses, next : Nat]
  /\ inbox \in Seq(Update \cup Question \cup [kind : {"all"}])
  /\ registry \in [Uids -> [rate : Nat, timestamp : Nat, known : BOOLEAN]]
  /\ pricing \in [Pricings -> [phase : {"new", "asked", "done"}, from : Uids \cup {"none"},
                               to : Uids \cup {"none", "usd"}, rate : Seq(Nat), at : Nat]]
  /\ recorder \in [phase : {"idle", "asked", "told"}, minute : Nat, next : Nat,
                   prices : {recorder.prices}]
  /\ DOMAIN recorder.prices \subseteq Uids
  /\ \A u \in DOMAIN recorder.prices : recorder.prices[u] \in Nat
  /\ DOMAIN historical \subseteq Uids \X Nat
  /\ \A k \in DOMAIN historical : historical[k] \in Nat

Updates == {i \in DOMAIN inbox : inbox[i].kind = "update"}

\* a timestamp is never later than the sample it stands for, and the uids of a coin are
\* priced together
SamplesDated ==
  /\ fetch.phase # "idle" => fetch.timestamp <= clock
  /\ fetch.phase = "sampled" => fetch.timestamp <= fetch.sample /\ fetch.sample <= clock
  /\ \A i \in Updates :
       /\ inbox[i].timestamp <= inbox[i].rate /\ inbox[i].rate <= clock
       /\ \A u, v \in Uids : CoinOf[u] = CoinOf[v] /\ u \in inbox[i].uids => v \in inbox[i].uids
  /\ \A u \in Uids : registry[u].timestamp <= registry[u].rate /\ registry[u].rate <= clock

\* samples are older from the feed through the inbox to the registry
SamplesInOrder ==
  /\ \A u \in Uids :
       /\ fetch.phase = "sampled" => registry[u].rate <= fetch.sample
       /\ \A i \in Updates : registry[u].rate <= inbox[i].rate
  /\ \A i \in Updates :
       /\ fetch.phase = "sampled" => inbox[i].rate <= fetch.sample
       /\ \A j \in Updates : i < j => inbox[i].rate <= inbox[j].rate

\* the recorder waits for one answer at a time
OneRecording ==
  \A i \in DOMAIN inbox : inbox[i].kind = "all" =>
    /\ recorder.phase = "asked"
    /\ \A j \in DOMAIN inbox : inbox[j].kind = "all" => j = i

\* rows are older than what the recorder holds, and that is no newer than the registry
RowsInOrder ==
  /\ recorder.phase # "idle" => recorder.next = recorder.minute + 1
  /\ recorder.phase = "told" =>
       \A u \in DOMAIN recorder.prices : recorder.prices[u] <= registry[u].rate
  /\ \A k \in DOMAIN historical :
       /\ k[2] < recorder.next
       /\ recorder.phase # "idle" => k[2] < recorder.minute
       /\ historical[k] <= registry[k[1]].rate
       /\ recorder.phase = "told" /\ k[1] \in DOMAIN recorder.prices => historical[k] <= recorder.prices[k[1]]
       /\ \A l \in DOMAIN historical : k[1] = l[1] /\ k[2] < l[2] => historical[k] <= historical[l]

PricesAge == \A p \in Pricings : pricing[p].phase = "done" =>
  \A i \in DOMAIN pricing[p].rate :
    pricing[p].rate[i] <= pricing[p].at /\ pricing[p].at - pricing[p].rate[i] <= RateTtl
CoinsAgree == \A u, v \in Uids : CoinOf[u] = CoinOf[v] => registry[u].rate = registry[v].rate

PriceIInv == PriceTypeOK /\ SamplesDated /\ SamplesInOrder /\ OneRecording /\ RowsInOrder /\ PricesAge /\ CoinsAgree
==============================================================================
