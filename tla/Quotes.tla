------------------------------- MODULE Quotes --------------------------------
(***************************************************************************)
(* How wallet_prepareCalls finds the money for a request.  The calls are   *)
(* simulated on their chain; what the account lacks there is sourced from  *)
(* its balances on other chains, and since every simulation may give       *)
(* another fee the search is repeated, three times at most, until the      *)
(* funds cover the fee as well.  Fees are paid by the account, by a fee    *)
(* payer on some chain, or by the relay (a sponsored request).             *)
(***************************************************************************)
EXTENDS Integers, SequencesExt

CONSTANTS
  Dst,        \* chain of the request
  Sources,    \* other chains
  FeeToken,   \* asset that pays the fees
  Token,      \* [chain -> [asset -> its address and decimals there]]
  Currency,   \* [chain -> its native currency]
  Ten,        \* base of the decimals
  Situations, \* balances of the account, the fee payer and the funder, and the request
  Fees,       \* fees that a simulation may give
  Costs       \* costs that an escrow may have

VARIABLES
  ask,      \* the situation
  quoting,  \* phase of build_quotes
  asked,    \* requested_with_balance: assets in order, and what is required
  output,   \* output_quote
  fetched,  \* assets whose balances were fetched on the other chains
  plan,     \* result of source_funds
  attempt,  \* iteration of the loop
  answer    \* quotes that are returned

quoteVars == <<ask, quoting, asked, output, fetched, plan, attempt, answer>>

Assets == DOMAIN Token[Dst]
Chains == Sources \cup {Dst}

\* Decimals are a byte; fees are positive; a request with a fee payer is not sponsored.
ASSUME QuoteAssumption ==
  /\ IsFiniteSet(Sources) /\ IsFiniteSet(Assets) /\ FeeToken \in Assets /\ Ten \in Nat \ {0}
  /\ Fees \subseteq Nat \ {0} /\ Costs \subseteq Nat
  /\ \A c \in Chains : \A a \in DOMAIN Token[c] : Token[c][a].dec \in 0..255
  /\ \A s \in Situations :
       /\ \A c \in Chains : \A a \in DOMAIN Token[c] : s.bal[c][a] \in Nat
       /\ \A a \in Assets : s.want[a] \in Nat /\ s.funder[a] \in Nat
       /\ Dst \in DOMAIN s.payer /\ DOMAIN s.payer \subseteq Chains
       /\ \A c \in DOMAIN s.payer : s.payer[c] \in Nat
       /\ s.feePayer \in BOOLEAN /\ s.sponsored \in BOOLEAN /\ ~(s.feePayer /\ s.sponsored)

Less(x, y) == IF x > y THEN x - y ELSE 0

\* The sum of a sequence of numbers.
Added(s) ==
  LET sum[i \in 0..Len(s)] == IF i = 0 THEN 0 ELSE sum[i - 1] + s[i]
  IN  sum[Len(s)]

\* The elements of a sequence that are in a set.
Only(s, S) ==
  LET some[i \in 0..Len(s)] ==
        IF i = 0 THEN <<>> ELSE IF s[i] \in S THEN Append(some[i - 1], s[i]) ELSE some[i - 1]
  IN  some[Len(s)]

Power(k) ==
  LET pow[i \in 0..k] == IF i = 0 THEN 1 ELSE Ten * pow[i - 1]
  IN  pow[k]

NoQuote == [fee |-> 0, deficit |-> 0, deficits |-> <<>>, reverted |-> FALSE]

QuoteInit ==
  /\ ask \in Situations
  /\ quoting = "start" /\ asked = <<>> /\ output = NoQuote
  /\ fetched = {} /\ plan = <<>> /\ attempt = 0 /\ answer = [kind |-> "none"]

\* map_interop_asset: the same asset on another chain, unless it is the native
\* token of one and the native currencies differ.
MapInteropAsset(c, d, a) ==
  /\ a \in DOMAIN Token[c] /\ a \in DOMAIN Token[d]
  /\ "native" \in {Token[c][a].addr, Token[d][a].addr} => Currency[c] = Currency[d]

AdjustBalanceForDecimals(n, from, to) == IF from > to THEN n \div Power(from - to) ELSE n * Power(to - from)

\* The descriptor of the asset at an address of the destination chain.
AtDst(addr) == {a \in Assets : Token[Dst][a].addr = addr}

\* get_assets: the balance of the account.
BalanceOf(c, a) == ask.bal[c][a]

PayerPays == ask.feePayer
UserPays == ~ask.feePayer /\ ~ask.sponsored

\* simulate_execute.  It reverts if the calls spend more than there is; asked to
\* calculate deficits, it repeats with the missing assets, two of them at most.
Missing(funding) == {a \in Assets : ask.want[a] > BalanceOf(Dst, a) + funding[a]}

\* The simulation within estimate_fee, for deficits in some order or for none.
SimulationFails(funding, order) == order = <<>> /\ Missing(funding) # {}

\* estimate_fee: what is missing for the fee, after the spending of the calls.
FeeTokenDeficit(fee, funding, payer) ==
  IF payer THEN Less(fee, ask.payer[Dst])
  ELSE Less(fee, Less(BalanceOf(Dst, FeeToken) + funding[FeeToken], ask.want[FeeToken]))

Deficit(asset, required, deficit) == [asset |-> asset, required |-> required, deficit |-> deficit]

\* The deficits in order: of the calls, then of the fee.
AssetDeficits(order, fee, feeDeficit) ==
  LET of == [i \in DOMAIN order |->
               Deficit(order[i], ask.want[order[i]], ask.want[order[i]] - BalanceOf(Dst, order[i]))]
      charged == [i \in DOMAIN of |->
                    IF of[i].asset = FeeToken
                    THEN Deficit(FeeToken, of[i].required + fee, of[i].deficit + fee) ELSE of[i]]
  IN  IF feeDeficit = 0 THEN of
      ELSE IF \E i \in DOMAIN order : order[i] = FeeToken THEN charged
      ELSE Append(of, Deficit(FeeToken, fee + ask.want[FeeToken], feeDeficit))

Nothing == [a \in Assets |-> 0]

\* build_intent and estimate_fee for the chain of the request.
EstimateFee(fee, funding, payer, order) ==
  LET deficit == FeeTokenDeficit(fee, funding, payer)
  IN  [fee |-> fee, deficit |-> deficit,
       deficits |-> AssetDeficits(order, fee, IF payer THEN 0 ELSE deficit),
       reverted |-> SimulationFails(funding, order)]

RemoveFeeAmount(deficits, amount) ==
  LET kept == Only(deficits, {d \in ToSet(deficits) : d.asset # FeeToken \/ d.deficit > amount})
  IN  [i \in DOMAIN kept |->
         IF kept[i].asset # FeeToken THEN kept[i]
         ELSE Deficit(FeeToken, kept[i].required - amount, kept[i].deficit - amount)]

\* A sponsored quote has no fee.
Sponsored(quote) ==
  IF ask.sponsored
  THEN [fee |-> 0, deficit |-> 0, deficits |-> RemoveFeeAmount(quote.deficits, quote.deficit),
        reverted |-> quote.reverted]
  ELSE quote

Fail == quoting' = "failed" /\ UNCHANGED <<ask, asked, output, fetched, plan, attempt, answer>>
Return(q) ==
  /\ quoting' = "done" /\ answer' = q
  /\ UNCHANGED <<ask, asked, output, fetched, plan, attempt>>

\* build_fee_payer_quote: the chain on which the payer has most, and at least
\* twice the fees, pays their sum.
FeeDec(c) == Token[c][FeeToken].dec
PayerHas(c, dec) == AdjustBalanceForDecimals(ask.payer[c], FeeDec(c), dec)
MostDec(quotes) == Max({FeeDec(quotes[i].chain) : i \in DOMAIN quotes})
FeeTotal(quotes) ==
  Added([i \in DOMAIN quotes |->
           AdjustBalanceForDecimals(quotes[i].fee, FeeDec(quotes[i].chain), MostDec(quotes))])
PaidOn(c, total, dec) ==
  [chain |-> c, amount |-> AdjustBalanceForDecimals(total, dec, FeeDec(c)), total |-> total, dec |-> dec]
FeePayerQuotes(quotes) ==
  LET most == MostDec(quotes)
      total == FeeTotal(quotes)
      able == {c \in DOMAIN ask.payer : FeeToken \in DOMAIN Token[c] /\ PayerHas(c, most) >= 2 * total}
  IN  {PaidOn(c, total, most) : c \in {c \in able : \A d \in able : PayerHas(d, most) <= PayerHas(c, most)}}

\* The requested assets without the fee, which is handled separately.  The fee
\* token stays if nothing else is missing.
WithoutFee(quote) ==
  LET less == [i \in DOMAIN quote.deficits |->
                 LET d == quote.deficits[i]
                 IN  IF PayerPays \/ d.asset # FeeToken THEN d
                     ELSE Deficit(FeeToken, Less(d.required, quote.fee), Less(d.deficit, quote.deficit))]
  IN  Only(less, {d \in ToSet(less) :
                    d.deficit > 0 \/ d.asset # FeeToken \/ PayerPays \/ Len(quote.deficits) = 1})

Single(quote) == [kind |-> "single", quote |-> quote, payer |-> {}]

\* Required funds that are known to be missing: no single chain quote is tried.
SkipSingle(order) ==
  /\ quoting = "start" /\ ask.declared
  /\ ToSet(order) = {a \in Assets : ask.want[a] > 0}
  /\ \E a \in Assets : ask.want[a] > BalanceOf(Dst, a)
  /\ quoting' = "output"
  /\ asked' = [i \in DOMAIN order |-> [asset |-> order[i], required |-> ask.want[order[i]]]]
  /\ UNCHANGED <<ask, output, fetched, plan, attempt, answer>>

\* The request as a single chain intent.
BuildSingleChainQuote(fee, order) ==
  /\ quoting = "start"
  /\ ToSet(order) = Missing(Nothing) /\ Cardinality(Missing(Nothing)) <= 2
  /\ ask.declared => order = <<>>
  /\ LET quote == Sponsored(EstimateFee(fee, Nothing, PayerPays, order))
     IN  IF ask.unknown THEN Return(Single(quote))
         ELSE IF quote.deficits = <<>>
         THEN IF quote.deficit = 0 \/ ~PayerPays THEN Return(Single(quote))
              ELSE LET payers == FeePayerQuotes(<<[chain |-> Dst, fee |-> fee]>>)
                   IN  IF payers = {} THEN Fail
                       ELSE \E p \in payers : Return([kind |-> "single", payer |-> {p},
                              quote |-> [quote EXCEPT !.fee = 0, !.deficit = 0]])
         ELSE LET rest == WithoutFee(quote)
              IN  IF \E i \in DOMAIN rest : ~ask.interop[rest[i].asset]
                  THEN Return(Single(quote))
                  ELSE /\ quoting' = "output"
                       /\ asked' = [i \in DOMAIN rest |-> [asset |-> rest[i].asset, required |-> rest[i].required]]
                       /\ answer' = Single(quote)
                       /\ UNCHANGED <<ask, output, fetched, plan, attempt>>

RequiredOf(funds, a) ==
  Added([i \in DOMAIN funds |-> IF funds[i].asset = a THEN funds[i].required ELSE 0])
Requested == {asked[i].asset : i \in DOMAIN asked}

\* The output intent with the requested funds but without sources, for its fee.
BuildOutput(fee) ==
  LET needed == [a \in Assets |-> Less(RequiredOf(asked, a), BalanceOf(Dst, a))]
      quote == EstimateFee(fee, needed, FALSE, <<>>)
  IN  /\ quoting = "output"
      /\ IF \/ \E a \in Requested : needed[a] > ask.funder[a] \/ ~ask.interop[a]
            \/ quote.reverted
         THEN Fail
         ELSE /\ quoting' = "source" /\ output' = quote
              /\ fetched' = Requested \cup IF UserPays /\ quote.deficit > 0 THEN {FeeToken} ELSE {}
              /\ UNCHANGED <<ask, asked, plan, attempt, answer>>

\* What has to be sourced: with the fee, if the account pays it.
RequestedFunds ==
  LET with == [i \in DOMAIN asked |->
                 IF asked[i].asset # FeeToken THEN asked[i]
                 ELSE [asset |-> FeeToken, required |-> asked[i].required + output.fee]]
  IN  IF ~UserPays THEN asked
      ELSE IF FeeToken \in Requested THEN with
      ELSE IF output.deficit = 0 THEN asked
      ELSE Append(asked, [asset |-> FeeToken, required |-> output.fee])

\* Non-zero balances of requested assets on another chain, in order.
Balances(c, funds) ==
  Only([i \in DOMAIN funds |-> funds[i].asset],
       {a \in fetched : MapInteropAsset(Dst, c, a) /\ BalanceOf(c, a) > 0})

UsableSources(funds) ==
  {c \in Sources : Balances(c, funds) # <<>> /\ (PayerPays => MapInteropAsset(Dst, c, FeeToken))}

\* Decimals of the destination asset, looked up under the address of the source.
DstDecimals(c, a) ==
  LET found == AtDst(Token[c][a].addr)
  IN  {Token[Dst][b].dec : b \in found}
DstDec(c, a) == CHOOSE d \in DstDecimals(c, a) : TRUE

\* The order of the sources: the highest balances first.
SortKey(c, funds) ==
  [i \in DOMAIN funds |->
     LET a == funds[i].asset
     IN  IF a \notin ToSet(Balances(c, funds)) \/ DstDecimals(c, a) = {} THEN 0
         ELSE AdjustBalanceForDecimals(BalanceOf(c, a), Token[c][a].dec, DstDec(c, a))]
Precedes(k, l) ==
  \/ k = l
  \/ \E i \in DOMAIN k : k[i] > l[i] /\ \A j \in 1..(i - 1) : k[j] = l[j]
Orderings(funds) ==
  {s \in SetToSeqs(UsableSources(funds)) :
     \A i, j \in DOMAIN s : i < j => Precedes(SortKey(s[i], funds), SortKey(s[j], funds))}

\* Mutant of MaxTake: the cost of the escrow is not kept back.
MaxTakeAll(c, a, feeToken, cost, dec) == AdjustBalanceForDecimals(BalanceOf(c, a), Token[c][a].dec, dec)

\* The most that can be bridged: the cost of the escrow stays, unless another pays.
MaxTake(c, a, feeToken, cost, dec) ==
  AdjustBalanceForDecimals(
    IF ~PayerPays /\ feeToken = a THEN Less(BalanceOf(c, a), cost) ELSE BalanceOf(c, a),
    Token[c][a].dec, dec)

\* One source: it gives what remains to be sourced of every asset.
SourceFeeToken(c, funds) == IF PayerPays THEN FeeToken ELSE Balances(c, funds)[1]
Offered(c, a, funds, cost) ==
  IF a \notin ToSet(Balances(c, funds)) \/ DstDecimals(c, a) = {} THEN 0
  ELSE MaxTake(c, a, SourceFeeToken(c, funds), cost, DstDec(c, a))
Taking(take, c, funds, cost) ==
  [chain |-> c, take |-> take, feeToken |-> SourceFeeToken(c, funds), cost |-> cost,
   amount |-> [a \in Assets |->
     IF take[a] > 0 THEN AdjustBalanceForDecimals(take[a], DstDec(c, a), Token[c][a].dec) ELSE 0]]
TakeFrom(acc, c, funds, cost) ==
  LET take == [a \in Assets |-> Min({acc.left[a], Offered(c, a, funds, cost)})]
  IN  IF \/ \A a \in Assets : take[a] = 0
         \/ \A a \in Assets : acc.left[a] = 0
      THEN acc
      ELSE [left |-> [a \in Assets |-> acc.left[a] - take[a]],
            plan |-> Append(acc.plan, Taking(take, c, funds, cost))]

\* All sources in order.
Sourced(left, order, funds, cost) ==
  LET acc[i \in 0..Len(order)] ==
        IF i = 0 THEN [left |-> left, plan |-> <<>>]
        ELSE TakeFrom(acc[i - 1], order[i], funds, cost[order[i]])
  IN  acc[Len(order)]

\* source_funds.  Without enough funds the single chain quote is the answer, made
\* now if there is none.
SourceFunds(cost) ==
  LET funds == RequestedFunds
      left == [a \in Assets |->
        Less(RequiredOf(funds, a), IF a \in fetched THEN BalanceOf(Dst, a) ELSE 0)]
  IN  /\ quoting = "source"
      /\ \E order \in Orderings(funds) :
           LET found == Sourced(left, order, funds, cost)
           IN  IF \A a \in Assets : found.left[a] = 0
               THEN /\ quoting' = "rebuild" /\ plan' = found.plan
                    /\ UNCHANGED <<ask, asked, output, fetched, attempt, answer>>
               ELSE IF answer.kind = "single" THEN Return(answer)
               ELSE \E fee \in Fees, miss \in SetToSeqs(Missing(Nothing)) :
                      Return(Single(EstimateFee(fee, Nothing, PayerPays, miss)))

FundedBy(sources) == [a \in Assets |-> Added([i \in DOMAIN sources |-> sources[i].take[a]])]
Funding == FundedBy(plan)

\* The funding intents.  Their fee is the cost found before; an account that
\* cannot pay it has a deficit on that chain.
FundingQuotes ==
  [i \in DOMAIN plan |->
     [chain |-> plan[i].chain, fee |-> plan[i].cost,
      deficit |-> Less(plan[i].cost, Less(BalanceOf(plan[i].chain, plan[i].feeToken),
                                          plan[i].amount[plan[i].feeToken]))]]

\* The output intent with the sources.  If it is paid for, that is the quote;
\* otherwise the funds are sourced again.
BuildQuotes(fee) ==
  LET quote == Sponsored(EstimateFee(fee, Funding, FALSE, <<>>))
      all == Append(FundingQuotes, [chain |-> Dst, fee |-> quote.fee, deficit |-> quote.deficit])
      zero == [i \in DOMAIN all |-> [all[i] EXCEPT !.fee = 0, !.deficit = 0]]
      payers == FeePayerQuotes(all)
  IN  /\ quoting = "rebuild"
      /\ IF (\E a \in Assets : Funding[a] > ask.funder[a]) \/ quote.reverted THEN Fail
         ELSE IF quote.deficit = 0 /\ ~PayerPays
         THEN Return([kind |-> "multi", quotes |-> all, sources |-> plan, payer |-> {}])
         ELSE IF PayerPays
         THEN IF payers = {} THEN Fail
              ELSE \E p \in payers :
                     Return([kind |-> "multi", quotes |-> zero, sources |-> plan, payer |-> {p}])
         ELSE IF attempt = 2 THEN Fail
         ELSE /\ quoting' = "source" /\ output' = quote /\ attempt' = attempt + 1
              /\ UNCHANGED <<ask, asked, fetched, plan, answer>>

QuoteNext ==
  \/ \E fee \in Fees :
       \/ BuildOutput(fee) \/ BuildQuotes(fee)
       \/ \E order \in UNION {SetToSeqs(S) : S \in SUBSET Assets} : BuildSingleChainQuote(fee, order)
  \/ \E order \in UNION {SetToSeqs(S) : S \in SUBSET Assets} : SkipSingle(order)
  \/ \E cost \in [Sources -> Costs] : SourceFunds(cost)

QuoteSpec == QuoteInit /\ [][QuoteNext]_quoteVars

\* The chain on which the fee payer pays has the amount, which is the sum of the fees
\* but for less than one unit of the token there.
PayerCovers(p) ==
  /\ p.total - AdjustBalanceForDecimals(p.amount, FeeDec(p.chain), p.dec)
       < IF p.dec > FeeDec(p.chain) THEN Power(p.dec - FeeDec(p.chain)) ELSE 1
  /\ p.amount <= ask.payer[p.chain]

OwnFee(q, a) == IF a = FeeToken THEN q.fee ELSE 0

\* The chain of the request has what the calls spend and the fee.
SingleCovers(q, payer) ==
  /\ \A a \in Assets : BalanceOf(Dst, a) >= ask.want[a] + IF PayerPays THEN 0 ELSE OwnFee(q, a)
  /\ PayerPays => ask.payer[Dst] >= q.fee
  /\ q.fee = 0 => ask.sponsored \/ payer # {}

\* A source has what it gives and its fee, and gives the worth of what the funder
\* transfers, but for less than one unit of its token.
Up(n, c, a) == AdjustBalanceForDecimals(n, Token[c][a].dec, Token[Dst][a].dec)
Unit(c, a) ==
  IF Token[c][a].dec < Token[Dst][a].dec THEN Power(Token[Dst][a].dec - Token[c][a].dec) ELSE 1
SourceCovers(s, fee) ==
  \A a \in Assets : s.take[a] > 0 =>
    /\ s.amount[a] + (IF a = s.feeToken THEN fee ELSE 0) <= ask.bal[s.chain][a]
    /\ s.take[a] - Up(s.amount[a], s.chain, a) < Unit(s.chain, a)

\* The calls and the fee have what they need with what the funder transfers, which it has.
OutputCovers(out, sources, payer) ==
  /\ \A a \in Assets :
       /\ BalanceOf(Dst, a) + FundedBy(sources)[a] >= ask.want[a] + OwnFee(out, a)
       /\ FundedBy(sources)[a] <= ask.funder[a]
  /\ out.fee = 0 => ask.sponsored \/ payer # {}

\* What an answer without deficits promises.
AnswerCovers(ans) ==
  /\ \A p \in ans.payer : PayerCovers(p)
  /\ ans.kind = "single" =>
       (ans.quote.deficit = 0 /\ ans.quote.deficits = <<>> /\ ~ask.unknown => SingleCovers(ans.quote, ans.payer))
  /\ ans.kind = "multi" =>
       /\ \A i \in DOMAIN ans.sources :
            ans.sources[i].take[ans.sources[i].feeToken] > 0 => ans.quotes[i].deficit = 0
       /\ (\A i \in DOMAIN ans.quotes : ans.quotes[i].deficit = 0) =>
            /\ OutputCovers(Last(ans.quotes), ans.sources, ans.payer)
            /\ \A i \in DOMAIN ans.sources : SourceCovers(ans.sources[i], ans.quotes[i].fee)

\* A quote that the client can send (it reports no deficits) is paid for.  On the
\* chain of the request there is what the calls spend and, if the account pays, the
\* fee; every source has what it gives up and its cost; the funder has what it
\* transfers and gets it back on the sources, but for less than one unit of a source's
\* token.  A source that gives the token of its fee keeps the fee back.  A fee is
\* missing only if it is sponsored or paid by the fee payer.
QuotesAreCovered == quoting = "done" => AnswerCovers(answer)

\* The decimals of an asset on the chain of the request are looked up there under its
\* address on the source: what is found is the asset, or has the same decimals.
SameDecimals ==
  \A c \in Sources : \A a \in Assets \cap DOMAIN Token[c] :
    \A b \in AtDst(Token[c][a].addr) : Token[Dst][b].dec = Token[Dst][a].dec

\* What a source may be planned to give: it keeps its fee back unless the payer pays.
Takings ==
  {s \in [chain : Sources, take : [Assets -> Nat], feeToken : Assets, cost : Nat, amount : [Assets -> Nat]] :
     /\ s.feeToken \in DOMAIN Token[s.chain]
     /\ PayerPays => s.feeToken = FeeToken
     /\ \A a \in Assets : s.take[a] > 0 => a \in DOMAIN Token[s.chain]
     /\ SourceCovers(s, IF PayerPays THEN 0 ELSE s.cost)}

\* The inductive invariant: the plan is one that the sources can keep, and an answer that
\* waits while funds are sourced is one with deficits.
QuoteIInv ==
  /\ ask \in Situations
  /\ asked \in Seq([asset : Assets, required : Int])
  /\ output.fee \in Nat
  /\ plan \in Seq(Takings)
  /\ quoting # "done" /\ answer.kind = "single" => answer.payer = {} /\ answer.quote.deficits # <<>>
  /\ QuotesAreCovered
==============================================================================
