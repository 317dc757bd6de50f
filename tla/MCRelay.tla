------------------------------- MODULE MCRelay -------------------------------
(***************************************************************************)
(* The request side of the relay: one behaviour is about one of its parts. *)
(***************************************************************************)
EXTENDS Auth, Sponsorship, Quotes, Accounts, RelayCalls, Prices, AssetInfo, Contacts, Fees, Monitor, AssetDiffs,
        Merkle, Transport

VARIABLE part

vars == <<part, authVars, sponsorVars, quoteVars, accountVars, callVars, priceVars, assetVars, contactVars, feeVars, monitorVars, diffVars, merkleVars, transportVars>>

MCTokens ==
  {[kind |-> "none"], [kind |-> "dev", sub |-> "dev"]} \cup
  [kind : {"jwt"}, kid : {"k1"}, eddsa : BOOLEAN, good : BOOLEAN, sub : {"ann"}, exp : {1}] \cup
  [kind : {"jwt"}, kid : {"k2"}, eddsa : {TRUE}, good : {TRUE}, sub : {"ann"}, exp : {1}]

MCBase ==
  [sponsor_all |-> FALSE, sponsored_chains |-> {"base", "rise"}, contracts |-> {"app"},
   methods |-> {[to |-> "token", sel |-> "approve"]}, breaker |-> 2, per_user |-> 1, window |-> 1,
   quota_key |-> "address", verified_skips |-> FALSE, quota_overrides |-> [dev |-> 2]]
MCPerChain == [rise |-> [quota_key |-> "user", verified_skips |-> TRUE], test |-> [sponsor_all |-> TRUE]]
Approve == [to |-> "token", sel |-> "approve"]
Other == [to |-> "token", sel |-> "transfer"]
MCAsked ==
  [eoa : {"e1", "e2"}, calls : {{Approve}}, chain : {"base"}] \cup
  {[eoa |-> "e1", calls |-> {Approve, Other}, chain |-> c] : c \in {"base", "rise", "test", "far"}}

MCToken ==
  [dst |-> [F |-> [addr |-> "f", dec |-> 0], X |-> [addr |-> "x", dec |-> 1]],
   a   |-> [F |-> [addr |-> "f", dec |-> 1], X |-> [addr |-> "x", dec |-> 0]],
   b   |-> [F |-> [addr |-> "native", dec |-> 0], X |-> [addr |-> "x", dec |-> 1]],
   c   |-> [F |-> [addr |-> "f", dec |-> 0], X |-> [addr |-> "y", dec |-> 1]]]
MCCurrency == [dst |-> "ETH", a |-> "ETH", b |-> "POL", c |-> "ETH"]
Situation(dst, a, bx, want, pd, funder, mode, declared, unknown, interop) ==
  [bal |-> [dst |-> dst, a |-> a, b |-> [F |-> 9, X |-> bx], c |-> [F |-> 0, X |-> 90]],
   want |-> want, payer |-> [dst |-> pd, a |-> 100, b |-> 0], funder |-> funder,
   interop |-> [F |-> TRUE, X |-> interop], feePayer |-> mode = "payer",
   sponsored |-> mode = "sponsored", declared |-> declared, unknown |-> unknown]
Held(f, x) == [F |-> f, X |-> x]
MCSituations ==
  {Situation(Held(df, dx), Held(af, ax), bx, Held(wf, 15), 0, Held(9, 20), m, d, FALSE, TRUE) :
     df \in {0, 3}, dx \in {0, 20}, af \in {0, 45, 95}, ax \in {0, 2}, bx \in {8},
     wf \in {0, 4}, m \in {"user", "payer", "sponsored"}, d \in BOOLEAN} \cup
  {Situation(Held(0, dx), Held(95, 2), 0, Held(2, 15), pd, Held(9, fx), m, FALSE, u, i) :
     dx \in {0, 20}, pd \in {0, 9}, fx \in {9, 20}, m \in {"user", "payer"}, u \in BOOLEAN, i \in BOOLEAN}

Signed(quotes, payer, byOther, flaw) == [quotes |-> quotes, payer |-> payer, byOther |-> byOther, flaw |-> flaw]
MCQuoted ==
  [one |-> Signed(1, FALSE, TRUE, "none"), two |-> Signed(2, FALSE, FALSE, "none"),
   paid |-> Signed(1, TRUE, FALSE, "none"), bad |-> Signed(1, FALSE, FALSE, "deficit")]

MCCoinOf == [eth |-> "ethereum", weth |-> "ethereum", usdc |-> "usd-coin"]
MCPairs == {<<"weth", "usdc">>, <<"eth", "eth">>}
MCResponses == {{"ethereum", "usd-coin"}, {"usd-coin"}}
MCContract == [t1 |-> "full", t2 |-> "no symbol", t3 |-> "no decimals"]
MCWanted == {<<"t1", "native", "t2">>, <<"t2", "t3">>, <<"t3", "t1">>}
MCMaxLogs == <<2, 1>>
MCDigest(k) == <<"digest", k>>
MCDigests ==
  UNION {[1..n -> {MCDigest(1), MCDigest(2)}] : n \in 1..4} \cup {[k \in 1..n |-> MCDigest(k)] : n \in 1..9}

\* The initial choices of the other parts are fixed, so that each is made once.
Init ==
  /\ part \in {"auth", "sponsorship", "quotes", "accounts", "calls", "faucet", "prices", "assets", "contacts", "fees", "monitor", "diffs", "merkle", "transport"}
  /\ part # "auth" => published = {"k1"}
  /\ part # "quotes" => ask = CHOOSE s \in MCSituations : TRUE
  /\ part # "accounts" => code = "none"
  /\ part # "assets" => deployed = {}
  /\ part # "fees" => market = FeeContext(9, 5) /\ ceiling = 20
  /\ part # "diffs" => owner = [id \in Nfts |-> Payer]
  /\ part # "merkle" => digests = <<MCDigest(1)>>
  /\ part # "transport" => layer = "plain"
  /\ AuthInit /\ SponsorInit /\ QuoteInit /\ AccountInit /\ CallsInit
  /\ PriceInit /\ AssetInit /\ ContactInit /\ FeeInit /\ MonitorInit /\ DiffInit
  /\ MerkleInit /\ TransportInit

Next ==
  /\ UNCHANGED part
  /\ \/ part = "auth" /\ AuthNext
        /\ UNCHANGED <<sponsorVars, quoteVars, accountVars, callVars, priceVars, assetVars, contactVars, feeVars, monitorVars, diffVars, merkleVars, transportVars>>
     \/ part = "sponsorship" /\ SponsorNext
        /\ UNCHANGED <<authVars, quoteVars, accountVars, callVars, priceVars, assetVars, contactVars, feeVars, monitorVars, diffVars, merkleVars, transportVars>>
     \/ part = "quotes" /\ QuoteNext
        /\ UNCHANGED <<authVars, sponsorVars, accountVars, callVars, priceVars, assetVars, contactVars, feeVars, monitorVars, diffVars, merkleVars, transportVars>>
     \/ part = "accounts" /\ AccountNext
        /\ UNCHANGED <<authVars, sponsorVars, quoteVars, callVars, priceVars, assetVars, contactVars, feeVars, monitorVars, diffVars, merkleVars, transportVars>>
     \/ part = "calls" /\ CallsNext
        /\ UNCHANGED <<authVars, sponsorVars, quoteVars, accountVars, priceVars, assetVars, contactVars, feeVars, monitorVars, diffVars, merkleVars, transportVars>>
     \/ part = "faucet" /\ FaucetNext
        /\ UNCHANGED <<authVars, sponsorVars, quoteVars, accountVars, priceVars, assetVars, contactVars, feeVars, monitorVars, diffVars, merkleVars, transportVars>>
     \/ part = "prices" /\ PriceNext
        /\ UNCHANGED <<authVars, sponsorVars, quoteVars, accountVars, callVars, assetVars, contactVars, feeVars, monitorVars, diffVars, merkleVars, transportVars>>
     \/ part = "assets" /\ AssetNext
        /\ UNCHANGED <<authVars, sponsorVars, quoteVars, accountVars, callVars, priceVars, contactVars, feeVars, monitorVars, diffVars, merkleVars, transportVars>>
     \/ part = "contacts" /\ ContactNext
        /\ UNCHANGED <<authVars, sponsorVars, quoteVars, accountVars, callVars, priceVars, assetVars, feeVars, monitorVars, diffVars, merkleVars, transportVars>>
     \/ part = "fees" /\ FeeNext
        /\ UNCHANGED <<authVars, sponsorVars, quoteVars, accountVars, callVars, priceVars, assetVars, contactVars, monitorVars, diffVars, merkleVars, transportVars>>
     \/ part = "monitor" /\ MonitorNext
        /\ UNCHANGED <<authVars, sponsorVars, quoteVars, accountVars, callVars, priceVars, assetVars, contactVars, feeVars, diffVars, merkleVars, transportVars>>
     \/ part = "diffs" /\ DiffNext
        /\ UNCHANGED <<authVars, sponsorVars, quoteVars, accountVars, callVars, priceVars, assetVars, contactVars, feeVars, monitorVars, merkleVars, transportVars>>
     \/ part = "merkle" /\ MerkleNext
        /\ UNCHANGED <<authVars, sponsorVars, quoteVars, accountVars, callVars, priceVars, assetVars, contactVars, feeVars, monitorVars, diffVars, transportVars>>
     \/ part = "transport" /\ TransportNext
        /\ UNCHANGED <<authVars, sponsorVars, quoteVars, accountVars, callVars, priceVars, assetVars, contactVars, feeVars, monitorVars, diffVars, merkleVars>>

Spec == Init /\ [][Next]_vars
==============================================================================
