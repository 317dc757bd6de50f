SPECIFICATION Spec
CONSTANTS
  Kids = {"k1", "k2"}
  AuthRequests = {1, 2}
  Tokens <- MCTokens
  MaxTime = 1
  MaxRotations = 2
  Base <- MCBase
  PerChain <- MCPerChain
  Orders = {1, 2}
  Asked <- MCAsked
  Subs = {"dev", "nobody"}
  NoUser = "nobody"
  MaxCost = 2
  MaxHour = 2
  Dst = "dst"
  Sources = {"a", "b", "c"}
  FeeToken = "F"
  Token <- MCToken
  Currency <- MCCurrency
  Ten = 10
  Situations <- MCSituations
  Fees = {1, 2, 3, 4}
  Costs = {1, 5}
  Keys = {"s1"}
  Admins = {"s1"}
  Intents = {1}
  Executions = {1}
  MaxNonce = 2
  ClientNonces = {1}
  MaxStored = 2
  MaxOwn = 1
  Bundles = {"one", "two", "paid", "bad"}
  Quoted <- MCQuoted
  MaxQuotes = 2
  Sends = {1, 2}
  Faucets = {3}
  Uids = {"eth", "weth", "usdc"}
  CoinOf <- MCCoinOf
  Pricings = {1}
  Pairs <- MCPairs
  UsdUids = {"usdc"}
  Responses <- MCResponses
  RateTtl = 1
  MaxClock = 2
  Erc20s = {"t1", "t2", "t3"}
  PinnedErc20s = {"t1"}
  Capacity = 1
  Lists = {1}
  Diffs = {2}
  Wanted <- MCWanted
  Contract <- MCContract
  Wallets = {"w1", "w2"}
  Mails = {"e1", "e2"}
  Phones = {"p1"}
  Voip = {"p1"}
  ContactAsks = {1, 2, 3}
  MaxAttempts = 1
  BaseFees = {9, 19, 50}
  Rewards = {5, 10, 21, 40}
  MinimumFee = 7
  Ceilings = {20, 45, 100}
  MaxSent = 3
  Hashes = {"h1"}
  Watches = {1, 2}
  WatchWindow = 1
  MaxInstant = 3
  Parties = {"a", "b", "c"}
  Fungibles = {"x"}
  Nfts = {7}
  Amounts = {1, 2}
  FeeAmount = 1
  Payer = "a"
  Collector = "c"
  FeeAsset = "x"
  MaxLogs <- MCMaxLogs
  Digests <- MCDigests
  RawDelegates = {"d1", "d2"}
  MaxRetries = 1
INVARIANTS TokensJudgedRight QuotaHolds QuotesAreCovered PrecallsKept StatusesHonest RatesAreFresh AssetsAnswered ContactsProven FeesReplaceable WatchesEnd DiffsTell ProofsVerify SubmissionsAccounted
CHECK_DEADLOCK FALSE
