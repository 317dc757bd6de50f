----------------------------- MODULE Sponsorship -----------------------------
(***************************************************************************)
(* Gas sponsorship.  A quote is sponsored when the policy of its chain     *)
(* allows the chain and the targets and the ledger of the last hours is    *)
(* below the chain's breaker and the subject's quota.  The ledger is       *)
(* written only after the transaction was executed, under the subject that *)
(* the sending request was authenticated for.                              *)
(***************************************************************************)
EXTENDS Integers, FiniteSets

CONSTANTS
  Base,       \* SponsorshipConfig
  PerChain,   \* [chain -> the fields of Base that it overrides]
  Orders,     \* quotes and their transactions
  Asked,      \* possible questions: account, calls, chain
  Subs,       \* verified subjects of requests, or NoUser
  NoUser,     \* a request without a verified subject
  MaxCost,    \* the most that a transaction costs
  MaxHour     \* bound on the clock

VARIABLES
  hour,       \* the clock
  ledger,     \* sponsorship_usage
  order,      \* [o]: a quote and its transaction
  overlapped, \* a quote was approved while another was not booked yet
  misbooked   \* some spending was not booked, or under another subject

\* The fields of a policy, and of those the ones a chain may override.
SponsorshipConfig ==
  {"sponsor_all", "sponsored_chains", "contracts", "methods", "breaker", "per_user", "window",
   "quota_key", "verified_skips", "quota_overrides"}
SponsorshipOverride == SponsorshipConfig \ {"sponsored_chains", "quota_overrides"}

ASSUME PolicyAssumption ==
  DOMAIN Base = SponsorshipConfig /\ \A c \in DOMAIN PerChain : DOMAIN PerChain[c] \subseteq SponsorshipOverride

sponsorVars == <<hour, ledger, order, overlapped, misbooked>>

SponsorInit ==
  /\ hour = 0 /\ ledger = {}
  /\ order = [o \in Orders |-> [phase |-> "new"]]
  /\ overlapped = FALSE /\ misbooked = FALSE

\* Fields that a chain sets replace those of the base.
Resolve(c) ==
  LET local == IF c \in DOMAIN PerChain THEN DOMAIN PerChain[c] ELSE {}
  IN  [f \in SponsorshipConfig |-> IF f \in local THEN PerChain[c][f] ELSE Base[f]]

\* Limits are unsigned amounts of wei and whole hours.
ASSUME LimitsAssumption ==
  /\ MaxCost \in Nat \ {0} /\ MaxHour \in Nat /\ IsFiniteSet(Orders)
  /\ \A q \in Asked :
       LET cfg == Resolve(q.chain)
       IN  /\ cfg.breaker \in Nat /\ cfg.per_user \in Nat /\ cfg.window \in Nat /\ cfg.sponsor_all \in BOOLEAN
           /\ \A s \in DOMAIN cfg.quota_overrides : cfg.quota_overrides[s] \in Nat

QuotaSubject(cfg, eoa, user) == IF cfg.quota_key = "address" THEN eoa ELSE user

\* Every call goes to a listed contract, or calls a listed method.
TargetsAllowed(cfg, calls) ==
  /\ calls # {}
  /\ \A call \in calls : call.to \in cfg.contracts \/ call \in cfg.methods

\* Mutant of InWindow: the window's first hour is left out.
InWindowShort(c, hours) == {r \in ledger : r.chain = c /\ r.at > hour - hours}

\* The booked costs of the last hours.
InWindow(c, hours) == {r \in ledger : r.chain = c /\ r.at >= hour - hours}

\* The sum of the costs of transactions, pairs <<tx, wei>>: each wei is counted.
TotalWei(costs) == Cardinality({u \in costs \X (1..MaxCost) : u[2] <= u[1][2]})

Spent(rows) == TotalWei({<<r.tx, r.wei>> : r \in rows})
GlobalSponsoredWei(c, hours) == Spent(InWindow(c, hours))
SponsoredWei(s, c, hours) == Spent({r \in InWindow(c, hours) : r.subject = s})

Cap(cfg, s) == IF s \in DOMAIN cfg.quota_overrides THEN cfg.quota_overrides[s] ELSE cfg.per_user

\* What wallet_sponsorshipQuota reports.
QuotaStatus(s, c) ==
  LET cfg == Resolve(c)
      spent == SponsoredWei(s, c, cfg.window)
  IN  [cap |-> Cap(cfg, s), spent |-> spent,
       remaining |-> IF spent < Cap(cfg, s) THEN Cap(cfg, s) - spent ELSE 0,
       tripped |-> GlobalSponsoredWei(c, cfg.window) >= cfg.breaker]

Open(p) == {o \in Orders : order[o].phase \in p}
Underway == {"breaker", "quota", "quoted", "sent", "landed"}

\* is_sponsored, up to the reads of the ledger.
Evaluate(o, q, user) ==
  LET cfg == Resolve(q.chain)
      waived == cfg.verified_skips /\ user # NoUser
  IN  /\ order[o].phase = "new"
      /\ order' = [order EXCEPT ![o] =
           [phase |-> CASE cfg.sponsor_all -> "quoted"
                        [] ~cfg.sponsor_all /\ q.chain \in cfg.sponsored_chains
                           /\ (waived \/ TargetsAllowed(cfg, q.calls)) -> "breaker"
                        [] OTHER -> "denied",
            asked |-> q, user |-> user]]
      /\ UNCHANGED <<hour, ledger, overlapped, misbooked>>

\* The global circuit breaker.
ReadBreaker(o) ==
  LET q == order[o].asked
      cfg == Resolve(q.chain)
  IN  /\ order[o].phase = "breaker"
      /\ order' = [order EXCEPT ![o].phase =
           IF GlobalSponsoredWei(q.chain, cfg.window) >= cfg.breaker THEN "denied" ELSE "quota"]
      /\ overlapped' = (overlapped \/ Open(Underway) # {o})
      /\ UNCHANGED <<hour, ledger, misbooked>>

\* The quota of the subject.
ReadQuota(o) ==
  LET q == order[o].asked
      cfg == Resolve(q.chain)
      s == QuotaSubject(cfg, q.eoa, order[o].user)
      ok == s # NoUser /\ SponsoredWei(s, q.chain, cfg.window) < Cap(cfg, s)
  IN  /\ order[o].phase = "quota"
      /\ order' = [order EXCEPT ![o].phase = IF ok THEN "quoted" ELSE "denied"]
      /\ overlapped' = (overlapped \/ Open(Underway) # {o})
      /\ UNCHANGED <<hour, ledger, misbooked>>

\* prepare_tx resolves the subject anew, for whoever sends the quote.
SendSponsored(o, user) ==
  LET q == order[o].asked
      subject == QuotaSubject(Resolve(q.chain), q.eoa, user)
  IN  /\ order[o].phase = "quoted"
      /\ order' = [order EXCEPT ![o] =
           [phase |-> "sent", asked |-> q, user |-> order[o].user, subject |-> subject]]
      /\ UNCHANGED <<hour, ledger, overlapped, misbooked>>

\* The transaction is executed and costs gas; the intent may fail.
Execute(o, wei, ok) ==
  LET q == order[o].asked
  IN  /\ order[o].phase = "sent"
      /\ order' = [order EXCEPT ![o] =
           [phase |-> IF ok THEN "landed" ELSE "failed", asked |-> q, user |-> order[o].user,
            subject |-> order[o].subject, wei |-> wei, landed |-> hour]]
      /\ misbooked' = (misbooked \/ ~ok)
      /\ UNCHANGED <<hour, ledger, overlapped>>

\* The signer books a successful intent, under its account without a subject.  An
\* error of the storage is ignored.
RecordSponsorshipUsage(o, stored) ==
  LET q == order[o].asked
      s == IF order[o].subject = NoUser THEN q.eoa ELSE order[o].subject
      decided == QuotaSubject(Resolve(q.chain), q.eoa, order[o].user)
  IN  /\ order[o].phase = "landed"
      /\ order' = [order EXCEPT ![o].phase = "booked"]
      /\ ledger' = ledger \cup
           IF stored THEN {[tx |-> o, subject |-> s, chain |-> q.chain, wei |-> order[o].wei, at |-> hour]}
           ELSE {}
      /\ misbooked' = (misbooked \/ ~stored \/ s # decided)
      /\ UNCHANGED <<hour, overlapped>>

SponsorTick ==
  /\ hour < MaxHour /\ hour' = hour + 1
  /\ UNCHANGED <<ledger, order, overlapped, misbooked>>

SponsorNext ==
  \/ SponsorTick
  \/ \E o \in Orders :
       \/ \E q \in Asked, user \in Subs : Evaluate(o, q, user)
       \/ ReadBreaker(o) \/ ReadQuota(o)
       \/ \E user \in Subs : SendSponsored(o, user)
       \/ \E wei \in 1..MaxCost, ok \in BOOLEAN : Execute(o, wei, ok)
       \/ \E stored \in BOOLEAN : RecordSponsorshipUsage(o, stored)

SponsorSpec == SponsorInit /\ [][SponsorNext]_sponsorVars

PolicyChains == {q.chain : q \in Asked}
SponsoredSubjects == {q.eoa : q \in Asked} \cup Subs

\* The subject that an order was approved for.
Decided(o) == QuotaSubject(Resolve(order[o].asked.chain), order[o].asked.eoa, order[o].user)

\* What the funder really paid for a chain, and for a subject on it, in the last hours.
Paid(c) ==
  {o \in Open({"landed", "failed", "booked"}) :
     order[o].asked.chain = c /\ order[o].landed >= hour - Resolve(c).window}
PaidFor(s, c) == {o \in Paid(c) : Decided(o) = s}
Cost(os) == TotalWei({<<o, order[o].wei>> : o \in os})

\* One at a time, sponsored transactions overdraw a quota and the breaker by less
\* than one transaction in any window, and a subject with a quota left is below
\* it.  Quotes that overlap may all be approved on the same ledger, and spending
\* that failed, or was booked for the account instead of the user, is not counted.
QuotaHolds ==
  overlapped \/ misbooked \/
  \A c \in PolicyChains :
    LET cfg == Resolve(c)
    IN  cfg.sponsor_all \/
        /\ Cost(Paid(c)) < cfg.breaker + MaxCost
        /\ \A s \in SponsoredSubjects \ {NoUser} :
             LET cost == Cost(PaidFor(s, c))
             IN  /\ cost < Cap(cfg, s) + MaxCost
                 /\ cost >= Cap(cfg, s) /\ Open({"landed"}) = {} => QuotaStatus(s, c).remaining = 0

-----------------------------------------------------------------------------
(* The inductive invariant of QuotaHolds *)

OrderRow ==
  [phase : {"new"}]
  \cup [phase : {"breaker", "quota", "quoted", "denied"}, asked : Asked, user : Subs]
  \cup [phase : {"sent"}, asked : Asked, user : Subs, subject : SponsoredSubjects]
  \cup [phase : {"landed", "failed", "booked"}, asked : Asked, user : Subs, subject : SponsoredSubjects,
        wei : 1..MaxCost, landed : Nat]
UsageRow == [tx : Orders, subject : SponsoredSubjects, chain : PolicyChains, wei : 1..MaxCost, at : Nat]

SponsorTypeOK ==
  /\ hour \in Nat /\ ledger \in SUBSET UsageRow /\ order \in [Orders -> OrderRow]
  /\ overlapped \in BOOLEAN /\ misbooked \in BOOLEAN
  /\ \A o \in Open({"landed", "failed", "booked"}) : order[o].landed <= hour

\* What was spent is in the ledger under the subject it was approved for, and not
\* before it was spent.
SpendingBooked ==
  /\ Open({"failed"}) = {}
  /\ \A o \in Open({"booked"}) : \E r \in ledger :
       /\ r.tx = o /\ r.chain = order[o].asked.chain /\ r.wei = order[o].wei
       /\ r.subject = Decided(o) /\ r.at >= order[o].landed

Limited(o) == ~Resolve(order[o].asked.chain).sponsor_all

\* One quote at a time is past the breaker and not booked.
OneAtATime ==
  \A o, p \in Open({"quota", "quoted", "sent", "landed"}) : Limited(o) /\ Limited(p) => o = p

\* Until a quote that passed the breaker, or the quota, is spent, the real
\* spending is below that limit.
BelowBreaker ==
  \A c \in PolicyChains : ~Resolve(c).sponsor_all =>
    /\ Cost(Paid(c)) < Resolve(c).breaker + MaxCost
    /\ (\E o \in Open({"quota", "quoted", "sent"}) : order[o].asked.chain = c) =>
         Cost(Paid(c)) < Resolve(c).breaker
BelowQuota ==
  \A c \in PolicyChains, s \in SponsoredSubjects : ~Resolve(c).sponsor_all =>
    /\ Cost(PaidFor(s, c)) < Cap(Resolve(c), s) + MaxCost
    /\ (\E o \in Open({"quoted", "sent"}) : order[o].asked.chain = c /\ Decided(o) = s) =>
         Cost(PaidFor(s, c)) < Cap(Resolve(c), s)

SponsorIInv ==
  /\ SponsorTypeOK
  /\ overlapped \/ misbooked \/ (SpendingBooked /\ OneAtATime /\ BelowBreaker /\ BelowQuota)
==============================================================================
