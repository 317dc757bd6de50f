------------------------------- MODULE AssetInfo -----------------------------
(***************************************************************************)
(* Metadata of tokens.  A service task owns the cache: pinned entries for  *)
(* fee tokens and an LRU map of bounded length for the others.  A request  *)
(* asks the task, queries the chain for what is missing, and sends the     *)
(* answers back to the task; requests overlap.  Each field of the metadata *)
(* is missing if its call fails or cannot be decoded: of a contract that   *)
(* is no standard token some are, of a token that is not deployed yet all  *)
(* are, and either is cached like any other.  The asset diff of a          *)
(* simulated transaction asks again, after the simulation, for every token *)
(* without a symbol.                                                       *)
(***************************************************************************)
EXTENDS Naturals, SequencesExt

CONSTANTS
  Erc20s,       \* tokens of the chain
  PinnedErc20s, \* those that are fee tokens
  Capacity,     \* capacity of the LRU map
  Lists,        \* requests for a list of assets
  Diffs,        \* requests for the asset diff of a simulated transaction
  Wanted,       \* the lists that they ask for
  Contract      \* [t]: the metadata that the contract of a token answers, once it is there

\* Metadata, told apart by the fields that it has.
Metas == {"full", "no symbol", "no decimals", "empty"}
HasSymbol(meta) == meta \in {"full", "no decimals"}

ASSUME AssetAssumption ==
  /\ Capacity \in Nat \ {0}
  /\ PinnedErc20s \subseteq Erc20s /\ Wanted \subseteq Seq(Erc20s \cup {"native"})
  /\ Contract \in [Erc20s -> Metas]

VARIABLES
  deployed,    \* tokens that exist on chain
  mailbox,     \* messages of the service's task
  pinned,      \* fee_tokens: metadata of a fee token, or "none"
  lru,         \* cache: a sequence of entries, the one used last at the end
  info         \* [r]: a request

assetVars == <<deployed, mailbox, pinned, lru, info>>

Native == "native"
Inquiries == Lists \cup Diffs
NoList == [phase |-> "new", assets |-> <<>>, creates |-> {}, found |-> <<>>]

AssetInit ==
  /\ deployed \in SUBSET Erc20s
  /\ mailbox = <<>>
  /\ pinned = [t \in PinnedErc20s |-> "none"]
  /\ lru = <<>>
  /\ info = [r \in Inquiries |-> NoList]

-----------------------------------------------------------------------------
(* The service's task. *)

Holds(cacheSeq, t) == \E i \in DOMAIN cacheSeq : cacheSeq[i].token = t
\* LruMap::get moves the entry to the end.
Touch(cacheSeq, t) ==
  IF ~Holds(cacheSeq, t) THEN cacheSeq
  ELSE LET at == CHOOSE i \in DOMAIN cacheSeq : cacheSeq[i].token = t
       IN  [i \in DOMAIN cacheSeq |->
              cacheSeq[IF i < at THEN i ELSE IF i < Len(cacheSeq) THEN i + 1 ELSE at]]
\* LruMap::get_or_insert keeps an entry that is there, and evicts the oldest one
\* to make room for another.
GetOrInsert(cacheSeq, t, meta) ==
  IF Holds(cacheSeq, t) THEN Touch(cacheSeq, t)
  ELSE Append(IF Len(cacheSeq) = Capacity THEN Tail(cacheSeq) ELSE cacheSeq, [token |-> t, meta |-> meta])

PinnedNow(a) == a \in PinnedErc20s /\ pinned[a] # "none"
\* What the task answers for one asset, and an empty set if it does not know it.
Known(a) ==
  IF a = Native THEN {"full"}
  ELSE IF PinnedNow(a) THEN {pinned[a]} ELSE {e.meta : e \in {lru[i] : i \in {j \in DOMAIN lru : lru[j].token = a}}}

\* The cache after the assets of a lookup, one after the other.
AfterLookup(assets) ==
  LET after[i \in 0..Len(assets)] ==
        IF i = 0 THEN lru
        ELSE IF assets[i] = Native \/ PinnedNow(assets[i]) THEN after[i - 1] ELSE Touch(after[i - 1], assets[i])
  IN  after[Len(assets)]

\* AssetInfoService::lookup.
LookupAssets(msg) ==
  /\ msg.kind = "lookup"
  /\ LET r == msg.r
         known == {a \in ToSet(info[r].assets) : Known(a) # {}}
     IN  info' = [info EXCEPT ![r].phase = "answered",
                              ![r].found = [a \in known |-> CHOOSE m \in Known(a) : TRUE]]
  /\ lru' = AfterLookup(info[msg.r].assets)
  /\ UNCHANGED pinned

\* The cache after the answers of a query, one after the other.
AfterUpdate(tokens, metas) ==
  LET after[i \in 0..Len(tokens)] ==
        IF i = 0 THEN lru
        ELSE IF tokens[i] \in PinnedErc20s \/ tokens[i] \notin DOMAIN metas THEN after[i - 1]
        ELSE GetOrInsert(after[i - 1], tokens[i], metas[tokens[i]])
  IN  after[Len(tokens)]

\* AssetInfoService::update.
UpdateAssets(msg) ==
  /\ msg.kind = "update"
  /\ pinned' = [t \in PinnedErc20s |-> IF t \in DOMAIN msg.metas THEN msg.metas[t] ELSE pinned[t]]
  /\ lru' = AfterUpdate(msg.tokens, msg.metas)
  /\ UNCHANGED info

ServeMessage ==
  /\ mailbox # <<>> /\ mailbox' = Tail(mailbox)
  /\ LookupAssets(Head(mailbox)) \/ UpdateAssets(Head(mailbox))
  /\ UNCHANGED deployed

-----------------------------------------------------------------------------
(* Requests. *)

\* get_asset_info_list begins; a diff lists the assets of the logs that its
\* transaction emitted, among them tokens that it creates.
Inquire(r, assets, creates) ==
  /\ info[r].phase = "new"
  /\ creates \subseteq ToSet(assets) \cap (Erc20s \ deployed) /\ (r \in Lists => creates = {})
  /\ r \in Diffs => ToSet(assets) \cap Erc20s \subseteq deployed \cup creates
  /\ info' = [info EXCEPT ![r] = [phase |-> "asked", assets |-> assets, creates |-> creates, found |-> <<>>]]
  /\ mailbox' = Append(mailbox, [kind |-> "lookup", r |-> r])
  /\ UNCHANGED <<deployed, pinned, lru>>

\* get_info: the fields that the contract answers, and none of a token that does not exist.
GetInfo(tokens, exist) == [t \in tokens |-> IF t \in exist THEN Contract[t] ELSE "empty"]

\* Mutant of Merge: only what was missing is returned.
MergeMissing(found, metas) == metas
\* The map of the answer: what was cached and what was missing.
Merge(found, metas) ==
  [a \in DOMAIN found \cup DOMAIN metas |-> IF a \in DOMAIN metas THEN metas[a] ELSE found[a]]

\* A list without missing assets is returned as it is; what is missing is read from
\* the chain and pushed to the cache.
FetchMissing(r) ==
  /\ info[r].phase = "answered"
  /\ LET missing == ToSet(info[r].assets) \ DOMAIN info[r].found
         metas == GetInfo(missing, deployed)
         next == IF r \in Diffs THEN "listed" ELSE "done"
     IN  IF missing = {}
         THEN info' = [info EXCEPT ![r].phase = next] /\ UNCHANGED mailbox
         ELSE /\ info' = [info EXCEPT ![r].phase = next, ![r].found = Merge(@, metas)]
              /\ mailbox' = Append(mailbox, [kind |-> "update", tokens |-> info[r].assets, metas |-> metas])
  /\ UNCHANGED <<deployed, pinned, lru>>

\* calculate_asset_diff: tokens without a symbol are read again after the simulated
\* transaction, and the answers are not cached.
FetchUndeployed(r) ==
  /\ info[r].phase = "listed"
  /\ LET undeployed == {a \in ToSet(info[r].assets) : a # Native /\ ~HasSymbol(info[r].found[a])}
     IN  info' = [info EXCEPT ![r].phase = "done",
                    ![r].found = Merge(@, GetInfo(undeployed, deployed \cup info[r].creates))]
  /\ UNCHANGED <<deployed, mailbox, pinned, lru>>

\* The node fails, in either query.
QueryFails(r) ==
  /\ info[r].phase = "listed" \/ (info[r].phase = "answered" /\ DOMAIN info[r].found # ToSet(info[r].assets))
  /\ info' = [info EXCEPT ![r].phase = "failed"]
  /\ UNCHANGED <<deployed, mailbox, pinned, lru>>

Deploy(t) ==
  /\ t \notin deployed /\ deployed' = deployed \cup {t}
  /\ UNCHANGED <<mailbox, pinned, lru, info>>

AssetNext ==
  \/ ServeMessage \/ (\E t \in Erc20s : Deploy(t))
  \/ \E r \in Inquiries :
       \/ \E assets \in Wanted, creates \in SUBSET Erc20s : Inquire(r, assets, creates)
       \/ FetchMissing(r) \/ FetchUndeployed(r) \/ QueryFails(r)

AssetSpec == AssetInit /\ [][AssetNext]_assetVars

-----------------------------------------------------------------------------
\* An answer has metadata for exactly the assets that were asked for: of each token what
\* its contract answers or, in a list, nothing of a token that was not there when it was
\* first asked for.  A diff has of each token what its contract answers, though the cache
\* remembers some as empty from before they were deployed, and some are there only after
\* the simulated transaction.  And the cache keeps to its capacity, a token once.
AssetsAnswered ==
  /\ \A r \in Inquiries : info[r].phase = "done" =>
       /\ DOMAIN info[r].found = ToSet(info[r].assets)
       /\ \A a \in DOMAIN info[r].found \ {Native} :
            \/ info[r].found[a] = Contract[a] /\ (r \in Diffs \/ a \in deployed)
            \/ info[r].found[a] = "empty" /\ r \notin Diffs
  /\ Len(lru) <= Capacity
  /\ \A i, j \in DOMAIN lru : lru[i].token = lru[j].token => i = j

(***************************************************************************)
(* The inductive invariant of AssetsAnswered                               *)
(***************************************************************************)

Listable == Erc20s \cup {Native}

\* Metadata is known only of tokens that exist, and is what their contracts answer.
TrueOf(a, m) == a = Native \/ m = "empty" \/ (a \in deployed /\ m = Contract[a])

\* Caches of the task: a token once, within the capacity.
Caches ==
  {c \in Seq([token : Listable, meta : Metas]) :
     /\ Len(c) <= Capacity
     /\ \A i, j \in DOMAIN c : c[i].token = c[j].token => i = j
     /\ \A i \in DOMAIN c : TrueOf(c[i].token, c[i].meta)}

\* What is told of assets.
TrueMetas(metas) ==
  \A a \in DOMAIN metas : a \in Listable /\ metas[a] \in Metas /\ TrueOf(a, metas[a])

MessageOK(msg) ==
  \/ msg.kind = "lookup" /\ msg.r \in Inquiries
  \/ msg.kind = "update" /\ msg.tokens \in Seq(Listable) /\ TrueMetas(msg.metas)

\* A request: before its answer the metadata that it found are true, and from the
\* list on they are of all its assets; the tokens of a diff exist after it.
InquiryOK(r, q) ==
  /\ DOMAIN q = {"phase", "assets", "creates", "found"} /\ q.assets \in Seq(Listable)
  /\ q.phase \in {"new", "asked"} \/ DOMAIN q.found \subseteq ToSet(q.assets)
  /\ q.phase = "answered" => ToSet(q.assets) \ DOMAIN q.found \subseteq Erc20s
  /\ q.phase \in {"listed", "done"} => DOMAIN q.found = ToSet(q.assets)
  /\ (r \in Diffs /\ q.phase = "done") \/ TrueMetas(q.found)
  /\ r \in Diffs => ToSet(q.assets) \cap Erc20s \subseteq deployed \cup q.creates
  /\ r \in Diffs /\ q.phase = "done" => \A a \in DOMAIN q.found \ {Native} : q.found[a] = Contract[a]
  /\ q.phase = "listed" => r \in Diffs

MessagesOK ==
  /\ mailbox \in Seq({mailbox[i] : i \in DOMAIN mailbox})
  /\ \A i \in DOMAIN mailbox : MessageOK(mailbox[i])
PinnedOK ==
  /\ DOMAIN pinned = PinnedErc20s
  /\ \A t \in PinnedErc20s : pinned[t] = "none" \/ (pinned[t] \in Metas /\ TrueOf(t, pinned[t]))
InquiriesOK == DOMAIN info = Inquiries /\ \A r \in Inquiries : InquiryOK(r, info[r])

AssetIInv == MessagesOK /\ PinnedOK /\ lru \in Caches /\ InquiriesOK
=============================================================================
