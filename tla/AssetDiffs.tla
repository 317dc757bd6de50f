------------------------------ MODULE AssetDiffs -----------------------------
(***************************************************************************)
(* Asset diffs: what a quote or a confirmed bundle shows its user.  The    *)
(* transfers that a transaction logs are recorded one after another, as    *)
(* credits and debits for ERC-20 tokens and as arrivals and departures for *)
(* NFTs, and collapsed into one entry per account and asset.  The entries  *)
(* of the intent and of the fee payer's intent are merged when they run on *)
(* the same chain, and the payment for the intent is taken out again.      *)
(***************************************************************************)
EXTENDS Integers

CONSTANTS
  Parties,     \* accounts
  Fungibles,   \* ERC-20 tokens and the native one
  Nfts,        \* token ids of an ERC-721 contract
  Amounts,     \* amounts of a transfer
  FeeAmount,   \* payment for the intent
  Payer,       \* the account that pays it
  Collector,   \* the account that gets it
  FeeAsset,    \* and in what
  MaxLogs      \* [b]: bound on the transfers of an intent

ASSUME DiffAssumption ==
  /\ Amounts \subseteq Nat /\ FeeAmount \in Nat
  /\ Payer \in Parties /\ Collector \in Parties /\ FeeAsset \in Fungibles

VARIABLES
  intentOf,    \* [b]: AssetDiffsBuilder of an intent
  moved,       \* [b][account, token]: change of the balance
  owner,       \* [nft]: its owner
  origin,      \* [b][nft]: its owner when the intent began
  logged,      \* [b]: transfers so far
  current      \* the intent that runs

diffVars == <<intentOf, moved, owner, origin, logged, current>>

Runs == 1..2
EmptyBuilder ==
  [fungible |-> [k \in Parties \X Fungibles |-> [credit |-> 0, debit |-> 0, to |-> {}]],
   nft |-> {}]

DiffInit ==
  /\ intentOf = [b \in Runs |-> EmptyBuilder]
  /\ moved = [b \in Runs |-> [k \in Parties \X Fungibles |-> 0]]
  /\ owner \in [Nfts -> Parties] /\ origin = [b \in Runs |-> owner]
  /\ logged = [b \in Runs |-> 0] /\ current = 1

\* record_erc20: the receiver is credited, then the sender debited.
RecordErc20(fungible, t, from, to, n) ==
  LET credited == [fungible EXCEPT ![<<to, t>>].credit = @ + n]
  IN  [credited EXCEPT ![<<from, t>>].debit = @ + n, ![<<from, t>>].to = @ \cup {to}]

LogErc20(b, t, from, to, n) ==
  /\ current = b /\ logged[b] < MaxLogs[b]
  /\ intentOf' = [intentOf EXCEPT ![b].fungible = RecordErc20(@, t, from, to, n)]
  /\ moved' = [moved EXCEPT ![b] = [k \in DOMAIN @ |->
       @[k] + (IF k = <<to, t>> THEN n ELSE 0) - (IF k = <<from, t>> THEN n ELSE 0)]]
  /\ logged' = [logged EXCEPT ![b] = @ + 1]
  /\ UNCHANGED <<owner, origin, current>>

\* Mutant of Collapse: the opposite entry stays.
CollapseNever(map, who, dir, id, to) == map \cup {[who |-> who, dir |-> dir, id |-> id, to |-> to]}

\* One side of an NFT's transfer: it cancels an entry of the opposite direction.
Collapse(map, who, dir, id, to) ==
  LET Opposite(e) == e.who = who /\ e.id = id /\ e.dir # dir
      Same(e) == e.who = who /\ e.id = id /\ e.dir = dir
  IN  IF \E e \in map : Opposite(e) THEN {e \in map : ~Opposite(e)}
      ELSE {e \in map : ~Same(e)} \cup {[who |-> who, dir |-> dir, id |-> id, to |-> to]}

\* record_erc721: the sender first.
LogErc721(b, id, to) ==
  /\ current = b /\ logged[b] < MaxLogs[b]
  /\ intentOf' = [intentOf EXCEPT ![b].nft =
       Collapse(Collapse(@, owner[id], "out", id, {to}), to, "in", id, {})]
  /\ owner' = [owner EXCEPT ![id] = to]
  /\ logged' = [logged EXCEPT ![b] = @ + 1]
  /\ UNCHANGED <<moved, origin, current>>

\* The fee payer's intent follows.
NextIntent ==
  /\ current = 1 /\ current' = 2
  /\ origin' = [origin EXCEPT ![2] = owner]
  /\ UNCHANGED <<intentOf, moved, owner, logged>>

DiffNext ==
  \/ \E b \in Runs :
       \/ \E t \in Fungibles, from \in Parties, to \in Parties, n \in Amounts : LogErc20(b, t, from, to, n)
       \/ \E id \in Nfts, to \in Parties : LogErc721(b, id, to)
  \/ NextIntent

DiffSpec == DiffInit /\ [][DiffNext]_diffVars

-----------------------------------------------------------------------------
(* A diff is a value, a direction and the recipients; without a change there is none. *)

Entry(in, out, to) ==
  IF in > out THEN [value |-> in - out, dir |-> "in", to |-> {}]
  ELSE [value |-> out - in, dir |-> "out", to |-> to]

\* build: entries of a zero net are skipped.
Build(f) ==
  [k \in {k \in DOMAIN f : f[k].credit # f[k].debit} |-> Entry(f[k].credit, f[k].debit, f[k].to)]

\* AssetDiff::merge.
MergeDiff(x, y) ==
  [dir |-> IF x.dir # y.dir /\ y.value > x.value THEN y.dir ELSE x.dir,
   value |-> IF x.dir = y.dir THEN x.value + y.value
             ELSE IF y.value > x.value THEN y.value - x.value ELSE x.value - y.value,
   to |-> x.to \cup y.to]

\* AssetDiffResponse::merge on one chain: entries that became zero are removed.
MergeDiffs(xs, ys) ==
  LET both == DOMAIN xs \cap DOMAIN ys
      all == [k \in DOMAIN xs \cup DOMAIN ys |->
                IF k \in both THEN MergeDiff(xs[k], ys[k]) ELSE IF k \in DOMAIN xs THEN xs[k] ELSE ys[k]]
  IN  [k \in {k \in DOMAIN all : all[k].value # 0} |-> all[k]]

\* remove_payer_fee.
RemovePayerFee(xs, payer, asset, fee) ==
  LET Without(x) ==
        IF x.dir = "in" THEN [x EXCEPT !.value = @ + fee]
        ELSE IF x.value > fee THEN [x EXCEPT !.value = @ - fee]
        ELSE [x EXCEPT !.value = fee - @, !.dir = "in"]
      all == [k \in DOMAIN xs |-> IF k = <<payer, asset>> THEN Without(xs[k]) ELSE xs[k]]
  IN  [k \in {k \in DOMAIN all : all[k].value # 0} |-> all[k]]

-----------------------------------------------------------------------------
Change(diffs, k) ==
  IF k \notin DOMAIN diffs THEN 0 ELSE IF diffs[k].dir = "in" THEN diffs[k].value ELSE -diffs[k].value

\* A diff tells how the balances changed: for one intent, for the merged diffs of an
\* intent and of its fee payer's, and for the intent without its payment, of which
\* only a payer who received exactly the fee is told nothing.  An NFT is shown as
\* leaving its first owner for its last one and nowhere between, and not at all if it
\* came back.
DiffsTell ==
  /\ \A b \in {b \in 1..current : logged[b] > 0} : \A k \in DOMAIN moved[b] :
       /\ Change(Build(intentOf[b].fungible), k) = moved[b][k]
       /\ LET paid == RecordErc20(intentOf[b].fungible, FeeAsset, Payer, Collector, FeeAmount)
              told == Change(RemovePayerFee(Build(paid), Payer, FeeAsset, FeeAmount), k)
          IN  k[1] # Collector => told = moved[b][k] \/ (k = <<Payer, FeeAsset>> /\ moved[b][k] = FeeAmount /\ told = 0)
  /\ current = 2 => \A k \in DOMAIN moved[1] :
       Change(MergeDiffs(Build(intentOf[1].fungible), Build(intentOf[2].fungible)), k) = moved[1][k] + moved[2][k]
  /\ \A b \in 1..current : \A id \in Nfts :
       LET last == IF b = 1 /\ current = 2 THEN origin[2][id] ELSE owner[id]
       IN  {<<e.who, e.dir>> : e \in {e \in intentOf[b].nft : e.id = id}}
             = IF last = origin[b][id] THEN {} ELSE {<<origin[b][id], "out">>, <<last, "in">>}

(***************************************************************************)
(* The inductive invariant of DiffsTell                                    *)
(***************************************************************************)

DiffTypeOK ==
  /\ DOMAIN intentOf = Runs /\ DOMAIN origin = Runs /\ DOMAIN moved = Runs /\ current \in Runs
  /\ owner \in [Nfts -> Parties] /\ \A b \in Runs : origin[b] \in [Nfts -> Parties]
  /\ \A b \in Runs : /\ DOMAIN intentOf[b] = {"fungible", "nft"}
                     /\ DOMAIN intentOf[b].fungible = Parties \X Fungibles
                     /\ DOMAIN moved[b] = Parties \X Fungibles
                     /\ \A k \in Parties \X Fungibles :
                          DOMAIN intentOf[b].fungible[k] = {"credit", "debit", "to"}
                     /\ \A e \in intentOf[b].nft : e.dir \in {"in", "out"}

\* What was credited and debited is how a balance changed.
Booked ==
  \A b \in Runs : \A k \in Parties \X Fungibles :
    /\ intentOf[b].fungible[k].credit \in Nat /\ intentOf[b].fungible[k].debit \in Nat
    /\ moved[b][k] = intentOf[b].fungible[k].credit - intentOf[b].fungible[k].debit

\* What is recorded of an NFT: who gave it and who got it.
Sides(nft, id) == {<<e.who, e.dir>> : e \in {e \in nft : e.id = id}}
FirstToLast(first, last) == IF last = first THEN {} ELSE {<<first, "out">>, <<last, "in">>}

NftsTracked ==
  /\ \A id \in Nfts : Sides(intentOf[current].nft, id) = FirstToLast(origin[current][id], owner[id])
  /\ current = 1 => intentOf[2].nft = {}
  /\ current = 2 => \A id \in Nfts : Sides(intentOf[1].nft, id) = FirstToLast(origin[1][id], origin[2][id])

DiffIInv == DiffTypeOK /\ Booked /\ NftsTracked
=============================================================================
