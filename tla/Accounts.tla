------------------------------ MODULE Accounts -------------------------------
(***************************************************************************)
(* One account on one chain: its upgrade with a stored 7702 authorization, *)
(* its keys, and the signed pre-calls that configure a key.  A pre-call is *)
(* stored until an intent of its key carries it or wallet_executePreCalls  *)
(* sends it; each key has its own sequence of nonces on the chain.         *)
(***************************************************************************)
EXTENDS Integers, Sequences, SequencesExt

CONSTANTS
  Keys,      \* keys other than the root key
  Admins,    \* those that are created as admins
  Intents,   \* intents
  Executions,\* requests of wallet_executePreCalls
  MaxNonce,  \* bound on the nonces of a sequence
  ClientNonces, \* bound on the nonces that a client chooses itself
  MaxStored, \* bound on stored pre-calls
  MaxOwn     \* bound on transactions that the account sends itself

ASSUME AccountAssumption == MaxNonce \in Nat /\ ClientNonces \subseteq 0..(MaxNonce - 1)

VARIABLES
  code,      \* delegation of the account on the chain: none, legacy or current
  txCount,   \* transactions of the account, authorizations included
  keysOn,    \* keys on the chain
  seqNonce,  \* [k] next nonce of the sequence of k
  stored,    \* accounts row: the authorization's nonce and the keys, or nothing
  upgrade,   \* context that prepareUpgradeAccount gave to the client, or nothing
  precalls,  \* rows of precalls
  offers,    \* nonces that the relay gave to a pre-call for the client to sign
  intent,    \* [i]
  execution, \* [e]
  lost       \* rows that were removed although their nonce was not used

accountVars == <<code, txCount, keysOn, seqNonce, stored, upgrade, precalls, offers, intent, execution, lost>>

Idle == [phase |-> "new"]

AccountInit ==
  /\ code \in {"none", "legacy"} /\ txCount = 0 /\ keysOn = IF code = "none" THEN {} ELSE Keys
  /\ seqNonce = [k \in Keys |-> 0]
  /\ stored = {} /\ upgrade = {} /\ precalls = {} /\ offers = {} /\ lost = {}
  /\ intent = [i \in Intents |-> Idle] /\ execution = [e \in Executions |-> Idle]

\* delegation_status: on the chain, or stored, or none.
DelegationStatus == IF code # "none" THEN "delegated" ELSE IF stored # {} THEN "stored" ELSE "unknown"

\* get_keys_for_chain: of the chain, or of the stored account before its first use.
KeysForChain ==
  CASE DelegationStatus = "delegated" -> keysOn
    [] DelegationStatus = "stored" -> UNION {a.keys : a \in stored}
    [] OTHER -> {}

\* prepare_upgrade_account (bound: one stored account).
PrepareUpgradeAccount(ks) ==
  /\ upgrade = {} /\ stored = {} /\ code = "none"
  /\ upgrade' = {[nonce |-> txCount, keys |-> ks]}
  /\ UNCHANGED <<code, txCount, keysOn, seqNonce, stored, precalls, offers, intent, execution, lost>>

\* upgrade_account: the authorization must still have the nonce of the account.
UpgradeAccount ==
  /\ \E u \in upgrade : u.nonce = txCount /\ stored' = {u}
  /\ upgrade' = {}
  /\ UNCHANGED <<code, txCount, keysOn, seqNonce, precalls, offers, intent, execution, lost>>

Rows(k) == {p \in precalls : p.key = k}

NoNonce == -1
\* get_nonce for a pre-call that configures k: that of the request, if it has one; the
\* first for an account that is not named; else the one after the last stored, or that
\* of the chain.
GetNonce(k, given, named) ==
  CASE given # NoNonce -> given
    [] given = NoNonce /\ ~named -> 0
    [] OTHER -> IF Rows(k) = {} THEN seqNonce[k] ELSE Max({p.nonce : p \in Rows(k)}) + 1

\* prepare_calls for a pre-call that configures k; nothing is written down of it.
PreparePreCall(k, given, named) ==
  LET nonce == GetNonce(k, given, named)
  IN  /\ nonce < MaxNonce
      /\ offers' = IF given = NoNonce THEN offers \cup {[key |-> k, nonce |-> nonce]} ELSE offers
      /\ UNCHANGED <<code, txCount, keysOn, seqNonce, stored, upgrade, precalls, intent, execution, lost>>

\* The nonce is one that the relay gave out.
GivenOut(p) == [key |-> p.key, nonce |-> p.nonce] \in offers

\* send_prepared_calls with a pre-call, any that is signed by the root key or an admin
\* key of the account; the nonce of a row is unique.
SendPreCall(p, by) ==
  /\ DelegationStatus # "unknown"
  /\ by = "root" \/ (by \in KeysForChain /\ by \in Admins)
  /\ (\A q \in Rows(p.key) : q.nonce # p.nonce) /\ Cardinality(precalls) < MaxStored
  /\ precalls' = precalls \cup {[key |-> p.key, nonce |-> p.nonce, op |-> p.op, by |-> by,
                                     chosen |-> ~GivenOut(p)]}
  /\ UNCHANGED <<code, txCount, keysOn, seqNonce, stored, upgrade, offers, intent, execution, lost>>

\* The stored pre-calls of k whose nonces continue the chain's, and those used up.
Executable(k) == {p \in Rows(k) : p.nonce >= seqNonce[k] /\ \A n \in seqNonce[k]..p.nonce : \E q \in Rows(k) : q.nonce = n}
Stale(k) == {p \in Rows(k) : p.nonce < seqNonce[k]}
\* The pre-calls of one key, by nonce.
InOrder(S) ==
  [i \in 1..Cardinality(S) |-> CHOOSE p \in S : Cardinality({q \in S : q.nonce < p.nonce}) = i - 1]

Unused(S) == {p \in S : p.nonce >= seqNonce[p.key]}

\* try_find_key: the root key, a key that a pre-call authorizes, or one of the account.
TryFindKey(k, calls) ==
  \/ k = "root"
  \/ \E i \in DOMAIN calls : calls[i].op = "authorize" /\ calls[i].key = k
  \/ k \in KeysForChain

\* build_intent for a signing key.  A client may hand over a pre-call itself.  The
\* quote for an unknown account is made for the root key and marked as such.
BuildIntent(i, k, inline) ==
  LET mine == IF k = "root" THEN {} ELSE Executable(k)
      old == IF k = "root" THEN {} ELSE Stale(k)
      calls == InOrder(inline) \o InOrder(mine)
  IN  /\ intent[i].phase = "new"
      /\ precalls' = precalls \ old
      /\ lost' = lost \cup Unused(old)
      /\ intent' = [intent EXCEPT ![i] =
           IF DelegationStatus # "unknown" /\ ~TryFindKey(k, calls) THEN Idle
           ELSE [phase |-> "quoted", key |-> k, calls |-> calls, unknown |-> DelegationStatus = "unknown",
                 auth |-> IF DelegationStatus = "stored" THEN stored ELSE {},
                 migrate |-> code = "legacy"]]
      /\ UNCHANGED <<code, txCount, keysOn, seqNonce, stored, upgrade, offers, execution>>

\* prepare_tx: the authorization of the quote is the stored one and fits the
\* account, or the account is delegated.
PrepareTx(i) ==
  LET q == intent[i]
      ok == ~q.unknown /\ IF q.auth # {} THEN stored # {} /\ \A a \in stored : a.nonce = txCount ELSE code # "none"
  IN  /\ q.phase = "quoted"
      /\ intent' = [intent EXCEPT ![i] = IF ok THEN [q EXCEPT !.phase = "sent", !.auth = IF q.auth = {} THEN {} ELSE stored]
                                         ELSE Idle]
      /\ UNCHANGED <<code, txCount, keysOn, seqNonce, stored, upgrade, precalls, offers, execution, lost>>

\* What the chain does with a pre-call: it fails, or it uses its nonce.
AppliedCall(s, p) ==
  IF s.ok /\ s.seq[p.key] = p.nonce /\ (p.by = "root" \/ p.by \in s.keys)
  THEN [ok |-> TRUE, seq |-> [s.seq EXCEPT ![p.key] = @ + 1],
        keys |-> IF p.op = "authorize" THEN s.keys \cup {p.key} ELSE s.keys \ {p.key}]
  ELSE [s EXCEPT !.ok = FALSE]

\* The account after pre-calls in order, or a failure.
Applied(start, calls) ==
  LET after[i \in 0..Len(calls)] == IF i = 0 THEN start ELSE AppliedCall(after[i - 1], calls[i])
  IN  after[Len(calls)]

\* The delegation by an authorization, which counts even if the calls fail, and
\* the initial pre-call of the account with it.
Delegates(auth) == \E a \in auth : a.nonce = txCount
StartOf(auth) ==
  [ok |-> code # "none" \/ Delegates(auth), seq |-> seqNonce,
   keys |-> keysOn \cup (IF Delegates(auth) THEN UNION {a.keys : a \in auth} ELSE {})]
Landed(auth, end) ==
  /\ code' = IF Delegates(auth) THEN "current" ELSE code
  /\ txCount' = IF Delegates(auth) THEN txCount + 1 ELSE txCount
  /\ seqNonce' = IF end.ok THEN end.seq ELSE seqNonce
  /\ keysOn' = IF end.ok THEN end.keys ELSE keysOn

ExecuteIntent(i) ==
  LET q == intent[i]
      end == Applied(StartOf(q.auth), q.calls)
      good == [end EXCEPT !.ok = @ /\ (q.key = "root" \/ q.key \in end.keys)]
  IN  /\ q.phase = "sent"
      /\ IF q.migrate /\ good.ok THEN code' = "current" /\ txCount' = txCount /\ seqNonce' = good.seq /\ keysOn' = good.keys
         ELSE Landed(q.auth, good)
      /\ intent' = [intent EXCEPT ![i] = [phase |-> "done"]]
      /\ UNCHANGED <<stored, upgrade, precalls, offers, execution, lost>>

\* The executable pre-calls of one key after the other.
KeyByKey(order) ==
  LET all == UNION {Executable(order[i]) : i \in DOMAIN order}
      Before(q, p) ==
        \E i, j \in DOMAIN order :
          order[i] = q.key /\ order[j] = p.key /\ (i < j \/ (i = j /\ q.nonce < p.nonce))
  IN  [i \in 1..Cardinality(all) |-> CHOOSE p \in all : Cardinality({q \in all : Before(q, p)}) = i - 1]

\* execute_pre_calls, up to the sending: the executable pre-calls of every key, the
\* keys in any order (a hash map); estimate_gas fails if they would.
SelectPreCalls(e, order, sponsored) ==
  LET calls == KeyByKey(order)
      auth == IF code = "none" THEN stored ELSE {}
      stale == UNION {Stale(k) : k \in Keys}
  IN  /\ execution[e].phase = "new" /\ precalls # {} /\ DelegationStatus # "unknown"
      /\ precalls' = precalls \ stale /\ lost' = lost \cup Unused(stale)
      /\ execution' = [execution EXCEPT ![e] =
           IF calls = <<>> \/ ~sponsored \/ ~Applied(StartOf(auth), calls).ok THEN Idle
           ELSE [phase |-> "sent", calls |-> calls, auth |-> auth]]
      /\ UNCHANGED <<code, txCount, keysOn, seqNonce, stored, upgrade, offers, intent>>

ExecutionLands(e) ==
  LET x == execution[e]
      end == Applied(StartOf(x.auth), x.calls)
  IN  /\ x.phase = "sent"
      /\ Landed(x.auth, end)
      /\ execution' = [execution EXCEPT ![e] = [x EXCEPT !.phase = IF end.ok THEN "confirmed" ELSE "reverted"]]
      /\ UNCHANGED <<stored, upgrade, precalls, offers, intent, lost>>

\* Rows are removed by account and nonce.
SameRows(calls) == {p \in precalls : \E i \in DOMAIN calls : calls[i].key = p.key /\ calls[i].nonce = p.nonce}

\* Mutant of ExecutionDone: the pre-calls are removed however the transaction ended.
ExecutionDoneAnyway(e) ==
  LET x == execution[e]
      used == SameRows(x.calls)
  IN  /\ x.phase \in {"sent", "confirmed", "reverted"}
      /\ execution' = [execution EXCEPT ![e] = [phase |-> "done"]]
      /\ lost' = lost \cup Unused(used) /\ precalls' = precalls \ used
      /\ UNCHANGED <<code, txCount, keysOn, seqNonce, stored, upgrade, offers, intent>>

\* The transaction was waited for: a success removes the rows; a revert, or a
\* transaction that did not confirm, is an error and leaves them.
ExecutionDone(e) ==
  LET x == execution[e]
      used == IF x.phase = "confirmed" THEN SameRows(x.calls) ELSE {}
  IN  /\ x.phase \in {"sent", "confirmed", "reverted"}
      /\ execution' = [execution EXCEPT ![e] = [phase |-> "done"]]
      /\ lost' = lost \cup Unused(used) /\ precalls' = precalls \ used
      /\ UNCHANGED <<code, txCount, keysOn, seqNonce, stored, upgrade, offers, intent>>

\* The account sends a transaction of its own.
OwnTransaction ==
  /\ txCount < MaxOwn /\ txCount' = txCount + 1
  /\ UNCHANGED <<code, keysOn, seqNonce, stored, upgrade, precalls, offers, intent, execution, lost>>

Operations == {"authorize", "revoke"}
PreCalls ==
  {p \in [key : Keys, nonce : 0..(MaxNonce - 1), op : Operations] : GivenOut(p) \/ p.nonce \in ClientNonces}
\* Bound on what a client hands over with an intent: one pre-call that authorizes a key.
Inline ==
  {{}} \cup {{[key |-> p.key, nonce |-> p.nonce, op |-> "authorize", by |-> "root"]} : p \in PreCalls}

AccountNext ==
  \/ \E ks \in SUBSET Keys : PrepareUpgradeAccount(ks)
  \/ UpgradeAccount \/ OwnTransaction
  \/ \E k \in Keys, given \in {NoNonce} \cup ClientNonces, named \in BOOLEAN : PreparePreCall(k, given, named)
  \/ \E p \in PreCalls, by \in Keys \cup {"root"} : SendPreCall(p, by)
  \/ \E i \in Intents :
       \/ \E k \in Keys \cup {"root"}, inline \in Inline : BuildIntent(i, k, inline)
       \/ PrepareTx(i) \/ ExecuteIntent(i)
  \/ \E e \in Executions :
       \/ \E order \in SetToSeqs(Keys), sponsored \in BOOLEAN : SelectPreCalls(e, order, sponsored)
       \/ ExecutionLands(e) \/ ExecutionDone(e)

AccountSpec == AccountInit /\ [][AccountNext]_accountVars

\* The nonce n is stored, or missing in front of a stored one that the client chose and
\* that p comes after.
Accounted(p, n) ==
  \E q \in Rows(p.key) : q.nonce = n \/ (q.chosen /\ q.nonce \in (n + 1)..p.nonce)

\* A stored pre-call leaves the storage only when its nonce is used on the chain, and
\* the relay makes no gaps: a nonce that is missing in front of a stored pre-call, which
\* build_intent and execute_pre_calls stop at, is one that a client left out when it
\* chose a nonce itself.
PrecallsKept ==
  /\ lost = {}
  /\ \A p \in precalls : \A n \in seqNonce[p.key]..(p.nonce - 1) : Accounted(p, n)

(***************************************************************************)
(* The inductive invariant of PrecallsKept                                 *)
(***************************************************************************)

IsCallList(cs) == Len(cs) \in Nat /\ DOMAIN cs = 1..Len(cs)

AccountTypeOK ==
  /\ seqNonce \in [Keys -> Nat] /\ IsFiniteSet(precalls)
  /\ \A p \in offers \cup precalls : p.key \in Keys /\ p.nonce \in 0..MaxNonce
  /\ DOMAIN intent = Intents /\ DOMAIN execution = Executions
  /\ \A i \in Intents : intent[i].phase \in {"quoted", "sent"} => IsCallList(intent[i].calls)
  /\ \A e \in Executions : execution[e].phase \in {"sent", "confirmed"} => IsCallList(execution[e].calls)

\* The same of the pre-calls that the relay gave a nonce to.
NoGaps ==
  \A p \in offers \cup precalls : \A n \in seqNonce[p.key]..(p.nonce - 1) : Accounted(p, n)

\* The nonces of a transaction that was confirmed are used.
ConfirmedUsed ==
  \A e \in Executions : execution[e].phase = "confirmed" =>
    \A i \in DOMAIN execution[e].calls :
      LET p == execution[e].calls[i] IN p.key \in Keys => p.nonce \in 0..(seqNonce[p.key] - 1)

AccountIInv == AccountTypeOK /\ NoGaps /\ ConfirmedUsed /\ lost = {}
=============================================================================
