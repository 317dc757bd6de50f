-------------------------------- MODULE Auth ---------------------------------
(***************************************************************************)
(* Authentication of requests.  A bearer token is the key of the developer *)
(* hatch, or a JWT whose key is looked up by its id in a cache of the      *)
(* application's keys.  An unknown id makes the request fetch the keys and *)
(* replace the whole cache; requests do that concurrently while the        *)
(* application rotates its keys.  Whatever fails leaves the request        *)
(* without a verified subject.                                             *)
(***************************************************************************)
EXTENDS Naturals, FiniteSets

CONSTANTS
  Kids,         \* ids of signing keys
  AuthRequests, \* requests
  Tokens,       \* tokens: none, the developer key, or a JWT
  MaxTime,      \* bound on the clock
  MaxRotations  \* bound on the rotations of the keys

VARIABLES
  published,  \* keys that the application serves
  past,       \* keys that it ever served
  rotations,  \* number of rotations
  cache,      \* JwksCache.keys
  now,        \* the clock
  request     \* [r]: token, phase, keys fetched and the subject found

authVars == <<published, past, rotations, cache, now, request>>

NoSub == "nobody"

\* A token that was decoded has a subject and a time of expiry.
ASSUME TokensAssumption ==
  /\ MaxTime \in Nat /\ MaxRotations \in Nat
  /\ \A t \in Tokens :
       /\ t.kind \in {"none", "dev", "jwt"}
       /\ t.kind # "none" => t.sub # NoSub
       /\ t.kind = "jwt" => t.eddsa \in BOOLEAN /\ t.good \in BOOLEAN /\ t.exp \in Nat

Fresh == [phase |-> "new", token |-> [kind |-> "none"], fetched |-> {}, sub |-> NoSub,
          steady |-> FALSE, crossed |-> FALSE, failed |-> FALSE]

AuthInit ==
  /\ published \in {{k} : k \in Kids} /\ past = published /\ rotations = 0
  /\ cache = {}
  /\ now = 0
  /\ request = [r \in AuthRequests |-> Fresh]

Answer(r, sub) == [request EXCEPT ![r].phase = "done", ![r].sub = sub]

\* The signature is checked with the key of that id, then the expiry.
Checked(t) == IF t.good /\ t.exp > now THEN t.sub ELSE NoSub

\* JwtAuthService::call and the head of verify: a token that is missing, or not
\* signed with EdDSA, ends it.
Call(r, t) ==
  /\ request[r].phase = "new"
  /\ LET asked == [request EXCEPT ![r].token = t,
                     ![r].steady = t.kind = "jwt" /\ t.kid \in published]
     IN  request' =
           CASE t.kind = "none" -> [asked EXCEPT ![r].phase = "done"]
             [] t.kind = "dev" -> [asked EXCEPT ![r].phase = "done", ![r].sub = t.sub]
             [] t.kind = "jwt" -> [asked EXCEPT ![r].phase = IF t.eddsa THEN "lookup" ELSE "done"]
  /\ UNCHANGED <<published, past, rotations, cache, now>>

\* key_for_kid finds the key, at once or after the refresh.
KeyFound(r) ==
  /\ request[r].phase \in {"lookup", "reread"}
  /\ request[r].token.kid \in cache
  /\ request' = Answer(r, Checked(request[r].token))
  /\ UNCHANGED <<published, past, rotations, cache, now>>

\* It does not, and asks the application.
FetchKeys(r) ==
  /\ request[r].phase = "lookup" /\ request[r].token.kid \notin cache
  /\ request' = [request EXCEPT ![r].phase = "fetched", ![r].fetched = published]
  /\ UNCHANGED <<published, past, rotations, cache, now>>

FetchFails(r) ==
  /\ request[r].phase = "lookup" /\ request[r].token.kid \notin cache
  /\ request' = [Answer(r, NoSub) EXCEPT ![r].failed = TRUE]
  /\ UNCHANGED <<published, past, rotations, cache, now>>

\* Mutant of Refresh: the keys that were fetched are not written to the cache.
RefreshForgets(r) ==
  /\ request[r].phase = "fetched"
  /\ request' = [request EXCEPT ![r].phase = "reread"]
  /\ UNCHANGED <<published, past, rotations, cache, now>>

\* The answer replaces the cache, whatever others wrote meanwhile.
Refresh(r) ==
  /\ request[r].phase = "fetched"
  /\ cache' = request[r].fetched
  /\ request' = [q \in AuthRequests |->
       IF q = r THEN [request[q] EXCEPT !.phase = "reread"]
       ELSE [request[q] EXCEPT !.crossed = @ \/ request[q].phase = "reread"]]
  /\ UNCHANGED <<published, past, rotations, now>>

KeyMissing(r) ==
  /\ request[r].phase = "reread" /\ request[r].token.kid \notin cache
  /\ request' = Answer(r, NoSub)
  /\ UNCHANGED <<published, past, rotations, cache, now>>

\* The application serves other keys; some of the old ones may stay.
Rotate(ks) ==
  /\ rotations < MaxRotations /\ ks # {} /\ ks # published
  /\ published' = ks /\ past' = past \cup ks /\ rotations' = rotations + 1
  /\ request' = [r \in AuthRequests |->
       [request[r] EXCEPT !.steady = @ /\ request[r].token.kid \in ks]]
  /\ UNCHANGED <<cache, now>>

AuthTick ==
  /\ now < MaxTime /\ now' = now + 1
  /\ UNCHANGED <<published, past, rotations, cache, request>>

AuthNext ==
  \/ AuthTick \/ \E ks \in SUBSET Kids : Rotate(ks)
  \/ \E r \in AuthRequests :
       \/ \E t \in Tokens : Call(r, t)
       \/ KeyFound(r) \/ FetchKeys(r) \/ FetchFails(r) \/ Refresh(r) \/ KeyMissing(r)

AuthSpec == AuthInit /\ [][AuthNext]_authVars

\* A subject is believed only for the developer key or for a good token of a key
\* that the application has served; and a good token of a key that it serves all
\* the while is refused only if it expired, the keys could not be fetched, or the
\* cache was replaced by an older answer between a request's refresh and its lookup.
TokensJudgedRight ==
  \A r \in AuthRequests : request[r].phase = "done" =>
    LET t == request[r].token
    IN  IF request[r].sub # NoSub
        THEN t.kind = "dev" \/ (t.kind = "jwt" /\ t.good /\ t.eddsa /\ t.kid \in past)
        ELSE t.kind = "jwt" /\ t.good /\ t.eddsa /\ request[r].steady =>
               t.exp <= now \/ request[r].failed \/ request[r].crossed

(***************************************************************************)
(* The inductive invariant behind the theorem about it in RelayProofs      *)
(***************************************************************************)

Subjects == {NoSub} \cup {t.sub : t \in {u \in Tokens : u.kind # "none"}}
AuthRequest ==
  [phase : {"new", "lookup", "fetched", "reread", "done"}, token : Tokens \cup {[kind |-> "none"]},
   fetched : SUBSET Kids, sub : Subjects, steady : BOOLEAN, crossed : BOOLEAN, failed : BOOLEAN]

AuthTypeOK ==
  /\ published \subseteq Kids /\ past \subseteq Kids /\ cache \subseteq Kids
  /\ rotations \in Nat /\ now \in Nat
  /\ request \in [AuthRequests -> AuthRequest]

\* keys that were served once are all that a cache or an answer holds
KeysServed ==
  /\ published \subseteq past /\ cache \subseteq past
  /\ \A r \in AuthRequests : request[r].fetched \subseteq past

\* a key that is served all the while is in the answer, and in the cache until
\* another answer replaces it
SteadyKeys ==
  \A r \in AuthRequests :
    LET q == request[r]
    IN  /\ q.steady => q.token.kind = "jwt" /\ q.token.kid \in published
        /\ q.steady /\ q.phase = "fetched" => q.token.kid \in q.fetched
        /\ q.steady /\ q.phase = "reread" => q.token.kid \in cache \/ q.crossed

\* only a JWT is looked up, and nobody is believed before the end
LookupsOfJwts ==
  \A r \in AuthRequests :
    /\ request[r].phase \in {"lookup", "fetched", "reread"} =>
         request[r].token \in Tokens /\ request[r].token.kind = "jwt" /\ request[r].token.eddsa
    /\ request[r].phase # "done" => request[r].sub = NoSub

AuthIInv == AuthTypeOK /\ KeysServed /\ SteadyKeys /\ LookupsOfJwts /\ TokensJudgedRight
==============================================================================
