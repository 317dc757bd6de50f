---------------------------- MODULE SignerProofs ----------------------------
(***************************************************************************)
(* No nonce is shared, no transaction lands twice and no report is wrong:  *)
(* for any number of transactions, fee bumps, foreign envelopes and        *)
(* restarts of a signer.                                                   *)
(***************************************************************************)
EXTENDS Signer, FiniteSetTheorems, FunctionTheorems, SequenceTheorems, WellFoundedInduction, TLAPS

(***************************************************************************)
(* What the node's answers and the best envelope are                       *)
(***************************************************************************)

\* A set of natural numbers has a least element.
LEMMA Least ==
  ASSUME NEW T, T \subseteq Nat, T # {}
  PROVE  \E x \in T : \A y \in T : x <= y
<1> DEFINE Lt == {ss \in Nat \X Nat : ss[1] < ss[2]}
<1>1. IsWellFoundedOn(Lt, Nat)  BY NatLessThanWellFounded DEF OpToRel
<1> HIDE DEF Lt
<1>2. PICK x \in T : \A y \in T : ~ (<<y, x>> \in Lt)  BY <1>1, WFMin
<1>3. ASSUME NEW y \in T PROVE x <= y
  <2>1. x \in Nat /\ y \in Nat  OBVIOUS
  <2>2. y < x => <<y, x>> \in Lt  BY <2>1 DEF Lt
  <2> QED  BY <1>2, <2>1, <2>2
<1> QED  BY <1>3

\* A bounded one has a greatest.
LEMMA Greatest ==
  ASSUME NEW T, T \subseteq Nat, T # {}, NEW b \in Nat, \A x \in T : x <= b
  PROVE  \E x \in T : \A y \in T : y <= x
<1> DEFINE U == {b - x : x \in T}
<1>0. \A x \in T : b - x \in Nat  OBVIOUS
<1>1. U \subseteq Nat /\ U # {}  BY <1>0
<1>2. PICK u \in U : \A v \in U : u <= v  BY <1>1, Least
<1>3. PICK x \in T : u = b - x  BY <1>2
<1>4. \A y \in T : b - y \in U  OBVIOUS
<1>5. \A y \in T : y <= x  BY <1>2, <1>3, <1>4
<1> QED  BY <1>5

\* best_tx is one of the sent envelopes, the one with the highest fees.
LEMMA BestFacts ==
  ASSUME NEW S \in SUBSET Envelopes, S # {}
  PROVE  Best(S) \in S /\ \A f \in S : f.bump <= Best(S).bump
<1> DEFINE B == {e.bump : e \in S}
<1>1. B \subseteq Nat /\ B # {} /\ \A x \in B : x <= MaxBump
  BY SignerBoundsAssumption DEF Envelopes
<1>2. MaxBump \in Nat  BY SignerBoundsAssumption
<1>3. PICK x \in B : \A y \in B : y <= x  BY <1>1, <1>2, Greatest
<1>4. PICK e \in S : x = e.bump  BY <1>3
<1>5. \A f \in S : f.bump <= e.bump  BY <1>3, <1>4
<1> HIDE DEF B
<1> QED  BY <1>5 DEF Best

\* The node's pending nonce: the first from the latest on that the pool does not use.
LEMMA PendingFacts ==
  ASSUME TypeOK, NodeOK
  PROVE  PendingNonce \in Nat /\ PendingNonce >= LatestNonce
<1>0. LatestNonce \in Nat  BY DEF LatestNonce, TypeOK
<1>1. IsFiniteSet(pool) /\ Cardinality(pool) \in Nat  BY FS_CardinalityType DEF NodeOK
<1> DEFINE used == {e.nonce : e \in pool}
           free == Nat \ (used \cup {n \in Nat : n < LatestNonce})
           C(n) == /\ \A e \in pool : e.nonce # n
                   /\ \A m \in LatestNonce..(n - 1) : \E e \in pool : e.nonce = m
<1>2. ASSUME NEW k \in Nat, \A m \in LatestNonce..(LatestNonce + k - 1) : \E e \in pool : e.nonce = m
      PROVE  k <= Cardinality(pool)
  <2> DEFINE T == LatestNonce..(LatestNonce + k - 1)
             S == {e \in pool : e.nonce \in T}
             f == [e \in S |-> e.nonce]
  <2>1. IsFiniteSet(S) /\ Cardinality(S) <= Cardinality(pool)  BY <1>1, FS_Subset
  <2>2. f \in [S -> T] /\ \A m \in T : \E e \in S : f[e] = m  BY <1>2
  <2> HIDE DEF f
  <2>3. f \in Surjection(S, T)  BY <2>2 DEF Surjection
  <2>4. Cardinality(T) <= Cardinality(S)  BY <2>1, <2>3, FS_Surjection
  <2>5. Cardinality(T) = k
    BY <1>0, FS_Interval
  <2>6. Cardinality(S) \in Nat  BY <2>1, FS_CardinalityType
  <2> QED  BY <1>1, <2>1, <2>4, <2>5, <2>6
<1>3. free # {}
  <2>1. SUFFICES ASSUME free = {} PROVE FALSE  OBVIOUS
  <2>2. \A m \in Nat : m >= LatestNonce => m \in used  BY <1>0, <2>1
  <2>3. \A m \in LatestNonce..(LatestNonce + (Cardinality(pool) + 1) - 1) : \E e \in pool : e.nonce = m
    BY <1>0, <1>1, <2>2
  <2>4. Cardinality(pool) + 1 <= Cardinality(pool)  BY <1>1, <1>2, <2>3
  <2> QED  BY <1>1, <2>4
<1>4. PICK n \in free : \A m \in free : n <= m  BY <1>3, Least
<1>5. n \in Nat /\ n >= LatestNonce /\ n \notin used  BY <1>0, <1>4
<1>6. \A m \in LatestNonce..(n - 1) : \E e \in pool : e.nonce = m
  <2>1. ASSUME NEW m \in LatestNonce..(n - 1) PROVE m \in used
    BY <1>0, <1>4, <1>5
  <2> QED  BY <2>1
<1>7. n - LatestNonce <= Cardinality(pool)
  <2>1. n - LatestNonce \in Nat /\ LatestNonce + (n - LatestNonce) - 1 = n - 1  BY <1>0, <1>5
  <2> QED  BY <1>2, <1>6, <2>1
<1>8. n \in LatestNonce..(LatestNonce + Cardinality(pool)) /\ C(n)
  BY <1>0, <1>1, <1>5, <1>6, <1>7
<1>9. PendingNonce \in LatestNonce..(LatestNonce + Cardinality(pool))
  BY <1>8 DEF PendingNonce
<1> QED  BY <1>0, <1>1, <1>9

(***************************************************************************)
(* The type invariant                                                      *)
(***************************************************************************)

\* There are finitely many nonces in the rows.
RowsBounded == \E b \in Nat : \A tx \in Tx : \A e \in rows[tx] : e.nonce < b

IInv == NonceInv /\ RowsBounded

LEMMA EnvelopeType ==
  ASSUME NEW owner \in Tx \cup {Gap, External, Pull}, NEW n \in Nat, NEW bump \in 0..MaxBump
  PROVE  /\ Envelope(owner, n, bump) \in Envelopes
         /\ Envelope(owner, n, bump).tx = owner
         /\ Envelope(owner, n, bump).nonce = n
         /\ Envelope(owner, n, bump).bump = bump
  BY DEF Envelope, Envelopes

LEMMA ZeroBump == 0 \in 0..MaxBump /\ MaxBump \in Nat
  BY SignerBoundsAssumption

LEMMA DeliverType ==
  ASSUME TypeOK, NEW e \in Envelopes, NEW call, NEW answer, Deliver(e, call, answer)
  PROVE  /\ pool' \in SUBSET Envelopes /\ UNCHANGED <<mined, external>>
         /\ pool' = pool \/ (pool' = pool \cup {e} /\ e.nonce >= LatestNonce)
         /\ answer \notin {"pooled", "silent"} => pool' = pool
  BY DEF Deliver, TypeOK

\* into_future raises the nonce above those of all rows.
LEMMA LoadFacts ==
  ASSUME TypeOK, RowsBounded, LoadRows
  PROVE  /\ nonce' \in Nat /\ nonce' >= nonce
         /\ \A tx \in Tx : rows[tx] # {} => nonce' > Best(rows[tx]).nonce
<1> DEFINE loaded == {tx \in Tx : rows[tx] # {}}
           N == {nonce} \cup {Best(rows[tx]).nonce + 1 : tx \in loaded}
           C(n) == n >= nonce /\ \A tx \in loaded : n > Best(rows[tx]).nonce
<1>1. \A tx \in loaded : Best(rows[tx]) \in rows[tx] /\ Best(rows[tx]).nonce \in Nat
  <2>1. ASSUME NEW tx \in loaded PROVE Best(rows[tx]) \in rows[tx] /\ Best(rows[tx]).nonce \in Nat
    <3>1. rows[tx] \in SUBSET Envelopes /\ rows[tx] # {}  BY DEF TypeOK
    <3>2. Best(rows[tx]) \in rows[tx]  BY <3>1, BestFacts
    <3> QED  BY <3>1, <3>2 DEF Envelopes
  <2> QED  BY <2>1
<1>2. PICK b \in Nat : \A tx \in Tx : \A e \in rows[tx] : e.nonce < b  BY DEF RowsBounded
<1>3. nonce \in Nat  BY DEF TypeOK
<1>4. \A tx \in loaded : Best(rows[tx]).nonce < b  BY <1>1, <1>2
<1>5. N \subseteq Nat /\ N # {}  BY <1>1, <1>3
<1>6. \A n \in N : n <= nonce + b  BY <1>1, <1>3, <1>4
<1>7. PICK n \in N : \A m \in N : m <= n
  <2>1. nonce + b \in Nat  BY <1>3
  <2> QED  BY <1>5, <1>6, <2>1, Greatest
<1>8. C(n)
  <2>1. n \in Nat  BY <1>5
  <2>2. nonce \in N /\ \A tx \in loaded : Best(rows[tx]).nonce + 1 \in N  OBVIOUS
  <2>3. n >= nonce /\ \A tx \in loaded : Best(rows[tx]).nonce + 1 <= n  BY <1>3, <1>7, <2>1, <2>2
  <2> QED  BY <1>1, <2>1, <2>3
<1>9. nonce' = CHOOSE m \in N : C(m)  BY DEF LoadRows
<1>10. nonce' \in N /\ C(nonce')  BY <1>7, <1>8, <1>9
<1> QED  BY <1>5, <1>10

LEMMA TaskType ==
  ASSUME TypeOK, NodeOK, NEW tx \in Tx, TaskOK(tx), Task(tx)
  PROVE  TypeOK'
<1> USE DEF chainVars, pullVars, taskVars, storedVars
<1>0. /\ pc[tx] \in Recording => Best(sent[tx]) \in sent[tx] /\ Best(sent[tx]) \in Envelopes
      /\ txNonce[tx] \in Nat
  BY BestFacts DEF TypeOK, TaskOK
<1>1. CASE NextNonce(tx)
  <2>1. resynced' \in [Tx -> BOOLEAN]  BY <1>1 DEF NextNonce, TypeOK
  <2>2. pc' \in [Tx -> {"queued", "signing", "sending", "syncing", "resync", "releasing",
                        "filling", "watching", "replacing", "closing", "checking", "done"}]
    BY <1>1 DEF NextNonce, Goto, TypeOK
  <2>3. txNonce' \in [Tx -> Nat] /\ nonce' \in Nat  BY <1>1 DEF NextNonce, TypeOK
  <2> QED  BY <1>1, <2>1, <2>2, <2>3 DEF NextNonce, TypeOK
<1>2. CASE Reject(tx)  BY <1>2 DEF Reject, Goto, OnFailed, TypeOK
<1>3. CASE Persist(tx)
  <2>1. sent'[tx] \in SUBSET Envelopes /\ sent' \in [Tx -> SUBSET Envelopes]
    BY <1>0, <1>3, EnvelopeType, ZeroBump DEF Persist, TypeOK
  <2> QED  BY <1>3, <2>1 DEF Persist, Goto, TypeOK
<1>4. CASE SignFails(tx)  BY <1>4 DEF SignFails, Goto, OnFailed, TypeOK
<1>5. CASE Send(tx)
  <2>1. pool' \in SUBSET Envelopes /\ UNCHANGED <<mined, external>>
    BY <1>0, <1>5, DeliverType DEF Send, Goto, Recording
  <2> QED  BY <1>5, <2>1 DEF Send, Goto, TypeOK
<1>6. CASE SendResync(tx)
  <2>1. pool' \in SUBSET Envelopes /\ UNCHANGED <<mined, external>>
    BY <1>0, <1>6, DeliverType DEF SendResync, Goto, Recording
  <2> QED  BY <1>6, <2>1 DEF SendResync, Goto, TypeOK
<1>7. CASE SyncAfterSend(tx)
  <2>1. nonce' \in Nat  BY <1>7, PendingFacts DEF SyncAfterSend, Larger, TypeOK
  <2> QED  BY <1>7, <2>1 DEF SyncAfterSend, Goto, TypeOK
<1>8. CASE SendFails(tx)
  <2>1. pool' \in SUBSET Envelopes /\ UNCHANGED <<mined, external>>
    BY <1>0, <1>8, DeliverType DEF SendFails, Goto, Recording
  <2> QED  BY <1>8, <2>1 DEF SendFails, Goto, OnFailed, TypeOK
<1>9. CASE Release(tx)  BY <1>0, <1>9 DEF Release, Goto, TypeOK
<1>10. CASE Receipt(tx)  BY <1>10 DEF Receipt, Goto, OnConfirmed, TypeOK
<1>11. CASE Resend(tx)
  <2>1. pool' \in SUBSET Envelopes
    BY <1>0, <1>11 DEF Resend, Goto, Recording, Watching, TypeOK
  <2> QED  BY <1>11, <2>1 DEF Resend, Goto, TypeOK
<1>12. CASE Replace(tx)
  <2>1. Best(sent[tx]).bump + 1 \in 0..MaxBump
    BY <1>0, <1>12, ZeroBump DEF Replace, Goto, Recording, Watching, Envelopes
  <2>2. Envelope(tx, txNonce[tx], Best(sent[tx]).bump + 1) \in Envelopes  BY <1>0, <2>1, EnvelopeType
  <2>3. rows' \in [Tx -> SUBSET Envelopes]  BY <1>12, <2>2 DEF Replace, TypeOK
  <2> QED  BY <1>12, <2>3 DEF Replace, Goto, TypeOK
<1>13. CASE SendReplacement(tx)
  <2> DEFINE e == Envelope(tx, txNonce[tx], Best(sent[tx]).bump + 1)
  <2>1. e \in Envelopes  BY <1>13 DEF SendReplacement, Goto, TaskOK, TypeOK
  <2>4. sent' = sent \/ sent' = [sent EXCEPT ![tx] = @ \cup {e}]  BY <1>13 DEF SendReplacement
  <2> HIDE DEF e
  <2>2. pool' \in SUBSET Envelopes /\ UNCHANGED <<mined, external>>
    BY <1>13, <2>1, DeliverType DEF SendReplacement, e
  <2>3. sent' \in [Tx -> SUBSET Envelopes]  BY <2>1, <2>4 DEF TypeOK
  <2> QED  BY <1>13, <2>2, <2>3 DEF SendReplacement, Goto, TypeOK
<1>14. CASE WatchFails(tx)  BY <1>14 DEF WatchFails, Goto, TypeOK
<1>15. CASE Closed(tx)  BY <1>15 DEF Closed, Goto, TypeOK
<1>16. CASE Check(tx)
  <2>1. /\ status' \in [Tx -> {"open", "confirmed", "failed"}] /\ rows' \in [Tx -> SUBSET Envelopes]
        /\ queued' \in SUBSET Tx
    BY <1>16 DEF Check, OnConfirmed, OnFailed, TypeOK
  <2> QED  BY <1>16, <2>1 DEF Check, Goto, TypeOK
<1> QED  BY <1>1, <1>2, <1>3, <1>4, <1>5, <1>6, <1>7, <1>8, <1>9, <1>10, <1>11, <1>12, <1>13, <1>14,
            <1>15, <1>16 DEF Task

LEMMA NextType ==
  ASSUME IInv, [Next]_vars
  PROVE  TypeOK'
<1> USE DEF chainVars, pullVars, taskVars, storedVars
<1>0. TypeOK /\ NodeOK /\ RowsBounded /\ \A tx \in Tx : TaskOK(tx)  BY DEF IInv, NonceInv
<1>1. CASE UNCHANGED vars  BY <1>0, <1>1 DEF vars, TypeOK
<1>2. ASSUME NEW n \in Nat, CloseSend(n)
      PROVE  TypeOK'
  <2>1. Envelope(Gap, n, 0) \in Envelopes  BY EnvelopeType, ZeroBump
  <2> QED  BY <1>0, <1>2, <2>1 DEF CloseSend, TypeOK
<1>3. ASSUME NEW tx \in Tx, CloseOwn(tx)
      PROVE  TypeOK'
  BY <1>0, <1>2, <1>3 DEF CloseOwn, TypeOK
<1>4. ASSUME NEW n \in gaps, CloseLoadedGap(n)
      PROVE  TypeOK'
  <2>1. n \in Nat  BY <1>0 DEF TypeOK
  <2>2. CASE CloseSend(n)  BY <1>2, <2>1, <2>2
  <2>3. CASE ~CloseSend(n)  BY <1>0, <1>4, <2>3 DEF CloseLoadedGap, TypeOK
  <2> QED  BY <2>2, <2>3
<1>5. ASSUME NEW e \in pool, Mine(e)
      PROVE  TypeOK'
  <2>1. mined' \in Seq(Envelopes) /\ pool' \in SUBSET Envelopes  BY <1>0, <1>5 DEF Mine, TypeOK
  <2> QED  BY <1>0, <1>5, <2>1 DEF Mine, TypeOK
<1>6. CASE SendExternal
  <2>1. Envelope(External, PendingNonce, 0) \in Envelopes
    BY <1>0, EnvelopeType, ZeroBump, PendingFacts
  <2>2. external' \in 0..MaxExternal
    BY <1>0, <1>6, SignerBoundsAssumption DEF SendExternal, TypeOK
  <2> QED  BY <1>0, <1>6, <2>1, <2>2 DEF SendExternal, TypeOK
<1>7. CASE SyncNonce
  <2>1. nonce' \in Nat  BY <1>0, <1>7, PendingFacts DEF SyncNonce, Larger, TypeOK
  <2> QED  BY <1>0, <1>7, <2>1 DEF SyncNonce, TypeOK
<1>8. CASE PullNonce  BY <1>0, <1>8 DEF PullNonce, TypeOK
<1>9. CASE PullLock  BY <1>0, <1>9 DEF PullLock, TypeOK
<1>10. CASE PullSend
  <2>1. Envelope(Pull, pullNonce, 0) \in Envelopes  BY <1>0, EnvelopeType, ZeroBump DEF TypeOK
  <2>2. pool' \in SUBSET Envelopes /\ UNCHANGED <<mined, external>>
    BY <1>0, <1>10, <2>1, DeliverType DEF PullSend
  <2>3. pull' \in {"sent", "done"} /\ pullRow' \in BOOLEAN  BY <1>10 DEF PullSend
  <2> QED  BY <1>0, <1>10, <2>2, <2>3 DEF PullSend, TypeOK
<1>11. CASE PullEnd  BY <1>0, <1>11 DEF PullEnd, TypeOK
<1>12. CASE Crash
  <2>1. nonce' \in Nat  BY <1>0, <1>12, PendingFacts DEF Crash
  <2>2. pull' \in {"idle", "signing", "locked", "sent", "done"}  BY <1>12 DEF Crash
  <2>3. crashes' \in 0..MaxCrashes  BY <1>0, <1>12, SignerBoundsAssumption DEF Crash, TypeOK
  <2>4. /\ sent' \in [Tx -> SUBSET Envelopes] /\ resynced' \in [Tx -> BOOLEAN]
        /\ pc' \in [Tx -> {"queued", "signing", "sending", "syncing", "resync", "releasing",
                           "filling", "watching", "replacing", "closing", "checking", "done"}]
    BY <1>12 DEF Crash
  <2> QED  BY <1>0, <1>12, <2>1, <2>2, <2>3, <2>4 DEF Crash, TypeOK
<1>13. CASE LoadRows
  <2>1. nonce' \in Nat  BY <1>0, <1>13, LoadFacts
  <2>2. \A tx \in Tx : rows[tx] # {} => Best(rows[tx]).nonce \in Nat
    <3>1. ASSUME NEW tx \in Tx, rows[tx] # {} PROVE Best(rows[tx]).nonce \in Nat
      <4>1. rows[tx] \in SUBSET Envelopes  BY <1>0 DEF TypeOK
      <4>2. Best(rows[tx]) \in rows[tx]  BY <3>1, <4>1, BestFacts
      <4> QED  BY <4>1, <4>2 DEF Envelopes
    <3> QED  BY <3>1
  <2>3. txNonce' \in [Tx -> Nat]  BY <1>0, <1>13, <2>2 DEF LoadRows, TypeOK
  <2>4. pc' \in [Tx -> {"queued", "signing", "sending", "syncing", "resync", "releasing",
                        "filling", "watching", "replacing", "closing", "checking", "done"}]
    BY <1>0, <1>13 DEF LoadRows, TypeOK
  <2> QED  BY <1>0, <1>13, <2>1, <2>3, <2>4 DEF LoadRows, TypeOK
<1>14. CASE ResumePull  BY <1>0, <1>14 DEF ResumePull, TypeOK
<1>15. CASE ResumeEnds  BY <1>0, <1>15 DEF ResumeEnds, TypeOK
<1>16. CASE SpawnTasks
  <2>1. gaps' \in SUBSET Nat  BY <1>0, <1>16 DEF SpawnTasks, LatestNonce, TypeOK
  <2> QED  BY <1>0, <1>16, <2>1 DEF SpawnTasks, TypeOK
<1>17. ASSUME NEW tx \in Tx, Task(tx) PROVE TypeOK'  BY <1>0, <1>17, TaskType
<1> QED  BY <1>1, <1>3, <1>4, <1>5, <1>6, <1>7, <1>8, <1>9, <1>10, <1>11, <1>12, <1>13, <1>14, <1>15,
            <1>16, <1>17 DEF Next

(***************************************************************************)
(* The node                                                                *)
(***************************************************************************)

\* A step of the network: an envelope with a nonce that is not used comes in, or one
\* is included, or nothing happens.
Comes(e) == pool' = pool \cup {e} /\ mined' = mined
Includes(e) == e \in pool /\ e.nonce = LatestNonce /\ mined' = Append(mined, e)
               /\ pool' = {f \in pool : f.nonce # e.nonce}

LEMMA OutFacts ==
  ASSUME TypeOK
  PROVE  Out \subseteq Envelopes /\ pool \subseteq Out /\ \A i \in 1..Len(mined) : mined[i] \in Out
  BY DEF TypeOK, Out

LEMMA ComesKeeps ==
  ASSUME TypeOK, NodeOK, NEW e \in Envelopes, Comes(e), e.nonce >= LatestNonce
  PROVE  NodeOK' /\ LatestNonce' = LatestNonce /\ Out' = Out \cup {e}
<1>1. LatestNonce' = LatestNonce  BY DEF Comes, LatestNonce
<1>2. IsFiniteSet(pool')  BY FS_AddElement DEF Comes, NodeOK
<1>3. Out' = Out \cup {e}  BY DEF Comes, Out
<1>4. \A f \in pool' : f.nonce >= LatestNonce'  BY <1>1 DEF Comes, NodeOK
<1>5. \A i \in 1..Len(mined') : mined'[i].nonce = i - 1  BY DEF Comes, NodeOK
<1> QED  BY <1>1, <1>2, <1>3, <1>4, <1>5 DEF NodeOK

LEMMA IncludesKeeps ==
  ASSUME TypeOK, NodeOK, NEW e, Includes(e)
  PROVE  /\ NodeOK' /\ LatestNonce' = LatestNonce + 1 /\ Out' \subseteq Out /\ pool' \subseteq pool
         /\ \A i \in 1..Len(mined) : i \in 1..Len(mined') /\ mined'[i] = mined[i]
<1>0. e \in Envelopes /\ mined \in Seq(Envelopes) /\ Len(mined) \in Nat  BY DEF TypeOK, Includes
<1>1. /\ Len(mined') = Len(mined) + 1 /\ mined'[Len(mined) + 1] = e
      /\ \A i \in 1..Len(mined) : mined'[i] = mined[i]
  BY <1>0 DEF Includes
<1>2. LatestNonce' = LatestNonce + 1  BY <1>1 DEF LatestNonce
<1>3. IsFiniteSet(pool')
  <2>1. pool' \in SUBSET pool  BY DEF Includes
  <2> QED  BY <2>1, FS_Subset DEF NodeOK
<1>4. \A i \in 1..Len(mined') : mined'[i] = e \/ (i \in 1..Len(mined) /\ mined'[i] = mined[i])
  BY <1>0, <1>1
<1>5. Out' \subseteq Out  BY <1>4 DEF Out, Includes
<1>6. \A f \in pool' : f.nonce >= LatestNonce'
  BY <1>0, <1>2 DEF Includes, NodeOK, LatestNonce, TypeOK, Envelopes
<1>7. \A i \in 1..Len(mined') : mined'[i].nonce = i - 1
  BY <1>0, <1>1 DEF NodeOK, Includes, LatestNonce
<1>8. \A i \in 1..Len(mined) : i \in 1..Len(mined')  BY <1>0, <1>1
<1> QED  BY <1>1, <1>2, <1>3, <1>5, <1>6, <1>7, <1>8 DEF NodeOK, Includes

LEMMA IdleKeeps ==
  ASSUME NodeOK, pool' = pool, mined' = mined
  PROVE  NodeOK' /\ LatestNonce' = LatestNonce /\ Out' = Out
  BY DEF NodeOK, LatestNonce, Out

(***************************************************************************)
(* What a step leaves alone                                                *)
(***************************************************************************)

\* A transaction whose task does nothing, while the network or another task does.
LEMMA OtherTask ==
  ASSUME TypeOK, NEW u \in Tx, TaskOK(u), boot' = "rows" <=> boot = "rows",
         pc'[u] = pc[u], txNonce'[u] = txNonce[u], sent'[u] = sent[u], rows'[u] = rows[u],
         u \in queued' => u \in queued,
         LatestNonce' \in Nat, LatestNonce' >= LatestNonce,
         \A e \in Out' : e.tx = u => e \in Out,
         \A e \in pool' : e.tx = u => e \in pool
  PROVE  TaskOK(u)'
<1>1. LatestNonce \in Nat /\ txNonce[u] \in Nat  BY DEF TypeOK, LatestNonce
<1>2. pc[u] = "checking" => txNonce[u] < LatestNonce'  BY <1>1 DEF TaskOK
<1>3. Best(sent[u])' = Best(sent[u])  BY DEF Best
<1>4. pc[u] = "replacing" => Envelope(u, txNonce[u], Best(sent[u]).bump + 1)' \in rows[u]
  BY <1>3 DEF TaskOK, Envelope
<1> QED  BY <1>2, <1>4 DEF TaskOK

\* Nobody claims a nonce that it did not claim before.
LEMMA ClaimsKept ==
  ASSUME TypeOK, ClaimsOK, boot' = "rows" <=> boot = "rows", boot = "rows" => rows' = rows,
         \A tx \in Tx : Own(tx)' \subseteq Own(tx),
         \A tx \in Tx : pc'[tx] \in Holding => pc[tx] \in Holding /\ txNonce'[tx] = txNonce[tx],
         nonce' \in Nat, nonce' >= nonce
  PROVE  ClaimsOK'
<1>1. \A tx \in Tx : \A e, f \in Own(tx)' : e.nonce = f.nonce  BY DEF ClaimsOK
<1>2. \A tx \in Tx : pc'[tx] \in Holding => \A e \in Own(tx)' : e.nonce = txNonce'[tx]  BY DEF ClaimsOK
<1>3. \A tx, u \in Tx : tx # u => \A e \in Own(tx)', f \in Own(u)' : e.nonce # f.nonce  BY DEF ClaimsOK
<1>4. \A tx, u \in Tx : tx # u /\ pc'[tx] \in Holding => \A e \in Own(u)' : e.nonce # txNonce'[tx]
  BY DEF ClaimsOK
<1>5. \A tx, u \in Tx :
        tx # u /\ pc'[tx] \in Holding /\ pc'[u] \in Holding => txNonce'[tx] # txNonce'[u]
  BY DEF ClaimsOK
<1>6. \A tx \in Tx : pc'[tx] \in Holding => txNonce'[tx] < nonce'  BY DEF ClaimsOK, TypeOK
<1>7. ASSUME NEW tx \in Tx, NEW e \in Own(tx)'
      PROVE  e.nonce < nonce' \/ (boot' = "rows" /\ e \in rows'[tx])
  <2>1. e \in Own(tx)  OBVIOUS
  <2>2. e \in Envelopes  BY <2>1, OutFacts DEF Own, TypeOK
  <2>3. e.nonce < nonce \/ (boot = "rows" /\ e \in rows[tx])  BY <2>1 DEF ClaimsOK
  <2> QED  BY <2>2, <2>3 DEF TypeOK, Envelopes
<1> QED  BY <1>1, <1>2, <1>3, <1>4, <1>5, <1>6, <1>7 DEF ClaimsOK

\* The rows change nothing for the bound unless one gets a new nonce.
LEMMA BoundKept ==
  ASSUME RowsBounded, \A tx \in Tx : rows'[tx] \subseteq rows[tx]
  PROVE  RowsBounded'
  BY DEF RowsBounded

\* The network, the other users of the key, the pull of gas, the gaps: no task moves.
LEMMA AmbientKeeps ==
  ASSUME IInv, TypeOK', UNCHANGED <<pc, txNonce, sent, rows, queued>>,
         boot' = "rows" <=> boot = "rows", nonce' >= nonce,
         \/ pool' = pool /\ mined' = mined
         \/ \E e \in pool : Includes(e)
         \/ \E e \in Envelopes : Comes(e) /\ e.tx \notin Tx /\ e.nonce >= LatestNonce
  PROVE  IInv'
<1>0. TypeOK /\ NodeOK /\ RowsBounded /\ ClaimsOK /\ \A tx \in Tx : TaskOK(tx)  BY DEF IInv, NonceInv
<1>1. /\ NodeOK' /\ LatestNonce' >= LatestNonce
      /\ \A e \in Out' : e.tx \in Tx => e \in Out
      /\ \A e \in pool' : e.tx \in Tx => e \in pool
  <2>0. LatestNonce \in Nat  BY <1>0 DEF TypeOK, LatestNonce
  <2>1. CASE pool' = pool /\ mined' = mined  BY <1>0, <2>0, <2>1, IdleKeeps
  <2>2. ASSUME NEW e \in pool, Includes(e)
        PROVE  /\ NodeOK' /\ LatestNonce' >= LatestNonce
               /\ \A f \in Out' : f.tx \in Tx => f \in Out
               /\ \A f \in pool' : f.tx \in Tx => f \in pool
    BY <1>0, <2>0, <2>2, IncludesKeeps
  <2>3. ASSUME NEW e \in Envelopes, Comes(e), e.tx \notin Tx, e.nonce >= LatestNonce
        PROVE  /\ NodeOK' /\ LatestNonce' >= LatestNonce
               /\ \A f \in Out' : f.tx \in Tx => f \in Out
               /\ \A f \in pool' : f.tx \in Tx => f \in pool
    <3>1. NodeOK' /\ LatestNonce' = LatestNonce /\ Out' = Out \cup {e}  BY <1>0, <2>3, ComesKeeps
    <3> QED  BY <2>0, <2>3, <3>1 DEF Comes
  <2> QED  BY <2>1, <2>2, <2>3
<1>2. LatestNonce' \in Nat  BY DEF TypeOK, LatestNonce
<1>3. ASSUME NEW tx \in Tx PROVE TaskOK(tx)'
  <2>1. TaskOK(tx)  BY <1>0
  <2>2. pc'[tx] = pc[tx] /\ txNonce'[tx] = txNonce[tx] /\ sent'[tx] = sent[tx] /\ rows'[tx] = rows[tx]
    OBVIOUS
  <2>3. (\A e \in Out' : e.tx = tx => e \in Out) /\ (\A e \in pool' : e.tx = tx => e \in pool)
    BY <1>1
  <2> QED  BY <1>0, <1>1, <1>2, <2>1, <2>2, <2>3, OtherTask
<1>4. \A tx \in Tx : Own(tx)' \subseteq Own(tx)  BY <1>1 DEF Own
<1>5. ClaimsOK'
  <2>1. nonce' \in Nat  BY DEF TypeOK
  <2> QED  BY <1>0, <1>4, <2>1, ClaimsKept
<1>6. RowsBounded'  BY <1>0, BoundKept
<1> QED  BY <1>1, <1>3, <1>5, <1>6 DEF IInv, NonceInv

\* A step of the task of tx, which may send one of its envelopes.
Steps(tx) ==
  /\ boot = "up" /\ boot' = boot /\ queued' \subseteq queued
  /\ \A u \in Tx \ {tx} : /\ pc'[u] = pc[u] /\ txNonce'[u] = txNonce[u]
                          /\ sent'[u] = sent[u] /\ rows'[u] = rows[u]
  /\ \/ pool' = pool /\ mined' = mined
     \/ \E e \in rows[tx] : Comes(e) /\ e.nonce >= LatestNonce

LEMMA StepsOut ==
  ASSUME IInv, NEW tx \in Tx, Steps(tx)
  PROVE  /\ NodeOK' /\ LatestNonce' = LatestNonce
         /\ \A e \in Out' : e \in Out \/ (e \in rows[tx] /\ e.tx = tx)
         /\ \A e \in pool' : e \in pool \/ (e \in rows[tx] /\ e.tx = tx)
         /\ mined' = mined /\ Out \subseteq Out'
<1>0. TypeOK /\ NodeOK /\ TaskOK(tx)  BY DEF IInv, NonceInv
<1>1. CASE pool' = pool /\ mined' = mined  BY <1>0, <1>1, IdleKeeps
<1>2. ASSUME NEW e \in rows[tx], Comes(e), e.nonce >= LatestNonce
      PROVE  /\ NodeOK' /\ LatestNonce' = LatestNonce
             /\ \A f \in Out' : f \in Out \/ (f \in rows[tx] /\ f.tx = tx)
             /\ \A f \in pool' : f \in pool \/ (f \in rows[tx] /\ f.tx = tx)
             /\ mined' = mined /\ Out \subseteq Out'
  <2>1. e \in Envelopes /\ e.tx = tx  BY <1>0 DEF TypeOK, TaskOK
  <2>2. NodeOK' /\ LatestNonce' = LatestNonce /\ Out' = Out \cup {e}  BY <1>0, <1>2, <2>1, ComesKeeps
  <2> QED  BY <1>2, <2>1, <2>2 DEF Comes
<1> QED  BY <1>1, <1>2 DEF Steps

LEMMA StepsOthers ==
  ASSUME IInv, NEW tx \in Tx, Steps(tx), NEW u \in Tx, u # tx
  PROVE  TaskOK(u)' /\ Own(u)' = Own(u)
<1>0. TypeOK /\ TaskOK(u)  BY DEF IInv, NonceInv
<1>1. /\ LatestNonce' = LatestNonce /\ Out \subseteq Out'
      /\ \A e \in Out' : e.tx = u => e \in Out
      /\ \A e \in pool' : e.tx = u => e \in pool
  BY StepsOut
<1>2. LatestNonce \in Nat  BY <1>0 DEF TypeOK, LatestNonce
<1>3. /\ pc'[u] = pc[u] /\ txNonce'[u] = txNonce[u] /\ sent'[u] = sent[u] /\ rows'[u] = rows[u]
      /\ (u \in queued' => u \in queued) /\ (boot' = "rows" <=> boot = "rows")
  BY DEF Steps
<1>4. LatestNonce' \in Nat /\ LatestNonce' >= LatestNonce  BY <1>1, <1>2
<1>5. TaskOK(u)'  BY <1>0, <1>1, <1>3, <1>4, OtherTask
<1>6. Own(u)' = Own(u)  BY <1>1, <1>3 DEF Own
<1> QED  BY <1>5, <1>6

\* A step after which the transaction claims nothing new.
LEMMA StepKeeps ==
  ASSUME IInv, TypeOK', NEW tx \in Tx, Steps(tx), TaskOK(tx)', rows'[tx] \subseteq rows[tx],
         pc'[tx] \in Holding => pc[tx] \in Holding /\ txNonce'[tx] = txNonce[tx],
         nonce' >= nonce
  PROVE  IInv'
<1>0. TypeOK /\ NodeOK /\ RowsBounded /\ ClaimsOK  BY DEF IInv, NonceInv
<1>1. NodeOK' /\ \A e \in Out' : e \in Out \/ e \in rows[tx]  BY StepsOut
<1>2. ASSUME NEW u \in Tx PROVE TaskOK(u)'  BY StepsOthers
<1>3. \A u \in Tx : Own(u)' \subseteq Own(u)
  <2>1. Own(tx)' \subseteq Own(tx)  BY <1>1 DEF Own
  <2> QED  BY <2>1, StepsOthers
<1>4. \A u \in Tx : pc'[u] \in Holding => pc[u] \in Holding /\ txNonce'[u] = txNonce[u]  BY DEF Steps
<1>5. nonce' \in Nat /\ (boot' = "rows" <=> boot = "rows") /\ boot # "rows"  BY DEF TypeOK, Steps
<1>6. ClaimsOK'  BY <1>0, <1>3, <1>4, <1>5, ClaimsKept
<1>7. \A u \in Tx : rows'[u] \subseteq rows[u]  BY DEF Steps
<1>8. RowsBounded'  BY <1>0, <1>7, BoundKept
<1> QED  BY <1>1, <1>2, <1>6, <1>8 DEF IInv, NonceInv

(***************************************************************************)
(* The steps of a task that claim nothing                                  *)
(***************************************************************************)

LEMMA GotoFacts ==
  ASSUME TypeOK, NEW tx \in Tx, NEW from, NEW to, Goto(tx, from, to)
  PROVE  /\ boot = "up" /\ pc[tx] = from /\ pc'[tx] = to
         /\ \A u \in Tx \ {tx} : pc'[u] = pc[u]
  BY DEF Goto, TypeOK

\* While the row exists nothing of the transaction is on the network outside it; once
\* its nonce is used nothing of it is in the pool.
LEMMA UsedFacts ==
  ASSUME IInv, NEW tx \in Tx, NEW e \in Own(tx), e.nonce < LatestNonce
  PROVE  \A f \in pool : f.tx # tx
<1>0. TypeOK /\ NodeOK /\ ClaimsOK  BY DEF IInv, NonceInv
<1>1. SUFFICES ASSUME NEW f \in pool, f.tx = tx PROVE FALSE  OBVIOUS
<1>2. f \in Own(tx)  BY <1>0, <1>1, OutFacts DEF Own
<1>3. e.nonce = f.nonce  BY <1>0, <1>2 DEF ClaimsOK
<1>4. f.nonce >= LatestNonce /\ f.nonce \in Nat /\ LatestNonce \in Nat
  BY <1>0, <1>1 DEF NodeOK, TypeOK, LatestNonce, Envelopes
<1> QED  BY <1>3, <1>4

\* A step to a state in which the transaction has no row, when nothing of it may
\* still be included; or nothing ever was.
LEMMA ClearKeeps ==
  ASSUME IInv, TypeOK', NEW tx \in Tx, pool' = pool, mined' = mined, boot = "up", boot' = boot,
         queued' \subseteq queued, tx \notin queued',
         \A u \in Tx \ {tx} : /\ pc'[u] = pc[u] /\ txNonce'[u] = txNonce[u]
                              /\ sent'[u] = sent[u] /\ rows'[u] = rows[u],
         rows'[tx] = {}, \A e \in pool : e.tx # tx,
         \/ pc'[tx] = "done"
         \/ pc'[tx] \in {"syncing", "resync", "filling"} /\ pc[tx] \in Unsent
         \/ pc'[tx] = "releasing" /\ pc[tx] \in {"signing", "sending"} /\ txNonce'[tx] = txNonce[tx],
         nonce' >= nonce
  PROVE  IInv'
<1>0. TypeOK /\ TaskOK(tx) /\ NodeOK  BY DEF IInv, NonceInv
<1>1. Steps(tx)  BY DEF Steps
<1>2. Out' = Out /\ LatestNonce' = LatestNonce  BY <1>0, IdleKeeps
<1>3. pc'[tx] \in Unsent => \A e \in Out' : e.tx # tx  BY <1>0, <1>2 DEF TaskOK, Unsent
<1>4. pc'[tx] \in {"done", "syncing", "resync", "filling", "releasing"}  OBVIOUS
<1>5. TaskOK(tx)'  BY <1>3, <1>4 DEF TaskOK, Unsent, Recording, Watching
<1>6. pc'[tx] \in Holding => pc[tx] \in Holding /\ txNonce'[tx] = txNonce[tx]
  BY DEF Holding, Recording, Watching
<1> QED  BY <1>1, <1>5, <1>6, StepKeeps

LEMMA FailKeeps ==
  ASSUME IInv, TypeOK', NEW tx \in Tx, Reject(tx) \/ SignFails(tx)
  PROVE  IInv'
<1> USE DEF chainVars, pullVars, taskVars, storedVars
<1>0. TypeOK /\ TaskOK(tx)  BY DEF IInv, NonceInv
<1>1. /\ pool' = pool /\ mined' = mined /\ boot' = boot /\ queued' \subseteq queued /\ tx \notin queued'
      /\ nonce' = nonce /\ txNonce' = txNonce /\ sent' = sent
  BY DEF Reject, SignFails, OnFailed
<1>2. rows'[tx] = {} /\ \A u \in Tx \ {tx} : rows'[u] = rows[u]
  BY <1>0 DEF Reject, SignFails, OnFailed, TypeOK
<1>3. /\ boot = "up" /\ \A u \in Tx \ {tx} : pc'[u] = pc[u]
      /\ \/ pc[tx] = "queued" /\ pc'[tx] = "done"
         \/ pc[tx] = "signing" /\ pc'[tx] = "releasing"
  BY <1>0, GotoFacts DEF Reject, SignFails
<1>4. \A e \in pool : e.tx # tx  BY <1>0, <1>3, OutFacts DEF TaskOK, Unsent
<1>5. nonce' >= nonce  BY <1>0, <1>1 DEF TypeOK
<1> QED  BY <1>1, <1>2, <1>3, <1>4, <1>5, ClearKeeps

LEMMA UnsentKeeps ==
  ASSUME IInv, TypeOK', NEW tx \in Tx, SendResync(tx) \/ SendFails(tx)
  PROVE  IInv'
<1> USE DEF chainVars, pullVars, taskVars, storedVars
<1>0. TypeOK /\ TaskOK(tx)  BY DEF IInv, NonceInv
<1>1. /\ boot' = boot /\ queued' \subseteq queued
      /\ nonce' = nonce /\ txNonce' = txNonce /\ sent' = sent
  BY DEF SendResync, SendFails, OnFailed
<1>2. rows'[tx] = {} /\ \A u \in Tx \ {tx} : rows'[u] = rows[u]
  BY <1>0 DEF SendResync, SendFails, OnFailed, TypeOK
<1>3. /\ boot = "up" /\ \A u \in Tx \ {tx} : pc'[u] = pc[u]
      /\ pc[tx] = "sending" /\ pc'[tx] \in {"syncing", "releasing"}
  BY <1>0, GotoFacts DEF SendResync, SendFails
<1>4. \A e \in pool : e.tx # tx  BY <1>0, <1>3, OutFacts DEF TaskOK, Unsent
<1>5. nonce' >= nonce  BY <1>0, <1>1 DEF TypeOK
<1>6. tx \notin queued  BY <1>0, <1>3 DEF TaskOK
<1>7. pool' = pool /\ mined' = mined
  BY DEF SendResync, SendFails, Deliver
<1>8. pc[tx] \in Unsent  BY <1>3 DEF Unsent
<1> QED  BY <1>1, <1>2, <1>3, <1>4, <1>5, <1>6, <1>7, <1>8, ClearKeeps

LEMMA SyncKeeps ==
  ASSUME IInv, TypeOK', NEW tx \in Tx, SyncAfterSend(tx)
  PROVE  IInv'
<1> USE DEF chainVars, pullVars, taskVars, storedVars
<1>0. TypeOK /\ TaskOK(tx) /\ NodeOK  BY DEF IInv, NonceInv
<1>1. /\ pool' = pool /\ mined' = mined /\ boot' = boot /\ queued' = queued
      /\ rows' = rows /\ txNonce' = txNonce /\ sent' = sent
  BY DEF SyncAfterSend
<1>3. /\ boot = "up" /\ \A u \in Tx \ {tx} : pc'[u] = pc[u]
      /\ pc[tx] = "syncing" /\ pc'[tx] = "resync"
  BY <1>0, GotoFacts DEF SyncAfterSend
<1>4. \A e \in pool : e.tx # tx  BY <1>0, <1>3, OutFacts DEF TaskOK, Unsent
<1>5. nonce' >= nonce  BY <1>0, PendingFacts DEF SyncAfterSend, Larger, TypeOK
<1>6. tx \notin queued /\ rows[tx] = {} /\ pc[tx] \in Unsent  BY <1>0, <1>3 DEF TaskOK, Unsent
<1> QED  BY <1>1, <1>3, <1>4, <1>5, <1>6, ClearKeeps

LEMMA EndKeeps ==
  ASSUME IInv, TypeOK', NEW tx \in Tx, Receipt(tx) \/ Check(tx)
  PROVE  IInv'
<1> USE DEF chainVars, pullVars, taskVars, storedVars
<1>0. TypeOK /\ TaskOK(tx) /\ NodeOK /\ ClaimsOK  BY DEF IInv, NonceInv
<1>1. /\ pool' = pool /\ mined' = mined /\ boot' = boot /\ queued' \subseteq queued
      /\ nonce' = nonce /\ txNonce' = txNonce /\ sent' = sent
  BY DEF Receipt, Check, OnFailed, OnConfirmed
<1>2. rows'[tx] = {} /\ \A u \in Tx \ {tx} : rows'[u] = rows[u]
  BY <1>0 DEF Receipt, Check, OnFailed, OnConfirmed, TypeOK
<1>3. /\ boot = "up" /\ \A u \in Tx \ {tx} : pc'[u] = pc[u]
      /\ pc[tx] \in {"watching", "checking"} /\ pc'[tx] = "done"
  BY <1>0, GotoFacts DEF Receipt, Check
<1>4. \A e \in pool : e.tx # tx
  <2>1. CASE Receipt(tx)
    <3>1. PICK e \in sent[tx] : Mined(e)  BY <2>1 DEF Receipt
    <3>2. e \in Own(tx)  BY <1>0, <1>3, <3>1 DEF TaskOK, Recording, Watching, Own
    <3>3. e.nonce < LatestNonce  BY <3>1 DEF Mined, LatestNonce
    <3> QED  BY <3>2, <3>3, UsedFacts
  <2>2. CASE Check(tx)
    <3>1. pc[tx] = "checking"  BY <1>0, <2>2, GotoFacts DEF Check
    <3>2. SUFFICES ASSUME NEW e \in pool, e.tx = tx PROVE FALSE  OBVIOUS
    <3>3. e \in Own(tx)  BY <1>0, <3>2, OutFacts DEF Own
    <3>4. e.nonce = txNonce[tx]  BY <1>0, <3>1, <3>3 DEF ClaimsOK, Holding, Recording, Watching
    <3>5. e.nonce < LatestNonce  BY <1>0, <3>1, <3>4 DEF TaskOK
    <3> QED  BY <3>2, <3>3, <3>5, UsedFacts
  <2> QED  BY <2>1, <2>2
<1>5. nonce' >= nonce  BY <1>0, <1>1 DEF TypeOK
<1>6. tx \notin queued  BY <1>0, <1>3 DEF TaskOK
<1> QED  BY <1>1, <1>2, <1>3, <1>4, <1>5, <1>6, ClearKeeps

LEMMA FillingKeeps ==
  ASSUME IInv, TypeOK', NEW tx \in Tx,
         \/ Release(tx) /\ nonce # txNonce[tx] + 1
         \/ Closed(tx) /\ pc[tx] = "filling"
  PROVE  IInv'
<1> USE DEF chainVars, pullVars, taskVars, storedVars
<1>0. TypeOK /\ TaskOK(tx)  BY DEF IInv, NonceInv
<1>1. /\ pool' = pool /\ mined' = mined /\ boot' = boot /\ queued' = queued
      /\ nonce' = nonce /\ rows' = rows /\ txNonce' = txNonce /\ sent' = sent
  BY DEF Release, Closed
<1>3. /\ boot = "up" /\ \A u \in Tx \ {tx} : pc'[u] = pc[u]
      /\ \/ pc[tx] = "releasing" /\ pc'[tx] = "filling"
         \/ pc[tx] = "filling" /\ pc'[tx] = "done"
  <2>1. CASE Release(tx) /\ nonce # txNonce[tx] + 1
    <3>1. Goto(tx, "releasing", "filling")  BY <2>1 DEF Release
    <3> QED  BY <1>0, <3>1, GotoFacts
  <2>2. CASE Closed(tx) /\ pc[tx] = "filling"
    <3>1. Goto(tx, "filling", "done")  BY <2>2 DEF Closed, Goto
    <3> QED  BY <1>0, <3>1, GotoFacts
  <2> QED  BY <2>1, <2>2
<1>4. \A e \in pool : e.tx # tx  BY <1>0, <1>3, OutFacts DEF TaskOK, Unsent
<1>5. nonce' >= nonce  BY <1>0, <1>1 DEF TypeOK
<1>6. tx \notin queued /\ rows[tx] = {} /\ pc[tx] \in Unsent  BY <1>0, <1>3 DEF TaskOK, Unsent
<1> QED  BY <1>1, <1>3, <1>4, <1>5, <1>6, ClearKeeps

\* A step of a task with a row to a state in which it watches, all it has sent in the row.
LEMMA WatchKeeps ==
  ASSUME IInv, TypeOK', NEW tx \in Tx, boot = "up", boot' = boot, queued' = queued,
         rows' = rows, txNonce' = txNonce, nonce' = nonce,
         \A u \in Tx \ {tx} : pc'[u] = pc[u] /\ sent'[u] = sent[u],
         \/ pool' = pool /\ mined' = mined
         \/ \E e \in rows[tx] : Comes(e) /\ e.nonce >= LatestNonce,
         pc[tx] \in Recording, pc'[tx] \in Watching \ {"replacing"},
         pc'[tx] = "checking" => txNonce[tx] < LatestNonce,
         sent[tx] \subseteq sent'[tx], sent'[tx] \subseteq rows[tx]
  PROVE  IInv'
<1>0. TypeOK /\ TaskOK(tx)  BY DEF IInv, NonceInv
<1>1. Steps(tx)  BY DEF Steps
<1>2. /\ LatestNonce' = LatestNonce
      /\ \A e \in Out' : e \in Out \/ (e \in rows[tx] /\ e.tx = tx)
      /\ \A e \in pool' : e \in pool \/ (e \in rows[tx] /\ e.tx = tx)
  BY <1>1, StepsOut
<1>3. pc'[tx] \in {"watching", "closing", "checking"}  BY DEF Watching
<1>4. sent[tx] # {} /\ sent[tx] \subseteq rows[tx] /\ tx \notin queued
  BY <1>0 DEF TaskOK, Recording, Watching
<1>5. \A e \in Out' : e.tx = tx => e \in rows[tx]  BY <1>0, <1>2, <1>4 DEF TaskOK
<1>6. \A e \in pool' : e.tx = tx => e \in rows[tx]  BY <1>0, <1>2 DEF TaskOK
<1>7. \A e \in rows[tx] : e.tx = tx  BY <1>0 DEF TaskOK
<1>8. TaskOK(tx)'  BY <1>2, <1>3, <1>4, <1>5, <1>6, <1>7 DEF TaskOK, Unsent
<1>9. pc[tx] \in Holding  BY DEF Holding
<1>10. nonce' >= nonce  BY <1>0 DEF TypeOK
<1> QED  BY <1>1, <1>8, <1>9, <1>10, StepKeeps

LEMMA WatchStepKeeps ==
  ASSUME IInv, TypeOK', NEW tx \in Tx,
         \/ Send(tx) \/ Resend(tx) \/ SendReplacement(tx) \/ WatchFails(tx)
         \/ Closed(tx) /\ pc[tx] # "filling"
  PROVE  IInv'
<1> USE DEF chainVars, pullVars, taskVars, storedVars
<1>0. TypeOK /\ TaskOK(tx)  BY DEF IInv, NonceInv
<1>1. pc[tx] \in Recording => /\ sent[tx] \subseteq rows[tx] /\ sent[tx] \in SUBSET Envelopes
                              /\ Best(sent[tx]) \in sent[tx] /\ Best(sent[tx]) \in rows[tx]
                              /\ Best(sent[tx]) \in Envelopes
  BY <1>0, BestFacts DEF TypeOK, TaskOK
<1>2. CASE Send(tx)
  <2>1. /\ boot' = boot /\ queued' = queued /\ nonce' = nonce
        /\ rows' = rows /\ txNonce' = txNonce /\ sent' = sent
    BY <1>2 DEF Send
  <2>2. /\ boot = "up" /\ \A u \in Tx \ {tx} : pc'[u] = pc[u]
        /\ pc[tx] = "sending" /\ pc'[tx] = "watching"
    BY <1>0, <1>2, GotoFacts DEF Send
  <2>3. pc[tx] \in Recording /\ pc'[tx] \in Watching \ {"replacing"}  BY <2>2 DEF Recording, Watching
  <2>4. PICK answer \in {"pooled", "silent"} : Deliver(Best(sent[tx]), "send", answer)  BY <1>2 DEF Send
  <2>5. /\ mined' = mined
        /\ pool' = pool \/ (pool' = pool \cup {Best(sent[tx])} /\ Best(sent[tx]).nonce >= LatestNonce)
    BY <1>0, <1>1, <2>3, <2>4, DeliverType
  <2>6. \/ pool' = pool /\ mined' = mined
        \/ \E e \in rows[tx] : Comes(e) /\ e.nonce >= LatestNonce
    BY <1>1, <2>3, <2>5 DEF Comes
  <2> QED  BY <1>1, <2>1, <2>2, <2>3, <2>6, WatchKeeps
<1>3. CASE Resend(tx)
  <2>1. /\ boot' = boot /\ queued' = queued /\ nonce' = nonce
        /\ rows' = rows /\ txNonce' = txNonce /\ sent' = sent
    BY <1>3 DEF Resend
  <2>2. /\ boot = "up" /\ \A u \in Tx \ {tx} : pc'[u] = pc[u]
        /\ pc[tx] = "watching" /\ pc'[tx] = "watching"
    BY <1>0, <1>3, GotoFacts DEF Resend
  <2>3. pc[tx] \in Recording /\ pc'[tx] \in Watching \ {"replacing"}  BY <2>2 DEF Recording, Watching
  <2>6. \E e \in rows[tx] : Comes(e) /\ e.nonce >= LatestNonce
    BY <1>1, <1>3, <2>3 DEF Comes, Resend
  <2> QED  BY <1>1, <2>1, <2>2, <2>3, <2>6, WatchKeeps
<1>4. CASE SendReplacement(tx)
  <2> DEFINE r == Envelope(tx, txNonce[tx], Best(sent[tx]).bump + 1)
  <2>1. /\ boot' = boot /\ queued' = queued /\ nonce' = nonce
        /\ rows' = rows /\ txNonce' = txNonce
        /\ sent' = sent \/ sent' = [sent EXCEPT ![tx] = @ \cup {r}]
    BY <1>4 DEF SendReplacement
  <2>2. /\ boot = "up" /\ \A u \in Tx \ {tx} : pc'[u] = pc[u]
        /\ pc[tx] = "replacing" /\ pc'[tx] \in {"watching", "closing"}
    BY <1>0, <1>4, GotoFacts DEF SendReplacement
  <2>3. pc[tx] \in Recording /\ pc'[tx] \in Watching \ {"replacing"}  BY <2>2 DEF Recording, Watching
  <2>4. r \in rows[tx] /\ r \in Envelopes  BY <1>0, <2>2 DEF TaskOK, TypeOK
  <2>5. \E answer \in {"pooled", "used", "rejected", "silent"} : Deliver(r, "replace", answer)
    BY <1>4 DEF SendReplacement
  <2> HIDE DEF r
  <2>6. mined' = mined /\ (pool' = pool \/ (pool' = pool \cup {r} /\ r.nonce >= LatestNonce))
    BY <1>0, <2>4, <2>5, DeliverType
  <2>7. \/ pool' = pool /\ mined' = mined
        \/ \E e \in rows[tx] : Comes(e) /\ e.nonce >= LatestNonce
    BY <2>4, <2>6 DEF Comes
  <2>8. /\ \A u \in Tx \ {tx} : sent'[u] = sent[u]
        /\ sent[tx] \subseteq sent'[tx] /\ sent'[tx] \subseteq rows[tx]
    BY <1>0, <1>1, <2>1, <2>3, <2>4 DEF TypeOK
  <2>9. \A u \in Tx \ {tx} : pc'[u] = pc[u] /\ sent'[u] = sent[u]  BY <2>2, <2>8
  <2> QED  BY <2>1, <2>2, <2>3, <2>7, <2>8, <2>9, WatchKeeps
<1>5. CASE WatchFails(tx)
  <2>1. /\ boot' = boot /\ queued' = queued /\ nonce' = nonce /\ pool' = pool /\ mined' = mined
        /\ rows' = rows /\ txNonce' = txNonce /\ sent' = sent
    BY <1>5 DEF WatchFails
  <2>2. /\ boot = "up" /\ \A u \in Tx \ {tx} : pc'[u] = pc[u]
        /\ pc[tx] = "watching" /\ pc'[tx] = "closing"
    BY <1>0, <1>5, GotoFacts DEF WatchFails
  <2>3. pc[tx] \in Recording /\ pc'[tx] \in Watching \ {"replacing"}  BY <2>2 DEF Recording, Watching
  <2> QED  BY <1>1, <2>1, <2>2, <2>3, WatchKeeps
<1>6. CASE Closed(tx) /\ pc[tx] # "filling"
  <2>1. /\ boot' = boot /\ queued' = queued /\ nonce' = nonce /\ pool' = pool /\ mined' = mined
        /\ rows' = rows /\ txNonce' = txNonce /\ sent' = sent
    BY <1>6 DEF Closed
  <2>2. Goto(tx, "closing", "checking")  BY <1>6 DEF Closed, Goto
  <2>3. /\ boot = "up" /\ \A u \in Tx \ {tx} : pc'[u] = pc[u]
        /\ pc[tx] = "closing" /\ pc'[tx] = "checking"
    BY <1>0, <2>2, GotoFacts
  <2>4. pc[tx] \in Recording /\ pc'[tx] \in Watching \ {"replacing"}  BY <2>3 DEF Recording, Watching
  <2>5. txNonce[tx] < LatestNonce
    <3>1. LatestNonce \in Nat /\ txNonce[tx] \in Nat  BY <1>0 DEF TypeOK, LatestNonce
    <3> QED  BY <1>6, <3>1 DEF Closed
  <2> QED  BY <1>1, <2>1, <2>3, <2>4, <2>5, WatchKeeps
<1> QED  BY <1>2, <1>3, <1>4, <1>5, <1>6

(***************************************************************************)
(* The steps that claim a nonce or give one back                           *)
(***************************************************************************)

\* A task that holds its nonce records an envelope with it.
LEMMA RecordKeeps ==
  ASSUME IInv, TypeOK', NEW tx \in Tx, Steps(tx), TaskOK(tx)', txNonce' = txNonce, nonce' = nonce,
         pc[tx] \in Holding, \A e \in rows'[tx] : e \in rows[tx] \/ e.nonce = txNonce[tx]
  PROVE  IInv'
<1>0. TypeOK /\ NodeOK /\ RowsBounded /\ ClaimsOK  BY DEF IInv, NonceInv
<1>1. NodeOK' /\ \A e \in Out' : e \in Out \/ e \in rows[tx]  BY StepsOut
<1>2. ASSUME NEW u \in Tx PROVE TaskOK(u)'  BY StepsOthers
<1>3. \A u \in Tx \ {tx} : Own(u)' = Own(u) /\ pc'[u] = pc[u]  BY StepsOthers DEF Steps
<1>4. \A e \in Own(tx)' : e.nonce = txNonce[tx]
  <2>1. \A e \in Own(tx) : e.nonce = txNonce[tx]  BY <1>0 DEF ClaimsOK
  <2> QED  BY <1>1, <2>1 DEF Own
<1>5. \A u \in Tx : pc'[u] \in Holding => pc[u] \in Holding  BY <1>3
<1>6. ClaimsOK'
  <2>1. \A u \in Tx : \A e, f \in Own(u)' : e.nonce = f.nonce  BY <1>0, <1>3, <1>4 DEF ClaimsOK
  <2>2. \A u \in Tx : pc'[u] \in Holding => \A e \in Own(u)' : e.nonce = txNonce'[u]
    BY <1>0, <1>3, <1>4, <1>5 DEF ClaimsOK
  <2>3. \A u \in Tx \ {tx} : \A e \in Own(u) : e.nonce # txNonce[tx]  BY <1>0 DEF ClaimsOK
  <2>4. \A u, v \in Tx : u # v => \A e \in Own(u)', f \in Own(v)' : e.nonce # f.nonce
    <3>1. ASSUME NEW u \in Tx, NEW v \in Tx, u # v, NEW e \in Own(u)', NEW f \in Own(v)'
          PROVE  e.nonce # f.nonce
      <4>1. CASE u = tx  BY <1>3, <1>4, <2>3, <3>1, <4>1
      <4>2. CASE v = tx  BY <1>3, <1>4, <2>3, <3>1, <4>2
      <4>3. CASE u # tx /\ v # tx  BY <1>0, <1>3, <3>1, <4>3 DEF ClaimsOK
      <4> QED  BY <4>1, <4>2, <4>3
    <3> QED  BY <3>1
  <2>5. \A u, v \in Tx : u # v /\ pc'[u] \in Holding => \A e \in Own(v)' : e.nonce # txNonce'[u]
    <3>1. ASSUME NEW u \in Tx, NEW v \in Tx, u # v, pc'[u] \in Holding, NEW e \in Own(v)'
          PROVE  e.nonce # txNonce[u]
      <4>1. pc[u] \in Holding  BY <1>5, <3>1
      <4>2. CASE v = tx
        <5>1. e.nonce = txNonce[tx] /\ txNonce[u] # txNonce[tx]
          BY <1>0, <1>4, <3>1, <4>1, <4>2 DEF ClaimsOK
        <5> QED  BY <5>1
      <4>3. CASE v # tx  BY <1>0, <1>3, <3>1, <4>1, <4>3 DEF ClaimsOK
      <4> QED  BY <4>2, <4>3
    <3> QED  BY <3>1
  <2>6. \A u, v \in Tx :
          u # v /\ pc'[u] \in Holding /\ pc'[v] \in Holding => txNonce'[u] # txNonce'[v]
    BY <1>0, <1>5 DEF ClaimsOK
  <2>7. \A u \in Tx : pc'[u] \in Holding => txNonce'[u] < nonce'  BY <1>0, <1>5 DEF ClaimsOK
  <2>8. \A u \in Tx : \A e \in Own(u)' : e.nonce < nonce'
    <3>1. boot # "rows"  BY DEF Steps
    <3> QED  BY <1>0, <1>3, <1>4, <3>1 DEF ClaimsOK
  <2> QED  BY <2>1, <2>2, <2>4, <2>5, <2>6, <2>7, <2>8 DEF ClaimsOK
<1>7. RowsBounded'
  <2>1. PICK b \in Nat : \A u \in Tx : \A e \in rows[u] : e.nonce < b  BY <1>0 DEF RowsBounded
  <2>2. txNonce[tx] \in Nat  BY <1>0 DEF TypeOK
  <2> DEFINE c == b + txNonce[tx] + 1
  <2>3. c \in Nat /\ txNonce[tx] < c /\ b <= c  BY <2>2
  <2> HIDE DEF c
  <2>4. ASSUME NEW u \in Tx, NEW e \in rows'[u] PROVE e.nonce < c
    <3>1. e.nonce \in Nat  BY DEF TypeOK, Envelopes
    <3>2. e \in rows[u] \/ e.nonce = txNonce[tx]  BY DEF Steps
    <3> QED  BY <2>1, <2>2, <2>3, <3>1, <3>2
  <2> QED  BY <2>3, <2>4 DEF RowsBounded
<1> QED  BY <1>1, <1>2, <1>6, <1>7 DEF IInv, NonceInv

LEMMA PersistKeeps ==
  ASSUME IInv, TypeOK', NEW tx \in Tx, Persist(tx)
  PROVE  IInv'
<1> USE DEF chainVars, pullVars, taskVars, storedVars
<1>0. TypeOK /\ TaskOK(tx) /\ NodeOK  BY DEF IInv, NonceInv
<1>1. PICK e \in Envelopes : e = Envelope(tx, txNonce[tx], 0) /\ e.tx = tx /\ e.nonce = txNonce[tx]
  <2>1. txNonce[tx] \in Nat  BY <1>0 DEF TypeOK
  <2> QED  BY <2>1, EnvelopeType, ZeroBump
<1>2. /\ boot' = boot /\ queued' = queued \ {tx} /\ nonce' = nonce /\ pool' = pool /\ mined' = mined
      /\ txNonce' = txNonce
  BY DEF Persist
<1>3. /\ boot = "up" /\ pc[tx] = "signing" /\ pc'[tx] = "sending"
      /\ \A u \in Tx \ {tx} : pc'[u] = pc[u]
  BY <1>0, GotoFacts DEF Persist
<1>4. sent'[tx] = {e} /\ rows'[tx] = {e} /\ \A u \in Tx \ {tx} : sent'[u] = sent[u] /\ rows'[u] = rows[u]
  <2>1. sent' = [sent EXCEPT ![tx] = {e}]  BY <1>1 DEF Persist
  <2>2. sent'[tx] = {e} /\ \A u \in Tx \ {tx} : sent'[u] = sent[u]  BY <1>0, <2>1 DEF TypeOK
  <2>3. rows' = [rows EXCEPT ![tx] = {e}]  BY <2>2 DEF Persist
  <2>4. rows'[tx] = {e} /\ \A u \in Tx \ {tx} : rows'[u] = rows[u]  BY <1>0, <2>3 DEF TypeOK
  <2> QED  BY <2>2, <2>4
<1>5. Steps(tx)  BY <1>2, <1>3, <1>4 DEF Steps
<1>6. Out' = Out /\ \A f \in Out : f.tx # tx
  BY <1>0, <1>2, <1>3, IdleKeeps DEF TaskOK, Unsent
<1>7. TaskOK(tx)'
  BY <1>0, <1>1, <1>2, <1>3, <1>4, <1>6, OutFacts DEF TaskOK, Unsent, Recording, Watching
<1>8. pc[tx] \in Holding  BY <1>3 DEF Holding
<1> QED  BY <1>1, <1>2, <1>4, <1>5, <1>7, <1>8, RecordKeeps

LEMMA ReplaceKeeps ==
  ASSUME IInv, TypeOK', NEW tx \in Tx, Replace(tx)
  PROVE  IInv'
<1> USE DEF chainVars, pullVars, taskVars, storedVars
<1>0. TypeOK /\ TaskOK(tx) /\ NodeOK  BY DEF IInv, NonceInv
<1>2. /\ boot' = boot /\ queued' = queued /\ nonce' = nonce /\ pool' = pool /\ mined' = mined
      /\ txNonce' = txNonce /\ sent' = sent
  BY DEF Replace
<1>3. /\ boot = "up" /\ pc[tx] = "watching" /\ pc'[tx] = "replacing"
      /\ \A u \in Tx \ {tx} : pc'[u] = pc[u]
  BY <1>0, GotoFacts DEF Replace
<1>4. /\ sent[tx] # {} /\ sent[tx] \subseteq rows[tx] /\ tx \notin queued
      /\ \A f \in Out : f.tx = tx => f \in rows[tx]
      /\ \A f \in rows[tx] : f.tx = tx
  BY <1>0, <1>3 DEF TaskOK, Recording, Watching
<1>1. PICK e \in Envelopes : /\ e = Envelope(tx, txNonce[tx], Best(sent[tx]).bump + 1)
                             /\ e.tx = tx /\ e.nonce = txNonce[tx]
  <2>1. txNonce[tx] \in Nat /\ Best(sent[tx]) \in Envelopes  BY <1>0, <1>4, BestFacts DEF TypeOK
  <2>2. Best(sent[tx]).bump + 1 \in 0..MaxBump  BY <2>1, ZeroBump DEF Replace, Envelopes
  <2> QED  BY <2>1, <2>2, EnvelopeType
<1>5. rows'[tx] = rows[tx] \cup {e} /\ \A u \in Tx \ {tx} : rows'[u] = rows[u]
  BY <1>0, <1>1 DEF TypeOK, Replace
<1>6. Steps(tx)  BY <1>2, <1>3, <1>5 DEF Steps
<1>7. Out' = Out  BY <1>0, <1>2, IdleKeeps
<1>8. TaskOK(tx)'
  <2>1. Envelope(tx, txNonce[tx], Best(sent[tx]).bump + 1)' \in rows'[tx]
    <3>1. Envelope(tx, txNonce[tx], Best(sent[tx]).bump + 1)' = e  BY <1>1, <1>2 DEF Best, Envelope
    <3> QED  BY <1>5, <3>1
  <2>2. \A f \in rows'[tx] : f.tx = tx  BY <1>1, <1>4, <1>5
  <2>3. \A f \in Out' : f.tx = tx => f \in rows'[tx]  BY <1>4, <1>5, <1>7
  <2>4. \A f \in pool' : f.tx = tx => f \in rows'[tx]  BY <1>0, <1>2, <1>5 DEF TaskOK
  <2>5. sent'[tx] # {} /\ sent'[tx] \subseteq rows'[tx]  BY <1>2, <1>4, <1>5
  <2> QED  BY <1>2, <1>3, <1>4, <2>1, <2>2, <2>3, <2>4, <2>5 DEF TaskOK, Unsent
<1>9. pc[tx] \in Holding  BY <1>3 DEF Holding, Recording, Watching
<1> QED  BY <1>1, <1>2, <1>5, <1>6, <1>8, <1>9, RecordKeeps

\* next_nonce: all claims are below the nonce given out.
LEMMA NextNonceKeeps ==
  ASSUME IInv, TypeOK', NEW tx \in Tx, NextNonce(tx)
  PROVE  IInv'
<1> USE DEF chainVars, pullVars, taskVars, storedVars
<1>0. TypeOK /\ TaskOK(tx) /\ NodeOK /\ ClaimsOK /\ RowsBounded  BY DEF IInv, NonceInv
<1>1. /\ boot' = boot /\ queued' = queued /\ pool' = pool /\ mined' = mined
      /\ rows' = rows /\ sent' = sent /\ nonce' = nonce + 1 /\ nonce \in Nat
  BY <1>0 DEF NextNonce, TypeOK
<1>2. txNonce'[tx] = nonce /\ \A u \in Tx \ {tx} : txNonce'[u] = txNonce[u]
  BY <1>0 DEF NextNonce, TypeOK
<1>3. /\ boot = "up" /\ pc[tx] \in {"queued", "resync"} /\ pc'[tx] = "signing"
      /\ \A u \in Tx \ {tx} : pc'[u] = pc[u]
  BY <1>0, GotoFacts DEF NextNonce
<1>4. rows[tx] = {} /\ \A e \in Out : e.tx # tx  BY <1>0, <1>3 DEF TaskOK, Unsent
<1>5. Own(tx) = {}  BY <1>4 DEF Own
<1>6. Steps(tx)  BY <1>1, <1>2, <1>3 DEF Steps
<1>7. Out' = Out /\ LatestNonce' = LatestNonce /\ NodeOK'  BY <1>0, <1>1, IdleKeeps
<1>8. TaskOK(tx)'
  BY <1>1, <1>3, <1>4, <1>7, OutFacts, <1>0 DEF TaskOK, Unsent, Recording, Watching
<1>9. ASSUME NEW u \in Tx PROVE TaskOK(u)'  BY <1>6, <1>8, StepsOthers
<1>10. \A u \in Tx : Own(u)' = Own(u)  BY <1>1, <1>7 DEF Own
<1>11. ClaimsOK'
  <2>1. \A u \in Tx : \A e \in Own(u) : e.nonce < nonce /\ e.nonce \in Nat
    <3>1. \A u \in Tx : \A e \in Own(u) : e \in Envelopes  BY <1>0, OutFacts DEF Own, TypeOK
    <3> QED  BY <1>0, <1>3, <3>1 DEF ClaimsOK, Envelopes
  <2>2. \A u \in Tx \ {tx} : pc'[u] \in Holding => /\ pc[u] \in Holding /\ txNonce[u] < nonce
                                                  /\ txNonce'[u] = txNonce[u] /\ txNonce[u] \in Nat
    BY <1>0, <1>2, <1>3 DEF ClaimsOK, TypeOK
  <2>3. \A u \in Tx : \A e, f \in Own(u)' : e.nonce = f.nonce  BY <1>0, <1>10 DEF ClaimsOK
  <2>4. \A u \in Tx : pc'[u] \in Holding => \A e \in Own(u)' : e.nonce = txNonce'[u]
    BY <1>0, <1>5, <1>10, <2>2 DEF ClaimsOK
  <2>5. \A u, v \in Tx : u # v => \A e \in Own(u)', f \in Own(v)' : e.nonce # f.nonce
    BY <1>0, <1>10 DEF ClaimsOK
  <2>6. \A u, v \in Tx : u # v /\ pc'[u] \in Holding => \A e \in Own(v)' : e.nonce # txNonce'[u]
    <3>1. ASSUME NEW u \in Tx, NEW v \in Tx, u # v, pc'[u] \in Holding, NEW e \in Own(v)
          PROVE  e.nonce # txNonce'[u]
      <4>1. CASE u = tx  BY <1>1, <1>2, <2>1, <4>1
      <4>2. CASE u # tx  BY <1>0, <2>2, <3>1, <4>2 DEF ClaimsOK
      <4> QED  BY <4>1, <4>2
    <3> QED  BY <1>10, <3>1
  <2>7. \A u, v \in Tx :
          u # v /\ pc'[u] \in Holding /\ pc'[v] \in Holding => txNonce'[u] # txNonce'[v]
    <3>1. ASSUME NEW u \in Tx, NEW v \in Tx, u # v, pc'[u] \in Holding, pc'[v] \in Holding
          PROVE  txNonce'[u] # txNonce'[v]
      <4>1. CASE u = tx  BY <1>1, <1>2, <2>2, <3>1, <4>1
      <4>2. CASE v = tx  BY <1>1, <1>2, <2>2, <3>1, <4>2
      <4>3. CASE u # tx /\ v # tx  BY <1>0, <2>2, <3>1, <4>3 DEF ClaimsOK
      <4> QED  BY <4>1, <4>2, <4>3
    <3> QED  BY <3>1
  <2>8. \A u \in Tx : pc'[u] \in Holding => txNonce'[u] < nonce'
    <3>1. ASSUME NEW u \in Tx, pc'[u] \in Holding PROVE txNonce'[u] < nonce'
      <4>1. CASE u = tx  BY <1>1, <1>2, <4>1
      <4>2. CASE u # tx  BY <1>1, <2>2, <3>1, <4>2
      <4> QED  BY <4>1, <4>2
    <3> QED  BY <3>1
  <2>9. \A u \in Tx : \A e \in Own(u)' : e.nonce < nonce'  BY <1>1, <1>10, <2>1
  <2> QED  BY <2>3, <2>4, <2>5, <2>6, <2>7, <2>8, <2>9 DEF ClaimsOK
<1>12. RowsBounded'  BY <1>0, <1>1, BoundKept
<1> QED  BY <1>7, <1>9, <1>11, <1>12 DEF IInv, NonceInv

\* A nonce is given back when no claim is above it.
LEMMA GiveBackKeeps ==
  ASSUME IInv, TypeOK', NEW tx \in Tx, Release(tx), nonce = txNonce[tx] + 1
  PROVE  IInv'
<1> USE DEF chainVars, pullVars, taskVars, storedVars
<1>0. TypeOK /\ TaskOK(tx) /\ NodeOK /\ ClaimsOK /\ RowsBounded  BY DEF IInv, NonceInv
<1>1. /\ boot' = boot /\ queued' = queued /\ pool' = pool /\ mined' = mined /\ txNonce' = txNonce
      /\ rows' = rows /\ sent' = sent /\ nonce' = txNonce[tx] /\ txNonce[tx] \in Nat
  BY <1>0 DEF Release, TypeOK
<1>2. Goto(tx, "releasing", "done")  BY DEF Release
<1>3. /\ boot = "up" /\ pc[tx] = "releasing" /\ pc'[tx] = "done"
      /\ \A u \in Tx \ {tx} : pc'[u] = pc[u]
  BY <1>0, <1>2, GotoFacts
<1>4. rows[tx] = {} /\ (\A e \in Out : e.tx # tx) /\ tx \notin queued /\ pc[tx] \in Holding
  BY <1>0, <1>3 DEF TaskOK, Unsent, Holding
<1>5. Own(tx) = {}  BY <1>4 DEF Own
<1>6. Steps(tx)  BY <1>1, <1>3 DEF Steps
<1>7. Out' = Out /\ NodeOK'  BY <1>0, <1>1, IdleKeeps
<1>8. TaskOK(tx)'
  BY <1>0, <1>1, <1>3, <1>4, <1>7, OutFacts DEF TaskOK, Unsent, Recording, Watching
<1>9. ASSUME NEW u \in Tx PROVE TaskOK(u)'  BY <1>6, <1>8, StepsOthers
<1>10. \A u \in Tx : Own(u)' = Own(u)  BY <1>1, <1>7 DEF Own
<1>11. \A u \in Tx : pc'[u] \in Holding => u # tx /\ pc[u] \in Holding
  BY <1>3 DEF Holding, Recording, Watching
<1>12. ClaimsOK'
  <2>1. ASSUME NEW u \in Tx, NEW e \in Own(u) PROVE e.nonce < nonce'
    <3>1. e \in Envelopes  BY <1>0, OutFacts DEF Own, TypeOK
    <3>2. e.nonce < nonce  BY <1>0, <1>3 DEF ClaimsOK
    <3>3. u # tx /\ e.nonce # txNonce[tx]  BY <1>0, <1>4, <1>5 DEF ClaimsOK
    <3> QED  BY <1>1, <3>1, <3>2, <3>3 DEF Envelopes
  <2>2. ASSUME NEW u \in Tx, pc'[u] \in Holding PROVE txNonce[u] < nonce'
    <3>1. txNonce[u] < nonce /\ txNonce[u] \in Nat  BY <1>0, <1>11, <2>2 DEF ClaimsOK, TypeOK
    <3>2. txNonce[u] # txNonce[tx]  BY <1>0, <1>4, <1>11, <2>2 DEF ClaimsOK
    <3> QED  BY <1>1, <3>1, <3>2
  <2>3. \A u \in Tx : \A e, f \in Own(u)' : e.nonce = f.nonce  BY <1>0, <1>10 DEF ClaimsOK
  <2>4. \A u \in Tx : pc'[u] \in Holding => \A e \in Own(u)' : e.nonce = txNonce'[u]
    BY <1>0, <1>1, <1>10, <1>11 DEF ClaimsOK
  <2>5. \A u, v \in Tx : u # v => \A e \in Own(u)', f \in Own(v)' : e.nonce # f.nonce
    BY <1>0, <1>10 DEF ClaimsOK
  <2>6. \A u, v \in Tx : u # v /\ pc'[u] \in Holding => \A e \in Own(v)' : e.nonce # txNonce'[u]
    BY <1>0, <1>1, <1>10, <1>11 DEF ClaimsOK
  <2>7. \A u, v \in Tx :
          u # v /\ pc'[u] \in Holding /\ pc'[v] \in Holding => txNonce'[u] # txNonce'[v]
    BY <1>0, <1>1, <1>11 DEF ClaimsOK
  <2>8. \A u \in Tx : \A e \in Own(u)' : e.nonce < nonce'  BY <1>10, <2>1
  <2>9. \A u \in Tx : pc'[u] \in Holding => txNonce'[u] < nonce'  BY <1>1, <2>2
  <2> QED  BY <2>3, <2>4, <2>5, <2>6, <2>7, <2>8, <2>9 DEF ClaimsOK
<1>13. RowsBounded'  BY <1>0, <1>1, BoundKept
<1> QED  BY <1>7, <1>9, <1>12, <1>13 DEF IInv, NonceInv

(***************************************************************************)
(* Restarts                                                                *)
(***************************************************************************)

\* What was included is below the node's nonce; all else is in a row.
LEMMA CrashKeeps ==
  ASSUME IInv, TypeOK', Crash
  PROVE  IInv'
<1> USE DEF chainVars, pullVars, taskVars, storedVars
<1>0. TypeOK /\ NodeOK /\ ClaimsOK /\ RowsBounded /\ \A tx \in Tx : TaskOK(tx)  BY DEF IInv, NonceInv
<1>1. /\ boot' = "rows" /\ queued' = queued /\ pool' = pool /\ mined' = mined /\ txNonce' = txNonce
      /\ rows' = rows /\ nonce' = PendingNonce
  BY DEF Crash
<1>2. \A tx \in Tx : pc'[tx] = IF tx \in queued THEN "queued" ELSE "done"  BY DEF Crash
<1>3. Out' = Out /\ NodeOK'  BY <1>0, <1>1, IdleKeeps
<1>4. \A tx \in Tx : Own(tx)' = Own(tx)  BY <1>1, <1>3 DEF Own
<1>5. ASSUME NEW tx \in Tx PROVE TaskOK(tx)'
  <2>1. TaskOK(tx)  BY <1>0
  <2>2. pc'[tx] \in {"queued", "done"} /\ (tx \in queued <=> pc'[tx] = "queued")  BY <1>2
  <2>3. pc'[tx] = "queued" => rows[tx] = {} /\ \A e \in Out : e.tx # tx
    BY <2>1, <2>2 DEF TaskOK, Unsent
  <2>4. /\ \A e \in rows[tx] : e.tx = tx
        /\ \A e \in pool : e.tx = tx => e \in rows[tx]
        /\ rows[tx] # {} => \A e \in Out : e.tx = tx => e \in rows[tx]
    BY <2>1 DEF TaskOK
  <2> QED  BY <1>1, <1>3, <2>2, <2>3, <2>4 DEF TaskOK, Unsent, Recording, Watching
<1>6. ClaimsOK'
  <2>1. \A tx \in Tx : pc'[tx] \notin Holding  BY <1>2 DEF Holding, Recording, Watching
  <2>2. ASSUME NEW tx \in Tx, NEW e \in Own(tx), e \notin rows[tx] PROVE e.nonce < nonce'
    <3>1. e \in Out /\ e.tx = tx /\ e \notin pool  BY <1>0, <2>2 DEF Own, TaskOK
    <3>2. PICK i \in 1..Len(mined) : e = mined[i]  BY <3>1 DEF Out
    <3>3. e.nonce = i - 1 /\ Len(mined) \in Nat  BY <1>0, <3>2 DEF NodeOK, TypeOK
    <3>4. PendingNonce \in Nat /\ PendingNonce >= Len(mined)  BY <1>0, PendingFacts DEF LatestNonce
    <3> QED  BY <1>1, <3>3, <3>4
  <2>3. \A tx \in Tx : \A e, f \in Own(tx)' : e.nonce = f.nonce  BY <1>0, <1>4 DEF ClaimsOK
  <2>4. \A u, v \in Tx : u # v => \A e \in Own(u)', f \in Own(v)' : e.nonce # f.nonce
    BY <1>0, <1>4 DEF ClaimsOK
  <2>5. \A tx \in Tx : \A e \in Own(tx)' : e.nonce < nonce' \/ (boot' = "rows" /\ e \in rows'[tx])
    BY <1>1, <1>4, <2>2
  <2> QED  BY <2>1, <2>3, <2>4, <2>5 DEF ClaimsOK
<1>7. RowsBounded'  BY <1>0, <1>1, BoundKept
<1> QED  BY <1>3, <1>5, <1>6, <1>7 DEF IInv, NonceInv

\* The loaded rows claim their nonces again before a nonce is given out.
LEMMA LoadKeeps ==
  ASSUME IInv, TypeOK', LoadRows
  PROVE  IInv'
<1> USE DEF chainVars, pullVars, taskVars, storedVars
<1>0. TypeOK /\ NodeOK /\ ClaimsOK /\ RowsBounded /\ \A tx \in Tx : TaskOK(tx)  BY DEF IInv, NonceInv
<1>1. /\ boot = "rows" /\ boot' = "pull" /\ queued' = queued /\ pool' = pool /\ mined' = mined
      /\ rows' = rows /\ sent' = rows
  BY DEF LoadRows
<1>2. \A tx \in Tx : /\ rows[tx] # {} => pc'[tx] = "watching" /\ txNonce'[tx] = Best(rows[tx]).nonce
                     /\ rows[tx] = {} => pc'[tx] = pc[tx] /\ txNonce'[tx] = txNonce[tx]
  BY DEF LoadRows
<1>3. \A tx \in Tx : pc[tx] \in {"queued", "done"}  BY <1>0, <1>1 DEF TaskOK
<1>4. Out' = Out /\ NodeOK'  BY <1>0, <1>1, IdleKeeps
<1>5. \A tx \in Tx : Own(tx)' = Own(tx)  BY <1>1, <1>4 DEF Own
<1>6. ASSUME NEW tx \in Tx, rows[tx] # {}
      PROVE  Best(rows[tx]) \in rows[tx] /\ Best(rows[tx]) \in Own(tx)
  <2>1. rows[tx] \in SUBSET Envelopes  BY <1>0 DEF TypeOK
  <2>2. Best(rows[tx]) \in rows[tx]  BY <1>6, <2>1, BestFacts
  <2> QED  BY <2>2 DEF Own
<1>7. ASSUME NEW tx \in Tx PROVE TaskOK(tx)'
  <2>1. TaskOK(tx)  BY <1>0
  <2>2. /\ \A e \in rows[tx] : e.tx = tx
        /\ \A e \in pool : e.tx = tx => e \in rows[tx]
        /\ rows[tx] # {} => \A e \in Out : e.tx = tx => e \in rows[tx]
    BY <2>1 DEF TaskOK
  <2>3. CASE rows[tx] = {}
    <3>1. pc'[tx] = pc[tx] /\ pc[tx] \in {"queued", "done"}  BY <1>2, <1>3, <2>3
    <3>2. pc[tx] = "queued" => \A e \in Out : e.tx # tx  BY <2>1 DEF TaskOK, Unsent
    <3>3. tx \in queued => pc[tx] = "queued"  BY <2>1, <3>1 DEF TaskOK
    <3> QED  BY <1>1, <1>4, <2>2, <2>3, <3>1, <3>2, <3>3 DEF TaskOK, Unsent, Recording, Watching
  <2>4. CASE rows[tx] # {}
    <3>1. pc'[tx] = "watching"  BY <1>2, <2>4
    <3>2. tx \notin queued
      BY <1>3, <2>1, <2>4 DEF TaskOK, Unsent
    <3> QED  BY <1>1, <1>4, <2>2, <2>4, <3>1, <3>2 DEF TaskOK, Unsent, Recording, Watching
  <2> QED  BY <2>3, <2>4
<1>8. ClaimsOK'
  <2>0. \A tx \in Tx : pc'[tx] \in Holding => rows[tx] # {}
    BY <1>2, <1>3 DEF Holding, Recording, Watching
  <2>1. \A tx \in Tx : pc'[tx] \in Holding => \E b \in Own(tx) : txNonce'[tx] = b.nonce
    BY <1>2, <1>6, <2>0
  <2>2. \A tx \in Tx : \A e, f \in Own(tx)' : e.nonce = f.nonce  BY <1>0, <1>5 DEF ClaimsOK
  <2>3. \A u, v \in Tx : u # v => \A e \in Own(u)', f \in Own(v)' : e.nonce # f.nonce
    BY <1>0, <1>5 DEF ClaimsOK
  <2>4. \A tx \in Tx : pc'[tx] \in Holding => \A e \in Own(tx)' : e.nonce = txNonce'[tx]
    BY <1>5, <2>1, <2>2
  <2>5. \A u, v \in Tx : u # v /\ pc'[u] \in Holding => \A e \in Own(v)' : e.nonce # txNonce'[u]
    BY <1>5, <2>1, <2>3
  <2>6. \A u, v \in Tx :
          u # v /\ pc'[u] \in Holding /\ pc'[v] \in Holding => txNonce'[u] # txNonce'[v]
    BY <1>5, <2>1, <2>3
  <2>7. \A tx \in Tx : pc'[tx] \in Holding => txNonce'[tx] < nonce'
    <3>1. ASSUME NEW tx \in Tx, pc'[tx] \in Holding PROVE txNonce'[tx] < nonce'
      <4>1. rows[tx] # {} /\ txNonce'[tx] = Best(rows[tx]).nonce  BY <1>2, <2>0, <3>1
      <4>2. nonce' > Best(rows[tx]).nonce /\ nonce' \in Nat  BY <1>0, <4>1, LoadFacts
      <4>3. txNonce'[tx] \in Nat  BY DEF TypeOK
      <4> QED  BY <4>1, <4>2, <4>3
    <3> QED  BY <3>1
  <2>8. \A tx \in Tx : \A e \in Own(tx)' : e.nonce < nonce'
    <3>1. ASSUME NEW tx \in Tx, NEW e \in Own(tx) PROVE e.nonce < nonce'
      <4>1. nonce \in Nat /\ nonce' \in Nat /\ nonce' >= nonce  BY <1>0, LoadFacts DEF TypeOK
      <4>2. e.nonce \in Nat  BY <1>0, OutFacts DEF Own, TypeOK, Envelopes
      <4>3. CASE e.nonce < nonce  BY <4>1, <4>2, <4>3
      <4>4. CASE e \in rows[tx]
        <5>1. pc'[tx] \in Holding  BY <1>2, <4>4 DEF Holding, Recording, Watching
        <5>2. e.nonce = txNonce'[tx]  BY <1>5, <2>4, <5>1
        <5> QED  BY <2>7, <5>1, <5>2
      <4> QED  BY <1>0, <4>3, <4>4 DEF ClaimsOK
    <3> QED  BY <1>5, <3>1
  <2> QED  BY <2>2, <2>3, <2>4, <2>5, <2>6, <2>7, <2>8 DEF ClaimsOK
<1>9. RowsBounded'  BY <1>0, <1>1, BoundKept
<1> QED  BY <1>4, <1>7, <1>8, <1>9 DEF IInv, NonceInv

(***************************************************************************)
(* The theorems                                                            *)
(***************************************************************************)

LEMMA TaskKeeps ==
  ASSUME IInv, TypeOK', NEW tx \in Tx, Task(tx)
  PROVE  IInv'
<1>1. CASE NextNonce(tx)  BY <1>1, NextNonceKeeps
<1>2. CASE Reject(tx) \/ SignFails(tx)  BY <1>2, FailKeeps
<1>3. CASE Persist(tx)  BY <1>3, PersistKeeps
<1>4. CASE SendResync(tx) \/ SendFails(tx)  BY <1>4, UnsentKeeps
<1>5. CASE SyncAfterSend(tx)  BY <1>5, SyncKeeps
<1>6. CASE Release(tx)
  <2>1. CASE nonce = txNonce[tx] + 1  BY <1>6, <2>1, GiveBackKeeps
  <2>2. CASE nonce # txNonce[tx] + 1  BY <1>6, <2>2, FillingKeeps
  <2> QED  BY <2>1, <2>2
<1>7. CASE Receipt(tx) \/ Check(tx)  BY <1>7, EndKeeps
<1>8. CASE Replace(tx)  BY <1>8, ReplaceKeeps
<1>9. CASE Send(tx) \/ Resend(tx) \/ SendReplacement(tx) \/ WatchFails(tx)  BY <1>9, WatchStepKeeps
<1>10. CASE Closed(tx)
  <2>1. CASE pc[tx] = "filling"  BY <1>10, <2>1, FillingKeeps
  <2>2. CASE pc[tx] # "filling"  BY <1>10, <2>2, WatchStepKeeps
  <2> QED  BY <2>1, <2>2
<1> QED  BY <1>1, <1>2, <1>3, <1>4, <1>5, <1>6, <1>7, <1>8, <1>9, <1>10 DEF Task

\* The steps of the network, the other users of the key, the pull of gas and the gaps.
Ambient ==
  \/ UNCHANGED vars
  \/ \E tx \in Tx : CloseOwn(tx)
  \/ \E n \in gaps : CloseLoadedGap(n)
  \/ \E e \in pool : Mine(e)
  \/ SendExternal \/ SyncNonce \/ PullNonce \/ PullLock \/ PullSend \/ PullEnd
  \/ ResumePull \/ ResumeEnds \/ SpawnTasks

\* What they have in common.
Moves ==
  /\ UNCHANGED <<pc, txNonce, sent, rows, queued, status>>
  /\ boot' = "rows" <=> boot = "rows"
  /\ nonce' >= nonce
  /\ \/ pool' = pool /\ mined' = mined
     \/ \E e \in pool : Includes(e)
     \/ \E e \in Envelopes : Comes(e) /\ e.tx \notin Tx /\ e.nonce >= LatestNonce

\* close_nonce_gap, of a task or of a gap found at startup, sends an envelope of nobody.
LEMMA CloseMoves ==
  ASSUME IInv, NEW n \in Nat, CloseSend(n)
  PROVE  Moves
<1> USE DEF chainVars, pullVars, taskVars, storedVars
<1>1. Envelope(Gap, n, 0) \in Envelopes /\ Envelope(Gap, n, 0).tx = Gap /\ Envelope(Gap, n, 0).nonce = n
  BY EnvelopeType, ZeroBump
<1>2. Gap \notin Tx  BY OwnersAssumption
<1>3. \E e \in Envelopes : Comes(e) /\ e.tx \notin Tx /\ e.nonce >= LatestNonce
  BY <1>1, <1>2 DEF CloseSend, Comes
<1>4. nonce' >= nonce  BY DEF CloseSend, TypeOK, IInv, NonceInv
<1>5. UNCHANGED <<pc, txNonce, sent, rows, queued, status>> /\ boot' = boot  BY DEF CloseSend
<1> QED  BY <1>3, <1>4, <1>5 DEF Moves

LEMMA AmbientMoves ==
  ASSUME IInv, Ambient
  PROVE  Moves
<1> USE DEF chainVars, pullVars, taskVars, storedVars
<1>0. TypeOK /\ NodeOK /\ nonce \in Nat /\ nonce >= nonce  BY DEF IInv, NonceInv, TypeOK
<1>1. CASE UNCHANGED vars
  <2>1. /\ UNCHANGED <<pc, txNonce, sent, rows, queued, status>> /\ boot' = boot /\ nonce' = nonce
        /\ pool' = pool /\ mined' = mined
    BY <1>1 DEF vars
  <2> QED  BY <1>0, <2>1 DEF Moves
<1>2. ASSUME NEW tx \in Tx, CloseOwn(tx) PROVE Moves
  <2>1. txNonce[tx] \in Nat  BY <1>0 DEF TypeOK
  <2> QED  BY <1>2, <2>1, CloseMoves DEF CloseOwn
<1>3. ASSUME NEW n \in gaps, CloseLoadedGap(n) PROVE Moves
  <2>1. n \in Nat  BY <1>0 DEF TypeOK
  <2>2. CASE CloseSend(n)  BY <2>1, <2>2, CloseMoves
  <2>3. CASE ~CloseSend(n)
    <3>1. /\ UNCHANGED <<pc, txNonce, sent, rows, queued, status>> /\ boot' = boot /\ nonce' = nonce
          /\ pool' = pool /\ mined' = mined
      BY <1>3, <2>3 DEF CloseLoadedGap
    <3> QED  BY <1>0, <3>1 DEF Moves
  <2> QED  BY <2>2, <2>3
<1>4. ASSUME NEW e \in pool, Mine(e) PROVE Moves
  <2>1. UNCHANGED <<pc, txNonce, sent, rows, queued, status>> /\ boot' = boot /\ nonce' = nonce
    BY <1>4 DEF Mine
  <2>2. Includes(e)  BY <1>4 DEF Mine, Includes
  <2> QED  BY <1>0, <2>1, <2>2 DEF Moves
<1>5. CASE SendExternal
  <2>1. UNCHANGED <<pc, txNonce, sent, rows, queued, status>> /\ boot' = boot /\ nonce' = nonce
    BY <1>5 DEF SendExternal
  <2>2. PendingNonce \in Nat /\ PendingNonce >= LatestNonce  BY <1>0, PendingFacts
  <2>3. /\ Envelope(External, PendingNonce, 0) \in Envelopes
        /\ Envelope(External, PendingNonce, 0).tx = External
        /\ Envelope(External, PendingNonce, 0).nonce = PendingNonce
    BY <2>2, EnvelopeType, ZeroBump
  <2>4. \E e \in Envelopes : Comes(e) /\ e.tx \notin Tx /\ e.nonce >= LatestNonce
    BY <1>5, <2>2, <2>3, OwnersAssumption DEF SendExternal, Comes
  <2> QED  BY <1>0, <2>1, <2>4 DEF Moves
<1>6. CASE SyncNonce \/ PullNonce
  <2>1. /\ UNCHANGED <<pc, txNonce, sent, rows, queued, status>> /\ boot' = boot
        /\ pool' = pool /\ mined' = mined
    BY <1>6 DEF SyncNonce, PullNonce
  <2>2. nonce' >= nonce
    BY <1>0, <1>6, PendingFacts DEF SyncNonce, PullNonce, Larger
  <2> QED  BY <2>1, <2>2 DEF Moves
<1>7. CASE PullLock \/ PullEnd \/ ResumePull
  <2>1. /\ UNCHANGED <<pc, txNonce, sent, rows, queued, status>> /\ boot' = boot /\ nonce' = nonce
        /\ pool' = pool /\ mined' = mined
    BY <1>7 DEF PullLock, PullEnd, ResumePull
  <2> QED  BY <1>0, <2>1 DEF Moves
<1>8. CASE ResumeEnds \/ SpawnTasks
  <2>1. /\ UNCHANGED <<pc, txNonce, sent, rows, queued, status>> /\ nonce' = nonce
        /\ pool' = pool /\ mined' = mined /\ boot # "rows" /\ boot' # "rows"
    BY <1>8 DEF ResumeEnds, SpawnTasks
  <2> QED  BY <1>0, <2>1 DEF Moves
<1>9. CASE PullSend
  <2>1. UNCHANGED <<pc, txNonce, sent, rows, queued, status>> /\ boot' = boot /\ nonce' = nonce
    BY <1>9 DEF PullSend
  <2> DEFINE p == Envelope(Pull, pullNonce, 0)
  <2>2. p \in Envelopes /\ p.tx = Pull
    <3>1. pullNonce \in Nat  BY <1>0 DEF TypeOK
    <3> QED  BY <3>1, EnvelopeType, ZeroBump
  <2>3. PICK answer : Deliver(p, "send", answer)  BY <1>9 DEF PullSend
  <2> HIDE DEF p
  <2>4. mined' = mined /\ (pool' = pool \/ (pool' = pool \cup {p} /\ p.nonce >= LatestNonce))
    BY <1>0, <2>2, <2>3, DeliverType
  <2>5. \/ pool' = pool /\ mined' = mined
        \/ \E e \in Envelopes : Comes(e) /\ e.tx \notin Tx /\ e.nonce >= LatestNonce
    BY <2>2, <2>4, OwnersAssumption DEF Comes
  <2> QED  BY <1>0, <2>1, <2>5 DEF Moves
<1> QED  BY <1>1, <1>2, <1>3, <1>4, <1>5, <1>6, <1>7, <1>8, <1>9 DEF Ambient

LEMMA InitHolds ==
  ASSUME Init
  PROVE  IInv
<1>1. TypeOK
  <2>1. /\ mined \in Seq(Envelopes) /\ external \in 0..MaxExternal /\ crashes \in 0..MaxCrashes
        /\ pool \in SUBSET Envelopes /\ gaps \in SUBSET Nat /\ queued \in SUBSET Tx
    BY SignerBoundsAssumption DEF Init
  <2>2. pullRow \in BOOLEAN /\ resynced \in [Tx -> BOOLEAN]  BY DEF Init
  <2>3. /\ pc \in [Tx -> {"queued", "signing", "sending", "syncing", "resync", "releasing",
                          "filling", "watching", "replacing", "closing", "checking", "done"}]
        /\ status \in [Tx -> {"open", "confirmed", "failed"}] /\ txNonce \in [Tx -> Nat]
        /\ sent \in [Tx -> SUBSET Envelopes] /\ rows \in [Tx -> SUBSET Envelopes]
    BY DEF Init
  <2> QED  BY <2>1, <2>2, <2>3 DEF Init, TypeOK
<1>2. Out = {}  BY DEF Init, Out
<1>3. NodeOK  BY FS_EmptySet DEF Init, NodeOK, LatestNonce
<1>4. \A tx \in Tx : TaskOK(tx)  BY <1>2 DEF Init, TaskOK, Unsent, Recording, Watching
<1>5. \A tx \in Tx : Own(tx) = {} /\ pc[tx] \notin Holding
  BY <1>2 DEF Init, Own, Holding, Recording, Watching
<1>6. ClaimsOK  BY <1>5 DEF ClaimsOK
<1>7. RowsBounded  BY DEF Init, RowsBounded
<1> QED  BY <1>1, <1>3, <1>4, <1>6, <1>7 DEF IInv, NonceInv

\* The inductive invariant: who claims which nonce, in memory, in a row and on the
\* network, across every step of signer.rs and every restart.
THEOREM Inductive == SafetySpec => []IInv
<1>1. Init => IInv  BY InitHolds
<1>2. IInv /\ [Next]_vars => IInv'
  <2> SUFFICES ASSUME IInv, [Next]_vars PROVE IInv'  OBVIOUS
  <2>1. TypeOK'  BY NextType
  <2>2. ASSUME NEW tx \in Tx, Task(tx) PROVE IInv'  BY <2>1, <2>2, TaskKeeps
  <2>3. CASE Crash  BY <2>1, <2>3, CrashKeeps
  <2>4. CASE LoadRows  BY <2>1, <2>4, LoadKeeps
  <2>5. CASE Ambient
    <3>1. Moves  BY <2>5, AmbientMoves
    <3> QED  BY <2>1, <3>1, AmbientKeeps DEF Moves
  <2> QED  BY <2>2, <2>3, <2>4, <2>5 DEF Next, Ambient
<1> QED  BY <1>1, <1>2, PTL DEF SafetySpec

\* No nonce is given to two transactions whose envelopes reach the network, and what
\* may still be included is in a row: for any number of transactions, replacements,
\* foreign envelopes and restarts, whatever calls the node leaves unanswered.
THEOREM NoncesAreSafe == SafetySpec => []NoncesSafe
<1>1. IInv => NoncesSafe
  <2> SUFFICES ASSUME IInv PROVE NoncesSafe  OBVIOUS
  <2>0. TypeOK /\ ClaimsOK /\ \A tx \in Tx : TaskOK(tx)  BY DEF IInv, NonceInv
  <2>1. \A e \in Out : e.tx \in Tx => e \in Own(e.tx)  BY DEF Own
  <2>2. NoNonceCollision
    <3>1. ASSUME NEW e \in Out, NEW f \in Out, e.tx \in Tx, f.tx \in Tx, e.nonce = f.nonce
          PROVE  e.tx = f.tx
      BY <2>0, <2>1, <3>1 DEF ClaimsOK
    <3> QED  BY <3>1 DEF NoNonceCollision, Out
  <2>3. PooledIsRecorded  BY <2>0 DEF PooledIsRecorded, TaskOK
  <2> QED  BY <2>0, <2>2, <2>3 DEF NoncesSafe
<1> QED  BY <1>1, Inductive, PTL

\* A transaction lands at most once, although it may have several envelopes and, over
\* a resync, two nonces.
THEOREM TransactionsLandOnce == SafetySpec => []LandsOnce
<1>1. IInv => LandsOnce
  <2> SUFFICES ASSUME IInv, NEW i \in 1..Len(mined), NEW j \in 1..Len(mined),
                      mined[i].tx = mined[j].tx, mined[i].tx \in Tx
               PROVE  i = j
    BY DEF LandsOnce
  <2>0. TypeOK /\ NodeOK /\ ClaimsOK  BY DEF IInv, NonceInv
  <2>1. mined[i] \in Own(mined[i].tx) /\ mined[j] \in Own(mined[i].tx)  BY <2>0, OutFacts DEF Own
  <2>2. mined[i].nonce = mined[j].nonce  BY <2>0, <2>1 DEF ClaimsOK
  <2>3. mined[i].nonce = i - 1 /\ mined[j].nonce = j - 1 /\ i \in Int /\ j \in Int
    BY <2>0 DEF NodeOK, TypeOK
  <2>4. i - 1 = j - 1  BY <2>2, <2>3
  <2>5. i = (i - 1) + 1 /\ j = (j - 1) + 1  BY <2>3
  <2> QED  BY <2>4, <2>5
<1> QED  BY <1>1, Inductive, PTL

(***************************************************************************)
(* Reports                                                                 *)
(***************************************************************************)

\* The part of ReportInv that is about one transaction.
Reported == {"queued", "syncing", "resync", "signing"} \cup Recording
ReportOK(tx) ==
  /\ status[tx] = "failed" => \A e \in Out : e.tx # tx
  /\ status[tx] = "confirmed" => \E i \in 1..Len(mined) : mined[i].tx = tx
  /\ pc[tx] \in Reported => status[tx] = "open"
  /\ rows[tx] # {} \/ tx \in queued => status[tx] = "open"
  /\ pc[tx] \in Watching => \A e \in Out : e.tx = tx => e \in sent[tx]

LEMMA ReportParts == ReportInv <=> \A tx \in Tx : ReportOK(tx)
  BY DEF ReportInv, FailedNeverLands, ConfirmedLanded, ReportOK, Reported, Out

\* A transaction of which nothing is reported, recorded or sent.
LEMMA ReportOther ==
  ASSUME TypeOK, NEW u \in Tx, ReportOK(u), pc'[u] = pc[u], sent'[u] = sent[u], rows'[u] = rows[u],
         status'[u] = status[u], u \in queued' => u \in queued,
         \A e \in Out' : e.tx = u => e \in Out,
         \A i \in 1..Len(mined) : i \in 1..Len(mined') /\ mined'[i] = mined[i]
  PROVE  ReportOK(u)'
<1>1. status[u] = "confirmed" => \E i \in 1..Len(mined') : mined'[i].tx = u
  BY DEF ReportOK
<1>2. status[u] = "failed" => \A e \in Out' : e.tx # u  BY DEF ReportOK
<1>3. pc[u] \in Watching => \A e \in Out' : e.tx = u => e \in sent[u]  BY DEF ReportOK
<1>4. (pc[u] \in Reported => status[u] = "open") /\ (rows[u] # {} \/ u \in queued' => status[u] = "open")
  BY DEF ReportOK
<1> QED  BY <1>1, <1>2, <1>3, <1>4 DEF ReportOK

\* A step that moves no task.
LEMMA AmbientReports ==
  ASSUME IInv, ReportInv, UNCHANGED <<pc, sent, rows, status, queued>>,
         \/ pool' = pool /\ mined' = mined
         \/ \E e \in pool : Includes(e)
         \/ \E e \in Envelopes : Comes(e) /\ e.tx \notin Tx /\ e.nonce >= LatestNonce
  PROVE  ReportInv'
<1>0. TypeOK /\ NodeOK  BY DEF IInv, NonceInv
<1>1. /\ \A e \in Out' : e.tx \in Tx => e \in Out
      /\ \A i \in 1..Len(mined) : i \in 1..Len(mined') /\ mined'[i] = mined[i]
  <2>1. CASE pool' = pool /\ mined' = mined  BY <1>0, <2>1, IdleKeeps
  <2>2. ASSUME NEW e \in pool, Includes(e)
        PROVE  /\ \A f \in Out' : f.tx \in Tx => f \in Out
               /\ \A i \in 1..Len(mined) : i \in 1..Len(mined') /\ mined'[i] = mined[i]
    BY <1>0, <2>2, IncludesKeeps
  <2>3. ASSUME NEW e \in Envelopes, Comes(e), e.tx \notin Tx, e.nonce >= LatestNonce
        PROVE  /\ \A f \in Out' : f.tx \in Tx => f \in Out
               /\ \A i \in 1..Len(mined) : i \in 1..Len(mined') /\ mined'[i] = mined[i]
    <3>1. Out' = Out \cup {e}  BY <1>0, <2>3, ComesKeeps
    <3> QED  BY <2>3, <3>1 DEF Comes
  <2> QED  BY <2>1, <2>2, <2>3
<1>2. ASSUME NEW u \in Tx PROVE ReportOK(u)'
  <2>1. ReportOK(u)  BY ReportParts
  <2>2. \A e \in Out' : e.tx = u => e \in Out  BY <1>1
  <2>3. pc'[u] = pc[u] /\ sent'[u] = sent[u] /\ rows'[u] = rows[u] /\ status'[u] = status[u]  OBVIOUS
  <2> QED  BY <1>0, <1>1, <2>1, <2>2, <2>3, ReportOther
<1> QED  BY <1>2 DEF ReportInv, FailedNeverLands, ConfirmedLanded, ReportOK, Reported, Out

\* A step of the task of tx.
LEMMA StepReports ==
  ASSUME IInv, ReportInv, NEW tx \in Tx, Steps(tx), ReportOK(tx)',
         \A u \in Tx \ {tx} : status'[u] = status[u]
  PROVE  ReportInv'
<1>0. TypeOK  BY DEF IInv, NonceInv
<1>1. mined' = mined /\ \A e \in Out' : e \in Out \/ e.tx = tx  BY StepsOut
<1>2. ASSUME NEW u \in Tx PROVE ReportOK(u)'
  <2>1. CASE u = tx  BY <2>1
  <2>2. CASE u # tx
    <3>1. ReportOK(u)  BY ReportParts
    <3>2. /\ pc'[u] = pc[u] /\ sent'[u] = sent[u] /\ rows'[u] = rows[u] /\ status'[u] = status[u]
          /\ (u \in queued' => u \in queued)
      BY <2>2 DEF Steps
    <3>3. \A e \in Out' : e.tx = u => e \in Out  BY <1>1, <2>2
    <3>4. \A i \in 1..Len(mined) : i \in 1..Len(mined') /\ mined'[i] = mined[i]  BY <1>1
    <3> QED  BY <1>0, <3>1, <3>2, <3>3, <3>4, ReportOther
  <2> QED  BY <2>1, <2>2
<1> QED  BY <1>2 DEF ReportInv, FailedNeverLands, ConfirmedLanded, ReportOK, Reported, Out

LEMMA SilentFacts ==
  ASSUME TypeOK, NEW e \in Envelopes, NEW call, call \notin Silent,
         NEW answer \in {"used", "rejected", "silent"}, Deliver(e, call, answer)
  PROVE  pool' = pool
  BY DEF Deliver, Answers

\* Every step of a task is a step in the sense above.
LEMMA TaskSteps ==
  ASSUME IInv, NEW tx \in Tx, Task(tx)
  PROVE  /\ Steps(tx)
         /\ \A u \in Tx \ {tx} : status'[u] = status[u]
<1> USE DEF chainVars, pullVars, taskVars, storedVars
<1>0. TypeOK /\ TaskOK(tx)  BY DEF IInv, NonceInv
<1>1. boot = "up" /\ \A u \in Tx \ {tx} : pc'[u] = pc[u]
  <2>1. boot = "up" /\ \E to : pc' = [pc EXCEPT ![tx] = to]
    BY DEF Task, NextNonce, Reject, Persist, SignFails, Send, SendResync, SyncAfterSend, SendFails,
           Release, Receipt, Resend, Replace, SendReplacement, WatchFails, Closed, Check, Goto
  <2> QED  BY <1>0, <2>1 DEF TypeOK
<1>2. boot' = boot /\ queued' \subseteq queued
  BY DEF Task, NextNonce, Reject, Persist, SignFails, Send, SendResync, SyncAfterSend, SendFails,
         Release, Receipt, Resend, Replace, SendReplacement, WatchFails, Closed, Check, OnFailed, OnConfirmed
<1>3. \A u \in Tx \ {tx} : txNonce'[u] = txNonce[u]
  BY <1>0 DEF TypeOK, Task, NextNonce, Reject, Persist, SignFails, Send, SendResync, SyncAfterSend, SendFails,
         Release, Receipt, Resend, Replace, SendReplacement, WatchFails, Closed, Check
<1>4. \A u \in Tx \ {tx} : sent'[u] = sent[u]
  BY <1>0 DEF TypeOK, Task, NextNonce, Reject, Persist, SignFails, Send, SendResync, SyncAfterSend, SendFails,
         Release, Receipt, Resend, Replace, SendReplacement, WatchFails, Closed, Check
<1>5. \A u \in Tx \ {tx} : rows'[u] = rows[u] /\ status'[u] = status[u]
  BY <1>0 DEF TypeOK, Task, NextNonce, Reject, Persist, SignFails, Send, SendResync, SyncAfterSend, SendFails,
         Release, Receipt, Resend, Replace, SendReplacement, WatchFails, Closed, Check, OnFailed, OnConfirmed
<1>6. \/ pool' = pool /\ mined' = mined
      \/ \E e \in rows[tx] : Comes(e) /\ e.nonce >= LatestNonce
  <2>1. pc[tx] \in Recording => Best(sent[tx]) \in rows[tx] /\ Best(sent[tx]) \in Envelopes
    BY <1>0, BestFacts DEF TypeOK, TaskOK
  <2>2. CASE Send(tx) \/ SendResync(tx) \/ SendFails(tx)
    <3>1. pc[tx] \in Recording  BY <1>0, <2>2, GotoFacts DEF Send, SendResync, SendFails, Recording
    <3>2. \E answer \in {"pooled", "silent", "used", "rejected"} : Deliver(Best(sent[tx]), "send", answer)
      BY <2>2 DEF Send, SendResync, SendFails
    <3>3. /\ mined' = mined
          /\ pool' = pool \/ (pool' = pool \cup {Best(sent[tx])} /\ Best(sent[tx]).nonce >= LatestNonce)
      BY <1>0, <2>1, <3>1, <3>2, DeliverType
    <3> QED  BY <2>1, <3>1, <3>3 DEF Comes
  <2>3. CASE Resend(tx)
    <3>1. pc[tx] \in Recording  BY <1>0, <2>3, GotoFacts DEF Resend, Recording, Watching
    <3> QED  BY <2>1, <2>3, <3>1 DEF Resend, Comes
  <2>4. CASE SendReplacement(tx)
    <3> DEFINE r == Envelope(tx, txNonce[tx], Best(sent[tx]).bump + 1)
    <3>1. pc[tx] = "replacing"  BY <1>0, <2>4, GotoFacts DEF SendReplacement
    <3>2. r \in rows[tx] /\ r \in Envelopes  BY <1>0, <3>1 DEF TaskOK, TypeOK
    <3>3. \E answer \in {"pooled", "used", "rejected", "silent"} : Deliver(r, "replace", answer)
      BY <2>4 DEF SendReplacement
    <3> HIDE DEF r
    <3>4. mined' = mined /\ (pool' = pool \/ (pool' = pool \cup {r} /\ r.nonce >= LatestNonce))
      BY <1>0, <3>2, <3>3, DeliverType
    <3> QED  BY <3>2, <3>4 DEF Comes
  <2> QED  BY <2>2, <2>3, <2>4 DEF Task, NextNonce, Reject, Persist, SignFails, SyncAfterSend,
         Release, Receipt, Replace, WatchFails, Closed, Check
<1> QED  BY <1>1, <1>2, <1>3, <1>4, <1>5, <1>6 DEF Steps

\* Nothing of the transaction was sent, and nothing is.
LEMMA UnsentReports ==
  ASSUME IInv, ReportInv, NEW tx \in Tx,
         \/ NextNonce(tx) \/ Reject(tx) \/ Persist(tx) \/ SignFails(tx) \/ SendResync(tx)
         \/ SyncAfterSend(tx) \/ SendFails(tx) \/ Release(tx) \/ (Closed(tx) /\ pc[tx] = "filling")
  PROVE  /\ ReportOK(tx)'
         /\ status[tx] # "open" => status'[tx] = status[tx]
<1> USE DEF chainVars, pullVars, taskVars, storedVars
<1>0. TypeOK /\ TaskOK(tx) /\ NodeOK /\ ReportOK(tx)  BY ReportParts DEF IInv, NonceInv
<1>1. pc[tx] \in Unsent
  BY <1>0, GotoFacts DEF NextNonce, Reject, Persist, SignFails, SendResync, SyncAfterSend, SendFails,
     Release, Unsent
<1>2. pool' = pool /\ mined' = mined
  BY DEF NextNonce, Reject, Persist, SignFails, SendResync, SyncAfterSend, SendFails, Release, Closed,
     Deliver
<1>3. Out' = Out /\ \A e \in Out : e.tx # tx
  BY <1>0, <1>1, <1>2, IdleKeeps DEF TaskOK
<1>4. /\ status' = status
      /\ pc[tx] \in Reported \/ pc'[tx] \notin Reported
      /\ pc'[tx] \notin Watching
      /\ rows'[tx] # {} \/ tx \in queued' => pc[tx] \in Reported \/ rows[tx] # {} \/ tx \in queued
      => ReportOK(tx)'
  BY <1>0, <1>2, <1>3 DEF ReportOK
<1>5. CASE NextNonce(tx)
  <2>1. pc[tx] \in {"queued", "resync"} /\ pc'[tx] = "signing"  BY <1>0, <1>5, GotoFacts DEF NextNonce
  <2>2. status' = status /\ rows' = rows /\ queued' = queued  BY <1>5 DEF NextNonce
  <2> QED  BY <1>4, <2>1, <2>2 DEF Reported, Watching
<1>6. CASE Persist(tx)
  <2>1. pc[tx] = "signing" /\ pc'[tx] = "sending"  BY <1>0, <1>6, GotoFacts DEF Persist
  <2>2. status' = status  BY <1>6 DEF Persist
  <2> QED  BY <1>4, <2>1, <2>2 DEF Reported, Watching
<1>7. CASE SendResync(tx) \/ SyncAfterSend(tx)
  <2>1. pc[tx] \in {"sending", "syncing"} /\ pc'[tx] \in {"syncing", "resync"}
    BY <1>0, <1>7, GotoFacts DEF SendResync, SyncAfterSend
  <2>2. status' = status  BY <1>7 DEF SendResync, SyncAfterSend
  <2> QED  BY <1>4, <2>1, <2>2 DEF Reported, Recording, Watching
<1>8. CASE Release(tx) \/ (Closed(tx) /\ pc[tx] = "filling")
  <2>1. pc'[tx] \in {"filling", "done"}
    <3>1. CASE Release(tx)  BY <1>0, <3>1, GotoFacts DEF Release
    <3>2. CASE Closed(tx) /\ pc[tx] = "filling"
      <4>1. Goto(tx, "filling", "done")  BY <3>2 DEF Closed, Goto
      <4> QED  BY <1>0, <4>1, GotoFacts
    <3> QED  BY <1>8, <3>1, <3>2
  <2>2. status' = status /\ rows' = rows /\ queued' = queued  BY <1>8 DEF Release, Closed
  <2> QED  BY <1>4, <2>1, <2>2 DEF Reported, Recording, Watching
<1>9. CASE Reject(tx) \/ SignFails(tx) \/ SendFails(tx)
  <2>1. pc[tx] \in {"queued", "signing", "sending"} /\ pc'[tx] \in {"done", "releasing"}
    BY <1>0, <1>9, GotoFacts DEF Reject, SignFails, SendFails
  <2>2. status'[tx] = "failed" /\ rows'[tx] = {} /\ tx \notin queued'
    BY <1>0, <1>9 DEF Reject, SignFails, SendFails, OnFailed, TypeOK
  <2>3. status[tx] = "open"  BY <1>0, <2>1 DEF ReportOK, Reported, Recording
  <2>4. ReportOK(tx)'  BY <1>3, <2>1, <2>2 DEF ReportOK, Reported, Recording, Watching
  <2> QED  BY <2>3, <2>4
<1> QED  BY <1>5, <1>6, <1>7, <1>8, <1>9

\* What the transaction has sent is all there is of it on the network.
LEMMA WatchReports ==
  ASSUME IInv, ReportInv, "replace" \notin Silent, NEW tx \in Tx,
         \/ Send(tx) \/ Resend(tx) \/ Replace(tx) \/ SendReplacement(tx) \/ WatchFails(tx)
         \/ Closed(tx) /\ pc[tx] # "filling"
  PROVE  ReportOK(tx)' /\ status' = status
<1> USE DEF chainVars, pullVars, taskVars, storedVars
<1>0. TypeOK /\ TaskOK(tx) /\ NodeOK /\ ReportOK(tx)  BY ReportParts DEF IInv, NonceInv
<1>1. status' = status /\ queued' = queued
  BY DEF Send, Resend, Replace, SendReplacement, WatchFails, Closed
<1>2. /\ pc[tx] \in Recording /\ pc'[tx] \in Watching
      /\ pc[tx] \in {"sending"} \cup Watching
  <2>1. CASE Closed(tx) /\ pc[tx] # "filling"
    <3>1. Goto(tx, "closing", "checking")  BY <2>1 DEF Closed, Goto
    <3> QED  BY <1>0, <3>1, GotoFacts DEF Recording, Watching
  <2>2. CASE Send(tx) \/ Resend(tx) \/ Replace(tx) \/ SendReplacement(tx) \/ WatchFails(tx)
    BY <1>0, <2>2, GotoFacts DEF Send, Resend, Replace, SendReplacement, WatchFails, Recording, Watching
  <2> QED  BY <2>1, <2>2
<1>3. status[tx] = "open"  BY <1>0, <1>2 DEF ReportOK, Reported
<1>4. \A e \in Out : e.tx = tx => e \in sent[tx]
  BY <1>0, <1>2 DEF ReportOK, TaskOK, Unsent
<1>5. Best(sent[tx]) \in sent[tx] /\ Best(sent[tx]) \in Envelopes
  BY <1>0, <1>2, BestFacts DEF TaskOK, TypeOK
<1>6. \A e \in Out' : e.tx = tx => e \in sent'[tx]
  <2>1. CASE pool' = pool /\ mined' = mined /\ sent' = sent  BY <1>0, <1>4, <2>1, IdleKeeps
  <2>2. CASE Send(tx) \/ Resend(tx)
    <3>1. sent' = sent  BY <2>2 DEF Send, Resend
    <3>2. mined' = mined /\ (pool' = pool \/ pool' = pool \cup {Best(sent[tx])})
      BY <2>2 DEF Send, Resend, Deliver
    <3>3. Out' \subseteq Out \cup {Best(sent[tx])}  BY <3>2 DEF Out
    <3> QED  BY <1>4, <1>5, <3>1, <3>3
  <2>3. CASE Replace(tx) \/ WatchFails(tx) \/ Closed(tx)
    <3>1. pool' = pool /\ mined' = mined /\ sent' = sent  BY <2>3 DEF Replace, WatchFails, Closed
    <3> QED  BY <2>1, <3>1
  <2>4. CASE SendReplacement(tx)
    <3> DEFINE r == Envelope(tx, txNonce[tx], Best(sent[tx]).bump + 1)
    <3>1. pc[tx] = "replacing"  BY <1>0, <2>4, GotoFacts DEF SendReplacement
    <3>2. r \in Envelopes  BY <1>0, <3>1 DEF TaskOK, TypeOK
    <3>3. \/ Deliver(r, "replace", "pooled") /\ sent' = [sent EXCEPT ![tx] = @ \cup {r}]
          \/ /\ \E answer \in {"used", "rejected", "silent"} : Deliver(r, "replace", answer)
             /\ sent' = sent
      BY <2>4 DEF SendReplacement
    <3> HIDE DEF r
    <3>4. CASE Deliver(r, "replace", "pooled") /\ sent' = [sent EXCEPT ![tx] = @ \cup {r}]
      <4>1. sent'[tx] = sent[tx] \cup {r}  BY <1>0, <3>4 DEF TypeOK
      <4>2. mined' = mined /\ (pool' = pool \/ pool' = pool \cup {r})  BY <3>4 DEF Deliver
      <4>3. Out' \subseteq Out \cup {r}  BY <4>2 DEF Out
      <4> QED  BY <1>4, <4>1, <4>3
    <3>5. CASE /\ \E answer \in {"used", "rejected", "silent"} : Deliver(r, "replace", answer)
               /\ sent' = sent
      <4>1. mined' = mined  BY <3>5 DEF Deliver
      <4>2. pool' = pool  BY <1>0, <3>2, <3>5, SilentFacts
      <4> QED  BY <2>1, <3>5, <4>1, <4>2
    <3> QED  BY <3>3, <3>4, <3>5
  <2> QED  BY <2>2, <2>3, <2>4
<1>7. status'[tx] = "open"  BY <1>1, <1>3
<1> QED  BY <1>1, <1>2, <1>6, <1>7 DEF ReportOK

\* A receipt confirms a transaction that landed; none of what was sent fails it.
LEMMA EndReports ==
  ASSUME IInv, ReportInv, "receipt" \notin Silent, NEW tx \in Tx, Receipt(tx) \/ Check(tx)
  PROVE  /\ ReportOK(tx)'
         /\ status[tx] # "open" => status'[tx] = status[tx]
<1> USE DEF chainVars, pullVars, taskVars, storedVars
<1>0. TypeOK /\ TaskOK(tx) /\ NodeOK /\ ClaimsOK /\ ReportOK(tx)  BY ReportParts DEF IInv, NonceInv
<1>1. pool' = pool /\ mined' = mined /\ queued' \subseteq queued
  BY DEF Receipt, Check, OnFailed, OnConfirmed
<1>2. pc[tx] \in {"watching", "checking"} /\ pc'[tx] = "done"  BY <1>0, GotoFacts DEF Receipt, Check
<1>3. /\ status[tx] = "open" /\ sent[tx] \subseteq rows[tx] /\ tx \notin queued
      /\ \A e \in rows[tx] : e.tx = tx
      /\ \A e \in Out : e.tx = tx => e \in sent[tx]
  BY <1>0, <1>2 DEF ReportOK, TaskOK, Reported, Recording, Watching
<1>4. rows'[tx] = {}  BY <1>0 DEF Receipt, Check, OnFailed, OnConfirmed, TypeOK
<1>5. Out' = Out  BY <1>0, <1>1, IdleKeeps
<1>6. CASE \E e \in sent[tx] : Mined(e)
  <2>1. PICK e \in sent[tx] : Mined(e)  BY <1>6
  <2>2. e.tx = tx /\ e \in Envelopes  BY <1>0, <1>3, <2>1 DEF TypeOK
  <2>3. e.nonce + 1 \in 1..Len(mined) /\ mined[e.nonce + 1].tx = tx
    BY <1>0, <2>1, <2>2 DEF Mined, Envelopes, TypeOK
  <2>4. status'[tx] = "confirmed"
    BY <1>0, <1>6 DEF Receipt, Check, OnConfirmed, TypeOK
  <2> QED  BY <1>1, <1>2, <1>3, <1>4, <2>3, <2>4 DEF ReportOK, Reported, Recording, Watching
<1>7. CASE \A e \in sent[tx] : ~Mined(e)
  <2>1. Check(tx) /\ pc[tx] = "checking"  BY <1>0, <1>7, GotoFacts DEF Receipt, Check
  <2>2. status'[tx] = "failed"  BY <1>0, <1>7, <2>1 DEF Check, OnFailed, TypeOK
  <2>3. ASSUME NEW e \in Out, e.tx = tx PROVE FALSE
    <3>1. e \in sent[tx] /\ e \in Own(tx)  BY <1>3, <2>3 DEF Own
    <3>2. e.nonce = txNonce[tx] /\ txNonce[tx] < LatestNonce
      BY <1>0, <2>1, <3>1 DEF ClaimsOK, TaskOK, Holding, Recording, Watching
    <3>3. e \notin pool  BY <2>3, <3>1, <3>2, UsedFacts
    <3>4. PICK i \in 1..Len(mined) : e = mined[i]  BY <3>3 DEF Out
    <3>5. e.nonce = i - 1 /\ Len(mined) \in Nat /\ i \in Int  BY <1>0, <3>4 DEF NodeOK, TypeOK
    <3>6. e.nonce + 1 = i /\ e.nonce < Len(mined)  BY <3>5
    <3> QED  BY <1>7, <3>1, <3>4, <3>6 DEF Mined
  <2> QED  BY <1>1, <1>2, <1>3, <1>4, <1>5, <2>2, <2>3 DEF ReportOK, Reported, Recording, Watching
<1> QED  BY <1>6, <1>7

LEMMA RestartReports ==
  ASSUME IInv, ReportInv, Crash \/ LoadRows
  PROVE  ReportInv' /\ status' = status
<1> USE DEF chainVars, pullVars, taskVars, storedVars
<1>0. NodeOK /\ \A tx \in Tx : TaskOK(tx) /\ ReportOK(tx)  BY ReportParts DEF IInv, NonceInv
<1>1. pool' = pool /\ mined' = mined /\ queued' = queued /\ rows' = rows /\ status' = status
  BY DEF Crash, LoadRows
<1>2. Out' = Out  BY <1>0, <1>1, IdleKeeps
<1>3. ASSUME NEW tx \in Tx PROVE ReportOK(tx)'
  <2>0. TaskOK(tx) /\ ReportOK(tx)  BY <1>0
  <2>1. CASE Crash
    <3>1. pc'[tx] = IF tx \in queued THEN "queued" ELSE "done"  BY <2>1 DEF Crash
    <3> QED  BY <1>1, <1>2, <2>0, <3>1 DEF ReportOK, Reported, Recording, Watching
  <2>2. CASE LoadRows
    <3>1. /\ rows[tx] # {} => pc'[tx] = "watching" /\ sent'[tx] = rows[tx]
          /\ rows[tx] = {} => pc'[tx] = pc[tx]
          /\ boot = "rows"
      BY <2>2 DEF LoadRows
    <3>2. CASE rows[tx] = {}
      <4>1. pc'[tx] = pc[tx] /\ pc[tx] \in {"queued", "done"}  BY <2>0, <3>1, <3>2 DEF TaskOK
      <4> QED  BY <1>1, <1>2, <2>0, <4>1 DEF ReportOK, Reported, Recording, Watching
    <3>3. CASE rows[tx] # {}
      <4>1. \A e \in Out : e.tx = tx => e \in sent'[tx]  BY <2>0, <3>1, <3>3 DEF TaskOK
      <4>2. status[tx] = "open"  BY <2>0, <3>3 DEF ReportOK
      <4> QED  BY <1>1, <1>2, <4>1, <4>2 DEF ReportOK
    <3> QED  BY <3>2, <3>3
  <2> QED  BY <2>1, <2>2
<1> QED  BY <1>1, <1>3 DEF ReportInv, FailedNeverLands, ConfirmedLanded, ReportOK, Reported, Out

\* One step: the reports stay true and none is changed.
LEMMA ReportsStep ==
  ASSUME "receipt" \notin Silent, "replace" \notin Silent, IInv, ReportInv, [Next]_vars
  PROVE  /\ ReportInv'
         /\ \A tx \in Tx : status[tx] # "open" => status'[tx] = status[tx]
<1>1. ASSUME NEW tx \in Tx, Task(tx)
      PROVE  /\ ReportInv'
             /\ \A u \in Tx : status[u] # "open" => status'[u] = status[u]
  <2>1. Steps(tx) /\ \A u \in Tx \ {tx} : status'[u] = status[u]  BY <1>1, TaskSteps
  <2>2. ReportOK(tx)' /\ (status[tx] # "open" => status'[tx] = status[tx])
    <3>1. CASE \/ NextNonce(tx) \/ Reject(tx) \/ Persist(tx) \/ SignFails(tx) \/ SendResync(tx)
               \/ SyncAfterSend(tx) \/ SendFails(tx) \/ Release(tx) \/ (Closed(tx) /\ pc[tx] = "filling")
      BY <3>1, UnsentReports
    <3>2. CASE \/ Send(tx) \/ Resend(tx) \/ Replace(tx) \/ SendReplacement(tx) \/ WatchFails(tx)
               \/ Closed(tx) /\ pc[tx] # "filling"
      <4>1. ReportOK(tx)' /\ status' = status  BY <3>2, WatchReports
      <4> QED  BY <4>1
    <3>3. CASE Receipt(tx) \/ Check(tx)  BY <3>3, EndReports
    <3>4. CASE Closed(tx)  BY <3>1, <3>2, <3>4
    <3> HIDE DEF ReportOK
    <3> QED  BY <1>1, <3>1, <3>2, <3>3, <3>4, Zenon DEF Task
  <2>3. ReportInv'  BY <2>1, <2>2, StepReports
  <2> QED  BY <2>1, <2>2, <2>3
<1>2. CASE Crash \/ LoadRows
  <2>1. ReportInv' /\ status' = status  BY <1>2, RestartReports
  <2> QED  BY <2>1
<1>3. CASE Ambient
  <2>1. Moves  BY <1>3, AmbientMoves
  <2>2. ReportInv'  BY <2>1, AmbientReports DEF Moves
  <2> QED  BY <2>1, <2>2 DEF Moves
<1> QED  BY <1>1, <1>2, <1>3 DEF Next, Ambient

\* When the node answers the sends of replacements and the queries for receipts, what
\* on_failed_transaction and on_confirmed_transaction report is true after every step
\* and never changed, whatever sends are left without an answer and however often the
\* process restarts.
THEOREM ReportsAreTrue ==
  ASSUME "receipt" \notin Silent, "replace" \notin Silent
  PROVE  SafetySpec => ReportsHold
<1>1. Init => ReportInv
  <2> SUFFICES ASSUME Init PROVE ReportInv  OBVIOUS
  <2>1. Out = {}  BY DEF Init, Out
  <2>2. \A tx \in Tx : status[tx] = "open" /\ pc[tx] \notin Watching  BY DEF Init, Watching
  <2>3. \A tx \in Tx : ReportOK(tx)  BY <2>1, <2>2 DEF ReportOK
  <2> QED  BY <2>3, ReportParts
<1>2. IInv /\ ReportInv /\ [Next]_vars => ReportInv'  BY ReportsStep
<1>3. IInv /\ ReportInv /\ [Next]_vars =>
        [/\ FailedNeverLands' /\ ConfirmedLanded'
         /\ \A tx \in Tx : status[tx] # "open" => status'[tx] = status[tx]]_vars
  <2> SUFFICES ASSUME IInv, ReportInv, [Next]_vars
               PROVE  /\ FailedNeverLands' /\ ConfirmedLanded'
                      /\ \A tx \in Tx : status[tx] # "open" => status'[tx] = status[tx]
    OBVIOUS
  <2>1. ReportInv' /\ \A tx \in Tx : status[tx] # "open" => status'[tx] = status[tx]  BY ReportsStep
  <2> QED  BY <2>1 DEF ReportInv
<1> QED  BY <1>1, <1>2, <1>3, Inductive, PTL DEF SafetySpec, ReportsHold
=============================================================================
