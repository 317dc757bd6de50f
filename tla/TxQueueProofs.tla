---------------------------- MODULE TxQueueProofs ----------------------------
(***************************************************************************)
(* The invariants that the doc comment of TxQueue states, and the capacity *)
(* bound, for every set of transactions and EOAs and every limit.          *)
(***************************************************************************)
EXTENDS TxQueue, FiniteSetTheorems, SequenceTheorems, TLAPS

(***************************************************************************)
(* Counting the transactions of one EOA in a sequence                      *)
(***************************************************************************)

\* The positions of an EOA in a sequence are a finite set.
LEMMA PositionsFinite ==
  ASSUME NEW s \in Seq(Tx), NEW e
  PROVE  IsFiniteSet(Positions(s, e)) /\ Cardinality(Positions(s, e)) \in Nat
<1>1. IsFiniteSet(1..Len(s))
  BY FS_Interval
<1>2. Positions(s, e) \in SUBSET (1..Len(s))
  BY DEF Positions
<1> QED
  BY <1>1, <1>2, FS_Subset, FS_CardinalityType

\* push_back adds one position for the EOA of the transaction and none for others.
LEMMA PositionsAppend ==
  ASSUME NEW s \in Seq(Tx), NEW t \in Tx, NEW e
  PROVE  Cardinality(Positions(Append(s, t), e)) =
           Cardinality(Positions(s, e)) + (IF EoaOf[t] = e THEN 1 ELSE 0)
<1> DEFINE n == Len(s) + 1
<1>1. /\ Len(Append(s, t)) = n
      /\ Append(s, t)[n] = t
      /\ \A i \in 1..Len(s) : Append(s, t)[i] = s[i]
      /\ Len(s) \in Nat
  OBVIOUS
<1>2. Positions(Append(s, t), e) =
        IF EoaOf[t] = e THEN Positions(s, e) \cup {n} ELSE Positions(s, e)
  <2>1. 1..n = (1..Len(s)) \cup {n}
    BY <1>1
  <2>2. ASSUME NEW i
        PROVE  i \in Positions(Append(s, t), e) <=>
                 (i \in Positions(s, e) \/ (i = n /\ EoaOf[t] = e))
    BY <1>1, <2>1 DEF Positions
  <2> QED
    BY <2>2
<1>3. n \notin Positions(s, e)
  BY <1>1 DEF Positions
<1>4. /\ IsFiniteSet(Positions(s, e))
      /\ Cardinality(Positions(s, e)) \in Nat
  BY PositionsFinite
<1>5. Cardinality(Positions(s, e) \cup {n}) = Cardinality(Positions(s, e)) + 1
  BY <1>3, <1>4, FS_AddElement, Zenon
<1> HIDE DEF n
<1> QED
  BY <1>2, <1>4, <1>5

\* pop_front removes one position for the EOA of the head and none for others.
LEMMA PositionsTail ==
  ASSUME NEW s \in Seq(Tx), s # <<>>, NEW e
  PROVE  Cardinality(Positions(Tail(s), e)) =
           Cardinality(Positions(s, e)) - (IF EoaOf[Head(s)] = e THEN 1 ELSE 0)
<1> DEFINE P == Positions(s, e)
           Q == Positions(Tail(s), e)
           f == [i \in Q |-> i + 1]
<1>1. /\ Len(s) \in Nat \ {0}
      /\ Len(Tail(s)) = Len(s) - 1
      /\ \A i \in 1..(Len(s) - 1) : Tail(s)[i] = s[i + 1]
      /\ Head(s) = s[1]
      /\ Tail(s) \in Seq(Tx)
  BY HeadTailProperties, EmptySeq, LenProperties
<1>2. f \in Bijection(Q, P \ {1})
  <2>1. ASSUME NEW i \in Q PROVE f[i] \in P \ {1}
    BY <1>1 DEF Positions
  <2>2. ASSUME NEW j \in P \ {1} PROVE \E i \in Q : f[i] = j
    <3>1. j - 1 \in Q /\ f[j - 1] = j
      BY <1>1 DEF Positions
    <3> QED
      BY <3>1
  <2>3. ASSUME NEW i \in Q, NEW k \in Q, f[i] = f[k] PROVE i = k
    BY <2>3 DEF Positions
  <2>4. f \in [Q -> P \ {1}]
    BY <2>1
  <2>5. f \in Injection(Q, P \ {1})
    BY <2>3, <2>4 DEF Injection, IsInjective
  <2>6. f \in Surjection(Q, P \ {1})
    BY <2>2, <2>4 DEF Surjection
  <2> QED
    BY <2>5, <2>6 DEF Bijection
<1>3. Cardinality(Q) = Cardinality(P \ {1})
  <2>1. IsFiniteSet(Q)
    BY <1>1, PositionsFinite
  <2>2. ExistsBijection(Q, P \ {1})
    BY <1>2 DEF ExistsBijection
  <2> QED
    BY <2>1, <2>2, FS_Bijection
<1>4. 1 \in P <=> EoaOf[Head(s)] = e
  BY <1>1 DEF Positions
<1>5. IsFiniteSet(P) /\ Cardinality(P) \in Nat
  BY PositionsFinite
<1>6. Cardinality(P \ {1}) = IF 1 \in P THEN Cardinality(P) - 1 ELSE Cardinality(P)
  BY <1>5, FS_RemoveElement, Zenon
<1> HIDE DEF P, Q
<1>7. Cardinality(Q) = Cardinality(P) - (IF EoaOf[Head(s)] = e THEN 1 ELSE 0)
  BY <1>3, <1>4, <1>5, <1>6
<1> QED
  BY <1>7 DEF P, Q

\* A rank counts some of the positions, and at least its own.
LEMMA RankBound ==
  ASSUME NEW s \in Seq(Tx), NEW e, NEW p \in Positions(s, e)
  PROVE  Rank(s, e, p) \in 1..Cardinality(Positions(s, e))
<1> DEFINE R == {q \in Positions(s, e) : q <= p}
<1>1. IsFiniteSet(Positions(s, e)) /\ Cardinality(Positions(s, e)) \in Nat
  BY PositionsFinite
<1>2. R \in SUBSET Positions(s, e) /\ p \in R
  BY DEF Positions
<1>3. IsFiniteSet(R) /\ Cardinality(R) <= Cardinality(Positions(s, e))
  BY <1>1, <1>2, FS_Subset
<1>4. Cardinality(R) \in Nat /\ Cardinality(R) # 0
  BY <1>2, <1>3, FS_CardinalityType, FS_EmptySet
<1> HIDE DEF R
<1>5. Cardinality(R) \in 1..Cardinality(Positions(s, e))
  BY <1>1, <1>3, <1>4
<1> QED
  BY <1>5 DEF R, Rank

\* Position p of a, which is s with t at the end, is one of s or that of t.
Ranked(s, t, e, a, p) ==
  \/ p \in Positions(s, e) /\ a[p] = s[p] /\ Rank(a, e, p) = Rank(s, e, p)
  \/ EoaOf[t] = e /\ a[p] = t /\ Rank(a, e, p) = Cardinality(Positions(s, e)) + 1

\* push_back keeps the ranks, and gives the last one to the transaction.
LEMMA RankAppend ==
  ASSUME NEW s \in Seq(Tx), NEW t \in Tx, NEW e
  PROVE  \A p \in Positions(Append(s, t), e) : Ranked(s, t, e, Append(s, t), p)
<1>1. /\ Len(Append(s, t)) = Len(s) + 1 /\ Len(s) \in Nat
      /\ Append(s, t)[Len(s) + 1] = t
      /\ \A i \in 1..Len(s) : Append(s, t)[i] = s[i]
  OBVIOUS
<1> SUFFICES ASSUME NEW p \in Positions(Append(s, t), e)
             PROVE  \/ /\ p \in Positions(s, e) /\ Append(s, t)[p] = s[p]
                       /\ Rank(Append(s, t), e, p) = Rank(s, e, p)
                    \/ /\ EoaOf[t] = e /\ Append(s, t)[p] = t
                       /\ Rank(Append(s, t), e, p) = Cardinality(Positions(s, e)) + 1
  BY DEF Ranked
<1>2. p \in 1..Len(s) + 1 /\ EoaOf[Append(s, t)[p]] = e
  BY <1>1 DEF Positions
<1>3. CASE p \in 1..Len(s)
  <2>1. p \in Positions(s, e)
    BY <1>1, <1>2, <1>3 DEF Positions
  <2>2. ASSUME NEW q
        PROVE  (q \in Positions(Append(s, t), e) /\ q <= p) <=> (q \in Positions(s, e) /\ q <= p)
    BY <1>1, <1>3 DEF Positions
  <2>3. {q \in Positions(Append(s, t), e) : q <= p} = {q \in Positions(s, e) : q <= p}
    BY <2>2
  <2>4. Rank(Append(s, t), e, p) = Rank(s, e, p)
    BY <2>3, Zenon DEF Rank
  <2> QED
    BY <1>1, <1>3, <2>1, <2>4
<1>4. CASE p = Len(s) + 1
  <2>1. EoaOf[t] = e /\ Append(s, t)[p] = t
    BY <1>1, <1>2, <1>4
  <2>2. {q \in Positions(Append(s, t), e) : q <= p} = Positions(Append(s, t), e)
    BY <1>1, <1>4 DEF Positions
  <2>3. Rank(Append(s, t), e, p) = Cardinality(Positions(Append(s, t), e))
    BY <2>2, Zenon DEF Rank
  <2>4. Cardinality(Positions(Append(s, t), e)) = Cardinality(Positions(s, e)) + 1
    BY <2>1, PositionsAppend
  <2> QED
    BY <2>1, <2>3, <2>4
<1> QED
  BY <1>1, <1>2, <1>3, <1>4

\* pop_front lowers the ranks of the head's EOA by one.
LEMMA RankTail ==
  ASSUME NEW s \in Seq(Tx), s # <<>>, NEW e
  PROVE  \A p \in Positions(Tail(s), e) :
           /\ p + 1 \in Positions(s, e) /\ Tail(s)[p] = s[p + 1]
           /\ Rank(Tail(s), e, p) = Rank(s, e, p + 1) - (IF EoaOf[Head(s)] = e THEN 1 ELSE 0)
<1> SUFFICES ASSUME NEW p \in Positions(Tail(s), e)
             PROVE  /\ p + 1 \in Positions(s, e) /\ Tail(s)[p] = s[p + 1]
                    /\ Rank(Tail(s), e, p)
                         = Rank(s, e, p + 1) - (IF EoaOf[Head(s)] = e THEN 1 ELSE 0)
  OBVIOUS
<1> DEFINE P == {q \in Positions(s, e) : q <= p + 1}
           Q == {q \in Positions(Tail(s), e) : q <= p}
           f == [i \in Q |-> i + 1]
<1>1. /\ Len(s) \in Nat \ {0}
      /\ Len(Tail(s)) = Len(s) - 1
      /\ \A i \in 1..(Len(s) - 1) : Tail(s)[i] = s[i + 1]
      /\ Head(s) = s[1]
      /\ Tail(s) \in Seq(Tx)
  BY HeadTailProperties, EmptySeq, LenProperties
<1>2. p + 1 \in Positions(s, e) /\ Tail(s)[p] = s[p + 1] /\ p \in Nat
  BY <1>1 DEF Positions
<1>3. f \in Bijection(Q, P \ {1})
  <2>1. ASSUME NEW i \in Q PROVE f[i] \in P \ {1}
    BY <1>1, <1>2 DEF Positions
  <2>2. ASSUME NEW j \in P \ {1} PROVE \E i \in Q : f[i] = j
    <3>1. j - 1 \in Q
      BY <1>1, <1>2 DEF Positions
    <3>2. f[j - 1] = j
      BY <3>1 DEF Positions
    <3> QED
      BY <3>1, <3>2
  <2>3. ASSUME NEW i \in Q, NEW k \in Q, f[i] = f[k] PROVE i = k
    BY <2>3 DEF Positions
  <2>4. f \in [Q -> P \ {1}]
    BY <2>1
  <2>5. f \in Injection(Q, P \ {1})
    BY <2>3, <2>4 DEF Injection, IsInjective
  <2>6. f \in Surjection(Q, P \ {1})
    BY <2>2, <2>4 DEF Surjection
  <2> QED
    BY <2>5, <2>6 DEF Bijection
<1>4. IsFiniteSet(P) /\ Cardinality(P) \in Nat /\ IsFiniteSet(Q)
  <2>1. IsFiniteSet(Positions(s, e)) /\ IsFiniteSet(Positions(Tail(s), e))
    BY <1>1, PositionsFinite
  <2>2. P \in SUBSET Positions(s, e) /\ Q \in SUBSET Positions(Tail(s), e)
    OBVIOUS
  <2> QED
    BY <2>1, <2>2, FS_Subset, FS_CardinalityType
<1>5. Cardinality(Q) = Cardinality(P \ {1})
  <2>1. ExistsBijection(Q, P \ {1})
    BY <1>3 DEF ExistsBijection
  <2> QED
    BY <1>4, <2>1, FS_Bijection
<1>6. 1 \in P <=> EoaOf[Head(s)] = e
  BY <1>1, <1>2 DEF Positions
<1>7. Cardinality(P \ {1}) = IF 1 \in P THEN Cardinality(P) - 1 ELSE Cardinality(P)
  BY <1>4, FS_RemoveElement, Zenon
<1>8. Rank(Tail(s), e, p) = Cardinality(Q) /\ Rank(s, e, p + 1) = Cardinality(P)
  BY DEF Rank
<1> HIDE DEF P, Q
<1>9. Rank(Tail(s), e, p) = Rank(s, e, p + 1) - (IF EoaOf[Head(s)] = e THEN 1 ELSE 0)
  BY <1>4, <1>5, <1>6, <1>7, <1>8
<1> QED
  BY <1>2, <1>9

\* The head is the first of its EOA.
LEMMA RankHead ==
  ASSUME NEW s \in Seq(Tx), s # <<>>
  PROVE  1 \in Positions(s, EoaOf[Head(s)]) /\ Rank(s, EoaOf[Head(s)], 1) = 1
<1>1. Len(s) \in Nat \ {0} /\ Head(s) = s[1]
  BY HeadTailProperties, EmptySeq, LenProperties
<1>2. {q \in Positions(s, EoaOf[Head(s)]) : q <= 1} = {1}
  BY <1>1 DEF Positions
<1>3. Cardinality({1}) = 1
  BY FS_Singleton
<1>4. 1 \in Positions(s, EoaOf[Head(s)])
  BY <1>1 DEF Positions
<1> QED
  BY <1>2, <1>3, <1>4, Zenon DEF Rank

\* Inserting into and removing from a finite set, with the sizes as numbers.
LEMMA CardAdd ==
  ASSUME NEW S, IsFiniteSet(S), NEW x
  PROVE  /\ IsFiniteSet(S \cup {x})
         /\ Cardinality(S) \in Nat
         /\ Cardinality(S \cup {x}) \in Nat
         /\ Cardinality(S \cup {x}) <= Cardinality(S) + 1
         /\ x \notin S => Cardinality(S \cup {x}) = Cardinality(S) + 1
<1>1. /\ IsFiniteSet(S \cup {x})
      /\ Cardinality(S \cup {x}) = IF x \in S THEN Cardinality(S) ELSE Cardinality(S) + 1
  BY FS_AddElement, Zenon
<1>2. Cardinality(S) \in Nat
  BY FS_CardinalityType
<1> QED
  BY <1>1, <1>2

LEMMA CardRemove ==
  ASSUME NEW S, IsFiniteSet(S), NEW x
  PROVE  /\ IsFiniteSet(S \ {x})
         /\ Cardinality(S) \in Nat
         /\ Cardinality(S \ {x}) \in Nat
         /\ x \in S => Cardinality(S \ {x}) = Cardinality(S) - 1
<1>1. /\ IsFiniteSet(S \ {x})
      /\ Cardinality(S \ {x}) = IF x \in S THEN Cardinality(S) - 1 ELSE Cardinality(S)
  BY FS_RemoveElement, Zenon
<1>2. Cardinality(S) \in Nat /\ Cardinality(S \ {x}) \in Nat
  BY <1>1, FS_CardinalityType
<1> QED
  BY <1>1, <1>2

(***************************************************************************)
(* Each operation preserves the invariant                                  *)
(***************************************************************************)

\* The empty queue satisfies the invariant.
LEMMA InitInv == Init => IInv
<1> SUFFICES ASSUME Init PROVE IInv
  OBVIOUS
<1> USE DEF Init, EmptyQueue
<1>1. TypeOK
  BY EoaOfAssumption DEF TypeOK
<1>2. PendingMapsAgree
  BY EoaOfAssumption DEF PendingMapsAgree
<1>3. \A e \in Eoa : Positions(<<>>, e) = {}
  BY DEF Positions
<1>4. ReadyCountExact
  BY <1>3, FS_EmptySet DEF ReadyCountExact
<1>5. BlockedOwner /\ BlockedHasPredecessor
  BY DEF BlockedOwner, BlockedHasPredecessor
<1>6. FinitePending /\ InFlightBound /\ LoadingOnly
  BY FS_EmptySet DEF FinitePending, InFlightBound, InFlight, AtLeastOne, LoadingOnly
<1>7. QueueBound
  BY MaxQueuedAssumption DEF QueueBound, CountQueued
<1> QED
  BY <1>1, <1>2, <1>4, <1>5, <1>6, <1>7 DEF IInv

\* A restart empties the queue.
LEMMA RestartInv ==
  ASSUME Restart
  PROVE  IInv'
<1> USE DEF Restart
<1>1. TypeOK'
  BY EoaOfAssumption DEF TypeOK
<1>2. PendingMapsAgree'
  BY EoaOfAssumption DEF PendingMapsAgree
<1>3. \A e \in Eoa : Positions(<<>>, e) = {}
  BY DEF Positions
<1>4. ReadyCountExact'
  BY <1>3, FS_EmptySet DEF ReadyCountExact
<1>5. BlockedOwner' /\ BlockedHasPredecessor'
  BY DEF BlockedOwner, BlockedHasPredecessor
<1>6. FinitePending' /\ InFlightBound' /\ LoadingOnly'
  BY FS_EmptySet DEF FinitePending, InFlightBound, InFlight, AtLeastOne, LoadingOnly
<1>7. QueueBound'
  BY MaxQueuedAssumption DEF QueueBound, CountQueued
<1> QED
  BY <1>1, <1>2, <1>4, <1>5, <1>6, <1>7 DEF IInv

\* Marking a transaction pending keeps the two maps inverse and adds at most one
\* transaction, to its own EOA.
LEMMA SentPending ==
  ASSUME TypeOK, PendingMapsAgree, NEW tx \in Tx, OnSentTransaction(tx),
         \A e \in Eoa : IsFiniteSet(eoa_to_pending[e])
  PROVE  /\ PendingMapsAgree'
         /\ eoa_to_pending' \in [Eoa -> SUBSET Tx]
         /\ pending_to_eoa' \in [Tx -> Eoa \cup {NoEoa}]
         /\ \A e \in Eoa :
              /\ IsFiniteSet(eoa_to_pending'[e])
              /\ Cardinality(eoa_to_pending'[e]) <=
                   Cardinality(eoa_to_pending[e]) + (IF EoaOf[tx] = e THEN 1 ELSE 0)
              /\ Cardinality(eoa_to_pending'[e]) \in Nat
              /\ Cardinality(eoa_to_pending[e]) \in Nat
<1> USE DEF OnSentTransaction, TypeOK
<1>1. /\ eoa_to_pending' \in [Eoa -> SUBSET Tx]
      /\ pending_to_eoa' \in [Tx -> Eoa \cup {NoEoa}]
  BY EoaOfAssumption
<1>2. PendingMapsAgree'
  BY EoaOfAssumption DEF PendingMapsAgree
<1>3. ASSUME NEW e \in Eoa
      PROVE  /\ IsFiniteSet(eoa_to_pending'[e])
             /\ Cardinality(eoa_to_pending'[e]) <=
                  Cardinality(eoa_to_pending[e]) + (IF EoaOf[tx] = e THEN 1 ELSE 0)
             /\ Cardinality(eoa_to_pending'[e]) \in Nat
             /\ Cardinality(eoa_to_pending[e]) \in Nat
  <2>1. IsFiniteSet(eoa_to_pending[e]) /\ Cardinality(eoa_to_pending[e]) \in Nat
    BY FS_CardinalityType
  <2>2. CASE EoaOf[tx] = e
    <3>1. eoa_to_pending'[e] = eoa_to_pending[e] \cup {tx}
      BY <2>2
    <3> QED
      BY <3>1, <2>1, <2>2, CardAdd
  <2>3. CASE EoaOf[tx] # e
    BY <2>1, <2>3
  <2> QED
    BY <2>2, <2>3
<1> QED
  BY <1>1, <1>2, <1>3

\* Loading a pending transaction at startup.
LEMMA LoadPendingInv ==
  ASSUME IInv, NEW tx \in Tx, LoadPending(tx)
  PROVE  IInv'
<1> USE DEF IInv, LoadPending
<1>1. PendingMapsAgree' /\ TypeOK'
  BY SentPending, EoaOfAssumption DEF TypeOK, FinitePending
<1>2. ReadyCountExact' /\ BlockedOwner' /\ QueueBound'
  BY DEF ReadyCountExact, BlockedOwner, QueueBound, CountQueued
<1>3. BlockedHasPredecessor'
  BY DEF BlockedHasPredecessor, OnSentTransaction, TypeOK
<1>4. LoadingOnly'
  BY DEF LoadingOnly, OnSentTransaction, TypeOK
<1>5. FinitePending'
  <2>1. ASSUME NEW e \in Eoa PROVE IsFiniteSet(loaded'[e])
    BY CardAdd DEF FinitePending, TypeOK
  <2> QED
    BY <2>1, SentPending DEF FinitePending
<1>6. InFlightBound'
  <2>1. \A e \in Eoa : Cardinality(loaded'[e]) \in Nat
    BY <1>5, FS_CardinalityType DEF FinitePending
  <2>2. \A e \in Eoa : eoa_to_pending'[e] = loaded'[e] /\ ready_per_eoa'[e] = 0
    BY <1>4 DEF LoadingOnly
  <2>3. ASSUME NEW e \in Eoa PROVE (InFlight(e) <= AtLeastOne(Cardinality(loaded[e])))'
    <3>1. InFlight(e)' = Cardinality(loaded'[e]) + 0
      BY <2>2 DEF InFlight
    <3>2. Cardinality(loaded'[e]) \in Nat
      BY <2>1
    <3> QED
      BY <3>1, <3>2 DEF AtLeastOne
  <2> QED
    BY <2>3 DEF InFlightBound
<1> QED
  BY <1>1, <1>2, <1>3, <1>4, <1>5, <1>6

\* Pushing a transaction: it overflows, becomes ready or is blocked.
LEMMA PushInv ==
  ASSUME IInv, NEW tx \in Tx, Push(tx)
  PROVE  IInv'
<1> USE DEF IInv
<1>1. /\ phase' = "running"
      /\ loaded' = loaded
      /\ seen' \subseteq Tx
      /\ accepted' \in [Eoa -> Seq(Tx)]
      /\ sent' \in [Eoa -> Seq(Tx)]
  BY DEF Push, TypeOK
<1>2. CASE Overflows(tx) /\ UNCHANGED queueVars
  BY <1>1, <1>2 DEF queueVars, TypeOK, PendingMapsAgree, ReadyCountExact, BlockedOwner,
       FinitePending, LoadingOnly, InFlightBound, InFlight, BlockedHasPredecessor,
       QueueBound, CountQueued
<1>3. CASE ~Overflows(tx) /\ PushReady(tx)
  <2> USE <1>3 DEF PushReady
  <2>1. TypeOK'
    BY <1>1, AppendProperties DEF TypeOK
  <2>6. PendingMapsAgree' /\ BlockedOwner' /\ FinitePending' /\ LoadingOnly'
    BY <1>1 DEF PendingMapsAgree, BlockedOwner, FinitePending, LoadingOnly
  <2>2. ReadyCountExact'
    BY PositionsAppend DEF ReadyCountExact, TypeOK
  <2>3. BlockedHasPredecessor'
    BY DEF BlockedHasPredecessor, TypeOK
  <2>4. QueueBound'
    BY MaxQueuedAssumption DEF QueueBound, CountQueued, Overflows, TypeOK
  <2>5. InFlightBound'
    <3>1. \A e \in Eoa : Cardinality(eoa_to_pending[e]) \in Nat /\ Cardinality(loaded[e]) \in Nat
      BY FS_CardinalityType DEF FinitePending
    <3>2. \A e \in Eoa : e = EoaOf[tx] => eoa_to_pending[e] = {} /\ ready_per_eoa'[e] = 1
      BY DEF TypeOK
    <3>3. \A e \in Eoa : e # EoaOf[tx] => ready_per_eoa'[e] = ready_per_eoa[e]
      OBVIOUS
    <3>4. ASSUME NEW e \in Eoa PROVE (InFlight(e) <= AtLeastOne(Cardinality(loaded[e])))'
      <4>1. InFlight(e)' = Cardinality(eoa_to_pending[e]) + ready_per_eoa'[e]
        BY DEF InFlight
      <4>2. CASE e = EoaOf[tx]
        <5>1. InFlight(e)' = 0 + 1
          BY <3>2, <4>1, <4>2, FS_EmptySet
        <5> QED
          BY <1>1, <3>1, <5>1 DEF AtLeastOne
      <4>3. CASE e # EoaOf[tx]
        BY <1>1, <3>3, <4>1, <4>3 DEF InFlightBound, InFlight, AtLeastOne
      <4> QED
        BY <4>2, <4>3
    <3> QED
      BY <3>4 DEF InFlightBound
  <2> QED
    BY <2>1, <2>2, <2>3, <2>4, <2>5, <2>6
<1>4. CASE ~Overflows(tx) /\ PushBlocked(tx)
  <2> USE <1>4 DEF PushBlocked
  <2>1. TypeOK'
    BY <1>1, AppendProperties DEF TypeOK
  <2>6. PendingMapsAgree' /\ FinitePending' /\ LoadingOnly' /\ ReadyCountExact'
    BY <1>1 DEF PendingMapsAgree, FinitePending, LoadingOnly, ReadyCountExact
  <2>2. BlockedOwner'
    BY DEF BlockedOwner, TypeOK
  <2>3. BlockedHasPredecessor'
    BY DEF BlockedHasPredecessor, TypeOK
  <2>4. QueueBound'
    BY MaxQueuedAssumption DEF QueueBound, CountQueued, Overflows, TypeOK
  <2>5. InFlightBound'
    BY <1>1 DEF InFlightBound, InFlight
  <2> QED
    BY <2>1, <2>2, <2>3, <2>4, <2>5, <2>6
<1> QED
  BY <1>2, <1>3, <1>4 DEF Push, PushTransaction

\* Popping: the counter of the head's EOA is exact, so what leaves ready_per_eoa is
\* what enters eoa_to_pending.
LEMMA PopInv ==
  ASSUME IInv, Pop
  PROVE  IInv'
<1> DEFINE tx == Head(ready)
<1> USE DEF IInv
<1>1. /\ ready # <<>>
      /\ ready \in Seq(Tx)
      /\ tx \in Tx
      /\ Tail(ready) \in Seq(Tx)
      /\ ready' = Tail(ready)
      /\ phase' = "running"
      /\ OnSentTransaction(tx)
      /\ UNCHANGED <<blocked, loaded, accepted, seen>>
      /\ sent' \in [Eoa -> Seq(Tx)]
  BY HeadTailProperties, AppendProperties DEF Pop, PopReady, TypeOK
<1>2. ASSUME NEW e \in Eoa, EoaOf[tx] = e
      PROVE  ready_per_eoa[e] > 0 /\ ready_per_eoa'[e] = ready_per_eoa[e] - 1
  <2>1. 1 \in Positions(ready, e)
    BY <1>1, <1>2, HeadTailProperties, EmptySeq, LenProperties DEF Positions
  <2>2. Cardinality(Positions(ready, e)) # 0
    BY <1>1, <2>1, PositionsFinite, FS_EmptySet
  <2>3. ready_per_eoa[e] > 0
    BY <2>2 DEF ReadyCountExact, TypeOK
  <2> QED
    BY <1>2, <2>3 DEF Pop, PopReady
<1>3. ASSUME NEW e \in Eoa, EoaOf[tx] # e
      PROVE  ready_per_eoa'[e] = ready_per_eoa[e]
  BY <1>3 DEF Pop, PopReady
<1>4. ready_per_eoa' \in [Eoa -> Nat]
  BY DEF Pop, PopReady, TypeOK
<1>5. /\ PendingMapsAgree'
      /\ eoa_to_pending' \in [Eoa -> SUBSET Tx]
      /\ pending_to_eoa' \in [Tx -> Eoa \cup {NoEoa}]
      /\ \A e \in Eoa :
           /\ IsFiniteSet(eoa_to_pending'[e])
           /\ Cardinality(eoa_to_pending'[e]) <=
                Cardinality(eoa_to_pending[e]) + (IF EoaOf[tx] = e THEN 1 ELSE 0)
           /\ Cardinality(eoa_to_pending'[e]) \in Nat
           /\ Cardinality(eoa_to_pending[e]) \in Nat
  <2>1. \A e \in Eoa : IsFiniteSet(eoa_to_pending[e])
    BY DEF FinitePending
  <2> HIDE DEF tx
  <2> QED
    BY <1>1, <2>1, SentPending
<1> HIDE DEF tx
<1>6. TypeOK'
  BY <1>1, <1>4, <1>5 DEF TypeOK
<1>7. BlockedOwner' /\ FinitePending' /\ LoadingOnly'
  BY <1>1, <1>5 DEF BlockedOwner, FinitePending, LoadingOnly
<1>12. \A e \in Eoa :
          /\ ready_per_eoa'[e] = ready_per_eoa[e] - (IF EoaOf[tx] = e THEN 1 ELSE 0)
          /\ ready_per_eoa[e] \in Nat /\ ready_per_eoa'[e] \in Nat
  BY <1>2, <1>3, <1>4 DEF TypeOK
<1>8. ReadyCountExact'
  <2>1. \A e \in Eoa : Cardinality(Positions(Tail(ready), e)) =
           Cardinality(Positions(ready, e)) - (IF EoaOf[tx] = e THEN 1 ELSE 0)
    BY <1>1, PositionsTail DEF tx
  <2> QED
    BY <1>1, <1>12, <2>1 DEF ReadyCountExact
<1>9. BlockedHasPredecessor'
  <2>1. ASSUME NEW e \in Eoa, EoaOf[tx] = e PROVE eoa_to_pending'[e] # {}
    BY <1>1, <2>1 DEF OnSentTransaction
  <2>2. ASSUME NEW e \in Eoa, EoaOf[tx] # e PROVE eoa_to_pending'[e] = eoa_to_pending[e]
    BY <1>1, <2>2 DEF OnSentTransaction
  <2> QED
    BY <1>1, <1>3, <2>1, <2>2 DEF BlockedHasPredecessor
<1>10. QueueBound'
  <2>1. ASSUME NEW e \in Eoa PROVE CountQueued(e)' <= MaxQueuedPerEoa
    <3>1. CountQueued(e)' = ready_per_eoa'[e] + Len(blocked[e]) /\ Len(blocked[e]) \in Nat
      BY <1>1, LenProperties DEF CountQueued, TypeOK
    <3>2. ready_per_eoa[e] + Len(blocked[e]) <= MaxQueuedPerEoa
      BY DEF QueueBound, CountQueued
    <3> QED
      BY <1>12, <3>1, <3>2, MaxQueuedAssumption
  <2> QED
    BY <2>1 DEF QueueBound
<1>11. InFlightBound'
  <2>1. ASSUME NEW e \in Eoa PROVE (InFlight(e) <= AtLeastOne(Cardinality(loaded[e])))'
    <3>1. Cardinality(loaded[e]) \in Nat
      BY FS_CardinalityType DEF FinitePending
    <3>2. InFlight(e)' = Cardinality(eoa_to_pending'[e]) + ready_per_eoa'[e]
      BY DEF InFlight
    <3>3. InFlight(e) = Cardinality(eoa_to_pending[e]) + ready_per_eoa[e]
      BY DEF InFlight
    <3>4. InFlight(e)' <= InFlight(e)
      BY <1>5, <1>12, <3>2, <3>3
    <3>5. InFlight(e)' \in Int /\ InFlight(e) \in Int
      BY <1>4, <1>5, <3>2, <3>3 DEF TypeOK
    <3> QED
      BY <1>1, <3>1, <3>4, <3>5 DEF InFlightBound, AtLeastOne
  <2> QED
    BY <2>1 DEF InFlightBound
<1> QED
  BY <1>5, <1>6, <1>7, <1>8, <1>9, <1>10, <1>11

\* Finishing: one transaction leaves eoa_to_pending and at most one enters ready.
LEMMA FinishInv ==
  ASSUME IInv, NEW tx \in Tx, Finish(tx)
  PROVE  IInv'
<1> DEFINE o == pending_to_eoa[tx]
<1> USE DEF IInv
<1>1. phase' = "running" /\ UNCHANGED <<loaded, accepted, sent, seen>>
  BY DEF Finish
<1>2. CASE o = NoEoa
  <2>1. UNCHANGED queueVars
    BY <1>2 DEF Finish, OnFinishedPending
  <2> QED
    BY <1>1, <2>1 DEF queueVars, TypeOK, PendingMapsAgree, ReadyCountExact, BlockedOwner,
         FinitePending, LoadingOnly, InFlightBound, InFlight, BlockedHasPredecessor,
         QueueBound, CountQueued
<1>3. CASE o # NoEoa
  <2>1. /\ o \in Eoa
        /\ tx \in eoa_to_pending[o]
        /\ pending_to_eoa' = [pending_to_eoa EXCEPT ![tx] = NoEoa]
        /\ eoa_to_pending' = [eoa_to_pending EXCEPT ![o] = @ \ {tx}]
        /\ Promote(o)
    BY <1>3 DEF Finish, OnFinishedPending, TypeOK, PendingMapsAgree
  <2> HIDE DEF o
  <2>2. PendingMapsAgree'
    BY <2>1, EoaOfAssumption DEF PendingMapsAgree, TypeOK
  <2>3. /\ FinitePending'
        /\ Cardinality(eoa_to_pending'[o]) = Cardinality(eoa_to_pending[o]) - 1
        /\ \A e \in Eoa : e # o => eoa_to_pending'[e] = eoa_to_pending[e]
        /\ \A e \in Eoa : Cardinality(eoa_to_pending[e]) \in Nat /\ Cardinality(loaded[e]) \in Nat
    <3>1. eoa_to_pending'[o] = eoa_to_pending[o] \ {tx}
      BY <2>1 DEF TypeOK
    <3>2. \A e \in Eoa : e # o => eoa_to_pending'[e] = eoa_to_pending[e]
      BY <2>1 DEF TypeOK
    <3>3. \A e \in Eoa : IsFiniteSet(eoa_to_pending[e]) /\ IsFiniteSet(loaded[e])
      BY DEF FinitePending
    <3>4. IsFiniteSet(eoa_to_pending'[o])
      BY <2>1, <3>1, <3>3, CardRemove
    <3>5. Cardinality(eoa_to_pending'[o]) = Cardinality(eoa_to_pending[o]) - 1
      BY <2>1, <3>1, <3>3, CardRemove
    <3>6. FinitePending'
      BY <1>1, <3>2, <3>3, <3>4 DEF FinitePending
    <3> QED
      BY <3>2, <3>3, <3>5, <3>6, FS_CardinalityType
  <2>4. LoadingOnly'
    BY <1>1 DEF LoadingOnly
  <2>5. CASE blocked[o] = <<>>
    <3>1. UNCHANGED <<ready, ready_per_eoa, blocked>>
      BY <2>1, <2>5 DEF Promote
    <3>2. TypeOK'
      BY <1>1, <2>1, <3>1, EoaOfAssumption DEF TypeOK
    <3>3. ReadyCountExact' /\ BlockedOwner' /\ QueueBound'
      BY <3>1 DEF ReadyCountExact, BlockedOwner, QueueBound, CountQueued
    <3>4. BlockedHasPredecessor'
      BY <2>3, <2>5, <3>1 DEF BlockedHasPredecessor
    <3>5. InFlightBound'
      <4>1. ASSUME NEW e \in Eoa PROVE (InFlight(e) <= AtLeastOne(Cardinality(loaded[e])))'
        <5>1. InFlight(e)' = Cardinality(eoa_to_pending'[e]) + ready_per_eoa[e]
          BY <3>1 DEF InFlight
        <5>3. InFlight(e) = Cardinality(eoa_to_pending[e]) + ready_per_eoa[e]
          BY DEF InFlight
        <5>4. /\ Cardinality(eoa_to_pending[e]) \in Nat /\ ready_per_eoa[e] \in Nat
              /\ Cardinality(eoa_to_pending'[e]) =
                   IF e = o THEN Cardinality(eoa_to_pending[e]) - 1
                            ELSE Cardinality(eoa_to_pending[e])
          BY <2>3 DEF TypeOK
        <5>2. InFlight(e)' <= InFlight(e) /\ InFlight(e)' \in Int /\ InFlight(e) \in Int
          BY <5>1, <5>3, <5>4
        <5> QED
          BY <1>1, <2>3, <5>2 DEF InFlightBound, AtLeastOne
      <4> QED
        BY <4>1 DEF InFlightBound
    <3> QED
      BY <2>2, <2>3, <2>4, <3>2, <3>3, <3>4, <3>5
  <2>6. CASE blocked[o] # <<>>
    <3> DEFINE h == Head(blocked[o])
    <3>1. /\ ready' = Append(ready, h)
          /\ ready_per_eoa' = [ready_per_eoa EXCEPT ![o] = @ + 1]
          /\ blocked' = [blocked EXCEPT ![o] = Tail(@)]
      BY <2>1, <2>6 DEF Promote
    <3>2. /\ h \in Tx
          /\ EoaOf[h] = o
          /\ Tail(blocked[o]) \in Seq(Tx)
          /\ Len(blocked[o]) \in Nat \ {0}
          /\ Len(Tail(blocked[o])) = Len(blocked[o]) - 1
          /\ \A i \in 1..Len(Tail(blocked[o])) : Tail(blocked[o])[i] = blocked[o][i + 1]
      BY <2>1, <2>6, HeadTailProperties, EmptySeq, LenProperties DEF TypeOK, BlockedOwner
    <3> HIDE DEF h
    <3>3. TypeOK'
      BY <1>1, <2>1, <3>1, <3>2, AppendProperties, EoaOfAssumption DEF TypeOK
    <3>4. ReadyCountExact'
      BY <2>1, <3>1, <3>2, PositionsAppend DEF ReadyCountExact, TypeOK
    <3>5. BlockedOwner'
      <4>1. ASSUME NEW i \in 1..Len(blocked'[o]) PROVE EoaOf[blocked'[o][i]] = o
        <5>1. blocked'[o] = Tail(blocked[o])
          BY <2>1, <3>1 DEF TypeOK
        <5>2. i + 1 \in 1..Len(blocked[o]) /\ blocked'[o][i] = blocked[o][i + 1]
          BY <3>2, <5>1
        <5> QED
          BY <2>1, <5>2 DEF BlockedOwner
      <4>2. \A e \in Eoa : e # o => blocked'[e] = blocked[e]
        BY <3>1 DEF TypeOK
      <4> QED
        BY <4>1, <4>2 DEF BlockedOwner
    <3>6. BlockedHasPredecessor'
      BY <2>1, <2>3, <3>1 DEF BlockedHasPredecessor, TypeOK
    <3>7. QueueBound'
      BY <2>1, <3>1, <3>2, MaxQueuedAssumption DEF QueueBound, CountQueued, TypeOK
    <3>8. InFlightBound'
      <4>1. ASSUME NEW e \in Eoa PROVE (InFlight(e) <= AtLeastOne(Cardinality(loaded[e])))'
        <5>1. InFlight(e)' = Cardinality(eoa_to_pending'[e]) + ready_per_eoa'[e]
          BY DEF InFlight
        <5>2. ready_per_eoa'[e] = IF e = o THEN ready_per_eoa[e] + 1 ELSE ready_per_eoa[e]
          BY <2>1, <3>1 DEF TypeOK
        <5>3. InFlight(e)' = InFlight(e) /\ InFlight(e) \in Int
          BY <2>3, <5>1, <5>2 DEF InFlight, TypeOK
        <5> QED
          BY <1>1, <2>3, <5>3 DEF InFlightBound, AtLeastOne
      <4> QED
        BY <4>1 DEF InFlightBound
    <3> QED
      BY <2>2, <2>3, <2>4, <3>3, <3>4, <3>5, <3>6, <3>7, <3>8
  <2> QED
    BY <2>5, <2>6
<1> QED
  BY <1>2, <1>3

\* An EOA that was loaded with nothing has at most one pending transaction.
LEMMA OneInFlight ==
  ASSUME IInv, NEW e \in Eoa, loaded[e] = {}, NEW t \in eoa_to_pending[e], NEW u \in eoa_to_pending[e]
  PROVE  t = u
<1> SUFFICES ASSUME t # u PROVE FALSE
  OBVIOUS
<1> DEFINE P == eoa_to_pending[e]
<1>1. IsFiniteSet(P) /\ ready_per_eoa[e] \in Nat
  BY DEF IInv, FinitePending, TypeOK
<1>2. Cardinality(P) + ready_per_eoa[e] <= 1
  BY FS_EmptySet DEF IInv, InFlightBound, InFlight, AtLeastOne
<1>3. IsFiniteSet({t}) /\ Cardinality({t}) = 1 /\ u \notin {t}
  BY FS_Singleton
<1>4. Cardinality({t} \cup {u}) = Cardinality({t}) + 1
  BY <1>3, FS_AddElement, Zenon
<1>5. ({t} \cup {u}) \in SUBSET P
  OBVIOUS
<1>6. Cardinality({t} \cup {u}) <= Cardinality(P)
  BY <1>1, <1>5, FS_Subset
<1>7. 1 + 1 <= Cardinality(P)
  BY <1>3, <1>4, <1>6, Zenon
<1>8. Cardinality(P) \in Nat
  BY <1>1, FS_CardinalityType
<1> QED
  BY <1>1, <1>2, <1>7, <1>8

(***************************************************************************)
(* The order of an EOA's transactions                                      *)
(***************************************************************************)

\* The queues of another EOA do not see a push_back or a pop_front of ready.
LEMMA JoinedOther ==
  ASSUME NEW all \in Seq(Tx), NEW first \in Seq(Tx), NEW mid \in Seq(Tx), NEW n \in Nat, NEW e,
         NEW last \in Seq(Tx), Joined(all, first, mid, n, e, last)
  PROVE  /\ \A t \in Tx : EoaOf[t] # e => Joined(all, first, Append(mid, t), n, e, last)
         /\ mid # <<>> /\ EoaOf[Head(mid)] # e => Joined(all, first, Tail(mid), n, e, last)
<1>1. ASSUME NEW t \in Tx, EoaOf[t] # e
      PROVE  Joined(all, first, Append(mid, t), n, e, last)
  <2> DEFINE a == Append(mid, t)
  <2>1. \A p \in Positions(a, e) : Ranked(mid, t, e, a, p)
    BY RankAppend
  <2> HIDE DEF a
  <2>2. \A p \in Positions(a, e) : all[Len(first) + Rank(a, e, p)] = a[p]
    BY <1>1, <2>1 DEF Joined, Ranked
  <2>3. Joined(all, first, a, n, e, last)
    BY <2>2 DEF Joined
  <2> QED
    BY <2>3 DEF a
<1>2. ASSUME mid # <<>>, EoaOf[Head(mid)] # e, NEW p \in Positions(Tail(mid), e)
      PROVE  all[Len(first) + Rank(Tail(mid), e, p)] = Tail(mid)[p]
  <2>1. /\ p + 1 \in Positions(mid, e) /\ Tail(mid)[p] = mid[p + 1]
        /\ Rank(Tail(mid), e, p) = Rank(mid, e, p + 1) - 0
    BY <1>2, RankTail
  <2>2. Rank(mid, e, p + 1) \in 1..Cardinality(Positions(mid, e))
    BY <2>1, RankBound
  <2>3. Rank(Tail(mid), e, p) = Rank(mid, e, p + 1)
    BY <2>1, <2>2, PositionsFinite
  <2> QED
    BY <2>1, <2>3 DEF Joined
<1> QED
  BY <1>1, <1>2 DEF Joined

\* Push: the transaction goes to the end, over ready when nothing is blocked.
LEMMA JoinedPush ==
  ASSUME NEW all \in Seq(Tx), NEW first \in Seq(Tx), NEW mid \in Seq(Tx), NEW e,
         NEW n, n = Cardinality(Positions(mid, e)), NEW last \in Seq(Tx), NEW t \in Tx, EoaOf[t] = e,
         Joined(all, first, mid, n, e, last)
  PROVE  /\ last = <<>> => Joined(Append(all, t), first, Append(mid, t), n + 1, e, last)
         /\ Joined(Append(all, t), first, mid, n, e, Append(last, t))
<1>1. /\ Len(Append(all, t)) = Len(all) + 1 /\ Append(all, t)[Len(all) + 1] = t
      /\ \A i \in 1..Len(all) : Append(all, t)[i] = all[i]
      /\ Len(Append(last, t)) = Len(last) + 1 /\ Append(last, t)[Len(last) + 1] = t
      /\ \A i \in 1..Len(last) : Append(last, t)[i] = last[i]
      /\ Len(all) \in Nat /\ Len(first) \in Nat /\ Len(last) \in Nat
  OBVIOUS
<1>2. n \in Nat
  BY PositionsFinite
<1>3. Len(all) = Len(first) + n + Len(last)
  BY DEF Joined
<1>4. \A i \in 1..Len(first) : Append(all, t)[i] = first[i]
  BY <1>1, <1>2, <1>3 DEF Joined
<1>5. ASSUME NEW p \in Positions(mid, e)
      PROVE  Append(all, t)[Len(first) + Rank(mid, e, p)] = mid[p]
  <2>1. Rank(mid, e, p) \in 1..n
    BY RankBound
  <2>2. Len(first) + Rank(mid, e, p) \in 1..Len(all)
    BY <1>1, <1>2, <1>3, <2>1
  <2> QED
    BY <1>1, <2>2 DEF Joined
<1>6. ASSUME last = <<>>
      PROVE  Joined(Append(all, t), first, Append(mid, t), n + 1, e, last)
  <2>1. Len(last) = 0
    BY <1>6
  <2>2. \A p \in Positions(Append(mid, t), e) :
          Append(all, t)[Len(first) + Rank(Append(mid, t), e, p)] = Append(mid, t)[p]
    <3> DEFINE a == Append(mid, t)
               b == Append(all, t)
    <3>1. \A p \in Positions(a, e) : Ranked(mid, t, e, a, p)
      BY RankAppend
    <3>2. Len(first) + (n + 1) = Len(all) + 1
      BY <1>1, <1>2, <1>3, <2>1
    <3>3. b[Len(first) + (n + 1)] = t
      BY <1>1, <3>2
    <3>4. \A p \in Positions(mid, e) : b[Len(first) + Rank(mid, e, p)] = mid[p]
      BY <1>5
    <3> HIDE DEF a, b
    <3>5. \A p \in Positions(a, e) : b[Len(first) + Rank(a, e, p)] = a[p]
      BY <3>1, <3>3, <3>4 DEF Ranked
    <3> QED
      BY <3>5 DEF a, b
  <2>3. Len(Append(all, t)) = Len(first) + (n + 1) + Len(last)
    BY <1>1, <1>2, <1>3
  <2>4. \A i \in 1..Len(last) : Append(all, t)[Len(first) + (n + 1) + i] = last[i]
    BY <2>1
  <2> QED
    BY <1>4, <2>2, <2>3, <2>4, Zenon DEF Joined
<1>7. Joined(Append(all, t), first, mid, n, e, Append(last, t))
  <2>1. ASSUME NEW i \in 1..Len(Append(last, t))
        PROVE  Append(all, t)[Len(first) + n + i] = Append(last, t)[i]
    <3>1. CASE i \in 1..Len(last)
      <4>1. Len(first) + n + i \in 1..Len(all)
        BY <1>1, <1>2, <1>3, <3>1
      <4> QED
        BY <1>1, <3>1, <4>1 DEF Joined
    <3>2. CASE i = Len(last) + 1
      <4>1. Len(first) + n + i = Len(all) + 1
        BY <1>1, <1>2, <1>3, <3>2
      <4> QED
        BY <1>1, <3>2, <4>1
    <3>3. i \in 1..Len(last) + 1 /\ Len(last) \in Nat
      BY <1>1, Zenon
    <3>4. i \in 1..Len(last) \/ i = Len(last) + 1
      BY <3>3
    <3> QED
      BY <3>1, <3>2, <3>4, Zenon
  <2>2. Len(Append(all, t)) = Len(first) + n + Len(Append(last, t))
    BY <1>1, <1>2, <1>3
  <2> QED
    BY <1>4, <1>5, <2>1, <2>2, Zenon DEF Joined
<1> QED
  BY <1>6, <1>7

\* Pop: the first that is ready becomes the last that was sent.
LEMMA JoinedPop ==
  ASSUME NEW all \in Seq(Tx), NEW first \in Seq(Tx), NEW mid \in Seq(Tx), NEW e,
         NEW n, n = Cardinality(Positions(mid, e)), NEW last \in Seq(Tx), mid # <<>>,
         EoaOf[Head(mid)] = e, Joined(all, first, mid, n, e, last)
  PROVE  Joined(all, Append(first, Head(mid)), Tail(mid), n - 1, e, last)
<1> DEFINE t == Head(mid)
<1>1. t \in Tx /\ t = mid[1] /\ Tail(mid) \in Seq(Tx)
  BY HeadTailProperties
<1>2. /\ Len(Append(first, t)) = Len(first) + 1 /\ Append(first, t)[Len(first) + 1] = t
      /\ \A i \in 1..Len(first) : Append(first, t)[i] = first[i]
      /\ Len(first) \in Nat /\ Len(last) \in Nat
  BY <1>1
<1>3. n \in Nat
  BY PositionsFinite
<1>4. all[Len(first) + 1] = t
  <2>1. 1 \in Positions(mid, e) /\ Rank(mid, e, 1) = 1
    BY RankHead
  <2> QED
    BY <1>1, <2>1 DEF Joined
<1>5. \A i \in 1..Len(Append(first, t)) : all[i] = Append(first, t)[i]
  <2>1. \A i \in 1..Len(Append(first, t)) : i \in 1..Len(first) \/ i = Len(first) + 1
    BY <1>2
  <2> QED
    BY <1>2, <1>4, <2>1 DEF Joined
<1>6. ASSUME NEW p \in Positions(Tail(mid), e)
      PROVE  all[Len(Append(first, t)) + Rank(Tail(mid), e, p)] = Tail(mid)[p]
  <2>1. /\ p + 1 \in Positions(mid, e) /\ Tail(mid)[p] = mid[p + 1]
        /\ Rank(Tail(mid), e, p) = Rank(mid, e, p + 1) - 1
    BY RankTail
  <2>2. Rank(mid, e, p + 1) \in 1..n
    BY <2>1, RankBound
  <2>3. Len(Append(first, t)) + Rank(Tail(mid), e, p) = Len(first) + Rank(mid, e, p + 1)
    BY <1>2, <1>3, <2>1, <2>2
  <2> QED
    BY <2>1, <2>3 DEF Joined
<1>7. Len(all) = Len(Append(first, t)) + (n - 1) + Len(last)
  BY <1>2, <1>3 DEF Joined
<1>8. \A i \in 1..Len(last) : Len(Append(first, t)) + (n - 1) + i = Len(first) + n + i
  BY <1>2, <1>3
<1> QED
  BY <1>5, <1>6, <1>7, <1>8 DEF Joined

\* Promote: the first that is blocked becomes the last that is ready.
LEMMA JoinedPromote ==
  ASSUME NEW all \in Seq(Tx), NEW first \in Seq(Tx), NEW mid \in Seq(Tx), NEW e,
         NEW n, n = Cardinality(Positions(mid, e)), NEW last \in Seq(Tx), last # <<>>,
         EoaOf[Head(last)] = e, Joined(all, first, mid, n, e, last)
  PROVE  Joined(all, first, Append(mid, Head(last)), n + 1, e, Tail(last))
<1> DEFINE t == Head(last)
<1>1. /\ t \in Tx /\ t = last[1] /\ Len(last) \in Nat \ {0} /\ Len(Tail(last)) = Len(last) - 1
      /\ \A i \in 1..Len(last) - 1 : Tail(last)[i] = last[i + 1]
      /\ Len(first) \in Nat
  BY HeadTailProperties, EmptySeq, LenProperties
<1>2. n \in Nat
  BY PositionsFinite
<1>3. all[Len(first) + (n + 1)] = t
  <2>1. Len(first) + (n + 1) = Len(first) + n + 1 /\ 1 \in 1..Len(last)
    BY <1>1, <1>2
  <2> QED
    BY <1>1, <2>1 DEF Joined
<1>4. \A p \in Positions(Append(mid, t), e) :
        all[Len(first) + Rank(Append(mid, t), e, p)] = Append(mid, t)[p]
  <2> DEFINE a == Append(mid, t)
  <2>1. \A p \in Positions(a, e) : Ranked(mid, t, e, a, p)
    BY <1>1, RankAppend
  <2> HIDE DEF a
  <2>2. \A p \in Positions(a, e) : all[Len(first) + Rank(a, e, p)] = a[p]
    BY <1>3, <2>1 DEF Joined, Ranked
  <2> QED
    BY <2>2 DEF a
<1>5. ASSUME NEW i \in 1..Len(Tail(last))
      PROVE  all[Len(first) + (n + 1) + i] = Tail(last)[i]
  <2>1. /\ Len(first) + (n + 1) + i = Len(first) + n + (i + 1) /\ i + 1 \in 1..Len(last)
        /\ Tail(last)[i] = last[i + 1]
    BY <1>1, <1>2
  <2> QED
    BY <2>1 DEF Joined
<1>6. Len(all) = Len(first) + (n + 1) + Len(Tail(last))
  BY <1>1, <1>2 DEF Joined
<1> QED
  BY <1>4, <1>5, <1>6 DEF Joined

\* Every step of the queue keeps the order of every EOA.
LEMMA StepKeepsOrder ==
  ASSUME IInv, PerEoaFifo, Next
  PROVE  PerEoaFifo'
<1> USE DEF IInv
<1>1. /\ ready \in Seq(Tx) /\ blocked \in [Eoa -> Seq(Tx)] /\ accepted \in [Eoa -> Seq(Tx)]
      /\ sent \in [Eoa -> Seq(Tx)] /\ ready_per_eoa \in [Eoa -> Nat]
  BY DEF TypeOK
<1>2. \A e \in Eoa : ready_per_eoa[e] = Cardinality(Positions(ready, e))
  BY DEF ReadyCountExact
<1>3. \A e \in Eoa : Joined(accepted[e], sent[e], ready, ready_per_eoa[e], e, blocked[e])
  BY DEF PerEoaFifo
<1>11. \A e \in Eoa : accepted[e] \in Seq(Tx) /\ sent[e] \in Seq(Tx) /\ blocked[e] \in Seq(Tx)
  BY <1>1
<1>4. ASSUME NEW tx \in Tx, LoadPending(tx) PROVE PerEoaFifo'
  BY <1>3, <1>4 DEF LoadPending, PerEoaFifo
<1>5. ASSUME NEW tx \in Tx, Push(tx), Overflows(tx), UNCHANGED queueVars PROVE PerEoaFifo'
  <2>1. UNCHANGED <<ready, ready_per_eoa, blocked, sent>> /\ \A e \in Eoa : accepted'[e] = accepted[e]
    BY <1>5 DEF Push, queueVars
  <2> QED
    BY <1>3, <2>1 DEF PerEoaFifo
<1>6. ASSUME NEW tx \in Tx, Push(tx), ~Overflows(tx), PushReady(tx) PROVE PerEoaFifo'
  <2>1. /\ ready' = Append(ready, tx) /\ UNCHANGED <<blocked, sent>>
        /\ \A e \in Eoa : e = EoaOf[tx] =>
             /\ blocked[e] = <<>> /\ accepted'[e] = Append(accepted[e], tx)
             /\ ready_per_eoa'[e] = ready_per_eoa[e] + 1
        /\ \A e \in Eoa : e # EoaOf[tx] =>
             accepted'[e] = accepted[e] /\ ready_per_eoa'[e] = ready_per_eoa[e]
    BY <1>6 DEF Push, PushReady, BlockedHasPredecessor
  <2>2. ASSUME NEW e \in Eoa
        PROVE  Joined(accepted'[e], sent[e], Append(ready, tx), ready_per_eoa'[e], e, blocked[e])
    <3>1. CASE e = EoaOf[tx]
      <4>1. Joined(Append(accepted[e], tx), sent[e], Append(ready, tx), ready_per_eoa[e] + 1, e,
                   blocked[e])
        BY <1>1, <1>2, <1>3, <1>11, <2>1, <3>1, JoinedPush, Zenon
      <4> QED
        BY <2>1, <3>1, <4>1
    <3>2. CASE e # EoaOf[tx]
      BY <1>1, <1>3, <2>1, <3>2, JoinedOther
    <3> QED
      BY <3>1, <3>2
  <2> QED
    BY <2>1, <2>2 DEF PerEoaFifo
<1>7. ASSUME NEW tx \in Tx, Push(tx), ~Overflows(tx), PushBlocked(tx) PROVE PerEoaFifo'
  <2>1. /\ UNCHANGED <<ready, ready_per_eoa, sent>>
        /\ \A e \in Eoa : e = EoaOf[tx] =>
             blocked'[e] = Append(blocked[e], tx) /\ accepted'[e] = Append(accepted[e], tx)
        /\ \A e \in Eoa : e # EoaOf[tx] => blocked'[e] = blocked[e] /\ accepted'[e] = accepted[e]
    BY <1>1, <1>7 DEF Push, PushBlocked
  <2>2. ASSUME NEW e \in Eoa
        PROVE  Joined(accepted'[e], sent[e], ready, ready_per_eoa[e], e, blocked'[e])
    <3>1. CASE e = EoaOf[tx]
      <4>1. Joined(Append(accepted[e], tx), sent[e], ready, ready_per_eoa[e], e,
                   Append(blocked[e], tx))
        BY <1>1, <1>2, <1>3, <1>11, <3>1, JoinedPush, Zenon
      <4> QED
        BY <2>1, <3>1, <4>1
    <3>2. CASE e # EoaOf[tx]
      BY <1>3, <2>1, <3>2
    <3> QED
      BY <3>1, <3>2
  <2> QED
    BY <2>1, <2>2 DEF PerEoaFifo
<1>8. CASE Pop
  <2>1. /\ ready # <<>> /\ ready' = Tail(ready) /\ UNCHANGED <<blocked, accepted>>
        /\ \A e \in Eoa : e = EoaOf[Head(ready)] => sent'[e] = Append(sent[e], Head(ready))
        /\ \A e \in Eoa : e # EoaOf[Head(ready)] =>
             sent'[e] = sent[e] /\ ready_per_eoa'[e] = ready_per_eoa[e]
    BY <1>8 DEF Pop, PopReady
  <2>2. ASSUME NEW e \in Eoa, e = EoaOf[Head(ready)] PROVE ready_per_eoa'[e] = ready_per_eoa[e] - 1
    <3>1. 1 \in Positions(ready, e)
      BY <1>1, <2>1, <2>2, RankHead
    <3>2. Cardinality(Positions(ready, e)) # 0
      BY <1>1, <3>1, PositionsFinite, FS_EmptySet
    <3>3. ready_per_eoa[e] > 0
      BY <1>1, <1>2, <3>2
    <3> QED
      BY <1>8, <2>2, <3>3 DEF Pop, PopReady
  <2>3. ASSUME NEW e \in Eoa
        PROVE  Joined(accepted[e], sent'[e], Tail(ready), ready_per_eoa'[e], e, blocked[e])
    <3>1. CASE e = EoaOf[Head(ready)]
      <4>1. Joined(accepted[e], Append(sent[e], Head(ready)), Tail(ready), ready_per_eoa[e] - 1, e,
                   blocked[e])
        BY <1>1, <1>2, <1>3, <1>11, <2>1, <3>1, JoinedPop, Zenon
      <4> QED
        BY <2>1, <2>2, <3>1, <4>1
    <3>2. CASE e # EoaOf[Head(ready)]
      BY <1>1, <1>3, <2>1, <3>2, JoinedOther
    <3> QED
      BY <3>1, <3>2
  <2> QED
    BY <2>1, <2>3 DEF PerEoaFifo
<1>9. ASSUME NEW tx \in Tx, Finish(tx) PROVE PerEoaFifo'
  <2>1. UNCHANGED <<accepted, sent>>
    BY <1>9 DEF Finish
  <2>2. CASE UNCHANGED <<ready, ready_per_eoa, blocked>>
    BY <1>3, <2>1, <2>2 DEF PerEoaFifo
  <2>3. CASE ~UNCHANGED <<ready, ready_per_eoa, blocked>>
    <3>1. PICK o \in Eoa : blocked[o] # <<>> /\ Promote(o)
      BY <1>9, <2>3 DEF Finish, OnFinishedPending, queueVars, TypeOK, Promote
    <3>2. /\ ready' = Append(ready, Head(blocked[o]))
          /\ ready_per_eoa'[o] = ready_per_eoa[o] + 1 /\ blocked'[o] = Tail(blocked[o])
          /\ \A e \in Eoa : e # o => ready_per_eoa'[e] = ready_per_eoa[e] /\ blocked'[e] = blocked[e]
      BY <1>1, <3>1 DEF Promote
    <3>3. Head(blocked[o]) \in Tx /\ EoaOf[Head(blocked[o])] = o
      BY <1>1, <3>1, HeadTailProperties, EmptySeq, LenProperties DEF BlockedOwner
    <3>4. ASSUME NEW e \in Eoa
          PROVE  Joined(accepted[e], sent[e], Append(ready, Head(blocked[o])), ready_per_eoa'[e], e,
                        blocked'[e])
      <4>1. CASE e = o
        <5>1. Joined(accepted[e], sent[e], Append(ready, Head(blocked[e])), ready_per_eoa[e] + 1, e,
                     Tail(blocked[e]))
          BY <1>1, <1>2, <1>3, <1>11, <3>1, <3>3, <4>1, JoinedPromote, Zenon
        <5> QED
          BY <3>2, <4>1, <5>1
      <4>2. CASE e # o
        BY <1>1, <1>3, <3>2, <3>3, <4>2, JoinedOther
      <4> QED
        BY <4>1, <4>2
    <3> QED
      BY <2>1, <3>2, <3>4 DEF PerEoaFifo
  <2> QED
    BY <2>2, <2>3
<1>10. CASE Restart
  <2>1. /\ ready' = <<>>
        /\ \A e \in Eoa : accepted'[e] = <<>> /\ sent'[e] = <<>> /\ blocked'[e] = <<>>
                          /\ ready_per_eoa'[e] = 0
    BY <1>10 DEF Restart
  <2>2. \A e \in Eoa : Positions(<<>>, e) = {}
    BY DEF Positions
  <2>3. \A e \in Eoa : Joined(<<>>, <<>>, <<>>, 0, e, <<>>)
    BY <2>2 DEF Joined
  <2> QED
    BY <2>1, <2>3 DEF PerEoaFifo
<1> QED
  BY <1>4, <1>5, <1>6, <1>7, <1>8, <1>9, <1>10 DEF Next, Step, Push, PushTransaction

(***************************************************************************)
(* Theorems                                                                *)
(***************************************************************************)

\* IInv is an inductive invariant of the queue.
THEOREM Inductive == Spec => []IInv
<1>1. IInv /\ [Next]_vars => IInv'
  <2> SUFFICES ASSUME IInv, [Next]_vars PROVE IInv'
    OBVIOUS
  <2>1. CASE UNCHANGED vars
    BY <2>1 DEF vars, queueVars, historyVars, IInv, TypeOK, PendingMapsAgree,
         ReadyCountExact, BlockedOwner, FinitePending, LoadingOnly, InFlightBound,
         InFlight, BlockedHasPredecessor, QueueBound, CountQueued
  <2> QED
    BY <2>1, LoadPendingInv, PushInv, PopInv, FinishInv, RestartInv DEF Next, Step
<1> QED
  BY <1>1, InitInv, PTL DEF Spec

\* Every variable of the queue keeps its type.
THEOREM TypeCorrect == Spec => []TypeOK
<1>1. IInv => TypeOK
  BY DEF IInv
<1> QED
  BY <1>1, Inductive, PTL

\* An EOA never has more transactions pending or ready than it was loaded with, and
\* at most one when it was loaded with none or one (TxQueue's first doc invariant).
THEOREM InFlightBounded == Spec => []InFlightBound
<1>1. IInv => InFlightBound
  BY DEF IInv
<1> QED
  BY <1>1, Inductive, PTL

\* A blocked transaction always has one ahead of it whose end will promote it
\* (TxQueue's second doc invariant).
THEOREM BlockedAlwaysHasPredecessor == Spec => []BlockedHasPredecessor
<1>1. IInv => BlockedHasPredecessor
  BY DEF IInv
<1> QED
  BY <1>1, Inductive, PTL

\* The queue never holds more than max_queued_per_eoa transactions of an EOA.
THEOREM CapacityRespected == Spec => []QueueBound
<1>1. IInv => QueueBound
  BY DEF IInv
<1> QED
  BY <1>1, Inductive, PTL

\* The invariants that the doc comment of TxQueue states hold together, for every
\* number of EOAs and transactions, every limit and any sequence of calls.
THEOREM StructInvariantsHold == Spec => []StructInvariants
<1>1. IInv => StructInvariants
  BY DEF IInv, StructInvariants
<1> QED
  BY <1>1, Inductive, PTL

\* An EOA's transactions leave the queue in the order push accepted them, none lost and
\* none twice, over pushes, pops, promotions and restarts in any order.
THEOREM OrderIsKept == Spec => []PerEoaFifo
<1>1. Init => PerEoaFifo
  <2>1. \A e \in Eoa : Positions(<<>>, e) = {}
    BY DEF Positions
  <2>2. \A e \in Eoa : Joined(<<>>, <<>>, <<>>, 0, e, <<>>)
    BY <2>1 DEF Joined
  <2> QED
    BY <2>2 DEF Init, EmptyQueue, PerEoaFifo
<1>2. IInv /\ PerEoaFifo /\ [Next]_vars => PerEoaFifo'
  <2>1. ASSUME PerEoaFifo, UNCHANGED vars PROVE PerEoaFifo'
    BY <2>1 DEF PerEoaFifo, vars, queueVars, historyVars
  <2> QED
    BY <2>1, StepKeepsOrder
<1> QED
  BY <1>1, <1>2, Inductive, PTL DEF Spec
==============================================================================
