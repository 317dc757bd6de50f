---------------------------- MODULE StorageProofs ----------------------------
(***************************************************************************)
(* What the storage keeps.  The locks of Liquidity for every set of        *)
(* holders and assets, all amounts and any number of blocks: the locked    *)
(* total is accounted for and the funder can pay for every lock.  And the  *)
(* two backends of Storage after any sequence of operations on any number  *)
(* of rows: they answer alike, and pages are slices of the history.        *)
(***************************************************************************)
EXTENDS Liquidity, Storage, FiniteSetTheorems, WellFoundedInduction, TLAPS

(***************************************************************************)
(* Sums of amounts                                                         *)
(***************************************************************************)

\* The units of a set of holders are finite in number.
LEMMA SumType ==
  ASSUME NEW S \in SUBSET Holders, NEW a \in Assets
  PROVE  IsFiniteSet(Units(S, a)) /\ Sum(S, a) \in Nat
<1>1. IsFiniteSet(S)
  BY FS_Subset, BoundAssumption, Zenon
<1>2. IsFiniteSet(1..MaxNeed)
  BY FS_Interval, NeedAssumption
<1>3. IsFiniteSet(S \X (1..MaxNeed))
  BY <1>1, <1>2, FS_Product, Zenon
<1>4. Units(S, a) \in SUBSET (S \X (1..MaxNeed))
  BY DEF Units
<1> QED
  BY <1>3, <1>4, FS_Subset, FS_CardinalityType, Zenon DEF Sum

\* The sum over two sets of holders without a common member.
LEMMA SumUnion ==
  ASSUME NEW S \in SUBSET Holders, NEW T \in SUBSET Holders, S \cap T = {},
         NEW a \in Assets
  PROVE  Sum(S \cup T, a) = Sum(S, a) + Sum(T, a)
<1>1. Units(S \cup T, a) = Units(S, a) \cup Units(T, a)
  BY DEF Units
<1>2. Units(S, a) \cap Units(T, a) = {}
  BY DEF Units
<1>3. /\ IsFiniteSet(Units(S, a)) /\ Sum(S, a) \in Nat
      /\ IsFiniteSet(Units(T, a)) /\ Sum(T, a) \in Nat
  BY SumType
<1>4. Cardinality(Units(S, a) \cup Units(T, a)) =
        Cardinality(Units(S, a)) + Cardinality(Units(T, a))
          - Cardinality(Units(S, a) \cap Units(T, a))
  BY <1>3, FS_Union, Zenon
<1>5. Cardinality({}) = 0
  BY FS_EmptySet, Zenon
<1>6. Sum(S \cup T, a) = Sum(S, a) + Sum(T, a) - 0
  BY <1>1, <1>2, <1>4, <1>5, Zenon DEF Sum
<1> QED
  BY <1>3, <1>6

\* A larger set of holders has no smaller sum.
LEMMA SumMono ==
  ASSUME NEW T \in SUBSET Holders, NEW S \in SUBSET T, NEW a \in Assets
  PROVE  Sum(S, a) <= Sum(T, a)
<1>1. Units(S, a) \in SUBSET Units(T, a)
  BY DEF Units
<1>2. IsFiniteSet(Units(T, a))
  BY SumType
<1> QED
  BY <1>1, <1>2, FS_Subset, Zenon DEF Sum

\* One holder alone.
LEMMA SumSingle ==
  ASSUME NEW h \in Holders, NEW a \in Assets
  PROVE  Sum({h}, a) = Need[h][a]
<1>1. Need[h][a] \in 0..MaxNeed
  BY NeedAssumption
<1>2. Units({h}, a) = {h} \X (1..Need[h][a])
  BY <1>1, NeedAssumption DEF Units
<1>3. IsFiniteSet(1..Need[h][a]) /\ Cardinality(1..Need[h][a]) = Need[h][a]
  <2>1. \A n \in Nat : IsFiniteSet(1..n) /\ Cardinality(1..n) = IF 1 > n THEN 0 ELSE n - 1 + 1
    BY FS_Interval
  <2>2. \A n \in Nat : (IF 1 > n THEN 0 ELSE n - 1 + 1) = n
    OBVIOUS
  <2>3. Need[h][a] \in Nat
    BY <1>1, NeedAssumption
  <2> QED
    BY <2>1, <2>2, <2>3, Zenon
<1>4. IsFiniteSet({h}) /\ Cardinality({h}) = 1
  BY FS_Singleton, Zenon
<1>5. Cardinality({h} \X (1..Need[h][a])) = Cardinality({h}) * Cardinality(1..Need[h][a])
  BY <1>3, <1>4, FS_Product, Zenon
<1>6. Sum({h}, a) = 1 * Need[h][a]
  BY <1>2, <1>3, <1>4, <1>5, Zenon DEF Sum
<1> QED
  BY <1>1, <1>6, NeedAssumption

\* Adding one holder.
LEMMA SumAdd ==
  ASSUME NEW S \in SUBSET Holders, NEW h \in Holders, h \notin S, NEW a \in Assets
  PROVE  Sum(S \cup {h}, a) = Sum(S, a) + Need[h][a]
<1>1. S \cap {h} = {} /\ {h} \in SUBSET Holders
  OBVIOUS
<1>2. Sum(S \cup {h}, a) = Sum(S, a) + Sum({h}, a)
  BY <1>1, SumUnion, Zenon
<1>3. Sum({h}, a) = Need[h][a]
  BY SumSingle, Zenon
<1> QED
  BY <1>2, <1>3, Zenon

\* Nobody locks nothing.
LEMMA SumEmpty ==
  ASSUME NEW a \in Assets
  PROVE  Sum({}, a) = 0
<1>1. Units({}, a) = {}
  BY DEF Units
<1> QED
  BY <1>1, FS_EmptySet, Zenon DEF Sum

(***************************************************************************)
(* The shape of the tables                                                 *)
(***************************************************************************)

USE DEF chainVars, readVars

\* The initial state has the shape.
LEMMA ShapeInit == Init => Shape
<1> SUFFICES ASSUME Init PROVE Shape
  OBVIOUS
<1>1. TypeOK
  BY BoundAssumption DEF Init, TypeOK, Phases, NotPruning, Row
<1> QED
  BY <1>1, BoundAssumption
     DEF Init, Shape, SpentWhenSent, LateWhenReleased, SkewedLocked, RowsEnded, RowsUnique, RowsKept,
         PruneBehind, ReadsFresh, NotPruning

\* Blocks without spending keep the shape.
LEMMA ShapeBlock ==
  ASSUME Shape, EmptyBlock \/ \E a \in Assets : Fund(a)
  PROVE  Shape'
<1>1. /\ NewBlock /\ balance' \in [Assets -> Nat]
      /\ UNCHANGED <<spent, locked, unlocks, phase, readVars, late, skewed, pruneUntil, restarts>>
  BY DEF Shape, TypeOK, EmptyBlock, Fund
<1>2. TypeOK'
  BY <1>1 DEF Shape, TypeOK, NewBlock
<1>3. SpentWhenSent' /\ LateWhenReleased' /\ SkewedLocked' /\ RowsEnded' /\ RowsUnique'
  BY <1>1 DEF Shape, TypeOK, NewBlock, SpentWhenSent, LateWhenReleased, SkewedLocked, RowsEnded, RowsUnique, Wanted
<1>4. RowsKept'
  BY <1>1, BoundAssumption DEF Shape, TypeOK, NewBlock, RowsKept
<1>5. PruneBehind'
  BY <1>1, BoundAssumption DEF Shape, TypeOK, NewBlock, PruneBehind, NotPruning
<1>6. ReadsFresh'
  BY <1>1, BoundAssumption DEF Shape, TypeOK, NewBlock, ReadsFresh
<1> QED
  BY <1>2, <1>3, <1>4, <1>5, <1>6 DEF Shape

\* Spending keeps the shape, whether its result was awaited or not.
LEMMA ShapeSpend ==
  ASSUME Shape, NEW h \in Holders, NEW a \in Assets, Land(h, a) \/ LandLate(h, a)
  PROVE  Shape'
<1>1. /\ Spend(h, a)
      /\ UNCHANGED <<locked, unlocks, phase, readVars, skewed, pruneUntil, restarts>>
      /\ \/ phase[h] = "sent" /\ late' = late
         \/ phase[h] = "released" /\ late' = late \cup {<<h, a>>}
  BY DEF Land, LandLate
<1>2. /\ block \in Nat /\ block' = block + 1
      /\ Need[h][a] \in Nat /\ balance[a] - Need[h][a] \in Nat
  <2>1. Need[h][a] \in 0..MaxNeed /\ balance[a] \in Nat /\ balance[a] >= Need[h][a]
    <3>1. Need[h][a] \in 0..MaxNeed
      BY NeedAssumption
    <3>2. balance[a] \in Nat
      BY DEF Shape, TypeOK
    <3>3. balance[a] >= Need[h][a]
      BY <1>1 DEF Spend
    <3> QED
      BY <3>1, <3>2, <3>3
  <2>2. Need[h][a] \in Nat /\ balance[a] - Need[h][a] \in Nat
    BY <2>1, NeedAssumption
  <2>3. block \in Nat /\ block' = block + 1
    BY <1>1 DEF Shape, TypeOK, Spend, NewBlock
  <2> QED
    BY <2>2, <2>3
<1>3. TypeOK'
  BY <1>1, <1>2 DEF Shape, TypeOK, Spend
<1>4. \A g \in Holders, b \in Assets :
        /\ spent'[g][b] = IF g = h /\ b = a THEN block + 1 ELSE spent[g][b]
        /\ <<g, b>> \in late' <=>
              <<g, b>> \in late \/ (phase[h] = "released" /\ g = h /\ b = a)
  BY <1>1, <1>3 DEF Shape, TypeOK, Spend
<1>5. spent[h][a] = 0 /\ a \in Wanted(h)
  BY <1>1 DEF Spend
<1>0. phase' = phase /\ unlocks' = unlocks /\ \A g \in Holders : Wanted(g)' = Wanted(g)
  BY <1>1 DEF Wanted
<1>6. SpentWhenSent' /\ LateWhenReleased' /\ SkewedLocked'
  <2>1. ASSUME NEW g \in Holders, NEW b \in Assets, spent'[g][b] > 0
        PROVE  b \in Wanted(g) /\ phase[g] \in {"sent", "released"} /\ spent'[g][b] <= block'
    <3>1. CASE g = h /\ b = a
      <4>1. phase[h] \in {"sent", "released"}
        BY <1>1
      <4>2. spent'[h][a] = block + 1
        BY <1>4
      <4> QED
        BY <3>1, <4>1, <4>2, <1>2, <1>5
    <3>2. CASE ~(g = h /\ b = a)
      <4>1. spent'[g][b] = spent[g][b] /\ spent[g][b] \in Nat
        BY <3>2, <1>4 DEF Shape, TypeOK
      <4> QED
        BY <4>1, <2>1, <1>2 DEF Shape, SpentWhenSent
    <3> QED
      BY <3>1, <3>2
  <2>2. ASSUME NEW g \in Holders, NEW b \in Assets, <<g, b>> \in late'
        PROVE  phase[g] = "released" /\ spent'[g][b] > 0
    BY <2>2, <1>2, <1>4 DEF Shape, LateWhenReleased
  <2>3. SkewedLocked'
    BY <1>1 DEF Shape, SkewedLocked
  <2> QED
    BY <2>1, <2>2, <2>3, <1>0 DEF SpentWhenSent, LateWhenReleased
<1>7. RowsEnded' /\ RowsUnique'
  <2>1. \A r \in unlocks : r.holder \in Holders /\ r.asset \in Assets /\ r.block \in Nat
    BY DEF Shape, TypeOK, Row
  <2>2. ASSUME NEW r \in unlocks
        PROVE  /\ phase[r.holder] \in {"released", "cancelled"} /\ r.asset \in Wanted(r.holder)
               /\ spent[r.holder][r.asset] > 0 /\ <<r.holder, r.asset>> \notin late =>
                    r.block = spent[r.holder][r.asset]
    BY DEF Shape, RowsEnded
  <2>3. ASSUME NEW r \in unlocks
        PROVE  /\ phase[r.holder] \in {"released", "cancelled"} /\ r.asset \in Wanted(r.holder)
               /\ spent'[r.holder][r.asset] > 0 /\ <<r.holder, r.asset>> \notin late' =>
                    r.block = spent'[r.holder][r.asset]
    <3>1. CASE r.holder = h /\ r.asset = a
      <4>1. <<h, a>> \in late'
        BY <1>1, <2>2, <3>1
      <4> QED
        BY <2>2, <3>1, <4>1
    <3>2. CASE ~(r.holder = h /\ r.asset = a)
      BY <2>1, <2>2, <3>2, <1>4
    <3> QED
      BY <3>1, <3>2
  <2>4. RowsEnded'
    BY <2>1, <2>3, <1>0 DEF RowsEnded
  <2> QED
    BY <2>4, <1>0 DEF Shape, RowsUnique
<1>8. RowsKept'
  <2>1. ASSUME NEW g \in Holders, NEW b \in Assets,
               phase[g] = "released", spent'[g][b] > 0, <<g, b>> \notin late'
        PROVE  \/ spent'[g][b] + PruneMargin <= block'
               \/ [holder |-> g, asset |-> b, block |-> spent'[g][b]] \in unlocks
    <3>1. ~(g = h /\ b = a)
      BY <2>1, <1>1, <1>4
    <3>2. spent'[g][b] = spent[g][b] /\ spent[g][b] \in Nat /\ <<g, b>> \notin late
      BY <2>1, <3>1, <1>4 DEF Shape, TypeOK
    <3> QED
      BY <2>1, <3>2, <1>2, BoundAssumption DEF Shape, RowsKept
  <2> QED
    BY <2>1, <1>0 DEF RowsKept
<1>9. PruneBehind'
  BY <1>1, <1>2, BoundAssumption DEF Shape, TypeOK, PruneBehind, NotPruning
<1>10. ReadsFresh'
  BY <1>1, <1>2, BoundAssumption DEF Shape, TypeOK, NewBlock, Spend, ReadsFresh
<1> QED
  BY <1>3, <1>6, <1>7, <1>8, <1>9, <1>10 DEF Shape

\* An entry of a table of numbers may be replaced by a number.
LEMMA EntryReplaced ==
  ASSUME NEW f \in [Holders -> [Assets -> Nat]], NEW h \in Holders, NEW a \in Assets, NEW v \in Nat
  PROVE  [f EXCEPT ![h][a] = v] \in [Holders -> [Assets -> Nat]]
<1>1. [f[h] EXCEPT ![a] = v] \in [Assets -> Nat]
  OBVIOUS
<1>2. \A row \in [Assets -> Nat] : [f EXCEPT ![h] = row] \in [Holders -> [Assets -> Nat]]
  OBVIOUS
<1>3. [f EXCEPT ![h][a] = v] = [f EXCEPT ![h] = [f[h] EXCEPT ![a] = v]]
  OBVIOUS
<1> QED
  BY <1>1, <1>2, <1>3, Zenon

LEMMA ElementAdded ==
  ASSUME NEW f \in [Holders -> SUBSET Assets], NEW h \in Holders, NEW a \in Assets
  PROVE  [f EXCEPT ![h] = @ \cup {a}] \in [Holders -> SUBSET Assets]
<1>1. f[h] \cup {a} \in SUBSET Assets
  OBVIOUS
<1>2. \A assets \in SUBSET Assets : [f EXCEPT ![h] = assets] \in [Holders -> SUBSET Assets]
  OBVIOUS
<1> QED
  BY <1>1, <1>2

\* Reading a balance keeps the shape: what is read is fresh.
LEMMA ShapeRead ==
  ASSUME Shape, NEW h \in Holders, NEW a \in Assets,
         GetBalanceWithBlock(h, a) \/ GetBalance(h, a) \/ GetBlockNumber(h, a)
  PROVE  Shape'
<1>0. UNCHANGED <<chainVars, locked, unlocks, phase, late, skewed, pruneUntil, restarts>>
  BY DEF GetBalanceWithBlock, GetBalance, GetBlockNumber
<1>1. TypeOK'
  <2>1. block \in Nat /\ balance[a] \in Nat
    BY DEF Shape, TypeOK
  <2>2. /\ read \in [Holders -> SUBSET Assets] /\ dated \in [Holders -> SUBSET Assets]
        /\ seenBalance \in [Holders -> [Assets -> Nat]]
        /\ readAt \in [Holders -> [Assets -> Nat]] /\ seenBlock \in [Holders -> [Assets -> Nat]]
    BY DEF Shape, TypeOK
  <2>3. read' = read \/ read' = [read EXCEPT ![h] = @ \cup {a}]
    BY DEF GetBalanceWithBlock, GetBalance, GetBlockNumber
  <2>4. dated' = dated \/ dated' = [dated EXCEPT ![h] = @ \cup {a}]
    BY DEF GetBalanceWithBlock, GetBalance, GetBlockNumber
  <2>5. seenBalance' = seenBalance \/ seenBalance' = [seenBalance EXCEPT ![h][a] = balance[a]]
    BY DEF GetBalanceWithBlock, GetBalance, GetBlockNumber
  <2>6. readAt' = readAt \/ readAt' = [readAt EXCEPT ![h][a] = block]
    BY DEF GetBalanceWithBlock, GetBalance, GetBlockNumber
  <2>7. seenBlock' = seenBlock \/ seenBlock' = [seenBlock EXCEPT ![h][a] = block]
    BY DEF GetBalanceWithBlock, GetBalance, GetBlockNumber
  <2>8. /\ [read EXCEPT ![h] = @ \cup {a}] \in [Holders -> SUBSET Assets]
        /\ [dated EXCEPT ![h] = @ \cup {a}] \in [Holders -> SUBSET Assets]
    BY <2>2, ElementAdded
  <2>9. /\ [seenBalance EXCEPT ![h][a] = balance[a]] \in [Holders -> [Assets -> Nat]]
        /\ [readAt EXCEPT ![h][a] = block] \in [Holders -> [Assets -> Nat]]
        /\ [seenBlock EXCEPT ![h][a] = block] \in [Holders -> [Assets -> Nat]]
    BY <2>1, <2>2, EntryReplaced
  <2>10. read' \in [Holders -> SUBSET Assets] /\ dated' \in [Holders -> SUBSET Assets]
    BY <2>2, <2>3, <2>4, <2>8, Zenon
  <2>11. /\ seenBalance' \in [Holders -> [Assets -> Nat]]
         /\ readAt' \in [Holders -> [Assets -> Nat]] /\ seenBlock' \in [Holders -> [Assets -> Nat]]
    BY <2>2, <2>5, <2>6, <2>7, <2>9, Zenon
  <2> QED
    BY <1>0, <2>10, <2>11 DEF Shape, TypeOK
<1>2. ReadsFresh'
  <2>1. /\ block' = block /\ block \in Nat /\ Staleness \in Nat
        /\ \A g \in Holders, c \in Assets : readAt[g][c] \in Nat /\ seenBlock[g][c] \in Nat
    BY <1>0, BoundAssumption DEF Shape, TypeOK
  <2>2. ASSUME NEW g \in Holders, NEW c \in read'[g]
        PROVE  readAt'[g][c] <= block
    <3>1. (c \in read[g] /\ readAt'[g][c] = readAt[g][c]) \/ readAt'[g][c] = block
      <4>1. /\ read \in [Holders -> SUBSET Assets] /\ readAt \in [Holders -> [Assets -> Nat]]
            /\ c \in Assets
        BY <1>1 DEF Shape, TypeOK
      <4>2. CASE UNCHANGED <<read, readAt>>
        BY <4>2
      <4>3. CASE /\ read' = [read EXCEPT ![h] = @ \cup {a}]
                 /\ readAt' = [readAt EXCEPT ![h][a] = block]
        BY <4>1, <4>3
      <4> QED
        BY <4>2, <4>3 DEF GetBalanceWithBlock, GetBalance, GetBlockNumber
    <3> QED
      BY <2>1, <3>1 DEF Shape, ReadsFresh
  <2>3. ASSUME NEW g \in Holders, NEW c \in dated'[g]
        PROVE  seenBlock'[g][c] <= block /\ block - seenBlock'[g][c] <= Staleness
    <3>1. (c \in dated[g] /\ seenBlock'[g][c] = seenBlock[g][c]) \/ seenBlock'[g][c] = block
      <4>1. /\ dated \in [Holders -> SUBSET Assets] /\ seenBlock \in [Holders -> [Assets -> Nat]]
            /\ c \in Assets
        BY <1>1 DEF Shape, TypeOK
      <4>2. CASE UNCHANGED <<dated, seenBlock>>
        BY <4>2
      <4>3. CASE /\ dated' = [dated EXCEPT ![h] = @ \cup {a}]
                 /\ seenBlock' = [seenBlock EXCEPT ![h][a] = block]
        BY <4>1, <4>3
      <4> QED
        BY <4>2, <4>3 DEF GetBalanceWithBlock, GetBalance, GetBlockNumber
    <3> QED
      BY <2>1, <3>1 DEF Shape, ReadsFresh
  <2> QED
    BY <2>1, <2>2, <2>3 DEF ReadsFresh
<1>3. SpentWhenSent' /\ LateWhenReleased' /\ SkewedLocked' /\ RowsEnded' /\ RowsUnique' /\ RowsKept' /\ PruneBehind'
  BY <1>0 DEF Shape, SpentWhenSent, LateWhenReleased, SkewedLocked, RowsEnded, RowsUnique,
         RowsKept, PruneBehind, Wanted
<1> QED
  BY <1>1, <1>2, <1>3 DEF Shape

\* So does forgetting what was read.
LEMMA ShapeForget ==
  ASSUME TypeOK, ReadsFresh, NEW hs \in SUBSET Holders, ForgetReads(hs), block' = block
  PROVE  /\ read' \in [Holders -> SUBSET Assets] /\ dated' \in [Holders -> SUBSET Assets]
         /\ seenBalance' \in [Holders -> [Assets -> Nat]]
         /\ readAt' \in [Holders -> [Assets -> Nat]]
         /\ seenBlock' \in [Holders -> [Assets -> Nat]]
         /\ ReadsFresh'
<1>1. \A h \in Holders : /\ read'[h] = (IF h \in hs THEN {} ELSE read[h])
                         /\ dated'[h] = (IF h \in hs THEN {} ELSE dated[h])
  BY DEF ForgetReads
<1>2. \A h \in Holders : h \notin hs => readAt'[h] = readAt[h] /\ seenBlock'[h] = seenBlock[h]
  BY DEF ForgetReads
<1>3. /\ read' \in [Holders -> SUBSET Assets]
      /\ dated' \in [Holders -> SUBSET Assets]
      /\ seenBalance' \in [Holders -> [Assets -> Nat]]
      /\ readAt' \in [Holders -> [Assets -> Nat]]
      /\ seenBlock' \in [Holders -> [Assets -> Nat]]
  BY DEF TypeOK, ForgetReads
<1> QED
  BY <1>1, <1>2, <1>3 DEF ReadsFresh

\* A change of phase before anything is sent keeps the shape.
LEMMA ShapePhase ==
  ASSUME Shape, NEW h \in Holders, Lock(h) \/ Refuse(h) \/ Send(h)
  PROVE  Shape'
<1>1. /\ UNCHANGED <<chainVars, unlocks, late, pruneUntil, restarts>>
      /\ phase[h] \in {"idle", "locked"}
      /\ \E p \in {"locked", "refused", "sent"} : phase' = [phase EXCEPT ![h] = p]
  BY DEF Lock, Refuse, Send
<1>2. PICK p \in {"locked", "refused", "sent"} : phase' = [phase EXCEPT ![h] = p]
  BY <1>1
<1>3. locked' \in [Assets -> Nat]
  <2>1. \A a \in Assets : locked[a] + Need[h][a] \in Nat
    BY NeedAssumption DEF Shape, TypeOK
  <2>2. locked \in [Assets -> Nat]
    BY DEF Shape, TypeOK
  <2>3. \/ locked' = locked
        \/ locked' = [a \in Assets |-> locked[a] + Need[h][a]]
    BY DEF Lock, Refuse, Send
  <2> QED
    BY <2>1, <2>2, <2>3
<1>4. /\ read' \in [Holders -> SUBSET Assets]
      /\ dated' \in [Holders -> SUBSET Assets]
      /\ seenBalance' \in [Holders -> [Assets -> Nat]]
      /\ readAt' \in [Holders -> [Assets -> Nat]]
      /\ seenBlock' \in [Holders -> [Assets -> Nat]]
      /\ ReadsFresh'
  <2>1. CASE Lock(h) \/ Refuse(h)
    BY <2>1, ShapeForget DEF Shape, Lock, Refuse
  <2>2. CASE Send(h)
    BY <2>2 DEF Shape, TypeOK, ReadsFresh, Send
  <2> QED
    BY <2>1, <2>2
<1>5. TypeOK'
  <2>1. skewed' \subseteq Holders \X Assets
    BY DEF Lock, Refuse, Send, Shape, TypeOK, Wanted
  <2> QED
    BY <1>1, <1>2, <1>3, <1>4, <2>1 DEF Shape, TypeOK, Phases
<1>6. \A g \in Holders : phase'[g] = IF g = h THEN p ELSE phase[g]
  BY <1>2 DEF Shape, TypeOK
<1>7. ASSUME NEW a \in Assets
      PROVE  spent[h][a] = 0 /\ <<h, a>> \notin late
  <2>1. spent[h][a] \in Nat
    BY DEF Shape, TypeOK
  <2>2. phase[h] \notin {"sent", "released"}
    BY <1>1
  <2>3. ~(spent[h][a] > 0)
    BY <2>2 DEF Shape, SpentWhenSent
  <2>4. <<h, a>> \notin late
    BY <2>2 DEF Shape, LateWhenReleased
  <2> QED
    BY <2>1, <2>3, <2>4
<1>8. \A r \in unlocks : r.holder \in Holders /\ r.holder # h
  BY <1>1 DEF Shape, TypeOK, Row, RowsEnded
<1>9. SpentWhenSent' /\ LateWhenReleased'
  BY <1>1, <1>6, <1>7 DEF Shape, SpentWhenSent, LateWhenReleased, Wanted
<1>12. SkewedLocked'
  <2>1. ASSUME NEW g \in Holders, NEW a \in Assets, <<g, a>> \in skewed'
        PROVE  phase'[g] \notin {"idle", "refused"}
    <3>1. CASE <<g, a>> \in skewed
      <4>1. phase[g] \notin {"idle", "refused"}
        BY <3>1 DEF Shape, SkewedLocked
      <4>2. g = h => Send(h)
        BY <4>1 DEF Lock, Refuse
      <4> QED
        BY <1>6, <4>1, <4>2 DEF Send, Shape, TypeOK
    <3>2. CASE <<g, a>> \notin skewed
      <4>1. g = h /\ Lock(h)
        BY <2>1, <3>2 DEF Lock, Refuse, Send
      <4> QED
        BY <1>6, <4>1 DEF Lock, Shape, TypeOK
    <3> QED
      BY <3>1, <3>2
  <2> QED
    BY <2>1 DEF SkewedLocked
<1>10. RowsEnded' /\ RowsUnique'
  BY <1>1, <1>6, <1>8 DEF Shape, RowsEnded, RowsUnique, Wanted
<1>11. RowsKept' /\ PruneBehind'
  BY <1>1, <1>6, <1>7 DEF Shape, RowsKept, PruneBehind
<1> QED
  BY <1>4, <1>5, <1>9, <1>10, <1>11, <1>12 DEF Shape

\* Unlocking keeps the shape: the holder had no rows before.
LEMMA ShapeUnlock ==
  ASSUME Shape, NEW h \in Holders, NEW ok \in SUBSET Assets, NEW bf \in Nat,
         Release(h, ok, bf) \/ (Cancel(h) /\ ok = {} /\ bf = 0)
  PROVE  Shape'
<1>1. /\ UNCHANGED <<chainVars, locked, readVars, skewed, pruneUntil, restarts>>
      /\ unlocks' = unlocks \cup UnlockRows(h, ok, bf)
      /\ phase[h] \in {"locked", "sent"}
      /\ \A a \in ok : a \in Wanted(h) /\ spent[h][a] > 0
  BY DEF Release, Cancel
<1>2. /\ late' = late \cup {<<h, a>> : a \in {x \in Wanted(h) \ ok : spent[h][x] > 0}}
      /\ \/ phase' = [phase EXCEPT ![h] = "released"]
         \/ phase' = [phase EXCEPT ![h] = "cancelled"] /\ phase[h] = "locked"
  <2>1. CASE Release(h, ok, bf)
    BY <2>1 DEF Release
  <2>2. CASE Cancel(h) /\ ok = {} /\ bf = 0
    <3>1. \A a \in Assets : ~(spent[h][a] > 0)
      BY <2>2 DEF Cancel, Shape, SpentWhenSent
    <3>2. {<<h, a>> : a \in {x \in Wanted(h) \ ok : spent[h][x] > 0}} = {}
      BY <3>1 DEF Wanted
    <3> QED
      BY <2>2, <3>2 DEF Cancel
  <2> QED
    BY <2>1, <2>2
<1>3. PICK p \in {"released", "cancelled"} :
        /\ phase' = [phase EXCEPT ![h] = p]
        /\ p = "cancelled" => phase[h] = "locked"
  BY <1>2
<1>4. \A g \in Holders : phase'[g] = IF g = h THEN p ELSE phase[g]
  BY <1>3 DEF Shape, TypeOK
<1>5. \A g \in Holders, a \in Assets :
        <<g, a>> \in late' <=>
          <<g, a>> \in late \/ (g = h /\ a \in Wanted(h) \ ok /\ spent[h][a] > 0)
  BY <1>2
<1>6. \A r \in UnlockRows(h, ok, bf) :
        /\ r \in Row /\ r.holder = h /\ r.asset \in Wanted(h)
        /\ r.block = IF r.asset \in ok THEN spent[h][r.asset] ELSE bf
  BY DEF Shape, TypeOK, UnlockRows, Row, Wanted
<1>7. \A r \in unlocks : r \in Row /\ r.holder \in Holders /\ r.asset \in Assets /\ r.holder # h
  <2>1. \A r \in unlocks : phase[r.holder] \in {"released", "cancelled"}
    BY DEF Shape, RowsEnded
  <2> QED
    BY <1>1, <2>1 DEF Shape, TypeOK, Row
<1>8. \A a \in Assets : <<h, a>> \notin late
  BY <1>1 DEF Shape, LateWhenReleased
<1>9. TypeOK'
  <2>1. late' \subseteq Holders \X Assets
    BY <1>2 DEF Shape, TypeOK, Wanted
  <2>2. unlocks' \subseteq Row
    BY <1>1, <1>6, <1>7
  <2>3. phase' \in [Holders -> Phases]
    BY <1>3 DEF Shape, TypeOK, Phases
  <2> QED
    BY <1>1, <2>1, <2>2, <2>3 DEF Shape, TypeOK
<1>10. SpentWhenSent'
  <2>1. ASSUME NEW g \in Holders, NEW a \in Assets, spent[g][a] > 0
        PROVE  a \in Wanted(g) /\ phase'[g] \in {"sent", "released"} /\ spent[g][a] <= block
    <3>1. a \in Wanted(g) /\ phase[g] \in {"sent", "released"} /\ spent[g][a] <= block
      BY <2>1 DEF Shape, SpentWhenSent
    <3> QED
      BY <3>1, <1>3, <1>4
  <2> QED
    BY <2>1, <1>1 DEF SpentWhenSent, Wanted
<1>11. LateWhenReleased'
  <2>1. ASSUME NEW g \in Holders, NEW a \in Assets, <<g, a>> \in late'
        PROVE  phase'[g] = "released" /\ spent[g][a] > 0
    <3>1. CASE g = h
      <4>1. spent[h][a] > 0
        BY <2>1, <3>1, <1>5, <1>8
      <4>2. phase[h] # "locked"
        BY <4>1 DEF Shape, SpentWhenSent
      <4> QED
        BY <3>1, <4>1, <4>2, <1>3, <1>4
    <3>2. CASE g # h
      BY <2>1, <3>2, <1>4, <1>5 DEF Shape, LateWhenReleased
    <3> QED
      BY <3>1, <3>2
  <2> QED
    BY <2>1, <1>1 DEF LateWhenReleased
<1>16. SkewedLocked'
  BY <1>1, <1>3, <1>4 DEF Shape, SkewedLocked
<1>12. RowsEnded'
  <2>1. ASSUME NEW r \in unlocks'
        PROVE  /\ phase'[r.holder] \in {"released", "cancelled"} /\ r.asset \in Wanted(r.holder)
               /\ spent[r.holder][r.asset] > 0 /\ <<r.holder, r.asset>> \notin late' =>
                    r.block = spent[r.holder][r.asset]
    <3>1. CASE r \in unlocks
      BY <3>1, <1>4, <1>5, <1>7 DEF Shape, RowsEnded
    <3>2. CASE r \in UnlockRows(h, ok, bf)
      <4>1. r.holder = h /\ r.asset \in Wanted(h) /\ r.asset \in Assets
        BY <3>2, <1>6 DEF Wanted
      <4>2. r.asset \in ok => r.block = spent[h][r.asset]
        BY <3>2, <1>6
      <4> QED
        BY <4>1, <4>2, <1>3, <1>4, <1>5, <1>8
    <3> QED
      BY <1>1, <3>1, <3>2
  <2> QED
    BY <2>1, <1>1 DEF RowsEnded, Wanted
<1>13. RowsUnique'
  <2>1. \A r, s \in UnlockRows(h, ok, bf) : r.asset = s.asset => r = s
    BY DEF UnlockRows
  <2>2. \A r \in UnlockRows(h, ok, bf) : r.holder = h
    BY <1>6
  <2> QED
    BY <1>1, <1>7, <2>1, <2>2 DEF Shape, RowsUnique
<1>14. RowsKept'
  <2>1. ASSUME NEW g \in Holders, NEW a \in Assets,
               phase'[g] = "released", spent[g][a] > 0, <<g, a>> \notin late'
        PROVE  \/ spent[g][a] + PruneMargin <= block
               \/ [holder |-> g, asset |-> a, block |-> spent[g][a]] \in unlocks'
    <3>1. CASE g = h
      <4>1. a \in Wanted(h)
        BY <2>1, <3>1 DEF Shape, SpentWhenSent
      <4>2. a \in ok
        BY <2>1, <3>1, <4>1, <1>5
      <4> QED
        BY <3>1, <4>1, <4>2, <1>1 DEF UnlockRows
    <3>2. CASE g # h
      <4>1. phase[g] = "released" /\ <<g, a>> \notin late
        BY <2>1, <3>2, <1>4, <1>5
      <4> QED
        BY <2>1, <4>1, <1>1 DEF Shape, RowsKept
    <3> QED
      BY <3>1, <3>2
  <2> QED
    BY <2>1, <1>1 DEF RowsKept
<1>15. PruneBehind' /\ ReadsFresh'
  BY <1>1 DEF Shape, PruneBehind, ReadsFresh
<1> QED
  BY <1>9, <1>10, <1>11, <1>12, <1>13, <1>14, <1>15, <1>16 DEF Shape

\* The rows that a pruning takes away.
Gone == {r \in unlocks : r.block <= pruneUntil}

\* A row's holder has its row pruned or kept, never both, because rows are unique.
LEMMA PruneSplits ==
  ASSUME Shape, NEW a \in Assets
  PROVE  /\ HoldersOf(unlocks, a) = HoldersOf(unlocks \ Gone, a) \cup HoldersOf(Gone, a)
         /\ HoldersOf(unlocks \ Gone, a) \cap HoldersOf(Gone, a) = {}
         /\ Active \cap HoldersOf(unlocks, a) = {}
<1>1. HoldersOf(unlocks, a) = HoldersOf(unlocks \ Gone, a) \cup HoldersOf(Gone, a)
  BY DEF HoldersOf, Gone
<1>2. HoldersOf(unlocks \ Gone, a) \cap HoldersOf(Gone, a) = {}
  BY DEF HoldersOf, Gone, Shape, RowsUnique
<1>3. ASSUME NEW h \in Active, NEW r \in unlocks, r.holder = h
      PROVE  FALSE
  <2>1. phase[r.holder] \in {"released", "cancelled"}
    BY DEF Shape, RowsEnded
  <2> QED
    BY <2>1, <1>3 DEF Active
<1> QED
  BY <1>1, <1>2, <1>3 DEF HoldersOf

\* Pruning keeps the shape: it takes only rows beyond the margin.
LEMMA ShapePrune ==
  ASSUME Shape, PruneStart \/ Prune
  PROVE  Shape'
<1>1. CASE PruneStart
  <2>1. TypeOK'
    BY <1>1, BoundAssumption DEF Shape, TypeOK, PruneStart
  <2>2. PruneBehind'
    BY <1>1, BoundAssumption DEF Shape, TypeOK, PruneStart, PruneBehind
  <2>3. SpentWhenSent' /\ LateWhenReleased' /\ SkewedLocked' /\ RowsEnded' /\ RowsUnique' /\ RowsKept' /\ ReadsFresh'
    BY <1>1 DEF Shape, PruneStart, SpentWhenSent, LateWhenReleased, SkewedLocked, RowsEnded, RowsUnique,
           RowsKept, ReadsFresh, Wanted
  <2> QED
    BY <2>1, <2>2, <2>3 DEF Shape
<1>2. CASE Prune
  <2>1. /\ pruneUntil # NotPruning /\ pruneUntil' = NotPruning
        /\ unlocks' = unlocks \ Gone
        /\ locked' = [a \in Assets |-> Floored(locked[a] - Sum(HoldersOf(Gone, a), a))]
        /\ UNCHANGED <<chainVars, phase, readVars, late, skewed, restarts>>
    BY <1>2 DEF Prune, Gone
  <2>2. TypeOK'
    <3>1. ASSUME NEW a \in Assets PROVE Floored(locked[a] - Sum(HoldersOf(Gone, a), a)) \in Nat
      <4>1. HoldersOf(Gone, a) \in SUBSET Holders
        BY DEF HoldersOf
      <4>2. Sum(HoldersOf(Gone, a), a) \in Nat
        BY <4>1, SumType, Zenon
      <4> QED
        BY <4>2 DEF Floored, Shape, TypeOK
    <3> QED
      BY <2>1, <3>1 DEF Shape, TypeOK
  <2>3. SpentWhenSent' /\ LateWhenReleased' /\ SkewedLocked' /\ RowsEnded' /\ RowsUnique' /\ ReadsFresh'
    BY <2>1 DEF Shape, SpentWhenSent, LateWhenReleased, SkewedLocked, RowsEnded, RowsUnique, ReadsFresh, Wanted
  <2>4. RowsKept'
    <3>1. ASSUME NEW h \in Holders, NEW a \in Assets,
                 phase[h] = "released", spent[h][a] > 0, <<h, a>> \notin late
          PROVE  \/ spent[h][a] + PruneMargin <= block
                 \/ [holder |-> h, asset |-> a, block |-> spent[h][a]] \in unlocks \ Gone
      <4>1. CASE spent[h][a] <= pruneUntil
        <5>1. spent[h][a] \in Nat /\ pruneUntil \in Nat /\ block \in Nat
          BY <2>1 DEF Shape, TypeOK
        <5>2. pruneUntil + PruneMargin <= block
          BY <3>1, <4>1, <5>1 DEF Shape, PruneBehind
        <5> QED
          BY <4>1, <5>1, <5>2, BoundAssumption
      <4>2. CASE ~(spent[h][a] <= pruneUntil)
        BY <3>1, <4>2 DEF Shape, RowsKept, Gone
      <4> QED
        BY <4>1, <4>2
    <3> QED
      BY <2>1, <3>1 DEF RowsKept
  <2>5. PruneBehind'
    BY <2>1 DEF PruneBehind, NotPruning
  <2> QED
    BY <2>2, <2>3, <2>4, <2>5 DEF Shape
<1> QED
  BY <1>1, <1>2

\* A restart keeps the shape.
LEMMA ShapeRestart ==
  ASSUME Shape, Restart
  PROVE  Shape'
<1>1. /\ UNCHANGED <<chainVars, locked, unlocks, late, skewed>> /\ pruneUntil' = NotPruning
      /\ restarts' = restarts + 1
      /\ phase' = [h \in Holders |-> IF phase[h] = "refused" THEN "idle" ELSE phase[h]]
  BY DEF Restart
<1>2. /\ read' \in [Holders -> SUBSET Assets]
      /\ dated' \in [Holders -> SUBSET Assets]
      /\ seenBalance' \in [Holders -> [Assets -> Nat]]
      /\ readAt' \in [Holders -> [Assets -> Nat]]
      /\ seenBlock' \in [Holders -> [Assets -> Nat]]
      /\ ReadsFresh'
  BY ShapeForget DEF Restart, Shape
<1>3. TypeOK'
  BY <1>1, <1>2 DEF Shape, TypeOK, Phases
<1>4. /\ \A h \in Holders : phase[h] # "refused" => phase'[h] = phase[h]
      /\ \A h \in Holders : phase'[h] = "released" => phase[h] = "released"
  BY <1>1 DEF Shape, TypeOK
<1>5. \A r \in unlocks : r.holder \in Holders
  BY DEF Shape, TypeOK, Row
<1>6. SpentWhenSent' /\ LateWhenReleased' /\ SkewedLocked'
  BY <1>1, <1>4 DEF Shape, SpentWhenSent, LateWhenReleased, SkewedLocked, Wanted
<1>7. RowsEnded' /\ RowsUnique'
  BY <1>1, <1>4, <1>5 DEF Shape, RowsEnded, RowsUnique, Wanted
<1>8. RowsKept' /\ PruneBehind'
  BY <1>1, <1>4 DEF Shape, RowsKept, PruneBehind, NotPruning
<1> QED
  BY <1>2, <1>3, <1>6, <1>7, <1>8 DEF Shape

(***************************************************************************)
(* The amounts                                                             *)
(***************************************************************************)

Amounts == LocksAccounted /\ ReadsBounded /\ NoOvercommit

\* All the sums of the invariant are natural numbers.
LEMMA SumsAreNat ==
  ASSUME NEW a \in Assets
  PROVE  /\ Sum(LateOf(a), a) \in Nat /\ Sum(SkewedOf(a), a) \in Nat /\ Sum(Outstanding(a), a) \in Nat
         /\ Sum(Held(a), a) \in Nat
         /\ \A b : Sum(LandedAfter(a, b), a) \in Nat
<1>1. /\ LateOf(a) \in SUBSET Holders /\ SkewedOf(a) \in SUBSET Holders
      /\ Outstanding(a) \in SUBSET Holders
      /\ Held(a) \in SUBSET Holders
      /\ \A b : LandedAfter(a, b) \in SUBSET Holders
  BY DEF LateOf, SkewedOf, Outstanding, Active, Held, HoldersOf, LandedAfter
<1> QED
  BY <1>1, SumType, Zenon

\* Steps that neither lock nor unlock nor spend: the balance does not fall, and
\* what is read is the balance.
LEMMA AmountsSame ==
  ASSUME Shape, Amounts, Active' = Active, UNCHANGED <<spent, late, skewed, unlocks, locked>>,
         balance' \in [Assets -> Nat],
         seenBalance' \in [Holders -> [Assets -> Nat]],
         read' \in [Holders -> SUBSET Assets],
         \A a \in Assets : balance'[a] >= balance[a],
         \A h \in Holders : \A a \in read'[h] :
            \/ /\ a \in read[h]
               /\ seenBalance'[h][a] = seenBalance[h][a] /\ readAt'[h][a] = readAt[h][a]
            \/ seenBalance'[h][a] = balance'[a]
  PROVE  Amounts'
<1>1. \A a \in Assets : /\ Held(a)' = Held(a) /\ Outstanding(a)' = Outstanding(a)
                         /\ LateOf(a)' = LateOf(a) /\ SkewedOf(a)' = SkewedOf(a)
                         /\ \A b : LandedAfter(a, b)' = LandedAfter(a, b)
  BY DEF Held, HoldersOf, Outstanding, LateOf, SkewedOf, LandedAfter
<1>2. LocksAccounted'
  BY <1>1 DEF Amounts, LocksAccounted
<1>3. NoOvercommit'
  <2>1. ASSUME NEW a \in Assets
        PROVE  balance'[a] + Sum(LateOf(a), a) + Sum(SkewedOf(a), a) >= Sum(Outstanding(a), a)
    <3>1. balance[a] + Sum(LateOf(a), a) + Sum(SkewedOf(a), a) >= Sum(Outstanding(a), a)
      BY DEF Amounts, NoOvercommit
    <3> QED
      BY <3>1, SumsAreNat DEF Shape, TypeOK
  <2> QED
    BY <1>1, <2>1 DEF NoOvercommit
<1>4. ReadsBounded'
  <2>1. ASSUME NEW h \in Holders, NEW a \in read'[h]
        PROVE  balance'[a] + Sum(LateOf(a), a) + Sum(LandedAfter(a, readAt'[h][a]), a)
                 >= seenBalance'[h][a]
    <3>0. a \in Assets
      OBVIOUS
    <3>1. /\ balance'[a] \in Nat /\ balance[a] \in Nat
          /\ Sum(LateOf(a), a) \in Nat /\ Sum(LandedAfter(a, readAt'[h][a]), a) \in Nat
      BY <3>0, SumsAreNat DEF Shape, TypeOK
    <3>2. CASE seenBalance'[h][a] = balance'[a]
      BY <3>1, <3>2
    <3>3. CASE /\ a \in read[h]
               /\ seenBalance'[h][a] = seenBalance[h][a] /\ readAt'[h][a] = readAt[h][a]
      <4>1. balance[a] + Sum(LateOf(a), a) + Sum(LandedAfter(a, readAt[h][a]), a)
              >= seenBalance[h][a]
        BY <3>3 DEF Amounts, ReadsBounded
      <4>2. seenBalance[h][a] \in Nat /\ balance'[a] >= balance[a]
        BY <3>0 DEF Shape, TypeOK
      <4> QED
        BY <3>1, <3>3, <4>1, <4>2
    <3> QED
      BY <3>2, <3>3
  <2> QED
    BY <1>1, <2>1 DEF ReadsBounded
<1> QED
  BY <1>2, <1>3, <1>4 DEF Amounts

\* Awaited spending: the amount leaves the balance, and with it the locks to be
\* paid; for an older reading it is money that left since then.
LEMMA AmountsLand ==
  ASSUME Shape, Amounts, NEW h \in Holders, NEW c \in Assets, Land(h, c)
  PROVE  Amounts'
<1>1. /\ phase[h] = "sent" /\ spent[h][c] = 0 /\ c \in Wanted(h) /\ block \in Nat
      /\ <<h, c>> \notin late
      /\ UNCHANGED <<locked, unlocks, phase, late, skewed, read, seenBalance, readAt>>
      /\ balance[c] \in Nat /\ Need[h][c] \in Nat /\ balance[c] >= Need[h][c]
      /\ balance' = [balance EXCEPT ![c] = @ - Need[h][c]]
      /\ \A g \in Holders, a \in Assets :
           spent'[g][a] = IF g = h /\ a = c THEN block + 1 ELSE spent[g][a]
  <2>1. <<h, c>> \notin late
    BY DEF Land, Shape, LateWhenReleased
  <2>2. Need[h][c] \in Nat
    <3>1. Need[h][c] \in 0..MaxNeed
      BY NeedAssumption
    <3> QED
      BY <3>1, NeedAssumption
  <2>3. \A g \in Holders, a \in Assets :
           spent'[g][a] = IF g = h /\ a = c THEN block + 1 ELSE spent[g][a]
    BY DEF Land, Spend, Shape, TypeOK
  <2> QED
    BY <2>1, <2>2, <2>3 DEF Land, Spend, Shape, TypeOK
<1>2. /\ Active' = Active /\ h \in Active
      /\ \A a \in Assets : Held(a)' = Held(a) /\ LateOf(a)' = LateOf(a) /\ SkewedOf(a)' = SkewedOf(a)
  BY <1>1 DEF Active, Held, HoldersOf, LateOf, SkewedOf
<1>3. LocksAccounted'
  BY <1>1, <1>2 DEF Amounts, LocksAccounted
<1>4. \A a \in Assets \ {c} : /\ balance'[a] = balance[a] /\ Outstanding(a)' = Outstanding(a)
                               /\ \A b : LandedAfter(a, b)' = LandedAfter(a, b)
  <2>1. ASSUME NEW a \in Assets \ {c}
        PROVE  /\ balance'[a] = balance[a]
               /\ \A g \in Holders : spent'[g][a] = spent[g][a]
    BY <1>1 DEF Shape, TypeOK
  <2>2. Active \subseteq Holders
    BY DEF Active
  <2> QED
    BY <1>1, <1>2, <2>1, <2>2 DEF Outstanding, LandedAfter
<1>5. /\ Outstanding(c) = Outstanding(c)' \cup {h} /\ h \notin Outstanding(c)'
      /\ Outstanding(c)' \in SUBSET Holders
  BY <1>1, <1>2 DEF Outstanding, Active
<1>6. Sum(Outstanding(c), c) = Sum(Outstanding(c)', c) + Need[h][c]
  BY <1>5, SumAdd, Zenon
<1>7. balance'[c] = balance[c] - Need[h][c]
  BY <1>1 DEF Shape, TypeOK
<1>8. NoOvercommit'
  <2>1. balance[c] + Sum(LateOf(c), c) + Sum(SkewedOf(c), c) >= Sum(Outstanding(c), c)
    BY DEF Amounts, NoOvercommit
  <2>2. /\ Sum(LateOf(c), c) \in Nat /\ Sum(SkewedOf(c), c) \in Nat
        /\ Sum(Outstanding(c)', c) \in Nat
    BY <1>5, SumsAreNat, SumType, Zenon
  <2>3. balance'[c] + Sum(LateOf(c), c) + Sum(SkewedOf(c), c) >= Sum(Outstanding(c)', c)
    BY <1>1, <1>6, <1>7, <2>1, <2>2
  <2>4. \A a \in Assets \ {c} : balance'[a] + Sum(LateOf(a), a) + Sum(SkewedOf(a), a) >= Sum(Outstanding(a)', a)
    BY <1>4 DEF Amounts, NoOvercommit
  <2> QED
    BY <1>2, <2>3, <2>4 DEF NoOvercommit
<1>9. ReadsBounded'
  <2>1. ASSUME NEW g \in Holders, NEW a \in read[g], NEW b, b = readAt[g][a]
        PROVE  balance'[a] + Sum(LateOf(a), a) + Sum(LandedAfter(a, b)', a) >= seenBalance[g][a]
    <3>0. /\ a \in Assets /\ readAt[g][a] \in Nat /\ seenBalance[g][a] \in Nat
          /\ readAt[g][a] <= block
      BY DEF Shape, TypeOK, ReadsFresh
    <3>1. balance[a] + Sum(LateOf(a), a) + Sum(LandedAfter(a, b), a) >= seenBalance[g][a]
      BY <2>1 DEF Amounts, ReadsBounded
    <3>2. CASE a # c
      BY <3>0, <3>1, <3>2, <1>4
    <3>3. CASE a = c
      <4> DEFINE L == LandedAfter(c, b)
      <4>1. LandedAfter(c, b)' = L \cup {h}
        BY <2>1, <3>0, <3>3, <1>1 DEF LandedAfter
      <4>2. h \notin L /\ L \in SUBSET Holders
        BY <2>1, <3>0, <3>3, <1>1 DEF LandedAfter
      <4> HIDE DEF L
      <4>3. Sum(L \cup {h}, c) = Sum(L, c) + Need[h][c]
        BY <4>2, SumAdd, Zenon
      <4>4. Sum(L, c) \in Nat /\ Sum(LateOf(c), c) \in Nat
        BY <4>2, SumsAreNat, SumType, Zenon
      <4>5. balance[c] + Sum(LateOf(c), c) + Sum(L, c) >= seenBalance[g][c]
        BY <3>1, <3>3 DEF L
      <4>6. balance'[c] + Sum(LateOf(c), c) + Sum(L \cup {h}, c) >= seenBalance[g][c]
        BY <3>0, <3>3, <4>3, <4>4, <4>5, <1>1, <1>7
      <4> QED
        BY <3>3, <4>1, <4>6
    <3> QED
      BY <3>2, <3>3
  <2>2. \A g \in Holders : read[g] \subseteq Assets
    BY DEF Shape, TypeOK
  <2> QED
    BY <1>1, <1>2, <2>1, <2>2 DEF ReadsBounded, LandedAfter
<1> QED
  BY <1>3, <1>8, <1>9 DEF Amounts

\* Late spending: the amount leaves the balance and is counted as late.
LEMMA AmountsLandLate ==
  ASSUME Shape, Amounts, NEW h \in Holders, NEW c \in Assets, LandLate(h, c)
  PROVE  Amounts'
<1>1. /\ phase[h] = "released" /\ spent[h][c] = 0 /\ block \in Nat
      /\ <<h, c>> \notin late /\ late' = late \cup {<<h, c>>}
      /\ UNCHANGED <<locked, unlocks, phase, skewed, read, seenBalance, readAt>>
      /\ balance[c] \in Nat /\ Need[h][c] \in Nat /\ balance[c] >= Need[h][c]
      /\ balance' = [balance EXCEPT ![c] = @ - Need[h][c]]
      /\ \A g \in Holders, a \in Assets :
           spent'[g][a] = IF g = h /\ a = c THEN block + 1 ELSE spent[g][a]
  <2>1. <<h, c>> \notin late
    BY DEF LandLate, Spend, Shape, LateWhenReleased
  <2>2. Need[h][c] \in Nat
    <3>1. Need[h][c] \in 0..MaxNeed
      BY NeedAssumption
    <3> QED
      BY <3>1, NeedAssumption
  <2>3. \A g \in Holders, a \in Assets :
           spent'[g][a] = IF g = h /\ a = c THEN block + 1 ELSE spent[g][a]
    BY DEF LandLate, Spend, Shape, TypeOK
  <2> QED
    BY <2>1, <2>2, <2>3 DEF LandLate, Spend, Shape, TypeOK
<1>2. /\ Active' = Active /\ h \notin Active
      /\ \A a \in Assets : Held(a)' = Held(a) /\ SkewedOf(a)' = SkewedOf(a)
  BY <1>1 DEF Active, Held, HoldersOf, SkewedOf
<1>3. LocksAccounted'
  BY <1>1, <1>2 DEF Amounts, LocksAccounted
<1>4. \A a \in Assets : Outstanding(a)' = Outstanding(a)
  <2>1. \A g \in Active : g \in Holders /\ g # h
    BY <1>2 DEF Active
  <2>2. \A g \in Active, a \in Assets : spent'[g][a] = spent[g][a]
    BY <1>1, <2>1
  <2> QED
    BY <1>2, <2>2 DEF Outstanding
<1>5. /\ \A a \in Assets \ {c} : LateOf(a)' = LateOf(a)
      /\ LateOf(c)' = LateOf(c) \cup {h} /\ h \notin LateOf(c)
      /\ LateOf(c) \in SUBSET Holders
  BY <1>1 DEF LateOf
<1>6. Sum(LateOf(c)', c) = Sum(LateOf(c), c) + Need[h][c]
  BY <1>5, SumAdd, Zenon
<1>7. \A a \in Assets : \A b \in Nat : LandedAfter(a, b)' = LandedAfter(a, b)
  BY <1>1 DEF LandedAfter
<1>8. /\ balance'[c] = balance[c] - Need[h][c]
      /\ \A a \in Assets \ {c} : balance'[a] = balance[a]
  BY <1>1 DEF Shape, TypeOK
<1>9. ASSUME NEW a \in Assets
      PROVE  balance'[a] + Sum(LateOf(a)', a) = balance[a] + Sum(LateOf(a), a)
  <2>1. Sum(LateOf(c), c) \in Nat
    BY SumsAreNat
  <2>2. CASE a = c
    BY <2>1, <2>2, <1>1, <1>6, <1>8
  <2>3. CASE a # c
    BY <2>3, <1>5, <1>8
  <2> QED
    BY <2>2, <2>3
<1>10. NoOvercommit'
  BY <1>2, <1>4, <1>9 DEF Amounts, NoOvercommit
<1>11. ReadsBounded'
  <2>1. \A g \in Holders : \A a \in read[g] : a \in Assets /\ readAt[g][a] \in Nat
    BY DEF Shape, TypeOK
  <2>2. ASSUME NEW g \in Holders, NEW a \in read[g], NEW b, b = readAt[g][a]
        PROVE  balance'[a] + Sum(LateOf(a)', a) + Sum(LandedAfter(a, b)', a) >= seenBalance[g][a]
    <3>1. balance[a] + Sum(LateOf(a), a) + Sum(LandedAfter(a, b), a) >= seenBalance[g][a]
      BY <2>2 DEF Amounts, ReadsBounded
    <3>2. balance'[a] + Sum(LateOf(a)', a) = balance[a] + Sum(LateOf(a), a)
      BY <2>1, <1>9
    <3>3. LandedAfter(a, b)' = LandedAfter(a, b)
      BY <2>1, <2>2, <1>7
    <3> QED
      BY <3>1, <3>2, <3>3
  <2> QED
    BY <1>1, <2>1, <2>2 DEF ReadsBounded, LandedAfter
<1> QED
  BY <1>3, <1>10, <1>11 DEF Amounts

\* Unlocking: the amounts stay in the total through their rows, and what had left
\* without being noticed becomes late.
LEMMA AmountsUnlock ==
  ASSUME Shape, Amounts, NEW h \in Holders, NEW ok \in SUBSET Assets,
         NEW bf \in Nat, Release(h, ok, bf) \/ (Cancel(h) /\ ok = {} /\ bf = 0)
  PROVE  Amounts'
<1>1. /\ UNCHANGED <<chainVars, locked, readVars, skewed>>
      /\ unlocks' = unlocks \cup UnlockRows(h, ok, bf)
      /\ phase[h] \in {"locked", "sent"} /\ phase'[h] \notin {"locked", "sent"}
      /\ \A g \in Holders \ {h} : phase'[g] = phase[g]
      /\ \A a \in ok : spent[h][a] > 0
  BY DEF Release, Cancel, Shape, TypeOK
<1>2. \A g \in Holders, a \in Assets :
        /\ <<g, a>> \in late => <<g, a>> \in late'
        /\ <<g, a>> \in late' => <<g, a>> \in late \/ g = h
  BY DEF Release, Cancel
<1>3. Active' = Active \ {h} /\ h \in Active /\ Active \subseteq Holders
  BY <1>1 DEF Active
<1>4. ASSUME NEW a \in Assets
      PROVE  locked'[a] = Sum(Held(a)', a)
  <2>1. h \notin HoldersOf(unlocks, a)
    BY PruneSplits, <1>3
  <2>2. HoldersOf(unlocks, a)' = HoldersOf(unlocks, a) \cup (IF a \in Wanted(h) THEN {h} ELSE {})
    <3>1. \A g : (\E r \in UnlockRows(h, ok, bf) : r.holder = g /\ r.asset = a)
                 <=> (g = h /\ a \in Wanted(h))
      <4>1. ASSUME NEW r \in UnlockRows(h, ok, bf)
            PROVE  r.holder = h /\ r.asset \in Wanted(h)
        BY DEF UnlockRows
      <4>2. ASSUME a \in Wanted(h)
            PROVE  \E r \in UnlockRows(h, ok, bf) : r.holder = h /\ r.asset = a
        <5> DEFINE r == [holder |-> h, asset |-> a,
                         block |-> IF a \in ok THEN spent[h][a] ELSE bf]
        <5>1. r \in UnlockRows(h, ok, bf)
          BY <4>2 DEF UnlockRows
        <5>2. r.holder = h /\ r.asset = a
          OBVIOUS
        <5> QED
          BY <5>1, <5>2
      <4> QED
        BY <4>1, <4>2
    <3> QED
      BY <1>1, <3>1 DEF HoldersOf
  <2>3. locked[a] = Sum(Held(a), a) /\ locked'[a] = locked[a]
    BY <1>1 DEF Amounts, LocksAccounted
  <2>4. CASE a \in Wanted(h)
    BY <1>3, <2>2, <2>3, <2>4 DEF Held
  <2>5. CASE a \notin Wanted(h)
    <3>1. Need[h][a] \in 0..MaxNeed
      BY NeedAssumption
    <3>2. Need[h][a] = 0
      BY <2>5, <3>1, NeedAssumption DEF Wanted
    <3>3. /\ Held(a) = Held(a)' \cup {h} /\ h \notin Held(a)'
          /\ Held(a)' \in SUBSET Holders
      BY <1>3, <2>1, <2>2, <2>5 DEF Held, HoldersOf
    <3>4. Sum(Held(a), a) = Sum(Held(a)', a) + Need[h][a] /\ Sum(Held(a)', a) \in Nat
      BY <3>3, SumAdd, SumType, Zenon
    <3> QED
      BY <2>3, <3>2, <3>4
  <2> QED
    BY <2>4, <2>5
<1>5. LocksAccounted'
  BY <1>4 DEF LocksAccounted
<1>6. ASSUME NEW a \in Assets
      PROVE  /\ Outstanding(a)' \in SUBSET Outstanding(a) /\ Outstanding(a) \in SUBSET Holders
             /\ LateOf(a) \in SUBSET LateOf(a)' /\ LateOf(a)' \in SUBSET Holders
             /\ SkewedOf(a)' = SkewedOf(a)
             /\ balance'[a] = balance[a] /\ balance[a] \in Nat
  BY <1>1, <1>2, <1>3 DEF Outstanding, LateOf, SkewedOf, Shape, TypeOK
<1>7. ASSUME NEW a \in Assets
      PROVE  /\ Sum(Outstanding(a)', a) <= Sum(Outstanding(a), a)
             /\ Sum(LateOf(a), a) <= Sum(LateOf(a)', a)
             /\ Sum(Outstanding(a)', a) \in Nat /\ Sum(Outstanding(a), a) \in Nat
             /\ Sum(LateOf(a)', a) \in Nat /\ Sum(LateOf(a), a) \in Nat
  <2>1. Outstanding(a)' \in SUBSET Holders /\ LateOf(a) \in SUBSET Holders
    BY <1>6
  <2> QED
    BY <1>6, <2>1, SumMono, SumType, Zenon
<1>8. NoOvercommit'
  <2>1. ASSUME NEW a \in Assets
        PROVE  balance'[a] + Sum(LateOf(a)', a) + Sum(SkewedOf(a)', a) >= Sum(Outstanding(a)', a)
    <3>1. balance[a] + Sum(LateOf(a), a) + Sum(SkewedOf(a), a) >= Sum(Outstanding(a), a)
      BY DEF Amounts, NoOvercommit
    <3> QED
      BY <3>1, <1>6, <1>7, SumsAreNat
  <2> QED
    BY <2>1 DEF NoOvercommit
<1>9. ASSUME NEW g \in Holders, NEW a \in read[g], NEW b, b = readAt[g][a]
      PROVE  balance'[a] + Sum(LateOf(a)', a) + Sum(LandedAfter(a, b)', a) >= seenBalance[g][a]
  <2> DEFINE L == LandedAfter(a, b)
             K == LandedAfter(a, b)'
  <2>0. a \in Assets /\ seenBalance[g][a] \in Nat
    BY DEF Shape, TypeOK
  <2>1. balance[a] + Sum(LateOf(a), a) + Sum(L, a) >= seenBalance[g][a]
    BY <1>9 DEF Amounts, ReadsBounded
  <2>2. L \in SUBSET Holders /\ K \in SUBSET Holders
    BY DEF LandedAfter
  <2>3. CASE <<h, a>> \in late'
    <3>1. h \notin LateOf(a) /\ LateOf(a)' = LateOf(a) \cup {h}
      <4>1. <<h, a>> \notin late
        BY <1>1, <2>0 DEF Shape, LateWhenReleased
      <4> QED
        BY <2>0, <2>3, <4>1, <1>2 DEF LateOf
    <3>2. L \in SUBSET (K \cup {h}) /\ K \cup {h} \in SUBSET Holders /\ h \notin K
      BY <2>0, <2>2, <2>3, <1>1, <1>2 DEF LandedAfter
    <3> HIDE DEF L, K
    <3>3. /\ Sum(LateOf(a)', a) = Sum(LateOf(a), a) + Need[h][a]
          /\ Sum(K \cup {h}, a) = Sum(K, a) + Need[h][a]
      <4>1. LateOf(a) \in SUBSET Holders
        BY DEF LateOf
      <4>2. Sum(LateOf(a) \cup {h}, a) = Sum(LateOf(a), a) + Need[h][a]
        BY <2>0, <3>1, <4>1, SumAdd, Zenon
      <4>3. Sum(K \cup {h}, a) = Sum(K, a) + Need[h][a]
        BY <2>0, <2>2, <3>2, SumAdd, Zenon
      <4> QED
        BY <3>1, <4>2, <4>3
    <3>4. Sum(L, a) <= Sum(K \cup {h}, a)
      BY <2>0, <3>2, SumMono, Zenon
    <3>5. Sum(L, a) \in Nat /\ Sum(K, a) \in Nat
      BY <2>0, <2>2, SumType, Zenon
    <3>6. Need[h][a] \in Nat
      <4>1. Need[h][a] \in 0..MaxNeed
        BY <2>0, NeedAssumption
      <4> QED
        BY <4>1, NeedAssumption
    <3>7. balance'[a] + Sum(LateOf(a)', a) + Sum(K, a) >= seenBalance[g][a]
      BY <2>0, <2>1, <3>3, <3>4, <3>5, <3>6, <1>6, <1>7
    <3> QED
      BY <3>7 DEF K
  <2>4. CASE <<h, a>> \notin late'
    <3>1. \A f \in Holders : <<f, a>> \in late' <=> <<f, a>> \in late
      BY <2>0, <2>4, <1>2
    <3>2. K = L
      BY <2>0, <3>1, <1>1 DEF LandedAfter
    <3> HIDE DEF L, K
    <3>3. Sum(L, a) \in Nat
      BY <2>0, <2>2, SumType, Zenon
    <3>4. balance'[a] + Sum(LateOf(a)', a) + Sum(K, a) >= seenBalance[g][a]
      BY <2>0, <2>1, <3>2, <3>3, <1>6, <1>7
    <3> QED
      BY <3>4 DEF K
  <2> QED
    BY <2>3, <2>4
<1>10. ReadsBounded'
  <2>1. \A g \in Holders : read[g] \subseteq Assets
    BY DEF Shape, TypeOK
  <2> QED
    BY <1>1, <1>9, <2>1 DEF ReadsBounded, LandedAfter
<1> QED
  BY <1>5, <1>8, <1>10 DEF Amounts

\* Pruning: the rows leave the table and the total together, and the floor is
\* never needed.
LEMMA AmountsPrune ==
  ASSUME Shape, Amounts, Prune
  PROVE  Amounts'
<1>1. /\ unlocks' = unlocks \ Gone
      /\ locked' = [a \in Assets |-> Floored(locked[a] - Sum(HoldersOf(Gone, a), a))]
      /\ UNCHANGED <<chainVars, phase, readVars, late, skewed>>
  BY DEF Prune, Gone
<1>2. ASSUME NEW a \in Assets
      PROVE  locked'[a] = Sum(Held(a)', a)
  <2> DEFINE G == HoldersOf(Gone, a)
             H == Held(a)'
  <2>1. /\ Held(a) = H \cup G /\ H \cap G = {}
        /\ H \in SUBSET Holders /\ G \in SUBSET Holders
    BY <1>1, PruneSplits DEF Held, HoldersOf, Active
  <2>2. locked'[a] = Floored(locked[a] - Sum(G, a)) /\ locked[a] = Sum(Held(a), a)
    BY <1>1 DEF Amounts, LocksAccounted
  <2> HIDE DEF G, H
  <2>3. Sum(Held(a), a) = Sum(H, a) + Sum(G, a)
    <3>1. Sum(H \cup G, a) = Sum(H, a) + Sum(G, a)
      BY <2>1, SumUnion, Zenon
    <3> QED
      BY <2>1, <3>1
  <2>4. Sum(H, a) \in Nat /\ Sum(G, a) \in Nat
    BY <2>1, SumType, Zenon
  <2>5. locked'[a] = Sum(H, a)
    BY <2>2, <2>3, <2>4 DEF Floored
  <2> QED
    BY <2>5 DEF H
<1>3. LocksAccounted'
  BY <1>2 DEF LocksAccounted
<1>4. NoOvercommit' /\ ReadsBounded'
  BY <1>1 DEF Amounts, NoOvercommit, ReadsBounded, LateOf, SkewedOf, Outstanding, Active, LandedAfter
<1> QED
  BY <1>3, <1>4 DEF Amounts

\* A lock: what was read bounds the balance of now, and the locked total covers
\* the locks to be paid together with what left since the reading, because no
\* row that young has been pruned.
LEMMA AmountsLock ==
  ASSUME Staleness <= PruneMargin, Shape, Amounts, NEW h \in Holders, Lock(h)
  PROVE  Amounts'
<1>1. /\ phase[h] = "idle" /\ phase' = [phase EXCEPT ![h] = "locked"]
      /\ read[h] = Wanted(h) /\ dated[h] = Wanted(h) /\ ForgetReads({h})
      /\ skewed' = skewed \cup {<<h, a>> : a \in {x \in Wanted(h) : Skewed(h, x)}}
      /\ UNCHANGED <<block, balance, spent, unlocks, late>>
      /\ locked' = [a \in Assets |-> locked[a] + Need[h][a]]
  BY DEF Lock, ReadsDone
<1>2. Active' = Active \cup {h} /\ h \notin Active /\ Active \in SUBSET Holders
  BY <1>1 DEF Active, Shape, TypeOK
<1>3. ASSUME NEW a \in Assets
      PROVE  spent[h][a] = 0 /\ h \notin HoldersOf(unlocks, a)
  <2>1. spent[h][a] \in Nat /\ ~(spent[h][a] > 0)
    BY <1>1 DEF Shape, TypeOK, SpentWhenSent
  <2>2. \A r \in unlocks : r.holder # h
    BY <1>1 DEF Shape, RowsEnded
  <2> QED
    BY <2>1, <2>2 DEF HoldersOf
<1>4. ASSUME NEW a \in Assets
      PROVE  Need[h][a] \in Nat /\ (a \notin Wanted(h) => Need[h][a] = 0)
  <2>1. Need[h][a] \in 0..MaxNeed
    BY NeedAssumption
  <2> QED
    BY <2>1, NeedAssumption DEF Wanted
<1>5. LocksAccounted'
  <2>1. ASSUME NEW a \in Assets
        PROVE  locked'[a] = Sum(Held(a)', a)
    <3>1. Held(a)' = Held(a) \cup {h} /\ h \notin Held(a) /\ Held(a) \in SUBSET Holders
      BY <1>1, <1>2, <1>3 DEF Held, HoldersOf
    <3>2. Sum(Held(a) \cup {h}, a) = Sum(Held(a), a) + Need[h][a]
      BY <3>1, SumAdd, Zenon
    <3> QED
      BY <1>1, <3>1, <3>2 DEF Amounts, LocksAccounted
  <2> QED
    BY <2>1 DEF LocksAccounted
<1>6. ReadsBounded'
  <2>1. \A g \in Holders \ {h} : /\ read'[g] = read[g] /\ seenBalance'[g] = seenBalance[g]
                                 /\ readAt'[g] = readAt[g]
    BY <1>1 DEF ForgetReads
  <2>2. read'[h] = {}
    BY <1>1 DEF ForgetReads
  <2>3. ASSUME NEW g \in Holders, NEW a \in read'[g]
        PROVE  /\ a \in read[g] /\ seenBalance'[g][a] = seenBalance[g][a]
               /\ readAt'[g][a] = readAt[g][a]
    BY <2>1, <2>2
  <2> QED
    BY <1>1, <2>3 DEF Amounts, ReadsBounded, LateOf, LandedAfter
<1>7. ASSUME NEW a \in Assets, ~(a \in Wanted(h) /\ Skewed(h, a))
      PROVE  balance[a] + Sum(LateOf(a), a) + Sum(SkewedOf(a), a) >= Sum(Outstanding(a), a) + Need[h][a]
  <2>1. CASE a \notin Wanted(h)
    <3>1. balance[a] + Sum(LateOf(a), a) + Sum(SkewedOf(a), a) >= Sum(Outstanding(a), a)
      BY DEF Amounts, NoOvercommit
    <3> QED
      BY <2>1, <3>1, <1>4, SumsAreNat
  <2>2. CASE a \in Wanted(h)
    <3> DEFINE b == seenBlock[h][a]
               U == HoldersOf(UnlockedAt(a, b), a)
               L == LandedAfter(a, b)
               O == Outstanding(a)
    <3>0. /\ b \in Nat /\ block \in Nat /\ block - b <= Staleness
          /\ seenBalance[h][a] \in Nat /\ balance[a] \in Nat /\ locked[a] \in Nat
      BY <1>1, <2>2 DEF Shape, TypeOK, ReadsFresh
    <3>1. seenBalance[h][a] + Sum(U, a) >= locked[a] + Need[h][a]
      BY <2>2 DEF Lock, Enough
    <3>2. balance[a] + Sum(LateOf(a), a) + Sum(L, a) >= seenBalance[h][a]
      <4> DEFINE K == LandedAfter(a, readAt[h][a])
      <4>1. balance[a] + Sum(LateOf(a), a) + Sum(K, a) >= seenBalance[h][a]
        BY <1>1, <2>2 DEF Amounts, ReadsBounded
      <4>2. K \in SUBSET L /\ L \in SUBSET Holders
        <5>1. readAt[h][a] \in Nat /\ \A g \in Holders : spent[g][a] \in Nat
          BY DEF Shape, TypeOK
        <5> QED
          BY <1>7, <2>2, <3>0, <5>1 DEF LandedAfter, Skewed
      <4> HIDE DEF K, L, b
      <4>3. Sum(K, a) <= Sum(L, a)
        BY <4>2, SumMono, Zenon
      <4>4. Sum(K, a) \in Nat /\ Sum(L, a) \in Nat /\ Sum(LateOf(a), a) \in Nat
        BY <4>2, SumType, SumsAreNat, Zenon
      <4> QED
        BY <3>0, <4>1, <4>3, <4>4
    <3>3. locked[a] = Sum(Held(a), a)
      BY DEF Amounts, LocksAccounted
    <3>4. /\ U \in SUBSET Holders /\ L \in SUBSET Holders /\ O \in SUBSET Holders
          /\ Held(a) \in SUBSET Holders
      BY <1>2 DEF HoldersOf, LandedAfter, Outstanding, Held
    <3>5. \A g \in U : g \notin Active /\ g \in Held(a) /\ g \notin L
      <4>1. ASSUME NEW g \in U PROVE g \notin Active /\ g \in Held(a) /\ g \notin L
        <5>1. PICK r \in unlocks : r.holder = g /\ r.asset = a /\ r.block <= b
          BY DEF HoldersOf, UnlockedAt
        <5>2. /\ phase[g] \in {"released", "cancelled"} /\ g \in Holders /\ r.block \in Nat
              /\ spent[g][a] > 0 /\ <<g, a>> \notin late => r.block = spent[g][a]
          BY <5>1 DEF Shape, TypeOK, RowsEnded, Row
        <5>3. g \notin Active /\ g \in Held(a)
          BY <5>1, <5>2 DEF Active, Held, HoldersOf
        <5>4. g \notin L
          <6>1. SUFFICES ASSUME spent[g][a] > b, <<g, a>> \notin late PROVE FALSE
            BY <5>2 DEF LandedAfter
          <6>2. spent[g][a] \in Nat /\ spent[g][a] > 0
            BY <3>0, <5>2, <6>1 DEF Shape, TypeOK
          <6> QED
            BY <3>0, <5>1, <5>2, <6>1, <6>2
        <5> QED
          BY <5>3, <5>4
      <4> QED
        BY <4>1
    <3>6. \A g \in L : g \in Held(a) /\ g \notin O
      <4>1. ASSUME NEW g \in L PROVE g \in Held(a) /\ g \notin O
        <5>1. g \in Holders /\ spent[g][a] > b /\ <<g, a>> \notin late
          BY DEF LandedAfter
        <5>2. spent[g][a] \in Nat /\ spent[g][a] > 0
          BY <3>0, <5>1 DEF Shape, TypeOK
        <5>3. phase[g] \in {"sent", "released"}
          BY <5>1, <5>2 DEF Shape, SpentWhenSent
        <5>4. CASE phase[g] = "sent"
          BY <5>1, <5>2, <5>4 DEF Held, Active, Outstanding
        <5>5. CASE phase[g] = "released"
          <6>1. \/ spent[g][a] + PruneMargin <= block
                \/ [holder |-> g, asset |-> a, block |-> spent[g][a]] \in unlocks
            BY <5>1, <5>2, <5>5 DEF Shape, RowsKept
          <6>2. ~(spent[g][a] + PruneMargin <= block)
            BY <3>0, <5>1, <5>2, BoundAssumption
          <6> QED
            BY <5>1, <5>2, <6>1, <6>2 DEF Held, HoldersOf, Outstanding
        <5> QED
          BY <5>3, <5>4, <5>5
      <4> QED
        BY <4>1
    <3>7. O \subseteq Active /\ O \subseteq Held(a)
      BY DEF Outstanding, Held
    <3> HIDE DEF b, U, L, O
    <3>8. /\ (O \cup L) \cap U = {} /\ O \cap L = {} /\ O \cup L \in SUBSET Holders
          /\ (O \cup L) \cup U \in SUBSET Held(a)
      BY <3>4, <3>5, <3>6, <3>7
    <3>9. Sum(O \cup L, a) = Sum(O, a) + Sum(L, a)
      BY <3>4, <3>8, SumUnion, Zenon
    <3>10. Sum((O \cup L) \cup U, a) = Sum(O \cup L, a) + Sum(U, a)
      BY <3>4, <3>8, SumUnion, Zenon
    <3>11. Sum((O \cup L) \cup U, a) <= Sum(Held(a), a)
      BY <3>4, <3>8, SumMono, Zenon
    <3>12. Sum(O, a) \in Nat /\ Sum(L, a) \in Nat /\ Sum(U, a) \in Nat /\ Sum(LateOf(a), a) \in Nat
      BY <3>4, SumType, SumsAreNat, Zenon
    <3>13. balance[a] + Sum(LateOf(a), a) + Sum(SkewedOf(a), a) >= Sum(O, a) + Need[h][a]
      BY <3>0, <3>1, <3>2, <3>3, <3>9, <3>10, <3>11, <3>12, <1>4, SumsAreNat
    <3> QED
      BY <3>13 DEF O
  <2> QED
    BY <2>1, <2>2
<1>8. NoOvercommit'
  <2>1. ASSUME NEW a \in Assets
        PROVE  balance'[a] + Sum(LateOf(a)', a) + Sum(SkewedOf(a)', a) >= Sum(Outstanding(a)', a)
    <3>1. /\ Outstanding(a)' = Outstanding(a) \cup {h} /\ h \notin Outstanding(a)
          /\ Outstanding(a) \in SUBSET Holders /\ LateOf(a)' = LateOf(a)
          /\ balance'[a] = balance[a] /\ balance[a] \in Nat
      BY <1>1, <1>2, <1>3 DEF Outstanding, LateOf, Shape, TypeOK
    <3>2. Sum(Outstanding(a) \cup {h}, a) = Sum(Outstanding(a), a) + Need[h][a]
      BY <3>1, SumAdd, Zenon
    <3>3. h \notin SkewedOf(a) /\ SkewedOf(a) \in SUBSET Holders
      BY <1>1 DEF Shape, SkewedLocked, SkewedOf
    <3>4. CASE a \in Wanted(h) /\ Skewed(h, a)
      <4>1. SkewedOf(a)' = SkewedOf(a) \cup {h}
        BY <1>1, <3>4 DEF SkewedOf
      <4>2. Sum(SkewedOf(a) \cup {h}, a) = Sum(SkewedOf(a), a) + Need[h][a]
        BY <3>3, SumAdd, Zenon
      <4>3. balance[a] + Sum(LateOf(a), a) + Sum(SkewedOf(a), a) >= Sum(Outstanding(a), a)
        BY DEF Amounts, NoOvercommit
      <4> QED
        BY <3>1, <3>2, <4>1, <4>2, <4>3, <1>4, SumsAreNat
    <3>5. CASE ~(a \in Wanted(h) /\ Skewed(h, a))
      <4>1. SkewedOf(a)' = SkewedOf(a)
        BY <1>1, <3>5 DEF SkewedOf
      <4> QED
        BY <1>7, <3>1, <3>2, <3>5, <4>1
    <3> QED
      BY <3>4, <3>5
  <2> QED
    BY <2>1 DEF NoOvercommit
<1> QED
  BY <1>5, <1>6, <1>8 DEF Amounts

(***************************************************************************)
(* The theorems                                                            *)
(***************************************************************************)

\* The initial state: nothing is locked and nothing has been read.
LEMMA IInvInit == Init => IInv
<1> SUFFICES ASSUME Init PROVE IInv
  OBVIOUS
<1>1. Shape
  BY ShapeInit
<1>2. ASSUME NEW a \in Assets
      PROVE  Held(a) = {} /\ Outstanding(a) = {} /\ LateOf(a) = {} /\ SkewedOf(a) = {}
  BY DEF Init, Held, HoldersOf, Active, Outstanding, LateOf, SkewedOf
<1>3. LocksAccounted
  BY <1>2, SumEmpty DEF Init, LocksAccounted
<1>4. NoOvercommit
  BY <1>2, SumEmpty, BoundAssumption DEF Init, NoOvercommit
<1>5. ReadsBounded
  BY DEF Init, ReadsBounded
<1> QED
  BY <1>1, <1>3, <1>4, <1>5 DEF IInv

\* Every step keeps the inductive invariant, if locks are decided before the
\* margin of the pruning has passed.
LEMMA IInvNext ==
  ASSUME Staleness <= PruneMargin, IInv, [Next]_vars
  PROVE  IInv'
<1>0. Shape /\ Amounts
  BY DEF IInv, Amounts
<1> SUFFICES Shape' /\ Amounts'
  BY DEF IInv, Amounts
<1>1. CASE EmptyBlock \/ \E a \in Assets : Fund(a)
  <2>1. Shape'
    BY <1>0, <1>1, ShapeBlock
  <2>2. \A a \in Assets : balance'[a] >= balance[a]
    BY <1>0, <1>1 DEF EmptyBlock, Fund, Shape, TypeOK
  <2>3. Active' = Active /\ UNCHANGED <<spent, late, skewed, unlocks, locked, readVars>>
    BY <1>1 DEF EmptyBlock, Fund, Active
  <2>4. /\ balance' \in [Assets -> Nat] /\ seenBalance' \in [Holders -> [Assets -> Nat]]
        /\ read' \in [Holders -> SUBSET Assets]
    BY <2>1 DEF Shape, TypeOK
  <2>5. Amounts'
    BY <1>0, <2>2, <2>3, <2>4, AmountsSame
  <2> QED
    BY <2>1, <2>5
<1>2. ASSUME NEW h \in Holders, NEW a \in Assets, Land(h, a) \/ LandLate(h, a)
      PROVE  Shape' /\ Amounts'
  BY <1>0, <1>2, ShapeSpend, AmountsLand, AmountsLandLate
<1>3. ASSUME NEW h \in Holders, NEW a \in Assets,
             GetBalanceWithBlock(h, a) \/ GetBalance(h, a) \/ GetBlockNumber(h, a)
      PROVE  Shape' /\ Amounts'
  <2>1. Shape'
    BY <1>0, <1>3, ShapeRead
  <2>2. /\ balance' \in [Assets -> Nat] /\ seenBalance' \in [Holders -> [Assets -> Nat]]
        /\ read' \in [Holders -> SUBSET Assets]
    BY <2>1 DEF Shape, TypeOK
  <2>3. /\ Active' = Active /\ UNCHANGED <<spent, late, skewed, unlocks, locked, balance>>
        /\ \A c \in Assets : balance'[c] >= balance[c]
    BY <1>0, <1>3 DEF GetBalanceWithBlock, GetBalance, GetBlockNumber, Active, Shape, TypeOK
  <2>4. \A g \in Holders : \A c \in read'[g] :
            \/ /\ c \in read[g]
               /\ seenBalance'[g][c] = seenBalance[g][c] /\ readAt'[g][c] = readAt[g][c]
            \/ seenBalance'[g][c] = balance'[c]
    BY <1>0, <1>3 DEF GetBalanceWithBlock, GetBalance, GetBlockNumber, Shape, TypeOK
  <2>5. Amounts'
    BY <1>0, <2>2, <2>3, <2>4, AmountsSame
  <2> QED
    BY <2>1, <2>5
<1>4. ASSUME NEW h \in Holders, Lock(h)
      PROVE  Shape' /\ Amounts'
  BY <1>0, <1>4, ShapePhase, AmountsLock
<1>5. ASSUME NEW h \in Holders, Refuse(h) \/ Send(h)
      PROVE  Shape' /\ Amounts'
  <2>1. Shape'
    BY <1>0, <1>5, ShapePhase
  <2>2. /\ balance' \in [Assets -> Nat] /\ seenBalance' \in [Holders -> [Assets -> Nat]]
        /\ read' \in [Holders -> SUBSET Assets]
    BY <2>1 DEF Shape, TypeOK
  <2>3. /\ Active' = Active /\ UNCHANGED <<spent, late, skewed, unlocks, locked, balance>>
        /\ \A c \in Assets : balance'[c] >= balance[c]
    BY <1>0, <1>5 DEF Refuse, Send, Active, Shape, TypeOK
  <2>4. \A g \in Holders : \A c \in read'[g] :
            /\ c \in read[g]
            /\ seenBalance'[g][c] = seenBalance[g][c] /\ readAt'[g][c] = readAt[g][c]
    BY <1>5 DEF Refuse, Send, ForgetReads
  <2>5. Amounts'
    BY <1>0, <2>2, <2>3, <2>4, AmountsSame
  <2> QED
    BY <2>1, <2>5
<1>6. ASSUME NEW h \in Holders, Cancel(h)
      PROVE  Shape' /\ Amounts'
  <2>1. PICK ok \in SUBSET Assets : ok = {}
    OBVIOUS
  <2>2. (Release(h, ok, 0) \/ (Cancel(h) /\ ok = {} /\ 0 = 0)) /\ 0 \in Nat
    BY <1>6, <2>1
  <2>3. Shape'
    BY <1>0, <2>2, ShapeUnlock, Zenon
  <2>4. Amounts'
    BY <1>0, <2>2, AmountsUnlock, Zenon
  <2> QED
    BY <2>3, <2>4
<1>7. ASSUME NEW h \in Holders, NEW ok \in SUBSET Assets, NEW b \in 0..block, Release(h, ok, b)
      PROVE  Shape' /\ Amounts'
  <2>1. b \in Nat
    BY <1>0 DEF Shape, TypeOK
  <2> QED
    BY <1>0, <1>7, <2>1, ShapeUnlock, AmountsUnlock, Zenon
<1>8. CASE PruneStart
  <2>1. Shape'
    BY <1>0, <1>8, ShapePrune
  <2>2. /\ balance' \in [Assets -> Nat] /\ seenBalance' \in [Holders -> [Assets -> Nat]]
        /\ read' \in [Holders -> SUBSET Assets]
    BY <2>1 DEF Shape, TypeOK
  <2>3. /\ Active' = Active /\ UNCHANGED <<spent, late, skewed, unlocks, locked, balance, readVars>>
        /\ \A c \in Assets : balance'[c] >= balance[c]
    BY <1>0, <1>8 DEF PruneStart, Active, Shape, TypeOK
  <2>4. Amounts'
    BY <1>0, <2>2, <2>3, AmountsSame
  <2> QED
    BY <2>1, <2>4
<1>9. CASE Prune
  BY <1>0, <1>9, ShapePrune, AmountsPrune
<1>10. CASE Restart
  <2>1. Shape'
    BY <1>0, <1>10, ShapeRestart
  <2>2. /\ balance' \in [Assets -> Nat] /\ seenBalance' \in [Holders -> [Assets -> Nat]]
        /\ read' \in [Holders -> SUBSET Assets]
    BY <2>1 DEF Shape, TypeOK
  <2>3. /\ Active' = Active /\ UNCHANGED <<spent, late, skewed, unlocks, locked, balance>>
        /\ \A c \in Assets : balance'[c] >= balance[c]
    BY <1>0, <1>10 DEF Restart, Active, Shape, TypeOK
  <2>4. \A g \in Holders : read'[g] = {}
    BY <1>10 DEF Restart, ForgetReads
  <2>5. Amounts'
    BY <1>0, <2>2, <2>3, <2>4, AmountsSame
  <2> QED
    BY <2>1, <2>5
<1>11. CASE UNCHANGED vars
  <2>1. Shape'
    BY <1>0, <1>11 DEF vars, Shape, TypeOK, SpentWhenSent, LateWhenReleased, SkewedLocked, RowsEnded, RowsUnique,
           RowsKept, PruneBehind, ReadsFresh, Wanted
  <2>2. Amounts'
    BY <1>0, <1>11 DEF vars, Amounts, LocksAccounted, ReadsBounded, NoOvercommit, Held, HoldersOf,
           Active, LateOf, SkewedOf, Outstanding, LandedAfter
  <2> QED
    BY <2>1, <2>2
<1>12. CASE \E h \in Holders, a \in Assets :
               \/ Land(h, a) \/ LandLate(h, a)
               \/ GetBalanceWithBlock(h, a) \/ GetBalance(h, a) \/ GetBlockNumber(h, a)
  <2>1. PICK h \in Holders, a \in Assets :
             \/ Land(h, a) \/ LandLate(h, a)
             \/ GetBalanceWithBlock(h, a) \/ GetBalance(h, a) \/ GetBlockNumber(h, a)
    BY <1>12, Zenon
  <2> QED
    BY <1>2, <1>3, <2>1, Zenon
<1>13. CASE \E h \in Holders : Lock(h) \/ Refuse(h) \/ Send(h) \/ Cancel(h)
  <2>1. PICK h \in Holders : Lock(h) \/ Refuse(h) \/ Send(h) \/ Cancel(h)
    BY <1>13, Zenon
  <2> QED
    BY <1>4, <1>5, <1>6, <2>1, Zenon
<1>14. CASE \E h \in Holders, ok \in SUBSET Assets, b \in 0..block : Release(h, ok, b)
  BY <1>7, <1>14, Zenon
<1>15. Next \/ UNCHANGED vars
  OBVIOUS
<1> QED
  BY <1>1, <1>8, <1>9, <1>10, <1>11, <1>12, <1>13, <1>14, <1>15, Zenon DEF Next

\* The inductive invariant holds in every state.
THEOREM Inductive ==
  ASSUME Staleness <= PruneMargin
  PROVE  Spec => []IInv
<1>1. IInv /\ [Next]_vars => IInv'
  BY IInvNext
<1> QED
  BY <1>1, IInvInit, PTL DEF Spec

\* locked_liquidity is exactly what the active locks and the rows of
\* pending_unlocks stand for; the floor in prune_unlocked_entries is never used.
THEOREM LocksAreAccounted ==
  ASSUME Staleness <= PruneMargin
  PROVE  Spec => []LocksAccounted
<1>1. IInv => LocksAccounted
  BY DEF IInv
<1> QED
  BY <1>1, Inductive, PTL

\* The funder's balance covers every lock that try_lock_liquidity_with gives out,
\* but for spending that was reported as failed and for pulls of gas whose block
\* number is newer than their balance.
THEOREM NeverOvercommitted ==
  ASSUME Staleness <= PruneMargin
  PROVE  Spec => []NoOvercommit
<1>1. IInv => NoOvercommit
  BY DEF IInv
<1> QED
  BY <1>1, Inductive, PTL

\* Together: the totals are exact and every lock they allow can be paid.
THEOREM LocksAreCovered ==
  ASSUME Staleness <= PruneMargin
  PROVE  Spec => []LocksCovered
<1>1. IInv => LocksCovered
  BY DEF IInv, LocksCovered
<1> QED
  BY <1>1, Inductive, PTL

\* Pruning takes only rows that every reading already counts, so it takes the
\* same amount from both sides of the comparison.
LEMMA PruneNeutral ==
  ASSUME Staleness <= PruneMargin, IInv, Prune, NEW h \in Holders, NEW a \in read[h] \cap dated[h]
  PROVE  Enough(h, a)' <=> Enough(h, a)
<1> DEFINE b == seenBlock[h][a]
           G == HoldersOf(Gone, a)
           U == HoldersOf(UnlockedAt(a, b), a)
           V == HoldersOf({r \in unlocks \ Gone : r.asset = a /\ r.block <= b}, a)
<1>1. /\ unlocks' = unlocks \ Gone /\ pruneUntil \in Nat
      /\ UNCHANGED <<seenBalance, seenBlock, Need>>
  BY DEF Prune, Gone, IInv, Shape, TypeOK
<1>2. /\ a \in Assets /\ b \in Nat /\ block \in Nat /\ block - b <= Staleness
      /\ seenBalance[h][a] \in Nat /\ locked[a] \in Nat
  BY DEF IInv, Shape, TypeOK, ReadsFresh
<1>3. pruneUntil <= b
  <2>1. CASE pruneUntil > 0
    BY <2>1, <1>1, <1>2, BoundAssumption DEF IInv, Shape, PruneBehind
  <2>2. CASE pruneUntil = 0
    BY <2>2, <1>2
  <2> QED
    BY <1>1, <2>1, <2>2
<1>4. U = V \cup G /\ U \in SUBSET Holders /\ V \in SUBSET Holders /\ G \in SUBSET Holders
  <2>1. \A r \in unlocks : r.block \in Nat
    BY DEF IInv, Shape, TypeOK, Row
  <2>2. \A r \in Gone : r \in unlocks /\ r.block <= b
    BY <1>1, <1>2, <1>3, <2>1 DEF Gone
  <2> QED
    BY <2>2 DEF HoldersOf, UnlockedAt
<1>5. V \cap G = {}
  <2>1. HoldersOf(unlocks \ Gone, a) \cap G = {}
    BY <1>2, PruneSplits DEF IInv
  <2> QED
    BY <2>1 DEF HoldersOf
<1>6. HoldersOf(UnlockedAt(a, seenBlock[h][a]), a)' = V
  BY <1>1 DEF HoldersOf, UnlockedAt
<1>7. locked'[a] = Floored(locked[a] - Sum(G, a))
  BY <1>2 DEF Prune, Gone
<1>8. G \in SUBSET Held(a) /\ Held(a) \in SUBSET Holders
  BY DEF Held, HoldersOf, Active, Gone
<1>9. Enough(h, a) <=> seenBalance[h][a] + Sum(U, a) >= locked[a] + Need[h][a]
  BY DEF Enough
<1>10. Enough(h, a)' <=> seenBalance[h][a] + Sum(V, a) >= locked'[a] + Need[h][a]
  BY <1>1, <1>6 DEF Enough
<1> HIDE DEF b, G, U, V
<1>11. Sum(V \cup G, a) = Sum(V, a) + Sum(G, a)
  BY <1>2, <1>4, <1>5, SumUnion, Zenon
<1>12. Sum(V, a) \in Nat /\ Sum(G, a) \in Nat
  BY <1>2, <1>4, SumType, Zenon
<1>13. Sum(G, a) <= Sum(Held(a), a)
  BY <1>2, <1>8, SumMono, Zenon
<1>14. Sum(Held(a), a) = locked[a]
  BY <1>2 DEF IInv, LocksAccounted
<1>15. locked'[a] = locked[a] - Sum(G, a)
  BY <1>2, <1>7, <1>12, <1>13, <1>14 DEF Floored
<1>16. Need[h][a] \in Nat
  <2>1. Need[h][a] \in 0..MaxNeed
    BY <1>2, NeedAssumption
  <2> QED
    BY <2>1, NeedAssumption
<1> QED
  BY <1>2, <1>4, <1>9, <1>10, <1>11, <1>12, <1>15, <1>16

\* prune_unlocked_entries never changes the answer to a lock in preparation.
THEOREM PruningIsNeutral ==
  ASSUME Staleness <= PruneMargin
  PROVE  Spec => PruneChangesNoDecision
<1>1. IInv /\ [Next]_vars =>
        [Prune => \A h \in Holders : \A a \in read[h] \cap dated[h] :
                    Enough(h, a)' <=> Enough(h, a)]_vars
  BY PruneNeutral
<1> QED
  BY <1>1, Inductive, PTL DEF Spec, PruneChangesNoDecision

(***************************************************************************)
(* Storage: what an operation writes and leaves alone                      *)
(***************************************************************************)

\* What an operation leaves alone.
KeptPg(S) == DOMAIN pg' = PgTables /\ \A k \in PgTables \ S : pg'[k] = pg[k]
KeptMem(S) == DOMAIN mem' = MemTables /\ \A k \in MemTables \ S : mem'[k] = mem[k]
Ticks == clock' \in {clock, clock + 1}

\* An operation disturbs only what is about the tables that it writes.
LEMMA TypesStay ==
  ASSUME StorageIInv, NEW S, NEW M, KeptPg(S), KeptMem(M), Ticks,
         {"pending", "links", "refunds", "bundles", "finished"} \cap S = {}
  PROVE  StorageTypeOK'
<1>1. /\ pg'.pending = pg.pending /\ pg'.links = pg.links /\ pg'.refunds = pg.refunds
      /\ pg'.bundles = pg.bundles /\ pg'.finished = pg.finished
  BY DEF KeptPg, PgTables, Tables
<1>2. DOMAIN pg' = PgTables /\ DOMAIN mem' = MemTables  BY DEF KeptPg, KeptMem
<1>3. clock' \in Nat  BY DEF Ticks, StorageIInv, StorageTypeOK
<1> QED  BY <1>1, <1>2, <1>3 DEF StorageIInv, StorageTypeOK

LEMMA TablesStay ==
  ASSUME StorageIInv, NEW S, NEW M, KeptPg(S), KeptMem(M),
         {"queued", "pending", "diffs", "refunds", "pulls", "accounts", "precalls"} \cap (S \cup M) = {}
  PROVE  TablesEqual'
<1>1. /\ pg'.queued = pg.queued /\ pg'.pending = pg.pending /\ pg'.diffs = pg.diffs
      /\ pg'.refunds = pg.refunds /\ pg'.pulls = pg.pulls /\ pg'.accounts = pg.accounts /\ pg'.precalls = pg.precalls
  BY DEF KeptPg, PgTables, Tables
<1>2. /\ mem'.queued = mem.queued /\ mem'.pending = mem.pending /\ mem'.diffs = mem.diffs
      /\ mem'.refunds = mem.refunds /\ mem'.pulls = mem.pulls /\ mem'.accounts = mem.accounts
      /\ mem'.precalls = mem.precalls
  BY DEF KeptMem, MemTables, Tables
<1> QED  BY <1>1, <1>2 DEF StorageIInv, TablesEqual

LEMMA LinksStay ==
  ASSUME StorageIInv, NEW S, NEW M, KeptPg(S), KeptMem(M), "links" \notin S \cup M
  PROVE  LinksFollow'
<1>1. pg'.links = pg.links /\ mem'.links = mem.links  BY DEF KeptPg, KeptMem, PgTables, MemTables, Tables
<1> QED  BY <1>1 DEF StorageIInv, LinksFollow, PgGetBundleTxs

LEMMA StatusesStay ==
  ASSUME StorageIInv, NEW S, NEW M, KeptPg(S), KeptMem(M), Ticks, "txs" \notin S, {"statuses", "byAddress"} \cap M = {}
  PROVE  StatusesFollow'
<1>1. pg'.txs = pg.txs  BY DEF KeptPg, PgTables
<1>2. mem'.statuses = mem.statuses /\ mem'.byAddress = mem.byAddress  BY DEF KeptMem, MemTables
<1>3. \A n \in 0..clock : n \in 0..clock'  BY DEF Ticks, StorageIInv, StorageTypeOK
<1>4. \A row, s : StatusRow(row, s) => StatusRow(row, s)'  BY <1>3 DEF StatusRow
<1> QED  BY <1>1, <1>2, <1>4 DEF StorageIInv, StatusesFollow

LEMMA BundlesStay ==
  ASSUME StorageIInv, NEW S, NEW M, KeptPg(S), KeptMem(M), Ticks, {"bundles", "finished"} \cap (S \cup M) = {}
  PROVE  BundlesFollow'
<1>1. pg'.bundles = pg.bundles /\ pg'.finished = pg.finished  BY DEF KeptPg, PgTables, Tables
<1>2. mem'.bundles = mem.bundles /\ mem'.finished = mem.finished  BY DEF KeptMem, MemTables, Tables
<1>3. \A n \in 0..clock : n \in 0..clock'  BY DEF Ticks, StorageIInv, StorageTypeOK
<1> QED  BY <1>1, <1>2, <1>3 DEF StorageIInv, BundlesFollow

LEMMA TransfersStay ==
  ASSUME StorageIInv, NEW S, NEW M, KeptPg(S), KeptMem(M), "transfers" \notin S \cup M
  PROVE  TransfersFollow'
<1>1. pg'.transfers = pg.transfers  BY DEF KeptPg, PgTables, Tables
<1>2. mem'.transfers = mem.transfers  BY DEF KeptMem, MemTables, Tables
<1> QED  BY <1>1, <1>2 DEF StorageIInv, TransfersFollow, PgGetTransferState, MemGetTransferState

(***************************************************************************)
(* Transactions                                                            *)
(***************************************************************************)

LEMMA StatusAdded ==
  ASSUME StorageIInv, Ticks, NEW t, NEW keep, t \in Single => keep,
         pg'.txs = Put(pg.txs, t, [status |-> "inflight", hash |-> None, receipt |-> None,
                                   error |-> None, data |-> keep, received |-> clock]),
         mem'.statuses = Put(mem.statuses, t, InFlight), mem'.byAddress = Put(mem.byAddress, t, clock)
  PROVE  StatusesFollow'
<1> PICK row : row = [status |-> "inflight", hash |-> None, receipt |-> None,
                      error |-> None, data |-> keep, received |-> clock]
  OBVIOUS
<1> PICK old, new : old = pg.txs /\ new = pg'.txs  OBVIOUS
<1>1. DOMAIN new = DOMAIN old \cup {t} /\ new[t] = row /\ \A u \in DOMAIN old : u # t => new[u] = old[u]
  <2>1. new = Put(old, t, row)  OBVIOUS
  <2> QED  BY <2>1 DEF Put
<1> PICK is, now : is = mem.statuses /\ now = mem'.statuses  OBVIOUS
<1>2. DOMAIN now = DOMAIN is \cup {t} /\ now[t] = InFlight /\ \A u \in DOMAIN is : u # t => now[u] = is[u]
  <2>1. now = Put(is, t, InFlight)  OBVIOUS
  <2> QED  BY <2>1 DEF Put
<1>3. DOMAIN mem'.byAddress = DOMAIN mem.byAddress \cup {t}
  <2> PICK f, g : f = mem.byAddress /\ g = mem'.byAddress  OBVIOUS
  <2>1. g = Put(f, t, clock)  OBVIOUS
  <2>2. DOMAIN g = DOMAIN f \cup {t}  BY <2>1 DEF Put
  <2> QED  BY <2>2
<1>4. \A n \in 0..clock : n \in 0..clock'  BY DEF Ticks, StorageIInv, StorageTypeOK
<1>5. \A r, s : StatusRow(r, s) => StatusRow(r, s)'  BY <1>4 DEF StatusRow
<1>6. StatusRow(row, InFlight)'
  <2>1. clock \in 0..clock'  BY <1>4 DEF StorageIInv, StorageTypeOK
  <2>2. row.status = "inflight" /\ row.received = clock  OBVIOUS
  <2>3. DOMAIN row = {"status", "hash", "receipt", "error", "data", "received"}  OBVIOUS
  <2>4. ParseStatus(row) = InFlight /\ ~Panics(row)  BY <2>2 DEF ParseStatus, Panics
  <2> QED  BY <2>1, <2>2, <2>3, <2>4 DEF StatusRow
<1>7. row.data = keep  OBVIOUS
<1>8. \A u \in DOMAIN new : StatusRow(new[u], now[u])' /\ (u \in Single => new[u].data)
  <2>1. DOMAIN old = DOMAIN is /\ \A u \in DOMAIN old : StatusRow(old[u], is[u]) /\ (u \in Single => old[u].data)
    BY DEF StorageIInv, StatusesFollow
  <2> TAKE u \in DOMAIN new
  <2>2. CASE u = t  BY <1>1, <1>2, <1>6, <1>7, <2>2
  <2>3. CASE u # t
    <3>1. u \in DOMAIN old /\ new[u] = old[u] /\ now[u] = is[u]  BY <1>1, <1>2, <2>1, <2>3
    <3>2. StatusRow(old[u], is[u])' /\ (u \in Single => old[u].data)  BY <1>5, <2>1, <3>1
    <3> QED  BY <3>1, <3>2
  <2> QED  BY <2>2, <2>3
<1>9. DOMAIN new = DOMAIN now /\ DOMAIN new = DOMAIN mem'.byAddress
  BY <1>1, <1>2, <1>3 DEF StorageIInv, StatusesFollow
<1> QED  BY <1>8, <1>9 DEF StatusesFollow

LEMMA QueueTransactionKeeps ==
  ASSUME StorageIInv, NEW t, QueueTransaction(t)
  PROVE  StorageIInv'
<1>1. DOMAIN pg = PgTables /\ DOMAIN mem = MemTables  BY DEF StorageIInv, StorageTypeOK
<1>2. ~Has(pg.txs, t) /\ pg' = PgQueueTransaction(pg, t, TRUE) /\ mem' = MemQueueTransaction(mem, t)
      /\ clock' \in {clock, clock + 1}
  BY DEF QueueTransaction, Stamped
<1>3. /\ pg'.txs = Put(pg.txs, t, [status |-> "inflight", hash |-> None, receipt |-> None,
                                        error |-> None, data |-> TRUE, received |-> clock])
      /\ mem'.statuses = Put(mem.statuses, t, InFlight) /\ mem'.byAddress = Put(mem.byAddress, t, clock)
      /\ pg'.queued = Append(pg.queued, t) /\ mem'.queued = Append(mem.queued, t)
      /\ KeptPg({"txs", "queued"}) /\ KeptMem({"statuses", "queued", "byAddress"})
  BY <1>1, <1>2 DEF PgQueueTransaction, MemQueueTransaction, KeptPg, KeptMem, PgTables, MemTables, Tables
<1>4. Ticks  BY <1>2 DEF Ticks
<1>5. StorageTypeOK'  BY <1>3, <1>4, TypesStay, Zenon
<1>6. TablesEqual'
  BY <1>3 DEF StorageIInv, TablesEqual, KeptPg, KeptMem, PgTables, MemTables, Tables
<1>7. StatusesFollow'
  BY <1>3, <1>4, StatusAdded
<1>8. BundlesFollow'  BY <1>3, <1>4, BundlesStay, Zenon
<1>9. TransfersFollow'  BY <1>3, <1>4, TransfersStay, Zenon
<1>10. LinksFollow'  BY <1>3, LinksStay, Zenon
<1> QED  BY <1>5, <1>6, <1>7, <1>8, <1>9, <1>10 DEF StorageIInv

LEMMA ReplaceQueuedKeeps ==
  ASSUME StorageIInv, NEW t, ReplaceQueuedWithPending(t)
  PROVE  StorageIInv'
<1>1. DOMAIN pg = PgTables /\ DOMAIN mem = MemTables  BY DEF StorageIInv, StorageTypeOK
<1>2. pg' = PgReplaceQueued(pg, t) /\ mem' = MemReplaceQueued(mem, t) /\ clock' = clock
  BY DEF ReplaceQueuedWithPending, Write
<1>3. /\ pg'.queued = Without(pg.queued, t) /\ mem'.queued = Without(mem.queued, t)
      /\ pg'.pending = Put(pg.pending, t, 1) /\ mem'.pending = Put(mem.pending, t, 1)
      /\ KeptPg({"queued", "pending"}) /\ KeptMem({"queued", "pending"})
  BY <1>1, <1>2 DEF PgReplaceQueued, MemReplaceQueued, KeptPg, KeptMem, PgTables, MemTables, Tables
<1>4. Ticks  BY <1>2 DEF Ticks
<1>5. StorageTypeOK'
  <2>1. pg'.pending \in [DOMAIN pg'.pending -> Nat]  BY <1>3 DEF StorageIInv, StorageTypeOK, Put
  <2>2. /\ pg'.links = pg.links /\ pg'.refunds = pg.refunds /\ pg'.bundles = pg.bundles /\ pg'.finished = pg.finished
        /\ DOMAIN pg' = PgTables /\ DOMAIN mem' = MemTables
    BY <1>3 DEF KeptPg, KeptMem, PgTables, Tables
  <2> QED  BY <1>2, <2>1, <2>2 DEF StorageIInv, StorageTypeOK
<1>6. TablesEqual'
  BY <1>3 DEF StorageIInv, TablesEqual, KeptPg, KeptMem, PgTables, MemTables, Tables
<1>7. StatusesFollow'  BY <1>3, <1>4, StatusesStay, Zenon
<1>8. BundlesFollow'  BY <1>3, <1>4, BundlesStay, Zenon
<1>9. TransfersFollow'  BY <1>3, <1>4, TransfersStay, Zenon
<1>10. LinksFollow'  BY <1>3, LinksStay, Zenon
<1> QED  BY <1>5, <1>6, <1>7, <1>8, <1>9, <1>10 DEF StorageIInv

LEMMA RemoveQueuedKeeps ==
  ASSUME StorageIInv, NEW t, RemoveQueued(t)
  PROVE  StorageIInv'
<1>1. DOMAIN pg = PgTables /\ DOMAIN mem = MemTables  BY DEF StorageIInv, StorageTypeOK
<1>2. pg' = PgRemoveQueued(pg, t) /\ mem' = MemRemoveQueued(mem, t) /\ clock' = clock
  BY DEF RemoveQueued, Write
<1>3. pg'.queued = Without(pg.queued, t) /\ mem'.queued = Without(mem.queued, t)
      /\ KeptPg({"queued"}) /\ KeptMem({"queued"})
  BY <1>1, <1>2 DEF PgRemoveQueued, MemRemoveQueued, KeptPg, KeptMem, PgTables, MemTables, Tables
<1>4. Ticks  BY <1>2 DEF Ticks
<1>5. StorageTypeOK'  BY <1>3, <1>4, TypesStay, Zenon
<1>6. TablesEqual'
  BY <1>3 DEF StorageIInv, TablesEqual, KeptPg, KeptMem, PgTables, MemTables, Tables
<1>7. StatusesFollow'  BY <1>3, <1>4, StatusesStay, Zenon
<1>8. BundlesFollow'  BY <1>3, <1>4, BundlesStay, Zenon
<1>9. TransfersFollow'  BY <1>3, <1>4, TransfersStay, Zenon
<1>10. LinksFollow'  BY <1>3, LinksStay, Zenon
<1> QED  BY <1>5, <1>6, <1>7, <1>8, <1>9, <1>10 DEF StorageIInv

LEMMA AddEnvelopeKeeps ==
  ASSUME StorageIInv, NEW t, AddPendingEnvelope(t)
  PROVE  StorageIInv'
<1>1. DOMAIN pg = PgTables /\ DOMAIN mem = MemTables  BY DEF StorageIInv, StorageTypeOK
<1>2. pg' = PgAddEnvelope(pg, t) /\ mem' = MemAddEnvelope(mem, t) /\ clock' = clock
  BY DEF AddPendingEnvelope, Write
<1>3. /\ pg'.pending = [u \in DOMAIN pg.pending |-> pg.pending[u] + (IF u = t THEN 1 ELSE 0)]
      /\ mem'.pending = (IF t \in DOMAIN mem.pending THEN [mem.pending EXCEPT ![t] = @ + 1] ELSE mem.pending)
      /\ KeptPg({"pending"}) /\ KeptMem({"pending"})
  BY <1>1, <1>2 DEF PgAddEnvelope, MemAddEnvelope, Has, KeptPg, KeptMem, PgTables, MemTables, Tables
<1>4. Ticks  BY <1>2 DEF Ticks
<1>5. StorageTypeOK'
  <2>1. pg'.pending \in [DOMAIN pg'.pending -> Nat]  BY <1>3 DEF StorageIInv, StorageTypeOK
  <2>2. /\ pg'.links = pg.links /\ pg'.refunds = pg.refunds /\ pg'.bundles = pg.bundles /\ pg'.finished = pg.finished
        /\ DOMAIN pg' = PgTables /\ DOMAIN mem' = MemTables
    BY <1>3 DEF KeptPg, KeptMem, PgTables, Tables
  <2> QED  BY <1>2, <2>1, <2>2 DEF StorageIInv, StorageTypeOK
<1>6. TablesEqual'
  <2>1. pg'.pending = mem'.pending
    <3>1. pg.pending = mem.pending /\ pg.pending \in [DOMAIN pg.pending -> Nat]  BY DEF StorageIInv,
        StorageTypeOK, TablesEqual
    <3> PICK p, q, r : p = pg.pending /\ q = pg'.pending /\ r = mem'.pending  OBVIOUS
    <3>2. q = [u \in DOMAIN p |-> p[u] + (IF u = t THEN 1 ELSE 0)]  BY <1>3
    <3>3. r = IF t \in DOMAIN p THEN [p EXCEPT ![t] = @ + 1] ELSE p  BY <1>3, <3>1
    <3>4. DOMAIN q = DOMAIN p /\ DOMAIN r = DOMAIN p /\ \A u \in DOMAIN p : q[u] = r[u]  BY <3>1, <3>2, <3>3
    <3>5. q = [u \in DOMAIN p |-> q[u]] /\ r = [u \in DOMAIN p |-> r[u]]  BY <3>1, <3>2, <3>3
    <3> QED  BY <3>4, <3>5
  <2>2. /\ pg'.queued = pg.queued /\ pg'.links = pg.links /\ pg'.diffs = pg.diffs
        /\ pg'.refunds = pg.refunds /\ pg'.pulls = pg.pulls /\ pg'.accounts = pg.accounts /\ pg'.precalls = pg.precalls
    BY <1>3 DEF KeptPg, PgTables, Tables
  <2>3. /\ mem'.queued = mem.queued /\ mem'.links = mem.links /\ mem'.diffs = mem.diffs /\ mem'.refunds = mem.refunds
        /\ mem'.pulls = mem.pulls /\ mem'.accounts = mem.accounts /\ mem'.precalls = mem.precalls
    BY <1>3 DEF KeptMem, MemTables, Tables
  <2> QED  BY <2>1, <2>2, <2>3 DEF StorageIInv, TablesEqual
<1>7. StatusesFollow'  BY <1>3, <1>4, StatusesStay, Zenon
<1>8. BundlesFollow'  BY <1>3, <1>4, BundlesStay, Zenon
<1>9. TransfersFollow'  BY <1>3, <1>4, TransfersStay, Zenon
<1>10. LinksFollow'  BY <1>3, LinksStay, Zenon
<1> QED  BY <1>5, <1>6, <1>7, <1>8, <1>9, <1>10 DEF StorageIInv

LEMMA RemovePendingKeeps ==
  ASSUME StorageIInv, NEW t, RemovePending(t)
  PROVE  StorageIInv'
<1>1. DOMAIN pg = PgTables /\ DOMAIN mem = MemTables  BY DEF StorageIInv, StorageTypeOK
<1>2. pg' = PgRemovePending(pg, t) /\ mem' = MemRemovePending(mem, t) /\ clock' = clock
  BY DEF RemovePending, Write
<1>3. pg'.pending = Drop(pg.pending, t) /\ mem'.pending = Drop(mem.pending, t)
      /\ KeptPg({"pending"}) /\ KeptMem({"pending"})
  BY <1>1, <1>2 DEF PgRemovePending, MemRemovePending, KeptPg, KeptMem, PgTables, MemTables, Tables
<1>4. Ticks  BY <1>2 DEF Ticks
<1>5. StorageTypeOK'
  <2>1. pg'.pending \in [DOMAIN pg'.pending -> Nat]  BY <1>3 DEF StorageIInv, StorageTypeOK, Drop, Restrict
  <2>2. /\ pg'.links = pg.links /\ pg'.refunds = pg.refunds /\ pg'.bundles = pg.bundles /\ pg'.finished = pg.finished
        /\ DOMAIN pg' = PgTables /\ DOMAIN mem' = MemTables
    BY <1>3 DEF KeptPg, KeptMem, PgTables, Tables
  <2> QED  BY <1>2, <2>1, <2>2 DEF StorageIInv, StorageTypeOK
<1>6. TablesEqual'
  BY <1>3 DEF StorageIInv, TablesEqual, KeptPg, KeptMem, PgTables, MemTables, Tables
<1>7. StatusesFollow'  BY <1>3, <1>4, StatusesStay, Zenon
<1>8. BundlesFollow'  BY <1>3, <1>4, BundlesStay, Zenon
<1>9. TransfersFollow'  BY <1>3, <1>4, TransfersStay, Zenon
<1>10. LinksFollow'  BY <1>3, LinksStay, Zenon
<1> QED  BY <1>5, <1>6, <1>7, <1>8, <1>9, <1>10 DEF StorageIInv

LEMMA StoreDiffsKeeps ==
  ASSUME StorageIInv, NEW t, StoreAssetDiffs(t)
  PROVE  StorageIInv'
<1>1. DOMAIN pg = PgTables /\ DOMAIN mem = MemTables  BY DEF StorageIInv, StorageTypeOK
<1>2. PgReadStatus(pg, t).kind = "confirmed" /\ pg' = PgStoreDiffs(pg, t) /\ mem' = MemStoreDiffs(mem, t) 
      /\ clock' = clock
  BY DEF StoreAssetDiffs, Write
<1>3. pg'.diffs = pg.diffs \cup {t} /\ mem'.diffs = mem.diffs \cup {t} /\ KeptPg({"diffs"}) /\ KeptMem({"diffs"})
  BY <1>1, <1>2 DEF PgStoreDiffs, MemStoreDiffs, PgReadStatus, NotFound, InFlight, KeptPg, KeptMem, PgTables,
                    MemTables, Tables
<1>4. Ticks  BY <1>2 DEF Ticks
<1>5. StorageTypeOK'  BY <1>3, <1>4, TypesStay, Zenon
<1>6. TablesEqual'
  BY <1>3 DEF StorageIInv, TablesEqual, KeptPg, KeptMem, PgTables, MemTables, Tables
<1>7. StatusesFollow'  BY <1>3, <1>4, StatusesStay, Zenon
<1>8. BundlesFollow'  BY <1>3, <1>4, BundlesStay, Zenon
<1>9. TransfersFollow'  BY <1>3, <1>4, TransfersStay, Zenon
<1>10. LinksFollow'  BY <1>3, LinksStay, Zenon
<1> QED  BY <1>5, <1>6, <1>7, <1>8, <1>9, <1>10 DEF StorageIInv

\* What a vector is with one more element.
IsGrown(r, q, t, N) == r \in Seq(N) /\ Len(r) > 0 /\ Range(r) = Range(q) \cup {t}

LEMMA Appended ==
  ASSUME NEW N, NEW q \in Seq(N), NEW t \in N
  PROVE  IsGrown(Append(q, t), q, t, N)
<1> PICK n, r : n = Len(q) /\ r = Append(q, t)  OBVIOUS
<1>1. r \in Seq(N) /\ Len(r) = n + 1 /\ n \in Nat  OBVIOUS
<1>2. DOMAIN r = 1..(n + 1) /\ DOMAIN q = 1..n  BY <1>1
<1>3. r[n + 1] = t /\ \A i \in 1..n : r[i] = q[i]  BY <1>1
<1>4. \A i \in 1..(n + 1) : i \in 1..n \/ i = n + 1  BY <1>1
<1>5. \A i \in 1..n : i \in 1..(n + 1)  BY <1>1
<1>6. n + 1 \in 1..(n + 1)  BY <1>1
<1>7. Range(r) = Range(q) \cup {t}  BY <1>2, <1>3, <1>4, <1>5, <1>6 DEF Range
<1>8. IsGrown(r, q, t, N)  BY <1>1, <1>7 DEF IsGrown
<1> QED  BY <1>8

LEMMA AddBundleTxKeeps ==
  ASSUME StorageIInv, NEW t \in Single, AddBundleTx(t)
  PROVE  StorageIInv'
<1>1. DOMAIN pg = PgTables /\ DOMAIN mem = MemTables  BY DEF StorageIInv, StorageTypeOK
<1>2. pg' = PgAddBundleTx(pg, t) /\ mem' = MemAddBundleTx(mem, t) /\ clock' = clock
  BY DEF AddBundleTx, Write
<1> PICK b, old : b = BundleOf[t] /\ old = IF b \in DOMAIN mem.links THEN mem.links[b] ELSE <<>>  OBVIOUS
<1>3. pg'.links = pg.links \cup {t} /\ mem'.links = Put(mem.links, b, Append(old, t))
      /\ KeptPg({"links"}) /\ KeptMem({"links"})
  BY <1>1, <1>2 DEF PgAddBundleTx, MemAddBundleTx, Has, KeptPg, KeptMem, PgTables, MemTables, Tables
<1>4. Ticks  BY <1>2 DEF Ticks
<1>5. StorageTypeOK'
  <2>1. IsFiniteSet(pg'.links)
    <3>1. IsFiniteSet(pg.links)  BY DEF StorageIInv, StorageTypeOK
    <3>2. IsFiniteSet(pg.links \cup {t})  BY <3>1, FS_AddElement, Zenon
    <3> QED  BY <1>3, <3>2
  <2>2. pg'.links \subseteq Single  BY <1>3 DEF StorageIInv, StorageTypeOK
  <2>3. /\ pg'.pending = pg.pending /\ pg'.refunds = pg.refunds /\ pg'.bundles = pg.bundles /\ pg'.finished = pg.finished
        /\ DOMAIN pg' = PgTables /\ DOMAIN mem' = MemTables
    BY <1>3 DEF KeptPg, KeptMem, PgTables, Tables
  <2> QED  BY <1>2, <2>1, <2>2, <2>3 DEF StorageIInv, StorageTypeOK
<1>6. TablesEqual'  BY <1>3, <1>4, TablesStay, Zenon
<1>7. StatusesFollow'  BY <1>3, <1>4, StatusesStay, Zenon
<1>8. BundlesFollow'  BY <1>3, <1>4, BundlesStay, Zenon
<1>9. TransfersFollow'  BY <1>3, <1>4, TransfersStay, Zenon
<1>10. LinksFollow'
  <2> PICK L, N, f, g, new : L = pg.links /\ N = pg'.links /\ f = mem.links /\ g = mem'.links /\ new = Append(old, t)
    OBVIOUS
  <2>1. /\ DOMAIN f = {BundleOf[u] : u \in L}
        /\ \A c \in DOMAIN f : f[c] \in Seq(L) /\ Len(f[c]) > 0 /\ Range(f[c]) = {u \in L : BundleOf[u] = c}
    BY DEF StorageIInv, LinksFollow, PgGetBundleTxs
  <2>2. N = L \cup {t} /\ g = Put(f, b, new)  BY <1>3
  <2>3. DOMAIN g = DOMAIN f \cup {b} /\ g[b] = new /\ \A c \in DOMAIN f : c # b => g[c] = f[c]  BY <2>2 DEF Put
  <2>4. old \in Seq(L) /\ Range(old) = {u \in L : BundleOf[u] = b}
    <3>1. CASE b \in DOMAIN f  BY <2>1, <3>1
    <3>2. CASE b \notin DOMAIN f  BY <2>1, <3>2 DEF Range
    <3> QED  BY <3>1, <3>2
  <2>5. new \in Seq(N) /\ Len(new) > 0 /\ Range(new) = {u \in N : BundleOf[u] = b}
    <3>1. old \in Seq(N) /\ t \in N  BY <2>2, <2>4
    <3>2. new \in Seq(N) /\ Len(new) > 0 /\ Range(new) = Range(old) \cup {t}
      <4>1. IsGrown(Append(old, t), old, t, N)  BY <3>1, Appended
      <4>2. IsGrown(new, old, t, N)  BY <4>1
      <4> QED  BY <4>2 DEF IsGrown
    <3> QED  BY <2>2, <2>4, <3>2
  <2>6. ASSUME NEW c \in DOMAIN g
        PROVE  g[c] \in Seq(N) /\ Len(g[c]) > 0 /\ Range(g[c]) = {u \in N : BundleOf[u] = c}
    <3>1. CASE c = b  BY <2>3, <2>5, <3>1
    <3>2. CASE c # b
      <4>1. c \in DOMAIN f /\ g[c] = f[c]  BY <2>3, <3>2
      <4>2. f[c] \in Seq(N)  BY <2>1, <2>2, <4>1
      <4>3. {u \in N : BundleOf[u] = c} = {u \in L : BundleOf[u] = c}  BY <2>2, <3>2
      <4> QED  BY <2>1, <4>1, <4>2, <4>3
    <3> QED  BY <3>1, <3>2
  <2>7. DOMAIN g = {BundleOf[u] : u \in N}
    <3>1. {BundleOf[u] : u \in N} = {BundleOf[u] : u \in L} \cup {BundleOf[t]}  BY <2>2
    <3> QED  BY <2>1, <2>3, <3>1
  <2> QED  BY <2>6, <2>7 DEF LinksFollow, PgGetBundleTxs
<1> QED  BY <1>5, <1>6, <1>7, <1>8, <1>9, <1>10 DEF StorageIInv

\* What a status that is written has.
StatusShape(s) ==
  \/ s = InFlight
  \/ s = Failed(s.error) /\ s.kind = "failed"
  \/ s = Pending(s.hash) /\ s.kind = "pending" /\ s.hash # None
  \/ s = Confirmed(s.hash) /\ s.kind = "confirmed" /\ s.hash # None

LEMMA StatusShapes ==
  ASSUME NEW s \in Statuses
  PROVE  StatusShape(s)
<1>1. CASE s = InFlight  BY <1>1 DEF StatusShape
<1>2. CASE s = Failed(1)  BY <1>2 DEF StatusShape, Failed, InFlight
<1>3. CASE \E h \in 1..MaxHash : s = Pending(h)
  <2> PICK h \in 1..MaxHash : s = Pending(h)  BY <1>3
  <2>1. h # 0  OBVIOUS
  <2> QED  BY <2>1 DEF StatusShape, Pending, InFlight, None
<1>4. CASE \E h \in 1..MaxHash : s = Confirmed(h)
  <2> PICK h \in 1..MaxHash : s = Confirmed(h)  BY <1>4
  <2>1. h # 0  OBVIOUS
  <2> QED  BY <2>1 DEF StatusShape, Confirmed, InFlight, None
<1> QED  BY <1>1, <1>2, <1>3, <1>4 DEF Statuses

LEMMA WriteStatusKeeps ==
  ASSUME StorageIInv, NEW t, NEW s \in Statuses, WriteStatus(t, s)
  PROVE  StorageIInv'
<1>1. DOMAIN pg = PgTables /\ DOMAIN mem = MemTables  BY DEF StorageIInv, StorageTypeOK
<1>2. pg' = PgWriteStatus(pg, t, s) /\ mem' = MemWriteStatus(mem, t, s) /\ clock' = clock
  BY DEF WriteStatus, Write
<1>3. /\ pg'.txs = (IF t \notin DOMAIN pg.txs THEN pg.txs ELSE
                    [pg.txs EXCEPT ![t] =
                       [pg.txs[t] EXCEPT !.status = s.kind,
                                         !.error = IF s.kind = "failed" THEN s.error ELSE @,
                                         !.hash = IF s.kind \in {"pending", "confirmed"} THEN s.hash ELSE @,
                                         !.receipt = IF s.kind = "confirmed" THEN s.hash ELSE @]])
      /\ mem'.statuses = (IF t \in DOMAIN mem.statuses THEN [mem.statuses EXCEPT ![t] = s] ELSE mem.statuses)
      /\ KeptPg({"txs"}) /\ KeptMem({"statuses"})
  BY <1>1, <1>2 DEF PgWriteStatus, MemWriteStatus, Has, KeptPg, KeptMem, PgTables, MemTables, Tables
<1>4. Ticks  BY <1>2 DEF Ticks
<1>5. StorageTypeOK'  BY <1>3, <1>4, TypesStay, Zenon
<1>6. TablesEqual'  BY <1>3, <1>4, TablesStay, Zenon
<1>7. StatusesFollow'
  <2>1. mem'.byAddress = mem.byAddress  BY <1>3 DEF KeptMem, MemTables, Tables
  <2>2. CASE t \notin DOMAIN pg.txs
    <3>1. pg'.txs = pg.txs /\ mem'.statuses = mem.statuses  BY <1>3, <2>2 DEF StorageIInv, StatusesFollow
    <3> QED  BY <1>2, <2>1, <3>1 DEF StorageIInv, StatusesFollow, StatusRow
  <2>3. CASE t \in DOMAIN pg.txs
    <3> PICK row, new : row = pg.txs[t] /\ new = pg'.txs[t]  OBVIOUS
    <3>1. StatusRow(row, mem.statuses[t]) /\ (t \in Single => row.data)  BY <2>3 DEF StorageIInv, StatusesFollow
    <3>2. /\ new = [row EXCEPT !.status = s.kind, !.error = IF s.kind = "failed" THEN s.error ELSE @,
                              !.hash = IF s.kind \in {"pending", "confirmed"} THEN s.hash ELSE @,
                              !.receipt = IF s.kind = "confirmed" THEN s.hash ELSE @]
          /\ DOMAIN pg'.txs = DOMAIN pg.txs /\ \A u \in DOMAIN pg.txs : u # t => pg'.txs[u] = pg.txs[u]
      BY <1>3, <2>3
    <3>3. /\ mem'.statuses[t] = s /\ DOMAIN mem'.statuses = DOMAIN mem.statuses
          /\ \A u \in DOMAIN mem.statuses : u # t => mem'.statuses[u] = mem.statuses[u]
      BY <1>3, <2>3 DEF StorageIInv, StatusesFollow
    <3>4. /\ DOMAIN new = DOMAIN row /\ new.data = row.data /\ new.received = row.received /\ new.status = s.kind
          /\ s.kind = "failed" => new.error = s.error
          /\ s.kind \in {"pending", "confirmed"} => new.hash = s.hash
          /\ s.kind = "confirmed" => new.receipt = s.hash
      BY <3>1, <3>2 DEF StatusRow
    <3>5. StatusRow(new, s)
      <4>1. StatusShape(s)  BY StatusShapes
      <4>2. DOMAIN new = {"status", "hash", "receipt", "error", "data", "received"} /\ new.received \in 0..clock
        BY <3>1, <3>4 DEF StatusRow
      <4>3. CASE s = InFlight
        <5>1. new.status = "inflight"  BY <3>4, <4>3 DEF InFlight
        <5> QED  BY <4>2, <4>3, <5>1 DEF StatusRow, ParseStatus, Panics
      <4>4. CASE s = Failed(s.error) /\ s.kind = "failed"
        <5>1. new.status = "failed" /\ new.error = s.error  BY <3>4, <4>4
        <5> QED  BY <4>2, <4>4, <5>1 DEF StatusRow, ParseStatus, Panics
      <4>5. CASE s = Pending(s.hash) /\ s.kind = "pending" /\ s.hash # None
        <5>1. new.status = "pending" /\ new.hash = s.hash  BY <3>4, <4>5
        <5> QED  BY <4>2, <4>5, <5>1 DEF StatusRow, ParseStatus, Panics
      <4>6. CASE s = Confirmed(s.hash) /\ s.kind = "confirmed" /\ s.hash # None
        <5>1. new.status = "confirmed" /\ new.receipt = s.hash  BY <3>4, <4>6
        <5> QED  BY <4>2, <4>6, <5>1 DEF StatusRow, ParseStatus, Panics
      <4> QED  BY <4>1, <4>3, <4>4, <4>5, <4>6 DEF StatusShape
    <3>6. StatusRow(new, s)'  BY <1>2, <3>5 DEF StatusRow
    <3>7. \A r, x : StatusRow(r, x) => StatusRow(r, x)'  BY <1>2 DEF StatusRow
    <3> PICK f, g, is, now : f = pg.txs /\ g = pg'.txs /\ is = mem.statuses /\ now = mem'.statuses  OBVIOUS
    <3>8. DOMAIN f = DOMAIN is /\ DOMAIN f = DOMAIN mem.byAddress  BY DEF StorageIInv, StatusesFollow
    <3>9. ASSUME NEW u \in DOMAIN g
          PROVE  StatusRow(g[u], now[u])' /\ (u \in Single => g[u].data)
      <4>1. CASE u = t  BY <3>1, <3>3, <3>4, <3>6, <4>1
      <4>2. CASE u # t
        <5>1. u \in DOMAIN f /\ g[u] = f[u] /\ now[u] = is[u]  BY <3>2, <3>3, <3>8, <4>2
        <5>2. StatusRow(f[u], is[u]) /\ (u \in Single => f[u].data)  BY <5>1 DEF StorageIInv, StatusesFollow
        <5> QED  BY <3>7, <5>1, <5>2
      <4> QED  BY <4>1, <4>2
    <3>10. DOMAIN g = DOMAIN now /\ DOMAIN g = DOMAIN mem'.byAddress  BY <2>1, <3>2, <3>3, <3>8
    <3> QED  BY <3>9, <3>10 DEF StatusesFollow
  <2> QED  BY <2>2, <2>3
<1>8. BundlesFollow'  BY <1>3, <1>4, BundlesStay, Zenon
<1>9. TransfersFollow'  BY <1>3, <1>4, TransfersStay, Zenon
<1>10. LinksFollow'  BY <1>3, LinksStay, Zenon
<1> QED  BY <1>5, <1>6, <1>7, <1>8, <1>9, <1>10 DEF StorageIInv

(***************************************************************************)
(* Bundles and refunds                                                     *)
(***************************************************************************)

\* Two tables of bundles, and when they say the same.
SameStatuses(f, g) ==
  /\ DOMAIN f = DOMAIN g
  /\ \A b \in DOMAIN f :
       /\ DOMAIN f[b] = {"status", "created"} /\ DOMAIN g[b] = {"status", "created"}
       /\ f[b].status = g[b].status /\ f[b].created \in 0..clock

LEMMA BundlePut ==
  ASSUME NEW f, NEW g, SameStatuses(f, g), NEW b, NEW status, NEW at, NEW since, at \in 0..clock
  PROVE  SameStatuses(Put(f, b, [status |-> status, created |-> at]), Put(g, b, [status |-> status, created |-> since]))
<1> PICK x, y : x = [status |-> status, created |-> at] /\ y = [status |-> status, created |-> since]  OBVIOUS
<1> PICK p, q : p = Put(f, b, x) /\ q = Put(g, b, y)  OBVIOUS
<1>1. DOMAIN p = DOMAIN f \cup {b} /\ p[b] = x /\ \A c \in DOMAIN f : c # b => p[c] = f[c]  BY DEF Put
<1>2. DOMAIN q = DOMAIN g \cup {b} /\ q[b] = y /\ \A c \in DOMAIN g : c # b => q[c] = g[c]  BY DEF Put
<1>3. /\ DOMAIN x = {"status", "created"} /\ DOMAIN y = {"status", "created"}
      /\ x.status = y.status /\ x.created \in 0..clock
  OBVIOUS
<1>4. SameStatuses(p, q)  BY <1>1, <1>2, <1>3 DEF SameStatuses
<1> QED  BY <1>4

LEMMA StatusSet ==
  ASSUME NEW f, NEW g, SameStatuses(f, g), NEW b \in DOMAIN f, NEW status
  PROVE  /\ SameStatuses([f EXCEPT ![b] = [@ EXCEPT !.status = status]], [g EXCEPT ![b] = [@ EXCEPT !.status = status]])
         /\ DOMAIN [f EXCEPT ![b] = [@ EXCEPT !.status = status]] = DOMAIN f
<1> PICK p, q : p = [f EXCEPT ![b] = [@ EXCEPT !.status = status]]
/\ q = [g EXCEPT ![b] = [@ EXCEPT !.status = status]]
  OBVIOUS
<1>1. DOMAIN f = DOMAIN g /\ DOMAIN p = DOMAIN f /\ DOMAIN q = DOMAIN g  BY DEF SameStatuses
<1>2. \A c \in DOMAIN f : c # b => p[c] = f[c] /\ q[c] = g[c]  BY <1>1
<1>3. p[b] = [f[b] EXCEPT !.status = status] /\ q[b] = [g[b] EXCEPT !.status = status]  BY <1>1
<1>4. /\ DOMAIN f[b] = {"status", "created"} /\ DOMAIN g[b] = {"status", "created"}
      /\ f[b].status = g[b].status /\ f[b].created \in 0..clock
  BY DEF SameStatuses
<1>5. /\ DOMAIN p[b] = {"status", "created"} /\ DOMAIN q[b] = {"status", "created"}
      /\ p[b].status = q[b].status /\ p[b].created \in 0..clock
  BY <1>3, <1>4
<1> QED  BY <1>1, <1>2, <1>5 DEF SameStatuses

\* What remains to be shown when only pending bundles were written.
LEMMA BundlesFollowAgain ==
  ASSUME StorageIInv, Ticks, NEW f, NEW g, f = pg'.bundles, g = mem'.bundles, SameStatuses(f, g), DOMAIN f \subseteq Interop,
         pg'.finished = pg.finished, mem'.finished = mem.finished
  PROVE  BundlesFollow'
<1>1. \A n \in 0..clock : n \in 0..clock'  BY DEF Ticks, StorageIInv, StorageTypeOK
<1>2. /\ DOMAIN pg.finished = DOMAIN mem.finished /\ DOMAIN pg.finished \subseteq Interop
      /\ \A b \in DOMAIN pg.finished :
           pg.finished[b].status = mem.finished[b].status /\ pg.finished[b].finished \in 0..clock
  BY DEF StorageIInv, BundlesFollow
<1>3. /\ DOMAIN f = DOMAIN g
      /\ \A b \in DOMAIN f :
           /\ DOMAIN f[b] = {"status", "created"} /\ DOMAIN g[b] = {"status", "created"}
           /\ f[b].status = g[b].status /\ f[b].created \in 0..clock'
  BY <1>1 DEF SameStatuses
<1> QED  BY <1>1, <1>2, <1>3 DEF BundlesFollow

LEMMA BundlesSame ==
  ASSUME StorageIInv
  PROVE  SameStatuses(pg.bundles, mem.bundles)
  BY DEF StorageIInv, BundlesFollow, SameStatuses

LEMMA StorePendingBundleKeeps ==
  ASSUME StorageIInv, NEW b \in Interop, StorePendingBundle(b)
  PROVE  StorageIInv'
<1>1. DOMAIN pg = PgTables /\ DOMAIN mem = MemTables  BY DEF StorageIInv, StorageTypeOK
<1>2. /\ b \notin DOMAIN pg.bundles
      /\ pg' = PgStorePendingBundle(pg, b, "init") /\ mem' = MemStorePendingBundle(mem, b, "init")
      /\ clock' \in {clock, clock + 1}
  BY DEF StorePendingBundle, Stamped, Has
<1> PICK at : at = clock  OBVIOUS
<1>3. /\ at = clock /\ pg'.bundles = Put(pg.bundles, b, [status |-> "init", created |-> at])
      /\ mem'.bundles = Put(mem.bundles, b, [status |-> "init", created |-> clock])
      /\ KeptPg({"bundles"}) /\ KeptMem({"bundles"})
  BY <1>1, <1>2 DEF PgStorePendingBundle, MemStorePendingBundle, Has, KeptPg, KeptMem, PgTables, MemTables, Tables
<1>4. Ticks  BY <1>2 DEF Ticks
<1>5. StorageTypeOK'
  <2>1. IsFiniteSet(DOMAIN pg'.bundles)
    <3>1. IsFiniteSet(DOMAIN pg.bundles)  BY DEF StorageIInv, StorageTypeOK
    <3>2. IsFiniteSet(DOMAIN pg.bundles \cup {b})  BY <3>1, FS_AddElement, Zenon
    <3> PICK f, g, x : f = pg.bundles /\ g = pg'.bundles /\ x = [status |-> "init", created |-> at]  OBVIOUS
    <3>3. g = Put(f, b, x)  BY <1>3
    <3>4. DOMAIN g = DOMAIN f \cup {b}  BY <3>3 DEF Put
    <3> QED  BY <3>2, <3>4
  <2>2. /\ pg'.pending = pg.pending /\ pg'.links = pg.links /\ pg'.refunds = pg.refunds /\ pg'.finished = pg.finished
        /\ DOMAIN pg' = PgTables /\ DOMAIN mem' = MemTables
    BY <1>3 DEF KeptPg, KeptMem, PgTables, Tables
  <2>3. clock' \in Nat  BY <1>4 DEF Ticks, StorageIInv, StorageTypeOK
  <2> QED  BY <2>1, <2>2, <2>3 DEF StorageIInv, StorageTypeOK
<1>6. TablesEqual'  BY <1>3, <1>4, TablesStay, Zenon
<1>7. StatusesFollow'  BY <1>3, <1>4, StatusesStay, Zenon
<1>8. BundlesFollow'
  <2> PICK f, g, p, q : f = pg.bundles /\ g = mem.bundles /\ p = pg'.bundles /\ q = mem'.bundles  OBVIOUS
  <2>1. SameStatuses(f, g)  BY BundlesSame
  <2>2. at \in 0..clock
    BY <1>3 DEF StorageIInv, StorageTypeOK, BundlesFollow
  <2>3. /\ p = Put(f, b, [status |-> "init", created |-> at])
        /\ q = Put(g, b, [status |-> "init", created |-> clock])
    BY <1>3
  <2>4. SameStatuses(p, q)  BY <2>1, <2>2, <2>3, BundlePut
  <2>5. DOMAIN p = DOMAIN f \cup {b}
    <3> PICK x : x = [status |-> "init", created |-> at]  OBVIOUS
    <3>1. p = Put(f, b, x)  BY <2>3
    <3> QED  BY <3>1 DEF Put
  <2>6. pg'.finished = pg.finished /\ mem'.finished = mem.finished  BY <1>3 DEF KeptPg, KeptMem, PgTables,
      MemTables, Tables
  <2>7. DOMAIN f \subseteq Interop  BY DEF StorageIInv, BundlesFollow
  <2>8. DOMAIN p \subseteq Interop  BY <2>5, <2>7
  <2> QED  BY <1>4, <2>4, <2>6, <2>8, BundlesFollowAgain
<1>9. TransfersFollow'  BY <1>3, <1>4, TransfersStay, Zenon
<1>10. LinksFollow'  BY <1>3, LinksStay, Zenon
<1> QED  BY <1>5, <1>6, <1>7, <1>8, <1>9, <1>10 DEF StorageIInv

LEMMA UpdateBundleStatusKeeps ==
  ASSUME StorageIInv, NEW b, NEW status, UpdatePendingBundleStatus(b, status)
  PROVE  StorageIInv'
<1>1. DOMAIN pg = PgTables /\ DOMAIN mem = MemTables  BY DEF StorageIInv, StorageTypeOK
<1>2. pg' = PgUpdateBundleStatus(pg, b, status) /\ mem' = MemUpdateBundleStatus(mem, b, status) /\ clock' = clock
  BY DEF UpdatePendingBundleStatus, Write
<1>3. /\ pg'.bundles = (IF b \in DOMAIN pg.bundles
                        THEN [pg.bundles EXCEPT ![b] = [@ EXCEPT !.status = status]]
                        ELSE pg.bundles)
      /\ mem'.bundles = (IF b \in DOMAIN mem.bundles
                         THEN [mem.bundles EXCEPT ![b] = [@ EXCEPT !.status = status]]
                         ELSE mem.bundles)
      /\ KeptPg({"bundles"}) /\ KeptMem({"bundles"})
  BY <1>1, <1>2 DEF PgUpdateBundleStatus, MemUpdateBundleStatus, Has, KeptPg, KeptMem, PgTables, MemTables, Tables
<1>4. Ticks  BY <1>2 DEF Ticks
<1>5. StorageTypeOK'
  <2>1. DOMAIN pg'.bundles = DOMAIN pg.bundles  BY <1>3
  <2>2. /\ pg'.pending = pg.pending /\ pg'.links = pg.links /\ pg'.refunds = pg.refunds /\ pg'.finished = pg.finished
        /\ DOMAIN pg' = PgTables /\ DOMAIN mem' = MemTables
    BY <1>3 DEF KeptPg, KeptMem, PgTables, Tables
  <2>3. clock' \in Nat  BY <1>4 DEF Ticks, StorageIInv, StorageTypeOK
  <2> QED  BY <2>1, <2>2, <2>3 DEF StorageIInv, StorageTypeOK
<1>6. TablesEqual'  BY <1>3, <1>4, TablesStay, Zenon
<1>7. StatusesFollow'  BY <1>3, <1>4, StatusesStay, Zenon
<1>8. BundlesFollow'
  <2> PICK f, g, p, q : f = pg.bundles /\ g = mem.bundles /\ p = pg'.bundles /\ q = mem'.bundles  OBVIOUS
  <2>1. SameStatuses(f, g)  BY BundlesSame
  <2>2. SameStatuses(p, q) /\ DOMAIN p = DOMAIN f
    <3>1. CASE b \in DOMAIN f
      <4>1. p = [f EXCEPT ![b] = [@ EXCEPT !.status = status]] /\ q = [g EXCEPT ![b] = [@ EXCEPT !.status = status]]
        BY <1>3, <2>1, <3>1 DEF SameStatuses
      <4> QED  BY <2>1, <3>1, <4>1, StatusSet
    <3>2. CASE b \notin DOMAIN f
      <4>1. p = f /\ q = g  BY <1>3, <2>1, <3>2 DEF SameStatuses
      <4> QED  BY <2>1, <4>1
    <3> QED  BY <3>1, <3>2
  <2>3. pg'.finished = pg.finished /\ mem'.finished = mem.finished  BY <1>3 DEF KeptPg, KeptMem, PgTables,
      MemTables, Tables
  <2>4. DOMAIN f \subseteq Interop  BY DEF StorageIInv, BundlesFollow
  <2> QED  BY <1>4, <2>2, <2>3, <2>4, BundlesFollowAgain
<1>9. TransfersFollow'  BY <1>3, <1>4, TransfersStay, Zenon
<1>10. LinksFollow'  BY <1>3, LinksStay, Zenon
<1> QED  BY <1>5, <1>6, <1>7, <1>8, <1>9, <1>10 DEF StorageIInv

LEMMA StoreRefundKeeps ==
  ASSUME StorageIInv, NEW b, StorePendingRefund(b)
  PROVE  StorageIInv'
<1>1. DOMAIN pg = PgTables /\ DOMAIN mem = MemTables  BY DEF StorageIInv, StorageTypeOK
<1>2. pg' = PgStorePendingRefund(pg, b, 1) /\ mem' = MemStorePendingRefund(mem, b, 1) /\ clock' = clock
  BY DEF StorePendingRefund, Write
<1>0. (IF b \in DOMAIN pg.refunds /\ pg.refunds[b] > 1 THEN pg.refunds[b] ELSE 1) = 1
  <2> PICK f : f = pg.refunds  OBVIOUS
  <2>1. f = [c \in DOMAIN f |-> 1]  BY DEF StorageIInv, StorageTypeOK
  <2>2. (IF b \in DOMAIN f /\ f[b] > 1 THEN f[b] ELSE 1) = 1  BY <2>1
  <2> QED  BY <2>2
<1>3. /\ pg'.bundles = (IF b \in DOMAIN pg.bundles
                        THEN [pg.bundles EXCEPT ![b] = [@ EXCEPT !.status = "refunds_scheduled"]]
                        ELSE pg.bundles)
      /\ mem'.bundles = (IF b \in DOMAIN mem.bundles
                         THEN [mem.bundles EXCEPT ![b] = [@ EXCEPT !.status = "refunds_scheduled"]]
                         ELSE mem.bundles)
      /\ /\ pg'.refunds = Put(pg.refunds, b, 1) /\ mem'.refunds = Put(mem.refunds, b, 1)
      /\ KeptPg({"bundles", "refunds"}) /\ KeptMem({"bundles", "refunds"})
  BY <1>0, <1>1, <1>2 DEF PgStorePendingRefund, MemStorePendingRefund, PgUpdateBundleStatus,
                          MemUpdateBundleStatus, Has, KeptPg, KeptMem, PgTables, MemTables, Tables
<1>4. Ticks  BY <1>2 DEF Ticks
<1>5. StorageTypeOK'
  <2>1. DOMAIN pg'.bundles = DOMAIN pg.bundles  BY <1>3
  <2>2. /\ pg'.pending = pg.pending /\ pg'.links = pg.links /\ pg'.finished = pg.finished
        /\ DOMAIN pg' = PgTables /\ DOMAIN mem' = MemTables
    BY <1>3 DEF KeptPg, KeptMem, PgTables, Tables
  <2>3. pg'.refunds = [c \in DOMAIN pg'.refunds |-> 1]
    <3> PICK f, g : f = pg.refunds /\ g = pg'.refunds  OBVIOUS
    <3>1. f = [c \in DOMAIN f |-> 1]  BY DEF StorageIInv, StorageTypeOK
    <3>2. g = Put(f, b, 1)  BY <1>3
    <3> QED  BY <3>1, <3>2 DEF Put, Drop, Restrict
  <2> QED  BY <1>2, <2>1, <2>2, <2>3 DEF StorageIInv, StorageTypeOK
<1>6. TablesEqual'
  BY <1>3 DEF StorageIInv, TablesEqual, KeptPg, KeptMem, PgTables, MemTables, Tables
<1>7. StatusesFollow'  BY <1>3, <1>4, StatusesStay, Zenon
<1>8. BundlesFollow'
  <2> PICK f, g, p, q : f = pg.bundles /\ g = mem.bundles /\ p = pg'.bundles /\ q = mem'.bundles  OBVIOUS
  <2>1. SameStatuses(f, g)  BY BundlesSame
  <2>2. SameStatuses(p, q) /\ DOMAIN p = DOMAIN f
    <3>1. CASE b \in DOMAIN f
      <4>1. p = [f EXCEPT ![b] = [@ EXCEPT !.status = "refunds_scheduled"]]
            /\ q = [g EXCEPT ![b] = [@ EXCEPT !.status = "refunds_scheduled"]]
        BY <1>3, <2>1, <3>1 DEF SameStatuses
      <4> QED  BY <2>1, <3>1, <4>1, StatusSet
    <3>2. CASE b \notin DOMAIN f
      <4>1. p = f /\ q = g  BY <1>3, <2>1, <3>2 DEF SameStatuses
      <4> QED  BY <2>1, <4>1
    <3> QED  BY <3>1, <3>2
  <2>3. pg'.finished = pg.finished /\ mem'.finished = mem.finished  BY <1>3 DEF KeptPg, KeptMem, PgTables,
      MemTables, Tables
  <2>4. DOMAIN f \subseteq Interop  BY DEF StorageIInv, BundlesFollow
  <2> QED  BY <1>4, <2>2, <2>3, <2>4, BundlesFollowAgain
<1>9. TransfersFollow'  BY <1>3, <1>4, TransfersStay, Zenon
<1>10. LinksFollow'  BY <1>3, LinksStay, Zenon
<1> QED  BY <1>5, <1>6, <1>7, <1>8, <1>9, <1>10 DEF StorageIInv

LEMMA MarkReadyKeeps ==
  ASSUME StorageIInv, NEW b, MarkRefundReady(b)
  PROVE  StorageIInv'
<1>1. DOMAIN pg = PgTables /\ DOMAIN mem = MemTables  BY DEF StorageIInv, StorageTypeOK
<1>2. pg' = PgMarkRefundReady(pg, b) /\ mem' = MemMarkRefundReady(mem, b) /\ clock' = clock
  BY DEF MarkRefundReady, Write
<1>3. /\ pg'.bundles = (IF b \in DOMAIN pg.bundles
                        THEN [pg.bundles EXCEPT ![b] = [@ EXCEPT !.status = "refunds_ready"]]
                        ELSE pg.bundles)
      /\ mem'.bundles = (IF b \in DOMAIN mem.bundles
                         THEN [mem.bundles EXCEPT ![b] = [@ EXCEPT !.status = "refunds_ready"]]
                         ELSE mem.bundles)
      /\ /\ pg'.refunds = Drop(pg.refunds, b) /\ mem'.refunds = Drop(mem.refunds, b)
      /\ KeptPg({"bundles", "refunds"}) /\ KeptMem({"bundles", "refunds"})
  BY <1>1, <1>2 DEF PgMarkRefundReady, MemMarkRefundReady, PgRemoveRefund, MemRemoveRefund,
                    PgUpdateBundleStatus, MemUpdateBundleStatus, Has, KeptPg, KeptMem, PgTables, MemTables,
                    Tables
<1>4. Ticks  BY <1>2 DEF Ticks
<1>5. StorageTypeOK'
  <2>1. DOMAIN pg'.bundles = DOMAIN pg.bundles  BY <1>3
  <2>2. /\ pg'.pending = pg.pending /\ pg'.links = pg.links /\ pg'.finished = pg.finished
        /\ DOMAIN pg' = PgTables /\ DOMAIN mem' = MemTables
    BY <1>3 DEF KeptPg, KeptMem, PgTables, Tables
  <2>3. pg'.refunds = [c \in DOMAIN pg'.refunds |-> 1]
    <3> PICK f, g : f = pg.refunds /\ g = pg'.refunds  OBVIOUS
    <3>1. f = [c \in DOMAIN f |-> 1]  BY DEF StorageIInv, StorageTypeOK
    <3>2. g = Drop(f, b)  BY <1>3
    <3> QED  BY <3>1, <3>2 DEF Put, Drop, Restrict
  <2> QED  BY <1>2, <2>1, <2>2, <2>3 DEF StorageIInv, StorageTypeOK
<1>6. TablesEqual'
  BY <1>3 DEF StorageIInv, TablesEqual, KeptPg, KeptMem, PgTables, MemTables, Tables
<1>7. StatusesFollow'  BY <1>3, <1>4, StatusesStay, Zenon
<1>8. BundlesFollow'
  <2> PICK f, g, p, q : f = pg.bundles /\ g = mem.bundles /\ p = pg'.bundles /\ q = mem'.bundles  OBVIOUS
  <2>1. SameStatuses(f, g)  BY BundlesSame
  <2>2. SameStatuses(p, q) /\ DOMAIN p = DOMAIN f
    <3>1. CASE b \in DOMAIN f
      <4>1. p = [f EXCEPT ![b] = [@ EXCEPT !.status = "refunds_ready"]]
            /\ q = [g EXCEPT ![b] = [@ EXCEPT !.status = "refunds_ready"]]
        BY <1>3, <2>1, <3>1 DEF SameStatuses
      <4> QED  BY <2>1, <3>1, <4>1, StatusSet
    <3>2. CASE b \notin DOMAIN f
      <4>1. p = f /\ q = g  BY <1>3, <2>1, <3>2 DEF SameStatuses
      <4> QED  BY <2>1, <4>1
    <3> QED  BY <3>1, <3>2
  <2>3. pg'.finished = pg.finished /\ mem'.finished = mem.finished  BY <1>3 DEF KeptPg, KeptMem, PgTables,
      MemTables, Tables
  <2>4. DOMAIN f \subseteq Interop  BY DEF StorageIInv, BundlesFollow
  <2> QED  BY <1>4, <2>2, <2>3, <2>4, BundlesFollowAgain
<1>9. TransfersFollow'  BY <1>3, <1>4, TransfersStay, Zenon
<1>10. LinksFollow'  BY <1>3, LinksStay, Zenon
<1> QED  BY <1>5, <1>6, <1>7, <1>8, <1>9, <1>10 DEF StorageIInv

LEMMA RemoveRefundKeeps ==
  ASSUME StorageIInv, NEW b, RemoveProcessedRefund(b)
  PROVE  StorageIInv'
<1>1. DOMAIN pg = PgTables /\ DOMAIN mem = MemTables  BY DEF StorageIInv, StorageTypeOK
<1>2. pg' = PgRemoveRefund(pg, b) /\ mem' = MemRemoveRefund(mem, b) /\ clock' = clock
  BY DEF RemoveProcessedRefund, Write
<1>3. pg'.refunds = Drop(pg.refunds, b) /\ mem'.refunds = Drop(mem.refunds, b) /\ pg'.bundles = pg.bundles
      /\ KeptPg({"refunds"}) /\ KeptMem({"refunds"})
  BY <1>1, <1>2 DEF PgRemoveRefund, MemRemoveRefund, KeptPg, KeptMem, PgTables, MemTables, Tables
<1>4. Ticks  BY <1>2 DEF Ticks
<1>5. StorageTypeOK'
  <2>1. DOMAIN pg'.bundles = DOMAIN pg.bundles  BY <1>3
  <2>2. /\ pg'.pending = pg.pending /\ pg'.links = pg.links /\ pg'.finished = pg.finished
        /\ DOMAIN pg' = PgTables /\ DOMAIN mem' = MemTables
    BY <1>3 DEF KeptPg, KeptMem, PgTables, Tables
  <2>3. pg'.refunds = [c \in DOMAIN pg'.refunds |-> 1]
    <3> PICK f, g : f = pg.refunds /\ g = pg'.refunds  OBVIOUS
    <3>1. f = [c \in DOMAIN f |-> 1]  BY DEF StorageIInv, StorageTypeOK
    <3>2. g = Drop(f, b)  BY <1>3
    <3> QED  BY <3>1, <3>2 DEF Put, Drop, Restrict
  <2> QED  BY <1>2, <2>1, <2>2, <2>3 DEF StorageIInv, StorageTypeOK
<1>6. TablesEqual'
  BY <1>3 DEF StorageIInv, TablesEqual, KeptPg, KeptMem, PgTables, MemTables, Tables
<1>7. StatusesFollow'  BY <1>3, <1>4, StatusesStay, Zenon
<1>8. BundlesFollow'  BY <1>3, <1>4, BundlesStay, Zenon
<1>9. TransfersFollow'  BY <1>3, <1>4, TransfersStay, Zenon
<1>10. LinksFollow'  BY <1>3, LinksStay, Zenon
<1> QED  BY <1>5, <1>6, <1>7, <1>8, <1>9, <1>10 DEF StorageIInv

LEMMA UpdateAndQueueKeeps ==
  ASSUME StorageIInv, NEW b \in Interop, NEW txs, UpdateBundleAndQueueTransactions(b, txs)
  PROVE  StorageIInv'
<1>1. DOMAIN pg = PgTables /\ DOMAIN mem = MemTables  BY DEF StorageIInv, StorageTypeOK
<1>2. /\ b \in DOMAIN pg.bundles /\ pg' = PgUpdateBundleAndQueue(pg, b, "source_queued", txs)
      /\ mem' = MemUpdateBundleAndQueue(mem, b, "source_queued", txs) /\ clock' \in {clock, clock + 1}
  BY DEF UpdateBundleAndQueueTransactions, Stamped, Has
<1> PICK at : at = pg.bundles[b].created  OBVIOUS
<1>3. /\ pg'.bundles = Put(pg.bundles, b, [status |-> "source_queued", created |-> at])
      /\ mem'.bundles = Put(mem.bundles, b, [status |-> "source_queued", created |-> clock])
      /\ txs # {} =>
           /\ pg'.txs = Put(pg.txs, b, [status |-> "inflight", hash |-> None, receipt |-> None,
                                        error |-> None, data |-> FALSE, received |-> clock])
           /\ mem'.statuses = Put(mem.statuses, b, InFlight) /\ mem'.byAddress = Put(mem.byAddress, b, clock)
           /\ pg'.queued = Append(pg.queued, b) /\ mem'.queued = Append(mem.queued, b)
      /\ txs = {} =>
           /\ pg'.txs = pg.txs /\ mem'.statuses = mem.statuses /\ mem'.byAddress = mem.byAddress
           /\ pg'.queued = pg.queued /\ mem'.queued = mem.queued
      /\ KeptPg({"bundles", "txs", "queued"}) /\ KeptMem({"bundles", "statuses", "byAddress", "queued"})
  BY <1>1, <1>2 DEF PgUpdateBundleAndQueue, MemUpdateBundleAndQueue, PgStorePendingBundle,
                    MemStorePendingBundle, PgQueueTransaction, MemQueueTransaction, Has, KeptPg, KeptMem,
                    PgTables, MemTables, Tables
<1>4. Ticks  BY <1>2 DEF Ticks
<1>5. StorageTypeOK'
  <2>1. IsFiniteSet(DOMAIN pg'.bundles)
    <3>1. IsFiniteSet(DOMAIN pg.bundles)  BY DEF StorageIInv, StorageTypeOK
    <3>2. IsFiniteSet(DOMAIN pg.bundles \cup {b})  BY <3>1, FS_AddElement, Zenon
    <3> PICK f, g, x : f = pg.bundles /\ g = pg'.bundles /\ x = [status |-> "source_queued", created |-> at]  OBVIOUS
    <3>3. g = Put(f, b, x)  BY <1>3
    <3>4. DOMAIN g = DOMAIN f \cup {b}  BY <3>3 DEF Put
    <3> QED  BY <3>2, <3>4
  <2>2. /\ pg'.pending = pg.pending /\ pg'.links = pg.links /\ pg'.refunds = pg.refunds /\ pg'.finished = pg.finished
        /\ DOMAIN pg' = PgTables /\ DOMAIN mem' = MemTables
    BY <1>3 DEF KeptPg, KeptMem, PgTables, Tables
  <2>3. clock' \in Nat  BY <1>4 DEF Ticks, StorageIInv, StorageTypeOK
  <2> QED  BY <2>1, <2>2, <2>3 DEF StorageIInv, StorageTypeOK
<1>6. TablesEqual'
  BY <1>3 DEF StorageIInv, TablesEqual, KeptPg, KeptMem, PgTables, MemTables, Tables
<1>7. StatusesFollow'
  <2>1. CASE txs = {}
    <3>1. KeptPg({"bundles", "queued"}) /\ KeptMem({"bundles", "queued"})
      BY <1>3, <2>1 DEF KeptPg, KeptMem, PgTables, MemTables, Tables
    <3>2. "txs" \notin {"bundles", "queued"} /\ {"statuses", "byAddress"} \cap {"bundles", "queued"} = {}  OBVIOUS
    <3> QED  BY <1>4, <3>1, <3>2, StatusesStay, Zenon
  <2>2. CASE txs # {}
    <3>1. b \notin Single  BY StorageAssumption
    <3> QED  BY <1>3, <1>4, <2>2, <3>1, StatusAdded
  <2> QED  BY <2>1, <2>2
<1>8. BundlesFollow'
  <2> PICK f, g, p, q : f = pg.bundles /\ g = mem.bundles /\ p = pg'.bundles /\ q = mem'.bundles  OBVIOUS
  <2>1. SameStatuses(f, g)  BY BundlesSame
  <2>2. at \in 0..clock  BY <1>2 DEF StorageIInv, BundlesFollow
  <2>3. /\ p = Put(f, b, [status |-> "source_queued", created |-> at])
        /\ q = Put(g, b, [status |-> "source_queued", created |-> clock])
    BY <1>3
  <2>4. SameStatuses(p, q)  BY <2>1, <2>2, <2>3, BundlePut
  <2>5. DOMAIN p = DOMAIN f \cup {b}
    <3> PICK x : x = [status |-> "source_queued", created |-> at]  OBVIOUS
    <3>1. p = Put(f, b, x)  BY <2>3
    <3> QED  BY <3>1 DEF Put
  <2>6. pg'.finished = pg.finished /\ mem'.finished = mem.finished  BY <1>3 DEF KeptPg, KeptMem, PgTables,
      MemTables, Tables
  <2>7. DOMAIN f \subseteq Interop  BY DEF StorageIInv, BundlesFollow
  <2>8. DOMAIN p \subseteq Interop  BY <2>5, <2>7
  <2> QED  BY <1>4, <2>4, <2>6, <2>8, BundlesFollowAgain
<1>9. TransfersFollow'  BY <1>3, <1>4, TransfersStay, Zenon
<1>10. LinksFollow'  BY <1>3, LinksStay, Zenon
<1> QED  BY <1>5, <1>6, <1>7, <1>8, <1>9, <1>10 DEF StorageIInv

LEMMA MoveToFinishedKeeps ==
  ASSUME StorageIInv, NEW b, MoveBundleToFinished(b)
  PROVE  StorageIInv'
<1>1. DOMAIN pg = PgTables /\ DOMAIN mem = MemTables  BY DEF StorageIInv, StorageTypeOK
<1>2. /\ b \in DOMAIN pg.bundles /\ pg' = PgMoveToFinished(pg, b) /\ mem' = MemMoveToFinished(mem, b)
      /\ clock' \in {clock, clock + 1}
  BY DEF MoveBundleToFinished, Stamped, Has
<1>3. /\ pg'.bundles = Drop(pg.bundles, b) /\ mem'.bundles = Drop(mem.bundles, b)
      /\ pg'.finished = Put(pg.finished, b, [status |-> pg.bundles[b].status, finished |-> clock])
      /\ mem'.finished = Put(mem.finished, b, mem.bundles[b])
      /\ KeptPg({"bundles", "finished"}) /\ KeptMem({"bundles", "finished"})
  BY <1>1, <1>2 DEF PgMoveToFinished, MemMoveToFinished, KeptPg, KeptMem, PgTables, MemTables, Tables
<1>4. Ticks  BY <1>2 DEF Ticks
<1>5. StorageTypeOK'
  <2> PICK f, p, u, x, row : f = pg.bundles /\ p = pg'.bundles /\ u = pg.finished /\ x = pg'.finished
                             /\ row = [status |-> f[b].status, finished |-> clock]
    OBVIOUS
  <2>1. DOMAIN p = DOMAIN f \ {b} /\ DOMAIN x = DOMAIN u \cup {b}
    <3>1. p = Drop(f, b) /\ x = Put(u, b, row)  BY <1>3
    <3> QED  BY <3>1 DEF Drop, Restrict, Put
  <2>2. IsFiniteSet(DOMAIN f) /\ IsFiniteSet(DOMAIN u)  BY DEF StorageIInv, StorageTypeOK
  <2>3. IsFiniteSet(DOMAIN f \ {b}) /\ IsFiniteSet(DOMAIN u \cup {b})  BY <2>2, FS_RemoveElement, FS_AddElement, Zenon
  <2>4. IsFiniteSet(DOMAIN p) /\ IsFiniteSet(DOMAIN x)  BY <2>1, <2>3
  <2>5. /\ pg'.pending = pg.pending /\ pg'.links = pg.links /\ pg'.refunds = pg.refunds
        /\ DOMAIN pg' = PgTables /\ DOMAIN mem' = MemTables
    BY <1>3 DEF KeptPg, KeptMem, PgTables, Tables
  <2>6. clock' \in Nat  BY <1>4 DEF Ticks, StorageIInv, StorageTypeOK
  <2> QED  BY <2>4, <2>5, <2>6 DEF StorageIInv, StorageTypeOK
<1>6. TablesEqual'  BY <1>3, <1>4, TablesStay, Zenon
<1>7. StatusesFollow'  BY <1>3, <1>4, StatusesStay, Zenon
<1>8. BundlesFollow'
  <2> PICK f, g, p, q : f = pg.bundles /\ g = mem.bundles /\ p = pg'.bundles /\ q = mem'.bundles  OBVIOUS
  <2> PICK u, v, x, y : u = pg.finished /\ v = mem.finished /\ x = pg'.finished /\ y = mem'.finished  OBVIOUS
  <2> PICK row : row = [status |-> f[b].status, finished |-> clock]  OBVIOUS
  <2>1. SameStatuses(f, g)  BY BundlesSame
  <2>2. /\ DOMAIN u = DOMAIN v /\ DOMAIN f \cup DOMAIN u \subseteq Interop
        /\ \A c \in DOMAIN u : u[c].status = v[c].status /\ u[c].finished \in 0..clock
    BY DEF StorageIInv, BundlesFollow
  <2>3. p = Drop(f, b) /\ q = Drop(g, b) /\ x = Put(u, b, row) /\ y = Put(v, b, g[b])  BY <1>3
  <2>4. /\ DOMAIN p = DOMAIN f \ {b} /\ \A c \in DOMAIN p : p[c] = f[c]
        /\ DOMAIN q = DOMAIN g \ {b} /\ \A c \in DOMAIN q : q[c] = g[c]
    BY <2>3 DEF Drop, Restrict
  <2>5. /\ DOMAIN x = DOMAIN u \cup {b} /\ x[b] = row /\ \A c \in DOMAIN u : c # b => x[c] = u[c]
        /\ DOMAIN y = DOMAIN v \cup {b} /\ y[b] = g[b] /\ \A c \in DOMAIN v : c # b => y[c] = v[c]
    BY <2>3 DEF Put
  <2>6. row.status = f[b].status /\ row.finished = clock  OBVIOUS
  <2>7. clock \in 0..clock /\ \A n \in 0..clock : n \in 0..clock'  BY <1>4 DEF Ticks, StorageIInv, StorageTypeOK
  <2>8. /\ DOMAIN p = DOMAIN q
        /\ \A c \in DOMAIN p :
             /\ DOMAIN p[c] = {"status", "created"} /\ DOMAIN q[c] = {"status", "created"}
             /\ p[c].status = q[c].status /\ p[c].created \in 0..clock'
    BY <2>1, <2>4, <2>7 DEF SameStatuses
  <2>9. \A c \in DOMAIN x : x[c].status = y[c].status /\ x[c].finished \in 0..clock'
    <3> TAKE c \in DOMAIN x
    <3>1. CASE c = b
      <4>1. f[b].status = g[b].status  BY <1>2, <2>1 DEF SameStatuses
      <4> QED  BY <2>5, <2>6, <2>7, <3>1, <4>1
    <3>2. CASE c # b  BY <2>2, <2>5, <2>7, <3>2
    <3> QED  BY <3>1, <3>2
  <2>10. DOMAIN x = DOMAIN y /\ DOMAIN p \cup DOMAIN x \subseteq Interop
    BY <1>2, <2>2, <2>4, <2>5
  <2> QED  BY <2>8, <2>9, <2>10 DEF BundlesFollow
<1>9. TransfersFollow'  BY <1>3, <1>4, TransfersStay, Zenon
<1>10. LinksFollow'  BY <1>3, LinksStay, Zenon
<1> QED  BY <1>5, <1>6, <1>7, <1>8, <1>9, <1>10 DEF StorageIInv

(***************************************************************************)
(* Transfers and pull gas                                                  *)
(***************************************************************************)

\* The rows of a transfer in the two databases.
SameTransfer(row, entry) ==
  /\ DOMAIN row = {"status", "out", "in", "data"} /\ DOMAIN entry = {"state", "data"}
  /\ row.data = entry.data
  /\ TransferState(row.status, CASE row.status = "sent" -> row.out [] row.status = "completed" -> row.in
                                 [] OTHER -> None) = entry.state

LEMMA TransfersFollowRows ==
  TransfersFollow <=> /\ DOMAIN pg.transfers = DOMAIN mem.transfers
                      /\ \A x \in DOMAIN pg.transfers : SameTransfer(pg.transfers[x], mem.transfers[x])
  BY DEF TransfersFollow, SameTransfer, PgGetTransferState, MemGetTransferState

LEMMA TransfersFollowAgain ==
  ASSUME NEW f, NEW g, f = pg'.transfers, g = mem'.transfers, DOMAIN f = DOMAIN g,
         \A x \in DOMAIN f : SameTransfer(f[x], g[x])
  PROVE  TransfersFollow'
  BY DEF TransfersFollow, SameTransfer, PgGetTransferState, MemGetTransferState

LEMMA LockBridgeKeeps ==
  ASSUME StorageIInv, NEW x, LockLiquidityForBridge(x)
  PROVE  StorageIInv'
<1>1. DOMAIN pg = PgTables /\ DOMAIN mem = MemTables  BY DEF StorageIInv, StorageTypeOK
<1>2. pg' = PgLockForBridge(pg, x) /\ mem' = MemLockForBridge(mem, x) /\ clock' = clock
  BY DEF LockLiquidityForBridge, Write
<1>3. /\ pg'.transfers = Put(pg.transfers, x, [status |-> "pending", out |-> None, in |-> None, data |-> None])
      /\ mem'.transfers = Put(mem.transfers, x, [state |-> TransferState("pending", None), data |-> None])
      /\ KeptPg({"transfers"}) /\ KeptMem({"transfers"})
  BY <1>1, <1>2 DEF PgLockForBridge, MemLockForBridge, KeptPg, KeptMem, PgTables, MemTables, Tables
<1>4. Ticks  BY <1>2 DEF Ticks
<1>5. StorageTypeOK'  BY <1>3, <1>4, TypesStay, Zenon
<1>6. TablesEqual'  BY <1>3, <1>4, TablesStay, Zenon
<1>7. StatusesFollow'  BY <1>3, <1>4, StatusesStay, Zenon
<1>8. BundlesFollow'  BY <1>3, <1>4, BundlesStay, Zenon
<1>9. TransfersFollow'
  <2> PICK f, g, p, q : f = pg.transfers /\ g = mem.transfers /\ p = pg'.transfers /\ q = mem'.transfers  OBVIOUS
  <2>1. DOMAIN f = DOMAIN g /\ \A y \in DOMAIN f : SameTransfer(f[y], g[y])  BY TransfersFollowRows DEF StorageIInv
  <2> PICK row, entry : /\ row = [status |-> "pending", out |-> None, in |-> None, data |-> None]
                        /\ entry = [state |-> TransferState("pending", None), data |-> None]
    OBVIOUS
  <2>2. p = Put(f, x, row) /\ q = Put(g, x, entry)  BY <1>3
  <2>3. SameTransfer(row, entry)  BY DEF SameTransfer
  <2>4. /\ DOMAIN p = DOMAIN f \cup {x} /\ p[x] = row /\ \A y \in DOMAIN f : y # x => p[y] = f[y]
        /\ DOMAIN q = DOMAIN g \cup {x} /\ q[x] = entry /\ \A y \in DOMAIN g : y # x => q[y] = g[y]
    BY <2>2 DEF Put
  <2>5. DOMAIN p = DOMAIN q /\ \A y \in DOMAIN p : SameTransfer(p[y], q[y])  BY <2>1, <2>3, <2>4
  <2> QED  BY <2>5, TransfersFollowAgain
<1>10. LinksFollow'  BY <1>3, LinksStay, Zenon
<1> QED  BY <1>5, <1>6, <1>7, <1>8, <1>9, <1>10 DEF StorageIInv

LEMMA BridgeDataKeeps ==
  ASSUME StorageIInv, NEW x, NEW d, UpdateTransferBridgeData(x, d)
  PROVE  StorageIInv'
<1>1. DOMAIN pg = PgTables /\ DOMAIN mem = MemTables  BY DEF StorageIInv, StorageTypeOK
<1>2. x \in DOMAIN pg.transfers /\ pg' = PgUpdateBridgeData(pg, x, d) /\ mem' = MemUpdateBridgeData(mem, x, d) 
      /\ clock' = clock
  BY DEF UpdateTransferBridgeData, Write, Has
<1>3. /\ pg'.transfers = [pg.transfers EXCEPT ![x] = [@ EXCEPT !.data = d]]
      /\ mem'.transfers = [mem.transfers EXCEPT ![x] = [@ EXCEPT !.data = d]]
      /\ KeptPg({"transfers"}) /\ KeptMem({"transfers"})
  BY <1>1, <1>2 DEF PgUpdateBridgeData, MemUpdateBridgeData, Has, StorageIInv, TransfersFollow, KeptPg, KeptMem,
                    PgTables, MemTables, Tables
<1>4. Ticks  BY <1>2 DEF Ticks
<1>5. StorageTypeOK'  BY <1>3, <1>4, TypesStay, Zenon
<1>6. TablesEqual'  BY <1>3, <1>4, TablesStay, Zenon
<1>7. StatusesFollow'  BY <1>3, <1>4, StatusesStay, Zenon
<1>8. BundlesFollow'  BY <1>3, <1>4, BundlesStay, Zenon
<1>9. TransfersFollow'
  <2> PICK f, g, p, q : f = pg.transfers /\ g = mem.transfers /\ p = pg'.transfers /\ q = mem'.transfers  OBVIOUS
  <2>1. DOMAIN f = DOMAIN g /\ \A y \in DOMAIN f : SameTransfer(f[y], g[y])  BY TransfersFollowRows DEF StorageIInv
  <2>2. p = [f EXCEPT ![x] = [@ EXCEPT !.data = d]] /\ q = [g EXCEPT ![x] = [@ EXCEPT !.data = d]]  BY <1>3
  <2>3. p[x] = [f[x] EXCEPT !.data = d] /\ q[x] = [g[x] EXCEPT !.data = d]  BY <1>2, <2>1, <2>2
  <2>4. SameTransfer(f[x], g[x])  BY <1>2, <2>1
  <2> PICK r, e, row, entry : r = f[x] /\ e = g[x] /\ row = p[x] /\ entry = q[x]  OBVIOUS
  <2>5. SameTransfer(row, entry)
    <3>1. row = [r EXCEPT !.data = d] /\ entry = [e EXCEPT !.data = d] /\ SameTransfer(r, e)  BY <2>3, <2>4
    <3>2. /\ DOMAIN row = DOMAIN r /\ row.status = r.status /\ row.out = r.out /\ row.in = r.in /\ row.data = d
          /\ DOMAIN entry = DOMAIN e /\ entry.state = e.state /\ entry.data = d
      BY <3>1 DEF SameTransfer
    <3> QED  BY <3>1, <3>2 DEF SameTransfer
  <2>6. DOMAIN p = DOMAIN f /\ DOMAIN q = DOMAIN g /\ \A y \in DOMAIN f : y # x => p[y] = f[y] /\ q[y] = g[y]
    BY <2>1, <2>2
  <2>7. DOMAIN p = DOMAIN q /\ \A y \in DOMAIN p : SameTransfer(p[y], q[y])  BY <2>1, <2>5, <2>6
  <2> QED  BY <2>7, TransfersFollowAgain
<1>10. LinksFollow'  BY <1>3, LinksStay, Zenon
<1> QED  BY <1>5, <1>6, <1>7, <1>8, <1>9, <1>10 DEF StorageIInv

\* The states a transfer is updated to.
LEMMA TransferStateShape ==
  ASSUME NEW s \in TransferStates
  PROVE  /\ s = TransferState(s.kind, s.block) /\ s.kind \in {"outbound_failed", "inbound_failed", "sent", "completed"}
         /\ s.kind \in {"outbound_failed", "inbound_failed"} => s.block = None
  BY DEF TransferStates, TransferState

\* The entry of a transfer, moved to a state.
MovedEntry(entry, s) == [entry EXCEPT !.state = s]
SameTransfers(f, g) == DOMAIN f = DOMAIN g /\ \A x \in DOMAIN f : SameTransfer(f[x], g[x])

LEMMA TransferMoved ==
  ASSUME NEW f, NEW g, SameTransfers(f, g), NEW x \in DOMAIN f, NEW s \in TransferStates
  PROVE  SameTransfers([f EXCEPT ![x] = PgTransferRow(f[x], s)], [g EXCEPT ![x] = MovedEntry(g[x], s)])
<1> PICK p, q : p = [f EXCEPT ![x] = PgTransferRow(f[x], s)] /\ q = [g EXCEPT ![x] = MovedEntry(g[x], s)]  OBVIOUS
<1>0. DOMAIN f = DOMAIN g /\ \A y \in DOMAIN f : SameTransfer(f[y], g[y])  BY DEF SameTransfers
<1>1. p[x] = PgTransferRow(f[x], s) /\ q[x] = MovedEntry(g[x], s)  BY <1>0
<1>2. SameTransfer(f[x], g[x])  BY <1>0
<1> PICK r, e, row, entry : r = f[x] /\ e = g[x] /\ row = p[x] /\ entry = q[x]  OBVIOUS
<1> PICK kind, height : kind = s.kind /\ height = s.block  OBVIOUS
<1>3. SameTransfer(row, entry)
  <2>1. row = [r EXCEPT !.status = kind, !.out = IF kind = "sent" THEN height ELSE @,
                        !.in = IF kind = "completed" THEN height ELSE @]
        /\ entry = [e EXCEPT !.state = s] /\ SameTransfer(r, e)
    BY <1>1, <1>2 DEF PgTransferRow, MovedEntry
  <2>2. /\ DOMAIN row = {"status", "out", "in", "data"} /\ row.status = kind /\ row.data = r.data
        /\ row.out = (IF kind = "sent" THEN height ELSE r.out) /\ row.in = (IF kind = "completed" THEN height ELSE r.in)
    BY <2>1 DEF SameTransfer
  <2>3. DOMAIN entry = {"state", "data"} /\ entry.state = s /\ entry.data = e.data /\ r.data = e.data
    BY <2>1 DEF SameTransfer
  <2>4. /\ s = TransferState(kind, height) /\ kind \in {"outbound_failed", "inbound_failed", "sent", "completed"}
        /\ kind \in {"outbound_failed", "inbound_failed"} => height = None
    BY TransferStateShape
  <2>5. (CASE row.status = "sent" -> row.out [] row.status = "completed" -> row.in [] OTHER -> None) = height
    BY <2>2, <2>4
  <2> QED  BY <2>2, <2>3, <2>4, <2>5 DEF SameTransfer
<1>4. DOMAIN p = DOMAIN f /\ DOMAIN q = DOMAIN g /\ \A y \in DOMAIN f : y # x => p[y] = f[y] /\ q[y] = g[y]
  BY <1>0
<1>5. SameTransfers(p, q)  BY <1>0, <1>3, <1>4 DEF SameTransfers
<1> QED  BY <1>5

LEMMA TransferUpdates ==
  ASSUME NEW x, NEW s
  PROVE  /\ PgUpdateTransferState(pg, x, s) = [pg EXCEPT !.transfers = [pg.transfers EXCEPT ![x] = PgTransferRow(pg.transfers[x], s)]]
         /\ MemUpdateTransferState(mem, x, s)
              = [mem EXCEPT !.transfers = [mem.transfers EXCEPT ![x] = MovedEntry(mem.transfers[x], s)]]
  BY DEF PgUpdateTransferState, MemUpdateTransferState, MovedEntry

LEMMA TransferStateKeeps ==
  ASSUME StorageIInv, NEW x, NEW s \in TransferStates, UpdateTransferState(x, s)
  PROVE  StorageIInv'
<1>1. DOMAIN pg = PgTables /\ DOMAIN mem = MemTables  BY DEF StorageIInv, StorageTypeOK
<1>2. x \in DOMAIN pg.transfers /\ pg' = PgUpdateTransferState(pg, x, s) /\ mem' = MemUpdateTransferState(mem, x, s) 
      /\ clock' = clock
  BY DEF UpdateTransferState, Write, Has
<1>3. /\ pg'.transfers = [pg.transfers EXCEPT ![x] = PgTransferRow(pg.transfers[x], s)]
      /\ mem'.transfers = [mem.transfers EXCEPT ![x] = MovedEntry(mem.transfers[x], s)]
      /\ KeptPg({"transfers"}) /\ KeptMem({"transfers"})
  BY <1>1, <1>2, TransferUpdates DEF KeptPg, KeptMem, PgTables, MemTables, Tables
<1>4. Ticks  BY <1>2 DEF Ticks
<1>5. StorageTypeOK'  BY <1>3, <1>4, TypesStay, Zenon
<1>6. TablesEqual'  BY <1>3, <1>4, TablesStay, Zenon
<1>7. StatusesFollow'  BY <1>3, <1>4, StatusesStay, Zenon
<1>8. BundlesFollow'  BY <1>3, <1>4, BundlesStay, Zenon
<1>9. TransfersFollow'
  <2> PICK f, g, p, q : f = pg.transfers /\ g = mem.transfers /\ p = pg'.transfers /\ q = mem'.transfers  OBVIOUS
  <2>1. DOMAIN f = DOMAIN g /\ \A y \in DOMAIN f : SameTransfer(f[y], g[y])  BY TransfersFollowRows DEF StorageIInv
  <2>2. SameTransfers(f, g)  BY <2>1 DEF SameTransfers
  <2>3. SameTransfers([f EXCEPT ![x] = PgTransferRow(f[x], s)], [g EXCEPT ![x] = MovedEntry(g[x], s)])
    BY <1>2, <2>2, TransferMoved, Zenon
  <2>4. SameTransfers(p, q)  BY <1>3, <2>3
  <2>5. DOMAIN p = DOMAIN q /\ \A y \in DOMAIN p : SameTransfer(p[y], q[y])  BY <2>4 DEF SameTransfers
  <2> QED  BY <2>5, TransfersFollowAgain
<1>10. LinksFollow'  BY <1>3, LinksStay, Zenon
<1> QED  BY <1>5, <1>6, <1>7, <1>8, <1>9, <1>10 DEF StorageIInv

LEMMA TransferUnlockKeeps ==
  ASSUME StorageIInv, NEW x, NEW s \in TransferStates, UpdateTransferStateAndUnlock(x, s)
  PROVE  StorageIInv'
<1>1. DOMAIN pg = PgTables /\ DOMAIN mem = MemTables  BY DEF StorageIInv, StorageTypeOK
<1>2. x \in DOMAIN pg.transfers /\ pg' = PgUpdateTransferAndUnlock(pg, x, s) /\ mem' = MemUpdateTransferAndUnlock(mem, x, s) 
      /\ clock' = clock
  BY DEF UpdateTransferStateAndUnlock, Write, Has
<1>3. /\ pg'.transfers = [pg.transfers EXCEPT ![x] = PgTransferRow(pg.transfers[x], s)]
      /\ mem'.transfers = [mem.transfers EXCEPT ![x] = MovedEntry(mem.transfers[x], s)]
      /\ KeptPg({"transfers", "unlocks"}) /\ KeptMem({"transfers", "unlocks"})
  BY <1>1, <1>2, TransferUpdates DEF PgUpdateTransferAndUnlock, MemUpdateTransferAndUnlock, KeptPg, KeptMem,
                                     PgTables, MemTables, Tables
<1>4. Ticks  BY <1>2 DEF Ticks
<1>5. StorageTypeOK'  BY <1>3, <1>4, TypesStay, Zenon
<1>6. TablesEqual'  BY <1>3, <1>4, TablesStay, Zenon
<1>7. StatusesFollow'  BY <1>3, <1>4, StatusesStay, Zenon
<1>8. BundlesFollow'  BY <1>3, <1>4, BundlesStay, Zenon
<1>9. TransfersFollow'
  <2> PICK f, g, p, q : f = pg.transfers /\ g = mem.transfers /\ p = pg'.transfers /\ q = mem'.transfers  OBVIOUS
  <2>1. DOMAIN f = DOMAIN g /\ \A y \in DOMAIN f : SameTransfer(f[y], g[y])  BY TransfersFollowRows DEF StorageIInv
  <2>2. SameTransfers(f, g)  BY <2>1 DEF SameTransfers
  <2>3. SameTransfers([f EXCEPT ![x] = PgTransferRow(f[x], s)], [g EXCEPT ![x] = MovedEntry(g[x], s)])
    BY <1>2, <2>2, TransferMoved, Zenon
  <2>4. SameTransfers(p, q)  BY <1>3, <2>3
  <2>5. DOMAIN p = DOMAIN q /\ \A y \in DOMAIN p : SameTransfer(p[y], q[y])  BY <2>4 DEF SameTransfers
  <2> QED  BY <2>5, TransfersFollowAgain
<1>10. LinksFollow'  BY <1>3, LinksStay, Zenon
<1> QED  BY <1>5, <1>6, <1>7, <1>8, <1>9, <1>10 DEF StorageIInv

LEMMA LockPullKeeps ==
  ASSUME StorageIInv, NEW p, NEW fails, LockLiquidityForPullGas(p, fails)
  PROVE  StorageIInv'
<1>1. DOMAIN pg = PgTables /\ DOMAIN mem = MemTables  BY DEF StorageIInv, StorageTypeOK
<1>2. /\ pg' = (IF fails THEN pg ELSE PgLockForPullGas(pg, p))
      /\ mem' = (IF fails THEN mem ELSE MemLockForPullGas(mem, p)) /\ clock' = clock
  BY DEF LockLiquidityForPullGas, Write
<1>3. /\ pg'.pulls = (IF fails THEN pg.pulls ELSE Put(pg.pulls, p, "pending"))
      /\ mem'.pulls = (IF fails THEN mem.pulls ELSE Put(mem.pulls, p, "pending"))
      /\ KeptPg({"pulls"}) /\ KeptMem({"pulls"})
  BY <1>1, <1>2 DEF PgLockForPullGas, MemLockForPullGas, KeptPg, KeptMem, PgTables, MemTables, Tables
<1>4. Ticks  BY <1>2 DEF Ticks
<1>5. StorageTypeOK'  BY <1>3, <1>4, TypesStay, Zenon
<1>6. TablesEqual'
  BY <1>3 DEF StorageIInv, TablesEqual, KeptPg, KeptMem, PgTables, MemTables, Tables
<1>7. StatusesFollow'  BY <1>3, <1>4, StatusesStay, Zenon
<1>8. BundlesFollow'  BY <1>3, <1>4, BundlesStay, Zenon
<1>9. TransfersFollow'  BY <1>3, <1>4, TransfersStay, Zenon
<1>10. LinksFollow'  BY <1>3, LinksStay, Zenon
<1> QED  BY <1>5, <1>6, <1>7, <1>8, <1>9, <1>10 DEF StorageIInv

LEMMA UpdatePullKeeps ==
  ASSUME StorageIInv, NEW p, NEW s, UpdatePullGas(p, s)
  PROVE  StorageIInv'
<1>1. DOMAIN pg = PgTables /\ DOMAIN mem = MemTables  BY DEF StorageIInv, StorageTypeOK
<1>2. pg' = PgUpdatePullGas(pg, p, s) /\ mem' = MemUpdatePullGas(mem, p, s) /\ clock' = clock
  BY DEF UpdatePullGas, Write
<1>3. /\ pg'.pulls = (IF p \in DOMAIN pg.pulls THEN Put(pg.pulls, p, s) ELSE pg.pulls)
      /\ mem'.pulls = (IF p \in DOMAIN mem.pulls THEN Put(mem.pulls, p, s) ELSE mem.pulls)
      /\ KeptPg({"pulls", "unlocks"}) /\ KeptMem({"pulls", "unlocks"})
  BY <1>1, <1>2 DEF PgUpdatePullGas, MemUpdatePullGas, Has, KeptPg, KeptMem, PgTables, MemTables, Tables
<1>4. Ticks  BY <1>2 DEF Ticks
<1>5. StorageTypeOK'  BY <1>3, <1>4, TypesStay, Zenon
<1>6. TablesEqual'
  BY <1>3 DEF StorageIInv, TablesEqual, KeptPg, KeptMem, PgTables, MemTables, Tables
<1>7. StatusesFollow'  BY <1>3, <1>4, StatusesStay, Zenon
<1>8. BundlesFollow'  BY <1>3, <1>4, BundlesStay, Zenon
<1>9. TransfersFollow'  BY <1>3, <1>4, TransfersStay, Zenon
<1>10. LinksFollow'  BY <1>3, LinksStay, Zenon
<1> QED  BY <1>5, <1>6, <1>7, <1>8, <1>9, <1>10 DEF StorageIInv

(***************************************************************************)
(* Accounts and precalls                                                   *)
(***************************************************************************)

LEMMA WriteAccountKeeps ==
  ASSUME StorageIInv, NEW a, NEW v, WriteAccount(a, v)
  PROVE  StorageIInv'
<1>1. DOMAIN pg = PgTables /\ DOMAIN mem = MemTables  BY DEF StorageIInv, StorageTypeOK
<1>2. pg' = PgWriteAccount(pg, a, v) /\ mem' = MemWriteAccount(mem, a, v) /\ clock' = clock
  BY DEF WriteAccount, Write
<1>3. pg'.accounts = Put(pg.accounts, a, v) /\ mem'.accounts = Put(mem.accounts, a, v)
      /\ KeptPg({"accounts"}) /\ KeptMem({"accounts"})
  BY <1>1, <1>2 DEF PgWriteAccount, MemWriteAccount, KeptPg, KeptMem, PgTables, MemTables, Tables
<1>4. Ticks  BY <1>2 DEF Ticks
<1>5. StorageTypeOK'  BY <1>3, <1>4, TypesStay, Zenon
<1>6. TablesEqual'
  BY <1>3 DEF StorageIInv, TablesEqual, KeptPg, KeptMem, PgTables, MemTables, Tables
<1>7. StatusesFollow'  BY <1>3, <1>4, StatusesStay, Zenon
<1>8. BundlesFollow'  BY <1>3, <1>4, BundlesStay, Zenon
<1>9. TransfersFollow'  BY <1>3, <1>4, TransfersStay, Zenon
<1>10. LinksFollow'  BY <1>3, LinksStay, Zenon
<1> QED  BY <1>5, <1>6, <1>7, <1>8, <1>9, <1>10 DEF StorageIInv

LEMMA StorePrecallKeeps ==
  ASSUME StorageIInv, NEW a, NEW n, StorePrecall(a, n)
  PROVE  StorageIInv'
<1>1. DOMAIN pg = PgTables /\ DOMAIN mem = MemTables  BY DEF StorageIInv, StorageTypeOK
<1>2. pg' = PgStorePrecall(pg, a, n) /\ mem' = MemStorePrecall(mem, a, n) /\ clock' = clock
  BY DEF StorePrecall, Write
<1>3. pg'.precalls = pg.precalls \cup {<<a, n>>} /\ mem'.precalls = mem.precalls \cup {<<a, n>>}
      /\ KeptPg({"precalls"}) /\ KeptMem({"precalls"})
  BY <1>1, <1>2 DEF PgStorePrecall, MemStorePrecall, KeptPg, KeptMem, PgTables, MemTables, Tables
<1>4. Ticks  BY <1>2 DEF Ticks
<1>5. StorageTypeOK'  BY <1>3, <1>4, TypesStay, Zenon
<1>6. TablesEqual'
  BY <1>3 DEF StorageIInv, TablesEqual, KeptPg, KeptMem, PgTables, MemTables, Tables
<1>7. StatusesFollow'  BY <1>3, <1>4, StatusesStay, Zenon
<1>8. BundlesFollow'  BY <1>3, <1>4, BundlesStay, Zenon
<1>9. TransfersFollow'  BY <1>3, <1>4, TransfersStay, Zenon
<1>10. LinksFollow'  BY <1>3, LinksStay, Zenon
<1> QED  BY <1>5, <1>6, <1>7, <1>8, <1>9, <1>10 DEF StorageIInv

LEMMA RemovePrecallKeeps ==
  ASSUME StorageIInv, NEW a, NEW n, RemovePrecall(a, n)
  PROVE  StorageIInv'
<1>1. DOMAIN pg = PgTables /\ DOMAIN mem = MemTables  BY DEF StorageIInv, StorageTypeOK
<1>2. pg' = PgRemovePrecall(pg, a, n) /\ mem' = MemRemovePrecall(mem, a, n) /\ clock' = clock
  BY DEF RemovePrecall, Write
<1>3. pg'.precalls = pg.precalls \ {<<a, n>>} /\ mem'.precalls = mem.precalls \ {<<a, n>>}
      /\ KeptPg({"precalls"}) /\ KeptMem({"precalls"})
  BY <1>1, <1>2 DEF PgRemovePrecall, MemRemovePrecall, KeptPg, KeptMem, PgTables, MemTables, Tables
<1>4. Ticks  BY <1>2 DEF Ticks
<1>5. StorageTypeOK'  BY <1>3, <1>4, TypesStay, Zenon
<1>6. TablesEqual'
  BY <1>3 DEF StorageIInv, TablesEqual, KeptPg, KeptMem, PgTables, MemTables, Tables
<1>7. StatusesFollow'  BY <1>3, <1>4, StatusesStay, Zenon
<1>8. BundlesFollow'  BY <1>3, <1>4, BundlesStay, Zenon
<1>9. TransfersFollow'  BY <1>3, <1>4, TransfersStay, Zenon
<1>10. LinksFollow'  BY <1>3, LinksStay, Zenon
<1> QED  BY <1>5, <1>6, <1>7, <1>8, <1>9, <1>10 DEF StorageIInv

(***************************************************************************)
(* The invariant is inductive                                              *)
(***************************************************************************)

LEMMA StorageInitInv == StorageInit => StorageIInv
<1> SUFFICES ASSUME StorageInit PROVE StorageIInv  OBVIOUS
<1>1. /\ DOMAIN pg = PgTables /\ \A k \in PgTables : pg[k] = IF k \in {"links", "diffs", "precalls"} THEN {} ELSE Empty
      /\ DOMAIN mem = MemTables /\ \A k \in MemTables : mem[k] = IF k \in {"diffs", "precalls"} THEN {} ELSE Empty
  BY DEF StorageInit, NoRows
<1>2. DOMAIN Empty = {} /\ Empty = [b \in {} |-> 1] /\ Empty \in [{} -> Nat]  BY DEF Empty
<1>3. /\ pg.pending = Empty /\ pg.links = {} /\ pg.refunds = Empty /\ pg.bundles = Empty /\ pg.finished = Empty
      /\ pg.txs = Empty /\ pg.transfers = Empty
      /\ mem.bundles = Empty /\ mem.finished = Empty /\ mem.statuses = Empty /\ mem.byAddress = Empty
      /\ mem.transfers = Empty /\ mem.links = Empty
  BY <1>1 DEF PgTables, MemTables, Tables
<1>4. StorageTypeOK
  <2>1. IsFiniteSet({})  BY FS_EmptySet
  <2> QED  BY <1>1, <1>2, <1>3, <2>1 DEF StorageInit, StorageTypeOK
<1>5. TablesEqual  BY <1>1 DEF TablesEqual, PgTables, MemTables, Tables
<1>6. StatusesFollow  BY <1>2, <1>3 DEF StatusesFollow
<1>7. BundlesFollow  BY <1>2, <1>3 DEF BundlesFollow
<1>8. TransfersFollow  BY <1>2, <1>3 DEF TransfersFollow
<1>9. LinksFollow  BY <1>2, <1>3 DEF LinksFollow
<1> QED  BY <1>4, <1>5, <1>6, <1>7, <1>8, <1>9 DEF StorageIInv

LEMMA StorageInductive == StorageIInv /\ [StorageNext]_storageVars => StorageIInv'
<1> SUFFICES ASSUME StorageIInv, [StorageNext]_storageVars PROVE StorageIInv'  OBVIOUS
<1>1. CASE \E t \in Single : \/ QueueTransaction(t) \/ ReplaceQueuedWithPending(t) \/ RemoveQueued(t)
                             \/ AddPendingEnvelope(t) \/ RemovePending(t) \/ StoreAssetDiffs(t) \/ AddBundleTx(t)
  BY <1>1, QueueTransactionKeeps, ReplaceQueuedKeeps, RemoveQueuedKeeps, AddEnvelopeKeeps, RemovePendingKeeps,
     StoreDiffsKeeps, AddBundleTxKeeps, Zenon
<1>2. CASE \E t \in Single, s \in Statuses : WriteStatus(t, s)  BY <1>2, WriteStatusKeeps, Zenon
<1>3. CASE \E b \in Interop : \/ StorePendingBundle(b) \/ MoveBundleToFinished(b) \/ UpdatePendingBundleStatus(b, "done")
                              \/ \E txs \in {{}, {b}} : UpdateBundleAndQueueTransactions(b, txs)
                              \/ StorePendingRefund(b) \/ MarkRefundReady(b) \/ RemoveProcessedRefund(b)
  BY <1>3, StorePendingBundleKeeps, MoveToFinishedKeeps, UpdateBundleStatusKeeps, UpdateAndQueueKeeps,
     StoreRefundKeeps, MarkReadyKeeps, RemoveRefundKeeps, Zenon
<1>4. CASE \E x \in Transfers : \/ LockLiquidityForBridge(x)
                                \/ \E d \in 1..2 : UpdateTransferBridgeData(x, d)
                                \/ \E s \in TransferStates : UpdateTransferState(x, s) \/ UpdateTransferStateAndUnlock(x, s)
  BY <1>4, LockBridgeKeeps, BridgeDataKeeps, TransferStateKeeps, TransferUnlockKeeps, Zenon
<1>5. CASE \E p \in Pulls : \/ \E fails \in BOOLEAN : LockLiquidityForPullGas(p, fails)
                            \/ \E s \in {"completed", "failed"} : UpdatePullGas(p, s)
  BY <1>5, LockPullKeeps, UpdatePullKeeps, Zenon
<1>6. CASE \E a \in Accounts, v \in 1..2 : WriteAccount(a, v) \/ StorePrecall(a, v) \/ RemovePrecall(a, v)
  BY <1>6, WriteAccountKeeps, StorePrecallKeeps, RemovePrecallKeeps, Zenon
<1>7. CASE UNCHANGED storageVars
  <2>1. pg' = pg /\ mem' = mem /\ clock' = clock  BY <1>7 DEF storageVars
  <2>2. KeptPg({}) /\ KeptMem({}) /\ Ticks  BY <2>1 DEF KeptPg, KeptMem, Ticks, StorageIInv, StorageTypeOK
  <2>3. StorageTypeOK'  BY <2>2, TypesStay
  <2>4. TablesEqual'  BY <2>2, TablesStay
  <2>5. StatusesFollow'  BY <2>2, StatusesStay
  <2>6. BundlesFollow'  BY <2>2, BundlesStay
  <2>7. TransfersFollow'  BY <2>2, TransfersStay
  <2>8. LinksFollow'  BY <2>2, LinksStay
  <2> QED  BY <2>3, <2>4, <2>5, <2>6, <2>7, <2>8 DEF StorageIInv
<1> QED  BY <1>1, <1>2, <1>3, <1>4, <1>5, <1>6, <1>7 DEF StorageNext

(***************************************************************************)
(* The reads agree                                                         *)
(***************************************************************************)

LEMMA StatusReadsAgree ==
  ASSUME StorageIInv, NEW t
  PROVE  PgReadStatus(pg, t) = MemReadStatus(mem, t)
  BY DEF StorageIInv, StatusesFollow, StatusRow, PgReadStatus, MemReadStatus, Has

LEMMA TransactionsAgreeNow == StorageIInv => StatusesParse /\ TransactionsAgree
<1> SUFFICES ASSUME StorageIInv PROVE StatusesParse /\ TransactionsAgree  OBVIOUS
<1>1. StatusesParse  BY DEF StorageIInv, StatusesFollow, StatusRow, StatusesParse
<1>2. ASSUME NEW ts \in SUBSET Tx
      PROVE  PgReadStatuses(pg, ts) = MemReadStatuses(mem, ts) /\ PgReadDiffs(pg, ts) = MemReadDiffs(mem, ts)
  <2>1. pg.diffs = mem.diffs  BY DEF StorageIInv, TablesEqual
  <2>2. PgReadDiffs(pg, ts) = MemReadDiffs(mem, ts)  BY <2>1 DEF PgReadDiffs, MemReadDiffs
  <2>3. PgReadStatuses(pg, ts) = [t \in ts |-> PgReadStatus(pg, t)]
    BY DEF PgReadStatuses, PgReadStatus, Has
  <2>4. \A t \in ts : PgReadStatus(pg, t) = MemReadStatus(mem, t)  BY StatusReadsAgree
  <2>5. PgReadStatuses(pg, ts) = MemReadStatuses(mem, ts)  BY <2>3, <2>4 DEF MemReadStatuses
  <2> QED  BY <2>2, <2>5
<1>3. ASSUME NEW c \in Chains, c <= MaxI32
      PROVE  PgReadQueued(pg, c) = MemReadQueued(mem, c) /\ PgReadPending(pg, c) = MemReadPending(mem, c)
  <2>1. AsI32(c) = c  BY <1>3 DEF AsI32
  <2>2. pg.queued = mem.queued /\ pg.pending = mem.pending  BY DEF StorageIInv, TablesEqual
  <2>3. PgReadQueued(pg, c) = MemReadQueued(mem, c)  BY <2>1, <2>2 DEF PgReadQueued, MemReadQueued
  <2>4. PgReadPending(pg, c) = MemReadPending(mem, c)  BY <2>1, <2>2 DEF PgReadPending, MemReadPending
  <2> QED  BY <2>3, <2>4
<1>4. \A t \in Tx : PgReadStatus(pg, t) = MemReadStatus(mem, t)  BY StatusReadsAgree
<1> QED  BY <1>1, <1>2, <1>3, <1>4 DEF TransactionsAgree

LEMMA BundlesAgreeNow == StorageIInv => BundlesAgree
<1> SUFFICES ASSUME StorageIInv PROVE BundlesAgree  OBVIOUS
<1>1. pg.refunds = mem.refunds  BY DEF StorageIInv, TablesEqual
<1>2. \A b : PgGetBundleTxs(pg, b) = MemGetBundleTxs(mem, b)
  BY DEF StorageIInv, LinksFollow, PgGetBundleTxs, MemGetBundleTxs, Has
<1> PICK f, g, u, v : f = pg.bundles /\ g = mem.bundles /\ u = pg.finished /\ v = mem.finished  OBVIOUS
<1>3. /\ DOMAIN f = DOMAIN g /\ DOMAIN u = DOMAIN v
      /\ \A b \in DOMAIN f : f[b].status = g[b].status
      /\ \A b \in DOMAIN u : u[b].status = v[b].status
  BY DEF StorageIInv, BundlesFollow
<1>4. ASSUME NEW b \in Interop
      PROVE  /\ MemInteropStatus(mem, b) \subseteq PgInteropStatus(pg, b)
             /\ MemInteropStatus(mem, b) = {} => PgInteropStatus(pg, b) = {}
             /\ PgGetPendingBundle(pg, b) = MemGetPendingBundle(mem, b)
             /\ PgGetFinished(pg, b) = MemGetFinished(mem, b)
  <2>1. PgGetPendingBundle(pg, b) = MemGetPendingBundle(mem, b)
    BY <1>3 DEF PgGetPendingBundle, MemGetPendingBundle, Has
  <2>2. PgGetFinished(pg, b) = MemGetFinished(mem, b)  BY <1>3 DEF PgGetFinished, MemGetFinished, Has
  <2>3. PgInteropStatus(pg, b) = {f[x].status : x \in {b} \cap DOMAIN f} \cup {u[x].status : x \in {b} \cap DOMAIN u}
    BY DEF PgInteropStatus
  <2>4. MemInteropStatus(mem, b) = IF b \in DOMAIN g THEN {g[b].status} ELSE IF b \in DOMAIN v THEN {v[b].status} ELSE {}
    BY DEF MemInteropStatus, Has
  <2>5. CASE b \in DOMAIN f  BY <1>3, <2>1, <2>2, <2>3, <2>4, <2>5
  <2>6. CASE b \in DOMAIN u  BY <1>3, <2>1, <2>2, <2>3, <2>4, <2>6
  <2>7. CASE b \notin DOMAIN f /\ b \notin DOMAIN u  BY <1>3, <2>1, <2>2, <2>3, <2>4, <2>7
  <2> QED  BY <2>5, <2>6, <2>7
<1>5. PgGetPendingBundles(pg) = MemGetPendingBundles(mem)
  BY <1>3 DEF PgGetPendingBundles, MemGetPendingBundles
<1>6. \A now \in 0..2 : PgRefundsReady(pg, now) = MemRefundsReady(mem, now)
  BY <1>1 DEF PgRefundsReady, MemRefundsReady
<1> QED  BY <1>2, <1>4, <1>5, <1>6 DEF BundlesAgree

LEMMA TransfersAgreeNow == StorageIInv => TransfersAgree
<1> SUFFICES ASSUME StorageIInv PROVE TransfersAgree  OBVIOUS
<1> PICK f, g : f = pg.transfers /\ g = mem.transfers  OBVIOUS
<1>1. DOMAIN f = DOMAIN g /\ \A x \in DOMAIN f : SameTransfer(f[x], g[x])  BY TransfersFollowRows DEF StorageIInv
<1>2. \A x \in DOMAIN pg.transfers : PgGetBridgeData(pg, x) = MemGetBridgeData(mem, x)
  BY <1>1 DEF PgGetBridgeData, MemGetBridgeData, Has, SameTransfer
<1>3. \A x \in DOMAIN pg.transfers : PgGetTransferState(pg, x) = MemGetTransferState(mem, x)
  BY DEF StorageIInv, TransfersFollow
<1>4. \A x \in DOMAIN f : f[x].status = g[x].state.kind
  <2> TAKE x \in DOMAIN f
  <2> PICK r, e : r = f[x] /\ e = g[x]  OBVIOUS
  <2>1. SameTransfer(r, e)  BY <1>1
  <2>2. r.status = e.state.kind  BY <2>1 DEF SameTransfer, TransferState
  <2> QED  BY <2>2
<1>5. PgLoadPendingTransfers(pg) = MemLoadPendingTransfers(mem)
  BY <1>1, <1>4 DEF PgLoadPendingTransfers, MemLoadPendingTransfers
<1>6. PgLoadPendingPulls(pg) = MemLoadPendingPulls(mem)
  BY DEF PgLoadPendingPulls, MemLoadPendingPulls, StorageIInv, TablesEqual
<1> QED  BY <1>2, <1>3, <1>5, <1>6 DEF TransfersAgree

LEMMA AccountsAgreeNow == StorageIInv => AccountsAgree
<1> SUFFICES ASSUME StorageIInv PROVE AccountsAgree  OBVIOUS
<1>1. pg.accounts = mem.accounts /\ pg.precalls = mem.precalls  BY DEF StorageIInv, TablesEqual
<1> QED  BY <1>1 DEF AccountsAgree, PgReadAccount, MemReadAccount, PgReadPrecalls, MemReadPrecalls, Has

\* The rows of the history, by table.
SingleTxs ==
  {x \in pg.links \cap DOMAIN pg.txs :
     pg.txs[x].data /\ ~Has(pg.bundles, BundleOf[x]) /\ ~Has(pg.finished, BundleOf[x])}
PendingRow(b) == HistoryRow("pending", b, b, pg.bundles[b].created)
FinishedRow(b) == HistoryRow("finished", b, b, pg.finished[b].finished)
SingleRow(t) == HistoryRow("single", BundleOf[t], t, pg.txs[t].received)

LEMMA HistoryRows ==
  /\ PgPendingRows(pg) = {PendingRow(b) : b \in DOMAIN pg.bundles}
  /\ PgFinishedRows(pg) = {FinishedRow(b) : b \in DOMAIN pg.finished}
  /\ PgSingleRows(pg) = {SingleRow(t) : t \in SingleTxs}
  BY DEF PgPendingRows, PgFinishedRows, PgSingleRows, PendingRow, FinishedRow, SingleRow, SingleTxs

LEMMA RowFields ==
  /\ \A b : PendingRow(b).table = "pending" /\ PendingRow(b).id = b /\ PendingRow(b).tx = b
  /\ \A b : FinishedRow(b).table = "finished" /\ FinishedRow(b).id = b /\ FinishedRow(b).tx = b
  /\ \A t : SingleRow(t).table = "single" /\ SingleRow(t).id = BundleOf[t] /\ SingleRow(t).tx = t
  BY DEF PendingRow, FinishedRow, SingleRow, HistoryRow

LEMMA RowTimes ==
  /\ \A b : PendingRow(b).at = pg.bundles[b].created
  /\ \A b : FinishedRow(b).at = pg.finished[b].finished
  /\ \A t : SingleRow(t).at = pg.txs[t].received
  BY DEF PendingRow, FinishedRow, SingleRow, HistoryRow

\* Every transaction that is linked and queued is in the history.
LEMMA SingleTxsAre ==
  ASSUME StorageIInv
  PROVE  /\ SingleTxs = pg.links \cap DOMAIN pg.txs
         /\ \A t \in pg.links : BundleOf[t] \notin Interop
         /\ DOMAIN pg.bundles \cup DOMAIN pg.finished \subseteq Interop
<1>1. pg.links \subseteq Single  BY DEF StorageIInv, StorageTypeOK
<1>2. \A t \in pg.links : BundleOf[t] \notin Interop  BY <1>1, StorageAssumption
<1>3. DOMAIN pg.bundles \cup DOMAIN pg.finished \subseteq Interop  BY DEF StorageIInv, BundlesFollow
<1>4. \A t \in DOMAIN pg.txs : t \in Single => pg.txs[t].data  BY DEF StorageIInv, StatusesFollow
<1> QED  BY <1>1, <1>2, <1>3, <1>4 DEF SingleTxs, Has

\* The first transaction of a bundle is one of its transactions.
LEMMA FirstIs ==
  ASSUME StorageIInv
  PROVE  /\ \A b \in DOMAIN mem.links : First(mem, b) \in pg.links /\ BundleOf[First(mem, b)] = b
         /\ \A t \in pg.links : BundleOf[t] \in DOMAIN mem.links
<1> PICK f, L : f = mem.links /\ L = pg.links  OBVIOUS
<1>1. /\ DOMAIN f = {BundleOf[u] : u \in L}
      /\ \A c \in DOMAIN f : f[c] \in Seq(L) /\ Len(f[c]) > 0 /\ Range(f[c]) = {u \in L : BundleOf[u] = c}
  BY DEF StorageIInv, LinksFollow, PgGetBundleTxs
<1>2. ASSUME NEW b \in DOMAIN f PROVE f[b][1] \in L /\ BundleOf[f[b][1]] = b
  <2> PICK q : q = f[b]  OBVIOUS
  <2>1. q \in Seq(L) /\ Len(q) > 0 /\ Range(q) = {u \in L : BundleOf[u] = b}  BY <1>1
  <2>2. 1 \in DOMAIN q  BY <2>1
  <2>3. q[1] \in Range(q)  BY <2>2 DEF Range
  <2> QED  BY <2>1, <2>3
<1> QED  BY <1>1, <1>2 DEF First

LEMMA HistoriesAgreeNow == StorageIInv => HistoriesAgree
<1> SUFFICES ASSUME StorageIInv PROVE HistoriesAgree  OBVIOUS
<1> DEFINE T == {t \in SingleTxs : t = First(mem, BundleOf[t]) /\ PgReadStatus(pg, t).hash # None}
           H == {e \in PgHistory(pg) : MemLists(e)}
<1>1. DOMAIN pg.bundles = DOMAIN mem.bundles /\ DOMAIN pg.finished = DOMAIN mem.finished
  BY DEF StorageIInv, BundlesFollow
<1>2. DOMAIN pg.txs = DOMAIN mem.statuses /\ DOMAIN pg.txs = DOMAIN mem.byAddress
  BY DEF StorageIInv, StatusesFollow
<1>3. \A t \in DOMAIN pg.txs : PgReadStatus(pg, t) = mem.statuses[t]
  BY <1>2, StatusReadsAgree DEF MemReadStatus, Has
<1>4. MemSingles(mem) = {BundleOf[t] : t \in T}
  <2>1. ASSUME NEW b \in MemSingles(mem) PROVE b \in {BundleOf[t] : t \in T}
    <3> PICK t : t = First(mem, b)  OBVIOUS
    <3>1. b \in DOMAIN mem.links /\ t \in DOMAIN mem.statuses /\ mem.statuses[t].hash # None
      BY <2>1 DEF MemSingles, Has
    <3>2. t \in pg.links /\ BundleOf[t] = b  BY <3>1, FirstIs
    <3>3. t \in SingleTxs  BY <1>2, <3>1, <3>2, SingleTxsAre
    <3>4. PgReadStatus(pg, t).hash # None  BY <1>2, <1>3, <3>1
    <3> QED  BY <3>2, <3>3, <3>4
  <2>2. ASSUME NEW t \in T PROVE BundleOf[t] \in MemSingles(mem)
    <3> PICK b : b = BundleOf[t]  OBVIOUS
    <3>1. t \in pg.links /\ t \in DOMAIN pg.txs /\ t = First(mem, b)  BY SingleTxsAre
    <3>2. b \in DOMAIN mem.links /\ b \notin Interop  BY <3>1, FirstIs, SingleTxsAre
    <3>3. b \notin DOMAIN mem.bundles /\ b \notin DOMAIN mem.finished  BY <1>1, <3>2, SingleTxsAre
    <3>4. mem.statuses[t].hash # None  BY <1>3, <3>1
    <3> QED  BY <1>2, <3>1, <3>2, <3>3, <3>4 DEF MemSingles, Has
  <2> QED  BY <2>1, <2>2
<1>5. H = PgPendingRows(pg) \cup PgFinishedRows(pg) \cup {SingleRow(t) : t \in T}
  <2>1. \A b : MemLists(PendingRow(b)) /\ MemLists(FinishedRow(b))  BY RowFields DEF MemLists
  <2>2. \A t : MemLists(SingleRow(t)) <=> t = First(mem, BundleOf[t]) /\ PgReadStatus(pg, t).hash # None
    BY RowFields DEF MemLists
  <2>3. PgHistory(pg) = PgPendingRows(pg) \cup PgFinishedRows(pg) \cup {SingleRow(t) : t \in SingleTxs}
    BY HistoryRows DEF PgHistory
  <2> HIDE DEF SingleTxs
  <2> QED  BY <2>1, <2>2, <2>3, HistoryRows
<1>6. {<<e.table, e.id>> : e \in H}
        = {<<"pending", b>> : b \in DOMAIN pg.bundles} \cup {<<"finished", b>> : b \in DOMAIN pg.finished}
            \cup {<<"single", BundleOf[t]>> : t \in T}
  <2> HIDE DEF H, T
  <2>1. H = {PendingRow(b) : b \in DOMAIN pg.bundles} \cup {FinishedRow(b) : b \in DOMAIN pg.finished}
              \cup {SingleRow(t) : t \in T}
    BY <1>5, HistoryRows
  <2> QED  BY <2>1, RowFields
<1>7. MemHistory(mem)
        = {<<"pending", b>> : b \in DOMAIN pg.bundles} \cup {<<"finished", b>> : b \in DOMAIN pg.finished}
            \cup {<<"single", BundleOf[t]>> : t \in T}
  <2> HIDE DEF T
  <2> QED  BY <1>1, <1>4 DEF MemHistory
<1> QED  BY <1>6, <1>7 DEF HistoriesAgree

\* As many values as arguments, if no two have the same.
LEMMA ValuesCount ==
  ASSUME NEW D, IsFiniteSet(D), NEW R, NEW f \in [D -> R], \A x, y \in D : f[x] = f[y] => x = y,
         \A z \in R : \E x \in D : z = f[x]
  PROVE  IsFiniteSet(R) /\ Cardinality(R) = Cardinality(D) /\ Cardinality(R) \in Nat
<1>1. f \in Bijection(D, R)  BY DEF Bijection, Injection, IsInjective, Surjection
<1>2. ExistsBijection(D, R)  BY <1>1 DEF ExistsBijection
<1>3. IsFiniteSet(R) /\ Cardinality(R) = Cardinality(D)  BY <1>2, FS_Bijection
<1> QED  BY <1>3, FS_CardinalityType

\* The size of a union of sets that have nothing in common.
LEMMA DisjointCount ==
  ASSUME NEW A, NEW B, IsFiniteSet(A), IsFiniteSet(B), A \cap B = {}
  PROVE  IsFiniteSet(A \cup B) /\ Cardinality(A \cup B) = Cardinality(A) + Cardinality(B)
<1>1. IsFiniteSet(A \cup B) /\ Cardinality(A \cup B) = Cardinality(A) + Cardinality(B) - Cardinality(A \cap B)
  BY FS_Union
<1>2. Cardinality(A \cap B) = 0  BY FS_EmptySet
<1>3. Cardinality(A) \in Nat /\ Cardinality(B) \in Nat  BY FS_CardinalityType
<1> QED  BY <1>1, <1>2, <1>3

LEMMA RowsFinite ==
  ASSUME StorageIInv
  PROVE  /\ IsFiniteSet(PgPendingRows(pg)) /\ Cardinality(PgPendingRows(pg)) = Cardinality(DOMAIN pg.bundles)
         /\ IsFiniteSet(PgFinishedRows(pg)) /\ Cardinality(PgFinishedRows(pg)) = Cardinality(DOMAIN pg.finished)
         /\ IsFiniteSet(PgSingleRows(pg))
<1>1. IsFiniteSet(DOMAIN pg.bundles) /\ IsFiniteSet(DOMAIN pg.finished) /\ IsFiniteSet(pg.links)
  BY DEF StorageIInv, StorageTypeOK
<1>2. IsFiniteSet(PgPendingRows(pg)) /\ Cardinality(PgPendingRows(pg)) = Cardinality(DOMAIN pg.bundles)
  <2> PICK D, R : D = DOMAIN pg.bundles /\ R = PgPendingRows(pg)  OBVIOUS
  <2> PICK f : f = [b \in D |-> PendingRow(b)]  OBVIOUS
  <2>1. f \in [D -> R] /\ (\A z \in R : \E x \in D : z = f[x]) /\ \A x \in D : f[x].id = x  BY HistoryRows, RowFields
  <2>2. \A x, y \in D : f[x] = f[y] => x = y  BY <2>1
  <2> QED  BY <1>1, <2>1, <2>2, ValuesCount
<1>3. IsFiniteSet(PgFinishedRows(pg)) /\ Cardinality(PgFinishedRows(pg)) = Cardinality(DOMAIN pg.finished)
  <2> PICK D, R : D = DOMAIN pg.finished /\ R = PgFinishedRows(pg)  OBVIOUS
  <2> PICK f : f = [b \in D |-> FinishedRow(b)]  OBVIOUS
  <2>1. f \in [D -> R] /\ (\A z \in R : \E x \in D : z = f[x]) /\ \A x \in D : f[x].id = x  BY HistoryRows, RowFields
  <2>2. \A x, y \in D : f[x] = f[y] => x = y  BY <2>1
  <2> QED  BY <1>1, <2>1, <2>2, ValuesCount
<1>4. IsFiniteSet(PgSingleRows(pg))
  <2> PICK D, R : D = SingleTxs /\ R = PgSingleRows(pg)  OBVIOUS
  <2>0. IsFiniteSet(D)
    <3>1. D \in SUBSET pg.links  BY DEF SingleTxs
    <3> QED  BY <1>1, <3>1, FS_Subset
  <2> PICK f : f = [t \in D |-> SingleRow(t)]  OBVIOUS
  <2>1. f \in [D -> R] /\ (\A z \in R : \E x \in D : z = f[x]) /\ \A x \in D : f[x].tx = x  BY HistoryRows, RowFields
  <2>2. \A x, y \in D : f[x] = f[y] => x = y  BY <2>1
  <2> QED  BY <2>0, <2>1, <2>2, ValuesCount
<1> QED  BY <1>2, <1>3, <1>4

\* The bundles that the in-memory storage counts are the rows that MemCounts holds of.
LEMMA CountsAgreeNow == StorageIInv => CountsAgree
<1> SUFFICES ASSUME StorageIInv, pg.links \subseteq DOMAIN pg.txs
             PROVE  MemBundleCount(mem) + Cardinality({e \in PgSingleRows(pg) : ~MemCounts(e)}) = PgBundleCount(pg)
  BY DEF CountsAgree
<1> PICK S, Yes, No, D : /\ S = PgSingleRows(pg) /\ Yes = {e \in S : MemCounts(e)} /\ No = {e \in S : ~MemCounts(e)}
                         /\ D = {b \in DOMAIN mem.links : Found(mem, First(mem, b))}
  OBVIOUS
<1>1. S = {SingleRow(t) : t \in pg.links}  BY HistoryRows, SingleTxsAre
<1>2. \A t : MemCounts(SingleRow(t)) <=> t = First(mem, BundleOf[t]) /\ Found(mem, t)  BY RowFields DEF MemCounts
<1>3. IsFiniteSet(Yes) /\ IsFiniteSet(No)
  <2>1. IsFiniteSet(S) /\ Yes \in SUBSET S /\ No \in SUBSET S  BY RowsFinite
  <2> QED  BY <2>1, FS_Subset
<1>4. Cardinality(S) = Cardinality(Yes) + Cardinality(No)
  <2>1. S = Yes \cup No /\ Yes \cap No = {}  OBVIOUS
  <2> QED  BY <1>3, <2>1, DisjointCount
<1>5. Cardinality(Yes) = Cardinality(D)
  <2>0. \A b \in DOMAIN mem.links : First(mem, b) \in pg.links /\ BundleOf[First(mem, b)] = b  BY FirstIs
  <2> PICK f : f = [e \in Yes |-> e.id]  OBVIOUS
  <2>1. \A e \in Yes : \E t \in pg.links : e = SingleRow(t) /\ t = First(mem, BundleOf[t]) /\ Found(mem, t)
    BY <1>1, <1>2
  <2>2. \A e \in Yes : e = SingleRow(First(mem, e.id)) /\ e.id \in D
    <3> TAKE e \in Yes
    <3> PICK t \in pg.links : e = SingleRow(t) /\ t = First(mem, BundleOf[t]) /\ Found(mem, t)  BY <2>1
    <3>1. e.id = BundleOf[t]  BY RowFields
    <3>2. BundleOf[t] \in DOMAIN mem.links  BY FirstIs
    <3> QED  BY <3>1, <3>2
  <2>3. f \in [Yes -> D]  BY <2>2
  <2>4. \A x, y \in Yes : f[x] = f[y] => x = y
    <3> TAKE x, y \in Yes
    <3>1. f[x] = x.id /\ f[y] = y.id  OBVIOUS
    <3>2. x.id = y.id => x = y  BY <2>2
    <3> QED  BY <3>1, <3>2
  <2>5. \A b \in D : \E e \in Yes : b = f[e]
    <3> TAKE b \in D
    <3> PICK t, e : t = First(mem, b) /\ e = SingleRow(t)  OBVIOUS
    <3>1. t \in pg.links /\ BundleOf[t] = b /\ Found(mem, t)  BY <2>0
    <3>2. e \in Yes  BY <1>1, <1>2, <3>1
    <3>3. e.id = b  BY <3>1, RowFields
    <3> QED  BY <3>2, <3>3
  <2> QED  BY <1>3, <2>3, <2>4, <2>5, ValuesCount
<1>6. DOMAIN pg.bundles = DOMAIN mem.bundles /\ DOMAIN pg.finished = DOMAIN mem.finished
  BY DEF StorageIInv, BundlesFollow
<1>7. /\ Cardinality(Yes) \in Nat /\ Cardinality(No) \in Nat
      /\ Cardinality(DOMAIN pg.bundles) \in Nat /\ Cardinality(DOMAIN pg.finished) \in Nat
  BY <1>3, FS_CardinalityType DEF StorageIInv, StorageTypeOK
<1>8. MemBundleCount(mem) = Cardinality(DOMAIN pg.bundles) + Cardinality(DOMAIN pg.finished) + Cardinality(D)
  BY <1>6 DEF MemBundleCount
<1>9. PgBundleCount(pg) = Cardinality(DOMAIN pg.bundles) + Cardinality(DOMAIN pg.finished) + Cardinality(S)
  BY DEF PgBundleCount
<1> QED  BY <1>4, <1>5, <1>7, <1>8, <1>9

(***************************************************************************)
(* Pages                                                                   *)
(***************************************************************************)

\* A non-empty set of numbers has a least one.
LEMMA LeastNumber ==
  ASSUME NEW T, T \subseteq Nat, T # {}
  PROVE  \E x \in T : \A y \in T : x <= y
<1> DEFINE Lt == {ss \in Nat \X Nat : ss[1] < ss[2]}
<1>1. IsWellFoundedOn(Lt, Nat)  BY NatLessThanWellFounded DEF OpToRel
<1> HIDE DEF Lt
<1>2. PICK x \in T : \A y \in T : ~ (<<y, x>> \in Lt)  BY <1>1, WFMin
<1>3. ASSUME NEW y \in T PROVE x <= y
  <2>1. x \in Nat /\ y \in Nat  OBVIOUS
  <2>2. y < x => <<y, x>> \in Lt  BY <2>1 DEF Lt
  <2> QED  BY <1>2, <2>1, <2>2
<1> QED  BY <1>3

\* Rows with times up to c.
Timed(rows, c) == \A e \in rows : e.at \in 0..c

\* Some row of a table comes first.
LEMMA FirstRow ==
  ASSUME NEW T, T # {}, NEW c \in Nat, Timed(T, c), NEW desc \in BOOLEAN
  PROVE  \E f \in T : \A g \in T : ~Before(g, f, desc)
<1>1. CASE desc
  <2> DEFINE N == {c - e.at : e \in T}
  <2>1. N \subseteq Nat /\ N # {}  BY DEF Timed
  <2>2. PICK x \in N : \A y \in N : x <= y  BY <2>1, LeastNumber
  <2>3. PICK f \in T : x = c - f.at  OBVIOUS
  <2>4. \A g \in T : ~Before(g, f, desc)
    <3> TAKE g \in T
    <3>1. c - f.at <= c - g.at  BY <2>2, <2>3
    <3>2. f.at \in Nat /\ g.at \in Nat  BY DEF Timed
    <3> QED  BY <1>1, <3>1, <3>2 DEF Before
  <2> QED  BY <2>4
<1>2. CASE ~desc
  <2> DEFINE N == {e.at : e \in T}
  <2>1. N \subseteq Nat /\ N # {}  BY DEF Timed
  <2>2. PICK x \in N : \A y \in N : x <= y  BY <2>1, LeastNumber
  <2>3. PICK f \in T : x = f.at  OBVIOUS
  <2>4. \A g \in T : ~Before(g, f, desc)
    <3> TAKE g \in T
    <3>1. f.at <= g.at  BY <2>2, <2>3
    <3>2. f.at \in Nat /\ g.at \in Nat  BY DEF Timed
    <3> QED  BY <1>2, <3>1, <3>2 DEF Before
  <2> QED  BY <2>4
<1> QED  BY <1>1, <1>2

LEMMA BeforeTransitive ==
  ASSUME NEW c \in Nat, NEW U, Timed(U, c), NEW desc \in BOOLEAN, NEW e \in U, NEW f \in U, NEW g \in U,
         Before(g, f, desc), Before(f, e, desc)
  PROVE  Before(g, e, desc)
<1>1. e.at \in Nat /\ f.at \in Nat /\ g.at \in Nat  BY DEF Timed
<1> QED  BY <1>1 DEF Before

\* The rows before e.
Ahead(rows, e, desc) == {f \in rows : Before(f, e, desc)}

LEMMA LimitIs ==
  ASSUME NEW rows, NEW n, NEW desc
  PROVE  Limit(rows, n, desc) = {e \in rows : Cardinality(Ahead(rows, e, desc)) < n}
  BY DEF Limit, Ahead

LEMMA AheadCount ==
  ASSUME NEW U, IsFiniteSet(U), NEW X \in SUBSET U, NEW e, NEW desc
  PROVE  /\ IsFiniteSet(Ahead(X, e, desc)) /\ IsFiniteSet(Ahead(U, e, desc))
         /\ Cardinality(Ahead(X, e, desc)) \in Nat /\ Cardinality(Ahead(U, e, desc)) \in Nat
         /\ Cardinality(Ahead(X, e, desc)) <= Cardinality(Ahead(U, e, desc))
<1>1. Ahead(U, e, desc) \in SUBSET U /\ Ahead(X, e, desc) \in SUBSET Ahead(U, e, desc)  BY DEF Ahead
<1>2. IsFiniteSet(Ahead(U, e, desc))  BY <1>1, FS_Subset
<1>3. IsFiniteSet(Ahead(X, e, desc)) /\ Cardinality(Ahead(X, e, desc)) <= Cardinality(Ahead(U, e, desc))
  BY <1>1, <1>2, FS_Subset
<1> QED  BY <1>2, <1>3, FS_CardinalityType

\* A finite table; X is a part of it that has its first n rows.
Table(U) == IsFiniteSet(U) /\ \E c \in Nat : Timed(U, c)
KeepsFirst(X, U, n, desc) == Table(U) /\ X \in SUBSET U /\ Limit(U, n, desc) \subseteq X

\* A table that keeps the first n rows of another is cut alike up to n.
LEMMA LimitInside ==
  ASSUME NEW U, NEW X, NEW desc \in BOOLEAN, NEW n \in Nat, NEW m \in Nat, m <= n, KeepsFirst(X, U, n, desc)
  PROVE  Limit(X, m, desc) = Limit(U, m, desc)
<1>0. IsFiniteSet(U) /\ X \in SUBSET U /\ Limit(U, n, desc) \subseteq X  BY DEF KeepsFirst, Table
<1> PICK c \in Nat : Timed(U, c)  BY DEF KeepsFirst, Table
<1>1. ASSUME NEW e \in Limit(U, m, desc) PROVE e \in Limit(X, m, desc)
  <2>1. e \in U /\ Cardinality(Ahead(U, e, desc)) < m  BY LimitIs
  <2>2. /\ Cardinality(Ahead(X, e, desc)) \in Nat /\ Cardinality(Ahead(U, e, desc)) \in Nat
        /\ Cardinality(Ahead(X, e, desc)) <= Cardinality(Ahead(U, e, desc))
    BY <1>0, AheadCount
  <2>3. Cardinality(Ahead(U, e, desc)) < n /\ Cardinality(Ahead(X, e, desc)) < m  BY <2>1, <2>2
  <2>4. e \in X  BY <1>0, <2>1, <2>3, LimitIs
  <2> QED  BY <2>3, <2>4, LimitIs
<1>2. ASSUME NEW e \in Limit(X, m, desc), e \notin Limit(U, m, desc) PROVE FALSE
  <2>1. e \in X /\ e \in U /\ Cardinality(Ahead(X, e, desc)) < m  BY <1>0, LimitIs
  <2> DEFINE T == Ahead(U, e, desc) \ X
  <2>2. T # {}
    <3> SUFFICES ASSUME T = {} PROVE FALSE  OBVIOUS
    <3>1. Ahead(U, e, desc) = Ahead(X, e, desc)  BY <1>0 DEF Ahead
    <3> QED  BY <1>2, <2>1, <3>1, LimitIs
  <2>3. Timed(T, c)  BY DEF Timed, Ahead
  <2>4. PICK f \in T : \A g \in T : ~Before(g, f, desc)
    <3> HIDE DEF T
    <3> QED  BY <2>2, <2>3, FirstRow
  <2>5. f \in U /\ f \notin X /\ Before(f, e, desc)  BY DEF Ahead
  <2>6. Ahead(U, f, desc) \in SUBSET Ahead(X, e, desc)
    <3> SUFFICES ASSUME NEW g \in U, Before(g, f, desc) PROVE g \in X /\ Before(g, e, desc)
      BY DEF Ahead
    <3>1. Before(g, e, desc)  BY <2>1, <2>5, BeforeTransitive
    <3>2. g \notin T  BY <2>4
    <3> QED  BY <3>1, <3>2 DEF Ahead
  <2>7. ~(Cardinality(Ahead(U, f, desc)) < n)  BY <1>0, <2>5, LimitIs
  <2>8. Cardinality(Ahead(U, f, desc)) <= Cardinality(Ahead(X, e, desc))
    <3>1. IsFiniteSet(Ahead(X, e, desc))  BY <1>0, AheadCount
    <3> QED  BY <2>6, <3>1, FS_Subset
  <2>9. Cardinality(Ahead(U, f, desc)) \in Nat /\ Cardinality(Ahead(X, e, desc)) \in Nat  BY <1>0, AheadCount
  <2> QED  BY <2>1, <2>7, <2>8, <2>9
<1> QED  BY <1>1, <1>2

\* The first rows of a union are among the first rows of its parts.
LEMMA LimitOfUnion ==
  ASSUME NEW A, NEW B, IsFiniteSet(A \cup B), NEW n \in Nat, NEW desc
  PROVE  Limit(A \cup B, n, desc) \subseteq Limit(A, n, desc) \cup Limit(B, n, desc)
<1> SUFFICES ASSUME NEW e \in Limit(A \cup B, n, desc) PROVE e \in Limit(A, n, desc) \cup Limit(B, n, desc)  OBVIOUS
<1> PICK U : U = A \cup B  OBVIOUS
<1>1. e \in U /\ Cardinality(Ahead(U, e, desc)) < n  BY LimitIs
<1>2. \A X \in SUBSET U : /\ Cardinality(Ahead(X, e, desc)) \in Nat /\ Cardinality(Ahead(U, e, desc)) \in Nat
                          /\ Cardinality(Ahead(X, e, desc)) <= Cardinality(Ahead(U, e, desc))
  BY AheadCount
<1>3. CASE e \in A
  <2>1. A \in SUBSET U  OBVIOUS
  <2>2. Cardinality(Ahead(A, e, desc)) < n  BY <1>1, <1>2, <2>1
  <2> QED  BY <1>3, <2>2, LimitIs
<1>4. CASE e \in B
  <2>1. B \in SUBSET U  OBVIOUS
  <2>2. Cardinality(Ahead(B, e, desc)) < n  BY <1>1, <1>2, <2>1
  <2> QED  BY <1>4, <2>2, LimitIs
<1> QED  BY <1>1, <1>3, <1>4

SamePage(rows, U, limit, offset, desc) ==
  Limit(rows, offset + limit, desc) \ Limit(rows, offset, desc) = Limit(U, offset + limit, desc) \ Limit(U, offset, desc)

\* The rows that the branches of the query leave.
CutRows(P, F, S, n, desc) == Limit(Limit(P, n, desc) \cup Limit(F, n, desc), n, desc) \cup Limit(S, n, desc)

\* A page put together from branches that are cut at its end is the page of the union.
LEMMA PageOfCutBranches ==
  ASSUME NEW P, NEW F, NEW S, NEW U, U = P \cup F \cup S, Table(U),
         NEW desc \in BOOLEAN, NEW limit \in Nat, NEW offset \in Nat
  PROVE  SamePage(CutRows(P, F, S, limit + offset, desc), U, limit, offset, desc)
<1> PICK n, all : n = limit + offset /\ all = CutRows(P, F, S, n, desc)  OBVIOUS
<1> PICK M, Y : M = P \cup F /\ Y = Limit(P, n, desc) \cup Limit(F, n, desc)  OBVIOUS
<1>1. n \in Nat /\ offset <= n /\ n <= n /\ offset + limit = n  OBVIOUS
<1>2. \A rows : Limit(rows, n, desc) \subseteq rows  BY DEF Limit
<1>3. Table(M) /\ IsFiniteSet(M)
  <2>1. M \in SUBSET U  OBVIOUS
  <2>2. IsFiniteSet(M)  BY <2>1, FS_Subset DEF Table
  <2>3. \E c \in Nat : Timed(M, c)  BY <2>1 DEF Table, Timed
  <2> QED  BY <2>2, <2>3 DEF Table
<1>4. KeepsFirst(Y, M, n, desc)
  <2>1. Limit(M, n, desc) \subseteq Y  BY <1>1, <1>3, LimitOfUnion
  <2>2. Y \in SUBSET M  BY <1>2
  <2> QED  BY <1>3, <2>1, <2>2 DEF KeepsFirst
<1>5. Limit(Y, n, desc) = Limit(M, n, desc)  BY <1>1, <1>4, LimitInside
<1>6. all = Limit(M, n, desc) \cup Limit(S, n, desc)  BY <1>5 DEF CutRows
<1>7. KeepsFirst(all, U, n, desc)
  <2>1. U = M \cup S /\ IsFiniteSet(U)  BY DEF Table
  <2>2. Limit(U, n, desc) \subseteq Limit(M, n, desc) \cup Limit(S, n, desc)  BY <1>1, <2>1, LimitOfUnion
  <2>3. all \in SUBSET U  BY <1>2, <1>6
  <2> QED  BY <1>6, <2>2, <2>3 DEF KeepsFirst
<1>8. Limit(all, n, desc) = Limit(U, n, desc)  BY <1>1, <1>7, LimitInside
<1>9. Limit(all, offset, desc) = Limit(U, offset, desc)  BY <1>1, <1>7, LimitInside
<1>10. SamePage(all, U, limit, offset, desc)  BY <1>1, <1>8, <1>9 DEF SamePage
<1> QED  BY <1>10

\* The pages of every length, from every offset.
EveryPageSlices ==
  \A limit, offset \in Nat, desc \in BOOLEAN :
    PgHistoryPage(pg, limit, offset, desc)
      = Limit(PgHistory(pg), offset + limit, desc) \ Limit(PgHistory(pg), offset, desc)

LEMMA PagesSliceNow == StorageIInv => EveryPageSlices /\ PagesSliceHistory
<1> SUFFICES ASSUME StorageIInv PROVE EveryPageSlices /\ PagesSliceHistory  OBVIOUS
<1> PICK U, P, F, S : U = PgHistory(pg) /\ P = PgPendingRows(pg) /\ F = PgFinishedRows(pg) /\ S = PgSingleRows(pg)  OBVIOUS
<1>1. U = P \cup F \cup S  BY DEF PgHistory
<1>2. /\ P = {PendingRow(b) : b \in DOMAIN pg.bundles} /\ F = {FinishedRow(b) : b \in DOMAIN pg.finished}
      /\ S = {SingleRow(t) : t \in SingleTxs}
  BY HistoryRows
<1>3. IsFiniteSet(U) /\ Cardinality(U) = Cardinality(P) + Cardinality(F) + Cardinality(S)
  <2>1. IsFiniteSet(P) /\ IsFiniteSet(F) /\ IsFiniteSet(S)  BY RowsFinite
  <2>2. P \cap F = {} /\ (P \cup F) \cap S = {}  BY <1>2, RowFields
  <2>3. IsFiniteSet(P \cup F) /\ Cardinality(P \cup F) = Cardinality(P) + Cardinality(F)  BY <2>1, <2>2, DisjointCount
  <2>4. IsFiniteSet((P \cup F) \cup S) /\ Cardinality((P \cup F) \cup S) = Cardinality(P \cup F) + Cardinality(S)
    BY <2>1, <2>2, <2>3, DisjointCount
  <2> QED  BY <1>1, <2>3, <2>4
<1>4. \A t \in SingleTxs : t \in pg.links /\ t \in DOMAIN pg.txs  BY DEF SingleTxs
<1>5. clock \in Nat /\ Timed(U, clock)
  <2>1. clock \in Nat  BY DEF StorageIInv, StorageTypeOK
  <2>2. /\ \A b \in DOMAIN pg.bundles : pg.bundles[b].created \in 0..clock
        /\ \A b \in DOMAIN pg.finished : pg.finished[b].finished \in 0..clock
    BY DEF StorageIInv, BundlesFollow
  <2>3. \A t \in DOMAIN pg.txs : pg.txs[t].received \in 0..clock  BY DEF StorageIInv, StatusesFollow, StatusRow
  <2> QED  BY <1>1, <1>2, <1>4, <2>1, <2>2, <2>3, RowTimes DEF Timed
<1>6. ASSUME NEW limit \in Nat, NEW offset \in Nat, NEW desc \in BOOLEAN
      PROVE  PgHistoryPage(pg, limit, offset, desc) = Limit(U, offset + limit, desc) \ Limit(U, offset, desc)
  <2>1. Table(U)  BY <1>3, <1>5 DEF Table
  <2>2. SamePage(CutRows(P, F, S, limit + offset, desc), U, limit, offset, desc)  BY <1>1, <2>1, PageOfCutBranches
  <2>3. PgHistoryPage(pg, limit, offset, desc)
          = Limit(CutRows(P, F, S, limit + offset, desc), offset + limit, desc)
              \ Limit(CutRows(P, F, S, limit + offset, desc), offset, desc)
    BY DEF PgHistoryPage, CutRows
  <2> QED  BY <2>2, <2>3 DEF SamePage
<1>7. PgBundleCount(pg) = Cardinality(U)  BY <1>3, RowsFinite DEF PgBundleCount
<1>8. ASSUME NEW e \in U, NEW f \in U, e.id = f.id PROVE e = f \/ SentAgain(e.id)
  <2>1. \A x \in P \cup F : x.id \in Interop  BY <1>2, RowFields, SingleTxsAre
  <2>2. \A x \in S : x.id \notin Interop  BY <1>2, <1>4, RowFields, SingleTxsAre
  <2>3. CASE e \in P /\ f \in P  BY <1>2, <1>8, <2>3, RowFields
  <2>4. CASE e \in F /\ f \in F  BY <1>2, <1>8, <2>4, RowFields
  <2>5. CASE (e \in P /\ f \in F) \/ (e \in F /\ f \in P)
    <3>1. e.id \in DOMAIN pg.bundles /\ e.id \in DOMAIN pg.finished  BY <1>2, <1>8, <2>5, RowFields
    <3> QED  BY <3>1 DEF SentAgain, Has
  <2>6. CASE e \in S /\ f \in S
    <3> PICK t \in SingleTxs, u \in SingleTxs : e = SingleRow(t) /\ f = SingleRow(u)  BY <1>2, <2>6
    <3>1. BundleOf[t] = e.id /\ BundleOf[u] = e.id  BY <1>8, RowFields
    <3>2. t \in PgGetBundleTxs(pg, e.id) /\ u \in PgGetBundleTxs(pg, e.id)  BY <1>4, <3>1 DEF PgGetBundleTxs
    <3> QED  BY <3>2 DEF SentAgain
  <2>7. (e \in P \cup F <=> f \in P \cup F)  BY <1>1, <1>8, <2>1, <2>2
  <2> QED  BY <1>1, <2>3, <2>4, <2>5, <2>6, <2>7
<1>9. \A n \in 0..3 : n \in Nat  OBVIOUS
<1>10. EveryPageSlices  BY <1>6 DEF EveryPageSlices
<1> QED  BY <1>3, <1>6, <1>7, <1>8, <1>9, <1>10 DEF PagesSliceHistory

(***************************************************************************)
(* The theorems about Storage                                              *)
(***************************************************************************)

\* The tables of the two backends correspond row by row after any sequence of operations.
THEOREM BackendsCorrespond == StorageSpec => []StorageIInv
<1> QED  BY StorageInitInv, StorageInductive, PTL DEF StorageSpec

\* After any sequence of the operations of StorageApi, applied to both, Postgres and the
\* in-memory storage answer the reads alike, their histories and counts differ by the
\* one-chain bundles that ended or were sent again, and every row of txs can be parsed.
THEOREM BackendsAlwaysAgree == StorageSpec => []BackendsAgree
<1>1. StorageIInv => BackendsAgree
  BY TransactionsAgreeNow, BundlesAgreeNow, TransfersAgreeNow, AccountsAgreeNow, HistoriesAgreeNow,
     CountsAgreeNow
  DEF BackendsAgree
<1> QED  BY <1>1, BackendsCorrespond, PTL

\* Each page of get_bundles_by_address is the slice of the whole history although every
\* branch of the query is cut at the end of the page, no bundle is listed twice unless
\* its quotes were sent again, and get_bundle_count_by_address is the history's length.
THEOREM PagesAlwaysSlice == StorageSpec => []PagesSliceHistory
<1> QED  BY PagesSliceNow, BackendsCorrespond, PTL

\* The same for pages of any length from any offset, in both orders.
THEOREM EveryPageIsASlice == StorageSpec => []EveryPageSlices
<1> QED  BY PagesSliceNow, BackendsCorrespond, PTL

=============================================================================
