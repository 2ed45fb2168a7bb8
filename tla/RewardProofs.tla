---------------------------- MODULE RewardProofs ----------------------------
(***************************************************************************)
(* Proofs about the two ends of a reward: RewardCoin, where the chain      *)
(* mints coins against RECs, and VoteRounds, where the bridge collects the *)
(* votes that ask for them.  The models have no state in common and each   *)
(* theorem is about one of them.                                           *)
(*                                                                         *)
(* Of RewardCoin: for every set of users, amounts and identifiers and      *)
(* every rate OneREC.  Of VoteRounds: for every number of votes, crashes,  *)
(* hashes and devices and every capacity of TxQueue.                       *)
(***************************************************************************)
EXTENDS RewardCoin, VoteRounds, SumTheorems, FiniteSetTheorems, TLAPS

-----------------------------------------------------------------------------
(* Arithmetic the provers do not find by themselves *)

\* A truncated quotient times the divisor gives back at most the dividend.
LEMMA QuotientBound ==
    ASSUME NEW a \in Nat, NEW b \in Nat \ {0}
    PROVE  (a \div b) \in Nat /\ (a \div b) * b <= a
  BY SMT

\* A smaller number subtracts without going below zero.
LEMMA DifferenceNat ==
    ASSUME NEW a \in Nat, NEW b \in Nat, b <= a
    PROVE  0 <= a - b
  BY SMT

\* Nothing times the rate is nothing.
LEMMA ZeroTimes == 0 * OneREC = 0
  BY CoinAssumption, SMT

\* Multiplication distributes over subtraction.
LEMMA TimesMinus ==
    ASSUME NEW a \in Int, NEW b \in Int, NEW c \in Int
    PROVE  (a - b) * c = a * c - b * c
  BY SMT

\* Multiplication by a natural number keeps an order.
LEMMA TimesMonotone ==
    ASSUME NEW a \in Int, NEW b \in Int, NEW c \in Nat, a <= b
    PROVE  a * c <= b * c
  BY SMT

-----------------------------------------------------------------------------
(* The deletion loops *)

\* Taking a subset out of a finite set takes its size off the count.
LEMMA SubsetRemoved ==
    ASSUME NEW S, IsFiniteSet(S), NEW T \in SUBSET S
    PROVE  /\ IsFiniteSet(S \ T)
           /\ Cardinality(S \ T) = Cardinality(S) - Cardinality(T)
<1>1. S \cap T = T
  OBVIOUS
<1>2. /\ IsFiniteSet(S \ T)
      /\ Cardinality(S \ T) = Cardinality(S) - Cardinality(S \cap T)
  BY FS_Difference, Zenon
<1>3. QED
  BY <1>1, <1>2, Zenon

\* Deleting the first n keys of a store of RECRecords and RECMetas leaves two
\* finite sets with n fewer keys in all.
LEMMA DropCollateralCount ==
    ASSUME TypeOK, NEW n \in Nat, DropCollateral(n)
    PROVE  /\ recRecord' \in SUBSET RecIds /\ IsFiniteSet(recRecord')
           /\ recMeta' \in SUBSET CertifiedIds /\ IsFiniteSet(recMeta')
           /\ Collateral' = Collateral - n
<1>1. PICK R \in SUBSET recRecord, M \in SUBSET recMeta :
          /\ FirstKeys(R, recRecord, n)
          /\ FirstKeys(M, recMeta, n - Cardinality(R))
          /\ recRecord' = recRecord \ R
          /\ recMeta' = recMeta \ M
  BY DEF DropCollateral
<1>2. IsFiniteSet(recRecord) /\ IsFiniteSet(recMeta)
  BY DEF TypeOK
<1>3. IsFiniteSet(R) /\ IsFiniteSet(M)
  BY <1>2, FS_Subset
<1>4. /\ Cardinality(recRecord) \in Nat /\ Cardinality(recMeta) \in Nat
      /\ Cardinality(R) \in Nat /\ Cardinality(M) \in Nat
  BY <1>2, <1>3, FS_CardinalityType
<1>6. /\ IsFiniteSet(recRecord \ R)
      /\ Cardinality(recRecord \ R) = Cardinality(recRecord) - Cardinality(R)
  BY <1>2, SubsetRemoved
<1>7. /\ IsFiniteSet(recMeta \ M)
      /\ Cardinality(recMeta \ M) = Cardinality(recMeta) - Cardinality(M)
  BY <1>2, SubsetRemoved
<1>8. n <= Cardinality(recRecord) + Cardinality(recMeta)
  BY DEF DropCollateral, Collateral
<1>9. Cardinality(R) + Cardinality(M) = n
  BY <1>1, <1>4, <1>8 DEF FirstKeys
<1>10. Collateral' = Cardinality(recRecord \ R) + Cardinality(recMeta \ M)
  BY <1>1 DEF Collateral
<1>11. QED
  BY <1>1, <1>4, <1>6, <1>7, <1>9, <1>10 DEF Collateral, TypeOK

\* The number of RECs is a natural number.
LEMMA CollateralType ==
    ASSUME TypeOK
    PROVE  Collateral \in Nat
  BY FS_CardinalityType DEF TypeOK, Collateral

\* Storing RECRecords keeps the key set finite and never lowers the count,
\* whether or not keys are overwritten.
LEMMA AddRecordsCount ==
    ASSUME TypeOK, NEW S \in SUBSET RecIds, IsFiniteSet(S),
           recRecord' = recRecord \cup S, UNCHANGED recMeta
    PROVE  /\ recRecord' \in SUBSET RecIds /\ IsFiniteSet(recRecord')
           /\ Collateral' \in Nat /\ Collateral <= Collateral'
<1>1. IsFiniteSet(recRecord) /\ IsFiniteSet(recMeta)
  BY DEF TypeOK
<1>2. IsFiniteSet(recRecord')
  BY <1>1, FS_Union
<1>3. Cardinality(recRecord) <= Cardinality(recRecord')
  BY <1>2, FS_Subset
<1>4. /\ Cardinality(recRecord) \in Nat /\ Cardinality(recRecord') \in Nat
      /\ Cardinality(recMeta) \in Nat
  BY <1>1, <1>2, FS_CardinalityType
<1>5. QED
  BY <1>2, <1>3, <1>4 DEF Collateral, TypeOK

\* The same for RECMetas.
LEMMA AddMetasCount ==
    ASSUME TypeOK, NEW S \in SUBSET CertifiedIds, IsFiniteSet(S),
           recMeta' = recMeta \cup S, UNCHANGED recRecord
    PROVE  /\ recMeta' \in SUBSET CertifiedIds /\ IsFiniteSet(recMeta')
           /\ Collateral' \in Nat /\ Collateral <= Collateral'
<1>1. IsFiniteSet(recRecord) /\ IsFiniteSet(recMeta)
  BY DEF TypeOK
<1>2. IsFiniteSet(recMeta')
  BY <1>1, FS_Union
<1>3. Cardinality(recMeta) <= Cardinality(recMeta')
  BY <1>2, FS_Subset
<1>4. /\ Cardinality(recRecord) \in Nat /\ Cardinality(recMeta') \in Nat
      /\ Cardinality(recMeta) \in Nat
  BY <1>1, <1>2, FS_CardinalityType
<1>5. QED
  BY <1>2, <1>3, <1>4 DEF Collateral, TypeOK

\* The identifiers CreateRECRecord writes in one block form a finite set.
LEMMA NewIdsFinite ==
    ASSUME TypeOK, NEW count \in Nat
    PROVE  /\ {<<height, i>> : i \in 0 .. (count - 1)} \in SUBSET RecIds
           /\ IsFiniteSet({<<height, i>> : i \in 0 .. (count - 1)})
<1>1. IsFiniteSet(0 .. (count - 1))
  BY FS_Interval
<1>2. IsFiniteSet({<<height, i>> : i \in 0 .. (count - 1)})
  <2> DEFINE F == [i \in 0 .. (count - 1) |-> <<height, i>>]
             T == {<<height, i>> : i \in 0 .. (count - 1)}
  <2>1. F \in Surjection(0 .. (count - 1), T)
    BY DEF Surjection
  <2>2. QED
    BY <1>1, <2>1, FS_Surjection
<1>3. QED
  BY <1>2 DEF TypeOK, RecIds

-----------------------------------------------------------------------------
(* Type correctness *)

\* A block of steps: every message keeps the ranges of the store's values.
LEMMA TypeStep == TypeOK /\ [Next]_vars => TypeOK'
<1> SUFFICES ASSUME TypeOK, [Next]_vars
             PROVE  TypeOK'
  OBVIOUS
<1> USE CoinAssumption DEF Holders
<1>1. ASSUME NEW id \in DepositIds, DepositRecord(id)
      PROVE  TypeOK'
  <2>1. {id} \in SUBSET RecIds /\ IsFiniteSet({id})
    BY FS_Singleton
  <2>2. recRecord' \in SUBSET RecIds /\ IsFiniteSet(recRecord')
    BY <1>1, <2>1, AddRecordsCount DEF DepositRecord
  <2>3. QED
    BY <1>1, <2>2 DEF TypeOK, DepositRecord
<1>2. ASSUME NEW id \in CertifiedIds, DepositMeta(id)
      PROVE  TypeOK'
  <2>1. {id} \in SUBSET CertifiedIds /\ IsFiniteSet({id})
    BY FS_Singleton
  <2>2. recMeta' \in SUBSET CertifiedIds /\ IsFiniteSet(recMeta')
    BY <1>2, <2>1, AddMetasCount DEF DepositMeta
  <2>3. QED
    BY <1>2, <2>2 DEF TypeOK, DepositMeta
<1>3. ASSUME NEW count \in 1 .. MaxCount, CreateRECRecord(count)
      PROVE  TypeOK'
  <2>1. count \in Nat
    OBVIOUS
  <2>2. recRecord' \in SUBSET RecIds /\ IsFiniteSet(recRecord')
    BY <1>3, <2>1, NewIdsFinite, AddRecordsCount DEF CreateRECRecord
  <2>3. QED
    BY <1>3, <2>2 DEF TypeOK, CreateRECRecord
<1>4. ASSUME NEW to \in Users, NEW amount \in Amounts, RewardSolarPower(to, amount)
      PROVE  TypeOK'
  <2>1. /\ amount \in Nat
        /\ Fee(amount) \in Nat
        /\ amount - Fee(amount) \in Nat
    BY DEF Fee
  <2>2. balance' \in [Users \cup {RewardModule} -> Nat]
    BY <1>4, <2>1 DEF TypeOK, RewardSolarPower
  <2>3. QED
    BY <1>4, <2>1, <2>2 DEF TypeOK, RewardSolarPower
<1>5. ASSUME NEW target \in Users \cup {RewardModule}, NEW amount \in Amounts,
             BurnStableCoin(target, amount)
      PROVE  TypeOK'
  <2>1. amount \in Nat /\ amount \div OneREC \in Nat
    BY QuotientBound
  <2>2. /\ recRecord' \in SUBSET RecIds /\ IsFiniteSet(recRecord')
        /\ recMeta' \in SUBSET CertifiedIds /\ IsFiniteSet(recMeta')
    BY <1>5, <2>1, DropCollateralCount DEF BurnStableCoin
  <2>3. QED
    BY <1>5, <2>1, <2>2 DEF TypeOK, BurnStableCoin, Monus
<1>6. ASSUME NEW amount \in Amounts, RemoveCollateral(amount)
      PROVE  TypeOK'
  <2>1. amount \in Nat /\ amount \div RemoveUnit \in Nat
    BY QuotientBound
  <2>2. /\ recRecord' \in SUBSET RecIds /\ IsFiniteSet(recRecord')
        /\ recMeta' \in SUBSET CertifiedIds /\ IsFiniteSet(recMeta')
    BY <1>6, <2>1, DropCollateralCount DEF RemoveCollateral
  <2>3. QED
    BY <1>6, <2>1, <2>2 DEF TypeOK, RemoveCollateral
<1>7. ASSUME BurnModuleStableCoins
      PROVE  TypeOK'
  BY <1>7 DEF TypeOK, BurnModuleStableCoins, Monus
<1>8. ASSUME NEW to \in Users, DistributeRewardPercent(to)
      PROVE  TypeOK'
  BY <1>8 DEF TypeOK, DistributeRewardPercent
<1>9. ASSUME NEW from \in Users, NEW to \in Users, NEW amount \in Amounts,
             SendCoins(from, to, amount)
      PROVE  TypeOK'
  BY <1>9 DEF TypeOK, SendCoins
<1>10. ASSUME EndBlock
       PROVE  TypeOK'
  BY <1>10 DEF TypeOK, EndBlock
<1>11. ASSUME UNCHANGED vars
       PROVE  TypeOK'
  BY <1>11 DEF TypeOK, vars
<1>12. QED
  BY <1>1, <1>2, <1>3, <1>4, <1>5, <1>6, <1>7, <1>8, <1>9, <1>10, <1>11 DEF Next

\* The values in the store keep their types: no message drives the minted count,
\* a balance or the bank supply below zero.
THEOREM TypeCorrect == Spec => []TypeOK
<1>1. Init => TypeOK
  BY CoinAssumption, FS_EmptySet DEF Init, TypeOK, Holders
<1>2. QED
  BY <1>1, TypeStep, PTL DEF Spec

-----------------------------------------------------------------------------
(* The minted count and the bank *)

\* Each message keeps the count and the bank supply together.
LEMMA MintedStep ==
    TypeOK /\ MintedAgreesWithBank /\ [Next]_vars => MintedAgreesWithBank'
<1> SUFFICES ASSUME TypeOK, MintedAgreesWithBank, [Next]_vars
             PROVE  MintedAgreesWithBank'
  OBVIOUS
<1> USE CoinAssumption DEF MintedAgreesWithBank, TypeOK
<1>1. ASSUME NEW to \in Users, NEW amount \in Amounts, RewardSolarPower(to, amount)
      PROVE  MintedAgreesWithBank'
  BY <1>1 DEF RewardSolarPower
<1>2. ASSUME NEW target \in Holders, NEW amount \in Amounts,
             BurnStableCoin(target, amount)
      PROVE  MintedAgreesWithBank'
  BY <1>2 DEF BurnStableCoin, Monus
<1>3. ASSUME BurnModuleStableCoins
      PROVE  MintedAgreesWithBank'
  BY <1>3 DEF BurnModuleStableCoins, Monus
<1>4. ASSUME UNCHANGED <<minted, bankSupply, liquidated>>
      PROVE  MintedAgreesWithBank'
  BY <1>4
<1>5. QED
  BY <1>1, <1>2, <1>3, <1>4
     DEF Next, vars, DepositRecord, DepositMeta, CreateRECRecord,
         RemoveCollateral, DistributeRewardPercent, SendCoins, EndBlock

\* The count that RewardSolarPower checks against the collateral is never above
\* the coins in circulation, and below them by at most the mcnl liquidated.
THEOREM MintedAgrees == Spec => []MintedAgreesWithBank
<1>1. Init => MintedAgreesWithBank
  BY CoinAssumption DEF Init, MintedAgreesWithBank
<1>2. QED
  BY <1>1, MintedStep, TypeCorrect, PTL DEF Spec

-----------------------------------------------------------------------------
(* Backing *)

\* What a step does to the number of RECs and to the minted count, per message:
\* the facts from which backing, the action properties and the refinement follow.
StepEffect ==
    \/ \* deposits and new RECs
       /\ Collateral' \in Nat /\ Collateral <= Collateral'
       /\ UNCHANGED <<minted, bankSupply, removed>>
    \/ \* a mint
       /\ minted' \in Nat /\ minted <= minted'
       /\ minted' <= Collateral * OneREC
       /\ Collateral' = Collateral
       /\ UNCHANGED removed
    \/ \* a burn of some amount
       \E amount \in Nat :
          /\ minted' = Monus(minted, amount)
          /\ bankSupply' = bankSupply - amount
          /\ Collateral' = Collateral - (amount \div OneREC)
          /\ Collateral' \in Nat
          /\ UNCHANGED removed
    \/ \* a removal
       \E n \in Nat \ {0} :
          /\ Collateral' = Collateral - n /\ Collateral' \in Nat
          /\ removed' = removed + n
          /\ UNCHANGED <<minted, bankSupply>>
    \/ \* mcnl taken off the count
       /\ minted' \in 0 .. minted
       /\ Collateral' = Collateral
       /\ UNCHANGED <<bankSupply, removed>>
    \/ \* nothing these variables see
       Collateral' = Collateral /\ UNCHANGED <<minted, bankSupply, removed>>

\* Every step has one of those effects.
LEMMA StepHasEffect == TypeOK /\ [Next]_vars => StepEffect
<1> SUFFICES ASSUME TypeOK, [Next]_vars
             PROVE  StepEffect
  OBVIOUS
<1> USE CoinAssumption
<1>0. Collateral \in Nat /\ Collateral' \in Nat
  BY TypeStep, CollateralType, FS_CardinalityType DEF TypeOK, Collateral
<1>1. ASSUME NEW id \in DepositIds, DepositRecord(id)
      PROVE  StepEffect
  <2>1. {id} \in SUBSET RecIds /\ IsFiniteSet({id})
    BY FS_Singleton
  <2>2. Collateral' \in Nat /\ Collateral <= Collateral'
    BY <1>1, <2>1, AddRecordsCount DEF DepositRecord
  <2>3. QED
    BY <1>1, <2>2 DEF DepositRecord, StepEffect
<1>2. ASSUME NEW id \in CertifiedIds, DepositMeta(id)
      PROVE  StepEffect
  <2>1. {id} \in SUBSET CertifiedIds /\ IsFiniteSet({id})
    BY FS_Singleton
  <2>2. Collateral' \in Nat /\ Collateral <= Collateral'
    BY <1>2, <2>1, AddMetasCount DEF DepositMeta
  <2>3. QED
    BY <1>2, <2>2 DEF DepositMeta, StepEffect
<1>3. ASSUME NEW count \in 1 .. MaxCount, CreateRECRecord(count)
      PROVE  StepEffect
  <2>1. count \in Nat
    OBVIOUS
  <2>2. Collateral' \in Nat /\ Collateral <= Collateral'
    BY <1>3, <2>1, NewIdsFinite, AddRecordsCount DEF CreateRECRecord
  <2>3. QED
    BY <1>3, <2>2 DEF CreateRECRecord, StepEffect
<1>4. ASSUME NEW to \in Users, NEW amount \in Amounts, RewardSolarPower(to, amount)
      PROVE  StepEffect
  <2>1. Collateral' = Collateral
    BY <1>4 DEF RewardSolarPower, Collateral
  <2>2. minted' \in Nat /\ minted <= minted' /\ minted' <= Collateral * OneREC
    BY <1>4 DEF RewardSolarPower, TypeOK
  <2>3. UNCHANGED removed
    BY <1>4 DEF RewardSolarPower
  <2>4. QED
    BY <2>1, <2>2, <2>3 DEF StepEffect
<1>5. ASSUME NEW target \in Holders, NEW amount \in Amounts,
             BurnStableCoin(target, amount)
      PROVE  StepEffect
  <2>1. amount \in Nat /\ amount \div OneREC \in Nat
    BY QuotientBound
  <2>2. Collateral' = Collateral - (amount \div OneREC)
    BY <1>5, <2>1, DropCollateralCount DEF BurnStableCoin
  <2>3. QED
    BY <1>0, <1>5, <2>1, <2>2 DEF BurnStableCoin, StepEffect
<1>6. ASSUME NEW amount \in Amounts, RemoveCollateral(amount)
      PROVE  StepEffect
  <2> DEFINE n == amount \div RemoveUnit
  <2>1. n \in Nat \ {0}
    BY <1>6, QuotientBound DEF RemoveCollateral
  <2>2. DropCollateral(n) /\ removed' = removed + n /\ UNCHANGED <<minted, bankSupply>>
    BY <1>6 DEF RemoveCollateral
  <2> HIDE DEF n
  <2>3. Collateral' = Collateral - n
    BY <2>1, <2>2, DropCollateralCount
  <2>4. QED
    BY <1>0, <2>1, <2>2, <2>3 DEF StepEffect
<1>7. ASSUME BurnModuleStableCoins
      PROVE  StepEffect
  <2>1. Collateral' = Collateral
    BY <1>7 DEF BurnModuleStableCoins, Collateral
  <2>2. minted' \in 0 .. minted
    BY <1>7 DEF BurnModuleStableCoins, Monus, TypeOK
  <2>3. QED
    BY <1>7, <2>1, <2>2 DEF BurnModuleStableCoins, StepEffect
<1>8. ASSUME UNCHANGED <<minted, recRecord, recMeta, bankSupply, removed>>
      PROVE  StepEffect
  BY <1>8 DEF Collateral, StepEffect
<1>9. QED
  BY <1>1, <1>2, <1>3, <1>4, <1>5, <1>6, <1>7, <1>8
     DEF Next, vars, DistributeRewardPercent, SendCoins, EndBlock

\* A burn gives up at most as many RECs as the burnt coins were worth.
LEMMA BurnWorth ==
    ASSUME NEW amount \in Nat, NEW c \in Nat, NEW d \in Int,
           d = c - (amount \div OneREC)
    PROVE  (c - d) * OneREC <= amount
<1>1. c - d = amount \div OneREC
  BY CoinAssumption, QuotientBound
<1>2. QED
  BY <1>1, CoinAssumption, QuotientBound

\* Each message keeps every minted coin backed.
LEMMA BackedStep == TypeOK /\ Backed /\ [Next]_vars => Backed'
<1> SUFFICES ASSUME TypeOK, Backed, StepEffect, TypeOK'
             PROVE  Backed'
  BY StepHasEffect, TypeStep
<1> USE CoinAssumption
<1> DEFINE c == Collateral
           d == Collateral'
           Goal == minted' <= (d + removed') * OneREC
<1>0. /\ c \in Nat /\ d \in Nat
      /\ minted \in Nat /\ minted' \in Nat /\ removed \in Nat /\ removed' \in Nat
  BY CollateralType, FS_CardinalityType DEF TypeOK, Collateral
<1>1. minted <= (c + removed) * OneREC
  BY DEF Backed
<1> SUFFICES Goal
  BY DEF Backed
<1>2. CASE c <= d /\ minted' = minted /\ removed' = removed
  <2> HIDE DEF c, d
  <2>0. c + removed \in Int /\ d + removed \in Int /\ c + removed <= d + removed
    BY <1>0, <1>2
  <2>1. (c + removed) * OneREC <= (d + removed) * OneREC
    BY <2>0, TimesMonotone
  <2>2. QED
    BY <1>0, <1>1, <1>2, <2>1
<1>3. CASE minted' <= c * OneREC /\ d = c /\ removed' = removed
  <2>1. c * OneREC <= (c + removed) * OneREC
    BY <1>0, TimesMonotone
  <2> HIDE DEF c, d
  <2>2. QED
    BY <1>0, <1>3, <2>1
<1>4. ASSUME NEW amount \in Nat,
             minted' = Monus(minted, amount),
             d = c - (amount \div OneREC),
             removed' = removed
      PROVE  Goal
  <2>1. (c - d) * OneREC <= amount
    BY <1>0, <1>4, BurnWorth
  <2> HIDE DEF c, d
  <2>2. ((c + removed) - (c - d)) * OneREC = (c + removed) * OneREC - (c - d) * OneREC
    BY <1>0, TimesMinus
  <2>3. (c + removed) - (c - d) = d + removed
    BY <1>0
  <2>4. (d + removed) * OneREC = (c + removed) * OneREC - (c - d) * OneREC
    BY <2>2, <2>3
  <2>5. (d + removed) * OneREC >= 0
    BY <1>0, TimesMonotone
  <2>6. QED
    BY <1>0, <1>1, <1>4, <2>1, <2>4, <2>5 DEF Monus
<1>5. ASSUME NEW n \in Nat, d = c - n, removed' = removed + n, minted' = minted
      PROVE  Goal
  <2> HIDE DEF c, d
  <2>1. d + removed' = c + removed
    BY <1>0, <1>5
  <2>2. QED
    BY <1>1, <1>5, <2>1
<1>6. CASE minted' \in 0 .. minted /\ d = c /\ removed' = removed
  BY <1>0, <1>1, <1>6
<1> HIDE DEF Goal
<1>7. QED
  BY <1>0, <1>2, <1>3, <1>4, <1>5, <1>6 DEF StepEffect

\* The collateral covers the minted coins in every reachable state, up to the
\* RECs that RemoveCollateral dropped.
THEOREM MintedIsBacked == Spec => []Backed
<1>1. Init => Backed
  BY CoinAssumption, FS_EmptySet DEF Init, Backed, Collateral
<1>2. QED
  BY <1>1, BackedStep, TypeCorrect, PTL DEF Spec

-----------------------------------------------------------------------------
(* Action properties *)

\* RECs leave only against the coins they back, or through RemoveCollateral.
THEOREM RecsLeaveOnlyAgainstCoins == Spec => RecsLeaveAgainstCoins
<1>1. TypeOK /\ [Next]_vars =>
        [ Collateral' < Collateral =>
            \/ removed' > removed
            \/ (Collateral - Collateral') * OneREC <= bankSupply - bankSupply' ]_vars
  <2> SUFFICES ASSUME TypeOK, StepEffect, TypeOK', Collateral' < Collateral
               PROVE  \/ removed' > removed
                      \/ (Collateral - Collateral') * OneREC <= bankSupply - bankSupply'
    BY StepHasEffect, TypeStep
  <2>0. /\ Collateral \in Nat /\ removed \in Nat /\ bankSupply \in Nat
        /\ Collateral' \in Int
    BY CollateralType, FS_CardinalityType DEF TypeOK, Collateral
  <2>1. ASSUME NEW amount \in Nat, bankSupply' = bankSupply - amount,
               Collateral' = Collateral - (amount \div OneREC)
        PROVE  (Collateral - Collateral') * OneREC <= bankSupply - bankSupply'
    <3>1. (Collateral - Collateral') * OneREC <= amount
      BY <2>0, <2>1, BurnWorth
    <3>2. bankSupply - bankSupply' = amount
      BY <2>0, <2>1
    <3>3. QED
      BY <3>1, <3>2
  <2>2. ASSUME NEW n \in Nat \ {0}, removed' = removed + n
        PROVE  removed' > removed
    BY <2>0, <2>2
  <2>3. QED
    BY <2>0, <2>1, <2>2 DEF StepEffect
<1>2. QED
  BY <1>1, TypeCorrect, PTL DEF Spec, RecsLeaveAgainstCoins

-----------------------------------------------------------------------------
(* Refinement *)

\* Every step of the keeper is a step of the abstract coin or leaves it alone.
LEMMA AbstractStep == TypeOK /\ [Next]_vars => [CC!Next]_(CC!absVars)
<1> SUFFICES ASSUME TypeOK, StepEffect, TypeOK'
             PROVE  [CC!Next]_(CC!absVars)
  BY StepHasEffect, TypeStep
<1> USE CoinAssumption DEF CC!Next, CC!absVars
<1>0. /\ Collateral \in Nat /\ Collateral' \in Nat
      /\ minted \in Nat /\ minted' \in Nat /\ removed \in Nat /\ removed' \in Nat
  BY CollateralType, FS_CardinalityType DEF TypeOK, Collateral
<1>1. CASE Collateral <= Collateral' /\ UNCHANGED <<minted, removed>>
  BY <1>0, <1>1 DEF CC!Pledge
<1>2. CASE /\ minted <= minted' /\ minted' <= Collateral * OneREC
           /\ Collateral' = Collateral /\ UNCHANGED removed
  BY <1>0, <1>2 DEF CC!Issue
<1>3. ASSUME NEW amount \in Nat, minted' = Monus(minted, amount),
             Collateral' = Collateral - (amount \div OneREC), UNCHANGED removed
      PROVE  CC!Redeem
  <2>1. (Collateral - Collateral') * OneREC <= amount
    BY <1>0, <1>3, BurnWorth
  <2>2. amount \div OneREC \in Nat
    BY QuotientBound
  <2>3. Collateral' \in 0 .. Collateral
    BY <1>0, <1>3, <2>2
  <2>4. minted' \in 0 .. minted /\ (minted' = 0 \/ minted - minted' = amount)
    BY <1>0, <1>3 DEF Monus
  <2>5. minted' = 0 \/ (Collateral - Collateral') * OneREC <= minted - minted'
    BY <2>1, <2>4
  <2>6. QED
    BY <1>3, <2>3, <2>4, <2>5 DEF CC!Redeem
<1>4. ASSUME NEW n \in Nat \ {0}, Collateral' = Collateral - n,
             removed' = removed + n, UNCHANGED minted
      PROVE  CC!Release
  BY <1>0, <1>4 DEF CC!Release
<1>5. CASE minted' \in 0 .. minted /\ Collateral' = Collateral /\ UNCHANGED removed
  <2>1. Collateral - Collateral' = 0 /\ Collateral' \in 0 .. Collateral
    BY <1>0, <1>5
  <2>2. minted' <= minted
    BY <1>5
  <2>2a. 0 <= minted - minted'
    BY <1>0, <2>2, DifferenceNat, Zenon
  <2>3. (Collateral - Collateral') * OneREC = 0
    BY <2>1, ZeroTimes, Zenon
  <2>4. QED
    BY <1>5, <2>1, <2>2a, <2>3 DEF CC!Redeem
<1>6. QED
  BY <1>0, <1>1, <1>2, <1>3, <1>4, <1>5 DEF StepEffect

\* x/reward implements the abstract collateralised coin.
THEOREM CoinRefinement == Spec => ImplementsCollateralisedCoin
<1>1. Init => CC!Init
  BY FS_EmptySet DEF Init, CC!Init, Collateral
<1>2. QED
  BY <1>1, AbstractStep, TypeCorrect, PTL
     DEF Spec, ImplementsCollateralisedCoin, CC!Spec

-----------------------------------------------------------------------------
(* The coins and their holders *)

\* The bank's supply is what the holders have.
Conserved == SumFunction(balance) = bankSupply

\* A balance of each user and of the module.
LEMMA HoldersFinite ==
    ASSUME IsFiniteSet(Users)
    PROVE  IsFiniteSet(Holders) /\ RewardModule \in Holders /\ Users \subseteq Holders
  BY FS_AddElement DEF Holders

\* Every step keeps the balances and the supply in agreement.
LEMMA ConservedStep ==
    ASSUME IsFiniteSet(Users), TypeOK, Conserved, [Next]_vars
    PROVE  Conserved'
<1>1. IsFiniteSet(Holders) /\ RewardModule \in Holders /\ Users \subseteq Holders /\ RewardModule \notin Users
  BY HoldersFinite, CoinAssumption
<1>2. balance \in [Holders -> Int] /\ bankSupply \in Int /\ balance \in [Holders -> Nat] /\ DOMAIN balance = Holders
  BY DEF TypeOK
<1>3. SumFunction(balance) = bankSupply
  BY DEF Conserved
<1>4. ASSUME UNCHANGED <<balance, bankSupply>> PROVE Conserved'
  BY <1>3, <1>4 DEF Conserved
<1>5. ASSUME NEW to \in Users, NEW amount \in Amounts, RewardSolarPower(to, amount) PROVE Conserved'
  <2> DEFINE m == Fee(amount)
             n == amount - Fee(amount)
  <2>1. amount \in Nat /\ m \in Int /\ n \in Int /\ m + n = amount /\ to \in Holders /\ RewardModule # to
    BY <1>1, CoinAssumption DEF Fee
  <2> HIDE DEF m, n
  <2>2. Moved(balance, balance', Holders, RewardModule, to, m, n)
    BY <1>2, <1>5, <2>1 DEF RewardSolarPower, Moved, m, n
  <2>3. SumFunction(balance') = SumFunction(balance) + (m + n)
    BY <1>1, <1>2, <2>1, <2>2, SumMoved
  <2>4. QED
    BY <1>3, <1>5, <2>1, <2>3 DEF Conserved, RewardSolarPower
<1>6. ASSUME NEW target \in Holders, NEW amount \in Amounts, BurnStableCoin(target, amount) PROVE Conserved'
  <2>1. amount \in Int /\ balance[target] \in Int /\ balance[target] - amount \in Int
    BY <1>2, CoinAssumption
  <2>2. balance' = [balance EXCEPT ![target] = balance[target] - amount] /\ bankSupply' = bankSupply - amount
    BY <1>6 DEF BurnStableCoin
  <2>3. SumFunction(balance') = SumFunction(balance) + ((balance[target] - amount) - balance[target])
    <3>1. SumFunction([balance EXCEPT ![target] = balance[target] - amount]) = SumFunction(balance) + ((balance[target] - amount) - balance[target])
      BY <1>1, <1>2, <2>1, SumExcept
    <3>2. QED
      BY <2>2, <3>1, Zenon
  <2>4. QED
    BY <1>2, <1>3, <2>1, <2>2, <2>3 DEF Conserved
<1>7. ASSUME NEW to \in Users, DistributeRewardPercent(to) PROVE Conserved'
  <2>1. BlockReward \in Int /\ -BlockReward \in Int /\ (-BlockReward) + BlockReward = 0 /\ to \in Holders /\ RewardModule # to
    BY <1>1, CoinAssumption
  <2>2. Moved(balance, balance', Holders, RewardModule, to, -BlockReward, BlockReward)
    BY <1>1, <1>2, <1>7, <2>1 DEF DistributeRewardPercent, Moved
  <2>3. SumFunction(balance') = SumFunction(balance) + ((-BlockReward) + BlockReward)
    BY <1>1, <1>2, <2>1, <2>2, SumMoved
  <2>4. QED
    BY <1>2, <1>3, <1>7, <2>1, <2>3 DEF Conserved, DistributeRewardPercent
<1>8. ASSUME NEW from \in Users, NEW to \in Users, NEW amount \in Amounts, SendCoins(from, to, amount) PROVE Conserved'
  <2>1. amount \in Int /\ -amount \in Int /\ (-amount) + amount = 0 /\ from # to /\ from \in Holders /\ to \in Holders
    BY <1>1, <1>8, CoinAssumption DEF SendCoins
  <2>2. Moved(balance, balance', Holders, from, to, -amount, amount)
    BY <1>1, <1>2, <1>8, <2>1 DEF SendCoins, Moved
  <2>3. SumFunction(balance') = SumFunction(balance) + ((-amount) + amount)
    BY <1>1, <1>2, <2>1, <2>2, SumMoved
  <2>4. QED
    BY <1>2, <1>3, <1>8, <2>1, <2>3 DEF Conserved, SendCoins
<1>9. QED
  BY <1>4, <1>5, <1>6, <1>7, <1>8
     DEF Next, vars, DepositRecord, DepositMeta, CreateRECRecord, RemoveCollateral,
         BurnModuleStableCoins, EndBlock

\* Whatever is minted, burned, paid out and sent, the bank's supply of aeil is what
\* the holders have, with finitely many accounts (x/bank as the keeper uses it).
THEOREM BalancesAddUp ==
    ASSUME IsFiniteSet(Users)
    PROVE  Spec => []Conserved
<1>1. Init => Conserved
  <2>1. SUFFICES ASSUME Init PROVE Conserved
    OBVIOUS
  <2>2. IsFiniteSet(Holders) /\ balance \in [Holders -> Int] /\ \A h \in Holders : balance[h] = 0
    BY <2>1, HoldersFinite DEF Init
  <2>3. SumFunction(balance) = 0
    BY <2>2, SumFacts
  <2>4. QED
    BY <2>1, <2>3 DEF Conserved, Init
<1>2. TypeOK /\ Conserved /\ [Next]_vars => Conserved'
  BY ConservedStep
<1>3. QED
  BY <1>1, <1>2, TypeCorrect, PTL DEF Spec

\* As long as no collateral was removed by hand and no mcnl liquidated, the holders
\* together can redeem every full OneREC they have (BurnStableCoin).
THEOREM HoldersCanRedeem ==
    ASSUME IsFiniteSet(Users)
    PROVE  Spec => []Redeemable
<1>1. TypeOK /\ Conserved /\ MintedAgreesWithBank /\ Backed => Redeemable
  <2>1. SUFFICES ASSUME TypeOK, Conserved, MintedAgreesWithBank, Backed, removed = 0, liquidated = 0
                 PROVE  SumFunction([h \in Holders |-> balance[h] \div OneREC]) <= Collateral
    BY DEF Redeemable
  <2> DEFINE w == [h \in Holders |-> balance[h] \div OneREC]
             n == SumFunction(w)
  <2>2. IsFiniteSet(Holders) /\ balance \in [Holders -> Int] /\ balance \in [Holders -> Nat]
    BY <2>1, HoldersFinite DEF TypeOK
  <2>3. OneREC \in Nat \ {0}
    BY CoinAssumption
  <2>4. \A h \in Holders : w[h] \in Int /\ w[h] * OneREC <= balance[h]
    BY <2>2, <2>3, QuotientBound
  <2>5. w \in [Holders -> Int]
    BY <2>4
  <2> HIDE DEF w
  <2>6. n * OneREC <= SumFunction(balance) /\ n \in Int
    BY <2>2, <2>3, <2>4, <2>5, SumScaled, SumFacts
  <2>7. bankSupply <= minted /\ minted \in Nat /\ bankSupply \in Nat /\ Collateral \in Nat
    BY <2>1, CollateralType DEF MintedAgreesWithBank, TypeOK
  <2>8. minted <= Collateral * OneREC /\ Collateral * OneREC \in Nat
    BY <2>1, <2>3, <2>7 DEF Backed
  <2> HIDE DEF n
  <2>9. n * OneREC <= Collateral * OneREC /\ n * OneREC \in Int
    BY <2>1, <2>3, <2>6, <2>7, <2>8 DEF Conserved
  <2>10. n <= Collateral
    <3>1. SUFFICES ASSUME Collateral + 1 <= n PROVE FALSE
      BY <2>6, <2>7
    <3>2. (Collateral + 1) * OneREC <= n * OneREC
      BY <2>3, <2>6, <2>7, <3>1, TimesMonotone
    <3>3. (Collateral + 1) * OneREC = Collateral * OneREC + OneREC
      BY <2>3, <2>7
    <3>4. QED
      BY <2>3, <2>8, <2>9, <3>2, <3>3
  <2>11. QED
    BY <2>10 DEF n, w
<1>2. QED
  BY <1>1, TypeCorrect, BalancesAddUp, MintedAgrees, MintedIsBacked, PTL

-----------------------------------------------------------------------------
(* VoteRounds: the inductive invariant *)

\* What Kafka has delivered: everything of earlier sessions, and the offsets up
\* to the position in the current one.
Delivered ==
    {d \in Deliveries : d[1] < Session \/ (d[1] = Session /\ d[2] <= position)}

\* Every vote in memory, and every vote whose round is over, was delivered; so the
\* next delivery is none of them.
HeldWereRead ==
    /\ \A h \in Hashes : Filed(h) \subseteq Delivered
    /\ \A t \in timers : t.votes \subseteq Delivered
    /\ \A i \in DOMAIN queue : queue[i].votes \subseteq Delivered
    /\ done \subseteq Delivered

\* A sleeping timer has taken nothing yet, so it is known by its round; one that
\* is about to send has found an address.
TimersInOrder ==
    \A t \in timers :
        /\ t.at = "sleep" => t.votes = {} /\ t.address = None
        /\ t.at = "send" => t.address # None

\* Behind the mark lie only votes ConsumeClaim skipped, except right after a
\* session began at the newest offset.
MarkCoversValid ==
    marked > 0 \/ Session = 1 => \A o \in (marked + 1) .. position : ~topic[o].valid

VoteInv ==
    /\ VotesTypeOK
    /\ HeldWereRead
    /\ TimersInOrder
    /\ MarkCoversValid
    /\ OneTimerPerRound
    /\ NoVoteTwice
    /\ UncommittedNotLost

-----------------------------------------------------------------------------
(* Sequences *)

\* The task the worker takes is the first; the others move up by one.
LEMMA TailFacts ==
    ASSUME NEW S, NEW s \in Seq(S), s # <<>>
    PROVE  /\ Tail(s) \in Seq(S)
           /\ Len(Tail(s)) = Len(s) - 1
           /\ Len(s) \in Nat /\ Len(s) > 0
           /\ DOMAIN s = 1 .. Len(s)
           /\ DOMAIN Tail(s) = 1 .. Len(s) - 1
           /\ Head(s) = s[1] /\ Head(s) \in S
           /\ \A i \in DOMAIN Tail(s) : Tail(s)[i] = s[i + 1] /\ i + 1 \in DOMAIN s
  OBVIOUS

-----------------------------------------------------------------------------
(* Types *)

\* The vote ConsumeClaim reads next is one of the topic.
LEMMA ReadVote ==
    ASSUME VotesTypeOK, position < Len(topic)
    PROVE  /\ position + 1 \in 1 .. Len(topic)
           /\ topic[position + 1] \in Votes
           /\ topic[position + 1].hash \in Hashes
<1>1. position \in Nat /\ Len(topic) \in Nat /\ topic \in Seq(Votes)
  BY DEF VotesTypeOK
<1>2. position + 1 \in 1 .. Len(topic)
  BY <1>1
<1>3. topic[position + 1] \in Votes
  BY <1>1, <1>2
<1>4. QED
  BY <1>2, <1>3 DEF Votes

\* The number of the session is a number, and a delivery of it a pair.
LEMMA SessionType ==
    ASSUME VotesTypeOK
    PROVE  /\ Session \in Nat \ {0}
           /\ position \in Nat
           /\ <<Session, position + 1>> \in Deliveries
<1>1. Session \in Nat \ {0} /\ position \in Nat
  BY DEF VotesTypeOK, Session
<1>2. QED
  BY <1>1 DEF Deliveries

\* A new session begins at an offset of the topic, behind all earlier sessions.
LEMMA SessionFacts ==
    ASSUME VotesTypeOK, NEW offset \in committed .. Len(topic), Rebalance(offset) \/ Crash(offset)
    PROVE  /\ UNCHANGED <<topic, done>>
           /\ committed' = offset /\ marked' = offset
           /\ position' = IF offset = 0 THEN Len(topic) ELSE offset
           /\ position' \in 0 .. Len(topic') /\ marked' \in 0 .. position'
           /\ committed' \in 0 .. marked'
           /\ Session \in Nat /\ Session' = Session + 1 /\ Session' # 1
<1>1. /\ UNCHANGED <<topic, done>>
      /\ committed' = offset /\ marked' = offset
      /\ position' = IF offset = 0 THEN Len(topic) ELSE offset
      /\ crashes \in Nat /\ rebalances \in Nat
  <2>1. crashes \in Nat /\ rebalances \in Nat
    BY DEF VotesTypeOK
  <2>2. CASE Rebalance(offset)
    BY <2>1, <2>2 DEF Rebalance, NewSession
  <2>3. CASE Crash(offset)
    BY <2>1, <2>3 DEF Crash, NewSession
  <2>4. QED
    BY <2>2, <2>3
<1>2. offset \in Nat /\ Len(topic) \in Nat /\ offset <= Len(topic) /\ Len(topic') = Len(topic)
  BY <1>1 DEF VotesTypeOK
<1>3. Session \in Nat /\ Session' = Session + 1 /\ Session' # 1
  <2>1. \/ crashes' = crashes /\ rebalances' = rebalances + 1
        \/ crashes' = crashes + 1 /\ rebalances' = rebalances
    BY DEF Rebalance, Crash
  <2>2. crashes \in Nat /\ rebalances \in Nat
    BY <1>1
  <2>3. QED
    BY <2>1, <2>2 DEF Session
<1>4. QED
  BY <1>1, <1>2, <1>3

\* Each step of the bridge, of the light nodes and of Kafka keeps the ranges of
\* the state.
LEMMA VoteTypeStep == VotesTypeOK /\ TimersInOrder /\ [VotesNext]_voteVars => VotesTypeOK'
<1> SUFFICES ASSUME VotesTypeOK, TimersInOrder, [VotesNext]_voteVars
             PROVE  VotesTypeOK'
  OBVIOUS
<1> USE VoteAssumption
<1>1. ASSUME NEW vote \in Votes, Publish(vote)
      PROVE  VotesTypeOK'
  <2>1. topic' \in Seq(Votes) /\ Len(topic') = Len(topic) + 1
    BY <1>1 DEF Publish, VotesTypeOK
  <2>2. QED
    BY <1>1, <2>1 DEF Publish, VotesTypeOK
<1>2. ASSUME SkipVote
      PROVE  VotesTypeOK'
  BY <1>2 DEF SkipVote, topicVars, VotesTypeOK
<1>3. ASSUME NEW sent \in BOOLEAN, ConsumeVote(sent)
      PROVE  VotesTypeOK'
  <2> DEFINE offset == position + 1
             delivery == <<Session, offset>>
             vote == topic[offset]
             h == vote.hash
  <2>1. offset \in 1 .. Len(topic) /\ vote \in Votes /\ h \in Hashes /\ delivery \in Deliveries
    BY <1>3, ReadVote, SessionType DEF ConsumeVote
  <2>2. voteMap' \in [Hashes -> Seq(Deliveries)]
    <3>1. Append(voteMap[h], delivery) \in Seq(Deliveries)
      BY <2>1 DEF VotesTypeOK
    <3>2. voteMap' = [voteMap EXCEPT ![h] = Append(voteMap[h], delivery)]
      BY <1>3 DEF ConsumeVote
    <3>3. QED
      BY <2>1, <3>1, <3>2 DEF VotesTypeOK
  <2>3. /\ deviceID' \in [Hashes -> Devices \cup {None}]
        /\ requests' \subseteq Devices \cup {None}
    BY <1>3, <2>1 DEF ConsumeVote, VotesTypeOK, Votes
  <2>4. timers' \subseteq Timers
    <3>1. StartTimer(h, delivery) \in Timers
      BY <2>1 DEF StartTimer, Timers
    <3>2. timers' \subseteq timers \cup {StartTimer(h, delivery)}
      BY <1>3 DEF ConsumeVote
    <3>3. QED
      BY <3>1, <3>2 DEF VotesTypeOK
  <2>5. rounds' \in [Hashes -> Nat]
    BY <1>3, <2>1 DEF ConsumeVote, VotesTypeOK
  <2>6. position' = offset /\ marked' = offset
    BY <1>3 DEF ConsumeVote
  <2>7. UNCHANGED <<topic, committed, addresses, queue, done, crashes, rebalances>>
    BY <1>3 DEF ConsumeVote
  <2> HIDE DEF offset, delivery, vote, h
  <2>8. position' \in 0 .. Len(topic') /\ marked' \in 0 .. position' /\ committed' \in 0 .. marked'
    BY <2>1, <2>6, <2>7 DEF VotesTypeOK, offset
  <2>9. QED
    BY <2>2, <2>3, <2>4, <2>5, <2>7, <2>8 DEF VotesTypeOK
<1>4. ASSUME CommitOffset
      PROVE  VotesTypeOK'
  BY <1>4 DEF CommitOffset, VotesTypeOK
<1>5. ASSUME NEW device \in Devices \cup {None}, NEW address \in Owners \cup {Empty},
             StoreAddress(device, address)
      PROVE  VotesTypeOK'
  BY <1>5 DEF StoreAddress, topicVars, VotesTypeOK
<1>6. ASSUME NEW t \in timers, CloseRound(t)
      PROVE  VotesTypeOK'
  <2>1. t \in Timers
    BY DEF VotesTypeOK
  <2>2. Filed(t.hash) \subseteq Deliveries
    BY <2>1 DEF Timers, Filed, VotesTypeOK
  <2>3. [t EXCEPT !.at = "lookup", !.votes = Filed(t.hash)] \in Timers
    BY <2>1, <2>2 DEF Timers
  <2>4. timers' \subseteq timers \cup {[t EXCEPT !.at = "lookup", !.votes = Filed(t.hash)]}
    BY <1>6 DEF CloseRound
  <2>5. voteMap' \in [Hashes -> Seq(Deliveries)]
    <3>1. <<>> \in Seq(Deliveries) /\ voteMap \in [Hashes -> Seq(Deliveries)]
      BY DEF VotesTypeOK
    <3>2. voteMap' = [voteMap EXCEPT ![t.hash] = <<>>]
      BY <1>6 DEF CloseRound
    <3>3. QED
      BY <3>1, <3>2
  <2>6. QED
    BY <1>6, <2>3, <2>4, <2>5 DEF CloseRound, topicVars, VotesTypeOK
<1>7. ASSUME NEW t \in timers, LookUpAddress(t)
      PROVE  VotesTypeOK'
  <2> DEFINE device == deviceID[t.hash]
             address == IF device = None THEN None ELSE addresses[device]
  <2>1. t \in Timers
    BY DEF VotesTypeOK
  <2>2. address \in Owners \cup {Empty, None}
    BY <2>1 DEF VotesTypeOK, Timers
  <2>3. [t EXCEPT !.at = "send", !.address = address] \in Timers
    BY <2>1, <2>2 DEF Timers
  <2>4. timers' \subseteq timers \cup {[t EXCEPT !.at = "send", !.address = address]}
    BY <1>7 DEF LookUpAddress
  <2>5. done' \subseteq Deliveries
    BY <1>7, <2>1 DEF LookUpAddress, Timers, VotesTypeOK
  <2> HIDE DEF address
  <2>6. QED
    BY <1>7, <2>3, <2>4, <2>5 DEF LookUpAddress, topicVars, VotesTypeOK
<1>8. ASSUME NEW t \in timers, SendTask(t)
      PROVE  VotesTypeOK'
  <2>1. t \in Timers
    BY DEF VotesTypeOK
  <2>2. [hash |-> t.hash, votes |-> t.votes, address |-> t.address] \in Tasks
    BY <1>8, <2>1 DEF SendTask, TimersInOrder, Timers, Tasks
  <2>3. queue' \in Seq(Tasks) /\ Len(queue') <= QueueCap
    BY <1>8, <2>2 DEF SendTask, VotesTypeOK
  <2>4. QED
    BY <1>8, <2>3 DEF SendTask, topicVars, VotesTypeOK
<1>9. ASSUME RunTask
      PROVE  VotesTypeOK'
  <2>1. /\ Tail(queue) \in Seq(Tasks) /\ Len(Tail(queue)) = Len(queue) - 1
        /\ Head(queue) \in Tasks /\ Len(queue) \in Nat
    BY <1>9, TailFacts DEF RunTask, VotesTypeOK
  <2>2. Head(queue).votes \subseteq Deliveries
    BY <2>1 DEF Tasks
  <2>3. queue' \in Seq(Tasks) /\ Len(queue') <= QueueCap
    <3>1. queue' = Tail(queue) /\ Len(queue) <= QueueCap
      BY <1>9 DEF RunTask, VotesTypeOK
    <3>2. QED
      BY <2>1, <3>1
  <2>4. done' \subseteq Deliveries
    BY <1>9, <2>2 DEF RunTask, VotesTypeOK
  <2>5. QED
    BY <1>9, <2>3, <2>4 DEF RunTask, topicVars, VotesTypeOK
<1>10. ASSUME NEW offset \in committed .. Len(topic), Rebalance(offset) \/ Crash(offset)
       PROVE  VotesTypeOK'
  <2>1. /\ position' \in 0 .. Len(topic') /\ marked' \in 0 .. position'
        /\ committed' \in 0 .. marked'
    BY <1>10, SessionFacts
  <2>2. CASE Rebalance(offset)
    BY <2>1, <2>2 DEF Rebalance, VotesTypeOK
  <2>3. CASE Crash(offset)
    <3>1. voteMap' \in [Hashes -> Seq(Deliveries)] /\ queue' \in Seq(Tasks) /\ Len(queue') = 0
      BY <2>3 DEF Crash
    <3>2. QED
      BY <2>1, <2>3, <3>1 DEF Crash, VotesTypeOK
  <2>4. QED
    BY <1>10, <2>2, <2>3
<1>11. CASE UNCHANGED voteVars
  BY <1>11 DEF voteVars, VotesTypeOK
<1>12. QED
  BY <1>1, <1>2, <1>3, <1>4, <1>5, <1>6, <1>7, <1>8, <1>9, <1>10, <1>11 DEF VotesNext

-----------------------------------------------------------------------------
(* What each step does to the votes in memory *)

\* ConsumeClaim files the vote it reads and starts at most one timer.
LEMMA ConsumeFacts ==
    ASSUME VotesTypeOK, NEW sent \in BOOLEAN, ConsumeVote(sent)
    PROVE  LET offset == position + 1
               delivery == <<Session, offset>>
               h == topic[offset].hash
               new == StartTimer(h, delivery)
           IN  /\ offset \in 1 .. Len(topic) /\ h \in Hashes
               /\ position' = offset /\ marked' = offset
               /\ UNCHANGED <<topic, committed, queue, done, crashes, rebalances>>
               /\ \A k \in Hashes : Filed(k)' = IF k = h THEN Filed(k) \cup {delivery} ELSE Filed(k)
               /\ \A k \in Hashes : k # h => voteMap'[k] = voteMap[k]
               /\ voteMap'[h] # <<>>
               /\ voteMap[h] = <<>> => timers' = timers \cup {new} /\ Head(voteMap'[h]) = delivery
               /\ voteMap[h] # <<>> => timers' = timers /\ Head(voteMap'[h]) = Head(voteMap[h])
               /\ new.votes = {} /\ new.at = "sleep" /\ new.by = delivery /\ new.hash = h
               /\ new.address = None
<1> DEFINE offset == position + 1
           delivery == <<Session, offset>>
           h == topic[offset].hash
           new == StartTimer(h, delivery)
<1>1. offset \in 1 .. Len(topic) /\ h \in Hashes /\ delivery \in Deliveries
  BY ReadVote, SessionType DEF ConsumeVote
<1>2. /\ position' = offset /\ marked' = offset
      /\ UNCHANGED <<topic, committed, queue, done, crashes, rebalances>>
      /\ voteMap' = [voteMap EXCEPT ![h] = Append(voteMap[h], delivery)]
      /\ voteMap[h] = <<>> => timers' = timers \cup {new}
      /\ voteMap[h] # <<>> => timers' = timers
  BY DEF ConsumeVote
<1>3. /\ new.votes = {} /\ new.at = "sleep" /\ new.by = delivery /\ new.hash = h
      /\ new.address = None
  BY DEF StartTimer
<1> HIDE DEF offset, delivery, h, new
<1>4. voteMap \in [Hashes -> Seq(Deliveries)]
  BY DEF VotesTypeOK
<1>5. /\ voteMap'[h] = Append(voteMap[h], delivery)
      /\ \A k \in Hashes : k # h => voteMap'[k] = voteMap[k]
  BY <1>1, <1>2, <1>4
<1>6. /\ Append(voteMap[h], delivery) # <<>>
      /\ {Append(voteMap[h], delivery)[i] : i \in DOMAIN Append(voteMap[h], delivery)}
            = {voteMap[h][i] : i \in DOMAIN voteMap[h]} \cup {delivery}
      /\ voteMap[h] = <<>> => Head(Append(voteMap[h], delivery)) = delivery
      /\ voteMap[h] # <<>> => Head(Append(voteMap[h], delivery)) = Head(voteMap[h])
  <2> DEFINE s == voteMap[h]
  <2>1. s \in Seq(Deliveries)
    BY <1>1, <1>4
  <2> HIDE DEF s
  <2>2. /\ Append(s, delivery) # <<>>
        /\ DOMAIN Append(s, delivery) = 1 .. Len(s) + 1 /\ DOMAIN s = 1 .. Len(s)
        /\ Len(s) \in Nat
        /\ \A i \in 1 .. Len(s) : Append(s, delivery)[i] = s[i]
        /\ Append(s, delivery)[Len(s) + 1] = delivery
    BY <1>1, <2>1
  <2>3. {Append(s, delivery)[i] : i \in DOMAIN Append(s, delivery)}
          = {s[i] : i \in DOMAIN s} \cup {delivery}
    BY <2>2
  <2>4. s = <<>> => Head(Append(s, delivery)) = delivery
    BY <1>1, <2>1
  <2>5. s # <<>> => Head(Append(s, delivery)) = Head(s)
    BY <1>1, <2>1
  <2>6. QED
    BY <2>2, <2>3, <2>4, <2>5 DEF s
<1>7. \A k \in Hashes : Filed(k)' = IF k = h THEN Filed(k) \cup {delivery} ELSE Filed(k)
  BY <1>1, <1>5, <1>6 DEF Filed
<1>8. QED
  BY <1>1, <1>2, <1>3, <1>5, <1>6, <1>7 DEF offset, delivery, h, new

\* A timer that wakes up takes what is filed under its hash and empties the
\* round; with no votes it ends.
LEMMA CloseFacts ==
    ASSUME VotesTypeOK, NEW t \in timers, CloseRound(t)
    PROVE  LET u == [t EXCEPT !.at = "lookup", !.votes = Filed(t.hash)]
           IN  /\ t.at = "sleep" /\ t.hash \in Hashes
               /\ UNCHANGED <<topic, position, marked, committed, queue, done, crashes, rebalances>>
               /\ \A k \in Hashes : Filed(k)' = IF k = t.hash THEN {} ELSE Filed(k)
               /\ voteMap'[t.hash] = <<>>
               /\ \A k \in Hashes : k # t.hash => voteMap'[k] = voteMap[k]
               /\ Filed(t.hash) # {} => timers' = (timers \ {t}) \cup {u}
               /\ Filed(t.hash) = {} => timers' = timers \ {t}
               /\ u.at = "lookup" /\ u.votes = Filed(t.hash)
<1>1. t \in Timers /\ t.hash \in Hashes
  BY DEF VotesTypeOK, Timers
<1>2. /\ t.at = "sleep"
      /\ UNCHANGED <<topic, position, marked, committed, queue, done, crashes, rebalances>>
      /\ voteMap' = [voteMap EXCEPT ![t.hash] = <<>>]
      /\ Filed(t.hash) # {} => timers' = (timers \ {t}) \cup
            {[t EXCEPT !.at = "lookup", !.votes = Filed(t.hash)]}
      /\ Filed(t.hash) = {} => timers' = timers \ {t}
  BY DEF CloseRound, topicVars
<1>3. /\ voteMap'[t.hash] = <<>>
      /\ \A k \in Hashes : k # t.hash => voteMap'[k] = voteMap[k]
  BY <1>1, <1>2 DEF VotesTypeOK
<1>4. \A k \in Hashes : Filed(k)' = IF k = t.hash THEN {} ELSE Filed(k)
  BY <1>1, <1>3 DEF Filed
<1>5. LET u == [t EXCEPT !.at = "lookup", !.votes = Filed(t.hash)]
      IN  u.at = "lookup" /\ u.votes = Filed(t.hash)
  BY <1>1 DEF Timers
<1>6. QED
  BY <1>1, <1>2, <1>3, <1>4, <1>5

\* The lookup gives the round up or goes on with the same votes.
LEMMA LookUpFacts ==
    ASSUME VotesTypeOK, NEW t \in timers, LookUpAddress(t)
    PROVE  /\ t.at = "lookup"
           /\ UNCHANGED <<topic, position, marked, committed, voteMap, queue, crashes, rebalances>>
           /\ \/ timers' = timers \ {t} /\ done' = done \cup t.votes
              \/ \E u : /\ timers' = (timers \ {t}) \cup {u} /\ done' = done
                        /\ u.at = "send" /\ u.votes = t.votes /\ u.address # None
<1>1. t \in Timers
  BY DEF VotesTypeOK
<1>2. t.at = "lookup" /\ UNCHANGED <<topic, position, marked, committed, voteMap, queue, crashes, rebalances>>
  BY DEF LookUpAddress, topicVars
<1> DEFINE device == deviceID[t.hash]
           address == IF device = None THEN None ELSE addresses[device]
           u == [t EXCEPT !.at = "send", !.address = address]
<1>3. \/ timers' = timers \ {t} /\ done' = done \cup t.votes
      \/ address # None /\ timers' = (timers \ {t}) \cup {u} /\ done' = done
  BY DEF LookUpAddress
<1> HIDE DEF address
<1>4. u.at = "send" /\ u.votes = t.votes /\ u.address = address
  BY <1>1 DEF Timers
<1> HIDE DEF u
<1>5. QED
  BY <1>2, <1>3, <1>4

\* The send moves the votes of the timer to the end of TxQueue.
LEMMA SendFacts ==
    ASSUME VotesTypeOK, NEW t \in timers, SendTask(t)
    PROVE  /\ t.at = "send"
           /\ UNCHANGED <<topic, position, marked, committed, voteMap, done, crashes, rebalances>>
           /\ timers' = timers \ {t}
           /\ Len(queue) \in Nat /\ DOMAIN queue = 1 .. Len(queue)
           /\ DOMAIN queue' = 1 .. Len(queue) + 1
           /\ \A i \in DOMAIN queue : queue'[i] = queue[i]
           /\ queue'[Len(queue) + 1].votes = t.votes
<1> DEFINE task == [hash |-> t.hash, votes |-> t.votes, address |-> t.address]
<1>1. /\ t.at = "send"
      /\ UNCHANGED <<topic, position, marked, committed, voteMap, done, crashes, rebalances>>
      /\ timers' = timers \ {t}
      /\ queue' = Append(queue, task)
  BY DEF SendTask, topicVars
<1>2. task.votes = t.votes
  OBVIOUS
<1> HIDE DEF task
<1>3. queue \in Seq(Tasks)
  BY DEF VotesTypeOK
<1>4. QED
  BY <1>1, <1>2, <1>3

\* The worker takes the first task of TxQueue and its votes are done.
LEMMA RunFacts ==
    ASSUME VotesTypeOK, RunTask
    PROVE  /\ UNCHANGED <<topic, position, marked, committed, voteMap, timers, crashes, rebalances>>
           /\ Len(queue) \in Nat /\ DOMAIN queue = 1 .. Len(queue) /\ 1 \in DOMAIN queue
           /\ DOMAIN queue' = 1 .. Len(queue) - 1
           /\ \A i \in DOMAIN queue' : queue'[i] = queue[i + 1] /\ i + 1 \in DOMAIN queue
           /\ done' = done \cup queue[1].votes
<1>1. /\ UNCHANGED <<topic, position, marked, committed, voteMap, timers, crashes, rebalances>>
      /\ queue # <<>> /\ queue' = Tail(queue)
      /\ done' = done \cup Head(queue).votes
  BY DEF RunTask, topicVars
<1>2. queue \in Seq(Tasks)
  BY DEF VotesTypeOK
<1>3. QED
  BY <1>1, <1>2, TailFacts

\* The steps that touch neither a round nor a timer nor TxQueue.
QuietStep ==
    \/ \E vote \in Votes : Publish(vote)
    \/ SkipVote
    \/ CommitOffset
    \/ \E device \in Devices \cup {None}, address \in Owners \cup {Empty} :
          StoreAddress(device, address)
    \/ UNCHANGED voteVars

\* They leave the votes where they are, and the topic only grows.
LEMMA QuietFacts ==
    ASSUME VotesTypeOK, QuietStep
    PROVE  /\ UNCHANGED <<voteMap, timers, queue, done, crashes, rebalances>>
           /\ Len(topic) \in Nat /\ Len(topic') \in Nat /\ Len(topic) <= Len(topic')
           /\ \A o \in 1 .. Len(topic) : topic'[o] = topic[o]
           /\ position \in Nat /\ position' \in Nat /\ position <= position'
<1>1. CASE \E vote \in Votes : Publish(vote)
  BY <1>1 DEF Publish, VotesTypeOK
<1>2. CASE SkipVote
  BY <1>2 DEF SkipVote, topicVars, VotesTypeOK
<1>3. CASE CommitOffset
  BY <1>3 DEF CommitOffset, VotesTypeOK
<1>4. CASE \E device \in Devices \cup {None}, address \in Owners \cup {Empty} :
              StoreAddress(device, address)
  BY <1>4 DEF StoreAddress, topicVars, VotesTypeOK
<1>5. CASE UNCHANGED voteVars
  BY <1>5 DEF voteVars, VotesTypeOK
<1>6. QED
  BY <1>1, <1>2, <1>3, <1>4, <1>5 DEF QuietStep

\* Every step is a quiet one or one of the others.
LEMMA NextCases ==
    ASSUME [VotesNext]_voteVars
    PROVE  \/ QuietStep
           \/ \E sent \in BOOLEAN : ConsumeVote(sent)
           \/ \E t \in timers : CloseRound(t)
           \/ \E t \in timers : LookUpAddress(t)
           \/ \E t \in timers : SendTask(t)
           \/ RunTask
           \/ \E offset \in committed .. Len(topic) : Rebalance(offset) \/ Crash(offset)
  BY DEF VotesNext, QuietStep

-----------------------------------------------------------------------------
(* The parts of the invariant, one by one *)

\* Timers wake up empty and get an address before they send.
LEMMA TimersStep ==
    ASSUME VotesTypeOK, TimersInOrder, [VotesNext]_voteVars
    PROVE  TimersInOrder'
<1>1. CASE QuietStep
  BY <1>1, QuietFacts DEF TimersInOrder
<1>2. ASSUME NEW sent \in BOOLEAN, ConsumeVote(sent)
      PROVE  TimersInOrder'
  <2> DEFINE new == StartTimer(topic[position + 1].hash, <<Session, position + 1>>)
  <2>1. /\ timers' \subseteq timers \cup {new}
        /\ new.votes = {} /\ new.at = "sleep" /\ new.address = None
    BY <1>2, ConsumeFacts
  <2> HIDE DEF new
  <2>2. QED
    BY <2>1 DEF TimersInOrder
<1>3. ASSUME NEW t \in timers, CloseRound(t)
      PROVE  TimersInOrder'
  <2> DEFINE u == [t EXCEPT !.at = "lookup", !.votes = Filed(t.hash)]
  <2>1. timers' \subseteq timers \cup {u} /\ u.at = "lookup"
    BY <1>3, CloseFacts
  <2> HIDE DEF u
  <2>2. QED
    BY <2>1 DEF TimersInOrder
<1>4. ASSUME NEW t \in timers, LookUpAddress(t)
      PROVE  TimersInOrder'
  BY <1>4, LookUpFacts DEF TimersInOrder
<1>5. ASSUME NEW t \in timers, SendTask(t)
      PROVE  TimersInOrder'
  BY <1>5, SendFacts DEF TimersInOrder
<1>6. CASE RunTask
  BY <1>6, RunFacts DEF TimersInOrder
<1>7. ASSUME NEW offset \in committed .. Len(topic), Rebalance(offset) \/ Crash(offset)
      PROVE  TimersInOrder'
  BY <1>7 DEF Rebalance, Crash, TimersInOrder
<1>8. QED
  BY <1>1, <1>2, <1>3, <1>4, <1>5, <1>6, <1>7, NextCases

\* Votes get into memory only from the topic.
LEMMA HeldStep ==
    ASSUME VotesTypeOK, HeldWereRead, [VotesNext]_voteVars
    PROVE  HeldWereRead'
<1>0. Session \in Nat /\ position \in Nat
  BY DEF VotesTypeOK, Session
<1>1. CASE QuietStep
  <2>1. /\ UNCHANGED <<voteMap, timers, queue, done, crashes, rebalances>>
        /\ position' \in Nat /\ position <= position'
    BY <1>1, QuietFacts
  <2>2. Delivered \subseteq Delivered'
    BY <1>0, <2>1 DEF Delivered, Session, Deliveries
  <2>3. \A h \in Hashes : Filed(h)' = Filed(h)
    BY <2>1 DEF Filed
  <2>4. QED
    BY <2>1, <2>2, <2>3 DEF HeldWereRead
<1>2. ASSUME NEW sent \in BOOLEAN, ConsumeVote(sent)
      PROVE  HeldWereRead'
  <2> DEFINE new == StartTimer(topic[position + 1].hash, <<Session, position + 1>>)
  <2>1. /\ position' = position + 1
        /\ UNCHANGED <<queue, done, crashes, rebalances>>
        /\ \A k \in Hashes : Filed(k)' \subseteq Filed(k) \cup {<<Session, position + 1>>}
        /\ timers' \subseteq timers \cup {new} /\ new.votes = {}
    BY <1>2, ConsumeFacts
  <2> HIDE DEF new
  <2>2. Delivered \subseteq Delivered' /\ <<Session, position + 1>> \in Delivered'
    BY <1>0, <2>1 DEF Delivered, Session, Deliveries
  <2>3. QED
    BY <2>1, <2>2 DEF HeldWereRead
<1>3. ASSUME NEW t \in timers, CloseRound(t)
      PROVE  HeldWereRead'
  <2> DEFINE u == [t EXCEPT !.at = "lookup", !.votes = Filed(t.hash)]
  <2>1. /\ UNCHANGED <<position, queue, done, crashes, rebalances>>
        /\ t.hash \in Hashes
        /\ \A k \in Hashes : Filed(k)' \subseteq Filed(k)
        /\ timers' \subseteq timers \cup {u} /\ u.votes = Filed(t.hash)
    BY <1>3, CloseFacts
  <2> HIDE DEF u
  <2>2. Delivered' = Delivered
    BY <2>1 DEF Delivered, Session
  <2>3. QED
    BY <2>1, <2>2 DEF HeldWereRead
<1>4. ASSUME NEW t \in timers, LookUpAddress(t)
      PROVE  HeldWereRead'
  <2>1. \A h \in Hashes : Filed(h)' = Filed(h)
    BY <1>4, LookUpFacts DEF Filed
  <2>2. Delivered' = Delivered
    BY <1>4, LookUpFacts DEF Delivered, Session
  <2>3. QED
    BY <1>4, <2>1, <2>2, LookUpFacts DEF HeldWereRead
<1>5. ASSUME NEW t \in timers, SendTask(t)
      PROVE  HeldWereRead'
  <2>1. \A h \in Hashes : Filed(h)' = Filed(h)
    BY <1>5, SendFacts DEF Filed
  <2>2. /\ UNCHANGED <<position, done, crashes, rebalances>> /\ timers' \subseteq timers
        /\ Len(queue) \in Nat /\ DOMAIN queue = 1 .. Len(queue)
        /\ DOMAIN queue' = 1 .. Len(queue) + 1
        /\ \A i \in DOMAIN queue : queue'[i] = queue[i]
        /\ queue'[Len(queue) + 1].votes = t.votes
    BY <1>5, SendFacts
  <2>3. \A i \in DOMAIN queue' : i \in DOMAIN queue \/ i = Len(queue) + 1
    BY <2>2
  <2>4. Delivered' = Delivered
    BY <2>2 DEF Delivered, Session
  <2>5. QED
    BY <2>1, <2>2, <2>3, <2>4 DEF HeldWereRead
<1>6. CASE RunTask
  <2>1. \A h \in Hashes : Filed(h)' = Filed(h)
    BY <1>6, RunFacts DEF Filed
  <2>2. Delivered' = Delivered
    BY <1>6, RunFacts DEF Delivered, Session
  <2>3. QED
    BY <1>6, <2>1, <2>2, RunFacts DEF HeldWereRead
<1>7. ASSUME NEW offset \in committed .. Len(topic), Rebalance(offset) \/ Crash(offset)
      PROVE  HeldWereRead'
  <2>1. UNCHANGED done /\ Session' = Session + 1
    BY <1>7, SessionFacts
  <2>2. Delivered \subseteq Delivered'
    BY <1>0, <2>1 DEF Delivered, Deliveries
  <2>3. CASE Rebalance(offset)
    <3>1. UNCHANGED <<voteMap, timers, queue>>
      BY <2>3 DEF Rebalance
    <3>2. \A h \in Hashes : Filed(h)' = Filed(h)
      BY <3>1 DEF Filed
    <3>3. QED
      BY <2>1, <2>2, <3>1, <3>2 DEF HeldWereRead
  <2>4. CASE Crash(offset)
    <3>1. timers' = {} /\ queue' = <<>> /\ \A h \in Hashes : voteMap'[h] = <<>>
      BY <2>4 DEF Crash
    <3>2. \A h \in Hashes : Filed(h)' = {}
      BY <3>1 DEF Filed
    <3>3. QED
      BY <2>1, <2>2, <3>1, <3>2 DEF HeldWereRead
  <2>5. QED
    BY <1>7, <2>3, <2>4
<1>8. QED
  BY <1>1, <1>2, <1>3, <1>4, <1>5, <1>6, <1>7, NextCases

\* The mark follows the last valid vote that was read.
LEMMA MarkStep ==
    ASSUME VotesTypeOK, MarkCoversValid, [VotesNext]_voteVars
    PROVE  MarkCoversValid'
<1> USE DEF Session
<1>0. /\ position \in Nat /\ marked \in Nat /\ Len(topic) \in Nat /\ committed \in Nat
      /\ position <= Len(topic) /\ marked <= position /\ crashes \in Nat
  BY DEF VotesTypeOK
<1>1. ASSUME NEW vote \in Votes, Publish(vote)
      PROVE  MarkCoversValid'
  <2>1. \A o \in 1 .. Len(topic) : topic'[o] = topic[o]
    BY <1>1 DEF Publish, VotesTypeOK
  <2>2. UNCHANGED <<position, marked, crashes, rebalances>>
    BY <1>1 DEF Publish
  <2>3. QED
    BY <1>0, <2>1, <2>2 DEF MarkCoversValid
<1>2. CASE SkipVote
  BY <1>0, <1>2 DEF SkipVote, topicVars, MarkCoversValid
<1>3. ASSUME NEW sent \in BOOLEAN, ConsumeVote(sent)
      PROVE  MarkCoversValid'
  <2>1. position' = position + 1 /\ marked' = position + 1
    BY <1>3, ConsumeFacts
  <2>2. (marked + 1)' .. position' = {}
    BY <1>0, <2>1
  <2>3. QED
    BY <2>2 DEF MarkCoversValid
<1>4. ASSUME NEW offset \in committed .. Len(topic), Rebalance(offset) \/ Crash(offset)
      PROVE  MarkCoversValid'
  <2>1. /\ marked' = offset /\ Session' # 1
        /\ position' = IF offset = 0 THEN Len(topic) ELSE offset
    BY <1>4, SessionFacts
  <2>2. offset \in Nat
    BY <1>0
  <2>3. CASE offset = 0
    <3> HIDE DEF Session
    <3>1. QED
      BY <2>1, <2>3 DEF MarkCoversValid
  <2>4. CASE offset # 0
    <3>1. (marked + 1)' .. position' = {}
      BY <2>1, <2>2, <2>4
    <3>2. QED
      BY <3>1 DEF MarkCoversValid
  <2>5. QED
    BY <2>3, <2>4
<1>5. CASE UNCHANGED <<topic, position, marked, crashes, rebalances>>
  BY <1>5 DEF MarkCoversValid
<1>6. QED
  BY <1>1, <1>2, <1>3, <1>4, <1>5
     DEF VotesNext, CommitOffset, StoreAddress, CloseRound, LookUpAddress, SendTask, RunTask,
         topicVars, voteVars

\* OneTimerPerRound for one hash, timer by timer.
RoundHasTimer(h) ==
    /\ \A t \in timers : t.at = "sleep" /\ t.hash = h =>
          voteMap[h] # <<>> /\ t.by = Head(voteMap[h])
    /\ voteMap[h] # <<>> => \E t \in timers : t.at = "sleep" /\ t.hash = h

AllRoundsHaveTimers == \A h \in Hashes : RoundHasTimer(h)

\* The two ways to say that rounds and sleeping timers correspond agree.
LEMMA OneTimerPointwise == OneTimerPerRound <=> AllRoundsHaveTimers
<1>1. ASSUME NEW h \in Hashes
      PROVE  ({t.by : t \in {u \in timers : u.at = "sleep" /\ u.hash = h}}
                 = IF voteMap[h] = <<>> THEN {} ELSE {Head(voteMap[h])})
             <=> RoundHasTimer(h)
  <2> DEFINE first == Head(voteMap[h])
  <2> HIDE DEF first
  <2>1. CASE voteMap[h] = <<>>
    BY <2>1 DEF RoundHasTimer
  <2>2. CASE voteMap[h] # <<>>
    BY <2>2 DEF RoundHasTimer
  <2>3. QED
    BY <2>1, <2>2
<1>2. QED
  BY <1>1 DEF OneTimerPerRound, AllRoundsHaveTimers

\* A round and its timer begin and end together.
LEMMA OneTimerStep ==
    ASSUME VotesTypeOK, TimersInOrder, OneTimerPerRound, [VotesNext]_voteVars
    PROVE  OneTimerPerRound'
<1> USE DEF RoundHasTimer
<1>0. \A h \in Hashes : RoundHasTimer(h)
  BY OneTimerPointwise DEF AllRoundsHaveTimers
<1>1. SUFFICES ASSUME NEW h \in Hashes
               PROVE  RoundHasTimer(h)'
  <2>1. AllRoundsHaveTimers'
    BY <1>1 DEF AllRoundsHaveTimers
  <2>2. QED
    BY <2>1, OneTimerPointwise, PTL
<1>2. CASE QuietStep
  <2>1. UNCHANGED <<voteMap, timers>>
    BY <1>2, QuietFacts
  <2>2. QED
    BY <1>0, <2>1
<1>3. ASSUME NEW sent \in BOOLEAN, ConsumeVote(sent)
      PROVE  RoundHasTimer(h)'
  <2> DEFINE offset == <<Session, position + 1>>
             g == topic[position + 1].hash
             new == StartTimer(g, offset)
  <2>1. /\ g \in Hashes
        /\ \A k \in Hashes : k # g => voteMap'[k] = voteMap[k]
        /\ voteMap'[g] # <<>>
        /\ voteMap[g] = <<>> => timers' = timers \cup {new} /\ Head(voteMap'[g]) = offset
        /\ voteMap[g] # <<>> => timers' = timers /\ Head(voteMap'[g]) = Head(voteMap[g])
        /\ new.at = "sleep" /\ new.by = offset /\ new.hash = g
    BY <1>3, ConsumeFacts
  <2> HIDE DEF offset, g, new
  <2>2. CASE h # g
    BY <1>0, <2>1, <2>2
  <2>3. CASE h = g /\ voteMap[g] = <<>>
    <3>1. \A t \in timers : ~(t.at = "sleep" /\ t.hash = g)
      BY <1>0, <2>1, <2>3
    <3>2. QED
      BY <2>1, <2>3, <3>1
  <2>4. CASE h = g /\ voteMap[g] # <<>>
    BY <1>0, <2>1, <2>4
  <2>5. QED
    BY <2>2, <2>3, <2>4
<1>4. ASSUME NEW t \in timers, CloseRound(t)
      PROVE  RoundHasTimer(h)'
  <2> DEFINE u == [t EXCEPT !.at = "lookup", !.votes = Filed(t.hash)]
  <2>1. /\ t.at = "sleep" /\ t.hash \in Hashes
        /\ voteMap'[t.hash] = <<>>
        /\ \A k \in Hashes : k # t.hash => voteMap'[k] = voteMap[k]
        /\ timers' \subseteq (timers \ {t}) \cup {u}
        /\ \A w \in timers : w # t => w \in timers'
        /\ u.at = "lookup"
    BY <1>4, CloseFacts
  <2> HIDE DEF u
  <2>2. CASE h # t.hash
    BY <1>0, <2>1, <2>2
  <2>3. CASE h = t.hash
    <3>1. ASSUME NEW w \in timers', w.at = "sleep", w.hash = t.hash
          PROVE  FALSE
      <4>1. w \in timers /\ w # t
        BY <2>1, <3>1
      <4>2. w.by = t.by
        BY <1>0, <2>1, <3>1, <4>1
      <4>3. w.votes = t.votes /\ w.address = t.address
        BY <2>1, <3>1, <4>1 DEF TimersInOrder
      <4>4. w \in Timers /\ t \in Timers
        BY <4>1 DEF VotesTypeOK
      <4>5. w = t
        BY <2>1, <3>1, <4>2, <4>3, <4>4 DEF Timers
      <4>6. QED
        BY <4>1, <4>5
    <3>2. QED
      BY <2>1, <2>3, <3>1
  <2>4. QED
    BY <2>2, <2>3
<1>5. ASSUME NEW t \in timers, LookUpAddress(t)
      PROVE  RoundHasTimer(h)'
  <2>1. /\ UNCHANGED voteMap /\ t.at = "lookup"
        /\ \A w \in timers : w # t => w \in timers'
        /\ \A w \in timers' : w \in timers \/ w.at = "send"
    BY <1>5, LookUpFacts
  <2>2. QED
    BY <1>0, <2>1
<1>6. ASSUME NEW t \in timers, SendTask(t)
      PROVE  RoundHasTimer(h)'
  <2>1. UNCHANGED voteMap /\ t.at = "send" /\ timers' = timers \ {t}
    BY <1>6, SendFacts
  <2>2. QED
    BY <1>0, <2>1
<1>7. CASE RunTask
  <2>1. UNCHANGED <<voteMap, timers>>
    BY <1>7, RunFacts
  <2>2. QED
    BY <1>0, <2>1
<1>8. ASSUME NEW offset \in committed .. Len(topic), Rebalance(offset) \/ Crash(offset)
      PROVE  RoundHasTimer(h)'
  <2>1. CASE Rebalance(offset)
    <3>1. UNCHANGED <<voteMap, timers>>
      BY <2>1 DEF Rebalance
    <3>2. QED
      BY <1>0, <3>1
  <2>2. CASE Crash(offset)
    <3>1. voteMap'[h] = <<>> /\ timers' = {}
      BY <2>2 DEF Crash
    <3>2. QED
      BY <3>1
  <2>3. QED
    BY <1>8, <2>1, <2>2
<1>9. QED
  BY <1>2, <1>3, <1>4, <1>5, <1>6, <1>7, <1>8, NextCases

\* A vote moves from round to timer to task to history and is never in two.
LEMMA NoTwiceStep ==
    ASSUME VotesTypeOK, HeldWereRead, NoVoteTwice, [VotesNext]_voteVars
    PROVE  NoVoteTwice'
<1>0. position \in Nat /\ Session \in Nat
  BY DEF VotesTypeOK, Session
<1>1. CASE QuietStep
  <2>1. UNCHANGED <<voteMap, timers, queue, done, crashes, rebalances>>
    BY <1>1, QuietFacts
  <2>2. QED
    BY <2>1 DEF NoVoteTwice, InMemory, Filed
<1>2. ASSUME NEW sent \in BOOLEAN, ConsumeVote(sent)
      PROVE  NoVoteTwice'
  <2> DEFINE offset == <<Session, position + 1>>
             g == topic[position + 1].hash
             new == StartTimer(g, offset)
  <2>1. /\ UNCHANGED <<queue, done, crashes, rebalances>>
        /\ \A k \in Hashes : Filed(k)' = IF k = g THEN Filed(k) \cup {offset} ELSE Filed(k)
        /\ timers' = timers \/ timers' = timers \cup {new}
        /\ new.votes = {}
    BY <1>2, ConsumeFacts
  <2>2. offset \notin Delivered
    BY <1>0 DEF Delivered
  <2> HIDE DEF offset, g, new
  <2>3. /\ \A k \in Hashes : offset \notin Filed(k)
        /\ \A t \in timers : offset \notin t.votes
        /\ \A i \in DOMAIN queue : offset \notin queue[i].votes
        /\ offset \notin done
    BY <2>2 DEF HeldWereRead
  <2>4. /\ \A h, k \in Hashes : h # k => (Filed(h) \cap Filed(k))' = {}
        /\ \A t, u \in timers' : t # u => t.votes \cap u.votes = {}
        /\ \A i, j \in DOMAIN queue' : i # j => queue'[i].votes \cap queue'[j].votes = {}
        /\ \A t \in timers', h \in Hashes : t.votes \cap Filed(h)' = {}
        /\ \A i \in DOMAIN queue', h \in Hashes : queue'[i].votes \cap Filed(h)' = {}
        /\ \A i \in DOMAIN queue', t \in timers' : queue'[i].votes \cap t.votes = {}
    BY <2>1, <2>3 DEF NoVoteTwice
  <2>5. \A o : InMemory(o)' => InMemory(o) \/ o = offset
    BY <2>1 DEF InMemory
  <2>6. \A o \in done' : ~InMemory(o)'
    BY <2>1, <2>3, <2>5 DEF NoVoteTwice
  <2>7. QED
    BY <2>4, <2>6 DEF NoVoteTwice
<1>3. ASSUME NEW t \in timers, CloseRound(t)
      PROVE  NoVoteTwice'
  <2> DEFINE w == [t EXCEPT !.at = "lookup", !.votes = Filed(t.hash)]
  <2>1. /\ UNCHANGED <<queue, done, crashes, rebalances>>
        /\ t.hash \in Hashes
        /\ \A k \in Hashes : Filed(k)' = IF k = t.hash THEN {} ELSE Filed(k)
        /\ \A u \in timers' : u \in timers \/ u = w
        /\ w.votes = Filed(t.hash)
    BY <1>3, CloseFacts
  <2> HIDE DEF w
  <2>2. /\ \A h, k \in Hashes : h # k => (Filed(h) \cap Filed(k))' = {}
        /\ \A u, v \in timers' : u # v => u.votes \cap v.votes = {}
        /\ \A i, j \in DOMAIN queue' : i # j => queue'[i].votes \cap queue'[j].votes = {}
        /\ \A u \in timers', h \in Hashes : u.votes \cap Filed(h)' = {}
        /\ \A i \in DOMAIN queue', h \in Hashes : queue'[i].votes \cap Filed(h)' = {}
        /\ \A i \in DOMAIN queue', u \in timers' : queue'[i].votes \cap u.votes = {}
    BY <2>1 DEF NoVoteTwice
  <2>3. \A o : InMemory(o)' => InMemory(o)
    BY <2>1 DEF InMemory
  <2>4. \A o \in done' : ~InMemory(o)'
    BY <2>1, <2>3 DEF NoVoteTwice
  <2>5. QED
    BY <2>2, <2>4 DEF NoVoteTwice
<1>4. ASSUME NEW t \in timers, LookUpAddress(t)
      PROVE  NoVoteTwice'
  <2>1. UNCHANGED <<queue, crashes, rebalances>> /\ \A h \in Hashes : Filed(h)' = Filed(h)
    BY <1>4, LookUpFacts DEF Filed
  <2>2. CASE timers' = timers \ {t} /\ done' = done \cup t.votes
    <3>1. ASSUME NEW o, InMemory(o)'
          PROVE  InMemory(o) /\ o \notin t.votes
      BY <2>1, <2>2, <3>1 DEF InMemory, NoVoteTwice
    <3>2. QED
      BY <2>1, <2>2, <3>1 DEF NoVoteTwice
  <2>3. ASSUME NEW w, timers' = (timers \ {t}) \cup {w}, done' = done, w.votes = t.votes
        PROVE  NoVoteTwice'
    <3>1. /\ \A u, v \in timers' : u # v => u.votes \cap v.votes = {}
          /\ \A u \in timers', h \in Hashes : u.votes \cap Filed(h)' = {}
          /\ \A i \in DOMAIN queue', u \in timers' : queue'[i].votes \cap u.votes = {}
      BY <2>1, <2>3 DEF NoVoteTwice
    <3>2. \A o : InMemory(o)' => InMemory(o)
      BY <2>1, <2>3 DEF InMemory
    <3>3. QED
      BY <2>1, <2>3, <3>1, <3>2 DEF NoVoteTwice
  <2>4. QED
    BY <1>4, <2>2, <2>3, LookUpFacts
<1>5. ASSUME NEW t \in timers, SendTask(t)
      PROVE  NoVoteTwice'
  <2> DEFINE n == Len(queue) + 1
  <2>1. /\ UNCHANGED <<done, crashes, rebalances>> /\ \A h \in Hashes : Filed(h)' = Filed(h)
        /\ timers' = timers \ {t}
        /\ \A i \in DOMAIN queue' : \/ i \in DOMAIN queue /\ queue'[i] = queue[i]
                                    \/ i = n /\ queue'[i].votes = t.votes
    <3>1. \A h \in Hashes : Filed(h)' = Filed(h)
      BY <1>5, SendFacts DEF Filed
    <3>2. QED
      BY <1>5, <3>1, SendFacts
  <2> HIDE DEF n
  <2>2. /\ \A h, k \in Hashes : h # k => (Filed(h) \cap Filed(k))' = {}
        /\ \A u, v \in timers' : u # v => u.votes \cap v.votes = {}
        /\ \A i, j \in DOMAIN queue' : i # j => queue'[i].votes \cap queue'[j].votes = {}
        /\ \A u \in timers', h \in Hashes : u.votes \cap Filed(h)' = {}
        /\ \A i \in DOMAIN queue', h \in Hashes : queue'[i].votes \cap Filed(h)' = {}
        /\ \A i \in DOMAIN queue', u \in timers' : queue'[i].votes \cap u.votes = {}
    BY <2>1 DEF NoVoteTwice
  <2>3. \A o : InMemory(o)' => InMemory(o)
    BY <2>1 DEF InMemory
  <2>4. QED
    BY <2>1, <2>2, <2>3 DEF NoVoteTwice
<1>6. CASE RunTask
  <2>1. /\ UNCHANGED <<timers, crashes, rebalances>> /\ \A h \in Hashes : Filed(h)' = Filed(h)
        /\ 1 \in DOMAIN queue
        /\ \A i \in DOMAIN queue' : queue'[i] = queue[i + 1] /\ i + 1 \in DOMAIN queue
        /\ done' = done \cup queue[1].votes
    <3>1. \A h \in Hashes : Filed(h)' = Filed(h)
      BY <1>6, RunFacts DEF Filed
    <3>2. QED
      BY <1>6, <3>1, RunFacts
  <2>2. \A i \in DOMAIN queue' : i \in Nat \ {0}
    BY <1>6, RunFacts
  <2>3. \A i, j \in DOMAIN queue' : i # j => queue'[i].votes \cap queue'[j].votes = {}
    <3>1. \A i, j \in DOMAIN queue' : i # j => i + 1 # j + 1
      BY <2>2
    <3>2. QED
      BY <2>1, <3>1 DEF NoVoteTwice
  <2>4. \A i \in DOMAIN queue' : i + 1 # 1
    BY <2>2
  <2>5. ASSUME NEW o, InMemory(o)'
        PROVE  InMemory(o) /\ o \notin queue[1].votes
    BY <2>1, <2>4, <2>5 DEF InMemory, NoVoteTwice
  <2>6. QED
    BY <2>1, <2>3, <2>5 DEF NoVoteTwice
<1>7. ASSUME NEW offset \in committed .. Len(topic), Rebalance(offset) \/ Crash(offset)
      PROVE  NoVoteTwice'
  <2>1. CASE Rebalance(offset)
    <3>1. UNCHANGED <<voteMap, timers, queue, done>>
      BY <2>1 DEF Rebalance
    <3>2. \A h \in Hashes : Filed(h)' = Filed(h)
      BY <3>1 DEF Filed
    <3>3. \A d : InMemory(d)' <=> InMemory(d)
      BY <3>1, <3>2 DEF InMemory
    <3>4. QED
      BY <3>1, <3>2, <3>3 DEF NoVoteTwice
  <2>2. CASE Crash(offset)
    <3>1. timers' = {} /\ queue' = <<>> /\ \A h \in Hashes : voteMap'[h] = <<>>
      BY <2>2 DEF Crash
    <3>2. \A h \in Hashes : Filed(h)' = {}
      BY <3>1 DEF Filed
    <3>3. QED
      BY <3>1, <3>2 DEF NoVoteTwice, InMemory
  <2>3. QED
    BY <1>7, <2>1, <2>2
<1>8. QED
  BY <1>1, <1>2, <1>3, <1>4, <1>5, <1>6, <1>7, NextCases

\* The bridge does not forget a vote: it stays in memory or its round is over.
StillKept == \A d : Kept(d) => Kept(d)'

\* Of the steps that touch what the bridge has in memory only a crash forgets.
LEMMA KeptStep ==
    ASSUME VotesTypeOK, TimersInOrder, [VotesNext]_voteVars, crashes' = crashes
    PROVE  StillKept
<1> USE DEF StillKept, Kept
<1>1. CASE QuietStep
  <2>1. UNCHANGED <<voteMap, timers, queue, done>>
    BY <1>1, QuietFacts
  <2>2. QED
    BY <2>1 DEF InMemory, Filed
<1>2. ASSUME NEW sent \in BOOLEAN, ConsumeVote(sent)
      PROVE  StillKept
  <2>1. /\ UNCHANGED <<queue, done>>
        /\ \A k \in Hashes : Filed(k) \subseteq Filed(k)'
        /\ timers \subseteq timers'
    BY <1>2, ConsumeFacts
  <2>2. QED
    BY <2>1 DEF InMemory
<1>3. ASSUME NEW t \in timers, CloseRound(t)
      PROVE  StillKept
  <2> DEFINE w == [t EXCEPT !.at = "lookup", !.votes = Filed(t.hash)]
  <2>1. /\ UNCHANGED <<queue, done>>
        /\ t.at = "sleep" /\ t.hash \in Hashes
        /\ \A k \in Hashes : k # t.hash => Filed(k)' = Filed(k)
        /\ Filed(t.hash) # {} => w \in timers'
        /\ w.votes = Filed(t.hash)
        /\ \A u \in timers : u # t => u \in timers'
    BY <1>3, CloseFacts
  <2> HIDE DEF w
  <2>2. t.votes = {}
    BY <2>1 DEF TimersInOrder
  <2>3. QED
    BY <2>1, <2>2 DEF InMemory
<1>4. ASSUME NEW t \in timers, LookUpAddress(t)
      PROVE  StillKept
  <2>1. UNCHANGED queue /\ \A h \in Hashes : Filed(h)' = Filed(h)
    BY <1>4, LookUpFacts DEF Filed
  <2>2. /\ \A u \in timers : u # t => u \in timers'
        /\ done \subseteq done'
        /\ t.votes \subseteq done' \/ \E u \in timers' : u.votes = t.votes
    BY <1>4, LookUpFacts
  <2>3. QED
    BY <2>1, <2>2 DEF InMemory
<1>5. ASSUME NEW t \in timers, SendTask(t)
      PROVE  StillKept
  <2>1. \A h \in Hashes : Filed(h)' = Filed(h)
    BY <1>5, SendFacts DEF Filed
  <2>2. /\ UNCHANGED done
        /\ \A u \in timers : u # t => u \in timers'
        /\ \A i \in DOMAIN queue : i \in DOMAIN queue' /\ queue'[i] = queue[i]
        /\ Len(queue) + 1 \in DOMAIN queue' /\ queue'[Len(queue) + 1].votes = t.votes
    BY <1>5, SendFacts
  <2>3. QED
    BY <2>1, <2>2 DEF InMemory
<1>6. CASE RunTask
  <2>1. \A h \in Hashes : Filed(h)' = Filed(h)
    BY <1>6, RunFacts DEF Filed
  <2>2. /\ UNCHANGED timers
        /\ Len(queue) \in Nat /\ DOMAIN queue = 1 .. Len(queue)
        /\ DOMAIN queue' = 1 .. Len(queue) - 1
        /\ \A i \in DOMAIN queue' : queue'[i] = queue[i + 1]
        /\ done' = done \cup queue[1].votes
    BY <1>6, RunFacts
  <2>3. \A i \in DOMAIN queue : i = 1 \/ \E j \in DOMAIN queue' : queue'[j] = queue[i]
    <3>1. SUFFICES ASSUME NEW i \in DOMAIN queue, i # 1
                   PROVE  \E j \in DOMAIN queue' : queue'[j] = queue[i]
      OBVIOUS
    <3>2. i - 1 \in DOMAIN queue' /\ (i - 1) + 1 = i
      BY <2>2, <3>1
    <3>3. QED
      BY <2>2, <3>2
  <2>4. QED
    BY <2>1, <2>2, <2>3 DEF InMemory
<1>7. ASSUME NEW offset \in committed .. Len(topic), Rebalance(offset) \/ Crash(offset)
      PROVE  StillKept
  <2>1. ~Crash(offset)
    BY DEF Crash, VotesTypeOK
  <2>2. UNCHANGED <<voteMap, timers, queue, done>>
    BY <1>7, <2>1 DEF Rebalance
  <2>3. QED
    BY <2>2 DEF InMemory, Filed
<1>8. QED
  BY <1>1, <1>2, <1>3, <1>4, <1>5, <1>6, <1>7, NextCases

\* A valid vote behind the committed offset is still to come, in memory or done.
LEMMA NotLostStep ==
    ASSUME VotesTypeOK, TimersInOrder, MarkCoversValid, UncommittedNotLost, [VotesNext]_voteVars
    PROVE  UncommittedNotLost'
<1> USE DEF Session
<1>0. /\ position \in Nat /\ marked \in Nat /\ Len(topic) \in Nat /\ committed \in Nat
      /\ position <= Len(topic) /\ committed <= marked /\ marked <= position
      /\ crashes \in Nat /\ rebalances \in Nat
  BY DEF VotesTypeOK
<1>1. ASSUME NEW vote \in Votes, Publish(vote)
      PROVE  UncommittedNotLost'
  <2>1. /\ \A o \in Offsets : topic'[o] = topic[o]
        /\ Offsets' = Offsets \cup {Len(topic) + 1}
    BY <1>1 DEF Publish, VotesTypeOK, Offsets
  <2>2. UNCHANGED <<position, committed, crashes, rebalances>>
    BY <1>1 DEF Publish
  <2>3. StillKept
    BY <2>2, KeptStep
  <2>4. QED
    BY <1>0, <2>1, <2>2, <2>3 DEF UncommittedNotLost, StillKept
<1>2. CASE SkipVote
  <2>1. /\ position' = position + 1 /\ ~topic[position + 1].valid
        /\ UNCHANGED <<topic, committed, crashes, rebalances>>
    BY <1>2 DEF SkipVote, topicVars
  <2>2. StillKept
    BY <2>1, KeptStep
  <2>3. QED
    BY <1>0, <2>1, <2>2 DEF UncommittedNotLost, StillKept, Offsets
<1>3. ASSUME NEW sent \in BOOLEAN, ConsumeVote(sent)
      PROVE  UncommittedNotLost'
  <2>1. /\ position' = position + 1
        /\ UNCHANGED <<topic, committed, crashes, rebalances>>
        /\ \E k \in Hashes : <<Session, position + 1>> \in Filed(k)'
    <3>1. topic[position + 1].hash \in Hashes
      BY <1>3, ConsumeFacts
    <3>2. \A k \in Hashes : k = topic[position + 1].hash => <<Session, position + 1>> \in Filed(k)'
      BY <1>3, ConsumeFacts
    <3>3. QED
      BY <1>3, <3>1, <3>2, ConsumeFacts
  <2> HIDE DEF Session
  <2>2. \A d : d = <<Session, position + 1>> => Kept(d)'
    BY <2>1 DEF InMemory, Kept
  <2>3. StillKept
    BY <2>1, KeptStep
  <2>4. Session' = Session /\ Session \in 1 .. Session
    BY <2>1, SessionType DEF Session
  <2>5. QED
    BY <1>0, <2>1, <2>2, <2>3, <2>4 DEF UncommittedNotLost, StillKept, Offsets
<1>4. CASE CommitOffset
  <2>1. committed' = marked /\ UNCHANGED <<topic, position, crashes, rebalances>>
    BY <1>4 DEF CommitOffset
  <2>2. ASSUME NEW o \in Offsets, topic[o].valid, o > marked, marked > 0 \/ Session = 1
        PROVE  o > position
    BY <1>0, <2>2 DEF MarkCoversValid, Offsets
  <2>3. QED
    BY <2>1, <2>2 DEF UncommittedNotLost, Offsets
<1>5. ASSUME NEW offset \in committed .. Len(topic), Rebalance(offset) \/ Crash(offset)
      PROVE  UncommittedNotLost'
  <2> HIDE DEF Session
  <2>1. /\ UNCHANGED topic /\ committed' = offset /\ Session' # 1
        /\ position' = IF offset = 0 THEN Len(topic) ELSE offset
    BY <1>5, SessionFacts
  <2>2. offset \in Nat
    BY <1>0
  <2>3. CASE offset = 0
    BY <2>1, <2>3 DEF UncommittedNotLost
  <2>4. CASE offset # 0
    BY <2>1, <2>4 DEF UncommittedNotLost
  <2>5. QED
    BY <2>3, <2>4
<1>6. CASE UNCHANGED <<topic, position, committed, crashes, rebalances>>
  BY <1>6, KeptStep DEF UncommittedNotLost, StillKept, Offsets
<1>7. QED
  <2>1. ASSUME NEW device \in Devices \cup {None}, NEW address \in Owners \cup {Empty},
               StoreAddress(device, address)
        PROVE  UNCHANGED <<topic, position, committed, crashes, rebalances>>
    BY <2>1 DEF StoreAddress, topicVars
  <2>2. ASSUME NEW t \in timers, CloseRound(t) \/ LookUpAddress(t) \/ SendTask(t)
        PROVE  UNCHANGED <<topic, position, committed, crashes, rebalances>>
    BY <2>2 DEF CloseRound, LookUpAddress, SendTask, topicVars
  <2>3. RunTask => UNCHANGED <<topic, position, committed, crashes, rebalances>>
    BY DEF RunTask, topicVars
  <2>4. QED
    BY <1>1, <1>2, <1>3, <1>4, <1>5, <1>6, <2>1, <2>2, <2>3 DEF VotesNext, voteVars

-----------------------------------------------------------------------------
(* The theorems *)

\* A bridge that has just started satisfies the invariant.
LEMMA VoteInvInit == VotesInit => VoteInv
<1> SUFFICES ASSUME VotesInit PROVE VoteInv
  OBVIOUS
<1>1. VotesTypeOK
  BY VoteAssumption DEF VotesInit, VotesTypeOK
<1>2. Offsets = {} /\ \A h \in Hashes : voteMap[h] = <<>> /\ Filed(h) = {}
  BY DEF VotesInit, Offsets, Filed
<1>3. HeldWereRead /\ TimersInOrder /\ NoVoteTwice
  BY <1>2 DEF VotesInit, HeldWereRead, TimersInOrder, NoVoteTwice, InMemory
<1>4. MarkCoversValid
  BY DEF VotesInit, MarkCoversValid
<1>5. UncommittedNotLost
  BY <1>2 DEF UncommittedNotLost
<1>6. OneTimerPerRound
  BY <1>2 DEF VotesInit, OneTimerPerRound
<1>7. QED
  BY <1>1, <1>3, <1>4, <1>5, <1>6 DEF VoteInv

\* Every step of the collector keeps the whole invariant.
LEMMA VoteInvStep == VoteInv /\ [VotesNext]_voteVars => VoteInv'
  BY VoteTypeStep, HeldStep, TimersStep, MarkStep, OneTimerStep, NoTwiceStep, NotLostStep
     DEF VoteInv

\* The invariant holds in every state of the collector, whatever the order of
\* votes, timers, answers, commits, rebalances and crashes.
THEOREM VoteInvHolds == VotesSpec => []VoteInv
<1>1. VotesInit => VoteInv
  BY VoteInvInit
<1>2. VoteInv /\ [VotesNext]_voteVars => VoteInv'
  BY VoteInvStep
<1>3. QED
  BY <1>1, <1>2, PTL DEF VotesSpec

\* ConsumeClaim, startVoteTimer and the worker keep the ranges of their state;
\* the marked offset never passes the position, nor the committed one the
\* marked, and TxQueue never holds more than its capacity.
THEOREM VoteTypeCorrect == VotesSpec => []VotesTypeOK
<1>1. VoteInv => VotesTypeOK
  BY DEF VoteInv
<1>2. QED
  BY <1>1, VoteInvHolds, PTL

\* Every open round of VoteMap has exactly one sleeping timer, started by its
\* first vote, and no timer sleeps without a round.
THEOREM OneTimerPerRoundHolds == VotesSpec => []OneTimerPerRound
<1>1. VoteInv => OneTimerPerRound
  BY DEF VoteInv
<1>2. QED
  BY <1>1, VoteInvHolds, PTL

\* A vote counts in at most one round per session that delivers it, also when the
\* rounds of earlier sessions are still open, waiting or queued.
THEOREM NoVoteTwiceHolds == VotesSpec => []NoVoteTwice
<1>1. VoteInv => NoVoteTwice
  BY DEF VoteInv
<1>2. QED
  BY <1>1, VoteInvHolds, PTL

\* A valid vote behind the committed offset is not lost, through any number of
\* crashes and rebalances after the first commit.
THEOREM UncommittedNotLostHolds == VotesSpec => []UncommittedNotLost
<1>1. VoteInv => UncommittedNotLost
  BY DEF VoteInv
<1>2. QED
  BY <1>1, VoteInvHolds, PTL
=============================================================================
