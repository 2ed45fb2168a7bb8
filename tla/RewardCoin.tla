----------------------------- MODULE RewardCoin -----------------------------
(***************************************************************************)
(* The stable coin of x/reward: the REC certificates held as collateral    *)
(* (store prefixes rec_record/ and rec_meta/), the keeper's own count of   *)
(* minted coins (store key supply), and the bank balances and bank supply  *)
(* of the denomination aeil.                                               *)
(*                                                                         *)
(* One action is one message executed by DeliverTx.  A message whose       *)
(* handler returns an error or panics leaves the store as it was (baseapp  *)
(* runs it on a branch that it drops), so failing executions are stutters  *)
(* and the conditions under which the code returns an error are guards.    *)
(***************************************************************************)
EXTENDS Integers, FiniteSets, Functions

CONSTANTS
    Users,            \* accounts that hold aeil
    RewardModule,     \* the module account "reward"
    DepositIds,       \* rec_id values a client puts into a deposited RECRecord
    CertifiedIds,     \* certified_id values of deposited RECMetas
    Amounts,          \* coin amounts (Wh, aeil, mcnl) that messages carry
    OneREC,           \* coins one REC backs; 1000000 in the code
    RemoveUnit,       \* the divisor of RemoveCollateral; 1000 in the code
    BlockReward,      \* the fixed pay-out of DistributeRewardPercent; 10000
    GenesisMcnl,      \* amounts of mcnl genesis may give the module account
    KeyBefore(_, _),  \* byte order of store keys
    MaxHeight,        \* bound: last block height
    MaxCount,         \* bound: largest count of MsgCreateRECRecord
    MaxRemoved        \* bound: RECs dropped by RemoveCollateral

\* Identifiers of internal RECs: "rec-<height>-<i>" is the pair <<height, i>>.
RecIds == Nat \X Nat

ASSUME CoinAssumption ==
    /\ RewardModule \notin Users
    /\ DepositIds \subseteq RecIds
    /\ Amounts \subseteq Nat
    /\ OneREC \in Nat \ {0}
    /\ RemoveUnit \in Nat \ {0}
    /\ BlockReward \in Nat
    /\ GenesisMcnl \subseteq Nat
    /\ MaxHeight \in Nat
    /\ MaxCount \in Nat
    /\ MaxRemoved \in Nat

VARIABLES
    minted,      \* Supply.Minted under the key "supply"
    recRecord,   \* keys present under rec_record/
    recMeta,     \* keys present under rec_meta/
    balance,     \* bank balances of aeil
    bankSupply,  \* bank supply of aeil
    mcnl,        \* the module account's balance of mcnl
    height,      \* ctx.BlockHeight()
    removed,     \* history: RECs dropped by RemoveCollateral
    removedFor,  \* history: coin amounts those removals asked for
    liquidated   \* history: mcnl that BurnModuleStable burned

vars == <<minted, recRecord, recMeta, balance, bankSupply, mcnl, height,
          removed, removedFor, liquidated>>

Holders == Users \cup {RewardModule}

-----------------------------------------------------------------------------
(* Helpers *)

\* GetTotalCollateral: the number of stored RECs of both kinds.
Collateral == Cardinality(recRecord) + Cardinality(recMeta)

\* The 10% fee of a reward, truncated.
Fee(amount) == amount \div 10

\* A subtraction that stops at zero, and two wrong ones: without the stop, and
\* without the subtraction (a burn that forgets to save the new supply).
MonusUnclipped(a, b) == a - b
MonusForgotten(a, b) == IF b >= 0 THEN a ELSE 0
Monus(a, b) == IF a >= b THEN a - b ELSE 0

\* The deletion loop with <= for <: one key too many.
FirstKeysOneMore(T, S, n) ==
    /\ Cardinality(T) = IF n + 1 <= Cardinality(S) THEN n + 1 ELSE Cardinality(S)
    /\ \A t \in T, s \in S \ T : KeyBefore(t, s)

\* T is what a loop over the keys of S deletes when it stops after n deletions:
\* the n smallest keys, or all of S.
FirstKeys(T, S, n) ==
    /\ Cardinality(T) = IF n <= Cardinality(S) THEN n ELSE Cardinality(S)
    /\ \A t \in T, s \in S \ T : KeyBefore(t, s)

\* Delete n RECs, RECRecords before RECMetas; an error when there are too few.
DropCollateral(n) ==
    /\ n <= Collateral
    /\ \E R \in SUBSET recRecord, M \in SUBSET recMeta :
          /\ FirstKeys(R, recRecord, n)
          /\ FirstKeys(M, recMeta, n - Cardinality(R))
          /\ recRecord' = recRecord \ R
          /\ recMeta' = recMeta \ M

-----------------------------------------------------------------------------
(* The store after genesis: nothing minted, no REC, no aeil anywhere. *)
Init ==
    /\ minted = 0
    /\ recRecord = {}
    /\ recMeta = {}
    /\ balance = [h \in Holders |-> 0]
    /\ bankSupply = 0
    /\ mcnl \in GenesisMcnl
    /\ height = 1
    /\ removed = 0
    /\ removedFor = 0
    /\ liquidated = 0

(* MsgDepositCollateral with a RECRecord; an id already stored is overwritten. *)
DepositRecord(id) ==
    /\ recRecord' = recRecord \cup {id}
    /\ UNCHANGED <<minted, recMeta, balance, bankSupply, mcnl, height,
                   removed, removedFor, liquidated>>

(* MsgDepositCollateral with a RECMeta. *)
DepositMeta(id) ==
    /\ recMeta' = recMeta \cup {id}
    /\ UNCHANGED <<minted, recRecord, balance, bankSupply, mcnl, height,
                   removed, removedFor, liquidated>>

(* MsgCreateRECRecord: count RECs numbered within the current block, so a
   second message in the same block writes the same keys again. *)
CreateRECRecord(count) ==
    /\ count > 0
    /\ recRecord' = recRecord \cup {<<height, i>> : i \in 0 .. (count - 1)}
    /\ UNCHANGED <<minted, recMeta, balance, bankSupply, mcnl, height,
                   removed, removedFor, liquidated>>

(* Wrong: the issue check looks at what is minted already. *)
RewardCheckedTooLate(to, amount) ==
    /\ minted <= Collateral * OneREC
    /\ bankSupply' = bankSupply + amount
    /\ balance' = [balance EXCEPT ![RewardModule] = @ + Fee(amount),
                                  ![to] = @ + (amount - Fee(amount))]
    /\ minted' = minted + amount
    /\ UNCHANGED <<recRecord, recMeta, mcnl, height, removed, removedFor, liquidated>>

(* Wrong: the fee is kept but not taken off the user's part. *)
RewardFeeOnTop(to, amount) ==
    /\ minted + amount <= Collateral * OneREC
    /\ bankSupply' = bankSupply + amount
    /\ balance' = [balance EXCEPT ![RewardModule] = @ + Fee(amount), ![to] = @ + amount]
    /\ minted' = minted + amount
    /\ UNCHANGED <<recRecord, recMeta, mcnl, height, removed, removedFor, liquidated>>

(* MsgRewardSolarPower: mint amount to the module, pass on all but the fee. *)
RewardSolarPower(to, amount) ==
    /\ minted + amount <= Collateral * OneREC
    /\ bankSupply' = bankSupply + amount
    /\ balance' = [balance EXCEPT ![RewardModule] = @ + Fee(amount),
                                  ![to] = @ + (amount - Fee(amount))]
    /\ minted' = minted + amount
    /\ UNCHANGED <<recRecord, recMeta, mcnl, height, removed, removedFor, liquidated>>

(* MsgBurnStableCoin: take the coins from target (the module account itself is
   an address too), burn them, give up one REC per OneREC coins. *)
BurnStableCoin(target, amount) ==
    /\ amount <= balance[target]
    /\ amount <= bankSupply
    /\ balance' = [balance EXCEPT ![target] = @ - amount]
    /\ bankSupply' = bankSupply - amount
    /\ DropCollateral(amount \div OneREC)
    /\ minted' = Monus(minted, amount)
    /\ UNCHANGED <<mcnl, height, removed, removedFor, liquidated>>

(* MsgRemoveCollateral: drop RECs, leave coins and the minted count alone. *)
RemoveCollateral(amount) ==
    LET recToDelete == amount \div RemoveUnit IN
    /\ recToDelete # 0
    /\ removed + recToDelete <= MaxRemoved
    /\ DropCollateral(recToDelete)
    /\ removed' = removed + recToDelete
    /\ removedFor' = removedFor + amount
    /\ UNCHANGED <<minted, balance, bankSupply, mcnl, height, liquidated>>

(* MsgBurnModuleStable: burn the module's mcnl; with none it does nothing. *)
BurnModuleStableCoins ==
    /\ mcnl # 0
    /\ mcnl' = 0
    /\ minted' = Monus(minted, mcnl)
    /\ liquidated' = liquidated + mcnl
    /\ UNCHANGED <<recRecord, recMeta, balance, bankSupply, height,
                   removed, removedFor>>

(* Wrong: the reward is paid without looking at the module's balance. *)
DistributeUnchecked(to) ==
    /\ balance' = [balance EXCEPT ![RewardModule] = @ - BlockReward,
                                  ![to] = @ + BlockReward]
    /\ UNCHANGED <<minted, recRecord, recMeta, bankSupply, mcnl, height,
                   removed, removedFor, liquidated>>

(* MsgDistributeRewardPercent: a fixed reward out of the collected fees. *)
DistributeRewardPercent(to) ==
    /\ balance[RewardModule] >= BlockReward
    /\ balance' = [balance EXCEPT ![RewardModule] = @ - BlockReward,
                                  ![to] = @ + BlockReward]
    /\ UNCHANGED <<minted, recRecord, recMeta, bankSupply, mcnl, height,
                   removed, removedFor, liquidated>>

(* x/bank MsgSend between two accounts; module accounts cannot receive it. *)
SendCoins(from, to, amount) ==
    /\ from # to
    /\ amount <= balance[from]
    /\ balance' = [balance EXCEPT ![from] = @ - amount, ![to] = @ + amount]
    /\ UNCHANGED <<minted, recRecord, recMeta, bankSupply, mcnl, height,
                   removed, removedFor, liquidated>>

(* The chain commits a block. *)
EndBlock ==
    /\ height < MaxHeight
    /\ height' = height + 1
    /\ UNCHANGED <<minted, recRecord, recMeta, balance, bankSupply, mcnl,
                   removed, removedFor, liquidated>>

Next ==
    \/ \E id \in DepositIds : DepositRecord(id)
    \/ \E id \in CertifiedIds : DepositMeta(id)
    \/ \E count \in 1 .. MaxCount : CreateRECRecord(count)
    \/ \E to \in Users, amount \in Amounts : RewardSolarPower(to, amount)
    \/ \E target \in Holders, amount \in Amounts : BurnStableCoin(target, amount)
    \/ \E amount \in Amounts : RemoveCollateral(amount)
    \/ BurnModuleStableCoins
    \/ \E to \in Users : DistributeRewardPercent(to)
    \/ \E from, to \in Users, amount \in Amounts : SendCoins(from, to, amount)
    \/ EndBlock

Spec == Init /\ [][Next]_vars

-----------------------------------------------------------------------------
(* Properties *)

\* Type invariant: the ranges of the store's values.
TypeOK ==
    /\ minted \in Nat
    /\ recRecord \in SUBSET RecIds /\ IsFiniteSet(recRecord)
    /\ recMeta \in SUBSET CertifiedIds /\ IsFiniteSet(recMeta)
    /\ balance \in [Holders -> Nat]
    /\ bankSupply \in Nat
    /\ mcnl \in Nat
    /\ height \in Nat
    /\ removed \in Nat
    /\ removedFor \in Nat
    /\ liquidated \in Nat

\* The keeper's own count of minted coins, which the issue check of
\* RewardSolarPower trusts, never exceeds the coins the bank knows, and falls
\* short of them by no more than the mcnl liquidated so far: without any, the
\* two supplies are equal.
MintedAgreesWithBank == minted <= bankSupply /\ bankSupply <= minted + liquidated

\* Every minted coin stays backed: the REC count times OneREC covers the minted
\* count through any interleaving of mints, burns, deposits, overwrites and
\* block changes; only RECs dropped by RemoveCollateral may be missing.
Backed == minted <= (Collateral + removed) * OneREC

\* Whoever holds aeil can turn it back into RECs: while no collateral was
\* removed by hand and no mcnl was liquidated, all holders together can redeem
\* every full OneREC of their balances, in any order (BurnStableCoin never ends
\* in its "not enough collateral" error).
Redeemable ==
    (removed = 0 /\ liquidated = 0) =>
        SumFunction([h \in Holders |-> balance[h] \div OneREC]) <= Collateral

\* A REC leaves the collateral only with OneREC coins leaving circulation in
\* the same transaction, or through RemoveCollateral.
RecsLeaveAgainstCoins ==
    [][ Collateral' < Collateral =>
          \/ removed' > removed
          \/ (Collateral - Collateral') * OneREC <= bankSupply - bankSupply' ]_vars

\* RemoveCollateral's own comment: one REC is worth 1000000 (OneREC) coins, so
\* the RECs it dropped are covered by the amounts it was asked for.
RemovedAtPolicyRate == removed * OneREC <= removedFor

\* The keeper as seen from outside: what is left when accounts, keys and
\* messages are forgotten.
CC == INSTANCE CollateralisedCoin
        WITH issued <- minted, recs <- Collateral, released <- removed

\* Every message of x/reward is a pledge, an issue, a redemption or a release of
\* the abstract collateralised coin, or changes nothing it can see.
ImplementsCollateralisedCoin == CC!Spec
=============================================================================
