-------------------------------- MODULE MCChain --------------------------------
(***************************************************************************)
(* The application and its modules: BaseApp, Gov, Staking, Slashing and    *)
(* Capability, and the bridge's BurnRequests.  They are models of their    *)
(* own with no state in common, so a behaviour of this module is one of    *)
(* them, with the instance that "model" names; x1 to x20 are its           *)
(* variables, and None where it has fewer.                                 *)
(***************************************************************************)
EXTENDS ChainInstances, TLC

CONSTANTS Nil, None, m1, m2

VARIABLES model, x1, x2, x3, x4, x5, x6, x7, x8, x9, x10, x11, x12, x13, x14, x15, x16, x17,
          x18, x19, x20

from12 == <<x12, x13, x14, x15, x16, x17, x18, x19, x20>>
vars == <<model, x1, x2, x3, x4, x5, x6, x7, x8, x9, x10, x11, from12>>

BA == INSTANCE BaseApp WITH
    Accounts <- {"a", "b"}, Devices <- {"d"}, Txs <- SignedTxs, InitBal <- 9, MinGasPrice <- 1,
    MaxBlockGas <- 7, MsgGas <- 2, BlockGas <- 2, ParamGas <- 1,
    MaxHeight <- 2, MaxBlockTxs <- 2, MaxPool <- 2, MaxCrashes <- 1,
    cms <- x1, deliver <- x2, check <- x3, pool <- x4, recheck <- x5, blocks <- x6, phase <- x7,
    crashes <- x8, log <- x9

GV == INSTANCE Gov WITH
    Accounts <- {"v", "d"}, Stakes <- OneStake, Votes <- YesOrVeto, Contents <- {"spend", "params"},
    Amounts <- {0, 1, 2}, InitBal <- 2, InitPool <- 1, InitParams <- OldParams,
    NewParams <- LowQuorum, MaxDepositPeriod <- 1, MaxProposals <- 2, MaxTime <- 5,
    now <- x1, nextId <- x2, props <- x3, inactive <- x4, active <- x5, deposits <- x6,
    votes <- x7, bank <- x8, params <- x9, pool <- x10, stake <- x11

\* Every vote option, two validators, the stake changes while votes are cast.
GT == INSTANCE Gov WITH
    Accounts <- {"v", "w", "d"}, Stakes <- EveryStake, Votes <- EveryVote, Contents <- {"text"},
    Amounts <- {2}, InitBal <- 2, InitPool <- 1, InitParams <- OldParams,
    NewParams <- LowQuorum, MaxDepositPeriod <- 1, MaxProposals <- 1, MaxTime <- 4,
    now <- x1, nextId <- x2, props <- x3, inactive <- x4, active <- x5, deposits <- x6,
    votes <- x7, bank <- x8, params <- x9, pool <- x10, stake <- x11

\* Two validators compete for one place with different stakes of the same power;
\* what is left of a stake may be too little for any power.
ST == INSTANCE Staking WITH
    Validators <- {1, 2}, Delegators <- {1, 2}, Amounts <- {1, 2}, Balance0 <- <<1, 2>>,
    Stake0 <- <<3, 2>>, P <- 100, SlashFactor <- 75, PowerReduction <- 2, UnbondingTime <- 2, MaxAge <- 2,
    MaxValidators <- 1, MaxEntries <- 2, MinSelf <- 1, MaxHeight <- 5, MaxMsgs <- 4,
    s <- x1, hist <- x2, fresh <- x3, msgs <- x4

SL == INSTANCE Slashing WITH
    Windows <- {4}, FirstWindow <- 4, MinSigned <- 50, P <- 100, DowntimeJailDuration <- 2,
    MaxHeight <- 14,
    height <- x1, inBlock <- x2, window <- x3, info <- x4, bits <- x5, val <- x6, sets <- x7,
    votes <- x8, back <- x9

\* Governance changes the window.
SP == INSTANCE Slashing WITH
    Windows <- {2, 3}, FirstWindow <- 3, MinSigned <- 50, P <- 100, DowntimeJailDuration <- 1,
    MaxHeight <- 11,
    height <- x1, inBlock <- x2, window <- x3, info <- x4, bits <- x5, val <- x6, sets <- x7,
    votes <- x8, back <- x9

CP == INSTANCE Capability WITH
    Modules <- {m1, m2}, Names <- {1}, Tidy <- TRUE, MaxIndex <- 2, MaxAddress <- 3, MaxBlocks <- 2,
    root <- x1, block <- x2, tx <- x3, held <- x4, dropped <- x5, lost <- x6, capMap <- x7,
    address <- x8, blocks <- x9

\* The second request is below one REC, the others are one REC each, and the
\* coins do not cover all repeats; the third request is no JSON.
BR == INSTANCE BurnRequests WITH
    NumRequests <- 3, Malformed <- {3}, AmountOf <- CoinsAsked, OneREC <- 2, Coins <- 4,
    Collateral <- 2, QueueCap <- 1, MaxTimeouts <- 1, MaxErrors <- 1, MaxLostReplies <- 1,
    MaxRestarts <- 2,
    produced <- x1, position <- x2, holding <- x3, session <- x4, marked <- x5, committed <- x6,
    queue <- x7, task <- x8, at <- x9, result <- x10, coins <- x11, recs <- x12, pending <- x13,
    burns <- x14, told <- x15, replied <- x16, refused <- x17, settled <- x18, skipped <- x19,
    events <- x20

ASSUME ConstantsAssumption ==
    /\ BA!BaseAppConstants /\ GV!GovConstants /\ GT!GovConstants /\ ST!StakingConstants
    /\ SL!SlashingConstants /\ SP!SlashingConstants /\ CP!CapabilityConstants /\ BR!BurnAssumption

SymModules == Permutations({m1, m2})

NoneFrom12 == /\ x12 = None /\ x13 = None /\ x14 = None /\ x15 = None /\ x16 = None
              /\ x17 = None /\ x18 = None /\ x19 = None /\ x20 = None
NoneFrom10 == x10 = None /\ x11 = None /\ NoneFrom12

Init ==
    \/ model = "baseapp" /\ BA!Init /\ NoneFrom10
    \/ model = "gov" /\ GV!Init /\ NoneFrom12
    \/ model = "gov_tally" /\ GT!Init /\ NoneFrom12
    \/ model = "staking" /\ ST!Init /\ x5 = None /\ x6 = None /\ x7 = None
       /\ x8 = None /\ x9 = None /\ NoneFrom10
    \/ model = "slashing" /\ SL!Init /\ NoneFrom10
    \/ model = "slashing_params" /\ SP!Init /\ NoneFrom10
    \/ model = "capability" /\ CP!Init /\ NoneFrom10
    \/ model = "burn" /\ BR!Init

Next ==
    /\ UNCHANGED model
    /\ \/ model = "baseapp" /\ BA!Next /\ UNCHANGED <<x10, x11, from12>>
       \/ model = "gov" /\ GV!Next /\ UNCHANGED from12
       \/ model = "gov_tally" /\ GT!Next /\ UNCHANGED from12
       \/ model = "staking" /\ ST!Next /\ UNCHANGED <<x5, x6, x7, x8, x9, x10, x11, from12>>
       \/ model = "slashing" /\ SL!Next /\ UNCHANGED <<x10, x11, from12>>
       \/ model = "slashing_params" /\ SP!Next /\ UNCHANGED <<x10, x11, from12>>
       \/ model = "capability" /\ CP!Next /\ UNCHANGED <<x10, x11, from12>>
       \/ model = "burn" /\ BR!Next

Spec == Init /\ [][Next]_vars

-------------------------------------------------------------------------------
\* Type invariants of the models.
TypeOK ==
    /\ model = "baseapp" => BA!TypeOK
    /\ model = "gov" => GV!TypeOK
    /\ model = "gov_tally" => GT!TypeOK
    /\ model = "staking" => ST!TypeOK
    /\ model = "slashing" => SL!TypeOK
    /\ model = "slashing_params" => SP!TypeOK
    /\ model = "capability" => CP!TypeOK
    /\ model = "burn" => BR!TypeOK

\* A transaction takes effect once, as a whole and in its place: those an account
\* is charged for carry the sequences 0, 1, 2, ... in the order of delivery, also
\* when a crash makes the engine replay a block; what is committed is exactly the
\* fees and sequences of the transactions past the ante handler and the
\* registrations of those that succeeded as a whole, within the block's gas; and
\* between rechecks checkState is the committed state with every pooled
\* transaction charged once, simulations leaving no trace.
TransactionsOnce == model = "baseapp" =>
    BA!SequencesInOrder /\ BA!StateIsLog /\ BA!GasStopsBlock /\ BA!CheckIsPoolAhead

\* The gov module account holds exactly the deposits of open proposals, and they
\* add up; a proposal is in the queue of its status under its end time, none is
\* overdue; and the community pool paid for exactly the spends that passed, a
\* failing handler leaving no trace.
GovernanceInvariants == model = "gov" =>
    GV!ModuleAccountInvariant /\ GV!QueuesMatchStatus /\ GV!SpendsMatchPassed

\* The tally counts every delegation to a bonded validator exactly once: with
\* the delegator's own vote, or its validator's, or not at all.  So overriding
\* the validator never counts twice, and the total stays within what is bonded.
DelegationsCountOnce == model = "gov_tally" => GT!DelegationsCountOnce

\* Through delegations, slashes, jailings and changes of the validator set: the
\* pools hold the tokens of the validators and of the unbonding entries, a
\* validator's shares are those of its delegators, the power index holds exactly
\* the validators that are not jailed under their present power, what waits is
\* queued and nothing mature is left, and the engine knows the bonded set.
StakingInvariants == model = "staking" =>
    /\ ST!ModuleAccountInvariants /\ ST!DelegatorSharesInvariant
    /\ ST!PowerIndexExact /\ ST!QueuesComplete /\ ST!EngineKnowsBonded

\* The missed block counter is the number of blocks missed among the last
\* SignedBlocksWindow ones the validator should have signed since the array was
\* cleared, and the number of bits set when governance changes the window.
CounterIsWindow ==
    /\ model = "slashing" => SL!CounterIsWindow
    /\ model = "slashing_params" => SP!CounterIsBits

\* When BeginBlock is over a stored validator past its first window is jailed
\* for downtime if and only if it missed more than MaxMissed of the last
\* SignedBlocksWindow blocks, the one just handled included.
DowntimeIsJailed == [][model = "slashing" => SL!DowntimeIsJailed /\ SL!PunishedForMisses]_vars

\* Where modules claim tidily: a capability the memory store names is in the map,
\* so GetCapability does not panic in a delivered transaction; each owner can get
\* its capability by name and authenticate it; and the memory store names what
\* InitMemStore would name after a restart.  This fails only for an index that is
\* lost until the next restart: its entry in the map, which no rollback restores,
\* was taken out or replaced by a transaction that failed or was simulated, or the
\* capability was claimed after its release.
CapabilitiesKept == model = "capability" =>
    CP!NeverMissing /\ CP!OwnersAuthenticate /\ CP!RestartInvisible

\* A request is burnt again only after a restart handed it out again; the offset
\* the broker keeps never runs ahead of the work; RECs named in success replies
\* left the collateral, each once; and a burn behind an "err" is paid for by a
\* timeout, a lost reply or a restart: a failure the bridge sees itself never
\* burns coins.
BurnsAccounted == model = "burn" =>
    /\ BR!BurnsBoundedByRestarts /\ BR!CommittedAreSettled
    /\ BR!RecsAccounted /\ BR!HiddenBurnsArePaid
================================================================================
