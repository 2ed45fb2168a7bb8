----------------------------- MODULE ChainProofs -----------------------------
(***************************************************************************)
(* The instances of BurnRequests, BaseApp, Capability, Slashing and Gov    *)
(* that MCChain model-checks, as cases of the general theorems: their      *)
(* steps are steps the lemmas of ChainPartProofs and BaseAppProofs speak   *)
(* of, for those values of the constants, so that the properties the run   *)
(* checks are proved of the very specification it explores.                *)
(***************************************************************************)
EXTENDS MCChain, TLAPS

\* The proofs about BaseApp, with the values MCChain gives.
BAP == INSTANCE BaseAppProofs WITH
    Accounts <- {"a", "b"}, Devices <- {"d"}, Txs <- SignedTxs, InitBal <- 9, MinGasPrice <- 1,
    MaxBlockGas <- 7, MsgGas <- 2, BlockGas <- 2, ParamGas <- 1,
    MaxHeight <- 2, MaxBlockTxs <- 2, MaxPool <- 2, MaxCrashes <- 1,
    cms <- x1, deliver <- x2, check <- x3, pool <- x4, recheck <- x5, blocks <- x6, phase <- x7,
    crashes <- x8, log <- x9

\* Those of ChainPartProofs; Slashing with one window.
CPP == INSTANCE ChainPartProofs WITH
    Modules <- {m1, m2}, Names <- {1}, Tidy <- TRUE, MaxIndex <- 2, MaxAddress <- 3, MaxBlocks <- 2,
    root <- x1, block <- x2, tx <- x3, held <- x4, dropped <- x5, lost <- x6, capMap <- x7,
    address <- x8, blocks <- x9,
    Windows <- {4}, FirstWindow <- 4, MinSigned <- 50, P <- 100, DowntimeJailDuration <- 2,
    MaxHeight <- 14,
    height <- x1, inBlock <- x2, window <- x3, info <- x4, bits <- x5, val <- x6, sets <- x7,
    votes <- x8, back <- x9,
    Accounts <- {"v", "d"}, Stakes <- OneStake, Votes <- YesOrVeto, Contents <- {"spend", "params"},
    Amounts <- {0, 1, 2}, InitBal <- 2, InitPool <- 1, InitParams <- OldParams,
    NewParams <- LowQuorum, MaxDepositPeriod <- 1, MaxProposals <- 2, MaxTime <- 5,
    now <- x1, nextId <- x2, props <- x3, inactive <- x4, active <- x5, deposits <- x6,
    ballots <- x7, bank <- x8, params <- x9, pool <- x10, stake <- x11,
    NumRequests <- 3, Malformed <- {3}, AmountOf <- CoinsAsked, OneREC <- 2, Coins <- 4,
    Collateral <- 2, QueueCap <- 1, MaxTimeouts <- 1, MaxErrors <- 1, MaxLostReplies <- 1,
    MaxRestarts <- 2,
    produced <- x1, position <- x2, holding <- x3, session <- x4, marked <- x5, committed <- x6,
    queue <- x7, task <- x8, at <- x9, result <- x10, coins <- x11, recs <- x12, pending <- x13,
    burns <- x14, told <- x15, replied <- x16, refused <- x17, settled <- x18, skipped <- x19,
    events <- x20

\* Those about Slashing with a window that governance changes; what belongs to
\* the other models plays no part in them.
SPP == INSTANCE ChainPartProofs WITH
    Modules <- {}, Names <- {}, Tidy <- TRUE, MaxIndex <- 0, MaxAddress <- 0, MaxBlocks <- 0,
    root <- None, block <- None, tx <- None, held <- None, dropped <- None, lost <- None,
    capMap <- None, address <- None, blocks <- None,
    Windows <- {2, 3}, FirstWindow <- 3, MinSigned <- 50, P <- 100, DowntimeJailDuration <- 1,
    MaxHeight <- 11,
    height <- x1, inBlock <- x2, window <- x3, info <- x4, bits <- x5, val <- x6, sets <- x7,
    votes <- x8, back <- x9,
    Accounts <- {}, Stakes <- {}, Votes <- {}, Contents <- {}, Amounts <- {}, InitBal <- 0,
    InitPool <- 0, InitParams <- OldParams, NewParams <- OldParams, MaxDepositPeriod <- 0,
    MaxProposals <- 0, MaxTime <- 0,
    now <- None, nextId <- None, props <- None, inactive <- None, active <- None,
    deposits <- None, ballots <- None, bank <- None, params <- None, pool <- None, stake <- None,
    NumRequests <- 0, Malformed <- {}, AmountOf <- CoinsAsked, OneREC <- 1, Coins <- 0,
    Collateral <- 0, QueueCap <- 1, MaxTimeouts <- 0, MaxErrors <- 0, MaxLostReplies <- 0,
    MaxRestarts <- 0,
    produced <- None, position <- None, holding <- None, session <- None, marked <- None,
    committed <- None, queue <- None, task <- None, at <- None, result <- None, coins <- None,
    recs <- None, pending <- None, burns <- None, told <- None, replied <- None,
    refused <- None, settled <- None, skipped <- None, events <- None

-----------------------------------------------------------------------------
\* The values of MCChain are what the proofs assume of the constants.
LEMMA BurnConstants == CPP!BurnAssumption
  BY DEF CPP!BurnAssumption, CPP!Requests, CoinsAsked

\* The initial states of the instance are those of the proofs.
LEMMA BurnStart == BR!Init => CPP!Init
  BY DEF BR!Init, CPP!Init, BR!NoTask, CPP!NoTask, BR!Requests, CPP!Requests,
         BR!Kinds, CPP!Kinds

\* The steps of the instance are those of the proofs.
LEMMA BurnSteps == BR!Next => CPP!Next
  BY DEF BR!Next, CPP!Next, BR!Request, CPP!Request, BR!workerVars, CPP!workerVars,
         BR!chainVars, CPP!chainVars, BR!historyVars, CPP!historyVars, BR!Fetch,
         CPP!Fetch, BR!Enqueue, CPP!Enqueue, BR!Take, CPP!Take, BR!kafkaVars,
         CPP!kafkaVars, BR!Parse, CPP!Parse, BR!Submit, CPP!Submit, BR!Burnable,
         CPP!Burnable, BR!RecsFor, CPP!RecsFor, BR!SubmitFails, CPP!SubmitFails,
         BR!Happens, CPP!Happens, BR!Timeout, CPP!Timeout, BR!Deliver, CPP!Deliver,
         BR!Answered, CPP!Answered, BR!ReplyErr, CPP!ReplyErr, BR!TaskDone,
         CPP!TaskDone, BR!NoTask, CPP!NoTask, BR!Reply, CPP!Reply, BR!Mark, CPP!Mark,
         BR!AutoCommit, CPP!AutoCommit, BR!Flushed, CPP!Flushed, BR!Rebalance,
         CPP!Rebalance, BR!Restarts, CPP!Restarts, BR!NewClaim, CPP!NewClaim,
         BR!ResumeAt, CPP!ResumeAt, BR!Crash, CPP!Crash

\* The properties of the instance are those of the proofs.
LEMMA BurnProperties ==
    /\ CPP!BurnsBoundedByRestarts /\ CPP!CommittedAreSettled
    /\ CPP!RecsAccounted /\ CPP!HiddenBurnsArePaid
    => /\ BR!BurnsBoundedByRestarts /\ BR!CommittedAreSettled
       /\ BR!RecsAccounted /\ BR!HiddenBurnsArePaid
  BY DEF BR!BurnsBoundedByRestarts, CPP!BurnsBoundedByRestarts, BR!Requests,
         CPP!Requests, BR!Restarts, CPP!Restarts, BR!CommittedAreSettled,
         CPP!CommittedAreSettled, BR!RecsAccounted, CPP!RecsAccounted,
         BR!HiddenBurnsArePaid, CPP!HiddenBurnsArePaid, BR!Cardinality, CPP!Cardinality

\* In the run of MCChain: burns are bounded by restarts, the committed offset
\* never runs ahead of the work, RECs are told once, and every burn behind an
\* "err" is paid for by an event.
THEOREM BurnsAccountedHolds == Spec => []BurnsAccounted
<1> DEFINE Inv == model = "burn" => CPP!BurnInv
<1>1. Init => Inv
  BY BurnConstants, BurnStart, CPP!BurnInvInit DEF Init
<1>2. Inv /\ [Next]_vars => Inv'
  <2>1. SUFFICES ASSUME Inv, [Next]_vars, model' = "burn"
                 PROVE  CPP!BurnInv'
    OBVIOUS
  <2>2. model = "burn"
    BY <2>1 DEF Next, vars
  <2>3. [BR!Next]_vars
    BY <2>1, <2>2 DEF Next
  <2>4. [CPP!Next]_(CPP!vars)
    BY <2>3, BurnSteps DEF vars, from12, CPP!vars, CPP!kafkaVars, CPP!workerVars,
       CPP!chainVars, CPP!historyVars
  <2>5. QED
    BY <2>1, <2>2, <2>4, BurnConstants, CPP!BurnInvStep
<1>3. Inv => BurnsAccounted
  <2>1. SUFFICES ASSUME CPP!BurnInv
                 PROVE  /\ BR!BurnsBoundedByRestarts /\ BR!CommittedAreSettled
                        /\ BR!RecsAccounted /\ BR!HiddenBurnsArePaid
    BY DEF BurnsAccounted
  <2>2. /\ CPP!BurnsBoundedByRestarts /\ CPP!CommittedAreSettled
        /\ CPP!RecsAccounted /\ CPP!HiddenBurnsArePaid
    BY <2>1, BurnConstants, CPP!BurnsAreBounded, CPP!CommittedSettled, CPP!RecsInBooks,
       CPP!HiddenArePaid
  <2>3. QED
    BY <2>2, BurnProperties
<1>4. QED
  BY <1>1, <1>2, <1>3, PTL DEF Spec

-----------------------------------------------------------------------------
\* The instance of Capability keeps the rules of the proofs.
LEMMA CapabilityRules == CPP!Rules
  BY DEF CPP!Rules, CPP!C!CapabilityConstants

\* The initial states of the instance are those of the proofs.
LEMMA CapabilityStart == CP!Init => CPP!C!Init
  BY DEF CP!Init, CPP!C!Init, CP!NoStores, CPP!C!NoStores, CP!Kinds, CPP!C!Kinds

\* The steps of the instance are those of the proofs.
LEMMA CapabilitySteps == CP!Next => CPP!C!Next
  BY DEF CP!Next, CPP!C!Next, CP!BeginBlock, CPP!C!BeginBlock, CP!InitMemStore,
         CPP!C!InitMemStore, CP!InitializeCapabilities, CPP!C!InitializeCapabilities,
         CP!Max, CPP!C!Max, CP!Cardinality, CPP!C!Cardinality, CP!Commit, CPP!C!Commit,
         CP!NoStores, CPP!C!NoStores, CP!Restart, CPP!C!Restart, CP!Kinds, CPP!C!Kinds,
         CP!BeginTx, CPP!C!BeginTx, CP!Succeeds, CPP!C!Succeeds, CP!Fails, CPP!C!Fails, CP!Ended, CPP!C!Ended,
         CP!NewCapability, CPP!C!NewCapability, CP!NextIndex, CPP!C!NextIndex,
         CP!Put, CPP!C!Put, CP!getOwners, CPP!C!getOwners, CP!GetCapability,
         CPP!C!GetCapability, CP!ClaimCapability, CPP!C!ClaimCapability, CP!TidyClaim,
         CPP!C!TidyClaim, CP!InMap, CPP!C!InMap,
         CP!ReleaseCapability, CPP!C!ReleaseCapability, CP!Without, CPP!C!Without,
         CP!LastOwner, CPP!C!LastOwner

\* The properties of the instance are those of the proofs.
LEMMA CapabilityProperties ==
    CPP!C!NeverMissing /\ CPP!C!OwnersAuthenticate /\ CPP!C!RestartInvisible
    => CP!NeverMissing /\ CP!OwnersAuthenticate /\ CP!RestartInvisible
  BY DEF CP!NeverMissing, CPP!C!NeverMissing, CP!OwnersAuthenticate, CPP!C!OwnersAuthenticate,
         CP!RestartInvisible, CPP!C!RestartInvisible, CP!View, CPP!C!View, CP!NoStores,
         CPP!C!NoStores, CP!InitializeCapabilities, CPP!C!InitializeCapabilities, CP!Max,
         CPP!C!Max, CP!GetCapabilityName, CPP!C!GetCapabilityName

\* In the run of MCChain, except for an index lost to a failed or simulated
\* transaction or to a claim after a release: GetCapability does not panic, each
\* owner authenticates what it owns, and the memory store is what a restart would
\* rebuild.
THEOREM CapabilitiesKeptHolds == Spec => []CapabilitiesKept
<1> DEFINE Inv == model = "capability" => CPP!CapabilityInv
<1>1. Init => Inv
  BY CapabilityRules, CapabilityStart, CPP!CapabilityInvInit DEF Init
<1>2. Inv /\ [Next]_vars => Inv'
  <2>1. SUFFICES ASSUME Inv, [Next]_vars, model' = "capability"
                 PROVE  CPP!CapabilityInv'
    OBVIOUS
  <2>2. model = "capability"
    BY <2>1 DEF Next, vars
  <2>3. [CP!Next]_vars
    BY <2>1, <2>2 DEF Next
  <2>4. [CPP!C!Next]_(CPP!C!vars)
    BY <2>3, CapabilitySteps DEF vars, from12, CPP!C!vars
  <2>5. QED
    BY <2>1, <2>2, <2>4, CapabilityRules, CPP!CapabilityInvStep
<1>3. Inv => CapabilitiesKept
  <2>1. SUFFICES ASSUME CPP!CapabilityInv
                 PROVE  CP!NeverMissing /\ CP!OwnersAuthenticate /\ CP!RestartInvisible
    BY DEF CapabilitiesKept
  <2>2. CPP!C!NeverMissing /\ CPP!C!OwnersAuthenticate /\ CPP!C!RestartInvisible
    BY <2>1, CapabilityRules, CPP!CapabilityInvImplies
  <2>3. QED
    BY <2>2, CapabilityProperties
<1>4. QED
  BY <1>1, <1>2, <1>3, PTL DEF Spec

-----------------------------------------------------------------------------
\* The instances of Slashing are what the proofs assume: one has one window.
LEMMA SlashingRules ==
    CPP!OneWindow(4) /\ CPP!L!SlashingConstants /\ SPP!L!SlashingConstants
  BY DEF CPP!OneWindow, CPP!L!SlashingConstants, SPP!L!SlashingConstants

\* The initial states of the instances are those of the proofs.
LEMMA SlashingStart == (SL!Init => CPP!L!Init) /\ (SP!Init => SPP!L!Init)
  BY DEF SL!Init, CPP!L!Init, SP!Init, SPP!L!Init, SL!NewValidatorSigningInfo,
         CPP!L!NewValidatorSigningInfo, SP!NewValidatorSigningInfo,
         SPP!L!NewValidatorSigningInfo, SL!NoInfo, CPP!L!NoInfo, SP!NoInfo, SPP!L!NoInfo

\* The steps of the instance with one window are those of the proofs.
LEMMA SLSteps == SL!Next => CPP!L!Next
  BY DEF SL!Next, CPP!L!Next, SL!BeginBlock, CPP!L!BeginBlock, SL!HandleValidatorSignature,
         CPP!L!HandleValidatorSignature, SL!UpdatedCounter, CPP!L!UpdatedCounter,
         SL!Punished, CPP!L!Punished, SL!MaxMissed, CPP!L!MaxMissed, SL!MinSignedPerWindow,
         CPP!L!MinSignedPerWindow, SL!clearValidatorMissedBlockBitArray,
         CPP!L!clearValidatorMissedBlockBitArray, SL!Prefix, CPP!L!Prefix, SL!Max,
         CPP!L!Max, SL!Min, CPP!L!Min, SL!Unjail, CPP!L!Unjail, SL!NoInfo, CPP!L!NoInfo,
         SL!SetParams, CPP!L!SetParams, SL!RemoveValidator, CPP!L!RemoveValidator,
         SL!CreateValidator, CPP!L!CreateValidator, SL!EndBlock, CPP!L!EndBlock,
         SL!AfterValidatorBonded, CPP!L!AfterValidatorBonded, SL!NewValidatorSigningInfo,
         CPP!L!NewValidatorSigningInfo

\* The steps of the instance with two are those of the proofs.
LEMMA SPSteps == SP!Next => SPP!L!Next
  BY DEF SP!Next, SPP!L!Next, SP!BeginBlock, SPP!L!BeginBlock, SP!HandleValidatorSignature,
         SPP!L!HandleValidatorSignature, SP!UpdatedCounter, SPP!L!UpdatedCounter,
         SP!Punished, SPP!L!Punished, SP!MaxMissed, SPP!L!MaxMissed, SP!MinSignedPerWindow,
         SPP!L!MinSignedPerWindow, SP!clearValidatorMissedBlockBitArray,
         SPP!L!clearValidatorMissedBlockBitArray, SP!Prefix, SPP!L!Prefix, SP!Max,
         SPP!L!Max, SP!Min, SPP!L!Min, SP!Unjail, SPP!L!Unjail, SP!NoInfo, SPP!L!NoInfo,
         SP!SetParams, SPP!L!SetParams, SP!RemoveValidator, SPP!L!RemoveValidator,
         SP!CreateValidator, SPP!L!CreateValidator, SP!EndBlock, SPP!L!EndBlock,
         SP!AfterValidatorBonded, SPP!L!AfterValidatorBonded, SP!NewValidatorSigningInfo,
         SPP!L!NewValidatorSigningInfo

\* The properties of the instances are those of the proofs.
LEMMA SlashingProperties ==
    /\ CPP!L!CounterIsWindow => SL!CounterIsWindow
    /\ SPP!L!CounterIsBits => SP!CounterIsBits
    /\ CPP!L!DowntimeIsJailed => SL!DowntimeIsJailed
    /\ CPP!L!PunishedForMisses => SL!PunishedForMisses
<1>1. CPP!L!CounterIsWindow => SL!CounterIsWindow
  BY DEF CPP!L!CounterIsWindow, SL!CounterIsWindow, CPP!L!NoInfo, SL!NoInfo, CPP!L!Misses, SL!Misses,
         CPP!L!Latest, SL!Latest, CPP!L!Prefix, SL!Prefix, CPP!L!Min, SL!Min,
         CPP!L!Cardinality, SL!Cardinality
<1>2. SPP!L!CounterIsBits => SP!CounterIsBits
  BY DEF SPP!L!CounterIsBits, SP!CounterIsBits, SPP!L!NoInfo, SP!NoInfo, SPP!L!Cardinality,
         SP!Cardinality
<1>3. CPP!L!DowntimeIsJailed => SL!DowntimeIsJailed
  BY DEF CPP!L!DowntimeIsJailed, SL!DowntimeIsJailed, CPP!L!MaxMissed, SL!MaxMissed,
         CPP!L!MinSignedPerWindow, SL!MinSignedPerWindow, CPP!L!Misses, SL!Misses,
         CPP!L!Cardinality, SL!Cardinality
<1>4. CPP!L!PunishedForMisses => SL!PunishedForMisses
  BY DEF CPP!L!PunishedForMisses, SL!PunishedForMisses, CPP!L!MaxMissed, SL!MaxMissed,
         CPP!L!MinSignedPerWindow, SL!MinSignedPerWindow, CPP!L!Misses, SL!Misses,
         CPP!L!Latest, SL!Latest, CPP!L!Prefix, SL!Prefix, CPP!L!Min, SL!Min,
         CPP!L!Cardinality, SL!Cardinality
<1>5. QED
  BY <1>1, <1>2, <1>3, <1>4

SigningInv ==
    /\ model = "slashing" => CPP!RecordInv /\ CPP!WindowInv
    /\ model = "slashing_params" => SPP!RecordInv

\* A behaviour stays with its model, and its steps are steps of that model.
LEMMA SigningSteps ==
    ASSUME [Next]_vars
    PROVE  /\ model' = model
           /\ model = "slashing" => [CPP!L!Next]_(CPP!L!vars)
           /\ model = "slashing_params" => [SPP!L!Next]_(SPP!L!vars)
<1>1. model' = model
  BY DEF Next, vars
<1>2. ASSUME model = "slashing" PROVE [CPP!L!Next]_(CPP!L!vars)
  <2>1. [SL!Next]_vars
    BY <1>2 DEF Next
  <2>2. QED
    BY <2>1, SLSteps DEF vars, from12, CPP!L!vars
<1>3. ASSUME model = "slashing_params" PROVE [SPP!L!Next]_(SPP!L!vars)
  <2>1. [SP!Next]_vars
    BY <1>3 DEF Next
  <2>2. QED
    BY <2>1, SPSteps DEF vars, from12, SPP!L!vars
<1>4. QED
  BY <1>1, <1>2, <1>3

\* The invariants of the signing records hold in both instances.
LEMMA SigningInvInit == Init => SigningInv
  BY SlashingRules, SlashingStart, CPP!RecordInvInit, CPP!WindowInvInit, SPP!RecordInvInit
     DEF Init, SigningInv

\* They are inductive in the run.
LEMMA SigningInvStep ==
    ASSUME SigningInv, [Next]_vars
    PROVE  SigningInv'
<1>1. ASSUME model = "slashing" PROVE CPP!RecordInv' /\ CPP!WindowInv'
  BY <1>1, SigningSteps, SlashingRules, CPP!RecordStep, CPP!WindowStep DEF SigningInv
<1>2. ASSUME model = "slashing_params" PROVE SPP!RecordInv'
  BY <1>2, SigningSteps, SlashingRules, SPP!RecordStep DEF SigningInv
<1>3. QED
  BY <1>1, <1>2, SigningSteps DEF SigningInv

\* In the run of MCChain: the missed block counter is the number of misses in the
\* window, and the number of bits where governance changes the window.
THEOREM CounterIsWindowHolds == Spec => []CounterIsWindow
<1>1. SigningInv => CounterIsWindow
  <2>1. CPP!RecordInv /\ CPP!WindowInv => CPP!L!CounterIsWindow
    BY SlashingRules, CPP!CounterOfWindow
  <2>2. SPP!RecordInv => SPP!L!CounterIsBits
    BY SPP!CounterOfBits
  <2>3. QED
    BY <2>1, <2>2, SlashingProperties DEF SigningInv, CounterIsWindow
<1>2. QED
  BY <1>1, SigningInvInit, SigningInvStep, PTL DEF Spec

\* In the run of MCChain: a stored validator past its first window is jailed for
\* downtime in BeginBlock exactly if it missed too much of the last window.
THEOREM DowntimeIsJailedHolds == Spec => DowntimeIsJailed
<1>1. ASSUME SigningInv, [Next]_vars
      PROVE  [model = "slashing" => SL!DowntimeIsJailed /\ SL!PunishedForMisses]_vars
  <2>1. ASSUME model = "slashing" PROVE SL!DowntimeIsJailed /\ SL!PunishedForMisses
    <3>1. CPP!RecordInv /\ CPP!WindowInv /\ [CPP!L!Next]_(CPP!L!vars)
      BY <1>1, <2>1, SigningSteps DEF SigningInv
    <3>2. CPP!L!DowntimeIsJailed /\ CPP!L!PunishedForMisses
      BY <3>1, SlashingRules, CPP!PunishmentStep
    <3>3. QED
      BY <3>2, SlashingProperties
  <2>2. QED
    BY <2>1
<1>2. QED
  BY <1>1, SigningInvInit, SigningInvStep, PTL DEF Spec, DowntimeIsJailed

-----------------------------------------------------------------------------
\* The instance of Gov is what the proofs assume: accounts are finitely many.
LEMMA GovernanceRules == CPP!GovRules
<1>1. CPP!IsFiniteSet({"v", "d"})
  <2>1. CPP!IsFiniteSet({}) /\ {"v"} = {} \cup {"v"} /\ {"v", "d"} = {"v"} \cup {"d"}
    BY CPP!FS_EmptySet
  <2>2. QED
    <3>1. CPP!IsFiniteSet({} \cup {"v"})
      BY <2>1, CPP!FS_AddElement, Zenon
    <3>2. CPP!IsFiniteSet({"v"} \cup {"d"})
      BY <2>1, <3>1, CPP!FS_AddElement, Zenon
    <3>3. QED
      BY <2>1, <3>2
<1>2. CPP!G!GovConstants
  BY DEF CPP!G!GovConstants, CPP!G!Options, OldParams, LowQuorum, OneStake, YesOrVeto, All, VoteOptions
<1>3. QED
  BY <1>1, <1>2 DEF CPP!GovRules

\* The initial states of the instance are those of the proofs.
LEMMA GovernanceStart == GV!Init => CPP!G!Init
    BY DEF GV!Init, CPP!G!Init, GV!Ids, CPP!G!Ids, GV!NoProp, CPP!G!NoProp, GV!NoDeposits,
         CPP!G!NoDeposits, GV!NoVotes, CPP!G!NoVotes, GV!NoVote, CPP!G!NoVote, GV!Options,
         CPP!G!Options

\* Both add up alike.
LEMMA GovernanceSums == \A f : GV!Total(f) = CPP!G!Total(f)
  BY Zenon DEF GV!Total, CPP!G!Total

\* Both tally alike.
LEMMA GovernanceTally == \A v, p : GV!Tally(v, p) = CPP!G!Tally(v, p)
<1>1. GV!TotalBonded = CPP!G!TotalBonded
  BY GovernanceSums, Zenon DEF GV!TotalBonded, CPP!G!TotalBonded
<1>2. \A v : GV!Results(v) = CPP!G!Results(v)
  BY Zenon DEF GV!Results, CPP!G!Results, GV!Power, CPP!G!Power, GV!Shares, CPP!G!Shares,
         GV!NoVote, CPP!G!NoVote, GV!Options, CPP!G!Options, GV!Total, CPP!G!Total
<1>3. SUFFICES ASSUME NEW v, NEW p PROVE GV!Tally(v, p) = CPP!G!Tally(v, p)
  OBVIOUS
<1>4. /\ GV!Results(v) = CPP!G!Results(v)
      /\ GV!Total(GV!Results(v)) = CPP!G!Total(CPP!G!Results(v))
  BY <1>2, GovernanceSums
<1>5. QED
  BY <1>1, <1>4 DEF GV!Tally, CPP!G!Tally

\* Both sweep a queue alike.
LEMMA GovernanceSweep == \A q, s, D : GV!Sweep(q, s, D) = CPP!G!Sweep(q, s, D)
<1>1. \A s, i : GV!DropProposal(s, i) = CPP!G!DropProposal(s, i)
  <2>1. \A s, i : GV!DeleteDeposits(s, i) = CPP!G!DeleteDeposits(s, i)
    BY GovernanceSums, Zenon DEF GV!DeleteDeposits, CPP!G!DeleteDeposits, GV!NoDeposits,
           CPP!G!NoDeposits
  <2>2. GV!NoProp = CPP!G!NoProp
    BY DEF GV!NoProp, CPP!G!NoProp
  <2>3. QED
    BY <2>1, <2>2, Zenon DEF GV!DropProposal, CPP!G!DropProposal
<1>2. \A s, i : GV!FinishProposal(s, i) = CPP!G!FinishProposal(s, i)
  <2>1. \A s, i : GV!DeleteDeposits(s, i) = CPP!G!DeleteDeposits(s, i)
    BY GovernanceSums, Zenon DEF GV!DeleteDeposits, CPP!G!DeleteDeposits, GV!NoDeposits,
         CPP!G!NoDeposits
  <2>2. \A s, i : GV!RefundDeposits(s, i) = CPP!G!RefundDeposits(s, i)
    BY GovernanceSums, Zenon DEF GV!RefundDeposits, CPP!G!RefundDeposits, GV!NoDeposits,
         CPP!G!NoDeposits
  <2>3. \A c, s : GV!HandlerOK(c, s) = CPP!G!HandlerOK(c, s)
    BY DEF GV!HandlerOK, CPP!G!HandlerOK
  <2>4. \A c, s : GV!HandlerEffect(c, s) = CPP!G!HandlerEffect(c, s)
    BY Zenon DEF GV!HandlerEffect, CPP!G!HandlerEffect
  <2>5. GV!NoVotes = CPP!G!NoVotes
    BY DEF GV!NoVotes, CPP!G!NoVotes, GV!NoVote, CPP!G!NoVote, GV!Options, CPP!G!Options
  <2>6. \A s, i, burn : GV!Settle(s, i, burn) = CPP!G!Settle(s, i, burn)
    BY <2>1, <2>2, <2>5, Zenon DEF GV!Settle, CPP!G!Settle
  <2>7. \A s, i, st, end : GV!Close(s, i, st, end) = CPP!G!Close(s, i, st, end)
    BY Zenon DEF GV!Close, CPP!G!Close
  <2>8. SUFFICES ASSUME NEW s, NEW i PROVE GV!FinishProposal(s, i) = CPP!G!FinishProposal(s, i)
    OBVIOUS
  <2> DEFINE content == s.props[i].content
             t == GV!Tally(s.votes[i], s.params)
             s2 == GV!Settle(s, i, t.burn)
  <2>9. /\ CPP!G!Tally(s.votes[i], s.params) = t /\ CPP!G!Settle(s, i, t.burn) = s2
        /\ CPP!G!HandlerOK(content, s2) = GV!HandlerOK(content, s2)
        /\ CPP!G!HandlerEffect(content, s2) = GV!HandlerEffect(content, s2)
    BY <2>3, <2>4, <2>6, GovernanceTally, Zenon
  <2>10. QED
    BY <2>7, <2>9, Zenon DEF GV!FinishProposal, CPP!G!FinishProposal
<1>3. \A q, s, i : GV!Handle(q, s, i) = CPP!G!Handle(q, s, i)
  BY <1>1, <1>2, Zenon DEF GV!Handle, CPP!G!Handle
<1>4. \A D : GV!InOrder(D) = CPP!G!InOrder(D) /\ GV!Cardinality(D) = CPP!G!Cardinality(D)
  BY DEF GV!InOrder, CPP!G!InOrder, GV!Before, CPP!G!Before, GV!Cardinality, CPP!G!Cardinality
<1>5. QED
  BY <1>3, <1>4, Zenon DEF GV!Sweep, CPP!G!Sweep

\* The steps of the instance are those of the proofs.
LEMMA GovernanceSteps == GV!Next => CPP!G!Next
<1>1. GV!State = CPP!G!State
  BY DEF GV!State, CPP!G!State
<1>2. \A s : GV!Becomes(s) <=> CPP!G!Becomes(s)
  BY DEF GV!Becomes, CPP!G!Becomes
<1>3. \A s, i, a, amt : GV!AddDeposit(s, i, a, amt) = CPP!G!AddDeposit(s, i, a, amt)
  <2>1. \A s, i : GV!ActivateVotingPeriod(s, i) = CPP!G!ActivateVotingPeriod(s, i)
    BY Zenon DEF GV!ActivateVotingPeriod, CPP!G!ActivateVotingPeriod
  <2>2. QED
    BY <2>1 DEF GV!AddDeposit, CPP!G!AddDeposit
<1>4. \A q : GV!Due(q) = CPP!G!Due(q)
  BY DEF GV!Due, CPP!G!Due
<1>5. GV!EndBlock => CPP!G!EndBlock
  BY <1>1, <1>2, <1>4, GovernanceSweep, Zenon DEF GV!EndBlock, CPP!G!EndBlock
<1>6. \A a, c, amt : GV!SubmitProposal(a, c, amt) => CPP!G!SubmitProposal(a, c, amt)
  BY <1>1, <1>2, <1>3, Zenon DEF GV!SubmitProposal, CPP!G!SubmitProposal, GV!HandlerOK,
         CPP!G!HandlerOK, GV!NoProp, CPP!G!NoProp, GV!Ids, CPP!G!Ids
<1>7. \A a, i, amt : GV!Deposit(a, i, amt) => CPP!G!Deposit(a, i, amt)
  BY <1>1, <1>2, <1>3, Zenon DEF GV!Deposit, CPP!G!Deposit, GV!Open, CPP!G!Open
<1>8. \A a, i, v, s : (GV!AddVote(a, i, v) => CPP!G!AddVote(a, i, v)) /\ (GV!Restake(s) => CPP!G!Restake(s))
  BY DEF GV!AddVote, CPP!G!AddVote, GV!Restake, CPP!G!Restake
<1>9. GV!Ids = CPP!G!Ids
  BY DEF GV!Ids, CPP!G!Ids
<1>10. QED
  BY <1>5, <1>6, <1>7, <1>8, <1>9, Zenon DEF GV!Next, CPP!G!Next

\* The properties of the instance are those of the proofs.
LEMMA GovernanceProperties ==
    CPP!G!ModuleAccountInvariant /\ CPP!G!QueuesMatchStatus /\ CPP!G!SpendsMatchPassed
    => GV!ModuleAccountInvariant /\ GV!QueuesMatchStatus /\ GV!SpendsMatchPassed
    BY GovernanceSums DEF GV!ModuleAccountInvariant, CPP!G!ModuleAccountInvariant, GV!QueuesMatchStatus,
         CPP!G!QueuesMatchStatus, GV!SpendsMatchPassed, CPP!G!SpendsMatchPassed, GV!Ids,
         CPP!G!Ids, GV!Open, CPP!G!Open, GV!NoVotes, CPP!G!NoVotes, GV!NoVote, CPP!G!NoVote,
         GV!Options, CPP!G!Options, GV!Cardinality, CPP!G!Cardinality

\* In the run of MCChain: the module account holds the deposits of the open
\* proposals, the queues match the proposals, and the pool paid for the spends
\* that passed.
THEOREM GovernanceInvariantsHolds == Spec => []GovernanceInvariants
<1> DEFINE Inv == model = "gov" => CPP!GovInv
<1>1. Init => Inv
  BY GovernanceRules, GovernanceStart, CPP!GovInvInit DEF Init
<1>2. Inv /\ [Next]_vars => Inv'
  <2>1. SUFFICES ASSUME Inv, [Next]_vars, model' = "gov"
                 PROVE  CPP!GovInv'
    OBVIOUS
  <2>2. model = "gov"
    BY <2>1 DEF Next, vars
  <2>3. [GV!Next]_vars
    BY <2>1, <2>2 DEF Next
  <2>4. [CPP!G!Next]_(CPP!G!vars)
    BY <2>3, GovernanceSteps DEF vars, CPP!G!vars
  <2>5. QED
    BY <2>1, <2>2, <2>4, GovernanceRules, CPP!GovInvStep
<1>3. Inv => GovernanceInvariants
  <2>1. SUFFICES ASSUME CPP!GovInv
                 PROVE  GV!ModuleAccountInvariant /\ GV!QueuesMatchStatus /\ GV!SpendsMatchPassed
    BY DEF GovernanceInvariants
  <2>2. CPP!G!ModuleAccountInvariant /\ CPP!G!QueuesMatchStatus /\ CPP!G!SpendsMatchPassed
    BY <2>1, GovernanceRules, CPP!GovInvProperties
  <2>3. QED
    BY <2>2, GovernanceProperties
<1>4. QED
  BY <1>1, <1>2, <1>3, PTL DEF Spec

-----------------------------------------------------------------------------
\* The values of MCChain are what the proofs assume of the constants.
LEMMA AppConstants == BAP!BaseAppConstants
<1> DEFINE M == [device : {"d"}, addr : {"a", "b"} \cup {BAP!BadAddr}]
<1>1. \A d, u : d = "d" /\ u \in {"a", "b", "bad"} => Reg(d, u) \in M
  BY DEF Reg, BAP!BadAddr
<1> HIDE DEF M
<1>2. /\ <<>> \in Seq(M) /\ \A m \in M : <<m>> \in Seq(M)
      /\ \A m, n \in M : <<m, n>> \in Seq(M)
  OBVIOUS
<1>3. ASSUME NEW g \in {"a", "b"}, NEW q \in Nat, NEW f \in Nat, NEW l \in Nat, NEW h \in Nat, NEW s \in Seq(M)
      PROVE  BAP!TxOK(Tx(g, q, f, l, h, s))
  BY DEF BAP!TxOK, Tx, M
<1>4. ASSUME NEW t \in SignedTxs PROVE BAP!TxOK(t)
  <2>1. CASE t = Tx("a", 0, 4, 4, 0, <<Reg("d", "a")>>)
    BY <1>1, <1>2, <1>3, <2>1
  <2>2. CASE t = Tx("a", 0, 6, 6, 0, <<Reg("d", "b"), Reg("d", "bad")>>)
    BY <1>1, <1>2, <1>3, <2>2
  <2>3. CASE t = Tx("a", 1, 5, 5, 0, <<Reg("d", "a"), Reg("d", "b")>>)
    BY <1>1, <1>2, <1>3, <2>3
  <2>4. CASE t = Tx("b", 0, 4, 4, 1, <<Reg("d", "b")>>)
    BY <1>1, <1>2, <1>3, <2>4
  <2>5. CASE t = Tx("b", 0, 1, 4, 0, <<Reg("d", "a")>>)
    BY <1>1, <1>2, <1>3, <2>5
  <2>6. CASE t = Tx("b", 0, 0, 1, 0, <<>>)
    BY <1>2, <1>3, <2>6
  <2>7. QED
    BY <2>1, <2>2, <2>3, <2>4, <2>5, <2>6 DEF SignedTxs
<1>5. QED
  BY <1>4 DEF BAP!BaseAppConstants

\* The initial states of the instance are those of the proofs.
LEMMA AppStart == BA!Init => BAP!Init
  BY DEF BA!Init, BAP!Init, BA!NoDeliver, BAP!NoDeliver, BA!EmptyStore, BAP!EmptyStore, BA!NoAddr, BAP!NoAddr

\* Transactions run in the same way: (re)checked or simulated,
LEMMA AppRuns ==
    ASSUME NEW st, NEW t, NEW mode, NEW h, NEW base
    PROVE  BA!runTx(st, t, mode, h, base) = BAP!runTx(st, t, mode, h, base)
  BY Zenon DEF
     BA!runTx, BAP!runTx, BA!AnteHandle, BAP!AnteHandle, BA!FeeTooLow, BAP!FeeTooLow,
     BA!TimedOut, BAP!TimedOut, BA!OutOfGas, BAP!OutOfGas, BA!Metered, BAP!Metered, BA!CannotPay,
     BAP!CannotPay, BA!BadSignature, BAP!BadSignature, BA!Charged, BAP!Charged, BA!runMsgs,
     BAP!runMsgs, BA!RegisterDevice, BAP!RegisterDevice, BA!BadAddr, BAP!BadAddr,
     BA!SetDeviceMapping, BAP!SetDeviceMapping, BA!Least, BAP!Least

\* or delivered.
LEMMA AppDeliveries ==
    ASSUME NEW st, NEW t, NEW h, NEW gas, NEW base
    PROVE  BA!runDeliver(st, t, h, gas, base) = BAP!runDeliver(st, t, h, gas, base)
  BY Zenon DEF
     BA!runDeliver, BAP!runDeliver, BA!runTx, BAP!runTx, BA!AnteHandle, BAP!AnteHandle,
     BA!FeeTooLow, BAP!FeeTooLow, BA!TimedOut, BAP!TimedOut, BA!OutOfGas, BAP!OutOfGas,
     BA!Metered, BAP!Metered, BA!CannotPay, BAP!CannotPay, BA!BadSignature, BAP!BadSignature,
     BA!Charged, BAP!Charged, BA!runMsgs, BAP!runMsgs, BA!RegisterDevice, BAP!RegisterDevice,
     BA!BadAddr, BAP!BadAddr, BA!SetDeviceMapping, BAP!SetDeviceMapping, BA!Least, BAP!Least

\* The steps of the instance are those of the proofs.
LEMMA AppSteps == BA!Next => BAP!Next
<1>1. \A h : BA!Done(h) = BAP!Done(h)
  BY DEF BA!Done, BAP!Done, BA!Cardinality, BAP!Cardinality
<1>2. BA!NoDeliver = BAP!NoDeliver /\ BA!Genesis = BAP!Genesis
  BY Zenon DEF BA!NoDeliver, BAP!NoDeliver, BA!Genesis, BAP!Genesis, BA!EmptyStore, BAP!EmptyStore,
     BA!NoAddr, BAP!NoAddr
<1>3. BA!InitChain => BAP!InitChain
  BY <1>2, Zenon DEF BA!InitChain, BAP!InitChain
<1>4. \A blk : BA!Decide(blk) => BAP!Decide(blk)
  BY Zenon DEF BA!Decide, BAP!Decide
<1>5. BA!BeginBlock => BAP!BeginBlock
  BY Zenon DEF BA!BeginBlock, BAP!BeginBlock
<1>6. BA!DeliverTx => BAP!DeliverTx
  BY <1>1, AppDeliveries, Zenon DEF BA!DeliverTx, BAP!DeliverTx
<1>7. BA!EndBlock => BAP!EndBlock
  BY <1>1, Zenon DEF BA!EndBlock, BAP!EndBlock
<1>8. BA!Commit => BAP!Commit
  BY <1>2, Zenon DEF BA!Commit, BAP!Commit, BA!Without, BAP!Without, BA!Ids, BAP!Ids
<1>9. \A t : (BA!CheckTx(t) => BAP!CheckTx(t)) /\ (BA!Simulate(t) => BAP!Simulate(t))
  BY AppRuns, Zenon DEF BA!CheckTx, BAP!CheckTx, BA!Simulate, BAP!Simulate, BA!Ids, BAP!Ids
<1>10. BA!ReCheckTx => BAP!ReCheckTx
  BY AppRuns, Zenon DEF BA!ReCheckTx, BAP!ReCheckTx, BA!RemoveAt, BAP!RemoveAt
<1>11. BA!Crash => BAP!Crash
  BY <1>1, <1>2, Zenon DEF BA!Crash, BAP!Crash
<1>12. QED
  BY <1>3, <1>4, <1>5, <1>6, <1>7, <1>8, <1>9, <1>10, <1>11, Zenon DEF BA!Next, BAP!Next, BA!Blocks, BAP!Blocks

\* The properties of the instance are those of the proofs.
LEMMA AppProperties ==
    BAP!SequencesInOrder /\ BAP!StateIsLog /\ BAP!GasStopsBlock /\ BAP!CheckIsPoolAhead
    => BA!SequencesInOrder /\ BA!StateIsLog /\ BA!GasStopsBlock /\ BA!CheckIsPoolAhead
<1>1. \A f : BA!SumFunction(f) = BAP!SumFunction(f)
  BY Zenon DEF BA!SumFunction, BAP!SumFunction, BA!SumFunctionOnSet, BAP!SumFunctionOnSet,
     BA!FoldFunctionOnSet, BAP!FoldFunctionOnSet, BA!MapThenFoldSet, BAP!MapThenFoldSet
<1>2. \A s, S : BA!FeeSum(s, S) = BAP!FeeSum(s, S)
  BY <1>1, Zenon DEF BA!FeeSum, BAP!FeeSum
<1>3. \A S : BA!Cardinality(S) = BAP!Cardinality(S)
  BY DEF BA!Cardinality, BAP!Cardinality
<1>4. \A e, u, h : BA!IsCharged(e) = BAP!IsCharged(e) /\ BA!ChargesOf(u, h) = BAP!ChargesOf(u, h)
  BY Zenon DEF BA!IsCharged, BAP!IsCharged, BA!ChargesOf, BAP!ChargesOf
<1>5. ASSUME NEW st, NEW h PROVE BA!OutcomeOf(st, h) = BAP!OutcomeOf(st, h)
  BY Zenon DEF BA!OutcomeOf, BAP!OutcomeOf, BA!LogTxs, BAP!LogTxs, BA!Writes, BAP!Writes,
     BA!IsLast, BAP!IsLast, BA!NoAddr, BAP!NoAddr, BA!ChargesOf, BAP!ChargesOf, BA!IsCharged,
     BAP!IsCharged, BA!FeeSum, BAP!FeeSum, BA!Cardinality, BAP!Cardinality, BA!SumFunction,
     BAP!SumFunction, BA!SumFunctionOnSet, BAP!SumFunctionOnSet, BA!FoldFunctionOnSet,
     BAP!FoldFunctionOnSet, BA!MapThenFoldSet, BAP!MapThenFoldSet
<1>6. \A i : BA!GasUpTo(i) = BAP!GasUpTo(i)
  BY <1>1, Zenon DEF BA!GasUpTo, BAP!GasUpTo
<1>7. BAP!SequencesInOrder => BA!SequencesInOrder
  BY <1>3, <1>4, Zenon DEF BA!SequencesInOrder, BAP!SequencesInOrder
<1>8. BAP!StateIsLog => BA!StateIsLog
  BY <1>5, Zenon DEF BA!StateIsLog, BAP!StateIsLog
<1>9. BAP!GasStopsBlock => BA!GasStopsBlock
  BY <1>6, Zenon DEF BA!GasStopsBlock, BAP!GasStopsBlock
<1>10. BAP!CheckIsPoolAhead => BA!CheckIsPoolAhead
  BY <1>2, <1>3, Zenon DEF BA!CheckIsPoolAhead, BAP!CheckIsPoolAhead
<1>11. QED
  BY <1>7, <1>8, <1>9, <1>10

\* In the run of MCChain: each account is charged once for every sequence,
\* whatever blocks repeat and crashes replay, the state is the outcome of the
\* log, a full block runs nothing, and checkState counts the whole mempool.
THEOREM TransactionsOnceHolds == Spec => []TransactionsOnce
<1> DEFINE Inv == model = "baseapp" => BAP!AppInv
<1>1. Init => Inv
  BY AppConstants, AppStart, BAP!AppInit DEF Init
<1>2. Inv /\ [Next]_vars => Inv'
  <2>1. SUFFICES ASSUME Inv, [Next]_vars, model' = "baseapp"
                 PROVE  BAP!AppInv'
    OBVIOUS
  <2>2. model = "baseapp"
    BY <2>1 DEF Next, vars
  <2>3. [BA!Next]_vars
    BY <2>1, <2>2 DEF Next
  <2>4. [BAP!Next]_(BAP!vars)
    BY <2>3, AppSteps DEF vars, BAP!vars
  <2>5. QED
    BY <2>1, <2>2, <2>4, AppConstants, BAP!AppNext
<1>3. Inv => TransactionsOnce
  <2>1. SUFFICES ASSUME BAP!AppInv
                 PROVE  BA!SequencesInOrder /\ BA!StateIsLog /\ BA!GasStopsBlock /\ BA!CheckIsPoolAhead
    BY DEF TransactionsOnce
  <2>2. BAP!SequencesInOrder /\ BAP!StateIsLog /\ BAP!GasStopsBlock /\ BAP!CheckIsPoolAhead
    BY <2>1, AppConstants, BAP!AppMeaning
  <2>3. QED
    BY <2>2, AppProperties
<1>4. QED
  BY <1>1, <1>2, <1>3, PTL DEF Spec
==============================================================================
