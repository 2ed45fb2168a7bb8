---------------------------- MODULE StorageProofs ----------------------------
(***************************************************************************)
(* The instances of RootMulti, Snapshots and SnapshotRestore that          *)
(* MCStorage model-checks, as cases of the general theorems: their steps   *)
(* are steps the lemmas of StoreProofs speak of, for those values of the   *)
(* constants, so that the properties the run checks are proved of the very *)
(* specification it explores.                                              *)
(***************************************************************************)
EXTENDS MCStorage, TLAPS

\* The proofs about Snapshots, with the values MCStorage gives; what belongs to
\* the other models plays no part in them.
SNP == INSTANCE StoreProofs WITH
    Interval <- 1, KeepRecent <- 2, MinRetain <- 1, EvidenceAge <- 0, KeepEvery <- 0, Chunks <- 2,
    MaxHeight <- 5, MaxFailures <- 1, MaxCrashes <- 1,
    commitHeight <- x1, base <- x2, op <- x3, pc <- x4, open <- x5, todo <- x6, pruned <- x7,
    db <- x8, files <- x9, dirs <- x10, faults <- x11,
    Stores <- {}, Added <- {}, UpgradeHeight <- 0, Strict <- FALSE,
    MaxRollbacks <- 0,
    versions <- None, latest <- None, commitInfos <- None, diskHeights <- None, tree <- None,
    initial <- None, last <- None, pruneHeights <- None, app <- None, crashes <- None,
    rollbacks <- None, behind <- None, repeats <- None,
    BufferSize <- 0, MaxOffers <- 0, MaxMismatches <- 0,
    index <- None, ch <- None, closed <- None, done <- None, worker <- None, got <- None,
    fate <- None, call <- None, reply <- None, offers <- None, mismatches <- None

\* Those about SnapshotRestore, and about RootMulti with rollbacks.
SRP == INSTANCE StoreProofs WITH
    Chunks <- 6, BufferSize <- 4, MaxOffers <- 2, MaxMismatches <- 2,
    op <- x1, index <- x2, ch <- x3, closed <- x4, done <- x5, worker <- x6, got <- x7, fate <- x8,
    call <- x9, reply <- x10, offers <- x11, mismatches <- x12,
    MinRetain <- 0, EvidenceAge <- 0, MaxFailures <- 0,
    commitHeight <- None, base <- None, open <- None, pruned <- None, db <- None, files <- None,
    dirs <- None, faults <- None,
    Stores <- {a, b}, Added <- {}, UpgradeHeight <- 0, KeepRecent <- 2, KeepEvery <- 3,
    Interval <- 2, Strict <- FALSE, MaxHeight <- 7, MaxCrashes <- 2,
    MaxRollbacks <- 2,
    versions <- x1, latest <- x2, commitInfos <- x3, diskHeights <- x4, pc <- x5, tree <- x6,
    initial <- x7, last <- x8, pruneHeights <- x9, todo <- x10, app <- x11, crashes <- x12,
    rollbacks <- x13, behind <- x14, repeats <- x15

\* Those about RootMulti.
RMP == INSTANCE StoreProofs WITH
    Stores <- {a, b, c}, Added <- {}, UpgradeHeight <- 0, KeepRecent <- 1, KeepEvery <- 3,
    Interval <- 2, Strict <- FALSE, MaxHeight <- 7, MaxCrashes <- 3,
    MaxRollbacks <- 0,
    versions <- x1, latest <- x2, commitInfos <- x3, diskHeights <- x4, pc <- x5, tree <- x6,
    initial <- x7, last <- x8, pruneHeights <- x9, todo <- x10, app <- x11, crashes <- x12,
    rollbacks <- x13, behind <- x14, repeats <- x15,
    Chunks <- 0, op <- None,
    MinRetain <- 0, EvidenceAge <- 0, MaxFailures <- 0,
    commitHeight <- None, base <- None, open <- None, pruned <- None, db <- None, files <- None,
    dirs <- None, faults <- None,
    BufferSize <- 0, MaxOffers <- 0, MaxMismatches <- 0,
    index <- None, ch <- None, closed <- None, done <- None, worker <- None, got <- None,
    fate <- None, call <- None, reply <- None, offers <- None, mismatches <- None

RUP == INSTANCE StoreProofs WITH
    Stores <- {a, b, c}, Added <- {c}, UpgradeHeight <- 4, KeepRecent <- 1, KeepEvery <- 3,
    Interval <- 2, Strict <- TRUE, MaxHeight <- 7, MaxCrashes <- 2,
    MaxRollbacks <- 0,
    versions <- x1, latest <- x2, commitInfos <- x3, diskHeights <- x4, pc <- x5, tree <- x6,
    initial <- x7, last <- x8, pruneHeights <- x9, todo <- x10, app <- x11, crashes <- x12,
    rollbacks <- x13, behind <- x14, repeats <- x15,
    Chunks <- 0, op <- None,
    MinRetain <- 0, EvidenceAge <- 0, MaxFailures <- 0,
    commitHeight <- None, base <- None, open <- None, pruned <- None, db <- None, files <- None,
    dirs <- None, faults <- None,
    BufferSize <- 0, MaxOffers <- 0, MaxMismatches <- 0,
    index <- None, ch <- None, closed <- None, done <- None, worker <- None, got <- None,
    fate <- None, call <- None, reply <- None, offers <- None, mismatches <- None

-----------------------------------------------------------------------------
\* The values of MCStorage are what the proofs assume of the constants.
LEMMA SnapshotConstants == SNP!Sn!SnapshotsConstants /\ SRP!Sr!RestoreConstants
  BY DEF SNP!Sn!SnapshotsConstants, SRP!Sr!RestoreConstants

\* The initial states of the instances are those of the proofs.
LEMMA SnapshotStart == (SN!Init => SNP!Sn!Init) /\ (SR!Init => SRP!Sr!Init)
  BY DEF SN!Init, SNP!Sn!Init, SN!Heights, SNP!Sn!Heights, SR!Init, SRP!Sr!Init

\* The steps of the instance of Snapshots are those of the proofs.
LEMMA SnapshotSteps == SN!Next => SNP!Sn!Next
  BY DEF SN!Next, SNP!Sn!Next, SN!Commit, SNP!Sn!Commit, SN!GetBlockRetentionHeight,
         SNP!Sn!GetBlockRetentionHeight, SN!minNonZero, SNP!Sn!minNonZero, SN!Heights,
         SNP!Sn!Heights, SN!snapshot, SNP!Sn!snapshot, SN!Create, SNP!Sn!Create, SN!Listed,
         SNP!Sn!Listed, SN!OpenChunk, SNP!Sn!OpenChunk, SN!Closed, SNP!Sn!Closed,
         SN!CloseChunk, SNP!Sn!CloseChunk, SN!FinishSave, SNP!Sn!FinishSave,
         SN!saveSnapshot, SNP!Sn!saveSnapshot, SN!FailSave, SNP!Sn!FailSave, SN!PruneBegin,
         SNP!Sn!PruneBegin, SN!Newer, SNP!Sn!Newer, SN!DeleteMetadata, SNP!Sn!DeleteMetadata,
         SN!DeleteChunks, SNP!Sn!DeleteChunks, SN!RemoveDirs, SNP!Sn!RemoveDirs, SN!Crash,
         SNP!Sn!Crash, SN!Max, SNP!Sn!Max, SN!Min, SNP!Sn!Min, SN!Cardinality, SNP!Sn!Cardinality

\* The steps of the instance of SnapshotRestore are those of the proofs.
LEMMA RestoreSteps == SR!Next => SRP!Sr!Next
  BY DEF SR!Next, SRP!Sr!Next, SR!Restore, SRP!Sr!Restore, SR!RestoreChunkMismatch,
         SRP!Sr!RestoreChunkMismatch, SR!Caller, SRP!Sr!Caller, SR!RestoreChunkEnded,
         SRP!Sr!RestoreChunkEnded, SR!endLocked, SRP!Sr!endLocked, SR!RestoreChunk,
         SRP!Sr!RestoreChunk, SR!Send, SRP!Sr!Send, SR!Finish, SRP!Sr!Finish, SR!Worker,
         SRP!Sr!Worker, SR!OpenReceive, SRP!Sr!OpenReceive, SR!Receive, SRP!Sr!Receive,
         SR!OpenResult, SRP!Sr!OpenResult, SR!End, SRP!Sr!End, SR!Read, SRP!Sr!Read,
         SR!Fail, SRP!Sr!Fail, SR!Complete, SRP!Sr!Complete, SR!Drain, SRP!Sr!Drain

\* The properties of the instance of Snapshots are those of the proofs.
LEMMA SnapshotProperties ==
    /\ SNP!Sn!ListedIsComplete => SN!ListedIsComplete
    /\ SNP!Sn!NewestAreKept => SN!NewestAreKept
  BY DEF SN!ListedIsComplete, SNP!Sn!ListedIsComplete, SN!NewestAreKept, SNP!Sn!NewestAreKept,
         SN!Listed, SNP!Sn!Listed, SN!Newer, SNP!Sn!Newer, SN!Cardinality, SNP!Sn!Cardinality

\* The properties of the instance of SnapshotRestore are those of the proofs.
LEMMA RestoreProperties ==
    SRP!Sr!CompleteIsRestored /\ SRP!Sr!NeverUnexpected
    => SR!CompleteIsRestored /\ SR!NeverUnexpected
  BY DEF SR!CompleteIsRestored, SRP!Sr!CompleteIsRestored, SR!NeverUnexpected,
         SRP!Sr!NeverUnexpected

StorageInv ==
    /\ model = "snapshots" => SNP!SnapshotsInv
    /\ model = "restore" => SRP!RestoreInv

\* Both invariants hold at first.
LEMMA StorageInvInit == Init => StorageInv
  BY SnapshotConstants, SnapshotStart, SNP!SnapshotsInvInit, SRP!RestoreInvInit
     DEF Init, StorageInv

\* A behaviour stays with its model, and its steps are steps of that model.
LEMMA StorageSteps ==
    ASSUME [Next]_vars
    PROVE  /\ model' = model
           /\ model = "snapshots" => [SNP!Sn!Next]_(SNP!Sn!vars)
           /\ model = "restore" => [SRP!Sr!Next]_(SRP!Sr!vars)
<1>1. model' = model
  BY DEF Next, vars
<1>2. ASSUME model = "snapshots"
      PROVE  [SNP!Sn!Next]_(SNP!Sn!vars)
  <2>1. [SN!Next]_vars
    BY <1>2 DEF Next
  <2>2. QED
    BY <2>1, SnapshotSteps DEF vars, SNP!Sn!vars
<1>3. ASSUME model = "restore"
      PROVE  [SRP!Sr!Next]_(SRP!Sr!vars)
  <2>1. [SR!Next]_vars
    BY <1>3 DEF Next
  <2>2. QED
    BY <2>1, RestoreSteps DEF vars, SRP!Sr!vars
<1>4. QED
  BY <1>1, <1>2, <1>3

\* Both invariants are inductive in the run.
LEMMA StorageInvStep ==
    ASSUME StorageInv, [Next]_vars
    PROVE  StorageInv'
  BY StorageSteps, SnapshotConstants, SNP!SnapshotsInvStep, SRP!RestoreInvStep DEF StorageInv

\* In the run of MCStorage: a listed snapshot can be served after any crash, and
\* a restore is reported complete only when every chunk was imported in order.
THEOREM SnapshotsServedHolds == Spec => []SnapshotsServed
<1>1. StorageInv => SnapshotsServed
  <2>1. SNP!SnapshotsInv => SN!ListedIsComplete
    BY SnapshotProperties DEF SNP!SnapshotsInv
  <2>2. SRP!RestoreInv => SR!CompleteIsRestored /\ SR!NeverUnexpected
    BY SnapshotConstants, RestoreProperties, SRP!SuccessIsAwaited DEF SRP!RestoreInv
  <2>3. QED
    BY <2>1, <2>2 DEF StorageInv, SnapshotsServed
<1>2. QED
  BY <1>1, StorageInvInit, StorageInvStep, PTL DEF Spec

\* In the run of MCStorage: snapshots are added in order of height, and pruning
\* never takes one of the newest KeepRecent.
THEOREM NewestAreKeptInRun == Spec => NewestAreKept
<1>1. ASSUME StorageInv, [Next]_vars
      PROVE  [model = "snapshots" => SN!NewestAreKept]_vars
  <2>1. ASSUME model = "snapshots", ~UNCHANGED vars
        PROVE  SN!NewestAreKept
    <3>1. SN!Next
      BY <1>1, <2>1 DEF Next
    <3>2. SNP!SnapshotsInv /\ SNP!Sn!Next
      BY <1>1, <2>1, <3>1, SnapshotSteps DEF StorageInv
    <3>3. SNP!Sn!NewestAreKept
      <4>1. SNP!Sn!NewestAreKept \/ UNCHANGED SNP!Sn!vars
        BY <3>2, SnapshotConstants, SNP!NewestStep
      <4>2. UNCHANGED SNP!Sn!vars => SNP!Sn!NewestAreKept
        BY DEF SNP!Sn!vars, SNP!Sn!NewestAreKept
      <4>3. QED
        BY <4>1, <4>2
    <3>4. QED
      BY <3>3, SnapshotProperties
  <2>2. QED
    BY <2>1
<1>2. QED
  BY <1>1, StorageInvInit, StorageInvStep, PTL DEF Spec, NewestAreKept
-----------------------------------------------------------------------------
\* The instances of RootMulti are within the limits of the proofs.
LEMMA RootLimits == RMP!Limits /\ RUP!Limits /\ SRP!Limits
  BY DEF RMP!Limits, RUP!Limits, SRP!Limits, RMP!RootMultiConstants, RUP!RootMultiConstants,
         SRP!RootMultiConstants, RMP!Validate, RUP!Validate, SRP!Validate

\* The initial states of the instances are those of the proofs.
LEMMA RootStart == (RM!Init => RMP!Init) /\ (RU!Init => RUP!Init) /\ (RR!Init => SRP!Init)
  BY DEF RM!Init, RMP!Init, RU!Init, RUP!Init, RR!Init, SRP!Init

\* The steps of the instance "rootmulti" are those of the proofs.
LEMMA RMSteps == RM!Next => RMP!Next
  BY DEF RM!Next, RMP!Next, RM!loadVersion, RMP!loadVersion, RM!disk, RMP!disk,
         RM!Mounted, RMP!Mounted, RM!Exists, RMP!Exists, RM!getCommitID,
         RMP!getCommitID, RM!Saved, RMP!Saved, RM!LoadVersion, RMP!LoadVersion,
         RM!Max, RMP!Max, RM!Commit, RMP!Commit, RM!memory, RMP!memory,
         RM!commitStores, RMP!commitStores, RM!NextVersion, RMP!NextVersion,
         RM!Put, RMP!Put, RM!NotePruneHeight, RMP!NotePruneHeight,
         RM!PruneHeight, RMP!PruneHeight, RM!pruneStores, RMP!pruneStores,
         RM!DeleteVersions, RMP!DeleteVersions, RM!ToSet, RMP!ToSet,
         RM!flushMetadata, RMP!flushMetadata, RM!Stop, RMP!Stop, RM!SavedFirst,
         RMP!SavedFirst, RM!RollbackToVersion, RMP!RollbackToVersion

\* Its properties are those of the proofs.
LEMMA RMProperties ==
    /\ RMP!Loadable => RM!Loadable
    /\ RMP!AppliedOnce => RM!AppliedOnce
    /\ RMP!ReplayAgrees => RM!ReplayAgrees
    /\ RMP!RetainedInAll => RM!RetainedInAll
    /\ RMP!NothingLeaks => RM!NothingLeaks
  BY DEF RM!Loadable, RMP!Loadable, RM!AppliedOnce, RMP!AppliedOnce, RM!ReplayAgrees,
         RMP!ReplayAgrees, RM!RetainedInAll, RMP!RetainedInAll, RM!NothingLeaks,
         RMP!NothingLeaks, RM!Mounted, RMP!Mounted, RM!Exists, RMP!Exists,
         RM!getCommitID, RMP!getCommitID, RM!Saved, RMP!Saved, RM!Applied,
         RMP!Applied, RM!Blocks, RMP!Blocks, RM!Kept, RMP!Kept, RM!CacheMultiStoreWithVersion,
         RMP!CacheMultiStoreWithVersion, RM!ToPrune, RMP!ToPrune, RM!ToSet,
         RMP!ToSet

\* The steps of the instance "upgrade" are those of the proofs.
LEMMA RUSteps == RU!Next => RUP!Next
  BY DEF RU!Next, RUP!Next, RU!loadVersion, RUP!loadVersion, RU!disk, RUP!disk,
         RU!Mounted, RUP!Mounted, RU!Exists, RUP!Exists, RU!getCommitID,
         RUP!getCommitID, RU!Saved, RUP!Saved, RU!LoadVersion, RUP!LoadVersion,
         RU!Max, RUP!Max, RU!Commit, RUP!Commit, RU!memory, RUP!memory,
         RU!commitStores, RUP!commitStores, RU!NextVersion, RUP!NextVersion,
         RU!Put, RUP!Put, RU!NotePruneHeight, RUP!NotePruneHeight,
         RU!PruneHeight, RUP!PruneHeight, RU!pruneStores, RUP!pruneStores,
         RU!DeleteVersions, RUP!DeleteVersions, RU!ToSet, RUP!ToSet,
         RU!flushMetadata, RUP!flushMetadata, RU!Stop, RUP!Stop, RU!SavedFirst,
         RUP!SavedFirst, RU!RollbackToVersion, RUP!RollbackToVersion

\* Its properties are those of the proofs.
LEMMA RUProperties ==
    /\ RUP!Loadable => RU!Loadable
    /\ RUP!AppliedOnce => RU!AppliedOnce
    /\ RUP!ReplayAgrees => RU!ReplayAgrees
    /\ RUP!RetainedInAll => RU!RetainedInAll
    /\ RUP!NothingLeaks => RU!NothingLeaks
  BY DEF RU!Loadable, RUP!Loadable, RU!AppliedOnce, RUP!AppliedOnce, RU!ReplayAgrees,
         RUP!ReplayAgrees, RU!RetainedInAll, RUP!RetainedInAll, RU!NothingLeaks,
         RUP!NothingLeaks, RU!Mounted, RUP!Mounted, RU!Exists, RUP!Exists,
         RU!getCommitID, RUP!getCommitID, RU!Saved, RUP!Saved, RU!Applied,
         RUP!Applied, RU!Blocks, RUP!Blocks, RU!Kept, RUP!Kept, RU!CacheMultiStoreWithVersion,
         RUP!CacheMultiStoreWithVersion, RU!ToPrune, RUP!ToPrune, RU!ToSet,
         RUP!ToSet

\* The steps of the instance "rollback" are those of the proofs.
LEMMA RRSteps == RR!Next => SRP!Next
  BY DEF RR!Next, SRP!Next, RR!loadVersion, SRP!loadVersion, RR!disk, SRP!disk,
         RR!Mounted, SRP!Mounted, RR!Exists, SRP!Exists, RR!getCommitID,
         SRP!getCommitID, RR!Saved, SRP!Saved, RR!LoadVersion, SRP!LoadVersion,
         RR!Max, SRP!Max, RR!Commit, SRP!Commit, RR!memory, SRP!memory,
         RR!commitStores, SRP!commitStores, RR!NextVersion, SRP!NextVersion,
         RR!Put, SRP!Put, RR!NotePruneHeight, SRP!NotePruneHeight,
         RR!PruneHeight, SRP!PruneHeight, RR!pruneStores, SRP!pruneStores,
         RR!DeleteVersions, SRP!DeleteVersions, RR!ToSet, SRP!ToSet,
         RR!flushMetadata, SRP!flushMetadata, RR!Stop, SRP!Stop, RR!SavedFirst,
         SRP!SavedFirst, RR!RollbackToVersion, SRP!RollbackToVersion

\* Its properties are those of the proofs.
LEMMA RRProperties ==
    /\ SRP!Loadable => RR!Loadable
    /\ SRP!AppliedOnce => RR!AppliedOnce
    /\ SRP!ReplayAgrees => RR!ReplayAgrees
    /\ SRP!RetainedInAll => RR!RetainedInAll
    /\ SRP!NothingLeaks => RR!NothingLeaks
  BY DEF RR!Loadable, SRP!Loadable, RR!AppliedOnce, SRP!AppliedOnce, RR!ReplayAgrees,
         SRP!ReplayAgrees, RR!RetainedInAll, SRP!RetainedInAll, RR!NothingLeaks,
         SRP!NothingLeaks, RR!Mounted, SRP!Mounted, RR!Exists, SRP!Exists,
         RR!getCommitID, SRP!getCommitID, RR!Saved, SRP!Saved, RR!Applied,
         SRP!Applied, RR!Blocks, SRP!Blocks, RR!Kept, SRP!Kept, RR!CacheMultiStoreWithVersion,
         SRP!CacheMultiStoreWithVersion, RR!ToPrune, SRP!ToPrune, RR!ToSet,
         SRP!ToSet

RootsInv ==
    /\ model = "rootmulti" => RMP!RootInv
    /\ model = "upgrade" => RUP!RootInv
    /\ model = "rollback" => SRP!RootInv

\* The invariant of the multi-store holds in each instance.
LEMMA RootsInvHolds == Spec => []RootsInv
<1>1. Init => RootsInv
  BY RootLimits, RootStart, RMP!RootInvInit, RUP!RootInvInit, SRP!RootInvInit DEF Init, RootsInv
<1>2. RootsInv /\ [Next]_vars => RootsInv'
  <2>1. SUFFICES ASSUME RootsInv, [Next]_vars PROVE RootsInv'
    OBVIOUS
  <2>2. model' = model
    BY <2>1 DEF Next, vars
  <2>3. ASSUME model = "rootmulti" PROVE RMP!RootInv'
    <3>1. [RM!Next]_vars /\ RMP!RootInv
      BY <2>1, <2>3 DEF Next, RootsInv
    <3>2. [RMP!Next]_(RMP!vars)
      BY <3>1, RMSteps DEF vars, RMP!vars, RMP!disk, RMP!memory
    <3>3. QED
      BY <3>1, <3>2, RootLimits, RMP!RootInvStep
  <2>4. ASSUME model = "upgrade" PROVE RUP!RootInv'
    <3>1. [RU!Next]_vars /\ RUP!RootInv
      BY <2>1, <2>4 DEF Next, RootsInv
    <3>2. [RUP!Next]_(RUP!vars)
      BY <3>1, RUSteps DEF vars, RUP!vars, RUP!disk, RUP!memory
    <3>3. QED
      BY <3>1, <3>2, RootLimits, RUP!RootInvStep
  <2>5. ASSUME model = "rollback" PROVE SRP!RootInv'
    <3>1. [RR!Next]_vars /\ SRP!RootInv
      BY <2>1, <2>5 DEF Next, RootsInv
    <3>2. [SRP!Next]_(SRP!vars)
      BY <3>1, RRSteps DEF vars, SRP!vars, SRP!disk, SRP!memory
    <3>3. QED
      BY <3>1, <3>2, RootLimits, SRP!RootInvStep
  <2>6. QED
    BY <2>2, <2>3, <2>4, <2>5 DEF RootsInv
<1>3. QED
  BY <1>1, <1>2, PTL DEF Spec

\* In the run of MCStorage: whatever is saved, pruned, interrupted and replayed,
\* the disk can be loaded and holds each committed block once, the first one of a
\* store once more for each crash that hit its first commit after it had saved; and
\* without a rollback commitStores does not panic.
THEOREM CommitsSurviveCrashesHolds == Spec => []CommitsSurviveCrashes
<1>1. RootsInv => CommitsSurviveCrashes
  <2>1. RMP!RootInv => RMP!Loadable /\ RMP!AppliedOnce /\ RMP!ReplayAgrees
    <3>1. RMP!RootInv => x13 = 0
      BY DEF RMP!RootInv, RMP!CountersSound
    <3>2. QED
      BY <3>1, RootLimits, RMP!RootInvCommits
  <2>2. RUP!RootInv => RUP!Loadable /\ RUP!AppliedOnce /\ RUP!ReplayAgrees
    <3>1. RUP!RootInv => x13 = 0
      BY DEF RUP!RootInv, RUP!CountersSound
    <3>2. QED
      BY <3>1, RootLimits, RUP!RootInvCommits
  <2>3. SRP!RootInv => SRP!Loadable /\ SRP!AppliedOnce /\ (x13 = 0 => SRP!ReplayAgrees)
    BY RootLimits, SRP!RootInvCommits
  <2>4. QED
    BY <2>1, <2>2, <2>3, RMProperties, RUProperties, RRProperties DEF RootsInv, CommitsSurviveCrashes
<1>2. QED
  BY <1>1, RootsInvHolds, PTL

\* In the run of MCStorage: the heights the pruning options keep can be queried,
\* and every other height a store holds is on the list of heights to prune.
THEOREM PruningExactHolds == Spec => []PruningExact
<1>1. RootsInv => PruningExact
  <2>1. RMP!RootInv => RMP!RetainedInAll /\ RMP!NothingLeaks
    BY RootLimits, RMP!RootInvPruning
  <2>2. RUP!RootInv => RUP!RetainedInAll
    BY RootLimits, RUP!RootInvPruning
  <2>3. SRP!RootInv => SRP!RetainedInAll /\ SRP!NothingLeaks
    BY RootLimits, SRP!RootInvPruning
  <2>4. QED
    BY <2>1, <2>2, <2>3, RMProperties, RUProperties, RRProperties DEF RootsInv, PruningExact
<1>2. QED
  BY <1>1, RootsInvHolds, PTL
==============================================================================
