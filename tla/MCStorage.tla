------------------------------- MODULE MCStorage -------------------------------
(***************************************************************************)
(* The storage of a node: CacheKV, RootMulti, Snapshots and                *)
(* SnapshotRestore.  As in MCChain, a behaviour is one of these models,    *)
(* with the instance that "model" names; x1 to x15 are its variables, and  *)
(* None where it has fewer.                                                *)
(***************************************************************************)
EXTENDS Integers, Sequences, TLC

CONSTANTS Nil, None, x, y, a, b, c

VARIABLES model, x1, x2, x3, x4, x5, x6, x7, x8, x9, x10, x11, x12, x13, x14, x15

vars == <<model, x1, x2, x3, x4, x5, x6, x7, x8, x9, x10, x11, x12, x13, x14, x15>>

\* The whole store backwards and a bounded range forwards.
D(s, e, up) == [start |-> s, end |-> e, asc |-> up]
BoundedDomains == {D(0, 0, FALSE), D(1, 3, TRUE)}

KV == INSTANCE CacheKV WITH
    MaxKey <- 3, Values <- {x, y}, Domains <- BoundedDomains, Threshold <- 2,
    parent <- x1, cache <- x2, deleted <- x3, unsorted <- x4, sorted <- x5, iter <- x6, got <- x7

\* Three stores, the last height and every third one are kept, pruned every
\* second height.
RM == INSTANCE RootMulti WITH
    Stores <- {a, b, c}, Added <- {}, UpgradeHeight <- 0, KeepRecent <- 1, KeepEvery <- 3,
    Interval <- 2, Strict <- FALSE, MaxHeight <- 7, MaxCrashes <- 3,
    MaxRollbacks <- 0,
    versions <- x1, latest <- x2, commitInfos <- x3, diskHeights <- x4, pc <- x5, tree <- x6,
    initial <- x7, last <- x8, pruneHeights <- x9, todo <- x10, app <- x11, crashes <- x12,
    rollbacks <- x13, behind <- x14, repeats <- x15

\* Store c is added at height 4, and a batch that names a missing version is refused.
RU == INSTANCE RootMulti WITH
    Stores <- {a, b, c}, Added <- {c}, UpgradeHeight <- 4, KeepRecent <- 1, KeepEvery <- 3,
    Interval <- 2, Strict <- TRUE, MaxHeight <- 7, MaxCrashes <- 2,
    MaxRollbacks <- 0,
    versions <- x1, latest <- x2, commitInfos <- x3, diskHeights <- x4, pc <- x5, tree <- x6,
    initial <- x7, last <- x8, pruneHeights <- x9, todo <- x10, app <- x11, crashes <- x12,
    rollbacks <- x13, behind <- x14, repeats <- x15

\* The operator rolls back twice.
RR == INSTANCE RootMulti WITH
    Stores <- {a, b}, Added <- {}, UpgradeHeight <- 0, KeepRecent <- 2, KeepEvery <- 3,
    Interval <- 2, Strict <- FALSE, MaxHeight <- 7, MaxCrashes <- 2,
    MaxRollbacks <- 2,
    versions <- x1, latest <- x2, commitInfos <- x3, diskHeights <- x4, pc <- x5, tree <- x6,
    initial <- x7, last <- x8, pruneHeights <- x9, todo <- x10, app <- x11, crashes <- x12,
    rollbacks <- x13, behind <- x14, repeats <- x15

\* Custom options that keep no recent height.
RZ == INSTANCE RootMulti WITH
    Stores <- {a, b}, Added <- {}, UpgradeHeight <- 0, KeepRecent <- 0, KeepEvery <- 3,
    Interval <- 2, Strict <- FALSE, MaxHeight <- 7, MaxCrashes <- 2,
    MaxRollbacks <- 0,
    versions <- x1, latest <- x2, commitInfos <- x3, diskHeights <- x4, pc <- x5, tree <- x6,
    initial <- x7, last <- x8, pruneHeights <- x9, todo <- x10, app <- x11, crashes <- x12,
    rollbacks <- x13, behind <- x14, repeats <- x15

SN == INSTANCE Snapshots WITH
    Interval <- 1, KeepRecent <- 2, MinRetain <- 1, EvidenceAge <- 0, KeepEvery <- 0, Chunks <- 2,
    MaxHeight <- 5, MaxFailures <- 1, MaxCrashes <- 1,
    commitHeight <- x1, base <- x2, op <- x3, pc <- x4, open <- x5, todo <- x6, pruned <- x7,
    db <- x8, files <- x9, dirs <- x10, faults <- x11

SR == INSTANCE SnapshotRestore WITH
    Chunks <- 6, BufferSize <- 4, MaxOffers <- 2, MaxMismatches <- 2,
    op <- x1, index <- x2, ch <- x3, closed <- x4, done <- x5, worker <- x6, got <- x7, fate <- x8,
    call <- x9, reply <- x10, offers <- x11, mismatches <- x12

ASSUME ConstantsAssumption ==
    /\ KV!CacheKVConstants /\ SN!SnapshotsConstants /\ SR!RestoreConstants
    /\ RM!RootMultiConstants /\ RU!RootMultiConstants /\ RR!RootMultiConstants
    /\ RZ!RootMultiConstants

SymValues == Permutations({x, y})

Init ==
    \/ /\ model = "cachekv" /\ KV!Init /\ x8 = None /\ x9 = None /\ x10 = None /\ x11 = None
       /\ x12 = None /\ x13 = None /\ x14 = None /\ x15 = None
    \/ model = "rootmulti" /\ RM!Init
    \/ model = "upgrade" /\ RU!Init
    \/ model = "rollback" /\ RR!Init
    \/ model = "unkept" /\ RZ!Init
    \/ model = "snapshots" /\ SN!Init /\ x12 = None /\ x13 = None /\ x14 = None /\ x15 = None
    \/ model = "restore" /\ SR!Init /\ x13 = None /\ x14 = None /\ x15 = None

Next ==
    /\ UNCHANGED model
    /\ \/ model = "cachekv" /\ KV!Next /\ UNCHANGED <<x8, x9, x10, x11, x12, x13, x14, x15>>
       \/ model = "rootmulti" /\ RM!Next
       \/ model = "upgrade" /\ RU!Next
       \/ model = "rollback" /\ RR!Next
       \/ model = "unkept" /\ RZ!Next
       \/ model = "snapshots" /\ SN!Next /\ UNCHANGED <<x12, x13, x14, x15>>
       \/ model = "restore" /\ SR!Next /\ UNCHANGED <<x13, x14, x15>>

Spec == Init /\ [][Next]_vars

-------------------------------------------------------------------------------
\* Type invariants of the models.
TypeOK ==
    /\ model = "cachekv" => KV!TypeOK
    /\ model = "rootmulti" => RM!TypeOK
    /\ model = "upgrade" => RU!TypeOK
    /\ model = "rollback" => RR!TypeOK
    /\ model = "unkept" => RZ!TypeOK
    /\ model = "snapshots" => SN!TypeOK
    /\ model = "restore" => SR!TypeOK

\* The cached branch implements the abstract one: reads and iterators return
\* what the branch holds, across any mix of writes, re-sorting and deletes of
\* the item being visited, and Write makes the parent equal to the branch.
ImplementsBranch ==
    /\ model = "cachekv" => KV!B!Init
    /\ [][model = "cachekv" => KV!B!Next \/ UNCHANGED KV!B!vars]_vars

\* With pruning options that keep at least the latest height, a crash at any moment
\* leaves a disk that loadVersion can load; and what it would load is the outcome
\* of the committed blocks, each applied once and in order, whatever was saved,
\* pruned and replayed, but for a store whose first commit a crash interrupted
\* after it had saved: it holds its first block once more for each such crash, and
\* its version is as far ahead of the height.  Without a rollback a replayed block
\* never meets a version that was saved with other content.
CommitsSurviveCrashes ==
    /\ model = "rootmulti" => RM!Loadable /\ RM!AppliedOnce /\ RM!ReplayAgrees
    /\ model = "upgrade" => RU!Loadable /\ RU!AppliedOnce /\ RU!ReplayAgrees
    /\ model = "rollback" => RR!Loadable /\ RR!AppliedOnce /\ (x13 = 0 => RR!ReplayAgrees)

\* The KeepRecent newest heights and every multiple of KeepEvery can be queried,
\* every store answering with the blocks up to that height (a store whose first
\* block was repeated, with those up to that many heights before); and what a store
\* still holds of another height is on the list of heights to prune, of the
\* running node or on disk, across every crash, pruning and rollback.
PruningExact ==
    /\ model = "rootmulti" => RM!RetainedInAll /\ RM!NothingLeaks
    /\ model = "upgrade" => RU!RetainedInAll
    /\ model = "rollback" => RR!RetainedInAll /\ RR!NothingLeaks

\* Where no recent height is kept, the node cannot be started again after a crash
\* between the moment pruneStores deletes the latest version and the moment
\* flushMetadata names the next one; and only then: no other step makes the latest
\* height unloadable, and with flushMetadata it is loadable again.
LostOnlyInPruning ==
    [][model = "unkept" => /\ RZ!Loadable /\ ~RZ!Loadable' => x5 = "prune"
                           /\ x5 = "flush" /\ x5' = "idle" => RZ!Loadable']_vars

\* A snapshot that is listed can be served, each of its chunks on disk and
\* complete, after any crash; and the engine is told that a restore is complete
\* only when the goroutine received every chunk, in order, and imported all of
\* them without an error, and is never told that it ended unexpectedly.
SnapshotsServed ==
    /\ model = "snapshots" => SN!ListedIsComplete
    /\ model = "restore" => SR!CompleteIsRestored /\ SR!NeverUnexpected

\* Snapshots are added in order of height, and pruning never takes one of the
\* newest KeepRecent.
NewestAreKept == [][model = "snapshots" => SN!NewestAreKept]_vars
===============================================================================
