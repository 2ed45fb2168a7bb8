------------------------------- MODULE RootMulti -------------------------------
(***************************************************************************)
(* The root multi-store of one node: several IAVL stores that save their   *)
(* versions one after the other, the heights to prune, and the metadata    *)
(* (latest version, commit info, prune heights) written last in one batch. *)
(* The node may crash between any two of these writes; loadVersion brings  *)
(* it back to the latest version of the metadata and the engine replays    *)
(* the block.  A store's content is the list of the blocks applied to it,  *)
(* so a block applied twice or by two binaries can be told apart.          *)
(***************************************************************************)
EXTENDS Integers, Sequences, SequencesExt, FiniteSets, FiniteSetsExt

CONSTANTS
    Stores,         \* names of the IAVL stores
    Added,          \* the ones the upgrade at UpgradeHeight adds
    UpgradeHeight,  \* 0: no upgrade
    KeepRecent, KeepEvery, Interval,       \* PruningOptions
    Strict,         \* DeleteVersions refuses a batch that names a missing version
    MaxHeight, MaxCrashes, MaxRollbacks    \* bounds

\* PruningOptions.Validate
Validate ==
    /\ KeepEvery = 0 => Interval # 0
    /\ KeepEvery = 1 => Interval = 0
    /\ KeepEvery > 1 => Interval # 0

\* What the constants are.
RootMultiConstants ==
    /\ {KeepRecent, KeepEvery, Interval, UpgradeHeight, MaxHeight, MaxCrashes, MaxRollbacks}
          \subseteq Nat
    /\ Strict \in BOOLEAN
    /\ Validate
    /\ Added \subseteq Stores
    /\ Added # {} <=> UpgradeHeight > 1

VARIABLES
    versions,     \* disk: of each store, the saved versions and their content
    latest,       \* disk: latestVersionKey
    commitInfos,  \* disk: of each version, the version of each store
    diskHeights,  \* disk: pruneHeightsKey
    pc,           \* "down", "idle", "commit", "prune", "flush" or "panic"
    tree,         \* memory: version and content each mounted store has loaded
    initial,      \* memory: initialVersion of the mounted stores
    last,         \* memory: version of lastCommitInfo
    pruneHeights, \* memory: heights to prune
    todo,         \* stores the current loop has still to visit
    app,          \* the binary that runs, which decides what a block does
    crashes, rollbacks,     \* so far
    behind,       \* the engine has stored one block more than latest
    repeats       \* history: of each store, the crashes that hit its first commit
                  \* after it had saved

disk == <<versions, latest, commitInfos, diskHeights>>
memory == <<tree, initial, last, pruneHeights>>
vars == <<disk, pc, memory, todo, app, crashes, rollbacks, behind, repeats>>

Saved(s) == DOMAIN versions[s]
Mounted(v) == IF UpgradeHeight > 0 /\ v + 1 < UpgradeHeight THEN Stores \ Added ELSE Stores
Put(f, x, y) == [z \in DOMAIN f \cup {x} |-> IF z = x THEN y ELSE f[z]]

-------------------------------------------------------------------------------
\* Faulty: a store loads the last version it saved, not the one of the commit info.
LoadVersionLast(s, v) ==
    LET w == Max(Saved(s) \cup {0})
    IN  [version |-> w, content |-> IF w = 0 THEN <<>> ELSE versions[s][w]]

\* iavl: version 0 stands for the latest one on disk
LoadVersion(s, v) ==
    LET w == IF v = 0 THEN Max(Saved(s) \cup {0}) ELSE v
    IN  [version |-> w, content |-> IF w = 0 THEN <<>> ELSE versions[s][w]]

\* iavl: the first version is the initial one, if there is one
NextVersion(s) == IF tree[s].version = 0 /\ initial[s] > 0 THEN initial[s] ELSE tree[s].version + 1

\* iavl: the outcomes of deleting the heights hs of a store
DeleteVersions(s, hs) ==
    IF Strict /\ ~(hs \subseteq Saved(s)) THEN {versions[s]}
    ELSE {[v \in Saved(s) \ hs |-> versions[s][v]]}

getCommitID(v, s) == IF v = 0 \/ s \notin DOMAIN commitInfos[v] THEN 0 ELSE commitInfos[v][s]

Exists(v, s) == getCommitID(v, s) \in Saved(s) \cup {0}

\* Faulty: the heights of the last run are not read back.
loadVersionForgets ==
    /\ pc = "down"
    /\ LET mounted == Mounted(latest)
       IN  /\ \A s \in mounted : Exists(latest, s)
           /\ tree' = [s \in mounted |-> LoadVersion(s, getCommitID(latest, s))]
           /\ initial' = [s \in mounted |->
                            IF s \in Added /\ latest + 1 = UpgradeHeight THEN latest + 1 ELSE 0]
    /\ last' = latest
    /\ pruneHeights' = <<>>
    /\ pc' = "idle"
    /\ UNCHANGED <<disk, todo, app, crashes, rollbacks, behind, repeats>>

\* A new process: LoadLatestVersion, or LoadLatestVersionAndUpgrade when the
\* next block is the upgrade's (UpgradeStoreLoader).
loadVersion ==
    /\ pc = "down"
    /\ LET mounted == Mounted(latest)
       IN  /\ \A s \in mounted : Exists(latest, s)
           /\ tree' = [s \in mounted |-> LoadVersion(s, getCommitID(latest, s))]
           /\ initial' = [s \in mounted |->
                            IF s \in Added /\ latest + 1 = UpgradeHeight THEN latest + 1 ELSE 0]
    /\ last' = latest
    /\ pruneHeights' = diskHeights
    /\ pc' = "idle"
    /\ UNCHANGED <<disk, todo, app, crashes, rollbacks, behind, repeats>>

\* Commit, up to the loop over the stores.  The binary before an upgrade
\* halts at the upgrade's height.
Commit ==
    /\ pc = "idle"
    /\ last < MaxHeight
    /\ DOMAIN tree = Mounted(last)
    /\ pc' = "commit"
    /\ todo' = DOMAIN tree
    /\ behind' = TRUE
    /\ UNCHANGED <<disk, memory, app, crashes, rollbacks, repeats>>

\* Faulty: what a block does depends on something a restart changes.
commitStoresUnstable(s) ==
    /\ pc = "commit"
    /\ s \in todo
    /\ LET v == NextVersion(s)
           content == Append(tree[s].content, <<last + 1, crashes % 2>>)
           conflict == v \in Saved(s) /\ versions[s][v] # content
       IN  /\ versions' = IF conflict THEN versions
                          ELSE [versions EXCEPT ![s] = Put(@, v, content)]
           /\ tree' = [tree EXCEPT ![s] = [version |-> v, content |-> content]]
           /\ pc' = IF conflict THEN "panic" ELSE pc
    /\ todo' = todo \ {s}
    /\ UNCHANGED <<latest, commitInfos, diskHeights, initial, last, pruneHeights, app, crashes, rollbacks, behind, repeats>>

\* One round of commitStores: Store.Commit of s.  Saving a version a second
\* time is allowed when nothing differs, and panics otherwise.
commitStores(s) ==
    /\ pc = "commit"
    /\ s \in todo
    /\ LET v == NextVersion(s)
           content == Append(tree[s].content, <<last + 1, app>>)
           conflict == v \in Saved(s) /\ versions[s][v] # content
       IN  /\ versions' = IF conflict THEN versions
                          ELSE [versions EXCEPT ![s] = Put(@, v, content)]
           /\ tree' = [tree EXCEPT ![s] = [version |-> v, content |-> content]]
           /\ pc' = IF conflict THEN "panic" ELSE pc
    /\ todo' = todo \ {s}
    /\ UNCHANGED <<latest, commitInfos, diskHeights, initial, last, pruneHeights, app, crashes, rollbacks, behind, repeats>>

\* Faulty: the guard on KeepRecent is missing.
PruneHeightUnguarded(previous) ==
    IF Interval > 0 THEN <<previous - KeepRecent>> ELSE <<>>

\* Faulty: the snapshot heights are pruned too.
PruneHeightEvery(previous) ==
    IF Interval > 0 /\ KeepRecent < previous THEN <<previous - KeepRecent>> ELSE <<>>

\* The height that leaves the recent ones with this commit, if it is to be pruned
PruneHeight(previous) ==
    LET h == previous - KeepRecent
    IN  IF Interval > 0 /\ KeepRecent < previous /\ (KeepEvery = 0 \/ h % KeepEvery # 0)
        THEN <<h>> ELSE <<>>

\* Commit after the loop: the prune height is noted, and at an interval
\* height pruneStores begins.
NotePruneHeight ==
    /\ pc = "commit"
    /\ todo = {}
    /\ last' = last + 1
    /\ pruneHeights' = pruneHeights \o PruneHeight(last)
    /\ IF Interval > 0 /\ last' % Interval = 0 /\ pruneHeights' # <<>>
       THEN pc' = "prune" /\ todo' = DOMAIN tree
       ELSE pc' = "flush" /\ todo' = todo
    /\ UNCHANGED <<disk, tree, initial, app, crashes, rollbacks, behind, repeats>>

\* One round of pruneStores.  That a version does not exist is no error.
pruneStores(s) ==
    /\ pc = "prune"
    /\ s \in todo
    /\ \E left \in DeleteVersions(s, ToSet(pruneHeights)) : versions' = [versions EXCEPT ![s] = left]
    /\ todo' = todo \ {s}
    /\ IF todo' = {} THEN pc' = "flush" /\ pruneHeights' = <<>>
       ELSE UNCHANGED <<pc, pruneHeights>>
    /\ UNCHANGED <<latest, commitInfos, diskHeights, tree, initial, last, app, crashes, rollbacks, behind, repeats>>

\* Faulty: the metadata is flushed before the stores save.
flushMetadataFirst ==
    /\ \/ pc = "commit" /\ todo # {} /\ latest = last
       \/ pc = "flush"
    /\ latest' = IF pc = "commit" THEN last + 1 ELSE last
    /\ commitInfos' = Put(commitInfos, latest', [s \in DOMAIN tree |-> latest'])
    /\ diskHeights' = pruneHeights
    /\ pc' = IF pc = "commit" THEN pc ELSE "idle"
    /\ UNCHANGED <<versions, memory, todo, app, crashes, rollbacks, behind, repeats>>

flushMetadata ==
    /\ pc = "flush"
    /\ commitInfos' = Put(commitInfos, last, [s \in DOMAIN tree |-> tree[s].version])
    /\ latest' = last
    /\ diskHeights' = pruneHeights
    /\ pc' = "idle"
    /\ behind' = FALSE
    /\ UNCHANGED <<versions, memory, todo, app, crashes, rollbacks, repeats>>

\* The commit that runs is the first one of store s, which has saved.
SavedFirst(s) ==
    /\ pc # "idle" /\ s \in DOMAIN tree
    /\ pc = "commit" => s \notin todo
    /\ getCommitID(latest, s) = 0

\* The process ends: a crash, a panic, or the operator stops it.
Stop ==
    /\ pc # "down"
    /\ pc = "idle" \/ crashes < MaxCrashes
    /\ repeats' = [s \in Stores |-> IF SavedFirst(s) THEN repeats[s] + 1 ELSE repeats[s]]
    /\ crashes' = IF pc = "idle" THEN crashes ELSE crashes + 1
    /\ pc' = "down"
    /\ tree' = <<>> /\ initial' = <<>> /\ last' = 0 /\ pruneHeights' = <<>> /\ todo' = {}
    /\ UNCHANGED <<disk, app, rollbacks, behind>>

\* The rollback command, on a multi-store with no store mounted: pruneStores
\* has nothing to visit.  The engine rolls back to the block before the last one
\* it stored.  The operator rolls back in order to run another binary.
RollbackToVersion ==
    /\ rollbacks < MaxRollbacks
    /\ rollbacks' = rollbacks + 1
    /\ pc = "down"
    /\ ~behind
    /\ latest > 1
    /\ latest' = latest - 1
    /\ behind' = TRUE
    /\ app' \in {app, 1}
    /\ UNCHANGED <<versions, commitInfos, diskHeights, pc, memory, todo, crashes, repeats>>

Init ==
    /\ versions = [s \in Stores |-> <<>>]
    /\ latest = 0
    /\ commitInfos = <<>>
    /\ diskHeights = <<>>
    /\ pc = "down"
    /\ tree = <<>> /\ initial = <<>> /\ last = 0 /\ pruneHeights = <<>>
    /\ todo = {}
    /\ app = 0 /\ crashes = 0 /\ rollbacks = 0 /\ behind = FALSE
    /\ repeats = [s \in Stores |-> 0]

Next ==
    \/ loadVersion \/ Commit \/ NotePruneHeight \/ flushMetadata
    \/ \E s \in Stores : commitStores(s) \/ pruneStores(s)
    \/ Stop \/ RollbackToVersion

Spec == Init /\ [][Next]_vars

-------------------------------------------------------------------------------
Heights == 1..MaxHeight

\* The type of the state.
TypeOK ==
    /\ \A s \in Stores : \A v \in Saved(s) :
         v \in 1..(MaxHeight + MaxCrashes) /\ versions[s][v] \in Seq(Heights \X {0, 1})
    /\ latest \in 0..MaxHeight
    /\ \A v \in DOMAIN commitInfos : DOMAIN commitInfos[v] \subseteq Stores
    /\ ToSet(diskHeights) \cup ToSet(pruneHeights) \subseteq Heights
    /\ pc \in {"down", "idle", "commit", "prune", "flush", "panic"}
    /\ DOMAIN tree \subseteq Stores /\ DOMAIN initial = DOMAIN tree /\ todo \subseteq DOMAIN tree
    /\ last \in 0..MaxHeight /\ app \in {0, 1} /\ behind \in BOOLEAN
    /\ crashes \in 0..MaxCrashes /\ rollbacks \in 0..MaxRollbacks
    /\ repeats \in [Stores -> 0..MaxCrashes]

\* A crash at any moment leaves a disk that loadVersion can load: every store
\* still holds the version the latest commit info names.  (Not where pruning is on
\* and KeepRecent is 0: pruneStores then deletes the latest version before
\* flushMetadata names the next one.)
Loadable == \A s \in Mounted(latest) : Exists(latest, s)

\* The heights of n blocks: the first one is applied again for each crash that hit
\* the first commit of the store, as version 0 loads what that commit saved.
Blocks(s, n) ==
    LET first == IF s \in Added THEN UpgradeHeight ELSE 1
    IN  [i \in 1..n |-> IF i <= repeats[s] THEN first ELSE first + i - 1 - repeats[s]]

\* What loadVersion would load is the outcome of the committed blocks, each
\* applied once and in order, whatever was saved, pruned and replayed; but for the
\* first block of a store, applied once more, and the version of the store one
\* ahead of the height, for each crash that hit its first commit after it saved.
Applied(s, v, c) ==
    LET first == IF s \in Added THEN UpgradeHeight ELSE 1
    IN  [i \in 1..Len(c) |-> c[i][1]] = Blocks(s, v + 1 - first)
AppliedOnce ==
    latest > 0 => \A s \in DOMAIN commitInfos[latest] :
        LET v == commitInfos[latest][s]
        IN  Exists(latest, s) => v = latest + repeats[s] /\ Applied(s, v, versions[s][v])

\* Replaying a block never meets a version that was saved with other content:
\* commitStores does not panic, whether the node crashed or was rolled back.
ReplayAgrees == pc # "panic"

\* CacheMultiStoreWithVersion: of each store the version asked for, or an
\* empty tree (GetImmutable) when the store does not have it.
CacheMultiStoreWithVersion(h) ==
    [s \in Stores |-> IF h \in Saved(s) THEN versions[s][h] ELSE <<>>]

\* The KeepRecent newest heights and every multiple of KeepEvery can be queried,
\* across every crash and every pruning: every store answers with the blocks up to
\* that height, or up to repeats[s] heights earlier where its first commit was hit.
Kept(h) == h > latest - KeepRecent \/ (KeepEvery > 0 /\ h % KeepEvery = 0)
RetainedInAll ==
    \A h \in 1..latest : Kept(h) =>
        \A s \in DOMAIN commitInfos[h] : Applied(s, h, CacheMultiStoreWithVersion(h)[s])

\* What a store still holds of a height that is no longer kept is on the list of
\* heights to prune: of the running node, or the one it will load.
ToPrune == IF pc = "down" THEN diskHeights ELSE pruneHeights
NothingLeaks ==
    Interval > 0 => \A s \in Stores : \A h \in Saved(s) :
        (h < latest - KeepRecent /\ (KeepEvery = 0 \/ h % KeepEvery # 0))
            => h \in ToSet(ToPrune)

-------------------------------------------------------------------------------
\* Not so: a query at any past height is answered from stores of that height.
\* A pruned store reads as empty, in the middle of a pruning next to others that
\* are not, and the query is answered all the same.
NoEmptyAnswer ==
    \A h \in 1..latest : pc # "down" =>
        \A s \in DOMAIN commitInfos[h] : CacheMultiStoreWithVersion(h)[s] # <<>>
===============================================================================
