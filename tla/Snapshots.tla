-------------------------------- MODULE Snapshots --------------------------------
(***************************************************************************)
(* State sync snapshots of one node: the goroutine BaseApp.snapshot starts *)
(* after a commit (Manager.Create, then Manager.Prune), the chunk stream   *)
(* between createSnapshot and Store.Save, the snapshot store on disk, and  *)
(* the height below which Commit lets the engine prune blocks.  A crash    *)
(* ends every goroutine and keeps the disk.  There is one snapshot format. *)
(***************************************************************************)
EXTENDS Integers, FiniteSets, FiniteSetsExt

CONSTANTS
    Interval,     \* state-sync.snapshot-interval
    KeepRecent,   \* state-sync.snapshot-keep-recent
    MinRetain,    \* min-retain-blocks
    EvidenceAge,  \* Evidence.MaxAgeNumBlocks of the consensus parameters
    KeepEvery,    \* pruning option: every how many versions stay on disk
    Chunks,       \* chunks of a snapshot of the whole state
    MaxHeight, MaxFailures, MaxCrashes     \* bounds

\* What the constants are.
SnapshotsConstants ==
    /\ {Interval, KeepRecent, Chunks} \subseteq Nat \ {0}
    /\ {MinRetain, EvidenceAge, KeepEvery, MaxHeight, MaxFailures, MaxCrashes} \subseteq Nat

Heights == {h \in 1..MaxHeight : h % Interval = 0}
Parts == {"part", "whole"}

VARIABLES
    commitHeight,  \* the last block committed
    base,          \* lowest block the engine keeps
    op,            \* Manager.operation
    pc,            \* the goroutine of each height: see TypeOK
    open,          \* number of chunks the current Save opened
    todo,          \* Prune: heights still to be deleted
    pruned,        \* Prune: prunedHeights, whose directory is still to be removed
    db,            \* metadata on disk: set of [height, chunks]
    files,         \* chunks on disk: set of <<height, index, part or whole>>
    dirs,          \* heights with a directory
    faults         \* [failures, crashes] so far

vars == <<commitHeight, base, op, pc, open, todo, pruned, db, files, dirs, faults>>

Listed == {e.height : e \in db}
Newer(h) == {g \in Listed : g > h}

-------------------------------------------------------------------------------
minNonZero(x, y) == IF x = 0 THEN y ELSE IF y = 0 THEN x ELSE Min({x, y})

\* The smallest bound: evidence, versions on disk, snapshots, the operator's own.
GetBlockRetentionHeight(h) ==
    LET evidence == IF EvidenceAge > 0 THEN h - EvidenceAge ELSE 0
        versions == IF KeepEvery > 0 THEN minNonZero(evidence, h - (h % KeepEvery))
                    ELSE evidence
        all == minNonZero(minNonZero(versions, h - Interval * KeepRecent), h - MinRetain)
    IN  IF MinRetain = 0 \/ (KeepEvery > 0 /\ h <= KeepEvery) THEN 0 ELSE Max({0, all})

Commit ==
    /\ commitHeight < MaxHeight
    /\ commitHeight' = commitHeight + 1
    /\ base' = Max({base, GetBlockRetentionHeight(commitHeight')})
    /\ pc' = IF commitHeight' \in Heights THEN [pc EXCEPT ![commitHeight'] = "create"] ELSE pc
    /\ UNCHANGED <<op, open, todo, pruned, db, files, dirs, faults>>

\* begin, and the check against the latest snapshot.
Create(h) ==
    /\ pc[h] = "create"
    /\ IF op = "none" /\ (\A g \in Listed : g < h)
       THEN op' = "snapshot" /\ open' = 0 /\ pc' = [pc EXCEPT ![h] = "save"]
       ELSE pc' = [pc EXCEPT ![h] = "done"] /\ UNCHANGED <<op, open>>
    /\ UNCHANGED <<commitHeight, base, todo, pruned, db, files, dirs, faults>>

\* Every chunk opened so far is complete.
Closed(h) == \A i \in 0..(open - 1) : <<h, i, "whole">> \in files

\* A chunk's reader arrives on the channel and Save creates its file.
OpenChunk(h) ==
    /\ pc[h] = "save" /\ Closed(h) /\ open < Chunks
    /\ open' = open + 1
    /\ dirs' = dirs \cup {h}
    /\ files' = files \cup {<<h, open, "part">>}
    /\ UNCHANGED <<commitHeight, base, op, pc, todo, pruned, db, faults>>

CloseChunk(h) ==
    /\ pc[h] = "save" /\ ~Closed(h)
    /\ files' = (files \ {<<h, open - 1, "part">>}) \cup {<<h, open - 1, "whole">>}
    /\ UNCHANGED <<commitHeight, base, op, pc, open, todo, pruned, db, dirs, faults>>

\* Save stores the metadata of what it received; Create ends.
saveSnapshot(h) ==
    /\ db' = db \cup {[height |-> h, chunks |-> open]}
    /\ op' = "none"
    /\ pc' = [pc EXCEPT ![h] = "prune"]

\* The channel is closed after the last chunk.
FinishSave(h) ==
    /\ pc[h] = "save" /\ Closed(h) /\ open = Chunks
    /\ saveSnapshot(h)
    /\ UNCHANGED <<commitHeight, base, open, todo, pruned, files, dirs, faults>>

\* Mutant: the error returns without end().
FailSaveHolds(h) ==
    /\ pc[h] = "save" /\ faults.failures < MaxFailures
    /\ \/ open = 0 /\ saveSnapshot(h)
       \/ ~Closed(h) /\ pc' = [pc EXCEPT ![h] = "done"] /\ UNCHANGED <<op, db>>
    /\ faults' = [faults EXCEPT !.failures = @ + 1]
    /\ UNCHANGED <<commitHeight, base, open, todo, pruned, files, dirs>>

\* createSnapshot fails: CloseWithError closes the channel and passes the error
\* to the pipe of the last chunk, if there is one.
FailSave(h) ==
    /\ pc[h] = "save" /\ faults.failures < MaxFailures
    /\ \/ open = 0 /\ saveSnapshot(h)
       \/ ~Closed(h) /\ op' = "none" /\ pc' = [pc EXCEPT ![h] = "done"] /\ db' = db
    /\ faults' = [faults EXCEPT !.failures = @ + 1]
    /\ UNCHANGED <<commitHeight, base, open, todo, pruned, files, dirs>>

\* Mutant: one snapshot fewer is kept.
PruneBeginOneLess(h) ==
    /\ pc[h] = "prune"
    /\ IF op = "none"
       THEN /\ op' = "prune" /\ pc' = [pc EXCEPT ![h] = "delete"]
            /\ todo' = {g \in Listed : Cardinality(Newer(g)) + 1 >= KeepRecent}
       ELSE pc' = [pc EXCEPT ![h] = "done"] /\ UNCHANGED <<op, todo>>
    /\ pruned' = {}
    /\ UNCHANGED <<commitHeight, base, open, db, files, dirs, faults>>

\* begin; the iterator skips the newest KeepRecent heights.
PruneBegin(h) ==
    /\ pc[h] = "prune"
    /\ IF op = "none"
       THEN /\ op' = "prune" /\ pc' = [pc EXCEPT ![h] = "delete"]
            /\ todo' = {g \in Listed : Cardinality(Newer(g)) >= KeepRecent}
       ELSE pc' = [pc EXCEPT ![h] = "done"] /\ UNCHANGED <<op, todo>>
    /\ pruned' = IF op = "none" THEN {} ELSE pruned
    /\ UNCHANGED <<commitHeight, base, open, db, files, dirs, faults>>

\* Mutant: the chunks go first.
DeleteMetadataAfterChunks(h) ==
    /\ pc[h] = "delete" /\ todo # {}
    /\ files' = {f \in files : f[1] # Max(todo)}
    /\ pc' = [pc EXCEPT ![h] = "remove"]
    /\ UNCHANGED <<commitHeight, base, op, open, todo, pruned, db, dirs, faults>>

\* Store.Delete of the newest height to go: its metadata, then its chunks.
DeleteMetadata(h) ==
    /\ pc[h] = "delete" /\ todo # {}
    /\ db' = {e \in db : e.height # Max(todo)}
    /\ pc' = [pc EXCEPT ![h] = "remove"]
    /\ UNCHANGED <<commitHeight, base, op, open, todo, pruned, files, dirs, faults>>

DeleteChunks(h) ==
    /\ pc[h] = "remove"
    /\ files' = {f \in files : f[1] # Max(todo)}
    /\ todo' = todo \ {Max(todo)}
    /\ pruned' = pruned \cup {Max(todo)}
    /\ pc' = [pc EXCEPT ![h] = "delete"]
    /\ UNCHANGED <<commitHeight, base, op, open, db, dirs, faults>>

\* The height directories, in any order; one that is missing ends Prune.
RemoveDirs(h) ==
    /\ pc[h] = "delete" /\ todo = {}
    /\ IF pruned \subseteq dirs
       THEN dirs' = dirs \ pruned
       ELSE \E some \in SUBSET (pruned \cap dirs) : dirs' = dirs \ some
    /\ op' = "none" /\ pc' = [pc EXCEPT ![h] = "done"]
    /\ UNCHANGED <<commitHeight, base, open, todo, pruned, db, files, faults>>

\* The node stops and starts again; the block after commitHeight comes next.
Crash ==
    /\ faults.crashes < MaxCrashes
    /\ faults' = [faults EXCEPT !.crashes = @ + 1]
    /\ op' = "none" /\ pc' = [h \in Heights |-> "done"]
    /\ open' = 0 /\ todo' = {} /\ pruned' = {}
    /\ UNCHANGED <<commitHeight, base, db, files, dirs>>

Init ==
    /\ commitHeight = 0 /\ base = 0 /\ op = "none"
    /\ pc = [h \in Heights |-> "done"]
    /\ open = 0 /\ todo = {} /\ pruned = {}
    /\ db = {} /\ files = {} /\ dirs = {}
    /\ faults = [failures |-> 0, crashes |-> 0]

snapshot(h) ==
    \/ Create(h)
    \/ OpenChunk(h) \/ CloseChunk(h) \/ FinishSave(h) \/ FailSave(h)
    \/ PruneBegin(h) \/ DeleteMetadata(h) \/ DeleteChunks(h) \/ RemoveDirs(h)

Next == Commit \/ (\E h \in Heights : snapshot(h)) \/ Crash
Spec == Init /\ [][Next]_vars

\* Goroutines are scheduled: one that can go on does.
FairSpec == Spec /\ \A h \in Heights : WF_vars(snapshot(h))

-------------------------------------------------------------------------------
TypeOK ==
    /\ commitHeight \in 0..MaxHeight /\ base \in 0..MaxHeight
    /\ op \in {"none", "snapshot", "prune"}
    /\ pc \in [Heights -> {"create", "save", "prune", "delete", "remove", "done"}]
    /\ open \in 0..Chunks /\ todo \subseteq Heights /\ pruned \subseteq Heights
    /\ db \subseteq [height : Heights, chunks : 0..Chunks]
    /\ files \subseteq Heights \X (0..Chunks) \X Parts /\ dirs \subseteq Heights

\* What ListSnapshots offers can be served: every chunk of a listed snapshot is
\* on disk and complete, at any time and after any crash.
ListedIsComplete ==
    \A e \in db : \A i \in 0..(e.chunks - 1) : <<e.height, i, "whole">> \in files

\* Snapshots are added in order of height, and pruning never takes one of the
\* newest KeepRecent.
NewestAreKept ==
    /\ \A e \in db' \ db : \A g \in Listed : g < e.height
    /\ \A e \in db \ db' : Cardinality(Newer(e.height)) >= KeepRecent

\* No snapshot goroutine waits for ever, and the manager is free afterwards.
AllEnded == op = "none" /\ \A h \in Heights : pc[h] # "create"
SnapshotsEnd == []<>AllEnded

-------------------------------------------------------------------------------
\* Not so: a failure of the store to be exported reaches Save, and only whole
\* snapshots are listed.
ErrorsPropagate == \A e \in db : e.chunks = Chunks

\* Not so: blocks since the oldest snapshot that is offered are kept for those
\* who restore it (GetBlockRetentionHeight).
BlocksSinceOldest == \A g \in Listed : base <= g + 1
===============================================================================
