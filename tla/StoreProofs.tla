------------------------------ MODULE StoreProofs ------------------------------
(***************************************************************************)
(* Proofs about the stores of a node: RootMulti, Snapshots and             *)
(* SnapshotRestore.  The models have no state in common and each theorem   *)
(* is about one of them: what is written Sn!... is of Snapshots, Sr!... of   *)
(* SnapshotRestore, and a parameter or variable that two of them name      *)
(* alike is that of the one the theorem is about.                          *)
(*                                                                         *)
(* Of RootMulti: for any stores, heights, crashes and rollbacks, and for   *)
(* pruning options that keep a recent height or prune nothing.  Of         *)
(* Snapshots: for every interval, number of snapshots to keep and number   *)
(* of chunks.  Of SnapshotRestore: for every number of chunks and every    *)
(* buffer size.                                                            *)
(***************************************************************************)
EXTENDS RootMulti, FiniteSetTheorems, WellFoundedInduction, TLAPS

\* The parameters and the state of Snapshots that RootMulti has no name for.
CONSTANTS MinRetain, EvidenceAge, Chunks, MaxFailures
VARIABLES commitHeight, base, op, open, pruned, db, files, dirs, faults

\* Those of SnapshotRestore.
CONSTANTS BufferSize, MaxOffers, MaxMismatches
VARIABLES index, ch, closed, done, worker, got, fate, call, reply, offers, mismatches

Sn == INSTANCE Snapshots
Sr == INSTANCE SnapshotRestore

-----------------------------------------------------------------------------
(* RootMulti *)

\* The limits: where heights are pruned the latest one is not pruned at once, and
\* there is no rollback where an upgrade adds stores.
Limits ==
    /\ RootMultiConstants
    /\ KeepRecent > 0 \/ Interval = 0
    /\ Added = {} \/ MaxRollbacks = 0

-----------------------------------------------------------------------------
(* The inductive invariant *)

\* The height of the first block a store sees.
First(s) == IF s \in Added THEN UpgradeHeight ELSE 1

\* The binaries that can have run.
Apps == IF rollbacks = 0 THEN {0} ELSE {0, 1}

\* The content of version v where the first block was applied k times too often
\* and the others once and in order, by the binaries A.
Good(s, k, A, v, c) ==
    /\ c \in Seq(Heights \X A)
    /\ Len(c) = v + 1 - First(s)
    /\ \A i \in 1 .. Len(c) : c[i][1] = IF i <= k THEN First(s) ELSE First(s) + i - 1 - k

Prunable(h) == KeepEvery = 0 \/ h % KeepEvery # 0

\* The last height that may have been pruned.
Bound == IF Interval = 0 THEN 0 ELSE IF behind THEN latest - KeepRecent ELSE latest - KeepRecent - 1

\* What is saved is the outcome of the blocks up to its version.
VersionsSound ==
    /\ DOMAIN versions = Stores /\ versions = [s \in Stores |-> versions[s]]
    /\ \A s \in Stores : \A v \in Saved(s) :
         /\ v \in Nat /\ First(s) <= v /\ v <= MaxHeight + repeats[s]
         /\ v <= latest + repeats[s] \/ (v = latest + 1 + repeats[s] /\ behind)
         /\ Good(s, repeats[s], Apps, v, versions[s][v])

\* Every commit info names its height, or a version ahead of it by the repeats, in
\* the stores mounted then; after a rollback no store is new.
InfosSound ==
    /\ latest \in 0 .. MaxHeight
    /\ \A h \in 1 .. latest : h \in DOMAIN commitInfos
    /\ \A h \in DOMAIN commitInfos :
         /\ h \in Nat \ {0} /\ commitInfos[h] = [s \in Mounted(h - 1) |-> h + repeats[s]]
         /\ h <= latest \/ (Added = {} /\ latest > 0)

\* What may not be pruned is there.
Retained ==
    \A s \in Stores : \A v \in First(s) .. (latest + repeats[s]) :
        v > Bound \/ ~Prunable(v) => v \in Saved(s)

\* Only what may be pruned is on the lists.
Listed(list, bound) ==
    /\ list \in Seq(Nat)
    /\ \A h \in ToSet(list) : h \in Nat \ {0} /\ h <= bound /\ Prunable(h)

Committing == {"commit", "prune", "flush", "panic"}

\* A store that never committed holds what interrupted commits saved, and more
\* only in a commit that runs.
Untouched ==
    \A s \in Stores : First(s) = latest + 1 /\ latest + 1 + repeats[s] \in Saved(s) =>
        pc \in Committing /\ s \in DOMAIN tree /\ (pc = "commit" => s \notin todo)

\* The process: how far it is, and with which stores.
ProcessSound ==
    /\ pc \in {"down", "idle"} \cup Committing
    /\ pc = "down" => DOMAIN tree = {} /\ last = 0
    /\ pc \in {"idle", "commit", "panic"} => last = latest
    /\ pc \in {"prune", "flush"} => last = latest + 1
    /\ pc \in Committing => behind = TRUE /\ DOMAIN tree = Mounted(latest) /\ latest < MaxHeight
    /\ pc = "idle" => \/ DOMAIN tree = Mounted(latest)
                      \/ latest > 0 /\ DOMAIN tree = Mounted(latest - 1)
    /\ DOMAIN initial = DOMAIN tree /\ todo \subseteq DOMAIN tree
    /\ pc \in {"down", "idle", "flush"} => todo = {}
    /\ pc = "panic" => rollbacks # 0

\* A store that is about to commit, and one that has.
Ready(s) ==
    /\ NextVersion(s) = latest + 1 + repeats[s]
    /\ Good(s, repeats[s], Apps, latest + repeats[s], tree[s].content)
Done(s) ==
    /\ tree[s].version = latest + 1 + repeats[s]
    /\ Good(s, repeats[s], Apps, latest + 1 + repeats[s], tree[s].content)
    /\ latest + 1 + repeats[s] \in Saved(s)

TreesSound ==
    /\ pc = "idle" => \A s \in DOMAIN tree : Ready(s)
    /\ pc = "commit" => \A s \in DOMAIN tree : IF s \in todo THEN Ready(s) ELSE Done(s)
    /\ pc \in {"prune", "flush"} => \A s \in DOMAIN tree : Done(s)

\* The lists of heights to prune.
ListsSound ==
    /\ Listed(diskHeights, Bound) /\ Listed(pruneHeights, Bound)
    /\ pc \in {"idle", "commit", "panic"} => pruneHeights = diskHeights

CountersSound ==
    /\ app \in Apps /\ behind \in BOOLEAN
    /\ crashes \in 0 .. MaxCrashes /\ rollbacks \in 0 .. MaxRollbacks
    /\ rollbacks # 0 => latest > 0

\* A crash repeats the first block of a store at most once.
RepeatsSound ==
    /\ repeats = [s \in Stores |-> repeats[s]]
    /\ \A s \in Stores : repeats[s] \in 0 .. crashes /\ (First(s) > latest + 1 => repeats[s] = 0)

\* Nothing that left the recent heights of version v is forgotten.
Remembered(saved, v, list) ==
    \A s \in Stores : \A h \in DOMAIN saved[s] :
        h < v - KeepRecent /\ Prunable(h) => h \in ToSet(list)

\* Where batches are not strict: what is on no list is not on disk.
NoLeak ==
    Interval > 0 /\ ~Strict =>
        /\ Remembered(versions, latest, diskHeights)
        /\ pc \in {"prune", "flush"} => Remembered(versions, latest + 1, pruneHeights)
        /\ pc = "prune" => \A s \in DOMAIN tree \ todo : \A h \in ToSet(pruneHeights) :
                              h \notin Saved(s)

RootInv ==
    /\ VersionsSound /\ InfosSound /\ Retained /\ Untouched /\ ProcessSound
    /\ TreesSound /\ ListsSound /\ CountersSound /\ RepeatsSound /\ NoLeak

-----------------------------------------------------------------------------
(* Operators *)

\* The constants are numbers.
LEMMA LimitFacts ==
    ASSUME Limits
    PROVE  /\ KeepRecent \in Nat /\ KeepEvery \in Nat /\ Interval \in Nat
           /\ UpgradeHeight \in Nat /\ MaxHeight \in Nat /\ MaxCrashes \in Nat
           /\ KeepRecent > 0 \/ Interval = 0
           /\ MaxRollbacks \in Nat /\ Added \subseteq Stores /\ Apps \subseteq {0, 1} /\ 0 \in Apps
  BY DEF Limits, RootMultiConstants, Apps

\* A store is mounted for its first block and the later ones.
LEMMA MountedFacts ==
    ASSUME Limits, NEW v \in Nat
    PROVE  /\ \A s \in Stores : First(s) \in Nat \ {0}
           /\ \A s : s \in Mounted(v) <=> s \in Stores /\ First(s) <= v + 1
<1>1. UpgradeHeight \in Nat /\ Added \subseteq Stores /\ (Added # {} <=> UpgradeHeight > 1)
  BY DEF Limits, RootMultiConstants
<1>2. ASSUME NEW s PROVE First(s) \in Nat \ {0} /\ (s \in Added => UpgradeHeight > 1)
  BY <1>1 DEF First
<1>3. ASSUME NEW s PROVE s \in Mounted(v) <=> s \in Stores /\ First(s) <= v + 1
  <2>1. CASE s \in Added
    BY <1>1, <1>2, <2>1 DEF Mounted, First
  <2>2. CASE s \notin Added
    BY <1>1, <2>2 DEF Mounted, First
  <2>3. QED
    BY <2>1, <2>2
<1>4. QED
  BY <1>2, <1>3

\* The latest height is never among those that may have been pruned.
LEMMA BoundFacts ==
    ASSUME Limits, latest \in Nat, behind \in BOOLEAN
    PROVE  Bound \in Int /\ Bound <= latest /\ (latest > 0 => Bound < latest)
<1>1. KeepRecent \in Nat /\ (Interval = 0 \/ KeepRecent > 0)
  BY LimitFacts
<1>2. Bound \in {0, latest - KeepRecent, latest - KeepRecent - 1} /\ (Interval = 0 => Bound = 0)
  BY DEF Bound
<1>3. Interval # 0 => Bound \in {latest - KeepRecent, latest - KeepRecent - 1}
  BY DEF Bound
<1>4. QED
  BY <1>1, <1>2, <1>3

\* Nothing is applied before the first block.
LEMMA GoodEmpty ==
    ASSUME Limits, NEW s \in Stores, NEW k, NEW A
    PROVE  Good(s, k, A, First(s) - 1, <<>>)
  BY MountedFacts DEF Good

\* One block more.
LEMMA GoodAppend ==
    ASSUME Limits, NEW s \in Stores, NEW h \in Nat, NEW k \in Nat, NEW A, NEW c, NEW a \in A,
           Good(s, k, A, h + k, c), h + 1 \in Heights, First(s) <= h + 1
    PROVE  Good(s, k, A, h + 1 + k, Append(c, <<h + 1, a>>))
<1> DEFINE T == Heights \X A
           d == Append(c, <<h + 1, a>>)
<1>1. c \in Seq(T) /\ <<h + 1, a>> \in T /\ First(s) \in Nat
  BY MountedFacts DEF Good
<1>2. d \in Seq(T) /\ Len(d) = Len(c) + 1 /\ Len(c) \in Nat
  BY <1>1
<1>3. ASSUME NEW i \in 1 .. Len(d)
      PROVE  d[i][1] = IF i <= k THEN First(s) ELSE First(s) + i - 1 - k
  <2>1. CASE i = Len(c) + 1
    <3>1. d[i] = <<h + 1, a>>
      BY <1>1, <2>1
    <3>2. Len(c) = h + k + 1 - First(s)
      BY DEF Good
    <3>3. ~(i <= k) /\ First(s) + i - 1 - k = h + 1
      BY <1>1, <1>2, <2>1, <3>2
    <3>4. QED
      BY <3>1, <3>3
  <2>2. CASE i # Len(c) + 1
    <3>1. i \in 1 .. Len(c) /\ d[i] = c[i]
      BY <1>1, <1>2, <2>2
    <3>2. QED
      BY <3>1 DEF Good
  <2>3. QED
    BY <2>1, <2>2
<1>4. Len(d) = (h + 1 + k) + 1 - First(s)
  BY <1>1, <1>2 DEF Good
<1>5. QED
  BY <1>2, <1>3, <1>4 DEF Good

\* What an interrupted first commit saved holds nothing but the first block.
LEMMA GoodRepeat ==
    ASSUME Limits, NEW s \in Stores, NEW k \in Nat, NEW A, NEW v \in Nat, NEW c,
           Good(s, k, A, v, c), v <= First(s) + k
    PROVE  Good(s, k + 1, A, v, c)
<1>1. First(s) \in Nat /\ Len(c) = v + 1 - First(s)
  BY MountedFacts DEF Good
<1>2. ASSUME NEW i \in 1 .. Len(c)
      PROVE  c[i][1] = IF i <= k + 1 THEN First(s) ELSE First(s) + i - 1 - (k + 1)
  <2>1. i <= k + 1 /\ i \in Nat
    BY <1>1
  <2>2. c[i][1] = IF i <= k THEN First(s) ELSE First(s) + i - 1 - k
    BY DEF Good
  <2>3. QED
    BY <1>1, <2>1, <2>2
<1>3. QED
  BY <1>2 DEF Good

\* More binaries can have run.
LEMMA GoodMore ==
    ASSUME NEW s, NEW k, NEW A, NEW B, A \subseteq B, NEW v, NEW c, Good(s, k, A, v, c)
    PROVE  Good(s, k, B, v, c)
<1>1. c \in Seq(Heights \X A)
  BY DEF Good
<1>2. \A i \in 1 .. Len(c) : c[i] \in Heights \X B
  BY <1>1
<1>3. c \in Seq(Heights \X B)
  BY <1>1, <1>2
<1>4. QED
  BY <1>3 DEF Good

\* Until a rollback one binary runs, and what it computes is determined.
LEMMA GoodUnique ==
    ASSUME NEW s, NEW k, NEW v, NEW c, NEW d, Good(s, k, {0}, v, c), Good(s, k, {0}, v, d)
    PROVE  c = d
<1> DEFINE T == Heights \X {0}
<1>1. c \in Seq(T) /\ d \in Seq(T) /\ Len(c) = Len(d)
  BY DEF Good
<1>2. ASSUME NEW i \in 1 .. Len(c) PROVE c[i] = d[i]
  <2>1. c[i] \in T /\ d[i] \in T
    BY <1>1
  <2>2. c[i][1] = d[i][1]
    BY <1>1 DEF Good
  <2>3. QED
    BY <2>1, <2>2
<1>3. QED
  BY <1>1, <1>2

\* Such content is what AppliedOnce and RetainedInAll ask for.
LEMMA GoodApplied ==
    ASSUME NEW s, NEW A, NEW v, NEW c, Good(s, repeats[s], A, v, c)
    PROVE  Applied(s, v, c)
<1> DEFINE f == IF s \in Added THEN UpgradeHeight ELSE 1
           k == repeats[s]
<1>1. /\ Len(c) = v + 1 - f
      /\ \A i \in 1 .. Len(c) : c[i][1] = IF i <= k THEN f ELSE f + i - 1 - k
  BY DEF Good, First
<1>2. [i \in 1 .. Len(c) |-> c[i][1]]
        = [i \in 1 .. (v + 1 - f) |-> IF i <= k THEN f ELSE f + i - 1 - k]
  BY <1>1
<1>3. QED
  BY <1>2 DEF Applied, Blocks

\* The heights on a list.
LEMMA ListFacts ==
    ASSUME NEW list \in Seq(Nat), NEW h \in Nat
    PROVE  /\ ToSet(<<>>) = {}
           /\ list \o <<h>> \in Seq(Nat) /\ ToSet(list \o <<h>>) = ToSet(list) \cup {h}
           /\ list \o <<>> = list
<1> DEFINE l == list \o <<h>>
<1>1. l \in Seq(Nat) /\ Len(l) = Len(list) + 1 /\ Len(list) \in Nat
  OBVIOUS
<1>2. /\ \A i \in 1 .. Len(list) : l[i] = list[i]
      /\ l[Len(list) + 1] = h
      /\ DOMAIN l = 1 .. (Len(list) + 1) /\ DOMAIN list = 1 .. Len(list)
  BY <1>1
<1>3. ToSet(l) = ToSet(list) \cup {h}
  <2>1. ASSUME NEW x \in ToSet(l) PROVE x \in ToSet(list) \cup {h}
    <3>1. PICK i \in DOMAIN l : x = l[i]
      BY DEF ToSet
    <3>2. QED
      BY <1>1, <1>2, <3>1 DEF ToSet
  <2>2. ASSUME NEW x \in ToSet(list) PROVE x \in ToSet(l)
    <3>1. PICK i \in DOMAIN list : x = list[i]
      BY DEF ToSet
    <3>2. i \in DOMAIN l /\ l[i] = x
      BY <1>1, <1>2, <3>1
    <3>3. QED
      BY <3>2 DEF ToSet
  <2>3. h \in ToSet(l)
    <3>1. Len(list) + 1 \in DOMAIN l
      BY <1>1, <1>2
    <3>2. QED
      BY <1>2, <3>1 DEF ToSet
  <2>4. QED
    BY <2>1, <2>2, <2>3
<1>4. ToSet(<<>>) = {} /\ list \o <<>> = list
  BY DEF ToSet
<1>5. QED
  BY <1>1, <1>3, <1>4

\* A list stays within a higher bound.
LEMMA ListedLater ==
    ASSUME NEW list, NEW b \in Int, NEW c \in Int, b <= c, Listed(list, b)
    PROVE  Listed(list, c)
  BY DEF Listed

\* What is committed is in the store, and can be loaded.
LEMMA CommitIDs ==
    ASSUME Limits, InfosSound, Retained, CountersSound, RepeatsSound
    PROVE  \A s \in Stores :
              /\ First(s) <= latest => /\ getCommitID(latest, s) = latest + repeats[s]
                                       /\ latest + repeats[s] \in Saved(s)
              /\ First(s) > latest => getCommitID(latest, s) = 0
<1>1. latest \in Nat /\ behind \in BOOLEAN
  BY LimitFacts DEF InfosSound, CountersSound
<1>2. SUFFICES ASSUME NEW s \in Stores
               PROVE  /\ First(s) <= latest => /\ getCommitID(latest, s) = latest + repeats[s]
                                               /\ latest + repeats[s] \in Saved(s)
                      /\ First(s) > latest => getCommitID(latest, s) = 0
  OBVIOUS
<1>3. First(s) \in Nat \ {0} /\ repeats[s] \in Nat
  BY MountedFacts, LimitFacts DEF RepeatsSound, CountersSound
<1>4. CASE latest = 0
  BY <1>3, <1>4 DEF getCommitID
<1>5. CASE latest > 0
  <2>1. latest \in DOMAIN commitInfos /\ latest - 1 \in Nat /\ latest \in 1 .. latest
    BY <1>1, <1>5 DEF InfosSound
  <2>2. commitInfos[latest] = [r \in Mounted(latest - 1) |-> latest + repeats[r]]
    BY <2>1 DEF InfosSound
  <2>3. s \in Mounted(latest - 1) <=> First(s) <= latest
    BY <1>1, <1>3, <2>1, MountedFacts
  <2>4. latest + repeats[s] > Bound
    BY <1>1, <1>3, <1>5, BoundFacts
  <2>5. First(s) <= latest => latest + repeats[s] \in Saved(s)
    BY <1>1, <1>3, <2>4 DEF Retained
  <2>6. QED
    BY <1>1, <1>3, <1>5, <2>2, <2>3, <2>5 DEF getCommitID
<1>6. QED
  BY <1>1, <1>4, <1>5

-----------------------------------------------------------------------------
(* The steps *)

\* At the start nothing is on disk.
LEMMA RootInvInit ==
    ASSUME Limits, Init
    PROVE  RootInv
<1>1. MaxHeight \in Nat /\ MaxCrashes \in Nat /\ MaxRollbacks \in Nat /\ 0 \in Apps
  BY LimitFacts
<1>2. /\ latest = 0 /\ commitInfos = <<>> /\ diskHeights = <<>> /\ pruneHeights = <<>>
      /\ pc = "down" /\ tree = <<>> /\ initial = <<>> /\ last = 0 /\ todo = {}
      /\ app = 0 /\ crashes = 0 /\ rollbacks = 0 /\ behind = FALSE
      /\ versions = [s \in Stores |-> <<>>] /\ repeats = [s \in Stores |-> 0]
  BY DEF Init
<1>3. DOMAIN commitInfos = {} /\ DOMAIN tree = {} /\ DOMAIN initial = {} /\ ToSet(<<>>) = {}
  BY <1>2 DEF ToSet
<1>4. \A s \in Stores : Saved(s) = {}
  BY <1>2 DEF Saved
<1>5. VersionsSound /\ Untouched
  BY <1>2, <1>4 DEF VersionsSound, Untouched
<1>6. InfosSound /\ Retained /\ RepeatsSound
  <2>1. InfosSound
    BY <1>1, <1>2, <1>3 DEF InfosSound
  <2>2. \A s \in Stores : First(s) \in Nat \ {0} /\ repeats[s] = 0
    BY <1>2, MountedFacts
  <2>3. Retained
    BY <1>2, <2>2 DEF Retained
  <2>4. RepeatsSound
    BY <1>2, <2>2 DEF RepeatsSound
  <2>5. QED
    BY <2>1, <2>3, <2>4
<1>7. ProcessSound /\ TreesSound /\ CountersSound
  <2>1. CountersSound
    <3>1. behind \in BOOLEAN
      BY <1>2
    <3>2. app \in Apps /\ crashes \in 0 .. MaxCrashes /\ rollbacks \in 0 .. MaxRollbacks
      BY <1>1, <1>2
    <3>3. QED
      BY <1>2, <3>1, <3>2 DEF CountersSound
  <2>2. TreesSound
    BY <1>2 DEF TreesSound
  <2>3. ProcessSound
    BY <1>2, <1>3 DEF ProcessSound, Committing
  <2>4. QED
    BY <2>1, <2>2, <2>3
<1>8. ListsSound
  BY <1>2, <1>3 DEF ListsSound, Listed
<1>9. NoLeak
  BY <1>2, <1>4 DEF NoLeak, Remembered, Saved
<1>10. QED
  BY <1>5, <1>6, <1>7, <1>8, <1>9 DEF RootInv

\* Loading finds in each store the version the latest commit info names.
LEMMA loadVersionStep ==
    ASSUME Limits, RootInv, loadVersion
    PROVE  RootInv'
<1> DEFINE mounted == Mounted(latest)
<1>1. /\ pc = "down" /\ pc' = "idle" /\ last' = latest /\ pruneHeights' = diskHeights
      /\ tree' = [s \in mounted |-> LoadVersion(s, getCommitID(latest, s))]
      /\ initial' = [s \in mounted |->
                       IF s \in Added /\ latest + 1 = UpgradeHeight THEN latest + 1 ELSE 0]
      /\ UNCHANGED <<versions, latest, commitInfos, diskHeights, todo, app, crashes, rollbacks,
                     behind, repeats>>
  BY DEF loadVersion, disk
<1>2. VersionsSound /\ InfosSound /\ Retained /\ Untouched /\ ProcessSound /\ ListsSound
      /\ CountersSound /\ RepeatsSound /\ NoLeak
  BY DEF RootInv
<1>3. latest \in Nat /\ todo = {} /\ behind \in BOOLEAN
  BY <1>1, <1>2, LimitFacts DEF InfosSound, ProcessSound, CountersSound
<1>4. VersionsSound' /\ InfosSound' /\ Retained' /\ CountersSound' /\ RepeatsSound'
  BY <1>1, <1>2 DEF VersionsSound, InfosSound, Retained, CountersSound, RepeatsSound, Saved, Bound, Apps
<1>5. Untouched'
  BY <1>1, <1>2 DEF Untouched, Saved, Committing
<1>6. ProcessSound'
  BY <1>1, <1>3 DEF ProcessSound, Committing
<1>7. ASSUME NEW s \in mounted
      PROVE  Ready(s)'
  <2>1. s \in Stores /\ First(s) <= latest + 1 /\ First(s) \in Nat \ {0}
    BY <1>3, MountedFacts
  <2>2. /\ tree'[s] = LoadVersion(s, getCommitID(latest, s))
        /\ initial'[s] = IF s \in Added /\ latest + 1 = UpgradeHeight THEN latest + 1 ELSE 0
    BY <1>1
  <2> DEFINE k == repeats[s]
  <2>3. k \in Nat /\ Apps' = Apps /\ k' = k
    BY <1>1, <1>2, <2>1, LimitFacts DEF RepeatsSound, CountersSound, Apps
  <2>4. CASE First(s) <= latest
    <3>1. getCommitID(latest, s) = latest + k /\ latest + k \in Saved(s) /\ latest + k # 0
      BY <1>2, <1>3, <2>1, <2>3, <2>4, CommitIDs
    <3>2. tree'[s] = [version |-> latest + k, content |-> versions[s][latest + k]]
      BY <2>2, <3>1 DEF LoadVersion
    <3>3. Good(s, k, Apps, latest + k, versions[s][latest + k])
      BY <1>2, <2>1, <3>1 DEF VersionsSound
    <3>4. NextVersion(s)' = latest + 1 + k
      BY <1>3, <2>3, <3>1, <3>2 DEF NextVersion
    <3>5. QED
      BY <1>1, <2>3, <3>2, <3>3, <3>4 DEF Ready
  <2>5. CASE First(s) = latest + 1 /\ k = 0
    <3>1. getCommitID(latest, s) = 0
      BY <1>2, <1>3, <2>1, <2>5, CommitIDs
    <3>2. Saved(s) = {}
      BY <1>1, <1>2, <1>3, <2>1, <2>5 DEF Untouched, VersionsSound, Committing
    <3>3. Max(Saved(s) \cup {0}) = 0
      <4>1. Saved(s) \cup {0} = {0}
        BY <3>2
      <4>2. Max({0}) = 0
        BY DEF Max
      <4>3. QED
        BY <4>1, <4>2
    <3>4. tree'[s] = [version |-> 0, content |-> <<>>]
      BY <2>2, <3>1, <3>3 DEF LoadVersion
    <3>5. Good(s, k, Apps, latest + k, <<>>)
      BY <1>3, <2>1, <2>3, <2>5, GoodEmpty
    <3>6. NextVersion(s)' = latest + 1 + k
      BY <1>3, <2>2, <2>5, <3>4 DEF NextVersion, First
    <3>7. QED
      BY <1>1, <2>3, <3>4, <3>5, <3>6 DEF Ready
  <2>6. CASE First(s) = latest + 1 /\ k > 0
    <3>1. getCommitID(latest, s) = 0
      BY <1>2, <1>3, <2>1, <2>6, CommitIDs
    <3>2. latest + k \in Saved(s)
      BY <1>2, <1>3, <2>1, <2>3, <2>6, BoundFacts DEF Retained
    <3>3. \A v \in Saved(s) : v \in Nat /\ v <= latest + k
      BY <1>1, <1>2, <1>3, <2>1, <2>3, <2>6 DEF Untouched, VersionsSound, Committing
    <3>4. Max(Saved(s) \cup {0}) = latest + k
      <4>1. /\ latest + k \in Saved(s) \cup {0}
            /\ \A v \in Saved(s) \cup {0} : v \in Int /\ latest + k >= v
        BY <1>3, <2>3, <3>2, <3>3
      <4>2. QED
        BY <1>3, <2>3, <4>1 DEF Max
    <3>5. tree'[s] = [version |-> latest + k, content |-> versions[s][latest + k]]
      BY <1>3, <2>2, <2>3, <2>6, <3>1, <3>4 DEF LoadVersion
    <3>6. Good(s, k, Apps, latest + k, versions[s][latest + k])
      BY <1>2, <2>1, <3>2 DEF VersionsSound
    <3>7. NextVersion(s)' = latest + 1 + k
      BY <1>3, <2>3, <2>6, <3>5 DEF NextVersion
    <3>8. QED
      BY <1>1, <2>3, <3>5, <3>6, <3>7 DEF Ready
  <2>7. QED
    BY <1>3, <2>1, <2>3, <2>4, <2>5, <2>6
<1>8. TreesSound'
  BY <1>1, <1>7 DEF TreesSound
<1>9. ListsSound'
  BY <1>1, <1>2 DEF ListsSound, Listed, Bound
<1>10. NoLeak'
  BY <1>1, <1>2 DEF NoLeak, Remembered, Saved
<1>11. QED
  BY <1>4, <1>5, <1>6, <1>8, <1>9, <1>10 DEF RootInv

\* A commit begins with every mounted store to save.
LEMMA CommitStep ==
    ASSUME Limits, RootInv, Commit
    PROVE  RootInv'
<1>1. /\ pc = "idle" /\ last < MaxHeight /\ DOMAIN tree = Mounted(last)
      /\ pc' = "commit" /\ todo' = DOMAIN tree /\ behind' = TRUE
      /\ UNCHANGED <<versions, latest, commitInfos, diskHeights, tree, initial, last, pruneHeights,
                     app, crashes, rollbacks, repeats>>
  BY DEF Commit, disk, memory
<1>2. VersionsSound /\ InfosSound /\ Retained /\ Untouched /\ ProcessSound /\ TreesSound
      /\ ListsSound /\ CountersSound /\ RepeatsSound /\ NoLeak
  BY DEF RootInv
<1>3. latest \in Nat /\ last = latest /\ KeepRecent \in Nat
  BY <1>1, <1>2, LimitFacts DEF InfosSound, ProcessSound
<1>4. Bound \in Int /\ Bound' \in Int /\ Bound <= Bound'
  BY <1>1, <1>2, <1>3 DEF Bound, CountersSound
<1>5. VersionsSound' /\ InfosSound' /\ CountersSound' /\ RepeatsSound'
  BY <1>1, <1>2 DEF VersionsSound, InfosSound, CountersSound, RepeatsSound, Saved, Apps
<1>6. Retained'
  <2>1. \A s \in Stores : First(s) \in Nat /\ repeats[s] \in Nat
    BY <1>2, MountedFacts, LimitFacts DEF RepeatsSound, CountersSound
  <2>2. QED
    BY <1>1, <1>2, <1>3, <1>4, <2>1 DEF Retained, Saved
<1>7. Untouched'
  BY <1>1, <1>2 DEF Untouched, Saved, Committing
<1>8. ProcessSound'
  BY <1>1, <1>2, <1>3 DEF ProcessSound, Committing
<1>9. TreesSound'
  BY <1>1, <1>2 DEF TreesSound, Ready, NextVersion, Apps
<1>10. ListsSound'
  <2>1. Listed(diskHeights, Bound') /\ Listed(pruneHeights, Bound')
    BY <1>1, <1>2, <1>4, ListedLater DEF ListsSound
  <2>2. QED
    BY <1>1, <1>2, <2>1 DEF ListsSound
<1>11. NoLeak'
  BY <1>1, <1>2 DEF NoLeak, Remembered, Saved
<1>12. QED
  BY <1>5, <1>6, <1>7, <1>8, <1>9, <1>10, <1>11 DEF RootInv

\* Saving one store: a new version, or one that a crash left and that has the same content.
LEMMA commitStoresStep ==
    ASSUME Limits, RootInv, NEW s \in Stores, commitStores(s)
    PROVE  RootInv'
<1> DEFINE v == latest + 1 + repeats[s]
           content == Append(tree[s].content, <<latest + 1, app>>)
           conflict == v \in Saved(s) /\ versions[s][v] # content
<1>1. VersionsSound /\ InfosSound /\ Retained /\ Untouched /\ ProcessSound /\ TreesSound
      /\ ListsSound /\ CountersSound /\ RepeatsSound /\ NoLeak
  BY DEF RootInv
<1>2. /\ pc = "commit" /\ s \in todo /\ todo' = todo \ {s}
      /\ UNCHANGED <<latest, commitInfos, diskHeights, initial, last, pruneHeights, app, crashes,
                     rollbacks, behind, repeats>>
  BY DEF commitStores
<1>3. /\ last = latest /\ latest \in Nat /\ latest + 1 \in Heights /\ behind = TRUE
      /\ s \in DOMAIN tree /\ DOMAIN tree = Mounted(latest) /\ todo \subseteq DOMAIN tree
      /\ KeepRecent \in Nat /\ MaxHeight \in Nat /\ latest < MaxHeight
  BY <1>1, <1>2, LimitFacts DEF InfosSound, ProcessSound, Committing, Heights
<1>3a. /\ \A r \in Stores : repeats[r] \in Nat
       /\ Apps' = Apps /\ \A r \in Stores : repeats'[r] = repeats[r]
  BY <1>1, <1>2, LimitFacts DEF RepeatsSound, CountersSound, Apps
<1>4. NextVersion(s) = v /\ Good(s, repeats[s], Apps, latest + repeats[s], tree[s].content)
  BY <1>1, <1>2, <1>3 DEF TreesSound, Ready
<1>5. /\ versions' = IF conflict THEN versions ELSE [versions EXCEPT ![s] = Put(@, v, content)]
      /\ tree' = [tree EXCEPT ![s] = [version |-> v, content |-> content]]
      /\ pc' = IF conflict THEN "panic" ELSE "commit"
  BY <1>2, <1>3, <1>4 DEF commitStores
<1>7. First(s) <= latest + 1 /\ First(s) \in Nat /\ First(s) <= v /\ v \in Nat
  BY <1>3, <1>3a, MountedFacts
<1>6. Good(s, repeats[s], Apps, v, content)
  BY <1>1, <1>3, <1>3a, <1>4, <1>7, GoodAppend DEF CountersSound
<1>8. /\ DOMAIN tree' = DOMAIN tree /\ tree'[s] = [version |-> v, content |-> content]
      /\ \A r \in DOMAIN tree : r # s => tree'[r] = tree[r]
  BY <1>3, <1>5
<1>9. conflict => rollbacks # 0
  <2>1. SUFFICES ASSUME v \in Saved(s), rollbacks = 0 PROVE versions[s][v] = content
    OBVIOUS
  <2>2. Good(s, repeats[s], Apps, v, versions[s][v]) /\ Apps = {0}
    BY <1>1, <2>1 DEF VersionsSound, Apps
  <2>3. QED
    BY <1>6, <2>2, GoodUnique
<1>10. /\ DOMAIN versions' = Stores /\ versions' = [r \in Stores |-> versions'[r]]
       /\ \A r \in Stores : r # s => versions'[r] = versions[r] /\ Saved(r)' = Saved(r)
       /\ Saved(s)' = Saved(s) \cup {v}
       /\ \A z \in Saved(s) : z # v => versions'[s][z] = versions[s][z]
       /\ Good(s, repeats[s], Apps, v, versions'[s][v])
  <2>1. CASE conflict
    <3>1. versions' = versions /\ v \in Saved(s) /\ Good(s, repeats[s], Apps, v, versions[s][v])
      BY <1>1, <1>5, <2>1 DEF VersionsSound
    <3>2. QED
      BY <1>1, <3>1 DEF Saved, VersionsSound
  <2>2. CASE ~conflict
    <3>1. versions' = [versions EXCEPT ![s] = Put(versions[s], v, content)]
      BY <1>5, <2>2
    <3>2. DOMAIN versions' = Stores /\ versions' = [r \in Stores |-> versions'[r]]
      BY <1>1, <3>1 DEF VersionsSound
    <3>3. versions'[s] = Put(versions[s], v, content)
      BY <1>1, <3>1 DEF VersionsSound
    <3>4. \A r \in Stores : r # s => versions'[r] = versions[r] /\ Saved(r)' = Saved(r)
      BY <1>1, <3>1 DEF VersionsSound, Saved
    <3>5. /\ Saved(s)' = Saved(s) \cup {v}
          /\ versions'[s][v] = content
          /\ \A z \in Saved(s) : z # v => versions'[s][z] = versions[s][z]
      BY <3>3 DEF Saved, Put
    <3>6. QED
      BY <1>6, <3>2, <3>4, <3>5
  <2>3. QED
    BY <2>1, <2>2
<1> HIDE DEF content, conflict
<1>11. \A r \in Stores : Saved(r) \subseteq Saved(r)'
  BY <1>10
<1>12. VersionsSound'
  <2>1. ASSUME NEW r \in Stores, NEW z \in Saved(r)'
        PROVE  /\ z \in Nat /\ First(r) <= z /\ z <= MaxHeight + repeats[r]
               /\ z <= latest + repeats[r] \/ (z = latest + 1 + repeats[r] /\ behind)
               /\ Good(r, repeats[r], Apps, z, versions'[r][z])
    <3>1. CASE r = s /\ z = v
      BY <1>3, <1>3a, <1>7, <1>10, <3>1
    <3>2. CASE ~(r = s /\ z = v)
      <4>1. z \in Saved(r) /\ versions'[r][z] = versions[r][z]
        BY <1>10, <2>1, <3>2
      <4>2. QED
        BY <1>1, <4>1 DEF VersionsSound
    <3>3. QED
      BY <3>1, <3>2
  <2>2. QED
    BY <1>2, <1>3a, <1>10, <2>1 DEF VersionsSound
<1>13. InfosSound' /\ CountersSound' /\ RepeatsSound'
  BY <1>1, <1>2 DEF InfosSound, CountersSound, RepeatsSound, Apps
<1>14. Retained'
  <2>1. Bound' = Bound /\ latest' = latest
    BY <1>2 DEF Bound
  <2>2. QED
    BY <1>1, <1>2, <1>11, <2>1 DEF Retained
<1>15. Untouched'
  BY <1>1, <1>2, <1>3, <1>5, <1>8, <1>10 DEF Untouched, Committing
<1>16. ProcessSound'
  BY <1>1, <1>2, <1>3, <1>5, <1>8, <1>9 DEF ProcessSound, Committing
<1>17. TreesSound'
  <2>1. SUFFICES ASSUME pc' = "commit", NEW r \in DOMAIN tree
                 PROVE  IF r \in todo' THEN Ready(r)' ELSE Done(r)'
    BY <1>2, <1>5, <1>8 DEF TreesSound
  <2>2. CASE r = s
    BY <1>2, <1>3a, <1>6, <1>8, <1>10, <2>2 DEF Done
  <2>3. CASE r # s /\ r \in todo
    <3>1. Ready(r) /\ tree'[r] = tree[r] /\ r \in todo'
      BY <1>1, <1>2, <1>8, <2>1, <2>3 DEF TreesSound
    <3>2. QED
      BY <1>2, <1>3a, <3>1 DEF Ready, NextVersion
  <2>4. CASE r # s /\ r \notin todo
    <3>1. Done(r) /\ tree'[r] = tree[r] /\ r \notin todo' /\ r \in Stores
      BY <1>1, <1>2, <1>3, <1>8, <2>1, <2>4, MountedFacts DEF TreesSound
    <3>2. QED
      BY <1>2, <1>3a, <1>11, <3>1 DEF Done
  <2>5. QED
    BY <2>2, <2>3, <2>4
<1>18. ListsSound'
  BY <1>1, <1>2, <1>5 DEF ListsSound, Listed, Bound
<1>19. NoLeak'
  <2>1. SUFFICES ASSUME Interval > 0, ~Strict PROVE Remembered(versions, latest, diskHeights)'
    BY <1>2, <1>5 DEF NoLeak
  <2>2. ASSUME NEW r \in Stores, NEW h \in Saved(r)', h < latest - KeepRecent, Prunable(h)
        PROVE  h \in ToSet(diskHeights)
    <3>1. h # v
      BY <1>3, <1>3a, <2>2
    <3>2. h \in Saved(r)
      BY <1>10, <2>2, <3>1
    <3>3. QED
      BY <1>1, <2>1, <2>2, <3>2 DEF NoLeak, Remembered, Saved
  <2>3. QED
    BY <1>2, <2>2 DEF Remembered, Saved
<1>20. QED
  BY <1>12, <1>13, <1>14, <1>15, <1>16, <1>17, <1>18, <1>19 DEF RootInv

\* The height that falls out of the recent ones is noted for pruning.
LEMMA NotePruneHeightStep ==
    ASSUME Limits, RootInv, NotePruneHeight
    PROVE  RootInv'
<1>1. VersionsSound /\ InfosSound /\ Retained /\ Untouched /\ ProcessSound /\ TreesSound
      /\ ListsSound /\ CountersSound /\ RepeatsSound /\ NoLeak
  BY DEF RootInv
<1>2. /\ pc = "commit" /\ todo = {} /\ last' = last + 1
      /\ pruneHeights' = pruneHeights \o PruneHeight(last)
      /\ UNCHANGED <<versions, latest, commitInfos, diskHeights, tree, initial, app, crashes,
                     rollbacks, behind, repeats>>
      /\ \/ pc' = "prune" /\ todo' = DOMAIN tree
         \/ pc' = "flush" /\ todo' = {}
  BY DEF NotePruneHeight, disk
<1>3. /\ last = latest /\ latest \in Nat /\ behind = TRUE /\ latest < MaxHeight
      /\ DOMAIN tree = Mounted(latest)
  BY <1>1, <1>2, LimitFacts DEF InfosSound, ProcessSound, Committing
<1>4. KeepRecent \in Nat /\ KeepEvery \in Nat /\ Interval \in Nat /\ MaxHeight \in Nat
  BY LimitFacts
<1>5. (Interval # 0 => Bound = latest - KeepRecent) /\ Bound' = Bound
  BY <1>2, <1>3 DEF Bound
<1>6. pruneHeights = diskHeights /\ diskHeights \in Seq(Nat) /\ Listed(diskHeights, Bound)
  BY <1>1, <1>2 DEF ListsSound, Listed
<1> DEFINE h == latest - KeepRecent
           noted == Interval > 0 /\ KeepRecent < latest /\ Prunable(h)
<1>7. /\ ~noted => pruneHeights' = diskHeights
      /\ noted => h \in Nat \ {0} /\ pruneHeights' = diskHeights \o <<h>>
                  /\ ToSet(pruneHeights') = ToSet(diskHeights) \cup {h}
  <2>1. CASE noted
    <3>1. PruneHeight(latest) = <<h>> /\ h \in Nat \ {0}
      BY <1>3, <1>4, <2>1 DEF PruneHeight, Prunable
    <3>2. QED
      BY <1>2, <1>3, <1>6, <2>1, <3>1, ListFacts
  <2>2. CASE ~noted
    <3>1. PruneHeight(latest) = <<>>
      BY <2>2 DEF PruneHeight, Prunable
    <3>2. QED
      BY <1>2, <1>3, <1>6, <2>2, <3>1, ListFacts
  <2>3. QED
    BY <2>1, <2>2
<1>8. Listed(pruneHeights', Bound)
  <2>1. CASE noted
    <3>1. pruneHeights' \in Seq(Nat)
      BY <1>6, <1>7, <2>1, ListFacts
    <3>2. h <= Bound
      BY <1>3, <1>4, <1>5, <2>1
    <3>3. QED
      BY <1>6, <1>7, <2>1, <3>1, <3>2 DEF Listed
  <2>2. CASE ~noted
    BY <1>6, <1>7, <2>2
  <2>3. QED
    BY <2>1, <2>2
<1>9. VersionsSound' /\ InfosSound' /\ CountersSound' /\ RepeatsSound' /\ Retained'
  BY <1>1, <1>2, <1>5 DEF VersionsSound, InfosSound, CountersSound, RepeatsSound, Retained, Saved, Apps
<1>10. Untouched'
  BY <1>1, <1>2 DEF Untouched, Saved, Committing
<1>11. ProcessSound'
  BY <1>1, <1>2, <1>3 DEF ProcessSound, Committing
<1>12. TreesSound'
  BY <1>1, <1>2 DEF TreesSound, Done, Saved, Apps
<1>13. ListsSound'
  BY <1>2, <1>5, <1>6, <1>8 DEF ListsSound
<1>14. NoLeak'
  <2>1. SUFFICES ASSUME Interval > 0, ~Strict
                 PROVE  /\ Remembered(versions, latest, diskHeights)'
                        /\ Remembered(versions, latest + 1, pruneHeights)'
                        /\ pc' = "prune" => DOMAIN tree \ todo' = {}
    BY <1>2 DEF NoLeak
  <2>2. Remembered(versions, latest, diskHeights)
    BY <1>1, <2>1 DEF NoLeak
  <2>3. ASSUME NEW s \in Stores, NEW z \in Saved(s), z < latest + 1 - KeepRecent, Prunable(z)
        PROVE  z \in ToSet(pruneHeights')
    <3>1. z \in Nat \ {0}
      BY <1>1, <1>3, MountedFacts DEF VersionsSound
    <3>2. CASE z < latest - KeepRecent
      <4>1. z \in ToSet(diskHeights)
        BY <2>2, <2>3, <3>2 DEF Remembered, Saved
      <4>2. QED
        BY <1>7, <4>1
    <3>3. CASE z = h
      <4>1. noted
        BY <1>3, <1>4, <2>1, <2>3, <3>1, <3>3
      <4>2. QED
        BY <1>7, <3>3, <4>1
    <3>4. QED
      BY <1>3, <1>4, <2>3, <3>1, <3>2, <3>3
  <2>4. QED
    BY <1>2, <1>3, <1>4, <2>2, <2>3 DEF Remembered, Saved
<1>15. QED
  BY <1>9, <1>10, <1>11, <1>12, <1>13, <1>14 DEF RootInv

\* Pruning one store deletes only heights on the list.
LEMMA pruneStoresStep ==
    ASSUME Limits, RootInv, NEW s \in Stores, pruneStores(s)
    PROVE  RootInv'
<1>1. VersionsSound /\ InfosSound /\ Retained /\ Untouched /\ ProcessSound /\ TreesSound
      /\ ListsSound /\ CountersSound /\ RepeatsSound /\ NoLeak
  BY DEF RootInv
<1>2. /\ pc = "prune" /\ s \in todo /\ todo' = todo \ {s}
      /\ \/ todo' = {} /\ pc' = "flush" /\ pruneHeights' = <<>>
         \/ todo' # {} /\ pc' = "prune" /\ pruneHeights' = pruneHeights
      /\ UNCHANGED <<latest, commitInfos, diskHeights, tree, initial, last, app, crashes,
                     rollbacks, behind, repeats>>
  BY DEF pruneStores
<1>3. /\ last = latest + 1 /\ latest \in Nat /\ behind = TRUE /\ latest < MaxHeight
      /\ DOMAIN tree = Mounted(latest) /\ todo \subseteq DOMAIN tree
  BY <1>1, <1>2, LimitFacts DEF InfosSound, ProcessSound, Committing
<1>4. KeepRecent \in Nat /\ KeepEvery \in Nat /\ Interval \in Nat /\ MaxHeight \in Nat
  BY LimitFacts
<1>5. Bound' = Bound /\ Bound <= latest /\ Bound \in Int
  BY <1>2, <1>3, BoundFacts DEF Bound
<1> DEFINE hs == ToSet(pruneHeights)
<1>6. PICK left \in DeleteVersions(s, hs) : versions' = [versions EXCEPT ![s] = left]
  BY DEF pruneStores
<1>7. /\ DOMAIN left \subseteq Saved(s) /\ Saved(s) \ hs \subseteq DOMAIN left
      /\ ~Strict => DOMAIN left = Saved(s) \ hs
      /\ \A z \in DOMAIN left : left[z] = versions[s][z]
  <2>1. CASE left = versions[s] /\ Strict
    BY <2>1 DEF Saved
  <2>2. CASE left = [z \in Saved(s) \ hs |-> versions[s][z]]
    BY <2>2 DEF Saved
  <2>3. QED
    BY <1>6, <2>1, <2>2 DEF DeleteVersions
<1>8. /\ DOMAIN versions' = Stores /\ versions' = [r \in Stores |-> versions'[r]]
      /\ \A r \in Stores : r # s => versions'[r] = versions[r] /\ Saved(r)' = Saved(r)
      /\ Saved(s)' = DOMAIN left /\ versions'[s] = left
  BY <1>1, <1>6 DEF VersionsSound, Saved
<1>9. \A r \in Stores : \A z \in Saved(r)' : z \in Saved(r) /\ versions'[r][z] = versions[r][z]
  BY <1>7, <1>8
<1>10. \A r \in Stores : \A z \in Saved(r) : z \notin hs => z \in Saved(r)'
  BY <1>7, <1>8
<1>11. \A z \in hs : z \in Nat \ {0} /\ z <= Bound /\ Prunable(z)
  BY <1>1 DEF ListsSound, Listed
<1> HIDE DEF hs
<1>12. VersionsSound'
  BY <1>1, <1>2, <1>8, <1>9 DEF VersionsSound, Apps
<1>13. InfosSound' /\ CountersSound' /\ RepeatsSound'
  BY <1>1, <1>2 DEF InfosSound, CountersSound, RepeatsSound, Apps
<1>13a. \A r \in Stores : repeats[r] \in Nat
  BY <1>1, LimitFacts DEF RepeatsSound, CountersSound
<1>14. Retained'
  <2>1. ASSUME NEW r \in Stores, NEW h \in First(r) .. (latest + repeats[r]), h > Bound \/ ~Prunable(h)
        PROVE  h \in Saved(r)'
    <3>1. h \in Saved(r)
      BY <1>1, <2>1 DEF Retained
    <3>2. h \notin hs
      BY <1>5, <1>11, <2>1
    <3>3. QED
      BY <1>10, <3>1, <3>2
  <2>2. QED
    BY <1>2, <1>5, <2>1 DEF Retained
<1>15. \A r \in DOMAIN tree : r \in Stores
  BY <1>3, MountedFacts
<1>16. Untouched'
  BY <1>1, <1>2, <1>9 DEF Untouched, Committing
<1>17. ProcessSound'
  BY <1>1, <1>2, <1>3 DEF ProcessSound, Committing
<1>18. TreesSound'
  <2>1. ASSUME NEW r \in DOMAIN tree PROVE Done(r)'
    <3>1. Done(r) /\ r \in Stores
      BY <1>1, <1>2, <1>15 DEF TreesSound
    <3>2. latest + 1 + repeats[r] \notin hs
      BY <1>3, <1>5, <1>11, <1>13a, <3>1
    <3>3. latest + 1 + repeats[r] \in Saved(r)'
      BY <1>10, <3>1, <3>2 DEF Done
    <3>4. QED
      BY <1>2, <3>1, <3>3 DEF Done, Apps
  <2>2. QED
    BY <1>2, <2>1 DEF TreesSound
<1>19. ListsSound'
  <2>1. Listed(<<>>, Bound)
    BY DEF Listed, ToSet
  <2>2. QED
    BY <1>1, <1>2, <1>5, <2>1 DEF ListsSound
<1>20. NoLeak'
  <2>1. SUFFICES ASSUME Interval > 0, ~Strict
                 PROVE  /\ Remembered(versions, latest, diskHeights)'
                        /\ Remembered(versions, latest + 1, pruneHeights)'
                        /\ pc' = "prune" => \A r \in DOMAIN tree \ todo' : \A h \in hs : h \notin Saved(r)'
    BY <1>2 DEF NoLeak, hs
  <2>2. /\ Remembered(versions, latest, diskHeights) /\ Remembered(versions, latest + 1, pruneHeights)
        /\ \A r \in DOMAIN tree \ todo : \A h \in hs : h \notin Saved(r)
    BY <1>1, <1>2, <2>1 DEF NoLeak, hs
  <2>3. Remembered(versions, latest, diskHeights)'
    BY <1>2, <1>9, <2>2 DEF Remembered, Saved
  <2>4. \A r \in DOMAIN tree \ todo' : \A h \in hs : h \notin Saved(r)'
    <3>1. ASSUME NEW r \in DOMAIN tree \ todo', NEW h \in hs PROVE h \notin Saved(r)'
      <4>1. CASE r = s
        BY <1>7, <1>8, <2>1, <4>1
      <4>2. CASE r # s
        BY <1>2, <1>9, <1>15, <2>2, <4>2
      <4>3. QED
        BY <4>1, <4>2
    <3>2. QED
      BY <3>1
  <2>5. Remembered(versions, latest + 1, pruneHeights)'
    <3>1. SUFFICES ASSUME NEW r \in Stores, NEW h \in Saved(r)', h < latest + 1 - KeepRecent, Prunable(h)
                   PROVE  h \in ToSet(pruneHeights')
      BY <1>2, <1>3, <1>4 DEF Remembered, Saved
    <3>2. h \in Saved(r)
      BY <1>9, <3>1
    <3>3. h \in hs
      BY <1>3, <1>4, <2>2, <3>1, <3>2 DEF Remembered, hs, Saved
    <3>4. CASE todo' # {}
      BY <1>2, <3>3, <3>4 DEF hs
    <3>5. CASE todo' = {}
      <4>1. r \in Mounted(latest)
        <5>1. First(r) <= h /\ h <= latest + 1 /\ h \in Nat /\ First(r) \in Nat
          BY <1>1, <1>3, <1>4, <3>1, <3>2, MountedFacts DEF VersionsSound
        <5>2. QED
          BY <1>3, <5>1, MountedFacts
      <4>2. QED
        BY <1>3, <2>4, <3>1, <3>3, <3>5, <4>1
    <3>6. QED
      BY <3>4, <3>5
  <2>6. QED
    BY <2>3, <2>4, <2>5
<1>21. QED
  BY <1>12, <1>13, <1>14, <1>16, <1>17, <1>18, <1>19, <1>20 DEF RootInv

\* Flushing makes the new height the latest, and the list the one on disk.
LEMMA flushMetadataStep ==
    ASSUME Limits, RootInv, flushMetadata
    PROVE  RootInv'
<1>1. VersionsSound /\ InfosSound /\ Retained /\ Untouched /\ ProcessSound /\ TreesSound
      /\ ListsSound /\ CountersSound /\ RepeatsSound /\ NoLeak
  BY DEF RootInv
<1>2. /\ pc = "flush" /\ pc' = "idle" /\ latest' = last /\ diskHeights' = pruneHeights
      /\ behind' = FALSE
      /\ commitInfos' = Put(commitInfos, last, [s \in DOMAIN tree |-> tree[s].version])
      /\ UNCHANGED <<versions, tree, initial, last, pruneHeights, todo, app, crashes, rollbacks,
                     repeats>>
  BY DEF flushMetadata, memory
<1>3. /\ last = latest + 1 /\ latest \in Nat /\ behind = TRUE /\ latest < MaxHeight
      /\ DOMAIN tree = Mounted(latest) /\ todo = {}
  BY <1>1, <1>2, LimitFacts DEF InfosSound, ProcessSound, Committing
<1>4. KeepRecent \in Nat /\ KeepEvery \in Nat /\ Interval \in Nat /\ MaxHeight \in Nat
  BY LimitFacts
<1>5. Bound' = Bound
  BY <1>2, <1>3, <1>4 DEF Bound
<1>6. \A s \in DOMAIN tree : Done(s) /\ s \in Stores
  BY <1>1, <1>2, <1>3, MountedFacts DEF TreesSound
<1>7. [s \in DOMAIN tree |-> tree[s].version] = [s \in Mounted(latest) |-> latest + 1 + repeats[s]]
  BY <1>3, <1>6 DEF Done
<1>7a. \A s \in Stores : repeats[s] \in Nat /\ First(s) \in Nat \ {0}
  BY <1>1, LimitFacts, MountedFacts DEF RepeatsSound, CountersSound
<1>8. VersionsSound'
  BY <1>1, <1>2, <1>3, <1>7a DEF VersionsSound, Saved, Apps
<1>9. InfosSound'
  <2>1. /\ DOMAIN commitInfos' = DOMAIN commitInfos \cup {latest + 1}
        /\ commitInfos'[latest + 1] = [s \in Mounted(latest) |-> latest + 1 + repeats[s]]
        /\ \A h \in DOMAIN commitInfos : h # latest + 1 => commitInfos'[h] = commitInfos[h]
    BY <1>2, <1>3, <1>7 DEF Put
  <2>2. (latest + 1) - 1 = latest
    BY <1>3
  <2>3. \A h \in 1 .. (latest + 1) : h \in DOMAIN commitInfos'
    BY <1>1, <1>3, <2>1 DEF InfosSound
  <2>4. QED
    BY <1>1, <1>2, <1>3, <1>4, <2>1, <2>2, <2>3 DEF InfosSound
<1>10. Retained'
  <2>1. ASSUME NEW s \in Stores, NEW v \in First(s) .. (latest + 1 + repeats[s]),
               v > Bound \/ ~Prunable(v)
        PROVE  v \in Saved(s)
    <3>1. CASE v = latest + 1 + repeats[s] /\ First(s) <= latest + 1
      BY <1>3, <1>6, <2>1, <3>1, MountedFacts DEF Done
    <3>2. CASE v \in First(s) .. (latest + repeats[s])
      BY <1>1, <2>1, <3>2 DEF Retained
    <3>3. First(s) > latest + 1 => repeats[s] = 0
      BY <1>1 DEF RepeatsSound
    <3>4. QED
      BY <1>3, <1>7a, <2>1, <3>1, <3>2, <3>3
  <2>2. QED
    BY <1>2, <1>3, <1>5, <2>1 DEF Retained, Saved
<1>11. Untouched'
  <2>1. ASSUME NEW s \in Stores, First(s) = latest + 2, latest + 2 + repeats[s] \in Saved(s)
        PROVE  FALSE
    BY <1>1, <1>3, <1>7a, <2>1 DEF VersionsSound
  <2>2. QED
    BY <1>2, <1>3, <2>1 DEF Untouched, Saved, Committing
<1>12. ProcessSound'
  BY <1>1, <1>2, <1>3 DEF ProcessSound, Committing
<1>13. TreesSound'
  BY <1>2, <1>3, <1>6, <1>7a DEF TreesSound, Ready, Done, NextVersion, Apps
<1>14. ListsSound' /\ CountersSound' /\ RepeatsSound'
  <2>1. ListsSound'
    BY <1>1, <1>2, <1>5 DEF ListsSound
  <2>2. behind' \in BOOLEAN
    BY <1>2
  <2>3. CountersSound'
    BY <1>1, <1>2, <1>3, <2>2 DEF CountersSound, Apps
  <2>4. RepeatsSound'
    BY <1>1, <1>2, <1>3, <1>7a DEF RepeatsSound
  <2>5. QED
    BY <2>1, <2>3, <2>4
<1>15. NoLeak'
  BY <1>1, <1>2, <1>3 DEF NoLeak, Remembered, Saved
<1>16. QED
  BY <1>8, <1>9, <1>10, <1>11, <1>12, <1>13, <1>14, <1>15 DEF RootInv

\* A first commit that is under way is that of a store without a commit info.
LEMMA FirstCommit ==
    ASSUME Limits, RootInv, NEW s \in Stores, SavedFirst(s), pc # "down"
    PROVE  First(s) = latest + 1 /\ pc \in Committing /\ latest + 1 + repeats[s] \in Saved(s)
<1>1. /\ VersionsSound /\ InfosSound /\ Retained /\ ProcessSound /\ TreesSound /\ CountersSound
      /\ RepeatsSound
  BY DEF RootInv
<1>2. latest \in Nat /\ First(s) \in Nat \ {0}
  BY <1>1, LimitFacts, MountedFacts DEF InfosSound
<1>3. pc \in Committing /\ s \in DOMAIN tree /\ (pc = "commit" => s \notin todo)
  BY <1>1 DEF SavedFirst, ProcessSound
<1>4. First(s) <= latest + 1
  BY <1>1, <1>2, <1>3, MountedFacts DEF ProcessSound
<1>5. First(s) > latest
  <2>1. SUFFICES ASSUME First(s) <= latest PROVE FALSE
    BY <1>2
  <2>2. latest + repeats[s] = 0
    BY <1>1, <2>1, CommitIDs DEF SavedFirst
  <2>3. QED
    BY <1>1, <1>2, <2>1, <2>2, LimitFacts DEF RepeatsSound, CountersSound
<1>6. pc # "panic"
  <2>1. SUFFICES ASSUME pc = "panic" PROVE FALSE
    OBVIOUS
  <2>2. rollbacks # 0 /\ latest > 0
    BY <1>1, <2>1 DEF ProcessSound, CountersSound
  <2>3. MaxRollbacks # 0
    BY <1>1, <2>2, LimitFacts DEF CountersSound
  <2>4. First(s) = 1
    BY <2>3 DEF Limits, First
  <2>5. QED
    BY <1>2, <1>5, <2>2, <2>4
<1>7. Done(s)
  BY <1>1, <1>3, <1>6 DEF TreesSound, Committing
<1>8. QED
  BY <1>2, <1>3, <1>4, <1>5, <1>7 DEF Done

\* A crash or a stop keeps the disk, wherever the commit was; what it leaves of a
\* first commit is counted.
LEMMA StopStep ==
    ASSUME Limits, RootInv, Stop
    PROVE  RootInv'
<1>1. VersionsSound /\ InfosSound /\ Retained /\ Untouched /\ ProcessSound /\ ListsSound
      /\ CountersSound /\ RepeatsSound /\ NoLeak
  BY DEF RootInv
<1>2. /\ pc # "down" /\ (pc = "idle" \/ crashes < MaxCrashes)
      /\ repeats' = [s \in Stores |-> IF SavedFirst(s) THEN repeats[s] + 1 ELSE repeats[s]]
      /\ crashes' = IF pc = "idle" THEN crashes ELSE crashes + 1
      /\ pc' = "down"
      /\ tree' = <<>> /\ initial' = <<>> /\ last' = 0 /\ pruneHeights' = <<>> /\ todo' = {}
      /\ UNCHANGED <<versions, latest, commitInfos, diskHeights, app, rollbacks, behind>>
  BY DEF Stop, disk
<1>3. DOMAIN tree' = {} /\ DOMAIN initial' = {} /\ ToSet(<<>>) = {} /\ Bound' = Bound /\ Apps' = Apps
  BY <1>2 DEF ToSet, Bound, Apps
<1>4. /\ latest \in Nat /\ MaxHeight \in Nat /\ crashes \in Nat /\ MaxCrashes \in Nat
      /\ \A s \in Stores : repeats[s] \in Nat /\ First(s) \in Nat \ {0} /\ repeats[s] <= crashes
  BY <1>1, LimitFacts, MountedFacts DEF InfosSound, RepeatsSound, CountersSound
<1>5. ASSUME NEW s \in Stores
      PROVE  \/ repeats'[s] = repeats[s] /\ ~SavedFirst(s)
             \/ /\ repeats'[s] = repeats[s] + 1 /\ First(s) = latest + 1 /\ pc # "idle"
                /\ latest + 1 + repeats[s] \in Saved(s)
  <2>1. CASE SavedFirst(s)
    BY <1>2, <2>1, FirstCommit DEF Committing
  <2>2. CASE ~SavedFirst(s)
    BY <1>2, <2>2
  <2>3. QED
    BY <2>1, <2>2
<1>6. VersionsSound'
  <2>1. ASSUME NEW s \in Stores, NEW v \in Saved(s)
        PROVE  /\ v \in Nat /\ First(s) <= v /\ v <= MaxHeight + repeats'[s]
               /\ v <= latest + repeats'[s] \/ (v = latest + 1 + repeats'[s] /\ behind)
               /\ Good(s, repeats'[s], Apps, v, versions[s][v])
    <3>1. /\ v \in Nat /\ First(s) <= v /\ v <= MaxHeight + repeats[s]
          /\ v <= latest + repeats[s] \/ (v = latest + 1 + repeats[s] /\ behind)
          /\ Good(s, repeats[s], Apps, v, versions[s][v])
      BY <1>1 DEF VersionsSound
    <3>2. CASE repeats'[s] = repeats[s]
      BY <3>1, <3>2
    <3>3. CASE repeats'[s] = repeats[s] + 1 /\ First(s) = latest + 1
      <4>1. v <= First(s) + repeats[s]
        BY <1>4, <3>1, <3>3
      <4>2. Good(s, repeats[s] + 1, Apps, v, versions[s][v])
        BY <1>4, <3>1, <4>1, GoodRepeat
      <4>3. QED
        BY <1>4, <3>1, <3>3, <4>2
    <3>4. QED
      BY <1>5, <3>2, <3>3
  <2>2. QED
    BY <1>1, <1>2, <1>3, <2>1 DEF VersionsSound, Saved
<1>7. InfosSound'
  <2>1. ASSUME NEW h \in DOMAIN commitInfos
        PROVE  commitInfos[h] = [s \in Mounted(h - 1) |-> h + repeats'[s]]
    <3>1. /\ h \in Nat \ {0} /\ commitInfos[h] = [s \in Mounted(h - 1) |-> h + repeats[s]]
          /\ h <= latest \/ (Added = {} /\ latest > 0)
      BY <1>1 DEF InfosSound
    <3>2. ASSUME NEW s \in Mounted(h - 1) PROVE repeats'[s] = repeats[s]
      <4>1. s \in Stores /\ First(s) <= h
        BY <3>1, MountedFacts
      <4>2. First(s) # latest + 1
        <5>1. CASE h <= latest
          BY <1>4, <3>1, <4>1, <5>1
        <5>2. CASE Added = {} /\ latest > 0
          BY <1>4, <5>2 DEF First
        <5>3. QED
          BY <3>1, <5>1, <5>2
      <4>3. QED
        BY <1>5, <4>1, <4>2
    <3>3. QED
      BY <3>1, <3>2
  <2>2. QED
    BY <1>1, <1>2, <2>1 DEF InfosSound
<1>8. Retained'
  <2>1. ASSUME NEW s \in Stores, NEW v \in First(s) .. (latest + repeats'[s]),
               v > Bound \/ ~Prunable(v)
        PROVE  v \in Saved(s)
    <3>1. CASE v \in First(s) .. (latest + repeats[s])
      BY <1>1, <2>1, <3>1 DEF Retained
    <3>2. CASE v \notin First(s) .. (latest + repeats[s])
      BY <1>4, <1>5, <2>1, <3>2
    <3>3. QED
      BY <3>1, <3>2
  <2>2. QED
    BY <1>2, <1>3, <2>1 DEF Retained, Saved
<1>9. Untouched'
  <2>1. ASSUME NEW s \in Stores, First(s) = latest + 1, latest + 1 + repeats'[s] \in Saved(s)
        PROVE  FALSE
    <3>1. CASE repeats'[s] = repeats[s] /\ ~SavedFirst(s)
      <4>1. pc \in Committing /\ s \in DOMAIN tree /\ (pc = "commit" => s \notin todo)
        BY <1>1, <2>1, <3>1 DEF Untouched
      <4>2. getCommitID(latest, s) = 0
        BY <1>1, <1>4, <2>1, CommitIDs
      <4>3. QED
        BY <3>1, <4>1, <4>2 DEF SavedFirst, Committing
    <3>2. CASE repeats'[s] = repeats[s] + 1
      BY <1>1, <1>4, <2>1, <3>2 DEF VersionsSound
    <3>3. QED
      BY <1>5, <3>1, <3>2
  <2>2. QED
    BY <1>2, <2>1 DEF Untouched, Saved
<1>10. ProcessSound'
  BY <1>2, <1>3 DEF ProcessSound, Committing
<1>11. TreesSound'
  BY <1>2 DEF TreesSound
<1>12. ListsSound'
  <2>1. Listed(<<>>, Bound)
    BY <1>3 DEF Listed
  <2>2. QED
    BY <1>1, <1>2, <1>3, <2>1 DEF ListsSound
<1>13. CountersSound'
  <2>1. crashes' \in 0 .. MaxCrashes
    BY <1>1, <1>2, LimitFacts DEF CountersSound
  <2>2. QED
    BY <1>1, <1>2, <1>3, <2>1 DEF CountersSound
<1>14. RepeatsSound'
  <2>1. ASSUME NEW s \in Stores
        PROVE  repeats'[s] \in 0 .. crashes' /\ (First(s) > latest + 1 => repeats'[s] = 0)
    BY <1>1, <1>2, <1>4, <1>5 DEF RepeatsSound
  <2>2. repeats' = [s \in Stores |-> repeats'[s]]
    BY <1>2
  <2>3. QED
    BY <1>2, <2>1, <2>2 DEF RepeatsSound
<1>15. NoLeak'
  BY <1>1, <1>2 DEF NoLeak
<1>16. QED
  BY <1>6, <1>7, <1>8, <1>9, <1>10, <1>11, <1>12, <1>13, <1>14, <1>15 DEF RootInv

\* A rollback takes the latest height back to one that can be loaded.
LEMMA RollbackToVersionStep ==
    ASSUME Limits, RootInv, RollbackToVersion
    PROVE  RootInv'
<1>1. VersionsSound /\ InfosSound /\ Retained /\ Untouched /\ ProcessSound /\ ListsSound
      /\ CountersSound /\ RepeatsSound /\ NoLeak
  BY DEF RootInv
<1>2. /\ rollbacks < MaxRollbacks /\ rollbacks' = rollbacks + 1 /\ pc = "down" /\ pc' = "down"
      /\ ~behind /\ latest > 1 /\ latest' = latest - 1 /\ behind' = TRUE /\ app' \in {app, 1}
      /\ UNCHANGED <<versions, commitInfos, diskHeights, tree, initial, last, pruneHeights, todo,
                     crashes, repeats>>
  BY DEF RollbackToVersion, memory
<1>3. /\ latest \in Nat /\ MaxHeight \in Nat /\ KeepRecent \in Nat /\ MaxRollbacks \in Nat
      /\ rollbacks \in Nat /\ latest <= MaxHeight
  BY <1>1, LimitFacts DEF InfosSound, CountersSound
<1>4. /\ Added = {} /\ Apps' = {0, 1} /\ Apps \subseteq {0, 1}
      /\ \A s \in Stores : First(s) = 1 /\ repeats[s] \in Nat
  BY <1>1, <1>2, <1>3, LimitFacts DEF Limits, Apps, First, RepeatsSound, CountersSound
<1>5. Bound' = Bound
  BY <1>2, <1>3 DEF Bound
<1>6. VersionsSound'
  <2>1. ASSUME NEW s \in Stores, NEW v \in Saved(s)
        PROVE  /\ v \in Nat /\ First(s) <= v /\ v <= MaxHeight + repeats[s]
               /\ v <= (latest - 1) + repeats[s] \/ v = (latest - 1) + 1 + repeats[s]
               /\ Good(s, repeats[s], {0, 1}, v, versions[s][v])
    <3>1. /\ v \in Nat /\ First(s) <= v /\ v <= MaxHeight + repeats[s] /\ v <= latest + repeats[s]
          /\ Good(s, repeats[s], Apps, v, versions[s][v])
      BY <1>1, <1>2 DEF VersionsSound
    <3>2. Good(s, repeats[s], {0, 1}, v, versions[s][v])
      BY <1>4, <3>1, GoodMore
    <3>3. QED
      BY <1>3, <1>4, <3>1, <3>2
  <2>2. QED
    BY <1>1, <1>2, <1>4, <2>1 DEF VersionsSound, Saved
<1>7. InfosSound' /\ Retained' /\ RepeatsSound'
  <2>1. InfosSound'
    BY <1>1, <1>2, <1>3, <1>4 DEF InfosSound
  <2>2. Retained'
    BY <1>1, <1>2, <1>3, <1>4, <1>5 DEF Retained, Saved
  <2>3. RepeatsSound'
    BY <1>1, <1>2, <1>3, <1>4 DEF RepeatsSound
  <2>4. QED
    BY <2>1, <2>2, <2>3
<1>8. Untouched'
  BY <1>2, <1>3, <1>4 DEF Untouched
<1>9. ProcessSound' /\ TreesSound'
  BY <1>1, <1>2 DEF ProcessSound, TreesSound, Committing
<1>10. ListsSound'
  BY <1>1, <1>2, <1>5 DEF ListsSound
<1>11. CountersSound'
  <2>1. app' \in Apps' /\ rollbacks' \in 0 .. MaxRollbacks
    BY <1>1, <1>2, <1>3, <1>4 DEF CountersSound
  <2>2. behind' \in BOOLEAN
    BY <1>2
  <2>3. QED
    BY <1>1, <1>2, <1>3, <2>1, <2>2 DEF CountersSound
<1>12. NoLeak'
  <2>1. SUFFICES ASSUME Interval > 0, ~Strict PROVE Remembered(versions, latest - 1, diskHeights)
    BY <1>2 DEF NoLeak
  <2>2. Remembered(versions, latest, diskHeights)
    BY <1>1, <2>1 DEF NoLeak
  <2>3. \A s \in Stores : \A h \in DOMAIN versions[s] : h \in Int
    BY <1>1 DEF VersionsSound, Saved
  <2>4. QED
    BY <1>3, <2>2, <2>3 DEF Remembered
<1>13. QED
  BY <1>6, <1>7, <1>8, <1>9, <1>10, <1>11, <1>12 DEF RootInv

\* Every step preserves the invariant.
LEMMA RootInvStep ==
    ASSUME Limits, RootInv, [Next]_vars
    PROVE  RootInv'
<1>1. CASE UNCHANGED vars
  <2>1. UNCHANGED <<versions, latest, commitInfos, diskHeights, pc, tree, initial, last,
                    pruneHeights, todo, app, crashes, rollbacks, behind, repeats>>
    BY <1>1 DEF vars, disk, memory
  <2>2. (VersionsSound /\ InfosSound /\ Retained /\ Untouched /\ ProcessSound)'
    BY <2>1 DEF RootInv, VersionsSound, InfosSound, Retained, Untouched, ProcessSound, Saved, Bound, Apps
  <2>3. TreesSound'
    BY <2>1 DEF RootInv, TreesSound, Ready, Done, NextVersion, Saved, Apps
  <2>4. (ListsSound /\ CountersSound /\ RepeatsSound /\ NoLeak)'
    BY <2>1 DEF RootInv, ListsSound, CountersSound, RepeatsSound, NoLeak, Bound, Saved, Apps
  <2>5. QED
    BY <2>2, <2>3, <2>4 DEF RootInv
<1>2. CASE Next
  BY <1>2, loadVersionStep, CommitStep, NotePruneHeightStep, flushMetadataStep, commitStoresStep,
     pruneStoresStep, StopStep, RollbackToVersionStep DEF Next
<1>3. QED
  BY <1>1, <1>2

-----------------------------------------------------------------------------
(* Theorems *)

\* The invariant gives the properties of a crash.
LEMMA RootInvCommits ==
    ASSUME Limits, RootInv
    PROVE  Loadable /\ AppliedOnce /\ (rollbacks = 0 => ReplayAgrees)
<1>1. VersionsSound /\ InfosSound /\ Retained /\ ProcessSound /\ CountersSound /\ RepeatsSound
      /\ latest \in Nat
  BY LimitFacts DEF RootInv, InfosSound
<1>2. Loadable
  <2>1. SUFFICES ASSUME NEW s \in Mounted(latest) PROVE Exists(latest, s)
    BY DEF Loadable
  <2>2. s \in Stores /\ First(s) \in Nat
    BY <1>1, MountedFacts
  <2>3. QED
    BY <1>1, <2>2, CommitIDs DEF Exists
<1>3. AppliedOnce
  <2>1. SUFFICES ASSUME latest > 0, NEW s \in DOMAIN commitInfos[latest]
                 PROVE  LET v == commitInfos[latest][s]
                        IN  v = latest + repeats[s] /\ Applied(s, v, versions[s][v])
    BY DEF AppliedOnce
  <2>2. latest \in 1 .. latest /\ latest - 1 \in Nat
    BY <1>1, <2>1
  <2>3. commitInfos[latest] = [r \in Mounted(latest - 1) |-> latest + repeats[r]]
    BY <1>1, <2>2 DEF InfosSound
  <2>4. s \in Stores /\ First(s) <= latest
    BY <1>1, <2>1, <2>2, <2>3, MountedFacts
  <2>5. latest + repeats[s] \in Saved(s)
    BY <1>1, <2>4, CommitIDs
  <2>6. Good(s, repeats[s], Apps, latest + repeats[s], versions[s][latest + repeats[s]])
    BY <1>1, <2>4, <2>5 DEF VersionsSound
  <2>7. Applied(s, latest + repeats[s], versions[s][latest + repeats[s]])
    BY <2>6, GoodApplied
  <2>8. commitInfos[latest][s] = latest + repeats[s]
    BY <2>1, <2>3
  <2>9. QED
    BY <2>7, <2>8
<1>4. rollbacks = 0 => ReplayAgrees
  BY <1>1 DEF ProcessSound, ReplayAgrees
<1>5. QED
  BY <1>2, <1>3, <1>4

\* The invariant gives the properties of pruning.
LEMMA RootInvPruning ==
    ASSUME Limits, RootInv
    PROVE  RetainedInAll /\ (~Strict => NothingLeaks)
<1>1. VersionsSound /\ InfosSound /\ Retained /\ ProcessSound /\ ListsSound /\ CountersSound
      /\ RepeatsSound /\ NoLeak /\ latest \in Nat /\ KeepRecent \in Nat
  BY LimitFacts DEF RootInv, InfosSound
<1>2. RetainedInAll
  <2>1. SUFFICES ASSUME NEW h \in 1 .. latest, Kept(h), NEW s \in DOMAIN commitInfos[h]
                 PROVE  Applied(s, h, CacheMultiStoreWithVersion(h)[s])
    BY DEF RetainedInAll
  <2>2. commitInfos[h] = [r \in Mounted(h - 1) |-> h + repeats[r]] /\ h - 1 \in Nat
    BY <1>1, <2>1 DEF InfosSound
  <2>3. s \in Stores /\ First(s) <= h /\ First(s) \in Nat /\ repeats[s] \in Nat
    BY <1>1, <2>1, <2>2, MountedFacts, LimitFacts DEF RepeatsSound, CountersSound
  <2>4. h > Bound \/ ~Prunable(h)
    BY <1>1, <2>1, LimitFacts DEF Kept, Bound, Prunable
  <2>5. h \in Saved(s)
    BY <1>1, <2>1, <2>3, <2>4 DEF Retained
  <2>6. Good(s, repeats[s], Apps, h, versions[s][h])
    BY <1>1, <2>3, <2>5 DEF VersionsSound
  <2>7. CacheMultiStoreWithVersion(h)[s] = versions[s][h]
    BY <2>3, <2>5 DEF CacheMultiStoreWithVersion
  <2>8. QED
    BY <2>6, <2>7, GoodApplied
<1>3. ~Strict => NothingLeaks
  <2>1. SUFFICES ASSUME ~Strict, Interval > 0, NEW s \in Stores, NEW h \in Saved(s),
                        h < latest - KeepRecent, Prunable(h)
                 PROVE  h \in ToSet(ToPrune)
    BY DEF NothingLeaks, Prunable
  <2>2. h \in ToSet(diskHeights)
    BY <1>1, <2>1 DEF NoLeak, Remembered, Saved
  <2>3. CASE pc \in {"down", "idle", "commit", "panic"}
    BY <1>1, <2>2, <2>3 DEF ToPrune, ListsSound
  <2>4. CASE pc \in {"prune", "flush"}
    <3>1. h \in Int
      BY <1>1, <2>1 DEF VersionsSound
    <3>2. h < latest + 1 - KeepRecent
      BY <1>1, <2>1, <3>1
    <3>3. Remembered(versions, latest + 1, pruneHeights)
      BY <1>1, <2>1, <2>4 DEF NoLeak
    <3>4. h \in ToSet(pruneHeights)
      BY <1>1, <2>1, <3>1, <3>2, <3>3 DEF Remembered, Saved
    <3>5. QED
      BY <2>4, <3>4 DEF ToPrune
  <2>5. QED
    BY <1>1, <2>3, <2>4 DEF ProcessSound, Committing
<1>4. QED
  BY <1>2, <1>3

\* The invariant gives the type.
LEMMA RootInvTypes ==
    ASSUME Limits, RootInv
    PROVE  TypeOK
<1>1. VersionsSound /\ InfosSound /\ ProcessSound /\ ListsSound /\ CountersSound /\ RepeatsSound
  BY DEF RootInv
<1>2. /\ latest \in Nat /\ latest <= MaxHeight /\ KeepRecent \in Nat /\ MaxHeight \in Nat
      /\ MaxCrashes \in Nat /\ Apps \subseteq {0, 1}
  BY <1>1, LimitFacts DEF InfosSound
<1>3. ASSUME NEW s \in Stores, NEW v \in Saved(s)
      PROVE  v \in 1 .. (MaxHeight + MaxCrashes) /\ versions[s][v] \in Seq(Heights \X {0, 1})
  <2>1. /\ v \in Nat /\ First(s) <= v /\ v <= MaxHeight + repeats[s]
        /\ versions[s][v] \in Seq(Heights \X Apps)
    BY <1>1 DEF VersionsSound, Good
  <2>2. v \in 1 .. (MaxHeight + MaxCrashes)
    BY <1>1, <1>2, <2>1, MountedFacts DEF RepeatsSound, CountersSound
  <2>3. versions[s][v] \in Seq(Heights \X {0, 1})
    <3>1. Heights \X Apps \subseteq Heights \X {0, 1}
      BY <1>2
    <3>2. \A c, T, U : c \in Seq(T) /\ T \subseteq U => c \in Seq(U)
      OBVIOUS
    <3>3. QED
      BY <2>1, <3>1, <3>2
  <2>4. QED
    BY <2>2, <2>3
<1>4. \A v \in DOMAIN commitInfos : DOMAIN commitInfos[v] \subseteq Stores
  <2>1. ASSUME NEW v \in DOMAIN commitInfos PROVE DOMAIN commitInfos[v] \subseteq Stores
    <3>1. v - 1 \in Nat /\ commitInfos[v] = [s \in Mounted(v - 1) |-> v + repeats[s]]
      BY <1>1 DEF InfosSound
    <3>2. QED
      BY <3>1, MountedFacts
  <2>2. QED
    BY <2>1
<1>5. ToSet(diskHeights) \cup ToSet(pruneHeights) \subseteq Heights
  <2>1. Bound \in Int /\ Bound <= MaxHeight
    BY <1>1, <1>2, BoundFacts DEF CountersSound
  <2>2. QED
    BY <1>1, <1>2, <2>1 DEF ListsSound, Listed, Heights
<1>6. /\ pc \in {"down", "idle", "commit", "prune", "flush", "panic"}
      /\ DOMAIN initial = DOMAIN tree /\ todo \subseteq DOMAIN tree
  BY <1>1 DEF ProcessSound, Committing
<1>7. DOMAIN tree \subseteq Stores
  <2>1. CASE pc = "down"
    BY <1>1, <2>1 DEF ProcessSound
  <2>2. CASE pc # "down"
    <3>1. \/ DOMAIN tree = Mounted(latest)
          \/ latest > 0 /\ DOMAIN tree = Mounted(latest - 1)
      BY <1>1, <2>2 DEF ProcessSound, Committing
    <3>2. QED
      BY <1>2, <3>1, MountedFacts
  <2>3. QED
    BY <2>1, <2>2
<1>8. last \in 0 .. MaxHeight
  BY <1>1, <1>2 DEF ProcessSound, Committing
<1>9. app \in {0, 1} /\ behind \in BOOLEAN /\ crashes \in 0 .. MaxCrashes
      /\ rollbacks \in 0 .. MaxRollbacks /\ latest \in 0 .. MaxHeight
  BY <1>1, <1>2 DEF CountersSound, InfosSound
<1>10. repeats \in [Stores -> 0 .. MaxCrashes]
  <2>1. \A s \in Stores : repeats[s] \in 0 .. MaxCrashes
    BY <1>1, <1>2 DEF RepeatsSound, CountersSound
  <2>2. QED
    BY <1>1, <2>1 DEF RepeatsSound
<1>11. QED
  BY <1>3, <1>4, <1>5, <1>6, <1>7, <1>8, <1>9, <1>10 DEF TypeOK

\* The inductive invariant of the root multi-store: what each crash point leaves on disk,
\* and what the process knows of it.
THEOREM RootInvHolds ==
    ASSUME Limits
    PROVE  Spec => []RootInv
<1>1. Init => RootInv
  BY RootInvInit
<1>2. RootInv /\ [Next]_vars => RootInv'
  BY RootInvStep
<1>3. QED
  BY <1>1, <1>2, PTL DEF Spec

\* For pruning options that keep a recent height or prune nothing: whatever is
\* saved, pruned, interrupted and replayed, the disk can be loaded, and holds the
\* outcome of the committed blocks in order, each applied once but the first block
\* of a store, which every crash inside the store's first commit repeats.
THEOREM CommitsSurvive ==
    ASSUME Limits
    PROVE  Spec => [](TypeOK /\ Loadable /\ AppliedOnce)
<1>1. RootInv => TypeOK /\ Loadable /\ AppliedOnce
  BY RootInvCommits, RootInvTypes
<1>2. QED
  BY <1>1, RootInvHolds, PTL

\* Until somebody rolls back, a replayed block meets no version with other
\* content, not even one that an interrupted first commit left.
THEOREM ReplayNeverPanics ==
    ASSUME Limits
    PROVE  Spec => [](rollbacks = 0 => ReplayAgrees)
<1>1. RootInv => (rollbacks = 0 => ReplayAgrees)
  BY RootInvCommits
<1>2. QED
  BY <1>1, RootInvHolds, PTL

\* The heights the pruning options keep can be queried, in every store; one whose
\* first commit was interrupted answers with as many heights earlier.
THEOREM KeptHeightsAnswer ==
    ASSUME Limits
    PROVE  Spec => []RetainedInAll
<1>1. RootInv => RetainedInAll
  BY RootInvPruning
<1>2. QED
  BY <1>1, RootInvHolds, PTL

\* Where deleting takes a missing version, every other height is pruned or listed.
THEOREM NoHeightLeaks ==
    ASSUME Limits, ~Strict
    PROVE  Spec => []NothingLeaks
<1>1. RootInv => NothingLeaks
  BY RootInvPruning
<1>2. QED
  BY <1>1, RootInvHolds, PTL
-----------------------------------------------------------------------------
(* Snapshots *)

\* Snapshots counts as the theorems on finite sets do.
LEMMA SnapshotsCounts == \A T : Sn!Cardinality(T) = Cardinality(T)
  BY DEF Sn!Cardinality, Cardinality

Busy == {"save", "delete", "remove"}
Pruning == {"delete", "remove"}

\* Manager.operation is a lock: at most one goroutine is between begin and end.
OneOperation ==
    /\ \A h \in Sn!Heights : /\ pc[h] = "save" => op = "snapshot"
                             /\ pc[h] \in Pruning => op = "prune"
    /\ \A g, h \in Sn!Heights : pc[g] \in Busy /\ pc[h] \in Busy => g = h

\* What Create checked when it began holds until Save is over.
SavingNewest == \A h \in Sn!Heights : pc[h] = "save" => \A g \in Sn!Listed : g < h

\* What Prune decided when it began holds for each height it has not deleted yet,
\* and the chunks it removes next belong to nothing that is listed.
PruningOldest ==
    \A h \in Sn!Heights :
        /\ pc[h] \in Pruning => \A g \in todo : Cardinality(Sn!Newer(g)) >= KeepRecent
        /\ pc[h] = "remove" => todo # {} /\ Sn!Max(todo) \notin Sn!Listed

\* The inductive invariant.
SnapshotsInv ==
    /\ Sn!TypeOK
    /\ OneOperation /\ SavingNewest /\ PruningOldest
    /\ Sn!ListedIsComplete

-----------------------------------------------------------------------------
(* Operators *)

\* A nonempty set of heights has a greatest element, and Max is that one.
LEMMA MaxHeights ==
    ASSUME NEW S \in SUBSET Sn!Heights, S # {}, MaxHeight \in Nat
    PROVE  Sn!Max(S) \in S /\ \A y \in S : y <= Sn!Max(S)
<1> DEFINE Above == {n \in Nat : \A y \in S : y <= n}
<1>1. S \subseteq 1..MaxHeight
  BY DEF Sn!Heights
<1>2. MaxHeight \in Above
  BY <1>1
<1>3. PICK m \in Above : \A n \in Above : <<n, m>> \notin OpToRel(<, Nat)
  <2>1. Above # {} /\ Above \subseteq Nat
    BY <1>2
  <2>2. QED
    BY <2>1, NatLessThanWellFounded, WFMin
<1>4. m \in S
  <2>1. SUFFICES ASSUME m \notin S PROVE FALSE
    OBVIOUS
  <2>2. \A y \in S : y <= m /\ y # m /\ y \in Nat /\ y >= 1 /\ m \in Nat
    BY <1>1, <2>1
  <2>3. m - 1 \in Nat
    BY <2>2
  <2>4. m - 1 \in Above
    BY <2>2, <2>3
  <2>5. <<m - 1, m>> \in OpToRel(<, Nat)
    BY <2>3 DEF OpToRel
  <2>6. QED
    BY <1>3, <2>4, <2>5
<1>5. m \in S /\ \A y \in S : m >= y
  BY <1>1, <1>4
<1>6. Sn!Max(S) \in S /\ \A y \in S : Sn!Max(S) >= y
  BY <1>5 DEF Sn!Max
<1>7. QED
  BY <1>1, <1>6

\* The greater and the smaller of two integers.
LEMMA MaxOfTwo ==
    ASSUME NEW x \in Int, NEW y \in Int
    PROVE  Sn!Max({x, y}) \in {x, y} /\ Sn!Max({x, y}) >= x /\ Sn!Max({x, y}) >= y
<1>1. \E m \in {x, y} : \A z \in {x, y} : m >= z
  OBVIOUS
<1>2. QED
  BY <1>1 DEF Sn!Max

\* The retention height is one of those it is computed from.
LEMMA MinOfTwo ==
    ASSUME NEW x \in Int, NEW y \in Int
    PROVE  Sn!minNonZero(x, y) \in {x, y}
<1>1. \E m \in {x, y} : \A z \in {x, y} : z >= m
  OBVIOUS
<1>2. Sn!Min({x, y}) \in {x, y}
  BY <1>1 DEF Sn!Min
<1>3. QED
  BY <1>2 DEF Sn!minNonZero

\* The height below which blocks may go is one of the chain.
LEMMA RetentionInRange ==
    ASSUME Sn!SnapshotsConstants, NEW h \in Nat
    PROVE  Sn!GetBlockRetentionHeight(h) \in 0..h
<1> DEFINE evidence == IF EvidenceAge > 0 THEN h - EvidenceAge ELSE 0
           ofVersions == IF KeepEvery > 0 THEN Sn!minNonZero(evidence, h - (h % KeepEvery))
                            ELSE evidence
           kept == Sn!minNonZero(ofVersions, h - Interval * KeepRecent)
           all == Sn!minNonZero(kept, h - MinRetain)
           Low(x) == x \in Int /\ x <= h
<1>1. /\ Interval \in Nat /\ KeepRecent \in Nat /\ MinRetain \in Nat /\ EvidenceAge \in Nat
      /\ KeepEvery \in Nat
  BY DEF Sn!SnapshotsConstants
<1>2. Low(evidence)
  BY <1>1
<1>3. KeepEvery > 0 => Low(h - (h % KeepEvery))
  <2>1. ASSUME KeepEvery > 0
        PROVE  h % KeepEvery \in Nat
    BY <1>1, <2>1
  <2>2. \A r \in Nat : Low(h - r)
    OBVIOUS
  <2>3. QED
    BY <2>1, <2>2
<1>4. Low(ofVersions)
  BY <1>2, <1>3, MinOfTwo
<1>5. Low(h - Interval * KeepRecent)
  <2>1. Interval * KeepRecent \in Nat
    BY <1>1
  <2>2. \A r \in Nat : Low(h - r)
    OBVIOUS
  <2>3. QED
    BY <2>1, <2>2
<1> HIDE DEF ofVersions
<1>6. Low(kept)
  BY <1>4, <1>5, MinOfTwo
<1>7. Low(h - MinRetain)
  BY <1>1
<1> HIDE DEF kept
<1>8. Low(all)
  BY <1>6, <1>7, MinOfTwo
<1> HIDE DEF all
<1>9. Sn!Max({0, all}) \in 0..h
  <2>1. 0 \in Int /\ all \in Int
    BY <1>8
  <2>2. Sn!Max({0, all}) \in {0, all} /\ Sn!Max({0, all}) >= 0
    BY <2>1, MaxOfTwo, Zenon
  <2>3. QED
    BY <1>8, <2>2
<1>10. Sn!GetBlockRetentionHeight(h) =
          IF MinRetain = 0 \/ (KeepEvery > 0 /\ h <= KeepEvery) THEN 0 ELSE Sn!Max({0, all})
  BY Zenon DEF Sn!GetBlockRetentionHeight, ofVersions, kept, all
<1>11. QED
  BY <1>9, <1>10

-----------------------------------------------------------------------------
(* The invariant *)

\* What is listed depends on the metadata alone.
LEMMA ListedFacts ==
    ASSUME Sn!TypeOK, Sn!SnapshotsConstants
    PROVE  /\ Sn!Listed \subseteq Sn!Heights
           /\ \A g \in Int : Sn!Newer(g) \subseteq Sn!Listed /\ IsFiniteSet(Sn!Newer(g))
           /\ IsFiniteSet(Sn!Heights)
<1>1. IsFiniteSet(Sn!Heights)
  <2>1. IsFiniteSet(1..MaxHeight)
    BY FS_Interval DEF Sn!SnapshotsConstants
  <2>2. QED
    BY <2>1, FS_Subset DEF Sn!Heights
<1>2. Sn!Listed \subseteq Sn!Heights
  BY DEF Sn!Listed, Sn!TypeOK
<1>3. QED
  BY <1>1, <1>2, FS_Subset DEF Sn!Newer

\* The invariant holds before the first block.
LEMMA SnapshotsInvInit ==
    ASSUME Sn!SnapshotsConstants, Sn!Init
    PROVE  SnapshotsInv
<1>1. Sn!TypeOK
  BY DEF Sn!SnapshotsConstants, Sn!Init, Sn!TypeOK
<1>2. QED
  BY <1>1 DEF Sn!Init, SnapshotsInv, OneOperation, SavingNewest, PruningOldest, Sn!ListedIsComplete,
              Busy, Pruning

\* A step of the program counter of one goroutine that takes no lock.
LEMMA PcKeepsLock ==
    ASSUME Sn!TypeOK, OneOperation, NEW h \in Sn!Heights, NEW v,
           pc' = [pc EXCEPT ![h] = v], v \notin Busy,
           op' = op \/ (op' = "none" /\ pc[h] \in Busy)
    PROVE  OneOperation'
  BY DEF OneOperation, Sn!TypeOK, Busy, Pruning

\* One that takes it, or goes on with it.
LEMMA PcTakesLock ==
    ASSUME Sn!TypeOK, OneOperation, NEW h \in Sn!Heights, NEW v,
           pc' = [pc EXCEPT ![h] = v], op = "none" \/ pc[h] \in Busy,
           \/ v = "save" /\ op' = "snapshot"
           \/ v \in Pruning /\ op' = "prune"
    PROVE  OneOperation'
  BY DEF OneOperation, Sn!TypeOK, Busy, Pruning

\* Commit starts a goroutine, and lets blocks go.
LEMMA SnapshotCommitStep ==
    ASSUME Sn!SnapshotsConstants, SnapshotsInv, Sn!Commit
    PROVE  SnapshotsInv'
<1> USE DEF SnapshotsInv
<1>1. /\ commitHeight' \in 1..MaxHeight /\ commitHeight' = commitHeight + 1
      /\ UNCHANGED <<op, open, todo, pruned, db, files, dirs>>
      /\ \A h \in Sn!Heights : pc'[h] = pc[h] \/ pc'[h] = "create"
      /\ pc' \in [Sn!Heights -> {"create", "save", "prune", "delete", "remove", "done"}]
  BY DEF Sn!Commit, Sn!TypeOK, Sn!SnapshotsConstants
<1>2. base' \in 0..MaxHeight
  <2>1. Sn!GetBlockRetentionHeight(commitHeight') \in 0..commitHeight'
    BY <1>1, RetentionInRange
  <2>2. base \in 0..MaxHeight /\ MaxHeight \in Nat
    BY DEF Sn!TypeOK, Sn!SnapshotsConstants
  <2> DEFINE r == Sn!GetBlockRetentionHeight(commitHeight')
  <2> HIDE DEF r
  <2>3. base' = Sn!Max({base, r}) /\ r \in 0..commitHeight'
    BY <2>1 DEF Sn!Commit, r
  <2>4. base \in Int /\ r \in Int
    BY <1>1, <2>2, <2>3
  <2>5. base' \in {base, r}
    BY <2>3, <2>4, MaxOfTwo, Zenon
  <2>6. QED
    BY <1>1, <2>2, <2>3, <2>5
<1>3. Sn!TypeOK'
  BY <1>1, <1>2 DEF Sn!TypeOK, Sn!SnapshotsConstants
<1>4. OneOperation'
  BY <1>1 DEF OneOperation, Busy, Pruning
<1>5. Sn!Listed' = Sn!Listed /\ \A g : Sn!Newer(g)' = Sn!Newer(g)
  BY <1>1 DEF Sn!Listed, Sn!Newer
<1>6. SavingNewest' /\ PruningOldest'
  BY <1>1, <1>5 DEF SavingNewest, PruningOldest, Pruning
<1>7. Sn!ListedIsComplete'
  BY <1>1 DEF Sn!ListedIsComplete
<1>8. QED
  BY <1>3, <1>4, <1>6, <1>7

\* begin of Create.
LEMMA CreateStep ==
    ASSUME Sn!SnapshotsConstants, SnapshotsInv, NEW h \in Sn!Heights, Sn!Create(h)
    PROVE  SnapshotsInv'
<1> USE DEF SnapshotsInv
<1>1. UNCHANGED <<commitHeight, base, todo, pruned, db, files, dirs>> /\ pc[h] = "create"
  BY DEF Sn!Create
<1>2. \/ /\ op = "none" /\ (\A g \in Sn!Listed : g < h) /\ op' = "snapshot" /\ open' = 0
         /\ pc' = [pc EXCEPT ![h] = "save"]
      \/ pc' = [pc EXCEPT ![h] = "done"] /\ UNCHANGED <<op, open>>
  BY DEF Sn!Create
<1>3. Sn!TypeOK'
  BY <1>1, <1>2 DEF Sn!TypeOK, Sn!SnapshotsConstants
<1>4. OneOperation'
  <2>1. CASE op = "none" /\ op' = "snapshot" /\ pc' = [pc EXCEPT ![h] = "save"]
    BY <2>1, PcTakesLock
  <2>2. CASE pc' = [pc EXCEPT ![h] = "done"] /\ op' = op
    BY <2>2, PcKeepsLock DEF Busy
  <2>3. QED
    BY <1>2, <2>1, <2>2
<1>5. Sn!Listed' = Sn!Listed /\ \A g : Sn!Newer(g)' = Sn!Newer(g)
  BY <1>1 DEF Sn!Listed, Sn!Newer
<1>6. SavingNewest'
  BY <1>2, <1>5 DEF SavingNewest, Sn!TypeOK
<1>7. PruningOldest'
  BY <1>1, <1>2, <1>5 DEF PruningOldest, Pruning, Sn!TypeOK
<1>8. Sn!ListedIsComplete'
  BY <1>1 DEF Sn!ListedIsComplete
<1>9. QED
  BY <1>3, <1>4, <1>6, <1>7, <1>8

\* A chunk is opened or closed while Save runs.
LEMMA ChunkStep ==
    ASSUME Sn!SnapshotsConstants, SnapshotsInv, NEW h \in Sn!Heights, Sn!OpenChunk(h) \/ Sn!CloseChunk(h)
    PROVE  SnapshotsInv'
<1> USE DEF SnapshotsInv
<1>1. UNCHANGED <<commitHeight, base, op, pc, todo, pruned, db>>
  BY DEF Sn!OpenChunk, Sn!CloseChunk
<1>2. Sn!TypeOK'
  <2>1. CASE Sn!OpenChunk(h)
    BY <2>1 DEF Sn!OpenChunk, Sn!TypeOK, Sn!SnapshotsConstants, Sn!Parts
  <2>2. CASE Sn!CloseChunk(h)
    <3>1. open - 1 \in 0..Chunks
      BY <2>2 DEF Sn!CloseChunk, Sn!Closed, Sn!TypeOK, Sn!SnapshotsConstants
    <3>2. QED
      BY <2>2, <3>1 DEF Sn!CloseChunk, Sn!TypeOK, Sn!Parts
  <2>3. QED
    BY <2>1, <2>2
<1>3. OneOperation'
  BY <1>1 DEF OneOperation
<1>4. Sn!Listed' = Sn!Listed /\ \A g : Sn!Newer(g)' = Sn!Newer(g)
  BY <1>1 DEF Sn!Listed, Sn!Newer
<1>5. SavingNewest' /\ PruningOldest'
  BY <1>1, <1>4 DEF SavingNewest, PruningOldest
<1>6. Sn!ListedIsComplete'
  <2>1. ASSUME NEW f \in files, f[3] = "whole"
        PROVE  f \in files'
    BY <2>1 DEF Sn!OpenChunk, Sn!CloseChunk
  <2>2. QED
    BY <1>1, <2>1 DEF Sn!ListedIsComplete
<1>7. QED
  BY <1>2, <1>3, <1>5, <1>6

\* Save ends, well or with an error.
LEMMA SaveStep ==
    ASSUME Sn!SnapshotsConstants, SnapshotsInv, NEW h \in Sn!Heights, Sn!FinishSave(h) \/ Sn!FailSave(h)
    PROVE  SnapshotsInv'
<1> USE DEF SnapshotsInv
<1>1. /\ UNCHANGED <<commitHeight, base, open, todo, pruned, files, dirs>>
      /\ pc[h] = "save" /\ op' = "none"
      /\ \/ /\ db' = db \cup {[height |-> h, chunks |-> open]} /\ pc' = [pc EXCEPT ![h] = "prune"]
            /\ \A i \in 0..(open - 1) : <<h, i, "whole">> \in files
         \/ db' = db /\ pc' = [pc EXCEPT ![h] = "done"]
  <2>1. open = 0 => \A i \in 0..(open - 1) : <<h, i, "whole">> \in files
    OBVIOUS
  <2>2. QED
    BY <2>1 DEF Sn!FinishSave, Sn!FailSave, Sn!saveSnapshot, Sn!Closed
<1>2. Sn!TypeOK'
  BY <1>1 DEF Sn!TypeOK
<1>3. OneOperation'
  BY <1>1, PcKeepsLock DEF Busy
<1>4. \A g \in Sn!Heights : pc'[g] \notin Busy
  BY <1>1 DEF OneOperation, Sn!TypeOK, Busy
<1>5. SavingNewest' /\ PruningOldest'
  BY <1>4 DEF SavingNewest, PruningOldest, Busy, Pruning
<1>6. Sn!ListedIsComplete'
  <2>1. ASSUME NEW e \in db', NEW i \in 0..(e.chunks - 1)
        PROVE  <<e.height, i, "whole">> \in files'
    <3>1. CASE e \in db
      BY <1>1, <3>1 DEF Sn!ListedIsComplete
    <3>2. CASE e \notin db
      <4>1. e = [height |-> h, chunks |-> open]
        BY <1>1, <3>2
      <4>2. i \in 0..(open - 1) /\ e.height = h
        BY <4>1
      <4>3. QED
        BY <1>1, <3>2, <4>2
    <3>3. QED
      BY <3>1, <3>2
  <2>2. QED
    BY <2>1 DEF Sn!ListedIsComplete
<1>7. QED
  BY <1>2, <1>3, <1>5, <1>6

\* begin of Prune.
LEMMA PruneBeginStep ==
    ASSUME Sn!SnapshotsConstants, SnapshotsInv, NEW h \in Sn!Heights, Sn!PruneBegin(h)
    PROVE  SnapshotsInv'
<1> USE DEF SnapshotsInv
<1>1. UNCHANGED <<commitHeight, base, open, db, files, dirs>> /\ pc[h] = "prune"
  BY DEF Sn!PruneBegin
<1>2. \/ /\ op = "none" /\ op' = "prune" /\ pc' = [pc EXCEPT ![h] = "delete"] /\ pruned' = {}
         /\ todo' = {g \in Sn!Listed : Cardinality(Sn!Newer(g)) >= KeepRecent}
      \/ pc' = [pc EXCEPT ![h] = "done"] /\ UNCHANGED <<op, todo, pruned>>
  BY SnapshotsCounts DEF Sn!PruneBegin
<1>3. Sn!TypeOK'
  BY <1>1, <1>2, ListedFacts DEF Sn!TypeOK
<1>4. OneOperation'
  <2>1. CASE op = "none" /\ op' = "prune" /\ pc' = [pc EXCEPT ![h] = "delete"]
    BY <2>1, PcTakesLock DEF Pruning
  <2>2. CASE pc' = [pc EXCEPT ![h] = "done"] /\ op' = op
    BY <2>2, PcKeepsLock DEF Busy
  <2>3. QED
    BY <1>2, <2>1, <2>2
<1>5. Sn!Listed' = Sn!Listed /\ \A g : Sn!Newer(g)' = Sn!Newer(g)
  BY <1>1 DEF Sn!Listed, Sn!Newer
<1>6. SavingNewest'
  BY <1>2, <1>5 DEF SavingNewest, Sn!TypeOK
<1>7. PruningOldest'
  <2>1. CASE op = "none" /\ pc' = [pc EXCEPT ![h] = "delete"]
             /\ todo' = {g \in Sn!Listed : Cardinality(Sn!Newer(g)) >= KeepRecent}
    BY <1>5, <2>1 DEF PruningOldest, Pruning, Sn!TypeOK, OneOperation
  <2>2. CASE pc' = [pc EXCEPT ![h] = "done"] /\ todo' = todo
    BY <1>5, <2>2 DEF PruningOldest, Pruning, Sn!TypeOK
  <2>3. QED
    BY <1>2, <2>1, <2>2
<1>8. Sn!ListedIsComplete'
  BY <1>1 DEF Sn!ListedIsComplete
<1>9. QED
  BY <1>3, <1>4, <1>6, <1>7, <1>8

\* The newest height to go is deleted: what is newer than the rest of them still
\* includes everything that was newer than this one.
LEMMA DeleteMetadataStep ==
    ASSUME Sn!SnapshotsConstants, SnapshotsInv, NEW h \in Sn!Heights, Sn!DeleteMetadata(h)
    PROVE  SnapshotsInv'
<1> USE DEF SnapshotsInv
<1> DEFINE m == Sn!Max(todo)
<1>1. /\ UNCHANGED <<commitHeight, base, op, open, todo, pruned, files, dirs>>
      /\ pc[h] = "delete" /\ todo # {} /\ db' = {e \in db : e.height # m}
      /\ pc' = [pc EXCEPT ![h] = "remove"]
  BY DEF Sn!DeleteMetadata
<1>2. /\ m \in todo /\ \A g \in todo : g <= m
      /\ todo \subseteq Int /\ Sn!Heights \subseteq Int /\ todo \subseteq Sn!Heights
  BY <1>1, MaxHeights DEF Sn!TypeOK, Sn!SnapshotsConstants, Sn!Heights
<1> HIDE DEF m
<1>3. Sn!TypeOK'
  BY <1>1 DEF Sn!TypeOK
<1>4. op = "prune"
  BY <1>1 DEF OneOperation, Pruning
<1>5. OneOperation'
  BY <1>1, <1>4, PcTakesLock DEF Busy, Pruning
<1>6. Sn!Listed' = Sn!Listed \ {m} /\ Sn!Listed \subseteq Sn!Heights
  BY <1>1, ListedFacts DEF Sn!Listed
<1>7. SavingNewest'
  BY <1>1, <1>6 DEF SavingNewest, Sn!TypeOK
<1>8. \A g \in todo : Sn!Newer(m) \subseteq Sn!Newer(g)'
  <2>1. ASSUME NEW g \in todo, NEW k \in Sn!Newer(m)
        PROVE  k \in Sn!Newer(g)'
    <3>1. k \in Sn!Listed /\ k > m
      BY DEF Sn!Newer
    <3>2. k \in Int /\ m \in Int /\ g \in Int /\ g <= m
      BY <1>2, <1>6, <3>1
    <3>3. k # m /\ k > g
      BY <3>1, <3>2
    <3>4. QED
      BY <1>6, <3>1, <3>3 DEF Sn!Newer
  <2>2. QED
    BY <2>1
<1>9. \A g \in todo : Cardinality(Sn!Newer(g)') >= KeepRecent
  <2>1. Cardinality(Sn!Newer(m)) >= KeepRecent
    BY <1>1, <1>2 DEF PruningOldest, Pruning
  <2>2. ASSUME NEW g \in todo
        PROVE  Cardinality(Sn!Newer(g)') >= KeepRecent
    <3>1. IsFiniteSet(Sn!Heights) /\ Sn!Newer(g)' \subseteq Sn!Heights
      BY <1>6, ListedFacts DEF Sn!Newer
    <3>2. IsFiniteSet(Sn!Newer(g)')
      BY <3>1, FS_Subset
    <3>3. IsFiniteSet(Sn!Newer(m)) /\ Cardinality(Sn!Newer(m)) <= Cardinality(Sn!Newer(g)')
      BY <1>8, <3>2, FS_Subset
    <3>4. Cardinality(Sn!Newer(g)') \in Nat /\ Cardinality(Sn!Newer(m)) \in Nat /\ KeepRecent \in Nat
      BY <3>2, <3>3, FS_CardinalityType DEF Sn!SnapshotsConstants
    <3>5. QED
      BY <2>1, <3>3, <3>4
  <2>3. QED
    BY <2>2
<1>10. PruningOldest'
  BY <1>1, <1>2, <1>6, <1>9 DEF PruningOldest, Pruning, Sn!TypeOK, m
<1>11. Sn!ListedIsComplete'
  BY <1>1 DEF Sn!ListedIsComplete
<1>12. QED
  BY <1>3, <1>5, <1>7, <1>10, <1>11

\* Then its chunks, which nothing lists any more.
LEMMA DeleteChunksStep ==
    ASSUME Sn!SnapshotsConstants, SnapshotsInv, NEW h \in Sn!Heights, Sn!DeleteChunks(h)
    PROVE  SnapshotsInv'
<1> USE DEF SnapshotsInv
<1> DEFINE m == Sn!Max(todo)
<1>1. /\ UNCHANGED <<commitHeight, base, op, open, db, dirs>>
      /\ pc[h] = "remove" /\ files' = {f \in files : f[1] # m}
      /\ todo' = todo \ {m} /\ pruned' = pruned \cup {m} /\ pc' = [pc EXCEPT ![h] = "delete"]
  BY DEF Sn!DeleteChunks
<1>2. todo # {} /\ m \notin Sn!Listed /\ m \in todo
  BY <1>1, MaxHeights DEF PruningOldest, Sn!TypeOK, Sn!SnapshotsConstants
<1> HIDE DEF m
<1>3. Sn!TypeOK'
  BY <1>1, <1>2 DEF Sn!TypeOK
<1>4. OneOperation'
  BY <1>1, PcTakesLock DEF Busy, Pruning, OneOperation
<1>5. Sn!Listed' = Sn!Listed /\ \A g : Sn!Newer(g)' = Sn!Newer(g)
  BY <1>1 DEF Sn!Listed, Sn!Newer
<1>6. SavingNewest'
  BY <1>1, <1>5 DEF SavingNewest, Sn!TypeOK
<1>7. \A g \in Sn!Heights : pc'[g] # "remove"
  BY <1>1 DEF OneOperation, Busy, Sn!TypeOK
<1>8. PruningOldest'
  BY <1>1, <1>5, <1>7 DEF PruningOldest, Pruning, Sn!TypeOK
<1>9. Sn!ListedIsComplete'
  <2>1. \A e \in db : e.height # m
    BY <1>2 DEF Sn!Listed
  <2>2. QED
    BY <1>1, <2>1 DEF Sn!ListedIsComplete
<1>10. QED
  BY <1>3, <1>4, <1>6, <1>8, <1>9

\* The end of Prune, and a crash.
LEMMA EndStep ==
    ASSUME Sn!SnapshotsConstants, SnapshotsInv, Sn!Crash \/ \E h \in Sn!Heights : Sn!RemoveDirs(h)
    PROVE  SnapshotsInv'
<1> USE DEF SnapshotsInv
<1>1. UNCHANGED <<commitHeight, base, db, files>> /\ op' = "none"
  BY DEF Sn!Crash, Sn!RemoveDirs
<1>2. /\ pc' \in [Sn!Heights -> {"create", "save", "prune", "delete", "remove", "done"}]
      /\ \A g \in Sn!Heights : pc'[g] \notin Busy
  <2>1. CASE Sn!Crash
    BY <2>1 DEF Sn!Crash, Busy
  <2>2. CASE \E h \in Sn!Heights : Sn!RemoveDirs(h)
    BY <2>2 DEF Sn!RemoveDirs, OneOperation, Sn!TypeOK, Busy
  <2>3. QED
    BY <2>1, <2>2
<1>3. Sn!TypeOK'
  <2>1. CASE Sn!Crash
    BY <1>2, <2>1 DEF Sn!Crash, Sn!TypeOK, Sn!SnapshotsConstants
  <2>2. CASE \E h \in Sn!Heights : Sn!RemoveDirs(h)
    <3>1. dirs' \subseteq dirs
      BY <2>2 DEF Sn!RemoveDirs
    <3>2. QED
      BY <1>1, <1>2, <2>2, <3>1 DEF Sn!RemoveDirs, Sn!TypeOK
  <2>3. QED
    BY <2>1, <2>2
<1>4. OneOperation' /\ SavingNewest' /\ PruningOldest'
  BY <1>2 DEF OneOperation, SavingNewest, PruningOldest, Busy, Pruning
<1>5. Sn!ListedIsComplete'
  BY <1>1 DEF Sn!ListedIsComplete
<1>6. QED
  BY <1>3, <1>4, <1>5

\* The invariant is inductive.
LEMMA SnapshotsInvStep ==
    ASSUME Sn!SnapshotsConstants, SnapshotsInv, [Sn!Next]_(Sn!vars)
    PROVE  SnapshotsInv'
<1>1. CASE UNCHANGED Sn!vars
  <2>1. Sn!Listed' = Sn!Listed /\ \A g : Sn!Newer(g)' = Sn!Newer(g)
    BY <1>1 DEF Sn!vars, Sn!Listed, Sn!Newer
  <2>2. QED
    BY <1>1, <2>1 DEF Sn!vars, SnapshotsInv, Sn!TypeOK, OneOperation, SavingNewest, PruningOldest,
                      Sn!ListedIsComplete
<1>2. QED
  BY <1>1, SnapshotCommitStep, CreateStep, ChunkStep, SaveStep, PruneBeginStep, DeleteMetadataStep,
     DeleteChunksStep, EndStep DEF Sn!Next, Sn!snapshot

\* The invariant of the goroutines, the lock and the disk.
THEOREM SnapshotsInvHolds ==
    ASSUME Sn!SnapshotsConstants
    PROVE  Sn!Spec => []SnapshotsInv
  BY SnapshotsInvInit, SnapshotsInvStep, PTL DEF Sn!Spec

\* The variables keep their types; in particular the height below which the
\* engine may prune blocks stays within the chain.
THEOREM SnapshotsTypeCorrect ==
    ASSUME Sn!SnapshotsConstants
    PROVE  Sn!Spec => []Sn!TypeOK
<1>1. SnapshotsInv => Sn!TypeOK
  BY DEF SnapshotsInv
<1>2. QED
  BY <1>1, SnapshotsInvHolds, PTL

\* Every chunk of a snapshot that ListSnapshots offers is on disk and complete,
\* whatever failed, was pruned or crashed.
THEOREM ListedIsCompleteHolds ==
    ASSUME Sn!SnapshotsConstants
    PROVE  Sn!Spec => []Sn!ListedIsComplete
<1>1. SnapshotsInv => Sn!ListedIsComplete
  BY DEF SnapshotsInv
<1>2. QED
  BY <1>1, SnapshotsInvHolds, PTL

\* What one step may do to the listed snapshots.
LEMMA NewestStep ==
    ASSUME Sn!SnapshotsConstants, SnapshotsInv, [Sn!Next]_(Sn!vars)
    PROVE  [Sn!NewestAreKept]_(Sn!vars)
<1>1. CASE db' = db
  BY <1>1 DEF Sn!NewestAreKept
<1>2. ASSUME NEW h \in Sn!Heights, Sn!FinishSave(h) \/ Sn!FailSave(h)
      PROVE  Sn!NewestAreKept
  <2>1. /\ pc[h] = "save" /\ db \subseteq db'
        /\ \A e \in db' \ db : e.height = h
    BY <1>2 DEF Sn!FinishSave, Sn!FailSave, Sn!saveSnapshot
  <2>2. QED
    BY <2>1 DEF Sn!NewestAreKept, SnapshotsInv, SavingNewest
<1>3. ASSUME NEW h \in Sn!Heights, Sn!DeleteMetadata(h)
      PROVE  Sn!NewestAreKept
  <2>1. /\ pc[h] = "delete" /\ todo # {} /\ db' \subseteq db
        /\ \A e \in db \ db' : e.height = Sn!Max(todo)
    BY <1>3 DEF Sn!DeleteMetadata
  <2>2. Sn!Max(todo) \in todo
    BY <2>1, MaxHeights DEF SnapshotsInv, Sn!TypeOK, Sn!SnapshotsConstants
  <2>3. QED
    BY <2>1, <2>2, SnapshotsCounts DEF Sn!NewestAreKept, SnapshotsInv, PruningOldest, Pruning
<1>4. QED
  BY <1>1, <1>2, <1>3 DEF Sn!Next, Sn!snapshot, Sn!Commit, Sn!Create, Sn!OpenChunk, Sn!CloseChunk,
     Sn!PruneBegin, Sn!DeleteChunks, Sn!RemoveDirs, Sn!Crash, Sn!vars

\* Snapshots are added in order of height, and Prune, which deletes one at a
\* time and may be cut short, never takes one of the newest KeepRecent.
THEOREM NewestAreKeptHolds ==
    ASSUME Sn!SnapshotsConstants
    PROVE  Sn!Spec => [][Sn!NewestAreKept]_(Sn!vars)
  BY NewestStep, SnapshotsInvHolds, PTL DEF Sn!Spec
-----------------------------------------------------------------------------
(* SnapshotRestore *)

\* The manager between restores: its goroutine is gone and nothing is pending.
Idle ==
    op = "none" => call = "none" /\ done = <<>> /\ worker \in {"off", "ended"}

\* During a restore the channel is open exactly until the last chunk was sent,
\* and the chunks sent are those received and those in the channel.
Restoring ==
    op = "restore" =>
        /\ worker # "off"
        /\ index = got + Len(ch)
        /\ call = "wait" => closed /\ index = Chunks
        /\ call # "wait" => ~closed /\ index < Chunks
        /\ reply # "complete"

\* The goroutine: its result is the fate of the import, kept until the manager
\* takes it, and no import is fine before the last chunk was read.
Importing ==
    /\ worker \in {"open", "header", "read", "drain"} => op = "restore" /\ done = <<>>
    /\ worker = "ended" /\ op = "restore" => done = <<fate>>
    /\ worker \in {"drain", "ended"} /\ fate = "ok" => got = Chunks

\* The inductive invariant.
RestoreInv ==
    /\ Sr!TypeOK
    /\ Idle /\ Restoring /\ Importing
    /\ got + Len(ch) <= Chunks
    /\ reply # "unexpected"
    /\ Sr!CompleteIsRestored

\* A chunk put into the channel is the next one.
LEMMA SendKeepsOrder ==
    ASSUME Sr!RestoreConstants, Sr!TypeOK, Sr!CompleteIsRestored, index = got + Len(ch), index < Chunks,
           Len(ch) < BufferSize, ch' = Append(ch, index), got' = got
    PROVE  /\ ch' \in Seq(0..(Chunks - 1)) /\ Len(ch') = Len(ch) + 1 /\ Len(ch') <= BufferSize
           /\ \A i \in DOMAIN ch' : ch'[i] = got' + i - 1
  BY DEF Sr!TypeOK, Sr!CompleteIsRestored, Sr!RestoreConstants

\* A chunk taken out of it is the one after those received.
LEMMA ReceiveKeepsOrder ==
    ASSUME Sr!RestoreConstants, Sr!TypeOK, Sr!CompleteIsRestored, got + Len(ch) <= Chunks, Sr!Receive
    PROVE  /\ ch' \in Seq(0..(Chunks - 1)) /\ Len(ch') = Len(ch) - 1 /\ Len(ch') <= BufferSize
           /\ \A i \in DOMAIN ch' : ch'[i] = got' + i - 1
           /\ got' + Len(ch') = got + Len(ch) /\ got' \in 0..Chunks /\ got # Chunks
<1>1. /\ ch \in Seq(0..(Chunks - 1)) /\ ch # <<>> /\ ch' = Tail(ch) /\ got' = got + 1
      /\ Chunks \in Nat /\ BufferSize \in Nat /\ got \in 0..Chunks /\ Len(ch) <= BufferSize
  BY DEF Sr!TypeOK, Sr!RestoreConstants, Sr!Receive
<1>2. /\ ch' \in Seq(0..(Chunks - 1)) /\ Len(ch) \in Nat /\ Len(ch) # 0 /\ Len(ch') = Len(ch) - 1
      /\ DOMAIN ch = 1 .. Len(ch) /\ DOMAIN ch' = 1 .. Len(ch')
      /\ \A i \in 1 .. Len(ch') : ch'[i] = ch[i + 1]
  BY <1>1
<1>3. \A i \in DOMAIN ch' : ch'[i] = got + (i + 1) - 1
  BY <1>1, <1>2 DEF Sr!CompleteIsRestored
<1>4. QED
  BY <1>1, <1>2, <1>3

\* The invariant holds before the first offer.
LEMMA RestoreInvInit ==
    ASSUME Sr!RestoreConstants, Sr!Init
    PROVE  RestoreInv
  BY DEF Sr!RestoreConstants, Sr!Init, RestoreInv, Sr!TypeOK, Idle, Restoring, Importing, Sr!CompleteIsRestored

\* The invariant is inductive.
LEMMA RestoreInvStep ==
    ASSUME Sr!RestoreConstants, RestoreInv, [Sr!Next]_(Sr!vars)
    PROVE  RestoreInv'
<1> USE DEF RestoreInv
<1>1. CASE Sr!Restore
  <2>1. Sr!TypeOK'
    <3>1. offers' \in 0..MaxOffers /\ index' \in 0..Chunks /\ got' \in 0..Chunks
      BY <1>1 DEF Sr!Restore, Sr!RestoreConstants, Sr!TypeOK
    <3>2. ch' \in Seq(0..(Chunks - 1)) /\ Len(ch') <= BufferSize
      BY <1>1 DEF Sr!Restore, Sr!RestoreConstants
    <3>3. QED
      BY <1>1, <3>1, <3>2 DEF Sr!Restore, Sr!TypeOK
  <2>2. Len(ch') = 0 /\ DOMAIN ch' = {} /\ got' = 0 /\ index' = 0
    BY <1>1 DEF Sr!Restore
  <2>3. QED
    BY <1>1, <2>1, <2>2 DEF Sr!Restore, Sr!RestoreConstants, Sr!TypeOK, Idle, Restoring, Importing,
                            Sr!CompleteIsRestored
<1>2. CASE Sr!RestoreChunkEnded
  BY <1>2 DEF Sr!RestoreChunkEnded, Sr!endLocked, Sr!RestoreConstants, Sr!TypeOK, Idle, Restoring, Importing,
              Sr!CompleteIsRestored
<1>3. CASE Sr!RestoreChunkMismatch
  BY <1>3 DEF Sr!RestoreChunkMismatch, Sr!RestoreConstants, Sr!TypeOK, Idle, Restoring, Importing,
              Sr!CompleteIsRestored
<1>4. CASE Sr!RestoreChunk
  BY <1>4 DEF Sr!RestoreChunk, Sr!RestoreConstants, Sr!TypeOK, Idle, Restoring, Importing,
              Sr!CompleteIsRestored
<1>5. CASE Sr!Send
  <2>1. op = "restore" /\ index = got + Len(ch) /\ index < Chunks /\ ~closed
    BY <1>5 DEF Sr!Send, Sr!TypeOK, Idle, Restoring
  <2>2. /\ ch' \in Seq(0..(Chunks - 1)) /\ Len(ch') = Len(ch) + 1 /\ Len(ch') <= BufferSize
        /\ \A i \in DOMAIN ch' : ch'[i] = got' + i - 1
    BY <1>5, <2>1, SendKeepsOrder DEF Sr!Send
  <2>3. Sr!TypeOK'
    <3>1. index' \in 0..Chunks
      BY <1>5, <2>1 DEF Sr!Send, Sr!RestoreConstants, Sr!TypeOK
    <3>2. closed' \in BOOLEAN
      BY <1>5 DEF Sr!Send, Sr!TypeOK
    <3>3. QED
      BY <1>5, <2>2, <3>1, <3>2 DEF Sr!Send, Sr!TypeOK
  <2>4. Idle' /\ Importing'
    BY <1>5, <2>1 DEF Sr!Send, Sr!TypeOK, Idle, Importing
  <2>5. Restoring' /\ got' + Len(ch') <= Chunks
    BY <1>5, <2>1, <2>2 DEF Sr!Send, Sr!RestoreConstants, Sr!TypeOK, Restoring
  <2>6. reply' # "unexpected" /\ Sr!CompleteIsRestored'
    BY <1>5, <2>2 DEF Sr!Send, Sr!CompleteIsRestored
  <2>7. QED
    BY <2>3, <2>4, <2>5, <2>6
<1>6. CASE Sr!Finish
  BY <1>6 DEF Sr!Finish, Sr!endLocked, Sr!RestoreConstants, Sr!TypeOK, Idle, Restoring, Importing,
              Sr!CompleteIsRestored
<1>7. CASE Sr!OpenReceive \/ Sr!Read \/ (worker = "drain" /\ Sr!Drain /\ Sr!Receive)
  <2>1. /\ ch' \in Seq(0..(Chunks - 1)) /\ Len(ch') = Len(ch) - 1 /\ Len(ch') <= BufferSize
        /\ \A i \in DOMAIN ch' : ch'[i] = got' + i - 1
        /\ got' + Len(ch') = got + Len(ch) /\ got' \in 0..Chunks /\ got # Chunks
    BY <1>7, ReceiveKeepsOrder DEF Sr!OpenReceive, Sr!Read
  <2>2. /\ worker \in {"open", "read", "drain"} /\ UNCHANGED <<op, index, closed, done, fate, call>>
        /\ UNCHANGED <<reply, offers, mismatches>> /\ worker' \in {"header", "read", "drain"}
        /\ worker' = "drain" => worker = "drain"
    <3>1. CASE Sr!OpenReceive
      BY <3>1 DEF Sr!OpenReceive
    <3>2. CASE Sr!Read
      BY <3>2 DEF Sr!Read
    <3>3. CASE worker = "drain" /\ Sr!Drain /\ Sr!Receive
      BY <3>3 DEF Sr!Drain, Sr!Receive
    <3>4. QED
      BY <1>7, <3>1, <3>2, <3>3
  <2>3. Sr!TypeOK'
    BY <2>1, <2>2 DEF Sr!TypeOK
  <2>4. Idle' /\ Importing'
    BY <2>1, <2>2 DEF Idle, Importing
  <2>5. Restoring' /\ got' + Len(ch') <= Chunks
    BY <2>1, <2>2 DEF Sr!TypeOK, Restoring
  <2>6. reply' # "unexpected" /\ Sr!CompleteIsRestored'
    BY <2>1, <2>2 DEF Sr!CompleteIsRestored
  <2>7. QED
    BY <2>3, <2>4, <2>5, <2>6
<1>8. CASE Sr!OpenResult
  BY <1>8 DEF Sr!OpenResult, Sr!End, Sr!RestoreConstants, Sr!TypeOK, Idle, Restoring, Importing,
              Sr!CompleteIsRestored
<1>9. CASE Sr!Fail \/ Sr!Complete
  BY <1>9 DEF Sr!Fail, Sr!Complete, Sr!RestoreConstants, Sr!TypeOK, Idle, Restoring, Importing,
              Sr!CompleteIsRestored
<1>10. CASE Sr!Drain /\ ~Sr!Receive
  BY <1>10 DEF Sr!Drain, Sr!End, Sr!RestoreConstants, Sr!TypeOK, Idle, Restoring, Importing,
               Sr!CompleteIsRestored
<1>11. CASE UNCHANGED Sr!vars
  BY <1>11 DEF Sr!vars, Sr!TypeOK, Idle, Restoring, Importing, Sr!CompleteIsRestored
<1>12. QED
  BY <1>1, <1>2, <1>3, <1>4, <1>5, <1>6, <1>7, <1>8, <1>9, <1>10, <1>11
     DEF Sr!Next, Sr!Worker, Sr!Caller, Sr!Drain

\* The invariant of the manager, the channel and the goroutine.
THEOREM RestoreInvHolds ==
    ASSUME Sr!RestoreConstants
    PROVE  Sr!Spec => []RestoreInv
  BY RestoreInvInit, RestoreInvStep, PTL DEF Sr!Spec

\* The variables of Manager and of the goroutine keep their types; in
\* particular the channel never holds more than chunkBufferSize chunks and
\* restoreChunkIndex never passes the number of chunks.
THEOREM RestoreTypeCorrect ==
    ASSUME Sr!RestoreConstants
    PROVE  Sr!Spec => []Sr!TypeOK
<1>1. RestoreInv => Sr!TypeOK
  BY DEF RestoreInv
<1>2. QED
  BY <1>1, RestoreInvHolds, PTL

\* RestoreChunk reports that the restore is complete only when the goroutine
\* received every chunk in order and imported all of them without an error.
THEOREM CompleteIsRestoredHolds ==
    ASSUME Sr!RestoreConstants
    PROVE  Sr!Spec => []Sr!CompleteIsRestored
<1>1. RestoreInv => Sr!CompleteIsRestored
  BY DEF RestoreInv
<1>2. QED
  BY <1>1, RestoreInvHolds, PTL

\* The invariant excludes a success nobody waits for.
LEMMA SuccessIsAwaited ==
    ASSUME Sr!RestoreConstants, RestoreInv
    PROVE  Sr!NeverUnexpected
<1>1. ASSUME done = <<"ok">>, call # "wait"
      PROVE  FALSE
  <2>1. op = "restore" /\ worker = "ended" /\ got + Len(ch) < Chunks
    BY <1>1 DEF RestoreInv, Sr!TypeOK, Idle, Restoring, Importing
  <2>2. fate = "ok" => got = Chunks
    BY <2>1 DEF RestoreInv, Importing
  <2>3. fate = "ok"
    BY <1>1, <2>1 DEF RestoreInv, Importing
  <2>4. Len(ch) \in Nat
    BY DEF RestoreInv, Sr!TypeOK
  <2>5. QED
    BY <2>1, <2>2, <2>3, <2>4 DEF RestoreInv, Sr!TypeOK
<1>2. QED
  BY <1>1 DEF RestoreInv, Sr!NeverUnexpected

\* RestoreChunk never returns "restore ended unexpectedly", and a success of the
\* goroutine is only there when the caller waits for it after the last chunk.
THEOREM NeverUnexpectedHolds ==
    ASSUME Sr!RestoreConstants
    PROVE  Sr!Spec => []Sr!NeverUnexpected
  BY SuccessIsAwaited, RestoreInvHolds, PTL
================================================================================
