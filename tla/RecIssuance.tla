---------------------------- MODULE RecIssuance ----------------------------
(***************************************************************************)
(* From reported energy to RECs: the bridge's single worker, the tasks it  *)
(* takes off TxQueue, the counter RECCount it shares with the block        *)
(* creator consumer, the cached account sequence all its transactions use, *)
(* and the chain it submits them to.  EnergyLedger's messages are the      *)
(* effect of the AddEnergy and AppendTxHash transactions.                  *)
(*                                                                         *)
(* A submission (BroadcastLightTxWithReward, AddEnergyCLI,                 *)
(* CreateRECRecordCLI, CreateBlockCLI, BlockCreatorRewardPercentCLI,       *)
(* BurnStableCoinCLI) takes a sequence from the cache, simulates the       *)
(* transaction on the check state, enters the mempool and waits for the    *)
(* commit or a timeout.  All six share this course; what differs is the    *)
(* step that follows (for burns see module BurnRequests).  One             *)
(* transaction is delivered per block: a worker that saw a commit waits    *)
(* for the next block before its next create, so no two creates of one     *)
(* bridge share a height.                                                  *)
(***************************************************************************)
EXTENDS EnergyLedger

CONSTANTS
    Powers,       \* energy in Wh of light transactions
    Generator,    \* the address energy is credited to
    TxHash,       \* the hash of a light transaction
    QueueCap,     \* capacity of TxQueue; 100 in the code
    SeqModulus,   \* sequences are uint64: 2^64
    MaxLight,     \* bound: light transactions queued
    MaxCreator,   \* bound: block creator messages
    MaxBurns,     \* bound: burn tasks queued
    MaxForeign,   \* bound: transactions of the same account by the CLI
    MaxTimeouts,  \* bound: timeouts of BroadcastTxCommit
    MaxErrors,    \* bound: other failures of a submission
    MaxHeight,    \* bound: height of the last block
    MaxCrashes    \* bound: crashes of the bridge

ASSUME IssuanceAssumption ==
    /\ NoId \in Nexts
    /\ Powers \subseteq Int
    /\ Powers \cap Nat \subseteq Energies
    /\ Generator \in Generators
    /\ TxHash \in Hashes
    /\ QueueCap \in Nat \ {0}
    /\ SeqModulus \in Nat \ {0}
    /\ RecIds \subseteq Nat \X Nat
    /\ (1 .. MaxHeight) \X {0} \subseteq RecIds
    /\ MaxHeight \in Nat

VARIABLES
    queue,        \* TxQueue
    creatorAt,    \* the block creator consumer: "idle" or "send"
    step,         \* the transaction the worker is at, or "idle"
    waiting,      \* the worker is inside BroadcastTxCommit
    power,        \* the energy of the light transaction being worked on
    recID,        \* the rec id CreateRECRecordCLI returned
    recCount,     \* RECCount
    seqCache,     \* seqCache
    cached,       \* cacheInitialized
    chainSeq,     \* committed sequence of the bridge's account
    mempool,      \* transactions of that account waiting for a block
    height,       \* block height
    created,      \* rec ids under rec_record/ created so far
    requested,    \* history: RECs asked for in create transactions
    bounds,       \* history: how often each bounded event happened
    stale,        \* history: submissions refused although no transaction was pending
    disturbed,    \* history: events that may leave the cache behind the chain
    clean         \* history: no failure, no crash and no overwritten RECCount yet

bridgeVars == <<queue, creatorAt, step, waiting, power, recID, recCount>>
seqVars == <<seqCache, cached>>
chainVars == <<chainSeq, mempool, height, created>>
issuanceVars == <<bridgeVars, seqVars, chainVars, requested, bounds, stale, disturbed,
                 clean>>
allVars == <<vars, issuanceVars>>

LightTask(p) == [kind |-> "light", power |-> p]
IssueTask == [kind |-> "issue", power |-> 0]
BurnTask == [kind |-> "burn", power |-> 0]
Steps == {"reward", "energy", "create", "append", "pay", "burn"}
Events == {"light", "creator", "burn", "foreign", "timeout", "error", "crash"}

\* A transaction in the mempool; awaited while the worker waits for it.
Txs == [step : Steps \cup {"foreign"}, amount : Int, id : RecIds \cup {NoId},
        awaited : BOOLEAN]

Count(event) == bounds' = [bounds EXCEPT ![event] = @ + 1]

\* The sequence the check state expects: pending transactions count.
CheckSeq == (chainSeq + Len(mempool)) % SeqModulus

\* The sequence a submission uses: asked from the chain the first time, one
\* more than the last time afterwards.
NextSeq == IF cached THEN (seqCache + 1) % SeqModulus ELSE chainSeq

\* Wrong: without the final decrement.
ResyncNoDecrement(seq, answered) == seqCache' = IF answered THEN chainSeq ELSE seq

\* forceSyncAccountSequence: one less than the committed sequence (uint64), as
\* the next submission adds one; the old value when the query fails.
Resync(seq, answered) ==
    seqCache' = IF answered THEN (chainSeq - 1) % SeqModulus ELSE seq

\* The worker's RECs that no create transaction has been sent for yet.
Unspent == IF step = "append" \/ step = "pay" \/ (step = "create" /\ waiting)
           THEN 0 ELSE recCount

\* Wrong: a failed create leaves RECCount for another try.
FailedKeepsCount ==
    /\ waiting' = FALSE
    /\ step' = IF step = "append" THEN "pay" ELSE "idle"
    /\ recCount' = IF step = "pay" THEN 0 ELSE recCount
    /\ clean' = FALSE

\* Wrong: a failed append is tried again.
FailedRetriesAppend ==
    /\ waiting' = FALSE
    /\ step' = IF step = "append" THEN "append" ELSE "idle"
    /\ recCount' = IF step \in {"create", "pay"} THEN 0 ELSE recCount
    /\ clean' = FALSE

\* Wrong: a failed create is tried again with the count already reset.
FailedRetriesCreate ==
    /\ waiting' = FALSE
    /\ step' = CASE step = "append" -> "pay" [] step = "create" -> "create"
                 [] OTHER -> "idle"
    /\ recCount' = IF step \in {"create", "pay"} THEN 0 ELSE recCount
    /\ clean' = FALSE

\* What a failed submission means for the task.
Failed ==
    /\ waiting' = FALSE
    /\ step' = IF step = "append" THEN "pay" ELSE "idle"
    /\ recCount' = IF step \in {"create", "pay"} THEN 0 ELSE recCount
    /\ clean' = FALSE

-----------------------------------------------------------------------------
IssuanceInit ==
    /\ Init
    /\ queue = <<>>
    /\ creatorAt = "idle"
    /\ step = "idle"
    /\ waiting = FALSE
    /\ power = 0
    /\ recID = NoId
    /\ recCount = 0
    /\ seqCache = 0
    /\ cached = FALSE
    /\ chainSeq = 0
    /\ mempool = <<>>
    /\ height = 1
    /\ created = {}
    /\ requested = 0
    /\ bounds = [e \in Events |-> 0]
    /\ stale = 0
    /\ disturbed = 0
    /\ clean = TRUE

(* A vote timer puts a light transaction on TxQueue (module VoteRounds). *)
QueueLight(p) ==
    /\ bounds["light"] < MaxLight
    /\ Len(queue) < QueueCap
    /\ queue' = Append(queue, LightTask(p))
    /\ Count("light")
    /\ UNCHANGED <<vars, creatorAt, step, waiting, power, recID, recCount,
                   seqVars, chainVars, requested, stale, disturbed, clean>>

(* The burn consumer puts a task on TxQueue (module BurnRequests). *)
QueueBurn ==
    /\ bounds["burn"] < MaxBurns
    /\ Len(queue) < QueueCap
    /\ queue' = Append(queue, BurnTask)
    /\ Count("burn")
    /\ UNCHANGED <<vars, creatorAt, step, waiting, power, recID, recCount,
                   seqVars, chainVars, requested, stale, disturbed, clean>>

(* handleBlockCreatorMessage up to the send: nothing to issue, nothing queued.
   RECCount is read here and again when the task runs. *)
BlockCreator ==
    /\ bounds["creator"] < MaxCreator
    /\ creatorAt = "idle"
    /\ recCount > 0
    /\ creatorAt' = "send"
    /\ Count("creator")
    /\ UNCHANGED <<vars, queue, step, waiting, power, recID, recCount,
                   seqVars, chainVars, requested, stale, disturbed, clean>>

(* Wrong: the send does not wait for room in the channel. *)
QueueIssueUnbounded ==
    /\ creatorAt = "send"
    /\ queue' = Append(queue, IssueTask)
    /\ creatorAt' = "idle"
    /\ UNCHANGED <<vars, step, waiting, power, recID, recCount, seqVars,
                   chainVars, requested, bounds, stale, disturbed, clean>>

(* Its send on TxQueue, once there is room. *)
QueueIssue ==
    /\ creatorAt = "send"
    /\ Len(queue) < QueueCap
    /\ queue' = Append(queue, IssueTask)
    /\ creatorAt' = "idle"
    /\ UNCHANGED <<vars, step, waiting, power, recID, recCount, seqVars,
                   chainVars, requested, bounds, stale, disturbed, clean>>

(* The worker takes the next task; a light transaction without energy is
   refused before the cache is touched. *)
TakeTask ==
    /\ step = "idle"
    /\ queue # <<>>
    /\ queue' = Tail(queue)
    /\ \/ /\ Head(queue).kind \in {"issue", "burn"}
          /\ step' = IF Head(queue).kind = "issue" THEN "create" ELSE "burn"
          /\ UNCHANGED power
       \/ /\ Head(queue).kind = "light"
          /\ step' = IF Head(queue).power > 0 THEN "reward" ELSE "idle"
          /\ power' = Head(queue).power
    /\ UNCHANGED <<vars, creatorAt, waiting, recID, recCount, seqVars,
                   chainVars, requested, bounds, stale, disturbed, clean>>

-----------------------------------------------------------------------------
(* Submissions *)

\* The transaction of the current step.
CurrentTx == [step |-> step, id |-> IF step = "append" THEN recID ELSE NoId,
              amount |-> CASE step = "create" -> recCount
                           [] step = "energy" -> power
                           [] OTHER -> 0,
              awaited |-> TRUE]

(* The very first query of the account fails: nothing is cached yet. *)
FirstQueryFails ==
    /\ step # "idle" /\ ~waiting /\ ~cached
    /\ bounds["error"] < MaxErrors
    /\ Count("error")
    /\ Failed
    /\ UNCHANGED <<vars, queue, creatorAt, power, recID, seqVars, chainVars,
                   requested, stale, disturbed>>

(* The simulation passes and the transaction enters the mempool.  A create of
   no RECs never passes. *)
Submit ==
    /\ step # "idle" /\ ~waiting
    /\ NextSeq = CheckSeq
    /\ step = "create" => recCount > 0
    /\ mempool' = Append(mempool, CurrentTx)
    /\ waiting' = TRUE
    /\ seqCache' = NextSeq
    /\ cached' = TRUE
    /\ requested' = requested + IF step = "create" THEN recCount ELSE 0
    /\ UNCHANGED <<vars, queue, creatorAt, step, power, recID, recCount,
                   chainSeq, height, created, bounds, stale, disturbed, clean>>

(* The simulation fails because the cache is not where the check state is. *)
WrongSequence(answered) ==
    /\ step # "idle" /\ ~waiting
    /\ NextSeq # CheckSeq
    /\ ~answered => bounds["error"] < MaxErrors
    /\ IF answered THEN UNCHANGED bounds ELSE Count("error")
    /\ Resync(NextSeq, answered)
    /\ cached' = TRUE
    /\ Failed
    /\ stale' = stale + IF mempool = <<>> THEN 1 ELSE 0
    /\ disturbed' = disturbed + IF answered THEN 0 ELSE 1
    /\ UNCHANGED <<vars, queue, creatorAt, power, recID, chainVars, requested>>

(* The simulation, the signing or the encoding fails for another reason: a
   message the chain refuses, such as a create of no RECs. *)
Refused(answered) ==
    /\ step # "idle" /\ ~waiting
    /\ NextSeq = CheckSeq
    /\ \/ step = "create" /\ recCount = 0 /\ answered /\ UNCHANGED bounds
       \/ bounds["error"] < MaxErrors /\ Count("error")
    /\ Resync(NextSeq, answered)
    /\ cached' = TRUE
    /\ Failed
    /\ disturbed' = disturbed + IF answered THEN 0 ELSE 1
    /\ UNCHANGED <<vars, queue, creatorAt, power, recID, chainVars, requested,
                   stale>>

(* BroadcastTxCommit gives up while the transaction is still pending. *)
Timeout(answered) ==
    /\ waiting
    /\ bounds["timeout"] < MaxTimeouts
    /\ Count("timeout")
    /\ mempool' = [i \in DOMAIN mempool |-> [mempool[i] EXCEPT !.awaited = FALSE]]
    /\ Resync(seqCache, answered)
    /\ Failed
    /\ disturbed' = disturbed + 1
    /\ UNCHANGED <<vars, queue, creatorAt, power, recID, cached, chainSeq,
                   height, created, requested, stale>>

(* The collateral consumer's own process sends a transaction of the same
   account; it takes the committed sequence, so it needs an empty mempool. *)
ForeignTx ==
    /\ bounds["foreign"] < MaxForeign
    /\ mempool = <<>>
    /\ mempool' = <<[step |-> "foreign", amount |-> 0, id |-> NoId, awaited |-> FALSE]>>
    /\ disturbed' = disturbed + 1
    /\ Count("foreign")
    /\ UNCHANGED <<vars, bridgeVars, seqVars, chainSeq, height, created,
                   requested, stale, clean>>

-----------------------------------------------------------------------------
(* Commits *)

\* The messages of the transaction, executed on the chain.
Execute(tx) ==
    \/ /\ tx.step = "energy"
       /\ AddEnergy(Generator, tx.amount, TxHash)
       /\ UNCHANGED created
    \/ /\ tx.step = "create"
       /\ created' = created \cup {<<height, i>> : i \in 0 .. (tx.amount - 1)}
       /\ UNCHANGED vars
    \/ /\ tx.step = "append"
       /\ AppendTxNode(tx.id, NoId)
       /\ UNCHANGED created
    \/ /\ tx.step \in {"reward", "pay", "burn", "foreign"}
       /\ UNCHANGED <<vars, created>>

\* Wrong: RECCount survives the task that issued it.
SucceededKeepsCount(tx) ==
    LET recs == Counted(totalEnergy + tx.amount) IN
    /\ waiting' = FALSE
    /\ \/ /\ step = "reward"
          /\ step' = "energy"
          /\ UNCHANGED <<recCount, recID, clean>>
       \/ /\ step = "energy"
          /\ step' = "idle"
          /\ recCount' = IF recs > 0 THEN recs ELSE recCount
          /\ clean' = (clean /\ (recs > 0 => recCount = 0))
          /\ UNCHANGED recID
       \/ /\ step = "create"
          /\ step' = "append"
          /\ recID' = <<height, 0>>
          /\ UNCHANGED <<recCount, clean>>
       \/ /\ step = "append"
          /\ step' = "pay"
          /\ UNCHANGED <<recCount, recID, clean>>
       \/ /\ step \in {"pay", "burn"}
          /\ step' = "idle"
          /\ UNCHANGED <<recCount, recID, clean>>

\* What the worker does when its transaction succeeded.
Succeeded(tx) ==
    LET recs == Counted(totalEnergy + tx.amount) IN
    /\ waiting' = FALSE
    /\ \/ /\ step = "reward"
          /\ step' = "energy"
          /\ UNCHANGED <<recCount, recID, clean>>
       \/ /\ step = "energy"
          /\ step' = "idle"
          /\ recCount' = IF recs > 0 THEN recs ELSE recCount
          /\ clean' = (clean /\ (recs > 0 => recCount = 0))
          /\ UNCHANGED recID
       \/ /\ step = "create"
          /\ step' = "append"
          /\ recID' = <<height, 0>>
          /\ UNCHANGED <<recCount, clean>>
       \/ /\ step = "append"
          /\ step' = "pay"
          /\ UNCHANGED <<recCount, recID, clean>>
       \/ /\ step = "pay"
          /\ step' = "idle"
          /\ recCount' = 0
          /\ UNCHANGED <<recID, clean>>
       \/ /\ step = "burn"
          /\ step' = "idle"
          /\ UNCHANGED <<recCount, recID, clean>>

\* A block takes the oldest transaction off the mempool; its sequence is used up
\* whether its messages succeed or not.
Commit ==
    /\ mempool # <<>>
    /\ height <= MaxHeight
    /\ mempool' = Tail(mempool)
    /\ chainSeq' = (chainSeq + 1) % SeqModulus
    /\ height' = height + 1
    /\ UNCHANGED <<queue, creatorAt, power, cached, requested, stale>>

(* A block with a transaction that succeeds. *)
Deliver ==
    /\ Commit
    /\ LET tx == Head(mempool) IN
       /\ Execute(tx)
       /\ IF tx.awaited THEN Succeeded(tx)
          ELSE UNCHANGED <<step, waiting, recCount, recID, clean>>
    /\ UNCHANGED <<seqCache, bounds, disturbed>>

(* A block with a transaction whose messages fail. *)
DeliverFails(answered) ==
    /\ Commit
    /\ bounds["error"] < MaxErrors
    /\ Count("error")
    /\ Head(mempool).step # "foreign"
    /\ \/ /\ Head(mempool).awaited
          /\ seqCache' = IF answered THEN chainSeq ELSE seqCache
          /\ Failed
       \/ /\ ~Head(mempool).awaited /\ answered
          /\ UNCHANGED <<seqCache, step, waiting, recCount, clean>>
    /\ UNCHANGED <<vars, recID, created, disturbed>>

(* The bridge dies and restarts; pending transactions stay with the chain. *)
Crash ==
    /\ bounds["crash"] < MaxCrashes
    /\ Count("crash")
    /\ queue' = <<>>
    /\ creatorAt' = "idle"
    /\ step' = "idle"
    /\ waiting' = FALSE
    /\ power' = 0
    /\ recID' = NoId
    /\ recCount' = 0
    /\ seqCache' = 0
    /\ cached' = FALSE
    /\ mempool' = [i \in DOMAIN mempool |-> [mempool[i] EXCEPT !.awaited = FALSE]]
    /\ disturbed' = disturbed + 1
    /\ clean' = FALSE
    /\ UNCHANGED <<vars, chainSeq, height, created, requested, stale>>

IssuanceNext ==
    \/ \E p \in Powers : QueueLight(p)
    \/ QueueBurn
    \/ BlockCreator
    \/ QueueIssue
    \/ TakeTask
    \/ FirstQueryFails
    \/ Submit
    \/ \E answered \in BOOLEAN :
          \/ WrongSequence(answered)
          \/ Refused(answered)
          \/ Timeout(answered)
          \/ DeliverFails(answered)
    \/ ForeignTx
    \/ Deliver
    \/ Crash

IssuanceSpec == IssuanceInit /\ [][IssuanceNext]_allVars

\* The worker and the consumer goroutine keep running and blocks keep coming.
IssuanceFairness ==
    /\ WF_allVars(QueueIssue)
    /\ WF_allVars(TakeTask)
    /\ WF_allVars(Submit)
    /\ WF_allVars(WrongSequence(TRUE))
    /\ WF_allVars(Refused(TRUE))
    /\ WF_allVars(Deliver)

FairIssuanceSpec == IssuanceSpec /\ IssuanceFairness

-----------------------------------------------------------------------------
(* Properties *)

\* Type invariant.
IssuanceTypeOK ==
    /\ TypeOK
    /\ queue \in Seq({LightTask(p) : p \in Powers} \cup {IssueTask, BurnTask}) /\ Len(queue) <= QueueCap
    /\ creatorAt \in {"idle", "send"}
    /\ step \in Steps \cup {"idle"}
    /\ waiting \in BOOLEAN
    /\ power \in Int
    /\ recID \in RecIds \cup {NoId}
    /\ recCount \in Nat
    /\ seqCache \in 0 .. SeqModulus - 1
    /\ cached \in BOOLEAN
    /\ chainSeq \in 0 .. SeqModulus - 1
    /\ mempool \in Seq(Txs)
    /\ height \in Nat
    /\ created \subseteq Nat \X Nat
    /\ requested \in Nat
    /\ bounds \in [Events -> Nat]
    /\ stale \in Nat
    /\ disturbed \in Nat
    /\ clean \in BOOLEAN

\* The bridge never asks for more RECs than AddEnergy announced, whatever
\* happens between the announcement and the create: repeated block creator
\* messages, overwritten counts, timeouts whose transaction commits after all,
\* failures and restarts.
NeverOverRequested == requested + Unspent <= authorised

\* So every REC on the chain stands for OneREC of reported energy.
RecsCoveredByEnergy == Cardinality(created) * OneREC <= energyIn

\* The bridge appends each rec id once and only ids of RECs that exist; the
\* node list therefore never runs into itself and the query returns.
AppendsAreRecs ==
    /\ {appended[i] : i \in DOMAIN appended} \subseteq created
    /\ FreshAppends
    /\ QueryReturns

\* The price of the guessed sequence: every submission refused although nothing
\* was pending is paid for by one outside event (a transaction of the CLI, a
\* timeout, a failed query, a restart).  The cache recovers after one failure.
StaleAtMostDisturbed == stale <= disturbed

\* As long as nothing failed and no count was overwritten, no announced REC is
\* lost: it is created, about to be created, or still in RECCount.
NothingLostWhileClean == clean => authorised = requested + Unspent

\* The comment in handleBlockCreatorMessage: CreateBlockCLI is run for each REC.
EveryRecHasNode ==
    clean /\ step = "idle" => created \subseteq {appended[i] : i \in DOMAIN appended}

\* Every task is finished: the worker is idle with an empty queue and no blocked
\* sender again and again.
Drained == step = "idle" /\ queue = <<>> /\ creatorAt = "idle"
WorkerDrains == []<>Drained
=============================================================================
