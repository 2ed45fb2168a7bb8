------------------------------ MODULE MCProgress ------------------------------
(***************************************************************************)
(* What must happen in the end, under the fairness each model states.  As  *)
(* in MCChain, a behaviour is one of the models, with the instance that    *)
(* "model" names; x1 to x30 are its variables, and None where it has fewer.*)
(***************************************************************************)
EXTENDS ChainInstances

CONSTANTS None, Empty, h1, d1, o1, g1

VARIABLES model, x1, x2, x3, x4, x5, x6, x7, x8, x9, x10, x11, x12, x13, x14, x15, x16, x17,
          x18, x19, x20, x21, x22, x23, x24, x25, x26, x27, x28, x29, x30

from21 == <<x21, x22, x23, x24, x25, x26, x27, x28, x29, x30>>
from15 == <<x15, x16, x17, x18, x19, x20, from21>>
from14 == <<x14, from15>>
from10 == <<x10, x11, x12, x13, from14>>
vars == <<model, x1, x2, x3, x4, x5, x6, x7, x8, x9, from10>>

VR == INSTANCE VoteRounds WITH
    Hashes <- {h1}, Devices <- {d1}, Owners <- {o1}, QueueCap <- 1, MaxVotes <- 2, MaxCrashes <- 1,
    MaxRebalances <- 1,
    topic <- x1, position <- x2, marked <- x3, committed <- x4, voteMap <- x5, deviceID <- x6,
    addresses <- x7, requests <- x8, timers <- x9, queue <- x10, done <- x11, rounds <- x12,
    crashes <- x13, rebalances <- x14

\* One light transaction reaches one REC, a second two more.
RI == INSTANCE RecIssuance WITH
    Generators <- {g1}, Hashes <- {h1}, RecIds <- (1 .. 20) \X {0}, NoId <- None, Nexts <- {None},
    Energies <- {0, 3, 7}, OneREC <- 3, MaxAdds <- 2, MaxAppends <- 2, Powers <- {0, 3, 7},
    Generator <- g1, TxHash <- h1, QueueCap <- 2, SeqModulus <- 32, MaxLight <- 2,
    MaxCreator <- 1, MaxBurns <- 1, MaxForeign <- 0, MaxTimeouts <- 1, MaxErrors <- 1,
    MaxCrashes <- 1, MaxHeight <- 20,
    queue <- x1, creatorAt <- x2, step <- x3, waiting <- x4, power <- x5, recID <- x6,
    recCount <- x7, seqCache <- x8, cached <- x9, chainSeq <- x10, mempool <- x11, height <- x12,
    created <- x13, requested <- x14, bounds <- x15, stale <- x16, disturbed <- x17, clean <- x18,
    totalEnergy <- x19, energyByAddress <- x20, energyTx <- x21, nodes <- x22, head <- x23,
    tail <- x24, energyIn <- x25, authorised <- x26, closedEnergy <- x27, allTx <- x28,
    appended <- x29, sentNext <- x30

BR == INSTANCE BurnRequests WITH
    NumRequests <- 3, Malformed <- {3}, AmountOf <- CoinsAsked, OneREC <- 2, Coins <- 4,
    Collateral <- 2, QueueCap <- 1, MaxTimeouts <- 1, MaxErrors <- 1, MaxLostReplies <- 1,
    MaxRestarts <- 2,
    produced <- x1, position <- x2, holding <- x3, session <- x4, marked <- x5, committed <- x6,
    queue <- x7, task <- x8, at <- x9, result <- x10, coins <- x11, recs <- x12, pending <- x13,
    burns <- x14, told <- x15, replied <- x16, refused <- x17, settled <- x18, skipped <- x19,
    events <- x20

BA == INSTANCE BaseApp WITH
    Accounts <- {"a", "b"}, Devices <- {"d"}, Txs <- SignedTxs, InitBal <- 9, MinGasPrice <- 1,
    MaxBlockGas <- 7, MsgGas <- 2, BlockGas <- 2, ParamGas <- 1,
    MaxHeight <- 2, MaxBlockTxs <- 1, MaxPool <- 1, MaxCrashes <- 2,
    cms <- x1, deliver <- x2, check <- x3, pool <- x4, recheck <- x5, blocks <- x6, phase <- x7,
    crashes <- x8, log <- x9

GV == INSTANCE Gov WITH
    Accounts <- {"v", "d"}, Stakes <- OneStake, Votes <- YesOrVeto, Contents <- {"spend", "params"},
    Amounts <- {1}, InitBal <- 2, InitPool <- 1, InitParams <- OldParams,
    NewParams <- LowQuorum, MaxDepositPeriod <- 1, MaxProposals <- 1, MaxTime <- 4,
    now <- x1, nextId <- x2, props <- x3, inactive <- x4, active <- x5, deposits <- x6,
    votes <- x7, bank <- x8, params <- x9, pool <- x10, stake <- x11

SN == INSTANCE Snapshots WITH
    Interval <- 1, KeepRecent <- 1, MinRetain <- 1, EvidenceAge <- 0, KeepEvery <- 0, Chunks <- 1,
    MaxHeight <- 4, MaxFailures <- 1, MaxCrashes <- 1,
    commitHeight <- x1, base <- x2, op <- x3, pc <- x4, open <- x5, todo <- x6, pruned <- x7,
    db <- x8, files <- x9, dirs <- x10, faults <- x11

SR == INSTANCE SnapshotRestore WITH
    Chunks <- 6, BufferSize <- 4, MaxOffers <- 2, MaxMismatches <- 2,
    op <- x1, index <- x2, ch <- x3, closed <- x4, done <- x5, worker <- x6, got <- x7, fate <- x8,
    call <- x9, reply <- x10, offers <- x11, mismatches <- x12

ASSUME ConstantsAssumption ==
    /\ BR!BurnAssumption /\ BA!BaseAppConstants /\ GV!GovConstants
    /\ SN!SnapshotsConstants /\ SR!RestoreConstants

NoneFrom21 == /\ x21 = None /\ x22 = None /\ x23 = None /\ x24 = None /\ x25 = None
              /\ x26 = None /\ x27 = None /\ x28 = None /\ x29 = None /\ x30 = None
NoneFrom15 == /\ x15 = None /\ x16 = None /\ x17 = None /\ x18 = None
              /\ x19 = None /\ x20 = None /\ NoneFrom21
NoneFrom14 == x14 = None /\ NoneFrom15
NoneFrom12 == x12 = None /\ x13 = None /\ NoneFrom14

Init ==
    \/ model = "vote" /\ VR!VotesInit /\ NoneFrom15
    \/ model = "rec" /\ RI!IssuanceInit
    \/ model = "burn" /\ BR!Init /\ NoneFrom21
    \/ model = "baseapp" /\ BA!Init /\ x10 = None /\ x11 = None /\ NoneFrom12
    \/ model = "gov" /\ GV!Init /\ NoneFrom12
    \/ model = "snapshots" /\ SN!Init /\ NoneFrom12
    \/ model = "restore" /\ SR!Init /\ x13 = None /\ NoneFrom14

\* What a step of each model leaves alone.
Frame ==
    /\ UNCHANGED model
    /\ \/ model = "vote" /\ UNCHANGED from15
       \/ model = "rec"
       \/ model = "burn" /\ UNCHANGED from21
       \/ model = "baseapp" /\ UNCHANGED from10
       \/ model \in {"gov", "snapshots"} /\ UNCHANGED <<x12, x13, from14>>
       \/ model = "restore" /\ UNCHANGED <<x13, from14>>

Next ==
    /\ Frame
    /\ \/ model = "vote" /\ VR!VotesNext
       \/ model = "rec" /\ RI!IssuanceNext
       \/ model = "burn" /\ BR!Next
       \/ model = "baseapp" /\ BA!Next
       \/ model = "gov" /\ GV!Next
       \/ model = "snapshots" /\ SN!Next
       \/ model = "restore" /\ SR!Next

\* The fairness of each model, as it states it.  model never changes, so one
\* weak fairness condition on a disjunction over the models is the same as one
\* condition per model.
Fair1 ==
    \/ model = "vote" /\ VR!SkipVote
    \/ model = "rec" /\ RI!QueueIssue
    \/ model = "burn" /\ BR!Fetch
    \/ model = "baseapp" /\ BA!InitChain
    \/ model = "gov" /\ GV!EndBlock
    \/ model = "snapshots" /\ SN!snapshot(1)
    \/ model = "restore" /\ SR!Worker
Fair2 ==
    \/ model = "vote" /\ \E sent \in BOOLEAN : VR!ConsumeVote(sent)
    \/ model = "rec" /\ RI!TakeTask
    \/ model = "burn" /\ BR!Enqueue
    \/ model = "baseapp" /\ BA!BeginBlock
    \/ model = "snapshots" /\ SN!snapshot(2)
    \/ model = "restore" /\ SR!Caller
Fair3 ==
    \/ model = "vote" /\ \E t \in x9 : VR!CloseRound(t)
    \/ model = "rec" /\ RI!Submit
    \/ model = "burn" /\ BR!Take
    \/ model = "baseapp" /\ BA!DeliverTx
    \/ model = "snapshots" /\ SN!snapshot(3)
Fair4 ==
    \/ model = "vote" /\ \E t \in x9 : VR!LookUpAddress(t)
    \/ model = "rec" /\ RI!WrongSequence(TRUE)
    \/ model = "burn" /\ BR!Parse
    \/ model = "baseapp" /\ BA!EndBlock
    \/ model = "snapshots" /\ SN!snapshot(4)
Fair5 ==
    \/ model = "vote" /\ \E t \in x9 : VR!SendTask(t)
    \/ model = "rec" /\ RI!Refused(TRUE)
    \/ model = "burn" /\ (BR!SubmitFails \/ BR!Submit)
    \/ model = "baseapp" /\ BA!Commit
Fair6 ==
    \/ model = "vote" /\ VR!RunTask
    \/ model = "rec" /\ RI!Deliver
    \/ model = "burn" /\ BR!ReplyErr
Fair7 == model = "burn" /\ BR!Deliver
Fair8 == model = "burn" /\ BR!Reply
Fair9 == model = "burn" /\ BR!Mark

Fairness ==
    /\ WF_vars(Fair1 /\ Frame) /\ WF_vars(Fair2 /\ Frame) /\ WF_vars(Fair3 /\ Frame)
    /\ WF_vars(Fair4 /\ Frame) /\ WF_vars(Fair5 /\ Frame) /\ WF_vars(Fair6 /\ Frame)
    /\ WF_vars(Fair7 /\ Frame) /\ WF_vars(Fair8 /\ Frame) /\ WF_vars(Fair9 /\ Frame)

Spec == Init /\ [][Next]_vars /\ Fairness

-------------------------------------------------------------------------------
\* The bridge gets its work done: every vote is read and leaves memory in a round
\* that is executed or given up, also after a rebalance or a restart; the worker
\* finishes every task and is idle with an empty queue and no blocked sender again
\* and again; and every burn request is finished, except those a restart passed
\* over.  Timers, the bounded queue, the worker and the consumers never wait for
\* each other in a circle.
BridgeProgress ==
    /\ []<>(model = "vote" => VR!AllSettled)
    /\ []<>(model = "rec" => RI!Drained)
    /\ []<>(model = "burn" => BR!AllSettled)

\* The node goes on: every decided block is committed, also when the process dies
\* in InitChain, in the middle of a block or between EndBlock and Commit; every
\* proposal is decided or dropped; no snapshot goroutine waits for ever; and a
\* restore that is fed its chunks ends and leaves the manager free, but in one case,
\* which blocks it for good: the stream cannot be opened, and RestoreChunk already
\* waits with the sixth chunk for room in the channel, which is not drained then.
NodeProgress ==
    /\ []<>(model = "baseapp" => BA!AllCommitted)
    /\ []<>(model = "gov" => ~GV!IsOpen(1))
    /\ []<>(model = "snapshots" => SN!AllEnded)
    /\ []<>(model = "restore" => SR!Free)
===============================================================================
