# TLA+ models of the mobile blockchain network

This directory models the parts of the repository that carry its own logic: the
reward module of the chain (`cosmos/x/reward`) and the full node bridge
(`cosmos/fullnode_bridge`) that turns readings of solar devices, received over
Kafka, into transactions of that module. Beside them it models the parts of the
Cosmos SDK, which the repository carries in full, that decide whether those
transactions are executed once, in order, and survive crashes: the application
(`baseapp`, the ante handler), the stores, state sync, and the modules with
state machines of their own (`x/gov`, `x/staking`, `x/slashing`, `x/evidence`,
`x/capability`, `x/mapping`).

## The system

| Component | State | Operations | Talks to |
|---|---|---|---|
| Stable coin and collateral (`x/reward/keeper`: keeper, collateral, burn, remove, liquidation, reward_percent) | `supply` (minted), `rec_record/`, `rec_meta/`, bank balances | RewardSolarPower, BurnStableCoin, DepositCollateral, CreateRECRecord, RemoveCollateral, BurnModuleStable, DistributeRewardPercent | `x/bank` by calls |
| Energy book and node list (addREC, link, query) | `total_energy`, `EnergyByAddress/`, `EnergyTx_Key`, `TxNode/`, `TxListHead`, `TxListTail` | AddEnergy, AppendTxHash, TxNodeList | clients through events |
| Vote collector (`consumer/kafka_consumer.go`) | VoteMap, DeviceID, deviceAddressMap, timer goroutines, TxQueue, Kafka offsets | ConsumeClaim, startVoteTimer, address consumer | light nodes and mapping service by Kafka, the worker by TxQueue |
| Worker and sequence cache (`kafka_consumer.go`, `tx/broadcaster.go`) | RECCount, seqCache, cacheInitialized, the running task | light task (reward, AddEnergy), block creator task (CreateRECRecord, AppendTxHash, DistributeRewardPercent), burn task | the chain by BroadcastTxCommit; shares its account with the CLI |
| Burn consumer (`consumer/kafka_burn.go`, `tx/collateral.go`) | Kafka offsets and sessions, burn tasks on TxQueue | request, burn, reply, mark, restart, rebalance | light nodes by Kafka, the worker by TxQueue, the chain |
| Collateral, balance, REC and member consumers | Kafka offsets, VoteMemberCount | request and reply | a separate `simd` process (collateral) |
| `baseapp` with the ante handler and `x/mapping` | deliverState, checkState, block gas, the mempool and the block store of the engine | InitChain, BeginBlock, DeliverTx, EndBlock, Commit, CheckTx, recheck, Simulate | the engine by ABCI, the root multi-store |
| Root multi-store (`store/rootmulti`) | versions of the IAVL stores, commit infos, latest version, prune heights | load, commit, prune, flush, rollback, upgrade | the disk, the rollback command |
| Cached branch (`store/cachekv`) | parent, cache, unsorted and sorted keys, deleted keys | Get, Set, Delete, Write, iterators | every message of every module |
| State sync (`snapshots`) | metadata and chunk files on disk, the manager's operation, channels to the restore goroutine | Create, Prune, Restore, RestoreChunk | goroutines after Commit, the engine |
| `x/gov` | proposals, deposits, votes, two queues | submit, deposit, vote, end blocker | `x/bank`, `x/staking`, the proposal handlers |
| `x/staking`, `x/evidence` | validators, delegations, unbondings, redelegations, pools, power index, three queues | delegate, undelegate, redelegate, create, slash, jail, unjail, end blocker | the engine's validator set |
| `x/slashing` | signing record, missed block bits | signature handling in the begin blocker, unjail | `x/staking` |
| `x/capability` | index and owners (disk), forward and reverse keys (memory store), Go map | new, get, claim, release, InitMemStore | modules in transactions |
| `x/light_tx`, `x/mymodule` | RECMetas that nothing reads, nothing | SendLightTx, Hello | |

What is hard here: goroutines of the bridge share maps and counters; transactions
may fail at the simulation, at delivery, or time out and commit later; the
account sequence is guessed; Kafka repeats messages after a restart or a
rebalance; the chain keeps its own count of coins beside the bank's; RECs are
counted by truncated division. On the node: a crash between any two writes of a
commit, a block replayed, state kept in memory beside the store that is rolled
back, rounding in two directions, several queues that must name the same things,
and goroutines that run on while blocks go on. `PROJECT.json` lists the hazards at
their lines with the properties that cover them.

What makes each component right:

* coin: every coin stays backed by RECs, RECs leave only against coins, the two
  supplies agree;
* energy book: no energy lost or counted twice, no hash in two batches or none,
  the node list is the history of appends;
* vote collector: one timer per open round, no vote in two rounds unless Kafka
  repeated it, every vote ends, what Kafka still owes is not lost;
* worker: never more RECs than the energy announced, appended ids are existing
  RECs and fresh, a wrong sequence costs one failure, the queue drains;
* burn consumer: a second burn of a request has a restart behind it, offsets never
  run ahead of the work, a burn behind an "err" has a timeout, a lost reply or a
  restart behind it;
* baseapp: every transaction is charged once and in sequence, all of its messages
  or none take effect, checkState is the committed state with the pool ahead;
* stores: the cached branch is what it promises (`KVBranch`), a crash leaves a
  disk that loads and holds each block once (the first block of a store excepted,
  see below), what is to be kept is kept;
* state sync: a listed snapshot is complete, a restore reported complete is
  complete, nothing waits for ever but for one race of RestoreChunk (see below);
* gov: deposits are held, refunded or burned exactly; each delegation counts once;
  queues match statuses; a failing handler leaves no trace;
* staking: pools hold what validators and entries say, the index and the queues
  are exact, the engine knows the bonded set;
* slashing: the counter is the window, exactly the absent are punished;
* capability: what the memory store names is in the map, owners authenticate, a
  restart changes no answer, for every capability that no failed or simulated
  transaction took from the map.

## Modules

| Module | Models | Uses |
|---|---|---|
| `RewardCoin` | coin and collateral; one action per message of `x/reward` that touches them, `SendCoins` of `x/bank`, and block changes | |
| `CollateralisedCoin` | what the coin promises: pledge, issue, redeem, release over three numbers | |
| `SumTheorems` | what a sum over a finite set is, for the proofs about amounts | TLAPS |
| `EnergyLedger` | AddEnergy, AppendTxNode with the reset, the TxNodeList walk | |
| `VoteRounds` | votes, rounds, timers, address answers, TxQueue, offsets, sessions of the consumer group, restarts | |
| `RewardProofs` | theorems about `RewardCoin` and `VoteRounds`, each for all values of its constants | the models, `SumTheorems`, TLAPS |
| `RecIssuance` | the worker, RECCount, the sequence cache, mempool and blocks; its AddEnergy and AppendTxHash transactions are `EnergyLedger`'s actions | `EnergyLedger` |
| `RecIssuanceProofs` | theorems about `EnergyLedger` and `RecIssuance`, and that the second implements the first | `RecIssuance`, `SumTheorems`, TLAPS |
| `BurnRequests` | burn requests, their tasks, replies, offsets, sessions, restarts, late commits | |
| `BaseApp` | ABCI calls, the ante handler, messages of `x/mapping`, block gas, mempool, crash and replay | |
| `BaseAppProofs` | theorems about `BaseApp` | `BaseApp`, `SumTheorems`, TLAPS |
| `Gov` | proposals, deposits, votes, tally, end blocker, handlers | |
| `Staking` | delegations, validators, slashing, evidence, queues, end blocker | |
| `Slashing` | one validator's signing record against the engine's late votes | |
| `Capability` | the capability keeper over block and transaction branches, restarts | |
| `ChainPartProofs` | theorems about `BurnRequests`, `Capability`, `Slashing` and `Gov`, each for all values of its constants | the models, `SumTheorems`, TLAPS |
| `KVBranch` | what a branch of a store promises | |
| `CacheKV` | the cached branch with its iterators; shown to implement `KVBranch` | `KVBranch` |
| `RootMulti` | commit, prune and load of the IAVL stores with crashes | |
| `Snapshots` | snapshot goroutines, the snapshot store on disk, block retention | |
| `SnapshotRestore` | the restore goroutine, its channels and RestoreChunk | |
| `StoreProofs` | theorems about `RootMulti`, `Snapshots` and `SnapshotRestore`, each for all values of its constants | the models, TLAPS |
| `ChainInstances` | values for constants | |
| `MCRewardCoin`, `MCEnergyLedger`, `MCVoteRounds`, `MCRecIssuance` | instances of one model each | the model |
| `MCChain`, `MCStorage`, `MCProgress` | instances of several models | the models |
| `ChainProofs`, `StorageProofs` | what the general theorems say of the instances of `MCChain` and `MCStorage` | the instances, the proofs |

`MCChain`, `MCStorage` and `MCProgress` each check several models that have no
state in common. A behaviour of such a module is a behaviour of one of them: the
variable `model`, chosen in `Init` and never changed, says which, `x1, x2, ...`
are its variables (mapped by `INSTANCE ... WITH`, so no definition is repeated),
and a property joins the properties of one model, or of one concern, for the
behaviours of those models; each part has a mutant of its own in `PROJECT.json`.

How state and actions correspond to the code:

* **Messages.** baseapp runs a transaction on a branch of the store and drops the
  branch when a handler returns an error or panics. So an action is a message
  that succeeds, the conditions under which the code returns an error are its
  guards, and a failing message is a stutter.
* **RewardCoin.** A REC is its store key: `rec-<height>-<i>` is the pair
  `<<height, i>>`, so that overwriting a key (a second create in a block, a
  deposit with an id in use) does not count twice. `DropCollateral` is the pair
  of deletion loops, which take the first keys in byte order (`KeyBefore`).
  `removed`, `removedFor` and `liquidated` are history.
* **EnergyLedger.** Energy is in whole Wh; the float64 of the code is exact for
  integers below 2^53. `WholeRECs` truncates towards zero as `int64()` does.
  A node is stored with the `Next` of its message, which nobody checks (`Nexts`
  are the values a client may send; the bridge and the CLI leave it empty); the
  next append overwrites the pointer of its predecessor, so only the pointer of the
  last node is ever the client's (`sentNext`). `FreshAppends` says that no rec id
  came twice; without it the list breaks (run `node_list_query`), and
  `RecIssuance` shows that one bridge keeps it.
* **VoteRounds.** What happens under VoteMutex is one step; each thing a timer
  does after the unlock is a step. A vote is its offset in the topic. `marked`
  and `committed` are the consumer group's offsets. A session of the group ends
  with a crash or a rebalance, and the next one begins at what is committed by
  then (by this process or by another member of the group), or at the newest
  offset if there is nothing: `Rebalance` keeps VoteMap, the timers and TxQueue, as
  the loop around Consume does, and `Crash` clears them. An entry of VoteMap is
  the pair of session and offset, so that a vote delivered twice can be told from
  one counted twice. The Go runtime may abort the process on the unlocked read of DeviceID: that
  outcome is `Crash`.
* **RecIssuance.** The six submissions of `broadcaster.go` (the burn task's among them) have one course: next
  sequence from the cache, simulation on the check state, mempool, wait. So they
  are one set of actions (`Submit`, `WrongSequence`, `Refused`, `Timeout`,
  `Deliver`, `DeliverFails`, `FirstQueryFails`), and `step` says which
  transaction it is and `Succeeded` and `Failed` what follows. The check state
  expects the committed sequence plus the pending transactions. A block delivers
  one transaction; two creates of one bridge are separated by a wait for a block,
  so their heights differ in the code as well. Transactions are not evicted from
  the mempool. `ForeignTx` is the collateral consumer's `simd` process.
* **BurnRequests.** A request is its offset. `session` numbers the consumer
  group's sessions: a mark counts only in the session that handed the request
  out, so a task left on TxQueue by an old session burns and its mark is lost.
  `restart` without any committed offset begins at the newest request
  (`skipped`). A timeout leaves the transaction in the mempool, to commit later.
* **BaseApp.** A store is the balances, sequences and devices; `deliver` is the
  block's branch and `log` remembers what DeliverTx did. Public keys and
  multi-signatures are one valid signature, but its sequence is checked in every
  mode the code checks it in. Gas is what the writes cost; the context's own meter
  is kept because a transaction that does not decode is charged from it. `Crash`
  loses everything but the committed store and the engine's blocks; the engine
  replays the block it had decided.
* **Gov.** Votes are weights in halves; thresholds are compared as fractions with
  cross-multiplication, quorum as a pair. Staking is one of a set of snapshots,
  which may change at any time. A handler runs on a branch that is written only
  when it succeeds.
* **Staking.** The whole keeper state is one record `s`, so the functions of the
  code are operators from record to record, composed in the code's order. Decimals
  have `P = 100` for one (the code has 10^18) and are truncated or rounded where
  the code does. The engine's power is `tokens \div PowerReduction`, in the power
  index, in the choice of the bonded set, in what the engine is told and, back
  again, in what a slash takes. Height and time are one clock. A queue is a set of its entries,
  keyed by time. A panic in a begin or end blocker halts the node (`halted`).
* **Slashing.** One validator; the votes of a block reach the begin blocker as the
  last commit, and a validator set decided in a block signs two blocks later, so
  votes of the old set arrive after the record was reset.
* **Capability.** A capability is its index and the address it has in memory.
  Names are numbers in the order of their keys. A transaction may succeed, fail or
  panic at any point or be simulated; the Go map keeps what it did. `lost` is
  history: the indices whose entry in the map a transaction without effect changed,
  or that were claimed after their release. `Tidy` is what the code leaves to its
  callers. No address is given twice (the Go runtime may reuse the one of a
  collected capability).
* **CacheKV.** The threshold of 1024 unsorted keys is 2. The iterators of tm-db
  and of the parent are external: they read the store as it was when they were
  opened. One iterator is open at a time; while it is, the caller writes only
  keys outside its domain or the one just returned.
* **RootMulti.** A store's content is the list of blocks applied to it, so that a
  block applied twice can be seen. The process may die between any two writes.
  `repeats` is history: of each store, the crashes inside its first commit after it
  had saved, each of which makes it apply its first block again, since a store
  without commit info is loaded at its latest version. The IAVL tree is external: saving a version
  that exists with the same content is allowed, with other content it panics;
  version 0 stands for the latest one; `Strict` chooses what DeleteVersions does
  with a batch that names a missing version.
* **Snapshots, SnapshotRestore.** A chunk is a file that is being written
  ("part") or complete ("whole"). A crash keeps the disk. The channel of chunks
  has its real capacity of 4 and a snapshot six chunks, so that RestoreChunk can
  find the channel full while the goroutine still opens the stream; the stream reads chunks as it needs them.

## Runs

| Run | Shows |
|---|---|
| `reward_coin` | backing, agreement with the bank, redeemability of all coins, refinement of `CollateralisedCoin`, with and without mcnl to liquidate |
| `remove_rate` (violation) | RemoveCollateral drops one REC per 1000 coins, its comment says 1,000,000 |
| `energy_ledger` | conservation of energy and hashes, node list equals history whatever next pointers are sent |
| `node_list_query` (violation) | a rec id appended twice makes the list circular and the query endless |
| `vote_rounds` | one timer per round, no vote twice in a session, uncommitted votes survive rebalances and a restart |
| `late_vote` (violation) | a late vote reopens a hash that the comment says runs once |
| `rec_issuance` | bounds on RECs, fresh appends, the price of a stale sequence, no silent loss |
| `rec_nodes` (violation) | only the first REC of a batch gets a node |
| `chain` | the safety of `BaseApp`, `Gov` (two instances: money and queues, and tallies), `Staking`, `Slashing` (a fixed and a changing window), `Capability`, and of `BurnRequests` |
| `storage` | the safety of `CacheKV` with its refinement of `KVBranch`, `RootMulti` (four instances: crashes, an upgrade that adds a store, rollbacks, no recent height kept), `Snapshots`, `SnapshotRestore` |
| `progress` | the liveness of seven models: `VoteRounds`, `RecIssuance`, `BurnRequests` (`BridgeProgress`), `BaseApp`, `Gov`, `Snapshots`, `SnapshotRestore` (`NodeProgress`) |
| `rootmulti_rollback` (violation) | the rollback command leaves the versions after its target in the stores, so the corrected binary panics when it commits the replayed block |

Bounds. A REC is 10 coins (RewardCoin; 20 in `remove_rate`), 3 Wh (EnergyLedger, RecIssuance) or
2 coins (BurnRequests) instead of a million, with amounts below, at and above it,
so that truncation, the exact boundary and several RECs at once occur;
`RemoveUnit` keeps the ratio between the two rates on the same side. Two heights
and one deposit id that collides with a created one are enough for overwriting.
Three reports and three appends give a list with a first, a middle and a last
node and batches of zero to three hashes. Two votes on two hashes, delivered in up
to four sessions (two rebalances, one crash), allow two votes in a round, a late
vote, two rounds at once, and a repeated vote that meets its own open round; a
queue of one slot makes senders wait. Two light transactions, two creator messages and one or two of
each disturbance let an overwritten count, a late commit, a foreign transaction,
failures and a restart meet in one behaviour; `SeqModulus` only has to exceed the
transactions sent, and the account starts at sequence 0 so that the decrement
wraps; `MaxHeight` is 20, more blocks than a behaviour of these bounds has. Three burn requests (one below a REC, one malformed) with two restarts and
one of each failure let a request be queued by two sessions and burnt after it was
refused.

Two blocks of two of six transactions, with a crash, contain competing and gapped
sequences, a failing second message, each way to run out of gas, and a replay. Two
proposals and five times let one proposal's effect decide another in the same
block. Two validators for one place, of three and two tokens where a unit of power
is two tokens (equal powers with different tokens, and tokens without power after a
slash), four messages in five heights and an unbonding time of two let slash, unbonding, redelegation, re-bonding and evidence
for an earlier height meet. Fourteen heights are three windows of four and the
blocks in which late votes arrive. Two capabilities, two modules and two blocks
give a release by one of two owners and a restart in between. Three keys with a
threshold of two take both paths of `dirtyItems`. Seven heights with
keep-every 3 and interval 2 prune several batches around kept heights, with up to
three crashes. Five snapshot heights with two kept and two chunks let three
goroutines overlap with a pruning; six chunks are one received, four in the
channel and one that waits.

Symmetry is used for interchangeable users, hashes, values and scoped modules,
never in a run with liveness. `CHECK_DEADLOCK FALSE` stands where the bounds end
the behaviours.

Fairness. Weak fairness throughout, stated by each model and repeated in
`MCProgress` for its behaviours. `VoteRounds`: the consumer, each stage of the
timers and the worker: goroutines of a running process are scheduled, sleeps end,
and channel senders are served in order. Nothing is assumed of light nodes, of
the mapping service, of offset commits, or against crashes. `RecIssuance` and
`BurnRequests`: the worker, the blocked consumer and block production, without
which BroadcastTxCommit and waitForNextBlock do not return. `BaseApp`: the engine
drives the ABCI calls of a decided block, as its consensus loop and its handshake
after a restart do; crashes are bounded. `Gov`: blocks go on being made.
`Snapshots`: the goroutine of each height is scheduled. `SnapshotRestore`: the
goroutine is, and the engine fetches every chunk again that it is told to.
Messages of clients owe nothing. Since every bounded event stops, "all settled
again and again" says that each one is settled in the end.

## Where the guarantees end

The instances above leave out some behaviours of the code, named here with what
happens there. Statements marked "Not so" at the end of a module can be put to
TLC with the constants given.

* `RootMulti`: a store without commit info is loaded with version 0, which the tree
  takes for its latest, so after a crash inside a store's first commit, once it has
  saved, the block is applied to it a second time and its versions stay one ahead
  of the height. Every instance has such crashes; `AppliedOnce` and `RetainedInAll`
  say that this is all that happens, once per such crash (`repeats`).
  With `KeepRecent = 0` (custom pruning options) a crash between pruning and
  flushing leaves a node that cannot be started; `LostOnlyInPruning` says that no
  other crash does. `NothingLeaks` and `RetainedInAll` are checked and proved where
  a recent height is kept.
  An upgrade that adds a store (`Added`, `UpgradeHeight`) together with a rollback
  (`MaxRollbacks > 0`) to the height before it violates `AppliedOnce`: for that
  height the new store has no commit info, and version 0 again means its latest.
  `NoEmptyAnswer` fails in any instance that prunes.
* `CacheKV` with a domain that has a start and no end (`[start |-> 1, end |-> 0,
  asc |-> TRUE]`) violates `ImplementsBranch`: `dirtyItems` compares the nil end
  as the empty string, returns early, and the iterator misses dirty keys.
* `Staking` with `MaxHeight = 6` and `MaxMsgs = 5` violates `NoHalt` (slashing a
  redelegation reads a destination validator that the slash itself removed) and
  `TombstonedStaysOut` (a tombstoned validator that was emptied is created again
  with its key). The properties of `chain` are stated for a node that has not
  halted.
* `Slashing` with a window that shrinks violates `CounterIsSum` (bits beyond it
  are never visited again), and with at most one miss allowed
  `NotImmediatelySlashed` (`MinSigned = 75` with a window of four).
* `Snapshots`: `ErrorsPropagate` fails with one failure (an error before the first
  chunk has no pipe to travel through), and `BlocksSinceOldest` when
  `interval * keep-recent` equals the commit height (zero stands for "no bound")
  or a snapshot goroutine is slow.
* `SnapshotRestore`: a stream that cannot be opened ends the goroutine without
  draining the channel. A RestoreChunk that looked for errors just before then
  waits with the sixth chunk at the full channel inside the manager's mutex, and
  nothing on this manager ends any more (`Blocked`). The run `progress` has six
  chunks and reaches it; `NodeProgress` says that this is the only way in which a
  restore that is fed does not end. `ErrorsSeen` fails with three chunks.
* `VoteRounds`: a vote that Kafka repeats after a rebalance or a crash is counted
  again, in the round that still holds it or in another; `NoVoteTwice` says once per
  delivery.
* `EnergyLedger`: a message whose `Next` names a node of the list makes the
  TxNodeList walk endless until the next append; `ListIsHistory` says so.
* `Capability`: the Go map is not rolled back. After a transaction that released the
  last owner and failed, or was simulated, GetCapability panics for an owner the
  stores still name; after a simulated NewCapability the map holds a capability that
  does not authenticate. Both last until the next restart and are exactly what
  `lost` names; `CapabilitiesKept` is about all other capabilities. With
  `Tidy = FALSE` `RestartInvisible` fails. No module of this application creates
  capabilities, so none of this is reached here.
* `BaseApp`: the comment of IncrementSequenceDecorator (`RecheckKeepsSequences`)
  does not describe what a recheck does.

## Theorems

Proved by TLAPS for all values of the constants. The assumptions say what the
constants are: the ASSUMEs `CoinAssumption` (the module account is no user, a REC
is worth at least one coin), `EnergyAssumption`, `VoteAssumption` (the markers for
"no device" and "no owner" are no devices or owners) and `IssuanceAssumption`,
and, for the models that TLC only sees through an instance, the hypotheses
`BurnAssumption`, `BaseAppConstants`, `GovRules`, `SlashingConstants`,
`SnapshotsConstants` and `RestoreConstants` of their theorems, which `ChainProofs`
and `StorageProofs` discharge for the values of the runs. Three hypotheses say more,
and where they fail the code fails too (see above): `Rules` of `Capability` (tidy
callers: a module claims a capability once and under a free name), `Limits` of
`RootMulti` (at least one recent height kept where heights are pruned, no upgrade
together with a rollback) and `OneWindow` of `Slashing` (the window is not
changed). A proof module states the inductive invariant first, then
one lemma per conjunct, with a case per action, and then the theorems.

`SumTheorems`: the coins of holders, the energy of contributors, the deposits on
proposals, the fees and the gas of a block are sums over a set in an order that CHOOSE picks. `SumIsAdditive`
says that such a sum is the value of any function on subsets that is 0 on the
empty set and grows by the summand with each element; the proof takes a smallest
subset on which the two differ (`SmallestSet`) in place of an induction. What one
changed, moved, scaled or added summand does to the sum follows.

`RewardProofs`, first part, about `RewardCoin`: `TypeCorrect`, `MintedAgrees`, `MintedIsBacked`,
`RecsLeaveOnlyAgainstCoins`, `CoinRefinement`,
`BalancesAddUp`, `HoldersCanRedeem`. TypeOK (which holds that the REC sets are
finite) is inductive. `Backed` is inductive together with it: the lemma
`BackedStep` rests on `BurnWorth` (a burn drops `amount \div OneREC` RECs, whose
worth is at most the amount) and on `DropCollateralCount` (the two loops together
delete exactly that many). The refinement reuses the same lemmas: each message is
a pledge, an issue, a redemption, a release or a stutter of `CollateralisedCoin`.
With finitely many users, balances add up to the supply of the bank
(`BalancesAddUp`); whole RECs rounded down for each holder are then at most the
supply rounded down, which is backed (`HoldersCanRedeem`).

Second part, about `VoteRounds` (whose Init, Next, Spec and TypeOK are `VotesInit`,
`VotesNext`, `VotesSpec` and `VotesTypeOK`, so that one module can extend both
models): `VoteInvHolds`, `VoteTypeCorrect`, `OneTimerPerRoundHolds`,
`NoVoteTwiceHolds`, `UncommittedNotLostHolds`. The invariant adds that what a
round or a timer holds was read, in this session or in an earlier one, whose
deliveries no later one can repeat (`HeldWereRead`), that a sleeping timer has taken
nothing (`TimersInOrder`), and that between the mark and the position lie only
votes that were skipped (`MarkCoversValid`, but for a restart at the newest
offset); the last is what lets a restart resume at the mark.

`RecIssuanceProofs`, first part, about `EnergyLedger`: `LedgerTypeCorrect`,
`NoEnergyLost`, `ListIsHistoryHolds`, `BatchStaysAttributed`,
`HashesStayInOrder`. `NoEnergyLost` rests on `ResidueFacts` (what is kept plus what
is counted is the total, for either sign). `ListLinked` (each node but the last
points to the next append, the last one to what its message said) is inductive with
TypeOK: a fresh id has no node yet, so writing it disturbs no pointer but the
tail's, which it overwrites.
`ListIsHistoryHolds` is about a recursive walk; instead of an induction over it,
the proof takes the least step at which walk and history differ and contradicts it
with the link of the node before. `HashesStayInOrder` is about a flattened sequence
of sequences: `Joins` names the partial concatenations, and the least one that
differs is contradicted in the same way.

Second part, about the worker: `IssuanceInv` adds to the types what the worker
knows at each step (`WorkerInOrder`), what a pending transaction carries
(`PendingSound`), that the awaited transaction is the youngest (`AwaitedIsLast`),
and that before the first failure nothing pending was given up
(`CleanIsAwaited`). Without `AwaitedIsLast` a late commit could be taken for the
answer to the current transaction. From it:

* `IssuanceImplementsLedger`: every behaviour of bridge, mempool and chain is one
  of `EnergyLedger`; the rec ids appended are fresh because their heights are;
* `NeverOverRequestedHolds`, `NothingLostHolds`: RECs created, pending and counted
  never exceed those announced, and equal them while nothing went wrong;
* `RecsCoveredHolds`: the RECs on the chain and those of the pending creates add
  up to at most those asked for (`RecsRequested`, partial sums along the mempool
  in place of an induction), and these to at most the energy reported;
* `StaleAtMostDisturbedHolds`: the guess is out of step only while a disturbance
  is not paid for, and a refusal brings it back, across the wrap of uint64;
* `AppendsAreRecsHolds`: an appended id is a created REC, and no id comes twice.

`BaseAppProofs`: `TransactionsSafe`, the four properties of `BaseApp` that
`TransactionsOnce` joins. A transaction is run by folding its messages over a
branch of the store, so the lemmas on `runTx` and `runDeliver` (`StepsExist`,
the states of a fold) come first: what the ante handler leaves when the messages
fail, and that a block out of gas drops the writes. `AppInv` then says

* that at most one decided block is uncommitted, and which blocks the log may hold
  entries of (`AppBlocks`, `AppLog`);
* that before the first commit nothing passes CheckTx and deliverState is genesis
  (`AppStart`), which is what makes a crash before height 1 harmless;
* that the committed state, and in a block deliverState and its gas meter, are the
  outcome of the log up to that block (`AppState`): a crash cuts the log back to the
  committed part, where the first clause still holds;
* that checkState is ahead of the committed state by the pooled transactions that
  were checked again (`AppPool`), where a recheck, which compares no sequence, still
  advances it.

`ChainPartProofs` holds the proofs about four models of the chain run.

* `BurnRequests`: `BurnInvHolds`, `BurnTypeCorrect`, `BurnsBoundedHolds`,
  `CommittedAreSettledHolds`, `RecsAccountedHolds`, `HiddenBurnsArePaidHolds`.
  `BurnsBoundedByRestarts` counts the places a burn of a request may still come
  from (`CopiesBounded`: the topic ahead of the consumer, the consumer's hand, the
  queue, the worker, the mempool); a step moves a request between places, and only
  a restart adds one. `CommittedAreSettled` needs the order of a session
  (`InOrder`) and that nothing behind the position is forgotten (`Covered`), since
  a failed request is committed only by the mark of a later one.
  `HiddenBurnsArePaid` needs that untold burns are at most the losses, and, without
  a rebalance, that one loss is to spare unless the refused requests lie behind all
  the worker may still take (`HiddenPaid`): otherwise a request that is burnt again
  and about to be told would be one too many.
* `Capability`: `CapabilityInvHolds`, `CapabilitiesSafe`. The invariant says of each
  branch (committed, block, transaction) that owners and indices fit
  (`Persistent`), that the memory store names only what the map holds under the
  address it was given (`InMemory`), and that it names all of it (`Complete`),
  except after a restart, until the first block, and for the indices that are lost
  or that the delivered transaction has just released.
* `Slashing`: `CountersAreBits`, `CountersAreWindows`, `DowntimePunished`,
  `RecordsTyped`. `RecordInv` ties the counter to the number of bits; `WindowInv`
  says which vote each bit of the ring stands for, so that the bits are the last
  votes of the window, whatever the offset.
* `Gov`: `GovInvHolds`, `GovernanceSafe`. The end blocker handles the due proposals
  one after the other, so the invariant (`GovSound`) is about the state it passes
  on: `Money`, `Queued` and `Spent` hold before and after each proposal
  (`DropSound`, `FinishSound`), and a sweep over a queue keeps them and removes
  exactly the due entries (`SweepSound`, by the first entry after which it would
  not; that the due entries have an order at all is `SortedExists`). The panic of
  the queue iterator, a proposal that does not exist, is thereby excluded.

`StoreProofs` holds those about three models of the storage run.

* `RootMulti`: `RootInvHolds`, `CommitsSurvive`, `ReplayNeverPanics`,
  `KeptHeightsAnswer`, `NoHeightLeaks`. The invariant says, for each point of a
  commit at which the process may die, which versions are on disk, what the commit
  info and the latest version name, and which heights the prune list in memory and
  on disk still holds. The version of a store is the height plus `repeats`, which
  grows only before its first commit is flushed (`RepeatsSound`): a crash there
  leaves one version more, with one block more, and loading version 0 finds
  exactly that.
* `Snapshots`: `SnapshotsInvHolds`, `SnapshotsTypeCorrect`, `ListedIsCompleteHolds`,
  `NewestAreKeptHolds`. The manager's operation is a lock (`OneOperation`), and what
  Create and Prune looked at when they took it stays true until they end
  (`SavingNewest`, `PruningOldest`).
* `SnapshotRestore`: `RestoreInvHolds`, `RestoreTypeCorrect`,
  `CompleteIsRestoredHolds`, `NeverUnexpectedHolds`. The chunks received and those
  in the channel are together the chunks handed in (`Restoring`), and the goroutine
  ends well only after it has read the last one (`Importing`).

`ChainProofs`, `StorageProofs`: `BurnsAccountedHolds`, `TransactionsOnceHolds`,
`CapabilitiesKeptHolds`, `CounterIsWindowHolds`, `DowntimeIsJailedHolds`,
`GovernanceInvariantsHolds`, `SnapshotsServedHolds`, `NewestAreKeptInRun`, `CommitsSurviveCrashesHolds`,
`PruningExactHolds`. The runs `chain` and `storage` check joint properties of
instances; these theorems derive them, for the specifications TLC explores, from
the step lemmas above.

Only model-checked: the properties of `Staking` (its operators fold over several
queues at once) and of `CacheKV` with its refinement, and with them
the joint type invariants of `MCChain` and `MCStorage`; `LostOnlyInPruning`;
`DelegationsCountOnce`,
which is exact only for stakes whose divisions are; liveness and `ENABLED`, which
are out of the prover's reach.

## Not modelled

`x/light_tx`'s store, which nothing reads; `x/mymodule`, which has no state; the
balance, REC and member consumers, which answer queries or keep a number that
only commented-out code reads; of the SDK: `x/bank` beyond balances and supply,
`x/distribution`, `x/mint`, `x/params`, `x/crisis`, `x/authz`, `x/feegrant`,
`x/upgrade` except the stores it adds, editing a validator, historical infos and
vesting, renamed and deleted stores, the inter-block cache, IAVL and proofs,
extension snapshotters and the encoding of snapshot items; signatures and public
keys; queries other than those named; client commands, the gateway, codecs and
generated code, most of the repository's lines, which have no state of their own.

## Plan

1. Done: the reward module and the bridge (`RewardCoin`, `CollateralisedCoin`,
   `EnergyLedger`, `VoteRounds`, `RecIssuance`, `BurnRequests`), the application
   and its modules (`BaseApp`, `Gov`, `Staking`, `Slashing`, `Capability`), the
   stores and state sync (`CacheKV`, `RootMulti`, `Snapshots`,
   `SnapshotRestore`); proofs about all of them but `Staking` and `CacheKV`.
2. Next models: the allowances of `x/feegrant` and the grants of `x/authz`,
   `x/upgrade` with a node that is restarted around the plan's height, the rewards
   of `x/distribution` against the slashes of `Staking`; two bridges on one
   chain, whose creates may share a height; `RewardCoin` and `EnergyLedger`
   composed.
3. Next proofs: the refinement of `KVBranch` by `CacheKV`, whose invariant has to
   say what the unsorted and the sorted cache of an open iterator hold; the sums of
   `Staking`.
