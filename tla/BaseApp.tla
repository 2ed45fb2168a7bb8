-------------------------------- MODULE BaseApp --------------------------------
(***************************************************************************)
(* Transaction execution of one node: baseapp/baseapp.go and abci.go with  *)
(* the ante handler chain of x/auth/ante and, as the messages that are     *)
(* executed, RegisterDevice of x/mapping.                                  *)
(*                                                                         *)
(* A store is abstracted to what these handlers read and write: whether    *)
(* genesis is in it, the sequence and balance of every account, the fees   *)
(* collected and the device mapping.  Branching (CacheMultiStore) is a     *)
(* copy, Write() an assignment.  Gas is counted in a few units: one for    *)
(* the bytes of a transaction, one for its signature, MsgGas for a write.  *)
(* The consensus engine (block store, mempool, replay after a restart) is  *)
(* external and follows the ABCI calls the code relies on.                 *)
(***************************************************************************)
EXTENDS Integers, Sequences, SequencesExt, FiniteSets, Functions

CONSTANTS
    Accounts,      \* addresses with an account in genesis
    Devices,       \* device ids that may be registered
    Txs,           \* the transactions clients sign; see TxOK
    InitBal,       \* genesis balance of every account
    MinGasPrice,   \* minGasPrices of this node, per unit of gas
    MaxBlockGas,   \* Block.MaxGas of the consensus parameters
    MsgGas,        \* gas of the store write of one message
    BlockGas,      \* gas InitChain or BeginBlock leaves on the context's own meter
    ParamGas,      \* gas of reading the consensus parameters once
    MaxHeight, MaxBlockTxs, MaxPool, MaxCrashes   \* bounds of the instance

NoAddr == "none"       \* nothing is stored for a device
BadAddr == "bad"       \* a mapped address that is not valid bech32

\* A transaction: its only signer and sequence, fee, gas limit, timeout
\* height (0: none) and messages; msgs = <<>> is refused by every node.
TxOK(t) ==
    /\ t.signer \in Accounts
    /\ t.seq \in Nat /\ t.fee \in Nat /\ t.gas \in Nat /\ t.timeout \in Nat
    /\ t.msgs \in Seq([device : Devices, addr : Accounts \cup {BadAddr}])

\* What the constants are.
BaseAppConstants ==
    /\ {InitBal, MinGasPrice, MsgGas, BlockGas, ParamGas, MaxHeight} \subseteq Nat
    /\ {MaxBlockTxs, MaxPool, MaxCrashes} \subseteq Nat
    /\ MaxBlockGas \in Nat \ {0}
    /\ \A t \in Txs : TxOK(t)

VARIABLES
    cms,      \* [height, store]: the root multistore as last committed, on disk
    deliver,  \* deliverState: [on, store, gas, meter]; gas is the block gas
              \* meter, meter the context's own infinite meter
    check,    \* checkState: [store, height], height of the context's header
    pool,     \* the mempool, a sequence of transactions
    recheck,  \* those of pool still to be rechecked after the last block
    blocks,   \* the engine's block store: decided blocks, on disk
    phase,    \* "idle", or of the current block: "begun", "ended"
    crashes,  \* crashes so far
    log       \* ghost: results of DeliverTx, [height, tx, code, charge]

vars == <<cms, deliver, check, pool, recheck, blocks, phase, crashes, log>>

EmptyStore == [live |-> FALSE, seq |-> [a \in Accounts |-> 0],
               bal |-> [a \in Accounts |-> 0], fees |-> 0,
               device |-> [d \in Devices |-> NoAddr]]

Genesis == [EmptyStore EXCEPT !.live = TRUE, !.bal = [a \in Accounts |-> InitBal]]

NoDeliver == [on |-> FALSE, store |-> EmptyStore, gas |-> 0, meter |-> 0]

Least(a, b) == IF a <= b THEN a ELSE b

Ids(s) == {s[i] : i \in DOMAIN s}

\* Sequence s without the members of S.
Without(s, S) ==
    LET rest[k \in 0..Len(s)] ==
            IF k = 0 THEN <<>>
            ELSE IF s[k] \in S THEN rest[k - 1] ELSE Append(rest[k - 1], s[k])
    IN  rest[Len(s)]

\* The transactions of block h already run.
Done(h) == Cardinality({i \in DOMAIN log : log[i].height = h})

-------------------------------------------------------------------------------
(* The ante handler chain, in the order NewAnteHandler gives it. *)

\* SetGasMeter: simulation and height 0 are not metered.
Metered(mode, h) == mode # "simulate" /\ h # 0

OutOfGas(tx, used, mode, h) == Metered(mode, h) /\ used > tx.gas

\* MempoolFeeDecorator: only in (Re)CheckTx.
FeeTooLow(tx, mode) == mode \in {"check", "recheck"} /\ tx.fee < MinGasPrice * tx.gas

\* TxTimeoutHeightDecorator, against the height of the context.
TimedOut(tx, h) == tx.timeout > 0 /\ h > tx.timeout

\* DeductFeeDecorator: the fee payer has no account, or not enough coins.
CannotPay(st, tx) == ~st.live \/ st.bal[tx.signer] < tx.fee

\* Mutant: the sequence of the signature is not compared.
BadSignatureAnySequence(st, tx, mode, h) == mode = "check" /\ h = 0

\* SigVerificationDecorator, which a recheck skips.  The signature covers the
\* chain id and account number; a context without a header has neither.
BadSignature(st, tx, mode, h) ==
    /\ mode # "recheck"
    /\ \/ tx.seq # st.seq[tx.signer]
       \/ mode # "simulate" /\ h = 0

\* DeductFees and IncrementSequenceDecorator (recheck included).
Charged(st, tx) ==
    [st EXCEPT !.bal[tx.signer] = @ - tx.fee, !.fees = @ + tx.fee,
               !.seq[tx.signer] = @ + 1]

\* The chain on branch st: whether it passed, the gas on the transaction's own
\* meter, and the branch.  An out-of-gas panic is turned into an error by
\* SetUpContextDecorator.
AnteHandle(st, tx, mode, h) ==
    LET fails(used) == [ok |-> FALSE, used |-> used, store |-> st]
    IN  CASE FeeTooLow(tx, mode) \/ TimedOut(tx, h) -> fails(0)
          [] OutOfGas(tx, 1, mode, h) \/ CannotPay(st, tx) -> fails(1)
          [] OutOfGas(tx, 2, mode, h) \/ BadSignature(st, tx, mode, h) -> fails(2)
          [] OTHER -> [ok |-> TRUE, used |-> 2, store |-> Charged(st, tx)]

-------------------------------------------------------------------------------
(* The messages. *)

SetDeviceMapping(st, d, addr) == [st EXCEPT !.device[d] = addr]

\* RegisterDevice: the address is parsed before the write, and only the write
\* consumes gas; past the limit the gas meter panics.
RegisterDevice(r, m, tx, mode, h) ==
    IF m.addr = BadAddr THEN [r EXCEPT !.ok = FALSE]
    ELSE IF OutOfGas(tx, r.used + MsgGas, mode, h)
         THEN [r EXCEPT !.ok = FALSE, !.used = @ + MsgGas]
         ELSE [r EXCEPT !.used = @ + MsgGas,
                        !.store = SetDeviceMapping(@, m.device, m.addr)]

\* runMsgs: every message in turn until one fails; none in (Re)CheckTx.
runMsgs(st, used, tx, mode, h) ==
    LET n == IF mode \in {"check", "recheck"} THEN 0 ELSE Len(tx.msgs)
        res[i \in 0..n] ==
            IF i = 0 THEN [ok |-> TRUE, used |-> used, store |-> st]
            ELSE IF ~res[i - 1].ok THEN res[i - 1]
            ELSE RegisterDevice(res[i - 1], tx.msgs[i], tx, mode, h)
    IN  res[n]

-------------------------------------------------------------------------------
(* runTx.  The result: a code, the store after it, and the gas the deferred  *)
(* consumeBlockGas charges to the block; base is the gas on the meter the    *)
(* context has before the ante handler replaces it.                          *)

\* Mutant: the message branch is written although a message failed.
runTxWritesFailed(st, tx, mode, h, base) ==
    LET ante == AnteHandle(st, tx, mode, h)
        run  == runMsgs(ante.store, ante.used, tx, mode, h)
    IN  IF tx.msgs = <<>> THEN [code |-> "malformed", store |-> st, charge |-> base]
        ELSE IF ~ante.ok THEN [code |-> "ante", store |-> st, charge |-> 2]
        ELSE [code |-> IF run.ok THEN "ok" ELSE "failed", store |-> run.store,
              charge |-> Least(run.used, tx.gas)]

runTx(st, tx, mode, h, base) ==
    LET ante  == AnteHandle(st, tx, mode, h)
        run   == runMsgs(ante.store, ante.used, tx, mode, h)
        out(code, store, charge) == [code |-> code, store |-> store, charge |-> charge]
    IN  CASE tx.msgs = <<>> -> out("malformed", st, base)
          [] tx.msgs # <<>> /\ ~ante.ok -> out("ante", st, Least(ante.used, tx.gas))
          [] tx.msgs # <<>> /\ ante.ok /\ ~run.ok ->
                 out("failed", ante.store, Least(run.used, tx.gas))
          [] OTHER -> out("ok", IF mode = "deliver" THEN run.store ELSE ante.store,
                          Least(run.used, tx.gas))

\* Mutant: messages are written before the block gas is consumed.
runDeliverWritesFirst(st, tx, h, gas, base) ==
    IF gas >= MaxBlockGas THEN [code |-> "full", store |-> st, charge |-> 0]
    ELSE runTx(st, tx, "deliver", h, base)

\* runTx in DeliverTx mode: a full block runs nothing and charges nothing;
\* messages are written only if the block gas meter did not panic.
runDeliver(st, tx, h, gas, base) ==
    LET ante == AnteHandle(st, tx, "deliver", h)
        r    == runTx(st, tx, "deliver", h, base)
    IN  IF gas >= MaxBlockGas THEN [code |-> "full", store |-> st, charge |-> 0]
        ELSE IF r.code = "ok" /\ gas + r.charge > MaxBlockGas
             THEN [code |-> "failed", store |-> ante.store, charge |-> r.charge]
             ELSE r

-------------------------------------------------------------------------------
Init ==
    /\ cms = [height |-> 0, store |-> EmptyStore]
    /\ deliver = NoDeliver
    /\ check = [store |-> EmptyStore, height |-> 0]
    /\ pool = <<>> /\ recheck = <<>> /\ blocks = <<>>
    /\ phase = "idle" /\ crashes = 0 /\ log = <<>>

\* Mutant: InitChain only for a chain without any block.
InitChainOnce ==
    /\ cms.height = 0 /\ ~deliver.on /\ blocks = <<>>
    /\ deliver' = [on |-> TRUE, store |-> Genesis, gas |-> 0, meter |-> BlockGas]
    /\ check' = [store |-> cms.store, height |-> 0]
    /\ UNCHANGED <<cms, pool, recheck, blocks, phase, crashes, log>>

\* InitChain: genesis is written to deliverState only; the engine calls it
\* whenever it finds the application at height 0, after a restart too.
InitChain ==
    /\ cms.height = 0 /\ ~deliver.on
    /\ deliver' = [on |-> TRUE, store |-> Genesis, gas |-> 0, meter |-> BlockGas]
    /\ check' = [store |-> cms.store, height |-> 0]
    /\ UNCHANGED <<cms, pool, recheck, blocks, phase, crashes, log>>

\* External: the network decides the next block, of any transactions.
Decide(b) ==
    /\ Len(blocks) = cms.height /\ cms.height < MaxHeight
    /\ cms.height = 0 => deliver.on
    /\ blocks' = Append(blocks, b)
    /\ UNCHANGED <<cms, deliver, check, pool, recheck, phase, crashes, log>>

\* BeginBlock, for the block after the last committed one (validateHeight).
\* The first block keeps InitChain's deliverState and its meter.
BeginBlock ==
    /\ Len(blocks) = cms.height + 1 /\ phase = "idle"
    /\ cms.height = 0 => deliver.on
    /\ deliver' = [on |-> TRUE, gas |-> 0,
                   store |-> IF deliver.on THEN deliver.store ELSE cms.store,
                   meter |-> deliver.meter + BlockGas]
    /\ phase' = "begun"
    /\ UNCHANGED <<cms, check, pool, recheck, blocks, crashes, log>>

\* DeliverTx of the next transaction of the block.
DeliverTx ==
    LET h  == cms.height + 1
        tx == blocks[h][Done(h) + 1]
        r  == runDeliver(deliver.store, tx, h, deliver.gas, deliver.meter + ParamGas)
    IN  /\ phase = "begun" /\ Done(h) < Len(blocks[h])
        /\ deliver' = [deliver EXCEPT !.store = r.store, !.gas = @ + r.charge,
                                      !.meter = @ + ParamGas]
        /\ log' = Append(log, [height |-> h, tx |-> tx, code |-> r.code,
                               charge |-> r.charge])
        /\ UNCHANGED <<cms, check, pool, recheck, blocks, phase, crashes>>

EndBlock ==
    /\ phase = "begun" /\ Done(cms.height + 1) = Len(blocks[cms.height + 1])
    /\ phase' = "ended"
    /\ UNCHANGED <<cms, deliver, check, pool, recheck, blocks, crashes, log>>

\* Commit: deliverState is written and persisted, checkState restarts from it.
\* The mempool, locked meanwhile, drops the block's transactions and queues
\* the rest for a recheck.
Commit ==
    LET h    == cms.height + 1
        rest == Without(pool, Ids(blocks[h]))
    IN  /\ phase = "ended"
        /\ cms' = [height |-> h, store |-> deliver.store]
        /\ check' = [store |-> deliver.store, height |-> h]
        /\ deliver' = NoDeliver /\ phase' = "idle"
        /\ pool' = rest /\ recheck' = rest
        /\ UNCHANGED <<blocks, crashes, log>>

\* CheckTx of a new transaction: only the ante handler runs, on checkState.
CheckTx(tx) ==
    LET r == runTx(check.store, tx, "check", check.height, 0)
    IN  /\ recheck = <<>> /\ tx \notin Ids(pool) /\ Len(pool) < MaxPool
        /\ r.code = "ok"
        /\ check' = [check EXCEPT !.store = r.store]
        /\ pool' = Append(pool, tx)
        /\ UNCHANGED <<cms, deliver, recheck, blocks, phase, crashes, log>>

\* CheckTx with type Recheck, in mempool order; a failure leaves the pool.
ReCheckTx ==
    LET tx == Head(recheck)
        cursor == Len(pool) - Len(recheck) + 1
        r  == runTx(check.store, tx, "recheck", check.height, 0)
    IN  /\ recheck # <<>>
        /\ recheck' = Tail(recheck)
        /\ check' = [check EXCEPT !.store = r.store]
        /\ pool' = IF r.code = "ok" THEN pool ELSE RemoveAt(pool, cursor)
        /\ UNCHANGED <<cms, deliver, blocks, phase, crashes, log>>

\* Mutant: simulation runs on checkState itself.
SimulateInPlace(tx) ==
    /\ check' = [check EXCEPT !.store = runTx(@, tx, "simulate", check.height, 0).store]
    /\ UNCHANGED <<cms, deliver, pool, recheck, blocks, phase, crashes, log>>

\* Simulate: the whole transaction on a branch of checkState (CacheContext)
\* that is dropped; only the caller learns the outcome.
Simulate(tx) ==
    /\ runTx(check.store, tx, "simulate", check.height, 0).code \in {"ok", "failed", "ante"}
    /\ check' = [check EXCEPT !.store = check.store]
    /\ UNCHANGED <<cms, deliver, pool, recheck, blocks, phase, crashes, log>>

\* The process dies (a halt configured for a height ends it the same way) and
\* comes back: init() opens the last committed version and gives checkState an
\* empty header.  What was delivered of an uncommitted block is forgotten.
Crash ==
    /\ crashes < MaxCrashes
    /\ crashes' = crashes + 1
    /\ deliver' = NoDeliver /\ phase' = "idle"
    /\ check' = [store |-> cms.store, height |-> 0]
    /\ pool' = <<>> /\ recheck' = <<>>
    /\ log' = SubSeq(log, 1, Len(log) - Done(cms.height + 1))
    /\ UNCHANGED <<cms, blocks>>

Blocks == UNION {[1..n -> Txs] : n \in 0..MaxBlockTxs}

Next ==
    \/ InitChain
    \/ \E b \in Blocks : Decide(b)
    \/ BeginBlock \/ DeliverTx \/ EndBlock \/ Commit
    \/ \E tx \in Txs : CheckTx(tx) \/ Simulate(tx)
    \/ ReCheckTx
    \/ Crash

Spec == Init /\ [][Next]_vars

\* The engine drives every decided block to its commit.
Fairness == WF_vars(InitChain) /\ WF_vars(BeginBlock) /\ WF_vars(DeliverTx)
            /\ WF_vars(EndBlock) /\ WF_vars(Commit)

FairSpec == Spec /\ Fairness

-------------------------------------------------------------------------------
(* Properties. *)

StoreOK(st) ==
    /\ st.live \in BOOLEAN /\ st.fees \in Nat
    /\ st.seq \in [Accounts -> Nat] /\ st.bal \in [Accounts -> Nat]
    /\ st.device \in [Devices -> Accounts \cup {NoAddr}]

\* Types; no balance ever goes below zero in the committed state, the block
\* being run or checkState, and blocks are begun only once decided.
TypeOK ==
    /\ cms.height \in 0..MaxHeight /\ StoreOK(cms.store)
    /\ deliver.on \in BOOLEAN /\ StoreOK(deliver.store)
    /\ deliver.gas \in Nat /\ deliver.meter \in Nat
    /\ check.height \in 0..MaxHeight /\ StoreOK(check.store)
    /\ Len(pool) <= MaxPool /\ Ids(recheck) \subseteq Ids(pool) /\ Ids(pool) \subseteq Txs
    /\ Len(blocks) \in cms.height..(cms.height + 1) /\ Ids(blocks) \subseteq Blocks
    /\ phase \in {"idle", "begun", "ended"} /\ crashes \in 0..MaxCrashes
    /\ phase # "idle" => deliver.on /\ Len(blocks) = cms.height + 1

IsCharged(e) == e.code \in {"ok", "failed"}

\* The positions in log, up to height h, where account a was charged.
ChargesOf(a, h) ==
    {i \in DOMAIN log : log[i].height <= h /\ IsCharged(log[i]) /\ log[i].tx.signer = a}

\* The transactions an account is charged for carry the sequences 0, 1, 2, ...
\* in the order they were delivered: none is charged twice, whatever blocks
\* contain, and none again when a crash makes the engine replay its block.
SequencesInOrder ==
    \A i \in DOMAIN log : IsCharged(log[i]) =>
        log[i].tx.seq = Cardinality({j \in ChargesOf(log[i].tx.signer, MaxHeight) : j < i})

\* Sum of the fees of the transactions at the positions S of s.
FeeSum(s, S) == SumFunction([i \in S |-> s[i].fee])

LogTxs == [i \in DOMAIN log |-> log[i].tx]

\* Positions <<transaction, message>> of successful registrations of d.
Writes(d, h) ==
    UNION {{<<i, k>> : k \in {k \in DOMAIN log[i].tx.msgs : log[i].tx.msgs[k].device = d}} :
           i \in {i \in DOMAIN log : log[i].height <= h /\ log[i].code = "ok"}}

IsLast(w, W) == w \in W /\ \A v \in W : v[1] < w[1] \/ (v[1] = w[1] /\ v[2] <= w[2])

\* Store st is the outcome of the transactions logged up to height h.
OutcomeOf(st, h) ==
    /\ \A a \in Accounts :
          /\ st.seq[a] = Cardinality(ChargesOf(a, h))
          /\ st.bal[a] = InitBal - FeeSum(LogTxs, ChargesOf(a, h))
    /\ st.fees = FeeSum(LogTxs, UNION {ChargesOf(a, h) : a \in Accounts})
    /\ \A d \in Devices :
          \/ Writes(d, h) = {} /\ st.device[d] = NoAddr
          \/ \E w \in Writes(d, h) : /\ IsLast(w, Writes(d, h))
                                     /\ st.device[d] = log[w[1]].tx.msgs[w[2]].addr

\* What is committed, and the block being run, is exactly: fees and sequences
\* of the transactions past the ante handler, and the registrations of those
\* that succeeded as a whole.  A transaction whose last message fails, runs out
\* of gas, or overflows the block leaves no registration behind.
StateIsLog ==
    /\ cms.height > 0 => OutcomeOf(cms.store, cms.height)
    /\ phase # "idle" => OutcomeOf(deliver.store, cms.height + 1)

\* Between rechecks checkState is the committed state with every pooled
\* transaction charged once, so what the next CheckTx compares against counts
\* the whole pool; simulations in between leave no trace.
CheckIsPoolAhead ==
    recheck = <<>> => \A a \in Accounts :
        LET mine == {i \in DOMAIN pool : pool[i].signer = a}
        IN  /\ check.store.seq[a] = cms.store.seq[a] + Cardinality(mine)
            /\ check.store.bal[a] = cms.store.bal[a] - FeeSum(pool, mine)

\* Block gas charged up to position i in its block.
GasUpTo(i) ==
    SumFunction([j \in {j \in 1..i : log[j].height = log[i].height} |-> log[j].charge])

\* A transaction whose messages took effect kept its block within MaxGas, and
\* once a block has used MaxGas nothing in it runs.  Every transaction but a
\* malformed one is charged at most the gas it declared.
GasStopsBlock ==
    \A i \in DOMAIN log :
        /\ log[i].code = "ok" => GasUpTo(i) <= MaxBlockGas
        /\ log[i].code = "full" <=> GasUpTo(i) - log[i].charge >= MaxBlockGas
        /\ log[i].code # "malformed" => log[i].charge <= log[i].tx.gas

\* Every decided block is committed, also when the process dies in InitChain,
\* in the middle of the block or between EndBlock and Commit.
AllCommitted == cms.height = Len(blocks)
DecidedIsCommitted == []<>AllCommitted

-------------------------------------------------------------------------------
\* Not so: on a recheck the sequence need not be incremented, since CheckTx has
\* already bumped it (the comment of IncrementSequenceDecorator).
RecheckKeepsSequences ==
    [][ReCheckTx => check'.store.seq = check.store.seq]_vars
===============================================================================
