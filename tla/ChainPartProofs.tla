---------------------------- MODULE ChainPartProofs ----------------------------
(***************************************************************************)
(* Proofs about the parts of the chain run: BurnRequests, Capability,      *)
(* Slashing and Gov.  The models have no state in common and each theorem  *)
(* is about one of them: C!... is of Capability, L!... of Slashing, G!...  *)
(* of Gov and what has no prefix of BurnRequests.                          *)
(*                                                                         *)
(* Of BurnRequests: for every number of requests, every amount, queue      *)
(* capacity and bound on failures and restarts.  Of Capability: for any    *)
(* modules, names, blocks and number of capabilities, where a module has   *)
(* one capability for a name and one name for a capability.  Of Slashing:  *)
(* for any windows, fractions and heights.  Of Gov: for any finite set of  *)
(* accounts, any staking snapshots, votes, amounts, parameters, periods    *)
(* and number of proposals.                                                *)
(***************************************************************************)
EXTENDS BurnRequests, SumTheorems, FiniteSetTheorems, TLAPS

\* The parameters and the state of Capability.
CONSTANTS Modules, Names, Tidy, MaxIndex, MaxAddress, MaxBlocks
VARIABLES root, block, tx, held, dropped, lost, capMap, address, blocks

\* The parameters and the state of Slashing.
CONSTANTS Windows, FirstWindow, MinSigned, P, DowntimeJailDuration, MaxHeight
VARIABLES height, inBlock, window, info, bits, val, sets, votes, back

\* The parameters and the state of Gov; its votes are the ballots here.
CONSTANTS Accounts, Stakes, Votes, Contents, Amounts, InitBal, InitPool, InitParams, NewParams,
          MaxDepositPeriod, MaxProposals, MaxTime
VARIABLES now, nextId, props, inactive, active, deposits, ballots, bank, params, pool, stake

C == INSTANCE Capability
L == INSTANCE Slashing
G == INSTANCE Gov WITH votes <- ballots

-----------------------------------------------------------------------------
(* BurnRequests *)

\* A task of the session the consumer is in.
Current(t) == t.session = session

\* A request whose work is over, or that a restart passed over.
Over(r) == r \in settled \cup skipped

\* What the consumer and the worker hold are requests of the topic.
Handed ==
    /\ IF at = "idle" THEN task = NoTask ELSE task.request \in 1 .. produced
    /\ \A i \in DOMAIN queue : queue[i].request \in 1 .. produced
    /\ task.session <= session /\ \A i \in DOMAIN queue : queue[i].session <= session
    /\ holding # 0 => holding = position

\* Until the group rebalances there is no task of an older session.
OneSession ==
    events["rebalance"] = 0 =>
        /\ at # "idle" => Current(task)
        /\ \A i \in DOMAIN queue : Current(queue[i])

\* The requests of a session are on their way in the order of their offsets.
InOrder ==
    /\ \A i \in DOMAIN queue :
          Current(queue[i]) => /\ queue[i].request <= position
                               /\ holding # 0 => queue[i].request < holding
    /\ \A i, j \in DOMAIN queue :
          i < j /\ Current(queue[i]) /\ Current(queue[j]) => queue[i].request < queue[j].request
    /\ at # "idle" /\ Current(task) =>
          /\ task.request <= position
          /\ holding # 0 => task.request < holding
          /\ \A i \in DOMAIN queue : Current(queue[i]) => task.request < queue[i].request

\* Every request up to the position of the claim is over or on its way in this
\* session, and what is marked or committed is over.
Covered ==
    /\ \A r \in 1 .. position :
          \/ Over(r)
          \/ r = holding
          \/ at # "idle" /\ Current(task) /\ r = task.request
          \/ \E i \in DOMAIN queue : Current(queue[i]) /\ queue[i].request = r
    /\ \A r \in 1 .. marked : Over(r)
    /\ \A r \in 1 .. committed : Over(r)

\* Only the worker's own burn is awaited, and only while it waits.
OneAwaited ==
    /\ \A i \in DOMAIN pending :
          pending[i].awaited => at = "wait" /\ pending[i].request = task.request
    /\ \A i, j \in DOMAIN pending : pending[i].awaited /\ pending[j].awaited => i = j

\* RECs of a burn the worker knows of and has not told yet.
Due == IF at = "reply" THEN result ELSE 0
Quiet == events["timeout"] = 0 /\ events["lost"] = 0 /\ Restarts = 0
Books ==
    /\ recs <= Collateral
    /\ told + Due <= Collateral - recs
    /\ Quiet => told + Due = Collateral - recs /\ \A i \in DOMAIN pending : pending[i].awaited

\* Places from where a request may still be burnt; the burns and they stay
\* within one plus the number of restarts.
Of(s, r) == {i \in DOMAIN s : s[i].request = r}
One(b) == IF b THEN 1 ELSE 0
Copies(r) ==
    Cardinality(Of(pending, r)) + Cardinality(Of(queue, r))
      + One(at \in {"parse", "submit"} /\ task.request = r) + One(holding = r) + One(r > position)
CopiesBounded == \A r \in Requests : burns[r] + Copies(r) <= 1 + Restarts

\* Requests with a burn, done or under way, that no success reply told of; the
\* worker is about to tell of its own.  Each is paid for by an event of its own.
Silent ==
    {r \in Requests \ replied :
        burns[r] > 0 \/ \E i \in DOMAIN pending : pending[i].request = r /\ ~pending[i].awaited}
Untold == IF at = "reply" THEN Silent \ {task.request} ELSE Silent
Losses == events["timeout"] + events["lost"] + events["crash"]

\* Requests the worker may still take up in this session.
Ahead(r) ==
    \/ at # "idle" /\ r = task.request
    \/ holding # 0 /\ r = holding
    \/ \E i \in DOMAIN queue : queue[i].request = r
    \/ r > position

\* While there was no rebalance: an event paid for nothing, or a request that was
\* paid for lies above all that were refused, or all that were refused lie behind.
SpareEvent == Cardinality(Untold) < Losses
PaidNotRefused == \E q \in Untold : \A r \in refused : r < q
RefusedBehind == \A r \in refused : \A u \in Requests : Ahead(u) => r < u
HiddenPaid ==
    /\ Cardinality(Untold) <= Losses
    /\ events["rebalance"] = 0 => SpareEvent \/ PaidNotRefused \/ RefusedBehind

\* The inductive invariant.
BurnInv ==
    /\ TypeOK
    /\ Handed /\ OneSession /\ InOrder /\ Covered
    /\ OneAwaited /\ Books /\ CopiesBounded /\ HiddenPaid

-----------------------------------------------------------------------------
(* Operators *)

\* A sequence with one element more: what was there keeps its place.
LEMMA AppendFacts ==
    ASSUME NEW S, NEW s \in Seq(S), NEW e \in S, NEW t, t = Append(s, e)
    PROVE  /\ t \in Seq(S) /\ Len(s) \in Nat /\ Len(t) = Len(s) + 1
           /\ DOMAIN s = 1 .. Len(s) /\ DOMAIN t = 1 .. Len(s) + 1
           /\ Len(s) + 1 \in DOMAIN t /\ t[Len(s) + 1] = e
           /\ \A i \in DOMAIN s : i \in DOMAIN t /\ i < Len(s) + 1 /\ t[i] = s[i]
           /\ \A i \in DOMAIN t : t[i] = e \/ (i \in DOMAIN s /\ t[i] = s[i])
           /\ \A i \in DOMAIN t : i \in DOMAIN s \/ i = Len(s) + 1
  OBVIOUS

\* A sequence without its head: what is left moves up by one place.
LEMMA TailFacts ==
    ASSUME NEW S, NEW s \in Seq(S), s # <<>>, NEW t, t = Tail(s)
    PROVE  /\ t \in Seq(S) /\ Len(s) \in Nat \ {0} /\ Len(t) = Len(s) - 1
           /\ 1 \in DOMAIN s /\ Head(s) = s[1] /\ Head(s) \in S
           /\ DOMAIN s = 1 .. Len(s) /\ DOMAIN t = 1 .. Len(s) - 1
           /\ \A i \in DOMAIN t : i \in Nat /\ i + 1 # 1 /\ i + 1 \in DOMAIN s /\ t[i] = s[i + 1]
           /\ \A i \in DOMAIN s : i # 1 => i - 1 \in DOMAIN t /\ t[i - 1] = s[i]
<1>1. /\ t \in Seq(S) /\ Len(s) \in Nat \ {0} /\ Len(t) = Len(s) - 1
      /\ 1 \in DOMAIN s /\ Head(s) = s[1] /\ Head(s) \in S
      /\ DOMAIN s = 1 .. Len(s) /\ DOMAIN t = 1 .. Len(s) - 1
  OBVIOUS
<1>2. \A i \in 1 .. Len(s) - 1 : t[i] = s[i + 1]
  OBVIOUS
<1>3. QED
  BY <1>1, <1>2

\* The elements of a sequence are of its type.
LEMMA ElementFacts ==
    ASSUME NEW S, NEW s \in Seq(S)
    PROVE  /\ Len(s) \in Nat /\ DOMAIN s = 1 .. Len(s)
           /\ \A i \in DOMAIN s : i \in Nat /\ s[i] \in S
  OBVIOUS

\* Tasks on TxQueue and transactions in the mempool name requests.
LEMMA ItemTypes ==
    ASSUME TypeOK
    PROVE  /\ \A i \in DOMAIN queue : /\ i \in Nat /\ queue[i].request \in Requests
                                     /\ queue[i].session \in Nat
           /\ \A i \in DOMAIN pending : i \in Nat /\ pending[i].request \in Requests
           /\ \A i \in DOMAIN pending : pending[i].awaited \in BOOLEAN
<1>1. /\ \A i \in DOMAIN queue : i \in Nat /\ queue[i] \in [request : Requests, session : Nat]
      /\ \A i \in DOMAIN pending : i \in Nat /\ pending[i] \in [request : Requests, awaited : BOOLEAN]
  BY ElementFacts DEF TypeOK
<1>2. /\ \A t \in [request : Requests, session : Nat] : t.request \in Requests /\ t.session \in Nat
      /\ \A t \in [request : Requests, awaited : BOOLEAN] : t.request \in Requests
      /\ \A t \in [request : Requests, awaited : BOOLEAN] : t.awaited \in BOOLEAN
  OBVIOUS
<1>3. QED
  BY <1>1, <1>2

\* The offsets are numbers.
LEMMA NumberTypes ==
    ASSUME BurnAssumption, TypeOK
    PROVE  /\ produced \in Nat /\ position \in Nat /\ holding \in Nat /\ marked \in Nat
           /\ session \in Nat /\ committed \in Int /\ task.request \in Nat
           /\ Requests \subseteq Nat \ {0}
           /\ \A i \in DOMAIN queue : queue[i].request \in Nat \ {0}
<1>1. NumRequests \in Nat /\ produced \in 0 .. NumRequests /\ Requests = 1 .. NumRequests
  BY DEF BurnAssumption, TypeOK, Requests
<1>2. Requests \subseteq Nat \ {0}
  BY <1>1
<1>3. task.request \in Nat
  BY <1>1 DEF TypeOK
<1>4. /\ produced \in Nat /\ position \in Nat /\ holding \in Nat /\ marked \in Nat
      /\ session \in Nat /\ committed \in Int
  BY <1>1 DEF TypeOK
<1>5. QED
  BY <1>2, <1>3, <1>4, ItemTypes

\* The amount of a request, and the RECs it takes, are not negative.
LEMMA AmountFacts ==
    ASSUME BurnAssumption, NEW r \in Requests
    PROVE  AmountOf(r) \in Nat /\ RecsFor(r) \in Nat
<1>1. AmountOf(r) \in Nat /\ OneREC \in Nat \ {0}
  BY DEF BurnAssumption
<1>2. \A a \in Nat, n \in Nat \ {0} : a \div n \in Nat
  OBVIOUS
<1>3. QED
  BY <1>1, <1>2 DEF RecsFor

\* An event is counted under its own kind.
LEMMA HappensFacts ==
    ASSUME events \in [Kinds -> Nat], NEW kind \in Kinds, NEW bound, Happens(kind, bound)
    PROVE  /\ events' \in [Kinds -> Nat] /\ events'[kind] = events[kind] + 1
           /\ \A k \in Kinds : k # kind => events'[k] = events[k]
  BY DEF Happens

\* Every step: the actions, and what becomes of the counters of events.
LEMMA BurnCases ==
    ASSUME [Next]_vars
    PROVE  \/ UNCHANGED vars
           \/ Request \/ Fetch \/ Enqueue
           \/ Take \/ Parse \/ Submit \/ SubmitFails \/ Timeout
           \/ Deliver \/ ReplyErr \/ Reply \/ Mark
           \/ AutoCommit \/ Rebalance \/ Crash
  BY DEF Next

-----------------------------------------------------------------------------
(* Types *)

\* A bridge that has just started has the types.
LEMMA TypeInit ==
    ASSUME BurnAssumption, Init
    PROVE  TypeOK /\ Handed
<1>1. /\ produced = 0 /\ position = 0 /\ holding = 0 /\ session = 1 /\ marked = 0
      /\ committed = -1 /\ queue = <<>> /\ task = NoTask /\ at = "idle" /\ result = 0
      /\ coins = Coins /\ recs = Collateral /\ pending = <<>> /\ told = 0
      /\ burns = [r \in Requests |-> 0] /\ events = [k \in Kinds |-> 0]
      /\ replied = {} /\ refused = {} /\ settled = {} /\ skipped = {}
  BY DEF Init
<1>2. /\ NumRequests \in Nat /\ Coins \in Nat /\ Collateral \in Nat /\ QueueCap \in Nat
  BY DEF BurnAssumption
<1>3. /\ produced \in 0 .. NumRequests /\ position \in 0 .. produced /\ holding \in 0 .. produced
      /\ session \in Nat /\ marked \in 0 .. produced /\ committed \in -1 .. produced
  BY <1>1, <1>2
<1>4. /\ queue \in Seq([request : Requests, session : Nat]) /\ Len(queue) <= QueueCap
      /\ pending \in Seq([request : Requests, awaited : BOOLEAN])
  BY <1>1, <1>2
<1>5. task \in [request : 0 .. NumRequests, session : Nat]
  BY <1>1, <1>2 DEF NoTask
<1>6. TypeOK
  BY <1>1, <1>2, <1>3, <1>4, <1>5 DEF TypeOK
<1>7. QED
  BY <1>1, <1>6 DEF Handed, NoTask

\* Types are kept by the steps of the consumer and by the offset commit.
LEMMA ConsumerTypes ==
    ASSUME BurnAssumption, TypeOK, Handed, Request \/ Fetch \/ Enqueue \/ AutoCommit
    PROVE  TypeOK' /\ Handed'
<1>0. NumRequests \in Nat /\ QueueCap \in Nat \ {0}
  BY DEF BurnAssumption
<1>1. CASE Request
  <2>1. /\ produced' = produced + 1 /\ produced < NumRequests /\ UNCHANGED <<position, holding>>
        /\ UNCHANGED <<session, marked, committed, workerVars, chainVars, historyVars>>
    BY <1>1 DEF Request
  <2>2. /\ produced' \in 0 .. NumRequests /\ position' \in 0 .. produced'
        /\ holding' \in 0 .. produced' /\ marked' \in 0 .. produced'
        /\ committed' \in -1 .. produced' /\ 1 .. produced \subseteq 1 .. produced'
    BY <1>0, <2>1 DEF TypeOK
  <2>3. TypeOK'
    BY <2>1, <2>2 DEF TypeOK, workerVars, chainVars, historyVars
  <2>4. Handed'
    BY <2>1, <2>2 DEF Handed, workerVars
  <2>5. QED
    BY <2>3, <2>4
<1>2. CASE Fetch
  <2>1. /\ position' = position + 1 /\ holding' = position + 1 /\ position < produced
        /\ UNCHANGED <<produced, session, marked, committed, workerVars, chainVars, historyVars>>
    BY <1>2 DEF Fetch
  <2>2. position' \in 0 .. produced' /\ holding' \in 0 .. produced'
    BY <1>0, <2>1 DEF TypeOK
  <2>3. TypeOK'
    BY <2>1, <2>2 DEF TypeOK, workerVars, chainVars, historyVars
  <2>4. Handed'
    BY <2>1, <2>2 DEF Handed, workerVars
  <2>5. QED
    BY <2>3, <2>4
<1>3. CASE Enqueue
  <2> DEFINE e == [request |-> holding, session |-> session]
             S == [request : Requests, session : Nat]
  <2>1. /\ holding # 0 /\ Len(queue) < QueueCap /\ queue' = Append(queue, e) /\ holding' = 0
        /\ UNCHANGED <<produced, position, session, marked, committed, task, at, result>>
        /\ UNCHANGED <<chainVars, historyVars>>
    BY <1>3 DEF Enqueue
  <2>2. holding \in 1 .. produced /\ 1 .. produced \subseteq Requests /\ queue \in Seq(S)
        /\ session \in Nat /\ 0 \in 0 .. produced
    BY <1>0, <2>1 DEF TypeOK, Requests
  <2>3. e \in S
    BY <2>2
  <2> HIDE DEF e, S
  <2>4. /\ queue' \in Seq(S) /\ Len(queue') = Len(queue) + 1 /\ Len(queue) \in Nat
        /\ \A i \in DOMAIN queue' : queue'[i] = e \/ (i \in DOMAIN queue /\ queue'[i] = queue[i])
    <3>1. queue' = Append(queue, e) /\ queue \in Seq(S) /\ e \in S
      BY <2>1, <2>2, <2>3
    <3>2. QED
      BY <3>1, AppendFacts
  <2>5. TypeOK'
    <3>1. Len(queue') <= QueueCap
      BY <1>0, <2>1, <2>4
    <3>2. QED
      BY <2>1, <2>2, <2>4, <3>1 DEF TypeOK, chainVars, historyVars, S
  <2>6. Handed'
    BY <2>1, <2>2, <2>4 DEF Handed, e
  <2>7. QED
    BY <2>5, <2>6
<1>4. CASE AutoCommit
  <2>1. /\ committed' = Flushed /\ UNCHANGED <<produced, position, holding, session, marked>>
        /\ UNCHANGED <<workerVars, chainVars, historyVars>>
    BY <1>4 DEF AutoCommit
  <2>2. committed' \in -1 .. produced'
    BY <1>0, <2>1 DEF TypeOK, Flushed
  <2>3. TypeOK'
    BY <2>1, <2>2 DEF TypeOK, workerVars, chainVars, historyVars
  <2>4. Handed'
    BY <2>1 DEF Handed, workerVars
  <2>5. QED
    BY <2>3, <2>4
<1>5. QED
  BY <1>1, <1>2, <1>3, <1>4

Txs == [request : Requests, awaited : BOOLEAN]

\* Nobody waits for the burns in the mempool any more.
Forgotten == [i \in DOMAIN pending |-> [pending[i] EXCEPT !.awaited = FALSE]]

\* Forgetting changes no request of the mempool.
LEMMA ForgottenFacts ==
    ASSUME pending \in Seq(Txs)
    PROVE  /\ Forgotten \in Seq(Txs) /\ DOMAIN Forgotten = DOMAIN pending
           /\ \A i \in DOMAIN pending : /\ Forgotten[i].request = pending[i].request
                                        /\ ~Forgotten[i].awaited
<1>1. Len(pending) \in Nat /\ DOMAIN pending = 1 .. Len(pending)
  OBVIOUS
<1>2. ASSUME NEW i \in DOMAIN pending
      PROVE  /\ Forgotten[i] \in Txs
             /\ Forgotten[i].request = pending[i].request
             /\ ~Forgotten[i].awaited
  <2>1. pending[i] \in Txs
    OBVIOUS
  <2>2. Forgotten[i] = [pending[i] EXCEPT !.awaited = FALSE]
    BY DEF Forgotten
  <2>3. \A burn \in Txs : LET new == [burn EXCEPT !.awaited = FALSE]
                       IN  new \in Txs /\ new.request = burn.request /\ ~new.awaited
    BY DEF Txs
  <2>4. QED
    BY <2>1, <2>2, <2>3
<1>3. Forgotten \in [1 .. Len(pending) -> Txs]
  BY <1>1, <1>2 DEF Forgotten
<1>4. QED
  BY <1>1, <1>2, <1>3 DEF Forgotten

\* The worker's task is a request of the topic.
LEMMA TaskFacts ==
    ASSUME BurnAssumption, TypeOK, Handed, at # "idle"
    PROVE  task.request \in Requests /\ task.request \in 1 .. produced
  BY DEF BurnAssumption, TypeOK, Handed, Requests

\* A task that is over leaves the worker idle and its request settled.
LEMMA TaskDoneTypes ==
    ASSUME BurnAssumption, TypeOK, Handed, at # "idle", TaskDone
    PROVE  /\ at' = "idle" /\ task' = NoTask /\ settled' \subseteq Requests
           /\ task' \in [request : 0 .. NumRequests, session : Nat]
           /\ settled' = settled \cup {task.request}
  BY TaskFacts DEF TaskDone, NoTask, TypeOK, BurnAssumption

\* Steps of the worker that leave the queue and the chain alone.
LEMMA WorkerTypes ==
    ASSUME BurnAssumption, TypeOK, Handed,
           Parse \/ SubmitFails \/ ReplyErr \/ Reply \/ Mark
    PROVE  TypeOK' /\ Handed'
<1>0. NumRequests \in Nat
  BY DEF BurnAssumption
<1>1. CASE Parse
  BY <1>1 DEF Parse, TypeOK, Handed, kafkaVars, chainVars, historyVars
<1>2. CASE SubmitFails
  <2>1. /\ at = "submit" /\ at' = "err"
        /\ UNCHANGED <<kafkaVars, queue, task, result, chainVars, burns, told, replied, refused>>
        /\ UNCHANGED <<settled, skipped>>
    BY <1>2 DEF SubmitFails
  <2>2. events' \in [Kinds -> Nat]
    BY <1>2, HappensFacts DEF SubmitFails, TypeOK, Kinds
  <2>3. QED
    BY <2>1, <2>2 DEF TypeOK, Handed, kafkaVars, chainVars
<1>3. CASE ReplyErr
  <2>1. /\ at = "err" /\ TaskDone
        /\ UNCHANGED <<kafkaVars, queue, result, chainVars, burns, told, replied, skipped>>
        /\ refused' \subseteq refused \cup {task.request}
    BY <1>3 DEF ReplyErr
  <2>2. events' \in [Kinds -> Nat]
    BY <1>3, HappensFacts DEF ReplyErr, TypeOK, Kinds
  <2>3. TypeOK'
    BY <2>1, <2>2, TaskDoneTypes, TaskFacts DEF TypeOK, kafkaVars, chainVars
  <2>4. Handed'
    BY <2>1, TaskDoneTypes DEF TypeOK, Handed, kafkaVars, NoTask
  <2>5. QED
    BY <2>3, <2>4
<1>4. CASE Reply
  <2>1. /\ at = "reply" /\ at' = "mark"
        /\ UNCHANGED <<kafkaVars, queue, task, result, chainVars, burns, refused, settled, skipped>>
        /\ replied' \subseteq replied \cup {task.request}
        /\ told' \in {told, told + result}
    BY <1>4 DEF Reply
  <2>2. events' \in [Kinds -> Nat]
    BY <1>4, HappensFacts DEF Reply, TypeOK, Kinds
  <2>3. told' \in Nat
    BY <2>1 DEF TypeOK
  <2>4. TypeOK'
    BY <2>1, <2>2, <2>3, TaskFacts DEF TypeOK, kafkaVars, chainVars
  <2>5. Handed'
    BY <2>1 DEF Handed, kafkaVars
  <2>6. QED
    BY <2>4, <2>5
<1>5. CASE Mark
  <2>1. /\ at = "mark" /\ TaskDone /\ marked' \in {marked, task.request}
        /\ UNCHANGED <<produced, position, holding, session, committed, queue, result, chainVars>>
        /\ UNCHANGED <<burns, told, replied, refused, skipped, events>>
    BY <1>5 DEF Mark
  <2>2. marked' \in 0 .. produced
    BY <2>1, TaskFacts DEF TypeOK
  <2>3. TypeOK'
    BY <2>1, <2>2, TaskDoneTypes DEF TypeOK, chainVars
  <2>4. Handed'
    BY <2>1, TaskDoneTypes DEF TypeOK, Handed, NoTask
  <2>5. QED
    BY <2>3, <2>4
<1>6. QED
  BY <1>1, <1>2, <1>3, <1>4, <1>5

\* Steps that take a task, or send, forget or execute a burn.
LEMMA TakeTypes ==
    ASSUME BurnAssumption, TypeOK, Handed, Take
    PROVE  TypeOK' /\ Handed'
<1> DEFINE S == [request : Requests, session : Nat]
<1>1. /\ at = "idle" /\ queue # <<>> /\ task' = Head(queue) /\ queue' = Tail(queue)
      /\ at' = "parse" /\ UNCHANGED <<kafkaVars, result, chainVars, historyVars>>
  BY DEF Take
<1>2. queue \in Seq(S) /\ QueueCap \in Nat
  BY DEF TypeOK, BurnAssumption
<1> HIDE DEF S
<1>3. /\ queue' \in Seq(S) /\ Len(queue') = Len(queue) - 1 /\ Len(queue) \in Nat
      /\ 1 \in DOMAIN queue /\ task' = queue[1] /\ task' \in S
      /\ \A i \in DOMAIN queue' : i + 1 \in DOMAIN queue /\ queue'[i] = queue[i + 1]
  BY <1>1, <1>2, TailFacts
<1>4. Len(queue') <= QueueCap
  BY <1>2, <1>3 DEF TypeOK
<1>5. task' \in [request : 0 .. NumRequests, session : Nat]
  BY <1>3 DEF S, Requests, BurnAssumption
<1>6. TypeOK'
  BY <1>1, <1>3, <1>4, <1>5 DEF TypeOK, kafkaVars, chainVars, historyVars, S
<1>7. Handed'
  BY <1>1, <1>3 DEF Handed, kafkaVars
<1>8. QED
  BY <1>6, <1>7

\* A block executes a burn.
Executed(burn) ==
    /\ pending # <<>> /\ pending' = Tail(pending) /\ 1 \in DOMAIN pending /\ burn = pending[1]
    /\ burn.request \in Requests /\ AmountOf(burn.request) \in Nat /\ RecsFor(burn.request) \in Nat
    /\ \/ /\ Burnable(burn.request)
          /\ coins' = coins - AmountOf(burn.request) /\ recs' = recs - RecsFor(burn.request)
          /\ burns' = [burns EXCEPT ![burn.request] = @ + 1]
          /\ \/ burn.awaited /\ at' = "reply" /\ result' = RecsFor(burn.request)
             \/ ~burn.awaited /\ UNCHANGED <<at, result>>
       \/ /\ UNCHANGED <<coins, recs, burns, result>>
          /\ \/ burn.awaited /\ at' = "err"
             \/ ~burn.awaited /\ at' = at
    /\ UNCHANGED <<kafkaVars, queue, task, told, replied, refused, settled, skipped, events>>

\* What a block does is the execution of one pending burn.
LEMMA DeliverFacts ==
    ASSUME BurnAssumption, TypeOK, Deliver
    PROVE  \E burn \in Txs : Executed(burn)
<1>1. pending # <<>> /\ pending' = Tail(pending) /\ pending \in Seq(Txs)
  BY DEF Deliver, TypeOK, Txs
<1>2. PICK burn \in Txs : burn = Head(pending) /\ burn = pending[1] /\ 1 \in DOMAIN pending
  BY <1>1, TailFacts
<1>3. burn.request \in Requests /\ AmountOf(burn.request) \in Nat /\ RecsFor(burn.request) \in Nat
  BY AmountFacts DEF Txs
<1>4. Executed(burn)
  BY <1>1, <1>2, <1>3 DEF Deliver, Answered, Executed
<1>5. QED
  BY <1>4

\* Types are kept by what happens to the mempool.
LEMMA MempoolTypes ==
    ASSUME BurnAssumption, TypeOK, Handed, OneAwaited, Submit \/ Timeout \/ Deliver
    PROVE  TypeOK' /\ Handed'
<1>0. pending \in Seq(Txs)
  BY DEF TypeOK, Txs
<1>1. CASE Submit
  <2> DEFINE e == [request |-> task.request, awaited |-> TRUE]
  <2>1. /\ at = "submit" /\ pending' = Append(pending, e) /\ at' = "wait"
        /\ UNCHANGED <<kafkaVars, queue, task, result, coins, recs, historyVars>>
    BY <1>1 DEF Submit
  <2>2. e \in Txs
    BY <2>1, TaskFacts DEF Txs
  <2> HIDE DEF e
  <2>3. pending' \in Seq(Txs)
    BY <1>0, <2>1, <2>2, AppendFacts
  <2>4. QED
    BY <2>1, <2>3 DEF TypeOK, Handed, kafkaVars, historyVars, Txs
<1>2. CASE Timeout
  <2>1. /\ at = "wait" /\ pending' = Forgotten /\ at' = "err"
        /\ UNCHANGED <<kafkaVars, queue, task, result, coins, recs, burns, told, replied, refused>>
        /\ UNCHANGED <<settled, skipped>>
    BY <1>2 DEF Timeout, Forgotten
  <2>2. events' \in [Kinds -> Nat]
    BY <1>2, HappensFacts DEF Timeout, TypeOK, Kinds
  <2>3. pending' \in Seq(Txs)
    BY <1>0, <2>1, ForgottenFacts
  <2>4. QED
    BY <2>1, <2>2, <2>3 DEF TypeOK, Handed, kafkaVars, Txs
<1>3. CASE Deliver
  <2>1. PICK burn \in Txs : Executed(burn)
    BY <1>3, DeliverFacts
  <2>2. coins' \in Nat /\ recs' \in Nat
    <3>1. \A a, b \in Nat : a <= b => b - a \in Nat
      OBVIOUS
    <3>2. \/ UNCHANGED <<coins, recs>>
          \/ /\ AmountOf(burn.request) <= coins /\ RecsFor(burn.request) <= recs
             /\ coins' = coins - AmountOf(burn.request) /\ recs' = recs - RecsFor(burn.request)
      BY <2>1 DEF Executed, Burnable
    <3>3. coins \in Nat /\ recs \in Nat /\ AmountOf(burn.request) \in Nat /\ RecsFor(burn.request) \in Nat
      BY <2>1 DEF Executed, TypeOK
    <3>4. QED
      BY <3>1, <3>2, <3>3
  <2>3. burns' \in [Requests -> Nat]
    <3>1. burns' = burns \/ burns' = [burns EXCEPT ![burn.request] = @ + 1]
      BY <2>1 DEF Executed
    <3>2. burns \in [Requests -> Nat] /\ burn.request \in Requests
      BY <2>1 DEF Executed, TypeOK
    <3>3. QED
      BY <3>1, <3>2
  <2>4. result' \in Nat /\ at' \in {"idle", "parse", "submit", "wait", "err", "reply", "mark"}
    BY <2>1 DEF Executed, TypeOK
  <2>5. pending' \in Seq(Txs)
    BY <1>0, <2>1, TailFacts DEF Executed
  <2>6. TypeOK'
    BY <2>1, <2>2, <2>3, <2>4, <2>5 DEF Executed, TypeOK, kafkaVars, Txs
  <2>7. at' = "idle" <=> at = "idle"
    BY <2>1 DEF Executed, OneAwaited
  <2>8. Handed'
    BY <2>1, <2>7 DEF Executed, Handed, kafkaVars
  <2>9. QED
    BY <2>6, <2>8
<1>4. QED
  BY <1>1, <1>2, <1>3

\* A new claim, after a rebalance or a crash.
LEMMA ClaimTypes ==
    ASSUME BurnAssumption, TypeOK, NEW offset \in -1 .. produced, NewClaim(offset), produced' = produced
    PROVE  /\ position' \in 0 .. produced' /\ marked' = 0 /\ marked' \in 0 .. produced'
           /\ session' = session + 1 /\ session' \in Nat /\ holding' = 0 /\ holding' \in 0 .. produced'
           /\ skipped' \subseteq Requests /\ skipped \subseteq skipped'
           /\ offset # -1 => position' = offset
           /\ offset = -1 => \A r \in 1 .. produced : r \in settled \cup skipped'
<1>1. produced \in Nat /\ produced <= NumRequests /\ session \in Nat /\ NumRequests \in Nat
  BY DEF TypeOK, BurnAssumption
<1>2. position' \in 0 .. produced' /\ (offset # -1 => position' = offset)
  BY <1>1 DEF NewClaim, ResumeAt
<1>3. skipped' \subseteq Requests
  BY <1>1 DEF NewClaim, TypeOK, Requests
<1>4. QED
  BY <1>1, <1>2, <1>3 DEF NewClaim

\* What a rebalance commits is the mark, or what was committed before.
LEMMA FlushedType ==
    ASSUME TypeOK
    PROVE  Flushed \in -1 .. produced /\ Flushed \in {marked, committed}
  BY DEF TypeOK, Flushed

\* Types are kept by a rebalance and by a crash; both open a session.
LEMMA RestartTypes ==
    ASSUME BurnAssumption, TypeOK, Handed, Rebalance \/ Crash
    PROVE  /\ TypeOK' /\ Handed' /\ session' = session + 1
           /\ events' = [events EXCEPT !["rebalance"] = @ + 1]
              \/ events' = [events EXCEPT !["crash"] = @ + 1]
<1>1. CASE Rebalance
  <2>1. /\ NewClaim(Flushed) /\ committed' = Flushed /\ Happens("rebalance", MaxRestarts)
        /\ UNCHANGED <<produced, workerVars, chainVars, burns, told, replied, refused, settled>>
    BY <1>1 DEF Rebalance
  <2>2. /\ position' \in 0 .. produced' /\ marked' \in 0 .. produced' /\ session' = session + 1
        /\ session' \in Nat /\ holding' = 0 /\ holding' \in 0 .. produced'
        /\ skipped' \subseteq Requests /\ committed' \in -1 .. produced'
    BY <2>1, ClaimTypes, FlushedType
  <2>3. events' \in [Kinds -> Nat] /\ events' = [events EXCEPT !["rebalance"] = @ + 1]
    BY <2>1, HappensFacts DEF Happens, TypeOK, Kinds
  <2>4. TypeOK'
    BY <2>1, <2>2, <2>3 DEF TypeOK, workerVars, chainVars
  <2>5. Handed'
    <3>1. \A n \in Nat : n <= session => n <= session'
      BY <2>2 DEF TypeOK
    <3>2. task.session \in Nat /\ \A i \in DOMAIN queue : queue[i].session \in Nat
      BY ItemTypes DEF TypeOK
    <3>3. UNCHANGED <<at, task, queue, produced>> /\ holding' = 0
      BY <2>1, <2>2 DEF workerVars
    <3>4. task'.session <= session' /\ \A i \in DOMAIN queue' : queue'[i].session <= session'
      BY <3>1, <3>2, <3>3 DEF Handed
    <3>5. QED
      BY <3>3, <3>4 DEF Handed
  <2>6. QED
    BY <2>2, <2>3, <2>4, <2>5
<1>2. CASE Crash
  <2>1. /\ NewClaim(committed) /\ Happens("crash", MaxRestarts) /\ pending' = Forgotten
        /\ queue' = <<>> /\ task' = NoTask /\ at' = "idle" /\ result' = 0
        /\ UNCHANGED <<produced, committed, coins, recs, burns, told, replied, refused, settled>>
    BY <1>2 DEF Crash, Forgotten
  <2>2. /\ position' \in 0 .. produced' /\ marked' \in 0 .. produced' /\ session' = session + 1
        /\ session' \in Nat /\ holding' = 0 /\ holding' \in 0 .. produced'
        /\ skipped' \subseteq Requests
    BY <2>1, ClaimTypes DEF TypeOK
  <2>3. events' \in [Kinds -> Nat] /\ events' = [events EXCEPT !["crash"] = @ + 1]
    BY <2>1, HappensFacts DEF Happens, TypeOK, Kinds
  <2>4. /\ pending' \in Seq(Txs) /\ task' \in [request : 0 .. NumRequests, session : Nat]
        /\ queue' \in Seq([request : Requests, session : Nat]) /\ Len(queue') <= QueueCap
    <3>1. pending' \in Seq(Txs)
      BY <2>1, ForgottenFacts DEF TypeOK, Txs
    <3>2. task' \in [request : 0 .. NumRequests, session : Nat]
      BY <2>1 DEF NoTask, BurnAssumption
    <3>3. queue' \in Seq([request : Requests, session : Nat]) /\ Len(queue') <= QueueCap
      BY <2>1 DEF BurnAssumption
    <3>4. QED
      BY <3>1, <3>2, <3>3
  <2>5. TypeOK'
    BY <2>1, <2>2, <2>3, <2>4 DEF TypeOK, Txs
  <2>6. Handed'
    <3>1. task'.session <= session' /\ DOMAIN queue' = {}
      BY <2>1, <2>2 DEF NoTask
    <3>2. QED
      BY <2>1, <2>2, <3>1 DEF Handed
  <2>7. QED
    BY <2>2, <2>3, <2>5, <2>6
<1>3. QED
  BY <1>1, <1>2

\* Types are inductive together with Handed, given who awaits what.
LEMMA TypeStep ==
    ASSUME BurnAssumption, TypeOK, Handed, OneAwaited, [Next]_vars
    PROVE  TypeOK' /\ Handed'
<1>1. CASE UNCHANGED vars
  BY <1>1 DEF vars, kafkaVars, workerVars, chainVars, historyVars, TypeOK, Handed
<1>2. QED
  BY <1>1, BurnCases, ConsumerTypes, WorkerTypes, TakeTypes, MempoolTypes, RestartTypes

-----------------------------------------------------------------------------
(* The burn that is awaited *)

\* The consumer and the broker leave the worker and the chain alone.
LEMMA ConsumerFrame ==
    ASSUME UNCHANGED vars \/ Request \/ Fetch \/ Enqueue \/ AutoCommit \/ Rebalance
    PROVE  /\ UNCHANGED <<task, at, result, coins, recs, pending>>
           /\ UNCHANGED <<burns, told, replied, refused, settled>>
  BY DEF Request, Fetch, Enqueue, AutoCommit, Rebalance,
         vars, kafkaVars, workerVars, chainVars, historyVars

\* BroadcastTxCommit waits for one burn, and a timeout or a crash ends the wait.
LEMMA OneAwaitedStep ==
    ASSUME BurnAssumption, TypeOK, OneAwaited, [Next]_vars
    PROVE  OneAwaited'
<1>0. pending \in Seq(Txs)
  BY DEF TypeOK, Txs
<1>1. CASE UNCHANGED vars \/ Request \/ Fetch \/ Enqueue \/ AutoCommit \/ Rebalance
  BY <1>1, ConsumerFrame DEF OneAwaited
<1>2. CASE Take \/ Parse \/ SubmitFails \/ ReplyErr \/ Reply \/ Mark
  <2>1. at # "wait" /\ pending' = pending
    BY <1>2 DEF Take, Parse, SubmitFails, ReplyErr, Reply, Mark, chainVars
  <2>2. QED
    BY <2>1 DEF OneAwaited
<1>3. CASE Submit
  <2> DEFINE e == [request |-> task.request, awaited |-> TRUE]
  <2>1. at = "submit" /\ pending' = Append(pending, e) /\ at' = "wait" /\ task' = task
    BY <1>3 DEF Submit
  <2>2. e.request = task.request
    OBVIOUS
  <2>3. \A i \in DOMAIN pending : ~pending[i].awaited
    BY <2>1 DEF OneAwaited
  <2> HIDE DEF e
  <2>4. \A i \in DOMAIN pending' :
           (i \in DOMAIN pending /\ pending'[i] = pending[i]) \/ (i = Len(pending) + 1 /\ pending'[i] = e)
    BY <1>0, <2>1
  <2>5. QED
    BY <2>1, <2>2, <2>3, <2>4 DEF OneAwaited
<1>4. CASE Timeout \/ Crash
  <2>1. pending' = Forgotten
    BY <1>4 DEF Timeout, Crash, Forgotten
  <2>2. \A i \in DOMAIN pending' : ~pending'[i].awaited
    BY <1>0, <2>1, ForgottenFacts
  <2>3. QED
    BY <2>2 DEF OneAwaited
<1>5. CASE Deliver
  <2>1. PICK burn \in Txs : Executed(burn)
    BY <1>5, DeliverFacts
  <2>2. /\ \A i \in DOMAIN pending' : i \in Nat /\ i + 1 # 1 /\ i + 1 \in DOMAIN pending
                                      /\ pending'[i] = pending[i + 1]
    BY <1>0, <2>1, TailFacts DEF Executed
  <2>3. 1 \in DOMAIN pending /\ burn = pending[1] /\ task' = task
    BY <2>1 DEF Executed
  <2>4. CASE burn.awaited
    BY <2>2, <2>3, <2>4 DEF OneAwaited
  <2>5. CASE ~burn.awaited
    <3>1. at' = at
      BY <2>1, <2>5 DEF Executed
    <3>2. \A i, j \in DOMAIN pending' : i + 1 = j + 1 => i = j
      BY <2>2
    <3>3. QED
      BY <2>2, <2>3, <3>1, <3>2 DEF OneAwaited
  <2>6. QED
    BY <2>4, <2>5
<1>6. QED
  BY <1>1, <1>2, <1>3, <1>4, <1>5, BurnCases

-----------------------------------------------------------------------------
(* The order of the requests, and the offsets *)

\* What the consumer or the worker takes along.
SameQueue == UNCHANGED <<queue, session, position, holding>>

\* The worker keeps its task or leaves it.
SameTask == at' # "idle" => at # "idle" /\ task' = task

\* Steps that put no task on the queue and take none from it.
LEMMA OrderFrame ==
    ASSUME BurnAssumption, TypeOK, OneAwaited,
           UNCHANGED vars \/ Request \/ AutoCommit \/ Parse \/ Submit \/ SubmitFails \/ Timeout
             \/ Deliver \/ ReplyErr \/ Reply \/ Mark
    PROVE  SameQueue /\ SameTask
<1>1. CASE Deliver
  <2>1. PICK burn \in Txs : Executed(burn)
    BY <1>1, DeliverFacts
  <2>2. QED
    BY <2>1 DEF Executed, OneAwaited, kafkaVars, SameQueue, SameTask
<1>2. QED
  BY <1>1 DEF Request, AutoCommit, Parse, Submit, SubmitFails, Timeout, ReplyErr, Reply, Mark,
     TaskDone, SameQueue, SameTask, vars, kafkaVars, workerVars, chainVars, historyVars

\* After a restart nothing is of the new session.
LEMMA RestartFacts ==
    ASSUME BurnAssumption, TypeOK, Handed, Rebalance \/ Crash
    PROVE  /\ holding' = 0 /\ session' \in Nat
           /\ at' # "idle" => task'.session < session'
           /\ \A i \in DOMAIN queue' : queue'[i].session < session'
<1>1. holding' = 0 /\ session' = session + 1 /\ session \in Nat
  BY DEF Rebalance, Crash, NewClaim, TypeOK
<1>2. \A n \in Nat : n <= session => n < session'
  BY <1>1
<1>3. task.session \in Nat /\ \A i \in DOMAIN queue : queue[i].session \in Nat
  BY ItemTypes DEF TypeOK
<1>4. CASE Rebalance
  <2>1. UNCHANGED <<at, task, queue>>
    BY <1>4 DEF Rebalance, workerVars
  <2>2. QED
    BY <1>1, <1>2, <1>3, <2>1 DEF Handed
<1>5. CASE Crash
  <2>1. at' = "idle" /\ DOMAIN queue' = {}
    BY <1>5 DEF Crash
  <2>2. QED
    BY <1>1, <2>1
<1>6. QED
  BY <1>4, <1>5

\* The order of a session survives every step: the consumer appends the highest
\* offset, the worker takes the lowest, and a restart makes all of it old.
LEMMA OrderStep ==
    ASSUME BurnAssumption, TypeOK, Handed, OneAwaited, InOrder, [Next]_vars
    PROVE  InOrder'
<1> DEFINE S == [request : Requests, session : Nat]
<1>0. /\ queue \in Seq(S) /\ position \in Nat /\ holding \in Nat /\ session \in Nat
      /\ task.request \in Nat /\ \A i \in DOMAIN queue : i \in Nat /\ queue[i].request \in Nat
  BY NumberTypes, ItemTypes DEF TypeOK
<1>1. CASE SameQueue /\ SameTask
  BY <1>1 DEF SameQueue, SameTask, InOrder, Current
<1>2. CASE Fetch
  <2>1. /\ position' = position + 1 /\ holding' = position + 1 /\ holding = 0
        /\ UNCHANGED <<session, queue, task, at>>
    BY <1>2 DEF Fetch, workerVars
  <2>2. \A n \in Nat : n <= position => n <= position' /\ n < holding'
    BY <1>0, <2>1
  <2>3. QED
    BY <1>0, <2>1, <2>2 DEF InOrder, Current
<1>3. CASE Enqueue
  <2> DEFINE e == [request |-> holding, session |-> session]
  <2>1. /\ holding # 0 /\ queue' = Append(queue, e) /\ holding' = 0
        /\ UNCHANGED <<position, session, task, at>>
    BY <1>3 DEF Enqueue
  <2>2. e.request = holding /\ holding = position
    BY <2>1 DEF Handed
  <2>3. /\ Len(queue) \in Nat /\ DOMAIN queue = 1 .. Len(queue)
        /\ DOMAIN queue' = 1 .. Len(queue) + 1 /\ queue'[Len(queue) + 1] = e
        /\ \A i \in DOMAIN queue : queue'[i] = queue[i]
    BY <1>0, <2>1
  <2> HIDE DEF e
  <2>4. \A i \in DOMAIN queue' : i \in DOMAIN queue \/ i = Len(queue) + 1
    BY <2>3
  <2>5. \A i \in DOMAIN queue : ~(Len(queue) + 1 < i)
    BY <2>3
  <2>6. ~(Len(queue) + 1 < Len(queue) + 1) /\ position <= position
    BY <1>0, <2>3
  <2>7. QED
    BY <1>0, <2>1, <2>2, <2>3, <2>4, <2>5, <2>6 DEF InOrder, Current
<1>4. CASE Take
  <2>1. /\ queue # <<>> /\ task' = Head(queue) /\ queue' = Tail(queue)
        /\ UNCHANGED <<session, position, holding>>
    BY <1>4 DEF Take, kafkaVars
  <2> HIDE DEF S
  <2>2. /\ 1 \in DOMAIN queue /\ task' = queue[1]
        /\ \A i \in DOMAIN queue' : i \in Nat /\ i + 1 # 1 /\ i + 1 \in DOMAIN queue
                                    /\ queue'[i] = queue[i + 1]
    BY <1>0, <2>1, TailFacts
  <2>3. /\ \A i \in DOMAIN queue' : 1 < i + 1
        /\ \A i, j \in DOMAIN queue' : i < j => i + 1 < j + 1
    <3>1. \A i \in DOMAIN queue' : i \in Nat /\ i + 1 \in 1 .. Len(queue) /\ i + 1 # 1
      BY <1>0, <2>2, ElementFacts
    <3>2. QED
      BY <3>1
  <2>4. QED
    BY <2>1, <2>2, <2>3 DEF InOrder, Current
<1>5. CASE Rebalance \/ Crash
  <2>1. \A n \in Nat : n < session' => n # session'
    BY <1>5, RestartFacts
  <2>2. task'.session \in Nat /\ \A i \in DOMAIN queue' : queue'[i].session \in Nat
    <3>1. TypeOK'
      BY <1>5, RestartTypes
    <3>2. \A i \in DOMAIN queue' : queue'[i] \in S
      BY <3>1, ElementFacts DEF TypeOK
    <3>3. QED
      BY <3>1, <3>2 DEF TypeOK
  <2>3. QED
    BY <1>5, <2>1, <2>2, RestartFacts DEF InOrder, Current
<1>6. QED
  BY <1>1, <1>2, <1>3, <1>4, <1>5, BurnCases, OrderFrame

\* Only a rebalance leaves tasks of an older session behind; a crash drops them.
LEMMA OneSessionStep ==
    ASSUME BurnAssumption, TypeOK, Handed, OneAwaited, OneSession, [Next]_vars
    PROVE  OneSession'
<1> DEFINE S == [request : Requests, session : Nat]
<1>0. queue \in Seq(S) /\ events \in [Kinds -> Nat]
  BY DEF TypeOK
<1>1. CASE SameQueue /\ SameTask /\ events'["rebalance"] = events["rebalance"]
  BY <1>1 DEF SameQueue, SameTask, OneSession, Current
<1>2. events'["rebalance"] = events["rebalance"] \/ Rebalance
  <2>1. ASSUME NEW kind \in Kinds \ {"rebalance"}, NEW b, Happens(kind, b)
        PROVE  events'["rebalance"] = events["rebalance"]
    BY <1>0, <2>1, HappensFacts DEF Kinds
  <2>2. QED
    BY <2>1, BurnCases DEF Request, Fetch, Enqueue, Take, Parse, Submit, SubmitFails, Timeout,
       Deliver, ReplyErr, Reply, Mark, AutoCommit, Crash, vars, historyVars, Kinds
<1>3. CASE Rebalance
  <2>1. events'["rebalance"] = events["rebalance"] + 1
    BY <1>0, <1>3, HappensFacts DEF Rebalance, Kinds
  <2>2. events'["rebalance"] # 0
    BY <1>0, <2>1 DEF Kinds
  <2>3. QED
    BY <2>2 DEF OneSession
<1>4. CASE Crash
  BY <1>4 DEF Crash, OneSession
<1>5. CASE Fetch
  BY <1>2, <1>5 DEF Fetch, workerVars, historyVars, OneSession, Current
<1>6. CASE Enqueue
  <2> DEFINE e == [request |-> holding, session |-> session]
  <2>1. /\ queue' = Append(queue, e) /\ UNCHANGED <<session, task, at, events>>
    BY <1>6 DEF Enqueue, historyVars
  <2>2. e.session = session
    OBVIOUS
  <2> HIDE DEF e
  <2>3. \A i \in DOMAIN queue' : queue'[i] = e \/ (i \in DOMAIN queue /\ queue'[i] = queue[i])
    BY <1>0, <2>1
  <2>4. QED
    BY <2>1, <2>2, <2>3 DEF OneSession, Current
<1>7. CASE Take
  <2>1. /\ queue # <<>> /\ task' = Head(queue) /\ queue' = Tail(queue)
        /\ UNCHANGED <<session, events>>
    BY <1>7 DEF Take, kafkaVars, historyVars
  <2> HIDE DEF S
  <2>2. /\ 1 \in DOMAIN queue /\ task' = queue[1]
        /\ \A i \in DOMAIN queue' : i + 1 \in DOMAIN queue /\ queue'[i] = queue[i + 1]
    BY <1>0, <2>1, TailFacts
  <2>3. QED
    BY <2>1, <2>2 DEF OneSession, Current
<1>8. QED
  BY <1>1, <1>2, <1>3, <1>4, <1>5, <1>6, <1>7, BurnCases, OrderFrame

\* What is over stays over.
LEMMA OverGrows ==
    ASSUME BurnAssumption, TypeOK, [Next]_vars
    PROVE  \A r : Over(r) => Over(r)'
<1>1. settled \subseteq settled' /\ skipped \subseteq skipped'
  BY BurnCases DEF Request, Fetch, Enqueue, Take, Parse, Submit, SubmitFails, Timeout, Deliver,
     ReplyErr, Reply, Mark, AutoCommit, Rebalance, Crash, NewClaim, TaskDone, vars, historyVars
<1>2. QED
  BY <1>1 DEF Over

\* No request behind the position is forgotten: it moves from the consumer to the
\* queue to the worker and is then over, and a restart resumes after what is.
LEMMA CoveredStep ==
    ASSUME BurnAssumption, TypeOK, Handed, OneAwaited, InOrder, Covered, [Next]_vars
    PROVE  Covered'
<1> DEFINE S == [request : Requests, session : Nat]
<1>0. queue \in Seq(S) /\ \A r : Over(r) => Over(r)'
  BY OverGrows DEF TypeOK
<1>1. CASE /\ SameQueue /\ UNCHANGED task /\ (at = "idle" <=> at' = "idle") /\ UNCHANGED marked
           /\ committed' \in {marked, committed}
  BY <1>0, <1>1 DEF SameQueue, Covered, Current
<1>2. UNCHANGED vars \/ Request \/ AutoCommit \/ Parse \/ Submit \/ SubmitFails \/ Timeout
         \/ Deliver \/ Reply
      => /\ SameQueue /\ UNCHANGED task /\ (at = "idle" <=> at' = "idle") /\ UNCHANGED marked
         /\ committed' \in {marked, committed}
  <2>1. CASE Deliver
    <3>1. PICK burn \in Txs : Executed(burn)
      BY <2>1, DeliverFacts
    <3>2. QED
      BY <3>1 DEF Executed, OneAwaited, kafkaVars, SameQueue
  <2>2. QED
    BY <2>1, FlushedType DEF Request, AutoCommit, Parse, Submit, SubmitFails, Timeout, Reply,
       SameQueue, vars, kafkaVars, workerVars, chainVars, historyVars
<1>3. CASE Fetch
  <2>1. /\ position' = position + 1 /\ holding' = position + 1 /\ holding = 0
        /\ UNCHANGED <<session, queue, task, at, marked, committed>>
    BY <1>3 DEF Fetch, workerVars
  <2>2. \A r \in 1 .. position' : r \in 1 .. position \/ r = holding'
    BY <2>1, NumberTypes
  <2>3. \A r \in 1 .. position : r # holding
    BY <2>1, NumberTypes
  <2>4. QED
    BY <1>0, <2>1, <2>2, <2>3 DEF Covered, Current
<1>4. CASE Enqueue
  <2> DEFINE e == [request |-> holding, session |-> session]
  <2>1. /\ queue' = Append(queue, e) /\ UNCHANGED <<position, session, task, at, marked, committed>>
    BY <1>4 DEF Enqueue
  <2>2. e.request = holding /\ e.session = session
    OBVIOUS
  <2> HIDE DEF e
  <2>3. /\ Len(queue) + 1 \in DOMAIN queue' /\ queue'[Len(queue) + 1] = e
        /\ \A i \in DOMAIN queue : i \in DOMAIN queue' /\ queue'[i] = queue[i]
    BY <1>0, <2>1
  <2>4. QED
    BY <1>0, <2>1, <2>2, <2>3 DEF Covered, Current
<1>5. CASE Take
  <2>1. /\ at = "idle" /\ queue # <<>> /\ task' = Head(queue) /\ queue' = Tail(queue)
        /\ at' = "parse" /\ UNCHANGED <<session, position, holding, marked, committed>>
    BY <1>5 DEF Take, kafkaVars
  <2> HIDE DEF S
  <2>2. /\ task' = queue[1]
        /\ \A i \in DOMAIN queue : i # 1 => i - 1 \in DOMAIN queue' /\ queue'[i - 1] = queue[i]
    BY <1>0, <2>1, TailFacts
  <2>3. ASSUME NEW i \in DOMAIN queue, Current(queue[i])
        PROVE  \/ Current(task)' /\ queue[i].request = task'.request
               \/ \E j \in DOMAIN queue' : Current(queue[j])' /\ queue'[j].request = queue[i].request
    BY <2>1, <2>2, <2>3 DEF Current
  <2>4. \A r \in 1 .. position :
           \/ Over(r)'
           \/ r = holding
           \/ Current(task)' /\ r = task'.request
           \/ \E j \in DOMAIN queue' : Current(queue[j])' /\ queue'[j].request = r
    BY <1>0, <2>1, <2>3 DEF Covered
  <2>5. QED
    BY <1>0, <2>1, <2>4 DEF Covered
<1>6. CASE ReplyErr \/ Mark
  <2>1. /\ at # "idle" /\ SameQueue /\ at' = "idle" /\ settled' = settled \cup {task.request}
        /\ UNCHANGED committed
    BY <1>6 DEF ReplyErr, Mark, TaskDone, SameQueue, kafkaVars
  <2>2. \A r : r = task.request => Over(r)'
    BY <2>1 DEF Over
  <2>3. \A r \in 1 .. position : r # task.request /\ ~Over(r) =>
           r = holding \/ \E i \in DOMAIN queue : Current(queue[i]) /\ queue[i].request = r
    BY DEF Covered
  <2>4. \A r \in 1 .. marked' : Over(r)'
    <3>1. CASE marked' = marked
      BY <1>0, <3>1 DEF Covered
    <3>2. CASE marked' # marked
      <4>1. Current(task) /\ marked' = task.request
        BY <1>6, <3>2 DEF ReplyErr, Mark, Current, kafkaVars
      <4>2. ASSUME NEW r \in 1 .. task.request, r # task.request, ~Over(r)
            PROVE  FALSE
        <5>1. /\ r \in Nat /\ r < task.request /\ task.request <= position /\ r \in 1 .. position
          BY <2>1, <4>1, <4>2, NumberTypes DEF InOrder
        <5>2. r = holding \/ \E i \in DOMAIN queue : Current(queue[i]) /\ queue[i].request = r
          BY <2>3, <4>2, <5>1
        <5>3. ~(holding # 0 /\ task.request < r /\ r = holding)
          BY <5>1, NumberTypes
        <5>4. \A i \in DOMAIN queue : ~(task.request < queue[i].request /\ queue[i].request = r)
          BY <5>1, NumberTypes
        <5>5. holding = 0 => r # holding
          BY <5>1
        <5>6. QED
          BY <2>1, <4>1, <5>2, <5>3, <5>4, <5>5 DEF InOrder
      <4>3. QED
        BY <1>0, <2>2, <4>1, <4>2
    <3>3. QED
      BY <3>1, <3>2
  <2>5. QED
    BY <1>0, <2>1, <2>2, <2>3, <2>4 DEF SameQueue, Covered, Current
<1>7. CASE Rebalance \/ Crash
  <2>1. PICK offset \in -1 .. produced :
           /\ NewClaim(offset) /\ offset \in {marked, committed} /\ produced' = produced
           /\ committed' \in {marked, committed} /\ UNCHANGED settled
    <3>1. CASE Rebalance
      BY <3>1, FlushedType DEF Rebalance
    <3>2. CASE Crash
      BY <3>2 DEF Crash, TypeOK
    <3>3. QED
      BY <1>7, <3>1, <3>2
  <2>2. /\ marked' = 0 /\ (offset # -1 => position' = offset)
        /\ offset = -1 => \A r \in 1 .. produced : r \in settled \cup skipped'
        /\ position' \in 0 .. produced
    BY <2>1, ClaimTypes
  <2>3. \A r \in 1 .. offset : Over(r)'
    BY <1>0, <2>1 DEF Covered
  <2>4. \A r \in 1 .. position' : Over(r)'
    <3>1. CASE offset # -1
      BY <2>2, <2>3, <3>1
    <3>2. CASE offset = -1
      <4>1. \A r \in 1 .. position' : r \in 1 .. produced
        BY <2>2, NumberTypes
      <4>2. QED
        BY <2>1, <2>2, <3>2, <4>1 DEF Over
    <3>3. QED
      BY <3>1, <3>2
  <2>5. \A r \in 1 .. committed' : Over(r)'
    BY <1>0, <2>1 DEF Covered
  <2>6. 1 .. marked' = {}
    BY <2>2
  <2>7. QED
    BY <2>4, <2>5, <2>6 DEF Covered
<1>8. QED
  BY <1>1, <1>2, <1>3, <1>4, <1>5, <1>6, <1>7, BurnCases

-----------------------------------------------------------------------------
(* The RECs that success replies name *)

\* Events are counted, never forgotten.
LEMMA EventsGrow ==
    ASSUME TypeOK, [Next]_vars
    PROVE  /\ events \in [Kinds -> Nat] /\ events' \in [Kinds -> Nat]
           /\ \A k \in Kinds : events[k] <= events'[k]
           /\ Quiet' => Quiet
<1>0. events \in [Kinds -> Nat]
  BY DEF TypeOK
<1>1. ASSUME NEW kind \in Kinds, NEW b, Happens(kind, b)
      PROVE  events' \in [Kinds -> Nat] /\ \A k \in Kinds : events[k] <= events'[k]
  BY <1>0, <1>1, HappensFacts
<1>2. events' = events => events' \in [Kinds -> Nat] /\ \A k \in Kinds : events[k] <= events'[k]
  BY <1>0
<1>3. events' = events \/ \E kind \in Kinds : \E b : Happens(kind, b)
  BY BurnCases DEF Request, Fetch, Enqueue, Take, Parse, Submit, SubmitFails, Timeout, Deliver,
     ReplyErr, Reply, Mark, AutoCommit, Rebalance, Crash, vars, historyVars, Kinds
<1>4. events' \in [Kinds -> Nat] /\ \A k \in Kinds : events[k] <= events'[k]
  BY <1>1, <1>2, <1>3
<1>5. Quiet' => Quiet
  <2>1. \A a, b \in Nat : a <= b /\ b = 0 => a = 0
    OBVIOUS
  <2>2. \A a, b, c, d \in Nat : a <= c /\ b <= d /\ c + d = 0 => a + b = 0
    OBVIOUS
  <2>3. /\ events["timeout"] \in Nat /\ events["lost"] \in Nat /\ events["crash"] \in Nat
        /\ events["rebalance"] \in Nat /\ events'["timeout"] \in Nat /\ events'["lost"] \in Nat
        /\ events'["crash"] \in Nat /\ events'["rebalance"] \in Nat
        /\ events["timeout"] <= events'["timeout"] /\ events["lost"] <= events'["lost"]
        /\ events["crash"] <= events'["crash"] /\ events["rebalance"] <= events'["rebalance"]
    BY <1>0, <1>4 DEF Kinds
  <2>4. QED
    BY <2>1, <2>2, <2>3 DEF Quiet, Restarts
<1>6. QED
  BY <1>0, <1>4, <1>5

\* Each of these events ends the quiet.
LEMMA NotQuiet ==
    ASSUME events \in [Kinds -> Nat], NEW kind \in {"timeout", "lost", "crash", "rebalance"}, NEW b,
           Happens(kind, b)
    PROVE  ~Quiet'
<1>1. kind \in Kinds
  BY DEF Kinds
<1>2. events' \in [Kinds -> Nat] /\ events'[kind] = events[kind] + 1 /\ events[kind] \in Nat
  BY <1>1, HappensFacts
<1>3. \A k \in Kinds : events'[k] \in Nat
  BY <1>2
<1>4. events'[kind] \in Nat /\ events'[kind] # 0
  BY <1>1, <1>2
<1>5. \A c, d \in Nat : c + d = 0 => c = 0 /\ d = 0
  OBVIOUS
<1>6. Quiet' => /\ events'["timeout"] = 0 /\ events'["lost"] = 0
                /\ events'["crash"] = 0 /\ events'["rebalance"] = 0
  BY <1>3, <1>5 DEF Quiet, Restarts, Kinds
<1>7. QED
  BY <1>4, <1>6

\* RECs that left the collateral are told of, due to be told of, or lost to an
\* event.
LEMMA BooksStep ==
    ASSUME BurnAssumption, TypeOK, Handed, OneAwaited, Books, [Next]_vars
    PROVE  Books'
<1>0. /\ pending \in Seq(Txs) /\ told \in Nat /\ result \in Nat /\ recs \in Nat /\ Collateral \in Nat
      /\ Due \in Nat /\ events \in [Kinds -> Nat] /\ (Quiet' => Quiet)
  BY EventsGrow DEF TypeOK, Txs, Due, BurnAssumption
<1>1. CASE UNCHANGED <<told, recs, pending>> /\ Due' = Due
  BY <1>0, <1>1 DEF Books
<1>2. CASE UNCHANGED vars \/ Request \/ Fetch \/ Enqueue \/ AutoCommit \/ Rebalance
  BY <1>1, <1>2, ConsumerFrame DEF Due
<1>3. CASE Take \/ Parse \/ SubmitFails \/ ReplyErr \/ Mark
  <2>1. UNCHANGED <<told, recs, pending>> /\ at # "reply" /\ at' # "reply"
    BY <1>3 DEF Take, Parse, SubmitFails, ReplyErr, Mark, TaskDone, chainVars, historyVars
  <2>2. QED
    BY <1>1, <2>1 DEF Due
<1>4. CASE Submit
  <2> DEFINE e == [request |-> task.request, awaited |-> TRUE]
  <2>1. at = "submit" /\ pending' = Append(pending, e) /\ at' = "wait" /\ UNCHANGED <<told, recs>>
    BY <1>4 DEF Submit, historyVars
  <2>2. e.awaited
    OBVIOUS
  <2> HIDE DEF e
  <2>3. \A i \in DOMAIN pending' : pending'[i] = e \/ (i \in DOMAIN pending /\ pending'[i] = pending[i])
    BY <1>0, <2>1
  <2>4. Due' = Due
    BY <2>1 DEF Due
  <2>5. QED
    BY <1>0, <2>1, <2>2, <2>3, <2>4 DEF Books
<1>5. CASE Timeout \/ Crash
  <2>1. UNCHANGED <<told, recs>> /\ ~Quiet' /\ at' # "reply"
    BY <1>0, <1>5, NotQuiet DEF Timeout, Crash
  <2>2. Due' = 0
    BY <2>1 DEF Due
  <2>3. told <= Collateral - recs
    BY <1>0 DEF Books
  <2>4. QED
    BY <1>0, <2>1, <2>2, <2>3 DEF Books
<1>6. CASE Reply
  <2>1. at = "reply" /\ at' = "mark" /\ UNCHANGED <<recs, pending>>
    BY <1>6 DEF Reply, chainVars
  <2>2. Due = result /\ Due' = 0
    BY <2>1 DEF Due
  <2>3. CASE told' = told + result
    BY <1>0, <2>1, <2>2, <2>3 DEF Books
  <2>4. CASE told' = told /\ Happens("lost", MaxLostReplies)
    <3>1. ~Quiet'
      BY <1>0, <2>4, NotQuiet
    <3>2. told <= Collateral - recs
      BY <1>0 DEF Books
    <3>3. QED
      BY <1>0, <2>1, <2>2, <2>4, <3>1, <3>2 DEF Books
  <2>5. QED
    BY <1>6, <2>3, <2>4 DEF Reply
<1>7. CASE Deliver
  <2>1. PICK burn \in Txs : Executed(burn)
    BY <1>7, DeliverFacts
  <2>2. \A i \in DOMAIN pending' : i + 1 \in DOMAIN pending /\ pending'[i] = pending[i + 1]
    BY <1>0, <2>1, TailFacts DEF Executed
  <2>3. told' = told /\ 1 \in DOMAIN pending /\ burn = pending[1]
    BY <2>1 DEF Executed
  <2>4. (Quiet => \A i \in DOMAIN pending : pending[i].awaited)
        => (Quiet' => \A i \in DOMAIN pending' : pending'[i].awaited)
    BY <1>0, <2>2
  <2>5. CASE UNCHANGED <<recs, result>> /\ at' = "err" /\ burn.awaited
    <3>1. at # "reply"
      BY <2>3, <2>5 DEF OneAwaited
    <3>2. Due' = Due
      BY <2>5, <3>1 DEF Due
    <3>3. QED
      BY <1>0, <2>3, <2>4, <2>5, <3>2 DEF Books
  <2>6. CASE UNCHANGED <<recs, result, at>>
    <3>1. Due' = Due
      BY <2>6 DEF Due
    <3>2. QED
      BY <1>0, <2>3, <2>4, <2>6, <3>1 DEF Books
  <2> DEFINE k == RecsFor(burn.request)
  <2> HIDE DEF k
  <2>7. k \in Nat
    BY <2>1 DEF Executed, k
  <2>8. CASE k <= recs /\ recs' = recs - k /\ at' = "reply" /\ result' = k /\ burn.awaited
    <3>1. at # "reply"
      BY <2>3, <2>8 DEF OneAwaited
    <3>2. Due = 0 /\ Due' = k
      BY <2>8, <3>1 DEF Due
    <3>3. /\ recs' <= Collateral /\ told' + Due' <= Collateral - recs'
          /\ told + Due = Collateral - recs => told' + Due' = Collateral - recs'
      BY <1>0, <2>3, <2>7, <2>8, <3>2 DEF Books
    <3>4. QED
      BY <1>0, <2>4, <3>3 DEF Books
  <2>9. CASE k <= recs /\ recs' = recs - k /\ UNCHANGED <<at, result>> /\ ~burn.awaited
    <3>1. Due' = Due
      BY <2>9 DEF Due
    <3>2. ~Quiet
      BY <2>3, <2>9 DEF Books
    <3>3. recs' <= Collateral /\ told' + Due' <= Collateral - recs'
      BY <1>0, <2>3, <2>7, <2>9, <3>1 DEF Books
    <3>4. QED
      BY <1>0, <3>2, <3>3 DEF Books
  <2>10. QED
    BY <2>1, <2>5, <2>6, <2>8, <2>9 DEF Executed, Burnable, k
<1>8. QED
  BY <1>2, <1>3, <1>4, <1>5, <1>6, <1>7, BurnCases

-----------------------------------------------------------------------------
(* Counting the places from where a request may be burnt *)

\* A request has finitely many places in a sequence.
LEMMA OfFinite ==
    ASSUME NEW S, NEW s \in Seq(S), NEW r
    PROVE  IsFiniteSet(Of(s, r)) /\ Cardinality(Of(s, r)) \in Nat
<1>1. IsFiniteSet(1 .. Len(s)) /\ DOMAIN s = 1 .. Len(s)
  BY FS_Interval
<1>2. Of(s, r) \subseteq 1 .. Len(s)
  BY <1>1 DEF Of
<1>3. QED
  BY <1>1, <1>2, FS_Subset, FS_CardinalityType

\* One place more for the request that is appended, none for the others.
LEMMA OfAppend ==
    ASSUME NEW S, NEW s \in Seq(S), NEW e \in S, NEW r
    PROVE  /\ e.request = r => Cardinality(Of(Append(s, e), r)) = Cardinality(Of(s, r)) + 1
           /\ e.request # r => Cardinality(Of(Append(s, e), r)) = Cardinality(Of(s, r))
<1>0. PICK t : t = Append(s, e)
  OBVIOUS
<1>1. /\ Len(s) \in Nat /\ DOMAIN s = 1 .. Len(s) /\ DOMAIN t = 1 .. Len(s) + 1
      /\ t[Len(s) + 1] = e /\ \A i \in DOMAIN s : t[i] = s[i]
  BY <1>0, AppendFacts
<1>2. Len(s) + 1 \notin Of(s, r) /\ DOMAIN t = DOMAIN s \cup {Len(s) + 1}
  BY <1>1 DEF Of
<1>3. Of(t, r) = IF e.request = r THEN Of(s, r) \cup {Len(s) + 1} ELSE Of(s, r)
  <2>1. \A i \in DOMAIN s : i \in Of(t, r) <=> i \in Of(s, r)
    BY <1>1, <1>2 DEF Of
  <2>2. Len(s) + 1 \in Of(t, r) <=> e.request = r
    BY <1>1, <1>2 DEF Of
  <2>3. Of(t, r) \subseteq DOMAIN s \cup {Len(s) + 1} /\ Of(s, r) \subseteq DOMAIN s
    BY <1>2 DEF Of
  <2>4. CASE e.request = r
    BY <2>1, <2>2, <2>3, <2>4, Zenon
  <2>5. CASE e.request # r
    <3>1. \A i : i \in Of(t, r) <=> i \in Of(s, r)
      BY <2>1, <2>2, <2>3, <2>5
    <3>2. Of(t, r) = Of(s, r)
      BY <3>1
    <3>3. QED
      BY <2>5, <3>2
  <2>6. QED
    BY <2>4, <2>5
<1>4. IsFiniteSet(Of(s, r)) /\ Cardinality(Of(s, r)) \in Nat
  BY OfFinite
<1>5. Cardinality(Of(s, r) \cup {Len(s) + 1}) = Cardinality(Of(s, r)) + 1
  BY <1>2, <1>4, FS_AddElement
<1>6. QED
  BY <1>0, <1>3, <1>4, <1>5

\* One place less for the request at the head, none for the others.
LEMMA OfTail ==
    ASSUME NEW S, NEW s \in Seq(S), s # <<>>, NEW t, t = Tail(s), NEW r
    PROVE  Cardinality(Of(s, r)) = Cardinality(Of(t, r)) + One(s[1].request = r)
<1>1. /\ t \in Seq(S) /\ 1 \in DOMAIN s
      /\ \A i \in DOMAIN t : i \in Nat /\ i + 1 # 1 /\ i + 1 \in DOMAIN s /\ t[i] = s[i + 1]
      /\ \A i \in DOMAIN s : i # 1 => i - 1 \in DOMAIN t /\ t[i - 1] = s[i]
  BY TailFacts
<1> DEFINE A == Of(t, r)
           B == Of(s, r) \ {1}
           f == [i \in A |-> i + 1]
<1>2. \A i \in A : i \in Nat /\ i + 1 \in B
  BY <1>1 DEF Of
<1>3. \A j \in B : j - 1 \in A /\ j \in Nat /\ (j - 1) + 1 = j
  <2>1. \A j \in B : j - 1 \in A
    BY <1>1 DEF Of
  <2>2. \A j \in B : j \in Nat
    BY ElementFacts DEF Of
  <2>3. QED
    BY <2>1, <2>2
<1> HIDE DEF A, B
<1>4. f \in Bijection(A, B)
  <2>1. f \in [A -> B]
    BY <1>2
  <2>2. \A i, j \in A : f[i] = f[j] => i = j
    BY <1>2
  <2>3. \A j \in B : \E i \in A : f[i] = j
    BY <1>3
  <2>4. QED
    BY <2>1, <2>2, <2>3 DEF Bijection, Injection, Surjection, IsInjective
<1>5. IsFiniteSet(A) /\ Cardinality(A) \in Nat
  BY <1>1, OfFinite DEF A
<1>6. Cardinality(B) = Cardinality(A)
  BY <1>4, <1>5, FS_Bijection DEF ExistsBijection
<1>7. IsFiniteSet(Of(s, r)) /\ Cardinality(Of(s, r)) \in Nat
  BY OfFinite
<1>8. Cardinality(B) = Cardinality(Of(s, r)) - One(s[1].request = r)
  <2>1. 1 \in Of(s, r) <=> s[1].request = r
    BY <1>1 DEF Of
  <2>2. Cardinality(Of(s, r) \ {1}) =
           IF 1 \in Of(s, r) THEN Cardinality(Of(s, r)) - 1 ELSE Cardinality(Of(s, r))
    BY <1>7, FS_RemoveElement
  <2>3. QED
    BY <1>7, <2>1, <2>2 DEF B, One
<1>9. One(s[1].request = r) \in Nat
  BY DEF One
<1>10. QED
  BY <1>5, <1>6, <1>7, <1>8, <1>9 DEF A

\* The terms of the bound.
InWork(r) == One(at \in {"parse", "submit"} /\ task.request = r)

\* All terms of the bound are numbers.
LEMMA CopiesTerms ==
    ASSUME BurnAssumption, TypeOK, NEW r \in Requests
    PROVE  /\ burns[r] \in Nat /\ Cardinality(Of(pending, r)) \in Nat
           /\ Cardinality(Of(queue, r)) \in Nat
           /\ InWork(r) \in 0 .. 1 /\ One(holding = r) \in 0 .. 1 /\ One(r > position) \in 0 .. 1
           /\ Restarts \in Nat
           /\ Copies(r) = Cardinality(Of(pending, r)) + Cardinality(Of(queue, r)) + InWork(r)
                            + One(holding = r) + One(r > position)
<1>1. Cardinality(Of(pending, r)) \in Nat /\ Cardinality(Of(queue, r)) \in Nat
  BY OfFinite DEF TypeOK
<1>2. burns[r] \in Nat /\ Restarts \in Nat
  BY DEF TypeOK, Restarts, Kinds
<1>3. InWork(r) \in 0 .. 1 /\ One(holding = r) \in 0 .. 1 /\ One(r > position) \in 0 .. 1
  BY DEF One, InWork
<1>4. QED
  BY <1>1, <1>2, <1>3 DEF Copies, InWork

\* A request moves from place to place and is burnt from the last one, so that
\* burns and places together grow only with a restart.
LEMMA CopiesStep ==
    ASSUME BurnAssumption, TypeOK, TypeOK', Handed, OneAwaited, CopiesBounded, [Next]_vars
    PROVE  CopiesBounded'
<1> DEFINE p(r) == Cardinality(Of(pending, r))
           q(r) == Cardinality(Of(queue, r))
           w(r) == InWork(r)
           h(r) == One(holding = r)
           n(r) == One(r > position)
           S == [request : Requests, session : Nat]
<1>1. SUFFICES ASSUME NEW r \in Requests
               PROVE  burns'[r] + Copies(r)' <= 1 + Restarts'
  BY DEF CopiesBounded
<1>2. /\ burns[r] \in Nat /\ p(r) \in Nat /\ q(r) \in Nat
      /\ w(r) \in 0 .. 1 /\ h(r) \in 0 .. 1 /\ n(r) \in 0 .. 1 /\ Restarts \in Nat
      /\ burns[r] + (p(r) + q(r) + w(r) + h(r) + n(r)) <= 1 + Restarts
  BY <1>1, CopiesTerms DEF CopiesBounded
<1>3. /\ burns'[r] \in Nat /\ p(r)' \in Nat /\ q(r)' \in Nat
      /\ w(r)' \in 0 .. 1 /\ h(r)' \in 0 .. 1 /\ n(r)' \in 0 .. 1 /\ Restarts' \in Nat
      /\ Copies(r)' = p(r)' + q(r)' + w(r)' + h(r)' + n(r)'
  <2>1. p(r)' \in Nat /\ q(r)' \in Nat
    <3>1. pending' \in Seq(Txs) /\ queue' \in Seq(S)
      BY DEF TypeOK, Txs
    <3>2. \A s : Of(s, r)' = Of(s, r)
      BY DEF Of
    <3>3. QED
      BY <3>1, OfFinite DEF Of
  <2>2. burns'[r] \in Nat /\ Restarts' \in Nat
    <3>1. burns' \in [Requests -> Nat] /\ events' \in [Kinds -> Nat]
      BY DEF TypeOK
    <3>2. QED
      BY <1>1, <3>1 DEF Restarts, Kinds
  <2>3. w(r)' \in 0 .. 1 /\ h(r)' \in 0 .. 1 /\ n(r)' \in 0 .. 1
    BY DEF One, InWork
  <2>4. QED
    BY <2>1, <2>2, <2>3 DEF Copies, InWork
<1>4. Restarts <= Restarts'
  <2>1. /\ events["crash"] \in Nat /\ events["rebalance"] \in Nat
        /\ events'["crash"] \in Nat /\ events'["rebalance"] \in Nat
        /\ events["crash"] <= events'["crash"] /\ events["rebalance"] <= events'["rebalance"]
    BY EventsGrow DEF Kinds
  <2>2. QED
    BY <2>1 DEF Restarts
<1>5. /\ pending \in Seq(Txs) /\ queue \in Seq(S) /\ r \in Nat \ {0}
      /\ position \in Nat /\ holding \in Nat
  BY NumberTypes DEF TypeOK, Txs
<1> HIDE DEF S
<1>6. ASSUME burns'[r] + p(r)' <= burns[r] + p(r), q(r)' + w(r)' <= q(r) + w(r),
             h(r)' = h(r), n(r)' = n(r)
      PROVE  burns'[r] + Copies(r)' <= 1 + Restarts'
  <2> HIDE DEF p, q, w, h, n
  <2>1. QED
    BY <1>2, <1>3, <1>4, <1>6
<1>7. CASE UNCHANGED vars \/ Request \/ AutoCommit
  BY <1>2, <1>6, <1>7 DEF Request, AutoCommit, vars, kafkaVars, workerVars, chainVars,
     historyVars, InWork
<1>8. CASE Fetch
  <2>1. /\ position' = position + 1 /\ holding' = position + 1 /\ holding = 0
        /\ UNCHANGED <<queue, task, at, pending, burns>>
    BY <1>8 DEF Fetch, workerVars, chainVars, historyVars
  <2>2. h(r)' + n(r)' <= h(r) + n(r)
    BY <1>5, <2>1 DEF One
  <2>3. burns'[r] = burns[r] /\ p(r)' = p(r) /\ q(r)' = q(r) /\ w(r)' = w(r)
    BY <2>1 DEF InWork
  <2> HIDE DEF p, q, w, h, n
  <2>4. QED
    BY <1>2, <1>3, <1>4, <2>2, <2>3
<1>9. CASE Enqueue
  <2> DEFINE e == [request |-> holding, session |-> session]
  <2>1. /\ queue' = Append(queue, e) /\ holding' = 0
        /\ UNCHANGED <<position, task, at, pending, burns>>
    BY <1>9 DEF Enqueue, chainVars, historyVars
  <2>2. e.request = holding /\ e \in S
    BY <1>9, NumberTypes DEF S, Enqueue, TypeOK, Requests, BurnAssumption
  <2> HIDE DEF e
  <2>3. q(r)' = q(r) + h(r)
    <3>1. Cardinality(Of(queue', r)) = Cardinality(Of(queue, r)) + One(e.request = r)
      <4>1. queue \in Seq(S) /\ e \in S /\ queue' = Append(queue, e)
        BY <1>5, <2>1, <2>2
      <4>2. /\ e.request = r => Cardinality(Of(queue', r)) = Cardinality(Of(queue, r)) + 1
            /\ e.request # r => Cardinality(Of(queue', r)) = Cardinality(Of(queue, r))
        BY <4>1, OfAppend
      <4>3. QED
        BY <1>2, <4>2 DEF One
    <3>2. QED
      BY <2>2, <3>1 DEF Of
  <2>4. burns'[r] = burns[r] /\ p(r)' = p(r) /\ n(r)' = n(r) /\ w(r)' = w(r)
    BY <2>1 DEF InWork
  <2>5. h(r)' = 0
    BY <1>5, <2>1 DEF One
  <2> HIDE DEF p, q, w, h, n
  <2>6. QED
    BY <1>2, <1>3, <1>4, <2>3, <2>4, <2>5
<1>10. CASE Take
  <2>1. /\ at = "idle" /\ queue # <<>> /\ task' = Head(queue) /\ queue' = Tail(queue)
        /\ at' = "parse" /\ UNCHANGED <<position, holding, pending, burns>>
    BY <1>10 DEF Take, kafkaVars, chainVars, historyVars
  <2>2. task' = queue[1]
    BY <1>5, <2>1, TailFacts
  <2>3. q(r) = q(r)' + w(r)' /\ w(r) = 0
    <3>1. Cardinality(Of(queue, r)) = Cardinality(Of(queue', r)) + One(queue[1].request = r)
      BY <1>5, <2>1, OfTail DEF One
    <3>2. InWork(r)' = One(queue[1].request = r)
      BY <2>1, <2>2 DEF InWork, One
    <3>3. InWork(r) = 0
      BY <2>1 DEF InWork, One
    <3>4. QED
      BY <3>1, <3>2, <3>3 DEF Of
  <2>4. burns'[r] = burns[r] /\ p(r)' = p(r) /\ n(r)' = n(r) /\ h(r)' = h(r)
    BY <2>1
  <2> HIDE DEF p, q, w, h, n
  <2>5. QED
    BY <1>2, <1>3, <1>4, <2>3, <2>4
<1>11. CASE Parse \/ SubmitFails \/ ReplyErr \/ Reply \/ Mark
  <2>1. /\ UNCHANGED <<position, holding, pending, burns, queue>>
        /\ at' \in {"parse", "submit"} => at \in {"parse", "submit"} /\ task' = task
    BY <1>11 DEF Parse, SubmitFails, ReplyErr, Reply, Mark, TaskDone, kafkaVars, chainVars,
       historyVars
  <2>2. w(r)' <= w(r)
    BY <2>1 DEF InWork, One
  <2>3. burns'[r] = burns[r] /\ p(r)' = p(r) /\ q(r)' = q(r) /\ n(r)' = n(r) /\ h(r)' = h(r)
    BY <2>1
  <2> HIDE DEF p, q, w, h, n
  <2>4. QED
    BY <1>2, <1>3, <1>6, <2>2, <2>3
<1>12. CASE Submit
  <2> DEFINE e == [request |-> task.request, awaited |-> TRUE]
  <2>1. /\ at = "submit" /\ pending' = Append(pending, e) /\ at' = "wait"
        /\ UNCHANGED <<position, holding, burns, queue>>
    BY <1>12 DEF Submit, kafkaVars, historyVars
  <2>2. e.request = task.request /\ e \in Txs
    BY <2>1, TaskFacts DEF Txs
  <2> HIDE DEF e
  <2>3. p(r)' = p(r) + w(r)
    <3>1. Cardinality(Of(pending', r)) = Cardinality(Of(pending, r)) + One(e.request = r)
      <4>1. pending \in Seq(Txs) /\ e \in Txs /\ pending' = Append(pending, e)
        BY <1>5, <2>1, <2>2
      <4>2. /\ e.request = r => Cardinality(Of(pending', r)) = Cardinality(Of(pending, r)) + 1
            /\ e.request # r => Cardinality(Of(pending', r)) = Cardinality(Of(pending, r))
        BY <4>1, OfAppend
      <4>3. QED
        BY <1>2, <4>2 DEF One
    <3>2. InWork(r) = One(e.request = r)
      BY <2>1, <2>2 DEF InWork, One
    <3>3. QED
      BY <3>1, <3>2 DEF Of
  <2>4. w(r)' = 0
    BY <2>1 DEF InWork, One
  <2>5. burns'[r] = burns[r] /\ q(r)' = q(r) /\ n(r)' = n(r) /\ h(r)' = h(r)
    BY <2>1
  <2> HIDE DEF p, q, w, h, n
  <2>6. QED
    BY <1>2, <1>3, <1>4, <2>3, <2>4, <2>5
<1>13. Timeout \/ Crash => p(r)' = p(r)
  <2>1. Timeout \/ Crash => pending' = Forgotten
    BY DEF Timeout, Crash, Forgotten
  <2>2. pending' = Forgotten => Of(pending', r) = Of(pending, r)
    BY <1>5, ForgottenFacts DEF Of
  <2>3. QED
    BY <2>1, <2>2 DEF Of
<1>14. CASE Timeout
  <2>1. /\ at' = "err" /\ UNCHANGED <<position, holding, burns, queue>>
    BY <1>14 DEF Timeout, kafkaVars
  <2>2. w(r)' = 0
    BY <2>1 DEF InWork, One
  <2>3. burns'[r] = burns[r] /\ q(r)' = q(r) /\ n(r)' = n(r) /\ h(r)' = h(r)
    BY <2>1
  <2> HIDE DEF p, q, w, h, n
  <2>4. QED
    BY <1>2, <1>3, <1>6, <1>13, <1>14, <2>2, <2>3
<1>15. CASE Deliver
  <2>1. PICK burn \in Txs : Executed(burn)
    BY <1>15, DeliverFacts
  <2>2. /\ pending # <<>> /\ pending' = Tail(pending) /\ burn = pending[1] /\ burn.request \in Requests
        /\ UNCHANGED <<position, holding, queue, task>>
        /\ burns' = burns \/ burns' = [burns EXCEPT ![burn.request] = @ + 1]
        /\ at' \in {"parse", "submit"} => at' = at
    BY <2>1 DEF Executed, kafkaVars
  <2>3. p(r) = p(r)' + One(burn.request = r)
    <3>1. Cardinality(Of(pending, r)) = Cardinality(Of(pending', r)) + One(pending[1].request = r)
      <4>1. pending \in Seq(Txs) /\ pending # <<>> /\ pending' = Tail(pending)
        BY <1>5, <2>2
      <4>2. QED
        BY <4>1, OfTail DEF One
    <3>2. QED
      BY <2>2, <3>1 DEF Of
  <2>4. burns'[r] <= burns[r] + One(burn.request = r)
    <3>1. burns \in [Requests -> Nat]
      BY DEF TypeOK
    <3>2. QED
      BY <1>1, <2>2, <3>1 DEF One
  <2>5. w(r)' <= w(r)
    BY <2>2 DEF InWork, One
  <2>6. q(r)' = q(r) /\ n(r)' = n(r) /\ h(r)' = h(r)
    BY <2>2
  <2>7. One(burn.request = r) \in 0 .. 1
    BY DEF One
  <2> HIDE DEF p, q, w, h, n
  <2>8. QED
    BY <1>2, <1>3, <1>6, <2>3, <2>4, <2>5, <2>6, <2>7
<1>16. CASE Rebalance \/ Crash
  <2>1. Restarts' = Restarts + 1
    <3>1. events \in [Kinds -> Nat]
      BY DEF TypeOK
    <3>2. \/ events' = [events EXCEPT !["rebalance"] = @ + 1]
          \/ events' = [events EXCEPT !["crash"] = @ + 1]
      BY <1>16, RestartTypes
    <3>3. QED
      BY <3>1, <3>2 DEF Restarts, Kinds
  <2>2. h(r)' = 0
    BY <1>5, <1>16, RestartFacts DEF One
  <2>3. burns' = burns
    BY <1>16 DEF Rebalance, Crash
  <2>4. CASE Rebalance
    <3>1. UNCHANGED <<pending, queue, at, task>>
      BY <2>4 DEF Rebalance, workerVars, chainVars
    <3>2. p(r)' = p(r) /\ q(r)' = q(r) /\ w(r)' = w(r)
      BY <3>1 DEF InWork
    <3> HIDE DEF p, q, w, h, n
    <3>3. QED
      BY <1>2, <1>3, <2>1, <2>2, <2>3, <3>2
  <2>5. CASE Crash
    <3>1. queue' = <<>> /\ at' = "idle"
      BY <2>5 DEF Crash
    <3>2. q(r)' = 0
      <4>1. Of(queue', r) = {}
        BY <3>1 DEF Of
      <4>2. QED
        BY <4>1, FS_EmptySet DEF Of
    <3>3. w(r)' = 0
      BY <3>1 DEF InWork, One
    <3> HIDE DEF p, q, w, h, n
    <3>4. QED
      BY <1>2, <1>3, <1>13, <2>1, <2>2, <2>3, <2>5, <3>2, <3>3
  <2>6. QED
    BY <1>16, <2>4, <2>5
<1>17. QED
  BY <1>7, <1>8, <1>9, <1>10, <1>11, <1>12, <1>14, <1>15, <1>16, BurnCases

-----------------------------------------------------------------------------
(* The burns nobody is told of *)

\* The size of a set that gains or loses at most one element.
LEMMA CardinalityFacts ==
    ASSUME NEW A, NEW B, IsFiniteSet(A), NEW x
    PROVE  /\ Cardinality(A) \in Nat
           /\ B \subseteq A => Cardinality(B) \in Nat /\ Cardinality(B) <= Cardinality(A)
           /\ B \subseteq A \cup {x} => Cardinality(B) \in Nat /\ Cardinality(B) <= Cardinality(A) + 1
           /\ x \in A /\ B \subseteq A \ {x} => Cardinality(B) \in Nat /\ Cardinality(B) < Cardinality(A)
<1>1. Cardinality(A) \in Nat
  BY FS_CardinalityType
<1>2. /\ IsFiniteSet(A \cup {x}) /\ Cardinality(A \cup {x}) \in Nat
      /\ Cardinality(A \cup {x}) <= Cardinality(A) + 1
  <2>1. /\ IsFiniteSet(A \cup {x})
        /\ Cardinality(A \cup {x}) = IF x \in A THEN Cardinality(A) ELSE Cardinality(A) + 1
    BY FS_AddElement
  <2>2. QED
    BY <1>1, <2>1
<1>3. /\ IsFiniteSet(A \ {x}) /\ Cardinality(A \ {x}) \in Nat
      /\ x \in A => Cardinality(A \ {x}) < Cardinality(A)
  <2>1. /\ IsFiniteSet(A \ {x})
        /\ Cardinality(A \ {x}) = IF x \in A THEN Cardinality(A) - 1 ELSE Cardinality(A)
    BY FS_RemoveElement
  <2>2. Cardinality(A \ {x}) \in Nat
    BY <2>1, FS_CardinalityType
  <2>3. QED
    BY <1>1, <2>1, <2>2
<1>4. B \subseteq A => Cardinality(B) \in Nat /\ Cardinality(B) <= Cardinality(A)
  BY FS_Subset, FS_CardinalityType
<1>5. B \subseteq A \cup {x} => Cardinality(B) \in Nat /\ Cardinality(B) <= Cardinality(A \cup {x})
  BY <1>2, FS_Subset, FS_CardinalityType
<1>6. B \subseteq A \ {x} => Cardinality(B) \in Nat /\ Cardinality(B) <= Cardinality(A \ {x})
  BY <1>3, FS_Subset, FS_CardinalityType
<1>7. QED
  BY <1>1, <1>2, <1>3, <1>4, <1>5, <1>6

\* The sets of requests are finite.
LEMMA UntoldFinite ==
    ASSUME BurnAssumption
    PROVE  Untold \subseteq Silent /\ Silent \subseteq Requests /\ IsFiniteSet(Requests)
             /\ IsFiniteSet(Silent) /\ IsFiniteSet(Untold)
<1>1. IsFiniteSet(Requests)
  BY FS_Interval DEF Requests, BurnAssumption
<1>2. Untold \subseteq Silent /\ Silent \subseteq Requests
  BY DEF Untold, Silent
<1>3. Untold \subseteq Requests
  BY <1>2
<1>4. QED
  BY <1>1, <1>2, <1>3, FS_Subset

\* Events are never forgotten, and each timeout, lost reply and crash counts one.
LEMMA LossesGrow ==
    ASSUME TypeOK, [Next]_vars
    PROVE  /\ Losses \in Nat /\ Losses' \in Nat /\ Losses <= Losses'
           /\ \A b : Happens("timeout", b) => Losses' = Losses + 1
           /\ \A b : Happens("lost", b) => Losses' = Losses + 1
           /\ \A b : Happens("crash", b) => Losses' = Losses + 1
           /\ events'["rebalance"] = 0 => events["rebalance"] = 0
<1>1. /\ events["timeout"] \in Nat /\ events["lost"] \in Nat /\ events["crash"] \in Nat
      /\ events'["timeout"] \in Nat /\ events'["lost"] \in Nat /\ events'["crash"] \in Nat
      /\ events["rebalance"] \in Nat /\ events'["rebalance"] \in Nat
      /\ events["timeout"] <= events'["timeout"] /\ events["lost"] <= events'["lost"]
      /\ events["crash"] <= events'["crash"] /\ events["rebalance"] <= events'["rebalance"]
  BY EventsGrow DEF Kinds
<1>2. /\ Losses \in Nat /\ Losses' \in Nat /\ Losses <= Losses'
      /\ events'["rebalance"] = 0 => events["rebalance"] = 0
  BY <1>1 DEF Losses
<1>3. events \in [Kinds -> Nat]
  BY DEF TypeOK
<1>4. ASSUME NEW b, Happens("timeout", b)
      PROVE  Losses' = Losses + 1
  BY <1>1, <1>3, <1>4, HappensFacts DEF Losses, Kinds
<1>5. ASSUME NEW b, Happens("lost", b)
      PROVE  Losses' = Losses + 1
  BY <1>1, <1>3, <1>5, HappensFacts DEF Losses, Kinds
<1>6. ASSUME NEW b, Happens("crash", b)
      PROVE  Losses' = Losses + 1
  BY <1>1, <1>3, <1>6, HappensFacts DEF Losses, Kinds
<1>7. QED
  BY <1>2, <1>4, <1>5, <1>6

\* A step after which at most one request fewer is untold: if that one was above
\* all the refused ones, the event that paid for it is spare.
LEMMA PaidShrinks ==
    ASSUME BurnAssumption, TypeOK, HiddenPaid, [Next]_vars,
           NEW x, Untold' \subseteq Untold, Untold \ {x} \subseteq Untold', refused' = refused,
           events'["rebalance"] = 0 => \A u \in Requests : Ahead(u)' => Ahead(u)
    PROVE  HiddenPaid'
<1>1. Losses \in Nat /\ Losses' \in Nat /\ Losses <= Losses'
      /\ (events'["rebalance"] = 0 => events["rebalance"] = 0)
  BY LossesGrow
<1>2. IsFiniteSet(Untold)
  BY UntoldFinite
<1>3. Cardinality(Untold) \in Nat /\ Cardinality(Untold') \in Nat
      /\ Cardinality(Untold') <= Cardinality(Untold)
  BY <1>2, CardinalityFacts
<1>4. Cardinality(Untold') <= Losses'
  BY <1>1, <1>3 DEF HiddenPaid
<1>5. ASSUME events'["rebalance"] = 0
      PROVE  SpareEvent' \/ PaidNotRefused' \/ RefusedBehind'
  <2>1. SpareEvent \/ PaidNotRefused \/ RefusedBehind
    BY <1>1, <1>5 DEF HiddenPaid
  <2>2. CASE SpareEvent
    BY <1>1, <1>3, <2>2 DEF SpareEvent
  <2>3. CASE RefusedBehind
    BY <1>5, <2>3 DEF RefusedBehind
  <2>4. CASE PaidNotRefused
    <3>1. PICK q \in Untold : \A r \in refused : r < q
      BY <2>4 DEF PaidNotRefused
    <3>2. CASE q \in Untold'
      BY <3>1, <3>2 DEF PaidNotRefused
    <3>3. CASE q \notin Untold'
      <4>1. Untold' \subseteq Untold \ {q}
        BY <3>3
      <4>2. Cardinality(Untold') < Cardinality(Untold)
        BY <1>2, <4>1, CardinalityFacts
      <4>3. QED
        BY <1>1, <1>3, <4>2 DEF SpareEvent, HiddenPaid
    <3>4. QED
      BY <3>2, <3>3
  <2>5. QED
    BY <2>1, <2>2, <2>3, <2>4
<1>6. QED
  BY <1>4, <1>5 DEF HiddenPaid

\* A step after which one request more may be untold, and that is an event.
LEMMA PaidGrows ==
    ASSUME BurnAssumption, TypeOK, HiddenPaid, [Next]_vars,
           NEW x, Untold \subseteq Untold', Untold' \subseteq Untold \cup {x}, refused' = refused,
           Losses' = Losses + 1,
           (\A u \in Requests : Ahead(u)' => Ahead(u)) \/ (x \notin Requests \/ Ahead(x))
    PROVE  HiddenPaid'
<1>1. Losses \in Nat /\ Losses' \in Nat
      /\ (events'["rebalance"] = 0 => events["rebalance"] = 0)
  BY LossesGrow
<1>2. IsFiniteSet(Untold)
  BY UntoldFinite
<1>3. Cardinality(Untold) \in Nat /\ Cardinality(Untold') \in Nat
      /\ Cardinality(Untold') <= Cardinality(Untold) + 1
  BY <1>2, CardinalityFacts
<1>4. Cardinality(Untold') <= Losses'
  BY <1>1, <1>3 DEF HiddenPaid
<1>5. ASSUME events'["rebalance"] = 0
      PROVE  SpareEvent' \/ PaidNotRefused' \/ RefusedBehind'
  <2>1. SpareEvent \/ PaidNotRefused \/ RefusedBehind
    BY <1>1, <1>5 DEF HiddenPaid
  <2>2. CASE SpareEvent
    BY <1>1, <1>3, <2>2 DEF SpareEvent
  <2>3. CASE PaidNotRefused
    BY <2>3 DEF PaidNotRefused
  <2>4. CASE RefusedBehind
    <3>1. CASE \A u \in Requests : Ahead(u)' => Ahead(u)
      BY <2>4, <3>1 DEF RefusedBehind
    <3>2. CASE x \notin Requests \/ Ahead(x)
      <4>1. CASE Untold' = Untold
        <5>1. Cardinality(Untold') = Cardinality(Untold) /\ Cardinality(Untold) <= Losses
          BY <4>1 DEF HiddenPaid
        <5>2. Cardinality(Untold') < Losses'
          BY <1>1, <1>3, <5>1
        <5>3. QED
          BY <5>2 DEF SpareEvent
      <4>2. CASE Untold' # Untold
        <5>1. x \in Untold' /\ x \in Requests
          <6>1. Untold' \subseteq Requests
            BY DEF Untold, Silent
          <6>2. x \in Untold'
            BY <4>2
          <6>3. QED
            BY <6>1, <6>2
        <5>2. \A r \in refused : r < x
          BY <2>4, <3>2, <5>1 DEF RefusedBehind
        <5>3. QED
          BY <5>1, <5>2 DEF PaidNotRefused
      <4>3. QED
        BY <4>1, <4>2
    <3>3. QED
      BY <3>1, <3>2
  <2>5. QED
    BY <2>1, <2>2, <2>3, <2>4
<1>6. QED
  BY <1>4, <1>5 DEF HiddenPaid

\* Without a restart, requests that were not ahead of the worker stay behind it.
LEMMA AheadShrinks ==
    ASSUME BurnAssumption, TypeOK, Handed, OneAwaited, [Next]_vars, ~Rebalance, ~Crash
    PROVE  \A u \in Requests : Ahead(u)' => Ahead(u)
<1> DEFINE S == [request : Requests, session : Nat]
<1>0. queue \in Seq(S) /\ position \in Nat /\ Requests \subseteq Nat
  BY NumberTypes DEF TypeOK
<1>1. CASE SameQueue /\ SameTask
  BY <1>1 DEF SameQueue, SameTask, Ahead
<1>2. CASE Fetch
  <2>1. /\ position' = position + 1 /\ holding' = position + 1
        /\ UNCHANGED <<queue, task, at>>
    BY <1>2 DEF Fetch, workerVars
  <2>2. \A u \in Requests : u > position' \/ u = holding' => u > position
    BY <1>0, <2>1
  <2>3. QED
    BY <2>1, <2>2 DEF Ahead
<1>3. CASE Enqueue
  <2> DEFINE e == [request |-> holding, session |-> session]
  <2>1. /\ holding # 0 /\ queue' = Append(queue, e) /\ holding' = 0
        /\ UNCHANGED <<position, task, at>>
    BY <1>3 DEF Enqueue
  <2>2. e.request = holding
    OBVIOUS
  <2> HIDE DEF e
  <2>3. \A i \in DOMAIN queue' : queue'[i] = e \/ (i \in DOMAIN queue /\ queue'[i] = queue[i])
    BY <1>0, <2>1
  <2>4. QED
    BY <2>1, <2>2, <2>3 DEF Ahead
<1>4. CASE Take
  <2>1. /\ queue # <<>> /\ task' = Head(queue) /\ queue' = Tail(queue)
        /\ UNCHANGED <<position, holding>>
    BY <1>4 DEF Take, kafkaVars
  <2> HIDE DEF S
  <2>2. /\ 1 \in DOMAIN queue /\ task' = queue[1]
        /\ \A i \in DOMAIN queue' : i + 1 \in DOMAIN queue /\ queue'[i] = queue[i + 1]
    BY <1>0, <2>1, TailFacts
  <2>3. QED
    BY <2>1, <2>2 DEF Ahead
<1>5. QED
  BY <1>1, <1>2, <1>3, <1>4, BurnCases, OrderFrame

\* Until the group rebalances, a worker that leaves its task has only requests
\* above it ahead.
LEMMA AheadAbove ==
    ASSUME BurnAssumption, TypeOK, Handed, OneSession, InOrder, events["rebalance"] = 0,
           at # "idle", at' = "idle", UNCHANGED <<queue, position, holding>>
    PROVE  \A u \in Requests : Ahead(u)' => task.request < u
<1>1. position \in Nat /\ task.request \in Nat /\ Requests \subseteq Nat
  BY NumberTypes
<1>2. /\ task.request <= position /\ (holding # 0 => task.request < holding)
      /\ \A i \in DOMAIN queue : task.request < queue[i].request
  BY DEF OneSession, InOrder
<1>3. ASSUME NEW u \in Requests, u > position PROVE task.request < u
  <2>1. u \in Nat
    BY <1>1
  <2>2. QED
    BY <1>1, <1>2, <1>3, <2>1
<1>4. QED
  BY <1>2, <1>3 DEF Ahead

\* Some burn of a request is in the mempool and nobody waits for it.
Late(r) == \E i \in DOMAIN pending : pending[i].request = r /\ ~pending[i].awaited

\* A block adds nothing to the burns nobody is told of: the burn was counted when
\* its wait was given up, and an awaited one is about to be told.
LEMMA DeliverUntold ==
    ASSUME BurnAssumption, TypeOK, OneAwaited, Deliver
    PROVE  \E x : Untold' \subseteq Untold /\ Untold \ {x} \subseteq Untold'
<1>1. PICK burn \in Txs : Executed(burn)
  BY DeliverFacts
<1>2. pending \in Seq(Txs) /\ burns \in [Requests -> Nat]
  BY DEF TypeOK, Txs
<1>3. /\ 1 \in DOMAIN pending /\ burn = pending[1] /\ burn.request \in Requests
      /\ UNCHANGED <<replied, task>>
  BY <1>1 DEF Executed
<1>4. /\ \A i \in DOMAIN pending' : i + 1 \in DOMAIN pending /\ pending'[i] = pending[i + 1]
      /\ \A i \in DOMAIN pending : i # 1 => i - 1 \in DOMAIN pending' /\ pending'[i - 1] = pending[i]
  BY <1>1, <1>2, TailFacts DEF Executed
<1>5. \A r : Late(r)' => Late(r)
  BY <1>4 DEF Late
<1>6. \A r : r # burn.request /\ Late(r) => Late(r)'
  BY <1>3, <1>4 DEF Late
<1>7. ~burn.awaited => Late(burn.request)
  BY <1>3 DEF Late
<1>8. burn.awaited => at = "wait" /\ burn.request = task.request /\ (at' = "reply" \/ burns' = burns)
  BY <1>1, <1>3 DEF Executed, OneAwaited
<1>9. ~burn.awaited => at' = at
  BY <1>1 DEF Executed
<1>10. \A r \in Requests : r # burn.request => burns'[r] = burns[r]
  BY <1>1, <1>2, <1>3 DEF Executed
<1>11. /\ Silent = {r \in Requests \ replied : burns[r] > 0 \/ Late(r)}
       /\ Silent' = {r \in Requests \ replied : burns'[r] > 0 \/ Late(r)'}
  BY <1>3 DEF Silent, Late
<1> HIDE DEF Late
<1>12. \A r : r # burn.request => (r \in Silent' <=> r \in Silent)
  BY <1>5, <1>6, <1>10, <1>11
<1>13. \A r : r # burn.request => (r \in Untold' <=> r \in Untold)
  <2>1. CASE burn.awaited
    <3>1. at # "reply" /\ task'.request = burn.request
      BY <1>3, <1>8, <2>1
    <3>2. QED
      BY <1>12, <3>1 DEF Untold
  <2>2. CASE ~burn.awaited
    BY <1>3, <1>9, <1>12, <2>2 DEF Untold
  <2>3. QED
    BY <2>1, <2>2
<1>14. burn.request \in Untold' => burn.request \in Untold
  <2>1. CASE burn.awaited
    <3>1. CASE at' = "reply"
      BY <1>3, <1>8, <2>1, <3>1 DEF Untold
    <3>2. CASE burns' = burns
      <4>1. Silent' \subseteq Silent
        BY <1>5, <1>11, <3>2
      <4>2. QED
        BY <1>8, <2>1, <4>1 DEF Untold
    <3>3. QED
      BY <1>8, <2>1, <3>1, <3>2
  <2>2. CASE ~burn.awaited
    <3>1. burn.request \in Silent' => burn.request \in Silent
      BY <1>7, <1>11, <2>2
    <3>2. QED
      BY <1>3, <1>9, <2>2, <3>1 DEF Untold
  <2>3. QED
    BY <2>1, <2>2
<1>15. QED
  BY <1>13, <1>14

\* A call that is given up leaves at most the worker's own request behind.
LEMMA ForgottenUntold ==
    ASSUME BurnAssumption, TypeOK, OneAwaited, pending' = Forgotten, at' # "reply",
           UNCHANGED <<replied, burns>>
    PROVE  Untold \subseteq Untold' /\ Untold' \subseteq Untold \cup {task.request}
<1>1. /\ DOMAIN pending' = DOMAIN pending
      /\ \A i \in DOMAIN pending : pending'[i].request = pending[i].request /\ ~pending'[i].awaited
  <2>1. pending \in Seq(Txs)
    BY DEF TypeOK, Txs
  <2>2. QED
    BY <2>1, ForgottenFacts
<1>2. \A r : Late(r) => Late(r)'
  BY <1>1 DEF Late
<1>3. \A r : Late(r)' => Late(r) \/ r = task.request
  BY <1>1 DEF Late, OneAwaited
<1>4. /\ Silent = {r \in Requests \ replied : burns[r] > 0 \/ Late(r)}
      /\ Silent' = {r \in Requests \ replied : burns[r] > 0 \/ Late(r)'}
  BY DEF Silent, Late
<1> HIDE DEF Late
<1>5. Silent \subseteq Silent' /\ Silent' \subseteq Silent \cup {task.request}
  BY <1>2, <1>3, <1>4
<1>6. Untold \subseteq Silent /\ Silent \subseteq Untold \cup {task.request} /\ Untold' = Silent'
  BY DEF Untold
<1>7. QED
  BY <1>5, <1>6

\* Steps of the worker that make and lose no burn.
LEMMA WorkerUntold ==
    ASSUME BurnAssumption, TypeOK,
           Take \/ Parse \/ Submit \/ SubmitFails \/ ReplyErr \/ Mark
    PROVE  Untold' = Untold
<1>1. /\ at # "reply" /\ at' # "reply" /\ UNCHANGED <<replied, burns>>
  BY DEF Take, Parse, Submit, SubmitFails, ReplyErr, Mark, TaskDone, historyVars
<1>2. \A r : Late(r)' <=> Late(r)
  <2>1. CASE pending' = pending
    BY <2>1 DEF Late
  <2>2. CASE Submit
    <3> DEFINE e == [request |-> task.request, awaited |-> TRUE]
    <3>1. pending' = Append(pending, e) /\ at = "submit" /\ pending \in Seq(Txs)
      BY <2>2 DEF Submit, TypeOK, Txs
    <3>2. e.awaited
      OBVIOUS
    <3> HIDE DEF e
    <3>3. /\ \A i \in DOMAIN pending : i \in DOMAIN pending' /\ pending'[i] = pending[i]
          /\ \A i \in DOMAIN pending' : pending'[i] = e \/ (i \in DOMAIN pending /\ pending'[i] = pending[i])
      BY <3>1
    <3>4. QED
      BY <3>2, <3>3 DEF Late
  <2>3. QED
    BY <2>1, <2>2 DEF Take, Parse, SubmitFails, ReplyErr, Mark, chainVars
<1>3. /\ Silent = {r \in Requests \ replied : burns[r] > 0 \/ Late(r)}
      /\ Silent' = {r \in Requests \ replied : burns[r] > 0 \/ Late(r)'}
  BY <1>1 DEF Silent, Late
<1> HIDE DEF Late
<1>4. Silent' = Silent
  BY <1>2, <1>3
<1>5. QED
  BY <1>1, <1>4 DEF Untold

\* A refusal the worker reports: the requests ahead are above it from now on.
LEMMA RefusalPaid ==
    ASSUME BurnAssumption, TypeOK, Handed, OneSession, InOrder, OneAwaited, HiddenPaid, [Next]_vars,
           ReplyErr, refused' = refused \cup {task.request}, events' = events
    PROVE  HiddenPaid'
<1>1. Untold' = Untold /\ Losses' = Losses /\ at = "err" /\ at' = "idle"
      /\ UNCHANGED <<queue, position, holding>>
  <2>1. Untold' = Untold
    BY WorkerUntold
  <2>2. QED
    BY <2>1 DEF Losses, ReplyErr, TaskDone, kafkaVars
<1>2. Cardinality(Untold') <= Losses'
  BY <1>1 DEF HiddenPaid
<1>3. ASSUME events["rebalance"] = 0
      PROVE  SpareEvent' \/ PaidNotRefused' \/ RefusedBehind'
  <2>1. SpareEvent \/ PaidNotRefused \/ RefusedBehind
    BY <1>3 DEF HiddenPaid
  <2>2. CASE SpareEvent
    BY <1>1, <2>2 DEF SpareEvent
  <2>3. \A u \in Requests : Ahead(u)' => task.request < u
    BY <1>1, <1>3, AheadAbove
  <2>4. CASE RefusedBehind
    <3>1. ~Rebalance /\ ~Crash
      <4>1. events \in [Kinds -> Nat]
        BY DEF TypeOK
      <4>2. \A k \in Kinds : \A b : ~Happens(k, b)
        <5>1. \A n \in Nat : n # n + 1
          OBVIOUS
        <5>2. QED
          BY <4>1, <5>1, HappensFacts
      <4>3. QED
        BY <4>2 DEF Rebalance, Crash, Kinds
    <3>2. \A u \in Requests : Ahead(u)' => Ahead(u)
      BY <3>1, AheadShrinks
    <3>3. QED
      BY <2>3, <2>4, <3>2 DEF RefusedBehind
  <2>5. CASE PaidNotRefused
    <3>1. PICK q \in Untold : \A r \in refused : r < q
      BY <2>5 DEF PaidNotRefused
    <3>2. CASE task.request < q
      BY <1>1, <3>1, <3>2 DEF PaidNotRefused
    <3>3. CASE ~(task.request < q)
      <4>1. /\ q \in Nat /\ task.request \in Nat /\ Requests \subseteq Nat /\ refused \subseteq Nat
        BY <3>1, NumberTypes DEF Untold, Silent, TypeOK
      <4>2. \A r \in refused : \A u \in Requests : task.request < u => r < u
        BY <3>1, <3>3, <4>1
      <4>3. QED
        BY <2>3, <4>2 DEF RefusedBehind
    <3>4. QED
      BY <3>2, <3>3
  <2>6. QED
    BY <2>1, <2>2, <2>4, <2>5
<1>4. QED
  BY <1>2, <1>3 DEF HiddenPaid

\* Every step that makes a burn untold brings the event that pays for it.
LEMMA HiddenStep ==
    ASSUME BurnAssumption, TypeOK, Handed, OneSession, InOrder, OneAwaited, HiddenPaid, [Next]_vars
    PROVE  HiddenPaid'
<1>1. events \in [Kinds -> Nat]
  BY DEF TypeOK
<1>2. ASSUME ~Rebalance, ~Crash
      PROVE  \A u \in Requests : Ahead(u)' => Ahead(u)
  BY <1>2, AheadShrinks
<1>3. CASE UNCHANGED vars \/ Request \/ Fetch \/ Enqueue \/ AutoCommit \/ Rebalance
  <2>1. Untold' = Untold /\ refused' = refused
    <3>1. UNCHANGED <<at, task, pending, burns, replied, refused>>
      BY <1>3, ConsumerFrame
    <3>2. QED
      BY <3>1 DEF Untold, Silent
  <2>2. CASE Rebalance
    <3>1. events'["rebalance"] = events["rebalance"] + 1
      BY <1>1, <2>2, HappensFacts DEF Rebalance, Kinds
    <3>2. events'["rebalance"] # 0
      BY <1>1, <3>1 DEF Kinds
    <3>3. QED
      BY <2>1, <3>2, PaidShrinks
  <2>3. CASE ~Rebalance /\ ~Crash
    BY <1>2, <2>1, <2>3, PaidShrinks
  <2>4. CASE Crash
    <3>1. UNCHANGED vars \/ Request \/ Fetch \/ Enqueue \/ AutoCommit => events' = events
      BY DEF Request, Fetch, Enqueue, AutoCommit, vars, historyVars
    <3>2. events'["crash"] # events["crash"] /\ events'["rebalance"] = events["rebalance"]
      <4>1. events'["crash"] = events["crash"] + 1 /\ events'["rebalance"] = events["rebalance"]
        BY <1>1, <2>4, HappensFacts DEF Crash, Kinds
      <4>2. QED
        BY <1>1, <4>1 DEF Kinds
    <3>3. Rebalance
      BY <1>3, <3>1, <3>2
    <3>4. QED
      BY <2>2, <3>3
  <2>5. QED
    BY <2>2, <2>3, <2>4
<1>4. CASE Crash
  <2>1. /\ pending' = Forgotten /\ at' = "idle" /\ UNCHANGED <<replied, burns, refused>>
        /\ \E b : Happens("crash", b)
    BY <1>4 DEF Crash, Forgotten
  <2>2. Untold \subseteq Untold' /\ Untold' \subseteq Untold \cup {task.request}
    BY <2>1, ForgottenUntold
  <2>3. Losses' = Losses + 1
    BY <2>1, LossesGrow
  <2>4. task.request \notin Requests \/ Ahead(task.request)
    <3>1. 0 \notin Requests
      BY NumberTypes
    <3>2. QED
      BY <3>1 DEF Handed, NoTask, Ahead
  <2>5. QED
    BY <2>1, <2>2, <2>3, <2>4, PaidGrows
<1>5. CASE ~Rebalance /\ ~Crash /\ (Take \/ Parse \/ Submit \/ SubmitFails \/ Mark)
  <2>1. Untold' = Untold
    BY <1>5, WorkerUntold
  <2>2. refused' = refused
    BY <1>5 DEF Take, Parse, Submit, SubmitFails, Mark, historyVars
  <2>3. QED
    BY <1>2, <1>5, <2>1, <2>2, PaidShrinks
<1>6. CASE ~Rebalance /\ ~Crash /\ ReplyErr
  <2>1. CASE refused' = refused
    <3>1. Untold' = Untold
      BY <1>6, WorkerUntold
    <3>2. QED
      BY <1>2, <1>6, <2>1, <3>1, PaidShrinks
  <2>2. CASE refused' = refused \cup {task.request} /\ events' = events
    BY <1>6, <2>2, RefusalPaid
  <2>3. QED
    BY <1>6, <2>1, <2>2 DEF ReplyErr
<1>7. CASE ~Rebalance /\ ~Crash /\ Timeout
  <2>1. /\ pending' = Forgotten /\ at' = "err" /\ UNCHANGED <<replied, burns, refused>>
        /\ \E b : Happens("timeout", b)
    BY <1>7 DEF Timeout, Forgotten
  <2>2. Untold \subseteq Untold' /\ Untold' \subseteq Untold \cup {task.request}
    BY <2>1, ForgottenUntold
  <2>3. Losses' = Losses + 1
    BY <2>1, LossesGrow
  <2>4. QED
    BY <1>2, <1>7, <2>1, <2>2, <2>3, PaidGrows
<1>8. CASE ~Rebalance /\ ~Crash /\ Reply
  <2>1. /\ at = "reply" /\ at' = "mark" /\ UNCHANGED <<pending, burns, refused>>
        /\ \/ replied' = replied \cup {task.request}
           \/ UNCHANGED replied /\ \E b : Happens("lost", b)
    BY <1>8 DEF Reply, chainVars
  <2>2. CASE replied' = replied \cup {task.request}
    <3>1. Silent' = Silent \ {task.request}
      BY <2>1, <2>2 DEF Silent
    <3>2. Untold' = Untold
      BY <2>1, <3>1 DEF Untold
    <3>3. QED
      BY <1>2, <1>8, <2>1, <3>2, PaidShrinks
  <2>3. CASE UNCHANGED replied /\ \E b : Happens("lost", b)
    <3>1. Silent' = Silent
      BY <2>1, <2>3 DEF Silent
    <3>2. Untold \subseteq Untold' /\ Untold' \subseteq Untold \cup {task.request}
      BY <2>1, <3>1 DEF Untold
    <3>3. Losses' = Losses + 1
      BY <2>3, LossesGrow
    <3>4. QED
      BY <1>2, <1>8, <2>1, <3>2, <3>3, PaidGrows
  <2>4. QED
    BY <2>1, <2>2, <2>3
<1>9. CASE ~Rebalance /\ ~Crash /\ Deliver
  <2>1. PICK x : Untold' \subseteq Untold /\ Untold \ {x} \subseteq Untold'
    BY <1>9, DeliverUntold
  <2>2. refused' = refused
    BY <1>9 DEF Deliver
  <2>3. QED
    BY <1>2, <1>9, <2>1, <2>2, PaidShrinks
<1>10. QED
  BY <1>3, <1>4, <1>5, <1>6, <1>7, <1>8, <1>9, BurnCases

-----------------------------------------------------------------------------
(* The theorems *)

\* The invariant holds when the bridge starts.
LEMMA BurnInvInit ==
    ASSUME BurnAssumption, Init
    PROVE  BurnInv
<1>1. TypeOK
  BY TypeInit
<1>2. /\ produced = 0 /\ position = 0 /\ holding = 0 /\ session = 1 /\ marked = 0 /\ committed = -1
      /\ queue = <<>> /\ task = NoTask /\ at = "idle" /\ result = 0
      /\ recs = Collateral /\ pending = <<>> /\ told = 0 /\ refused = {} /\ replied = {}
      /\ burns = [r \in Requests |-> 0] /\ events = [k \in Kinds |-> 0]
  BY DEF Init
<1>3. DOMAIN queue = {} /\ DOMAIN pending = {}
  BY <1>2
<1>4. 1 .. 0 = {} /\ 1 .. -1 = {}
  OBVIOUS
<1>5. Handed /\ OneSession /\ InOrder /\ OneAwaited
  BY <1>2, <1>3 DEF Handed, OneSession, InOrder, OneAwaited, NoTask
<1>6. Covered
  BY <1>2, <1>4 DEF Covered
<1>7. Books
  BY <1>2, <1>3 DEF Books, Due, BurnAssumption
<1>8. CopiesBounded
  <2>1. SUFFICES ASSUME NEW r \in Requests
                 PROVE  burns[r] + Copies(r) <= 1 + Restarts
    BY DEF CopiesBounded
  <2>2. Of(pending, r) = {} /\ Of(queue, r) = {} /\ Cardinality({}) = 0
    BY <1>3, FS_EmptySet DEF Of
  <2>3. Restarts = 0 /\ burns[r] = 0
    BY <1>2, <2>1 DEF Restarts, Kinds
  <2>4. /\ One(at \in {"parse", "submit"} /\ task.request = r) = 0
        /\ One(holding = r) = 0 /\ One(r > position) \in 0 .. 1
    <3>1. 0 \notin Requests
      BY <1>1, NumberTypes
    <3>2. QED
      BY <1>2, <2>1, <3>1 DEF One
  <2>5. QED
    BY <2>2, <2>3, <2>4 DEF Copies
<1>9. HiddenPaid
  <2>1. Untold = {} /\ Cardinality({}) = 0
    BY <1>2, <1>3, FS_EmptySet DEF Untold, Silent
  <2>2. Losses = 0
    BY <1>2 DEF Losses, Kinds
  <2>3. RefusedBehind
    BY <1>2 DEF RefusedBehind
  <2>4. QED
    BY <2>1, <2>2, <2>3 DEF HiddenPaid
<1>10. QED
  BY <1>1, <1>5, <1>6, <1>7, <1>8, <1>9 DEF BurnInv

\* The invariant is inductive.
LEMMA BurnInvStep ==
    ASSUME BurnAssumption, BurnInv, [Next]_vars
    PROVE  BurnInv'
<1>1. /\ TypeOK /\ Handed /\ OneSession /\ InOrder /\ Covered
      /\ OneAwaited /\ Books /\ CopiesBounded /\ HiddenPaid
  BY DEF BurnInv
<1>2. TypeOK' /\ Handed'
  BY <1>1, TypeStep
<1>3. OneSession' /\ InOrder' /\ Covered'
  BY <1>1, OneSessionStep, OrderStep, CoveredStep
<1>4. OneAwaited' /\ Books'
  BY <1>1, OneAwaitedStep, BooksStep
<1>5. CopiesBounded' /\ HiddenPaid'
  BY <1>1, <1>2, CopiesStep, HiddenStep
<1>6. QED
  BY <1>2, <1>3, <1>4, <1>5 DEF BurnInv

\* The bookkeeping of requests, tasks, marks and burns holds in every state, for
\* every order of steps of consumer, worker, mempool and broker.
THEOREM BurnInvHolds ==
    ASSUME BurnAssumption
    PROVE  Spec => []BurnInv
  BY BurnInvInit, BurnInvStep, PTL DEF Spec

\* The variables keep their types; in particular coins and collateral never
\* fall below zero, and TxQueue never holds more than its capacity.
THEOREM BurnTypeCorrect ==
    ASSUME BurnAssumption
    PROVE  Spec => []TypeOK
<1>1. BurnInv => TypeOK
  BY DEF BurnInv
<1>2. QED
  BY <1>1, BurnInvHolds, PTL

\* The invariant bounds the burns: the places are at least none.
LEMMA BurnsAreBounded ==
    ASSUME BurnAssumption, BurnInv
    PROVE  BurnsBoundedByRestarts
<1>1. SUFFICES ASSUME NEW r \in Requests
               PROVE  burns[r] <= 1 + Restarts
  BY DEF BurnsBoundedByRestarts
<1>2. TypeOK /\ burns[r] + Copies(r) <= 1 + Restarts
  BY <1>1 DEF BurnInv, CopiesBounded
<1>3. /\ burns[r] \in Nat /\ Cardinality(Of(pending, r)) \in Nat
      /\ Cardinality(Of(queue, r)) \in Nat
      /\ InWork(r) \in 0 .. 1 /\ One(holding = r) \in 0 .. 1 /\ One(r > position) \in 0 .. 1
      /\ Restarts \in Nat
      /\ Copies(r) = Cardinality(Of(pending, r)) + Cardinality(Of(queue, r)) + InWork(r)
                       + One(holding = r) + One(r > position)
  BY <1>1, <1>2, CopiesTerms
<1>4. QED
  BY <1>2, <1>3

\* A request is burnt at most once more than the consumer was restarted: every
\* place a burn can still come from is counted, and only a restart, which hands
\* requests out again, adds one.
THEOREM BurnsBoundedHolds ==
    ASSUME BurnAssumption
    PROVE  Spec => []BurnsBoundedByRestarts
  BY BurnInvHolds, BurnsAreBounded, PTL

\* The invariant covers the committed offset.
LEMMA CommittedSettled ==
    ASSUME BurnInv
    PROVE  CommittedAreSettled
  BY DEF BurnInv, Covered, Over, CommittedAreSettled

\* The offset the broker keeps covers only requests that were finished or that
\* a restart passed over, although failed requests are never marked themselves:
\* within a session requests are taken up in the order of their offsets, and a
\* mark of an older session reaches nobody.
THEOREM CommittedAreSettledHolds ==
    ASSUME BurnAssumption
    PROVE  Spec => []CommittedAreSettled
  BY BurnInvHolds, CommittedSettled, PTL

\* The invariant keeps the books.
LEMMA RecsInBooks ==
    ASSUME BurnAssumption, BurnInv
    PROVE  RecsAccounted
<1>1. /\ told \in Nat /\ recs \in Nat /\ result \in Nat /\ Collateral \in Nat
  BY DEF BurnInv, TypeOK, BurnAssumption
<1>2. /\ told + Due <= Collateral - recs
      /\ Quiet => told + Due = Collateral - recs
  BY DEF BurnInv, Books
<1>3. Due \in Nat /\ (at # "reply" => Due = 0)
  BY <1>1 DEF Due
<1>4. QED
  BY <1>1, <1>2, <1>3 DEF RecsAccounted, Quiet

\* RECs named in success replies left the collateral, each once; without a
\* timeout, a lost reply or a restart all of them are named.
THEOREM RecsAccountedHolds ==
    ASSUME BurnAssumption
    PROVE  Spec => []RecsAccounted
  BY BurnInvHolds, RecsInBooks, PTL

\* The invariant pays for the hidden burns: one that is not untold is the worker's
\* own, refused in an earlier session, and a rebalance or a spare event pays.
LEMMA HiddenArePaid ==
    ASSUME BurnAssumption, BurnInv
    PROVE  HiddenBurnsArePaid
<1> DEFINE H == {r \in refused \ replied : burns[r] > 0}
           t == task.request
<1>1. TypeOK /\ Handed /\ HiddenPaid
  BY DEF BurnInv
<1>2. /\ Losses \in Nat /\ events["rebalance"] \in Nat
      /\ events["timeout"] + events["lost"] + Restarts = Losses + events["rebalance"]
  BY <1>1 DEF TypeOK, Losses, Restarts, Kinds
<1>3. H \subseteq Silent /\ H \subseteq refused
  BY <1>1 DEF TypeOK, Silent
<1>4. /\ IsFiniteSet(Untold) /\ Cardinality(Untold) \in Nat /\ Cardinality(Untold) <= Losses
  BY <1>1, UntoldFinite, FS_CardinalityType DEF HiddenPaid
<1>5. SUFFICES Cardinality(H) <= Losses + events["rebalance"]
  BY <1>2 DEF HiddenBurnsArePaid
<1> HIDE DEF H
<1>6. CASE H \subseteq Untold
  <2>1. Cardinality(H) \in Nat /\ Cardinality(H) <= Cardinality(Untold)
    BY <1>4, <1>6, CardinalityFacts
  <2>2. QED
    BY <1>2, <1>4, <2>1
<1>7. CASE at = "reply" /\ t \in H
  <2>1. H \subseteq Untold \cup {t}
    BY <1>3, <1>7 DEF Untold
  <2>2. Cardinality(H) \in Nat /\ Cardinality(H) <= Cardinality(Untold) + 1
    BY <1>4, <2>1, CardinalityFacts
  <2>3. CASE events["rebalance"] # 0
    BY <1>2, <1>4, <2>2, <2>3
  <2>4. CASE events["rebalance"] = 0
    <3>1. SpareEvent \/ PaidNotRefused \/ RefusedBehind
      BY <1>1, <2>4 DEF HiddenPaid
    <3>2. CASE SpareEvent
      BY <1>2, <1>4, <2>2, <3>2 DEF SpareEvent
    <3>3. CASE PaidNotRefused
      <4>1. PICK q \in Untold : \A r \in refused : r < q
        BY <3>3 DEF PaidNotRefused
      <4>2. q \in Nat
        BY <1>1, <4>1, NumberTypes DEF Untold, Silent
      <4>3. q \notin refused
        BY <4>1, <4>2
      <4>4. H \subseteq (Untold \ {q}) \cup {t}
        BY <1>3, <2>1, <4>3
      <4>5. /\ IsFiniteSet(Untold \ {q}) /\ Cardinality(Untold \ {q}) \in Nat
            /\ Cardinality(Untold \ {q}) < Cardinality(Untold)
        <5>1. IsFiniteSet(Untold \ {q})
          BY <1>4, FS_RemoveElement
        <5>2. QED
          BY <1>4, <4>1, <5>1, CardinalityFacts
      <4>6. Cardinality(H) <= Cardinality(Untold \ {q}) + 1
        BY <4>4, <4>5, CardinalityFacts
      <4>7. QED
        BY <1>2, <1>4, <2>2, <4>5, <4>6
    <3>4. CASE RefusedBehind
      <4>1. t \in Requests /\ t \in refused /\ Ahead(t) /\ t \in Nat
        BY <1>1, <1>3, <1>7, TaskFacts, NumberTypes DEF Ahead
      <4>2. t < t
        BY <3>4, <4>1 DEF RefusedBehind
      <4>3. QED
        BY <4>1, <4>2
    <3>5. QED
      BY <3>1, <3>2, <3>3, <3>4
  <2>5. QED
    BY <2>3, <2>4
<1>8. QED
  BY <1>3, <1>6, <1>7 DEF Untold

\* A request that was answered with "err" and burnt all the same is paid for by
\* a timeout, a lost reply or a restart of its own.
THEOREM HiddenBurnsArePaidHolds ==
    ASSUME BurnAssumption
    PROVE  Spec => []HiddenBurnsArePaid
  BY BurnInvHolds, HiddenArePaid, PTL

-----------------------------------------------------------------------------
(* Capability *)

\* The modules keep to tidy claims: a name stands for one capability, which has
\* one name in the module.  Transactions may fail and be simulated at any time.
Rules == C!CapabilityConstants /\ Tidy

\* Capability counts as the theorems on finite sets do.
LEMMA CapabilityCounts == \A S : C!Cardinality(S) = Cardinality(S)
  BY DEF C!Cardinality, Cardinality

IsFunction(f) == f = [z \in DOMAIN f |-> f[z]]

-----------------------------------------------------------------------------
(* The inductive invariant *)

\* The owners in the persistent store: each capability has an owner and an index
\* below the next one, a module owns it under one name, and a name of a module
\* stands for one capability.
Registered(owners, index) ==
    /\ IsFunction(owners)
    /\ \A i \in DOMAIN owners :
          /\ i \in 1 .. (index - 1)
          /\ owners[i] \subseteq C!Owners /\ owners[i] # {}
          /\ \A o, p \in owners[i] : o[1] = p[1] => o = p
    /\ \A i, j \in DOMAIN owners : \A o \in owners[i] : o \in owners[j] => i = j

\* The reverse mapping names exactly the owners.
Named(owners, rev) ==
    /\ IsFunction(rev)
    /\ \A o \in DOMAIN rev : rev[o] \in DOMAIN owners /\ o \in owners[rev[o]]
    /\ \A i \in DOMAIN owners : \A o \in owners[i] : o \in DOMAIN rev /\ rev[o] = i

\* The forward mapping names only owners, each of them once.
Keyed(owners, fwd) ==
    /\ IsFunction(fwd)
    /\ \A x, y \in DOMAIN fwd : x[1] = y[1] /\ x[2][1] = y[2][1] => x = y
    /\ \A x \in DOMAIN fwd :
          /\ x = <<x[1], x[2]>>
          /\ x[2][1] \in DOMAIN owners /\ <<x[1], fwd[x]>> \in owners[x[2][1]]

\* It names each owner of a capability by what the map holds, unless it is gone.
Reached(owners, fwd, map, gone) ==
    \A i \in DOMAIN owners : i \notin gone =>
        /\ i \in DOMAIN map
        /\ \A o \in owners[i] : <<o[1], map[i]>> \in DOMAIN fwd /\ fwd[<<o[1], map[i]>>] = o[2]

IsState(s) ==
    s = [index |-> s.index, owners |-> s.owners, fwd |-> s.fwd, rev |-> s.rev, ready |-> s.ready]

\* The capabilities there can be when this many addresses were given.
Caps(last) == (1 .. MaxIndex) \X (1 .. last)

\* What is on disk, and what is in memory beside it.
Persistent(s) ==
    /\ IsState(s)
    /\ s.index \in 1 .. (MaxIndex + 1)
    /\ Registered(s.owners, s.index)
InMemory(s, last) ==
    /\ DOMAIN s.fwd \subseteq Modules \X Caps(last)
    /\ DOMAIN s.rev \subseteq C!Owners
    /\ s.ready \in BOOLEAN
Complete(s, map, gone) ==
    /\ s.ready = TRUE /\ Named(s.owners, s.rev) /\ Keyed(s.owners, s.fwd)
    /\ Reached(s.owners, s.fwd, map, gone)

\* The map holds each capability under its index.
Mapped(map, last) ==
    /\ IsFunction(map)
    /\ \A i \in DOMAIN map : map[i] \in Caps(last) /\ map[i][1] = i
MapSound ==
    /\ address \in Nat /\ blocks \in 0 .. MaxBlocks
    /\ address <= MaxAddress + MaxIndex * blocks
    /\ Mapped(capMap, address)

\* A restart leaves the memory store empty until a block begins.
RootSound ==
    /\ Persistent(root) /\ InMemory(root, address)
    /\ block = C!NoStores => \/ Complete(root, capMap, lost)
                             \/ root.ready = FALSE /\ DOMAIN root.rev = {}

\* The block's stores are what a failing transaction falls back to: what it took
\* out of the map is gone for them.
BlockSound ==
    block # C!NoStores => /\ Persistent(block) /\ InMemory(block, address)
                          /\ Complete(block, capMap, lost \cup dropped)

\* What a transaction holds are capabilities below its next index.
Holds(s, c, last) == c \in Caps(last) /\ c[1] < s.index

\* A delivered transaction has all it needs, but for what is lost.
TxSound ==
    tx["deliver"] # C!NoStores =>
        /\ block # C!NoStores
        /\ Persistent(tx["deliver"]) /\ InMemory(tx["deliver"], address)
        /\ Complete(tx["deliver"], capMap, lost)
        /\ block.index <= tx["deliver"].index
        /\ \A c \in held["deliver"] : Holds(tx["deliver"], c, address)

\* Of a simulated one only the types are known: the map may be changed under it.
Typed(s, last) ==
    /\ IsState(s)
    /\ s.index \in 1 .. (MaxIndex + 1)
    /\ \A i \in DOMAIN s.owners :
          i \in 1 .. MaxIndex /\ s.owners[i] \subseteq C!Owners /\ s.owners[i] # {}
    /\ InMemory(s, last)
SimulationSound ==
    /\ tx["simulate"] # C!NoStores => Typed(tx["simulate"], address)
    /\ held["simulate"] \subseteq Caps(address)

\* Nothing is left of a transaction that ended.
RunsSound ==
    /\ DOMAIN tx = C!Kinds /\ IsFunction(tx)
    /\ DOMAIN held = C!Kinds /\ IsFunction(held)
    /\ dropped \subseteq 1 .. MaxIndex /\ lost \subseteq 1 .. MaxIndex
    /\ tx["deliver"] = C!NoStores => held["deliver"] = {} /\ dropped = {}

CapabilityInv == MapSound /\ RootSound /\ BlockSound /\ TxSound /\ SimulationSound /\ RunsSound

-----------------------------------------------------------------------------
(* Operators *)

\* g is f with y at x.
IsPut(g, f, x, y) ==
    /\ IsFunction(g) /\ DOMAIN g = DOMAIN f \cup {x}
    /\ g[x] = y /\ \A z \in DOMAIN f : z # x => g[z] = f[z]

\* A mapping with one entry more, or another value in its place.
LEMMA PutFacts ==
    ASSUME NEW f, NEW x, NEW y
    PROVE  IsPut(C!Put(f, x, y), f, x, y)
  BY DEF C!Put, IsFunction, IsPut

\* g is f without x.
IsWithout(g, f, x) ==
    IsFunction(g) /\ DOMAIN g = DOMAIN f \ {x} /\ \A z \in DOMAIN g : g[z] = f[z]

\* A mapping without an entry.
LEMMA WithoutFacts ==
    ASSUME NEW f, NEW x
    PROVE  IsWithout(C!Without(f, x), f, x)
  BY DEF C!Without, IsFunction, IsWithout

\* An owner is a pair.
LEMMA OwnerFacts ==
    ASSUME NEW o \in C!Owners
    PROVE  o = <<o[1], o[2]>> /\ o[1] \in Modules /\ o[2] \in Names
  BY DEF C!Owners

\* A capability is a pair, and more addresses allow more of them.
LEMMA CapFacts ==
    ASSUME NEW last \in Nat, NEW more \in Nat, last <= more
    PROVE  /\ Caps(last) \subseteq Caps(more)
           /\ \A c \in Caps(last) : c = <<c[1], c[2]>> /\ c[1] \in 1 .. MaxIndex /\ c[2] \in 1 .. last
<1>1. 1 .. last \subseteq 1 .. more
  OBVIOUS
<1>2. QED
  BY <1>1 DEF Caps

\* Stores are not the lack of stores.
LEMMA StateIsSome ==
    ASSUME NEW s, IsState(s)
    PROVE  s # C!NoStores
<1>1. "index" \in DOMAIN s
  BY DEF IsState
<1>2. DOMAIN C!NoStores = {}
  BY DEF C!NoStores
<1>3. QED
  BY <1>1, <1>2

\* NewCapability: a fresh index, which no key of the memory store has.
LEMMA NewFacts ==
    ASSUME NEW s, NEW t, NEW map, NEW map2, NEW gone, NEW c, NEW o \in C!Owners,
           s.index \in Nat \ {0}, c[1] = s.index,
           Registered(s.owners, s.index), Complete(s, map, gone), o \notin DOMAIN s.rev,
           IsPut(t.owners, s.owners, s.index, {o}), IsPut(t.rev, s.rev, o, s.index),
           IsPut(t.fwd, s.fwd, <<o[1], c>>, o[2]), IsPut(map2, map, s.index, c),
           t.ready = s.ready
    PROVE  Registered(t.owners, s.index + 1) /\ Complete(t, map2, gone \ {s.index})
<1> DEFINE i == s.index
           x == <<o[1], c>>
<1>1. /\ IsFunction(t.owners) /\ DOMAIN t.owners = DOMAIN s.owners \cup {i}
      /\ t.owners[i] = {o} /\ \A z \in DOMAIN s.owners : z # i => t.owners[z] = s.owners[z]
  BY DEF IsPut
<1>2. /\ IsFunction(t.rev) /\ DOMAIN t.rev = DOMAIN s.rev \cup {o}
      /\ t.rev[o] = i /\ \A z \in DOMAIN s.rev : z # o => t.rev[z] = s.rev[z]
  BY DEF IsPut
<1>3. /\ IsFunction(t.fwd) /\ DOMAIN t.fwd = DOMAIN s.fwd \cup {x}
      /\ t.fwd[x] = o[2] /\ \A z \in DOMAIN s.fwd : z # x => t.fwd[z] = s.fwd[z]
  BY DEF IsPut
<1>4. /\ DOMAIN map2 = DOMAIN map \cup {i}
      /\ map2[i] = c /\ \A z \in DOMAIN map : z # i => map2[z] = map[z]
  BY DEF IsPut
<1>5. /\ i \notin DOMAIN s.owners /\ \A j \in DOMAIN s.owners : j # i /\ t.owners[j] = s.owners[j]
      /\ \A j \in DOMAIN s.owners : o \notin s.owners[j]
      /\ o = <<o[1], o[2]>>
  BY <1>1, OwnerFacts DEF Registered, Complete, Named
<1>6. x \notin DOMAIN s.fwd
  <2>1. x[2] = c
    OBVIOUS
  <2>2. \A z \in DOMAIN s.fwd : z[2][1] \in DOMAIN s.owners
    BY DEF Complete, Keyed
  <2>3. QED
    BY <1>5, <2>1, <2>2
<1>7. Registered(t.owners, i + 1)
  BY <1>1, <1>5 DEF Registered
<1>8. Named(t.owners, t.rev)
  BY <1>1, <1>2, <1>5 DEF Complete, Named
<1>9. Keyed(t.owners, t.fwd)
  <2>1. ASSUME NEW z \in DOMAIN s.fwd
        PROVE  /\ z = <<z[1], z[2]>> /\ t.fwd[z] = s.fwd[z]
               /\ z[2][1] \in DOMAIN t.owners /\ <<z[1], t.fwd[z]>> \in t.owners[z[2][1]]
    BY <1>1, <1>3, <1>5, <1>6 DEF Complete, Keyed
  <2>2. /\ x = <<x[1], x[2]>> /\ x[2][1] = i /\ <<x[1], t.fwd[x]>> = o
    BY <1>3, <1>5
  <2>3. \A z \in DOMAIN s.fwd : z[2][1] # i
    BY <1>5 DEF Complete, Keyed
  <2>4. \A y, z \in DOMAIN t.fwd : y[1] = z[1] /\ y[2][1] = z[2][1] => y = z
    BY <1>3, <2>2, <2>3 DEF Complete, Keyed
  <2>5. QED
    BY <1>1, <1>3, <2>1, <2>2, <2>4 DEF Keyed
<1>10. Reached(t.owners, t.fwd, map2, gone \ {i})
  <2>1. SUFFICES ASSUME NEW j \in DOMAIN t.owners, j \notin gone \ {i}
                 PROVE  /\ j \in DOMAIN map2
                        /\ \A p \in t.owners[j] :
                              <<p[1], map2[j]>> \in DOMAIN t.fwd /\ t.fwd[<<p[1], map2[j]>>] = p[2]
    BY DEF Reached
  <2>2. CASE j = i
    BY <1>1, <1>3, <1>4, <2>2
  <2>3. CASE j # i
    <3>1. j \in DOMAIN s.owners /\ j \notin gone /\ t.owners[j] = s.owners[j]
      BY <1>1, <2>1, <2>3
    <3>2. j \in DOMAIN map /\ \A p \in s.owners[j] : <<p[1], map[j]>> \in DOMAIN s.fwd
                                                    /\ s.fwd[<<p[1], map[j]>>] = p[2]
      BY <3>1 DEF Complete, Reached
    <3>3. map2[j] = map[j] /\ j \in DOMAIN map2
      BY <1>4, <2>3, <3>2
    <3>4. QED
      BY <1>3, <1>6, <3>1, <3>2, <3>3
  <2>4. QED
    BY <2>2, <2>3
<1>11. QED
  BY <1>7, <1>8, <1>9, <1>10 DEF Complete

\* ClaimCapability: one owner more, of a module that has none yet; the capability
\* counts as gone unless the map holds it.
LEMMA ClaimFacts ==
    ASSUME NEW s, NEW t, NEW map, NEW gone, NEW gone2, NEW c, NEW o \in C!Owners,
           s.index \in Nat, c[1] \in 1 .. (s.index - 1),
           Registered(s.owners, s.index), Complete(s, map, gone), o \notin DOMAIN s.rev,
           \A p \in C!getOwners(s, c[1]) : p[1] # o[1],
           IsPut(t.owners, s.owners, c[1], C!getOwners(s, c[1]) \cup {o}),
           IsPut(t.rev, s.rev, o, c[1]), IsPut(t.fwd, s.fwd, <<o[1], c>>, o[2]),
           t.ready = s.ready, gone \subseteq gone2,
           c[1] \notin gone2 => c[1] \in DOMAIN map /\ map[c[1]] = c
    PROVE  Registered(t.owners, s.index) /\ Complete(t, map, gone2)
<1> DEFINE i == c[1]
           x == <<o[1], c>>
<1>1. /\ IsFunction(t.owners) /\ DOMAIN t.owners = DOMAIN s.owners \cup {i}
      /\ t.owners[i] = C!getOwners(s, i) \cup {o}
      /\ \A z \in DOMAIN s.owners : z # i => t.owners[z] = s.owners[z]
  BY DEF IsPut
<1>2. /\ IsFunction(t.rev) /\ DOMAIN t.rev = DOMAIN s.rev \cup {o}
      /\ t.rev[o] = i /\ \A z \in DOMAIN s.rev : z # o => t.rev[z] = s.rev[z]
  BY DEF IsPut
<1>3. /\ IsFunction(t.fwd) /\ DOMAIN t.fwd = DOMAIN s.fwd \cup {x}
      /\ t.fwd[x] = o[2] /\ \A z \in DOMAIN s.fwd : z # x => t.fwd[z] = s.fwd[z]
  BY DEF IsPut
<1>4. C!getOwners(s, i) = IF i \in DOMAIN s.owners THEN s.owners[i] ELSE {}
  BY DEF C!getOwners
<1>5. /\ \A j \in DOMAIN s.owners : o \notin s.owners[j] /\ s.owners[j] \subseteq t.owners[j]
      /\ \A j \in DOMAIN t.owners : \A p \in t.owners[j] :
            (j \in DOMAIN s.owners /\ p \in s.owners[j]) \/ (j = i /\ p = o)
      /\ o = <<o[1], o[2]>>
  BY <1>1, <1>4, OwnerFacts DEF Complete, Named
<1>6. x \notin DOMAIN s.fwd
  <2>1. SUFFICES ASSUME x \in DOMAIN s.fwd PROVE FALSE
    OBVIOUS
  <2>2. x[1] = o[1] /\ x[2] = c
    OBVIOUS
  <2>3. i \in DOMAIN s.owners /\ <<o[1], s.fwd[x]>> \in s.owners[i]
    BY <2>1, <2>2 DEF Complete, Keyed
  <2>4. <<o[1], s.fwd[x]>>[1] = o[1]
    OBVIOUS
  <2>5. QED
    BY <1>4, <2>3, <2>4
<1>7. Registered(t.owners, s.index)
  <2>1. ASSUME NEW j \in DOMAIN t.owners
        PROVE  /\ j \in 1 .. (s.index - 1)
               /\ t.owners[j] \subseteq C!Owners /\ t.owners[j] # {}
               /\ \A p, q \in t.owners[j] : p[1] = q[1] => p = q
    <3>1. CASE j = i
      BY <1>1, <1>4, <3>1 DEF Registered
    <3>2. CASE j # i
      BY <1>1, <3>2 DEF Registered
    <3>3. QED
      BY <3>1, <3>2
  <2>2. ASSUME NEW j \in DOMAIN t.owners, NEW k \in DOMAIN t.owners, NEW p \in t.owners[j],
               p \in t.owners[k]
        PROVE  j = k
    <3>1. CASE p = o
      BY <1>5, <2>2, <3>1
    <3>2. CASE p # o
      BY <1>5, <2>2, <3>2 DEF Registered
    <3>3. QED
      BY <3>1, <3>2
  <2>3. QED
    BY <1>1, <2>1, <2>2 DEF Registered
<1>8. Named(t.owners, t.rev)
  BY <1>1, <1>2, <1>5 DEF Complete, Named
<1>9. Keyed(t.owners, t.fwd)
  <2>1. ASSUME NEW z \in DOMAIN s.fwd
        PROVE  /\ z = <<z[1], z[2]>> /\ t.fwd[z] = s.fwd[z]
               /\ z[2][1] \in DOMAIN t.owners /\ <<z[1], t.fwd[z]>> \in t.owners[z[2][1]]
    BY <1>1, <1>3, <1>5, <1>6 DEF Complete, Keyed
  <2>2. /\ x = <<x[1], x[2]>> /\ x[2][1] = i /\ <<x[1], t.fwd[x]>> = o
    BY <1>3, <1>5
  <2>3. ASSUME NEW z \in DOMAIN s.fwd, z[2][1] = i PROVE z[1] # x[1]
    <3>1. i \in DOMAIN s.owners /\ <<z[1], s.fwd[z]>> \in s.owners[i]
      BY <2>3 DEF Complete, Keyed
    <3>2. <<z[1], s.fwd[z]>>[1] = z[1] /\ x[1] = o[1]
      OBVIOUS
    <3>3. QED
      BY <1>4, <3>1, <3>2
  <2>4. \A y, z \in DOMAIN t.fwd : y[1] = z[1] /\ y[2][1] = z[2][1] => y = z
    BY <1>3, <2>2, <2>3 DEF Complete, Keyed
  <2>5. i \in DOMAIN t.owners /\ o \in t.owners[i]
    BY <1>1
  <2>6. \A z \in DOMAIN t.fwd : /\ z = <<z[1], z[2]>> /\ z[2][1] \in DOMAIN t.owners
                               /\ <<z[1], t.fwd[z]>> \in t.owners[z[2][1]]
    BY <1>3, <2>1, <2>2, <2>5
  <2>7. QED
    BY <1>3, <2>4, <2>6 DEF Keyed
<1>10. Reached(t.owners, t.fwd, map, gone2)
  <2>1. SUFFICES ASSUME NEW j \in DOMAIN t.owners, j \notin gone2, NEW p \in t.owners[j]
                 PROVE  /\ j \in DOMAIN map
                        /\ <<p[1], map[j]>> \in DOMAIN t.fwd /\ t.fwd[<<p[1], map[j]>>] = p[2]
    <3>1. \A j \in DOMAIN t.owners : t.owners[j] # {}
      BY <1>7 DEF Registered
    <3>2. QED
      BY <3>1 DEF Reached
  <2>2. CASE j = i /\ p = o
    BY <1>3, <2>1, <2>2
  <2>3. CASE j \in DOMAIN s.owners /\ p \in s.owners[j]
    <3>1. j \in DOMAIN map /\ <<p[1], map[j]>> \in DOMAIN s.fwd /\ s.fwd[<<p[1], map[j]>>] = p[2]
      BY <2>1, <2>3 DEF Complete, Reached
    <3>2. QED
      BY <1>3, <1>6, <3>1
  <2>4. QED
    BY <1>5, <2>1, <2>2, <2>3
<1>11. QED
  BY <1>7, <1>8, <1>9, <1>10 DEF Complete

\* ReleaseCapability: one owner less, and no capability without an owner.
LEMMA ReleaseFacts ==
    ASSUME NEW s, NEW t, NEW map, NEW map2, NEW gone, NEW c, NEW o,
           s.index \in Nat, c[1] \in DOMAIN s.owners, o \in s.owners[c[1]],
           Registered(s.owners, s.index), Complete(s, map, gone),
           NEW left, left = s.owners[c[1]] \ {o},
           left = {} => IsWithout(t.owners, s.owners, c[1]),
           left # {} => IsPut(t.owners, s.owners, c[1], left),
           IsWithout(t.rev, s.rev, o),
           IsWithout(t.fwd, s.fwd, <<o[1], c>>), s.fwd[<<o[1], c>>] = o[2],
           <<o[1], c>> \in DOMAIN s.fwd, t.ready = s.ready,
           left = {} => IsWithout(map2, map, c[1]), left # {} => map2 = map
    PROVE  Registered(t.owners, s.index) /\ Complete(t, map2, gone)
<1> DEFINE i == c[1]
           x == <<o[1], c>>
<1>1. /\ IsFunction(t.owners)
      /\ \A j : j \in DOMAIN t.owners <=> j \in DOMAIN s.owners /\ (j = i => left # {})
      /\ \A j \in DOMAIN t.owners : t.owners[j] = IF j = i THEN left ELSE s.owners[j]
  <2>1. CASE left = {}
    BY <2>1 DEF IsWithout
  <2>2. CASE left # {}
    BY <2>2 DEF IsPut
  <2>3. QED
    BY <2>1, <2>2
<1>2. /\ IsFunction(t.rev) /\ DOMAIN t.rev = DOMAIN s.rev \ {o}
      /\ \A z \in DOMAIN t.rev : t.rev[z] = s.rev[z]
  BY DEF IsWithout
<1>3. /\ IsFunction(t.fwd) /\ DOMAIN t.fwd = DOMAIN s.fwd \ {x}
      /\ \A z \in DOMAIN t.fwd : t.fwd[z] = s.fwd[z]
  BY DEF IsWithout
<1>4. \A j \in DOMAIN t.owners : j \in DOMAIN map => j \in DOMAIN map2 /\ map2[j] = map[j]
  <2>1. CASE left = {}
    BY <1>1, <2>1 DEF IsWithout
  <2>2. CASE left # {}
    BY <1>1, <2>2
  <2>3. QED
    BY <2>1, <2>2
<1>5. /\ \A j \in DOMAIN t.owners : t.owners[j] \subseteq s.owners[j] /\ t.owners[j] # {}
      /\ \A j \in DOMAIN t.owners : o \notin t.owners[j]
      /\ \A j \in DOMAIN s.owners : \A p \in s.owners[j] :
            p # o => j \in DOMAIN t.owners /\ p \in t.owners[j]
  BY <1>1 DEF Registered
<1>6. Registered(t.owners, s.index)
  BY <1>1, <1>5 DEF Registered
<1>7. Named(t.owners, t.rev)
  BY <1>1, <1>2, <1>5 DEF Complete, Named
<1>8. Keyed(t.owners, t.fwd)
  <2>1. ASSUME NEW z \in DOMAIN t.fwd
        PROVE  /\ z = <<z[1], z[2]>>
               /\ z[2][1] \in DOMAIN t.owners /\ <<z[1], t.fwd[z]>> \in t.owners[z[2][1]]
    <3>1. /\ z \in DOMAIN s.fwd /\ z = <<z[1], z[2]>> /\ t.fwd[z] = s.fwd[z] /\ z # x
          /\ z[2][1] \in DOMAIN s.owners /\ <<z[1], s.fwd[z]>> \in s.owners[z[2][1]]
      BY <1>3 DEF Complete, Keyed
    <3>2. CASE <<z[1], s.fwd[z]>> # o
      BY <1>5, <3>1, <3>2
    <3>3. CASE <<z[1], s.fwd[z]>> = o
      <4>1. z[1] = o[1] /\ z[2][1] = i /\ x[1] = o[1] /\ x[2][1] = i
        BY <3>1, <3>3 DEF Registered
      <4>2. z = x
        BY <3>1, <4>1 DEF Complete, Keyed
      <4>3. QED
        BY <3>1, <4>2
    <3>4. QED
      BY <3>2, <3>3
  <2>2. \A y, z \in DOMAIN t.fwd : y[1] = z[1] /\ y[2][1] = z[2][1] => y = z
    BY <1>3 DEF Complete, Keyed
  <2>3. QED
    BY <1>3, <2>1, <2>2 DEF Keyed
<1>9. Reached(t.owners, t.fwd, map2, gone)
  <2>1. SUFFICES ASSUME NEW j \in DOMAIN t.owners, j \notin gone, NEW p \in t.owners[j]
                 PROVE  /\ j \in DOMAIN map2
                        /\ <<p[1], map2[j]>> \in DOMAIN t.fwd /\ t.fwd[<<p[1], map2[j]>>] = p[2]
    BY <1>5 DEF Reached
  <2>2. j \in DOMAIN s.owners /\ p \in s.owners[j] /\ p # o
    BY <1>1, <1>5
  <2>3. j \in DOMAIN map /\ <<p[1], map[j]>> \in DOMAIN s.fwd /\ s.fwd[<<p[1], map[j]>>] = p[2]
    BY <2>1, <2>2 DEF Complete, Reached
  <2>4. <<p[1], map[j]>> # x
    <3>1. p = <<p[1], p[2]>> /\ o = <<o[1], o[2]>>
      BY <2>2, OwnerFacts DEF Registered
    <3>2. SUFFICES ASSUME p[1] = o[1], map[j] = c PROVE FALSE
      OBVIOUS
    <3>3. p[2] = o[2]
      BY <2>3, <3>2
    <3>4. QED
      BY <2>2, <3>1, <3>2, <3>3
  <2>5. QED
    BY <1>3, <1>4, <2>3, <2>4
<1>10. QED
  BY <1>6, <1>7, <1>8, <1>9 DEF Complete

\* The largest of one number.
LEMMA MaxSingle ==
    ASSUME NEW n \in Int
    PROVE  C!Max({n}) = n
  BY DEF C!Max

\* InitializeCapability for every index: the mappings are complete again.
LEMMA RebuiltFacts ==
    ASSUME NEW s, IsState(s), Names \subseteq Nat, NEW index \in Nat, Registered(s.owners, index),
           NEW addr, DOMAIN addr = DOMAIN s.owners, \A i \in DOMAIN addr : addr[i][1] = i,
           NEW t, t = C!InitializeCapabilities(s, addr)
    PROVE  /\ IsState(t) /\ t.index = s.index /\ t.owners = s.owners /\ Complete(t, addr, {})
           /\ \A x \in DOMAIN t.fwd : x[2][1] \in DOMAIN s.owners /\ x[2] = addr[x[2][1]]
<1> DEFINE D == DOMAIN s.owners
           X == UNION {{<<o[1], addr[i]>> : o \in s.owners[i]} : i \in D}
           O == UNION {s.owners[i] : i \in D}
           F == [x \in X |-> C!Max({o[2] : o \in {p \in s.owners[x[2][1]] : p[1] = x[1]}})]
           R == [o \in O |-> C!Max({i \in D : o \in s.owners[i]})]
<1>1. t = [index |-> s.index, owners |-> s.owners, fwd |-> F, rev |-> R, ready |-> TRUE]
  BY DEF C!InitializeCapabilities, IsState
<1>2. ASSUME NEW i \in D, NEW o \in s.owners[i]
      PROVE  o \in O /\ R[o] = i /\ <<o[1], addr[i]>> \in X /\ F[<<o[1], addr[i]>>] = o[2]
  <2>1. o \in O /\ i \in Int /\ {j \in D : o \in s.owners[j]} = {i}
    BY <1>2 DEF Registered
  <2>2. R[o] = i
    BY <2>1, MaxSingle
  <2> DEFINE x == <<o[1], addr[i]>>
  <2>3. x \in X /\ x[1] = o[1] /\ x[2][1] = i
    BY <1>2
  <2>4. {p \in s.owners[i] : p[1] = x[1]} = {o}
    BY <1>2, <2>3 DEF Registered
  <2>5. o[2] \in Int
    BY <1>2, OwnerFacts DEF Registered
  <2>6. F[x] = C!Max({q[2] : q \in {o}})
    BY <2>3, <2>4
  <2>7. {q[2] : q \in {o}} = {o[2]}
    OBVIOUS
  <2>8. QED
    BY <2>1, <2>2, <2>3, <2>5, <2>6, <2>7, MaxSingle
<1> HIDE DEF F, R
<1>3. DOMAIN R = O /\ IsFunction(R) /\ DOMAIN F = X /\ IsFunction(F)
  BY DEF F, R, IsFunction
<1>4. Named(s.owners, R)
  <2>1. ASSUME NEW o \in DOMAIN R PROVE R[o] \in D /\ o \in s.owners[R[o]]
    <3>1. PICK i \in D : o \in s.owners[i]
      BY <1>3
    <3>2. QED
      BY <1>2, <3>1
  <2>2. QED
    BY <1>2, <1>3, <2>1 DEF Named
<1>5. ASSUME NEW x \in DOMAIN F
      PROVE  /\ x = <<x[1], x[2]>> /\ x[2][1] \in D /\ <<x[1], F[x]>> \in s.owners[x[2][1]]
             /\ x[2] = addr[x[2][1]]
  <2>1. PICK i \in D : x \in {<<o[1], addr[i]>> : o \in s.owners[i]}
    BY <1>3
  <2>2. PICK o \in s.owners[i] : x = <<o[1], addr[i]>>
    BY <2>1
  <2>3. o = <<o[1], o[2]>>
    BY <2>2, OwnerFacts DEF Registered
  <2>4. x[1] = o[1] /\ x[2] = addr[i] /\ x[2][1] = i /\ F[x] = o[2]
    BY <1>2, <2>2
  <2>5. QED
    BY <2>2, <2>3, <2>4
<1>6. Keyed(s.owners, F)
  BY <1>3, <1>5 DEF Keyed
<1>7. Reached(s.owners, F, addr, {})
  BY <1>2, <1>3 DEF Reached
<1>8. /\ IsState(t) /\ t.index = s.index /\ t.owners = s.owners /\ t.fwd = F /\ t.rev = R
      /\ t.ready = TRUE
  BY <1>1 DEF IsState
<1>9. Complete(t, addr, {})
  BY <1>4, <1>6, <1>7, <1>8 DEF Complete
<1>10. QED
  BY <1>5, <1>8, <1>9

\* Later addresses do not matter.
LEMMA InMemoryLater ==
    ASSUME NEW s, NEW last \in Nat, NEW more \in Nat, last <= more, InMemory(s, last)
    PROVE  InMemory(s, more)
  BY CapFacts DEF InMemory

\* A map that agrees on what is not gone serves as well.
LEMMA CompleteAgrees ==
    ASSUME NEW s, NEW map, NEW map2, NEW gone, NEW gone2, Complete(s, map, gone),
           \A i \in DOMAIN s.owners : i \notin gone2 =>
              i \notin gone /\ (i \in DOMAIN map => i \in DOMAIN map2 /\ map2[i] = map[i])
    PROVE  Complete(s, map2, gone2)
  BY DEF Complete, Reached

\* Multiplication is monotone.
LEMMA Multiplied ==
    ASSUME NEW a \in Nat, NEW b \in Nat, NEW c \in Nat, b <= c
    PROVE  a * b <= a * c
<1>1. PICK d \in Nat : c = b + d
  <2>1. c - b \in Nat /\ c = b + (c - b)
    OBVIOUS
  <2>2. QED
    BY <2>1
<1>2. a * c = a * b + a * d /\ a * d \in Nat /\ a * b \in Nat
  BY <1>1
<1>3. QED
  BY <1>2

-----------------------------------------------------------------------------
(* The steps *)

\* At genesis there is no capability.
LEMMA CapabilityInvInit ==
    ASSUME Rules, C!Init
    PROVE  CapabilityInv
<1>1. DOMAIN root.owners = {} /\ DOMAIN root.fwd = {} /\ DOMAIN root.rev = {} /\ DOMAIN capMap = {}
  BY DEF C!Init
<1>2. IsFunction(root.owners) /\ IsFunction(root.fwd) /\ IsFunction(root.rev) /\ IsFunction(capMap)
  BY <1>1 DEF C!Init, IsFunction
<1>3. Registered(root.owners, root.index) /\ Complete(root, capMap, lost)
  BY <1>1, <1>2 DEF C!Init, Registered, Complete, Named, Keyed, Reached
<1>4. Persistent(root) /\ InMemory(root, address)
  BY <1>1, <1>3 DEF C!Init, Persistent, InMemory, IsState, Rules, C!CapabilityConstants
<1>5. MapSound
  BY <1>1, <1>2 DEF MapSound, Mapped, C!Init, Rules, C!CapabilityConstants
<1>6. RunsSound /\ SimulationSound
  BY DEF RunsSound, SimulationSound, C!Init, C!Kinds, IsFunction
<1>7. QED
  BY <1>3, <1>4, <1>5, <1>6 DEF CapabilityInv, RootSound, BlockSound, TxSound, C!Init, C!Kinds

\* The addresses InitMemStore gives to the owned indices.
LEMMA RankFacts ==
    ASSUME NEW D, NEW n \in Nat, D \subseteq 1 .. n, NEW last \in Nat,
           NEW addr, addr = [i \in D |-> <<i, last + Cardinality({j \in D : j <= i})>>]
    PROVE  /\ Cardinality(D) \in 0 .. n /\ DOMAIN addr = D
           /\ \A i \in D : /\ addr[i] = <<addr[i][1], addr[i][2]>> /\ addr[i][1] = i
                           /\ addr[i][2] \in 1 .. (last + Cardinality(D))
<1> DEFINE below(i) == {j \in D : j <= i}
<1>1. IsFiniteSet(D) /\ Cardinality(D) \in Nat /\ Cardinality(D) <= n
  <2>1. IsFiniteSet(1 .. n) /\ Cardinality(1 .. n) = n
    BY FS_Interval
  <2>2. QED
    BY <2>1, FS_Subset, FS_CardinalityType
<1>2. ASSUME NEW i \in D
      PROVE  /\ Cardinality(below(i)) \in Nat /\ Cardinality(below(i)) # 0
             /\ Cardinality(below(i)) <= Cardinality(D)
  <2>1. below(i) \subseteq D /\ i \in below(i)
    OBVIOUS
  <2>2. IsFiniteSet(below(i)) /\ Cardinality(below(i)) <= Cardinality(D)
    BY <1>1, <2>1, FS_Subset
  <2>3. QED
    BY <2>1, <2>2, FS_CardinalityType, FS_EmptySet
<1> HIDE DEF below
<1>3. DOMAIN addr = D /\ \A i \in D : addr[i] = <<i, last + Cardinality(below(i))>>
  BY DEF below
<1>4. QED
  BY <1>1, <1>2, <1>3

\* A step that leaves the delivered side alone, and the map but for what is lost.
LEMMA SimulationFrame ==
    ASSUME CapabilityInv, UNCHANGED <<root, block, dropped>>,
           tx'["deliver"] = tx["deliver"], held'["deliver"] = held["deliver"],
           address' \in Nat, address <= address', lost \subseteq lost',
           \A j \in DOMAIN capMap : j \notin lost' => j \in DOMAIN capMap' /\ capMap'[j] = capMap[j]
    PROVE  RootSound' /\ BlockSound' /\ TxSound'
<1>1. address \in Nat /\ Caps(address) \subseteq Caps(address')
  BY CapFacts DEF CapabilityInv, MapSound
<1>2. ASSUME NEW s, InMemory(s, address) PROVE InMemory(s, address')
  BY <1>1, <1>2, InMemoryLater
<1>3. ASSUME NEW s, NEW gone, Complete(s, capMap, lost \cup gone)
      PROVE  Complete(s, capMap', lost' \cup gone)
  BY <1>3, CompleteAgrees
<1>4. ASSUME NEW s, Complete(s, capMap, lost)
      PROVE  Complete(s, capMap', lost')
  BY <1>4, CompleteAgrees
<1>5. RootSound'
  BY <1>2, <1>4 DEF CapabilityInv, RootSound
<1>6. BlockSound'
  BY <1>2, <1>3 DEF CapabilityInv, BlockSound
<1>7. TxSound'
  BY <1>1, <1>2, <1>4 DEF CapabilityInv, TxSound, Holds
<1>8. QED
  BY <1>5, <1>6, <1>7

\* The begin blocker rebuilds the memory store from what is committed, once after a start.
LEMMA BeginBlockStep ==
    ASSUME Rules, CapabilityInv, C!BeginBlock
    PROVE  CapabilityInv'
<1> DEFINE D == DOMAIN root.owners
           addr == [i \in D |-> <<i, address + Cardinality({j \in D : j <= i})>>]
<1>1. /\ block = C!NoStores /\ blocks' = blocks + 1 /\ blocks < MaxBlocks
      /\ UNCHANGED <<root, tx, held, dropped>> /\ C!InitMemStore(root)
  BY DEF C!BeginBlock
<1>2. Persistent(root) /\ InMemory(root, address) /\ MapSound /\ RunsSound /\ SimulationSound
  BY DEF CapabilityInv, RootSound
<1>3. tx["deliver"] = C!NoStores /\ dropped = {}
  BY <1>1 DEF CapabilityInv, TxSound, RunsSound
<1>4. /\ MaxIndex \in Nat /\ MaxAddress \in Nat /\ MaxBlocks \in Nat /\ Names \subseteq Nat
      /\ address \in Nat /\ blocks \in Nat
  BY <1>2 DEF Rules, C!CapabilityConstants, MapSound
<1>5. D \subseteq 1 .. MaxIndex /\ root.index \in Nat
  BY <1>2, <1>4 DEF Persistent, Registered
<1>6. /\ Cardinality(D) \in 0 .. MaxIndex /\ DOMAIN addr = D
      /\ \A i \in D : /\ addr[i] = <<addr[i][1], addr[i][2]>> /\ addr[i][1] = i
                      /\ addr[i][2] \in 1 .. (address + Cardinality(D))
  BY <1>4, <1>5, RankFacts
<1> HIDE DEF addr
<1>7. MaxIndex * (blocks + 1) = MaxIndex * blocks + MaxIndex /\ MaxIndex * blocks \in Nat
  BY <1>4
<1>8. CASE root.ready = TRUE
  <2>1. block' = root /\ UNCHANGED <<capMap, address, lost>>
    BY <1>1, <1>8 DEF C!InitMemStore
  <2>2. Complete(root, capMap, lost) /\ lost \cup dropped = lost
    BY <1>1, <1>3, <1>8 DEF CapabilityInv, RootSound
  <2>3. MapSound'
    BY <1>1, <1>2, <1>4, <1>7, <2>1 DEF MapSound
  <2>4. RootSound' /\ BlockSound'
    BY <1>1, <1>2, <2>1, <2>2 DEF RootSound, BlockSound
  <2>5. TxSound' /\ RunsSound' /\ SimulationSound'
    BY <1>1, <1>2, <1>3, <2>1 DEF TxSound, RunsSound, SimulationSound
  <2>6. QED
    BY <2>3, <2>4, <2>5 DEF CapabilityInv
<1>9. CASE root.ready = FALSE
  <2>1. /\ block' = C!InitializeCapabilities(root, addr)
        /\ capMap' = [i \in DOMAIN capMap \cup D |-> IF i \in D THEN addr[i] ELSE capMap[i]]
        /\ address' = address + Cardinality(D)
        /\ lost' = lost \ D
    BY <1>1, <1>6, <1>9, CapabilityCounts DEF C!InitMemStore, addr
  <2>2. /\ IsState(block') /\ block'.index = root.index /\ block'.owners = root.owners
        /\ Complete(block', addr, {})
        /\ \A x \in DOMAIN block'.fwd : x[2][1] \in D /\ x[2] = addr[x[2][1]]
    BY <1>2, <1>4, <1>5, <1>6, <2>1, RebuiltFacts DEF Persistent
  <2>3. Persistent(block')
    BY <1>2, <2>2 DEF Persistent
  <2>4. address' \in Nat /\ address <= address' /\ Caps(address) \subseteq Caps(address')
    BY <1>4, <1>6, <2>1, CapFacts
  <2>5. \A i \in D : addr[i] \in Caps(address')
    <3>1. SUFFICES ASSUME NEW i \in D PROVE addr[i] \in Caps(address')
      OBVIOUS
    <3>2. addr[i] = <<addr[i][1], addr[i][2]>> /\ addr[i][1] = i /\ addr[i][2] \in 1 .. address'
      BY <1>6, <2>1
    <3>3. i \in 1 .. MaxIndex
      BY <1>5
    <3>4. QED
      BY <3>2, <3>3 DEF Caps
  <2>6. Mapped(capMap', address')
    <3>1. Mapped(capMap, address)
      BY <1>2 DEF MapSound
    <3>2. DOMAIN capMap' = DOMAIN capMap \cup D /\ IsFunction(capMap')
      BY <2>1 DEF IsFunction
    <3>3. \A i \in D : capMap'[i] = addr[i]
      BY <2>1
    <3>4. \A i \in DOMAIN capMap \ D : capMap'[i] = capMap[i]
      BY <2>1
    <3>5. QED
      BY <1>6, <2>4, <2>5, <3>1, <3>2, <3>3, <3>4 DEF Mapped
  <2>7. Complete(block', capMap', lost' \cup dropped')
    BY <1>1, <1>3, <1>6, <2>1, <2>2, CompleteAgrees
  <2>8. InMemory(block', address')
    <3>1. ASSUME NEW x \in DOMAIN block'.fwd PROVE x \in Modules \X Caps(address')
      <4>1. /\ x = <<x[1], x[2]>> /\ x[2][1] \in D /\ x[2] = addr[x[2][1]]
            /\ <<x[1], block'.fwd[x]>> \in root.owners[x[2][1]]
        BY <2>2 DEF Complete, Keyed
      <4>2. <<x[1], block'.fwd[x]>> \in C!Owners
        BY <1>2, <4>1 DEF Persistent, Registered
      <4>3. x[1] \in Modules /\ x[2] \in Caps(address')
        BY <2>5, <4>1, <4>2 DEF C!Owners
      <4>4. QED
        BY <4>1, <4>3
    <3>2. DOMAIN block'.rev \subseteq C!Owners /\ block'.ready \in BOOLEAN
      BY <1>2, <2>2 DEF Complete, Named, Persistent, Registered
    <3>3. QED
      BY <3>1, <3>2 DEF InMemory
  <2>9. InMemory(root, address')
    BY <1>2, <1>4, <2>4, InMemoryLater
  <2>10. address' <= MaxAddress + MaxIndex * blocks'
    <3>1. address <= MaxAddress + MaxIndex * blocks
      BY <1>2 DEF MapSound
    <3>2. QED
      BY <1>1, <1>4, <1>6, <1>7, <2>1, <3>1
  <2>11. MapSound'
    BY <1>1, <1>4, <2>4, <2>6, <2>10 DEF MapSound
  <2>12. block' # C!NoStores
    BY <2>2, StateIsSome
  <2>13. RootSound' /\ BlockSound'
    BY <1>1, <1>2, <2>3, <2>7, <2>8, <2>9, <2>12 DEF RootSound, BlockSound
  <2>14. SimulationSound'
    BY <1>1, <1>2, <1>4, <2>4, InMemoryLater DEF SimulationSound, Typed
  <2>15. TxSound' /\ RunsSound'
    BY <1>1, <1>2, <1>3, <2>1 DEF TxSound, RunsSound
  <2>16. QED
    BY <2>11, <2>13, <2>14, <2>15 DEF CapabilityInv
<1>10. QED
  BY <1>2, <1>8, <1>9 DEF InMemory

\* A commit makes the state of the block the committed one.
LEMMA CommitStep ==
    ASSUME Rules, CapabilityInv, C!Commit
    PROVE  CapabilityInv'
<1>1. /\ block # C!NoStores /\ tx["deliver"] = C!NoStores /\ root' = block /\ block' = C!NoStores
      /\ UNCHANGED <<tx, held, dropped, lost, capMap, address, blocks>>
  BY DEF C!Commit
<1>2. dropped = {} /\ lost \cup dropped = lost
  BY <1>1 DEF CapabilityInv, RunsSound
<1>3. Persistent(block) /\ InMemory(block, address) /\ Complete(block, capMap, lost)
  BY <1>1, <1>2 DEF CapabilityInv, BlockSound
<1>4. RootSound'
  BY <1>1, <1>3 DEF RootSound
<1>5. MapSound' /\ RunsSound' /\ SimulationSound'
  BY <1>1 DEF CapabilityInv, MapSound, RunsSound, SimulationSound
<1>6. QED
  BY <1>1, <1>4, <1>5 DEF CapabilityInv, BlockSound, TxSound

\* A restart keeps what is committed and loses the memory store and the map.
LEMMA RestartStep ==
    ASSUME Rules, CapabilityInv, C!Restart
    PROVE  CapabilityInv'
<1>1. Persistent(root) /\ MapSound
  BY DEF CapabilityInv, RootSound
<1>2. root' = [index |-> root.index, owners |-> root.owners, fwd |-> <<>>, rev |-> <<>>, ready |-> FALSE]
  BY <1>1 DEF C!Restart, Persistent, IsState
<1>3. DOMAIN root'.fwd = {} /\ DOMAIN root'.rev = {} /\ DOMAIN capMap' = {} /\ root'.ready = FALSE
  BY <1>2 DEF C!Restart
<1>4. Persistent(root') /\ InMemory(root', address')
  BY <1>1, <1>2, <1>3 DEF Persistent, InMemory, IsState
<1>5. IsFunction(capMap')
  BY <1>3 DEF C!Restart, IsFunction
<1>6. MapSound'
  BY <1>1, <1>3, <1>5 DEF MapSound, C!Restart, Mapped
<1>7. RunsSound' /\ SimulationSound'
  BY DEF RunsSound, SimulationSound, C!Restart, C!Kinds, IsFunction
<1>8. RootSound'
  BY <1>3, <1>4 DEF RootSound
<1>9. BlockSound' /\ TxSound'
  BY DEF C!Restart, BlockSound, TxSound, C!Kinds
<1>10. QED
  BY <1>6, <1>7, <1>8, <1>9 DEF CapabilityInv

\* A delivered transaction begins on a branch of the state of its block, a
\* simulated one on the committed state.
LEMMA BeginTxStep ==
    ASSUME Rules, CapabilityInv, NEW k \in C!Kinds, C!BeginTx(k)
    PROVE  CapabilityInv'
<1>1. /\ tx[k] = C!NoStores /\ RunsSound /\ MapSound
      /\ UNCHANGED <<root, block, held, dropped, lost, capMap, address, blocks>>
      /\ tx' = [tx EXCEPT ![k] = IF k = "deliver" THEN block ELSE root]
      /\ k = "deliver" => block # C!NoStores
  BY DEF C!BeginTx, CapabilityInv
<1>2. MapSound'
  BY <1>1 DEF MapSound
<1>3. CASE k = "deliver"
  <2>1. /\ DOMAIN tx' = C!Kinds /\ IsFunction(tx') /\ tx'["deliver"] = block
        /\ tx'["simulate"] = tx["simulate"]
    BY <1>1, <1>3 DEF RunsSound, C!Kinds, IsFunction
  <2>2. dropped = {} /\ held["deliver"] = {} /\ lost \cup dropped = lost
    BY <1>1, <1>3 DEF RunsSound
  <2>3. /\ Persistent(block) /\ InMemory(block, address) /\ Complete(block, capMap, lost)
        /\ block.index <= block.index
    BY <1>1, <1>3, <2>2 DEF CapabilityInv, BlockSound, Persistent
  <2>4. TxSound'
    BY <1>1, <1>3, <2>1, <2>2, <2>3 DEF TxSound
  <2>5. RunsSound' /\ SimulationSound'
    BY <1>1, <2>1, <2>2 DEF RunsSound, SimulationSound, CapabilityInv
  <2>6. RootSound' /\ BlockSound'
    BY <1>1 DEF CapabilityInv, RootSound, BlockSound
  <2>7. QED
    BY <1>2, <2>4, <2>5, <2>6 DEF CapabilityInv
<1>4. CASE k = "simulate"
  <2>1. /\ DOMAIN tx' = C!Kinds /\ IsFunction(tx') /\ tx'["simulate"] = root
        /\ tx'["deliver"] = tx["deliver"]
    BY <1>1, <1>4 DEF RunsSound, C!Kinds, IsFunction
  <2>2. Typed(root, address)
    BY DEF CapabilityInv, RootSound, Persistent, Registered, Typed, Rules, C!CapabilityConstants
  <2>3. RunsSound' /\ SimulationSound'
    BY <1>1, <2>1, <2>2 DEF RunsSound, SimulationSound, CapabilityInv
  <2>4. RootSound' /\ BlockSound' /\ TxSound'
    BY <1>1, <2>1 DEF CapabilityInv, RootSound, BlockSound, TxSound
  <2>5. QED
    BY <1>2, <2>3, <2>4 DEF CapabilityInv
<1>5. QED
  BY <1>3, <1>4 DEF C!Kinds

\* What is left of a transaction that ended.
LEMMA EndedFacts ==
    ASSUME RunsSound, NEW k \in C!Kinds, C!Ended(k)
    PROVE  /\ DOMAIN tx' = C!Kinds /\ IsFunction(tx') /\ DOMAIN held' = C!Kinds /\ IsFunction(held')
           /\ tx'[k] = C!NoStores /\ held'[k] = {}
           /\ \A j \in C!Kinds : j # k => tx'[j] = tx[j] /\ held'[j] = held[j]
           /\ dropped' = IF k = "deliver" THEN {} ELSE dropped
  BY DEF RunsSound, C!Ended, C!Kinds, IsFunction

\* A transaction that succeeds gives its state to the block.
LEMMA SucceedsStep ==
    ASSUME Rules, CapabilityInv, NEW k \in C!Kinds, C!Succeeds(k)
    PROVE  CapabilityInv'
<1>1. /\ k = "deliver" /\ tx["deliver"] # C!NoStores /\ RunsSound /\ C!Ended("deliver")
      /\ UNCHANGED <<root, lost, capMap, address, blocks>> /\ block' = tx["deliver"]
  BY DEF C!Succeeds, CapabilityInv
<1>2. /\ DOMAIN tx' = C!Kinds /\ IsFunction(tx') /\ DOMAIN held' = C!Kinds /\ IsFunction(held')
      /\ tx'["deliver"] = C!NoStores /\ held'["deliver"] = {} /\ dropped' = {}
      /\ tx'["simulate"] = tx["simulate"] /\ held'["simulate"] = held["simulate"]
  BY <1>1, EndedFacts DEF C!Kinds
<1>3. /\ block # C!NoStores /\ Persistent(tx["deliver"]) /\ InMemory(tx["deliver"], address)
      /\ Complete(tx["deliver"], capMap, lost) /\ lost \cup dropped' = lost
  BY <1>1, <1>2 DEF CapabilityInv, TxSound
<1>4. RootSound' /\ BlockSound' /\ TxSound'
  BY <1>1, <1>2, <1>3 DEF CapabilityInv, RootSound, BlockSound, TxSound
<1>5. RunsSound' /\ SimulationSound' /\ MapSound'
  BY <1>1, <1>2 DEF CapabilityInv, RunsSound, SimulationSound, MapSound
<1>6. QED
  BY <1>4, <1>5 DEF CapabilityInv

\* One that fails leaves the block without what it took out of the map.
LEMMA FailsStep ==
    ASSUME Rules, CapabilityInv, NEW k \in C!Kinds, C!Fails(k)
    PROVE  CapabilityInv'
<1>1. /\ tx[k] # C!NoStores /\ RunsSound /\ C!Ended(k)
      /\ UNCHANGED <<root, block, capMap, address, blocks>>
      /\ lost' = IF k = "deliver" THEN lost \cup dropped ELSE lost
  BY DEF C!Fails, CapabilityInv
<1>2. /\ DOMAIN tx' = C!Kinds /\ IsFunction(tx') /\ DOMAIN held' = C!Kinds /\ IsFunction(held')
      /\ tx'[k] = C!NoStores /\ held'[k] = {}
      /\ \A j \in C!Kinds : j # k => tx'[j] = tx[j] /\ held'[j] = held[j]
      /\ dropped' = IF k = "deliver" THEN {} ELSE dropped
  BY <1>1, EndedFacts
<1>3. MapSound' /\ RunsSound' /\ SimulationSound'
  <2>1. MapSound'
    BY <1>1 DEF CapabilityInv, MapSound
  <2>2. RunsSound' /\ SimulationSound'
    <3>1. CASE k = "deliver"
      BY <1>1, <1>2, <3>1 DEF CapabilityInv, RunsSound, SimulationSound, C!Kinds
    <3>2. CASE k = "simulate"
      BY <1>1, <1>2, <3>2 DEF CapabilityInv, RunsSound, SimulationSound, C!Kinds
    <3>3. QED
      BY <3>1, <3>2 DEF C!Kinds
  <2>3. QED
    BY <2>1, <2>2
<1>4. CASE k = "deliver"
  <2>1. block # C!NoStores /\ lost' \cup dropped' = lost \cup dropped
    BY <1>1, <1>2, <1>4 DEF CapabilityInv, TxSound
  <2>2. RootSound' /\ BlockSound' /\ TxSound'
    BY <1>1, <1>2, <1>4, <2>1 DEF CapabilityInv, RootSound, BlockSound, TxSound
  <2>3. QED
    BY <1>3, <2>2 DEF CapabilityInv
<1>5. CASE k = "simulate"
  <2>1. /\ tx'["deliver"] = tx["deliver"] /\ held'["deliver"] = held["deliver"]
        /\ lost' = lost /\ dropped' = dropped
    BY <1>1, <1>2, <1>5 DEF C!Kinds
  <2>2. RootSound' /\ BlockSound' /\ TxSound'
    BY <1>1, <2>1 DEF CapabilityInv, RootSound, BlockSound, TxSound
  <2>3. QED
    BY <1>3, <2>2 DEF CapabilityInv
<1>6. QED
  BY <1>4, <1>5 DEF C!Kinds

\* A new capability of a delivered transaction has an index nobody had.
LEMMA NewDelivered ==
    ASSUME Rules, CapabilityInv, NEW m \in Modules, NEW n \in Names,
           C!NewCapability("deliver", m, n)
    PROVE  CapabilityInv'
<1> DEFINE s == tx["deliver"]
           i == s.index
           c == <<i, address + 1>>
           o == <<m, n>>
           t == tx'["deliver"]
<1>1. /\ s # C!NoStores /\ o \notin DOMAIN s.rev /\ i <= MaxIndex /\ address < MaxAddress
      /\ UNCHANGED <<root, block, dropped, blocks>> /\ RunsSound /\ MapSound /\ SimulationSound
      /\ capMap' = C!Put(capMap, i, c) /\ address' = address + 1 /\ lost' = lost \ {i}
      /\ held' = [held EXCEPT !["deliver"] = @ \cup {c}]
  BY DEF C!NewCapability, CapabilityInv
<1>2. /\ block # C!NoStores /\ Persistent(s) /\ InMemory(s, address) /\ Complete(s, capMap, lost)
      /\ block.index <= i /\ \A d \in held["deliver"] : Holds(s, d, address)
  BY <1>1 DEF CapabilityInv, TxSound
<1>3. MaxIndex \in Nat /\ MaxAddress \in Nat /\ address \in Nat /\ blocks \in Nat
  BY <1>1 DEF Rules, C!CapabilityConstants, MapSound
<1>4. i \in Nat \ {0} /\ i \in 1 .. MaxIndex
  BY <1>1, <1>2, <1>3 DEF Persistent
<1>5. C!getOwners(s, i) \cup {o} = {o}
  BY <1>2, <1>4 DEF Persistent, Registered, C!getOwners
<1>6. tx' = [tx EXCEPT !["deliver"] = [s EXCEPT !.index = i + 1, !.owners = C!Put(s.owners, i, {o}),
                                         !.fwd = C!Put(s.fwd, <<m, c>>, n), !.rev = C!Put(s.rev, o, i)]]
  BY <1>5 DEF C!NewCapability, C!NextIndex
<1>7. /\ DOMAIN tx' = C!Kinds /\ IsFunction(tx') /\ tx'["simulate"] = tx["simulate"]
      /\ t = [index |-> i + 1, owners |-> C!Put(s.owners, i, {o}), fwd |-> C!Put(s.fwd, <<m, c>>, n),
              rev |-> C!Put(s.rev, o, i), ready |-> s.ready]
  BY <1>1, <1>2, <1>6 DEF RunsSound, C!Kinds, IsFunction, Persistent, IsState
<1>8. /\ DOMAIN held' = C!Kinds /\ IsFunction(held') /\ held'["simulate"] = held["simulate"]
      /\ held'["deliver"] = held["deliver"] \cup {c}
  BY <1>1 DEF RunsSound, C!Kinds, IsFunction
<1>9. o \in C!Owners /\ o[1] = m /\ o[2] = n /\ c[1] = i
  BY DEF C!Owners
<1>10. IsPut(capMap', capMap, i, c)
  BY <1>1, PutFacts
<1>11. /\ IsPut(t.owners, s.owners, i, {o}) /\ IsPut(t.rev, s.rev, o, i)
       /\ IsPut(t.fwd, s.fwd, <<m, c>>, n) /\ t.index = i + 1 /\ t.ready = s.ready /\ IsState(t)
  BY <1>7, PutFacts DEF IsState
<1>12. address' \in Nat /\ address <= address' /\ Caps(address) \subseteq Caps(address')
  BY <1>1, <1>3, CapFacts
<1>13. c \in Caps(address')
  BY <1>1, <1>3, <1>4 DEF Caps
<1> HIDE DEF t, s, o, c
<1>14. Registered(t.owners, i + 1) /\ Complete(t, capMap', lost')
  BY <1>1, <1>2, <1>4, <1>9, <1>10, <1>11, NewFacts DEF Persistent
<1>15. Persistent(t)
  BY <1>3, <1>4, <1>11, <1>14 DEF Persistent
<1>16. InMemory(t, address')
  <2>1. DOMAIN t.fwd = DOMAIN s.fwd \cup {<<m, c>>} /\ DOMAIN t.rev = DOMAIN s.rev \cup {o}
    BY <1>11 DEF IsPut
  <2>2. QED
    BY <1>2, <1>9, <1>11, <1>12, <1>13, <2>1 DEF InMemory
<1>17. Mapped(capMap', address')
  BY <1>1, <1>9, <1>10, <1>12, <1>13 DEF Mapped, IsPut, MapSound
<1>18. MapSound'
  <2>1. MaxIndex * blocks \in Nat
    BY <1>3
  <2>2. QED
    BY <1>1, <1>3, <1>17, <2>1 DEF MapSound
<1>19. \A d \in held'["deliver"] : Holds(t, d, address')
  <2>1. Holds(t, c, address')
    BY <1>4, <1>9, <1>11, <1>13 DEF Holds
  <2>2. ASSUME NEW d \in held["deliver"] PROVE Holds(t, d, address')
    <3>1. d \in Caps(address) /\ d[1] < i
      BY <1>2 DEF Holds, s
    <3>2. d[1] \in Int
      BY <1>3, <3>1, CapFacts
    <3>3. QED
      BY <1>4, <1>11, <1>12, <3>1, <3>2 DEF Holds
  <2>3. QED
    BY <1>8, <2>1, <2>2
<1>20. t # C!NoStores
  BY <1>11, StateIsSome
<1>21. InMemory(root, address') /\ InMemory(block, address')
  BY <1>2, <1>3, <1>12, InMemoryLater DEF CapabilityInv, RootSound, BlockSound
<1>22. Complete(block, capMap', lost' \cup dropped)
  <2>1. Complete(block, capMap, lost \cup dropped) /\ Persistent(block)
    BY <1>2 DEF CapabilityInv, BlockSound
  <2>2. \A j \in DOMAIN block.owners : j \in Int /\ j < i
    BY <1>2, <1>4, <2>1 DEF Persistent, Registered
  <2>3. \A j \in DOMAIN block.owners : j # i
    BY <1>4, <2>2
  <2>4. \A j \in DOMAIN capMap : j # i => j \in DOMAIN capMap' /\ capMap'[j] = capMap[j]
    BY <1>10 DEF IsPut
  <2>5. \A j \in DOMAIN block.owners : j \notin lost' \cup dropped => j \notin lost \cup dropped
    BY <1>1, <2>3
  <2>6. QED
    BY <2>1, <2>3, <2>4, <2>5, CompleteAgrees
<1>23. RootSound' /\ BlockSound'
  BY <1>1, <1>2, <1>21, <1>22 DEF CapabilityInv, RootSound, BlockSound
<1>24. block.index <= t.index
  <2>1. block.index \in Int
    BY <1>2 DEF CapabilityInv, BlockSound, Persistent
  <2>2. QED
    BY <1>2, <1>4, <1>11, <2>1
<1>25. TxSound'
  BY <1>1, <1>2, <1>14, <1>15, <1>16, <1>19, <1>20, <1>24 DEF TxSound, t
<1>26. RunsSound'
  BY <1>1, <1>7, <1>8, <1>20 DEF RunsSound, t
<1>27. SimulationSound'
  BY <1>1, <1>3, <1>7, <1>8, <1>12, InMemoryLater DEF SimulationSound, Typed
<1>28. QED
  BY <1>18, <1>23, <1>25, <1>26, <1>27 DEF CapabilityInv

\* Of a simulated one the index may be that of another in the map, which is lost.
LEMMA NewSimulated ==
    ASSUME Rules, CapabilityInv, NEW m \in Modules, NEW n \in Names,
           C!NewCapability("simulate", m, n)
    PROVE  CapabilityInv'
<1> DEFINE s == tx["simulate"]
           i == s.index
           c == <<i, address + 1>>
           o == <<m, n>>
           t == tx'["simulate"]
<1>1. /\ s # C!NoStores /\ i <= MaxIndex /\ address < MaxAddress
      /\ UNCHANGED <<root, block, dropped, blocks>> /\ RunsSound /\ MapSound
      /\ capMap' = C!Put(capMap, i, c) /\ address' = address + 1 /\ lost' = lost \cup {i}
      /\ held' = [held EXCEPT !["simulate"] = @ \cup {c}]
  BY DEF C!NewCapability, CapabilityInv
<1>2. Typed(s, address) /\ held["simulate"] \subseteq Caps(address)
  BY <1>1 DEF CapabilityInv, SimulationSound
<1>3. MaxIndex \in Nat /\ MaxAddress \in Nat /\ address \in Nat /\ blocks \in Nat
  BY <1>1 DEF Rules, C!CapabilityConstants, MapSound
<1>4. i \in 1 .. MaxIndex
  BY <1>1, <1>2, <1>3 DEF Typed
<1>5. tx' = [tx EXCEPT !["simulate"] =
               [s EXCEPT !.index = i + 1, !.owners = C!Put(s.owners, i, C!getOwners(s, i) \cup {o}),
                         !.fwd = C!Put(s.fwd, <<m, c>>, n), !.rev = C!Put(s.rev, o, i)]]
  BY DEF C!NewCapability, C!NextIndex
<1>6. /\ DOMAIN tx' = C!Kinds /\ IsFunction(tx') /\ tx'["deliver"] = tx["deliver"]
      /\ t = [index |-> i + 1, owners |-> C!Put(s.owners, i, C!getOwners(s, i) \cup {o}),
              fwd |-> C!Put(s.fwd, <<m, c>>, n), rev |-> C!Put(s.rev, o, i), ready |-> s.ready]
  BY <1>1, <1>2, <1>5 DEF RunsSound, C!Kinds, IsFunction, Typed, IsState
<1>7. /\ DOMAIN held' = C!Kinds /\ IsFunction(held') /\ held'["deliver"] = held["deliver"]
      /\ held'["simulate"] = held["simulate"] \cup {c}
  BY <1>1 DEF RunsSound, C!Kinds, IsFunction
<1>8. o \in C!Owners /\ c[1] = i /\ C!getOwners(s, i) \subseteq C!Owners
  BY <1>2 DEF C!Owners, C!getOwners, Typed
<1>9. IsPut(capMap', capMap, i, c)
  BY <1>1, PutFacts
<1>10. /\ IsPut(t.owners, s.owners, i, C!getOwners(s, i) \cup {o}) /\ IsPut(t.rev, s.rev, o, i)
       /\ IsPut(t.fwd, s.fwd, <<m, c>>, n) /\ t.index = i + 1 /\ t.ready = s.ready /\ IsState(t)
  BY <1>6, PutFacts DEF IsState
<1>11. address' \in Nat /\ address <= address' /\ Caps(address) \subseteq Caps(address')
  BY <1>1, <1>3, CapFacts
<1>12. c \in Caps(address')
  BY <1>1, <1>3, <1>4 DEF Caps
<1> HIDE DEF t, s, o, c
<1>13. Typed(t, address')
  <2>1. DOMAIN t.fwd = DOMAIN s.fwd \cup {<<m, c>>} /\ DOMAIN t.rev = DOMAIN s.rev \cup {o}
    BY <1>10 DEF IsPut
  <2>2. InMemory(t, address')
    BY <1>2, <1>8, <1>10, <1>11, <1>12, <2>1 DEF InMemory, Typed
  <2>3. \A j \in DOMAIN t.owners :
           j \in 1 .. MaxIndex /\ t.owners[j] \subseteq C!Owners /\ t.owners[j] # {}
    BY <1>2, <1>4, <1>8, <1>10 DEF Typed, IsPut
  <2>4. t.index \in 1 .. (MaxIndex + 1)
    BY <1>3, <1>4, <1>10
  <2>5. QED
    BY <1>10, <2>2, <2>3, <2>4 DEF Typed
<1>14. Mapped(capMap', address')
  BY <1>1, <1>8, <1>9, <1>11, <1>12 DEF Mapped, IsPut, MapSound
<1>15. MapSound'
  <2>1. MaxIndex * blocks \in Nat
    BY <1>3
  <2>2. QED
    BY <1>1, <1>3, <1>14, <2>1 DEF MapSound
<1>16. \A j \in DOMAIN capMap : j \notin lost' => j \in DOMAIN capMap' /\ capMap'[j] = capMap[j]
  BY <1>1, <1>9 DEF IsPut
<1>17. RootSound' /\ BlockSound' /\ TxSound'
  BY <1>1, <1>6, <1>7, <1>11, <1>16, SimulationFrame
<1>18. RunsSound'
  BY <1>1, <1>4, <1>6, <1>7 DEF RunsSound
<1>19. SimulationSound'
  BY <1>2, <1>7, <1>11, <1>12, <1>13 DEF SimulationSound, t
<1>20. QED
  BY <1>15, <1>17, <1>18, <1>19 DEF CapabilityInv

\* A capability that is looked up is what the map holds; without it the transaction fails.
LEMMA GetCapabilityStep ==
    ASSUME Rules, CapabilityInv, NEW k \in C!Kinds, NEW m \in Modules, NEW n \in Names,
           C!GetCapability(k, m, n)
    PROVE  CapabilityInv'
<1> DEFINE s == tx[k]
           i == s.rev[<<m, n>>]
<1>1. CASE C!Fails(k)
  BY <1>1, FailsStep
<1>2. CASE /\ i \in DOMAIN capMap /\ held' = [held EXCEPT ![k] = @ \cup {capMap[i]}]
           /\ UNCHANGED <<root, block, tx, dropped, lost, capMap, address, blocks>>
  <2>1. s # C!NoStores /\ <<m, n>> \in DOMAIN s.rev /\ RunsSound /\ MapSound
    BY DEF C!GetCapability, CapabilityInv
  <2>2. capMap[i] \in Caps(address) /\ capMap[i][1] = i
    BY <1>2, <2>1 DEF MapSound, Mapped
  <2>3. /\ DOMAIN held' = C!Kinds /\ IsFunction(held') /\ held'[k] = held[k] \cup {capMap[i]}
        /\ \A j \in C!Kinds : j # k => held'[j] = held[j]
    BY <1>2, <2>1 DEF RunsSound, IsFunction
  <2>4. MapSound' /\ RootSound' /\ BlockSound'
    BY <1>2 DEF CapabilityInv, MapSound, RootSound, BlockSound
  <2>5. CASE k = "deliver"
    <3>1. i \in DOMAIN s.owners /\ Persistent(s)
      BY <2>1, <2>5 DEF CapabilityInv, TxSound, Complete, Named
    <3>2. i < s.index
      BY <3>1 DEF Persistent, Registered
    <3>3. Holds(s, capMap[i], address)
      BY <2>2, <3>2 DEF Holds
    <3>4. TxSound'
      BY <1>2, <2>3, <2>5, <3>3 DEF CapabilityInv, TxSound
    <3>5. RunsSound' /\ SimulationSound'
      BY <1>2, <2>1, <2>3, <2>5 DEF CapabilityInv, RunsSound, SimulationSound, C!Kinds
    <3>6. QED
      BY <2>4, <3>4, <3>5 DEF CapabilityInv
  <2>6. CASE k = "simulate"
    <3>1. TxSound'
      BY <1>2, <2>3, <2>6 DEF CapabilityInv, TxSound, C!Kinds
    <3>2. RunsSound' /\ SimulationSound'
      BY <1>2, <2>1, <2>2, <2>3, <2>6 DEF CapabilityInv, RunsSound, SimulationSound, C!Kinds
    <3>3. QED
      BY <2>4, <3>1, <3>2 DEF CapabilityInv
  <2>7. QED
    BY <2>5, <2>6 DEF C!Kinds
<1>3. QED
  BY <1>1, <1>2 DEF C!GetCapability

\* A claim adds an owner, under a name this module does not use yet.
LEMMA ClaimDelivered ==
    ASSUME Rules, CapabilityInv, NEW m \in Modules, NEW n \in Names,
           NEW c \in held["deliver"], C!ClaimCapability("deliver", m, c, n)
    PROVE  CapabilityInv'
<1> DEFINE s == tx["deliver"]
           i == c[1]
           o == <<m, n>>
           t == tx'["deliver"]
           all == C!getOwners(s, i) \cup {o}
<1>1. /\ s # C!NoStores /\ RunsSound /\ MapSound /\ SimulationSound
      /\ UNCHANGED <<root, block, held, dropped, capMap, address, blocks>>
      /\ lost' = IF ~C!InMap(c) THEN lost \cup {i} ELSE lost
      /\ o \notin DOMAIN s.rev /\ \A p \in C!getOwners(s, i) : p[1] # m
  BY DEF C!ClaimCapability, C!TidyClaim, CapabilityInv, Rules
<1>2. /\ block # C!NoStores /\ Persistent(s) /\ InMemory(s, address) /\ Complete(s, capMap, lost)
      /\ block.index <= s.index /\ \A d \in held["deliver"] : Holds(s, d, address)
  BY <1>1 DEF CapabilityInv, TxSound
<1>3. MaxIndex \in Nat /\ address \in Nat
  BY <1>1 DEF Rules, C!CapabilityConstants, MapSound
<1>4. s.index \in Nat /\ s.index <= MaxIndex + 1
  BY <1>2, <1>3 DEF Persistent
<1>5. c \in Caps(address) /\ i \in 1 .. (s.index - 1) /\ i \in 1 .. MaxIndex
  <2>1. c \in Caps(address) /\ i < s.index
    BY <1>2 DEF Holds
  <2>2. i \in 1 .. MaxIndex
    BY <1>3, <2>1, CapFacts
  <2>3. QED
    BY <1>4, <2>1, <2>2
<1>6. tx' = [tx EXCEPT !["deliver"] =
               [s EXCEPT !.owners = C!Put(s.owners, i, all),
                         !.fwd = C!Put(s.fwd, <<m, c>>, n), !.rev = C!Put(s.rev, o, i)]]
  BY DEF C!ClaimCapability
<1>7. /\ DOMAIN tx' = C!Kinds /\ IsFunction(tx') /\ tx'["simulate"] = tx["simulate"]
      /\ t = [index |-> s.index, owners |-> C!Put(s.owners, i, all),
              fwd |-> C!Put(s.fwd, <<m, c>>, n), rev |-> C!Put(s.rev, o, i), ready |-> s.ready]
  BY <1>1, <1>2, <1>6 DEF RunsSound, C!Kinds, IsFunction, Persistent, IsState
<1>8. o \in C!Owners /\ o[1] = m /\ o[2] = n
  BY DEF C!Owners
<1>9. /\ IsPut(t.owners, s.owners, i, all) /\ IsPut(t.rev, s.rev, o, i)
      /\ IsPut(t.fwd, s.fwd, <<m, c>>, n)
      /\ t.index = s.index /\ t.ready = s.ready /\ IsState(t)
  BY <1>7, PutFacts DEF IsState
<1>10. lost \subseteq lost' /\ (i \notin lost' => i \in DOMAIN capMap /\ capMap[i] = c)
  BY <1>1 DEF C!InMap
<1> HIDE DEF t, s, o, i
<1>11. Registered(t.owners, s.index) /\ Complete(t, capMap, lost')
  <2>1. s.index \in Nat /\ c[1] \in 1 .. (s.index - 1) /\ Registered(s.owners, s.index)
        /\ Complete(s, capMap, lost) /\ o \notin DOMAIN s.rev /\ o \in C!Owners
        /\ t.ready = s.ready /\ lost \subseteq lost'
    BY <1>1, <1>2, <1>4, <1>5, <1>8, <1>9, <1>10 DEF Persistent, i
  <2>2. \A p \in C!getOwners(s, c[1]) : p[1] # o[1]
    BY <1>1, <1>8 DEF i
  <2>3. /\ IsPut(t.owners, s.owners, c[1], C!getOwners(s, c[1]) \cup {o})
        /\ IsPut(t.rev, s.rev, o, c[1])
    BY <1>9 DEF i
  <2>4. IsPut(t.fwd, s.fwd, <<o[1], c>>, o[2])
    BY <1>8, <1>9
  <2>5. c[1] \notin lost' => c[1] \in DOMAIN capMap /\ capMap[c[1]] = c
    BY <1>10 DEF i
  <2> HIDE DEF all
  <2>6. QED
    BY <2>1, <2>2, <2>3, <2>4, <2>5, ClaimFacts
<1>12. Persistent(t)
  BY <1>2, <1>9, <1>11 DEF Persistent
<1>13. InMemory(t, address)
  <2>1. DOMAIN t.fwd = DOMAIN s.fwd \cup {<<m, c>>} /\ DOMAIN t.rev = DOMAIN s.rev \cup {o}
    BY <1>9 DEF IsPut
  <2>2. QED
    BY <1>2, <1>5, <1>8, <1>9, <2>1 DEF InMemory
<1>14. t # C!NoStores
  BY <1>9, StateIsSome
<1>15. \A d \in held["deliver"] : Holds(t, d, address)
  BY <1>2, <1>9 DEF Holds
<1>16. TxSound'
  BY <1>1, <1>2, <1>9, <1>11, <1>12, <1>13, <1>14, <1>15 DEF TxSound, t
<1>17. RunsSound'
  BY <1>1, <1>5, <1>7, <1>14 DEF RunsSound, t
<1>18. MapSound' /\ RootSound' /\ SimulationSound'
  BY <1>1, <1>2, <1>7 DEF CapabilityInv, MapSound, RootSound, SimulationSound
<1>19. BlockSound'
  <2>1. Complete(block, capMap, lost \cup dropped)
    BY <1>2 DEF CapabilityInv, BlockSound
  <2>2. Complete(block, capMap, lost' \cup dropped)
    BY <1>10, <2>1, CompleteAgrees
  <2>3. QED
    BY <1>1, <2>2 DEF CapabilityInv, BlockSound
<1>20. QED
  BY <1>16, <1>17, <1>18, <1>19 DEF CapabilityInv

\* A simulated claim stays in its branch.
LEMMA ClaimSimulated ==
    ASSUME Rules, CapabilityInv, NEW m \in Modules, NEW n \in Names,
           NEW c \in held["simulate"], C!ClaimCapability("simulate", m, c, n)
    PROVE  CapabilityInv'
<1> DEFINE s == tx["simulate"]
           i == c[1]
           o == <<m, n>>
           t == tx'["simulate"]
           all == C!getOwners(s, i) \cup {o}
<1>1. /\ s # C!NoStores /\ RunsSound /\ MapSound
      /\ UNCHANGED <<root, block, held, dropped, capMap, address, blocks, lost>>
  BY DEF C!ClaimCapability, CapabilityInv
<1>2. Typed(s, address) /\ c \in Caps(address) /\ address \in Nat
  BY <1>1 DEF CapabilityInv, SimulationSound, MapSound
<1>3. tx' = [tx EXCEPT !["simulate"] =
               [s EXCEPT !.owners = C!Put(s.owners, i, all),
                         !.fwd = C!Put(s.fwd, <<m, c>>, n), !.rev = C!Put(s.rev, o, i)]]
  BY DEF C!ClaimCapability
<1>4. /\ DOMAIN tx' = C!Kinds /\ IsFunction(tx') /\ tx'["deliver"] = tx["deliver"]
      /\ t = [index |-> s.index, owners |-> C!Put(s.owners, i, all),
              fwd |-> C!Put(s.fwd, <<m, c>>, n), rev |-> C!Put(s.rev, o, i), ready |-> s.ready]
  BY <1>1, <1>2, <1>3 DEF RunsSound, C!Kinds, IsFunction, Typed, IsState
<1>5. o \in C!Owners /\ i \in 1 .. MaxIndex /\ C!getOwners(s, i) \subseteq C!Owners
  BY <1>2, CapFacts DEF C!Owners, C!getOwners, Typed
<1>6. /\ IsPut(t.owners, s.owners, i, all) /\ IsPut(t.rev, s.rev, o, i)
      /\ IsPut(t.fwd, s.fwd, <<m, c>>, n)
      /\ t.index = s.index /\ t.ready = s.ready /\ IsState(t)
  BY <1>4, PutFacts DEF IsState
<1>7. all \subseteq C!Owners /\ all # {}
  BY <1>5
<1> HIDE DEF t, s, o, i, all
<1>8. Typed(t, address)
  <2>1. DOMAIN t.fwd = DOMAIN s.fwd \cup {<<m, c>>} /\ DOMAIN t.rev = DOMAIN s.rev \cup {o}
    BY <1>6 DEF IsPut
  <2>2. InMemory(t, address)
    BY <1>2, <1>5, <1>6, <2>1 DEF InMemory, Typed
  <2>3. \A j \in DOMAIN t.owners :
           j \in 1 .. MaxIndex /\ t.owners[j] \subseteq C!Owners /\ t.owners[j] # {}
    BY <1>2, <1>5, <1>6, <1>7 DEF Typed, IsPut
  <2>4. QED
    BY <1>2, <1>6, <2>2, <2>3 DEF Typed
<1>9. RootSound' /\ BlockSound' /\ TxSound' /\ MapSound'
  BY <1>1, <1>4 DEF CapabilityInv, RootSound, BlockSound, TxSound, MapSound
<1>10. RunsSound' /\ SimulationSound'
  BY <1>1, <1>4, <1>8 DEF CapabilityInv, RunsSound, SimulationSound, t
<1>11. QED
  BY <1>9, <1>10 DEF CapabilityInv

\* A release takes one owner, and the capability with the last of them.
LEMMA ReleaseDelivered ==
    ASSUME Rules, CapabilityInv, NEW m \in Modules, NEW c \in held["deliver"],
           C!ReleaseCapability("deliver", m, c)
    PROVE  CapabilityInv'
<1> DEFINE s == tx["deliver"]
           i == c[1]
           x == <<m, c>>
           n == s.fwd[x]
           o == <<m, n>>
           left == s.owners[i] \ {o}
           t == tx'["deliver"]
<1>1. /\ s # C!NoStores /\ x \in DOMAIN s.fwd /\ RunsSound /\ MapSound
      /\ UNCHANGED <<root, block, held, address, blocks, lost>>
  BY DEF C!ReleaseCapability, CapabilityInv
<1>2. /\ block # C!NoStores /\ Persistent(s) /\ InMemory(s, address) /\ Complete(s, capMap, lost)
      /\ block.index <= s.index /\ \A d \in held["deliver"] : Holds(s, d, address)
  BY <1>1 DEF CapabilityInv, TxSound
<1>3. i \in DOMAIN s.owners /\ o \in s.owners[i]
  <2>1. x[1] = m /\ x[2] = c
    OBVIOUS
  <2>2. QED
    BY <1>1, <1>2, <2>1 DEF Complete, Keyed
<1>4. C!getOwners(s, i) = s.owners[i]
  BY <1>3 DEF C!getOwners
<1>5. /\ tx' = [tx EXCEPT !["deliver"] =
                  [s EXCEPT !.fwd = C!Without(s.fwd, x), !.rev = C!Without(s.rev, o),
                            !.owners = IF left = {} THEN C!Without(s.owners, i)
                                       ELSE C!Put(s.owners, i, left)]]
      /\ capMap' = IF left = {} THEN C!Without(capMap, i) ELSE capMap
      /\ dropped' = IF left = {} THEN dropped \cup {i} ELSE dropped
  BY <1>4 DEF C!ReleaseCapability, C!LastOwner
<1>6. /\ DOMAIN tx' = C!Kinds /\ IsFunction(tx') /\ tx'["simulate"] = tx["simulate"]
      /\ t = [index |-> s.index,
              owners |-> IF left = {} THEN C!Without(s.owners, i) ELSE C!Put(s.owners, i, left),
              fwd |-> C!Without(s.fwd, x), rev |-> C!Without(s.rev, o), ready |-> s.ready]
  BY <1>1, <1>2, <1>5 DEF RunsSound, C!Kinds, IsFunction, Persistent, IsState
<1>7. /\ left = {} => IsWithout(t.owners, s.owners, i)
      /\ left # {} => IsPut(t.owners, s.owners, i, left)
      /\ IsWithout(t.rev, s.rev, o) /\ IsWithout(t.fwd, s.fwd, x)
      /\ t.index = s.index /\ t.ready = s.ready /\ IsState(t)
  BY <1>6, PutFacts, WithoutFacts DEF IsState
<1>8. (left = {} => IsWithout(capMap', capMap, i)) /\ (left # {} => capMap' = capMap)
  BY <1>5, WithoutFacts
<1>9. s.index \in Nat /\ MaxIndex \in Nat /\ i \in 1 .. MaxIndex
  BY <1>2, <1>3 DEF Persistent, Registered, Rules, C!CapabilityConstants
<1>10. left = s.owners[i] \ {o} /\ o[1] = m /\ o[2] = n
  OBVIOUS
<1> HIDE DEF t, s, o, i, n, left
<1>11. Registered(t.owners, s.index) /\ Complete(t, capMap', lost)
  <2>1. Registered(s.owners, s.index)
    BY <1>2 DEF Persistent
  <2>2. /\ IsWithout(t.fwd, s.fwd, <<o[1], c>>) /\ s.fwd[<<o[1], c>>] = o[2]
        /\ <<o[1], c>> \in DOMAIN s.fwd
    BY <1>1, <1>7, <1>10 DEF n
  <2>3. QED
    BY <1>2, <1>3, <1>7, <1>8, <1>9, <1>10, <2>1, <2>2, ReleaseFacts DEF i
<1>12. Persistent(t)
  BY <1>2, <1>7, <1>11 DEF Persistent
<1>13. InMemory(t, address)
  BY <1>2, <1>7 DEF InMemory, IsWithout
<1>14. Mapped(capMap', address)
  <2>1. Mapped(capMap, address)
    BY <1>1 DEF MapSound
  <2>2. CASE left = {}
    BY <1>8, <2>1, <2>2 DEF Mapped, IsWithout
  <2>3. QED
    BY <1>8, <2>1, <2>2
<1>15. MapSound'
  BY <1>1, <1>14 DEF MapSound
<1>16. t # C!NoStores
  BY <1>7, StateIsSome
<1>17. \A d \in held["deliver"] : Holds(t, d, address)
  BY <1>2, <1>7 DEF Holds
<1>18. TxSound'
  BY <1>1, <1>2, <1>7, <1>11, <1>12, <1>13, <1>16, <1>17 DEF TxSound, t
<1>19. RunsSound'
  BY <1>1, <1>5, <1>6, <1>9, <1>16 DEF RunsSound, t
<1>20. RootSound' /\ SimulationSound'
  BY <1>1, <1>2, <1>6 DEF CapabilityInv, RootSound, SimulationSound
<1>21. BlockSound'
  <2>1. Complete(block, capMap, lost \cup dropped)
    BY <1>2 DEF CapabilityInv, BlockSound
  <2>2. \A j \in DOMAIN capMap :
           j \notin dropped' => j \notin dropped /\ j \in DOMAIN capMap' /\ capMap'[j] = capMap[j]
    <3>1. CASE left = {}
      BY <1>5, <1>8, <3>1 DEF IsWithout
    <3>2. CASE left # {}
      BY <1>5, <1>8, <3>2
    <3>3. QED
      BY <3>1, <3>2
  <2>3. dropped \subseteq dropped'
    BY <1>5
  <2>4. Complete(block, capMap', lost \cup dropped')
    BY <2>1, <2>2, <2>3, CompleteAgrees
  <2>5. QED
    BY <1>1, <2>4 DEF CapabilityInv, BlockSound
<1>22. QED
  BY <1>15, <1>18, <1>19, <1>20, <1>21 DEF CapabilityInv

\* A simulated release takes the capability out of the map for good.
LEMMA ReleaseSimulated ==
    ASSUME Rules, CapabilityInv, NEW m \in Modules, NEW c \in held["simulate"],
           C!ReleaseCapability("simulate", m, c)
    PROVE  CapabilityInv'
<1> DEFINE s == tx["simulate"]
           i == c[1]
           x == <<m, c>>
           o == <<m, s.fwd[x]>>
           left == C!getOwners(s, i) \ {o}
           t == tx'["simulate"]
<1>1. /\ s # C!NoStores /\ x \in DOMAIN s.fwd /\ RunsSound /\ MapSound
      /\ UNCHANGED <<root, block, held, address, blocks, dropped>>
  BY DEF C!ReleaseCapability, CapabilityInv
<1>2. Typed(s, address) /\ c \in Caps(address) /\ address \in Nat
  BY <1>1 DEF CapabilityInv, SimulationSound, MapSound
<1>3. /\ tx' = [tx EXCEPT !["simulate"] =
                  [s EXCEPT !.fwd = C!Without(s.fwd, x), !.rev = C!Without(s.rev, o),
                            !.owners = IF left = {} THEN C!Without(s.owners, i)
                                       ELSE C!Put(s.owners, i, left)]]
      /\ capMap' = IF left = {} THEN C!Without(capMap, i) ELSE capMap
      /\ lost' = IF left = {} THEN lost \cup {i} ELSE lost
  BY DEF C!ReleaseCapability, C!LastOwner
<1>4. /\ DOMAIN tx' = C!Kinds /\ IsFunction(tx') /\ tx'["deliver"] = tx["deliver"]
      /\ t = [index |-> s.index,
              owners |-> IF left = {} THEN C!Without(s.owners, i) ELSE C!Put(s.owners, i, left),
              fwd |-> C!Without(s.fwd, x), rev |-> C!Without(s.rev, o), ready |-> s.ready]
  BY <1>1, <1>2, <1>3 DEF RunsSound, C!Kinds, IsFunction, Typed, IsState
<1>5. i \in 1 .. MaxIndex /\ left \subseteq C!Owners
  BY <1>2, CapFacts DEF C!getOwners, Typed
<1>6. /\ left = {} => IsWithout(t.owners, s.owners, i)
      /\ left # {} => IsPut(t.owners, s.owners, i, left)
      /\ IsWithout(t.rev, s.rev, o) /\ IsWithout(t.fwd, s.fwd, x)
      /\ t.index = s.index /\ t.ready = s.ready /\ IsState(t)
  BY <1>4, PutFacts, WithoutFacts DEF IsState
<1>7. (left = {} => IsWithout(capMap', capMap, i)) /\ (left # {} => capMap' = capMap)
  BY <1>3, WithoutFacts
<1> HIDE DEF t, s, o, i, left
<1>8. Typed(t, address)
  <2>1. InMemory(t, address)
    BY <1>2, <1>6 DEF InMemory, Typed, IsWithout
  <2>2. \A j \in DOMAIN t.owners :
           j \in 1 .. MaxIndex /\ t.owners[j] \subseteq C!Owners /\ t.owners[j] # {}
    <3>1. CASE left = {}
      BY <1>2, <1>6, <3>1 DEF Typed, IsWithout
    <3>2. CASE left # {}
      BY <1>2, <1>5, <1>6, <3>2 DEF Typed, IsPut
    <3>3. QED
      BY <3>1, <3>2
  <2>3. QED
    BY <1>2, <1>6, <2>1, <2>2 DEF Typed
<1>9. Mapped(capMap', address)
  <2>1. Mapped(capMap, address)
    BY <1>1 DEF MapSound
  <2>2. CASE left = {}
    BY <1>7, <2>1, <2>2 DEF Mapped, IsWithout
  <2>3. QED
    BY <1>7, <2>1, <2>2
<1>10. MapSound'
  BY <1>1, <1>9 DEF MapSound
<1>11. /\ lost \subseteq lost'
       /\ \A j \in DOMAIN capMap : j \notin lost' => j \in DOMAIN capMap' /\ capMap'[j] = capMap[j]
  <2>1. CASE left = {}
    BY <1>3, <1>7, <2>1 DEF IsWithout
  <2>2. CASE left # {}
    BY <1>3, <1>7, <2>2
  <2>3. QED
    BY <2>1, <2>2
<1>12. RootSound' /\ BlockSound' /\ TxSound'
  BY <1>1, <1>2, <1>4, <1>11, SimulationFrame
<1>13. RunsSound' /\ SimulationSound'
  BY <1>1, <1>3, <1>4, <1>5, <1>8 DEF CapabilityInv, RunsSound, SimulationSound, t
<1>14. QED
  BY <1>10, <1>12, <1>13 DEF CapabilityInv

\* Every step preserves the invariant.
LEMMA CapabilityInvStep ==
    ASSUME Rules, CapabilityInv, [C!Next]_(C!vars)
    PROVE  CapabilityInv'
<1>1. CASE UNCHANGED C!vars
  BY <1>1 DEF CapabilityInv, MapSound, RootSound, BlockSound, TxSound, SimulationSound, RunsSound,
              C!vars
<1>2. CASE C!Next
  <2>1. CASE C!BeginBlock \/ C!Commit \/ C!Restart
    BY <2>1, BeginBlockStep, CommitStep, RestartStep
  <2>2. ASSUME NEW k \in C!Kinds, C!BeginTx(k) \/ C!Succeeds(k) \/ C!Fails(k) PROVE CapabilityInv'
    BY <2>2, BeginTxStep, SucceedsStep, FailsStep
  <2>3. ASSUME NEW k \in C!Kinds, NEW m \in Modules, NEW n \in Names,
               C!NewCapability(k, m, n) \/ C!GetCapability(k, m, n)
        PROVE  CapabilityInv'
    <3>1. k = "deliver" \/ k = "simulate"
      BY DEF C!Kinds
    <3>2. QED
      BY <2>3, <3>1, NewDelivered, NewSimulated, GetCapabilityStep
  <2>4. ASSUME NEW k \in C!Kinds, NEW m \in Modules, NEW n \in Names, NEW c \in held[k],
               C!ClaimCapability(k, m, c, n)
        PROVE  CapabilityInv'
    <3>1. k = "deliver" \/ k = "simulate"
      BY DEF C!Kinds
    <3>2. QED
      BY <2>4, <3>1, ClaimDelivered, ClaimSimulated
  <2>5. ASSUME NEW k \in C!Kinds, NEW m \in Modules, NEW c \in held[k], C!ReleaseCapability(k, m, c)
        PROVE  CapabilityInv'
    <3>1. k = "deliver" \/ k = "simulate"
      BY DEF C!Kinds
    <3>2. QED
      BY <2>5, <3>1, ReleaseDelivered, ReleaseSimulated
  <2>6. QED
    BY <1>2, <2>1, <2>2, <2>3, <2>4, <2>5 DEF C!Next
<1>3. QED
  BY <1>1, <1>2

-----------------------------------------------------------------------------
(* Theorems *)

\* What the next message sees: complete, unless the node has just restarted.
LEMMA ViewFacts ==
    ASSUME Rules, CapabilityInv
    PROVE  /\ Persistent(C!View) /\ C!View.ready \in BOOLEAN
           /\ C!View.ready => Complete(C!View, capMap, lost)
           /\ ~C!View.ready => DOMAIN C!View.rev = {}
<1>1. CASE tx["deliver"] # C!NoStores
  BY <1>1 DEF C!View, CapabilityInv, TxSound, Complete
<1>2. CASE tx["deliver"] = C!NoStores /\ block # C!NoStores
  <2>1. lost \cup dropped = lost
    BY <1>2 DEF CapabilityInv, RunsSound
  <2>2. QED
    BY <1>2, <2>1 DEF C!View, CapabilityInv, BlockSound, Complete
<1>3. CASE tx["deliver"] = C!NoStores /\ block = C!NoStores
  BY <1>3 DEF C!View, CapabilityInv, RootSound, InMemory, Complete
<1>4. QED
  BY <1>1, <1>2, <1>3

\* The name a key stands for.
LEMMA NameFacts ==
    ASSUME NEW s, NEW m, NEW c
    PROVE  /\ <<m, c>> \in DOMAIN s.fwd => C!GetCapabilityName(s, m, c) = {s.fwd[<<m, c>>]}
           /\ <<m, c>> \notin DOMAIN s.fwd => C!GetCapabilityName(s, m, c) = {}
  BY DEF C!GetCapabilityName

\* The names of a capability that is not gone are its owners' names.
LEMMA NamesDetermined ==
    ASSUME NEW s, NEW map, NEW gone, NEW index, Registered(s.owners, index), Complete(s, map, gone),
           NEW i \in DOMAIN s.owners, i \notin gone, map[i][1] = i, NEW m, NEW n
    PROVE  n \in C!GetCapabilityName(s, m, map[i]) <=> <<m, n>> \in s.owners[i]
<1> DEFINE x == <<m, map[i]>>
<1>1. x[1] = m /\ x[2] = map[i]
  OBVIOUS
<1>2. ASSUME <<m, n>> \in s.owners[i] PROVE n \in C!GetCapabilityName(s, m, map[i])
  <2>1. <<m, n>>[1] = m /\ <<m, n>>[2] = n
    OBVIOUS
  <2>2. x \in DOMAIN s.fwd /\ s.fwd[x] = n
    BY <1>2, <2>1 DEF Complete, Reached
  <2>3. QED
    BY <2>2, NameFacts
<1>3. ASSUME n \in C!GetCapabilityName(s, m, map[i]) PROVE <<m, n>> \in s.owners[i]
  <2>1. x \in DOMAIN s.fwd /\ s.fwd[x] = n
    BY <1>3, NameFacts
  <2>2. QED
    BY <1>1, <2>1 DEF Complete, Keyed
<1>4. QED
  BY <1>2, <1>3

\* The invariant gives the safety properties.
LEMMA CapabilityInvImplies ==
    ASSUME Rules, CapabilityInv
    PROVE  C!TypeOK /\ C!NeverMissing /\ C!OwnersAuthenticate /\ C!RestartInvisible
<1>1. MaxIndex \in Nat /\ MaxAddress \in Nat /\ MaxBlocks \in Nat /\ MapSound
  BY DEF Rules, C!CapabilityConstants, CapabilityInv
<1>2. Caps(address) \subseteq C!Capabilities
  <2>1. blocks \in Nat /\ blocks <= MaxBlocks /\ address <= MaxAddress + MaxIndex * blocks
    BY <1>1 DEF MapSound
  <2>2. MaxIndex * blocks <= MaxIndex * MaxBlocks
    BY <1>1, <2>1, Multiplied
  <2>3. MaxIndex * blocks \in Int /\ MaxIndex * MaxBlocks \in Nat /\ address \in Nat
    BY <1>1, <2>1 DEF MapSound
  <2>4. MaxAddress + MaxIndex * MaxBlocks \in Nat /\ address <= MaxAddress + MaxIndex * MaxBlocks
    BY <1>1, <2>1, <2>2, <2>3
  <2>5. Caps(address) \subseteq Caps(MaxAddress + MaxIndex * MaxBlocks)
    BY <2>3, <2>4, CapFacts
  <2>6. QED
    BY <2>5 DEF Caps, C!Capabilities, C!Indices
<1>3. ASSUME NEW s, Typed(s, address) PROVE C!States(s)
  <2>1. DOMAIN s.fwd \subseteq Modules \X C!Capabilities
    BY <1>2, <1>3 DEF Typed, InMemory
  <2>2. QED
    BY <1>3, <2>1 DEF C!States, Typed, InMemory, C!Indices
<1>4. ASSUME NEW s, Persistent(s), InMemory(s, address) PROVE Typed(s, address)
  BY <1>1, <1>4 DEF Persistent, Registered, Typed
<1>5. C!TypeOK
  <2>1. C!States(root) /\ (block # C!NoStores => C!States(block))
    BY <1>3, <1>4 DEF CapabilityInv, RootSound, BlockSound
  <2>2. \A k \in C!Kinds : tx[k] # C!NoStores => C!States(tx[k])
    BY <1>3, <1>4 DEF C!Kinds, CapabilityInv, TxSound, SimulationSound
  <2>3. DOMAIN capMap \subseteq C!Indices /\ blocks \in 0 .. MaxBlocks /\ lost \subseteq C!Indices
    <3>1. \A i \in DOMAIN capMap : capMap[i] \in Caps(address) /\ capMap[i][1] = i
      BY <1>1 DEF MapSound, Mapped
    <3>2. \A i \in DOMAIN capMap : i \in 1 .. MaxIndex
      BY <1>1, <3>1, CapFacts DEF MapSound
    <3>3. QED
      BY <1>1, <3>2 DEF MapSound, CapabilityInv, RunsSound, C!Indices
  <2>4. QED
    BY <2>1, <2>2, <2>3 DEF C!TypeOK
<1>6. ASSUME NEW v, v = C!View
      PROVE  /\ \A o \in DOMAIN v.rev : v.rev[o] \in DOMAIN capMap \cup lost
             /\ v.ready => \A i \in DOMAIN v.owners : \A o \in v.owners[i] :
                   /\ o \in DOMAIN v.rev /\ v.rev[o] = i
                   /\ i \notin lost => C!GetCapabilityName(v, o[1], capMap[i]) = {o[2]}
  <2>1. (v.ready => Complete(v, capMap, lost)) /\ (~v.ready => DOMAIN v.rev = {})
    BY <1>6, ViewFacts
  <2>2. CASE v.ready
    <3>1. Complete(v, capMap, lost)
      BY <2>1, <2>2
    <3>2. \A o \in DOMAIN v.rev : v.rev[o] \in DOMAIN capMap \cup lost
      BY <3>1 DEF Complete, Named, Reached
    <3>3. ASSUME NEW i \in DOMAIN v.owners, NEW o \in v.owners[i]
          PROVE  /\ o \in DOMAIN v.rev /\ v.rev[o] = i
                 /\ i \notin lost => C!GetCapabilityName(v, o[1], capMap[i]) = {o[2]}
      <4>1. o \in DOMAIN v.rev /\ v.rev[o] = i
        BY <3>1 DEF Complete, Named
      <4>2. i \notin lost => /\ <<o[1], capMap[i]>> \in DOMAIN v.fwd
                             /\ v.fwd[<<o[1], capMap[i]>>] = o[2]
        BY <3>1 DEF Complete, Reached
      <4>3. QED
        BY <4>1, <4>2, NameFacts
    <3>4. QED
      BY <3>2, <3>3
  <2>3. CASE ~v.ready
    BY <2>1, <2>3
  <2>4. QED
    BY <2>2, <2>3
<1>7. C!NeverMissing /\ C!OwnersAuthenticate
  BY <1>6 DEF C!NeverMissing, C!OwnersAuthenticate
<1>8. C!RestartInvisible
  <2> DEFINE s == C!View
             addr == [i \in DOMAIN s.owners |-> <<i, 0>>]
             again == C!InitializeCapabilities(s, addr)
  <2>1. SUFFICES ASSUME s.ready
                 PROVE  /\ s.rev = again.rev
                        /\ \A i \in DOMAIN s.owners \ lost : \A m \in Modules :
                              C!GetCapabilityName(s, m, capMap[i]) = C!GetCapabilityName(again, m, addr[i])
    BY DEF C!RestartInvisible
  <2>2. Persistent(s) /\ Complete(s, capMap, lost)
    BY <2>1, ViewFacts
  <2>3. DOMAIN addr = DOMAIN s.owners /\ \A i \in DOMAIN addr : addr[i][1] = i
    OBVIOUS
  <2>4. Names \subseteq Nat /\ s.index \in Nat /\ IsState(s) /\ Registered(s.owners, s.index)
    BY <2>2 DEF Persistent, Rules, C!CapabilityConstants
  <2> HIDE DEF s, addr
  <2>5. again.owners = s.owners /\ Complete(again, addr, {})
    BY <2>3, <2>4, RebuiltFacts
  <2> HIDE DEF again
  <2>6. s.rev = again.rev
    <3>1. /\ DOMAIN s.rev = DOMAIN again.rev /\ \A o \in DOMAIN s.rev : s.rev[o] = again.rev[o]
      BY <2>2, <2>5 DEF Complete, Named
    <3>2. QED
      BY <2>2, <2>5, <3>1 DEF Complete, Named, IsFunction
  <2>7. ASSUME NEW i \in DOMAIN s.owners, i \notin lost, NEW m \in Modules
        PROVE  C!GetCapabilityName(s, m, capMap[i]) = C!GetCapabilityName(again, m, addr[i])
    <3>1. capMap[i][1] = i /\ addr[i][1] = i
      BY <1>1, <2>2, <2>3, <2>7 DEF Complete, Reached, MapSound, Mapped
    <3>2. ASSUME NEW n
          PROVE  n \in C!GetCapabilityName(s, m, capMap[i])
                    <=> n \in C!GetCapabilityName(again, m, addr[i])
      <4>1. n \in C!GetCapabilityName(s, m, capMap[i]) <=> <<m, n>> \in s.owners[i]
        BY <2>2, <2>4, <2>7, <3>1, NamesDetermined
      <4>2. n \in C!GetCapabilityName(again, m, addr[i]) <=> <<m, n>> \in s.owners[i]
        <5>1. i \in DOMAIN again.owners /\ i \notin {} /\ Registered(again.owners, s.index)
          BY <2>4, <2>5, <2>7
        <5>2. Complete(again, addr, {}) /\ addr[i][1] = i
          BY <2>5, <3>1
        <5>3. n \in C!GetCapabilityName(again, m, addr[i]) <=> <<m, n>> \in again.owners[i]
          <6>1. PICK gone : gone = {}
            OBVIOUS
          <6>2. Complete(again, addr, gone) /\ i \notin gone
            BY <5>2, <6>1
          <6>3. QED
            BY <5>1, <5>2, <6>2, NamesDetermined
        <5>4. QED
          BY <2>5, <5>3
      <4>3. QED
        BY <4>1, <4>2
    <3>3. QED
      BY <3>2
  <2>8. QED
    BY <2>6, <2>7
<1>9. QED
  BY <1>5, <1>7, <1>8

\* The inductive invariant of the capability keeper, through transactions that
\* fail after a release and simulations beside them: the committed state, the
\* state of the block and that of the delivered transaction agree with the map
\* but for what is lost, and the block also but for what the transaction took
\* out of the map.
THEOREM CapabilityInvHolds ==
    ASSUME Rules
    PROVE  C!Spec => []CapabilityInv
<1>1. C!Init => CapabilityInv
  BY CapabilityInvInit
<1>2. CapabilityInv /\ [C!Next]_(C!vars) => CapabilityInv'
  BY CapabilityInvStep
<1>3. QED
  BY <1>1, <1>2, PTL DEF C!Spec

\* Where modules claim a capability once and under a free name: no capability is
\* kept without an owner, and except for those a failed or simulated transaction
\* took from the map since the last restart, or that were claimed after their
\* release, GetCapability never panics, every owner authenticates what it owns,
\* and a restart changes no answer.
THEOREM CapabilitiesSafe ==
    ASSUME Rules
    PROVE  C!Spec => [](C!TypeOK /\ C!NeverMissing /\ C!OwnersAuthenticate /\ C!RestartInvisible)
<1>1. CapabilityInv => C!TypeOK /\ C!NeverMissing /\ C!OwnersAuthenticate /\ C!RestartInvisible
  BY CapabilityInvImplies
<1>2. QED
  BY <1>1, CapabilityInvHolds, PTL

-----------------------------------------------------------------------------
(* Slashing *)

\* Slashing counts as the theorems on finite sets do.
LEMMA SlashingCounts == \A S : L!Cardinality(S) = Cardinality(S)
  BY DEF L!Cardinality, Cardinality

-----------------------------------------------------------------------------
(* Arithmetic *)

\* A multiple of W between -W and W is zero.
LEMMA NoMultiple ==
    ASSUME NEW W \in Nat \ {0}, NEW d \in Int, d * W < W, -W < d * W
    PROVE  d = 0
<1>1. CASE d >= 1
  <2>1. PICK e \in Nat : d = e + 1
    BY <1>1
  <2>2. d * W = e * W + W /\ e * W >= 0
    BY <2>1
  <2>3. QED
    BY <2>1, <2>2
<1>2. CASE d <= -1
  <2>1. PICK e \in Nat : d = -e - 1
    <3>1. -d - 1 \in Nat /\ d = -(-d - 1) - 1
      BY <1>2
    <3>2. QED
      BY <3>1
  <2>2. d * W = -(e * W) - W /\ e * W >= 0
    BY <2>1
  <2>3. QED
    BY <2>1, <2>2
<1>3. QED
  BY <1>1, <1>2

\* The remainder is determined by its range.
LEMMA ModUnique ==
    ASSUME NEW W \in Nat \ {0}, NEW o \in Nat, NEW q \in Int, NEW r \in 0 .. (W - 1), o = q * W + r
    PROVE  o % W = r
<1> DEFINE p == o \div W
           t == o % W
<1>1. p \in Int /\ t \in 0 .. (W - 1) /\ o = W * p + t
  OBVIOUS
<1> HIDE DEF p, t
<1>2. (q - p) * W = q * W - p * W /\ p * W = W * p
  BY <1>1
<1>3. q * W \in Int /\ W * p \in Int
  BY <1>1
<1>4. (q - p) * W = t - r
  BY <1>1, <1>2, <1>3
<1>5. q - p = 0
  BY <1>1, <1>4, NoMultiple
<1>6. t - r = 0
  BY <1>4, <1>5, <1>1
<1>7. t = r
  BY <1>1, <1>6
<1>8. QED
  BY <1>7 DEF t

\* A small number is its own remainder.
LEMMA ModSmall ==
    ASSUME NEW W \in Nat \ {0}, NEW o \in 0 .. (W - 1)
    PROVE  o % W = o
<1>1. o = 0 * W + o /\ o \in Nat
  OBVIOUS
<1>2. QED
  BY <1>1, ModUnique

\* The index of the next block in the circular array.
LEMMA ModFacts ==
    ASSUME NEW W \in Nat \ {0}, NEW o \in Nat
    PROVE  /\ o % W \in 0 .. (W - 1)
           /\ (o + 1) % W = IF (o % W) + 1 = W THEN 0 ELSE (o % W) + 1
           /\ o < W => o % W = o
           /\ 0 % W = 0
<1> DEFINE p == o \div W
           t == o % W
<1>1. p \in Int /\ t \in 0 .. (W - 1) /\ o = W * p + t
  OBVIOUS
<1> HIDE DEF p, t
<1>2. /\ W * p = p * W /\ (p + 1) * W = p * W + W /\ p * W \in Int
  BY <1>1
<1>3. CASE t + 1 = W
  <2>1. PICK r \in 0 .. (W - 1), q \in Int : r = 0 /\ q = p + 1 /\ o + 1 = q * W + r
    BY <1>1, <1>2, <1>3
  <2>2. (o + 1) % W = r
    <3>1. o + 1 \in Nat
      OBVIOUS
    <3>2. QED
      BY <2>1, <3>1, ModUnique
  <2>3. QED
    BY <1>1, <1>3, <2>1, <2>2, ModSmall DEF t
<1>4. CASE t + 1 # W
  <2>1. o + 1 = p * W + (t + 1) /\ t + 1 \in 0 .. (W - 1)
    BY <1>1, <1>2, <1>4
  <2>2. (o + 1) % W = t + 1
    BY <1>1, <2>1, ModUnique
  <2>3. QED
    BY <1>1, <1>4, <2>2, ModSmall DEF t
<1>5. QED
  BY <1>3, <1>4

-----------------------------------------------------------------------------
(* The window of votes *)

\* The vote cast j votes ago is at this index, where the next one goes to r.
Index(r, j, W) == IF j <= r THEN r - j ELSE r - j + W

\* The bits b are the misses among the votes v, of which o were cast.
Window(b, v, o, W) ==
    /\ v \in Seq(BOOLEAN)
    /\ Len(v) = IF o < W THEN o ELSE W
    /\ \A i : i \in b <=> \E j \in 1 .. Len(v) : v[j] = TRUE /\ i = Index(o % W, j, W)

\* Different votes are at different indices.
LEMMA IndexFacts ==
    ASSUME NEW W \in Nat \ {0}, NEW r \in 0 .. (W - 1)
    PROVE  /\ \A j \in 1 .. W : Index(r, j, W) \in 0 .. (W - 1)
           /\ \A j, k \in 1 .. W : Index(r, j, W) = Index(r, k, W) => j = k
           /\ Index(r, W, W) = r
  BY DEF Index

\* One vote more moves the others back by one.
LEMMA IndexNext ==
    ASSUME NEW W \in Nat \ {0}, NEW r \in 0 .. (W - 1),
           NEW s, s = IF r + 1 = W THEN 0 ELSE r + 1
    PROVE  /\ Index(s, 1, W) = r
           /\ \A j \in 1 .. (W - 1) : Index(s, j + 1, W) = Index(r, j, W)
  BY DEF Index

\* The smaller of two numbers.
LEMMA MinFacts ==
    ASSUME NEW m \in Int, NEW n \in Int
    PROVE  L!Min({m, n}) = IF m <= n THEN m ELSE n
<1> DEFINE z == IF m <= n THEN m ELSE n
<1>1. z \in {m, n} /\ \A y \in {m, n} : z <= y
  OBVIOUS
<1>2. \A x \in {m, n} : (\A y \in {m, n} : x <= y) => x = z
  OBVIOUS
<1>3. QED
  BY <1>1, <1>2 DEF L!Min

\* The first elements of a sequence.
LEMMA PrefixFacts ==
    ASSUME NEW v \in Seq(BOOLEAN), NEW n \in Nat
    PROVE  /\ L!Prefix(v, n) \in Seq(BOOLEAN)
           /\ Len(L!Prefix(v, n)) = IF n <= Len(v) THEN n ELSE Len(v)
           /\ \A j \in 1 .. Len(L!Prefix(v, n)) : L!Prefix(v, n)[j] = v[j]
           /\ Len(v) <= n => L!Prefix(v, n) = v
<1> DEFINE k == L!Min({n, Len(v)})
<1>1. Len(v) \in Nat /\ k = IF n <= Len(v) THEN n ELSE Len(v)
  BY MinFacts
<1> HIDE DEF k
<1>2. k \in 0 .. Len(v)
  BY <1>1
<1>3. /\ SubSeq(v, 1, k) \in Seq(BOOLEAN) /\ Len(SubSeq(v, 1, k)) = k
      /\ \A j \in 1 .. k : SubSeq(v, 1, k)[j] = v[j]
  BY <1>1, <1>2
<1>4. L!Prefix(v, n) = SubSeq(v, 1, k)
  BY DEF L!Prefix, k
<1>5. Len(v) <= n => SubSeq(v, 1, k) = v
  BY <1>1, <1>3
<1>6. QED
  BY <1>1, <1>3, <1>4, <1>5

\* A vote in front of the others.
LEMMA ConsFacts ==
    ASSUME NEW v \in Seq(BOOLEAN), NEW b \in BOOLEAN
    PROVE  /\ <<b>> \o v \in Seq(BOOLEAN) /\ Len(<<b>> \o v) = Len(v) + 1
           /\ (<<b>> \o v)[1] = b
           /\ \A j \in 1 .. Len(v) : (<<b>> \o v)[j + 1] = v[j]
  OBVIOUS

\* The window after one vote more: the bit that is overwritten is that of the
\* vote that leaves the window.
LEMMA WindowNext ==
    ASSUME NEW W \in Nat \ {0}, NEW o \in Nat, NEW b, NEW v, Window(b, v, o, W), NEW miss \in BOOLEAN,
           NEW c, c = IF miss THEN b \cup {o % W} ELSE b \ {o % W},
           NEW w, w = L!Prefix(<<miss>> \o v, W)
    PROVE  Window(c, w, o + 1, W)
<1> DEFINE r == o % W
           s == (o + 1) % W
<1>1. /\ r \in 0 .. (W - 1) /\ s = IF r + 1 = W THEN 0 ELSE r + 1
      /\ o < W => r = o
  BY ModFacts
<1> HIDE DEF r, s
<1>2. v \in Seq(BOOLEAN) /\ Len(v) \in Nat /\ Len(v) = IF o < W THEN o ELSE W
  BY DEF Window
<1> DEFINE u == <<miss>> \o v
<1>3. /\ u \in Seq(BOOLEAN) /\ Len(u) = Len(v) + 1 /\ u[1] = miss
      /\ \A j \in 1 .. Len(v) : u[j + 1] = v[j]
  BY <1>2, ConsFacts
<1> HIDE DEF u
<1>4. /\ w \in Seq(BOOLEAN) /\ Len(w) = IF W <= Len(u) THEN W ELSE Len(u)
      /\ \A j \in 1 .. Len(w) : w[j] = u[j]
  BY <1>3, PrefixFacts DEF u
<1>5. Len(w) = (IF o + 1 < W THEN o + 1 ELSE W) /\ Len(w) \in Nat /\ Len(w) >= 1
  BY <1>2, <1>3, <1>4
<1>6. \A i : i \in b <=> \E j \in 1 .. Len(v) : v[j] = TRUE /\ i = Index(r, j, W)
  BY DEF Window, r
<1>7. \A i : i \in c <=> IF i = r THEN miss = TRUE ELSE i \in b
  BY DEF r
<1>8. /\ Index(s, 1, W) = r
      /\ \A j \in 1 .. (W - 1) : Index(s, j + 1, W) = Index(r, j, W)
  BY <1>1, IndexNext
<1>9. w[1] = miss /\ \A j \in 1 .. (Len(w) - 1) : w[j + 1] = v[j] /\ j \in 1 .. Len(v) /\ j \in 1 .. (W - 1)
  <2>1. w[1] = miss
    BY <1>3, <1>4, <1>5
  <2>2. ASSUME NEW j \in 1 .. (Len(w) - 1) PROVE w[j + 1] = v[j] /\ j \in 1 .. Len(v) /\ j \in 1 .. (W - 1)
    <3>1. j \in 1 .. Len(v) /\ j \in 1 .. (W - 1) /\ j + 1 \in 1 .. Len(w)
      BY <1>2, <1>5
    <3>2. QED
      BY <1>3, <1>4, <3>1
  <2>3. QED
    BY <2>1, <2>2
<1>10. ASSUME NEW i, i \in c PROVE \E j \in 1 .. Len(w) : w[j] = TRUE /\ i = Index(s, j, W)
  <2>1. CASE i = r
    <3>1. w[1] = TRUE /\ i = Index(s, 1, W) /\ 1 \in 1 .. Len(w)
      BY <1>5, <1>7, <1>8, <1>9, <1>10, <2>1
    <3>2. QED
      BY <3>1
  <2>2. CASE i # r
    <3>1. PICK j \in 1 .. Len(v) : v[j] = TRUE /\ i = Index(r, j, W)
      BY <1>6, <1>7, <1>10, <2>2
    <3>2. j # W
      BY <1>1, <2>2, <3>1, IndexFacts
    <3>3. j \in 1 .. (Len(w) - 1)
      BY <1>2, <1>5, <3>1, <3>2
    <3>4. j + 1 \in 1 .. Len(w) /\ w[j + 1] = TRUE /\ i = Index(s, j + 1, W)
      <4>1. j + 1 \in 1 .. Len(w)
        BY <1>5, <3>3
      <4>2. w[j + 1] = v[j] /\ j \in 1 .. (W - 1)
        BY <1>9, <3>3
      <4>3. Index(s, j + 1, W) = Index(r, j, W)
        BY <1>8, <4>2
      <4>4. QED
        BY <3>1, <4>1, <4>2, <4>3
    <3>5. QED
      BY <3>4
  <2>3. QED
    BY <2>1, <2>2
<1>11. ASSUME NEW i, NEW j \in 1 .. Len(w), w[j] = TRUE, i = Index(s, j, W) PROVE i \in c
  <2>1. CASE j = 1
    BY <1>7, <1>8, <1>9, <1>11, <2>1
  <2>2. CASE j # 1
    <3>1. PICK k \in 1 .. (Len(w) - 1) : j = k + 1
      <4>1. j - 1 \in 1 .. (Len(w) - 1) /\ j = (j - 1) + 1
        BY <1>5, <2>2
      <4>2. QED
        BY <4>1
    <3>2. v[k] = TRUE /\ i = Index(r, k, W) /\ k \in 1 .. Len(v) /\ k \in 1 .. (W - 1)
      BY <1>8, <1>9, <1>11, <3>1
    <3>3. i # r
      BY <1>1, <3>2, IndexFacts
    <3>4. QED
      BY <1>6, <1>7, <3>2, <3>3
  <2>3. QED
    BY <2>1, <2>2
<1>12. \A i : i \in c <=> \E j \in 1 .. Len(w) : w[j] = TRUE /\ i = Index((o + 1) % W, j, W)
  BY <1>10, <1>11 DEF s
<1>13. QED
  BY <1>4, <1>5, <1>12 DEF Window

\* As many bits are set as votes in the window are misses.
LEMMA WindowCount ==
    ASSUME NEW W \in Nat \ {0}, NEW o \in Nat, NEW b, NEW v, Window(b, v, o, W)
    PROVE  L!Misses(v) = Cardinality(b) /\ IsFiniteSet(b)
<1> DEFINE r == o % W
           J == {j \in DOMAIN v : v[j]}
           f == [j \in J |-> Index(r, j, W)]
<1>1. v \in Seq(BOOLEAN) /\ Len(v) \in Nat /\ Len(v) <= W /\ DOMAIN v = 1 .. Len(v)
  BY DEF Window
<1>2. r \in 0 .. (W - 1)
  BY ModFacts
<1>3. J = {j \in 1 .. Len(v) : v[j] = TRUE} /\ J \subseteq 1 .. Len(v) /\ J \subseteq 1 .. W
  BY <1>1
<1>4. IsFiniteSet(J)
  <2>1. IsFiniteSet(1 .. Len(v))
    BY <1>1, FS_Interval
  <2> HIDE DEF J
  <2>2. QED
    BY <1>3, <2>1, FS_Subset
<1>5. \A i : i \in b <=> \E j \in J : i = Index(r, j, W)
  <2>1. \A i : i \in b <=> \E j \in 1 .. Len(v) : v[j] = TRUE /\ i = Index(r, j, W)
    BY DEF Window
  <2> HIDE DEF r
  <2>2. QED
    BY <1>3, <2>1
<1> HIDE DEF J, r
<1>6. f \in Bijection(J, b)
  <2>1. f \in [J -> b]
    BY <1>5
  <2>2. \A j, k \in J : f[j] = f[k] => j = k
    <3>1. \A j, k \in 1 .. W : Index(r, j, W) = Index(r, k, W) => j = k
      BY <1>2, IndexFacts
    <3>2. SUFFICES ASSUME NEW j \in J, NEW k \in J, f[j] = f[k] PROVE j = k
      BY Zenon
    <3>3. j \in 1 .. W /\ k \in 1 .. W
      BY <1>3
    <3>4. Index(r, j, W) = Index(r, k, W)
      BY <3>2
    <3>5. QED
      BY <3>1, <3>3, <3>4
  <2>3. \A i \in b : \E j \in J : f[j] = i
    BY <1>5
  <2> HIDE DEF f
  <2>4. f \in Injection(J, b)
    BY <2>1, <2>2 DEF Injection, IsInjective
  <2>5. f \in Surjection(J, b)
    BY <2>1, <2>3 DEF Surjection
  <2>6. QED
    BY <2>4, <2>5 DEF Bijection
<1>7. Cardinality(J) = Cardinality(b) /\ IsFiniteSet(b)
  BY <1>4, <1>6, FS_Bijection DEF ExistsBijection
<1>8. QED
  BY <1>7, SlashingCounts DEF L!Misses, J

\* A vote in front of the window of the others is the window with it.
LEMMA PrefixOfCons ==
    ASSUME NEW W \in Nat \ {0}, NEW v \in Seq(BOOLEAN), NEW b \in BOOLEAN
    PROVE  L!Prefix(<<b>> \o v, W) = <<b>> \o L!Prefix(v, W - 1)
<1> DEFINE u == <<b>> \o v
           p == L!Prefix(v, W - 1)
           x == L!Prefix(u, W)
           y == <<b>> \o p
<1>1. W - 1 \in Nat /\ Len(v) \in Nat
  OBVIOUS
<1>2. /\ u \in Seq(BOOLEAN) /\ Len(u) = Len(v) + 1 /\ u[1] = b
      /\ \A j \in 1 .. Len(v) : u[j + 1] = v[j]
  BY ConsFacts
<1>3. /\ p \in Seq(BOOLEAN) /\ Len(p) = (IF W - 1 <= Len(v) THEN W - 1 ELSE Len(v))
      /\ \A j \in 1 .. Len(p) : p[j] = v[j]
  BY <1>1, PrefixFacts
<1> HIDE DEF u, p
<1>4. /\ x \in Seq(BOOLEAN) /\ Len(x) = (IF W <= Len(u) THEN W ELSE Len(u))
      /\ \A j \in 1 .. Len(x) : x[j] = u[j]
  BY <1>2, PrefixFacts
<1>5. /\ y \in Seq(BOOLEAN) /\ Len(y) = Len(p) + 1 /\ y[1] = b
      /\ \A j \in 1 .. Len(p) : y[j + 1] = p[j]
  BY <1>3, ConsFacts
<1> HIDE DEF x, y
<1>6. Len(x) = Len(y) /\ Len(x) \in Nat /\ Len(p) \in Nat /\ Len(x) = Len(p) + 1
  BY <1>1, <1>2, <1>3, <1>4, <1>5
<1>7. ASSUME NEW j \in 1 .. Len(x) PROVE x[j] = y[j]
  <2>1. CASE j = 1
    BY <1>2, <1>4, <1>5, <1>7, <2>1
  <2>2. CASE j # 1
    <3>1. PICK k \in 1 .. Len(p) : j = k + 1
      <4>1. j - 1 \in 1 .. Len(p) /\ j = (j - 1) + 1
        BY <1>6, <2>2
      <4>2. QED
        BY <4>1
    <3>2. k \in 1 .. Len(v)
      BY <1>1, <1>3, <3>1
    <3>3. x[j] = v[k]
      BY <1>2, <1>4, <1>7, <3>1, <3>2
    <3>4. y[j] = v[k]
      BY <1>3, <1>5, <3>1
    <3>5. QED
      BY <3>3, <3>4
  <2>3. QED
    BY <2>1, <2>2
<1>8. x = y
  BY <1>4, <1>5, <1>6, <1>7
<1>9. QED
  BY <1>8 DEF x, y, u, p

\* A miss in front counts for at least as much as a vote.
LEMMA MissCounts ==
    ASSUME NEW v \in Seq(BOOLEAN), NEW b \in BOOLEAN
    PROVE  /\ L!Misses(<<b>> \o v) <= L!Misses(<<TRUE>> \o v)
           /\ L!Misses(<<b>> \o v) \in Nat /\ L!Misses(<<TRUE>> \o v) \in Nat
<1> DEFINE x == <<b>> \o v
           y == <<TRUE>> \o v
           A == {i \in DOMAIN x : x[i]}
           B == {i \in DOMAIN y : y[i]}
<1>1. Len(v) \in Nat /\ Len(v) + 1 \in Int
  OBVIOUS
<1>2. x \in Seq(BOOLEAN) /\ DOMAIN x = 1 .. (Len(v) + 1) /\ \A j \in 1 .. Len(v) : x[j + 1] = v[j]
  BY <1>1, ConsFacts
<1>3. /\ y \in Seq(BOOLEAN) /\ DOMAIN y = 1 .. (Len(v) + 1) /\ \A j \in 1 .. Len(v) : y[j + 1] = v[j]
      /\ y[1] = TRUE
  BY <1>1, ConsFacts
<1> HIDE DEF x, y
<1>4. \A j \in 1 .. (Len(v) + 1) : x[j] => y[j]
  <2>1. TAKE j \in 1 .. (Len(v) + 1)
  <2>2. CASE j = 1
    BY <1>3, <2>2
  <2>3. CASE j # 1
    <3>1. PICK k \in 1 .. Len(v) : j = k + 1
      <4>1. j - 1 \in 1 .. Len(v) /\ j = (j - 1) + 1
        BY <1>1, <2>3
      <4>2. QED
        BY <4>1
    <3>2. QED
      BY <1>2, <1>3, <3>1
  <2>4. QED
    BY <2>2, <2>3
<1>5. A \subseteq B /\ B \subseteq 1 .. (Len(v) + 1)
  BY <1>2, <1>3, <1>4
<1>6. IsFiniteSet(1 .. (Len(v) + 1))
  BY <1>1, FS_Interval
<1> HIDE DEF A, B
<1>7. IsFiniteSet(B)
  BY <1>5, <1>6, FS_Subset
<1>8. IsFiniteSet(A) /\ Cardinality(A) <= Cardinality(B)
  BY <1>5, <1>7, FS_Subset
<1>9. Cardinality(A) \in Nat /\ Cardinality(B) \in Nat
  BY <1>7, <1>8, FS_CardinalityType
<1>10. QED
  BY <1>8, <1>9, SlashingCounts DEF L!Misses, A, B, x, y

-----------------------------------------------------------------------------
(* The signing record *)

SigningInfos == [start : Nat, offset : Nat, missed : Nat, until : Nat]

\* A validator that votes has a signing record; one without it has no bits.  The
\* counter is the number of bits.
RecordInv ==
    /\ height \in Nat /\ inBlock \in BOOLEAN /\ window \in Windows
    /\ info \in SigningInfos \cup {L!NoInfo}
    /\ IsFiniteSet(bits)
    /\ info = L!NoInfo => bits = {} /\ votes = <<>>
    /\ info # L!NoInfo => info.missed = Cardinality(bits)
    /\ val \in [stored : BOOLEAN, jailed : BOOLEAN, bonded : BOOLEAN]
    /\ val.bonded => val.stored /\ info # L!NoInfo
    /\ sets \in BOOLEAN \X BOOLEAN \X BOOLEAN
    /\ sets[1] \/ sets[2] \/ sets[3] => info # L!NoInfo

\* With one window: the bits are the misses among the votes kept.
WindowInv == info # L!NoInfo => Window(bits, votes, info.offset, window)

\* A record is there.
LEMMA InfoIsSome ==
    ASSUME NEW r \in SigningInfos
    PROVE  r # L!NoInfo
<1>1. DOMAIN r = {"start", "offset", "missed", "until"}
  BY DEF SigningInfos
<1>2. DOMAIN L!NoInfo = {}
  BY DEF L!NoInfo
<1>3. QED
  BY <1>1, <1>2

\* The counter follows the bit.
LEMMA CounterFollows ==
    ASSUME IsFiniteSet(bits), info.missed = Cardinality(bits), NEW i, NEW signed \in BOOLEAN,
           NEW c, c = IF signed THEN bits \ {i} ELSE bits \cup {i}
    PROVE  IsFiniteSet(c) /\ L!UpdatedCounter(i, signed) = Cardinality(c) /\ Cardinality(c) \in Nat
<1>1. Cardinality(bits) \in Nat
  BY FS_CardinalityType
<1>2. CASE signed
  <2>1. IsFiniteSet(c) /\ Cardinality(c) = IF i \in bits THEN Cardinality(bits) - 1 ELSE Cardinality(bits)
    BY <1>2, FS_RemoveElement
  <2>2. L!UpdatedCounter(i, signed) = Cardinality(c)
    BY <1>1, <1>2, <2>1 DEF L!UpdatedCounter
  <2>3. QED
    BY <2>1, <2>2, FS_CardinalityType
<1>3. CASE ~signed
  <2>1. IsFiniteSet(c) /\ Cardinality(c) = IF i \in bits THEN Cardinality(bits) ELSE Cardinality(bits) + 1
    BY <1>3, FS_AddElement
  <2>2. L!UpdatedCounter(i, signed) = Cardinality(c)
    BY <1>1, <1>3, <2>1 DEF L!UpdatedCounter
  <2>3. QED
    BY <2>1, <2>2, FS_CardinalityType
<1>4. QED
  BY <1>2, <1>3

\* The initial states.
LEMMA RecordInvInit ==
    ASSUME L!SlashingConstants, L!Init
    PROVE  RecordInv
<1>1. PICK old \in BOOLEAN :
          /\ val = [stored |-> old, jailed |-> FALSE, bonded |-> old]
          /\ sets = <<old, old, FALSE>>
          /\ info = IF old THEN L!NewValidatorSigningInfo ELSE L!NoInfo
  BY DEF L!Init
<1>2. L!NewValidatorSigningInfo \in SigningInfos /\ L!NewValidatorSigningInfo.missed = 0
  BY DEF L!Init, L!NewValidatorSigningInfo, SigningInfos
<1>3. L!NewValidatorSigningInfo # L!NoInfo
  BY <1>2, InfoIsSome
<1>4. IsFiniteSet(bits) /\ Cardinality(bits) = 0 /\ bits = {} /\ votes = <<>>
  BY FS_EmptySet DEF L!Init
<1>5. height \in Nat /\ inBlock \in BOOLEAN /\ window \in Windows
  BY DEF L!Init, L!SlashingConstants
<1>6. info # L!NoInfo => info.missed = Cardinality(bits)
  BY <1>1, <1>2, <1>4
<1>7. /\ sets \in BOOLEAN \X BOOLEAN \X BOOLEAN
      /\ sets[1] \/ sets[2] \/ sets[3] => info # L!NoInfo
  BY <1>1, <1>3
<1>8. /\ val \in [stored : BOOLEAN, jailed : BOOLEAN, bonded : BOOLEAN]
      /\ val.bonded => val.stored /\ info # L!NoInfo
  BY <1>1, <1>3
<1>9. info \in SigningInfos \cup {L!NoInfo}
  BY <1>1, <1>2
<1>10. QED
  BY <1>4, <1>5, <1>6, <1>7, <1>8, <1>9 DEF RecordInv

\* What a vote does to the record: it is a record still, with as many misses as
\* bits.
LEMMA SignatureStep ==
    ASSUME L!SlashingConstants, RecordInv, height' \in Nat, info # L!NoInfo,
           NEW signed \in BOOLEAN, L!HandleValidatorSignature(signed)
    PROVE  /\ info' \in SigningInfos /\ IsFiniteSet(bits') /\ info'.missed = Cardinality(bits')
           /\ val' \in [stored : BOOLEAN, jailed : BOOLEAN, bonded : BOOLEAN]
           /\ val'.bonded = val.bonded /\ val'.stored = val.stored
<1> DEFINE i == info.offset % window
           c == IF signed THEN bits \ {i} ELSE bits \cup {i}
           missed == L!UpdatedCounter(i, signed)
<1>1. info \in SigningInfos /\ IsFiniteSet(bits) /\ info.missed = Cardinality(bits)
  BY DEF RecordInv
<1>2. val \in [stored : BOOLEAN, jailed : BOOLEAN, bonded : BOOLEAN]
  BY DEF RecordInv
<1>3. IsFiniteSet(c) /\ missed = Cardinality(c) /\ missed \in Nat
  BY <1>1, CounterFollows
<1>4. CASE L!Punished(missed)
  <2>1. /\ val' = [val EXCEPT !.jailed = TRUE] /\ bits' = {}
        /\ info' = [info EXCEPT !.until = height' + DowntimeJailDuration, !.missed = 0, !.offset = 0]
    BY <1>4 DEF L!HandleValidatorSignature, L!clearValidatorMissedBlockBitArray
  <2>2. height' + DowntimeJailDuration \in Nat
    <3>1. DowntimeJailDuration \in Nat
      BY DEF L!SlashingConstants
    <3>2. \A h \in Nat : h + DowntimeJailDuration \in Nat
      BY <3>1
    <3>3. QED
      BY <3>2, Zenon
  <2>3. info' \in SigningInfos /\ info'.missed = 0
    BY <1>1, <2>1, <2>2 DEF SigningInfos
  <2>4. IsFiniteSet(bits') /\ Cardinality(bits') = 0
    BY <2>1, FS_EmptySet
  <2>5. QED
    BY <1>2, <2>1, <2>3, <2>4
<1>5. CASE ~L!Punished(missed)
  <2>1. val' = val /\ info' = [info EXCEPT !.offset = @ + 1, !.missed = missed] /\ bits' = c
    BY <1>5 DEF L!HandleValidatorSignature
  <2> HIDE DEF missed, c
  <2>2. info' \in SigningInfos /\ info'.missed = missed
    <3>1. info.offset \in Nat /\ info.offset + 1 \in Nat /\ missed \in Nat
      BY <1>1, <1>3 DEF SigningInfos
    <3>2. QED
      BY <1>1, <2>1, <3>1 DEF SigningInfos
  <2>3. QED
    BY <1>2, <1>3, <2>1, <2>2
<1>6. QED
  BY <1>4, <1>5

\* BeginBlock keeps the record.
LEMMA RecordBeginBlock ==
    ASSUME L!SlashingConstants, RecordInv, L!BeginBlock
    PROVE  RecordInv'
<1>1. height' \in Nat /\ inBlock' \in BOOLEAN /\ window' \in Windows /\ sets' = sets
  BY DEF L!BeginBlock, RecordInv
<1>2. CASE sets[3]
  <2>1. PICK signed \in BOOLEAN : L!HandleValidatorSignature(signed)
    BY <1>2 DEF L!BeginBlock
  <2>2. info # L!NoInfo
    BY <1>2 DEF RecordInv
  <2>3. /\ info' \in SigningInfos /\ IsFiniteSet(bits') /\ info'.missed = Cardinality(bits')
        /\ val' \in [stored : BOOLEAN, jailed : BOOLEAN, bonded : BOOLEAN]
        /\ val'.bonded = val.bonded /\ val'.stored = val.stored
    BY <1>1, <2>1, <2>2, SignatureStep
  <2>4. info' # L!NoInfo
    BY <2>3, InfoIsSome
  <2>5. val'.bonded => val'.stored
    BY <2>3 DEF RecordInv
  <2>6. sets' \in BOOLEAN \X BOOLEAN \X BOOLEAN
    BY <1>1 DEF RecordInv
  <2>7. L!NoInfo' = L!NoInfo
    BY DEF L!NoInfo
  <2>8. QED
    BY <1>1, <2>3, <2>4, <2>5, <2>6, <2>7 DEF RecordInv
<1>3. CASE ~sets[3]
  BY <1>1, <1>3 DEF L!BeginBlock, RecordInv, L!NoInfo
<1>4. QED
  BY <1>2, <1>3

\* The messages and x/staking keep the record.
LEMMA RecordInBlock ==
    ASSUME L!SlashingConstants, RecordInv, L!Unjail \/ L!SetParams \/ L!RemoveValidator \/ L!CreateValidator
    PROVE  RecordInv'
<1>1. CASE L!Unjail
  BY <1>1 DEF L!Unjail, RecordInv, L!NoInfo
<1>2. CASE L!SetParams
  BY <1>2 DEF L!SetParams, RecordInv, L!NoInfo
<1>3. CASE L!RemoveValidator
  BY <1>3 DEF L!RemoveValidator, RecordInv, L!NoInfo
<1>4. CASE L!CreateValidator
  BY <1>4 DEF L!CreateValidator, RecordInv, L!NoInfo
<1>5. QED
  BY <1>1, <1>2, <1>3, <1>4

\* EndBlock keeps the record: who enters the set gets one.
LEMMA RecordEndBlock ==
    ASSUME L!SlashingConstants, RecordInv, L!EndBlock
    PROVE  RecordInv'
<1>1. PICK b \in BOOLEAN :
          /\ b => val.stored /\ ~val.jailed
          /\ val' = [val EXCEPT !.bonded = b]
          /\ sets' = <<b, sets[1], sets[2]>>
          /\ IF b /\ ~val.bonded THEN L!AfterValidatorBonded ELSE info' = info
  BY DEF L!EndBlock
<1>2. /\ height' = height /\ inBlock' = FALSE /\ window' = window /\ bits' = bits /\ votes' = votes
  BY DEF L!EndBlock
<1>3. L!NewValidatorSigningInfo \in SigningInfos /\ L!NewValidatorSigningInfo.missed = 0
  BY DEF RecordInv, L!NewValidatorSigningInfo, SigningInfos
<1>4. L!NewValidatorSigningInfo # L!NoInfo
  BY <1>3, InfoIsSome
<1>5. info' \in {info, L!NewValidatorSigningInfo} /\ (info # L!NoInfo => info' = info)
  BY <1>1 DEF L!AfterValidatorBonded
<1>6. b => info' # L!NoInfo
  BY <1>1, <1>4 DEF L!AfterValidatorBonded, RecordInv
<1>7. /\ sets' \in BOOLEAN \X BOOLEAN \X BOOLEAN
      /\ sets'[1] \/ sets'[2] \/ sets'[3] => info' # L!NoInfo
  BY <1>1, <1>5, <1>6 DEF RecordInv
<1>8. /\ val' \in [stored : BOOLEAN, jailed : BOOLEAN, bonded : BOOLEAN]
      /\ val'.bonded => val'.stored /\ info' # L!NoInfo
  BY <1>1, <1>6 DEF RecordInv
<1>9. info' # L!NoInfo => info'.missed = Cardinality(bits')
  <2>1. CASE info # L!NoInfo
    BY <1>2, <1>5, <2>1 DEF RecordInv
  <2>2. CASE info = L!NoInfo
    <3>1. bits' = {} /\ Cardinality({}) = 0
      BY <1>2, <2>2, FS_EmptySet DEF RecordInv
    <3>2. QED
      BY <1>3, <1>5, <2>2, <3>1
  <2>3. QED
    BY <2>1, <2>2
<1>10. info' = L!NoInfo => bits' = {} /\ votes' = <<>>
  BY <1>2, <1>5 DEF RecordInv
<1>11. /\ height' \in Nat /\ inBlock' \in BOOLEAN /\ window' \in Windows
       /\ info' \in SigningInfos \cup {L!NoInfo} /\ IsFiniteSet(bits')
  BY <1>2, <1>3, <1>5 DEF RecordInv
<1>12. L!NoInfo' = L!NoInfo
  BY DEF L!NoInfo
<1>13. QED
  BY <1>7, <1>8, <1>9, <1>10, <1>11, <1>12 DEF RecordInv

\* Every step keeps the record.
LEMMA RecordStep ==
    ASSUME L!SlashingConstants, RecordInv, [L!Next]_(L!vars)
    PROVE  RecordInv'
<1>1. CASE UNCHANGED L!vars
  BY <1>1 DEF L!vars, RecordInv, L!NoInfo
<1>2. CASE L!Next
  BY <1>2, RecordBeginBlock, RecordInBlock, RecordEndBlock DEF L!Next
<1>3. QED
  BY <1>1, <1>2

\* The counter of a record is the number of bits.
LEMMA CounterOfBits == RecordInv => L!CounterIsBits
  BY SlashingCounts DEF RecordInv, L!CounterIsBits

\* Whatever windows governance sets, the counter of a signing record is the number
\* of bits the store holds (HandleValidatorSignature).
THEOREM CountersAreBits ==
    ASSUME L!SlashingConstants
    PROVE  L!Spec => []L!CounterIsBits
<1>1. L!Init => RecordInv
  BY RecordInvInit
<1>2. RecordInv /\ [L!Next]_(L!vars) => RecordInv'
  BY RecordStep
<1>3. RecordInv => L!CounterIsBits
  BY CounterOfBits
<1>4. QED
  BY <1>1, <1>2, <1>3, PTL DEF L!Spec

-----------------------------------------------------------------------------
(* One window *)

\* A window that never changes.
OneWindow(W) == L!SlashingConstants /\ Windows = {W}

\* The largest window is the only one.
LEMMA OnlyWindow ==
    ASSUME NEW W, OneWindow(W), RecordInv
    PROVE  W \in Nat \ {0} /\ window = W /\ L!Max(Windows) = W
<1>1. W \in Nat \ {0} /\ window = W
  BY DEF OneWindow, L!SlashingConstants, RecordInv
<1>2. W \in {W} /\ \A y \in {W} : W >= y
  BY <1>1
<1>3. L!Max({W}) = W
  BY <1>2 DEF L!Max
<1>4. QED
  BY <1>1, <1>3 DEF OneWindow

\* No votes and no bits.
LEMMA WindowEmpty ==
    ASSUME NEW W \in Nat \ {0}
    PROVE  Window({}, <<>>, 0, W)
<1>1. <<>> \in Seq(BOOLEAN) /\ Len(<<>>) = 0 /\ 1 .. 0 = {}
  OBVIOUS
<1>2. QED
  BY <1>1 DEF Window

\* The record after one vote more, before it is known whether it leads to a
\* punishment: the counter is the number of misses in the window of votes.
LEMMA VoteCounted ==
    ASSUME NEW W, OneWindow(W), RecordInv, WindowInv, info # L!NoInfo, NEW signed \in BOOLEAN,
           NEW i, i = info.offset % window,
           NEW c, c = IF signed THEN bits \ {i} ELSE bits \cup {i},
           NEW w, w = L!Prefix(<<~signed>> \o votes, L!Max(Windows))
    PROVE  /\ Window(c, w, info.offset + 1, W)
           /\ L!UpdatedCounter(i, signed) = L!Misses(w)
<1>1. W \in Nat \ {0} /\ window = W /\ L!Max(Windows) = W
  BY OnlyWindow
<1>2. info \in SigningInfos /\ info.offset \in Nat /\ IsFiniteSet(bits) /\ info.missed = Cardinality(bits)
  BY DEF RecordInv, SigningInfos
<1>3. Window(bits, votes, info.offset, W)
  BY <1>1 DEF WindowInv
<1>4. PICK miss \in BOOLEAN : miss = ~signed
  OBVIOUS
<1>5. c = IF miss THEN bits \cup {info.offset % W} ELSE bits \ {info.offset % W}
  BY <1>1, <1>4
<1>6. w = L!Prefix(<<miss>> \o votes, W)
  BY <1>1, <1>4
<1>7. Window(c, w, info.offset + 1, W)
  BY <1>1, <1>2, <1>3, <1>5, <1>6, WindowNext
<1>8. info.offset + 1 \in Nat
  BY <1>2
<1>9. L!Misses(w) = Cardinality(c)
  BY <1>1, <1>7, <1>8, WindowCount
<1>10. L!UpdatedCounter(i, signed) = Cardinality(c)
  BY <1>2, CounterFollows
<1>11. QED
  BY <1>7, <1>9, <1>10

\* What a vote does: a validator that is not to be punished has its window moved
\* on by it, one that is has an empty one.
LEMMA VoteStep ==
    ASSUME NEW W, OneWindow(W), RecordInv, WindowInv, info # L!NoInfo, height' \in Nat,
           NEW signed \in BOOLEAN, L!HandleValidatorSignature(signed)
    PROVE  /\ Window(bits', votes', info'.offset, W)
           /\ \/ /\ L!Punished(L!Misses(L!Prefix(<<~signed>> \o votes, W)))
                 /\ val' = [val EXCEPT !.jailed = TRUE]
              \/ /\ ~L!Punished(L!Misses(votes')) /\ val' = val
<1> DEFINE i == info.offset % window
           c == IF signed THEN bits \ {i} ELSE bits \cup {i}
           w == L!Prefix(<<~signed>> \o votes, L!Max(Windows))
           missed == L!UpdatedCounter(i, signed)
<1>1. Window(c, w, info.offset + 1, W) /\ missed = L!Misses(w)
  BY VoteCounted
<1>2. W \in Nat \ {0} /\ L!Max(Windows) = W
  BY OnlyWindow
<1>3. info \in SigningInfos
  BY DEF RecordInv
<1>4. CASE L!Punished(missed)
  <2>1. /\ val' = [val EXCEPT !.jailed = TRUE] /\ bits' = {} /\ votes' = <<>>
        /\ info' = [info EXCEPT !.until = height' + DowntimeJailDuration, !.missed = 0, !.offset = 0]
    BY <1>4 DEF L!HandleValidatorSignature, L!clearValidatorMissedBlockBitArray
  <2>2. info'.offset = 0
    BY <1>3, <2>1 DEF SigningInfos
  <2>3. Window(bits', votes', info'.offset, W)
    BY <1>2, <2>1, <2>2, WindowEmpty
  <2>4. L!Punished(L!Misses(L!Prefix(<<~signed>> \o votes, W)))
    BY <1>1, <1>2, <1>4
  <2>5. QED
    BY <2>1, <2>3, <2>4
<1>5. CASE ~L!Punished(missed)
  <2>1. /\ val' = val /\ info' = [info EXCEPT !.offset = @ + 1, !.missed = missed]
        /\ bits' = c /\ votes' = w
    BY <1>5 DEF L!HandleValidatorSignature
  <2> HIDE DEF missed, c, w, i
  <2>2. info'.offset = info.offset + 1
    BY <1>3, <2>1 DEF SigningInfos
  <2>3. QED
    BY <1>1, <1>5, <2>1, <2>2
<1>6. QED
  BY <1>4, <1>5

\* The initial states.
LEMMA WindowInvInit ==
    ASSUME NEW W, OneWindow(W), L!Init
    PROVE  WindowInv
<1>1. W \in Nat \ {0} /\ window = W
  BY DEF OneWindow, L!SlashingConstants, L!Init
<1>2. bits = {} /\ votes = <<>>
  BY DEF L!Init
<1>3. info # L!NoInfo => info.offset = 0
  BY DEF L!Init, L!NewValidatorSigningInfo
<1>4. QED
  BY <1>1, <1>2, <1>3, WindowEmpty DEF WindowInv

\* Every step keeps the window.
LEMMA WindowStep ==
    ASSUME NEW W, OneWindow(W), RecordInv, WindowInv, [L!Next]_(L!vars)
    PROVE  WindowInv'
<1>1. W \in Nat \ {0} /\ window = W
  BY OnlyWindow
<1>2. RecordInv' /\ window' = W /\ L!NoInfo' = L!NoInfo
  <2>1. RecordInv'
    BY RecordStep DEF OneWindow
  <2>2. QED
    BY <2>1 DEF OneWindow, RecordInv, L!NoInfo
<1>3. CASE L!BeginBlock /\ sets[3]
  <2>1. PICK signed \in BOOLEAN : L!HandleValidatorSignature(signed)
    BY <1>3 DEF L!BeginBlock
  <2>2. info # L!NoInfo /\ height' \in Nat
    BY <1>2, <1>3 DEF RecordInv
  <2>3. Window(bits', votes', info'.offset, W)
    BY <2>1, <2>2, VoteStep
  <2>4. QED
    BY <1>2, <2>3 DEF WindowInv
<1>4. CASE UNCHANGED <<info, bits, votes>>
  BY <1>1, <1>2, <1>4 DEF WindowInv
<1>5. CASE L!EndBlock
  <2>1. bits' = bits /\ votes' = votes /\ info' \in {info, L!NewValidatorSigningInfo} /\ (info # L!NoInfo => info' = info)
    BY <1>5 DEF L!EndBlock, L!AfterValidatorBonded
  <2>2. CASE info # L!NoInfo
    BY <1>1, <1>2, <2>1, <2>2 DEF WindowInv
  <2>3. CASE info = L!NoInfo
    <3>1. bits' = {} /\ votes' = <<>>
      BY <2>1, <2>3 DEF RecordInv
    <3>2. info' # L!NoInfo => info'.offset = 0
      BY <1>2, <2>1, <2>3 DEF L!NewValidatorSigningInfo
    <3>3. QED
      BY <1>1, <1>2, <3>1, <3>2, WindowEmpty DEF WindowInv
  <2>4. QED
    BY <2>2, <2>3
<1>6. L!BeginBlock /\ ~sets[3] => UNCHANGED <<info, bits, votes>>
  BY DEF L!BeginBlock
<1>7. L!Unjail \/ L!SetParams \/ L!RemoveValidator \/ L!CreateValidator \/ UNCHANGED L!vars => UNCHANGED <<info, bits, votes>>
  BY DEF L!Unjail, L!SetParams, L!RemoveValidator, L!CreateValidator, L!vars
<1>8. QED
  BY <1>3, <1>4, <1>5, <1>6, <1>7 DEF L!Next

\* The counter of a record is the number of misses among the latest votes.
LEMMA CounterOfWindow ==
    ASSUME NEW W, OneWindow(W), RecordInv, WindowInv
    PROVE  L!CounterIsWindow
<1>1. W \in Nat \ {0} /\ window = W
  BY OnlyWindow
<1>2. SUFFICES ASSUME info # L!NoInfo PROVE info.missed = L!Misses(L!Latest(window))
  BY DEF L!CounterIsWindow
<1>3. info.offset \in Nat /\ info.missed = Cardinality(bits) /\ Window(bits, votes, info.offset, W)
  BY <1>1, <1>2 DEF RecordInv, WindowInv, SigningInfos
<1>4. votes \in Seq(BOOLEAN) /\ Len(votes) <= W
  BY <1>1, <1>3 DEF Window
<1>5. L!Latest(window) = votes
  BY <1>1, <1>4, PrefixFacts DEF L!Latest
<1>6. QED
  BY <1>1, <1>3, <1>5, WindowCount

\* The number of misses that is allowed is an integer.
LEMMA MaxMissedType ==
    ASSUME L!SlashingConstants, RecordInv
    PROVE  L!MaxMissed \in Int
<1>1. window \in Nat /\ P \in Nat \ {0} /\ MinSigned \in Nat
  BY DEF L!SlashingConstants, RecordInv
<1> DEFINE n == MinSigned * window
<1>2. n \in Int
  BY <1>1
<1> HIDE DEF n
<1>3. n \div P \in Int
  BY <1>1, <1>2
<1>4. L!MinSignedPerWindow \in {n \div P, n \div P + 1}
  BY DEF L!MinSignedPerWindow, n
<1>5. QED
  BY <1>1, <1>3, <1>4 DEF L!MaxMissed

\* Who missed too much of the window is jailed, and nobody else.
LEMMA PunishmentStep ==
    ASSUME NEW W, OneWindow(W), RecordInv, WindowInv, [L!Next]_(L!vars)
    PROVE  L!DowntimeIsJailed /\ L!PunishedForMisses
<1>1. W \in Nat \ {0} /\ window = W
  BY OnlyWindow
<1>2. val \in [stored : BOOLEAN, jailed : BOOLEAN, bonded : BOOLEAN]
  BY DEF RecordInv
<1>3. CASE L!BeginBlock /\ sets[3]
  <2>1. PICK signed \in BOOLEAN : L!HandleValidatorSignature(signed)
    BY <1>3 DEF L!BeginBlock
  <2>2. info # L!NoInfo /\ height' \in Nat
    BY <1>3 DEF RecordInv, L!BeginBlock
  <2>3. Window(bits, votes, info.offset, W) /\ votes \in Seq(BOOLEAN)
    BY <1>1, <2>2 DEF WindowInv, Window
  <2> DEFINE x == L!Prefix(<<~signed>> \o votes, W)
  <2>4. \/ L!Punished(L!Misses(x)) /\ val' = [val EXCEPT !.jailed = TRUE]
        \/ ~L!Punished(L!Misses(votes')) /\ val' = val
    BY <2>1, <2>2, VoteStep
  <2>5. L!Misses(<<TRUE>> \o L!Latest(window - 1)) \in Nat /\ L!Misses(x) \in Nat
        /\ L!Misses(x) <= L!Misses(<<TRUE>> \o L!Latest(window - 1))
    <3>1. PICK miss \in BOOLEAN : miss = ~signed
      OBVIOUS
    <3>2. L!Prefix(votes, W - 1) \in Seq(BOOLEAN)
      BY <1>1, <2>3, PrefixFacts
    <3>3. x = <<miss>> \o L!Prefix(votes, W - 1)
      BY <1>1, <2>3, <3>1, PrefixOfCons
    <3>4. L!Latest(window - 1) = L!Prefix(votes, W - 1)
      BY <1>1 DEF L!Latest
    <3> HIDE DEF x
    <3>5. QED
      BY <3>2, <3>3, <3>4, MissCounts
  <2> HIDE DEF x
  <2>6. CASE L!Punished(L!Misses(x)) /\ val' = [val EXCEPT !.jailed = TRUE]
    <3>1. val'.jailed
      BY <1>2, <2>6
    <3>2. L!Misses(x) > L!MaxMissed
      BY <2>6 DEF L!Punished
    <3>3. L!MaxMissed \in Int
      BY MaxMissedType DEF OneWindow
    <3>4. L!Misses(<<TRUE>> \o L!Latest(window - 1)) > L!MaxMissed
      BY <2>5, <3>2, <3>3
    <3>5. QED
      BY <3>1, <3>4 DEF L!DowntimeIsJailed, L!PunishedForMisses
  <2>7. CASE ~L!Punished(L!Misses(votes')) /\ val' = val
    BY <2>7 DEF L!DowntimeIsJailed, L!PunishedForMisses, L!Punished
  <2>8. QED
    BY <2>4, <2>6, <2>7
<1>4. CASE ~(L!BeginBlock /\ sets[3])
  <2>1. ~inBlock /\ inBlock' => ~sets[3]
    BY <1>4 DEF L!Next, L!Unjail, L!SetParams, L!RemoveValidator, L!CreateValidator, L!EndBlock,
       L!vars
  <2>2. val'.jailed => val.jailed
    <3>1. CASE L!EndBlock
      BY <1>2, <3>1 DEF L!EndBlock
    <3>2. CASE ~L!EndBlock
      <4>1. CASE L!Unjail
        BY <1>2, <4>1 DEF L!Unjail
      <4>2. CASE L!CreateValidator
        BY <1>2, <4>2 DEF L!CreateValidator
      <4>3. CASE L!RemoveValidator
        BY <1>2, <4>3 DEF L!RemoveValidator
      <4>4. CASE L!BeginBlock \/ L!SetParams \/ UNCHANGED L!vars
        BY <1>4, <4>4 DEF L!BeginBlock, L!SetParams, L!vars
      <4>5. QED
        BY <3>2, <4>1, <4>2, <4>3, <4>4 DEF L!Next
    <3>3. QED
      BY <3>1, <3>2
  <2>3. QED
    BY <2>1, <2>2 DEF L!DowntimeIsJailed, L!PunishedForMisses
<1>5. QED
  BY <1>3, <1>4

\* With a window that never changes, of whatever length: the counter is the number
\* of blocks missed in the window (HandleValidatorSignature).
THEOREM CountersAreWindows ==
    ASSUME NEW W, OneWindow(W)
    PROVE  L!Spec => []L!CounterIsWindow
<1>1. L!SlashingConstants
  BY DEF OneWindow
<1>2. L!Init => RecordInv /\ WindowInv
  BY <1>1, RecordInvInit, WindowInvInit
<1>3. RecordInv /\ WindowInv /\ [L!Next]_(L!vars) => RecordInv' /\ WindowInv'
  BY <1>1, RecordStep, WindowStep
<1>4. RecordInv /\ WindowInv => L!CounterIsWindow
  BY CounterOfWindow
<1>5. QED
  BY <1>2, <1>3, <1>4, PTL DEF L!Spec

\* With a window that never changes: a stored validator past its first window is
\* jailed in BeginBlock if it missed too much of the last one, and only then.
THEOREM DowntimePunished ==
    ASSUME NEW W, OneWindow(W)
    PROVE  L!Spec => [][L!DowntimeIsJailed /\ L!PunishedForMisses]_(L!vars)
<1>1. L!SlashingConstants
  BY DEF OneWindow
<1>2. L!Init => RecordInv /\ WindowInv
  BY <1>1, RecordInvInit, WindowInvInit
<1>3. RecordInv /\ WindowInv /\ [L!Next]_(L!vars) => RecordInv' /\ WindowInv'
  BY <1>1, RecordStep, WindowStep
<1>4. RecordInv /\ WindowInv /\ [L!Next]_(L!vars) => [L!DowntimeIsJailed /\ L!PunishedForMisses]_(L!vars)
  BY PunishmentStep
<1>5. QED
  BY <1>2, <1>3, <1>4, PTL DEF L!Spec

\* Whatever windows governance sets, as long as one is the largest, the bits stay
\* below it and the record has its type.
THEOREM RecordsTyped ==
    ASSUME L!SlashingConstants, \E m \in Windows : \A w \in Windows : w <= m
    PROVE  L!Spec => []L!TypeOK
<1> DEFINE Bounded == height \in 0 .. MaxHeight /\ bits \subseteq 0 .. L!Max(Windows)
<1>1. L!Max(Windows) \in Nat /\ \A w \in Windows : w <= L!Max(Windows)
  <2>1. PICK m \in Windows : \A w \in Windows : w <= m
    OBVIOUS
  <2>2. Windows \subseteq Nat
    BY DEF L!SlashingConstants
  <2>3. m \in Windows /\ \A y \in Windows : m >= y
    BY <2>1, <2>2
  <2>4. L!Max(Windows) \in Windows /\ \A y \in Windows : L!Max(Windows) >= y
    BY <2>3 DEF L!Max
  <2>5. QED
    BY <2>2, <2>4
<1>2. L!Init => RecordInv /\ Bounded
  <2>1. L!Init => Bounded
    BY DEF L!Init, L!SlashingConstants
  <2>2. QED
    BY <2>1, RecordInvInit
<1>3. RecordInv /\ Bounded /\ [L!Next]_(L!vars) => RecordInv' /\ Bounded'
  <2> SUFFICES ASSUME RecordInv, Bounded, [L!Next]_(L!vars) PROVE RecordInv' /\ Bounded'
    OBVIOUS
  <2>1. RecordInv'
    BY RecordStep
  <2>2. height' \in 0 .. MaxHeight
    <3>1. CASE L!BeginBlock
      BY <3>1 DEF L!BeginBlock, RecordInv, L!SlashingConstants
    <3>2. CASE ~L!BeginBlock
      BY <3>2 DEF L!Next, L!Unjail, L!SetParams, L!RemoveValidator, L!CreateValidator,
         L!EndBlock, L!vars
    <3>3. QED
      BY <3>1, <3>2
  <2>3. bits' \subseteq 0 .. L!Max(Windows)
    <3>1. CASE L!BeginBlock /\ sets[3]
      <4>1. PICK signed \in BOOLEAN : L!HandleValidatorSignature(signed)
        BY <3>1 DEF L!BeginBlock
      <4>2. bits' \subseteq bits \cup {info.offset % window}
        BY <4>1 DEF L!HandleValidatorSignature, L!clearValidatorMissedBlockBitArray
      <4>3. info.offset \in Nat /\ window \in Nat \ {0} /\ window <= L!Max(Windows)
        BY <1>1, <3>1 DEF RecordInv, SigningInfos, L!SlashingConstants
      <4>4. info.offset % window \in 0 .. (window - 1)
        BY <4>3, ModFacts
      <4>5. info.offset % window \in 0 .. L!Max(Windows)
        BY <1>1, <4>3, <4>4
      <4>6. QED
        BY <4>2, <4>5
    <3>2. CASE ~(L!BeginBlock /\ sets[3])
      BY <3>2 DEF L!Next, L!BeginBlock, L!Unjail, L!SetParams, L!RemoveValidator,
         L!CreateValidator, L!EndBlock, L!vars
    <3>3. QED
      BY <3>1, <3>2
  <2>4. QED
    BY <2>1, <2>2, <2>3
<1>4. RecordInv /\ Bounded => L!TypeOK
  <2> SUFFICES ASSUME RecordInv, Bounded PROVE L!TypeOK
    OBVIOUS
  <2>1. sets \in Seq(BOOLEAN) /\ Len(sets) = 3
    <3>1. sets = <<sets[1], sets[2], sets[3]>> /\ sets[1] \in BOOLEAN /\ sets[2] \in BOOLEAN /\ sets[3] \in BOOLEAN
      BY DEF RecordInv
    <3>2. \A x, y, z \in BOOLEAN : <<x, y, z>> \in Seq(BOOLEAN) /\ Len(<<x, y, z>>) = 3
      OBVIOUS
    <3>3. QED
      BY <3>1, <3>2
  <2>2. QED
    BY <2>1 DEF RecordInv, SigningInfos, L!TypeOK
<1>5. QED
  BY <1>2, <1>3, <1>4, PTL DEF L!Spec

-----------------------------------------------------------------------------
(* Gov *)

\* Finitely many accounts; what the constants are.
GovRules == G!GovConstants /\ IsFiniteSet(Accounts)

Props == [status : G!Statuses, content : Contents \cup {"text"}, total : Nat,
          depositEnd : Nat, votingEnd : Nat]
Bank == [bal : [Accounts -> Nat], gov : Int, burned : Nat]
Ballots == [Accounts -> Votes \cup {G!NoVote}]
Entries == Nat \X G!Ids

\* The states the end blocker goes through.
GovStates ==
    [props : [G!Ids -> Props], inactive : SUBSET Entries, active : SUBSET Entries,
     deposits : [G!Ids -> [Accounts -> Nat]], votes : [G!Ids -> Ballots],
     bank : Bank, params : {InitParams, NewParams}, pool : Nat]

\* What a proposal was given, and what all were.
Given(d) == [i \in G!Ids |-> SumFunction(d[i])]

\* The deposits in the store are the total of each open proposal; the module
\* account holds them.
Money(s) ==
    /\ s.bank.gov = SumFunction(Given(s.deposits))
    /\ \A i \in G!Ids : SumFunction(s.deposits[i]) =
          (IF s.props[i].status \in G!Open THEN s.props[i].total ELSE 0)
    /\ SumFunction(s.bank.bal) + s.bank.gov + s.bank.burned = InitBal * Cardinality(Accounts)

\* A proposal is in the queue of its status, under the end time it carries.
Queued(s) ==
    /\ \A t \in Nat, j \in G!Ids :
          /\ <<t, j>> \in s.inactive <=> s.props[j].status = "deposit" /\ t = s.props[j].depositEnd
          /\ <<t, j>> \in s.active <=> s.props[j].status = "voting" /\ t = s.props[j].votingEnd
    /\ \A j \in G!Ids : s.votes[j] # G!NoVotes => s.props[j].status = "voting"

PassedSpends(p) == {i \in G!Ids : p[i].status = "passed" /\ p[i].content = "spend"}

\* The pool paid for the spends that passed.
Spent(s) == s.pool = InitPool - Cardinality(PassedSpends(s.props))

GovSound(s) == s \in GovStates /\ Money(s) /\ Queued(s) /\ Spent(s)

\* Nothing is overdue, and ids not yet given out have no proposal.
GovInv ==
    /\ GovSound(G!State)
    /\ now \in 0 .. MaxTime /\ nextId \in 1 .. (MaxProposals + 1) /\ stake \in Stakes
    /\ \A q \in inactive \cup active : q[1] >= now
    /\ \A i \in G!Ids : i >= nextId => props[i].status = "none"

-----------------------------------------------------------------------------
(* The steps on a state *)

\* Gov adds up and counts as the theorems on sums and finite sets do.
LEMMA GovSums ==
    /\ \A f : G!Total(f) = SumFunction(f)
    /\ \A S : G!Cardinality(S) = Cardinality(S)
<1>1. \A f : G!Total(f) = SumFunction(f)
  BY Zenon DEF G!Total, SumFunction, SumFunctionOnSet, FoldFunctionOnSet, MapThenFoldSet
<1>2. \A S : G!Cardinality(S) = Cardinality(S)
  BY DEF G!Cardinality, Cardinality
<1>3. QED
  BY <1>1, <1>2

\* The parameters and the ids are numbers.
LEMMA GovFacts ==
    ASSUME GovRules
    PROVE  /\ \A p \in {InitParams, NewParams} : p.votingPeriod \in Nat /\ p.minDeposit \in Nat
           /\ MaxDepositPeriod \in Nat /\ MaxTime \in Nat /\ MaxProposals \in Nat
           /\ Amounts \subseteq Nat /\ InitBal \in Nat /\ InitPool \in Nat
           /\ G!Ids \subseteq Nat /\ IsFiniteSet(G!Ids) /\ IsFiniteSet(Accounts)
           /\ G!NoProp \in Props /\ G!NoDeposits \in [Accounts -> Nat] /\ G!NoVotes \in Ballots
           /\ G!NoProp.status = "none" /\ "none" \notin G!Open /\ G!Open = {"deposit", "voting"}
<1>1. MaxProposals \in Nat
  BY DEF GovRules, G!GovConstants
<1>2. IsFiniteSet(1 .. MaxProposals)
  BY <1>1, FS_Interval
<1>3. QED
  BY <1>2 DEF GovRules, G!GovConstants, G!Ids, G!NoProp, Props, G!Statuses, G!NoDeposits,
     G!NoVotes, Ballots, G!Open

\* The parts of a state.
LEMMA GovParts ==
    ASSUME NEW s \in GovStates
    PROVE  /\ s.props \in [G!Ids -> Props] /\ s.inactive \in SUBSET Entries
           /\ s.active \in SUBSET Entries /\ s.deposits \in [G!Ids -> [Accounts -> Nat]]
           /\ s.votes \in [G!Ids -> Ballots] /\ s.bank \in Bank
           /\ s.bank.bal \in [Accounts -> Nat] /\ s.bank.gov \in Int /\ s.bank.burned \in Nat
           /\ s.params \in {InitParams, NewParams} /\ s.pool \in Nat
  BY DEF GovStates, Bank

\* The deposits of one proposal change the sum of all by the difference.
LEMMA GivenChanged ==
    ASSUME GovRules, NEW d \in [G!Ids -> [Accounts -> Nat]], NEW i \in G!Ids, NEW x \in [Accounts -> Nat]
    PROVE  /\ SumFunction(Given([d EXCEPT ![i] = x])) = SumFunction(Given(d)) + (SumFunction(x) - SumFunction(d[i]))
           /\ SumFunction(Given(d)) \in Nat /\ SumFunction(x) \in Nat
           /\ \A j \in G!Ids : SumFunction(d[j]) \in Nat
<1>1. \A j \in G!Ids : d[j] \in [Accounts -> Nat]
  OBVIOUS
<1>2. (\A j \in G!Ids : SumFunction(d[j]) \in Nat) /\ SumFunction(x) \in Nat
  BY <1>1, GovFacts, SumNat
<1> DEFINE F == Given(d)
           v == SumFunction(x)
<1>3. F \in [G!Ids -> Nat] /\ F[i] = SumFunction(d[i])
  BY <1>2 DEF Given
<1>4. SumFunction(F) \in Nat /\ F \in [G!Ids -> Int]
  BY <1>3, GovFacts, SumNat
<1>5. Given([d EXCEPT ![i] = x]) = [F EXCEPT ![i] = v]
  BY <1>3 DEF Given
<1>6. v \in Int
  BY <1>2
<1> HIDE DEF F, v
<1>7. SumFunction([F EXCEPT ![i] = v]) = SumFunction(F) + (v - F[i])
  BY <1>4, <1>6, GovFacts, SumExcept
<1>8. QED
  BY <1>2, <1>3, <1>4, <1>5, <1>7 DEF F, v

\* One account's amount changes the sum by the difference.
LEMMA OneChanged ==
    ASSUME GovRules, NEW f \in [Accounts -> Nat], NEW a \in Accounts, NEW v \in Int
    PROVE  SumFunction([f EXCEPT ![a] = v]) = SumFunction(f) + (v - f[a]) /\ SumFunction(f) \in Nat
<1>1. IsFiniteSet(Accounts)
  BY GovFacts
<1>2. f \in [Accounts -> Int] /\ SumFunction(f) \in Nat
  BY <1>1, SumNat
<1>3. QED
  BY <1>1, <1>2, SumExcept

\* What an account adds to a proposal is added to the sum of its deposits and to that of all.
LEMMA GivenRaised ==
    ASSUME GovRules, NEW d \in [G!Ids -> [Accounts -> Nat]], NEW i \in G!Ids, NEW a \in Accounts,
           NEW e \in [G!Ids -> [Accounts -> Nat]], \A j \in G!Ids : j # i => e[j] = d[j],
           \A c \in Accounts : c # a => e[i][c] = d[i][c]
    PROVE  /\ SumFunction(Given(e)) = SumFunction(Given(d)) + (e[i][a] - d[i][a]) /\ SumFunction(Given(d)) \in Nat
           /\ SumFunction(e[i]) = SumFunction(d[i]) + (e[i][a] - d[i][a]) /\ SumFunction(d[i]) \in Nat
<1> DEFINE f == d[i]
           x == e[i]
           v == e[i][a]
<1>1. f \in [Accounts -> Nat] /\ v \in Int /\ x \in [Accounts -> Nat] /\ f[a] \in Nat
  OBVIOUS
<1>2. x = [f EXCEPT ![a] = v] /\ e = [d EXCEPT ![i] = x]
  OBVIOUS
<1> HIDE DEF f, x, v
<1>3. SumFunction(x) = SumFunction(f) + (v - f[a]) /\ SumFunction(f) \in Nat
  <2>1. SumFunction([f EXCEPT ![a] = v]) = SumFunction(f) + (v - f[a]) /\ SumFunction(f) \in Nat
    BY <1>1, OneChanged
  <2>2. QED
    BY <1>2, <2>1
<1>4. /\ SumFunction(Given(e)) = SumFunction(Given(d)) + (SumFunction(x) - SumFunction(d[i]))
      /\ SumFunction(Given(d)) \in Nat
  <2>1. /\ SumFunction(Given([d EXCEPT ![i] = x])) = SumFunction(Given(d)) + (SumFunction(x) - SumFunction(d[i]))
        /\ SumFunction(Given(d)) \in Nat
    BY <1>1, GivenChanged
  <2>2. QED
    BY <1>2, <2>1
<1>6. QED
  BY <1>1, <1>3, <1>4 DEF f, x, v

\* r is s after account a paid amt as a deposit to the open proposal i.
Paid(s, r, i, a, amt) ==
    /\ s.props[i].status \in G!Open
    /\ \A j \in G!Ids : j # i => r.props[j] = s.props[j]
    /\ r.props[i].status \in G!Open /\ r.props[i].total = s.props[i].total + amt
    /\ r.deposits = [s.deposits EXCEPT ![i] = [s.deposits[i] EXCEPT ![a] = s.deposits[i][a] + amt]]
    /\ r.bank.bal = [s.bank.bal EXCEPT ![a] = s.bank.bal[a] - amt]
    /\ r.bank.gov = s.bank.gov + amt /\ r.bank.burned = s.bank.burned

\* A deposit goes from its account to the module account.
LEMMA MoneyPaid ==
    ASSUME GovRules, NEW s \in GovStates, Money(s), NEW r \in GovStates,
           NEW i \in G!Ids, NEW a \in Accounts, NEW amt \in Nat, Paid(s, r, i, a, amt)
    PROVE  Money(r)
<1> DEFINE d == s.deposits
           e == r.deposits
           b == s.bank.bal
<1>1. /\ d \in [G!Ids -> [Accounts -> Nat]] /\ b \in [Accounts -> Nat]
      /\ s.bank.gov \in Int /\ s.bank.burned \in Nat
      /\ \A j \in G!Ids : s.props[j].total \in Nat
  BY GovParts DEF Props
<1> DEFINE v == d[i][a] + amt
           x == [d[i] EXCEPT ![a] = v]
<1>2. e = [d EXCEPT ![i] = x] /\ v \in Nat /\ v - d[i][a] = amt /\ x = [d[i] EXCEPT ![a] = v]
  BY <1>1 DEF Paid
<1>3. /\ s.bank.gov = SumFunction(Given(d))
      /\ \A j \in G!Ids : SumFunction(d[j]) = (IF s.props[j].status \in G!Open THEN s.props[j].total ELSE 0)
      /\ SumFunction(b) + s.bank.gov + s.bank.burned = InitBal * Cardinality(Accounts)
  BY DEF Money
<1>4. r.bank.bal = [b EXCEPT ![a] = b[a] - amt]
  BY DEF Paid
<1> HIDE DEF d, e, b, x, v
<1>5. /\ SumFunction(Given(e)) = SumFunction(Given(d)) + amt
      /\ SumFunction(e[i]) = SumFunction(d[i]) + amt /\ SumFunction(d[i]) \in Nat
      /\ \A j \in G!Ids : j # i => e[j] = d[j]
  <2>1. /\ e \in [G!Ids -> [Accounts -> Nat]] /\ (\A j \in G!Ids : j # i => e[j] = d[j])
        /\ (\A c \in Accounts : c # a => e[i][c] = d[i][c]) /\ e[i][a] - d[i][a] = amt
    BY <1>1, <1>2
  <2>2. /\ SumFunction(Given(e)) = SumFunction(Given(d)) + (e[i][a] - d[i][a])
        /\ SumFunction(e[i]) = SumFunction(d[i]) + (e[i][a] - d[i][a]) /\ SumFunction(d[i]) \in Nat
    BY <1>1, <2>1, GivenRaised
  <2>3. QED
    BY <2>1, <2>2
<1>6. SumFunction(r.bank.bal) = SumFunction(b) - amt /\ SumFunction(b) \in Nat
  <2> DEFINE w == b[a] - amt
  <2>1. w \in Int /\ r.bank.bal = [b EXCEPT ![a] = w] /\ w - b[a] = 0 - amt
    BY <1>1, <1>4
  <2> HIDE DEF w
  <2>2. SumFunction([b EXCEPT ![a] = w]) = SumFunction(b) + (w - b[a]) /\ SumFunction(b) \in Nat
    BY <1>1, <2>1, OneChanged
  <2>3. QED
    BY <2>1, <2>2
<1>8. r.bank.gov = SumFunction(Given(e))
  BY <1>3, <1>5 DEF Paid
<1>9. ASSUME NEW j \in G!Ids
      PROVE  SumFunction(e[j]) = (IF r.props[j].status \in G!Open THEN r.props[j].total ELSE 0)
  <2>1. CASE j = i
    <3>1. SumFunction(d[i]) = s.props[i].total
      BY <1>3 DEF Paid
    <3>2. QED
      BY <1>5, <2>1, <3>1 DEF Paid
  <2>2. CASE j # i
    <3>1. e[j] = d[j] /\ r.props[j] = s.props[j]
      BY <1>5, <2>2 DEF Paid
    <3>2. QED
      BY <1>3, <3>1
  <2>3. QED
    BY <2>1, <2>2
<1> DEFINE all == InitBal * Cardinality(Accounts)
<1> HIDE DEF all
<1>10. SumFunction(b) + s.bank.gov + s.bank.burned = all
  BY <1>3 DEF all
<1>11. SumFunction(r.bank.bal) + r.bank.gov + r.bank.burned = all
  BY <1>1, <1>6, <1>10 DEF Paid
<1>12. QED
  BY <1>8, <1>9, <1>11 DEF Money, all, e

\* r is s after the deposits on proposal i, no longer open, were burned or refunded.
Released(s, r, i) ==
    /\ \A j \in G!Ids : j # i => r.props[j] = s.props[j]
    /\ r.props[i].status \notin G!Open
    /\ r.deposits = [s.deposits EXCEPT ![i] = G!NoDeposits]
    /\ r.bank.gov = s.bank.gov - SumFunction(s.deposits[i])
    /\ \/ /\ r.bank.bal = s.bank.bal
          /\ r.bank.burned = s.bank.burned + SumFunction(s.deposits[i])
       \/ /\ r.bank.bal = [a \in Accounts |-> s.bank.bal[a] + s.deposits[i][a]]
          /\ r.bank.burned = s.bank.burned

\* Deposits leave with their proposal: burned, or back to the accounts.
LEMMA MoneyReleased ==
    ASSUME GovRules, NEW s \in GovStates, Money(s), NEW r \in GovStates, NEW i \in G!Ids, Released(s, r, i)
    PROVE  Money(r)
<1> USE DEF Released
<1> DEFINE d == s.deposits
           x == G!NoDeposits
           b == s.bank.bal
           n == SumFunction(d[i])
<1>1. /\ d \in [G!Ids -> [Accounts -> Nat]] /\ b \in [Accounts -> Nat] /\ x \in [Accounts -> Nat]
      /\ s.bank.gov \in Int /\ s.bank.burned \in Nat /\ d[i] \in [Accounts -> Nat]
  BY GovParts, GovFacts
<1>2. SumFunction(x) = 0
  <2>1. x \in [Accounts -> Int] /\ \A a \in Accounts : x[a] = 0
    BY DEF G!NoDeposits
  <2>2. QED
    BY <2>1, GovFacts, SumFacts
<1>4. /\ s.bank.gov = SumFunction(Given(d))
      /\ \A j \in G!Ids : SumFunction(d[j]) = (IF s.props[j].status \in G!Open THEN s.props[j].total ELSE 0)
      /\ SumFunction(b) + s.bank.gov + s.bank.burned = InitBal * Cardinality(Accounts)
  BY DEF Money
<1>5. n \in Nat /\ SumFunction(b) \in Nat /\ b \in [Accounts -> Int] /\ d[i] \in [Accounts -> Int]
  BY <1>1, GovFacts, SumNat
<1>6. SumFunction([a \in Accounts |-> b[a] + d[i][a]]) = SumFunction(b) + n
  <2> DEFINE y == d[i]
  <2>1. y \in [Accounts -> Int]
    BY <1>5
  <2> HIDE DEF y, b
  <2>2. SumFunction([a \in Accounts |-> b[a] + y[a]]) = SumFunction(b) + SumFunction(y)
    BY <1>5, <2>1, GovFacts, SumPlus
  <2>3. QED
    BY <2>2 DEF y
<1>7. /\ SumFunction(Given(r.deposits)) = SumFunction(Given(d)) + (SumFunction(x) - n)
      /\ SumFunction(Given(d)) \in Nat
  <2> HIDE DEF d, x
  <2>1. r.deposits = [d EXCEPT ![i] = x]
    BY DEF d, x
  <2>2. /\ SumFunction(Given([d EXCEPT ![i] = x])) = SumFunction(Given(d)) + (SumFunction(x) - SumFunction(d[i]))
        /\ SumFunction(Given(d)) \in Nat
    BY <1>1, GivenChanged
  <2>3. QED
    BY <2>1, <2>2
<1>8. r.bank.gov = SumFunction(Given(r.deposits))
  BY <1>1, <1>2, <1>4, <1>5, <1>7
<1>9. ASSUME NEW j \in G!Ids
      PROVE  SumFunction(r.deposits[j]) = (IF r.props[j].status \in G!Open THEN r.props[j].total ELSE 0)
  <2>1. CASE j = i
    <3>1. r.deposits[j] = x
      BY <1>1, <2>1
    <3>2. QED
      BY <1>2, <2>1, <3>1
  <2>2. CASE j # i
    <3>1. r.deposits[j] = d[j] /\ r.props[j] = s.props[j]
      BY <1>1, <2>2
    <3>2. QED
      BY <1>4, <3>1
  <2>3. QED
    BY <2>1, <2>2
<1> DEFINE all == InitBal * Cardinality(Accounts)
<1> HIDE DEF all
<1>10. SumFunction(b) + s.bank.gov + s.bank.burned = all
  BY <1>4 DEF all
<1>11. \/ SumFunction(r.bank.bal) = SumFunction(b) /\ r.bank.burned = s.bank.burned + n
       \/ SumFunction(r.bank.bal) = SumFunction(b) + n /\ r.bank.burned = s.bank.burned
  BY <1>6
<1>12. r.bank.gov = s.bank.gov - n
  OBVIOUS
<1> HIDE DEF n, b
<1>13. SumFunction(r.bank.bal) + r.bank.gov + r.bank.burned = all
  <2>1. n \in Nat /\ SumFunction(b) \in Nat /\ s.bank.gov \in Int /\ s.bank.burned \in Nat
    BY <1>1, <1>5
  <2>2. QED
    BY <1>10, <1>11, <1>12, <2>1
<1>14. QED
  BY <1>8, <1>9, <1>13 DEF Money, all

\* AddDeposit before it looks at the total.
Pay(s, i, a, amt) ==
    [s EXCEPT !.bank.bal[a] = @ - amt, !.bank.gov = @ + amt,
              !.props[i].total = @ + amt, !.deposits[i][a] = @ + amt]

\* The state after an account paid a deposit.
LEMMA PaidParts ==
    ASSUME GovRules, NEW s \in GovStates, NEW i \in G!Ids, NEW a \in Accounts, NEW amt \in Nat,
           s.bank.bal[a] >= amt, NEW r, r = Pay(s, i, a, amt)
    PROVE  /\ r \in GovStates
           /\ r.props = [s.props EXCEPT ![i].total = @ + amt]
           /\ r.deposits = [s.deposits EXCEPT ![i] = [s.deposits[i] EXCEPT ![a] = s.deposits[i][a] + amt]]
           /\ r.bank.bal = [s.bank.bal EXCEPT ![a] = s.bank.bal[a] - amt]
           /\ r.bank.gov = s.bank.gov + amt /\ r.bank.burned = s.bank.burned
           /\ r.inactive = s.inactive /\ r.active = s.active /\ r.votes = s.votes
           /\ r.params = s.params /\ r.pool = s.pool
<1>1. /\ s.props \in [G!Ids -> Props] /\ s.deposits \in [G!Ids -> [Accounts -> Nat]] /\ s.bank \in Bank
      /\ s.bank.bal \in [Accounts -> Nat] /\ s.bank.gov \in Int /\ s.bank.burned \in Nat
  BY GovParts
<1> DEFINE p == [s.props EXCEPT ![i].total = @ + amt]
           d == [s.deposits EXCEPT ![i] = [s.deposits[i] EXCEPT ![a] = s.deposits[i][a] + amt]]
           bal == [s.bank.bal EXCEPT ![a] = s.bank.bal[a] - amt]
           b == [bal |-> bal, gov |-> s.bank.gov + amt, burned |-> s.bank.burned]
<1>2. p \in [G!Ids -> Props]
  <2>1. s.props[i] \in Props /\ s.props[i].total \in Nat
    BY <1>1 DEF Props
  <2>2. [s.props[i] EXCEPT !.total = @ + amt] \in Props
    BY <2>1 DEF Props
  <2>3. QED
    BY <1>1, <2>2
<1>3. d \in [G!Ids -> [Accounts -> Nat]]
  BY <1>1
<1>4. b \in Bank /\ b.bal = bal /\ b.gov = s.bank.gov + amt /\ b.burned = s.bank.burned
  BY <1>1 DEF Bank
<1>5. r = [props |-> p, inactive |-> s.inactive, active |-> s.active, deposits |-> d, votes |-> s.votes,
           bank |-> b, params |-> s.params, pool |-> s.pool]
  BY DEF GovStates, Bank, Pay
<1> HIDE DEF p, d, b
<1>6. /\ s.inactive \in SUBSET Entries /\ s.active \in SUBSET Entries /\ s.votes \in [G!Ids -> Ballots]
      /\ s.params \in {InitParams, NewParams} /\ s.pool \in Nat
  BY GovParts
<1>7. /\ r \in GovStates /\ r.props = p /\ r.inactive = s.inactive /\ r.active = s.active
      /\ r.deposits = d /\ r.votes = s.votes /\ r.bank = b /\ r.params = s.params /\ r.pool = s.pool
  BY <1>2, <1>3, <1>4, <1>5, <1>6 DEF GovStates
<1>8. QED
  BY <1>4, <1>7 DEF p, d

\* Money depends on the totals of the open proposals only.
LEMMA MoneySame ==
    ASSUME NEW s \in GovStates, Money(s), NEW r \in GovStates,
           r.bank = s.bank, r.deposits = s.deposits,
           \A j \in G!Ids : (IF r.props[j].status \in G!Open THEN r.props[j].total ELSE 0)
                          = (IF s.props[j].status \in G!Open THEN s.props[j].total ELSE 0)
    PROVE  Money(r)
  BY DEF Money

\* Spent depends on the spends that passed only.
LEMMA SpentSame ==
    ASSUME NEW s \in GovStates, Spent(s), NEW r \in GovStates, r.pool = s.pool,
           \A j \in G!Ids : (r.props[j].status = "passed" /\ r.props[j].content = "spend")
                          <=> (s.props[j].status = "passed" /\ s.props[j].content = "spend")
    PROVE  Spent(r)
<1>1. PassedSpends(r.props) = PassedSpends(s.props)
  BY DEF PassedSpends
<1>2. QED
  BY <1>1 DEF Spent

\* One spend more has passed, and was paid.
LEMMA SpentOne ==
    ASSUME GovRules, NEW s \in GovStates, Spent(s), NEW r \in GovStates, r.pool = s.pool - 1,
           NEW i \in G!Ids, s.props[i].status # "passed",
           r.props[i].status = "passed", r.props[i].content = "spend",
           \A j \in G!Ids : j # i => r.props[j] = s.props[j]
    PROVE  Spent(r)
<1> DEFINE S == PassedSpends(s.props)
<1>1. PassedSpends(r.props) = S \cup {i} /\ i \notin S /\ S \subseteq G!Ids
  BY DEF PassedSpends
<1>2. IsFiniteSet(S) /\ Cardinality(S) \in Nat
  BY <1>1, GovFacts, FS_Subset, FS_CardinalityType
<1>3. Cardinality(S \cup {i}) = Cardinality(S) + 1
  BY <1>1, <1>2, FS_AddElement
<1>4. s.pool = InitPool - Cardinality(S) /\ InitPool \in Nat
  BY GovFacts DEF Spent
<1> HIDE DEF S
<1>5. QED
  BY <1>1, <1>2, <1>3, <1>4 DEF Spent

\* A deposit paid to an open proposal keeps the state sound.
LEMMA PaySound ==
    ASSUME GovRules, NEW s, GovSound(s), NEW i \in G!Ids, NEW a \in Accounts, NEW amt \in Nat,
           s.bank.bal[a] >= amt, s.props[i].status \in G!Open, NEW r, r = Pay(s, i, a, amt)
    PROVE  /\ GovSound(r) /\ r.inactive = s.inactive /\ r.active = s.active
           /\ r.props[i].status = s.props[i].status
           /\ \A j \in G!Ids : j # i => r.props[j] = s.props[j]
<1>1. s \in GovStates /\ Money(s) /\ Queued(s) /\ Spent(s) /\ s.props \in [G!Ids -> Props]
  BY GovParts DEF GovSound
<1> DEFINE p == s.props
<1>2. /\ r \in GovStates
      /\ r.props = [p EXCEPT ![i].total = @ + amt]
      /\ r.deposits = [s.deposits EXCEPT ![i] = [s.deposits[i] EXCEPT ![a] = s.deposits[i][a] + amt]]
      /\ r.bank.bal = [s.bank.bal EXCEPT ![a] = s.bank.bal[a] - amt]
      /\ r.bank.gov = s.bank.gov + amt /\ r.bank.burned = s.bank.burned
      /\ r.inactive = s.inactive /\ r.active = s.active /\ r.votes = s.votes
      /\ r.params = s.params /\ r.pool = s.pool
  BY <1>1, PaidParts
<1>3. /\ \A j \in G!Ids : j # i => r.props[j] = p[j]
      /\ r.props[i].status = p[i].status /\ r.props[i].content = p[i].content
      /\ r.props[i].depositEnd = p[i].depositEnd /\ r.props[i].votingEnd = p[i].votingEnd
      /\ r.props[i].total = p[i].total + amt
  BY <1>1, <1>2 DEF Props
<1> HIDE DEF p
<1>4. Paid(s, r, i, a, amt)
  BY <1>2, <1>3 DEF Paid, p
<1>5. Money(r)
  BY <1>1, <1>2, <1>4, MoneyPaid
<1>6. Queued(r)
  BY <1>1, <1>2, <1>3 DEF Queued, p
<1>7. Spent(r)
  <2>1. \A j \in G!Ids : r.props[j].status = s.props[j].status /\ r.props[j].content = s.props[j].content
    BY <1>3 DEF p
  <2>2. \A j \in G!Ids : (r.props[j].status = "passed" /\ r.props[j].content = "spend")
                          <=> (s.props[j].status = "passed" /\ s.props[j].content = "spend")
    BY <2>1
  <2>3. r \in GovStates /\ r.pool = s.pool
    BY <1>2
  <2>4. QED
    BY <1>1, <2>2, <2>3, SpentSame
<1>8. QED
  BY <1>2, <1>3, <1>5, <1>6, <1>7 DEF GovSound, p

\* The parts after a proposal became active.
LEMMA ActivateParts ==
    ASSUME GovRules, now \in Nat, NEW s \in GovStates, NEW i \in G!Ids, NEW r, r = G!ActivateVotingPeriod(s, i)
    PROVE  /\ r \in GovStates
           /\ r.props = [s.props EXCEPT ![i].status = "voting", ![i].votingEnd = now + s.params.votingPeriod]
           /\ r.inactive = s.inactive \ {<<s.props[i].depositEnd, i>>}
           /\ r.active = s.active \cup {<<now + s.params.votingPeriod, i>>}
           /\ r.deposits = s.deposits /\ r.bank = s.bank /\ r.votes = s.votes
           /\ r.params = s.params /\ r.pool = s.pool /\ now + s.params.votingPeriod \in Nat
<1> DEFINE end == now + s.params.votingPeriod
           p == [s.props EXCEPT ![i].status = "voting", ![i].votingEnd = end]
           x == s.inactive \ {<<s.props[i].depositEnd, i>>}
           y == s.active \cup {<<end, i>>}
<1>1. /\ s.props \in [G!Ids -> Props] /\ s.inactive \in SUBSET Entries /\ s.active \in SUBSET Entries
      /\ s.deposits \in [G!Ids -> [Accounts -> Nat]] /\ s.votes \in [G!Ids -> Ballots] /\ s.bank \in Bank
      /\ s.params \in {InitParams, NewParams} /\ s.pool \in Nat
  BY GovParts
<1>2. end \in Nat
  BY <1>1, GovFacts
<1>3. p \in [G!Ids -> Props]
  <2>1. [s.props[i] EXCEPT !.status = "voting", !.votingEnd = end] \in Props
    BY <1>1, <1>2 DEF Props, G!Statuses
  <2>2. QED
    BY <1>1, <2>1
<1>4. x \in SUBSET Entries /\ y \in SUBSET Entries
  BY <1>1, <1>2 DEF Entries
<1>5. r = [props |-> p, inactive |-> x, active |-> y, deposits |-> s.deposits, votes |-> s.votes,
           bank |-> s.bank, params |-> s.params, pool |-> s.pool]
  BY DEF GovStates, G!ActivateVotingPeriod
<1> HIDE DEF p, x, y
<1>6. /\ r \in GovStates /\ r.props = p /\ r.inactive = x /\ r.active = y
      /\ r.deposits = s.deposits /\ r.votes = s.votes /\ r.bank = s.bank /\ r.params = s.params
      /\ r.pool = s.pool
  BY <1>1, <1>3, <1>4, <1>5 DEF GovStates
<1>7. QED
  BY <1>2, <1>6 DEF p, x, y

\* A proposal that reached the minimum deposit goes to the other queue.
LEMMA ActivateSound ==
    ASSUME GovRules, now \in Nat, NEW s, GovSound(s), NEW i \in G!Ids, s.props[i].status = "deposit",
           NEW r, r = G!ActivateVotingPeriod(s, i)
    PROVE  /\ GovSound(r)
           /\ \A q \in r.inactive \cup r.active : q \in s.inactive \cup s.active \/ q[1] >= now
           /\ \A j \in G!Ids : j # i => r.props[j] = s.props[j]
<1>1. s \in GovStates /\ Money(s) /\ Queued(s) /\ Spent(s) /\ s.props \in [G!Ids -> Props]
  BY GovParts DEF GovSound
<1> DEFINE end == now + s.params.votingPeriod
           p == s.props
<1>2. /\ r \in GovStates
      /\ r.props = [s.props EXCEPT ![i].status = "voting", ![i].votingEnd = end]
      /\ r.inactive = s.inactive \ {<<s.props[i].depositEnd, i>>}
      /\ r.active = s.active \cup {<<end, i>>}
      /\ r.deposits = s.deposits /\ r.bank = s.bank /\ r.votes = s.votes
      /\ r.params = s.params /\ r.pool = s.pool /\ end \in Nat
  BY <1>1, ActivateParts
<1>3. /\ \A j \in G!Ids : j # i => r.props[j] = s.props[j]
      /\ r.props[i].status = "voting" /\ r.props[i].content = s.props[i].content
      /\ r.props[i].votingEnd = end /\ r.props[i].total = s.props[i].total
  BY <1>1, <1>2 DEF Props
<1>4. end >= now
  <2>1. s.params \in {InitParams, NewParams}
    BY <1>1, GovParts
  <2>2. s.params.votingPeriod \in Nat
    BY <2>1, GovFacts
  <2>3. QED
    BY <2>2
<1> HIDE DEF end
<1>5. Money(r)
  <2>1. \A j \in G!Ids : (IF r.props[j].status \in G!Open THEN r.props[j].total ELSE 0)
                          = (IF s.props[j].status \in G!Open THEN s.props[j].total ELSE 0)
    BY <1>3 DEF G!Open
  <2>2. r \in GovStates /\ r.bank = s.bank /\ r.deposits = s.deposits
    BY <1>2
  <2>3. QED
    BY <1>1, <2>1, <2>2, MoneySame
<1>6. Queued(r)
  <2>1. ASSUME NEW t \in Nat, NEW j \in G!Ids
        PROVE  /\ <<t, j>> \in r.inactive <=> r.props[j].status = "deposit" /\ t = r.props[j].depositEnd
               /\ <<t, j>> \in r.active <=> r.props[j].status = "voting" /\ t = r.props[j].votingEnd
    <3>1. /\ <<t, j>> \in s.inactive <=> s.props[j].status = "deposit" /\ t = s.props[j].depositEnd
          /\ <<t, j>> \in s.active <=> s.props[j].status = "voting" /\ t = s.props[j].votingEnd
      BY <1>1 DEF Queued
    <3>2. CASE j = i
      BY <1>2, <1>3, <3>1, <3>2
    <3>3. CASE j # i
      BY <1>2, <1>3, <3>1, <3>3
    <3>4. QED
      BY <3>2, <3>3
  <2>2. \A j \in G!Ids : r.votes[j] # G!NoVotes => r.props[j].status = "voting"
    BY <1>1, <1>2, <1>3 DEF Queued
  <2>3. QED
    BY <2>1, <2>2 DEF Queued
<1>7. Spent(r)
  <2>2. \A j \in G!Ids : (r.props[j].status = "passed" /\ r.props[j].content = "spend")
                          <=> (s.props[j].status = "passed" /\ s.props[j].content = "spend")
    BY <1>3
  <2>3. r \in GovStates /\ r.pool = s.pool
    BY <1>2
  <2>4. QED
    BY <1>1, <2>2, <2>3, SpentSame
<1>8. \A q \in r.inactive \cup r.active : q \in s.inactive \cup s.active \/ q[1] >= now
  BY <1>2, <1>4
<1>9. QED
  BY <1>2, <1>3, <1>5, <1>6, <1>7, <1>8 DEF GovSound

\* AddDeposit to an open proposal keeps the state sound; what it puts in a queue is not overdue.
LEMMA AddDepositSound ==
    ASSUME GovRules, now \in Nat, NEW s, GovSound(s), NEW i \in G!Ids, NEW a \in Accounts, NEW amt \in Nat,
           s.bank.bal[a] >= amt, s.props[i].status \in G!Open, NEW r, r = G!AddDeposit(s, i, a, amt)
    PROVE  /\ GovSound(r)
           /\ \A q \in r.inactive \cup r.active : q \in s.inactive \cup s.active \/ q[1] >= now
           /\ \A j \in G!Ids : j # i => r.props[j] = s.props[j]
<1> DEFINE paid == Pay(s, i, a, amt)
<1>1. /\ GovSound(paid) /\ paid.inactive = s.inactive /\ paid.active = s.active
      /\ \A j \in G!Ids : j # i => paid.props[j] = s.props[j]
  BY PaySound
<1>2. \/ r = paid
      \/ r = G!ActivateVotingPeriod(paid, i) /\ paid.props[i].status = "deposit"
  BY DEF G!AddDeposit, Pay
<1> HIDE DEF paid
<1>3. CASE r = paid
  BY <1>1, <1>3
<1>4. CASE r = G!ActivateVotingPeriod(paid, i) /\ paid.props[i].status = "deposit"
  <2>1. /\ GovSound(r)
        /\ \A q \in r.inactive \cup r.active : q \in paid.inactive \cup paid.active \/ q[1] >= now
        /\ \A j \in G!Ids : j # i => r.props[j] = paid.props[j]
    BY <1>1, <1>4, ActivateSound
  <2>2. QED
    BY <1>1, <2>1
<1>5. QED
  BY <1>2, <1>3, <1>4

\* r is s after proposal i was deleted with its deposits.
Dropped(s, r, i) ==
    /\ r \in GovStates
    /\ r.props = [s.props EXCEPT ![i] = G!NoProp]
    /\ r.inactive = s.inactive \ {<<s.props[i].depositEnd, i>>}
    /\ r.active = s.active \ {<<s.props[i].votingEnd, i>>}
    /\ r.deposits = [s.deposits EXCEPT ![i] = G!NoDeposits] /\ r.votes = s.votes
    /\ r.bank.bal = s.bank.bal /\ r.bank.gov = s.bank.gov - SumFunction(s.deposits[i])
    /\ r.bank.burned = s.bank.burned + SumFunction(s.deposits[i])
    /\ r.params = s.params /\ r.pool = s.pool

\* DropProposal does that.
LEMMA DropParts ==
    ASSUME GovRules, NEW s \in GovStates, NEW i \in G!Ids
    PROVE  Dropped(s, G!DropProposal(s, i), i)
<1> SUFFICES ASSUME NEW r, r = G!DropProposal(s, i) PROVE Dropped(s, r, i)
  OBVIOUS
<1> DEFINE n == SumFunction(s.deposits[i])
           p == [s.props EXCEPT ![i] = G!NoProp]
           x == s.inactive \ {<<s.props[i].depositEnd, i>>}
           y == s.active \ {<<s.props[i].votingEnd, i>>}
           d == [s.deposits EXCEPT ![i] = G!NoDeposits]
           b == [bal |-> s.bank.bal, gov |-> s.bank.gov - n, burned |-> s.bank.burned + n]
<1>1. /\ s.props \in [G!Ids -> Props] /\ s.inactive \in SUBSET Entries /\ s.active \in SUBSET Entries
      /\ s.deposits \in [G!Ids -> [Accounts -> Nat]] /\ s.votes \in [G!Ids -> Ballots] /\ s.bank \in Bank
      /\ s.params \in {InitParams, NewParams} /\ s.pool \in Nat
      /\ s.bank.bal \in [Accounts -> Nat] /\ s.bank.gov \in Int /\ s.bank.burned \in Nat
  BY GovParts
<1>2. n \in Nat
  <2>1. s.deposits[i] \in [Accounts -> Nat]
    BY <1>1
  <2>2. QED
    BY <2>1, GovFacts, SumNat
<1>3. /\ p \in [G!Ids -> Props] /\ x \in SUBSET Entries /\ y \in SUBSET Entries
      /\ d \in [G!Ids -> [Accounts -> Nat]]
  BY <1>1, GovFacts
<1>4. r = [props |-> p, inactive |-> x, active |-> y, deposits |-> d, votes |-> s.votes,
           bank |-> b, params |-> s.params, pool |-> s.pool]
  BY GovSums DEF GovStates, Bank, G!DropProposal, G!DeleteDeposits
<1> HIDE DEF n
<1>5. b \in Bank /\ b.bal = s.bank.bal /\ b.gov = s.bank.gov - n /\ b.burned = s.bank.burned + n
  BY <1>1, <1>2 DEF Bank
<1> HIDE DEF p, x, y, d, b
<1>6. /\ r \in GovStates /\ r.props = p /\ r.inactive = x /\ r.active = y
      /\ r.deposits = d /\ r.votes = s.votes /\ r.bank = b /\ r.params = s.params
      /\ r.pool = s.pool
  BY <1>1, <1>3, <1>4, <1>5 DEF GovStates
<1>7. r.bank.bal = s.bank.bal /\ r.bank.gov = s.bank.gov - n /\ r.bank.burned = s.bank.burned + n
  BY <1>5, <1>6
<1>8. QED
  BY <1>6, <1>7, Zenon DEF Dropped, p, x, y, d, n

\* A proposal that did not reach the minimum deposit in time leaves nothing behind.
LEMMA DropSound ==
    ASSUME GovRules, NEW s, GovSound(s), NEW i \in G!Ids, s.props[i].status = "deposit",
           NEW r, r = G!DropProposal(s, i)
    PROVE  /\ GovSound(r) /\ r.active = s.active
           /\ r.inactive = s.inactive \ {<<s.props[i].depositEnd, i>>}
           /\ r.props[i].status = "none"
           /\ \A j \in G!Ids : j # i => r.props[j] = s.props[j]
<1>1. /\ s \in GovStates /\ Money(s) /\ Queued(s) /\ Spent(s) /\ s.props \in [G!Ids -> Props]
      /\ s.active \in SUBSET Entries
  BY GovParts DEF GovSound
<1>2. /\ r \in GovStates
      /\ r.props = [s.props EXCEPT ![i] = G!NoProp]
      /\ r.inactive = s.inactive \ {<<s.props[i].depositEnd, i>>}
      /\ r.active = s.active \ {<<s.props[i].votingEnd, i>>}
      /\ r.deposits = [s.deposits EXCEPT ![i] = G!NoDeposits] /\ r.votes = s.votes
      /\ r.bank.bal = s.bank.bal /\ r.bank.gov = s.bank.gov - SumFunction(s.deposits[i])
      /\ r.bank.burned = s.bank.burned + SumFunction(s.deposits[i])
      /\ r.params = s.params /\ r.pool = s.pool
  <2>1. Dropped(s, r, i)
    BY <1>1, DropParts
  <2>2. QED
    BY <2>1 DEF Dropped
<1>3. /\ \A j \in G!Ids : j # i => r.props[j] = s.props[j]
      /\ r.props[i].status = "none" /\ "none" \notin G!Open
  BY <1>1, <1>2, GovFacts
<1>4. r.active = s.active
  <2>1. s.props[i].votingEnd \in Nat
    BY <1>1 DEF Props
  <2>2. <<s.props[i].votingEnd, i>> \notin s.active
    BY <1>1, <2>1 DEF Queued
  <2>3. QED
    BY <1>2, <2>2
<1>5. Money(r)
  <2>1. Released(s, r, i)
    BY <1>2, <1>3 DEF Released
  <2>2. QED
    BY <1>1, <1>2, <2>1, MoneyReleased
<1>6. Queued(r)
  <2>1. ASSUME NEW t \in Nat, NEW j \in G!Ids
        PROVE  /\ <<t, j>> \in r.inactive <=> r.props[j].status = "deposit" /\ t = r.props[j].depositEnd
               /\ <<t, j>> \in r.active <=> r.props[j].status = "voting" /\ t = r.props[j].votingEnd
    <3>1. /\ <<t, j>> \in s.inactive <=> s.props[j].status = "deposit" /\ t = s.props[j].depositEnd
          /\ <<t, j>> \in s.active <=> s.props[j].status = "voting" /\ t = s.props[j].votingEnd
      BY <1>1 DEF Queued
    <3>2. CASE j = i
      BY <1>2, <1>3, <1>4, <3>1, <3>2
    <3>3. CASE j # i
      BY <1>2, <1>3, <1>4, <3>1, <3>3
    <3>4. QED
      BY <3>2, <3>3
  <2>2. \A j \in G!Ids : r.votes[j] # G!NoVotes => r.props[j].status = "voting"
    BY <1>1, <1>2, <1>3 DEF Queued
  <2>3. QED
    BY <2>1, <2>2 DEF Queued
<1>7. Spent(r)
  <2>2. \A j \in G!Ids : (r.props[j].status = "passed" /\ r.props[j].content = "spend")
                          <=> (s.props[j].status = "passed" /\ s.props[j].content = "spend")
    BY <1>3
  <2>3. r \in GovStates /\ r.pool = s.pool
    BY <1>2
  <2>4. QED
    BY <1>1, <2>2, <2>3, SpentSame
<1>9. QED
  BY <1>2, <1>3, <1>4, <1>5, <1>6, <1>7 DEF GovSound

\* r is s after the votes on proposal i were deleted and the deposits released.
Settled(s, r, i) ==
    /\ r \in GovStates
    /\ r.props = s.props /\ r.inactive = s.inactive /\ r.active = s.active
    /\ r.params = s.params /\ r.pool = s.pool
    /\ r.votes = [s.votes EXCEPT ![i] = G!NoVotes]
    /\ r.deposits = [s.deposits EXCEPT ![i] = G!NoDeposits]
    /\ r.bank.gov = s.bank.gov - SumFunction(s.deposits[i])
    /\ \/ /\ r.bank.bal = s.bank.bal
          /\ r.bank.burned = s.bank.burned + SumFunction(s.deposits[i])
       \/ /\ r.bank.bal = [a \in Accounts |-> s.bank.bal[a] + s.deposits[i][a]]
          /\ r.bank.burned = s.bank.burned

\* A bank with another balance of the accounts and of the module account.
LEMMA BankChanged ==
    ASSUME NEW b \in Bank, NEW x, NEW y
    PROVE  [b EXCEPT !.gov = y, !.bal = x] = [bal |-> x, gov |-> y, burned |-> b.burned]
<1> SUFFICES ASSUME NEW c, c = [b EXCEPT !.gov = y, !.bal = x]
             PROVE  c = [bal |-> x, gov |-> y, burned |-> b.burned]
  OBVIOUS
<1>1. QED
  BY DEF Bank

\* Settle does that.
LEMMA SettleParts ==
    ASSUME GovRules, NEW s \in GovStates, NEW i \in G!Ids, NEW burn
    PROVE  Settled(s, G!Settle(s, i, burn), i)
<1> SUFFICES ASSUME NEW r, r = G!Settle(s, i, burn) PROVE Settled(s, r, i)
  OBVIOUS
<1> DEFINE n == SumFunction(s.deposits[i])
           v == [s.votes EXCEPT ![i] = G!NoVotes]
           d == [s.deposits EXCEPT ![i] = G!NoDeposits]
           refunded == [a \in Accounts |-> s.bank.bal[a] + s.deposits[i][a]]
           b1 == [bal |-> s.bank.bal, gov |-> s.bank.gov - n, burned |-> s.bank.burned + n]
           b2 == [bal |-> refunded, gov |-> s.bank.gov - n, burned |-> s.bank.burned]
           built(b) == [props |-> s.props, inactive |-> s.inactive, active |-> s.active,
                        deposits |-> d, votes |-> v, bank |-> b, params |-> s.params, pool |-> s.pool]
<1>1. /\ s.props \in [G!Ids -> Props] /\ s.inactive \in SUBSET Entries /\ s.active \in SUBSET Entries
      /\ s.deposits \in [G!Ids -> [Accounts -> Nat]] /\ s.votes \in [G!Ids -> Ballots] /\ s.bank \in Bank
      /\ s.params \in {InitParams, NewParams} /\ s.pool \in Nat
      /\ s.bank.bal \in [Accounts -> Nat] /\ s.bank.gov \in Int /\ s.bank.burned \in Nat
  BY GovParts
<1>2. n \in Nat
  <2>1. s.deposits[i] \in [Accounts -> Nat]
    BY <1>1
  <2>2. QED
    BY <2>1, GovFacts, SumNat
<1>3. v \in [G!Ids -> Ballots] /\ d \in [G!Ids -> [Accounts -> Nat]] /\ refunded \in [Accounts -> Nat]
  BY <1>1, GovFacts
<1>4. r = built(b1) \/ r = built(b2)
  <2>1. CASE burn
    <3>1. r = G!DeleteDeposits([s EXCEPT !.votes[i] = G!NoVotes], i)
      BY <2>1 DEF G!Settle
    <3>2. r = built(b1)
      BY <3>1, GovSums DEF GovStates, Bank, G!DeleteDeposits
    <3>3. QED
      BY <3>2
  <2>2. CASE ~burn
    <3> DEFINE m == [s EXCEPT !.votes[i] = G!NoVotes]
               mb == [a \in Accounts |-> m.bank.bal[a] + m.deposits[i][a]]
    <3>1. r = G!RefundDeposits(m, i)
      BY <2>2 DEF G!Settle
    <3>2. /\ m.bank = s.bank /\ m.deposits = s.deposits
          /\ m = [props |-> s.props, inactive |-> s.inactive, active |-> s.active, deposits |-> s.deposits,
                  votes |-> v, bank |-> s.bank, params |-> s.params, pool |-> s.pool]
      <4>1. s = [props |-> s.props, inactive |-> s.inactive, active |-> s.active, deposits |-> s.deposits,
                 votes |-> s.votes, bank |-> s.bank, params |-> s.params, pool |-> s.pool]
        BY DEF GovStates
      <4>2. m = [props |-> s.props, inactive |-> s.inactive, active |-> s.active, deposits |-> s.deposits,
                  votes |-> v, bank |-> s.bank, params |-> s.params, pool |-> s.pool]
        BY <4>1
      <4> HIDE DEF m
      <4>3. QED
        BY <4>2
    <3> HIDE DEF m
    <3>3. mb = refunded
      BY <3>2
    <3>4. r = [m EXCEPT !.bank.gov = @ - SumFunction(m.deposits[i]), !.bank.bal = mb,
                        !.deposits[i] = G!NoDeposits]
      BY <3>1, GovSums DEF G!RefundDeposits
    <3> HIDE DEF mb, refunded
    <3>5. [s.bank EXCEPT !.gov = @ - n, !.bal = refunded] = b2
      <4> DEFINE g == s.bank.gov - n
                 sb == s.bank
      <4>1. sb \in Bank
        BY <1>1
      <4> HIDE DEF g, sb
      <4>2. [sb EXCEPT !.gov = g, !.bal = refunded] = [bal |-> refunded, gov |-> g, burned |-> sb.burned]
        BY <4>1, BankChanged
      <4>3. QED
        BY <4>2 DEF g, sb
    <3>9. r = [m EXCEPT !.bank.gov = s.bank.gov - n, !.bank.bal = refunded, !.deposits[i] = G!NoDeposits]
      BY <3>2, <3>3, <3>4
    <3>6. r = [m EXCEPT !.bank = [s.bank EXCEPT !.gov = @ - n, !.bal = refunded], !.deposits = d]
      BY <3>2, <3>9
    <3> HIDE DEF b2, v, d
    <3>7. r = built(b2)
      BY <3>2, <3>5, <3>6
    <3>8. QED
      BY <3>7
  <2>3. QED
    BY <2>1, <2>2
<1> HIDE DEF n, refunded
<1>5. /\ b1 \in Bank /\ b1.bal = s.bank.bal /\ b1.gov = s.bank.gov - n /\ b1.burned = s.bank.burned + n
      /\ b2 \in Bank /\ b2.bal = refunded /\ b2.gov = s.bank.gov - n /\ b2.burned = s.bank.burned
  BY <1>1, <1>2, <1>3 DEF Bank
<1> HIDE DEF v, d, b1, b2
<1>6. PICK b \in {b1, b2} : r = built(b)
  BY <1>4
<1>7. b \in Bank
  BY <1>5, <1>6
<1>8. /\ r \in GovStates /\ r.props = s.props /\ r.inactive = s.inactive /\ r.active = s.active
      /\ r.deposits = d /\ r.votes = v /\ r.bank = b /\ r.params = s.params
      /\ r.pool = s.pool
  BY <1>1, <1>3, <1>6, <1>7 DEF GovStates
<1>9. /\ r.bank.gov = s.bank.gov - n
      /\ \/ r.bank.bal = s.bank.bal /\ r.bank.burned = s.bank.burned + n
         \/ r.bank.bal = refunded /\ r.bank.burned = s.bank.burned
  BY <1>5, <1>6, <1>8
<1>10. QED
  BY <1>8, <1>9, Zenon DEF Settled, d, v, n, refunded

\* r is s after the handler of a content: a spend takes one from the pool.
Enacted(s, r, ok, content) ==
    /\ r \in GovStates
    /\ r.props = s.props /\ r.inactive = s.inactive /\ r.active = s.active
    /\ r.votes = s.votes /\ r.deposits = s.deposits /\ r.bank = s.bank
    /\ r.pool = IF ok /\ content = "spend" THEN s.pool - 1 ELSE s.pool

\* The handler does that, where it may run.
LEMMA EffectParts ==
    ASSUME NEW s \in GovStates, NEW content, NEW ok, ok => G!HandlerOK(content, s)
    PROVE  Enacted(s, IF ok THEN G!HandlerEffect(content, s) ELSE s, ok, content)
<1> SUFFICES ASSUME NEW r, r = IF ok THEN G!HandlerEffect(content, s) ELSE s
             PROVE  Enacted(s, r, ok, content)
  OBVIOUS
<1>1. s.pool \in Nat
  BY GovParts
<1>2. CASE ok /\ content = "spend"
  <2>1. s.pool > 0 /\ r = [s EXCEPT !.pool = @ - 1]
    BY <1>2 DEF G!HandlerOK, G!HandlerEffect
  <2>2. QED
    BY <1>1, <1>2, <2>1 DEF Enacted, GovStates
<1>3. CASE ok /\ content = "params"
  <2>1. r = [s EXCEPT !.params = NewParams]
    BY <1>3 DEF G!HandlerEffect
  <2>2. QED
    BY <1>3, <2>1 DEF Enacted, GovStates
<1>4. CASE ~ok \/ (content # "spend" /\ content # "params")
  <2>1. r = s
    BY <1>4 DEF G!HandlerEffect
  <2>2. QED
    BY <1>4, <2>1 DEF Enacted
<1>5. QED
  BY <1>2, <1>3, <1>4

\* r is s with proposal i closed as st.
ClosedAs(s, r, i, st, end) ==
    /\ r \in GovStates
    /\ r.props = [s.props EXCEPT ![i].status = st] /\ r.active = s.active \ {<<end, i>>}
    /\ r.inactive = s.inactive /\ r.votes = s.votes /\ r.deposits = s.deposits
    /\ r.bank = s.bank /\ r.params = s.params /\ r.pool = s.pool

\* Close does that.
LEMMA CloseParts ==
    ASSUME NEW s \in GovStates, NEW i \in G!Ids, NEW st \in G!Statuses, NEW end
    PROVE  ClosedAs(s, G!Close(s, i, st, end), i, st, end)
<1> SUFFICES ASSUME NEW r, r = G!Close(s, i, st, end) PROVE ClosedAs(s, r, i, st, end)
  OBVIOUS
<1> DEFINE p == [s.props EXCEPT ![i].status = st]
           y == s.active \ {<<end, i>>}
<1>1. /\ s.props \in [G!Ids -> Props] /\ s.inactive \in SUBSET Entries /\ s.active \in SUBSET Entries
      /\ s.deposits \in [G!Ids -> [Accounts -> Nat]] /\ s.votes \in [G!Ids -> Ballots] /\ s.bank \in Bank
      /\ s.params \in {InitParams, NewParams} /\ s.pool \in Nat
  BY GovParts
<1>2. p \in [G!Ids -> Props] /\ y \in SUBSET Entries
  <2>1. [s.props[i] EXCEPT !.status = st] \in Props
    BY <1>1 DEF Props
  <2>2. QED
    BY <1>1, <2>1
<1>3. r = [props |-> p, inactive |-> s.inactive, active |-> y, deposits |-> s.deposits, votes |-> s.votes,
           bank |-> s.bank, params |-> s.params, pool |-> s.pool]
  BY DEF GovStates, G!Close
<1> HIDE DEF p, y
<1>4. /\ r \in GovStates /\ r.props = p /\ r.inactive = s.inactive /\ r.active = y
      /\ r.deposits = s.deposits /\ r.votes = s.votes /\ r.bank = s.bank /\ r.params = s.params
      /\ r.pool = s.pool
  BY <1>1, <1>2, <1>3 DEF GovStates
<1>5. QED
  BY <1>4, Zenon DEF ClosedAs, p, y

\* A proposal whose voting period is over: its deposits are released, it has an outcome,
\* and its handler ran if that is "passed".
LEMMA FinishSound ==
    ASSUME GovRules, NEW s, GovSound(s), NEW i \in G!Ids, s.props[i].status = "voting",
           NEW r, r = G!FinishProposal(s, i)
    PROVE  /\ GovSound(r) /\ r.inactive = s.inactive
           /\ r.active = s.active \ {<<s.props[i].votingEnd, i>>}
           /\ r.props[i].status \in {"passed", "failed", "rejected"}
           /\ \A j \in G!Ids : j # i => r.props[j] = s.props[j]
<1>1. /\ s \in GovStates /\ Money(s) /\ Queued(s) /\ Spent(s) /\ s.props \in [G!Ids -> Props]
      /\ s.votes \in [G!Ids -> Ballots]
  BY GovParts DEF GovSound
<1> DEFINE out == G!Tally(s.votes[i], s.params)
           content == s.props[i].content
           end == s.props[i].votingEnd
           s2 == G!Settle(s, i, out.burn)
           ok == out.passes /\ G!HandlerOK(content, s2)
           s3 == IF ok THEN G!HandlerEffect(content, s2) ELSE s2
           st == IF ok THEN "passed" ELSE IF out.passes THEN "failed" ELSE "rejected"
<1>2. r = G!Close(s3, i, st, end)
  BY Zenon DEF G!FinishProposal
<1> HIDE DEF out
<1>3. Settled(s, s2, i)
  BY <1>1, SettleParts
<1> HIDE DEF s2
<1>4. s2 \in GovStates /\ (ok => G!HandlerOK(content, s2))
  BY <1>3 DEF Settled
<1>5. Enacted(s2, s3, ok, content)
  BY <1>4, EffectParts
<1>6. st \in {"passed", "failed", "rejected"} /\ st \in G!Statuses /\ (st = "passed" <=> ok)
  BY DEF G!Statuses
<1> HIDE DEF s3, ok, st
<1>7. ClosedAs(s3, r, i, st, end)
  <2>1. s3 \in GovStates
    BY <1>5 DEF Enacted
  <2>2. QED
    BY <1>2, <1>6, <2>1, CloseParts
<1>8. /\ r \in GovStates /\ r.props = [s.props EXCEPT ![i].status = st]
      /\ r.inactive = s.inactive /\ r.active = s.active \ {<<end, i>>}
      /\ r.votes = [s.votes EXCEPT ![i] = G!NoVotes]
      /\ r.deposits = [s.deposits EXCEPT ![i] = G!NoDeposits]
      /\ r.pool = IF ok /\ content = "spend" THEN s.pool - 1 ELSE s.pool
      /\ r.bank = s2.bank
  BY <1>3, <1>5, <1>7, Zenon DEF Settled, Enacted, ClosedAs
<1>9. /\ \A j \in G!Ids : j # i => r.props[j] = s.props[j]
      /\ r.props[i].status = st /\ r.props[i].content = content
  <2>1. s.props[i] \in Props
    BY <1>1
  <2>2. QED
    BY <1>1, <1>8, <2>1 DEF Props
<1>10. Money(r)
  <2>1. st \notin G!Open
    BY <1>6 DEF G!Open
  <2>2. Released(s, r, i)
    BY <1>3, <1>8, <1>9, <2>1, Zenon DEF Settled, Released
  <2>3. r \in GovStates
    BY <1>8
  <2>4. QED
    BY <1>1, <2>2, <2>3, MoneyReleased
<1>11. Queued(r)
  <2>1. ASSUME NEW t \in Nat, NEW j \in G!Ids
        PROVE  /\ <<t, j>> \in r.inactive <=> r.props[j].status = "deposit" /\ t = r.props[j].depositEnd
               /\ <<t, j>> \in r.active <=> r.props[j].status = "voting" /\ t = r.props[j].votingEnd
    <3>1. /\ <<t, j>> \in s.inactive <=> s.props[j].status = "deposit" /\ t = s.props[j].depositEnd
          /\ <<t, j>> \in s.active <=> s.props[j].status = "voting" /\ t = s.props[j].votingEnd
      BY <1>1 DEF Queued
    <3>0. r.inactive = s.inactive /\ r.active = s.active \ {<<end, i>>}
      BY <1>8
    <3>2. CASE j = i
      BY <3>0, <1>6, <1>9, <3>1, <3>2
    <3>3. CASE j # i
      BY <3>0, <1>9, <3>1, <3>3
    <3>4. QED
      BY <3>2, <3>3
  <2>2. \A j \in G!Ids : r.votes[j] # G!NoVotes => r.props[j].status = "voting"
    <3>1. \A j \in G!Ids : r.votes[j] = IF j = i THEN G!NoVotes ELSE s.votes[j]
      BY <1>1, <1>8
    <3>2. QED
      BY <1>1, <1>9, <3>1 DEF Queued
  <2>3. QED
    BY <2>1, <2>2 DEF Queued
<1>12. Spent(r)
  <2>0. r \in GovStates /\ r.pool = IF ok /\ content = "spend" THEN s.pool - 1 ELSE s.pool
    BY <1>8
  <2>1. CASE ok /\ content = "spend"
    <3>1. r.pool = s.pool - 1 /\ r.props[i].status = "passed" /\ r.props[i].content = "spend"
      BY <1>6, <1>9, <2>0, <2>1
    <3>2. QED
      BY <1>1, <1>9, <2>0, <3>1, SpentOne
  <2>2. CASE ~(ok /\ content = "spend")
    <3>1. \A j \in G!Ids : (r.props[j].status = "passed" /\ r.props[j].content = "spend")
                          <=> (s.props[j].status = "passed" /\ s.props[j].content = "spend")
      BY <1>6, <1>9, <2>2
    <3>2. r \in GovStates /\ r.pool = s.pool
      BY <2>0, <2>2
    <3>3. QED
      BY <1>1, <3>1, <3>2, SpentSame
  <2>3. QED
    BY <2>1, <2>2
<1>13. QED
  <2>1. r \in GovStates /\ r.inactive = s.inactive /\ r.active = s.active \ {<<end, i>>}
    BY <1>8
  <2>2. GovSound(r)
    BY <1>10, <1>11, <1>12, <2>1 DEF GovSound
  <2>3. QED
    BY <1>6, <1>9, <2>1, <2>2

-----------------------------------------------------------------------------
(* The end blocker *)

\* The order of the entries is total.
LEMMA EntriesOrdered ==
    ASSUME GovRules
    PROVE  /\ \A e \in Entries : ~G!Before(e, e)
           /\ \A e, f \in Entries : e # f => G!Before(e, f) \/ G!Before(f, e)
           /\ \A e, f, g \in Entries : G!Before(e, f) /\ G!Before(f, g) => G!Before(e, g)
<1>1. \A e \in Entries : e = <<e[1], e[2]>> /\ e[1] \in Int /\ e[2] \in Int
  BY GovFacts DEF Entries
<1>2. \A e \in Entries : ~G!Before(e, e)
  BY <1>1 DEF G!Before
<1>3. ASSUME NEW e \in Entries, NEW f \in Entries, e # f PROVE G!Before(e, f) \/ G!Before(f, e)
  <2>1. e[1] # f[1] \/ e[2] # f[2]
    BY <1>1, <1>3
  <2>2. QED
    BY <1>1, <2>1 DEF G!Before
<1>4. \A e, f, g \in Entries : G!Before(e, f) /\ G!Before(f, g) => G!Before(e, g)
  BY <1>1 DEF G!Before
<1>5. QED
  BY <1>2, <1>3, <1>4

\* A finite set of entries has a last one.
LEMMA LastEntry ==
    ASSUME GovRules, NEW D \in SUBSET Entries, IsFiniteSet(D), D # {}
    PROVE  \E m \in D : \A e \in D : e # m => G!Before(e, m)
<1> DEFINE Has(s) == \E m \in s : \A e \in s : e # m => G!Before(e, m)
           Bad == {s \in SUBSET D : s # {} /\ ~Has(s)}
<1>1. SUFFICES ASSUME ~Has(D) PROVE FALSE
  OBVIOUS
<1>2. Bad # {} /\ \A s \in Bad : IsFiniteSet(s)
  <2>1. D \in Bad
    BY <1>1
  <2>2. QED
    BY <2>1, FS_Subset
<1> HIDE DEF Bad
<1>3. PICK s \in Bad : \A u \in Bad : ~(Cardinality(u) < Cardinality(s))
  BY <1>2, SmallestSet
<1>4. s \in SUBSET D /\ s # {} /\ ~Has(s) /\ IsFiniteSet(s) /\ s \subseteq Entries
  BY <1>2, <1>3 DEF Bad
<1>5. PICK x \in s : TRUE
  BY <1>4
<1> DEFINE u == s \ {x}
<1>6. Cardinality(u) < Cardinality(s) /\ u \cup {x} = s /\ u \in SUBSET D /\ x \notin u
  BY <1>4, <1>5, OneLess
<1>7. CASE u = {}
  <2>1. s = {x}
    BY <1>6, <1>7
  <2>2. Has(s)
    BY <2>1
  <2>3. QED
    BY <1>4, <2>2
<1>8. CASE u # {}
  <2>1. Has(u)
    BY <1>3, <1>6, <1>8 DEF Bad
  <2> HIDE DEF u
  <2>2. PICK m \in u : \A e \in u : e # m => G!Before(e, m)
    BY <2>1
  <2>3. m \in Entries /\ x \in Entries /\ m # x /\ m \in s /\ \A e \in s : e \in Entries /\ (e \in u \/ e = x)
    BY <1>4, <1>6, <2>2
  <2>4. CASE G!Before(x, m)
    <3>1. \A e \in s : e # m => G!Before(e, m)
      BY <2>2, <2>3, <2>4
    <3>2. QED
      BY <1>4, <2>3, <3>1
  <2>5. CASE G!Before(m, x)
    <3>1. \A e \in s : e # x => G!Before(e, x)
      BY <2>2, <2>3, <2>5, EntriesOrdered
    <3>2. QED
      BY <1>4, <1>5, <3>1
  <2>6. QED
    BY <2>3, <2>4, <2>5, EntriesOrdered
<1>9. QED
  BY <1>7, <1>8

\* q lists the entries of D in order.
Sorted(q, D) ==
    /\ q \in [1 .. Cardinality(D) -> D]
    /\ \A j, k \in 1 .. Cardinality(D) : j < k => G!Before(q[j], q[k])

\* A finite set of entries can be listed in order.
LEMMA SortedExists ==
    ASSUME GovRules, NEW D \in SUBSET Entries, IsFiniteSet(D)
    PROVE  \E q : Sorted(q, D)
<1> DEFINE Has(s) == \E q : Sorted(q, s)
           Bad == {s \in SUBSET D : ~Has(s)}
<1>1. SUFFICES ASSUME ~Has(D) PROVE FALSE
  OBVIOUS
<1>2. Bad # {} /\ \A s \in Bad : IsFiniteSet(s)
  <2>1. D \in Bad
    BY <1>1
  <2>2. QED
    BY <2>1, FS_Subset
<1> HIDE DEF Bad
<1>3. PICK s \in Bad : \A u \in Bad : ~(Cardinality(u) < Cardinality(s))
  BY <1>2, SmallestSet
<1>4. s \in SUBSET D /\ ~Has(s) /\ IsFiniteSet(s) /\ s \subseteq Entries
  BY <1>2, <1>3 DEF Bad
<1> DEFINE n == Cardinality(s)
<1>5. n \in Nat
  BY <1>4, FS_CardinalityType
<1>6. CASE s = {}
  <2>1. n = 0
    BY <1>6, FS_EmptySet
  <2> DEFINE q == [j \in 1 .. 0 |-> 0]
  <2>2. q \in [1 .. 0 -> s]
    OBVIOUS
  <2>3. Sorted(q, s)
    BY <2>1, <2>2 DEF Sorted
  <2>4. QED
    BY <1>4, <2>3
<1>7. CASE s # {}
  <2>1. PICK m \in s : \A e \in s : e # m => G!Before(e, m)
    BY <1>4, <1>7, LastEntry
  <2> DEFINE u == s \ {m}
  <2>2. /\ Cardinality(u) < Cardinality(s) /\ u \in SUBSET D /\ m \notin u
        /\ \A e \in u : e \in s /\ G!Before(e, m)
    BY <1>4, <2>1, OneLess
  <2>3. Cardinality(u) = n - 1
    BY <1>4, <2>1, FS_RemoveElement
  <2>4. Has(u)
    BY <1>3, <2>2 DEF Bad
  <2> HIDE DEF u, n
  <2>5. PICK q : Sorted(q, u)
    BY <2>4
  <2> DEFINE r == [k \in 1 .. n |-> IF k = n THEN m ELSE q[k]]
  <2>6. ASSUME NEW k \in 1 .. n, k # n PROVE k \in 1 .. (n - 1) /\ q[k] \in u /\ r[k] = q[k]
    BY <1>5, <2>3, <2>5, <2>6 DEF Sorted
  <2>7. r \in [1 .. n -> s]
    BY <2>1, <2>2, <2>6
  <2>8. ASSUME NEW j \in 1 .. n, NEW k \in 1 .. n, j < k PROVE G!Before(r[j], r[k])
    <3>1. j # n /\ r[j] = q[j] /\ q[j] \in u /\ j \in 1 .. (n - 1)
      BY <1>5, <2>6, <2>8
    <3>2. CASE k = n
      <4>1. r[k] = m
        BY <3>2
      <4>2. QED
        BY <2>2, <3>1, <4>1
    <3>3. CASE k # n
      <4>1. r[k] = q[k] /\ k \in 1 .. (n - 1)
        BY <2>6, <3>3
      <4>2. G!Before(q[j], q[k])
        BY <2>3, <2>5, <2>8, <3>1, <4>1 DEF Sorted
      <4>3. QED
        BY <3>1, <4>1, <4>2
    <3>4. QED
      BY <3>2, <3>3
  <2> HIDE DEF r
  <2>9. Sorted(r, s)
    BY <2>7, <2>8 DEF Sorted, n
  <2>10. QED
    BY <1>4, <2>9
<1>8. QED
  BY <1>6, <1>7

\* InOrder lists every entry, once.
LEMMA InOrderFacts ==
    ASSUME GovRules, NEW D \in SUBSET Entries, IsFiniteSet(D)
    PROVE  /\ Cardinality(D) \in Nat
           /\ G!InOrder(D) \in [1 .. Cardinality(D) -> D]
           /\ \A j, k \in 1 .. Cardinality(D) : j # k => G!InOrder(D)[j] # G!InOrder(D)[k]
           /\ \A e \in D : \E k \in 1 .. Cardinality(D) : G!InOrder(D)[k] = e
<1> DEFINE n == Cardinality(D)
           q == G!InOrder(D)
<1>1. n \in Nat
  BY FS_CardinalityType
<1>2. PICK z : Sorted(z, D)
  BY SortedExists
<1>3. Sorted(q, D)
  <2>1. z \in [1 .. n -> D] /\ \A j, k \in DOMAIN z : j < k => G!Before(z[j], z[k])
    BY <1>2 DEF Sorted
  <2>2. q \in [1 .. n -> D] /\ \A j, k \in DOMAIN q : j < k => G!Before(q[j], q[k])
    BY <2>1, GovSums, Zenon DEF G!InOrder
  <2> HIDE DEF q
  <2>3. QED
    BY <2>2 DEF Sorted
<1> HIDE DEF q
<1>4. q \in [1 .. n -> D]
  BY <1>3 DEF Sorted
<1>5. ASSUME NEW j \in 1 .. n, NEW k \in 1 .. n, j # k PROVE q[j] # q[k]
  <2>1. G!Before(q[j], q[k]) \/ G!Before(q[k], q[j])
    BY <1>1, <1>3, <1>5 DEF Sorted
  <2>2. q[j] \in Entries
    BY <1>4
  <2>3. QED
    BY <2>1, <2>2, EntriesOrdered
<1>6. q \in Injection(1 .. n, D)
  BY <1>4, <1>5 DEF Injection, IsInjective
<1>7. Cardinality(1 .. n) = n
  BY <1>1, FS_Interval
<1>8. q \in Surjection(1 .. n, D)
  BY <1>6, <1>7, FS_Injection
<1>9. QED
  BY <1>1, <1>4, <1>5, <1>8 DEF q, Surjection

\* f has the states the end blocker goes through on the first n entries of q.
Runs(f, which, s, q, n) ==
    f = [k \in 0 .. n |-> IF k = 0 THEN s ELSE G!Handle(which, f[k - 1], q[k][2])]

\* There are such states.
LEMMA RunsExist ==
    ASSUME NEW which, NEW s, NEW q, NEW n \in Nat
    PROVE  \E f : Runs(f, which, s, q, n)
<1> DEFINE T == {m \in Nat : ~\E f : Runs(f, which, s, q, m)}
<1>1. SUFFICES ASSUME T # {} PROVE FALSE
  OBVIOUS
<1>2. PICK m \in T : \A k \in T : m <= k
  BY <1>1, LeastNumber
<1>3. m \in Nat /\ ~\E f : Runs(f, which, s, q, m)
  BY <1>2
<1>4. CASE m = 0
  <2> DEFINE g == [k \in 0 .. 0 |-> s]
  <2>1. g = [k \in 0 .. 0 |-> IF k = 0 THEN s ELSE G!Handle(which, g[k - 1], q[k][2])]
    OBVIOUS
  <2> HIDE DEF g
  <2>2. Runs(g, which, s, q, m)
    BY <1>4, <2>1 DEF Runs
  <2>3. QED
    BY <1>3, <2>2
<1>5. CASE m # 0
  <2>1. m - 1 \in Nat /\ m - 1 \notin T
    BY <1>2, <1>3, <1>5
  <2>2. PICK f : Runs(f, which, s, q, m - 1)
    BY <2>1
  <2> DEFINE g == [k \in 0 .. m |-> IF k = m THEN G!Handle(which, f[m - 1], q[m][2]) ELSE f[k]]
  <2>3. ASSUME NEW k \in 0 .. m
        PROVE  g[k] = IF k = 0 THEN s ELSE G!Handle(which, g[k - 1], q[k][2])
    <3>1. CASE k = m
      <4>1. m - 1 \in 0 .. m /\ m - 1 # m
        BY <2>1
      <4>2. g[m - 1] = f[m - 1] /\ g[m] = G!Handle(which, f[m - 1], q[m][2])
        BY <1>3, <4>1
      <4>3. QED
        BY <1>5, <3>1, <4>2
    <3>2. CASE k # m
      <4>1. k \in 0 .. (m - 1) /\ g[k] = f[k]
        BY <1>3, <3>2
      <4>2. f[k] = IF k = 0 THEN s ELSE G!Handle(which, f[k - 1], q[k][2])
        BY <2>2, <4>1 DEF Runs
      <4>3. k # 0 => k - 1 \in 0 .. m /\ k - 1 # m
        BY <1>3, <4>1
      <4>4. k # 0 => g[k - 1] = f[k - 1]
        BY <4>3
      <4> HIDE DEF g
      <4>5. QED
        BY <4>1, <4>2, <4>4
    <3>3. QED
      BY <3>1, <3>2
  <2>4. DOMAIN g = 0 .. m /\ g = [k \in 0 .. m |-> g[k]]
    OBVIOUS
  <2> HIDE DEF g
  <2>5. Runs(g, which, s, q, m)
    BY <2>3, <2>4 DEF Runs
  <2>6. QED
    BY <1>3, <2>5
<1>6. QED
  BY <1>4, <1>5

\* Sweep ends in the last of them.
LEMMA SweepRuns ==
    ASSUME NEW which, NEW s, NEW D, Cardinality(D) \in Nat
    PROVE  \E f : Runs(f, which, s, G!InOrder(D), Cardinality(D)) /\ G!Sweep(which, s, D) = f[Cardinality(D)]
<1> DEFINE n == Cardinality(D)
           q == G!InOrder(D)
           st == CHOOSE f : Runs(f, which, s, q, n)
<1>1. \E f : Runs(f, which, s, q, n)
  BY RunsExist
<1>2. Runs(st, which, s, q, n)
  BY <1>1
<1>3. G!Sweep(which, s, D) = st[n]
  BY GovSums, Zenon DEF G!Sweep, Runs
<1> HIDE DEF st
<1>4. QED
  BY <1>2, <1>3

Queue(which, s) == IF which = "inactive" THEN s.inactive ELSE s.active
Other(which, s) == IF which = "inactive" THEN s.active ELSE s.inactive

\* An entry is handled: it leaves its queue, and the other queue is as it was.
LEMMA HandleSound ==
    ASSUME GovRules, NEW which \in {"inactive", "active"}, NEW s, GovSound(s),
           NEW e \in Queue(which, s), NEW r, r = G!Handle(which, s, e[2])
    PROVE  /\ GovSound(r) /\ Queue(which, r) = Queue(which, s) \ {e}
           /\ Other(which, r) = Other(which, s)
           /\ \A j \in G!Ids : s.props[j].status = "none" => r.props[j].status = "none"
<1>1. s \in GovStates /\ Queued(s) /\ s.inactive \in SUBSET Entries /\ s.active \in SUBSET Entries
  BY GovParts DEF GovSound
<1>2. PICK t \in Nat, i \in G!Ids : e = <<t, i>> /\ e[2] = i
  BY <1>1 DEF Queue, Entries
<1>3. CASE which = "inactive"
  <2>1. s.props[i].status = "deposit" /\ e = <<s.props[i].depositEnd, i>>
    BY <1>1, <1>2, <1>3 DEF Queue, Queued
  <2>2. r = G!DropProposal(s, i)
    BY <1>2, <1>3 DEF G!Handle
  <2>3. /\ GovSound(r) /\ r.active = s.active
        /\ r.inactive = s.inactive \ {<<s.props[i].depositEnd, i>>}
        /\ r.props[i].status = "none"
        /\ \A j \in G!Ids : j # i => r.props[j] = s.props[j]
    BY <2>1, <2>2, DropSound
  <2>4. QED
    BY <1>3, <2>1, <2>3 DEF Queue, Other
<1>4. CASE which = "active"
  <2>1. s.props[i].status = "voting" /\ e = <<s.props[i].votingEnd, i>>
    BY <1>1, <1>2, <1>4 DEF Queue, Queued
  <2>2. r = G!FinishProposal(s, i)
    BY <1>2, <1>4 DEF G!Handle
  <2>3. /\ GovSound(r) /\ r.inactive = s.inactive
        /\ r.active = s.active \ {<<s.props[i].votingEnd, i>>}
        /\ \A j \in G!Ids : j # i => r.props[j] = s.props[j]
    BY <2>1, <2>2, FinishSound
  <2>4. QED
    BY <1>4, <2>1, <2>3 DEF Queue, Other
<1>5. QED
  BY <1>3, <1>4

\* The entries of a queue are finitely many.
LEMMA QueueFinite ==
    ASSUME GovRules, NEW which \in {"inactive", "active"}, NEW s, GovSound(s)
    PROVE  IsFiniteSet(Queue(which, s)) /\ Queue(which, s) \in SUBSET Entries
<1>1. s \in GovStates /\ Queued(s) /\ s.inactive \in SUBSET Entries /\ s.active \in SUBSET Entries
  BY GovParts DEF GovSound
<1> DEFINE Q == Queue(which, s)
           J == {j \in G!Ids : \E t \in Nat : <<t, j>> \in Q}
           end(j) == IF which = "inactive" THEN s.props[j].depositEnd ELSE s.props[j].votingEnd
           f == [j \in J |-> <<end(j), j>>]
<1>2. Q \in SUBSET Entries
  BY <1>1 DEF Queue
<1>3. ASSUME NEW t \in Nat, NEW j \in G!Ids, <<t, j>> \in Q PROVE t = end(j)
  BY <1>1, <1>3 DEF Queue, Queued
<1> HIDE DEF Q, end
<1>4. \A e \in Q : e[2] \in J /\ e = <<end(e[2]), e[2]>>
  <2>1. SUFFICES ASSUME NEW e \in Q PROVE e[2] \in J /\ e = <<end(e[2]), e[2]>>
    OBVIOUS
  <2>2. PICK t \in Nat, j \in G!Ids : e = <<t, j>>
    BY <1>2 DEF Entries
  <2>3. QED
    BY <1>3, <2>2
<1>5. \A j \in J : <<end(j), j>> \in Q
  BY <1>3
<1>6. IsFiniteSet(J)
  <2>1. J \in SUBSET G!Ids
    OBVIOUS
  <2>2. QED
    BY <2>1, GovFacts, FS_Subset
<1>7. f \in Surjection(J, Q)
  <2>1. f \in [J -> Q]
    BY <1>5
  <2>2. \A e \in Q : \E j \in J : f[j] = e
    BY <1>4
  <2>3. QED
    BY <2>1, <2>2 DEF Surjection
<1> HIDE DEF J, f
<1>8. IsFiniteSet(Q)
  BY <1>6, <1>7, FS_Surjection
<1>9. QED
  BY <1>2, <1>8 DEF Q

\* Handling entries one after the other takes exactly these out of their queue.
LEMMA SweepSound ==
    ASSUME GovRules, NEW which \in {"inactive", "active"}, NEW s, GovSound(s),
           NEW D \in SUBSET Queue(which, s), NEW r, r = G!Sweep(which, s, D)
    PROVE  /\ GovSound(r) /\ Queue(which, r) = Queue(which, s) \ D
           /\ Other(which, r) = Other(which, s)
           /\ \A j \in G!Ids : s.props[j].status = "none" => r.props[j].status = "none"
<1> DEFINE n == Cardinality(D)
           q == G!InOrder(D)
<1>1. D \in SUBSET Entries /\ IsFiniteSet(D)
  <2>1. IsFiniteSet(Queue(which, s)) /\ Queue(which, s) \in SUBSET Entries
    BY QueueFinite
  <2>2. QED
    BY <2>1, FS_Subset
<1>2. /\ n \in Nat /\ q \in [1 .. n -> D]
      /\ \A j, k \in 1 .. n : j # k => q[j] # q[k]
      /\ \A e \in D : \E k \in 1 .. n : q[k] = e
  BY <1>1, InOrderFacts
<1>3. PICK f : Runs(f, which, s, q, n) /\ r = f[n]
  BY <1>2, SweepRuns
<1> HIDE DEF n, q
<1>4. f[0] = s /\ \A k \in 1 .. n : f[k] = G!Handle(which, f[k - 1], q[k][2])
  BY <1>2, <1>3 DEF Runs
<1> DEFINE Handled(k) == {q[j] : j \in 1 .. k}
           Q0(k) == /\ GovSound(f[k]) /\ Queue(which, f[k]) = Queue(which, s) \ Handled(k)
                   /\ Other(which, f[k]) = Other(which, s)
                   /\ \A j \in G!Ids : s.props[j].status = "none" => f[k].props[j].status = "none"
           T == {k \in 0 .. n : ~Q0(k)}
<1>5. T = {}
  <2>1. SUFFICES ASSUME T # {} PROVE FALSE
    OBVIOUS
  <2>2. T \subseteq Nat
    BY <1>2
  <2>3. PICK k \in T : \A m \in T : k <= m
    BY <2>1, <2>2, LeastNumber
  <2>4. k \in 0 .. n /\ ~Q0(k)
    BY <2>3
  <2>5. k # 0
    <3>1. Handled(0) = {}
      OBVIOUS
    <3>2. Q0(0)
      BY <1>4, <3>1
    <3>3. QED
      BY <2>4, <3>2
  <2>6. k \in 1 .. n /\ k - 1 \in 0 .. n /\ k - 1 \notin T
    BY <1>2, <2>3, <2>4, <2>5
  <2>7. Q0(k - 1)
    BY <2>6
  <2>8. q[k] \in Queue(which, s) /\ q[k] \notin Handled(k - 1)
    <3>1. q[k] \in D
      BY <1>2, <2>6
    <3>2. \A j \in 1 .. (k - 1) : j \in 1 .. n /\ j # k
      BY <1>2, <2>6
    <3>3. QED
      BY <1>2, <2>6, <3>1, <3>2
  <2>9. Handled(k) = Handled(k - 1) \cup {q[k]}
    <3>1. \A j : j \in 1 .. k <=> j \in 1 .. (k - 1) \/ j = k
      BY <1>2, <2>6
    <3>2. QED
      BY <3>1
  <2> DEFINE a == f[k - 1]
             b == f[k]
             e == q[k]
             H == Handled(k - 1)
             H2 == Handled(k)
  <2>10. /\ GovSound(a) /\ Queue(which, a) = Queue(which, s) \ H /\ Other(which, a) = Other(which, s)
         /\ \A j \in G!Ids : s.props[j].status = "none" => a.props[j].status = "none"
    BY <2>7
  <2>11. b = G!Handle(which, a, e[2])
    BY <1>4, <2>6
  <2>12. e \in Queue(which, s) /\ e \notin H /\ H2 = H \cup {e}
    BY <2>8, <2>9
  <2>13. ~(/\ GovSound(b) /\ Queue(which, b) = Queue(which, s) \ H2
           /\ Other(which, b) = Other(which, s)
           /\ \A j \in G!Ids : s.props[j].status = "none" => b.props[j].status = "none")
    BY <2>4
  <2> HIDE DEF a, b, e, H, H2
  <2>14. e \in Queue(which, a)
    BY <2>10, <2>12
  <2>15. /\ GovSound(b) /\ Queue(which, b) = Queue(which, a) \ {e}
         /\ Other(which, b) = Other(which, a)
         /\ \A j \in G!Ids : a.props[j].status = "none" => b.props[j].status = "none"
    BY <2>10, <2>11, <2>14, HandleSound
  <2>16. QED
    BY <2>10, <2>12, <2>13, <2>15
<1>6. Q0(n)
  <2>1. n \in 0 .. n
    BY <1>2
  <2>2. QED
    BY <1>5, <2>1
<1>7. Handled(n) = D
  BY <1>2
<1> HIDE DEF Handled
<1>8. QED
  BY <1>3, <1>6, <1>7

-----------------------------------------------------------------------------
(* The actions *)

\* The state has the parts the variables have.
LEMMA StateParts ==
    /\ G!State.props = props /\ G!State.inactive = inactive /\ G!State.active = active
    /\ G!State.deposits = deposits /\ G!State.votes = ballots /\ G!State.bank = bank
    /\ G!State.params = params /\ G!State.pool = pool
  BY DEF G!State

\* What a state becomes.
LEMMA BecomesState ==
    ASSUME NEW t \in GovStates, G!Becomes(t)
    PROVE  /\ G!State' = t /\ props' = t.props /\ inactive' = t.inactive /\ active' = t.active
<1>1. /\ props' = t.props /\ inactive' = t.inactive /\ active' = t.active
      /\ deposits' = t.deposits /\ ballots' = t.votes /\ bank' = t.bank
      /\ params' = t.params /\ pool' = t.pool
  BY DEF G!Becomes
<1>2. t = [props |-> t.props, inactive |-> t.inactive, active |-> t.active, deposits |-> t.deposits,
           votes |-> t.votes, bank |-> t.bank, params |-> t.params, pool |-> t.pool]
  BY DEF GovStates
<1>3. G!State' = [props |-> props', inactive |-> inactive', active |-> active', deposits |-> deposits',
                votes |-> ballots', bank |-> bank', params |-> params', pool |-> pool']
  BY DEF G!State
<1>4. QED
  BY <1>1, <1>2, <1>3

\* At genesis there is no proposal.
LEMMA GovInvInit ==
    ASSUME GovRules, G!Init
    PROVE  GovInv
<1> DEFINE s == G!State
           zero == [i \in G!Ids |-> 0]
<1>1. /\ s.props = [i \in G!Ids |-> G!NoProp] /\ s.inactive = {} /\ s.active = {}
      /\ s.deposits = [i \in G!Ids |-> G!NoDeposits] /\ s.votes = [i \in G!Ids |-> G!NoVotes]
      /\ s.bank = [bal |-> [a \in Accounts |-> InitBal], gov |-> 0, burned |-> 0]
      /\ s.params = InitParams /\ s.pool = InitPool
  BY DEF G!Init, G!State
<1>2. /\ G!NoProp \in Props /\ G!NoDeposits \in [Accounts -> Nat] /\ G!NoVotes \in Ballots
      /\ InitBal \in Nat /\ InitPool \in Nat /\ IsFiniteSet(G!Ids) /\ IsFiniteSet(Accounts)
      /\ G!NoProp.status = "none" /\ "none" \notin G!Open
  BY GovFacts
<1>3. s \in GovStates
  <2>1. s.bank \in Bank
    BY <1>1, <1>2 DEF Bank
  <2>2. s.props \in [G!Ids -> Props] /\ s.deposits \in [G!Ids -> [Accounts -> Nat]] /\ s.votes \in [G!Ids -> Ballots]
    BY <1>1, <1>2
  <2>3. s = [props |-> s.props, inactive |-> s.inactive, active |-> s.active, deposits |-> s.deposits,
             votes |-> s.votes, bank |-> s.bank, params |-> s.params, pool |-> s.pool]
    BY DEF G!State
  <2> HIDE DEF s
  <2>4. QED
    BY <1>1, <1>2, <2>1, <2>2, <2>3 DEF GovStates
<1> HIDE DEF s
<1>4. SumFunction(G!NoDeposits) = 0
  <2>1. G!NoDeposits \in [Accounts -> Int] /\ \A a \in Accounts : G!NoDeposits[a] = 0
    BY DEF G!NoDeposits
  <2>2. QED
    BY <1>2, <2>1, SumFacts
<1>5. \A i \in G!Ids : SumFunction(s.deposits[i]) = 0
  BY <1>1, <1>4
<1>6. SumFunction(Given(s.deposits)) = 0
  <2> DEFINE g == Given(s.deposits)
  <2>1. g \in [G!Ids -> Int] /\ \A i \in G!Ids : g[i] = 0
    BY <1>5 DEF Given
  <2> HIDE DEF g
  <2>2. SumFunction(g) = 0
    BY <1>2, <2>1, SumFacts
  <2>3. QED
    BY <2>2 DEF g
<1>7. SumFunction(s.bank.bal) = InitBal * Cardinality(Accounts)
  <2> DEFINE b == [a \in Accounts |-> InitBal]
  <2>1. b \in [Accounts -> Int] /\ \A a \in Accounts : b[a] = InitBal
    BY <1>2
  <2>2. s.bank.bal = b
    BY <1>1
  <2> HIDE DEF b
  <2>3. SumFunction(b) = InitBal * Cardinality(Accounts)
    BY <1>2, <2>1, SumConstant
  <2>4. QED
    BY <2>2, <2>3
<1>8. Money(s)
  <2>1. s.bank.gov = 0 /\ s.bank.burned = 0
    BY <1>1
  <2>2. \A i \in G!Ids : s.props[i].status \notin G!Open
    BY <1>1, <1>2
  <2> DEFINE all == InitBal * Cardinality(Accounts)
  <2>3. all \in Int
    BY <1>2, FS_CardinalityType
  <2> HIDE DEF all
  <2>4. SumFunction(s.bank.bal) + s.bank.gov + s.bank.burned = all
    BY <1>7, <2>1, <2>3 DEF all
  <2>5. QED
    BY <1>5, <1>6, <2>1, <2>2, <2>4 DEF Money, all
<1>9. Queued(s)
  BY <1>1, <1>2 DEF Queued
<1>10. Spent(s)
  <2>1. PassedSpends(s.props) = {}
    BY <1>1, <1>2 DEF PassedSpends
  <2>2. Cardinality({}) = 0
    BY FS_EmptySet
  <2>3. s.pool = InitPool /\ InitPool - 0 = InitPool
    BY <1>1, <1>2
  <2>4. QED
    BY <2>1, <2>2, <2>3 DEF Spent
<1>11. GovSound(G!State)
  BY <1>3, <1>8, <1>9, <1>10 DEF GovSound, s
<1>12. /\ now \in 0 .. MaxTime /\ nextId \in 1 .. (MaxProposals + 1) /\ stake \in Stakes
       /\ \A e \in inactive \cup active : e[1] >= now
       /\ \A i \in G!Ids : props[i].status = "none"
  BY <1>2, GovFacts DEF G!Init
<1>13. QED
  BY <1>11, <1>12 DEF GovInv

\* A new proposal, before its first deposit.
New(i, content) ==
    [G!State EXCEPT !.props[i] = [G!NoProp EXCEPT !.status = "deposit", !.content = content,
                                              !.depositEnd = now + MaxDepositPeriod],
                  !.inactive = @ \cup {<<now + MaxDepositPeriod, i>>}]

\* It is in the inactive queue, and nothing was deposited on it.
LEMMA NewSound ==
    ASSUME GovRules, GovInv, NEW i \in G!Ids, i = nextId, NEW content \in Contents, NEW r, r = New(i, content)
    PROVE  /\ GovSound(r) /\ r.props[i].status = "deposit" /\ r.bank = bank
           /\ \A e \in r.inactive \cup r.active : e \in inactive \cup active \/ e[1] >= now
           /\ \A j \in G!Ids : j # i => r.props[j] = props[j]
<1> DEFINE s == G!State
           end == now + MaxDepositPeriod
           new == [G!NoProp EXCEPT !.status = "deposit", !.content = content, !.depositEnd = end]
           p == [s.props EXCEPT ![i] = new]
           x == s.inactive \cup {<<end, i>>}
<1>1. /\ s \in GovStates /\ Money(s) /\ Queued(s) /\ Spent(s) /\ s.props[i].status = "none"
      /\ now \in Nat /\ nextId \in Nat
  BY GovFacts, StateParts DEF GovInv, GovSound
<1>2. /\ s.props \in [G!Ids -> Props] /\ s.inactive \in SUBSET Entries /\ s.active \in SUBSET Entries
      /\ s.deposits \in [G!Ids -> [Accounts -> Nat]] /\ s.votes \in [G!Ids -> Ballots] /\ s.bank \in Bank
      /\ s.params \in {InitParams, NewParams} /\ s.pool \in Nat
  BY <1>1, GovParts
<1>3. end \in Nat /\ end >= now
  BY <1>1, GovFacts
<1>4. r = [props |-> p, inactive |-> x, active |-> s.active, deposits |-> s.deposits, votes |-> s.votes,
           bank |-> s.bank, params |-> s.params, pool |-> s.pool]
  BY DEF New, G!State
<1> HIDE DEF end, s
<1>5. /\ new \in Props /\ new.status = "deposit" /\ new.total = 0 /\ new.depositEnd = end
      /\ new.content = content
  BY <1>3 DEF G!NoProp, Props, G!Statuses
<1> HIDE DEF new
<1>6. p \in [G!Ids -> Props] /\ x \in SUBSET Entries
  BY <1>2, <1>3, <1>5 DEF Entries
<1> HIDE DEF p, x
<1>7. /\ r \in GovStates /\ r.props = p /\ r.inactive = x /\ r.active = s.active
      /\ r.deposits = s.deposits /\ r.votes = s.votes /\ r.bank = s.bank /\ r.params = s.params
      /\ r.pool = s.pool
  BY <1>2, <1>4, <1>6 DEF GovStates
<1>8. r.props[i] = new /\ \A j \in G!Ids : j # i => r.props[j] = s.props[j]
  BY <1>2, <1>7 DEF p
<1>9. Money(r)
  <2>1. \A j \in G!Ids : (IF r.props[j].status \in G!Open THEN r.props[j].total ELSE 0)
                          = (IF s.props[j].status \in G!Open THEN s.props[j].total ELSE 0)
    BY <1>1, <1>5, <1>8 DEF G!Open
  <2>2. r \in GovStates /\ r.bank = s.bank /\ r.deposits = s.deposits
    BY <1>7
  <2>3. QED
    BY <1>1, <2>1, <2>2, MoneySame
<1>10. Queued(r)
  <2>1. ASSUME NEW t \in Nat, NEW j \in G!Ids
        PROVE  /\ <<t, j>> \in r.inactive <=> r.props[j].status = "deposit" /\ t = r.props[j].depositEnd
               /\ <<t, j>> \in r.active <=> r.props[j].status = "voting" /\ t = r.props[j].votingEnd
    <3>1. /\ <<t, j>> \in s.inactive <=> s.props[j].status = "deposit" /\ t = s.props[j].depositEnd
          /\ <<t, j>> \in s.active <=> s.props[j].status = "voting" /\ t = s.props[j].votingEnd
      BY <1>1 DEF Queued
    <3>0. r.inactive = s.inactive \cup {<<end, i>>} /\ r.active = s.active
      BY <1>7 DEF x
    <3>2. CASE j = i
      BY <1>1, <1>5, <1>8, <3>0, <3>1, <3>2
    <3>3. CASE j # i
      BY <1>8, <3>0, <3>1, <3>3
    <3>4. QED
      BY <3>2, <3>3
  <2>2. \A j \in G!Ids : r.votes[j] # G!NoVotes => r.props[j].status = "voting"
    BY <1>1, <1>7, <1>8 DEF Queued
  <2>3. QED
    BY <2>1, <2>2 DEF Queued
<1>11. Spent(r)
  <2>2. \A j \in G!Ids : (r.props[j].status = "passed" /\ r.props[j].content = "spend")
                          <=> (s.props[j].status = "passed" /\ s.props[j].content = "spend")
    BY <1>1, <1>5, <1>8
  <2>3. r \in GovStates /\ r.pool = s.pool
    BY <1>7
  <2>4. QED
    BY <1>1, <2>2, <2>3, SpentSame
<1>12. \A e \in r.inactive \cup r.active : e \in s.inactive \cup s.active \/ e[1] >= now
  BY <1>3, <1>7 DEF x
<1>13. s.props = props /\ s.inactive = inactive /\ s.active = active /\ s.bank = bank
  BY StateParts DEF s
<1>14. QED
  BY <1>5, <1>7, <1>8, <1>9, <1>10, <1>11, <1>12, <1>13 DEF GovSound

\* A sound state that is not overdue, with ids not given out, is one of the invariant.
LEMMA BecomesInv ==
    ASSUME GovRules, NEW t, GovSound(t), G!Becomes(t),
           now' \in 0 .. MaxTime, nextId' \in 1 .. (MaxProposals + 1), stake' \in Stakes,
           \A e \in t.inactive \cup t.active : e[1] >= now',
           \A i \in G!Ids : i >= nextId' => t.props[i].status = "none"
    PROVE  GovInv'
<1>1. t \in GovStates
  BY DEF GovSound
<1>2. /\ G!State' = t /\ props' = t.props /\ inactive' = t.inactive /\ active' = t.active
  BY <1>1, BecomesState
<1>3. GovSound(G!State')
  BY <1>2
<1>4. QED
  BY <1>2, <1>3 DEF GovInv

\* MsgSubmitProposal.
LEMMA SubmitStep ==
    ASSUME GovRules, GovInv, NEW a \in Accounts, NEW c \in Contents, NEW amt \in Amounts,
           G!SubmitProposal(a, c, amt)
    PROVE  GovInv'
<1> DEFINE i == nextId
           s == New(i, c)
           t == G!AddDeposit(s, i, a, amt)
<1>1. /\ i \in G!Ids /\ bank.bal[a] >= amt /\ G!Becomes(t) /\ nextId' = i + 1 /\ now' = now /\ stake' = stake
  BY Zenon DEF G!SubmitProposal, New
<1>2. amt \in Nat /\ now \in Nat /\ MaxProposals \in Nat /\ G!Ids \subseteq Nat
  BY GovFacts DEF GovInv
<1>3. /\ GovSound(s) /\ s.props[i].status = "deposit" /\ s.bank = bank
      /\ \A e \in s.inactive \cup s.active : e \in inactive \cup active \/ e[1] >= now
      /\ \A j \in G!Ids : j # i => s.props[j] = props[j]
  BY <1>1, NewSound
<1> HIDE DEF s
<1>4. /\ GovSound(t)
      /\ \A e \in t.inactive \cup t.active : e \in s.inactive \cup s.active \/ e[1] >= now
      /\ \A j \in G!Ids : j # i => t.props[j] = s.props[j]
  <2>1. s.bank.bal[a] >= amt /\ s.props[i].status \in G!Open
    BY <1>1, <1>3 DEF G!Open
  <2>2. QED
    BY <1>1, <1>2, <1>3, <2>1, AddDepositSound
<1> HIDE DEF t
<1>5. \A e \in t.inactive \cup t.active : e[1] >= now'
  BY <1>1, <1>3, <1>4 DEF GovInv
<1>6. \A j \in G!Ids : j >= nextId' => t.props[j].status = "none"
  BY <1>1, <1>2, <1>3, <1>4 DEF GovInv
<1>7. now' \in 0 .. MaxTime /\ nextId' \in 1 .. (MaxProposals + 1) /\ stake' \in Stakes
  BY <1>1, <1>2 DEF GovInv, G!Ids
<1>8. QED
  BY <1>1, <1>4, <1>5, <1>6, <1>7, BecomesInv

\* MsgDeposit.
LEMMA DepositStep ==
    ASSUME GovRules, GovInv, NEW a \in Accounts, NEW i \in G!Ids, NEW amt \in Amounts, G!Deposit(a, i, amt)
    PROVE  GovInv'
<1> DEFINE s == G!State
           t == G!AddDeposit(s, i, a, amt)
<1>1. /\ props[i].status \in G!Open /\ bank.bal[a] >= amt /\ G!Becomes(t)
      /\ nextId' = nextId /\ now' = now /\ stake' = stake
  BY DEF G!Deposit
<1>2. amt \in Nat /\ now \in Nat /\ GovSound(s) /\ "none" \notin G!Open
  BY GovFacts DEF GovInv
<1>3. s.props = props /\ s.bank = bank /\ s.inactive = inactive /\ s.active = active
  BY StateParts
<1> HIDE DEF s
<1>4. /\ GovSound(t)
      /\ \A e \in t.inactive \cup t.active : e \in s.inactive \cup s.active \/ e[1] >= now
      /\ \A j \in G!Ids : j # i => t.props[j] = s.props[j]
  <2>1. s.bank.bal[a] >= amt /\ s.props[i].status \in G!Open
    BY <1>1, <1>3
  <2>2. QED
    BY <1>1, <1>2, <2>1, AddDepositSound
<1> HIDE DEF t
<1>5. \A e \in t.inactive \cup t.active : e[1] >= now'
  BY <1>1, <1>3, <1>4 DEF GovInv
<1>6. \A j \in G!Ids : j >= nextId' => t.props[j].status = "none"
  BY <1>1, <1>2, <1>3, <1>4 DEF GovInv
<1>7. now' \in 0 .. MaxTime /\ nextId' \in 1 .. (MaxProposals + 1) /\ stake' \in Stakes
  BY <1>1 DEF GovInv
<1>8. QED
  BY <1>1, <1>4, <1>5, <1>6, <1>7, BecomesInv

\* EndBlocker: what is due leaves both queues.
LEMMA EndBlockStep ==
    ASSUME GovRules, GovInv, G!EndBlock
    PROVE  GovInv'
<1> DEFINE s == G!State
           m == G!Sweep("inactive", s, G!Due(inactive))
           t == G!Sweep("active", m, G!Due(active))
<1>1. /\ G!Becomes(t) /\ nextId' = nextId /\ stake' = stake
      /\ now' = IF now < MaxTime THEN now + 1 ELSE now
  BY DEF G!EndBlock
<1>2. GovSound(s) /\ now \in Nat /\ MaxTime \in Nat /\ now <= MaxTime
  BY GovFacts DEF GovInv
<1>3. s.props = props /\ s.inactive = inactive /\ s.active = active
  BY StateParts
<1>4. s.inactive \in SUBSET Entries /\ s.active \in SUBSET Entries
  BY <1>2, GovParts DEF GovSound
<1> HIDE DEF s
<1>5. /\ GovSound(m) /\ m.inactive = inactive \ G!Due(inactive) /\ m.active = active
      /\ \A j \in G!Ids : props[j].status = "none" => m.props[j].status = "none"
  <2>1. G!Due(inactive) \in SUBSET Queue("inactive", s)
    BY <1>3 DEF Queue, G!Due
  <2>2. /\ GovSound(m) /\ Queue("inactive", m) = Queue("inactive", s) \ G!Due(inactive)
        /\ Other("inactive", m) = Other("inactive", s)
        /\ \A j \in G!Ids : s.props[j].status = "none" => m.props[j].status = "none"
    BY <1>2, <2>1, SweepSound
  <2> HIDE DEF m
  <2>3. QED
    BY <1>3, <2>2 DEF Queue, Other
<1> HIDE DEF m
<1>6. /\ GovSound(t) /\ t.inactive = inactive \ G!Due(inactive) /\ t.active = active \ G!Due(active)
      /\ \A j \in G!Ids : props[j].status = "none" => t.props[j].status = "none"
  <2>1. G!Due(active) \in SUBSET Queue("active", m)
    BY <1>5 DEF Queue, G!Due
  <2>2. /\ GovSound(t) /\ Queue("active", t) = Queue("active", m) \ G!Due(active)
        /\ Other("active", t) = Other("active", m)
        /\ \A j \in G!Ids : m.props[j].status = "none" => t.props[j].status = "none"
    BY <1>5, <2>1, SweepSound
  <2> HIDE DEF t
  <2>3. QED
    BY <1>5, <2>2 DEF Queue, Other
<1> HIDE DEF t
<1>7. \A e \in t.inactive \cup t.active : e[1] >= now'
  <2>1. ASSUME NEW e \in t.inactive \cup t.active PROVE e[1] >= now'
    <3>1. e \in inactive \cup active /\ ~(e[1] <= now)
      BY <1>6 DEF G!Due
    <3>2. e[1] \in Nat
      BY <1>3, <1>4, <3>1 DEF Entries
    <3>3. QED
      BY <1>1, <1>2, <3>1, <3>2
  <2>2. QED
    BY <2>1
<1>8. \A j \in G!Ids : j >= nextId' => t.props[j].status = "none"
  BY <1>1, <1>6 DEF GovInv
<1>9. now' \in 0 .. MaxTime /\ nextId' \in 1 .. (MaxProposals + 1) /\ stake' \in Stakes
  <2>1. nextId' \in 1 .. (MaxProposals + 1) /\ stake' \in Stakes
    BY <1>1 DEF GovInv
  <2>2. now' \in 0 .. MaxTime
    BY <1>1, <1>2
  <2>3. QED
    BY <2>1, <2>2
<1>10. QED
  BY <1>1, <1>6, <1>7, <1>8, <1>9, BecomesInv

\* A vote on a proposal that is voted on.
LEMMA AddVoteStep ==
    ASSUME GovRules, GovInv, NEW a \in Accounts, NEW i \in G!Ids, NEW v \in Votes, G!AddVote(a, i, v)
    PROVE  GovInv'
<1> DEFINE s == G!State
           b == [ballots EXCEPT ![i][a] = v]
           r == [G!State EXCEPT !.votes = b]
<1>1. /\ props[i].status = "voting" /\ ballots' = b
      /\ UNCHANGED <<now, nextId, props, inactive, active, deposits, bank, params, pool, stake>>
  BY DEF G!AddVote
<1>2. s \in GovStates /\ Money(s) /\ Queued(s) /\ Spent(s)
  BY DEF GovInv, GovSound
<1>3. /\ s.props = props /\ s.votes = ballots /\ ballots \in [G!Ids -> Ballots]
      /\ s.inactive = inactive /\ s.active = active
  BY <1>2, GovParts, StateParts
<1>4. b \in [G!Ids -> Ballots] /\ \A j \in G!Ids : j # i => b[j] = ballots[j]
  <2>1. [ballots[i] EXCEPT ![a] = v] \in Ballots
    BY <1>3 DEF Ballots
  <2>2. QED
    BY <1>3, <2>1
<1>5. /\ r \in GovStates /\ r.props = s.props /\ r.inactive = s.inactive /\ r.active = s.active
      /\ r.deposits = s.deposits /\ r.bank = s.bank /\ r.pool = s.pool /\ r.votes = b
      /\ r.params = s.params
  <2>1. /\ s.props \in [G!Ids -> Props] /\ s.inactive \in SUBSET Entries /\ s.active \in SUBSET Entries
        /\ s.deposits \in [G!Ids -> [Accounts -> Nat]] /\ s.bank \in Bank
        /\ s.params \in {InitParams, NewParams} /\ s.pool \in Nat
    BY <1>2, GovParts
  <2>2. r = [props |-> s.props, inactive |-> s.inactive, active |-> s.active, deposits |-> s.deposits,
             votes |-> b, bank |-> s.bank, params |-> s.params, pool |-> s.pool]
    BY DEF G!State
  <2> HIDE DEF s, r, b
  <2>3. QED
    BY <1>4, <2>1, <2>2 DEF GovStates
<1>6. G!Becomes(r)
  <2>1. s.props = props /\ s.inactive = inactive /\ s.active = active /\ s.deposits = deposits
        /\ s.bank = bank /\ s.params = params /\ s.pool = pool
    BY StateParts
  <2> HIDE DEF s, r
  <2>2. QED
    BY <1>1, <1>5, <2>1 DEF G!Becomes
<1> HIDE DEF s, r, b
<1>7. Money(r)
  <2>1. r \in GovStates /\ r.bank = s.bank /\ r.deposits = s.deposits /\ r.props = s.props
    BY <1>5
  <2>2. QED
    BY <1>2, <2>1, MoneySame
<1>8. Spent(r)
  <2>1. r \in GovStates /\ r.pool = s.pool /\ r.props = s.props
    BY <1>5
  <2>2. QED
    BY <1>2, <2>1, SpentSame
<1>9. Queued(r)
  <2>1. \A j \in G!Ids : r.votes[j] # G!NoVotes => r.props[j].status = "voting"
    BY <1>1, <1>2, <1>3, <1>4, <1>5 DEF Queued
  <2>2. r.props = s.props /\ r.inactive = s.inactive /\ r.active = s.active
    BY <1>5
  <2>3. QED
    BY <1>2, <2>1, <2>2 DEF Queued
<1>10. GovSound(r)
  BY <1>5, <1>7, <1>8, <1>9 DEF GovSound
<1>11. /\ now' \in 0 .. MaxTime /\ nextId' \in 1 .. (MaxProposals + 1) /\ stake' \in Stakes
       /\ \A e \in r.inactive \cup r.active : e[1] >= now'
       /\ \A j \in G!Ids : j >= nextId' => r.props[j].status = "none"
  BY <1>1, <1>3, <1>5 DEF GovInv
<1>12. QED
  BY <1>6, <1>10, <1>11, BecomesInv

\* Every step preserves the invariant.
LEMMA GovInvStep ==
    ASSUME GovRules, GovInv, [G!Next]_(G!vars)
    PROVE  GovInv'
<1>1. ASSUME UNCHANGED <<now, nextId, props, inactive, active, deposits, ballots, bank, params, pool>>,
             stake' \in Stakes
      PROVE  GovInv'
  <2>1. G!State' = G!State
    BY <1>1 DEF G!State
  <2>2. GovSound(G!State')
    BY <2>1 DEF GovInv
  <2>3. QED
    BY <1>1, <2>2 DEF GovInv
<1>2. CASE UNCHANGED G!vars
  BY <1>1, <1>2 DEF G!vars, GovInv
<1>3. ASSUME NEW s \in Stakes, G!Restake(s) PROVE GovInv'
  BY <1>1, <1>3 DEF G!Restake
<1>4. CASE G!Next
  BY <1>3, <1>4, SubmitStep, DepositStep, AddVoteStep, EndBlockStep DEF G!Next
<1>5. QED
  BY <1>2, <1>4

\* What the invariant says of the four properties.
LEMMA GovInvProperties ==
    ASSUME GovRules, GovInv
    PROVE  G!TypeOK /\ G!ModuleAccountInvariant /\ G!QueuesMatchStatus /\ G!SpendsMatchPassed
<1> DEFINE s == G!State
<1>1. s \in GovStates /\ Money(s) /\ Queued(s) /\ Spent(s)
  BY DEF GovInv, GovSound
<1>2. /\ s.props = props /\ s.inactive = inactive /\ s.active = active /\ s.deposits = deposits
      /\ s.votes = ballots /\ s.bank = bank /\ s.params = params /\ s.pool = pool
  BY StateParts
<1> HIDE DEF s
<1>3. /\ props \in [G!Ids -> Props] /\ inactive \in SUBSET Entries /\ active \in SUBSET Entries
      /\ deposits \in [G!Ids -> [Accounts -> Nat]] /\ ballots \in [G!Ids -> Ballots]
      /\ bank.bal \in [Accounts -> Nat] /\ bank.burned \in Nat
      /\ params \in {InitParams, NewParams} /\ pool \in Nat
  BY <1>1, <1>2, GovParts
<1>4. G!ModuleAccountInvariant
  BY <1>1, <1>2, GovSums DEF Money, Given, G!ModuleAccountInvariant
<1>5. G!SpendsMatchPassed
  BY <1>1, <1>2, GovSums DEF Spent, PassedSpends, G!SpendsMatchPassed
<1>6. G!QueuesMatchStatus
  <2>1. ASSUME NEW e
        PROVE  e \in inactive <=> e \in {<<props[i].depositEnd, i>> : i \in {j \in G!Ids : props[j].status = "deposit"}}
    <3>1. ASSUME e \in inactive
          PROVE  e \in {<<props[i].depositEnd, i>> : i \in {j \in G!Ids : props[j].status = "deposit"}}
      <4>1. PICK t \in Nat, i \in G!Ids : e = <<t, i>>
        BY <1>3, <3>1 DEF Entries
      <4>2. props[i].status = "deposit" /\ t = props[i].depositEnd
        BY <1>1, <1>2, <3>1, <4>1 DEF Queued
      <4>3. QED
        BY <4>1, <4>2
    <3>2. ASSUME e \in {<<props[i].depositEnd, i>> : i \in {j \in G!Ids : props[j].status = "deposit"}}
          PROVE  e \in inactive
      <4>1. PICK i \in G!Ids : props[i].status = "deposit" /\ e = <<props[i].depositEnd, i>>
        BY <3>2
      <4>2. props[i].depositEnd \in Nat
        BY <1>3 DEF Props
      <4>3. QED
        BY <1>1, <1>2, <4>1, <4>2 DEF Queued
    <3>3. QED
      BY <3>1, <3>2
  <2>2. ASSUME NEW e
        PROVE  e \in active <=> e \in {<<props[i].votingEnd, i>> : i \in {j \in G!Ids : props[j].status = "voting"}}
    <3>1. ASSUME e \in active
          PROVE  e \in {<<props[i].votingEnd, i>> : i \in {j \in G!Ids : props[j].status = "voting"}}
      <4>1. PICK t \in Nat, i \in G!Ids : e = <<t, i>>
        BY <1>3, <3>1 DEF Entries
      <4>2. props[i].status = "voting" /\ t = props[i].votingEnd
        BY <1>1, <1>2, <3>1, <4>1 DEF Queued
      <4>3. QED
        BY <4>1, <4>2
    <3>2. ASSUME e \in {<<props[i].votingEnd, i>> : i \in {j \in G!Ids : props[j].status = "voting"}}
          PROVE  e \in active
      <4>1. PICK i \in G!Ids : props[i].status = "voting" /\ e = <<props[i].votingEnd, i>>
        BY <3>2
      <4>2. props[i].votingEnd \in Nat
        BY <1>3 DEF Props
      <4>3. QED
        BY <1>1, <1>2, <4>1, <4>2 DEF Queued
    <3>3. QED
      BY <3>1, <3>2
  <2>3. inactive = {<<props[i].depositEnd, i>> : i \in {j \in G!Ids : props[j].status = "deposit"}}
    BY <2>1
  <2>4. active = {<<props[i].votingEnd, i>> : i \in {j \in G!Ids : props[j].status = "voting"}}
    BY <2>2
  <2>5. /\ \A e \in inactive \cup active : e[1] >= now
        /\ \A i \in G!Ids : ballots[i] # G!NoVotes => props[i].status = "voting"
    BY <1>1, <1>2 DEF GovInv, Queued
  <2>6. QED
    BY <2>3, <2>4, <2>5 DEF G!QueuesMatchStatus
<1>7. G!TypeOK
  <2>1. bank.gov \in Nat
    <3> DEFINE g == Given(deposits)
    <3>1. \A i \in G!Ids : deposits[i] \in [Accounts -> Nat]
      BY <1>3
    <3>2. \A i \in G!Ids : SumFunction(deposits[i]) \in Nat
      BY <3>1, GovFacts, SumNat
    <3>3. g \in [G!Ids -> Nat]
      BY <3>2 DEF Given
    <3> HIDE DEF g
    <3>4. SumFunction(g) \in Nat
      BY <3>3, GovFacts, SumNat
    <3>5. bank.gov = SumFunction(g)
      BY <1>1, <1>2 DEF Money, g
    <3>6. QED
      BY <3>4, <3>5
  <2>2. pool \in 0 .. InitPool
    <3> DEFINE S == PassedSpends(props)
    <3>1. S \in SUBSET G!Ids
      BY DEF PassedSpends
    <3> HIDE DEF S
    <3>2. Cardinality(S) \in Nat /\ InitPool \in Nat
      BY <3>1, GovFacts, FS_Subset, FS_CardinalityType
    <3>3. pool = InitPool - Cardinality(S)
      BY <1>1, <1>2 DEF Spent, S
    <3>4. QED
      BY <1>3, <3>2, <3>3
  <2>3. \A i \in G!Ids : props[i].status \in G!Statuses /\ props[i].content \in Contents \cup {"text"}
    BY <1>3 DEF Props
  <2>4. \A i \in G!Ids, a \in Accounts : ballots[i][a] \in Votes \cup {G!NoVote}
    BY <1>3 DEF Ballots
  <2>5. inactive \subseteq (Nat \X G!Ids) /\ active \subseteq (Nat \X G!Ids)
    BY <1>3 DEF Entries
  <2>6. now \in 0 .. MaxTime /\ nextId \in 1 .. (MaxProposals + 1) /\ stake \in Stakes
    BY DEF GovInv
  <2>7. QED
    BY <1>3, <2>1, <2>2, <2>3, <2>4, <2>5, <2>6 DEF G!TypeOK
<1>8. QED
  BY <1>4, <1>5, <1>6, <1>7

\* The inductive invariant of governance: deposits, queues and statuses fit together, and
\* the pool paid for the spends that passed.
THEOREM GovInvHolds ==
    ASSUME GovRules
    PROVE  G!Spec => []GovInv
<1>1. G!Init => GovInv
  BY GovInvInit
<1>2. GovInv /\ [G!Next]_(G!vars) => GovInv'
  BY GovInvStep
<1>3. QED
  BY <1>1, <1>2, PTL DEF G!Spec

\* The module account holds exactly the deposits in the store, which are those on open
\* proposals; the two queues are exact; a failing handler leaves no trace in the pool.
THEOREM GovernanceSafe ==
    ASSUME GovRules
    PROVE  G!Spec => [](G!TypeOK /\ G!ModuleAccountInvariant /\ G!QueuesMatchStatus /\ G!SpendsMatchPassed)
<1>1. GovInv => G!TypeOK /\ G!ModuleAccountInvariant /\ G!QueuesMatchStatus /\ G!SpendsMatchPassed
  BY GovInvProperties
<1>2. QED
  BY <1>1, GovInvHolds, PTL
=============================================================================
