---------------------------- MODULE BurnRequests ----------------------------
(***************************************************************************)
(* Burn requests: a light node asks over Kafka that coins be burnt, the    *)
(* burn consumer puts a task on TxQueue for every request, the worker      *)
(* submits MsgBurnStableCoin and sends a reply with the returned RECs, and *)
(* only a task that succeeded marks its request as consumed.               *)
(*                                                                         *)
(* A request is its offset in the topic, counted from 1.  Marks are        *)
(* cumulative, as in sarama: marking an offset covers all smaller ones.    *)
(* The claims of a session end at a rebalance; tasks of the old session    *)
(* stay on TxQueue, and their marks then reach nobody.                     *)
(***************************************************************************)
EXTENDS Integers, Sequences, FiniteSets

CONSTANTS
    NumRequests,    \* bound: requests sent
    Malformed,      \* offsets of requests that are no JSON
    AmountOf(_),    \* coins a request asks to burn
    OneREC,         \* coins per REC
    Coins,          \* coins of the target account at the start
    Collateral,     \* RECs held as collateral at the start
    QueueCap,       \* capacity of TxQueue
    MaxTimeouts,    \* bound: timeouts of BroadcastTxCommit
    MaxErrors,      \* bound: other failures of a submission
    MaxLostReplies, \* bound: replies Kafka does not take
    MaxRestarts     \* bound: crashes and rebalances

Requests == 1 .. NumRequests

\* What the constants are.
BurnAssumption ==
    /\ NumRequests \in Nat
    /\ Malformed \subseteq Requests
    /\ \A r \in Requests : AmountOf(r) \in Nat
    /\ OneREC \in Nat \ {0}
    /\ Coins \in Nat /\ Collateral \in Nat
    /\ QueueCap \in Nat \ {0}

VARIABLES
    produced,   \* requests in the topic
    position,   \* last offset the current claim handed out
    holding,    \* the request the consumer is about to send to TxQueue, or 0
    session,    \* number of the consumer group session
    marked,     \* highest offset marked in the current session
    committed,  \* highest offset committed with the broker, or -1
    queue,      \* burn tasks on TxQueue: request and session
    task,       \* the task the worker runs
    at,         \* where the worker is
    result,     \* RECs the answer of the chain returns
    coins,      \* the target's aeil
    recs,       \* RECs held as collateral
    pending,    \* burn transactions in the mempool: request and whether awaited
    burns,      \* history: committed burns per request
    told,       \* history: RECs named in success replies
    replied,    \* history: requests answered with "success"
    refused,    \* history: requests answered with "err"
    settled,    \* history: requests a task was finished for
    skipped,    \* history: requests a restart at the newest offset passes over
    events      \* history: how often each bounded event happened

kafkaVars == <<produced, position, holding, session, marked, committed>>
workerVars == <<queue, task, at, result>>
chainVars == <<coins, recs, pending>>
historyVars == <<burns, told, replied, refused, settled, skipped, events>>
vars == <<kafkaVars, workerVars, chainVars, historyVars>>

NoTask == [request |-> 0, session |-> 0]
Kinds == {"timeout", "error", "lost", "crash", "rebalance"}
Restarts == events["crash"] + events["rebalance"]
Happens(kind, bound) ==
    /\ events[kind] < bound
    /\ events' = [events EXCEPT ![kind] = @ + 1]

\* RECs a burn gives back.
RecsFor(r) == AmountOf(r) \div OneREC

\* Whether the keeper's BurnStableCoin would succeed now.
Burnable(r) == AmountOf(r) <= coins /\ RecsFor(r) <= recs

\* Where a new claim starts: after the committed offset, or at the newest
\* message when there is none (OffsetNewest).
ResumeAt(offset) == IF offset = -1 THEN produced ELSE offset

\* The worker leaves its task.
TaskDone ==
    /\ at' = "idle"
    /\ task' = NoTask
    /\ settled' = settled \cup {task.request}

-----------------------------------------------------------------------------
Init ==
    /\ produced = 0 /\ position = 0 /\ holding = 0
    /\ session = 1 /\ marked = 0 /\ committed = -1
    /\ queue = <<>> /\ task = NoTask /\ at = "idle" /\ result = 0
    /\ coins = Coins /\ recs = Collateral /\ pending = <<>>
    /\ burns = [r \in Requests |-> 0]
    /\ told = 0 /\ replied = {}
    /\ refused = {} /\ settled = {} /\ skipped = {}
    /\ events = [k \in Kinds |-> 0]

(* A light node sends a request. *)
Request ==
    /\ produced < NumRequests
    /\ produced' = produced + 1
    /\ UNCHANGED <<position, holding, session, marked, committed, workerVars,
                   chainVars, historyVars>>

(* ConsumeClaim takes the next message of the claim. *)
Fetch ==
    /\ holding = 0
    /\ position < produced
    /\ position' = position + 1
    /\ holding' = position + 1
    /\ UNCHANGED <<produced, session, marked, committed, workerVars, chainVars,
                   historyVars>>

(* Its send on TxQueue. *)
Enqueue ==
    /\ holding # 0
    /\ Len(queue) < QueueCap
    /\ queue' = Append(queue, [request |-> holding, session |-> session])
    /\ holding' = 0
    /\ UNCHANGED <<produced, position, session, marked, committed, task, at,
                   result, chainVars, historyVars>>

-----------------------------------------------------------------------------
(* The worker *)

(* Wrong: the request is marked before the burn is tried. *)
TakeMarksFirst ==
    /\ at = "idle"
    /\ queue # <<>>
    /\ task' = Head(queue)
    /\ queue' = Tail(queue)
    /\ at' = "parse"
    /\ marked' = IF Head(queue).session = session /\ Head(queue).request > marked
                 THEN Head(queue).request ELSE marked
    /\ UNCHANGED <<produced, position, holding, session, committed, result,
                   chainVars, historyVars>>

(* The next task is started. *)
Take ==
    /\ at = "idle"
    /\ queue # <<>>
    /\ task' = Head(queue)
    /\ queue' = Tail(queue)
    /\ at' = "parse"
    /\ UNCHANGED <<kafkaVars, result, chainVars, historyVars>>

(* Wrong: a request that cannot be read stops the worker. *)
ParseSkips ==
    /\ at = "parse"
    /\ task.request \notin Malformed
    /\ at' = "submit"
    /\ UNCHANGED <<kafkaVars, queue, task, result, chainVars, historyVars>>

(* The request is read, or it is no JSON. *)
Parse ==
    /\ at = "parse"
    /\ at' = IF task.request \in Malformed THEN "err" ELSE "submit"
    /\ UNCHANGED <<kafkaVars, queue, task, result, chainVars, historyVars>>

(* BurnStableCoinCLI up to the broadcast: the simulation passes, the
   transaction enters the mempool and the worker waits in BroadcastTxCommit. *)
Submit ==
    /\ at = "submit"
    /\ Burnable(task.request)
    /\ pending' = Append(pending, [request |-> task.request, awaited |-> TRUE])
    /\ at' = "wait"
    /\ UNCHANGED <<kafkaVars, queue, task, result, coins, recs, historyVars>>

(* An account query, the simulation, the signature or the encoding fails.  A
   burn the keeper would refuse always ends here. *)
SubmitFails ==
    /\ at = "submit"
    /\ \/ ~Burnable(task.request) /\ UNCHANGED events
       \/ Happens("error", MaxErrors)
    /\ at' = "err"
    /\ UNCHANGED <<kafkaVars, queue, task, result, chainVars, burns, told,
                   replied, refused, settled, skipped>>

(* Wrong: a timeout sends the burn again. *)
TimeoutRetries ==
    /\ at = "wait"
    /\ Happens("timeout", MaxTimeouts)
    /\ pending' = [i \in DOMAIN pending |-> [pending[i] EXCEPT !.awaited = FALSE]]
    /\ at' = "submit"
    /\ UNCHANGED <<kafkaVars, queue, task, result, coins, recs, burns, told,
                   replied, refused, settled, skipped>>

(* BroadcastTxCommit gives up; the transaction stays in the mempool. *)
Timeout ==
    /\ at = "wait"
    /\ Happens("timeout", MaxTimeouts)
    /\ pending' = [i \in DOMAIN pending |-> [pending[i] EXCEPT !.awaited = FALSE]]
    /\ at' = "err"
    /\ UNCHANGED <<kafkaVars, queue, task, result, coins, recs, burns, told,
                   replied, refused, settled, skipped>>

\* The answer of the chain to a burn that succeeded, as the worker decodes it;
\* and two wrong ways: an answer without RECs leaves the last answer in place,
\* or is taken for a failure.
AnsweredStale(r) == at' = "reply" /\ result' = IF RecsFor(r) = 0 THEN result ELSE RecsFor(r)
AnsweredEmptyIsError(r) ==
    /\ at' = IF RecsFor(r) = 0 THEN "err" ELSE "reply"
    /\ result' = RecsFor(r)
Answered(r) == at' = "reply" /\ result' = RecsFor(r)

(* A block executes the oldest burn; what the keeper refuses by now fails in
   DeliverTx, which is an error for a worker that still waits. *)
Deliver ==
    /\ pending # <<>>
    /\ pending' = Tail(pending)
    /\ LET tx == Head(pending) IN
       \/ /\ Burnable(tx.request)
          /\ coins' = coins - AmountOf(tx.request)
          /\ recs' = recs - RecsFor(tx.request)
          /\ burns' = [burns EXCEPT ![tx.request] = @ + 1]
          /\ IF tx.awaited THEN Answered(tx.request) ELSE UNCHANGED <<at, result>>
       \/ /\ ~Burnable(tx.request)
          /\ at' = IF tx.awaited THEN "err" ELSE at
          /\ UNCHANGED <<coins, recs, burns, result>>
    /\ UNCHANGED <<kafkaVars, queue, task, told, replied, refused, settled,
                   skipped, events>>

(* The error branches: a reply with "err", whose own failure is ignored, and
   no mark. *)
ReplyErr ==
    /\ at = "err"
    /\ \/ refused' = refused \cup {task.request} /\ UNCHANGED events
       \/ UNCHANGED refused /\ Happens("lost", MaxLostReplies)
    /\ TaskDone
    /\ UNCHANGED <<kafkaVars, queue, result, chainVars, burns, told, replied,
                   skipped>>

(* The success reply; when Kafka does not take it, the task goes on. *)
Reply ==
    /\ at = "reply"
    /\ at' = "mark"
    /\ \/ /\ told' = told + result
          /\ replied' = replied \cup {task.request}
          /\ UNCHANGED events
       \/ Happens("lost", MaxLostReplies) /\ UNCHANGED <<told, replied>>
    /\ UNCHANGED <<kafkaVars, queue, task, result, chainVars, burns, refused,
                   settled, skipped>>

(* MarkMessage, which only a live session takes, and never moves back. *)
Mark ==
    /\ at = "mark"
    /\ marked' = IF task.session = session /\ task.request > marked
                 THEN task.request ELSE marked
    /\ TaskDone
    /\ UNCHANGED <<produced, position, holding, session, committed, queue,
                   result, chainVars, burns, told, replied, refused, skipped,
                   events>>

-----------------------------------------------------------------------------
(* Offsets, rebalances and crashes *)

\* What the broker knows once the marks are flushed.
Flushed == IF marked > committed /\ marked > 0 THEN marked ELSE committed

(* sarama's periodic commit of the marks. *)
AutoCommit ==
    /\ Flushed # committed
    /\ committed' = Flushed
    /\ UNCHANGED <<produced, position, holding, session, marked, workerVars,
                   chainVars, historyVars>>

(* A new claim starts at the resume point.  Without a committed offset that is
   the newest message, and requests not finished yet are passed over. *)
NewClaim(offset) ==
    /\ position' = ResumeAt(offset)
    /\ marked' = 0
    /\ session' = session + 1
    /\ holding' = 0
    /\ skipped' = skipped \cup IF offset = -1 THEN (1 .. produced) \ settled ELSE {}

(* The group rebalances: the claim ends (ConsumeClaim has sent what it held),
   the marks are flushed, Consume is called again. *)
Rebalance ==
    /\ Restarts < MaxRestarts
    /\ Happens("rebalance", MaxRestarts)
    /\ holding = 0
    /\ committed' = Flushed
    /\ NewClaim(Flushed)
    /\ UNCHANGED <<produced, workerVars, chainVars, burns, told, replied,
                   refused, settled>>

(* The bridge dies and is started again. *)
Crash ==
    /\ Restarts < MaxRestarts
    /\ Happens("crash", MaxRestarts)
    /\ NewClaim(committed)
    /\ queue' = <<>> /\ task' = NoTask /\ at' = "idle" /\ result' = 0
    /\ pending' = [i \in DOMAIN pending |-> [pending[i] EXCEPT !.awaited = FALSE]]
    /\ UNCHANGED <<produced, committed, coins, recs, burns, told, replied,
                   refused, settled>>

Next ==
    \/ Request \/ Fetch \/ Enqueue
    \/ Take \/ Parse \/ Submit \/ SubmitFails \/ Timeout
    \/ Deliver \/ ReplyErr \/ Reply \/ Mark
    \/ AutoCommit \/ Rebalance \/ Crash

Spec == Init /\ [][Next]_vars

\* The goroutines of a running bridge are scheduled, and blocks keep coming.
Fairness ==
    /\ WF_vars(Fetch)
    /\ WF_vars(Enqueue)
    /\ WF_vars(Take)
    /\ WF_vars(Parse)
    /\ WF_vars(SubmitFails \/ Submit)
    /\ WF_vars(ReplyErr)
    /\ WF_vars(Deliver)
    /\ WF_vars(Reply)
    /\ WF_vars(Mark)

FairSpec == Spec /\ Fairness

-----------------------------------------------------------------------------
(* Properties *)

\* Type invariant.
TypeOK ==
    /\ produced \in 0 .. NumRequests
    /\ position \in 0 .. produced
    /\ holding \in 0 .. produced
    /\ session \in Nat /\ marked \in 0 .. produced
    /\ committed \in -1 .. produced
    /\ queue \in Seq([request : Requests, session : Nat]) /\ Len(queue) <= QueueCap
    /\ task \in [request : 0 .. NumRequests, session : Nat]
    /\ at \in {"idle", "parse", "submit", "wait", "err", "reply", "mark"}
    /\ result \in Nat
    /\ coins \in Nat /\ recs \in Nat
    /\ pending \in Seq([request : Requests, awaited : BOOLEAN])
    /\ burns \in [Requests -> Nat]
    /\ told \in Nat
    /\ replied \subseteq Requests /\ refused \subseteq Requests
    /\ settled \subseteq Requests /\ skipped \subseteq Requests
    /\ events \in [Kinds -> Nat]

\* A request is burnt a second time only if the consumer was restarted in
\* between: a restart hands the request out again when its mark was lost, or
\* when its task of the old session is still on TxQueue.  Timeouts, failures
\* and late commits alone never burn twice.
BurnsBoundedByRestarts == \A r \in Requests : burns[r] <= 1 + Restarts

\* The offset the broker keeps never runs ahead of the work: a request below it
\* was finished, although failed requests are not marked and a later success
\* marks them with its own; only a restart without any offset passes over some.
CommittedAreSettled == \A r \in 1 .. committed : r \in settled \cup skipped

\* RECs named in success replies left the collateral, each once; and while no
\* call timed out, no reply was lost and nothing restarted, every REC that left
\* the collateral is named once the worker has replied.
RecsAccounted ==
    /\ told <= Collateral - recs
    /\ (events["timeout"] = 0 /\ events["lost"] = 0 /\ Restarts = 0 /\ at # "reply")
          => told = Collateral - recs

\* "err" may hide a burn (a timeout whose transaction commits later, a lost
\* reply or a restart followed by a refusal), but each such request is paid for
\* by one of those events: a failure the bridge sees itself never burns coins.
HiddenBurnsArePaid ==
    Cardinality({r \in refused \ replied : burns[r] > 0})
        <= events["timeout"] + events["lost"] + Restarts

\* Every request is finished in the end, except those a restart passed over.
AllSettled == \A r \in 1 .. produced : r \in settled \cup skipped
EveryRequestSettled == []<>AllSettled
=============================================================================
