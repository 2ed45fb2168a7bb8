----------------------------- MODULE VoteRounds -----------------------------
(***************************************************************************)
(* The vote collector of the full node bridge: light nodes publish signed  *)
(* solar readings (votes) on a Kafka topic; ConsumeClaim files them under  *)
(* their hash in VoteMap and starts one timer goroutine per round; the     *)
(* timer closes the round, looks up the address of the device and puts a   *)
(* task on TxQueue, which a single worker goroutine empties.               *)
(*                                                                         *)
(* A vote is named by its offset in the topic.  The consumer group hands   *)
(* the topic to this process session by session: a crash ends a session,   *)
(* and so does a rebalance, after which Consume is called again with       *)
(* VoteMap, the timers and TxQueue as they are.  An entry of VoteMap is    *)
(* named by the session that delivered it and its offset.                  *)
(*                                                                         *)
(* What runs under VoteMutex is one step; everything a timer does after    *)
(* the unlock is a step of its own, the unsynchronised read of DeviceID    *)
(* included.                                                               *)
(***************************************************************************)
EXTENDS Integers, Sequences, FiniteSets

CONSTANTS
    Hashes,      \* hash values of light transactions
    Devices,     \* device (or facility) ids
    Owners,      \* addresses the mapping service knows
    None,        \* no device in the message; nothing stored under a key
    Empty,       \* the empty string as an address
    QueueCap,    \* capacity of TxQueue; 100 in the code
    MaxVotes,    \* bound: votes published
    MaxCrashes,  \* bound: crashes of the bridge
    MaxRebalances \* bound: sessions of the group that end without a crash

ASSUME VoteAssumption ==
    /\ None \notin Devices \cup Owners \cup {Empty}
    /\ Empty \notin Owners
    /\ QueueCap \in Nat \ {0}
    /\ MaxVotes \in Nat
    /\ MaxCrashes \in Nat
    /\ MaxRebalances \in Nat

\* A vote as it stands in the topic.  Votes on one hash are signatures of one
\* reading, but a message may leave its device out, and one whose public key
\* does not decode is thrown away.
Votes == [hash : Hashes, device : Devices \cup {None}, valid : BOOLEAN]

VARIABLES
    topic,          \* the votes published so far
    position,       \* offset of the last vote handed to ConsumeClaim
    marked,         \* offset MarkMessage was last called with
    committed,      \* offset the consumer group has committed
    voteMap,        \* VoteMap: the deliveries of each open round
    deviceID,       \* DeviceID
    addresses,      \* deviceAddressMap
    requests,       \* address requests not answered yet
    timers,         \* goroutines running startVoteTimer
    queue,          \* TxQueue
    done,           \* history: deliveries whose round was executed or given up
    rounds,         \* history: timers started for each hash
    crashes,        \* history: crashes so far
    rebalances      \* history: rebalances so far

topicVars == <<topic, marked, committed>>
voteVars == <<topic, position, marked, committed, voteMap, deviceID, addresses,
              requests, timers, queue, done, rounds, crashes, rebalances>>

Offsets == 1 .. Len(topic)

\* The number of the current session, and the deliveries of all sessions.
Session == 1 + crashes + rebalances
Deliveries == Nat \X Nat

\* A timer, named by the vote that started it, is asleep, or past the unlock
\* with the votes it took and about to look the address up, or has the address
\* and is about to send on TxQueue.
Timers == [by : Deliveries, hash : Hashes, votes : SUBSET Deliveries,
           at : {"sleep", "lookup", "send"}, address : Owners \cup {Empty, None}]

Tasks == [hash : Hashes, votes : SUBSET Deliveries, address : Owners \cup {Empty}]

StartTimer(h, delivery) ==
    [by |-> delivery, hash |-> h, votes |-> {}, at |-> "sleep", address |-> None]

\* The votes a hash has in its open round.
Filed(h) == {voteMap[h][i] : i \in DOMAIN voteMap[h]}

-----------------------------------------------------------------------------
VotesInit ==
    /\ topic = <<>>
    /\ position = 0
    /\ marked = 0
    /\ committed = 0
    /\ voteMap = [h \in Hashes |-> <<>>]
    /\ deviceID = [h \in Hashes |-> None]
    /\ addresses = [d \in Devices |-> None]
    /\ requests = {}
    /\ timers = {}
    /\ queue = <<>>
    /\ done = {}
    /\ rounds = [h \in Hashes |-> 0]
    /\ crashes = 0
    /\ rebalances = 0

(* A light node publishes a vote. *)
Publish(vote) ==
    /\ Len(topic) < MaxVotes
    /\ topic' = Append(topic, vote)
    /\ UNCHANGED <<position, marked, committed, voteMap, deviceID, addresses,
                   requests, timers, queue, done, rounds, crashes, rebalances>>

(* ConsumeClaim on a vote it cannot decode: skipped, and not marked. *)
SkipVote ==
    /\ position < Len(topic)
    /\ ~topic[position + 1].valid
    /\ position' = position + 1
    /\ UNCHANGED <<topicVars, voteMap, deviceID, addresses, requests, timers,
                   queue, done, rounds, crashes, rebalances>>

(* Wrong: a timer for every vote, not only for the first of its round. *)
ConsumeVoteTimerEach(sent) ==
    /\ position < Len(topic)
    /\ LET offset == position + 1
           delivery == <<Session, offset>>
           vote == topic[offset]
           h == vote.hash
           device == IF vote.device # None THEN vote.device ELSE deviceID[h]
       IN  /\ vote.valid
           /\ voteMap' = [voteMap EXCEPT ![h] = Append(@, delivery)]
           /\ deviceID' = [deviceID EXCEPT ![h] = device]
           /\ requests' = IF sent THEN requests \cup {device} ELSE requests
           /\ timers' = timers \cup {StartTimer(h, delivery)}
           /\ rounds' = [rounds EXCEPT ![h] = @ + 1]
           /\ position' = offset
           /\ marked' = offset
    /\ UNCHANGED <<topic, committed, addresses, queue, done, crashes, rebalances>>

(* Wrong: a vote for a hash that has an open round is not filed. *)
ConsumeVoteFirstOnly(sent) ==
    /\ position < Len(topic)
    /\ LET offset == position + 1
           delivery == <<Session, offset>>
           vote == topic[offset]
           h == vote.hash
           first == voteMap[h] = <<>>
       IN  /\ vote.valid
           /\ voteMap' = [voteMap EXCEPT ![h] = IF first THEN <<delivery>> ELSE @]
           /\ requests' = IF first /\ sent THEN requests \cup {vote.device} ELSE requests
           /\ timers' = IF first THEN timers \cup {StartTimer(h, delivery)} ELSE timers
           /\ rounds' = [rounds EXCEPT ![h] = @ + IF first THEN 1 ELSE 0]
           /\ position' = offset
           /\ marked' = offset
    /\ UNCHANGED <<topic, committed, deviceID, addresses, queue, done, crashes, rebalances>>

(* ConsumeClaim on a valid vote, all under VoteMutex: file it, remember its
   device, and if it opens a round ask for the device's address (the send to
   Kafka may fail, which is only logged) and start the timer. *)
ConsumeVote(sent) ==
    /\ position < Len(topic)
    /\ LET offset == position + 1
           delivery == <<Session, offset>>
           vote == topic[offset]
           h == vote.hash
           device == IF vote.device # None THEN vote.device ELSE deviceID[h]
           first == voteMap[h] = <<>>
       IN  /\ vote.valid
           /\ voteMap' = [voteMap EXCEPT ![h] = Append(@, delivery)]
           /\ deviceID' = [deviceID EXCEPT ![h] = device]
           /\ requests' = IF first /\ sent THEN requests \cup {device} ELSE requests
           /\ timers' = IF first THEN timers \cup {StartTimer(h, delivery)} ELSE timers
           /\ rounds' = [rounds EXCEPT ![h] = @ + IF first THEN 1 ELSE 0]
           /\ position' = offset
           /\ marked' = offset
    /\ UNCHANGED <<topic, committed, addresses, queue, done, crashes, rebalances>>

(* The consumer group commits the marked offset in the background. *)
CommitOffset ==
    /\ committed # marked
    /\ committed' = marked
    /\ UNCHANGED <<topic, position, marked, voteMap, deviceID, addresses,
                   requests, timers, queue, done, rounds, crashes, rebalances>>

(* StartDeviceAddressConsumer on an answer of the mapping service.  An answer
   without a device is ignored; one with an empty address is stored. *)
StoreAddress(device, address) ==
    /\ device \in requests
    /\ requests' = requests \ {device}
    /\ addresses' = IF device = None THEN addresses
                    ELSE [addresses EXCEPT ![device] = address]
    /\ UNCHANGED <<topicVars, position, voteMap, deviceID, timers, queue, done,
                   rounds, crashes, rebalances>>

(* Wrong: the round is read but stays in VoteMap. *)
CloseRoundKeepsVotes(t) ==
    /\ t.at = "sleep"
    /\ timers' = (timers \ {t}) \cup
                   {[t EXCEPT !.at = "lookup", !.votes = Filed(t.hash)]}
    /\ UNCHANGED <<topicVars, position, voteMap, deviceID, addresses, requests,
                   queue, done, rounds, crashes, rebalances>>

(* startVoteTimer wakes up after three seconds and, under VoteMutex, takes the
   votes of its round and deletes the round; with no votes it ends. *)
CloseRound(t) ==
    /\ t.at = "sleep"
    /\ timers' = (timers \ {t}) \cup
                   {[t EXCEPT !.at = "lookup", !.votes = v] : v \in {Filed(t.hash)} \ {{}}}
    /\ voteMap' = [voteMap EXCEPT ![t.hash] = <<>>]
    /\ UNCHANGED <<topicVars, position, deviceID, addresses, requests, queue,
                   done, rounds, crashes, rebalances>>

(* After the unlock: report the signers, then read DeviceID and the address.
   Without an address the round is given up. *)
LookUpAddress(t) ==
    LET device == deviceID[t.hash]
        address == IF device = None THEN None ELSE addresses[device]
    IN
    /\ t.at = "lookup"
    /\ \/ /\ address = None
          /\ timers' = timers \ {t}
          /\ done' = done \cup t.votes
       \/ /\ address # None
          /\ timers' = (timers \ {t}) \cup
                         {[t EXCEPT !.at = "send", !.address = address]}
          /\ UNCHANGED done
    /\ UNCHANGED <<topicVars, position, voteMap, deviceID, addresses, requests,
                   queue, rounds, crashes, rebalances>>

(* Wrong: the send does not wait for room in the channel. *)
SendTaskUnbounded(t) ==
    /\ t.at = "send"
    /\ queue' = Append(queue, [hash |-> t.hash, votes |-> t.votes,
                               address |-> t.address])
    /\ timers' = timers \ {t}
    /\ UNCHANGED <<topicVars, position, voteMap, deviceID, addresses, requests,
                   done, rounds, crashes, rebalances>>

(* The send on TxQueue, which blocks while the channel is full. *)
SendTask(t) ==
    /\ t.at = "send"
    /\ Len(queue) < QueueCap
    /\ queue' = Append(queue, [hash |-> t.hash, votes |-> t.votes,
                               address |-> t.address])
    /\ timers' = timers \ {t}
    /\ UNCHANGED <<topicVars, position, voteMap, deviceID, addresses, requests,
                   done, rounds, crashes, rebalances>>

(* The worker takes a task and runs it (module RecIssuance has what it does). *)
RunTask ==
    /\ queue # <<>>
    /\ done' = done \cup Head(queue).votes
    /\ queue' = Tail(queue)
    /\ UNCHANGED <<topicVars, position, voteMap, deviceID, addresses, requests,
                   timers, rounds, crashes, rebalances>>

(* The group starts a new session at the offset it has committed by then, or
   at the newest one if nothing was ever committed (OffsetNewest).  Another
   member of the group may have read on and committed in between. *)
NewSession(offset) ==
    /\ committed' = offset
    /\ marked' = offset
    /\ position' = IF offset = 0 THEN Len(topic) ELSE offset

(* The group rebalances: the session ends between two votes, the marks it could
   still commit are committed, and Consume is called again.  What is in memory
   stays there. *)
Rebalance(offset) ==
    /\ rebalances < MaxRebalances
    /\ rebalances' = rebalances + 1
    /\ NewSession(offset)
    /\ UNCHANGED <<topic, voteMap, deviceID, addresses, requests, timers, queue,
                   done, rounds, crashes>>

(* The process dies and comes back: everything in memory is gone.  Answers still
   on their way stay on their way.  One cause is the code itself: LookUpAddress
   reads the map DeviceID while ConsumeClaim may be writing it, which the Go
   runtime is entitled to answer with a fatal error. *)
Crash(offset) ==
    /\ crashes < MaxCrashes
    /\ crashes' = crashes + 1
    /\ voteMap' = [h \in Hashes |-> <<>>]
    /\ deviceID' = [h \in Hashes |-> None]
    /\ addresses' = [d \in Devices |-> None]
    /\ timers' = {}
    /\ queue' = <<>>
    /\ NewSession(offset)
    /\ UNCHANGED <<topic, requests, done, rounds, rebalances>>

VotesNext ==
    \/ \E vote \in Votes : Publish(vote)
    \/ SkipVote
    \/ \E sent \in BOOLEAN : ConsumeVote(sent)
    \/ CommitOffset
    \/ \E device \in Devices \cup {None}, address \in Owners \cup {Empty} :
          StoreAddress(device, address)
    \/ \E t \in timers : CloseRound(t) \/ LookUpAddress(t) \/ SendTask(t)
    \/ RunTask
    \/ \E offset \in committed .. Len(topic) : Rebalance(offset) \/ Crash(offset)

VotesSpec == VotesInit /\ [][VotesNext]_voteVars

\* The bridge's goroutines keep running: the consumer reads on, timers wake up,
\* blocked senders are served as the worker makes room.  Light nodes, the
\* mapping service, offset commits, rebalances and crashes owe nothing.
Fairness ==
    /\ WF_voteVars(SkipVote)
    /\ WF_voteVars(\E sent \in BOOLEAN : ConsumeVote(sent))
    /\ WF_voteVars(\E t \in timers : CloseRound(t))
    /\ WF_voteVars(\E t \in timers : LookUpAddress(t))
    /\ WF_voteVars(\E t \in timers : SendTask(t))
    /\ WF_voteVars(RunTask)

FairSpec == VotesSpec /\ Fairness

-----------------------------------------------------------------------------
(* Properties *)

\* Type invariant.
VotesTypeOK ==
    /\ topic \in Seq(Votes)
    /\ position \in 0 .. Len(topic)
    /\ marked \in 0 .. position
    /\ committed \in 0 .. marked
    /\ voteMap \in [Hashes -> Seq(Deliveries)]
    /\ deviceID \in [Hashes -> Devices \cup {None}]
    /\ addresses \in [Devices -> Owners \cup {Empty, None}]
    /\ requests \subseteq Devices \cup {None}
    /\ timers \subseteq Timers
    /\ queue \in Seq(Tasks)
    /\ Len(queue) <= QueueCap
    /\ done \subseteq Deliveries
    /\ rounds \in [Hashes -> Nat]
    /\ crashes \in Nat
    /\ rebalances \in Nat

\* VoteMap and the goroutines agree: an open round has exactly one sleeping
\* timer, started by its first vote, and a hash without an open round has none.
\* So no round is forgotten and none is closed twice, however votes, timers,
\* repeated deliveries and restarts interleave.
OneTimerPerRound ==
    \A h \in Hashes :
        {t.by : t \in {u \in timers : u.at = "sleep" /\ u.hash = h}}
            = IF voteMap[h] = <<>> THEN {} ELSE {Head(voteMap[h])}

\* The deliveries the bridge has in memory, and those it has not lost.
InMemory(d) ==
    \/ \E h \in Hashes : d \in Filed(h)
    \/ \E t \in timers : d \in t.votes
    \/ \E i \in DOMAIN queue : d \in queue[i].votes
Kept(d) == InMemory(d) \/ d \in done

\* A vote counts at most once per session that delivers it: no two rounds share
\* a delivery, and none returns once its round is over.  So a vote counts twice
\* only when a crash or a rebalance made Kafka repeat it, and then not more
\* often than Kafka did, although the rounds of the earlier sessions may still be
\* open, waiting or queued.
NoVoteTwice ==
    /\ \A h, k \in Hashes : h # k => Filed(h) \cap Filed(k) = {}
    /\ \A t, u \in timers : t # u => t.votes \cap u.votes = {}
    /\ \A i, j \in DOMAIN queue : i # j => queue[i].votes \cap queue[j].votes = {}
    /\ \A t \in timers, h \in Hashes : t.votes \cap Filed(h) = {}
    /\ \A i \in DOMAIN queue, h \in Hashes : queue[i].votes \cap Filed(h) = {}
    /\ \A i \in DOMAIN queue, t \in timers : queue[i].votes \cap t.votes = {}
    /\ \A d \in done : ~InMemory(d)

\* A valid vote the consumer group has not committed is not lost: Kafka still
\* has it to deliver, or it is in memory, or its round is over.  (Until the
\* first commit a new session begins at the newest offset and gives no such
\* promise; a vote that is committed may be lost, since it is marked before its
\* round ends.)
UncommittedNotLost ==
    \A o \in Offsets :
        topic[o].valid /\ o > committed /\ (committed > 0 \/ Session = 1)
            => o > position \/ \E n \in 1 .. Session : Kept(<<n, o>>)

\* ConsumeClaim's comment: the goroutine is run for a new hash only.
OneRoundPerHash == \A h \in Hashes : rounds[h] <= 1

\* Every vote that reaches the topic is read and leaves memory again, in a round
\* that is executed or given up: timers, the bounded queue and the worker never
\* wait for each other in a circle, also when sessions end in between.  In the
\* first session every valid vote has been in such a round.
AllSettled ==
    /\ position = Len(topic)
    /\ timers = {} /\ queue = <<>> /\ \A h \in Hashes : voteMap[h] = <<>>
    /\ Session = 1 => \A o \in Offsets : topic[o].valid => <<1, o>> \in done
EveryVoteSettled == []<>AllSettled
=============================================================================
