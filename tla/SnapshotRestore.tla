----------------------------- MODULE SnapshotRestore -----------------------------
(***************************************************************************)
(* Restoring a state sync snapshot: Manager.Restore and RestoreChunk on    *)
(* one side, called by Tendermint one at a time, the goroutine that reads  *)
(* the chunks from a bounded channel on the other.  RestoreChunk holds the *)
(* manager's mutex and may block inside, on the channel or on the result.  *)
(* The goroutine fails while it opens the stream (zlib header) or while    *)
(* the multistore imports it; the latter drains the channel before its     *)
(* result is sent.  What the chunks contain is abstracted to that choice.  *)
(***************************************************************************)
EXTENDS Naturals, Sequences

CONSTANTS
    Chunks,        \* chunks of the snapshot on offer
    BufferSize,    \* chunkBufferSize, 4 in the code
    MaxOffers, MaxMismatches   \* bounds

\* What the constants are.
RestoreConstants ==
    {Chunks, BufferSize, MaxOffers} \subseteq Nat \ {0} /\ MaxMismatches \in Nat

VARIABLES
    op,        \* Manager.operation, "none" or "restore"
    index,     \* restoreChunkIndex
    ch,        \* the channel: chunk numbers not yet received
    closed,    \* the channel is closed
    done,      \* chRestoreDone: <<>>, or one result, "ok" or "err"
    worker,    \* "off", "open", "header", "read", "drain", "ended"
    got,       \* chunks the worker received
    fate,      \* result the worker is going to send
    call,      \* RestoreChunk: "none", "send" or "wait" when blocked there
    reply,     \* result of the last call: see TypeOK
    offers, mismatches

vars == <<op, index, ch, closed, done, worker, got, fate, call, reply, offers, mismatches>>

endLocked(result) ==
    /\ op' = "none" /\ index' = 0 /\ closed' = TRUE
    /\ call' = "none" /\ reply' = result

-------------------------------------------------------------------------------
\* OfferSnapshot.  A second offer during a restore is an error and changes nothing.
Restore ==
    /\ call = "none" /\ op = "none" /\ worker \in {"off", "ended"}
    /\ offers < MaxOffers
    /\ op' = "restore" /\ index' = 0
    /\ ch' = <<>> /\ closed' = FALSE /\ done' = <<>>
    /\ worker' = "open" /\ got' = 0 /\ fate' = "ok"
    /\ reply' = "none"
    /\ offers' = offers + 1
    /\ UNCHANGED <<call, mismatches>>

\* RestoreChunk finds that the goroutine has already ended.
RestoreChunkEnded ==
    /\ call = "none" /\ op = "restore" /\ done # <<>>
    /\ endLocked(IF Head(done) = "err" THEN "err" ELSE "unexpected")
    /\ done' = <<>>
    /\ UNCHANGED <<ch, worker, got, fate, offers, mismatches>>

\* RestoreChunk refuses a chunk whose hash is not the expected one.
RestoreChunkMismatch ==
    /\ call = "none" /\ op = "restore" /\ done = <<>>
    /\ mismatches < MaxMismatches
    /\ mismatches' = mismatches + 1
    /\ reply' = "mismatch"
    /\ UNCHANGED <<op, index, ch, closed, done, worker, got, fate, call, offers>>

\* RestoreChunk passed its checks and holds the mutex.
RestoreChunk ==
    /\ call = "none" /\ op = "restore" /\ done = <<>>
    /\ call' = "send"
    /\ UNCHANGED <<op, index, ch, closed, done, worker, got, fate, reply, offers, mismatches>>

\* Mutant: the channel is left open.
SendOpen ==
    /\ call = "send" /\ Len(ch) < BufferSize
    /\ ch' = Append(ch, index) /\ index' = index + 1
    /\ \/ index + 1 < Chunks /\ call' = "none" /\ reply' = "accept"
       \/ index + 1 = Chunks /\ call' = "wait" /\ reply' = reply
    /\ UNCHANGED <<op, closed, done, worker, got, fate, offers, mismatches>>

\* The chunk goes into the channel; after the last one the channel is closed.
Send ==
    /\ call = "send" /\ Len(ch) < BufferSize
    /\ ch' = Append(ch, index) /\ index' = index + 1
    /\ \/ index + 1 < Chunks /\ call' = "none" /\ reply' = "accept" /\ closed' = closed
       \/ index + 1 = Chunks /\ call' = "wait" /\ closed' = TRUE /\ reply' = reply
    /\ UNCHANGED <<op, done, worker, got, fate, offers, mismatches>>

\* Mutant: a result is not told from a failure.
FinishBlind ==
    /\ call = "wait" /\ done # <<>>
    /\ endLocked("complete")
    /\ done' = <<>>
    /\ UNCHANGED <<ch, worker, got, fate, offers, mismatches>>

\* The result arrives for the last chunk.
Finish ==
    /\ call = "wait" /\ done # <<>>
    /\ endLocked(IF Head(done) = "ok" THEN "complete" ELSE "err")
    /\ done' = <<>>
    /\ UNCHANGED <<ch, worker, got, fate, offers, mismatches>>

-------------------------------------------------------------------------------
Receive == ch # <<>> /\ ch' = Tail(ch) /\ got' = got + 1

\* restoreSnapshot returns and its result is sent.
End(result) == worker' = "ended" /\ done' = <<result>>

\* NewStreamReader reads the stream's header from the first chunk; when that
\* fails restoreSnapshot returns at once.
OpenReceive ==
    /\ worker = "open"
    /\ Receive
    /\ worker' = "header"
    /\ UNCHANGED <<op, index, closed, done, fate, call, reply, offers, mismatches>>

OpenResult ==
    /\ worker = "header"
    /\ \/ worker' = "read" /\ UNCHANGED <<done, fate>>
       \/ fate' = "err" /\ End("err")
    /\ UNCHANGED <<op, index, ch, closed, got, call, reply, offers, mismatches>>

\* multistore.Restore and the extensions read on.
Read ==
    /\ worker = "read"
    /\ Receive
    /\ UNCHANGED <<op, index, closed, done, worker, fate, call, reply, offers, mismatches>>

\* They fail, at any point or for want of data; or the stream ends, which is
\* success when nothing is missing.
Fail ==
    /\ worker = "read"
    /\ fate' = "err" /\ worker' = "drain"
    /\ UNCHANGED <<op, index, ch, closed, done, got, call, reply, offers, mismatches>>

\* Mutant: the end of the data received so far is taken for the end of the stream.
CompleteEarly ==
    /\ worker = "read" /\ ch = <<>>
    /\ End(fate)
    /\ UNCHANGED <<op, index, ch, closed, got, fate, call, reply, offers, mismatches>>

Complete ==
    /\ worker = "read" /\ ch = <<>> /\ got = Chunks
    /\ worker' = "drain"
    /\ UNCHANGED <<op, index, ch, closed, done, got, fate, call, reply, offers, mismatches>>

\* The deferred Close reads the channel until it is closed.
Drain ==
    /\ worker = "drain"
    /\ \/ Receive /\ UNCHANGED <<worker, done>>
       \/ /\ ch = <<>> /\ closed
          /\ End(fate)
          /\ UNCHANGED <<ch, got>>
    /\ UNCHANGED <<op, index, closed, fate, call, reply, offers, mismatches>>

Init ==
    /\ op = "none" /\ index = 0 /\ ch = <<>> /\ closed = TRUE /\ done = <<>>
    /\ worker = "off" /\ got = 0 /\ fate = "ok" /\ call = "none" /\ reply = "none"
    /\ offers = 0 /\ mismatches = 0

Worker == OpenReceive \/ OpenResult \/ Read \/ Fail \/ Complete \/ Drain
Caller == RestoreChunkEnded \/ RestoreChunk \/ Send \/ Finish

Next == Restore \/ RestoreChunkMismatch \/ Caller \/ Worker
Spec == Init /\ [][Next]_vars

\* Goroutines are scheduled, and Tendermint refetches and feeds the chunks of a
\* snapshot it was told is accepted.
FairSpec == Spec /\ WF_vars(Worker) /\ WF_vars(Caller)

-------------------------------------------------------------------------------
TypeOK ==
    /\ op \in {"none", "restore"} /\ index \in 0..Chunks /\ closed \in BOOLEAN
    /\ ch \in Seq(0..(Chunks - 1)) /\ Len(ch) <= BufferSize
    /\ done \in {<<>>, <<"ok">>, <<"err">>}
    /\ worker \in {"off", "open", "header", "read", "drain", "ended"}
    /\ got \in 0..Chunks /\ fate \in {"ok", "err"}
    /\ call \in {"none", "send", "wait"}
    /\ reply \in {"none", "accept", "complete", "mismatch", "err", "unexpected"}
    /\ offers \in 0..MaxOffers /\ mismatches \in 0..MaxMismatches

\* Tendermint is told that the restore is complete only when the goroutine
\* received every chunk, in order, and imported all of them without an error.
CompleteIsRestored ==
    /\ reply = "complete" => worker = "ended" /\ got = Chunks /\ fate = "ok"
    /\ \A i \in DOMAIN ch : ch[i] = got + i - 1

\* The goroutine does not succeed before the last chunk, so the reply "restore
\* ended unexpectedly" never occurs; a failure to open the stream is reported.
NeverUnexpected == reply # "unexpected" /\ (done = <<"ok">> => call = "wait")

\* RestoreChunk waits at the full channel for a goroutine that has returned, and
\* it holds the mutex: NewStreamReader failed and nobody drains the channel.
Blocked == call = "send" /\ worker = "ended" /\ Len(ch) = BufferSize

\* A restore that is fed its chunks ends, and the manager is free for the next
\* operation; unless the stream could not be opened while RestoreChunk was already
\* passing on the chunk number BufferSize + 2, which blocks the manager for good.
Free == op = "none" \/ Blocked
RestoreEnds == []<>Free

-------------------------------------------------------------------------------
\* Not so: no call of RestoreChunk passes its checks after the goroutine failed.
ErrorsSeen == [][call = "none" /\ call' = "send" => fate = "ok"]_vars
===============================================================================
