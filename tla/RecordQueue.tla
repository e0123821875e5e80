---------------------------- MODULE RecordQueue ----------------------------
(***************************************************************************)
(* The recording half of codex's HTTP guardian (guardian/src/api.rs): the  *)
(* bounded channel that record() and flush() feed, the background task     *)
(* that drains it in batches, and the app's POST /v1/activities.           *)
(*                                                                         *)
(* One guardian serves every session of the process, so one session may    *)
(* flush while others record.  Records are numbered in the order of their  *)
(* record() calls.                                                         *)
(***************************************************************************)
EXTENDS Naturals, Sequences, FiniteSets, Functions

CONSTANTS
    Flushers,    \* sessions that end, each with one flush()
    NoAck,       \* pending_ack = None
    QUEUE_DEPTH,
    MAX_BATCH,
    MaxRecords   \* bound on calls of record()

ASSUME QueueAssumption ==
    /\ QUEUE_DEPTH \in Nat \ {0} /\ MAX_BATCH \in Nat \ {0} /\ MaxRecords \in Nat
    /\ NoAck \notin Flushers /\ IsFiniteSet(Flushers)

VARIABLES
    offered,   \* calls of record() so far
    dropped,   \* those that met a full channel
    queue,     \* the channel
    flusher,   \* session -> "idle", "waiting" for a permit, "granted" one,
               \*            "queued", "done"
    waiters,   \* sessions waiting for a permit, first come first served
    loop,      \* record_loop: "recv", "drain" or "sending"
    batch,     \* its batch
    ack,       \* its pending_ack
    inflight,  \* requests the app has not handled
    stored,    \* records in the app's session files
    failed,    \* history: records whose request brought no success
    mark       \* history: session -> records offered when it called flush()

channel == <<queue, flusher, waiters>>
vars == <<offered, dropped, channel, loop, batch, ack, inflight, stored, failed, mark>>

Records == 1 .. MaxRecords
Activity(n) == [op |-> "activity", id |-> n]
Flush(f) == [op |-> "flush", id |-> f]

-----------------------------------------------------------------------------
(* tokio's bounded channel: a permit per slot, handed to the first waiter as
   soon as it comes free. *)

Granted == {f \in Flushers : flusher[f] = "granted"}
HasPermit == Len(queue) + Cardinality(Granted) < QUEUE_DEPTH

(* What record() does with its try_send: a full channel drops the record. *)
\* mutant: only the length of the queue is looked at, and one too late
MayTrySend_OffByOne == Len(queue) <= QUEUE_DEPTH
MayTrySend == HasPermit

record ==
    /\ offered < MaxRecords
    /\ offered' = offered + 1
    /\ IF MayTrySend
         THEN queue' = Append(queue, Activity(offered + 1)) /\ UNCHANGED dropped
         ELSE dropped' = dropped \cup {offered + 1} /\ UNCHANGED queue
    /\ UNCHANGED <<flusher, waiters, loop, batch, ack, inflight, stored, failed, mark>>

(* flush(): send().await queues the command, or waits for a permit. *)
flush(f) ==
    /\ flusher[f] = "idle"
    /\ mark' = [mark EXCEPT ![f] = offered]
    /\ IF HasPermit
         THEN /\ queue' = Append(queue, Flush(f))
              /\ flusher' = [flusher EXCEPT ![f] = "queued"]
              /\ UNCHANGED waiters
         ELSE /\ waiters' = Append(waiters, f)
              /\ flusher' = [flusher EXCEPT ![f] = "waiting"]
              /\ UNCHANGED queue
    /\ UNCHANGED <<offered, dropped, loop, batch, ack, inflight, stored, failed>>

(* A waiter that was handed its permit runs again. *)
SendFlush(f) ==
    /\ flusher[f] = "granted"
    /\ queue' = Append(queue, Flush(f))
    /\ flusher' = [flusher EXCEPT ![f] = "queued"]
    /\ UNCHANGED <<offered, dropped, waiters, loop, batch, ack, inflight, stored, failed, mark>>

-----------------------------------------------------------------------------
(* record_loop *)

(* One command leaves the channel: a record joins the batch, a flush is kept
   as the acknowledgement to give. *)
Take ==
    /\ queue # <<>>
    /\ queue' = Tail(queue)
    /\ IF waiters = <<>> THEN UNCHANGED <<flusher, waiters>>
       ELSE /\ waiters' = Tail(waiters)
            /\ flusher' = [flusher EXCEPT ![Head(waiters)] = "granted"]
    /\ LET cmd == Head(queue)
       IN IF cmd.op = "activity"
            THEN batch' = Append(batch, cmd.id) /\ UNCHANGED ack
            ELSE ack' = cmd.id /\ UNCHANGED batch
    /\ loop' = "drain"
    /\ UNCHANGED <<offered, dropped, inflight, stored, failed, mark>>

recv == loop = "recv" /\ Take

\* mutant: the drain goes on behind a flush
MayDrain_PastFlush == Len(batch) < MAX_BATCH
(* batch.len() < MAX_BATCH && pending_ack.is_none() *)
MayDrain == Len(batch) < MAX_BATCH /\ ack = NoAck

try_recv == loop = "drain" /\ MayDrain /\ Take

(* The inner loop is over, at the latest on an empty channel. *)
Drained == loop = "drain" /\ (MayDrain => queue = <<>>)

(* RecordSender::send posts a batch; an empty one posts nothing. *)
send ==
    /\ Drained /\ batch # <<>>
    /\ inflight' = inflight \cup {batch}
    /\ loop' = "sending"
    /\ UNCHANGED <<offered, dropped, channel, batch, ack, stored, failed, mark>>

\* mutant: a batch the backend did not take is kept for the next round
Leftover_Kept == IF Range(batch) \subseteq Range(stored) THEN <<>> ELSE batch
(* batch.clear(), whatever became of the request *)
Leftover == <<>>

(* The batch is cleared and a flush acknowledged. *)
Finish ==
    /\ batch' = Leftover
    /\ flusher' = [f \in Flushers |-> IF f = ack THEN "done" ELSE flusher[f]]
    /\ ack' = NoAck
    /\ loop' = "recv"
    /\ UNCHANGED <<offered, dropped, queue, waiters, inflight, stored, mark>>

\* mutant: a flush is acknowledged without posting the batch in front of it
SkipSend_Acked == Drained /\ (batch = <<>> \/ ack # NoAck) /\ Finish /\ UNCHANGED failed
SkipSend == Drained /\ batch = <<>> /\ Finish /\ UNCHANGED failed

(* An answer, an error or the request's timeout: none of them is acted on. *)
SendEnds ==
    /\ loop = "sending"
    /\ failed' = failed \cup (Range(batch) \ Range(stored))
    /\ Finish

-----------------------------------------------------------------------------
(* The app *)

(* The items are appended one by one; a write that throws ends the handler
   after n of them, without an answer.  The client may be gone by then. *)
handleActivities(b, n) ==
    /\ b \in inflight /\ n \in 0 .. Len(b)
    /\ inflight' = inflight \ {b}
    /\ stored' = stored \o SubSeq(b, 1, n)
    /\ UNCHANGED <<offered, dropped, channel, loop, batch, ack, failed, mark>>

(* No app, a refused or broken connection *)
RequestLost(b) ==
    /\ b \in inflight
    /\ inflight' = inflight \ {b}
    /\ UNCHANGED <<offered, dropped, channel, loop, batch, ack, stored, failed, mark>>

-----------------------------------------------------------------------------
Init ==
    /\ offered = 0 /\ dropped = {}
    /\ queue = <<>> /\ waiters = <<>>
    /\ flusher = [f \in Flushers |-> "idle"]
    /\ loop = "recv" /\ batch = <<>> /\ ack = NoAck
    /\ inflight = {} /\ stored = <<>> /\ failed = {}
    /\ mark = [f \in Flushers |-> 0]

Next ==
    \/ record
    \/ \E f \in Flushers : flush(f) \/ SendFlush(f)
    \/ recv \/ try_recv \/ send \/ SkipSend \/ SendEnds
    \/ \E b \in inflight : RequestLost(b) \/ \E n \in 0 .. Len(b) : handleActivities(b, n)

(* The runtime schedules the loop and the woken waiters, and reqwest's timeout
   ends every request; nobody promises that the app handles one. *)
Spec ==
    /\ Init /\ [][Next]_vars
    /\ WF_vars(recv) /\ WF_vars(try_recv) /\ WF_vars(send) /\ WF_vars(SkipSend)
    /\ WF_vars(SendEnds)
    /\ \A f \in Flushers : WF_vars(SendFlush(f))

-----------------------------------------------------------------------------
(* Properties *)

InQueue == {queue[i].id : i \in {j \in DOMAIN queue : queue[j].op = "activity"}}

(* Type correctness; the channel never holds more than its permits, a request
   never more than a batch. *)
TypeOK ==
    /\ offered \in 0 .. MaxRecords /\ dropped \subseteq 1 .. offered
    /\ queue \in Seq({Activity(n) : n \in Records} \cup {Flush(f) : f \in Flushers})
    /\ Len(queue) + Cardinality(Granted) <= QUEUE_DEPTH
    /\ flusher \in [Flushers -> {"idle", "waiting", "granted", "queued", "done"}]
    /\ waiters \in Seq(Flushers)
    /\ loop \in {"recv", "drain", "sending"}
    /\ batch \in Seq(Records) /\ Len(batch) <= MAX_BATCH
    /\ ack \in Flushers \cup {NoAck}
    /\ \A b \in inflight : b \in Seq(Records) /\ b # <<>>
    /\ stored \in Seq(Records) /\ failed \subseteq Records
    /\ mark \in [Flushers -> 0 .. MaxRecords]

(* When flush() returns, no record made before it was called is still under
   way in codex: each was dropped at a full channel, is in the app's session
   file, or was in a request that failed; also when the flush itself had to
   wait for a permit and other sessions went on recording. *)
FlushCoversEarlierRecords ==
    \A f \in Flushers : flusher[f] = "done" =>
        1 .. mark[f] \subseteq dropped \cup Range(stored) \cup failed

(* No record vanishes without a full channel or a failed request. *)
NothingVanishes ==
    1 .. offered \subseteq dropped \cup InQueue \cup Range(batch) \cup Range(stored) \cup failed

(* The session file holds a record at most once, and records in the order they
   were made, but for those of a request that codex had given up on and the app
   handled late. *)
StoredOnceInOrder ==
    \A i, j \in DOMAIN stored : i < j =>
        stored[i] < stored[j] \/ (stored[i] # stored[j] /\ stored[j] \in failed)

(* A session end is never held up for good: every flush() returns, whatever
   the app does. *)
FlushReturns ==
    \A f \in Flushers : (flusher[f] \in {"waiting", "queued"}) ~> (flusher[f] = "done")
=============================================================================
