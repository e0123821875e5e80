------------------------------- MODULE History ------------------------------
(***************************************************************************)
(* The CSV history of a session run with both guardians (mode `both`: CSV  *)
(* and IPC, guardian/src/config.rs): the tasks that review and record      *)
(* through the FanOutGuardian, the bounded channel to the writer task, the *)
(* writer with its CSV file and metadata sidecar (guardian/src/            *)
(* csv_history.rs, session_meta.rs), the exchange with the local monitor   *)
(* (ipc.rs), and crashes between any two steps.                            *)
(*                                                                         *)
(* A session has a guardian of its own.  A resumed thread is a new life of *)
(* the session: memory starts empty, and the files are found as they are.  *)
(* A file operation takes place or fails as a whole.                       *)
(***************************************************************************)
EXTENDS Guardians, FiniteSets

CONSTANTS
    Main,         \* the session itself: its first and its last record, and flush()
    Tasks,        \* turns and tool calls, each with one review or record
    Replies,      \* what the monitor's exchange may end with
    IpcPosture,   \* fail_closed of the configuration
    QUEUE_DEPTH,
    MaxLives,     \* bound on lives of the session
    Bounds,       \* [tasks, lives]: the tasks that act, and the lives they do it in
    MaxFaults     \* bound on failing file operations

ASSUME HistoryAssumption ==
    /\ Main \notin Tasks /\ IsFiniteSet(Tasks)
    /\ Replies \subseteq Answers /\ IpcPosture \in Postures
    /\ Bounds \subseteq [tasks : SUBSET Tasks, lives : 1 .. MaxLives]
    /\ QUEUE_DEPTH \in Nat \ {0} /\ MaxLives \in Nat \ {0} /\ MaxFaults \in Nat

VARIABLES
    bound,    \* member of Bounds
    life,     \* which life of the session
    actor,    \* task -> [at, job, answer of the monitor, verdict]
    queue,    \* the channel
    waiters,  \* senders waiting for a permit, first come first served
    writer,   \* writer_loop: [at, cmd]
    file,     \* its `files` has the session's handle
    meta,     \* its `metas` entry, NoMeta if there is none
    csv,      \* the CSV file
    tmp,      \* the sidecar's temporary file
    side,     \* the sidecar
    faults,   \* failed file operations so far
    failed,   \* history: rows whose write failed
    misread,  \* history: lives in which the size of the CSV file could not be read
    metaLost, \* history: the last attempt to write the sidecar failed
    due       \* history: rows handed over when flush() was called

senders == <<actor, queue, waiters, due>>
disk == <<csv, tmp, side>>
vars == <<bound, life, senders, writer, file, meta, disk, faults, failed, misread, metaLost>>

Actors == {Main} \cup Tasks
RowJobs == {"started", "review", "record", "ended"}
Jobs == RowJobs \cup {"none", "flush"}
Row(n, s, job) == [life |-> n, who |-> s, job |-> job]
NoCmd == Row(0, Main, "none")
(* The header line, marked with the life that writes it *)
Header == Row(life, Main, "none")
IsHeader(r) == r.job = "none"
NoMeta == [life |-> 0, rows |-> 0, identity |-> FALSE, ended |-> FALSE, whole |-> TRUE]

Idle == [at |-> "idle", job |-> "none", answer |-> "defer", verdict |-> "defer"]

-----------------------------------------------------------------------------
(* The channel: permits as in tokio's bounded mpsc *)

Granted(act) == {s \in Actors : act[s].at = "granted"}

\* mutant: a permit that was handed to a waiter is given away again
HasPermit_QueueOnly == Len(queue) < QUEUE_DEPTH
HasPermit == Len(queue) + Cardinality(Granted(actor)) < QUEUE_DEPTH

\* mutant: the slot that came free wakes nobody
Release_Lost(act) == actor' = act /\ UNCHANGED waiters
(* A permit came free: the first waiter gets it. *)
Release(act) ==
    IF waiters = <<>> THEN actor' = act /\ UNCHANGED waiters
    ELSE /\ waiters' = Tail(waiters)
         /\ actor' = [act EXCEPT ![Head(waiters)].at = "granted"]

Cmd(s) == Row(life, s, actor[s].job)
(* Behind a queued row comes the exchange with the monitor, behind a queued
   flush the acknowledgement. *)
Behind(job) == IF job = "flush" THEN "acking" ELSE "exchange"

InQueue == {queue[i] : i \in DOMAIN queue}
InHand == IF writer.at \in {"open", "header", "row"} THEN {writer.cmd} ELSE {}
InFile == {csv[i] : i \in {j \in DOMAIN csv : ~IsHeader(csv[j])}}

(* CsvHistoryGuardian::send and flush() *)
Send(s, job) ==
    LET a == [Idle EXCEPT !.job = job]
    IN /\ IF HasPermit
            THEN /\ queue' = Append(queue, Row(life, s, job))
                 /\ actor' = [actor EXCEPT ![s] = [a EXCEPT !.at = Behind(job)]]
                 /\ UNCHANGED waiters
            ELSE /\ waiters' = Append(waiters, s)
                 /\ actor' = [actor EXCEPT ![s] = [a EXCEPT !.at = "waiting"]]
                 /\ UNCHANGED queue
       /\ UNCHANGED <<bound, life, writer, file, meta, disk, faults, failed, misread, metaLost>>

Push(s) ==
    /\ actor[s].at = "granted"
    /\ queue' = Append(queue, Cmd(s))
    /\ actor' = [actor EXCEPT ![s].at = Behind(actor[s].job)]
    /\ UNCHANGED <<bound, life, waiters, due, writer, file, meta, disk, faults, failed, misread, metaLost>>

-----------------------------------------------------------------------------
(* The session *)

Finished(s, job) == actor[s].at = "done" /\ actor[s].job = job
Started == actor[Main].job \in {"ended", "flush"} \/ Finished(Main, "started")

record_session_started ==
    actor[Main].at = "idle" /\ Send(Main, "started") /\ UNCHANGED due
record_session_ended ==
    Finished(Main, "started") /\ Send(Main, "ended") /\ UNCHANGED due

(* The rows of this life that are past the channel's entrance *)
HandedOver == {r \in InQueue \cup InHand \cup InFile \cup failed : r.life = life}

flush ==
    /\ Finished(Main, "ended")
    /\ Send(Main, "flush")
    /\ due' = HandedOver

(* A gate or a recording tap of a turn *)
Tap(t, job) ==
    Started /\ t \in bound.tasks /\ actor[t].at = "idle" /\ Send(t, job) /\ UNCHANGED due

(* The turn is interrupted and the task dropped where it waits. *)
DropTask(t) ==
    /\ actor[t].at \in {"waiting", "granted", "exchange"}
    /\ LET act == [actor EXCEPT ![t].at = "dropped"]
       IN CASE actor[t].at = "granted" -> Release(act)
            [] actor[t].at = "waiting" ->
                  /\ actor' = act
                  /\ \E i \in DOMAIN waiters :
                        waiters[i] = t /\ waiters' = RemoveAt(waiters, i)
            [] actor[t].at = "exchange" -> actor' = act /\ UNCHANGED waiters
    /\ UNCHANGED <<bound, life, queue, due, writer, file, meta, disk, faults, failed, misread, metaLost>>

(* IpcGuardian::request ends with an answer, an error or the deadline.  Of a
   record nothing comes back; a review is decided by the fan-out of the CSV
   guardian, which always defers and fails open, and the monitor. *)
request(s, answer) ==
    /\ actor[s].at = "exchange"
    /\ actor' = [actor EXCEPT ![s] =
          IF actor[s].job = "review"
            THEN [@ EXCEPT !.at = "done", !.answer = answer,
                    !.verdict = review(FanOutReview(<<"defer", answer>>),
                                       FanOutPosture(<<"fail_open", IpcPosture>>))]
            ELSE [@ EXCEPT !.at = "done"]]
    /\ UNCHANGED <<bound, life, queue, waiters, due>>
    /\ UNCHANGED <<writer, file, meta, disk, faults, failed, misread, metaLost>>

-----------------------------------------------------------------------------
(* writer_loop *)

At(where) == writer.at = where
GoTo(where) == writer' = [writer EXCEPT !.at = where]
(* Every file operation may fail. *)
Try(ok) == IF ok THEN UNCHANGED faults ELSE faults < MaxFaults /\ faults' = faults + 1
Rest == <<bound, life, senders>>

\* mutant: a flush is acknowledged without the final sidecar
FlushStart_Acks == "ack"
(* The files are flushed with every row; what is left is the sidecar. *)
FlushStart == IF meta = NoMeta THEN "ack" ELSE "truncate"

recv ==
    /\ At("recv") /\ queue # <<>>
    /\ queue' = Tail(queue)
    /\ LET cmd == Head(queue)
       IN writer' = [cmd |-> cmd,
                     at |-> IF cmd.job = "flush" THEN FlushStart
                            ELSE IF file THEN "row" ELSE "open"]
    /\ Release(actor)
    /\ UNCHANGED <<bound, life, due, file, meta, disk, faults, failed, misread, metaLost>>

(* A failed step ends write_row; update_meta follows all the same. *)
WriteFails == failed' = failed \cup {writer.cmd} /\ GoTo("observe")

\* mutant: the header is written whenever the file is opened
needs_header_Always(stat) == TRUE
(* An empty or missing file, and one whose size cannot be read (~stat) *)
needs_header(stat) == csv = <<>> \/ ~stat

(* A failed stat of the CSV file is taken for an empty file, which matters only
   if it is not; any other failure ends the open. *)
open_session_file(ok, stat) ==
    /\ At("open") /\ (~stat => ok /\ csv # <<>>) /\ Try(ok /\ stat)
    /\ IF ~ok THEN WriteFails /\ UNCHANGED <<file, misread>>
       ELSE /\ GoTo(IF needs_header(stat) THEN "header" ELSE "row")
            /\ file' = ~needs_header(stat)
            /\ misread' = IF stat THEN misread ELSE misread \cup {life}
            /\ UNCHANGED failed
    /\ UNCHANGED <<Rest, meta, disk, metaLost>>

\* mutant: the row that made the file be opened is forgotten
write_header_Only(ok) ==
    /\ At("header") /\ Try(ok)
    /\ IF ~ok THEN WriteFails /\ UNCHANGED <<csv, file>>
       ELSE GoTo("observe") /\ csv' = Append(csv, Header) /\ file' = TRUE /\ UNCHANGED failed
    /\ UNCHANGED <<Rest, meta, tmp, side, misread, metaLost>>
(* The handle is kept only once the header is in the file. *)
write_header(ok) ==
    /\ At("header") /\ Try(ok)
    /\ IF ~ok THEN WriteFails /\ UNCHANGED <<csv, file>>
       ELSE GoTo("row") /\ csv' = Append(csv, Header) /\ file' = TRUE /\ UNCHANGED failed
    /\ UNCHANGED <<Rest, meta, tmp, side, misread, metaLost>>

write_row(ok) ==
    /\ At("row") /\ Try(ok)
    /\ IF ~ok THEN WriteFails /\ UNCHANGED csv
       ELSE GoTo("observe") /\ csv' = Append(csv, writer.cmd) /\ UNCHANGED failed
    /\ UNCHANGED <<Rest, file, meta, tmp, side, misread, metaLost>>

(* SessionMeta::observe: rows are counted, a turn-scoped row brings cwd and
   model, the session's end is stamped.  Only a new entry or a changed selector
   is written at once. *)
observe ==
    /\ At("observe")
    /\ meta' = [life |-> life, rows |-> meta.rows + 1, whole |-> TRUE,
                identity |-> meta.identity \/ writer.cmd.job \in {"review", "record"},
                ended |-> meta.ended \/ writer.cmd.job = "ended"]
    /\ GoTo(IF \/ meta = NoMeta \/ meta'.identity # meta.identity \/ meta'.ended # meta.ended
              THEN "truncate" ELSE "recv")
    /\ UNCHANGED <<Rest, file, disk, faults, failed, misread, metaLost>>

(* write_session_meta is over, well or not. *)
MetaWritten(ok) ==
    /\ metaLost' = ~ok
    /\ GoTo(IF writer.cmd.job = "flush" THEN "ack" ELSE "recv")

\* mutant: the sidecar is written in place
open_tmp_InPlace(ok) ==
    /\ At("truncate") /\ Try(ok)
    /\ IF ok THEN /\ GoTo("body") /\ side' = [meta EXCEPT !.whole = FALSE]
                  /\ UNCHANGED <<tmp, metaLost>>
       ELSE MetaWritten(FALSE) /\ UNCHANGED <<tmp, side>>
    /\ UNCHANGED <<Rest, file, meta, csv, failed, misread>>
(* The temporary file is created or truncated, filled and renamed. *)
open_tmp(ok) ==
    /\ At("truncate") /\ Try(ok)
    /\ IF ok THEN GoTo("body") /\ tmp' = [meta EXCEPT !.whole = FALSE] /\ UNCHANGED metaLost
       ELSE MetaWritten(FALSE) /\ UNCHANGED tmp
    /\ UNCHANGED <<Rest, file, meta, csv, side, failed, misread>>

write_body(ok) ==
    /\ At("body") /\ Try(ok)
    /\ IF ok THEN GoTo("rename") /\ tmp' = meta /\ UNCHANGED metaLost
       ELSE MetaWritten(FALSE) /\ UNCHANGED tmp
    /\ UNCHANGED <<Rest, file, meta, csv, side, failed, misread>>

rename(ok) ==
    /\ At("rename") /\ Try(ok) /\ MetaWritten(ok)
    /\ IF ok THEN side' = tmp /\ tmp' = NoMeta ELSE UNCHANGED <<side, tmp>>
    /\ UNCHANGED <<Rest, file, meta, csv, failed, misread>>

ack ==
    /\ At("ack") /\ GoTo("recv")
    /\ actor' = [actor EXCEPT ![Main].at = "done"]
    /\ UNCHANGED <<bound, life, queue, waiters, due, file, meta, disk, faults, failed, misread, metaLost>>

-----------------------------------------------------------------------------
(* The process is gone, whatever it was doing, and the thread is resumed. *)
Crash ==
    /\ life < bound.lives /\ life' = life + 1
    /\ actor' = [s \in Actors |-> Idle]
    /\ queue' = <<>> /\ waiters' = <<>> /\ due' = {}
    /\ writer' = [at |-> "recv", cmd |-> NoCmd]
    /\ file' = FALSE /\ meta' = NoMeta /\ metaLost' = FALSE
    /\ UNCHANGED <<bound, disk, faults, failed, misread>>

Init ==
    /\ bound \in Bounds
    /\ life = 1 /\ actor = [s \in Actors |-> Idle]
    /\ queue = <<>> /\ waiters = <<>> /\ due = {}
    /\ writer = [at |-> "recv", cmd |-> NoCmd]
    /\ file = FALSE /\ meta = NoMeta /\ metaLost = FALSE
    /\ csv = <<>> /\ tmp = NoMeta /\ side = NoMeta
    /\ faults = 0 /\ failed = {} /\ misread = {}

FileStep(ok) ==
    \/ (\E stat \in BOOLEAN : open_session_file(ok, stat))
    \/ write_header(ok) \/ write_row(ok)
    \/ open_tmp(ok) \/ write_body(ok) \/ rename(ok)
WriterStep == recv \/ observe \/ ack \/ \E ok \in BOOLEAN : FileStep(ok)

Next ==
    \/ record_session_started \/ record_session_ended \/ flush
    \/ \E t \in Tasks : DropTask(t) \/ \E job \in {"review", "record"} : Tap(t, job)
    \/ \E s \in Actors : Push(s) \/ \E a \in Replies : request(s, a)
    \/ WriterStep
    \/ Crash

(* The runtime schedules the writer and woken senders, and file operations
   come back; of the monitor nothing is asked. *)
Spec ==
    /\ Init /\ [][Next]_vars
    /\ WF_vars(WriterStep)
    /\ \A s \in Actors : WF_vars(Push(s))

-----------------------------------------------------------------------------
(* Properties *)

RowSpace == [life : 0 .. MaxLives, who : Actors, job : Jobs]
MetaSpace == [life : 0 .. MaxLives, rows : Nat, identity : BOOLEAN, ended : BOOLEAN,
              whole : BOOLEAN]

(* Type correctness; queued commands and permits handed out never exceed the
   depth of the channel. *)
TypeOK ==
    /\ bound \in Bounds /\ life \in 1 .. MaxLives
    /\ actor \in [Actors -> [at : {"idle", "waiting", "granted", "exchange", "acking", "done",
                                   "dropped"},
                             job : Jobs, answer : Answers, verdict : Verdicts]]
    /\ queue \in Seq(RowSpace) /\ Len(queue) + Cardinality(Granted(actor)) <= QUEUE_DEPTH
    /\ waiters \in Seq(Actors)
    /\ writer \in [at : {"recv", "open", "header", "row", "observe", "truncate", "body", "rename",
                         "ack"}, cmd : RowSpace]
    /\ file \in BOOLEAN /\ metaLost \in BOOLEAN /\ faults \in 0 .. MaxFaults
    /\ {meta, tmp, side} \subseteq MetaSpace
    /\ csv \in Seq(RowSpace) /\ failed \subseteq RowSpace /\ due \subseteq RowSpace
    /\ misread \subseteq 1 .. MaxLives

(* The CSV file starts with a header and has no row twice; rows of a later life
   come behind those of an earlier one.  A further header only gets in when a
   resumed session could not read the file's size, once in that life and ahead
   of all its rows. *)
CsvWellFormed ==
    /\ csv # <<>> => IsHeader(csv[1])
    /\ \A i, j \in DOMAIN csv : i < j =>
        /\ csv[i] # csv[j] /\ csv[i].life <= csv[j].life
        /\ IsHeader(csv[j]) => csv[j].life \in misread /\ csv[i].life < csv[j].life

(* A reader of the sidecar never sees a half-written one, not even after a
   crash, and what it says of a session is not ahead of the CSV file but for
   rows that could not be written. *)
SidecarTruthful ==
    LET of == {r \in InFile \cup failed : r.life = side.life}
    IN side # NoMeta =>
        /\ side.whole /\ side.rows <= Cardinality(of)
        /\ side.ended => \E r \in of : r.job = "ended"
        /\ side.identity => \E r \in of : r.job \in {"review", "record"}

(* When the flush at the session's end returns, every row handed over before it
   was called is in the file or failed, and the sidecar is this session's, says
   that it ended and counts those rows, unless its own last write failed. *)
FlushMeansWritten ==
    Finished(Main, "flush") =>
        /\ due \subseteq InFile \cup failed
        /\ \/ metaLost
           \/ side.life = life /\ side.ended /\ side.rows >= Cardinality(due)

(* The monitor is asked, and a verdict acted on, only once the attempt is on
   its way into the history, and as long as the process lives it does not get
   lost there but for a failed write (a crash takes what is in the channel). *)
ReviewedIsRecorded ==
    \A t \in Tasks : actor[t].at \in {"exchange", "done"} =>
        Cmd(t) \in InQueue \cup InHand \cup InFile \cup failed

(* Composing the history with the monitor changes no decision: the turn acts on
   the monitor's verdict, and on its posture when it cannot be reached. *)
HistoryIsTransparent ==
    \A t \in Tasks : Finished(t, "review") =>
        /\ actor[t].verdict = review(actor[t].answer, IpcPosture)
        /\ Refused(actor[t].answer, IpcPosture) => actor[t].verdict = "deny"

(* Backpressure never becomes a deadlock: whoever waits for a slot of the
   channel, or for the flush, gets on, or is dropped, or the process ends. *)
EverySendReturns ==
    \A s \in Actors : actor[s].at \in {"waiting", "granted", "acking"}
                        ~> actor[s].at \notin {"waiting", "granted", "acking"}
=============================================================================
