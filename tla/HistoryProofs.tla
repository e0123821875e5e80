---------------------------- MODULE HistoryProofs ---------------------------
(***************************************************************************)
(* Proofs about History, for any depth of the channel, any number of tasks *)
(* and lives of the session, and any number of failing file operations.    *)
(***************************************************************************)
EXTENDS History, QueueFacts, FiniteSetTheorems

-----------------------------------------------------------------------------
(* The inductive invariant *)

(* The session records and flushes, a task reviews or records, and a sender has
   a job from its first step on. *)
Roles ==
    \A s \in Actors :
        /\ actor[s].job \in IF s = Main THEN {"none", "started", "ended", "flush"}
                            ELSE {"none", "review", "record"}
        /\ (actor[s].at = "idle") <=> (actor[s].job = "none")
        /\ actor[s].at = "exchange" => actor[s].job # "flush"
        /\ actor[s].at = "acking" => actor[s].job = "flush"
        /\ actor[s].at = "dropped" => s # Main

(* Those in the queue for a permit wait, each in one place. *)
WaitersWait ==
    \A i \in DOMAIN waiters :
        /\ actor[waiters[i]].at = "waiting"
        /\ \A j \in DOMAIN waiters : i # j => waiters[i] # waiters[j]

(* Every row that is past the entrance of the channel *)
Kept == InQueue \cup InHand \cup InFile \cup failed

(* The sender of a row has got past the channel with it. *)
Issued(r) ==
    LET a == actor[r.who]
    IN \/ a.job = r.job /\ a.at \notin {"idle", "waiting", "granted"}
       \/ r.job = "started" /\ a.job \in {"ended", "flush"}
       \/ r.job = "ended" /\ a.job = "flush"

Past(r) == r.life <= life /\ (r.life = life => Issued(r))

(* Rows past the entrance were sent, each of them once: it is at one place. *)
RowsOnce ==
    /\ \A r \in Kept : Past(r)
    /\ \A i \in DOMAIN queue :
          /\ queue[i].life = life /\ queue[i].job \in RowJobs \cup {"flush"}
          /\ queue[i] \notin InHand \cup InFile \cup failed
          /\ \A j \in DOMAIN queue : i # j => queue[i] # queue[j]
    /\ InHand \cap (InFile \cup failed) = {}

(* A row its sender has got past the channel with is not lost. *)
SentIsKept ==
    \A s \in Actors : actor[s].at \in {"exchange", "done"} /\ actor[s].job # "flush" => Cmd(s) \in Kept

(* What the writer has in hand is a row or a flush of this life that was sent;
   a flush leads to an acknowledgement. *)
WriterTook ==
    ~At("recv") =>
        /\ writer.cmd.life = life /\ Issued(writer.cmd)
        /\ At("ack") => writer.cmd.job = "flush"
        /\ writer.at \in {"open", "header", "row", "observe"} => writer.cmd.job \in RowJobs
        /\ At("observe") => writer.cmd \in InFile \cup failed

(* No row is written before the handle is kept, and nothing of this life is in
   the file until then; a header goes into an empty file or one whose size could
   not be read. *)
HeaderFirst ==
    /\ writer.at \in {"open", "header"} => ~file
    /\ At("header") => csv = <<>> \/ life \in misread
    /\ At("row") => file
    /\ file => csv # <<>>
    /\ \A i \in DOMAIN csv : csv[i].life <= life /\ (~file => csv[i].life < life)

(* Rows that were written, or failed to be, in life n *)
RowsOf(n) == {r \in InFile \cup failed : r.life = n}
(* Those of this life that SessionMeta has observed *)
Observed == RowsOf(life) \ (IF At("observe") THEN {writer.cmd} ELSE {})

(* SessionMeta has counted every row but the one it is about to see. *)
MetaCounts ==
    /\ \A n \in 0 .. MaxLives : IsFiniteSet(RowsOf(n))
    /\ meta.rows = Cardinality(Observed) /\ meta.whole
    /\ meta.ended <=> \E r \in Observed : r.job = "ended"
    /\ meta.identity <=> \E r \in Observed : r.job \in {"review", "record"}
    /\ IF Observed = {} THEN meta = NoMeta ELSE meta.life = life
    /\ writer.at \in {"truncate", "body", "rename"} => Observed # {}
    /\ At("rename") => tmp = meta

(* The rows due at the flush are in front of its command, the session's last
   one among them. *)
DueFirst ==
    /\ \A r \in due : r \in Kept /\ r.life = life /\ r.job # "flush"
    /\ actor[Main].job = "flush" => Row(life, Main, "ended") \in due
    /\ \A i, k \in DOMAIN queue : queue[k].job = "flush" /\ queue[i] \in due => i < k

Flushing == ~At("recv") /\ writer.cmd.job = "flush"

(* A flush in hand, or behind it: the rows due are written and counted. *)
FlushCounts ==
    Flushing \/ Finished(Main, "flush") =>
        due \subseteq InFile \cup failed /\ meta.ended /\ meta.rows >= Cardinality(due)

(* An acknowledgement is given behind the sidecar. *)
SidecarFirst ==
    At("ack") \/ Finished(Main, "flush") =>
        metaLost \/ (side.life = life /\ side.ended /\ side.rows >= Cardinality(due))

IInv ==
    /\ TypeOK /\ Roles /\ WaitersWait /\ RowsOnce /\ SentIsKept /\ WriterTook
    /\ HeaderFirst /\ CsvWellFormed /\ MetaCounts /\ SidecarTruthful
    /\ DueFirst /\ FlushCounts /\ SidecarFirst /\ HistoryIsTransparent

-----------------------------------------------------------------------------
(* The composed guardian *)

(* FanOutGuardian::review over two guardians consults one after the other. *)
LEMMA FanOutOfTwo ==
    ASSUME NEW a, NEW b
    PROVE  FanOutReview(<<a, b>>) = Consult(Consult("defer", a), b)
<1> DEFINE P == {{}, {1}, {2}, {1, 2}}
<1> DEFINE f == [s \in P |-> IF s = {} THEN "defer" ELSE IF s = {1} THEN Consult("defer", a)
                             ELSE IF s = {2} THEN Consult("defer", b) ELSE Consult(Consult("defer", a), b)]
<1> DEFINE body(g, s) == IF s = {} THEN "defer" ELSE Consult(g[s \ {Max(s)}], <<a, b>>[Max(s)])
<1> DEFINE fold == CHOOSE g : g = [s \in SUBSET {1, 2} |-> body(g, s)]
<1>1. FanOutReview(<<a, b>>) = fold[{1, 2}]
  <2>1. DOMAIN <<a, b>> = {1, 2}
    OBVIOUS
  <2> QED
    BY <2>1 DEF FanOutReview, FoldLeft, MapThenFoldSet
<1>2. Max({1, 2}) = 2 /\ Max({1}) = 1 /\ Max({2}) = 2
  <2>1. \E x \in {1, 2} : \A y \in {1, 2} : x >= y
    BY SMT
  <2> QED
    BY <2>1 DEF Max
<1>3. /\ {1} # {} /\ {2} # {} /\ {1, 2} # {} /\ {1} # {2} /\ {1, 2} # {1} /\ {1, 2} # {2}
      /\ {1} \ {1} = {} /\ {2} \ {2} = {} /\ {1, 2} \ {2} = {1}
  OBVIOUS
<1>4. <<a, b>>[1] = a /\ <<a, b>>[2] = b
  OBVIOUS
<1>5. SUBSET {1, 2} = P
  OBVIOUS
<1>6. /\ f[{}] = "defer" /\ f[{1}] = Consult("defer", a) /\ f[{2}] = Consult("defer", b)
      /\ f[{1, 2}] = Consult(Consult("defer", a), b)
  BY <1>3
<1>7. \A s \in P : f[s] = body(f, s)
  <2>1. f[{}] = body(f, {})
    BY <1>6
  <2>2. f[{1}] = body(f, {1})
    BY <1>2, <1>3, <1>4, <1>6
  <2>3. f[{2}] = body(f, {2})
    BY <1>2, <1>3, <1>4, <1>6
  <2>4. f[{1, 2}] = body(f, {1, 2})
    BY <1>2, <1>3, <1>4, <1>6
  <2> HIDE DEF f, body
  <2> QED
    BY <2>1, <2>2, <2>3, <2>4
<1>8. fold = [s \in SUBSET {1, 2} |-> body(fold, s)]
  <2>1. f = [s \in P |-> f[s]]
    OBVIOUS
  <2> HIDE DEF f, body, P
  <2>2. \E g : g = [s \in SUBSET {1, 2} |-> body(g, s)]
    BY <1>5, <1>7, <2>1
  <2> QED
    BY <2>2
<1> HIDE DEF fold
<1>9. fold[{1, 2}] = body(fold, {1, 2}) /\ fold[{1}] = body(fold, {1}) /\ fold[{}] = body(fold, {})
  <2> HIDE DEF body
  <2> QED
    BY <1>5, <1>8
<1>10. fold[{1}] = Consult("defer", a)
  BY <1>2, <1>3, <1>4, <1>9
<1>11. fold[{1, 2}] = Consult(Consult("defer", a), b)
  BY <1>2, <1>3, <1>4, <1>9, <1>10
<1> QED
  BY <1>1, <1>11

(* The CSV guardian defers and fails open: composed with another, it leaves the
   other's answer and posture as they are. *)
LEMMA CsvIsNeutral ==
    ASSUME NEW answer \in Answers, NEW posture \in Postures
    PROVE  /\ FanOutReview(<<"defer", answer>>) = answer
           /\ FanOutPosture(<<"fail_open", posture>>) = posture
           /\ review(answer, posture) \in Verdicts
<1>1. FanOutReview(<<"defer", answer>>) = answer
  BY FanOutOfTwo DEF Consult, Ends, Answers, Verdicts
<1>2. FanOutPosture(<<"fail_open", posture>>) = posture
  BY DEF FanOutPosture, Postures
<1>3. review(answer, posture) \in Verdicts
  BY DEF review, on_error, Answers, Verdicts
<1> QED
  BY <1>1, <1>2, <1>3

-----------------------------------------------------------------------------
(* Senders and permits *)

Places == {"idle", "waiting", "granted", "exchange", "acking", "done", "dropped"}
ActorSpace == [at : Places, job : Jobs, answer : Answers, verdict : Verdicts]

(* When and with what a sender comes to the channel. *)
MaySend(s, job) ==
    \/ actor[s].at = "idle" /\ s = Main /\ job = "started"
    \/ actor[s].at = "idle" /\ s \in Tasks /\ job \in {"review", "record"}
    \/ Finished(s, "started") /\ s = Main /\ job = "ended"
    \/ Finished(s, "ended") /\ s = Main /\ job = "flush"

(* What a step may do to a sender while the process lives. *)
Moves(s) ==
    \/ /\ actor'[s].job = actor[s].job
       /\ \/ actor'[s].at = actor[s].at
          \/ actor[s].at = "waiting" /\ actor'[s].at = "granted"
          \/ actor[s].at = "granted" /\ actor'[s].at = Behind(actor[s].job)
          \/ actor[s].at \in {"exchange", "acking"} /\ actor'[s].at = "done"
          \/ actor[s].at \in {"waiting", "granted", "exchange"} /\ actor'[s].at = "dropped" /\ s \in Tasks
    \/ MaySend(s, actor'[s].job) /\ actor'[s].at \in {"waiting", Behind(actor'[s].job)}

(* One sender changes: the permits handed out change by one at most. *)
LEMMA PermitChange ==
    ASSUME NEW act \in [Actors -> ActorSpace], NEW new \in [Actors -> ActorSpace], NEW s \in Actors,
           \A u \in Actors \ {s} : new[u].at = act[u].at
    PROVE  /\ Cardinality(Granted(act)) \in Nat /\ Cardinality(Granted(new)) \in Nat
           /\ Cardinality(Granted(new)) <= Cardinality(Granted(act)) + 1
           /\ new[s].at # "granted" => Cardinality(Granted(new)) <= Cardinality(Granted(act))
           /\ act[s].at = "granted" /\ new[s].at # "granted" =>
                 Cardinality(Granted(new)) = Cardinality(Granted(act)) - 1
<1>1. IsFiniteSet(Actors)
  BY HistoryAssumption, FS_AddElement DEF Actors
<1>2. Granted(act) \subseteq Actors /\ Granted(new) \subseteq Actors
  BY DEF Granted
<1>3. IsFiniteSet(Granted(act)) /\ Cardinality(Granted(act)) \in Nat
  BY <1>1, <1>2, FS_Subset, FS_CardinalityType
<1>4. CASE new[s].at = "granted"
  <2>1. Granted(new) = Granted(act) \cup {s}
    BY <1>4 DEF Granted
  <2>2. Cardinality(Granted(act) \cup {s}) = IF s \in Granted(act) THEN Cardinality(Granted(act))
                                             ELSE Cardinality(Granted(act)) + 1
    BY <1>3, FS_AddElement
  <2>3. Cardinality(Granted(new)) \in Nat /\ Cardinality(Granted(new)) <= Cardinality(Granted(act)) + 1
    BY <1>3, <2>1, <2>2
  <2> QED
    BY <1>3, <1>4, <2>3
<1>5. CASE new[s].at # "granted"
  <2>1. Granted(new) = Granted(act) \ {s} /\ (act[s].at = "granted" <=> s \in Granted(act))
    BY <1>5 DEF Granted
  <2>2. Cardinality(Granted(act) \ {s}) = IF s \in Granted(act) THEN Cardinality(Granted(act)) - 1
                                          ELSE Cardinality(Granted(act))
    BY <1>3, FS_RemoveElement
  <2>3. s \in Granted(act) => Cardinality(Granted(act)) # 0
    BY <1>3, FS_EmptySet
  <2>4. /\ Cardinality(Granted(new)) \in Nat /\ Cardinality(Granted(new)) <= Cardinality(Granted(act))
        /\ s \in Granted(act) => Cardinality(Granted(new)) = Cardinality(Granted(act)) - 1
    <3>1. CASE s \in Granted(act)
      BY <1>3, <2>1, <2>2, <2>3, <3>1
    <3>2. CASE s \notin Granted(act)
      BY <1>3, <2>1, <2>2, <3>2
    <3> QED
      BY <3>1, <3>2
  <2> QED
    BY <1>3, <1>5, <2>1, <2>4
<1> QED
  BY <1>4, <1>5

(* The types of the parts that most steps touch. *)
LEMMA SenderTypes ==
    ASSUME TypeOK
    PROVE  /\ actor \in [Actors -> ActorSpace] /\ queue \in Seq(RowSpace) /\ waiters \in Seq(Actors)
           /\ Len(queue) \in Nat /\ Cardinality(Granted(actor)) \in Nat /\ Main \in Actors /\ Tasks \subseteq Actors
           /\ QUEUE_DEPTH \in Nat /\ Len(queue) + Cardinality(Granted(actor)) <= QUEUE_DEPTH
<1>1. actor \in [Actors -> ActorSpace] /\ queue \in Seq(RowSpace) /\ waiters \in Seq(Actors)
  BY DEF TypeOK, ActorSpace, Places
<1>2. Main \in Actors /\ Tasks \subseteq Actors
  BY DEF Actors
<1>3. Cardinality(Granted(actor)) \in Nat
  BY <1>1, <1>2, PermitChange
<1> QED
  BY <1>1, <1>2, <1>3, HistoryAssumption, LenProperties DEF TypeOK

(* send(): the command is queued behind all others, or its sender waits. *)
LEMMA SendEffect ==
    ASSUME TypeOK, NEW s \in Actors, NEW job \in Jobs, Send(s, job)
    PROVE  /\ actor' \in [Actors -> ActorSpace] /\ actor'[s].job = job
           /\ \A u \in Actors \ {s} : actor'[u] = actor[u]
           /\ \/ HasPermit /\ queue' = Append(queue, Row(life, s, job)) /\ waiters' = waiters /\ actor'[s].at = Behind(job)
              \/ queue' = queue /\ waiters' = Append(waiters, s) /\ actor'[s].at = "waiting"
           /\ UNCHANGED <<bound, life, writer, file, meta, disk, faults, failed, misread, metaLost>>
<1>1. Behind(job) \in Places /\ "waiting" \in Places
  BY DEF Behind, Places
<1>2. [Idle EXCEPT !.job = job] \in ActorSpace
  BY DEF Idle, ActorSpace, Places, Answers, Verdicts
<1>3. ASSUME NEW at \in Places, actor' = [actor EXCEPT ![s] = [[Idle EXCEPT !.job = job] EXCEPT !.at = at]]
      PROVE  /\ actor' \in [Actors -> ActorSpace] /\ actor'[s].job = job /\ actor'[s].at = at
             /\ \A u \in Actors \ {s} : actor'[u] = actor[u]
  BY <1>2, <1>3, SenderTypes DEF ActorSpace, Idle
<1>4. CASE HasPermit
  BY <1>1, <1>3, <1>4 DEF Send
<1>5. CASE ~HasPermit
  BY <1>1, <1>3, <1>5 DEF Send
<1> QED
  BY <1>4, <1>5

(* Release: the first waiter gets the permit. *)
LEMMA ReleaseEffect ==
    ASSUME TypeOK, NEW act \in [Actors -> ActorSpace], Release(act)
    PROVE  /\ actor' \in [Actors -> ActorSpace] /\ waiters' \in Seq(Actors)
           /\ \/ actor' = act /\ waiters' = waiters
              \/ /\ waiters # <<>> /\ waiters' = Tail(waiters)
                 /\ Head(waiters) \in Actors /\ actor'[Head(waiters)].at = "granted"
                 /\ actor'[Head(waiters)].job = act[Head(waiters)].job
                 /\ \A u \in Actors \ {Head(waiters)} : actor'[u] = act[u]
           /\ Cardinality(Granted(actor')) \in Nat
           /\ Cardinality(Granted(actor')) <= Cardinality(Granted(act)) + 1
<1>0. Main \in Actors /\ waiters \in Seq(Actors)
  BY SenderTypes
<1>1. CASE waiters = <<>>
  BY <1>0, <1>1, PermitChange DEF Release
<1>2. CASE waiters # <<>>
  <2>1. Head(waiters) \in Actors /\ Tail(waiters) \in Seq(Actors)
    BY <1>0, <1>2, TailFacts
  <2>2. waiters' = Tail(waiters) /\ actor' = [act EXCEPT ![Head(waiters)].at = "granted"]
    BY <1>2 DEF Release
  <2>3. /\ actor' \in [Actors -> ActorSpace] /\ actor'[Head(waiters)].at = "granted"
        /\ actor'[Head(waiters)].job = act[Head(waiters)].job
        /\ \A u \in Actors \ {Head(waiters)} : actor'[u] = act[u]
    BY <2>1, <2>2 DEF ActorSpace, Places
  <2>4. /\ Cardinality(Granted(actor')) \in Nat
        /\ Cardinality(Granted(actor')) <= Cardinality(Granted(act)) + 1
    BY <2>1, <2>3, PermitChange
  <2> QED
    BY <1>2, <2>1, <2>2, <2>3, <2>4
<1> QED
  BY <1>1, <1>2

-----------------------------------------------------------------------------
(* The senders' side of every step *)

SendersTyped ==
    /\ actor \in [Actors -> ActorSpace] /\ queue \in Seq(RowSpace) /\ waiters \in Seq(Actors)
    /\ Len(queue) + Cardinality(Granted(actor)) <= QUEUE_DEPTH

SendersMove == SendersTyped' /\ WaitersWait' /\ \A s \in Actors : Moves(s)

(* A command is sent, or its sender joins the waiters. *)
LEMMA SendMoves ==
    ASSUME TypeOK, Roles, WaitersWait, NEW s \in Actors, NEW job, MaySend(s, job), Send(s, job)
    PROVE  SendersMove
<1>0. job \in Jobs /\ Row(life, s, job) \in RowSpace
  BY HistoryAssumption DEF MaySend, Jobs, RowJobs, Row, RowSpace, TypeOK
<1>1. /\ actor' \in [Actors -> ActorSpace] /\ actor'[s].job = job
      /\ \A u \in Actors \ {s} : actor'[u] = actor[u]
      /\ \/ HasPermit /\ queue' = Append(queue, Row(life, s, job)) /\ waiters' = waiters /\ actor'[s].at = Behind(job)
         \/ queue' = queue /\ waiters' = Append(waiters, s) /\ actor'[s].at = "waiting"
  BY <1>0, SendEffect
<1>2. \A u \in Actors : Moves(u)
  BY <1>1 DEF Moves
<1>3. /\ Cardinality(Granted(actor')) \in Nat /\ Cardinality(Granted(actor')) <= Cardinality(Granted(actor))
      /\ Len(queue) \in Nat /\ QUEUE_DEPTH \in Nat /\ Cardinality(Granted(actor)) \in Nat
      /\ Len(queue) + Cardinality(Granted(actor)) <= QUEUE_DEPTH
      /\ queue \in Seq(RowSpace) /\ waiters \in Seq(Actors)
  <2>1. actor'[s].at # "granted"
    BY <1>1 DEF Behind
  <2> QED
    BY <1>1, <2>1, SenderTypes, PermitChange
<1>4. actor[s].at \in {"idle", "done"}
  BY DEF MaySend, Finished
<1>5. CASE HasPermit /\ queue' = Append(queue, Row(life, s, job)) /\ waiters' = waiters
  <2>1. queue' \in Seq(RowSpace) /\ Len(queue') = Len(queue) + 1
    BY <1>0, <1>3, <1>5, AppendFacts
  <2>2. SendersTyped'
    BY <1>1, <1>3, <1>5, <2>1 DEF SendersTyped, HasPermit
  <2>3. WaitersWait'
    <3>1. \A i \in DOMAIN waiters : waiters[i] \in Actors \ {s}
      BY <1>3, <1>4, ElementOfSeq, LenProperties DEF WaitersWait
    <3> QED
      BY <1>1, <1>5, <3>1 DEF WaitersWait
  <2> QED
    BY <1>2, <2>2, <2>3 DEF SendersMove
<1>6. CASE queue' = queue /\ waiters' = Append(waiters, s) /\ actor'[s].at = "waiting"
  <2>1. /\ waiters' \in Seq(Actors) /\ waiters'[Len(waiters) + 1] = s
        /\ \A i \in DOMAIN waiters : waiters'[i] = waiters[i]
        /\ \A i \in DOMAIN waiters' : i = Len(waiters) + 1 \/ i \in DOMAIN waiters
    BY <1>3, <1>6, AppendFacts
  <2>2. SendersTyped'
    BY <1>1, <1>3, <1>6, <2>1 DEF SendersTyped
  <2>3. WaitersWait'
    <3>1. \A i \in DOMAIN waiters : waiters[i] \in Actors \ {s}
      BY <1>3, <1>4, ElementOfSeq, LenProperties DEF WaitersWait
    <3> QED
      BY <1>1, <1>6, <2>1, <3>1 DEF WaitersWait
  <2> QED
    BY <1>2, <2>2, <2>3 DEF SendersMove
<1> QED
  BY <1>1, <1>5, <1>6

(* A waiter uses its permit. *)
LEMMA PushMoves ==
    ASSUME TypeOK, Roles, WaitersWait, NEW s \in Actors, Push(s)
    PROVE  /\ SendersMove /\ queue' = Append(queue, Cmd(s)) /\ Cmd(s) \in RowSpace
           /\ actor[s].at = "granted" /\ actor'[s].at = Behind(actor[s].job) /\ actor'[s].job = actor[s].job
           /\ \A u \in Actors \ {s} : actor'[u] = actor[u]
<1>0. /\ actor \in [Actors -> ActorSpace] /\ queue \in Seq(RowSpace) /\ waiters \in Seq(Actors)
      /\ Len(queue) \in Nat /\ QUEUE_DEPTH \in Nat /\ Cardinality(Granted(actor)) \in Nat
      /\ Len(queue) + Cardinality(Granted(actor)) <= QUEUE_DEPTH
  BY SenderTypes
<1>1. Behind(actor[s].job) \in Places \ {"granted"}
  BY DEF Behind, Places
<1>2. /\ actor' \in [Actors -> ActorSpace] /\ actor'[s].at = Behind(actor[s].job) /\ actor'[s].job = actor[s].job
      /\ \A u \in Actors \ {s} : actor'[u] = actor[u]
      /\ actor[s].at = "granted" /\ queue' = Append(queue, Cmd(s)) /\ waiters' = waiters
  BY <1>0, <1>1 DEF Push, ActorSpace
<1>3. Cmd(s) \in RowSpace
  BY <1>0, HistoryAssumption DEF Cmd, Row, RowSpace, TypeOK, ActorSpace
<1>4. queue' \in Seq(RowSpace) /\ Len(queue') = Len(queue) + 1
  BY <1>0, <1>2, <1>3, AppendFacts
<1>5. Cardinality(Granted(actor')) = Cardinality(Granted(actor)) - 1
  BY <1>0, <1>1, <1>2, PermitChange
<1>6. SendersTyped'
  BY <1>0, <1>2, <1>4, <1>5 DEF SendersTyped
<1>7. WaitersWait'
  <2>1. \A i \in DOMAIN waiters : waiters[i] \in Actors \ {s}
    BY <1>0, <1>2, ElementOfSeq, LenProperties DEF WaitersWait
  <2> QED
    BY <1>2, <2>1 DEF WaitersWait
<1> QED
  BY <1>2, <1>3, <1>6, <1>7 DEF SendersMove, Moves

(* A sender that is not waiting gets on outside the channel. *)
LEMMA LeaveMoves ==
    ASSUME TypeOK, Roles, WaitersWait, NEW s \in Actors, Moves(s), actor' \in [Actors -> ActorSpace],
           \A u \in Actors \ {s} : actor'[u] = actor[u],
           actor[s].at # "waiting", actor'[s].at # "granted", UNCHANGED <<queue, waiters>>
    PROVE  SendersMove
<1>0. /\ actor \in [Actors -> ActorSpace] /\ queue \in Seq(RowSpace) /\ waiters \in Seq(Actors)
      /\ Len(queue) \in Nat /\ QUEUE_DEPTH \in Nat /\ Cardinality(Granted(actor)) \in Nat
      /\ Len(queue) + Cardinality(Granted(actor)) <= QUEUE_DEPTH
  BY SenderTypes
<1>1. Cardinality(Granted(actor')) \in Nat /\ Cardinality(Granted(actor')) <= Cardinality(Granted(actor))
  BY <1>0, PermitChange
<1>2. SendersTyped'
  BY <1>0, <1>1 DEF SendersTyped
<1>3. WaitersWait'
  <2>1. \A i \in DOMAIN waiters : waiters[i] \in Actors \ {s}
    BY <1>0, ElementOfSeq, LenProperties DEF WaitersWait
  <2> QED
    BY <2>1 DEF WaitersWait
<1>4. \A u \in Actors : Moves(u)
  BY DEF Moves
<1> QED
  BY <1>2, <1>3, <1>4 DEF SendersMove

(* The first waiter is handed a permit that came free. *)
LEMMA ReleaseMoves ==
    ASSUME TypeOK, Roles, WaitersWait, NEW act \in [Actors -> ActorSpace], Release(act),
           NEW q, queue' = q, q \in Seq(RowSpace), Len(q) \in Nat,
           Cardinality(Granted(act)) \in Nat, Len(q) + Cardinality(Granted(act)) + 1 <= QUEUE_DEPTH,
           \A u \in Actors : act[u].job = actor[u].job,
           \A u \in Actors : actor[u].at = "waiting" => act[u] = actor[u],
           \A u \in Actors : act[u].at = actor[u].at \/
               (actor[u].at \in {"waiting", "granted", "exchange"} /\ act[u].at = "dropped" /\ u \in Tasks)
    PROVE  SendersMove
<1>0. waiters \in Seq(Actors) /\ QUEUE_DEPTH \in Nat /\ actor \in [Actors -> ActorSpace]
  BY SenderTypes
<1>1. /\ actor' \in [Actors -> ActorSpace] /\ waiters' \in Seq(Actors)
      /\ \/ actor' = act /\ waiters' = waiters
         \/ /\ waiters # <<>> /\ waiters' = Tail(waiters)
            /\ Head(waiters) \in Actors /\ actor'[Head(waiters)].at = "granted"
            /\ actor'[Head(waiters)].job = act[Head(waiters)].job
            /\ \A u \in Actors \ {Head(waiters)} : actor'[u] = act[u]
      /\ Cardinality(Granted(actor')) \in Nat
      /\ Cardinality(Granted(actor')) <= Cardinality(Granted(act)) + 1
  BY ReleaseEffect
<1>2. SendersTyped'
  BY <1>0, <1>1 DEF SendersTyped
<1>3. CASE actor' = act /\ waiters' = waiters
  <2>1. \A u \in Actors : Moves(u)
    BY <1>3 DEF Moves
  <2>2. \A i \in DOMAIN waiters : waiters[i] \in Actors
    BY <1>0, ElementOfSeq, LenProperties
  <2>3. WaitersWait'
    BY <1>3, <2>2 DEF WaitersWait
  <2> QED
    BY <1>2, <2>1, <2>3 DEF SendersMove
<1>4. CASE /\ waiters # <<>> /\ waiters' = Tail(waiters)
           /\ Head(waiters) \in Actors /\ actor'[Head(waiters)].at = "granted"
           /\ actor'[Head(waiters)].job = act[Head(waiters)].job
           /\ \A u \in Actors \ {Head(waiters)} : actor'[u] = act[u]
  <2>1. /\ 1 \in DOMAIN waiters /\ Head(waiters) = waiters[1]
        /\ \A i \in DOMAIN waiters' : i \in Nat /\ i > 0 /\ i + 1 \in DOMAIN waiters /\ waiters'[i] = waiters[i + 1]
    BY <1>0, <1>4, TailFacts
  <2>2. actor[Head(waiters)].at = "waiting"
    BY <2>1 DEF WaitersWait
  <2>3. \A u \in Actors : Moves(u)
    BY <1>4, <2>2 DEF Moves
  <2>4. ASSUME NEW i \in DOMAIN waiters' PROVE waiters'[i] \in Actors \ {Head(waiters)} /\ actor'[waiters'[i]].at = "waiting"
    <3>1. i + 1 \in DOMAIN waiters /\ i + 1 # 1 /\ waiters'[i] = waiters[i + 1]
      BY <2>1
    <3>2. waiters[i + 1] \in Actors
      BY <1>0, <3>1, ElementOfSeq, LenProperties
    <3>3. waiters[i + 1] # waiters[1] /\ actor[waiters[i + 1]].at = "waiting"
      BY <2>1, <3>1 DEF WaitersWait
    <3> QED
      BY <1>4, <2>1, <3>1, <3>2, <3>3
  <2>5. ASSUME NEW i \in DOMAIN waiters', NEW j \in DOMAIN waiters', i # j PROVE waiters'[i] # waiters'[j]
    <3>1. i + 1 \in DOMAIN waiters /\ j + 1 \in DOMAIN waiters /\ i + 1 # j + 1
      BY <2>1, <2>5
    <3> QED
      BY <2>1, <3>1 DEF WaitersWait
  <2>6. WaitersWait'
    BY <2>4, <2>5 DEF WaitersWait
  <2> QED
    BY <1>2, <2>3, <2>6 DEF SendersMove
<1> QED
  BY <1>1, <1>3, <1>4

(* An interrupted task is dropped where it waits. *)
LEMMA DropMoves ==
    ASSUME TypeOK, Roles, WaitersWait, NEW t \in Tasks, DropTask(t)
    PROVE  SendersMove
<1> DEFINE act == [actor EXCEPT ![t].at = "dropped"]
<1>0. /\ actor \in [Actors -> ActorSpace] /\ queue \in Seq(RowSpace) /\ waiters \in Seq(Actors)
      /\ Len(queue) \in Nat /\ QUEUE_DEPTH \in Nat /\ Cardinality(Granted(actor)) \in Nat
      /\ Len(queue) + Cardinality(Granted(actor)) <= QUEUE_DEPTH /\ t \in Actors
  BY SenderTypes
<1>1. /\ act \in [Actors -> ActorSpace] /\ act[t].at = "dropped" /\ act[t].job = actor[t].job
      /\ \A u \in Actors \ {t} : act[u] = actor[u]
  BY <1>0 DEF ActorSpace, Places
<1>2. /\ actor[t].at \in {"waiting", "granted", "exchange"} /\ queue' = queue
      /\ actor[t].at = "granted" => Release(act)
      /\ actor[t].at = "waiting" => actor' = act /\ \E i \in DOMAIN waiters :
            waiters[i] = t /\ waiters' = SubSeq(waiters, 1, i - 1) \o SubSeq(waiters, i + 1, Len(waiters))
      /\ actor[t].at = "exchange" => actor' = act /\ waiters' = waiters
  BY DEF DropTask, RemoveAt
<1> HIDE DEF act
<1>3. CASE actor[t].at = "granted"
  <2>1. Cardinality(Granted(act)) \in Nat /\ Cardinality(Granted(act)) = Cardinality(Granted(actor)) - 1
    BY <1>0, <1>1, <1>3, PermitChange
  <2>2. Len(queue) + Cardinality(Granted(act)) + 1 <= QUEUE_DEPTH
    BY <1>0, <2>1
  <2>3. /\ \A u \in Actors : act[u].job = actor[u].job
        /\ \A u \in Actors : actor[u].at = "waiting" => act[u] = actor[u]
        /\ \A u \in Actors : act[u].at = actor[u].at \/
               (actor[u].at \in {"waiting", "granted", "exchange"} /\ act[u].at = "dropped" /\ u \in Tasks)
    BY <1>1, <1>3
  <2> QED
    BY <1>0, <1>1, <1>2, <1>3, <2>1, <2>2, <2>3, ReleaseMoves
<1>4. CASE actor[t].at = "exchange"
  <2>1. actor' = act /\ waiters' = waiters /\ Moves(t)
    BY <1>0, <1>1, <1>2, <1>4 DEF Moves
  <2> QED
    BY <1>0, <1>1, <1>2, <1>4, <2>1, LeaveMoves
<1>5. CASE actor[t].at = "waiting"
  <2>1. PICK k \in DOMAIN waiters :
            waiters[k] = t /\ waiters' = SubSeq(waiters, 1, k - 1) \o SubSeq(waiters, k + 1, Len(waiters))
    BY <1>2, <1>5
  <2>2. /\ waiters' \in Seq(Actors) /\ k \in Nat /\ DOMAIN waiters' \subseteq Nat
        /\ \A i \in DOMAIN waiters' : IF i < k THEN i \in DOMAIN waiters /\ waiters'[i] = waiters[i]
                                      ELSE i + 1 \in DOMAIN waiters /\ waiters'[i] = waiters[i + 1]
    BY <1>0, <2>1, RemoveFacts
  <2>3. actor' = act
    BY <1>2, <1>5
  <2>4. Cardinality(Granted(actor')) \in Nat /\ Cardinality(Granted(actor')) <= Cardinality(Granted(actor))
    BY <1>0, <1>1, <2>3, PermitChange
  <2>5. SendersTyped'
    BY <1>0, <1>1, <1>2, <2>2, <2>3, <2>4 DEF SendersTyped
  <2>6. \A u \in Actors : Moves(u)
    BY <1>1, <1>5, <2>3 DEF Moves
  <2> DEFINE from(i) == IF i < k THEN i ELSE i + 1
  <2>7. \A i \in DOMAIN waiters' : from(i) \in DOMAIN waiters /\ from(i) # k /\ waiters'[i] = waiters[from(i)]
    BY <2>2
  <2>8. \A i, j \in DOMAIN waiters' : i # j => from(i) # from(j)
    BY <2>2
  <2>9. \A i \in DOMAIN waiters : waiters[i] \in Actors
    BY <1>0, ElementOfSeq, LenProperties
  <2> HIDE DEF from
  <2>10. WaitersWait'
    <3>1. ASSUME NEW i \in DOMAIN waiters' PROVE actor'[waiters'[i]].at = "waiting"
      <4>1. waiters[from(i)] # t /\ actor[waiters[from(i)]].at = "waiting" /\ waiters[from(i)] \in Actors
        BY <2>1, <2>7, <2>9 DEF WaitersWait
      <4> QED
        BY <1>1, <2>3, <2>7, <4>1
    <3>2. ASSUME NEW i \in DOMAIN waiters', NEW j \in DOMAIN waiters', i # j PROVE waiters'[i] # waiters'[j]
      BY <2>7, <2>8, <3>2 DEF WaitersWait
    <3> QED
      BY <3>1, <3>2 DEF WaitersWait
  <2> QED
    BY <2>5, <2>6, <2>10 DEF SendersMove
<1> QED
  BY <1>2, <1>3, <1>4, <1>5

(* Every step but a crash moves the senders on, each along its way. *)
LEMMA SendersStep ==
    ASSUME TypeOK, Roles, WaitersWait, WriterTook, Next
    PROVE  Crash \/ (SendersMove /\ UNCHANGED <<bound, life>>)
<1>0. /\ actor \in [Actors -> ActorSpace] /\ queue \in Seq(RowSpace) /\ waiters \in Seq(Actors)
      /\ Len(queue) \in Nat /\ QUEUE_DEPTH \in Nat /\ Cardinality(Granted(actor)) \in Nat
      /\ Len(queue) + Cardinality(Granted(actor)) <= QUEUE_DEPTH /\ Main \in Actors /\ Tasks \subseteq Actors
  BY SenderTypes
<1>1. CASE record_session_started \/ record_session_ended \/ flush
  <2>1. \E job : MaySend(Main, job) /\ Send(Main, job)
    BY <1>1 DEF record_session_started, record_session_ended, flush, MaySend, Finished
  <2>2. UNCHANGED <<bound, life>>
    BY <1>1 DEF record_session_started, record_session_ended, flush, Send
  <2> QED
    BY <1>0, <2>1, <2>2, SendMoves
<1>2. ASSUME NEW t \in Tasks, NEW job \in {"review", "record"}, Tap(t, job)
      PROVE  SendersMove /\ UNCHANGED <<bound, life>>
  <2>1. MaySend(t, job) /\ Send(t, job)
    BY <1>2 DEF Tap, MaySend
  <2>2. UNCHANGED <<bound, life>>
    BY <2>1 DEF Send
  <2> QED
    BY <1>0, <2>1, <2>2, SendMoves
<1>3. ASSUME NEW t \in Tasks, DropTask(t) PROVE SendersMove /\ UNCHANGED <<bound, life>>
  BY <1>3, DropMoves DEF DropTask
<1>4. ASSUME NEW s \in Actors, Push(s) PROVE SendersMove /\ UNCHANGED <<bound, life>>
  BY <1>4, PushMoves DEF Push
<1>5. ASSUME NEW s \in Actors, NEW a \in Replies, request(s, a) PROVE SendersMove /\ UNCHANGED <<bound, life>>
  <2>1. a \in Answers /\ review(FanOutReview(<<"defer", a>>), FanOutPosture(<<"fail_open", IpcPosture>>)) \in Verdicts
    BY HistoryAssumption, CsvIsNeutral
  <2>2. /\ actor' \in [Actors -> ActorSpace] /\ actor[s].at = "exchange"
        /\ actor'[s].at = "done" /\ actor'[s].job = actor[s].job
        /\ \A u \in Actors \ {s} : actor'[u] = actor[u]
    BY <1>0, <1>5, <2>1 DEF request, ActorSpace, Places
  <2>3. Moves(s)
    BY <2>2 DEF Moves
  <2>4. UNCHANGED <<queue, waiters, bound, life>>
    BY <1>5 DEF request
  <2> QED
    BY <2>2, <2>3, <2>4, LeaveMoves
<1>6. CASE recv
  <2>1. queue # <<>> /\ queue' = Tail(queue) /\ Release(actor) /\ UNCHANGED <<bound, life>>
    BY <1>6 DEF recv
  <2>2. Tail(queue) \in Seq(RowSpace) /\ Len(Tail(queue)) = Len(queue) - 1 /\ Len(Tail(queue)) \in Nat
    BY <1>0, <2>1, TailFacts, LenProperties
  <2>3. Len(Tail(queue)) + Cardinality(Granted(actor)) + 1 <= QUEUE_DEPTH
    BY <1>0, <2>2
  <2> QED
    BY <1>0, <2>1, <2>2, <2>3, ReleaseMoves
<1>7. CASE ack
  <2>1. writer.cmd.job = "flush" /\ Issued(writer.cmd) /\ writer.cmd.who \in Actors
    BY <1>7 DEF ack, At, WriterTook, TypeOK, RowSpace
  <2>2. actor[writer.cmd.who].job = "flush" /\ actor[writer.cmd.who].at \notin {"idle", "waiting", "granted"}
    BY <2>1 DEF Issued
  <2>3. writer.cmd.who = Main
    BY <2>1, <2>2 DEF Roles
  <2>4. actor[Main].at \in {"acking", "done"}
    BY <1>0, <2>2, <2>3 DEF Roles, ActorSpace, Places
  <2>5. /\ actor' \in [Actors -> ActorSpace] /\ actor'[Main].at = "done" /\ actor'[Main].job = actor[Main].job
        /\ \A u \in Actors \ {Main} : actor'[u] = actor[u]
    BY <1>0, <1>7 DEF ack, ActorSpace, Places
  <2>6. Moves(Main)
    BY <2>4, <2>5 DEF Moves
  <2>7. UNCHANGED <<queue, waiters, bound, life>>
    BY <1>7 DEF ack
  <2> QED
    BY <1>0, <2>4, <2>5, <2>6, <2>7, LeaveMoves
<1>8. CASE UNCHANGED <<bound, life, senders>>
  <2>1. WaitersWait'
    BY <1>8 DEF senders, WaitersWait
  <2> QED
    BY <1>0, <1>8, <2>1 DEF senders, SendersMove, SendersTyped, Moves
<1>9. ASSUME observe \/ \E ok \in BOOLEAN : FileStep(ok) PROVE UNCHANGED <<bound, life, senders>>
  BY <1>9 DEF observe, FileStep, open_session_file, write_header, write_row, open_tmp, write_body, rename, Rest
<1> QED
  BY <1>1, <1>2, <1>3, <1>4, <1>5, <1>6, <1>7, <1>8, <1>9 DEF Next, WriterStep

(* A sender that moves on keeps to its role. *)
LEMMA RolesStep ==
    ASSUME TypeOK, Roles, SendersMove
    PROVE  Roles'
<1>1. ASSUME NEW s \in Actors, Moves(s)
      PROVE  /\ actor'[s].job \in IF s = Main THEN {"none", "started", "ended", "flush"}
                                  ELSE {"none", "review", "record"}
             /\ (actor'[s].at = "idle") <=> (actor'[s].job = "none")
             /\ actor'[s].at = "exchange" => actor'[s].job # "flush"
             /\ actor'[s].at = "acking" => actor'[s].job = "flush"
             /\ actor'[s].at = "dropped" => s # Main
  <2>0. Main \notin Tasks
    BY HistoryAssumption
  <2>1. CASE MaySend(s, actor'[s].job) /\ actor'[s].at \in {"waiting", Behind(actor'[s].job)}
    BY <2>0, <2>1 DEF MaySend, Behind, Finished
  <2>2. CASE actor'[s].job = actor[s].job
    BY <1>1, <2>0, <2>1, <2>2 DEF Moves, Roles, Behind
  <2> QED
    BY <1>1, <2>1, <2>2 DEF Moves
<1> QED
  BY <1>1 DEF SendersMove, Roles

(* A row that was sent stays sent. *)
LEMMA IssuedStep ==
    ASSUME TypeOK, Roles, SendersMove, NEW r \in RowSpace, Issued(r)
    PROVE  Issued(r)'
<1>1. r.who \in Actors /\ Moves(r.who) /\ actor[r.who].at \in Places /\ actor[r.who].job \in Jobs
  BY SenderTypes DEF RowSpace, SendersMove, ActorSpace
<1>2. CASE MaySend(r.who, actor'[r.who].job)
  BY <1>1, <1>2 DEF MaySend, Finished, Issued, Roles
<1>3. CASE actor'[r.who].job = actor[r.who].job /\ ~MaySend(r.who, actor'[r.who].job)
  BY <1>1, <1>3 DEF Moves, Issued, Behind
<1> QED
  BY <1>1, <1>2, <1>3 DEF Moves

(* The rows past the entrance are rows. *)
LEMMA KeptTypes ==
    ASSUME TypeOK
    PROVE  /\ InQueue \subseteq RowSpace /\ InHand \subseteq RowSpace /\ InFile \subseteq RowSpace
           /\ failed \subseteq RowSpace /\ Kept \subseteq RowSpace
           /\ \A r \in RowSpace : r.life \in Nat /\ r.who \in Actors /\ r.job \in Jobs
<1>1. \A q \in Seq(RowSpace) : \A i \in DOMAIN q : q[i] \in RowSpace
  BY ElementOfSeq, LenProperties
<1>2. InQueue \subseteq RowSpace /\ InHand \subseteq RowSpace /\ InFile \subseteq RowSpace /\ failed \subseteq RowSpace
  BY <1>1 DEF TypeOK, InQueue, InHand, InFile, IsHeader
<1>3. \A r \in RowSpace : r.life \in Nat /\ r.who \in Actors /\ r.job \in Jobs
  BY HistoryAssumption DEF RowSpace
<1> QED
  BY <1>2, <1>3 DEF Kept

(* Every step keeps the types. *)
LEMMA TypeStep ==
    ASSUME TypeOK, Roles, WaitersWait, WriterTook, [Next]_vars
    PROVE  TypeOK'
<1> DEFINE WriterTyped == /\ writer \in [at : {"recv", "open", "header", "row", "observe", "truncate", "body", "rename",
                                               "ack"}, cmd : RowSpace]
                          /\ file \in BOOLEAN /\ metaLost \in BOOLEAN /\ faults \in 0 .. MaxFaults
                          /\ meta \in MetaSpace /\ tmp \in MetaSpace /\ side \in MetaSpace
                          /\ csv \in Seq(RowSpace) /\ failed \subseteq RowSpace /\ misread \subseteq 1 .. MaxLives
<1> USE DEF TypeOK
<1>0. WriterTyped /\ MaxFaults \in Nat /\ MaxLives \in Nat /\ life \in 1 .. MaxLives
  BY HistoryAssumption
<1>1. Header \in RowSpace /\ NoCmd \in RowSpace /\ NoMeta \in MetaSpace /\ Idle \in ActorSpace
  BY <1>0, HistoryAssumption DEF Header, NoCmd, Row, RowSpace, NoMeta, MetaSpace, Idle, ActorSpace, Places, Jobs, RowJobs,
                           Actors, Answers, Verdicts
<1>2. ASSUME SendersTyped', WriterTyped', bound' = bound, life' = life, due' \subseteq RowSpace PROVE TypeOK'
  BY <1>2 DEF SendersTyped, ActorSpace, Places
<1>3. CASE Crash
  <2>1. life' \in 1 .. MaxLives
    BY <1>0, <1>3, HistoryAssumption DEF Crash
  <2>2. Granted(actor') = {}
    BY <1>3 DEF Crash, Granted, Idle
  <2>3. Len(queue') + Cardinality(Granted(actor')) <= QUEUE_DEPTH
    <3>1. Len(queue') = 0 /\ Cardinality(Granted(actor')) = 0
      BY <1>3, <2>2, FS_EmptySet DEF Crash
    <3> QED
      BY <3>1, HistoryAssumption
  <2>4. WriterTyped'
    BY <1>0, <1>1, <1>3 DEF Crash, disk
  <2>5. actor' \in [Actors -> ActorSpace]
    BY <1>1, <1>3 DEF Crash
  <2> QED
    BY <1>3, <2>1, <2>3, <2>4, <2>5 DEF Crash, ActorSpace, Places
<1>4. CASE UNCHANGED vars
  <2>1. Granted(actor') = Granted(actor)
    BY <1>4 DEF vars, senders, Granted
  <2> QED
    BY <1>4, <2>1 DEF vars, senders, disk
<1>5. CASE Next /\ ~Crash
  <2>1. SendersTyped' /\ bound' = bound /\ life' = life
    BY <1>5, SendersStep DEF SendersMove
  <2>2. ASSUME UNCHANGED <<writer, file, meta, disk, faults, failed, misread, metaLost>>, due' \subseteq RowSpace PROVE TypeOK'
    BY <1>0, <1>2, <2>1, <2>2 DEF disk
  <2>3. CASE record_session_started \/ record_session_ended
    BY <2>2, <2>3 DEF record_session_started, record_session_ended, Send
  <2>4. CASE flush
    <3>1. due' \subseteq RowSpace
      BY <2>4, KeptTypes DEF flush, HandedOver, Kept
    <3> QED
      BY <2>2, <2>4, <3>1 DEF flush, Send
  <2>5. ASSUME NEW t \in Tasks, NEW job \in {"review", "record"}, Tap(t, job) PROVE TypeOK'
    BY <2>2, <2>5 DEF Tap, Send
  <2>6. ASSUME NEW t \in Tasks, DropTask(t) PROVE TypeOK'
    BY <2>2, <2>6 DEF DropTask
  <2>7. ASSUME NEW s \in Actors, Push(s) PROVE TypeOK'
    BY <2>2, <2>7 DEF Push
  <2>8. ASSUME NEW s \in Actors, NEW a \in Replies, request(s, a) PROVE TypeOK'
    BY <2>2, <2>8 DEF request
  <2>9. ASSUME WriterTyped', due' = due PROVE TypeOK'
    BY <1>2, <2>1, <2>9
  <2>10. CASE recv
    <3>1. Head(queue) \in RowSpace
      BY <2>10, TailFacts DEF recv
    <3> QED
      BY <1>0, <2>9, <2>10, <3>1 DEF recv, FlushStart, disk
  <2>11. CASE observe
    <3>1. /\ life \in 0 .. MaxLives /\ meta.rows + 1 \in Nat
          /\ (meta.identity \/ writer.cmd.job \in {"review", "record"}) \in BOOLEAN
          /\ (meta.ended \/ writer.cmd.job = "ended") \in BOOLEAN
      BY <1>0 DEF MetaSpace
    <3>2. meta' \in MetaSpace
      BY <2>11, <3>1 DEF observe, MetaSpace
    <3>3. /\ writer' \in [at : {"recv", "open", "header", "row", "observe", "truncate", "body", "rename", "ack"},
                          cmd : RowSpace]
          /\ due' = due /\ UNCHANGED <<file, csv, tmp, side, faults, failed, misread, metaLost>>
      BY <1>0, <2>11 DEF observe, GoTo, Rest, senders, disk
    <3> QED
      BY <1>0, <2>9, <3>2, <3>3
  <2>12. CASE ack
    BY <1>0, <2>9, <2>12 DEF ack, GoTo, disk
  <2>13. ASSUME NEW ok \in BOOLEAN, FileStep(ok) PROVE TypeOK'
    <3>0. faults' \in 0 .. MaxFaults /\ due' = due
      <4>1. (\E done \in BOOLEAN : Try(done)) /\ due' = due
        BY <2>13 DEF FileStep, open_session_file, write_header, write_row, open_tmp, write_body, rename, Rest, senders
      <4> QED
        BY <1>0, <4>1 DEF Try
    <3>1. CASE \E stat \in BOOLEAN : open_session_file(ok, stat)
      <4>1. PICK stat \in BOOLEAN : open_session_file(ok, stat)
        BY <3>1
      <4>2. UNCHANGED <<csv, tmp, side, meta, metaLost>>
        BY <4>1 DEF open_session_file, disk
      <4>3. \E where \in {"observe", "header", "row"} : GoTo(where)
        BY <4>1 DEF open_session_file, WriteFails
      <4>4. file' \in BOOLEAN /\ failed' \subseteq RowSpace
        BY <1>0, <4>1 DEF open_session_file, WriteFails, needs_header
      <4>5. misread' \subseteq 1 .. MaxLives
        BY <1>0, <4>1 DEF open_session_file
      <4> QED
        BY <1>0, <2>9, <3>0, <4>2, <4>3, <4>4, <4>5 DEF GoTo
    <3>2. CASE write_header(ok)
      <4>1. csv' \in Seq(RowSpace)
        <5>1. csv' = csv \/ csv' = Append(csv, Header)
          BY <3>2 DEF write_header
        <5>2. csv \in Seq(RowSpace)
          BY <1>0
        <5> HIDE DEF TypeOK, WriterTyped
        <5> QED
          BY <1>1, <5>1, <5>2, AppendFacts
      <4> QED
        BY <1>0, <2>9, <3>0, <3>2, <4>1 DEF write_header, WriteFails, GoTo
    <3>3. CASE write_row(ok)
      <4>1. csv' \in Seq(RowSpace)
        <5>1. (csv' = csv \/ csv' = Append(csv, writer.cmd)) /\ writer.cmd \in RowSpace
          BY <1>0, <3>3 DEF write_row
        <5>2. csv \in Seq(RowSpace)
          BY <1>0
        <5> HIDE DEF TypeOK, WriterTyped
        <5> QED
          BY <5>1, <5>2, AppendFacts
      <4> QED
        BY <1>0, <2>9, <3>0, <3>3, <4>1 DEF write_row, WriteFails, GoTo
    <3>4. CASE open_tmp(ok)
      BY <1>0, <2>9, <3>0, <3>4, ZenonT(60) DEF open_tmp, MetaWritten, GoTo, MetaSpace
    <3>5. CASE write_body(ok)
      BY <1>0, <2>9, <3>0, <3>5 DEF write_body, MetaWritten, GoTo
    <3>6. CASE rename(ok)
      BY <1>0, <1>1, <2>9, <3>0, <3>6 DEF rename, MetaWritten, GoTo
    <3> QED
      BY <2>13, <3>1, <3>2, <3>3, <3>4, <3>5, <3>6 DEF FileStep
  <2> QED
    BY <1>5, <2>3, <2>4, <2>5, <2>6, <2>7, <2>8, <2>10, <2>11, <2>12, <2>13 DEF Next, WriterStep
<1> QED
  BY <1>3, <1>4, <1>5

-----------------------------------------------------------------------------
(* Where the rows are *)

(* The senders move and the rows stay where they are. *)
LEMMA RowsStay ==
    ASSUME TypeOK, Roles, SendersMove, RowsOnce, SentIsKept, UNCHANGED <<life, queue, InHand, csv, failed>>,
           \A s \in Actors : actor'[s].at \in {"exchange", "done"} /\ actor'[s].job # "flush" =>
                actor[s].at \in {"exchange", "done"} /\ actor'[s].job = actor[s].job
    PROVE  RowsOnce' /\ SentIsKept'
<1>1. InQueue' = InQueue /\ InHand' = InHand /\ InFile' = InFile /\ Kept' = Kept
  BY DEF InQueue, InFile, IsHeader, Kept
<1>2. \A r \in Kept : Past(r)'
  BY IssuedStep, KeptTypes DEF RowsOnce, Past
<1>3. RowsOnce'
  BY <1>1, <1>2 DEF RowsOnce
<1>4. SentIsKept'
  BY <1>1 DEF SentIsKept, Cmd
<1> QED
  BY <1>3, <1>4

(* A row gets past the entrance of the channel. *)
LEMMA RowEnters ==
    ASSUME TypeOK, Roles, SendersMove, RowsOnce, SentIsKept, UNCHANGED <<life, InHand, csv, failed>>,
           NEW s \in Actors, NEW job, actor'[s].job = job, job \in RowJobs \cup {"flush"},
           queue' = Append(queue, Row(life, s, job)), Row(life, s, job) \in RowSpace,
           ~Issued(Row(life, s, job)), actor'[s].at = Behind(job),
           \A u \in Actors \ {s} : actor'[u] = actor[u]
    PROVE  /\ RowsOnce' /\ SentIsKept' /\ Row(life, s, job) \notin Kept
           /\ InQueue' = InQueue \cup {Row(life, s, job)}
           /\ Kept' = Kept \cup {Row(life, s, job)}
<1>0. PICK row : row = Row(life, s, job) /\ row.life = life /\ row.who = s /\ row.job = job
  BY DEF Row
<1>1. /\ \A i \in DOMAIN queue : i \in DOMAIN queue' /\ queue'[i] = queue[i]
      /\ \A i \in DOMAIN queue' : i \in DOMAIN queue \/ (i = Len(queue) + 1 /\ queue'[i] = row)
      /\ Len(queue) + 1 \in DOMAIN queue' /\ queue'[Len(queue) + 1] = row
  BY <1>0, SenderTypes, AppendFacts
<1>2. row \notin Kept
  BY <1>0 DEF RowsOnce, Past
<1>3. InQueue' = InQueue \cup {row} /\ InFile' = InFile /\ Kept' = Kept \cup {row}
  BY <1>1 DEF InQueue, InFile, IsHeader, Kept
<1>4. Issued(row)'
  BY <1>0 DEF Issued, Behind
<1>5. \A r \in Kept : Past(r)'
  BY IssuedStep, KeptTypes DEF RowsOnce, Past
<1>6. \A r \in Kept' : Past(r)'
  <2>1. life \in Nat
    BY DEF TypeOK
  <2> QED
    BY <1>0, <1>3, <1>4, <1>5, <2>1 DEF Past
<1>7. ASSUME NEW i \in DOMAIN queue'
      PROVE  /\ queue'[i].life = life /\ queue'[i].job \in RowJobs \cup {"flush"}
             /\ queue'[i] \notin InHand \cup InFile \cup failed
             /\ \A j \in DOMAIN queue' : i # j => queue'[i] # queue'[j]
  <2>1. CASE i \in DOMAIN queue
    BY <1>1, <1>2, <2>1 DEF RowsOnce, Kept, InQueue
  <2>2. CASE i \notin DOMAIN queue
    BY <1>0, <1>1, <1>2, <2>2 DEF Kept, InQueue
  <2> QED
    BY <2>1, <2>2
<1>8. RowsOnce'
  BY <1>3, <1>6, <1>7 DEF RowsOnce
<1>9. SentIsKept'
  BY <1>0, <1>3 DEF SentIsKept, Cmd
<1> QED
  BY <1>0, <1>2, <1>3, <1>8, <1>9

(* What a sender is about to send has not been sent. *)
LEMMA FreshRow ==
    ASSUME TypeOK, Roles, NEW s \in Actors, NEW job,
           MaySend(s, job) \/ (actor[s].at \in {"waiting", "granted"} /\ job = actor[s].job)
    PROVE  ~Issued(Row(life, s, job)) /\ job \in RowJobs \cup {"flush"} /\ Row(life, s, job) \in RowSpace
<1>1. ~Issued(Row(life, s, job))
  BY DEF MaySend, Finished, Issued, Row, Roles
<1>2. job \in RowJobs \cup {"flush"}
  BY DEF MaySend, RowJobs, Roles
<1> QED
  BY <1>1, <1>2, HistoryAssumption DEF Row, RowSpace, Jobs, TypeOK

(* send(): the row gets in, or its sender waits. *)
LEMMA SendRows ==
    ASSUME TypeOK, Roles, WaitersWait, RowsOnce, SentIsKept, NEW s \in Actors, NEW job, MaySend(s, job), Send(s, job)
    PROVE  /\ RowsOnce' /\ SentIsKept' /\ actor'[s].job = job /\ \A u \in Actors \ {s} : actor'[u] = actor[u]
           /\ \/ queue' = queue /\ Kept' = Kept
              \/ queue' = Append(queue, Row(life, s, job)) /\ Row(life, s, job) \notin Kept
                 /\ Kept' = Kept \cup {Row(life, s, job)}
<1>0. ~Issued(Row(life, s, job)) /\ job \in RowJobs \cup {"flush"} /\ Row(life, s, job) \in RowSpace
  BY FreshRow
<1>1. /\ actor'[s].job = job /\ \A u \in Actors \ {s} : actor'[u] = actor[u]
      /\ \/ queue' = Append(queue, Row(life, s, job)) /\ actor'[s].at = Behind(job)
         \/ queue' = queue /\ actor'[s].at = "waiting"
      /\ UNCHANGED <<bound, life, writer, file, meta, disk, faults, failed, misread, metaLost>>
  BY <1>0, SendEffect DEF Jobs
<1>2. SendersMove /\ UNCHANGED <<life, InHand, csv, failed>>
  BY <1>1, SendMoves DEF disk, InHand
<1>3. CASE queue' = queue /\ actor'[s].at = "waiting"
  <2>1. Kept' = Kept
    BY <1>1, <1>3 DEF Kept, InQueue, InHand, InFile, IsHeader, disk
  <2> QED
    BY <1>1, <1>2, <1>3, <2>1, RowsStay
<1>4. CASE queue' = Append(queue, Row(life, s, job)) /\ actor'[s].at = Behind(job)
  BY <1>0, <1>1, <1>2, <1>4, RowEnters
<1> QED
  BY <1>1, <1>3, <1>4

(* A waiter's row gets in with its permit. *)
LEMMA PushRows ==
    ASSUME TypeOK, Roles, WaitersWait, RowsOnce, SentIsKept, NEW s \in Actors, Push(s)
    PROVE  /\ RowsOnce' /\ SentIsKept' /\ queue' = Append(queue, Cmd(s)) /\ Cmd(s) \notin Kept
           /\ Kept' = Kept \cup {Cmd(s)}
<1>0. PICK job : job = actor[s].job
  OBVIOUS
<1>1. /\ SendersMove /\ queue' = Append(queue, Row(life, s, job))
      /\ actor[s].at = "granted" /\ actor'[s].at = Behind(job) /\ actor'[s].job = job
      /\ \A u \in Actors \ {s} : actor'[u] = actor[u]
  BY <1>0, PushMoves DEF Cmd
<1>2. ~Issued(Row(life, s, job)) /\ job \in RowJobs \cup {"flush"} /\ Row(life, s, job) \in RowSpace
  BY <1>0, <1>1, FreshRow
<1>3. UNCHANGED <<life, InHand, csv, failed>>
  BY DEF Push, disk, InHand
<1>4. Cmd(s) = Row(life, s, job)
  BY <1>0 DEF Cmd
<1> QED
  BY <1>1, <1>2, <1>3, <1>4, RowEnters

(* The writer takes the first command: a row is now in its hand. *)
LEMMA RecvRows ==
    ASSUME TypeOK, Roles, WaitersWait, RowsOnce, SentIsKept, recv, SendersMove
    PROVE  /\ RowsOnce' /\ SentIsKept'
           /\ queue \in Seq(RowSpace) /\ queue # <<>> /\ queue' = Tail(queue) /\ 1 \in DOMAIN queue
           /\ writer'.cmd = queue[1] /\ Issued(writer.cmd)'
           /\ InHand = {} /\ InHand' = (IF queue[1].job = "flush" THEN {} ELSE {queue[1]})
           /\ InQueue = InQueue' \cup {queue[1]} /\ InFile' = InFile
<1>1. /\ queue # <<>> /\ queue' = Tail(queue) /\ queue \in Seq(RowSpace) /\ Head(queue) = queue[1]
      /\ 1 \in DOMAIN queue /\ queue[1] \in RowSpace
      /\ \A i \in DOMAIN queue' : i \in Nat /\ i > 0 /\ i + 1 \in DOMAIN queue /\ queue'[i] = queue[i + 1]
      /\ \A i \in DOMAIN queue : i = 1 \/ (i - 1 \in DOMAIN queue' /\ queue'[i - 1] = queue[i])
  BY SenderTypes, TailFacts DEF recv
<1>2. PICK cmd : cmd = queue[1]
  OBVIOUS
<1>3. /\ At("recv") /\ writer'.cmd = cmd /\ UNCHANGED <<life, csv, failed>>
      /\ writer'.at = IF cmd.job = "flush" THEN FlushStart ELSE IF file THEN "row" ELSE "open"
  BY <1>1, <1>2 DEF recv, disk
<1>4. InHand = {} /\ InHand' = (IF cmd.job = "flush" THEN {} ELSE {cmd}) /\ InFile' = InFile
  BY <1>3 DEF InHand, At, FlushStart, InFile, IsHeader
<1>5. InQueue = InQueue' \cup {cmd}
  <2>1. \A i \in DOMAIN queue : queue[i] \in InQueue' \cup {cmd}
    BY <1>1, <1>2 DEF InQueue
  <2>2. \A i \in DOMAIN queue' : queue'[i] \in InQueue
    BY <1>1 DEF InQueue
  <2> QED
    BY <1>1, <1>2, <2>1, <2>2 DEF InQueue
<1>6. Kept' \subseteq Kept /\ \A r \in Kept : r \in Kept' \/ (r = cmd /\ cmd.job = "flush")
  BY <1>3, <1>4, <1>5 DEF Kept
<1>7. \A r \in Kept : Past(r)'
  BY <1>3, IssuedStep, KeptTypes DEF RowsOnce, Past
<1>8. /\ cmd \in Kept /\ cmd \notin InFile \cup failed /\ cmd.life = life
  BY <1>1, <1>2, <1>5 DEF RowsOnce, Kept
<1>9. ASSUME NEW i \in DOMAIN queue'
      PROVE  /\ queue'[i].life = life /\ queue'[i].job \in RowJobs \cup {"flush"}
             /\ queue'[i] \notin {cmd} \cup InFile \cup failed
             /\ \A j \in DOMAIN queue' : i # j => queue'[i] # queue'[j]
  <2>1. i + 1 \in DOMAIN queue /\ i + 1 # 1 /\ queue'[i] = queue[i + 1]
    BY <1>1
  <2>2. \A j \in DOMAIN queue' : i # j => i + 1 # j + 1 /\ j + 1 \in DOMAIN queue /\ queue'[j] = queue[j + 1]
    BY <1>1
  <2> QED
    BY <1>1, <1>2, <2>1, <2>2 DEF RowsOnce
<1>10. RowsOnce'
  BY <1>3, <1>4, <1>6, <1>7, <1>8, <1>9 DEF RowsOnce
<1>11. SentIsKept'
  <2>1. ASSUME NEW s \in Actors, actor'[s].at \in {"exchange", "done"}, actor'[s].job # "flush"
        PROVE  Row(life, s, actor'[s].job) \in Kept'
    <3>1. actor'[s].at = actor[s].at /\ actor'[s].job = actor[s].job
      <4>1. actor' = actor \/ \E h \in Actors : actor'[h].at = "granted" /\ \A u \in Actors \ {h} : actor'[u] = actor[u]
        BY SenderTypes, ReleaseEffect DEF recv
      <4> QED
        BY <2>1, <4>1
    <3>2. Cmd(s) \in Kept /\ Cmd(s).job # "flush" /\ Cmd(s) = Row(life, s, actor'[s].job)
      BY <2>1, <3>1 DEF SentIsKept, Cmd, Row
    <3> QED
      BY <1>6, <3>2
  <2> QED
    BY <1>3, <2>1 DEF SentIsKept, Cmd
<1>12. Issued(writer.cmd)'
  <2>1. Issued(cmd)'
    BY <1>3, <1>7, <1>8 DEF Past
  <2> QED
    BY <1>3, <2>1 DEF Issued
<1> QED
  BY <1>1, <1>2, <1>3, <1>4, <1>5, <1>10, <1>11, <1>12

(* A row in hand is written or fails to be: it leaves the hand. *)
LEMMA WriteRows ==
    ASSUME TypeOK, Roles, RowsOnce, SentIsKept, UNCHANGED <<life, senders>>,
           writer.at \in {"open", "header", "row"}, writer' = [writer EXCEPT !.at = "observe"],
           InFile' \cup failed' = InFile \cup failed \cup {writer.cmd}
    PROVE  RowsOnce' /\ SentIsKept' /\ Kept' = Kept
<1>1. InHand = {writer.cmd} /\ InHand' = {} /\ InQueue' = InQueue
  BY DEF InHand, InQueue, senders, TypeOK
<1>2. Kept' = Kept
  BY <1>1 DEF Kept
<1>3. \A r \in Kept : Past(r)'
  BY DEF RowsOnce, Past, Issued, senders
<1>4. RowsOnce'
  <2>1. writer.cmd \notin InQueue
    BY <1>1 DEF RowsOnce, InQueue
  <2> QED
    BY <1>1, <1>2, <1>3, <2>1 DEF RowsOnce, senders, InQueue
<1>5. SentIsKept'
  BY <1>2 DEF SentIsKept, Cmd, senders
<1> QED
  BY <1>2, <1>4, <1>5

(* The CSV file with one entry more *)
LEMMA FileGrows ==
    ASSUME TypeOK, NEW e \in RowSpace, csv' = Append(csv, e)
    PROVE  InFile' = IF IsHeader(e) THEN InFile ELSE InFile \cup {e}
<1>1. csv \in Seq(RowSpace)
  BY DEF TypeOK
<1>2. /\ \A i \in DOMAIN csv : i \in DOMAIN csv' /\ csv'[i] = csv[i]
      /\ \A i \in DOMAIN csv' : i \in DOMAIN csv \/ csv'[i] = e
      /\ Len(csv) + 1 \in DOMAIN csv' /\ csv'[Len(csv) + 1] = e
  BY <1>1, AppendFacts
<1> QED
  BY <1>2 DEF InFile, IsHeader

(* What a step of the writer on its files does: the row in hand stays there,
   or is in the file or failed, to be observed next. *)
LEMMA FileEffect ==
    ASSUME TypeOK, WriterTook, NEW ok \in BOOLEAN, FileStep(ok)
    PROVE  /\ UNCHANGED <<bound, life, senders>> /\ writer'.cmd = writer.cmd
           /\ \/ /\ writer.at \in {"open", "header", "row"} /\ writer' = [writer EXCEPT !.at = "observe"]
                 /\ InFile' \cup failed' = InFile \cup failed \cup {writer.cmd}
                 /\ UNCHANGED <<meta, tmp, side, metaLost>>
              \/ /\ At("open") /\ writer'.at \in {"header", "row"} /\ UNCHANGED <<disk, failed, meta, metaLost>>
              \/ /\ At("header") /\ writer'.at = "row" /\ csv' = Append(csv, Header)
                 /\ InFile' = InFile /\ UNCHANGED <<tmp, side, failed, meta, metaLost>>
              \/ /\ writer.at \in {"truncate", "body", "rename"} /\ writer'.at \in {"body", "rename", "recv", "ack"}
                 /\ (writer'.at = "ack" => writer.cmd.job = "flush")
                 /\ UNCHANGED <<csv, failed, meta>>
<1>0. /\ Header \in RowSpace /\ writer.cmd \in RowSpace /\ IsHeader(Header)
      /\ \A where : [writer EXCEPT !.at = where].cmd = writer.cmd /\ [writer EXCEPT !.at = where].at = where
  BY HistoryAssumption DEF Header, IsHeader, Row, RowSpace, Jobs, Actors, TypeOK
<1>1. CASE \E stat \in BOOLEAN : open_session_file(ok, stat)
  <2>1. csv' = csv => InFile' = InFile
    BY DEF InFile, IsHeader
  <2> QED
    BY <1>0, <1>1, <2>1 DEF open_session_file, WriteFails, GoTo, At, Rest, disk
<1>2. CASE write_header(ok)
  <2>1. CASE ok
    BY <1>0, <1>2, <2>1, FileGrows DEF write_header, GoTo, At, Rest
  <2>2. CASE ~ok
    <3>1. csv' = csv /\ InFile' = InFile
      BY <1>2, <2>2 DEF InFile, IsHeader, write_header
    <3> QED
      BY <1>0, <1>2, <2>2, <3>1 DEF write_header, WriteFails, GoTo, At, Rest
  <2> QED
    BY <2>1, <2>2
<1>3. CASE write_row(ok)
  <2>1. CASE ok
    <3>0. ~IsHeader(writer.cmd)
      BY <1>3 DEF write_row, At, WriterTook, RowJobs, IsHeader
    <3>1. InFile' = InFile \cup {writer.cmd} /\ failed' = failed
      BY <1>0, <1>3, <2>1, <3>0, FileGrows DEF write_row
    <3> QED
      BY <1>0, <1>3, <2>1, <3>1 DEF write_row, GoTo, At, Rest
  <2>2. CASE ~ok
    <3>1. csv' = csv /\ InFile' = InFile
      BY <1>3, <2>2 DEF InFile, IsHeader, write_row
    <3> QED
      BY <1>0, <1>3, <2>2, <3>1 DEF write_row, WriteFails, GoTo, At, Rest
  <2> QED
    BY <2>1, <2>2
<1>4. CASE open_tmp(ok) \/ write_body(ok) \/ rename(ok)
  BY <1>0, <1>4 DEF open_tmp, write_body, rename, MetaWritten, GoTo, At, Rest
<1> QED
  BY <1>1, <1>2, <1>3, <1>4 DEF FileStep

(* Every step keeps the rows apart, and none that was sent is lost. *)
LEMMA RowsStep ==
    ASSUME TypeOK, Roles, WaitersWait, RowsOnce, SentIsKept, WriterTook, [Next]_vars
    PROVE  RowsOnce' /\ SentIsKept'
<1>0. Main \in Actors /\ Tasks \subseteq Actors /\ actor \in [Actors -> ActorSpace]
  BY SenderTypes
<1>1. CASE record_session_started \/ record_session_ended \/ flush
  <2>1. \E job : MaySend(Main, job) /\ Send(Main, job)
    BY <1>1 DEF record_session_started, record_session_ended, flush, MaySend, Finished
  <2> QED
    BY <1>0, <2>1, SendRows
<1>2. ASSUME NEW t \in Tasks, NEW job \in {"review", "record"}, Tap(t, job) PROVE RowsOnce' /\ SentIsKept'
  <2>1. MaySend(t, job) /\ Send(t, job)
    BY <1>2 DEF Tap, MaySend
  <2> QED
    BY <1>0, <2>1, SendRows
<1>3. ASSUME Next, ~Crash, UNCHANGED <<queue, InHand, csv, failed>>,
             \A s \in Actors : actor'[s].at \in {"exchange", "done"} /\ actor'[s].job # "flush" =>
                actor[s].at \in {"exchange", "done"} /\ actor'[s].job = actor[s].job
      PROVE  RowsOnce' /\ SentIsKept'
  BY <1>3, SendersStep, RowsStay
<1>4. ASSUME NEW t \in Tasks, DropTask(t), ~Crash, Next PROVE RowsOnce' /\ SentIsKept'
  <2>1. UNCHANGED <<queue, InHand, csv, failed, life>>
    BY <1>4 DEF DropTask, InHand, disk
  <2>2. ASSUME NEW s \in Actors, actor'[s].at \in {"exchange", "done"}
        PROVE  actor[s].at \in {"exchange", "done"} /\ actor'[s].job = actor[s].job
    <3> DEFINE act == [actor EXCEPT ![t].at = "dropped"]
    <3>1. act \in [Actors -> ActorSpace] /\ act[t].at = "dropped" /\ \A u \in Actors \ {t} : act[u] = actor[u]
      BY <1>0 DEF ActorSpace, Places
    <3>2. actor' = act \/ Release(act)
      BY <1>4 DEF DropTask
    <3> HIDE DEF act
    <3>3. actor' = act \/ \E h \in Actors : actor'[h].at = "granted" /\ \A u \in Actors \ {h} : actor'[u] = act[u]
      BY <3>1, <3>2, ReleaseEffect
    <3> QED
      BY <1>0, <2>2, <3>1, <3>3
  <2> QED
    BY <1>3, <1>4, <2>1, <2>2
<1>5. ASSUME NEW s \in Actors, Push(s) PROVE RowsOnce' /\ SentIsKept'
  BY <1>5, PushRows
<1>6. ASSUME NEW s \in Actors, NEW a \in Replies, request(s, a), ~Crash, Next PROVE RowsOnce' /\ SentIsKept'
  <2>1. UNCHANGED <<queue, InHand, csv, failed>>
    BY <1>6 DEF request, InHand, disk
  <2>2. \A u \in Actors : actor'[u] = actor[u] \/ (u = s /\ actor'[u].job = actor[u].job /\ actor[u].at = "exchange")
    BY <1>0, <1>6 DEF request, ActorSpace
  <2> QED
    BY <1>3, <1>6, <2>1, <2>2
<1>7. ASSUME recv, ~Crash, Next PROVE RowsOnce' /\ SentIsKept'
  BY <1>7, SendersStep, RecvRows
<1>8. ASSUME observe, ~Crash, Next PROVE RowsOnce' /\ SentIsKept'
  <2>1. UNCHANGED <<queue, actor, InHand, csv, failed>>
    BY <1>8 DEF observe, At, GoTo, Rest, senders, InHand, disk, TypeOK
  <2> QED
    BY <1>3, <1>8, <2>1
<1>9. ASSUME ack, ~Crash, Next PROVE RowsOnce' /\ SentIsKept'
  <2>1. UNCHANGED <<queue, InHand, csv, failed>>
    BY <1>9 DEF ack, At, GoTo, InHand, disk, TypeOK
  <2>2. writer.cmd.job = "flush" /\ Issued(writer.cmd) /\ writer.cmd.who \in Actors
    BY <1>9 DEF ack, At, WriterTook, TypeOK, RowSpace
  <2>3. actor[Main].job = "flush"
    BY <2>2 DEF Issued, Roles
  <2>4. \A u \in Actors : actor'[u] = actor[u] \/ (u = Main /\ actor'[u].job = actor[u].job)
    BY <1>0, <1>9 DEF ack, ActorSpace
  <2> QED
    BY <1>3, <1>9, <2>1, <2>3, <2>4
<1>10. ASSUME NEW ok \in BOOLEAN, FileStep(ok), ~Crash, Next PROVE RowsOnce' /\ SentIsKept'
  <2>0. UNCHANGED <<life, senders>> /\ actor' = actor /\ queue' = queue /\ writer'.cmd = writer.cmd
    BY <1>10, FileEffect DEF senders
  <2>1. CASE /\ writer.at \in {"open", "header", "row"} /\ writer' = [writer EXCEPT !.at = "observe"]
             /\ InFile' \cup failed' = InFile \cup failed \cup {writer.cmd}
    BY <2>0, <2>1, WriteRows
  <2>2. CASE At("open") /\ writer'.at \in {"header", "row"} /\ UNCHANGED <<csv, failed>>
    <3>1. InHand' = InHand
      BY <2>0, <2>2 DEF InHand, At
    <3> QED
      BY <1>3, <1>10, <2>0, <2>2, <3>1
  <2>3. CASE At("header") /\ writer'.at = "row" /\ InFile' = InFile /\ failed' = failed
    <3>1. InHand' = InHand /\ InQueue' = InQueue
      BY <2>0, <2>3 DEF InHand, At, InQueue
    <3>2. Kept' = Kept
      BY <2>3, <3>1 DEF Kept
    <3>3. \A r \in Kept : Past(r)'
      BY <2>0 DEF RowsOnce, Past, Issued
    <3>4. RowsOnce'
      BY <2>0, <2>3, <3>1, <3>2, <3>3 DEF RowsOnce
    <3>5. SentIsKept'
      BY <2>0, <3>2 DEF SentIsKept, Cmd
    <3> QED
      BY <3>4, <3>5
  <2>4. CASE /\ writer.at \in {"truncate", "body", "rename"} /\ writer'.at \in {"body", "rename", "recv", "ack"}
             /\ UNCHANGED <<csv, failed>>
    <3>1. InHand' = InHand
      BY <2>0, <2>4 DEF InHand
    <3> QED
      BY <1>3, <1>10, <2>0, <2>4, <3>1
  <2> QED
    BY <1>10, <2>1, <2>2, <2>3, <2>4, FileEffect DEF disk
<1>11. CASE Crash
  <2>1. queue' = <<>> /\ InQueue' = {} /\ InHand' = {} /\ InFile' = InFile /\ failed' = failed /\ life' = life + 1
    BY <1>11 DEF Crash, InQueue, InHand, InFile, IsHeader, disk
  <2>2. \A r \in InFile \cup failed : r.life \in Nat /\ r.life <= life
    BY KeptTypes DEF RowsOnce, Kept, Past
  <2>3. life \in Nat
    BY DEF TypeOK
  <2>4. \A r \in Kept' : Past(r)'
    BY <2>1, <2>2, <2>3 DEF Kept, Past
  <2>5. \A s \in Actors : actor'[s].at = "idle"
    BY <1>11 DEF Crash, Idle
  <2> QED
    BY <2>1, <2>4, <2>5 DEF RowsOnce, SentIsKept
<1>12. CASE UNCHANGED vars
  <2>1. UNCHANGED <<queue, life, actor, failed, InQueue, InHand, InFile>>
    BY <1>12 DEF vars, senders, disk, InQueue, InHand, InFile, IsHeader
  <2>2. Kept' = Kept /\ \A r : Past(r)' = Past(r)
    BY <2>1 DEF Kept, Past, Issued
  <2>3. \A s \in Actors : Cmd(s)' = Cmd(s)
    BY <2>1 DEF Cmd
  <2> QED
    BY <2>1, <2>2, <2>3 DEF RowsOnce, SentIsKept
<1> QED
  BY <1>1, <1>2, <1>4, <1>5, <1>6, <1>7, <1>8, <1>9, <1>10, <1>11, <1>12 DEF Next, WriterStep

(* A step of a sender leaves the writer and the files alone. *)
LEMMA SenderLeavesFiles ==
    ASSUME Next, ~Crash, ~WriterStep
    PROVE  UNCHANGED <<bound, life, writer, file, meta, disk, faults, failed, misread, metaLost>>
BY DEF Next, record_session_started, record_session_ended, flush, Tap, Send, DropTask, Push, request

(* Every step keeps what the writer has in hand a row or a flush of this life. *)
LEMMA WriterTookStep ==
    ASSUME TypeOK, Roles, WaitersWait, RowsOnce, SentIsKept, WriterTook, [Next]_vars
    PROVE  WriterTook'
<1>0. writer.cmd \in RowSpace
  BY DEF TypeOK
<1>1. CASE Crash
  BY <1>1 DEF Crash, WriterTook, At
<1>2. CASE UNCHANGED vars
  BY <1>2 DEF vars, senders, disk, WriterTook, At, Issued, InFile, IsHeader
<1>3. ASSUME Next, ~Crash PROVE WriterTook'
  <2>0. SendersMove /\ life' = life
    BY <1>3, SendersStep
  <2>1. Issued(writer.cmd) /\ writer'.cmd = writer.cmd => Issued(writer.cmd)'
    <3>1. PICK cmd \in RowSpace : cmd = writer.cmd
      BY <1>0
    <3>2. Issued(cmd) => Issued(cmd)'
      BY <2>0, IssuedStep
    <3> QED
      BY <3>1, <3>2 DEF Issued
  <2>2. CASE ~WriterStep
    <3>1. UNCHANGED <<writer, csv, failed>>
      BY <1>3, <2>2, SenderLeavesFiles DEF disk
    <3> QED
      BY <2>0, <2>1, <3>1 DEF WriterTook, At, InFile, IsHeader
  <2>3. CASE recv
    <3>1. /\ writer'.cmd = queue[1] /\ Issued(writer.cmd)' /\ 1 \in DOMAIN queue /\ Head(queue) = queue[1]
      BY <2>0, <2>3, RecvRows
    <3>2. queue[1].life = life /\ queue[1].job \in RowJobs \cup {"flush"}
      BY <3>1 DEF RowsOnce
    <3>3. writer'.at \in IF queue[1].job = "flush" THEN {"ack", "truncate"} ELSE {"row", "open"}
      BY <2>3, <3>1 DEF recv, FlushStart
    <3> QED
      BY <2>0, <3>1, <3>2, <3>3 DEF WriterTook, At
  <2>4. CASE observe
    BY <2>0, <2>1, <2>4 DEF observe, GoTo, At, WriterTook, TypeOK
  <2>5. CASE ack
    BY <2>5 DEF ack, GoTo, At, WriterTook, TypeOK
  <2>6. ASSUME NEW ok \in BOOLEAN, FileStep(ok) PROVE WriterTook'
    <3>1. /\ writer'.cmd = writer.cmd
          /\ \/ /\ writer.at \in {"open", "header", "row"} /\ writer'.at = "observe"
                /\ InFile' \cup failed' = InFile \cup failed \cup {writer.cmd}
             \/ writer.at \in {"open", "header"} /\ writer'.at \in {"header", "row"}
             \/ /\ writer.at \in {"truncate", "body", "rename"} /\ writer'.at \in {"body", "rename", "recv", "ack"}
                /\ (writer'.at = "ack" => writer.cmd.job = "flush")
      BY <2>6, FileEffect DEF At, TypeOK
    <3> QED
      BY <2>0, <2>1, <3>1 DEF WriterTook, At
  <2> QED
    BY <2>2, <2>3, <2>4, <2>5, <2>6 DEF WriterStep
<1> QED
  BY <1>1, <1>2, <1>3

-----------------------------------------------------------------------------
(* The CSV file *)

(* The file stays well formed when an entry is added that belongs at its end. *)
LEMMA CsvAppend ==
    ASSUME TypeOK, CsvWellFormed, NEW e \in RowSpace, csv' = Append(csv, e), misread' = misread,
           csv = <<>> => IsHeader(e),
           \A i \in DOMAIN csv : csv[i] # e /\ csv[i].life <= e.life,
           IsHeader(e) /\ csv # <<>> => e.life \in misread,
           IsHeader(e) => \A i \in DOMAIN csv : csv[i].life < e.life
    PROVE  CsvWellFormed' /\ csv' # <<>>
<1>0. csv \in Seq(RowSpace) /\ Len(csv) \in Nat /\ DOMAIN csv = 1 .. Len(csv)
  BY LenProperties DEF TypeOK
<1>1. /\ \A i \in DOMAIN csv : i \in DOMAIN csv' /\ csv'[i] = csv[i] /\ i \in Nat /\ i < Len(csv) + 1
      /\ \A i \in DOMAIN csv' : i \in DOMAIN csv \/ i = Len(csv) + 1
      /\ csv'[Len(csv) + 1] = e
  BY <1>0, AppendFacts
<1>2. csv' # <<>>
  BY <1>0
<1>3. IsHeader(csv'[1])
  <2>1. CASE csv = <<>>
    BY <1>1, <2>1
  <2>2. CASE csv # <<>>
    <3>1. 1 \in DOMAIN csv
      BY <1>0, <2>2, EmptySeq
    <3> QED
      BY <1>1, <2>2, <3>1 DEF CsvWellFormed
  <2> QED
    BY <2>1, <2>2
<1>4. ASSUME NEW i \in DOMAIN csv', NEW j \in DOMAIN csv', i < j
      PROVE  /\ csv'[i] # csv'[j] /\ csv'[i].life <= csv'[j].life
             /\ IsHeader(csv'[j]) => csv'[j].life \in misread' /\ csv'[i].life < csv'[j].life
  <2>1. i \in DOMAIN csv
    BY <1>0, <1>1, <1>4
  <2>2. CASE j \in DOMAIN csv
    BY <1>1, <1>4, <2>1, <2>2 DEF CsvWellFormed
  <2>3. CASE j = Len(csv) + 1
    <3>1. csv # <<>>
      BY <2>1
    <3> QED
      BY <1>1, <2>1, <2>3, <3>1
  <2> QED
    BY <1>1, <2>2, <2>3
<1> QED
  BY <1>2, <1>3, <1>4 DEF CsvWellFormed, IsHeader

(* Every step of the writer puts a header first, each row behind the rows of
   earlier lives, and a further header only behind a failed stat. *)
LEMMA CsvStep ==
    ASSUME TypeOK, RowsOnce, WriterTook, HeaderFirst, CsvWellFormed, [Next]_vars
    PROVE  HeaderFirst' /\ CsvWellFormed'
<1>0. /\ csv \in Seq(RowSpace) /\ writer.cmd \in RowSpace /\ Header \in RowSpace
      /\ life \in Nat /\ Header.life = life /\ IsHeader(Header)
      /\ \A i \in DOMAIN csv : csv[i] \in RowSpace /\ csv[i].life \in Nat
  <2>1. csv \in Seq(RowSpace) /\ writer.cmd \in RowSpace /\ life \in 1 .. MaxLives /\ MaxLives \in Nat
    BY HistoryAssumption DEF TypeOK
  <2>2. Header \in RowSpace /\ Header.life = life /\ IsHeader(Header)
    BY <2>1 DEF Header, IsHeader, Row, RowSpace, Jobs, Actors
  <2>3. \A r \in RowSpace : r.life \in Nat
    BY <2>1 DEF RowSpace
  <2>4. \A i \in DOMAIN csv : csv[i] \in RowSpace
    BY <2>1, ElementOfSeq
  <2> QED
    BY <2>1, <2>2, <2>3, <2>4
<1>1. ASSUME UNCHANGED <<life, csv, file, misread>>,
             writer'.at \notin {"open", "header", "row"} \/ writer' = writer
      PROVE  HeaderFirst' /\ CsvWellFormed'
  BY <1>1 DEF HeaderFirst, CsvWellFormed, IsHeader, At
<1>2. CASE Crash
  <2>1. /\ life' = life + 1 /\ UNCHANGED <<csv, misread>> /\ ~file' /\ writer'.at = "recv"
    BY <1>2 DEF Crash, disk
  <2>2. \A i \in DOMAIN csv : csv[i].life <= life + 1 /\ csv[i].life < life + 1
    BY <1>0 DEF HeaderFirst
  <2> QED
    BY <2>1, <2>2 DEF HeaderFirst, CsvWellFormed, IsHeader, At
<1>3. CASE UNCHANGED vars
  BY <1>1, <1>3 DEF vars, disk
<1>4. ASSUME Next, ~Crash, ~WriterStep PROVE HeaderFirst' /\ CsvWellFormed'
  BY <1>1, <1>4, SenderLeavesFiles DEF disk
<1>5. CASE recv
  BY <1>5 DEF recv, FlushStart, HeaderFirst, CsvWellFormed, IsHeader, At, disk
<1>6. CASE observe \/ ack
  BY <1>1, <1>6 DEF observe, ack, GoTo, Rest, disk, TypeOK
<1>7. ASSUME NEW ok \in BOOLEAN, NEW stat \in BOOLEAN, open_session_file(ok, stat)
      PROVE  HeaderFirst' /\ CsvWellFormed'
  <2>1. UNCHANGED <<life, csv>> /\ ~file /\ misread \subseteq misread'
    BY <1>7 DEF open_session_file, Rest, disk, HeaderFirst, At
  <2>2. CsvWellFormed'
    BY <2>1 DEF CsvWellFormed, IsHeader
  <2>3. CASE ~ok
    BY <1>7, <2>1, <2>2, <2>3 DEF open_session_file, WriteFails, GoTo, At, HeaderFirst, TypeOK
  <2>4. CASE ok /\ needs_header(stat)
    <3>1. writer'.at = "header" /\ ~file' /\ (csv = <<>> \/ life \in misread')
      BY <1>7, <2>4 DEF open_session_file, needs_header, GoTo, TypeOK
    <3> QED
      BY <2>1, <2>2, <3>1 DEF HeaderFirst, At
  <2>5. CASE ok /\ ~needs_header(stat)
    <3>1. writer'.at = "row" /\ file' /\ csv # <<>>
      BY <1>7, <2>5 DEF open_session_file, needs_header, GoTo, TypeOK
    <3> QED
      BY <2>1, <2>2, <3>1 DEF HeaderFirst, At
  <2> QED
    BY <2>3, <2>4, <2>5
<1>8. ASSUME NEW ok \in BOOLEAN, write_header(ok) PROVE HeaderFirst' /\ CsvWellFormed'
  <2>1. CASE ok
    <3>1. /\ csv' = Append(csv, Header) /\ UNCHANGED <<life, misread>> /\ file' = TRUE /\ writer'.at = "row"
          /\ ~file /\ (csv = <<>> \/ life \in misread)
      BY <1>8, <2>1 DEF write_header, HeaderFirst, GoTo, Rest, At, TypeOK
    <3>2. \A i \in DOMAIN csv : csv[i].life < life /\ csv[i].life <= life /\ csv[i] # Header
      BY <1>0, <3>1 DEF HeaderFirst
    <3>3. CsvWellFormed' /\ csv' # <<>>
      BY <1>0, <3>1, <3>2, CsvAppend
    <3>4. \A i \in DOMAIN csv' : csv'[i].life <= life
      BY <1>0, <3>1, <3>2, AppendFacts
    <3> QED
      BY <3>1, <3>3, <3>4 DEF HeaderFirst, At
  <2>2. CASE ~ok
    BY <1>1, <1>8, <2>2 DEF write_header, WriteFails, GoTo, Rest, TypeOK
  <2> QED
    BY <2>1, <2>2
<1>9. ASSUME NEW ok \in BOOLEAN, write_row(ok) PROVE HeaderFirst' /\ CsvWellFormed'
  <2>1. CASE ok
    <3>1. /\ csv' = Append(csv, writer.cmd) /\ UNCHANGED <<life, file, misread>> /\ file
          /\ writer'.at = "observe" /\ csv # <<>>
      BY <1>9, <2>1 DEF write_row, HeaderFirst, GoTo, Rest, At, TypeOK
    <3>2. writer.cmd.life = life /\ ~IsHeader(writer.cmd)
      BY <1>9 DEF write_row, At, WriterTook, RowJobs, IsHeader
    <3>3. writer.cmd \notin InFile
      BY <1>9 DEF RowsOnce, InHand, write_row, At
    <3>4. \A i \in DOMAIN csv : csv[i] # writer.cmd /\ csv[i].life <= life
      BY <3>2, <3>3 DEF InFile, HeaderFirst
    <3>5. CsvWellFormed' /\ csv' # <<>>
      BY <1>0, <3>1, <3>2, <3>4, CsvAppend
    <3>6. \A i \in DOMAIN csv' : csv'[i].life <= life
      BY <1>0, <3>1, <3>2, <3>4, AppendFacts
    <3> QED
      BY <3>1, <3>5, <3>6 DEF HeaderFirst, At
  <2>2. CASE ~ok
    BY <1>1, <1>9, <2>2 DEF write_row, WriteFails, GoTo, Rest, TypeOK
  <2> QED
    BY <2>1, <2>2
<1>10. ASSUME NEW ok \in BOOLEAN, open_tmp(ok) \/ write_body(ok) \/ rename(ok) PROVE HeaderFirst' /\ CsvWellFormed'
  <2>1. UNCHANGED <<life, csv, file, misread>> /\ writer'.at \notin {"open", "header", "row"}
    BY <1>10 DEF open_tmp, write_body, rename, MetaWritten, GoTo, Rest, TypeOK
  <2> QED
    BY <1>1, <2>1
<1> QED
  BY <1>2, <1>3, <1>4, <1>5, <1>6, <1>7, <1>8, <1>9, <1>10 DEF WriterStep, FileStep

-----------------------------------------------------------------------------
(* The metadata *)

(* The sidecar stays truthful while rows are added. *)
LEMMA SidecarStays ==
    ASSUME TypeOK, MetaCounts, SidecarTruthful, side' = side,
           InFile \cup failed \subseteq InFile' \cup failed',
           \A n \in 0 .. MaxLives : IsFiniteSet(RowsOf(n)')
    PROVE  SidecarTruthful'
<1> SUFFICES ASSUME side # NoMeta
             PROVE  /\ side.whole /\ side.rows <= Cardinality(RowsOf(side.life)')
                    /\ side.ended => \E r \in RowsOf(side.life)' : r.job = "ended"
                    /\ side.identity => \E r \in RowsOf(side.life)' : r.job \in {"review", "record"}
  BY DEF SidecarTruthful, RowsOf
<1>1. PICK n \in 0 .. MaxLives : n = side.life
  BY DEF TypeOK, MetaSpace
<1>2. RowsOf(n) \subseteq RowsOf(n)'
  BY DEF RowsOf
<1>3. /\ side.whole /\ side.rows <= Cardinality(RowsOf(n))
      /\ side.ended => \E r \in RowsOf(n) : r.job = "ended"
      /\ side.identity => \E r \in RowsOf(n) : r.job \in {"review", "record"}
  BY <1>1 DEF SidecarTruthful, RowsOf
<1>4. IsFiniteSet(RowsOf(n)') /\ IsFiniteSet(RowsOf(n))
  BY DEF MetaCounts
<1>5. Cardinality(RowsOf(n)) <= Cardinality(RowsOf(n)') /\ Cardinality(RowsOf(n)) \in Nat /\ Cardinality(RowsOf(n)') \in Nat
  BY <1>2, <1>4, FS_Subset, FS_CardinalityType
<1>6. side.rows \in Nat
  BY DEF TypeOK, MetaSpace
<1>7. RowsOf(side.life)' = RowsOf(n)'
  BY <1>1 DEF RowsOf
<1> QED
  BY <1>2, <1>3, <1>5, <1>6, <1>7

(* The counts stay while no row is written or observed. *)
LEMMA CountsStay ==
    ASSUME MetaCounts, UNCHANGED <<life, InFile, failed, meta>>,
           (~At("observe") /\ ~At("observe")') \/ writer' = writer,
           writer'.at \in {"truncate", "body", "rename"} => writer.at \in {"truncate", "body", "rename"} \/ meta # NoMeta,
           writer'.at = "rename" => tmp' = meta
    PROVE  MetaCounts' /\ \A n \in 0 .. MaxLives : RowsOf(n)' = RowsOf(n)
<1>1. \A n \in 0 .. MaxLives : RowsOf(n)' = RowsOf(n)
  BY DEF RowsOf
<1>2. RowsOf(life)' = RowsOf(life) /\ Observed' = Observed
  BY DEF RowsOf, Observed, At
<1> QED
  BY <1>1, <1>2 DEF MetaCounts, At

(* A row in hand is written or fails: it is the one not observed yet. *)
LEMMA CountsWrite ==
    ASSUME TypeOK, RowsOnce, WriterTook, MetaCounts, SidecarTruthful, UNCHANGED <<life, meta, tmp, side>>,
           writer.at \in {"open", "header", "row"}, writer' = [writer EXCEPT !.at = "observe"],
           InFile' \cup failed' = InFile \cup failed \cup {writer.cmd}
    PROVE  MetaCounts' /\ SidecarTruthful'
<1>1. writer'.at = "observe" /\ writer'.cmd = writer.cmd /\ writer.cmd.life = life
  BY DEF TypeOK, WriterTook, At
<1>2. PICK cmd : cmd = writer.cmd
  OBVIOUS
<1>3. cmd \notin InFile \cup failed
  BY <1>2 DEF RowsOnce, InHand
<1>4. \A n : RowsOf(n)' \subseteq RowsOf(n) \cup {cmd}
  BY <1>2 DEF RowsOf
<1>5. \A n \in 0 .. MaxLives : IsFiniteSet(RowsOf(n)')
  <2>1. \A n \in 0 .. MaxLives : IsFiniteSet(RowsOf(n) \cup {cmd})
    BY FS_AddElement DEF MetaCounts
  <2> QED
    BY <1>4, <2>1, FS_Subset, ZenonT(60)
<1>6. Observed' = Observed
  <2>1. RowsOf(life)' = RowsOf(life) \cup {cmd} /\ cmd \notin RowsOf(life)
    BY <1>1, <1>2, <1>3 DEF RowsOf
  <2>2. Observed = RowsOf(life) /\ Observed' = RowsOf(life)' \ {cmd}
    BY <1>1, <1>2 DEF Observed, At
  <2> QED
    BY <2>1, <2>2
<1>7. MetaCounts'
  BY <1>1, <1>5, <1>6 DEF MetaCounts, At
<1> QED
  BY <1>5, <1>7, SidecarStays

(* SessionMeta::observe counts the row that was just handled. *)
LEMMA CountsObserve ==
    ASSUME TypeOK, RowsOnce, WriterTook, MetaCounts, SidecarTruthful, observe
    PROVE  MetaCounts' /\ SidecarTruthful'
<1>0. PICK cmd : cmd = writer.cmd
  OBVIOUS
<1>1. /\ At("observe") /\ writer'.at \in {"truncate", "recv"} /\ UNCHANGED <<life, csv, failed, tmp, side>>
      /\ cmd \in InFile \cup failed /\ cmd.life = life /\ life \in 1 .. MaxLives
  BY <1>0 DEF observe, GoTo, At, Rest, disk, TypeOK, WriterTook
<1>2. /\ meta'.life = life /\ meta'.rows = meta.rows + 1 /\ meta'.whole
      /\ meta'.identity <=> (meta.identity \/ cmd.job \in {"review", "record"})
      /\ meta'.ended <=> (meta.ended \/ cmd.job = "ended")
  BY <1>0 DEF observe
<1>3. \A n : RowsOf(n)' = RowsOf(n)
  BY <1>1 DEF RowsOf, InFile, IsHeader
<1>4. Observed = RowsOf(life) \ {cmd} /\ Observed' = RowsOf(life) /\ cmd \in RowsOf(life)
  <2>1. RowsOf(life)' = RowsOf(life) /\ Observed' = RowsOf(life)'
    BY <1>1 DEF RowsOf, InFile, IsHeader, Observed, At
  <2> QED
    BY <1>0, <1>1, <2>1 DEF Observed, RowsOf
<1>5. IsFiniteSet(RowsOf(life)) /\ Cardinality(RowsOf(life)) \in Nat
  BY <1>1, FS_CardinalityType DEF MetaCounts
<1>6. Cardinality(Observed') = Cardinality(Observed) + 1
  <2>1. Cardinality(RowsOf(life) \ {cmd}) = Cardinality(RowsOf(life)) - 1
    BY <1>4, <1>5, FS_RemoveElement
  <2> QED
    BY <1>4, <1>5, <2>1
<1>7. MetaCounts'
  <2>1. meta'.rows = Cardinality(Observed')
    BY <1>2, <1>6 DEF MetaCounts
  <2>2. meta'.ended <=> \E r \in Observed' : r.job = "ended"
    BY <1>2, <1>4 DEF MetaCounts
  <2>3. meta'.identity <=> \E r \in Observed' : r.job \in {"review", "record"}
    BY <1>2, <1>4 DEF MetaCounts
  <2>4. \A n \in 0 .. MaxLives : IsFiniteSet(RowsOf(n)')
    BY <1>3 DEF MetaCounts
  <2> QED
    BY <1>1, <1>2, <1>4, <2>1, <2>2, <2>3, <2>4 DEF MetaCounts, At
<1>8. InFile' = InFile
  BY <1>1 DEF InFile, IsHeader
<1> QED
  BY <1>1, <1>7, <1>8, SidecarStays DEF MetaCounts

(* Every step keeps the counts right and the sidecar truthful. *)
LEMMA MetaStep ==
    ASSUME TypeOK, RowsOnce, WriterTook, MetaCounts, SidecarTruthful, [Next]_vars
    PROVE  MetaCounts' /\ SidecarTruthful'
<1>0. /\ MaxLives \in Nat /\ life \in 1 .. MaxLives
      /\ writer.at \in {"recv", "open", "header", "row", "observe", "truncate", "body", "rename", "ack"}
  BY HistoryAssumption DEF TypeOK
<1>1. ASSUME UNCHANGED <<life, csv, failed, meta, side>>,
             (~At("observe") /\ ~At("observe")') \/ writer' = writer,
             writer'.at \in {"truncate", "body", "rename"} => writer.at \in {"truncate", "body", "rename"} \/ meta # NoMeta,
             writer'.at = "rename" => tmp' = meta
      PROVE  MetaCounts' /\ SidecarTruthful'
  <2>1. InFile' = InFile
    BY <1>1 DEF InFile, IsHeader
  <2>2. MetaCounts' /\ \A n \in 0 .. MaxLives : RowsOf(n)' = RowsOf(n)
    BY <1>1, <2>1, CountsStay
  <2> QED
    BY <1>1, <2>1, <2>2, SidecarStays DEF MetaCounts
<1>2. CASE UNCHANGED vars
  BY <1>1, <1>2 DEF vars, disk, MetaCounts, At
<1>3. ASSUME Next, ~Crash, ~WriterStep PROVE MetaCounts' /\ SidecarTruthful'
  BY <1>1, <1>3, SenderLeavesFiles DEF disk, MetaCounts, At
<1>4. CASE recv
  <2>1. /\ UNCHANGED <<life, csv, failed, meta, side>> /\ writer.at = "recv"
        /\ writer'.at \in {"ack", "truncate", "row", "open"} /\ (writer'.at = "truncate" => meta # NoMeta)
    BY <1>4 DEF recv, FlushStart, At, disk
  <2> QED
    BY <1>1, <2>1 DEF At
<1>5. CASE ack
  <2>1. UNCHANGED <<life, csv, failed, meta, side>> /\ writer.at = "ack" /\ writer'.at = "recv"
    BY <1>5 DEF ack, GoTo, At, disk, TypeOK
  <2> QED
    BY <1>1, <2>1 DEF At
<1>6. ASSUME NEW ok \in BOOLEAN, FileStep(ok) PROVE MetaCounts' /\ SidecarTruthful'
  <2>0. life' = life /\ writer'.cmd = writer.cmd
    BY <1>6, FileEffect
  <2>1. CASE /\ writer.at \in {"open", "header", "row"} /\ writer' = [writer EXCEPT !.at = "observe"]
             /\ InFile' \cup failed' = InFile \cup failed \cup {writer.cmd}
             /\ UNCHANGED <<meta, tmp, side, metaLost>>
    BY <2>0, <2>1, CountsWrite
  <2>2. CASE At("open") /\ writer'.at \in {"header", "row"} /\ UNCHANGED <<disk, failed, meta, metaLost>>
    BY <1>1, <2>0, <2>2 DEF At, disk
  <2>3. CASE /\ At("header") /\ writer'.at = "row" /\ csv' = Append(csv, Header)
             /\ InFile' = InFile /\ UNCHANGED <<tmp, side, failed, meta, metaLost>>
    <3>1. MetaCounts' /\ \A n \in 0 .. MaxLives : RowsOf(n)' = RowsOf(n)
      BY <2>0, <2>3, CountsStay DEF At
    <3> QED
      BY <2>3, <3>1, SidecarStays DEF MetaCounts
  <2>4. ASSUME open_tmp(ok) \/ write_body(ok) PROVE MetaCounts' /\ SidecarTruthful'
    <3>1. /\ UNCHANGED <<csv, failed, meta, side>> /\ writer.at \in {"truncate", "body"}
          /\ writer'.at # "observe" /\ (writer'.at = "rename" => tmp' = meta)
      BY <2>4 DEF open_tmp, write_body, MetaWritten, GoTo, At, TypeOK
    <3> QED
      BY <1>1, <2>0, <3>1 DEF At
  <2>5. ASSUME rename(ok) PROVE MetaCounts' /\ SidecarTruthful'
    <3>1. /\ UNCHANGED <<csv, failed, meta>> /\ writer.at = "rename" /\ writer'.at \in {"ack", "recv"}
          /\ side' = side \/ side' = tmp
      BY <2>5 DEF rename, MetaWritten, GoTo, At, TypeOK
    <3>2. CASE side' = side
      BY <1>1, <2>0, <3>1, <3>2 DEF At
    <3>3. CASE side' = tmp
      <4>1. InFile' = InFile
        BY <3>1 DEF InFile, IsHeader
      <4>2. MetaCounts'
        BY <2>0, <3>1, <4>1, CountsStay DEF At
      <4>3. /\ side' = meta /\ meta.whole /\ meta.rows = Cardinality(RowsOf(life)) /\ meta.life = life
            /\ meta.ended <=> \E r \in RowsOf(life) : r.job = "ended"
            /\ meta.identity <=> \E r \in RowsOf(life) : r.job \in {"review", "record"}
        BY <3>1, <3>3 DEF MetaCounts, Observed, At
      <4>4. RowsOf(side.life)' = RowsOf(life) /\ meta.rows \in Nat
        BY <2>0, <3>1, <4>1, <4>3 DEF RowsOf, TypeOK, MetaSpace
      <4>5. SidecarTruthful'
        BY <4>3, <4>4 DEF SidecarTruthful, RowsOf
      <4> QED
        BY <4>2, <4>5
    <3> QED
      BY <3>1, <3>2, <3>3
  <2>6. CASE (\E stat \in BOOLEAN : open_session_file(ok, stat)) \/ write_header(ok) \/ write_row(ok)
    <3>1. writer.at \in {"open", "header", "row"}
      BY <2>6 DEF open_session_file, write_header, write_row, At
    <3> QED
      BY <1>6, <2>1, <2>2, <2>3, <3>1, FileEffect
  <2> QED
    BY <1>6, <2>4, <2>5, <2>6 DEF FileStep
<1>7. CASE Crash
  <2>1. /\ life' = life + 1 /\ meta' = NoMeta /\ UNCHANGED <<csv, failed, side>> /\ writer'.at = "recv"
    BY <1>7 DEF Crash, disk
  <2>2. \A n : RowsOf(n)' = RowsOf(n)
    BY <2>1 DEF RowsOf, InFile, IsHeader
  <2>3. InFile' = InFile /\ \A r \in InFile \cup failed : r.life \in Nat /\ r.life <= life
    BY <2>1, KeptTypes DEF RowsOnce, Kept, Past, InFile, IsHeader
  <2>4. Observed' = {}
    BY <1>0, <2>1, <2>3 DEF Observed, RowsOf
  <2>5. MetaCounts'
    <3>1. NoMeta.rows = 0 /\ NoMeta.whole /\ ~NoMeta.ended /\ ~NoMeta.identity
      BY DEF NoMeta
    <3>2. \A n \in 0 .. MaxLives : IsFiniteSet(RowsOf(n)')
      BY <2>2 DEF MetaCounts
    <3>3. Cardinality({}) = 0
      BY FS_EmptySet
    <3> QED
      BY <2>1, <2>4, <3>1, <3>2, <3>3 DEF MetaCounts, At
  <2> QED
    BY <2>1, <2>3, <2>5, SidecarStays DEF MetaCounts
<1> QED
  BY <1>2, <1>3, <1>4, <1>5, <1>6, <1>7, CountsObserve DEF WriterStep

-----------------------------------------------------------------------------
(* What flush() promises *)

Promise == DueFirst /\ FlushCounts /\ SidecarFirst

(* No flush has been sent before the session comes to it. *)
LEMMA NoFlushYet ==
    ASSUME TypeOK, Roles, RowsOnce, WriterTook, actor[Main].job # "flush"
    PROVE  /\ \A r \in Kept : r.life = life => r.job # "flush"
           /\ \A k \in DOMAIN queue : queue[k].job # "flush"
           /\ ~Flushing /\ ~At("ack")
<1>1. ASSUME NEW r \in RowSpace, Issued(r) PROVE r.job # "flush"
  BY <1>1, KeptTypes DEF Issued, Roles
<1>2. \A r \in Kept : r.life = life => r.job # "flush"
  BY <1>1, KeptTypes DEF RowsOnce, Past
<1>3. \A k \in DOMAIN queue : queue[k].job # "flush"
  BY <1>2 DEF RowsOnce, Kept, InQueue
<1>4. ~Flushing /\ ~At("ack")
  BY <1>1 DEF Flushing, WriterTook, At, TypeOK
<1> QED
  BY <1>2, <1>3, <1>4

(* A sender's step other than the call of flush(): what comes in late comes in
   behind what is due. *)
LEMMA PromiseSend ==
    ASSUME TypeOK, RowsOnce, Promise,
           UNCHANGED <<bound, life, due, writer, file, meta, disk, faults, failed, misread, metaLost>>,
           Kept \subseteq Kept', actor'[Main].job = "flush" => actor[Main].job = "flush",
           Finished(Main, "flush")' => Finished(Main, "flush"),
           queue' = queue \/ \E row \in RowSpace : queue' = Append(queue, row) /\ row \notin Kept
    PROVE  Promise'
<1>1. DueFirst'
  <2>1. ASSUME NEW i \in DOMAIN queue', NEW k \in DOMAIN queue', queue'[k].job = "flush", queue'[i] \in due PROVE i < k
    <3>1. CASE queue' = queue
      BY <2>1, <3>1 DEF Promise, DueFirst
    <3>2. ASSUME NEW row \in RowSpace, queue' = Append(queue, row), row \notin Kept PROVE i < k
      <4>1. /\ \A j \in DOMAIN queue : queue'[j] = queue[j] /\ j \in Nat /\ j < Len(queue) + 1
            /\ \A j \in DOMAIN queue' : j \in DOMAIN queue \/ (j = Len(queue) + 1 /\ queue'[j] = row)
        BY <3>2, SenderTypes, AppendFacts
      <4>2. row \notin due
        BY <3>2 DEF Promise, DueFirst
      <4>3. i \in DOMAIN queue
        BY <2>1, <4>1, <4>2
      <4> QED
        BY <2>1, <4>1, <4>3 DEF Promise, DueFirst
    <3> QED
      BY <3>1, <3>2
  <2> QED
    BY <2>1 DEF Promise, DueFirst
<1>2. FlushCounts' /\ SidecarFirst'
  BY DEF Promise, FlushCounts, SidecarFirst, Flushing, At, InFile, IsHeader, disk
<1> QED
  BY <1>1, <1>2 DEF Promise

(* The call of flush(): all rows before it are in front of its command. *)
LEMMA PromiseFlush ==
    ASSUME TypeOK, Roles, WaitersWait, RowsOnce, SentIsKept, WriterTook, Promise, flush
    PROVE  Promise'
<1>0. MaySend(Main, "flush") /\ Send(Main, "flush") /\ Finished(Main, "ended") /\ Main \in Actors
      /\ due' = {r \in Kept : r.life = life}
  BY SenderTypes DEF flush, MaySend, HandedOver, Kept
<1>1. /\ UNCHANGED <<life, writer>> /\ actor'[Main].job = "flush" /\ actor'[Main].at # "done"
  <2>1. "flush" \in Jobs
    BY DEF Jobs
  <2> QED
    BY <1>0, <2>1, SendEffect DEF Behind
<1>2. \/ queue' = queue /\ Kept' = Kept
      \/ queue' = Append(queue, Row(life, Main, "flush")) /\ Row(life, Main, "flush") \notin Kept
         /\ Kept' = Kept \cup {Row(life, Main, "flush")}
  BY <1>0, SendRows
<1>3. /\ \A r \in Kept : r.life = life => r.job # "flush"
      /\ \A k \in DOMAIN queue : queue[k].job # "flush"
      /\ ~Flushing /\ ~At("ack")
  BY <1>0, NoFlushYet DEF Finished
<1>4. Row(life, Main, "ended") \in due'
  <2>1. Cmd(Main) \in Kept /\ Cmd(Main) = Row(life, Main, "ended")
    BY <1>0 DEF Finished, SentIsKept, Cmd
  <2>2. Row(life, Main, "ended").life = life
    BY DEF Row
  <2> QED
    BY <1>0, <2>1, <2>2
<1>5. ASSUME NEW i \in DOMAIN queue', NEW k \in DOMAIN queue', queue'[k].job = "flush", queue'[i] \in due' PROVE i < k
  <2>1. CASE queue' = queue
    BY <1>3, <1>5, <2>1
  <2>2. CASE queue' = Append(queue, Row(life, Main, "flush")) /\ Row(life, Main, "flush") \notin Kept
    <3>1. Row(life, Main, "flush") \in RowSpace
      BY <1>0, FreshRow
    <3>2. /\ \A j \in DOMAIN queue : queue'[j] = queue[j] /\ j \in Nat /\ j < Len(queue) + 1
          /\ \A j \in DOMAIN queue' : j \in DOMAIN queue \/ (j = Len(queue) + 1 /\ queue'[j] = Row(life, Main, "flush"))
      BY <2>2, <3>1, SenderTypes, AppendFacts
    <3>3. k = Len(queue) + 1
      BY <1>3, <1>5, <3>2
    <3>4. i \in DOMAIN queue
      BY <1>0, <1>5, <2>2, <3>2
    <3> QED
      BY <3>2, <3>3, <3>4
  <2> QED
    BY <1>2, <2>1, <2>2
<1>6. DueFirst'
  <2>1. \A r \in due' : r \in Kept' /\ r.life = life /\ r.job # "flush"
    BY <1>0, <1>2, <1>3
  <2> QED
    BY <1>1, <1>4, <1>5, <2>1 DEF DueFirst
<1>7. FlushCounts' /\ SidecarFirst'
  BY <1>1, <1>3 DEF FlushCounts, SidecarFirst, Flushing, At, Finished
<1> QED
  BY <1>6, <1>7 DEF Promise

(* The writer takes a command: when it is the flush, all that was due is
   written, failed or not, and counted. *)
LEMMA PromiseRecv ==
    ASSUME TypeOK, Roles, WaitersWait, RowsOnce, SentIsKept, WriterTook, MetaCounts, Promise, recv, SendersMove
    PROVE  Promise'
<1>0. /\ queue \in Seq(RowSpace) /\ queue # <<>> /\ queue' = Tail(queue) /\ 1 \in DOMAIN queue
      /\ writer'.cmd = queue[1] /\ InHand = {} /\ InHand' = (IF queue[1].job = "flush" THEN {} ELSE {queue[1]})
      /\ InQueue = InQueue' \cup {queue[1]} /\ InFile' = InFile
  BY RecvRows
<1>1. /\ writer.at = "recv" /\ UNCHANGED <<life, due, meta, failed, metaLost, side>>
      /\ writer'.at = "ack" => meta = NoMeta /\ queue[1].job = "flush"
  <2>1. Head(queue) = queue[1]
    BY <1>0
  <2> QED
    BY <2>1 DEF recv, At, FlushStart, disk
<1>2. actor' = actor \/ \E h \in Actors : actor'[h].at = "granted" /\ actor'[h].job = actor[h].job
                                          /\ \A u \in Actors \ {h} : actor'[u] = actor[u]
  BY SenderTypes, ReleaseEffect DEF recv
<1>3. actor'[Main].job = actor[Main].job /\ (actor'[Main].at = "done" => actor[Main].at = "done")
  BY <1>2, SenderTypes
<1>4. DueFirst'
  <2>1. \A r \in due : r \in Kept' /\ r.life = life /\ r.job # "flush"
    BY <1>0, <1>1 DEF Promise, DueFirst, Kept
  <2>2. ASSUME NEW i \in DOMAIN queue', NEW k \in DOMAIN queue', queue'[k].job = "flush", queue'[i] \in due PROVE i < k
    <3>1. /\ i \in Nat /\ k \in Nat /\ i + 1 \in DOMAIN queue /\ k + 1 \in DOMAIN queue
          /\ queue'[i] = queue[i + 1] /\ queue'[k] = queue[k + 1]
      BY <1>0, TailFacts
    <3>2. i + 1 < k + 1
      BY <2>2, <3>1 DEF Promise, DueFirst
    <3> QED
      BY <3>1, <3>2
  <2> QED
    BY <1>1, <1>3, <2>1, <2>2 DEF Promise, DueFirst
<1>5. queue[1].job = "flush" => due \subseteq InFile \cup failed /\ meta.ended /\ meta.rows >= Cardinality(due)
  <2> SUFFICES ASSUME queue[1].job = "flush"
               PROVE  due \subseteq InFile \cup failed /\ meta.ended /\ meta.rows >= Cardinality(due)
    OBVIOUS
  <2>1. due \subseteq RowsOf(life)
    <3>1. ASSUME NEW r \in due, r \in InQueue PROVE FALSE
      <4>1. PICK i \in DOMAIN queue : queue[i] = r
        BY <3>1 DEF InQueue
      <4>2. i < 1 /\ i \in Nat /\ i # 0
        BY <1>0, <4>1, <3>1, LenProperties DEF Promise, DueFirst
      <4> QED
        BY <4>2
    <3> QED
      BY <1>0, <3>1 DEF Promise, DueFirst, Kept, RowsOf
  <2>2. Observed = RowsOf(life) /\ IsFiniteSet(RowsOf(life))
    BY <1>1, HistoryAssumption DEF Observed, At, MetaCounts, TypeOK
  <2>3. actor[Main].job = "flush"
    BY <1>0, NoFlushYet
  <2>4. Row(life, Main, "ended") \in Observed /\ Row(life, Main, "ended").job = "ended"
    BY <2>1, <2>2, <2>3 DEF Promise, DueFirst, Row
  <2>5. meta.ended /\ meta.rows = Cardinality(RowsOf(life))
    BY <2>2, <2>4 DEF MetaCounts
  <2>6. Cardinality(due) <= Cardinality(RowsOf(life)) /\ Cardinality(due) \in Nat /\ Cardinality(RowsOf(life)) \in Nat
    BY <2>1, <2>2, FS_Subset, FS_CardinalityType
  <2> QED
    BY <2>1, <2>5, <2>6 DEF RowsOf
<1>6. FlushCounts'
  BY <1>0, <1>1, <1>3, <1>5 DEF Promise, FlushCounts, Flushing, Finished
<1>7. SidecarFirst'
  <2>1. writer'.at # "ack"
    BY <1>1, <1>5 DEF NoMeta
  <2> QED
    BY <1>1, <1>3, <2>1 DEF Promise, SidecarFirst, At, Finished
<1> QED
  BY <1>4, <1>6, <1>7 DEF Promise

(* A step of the writer on its files: rows are added to those written or failed,
   and the sidecar that an acknowledgement follows says what was counted. *)
LEMMA PromiseFile ==
    ASSUME TypeOK, RowsOnce, WriterTook, MetaCounts, Promise, NEW ok \in BOOLEAN, FileStep(ok)
    PROVE  Promise'
<1>0. UNCHANGED <<life, actor, queue, due, meta>> /\ writer'.cmd = writer.cmd /\ InQueue' = InQueue
      /\ writer.at \in {"open", "header", "row", "truncate", "body", "rename"}
  BY FileEffect DEF senders, At, InQueue
<1>1. InFile \cup failed \subseteq InFile' \cup failed' /\ Kept \subseteq Kept'
  <2>1. CASE /\ writer.at \in {"open", "header", "row"} /\ writer' = [writer EXCEPT !.at = "observe"]
             /\ InFile' \cup failed' = InFile \cup failed \cup {writer.cmd}
    BY <1>0, <2>1 DEF Kept, InHand
  <2>2. CASE At("open") /\ writer'.at \in {"header", "row"} /\ UNCHANGED <<csv, failed>>
    BY <1>0, <2>2 DEF Kept, InHand, InFile, IsHeader, At
  <2>3. CASE At("header") /\ writer'.at = "row" /\ InFile' = InFile /\ failed' = failed
    BY <1>0, <2>3 DEF Kept, InHand, At
  <2>4. CASE /\ writer.at \in {"truncate", "body", "rename"} /\ writer'.at \in {"body", "rename", "recv", "ack"}
             /\ UNCHANGED <<csv, failed>>
    BY <1>0, <2>4 DEF Kept, InHand, InFile, IsHeader
  <2> QED
    BY <2>1, <2>2, <2>3, <2>4, FileEffect DEF disk
<1>2. DueFirst'
  BY <1>0, <1>1 DEF Promise, DueFirst
<1>3. FlushCounts'
  BY <1>0, <1>1 DEF Promise, FlushCounts, Flushing, Finished, At
<1>4. SidecarFirst'
  <2>1. CASE (\E stat \in BOOLEAN : open_session_file(ok, stat)) \/ write_header(ok) \/ write_row(ok)
    <3>1. writer'.at # "ack" /\ UNCHANGED <<side, metaLost>>
      BY <2>1 DEF open_session_file, write_header, write_row, WriteFails, GoTo, disk, TypeOK
    <3> QED
      BY <1>0, <3>1 DEF Promise, SidecarFirst, Finished, At
  <2>2. CASE open_tmp(ok) \/ write_body(ok)
    <3>1. side' = side /\ (metaLost' \/ (metaLost' = metaLost /\ writer'.at # "ack"))
      BY <2>2 DEF open_tmp, write_body, MetaWritten, GoTo, TypeOK
    <3> QED
      BY <1>0, <3>1 DEF Promise, SidecarFirst, Finished, At
  <2>3. CASE rename(ok)
    <3>1. CASE ok
      <4>1. writer.at = "rename" /\ side' = meta /\ (writer'.at = "ack" => writer.cmd.job = "flush")
        BY <2>3, <3>1 DEF rename, MetaWritten, GoTo, MetaCounts, At, TypeOK
      <4>2. meta.life = life
        BY <4>1 DEF MetaCounts
      <4> QED
        BY <1>0, <4>1, <4>2 DEF Promise, FlushCounts, SidecarFirst, Flushing, Finished, At
    <3>2. CASE ~ok
      BY <2>3, <3>2 DEF rename, MetaWritten, SidecarFirst
    <3> QED
      BY <3>1, <3>2
  <2> QED
    BY <2>1, <2>2, <2>3 DEF FileStep
<1> QED
  BY <1>2, <1>3, <1>4 DEF Promise

(* Every step keeps the promise. *)
LEMMA PromiseStep ==
    ASSUME TypeOK, Roles, WaitersWait, RowsOnce, SentIsKept, WriterTook, MetaCounts, Promise, [Next]_vars
    PROVE  Promise'
<1>0. Main \in Actors /\ Main \notin Tasks /\ Tasks \subseteq Actors /\ actor \in [Actors -> ActorSpace]
  BY SenderTypes, HistoryAssumption
<1>1. CASE record_session_started \/ record_session_ended
  <2>1. PICK job \in {"started", "ended"} : MaySend(Main, job) /\ Send(Main, job) /\ due' = due
    BY <1>1 DEF record_session_started, record_session_ended, MaySend
  <2>2. Row(life, Main, job) \in RowSpace
    BY <1>0, <2>1, FreshRow
  <2>3. /\ actor'[Main].job = job
        /\ \/ queue' = queue /\ Kept' = Kept
           \/ queue' = Append(queue, Row(life, Main, job)) /\ Row(life, Main, job) \notin Kept
              /\ Kept' = Kept \cup {Row(life, Main, job)}
    BY <1>0, <2>1, SendRows
  <2>4. UNCHANGED <<bound, life, writer, file, meta, disk, faults, failed, misread, metaLost>>
    BY <2>1 DEF Send
  <2> QED
    BY <2>1, <2>2, <2>3, <2>4, PromiseSend DEF Finished
<1>2. ASSUME NEW t \in Tasks, NEW job \in {"review", "record"}, Tap(t, job) PROVE Promise'
  <2>1. MaySend(t, job) /\ Send(t, job) /\ due' = due /\ t \in Actors
    BY <1>0, <1>2 DEF Tap, MaySend
  <2>2. Row(life, t, job) \in RowSpace
    BY <2>1, FreshRow
  <2>3. /\ \A u \in Actors \ {t} : actor'[u] = actor[u]
        /\ \/ queue' = queue /\ Kept' = Kept
           \/ queue' = Append(queue, Row(life, t, job)) /\ Row(life, t, job) \notin Kept
              /\ Kept' = Kept \cup {Row(life, t, job)}
    BY <2>1, SendRows
  <2>4. actor'[Main] = actor[Main]
    BY <1>0, <2>3
  <2>5. UNCHANGED <<bound, life, writer, file, meta, disk, faults, failed, misread, metaLost>>
    BY <2>1 DEF Send
  <2> QED
    BY <2>1, <2>2, <2>3, <2>4, <2>5, PromiseSend DEF Finished
<1>3. ASSUME NEW t \in Tasks, DropTask(t) PROVE Promise'
  <2>1. UNCHANGED <<bound, life, queue, due, writer, file, meta, disk, faults, failed, misread, metaLost>>
    BY <1>3 DEF DropTask
  <2>2. Kept' = Kept
    BY <2>1 DEF Kept, InQueue, InHand, InFile, IsHeader, disk
  <2>3. actor'[Main].job = actor[Main].job /\ (actor'[Main].at = "done" => actor[Main].at = "done")
    <3> DEFINE act == [actor EXCEPT ![t].at = "dropped"]
    <3>1. act \in [Actors -> ActorSpace] /\ act[Main] = actor[Main]
      BY <1>0 DEF ActorSpace, Places
    <3>2. actor' = act \/ Release(act)
      BY <1>3 DEF DropTask
    <3> HIDE DEF act
    <3>3. actor' = act \/ \E h \in Actors : actor'[h].at = "granted" /\ actor'[h].job = act[h].job
                                            /\ \A u \in Actors \ {h} : actor'[u] = act[u]
      BY <3>1, <3>2, ReleaseEffect
    <3> QED
      BY <1>0, <3>1, <3>3
  <2> QED
    BY <2>1, <2>2, <2>3, PromiseSend DEF Finished
<1>4. ASSUME NEW s \in Actors, Push(s) PROVE Promise'
  <2>1. UNCHANGED <<bound, life, due, writer, file, meta, disk, faults, failed, misread, metaLost>>
    BY <1>4 DEF Push
  <2>2. queue' = Append(queue, Cmd(s)) /\ Cmd(s) \notin Kept /\ Kept \subseteq Kept'
    BY <1>4, PushRows
  <2>3. /\ Cmd(s) \in RowSpace /\ actor'[s].at = Behind(actor[s].job) /\ actor'[s].job = actor[s].job
        /\ \A u \in Actors \ {s} : actor'[u] = actor[u]
    BY <1>4, PushMoves
  <2>4. actor'[Main].job = actor[Main].job /\ (actor'[Main].at = "done" => actor[Main].at = "done")
    BY <1>0, <2>3 DEF Behind
  <2> QED
    BY <2>1, <2>2, <2>3, <2>4, PromiseSend DEF Finished
<1>5. ASSUME NEW s \in Actors, NEW a \in Replies, request(s, a) PROVE Promise'
  <2>1. UNCHANGED <<bound, life, queue, due, writer, file, meta, disk, faults, failed, misread, metaLost>>
    BY <1>5 DEF request
  <2>2. Kept' = Kept
    BY <2>1 DEF Kept, InQueue, InHand, InFile, IsHeader, disk
  <2>3. \A u \in Actors : actor'[u] = actor[u] \/ (u = s /\ actor'[u].job = actor[u].job /\ actor[u].at = "exchange")
    BY <1>0, <1>5 DEF request, ActorSpace
  <2>4. Finished(Main, "flush")' => Finished(Main, "flush")
    BY <1>0, <2>3 DEF Finished, Roles
  <2>5. actor'[Main].job = actor[Main].job
    BY <1>0, <2>3
  <2> QED
    BY <2>1, <2>2, <2>4, <2>5, PromiseSend
<1>6. ASSUME recv, ~Crash, Next PROVE Promise'
  BY <1>6, SendersStep, PromiseRecv
<1>7. CASE observe
  <2>1. UNCHANGED <<life, actor, queue, due, csv, failed, side, metaLost>> /\ writer.at = "observe"
        /\ writer'.at \in {"truncate", "recv"} /\ writer'.cmd = writer.cmd
        /\ meta'.rows = meta.rows + 1 /\ (meta.ended => meta'.ended)
    BY <1>7 DEF observe, GoTo, At, Rest, senders, disk, TypeOK
  <2>2. Kept' = Kept /\ InFile' = InFile
    BY <2>1 DEF Kept, InQueue, InHand, InFile, IsHeader
  <2>3. writer.cmd.job # "flush"
    BY <2>1 DEF WriterTook, At, RowJobs
  <2>4. DueFirst' /\ SidecarFirst'
    BY <2>1, <2>2 DEF Promise, DueFirst, SidecarFirst, At, Finished
  <2>5. FlushCounts'
    <3> SUFFICES ASSUME Finished(Main, "flush")
                 PROVE  due \subseteq InFile \cup failed /\ meta'.ended /\ meta'.rows >= Cardinality(due)
      BY <2>1, <2>2, <2>3 DEF FlushCounts, Flushing, Finished
    <3>1. due \subseteq InFile \cup failed /\ meta.ended /\ meta.rows >= Cardinality(due)
      BY DEF Promise, FlushCounts
    <3>2. Cardinality(due) \in Nat
      <4>1. due \subseteq RowsOf(life) /\ IsFiniteSet(RowsOf(life))
        BY <3>1, HistoryAssumption DEF Promise, DueFirst, RowsOf, MetaCounts, TypeOK
      <4> QED
        BY <4>1, FS_Subset, FS_CardinalityType
    <3>3. meta.rows \in Nat
      BY DEF TypeOK, MetaSpace
    <3> QED
      BY <2>1, <3>1, <3>2, <3>3
  <2> QED
    BY <2>4, <2>5 DEF Promise
<1>8. CASE ack
  <2>1. UNCHANGED <<life, queue, due, meta, csv, failed, side, metaLost>> /\ writer.at = "ack" /\ writer'.at = "recv"
        /\ actor'[Main].job = actor[Main].job
    BY <1>0, <1>8 DEF ack, GoTo, At, disk, TypeOK, ActorSpace
  <2>2. Kept' = Kept /\ InFile' = InFile
    BY <2>1 DEF Kept, InQueue, InHand, InFile, IsHeader
  <2>3. Flushing
    BY <2>1 DEF Flushing, WriterTook, At
  <2> QED
    BY <2>1, <2>2, <2>3 DEF Promise, DueFirst, FlushCounts, SidecarFirst, At, Flushing
<1>9. CASE Crash
  <2>1. due' = {} /\ queue' = <<>> /\ writer'.at = "recv" /\ actor'[Main].job = "none" /\ actor'[Main].at = "idle"
    BY <1>0, <1>9 DEF Crash, Idle
  <2> QED
    BY <2>1 DEF Promise, DueFirst, FlushCounts, SidecarFirst, Flushing, Finished, At
<1>10. CASE UNCHANGED vars
  BY <1>10 DEF vars, senders, disk, Promise, DueFirst, FlushCounts, SidecarFirst, Flushing, Finished, At, Kept,
               InQueue, InHand, InFile, IsHeader
<1> QED
  BY <1>1, <1>2, <1>3, <1>4, <1>5, <1>6, <1>7, <1>8, <1>9, <1>10, PromiseFlush, PromiseFile DEF Next, WriterStep

-----------------------------------------------------------------------------
(* The theorems *)

(* Only the end of an exchange decides a review. *)
LEMMA TransparentStep ==
    ASSUME TypeOK, Roles, WaitersWait, HistoryIsTransparent, [Next]_vars
    PROVE  HistoryIsTransparent'
<1>0. actor \in [Actors -> ActorSpace] /\ Main \in Actors /\ Main \notin Tasks /\ Tasks \subseteq Actors
  BY SenderTypes, HistoryAssumption
<1>1. ASSUME \A t \in Tasks : actor'[t].at = "done" => actor'[t] = actor[t] PROVE HistoryIsTransparent'
  BY <1>1 DEF HistoryIsTransparent, Finished
<1>2. ASSUME NEW s \in Actors, NEW job \in Jobs, Send(s, job) PROVE HistoryIsTransparent'
  <2>1. actor'[s].at # "done" /\ \A u \in Actors \ {s} : actor'[u] = actor[u]
    BY <1>2, SendEffect DEF Behind
  <2> QED
    BY <1>0, <1>1, <2>1
<1>3. CASE record_session_started \/ record_session_ended \/ flush
  BY <1>0, <1>2, <1>3 DEF record_session_started, record_session_ended, flush, Jobs, RowJobs
<1>4. ASSUME NEW t \in Tasks, NEW job \in {"review", "record"}, Tap(t, job) PROVE HistoryIsTransparent'
  BY <1>0, <1>2, <1>4 DEF Tap, Jobs, RowJobs
<1>5. ASSUME NEW act \in [Actors -> ActorSpace], Release(act), \A u \in Actors : act[u].at = "done" => act[u] = actor[u]
      PROVE  HistoryIsTransparent'
  <2>1. actor' = act \/ \E h \in Actors : actor'[h].at = "granted" /\ \A u \in Actors \ {h} : actor'[u] = act[u]
    BY <1>5, ReleaseEffect
  <2> QED
    BY <1>0, <1>1, <1>5, <2>1
<1>6. ASSUME NEW t \in Tasks, DropTask(t) PROVE HistoryIsTransparent'
  <2> DEFINE act == [actor EXCEPT ![t].at = "dropped"]
  <2>1. act \in [Actors -> ActorSpace] /\ \A u \in Actors : act[u].at = "done" => act[u] = actor[u]
    BY <1>0 DEF ActorSpace, Places
  <2>2. actor' = act \/ Release(act)
    BY <1>6 DEF DropTask
  <2> HIDE DEF act
  <2> QED
    BY <1>0, <1>1, <1>5, <2>1, <2>2
<1>7. ASSUME NEW s \in Actors, Push(s) PROVE HistoryIsTransparent'
  <2>1. actor'[s].at # "done" /\ \A u \in Actors \ {s} : actor'[u] = actor[u]
    BY <1>7, PushMoves DEF Behind
  <2> QED
    BY <1>0, <1>1, <2>1
<1>8. ASSUME NEW s \in Actors, NEW a \in Replies, request(s, a) PROVE HistoryIsTransparent'
  <2>1. /\ review(FanOutReview(<<"defer", a>>), FanOutPosture(<<"fail_open", IpcPosture>>)) = review(a, IpcPosture)
        /\ a \in Answers
    BY HistoryAssumption, CsvIsNeutral
  <2>2. \A u \in Actors \ {s} : actor'[u] = actor[u]
    BY <1>0, <1>8 DEF request
  <2>3. actor'[s].job = "review" => actor'[s].answer = a /\ actor'[s].verdict = review(a, IpcPosture)
    BY <1>0, <1>8, <2>1 DEF request, ActorSpace
  <2>4. Refused(a, IpcPosture) => review(a, IpcPosture) = "deny"
    BY DEF Refused, review, on_error
  <2> QED
    BY <1>0, <2>2, <2>3, <2>4 DEF HistoryIsTransparent, Finished
<1>9. CASE recv
  BY <1>0, <1>5, <1>9 DEF recv
<1>10. CASE ack
  BY <1>0, <1>1, <1>10 DEF ack
<1>11. ASSUME actor' = actor PROVE HistoryIsTransparent'
  BY <1>1, <1>11
<1>12. CASE observe \/ \E ok \in BOOLEAN : FileStep(ok)
  BY <1>11, <1>12 DEF observe, FileStep, open_session_file, write_header, write_row, open_tmp, write_body, rename,
                      Rest, senders
<1>13. CASE Crash
  BY <1>0, <1>1, <1>13 DEF Crash, Idle
<1>14. CASE UNCHANGED vars
  BY <1>11, <1>14 DEF vars, senders
<1> QED
  BY <1>3, <1>4, <1>6, <1>7, <1>8, <1>9, <1>10, <1>12, <1>13, <1>14 DEF Next, WriterStep

(* The first life of a session starts in the invariant. *)
LEMMA HistoryInit ==
    ASSUME Init
    PROVE  IInv
<1>0. Main \in Actors
  BY DEF Actors
<1>1. /\ InQueue = {} /\ InHand = {} /\ InFile = {} /\ failed = {} /\ Kept = {} /\ Granted(actor) = {}
      /\ DOMAIN queue = {} /\ DOMAIN waiters = {} /\ DOMAIN csv = {}
      /\ \A s \in Actors : actor[s].at = "idle" /\ actor[s].job = "none"
  BY DEF Init, InQueue, InHand, InFile, IsHeader, Kept, Granted, Idle
<1>2. Cardinality(Granted(actor)) = 0 /\ Len(queue) = 0
  BY <1>1, FS_EmptySet DEF Init
<1>3. TypeOK
  <2>1. NoCmd \in RowSpace /\ NoMeta \in MetaSpace /\ Idle \in ActorSpace
    BY HistoryAssumption DEF NoCmd, Row, RowSpace, NoMeta, MetaSpace, Idle, ActorSpace, Places, Jobs, RowJobs,
                             Actors, Answers, Verdicts
  <2>2. Len(queue) + Cardinality(Granted(actor)) <= QUEUE_DEPTH /\ life \in 1 .. MaxLives /\ faults \in 0 .. MaxFaults
    BY <1>2, HistoryAssumption DEF Init
  <2>3. actor \in [Actors -> ActorSpace]
    BY <2>1 DEF Init
  <2>4. writer \in [at : {"recv", "open", "header", "row", "observe", "truncate", "body", "rename",
                          "ack"}, cmd : RowSpace]
    BY <2>1 DEF Init
  <2>5. {meta, tmp, side} \subseteq MetaSpace
    BY <2>1 DEF Init
  <2>6. queue \in Seq(RowSpace) /\ csv \in Seq(RowSpace) /\ waiters \in Seq(Actors)
    BY DEF Init
  <2>7. bound \in Bounds /\ file \in BOOLEAN /\ metaLost \in BOOLEAN /\ failed = {} /\ due = {} /\ misread = {}
    BY DEF Init
  <2> QED
    BY <2>2, <2>3, <2>4, <2>5, <2>6, <2>7 DEF TypeOK, ActorSpace, Places
<1>4. Roles /\ WaitersWait /\ RowsOnce /\ SentIsKept /\ WriterTook /\ HeaderFirst /\ CsvWellFormed
  BY <1>1 DEF Init, Roles, WaitersWait, RowsOnce, SentIsKept, WriterTook, HeaderFirst, CsvWellFormed, At
<1>5. MetaCounts
  <2>1. Observed = {} /\ \A n : RowsOf(n) = {}
    BY <1>1 DEF Observed, RowsOf
  <2>2. IsFiniteSet({}) /\ Cardinality({}) = 0
    BY FS_EmptySet
  <2> QED
    BY <2>1, <2>2 DEF Init, MetaCounts, NoMeta, At
<1>6. SidecarTruthful /\ DueFirst /\ FlushCounts /\ SidecarFirst
  BY <1>0, <1>1 DEF Init, SidecarTruthful, DueFirst, FlushCounts, SidecarFirst, Flushing, Finished, At
<1>7. HistoryIsTransparent
  BY <1>1 DEF HistoryIsTransparent, Finished, Actors
<1> QED
  BY <1>3, <1>4, <1>5, <1>6, <1>7 DEF IInv

(* The conjunction holds in every reachable state, over all lives. *)
THEOREM HistoryInvariant == Spec => []IInv
<1>1. ASSUME IInv, [Next]_vars PROVE Roles' /\ WaitersWait'
  <2>1. CASE Next /\ ~Crash
    BY <1>1, <2>1, SendersStep, RolesStep DEF IInv, SendersMove
  <2>2. CASE Crash
    BY <2>2 DEF Crash, Idle, Roles, WaitersWait
  <2>3. CASE UNCHANGED vars
    BY <1>1, <2>3 DEF IInv, vars, senders, Roles, WaitersWait
  <2> QED
    BY <1>1, <2>1, <2>2, <2>3
<1>2. IInv /\ [Next]_vars => IInv'
  BY <1>1, TypeStep, RowsStep, WriterTookStep, CsvStep, MetaStep, PromiseStep, TransparentStep DEF IInv, Promise
<1> QED
  BY <1>2, HistoryInit, PTL DEF Spec

(* The channel to the writer holds no more commands and permits than
   QUEUE_DEPTH, whoever waits, is woken or is dropped. *)
THEOREM HistoryTyped == Spec => []TypeOK
<1>1. IInv => TypeOK
  BY DEF IInv
<1> QED
  BY <1>1, HistoryInvariant, PTL

(* open_session_file and write_row keep the CSV file well formed over crashes
   and failing file operations: it starts with a header, no row is in it twice,
   lives follow each other, and a life adds a header of its own only when it
   could not read the size of the file it resumed, ahead of its rows. *)
THEOREM HistoryCsv == Spec => []CsvWellFormed
<1>1. IInv => CsvWellFormed
  BY DEF IInv
<1> QED
  BY <1>1, HistoryInvariant, PTL

(* write_session_meta never leaves a torn sidecar, nor one ahead of the rows. *)
THEOREM HistorySidecar == Spec => []SidecarTruthful
<1>1. IInv => SidecarTruthful
  BY DEF IInv
<1> QED
  BY <1>1, HistoryInvariant, PTL

(* flush() returns with the session's rows and its sidecar on disk, or with
   their writes failed. *)
THEOREM HistoryFlush == Spec => []FlushMeansWritten
<1>1. IInv => FlushMeansWritten
  BY DEF IInv, FlushCounts, SidecarFirst, FlushMeansWritten
<1> QED
  BY <1>1, HistoryInvariant, PTL

(* The monitor is asked about nothing that is not on its way into the history. *)
THEOREM HistoryRecorded == Spec => []ReviewedIsRecorded
<1>1. IInv => ReviewedIsRecorded
  <2> SUFFICES ASSUME IInv, NEW t \in Tasks, actor[t].at \in {"exchange", "done"}
               PROVE  Cmd(t) \in InQueue \cup InHand \cup InFile \cup failed
    BY DEF ReviewedIsRecorded
  <2>1. t \in Actors /\ t # Main
    BY HistoryAssumption DEF Actors
  <2>2. actor[t].job # "flush"
    BY <2>1 DEF IInv, Roles
  <2> QED
    BY <2>1, <2>2 DEF IInv, SentIsKept, Kept
<1> QED
  BY <1>1, HistoryInvariant, PTL

(* The FanOutGuardian of the CSV history and the monitor decides as the monitor
   alone would, errors and posture included. *)
THEOREM HistoryTransparent == Spec => []HistoryIsTransparent
<1>1. IInv => HistoryIsTransparent
  BY DEF IInv
<1> QED
  BY <1>1, HistoryInvariant, PTL
=============================================================================
