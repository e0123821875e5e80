-------------------------- MODULE RecordQueueProofs -------------------------
(***************************************************************************)
(* Proofs about RecordQueue, for any depth of the channel, any size of a   *)
(* batch and any number of sessions and records.                           *)
(***************************************************************************)
EXTENDS RecordQueue, QueueFacts, FiniteSetTheorems

-----------------------------------------------------------------------------
(* The inductive invariant *)

(* Between two rounds the loop holds nothing. *)
RoundStartsEmpty == loop = "recv" => batch = <<>> /\ ack = NoAck

Increasing(s) == \A i, j \in DOMAIN s : i < j => s[i] < s[j]

IsActivity(i) == queue[i].op = "activity"

(* The batch of the request that record_loop is waiting for. *)
Current(b) == loop = "sending" /\ b = batch

(* Records wait in the order they were made, and behind every record that has
   left the channel. *)
QueueInOrder ==
    /\ \A i, j \in DOMAIN queue : i < j /\ IsActivity(i) /\ IsActivity(j) => queue[i].id < queue[j].id
    /\ \A n \in InQueue :
          /\ n <= offered
          /\ \A x \in Range(batch) \cup Range(stored) : x < n
          /\ \A b \in inflight : \A x \in Range(b) : x < n
    /\ \A x \in Range(batch) \cup Range(stored) : x <= offered
    /\ \A b \in inflight : \A x \in Range(b) : x <= offered

(* Requests under way share no record with each other or with the files, and
   codex has given up on all of them but the current one. *)
RequestsApart ==
    \A b \in inflight :
        /\ Increasing(b) /\ Range(b) \cap Range(stored) = {}
        /\ Current(b) \/ Range(b) \subseteq failed
        /\ \A other \in inflight : other = b \/ Range(b) \cap Range(other) = {}

(* What is being collected or posted is newer than all that was posted before. *)
BatchIsNewest ==
    /\ Increasing(batch)
    /\ loop # "sending" \/ batch \in inflight =>
          \A y \in Range(batch) :
              /\ \A x \in Range(stored) : x < y
              /\ \A b \in inflight : Current(b) \/ \A x \in Range(b) : x < y

(* No record made before a flush() is queued behind its command. *)
IsBehind(f) ==
    /\ mark[f] <= offered
    /\ flusher[f] = "idle" => ack # f /\ \A i \in DOMAIN queue : queue[i] # Flush(f)
    /\ \A i, j \in DOMAIN queue : queue[i] = Flush(f) /\ i < j /\ IsActivity(j) => mark[f] < queue[j].id
    /\ ack = f => \A n \in InQueue : mark[f] < n

FlushIsBehind == \A f \in Flushers : IsBehind(f)

IInv ==
    /\ TypeOK /\ RoundStartsEmpty /\ NothingVanishes
    /\ FlushIsBehind /\ FlushCoversEarlierRecords
    /\ QueueInOrder /\ RequestsApart /\ BatchIsNewest /\ StoredOnceInOrder

-----------------------------------------------------------------------------
(* Commands and permits *)

Commands == {Activity(n) : n \in Records} \cup {Flush(f) : f \in Flushers}

(* A command is a record or the flush of one session, never both. *)
LEMMA CommandCases ==
    /\ \A n : Activity(n).op = "activity" /\ Activity(n).id = n
    /\ \A f : Flush(f).op = "flush" /\ Flush(f).id = f
    /\ \A f, n : Flush(f) # Activity(n)
    /\ \A cmd \in Commands : \/ cmd.op = "activity" /\ cmd = Activity(cmd.id) /\ cmd.id \in Records
                             \/ cmd.op = "flush" /\ cmd = Flush(cmd.id) /\ cmd.id \in Flushers
<1>1. \A n : Activity(n).op = "activity" /\ Activity(n).id = n
  BY DEF Activity
<1>2. \A f : Flush(f).op = "flush" /\ Flush(f).id = f
  BY DEF Flush
<1>3. \A f, n : Flush(f) # Activity(n)
  <2>1. \A f, n : Flush(f).op # Activity(n).op
    BY <1>1, <1>2
  <2> QED
    BY <2>1
<1> QED
  BY <1>1, <1>2, <1>3 DEF Commands

(* The permits handed to waiters can be counted. *)
LEMMA GrantedCount ==
    ASSUME TypeOK
    PROVE  IsFiniteSet(Granted) /\ Cardinality(Granted) \in Nat
<1>1. Granted \subseteq Flushers
  BY DEF Granted
<1> QED
  BY <1>1, QueueAssumption, FS_Subset, FS_CardinalityType

(* One permit more, at most, when the first waiter is handed one. *)
LEMMA GrantOne ==
    ASSUME TypeOK, NEW f \in Flushers, flusher' = [flusher EXCEPT ![f] = "granted"]
    PROVE  Cardinality(Granted') \in Nat /\ Cardinality(Granted') <= Cardinality(Granted) + 1
<1>1. Granted' = Granted \cup {f}
  BY DEF Granted, TypeOK
<1> QED
  BY <1>1, GrantedCount, FS_AddElement

(* A permit less when a waiter uses it. *)
LEMMA UseGrant ==
    ASSUME TypeOK, NEW f \in Flushers, NEW state \in {"waiting", "queued", "done"},
           flusher' = [flusher EXCEPT ![f] = state]
    PROVE  /\ Cardinality(Granted') \in Nat /\ Cardinality(Granted') <= Cardinality(Granted)
           /\ flusher[f] = "granted" => Cardinality(Granted') = Cardinality(Granted) - 1
<1>1. Granted' = Granted \ {f} /\ (flusher[f] = "granted" => f \in Granted)
  BY DEF Granted, TypeOK
<1>2. /\ IsFiniteSet(Granted) /\ Cardinality(Granted) \in Nat
      /\ Cardinality(Granted \ {f}) = IF f \in Granted THEN Cardinality(Granted) - 1 ELSE Cardinality(Granted)
  BY GrantedCount, FS_RemoveElement
<1>3. f \in Granted => Cardinality(Granted) # 0
  BY <1>2, FS_EmptySet
<1> QED
  BY <1>1, <1>2, <1>3

(* The end of a round leaves the permits alone or takes one back. *)
LEMMA FinishGrants ==
    ASSUME TypeOK, Finish
    PROVE  /\ flusher' \in [Flushers -> {"idle", "waiting", "granted", "queued", "done"}]
           /\ Cardinality(Granted') \in Nat /\ Cardinality(Granted') <= Cardinality(Granted)
<1>1. Granted' \subseteq Granted
  BY DEF Granted, Finish
<1>2. flusher' \in [Flushers -> {"idle", "waiting", "granted", "queued", "done"}]
  BY DEF Finish, TypeOK
<1> QED
  BY <1>1, <1>2, GrantedCount, FS_Subset, FS_CardinalityType

(* What a command that leaves the channel does to the loop. *)
LEMMA TakeEffect ==
    ASSUME TypeOK, Take
    PROVE  /\ queue \in Seq(Commands) /\ queue # <<>> /\ queue' = Tail(queue)
           /\ Head(queue) \in Commands
           /\ \/ \E n \in Records : Head(queue) = Activity(n) /\ batch' = Append(batch, n) /\ ack' = ack
              \/ \E f \in Flushers : Head(queue) = Flush(f) /\ ack' = f /\ batch' = batch
<1>1. queue \in Seq(Commands) /\ queue # <<>> /\ queue' = Tail(queue)
  BY DEF Take, TypeOK, Commands
<1>2. Head(queue) \in Commands
  BY <1>1, TailFacts
<1> QED
  BY <1>1, <1>2, CommandCases DEF Take

(* Every step keeps the types and the bounds. *)
LEMMA TypeStep ==
    ASSUME TypeOK, RoundStartsEmpty, [Next]_vars
    PROVE  TypeOK' /\ RoundStartsEmpty'
<1> USE QueueAssumption
<1>0. /\ queue \in Seq(Commands) /\ Len(queue) \in Nat /\ batch \in Seq(Records) /\ Len(batch) \in Nat
      /\ offered \in Nat /\ Cardinality(Granted) \in Nat
  BY GrantedCount DEF TypeOK, Commands
<1>1. CASE record
  <2>1. offered + 1 \in Records /\ offered' \in 0 .. MaxRecords /\ dropped' \subseteq 1 .. offered'
    <3>1. offered + 1 \in Records /\ offered' = offered + 1 /\ offered' \in 0 .. MaxRecords
      BY <1>0, <1>1 DEF record, Records
    <3>2. dropped' \subseteq dropped \cup {offered + 1}
      BY <1>1 DEF record
    <3>3. \A d \in dropped : d \in 1 .. offered
      BY DEF TypeOK
    <3> QED
      BY <1>0, <3>1, <3>2, <3>3
  <2>2. queue' \in Seq(Commands) /\ Len(queue') + Cardinality(Granted) <= QUEUE_DEPTH
    <3>1. Activity(offered + 1) \in Commands
      BY <2>1 DEF Commands
    <3>2. CASE MayTrySend
      <4>1. queue' = Append(queue, Activity(offered + 1)) /\ Len(queue) + Cardinality(Granted) < QUEUE_DEPTH
        BY <1>1, <3>2 DEF record, MayTrySend, HasPermit
      <4>2. queue' \in Seq(Commands) /\ Len(queue') = Len(queue) + 1
        BY <1>0, <3>1, <4>1, AppendFacts
      <4> QED
        BY <1>0, <4>1, <4>2
    <3>3. CASE ~MayTrySend
      BY <1>0, <1>1, <3>3 DEF record, TypeOK
    <3> QED
      BY <3>2, <3>3
  <2>3. Granted' = Granted
    BY <1>1 DEF record, Granted
  <2> QED
    BY <1>1, <2>1, <2>2, <2>3 DEF record, TypeOK, Commands, RoundStartsEmpty
<1>2. ASSUME NEW f \in Flushers, flush(f) PROVE TypeOK' /\ RoundStartsEmpty'
  <2>1. mark' \in [Flushers -> 0 .. MaxRecords]
    BY <1>2 DEF flush, TypeOK
  <2>2. Flush(f) \in Commands
    BY DEF Commands
  <2>3. CASE HasPermit
    <3>1. queue' \in Seq(Commands) /\ Len(queue') = Len(queue) + 1
      <4>1. queue' = Append(queue, Flush(f))
        BY <1>2, <2>3 DEF flush
      <4> QED
        BY <1>0, <2>2, <4>1, AppendFacts
    <3>2. Cardinality(Granted') \in Nat /\ Cardinality(Granted') <= Cardinality(Granted)
      BY <1>2, <2>3, UseGrant DEF flush
    <3>3. Len(queue') + Cardinality(Granted') <= QUEUE_DEPTH
      BY <1>0, <2>3, <3>1, <3>2 DEF HasPermit
    <3> QED
      BY <1>2, <2>1, <2>3, <3>1, <3>3 DEF flush, TypeOK, Commands, RoundStartsEmpty
  <2>4. CASE ~HasPermit
    <3>1. waiters' \in Seq(Flushers)
      <4>1. waiters \in Seq(Flushers) /\ waiters' = Append(waiters, f)
        BY <1>2, <2>4 DEF flush, TypeOK
      <4> QED
        BY <4>1, AppendFacts
    <3>2. Cardinality(Granted') \in Nat /\ Cardinality(Granted') <= Cardinality(Granted)
      BY <1>2, <2>4, UseGrant DEF flush
    <3>3. Len(queue') + Cardinality(Granted') <= QUEUE_DEPTH
      BY <1>0, <1>2, <2>4, <3>2 DEF flush, TypeOK
    <3> QED
      BY <1>2, <2>1, <2>4, <3>1, <3>3 DEF flush, TypeOK, RoundStartsEmpty
  <2> QED
    BY <2>3, <2>4
<1>3. ASSUME NEW f \in Flushers, SendFlush(f) PROVE TypeOK' /\ RoundStartsEmpty'
  <2>1. Flush(f) \in Commands
    BY DEF Commands
  <2>2. queue' \in Seq(Commands) /\ Len(queue') = Len(queue) + 1
    BY <1>0, <1>3, <2>1, AppendFacts DEF SendFlush
  <2>3. Cardinality(Granted') = Cardinality(Granted) - 1
    BY <1>3, UseGrant DEF SendFlush
  <2>4. Len(queue') + Cardinality(Granted') <= QUEUE_DEPTH
    BY <1>0, <2>2, <2>3 DEF TypeOK
  <2> QED
    BY <1>3, <2>2, <2>4 DEF SendFlush, TypeOK, Commands, RoundStartsEmpty
<1>4. ASSUME Take, loop = "recv" \/ (loop = "drain" /\ MayDrain) PROVE TypeOK' /\ RoundStartsEmpty'
  <2>1. queue' \in Seq(Commands) /\ Len(queue') = Len(queue) - 1
    <3>1. queue # <<>> /\ queue' = Tail(queue)
      BY <1>4, TakeEffect
    <3> QED
      BY <1>0, <3>1, TailFacts
  <2>2. /\ waiters' \in Seq(Flushers)
        /\ flusher' \in [Flushers -> {"idle", "waiting", "granted", "queued", "done"}]
        /\ Cardinality(Granted') \in Nat /\ Cardinality(Granted') <= Cardinality(Granted) + 1
    <3>1. CASE waiters = <<>>
      <4>1. Granted' = Granted
        BY <1>4, <3>1 DEF Take, Granted
      <4> QED
        BY <1>0, <1>4, <3>1, <4>1 DEF Take, TypeOK
    <3>2. CASE waiters # <<>>
      <4>1. Head(waiters) \in Flushers /\ waiters' \in Seq(Flushers)
        <5>1. waiters \in Seq(Flushers) /\ waiters' = Tail(waiters)
          BY <1>4, <3>2 DEF Take, TypeOK
        <5> QED
          BY <3>2, <5>1, TailFacts
      <4>2. flusher' = [flusher EXCEPT ![Head(waiters)] = "granted"]
        BY <1>4, <3>2 DEF Take
      <4> QED
        BY <4>1, <4>2, GrantOne DEF TypeOK
    <3> QED
      BY <3>1, <3>2
  <2>3. Len(queue') + Cardinality(Granted') <= QUEUE_DEPTH
    BY <1>0, <2>1, <2>2 DEF TypeOK
  <2>4. batch' \in Seq(Records) /\ Len(batch') <= MAX_BATCH /\ ack' \in Flushers \cup {NoAck}
    <3>1. Len(batch) < MAX_BATCH
      BY <1>0, <1>4 DEF RoundStartsEmpty, MayDrain
    <3>2. CASE \E n \in Records : batch' = Append(batch, n) /\ ack' = ack
      BY <1>0, <3>1, <3>2, AppendFacts DEF TypeOK
    <3>3. CASE \E f \in Flushers : ack' = f /\ batch' = batch
      BY <1>0, <3>1, <3>3
    <3> QED
      BY <1>4, <3>2, <3>3, TakeEffect
  <2> QED
    BY <1>4, <2>1, <2>2, <2>3, <2>4 DEF Take, TypeOK, Commands, RoundStartsEmpty
<1>5. CASE send
  <2>1. Granted' = Granted
    BY <1>5 DEF send, channel, Granted
  <2> QED
    BY <1>5, <2>1 DEF send, channel, TypeOK, RoundStartsEmpty
<1>6. ASSUME Finish, failed' \subseteq Records PROVE TypeOK' /\ RoundStartsEmpty'
  <2>1. Len(queue') + Cardinality(Granted') <= QUEUE_DEPTH
    BY <1>0, <1>6, FinishGrants DEF Finish, TypeOK
  <2>2. batch' \in Seq(Records) /\ Len(batch') = 0
    BY <1>6 DEF Finish, Leftover
  <2> QED
    BY <1>6, <2>1, <2>2, FinishGrants DEF Finish, Leftover, TypeOK, RoundStartsEmpty
<1>7. CASE SkipSend
  BY <1>6, <1>7 DEF SkipSend, TypeOK
<1>8. CASE SendEnds
  <2>1. Range(batch) \subseteq Records
    BY <1>0, RangeOfSeq
  <2> QED
    BY <1>6, <1>8, <2>1 DEF SendEnds, TypeOK
<1>9. ASSUME NEW b \in inflight, NEW n \in 0 .. Len(b), handleActivities(b, n)
      PROVE  TypeOK' /\ RoundStartsEmpty'
  <2>1. stored' \in Seq(Records)
    BY <1>9, WriteFacts DEF handleActivities, TypeOK
  <2>2. Granted' = Granted
    BY <1>9 DEF handleActivities, channel, Granted
  <2> QED
    BY <1>9, <2>1, <2>2 DEF handleActivities, channel, TypeOK, RoundStartsEmpty
<1>10. ASSUME NEW b \in inflight, RequestLost(b) PROVE TypeOK' /\ RoundStartsEmpty'
  <2>1. Granted' = Granted
    BY <1>10 DEF RequestLost, channel, Granted
  <2> QED
    BY <1>10, <2>1 DEF RequestLost, channel, TypeOK, RoundStartsEmpty
<1>11. CASE UNCHANGED vars
  <2>1. Granted' = Granted
    BY <1>11 DEF vars, channel, Granted
  <2> QED
    BY <1>11, <2>1 DEF vars, channel, TypeOK, RoundStartsEmpty
<1> QED
  BY <1>1, <1>2, <1>3, <1>4, <1>5, <1>7, <1>8, <1>9, <1>10, <1>11 DEF Next, recv, try_recv

-----------------------------------------------------------------------------
(* The records in the channel *)

(* A command that joins the channel stands behind all others. *)
LEMMA QueueGrows ==
    ASSUME TypeOK, NEW cmd \in Commands, queue' = Append(queue, cmd)
    PROVE  /\ \A i \in DOMAIN queue : i \in DOMAIN queue' /\ queue'[i] = queue[i] /\ i \in Nat /\ i <= Len(queue)
           /\ \A i \in DOMAIN queue' : i \in DOMAIN queue \/ (i = Len(queue) + 1 /\ queue'[i] = cmd)
           /\ Len(queue) \in Nat /\ Len(queue) + 1 \in DOMAIN queue' /\ queue'[Len(queue) + 1] = cmd
           /\ InQueue' = InQueue \cup (IF cmd.op = "activity" THEN {cmd.id} ELSE {})
<1>1. queue \in Seq(Commands)
  BY DEF TypeOK, Commands
<1>2. /\ \A i \in DOMAIN queue : i \in DOMAIN queue' /\ queue'[i] = queue[i] /\ i \in Nat /\ i <= Len(queue)
      /\ \A i \in DOMAIN queue' : i \in DOMAIN queue \/ (i = Len(queue) + 1 /\ queue'[i] = cmd)
      /\ Len(queue) \in Nat /\ Len(queue) + 1 \in DOMAIN queue' /\ queue'[Len(queue) + 1] = cmd
  BY <1>1, AppendFacts
<1> QED
  BY <1>2 DEF InQueue

(* A command that leaves the channel stood in front of all others. *)
LEMMA QueueShrinks ==
    ASSUME TypeOK, queue # <<>>, queue' = Tail(queue)
    PROVE  /\ 1 \in DOMAIN queue /\ Head(queue) = queue[1]
           /\ \A i \in DOMAIN queue' : i \in Nat /\ i > 0 /\ i + 1 \in DOMAIN queue /\ queue'[i] = queue[i + 1]
           /\ InQueue = InQueue' \cup (IF Head(queue).op = "activity" THEN {Head(queue).id} ELSE {})
<1>1. queue \in Seq(Commands)
  BY DEF TypeOK, Commands
<1>2. /\ 1 \in DOMAIN queue /\ Head(queue) = queue[1]
      /\ \A i \in DOMAIN queue' : i \in Nat /\ i > 0 /\ i + 1 \in DOMAIN queue /\ queue'[i] = queue[i + 1]
      /\ \A i \in DOMAIN queue : i = 1 \/ (i - 1 \in DOMAIN queue' /\ queue'[i - 1] = queue[i])
  BY <1>1, TailFacts
<1>3. ASSUME NEW i \in DOMAIN queue, queue[i].op = "activity"
      PROVE  queue[i].id \in InQueue' \/ (Head(queue).op = "activity" /\ queue[i].id = Head(queue).id)
  <2>1. CASE i = 1
    BY <1>2, <1>3, <2>1
  <2>2. CASE i # 1
    <3>1. i - 1 \in DOMAIN queue' /\ queue'[i - 1] = queue[i]
      BY <1>2, <2>2
    <3> QED
      BY <1>3, <3>1 DEF InQueue
  <2> QED
    BY <2>1, <2>2
<1>4. InQueue' \subseteq InQueue
  BY <1>2 DEF InQueue
<1>5. Head(queue).op = "activity" => Head(queue).id \in InQueue
  BY <1>2 DEF InQueue
<1>6. \A x \in InQueue : x \in InQueue' \/ (Head(queue).op = "activity" /\ x = Head(queue).id)
  BY <1>3 DEF InQueue
<1> QED
  BY <1>2, <1>4, <1>5, <1>6

(* Every step keeps each record in the channel, in the loop's hands, in a file,
   or accounted for as dropped or failed. *)
LEMMA NothingVanishesStep ==
    ASSUME TypeOK, RoundStartsEmpty, NothingVanishes, [Next]_vars
    PROVE  NothingVanishes'
<1>0. offered \in Nat /\ batch \in Seq(Records)
  BY DEF TypeOK
<1>1. CASE record
  <2>1. offered' = offered + 1 /\ UNCHANGED <<batch, stored, failed>>
    BY <1>1 DEF record
  <2>2. InQueue' \cup dropped' = InQueue \cup dropped \cup {offered + 1}
    <3>1. CASE MayTrySend
      <4>1. offered + 1 \in Records
        BY <1>0, <1>1, QueueAssumption DEF record, Records
      <4>2. Activity(offered + 1) \in Commands
        BY <4>1 DEF Commands
      <4>3. queue' = Append(queue, Activity(offered + 1)) /\ dropped' = dropped
        BY <1>1, <3>1 DEF record
      <4> QED
        BY <4>2, <4>3, QueueGrows, CommandCases
    <3>2. CASE ~MayTrySend
      BY <1>1, <3>2 DEF record, InQueue
    <3> QED
      BY <3>1, <3>2
  <2>3. 1 .. offered' = (1 .. offered) \cup {offered + 1}
    BY <1>0, <2>1
  <2> QED
    BY <2>1, <2>2, <2>3 DEF NothingVanishes
<1>2. ASSUME NEW f \in Flushers, queue' = Append(queue, Flush(f)) \/ queue' = queue,
             UNCHANGED <<offered, dropped, batch, stored, failed>>
      PROVE  NothingVanishes'
  <2>1. Flush(f) \in Commands /\ Flush(f).op # "activity"
    BY CommandCases DEF Commands
  <2>2. InQueue' = InQueue
    <3>1. CASE queue' = queue
      BY <3>1 DEF InQueue
    <3>2. CASE queue' = Append(queue, Flush(f))
      BY <2>1, <3>2, QueueGrows
    <3> QED
      BY <1>2, <3>1, <3>2
  <2> QED
    BY <1>2, <2>2 DEF NothingVanishes
<1>3. CASE Take
  <2>1. queue # <<>> /\ queue' = Tail(queue) /\ UNCHANGED <<offered, dropped, stored, failed>>
    BY <1>3 DEF Take
  <2>2. CASE \E n \in Records : Head(queue) = Activity(n) /\ batch' = Append(batch, n)
    <3>1. PICK n \in Records : Head(queue) = Activity(n) /\ batch' = Append(batch, n)
      BY <2>2
    <3>2. InQueue = InQueue' \cup {n}
      BY <2>1, <3>1, QueueShrinks, CommandCases
    <3>3. Range(batch') = Range(batch) \cup {n}
      BY <1>0, <3>1, AppendFacts
    <3> QED
      BY <2>1, <3>2, <3>3 DEF NothingVanishes
  <2>3. CASE \E f \in Flushers : Head(queue) = Flush(f) /\ batch' = batch
    <3>1. InQueue = InQueue'
      BY <2>1, <2>3, QueueShrinks, CommandCases
    <3> QED
      BY <2>1, <2>3, <3>1 DEF NothingVanishes
  <2> QED
    BY <1>3, <2>2, <2>3, TakeEffect
<1>4. CASE SkipSend
  <2>1. Range(batch) = {}
    BY <1>4 DEF SkipSend, Range
  <2> QED
    BY <1>4, <2>1 DEF SkipSend, Finish, NothingVanishes, InQueue
<1>5. CASE SendEnds
  <2>1. Range(batch) \subseteq Range(stored') \cup failed'
    BY <1>5 DEF SendEnds, Finish
  <2> QED
    BY <1>5, <2>1 DEF SendEnds, Finish, NothingVanishes, InQueue
<1>6. ASSUME NEW b \in inflight, NEW n \in 0 .. Len(b), handleActivities(b, n) PROVE NothingVanishes'
  <2>1. Range(stored) \subseteq Range(stored')
    BY <1>6, WriteFacts DEF handleActivities, TypeOK
  <2> QED
    BY <1>6, <2>1 DEF handleActivities, channel, NothingVanishes, InQueue
<1>7. CASE UNCHANGED <<offered, dropped, queue, batch, stored, failed>>
  BY <1>7 DEF NothingVanishes, InQueue
<1> QED
  BY <1>1, <1>2, <1>3, <1>4, <1>5, <1>6, <1>7
  DEF Next, vars, channel, flush, SendFlush, recv, try_recv, send, RequestLost

-----------------------------------------------------------------------------
(* What flush() promises *)

(* A record or a flush joins the channel behind the flushes already there. *)
LEMMA FlushBehindAppend ==
    ASSUME TypeOK, NEW cmd \in Commands, queue' = Append(queue, cmd),
           NEW f \in Flushers, IsBehind(f), mark'[f] = mark[f], mark[f] <= offered', ack' = ack,
           flusher'[f] = "idle" => flusher[f] = "idle" /\ cmd # Flush(f),
           cmd.op = "activity" => cmd.id > mark[f]
    PROVE  IsBehind(f)'
<1>1. /\ \A i \in DOMAIN queue : queue'[i] = queue[i] /\ i \in Nat /\ i <= Len(queue)
      /\ \A i \in DOMAIN queue' : i \in DOMAIN queue \/ (i = Len(queue) + 1 /\ queue'[i] = cmd)
      /\ Len(queue) \in Nat
      /\ InQueue' = InQueue \cup (IF cmd.op = "activity" THEN {cmd.id} ELSE {})
  BY QueueGrows
<1>2. flusher'[f] = "idle" => ack' # f /\ \A i \in DOMAIN queue' : queue'[i] # Flush(f)
  BY <1>1 DEF IsBehind
<1>3. ASSUME NEW i \in DOMAIN queue', NEW j \in DOMAIN queue', queue'[i] = Flush(f), i < j, queue'[j].op = "activity"
      PROVE  mark[f] < queue'[j].id
  <2>1. CASE j \in DOMAIN queue
    <3>1. i \in DOMAIN queue
      BY <1>1, <1>3, <2>1
    <3> QED
      BY <1>1, <1>3, <2>1, <3>1 DEF IsBehind, IsActivity
  <2>2. CASE j \notin DOMAIN queue
    <3>1. mark[f] \in Nat /\ queue'[j] = cmd
      BY <1>1, <2>2 DEF TypeOK
    <3> QED
      BY <1>3, <3>1
  <2> QED
    BY <2>1, <2>2
<1>4. ack' = f => \A n \in InQueue' : mark[f] < n
  <2>1. mark[f] \in Nat
    BY DEF TypeOK
  <2> QED
    BY <1>1, <2>1 DEF IsBehind
<1> QED
  BY <1>2, <1>3, <1>4 DEF IsBehind, IsActivity

(* A command leaves the channel: what stands behind a flush still does. *)
LEMMA FlushBehindTake ==
    ASSUME TypeOK, Take, NEW f \in Flushers, IsBehind(f)
    PROVE  IsBehind(f)'
<1>0. queue # <<>> /\ queue' = Tail(queue) /\ UNCHANGED <<offered, mark>>
  BY DEF Take
<1>1. /\ 1 \in DOMAIN queue /\ Head(queue) = queue[1]
      /\ \A i \in DOMAIN queue' : i \in Nat /\ i > 0 /\ i + 1 \in DOMAIN queue /\ queue'[i] = queue[i + 1]
      /\ InQueue' \subseteq InQueue
  BY <1>0, QueueShrinks
<1>2. flusher'[f] = "idle" => flusher[f] = "idle"
  <2>1. CASE waiters = <<>>
    BY <2>1 DEF Take
  <2>2. CASE waiters # <<>>
    <3>1. Head(waiters) \in Flushers
      BY <2>2, TailFacts DEF TypeOK
    <3> QED
      BY <2>2, <3>1 DEF Take, TypeOK
  <2> QED
    BY <2>1, <2>2
<1>3. ack' = ack \/ (ack' \in Flushers /\ queue[1] = Flush(ack'))
  BY <1>1, TakeEffect
<1>4. flusher'[f] = "idle" => ack' # f /\ \A i \in DOMAIN queue' : queue'[i] # Flush(f)
  BY <1>1, <1>2, <1>3 DEF IsBehind
<1>5. ASSUME NEW i \in DOMAIN queue', NEW j \in DOMAIN queue', queue'[i] = Flush(f), i < j, queue'[j].op = "activity"
      PROVE  mark[f] < queue'[j].id
  <2>1. i + 1 < j + 1 /\ i + 1 \in DOMAIN queue /\ j + 1 \in DOMAIN queue
    BY <1>1, <1>5
  <2> QED
    BY <1>1, <1>5, <2>1 DEF IsBehind, IsActivity
<1>6. ASSUME ack' = f, NEW n \in InQueue' PROVE mark[f] < n
  <2>1. CASE ack = f
    BY <1>1, <1>6, <2>1 DEF IsBehind
  <2>2. CASE queue[1] = Flush(f)
    <3>1. PICK j \in DOMAIN queue' : queue'[j].op = "activity" /\ n = queue'[j].id
      BY <1>6 DEF InQueue
    <3>2. j + 1 \in DOMAIN queue /\ 1 < j + 1 /\ queue[j + 1] = queue'[j]
      BY <1>1
    <3> QED
      BY <1>1, <2>2, <3>1, <3>2 DEF IsBehind, IsActivity
  <2> QED
    BY <1>3, <1>6, <2>1, <2>2
<1> QED
  BY <1>0, <1>4, <1>5, <1>6 DEF IsBehind, IsActivity

(* Every step keeps each flush behind the records made before it, and the loop
   acknowledges it when they have all been dealt with. *)
LEMMA FlushStep ==
    ASSUME TypeOK, RoundStartsEmpty, NothingVanishes, FlushIsBehind, FlushCoversEarlierRecords, [Next]_vars
    PROVE  FlushIsBehind' /\ FlushCoversEarlierRecords'
<1>0. offered \in Nat /\ mark \in [Flushers -> Nat] /\ NoAck \notin Flushers
  BY QueueAssumption DEF TypeOK
<1>1. CASE record
  <2>1. /\ offered' = offered + 1 /\ UNCHANGED <<flusher, ack, stored, failed, mark>>
        /\ dropped \subseteq dropped'
    BY <1>1 DEF record
  <2>2. ASSUME NEW f \in Flushers PROVE IsBehind(f)'
    <3>1. mark[f] <= offered /\ mark[f] < offered + 1 /\ IsBehind(f)
      BY <1>0 DEF FlushIsBehind, IsBehind
    <3>2. CASE MayTrySend
      <4>1. Activity(offered + 1) \in Commands /\ queue' = Append(queue, Activity(offered + 1))
        BY <1>0, <1>1, <3>2, QueueAssumption DEF record, Commands, Records
      <4> QED
        BY <1>0, <2>1, <3>1, <4>1, FlushBehindAppend, CommandCases
    <3>3. CASE ~MayTrySend
      <4>1. queue' = queue
        BY <1>1, <3>3 DEF record
      <4> QED
        BY <1>0, <2>1, <3>1, <4>1 DEF IsBehind, IsActivity, InQueue
    <3> QED
      BY <3>2, <3>3
  <2> QED
    BY <2>1, <2>2 DEF FlushIsBehind, FlushCoversEarlierRecords
<1>2. ASSUME NEW f \in Flushers, flush(f) PROVE FlushIsBehind' /\ FlushCoversEarlierRecords'
  <2>1. /\ mark' = [mark EXCEPT ![f] = offered] /\ flusher[f] = "idle"
        /\ UNCHANGED <<offered, dropped, ack, stored, failed>>
        /\ \A g \in Flushers : flusher'[g] = flusher[g] \/ (g = f /\ flusher'[g] \in {"queued", "waiting"})
        /\ flusher'[f] \in {"queued", "waiting"}
    BY <1>2 DEF flush, TypeOK
  <2>2. ack # f /\ \A i \in DOMAIN queue : queue[i] # Flush(f)
    BY <2>1 DEF FlushIsBehind, IsBehind
  <2>3. \/ queue' = queue
        \/ queue' = Append(queue, Flush(f))
    BY <1>2 DEF flush
  <2>4. Flush(f) \in Commands /\ Flush(f).op # "activity"
    BY CommandCases DEF Commands
  <2>5. IsBehind(f)'
    <3>1. mark'[f] = offered' /\ ack' # f /\ flusher'[f] # "idle"
      BY <1>0, <2>1, <2>2
    <3>2. CASE queue' = queue
      BY <1>0, <2>1, <2>2, <3>1, <3>2 DEF IsBehind
    <3>3. CASE queue' = Append(queue, Flush(f))
      <4>1. ASSUME NEW i \in DOMAIN queue', NEW j \in DOMAIN queue', queue'[i] = Flush(f), i < j PROVE FALSE
        BY <2>2, <2>4, <3>3, <4>1, QueueGrows
      <4> QED
        BY <1>0, <2>1, <3>1, <4>1 DEF IsBehind
    <3> QED
      BY <2>3, <3>2, <3>3
  <2>6. ASSUME NEW g \in Flushers, g # f PROVE IsBehind(g)'
    <3>1. mark'[g] = mark[g] /\ flusher'[g] = flusher[g] /\ IsBehind(g) /\ mark[g] <= offered'
      BY <1>0, <2>1, <2>6 DEF FlushIsBehind, IsBehind
    <3>2. CASE queue' = queue
      BY <2>1, <3>1, <3>2 DEF IsBehind, IsActivity, InQueue
    <3>3. CASE queue' = Append(queue, Flush(f))
      <4>1. Flush(f) # Flush(g)
        BY <2>6, CommandCases
      <4> QED
        BY <2>1, <2>4, <3>1, <3>3, <4>1, FlushBehindAppend
    <3> QED
      BY <2>3, <3>2, <3>3
  <2>7. FlushCoversEarlierRecords'
    BY <1>0, <2>1 DEF FlushCoversEarlierRecords
  <2> QED
    BY <2>5, <2>6, <2>7 DEF FlushIsBehind
<1>3. ASSUME NEW f \in Flushers, SendFlush(f) PROVE FlushIsBehind' /\ FlushCoversEarlierRecords'
  <2>1. /\ queue' = Append(queue, Flush(f)) /\ flusher'[f] = "queued"
        /\ \A g \in Flushers : g # f => flusher'[g] = flusher[g]
        /\ UNCHANGED <<offered, dropped, ack, stored, failed, mark>>
    BY <1>3 DEF SendFlush, TypeOK
  <2>2. Flush(f) \in Commands /\ Flush(f).op # "activity"
    BY CommandCases DEF Commands
  <2>3. ASSUME NEW g \in Flushers PROVE IsBehind(g)'
    <3>1. IsBehind(g) /\ mark[g] <= offered' /\ mark'[g] = mark[g]
      BY <2>1 DEF FlushIsBehind, IsBehind
    <3>2. flusher'[g] = "idle" => flusher[g] = "idle" /\ Flush(f) # Flush(g)
      BY <2>1, CommandCases
    <3> QED
      BY <2>1, <2>2, <3>1, <3>2, FlushBehindAppend
  <2> QED
    BY <2>1, <2>3 DEF FlushIsBehind, FlushCoversEarlierRecords
<1>4. CASE Take
  <2>1. FlushIsBehind'
    BY <1>4, FlushBehindTake DEF FlushIsBehind
  <2>2. ASSUME NEW g \in Flushers PROVE flusher'[g] = "done" => flusher[g] = "done"
    BY <1>4 DEF Take, TypeOK
  <2> QED
    BY <1>4, <2>1, <2>2 DEF Take, FlushCoversEarlierRecords
<1>5. ASSUME Finish, Range(batch) \subseteq Range(stored) \cup failed', failed \subseteq failed'
      PROVE  FlushIsBehind' /\ FlushCoversEarlierRecords'
  <2>1. /\ UNCHANGED <<offered, dropped, queue, stored, mark>> /\ ack' = NoAck
        /\ \A g \in Flushers : flusher'[g] = IF g = ack THEN "done" ELSE flusher[g]
    BY <1>5 DEF Finish
  <2>2. FlushIsBehind'
    BY <1>0, <2>1 DEF FlushIsBehind, IsBehind, IsActivity, InQueue
  <2>3. ASSUME NEW f \in Flushers, flusher'[f] = "done"
        PROVE  1 .. mark[f] \subseteq dropped \cup Range(stored) \cup failed'
    <3>1. CASE flusher[f] = "done"
      BY <1>5, <3>1 DEF FlushCoversEarlierRecords
    <3>2. CASE ack = f
      <4>1. mark[f] <= offered /\ \A n \in InQueue : mark[f] < n
        BY <3>2 DEF FlushIsBehind, IsBehind
      <4>2. \A n \in 1 .. mark[f] : n \in 1 .. offered /\ n \notin InQueue
        BY <1>0, <4>1
      <4> QED
        BY <1>5, <4>2 DEF NothingVanishes
    <3> QED
      BY <2>1, <2>3, <3>1, <3>2
  <2> QED
    BY <2>1, <2>2, <2>3 DEF FlushCoversEarlierRecords
<1>6. CASE SkipSend
  <2>1. Range(batch) = {}
    BY <1>6 DEF SkipSend, Range
  <2> QED
    BY <1>5, <1>6, <2>1 DEF SkipSend
<1>7. CASE SendEnds
  BY <1>5, <1>7 DEF SendEnds
<1>8. ASSUME NEW b \in inflight, NEW n \in 0 .. Len(b), handleActivities(b, n)
      PROVE  FlushIsBehind' /\ FlushCoversEarlierRecords'
  <2>1. Range(stored) \subseteq Range(stored')
    BY <1>8, WriteFacts DEF handleActivities, TypeOK
  <2> QED
    BY <1>8, <2>1
    DEF handleActivities, channel, FlushIsBehind, IsBehind, IsActivity, InQueue, FlushCoversEarlierRecords
<1>9. CASE UNCHANGED <<offered, dropped, channel, ack, stored, failed, mark>>
  BY <1>9 DEF channel, FlushIsBehind, IsBehind, IsActivity, InQueue, FlushCoversEarlierRecords
<1> QED
  BY <1>1, <1>2, <1>3, <1>4, <1>6, <1>7, <1>8, <1>9 DEF Next, vars, recv, try_recv, send, RequestLost

-----------------------------------------------------------------------------
(* The order of the records *)

Ordered == QueueInOrder /\ RequestsApart /\ BatchIsNewest /\ StoredOnceInOrder

(* The types of the numbers that are compared. *)
LEMMA OrderTypes ==
    ASSUME TypeOK
    PROVE  /\ offered \in Nat /\ InQueue \subseteq Nat
           /\ Range(batch) \subseteq Nat /\ Range(stored) \subseteq Nat
           /\ \A b \in inflight : Range(b) \subseteq Nat
           /\ Len(batch) \in Nat /\ DOMAIN batch = 1 .. Len(batch) /\ DOMAIN queue \subseteq Nat
<1>1. queue \in Seq(Commands) /\ batch \in Seq(Records) /\ stored \in Seq(Records)
  BY DEF TypeOK, Commands
<1>2. \A s \in Seq(Records) : Range(s) \subseteq Nat
  <2>1. \A s \in Seq(Records) : Range(s) \subseteq Records
    BY RangeOfSeq
  <2>2. Records \subseteq Nat
    BY QueueAssumption DEF Records
  <2> QED
    BY <2>1, <2>2
<1>3. DOMAIN queue \subseteq Nat /\ \A i \in DOMAIN queue : queue[i] \in Commands
  BY <1>1, LenProperties, ElementOfSeq
<1>4. InQueue \subseteq Nat
  BY <1>3, CommandCases DEF InQueue, Records
<1> QED
  BY <1>1, <1>2, <1>3, <1>4, LenProperties DEF TypeOK

(* A record joins the channel: it is the newest. *)
LEMMA OrderRecord ==
    ASSUME TypeOK, Ordered, record
    PROVE  Ordered'
<1>0. /\ offered' = offered + 1 /\ UNCHANGED <<loop, batch, inflight, stored, failed>>
      /\ offered \in Nat
  BY OrderTypes DEF record
<1>1. RequestsApart' /\ BatchIsNewest' /\ StoredOnceInOrder'
  BY <1>0 DEF Ordered, RequestsApart, BatchIsNewest, StoredOnceInOrder, Current
<1>2. QueueInOrder'
  <2>0. /\ \A x \in Range(batch) \cup Range(stored) : x \in Nat /\ x <= offered
        /\ \A b \in inflight : \A x \in Range(b) : x \in Nat /\ x <= offered
        /\ \A n \in InQueue : n \in Nat /\ n <= offered
    BY OrderTypes DEF Ordered, QueueInOrder
  <2>1. CASE MayTrySend
    <3>1. Activity(offered + 1) \in Commands /\ queue' = Append(queue, Activity(offered + 1))
      BY <1>0, <2>1, QueueAssumption DEF record, Commands, Records
    <3>2. /\ \A i \in DOMAIN queue : queue'[i] = queue[i] /\ i \in Nat /\ i <= Len(queue)
          /\ \A i \in DOMAIN queue' : i \in DOMAIN queue \/ (i = Len(queue) + 1 /\ queue'[i] = Activity(offered + 1))
          /\ Len(queue) \in Nat /\ InQueue' = InQueue \cup {offered + 1}
      BY <3>1, QueueGrows, CommandCases
    <3>3. ASSUME NEW i \in DOMAIN queue', NEW j \in DOMAIN queue', i < j, IsActivity(i)', IsActivity(j)'
          PROVE  queue'[i].id < queue'[j].id
      <4>1. i \in DOMAIN queue
        BY <3>2, <3>3
      <4>2. CASE j \in DOMAIN queue
        BY <3>2, <3>3, <4>1, <4>2 DEF Ordered, QueueInOrder, IsActivity
      <4>3. CASE queue'[j] = Activity(offered + 1)
        <5>1. queue'[i].id \in InQueue /\ queue'[j].id = offered + 1
          BY <3>2, <3>3, <4>1, <4>3, CommandCases DEF InQueue, IsActivity
        <5> QED
          BY <1>0, <2>0, <5>1
      <4> QED
        BY <3>2, <4>2, <4>3
    <3>4. ASSUME NEW n \in InQueue'
          PROVE  /\ n <= offered + 1
                 /\ \A x \in Range(batch) \cup Range(stored) : x < n
                 /\ \A b \in inflight : \A x \in Range(b) : x < n
      <4>1. CASE n = offered + 1
        BY <1>0, <2>0, <4>1
      <4>2. CASE n \in InQueue
        BY <1>0, <2>0, <4>2 DEF Ordered, QueueInOrder
      <4> QED
        BY <3>2, <4>1, <4>2
    <3>5. /\ \A x \in Range(batch) \cup Range(stored) : x <= offered + 1
          /\ \A b \in inflight : \A x \in Range(b) : x <= offered + 1
      BY <1>0, <2>0
    <3> QED
      BY <1>0, <3>3, <3>4, <3>5 DEF QueueInOrder
  <2>2. CASE ~MayTrySend
    <3>1. queue' = queue /\ InQueue' = InQueue
      BY <2>2 DEF record, InQueue
    <3> QED
      BY <1>0, <2>0, <3>1 DEF Ordered, QueueInOrder, IsActivity
  <2> QED
    BY <2>1, <2>2
<1> QED
  BY <1>1, <1>2 DEF Ordered

(* A flush joins the channel: no record moves. *)
LEMMA OrderFlush ==
    ASSUME TypeOK, Ordered, NEW f \in Flushers, queue' = Append(queue, Flush(f)),
           UNCHANGED <<offered, loop, batch, inflight, stored, failed>>
    PROVE  Ordered'
<1>1. Flush(f) \in Commands /\ Flush(f).op # "activity"
  BY CommandCases DEF Commands
<1>2. /\ \A i \in DOMAIN queue' : IsActivity(i)' => i \in DOMAIN queue /\ queue'[i] = queue[i]
      /\ InQueue' = InQueue
  BY <1>1, QueueGrows DEF IsActivity
<1>3. QueueInOrder'
  BY <1>2 DEF Ordered, QueueInOrder, IsActivity
<1> QED
  BY <1>3 DEF Ordered, RequestsApart, BatchIsNewest, StoredOnceInOrder, Current

(* A command leaves the channel: a record that joins the batch is newer than
   all before it and older than all that still wait. *)
LEMMA OrderTake ==
    ASSUME TypeOK, Ordered, Take, loop # "sending"
    PROVE  Ordered'
<1>0. /\ queue # <<>> /\ queue' = Tail(queue) /\ loop' = "drain"
      /\ UNCHANGED <<offered, inflight, stored, failed>> /\ batch \in Seq(Records)
  BY DEF Take, TypeOK
<1>1. /\ 1 \in DOMAIN queue /\ Head(queue) = queue[1]
      /\ \A i \in DOMAIN queue' : i \in Nat /\ i > 0 /\ i + 1 \in DOMAIN queue /\ queue'[i] = queue[i + 1]
      /\ InQueue = InQueue' \cup (IF Head(queue).op = "activity" THEN {Head(queue).id} ELSE {})
  BY <1>0, QueueShrinks
<1>2. ASSUME NEW i \in DOMAIN queue', NEW j \in DOMAIN queue', i < j, IsActivity(i)', IsActivity(j)'
      PROVE  queue'[i].id < queue'[j].id
  <2>1. i + 1 < j + 1 /\ i + 1 \in DOMAIN queue /\ j + 1 \in DOMAIN queue
    BY <1>1, <1>2
  <2> QED
    BY <1>1, <1>2, <2>1 DEF Ordered, QueueInOrder, IsActivity
<1>3. RequestsApart' /\ StoredOnceInOrder'
  BY <1>0 DEF Ordered, RequestsApart, StoredOnceInOrder, Current
<1>4. CASE \E n \in Records : Head(queue) = Activity(n) /\ batch' = Append(batch, n)
  <2>1. PICK n \in Records : Head(queue) = Activity(n) /\ batch' = Append(batch, n)
    BY <1>4
  <2>2. /\ InQueue = InQueue' \cup {n} /\ n \in InQueue
        /\ Range(batch') = Range(batch) \cup {n}
    BY <1>0, <1>1, <2>1, CommandCases, AppendFacts
  <2>3. /\ n <= offered
        /\ \A x \in Range(batch) \cup Range(stored) : x < n
        /\ \A b \in inflight : \A x \in Range(b) : x < n
    BY <2>2 DEF Ordered, QueueInOrder
  <2>4. ASSUME NEW m \in InQueue' PROVE n < m
    <3>1. PICK j \in DOMAIN queue' : IsActivity(j)' /\ m = queue'[j].id
      BY <2>4 DEF InQueue, IsActivity
    <3>2. 1 < j + 1 /\ j + 1 \in DOMAIN queue /\ queue[j + 1] = queue'[j] /\ IsActivity(j + 1)
      BY <1>1, <3>1 DEF IsActivity
    <3>3. IsActivity(1) /\ queue[1].id = n
      BY <1>1, <2>1, CommandCases DEF IsActivity
    <3> QED
      BY <1>1, <3>1, <3>2, <3>3 DEF Ordered, QueueInOrder
  <2>5. QueueInOrder'
    <3>1. \A m \in InQueue' :
             /\ m <= offered
             /\ \A x \in Range(batch) \cup Range(stored) : x < m
             /\ \A b \in inflight : \A x \in Range(b) : x < m
      BY <2>2 DEF Ordered, QueueInOrder
    <3>2. /\ \A x \in Range(batch) \cup Range(stored) : x <= offered
          /\ \A b \in inflight : \A x \in Range(b) : x <= offered
      BY DEF Ordered, QueueInOrder
    <3> QED
      BY <1>0, <1>2, <2>2, <2>3, <2>4, <3>1, <3>2 DEF QueueInOrder
  <2>6. BatchIsNewest'
    <3>1. ASSUME NEW i \in DOMAIN batch', NEW j \in DOMAIN batch', i < j PROVE batch'[i] < batch'[j]
      <4>1. /\ \A k \in DOMAIN batch : batch'[k] = batch[k] /\ k \in Nat /\ k < Len(batch) + 1
            /\ \A k \in DOMAIN batch' : k = Len(batch) + 1 \/ k \in DOMAIN batch
            /\ Len(batch) \in Nat /\ batch'[Len(batch) + 1] = n
        BY <1>0, <2>1, AppendFacts
      <4>2. i \in DOMAIN batch
        BY <3>1, <4>1
      <4>3. CASE j \in DOMAIN batch
        BY <3>1, <4>1, <4>2, <4>3 DEF Ordered, BatchIsNewest, Increasing
      <4>4. CASE j = Len(batch) + 1
        BY <2>3, <4>1, <4>2, <4>4 DEF Range
      <4> QED
        BY <4>1, <4>3, <4>4
    <3>2. \A y \in Range(batch) : /\ \A x \in Range(stored) : x < y
                                  /\ \A b \in inflight : \A x \in Range(b) : x < y
      BY DEF Ordered, BatchIsNewest, Current
    <3> QED
      BY <1>0, <2>2, <2>3, <3>1, <3>2 DEF BatchIsNewest, Increasing
  <2> QED
    BY <1>3, <2>5, <2>6 DEF Ordered
<1>5. CASE \E f \in Flushers : Head(queue) = Flush(f) /\ batch' = batch
  <2>1. InQueue' = InQueue
    BY <1>1, <1>5, CommandCases
  <2>2. QueueInOrder'
    BY <1>0, <1>2, <1>5, <2>1 DEF Ordered, QueueInOrder
  <2>3. BatchIsNewest'
    BY <1>0, <1>5 DEF Ordered, BatchIsNewest, Current
  <2> QED
    BY <1>3, <2>2, <2>3 DEF Ordered
<1> QED
  BY <1>4, <1>5, TakeEffect

(* A batch is posted: it is newer than every other request. *)
LEMMA OrderSend ==
    ASSUME TypeOK, Ordered, send
    PROVE  Ordered'
<1>0. /\ loop # "sending" /\ loop' = "sending" /\ inflight' = inflight \cup {batch}
      /\ UNCHANGED <<offered, queue, batch, stored, failed>>
  BY DEF send, Drained, channel
<1>1. /\ \A y \in Range(batch) : y \in Nat
      /\ \A y \in Range(batch) : \A x \in Range(stored) : x \in Nat /\ x < y
      /\ \A y \in Range(batch) : \A b \in inflight : \A x \in Range(b) : x \in Nat /\ x < y
  BY <1>0, OrderTypes DEF Ordered, BatchIsNewest, Current
<1>2. /\ Range(batch) \cap Range(stored) = {}
      /\ \A b \in inflight : Range(batch) \cap Range(b) = {}
  BY <1>1
<1>3. QueueInOrder'
  BY <1>0 DEF Ordered, QueueInOrder, IsActivity, InQueue
<1>4. RequestsApart'
  <2>1. \A b \in inflight : /\ Increasing(b) /\ Range(b) \cap Range(stored) = {} /\ Range(b) \subseteq failed
                            /\ \A other \in inflight : other = b \/ Range(b) \cap Range(other) = {}
    BY <1>0 DEF Ordered, RequestsApart, Current
  <2>2. Increasing(batch)
    BY DEF Ordered, BatchIsNewest
  <2> QED
    BY <1>0, <1>2, <2>1, <2>2 DEF RequestsApart, Current
<1>5. BatchIsNewest'
  BY <1>0, <1>1 DEF Ordered, BatchIsNewest, Current
<1>6. StoredOnceInOrder'
  BY <1>0 DEF Ordered, StoredOnceInOrder
<1> QED
  BY <1>3, <1>4, <1>5, <1>6 DEF Ordered

(* A round ends: codex has given up on the request if it is still under way. *)
LEMMA OrderFinish ==
    ASSUME TypeOK, Ordered, Finish, failed \subseteq failed',
           loop = "sending" => Range(batch) \ Range(stored) \subseteq failed'
    PROVE  Ordered'
<1>0. /\ loop' = "recv" /\ batch' = <<>> /\ Range(batch') = {} /\ DOMAIN batch' = {}
      /\ UNCHANGED <<offered, queue, inflight, stored>>
  BY DEF Finish, Leftover, Range
<1>1. QueueInOrder'
  BY <1>0 DEF Ordered, QueueInOrder, IsActivity, InQueue
<1>2. RequestsApart'
  BY <1>0 DEF Ordered, RequestsApart, Current
<1>3. BatchIsNewest'
  BY <1>0 DEF BatchIsNewest, Increasing
<1>4. StoredOnceInOrder'
  BY <1>0 DEF Ordered, StoredOnceInOrder
<1> QED
  BY <1>1, <1>2, <1>3, <1>4 DEF Ordered

(* The app handles a request: its records are newer than all in the files, or
   codex had given up on it. *)
LEMMA OrderHandle ==
    ASSUME TypeOK, Ordered, NEW b \in inflight, NEW n \in 0 .. Len(b), handleActivities(b, n)
    PROVE  Ordered'
<1>0. /\ inflight' = inflight \ {b} /\ stored' = stored \o SubSeq(b, 1, n)
      /\ UNCHANGED <<offered, queue, loop, batch, failed>>
      /\ b \in Seq(Records) /\ stored \in Seq(Records)
  BY DEF handleActivities, channel, TypeOK
<1>1. /\ Len(stored) \in Nat
      /\ \A i \in DOMAIN stored : i \in Nat /\ i <= Len(stored) /\ stored'[i] = stored[i]
      /\ \A i \in DOMAIN stored' : i \in Nat /\ (i \in DOMAIN stored \/
            (i > Len(stored) /\ i - Len(stored) \in DOMAIN b /\ stored'[i] = b[i - Len(stored)]))
      /\ Range(stored') \subseteq Range(stored) \cup Range(b)
  BY <1>0, WriteFacts
<1>2. QueueInOrder'
  <2>1. InQueue' = InQueue /\ \A i : IsActivity(i)' <=> IsActivity(i)
    BY <1>0 DEF InQueue, IsActivity
  <2>2. /\ \A m \in InQueue : \A x \in Range(batch) \cup Range(stored) \cup Range(b) : x < m
        /\ \A x \in Range(batch) \cup Range(stored) \cup Range(b) : x <= offered
    BY DEF Ordered, QueueInOrder
  <2> QED
    BY <1>0, <1>1, <2>1, <2>2 DEF Ordered, QueueInOrder
<1>3. RequestsApart'
  BY <1>0, <1>1 DEF Ordered, RequestsApart, Current
<1>4. BatchIsNewest'
  <2>1. SUFFICES ASSUME loop # "sending" \/ batch \in inflight'
                 PROVE  \A y \in Range(batch) : /\ \A x \in Range(stored) \cup Range(b) : x < y
                                                /\ \A c \in inflight : Current(c) \/ \A x \in Range(c) : x < y
    BY <1>0, <1>1 DEF Ordered, BatchIsNewest, Current
  <2>2. ~Current(b)
    BY <1>0, <2>1 DEF Current
  <2> QED
    BY <1>0, <2>1, <2>2 DEF Ordered, BatchIsNewest
<1>5. ASSUME NEW i \in DOMAIN stored', NEW j \in DOMAIN stored', i < j
      PROVE  stored'[i] < stored'[j] \/ (stored'[i] # stored'[j] /\ stored'[j] \in failed')
  <2>1. CASE j \in DOMAIN stored
    <3>1. i \in DOMAIN stored
      BY <1>1, <1>5, <2>1
    <3> QED
      BY <1>0, <1>1, <1>5, <2>1, <3>1 DEF Ordered, StoredOnceInOrder
  <2>2. CASE i \in DOMAIN stored /\ j \notin DOMAIN stored
    <3>1. stored'[i] \in Range(stored) /\ stored'[j] \in Range(b)
      BY <1>1, <2>2 DEF Range
    <3>2. CASE Current(b)
      BY <3>1, <3>2 DEF Ordered, BatchIsNewest, Current
    <3>3. CASE ~Current(b)
      BY <1>0, <3>1, <3>3 DEF Ordered, RequestsApart
    <3> QED
      BY <3>2, <3>3
  <2>3. CASE i \notin DOMAIN stored /\ j \notin DOMAIN stored
    <3>1. /\ i - Len(stored) \in DOMAIN b /\ stored'[i] = b[i - Len(stored)]
          /\ j - Len(stored) \in DOMAIN b /\ stored'[j] = b[j - Len(stored)]
          /\ i - Len(stored) < j - Len(stored)
      BY <1>1, <1>5, <2>3
    <3> QED
      BY <3>1 DEF Ordered, RequestsApart, Increasing
  <2> QED
    BY <2>1, <2>2, <2>3
<1> QED
  BY <1>2, <1>3, <1>4, <1>5 DEF Ordered, StoredOnceInOrder

(* Every step keeps the records apart and in their order. *)
LEMMA OrderStep ==
    ASSUME TypeOK, Ordered, [Next]_vars
    PROVE  Ordered'
<1>1. ASSUME NEW f \in Flushers, flush(f) \/ SendFlush(f) PROVE Ordered'
  <2>1. UNCHANGED <<offered, loop, batch, inflight, stored, failed>> /\ (queue' = Append(queue, Flush(f)) \/ queue' = queue)
    BY <1>1 DEF flush, SendFlush
  <2>2. CASE queue' = queue
    BY <2>1, <2>2 DEF Ordered, QueueInOrder, RequestsApart, BatchIsNewest, StoredOnceInOrder, Current, IsActivity, InQueue
  <2> QED
    BY <2>1, <2>2, OrderFlush
<1>2. CASE recv \/ try_recv
  BY <1>2, OrderTake DEF recv, try_recv
<1>3. CASE SkipSend
  BY <1>3, OrderFinish DEF SkipSend, Drained
<1>4. CASE SendEnds
  BY <1>4, OrderFinish DEF SendEnds
<1>5. ASSUME NEW b \in inflight, RequestLost(b) PROVE Ordered'
  <2>1. inflight' \subseteq inflight /\ UNCHANGED <<offered, queue, loop, batch, stored, failed>>
    BY <1>5 DEF RequestLost, channel
  <2> QED
    BY <2>1 DEF Ordered, QueueInOrder, RequestsApart, BatchIsNewest, StoredOnceInOrder, Current, IsActivity, InQueue
<1>6. CASE UNCHANGED vars
  BY <1>6 DEF vars, channel, Ordered, QueueInOrder, RequestsApart, BatchIsNewest, StoredOnceInOrder, Current, IsActivity, InQueue
<1> QED
  BY <1>1, <1>2, <1>3, <1>4, <1>5, <1>6, OrderRecord, OrderSend, OrderHandle DEF Next

-----------------------------------------------------------------------------
(* The theorems *)

(* The empty channel, loop and files satisfy the invariant. *)
LEMMA QueueInit ==
    ASSUME Init
    PROVE  IInv
<1>1. InQueue = {} /\ Range(batch) = {} /\ Range(stored) = {} /\ Granted = {} /\ DOMAIN queue = {} /\ DOMAIN batch = {}
      /\ DOMAIN stored = {}
  BY DEF Init, InQueue, Range, Granted
<1>2. Len(queue) = 0 /\ Len(batch) = 0 /\ Cardinality(Granted) = 0
  BY <1>1, FS_EmptySet DEF Init
<1>3. TypeOK
  BY <1>2, QueueAssumption DEF Init, TypeOK, Records
<1>4. FlushIsBehind /\ FlushCoversEarlierRecords
  BY <1>1, QueueAssumption DEF Init, FlushIsBehind, IsBehind, FlushCoversEarlierRecords
<1>5. QueueInOrder /\ RequestsApart /\ BatchIsNewest /\ StoredOnceInOrder
  BY <1>1 DEF Init, QueueInOrder, RequestsApart, BatchIsNewest, StoredOnceInOrder, Increasing
<1> QED
  BY <1>1, <1>3, <1>4, <1>5 DEF Init, IInv, RoundStartsEmpty, NothingVanishes

(* The conjunction holds in every reachable state of the channel, the loop and
   the app's files. *)
THEOREM QueueInvariant == Spec => []IInv
<1>1. IInv /\ [Next]_vars => IInv'
  BY TypeStep, NothingVanishesStep, FlushStep, OrderStep DEF IInv, Ordered
<1> QED
  BY <1>1, QueueInit, PTL DEF Spec

(* The channel of record_loop never holds more than QUEUE_DEPTH commands and
   permits, and a batch never more than MAX_BATCH records. *)
THEOREM QueueTyped == Spec => []TypeOK
<1>1. IInv => TypeOK
  BY DEF IInv
<1> QED
  BY <1>1, QueueInvariant, PTL

(* A record that record() accepted is lost by a failed request only. *)
THEOREM QueueNothingVanishes == Spec => []NothingVanishes
<1>1. IInv => NothingVanishes
  BY DEF IInv
<1> QED
  BY <1>1, QueueInvariant, PTL

(* flush() returns after every record that was made before it was called has
   been dealt with, also when it had to wait for a permit. *)
THEOREM QueueFlushCovers == Spec => []FlushCoversEarlierRecords
<1>1. IInv => FlushCoversEarlierRecords
  BY DEF IInv
<1> QED
  BY <1>1, QueueInvariant, PTL

(* The app's files hold a record at most once, and out of order only when the
   request that brought it had been given up on. *)
THEOREM QueueStoredInOrder == Spec => []StoredOnceInOrder
<1>1. IInv => StoredOnceInOrder
  BY DEF IInv
<1> QED
  BY <1>1, QueueInvariant, PTL
=============================================================================
