---------------------------- MODULE IslandProofs ----------------------------
(***************************************************************************)
(* Proofs about Island, for any number of questions and flashes.           *)
(***************************************************************************)
EXTENDS Island, QueueFacts

-----------------------------------------------------------------------------
(* The inductive invariant *)

(* Nobody has sent a decision on question n. *)
Undecided(n) == \A d \in decisions : d.id # n

(* Every waiting question is queued behind every queued flash. *)
FlashesGoFirst ==
    \A i \in DOMAIN scripts : scripts[i] = FlashOp =>
        \A n \in pending : \E j \in DOMAIN scripts : i < j /\ scripts[j] = Show(n)

(* A question is sent to the page once and its height comes back once; on its
   way to the page it waits undecided. *)
SentOnce ==
    /\ \A i, j \in DOMAIN scripts : scripts[i] = scripts[j] /\ scripts[i] # FlashOp => i = j
    /\ \A i, j \in DOMAIN results : results[i] = results[j] /\ results[i] # FlashOp => i = j
    /\ \A n \in Ids : Queued(Show(n), scripts) =>
        n \in pending /\ n # shown /\ Undecided(n) /\ ~Queued(Show(n), results)

(* A question whose height is on its way back waits undecided, and so does the
   one on the page unless it was denied for want of a window; a decision is
   about a question that was asked. *)
OnPageWaits ==
    /\ \A d \in decisions : d.id <= seq
    /\ shown <= seq
    /\ shown \in pending => Undecided(shown)
    /\ \A n \in Ids : Queued(Show(n), results) => n \in pending /\ Undecided(n)

(* A page that is not loaded has shown nothing and asked nobody. *)
UnloadedIsIdle == islandReady # "ready" => shown = 0 /\ results = <<>> /\ decisions = {}

IInv ==
    /\ TypeOK
    /\ FlashNeverCoversQuestion /\ QuestionStaysOnScreen /\ HiddenWhenIdle
    /\ FlashesGoFirst /\ SentOnce /\ OnPageWaits /\ UnloadedIsIdle

-----------------------------------------------------------------------------
(* Lemmas on scripts and queues *)

(* A script is the flash or the show of one question, never both. *)
LEMMA ScriptCases ==
    /\ \A n : Show(n) # FlashOp
    /\ \A m, n : Show(m) = Show(n) => m = n
    /\ \A s \in Scripts : \/ s = FlashOp /\ s.op = "flash" /\ s.id = 0
                          \/ s = Show(s.id) /\ s.op = "show" /\ s.id \in Ids /\ s.id # 0
<1>1. \A n : Show(n) # FlashOp
  <2>1. \A n : Show(n).op = "show" /\ FlashOp.op = "flash"
    BY DEF Show, FlashOp
  <2> QED
    BY <2>1
<1>2. \A m, n : Show(m) = Show(n) => m = n
  <2>1. \A n : Show(n).id = n
    BY DEF Show
  <2> QED
    BY <2>1
<1>3. ASSUME NEW s \in Scripts
      PROVE  \/ s = FlashOp /\ s.op = "flash" /\ s.id = 0
             \/ s = Show(s.id) /\ s.op = "show" /\ s.id \in Ids /\ s.id # 0
  BY IslandAssumption DEF Scripts, Show, FlashOp, Ids
<1> QED
  BY <1>1, <1>2, <1>3

(* What the removal of the first element does to a queue. *)
LEMMA TailQueue ==
    ASSUME NEW S, NEW q \in Seq(S), q # <<>>
    PROVE  /\ Head(q) \in S /\ Tail(q) \in Seq(S) /\ 1 \in DOMAIN q /\ Head(q) = q[1]
           /\ \A i \in DOMAIN Tail(q) : i + 1 \in DOMAIN q /\ Tail(q)[i] = q[i + 1]
           /\ \A i \in DOMAIN q : i = 1 \/ (i - 1 \in DOMAIN Tail(q) /\ Tail(q)[i - 1] = q[i])
           /\ \A s : Queued(s, Tail(q)) => Queued(s, q)
           /\ \A s : Queued(s, q) => s = Head(q) \/ Queued(s, Tail(q))
<1>1. /\ Head(q) \in S /\ Tail(q) \in Seq(S) /\ 1 \in DOMAIN q /\ Head(q) = q[1]
      /\ \A i \in DOMAIN Tail(q) : i + 1 \in DOMAIN q /\ Tail(q)[i] = q[i + 1]
      /\ \A i \in DOMAIN q : i = 1 \/ (i - 1 \in DOMAIN Tail(q) /\ Tail(q)[i - 1] = q[i])
  BY TailFacts
<1> QED
  BY <1>1, ZenonT(60) DEF Queued

(* What an element added at the end does to a queue. *)
LEMMA AppendQueue ==
    ASSUME NEW S, NEW q \in Seq(S), NEW e \in S
    PROVE  /\ Append(q, e) \in Seq(S)
           /\ \A i \in DOMAIN q : i \in DOMAIN Append(q, e) /\ Append(q, e)[i] = q[i]
           /\ Len(q) + 1 \in DOMAIN Append(q, e) /\ Append(q, e)[Len(q) + 1] = e
           /\ \A i \in DOMAIN Append(q, e) : i = Len(q) + 1 \/ i \in DOMAIN q
           /\ \A i \in DOMAIN q : i \in Nat /\ i < Len(q) + 1
           /\ \A s : Queued(s, Append(q, e)) <=> (Queued(s, q) \/ s = e)
  BY AppendFacts DEF Queued

-----------------------------------------------------------------------------
(* What a settle, or a script that comes to nothing, may do to the app: with a
   question left the window stays as it is, and with the last one it goes
   unless a write threw. *)
WindowFollows ==
    /\ pending' \subseteq pending
    /\ answer' \in [Ids -> {"none", "allow", "deny", "lost"}]
    /\ visible' \in BOOLEAN /\ skipped' \in BOOLEAN
    /\ pending' # {} => visible' = visible
    /\ pending = {} => visible' = visible /\ skipped' = skipped
    /\ pending # {} /\ pending' = {} => ~visible' \/ skipped'

(* What settle does, when the question waits and when it does not. *)
LEMMA SettleEffect ==
    ASSUME TypeOK, NEW n \in Ids, NEW allow \in BOOLEAN, NEW f \in Faults, settle(n, allow, f)
    PROVE  pending' = pending \ {n} /\ WindowFollows
<1>1. CASE n \in pending
  <2>1. pending' = pending \ {n} /\ answer' \in [Ids -> {"none", "allow", "deny", "lost"}]
    BY <1>1 DEF settle, Told, TypeOK
  <2>2. CASE f = "none"
    BY <1>1, <2>1, <2>2 DEF settle, HideWhenDone, WindowFollows, TypeOK
  <2>3. CASE f # "none"
    BY <1>1, <2>1, <2>3 DEF settle, WindowFollows, TypeOK
  <2> QED
    BY <2>2, <2>3
<1>2. CASE n \notin pending
  BY <1>2 DEF settle, WindowFollows, TypeOK
<1> QED
  BY <1>1, <1>2

(* A script without a page, or without a window, settles its question and
   nothing else. *)
LEMMA UnrenderedEffect ==
    ASSUME TypeOK, NEW s \in Scripts, NEW f \in Faults, Unrendered(s, f)
    PROVE  /\ WindowFollows
           /\ \/ s = FlashOp /\ pending' = pending
              \/ \E n \in Ids : s = Show(n) /\ pending' = pending \ {n}
<1>1. CASE s = FlashOp
  BY <1>1, ScriptCases DEF Unrendered, WindowFollows, TypeOK
<1>2. CASE s = Show(s.id) /\ s.op = "show" /\ s.id \in Ids
  BY <1>2, SettleEffect DEF Unrendered
<1> QED
  BY <1>1, <1>2, ScriptCases

(* A decision names a question and an answer. *)
LEMMA DecisionEffect ==
    ASSUME TypeOK, NEW d \in decisions, NEW f \in Faults, handleDecision(d, f)
    PROVE  d.id \in Ids /\ pending' = pending \ {d.id} /\ WindowFollows
<1>1. d.id \in Ids /\ d.allow \in BOOLEAN /\ settle(d.id, d.allow, f)
  BY DEF handleDecision, TypeOK
<1> QED
  BY <1>1, SettleEffect

(* What ScriptFails does to the queue and the map. *)
LEMMA ScriptFailsEffect ==
    ASSUME TypeOK, NEW f \in Faults, ScriptFails(f)
    PROVE  /\ scripts # <<>> /\ Head(scripts) \in Scripts /\ WindowFollows
           /\ \/ Head(scripts) = FlashOp /\ pending' = pending
              \/ \E n \in Ids : Head(scripts) = Show(n) /\ pending' = pending \ {n}
<1>1. scripts # <<>> /\ Head(scripts) \in Scripts /\ Unrendered(Head(scripts), f)
  BY TailQueue DEF ScriptFails, TypeOK
<1> QED
  BY <1>1, UnrenderedEffect

(* What PlaceFails does to the queue and the map. *)
LEMMA PlaceFailsEffect ==
    ASSUME TypeOK, NEW f \in Faults, PlaceFails(f)
    PROVE  /\ results # <<>> /\ Head(results) \in Scripts /\ WindowFollows
           /\ \/ Head(results) = FlashOp /\ pending' = pending
              \/ \E n \in Ids : Head(results) = Show(n) /\ pending' = pending \ {n}
<1>1. results # <<>> /\ Head(results) \in Scripts /\ Unrendered(Head(results), f)
  BY TailQueue DEF PlaceFails, TypeOK
<1> QED
  BY <1>1, UnrenderedEffect

(* Every step keeps the types. *)
LEMMA TypeStep ==
    ASSUME TypeOK, [Next]_vars
    PROVE  TypeOK'
<1> USE IslandAssumption DEF TypeOK
<1>1. CASE askIsland
  <2>1. seq + 1 \in Ids
    BY <1>1 DEF askIsland, Ids
  <2>2. Show(seq + 1) \in Scripts
    BY <2>1 DEF Scripts
  <2>3. scripts' \in Seq(Scripts)
    BY <1>1, <2>2, AppendQueue DEF askIsland
  <2>4. pending' \subseteq 1 .. seq' /\ seq' \in 0 .. MaxAsks
    BY <1>1 DEF askIsland
  <2> QED
    BY <1>1, <2>3, <2>4 DEF askIsland, page
<1>2. CASE flashIsland
  <2>1. FlashOp \in Scripts
    BY DEF Scripts
  <2>2. scripts' \in Seq(Scripts)
    BY <1>2, <2>1, AppendQueue DEF flashIsland
  <2> QED
    BY <1>2, <2>2 DEF flashIsland, page
<1>3. ASSUME NEW d \in decisions, NEW f \in Faults, handleDecision(d, f) PROVE TypeOK'
  <2>1. WindowFollows
    BY <1>3, DecisionEffect
  <2>2. decisions' \subseteq [id : Ids, allow : BOOLEAN]
    BY <1>3 DEF handleDecision
  <2> QED
    BY <1>3, <2>1, <2>2 DEF handleDecision, page, WindowFollows
<1>4. ASSUME NEW outcome \in {"ready", "failed"}, LoadPage(outcome) PROVE TypeOK'
  BY <1>4 DEF LoadPage, page
<1>5. ASSUME NEW f \in Faults, ScriptFails(f) PROVE TypeOK'
  <2>1. scripts' \in Seq(Scripts)
    BY <1>5, TailQueue DEF ScriptFails
  <2>2. WindowFollows
    BY <1>5, ScriptFailsEffect
  <2> QED
    BY <1>5, <2>1, <2>2 DEF ScriptFails, page, WindowFollows
<1>11. ASSUME NEW f \in Faults, PlaceFails(f) PROVE TypeOK'
  <2>1. results' \in Seq(Scripts)
    BY <1>11, TailQueue DEF PlaceFails
  <2>2. WindowFollows
    BY <1>11, PlaceFailsEffect
  <2> QED
    BY <1>11, <2>1, <2>2 DEF PlaceFails, page, WindowFollows
<1>6. CASE placeIsland
  <2>1. results' \in Seq(Scripts)
    BY <1>6, TailQueue DEF placeIsland
  <2> QED
    BY <1>6, <2>1 DEF placeIsland, page
<1>7. CASE FlashTimeout
  BY <1>7 DEF FlashTimeout, page
<1>8. CASE RunScript
  <2>1. Head(scripts) \in Scripts /\ scripts' \in Seq(Scripts)
    BY <1>8, TailQueue DEF RunScript
  <2>2. results' \in Seq(Scripts)
    BY <1>8, <2>1, AppendQueue DEF RunScript
  <2>3. shown' \in Ids \cup {0}
    BY <1>8, <2>1, ScriptCases DEF RunScript
  <2> QED
    BY <1>8, <2>1, <2>2, <2>3 DEF RunScript, app
<1>9. ASSUME NEW allow \in BOOLEAN, decide(allow) PROVE TypeOK'
  <2>1. decisions' \subseteq [id : Ids, allow : BOOLEAN]
    BY <1>9 DEF decide
  <2> QED
    BY <1>9, <2>1 DEF decide, app
<1>10. CASE UNCHANGED vars
  BY <1>10 DEF vars, app, page
<1> QED
  BY <1>1, <1>2, <1>3, <1>4, <1>5, <1>6, <1>7, <1>8, <1>9, <1>10, <1>11 DEF Next, CountdownEnds, Click

-----------------------------------------------------------------------------
(* A flash stays in front of the questions, in the queue and on the page. *)
LEMMA FlashStep ==
    ASSUME TypeOK, FlashesGoFirst, FlashNeverCoversQuestion, [Next]_vars
    PROVE  FlashesGoFirst' /\ FlashNeverCoversQuestion'
<1> USE IslandAssumption DEF FlashesGoFirst, FlashNeverCoversQuestion
<1>0. scripts \in Seq(Scripts) /\ seq \in Nat /\ (\A i \in DOMAIN scripts : i \in Nat)
  BY DEF TypeOK
<1>1. CASE askIsland
  <2>1. Show(seq + 1) \in Scripts
    BY <1>1, <1>0 DEF askIsland, Scripts, Ids
  <2>2. /\ \A i \in DOMAIN scripts : i \in DOMAIN scripts' /\ scripts'[i] = scripts[i]
        /\ Len(scripts) + 1 \in DOMAIN scripts' /\ scripts'[Len(scripts) + 1] = Show(seq + 1)
        /\ \A i \in DOMAIN scripts' : i = Len(scripts) + 1 \/ i \in DOMAIN scripts
        /\ \A i \in DOMAIN scripts : i < Len(scripts) + 1
        /\ \A s : Queued(s, scripts') <=> (Queued(s, scripts) \/ s = Show(seq + 1))
    BY <1>0, <1>1, <2>1, AppendQueue DEF askIsland
  <2>3. FlashesGoFirst'
    <3> SUFFICES ASSUME NEW i \in DOMAIN scripts', scripts'[i] = FlashOp, NEW n \in pending'
                 PROVE  \E j \in DOMAIN scripts' : i < j /\ scripts'[j] = Show(n)'
      OBVIOUS
    <3>1. i \in DOMAIN scripts /\ scripts[i] = FlashOp
      BY <2>2, ScriptCases
    <3>2. Show(n)' = Show(n)
      BY DEF Show
    <3>3. CASE n = seq + 1
      BY <2>2, <3>1, <3>2, <3>3
    <3>4. CASE n \in pending
      <4>1. PICK j \in DOMAIN scripts : i < j /\ scripts[j] = Show(n)
        BY <3>1, <3>4
      <4> QED
        BY <2>2, <3>2, <4>1
    <3> QED
      BY <1>1, <3>3, <3>4 DEF askIsland
  <2>4. FlashNeverCoversQuestion'
    BY <1>1, <2>2 DEF askIsland, page, Show
  <2> QED
    BY <2>3, <2>4
<1>2. CASE flashIsland
  BY <1>2 DEF flashIsland, MayFlash, page, Show, FlashOp, Queued
<1>3. CASE UNCHANGED <<scripts, card>> /\ pending' \subseteq pending
  BY <1>3 DEF Show, FlashOp, Queued
<1>4. CASE (\E f \in Faults : ScriptFails(f)) \/ RunScript
  <2>1. Head(scripts) \in Scripts /\ scripts # <<>> /\ scripts' = Tail(scripts)
    BY <1>0, <1>4, TailQueue DEF ScriptFails, RunScript
  <2>2. /\ 1 \in DOMAIN scripts /\ Head(scripts) = scripts[1]
        /\ \A i \in DOMAIN scripts' : i + 1 \in DOMAIN scripts /\ scripts'[i] = scripts[i + 1]
        /\ \A i \in DOMAIN scripts : i = 1 \/ (i - 1 \in DOMAIN scripts' /\ scripts'[i - 1] = scripts[i])
        /\ \A s : Queued(s, scripts) => s = Head(scripts) \/ Queued(s, scripts')
    BY <1>0, <2>1, TailQueue
  <2>3. \A i \in DOMAIN scripts' : i \in Nat /\ i > 0
    BY <1>0, <2>1
  <2>4. pending' \subseteq pending
    <3>1. CASE \E f \in Faults : ScriptFails(f)
      BY <3>1, ScriptFailsEffect
    <3>2. CASE RunScript
      BY <3>2 DEF RunScript, app
    <3> QED
      BY <1>4, <3>1, <3>2
  <2>5. FlashesGoFirst'
    <3> SUFFICES ASSUME NEW i \in DOMAIN scripts', scripts'[i] = FlashOp, NEW n \in pending'
                 PROVE  \E j \in DOMAIN scripts' : i < j /\ scripts'[j] = Show(n)'
      OBVIOUS
    <3>1. i + 1 \in DOMAIN scripts /\ scripts[i + 1] = FlashOp
      BY <2>2
    <3>2. PICK j \in DOMAIN scripts : i + 1 < j /\ scripts[j] = Show(n)
      BY <2>4, <3>1
    <3>3. j - 1 \in DOMAIN scripts' /\ scripts'[j - 1] = Show(n) /\ i < j - 1
      BY <1>0, <2>2, <2>3, <3>2
    <3> QED
      BY <3>3 DEF Show
  <2>6. FlashNeverCoversQuestion'
    <3> SUFFICES ASSUME card' = "flash", NEW n \in pending'
                 PROVE  Queued(Show(n), scripts')
      BY DEF Show
    <3>1. CASE RunScript
      <4>1. Head(scripts) = FlashOp
        BY <2>1, <3>1, ScriptCases DEF RunScript
      <4>2. PICK j \in DOMAIN scripts : 1 < j /\ scripts[j] = Show(n)
        BY <2>2, <2>4, <4>1
      <4> QED
        BY <1>0, <2>2, <4>2 DEF Queued
    <3>2. ASSUME NEW f \in Faults, ScriptFails(f) PROVE Queued(Show(n), scripts')
      <4>1. Queued(Show(n), scripts)
        BY <2>4, <3>2 DEF ScriptFails, page
      <4>2. Show(n) # Head(scripts)
        BY <3>2, ScriptFailsEffect, ScriptCases
      <4> QED
        BY <2>2, <4>1, <4>2
    <3> QED
      BY <1>4, <3>1, <3>2
  <2> QED
    BY <2>5, <2>6
<1>5. ASSUME [Next]_vars
      PROVE  \/ askIsland \/ flashIsland \/ (\E f \in Faults : ScriptFails(f)) \/ RunScript
             \/ UNCHANGED <<scripts, card>> /\ pending' \subseteq pending
  <2>1. ASSUME NEW d \in decisions, NEW f \in Faults, handleDecision(d, f)
        PROVE  UNCHANGED <<scripts, card>> /\ pending' \subseteq pending
    BY <2>1, DecisionEffect DEF handleDecision, page
  <2>2. ASSUME NEW f \in Faults, PlaceFails(f)
        PROVE  UNCHANGED <<scripts, card>> /\ pending' \subseteq pending
    BY <2>2, PlaceFailsEffect DEF PlaceFails, page
  <2> QED
    BY <1>5, <2>1, <2>2
    DEF Next, LoadPage, placeIsland, FlashTimeout, CountdownEnds, Click, decide, vars, app, page
<1> QED
  BY <1>1, <1>2, <1>3, <1>4, <1>5

(* A question is still sent to the page once, and a question that waits for
   the page, is on it or was just rendered by it is neither settled nor decided. *)
LEMMA WaitStep ==
    ASSUME TypeOK, SentOnce, OnPageWaits, UnloadedIsIdle, [Next]_vars
    PROVE  SentOnce' /\ OnPageWaits' /\ UnloadedIsIdle'
<1> USE IslandAssumption
<1>0. /\ scripts \in Seq(Scripts) /\ results \in Seq(Scripts) /\ seq \in Nat
      /\ (\A i \in DOMAIN scripts : i \in Nat) /\ (\A i \in DOMAIN results : i \in Nat)
      /\ pending \subseteq 1 .. seq /\ decisions \subseteq [id : Ids, allow : BOOLEAN]
      /\ shown \in Ids \cup {0} /\ 0 \notin Ids /\ Ids \subseteq Nat
  BY DEF TypeOK, Ids
<1>1. CASE askIsland
  <2>1. seq + 1 \in Ids /\ Show(seq + 1) \in Scripts /\ seq + 1 \notin pending
    BY <1>1, <1>0 DEF askIsland, Scripts, Ids
  <2>2. /\ shown # seq + 1 /\ Undecided(seq + 1)
        /\ ~Queued(Show(seq + 1), scripts) /\ ~Queued(Show(seq + 1), results)
    BY <1>0, <2>1 DEF OnPageWaits, SentOnce, Undecided
  <2>3. /\ \A i \in DOMAIN scripts : i \in DOMAIN scripts' /\ scripts'[i] = scripts[i]
        /\ Len(scripts) + 1 \in DOMAIN scripts' /\ scripts'[Len(scripts) + 1] = Show(seq + 1)
        /\ \A i \in DOMAIN scripts' : i = Len(scripts) + 1 \/ i \in DOMAIN scripts
        /\ \A s : Queued(s, scripts') <=> (Queued(s, scripts) \/ s = Show(seq + 1))
    BY <1>0, <1>1, <2>1, AppendQueue DEF askIsland
  <2>4. \A i, j \in DOMAIN scripts' : scripts'[i] = scripts'[j] /\ scripts'[i] # FlashOp => i = j
    BY <2>2, <2>3 DEF SentOnce, Queued
  <2>5. \A n \in Ids : Queued(Show(n), scripts') =>
            n \in pending' /\ n # shown /\ Undecided(n) /\ ~Queued(Show(n), results)
    BY <1>1, <2>2, <2>3, ScriptCases DEF askIsland, SentOnce
  <2>6. SentOnce'
    BY <1>1, <2>4, <2>5 DEF askIsland, page, SentOnce, Undecided, Show, FlashOp, Queued
  <2>7. OnPageWaits'
    <3>1. \A d \in decisions : d.id <= seq + 1
      <4>1. \A d \in decisions : d.id \in Nat /\ d.id <= seq
        BY <1>0 DEF OnPageWaits
      <4> QED
        BY <1>0, <4>1
    <3>2. shown <= seq + 1 /\ (shown \in pending' => shown \in pending)
      BY <1>0, <1>1, <2>2 DEF askIsland, OnPageWaits, Ids
    <3> QED
      BY <1>1, <3>1, <3>2 DEF askIsland, page, OnPageWaits, Undecided, Show, Queued
  <2> QED
    BY <1>1, <2>6, <2>7 DEF askIsland, page, UnloadedIsIdle
<1>2. CASE flashIsland
  <2>1. FlashOp \in Scripts
    BY DEF Scripts
  <2>2. CASE scripts' = scripts
    BY <1>2, <2>2
    DEF flashIsland, page, SentOnce, OnPageWaits, UnloadedIsIdle, Undecided, Show, FlashOp, Queued
  <2>3. CASE scripts' = Append(scripts, FlashOp)
    <3>1. /\ \A i \in DOMAIN scripts : scripts'[i] = scripts[i]
          /\ scripts'[Len(scripts) + 1] = FlashOp
          /\ \A i \in DOMAIN scripts' : i = Len(scripts) + 1 \/ i \in DOMAIN scripts
          /\ \A s : Queued(s, scripts') <=> (Queued(s, scripts) \/ s = FlashOp)
      BY <1>0, <2>1, <2>3, AppendQueue
    <3>2. \A i, j \in DOMAIN scripts' : scripts'[i] = scripts'[j] /\ scripts'[i] # FlashOp => i = j
      BY <3>1 DEF SentOnce
    <3>3. \A n \in Ids : Queued(Show(n), scripts') =>
              n \in pending /\ n # shown /\ Undecided(n) /\ ~Queued(Show(n), results)
      BY <3>1, ScriptCases DEF SentOnce
    <3> QED
      BY <1>2, <3>2, <3>3
      DEF flashIsland, page, SentOnce, OnPageWaits, UnloadedIsIdle, Undecided, Show, FlashOp, Queued
  <2> QED
    BY <1>2, <2>2, <2>3 DEF flashIsland
<1>3. ASSUME NEW d \in decisions, NEW f \in Faults, handleDecision(d, f)
      PROVE  SentOnce' /\ OnPageWaits' /\ UnloadedIsIdle'
  <2>1. d.id \in Ids /\ pending' = pending \ {d.id} /\ ~Undecided(d.id) /\ decisions' \subseteq decisions
    BY <1>3, DecisionEffect DEF Undecided, handleDecision
  <2> QED
    BY <1>3, <2>1
    DEF handleDecision, page, SentOnce, OnPageWaits, UnloadedIsIdle, Undecided, Show, FlashOp, Queued
<1>4. CASE \E outcome \in {"ready", "failed"} : LoadPage(outcome)
  BY <1>4
  DEF LoadPage, page, SentOnce, OnPageWaits, UnloadedIsIdle, Undecided, Show, FlashOp, Queued
<1>5. CASE (\E f \in Faults : ScriptFails(f)) \/ RunScript
  <2>1. Head(scripts) \in Scripts /\ scripts # <<>> /\ scripts' = Tail(scripts)
    BY <1>0, <1>5, TailQueue DEF ScriptFails, RunScript
  <2>2. /\ 1 \in DOMAIN scripts /\ Head(scripts) = scripts[1]
        /\ \A i \in DOMAIN scripts' : i + 1 \in DOMAIN scripts /\ scripts'[i] = scripts[i + 1]
        /\ \A s : Queued(s, scripts') => Queued(s, scripts)
    BY <1>0, <2>1, TailQueue
  <2>3. \A i \in DOMAIN scripts' : i \in Nat /\ i > 0
    BY <1>0, <2>1
  <2>4. \A i, j \in DOMAIN scripts' : scripts'[i] = scripts'[j] /\ scripts'[i] # FlashOp => i = j
    BY <2>2, <2>3 DEF SentOnce
  <2>5. \A n \in Ids : Queued(Show(n), scripts') => Head(scripts) # Show(n)
    <3> SUFFICES ASSUME NEW n \in Ids, NEW i \in DOMAIN scripts', scripts'[i] = Show(n),
                        Head(scripts) = Show(n)
                 PROVE  FALSE
      BY DEF Queued
    <3>1. i + 1 \in DOMAIN scripts /\ scripts[i + 1] = Show(n) /\ scripts[1] = Show(n)
      BY <2>2
    <3> QED
      BY <2>2, <2>3, <3>1, ScriptCases DEF SentOnce
  <2>6. ASSUME NEW f \in Faults, ScriptFails(f)
        PROVE  SentOnce' /\ OnPageWaits' /\ UnloadedIsIdle'
    <3>1. UNCHANGED <<seq, islandReady, shown, results, decisions>> /\ pending' \subseteq pending
      BY <2>6, ScriptFailsEffect DEF ScriptFails, page, WindowFollows
    <3>2. \A n \in Ids : Queued(Show(n), scripts') \/ Queued(Show(n), results) => n \in pending'
      <4>1. CASE pending' = pending
        BY <2>2, <4>1 DEF SentOnce, OnPageWaits
      <4>2. ASSUME NEW m \in Ids, Head(scripts) = Show(m), pending' = pending \ {m}
            PROVE  \A n \in Ids : Queued(Show(n), scripts') \/ Queued(Show(n), results) => n \in pending'
        <5>1. ~Queued(Show(m), results) /\ ~Queued(Show(m), scripts')
          BY <2>2, <2>5, <4>2 DEF SentOnce, Queued
        <5> QED
          BY <2>2, <4>2, <5>1 DEF SentOnce, OnPageWaits
      <4> QED
        BY <2>6, <4>1, <4>2, ScriptFailsEffect
    <3>3. \A n \in Ids : Queued(Show(n), scripts') =>
              n \in pending' /\ n # shown /\ Undecided(n) /\ ~Queued(Show(n), results)
      BY <2>2, <3>2 DEF SentOnce
    <3>4. SentOnce'
      BY <2>4, <3>1, <3>3 DEF SentOnce, Undecided, Show, FlashOp, Queued
    <3> QED
      BY <3>1, <3>2, <3>4 DEF OnPageWaits, UnloadedIsIdle, Undecided, Show, Queued
  <2>7. CASE RunScript
    <3>1. /\ \A s : Queued(s, results') <=> (Queued(s, results) \/ s = Head(scripts))
          /\ \A i \in DOMAIN results : results'[i] = results[i]
          /\ results'[Len(results) + 1] = Head(scripts)
          /\ \A i \in DOMAIN results' : i = Len(results) + 1 \/ i \in DOMAIN results
      BY <1>0, <2>1, <2>7, AppendQueue DEF RunScript
    <3>2. \A n \in Ids : Queued(Show(n), results') => n \in pending /\ Undecided(n)
      BY <2>2, <3>1 DEF SentOnce, OnPageWaits, Queued
    <3>3. \A n \in Ids : Queued(Show(n), scripts') =>
              n \in pending /\ n # shown' /\ Undecided(n) /\ ~Queued(Show(n), results')
      BY <2>1, <2>2, <2>5, <2>7, <3>1, <1>0, ScriptCases DEF RunScript, SentOnce
    <3>4. (shown' \in pending => Undecided(shown')) /\ shown' <= seq
      <4>1. CASE shown' = 0
        BY <1>0, <4>1
      <4>2. CASE shown' # 0
        <5>1. shown' \in Ids /\ Queued(Show(shown'), results')
          BY <2>1, <2>7, <3>1, <4>2, ScriptCases DEF RunScript
        <5> QED
          BY <1>0, <3>2, <5>1
      <4> QED
        BY <4>1, <4>2
    <3>5. \A i, j \in DOMAIN results' : results'[i] = results'[j] /\ results'[i] # FlashOp => i = j
      <4>1. Head(scripts) = FlashOp \/ ~Queued(Head(scripts), results)
        <5>1. CASE Head(scripts) # FlashOp
          <6>1. PICK n \in Ids : Head(scripts) = Show(n)
            BY <2>1, <5>1, ScriptCases
          <6> QED
            BY <2>2, <6>1 DEF SentOnce, Queued
        <5> QED
          BY <5>1
      <4> QED
        BY <3>1, <4>1 DEF SentOnce, Queued
    <3> QED
      BY <2>4, <2>7, <3>2, <3>3, <3>4, <3>5
      DEF RunScript, app, SentOnce, OnPageWaits, UnloadedIsIdle, Undecided, Show, FlashOp, Queued
  <2> QED
    BY <1>5, <2>6, <2>7
<1>6. CASE placeIsland \/ \E f \in Faults : PlaceFails(f)
  <2>1. Head(results) \in Scripts /\ results # <<>> /\ results' = Tail(results)
    BY <1>0, <1>6, TailQueue DEF placeIsland, PlaceFails
  <2>2. /\ 1 \in DOMAIN results /\ Head(results) = results[1]
        /\ \A i \in DOMAIN results' : i + 1 \in DOMAIN results /\ results'[i] = results[i + 1]
        /\ \A s : Queued(s, results') => Queued(s, results)
    BY <1>0, <2>1, TailQueue
  <2>3. \A i \in DOMAIN results' : i \in Nat /\ i > 0
    BY <1>0, <2>1
  <2>4. \A i, j \in DOMAIN results' : results'[i] = results'[j] /\ results'[i] # FlashOp => i = j
    BY <2>2, <2>3 DEF SentOnce
  <2>5. UNCHANGED <<seq, islandReady, shown, scripts, decisions>>
    BY <1>6 DEF placeIsland, PlaceFails, page
  <2>6. /\ pending' \subseteq pending
        /\ \A n \in Ids : Queued(Show(n), scripts) \/ Queued(Show(n), results') => n \in pending'
    <3>1. CASE pending' = pending
      BY <2>2, <3>1 DEF SentOnce, OnPageWaits
    <3>2. ASSUME NEW m \in Ids, Head(results) = Show(m), pending' = pending \ {m}
          PROVE  \A n \in Ids : Queued(Show(n), scripts) \/ Queued(Show(n), results') => n \in pending'
      <4>1. ~Queued(Show(m), scripts)
        BY <2>2, <3>2 DEF SentOnce, Queued
      <4>2. ~Queued(Show(m), results')
        <5> SUFFICES ASSUME NEW i \in DOMAIN results', results'[i] = Show(m) PROVE FALSE
          BY DEF Queued
        <5>1. i + 1 \in DOMAIN results /\ results[i + 1] = Show(m) /\ results[1] = Show(m)
          BY <2>2, <3>2
        <5> QED
          BY <2>2, <2>3, <5>1, ScriptCases DEF SentOnce
      <4> QED
        BY <2>2, <3>2, <4>1, <4>2 DEF SentOnce, OnPageWaits
    <3> QED
      BY <1>6, <3>1, <3>2, PlaceFailsEffect DEF placeIsland, WindowFollows
  <2>7. SentOnce'
    BY <2>2, <2>4, <2>5, <2>6 DEF SentOnce, Undecided, Show, FlashOp, Queued
  <2>8. OnPageWaits'
    BY <2>2, <2>5, <2>6 DEF OnPageWaits, Undecided, Show, Queued
  <2>9. UnloadedIsIdle'
    BY <2>1, <2>5 DEF UnloadedIsIdle
  <2> QED
    BY <2>7, <2>8, <2>9
<1>7. ASSUME NEW allow \in BOOLEAN, results = <<>>, decide(allow)
      PROVE  SentOnce' /\ OnPageWaits' /\ UnloadedIsIdle'
  <2>1. \A n \in Ids : Queued(Show(n), scripts) => n \in pending /\ n # 0 /\ Undecided(n)'
    BY <1>0, <1>7 DEF decide, SentOnce, Undecided
  <2>3. ~(\E n \in Ids : Queued(Show(n), results))
    BY <1>7 DEF Queued
  <2>2. \A d \in decisions' : d.id <= seq
    BY <1>0, <1>7 DEF decide, OnPageWaits
  <2> QED
    BY <1>0, <1>7, <2>1, <2>2, <2>3
    DEF decide, app, SentOnce, OnPageWaits, UnloadedIsIdle, Show, FlashOp, Queued
<1>8. CASE FlashTimeout \/ UNCHANGED vars
  BY <1>8
  DEF FlashTimeout, vars, app, page, SentOnce, OnPageWaits, UnloadedIsIdle, Undecided, Show, FlashOp, Queued
<1> QED
  BY <1>1, <1>2, <1>3, <1>4, <1>5, <1>6, <1>7, <1>8 DEF Next, CountdownEnds, Click

-----------------------------------------------------------------------------
(* The window of a question that was placed stays, and the window goes away
   with the last question and the last flash. *)
LEMMA WindowStep ==
    ASSUME TypeOK, OnPageWaits, UnloadedIsIdle, QuestionStaysOnScreen, HiddenWhenIdle, [Next]_vars
    PROVE  QuestionStaysOnScreen' /\ HiddenWhenIdle'
<1> USE IslandAssumption DEF QuestionStaysOnScreen, HiddenWhenIdle
<1>0. /\ scripts \in Seq(Scripts) /\ results \in Seq(Scripts)
      /\ shown \in Ids \cup {0} /\ visible \in BOOLEAN /\ flashTimer \in BOOLEAN /\ skipped \in BOOLEAN
      /\ 0 \notin pending /\ shown # seq + 1
  BY DEF TypeOK, OnPageWaits, Ids
<1>1. ASSUME NEW d \in decisions, NEW f \in Faults, handleDecision(d, f)
      PROVE  QuestionStaysOnScreen' /\ HiddenWhenIdle'
  <2>1. d.id \in Ids /\ pending' = pending \ {d.id} /\ WindowFollows
    BY <1>1, DecisionEffect
  <2>2. UNCHANGED <<shown, results, flashTimer>>
    BY <1>1 DEF handleDecision, page
  <2> QED
    BY <2>1, <2>2, <1>0 DEF Show, Queued, WindowFollows
<1>2. ASSUME NEW f \in Faults, ScriptFails(f)
      PROVE  QuestionStaysOnScreen' /\ HiddenWhenIdle'
  <2>1. WindowFollows
    BY <1>2, ScriptFailsEffect
  <2>2. UNCHANGED <<shown, results, flashTimer>>
    BY <1>2 DEF ScriptFails, page
  <2> QED
    BY <2>1, <2>2, <1>0 DEF Show, Queued, WindowFollows
<1>10. ASSUME NEW f \in Faults, PlaceFails(f)
       PROVE  QuestionStaysOnScreen' /\ HiddenWhenIdle'
  <2>1. /\ WindowFollows /\ results # <<>> /\ Head(results) \in Scripts
        /\ \/ Head(results) = FlashOp
           \/ \E n \in Ids : Head(results) = Show(n) /\ pending' = pending \ {n}
    BY <1>10, PlaceFailsEffect
  <2>2. UNCHANGED <<shown, flashTimer>> /\ results' = Tail(results)
    BY <1>10 DEF PlaceFails, page
  <2>3. HiddenWhenIdle'
    BY <2>1, <2>2, <1>0 DEF WindowFollows
  <2>4. ASSUME shown \in pending', ~Queued(Show(shown), results') PROVE visible'
    <3>1. Show(shown) # Head(results)
      BY <2>1, <2>4, ScriptCases
    <3>2. ~Queued(Show(shown), results)
      BY <1>0, <2>1, <2>2, <2>4, <3>1, TailQueue
    <3> QED
      BY <2>1, <2>4, <3>2 DEF WindowFollows
  <2> QED
    BY <2>2, <2>3, <2>4 DEF Show, Queued
<1>3. CASE placeIsland
  <2>1. Head(results) \in Scripts /\ results # <<>>
    BY <1>0, <1>3, TailQueue DEF placeIsland
  <2>2. CASE Head(results) = FlashOp
    BY <1>3, <2>2, ScriptCases, <2>1 DEF placeIsland
  <2>3. CASE \E n \in Ids : Head(results) = Show(n)
    <3>1. PICK n \in Ids : Head(results) = Show(n)
      BY <2>3
    <3>2. Queued(Show(n), results)
      BY <1>0, <2>1, <3>1, TailQueue DEF Queued
    <3>3. pending # {}
      BY <3>2 DEF OnPageWaits
    <3> QED
      BY <1>3, <3>3 DEF placeIsland
  <2> QED
    BY <2>1, <2>2, <2>3, ScriptCases
<1>4. CASE FlashTimeout
  BY <1>4 DEF FlashTimeout, FlashHides, page, OnPageWaits, Show, Queued
<1>5. CASE RunScript
  <2>1. Head(scripts) \in Scripts
    BY <1>0, <1>5, TailQueue DEF RunScript
  <2>2. Queued(Head(scripts), results')
    BY <1>0, <1>5, <2>1, AppendQueue DEF RunScript
  <2>3. shown' # 0 => Head(scripts) = Show(shown')
    BY <1>5, <2>1, ScriptCases DEF RunScript
  <2> QED
    BY <1>0, <1>5, <2>2, <2>3 DEF RunScript, app, Show
<1>6. CASE askIsland \/ flashIsland
  BY <1>0, <1>6 DEF askIsland, flashIsland, page, Show, Queued
<1>7. CASE \E outcome \in {"ready", "failed"} : LoadPage(outcome)
  BY <1>7 DEF LoadPage, page, Show, Queued
<1>8. ASSUME NEW allow \in BOOLEAN, decide(allow)
      PROVE  QuestionStaysOnScreen' /\ HiddenWhenIdle'
  BY <1>0, <1>8 DEF decide, app
<1>9. CASE UNCHANGED vars
  BY <1>9 DEF vars, app, page, Show, Queued
<1> QED
  BY <1>1, <1>2, <1>3, <1>4, <1>5, <1>6, <1>7, <1>8, <1>9, <1>10 DEF Next, CountdownEnds, Click

-----------------------------------------------------------------------------
(* The invariant holds in every state the island reaches. *)
LEMMA IslandIInv == Spec => []IInv
<1>1. Init => IInv
  <2> SUFFICES ASSUME Init PROVE IInv
    OBVIOUS
  <2>1. TypeOK
    <3>1. scripts \in Seq(Scripts) /\ results \in Seq(Scripts)
      BY EmptySeq DEF Init
    <3>2. answer \in [Ids -> {"none", "allow", "deny", "lost"}]
      BY DEF Init
    <3>3. seq \in 0 .. MaxAsks /\ flashes \in 0 .. MaxFlashes
      BY IslandAssumption DEF Init
    <3>4. pending \subseteq 1 .. seq /\ decisions \subseteq [id : Ids, allow : BOOLEAN]
      BY DEF Init
    <3> QED
      BY <3>1, <3>2, <3>3, <3>4 DEF Init, TypeOK
  <2>2. FlashNeverCoversQuestion /\ QuestionStaysOnScreen /\ HiddenWhenIdle
    BY DEF Init, FlashNeverCoversQuestion, QuestionStaysOnScreen, HiddenWhenIdle
  <2>3. FlashesGoFirst /\ SentOnce /\ OnPageWaits /\ UnloadedIsIdle
    BY DEF Init, FlashesGoFirst, SentOnce, OnPageWaits, UnloadedIsIdle, Queued
  <2> QED
    BY <2>1, <2>2, <2>3 DEF IInv
<1>2. IInv /\ [Next]_vars => IInv'
  BY TypeStep, FlashStep, WaitStep, WindowStep DEF IInv
<1> QED
  BY <1>1, <1>2, PTL DEF Spec

(* Type correctness of the window, the page and everything that travels
   between askIsland, flashIsland and island.html. *)
THEOREM IslandTyped == Spec => []TypeOK
  BY IslandIInv, PTL DEF IInv

(* "A flash never appears over a question" (flashIsland's guard): however many
   questions and flashes are asked for, and however late the page loads, a
   flash card is only ever up while the show() of every waiting question is
   still to come. *)
THEOREM IslandFlashYields == Spec => []FlashNeverCoversQuestion
  BY IslandIInv, PTL DEF IInv

(* A waiting question whose window was placed is on screen until settle() is
   called for it: no flash timer, no other question's end and no failed script
   or placement of another one hides it. *)
THEOREM IslandQuestionStays == Spec => []QuestionStaysOnScreen
  BY IslandIInv, PTL DEF IInv

(* Once the last question is settled and the flash timer has fired, the window
   is hidden, whatever heights or scripts are still under way and whatever
   failed before; only a write of settle() that threw for that very question
   (before island.hide()) may have left it up. *)
THEOREM IslandHides == Spec => []HiddenWhenIdle
  BY IslandIInv, PTL DEF IInv
=============================================================================
