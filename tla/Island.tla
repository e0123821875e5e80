------------------------------- MODULE Island -------------------------------
(***************************************************************************)
(* The island: one window and one page shared by every question and every  *)
(* flash.  Two processes: the app (askIsland, flashIsland, settle of       *)
(* src/desktop/main.js) and the page (show, flash, decide of               *)
(* src/desktop/island.html).  They talk over executeJavaScript, which runs *)
(* scripts and delivers their results in order, and over POST /decision,   *)
(* which is a separate connection.  The page is loaded asynchronously and  *)
(* may fail to load; a script may be rejected, a window may fail to be     *)
(* placed, and the file writes of settle() may throw.                      *)
(*                                                                         *)
(* Timing assumption: a person, and the 30 second countdown, are slower    *)
(* than the round trip of executeJavaScript.                               *)
(***************************************************************************)
EXTENDS Naturals, Sequences

CONSTANTS MaxAsks,    \* bound on questions
          MaxFlashes  \* bound on flashes

ASSUME IslandAssumption == MaxAsks \in Nat /\ MaxFlashes \in Nat

VARIABLES
    seq,         \* questions asked so far; their ids are 1 .. seq
    flashes,     \* flashes asked for so far
    pending,     \* ids in the pending map
    answer,      \* id -> what settle answered its caller, "none" before and
                 \* "lost" when a write threw before the answer was given
    islandReady, \* "loading", "ready" or "failed"
    scripts,     \* executeJavaScript calls on their way to the page
    results,     \* results of scripts on their way back
    visible,     \* is the island window shown
    flashTimer,  \* is the timer of a flash running in the app
    skipped,     \* history: the settle of the last question threw on its way
                 \* to island.hide(), and nothing has hidden the window since
    shown,       \* page: id of the question its buttons answer, 0 for null
    timer,       \* page: is the countdown running
    card,        \* page: which card is on screen
    decisions    \* POST /decision requests on their way to the app

app == <<seq, flashes, pending, answer, islandReady, visible, flashTimer, skipped>>
page == <<shown, timer, card>>
vars == <<app, page, scripts, results, decisions>>

Ids == 1 .. MaxAsks
(* Where settle() may throw: "write" is the rules file or the blocked index,
   before the caller is answered; "row" the session row, once it is. *)
Faults == {"none", "write", "row"}
\* mutant: the page is given the id of the next question
Show_Next(n) == [op |-> "show", id |-> n + 1]
Show(n) == [op |-> "show", id |-> n]
FlashOp == [op |-> "flash", id |-> 0]
Scripts == {Show(n) : n \in Ids} \cup {FlashOp}

(* Script s is still in queue q. *)
Queued(s, q) == \E i \in DOMAIN q : q[i] = s

-----------------------------------------------------------------------------
(* The app *)

askIsland ==
    /\ seq < MaxAsks
    /\ seq' = seq + 1
    /\ pending' = pending \cup {seq + 1}
    /\ flashTimer' = FALSE
    /\ scripts' = Append(scripts, Show(seq + 1))
    /\ UNCHANGED <<flashes, answer, islandReady, visible, skipped, page, results, decisions>>

\* mutant: a flash does not ask whether a question is waiting
MayFlash_Always == TRUE
(* A waiting question outranks a flash. *)
MayFlash == pending = {}

flashIsland ==
    /\ flashes < MaxFlashes
    /\ flashes' = flashes + 1
    /\ scripts' = IF MayFlash THEN Append(scripts, FlashOp) ELSE scripts
    /\ UNCHANGED <<seq, pending, answer, islandReady, visible, flashTimer, skipped, page, results,
                   decisions>>

\* mutant: the window is left open when the last question was denied
HideWhenDone_Allowed(left, allow) ==
    visible' = IF left = {} /\ allow THEN FALSE ELSE visible
(* The window goes away with the last waiting question. *)
HideWhenDone(left, allow) == visible' = IF left = {} THEN FALSE ELSE visible

(* What the caller is told: nothing, if a file write throws first. *)
Told(allow, fault) ==
    IF fault = "write" THEN "lost" ELSE IF allow THEN "allow" ELSE "deny"

(* The question leaves the map first and the window is hidden last: a throw in
   between leaves the window as it is. *)
settle(n, allow, fault) ==
    IF n \in pending
      THEN /\ pending' = pending \ {n}
           /\ answer' = [answer EXCEPT ![n] = Told(allow, fault)]
           /\ IF fault = "none" THEN HideWhenDone(pending \ {n}, allow) ELSE UNCHANGED visible
           /\ skipped' = IF pending = {n} THEN fault # "none" ELSE skipped
      ELSE UNCHANGED <<pending, answer, visible, skipped>>

handleDecision(d, fault) ==
    /\ d \in decisions
    /\ decisions' = decisions \ {d}
    /\ settle(d.id, d.allow, fault)
    /\ UNCHANGED <<seq, flashes, islandReady, flashTimer, page, scripts, results>>

(* did-finish-load or did-fail-load *)
LoadPage(outcome) ==
    /\ islandReady = "loading"
    /\ islandReady' = outcome
    /\ UNCHANGED <<seq, flashes, pending, answer, visible, flashTimer, skipped, page, scripts,
                   results, decisions>>

(* The catch of both chains: a question is denied, a flash is dropped. *)
Unrendered(s, fault) ==
    IF s.op = "show" THEN settle(s.id, FALSE, fault)
    ELSE UNCHANGED <<pending, answer, visible, skipped>>

(* The page did not load, or executeJavaScript rejects although it did. *)
ScriptFails(fault) ==
    /\ islandReady # "loading" /\ scripts # <<>>
    /\ scripts' = Tail(scripts)
    /\ Unrendered(Head(scripts), fault)
    /\ UNCHANGED <<seq, flashes, islandReady, flashTimer, page, results, decisions>>

(* The height comes back: the window is placed and shown; a flash also starts
   the timer that hides it. *)
placeIsland ==
    /\ results # <<>>
    /\ results' = Tail(results)
    /\ visible' = TRUE
    /\ flashTimer' = IF Head(results).op = "flash" THEN TRUE ELSE flashTimer
    /\ UNCHANGED <<seq, flashes, pending, answer, islandReady, skipped, page, scripts, decisions>>

(* The window cannot be placed or shown; the page has run its script. *)
PlaceFails(fault) ==
    /\ results # <<>>
    /\ results' = Tail(results)
    /\ Unrendered(Head(results), fault)
    /\ UNCHANGED <<seq, flashes, islandReady, flashTimer, page, scripts, decisions>>

\* mutant: the timer hides the window whatever is on it
FlashHides_Always == TRUE
(* pending.size === 0 when the timer fires *)
FlashHides == pending = {}

FlashTimeout ==
    /\ flashTimer
    /\ flashTimer' = FALSE
    /\ visible' = IF FlashHides THEN FALSE ELSE visible
    /\ skipped' = IF FlashHides THEN FALSE ELSE skipped
    /\ UNCHANGED <<seq, flashes, pending, answer, islandReady, page, scripts, results, decisions>>

-----------------------------------------------------------------------------
(* The page *)

(* show() and flash() *)
RunScript ==
    /\ islandReady = "ready" /\ scripts # <<>>
    /\ scripts' = Tail(scripts)
    /\ results' = Append(results, Head(scripts))
    /\ shown' = Head(scripts).id
    /\ timer' = (Head(scripts).op = "show")
    /\ card' = IF Head(scripts).op = "show" THEN "review" ELSE "flash"
    /\ UNCHANGED <<app, decisions>>

decide(allow) ==
    /\ timer' = FALSE
    /\ decisions' = IF shown = 0 THEN decisions
                    ELSE decisions \cup {[id |-> shown, allow |-> allow]}
    /\ shown' = 0
    /\ UNCHANGED <<app, card, scripts, results>>

(* A person presses a button of the review card. *)
Click(allow) ==
    /\ visible /\ card = "review" /\ results = <<>>
    /\ decide(allow)

\* mutant: the countdown is only drawn
CountdownEnds_Drawn == FALSE /\ decide(FALSE)
(* left <= 0 *)
CountdownEnds == timer /\ results = <<>> /\ decide(FALSE)

-----------------------------------------------------------------------------
Init ==
    /\ seq = 0 /\ flashes = 0 /\ pending = {}
    /\ answer = [n \in Ids |-> "none"]
    /\ islandReady = "loading"
    /\ scripts = <<>> /\ results = <<>>
    /\ visible = FALSE /\ flashTimer = FALSE /\ skipped = FALSE
    /\ shown = 0 /\ timer = FALSE /\ card = "blank"
    /\ decisions = {}

Next ==
    \/ askIsland \/ flashIsland
    \/ \E d \in decisions, f \in Faults : handleDecision(d, f)
    \/ \E outcome \in {"ready", "failed"} : LoadPage(outcome)
    \/ \E f \in Faults : ScriptFails(f) \/ PlaceFails(f)
    \/ placeIsland \/ FlashTimeout
    \/ RunScript \/ CountdownEnds
    \/ \E allow \in BOOLEAN : Click(allow)

(* Loading, scripts, results, requests and timers all come to pass, well or
   badly; a person need not do anything. *)
Fairness ==
    /\ WF_vars(\E outcome \in {"ready", "failed"} : LoadPage(outcome))
    /\ WF_vars(RunScript \/ \E f \in Faults : ScriptFails(f))
    /\ WF_vars(placeIsland \/ \E f \in Faults : PlaceFails(f))
    /\ WF_vars(FlashTimeout) /\ WF_vars(CountdownEnds)
    /\ \A n \in Ids, allow \in BOOLEAN :
        WF_vars(\E f \in Faults : handleDecision([id |-> n, allow |-> allow], f))

Spec == Init /\ [][Next]_vars /\ Fairness

-----------------------------------------------------------------------------
(* Properties *)

(* Type correctness of the window, the page and what travels between them. *)
TypeOK ==
    /\ seq \in 0 .. MaxAsks /\ flashes \in 0 .. MaxFlashes
    /\ pending \subseteq 1 .. seq
    /\ answer \in [Ids -> {"none", "allow", "deny", "lost"}]
    /\ islandReady \in {"loading", "ready", "failed"}
    /\ scripts \in Seq(Scripts) /\ results \in Seq(Scripts)
    /\ visible \in BOOLEAN /\ flashTimer \in BOOLEAN /\ skipped \in BOOLEAN /\ timer \in BOOLEAN
    /\ shown \in Ids \cup {0} /\ card \in {"blank", "review", "flash"}
    /\ decisions \subseteq [id : Ids, allow : BOOLEAN]

(* "A flash never appears over a question": while the flash card is up, every
   waiting question is still on its way to the page, so show() replaces the
   flash and never the other way round, whatever the order of arrival. *)
FlashNeverCoversQuestion ==
    card = "flash" => \A n \in pending : Queued(Show(n), scripts)

(* "... and never times one out": a question that waits and whose window was
   placed stays on screen until it is settled, also when the timer of an
   earlier flash fires. *)
QuestionStaysOnScreen ==
    (shown \in pending /\ ~Queued(Show(shown), results)) => visible

(* With no question waiting and no flash running, the window is gone, whatever
   is still on its way to or from the page.  The one thing that leaves it up is
   a file write of settle() that throws while the last question is settled;
   then it stays until the next question is settled or the next flash ends. *)
HiddenWhenIdle == (pending = {} /\ ~flashTimer /\ ~skipped) => ~visible

(* The newest question is always taken off the map, by a person, by the
   countdown or because it cannot be put on screen, unless a newer one takes
   its place. *)
NewestQuestionSettles ==
    \A n \in Ids : (n \in pending /\ seq = n) ~> (n \notin pending \/ seq # n)

(* Every question is settled: nobody answers and the countdown denies it. *)
EveryQuestionSettles == \A n \in Ids : n \in pending ~> n \notin pending
=============================================================================
