----------------------------- MODULE TurnProofs -----------------------------
(***************************************************************************)
(* Proofs about Turn, for any calls, selections of environments, settings  *)
(* and lengths of a turn.                                                  *)
(***************************************************************************)
EXTENDS Turn, TLAPS

-----------------------------------------------------------------------------
(* The inductive invariant: the calls *)

Unrun == {"idle", "queued", "guard", "hooks", "handler", "approve"}
Unruled == Unrun \cup {"running", "reapprove", "output"}
Untold == Unruled \cup {"post", "claim", "notify"}
Answered == {"claim", "notify", "finishing", "returned"}

(* Up to its handler a call has run nothing, up to the output gate the guard
   has refused it nothing, and only a call whose sandboxed attempt failed under
   a policy without denied reads is asked about again. *)
Gated(r) ==
    /\ r.pc \in Unrun => r.ran = {} /\ r.approved = {}
    /\ r.pc \in Unruled => r.denied = {}
    /\ r.pc = "reapprove" => r.ran = {"sandboxed"} /\ ~settings.deniedReads

(* A result is reviewed before it gets past the output gate. *)
Reviewed(c, r) ==
    /\ r.pc = "output" => r.result = "success"
    /\ r.pc = "post" =>
          /\ r.result # "none"
          /\ c \in Payload /\ r.result = "success" => r.kept # "none"
          /\ "output" \in r.denied => r.kept = "reject" /\ r.result = "success"

(* The reply and the outcome of a call tell the same story. *)
Consistent(c, r) ==
    /\ r.reply = "refusal" => r.outcome \in {"blocked", "not_run"} /\ r.ran = {}
    /\ r.reply \in {"output", "unreviewed", "sanitized", "feedback", "withheld"} =>
          r.outcome = "completed"
    /\ r.reply = "failure" => r.outcome \in {"completed", "failed"}
    /\ c \in Payload /\ r.reply = "output" => r.kept = "keep"
    /\ "output" \in r.denied => r.reply = "withheld"

(* A call that is not known, or is of the wrong kind, went nowhere. *)
Undispatched(r) == r.pc = "returned" /\ r.reply \in {"unsupported", "fatal"} /\ r.denied = {}

(* The contributors hear of a call once its reply is fixed, the model once its
   task is over. *)
Told(c, r) ==
    /\ r.pc \in Answered => Undispatched(r) \/ (Consistent(c, r) /\ r.reply # "none")
    /\ r.pc \in Untold => r.finishes = <<>>
    /\ r.pc \in {"finishing", "returned"} => Undispatched(r) \/ r.finishes = <<r.outcome>>
    /\ r.visible # "none" =>
          \/ r.pc = "returned" /\ r.visible = r.reply
          \/ /\ r.pc = "dropped" /\ r.visible = "aborted"
             /\ r.finishes # <<>> /\ r.finishes[Len(r.finishes)] = "aborted"

(* What DenialHolds and UnsandboxedWasApproved say of one call. *)
Denied(r) ==
    /\ r.denied \cap {"call", "first"} # {} => r.ran = {}
    /\ "retry" \in r.denied => r.ran = {"sandboxed"}
Approved(r) ==
    "unsandboxed" \in r.ran =>
        /\ ~settings.deniedReads
        /\ r.req = "bypass" \/ r.approved # {}
        /\ settings.strict => (IF "sandboxed" \in r.ran THEN "retry" ELSE "first") \in r.approved

CallInv(c, r) == Gated(r) /\ Reviewed(c, r) /\ Told(c, r) /\ Denied(r) /\ Approved(r)

-----------------------------------------------------------------------------
(* The inductive invariant: the context *)

(* A text in the context is the one ruled on, in the form the guard gave it. *)
Fits(text, block, ruled) ==
    block # None =>
        /\ ruled.reviewed = text /\ ~Refused(ruled.answer, settings.posture)
        /\ block = IF ruled.answer = "rewrite" THEN Rewritten ELSE text

(* A prompt that got past the guard was not refused. *)
PromptsRuled ==
    /\ inputs.at \in {"guard", "hook"} => inputs.left > 0
    /\ inputs.at = "hook" => /\ ~Refused(inputs.answer, settings.posture)
                             /\ (inputs.text = Rewritten) = (inputs.answer = "rewrite")
    /\ ~Refused(recorded.answer, settings.posture)
    /\ (recorded.text = Rewritten) = (recorded.answer = "rewrite")

(* A block that is about to be stored, or stands in the cache, fits its ruling. *)
BlocksRuled ==
    /\ Fits(guard_cache.reviewed, guard_cache.result, guard_cache.ruled)
    /\ \A p \in Steppers :
          LET s == stepper[p]
          IN /\ s.at \in {"store", "done"} => Fits(s.text, s.block, s.ruled)
             /\ s.at \notin {"store", "done"} => s.block = None

(* The round goes on to the model only with an accepted prompt. *)
RoundsRuled ==
    turn.phase = "sampling" \/ (turn.phase = "capture" /\ turn.round # 1) =>
        (inputs.blocked => inputs.accepted)

IInv ==
    /\ TypeOK /\ ExclusiveRunsAlone
    /\ \A c \in Calls : CallInv(c, call[c])
    /\ PromptsRuled /\ BlocksRuled /\ RoundsRuled

-----------------------------------------------------------------------------
(* Steps of one call *)

(* A record that a call may have next. *)
Sound(c, r) ==
    /\ r \in CallSpace /\ CallInv(c, r)
    /\ r.pc \in Inside => call[c].pc \in Inside \/ MayEnter(c)

(* An update touches one call. *)
LEMMA UpdateEffect ==
    ASSUME call \in [Calls -> CallSpace], NEW c \in Calls, NEW r \in CallSpace, Update(c, r)
    PROVE  /\ call' \in [Calls -> CallSpace] /\ call'[c] = r
           /\ \A d \in Calls : d # c => call'[d] = call[d]
           /\ UNCHANGED <<settings, cancelled>>
  BY DEF Update

(* Issuing a call, and what its watcher does. *)
LEMMA WatcherSound ==
    ASSUME call \in [Calls -> CallSpace], NEW c \in Calls, CallInv(c, call[c]),
           handle_tool_call_with_source(c) \/ WatcherStep(c)
    PROVE  \E r : Update(c, r) /\ Sound(c, r)
<1> USE DEF At, Unrun, Unruled, Untold, Answered
<1>0. call[c] \in CallSpace
  OBVIOUS
<1>1. CASE handle_tool_call_with_source(c)
  <2> DEFINE r == [call[c] EXCEPT !.pc = "queued", !.watch = "select"]
  <2>1. r \in CallSpace
    BY <1>0, ZenonT(60) DEF CallSpace, Ended
  <2>2. Gated(r) /\ Denied(r) /\ Approved(r)
    BY <1>0, <1>1 DEF handle_tool_call_with_source, CallInv, Gated, Denied, Approved, Inside, CallSpace
  <2>3. Reviewed(c, r) /\ Told(c, r)
    BY <1>0, <1>1 DEF handle_tool_call_with_source, CallInv, Reviewed, Told, Consistent, Undispatched, Inside, CallSpace
  <2>4. Sound(c, r)
    BY <1>0, <1>1, <2>1, <2>2, <2>3 DEF handle_tool_call_with_source, Sound, CallInv, Inside, CallSpace
  <2> QED
    BY <1>1, <2>4 DEF handle_tool_call_with_source
<1>2. CASE watch_cancelled(c)
  <2> DEFINE r == [call[c] EXCEPT !.watch = IF TerminalReached(c) THEN "join" ELSE "abort"]
  <2>1. r \in CallSpace
    BY <1>0, ZenonT(60) DEF CallSpace, Ended
  <2>2. Gated(r) /\ Denied(r) /\ Approved(r)
    BY <1>0, <1>2 DEF watch_cancelled, CallInv, Gated, Denied, Approved, Inside, CallSpace
  <2>3. Reviewed(c, r) /\ Told(c, r)
    BY <1>0, <1>2, ZenonT(60) DEF watch_cancelled, CallInv, Reviewed, Told, Consistent, Undispatched, Inside, CallSpace
  <2>4. Sound(c, r)
    BY <1>0, <2>1, <2>2, <2>3, ZenonT(60) DEF Sound, CallInv, CallSpace
  <2> QED
    BY <1>2, <2>4 DEF watch_cancelled
<1>3. CASE Collect(c)
  <2> DEFINE r == [call[c] EXCEPT !.watch = "done", !.visible = call[c].reply]
  <2>1. r \in CallSpace
    BY <1>0, ZenonT(60) DEF CallSpace
  <2>2. Gated(r) /\ Denied(r) /\ Approved(r)
    BY <1>0, <1>3 DEF Collect, CallInv, Gated, Denied, Approved, Inside, CallSpace
  <2>3. Reviewed(c, r) /\ Told(c, r)
    BY <1>0, <1>3 DEF Collect, CallInv, Reviewed, Told, Consistent, Undispatched, Inside, CallSpace
  <2>4. Sound(c, r)
    BY <1>0, <1>3, <2>1, <2>2, <2>3 DEF Collect, Sound, CallInv, Inside, CallSpace
  <2> QED
    BY <1>3, <2>4 DEF Collect
<1>4. CASE DropTask(c)
  <2> DEFINE r == [call[c] EXCEPT !.pc = "dropped"]
  <2>1. r \in CallSpace
    BY <1>0 DEF CallSpace, Ended
  <2>2. Gated(r) /\ Denied(r) /\ Approved(r)
    BY <1>0, <1>4 DEF DropTask, CallInv, Gated, Denied, Approved, Inside, CallSpace
  <2>3. Reviewed(c, r) /\ Told(c, r)
    BY <1>0, <1>4 DEF DropTask, CallInv, Reviewed, Told, Consistent, Undispatched, Inside, CallSpace
  <2>4. Sound(c, r)
    BY <1>0, <1>4, <2>1, <2>2, <2>3 DEF DropTask, Sound, CallInv, Inside, CallSpace
  <2> QED
    BY <1>4, <2>4 DEF DropTask
<1>5. CASE notify_tool_aborted(c)
  <2> DEFINE f == Append(call[c].finishes, "aborted")
  <2>a. call[c].finishes \in Seq(Outcomes \cup {"aborted"})
    BY <1>0 DEF CallSpace
  <2>b. f \in Seq(Outcomes \cup {"aborted"}) /\ f # <<>> /\ f[Len(f)] = "aborted"
    BY <2>a
  <2> HIDE DEF f
  <2> DEFINE r == [call[c] EXCEPT !.watch = "done", !.visible = "aborted", !.finishes = f]
  <2>1. r \in CallSpace
    BY <1>0, <2>b, ZenonT(60) DEF CallSpace
  <2>2. Gated(r) /\ Denied(r) /\ Approved(r)
    BY <1>0, <1>5 DEF notify_tool_aborted, CallInv, Gated, Denied, Approved, Inside, CallSpace
  <2>3. Reviewed(c, r) /\ Told(c, r)
    BY <1>0, <1>5, <2>b DEF notify_tool_aborted, CallInv, Reviewed, Told, Consistent, Undispatched, Inside, CallSpace
  <2>4. Sound(c, r)
    BY <1>0, <1>5, <2>1, <2>2, <2>3 DEF notify_tool_aborted, Sound, CallInv, Inside, CallSpace
  <2> QED
    BY <1>5, <2>4 DEF f, notify_tool_aborted
<1> QED
  BY <1>1, <1>2, <1>3, <1>4, <1>5 DEF WatcherStep

(* Until the output gate nothing was refused, told or answered. *)
LEMMA UnruledFacts ==
    ASSUME call \in [Calls -> CallSpace], NEW c \in Calls, CallInv(c, call[c]),
           call[c].pc \in Unruled
    PROVE  /\ call[c].denied = {} /\ call[c].finishes = <<>> /\ call[c].visible = "none"
           /\ Denied(call[c]) /\ Approved(call[c])
           /\ call[c].pc \in Unrun => call[c].ran = {} /\ call[c].approved = {}
  BY DEF CallInv, Gated, Told, Untold, Unruled, Unrun

(* The guard refuses exactly what is a denial once the fail posture is applied. *)
LEMMA RefusedIsDeny ==
    ASSUME NEW answer \in Answers, NEW posture \in Postures
    PROVE  /\ review(answer, posture) \in Verdicts
           /\ Refused(answer, posture) <=> review(answer, posture) = "deny"
           /\ review(answer, posture) = "rewrite" <=> answer = "rewrite"
  BY DEF Answers, Verdicts, Postures, Refused, review, on_error

(* A call whose handler ended goes to the output gate or past it. *)
LEMMA ResultedSound ==
    ASSUME NEW c \in Calls, call[c].pc \in Inside, NEW r \in CallSpace,
           NEW result \in {"success", "partial", "no_success", "error"},
           Denied(r), Approved(r), r.finishes = <<>>, r.visible = "none",
           "output" \notin r.denied, result = "success" => r.denied = {}
    PROVE  Sound(c, Resulted(c, r, result))
<1> DEFINE pc == IF result = "success" /\ c \in Payload THEN "output" ELSE "post"
<1> DEFINE s == Resulted(c, r, result)
<1>1. s = [r EXCEPT !.result = result, !.pc = pc] /\ pc \in {"output", "post"}
  BY DEF Resulted
<1>2. s \in CallSpace
  BY <1>1 DEF CallSpace, Inside
<1>3. /\ s.pc = pc /\ s.result = result /\ s.denied = r.denied /\ s.ran = r.ran
      /\ s.finishes = r.finishes /\ s.visible = r.visible /\ s.req = r.req
      /\ s.approved = r.approved
  BY <1>1 DEF CallSpace
<1>4. pc = "output" => result = "success" /\ r.denied = {}
  OBVIOUS
<1>5. pc = "post" /\ c \in Payload => result # "success"
  OBVIOUS
<1> HIDE DEF s, pc
<1>6. Gated(s) /\ Denied(s) /\ Approved(s)
  BY <1>1, <1>3, <1>4 DEF Gated, Denied, Approved, Unrun, Unruled
<1>7. Reviewed(c, s) /\ Told(c, s)
  BY <1>1, <1>3, <1>4, <1>5 DEF Reviewed, Told, Answered, Untold, Unruled, Unrun
<1> QED
  BY <1>2, <1>6, <1>7 DEF s, Sound, CallInv

(* A call that makes an attempt has been refused nothing. *)
LEMMA AttemptSound ==
    ASSUME NEW c \in Calls, call[c].pc \in Inside, NEW r \in CallSpace,
           NEW how \in {"plain", "sandboxed", "unsandboxed"},
           Approved(Attempt(r, how)),
           r.denied = {}, r.finishes = <<>>, r.visible = "none"
    PROVE  Sound(c, Attempt(r, how))
<1> DEFINE s == Attempt(r, how)
<1>1. s \in CallSpace
  BY DEF Attempt, CallSpace, Inside
<1>2. s.pc = "running" /\ s.denied = {} /\ s.finishes = <<>> /\ s.visible = "none"
  BY DEF Attempt, CallSpace
<1> HIDE DEF s
<1>3. Gated(s) /\ Denied(s)
  BY <1>2 DEF Gated, Denied, Unrun, Unruled
<1>4. Reviewed(c, s) /\ Told(c, s)
  BY <1>2 DEF Reviewed, Told, Answered, Untold, Unruled, Unrun
<1> QED
  BY <1>1, <1>3, <1>4 DEF s, Sound, CallInv

(* A decision in front of the handler: a refusal ends the call. *)
LEMMA PreDispatchSound ==
    ASSUME NEW c \in Calls, call[c].pc \in Inside, NEW r \in CallSpace,
           NEW d \in {"blocked", "unusable", "update", "continue"},
           NEW by \in {"guard", "hook"}, NEW next \in {"hooks", "handler"},
           r.ran = {}, r.approved = {}, r.finishes = <<>>, r.visible = "none",
           r.denied \subseteq {"call"}, d # "blocked" => r.denied = {}
    PROVE  Sound(c, apply_pre_dispatch_decision(r, d, by, next))
<1> DEFINE s == apply_pre_dispatch_decision(r, d, by, next)
<1>1. CASE d \in {"update", "continue"}
  <2>1. s \in CallSpace
    BY <1>1 DEF apply_pre_dispatch_decision, CallSpace, Inside
  <2>2. /\ s.pc = next /\ s.ran = {} /\ s.approved = {} /\ s.denied = {}
        /\ s.finishes = <<>> /\ s.visible = "none"
    BY <1>1 DEF apply_pre_dispatch_decision, CallSpace
  <2> HIDE DEF s
  <2>3. Gated(s) /\ Denied(s) /\ Approved(s)
    BY <2>2 DEF Gated, Denied, Approved, Unrun, Unruled
  <2>4. Reviewed(c, s) /\ Told(c, s)
    BY <2>2 DEF Reviewed, Told, Answered, Untold, Unruled, Unrun
  <2> QED
    BY <2>1, <2>3, <2>4 DEF s, Sound, CallInv
<1>2. CASE d \in {"blocked", "unusable"}
  <2>1. s \in CallSpace
    BY <1>2, ZenonT(60) DEF apply_pre_dispatch_decision, CallSpace, Inside, Outcomes, Replies
  <2>2. /\ s.pc = "claim" /\ s.ran = {} /\ s.reply = "refusal"
        /\ s.outcome \in {"blocked", "not_run"} /\ s.denied \subseteq {"call"}
        /\ s.finishes = <<>> /\ s.visible = "none"
    BY <1>2 DEF apply_pre_dispatch_decision, CallSpace
  <2> HIDE DEF s
  <2>3. Gated(s) /\ Denied(s) /\ Approved(s)
    BY <2>2 DEF Gated, Denied, Approved, Unrun, Unruled
  <2>4. Reviewed(c, s) /\ Told(c, s)
    BY <2>2 DEF Reviewed, Told, Consistent, Answered, Untold, Unruled, Unrun
  <2> QED
    BY <2>1, <2>3, <2>4 DEF s, Sound, CallInv
<1> QED
  BY <1>1, <1>2

(* From the lock to the handler. *)
LEMMA FrontSound ==
    ASSUME settings \in SettingsSpace, call \in [Calls -> CallSpace], NEW c \in Calls,
           CallInv(c, call[c]),
           \/ \E found \in {"tool", "unknown", "incompatible"} : dispatch(c, found)
           \/ \E a \in Answers : guard(c, a)
           \/ \E d \in {"blocked", "unusable", "update", "continue"} : run_pre_tool_use_hooks(c, d)
    PROVE  \E r : Update(c, r) /\ Sound(c, r)
<1> USE DEF At
<1>0. call[c] \in CallSpace /\ settings.posture \in Postures
  BY DEF SettingsSpace
<1>1. ASSUME NEW found \in {"tool", "unknown", "incompatible"}, dispatch(c, found)
      PROVE  \E r : Update(c, r) /\ Sound(c, r)
  <2>0. /\ call[c].pc \in Unrun /\ call[c].denied = {} /\ call[c].finishes = <<>>
        /\ call[c].visible = "none" /\ call[c].ran = {} /\ call[c].approved = {}
    BY <1>1, UnruledFacts DEF dispatch, Unrun, Unruled
  <2>1. CASE found = "tool"
    <3> DEFINE r == [call[c] EXCEPT !.pc = IF c \in Payload THEN "guard" ELSE "handler"]
    <3>1. r \in CallSpace
      BY <1>0 DEF CallSpace, Inside
    <3>2. /\ r.pc \in {"guard", "handler"} /\ r.ran = {} /\ r.approved = {} /\ r.denied = {}
          /\ r.finishes = <<>> /\ r.visible = "none"
      BY <1>0, <2>0 DEF CallSpace
    <3>3. Update(c, r)
      BY <1>1, <2>1 DEF dispatch
    <3> HIDE DEF r
    <3>4. Gated(r) /\ Denied(r) /\ Approved(r)
      BY <3>2 DEF Gated, Denied, Approved, Unrun, Unruled
    <3>5. Reviewed(c, r) /\ Told(c, r)
      BY <3>2 DEF Reviewed, Told, Answered, Untold, Unruled, Unrun
    <3> QED
      BY <1>1, <3>1, <3>3, <3>4, <3>5 DEF dispatch, Sound, CallInv
  <2>2. CASE found # "tool"
    <3>0. PICK reply \in {"unsupported", "fatal"} :
              Update(c, [call[c] EXCEPT !.pc = "returned", !.reply = reply])
      BY <1>1, <2>2 DEF dispatch
    <3> DEFINE r == [call[c] EXCEPT !.pc = "returned", !.reply = reply]
    <3>1. r \in CallSpace
      <4>1. "returned" \in Ended /\ reply \in Replies
        BY DEF Ended, Replies
      <4> QED
        BY <1>0, <4>1 DEF CallSpace
    <3>2. /\ r.pc = "returned" /\ r.reply \in {"unsupported", "fatal"} /\ r.ran = {}
          /\ r.denied = {} /\ r.visible = "none"
      BY <1>0, <2>0 DEF CallSpace
    <3>3. Update(c, r)
      BY <3>0
    <3> HIDE DEF r
    <3>4. Gated(r) /\ Denied(r) /\ Approved(r)
      BY <3>2 DEF Gated, Denied, Approved, Unrun, Unruled
    <3>5. Reviewed(c, r) /\ Told(c, r)
      BY <3>2 DEF Reviewed, Told, Undispatched, Answered, Untold, Unruled, Unrun
    <3> QED
      BY <3>1, <3>2, <3>3, <3>4, <3>5 DEF Sound, CallInv, Inside
  <2> QED
    BY <2>1, <2>2
<1>2. ASSUME NEW a \in Answers, guard(c, a)
      PROVE  \E r : Update(c, r) /\ Sound(c, r)
  <2> DEFINE v == review(a, settings.posture)
  <2> DEFINE q == [call[c] EXCEPT !.denied = Refusals(@, a, "call")]
  <2>0. /\ call[c].pc \in Unrun \cap Inside /\ call[c].denied = {} /\ call[c].finishes = <<>>
        /\ call[c].visible = "none" /\ call[c].ran = {} /\ call[c].approved = {}
    BY <1>2, UnruledFacts DEF guard, Unrun, Unruled, Inside
  <2>1. PICK d \in guard_pre_dispatch_decision(v) :
            Update(c, apply_pre_dispatch_decision(q, d, "guard", "hooks"))
    BY <1>2 DEF guard
  <2>2. v \in Verdicts /\ (Refused(a, settings.posture) <=> v = "deny")
    BY <1>0, RefusedIsDeny
  <2>3. d \in {"blocked", "unusable", "update", "continue"} /\ (v = "deny" => d = "blocked")
    BY <2>1, <2>2 DEF guard_pre_dispatch_decision, Verdicts
  <2>4. Refusals(call[c].denied, a, "call") \in SUBSET {"call"} /\ (v # "deny" =>
            Refusals(call[c].denied, a, "call") = {})
    BY <2>0, <2>2 DEF Refusals
  <2>5. q \in CallSpace
    BY <1>0, <2>4 DEF CallSpace
  <2>6. /\ q.ran = {} /\ q.approved = {} /\ q.finishes = <<>> /\ q.visible = "none"
        /\ q.denied \subseteq {"call"} /\ (d # "blocked" => q.denied = {})
    BY <1>0, <2>0, <2>3, <2>4 DEF CallSpace
  <2> HIDE DEF q, v
  <2>7. Sound(c, apply_pre_dispatch_decision(q, d, "guard", "hooks"))
    BY <2>0, <2>3, <2>5, <2>6, PreDispatchSound
  <2> QED
    BY <2>1, <2>7
<1>3. ASSUME NEW d \in {"blocked", "unusable", "update", "continue"}, run_pre_tool_use_hooks(c, d)
      PROVE  \E r : Update(c, r) /\ Sound(c, r)
  <2>0. /\ call[c].pc \in Unrun \cap Inside /\ call[c].denied = {} /\ call[c].finishes = <<>>
        /\ call[c].visible = "none" /\ call[c].ran = {} /\ call[c].approved = {}
    BY <1>3, UnruledFacts DEF run_pre_tool_use_hooks, Unrun, Unruled, Inside
  <2>1. Sound(c, apply_pre_dispatch_decision(call[c], d, "hook", "handler"))
    BY <1>0, <2>0, PreDispatchSound
  <2> QED
    BY <1>3, <2>1 DEF run_pre_tool_use_hooks
<1> QED
  BY <1>1, <1>2, <1>3

(* The handler, its approvals and its attempts. *)
LEMMA HandlerSound ==
    ASSUME settings \in SettingsSpace, call \in [Calls -> CallSpace], NEW c \in Calls,
           CallInv(c, call[c]),
           \/ handle_any_tool(c) \/ SandboxDenied(c)
           \/ \E q \in exec_approval_requirement : orchestrate(c, q)
           \/ \E a \in Answers : request_approval(c, a)
           \/ \E result \in {"success", "partial", "no_success", "error"} : HandlerEnds(c, result)
    PROVE  \E r : Update(c, r) /\ Sound(c, r)
<1> USE DEF At
<1>0. call[c] \in CallSpace /\ settings.posture \in Postures
  BY DEF SettingsSpace
<1>a. /\ call[c].pc \in Unruled /\ call[c].pc \in Inside
      /\ call[c].denied = {} /\ call[c].finishes = <<>> /\ call[c].visible = "none"
      /\ Denied(call[c]) /\ Approved(call[c])
      /\ call[c].pc \in Unrun => call[c].ran = {} /\ call[c].approved = {}
  <2>1. call[c].pc \in {"handler", "approve", "running", "reapprove"}
    BY DEF handle_any_tool, SandboxDenied, orchestrate, request_approval, HandlerEnds
  <2> QED
    BY <2>1, UnruledFacts DEF Unruled, Unrun, Inside
<1>1. CASE handle_any_tool(c)
  <2>1. Approved(Attempt(call[c], "plain"))
    BY <1>0, <1>1, <1>a DEF handle_any_tool, Approved, Attempt, CallSpace, Unrun
  <2>2. Sound(c, Attempt(call[c], "plain"))
    BY <1>0, <1>a, <2>1, AttemptSound
  <2> QED
    BY <1>1, <2>2 DEF handle_any_tool, Attempt
<1>2. ASSUME NEW q \in exec_approval_requirement, orchestrate(c, q)
      PROVE  \E r : Update(c, r) /\ Sound(c, r)
  <2> DEFINE r == [call[c] EXCEPT !.req = q]
  <2>0. q \in {"skip", "bypass", "ask", "ask_escalated", "forbidden"} /\ r \in CallSpace
    BY <1>0, ZenonT(60) DEF exec_approval_requirement, Requirements, CallSpace
  <2>1. /\ r.denied = {} /\ r.finishes = <<>> /\ r.visible = "none" /\ r.ran = {}
        /\ r.approved = {} /\ r.req = q
    BY <1>0, <1>2, <1>a DEF orchestrate, Unrun, CallSpace
  <2>2. CASE q = "forbidden"
    <3>1. Update(c, Resulted(c, r, "error"))
      BY <1>2, <2>2 DEF orchestrate
    <3> HIDE DEF r
    <3>2. Denied(r) /\ Approved(r)
      BY <2>1 DEF Denied, Approved
    <3> QED
      BY <1>a, <2>0, <2>1, <3>1, <3>2, ResultedSound
  <2>3. CASE q # "forbidden" /\ (q \in {"ask", "ask_escalated"} \/ settings.strict)
    <3> DEFINE s == [r EXCEPT !.pc = "approve"]
    <3>1. Update(c, s)
      BY <1>2, <2>0, <2>3 DEF orchestrate
    <3> HIDE DEF r
    <3>2. s \in CallSpace
      BY <2>0 DEF CallSpace, Inside
    <3>3. /\ s.pc = "approve" /\ s.denied = {} /\ s.finishes = <<>> /\ s.visible = "none"
          /\ s.ran = {} /\ s.approved = {}
      BY <2>0, <2>1 DEF CallSpace
    <3> HIDE DEF s
    <3>4. Gated(s) /\ Denied(s) /\ Approved(s)
      BY <3>3 DEF Gated, Denied, Approved, Unrun, Unruled
    <3>5. Reviewed(c, s) /\ Told(c, s)
      BY <3>3 DEF Reviewed, Told, Answered, Untold, Unruled, Unrun
    <3> QED
      BY <1>a, <3>1, <3>2, <3>4, <3>5 DEF Sound, CallInv
  <2>4. CASE q \in {"skip", "bypass"} /\ ~settings.strict
    <3>1. Update(c, Attempt(r, FirstAttempt(r)))
      BY <1>2, <2>4 DEF orchestrate
    <3> HIDE DEF r
    <3>2. /\ FirstAttempt(r) \in {"sandboxed", "unsandboxed"}
          /\ FirstAttempt(r) = "unsandboxed" => ~settings.deniedReads /\ q = "bypass"
      BY <2>1, <2>4 DEF FirstAttempt, unsandboxed_allowed
    <3>3. Approved(Attempt(r, FirstAttempt(r)))
      BY <2>0, <2>1, <2>4, <3>2 DEF Approved, Attempt, CallSpace
    <3> QED
      BY <1>a, <2>0, <2>1, <3>1, <3>2, <3>3, AttemptSound
  <2> QED
    BY <2>0, <2>2, <2>3, <2>4
<1>3. ASSUME NEW a \in Answers, request_approval(c, a)
      PROVE  \E r : Update(c, r) /\ Sound(c, r)
  <2> DEFINE v == review(a, settings.posture)
  <2> DEFINE run_id == IF At(c, "approve") THEN "first" ELSE "retry"
  <2> DEFINE r == [call[c] EXCEPT !.denied = Refusals(@, a, run_id)]
  <2> DEFINE how == IF run_id = "first" THEN FirstAttempt(r) ELSE "unsandboxed"
  <2> DEFINE g == [r EXCEPT !.approved = @ \cup {run_id}]
  <2>0. v \in Verdicts /\ (Refused(a, settings.posture) <=> v = "deny")
    BY <1>0, RefusedIsDeny
  <2>1. /\ run_id \in {"first", "retry"}
        /\ run_id = "first" => call[c].ran = {} /\ call[c].approved = {}
        /\ run_id = "retry" => call[c].ran = {"sandboxed"} /\ ~settings.deniedReads
    BY <1>3, <1>a DEF request_approval, Unrun, CallInv, Gated
  <2>2. PICK yes \in GuardResolution(v) : Update(c, IF yes THEN Attempt(g, how) ELSE Resulted(c, r, "error"))
    BY <1>3 DEF request_approval
  <2>3. Refusals(call[c].denied, a, run_id) = IF v = "deny" THEN {run_id} ELSE {}
    BY <1>a, <2>0 DEF Refusals
  <2> HIDE DEF v, run_id
  <2>4. r \in CallSpace /\ g \in CallSpace
    BY <1>0, <2>1, <2>3 DEF CallSpace
  <2>5. /\ r.finishes = <<>> /\ r.visible = "none" /\ r.ran = call[c].ran /\ r.req = call[c].req
        /\ r.approved = call[c].approved /\ r.denied = IF v = "deny" THEN {run_id} ELSE {}
    BY <1>0, <1>a, <2>3 DEF CallSpace
  <2>6. /\ g.finishes = <<>> /\ g.visible = "none" /\ g.ran = call[c].ran
        /\ g.approved = call[c].approved \cup {run_id} /\ g.denied = r.denied
    BY <1>0, <2>4, <2>5 DEF CallSpace
  <2>7. /\ how \in {"sandboxed", "unsandboxed"}
        /\ run_id = "retry" => how = "unsandboxed"
        /\ how = "unsandboxed" => ~settings.deniedReads
    BY <2>1 DEF FirstAttempt, unsandboxed_allowed
  <2> HIDE DEF r, g, how
  <2>8. CASE yes = TRUE
    <3>1. r.denied = {}
      BY <2>0, <2>2, <2>5, <2>8 DEF GuardResolution, Verdicts
    <3>2. Approved(Attempt(g, how))
      <4>1. /\ Attempt(g, how).ran = call[c].ran \cup {how}
            /\ Attempt(g, how).approved = call[c].approved \cup {run_id}
        BY <2>4, <2>6 DEF Attempt, CallSpace
      <4> QED
        BY <2>1, <2>7, <4>1 DEF Approved
    <3>3. Sound(c, Attempt(g, how))
      BY <1>a, <2>4, <2>6, <2>7, <3>1, <3>2, AttemptSound
    <3> QED
      BY <2>2, <2>8, <3>3
  <2>9. CASE yes = FALSE
    <3>1. Denied(r) /\ Approved(r) /\ "output" \notin r.denied
      BY <1>a, <2>1, <2>5 DEF Denied, Approved
    <3>2. Sound(c, Resulted(c, r, "error"))
      BY <1>a, <2>4, <2>5, <3>1, ResultedSound
    <3> QED
      BY <2>2, <2>9, <3>2
  <2>10. yes \in BOOLEAN
    BY <2>0, <2>2 DEF GuardResolution, Verdicts
  <2> QED
    BY <2>8, <2>9, <2>10
<1>4. ASSUME NEW result \in {"success", "partial", "no_success", "error"}, HandlerEnds(c, result)
      PROVE  \E r : Update(c, r) /\ Sound(c, r)
  <2>1. Sound(c, Resulted(c, call[c], result))
    BY <1>0, <1>a, ResultedSound
  <2> QED
    BY <1>4, <2>1 DEF HandlerEnds
<1>5. CASE SandboxDenied(c)
  <2>1. CASE ~(wants_no_sandbox_approval /\ unsandboxed_allowed)
    <3>1. \A result \in {"success", "error"} : Sound(c, Resulted(c, call[c], result))
      BY <1>0, <1>a, ResultedSound
    <3>2. \E result \in {"success", "error"} : Update(c, Resulted(c, call[c], result))
      BY <1>5, <2>1 DEF SandboxDenied
    <3> QED
      BY <3>1, <3>2
  <2>2. CASE wants_no_sandbox_approval /\ unsandboxed_allowed /\ bypass_retry_approval(call[c])
    <3>1. Update(c, Attempt(call[c], "unsandboxed"))
      BY <1>5, <2>2 DEF SandboxDenied
    <3>2. Approved(Attempt(call[c], "unsandboxed"))
      BY <1>0, <2>2 DEF Approved, Attempt, CallSpace, unsandboxed_allowed, bypass_retry_approval
    <3> QED
      BY <1>0, <1>a, <3>1, <3>2, AttemptSound
  <2>3. CASE wants_no_sandbox_approval /\ unsandboxed_allowed /\ ~bypass_retry_approval(call[c])
    <3> DEFINE s == [call[c] EXCEPT !.pc = "reapprove"]
    <3>1. Update(c, s)
      BY <1>5, <2>3 DEF SandboxDenied
    <3>2. s \in CallSpace
      BY <1>0 DEF CallSpace, Inside
    <3>3. /\ s.pc = "reapprove" /\ s.denied = {} /\ s.finishes = <<>> /\ s.visible = "none"
          /\ s.ran = {"sandboxed"} /\ ~settings.deniedReads
      BY <1>0, <1>5, <1>a, <2>3 DEF SandboxDenied, CallSpace, unsandboxed_allowed
    <3> HIDE DEF s
    <3>4. Gated(s) /\ Denied(s) /\ Approved(s)
      BY <3>3 DEF Gated, Denied, Approved, Unrun, Unruled
    <3>5. Reviewed(c, s) /\ Told(c, s)
      BY <3>3 DEF Reviewed, Told, Answered, Untold, Unruled, Unrun
    <3> QED
      BY <1>a, <3>1, <3>2, <3>4, <3>5 DEF Sound, CallInv
  <2> QED
    BY <2>1, <2>2, <2>3
<1> QED
  BY <1>1, <1>2, <1>3, <1>4, <1>5

(* From the output gate to the end of the task. *)
LEMMA BackSound ==
    ASSUME settings \in SettingsSpace, call \in [Calls -> CallSpace], NEW c \in Calls,
           CallInv(c, call[c]),
           \/ \E a \in Answers : guard_output(c, a)
           \/ \E hook \in PostHooks : run_post_tool_use_hooks(c, hook)
           \/ claim(c) \/ notify_tool_finish(c) \/ TaskReturns(c)
    PROVE  \E r : Update(c, r) /\ Sound(c, r)
<1> USE DEF At
<1>0. call[c] \in CallSpace /\ settings.posture \in Postures
  BY DEF SettingsSpace
<1>a. call[c].pc \in Inside
  BY DEF guard_output, run_post_tool_use_hooks, claim, notify_tool_finish, TaskReturns, Inside
<1>b. Denied(call[c]) /\ Approved(call[c]) /\ call[c].visible = "none"
  BY <1>a DEF CallInv, Told, Inside
<1>1. ASSUME NEW a \in Answers, guard_output(c, a)
      PROVE  \E r : Update(c, r) /\ Sound(c, r)
  <2> DEFINE v == review(a, settings.posture)
  <2> DEFINE kept == guard_output_decision(v)
  <2> DEFINE denied == Refusals(call[c].denied, a, "output")
  <2> DEFINE r == [call[c] EXCEPT !.kept = kept, !.pc = "post", !.denied = denied]
  <2>0. v \in Verdicts /\ (Refused(a, settings.posture) <=> v = "deny")
    BY <1>0, RefusedIsDeny
  <2>1. call[c].denied = {} /\ call[c].finishes = <<>> /\ call[c].result = "success"
    BY <1>1, UnruledFacts DEF guard_output, Unruled, CallInv, Reviewed
  <2>2. /\ kept \in {"keep", "replace", "reject"} /\ denied \in SUBSET {"output"}
        /\ "output" \in denied => kept = "reject"
    BY <2>0, <2>1 DEF guard_output_decision, Refusals, Verdicts
  <2>3. Update(c, r)
    BY <1>1 DEF guard_output
  <2> HIDE DEF kept, denied
  <2>4. r \in CallSpace
    BY <1>0, <2>2 DEF CallSpace, Inside
  <2>5. /\ r.pc = "post" /\ r.kept = kept /\ r.denied = denied /\ r.result = "success"
        /\ r.finishes = <<>> /\ r.visible = "none" /\ r.ran = call[c].ran
        /\ r.approved = call[c].approved /\ r.req = call[c].req
    BY <1>0, <1>b, <2>1 DEF CallSpace
  <2> HIDE DEF r
  <2>6. Gated(r) /\ Denied(r) /\ Approved(r)
    BY <1>b, <2>2, <2>5 DEF Gated, Denied, Approved, Unrun, Unruled
  <2>7. Reviewed(c, r) /\ Told(c, r)
    BY <2>2, <2>5 DEF Reviewed, Told, Answered, Untold, Unruled, Unrun
  <2> QED
    BY <1>a, <2>3, <2>4, <2>6, <2>7 DEF Sound, CallInv
<1>2. ASSUME NEW hook \in PostHooks, run_post_tool_use_hooks(c, hook)
      PROVE  \E r : Update(c, r) /\ Sound(c, r)
  <2> DEFINE outcome == IF call[c].result = "error" THEN "failed" ELSE "completed"
  <2> DEFINE reply == Reply(call[c], hook)
  <2> DEFINE r == [call[c] EXCEPT !.pc = "claim", !.outcome = outcome, !.reply = reply]
  <2>0. /\ call[c].result \in {"success", "partial", "no_success", "error"}
        /\ c \in Payload /\ call[c].result = "success" => call[c].kept # "none"
        /\ "output" \in call[c].denied => call[c].kept = "reject" /\ call[c].result = "success"
        /\ call[c].kept \in {"none", "keep", "replace", "reject"}
        /\ call[c].finishes = <<>>
    BY <1>0, <1>2 DEF run_post_tool_use_hooks, CallInv, Reviewed, Told, Untold, CallSpace
  <2>1. /\ reply \in {"failure", "unreviewed", "withheld", "feedback", "sanitized", "output"}
        /\ reply # "failure" => call[c].result \in {"success", "partial"}
        /\ c \in Payload /\ reply = "output" => call[c].kept = "keep"
        /\ "output" \in call[c].denied => reply = "withheld"
    BY <2>0 DEF Reply, PostHooks
  <2>2. /\ outcome \in {"failed", "completed"}
        /\ reply # "failure" => outcome = "completed"
    BY <2>1
  <2>3. Update(c, r)
    BY <1>2 DEF run_post_tool_use_hooks
  <2> HIDE DEF outcome, reply
  <2>4. r \in CallSpace
    <3>1. "claim" \in Inside /\ outcome \in Outcomes /\ reply \in Replies
      BY <2>1, <2>2 DEF Inside, Outcomes, Replies
    <3> QED
      BY <1>0, <3>1 DEF CallSpace
  <2>5. /\ r.pc = "claim" /\ r.outcome = outcome /\ r.reply = reply /\ r.kept = call[c].kept
        /\ r.denied = call[c].denied /\ r.finishes = <<>> /\ r.visible = "none"
        /\ r.ran = call[c].ran /\ r.approved = call[c].approved /\ r.req = call[c].req
    BY <1>0, <1>b, <2>0 DEF CallSpace
  <2> HIDE DEF r
  <2>6. Gated(r) /\ Denied(r) /\ Approved(r)
    BY <1>b, <2>5 DEF Gated, Denied, Approved, Unrun, Unruled
  <2>7. Reviewed(c, r) /\ Told(c, r)
    BY <2>1, <2>2, <2>5 DEF Reviewed, Told, Consistent, Answered, Untold, Unruled, Unrun
  <2> QED
    BY <1>a, <2>3, <2>4, <2>6, <2>7 DEF Sound, CallInv
<1>3. CASE claim(c) \/ notify_tool_finish(c) \/ TaskReturns(c)
  <2>0. /\ Consistent(c, call[c]) /\ call[c].reply # "none"
        /\ call[c].pc \in {"claim", "notify"} => call[c].finishes = <<>>
        /\ call[c].pc = "finishing" => call[c].finishes = <<call[c].outcome>>
    BY <1>3 DEF claim, notify_tool_finish, TaskReturns, CallInv, Told, Answered, Untold, Undispatched
  <2>1. PICK pc \in {"notify", "finishing", "returned"}, f \in Seq(Outcomes \cup {"aborted"}) :
           /\ Update(c, [call[c] EXCEPT !.pc = pc, !.finishes = f])
           /\ f = IF pc = "notify" THEN <<>> ELSE <<call[c].outcome>>
    <3>1. call[c].outcome \in Outcomes /\ DOMAIN call[c] = DOMAIN NewCall
      BY <1>0 DEF CallSpace, NewCall
    <3>2. CASE claim(c) \/ TaskReturns(c)
      <4>1. \A pc : [call[c] EXCEPT !.pc = pc, !.finishes = call[c].finishes]
                       = [call[c] EXCEPT !.pc = pc]
        BY <1>0 DEF CallSpace
      <4> QED
        BY <1>0, <2>0, <3>1, <3>2, <4>1 DEF claim, TaskReturns, CallSpace
    <3>3. CASE notify_tool_finish(c)
      <4>1. call[c].finishes = <<>>
        BY <2>0, <3>3 DEF notify_tool_finish
      <4>2. Append(call[c].finishes, call[c].outcome) = <<call[c].outcome>>
        BY <4>1
      <4>3. <<call[c].outcome>> \in Seq(Outcomes \cup {"aborted"})
        BY <3>1
      <4>4. Update(c, [call[c] EXCEPT !.pc = "finishing", !.finishes = <<call[c].outcome>>])
        BY <3>3, <4>2 DEF notify_tool_finish
      <4> QED
        BY <4>3, <4>4
    <3> QED
      BY <1>3, <3>2, <3>3
  <2> DEFINE r == [call[c] EXCEPT !.pc = pc, !.finishes = f]
  <2>2. r \in CallSpace
    BY <1>0, <2>1, ZenonT(60) DEF CallSpace, Inside, Ended
  <2>3. /\ r.pc = pc /\ r.outcome = call[c].outcome /\ r.reply = call[c].reply
        /\ r.kept = call[c].kept /\ r.denied = call[c].denied /\ r.finishes = f
        /\ r.visible = "none" /\ r.ran = call[c].ran /\ r.approved = call[c].approved
        /\ r.req = call[c].req
    BY <1>0, <1>b, <2>1 DEF CallSpace
  <2> HIDE DEF r
  <2>4. Gated(r) /\ Denied(r) /\ Approved(r)
    BY <1>b, <2>1, <2>3 DEF Gated, Denied, Approved, Unrun, Unruled
  <2>5. Reviewed(c, r) /\ Told(c, r)
    BY <2>0, <2>1, <2>3 DEF Reviewed, Told, Consistent, Answered, Untold, Unruled, Unrun
  <2> QED
    BY <1>a, <2>1, <2>2, <2>4, <2>5 DEF r, Sound, CallInv
<1> QED
  BY <1>1, <1>2, <1>3

-----------------------------------------------------------------------------
(* All calls *)

CallsInv ==
    /\ settings \in SettingsSpace /\ cancelled \in BOOLEAN /\ call \in [Calls -> CallSpace]
    /\ ExclusiveRunsAlone
    /\ \A c \in Calls : CallInv(c, call[c])

(* A call's part of the invariant depends on its record and the settings only. *)
LEMMA CallInvPrime ==
    ASSUME NEW c \in Calls, CallInv(c, call'[c]), settings' = settings
    PROVE  CallInv(c, call[c])'
  BY DEF CallInv, Gated, Reviewed, Told, Consistent, Undispatched, Denied, Approved

(* The dispatch lock: a step of one call lets it in only if it may enter. *)
LEMMA LockStep ==
    ASSUME call \in [Calls -> CallSpace], ExclusiveRunsAlone, NEW d \in Calls,
           \A c \in Calls : c # d => call'[c] = call[c],
           call'[d].pc \in Inside => call[d].pc \in Inside \/ MayEnter(d)
    PROVE  ExclusiveRunsAlone'
<1>1. Holders' \subseteq Holders \cup {d}
  BY DEF Holders
<1>2. d \in Holders' => d \in Holders \/ MayEnter(d)
  BY DEF Holders
<1> SUFFICES ASSUME NEW c \in Holders' \ Parallel PROVE Holders' = {c}
  BY DEF ExclusiveRunsAlone
<1>3. CASE Holders' \subseteq Holders
  BY <1>3 DEF ExclusiveRunsAlone
<1>4. CASE d \in Holders' /\ MayEnter(d)
  BY <1>1, <1>4 DEF MayEnter
<1> QED
  BY <1>1, <1>2, <1>3, <1>4

(* Every step of a call keeps the invariant of all of them. *)
LEMMA CallsStep ==
    ASSUME CallsInv, NEW c \in Calls,
           handle_tool_call_with_source(c) \/ TaskStep(c) \/ WatcherStep(c)
    PROVE  CallsInv'
<1>1. PICK r : Update(c, r) /\ Sound(c, r)
  <2>1. call \in [Calls -> CallSpace] /\ settings \in SettingsSpace /\ CallInv(c, call[c])
    BY DEF CallsInv
  <2>2. CASE handle_tool_call_with_source(c) \/ WatcherStep(c)
    BY <2>1, <2>2, WatcherSound
  <2>3. CASE TaskStep(c)
    BY <2>1, <2>3, FrontSound, HandlerSound, BackSound DEF TaskStep
  <2> QED
    BY <2>2, <2>3
<1>2. /\ call' \in [Calls -> CallSpace] /\ call'[c] = r
      /\ \A d \in Calls : d # c => call'[d] = call[d]
      /\ UNCHANGED <<settings, cancelled>>
  BY <1>1, UpdateEffect DEF Sound, CallsInv
<1>3. ExclusiveRunsAlone'
  BY <1>1, <1>2, LockStep DEF Sound, CallsInv
<1>4. ASSUME NEW d \in Calls PROVE CallInv(d, call[d])'
  <2>1. CallInv(d, call'[d])
    BY <1>1, <1>2 DEF Sound, CallsInv
  <2> QED
    BY <1>2, <2>1, CallInvPrime
<1> QED
  BY <1>2, <1>3, <1>4 DEF CallsInv

(* The grace period ends watchers and nothing else. *)
LEMMA GraceStep ==
    ASSUME CallsInv, GraceExpires
    PROVE  CallsInv'
<1>0. ASSUME NEW c \in Calls
      PROVE  \E w \in {"gone", "done"} : call'[c] = [call[c] EXCEPT !.watch = w]
  <2>1. call[c] \in CallSpace
    BY DEF CallsInv
  <2>2. CASE call[c].watch = "done"
    BY <2>1, <2>2 DEF GraceExpires, CallSpace
  <2>3. CASE call[c].watch # "done"
    BY <2>1, <2>3 DEF GraceExpires, CallSpace
  <2> QED
    BY <2>2, <2>3
<1>1. call' \in [Calls -> CallSpace] /\ UNCHANGED <<settings, cancelled>>
  <2>1. ASSUME NEW c \in Calls PROVE call'[c] \in CallSpace
    <3>1. call[c] \in CallSpace
      BY DEF CallsInv
    <3>2. PICK w \in {"gone", "done"} : call'[c] = [call[c] EXCEPT !.watch = w]
      BY <1>0
    <3>3. [call[c] EXCEPT !.watch = w] \in CallSpace
      BY <3>1 DEF CallSpace
    <3> QED
      BY <3>2, <3>3
  <2> QED
    BY <2>1 DEF GraceExpires
<1>2. ASSUME NEW c \in Calls
      PROVE  /\ call'[c].pc = call[c].pc /\ call'[c].req = call[c].req
             /\ call'[c].approved = call[c].approved /\ call'[c].denied = call[c].denied
             /\ call'[c].ran = call[c].ran /\ call'[c].result = call[c].result
             /\ call'[c].kept = call[c].kept /\ call'[c].outcome = call[c].outcome
             /\ call'[c].reply = call[c].reply /\ call'[c].finishes = call[c].finishes
             /\ call'[c].visible = call[c].visible
  <2>1. call[c] \in CallSpace
    BY DEF CallsInv
  <2>2. PICK w \in {"gone", "done"} : call'[c] = [call[c] EXCEPT !.watch = w]
    BY <1>0
  <2> QED
    BY <2>1, <2>2 DEF CallSpace
<1>3. ExclusiveRunsAlone'
  <2>1. Holders' = Holders
    BY <1>2 DEF Holders
  <2> QED
    BY <2>1 DEF CallsInv, ExclusiveRunsAlone
<1>4. ASSUME NEW c \in Calls PROVE CallInv(c, call[c])'
  <2>1. CallInv(c, call'[c])
    BY <1>2
    DEF CallsInv, CallInv, Gated, Reviewed, Told, Consistent, Undispatched, Denied, Approved
  <2> QED
    BY <1>1, <2>1, CallInvPrime
<1> QED
  BY <1>1, <1>3, <1>4 DEF CallsInv

(* Steps that leave the calls and the settings alone *)
LEMMA CallsFrame ==
    ASSUME CallsInv, UNCHANGED <<settings, call>>, cancelled' \in BOOLEAN
    PROVE  CallsInv'
<1>1. ExclusiveRunsAlone'
  BY DEF CallsInv, ExclusiveRunsAlone, Holders
<1>2. ASSUME NEW c \in Calls PROVE CallInv(c, call[c])'
  BY CallInvPrime DEF CallsInv
<1> QED
  BY <1>1, <1>2 DEF CallsInv

-----------------------------------------------------------------------------
(* The context *)

PromptsInv ==
    /\ inputs \in InputsSpace
    /\ recorded \in [text : {"original", Rewritten}, answer : {None} \cup Answers]
    /\ PromptsRuled

BlocksInv ==
    /\ stepper \in [Steppers -> StepperSpace]
    /\ cache \in [selections : {None} \cup Selections, loaded : {None} \cup Selections]
    /\ guard_cache \in [reviewed : {None} \cup Selections, result : Blocks, ruled : ReviewSpace]
    /\ BlocksRuled

(* Moving on from an input that has been dealt with. *)
LEMMA NextInputEffect ==
    ASSUME NEW i \in InputsSpace, i.left > 0
    PROVE  /\ NextInput(i) \in InputsSpace
           /\ NextInput(i).at \in {"guard", "done"}
           /\ NextInput(i).at = "guard" => NextInput(i).left > 0
<1>1. i.left \in Nat /\ i.left - 1 \in Nat /\ (i.left # 1 => i.left - 1 > 0)
  BY DEF InputsSpace
<1>2. NextInput(i) \in InputsSpace
  BY <1>1 DEF InputsSpace, NextInput
<1>3. NextInput(i).left = i.left - 1 /\ NextInput(i).at = IF i.left = 1 THEN "done" ELSE "guard"
  BY DEF InputsSpace, NextInput
<1> QED
  BY <1>1, <1>2, <1>3

(* The prompt gate keeps its part of the invariant. *)
LEMMA PromptsStep ==
    ASSUME PromptsInv, settings \in SettingsSpace, UNCHANGED settings,
           PromptStep(settings.posture)
    PROVE  PromptsInv'
<1>0. settings.posture \in Postures /\ inputs \in InputsSpace
  BY DEF SettingsSpace, PromptsInv
<1>1. ASSUME NEW a \in Answers, guard_prompt(a, settings.posture)
      PROVE  PromptsInv'
  <2> DEFINE v == review(a, settings.posture)
  <2>0. inputs.at = "guard" /\ inputs.left > 0
    BY <1>1 DEF guard_prompt, PromptsInv, PromptsRuled
  <2>1. (Refused(a, settings.posture) <=> v = "deny") /\ (v = "rewrite" <=> a = "rewrite")
    BY <1>0, RefusedIsDeny
  <2>2. CASE v = "deny"
    <3>1. inputs' = [NextInput(inputs) EXCEPT !.blocked = TRUE] /\ UNCHANGED recorded
      BY <1>1, <2>2 DEF guard_prompt
    <3>2. inputs' \in InputsSpace /\ inputs'.at = NextInput(inputs).at
          /\ inputs'.left = NextInput(inputs).left
      BY <1>0, <2>0, <3>1, NextInputEffect DEF InputsSpace
    <3> QED
      BY <1>0, <2>0, <3>1, <3>2, NextInputEffect DEF PromptsInv, PromptsRuled
  <2>3. CASE v # "deny"
    <3> DEFINE text == IF v = "rewrite" THEN Rewritten ELSE "original"
    <3>1. inputs' = [inputs EXCEPT !.at = "hook", !.answer = a, !.text = text] /\ UNCHANGED recorded
      BY <1>1, <2>3 DEF guard_prompt
    <3>2. text \in {"original", Rewritten} /\ ((text = Rewritten) = (a = "rewrite"))
      BY <2>1 DEF Rewritten
    <3> HIDE DEF text
    <3>3. /\ inputs' \in InputsSpace /\ inputs'.at = "hook" /\ inputs'.left = inputs.left
          /\ inputs'.answer = a /\ inputs'.text = text
      BY <1>0, <3>1, <3>2 DEF InputsSpace
    <3> QED
      BY <2>0, <2>1, <2>3, <3>1, <3>2, <3>3 DEF PromptsInv, PromptsRuled
  <2> QED
    BY <2>2, <2>3
<1>2. ASSUME NEW should_stop \in BOOLEAN, inspect_pending_input(should_stop)
      PROVE  PromptsInv'
  <2>0. /\ inputs.at = "hook" /\ inputs.left > 0 /\ ~Refused(inputs.answer, settings.posture)
        /\ (inputs.text = Rewritten) = (inputs.answer = "rewrite")
    BY <1>2 DEF inspect_pending_input, PromptsInv, PromptsRuled
  <2>1. NextInput(inputs) \in InputsSpace
    BY <1>0, <2>0, NextInputEffect
  <2>2. inputs' \in InputsSpace /\ inputs'.at = NextInput(inputs).at
        /\ inputs'.left = NextInput(inputs).left
    <3>1. CASE should_stop
      BY <1>2, <2>1, <3>1 DEF inspect_pending_input, InputsSpace
    <3>2. CASE ~should_stop
      BY <1>2, <2>1, <3>2 DEF inspect_pending_input, InputsSpace
    <3> QED
      BY <3>1, <3>2
  <2>3. \/ UNCHANGED recorded
        \/ recorded' = [text |-> inputs.text, answer |-> inputs.answer]
    BY <1>2 DEF inspect_pending_input
  <2>4. /\ recorded' \in [text : {"original", Rewritten}, answer : {None} \cup Answers]
        /\ ~Refused(recorded'.answer, settings.posture)
        /\ (recorded'.text = Rewritten) = (recorded'.answer = "rewrite")
    <3>1. CASE UNCHANGED recorded
      BY <3>1 DEF PromptsInv, PromptsRuled
    <3>2. CASE recorded' = [text |-> inputs.text, answer |-> inputs.answer]
      BY <1>0, <2>0, <3>2 DEF InputsSpace
    <3> QED
      BY <2>3, <3>1, <3>2
  <2>5. PromptsRuled'
    BY <1>0, <2>0, <2>2, <2>4, NextInputEffect DEF PromptsRuled
  <2> QED
    BY <2>2, <2>4, <2>5 DEF PromptsInv
<1> QED
  BY <1>1, <1>2 DEF PromptStep

(* A new list of inputs starts at its guard. *)
LEMMA RecordStep ==
    ASSUME PromptsInv, UNCHANGED <<settings, recorded>>, NEW n \in Nat, Record(n)
    PROVE  PromptsInv' /\ (~inputs.blocked)'
<1>1. inputs' = [left |-> n, at |-> IF n = 0 THEN "done" ELSE "guard", text |-> "original",
                 answer |-> None, blocked |-> FALSE, accepted |-> FALSE]
  BY DEF Record, NoInputs
<1>2. inputs' \in InputsSpace
  BY <1>1 DEF InputsSpace
<1> QED
  BY <1>1, <1>2 DEF PromptsInv, PromptsRuled

(* What BlocksRuled says of one capture. *)
StepRuled(s) ==
    /\ s.at \in {"store", "done"} => Fits(s.text, s.block, s.ruled)
    /\ s.at \notin {"store", "done"} => s.block = None

(* One capture moves and the caches stand or are replaced by a ruling that fits. *)
LEMMA MoveStep ==
    ASSUME BlocksInv, UNCHANGED settings, NEW p \in Steppers, NEW s \in StepperSpace,
           Move(p, s), StepRuled(s),
           cache' \in [selections : {None} \cup Selections, loaded : {None} \cup Selections],
           guard_cache' \in [reviewed : {None} \cup Selections, result : Blocks,
                             ruled : ReviewSpace],
           Fits(guard_cache'.reviewed, guard_cache'.result, guard_cache'.ruled)
    PROVE  BlocksInv'
<1>1. /\ stepper' \in [Steppers -> StepperSpace] /\ stepper'[p] = s
      /\ \A q \in Steppers : q # p => stepper'[q] = stepper[q]
  BY DEF Move, BlocksInv
<1>2. \A q \in Steppers : StepRuled(stepper'[q])
  BY <1>1 DEF BlocksInv, BlocksRuled, StepRuled
<1>3. BlocksRuled'
  BY <1>2 DEF BlocksRuled, StepRuled, Fits
<1> QED
  BY <1>1, <1>3 DEF BlocksInv

(* A capture starts. *)
LEMMA CaptureStarts ==
    ASSUME BlocksInv, UNCHANGED <<settings, cache, guard_cache>>, NEW p \in Steppers,
           NEW sel \in {None} \cup Selections, Capture(p, sel)
    PROVE  BlocksInv'
<1> DEFINE s == [NoStep EXCEPT !.at = "refresh", !.selection = sel]
<1>1. Move(p, s)
  BY DEF Capture, Move
<1>2. NoStep \in StepperSpace /\ NoStep.block = None
  BY DEF StepperSpace, NoStep, Blocks, ReviewSpace, NoReview
<1>3. s \in StepperSpace /\ s.at = "refresh" /\ s.block = None
  BY <1>2 DEF StepperSpace
<1> HIDE DEF s
<1>4. StepRuled(s)
  BY <1>3 DEF StepRuled
<1> QED
  BY <1>1, <1>3, <1>4, MoveStep DEF BlocksInv, BlocksRuled

(* The instruction gate and its two caches keep their part of the invariant,
   also when two captures interleave. *)
LEMMA BlocksStep ==
    ASSUME BlocksInv, settings \in SettingsSpace, UNCHANGED settings, NEW p \in Steppers,
           CaptureStep(p, settings.posture)
    PROVE  BlocksInv'
<1> DEFINE t == stepper[p]
<1>0. /\ t \in StepperSpace /\ StepRuled(t) /\ settings.posture \in Postures
      /\ cache \in [selections : {None} \cup Selections, loaded : {None} \cup Selections]
      /\ guard_cache \in [reviewed : {None} \cup Selections, result : Blocks, ruled : ReviewSpace]
      /\ Fits(guard_cache.reviewed, guard_cache.result, guard_cache.ruled)
  BY DEF BlocksInv, BlocksRuled, StepRuled, SettingsSpace
<1>a. ASSUME NEW at \in {"load", "get", "review", "failed"},
             t.at \notin {"store", "done"}
      PROVE  [t EXCEPT !.at = at] \in StepperSpace /\ StepRuled([t EXCEPT !.at = at])
  BY <1>0, <1>a DEF StepperSpace, StepRuled
<1>1. CASE refresh(p)
  <2>1. PICK at \in {"get", "load"} : Move(p, [t EXCEPT !.at = at])
    BY <1>1 DEF refresh
  <2>2. /\ cache' \in [selections : {None} \cup Selections, loaded : {None} \cup Selections]
        /\ UNCHANGED guard_cache /\ t.at \notin {"store", "done"}
    BY <1>0, <1>1 DEF refresh
  <2> QED
    BY <1>0, <1>a, <2>1, <2>2, MoveStep
<1>2. ASSUME NEW ok \in BOOLEAN, load_project_instructions(p, ok) PROVE BlocksInv'
  <2>1. PICK at \in {"get", "failed"} : Move(p, [t EXCEPT !.at = at])
    BY <1>2 DEF load_project_instructions
  <2>2. t.selection \in {None} \cup Selections
    BY <1>0 DEF StepperSpace
  <2>3. /\ cache' \in [selections : {None} \cup Selections, loaded : {None} \cup Selections]
        /\ UNCHANGED guard_cache /\ t.at \notin {"store", "done"}
    BY <1>0, <1>2, <2>2 DEF load_project_instructions
  <2> QED
    BY <1>0, <1>a, <2>1, <2>3, MoveStep
<1>3. CASE get_loaded(p)
  <2> DEFINE at == IF cache.loaded = None THEN "done" ELSE "lookup"
  <2> DEFINE s == [t EXCEPT !.text = cache.loaded, !.at = at]
  <2>1. Move(p, s) /\ t.at = "get" /\ UNCHANGED <<cache, guard_cache>>
    BY <1>3 DEF get_loaded
  <2>2. at \in {"done", "lookup"} /\ cache.loaded \in {None} \cup Selections
    BY <1>0
  <2> HIDE DEF at
  <2>3. s \in StepperSpace
    BY <1>0, <2>2 DEF StepperSpace
  <2>4. s.block = None
    BY <1>0, <2>1 DEF StepperSpace, StepRuled
  <2> HIDE DEF s
  <2>5. StepRuled(s)
    BY <2>4 DEF StepRuled, Fits
  <2> QED
    BY <1>0, <2>1, <2>3, <2>5, MoveStep
<1>4. CASE guarded_instructions(p)
  <2>1. CASE Standing(t.text)
    <3> DEFINE s == [t EXCEPT !.at = "done", !.block = guard_cache.result,
                              !.ruled = guard_cache.ruled]
    <3>1. Move(p, s) /\ guard_cache.reviewed = t.text /\ UNCHANGED <<cache, guard_cache>>
      BY <1>4, <2>1 DEF guarded_instructions, Standing
    <3>2. s \in StepperSpace
      BY <1>0 DEF StepperSpace
    <3>3. /\ s.at = "done" /\ s.text = guard_cache.reviewed /\ s.block = guard_cache.result
          /\ s.ruled = guard_cache.ruled
      BY <1>0, <3>1 DEF StepperSpace
    <3> HIDE DEF s
    <3>4. StepRuled(s)
      BY <1>0, <3>3 DEF StepRuled
    <3> QED
      BY <1>0, <3>1, <3>2, <3>4, MoveStep
  <2>2. CASE ~Standing(t.text)
    BY <1>0, <1>4, <1>a, <2>2, MoveStep DEF guarded_instructions
  <2> QED
    BY <2>1, <2>2
<1>5. ASSUME NEW a \in Answers, guard_instructions(p, a, settings.posture) PROVE BlocksInv'
  <2> DEFINE v == review(a, settings.posture)
  <2> DEFINE block == CASE v = "deny" -> None
                        [] v = "rewrite" -> Rewritten
                        [] v \in {"allow", "defer"} -> t.text
  <2> DEFINE ruled == [reviewed |-> t.text, answer |-> a]
  <2> DEFINE s == [t EXCEPT !.at = "store", !.block = block, !.ruled = ruled]
  <2>1. Move(p, s) /\ UNCHANGED <<cache, guard_cache>>
    BY <1>5 DEF guard_instructions
  <2>2. /\ v \in Verdicts /\ (Refused(a, settings.posture) <=> v = "deny")
        /\ v = "rewrite" <=> a = "rewrite"
    BY <1>0, RefusedIsDeny
  <2>3. t.text \in {None} \cup Selections
    BY <1>0 DEF StepperSpace
  <2>4. block \in Blocks /\ ruled \in ReviewSpace
    BY <2>2, <2>3 DEF Blocks, ReviewSpace, Verdicts
  <2>5. Fits(t.text, block, ruled)
    BY <2>2 DEF Fits, Verdicts
  <2> HIDE DEF block, ruled
  <2>6. s \in StepperSpace
    BY <1>0, <2>4 DEF StepperSpace
  <2>7. s.at = "store" /\ s.text = t.text /\ s.block = block /\ s.ruled = ruled
    BY <1>0 DEF StepperSpace
  <2> HIDE DEF s
  <2>8. StepRuled(s)
    BY <2>5, <2>7 DEF StepRuled
  <2> QED
    BY <1>0, <2>1, <2>6, <2>8, MoveStep
<1>6. CASE store_guarded_instructions(p)
  <2> DEFINE s == [t EXCEPT !.at = "done"]
  <2>1. /\ Move(p, s) /\ UNCHANGED cache /\ t.at = "store"
        /\ guard_cache' = [reviewed |-> t.text, result |-> t.block, ruled |-> t.ruled]
    BY <1>6 DEF store_guarded_instructions
  <2>2. /\ guard_cache' \in [reviewed : {None} \cup Selections, result : Blocks,
                              ruled : ReviewSpace]
        /\ Fits(guard_cache'.reviewed, guard_cache'.result, guard_cache'.ruled)
    BY <1>0, <2>1 DEF StepperSpace, StepRuled
  <2>3. s \in StepperSpace
    BY <1>0 DEF StepperSpace
  <2>4. s.at = "done" /\ s.text = t.text /\ s.block = t.block /\ s.ruled = t.ruled
    BY <1>0 DEF StepperSpace
  <2>5. StepRuled(s)
    BY <1>0, <2>1, <2>4 DEF StepRuled
  <2> HIDE DEF s
  <2> QED
    BY <1>0, <2>1, <2>2, <2>3, <2>5, MoveStep
<1> QED
  BY <1>1, <1>2, <1>3, <1>4, <1>5, <1>6 DEF CaptureStep

-----------------------------------------------------------------------------
(* The turn *)

(* Where run_turn stands, and that it samples only after an accepted prompt. *)
RoundsInv == shape \in ShapeSpace /\ turn \in TurnSpace /\ RoundsRuled

(* The parts of the invariant *)
LEMMA IInvParts == IInv <=> CallsInv /\ PromptsInv /\ BlocksInv /\ RoundsInv
  BY DEF IInv, TypeOK, CallsInv, PromptsInv, BlocksInv, RoundsInv

(* A gate that is left alone keeps its part. *)
LEMMA ContextFrame ==
    ASSUME UNCHANGED settings
    PROVE  /\ PromptsInv /\ UNCHANGED <<inputs, recorded>> => PromptsInv'
           /\ BlocksInv /\ UNCHANGED <<stepper, cache, guard_cache>> => BlocksInv'
  BY DEF PromptsInv, PromptsRuled, BlocksInv, BlocksRuled, Fits

(* Every step of a turn keeps the invariant. *)
LEMMA TurnStep ==
    ASSUME IInv, [Next]_vars
    PROVE  IInv'
<1>0. CallsInv /\ PromptsInv /\ BlocksInv /\ RoundsInv
  BY IInvParts
<1>a. /\ turn \in TurnSpace /\ shape \in ShapeSpace /\ settings \in SettingsSpace
      /\ cancelled \in BOOLEAN /\ shape.prompts \in Nat /\ turn.round \in Nat
      /\ inputs \in InputsSpace /\ stepper["turn"].selection \in {None} \cup Selections
  BY <1>0 DEF RoundsInv, CallsInv, PromptsInv, BlocksInv, ShapeSpace, TurnSpace, Steppers,
              StepperSpace
<1>b. "turn" \in Steppers /\ "inject" \in Steppers
  BY DEF Steppers
<1>c. UNCHANGED dispatchVars => UNCHANGED settings /\ CallsInv'
  BY <1>0, <1>a, CallsFrame DEF dispatchVars
<1>1. ASSUME NEW s \in Selections, StartTurn(s) PROVE IInv'
  <2>1. CallsInv' /\ PromptsInv'
    BY <1>0, <1>1, <1>c, ContextFrame DEF StartTurn
  <2>2. BlocksInv'
    BY <1>0, <1>1, <1>b, <1>c, CaptureStarts DEF StartTurn
  <2>3. RoundsInv'
    BY <1>0, <1>1, <1>a DEF StartTurn, RoundsInv, RoundsRuled, TurnSpace
  <2> QED
    BY <2>1, <2>2, <2>3, IInvParts, PTL
<1>2. ASSUME NEW s \in Selections, Inject(s) PROVE IInv'
  <2>1. CallsInv' /\ PromptsInv'
    BY <1>0, <1>2, <1>c, ContextFrame DEF Inject
  <2>2. BlocksInv'
    BY <1>0, <1>2, <1>b, <1>c, CaptureStarts DEF Inject
  <2>3. RoundsInv'
    BY <1>0, <1>2 DEF Inject, RoundsInv, RoundsRuled
  <2> QED
    BY <2>1, <2>2, <2>3, IInvParts, PTL
<1>3. CASE Captured
  <2>1. CallsInv' /\ BlocksInv'
    BY <1>0, <1>3, <1>c, ContextFrame DEF Captured
  <2>2. PromptsInv'
    BY <1>0, <1>3, <1>a, <1>c, ContextFrame, RecordStep DEF Captured
  <2>3. RoundsInv'
    BY <1>0, <1>3, <1>a DEF Captured, RoundsInv, RoundsRuled, TurnSpace
  <2> QED
    BY <2>1, <2>2, <2>3, IInvParts, PTL
<1>4. CASE PromptsDone
  <2>1. CallsInv' /\ PromptsInv'
    BY <1>0, <1>4, <1>c, ContextFrame DEF PromptsDone
  <2>2. BlocksInv'
    BY <1>0, <1>4, <1>a, <1>b, <1>c, CaptureStarts, ContextFrame DEF PromptsDone
  <2>3. RoundsInv'
    BY <1>0, <1>4, <1>a DEF PromptsDone, MayGoOn, TurnBlocked, RoundsInv, RoundsRuled, TurnSpace,
                            InputsSpace
  <2> QED
    BY <2>1, <2>2, <2>3, IInvParts, PTL
<1>5. CASE SamplingDone
  <2>1. CallsInv' /\ BlocksInv'
    BY <1>0, <1>5, <1>c, ContextFrame DEF SamplingDone
  <2>2. PromptsInv'
    BY <1>0, <1>5, <1>a, <1>c, ContextFrame, RecordStep DEF SamplingDone
  <2>3. RoundsInv'
    <3>1. turn' \in TurnSpace /\ turn'.phase \in {"ended", "prompts"} /\ shape' = shape
      <4>1. CASE turn' = [turn EXCEPT !.phase = "ended"]
        BY <1>5, <1>a, <4>1 DEF SamplingDone, TurnSpace
      <4>2. CASE turn' = [turn EXCEPT !.phase = "prompts", !.round = turn.round + 1]
        <5>1. turn.round + 1 \in Nat
          BY <1>a
        <5> QED
          BY <1>5, <1>a, <4>2, <5>1 DEF SamplingDone, TurnSpace
      <4> QED
        BY <1>5, <4>1, <4>2 DEF SamplingDone
    <3> QED
      BY <1>a, <3>1 DEF RoundsInv, RoundsRuled
  <2> QED
    BY <2>1, <2>2, <2>3, IInvParts, PTL
<1>6. CASE TurnDropped
  <2>1. CallsInv' /\ UNCHANGED settings
    BY <1>0, <1>6, GraceStep DEF TurnDropped, GraceExpires
  <2>2. PromptsInv' /\ BlocksInv'
    BY <1>0, <1>6, <2>1, ContextFrame DEF TurnDropped, contextVars
  <2>3. RoundsInv'
    BY <1>0, <1>6, <1>a DEF TurnDropped, RoundsInv, RoundsRuled, TurnSpace
  <2> QED
    BY <2>1, <2>2, <2>3, IInvParts, PTL
<1>7. ASSUME NEW c \in Calls, IssueCall(c) \/ CallStep(c) PROVE IInv'
  <2>0. handle_tool_call_with_source(c) \/ TaskStep(c) \/ WatcherStep(c)
    BY <1>7 DEF IssueCall, CallStep
  <2>1. CallsInv'
    BY <1>0, <2>0, CallsStep
  <2>2. UNCHANGED settings
    BY <1>7 DEF IssueCall, CallStep, handle_tool_call_with_source, TaskStep, WatcherStep, Update,
                dispatch, guard, request_approval, guard_output, run_pre_tool_use_hooks,
                handle_any_tool, orchestrate, HandlerEnds, SandboxDenied, run_post_tool_use_hooks,
                claim, notify_tool_finish, TaskReturns, watch_cancelled, Collect, DropTask,
                notify_tool_aborted
  <2>3. PromptsInv' /\ BlocksInv' /\ RoundsInv'
    BY <1>0, <1>7, <2>2, ContextFrame DEF IssueCall, CallStep, contextVars, RoundsInv, RoundsRuled
  <2> QED
    BY <2>1, <2>3, IInvParts, PTL
<1>8. CASE ContextStep
  <2>1. CallsInv' /\ UNCHANGED settings
    BY <1>8, <1>c DEF ContextStep
  <2>2. CASE turn.phase = "prompts" /\ PromptStep(settings.posture)
    <3>1. UNCHANGED <<stepper, cache, guard_cache>>
      BY <2>2 DEF PromptStep, guard_prompt, inspect_pending_input
    <3>2. PromptsInv' /\ BlocksInv'
      BY <1>0, <1>a, <2>1, <2>2, <3>1, PromptsStep, ContextFrame
    <3>3. RoundsInv'
      BY <1>0, <1>8, <2>2 DEF ContextStep, RoundsInv, RoundsRuled
    <3> QED
      BY <2>1, <3>2, <3>3, IInvParts, PTL
  <2>3. ASSUME NEW p \in Steppers, CaptureStep(p, settings.posture) PROVE IInv'
    <3>1. UNCHANGED <<inputs, recorded>>
      BY <2>3 DEF CaptureStep, refresh, get_loaded, guarded_instructions,
                  store_guarded_instructions, load_project_instructions, guard_instructions
    <3>2. PromptsInv' /\ BlocksInv'
      BY <1>0, <1>a, <2>1, <2>3, <3>1, BlocksStep, ContextFrame
    <3>3. RoundsInv'
      BY <1>0, <1>8, <3>1 DEF ContextStep, RoundsInv, RoundsRuled
    <3> QED
      BY <2>1, <3>2, <3>3, IInvParts, PTL
  <2> QED
    BY <1>8, <1>b, <2>2, <2>3 DEF ContextStep
<1>9. CASE interrupt /\ UNCHANGED <<contextVars, shape, turn>>
  <2>1. CallsInv' /\ UNCHANGED settings
    BY <1>0, <1>9, CallsFrame DEF interrupt
  <2>2. PromptsInv' /\ BlocksInv' /\ RoundsInv'
    BY <1>0, <1>9, <2>1, ContextFrame DEF contextVars, RoundsInv, RoundsRuled
  <2> QED
    BY <2>1, <2>2, IInvParts, PTL
<1>10. CASE UNCHANGED vars
  <2>1. CallsInv' /\ UNCHANGED settings
    BY <1>10, <1>c DEF vars
  <2>2. PromptsInv' /\ BlocksInv' /\ RoundsInv'
    BY <1>0, <1>10, <2>1, ContextFrame DEF vars, contextVars, RoundsInv, RoundsRuled
  <2> QED
    BY <2>1, <2>2, IInvParts, PTL
<1> QED
  BY <1>1, <1>2, <1>3, <1>4, <1>5, <1>6, <1>7, <1>8, <1>9, <1>10 DEF Next

(* The invariant holds in every state a turn reaches. *)
LEMMA TurnIInv == Spec => []IInv
<1>1. Init => IInv
  <2> SUFFICES ASSUME Init PROVE IInv
    OBVIOUS
  <2>1. settings \in SettingsSpace /\ shape \in ShapeSpace /\ settings.posture \in Postures
    BY TurnAssumption DEF Init, SettingsSpace
  <2>2. NewCall \in CallSpace
    BY DEF NewCall, CallSpace, Requirements, Replies, Outcomes
  <2>3. \A c \in Calls : call[c] = NewCall /\ call[c].pc = "idle"
    BY DEF Init, DispatchInit, NewCall
  <2>4. CallsInv
    <3>1. ExclusiveRunsAlone
      BY <2>3 DEF ExclusiveRunsAlone, Holders, Inside
    <3>2. ASSUME NEW c \in Calls PROVE CallInv(c, NewCall)
      BY DEF NewCall, CallInv, Gated, Reviewed, Told, Denied, Approved, Answered, Unrun, Unruled
    <3> QED
      BY <2>1, <2>2, <2>3, <3>1, <3>2 DEF CallsInv, Init, DispatchInit
  <2>5. PromptsInv
    BY <2>1 DEF Init, ContextInit, NoInputs, PromptsInv, PromptsRuled, InputsSpace, Refused, None,
                Rewritten
  <2>6. BlocksInv
    <3>1. NoReview \in ReviewSpace /\ NoStep \in StepperSpace
      BY DEF NoReview, ReviewSpace, NoStep, StepperSpace, Blocks
    <3>2. guard_cache \in [reviewed : {None} \cup Selections, result : Blocks, ruled : ReviewSpace]
      BY <3>1 DEF Init, ContextInit, Blocks
    <3>3. BlocksRuled
      BY DEF Init, ContextInit, BlocksRuled, Fits, NoStep
    <3> QED
      BY <3>1, <3>2, <3>3 DEF BlocksInv, Init, ContextInit
  <2>7. RoundsInv
    BY <2>1 DEF Init, RoundsInv, RoundsRuled, TurnSpace
  <2> QED
    BY <2>4, <2>5, <2>6, <2>7, IInvParts
<1>2. IInv /\ [Next]_vars => IInv'
  BY TurnStep
<1> QED
  BY <1>1, <1>2, PTL DEF Spec

(* Type correctness of the turn, its calls and its gates, for every set of
   calls and every configuration of a turn. *)
THEOREM TurnTyped == Spec => []TypeOK
  BY TurnIInv, PTL DEF IInv

(* What the guard denied, or what a fail-closed guardian could not be asked
   about, is never executed: no hook, no reviewer, no retry and no order of
   interrupts gets a denied call past registry.rs and orchestrator.rs. *)
THEOREM TurnDenialHolds == Spec => []DenialHolds
<1>1. IInv => DenialHolds
  BY DEF IInv, CallInv, Denied, DenialHolds
<1> QED
  BY <1>1, TurnIInv, PTL

(* No prompt, instruction block or reviewed output reaches the model against
   the guard's ruling or in another form, however the captures of two tasks
   interleave on the shared caches. *)
THEOREM TurnContextRuled == Spec => []ContextWasRuled
<1>1. IInv => ContextWasRuled
  <2> SUFFICES ASSUME IInv PROVE ContextWasRuled
    OBVIOUS
  <2>1. /\ turn.phase = "sampling" /\ inputs.blocked => inputs.accepted
        /\ ~Refused(recorded.answer, settings.posture)
        /\ (recorded.text = Rewritten) = (recorded.answer = "rewrite")
    BY DEF IInv, RoundsRuled, PromptsRuled
  <2>2. ASSUME NEW p \in Steppers, stepper[p].at = "done", stepper[p].block # None
        PROVE  LET r == stepper[p].ruled
               IN /\ r.reviewed = stepper[p].text /\ ~Refused(r.answer, settings.posture)
                  /\ stepper[p].block = IF r.answer = "rewrite" THEN Rewritten ELSE stepper[p].text
    BY <2>2 DEF IInv, BlocksRuled, Fits
  <2>3. ASSUME NEW c \in Payload
        PROVE  /\ call[c].visible = "output" => call[c].kept = "keep"
               /\ "output" \in call[c].denied => call[c].visible \in {"none", "withheld", "aborted"}
    <3>1. c \in Calls
      BY DispatchAssumption
    <3>2. Told(c, call[c])
      BY <3>1 DEF IInv, CallInv
    <3> QED
      BY <3>2 DEF Told, Answered, Undispatched, Consistent
  <2> QED
    BY <2>1, <2>2, <2>3 DEF ContextWasRuled
<1> QED
  BY <1>1, TurnIInv, PTL

(* A command leaves the sandbox only where the policy has no denied reads, and
   with a rule or an approval that covers exactly this attempt. *)
THEOREM TurnUnsandboxedApproved == Spec => []UnsandboxedWasApproved
<1>1. IInv => UnsandboxedWasApproved
  BY DEF IInv, CallInv, Approved, UnsandboxedWasApproved
<1> QED
  BY <1>1, TurnIInv, PTL

(* Contributors and model are told the same end of every call, in every race
   of the end of a task with an interrupt. *)
THEOREM TurnLifecycle == Spec => []LifecycleMatchesResponse
<1>1. IInv => LifecycleMatchesResponse
  <2> SUFFICES ASSUME IInv, NEW c \in Calls
               PROVE  LET r == call[c] IN
                 /\ r.visible = "aborted" => r.finishes # <<>> /\ r.finishes[Len(r.finishes)] = "aborted"
                 /\ r.visible = "refusal" => r.finishes \in {<<"blocked">>, <<"not_run">>} /\ r.ran = {}
                 /\ r.visible \in {"output", "unreviewed", "sanitized", "feedback", "withheld"} =>
                       r.finishes = <<"completed">>
                 /\ r.visible = "failure" => r.finishes \in {<<"completed">>, <<"failed">>}
    BY DEF LifecycleMatchesResponse
  <2>1. Told(c, call[c]) /\ call[c].reply \in Replies
    BY DEF IInv, CallInv, TypeOK, CallSpace
  <2>2. call[c].reply # "aborted"
    BY <2>1 DEF Replies
  <2> QED
    BY <2>1, <2>2 DEF Told, Answered, Undispatched, Consistent
<1> QED
  BY <1>1, TurnIInv, PTL

(* The dispatch lock of parallel.rs excludes: a call of a tool without parallel
   support is alone between its gate and its response, for any number of calls. *)
THEOREM TurnExclusive == Spec => []ExclusiveRunsAlone
  BY TurnIInv, PTL DEF IInv
=============================================================================
