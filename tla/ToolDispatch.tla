---------------------------- MODULE ToolDispatch ----------------------------
(***************************************************************************)
(* The tool calls of one codex turn, from the moment the model issued them *)
(* to the response it gets: the task and the watcher of every call         *)
(* (core/src/tools/parallel.rs), the guard gate, the hooks, the handler    *)
(* and the output gate (tools/registry.rs), and for tools that start       *)
(* processes the approval gate and the sandboxed attempts                  *)
(* (tools/orchestrator.rs, tools/approvals.rs).                            *)
(*                                                                         *)
(* The guardian answers anything at any time, hooks and reviewers decide   *)
(* anything, and handlers may run for ever.  A step of a call is the code  *)
(* between two places where its task can be suspended, so that the turn    *)
(* may be interrupted and the task cancelled between any two of them.      *)
(***************************************************************************)
EXTENDS Guardians

CONSTANTS
    Calls,
    Parallel,      \* calls of tools that support parallel execution
    Payload,       \* calls of tools that expose their input to guard and hooks
    Orchestrated   \* calls of tools run by the ToolOrchestrator

SettingsSpace ==
    [posture : Postures,     \* failure_posture of the guardian
     strict : BOOLEAN,       \* strict_auto_review
     policy : {"never", "on_request", "unless_trusted"},
     deniedReads : BOOLEAN,  \* the sandbox policy has denied-read paths
     tool : {"exec_command", "apply_patch"},  \* what the orchestrated calls run
     hooks : SUBSET {"pre", "post"}]          \* PreToolUse and PostToolUse hooks configured

ASSUME DispatchAssumption ==
    Parallel \subseteq Calls /\ Payload \subseteq Calls /\ Orchestrated \subseteq Calls

VARIABLES
    settings,   \* the turn's configuration, see SettingsSpace
    cancelled,  \* the turn's CancellationToken
    call        \* one record per call, see CallSpace

Requirements == {"none", "skip", "bypass", "ask", "ask_escalated", "forbidden"}
Replies == {"none", "unsupported", "fatal", "refusal", "failure", "output", "unreviewed",
            "sanitized", "feedback", "withheld"}
Outcomes == {"none", "blocked", "not_run", "completed", "failed"}

(* Where a call stands.  Everything between the dispatch lock and the end of
   the task holds the lock. *)
Inside == {"guard", "hooks", "handler", "approve", "running", "reapprove", "output",
           "post", "claim", "notify", "finishing"}
Ended == {"returned", "dropped"}

CallSpace ==
    [pc : {"idle", "queued"} \cup Inside \cup Ended,
     input : {"model", "guard", "hook", "hook over guard"},  \* whose input would be executed
     req : Requirements,
     approved : SUBSET {"first", "retry"},     \* approvals that were given
     denied : SUBSET {"call", "first", "retry", "output"},  \* denials by the guard
     ran : SUBSET {"plain", "sandboxed", "unsandboxed"},    \* executions so far
     result : {"none", "success", "partial", "no_success", "error"},
     kept : {"none", "keep", "replace", "reject"},  \* GuardOutputDecision
     outcome : Outcomes,                       \* what on_tool_finish will be told
     reply : Replies,                          \* what the task returns
     finishes : Seq(Outcomes \cup {"aborted"}),  \* what on_tool_finish was told
     watch : {"none", "select", "join", "abort", "gone", "done"},
     visible : Replies \cup {"aborted"}]       \* what the model gets

NewCall ==
    [pc |-> "idle", input |-> "model", req |-> "none", approved |-> {},
     denied |-> {}, ran |-> {}, result |-> "none", kept |-> "none", outcome |-> "none",
     reply |-> "none", finishes |-> <<>>, watch |-> "none", visible |-> "none"]

dispatchVars == <<settings, cancelled, call>>

Update(c, r) == call' = [call EXCEPT ![c] = r] /\ UNCHANGED <<settings, cancelled>>
At(c, pc) == call[c].pc = pc
Refusals(denied, answer, gate) ==
    IF Refused(answer, settings.posture) THEN denied \cup {gate} ELSE denied

-----------------------------------------------------------------------------
(* parallel.rs: the task *)

handle_tool_call_with_source(c) ==
    /\ At(c, "idle") /\ call[c].watch = "none"
    /\ Update(c, [call[c] EXCEPT !.pc = "queued", !.watch = "select"])

Holders == {c \in Calls : call[c].pc \in Inside}

\* mutant: the write lock only keeps other writers out
MayEnter_Readers(c) == Holders \subseteq Parallel
(* parallel_execution: a read lock for parallel tools, the write lock for others *)
MayEnter(c) == IF c \in Parallel THEN Holders \subseteq Parallel ELSE Holders = {}

(* The lock is taken and the tool looked up: an unknown one is answered and a
   payload of the wrong kind is fatal, both without a lifecycle callback. *)
dispatch(c, found) ==
    /\ At(c, "queued") /\ MayEnter(c)
    /\ Update(c, CASE found = "tool" ->
                        [call[c] EXCEPT !.pc = IF c \in Payload THEN "guard" ELSE "handler"]
                   [] found = "unknown" ->
                        [call[c] EXCEPT !.pc = "returned", !.reply = "unsupported"]
                   [] found = "incompatible" ->
                        [call[c] EXCEPT !.pc = "returned", !.reply = "fatal"])

-----------------------------------------------------------------------------
(* registry.rs: in front of the handler *)

(* What a verdict asks apply_pre_dispatch_decision to do.  The tool may find
   that it cannot use the input it is given. *)
guard_pre_dispatch_decision(v) ==
    CASE v = "deny" -> {"blocked"}
      [] v = "rewrite" -> {"update", "unusable"}
      [] v \in {"allow", "defer"} -> {"continue"}

(* The record of a call after a decision of the guard or of the hooks. *)
apply_pre_dispatch_decision(r, decision, by, next) ==
    CASE decision = "blocked" ->
            [r EXCEPT !.pc = "claim", !.outcome = "blocked", !.reply = "refusal"]
      [] decision = "unusable" ->
            [r EXCEPT !.pc = "claim", !.outcome = "not_run", !.reply = "refusal"]
      [] decision = "update" ->
            [r EXCEPT !.pc = next,
                      !.input = IF r.input = "guard" THEN "hook over guard" ELSE by]
      [] decision = "continue" -> [r EXCEPT !.pc = next]

guard(c, answer) ==
    LET v == review(answer, settings.posture)
    IN /\ At(c, "guard")
       /\ \E d \in guard_pre_dispatch_decision(v) :
             Update(c, apply_pre_dispatch_decision(
                          [call[c] EXCEPT !.denied = Refusals(@, answer, "call")],
                          d, "guard", "hooks"))

run_pre_tool_use_hooks(c, d) ==
    /\ At(c, "hooks") /\ ("pre" \notin settings.hooks => d = "continue")
    /\ Update(c, apply_pre_dispatch_decision(call[c], d, "hook", "handler"))

-----------------------------------------------------------------------------
(* The handler *)

(* The result is in hand: a success of a tool with a payload goes to the output
   gate, anything else past it. *)
Resulted(c, r, result) ==
    [r EXCEPT !.result = result,
              !.pc = IF result = "success" /\ c \in Payload THEN "output" ELSE "post"]

(* A tool that needs no orchestration *)
handle_any_tool(c) ==
    /\ At(c, "handler") /\ c \notin Orchestrated
    /\ Update(c, [call[c] EXCEPT !.pc = "running", !.ran = @ \cup {"plain"}])

(* What exec_approval_requirement can come to in a sandboxed profile: `never`
   asks nobody, `unless_trusted` skips only what a rule allows, and a patch is
   neither matched by a rule nor escalated. *)
exec_approval_requirement ==
    {q \in Requirements \ {"none"} :
        /\ q = "skip" => settings.policy # "unless_trusted"
        /\ q \in {"ask", "ask_escalated"} => settings.policy # "never"
        /\ q \in {"bypass", "ask_escalated"} => settings.tool = "exec_command"}

unsandboxed_allowed == ~settings.deniedReads

(* sandbox_override_for_first_attempt *)
FirstAttempt(r) ==
    IF unsandboxed_allowed /\ r.req \in {"bypass", "ask_escalated"} THEN "unsandboxed"
    ELSE "sandboxed"

Attempt(r, how) == [r EXCEPT !.pc = "running", !.ran = @ \cup {how}]

(* ToolOrchestrator::run up to the first approval *)
orchestrate(c, q) ==
    LET r == [call[c] EXCEPT !.req = q]
    IN /\ At(c, "handler") /\ c \in Orchestrated
       /\ Update(c, CASE q = "forbidden" -> Resulted(c, r, "error")
                      [] q \in {"ask", "ask_escalated"} -> [r EXCEPT !.pc = "approve"]
                      [] q \in {"skip", "bypass"} ->
                            IF settings.strict THEN [r EXCEPT !.pc = "approve"]
                            ELSE Attempt(r, FirstAttempt(r)))

\* mutant: a denial falls through to the hooks and the reviewer
GuardResolution_Deny(v) == IF v = "allow" THEN {TRUE} ELSE BOOLEAN
(* approvals.rs: Allow and Deny of the guard are final, anything else leaves it
   to the hooks and the reviewer; a timeout or an abort there is a rejection. *)
GuardResolution(v) ==
    CASE v = "allow" -> {TRUE}
      [] v = "deny" -> {FALSE}
      [] v \in {"rewrite", "defer"} -> BOOLEAN

request_approval(c, answer) ==
    LET v == review(answer, settings.posture)
        run_id == IF At(c, "approve") THEN "first" ELSE "retry"
        r == [call[c] EXCEPT !.denied = Refusals(@, answer, run_id)]
    IN /\ call[c].pc \in {"approve", "reapprove"}
       /\ \E yes \in GuardResolution(v) :
             Update(c, IF yes
                         THEN Attempt([r EXCEPT !.approved = @ \cup {run_id}],
                                      IF run_id = "first" THEN FirstAttempt(r) ELSE "unsandboxed")
                         ELSE Resulted(c, r, "error"))

(* The output so far of a command that still runs, and the text of a patch found
   in a command line, are successes that expose no payload. *)
HandlerEnds(c, result) ==
    /\ At(c, "running")
    /\ result = "partial" => c \in Orchestrated /\ settings.tool = "exec_command"
    /\ Update(c, Resulted(c, call[c], result))

(* Approvable::wants_no_sandbox_approval *)
wants_no_sandbox_approval ==
    settings.policy = "unless_trusted"
        \/ (settings.policy = "on_request" /\ settings.tool = "apply_patch")

\* mutant: an approval of the first attempt also covers the retry under strict review
bypass_retry_approval_Strict(r) == r.approved # {}
(* Strict auto-review approval covers the sandboxed attempt only. *)
bypass_retry_approval(r) == ~settings.strict /\ r.approved # {}

(* The sandbox denied the first attempt: a second one without it, or the end,
   where exec_command hands over the denied output like any other. *)
SandboxDenied(c) ==
    /\ At(c, "running") /\ call[c].ran = {"sandboxed"}
    /\ Update(c, CASE ~(wants_no_sandbox_approval /\ unsandboxed_allowed) ->
                        Resulted(c, call[c], IF settings.tool = "exec_command" THEN "success"
                                             ELSE "error")
                   [] wants_no_sandbox_approval /\ unsandboxed_allowed ->
                        IF bypass_retry_approval(call[c]) THEN Attempt(call[c], "unsandboxed")
                        ELSE [call[c] EXCEPT !.pc = "reapprove"])

-----------------------------------------------------------------------------
(* registry.rs: behind the handler *)

guard_output_decision(v) ==
    CASE v = "rewrite" -> "replace" [] v = "deny" -> "reject" [] v \in {"allow", "defer"} -> "keep"

guard_output(c, answer) ==
    LET v == review(answer, settings.posture)
    IN /\ At(c, "output")
       /\ Update(c, [call[c] EXCEPT !.kept = guard_output_decision(v), !.pc = "post",
                                    !.denied = Refusals(@, answer, "output")])

PostHooks == {"pass", "block", "feedback"}

(* What the task will return: a rejection by the guard, a block or feedback of
   a hook, a replacement, or the result itself, in this order. *)
Reply(r, hook) ==
    CASE r.result \in {"no_success", "error"} -> "failure"
      [] r.result = "partial" -> "unreviewed"
      [] r.result = "success" /\ (r.kept = "reject" \/ hook = "block") -> "withheld"
      [] r.result = "success" /\ r.kept # "reject" /\ hook = "feedback" -> "feedback"
      [] r.result = "success" /\ r.kept # "reject" /\ hook = "pass" ->
            IF r.kept = "replace" THEN "sanitized" ELSE "output"

(* PostToolUse hooks see what was reviewed, i.e. successes with a payload. *)
run_post_tool_use_hooks(c, hook) ==
    /\ At(c, "post")
    /\ call[c].kept = "none" \/ "post" \notin settings.hooks => hook = "pass"
    /\ Update(c, [call[c] EXCEPT
                    !.pc = "claim",
                    !.outcome = IF call[c].result = "error" THEN "failed" ELSE "completed",
                    !.reply = Reply(call[c], hook)])

(* notify_tool_finish_if_unclaimed: the flag, then the contributors one by one,
   then the task's result. *)
claim(c) == At(c, "claim") /\ Update(c, [call[c] EXCEPT !.pc = "notify"])

notify_tool_finish(c) ==
    /\ At(c, "notify")
    /\ Update(c, [call[c] EXCEPT !.pc = "finishing", !.finishes = Append(@, call[c].outcome)])

TaskReturns(c) == At(c, "finishing") /\ Update(c, [call[c] EXCEPT !.pc = "returned"])

-----------------------------------------------------------------------------
(* parallel.rs: the watcher, and the end of an interrupted turn *)

interrupt ==
    /\ ~cancelled /\ cancelled' = TRUE
    /\ UNCHANGED <<settings, call>>

(* terminal_outcome_reached.load() || dispatch_handle.is_finished() *)
TerminalReached(c) == call[c].pc \in {"notify", "finishing", "returned"}

\* mutant: the watcher always waits for the handler
watch_cancelled_Joins(c) ==
    /\ cancelled /\ call[c].watch = "select"
    /\ Update(c, [call[c] EXCEPT !.watch = "join"])
(* The select's other branch: wait for a call whose outcome is settled, abort
   the task of any other. *)
watch_cancelled(c) ==
    /\ cancelled /\ call[c].watch = "select"
    /\ Update(c, [call[c] EXCEPT !.watch = IF TerminalReached(c) THEN "join" ELSE "abort"])

(* The task's result reaches the turn; also that of a task which was quicker
   than its abort(). *)
Collect(c) ==
    /\ call[c].watch \in {"select", "join", "abort"} /\ At(c, "returned")
    /\ Update(c, [call[c] EXCEPT !.watch = "done", !.visible = call[c].reply])

(* tokio drops an aborted task at one of its suspension points. *)
DropTask(c) ==
    /\ call[c].watch \in {"abort", "gone"} /\ call[c].pc \in {"queued"} \cup Inside
    /\ Update(c, [call[c] EXCEPT !.pc = "dropped"])

\* mutant: the response of an aborted call is built without the callback
notify_tool_aborted_Silent(c) ==
    /\ call[c].watch = "abort" /\ At(c, "dropped")
    /\ Update(c, [call[c] EXCEPT !.watch = "done", !.visible = "aborted"])
notify_tool_aborted(c) ==
    /\ call[c].watch = "abort" /\ At(c, "dropped")
    /\ Update(c, [call[c] EXCEPT !.watch = "done", !.visible = "aborted",
                                 !.finishes = Append(@, "aborted")])

(* handle_task_abort after the grace period: the turn's task is dropped with
   every watcher in it, and a watcher drops its AbortOnDropHandle. *)
GraceExpires ==
    /\ cancelled
    /\ call' = [c \in Calls |-> [call[c] EXCEPT !.watch = IF @ = "done" THEN @ ELSE "gone"]]
    /\ UNCHANGED <<settings, cancelled>>

-----------------------------------------------------------------------------
DispatchInit ==
    /\ settings \in SettingsSpace /\ cancelled = FALSE
    /\ call = [c \in Calls |-> NewCall]

TaskStep(c) ==
    \/ \E found \in {"tool", "unknown", "incompatible"} : dispatch(c, found)
    \/ \E a \in Answers : guard(c, a) \/ request_approval(c, a) \/ guard_output(c, a)
    \/ \E d \in {"blocked", "unusable", "update", "continue"} : run_pre_tool_use_hooks(c, d)
    \/ handle_any_tool(c)
    \/ \E q \in exec_approval_requirement : orchestrate(c, q)
    \/ \E result \in {"success", "partial", "no_success", "error"} : HandlerEnds(c, result)
    \/ SandboxDenied(c)
    \/ \E hook \in PostHooks : run_post_tool_use_hooks(c, hook)
    \/ claim(c) \/ notify_tool_finish(c) \/ TaskReturns(c)

WatcherStep(c) ==
    watch_cancelled(c) \/ Collect(c) \/ DropTask(c) \/ notify_tool_aborted(c)
=============================================================================
