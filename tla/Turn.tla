-------------------------------- MODULE Turn --------------------------------
(***************************************************************************)
(* One codex turn in front of a guardian (run_turn, core/src/session/      *)
(* turn.rs): the first step context is captured, the prompts go through    *)
(* their gate, the model is sampled and its tool calls dispatched; then    *)
(* round after round of pending input, a new step context and sampling.    *)
(* The user may interrupt at any time, and another task may capture a step *)
(* context of its own meanwhile.                                           *)
(***************************************************************************)
EXTENDS ToolDispatch, ContextGates

CONSTANT Instances   \* the turns to look at: [settings, shape]

ShapeSpace ==
    [prompts : Nat,           \* user inputs per round
     rounds : Nat \ {0},      \* sampling requests
     inject : BOOLEAN,        \* inject_response_items_for_turn is called
     selections : SUBSET Selections,  \* environments that may be selected
     calls : SUBSET Calls]    \* tool calls of the model

ASSUME TurnAssumption ==
    /\ Instances \subseteq [settings : SettingsSpace, shape : ShapeSpace]
    /\ Bare \subseteq Selections
    /\ {None, Rewritten, "original"} \cap Selections = {}

VARIABLES
    shape,  \* what the turn is made of, see ShapeSpace
    turn    \* where run_turn stands, see TurnSpace

TurnSpace == [phase : {"start", "capture", "prompts", "sampling", "ended"},
              round : Nat, aborted : BOOLEAN]

vars == <<dispatchVars, contextVars, shape, turn>>

-----------------------------------------------------------------------------
(* run_turn captures a step with the selections fixed for the turn. *)
StartTurn(s) ==
    /\ turn.phase = "start" /\ s \in shape.selections
    /\ turn' = [turn EXCEPT !.phase = "capture", !.round = 1]
    /\ Capture("turn", s)
    /\ UNCHANGED <<dispatchVars, shape, inputs, recorded, cache, guard_cache>>

(* The first capture is followed by the turn's own input, also when the turn
   was interrupted meanwhile; later ones by the request. *)
Captured ==
    /\ turn.phase = "capture" /\ stepper["turn"].at \in {"done", "failed"}
    /\ IF stepper["turn"].at = "failed"
         THEN turn' = [turn EXCEPT !.phase = "ended"] /\ UNCHANGED inputs
         ELSE IF turn.round = 1
           THEN /\ turn' = [turn EXCEPT !.phase = "prompts", !.aborted = cancelled]
                /\ Record(shape.prompts)
           ELSE turn' = [turn EXCEPT !.phase = "sampling"] /\ UNCHANGED inputs
    /\ UNCHANGED <<dispatchVars, shape, recorded, stepper, cache, guard_cache>>

(* if run_hooks_and_record_inputs(...) { return / break } *)
MayGoOn == ~TurnBlocked /\ ~turn.aborted

PromptsDone ==
    /\ turn.phase = "prompts" /\ inputs.at = "done"
    /\ IF ~MayGoOn
         THEN turn' = [turn EXCEPT !.phase = "ended"] /\ UNCHANGED stepper
         ELSE IF turn.round = 1
           THEN turn' = [turn EXCEPT !.phase = "sampling"] /\ UNCHANGED stepper
           ELSE /\ turn' = [turn EXCEPT !.phase = "capture"]
                /\ Capture("turn", stepper["turn"].selection)
    /\ UNCHANGED <<dispatchVars, shape, inputs, recorded, cache, guard_cache>>

IssueCall(c) ==
    /\ turn.phase = "sampling" /\ c \in shape.calls
    /\ handle_tool_call_with_source(c)
    /\ UNCHANGED <<contextVars, shape, turn>>

(* The stream is over and every call it issued has its response. *)
SamplingDone ==
    /\ turn.phase = "sampling" /\ \A c \in Calls : call[c].watch \in {"none", "done"}
    /\ IF cancelled \/ turn.round = shape.rounds
         THEN turn' = [turn EXCEPT !.phase = "ended"] /\ UNCHANGED inputs
         ELSE /\ turn' = [turn EXCEPT !.phase = "prompts", !.round = @ + 1]
              /\ Record(shape.prompts)
    /\ UNCHANGED <<dispatchVars, shape, recorded, stepper, cache, guard_cache>>

Inject(s) ==
    /\ shape.inject /\ s \in shape.selections /\ stepper["inject"].at = "idle"
    /\ Capture("inject", s)
    /\ UNCHANGED <<dispatchVars, shape, turn, inputs, recorded, cache, guard_cache>>

(* The turn's task is dropped, wherever it is. *)
TurnDropped ==
    /\ turn.phase \notin {"start", "ended"} /\ GraceExpires
    /\ turn' = [turn EXCEPT !.phase = "ended"]
    /\ UNCHANGED <<contextVars, shape>>

-----------------------------------------------------------------------------
Init ==
    /\ \E i \in Instances : settings = i.settings /\ shape = i.shape
    /\ DispatchInit /\ ContextInit
    /\ turn = [phase |-> "start", round |-> 0, aborted |-> FALSE]

CallStep(c) == (TaskStep(c) \/ WatcherStep(c)) /\ UNCHANGED <<contextVars, shape, turn>>

ContextStep ==
    /\ \/ turn.phase = "prompts" /\ PromptStep(settings.posture)
       \/ turn.phase = "capture" /\ CaptureStep("turn", settings.posture)
       \/ CaptureStep("inject", settings.posture)
    /\ UNCHANGED <<dispatchVars, shape, turn>>

Next ==
    \/ \E s \in Selections : StartTurn(s) \/ Inject(s)
    \/ Captured \/ PromptsDone \/ SamplingDone \/ TurnDropped
    \/ \E c \in Calls : IssueCall(c) \/ CallStep(c)
    \/ ContextStep
    \/ turn.phase # "start" /\ interrupt /\ UNCHANGED <<contextVars, shape, turn>>

(* The runtime polls what is runnable: watchers, cancelled tasks and tasks that
   are past their handler.  Nobody promises that a guardian, a hook, a reviewer
   or a handler comes back. *)
Settles(c) == claim(c) \/ notify_tool_finish(c) \/ TaskReturns(c) \/ WatcherStep(c)
Spec ==
    /\ Init /\ [][Next]_vars
    /\ \A c \in Calls : WF_vars(Settles(c) /\ UNCHANGED <<contextVars, shape, turn>>)

-----------------------------------------------------------------------------
(* Properties *)

(* Type correctness of the turn, its calls and its gates. *)
TypeOK ==
    /\ settings \in SettingsSpace /\ cancelled \in BOOLEAN /\ call \in [Calls -> CallSpace]
    /\ inputs \in InputsSpace
    /\ recorded \in [text : {"original", Rewritten}, answer : {None} \cup Answers]
    /\ stepper \in [Steppers -> StepperSpace]
    /\ cache \in [selections : {None} \cup Selections, loaded : {None} \cup Selections]
    /\ guard_cache \in [reviewed : {None} \cup Selections, result : Blocks, ruled : ReviewSpace]
    /\ shape \in ShapeSpace /\ turn \in TurnSpace

(* What the guard refused does not run, whatever the hooks and the reviewers
   below it decide later: a refused call or first approval is never executed,
   and a refused retry has not left the sandbox.  An outage of a fail-closed
   guardian is a refusal (registry.rs, approvals.rs, guardian_tap.rs). *)
DenialHolds ==
    \A c \in Calls :
        /\ call[c].denied \cap {"call", "first"} # {} => call[c].ran = {}
        /\ "retry" \in call[c].denied => call[c].ran = {"sandboxed"}

(* No text the guard refused gets into the model's context, and none in another
   form than the one it ruled on: prompts in history, the instruction block of
   a step (which may come from the cache another task filled), and the results
   that tools expose (a running command does not).  A round whose prompts were all refused samples
   no model. *)
ContextWasRuled ==
    /\ turn.phase = "sampling" /\ inputs.blocked => inputs.accepted
    /\ ~Refused(recorded.answer, settings.posture)
    /\ (recorded.text = Rewritten) = (recorded.answer = "rewrite")
    /\ \A p \in Steppers : stepper[p].at = "done" /\ stepper[p].block # None =>
          LET r == stepper[p].ruled
          IN /\ r.reviewed = stepper[p].text /\ ~Refused(r.answer, settings.posture)
             /\ stepper[p].block = IF r.answer = "rewrite" THEN Rewritten ELSE stepper[p].text
    /\ \A c \in Payload :
          /\ call[c].visible = "output" => call[c].kept = "keep"
          /\ "output" \in call[c].denied => call[c].visible \in {"none", "withheld", "aborted"}

(* A command leaves the sandbox only if the policy has no denied reads and
   somebody let it: a rule, or an approval; under strict auto-review a retry
   outside the sandbox has an approval of its own (orchestrator.rs). *)
UnsandboxedWasApproved ==
    \A c \in Calls : "unsandboxed" \in call[c].ran =>
        /\ ~settings.deniedReads
        /\ call[c].req = "bypass" \/ call[c].approved # {}
        /\ settings.strict =>
              (IF "sandboxed" \in call[c].ran THEN "retry" ELSE "first") \in call[c].approved

(* What the tool lifecycle contributors were told last is what the model was
   told: one outcome for a call that came back, "aborted" for one that did not,
   however the interrupt raced the end of the call (parallel.rs, registry.rs). *)
LifecycleMatchesResponse ==
    \A c \in Calls : LET r == call[c] IN
        /\ r.visible = "aborted" => r.finishes # <<>> /\ r.finishes[Len(r.finishes)] = "aborted"
        /\ r.visible = "refusal" => r.finishes \in {<<"blocked">>, <<"not_run">>} /\ r.ran = {}
        /\ r.visible \in {"output", "unreviewed", "sanitized", "feedback", "withheld"} =>
              r.finishes = <<"completed">>
        /\ r.visible = "failure" => r.finishes \in {<<"completed">>, <<"failed">>}

(* While a tool without parallel support has the dispatch lock, no other call
   is between its guard gate and its response (parallel.rs). *)
ExclusiveRunsAlone == \A c \in Holders \ Parallel : Holders = {c}

(* An interrupt ends every call: its task returns or is cancelled, although
   guardian, hooks, reviewers and handlers may never answer (parallel.rs). *)
CancelEndsAll ==
    \A c \in Calls : cancelled /\ call[c].pc # "idle" ~> call[c].pc \in Ended

(* "it decides first, independently of hook config, so no hook can override
   it" (registry.rs): what is executed under a rewrite is the guard's input. *)
RewriteIsWhatRuns ==
    \A c \in Calls : call[c].ran # {} => call[c].input # "hook over guard"
=============================================================================
