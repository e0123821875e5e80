---------------------------- MODULE ContextGates ----------------------------
(***************************************************************************)
(* How text gets into the model's context: the prompt gate                 *)
(* (run_hooks_and_record_inputs, core/src/session/turn.rs) and the         *)
(* instruction gate (guard_instructions, core/src/session/mod.rs) with the *)
(* two caches behind it (core/src/agents_md_manager.rs).                   *)
(*                                                                         *)
(* Two tasks capture step contexts: the turn, before each request to the   *)
(* model, and the history-only API inject_response_items_for_turn.  They   *)
(* share the AgentsMdManager and may have different environments selected. *)
(***************************************************************************)
EXTENDS Guardians

CONSTANTS
    Selections,   \* environment selections, each named like its AGENTS.md block
    Bare          \* those without one

VARIABLES
    inputs,       \* the input list being recorded, see InputsSpace
    recorded,     \* the prompt that entered history last: [text, answer of the guard]
    stepper,      \* task -> its capture of a step context, see StepperSpace
    cache,        \* AgentsMdCache: [selections, loaded]
    guard_cache   \* GuardedInstructions: [reviewed, result], and the review behind it

contextVars == <<inputs, recorded, stepper, cache, guard_cache>>

Steppers == {"turn", "inject"}
None == "none"
Rewritten == "rewritten"   \* the guard's text in place of a prompt or block
Blocks == {None, Rewritten} \cup Selections

InputsSpace ==
    [left : Nat, at : {"idle", "guard", "hook", "done"}, text : {"original", Rewritten},
     answer : {None} \cup Answers, blocked : BOOLEAN, accepted : BOOLEAN]
ReviewSpace == [reviewed : {None} \cup Selections, answer : {None} \cup Answers]
StepperSpace ==
    [at : {"idle", "refresh", "load", "get", "lookup", "review", "store", "done", "failed"},
     selection : {None} \cup Selections,
     text : {None} \cup Selections,   \* the block loaded for the step
     block : Blocks,                  \* what the step puts into the context
     ruled : ReviewSpace]             \* history: the review the block comes from

-----------------------------------------------------------------------------
(* run_hooks_and_record_inputs, over a list of n user inputs *)

NoInputs == [left |-> 0, at |-> "idle", text |-> "original", answer |-> None,
             blocked |-> FALSE, accepted |-> FALSE]
NoReview == [reviewed |-> None, answer |-> None]
Record(n) == inputs' = [NoInputs EXCEPT !.left = n, !.at = IF n = 0 THEN "done" ELSE "guard"]

\* mutant: the end of the list is noticed one input too late
NextInput_OffByOne(i) == [i EXCEPT !.left = @ - 1, !.at = IF i.left = 0 THEN "done" ELSE "guard"]
(* The rest of the list *)
NextInput(i) == [i EXCEPT !.left = @ - 1, !.at = IF i.left = 1 THEN "done" ELSE "guard",
                          !.text = "original", !.answer = None]

guard_prompt(answer, posture) ==
    LET v == review(answer, posture)
    IN /\ inputs.at = "guard"
       /\ inputs' = IF v = "deny" THEN [NextInput(inputs) EXCEPT !.blocked = TRUE]
                    ELSE [inputs EXCEPT !.at = "hook", !.answer = answer,
                                        !.text = IF v = "rewrite" THEN Rewritten ELSE "original"]
       /\ UNCHANGED <<recorded, stepper, cache, guard_cache>>

(* inspect_pending_input, then the prompt as it stands *)
inspect_pending_input(should_stop) ==
    /\ inputs.at = "hook"
    /\ IF should_stop
         THEN inputs' = [NextInput(inputs) EXCEPT !.blocked = TRUE] /\ UNCHANGED recorded
         ELSE /\ inputs' = [NextInput(inputs) EXCEPT !.accepted = TRUE]
              /\ recorded' = [text |-> inputs.text, answer |-> inputs.answer]
    /\ UNCHANGED <<stepper, cache, guard_cache>>

TurnBlocked == inputs.at = "done" /\ inputs.blocked /\ ~inputs.accepted

-----------------------------------------------------------------------------
(* capture_step_context up to the guard's decision on the instruction block *)

NoStep == [at |-> "idle", selection |-> None, text |-> None, block |-> None, ruled |-> NoReview]
Capture(p, s) ==
    stepper' = [stepper EXCEPT ![p] = [NoStep EXCEPT !.at = "refresh", !.selection = s]]

Move(p, r) == stepper' = [stepper EXCEPT ![p] = r]

(* A cache for other selections is emptied before the files are read. *)
refresh(p) ==
    /\ stepper[p].at = "refresh"
    /\ IF cache.selections = stepper[p].selection
         THEN Move(p, [stepper[p] EXCEPT !.at = "get"]) /\ UNCHANGED cache
         ELSE /\ Move(p, [stepper[p] EXCEPT !.at = "load"])
              /\ cache' = [selections |-> None, loaded |-> None]
    /\ UNCHANGED <<inputs, recorded, guard_cache>>

load_project_instructions(p, ok) ==
    /\ stepper[p].at = "load"
    /\ IF ok THEN /\ cache' = [selections |-> stepper[p].selection,
                              loaded |-> IF stepper[p].selection \in Bare THEN None
                                         ELSE stepper[p].selection]
                  /\ Move(p, [stepper[p] EXCEPT !.at = "get"])
       ELSE Move(p, [stepper[p] EXCEPT !.at = "failed"]) /\ UNCHANGED cache
    /\ UNCHANGED <<inputs, recorded, guard_cache>>

(* Without the lock of refresh(): the block may belong to another capture's
   selections, or be missing while that one reads its files. *)
get_loaded(p) ==
    /\ stepper[p].at = "get"
    /\ Move(p, [stepper[p] EXCEPT !.text = cache.loaded,
                                  !.at = IF cache.loaded = None THEN "done" ELSE "lookup"])
    /\ UNCHANGED <<inputs, recorded, cache, guard_cache>>

\* mutant: any standing ruling is reused, whatever block it was about
Standing_Any(text) == guard_cache.reviewed # None
Standing(text) == guard_cache.reviewed = text

guarded_instructions(p) ==
    /\ stepper[p].at = "lookup"
    /\ Move(p, IF Standing(stepper[p].text)
                 THEN [stepper[p] EXCEPT !.at = "done", !.block = guard_cache.result,
                                         !.ruled = guard_cache.ruled]
                 ELSE [stepper[p] EXCEPT !.at = "review"])
    /\ UNCHANGED <<inputs, recorded, cache, guard_cache>>

guard_instructions(p, answer, posture) ==
    LET v == review(answer, posture)
        t == stepper[p].text
    IN /\ stepper[p].at = "review"
       /\ Move(p, [stepper[p] EXCEPT !.at = "store",
                      !.block = CASE v = "deny" -> None
                                  [] v = "rewrite" -> Rewritten
                                  [] v \in {"allow", "defer"} -> t,
                      !.ruled = [reviewed |-> t, answer |-> answer]])
       /\ UNCHANGED <<inputs, recorded, cache, guard_cache>>

store_guarded_instructions(p) ==
    /\ stepper[p].at = "store"
    /\ guard_cache' = [reviewed |-> stepper[p].text, result |-> stepper[p].block,
                       ruled |-> stepper[p].ruled]
    /\ Move(p, [stepper[p] EXCEPT !.at = "done"])
    /\ UNCHANGED <<inputs, recorded, cache>>

-----------------------------------------------------------------------------
ContextInit ==
    /\ inputs = NoInputs /\ recorded = [text |-> "original", answer |-> None]
    /\ stepper = [p \in Steppers |-> NoStep]
    /\ cache = [selections |-> None, loaded |-> None]
    /\ guard_cache = [reviewed |-> None, result |-> None, ruled |-> NoReview]

PromptStep(posture) ==
    \/ \E a \in Answers : guard_prompt(a, posture)
    \/ \E should_stop \in BOOLEAN : inspect_pending_input(should_stop)

CaptureStep(p, posture) ==
    \/ refresh(p) \/ get_loaded(p) \/ guarded_instructions(p) \/ store_guarded_instructions(p)
    \/ \E ok \in BOOLEAN : load_project_instructions(p, ok)
    \/ \E a \in Answers : guard_instructions(p, a, posture)
=============================================================================
