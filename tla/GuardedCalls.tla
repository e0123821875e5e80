---------------------------- MODULE GuardedCalls ----------------------------
(***************************************************************************)
(* Codex's HTTP guardian (codex-rs/guardian/src/api.rs) talking to the     *)
(* desktop gate.  Every guarded call submits one review, polls while it is *)
(* pending, and is bounded by one deadline.  Requests and replies travel:  *)
(* a call that gave up may still have its request handled, a handler that  *)
(* threw never replies, a restart of the app breaks every connection.      *)
(***************************************************************************)
EXTENDS Gate

CONSTANTS
    Calls,       \* guarded calls of codex
    Thread,      \* call -> thread id
    Action,      \* call -> the review it submits, a member of Requests
    CallId,      \* call -> action.call_id(), "-" when the action has none
    Plans,       \* the workloads considered, one of which a behaviour follows
    FailClosed   \* [guardian] fail_closed

(* api.rs: thread/turn/kind/call id, derived so that a retry matches *)
idempotency_key(c) == <<Thread[c], Action[c].turn, Action[c].kind, CallId[c]>>

ASSUME CallsAssumption ==
    /\ Action \in [Calls -> Requests]
    /\ Plans \subseteq [after : [Calls -> SUBSET Calls], restarts : 0..MaxRestarts]
    /\ FailClosed \in BOOLEAN
    /\ \A c \in Calls : idempotency_key(c) \in Keys \ {NoKey}

VARIABLES
    plan,     \* after: call -> calls that have returned when core makes it; restarts of the app
    phase,    \* call -> "idle", "waiting" for a reply, "sleeping" between polls, "done"
    loc,      \* call -> review id of the Location it polls, 0 before
    wire,     \* call -> what is in flight on its connection
    verdict,  \* call -> what review() returned to the gate in core, "none" before
    failed    \* call -> whether that came from the fail posture, not from the app

client == <<plan, phase, loc, wire, verdict, failed>>
allVars == <<vars, client>>

Reply == [code : {200}, verdict : Verdicts] \cup [code : {202}, id : Ids] \cup [code : {404}]
NoMessage == [msg |-> "none"]
Post == [msg |-> "post"]
Poll == [msg |-> "poll"]
Hang == [msg |-> "hang"]      \* accepted, never answered
Broken == [msg |-> "broken"]  \* refused or reset
Answered(r) == [msg |-> "reply", reply |-> r]
WireSpace == {NoMessage, Post, Poll, Hang, Broken} \cup {Answered(r) : r \in Reply}

-----------------------------------------------------------------------------
\* mutant: a failed review has no opinion, whatever the posture
on_error_Defer == "defer"
\* mutant: the error itself comes back as the verdict
on_error_Raw == "error"
(* Verdict::on_error: the posture decides, FailOpen has no opinion. *)
on_error == IF FailClosed THEN "deny" ELSE "defer"

Return(c, v, err) ==
    /\ phase' = [phase EXCEPT ![c] = "done"]
    /\ verdict' = [verdict EXCEPT ![c] = v]
    /\ failed' = [failed EXCEPT ![c] = err]

submit_review(c) ==
    /\ phase[c] = "idle" /\ \A d \in plan.after[c] : phase[d] = "done"
    /\ phase' = [phase EXCEPT ![c] = "waiting"]
    /\ wire' = [wire EXCEPT ![c] = Post]
    /\ UNCHANGED <<vars, plan, loc, verdict, failed>>

(* The app handles the request, also that of a call that has given up. *)
GatePost(c, fault) ==
    LET key == idempotency_key(c)
    IN /\ wire[c] = Post
       /\ handleReviewPost(key, Action[c], fault)
       /\ wire' = [wire EXCEPT ![c] =
                     IF phase[c] = "done" THEN NoMessage
                     ELSE IF fault = "none" THEN Answered(respondReview(reviews', idem'[key]))
                     ELSE Hang]
       /\ UNCHANGED <<plan, phase, loc, verdict, failed>>

GatePoll(c) ==
    /\ wire[c] = Poll
    /\ wire' = [wire EXCEPT ![c] = Answered(respondReview(reviews, loc[c]))]
    /\ UNCHANGED <<vars, plan, phase, loc, verdict, failed>>

(* 202: remember the Location of the first answer and wait before polling. *)
ReceivePending(c) ==
    /\ phase[c] = "waiting" /\ wire[c].msg = "reply" /\ wire[c].reply.code = 202
    /\ loc' = [loc EXCEPT ![c] = IF @ = 0 THEN wire[c].reply.id ELSE @]
    /\ phase' = [phase EXCEPT ![c] = "sleeping"]
    /\ wire' = [wire EXCEPT ![c] = NoMessage]
    /\ UNCHANGED <<vars, plan, verdict, failed>>

(* A decided review is the verdict; any other status, or no connection, is an
   error that the posture turns into one. *)
ReceiveVerdict(c) ==
    /\ phase[c] = "waiting" /\ wire[c].msg = "reply" /\ wire[c].reply.code = 200
    /\ Return(c, wire[c].reply.verdict, FALSE)
    /\ wire' = [wire EXCEPT ![c] = NoMessage]
    /\ UNCHANGED <<vars, plan, loc>>

ReceiveError(c) ==
    /\ phase[c] = "waiting"
    /\ wire[c] = Broken \/ (wire[c].msg = "reply" /\ wire[c].reply.code = 404)
    /\ Return(c, on_error, TRUE)
    /\ wire' = [wire EXCEPT ![c] = NoMessage]
    /\ UNCHANGED <<vars, plan, loc>>

poll_review(c) ==
    /\ phase[c] = "sleeping"
    /\ phase' = [phase EXCEPT ![c] = "waiting"]
    /\ wire' = [wire EXCEPT ![c] = Poll]
    /\ UNCHANGED <<vars, plan, loc, verdict, failed>>

\* mutant: only the polling is under the deadline, the submission is not
Deadline_PollOnly(c) ==
    /\ phase[c] \in {"waiting", "sleeping"} /\ loc[c] # 0
    /\ Return(c, on_error, TRUE)
    /\ wire' = [wire EXCEPT ![c] = IF @ = Post THEN Post ELSE NoMessage]
    /\ UNCHANGED <<vars, plan, loc>>
(* The one timeout around submission and polling: the future is dropped and
   nobody reads the connection any more; a submitted request may still arrive. *)
Deadline(c) ==
    /\ phase[c] \in {"waiting", "sleeping"}
    /\ Return(c, on_error, TRUE)
    /\ wire' = [wire EXCEPT ![c] = IF @ = Post THEN Post ELSE NoMessage]
    /\ UNCHANGED <<vars, plan, loc>>

(* The app is not there, or the connection is refused or reset. *)
Unreachable(c) ==
    /\ wire[c] \in {Post, Poll} /\ phase[c] = "waiting"
    /\ wire' = [wire EXCEPT ![c] = Broken]
    /\ UNCHANGED <<vars, plan, phase, loc, verdict, failed>>

AppRestart(env) ==
    /\ restarts < plan.restarts
    /\ Restart(env)
    /\ wire' = [c \in Calls |-> IF phase[c] = "waiting" THEN Broken ELSE NoMessage]
    /\ UNCHANGED <<plan, phase, loc, verdict, failed>>

(* Someone, or the countdown, answers; "always" is left to the runs of Gate. *)
Person(fault) ==
    /\ \E n \in Ids, allow \in BOOLEAN : handleDecision(n, allow, FALSE, fault)
    /\ UNCHANGED client

-----------------------------------------------------------------------------
CallsInit ==
    /\ Init
    /\ plan \in Plans
    /\ phase = [c \in Calls |-> "idle"]
    /\ loc = [c \in Calls |-> 0]
    /\ wire = [c \in Calls |-> NoMessage]
    /\ verdict = [c \in Calls |-> "none"]
    /\ failed = [c \in Calls |-> FALSE]

CallsNext ==
    \/ \E c \in Calls :
        \/ submit_review(c) \/ poll_review(c) \/ GatePoll(c)
        \/ ReceivePending(c) \/ ReceiveVerdict(c) \/ ReceiveError(c)
        \/ Deadline(c) \/ Unreachable(c)
        \/ \E f \in Faults : GatePost(c, f)
    \/ \E f \in Faults : Person(f)
    \/ \E env \in BOOLEAN : AppRestart(env)

(* tokio's timer fires: a call that entered review() is not left there. *)
CallsSpec ==
    /\ CallsInit /\ [][CallsNext]_allVars
    /\ \A c \in Calls : WF_allVars(Deadline(c))

-----------------------------------------------------------------------------
(* Properties *)

(* Type correctness of the client side. *)
CallsTypeOK ==
    /\ plan \in Plans
    /\ phase \in [Calls -> {"idle", "waiting", "sleeping", "done"}]
    /\ loc \in [Calls -> Ids \cup {0}]
    /\ wire \in [Calls -> WireSpace]
    /\ verdict \in [Calls -> Verdicts \cup {"none", "defer"}]
    /\ failed \in [Calls -> BOOLEAN]

(* A fail-closed codex admits an action only on a ruling about that very
   action: the session file holds an admitting row with its text and turn. *)
AdmittedWasReviewed ==
    \A c \in Calls : (FailClosed /\ verdict[c] \in {"allow", "rewrite", "defer"}) =>
        \E i \in DOMAIN ledger :
            /\ ledger[i].text = Action[c].text /\ ledger[i].turn = Action[c].turn
            /\ ledger[i].verdict = verdict[c]

(* Every review codex enters comes back, even if the app died, threw half way
   or lost the question: review()'s deadline covers all of it. *)
EveryCallEnds == \A c \in Calls : phase[c] = "waiting" ~> phase[c] = "done"

(* The protocol implements one ruling per key and incarnation of the app:
   retries, late requests and repeated polls never see another one. *)
Ruled(k) == IF k \in DOMAIN idem /\ idem[k] \in DOMAIN reviews
                 /\ reviews[idem[k]] # "pending"
              THEN reviews[idem[k]] ELSE "none"
R == INSTANCE Ruling WITH
        KeyOf <- [c \in Calls |-> idempotency_key(c)],
        ruling <- [k \in Keys |-> Ruled(k)],
        learned <- [c \in Calls |-> IF phase[c] # "done" THEN "none"
                                    ELSE IF failed[c] THEN "failed" ELSE verdict[c]]
OneRulingPerKey == R!Spec
=============================================================================
