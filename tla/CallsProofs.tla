----------------------------- MODULE CallsProofs ----------------------------
(***************************************************************************)
(* Proofs about GuardedCalls: codex's HTTP guardian composed with the      *)
(* desktop gate.  The composition implements the gate on its own, so what  *)
(* GateProofs shows holds in it; the client's side is then typed, an       *)
(* admission rests on a row about that very action, and the protocol       *)
(* implements one ruling per key.                                          *)
(***************************************************************************)
EXTENDS GuardedCalls, GateProofs

(* A plan lets the app restart only if its calls follow one another: a call
   that polls across a restart is alone (CallsReusedId shows why). *)
PlansOrdered ==
    \A p \in Plans : p.restarts = 0 \/
        \A c, d \in Calls : c = d \/ c \in p.after[d] \/ d \in p.after[c]

(* Calls that share a key review the same action (CallsMcp shows why). *)
KeysTellActionsApart ==
    \A c, d \in Calls : idempotency_key(c) = idempotency_key(d) =>
        Action[c].text = Action[d].text /\ Action[c].turn = Action[d].turn

-----------------------------------------------------------------------------
(* The inductive invariant *)

Active(c) == phase[c] \in {"waiting", "sleeping"}

(* A call was made after the calls its plan puts in front of it. *)
Ordered ==
    \A c \in Calls :
        /\ phase[c] # "idle" => \A d \in plan.after[c] : phase[d] = "done"
        /\ phase[c] = "idle" => loc[c] = 0
        /\ wire[c] = Poll => Active(c)

(* The app started over and nobody has asked it anything since. *)
Forgotten ==
    /\ plan.restarts > 0 /\ DOMAIN reviews = {} /\ DOMAIN pending = {}
    /\ \A c \in Calls : wire[c] # Post

(* A call polls the review of its own key, or nothing at all. *)
PollsOwnReview ==
    \A c \in Calls : Active(c) /\ loc[c] # 0 =>
        \/ Forgotten
        \/ idempotency_key(c) \in DOMAIN idem /\ idem[idempotency_key(c)] = loc[c]

(* A reply on the wire is still true of the call's own key. *)
TrueOf(c, r) ==
    /\ r.code = 202 => idempotency_key(c) \in DOMAIN idem /\ idem[idempotency_key(c)] = r.id
    /\ r.code = 200 => Ruled(idempotency_key(c)) = r.verdict
RepliesTrue == \A c \in Calls : wire[c].msg = "reply" => TrueOf(c, wire[c].reply)

(* A call has a verdict once it has returned, and the posture's if it failed. *)
VerdictWhenDone ==
    \A c \in Calls :
        /\ phase[c] # "done" => verdict[c] = "none"
        /\ phase[c] = "done" /\ failed[c] => verdict[c] = on_error

CallsInv == Inv /\ CallsTypeOK /\ Ordered /\ PollsOwnReview /\ RepliesTrue /\ VerdictWhenDone

(* The session file has a row about the call's action with verdict v. *)
Recorded(c, v) ==
    \E i \in DOMAIN ledger :
        /\ ledger[i].text = Action[c].text /\ ledger[i].turn = Action[c].turn
        /\ ledger[i].verdict = v

(* A ruling is on record for every call of its key. *)
RulingsRecorded ==
    \A c \in Calls : Ruled(idempotency_key(c)) # "none" => Recorded(c, Ruled(idempotency_key(c)))

(* A question is about the action of the key whose review it settles. *)
QuestionsAbout ==
    \A n \in DOMAIN pending, c \in Calls :
        idempotency_key(c) \in DOMAIN idem /\ pending[n].review = idem[idempotency_key(c)] =>
            pending[n].text = Action[c].text /\ pending[n].turn = Action[c].turn

(* A verdict that came from the app is on record for the call that got it. *)
VerdictsRecorded == \A c \in Calls : phase[c] = "done" /\ ~failed[c] => Recorded(c, verdict[c])

OnRecord == RulingsRecorded /\ QuestionsAbout /\ VerdictsRecorded

-----------------------------------------------------------------------------
(* The composition implements the gate *)

(* What a call submits is one of the gate's requests, under a key of its own. *)
LEMMA CallInputs ==
    \A c \in Calls : /\ Action[c] \in Requests /\ Action[c] \in Request
                     /\ idempotency_key(c) \in Keys /\ idempotency_key(c) # NoKey
  BY CallsAssumption, GateAssumption

(* A step of the composition is a step of the gate, or none. *)
LEMMA StepOfGate == ASSUME [CallsNext]_allVars PROVE [Next]_vars
<1>1. ASSUME NEW c \in Calls, NEW f \in Faults, GatePost(c, f) PROVE Next
  <2>1. handleReviewPost(idempotency_key(c), Action[c], f)
    BY <1>1 DEF GatePost
  <2> QED
    BY <2>1, CallInputs DEF Next
<1>2. ASSUME NEW f \in Faults, Person(f) PROVE Next
  <2>1. PICK n \in Ids, allow \in BOOLEAN : handleDecision(n, allow, FALSE, f)
    BY <1>2 DEF Person
  <2>2. FALSE \in BOOLEAN
    OBVIOUS
  <2> QED
    BY <2>1, <2>2 DEF Next
<1>3. ASSUME NEW env \in BOOLEAN, AppRestart(env) PROVE Next
  BY <1>3 DEF AppRestart, Next
<1>4. ASSUME NEW c \in Calls,
             \/ submit_review(c) \/ poll_review(c) \/ GatePoll(c) \/ ReceivePending(c)
             \/ ReceiveVerdict(c) \/ ReceiveError(c) \/ Deadline(c) \/ Unreachable(c)
      PROVE  UNCHANGED vars
  BY <1>4 DEF submit_review, poll_review, GatePoll, ReceivePending, ReceiveVerdict, ReceiveError,
              Deadline, Unreachable
<1>5. CASE UNCHANGED allVars
  BY <1>5 DEF allVars
<1> QED
  BY <1>1, <1>2, <1>3, <1>4, <1>5 DEF CallsNext

(* Codex and the app together are an app as Gate describes it: everything that
   was proved of the gate alone holds in the composition. *)
THEOREM CallsImplementGate == CallsSpec => Spec
<1>1. CallsInit => Init
  BY DEF CallsInit
<1>2. [CallsNext]_allVars => [Next]_vars
  BY StepOfGate
<1> QED
  BY <1>1, <1>2, PTL DEF CallsSpec, Spec

-----------------------------------------------------------------------------
(* What a step of the gate leaves alone *)

(* A running app forgets no key and takes back no ruling. *)
LEMMA RulingsStay ==
    ASSUME Inv, [Next]_vars, restarts' = restarts
    PROVE  /\ \A k \in DOMAIN idem : k \in DOMAIN idem' /\ idem'[k] = idem[k]
           /\ \A k : Ruled(k) # "none" => Ruled(k)' = Ruled(k)
<1>1. \A id \in DOMAIN reviews : id \in DOMAIN reviews' /\ (reviews[id] # "pending" => reviews'[id] = reviews[id])
  BY InvStep DEF VerdictStep, vars, memory
<1>2. \A k \in DOMAIN idem : k \in DOMAIN idem' /\ idem'[k] = idem[k]
  <2>1. ASSUME NEW f \in Faults, NEW key \in Keys, NEW req \in Requests, handleReviewPost(key, req, f)
        PROVE  \A k \in DOMAIN idem : k \in DOMAIN idem' /\ idem'[k] = idem[k]
    BY <2>1, PostEffect, ZenonT(60) DEF Claim, Put, vars, memory
  <2>2. ASSUME NEW env \in BOOLEAN, Restart(env) PROVE FALSE
    BY <2>2 DEF Restart, Inv, TypeOK
  <2>3. ASSUME UNCHANGED idem PROVE \A k \in DOMAIN idem : k \in DOMAIN idem' /\ idem'[k] = idem[k]
    BY <2>3
  <2>4. ASSUME NEW n, NEW allow, NEW always, NEW f, settle(n, allow, always, f) PROVE UNCHANGED idem
    BY <2>4 DEF settle, SettleDone, SettleFails
  <2>5. ASSUME NEW call, NEW f, handleToolcall(call, f) PROVE UNCHANGED idem
    BY <2>5 DEF handleToolcall, ToolcallByRule, ToolcallAsk, memory
  <2>6. ASSUME NEW t, NEW f,
               \/ handleSettings(t, f) \/ RubbishAdd(t, f) \/ RubbishRemove(t, f)
               \/ BlockedRemove(t, f) \/ handleEvents(t, f)
        PROVE  UNCHANGED idem
    BY <2>6 DEF handleSettings, RubbishAdd, RubbishRemove, BlockedRemove, handleEvents, memory
  <2>7. CASE UNCHANGED vars
    BY <2>7 DEF vars, memory
  <2> QED
    BY <2>1, <2>2, <2>3, <2>4, <2>5, <2>6, <2>7 DEF Next, handleDecision, IslandFails
<1>3. ASSUME NEW k, Ruled(k) # "none" PROVE Ruled(k)' = Ruled(k)
  <2>1. k \in DOMAIN idem /\ idem[k] \in DOMAIN reviews /\ reviews[idem[k]] # "pending"
    BY <1>3 DEF Ruled
  <2> QED
    BY <1>1, <1>2, <2>1 DEF Ruled
<1> QED
  BY <1>2, <1>3

(* Only a restart changes the number of restarts. *)
LEMMA NoRestart ==
    ASSUME NEW key, NEW req, NEW n, NEW allow, NEW always, NEW f,
           handleReviewPost(key, req, f) \/ handleDecision(n, allow, always, f)
    PROVE  restarts' = restarts
  BY DEF handleReviewPost, PostRetry, PostLogFails, PostSkipped, PostClean, PostByRule, PostRuleSeedFails,
         PostByGrant, PostAsk, DecideNow, handleDecision, settle, SettleDone, SettleFails, vars

(* respondReview answers with one of the replies, and says what the table does. *)
LEMMA RespondType ==
    ASSUME NEW table, DOMAIN table \subseteq Ids, table \in [DOMAIN table -> Verdicts \cup {"pending"}], NEW id
    PROVE  /\ respondReview(table, id) \in Reply
           /\ respondReview(table, id).code = 202 => id \in DOMAIN table /\ respondReview(table, id).id = id
           /\ respondReview(table, id).code = 200 => /\ id \in DOMAIN table /\ table[id] # "pending"
                                                     /\ respondReview(table, id).verdict = table[id]
<1>1. CASE id \notin DOMAIN table
  <2>1. respondReview(table, id) = [code |-> 404]
    BY <1>1 DEF respondReview
  <2> QED
    BY <2>1 DEF Reply
<1>2. CASE id \in DOMAIN table /\ table[id] = "pending"
  <2>1. respondReview(table, id) = [code |-> 202, id |-> id] /\ id \in Ids
    BY <1>2 DEF respondReview
  <2> QED
    BY <1>2, <2>1 DEF Reply
<1>3. CASE id \in DOMAIN table /\ table[id] # "pending"
  <2>1. respondReview(table, id) = [code |-> 200, verdict |-> table[id]] /\ table[id] \in Verdicts
    BY <1>3 DEF respondReview
  <2> QED
    BY <1>3, <2>1 DEF Reply
<1> QED
  BY <1>1, <1>2, <1>3

(* A request that is handled to its end binds the call's key and is answered
   for it. *)
LEMMA PostReply ==
    ASSUME Inv, NEW c \in Calls, "none" \in Faults,
           handleReviewPost(idempotency_key(c), Action[c], "none")
    PROVE  LET id == idem'[idempotency_key(c)]
               r == respondReview(reviews', id)
           IN /\ r \in Reply
              /\ r.code = 202 => idempotency_key(c) \in DOMAIN idem' /\ id = r.id
              /\ r.code = 200 => Ruled(idempotency_key(c))' = r.verdict
<1> DEFINE key == idempotency_key(c)
<1>1. Next /\ key \in Keys /\ key # NoKey
  BY CallInputs DEF Next
<1>2. Inv'
  BY <1>1, InvStep
<1>3. key \in DOMAIN idem'
  <2>1. Claim(key) => idem' = Put(idem, key, NewId(key))
    BY <1>1 DEF Claim
  <2>2. (key \in DOMAIN idem /\ UNCHANGED idem) \/ Claim(key)
    BY <1>1, PostEffect, CallInputs DEF vars, memory
  <2> QED
    BY <2>1, <2>2 DEF Put
<1>4. DOMAIN reviews' \subseteq Ids /\ reviews' \in [DOMAIN reviews' -> Verdicts \cup {"pending"}]
  BY <1>2 DEF Inv, TypeOK, TablesOK
<1> QED
  BY <1>3, <1>4, RespondType DEF Ruled

-----------------------------------------------------------------------------
(* Type correctness of the client *)

(* The messages that carry no reply *)
LEMMA Messages ==
    /\ {NoMessage, Post, Poll, Hang, Broken} \subseteq WireSpace
    /\ \A m \in {NoMessage, Post, Poll, Hang, Broken} : m.msg # "reply"
    /\ \A r \in Reply : Answered(r) \in WireSpace
    /\ \A r : Answered(r).msg = "reply" /\ Answered(r).reply = r /\ Answered(r) \notin {Post, Poll}
    /\ {NoMessage, Hang, Broken} \cap {Post, Poll} = {} /\ Post # Poll
<1>1. /\ NoMessage.msg = "none" /\ Post.msg = "post" /\ Poll.msg = "poll" /\ Hang.msg = "hang"
      /\ Broken.msg = "broken"
  BY DEF NoMessage, Post, Poll, Hang, Broken
<1>2. \A r : Answered(r).msg = "reply" /\ Answered(r).reply = r
  BY DEF Answered
<1>3. \A r : Answered(r) \notin {Post, Poll}
  BY <1>1, <1>2
<1>4. {NoMessage, Hang, Broken} \cap {Post, Poll} = {} /\ Post # Poll
  BY <1>1
<1> QED
  BY <1>1, <1>2, <1>3, <1>4 DEF WireSpace

(* What has a reply carries one of the gate's. *)
LEMMA ReplyTyped ==
    ASSUME NEW m \in WireSpace, m.msg = "reply"
    PROVE  /\ m.reply \in Reply
           /\ m.reply.code = 200 => m.reply.verdict \in Verdicts
           /\ m.reply.code = 202 => m.reply.id \in Ids
<1>1. PICK r \in Reply : m = Answered(r)
  BY Messages DEF WireSpace
<1>2. m.reply = r
  BY <1>1 DEF Answered
<1> QED
  BY <1>2 DEF Reply

(* A step of the composition keeps the client typed. *)
LEMMA CallsTypeStep ==
    ASSUME Inv, CallsTypeOK, [CallsNext]_allVars
    PROVE  CallsTypeOK'
<1> USE DEF CallsTypeOK
<1>0. on_error \in Verdicts \cup {"none", "defer"}
  BY DEF on_error, Verdicts
<1>1. ASSUME NEW c \in Calls, submit_review(c) \/ poll_review(c) PROVE CallsTypeOK'
  BY <1>1, Messages DEF submit_review, poll_review
<1>2. ASSUME NEW c \in Calls, GatePoll(c) PROVE CallsTypeOK'
  <2>1. respondReview(reviews, loc[c]) \in Reply
    BY RespondType DEF Inv, TypeOK, TablesOK
  <2> QED
    BY <1>2, <2>1, Messages DEF GatePoll
<1>3. ASSUME NEW c \in Calls, ReceivePending(c) PROVE CallsTypeOK'
  <2>1. wire[c].reply.id \in Ids
    BY <1>3, ReplyTyped DEF ReceivePending
  <2> QED
    BY <1>3, <2>1, Messages DEF ReceivePending
<1>4. ASSUME NEW c \in Calls, ReceiveVerdict(c) PROVE CallsTypeOK'
  <2>1. wire[c].reply.verdict \in Verdicts
    BY <1>4, ReplyTyped DEF ReceiveVerdict
  <2> QED
    BY <1>4, <2>1, Messages DEF ReceiveVerdict, Return
<1>5. ASSUME NEW c \in Calls, ReceiveError(c) \/ Deadline(c) PROVE CallsTypeOK'
  <2>1. PICK m \in WireSpace : wire' = [wire EXCEPT ![c] = m]
    BY <1>5, Messages DEF ReceiveError, Deadline
  <2>2. Return(c, on_error, TRUE) /\ UNCHANGED <<plan, loc>>
    BY <1>5 DEF ReceiveError, Deadline
  <2> QED
    BY <1>0, <2>1, <2>2 DEF Return
<1>6. ASSUME NEW c \in Calls, Unreachable(c) PROVE CallsTypeOK'
  BY <1>6, Messages DEF Unreachable
<1>7. ASSUME NEW c \in Calls, NEW f \in Faults, GatePost(c, f) PROVE CallsTypeOK'
  <2>1. f = "none" => respondReview(reviews', idem'[idempotency_key(c)]) \in Reply
    BY <1>7, PostReply DEF GatePost
  <2>2. PICK m \in WireSpace : wire' = [wire EXCEPT ![c] = m]
    BY <1>7, <2>1, Messages DEF GatePost
  <2> QED
    BY <1>7, <2>2 DEF GatePost
<1>8. ASSUME NEW f \in Faults, Person(f) PROVE CallsTypeOK'
  BY <1>8 DEF Person, client
<1>9. ASSUME NEW env \in BOOLEAN, AppRestart(env) PROVE CallsTypeOK'
  BY <1>9, Messages DEF AppRestart
<1>10. CASE UNCHANGED allVars
  BY <1>10 DEF allVars, client
<1> QED
  BY <1>1, <1>2, <1>3, <1>4, <1>5, <1>6, <1>7, <1>8, <1>9, <1>10 DEF CallsNext

(* What codex holds about its guarded calls always has its type. *)
THEOREM CallsTyped == CallsSpec => []CallsTypeOK
<1>1. CallsInit /\ TypeOK => Inv /\ CallsTypeOK
  BY InvInit, Messages, CallsAssumption DEF CallsInit, CallsTypeOK
<1>2. Inv /\ CallsTypeOK /\ [CallsNext]_allVars => Inv' /\ CallsTypeOK'
  BY StepOfGate, InvStep, CallsTypeStep
<1> QED
  BY <1>1, <1>2, CallsImplementGate, GateTyped, PTL DEF CallsSpec

-----------------------------------------------------------------------------
(* The inductive invariant holds *)


(* Calls keep their order, and have verdicts only once they returned. *)
LEMMA OrderStep ==
    ASSUME CallsTypeOK, CallsTypeOK', Ordered, VerdictWhenDone, [CallsNext]_allVars
    PROVE  Ordered' /\ VerdictWhenDone'
<1> USE DEF CallsTypeOK, Active
<1>0. /\ plan' = plan /\ plan.after \in [Calls -> SUBSET Calls]
  <2>1. plan' = plan
    BY DEF CallsNext, allVars, client, submit_review, poll_review, GatePoll, ReceivePending, ReceiveVerdict,
           ReceiveError, Deadline, Unreachable, GatePost, Person, AppRestart
  <2> QED
    BY <2>1, CallsAssumption
<1>1. ASSUME NEW c \in Calls, submit_review(c) PROVE Ordered' /\ VerdictWhenDone'
  BY <1>0, <1>1, Messages DEF submit_review, Ordered, VerdictWhenDone
<1>2. ASSUME NEW c \in Calls, poll_review(c) PROVE Ordered' /\ VerdictWhenDone'
  BY <1>0, <1>2 DEF poll_review, Ordered, VerdictWhenDone
<1>3. ASSUME NEW c \in Calls, ReceivePending(c) PROVE Ordered' /\ VerdictWhenDone'
  BY <1>0, <1>3, Messages DEF ReceivePending, Ordered, VerdictWhenDone
<1>4. ASSUME NEW c \in Calls, NEW v, NEW err \in BOOLEAN, err => v = on_error, phase[c] \in {"waiting", "sleeping"},
             Return(c, v, err), wire'[c] # Poll, \A d \in Calls \ {c} : wire'[d] = wire[d], loc' = loc
      PROVE  Ordered' /\ VerdictWhenDone'
  <2>1. /\ phase'[c] = "done" /\ verdict'[c] = v /\ failed'[c] = err
        /\ \A d \in Calls \ {c} : phase'[d] = phase[d] /\ verdict'[d] = verdict[d] /\ failed'[d] = failed[d]
    BY <1>4 DEF Return
  <2>2. Ordered'
    BY <1>0, <1>4, <2>1 DEF Ordered
  <2>3. VerdictWhenDone'
    BY <1>4, <2>1 DEF VerdictWhenDone, on_error
  <2> QED
    BY <2>2, <2>3
<1>5. ASSUME NEW c \in Calls, ReceiveVerdict(c) PROVE Ordered' /\ VerdictWhenDone'
  <2>1. /\ Return(c, wire[c].reply.verdict, FALSE) /\ loc' = loc /\ phase[c] \in {"waiting", "sleeping"}
        /\ wire' = [wire EXCEPT ![c] = NoMessage]
    BY <1>5 DEF ReceiveVerdict
  <2>2. wire'[c] # Poll /\ \A d \in Calls \ {c} : wire'[d] = wire[d]
    BY <2>1, Messages
  <2> QED
    BY <1>4, <2>1, <2>2
<1>6. ASSUME NEW c \in Calls, ReceiveError(c) \/ Deadline(c) PROVE Ordered' /\ VerdictWhenDone'
  <2>1. Return(c, on_error, TRUE) /\ loc' = loc /\ phase[c] \in {"waiting", "sleeping"}
    BY <1>6 DEF ReceiveError, Deadline
  <2>2. PICK m \in {NoMessage, Post} : wire' = [wire EXCEPT ![c] = m]
    BY <1>6 DEF ReceiveError, Deadline
  <2>3. wire'[c] # Poll /\ \A d \in Calls \ {c} : wire'[d] = wire[d]
    BY <2>2, Messages
  <2> QED
    BY <1>4, <2>1, <2>3
<1>7. ASSUME UNCHANGED <<phase, loc, verdict, failed>>, \A c \in Calls : wire'[c] = Poll => wire[c] = Poll
      PROVE  Ordered' /\ VerdictWhenDone'
  BY <1>0, <1>7 DEF Ordered, VerdictWhenDone, on_error
<1>8. ASSUME NEW c \in Calls, GatePoll(c) \/ Unreachable(c) PROVE Ordered' /\ VerdictWhenDone'
  BY <1>7, <1>8, Messages DEF GatePoll, Unreachable
<1>9. ASSUME NEW c \in Calls, NEW f \in Faults, GatePost(c, f) PROVE Ordered' /\ VerdictWhenDone'
  BY <1>7, <1>9, Messages DEF GatePost
<1>10. ASSUME NEW env \in BOOLEAN, AppRestart(env) PROVE Ordered' /\ VerdictWhenDone'
  BY <1>7, <1>10, Messages DEF AppRestart
<1>11. CASE (\E f \in Faults : Person(f)) \/ UNCHANGED allVars
  BY <1>7, <1>11 DEF Person, client, allVars
<1> QED
  BY <1>1, <1>2, <1>3, <1>5, <1>6, <1>8, <1>9, <1>10, <1>11 DEF CallsNext

(* While the app runs, a reply on the wire stays true of its call's key. *)
LEMMA TrueStays ==
    ASSUME Inv, CallsTypeOK, RepliesTrue, [Next]_vars, restarts' = restarts,
           NEW c \in Calls, wire[c].msg = "reply"
    PROVE  /\ wire[c].reply.code = 202 =>
                idempotency_key(c) \in DOMAIN idem' /\ idem'[idempotency_key(c)] = wire[c].reply.id
           /\ wire[c].reply.code = 200 => Ruled(idempotency_key(c))' = wire[c].reply.verdict
<1> DEFINE k == idempotency_key(c)
           r == wire[c].reply
<1>1. TrueOf(c, r)
  BY DEF RepliesTrue
<1>2. /\ \A x \in DOMAIN idem : x \in DOMAIN idem' /\ idem'[x] = idem[x]
      /\ Ruled(k) # "none" => Ruled(k)' = Ruled(k)
  BY RulingsStay
<1>3. r.code = 200 => r.verdict # "none"
  BY ReplyTyped DEF CallsTypeOK, Verdicts
<1> QED
  BY <1>1, <1>2, <1>3 DEF TrueOf

(* Every reply put on the wire is true of the call's key, and stays so. *)
LEMMA RepliesStep ==
    ASSUME Inv, CallsTypeOK, CallsTypeOK', Ordered, PollsOwnReview, RepliesTrue, [CallsNext]_allVars
    PROVE  RepliesTrue'
<1>0. wire \in [Calls -> WireSpace] /\ [Next]_vars
  BY StepOfGate DEF CallsTypeOK
<1>1. ASSUME restarts' = restarts, NEW c \in Calls, NEW m, wire' = [wire EXCEPT ![c] = m],
             m.msg = "reply" =>
                /\ m.reply.code = 202 =>
                      idempotency_key(c) \in DOMAIN idem' /\ idem'[idempotency_key(c)] = m.reply.id
                /\ m.reply.code = 200 => Ruled(idempotency_key(c))' = m.reply.verdict
      PROVE  RepliesTrue'
  <2> SUFFICES ASSUME NEW d \in Calls, wire'[d].msg = "reply"
               PROVE  /\ wire'[d].reply.code = 202 => /\ idempotency_key(d) \in DOMAIN idem'
                                                      /\ idem'[idempotency_key(d)] = wire'[d].reply.id
                      /\ wire'[d].reply.code = 200 => Ruled(idempotency_key(d))' = wire'[d].reply.verdict
    BY DEF RepliesTrue, TrueOf
  <2>1. CASE d = c
    <3>1. wire'[c] = m
      BY <1>0, <1>1
    <3> QED
      BY <1>1, <2>1, <3>1
  <2>2. CASE d # c
    <3>1. wire'[d] = wire[d]
      BY <1>0, <1>1, <2>2
    <3> QED
      BY <1>0, <1>1, <3>1, TrueStays
  <2> QED
    BY <2>1, <2>2
<1>2. ASSUME NEW c \in Calls,
             \/ submit_review(c) \/ poll_review(c) \/ ReceivePending(c) \/ ReceiveVerdict(c)
             \/ ReceiveError(c) \/ Deadline(c) \/ Unreachable(c)
      PROVE  RepliesTrue'
  <2>1. PICK m \in {NoMessage, Post, Poll, Broken} : wire' = [wire EXCEPT ![c] = m]
    BY <1>2 DEF submit_review, poll_review, ReceivePending, ReceiveVerdict, ReceiveError, Deadline, Unreachable
  <2>2. restarts' = restarts
    BY <1>2 DEF submit_review, poll_review, ReceivePending, ReceiveVerdict, ReceiveError, Deadline, Unreachable,
                vars
  <2> QED
    BY <1>1, <2>1, <2>2, Messages
<1>3. ASSUME NEW c \in Calls, GatePoll(c) PROVE RepliesTrue'
  <2> DEFINE r == respondReview(reviews, loc[c])
             k == idempotency_key(c)
  <2>1. wire' = [wire EXCEPT ![c] = Answered(r)] /\ UNCHANGED vars /\ wire[c] = Poll
    BY <1>3 DEF GatePoll
  <2>2. /\ r.code = 202 => loc[c] \in DOMAIN reviews /\ r.id = loc[c]
        /\ r.code = 200 => loc[c] \in DOMAIN reviews /\ reviews[loc[c]] # "pending" /\ r.verdict = reviews[loc[c]]
    BY RespondType DEF Inv, TypeOK, TablesOK
  <2>3. loc[c] \in DOMAIN reviews => k \in DOMAIN idem /\ idem[k] = loc[c]
    <3>1. Active(c) /\ 0 \notin DOMAIN reviews
      BY <2>1, GateAssumption DEF Ordered, Inv, TypeOK, TablesOK, Ids
    <3> QED
      BY <3>1 DEF PollsOwnReview, Forgotten
  <2>4. UNCHANGED <<restarts, idem, reviews>> /\ Ruled(k)' = Ruled(k)
    BY <2>1 DEF vars, memory, Ruled
  <2>5. /\ r.code = 202 => k \in DOMAIN idem' /\ idem'[k] = r.id
        /\ r.code = 200 => Ruled(k)' = r.verdict
    BY <2>2, <2>3, <2>4 DEF Ruled
  <2> HIDE DEF r
  <2>6. PICK m : wire' = [wire EXCEPT ![c] = m] /\ m.reply = r
    BY <2>1, Messages
  <2>7. /\ m.reply.code = 202 =>
              idempotency_key(c) \in DOMAIN idem' /\ idem'[idempotency_key(c)] = m.reply.id
        /\ m.reply.code = 200 => Ruled(idempotency_key(c))' = m.reply.verdict
    BY <2>5, <2>6
  <2> QED
    BY <1>1, <2>4, <2>6, <2>7
<1>4. ASSUME NEW c \in Calls, NEW f \in Faults, GatePost(c, f) PROVE RepliesTrue'
  <2> DEFINE r == respondReview(reviews', idem'[idempotency_key(c)])
  <2>1. handleReviewPost(idempotency_key(c), Action[c], f)
    BY <1>4 DEF GatePost
  <2>2. restarts' = restarts
    BY <2>1, NoRestart
  <2>3. f = "none" =>
          /\ r.code = 202 => idempotency_key(c) \in DOMAIN idem' /\ idem'[idempotency_key(c)] = r.id
          /\ r.code = 200 => Ruled(idempotency_key(c))' = r.verdict
    BY <2>1, PostReply
  <2>4. PICK m : wire' = [wire EXCEPT ![c] = m] /\ (m.msg = "reply" => f = "none" /\ m.reply = r)
    BY <1>4, Messages DEF GatePost
  <2>5. m.msg = "reply" =>
          /\ m.reply.code = 202 =>
                idempotency_key(c) \in DOMAIN idem' /\ idem'[idempotency_key(c)] = m.reply.id
          /\ m.reply.code = 200 => Ruled(idempotency_key(c))' = m.reply.verdict
    BY <2>3, <2>4
  <2> QED
    BY <1>1, <2>2, <2>4, <2>5
<1>5. ASSUME NEW f \in Faults, Person(f) PROVE RepliesTrue'
  <2>1. restarts' = restarts /\ wire' = wire
    BY <1>5, NoRestart DEF Person, client
  <2> QED
    BY <1>0, <2>1, TrueStays DEF RepliesTrue, TrueOf
<1>6. ASSUME NEW env \in BOOLEAN, AppRestart(env) PROVE RepliesTrue'
  BY <1>6, Messages DEF AppRestart, RepliesTrue
<1>7. CASE UNCHANGED allVars
  <2>1. restarts' = restarts /\ wire' = wire
    BY <1>7 DEF allVars, vars, client
  <2> QED
    BY <1>0, <2>1, TrueStays DEF RepliesTrue, TrueOf
<1> QED
  BY <1>2, <1>3, <1>4, <1>5, <1>6, <1>7 DEF CallsNext

(* A call that polls after a restart is alone, so what it polls for is its own
   review or gone. *)
LEMMA PollsStep ==
    ASSUME PlansOrdered, Inv, CallsTypeOK, CallsTypeOK', Ordered, PollsOwnReview, RepliesTrue,
           [CallsNext]_allVars
    PROVE  PollsOwnReview'
<1> DEFINE Own(c) == idempotency_key(c) \in DOMAIN idem' /\ idem'[idempotency_key(c)] = loc'[c]
<1>0. /\ wire \in [Calls -> WireSpace] /\ loc \in [Calls -> Ids \cup {0}] /\ plan \in Plans
      /\ phase \in [Calls -> {"idle", "waiting", "sleeping", "done"}]
      /\ plan.restarts \in Nat /\ restarts \in Nat /\ [Next]_vars
  BY StepOfGate, CallsAssumption, GateAssumption DEF CallsTypeOK, Inv, TypeOK
<1>1. ASSUME UNCHANGED <<vars, plan, loc>>,
             \A c \in Calls : Active(c)' => Active(c),
             \A c \in Calls : wire'[c] = Post => wire[c] = Post
      PROVE  PollsOwnReview'
  BY <1>1 DEF PollsOwnReview, Forgotten, vars, memory
<1>2. ASSUME NEW c \in Calls, submit_review(c) PROVE PollsOwnReview'
  <2>1. /\ phase[c] = "idle" /\ \A d \in plan.after[c] : phase[d] = "done"
        /\ phase' = [phase EXCEPT ![c] = "waiting"] /\ UNCHANGED <<vars, plan, loc>>
    BY <1>2 DEF submit_review
  <2>2. loc[c] = 0
    BY <2>1 DEF Ordered
  <2>3. ASSUME NEW d \in Calls, d # c, Active(d), Forgotten PROVE FALSE
    <3>1. c \in plan.after[d] \/ d \in plan.after[c]
      BY <1>0, <2>3 DEF PlansOrdered, Forgotten
    <3> QED
      BY <2>1, <2>3, <3>1 DEF Ordered, Active
  <2>4. \A d \in Calls \ {c} : Active(d)' = Active(d)
    BY <1>0, <2>1 DEF Active
  <2> QED
    BY <2>1, <2>2, <2>3, <2>4 DEF PollsOwnReview, vars, memory
<1>3. ASSUME NEW c \in Calls, poll_review(c) PROVE PollsOwnReview'
  <2>1. \A d \in Calls : Active(d)' => Active(d)
    BY <1>0, <1>3 DEF poll_review, Active
  <2>2. \A d \in Calls : wire'[d] = Post => wire[d] = Post
    BY <1>0, <1>3, Messages DEF poll_review
  <2> QED
    BY <1>1, <1>3, <2>1, <2>2 DEF poll_review
<1>4. ASSUME NEW c \in Calls, GatePoll(c) \/ Unreachable(c) PROVE PollsOwnReview'
  <2>1. UNCHANGED <<vars, plan, loc, phase>>
    BY <1>4 DEF GatePoll, Unreachable
  <2>2. PICK m : wire' = [wire EXCEPT ![c] = m] /\ m # Post
    BY <1>4, Messages DEF GatePoll, Unreachable
  <2>3. \A d \in Calls : wire'[d] = Post => wire[d] = Post
    BY <1>0, <2>2
  <2> QED
    BY <1>1, <2>1, <2>3 DEF Active
<1>5. ASSUME NEW c \in Calls, ReceivePending(c) PROVE PollsOwnReview'
  <2>1. /\ Active(c) /\ loc' = [loc EXCEPT ![c] = IF loc[c] = 0 THEN wire[c].reply.id ELSE loc[c]]
        /\ UNCHANGED <<idem, reviews, pending, plan>>
    BY <1>5 DEF ReceivePending, Active, vars, memory
  <2>2. \A d \in Calls : Active(d)' => Active(d)
    BY <1>0, <1>5 DEF ReceivePending, Active
  <2>3. Forgotten => Forgotten'
    <3>1. wire' = [wire EXCEPT ![c] = NoMessage] /\ NoMessage # Post
      BY <1>5, Messages DEF ReceivePending
    <3>2. \A d \in Calls : wire'[d] = Post => wire[d] = Post
      BY <1>0, <3>1
    <3> QED
      BY <2>1, <3>2 DEF Forgotten
  <2>4. idempotency_key(c) \in DOMAIN idem /\ idem[idempotency_key(c)] = wire[c].reply.id
    BY <1>5 DEF ReceivePending, RepliesTrue, TrueOf
  <2> SUFFICES ASSUME NEW d \in Calls, Active(d)', loc'[d] # 0 PROVE Forgotten' \/ Own(d)
    BY DEF PollsOwnReview
  <2>5. CASE d = c
    BY <1>0, <2>1, <2>3, <2>4, <2>5 DEF PollsOwnReview
  <2>6. CASE d # c
    BY <1>0, <2>1, <2>2, <2>3, <2>6 DEF PollsOwnReview
  <2> QED
    BY <2>5, <2>6
<1>6. ASSUME NEW c \in Calls, ReceiveVerdict(c) \/ ReceiveError(c) \/ Deadline(c) PROVE PollsOwnReview'
  <2>1. phase' = [phase EXCEPT ![c] = "done"] /\ UNCHANGED <<vars, plan, loc>>
    BY <1>6 DEF ReceiveVerdict, ReceiveError, Deadline, Return
  <2>2. PICK m : wire' = [wire EXCEPT ![c] = m] /\ (m = Post => wire[c] = Post)
    BY <1>6, Messages DEF ReceiveVerdict, ReceiveError, Deadline
  <2>3. \A d \in Calls : Active(d)' => Active(d)
    BY <1>0, <2>1 DEF Active
  <2>4. \A d \in Calls : wire'[d] = Post => wire[d] = Post
    BY <1>0, <2>2
  <2> QED
    BY <1>1, <2>1, <2>3, <2>4
<1>7. ASSUME restarts' = restarts, UNCHANGED <<phase, loc>>, ~Forgotten PROVE PollsOwnReview'
  <2>1. \A k \in DOMAIN idem : k \in DOMAIN idem' /\ idem'[k] = idem[k]
    BY <1>0, <1>7, RulingsStay
  <2> QED
    BY <1>7, <2>1 DEF PollsOwnReview, Active
<1>8. ASSUME NEW c \in Calls, NEW f \in Faults, GatePost(c, f) PROVE PollsOwnReview'
  <2>1. restarts' = restarts /\ ~Forgotten /\ UNCHANGED <<phase, loc>>
    BY <1>8, NoRestart DEF GatePost, Forgotten
  <2> QED
    BY <1>7, <2>1
<1>9. ASSUME NEW f \in Faults, Person(f) PROVE PollsOwnReview'
  <2>1. restarts' = restarts /\ ~Forgotten /\ UNCHANGED <<phase, loc>>
    BY <1>9, NoRestart DEF Person, handleDecision, Forgotten, client
  <2> QED
    BY <1>7, <2>1
<1>10. ASSUME NEW env \in BOOLEAN, AppRestart(env) PROVE PollsOwnReview'
  <2>1. DOMAIN reviews' = {} /\ DOMAIN pending' = {} /\ plan.restarts > 0 /\ plan' = plan
    BY <1>0, <1>10 DEF AppRestart, Restart, NoEntries
  <2>2. Forgotten'
    BY <1>10, <2>1, Messages DEF AppRestart, Forgotten
  <2> QED
    BY <2>2 DEF PollsOwnReview
<1>11. CASE UNCHANGED allVars
  BY <1>1, <1>11 DEF allVars, client, Active
<1> QED
  BY <1>2, <1>3, <1>4, <1>5, <1>6, <1>8, <1>9, <1>10, <1>11 DEF CallsNext

(* The invariant holds at the start and every step keeps it. *)
LEMMA CallsInvHolds ==
    ASSUME PlansOrdered
    PROVE  /\ CallsInit /\ TypeOK => CallsInv
           /\ CallsInv /\ [CallsNext]_allVars => CallsInv'
<1>1. ASSUME CallsInit, TypeOK PROVE CallsInv
  <2>1. Inv /\ CallsTypeOK
    BY <1>1, InvInit, Messages, CallsAssumption DEF CallsInit, CallsTypeOK
  <2>2. \A c \in Calls : phase[c] = "idle" /\ loc[c] = 0 /\ wire[c] = NoMessage /\ verdict[c] = "none"
    BY <1>1 DEF CallsInit
  <2> QED
    BY <2>1, <2>2, Messages DEF CallsInv, Ordered, PollsOwnReview, RepliesTrue, VerdictWhenDone, Active
<1>2. ASSUME CallsInv, [CallsNext]_allVars PROVE CallsInv'
  <2>1. Inv' /\ CallsTypeOK'
    BY <1>2, StepOfGate, InvStep, CallsTypeStep DEF CallsInv
  <2> QED
    BY <1>2, <2>1, OrderStep, RepliesStep, PollsStep DEF CallsInv
<1> QED
  BY <1>1, <1>2

-----------------------------------------------------------------------------
(* Admissions rest on rows *)

(* A row more in the session file: the old ones stay where they are. *)
LEMMA RowAdded ==
    ASSUME TypeOK, NEW row \in Row, ledger' = Append(ledger, row)
    PROVE  /\ \A c, v : Recorded(c, v) => Recorded(c, v)'
           /\ \A c \in Calls : row.text = Action[c].text /\ row.turn = Action[c].turn =>
                  Recorded(c, row.verdict)'
<1>1. /\ \A i \in DOMAIN ledger : i \in DOMAIN ledger' /\ ledger'[i] = ledger[i]
      /\ Len(ledger) + 1 \in DOMAIN ledger' /\ ledger'[Len(ledger) + 1] = row
  BY AppendFacts DEF TypeOK
<1> QED
  BY <1>1 DEF Recorded

(* Rows are never taken back. *)
LEMMA RecordsStay ==
    ASSUME Inv, [Next]_vars
    PROVE  \A c, v : Recorded(c, v) => Recorded(c, v)'
<1>1. ASSUME ledger' = ledger PROVE \A c, v : Recorded(c, v) => Recorded(c, v)'
  BY <1>1 DEF Recorded
<1>2. ASSUME NEW row \in Row, NEW f, LogReview(row, f) PROVE \A c, v : Recorded(c, v) => Recorded(c, v)'
  BY <1>1, <1>2, RowAdded DEF LogReview, Inv
<1>3. ASSUME NEW n \in DOMAIN pending, NEW allow \in BOOLEAN, NEW always \in BOOLEAN, NEW f \in Faults,
             settle(n, allow, always, f)
      PROVE  \A c, v : Recorded(c, v) => Recorded(c, v)'
  <2> DEFINE q == pending[n]
             row == RowOf(q.review, q, q.hits, verdictFor(allow), "island")
  <2>1. ledger' = ledger \/ (q.review # 0 /\ LogReview(row, f))
    BY <1>3 DEF settle, SettleDone, SettleFails, Answer
  <2>2. q.review # 0 => row \in Row
    BY DEF Inv, TypeOK, TablesOK, Question, RowOf, Row, verdictFor, Verdicts
  <2> HIDE DEF row
  <2> QED
    BY <1>1, <1>2, <2>1, <2>2
<1> QED
  BY <1>1, <1>2, <1>3, LogStep

(* A handled request is ruled on record, or asked about under its own key. *)
LEMMA PostOnRecord ==
    ASSUME "session" \notin Faults, KeysTellActionsApart, Inv, RulingsRecorded, QuestionsAbout,
           NEW c0 \in Calls, NEW f \in Faults, handleReviewPost(idempotency_key(c0), Action[c0], f)
    PROVE  RulingsRecorded' /\ QuestionsAbout'
<1> DEFINE k0 == idempotency_key(c0)
           N == NewId(k0)
<1>0. k0 \in Keys /\ k0 # NoKey /\ Action[c0] \in Requests
  BY CallInputs
<1>1. /\ N \notin DOMAIN reviews /\ N \in Nat /\ \A k \in DOMAIN idem : idem[k] # N
      /\ \A n \in DOMAIN pending : n < N /\ pending[n].review # N
  BY <1>0, FreshId
<1>2. \A c, v : Recorded(c, v) => Recorded(c, v)'
  <2>1. Next
    BY <1>0 DEF Next
  <2> QED
    BY <2>1, RecordsStay
<1>3. CASE UNCHANGED vars
  BY <1>3 DEF vars, memory, RulingsRecorded, QuestionsAbout, Recorded, Ruled
<1>4. ASSUME k0 \notin DOMAIN idem, Claim(k0)
      PROVE  /\ DOMAIN idem' = DOMAIN idem \cup {k0} /\ idem'[k0] = N
             /\ \A k \in DOMAIN idem : idem'[k] = idem[k]
  BY <1>0, <1>4 DEF Claim, Put
<1> HIDE DEF N
<1>5. CASE k0 \notin DOMAIN idem /\ Claim(k0) /\ UNCHANGED <<reviews, pending, ledger>>
  <2>1. \A k : k # k0 => Ruled(k)' = Ruled(k)
    BY <1>4, <1>5 DEF Ruled
  <2>2. Ruled(k0)' = "none"
    BY <1>1, <1>4, <1>5 DEF Ruled
  <2>3. RulingsRecorded'
    BY <1>2, <2>1, <2>2 DEF RulingsRecorded
  <2>4. QuestionsAbout'
    BY <1>1, <1>4, <1>5 DEF QuestionsAbout
  <2> QED
    BY <2>3, <2>4
<1>6. ASSUME k0 \notin DOMAIN idem, Claim(k0), NEW row \in Row, row.text = Action[c0].text,
             row.turn = Action[c0].turn, reviews' = Put(reviews, N, row.verdict), LogReview(row, f),
             UNCHANGED pending
      PROVE  RulingsRecorded' /\ QuestionsAbout'
  <2>0. ledger' = Append(ledger, row) /\ row.verdict # "pending"
    BY <1>6 DEF LogReview, Row, Verdicts
  <2>1. /\ DOMAIN reviews' = DOMAIN reviews \cup {N} /\ reviews'[N] = row.verdict
        /\ \A id \in DOMAIN reviews : reviews'[id] = reviews[id]
    BY <1>1, <1>6 DEF Put
  <2>2. ASSUME NEW k, k # k0 PROVE Ruled(k)' = Ruled(k)
    <3>1. k \in DOMAIN idem' <=> k \in DOMAIN idem
      BY <1>4, <1>6, <2>2
    <3>2. CASE k \in DOMAIN idem
      <4>1. idem'[k] = idem[k] /\ idem[k] # N
        BY <1>1, <1>4, <1>6, <3>2
      <4> QED
        BY <2>1, <3>1, <3>2, <4>1 DEF Ruled
    <3>3. CASE k \notin DOMAIN idem
      BY <3>1, <3>3 DEF Ruled
    <3> QED
      BY <3>2, <3>3
  <2>3. Ruled(k0)' = row.verdict
    BY <1>4, <1>6, <2>0, <2>1 DEF Ruled
  <2>4. \A c \in Calls : idempotency_key(c) = k0 => Recorded(c, row.verdict)'
    BY <1>6, <2>0, RowAdded DEF KeysTellActionsApart, Inv
  <2>5. RulingsRecorded'
    BY <1>2, <2>2, <2>3, <2>4 DEF RulingsRecorded
  <2>6. QuestionsAbout'
    BY <1>1, <1>4, <1>6 DEF QuestionsAbout
  <2> QED
    BY <2>5, <2>6
<1>7. ASSUME k0 \notin DOMAIN idem, Claim(k0), NEW q \in Question, q.review = N, q.text = Action[c0].text,
             q.turn = Action[c0].turn, reviews' = Put(reviews, N, "pending"),
             pending' = Put(pending, N + 1, q), UNCHANGED ledger
      PROVE  RulingsRecorded' /\ QuestionsAbout'
  <2>1. /\ DOMAIN reviews' = DOMAIN reviews \cup {N} /\ reviews'[N] = "pending"
        /\ \A id \in DOMAIN reviews : reviews'[id] = reviews[id]
    BY <1>1, <1>7 DEF Put
  <2>2. ASSUME NEW k PROVE Ruled(k)' = Ruled(k)
    <3>1. CASE k \in DOMAIN idem
      <4>1. idem'[k] = idem[k] /\ idem[k] # N /\ k \in DOMAIN idem'
        BY <1>1, <1>4, <1>7, <3>1
      <4> QED
        BY <2>1, <3>1, <4>1 DEF Ruled
    <3>2. CASE k \notin DOMAIN idem
      <4>1. Ruled(k)' = "none"
        BY <1>4, <1>7, <2>1, <3>2 DEF Ruled
      <4> QED
        BY <3>2, <4>1 DEF Ruled
    <3> QED
      BY <3>1, <3>2
  <2>3. RulingsRecorded'
    BY <1>2, <2>2 DEF RulingsRecorded
  <2>4. /\ DOMAIN pending' = DOMAIN pending \cup {N + 1} /\ pending'[N + 1] = q
        /\ \A n \in DOMAIN pending : n # N + 1 => pending'[n] = pending[n]
    BY <1>7 DEF Put
  <2>5. \A n \in DOMAIN pending : n # N + 1
    <3>1. DOMAIN pending \subseteq Nat
      BY GateAssumption DEF Inv, TypeOK, TablesOK, Ids
    <3> QED
      BY <1>1, <3>1
  <2>6. QuestionsAbout'
    <3> SUFFICES ASSUME NEW n \in DOMAIN pending', NEW c \in Calls, idempotency_key(c) \in DOMAIN idem',
                        pending'[n].review = idem'[idempotency_key(c)]
                 PROVE  pending'[n].text = Action[c].text /\ pending'[n].turn = Action[c].turn
      BY DEF QuestionsAbout
    <3>1. CASE n = N + 1
      <4>1. idempotency_key(c) = k0
        BY <1>1, <1>4, <1>7, <2>4, <3>1
      <4> QED
        BY <1>7, <2>4, <3>1, <4>1 DEF KeysTellActionsApart
    <3>2. CASE n \in DOMAIN pending
      <4>1. pending'[n] = pending[n] /\ pending[n].review # N
        BY <1>1, <2>4, <2>5, <3>2
      <4>2. idempotency_key(c) \in DOMAIN idem /\ idem'[idempotency_key(c)] = idem[idempotency_key(c)]
        BY <1>4, <1>7, <4>1
      <4> QED
        BY <3>2, <4>1, <4>2 DEF QuestionsAbout
    <3> QED
      BY <2>4, <3>1, <3>2
  <2> QED
    BY <2>3, <2>6
<1> QED
  BY <1>0, <1>3, <1>5, <1>6, <1>7, PostEffect DEF N

(* An answered question is recorded for every call that waits on it. *)
LEMMA SettleOnRecord ==
    ASSUME "session" \notin Faults, Inv, RulingsRecorded, QuestionsAbout, NEW n \in DOMAIN pending,
           NEW allow \in BOOLEAN, NEW always \in BOOLEAN, NEW f \in Faults, settle(n, allow, always, f)
    PROVE  RulingsRecorded' /\ QuestionsAbout'
<1> DEFINE q == pending[n]
           row == RowOf(q.review, q, q.hits, verdictFor(allow), "island")
<1>1. /\ pending' = Without(pending, n) /\ idem' = idem
      /\ \/ UNCHANGED <<reviews, ledger>>
         \/ /\ q.review # 0 /\ reviews' = Put(reviews, q.review, verdictFor(allow))
            /\ ledger' = Append(ledger, row)
  BY DEF settle, SettleDone, SettleFails, Remaining, Answer, LogReview
<1>2. QuestionsAbout'
  <2>1. DOMAIN pending' \subseteq DOMAIN pending /\ \A m \in DOMAIN pending' : pending'[m] = pending[m]
    BY <1>1 DEF Without
  <2> QED
    BY <1>1, <2>1 DEF QuestionsAbout
<1>3. CASE UNCHANGED <<reviews, ledger>>
  BY <1>1, <1>2, <1>3 DEF RulingsRecorded, Recorded, Ruled
<1>4. CASE /\ q.review # 0 /\ reviews' = Put(reviews, q.review, verdictFor(allow))
           /\ ledger' = Append(ledger, row)
  <2>1. row \in Row /\ row.text = q.text /\ row.turn = q.turn /\ row.verdict = verdictFor(allow)
    BY <1>4 DEF Inv, TypeOK, TablesOK, Question, RowOf, Row, verdictFor, Verdicts
  <2> HIDE DEF row
  <2>2. /\ \A c, v : Recorded(c, v) => Recorded(c, v)'
        /\ \A c \in Calls : q.text = Action[c].text /\ q.turn = Action[c].turn =>
              Recorded(c, verdictFor(allow))'
    BY <1>4, <2>1, RowAdded DEF Inv
  <2>3. /\ DOMAIN reviews' = DOMAIN reviews \cup {q.review} /\ reviews'[q.review] = verdictFor(allow)
        /\ \A id \in DOMAIN reviews : id # q.review => reviews'[id] = reviews[id]
    BY <1>4 DEF Put
  <2>4. ASSUME NEW c \in Calls, Ruled(idempotency_key(c))' # "none"
        PROVE  Recorded(c, Ruled(idempotency_key(c)))'
    <3> DEFINE k == idempotency_key(c)
    <3>1. k \in DOMAIN idem /\ idem[k] \in DOMAIN reviews' /\ Ruled(k)' = reviews'[idem[k]]
          /\ reviews'[idem[k]] # "pending"
      BY <1>1, <2>4 DEF Ruled
    <3>2. CASE idem[k] = q.review
      <4>1. q.text = Action[c].text /\ q.turn = Action[c].turn
        BY <3>1, <3>2 DEF QuestionsAbout
      <4>2. Ruled(k)' = verdictFor(allow)
        BY <2>3, <3>1, <3>2
      <4>3. Recorded(c, verdictFor(allow))'
        BY <2>2, <4>1
      <4> QED
        BY <4>2, <4>3 DEF Recorded
    <3>3. CASE idem[k] # q.review
      <4>1. Ruled(k) = Ruled(k)' /\ Ruled(k) # "none"
        BY <2>3, <2>4, <3>1, <3>3 DEF Ruled
      <4>2. PICK v : v = Ruled(k)
        OBVIOUS
      <4>3. Recorded(c, v)'
        BY <2>2, <4>1, <4>2 DEF RulingsRecorded
      <4> QED
        BY <4>1, <4>2, <4>3 DEF Recorded
    <3> QED
      BY <3>2, <3>3
  <2> QED
    BY <1>2, <2>4 DEF RulingsRecorded
<1> QED
  BY <1>1, <1>3, <1>4

(* Every step of the composition keeps the record. *)
LEMMA OnRecordStep ==
    ASSUME "session" \notin Faults, KeysTellActionsApart, CallsInv, OnRecord, [CallsNext]_allVars
    PROVE  OnRecord'
<1>0. /\ Inv /\ [Next]_vars /\ RulingsRecorded /\ QuestionsAbout /\ VerdictsRecorded
      /\ phase \in [Calls -> {"idle", "waiting", "sleeping", "done"}]
      /\ verdict \in [Calls -> Verdicts \cup {"none", "defer"}] /\ failed \in [Calls -> BOOLEAN]
  BY StepOfGate DEF CallsInv, OnRecord, CallsTypeOK
<1>1. \A c, v : Recorded(c, v) => Recorded(c, v)'
  BY <1>0, RecordsStay
<1>2. RulingsRecorded' /\ QuestionsAbout'
  <2>1. ASSUME UNCHANGED vars PROVE RulingsRecorded' /\ QuestionsAbout'
    BY <1>0, <2>1 DEF vars, memory, RulingsRecorded, QuestionsAbout, Recorded, Ruled
  <2>2. ASSUME NEW c \in Calls,
               \/ submit_review(c) \/ poll_review(c) \/ GatePoll(c) \/ ReceivePending(c)
               \/ ReceiveVerdict(c) \/ ReceiveError(c) \/ Deadline(c) \/ Unreachable(c)
        PROVE  RulingsRecorded' /\ QuestionsAbout'
    BY <2>1, <2>2 DEF submit_review, poll_review, GatePoll, ReceivePending, ReceiveVerdict, ReceiveError,
                      Deadline, Unreachable
  <2>3. ASSUME NEW c \in Calls, NEW f \in Faults, GatePost(c, f) PROVE RulingsRecorded' /\ QuestionsAbout'
    BY <1>0, <2>3, PostOnRecord DEF GatePost
  <2>4. ASSUME NEW f \in Faults, Person(f) PROVE RulingsRecorded' /\ QuestionsAbout'
    <3>1. PICK n \in Ids, allow \in BOOLEAN : handleDecision(n, allow, FALSE, f)
      BY <2>4 DEF Person
    <3>2. n \in DOMAIN pending /\ settle(n, allow, FALSE, f)
      BY <3>1 DEF handleDecision
    <3> QED
      BY <1>0, <3>2, SettleOnRecord
  <2>5. ASSUME NEW env \in BOOLEAN, AppRestart(env) PROVE RulingsRecorded' /\ QuestionsAbout'
    <3>1. DOMAIN idem' = {} /\ DOMAIN pending' = {}
      BY <2>5 DEF AppRestart, Restart, NoEntries
    <3> QED
      BY <3>1 DEF RulingsRecorded, QuestionsAbout, Ruled
  <2>6. CASE UNCHANGED allVars
    BY <2>1, <2>6 DEF allVars
  <2> QED
    BY <2>2, <2>3, <2>4, <2>5, <2>6 DEF CallsNext
<1>3. ASSUME UNCHANGED <<verdict, failed>>, \A c \in Calls : phase'[c] = "done" => phase[c] = "done"
      PROVE  VerdictsRecorded'
  <2> SUFFICES ASSUME NEW c \in Calls, phase[c] = "done", ~failed[c] PROVE Recorded(c, verdict[c])'
    BY <1>3 DEF VerdictsRecorded
  <2>1. PICK v : v = verdict[c] /\ v = verdict'[c]
    BY <1>3
  <2>2. Recorded(c, v)'
    BY <1>0, <1>1, <2>1 DEF VerdictsRecorded
  <2> QED
    BY <2>1, <2>2 DEF Recorded
<1>4. ASSUME NEW c \in Calls, NEW v, NEW err \in BOOLEAN, Return(c, v, err), ~err => Recorded(c, v)'
      PROVE  VerdictsRecorded'
  <2> SUFFICES ASSUME NEW d \in Calls, phase'[d] = "done", ~failed'[d] PROVE Recorded(d, verdict[d])'
    BY DEF VerdictsRecorded
  <2>1. CASE d = c
    <3>1. failed'[c] = err /\ verdict'[c] = v
      BY <1>0, <1>4 DEF Return
    <3> QED
      BY <1>4, <2>1, <3>1 DEF Recorded
  <2>2. CASE d # c
    <3>1. phase[d] = "done" /\ ~failed[d] /\ verdict'[d] = verdict[d]
      BY <1>0, <1>4, <2>2 DEF Return
    <3>2. PICK w : w = verdict[d] /\ w = verdict'[d]
      BY <3>1
    <3>3. Recorded(d, w)'
      BY <1>0, <1>1, <3>1, <3>2 DEF VerdictsRecorded
    <3> QED
      BY <3>2, <3>3 DEF Recorded
  <2> QED
    BY <2>1, <2>2
<1>5. ASSUME NEW c \in Calls, ReceiveVerdict(c) PROVE VerdictsRecorded'
  <2>1. PICK v \in Verdicts : v = wire[c].reply.verdict
    BY <1>5, ReplyTyped DEF ReceiveVerdict, CallsInv, CallsTypeOK
  <2>2. Ruled(idempotency_key(c)) = v
    BY <1>5, <2>1 DEF ReceiveVerdict, CallsInv, RepliesTrue, TrueOf
  <2>3. Recorded(c, v)'
    BY <1>0, <1>1, <2>2 DEF RulingsRecorded, Verdicts
  <2>4. Return(c, v, FALSE)
    BY <1>5, <2>1 DEF ReceiveVerdict
  <2> QED
    BY <1>4, <2>3, <2>4
<1>6. ASSUME NEW c \in Calls, ReceiveError(c) \/ Deadline(c) PROVE VerdictsRecorded'
  <2>1. Return(c, on_error, TRUE)
    BY <1>6 DEF ReceiveError, Deadline
  <2> QED
    BY <1>4, <2>1
<1>7. ASSUME NEW c \in Calls,
             submit_review(c) \/ poll_review(c) \/ GatePoll(c) \/ ReceivePending(c) \/ Unreachable(c)
      PROVE  VerdictsRecorded'
  BY <1>0, <1>3, <1>7 DEF submit_review, poll_review, GatePoll, ReceivePending, Unreachable
<1>8. ASSUME \/ \E c \in Calls, f \in Faults : GatePost(c, f)
             \/ (\E f \in Faults : Person(f)) \/ (\E env \in BOOLEAN : AppRestart(env)) \/ UNCHANGED allVars
      PROVE  VerdictsRecorded'
  BY <1>3, <1>8 DEF GatePost, Person, AppRestart, allVars, client
<1>9. VerdictsRecorded'
  BY <1>5, <1>6, <1>7, <1>8 DEF CallsNext
<1> QED
  BY <1>2, <1>9 DEF OnRecord

(* A fail-closed codex admits an action only on a row about that very action,
   while the session file takes its rows, keys tell actions apart and no call
   overlaps another across a restart of the app. *)
THEOREM CallsAdmitted ==
    ASSUME "session" \notin Faults, KeysTellActionsApart, PlansOrdered
    PROVE  CallsSpec => []AdmittedWasReviewed
<1> DEFINE J == CallsInv /\ OnRecord
<1>1. CallsInit /\ TypeOK => J
  <2> SUFFICES ASSUME CallsInit, TypeOK PROVE J
    OBVIOUS
  <2>1. DOMAIN idem = {} /\ DOMAIN pending = {} /\ \A c \in Calls : phase[c] = "idle"
    BY DEF CallsInit, Init, NoEntries
  <2> QED
    BY <2>1, CallsInvHolds DEF OnRecord, RulingsRecorded, QuestionsAbout, VerdictsRecorded, Ruled
<1>2. J /\ [CallsNext]_allVars => J'
  BY CallsInvHolds, OnRecordStep
<1>3. J => AdmittedWasReviewed
  <2> SUFFICES ASSUME J, FailClosed, NEW c \in Calls, verdict[c] \in {"allow", "rewrite", "defer"}
               PROVE  Recorded(c, verdict[c])
    BY DEF AdmittedWasReviewed, Recorded
  <2>1. phase[c] = "done" /\ ~failed[c]
    BY CallsAssumption DEF CallsInv, CallsTypeOK, VerdictWhenDone, on_error
  <2> QED
    BY <2>1 DEF OnRecord, VerdictsRecorded
<1> HIDE DEF J
<1> QED
  BY <1>1, <1>2, <1>3, CallsImplementGate, GateTyped, PTL DEF CallsSpec

-----------------------------------------------------------------------------
(* One ruling per key: the refinement of Ruling *)

(* What a call has learned, as the refinement maps it *)
Learned(c) == IF phase[c] # "done" THEN "none" ELSE IF failed[c] THEN "failed" ELSE verdict[c]

(* A step of a running gate rules on one key at most, and on none twice. *)
LEMMA OneRuling ==
    ASSUME Inv, [Next]_vars, restarts' = restarts
    PROVE  \/ \A k \in Keys : Ruled(k)' = Ruled(k)
           \/ \E k0 \in Keys, v \in Verdicts :
                /\ Ruled(k0) = "none" /\ Ruled(k0)' = v
                /\ \A k \in Keys \ {k0} : Ruled(k)' = Ruled(k)
<1> DEFINE Step == \/ \A k \in Keys : Ruled(k)' = Ruled(k)
                   \/ \E k0 \in Keys, v \in Verdicts :
                        /\ Ruled(k0) = "none" /\ Ruled(k0)' = v
                        /\ \A k \in Keys \ {k0} : Ruled(k)' = Ruled(k)
<1>1. ASSUME UNCHANGED <<reviews, idem>> PROVE Step
  BY <1>1 DEF Ruled
<1>2. ASSUME NEW f \in Faults, NEW key \in Keys, NEW req \in Requests, handleReviewPost(key, req, f) PROVE Step
  <2> DEFINE N == NewId(key)
  <2>1. N \notin DOMAIN reviews /\ \A k \in DOMAIN idem : idem[k] # N
    BY FreshId
  <2>2. \A k \in DOMAIN idem : k \in DOMAIN idem' /\ idem'[k] = idem[k]
    BY RulingsStay
  <2>3. CASE key \in DOMAIN idem /\ UNCHANGED vars
    BY <1>1, <2>3 DEF vars, memory
  <2>4. CASE key \notin DOMAIN idem /\ Claim(key)
    <3>1. DOMAIN idem' \subseteq DOMAIN idem \cup {key} /\ (key \in DOMAIN idem' => idem'[key] = N)
      BY <2>4 DEF Claim, Put
    <3>2. PICK v \in Verdicts \cup {"pending"} : reviews' = reviews \/ reviews' = Put(reviews, N, v)
      BY <1>2, PostEffect DEF Row, vars, memory
    <3> HIDE DEF N
    <3>3. /\ \A id \in DOMAIN reviews : id \in DOMAIN reviews' /\ reviews'[id] = reviews[id]
          /\ DOMAIN reviews' \subseteq DOMAIN reviews \cup {N}
          /\ N \in DOMAIN reviews' => reviews'[N] = v
      BY <2>1, <3>2 DEF Put
    <3>4. ASSUME NEW k \in Keys, k # key PROVE Ruled(k)' = Ruled(k)
      <4>1. CASE k \in DOMAIN idem
        <5>1. idem[k] # N /\ idem'[k] = idem[k] /\ k \in DOMAIN idem'
          BY <2>1, <2>2, <4>1
        <5> QED
          BY <3>3, <4>1, <5>1 DEF Ruled
      <4>2. CASE k \notin DOMAIN idem
        BY <3>1, <3>4, <4>2 DEF Ruled
      <4> QED
        BY <4>1, <4>2
    <3>5. Ruled(key) = "none"
      BY <2>4 DEF Ruled
    <3>6. Ruled(key)' = "none" \/ (Ruled(key)' = v /\ v \in Verdicts)
      BY <2>1, <3>1, <3>3 DEF Ruled
    <3> QED
      BY <3>4, <3>5, <3>6
  <2> QED
    BY <1>2, <2>3, <2>4, PostEffect
<1>3. ASSUME NEW n \in DOMAIN pending, NEW allow \in BOOLEAN, NEW always \in BOOLEAN, NEW f,
             settle(n, allow, always, f)
      PROVE  Step
  <2> DEFINE r == pending[n].review
  <2>1. /\ idem' = idem
        /\ reviews' = reviews \/ (r # 0 /\ reviews' = Put(reviews, r, verdictFor(allow)))
    BY <1>3 DEF settle, SettleDone, SettleFails, Answer
  <2>2. verdictFor(allow) \in Verdicts /\ verdictFor(allow) # "pending"
    BY DEF verdictFor, Verdicts
  <2>3. r # 0 => r \in DOMAIN reviews /\ reviews[r] = "pending"
    BY DEF Inv, QuestionsMatchReviews
  <2>4. CASE r # 0 /\ reviews' = Put(reviews, r, verdictFor(allow))
    <3>1. /\ DOMAIN reviews' = DOMAIN reviews /\ reviews'[r] = verdictFor(allow)
          /\ \A id \in DOMAIN reviews : id # r => reviews'[id] = reviews[id]
      BY <2>3, <2>4 DEF Put
    <3>2. \A k \in Keys : ~(k \in DOMAIN idem /\ idem[k] = r) => Ruled(k)' = Ruled(k)
      BY <2>1, <3>1 DEF Ruled
    <3>3. \A k \in Keys : k \in DOMAIN idem /\ idem[k] = r =>
              Ruled(k) = "none" /\ Ruled(k)' = verdictFor(allow)
      BY <2>1, <2>2, <2>3, <2>4, <3>1 DEF Ruled
    <3>4. \A j, k \in DOMAIN idem : idem[j] = idem[k] => j = k
      BY DEF Inv, KeysHaveOwnReview
    <3>5. CASE \E k \in Keys : k \in DOMAIN idem /\ idem[k] = r
      <4>1. PICK k0 \in Keys : k0 \in DOMAIN idem /\ idem[k0] = r
        BY <3>5
      <4>2. \A k \in Keys \ {k0} : Ruled(k)' = Ruled(k)
        BY <3>2, <3>4, <4>1
      <4> QED
        BY <2>2, <3>3, <4>1, <4>2
    <3>6. CASE ~\E k \in Keys : k \in DOMAIN idem /\ idem[k] = r
      BY <3>2, <3>6
    <3> QED
      BY <3>5, <3>6
  <2> QED
    BY <1>1, <2>1, <2>4
<1>4. ASSUME NEW env \in BOOLEAN, Restart(env) PROVE Step
  BY <1>4 DEF Restart, Inv, TypeOK
<1>5. ASSUME NEW f \in Faults, NEW call \in ToolCalls, handleToolcall(call, f) PROVE UNCHANGED <<reviews, idem>>
  BY <1>5 DEF handleToolcall, ToolcallByRule, ToolcallAsk, memory
<1>6. ASSUME NEW t, NEW f,
             \/ handleSettings(t, f) \/ RubbishAdd(t, f) \/ RubbishRemove(t, f)
             \/ BlockedRemove(t, f) \/ handleEvents(t, f)
      PROVE  UNCHANGED <<reviews, idem>>
  BY <1>6 DEF handleSettings, RubbishAdd, RubbishRemove, BlockedRemove, handleEvents, memory
<1>7. CASE UNCHANGED vars
  BY <1>1, <1>7 DEF vars, memory
<1>8. CASE Next
  BY <1>1, <1>2, <1>3, <1>4, <1>5, <1>6, <1>8 DEF Next, handleDecision, IslandFails
<1> QED
  BY <1>7, <1>8

(* One step of the abstract protocol, over the functions it is mapped to *)
LEMMA AbstractSteps ==
    /\ (\A k \in Keys : Ruled(k)' = Ruled(k)) /\ (\A c \in Calls : Learned(c)' = Learned(c)) => UNCHANGED R!vars
    /\ (\A k \in Keys : Ruled(k)' = "none") /\ (\A c \in Calls : Learned(c)' = Learned(c)) => R!Forget
    /\ \A k0 \in Keys, v \in Verdicts :
          /\ Ruled(k0) = "none" /\ Ruled(k0)' = v
          /\ \A k \in Keys \ {k0} : Ruled(k)' = Ruled(k)
          /\ \A c \in Calls : Learned(c)' = Learned(c)
          => R!Rule(k0, v)
    /\ \A c0 \in Calls :
          /\ \A k \in Keys : Ruled(k)' = Ruled(k)
          /\ \A c \in Calls \ {c0} : Learned(c)' = Learned(c)
          /\ Learned(c0) = "none"
          => /\ Ruled(idempotency_key(c0)) # "none" /\ Learned(c0)' = Ruled(idempotency_key(c0)) => R!Learn(c0)
             /\ Learned(c0)' = "failed" => R!GiveUp(c0)
<1> DEFINE ruling == [k \in Keys |-> Ruled(k)]
           learned == [c \in Calls |-> Learned(c)]
<1>1. (\A k \in Keys : Ruled(k)' = Ruled(k)) => ruling' = ruling
  OBVIOUS
<1>2. (\A c \in Calls : Learned(c)' = Learned(c)) => learned' = learned
  OBVIOUS
<1>3. (\A k \in Keys : Ruled(k)' = Ruled(k)) /\ (\A c \in Calls : Learned(c)' = Learned(c)) => UNCHANGED R!vars
  BY <1>1, <1>2 DEF R!vars, Learned
<1>4. (\A k \in Keys : Ruled(k)' = "none") /\ (\A c \in Calls : Learned(c)' = Learned(c)) => R!Forget
  BY <1>2 DEF R!Forget, Learned
<1>5. ASSUME NEW k0 \in Keys, NEW v \in Verdicts, Ruled(k0) = "none", Ruled(k0)' = v,
             \A k \in Keys \ {k0} : Ruled(k)' = Ruled(k), \A c \in Calls : Learned(c)' = Learned(c)
      PROVE  R!Rule(k0, v)
  <2>1. ruling' = [ruling EXCEPT ![k0] = v] /\ ruling[k0] = "none"
    BY <1>5
  <2> QED
    BY <1>2, <1>5, <2>1 DEF R!Rule, Learned
<1>6. ASSUME NEW c0 \in Calls, \A k \in Keys : Ruled(k)' = Ruled(k),
             \A c \in Calls \ {c0} : Learned(c)' = Learned(c), Learned(c0) = "none"
      PROVE  /\ /\ Ruled(idempotency_key(c0)) # "none" /\ Learned(c0)' = Ruled(idempotency_key(c0))
                => R!Learn(c0)
             /\ Learned(c0)' = "failed" => R!GiveUp(c0)
  <2>1. learned' = [learned EXCEPT ![c0] = Learned(c0)'] /\ learned[c0] = "none"
    BY <1>6
  <2>2. [c \in Calls |-> idempotency_key(c)][c0] \in Keys
    BY CallInputs
  <2> QED
    BY <1>1, <1>6, <2>1, <2>2 DEF R!Learn, R!GiveUp, Learned
<1> QED
  BY <1>3, <1>4, <1>5, <1>6

(* Every step of the composition is a step of the abstract protocol or none. *)
LEMMA RulingStep ==
    ASSUME CallsInv, [CallsNext]_allVars
    PROVE  [R!Next]_(R!vars)
<1>0. /\ Inv /\ [Next]_vars
      /\ wire \in [Calls -> WireSpace]
      /\ phase \in [Calls -> {"idle", "waiting", "sleeping", "done"}]
      /\ verdict \in [Calls -> Verdicts \cup {"none", "defer"}] /\ failed \in [Calls -> BOOLEAN]
  BY StepOfGate DEF CallsInv, CallsTypeOK
<1>1. ASSUME \A k \in Keys : Ruled(k)' = Ruled(k), \A c \in Calls : Learned(c)' = Learned(c)
      PROVE  [R!Next]_(R!vars)
  BY <1>1, AbstractSteps
<1>2. ASSUME UNCHANGED vars PROVE \A k \in Keys : Ruled(k)' = Ruled(k)
  BY <1>2 DEF vars, memory, Ruled
<1>3. ASSUME UNCHANGED <<phase, verdict, failed>> PROVE \A c \in Calls : Learned(c)' = Learned(c)
  BY <1>3 DEF Learned
<1>4. ASSUME NEW c \in Calls,
             submit_review(c) \/ poll_review(c) \/ GatePoll(c) \/ ReceivePending(c) \/ Unreachable(c)
      PROVE  [R!Next]_(R!vars)
  <2>1. UNCHANGED <<vars, verdict, failed>>
    BY <1>4 DEF submit_review, poll_review, GatePoll, ReceivePending, Unreachable
  <2>2. \A d \in Calls : phase'[d] # "done" <=> phase[d] # "done"
    BY <1>0, <1>4 DEF submit_review, poll_review, GatePoll, ReceivePending, Unreachable
  <2>3. \A d \in Calls : Learned(d)' = Learned(d)
    BY <2>1, <2>2 DEF Learned
  <2> QED
    BY <1>1, <1>2, <2>1, <2>3
<1>5. ASSUME NEW c \in Calls, NEW v, NEW err \in BOOLEAN, Return(c, v, err)
      PROVE  /\ \A d \in Calls \ {c} : Learned(d)' = Learned(d)
             /\ Learned(c)' = IF err THEN "failed" ELSE v
  BY <1>0, <1>5 DEF Return, Learned
<1>6. ASSUME NEW c \in Calls, ReceiveVerdict(c) PROVE [R!Next]_(R!vars)
  <2>1. PICK v \in Verdicts : v = wire[c].reply.verdict
    BY <1>0, <1>6, ReplyTyped DEF ReceiveVerdict
  <2>2. Ruled(idempotency_key(c)) = v /\ v # "none"
    BY <1>6, <2>1 DEF ReceiveVerdict, CallsInv, RepliesTrue, TrueOf, Verdicts
  <2>3. Return(c, v, FALSE) /\ UNCHANGED vars /\ Learned(c) = "none"
    BY <1>6, <2>1 DEF ReceiveVerdict, Learned
  <2>4. Learned(c)' = v /\ \A d \in Calls \ {c} : Learned(d)' = Learned(d)
    BY <1>5, <2>3
  <2>5. R!Learn(c)
    BY <1>2, <2>2, <2>3, <2>4, AbstractSteps
  <2> QED
    BY <2>5 DEF R!Next
<1>7. ASSUME NEW c \in Calls, ReceiveError(c) \/ Deadline(c) PROVE [R!Next]_(R!vars)
  <2>1. Return(c, on_error, TRUE) /\ UNCHANGED vars /\ Learned(c) = "none"
    BY <1>7 DEF ReceiveError, Deadline, Learned
  <2>2. Learned(c)' = "failed" /\ \A d \in Calls \ {c} : Learned(d)' = Learned(d)
    BY <1>5, <2>1
  <2>3. R!GiveUp(c)
    BY <1>2, <2>1, <2>2, AbstractSteps
  <2> QED
    BY <2>3 DEF R!Next
<1>8. ASSUME restarts' = restarts, UNCHANGED <<phase, verdict, failed>> PROVE [R!Next]_(R!vars)
  <2>1. \A c \in Calls : Learned(c)' = Learned(c)
    BY <1>3, <1>8
  <2>2. CASE \A k \in Keys : Ruled(k)' = Ruled(k)
    BY <1>1, <2>1, <2>2
  <2>3. ASSUME NEW k0 \in Keys, NEW v \in Verdicts, Ruled(k0) = "none", Ruled(k0)' = v,
               \A k \in Keys \ {k0} : Ruled(k)' = Ruled(k)
        PROVE  [R!Next]_(R!vars)
    <3>1. R!Rule(k0, v)
      BY <2>1, <2>3, AbstractSteps
    <3> QED
      BY <3>1 DEF R!Next
  <2> QED
    BY <1>0, <1>8, <2>2, <2>3, OneRuling
<1>9. ASSUME NEW c \in Calls, NEW f \in Faults, GatePost(c, f) PROVE [R!Next]_(R!vars)
  <2>1. restarts' = restarts /\ UNCHANGED <<phase, verdict, failed>>
    BY <1>9, NoRestart DEF GatePost
  <2> QED
    BY <1>8, <2>1
<1>10. ASSUME NEW f \in Faults, Person(f) PROVE [R!Next]_(R!vars)
  <2>1. restarts' = restarts /\ UNCHANGED <<phase, verdict, failed>>
    BY <1>10, NoRestart DEF Person, client
  <2> QED
    BY <1>8, <2>1
<1>11. ASSUME NEW env \in BOOLEAN, AppRestart(env) PROVE [R!Next]_(R!vars)
  <2>1. DOMAIN idem' = {} /\ UNCHANGED <<phase, verdict, failed>>
    BY <1>11 DEF AppRestart, Restart, NoEntries
  <2>2. \A k \in Keys : Ruled(k)' = "none"
    BY <2>1 DEF Ruled
  <2>3. R!Forget
    BY <1>3, <2>1, <2>2, AbstractSteps
  <2> QED
    BY <2>3 DEF R!Next
<1>12. CASE UNCHANGED allVars
  BY <1>1, <1>2, <1>3, <1>12 DEF allVars, client
<1> QED
  BY <1>4, <1>6, <1>7, <1>9, <1>10, <1>11, <1>12 DEF CallsNext

(* The protocol implements one ruling per key and incarnation of the app, with
   any number of calls and whatever writes fail, as long as no call overlaps
   another across a restart. *)
THEOREM CallsOneRuling ==
    ASSUME PlansOrdered
    PROVE  CallsSpec => OneRulingPerKey
<1>1. CallsInit => R!Init
  <2> SUFFICES ASSUME CallsInit PROVE R!Init
    OBVIOUS
  <2>1. DOMAIN idem = {} /\ \A c \in Calls : phase[c] = "idle"
    BY DEF CallsInit, Init, NoEntries
  <2> QED
    BY <2>1 DEF R!Init, Ruled
<1>2. CallsInv /\ [CallsNext]_allVars => [R!Next]_(R!vars)
  BY RulingStep
<1> QED
  BY <1>1, <1>2, CallsInvHolds, CallsImplementGate, GateTyped, PTL DEF CallsSpec, OneRulingPerKey, R!Spec
=============================================================================
