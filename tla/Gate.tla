-------------------------------- MODULE Gate --------------------------------
(***************************************************************************)
(* The decision core of the desktop app (src/desktop/main.js): the review  *)
(* table codex polls, the idempotency map, the questions waiting on the    *)
(* island, saved rules, per-turn grants, the two similarity indexes and    *)
(* what of all that survives a restart.                                    *)
(*                                                                         *)
(* The app is one Node event loop: a handler runs to completion once its   *)
(* request body has arrived, so one handler is one action.  What a handler *)
(* does in between is kept: the synchronous file writes are made in the    *)
(* order of the code and each of them may throw (parameter `fault`), which *)
(* leaves behind exactly what ran before the throw.                        *)
(*                                                                         *)
(* The island (window and page) is abstracted to "a waiting question may   *)
(* be settled"; Island.tla is the detailed model of that part.             *)
(***************************************************************************)
EXTENDS Naturals, Sequences

CONSTANTS
    Keys,        \* idempotency-key headers of POST /v1/reviews ...
    NoKey,       \* ... this one when the header is missing
    Texts,       \* the JSON text of an action, as the rules and indexes see it
    Tools,       \* tool names, the fallback "codex" included
    Turns,       \* turn ids of codex
    Requests,    \* bodies of POST /v1/reviews
    ToolCalls,   \* bodies of POST /toolcall
    Edits,       \* texts the user marks or prunes and the feed reports blocked
    Rules,       \* names of the keyword rules
    Scan,        \* text -> the keyword rules it trips
    Garbage,     \* texts on the skip list
    Noise,       \* text -> how much of a tool output is noise
    Sim,         \* text -> text -> similarity in percent
    Faults,      \* which file writes may throw ("none" stands for no throw)
    MaxSeq,      \* bound on the id counter of one incarnation of the app ...
    RestartSeq,  \* ... and this one when it is restarted, before and after
    MaxRestarts  \* bound on restarts of the app

NoTurn == ""    \* body.context?.turn_id ?? ""
AskAll == "ask-all"
Kinds == {"prompt", "instructions", "tool_call", "tool_output", "approval",
          "mcp_admission", "compaction"}
Labels == Rules \cup {"rubbish-similar", "similar-to-blocked", AskAll}
Ids == 1 .. MaxSeq
Request == [kind : Kinds, tool : Tools, text : Texts, turn : Turns \cup {NoTurn}]
ToolCall == [tool : Tools, text : Texts]
RuleKey == Tools \X SUBSET Labels              \* `${tool}|${hits}`
TurnKey == (Turns \cup {NoTurn}) \X SUBSET Labels  \* `${turn_id}|${hits}`

ASSUME GateAssumption ==
    /\ MaxSeq \in Nat /\ MaxRestarts \in Nat /\ RestartSeq \in 0 .. MaxSeq
    /\ NoTurn \notin Turns
    /\ Requests \subseteq Request /\ ToolCalls \subseteq ToolCall
    /\ Edits \subseteq Texts
    /\ Scan \in [Texts -> SUBSET Rules]
    /\ Garbage \subseteq Texts
    /\ Noise \in [Texts -> {"none", "some", "all"}]
    /\ Sim \in [Texts -> [Texts -> 0 .. 100]]
    /\ \A t \in Texts : Sim[t][t] = 100
    /\ Faults \subseteq {"none", "events", "index", "rules", "session", "settings"}
    /\ {"rubbish-similar", "similar-to-blocked", AskAll} \cap Rules = {}

VARIABLES
    seq,         \* ids are ++seq, one counter for review ids and question ids
    reviews,     \* review id -> "pending" or its verdict
    idem,        \* idempotency key -> review id
    pending,     \* question id -> what settle() needs to answer it
    savedRules,  \* RuleKey -> "allow" or "deny"
    turnGrants,  \* TurnKey -> whether it was allowed on the island
    rubbish,     \* texts the user marked in the trajectory
    blocked,     \* texts of denied calls
    askAll,      \* settings.askAll
    disk,        \* decisions.json, rubbish.json, blocked.json, settings.json
    ledger,      \* the "review" rows of the session files, oldest first
    restarts,    \* how often the app was started again
    refused      \* history: texts denied by a person, a saved rule or the feed,
                 \* less those DELETE /blocked took back

memory == <<seq, reviews, idem, pending, turnGrants>>
persisted == <<savedRules, rubbish, blocked, askAll, disk>>
vars == <<memory, persisted, ledger, restarts, refused>>

Verdicts == {"allow", "deny", "rewrite"}
Question == [review : Ids \cup {0},   \* 0: the /toolcall caller itself waits
             rule : RuleKey, text : Texts, turn : Turns \cup {NoTurn},
             hits : SUBSET Labels]
Row == [id : Ids, text : Texts, turn : Turns \cup {NoTurn}, hits : SUBSET Labels,
        verdict : Verdicts, by : {"garbage", "noise", "clean", "rule", "turn-grant", "island"}]

(* Map.set: f with k bound to v. *)
Put(f, k, v) == [x \in DOMAIN f \cup {k} |-> IF x = k THEN v ELSE f[x]]
(* Map.delete *)
Without(f, k) == [x \in DOMAIN f \ {k} |-> f[x]]

-----------------------------------------------------------------------------
(* Similarity index (similarity.js). *)

THRESHOLD == 85
RUBBISH_THRESHOLD == 90

(* Does some entry reach the threshold?  Callers only test match() for null. *)
match(entries, text, threshold) == \E e \in entries : Sim[text][e] >= threshold

(* add(): the entry is pushed, then the whole index is written; a text that
   is already an entry is neither pushed nor written. *)
add(entries, text) == entries \cup {text}
AddWrites(entries, text) == text \notin entries
\* mutant: the file is written before the entry is pushed
addFile_BeforePush(file, entries, text, fault) ==
    IF AddWrites(entries, text) /\ fault # "index" THEN entries ELSE file
addFile(file, entries, text, fault) ==
    IF AddWrites(entries, text) /\ fault # "index" THEN entries \cup {text} ELSE file

-----------------------------------------------------------------------------
(* What is held against a request. *)

WithAskAll(hits) == IF hits = {} /\ askAll THEN {AskAll} ELSE hits

\* mutant: the blocked index is looked up by exact text
IndexHits_Exact(text, threshold) ==
    {h \in {"rubbish-similar"} : match(rubbish, text, threshold)} \cup
    {h \in {"similar-to-blocked"} : text \in blocked}
IndexHits(text, threshold) ==
    {h \in {"rubbish-similar"} : match(rubbish, text, threshold)} \cup
    {h \in {"similar-to-blocked"} : match(blocked, text, THRESHOLD)}

(* A tool output faces the indexes only, and the rubbish index strictly. *)
ReviewHits(req) ==
    WithAskAll((IF req.kind = "tool_output" THEN {} ELSE Scan[req.text])
               \cup IndexHits(req.text, RUBBISH_THRESHOLD))

CallHits(call) == WithAskAll(Scan[call.text] \cup IndexHits(call.text, THRESHOLD))

(* The skip list: garbage calls are denied, noisy output is trimmed, or denied
   when nothing is left of it. *)
Skip(req) ==
    CASE req.kind \in {"tool_call", "approval"} /\ req.text \in Garbage -> "garbage"
      [] req.kind = "tool_output" /\ Noise[req.text] # "none" -> "noise"
      [] OTHER -> "none"

SkipVerdict(req) ==
    IF req.kind = "tool_output" /\ Noise[req.text] = "some" THEN "rewrite" ELSE "deny"

(* verdictFor, and its inverse on a saved rule *)
verdictFor(allow) == IF allow THEN "allow" ELSE "deny"

ruleKey(req, hits) == <<req.tool, hits>>
turnKey(req, hits) == <<req.turn, hits>>

-----------------------------------------------------------------------------
(* POST /v1/reviews *)

(* Bound on the counter: where it may still go in this incarnation. *)
Room == IF restarts = 0 THEN MaxSeq ELSE RestartSeq

(* Without the header the key is `no-key-${++seq}`, which no later request
   presents: only its effect on the counter is kept. *)
\* mutant: the counter is read, not advanced
NewId_Stale(key) == IF key = NoKey THEN seq + 1 ELSE seq
NewId(key) == IF key = NoKey THEN seq + 2 ELSE seq + 1

(* The key is bound to the new id before anything is decided about it. *)
Claim(key) == idem' = IF key = NoKey THEN idem ELSE Put(idem, key, NewId(key))

(* logReview: one row in the session file, unless the append throws. *)
LogReview(row, fault) ==
    ledger' = IF fault = "session" THEN ledger ELSE Append(ledger, row)

RowOf(id, q, hits, verdict, by) ==
    [id |-> id, text |-> q.text, turn |-> q.turn, hits |-> hits,
     verdict |-> verdict, by |-> by]

(* Answered on the spot: the review is decided, then logged. *)
DecideNow(key, req, hits, verdict, by, fault) ==
    /\ NewId(key) <= Room
    /\ seq' = NewId(key)
    /\ Claim(key)
    /\ reviews' = Put(reviews, NewId(key), verdict)
    /\ LogReview(RowOf(NewId(key), req, hits, verdict, by), fault)
    /\ UNCHANGED <<pending, turnGrants, restarts>>

(* A key the app has seen: respondReview answers for the bound id; nothing
   changes. *)
PostRetry(key, req) == key \in DOMAIN idem /\ UNCHANGED vars

(* logEvent throws: the key stays bound to an id that has no review. *)
PostLogFails(key, req) ==
    /\ key \notin DOMAIN idem
    /\ NewId(key) <= Room
    /\ seq' = NewId(key)
    /\ Claim(key)
    /\ UNCHANGED <<reviews, pending, turnGrants, persisted, ledger, restarts, refused>>

PostSkipped(key, req, fault) ==
    /\ key \notin DOMAIN idem
    /\ Skip(req) # "none"
    /\ fault \in {"none", "session"}
    /\ DecideNow(key, req, {}, SkipVerdict(req), Skip(req), fault)
    /\ UNCHANGED <<persisted, refused>>

PostClean(key, req, fault) ==
    /\ key \notin DOMAIN idem
    /\ Skip(req) = "none"
    /\ ReviewHits(req) = {}
    /\ fault \in {"none", "session"}
    /\ DecideNow(key, req, {}, "allow", "clean", fault)
    /\ UNCHANGED <<persisted, refused>>

(* Challenged, but not by the skip list: the hits of a request that go on to
   the saved rules, the turn grants and the island. *)
Challenged(key, req) ==
    /\ key \notin DOMAIN idem
    /\ Skip(req) = "none"
    /\ ReviewHits(req) # {}

HasRule(k) == k \in DOMAIN savedRules

(* A saved denial keeps seeding the blocked index, and does so first. *)
SeedBlocked(text, fault) ==
    /\ blocked' = add(blocked, text)
    /\ disk' = [disk EXCEPT !.blocked = addFile(@, blocked, text, fault)]

PostByRule(key, req, fault) ==
    LET hits == ReviewHits(req)
        k == ruleKey(req, hits)
    IN /\ Challenged(key, req)
       /\ HasRule(k)
       /\ fault \in {"none", "session"}
       /\ DecideNow(key, req, hits, savedRules[k], "rule", fault)
       /\ IF savedRules[k] = "deny"
            THEN SeedBlocked(req.text, fault) /\ refused' = refused \cup {req.text}
            ELSE UNCHANGED <<blocked, disk, refused>>
       /\ UNCHANGED <<savedRules, rubbish, askAll>>

(* The index write throws before the review is decided. *)
PostRuleSeedFails(key, req) ==
    LET k == ruleKey(req, ReviewHits(req))
    IN /\ Challenged(key, req)
       /\ HasRule(k) /\ savedRules[k] = "deny"
       /\ AddWrites(blocked, req.text)
       /\ NewId(key) <= Room
       /\ seq' = NewId(key)
       /\ Claim(key)
       /\ SeedBlocked(req.text, "index")
       /\ UNCHANGED <<reviews, pending, turnGrants, savedRules, rubbish, askAll, ledger,
                      restarts, refused>>

(* One answer covers the later requests of the turn with the same hits, but
   not an ask-all challenge. *)
GrantApplies(req, hits) ==
    /\ AskAll \notin hits
    /\ req.turn # NoTurn
    /\ turnKey(req, hits) \in DOMAIN turnGrants

PostByGrant(key, req, fault) ==
    LET hits == ReviewHits(req)
    IN /\ Challenged(key, req)
       /\ ~HasRule(ruleKey(req, hits))
       /\ GrantApplies(req, hits)
       /\ fault \in {"none", "session"}
       /\ DecideNow(key, req, hits, verdictFor(turnGrants[turnKey(req, hits)]),
                    "turn-grant", fault)
       /\ UNCHANGED <<persisted, refused>>

(* Nothing decides it: the review is pending and a question (id ++seq again)
   waits on the island. *)
PostAsk(key, req) ==
    LET hits == ReviewHits(req)
        id == NewId(key)
    IN /\ Challenged(key, req)
       /\ ~HasRule(ruleKey(req, hits))
       /\ ~GrantApplies(req, hits)
       /\ id + 1 <= Room
       /\ seq' = id + 1
       /\ Claim(key)
       /\ reviews' = Put(reviews, id, "pending")
       /\ pending' = Put(pending, id + 1,
                         [review |-> id, rule |-> ruleKey(req, hits), text |-> req.text,
                          turn |-> req.turn, hits |-> hits])
       /\ UNCHANGED <<turnGrants, persisted, ledger, restarts, refused>>

handleReviewPost(key, req, fault) ==
    \/ fault = "none" /\ PostRetry(key, req)
    \/ fault = "events" /\ PostLogFails(key, req)
    \/ PostSkipped(key, req, fault)
    \/ PostClean(key, req, fault)
    \/ PostByRule(key, req, fault)
    \/ fault = "index" /\ PostRuleSeedFails(key, req)
    \/ PostByGrant(key, req, fault)
    \/ fault = "none" /\ PostAsk(key, req)

(* GET /v1/reviews/<id> and the end of every POST *)
respondReview(table, id) ==
    IF id \notin DOMAIN table THEN [code |-> 404]
    ELSE IF table[id] = "pending" THEN [code |-> 202, id |-> id]
    ELSE [code |-> 200, verdict |-> table[id]]

-----------------------------------------------------------------------------
(* POST /toolcall: the same questions for a caller that holds its connection
   open.  A skipped, clean or rule-allowed call is answered with no change. *)

ToolcallByRule(call, fault) ==
    LET k == <<call.tool, CallHits(call)>>
    IN /\ call.text \notin Garbage
       /\ CallHits(call) # {}
       /\ HasRule(k) /\ savedRules[k] = "deny"
       /\ fault = "index" => AddWrites(blocked, call.text)
       /\ SeedBlocked(call.text, fault)
       /\ refused' = IF fault = "index" THEN refused ELSE refused \cup {call.text}
       /\ UNCHANGED <<memory, savedRules, rubbish, askAll, ledger, restarts>>

ToolcallAsk(call) ==
    LET hits == CallHits(call)
    IN /\ call.text \notin Garbage
       /\ hits # {}
       /\ ~HasRule(<<call.tool, hits>>)
       /\ seq + 1 <= Room
       /\ seq' = seq + 1
       /\ pending' = Put(pending, seq + 1,
                         [review |-> 0, rule |-> <<call.tool, hits>>, text |-> call.text,
                          turn |-> NoTurn, hits |-> hits])
       /\ UNCHANGED <<reviews, idem, turnGrants, persisted, ledger, restarts, refused>>

handleToolcall(call, fault) ==
    \/ fault \in {"none", "index"} /\ ToolcallByRule(call, fault)
    \/ fault = "none" /\ ToolcallAsk(call)

-----------------------------------------------------------------------------
(* settle() and what leads to it *)

(* The question is taken off the table first, whatever happens next. *)
\* mutant: the question is left in the map
Remaining_Kept(n) == pending
Remaining(n) == Without(pending, n)

(* The saved rules after an answer: only an "always" adds one. *)
RulesAfter(q, allow, always) ==
    IF always THEN Put(savedRules, q.rule, verdictFor(allow)) ELSE savedRules

(* The adapter askIsland got from handleReviewPost: the answer lands in the
   table, the turn is granted unless ask-all asked, and the row is logged. *)
\* mutant: the first answer of a turn is kept
GrantTurn_First(q, allow) ==
    turnGrants' = IF /\ q.turn # NoTurn /\ AskAll \notin q.hits
                     /\ turnKey(q, q.hits) \notin DOMAIN turnGrants
                    THEN Put(turnGrants, turnKey(q, q.hits), allow) ELSE turnGrants
GrantTurn(q, allow) ==
    turnGrants' = IF q.turn # NoTurn /\ AskAll \notin q.hits
                    THEN Put(turnGrants, turnKey(q, q.hits), allow) ELSE turnGrants

\* mutant: a denial is logged but never lands in the table the poller reads
Answer_DenyUnrecorded(q, allow, fault) ==
    IF q.review = 0 THEN UNCHANGED <<reviews, turnGrants, ledger>>
    ELSE /\ reviews' = IF allow THEN Put(reviews, q.review, "allow") ELSE reviews
         /\ GrantTurn(q, allow)
         /\ LogReview(RowOf(q.review, q, q.hits, verdictFor(allow), "island"), fault)
\* mutant: the row is logged before the answer is known
Answer_LogsAllow(q, allow, fault) ==
    IF q.review = 0 THEN UNCHANGED <<reviews, turnGrants, ledger>>
    ELSE /\ reviews' = Put(reviews, q.review, verdictFor(allow))
         /\ GrantTurn(q, allow)
         /\ LogReview(RowOf(q.review, q, q.hits, "allow", "island"), fault)
Answer(q, allow, fault) ==
    IF q.review = 0 THEN UNCHANGED <<reviews, turnGrants, ledger>>
    ELSE /\ reviews' = Put(reviews, q.review, verdictFor(allow))
         /\ GrantTurn(q, allow)
         /\ LogReview(RowOf(q.review, q, q.hits, verdictFor(allow), "island"), fault)

(* The file writes of settle() succeed, up to the session row. *)
SettleDone(n, allow, always, fault) ==
    LET q == pending[n]
        rulesAfter == RulesAfter(q, allow, always)
    IN /\ fault \in {"none", "session"} /\ (fault = "session" => q.review # 0)
       /\ pending' = Remaining(n)
       /\ savedRules' = rulesAfter
       /\ blocked' = IF allow THEN blocked ELSE add(blocked, q.text)
       /\ disk' = [disk EXCEPT !.rules = IF always THEN rulesAfter ELSE @,
                               !.blocked = IF allow THEN @
                                           ELSE addFile(@, blocked, q.text, fault)]
       /\ refused' = IF allow THEN refused ELSE refused \cup {q.text}
       /\ Answer(q, allow, fault)
       /\ UNCHANGED <<seq, idem, rubbish, askAll, restarts>>

(* A write throws half way: the question is gone and nobody is answered. *)
SettleFails(n, allow, always, fault) ==
    LET q == pending[n]
    IN /\ \/ fault = "rules" /\ always
          \/ fault = "index" /\ ~allow /\ AddWrites(blocked, q.text)
       /\ pending' = Remaining(n)
       /\ savedRules' = RulesAfter(q, allow, always)
       /\ blocked' = IF fault = "index" THEN add(blocked, q.text) ELSE blocked
       /\ disk' = [disk EXCEPT !.rules = IF always /\ fault = "index" THEN savedRules' ELSE @]
       /\ UNCHANGED <<seq, reviews, idem, turnGrants, rubbish, askAll, ledger, restarts, refused>>

settle(n, allow, always, fault) ==
    SettleDone(n, allow, always, fault) \/ SettleFails(n, allow, always, fault)

(* POST /decision: a person, or the page's countdown, which never sends always.
   An id that is no longer pending is ignored. *)
handleDecision(n, allow, always, fault) ==
    /\ n \in DOMAIN pending
    /\ settle(n, allow, always, fault)

(* The page cannot be loaded or scripted: the question is denied. *)
IslandFails(n, fault) == n \in DOMAIN pending /\ settle(n, FALSE, FALSE, fault)

-----------------------------------------------------------------------------
(* Settings, indexes, feed, restart *)

handleSettings(on, fault) ==
    /\ fault \in {"none", "settings"}
    /\ askAll' = on
    /\ disk' = IF fault = "settings" THEN disk ELSE [disk EXCEPT !.askAll = on]
    /\ UNCHANGED <<memory, savedRules, rubbish, blocked, ledger, restarts, refused>>

RubbishAdd(text, fault) ==
    /\ fault \in {"none", "index"}
    /\ AddWrites(rubbish, text)
    /\ rubbish' = add(rubbish, text)
    /\ disk' = [disk EXCEPT !.rubbish = addFile(@, rubbish, text, fault)]
    /\ UNCHANGED <<memory, savedRules, blocked, askAll, ledger, restarts, refused>>

RubbishRemove(text, fault) ==
    /\ fault \in {"none", "index"}
    /\ text \in rubbish
    /\ rubbish' = rubbish \ {text}
    /\ disk' = IF fault = "index" THEN disk ELSE [disk EXCEPT !.rubbish = rubbish']
    /\ UNCHANGED <<memory, savedRules, blocked, askAll, ledger, restarts, refused>>

BlockedRemove(text, fault) ==
    /\ fault \in {"none", "index"}
    /\ text \in blocked
    /\ blocked' = blocked \ {text}
    /\ disk' = IF fault = "index" THEN disk ELSE [disk EXCEPT !.blocked = blocked']
    /\ refused' = refused \ {text}
    /\ UNCHANGED <<memory, savedRules, rubbish, askAll, ledger, restarts>>

(* POST /events with a blocked call; any other event only grows events.jsonl. *)
handleEvents(text, fault) ==
    /\ fault \in {"none", "index"}
    /\ fault = "index" => AddWrites(blocked, text)
    /\ SeedBlocked(text, fault)
    /\ refused' = IF fault = "index" THEN refused ELSE refused \cup {text}
    /\ UNCHANGED <<memory, savedRules, rubbish, askAll, ledger, restarts>>

NoEntries == [x \in {} |-> x]

(* The process ends and boots again: the tables and the counter start over,
   the four files are read back, CMA_ASK_ALL may override the setting. *)
Restart(env) ==
    /\ restarts < MaxRestarts /\ seq <= RestartSeq
    /\ restarts' = restarts + 1
    /\ seq' = 0
    /\ reviews' = NoEntries /\ idem' = NoEntries
    /\ pending' = NoEntries /\ turnGrants' = NoEntries
    /\ savedRules' = disk.rules
    /\ rubbish' = disk.rubbish
    /\ blocked' = disk.blocked
    /\ askAll' \in {disk.askAll, env}
    /\ UNCHANGED <<disk, ledger, refused>>

-----------------------------------------------------------------------------
Init ==
    /\ seq = 0
    /\ reviews = NoEntries /\ idem = NoEntries
    /\ pending = NoEntries /\ turnGrants = NoEntries
    /\ savedRules = NoEntries
    /\ rubbish = {} /\ blocked = {} /\ askAll = FALSE
    /\ disk = [rules |-> NoEntries, rubbish |-> {}, blocked |-> {}, askAll |-> FALSE]
    /\ ledger = <<>> /\ restarts = 0
    /\ refused = {}

Next ==
    \/ \E f \in Faults :
        \/ \E key \in Keys, req \in Requests : handleReviewPost(key, req, f)
        \/ \E call \in ToolCalls : handleToolcall(call, f)
        \/ \E n \in Ids, allow, always \in BOOLEAN : handleDecision(n, allow, always, f)
        \/ \E n \in Ids : IslandFails(n, f)
        \/ \E on \in BOOLEAN : handleSettings(on, f)
        \/ \E t \in Edits : \/ RubbishAdd(t, f) \/ RubbishRemove(t, f)
                            \/ BlockedRemove(t, f) \/ handleEvents(t, f)
    \/ \E env \in BOOLEAN : Restart(env)

Spec == Init /\ [][Next]_vars

-----------------------------------------------------------------------------
(* Properties *)

(* The tables that live as long as the process *)
TablesOK ==
    /\ seq \in 0 .. MaxSeq
    /\ DOMAIN reviews \subseteq Ids
    /\ reviews \in [DOMAIN reviews -> Verdicts \cup {"pending"}]
    /\ DOMAIN idem \subseteq Keys \ {NoKey} /\ idem \in [DOMAIN idem -> Ids]
    /\ DOMAIN pending \subseteq Ids /\ pending \in [DOMAIN pending -> Question]
    /\ DOMAIN turnGrants \subseteq TurnKey /\ turnGrants \in [DOMAIN turnGrants -> BOOLEAN]

(* Rules, indexes and settings in memory, and their four files *)
StoresOK ==
    /\ DOMAIN savedRules \subseteq RuleKey
    /\ savedRules \in [DOMAIN savedRules -> {"allow", "deny"}]
    /\ rubbish \subseteq Texts /\ blocked \subseteq Texts /\ askAll \in BOOLEAN
    /\ DOMAIN disk = {"rules", "rubbish", "blocked", "askAll"}
    /\ DOMAIN disk.rules \subseteq RuleKey
    /\ disk.rules \in [DOMAIN disk.rules -> {"allow", "deny"}]
    /\ disk.rubbish \subseteq Texts /\ disk.blocked \subseteq Texts /\ disk.askAll \in BOOLEAN

(* Type correctness of the app's tables, files and logs. *)
TypeOK ==
    /\ TablesOK /\ StoresOK
    /\ ledger \in Seq(Row) /\ restarts \in 0 .. MaxRestarts /\ refused \subseteq Texts

(* A question on the island belongs to one review that is still undecided, and
   no two questions to the same one: whatever write failed in between, settling
   a question (settle, then the adapter of handleReviewPost) never touches a
   review that already has a verdict. *)
QuestionsMatchReviews ==
    \A n \in DOMAIN pending : pending[n].review # 0 =>
        /\ pending[n].review \in DOMAIN reviews
        /\ reviews[pending[n].review] = "pending"
        /\ \A m \in DOMAIN pending : pending[m].review = pending[n].review => m = n

(* Every id in use was issued by the counter of this incarnation, so the next
   one is fresh. *)
IdsIssued ==
    /\ \A id \in DOMAIN reviews : id <= seq
    /\ \A n \in DOMAIN pending : n <= seq
    /\ \A k \in DOMAIN idem : idem[k] <= seq

(* Two idempotency keys never lead to the same review, so within one
   incarnation a poller is never told the verdict of another key's action,
   also when handlers died after claiming their key. *)
KeysHaveOwnReview ==
    /\ IdsIssued
    /\ \A j, k \in DOMAIN idem : idem[j] = idem[k] => j = k

(* A verdict is final: as long as the app runs, no retry, late or repeated
   decision, turn grant or failed write changes a review that was decided or
   takes one out of the table ("a retry must not re-decide"). *)
VerdictStep ==
    restarts' = restarts =>
        \A id \in DOMAIN reviews :
            /\ id \in DOMAIN reviews'
            /\ reviews[id] # "pending" => reviews'[id] = reviews[id]
VerdictFinal == [][VerdictStep]_vars

(* While no write fails, every undecided review that codex polls has an entry
   of its own in the pending map, the one a decision on it would settle.
   Whether the page still shows that question is Island's subject. *)
EveryReviewAnswerable ==
    \A id \in DOMAIN reviews : reviews[id] = "pending" =>
        \E n \in DOMAIN pending : pending[n].review = id

(* While no write fails, the session file agrees with what codex was told: the
   newest row of a decided review carries its verdict, also when rows of an
   earlier incarnation bear the same id. *)
LedgerMatchesReviews ==
    \A id \in DOMAIN reviews : reviews[id] # "pending" =>
        \E i \in DOMAIN ledger :
            /\ ledger[i].id = id /\ ledger[i].verdict = reviews[id]
            /\ \A j \in DOMAIN ledger : j > i => ledger[j].id # id

(* Rows answered on the island for turn key k *)
IslandRow(i, k) == ledger[i].by = "island" /\ <<ledger[i].turn, ledger[i].hits>> = k

(* While no write fails, a verdict handed out on a turn grant repeats the
   newest answer the island gave in that turn for those very hits (a person's,
   or the denial of the countdown), and never answers an ask-all challenge. *)
HumanBehindGrant ==
    \A j \in DOMAIN ledger : ledger[j].by = "turn-grant" =>
        LET k == <<ledger[j].turn, ledger[j].hits>>
        IN /\ AskAll \notin ledger[j].hits
           /\ \E i \in 1 .. j - 1 :
                /\ IslandRow(i, k) /\ ledger[i].verdict = ledger[j].verdict
                /\ \A m \in i + 1 .. j - 1 : ~IslandRow(m, k)

(* What was refused by a person, by a saved rule or according to the feed stays
   in the blocked index, across restarts too, until the user prunes it. *)
RefusedIsRemembered == refused \subseteq blocked

(* "A new call that looks like one of these gets a human review, not a pass":
   no review is passed as clean while a refused text is similar to it. *)
NoPassAfterRefusal ==
    [][(Len(ledger') = Len(ledger) + 1 /\ ledger'[Len(ledger')].by = "clean") =>
        \A t \in refused : Sim[ledger'[Len(ledger')].text][t] < THRESHOLD]_vars

(* An "always" answer covers its tool and keyword rules from then on: no new
   question is put for a tool and rule combination that has a saved answer
   (connect-codex.md, README.md). *)
AlwaysSkipsThePopup ==
    [][\A n \in DOMAIN pending' \ DOMAIN pending : \A k \in DOMAIN savedRules :
        ~(/\ k[1] = pending'[n].rule[1]
          /\ k[2] \cap Rules # {}
          /\ k[2] \cap Rules = pending'[n].rule[2] \cap Rules)]_vars
=============================================================================
