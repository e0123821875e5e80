----------------------------- MODULE GateProofs -----------------------------
(* Proofs about Gate, for every set of requests, texts, rules and faults. *)
EXTENDS Gate, QueueFacts

(* What is held against a request is a set of labels. *)
LEMMA HitsType ==
    ASSUME askAll \in BOOLEAN
    PROVE  /\ \A req \in Requests : ReviewHits(req) \in SUBSET Labels
           /\ \A call \in ToolCalls : CallHits(call) \in SUBSET Labels
<1> USE GateAssumption DEF Labels, Request, ToolCall
<1>1. \A text, threshold : IndexHits(text, threshold) \subseteq Labels
  BY DEF IndexHits
<1>2. \A hits \in SUBSET Labels : WithAskAll(hits) \in SUBSET Labels
  BY DEF WithAskAll
<1>3. ASSUME NEW req \in Requests PROVE ReviewHits(req) \in SUBSET Labels
  BY <1>1, <1>2 DEF ReviewHits
<1>4. ASSUME NEW call \in ToolCalls PROVE CallHits(call) \in SUBSET Labels
  BY <1>1, <1>2 DEF CallHits
<1> QED
  BY <1>3, <1>4

(* Whatever the incarnation, the counter stays within the bound on ids. *)
LEMMA RoomBound == Room \in Nat /\ Room <= MaxSeq
  BY GateAssumption DEF Room

(* The row a handler logs for its decision *)
LEMMA DecideNowRow ==
    ASSUME TypeOK, NEW key \in Keys, NEW req \in Requests,
           NEW hits \in SUBSET Labels, NEW verdict \in Verdicts,
           NEW by \in {"garbage", "noise", "clean", "rule", "turn-grant", "island"},
           NEW fault, DecideNow(key, req, hits, verdict, by, fault)
    PROVE  RowOf(NewId(key), req, hits, verdict, by) \in Row
<1>1. NewId(key) \in Ids
  BY GateAssumption, RoomBound DEF DecideNow, NewId, Ids, TypeOK, TablesOK
<1> QED
  BY <1>1, GateAssumption DEF RowOf, Row, Request

(* A handler that answers on the spot keeps the tables and the log typed. *)
LEMMA DecideNowType ==
    ASSUME TypeOK, NEW key \in Keys, NEW req \in Requests,
           NEW hits \in SUBSET Labels, NEW verdict \in Verdicts,
           NEW by \in {"garbage", "noise", "clean", "rule", "turn-grant", "island"},
           NEW fault, DecideNow(key, req, hits, verdict, by, fault)
    PROVE  TablesOK' /\ ledger' \in Seq(Row) /\ restarts' \in 0 .. MaxRestarts
<1>1. NewId(key) \in Ids
  BY GateAssumption, RoomBound DEF DecideNow, NewId, Ids, TypeOK, TablesOK
<1>2. DOMAIN reviews' \subseteq Ids /\ reviews' \in [DOMAIN reviews' -> Verdicts \cup {"pending"}]
  BY <1>1 DEF Put, DecideNow, TypeOK, TablesOK
<1>3. DOMAIN idem' \subseteq Keys \ {NoKey} /\ idem' \in [DOMAIN idem' -> Ids]
  BY <1>1 DEF Put, DecideNow, Claim, TypeOK, TablesOK
<1>4. RowOf(NewId(key), req, hits, verdict, by) \in Row
  BY DecideNowRow
<1>5. ledger' \in Seq(Row)
  BY <1>4 DEF DecideNow, LogReview, TypeOK
<1> QED
  BY <1>1, <1>2, <1>3, <1>5, GateAssumption DEF DecideNow, TypeOK, TablesOK, Ids

(* Seeding the blocked index keeps the stores typed. *)
LEMMA SeedBlockedType ==
    ASSUME TypeOK, NEW text \in Texts, NEW fault, SeedBlocked(text, fault),
           UNCHANGED <<savedRules, rubbish, askAll>>
    PROVE  StoresOK'
  BY DEF TypeOK, StoresOK, SeedBlocked, add, addFile

(* A handler that dies after claiming its key keeps the tables typed. *)
LEMMA ClaimType ==
    ASSUME TypeOK, NEW key \in Keys, NewId(key) <= Room, seq' = NewId(key), Claim(key),
           UNCHANGED <<reviews, pending, turnGrants>>
    PROVE  TablesOK'
<1>1. NewId(key) \in Ids
  BY GateAssumption, RoomBound DEF NewId, Ids, TypeOK, TablesOK
<1>2. DOMAIN idem' \subseteq Keys \ {NoKey} /\ idem' \in [DOMAIN idem' -> Ids]
  BY <1>1 DEF Put, Claim, TypeOK, TablesOK
<1> QED
  BY <1>1, <1>2, GateAssumption DEF TypeOK, TablesOK, Ids

(* Answering a question keeps the review table, the grants and the log typed. *)
LEMMA AnswerType ==
    ASSUME TypeOK, NEW q \in Question, NEW allow \in BOOLEAN, NEW fault,
           Answer(q, allow, fault)
    PROVE  /\ DOMAIN reviews' \subseteq Ids
           /\ reviews' \in [DOMAIN reviews' -> Verdicts \cup {"pending"}]
           /\ DOMAIN turnGrants' \subseteq TurnKey
           /\ turnGrants' \in [DOMAIN turnGrants' -> BOOLEAN]
           /\ ledger' \in Seq(Row)
<1>1. CASE q.review = 0
  BY <1>1 DEF Answer, TypeOK, TablesOK
<1>2. CASE q.review # 0
  <2>1. q.review \in Ids /\ q.text \in Texts /\ q.hits \in SUBSET Labels
        /\ q.turn \in Turns \cup {NoTurn}
    BY <1>2 DEF Question
  <2>2. verdictFor(allow) \in Verdicts
    BY DEF verdictFor, Verdicts
  <2>3. DOMAIN reviews' \subseteq Ids /\ reviews' \in [DOMAIN reviews' -> Verdicts \cup {"pending"}]
    BY <1>2, <2>1, <2>2 DEF Put, Answer, TypeOK, TablesOK
  <2>4. turnKey(q, q.hits) \in TurnKey
    BY <2>1 DEF turnKey, TurnKey
  <2>5. DOMAIN turnGrants' \subseteq TurnKey /\ turnGrants' \in [DOMAIN turnGrants' -> BOOLEAN]
    BY <1>2, <2>4 DEF Put, Answer, GrantTurn, TypeOK, TablesOK
  <2>6. RowOf(q.review, q, q.hits, verdictFor(allow), "island") \in Row
    BY <2>1, <2>2 DEF RowOf, Row
  <2>7. ledger' \in Seq(Row)
    BY <1>2, <2>6 DEF Answer, LogReview, TypeOK
  <2> QED
    BY <2>3, <2>5, <2>7
<1> QED
  BY <1>1, <1>2

(* Saving a rule keeps the map of rules typed. *)
LEMMA RulesAfterType ==
    ASSUME TypeOK, NEW q \in Question, NEW allow \in BOOLEAN, NEW always \in BOOLEAN
    PROVE  /\ DOMAIN RulesAfter(q, allow, always) \subseteq RuleKey
           /\ RulesAfter(q, allow, always)
                \in [DOMAIN RulesAfter(q, allow, always) -> {"allow", "deny"}]
<1>1. q.rule \in RuleKey /\ verdictFor(allow) \in {"allow", "deny"}
  BY DEF Question, verdictFor
<1> QED
  BY <1>1 DEF Put, RulesAfter, TypeOK, StoresOK

(* A handled POST /v1/reviews keeps every table typed. *)
LEMMA PostType ==
    ASSUME TypeOK, NEW key \in Keys, NEW req \in Requests, NEW fault \in Faults,
           handleReviewPost(key, req, fault)
    PROVE  TypeOK'
<1>0. /\ ReviewHits(req) \in SUBSET Labels /\ req \in Request
      /\ req.text \in Texts /\ req.tool \in Tools /\ req.turn \in Turns \cup {NoTurn}
  <2>1. req \in Request
    BY GateAssumption
  <2> QED
    BY <2>1, HitsType DEF Request, TypeOK, StoresOK
<1>1. CASE PostRetry(key, req)
  BY <1>1 DEF PostRetry, vars, memory, persisted, TypeOK, TablesOK, StoresOK
<1>2. CASE PostLogFails(key, req)
  BY <1>2, ClaimType DEF PostLogFails, persisted, TypeOK, StoresOK
<1>3. CASE PostSkipped(key, req, fault)
  <2>1. SkipVerdict(req) \in Verdicts /\ Skip(req) \in {"garbage", "noise"}
    BY <1>3 DEF PostSkipped, SkipVerdict, Skip, Verdicts
  <2>2. TablesOK' /\ ledger' \in Seq(Row) /\ restarts' \in 0 .. MaxRestarts
    BY <1>3, <2>1, DecideNowType DEF PostSkipped
  <2> QED
    BY <1>3, <2>2 DEF PostSkipped, persisted, TypeOK, StoresOK
<1>4. CASE PostClean(key, req, fault)
  <2>1. TablesOK' /\ ledger' \in Seq(Row) /\ restarts' \in 0 .. MaxRestarts
    BY <1>4, DecideNowType DEF PostClean, Verdicts
  <2> QED
    BY <1>4, <2>1 DEF PostClean, persisted, TypeOK, StoresOK
<1>5. CASE PostByRule(key, req, fault)
  <2> DEFINE k == ruleKey(req, ReviewHits(req))
  <2>1. savedRules[k] \in {"allow", "deny"}
    BY <1>5 DEF PostByRule, HasRule, TypeOK, StoresOK
  <2>2. TablesOK' /\ ledger' \in Seq(Row) /\ restarts' \in 0 .. MaxRestarts
    BY <1>0, <1>5, <2>1, DecideNowType, ZenonT(60) DEF PostByRule, Verdicts
  <2>3. StoresOK' /\ refused' \subseteq Texts
    <3>1. CASE savedRules[k] = "deny"
      BY <1>0, <1>5, <3>1, SeedBlockedType DEF PostByRule, TypeOK
    <3>2. CASE savedRules[k] # "deny"
      BY <1>5, <3>2 DEF PostByRule, TypeOK, StoresOK
    <3> QED
      BY <3>1, <3>2
  <2> QED
    BY <2>2, <2>3 DEF TypeOK
<1>6. CASE PostRuleSeedFails(key, req)
  <2>1. TablesOK'
    BY <1>6, ClaimType DEF PostRuleSeedFails
  <2>2. StoresOK'
    BY <1>0, <1>6, SeedBlockedType DEF PostRuleSeedFails
  <2> QED
    BY <1>6, <2>1, <2>2 DEF PostRuleSeedFails, TypeOK
<1>7. CASE PostByGrant(key, req, fault)
  <2>1. \A a : verdictFor(a) \in Verdicts
    BY DEF verdictFor, Verdicts
  <2>2. TablesOK' /\ ledger' \in Seq(Row) /\ restarts' \in 0 .. MaxRestarts
    BY <1>0, <1>7, <2>1, DecideNowType DEF PostByGrant
  <2> QED
    BY <1>7, <2>2 DEF PostByGrant, persisted, TypeOK, StoresOK
<1>8. CASE PostAsk(key, req)
  <2> DEFINE hits == ReviewHits(req)
             q == [review |-> NewId(key), rule |-> ruleKey(req, hits), text |-> req.text,
                   turn |-> req.turn, hits |-> hits]
  <2>1. NewId(key) \in Ids /\ NewId(key) + 1 \in Ids /\ seq' \in 0 .. MaxSeq
    BY <1>8, GateAssumption, RoomBound DEF PostAsk, NewId, Ids, TypeOK, TablesOK
  <2>2. q \in Question
    BY <1>0, <2>1 DEF Question, ruleKey, RuleKey
  <2>3. DOMAIN pending' \subseteq Ids /\ pending' \in [DOMAIN pending' -> Question]
    BY <1>8, <2>1, <2>2 DEF Put, PostAsk, TypeOK, TablesOK
  <2>4. DOMAIN reviews' \subseteq Ids /\ reviews' \in [DOMAIN reviews' -> Verdicts \cup {"pending"}]
    BY <1>8, <2>1 DEF Put, PostAsk, TypeOK, TablesOK
  <2>5. DOMAIN idem' \subseteq Keys \ {NoKey} /\ idem' \in [DOMAIN idem' -> Ids]
    BY <1>8, <2>1 DEF Put, PostAsk, Claim, TypeOK, TablesOK
  <2> QED
    BY <1>8, <2>1, <2>3, <2>4, <2>5 DEF PostAsk, persisted, TypeOK, TablesOK, StoresOK
<1> QED
  BY <1>1, <1>2, <1>3, <1>4, <1>5, <1>6, <1>7, <1>8 DEF handleReviewPost

(* Settling a question keeps every table typed. *)
LEMMA SettleType ==
    ASSUME TypeOK, NEW n \in DOMAIN pending, NEW allow \in BOOLEAN, NEW always \in BOOLEAN,
           NEW fault, settle(n, allow, always, fault)
    PROVE  TypeOK'
<1> DEFINE q == pending[n]
<1>0. q \in Question /\ q.text \in Texts
  BY DEF TypeOK, TablesOK, Question
<1>1. DOMAIN Remaining(n) \subseteq Ids /\ Remaining(n) \in [DOMAIN Remaining(n) -> Question]
  BY DEF Remaining, Without, TypeOK, TablesOK
<1>2. /\ DOMAIN RulesAfter(q, allow, always) \subseteq RuleKey
      /\ RulesAfter(q, allow, always) \in [DOMAIN RulesAfter(q, allow, always) -> {"allow", "deny"}]
  BY <1>0, RulesAfterType
<1>3. CASE SettleDone(n, allow, always, fault)
  <2>1. TablesOK' /\ ledger' \in Seq(Row)
    BY <1>0, <1>1, <1>3, AnswerType DEF SettleDone, TypeOK, TablesOK
  <2>2. StoresOK'
    BY <1>0, <1>2, <1>3 DEF SettleDone, add, addFile, TypeOK, StoresOK
  <2> QED
    BY <1>0, <1>3, <2>1, <2>2 DEF SettleDone, TypeOK
<1>4. CASE SettleFails(n, allow, always, fault)
  <2>1. TablesOK' /\ ledger' \in Seq(Row)
    BY <1>1, <1>4 DEF SettleFails, TypeOK, TablesOK
  <2>2. StoresOK'
    BY <1>0, <1>2, <1>4 DEF SettleFails, add, TypeOK, StoresOK
  <2> QED
    BY <1>4, <2>1, <2>2 DEF SettleFails, TypeOK
<1> QED
  BY <1>3, <1>4 DEF settle

(* The inputs of POST /toolcall *)
LEMMA ToolcallType ==
    ASSUME TypeOK, NEW call \in ToolCalls, NEW fault, handleToolcall(call, fault)
    PROVE  TypeOK'
<1>0. CallHits(call) \in SUBSET Labels /\ call.text \in Texts /\ call.tool \in Tools
  <2>1. call \in ToolCall
    BY GateAssumption
  <2> QED
    BY <2>1, HitsType DEF ToolCall, TypeOK, StoresOK
<1>1. CASE ToolcallByRule(call, fault)
  <2>1. StoresOK'
    BY <1>0, <1>1, SeedBlockedType DEF ToolcallByRule
  <2> QED
    BY <1>0, <1>1, <2>1 DEF ToolcallByRule, memory, TypeOK, TablesOK
<1>2. CASE ToolcallAsk(call)
  <2> DEFINE hits == CallHits(call)
             q == [review |-> 0, rule |-> <<call.tool, hits>>, text |-> call.text,
                   turn |-> NoTurn, hits |-> hits]
  <2>1. seq + 1 \in Ids /\ seq' \in 0 .. MaxSeq
    BY <1>2, GateAssumption, RoomBound DEF ToolcallAsk, Ids, TypeOK, TablesOK
  <2>2. q \in Question
    BY <1>0 DEF Question, RuleKey
  <2>3. DOMAIN pending' \subseteq Ids /\ pending' \in [DOMAIN pending' -> Question]
    BY <1>2, <2>1, <2>2 DEF Put, ToolcallAsk, TypeOK, TablesOK
  <2> QED
    BY <1>2, <2>1, <2>3 DEF ToolcallAsk, persisted, TypeOK, TablesOK, StoresOK
<1> QED
  BY <1>1, <1>2 DEF handleToolcall

(* A type-correct state stays type-correct whatever the app does next. *)
LEMMA TypeStep == TypeOK /\ [Next]_vars => TypeOK'
<1> SUFFICES ASSUME TypeOK, [Next]_vars PROVE TypeOK'
  OBVIOUS
<1>1. ASSUME NEW f \in Faults, NEW key \in Keys, NEW req \in Requests,
             handleReviewPost(key, req, f)
      PROVE  TypeOK'
  BY <1>1, PostType
<1>2. ASSUME NEW f \in Faults, NEW call \in ToolCalls, handleToolcall(call, f) PROVE TypeOK'
  BY <1>2, ToolcallType
<1>3. ASSUME NEW f \in Faults, NEW n \in Ids, NEW allow \in BOOLEAN, NEW always \in BOOLEAN,
             handleDecision(n, allow, always, f)
      PROVE  TypeOK'
  BY <1>3, SettleType DEF handleDecision
<1>4. ASSUME NEW f \in Faults, NEW n \in Ids, IslandFails(n, f) PROVE TypeOK'
  BY <1>4, SettleType DEF IslandFails
<1>5. ASSUME NEW f \in Faults, NEW on \in BOOLEAN, handleSettings(on, f) PROVE TypeOK'
  BY <1>5 DEF handleSettings, memory, TypeOK, TablesOK, StoresOK
<1>6. ASSUME NEW f \in Faults, NEW t \in Edits, RubbishAdd(t, f) PROVE TypeOK'
  BY <1>6, GateAssumption DEF RubbishAdd, add, addFile, memory, TypeOK, TablesOK, StoresOK
<1>7. ASSUME NEW f \in Faults, NEW t \in Edits, RubbishRemove(t, f) PROVE TypeOK'
  BY <1>7, GateAssumption DEF RubbishRemove, memory, TypeOK, TablesOK, StoresOK
<1>8. ASSUME NEW f \in Faults, NEW t \in Edits, BlockedRemove(t, f) PROVE TypeOK'
  BY <1>8, GateAssumption DEF BlockedRemove, memory, TypeOK, TablesOK, StoresOK
<1>9. ASSUME NEW f \in Faults, NEW t \in Edits, handleEvents(t, f) PROVE TypeOK'
  <2>1. t \in Texts
    BY GateAssumption
  <2>2. StoresOK'
    BY <1>9, <2>1, SeedBlockedType DEF handleEvents
  <2> QED
    BY <1>9, <2>1, <2>2 DEF handleEvents, memory, TypeOK, TablesOK
<1>10. ASSUME NEW env \in BOOLEAN, Restart(env) PROVE TypeOK'
  BY <1>10, GateAssumption DEF Restart, NoEntries, TypeOK, TablesOK, StoresOK
<1>11. CASE UNCHANGED vars
  BY <1>11 DEF vars, memory, persisted, TypeOK, TablesOK, StoresOK
<1> QED
  BY <1>1, <1>2, <1>3, <1>4, <1>5, <1>6, <1>7, <1>8, <1>9, <1>10, <1>11 DEF Next

(* The app's tables, files and logs always have their types. *)
THEOREM GateTyped == Spec => []TypeOK
<1>1. Init => TypeOK
  <2>1. Init => TablesOK
    BY GateAssumption DEF Init, NoEntries, TablesOK
  <2>2. Init => StoresOK
    <3> SUFFICES ASSUME Init PROVE StoresOK
      OBVIOUS
    <3>1. disk.rules = NoEntries /\ disk.rubbish = {} /\ disk.blocked = {} /\ disk.askAll = FALSE
      BY DEF Init
    <3>2. DOMAIN disk = {"rules", "rubbish", "blocked", "askAll"}
      BY DEF Init
    <3>3. DOMAIN NoEntries = {} /\ NoEntries \in [{} -> {"allow", "deny"}]
      BY DEF NoEntries
    <3> QED
      BY <3>1, <3>2, <3>3 DEF Init, StoresOK
  <2>3. Init => ledger \in Seq(Row) /\ restarts \in 0 .. MaxRestarts /\ refused \subseteq Texts
    BY GateAssumption DEF Init
  <2> QED
    BY <2>1, <2>2, <2>3 DEF TypeOK
<1> QED
  BY <1>1, TypeStep, PTL DEF Spec

-----------------------------------------------------------------------------
(* The inductive invariant: ids in use were issued, keys do not share one, and
   a question points at its own undecided review. *)
Inv == TypeOK /\ QuestionsMatchReviews /\ KeysHaveOwnReview

(* What a step has to show besides types *)
Kept == QuestionsMatchReviews' /\ KeysHaveOwnReview' /\ VerdictStep

(* A fresh id is above every id in use. *)
LEMMA FreshId ==
    ASSUME Inv, NEW key \in Keys
    PROVE  /\ NewId(key) \in Nat /\ NewId(key) > seq
           /\ NewId(key) \notin DOMAIN reviews
           /\ \A k \in DOMAIN idem : idem[k] # NewId(key)
           /\ \A n \in DOMAIN pending : n < NewId(key) /\ pending[n].review # NewId(key)
<1>1. NewId(key) \in Nat /\ NewId(key) > seq /\ seq \in Nat
  BY GateAssumption DEF Inv, TypeOK, TablesOK, NewId
<1>2. DOMAIN reviews \subseteq Nat /\ DOMAIN pending \subseteq Nat
  BY GateAssumption DEF Inv, TypeOK, TablesOK, Ids
<1>3. NewId(key) \notin DOMAIN reviews
  BY <1>1, <1>2 DEF Inv, KeysHaveOwnReview, IdsIssued
<1>4. ASSUME NEW k \in DOMAIN idem PROVE idem[k] # NewId(key)
  <2>1. idem[k] \in Nat
    BY GateAssumption DEF Inv, TypeOK, TablesOK, Ids
  <2> QED
    BY <1>1, <2>1 DEF Inv, KeysHaveOwnReview, IdsIssued
<1>5. ASSUME NEW n \in DOMAIN pending
      PROVE  n < NewId(key) /\ pending[n].review # NewId(key)
  <2>1. n <= seq /\ n \in Nat
    BY <1>2 DEF Inv, KeysHaveOwnReview, IdsIssued
  <2>2. pending[n].review = 0 \/ pending[n].review \in DOMAIN reviews
    BY DEF Inv, QuestionsMatchReviews
  <2> QED
    BY <1>1, <1>3, <2>1, <2>2
<1> QED
  BY <1>1, <1>3, <1>4, <1>5

(* Claiming a fresh id keeps keys apart. *)
LEMMA ClaimKept ==
    ASSUME Inv, NEW key \in Keys, key \notin DOMAIN idem, Claim(key), NEW top \in Nat,
           top >= NewId(key), seq' = top
    PROVE  /\ \A j, k \in DOMAIN idem' : idem'[j] = idem'[k] => j = k
           /\ \A k \in DOMAIN idem' : idem'[k] <= seq'
<1>1. seq \in Nat /\ \A k \in DOMAIN idem : idem[k] \in Nat /\ idem[k] <= seq
  BY GateAssumption DEF Inv, TypeOK, TablesOK, KeysHaveOwnReview, IdsIssued, Ids
<1>2. NewId(key) \in Nat /\ NewId(key) > seq /\ \A k \in DOMAIN idem : idem[k] # NewId(key)
  BY FreshId
<1>3. \A j, k \in DOMAIN idem : idem[j] = idem[k] => j = k
  BY DEF Inv, KeysHaveOwnReview
<1>4. CASE key = NoKey
  BY <1>1, <1>2, <1>3, <1>4 DEF Claim
<1>5. CASE key # NoKey
  BY <1>1, <1>2, <1>3, <1>5 DEF Claim, Put
<1> QED
  BY <1>4, <1>5

(* An answer on the spot decides a fresh review only. *)
LEMMA DecideNowKept ==
    ASSUME Inv, NEW key \in Keys, key \notin DOMAIN idem, NEW req, NEW hits, NEW verdict,
           NEW by, NEW fault, DecideNow(key, req, hits, verdict, by, fault)
    PROVE  Kept
<1>1. /\ NewId(key) \in Nat /\ NewId(key) > seq /\ NewId(key) \notin DOMAIN reviews
      /\ \A n \in DOMAIN pending : n < NewId(key) /\ pending[n].review # NewId(key)
  BY FreshId
<1>2. seq' = NewId(key) /\ reviews' = Put(reviews, NewId(key), verdict)
      /\ pending' = pending /\ Claim(key)
  BY DEF DecideNow
<1>3. seq \in Nat /\ DOMAIN reviews \subseteq Nat /\ DOMAIN pending \subseteq Nat
  BY GateAssumption DEF Inv, TypeOK, TablesOK, Ids
<1>4. DOMAIN reviews' = DOMAIN reviews \cup {NewId(key)}
      /\ \A id \in DOMAIN reviews : reviews'[id] = reviews[id]
  BY <1>1, <1>2 DEF Put
<1>5. QuestionsMatchReviews'
  BY <1>2, <1>4 DEF Inv, QuestionsMatchReviews
<1>6. KeysHaveOwnReview'
  <2>1. \A id \in DOMAIN reviews' : id <= seq'
    BY <1>1, <1>2, <1>3, <1>4 DEF Inv, KeysHaveOwnReview, IdsIssued
  <2>2. \A n \in DOMAIN pending' : n <= seq'
    BY <1>1, <1>2, <1>3
  <2> QED
    BY <1>1, <1>2, <2>1, <2>2, ClaimKept DEF KeysHaveOwnReview, IdsIssued
<1>7. VerdictStep
  BY <1>4 DEF VerdictStep
<1> QED
  BY <1>5, <1>6, <1>7 DEF Kept

(* A handler that dies right after its claim decides nothing. *)
LEMMA ClaimOnlyKept ==
    ASSUME Inv, NEW key \in Keys, key \notin DOMAIN idem, Claim(key), seq' = NewId(key),
           UNCHANGED <<reviews, pending>>
    PROVE  Kept
<1>1. NewId(key) \in Nat /\ NewId(key) > seq /\ seq \in Nat
  BY FreshId, GateAssumption DEF Inv, TypeOK, TablesOK
<1>2. DOMAIN reviews \subseteq Nat /\ DOMAIN pending \subseteq Nat
  BY GateAssumption DEF Inv, TypeOK, TablesOK, Ids
<1>3. IdsIssued' /\ KeysHaveOwnReview'
  BY <1>1, <1>2, ClaimKept DEF Inv, KeysHaveOwnReview, IdsIssued
<1> QED
  BY <1>3 DEF Kept, Inv, QuestionsMatchReviews, VerdictStep

(* Nothing of the tables changes. *)
LEMMA IdleKept == ASSUME Inv, UNCHANGED memory PROVE Kept
  BY DEF Kept, Inv, memory, QuestionsMatchReviews, KeysHaveOwnReview, IdsIssued, VerdictStep

(* A new question and its review are both fresh. *)
LEMMA AskKept ==
    ASSUME Inv, NEW key \in Keys, NEW req \in Requests, PostAsk(key, req)
    PROVE  Kept
<1> DEFINE id == NewId(key)
           hits == ReviewHits(req)
           q == [review |-> id, rule |-> ruleKey(req, hits), text |-> req.text,
                 turn |-> req.turn, hits |-> hits]
<1>1. /\ id \in Nat /\ id > seq /\ id \notin DOMAIN reviews
      /\ \A n \in DOMAIN pending : n < id /\ pending[n].review # id
  BY FreshId
<1>2. /\ seq' = id + 1 /\ reviews' = Put(reviews, id, "pending") /\ Claim(key)
      /\ pending' = Put(pending, id + 1, q) /\ key \notin DOMAIN idem
  BY DEF PostAsk, Challenged
<1>3. seq \in Nat /\ DOMAIN reviews \subseteq Nat /\ DOMAIN pending \subseteq Nat
  BY GateAssumption DEF Inv, TypeOK, TablesOK, Ids
<1>4. /\ DOMAIN reviews' = DOMAIN reviews \cup {id} /\ reviews'[id] = "pending"
      /\ \A r \in DOMAIN reviews : reviews'[r] = reviews[r]
  BY <1>1, <1>2 DEF Put
<1>5. /\ DOMAIN pending' = DOMAIN pending \cup {id + 1}
      /\ pending'[id + 1].review = id
      /\ \A n \in DOMAIN pending : pending'[n] = pending[n]
  BY <1>1, <1>2, <1>3 DEF Put
<1>6. QuestionsMatchReviews'
  <2> SUFFICES ASSUME NEW n \in DOMAIN pending', pending'[n].review # 0
               PROVE  /\ pending'[n].review \in DOMAIN reviews'
                      /\ reviews'[pending'[n].review] = "pending"
                      /\ \A m \in DOMAIN pending' :
                            pending'[m].review = pending'[n].review => m = n
    BY DEF QuestionsMatchReviews
  <2>1. CASE n = id + 1
    BY <1>1, <1>4, <1>5, <2>1
  <2>2. CASE n \in DOMAIN pending
    <3>1. /\ pending[n].review \in DOMAIN reviews /\ reviews[pending[n].review] = "pending"
          /\ \A m \in DOMAIN pending : pending[m].review = pending[n].review => m = n
      BY <1>5, <2>2 DEF Inv, QuestionsMatchReviews
    <3> QED
      BY <1>1, <1>4, <1>5, <2>2, <3>1
  <2> QED
    BY <1>5, <2>1, <2>2
<1>7. KeysHaveOwnReview'
  <2>1. \A r \in DOMAIN reviews' : r <= seq'
    BY <1>1, <1>2, <1>3, <1>4 DEF Inv, KeysHaveOwnReview, IdsIssued
  <2>2. \A n \in DOMAIN pending' : n <= seq'
    BY <1>1, <1>2, <1>3, <1>5
  <2>3. id + 1 \in Nat /\ id + 1 >= id
    BY <1>1
  <2>4. /\ \A j, k \in DOMAIN idem' : idem'[j] = idem'[k] => j = k
        /\ \A k \in DOMAIN idem' : idem'[k] <= seq'
    BY <1>2, <2>3, ClaimKept
  <2> QED
    BY <2>1, <2>2, <2>4 DEF KeysHaveOwnReview, IdsIssued
<1>8. VerdictStep
  BY <1>4 DEF VerdictStep
<1> QED
  BY <1>6, <1>7, <1>8 DEF Kept

(* A waiting /toolcall has a question but no review. *)
LEMMA ToolcallAskKept ==
    ASSUME Inv, NEW call, ToolcallAsk(call) PROVE Kept
<1>1. seq \in Nat /\ DOMAIN reviews \subseteq Nat /\ DOMAIN pending \subseteq Nat
      /\ \A k \in DOMAIN idem : idem[k] \in Nat
  BY GateAssumption DEF Inv, TypeOK, TablesOK, Ids
<1>2. seq' = seq + 1 /\ UNCHANGED <<reviews, idem>>
  BY DEF ToolcallAsk
<1>3. /\ DOMAIN pending' = DOMAIN pending \cup {seq + 1} /\ pending'[seq + 1].review = 0
      /\ \A n \in DOMAIN pending : n # seq + 1 => pending'[n] = pending[n]
  BY DEF ToolcallAsk, Put
<1>4. \A n \in DOMAIN pending : n # seq + 1
  BY <1>1 DEF Inv, KeysHaveOwnReview, IdsIssued
<1>5. QuestionsMatchReviews'
  BY <1>2, <1>3, <1>4 DEF Inv, QuestionsMatchReviews
<1>6. KeysHaveOwnReview'
  BY <1>1, <1>2, <1>3 DEF Inv, KeysHaveOwnReview, IdsIssued
<1> QED
  BY <1>2, <1>5, <1>6 DEF Kept, VerdictStep

(* Settling decides the one undecided review of the question, or none. *)
LEMMA SettleKept ==
    ASSUME Inv, NEW n \in DOMAIN pending, NEW allow, NEW always, NEW fault,
           settle(n, allow, always, fault)
    PROVE  Kept
<1>1. pending' = Without(pending, n) /\ UNCHANGED <<seq, idem>>
  BY DEF settle, SettleDone, SettleFails, Remaining
<1>2. /\ DOMAIN pending' = DOMAIN pending \ {n}
      /\ \A m \in DOMAIN pending' : pending'[m] = pending[m]
  BY <1>1 DEF Without
<1>3. \/ UNCHANGED reviews
      \/ /\ pending[n].review # 0
         /\ reviews' = Put(reviews, pending[n].review, verdictFor(allow))
  BY DEF settle, SettleDone, SettleFails, Answer
<1>4. pending[n].review # 0 =>
        /\ pending[n].review \in DOMAIN reviews /\ reviews[pending[n].review] = "pending"
        /\ \A m \in DOMAIN pending : pending[m].review = pending[n].review => m = n
  BY DEF Inv, QuestionsMatchReviews
<1>5. /\ DOMAIN reviews' = DOMAIN reviews
      /\ \A r \in DOMAIN reviews : r # pending[n].review => reviews'[r] = reviews[r]
      /\ \A r \in DOMAIN reviews : reviews[r] # "pending" => reviews'[r] = reviews[r]
  BY <1>3, <1>4 DEF Put
<1>6. QuestionsMatchReviews'
  <2> SUFFICES ASSUME NEW m \in DOMAIN pending', pending'[m].review # 0
               PROVE  /\ pending'[m].review \in DOMAIN reviews'
                      /\ reviews'[pending'[m].review] = "pending"
                      /\ \A k \in DOMAIN pending' :
                            pending'[k].review = pending'[m].review => k = m
    BY DEF QuestionsMatchReviews
  <2>1. m \in DOMAIN pending /\ m # n /\ pending'[m] = pending[m]
    BY <1>2
  <2>2. /\ pending[m].review \in DOMAIN reviews /\ reviews[pending[m].review] = "pending"
        /\ \A k \in DOMAIN pending : pending[k].review = pending[m].review => k = m
    BY <2>1 DEF Inv, QuestionsMatchReviews
  <2> QED
    BY <1>2, <1>5, <2>1, <2>2
<1>7. KeysHaveOwnReview'
  BY <1>1, <1>2, <1>5 DEF Inv, KeysHaveOwnReview, IdsIssued
<1>8. VerdictStep
  <2> SUFFICES ASSUME NEW id \in DOMAIN reviews
               PROVE  /\ id \in DOMAIN reviews'
                      /\ reviews[id] # "pending" => reviews'[id] = reviews[id]
    BY DEF VerdictStep
  <2> QED
    BY <1>5
<1> QED
  BY <1>6, <1>7, <1>8 DEF Kept

(* One handled review keeps the invariant. *)
LEMMA PostKept ==
    ASSUME Inv, NEW key \in Keys, NEW req \in Requests, NEW fault,
           handleReviewPost(key, req, fault)
    PROVE  Kept
<1>1. CASE PostRetry(key, req)
  BY <1>1, IdleKept DEF PostRetry, vars
<1>2. CASE PostLogFails(key, req)
  BY <1>2, ClaimOnlyKept DEF PostLogFails
<1>3. CASE PostSkipped(key, req, fault)
  BY <1>3, DecideNowKept DEF PostSkipped
<1>4. CASE PostClean(key, req, fault)
  BY <1>4, DecideNowKept DEF PostClean
<1>5. CASE PostByRule(key, req, fault)
  BY <1>5, DecideNowKept DEF PostByRule, Challenged
<1>6. CASE PostRuleSeedFails(key, req)
  BY <1>6, ClaimOnlyKept DEF PostRuleSeedFails, Challenged
<1>7. CASE PostByGrant(key, req, fault)
  BY <1>7, DecideNowKept DEF PostByGrant, Challenged
<1>8. CASE PostAsk(key, req)
  BY <1>8, AskKept
<1> QED
  BY <1>1, <1>2, <1>3, <1>4, <1>5, <1>6, <1>7, <1>8 DEF handleReviewPost

(* Every step of the app keeps the invariant and every verdict given. *)
LEMMA InvStep == ASSUME Inv, [Next]_vars PROVE Inv' /\ [VerdictStep]_vars
<1>0. TypeOK'
  BY TypeStep DEF Inv
<1>1. ASSUME NEW f \in Faults, NEW key \in Keys, NEW req \in Requests,
             handleReviewPost(key, req, f)
      PROVE  Kept
  BY <1>1, PostKept
<1>2. ASSUME NEW f \in Faults, NEW call \in ToolCalls, handleToolcall(call, f) PROVE Kept
  BY <1>2, ToolcallAskKept, IdleKept DEF handleToolcall, ToolcallByRule
<1>3. ASSUME NEW f \in Faults, NEW n \in Ids, NEW allow \in BOOLEAN, NEW always \in BOOLEAN,
             handleDecision(n, allow, always, f)
      PROVE  Kept
  BY <1>3, SettleKept DEF handleDecision
<1>4. ASSUME NEW f \in Faults, NEW n \in Ids, IslandFails(n, f) PROVE Kept
  BY <1>4, SettleKept DEF IslandFails
<1>5. ASSUME NEW f \in Faults, NEW on \in BOOLEAN, handleSettings(on, f) PROVE Kept
  BY <1>5, IdleKept DEF handleSettings
<1>6. ASSUME NEW f \in Faults, NEW t \in Edits,
             RubbishAdd(t, f) \/ RubbishRemove(t, f) \/ BlockedRemove(t, f) \/ handleEvents(t, f)
      PROVE  Kept
  BY <1>6, IdleKept DEF RubbishAdd, RubbishRemove, BlockedRemove, handleEvents
<1>7. ASSUME NEW env \in BOOLEAN, Restart(env) PROVE Kept
  <2>1. DOMAIN reviews' = {} /\ DOMAIN idem' = {} /\ DOMAIN pending' = {} /\ restarts' # restarts
    BY <1>7 DEF Restart, NoEntries, Inv, TypeOK
  <2> QED
    BY <2>1 DEF Kept, QuestionsMatchReviews, KeysHaveOwnReview, IdsIssued, VerdictStep
<1>8. ASSUME UNCHANGED vars PROVE Kept
  BY <1>8, IdleKept DEF vars
<1>9. Kept
  BY <1>1, <1>2, <1>3, <1>4, <1>5, <1>6, <1>7, <1>8 DEF Next
<1> QED
  BY <1>0, <1>9 DEF Inv, Kept

(* The initial state satisfies the invariant. *)
LEMMA InvInit == Init /\ TypeOK => Inv
<1>1. Init => DOMAIN reviews = {} /\ DOMAIN idem = {} /\ DOMAIN pending = {}
  BY DEF Init, NoEntries
<1> QED
  BY <1>1 DEF Inv, QuestionsMatchReviews, KeysHaveOwnReview, IdsIssued

(* A question always points at its own undecided review, and keys never share
   a review, under every combination of failing writes and restarts. *)
THEOREM GateInvariant == Spec => [](QuestionsMatchReviews /\ KeysHaveOwnReview)
<1>1. Inv /\ [Next]_vars => Inv'
  BY InvStep
<1>2. Inv => QuestionsMatchReviews /\ KeysHaveOwnReview
  BY DEF Inv
<1> QED
  BY <1>1, <1>2, InvInit, GateTyped, PTL DEF Spec

(* Two idempotency keys never lead to the same review, and every id in use was
   issued by this incarnation of the app. *)
THEOREM GateKeysSeparate == Spec => []KeysHaveOwnReview
  BY GateInvariant, PTL

(* No verdict given by a running app is ever changed or forgotten. *)
THEOREM GateVerdictFinal == Spec => VerdictFinal
<1>1. Inv /\ [Next]_vars => Inv'
  BY InvStep
<1>2. Inv /\ [Next]_vars => [VerdictStep]_vars
  BY InvStep
<1> QED
  BY <1>1, <1>2, InvInit, GateTyped, PTL DEF Spec, VerdictFinal
-----------------------------------------------------------------------------
(* What was refused, while the index writes succeed *)

(* blocked.json is never behind the index in memory. *)
Remembered == TypeOK /\ RefusedIsRemembered /\ blocked = disk.blocked

(* A seed that does not throw reaches the file. *)
LEMMA SeedRemembered ==
    ASSUME Remembered, NEW text, NEW fault, fault # "index", SeedBlocked(text, fault)
    PROVE  blocked' = blocked \cup {text} /\ blocked' = disk'.blocked
BY DEF Remembered, TypeOK, StoresOK, SeedBlocked, add, addFile, AddWrites

(* Nothing a handler does while the index writes succeed loses a refusal. *)
LEMMA RememberedStep ==
    ASSUME "index" \notin Faults, Remembered, [Next]_vars
    PROVE  Remembered'
<1> DEFINE StillThere == refused' \subseteq blocked' /\ blocked' = disk'.blocked
<1> USE DEF Remembered, RefusedIsRemembered
<1>0. TypeOK'
  BY TypeStep
<1>1. ASSUME UNCHANGED <<blocked, disk, refused>> PROVE StillThere
  BY <1>1
<1>2. ASSUME NEW f \in Faults, NEW key \in Keys, NEW req \in Requests,
             handleReviewPost(key, req, f)
      PROVE  StillThere
  <2>1. CASE PostByRule(key, req, f)
    BY <2>1, <1>1, SeedRemembered DEF PostByRule
  <2>2. CASE ~PostByRule(key, req, f)
    BY <1>2, <2>2, <1>1 DEF handleReviewPost, PostRetry, PostLogFails, PostSkipped, PostClean,
       PostByGrant, PostAsk, vars, persisted
  <2> QED
    BY <2>1, <2>2
<1>3. ASSUME NEW f \in Faults, NEW call \in ToolCalls, handleToolcall(call, f) PROVE StillThere
  BY <1>3, <1>1, SeedRemembered DEF handleToolcall, ToolcallByRule, ToolcallAsk, persisted
<1>4. ASSUME NEW f \in Faults, NEW n \in Ids, NEW allow \in BOOLEAN, NEW always \in BOOLEAN,
             settle(n, allow, always, f)
      PROVE  StillThere
  <2>1. CASE SettleDone(n, allow, always, f)
    <3> DEFINE q == pending[n]
    <3>0. f # "index" /\ "blocked" \in DOMAIN disk /\ "rules" \in DOMAIN disk
      BY DEF TypeOK, StoresOK
    <3>1. CASE allow
      <4>1. blocked' = blocked /\ refused' = refused /\ disk'.blocked = disk.blocked
        BY <2>1, <3>0, <3>1 DEF SettleDone
      <4> QED
        BY <4>1
    <3>2. CASE ~allow
      <4>1. /\ blocked' = add(blocked, q.text) /\ refused' = refused \cup {q.text}
            /\ disk'.blocked = addFile(disk.blocked, blocked, q.text, f)
        BY <2>1, <3>0, <3>2 DEF SettleDone
      <4> QED
        BY <3>0, <4>1 DEF add, addFile, AddWrites
    <3> QED
      BY <3>1, <3>2
  <2>2. CASE SettleFails(n, allow, always, f)
    BY <2>2 DEF SettleFails, TypeOK, StoresOK
  <2> QED
    BY <1>4, <2>1, <2>2 DEF settle
<1>5. ASSUME NEW f \in Faults, NEW on \in BOOLEAN, handleSettings(on, f) PROVE StillThere
  BY <1>5 DEF handleSettings, TypeOK, StoresOK
<1>6. ASSUME NEW f \in Faults, NEW t \in Edits,
             RubbishAdd(t, f) \/ RubbishRemove(t, f) \/ BlockedRemove(t, f) \/ handleEvents(t, f)
      PROVE  StillThere
  <2>1. CASE handleEvents(t, f)
    BY <2>1, SeedRemembered DEF handleEvents
  <2>2. CASE ~handleEvents(t, f)
    BY <1>6, <2>2 DEF RubbishAdd, RubbishRemove, BlockedRemove, TypeOK, StoresOK
  <2> QED
    BY <2>1, <2>2
<1>7. ASSUME NEW env \in BOOLEAN, Restart(env) PROVE StillThere
  BY <1>7 DEF Restart
<1>8. ASSUME UNCHANGED vars PROVE StillThere
  BY <1>8, <1>1 DEF vars, persisted
<1>9. ASSUME NEW f \in Faults, NEW n \in Ids, IslandFails(n, f) PROVE StillThere
  BY <1>9, <1>4 DEF IslandFails
<1>10. StillThere
  BY <1>2, <1>3, <1>4, <1>5, <1>6, <1>7, <1>8, <1>9 DEF Next, handleDecision
<1> QED
  BY <1>0, <1>10

(* While the writes of the indexes succeed, everything that was refused stays
   in the blocked index, across any number of restarts, until it is pruned. *)
THEOREM GateRemembers ==
    ASSUME "index" \notin Faults
    PROVE  Spec => []RefusedIsRemembered
<1>1. Init /\ TypeOK => Remembered
  BY DEF Init, Remembered, RefusedIsRemembered
<1>2. Remembered /\ [Next]_vars => Remembered'
  BY RememberedStep
<1>3. Remembered => RefusedIsRemembered
  BY DEF Remembered
<1> QED
  BY <1>1, <1>2, <1>3, GateTyped, PTL DEF Spec

(* While the index writes succeed, a review passes as clean only if nothing
   that was refused looks like it. *)
THEOREM GateNoPass ==
    ASSUME "index" \notin Faults
    PROVE  Spec => NoPassAfterRefusal
<1> DEFINE Pass == (Len(ledger') = Len(ledger) + 1 /\ ledger'[Len(ledger')].by = "clean") =>
                      \A t \in refused : Sim[ledger'[Len(ledger')].text][t] < THRESHOLD
<1>1. Init /\ TypeOK => Remembered
  BY DEF Init, Remembered, RefusedIsRemembered
<1>2. Remembered /\ [Next]_vars => Remembered'
  BY RememberedStep
<1>3. ASSUME Remembered, [Next]_vars PROVE [Pass]_vars
  <2>0. Len(ledger) \in Nat /\ ledger \in Seq(Row)
    BY <1>3 DEF Remembered, TypeOK
  <2>1. ASSUME ledger' = ledger PROVE Pass
    BY <2>0, <2>1
  <2>2. ASSUME NEW row \in Row, NEW f, row.by # "clean", LogReview(row, f) PROVE Pass
    BY <2>0, <2>1, <2>2, AppendFacts DEF LogReview
  <2>3. ASSUME NEW f \in Faults, NEW key \in Keys, NEW req \in Requests, handleReviewPost(key, req, f)
        PROVE  Pass
    <3>0. /\ req \in Request /\ ReviewHits(req) \in SUBSET Labels /\ req.text \in Texts
          /\ TypeOK
      BY <1>3, HitsType, GateAssumption DEF Remembered, TypeOK, StoresOK, Request
    <3>1. CASE PostClean(key, req, f)
      <4> DEFINE row == RowOf(NewId(key), req, {}, "allow", "clean")
      <4>1. LogReview(row, f) /\ ReviewHits(req) = {}
        BY <3>1 DEF PostClean, DecideNow
      <4>2. ~match(blocked, req.text, THRESHOLD)
        BY <4>1 DEF ReviewHits, WithAskAll, IndexHits
      <4>3. \A t \in refused : t \in Texts /\ Sim[req.text][t] < THRESHOLD
        <5>1. \A t \in refused : t \in blocked /\ t \in Texts /\ Sim[req.text][t] \in 0 .. 100
          BY <1>3, <3>0, GateAssumption DEF Remembered, RefusedIsRemembered, TypeOK
        <5> QED
          BY <4>2, <5>1 DEF match, THRESHOLD
      <4>4. row \in Row
        BY <3>0, <3>1, DecideNowRow DEF PostClean, Verdicts
      <4>5. ledger' = ledger \/ (Len(ledger') = Len(ledger) + 1 /\ ledger'[Len(ledger')] = row)
        BY <2>0, <4>1, <4>4, AppendFacts DEF LogReview
      <4> QED
        BY <2>1, <4>3, <4>5 DEF RowOf
    <3>2. ASSUME NEW hits \in SUBSET Labels, NEW verdict \in Verdicts,
                 NEW by \in {"garbage", "noise", "rule", "turn-grant"},
                 DecideNow(key, req, hits, verdict, by, f)
          PROVE  Pass
      <4>1. RowOf(NewId(key), req, hits, verdict, by) \in Row
        BY <3>0, <3>2, DecideNowRow
      <4> QED
        BY <2>2, <3>2, <4>1 DEF DecideNow, RowOf
    <3>3. CASE PostSkipped(key, req, f)
      <4>1. SkipVerdict(req) \in Verdicts /\ Skip(req) \in {"garbage", "noise"} /\ {} \in SUBSET Labels
        BY <3>3 DEF PostSkipped, SkipVerdict, Skip, Verdicts
      <4>2. DecideNow(key, req, {}, SkipVerdict(req), Skip(req), f)
        BY <3>3 DEF PostSkipped
      <4> QED
        BY <3>2, <4>1, <4>2
    <3>4. CASE PostByRule(key, req, f)
      <4> DEFINE k == ruleKey(req, ReviewHits(req))
      <4>1. savedRules[k] \in Verdicts
        BY <3>0, <3>4 DEF PostByRule, HasRule, TypeOK, StoresOK, Verdicts
      <4>2. DecideNow(key, req, ReviewHits(req), savedRules[k], "rule", f)
        BY <3>4 DEF PostByRule
      <4> QED
        BY <3>0, <3>2, <4>1, <4>2
    <3>5. CASE PostByGrant(key, req, f)
      <4> DEFINE g == turnGrants[turnKey(req, ReviewHits(req))]
      <4>1. verdictFor(g) \in Verdicts
        BY DEF verdictFor, Verdicts
      <4>2. DecideNow(key, req, ReviewHits(req), verdictFor(g), "turn-grant", f)
        BY <3>5 DEF PostByGrant
      <4> QED
        BY <3>0, <3>2, <4>1, <4>2
    <3>6. CASE PostRetry(key, req) \/ PostLogFails(key, req) \/ PostRuleSeedFails(key, req) \/ PostAsk(key, req)
      BY <2>1, <3>6 DEF PostRetry, PostLogFails, PostRuleSeedFails, PostAsk, vars
    <3> QED
      BY <2>3, <3>1, <3>3, <3>4, <3>5, <3>6 DEF handleReviewPost
  <2>4. ASSUME NEW f \in Faults, NEW n \in DOMAIN pending, NEW allow \in BOOLEAN, NEW always \in BOOLEAN,
               settle(n, allow, always, f)
        PROVE  Pass
    <3> DEFINE q == pending[n]
    <3>1. ledger' = ledger \/ (q.review # 0 /\ LogReview(RowOf(q.review, q, q.hits, verdictFor(allow), "island"), f))
      BY <2>4 DEF settle, SettleDone, SettleFails, Answer
    <3>2. q \in Question
      BY <1>3 DEF Remembered, TypeOK, TablesOK
    <3>3. q.review # 0 => RowOf(q.review, q, q.hits, verdictFor(allow), "island") \in Row
      BY <3>2 DEF Question, RowOf, Row, verdictFor, Verdicts
    <3> QED
      BY <2>1, <2>2, <3>1, <3>3 DEF RowOf
  <2>5. CASE Next
    BY <2>1, <2>3, <2>4, <2>5 DEF Next, handleToolcall, ToolcallByRule, ToolcallAsk, handleDecision, IslandFails,
       handleSettings, RubbishAdd, RubbishRemove, BlockedRemove, handleEvents, Restart
  <2> QED
    BY <1>3, <2>5
<1> QED
  BY <1>1, <1>2, <1>3, GateTyped, PTL DEF Spec, NoPassAfterRefusal

-----------------------------------------------------------------------------
(* What the session file says, while its appends succeed *)

(* What POST /v1/reviews does to the log and the tables: nothing for a known
   key; else the key is claimed and the handler dies, decides or asks. *)
LEMMA PostEffect ==
    ASSUME Inv, NEW key \in Keys, NEW req \in Requests, NEW f \in Faults, handleReviewPost(key, req, f)
    PROVE  \/ key \in DOMAIN idem /\ UNCHANGED vars
           \/ /\ key \notin DOMAIN idem /\ Claim(key) /\ f # "none"
              /\ UNCHANGED <<reviews, pending, turnGrants, ledger>>
           \/ /\ key \notin DOMAIN idem /\ Claim(key)
              /\ \E row \in Row :
                   /\ row.id = NewId(key) /\ row.text = req.text /\ row.turn = req.turn
                   /\ row.by # "island"
                   /\ row.by = "turn-grant" =>
                        /\ <<row.turn, row.hits>> \in DOMAIN turnGrants /\ AskAll \notin row.hits
                        /\ row.verdict = verdictFor(turnGrants[<<row.turn, row.hits>>])
                   /\ reviews' = Put(reviews, NewId(key), row.verdict) /\ LogReview(row, f)
                   /\ UNCHANGED <<pending, turnGrants>>
           \/ /\ key \notin DOMAIN idem /\ Claim(key) /\ NewId(key) \in Ids /\ NewId(key) + 1 \in Ids
              /\ \E q \in Question :
                   /\ q.review = NewId(key) /\ q.text = req.text /\ q.turn = req.turn
                   /\ reviews' = Put(reviews, NewId(key), "pending")
                   /\ pending' = Put(pending, NewId(key) + 1, q) /\ UNCHANGED <<turnGrants, ledger>>
<1> DEFINE Decided == /\ key \notin DOMAIN idem /\ Claim(key)
                      /\ \E row \in Row :
                           /\ row.id = NewId(key) /\ row.text = req.text /\ row.turn = req.turn
                           /\ row.by # "island"
                           /\ row.by = "turn-grant" =>
                                /\ <<row.turn, row.hits>> \in DOMAIN turnGrants /\ AskAll \notin row.hits
                                /\ row.verdict = verdictFor(turnGrants[<<row.turn, row.hits>>])
                           /\ reviews' = Put(reviews, NewId(key), row.verdict) /\ LogReview(row, f)
                           /\ UNCHANGED <<pending, turnGrants>>
<1>0. /\ TypeOK /\ req \in Request /\ ReviewHits(req) \in SUBSET Labels /\ req.text \in Texts
      /\ req.tool \in Tools /\ req.turn \in Turns \cup {NoTurn} /\ {} \in SUBSET Labels
  BY HitsType, GateAssumption DEF Inv, TypeOK, StoresOK, Request
<1>1. ASSUME NEW hits \in SUBSET Labels, NEW verdict \in Verdicts,
             NEW by \in {"garbage", "noise", "clean", "rule", "turn-grant"},
             by = "turn-grant" => /\ <<req.turn, hits>> \in DOMAIN turnGrants /\ AskAll \notin hits
                                  /\ verdict = verdictFor(turnGrants[<<req.turn, hits>>]),
             key \notin DOMAIN idem, DecideNow(key, req, hits, verdict, by, f)
      PROVE  Decided
  <2> DEFINE row == RowOf(NewId(key), req, hits, verdict, by)
  <2>1. row \in Row
    BY <1>0, <1>1, DecideNowRow
  <2>2. /\ row.id = NewId(key) /\ row.by = by /\ row.turn = req.turn /\ row.hits = hits
        /\ row.verdict = verdict /\ row.text = req.text
    BY DEF RowOf
  <2>3. /\ reviews' = Put(reviews, NewId(key), verdict) /\ LogReview(row, f) /\ Claim(key)
        /\ UNCHANGED <<pending, turnGrants>>
    BY <1>1 DEF DecideNow
  <2> HIDE DEF row
  <2> QED
    BY <1>1, <2>1, <2>2, <2>3
<1>2. CASE PostSkipped(key, req, f)
  <2>1. SkipVerdict(req) \in Verdicts /\ Skip(req) \in {"garbage", "noise"}
    BY <1>2 DEF PostSkipped, SkipVerdict, Skip, Verdicts
  <2>2. key \notin DOMAIN idem /\ DecideNow(key, req, {}, SkipVerdict(req), Skip(req), f)
    BY <1>2 DEF PostSkipped
  <2> QED
    BY <1>0, <1>1, <2>1, <2>2
<1>3. CASE PostClean(key, req, f)
  <2>1. key \notin DOMAIN idem /\ DecideNow(key, req, {}, "allow", "clean", f) /\ "allow" \in Verdicts
    BY <1>3 DEF PostClean, Verdicts
  <2> QED
    BY <1>0, <1>1, <2>1
<1>4. CASE PostByRule(key, req, f)
  <2> DEFINE k == ruleKey(req, ReviewHits(req))
  <2>1. savedRules[k] \in Verdicts
    BY <1>0, <1>4 DEF PostByRule, HasRule, TypeOK, StoresOK, Verdicts
  <2>2. key \notin DOMAIN idem /\ DecideNow(key, req, ReviewHits(req), savedRules[k], "rule", f)
    BY <1>4 DEF PostByRule, Challenged
  <2> QED
    BY <1>0, <1>1, <2>1, <2>2
<1>5. CASE PostByGrant(key, req, f)
  <2> DEFINE g == verdictFor(turnGrants[<<req.turn, ReviewHits(req)>>])
  <2>1. g \in Verdicts
    BY DEF verdictFor, Verdicts
  <2>2. /\ key \notin DOMAIN idem /\ DecideNow(key, req, ReviewHits(req), g, "turn-grant", f)
        /\ <<req.turn, ReviewHits(req)>> \in DOMAIN turnGrants /\ AskAll \notin ReviewHits(req)
    BY <1>5 DEF PostByGrant, GrantApplies, turnKey, Challenged
  <2> QED
    BY <1>0, <1>1, <2>1, <2>2
<1>6. ASSUME PostAsk(key, req)
      PROVE  /\ key \notin DOMAIN idem /\ Claim(key) /\ NewId(key) \in Ids /\ NewId(key) + 1 \in Ids
             /\ \E q \in Question :
                  /\ q.review = NewId(key) /\ q.text = req.text /\ q.turn = req.turn
                  /\ reviews' = Put(reviews, NewId(key), "pending")
                  /\ pending' = Put(pending, NewId(key) + 1, q) /\ UNCHANGED <<turnGrants, ledger>>
  <2> DEFINE q == [review |-> NewId(key), rule |-> ruleKey(req, ReviewHits(req)), text |-> req.text,
                   turn |-> req.turn, hits |-> ReviewHits(req)]
  <2>1. NewId(key) \in Ids /\ NewId(key) + 1 \in Ids
    BY <1>0, <1>6, GateAssumption, RoomBound DEF PostAsk, NewId, Ids, TypeOK, TablesOK
  <2>2. q \in Question /\ q.review = NewId(key) /\ q.text = req.text /\ q.turn = req.turn
    BY <1>0, <2>1 DEF Question, ruleKey, RuleKey
  <2>3. /\ key \notin DOMAIN idem /\ Claim(key) /\ reviews' = Put(reviews, NewId(key), "pending")
        /\ pending' = Put(pending, NewId(key) + 1, q) /\ UNCHANGED <<turnGrants, ledger>>
    BY <1>6 DEF PostAsk, Challenged
  <2> HIDE DEF q
  <2> QED
    BY <2>1, <2>2, <2>3
<1> QED
  BY <1>2, <1>3, <1>4, <1>5, <1>6 DEF handleReviewPost, PostRetry, PostLogFails, PostRuleSeedFails, Challenged

(* What a step of the app does to the log and the tables: nothing; an answer on
   the spot for a fresh id; a new question; the answer to a question; a reset. *)
LEMMA LogStep ==
    ASSUME Inv, [Next]_vars
    PROVE  \/ UNCHANGED <<reviews, pending, turnGrants, ledger>>
           \/ \E row \in Row, f \in Faults :
                /\ row.id \notin DOMAIN reviews /\ row.by # "island"
                /\ row.by = "turn-grant" =>
                      /\ <<row.turn, row.hits>> \in DOMAIN turnGrants /\ AskAll \notin row.hits
                      /\ row.verdict = verdictFor(turnGrants[<<row.turn, row.hits>>])
                /\ reviews' = Put(reviews, row.id, row.verdict) /\ LogReview(row, f)
                /\ UNCHANGED <<pending, turnGrants>>
           \/ \E id, n \in Ids, q \in Question :
                /\ n \notin DOMAIN pending /\ UNCHANGED <<turnGrants, ledger>>
                /\ pending' = Put(pending, n, q)
                /\ \/ reviews' = reviews
                   \/ /\ id \notin DOMAIN reviews /\ q.review = id
                      /\ reviews' = Put(reviews, id, "pending")
           \/ \E n \in DOMAIN pending, allow, always \in BOOLEAN, f \in Faults : settle(n, allow, always, f)
           \/ reviews' = NoEntries /\ pending' = NoEntries /\ turnGrants' = NoEntries /\ ledger' = ledger
<1> DEFINE Decided == \E row \in Row, f \in Faults :
              /\ row.id \notin DOMAIN reviews /\ row.by # "island"
              /\ row.by = "turn-grant" =>
                    /\ <<row.turn, row.hits>> \in DOMAIN turnGrants /\ AskAll \notin row.hits
                    /\ row.verdict = verdictFor(turnGrants[<<row.turn, row.hits>>])
              /\ reviews' = Put(reviews, row.id, row.verdict) /\ LogReview(row, f)
              /\ UNCHANGED <<pending, turnGrants>>
<1> DEFINE Asked == \E id, n \in Ids, q \in Question :
              /\ n \notin DOMAIN pending /\ UNCHANGED <<turnGrants, ledger>>
              /\ pending' = Put(pending, n, q)
              /\ \/ reviews' = reviews
                 \/ /\ id \notin DOMAIN reviews /\ q.review = id
                    /\ reviews' = Put(reviews, id, "pending")
<1>0. TypeOK
  BY DEF Inv
<1>1. ASSUME NEW f \in Faults, NEW key \in Keys, NEW req \in Requests, handleReviewPost(key, req, f)
      PROVE  UNCHANGED <<reviews, pending, turnGrants, ledger>> \/ Decided \/ Asked
  <2>1. /\ NewId(key) \notin DOMAIN reviews /\ NewId(key) \in Nat /\ NewId(key) + 1 \notin DOMAIN pending
    BY FreshId, GateAssumption DEF Inv, TypeOK, TablesOK, Ids
  <2> QED
    BY <1>1, <2>1, PostEffect DEF vars, memory
<1>2. ASSUME NEW call \in ToolCalls, ToolcallAsk(call) PROVE Asked
  <2> DEFINE q == [review |-> 0, rule |-> <<call.tool, CallHits(call)>>, text |-> call.text,
                   turn |-> NoTurn, hits |-> CallHits(call)]
  <2>1. seq + 1 \in Ids /\ seq + 1 \notin DOMAIN pending
    BY <1>0, <1>2, GateAssumption, RoomBound DEF ToolcallAsk, Ids, Inv, TypeOK, TablesOK, KeysHaveOwnReview, IdsIssued
  <2>2. q \in Question
    BY <1>0, HitsType, GateAssumption DEF TypeOK, StoresOK, ToolCall, Question, RuleKey
  <2>3. pending' = Put(pending, seq + 1, q) /\ UNCHANGED <<reviews, turnGrants, ledger>>
    BY <1>2 DEF ToolcallAsk
  <2> HIDE DEF q
  <2> QED
    BY <2>1, <2>2, <2>3
<1> QED
  BY <1>1, <1>2, ZenonT(60) DEF Next, vars, memory, handleToolcall, ToolcallByRule, handleDecision, IslandFails,
     handleSettings, RubbishAdd, RubbishRemove, BlockedRemove, handleEvents, Restart

(* IslandRow(i, k), of a given log *)
FromIsland(log, i, k) == log[i].by = "island" /\ <<log[i].turn, log[i].hits>> = k

(* A turn was granted by the newest answer of the island for its key, and only
   a turn that codex named and hits without an ask-all challenge. *)
GrantsBacked ==
    \A k \in DOMAIN turnGrants :
        /\ AskAll \notin k[2] /\ k[1] # NoTurn
        /\ \E i \in DOMAIN ledger :
            /\ FromIsland(ledger, i, k) /\ ledger[i].verdict = verdictFor(turnGrants[k])
            /\ \A m \in DOMAIN ledger : m > i => ~FromIsland(ledger, m, k)

(* The session file agrees with the tables and with itself. *)
Booked == Inv /\ LedgerMatchesReviews /\ GrantsBacked /\ HumanBehindGrant

(* A row for an undecided review decides it. *)
LEMMA RowDecides ==
    ASSUME Inv, LedgerMatchesReviews, NEW row \in Row, ledger' = Append(ledger, row),
           row.id \in DOMAIN reviews => reviews[row.id] = "pending",
           reviews' = Put(reviews, row.id, row.verdict)
    PROVE  LedgerMatchesReviews'
<1>1. ledger \in Seq(Row)
  BY DEF Inv, TypeOK
<1>2. /\ \A i \in DOMAIN ledger : i \in DOMAIN ledger' /\ ledger'[i] = ledger[i]
      /\ Len(ledger) + 1 \in DOMAIN ledger' /\ ledger'[Len(ledger) + 1] = row
      /\ \A i \in DOMAIN ledger' : i = Len(ledger) + 1 \/ i \in DOMAIN ledger
      /\ \A i \in DOMAIN ledger : i \in Nat /\ i < Len(ledger) + 1
      /\ Len(ledger) \in Nat
  BY <1>1, AppendFacts
<1>3. DOMAIN reviews' = DOMAIN reviews \cup {row.id} /\ reviews'[row.id] = row.verdict
      /\ \A id \in DOMAIN reviews : id # row.id => reviews'[id] = reviews[id]
  BY DEF Put
<1> SUFFICES ASSUME NEW id \in DOMAIN reviews', reviews'[id] # "pending"
             PROVE  \E i \in DOMAIN ledger' :
                        /\ ledger'[i].id = id /\ ledger'[i].verdict = reviews'[id]
                        /\ \A j \in DOMAIN ledger' : j > i => ledger'[j].id # id
  BY DEF LedgerMatchesReviews
<1>4. CASE id = row.id
  <2>1. \A j \in DOMAIN ledger' : ~(j > Len(ledger) + 1)
    BY <1>2
  <2> QED
    BY <1>2, <1>3, <1>4, <2>1
<1>5. CASE id # row.id
  <2>1. PICK i \in DOMAIN ledger : /\ ledger[i].id = id /\ ledger[i].verdict = reviews[id]
                                   /\ \A j \in DOMAIN ledger : j > i => ledger[j].id # id
    BY <1>3, <1>5 DEF LedgerMatchesReviews
  <2>2. \A j \in DOMAIN ledger' : j > i => ledger'[j].id # id
    BY <1>2, <1>5, <2>1
  <2> QED
    BY <1>2, <1>3, <1>5, <2>1, <2>2
<1> QED
  BY <1>4, <1>5

(* The log stays as it is and nothing else is decided. *)
LEMMA NothingDecided ==
    ASSUME LedgerMatchesReviews, ledger' = ledger,
           \A id \in DOMAIN reviews' : reviews'[id] # "pending" =>
                id \in DOMAIN reviews /\ reviews'[id] = reviews[id]
    PROVE  LedgerMatchesReviews'
BY DEF LedgerMatchesReviews

(* A row that does not come from the island keeps what the grants rest on, and
   repeats it when it comes from a grant. *)
LEMMA OtherRow ==
    ASSUME Booked, NEW row \in Row, ledger' = Append(ledger, row), turnGrants' = turnGrants, row.by # "island",
           row.by = "turn-grant" =>
                /\ <<row.turn, row.hits>> \in DOMAIN turnGrants /\ AskAll \notin row.hits
                /\ row.verdict = verdictFor(turnGrants[<<row.turn, row.hits>>])
    PROVE  GrantsBacked' /\ HumanBehindGrant'
<1> DEFINE n == Len(ledger) + 1
<1>1. ledger \in Seq(Row)
  BY DEF Booked, Inv, TypeOK
<1>2. /\ \A i \in DOMAIN ledger : i \in DOMAIN ledger' /\ ledger'[i] = ledger[i]
      /\ n \in DOMAIN ledger' /\ ledger'[n] = row
      /\ \A i \in DOMAIN ledger' : i = n \/ i \in DOMAIN ledger
      /\ \A i \in DOMAIN ledger : i \in Nat /\ i > 0 /\ i < n
      /\ Len(ledger) \in Nat /\ n \in Nat /\ DOMAIN ledger = 1 .. n - 1
  BY <1>1, AppendFacts, LenProperties
<1> HIDE DEF n
<1>3. \A k : (\A i \in DOMAIN ledger : FromIsland(ledger', i, k) <=> FromIsland(ledger, i, k)) /\ ~FromIsland(ledger', n, k)
  BY <1>2 DEF FromIsland
<1>4. GrantsBacked'
  <2> SUFFICES ASSUME NEW k \in DOMAIN turnGrants
               PROVE  /\ AskAll \notin k[2] /\ k[1] # NoTurn
                      /\ \E i \in DOMAIN ledger' :
                            /\ FromIsland(ledger', i, k) /\ ledger'[i].verdict = verdictFor(turnGrants[k])
                            /\ \A m \in DOMAIN ledger' : m > i => ~FromIsland(ledger', m, k)
    BY DEF GrantsBacked
  <2>1. AskAll \notin k[2] /\ k[1] # NoTurn
    BY DEF Booked, GrantsBacked
  <2>2. PICK i \in DOMAIN ledger : /\ FromIsland(ledger, i, k) /\ ledger[i].verdict = verdictFor(turnGrants[k])
                                   /\ \A m \in DOMAIN ledger : m > i => ~FromIsland(ledger, m, k)
    BY DEF Booked, GrantsBacked
  <2>3. \A m \in DOMAIN ledger' : m > i => ~FromIsland(ledger', m, k)
    BY <1>2, <1>3, <2>2
  <2> QED
    BY <1>2, <1>3, <2>1, <2>2, <2>3
<1>5. ASSUME NEW j \in DOMAIN ledger', ledger'[j].by = "turn-grant"
      PROVE  LET k == <<ledger'[j].turn, ledger'[j].hits>>
             IN /\ AskAll \notin ledger'[j].hits
                /\ \E i \in 1 .. j - 1 :
                     /\ FromIsland(ledger', i, k) /\ ledger'[i].verdict = ledger'[j].verdict
                     /\ \A m \in i + 1 .. j - 1 : ~FromIsland(ledger', m, k)
  <2>1. CASE j = n
    <3> DEFINE k == <<row.turn, row.hits>>
    <3>1. k \in DOMAIN turnGrants /\ AskAll \notin row.hits /\ row.verdict = verdictFor(turnGrants[k])
      BY <1>2, <1>5, <2>1
    <3> HIDE DEF k
    <3>2. PICK i \in DOMAIN ledger : /\ FromIsland(ledger, i, k) /\ ledger[i].verdict = verdictFor(turnGrants[k])
                                     /\ \A m \in DOMAIN ledger : m > i => ~FromIsland(ledger, m, k)
      BY <3>1 DEF Booked, GrantsBacked
    <3>3. i \in 1 .. n - 1 /\ \A m \in i + 1 .. n - 1 : m \in DOMAIN ledger /\ m > i
      BY <1>2
    <3>4. FromIsland(ledger', i, k) /\ \A m \in i + 1 .. n - 1 : ~FromIsland(ledger', m, k)
      BY <1>3, <3>2, <3>3
    <3> QED
      BY <1>2, <2>1, <3>1, <3>2, <3>3, <3>4 DEF k
  <2>2. CASE j \in DOMAIN ledger
    <3> DEFINE k == <<ledger[j].turn, ledger[j].hits>>
    <3>0. ledger'[j] = ledger[j] /\ ledger[j].by = "turn-grant"
      BY <1>2, <1>5, <2>2
    <3>1. PICK i \in 1 .. j - 1 : /\ FromIsland(ledger, i, k) /\ ledger[i].verdict = ledger[j].verdict
                                  /\ \A m \in i + 1 .. j - 1 : ~FromIsland(ledger, m, k)
      BY <2>2, <3>0 DEF Booked, HumanBehindGrant, IslandRow, FromIsland
    <3>2. AskAll \notin ledger[j].hits
      BY <2>2, <3>0 DEF Booked, HumanBehindGrant
    <3> HIDE DEF k
    <3>3. i \in DOMAIN ledger /\ \A m \in i + 1 .. j - 1 : m \in DOMAIN ledger
      BY <1>2, <2>2
    <3>4. FromIsland(ledger', i, k) /\ \A m \in i + 1 .. j - 1 : ~FromIsland(ledger', m, k)
      BY <1>3, <3>1, <3>3
    <3> QED
      BY <1>2, <2>2, <3>0, <3>1, <3>2, <3>3, <3>4 DEF k
  <2> QED
    BY <1>2, <2>1, <2>2
<1> QED
  BY <1>4, <1>5 DEF HumanBehindGrant, IslandRow, FromIsland

(* An answer of the island is the newest for its key, and what the turn is
   granted from then on. *)
LEMMA IslandAnswers ==
    ASSUME Booked, NEW q \in Question, NEW allow \in BOOLEAN, q.review # 0, GrantTurn(q, allow),
           ledger' = Append(ledger, RowOf(q.review, q, q.hits, verdictFor(allow), "island"))
    PROVE  GrantsBacked' /\ HumanBehindGrant'
<1> DEFINE n == Len(ledger) + 1
           row == RowOf(q.review, q, q.hits, verdictFor(allow), "island")
           key == <<q.turn, q.hits>>
<1>0. row \in Row /\ row.by = "island" /\ <<row.turn, row.hits>> = key /\ row.verdict = verdictFor(allow)
  BY DEF Question, RowOf, Row, verdictFor, Verdicts
<1>1. ledger \in Seq(Row) /\ ledger' = Append(ledger, row)
  BY DEF Booked, Inv, TypeOK
<1> HIDE DEF row
<1>2. /\ \A i \in DOMAIN ledger : i \in DOMAIN ledger' /\ ledger'[i] = ledger[i]
      /\ n \in DOMAIN ledger' /\ ledger'[n] = row
      /\ \A i \in DOMAIN ledger' : i = n \/ i \in DOMAIN ledger
      /\ \A i \in DOMAIN ledger : i \in Nat /\ i > 0 /\ i < n
      /\ Len(ledger) \in Nat /\ n \in Nat /\ DOMAIN ledger = 1 .. n - 1
  BY <1>0, <1>1, AppendFacts, LenProperties
<1> HIDE DEF n
<1>3. \A k : /\ \A i \in DOMAIN ledger : FromIsland(ledger', i, k) <=> FromIsland(ledger, i, k)
             /\ FromIsland(ledger', n, k) <=> k = key
  BY <1>0, <1>2 DEF FromIsland
<1>4. GrantsBacked'
  <2> SUFFICES ASSUME NEW k \in DOMAIN turnGrants'
               PROVE  /\ AskAll \notin k[2] /\ k[1] # NoTurn
                      /\ \E i \in DOMAIN ledger' :
                            /\ FromIsland(ledger', i, k) /\ ledger'[i].verdict = verdictFor(turnGrants'[k])
                            /\ \A m \in DOMAIN ledger' : m > i => ~FromIsland(ledger', m, k)
    BY DEF GrantsBacked, verdictFor
  <2>0. /\ q.turn # NoTurn /\ AskAll \notin q.hits =>
              /\ DOMAIN turnGrants' = DOMAIN turnGrants \cup {key} /\ turnGrants'[key] = allow
              /\ \A x \in DOMAIN turnGrants : x # key => turnGrants'[x] = turnGrants[x]
        /\ ~(q.turn # NoTurn /\ AskAll \notin q.hits) => turnGrants' = turnGrants
    BY DEF GrantTurn, turnKey, Put
  <2>1. CASE k = key /\ q.turn # NoTurn /\ AskAll \notin q.hits
    <3>1. \A m \in DOMAIN ledger' : ~(m > n)
      BY <1>2
    <3> QED
      BY <1>0, <1>2, <1>3, <2>0, <2>1, <3>1
  <2>2. CASE ~(k = key /\ q.turn # NoTurn /\ AskAll \notin q.hits)
    <3>1. k \in DOMAIN turnGrants /\ turnGrants'[k] = turnGrants[k]
      BY <2>0, <2>2
    <3>2. AskAll \notin k[2] /\ k[1] # NoTurn
      BY <3>1 DEF Booked, GrantsBacked
    <3>3. k # key
      BY <2>2, <3>2
    <3>4. PICK i \in DOMAIN ledger : /\ FromIsland(ledger, i, k) /\ ledger[i].verdict = verdictFor(turnGrants[k])
                                     /\ \A m \in DOMAIN ledger : m > i => ~FromIsland(ledger, m, k)
      BY <3>1 DEF Booked, GrantsBacked
    <3>5. \A m \in DOMAIN ledger' : m > i => ~FromIsland(ledger', m, k)
      BY <1>2, <1>3, <3>3, <3>4
    <3> QED
      BY <1>2, <1>3, <3>1, <3>2, <3>4, <3>5
  <2> QED
    BY <2>1, <2>2
<1>5. ASSUME NEW j \in DOMAIN ledger', ledger'[j].by = "turn-grant"
      PROVE  LET k == <<ledger'[j].turn, ledger'[j].hits>>
             IN /\ AskAll \notin ledger'[j].hits
                /\ \E i \in 1 .. j - 1 :
                     /\ FromIsland(ledger', i, k) /\ ledger'[i].verdict = ledger'[j].verdict
                     /\ \A m \in i + 1 .. j - 1 : ~FromIsland(ledger', m, k)
  <2> DEFINE k == <<ledger[j].turn, ledger[j].hits>>
  <2>0. j \in DOMAIN ledger /\ ledger'[j] = ledger[j] /\ ledger[j].by = "turn-grant"
    BY <1>0, <1>2, <1>5
  <2>1. PICK i \in 1 .. j - 1 : /\ FromIsland(ledger, i, k) /\ ledger[i].verdict = ledger[j].verdict
                                /\ \A m \in i + 1 .. j - 1 : ~FromIsland(ledger, m, k)
    BY <2>0 DEF Booked, HumanBehindGrant, IslandRow, FromIsland
  <2>2. AskAll \notin ledger[j].hits
    BY <2>0 DEF Booked, HumanBehindGrant
  <2> HIDE DEF k
  <2>3. i \in DOMAIN ledger /\ \A m \in i + 1 .. j - 1 : m \in DOMAIN ledger
    BY <1>2, <2>0
  <2>4. FromIsland(ledger', i, k) /\ \A m \in i + 1 .. j - 1 : ~FromIsland(ledger', m, k)
    BY <1>3, <2>1, <2>3
  <2> QED
    BY <1>2, <2>0, <2>1, <2>2, <2>3, <2>4 DEF k
<1> QED
  BY <1>4, <1>5 DEF HumanBehindGrant, IslandRow, FromIsland

(* While the session file takes every row, each step keeps it in agreement
   with the tables and with itself. *)
LEMMA BookedStep ==
    ASSUME "session" \notin Faults, Booked, [Next]_vars
    PROVE  Booked'
<1>0. Inv /\ Inv'
  BY InvStep DEF Booked
<1>1. CASE UNCHANGED <<reviews, pending, turnGrants, ledger>>
  BY <1>0, <1>1 DEF Booked, LedgerMatchesReviews, GrantsBacked, HumanBehindGrant, IslandRow, FromIsland
<1>2. ASSUME NEW row \in Row, NEW f \in Faults,
             row.id \notin DOMAIN reviews, row.by # "island",
             row.by = "turn-grant" =>
                  /\ <<row.turn, row.hits>> \in DOMAIN turnGrants /\ AskAll \notin row.hits
                  /\ row.verdict = verdictFor(turnGrants[<<row.turn, row.hits>>]),
             reviews' = Put(reviews, row.id, row.verdict), LogReview(row, f),
             UNCHANGED <<pending, turnGrants>>
      PROVE  Booked'
  <2>1. ledger' = Append(ledger, row)
    BY <1>2 DEF LogReview
  <2>2. LedgerMatchesReviews'
    BY <1>0, <1>2, <2>1, RowDecides DEF Booked
  <2>3. GrantsBacked' /\ HumanBehindGrant'
    BY <1>2, <2>1, OtherRow
  <2> QED
    BY <1>0, <2>2, <2>3 DEF Booked
<1>3. ASSUME NEW id, NEW n, NEW q, n \notin DOMAIN pending, UNCHANGED <<turnGrants, ledger>>,
             \/ reviews' = reviews
             \/ id \notin DOMAIN reviews /\ q.review = id /\ reviews' = Put(reviews, id, "pending")
      PROVE  Booked'
  <2>1. \A r \in DOMAIN reviews' : reviews'[r] # "pending" =>
            r \in DOMAIN reviews /\ reviews'[r] = reviews[r]
    BY <1>3 DEF Put
  <2>2. LedgerMatchesReviews'
    BY <1>3, <2>1, NothingDecided DEF Booked
  <2> QED
    BY <1>0, <1>3, <2>2 DEF Booked, GrantsBacked, HumanBehindGrant, IslandRow, FromIsland
<1>4. ASSUME NEW n \in DOMAIN pending, NEW allow \in BOOLEAN, NEW always \in BOOLEAN, NEW f \in Faults,
             settle(n, allow, always, f)
      PROVE  Booked'
  <2> DEFINE q == pending[n]
             row == RowOf(q.review, q, q.hits, verdictFor(allow), "island")
  <2>1. \/ UNCHANGED <<reviews, turnGrants, ledger>>
        \/ /\ q.review # 0 /\ reviews' = Put(reviews, q.review, verdictFor(allow))
           /\ GrantTurn(q, allow) /\ ledger' = Append(ledger, row)
    BY <1>4 DEF settle, SettleDone, SettleFails, Answer, LogReview
  <2>2. q \in Question /\ (q.review # 0 => reviews[q.review] = "pending")
    BY <1>0 DEF Inv, TypeOK, TablesOK, QuestionsMatchReviews
  <2>3. CASE UNCHANGED <<reviews, turnGrants, ledger>>
    BY <1>0, <2>3 DEF Booked, LedgerMatchesReviews, GrantsBacked, HumanBehindGrant, IslandRow, FromIsland
  <2>4. CASE /\ q.review # 0 /\ reviews' = Put(reviews, q.review, verdictFor(allow))
             /\ GrantTurn(q, allow) /\ ledger' = Append(ledger, row)
    <3>1. row \in Row /\ row.id = q.review /\ row.verdict = verdictFor(allow)
      BY <2>2, <2>4 DEF Question, RowOf, Row, verdictFor, Verdicts
    <3>2. GrantsBacked' /\ HumanBehindGrant'
      BY <2>2, <2>4, IslandAnswers
    <3> HIDE DEF row
    <3>3. LedgerMatchesReviews'
      BY <1>0, <2>2, <2>4, <3>1, RowDecides DEF Booked
    <3> QED
      BY <1>0, <3>2, <3>3 DEF Booked
  <2> QED
    BY <2>1, <2>3, <2>4
<1>5. CASE reviews' = NoEntries /\ pending' = NoEntries /\ turnGrants' = NoEntries /\ ledger' = ledger
  <2>1. DOMAIN reviews' = {} /\ DOMAIN turnGrants' = {}
    BY <1>5 DEF NoEntries
  <2> QED
    BY <1>0, <1>5, <2>1 DEF Booked, LedgerMatchesReviews, GrantsBacked, HumanBehindGrant, IslandRow, FromIsland
<1> QED
  BY <1>0, <1>1, <1>2, <1>3, <1>4, <1>5, LogStep

(* Booked holds from the start. *)
LEMMA BookedInit == Init /\ TypeOK => Booked
<1>1. Init => DOMAIN reviews = {} /\ DOMAIN turnGrants = {} /\ DOMAIN ledger = {}
  BY DEF Init, NoEntries
<1> QED
  BY <1>1, InvInit DEF Booked, LedgerMatchesReviews, GrantsBacked, HumanBehindGrant

(* While the session file takes every row, its newest row for a review is the
   verdict codex was told, whatever else failed and however often the app was
   restarted. *)
THEOREM GateLedger ==
    ASSUME "session" \notin Faults
    PROVE  Spec => []LedgerMatchesReviews
<1>1. Booked /\ [Next]_vars => Booked'
  BY BookedStep
<1>2. Booked => LedgerMatchesReviews
  BY DEF Booked
<1> QED
  BY <1>1, <1>2, BookedInit, GateTyped, PTL DEF Spec

(* While the session file takes every row, a verdict on a turn grant repeats
   the newest answer of the island in that turn for those hits. *)
THEOREM GateGrants ==
    ASSUME "session" \notin Faults
    PROVE  Spec => []HumanBehindGrant
<1>1. Booked /\ [Next]_vars => Booked'
  BY BookedStep
<1>2. Booked => HumanBehindGrant
  BY DEF Booked
<1> QED
  BY <1>1, <1>2, BookedInit, GateTyped, PTL DEF Spec

-----------------------------------------------------------------------------
(* Questions and reviews, while settle() gets through *)

(* An undecided review keeps its question until the question is answered. *)
LEMMA AnswerableStep ==
    ASSUME "index" \notin Faults, "rules" \notin Faults, Inv, EveryReviewAnswerable, [Next]_vars
    PROVE  EveryReviewAnswerable'
<1>1. CASE UNCHANGED <<reviews, pending, turnGrants, ledger>>
  BY <1>1 DEF EveryReviewAnswerable
<1>2. ASSUME NEW row \in Row, reviews' = Put(reviews, row.id, row.verdict), pending' = pending
      PROVE  EveryReviewAnswerable'
  <2>1. /\ DOMAIN reviews' = DOMAIN reviews \cup {row.id} /\ reviews'[row.id] # "pending"
        /\ \A id \in DOMAIN reviews : id # row.id => reviews'[id] = reviews[id]
    BY <1>2 DEF Put, Row, Verdicts
  <2> QED
    BY <1>2, <2>1 DEF EveryReviewAnswerable
<1>3. ASSUME NEW id, NEW n, NEW q, n \notin DOMAIN pending, pending' = Put(pending, n, q),
             \/ reviews' = reviews
             \/ id \notin DOMAIN reviews /\ q.review = id /\ reviews' = Put(reviews, id, "pending")
      PROVE  EveryReviewAnswerable'
  <2>1. /\ DOMAIN pending' = DOMAIN pending \cup {n} /\ pending'[n] = q
        /\ \A m \in DOMAIN pending : pending'[m] = pending[m]
    BY <1>3 DEF Put
  <2>2. \A r \in DOMAIN reviews' : \/ r = id /\ q.review = r
                                   \/ r \in DOMAIN reviews /\ reviews'[r] = reviews[r]
    BY <1>3 DEF Put
  <2> QED
    BY <2>1, <2>2 DEF EveryReviewAnswerable
<1>4. ASSUME NEW n \in DOMAIN pending, NEW allow \in BOOLEAN, NEW always \in BOOLEAN, NEW f \in Faults,
             settle(n, allow, always, f)
      PROVE  EveryReviewAnswerable'
  <2> DEFINE q == pending[n]
  <2>1. /\ pending' = Without(pending, n)
        /\ IF q.review = 0 THEN reviews' = reviews
           ELSE reviews' = Put(reviews, q.review, verdictFor(allow))
    BY <1>4 DEF settle, SettleDone, SettleFails, Answer, Remaining
  <2>2. DOMAIN pending' = DOMAIN pending \ {n} /\ \A m \in DOMAIN pending' : pending'[m] = pending[m]
    BY <2>1 DEF Without
  <2>3. /\ q.review # 0 => q.review \in DOMAIN reviews
        /\ 0 \notin DOMAIN reviews
    BY GateAssumption DEF Inv, TypeOK, TablesOK, Ids, QuestionsMatchReviews
  <2>4. \A id \in DOMAIN reviews' : reviews'[id] = "pending" =>
            id \in DOMAIN reviews /\ id # q.review /\ reviews[id] = "pending"
    BY <2>1, <2>3 DEF Put, verdictFor
  <2> QED
    BY <2>2, <2>4 DEF EveryReviewAnswerable
<1>5. CASE reviews' = NoEntries
  <2>1. DOMAIN reviews' = {}
    BY <1>5 DEF NoEntries
  <2> QED
    BY <2>1 DEF EveryReviewAnswerable
<1> QED
  BY <1>1, <1>2, <1>3, <1>4, <1>5, LogStep

(* While the writes of settle() succeed, every undecided review has a question
   that can still settle it. *)
THEOREM GateAnswerable ==
    ASSUME "index" \notin Faults, "rules" \notin Faults
    PROVE  Spec => []EveryReviewAnswerable
<1>1. Init /\ TypeOK => Inv /\ EveryReviewAnswerable
  <2>1. Init => DOMAIN reviews = {}
    BY DEF Init, NoEntries
  <2> QED
    BY <2>1, InvInit DEF EveryReviewAnswerable
<1>2. Inv /\ EveryReviewAnswerable /\ [Next]_vars => Inv' /\ EveryReviewAnswerable'
  BY InvStep, AnswerableStep
<1> QED
  BY <1>1, <1>2, GateTyped, PTL DEF Spec
=============================================================================
