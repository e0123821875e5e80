# CleanMyAgents: TLA+ specifications

CleanMyAgents puts a person between the codex agent and what it does. Codex
(`src/codex/codex-rs`, a vendored agent with a *guardian* layer added) submits
every guarded action to a reviewer; the desktop app (`src/desktop`) is that
reviewer. It decides on its own where it can (skip list, saved rules, grants
of the turn) and otherwise drops a small window, the *island*, and asks.

This directory models the parts in which an ordering, a failure or a restart
decides whether an action runs.

## The parts

| part | state | operations | talks to |
|---|---|---|---|
| **Gate** `desktop/main.js`, `similarity.js`, `store.js` | review table, idempotency map, pending questions, saved rules, turn grants, rubbish and blocked index, ask-all, id counter; four JSON files and the per-thread session files | `POST /v1/reviews`, `GET /v1/reviews/<id>`, `/toolcall`, `/decision`, `/settings`, `/rubbish`, `/blocked`, `/events`, boot | island by `askIsland` / `settle`, codex over HTTP |
| **Island** `main.js`, `island.html` | pending map, window, flash timer; the page's id, countdown and card | `askIsland`, `flashIsland`, `placeIsland`, `settle`; `show`, `flash`, `decide` | `executeJavaScript` one way, `POST /decision` the other |
| **HTTP guardian, reviews** `guardian/src/api.rs`, `verdict.rs`, `core/src/session/guardian_tap.rs` | per call: location polled, deadline | `submit_review`, `poll_review`, `review`, `on_error` | the gate |
| **HTTP guardian, records** `guardian/src/api.rs` | bounded channel, batch, pending acknowledgement | `record`, `flush`, `record_loop`, `RecordSender::send` | `POST /v1/activities` |
| **Tool dispatch** `core/src/tools/registry.rs`, `parallel.rs`, `lifecycle.rs` | per call: task, watcher, terminal outcome; the dispatch lock | guard review, PreToolUse hooks, handler, output review, PostToolUse hooks, lifecycle callbacks, cancellation | guardian, hooks, handlers |
| **Approval** `tools/orchestrator.rs`, `approvals.rs`, `sandboxing.rs`, `exec_policy.rs` | per call: requirement, approvals given, attempts | first approval, sandboxed attempt, sandbox denial, retry | guardian, reviewer or user |
| **Prompt and instruction gates** `session/turn.rs`, `session/mod.rs`, `agents_md_manager.rs`, `codex_thread.rs` | pending inputs; loaded instruction block and the cached ruling on it | `run_hooks_and_record_inputs`, `capture_step_context`, `guard_instructions` | guardian |
| **Turn** `session/turn.rs`, `tasks/mod.rs` | phase, round | capture, prompts, sampling, interrupt, abort after a grace period | all gates above |
| **MCP admission** `session/mcp_runtime.rs` | MCP catalog | one review per server | guardian |
| **FanOut** `guardian/src/fanout.rs` | none | `review` over several guardians, composed posture | CSV history, IPC or HTTP guardian |
| **CSV history** `guardian/src/csv_history.rs`, `session_meta.rs` | bounded channel; writer task with open file and counters; CSV file, sidecar, temporary file | `review`, `record`, `flush`, `writer_loop` | disk |
| **IPC guardian** `guardian/src/ipc.rs` | none | one exchange under one deadline | local monitor |
| **Scan page, tray, other web UI** `webui/src`, `panel.html` | nothing the gate reads | rendering, deep scan | the app's HTTP endpoints |

What is hard here: the gate's handlers make several synchronous file writes
and each may throw with the handler half done; codex gives up on a review
while the app is still working on it, and retries; the app restarts while
codex polls; one window serves every question and every passing notice; a
bounded channel carries records and flushes of several sessions at once. Inside
codex, the calls of a turn run as tasks of their own, each passes half a dozen
places where a guardian, a hook, a reviewer or a handler may take forever, and
an interrupt may fall between any two of them; the ruling on the instructions
sits in a cache of one entry that two tasks fill; the history is written by a
task behind a bounded channel, with a crash possible between any two of its
file operations.
`PROJECT.json` lists the hazards line by line.

What makes each part correct:

* Gate: a verdict once given never changes; a key leads to one review, its
  own; an undecided review can still be answered; an inferred answer repeats
  the newest one the island gave; a refused call is remembered.
* Island: a notice never costs a question its place; the window goes when
  nothing waits, unless a file write stopped `settle` on the way to hiding it;
  every question ends.
* Client: nothing is admitted without a ruling about it when codex fails
  closed; every call returns; all polls of a key see one ruling.
* Records: `flush` means flushed, `flush` returns, a record is stored at most
  once and not silently lost inside codex.
* Dispatch and approval: what was refused does not run, whoever else says yes;
  a command leaves the sandbox only with an approval for that; the contributors
  and the model are told the same outcome; a tool that must run alone does; an
  interrupt ends every call.
* Context gates: only text the guard accepted reaches the model, in the form it
  accepted.
* History: a header first, whole rows in order, no row twice, and a further
  header only where the size of a resumed file could not be read; a sidecar that never shows half a
  file or counts what it has not seen; `flush` means written; switching the
  history on changes no verdict; no sender waits for good.

## Modules

* `Gate`: one handler is one action, because Node runs a handler to the end
  once its body has arrived. The parameter `fault` says which file write of
  the handler throws; the action then leaves exactly what ran before it.
  `handleReviewPost` is the disjunction of its early returns (`PostRetry`,
  `PostSkipped`, `PostClean`, `PostByRule`, `PostByGrant`, `PostAsk`, and the
  two ways it dies). Texts are model values: the keyword rules (`Scan`), the
  skip list (`Garbage`, `Noise`) and the similarity of two texts in percent
  (`Sim`) are constants, the two thresholds 85 and 90 are the code's.
  `ledger` stands for the `review` rows of the session files, `disk` for the
  four JSON files; `refused` is a history variable. Hits are a set: the code
  joins them in a fixed order, so the joined strings are equal exactly when
  the sets are. `MaxSeq` bounds the ids of an app that is never restarted,
  `RestartSeq` those of each incarnation when there is a restart (`Room`).
* `GuardedCalls` extends `Gate` with the client: each call's connection is a
  one-place `wire`; a call that gave up leaves its POST on the wire, where it
  may still be handled. A `plan`, fixed at the start, says which calls wait for
  which and how often the app restarts. `Person` answers without "always" (that is `Gate`'s
  subject).
* `Ruling`: the abstract promise. Per key one ruling, made once; each call
  learns it or gives up; rulings are forgotten only all together.
  `GuardedCalls!OneRulingPerKey` is the refinement, with the verdict of the
  review the key is bound to as the ruling.
* `Island`: app and page as two processes with two ordered queues (scripts
  out, results back) and a set of decisions under way. The page may fail to
  load, any script may be rejected and any placement may fail (`ScriptFails`,
  `PlaceFails`; the question is then denied, as in the `catch` of `askIsland`),
  and any `settle` may throw, before or after its caller is answered, and then
  does not reach `island.hide()`. The history variable `skipped` remembers such
  a throw at the last question until something hides the window. A person and
  the 30 s countdown are taken to be slower than one `executeJavaScript` round
  trip.
* `RecordQueue`: the channel with tokio's permits (first waiter first), the
  loop step by step, and the app's batch handler, which may stop half way.
* `Guardians`: verdicts, fail posture and the fan-out over two guardians, as
  operators used by the modules below.
* `ToolDispatch`: a record per tool call, with a task (`pc`) and a watcher
  (`watch`) that race over one terminal outcome. A step is the code between two
  suspension points. What a guardian, a hook, a reviewer or a handler answers
  is any of its answers. tokio's lock prefers writers; the model lets readers
  in as well, which only adds behaviours.
* `ContextGates`: the prompt gate over a list of inputs, and the instruction
  gate as two `stepper`s (the turn, and a task that injects items) that share
  the loaded block and the cached ruling. Both locks are separate steps, as in
  `refresh` and `get_loaded`.
* `Turn` composes `ToolDispatch` and `ContextGates` in the order of `run_turn`:
  capture, prompts, sampling with its calls, next round. `Instances` are the
  turns looked at: settings (posture, approval policy, strict review, denied
  reads, tool, hooks) and shape (prompts, rounds, injection, calls).
* `History`: tasks that review and record through the fan-out of CSV and IPC
  guardian, the channel with tokio's permits, the writer one file operation at
  a time, the files, and crashes. A resumed thread is a new life of the session
  that finds the files as they are. A failed look at the size of the file is
  not an error in the code, it means that a header is needed; `misread` has the
  lives this happened to, and a header in the model carries the life that wrote
  it, so that two of them can be told apart.
* `MCGate`, `MCGuardedCalls`, `MCTurn`, `MCHistory`: the instances.
* `GateProofs`, `CallsProofs`, `IslandProofs`, `RecordQueueProofs`,
  `TurnProofs`, `HistoryProofs`: the theorems about the module each extends.
  `QueueFacts` has the lemmas on sequences (`Tail`, `Append`, one place
  removed, a function written at one place) that several of them need.

Definitions called `X_Something` in front of an `X` are deliberately wrong
versions of `X` (their comment says which slip they stand for). No
specification uses them; replacing `X` by one breaks the property that guards
against that slip.

## Runs

| run | what it asks | bounds |
|---|---|---|
| `gate` | pending reviews answerable; session file agrees with the table; an island answer behind each grant; refusals survive a restart; look-alikes are not passed | 3 keys, 3 requests, `/toolcall`, ask-all; 5 ids without a restart, or 3 ids in each of 2 incarnations; a look-alike pair at 87 %, between the two thresholds; 215 thousand states. A question takes two ids and a request settled by a grant one, so five ids hold two questions of one turn open at once, answered differently, and a third request that meets the grant. The two questions have unlike texts with the same hits, because a denial changes the hits of whatever resembles it |
| `gate_faults` | final verdicts, separate keys, questions matching reviews when any write may throw | 2 keys and the missing one, 2 ids, all 5 requests, index edits and feed, 5 kinds of fault. Two ids suffice for one review to disturb another; the three properties are proved for every bound |
| `gate_always` | *violation*, see below | |
| `calls` | admitted means reviewed, calls end, one ruling per key | 3 calls on 2 keys, one a retry; event and index faults. Two plans: calls in flight together with the app up, or one after the other across 2 restarts |
| `calls_reused_id`, `calls_mcp` | *violations* | 2 calls |
| `island` | notices, window and newest question | 3 questions, 2 notices; every script, placement and `settle` may fail; 30 thousand states |
| `island_overlap` | *violation* | 2 questions |
| `records` | flush, loss, order | 4 records, 2 sessions, 2 slots, batches of 2: the channel fills, a flush waits, a batch is cut at its limit |
| `turn` | refusals hold, only ruled text reaches the model, sandbox, lifecycle, exclusive tools, interrupts | two calls, one exclusive and one parallel, under 5 settings; 2 rounds of 2 prompts; 2 captures and an injected one over 2 instruction blocks, both postures; 730 thousand states |
| `turn_hooks` | *violation* | the same |
| `history` | files, flush, transparency, senders | 1 slot in the channel; 2 tasks in one life, or 1 across a crash; 1 failing file operation, which may be the one that reads the size of the file; 507 thousand states. With one slot a sender waits behind another and a permit changes hands. The monitor allows, denies or cannot be reached, under `fail_closed`; rewrites, deferrals and the open posture are left to the theorem |

The call settings of `turn` each switch on what the others leave off: strict
review with its second approval, PostToolUse hooks, `apply_patch`, denied reads
with an open posture, and PreToolUse hooks under policy `never`. A patch found
in an `exec_command` (`intercept_apply_patch`, called at `exec_command.rs:321`) is run by
the `apply_patch` runtime with its rules for the retry, and is that setting too. Prompts and
captures do not touch the state of calls, so their turns have none.

Keys are interchangeable in the `Gate` runs, which use that symmetry (never
for the missing key, and in no run with liveness). Deadlock is not checked:
with every bound used up the systems may rest.

Fairness. `CallsSpec`: the deadline of a call that entered `review` fires
(tokio's timer); the app and the person owe nothing. `Island`: page load,
scripts, results, decisions and timers come to pass, well or badly; a person
need not act.
`RecordQueue`: the loop and a woken waiter are scheduled and a request ends
(reqwest's timeout); the app owes nothing. `Turn`: the runtime polls watchers,
cancelled tasks and tasks past their handler; guardians, hooks, reviewers and
handlers owe nothing, so that an interrupt has to end calls on its own.
`History`: the writer and woken senders are scheduled and file operations come
back; the monitor owes nothing.

### Where code and documents disagree

* `gate_always`: an "always deny" saves the rule under the hits of that call
  and seeds the blocked index with it. The next identical call also hits
  `similar-to-blocked`, its key is another one, and the popup is back.
  `docs/connect-codex.md:36-37` promises it stays away.
* `island_overlap`: the page has one id and one countdown. A second question
  replaces the first, which is then never answered nor auto-denied; a
  `/toolcall` caller hangs. `README.md:13`: "nobody answers within 30s and it
  auto-denies".
* `calls_reused_id`: ids restart at `rev-1` with the app. A call still polling
  the old `rev-1` is given the verdict on somebody else's action, also when it
  fails closed; `api.rs:275-277` rules a silent admission out.
* `calls_mcp`: admissions have neither turn nor call id, so all servers of a
  thread share one idempotency key and the second is answered with the first
  one's verdict; `mcp_runtime.rs:151-152` says the guard sees each server.
* `turn_hooks`: PreToolUse hooks run after the guard and may replace the input
  the guard rewrote, and that is executed without another review
  (`registry.rs:604`). `registry.rs:572-573` says of the guard "no hook can
  override it", `guardian_tap.rs:7-8` "cannot be overridden by hook
  configuration".

Seen while modelling, with no run of its own:

* `README.md:4` says every prompt, tool call and tool output is reported. The
  output of a failed or still running command and of `write_stdin` exposes no
  payload and is not reviewed (`context.rs:370`, `write_stdin.rs:100`).
* `csv_history.rs:49` names the sidecar `.meta.json`; the code writes
  `.meta.yml` (`session_meta.rs:26`). Its counters start over on a resumed
  thread, so it sums up the last life, not the file (`session_meta.rs:28`).
  In mode `both` the CSV decision column is always `defer`: the row is written
  before the monitor is asked.
* `main.js:268-272`: a file write of `settle` that throws leaves the window on
  screen with nothing pending, until the next question is settled or the next
  notice ends; if it comes before `p.res.end` the caller is not answered
  either. `HiddenWhenIdle` states this as its one exception.
* `csv_history.rs:261` says the header is written "exactly once". If the size
  of a resumed session's file cannot be read, `unwrap_or(true)` at line 276
  appends a second one. A crash loses the rows still in the channel.
* `guardian.rs:25` says one instance serves every session; `session.rs:1380`
  builds one per session. `GuardedAction::Compaction` is never submitted,
  although `event.rs` says denying vetoes it.
* A denial made by the posture during an outage is cached as the ruling on the
  instruction block and keeps the block out for as long as its text stays the
  same (`mod.rs:3357`). A step may get the block of another task's selections,
  or none, between `refresh` and `get_loaded` (`agents_md_manager.rs:93`); it
  is ruled on all the same.
* An interrupt that races the end of a call may tell the lifecycle contributors
  `completed` and then `aborted`; the model is told the latter.
* `main.js:643` and `main.js:648` call `rollouts` and `loadSession`, which are
  defined nowhere: `GET /rollouts` and `GET /rollout` throw and never answer.
* The scan page: every deep scan numbers its findings from `deep-0`
  (`main.js:589`) and a new scan does not call off one under way, so two
  answers may end up in one report with one choice for both. `GET /sessions`
  has no `startedAt`, which `Scope.tsx` reads for every row once "Choose
  sessions" is pressed.

## Proofs

Every invariant and every action property that a passing run checks is also a
theorem, for every value of the constants, that is for any number of keys,
texts, calls, questions, records, tasks, restarts and crashes and for every
channel depth and batch size. The assumptions are the modules' own
(`GateAssumption`, `QueueAssumption`, ...: the constants have their types, a
reserved value is not an ordinary one, the set of tasks or sessions is finite),
and TLC evaluates them in the runs. Where a theorem has a hypothesis of its own
it is named below with the reason it cannot be dropped.

The invariants stated in the component modules are seldom inductive. Each proof
module therefore starts with the strengthening, each conjunct with a comment,
and shows it for one action at a time. TLC checked each strengthening on the
component's run.

**`GateProofs`**

* `GateTyped`: `TypeOK`, inductive as it stands. The lemmas say what the
  helpers (`DecideNow`, `Claim`, `Answer`, ...) do to the types.
* `GateInvariant`, `GateKeysSeparate`: `QuestionsMatchReviews` and
  `KeysHaveOwnReview`. Each needs the other: a new review must not take an id
  that a question or a key already points at. It does not, because ids in use
  are at most `seq` (`IdsIssued`, lemma `FreshId`). The argument covers each
  handler that dies half way, and restarts, which empty the tables.
* `GateVerdictFinal`: the action property `VerdictFinal`. The only step that
  writes to an existing review is the adapter behind `settle`, and by the
  invariant its review is undecided.
* `GateRemembers`, `GateNoPass`: if no index write throws,
  `RefusedIsRemembered` and the action property `NoPassAfterRefusal`. The
  strengthening is `blocked = disk.blocked`, on which a restart relies. With
  failing index writes the first is false: after one, `add` returns early for
  that text and the file never gets it.
* `GateLedger`, `GateGrants`: if no write of a session row throws,
  `LedgerMatchesReviews` and `HumanBehindGrant`. `Booked` adds that every grant
  in memory is backed by an island row of its turn and hits with no later one
  (`GrantsBacked`). A row that could not be written is missing from both, hence
  the hypothesis.
* `GateAnswerable`: if the writes of `settle` succeed, `EveryReviewAnswerable`.
  Otherwise `settle` throws between taking the question off the map and
  deciding the review.

**`CallsProofs`**

* `CallsImplementGate`: `CallsSpec => Spec`. Codex and the app together are an
  app as `Gate` describes it, so the theorems above hold in the composition.
* `CallsTyped`: `CallsTypeOK`.
* `CallsOneRuling`: `CallsSpec => OneRulingPerKey`, the refinement of `Ruling`.
  Initial states map to initial states, and each action to a ruling, a call
  that learns or gives up, a forgetting of everything, or a stutter. It needs
  to know that what travels is still true when it arrives: a call polls the
  review of its own key (`PollsOwnReview`), a reply on the wire says what is
  the case about that key (`RepliesTrue`), and after a restart no call is left
  that asked before (`Ordered`, `Forgotten`). The hypothesis is `PlansOrdered`:
  if the app restarts at all, the calls follow one another. It cannot be
  dropped; `calls_reused_id` is the counterexample without it.
* `CallsAdmitted`: `AdmittedWasReviewed`. The invariant `OnRecord` follows the
  text and turn of an action from the POST over the question to the row and the
  verdict. Besides `PlansOrdered` it needs `KeysTellActionsApart` (without it
  `calls_mcp` is the counterexample) and a session file that takes its rows,
  since the property speaks of those rows. The run `calls` satisfies all three.

**`IslandProofs`**: `IslandTyped`, `IslandFlashYields`, `IslandQuestionStays`,
`IslandHides` for the four invariants. The first two about the page depend on
the order of the script queue: every queued notice has the `show` of every
waiting question behind it (`FlashesGoFirst`), and a question is sent once and
waits undecided until it is shown and its height has come back (`SentOnce`,
`OnPageWaits`). What `settle` does to the
window follows from what it does to the map (`WindowFollows`). A result on its
way back belongs to a notice, which starts a timer of its own, or to a question
that still waits, so nothing else puts the window up once the last question is
settled; `skipped` accounts for the `settle` that did not reach `island.hide()`.

**`RecordQueueProofs`**: `QueueTyped`, `QueueNothingVanishes`,
`QueueFlushCovers`, `QueueStoredInOrder`. A flush covers earlier records
because none is queued behind its command (`FlushIsBehind`). Order in the files
needs order in the channel (`QueueInOrder`), requests under way that share no
record (`RequestsApart`) and a batch newer than all that was posted before
(`BatchIsNewest`).

**`TurnProofs`**: `TurnTyped`, `TurnDenialHolds`, `TurnContextRuled`,
`TurnUnsandboxedApproved`, `TurnLifecycle`, `TurnExclusive`. The invariant says
of each call separately what its program counter implies (`Gated`, `Reviewed`,
`Told`), of the prompt gate that an input past the guard was not refused, and
of both steppers and the shared cache that a block fits the review it comes
from (`Fits`): two captures may overwrite each other's cache entry, but an
entry always carries its own text, ruling and result. `ExclusiveRunsAlone` is
the one conjunct over two calls; the others are shown for the call that moves
(`Sound`) and lifted.

**`HistoryProofs`**: `HistoryTyped`, `HistoryCsv`, `HistorySidecar`,
`HistoryFlush`, `HistoryRecorded`, `HistoryTransparent`. A row is at one place:
channel, writer's hand, file or failed (`RowsOnce`, `SentIsKept`); as long as
the writer keeps no open file, the file holds nothing of this life, and a header
goes only into an empty file or one whose size could not be read
(`HeaderFirst`); `SessionMeta`
has counted the rows of this life but the one about to be observed
(`MetaCounts`); rows due at a flush are in front of it (`DueFirst`), so that the
acknowledgement comes behind rows and sidecar (`FlushCounts`, `SidecarFirst`).
Transparency rests on `CsvIsNeutral`, for which the fold behind the fan-out is
computed for two guardians, as mode `both` has. For any number of guardians
it would take an induction.

Only model-checked:

* liveness, which the prover does not do: `EveryCallEnds`,
  `NewestQuestionSettles`, `FlushReturns`, `CancelEndsAll`, `EverySendReturns`;
* the five violations, which are counterexamples and not theorems.

## Not modelled

* Desktop: request bodies that do not parse (answered 400, no state); the
  contents of texts, the trigram embedding and the regular expressions;
  `events.jsonl`, which nothing reads back into a decision; JSON files torn by
  a crash; the tray panel and the web UI, scan page included, which the gate
  does not depend on.
* Approval: network approvals, the granular policy, MCP elicitations,
  approvals remembered for the session, profiles without a sandbox;
  `sandbox_override` containment, which no shipped tool implements.
* Turn: compaction, token budgets, stop hooks, the model's stream.
* History: two writers on one file (a thread resumed while its old session is
  still up in the same process), writes torn inside a row.
* Guardian configuration parsing, event and row formats.
* Upstream codex: terminal UI, app server, protocol, state database, model
  client and some eighty crates. They are the vendored agent, some 800 thousand
  lines, and hold neither code nor state of the guard; the specifications cover
  the guard and the code it is wired into, which is a small part of the tree.

## Plan

1. Done: `Gate`, `GuardedCalls` with `Ruling`, `Island`, `RecordQueue`, and
   the first theorems.
2. Done: `Guardians`, `ToolDispatch`, `ContextGates`, `Turn`, `History`.
3. Done: proofs of every safety property of the runs, and of the refinement of
   `Ruling`.
4. Left: weaker hypotheses where the code allows them (`AdmittedWasReviewed`
   with failing session rows, stated of what codex was told instead of the
   file; plans in which calls overlap as long as none of them is pending at the
   restart), and action properties of the history and the record queue (what
   was written is never taken back).
