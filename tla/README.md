# TLA+ development for virtual-helmsman

The virtual helmsman is a voice agent that takes conning orders ("port ten",
"half ahead"), has a language model turn them into actions, and carries the
actions out on a ship simulator. Next to it, in the same process, lives a small
knowledge base: documents are uploaded, reviewed chunk by chunk, and indexed for
the helmsman's answers.

This directory models the parts of the program in which tasks, threads, queues,
failing services and restarts meet. TLC checks the models on small instances,
TLAPS proves the most important results for every instance.

## 1. Inventory

| Part | State it keeps | Operations | Hard behaviour |
|---|---|---|---|
| Simulator link, `backends/simulator/real.py` over `wrapper_api.py` | `_state`, `_wrapper`, `_lock`, `_retry_now`, the supervisor task; in the wrapper: frame age and count, staged setpoints | `_supervise`, `set_rudder`, `set_engine_telegraph`, `get_state`, `connect`, `disconnect`, `close` | four kinds of task around one lock, calls in threads, a link that dies silently, delivery deadlines, cancellation, reconnecting |
| `SimulatorClient` protocol, `base.py` | none | what a backend promises | failed orders must not fire later |
| Mock simulator, `mock.py` | last orders | the same calls, at once | none (sequential) |
| Turn: `pipeline.py`, `actions/processor.py`, `actions/dispatch.py` | `LLMContext` messages, frames between processors, `_parts`, `_capturing` | text injection, action parsing, dispatch, context reset | processors are tasks that share one context by reference |
| LangGraph helmsman, `backends/llm/langgraph_helmsman/` | none between turns; runtime audit rows | classify, command, retrieve, select, expand, answer | every call may fail in the middle of a turn |
| Event bus, feed, telemetry: `api/events.py`, `api/app.py`, `telemetry.py` | one bounded queue per subscriber, drop counter | subscribe, publish, unsubscribe, periodic read | slow subscribers, dropped events |
| Dashboard state, `frontend/src/lib/` | connection state, live events | REST snapshot, reconnecting event stream | snapshot and stream race |
| Browser audio and the end of the session, `api/webrtc.py`, `api/server.py`, `main.py` | table of connections with their pipelines | offer, renegotiate, cleanup, close, shutdown | clean-up racing start-up, shutdown racing both |
| Latency metrics, `metrics.py` | the open turn and its stamps | stamps per frame, flush | late frames of an abandoned turn |
| Ingestion, `kb/ingestion/engine.py`, `store.py`, `qdrant.py`, `kb/review.py` | pending batches, audit rows (SQLite), collection, indexes and points (Qdrant), background tasks | upload, resume, review routes | concurrent resumes, failures between two stores, crashes |
| Review decisions, `metadata.py`; chunking, `chunking.py` | none | pure functions | boundary arithmetic, point ids |
| Documents, `kb/documents.py` | none (Qdrant) | paged listing, delete | listing and deleting while others index |
| Configuration, `config.py`, `api/config_router.py`, `main.py` | the YAML file, `.env`, the environment | read, validate, write, reload | what one process accepts another must start from; the environment outlives the process |
| Speech backends, set-up, logging, tracing, dashboard pages | - | adapters, output, presentation | - |

How the parts interact. A typed command enters through `POST /api/control/text`
and a spoken one through a WebRTC pipeline; both end in `dispatch_action`, which
awaits the `SimulatorClient`. The one simulator client is shared by all
pipelines, the telemetry task and the control routes. Cancelling a pipeline
cancels the simulator call it awaits. Every transition of the link is published
on the event bus, as are the events of each turn; the dashboard follows the bus
through a websocket. The helmsman's questions are answered from the collection
that ingestion fills.

What makes each part correct:

* link: an order that was reported failed never reaches the ship later; an order
  is acknowledged on the session that holds it; CONNECTED is shown over a live
  session only; disconnect leaves nothing behind; nobody waits forever and the
  link recovers by itself;
* turn: every command gets a reply of its own turn, turns leave no history, old
  commands never run after newer ones, the record of dispatched orders is true;
* ingestion: only what a reviewer kept is indexed, with the text the reviewer
  approved; no batch is lost before it is taken or offered again afterwards; the
  audit log is true;
* dashboard: streams are in order and lose an event only by their own full queue,
  the ship panel never goes back, and what is shown of the link is stale for known
  reasons only;
* browser audio: no pipeline outlives its connection or the session, and the
  session ends;
* knowledge base: counts, contexts and citations are those of chunks that were
  there;
* configuration: an accepted file starts the agent, secrets are re-read, what the
  operator set is kept, shipped prompts stay upgradable;
* chunking: no text is lost, repeated or filed under a place it is not at.

The hazards behind these, with the line where each bites and the properties that
cover it, are listed in `PROJECT.json`.

## 2. Modules

| Module | What it is |
|---|---|
| `SimLink` | the simulator link, with the wrapper sessions and the simulator as its environment |
| `HelmService` | abstract specification of a `SimulatorClient`, and a weaker one for callers that may be cancelled; `SimLink` implements both |
| `MCSimLink` | instance of `SimLink` for TLC (symmetry) |
| `SimLinkProofs` | inductive invariant, safety theorems and refinement of `SimLink` |
| `Turn` | the standing text pipeline, turn after turn |
| `MCTurn` | instance of `Turn` for TLC |
| `TurnProofs` | inductive invariant and safety theorems of `Turn` |
| `Ingestion` | upload and resume over the store and Qdrant, with crashes |
| `MCIngestion` | instance of `Ingestion` for TLC (symmetry) |
| `IngestionProofs` | inductive invariant and safety theorems of `Ingestion` |
| `Dashboard` | event bus, websocket handlers, telemetry, orders as publishers, and the browser tab |
| `Voice` | the browsers' pipelines and the end of the session |
| `KnowledgeBase` | the readers of the collection (Documents page, question branch) against uploads and deletions |
| `Config` | the configuration file through edits, reloads, crashes and an upgrade |
| `Chunking` | `chunk_text`: the paragraph-aware strategy as loops, next to the fixed-size one it extends |
| `FixedWindows` | the fixed-size strategy and the search for its offsets, as loops |
| `MCDashboard`, `MCVoice`, `MCKnowledgeBase`, `MCConfig`, `MCChunking` | their instances for TLC |
| `DashboardProofs`, `VoiceProofs`, `KnowledgeBaseProofs`, `ConfigProofs`, `ChunkingProofs` | inductive invariants and safety theorems of the modules they are named after, the last also of `FixedWindows` |

Definitions whose comment begins with "Variant" are deliberately
wrong forms of the definition that follows them. They show that the properties
notice such a change, and are part of no specification.

### 2.1 SimLink

State. `state`, `wrapper`, `lock` and `retryNow` are `_state`, `_wrapper`, the
owner of `_lock` and the event `_retry_now`. `sup`, `pc` and `op` say where the
supervisor task, each client call (order or read) and each operator call is.
`held` is the session a call works on and `seen` the number of frames its session
received since the call's first snapshot, capped at `_DELIVERY_FRAMES`, the only
value the code compares it with. Per session: `live` (started, not stopped),
`fresh` (frame age within the threshold), `engaged` (`initialized`), `staged`
(setpoints asserted on every tick) and `written` (handed to the transport, flushed
by the next frame). `executed` is the history of what reached the ship.

Actions. A step is what a task does between two awaits, or one call made in a
thread. The supervisor is `SupTick` ... `SupBackoffEnds`; an order is
`OrderIssued`, `OrderLocks` (with `_require_live`), `OrderSnapshot`,
`OrderStages`, then `OrderConfirmed`, `OrderTimesOut` and `OrderDrops`, or
`OrderRaises`; a read is `ReadIssued`, `ReadLocks`, `ReadSnapshot`; the operator's
are `Connect...` and `Disconnect...`, the latter with `SupCancelled`,
`SupervisorAwaited`, `TeardownDrop` and `TeardownShow`. The environment sends frames,
engages the controls, goes quiet, and makes wrapper calls fail.

`disconnect` cancels the supervisor in one step and awaits it in another, owning the
lock. In between the supervisor takes no step but the one in which the CancelledError
reaches it (`CancelPending`). `WaitForSwallows` says which `asyncio.wait_for` is
installed: that of Python 3.11 returns its result when the inner wait is over by the
time the cancellation arrives, and the supervisor goes on (`CancelSwallowed`); from
Python 3.12 on the cancellation always gets through. The safety properties are
checked with the former and proved for both.

Two specifications. `Spec` has calls that run to their end. `CancelSpec` adds the
cancellation of any client call at any await: the coroutine unwinds and releases
the lock, and a thread it has started runs on (`lateStage`, `lateDrop`,
`lateStop`).

Abstractions, and why they are safe:

* Durations are left out: sleeps, backoffs and deadlines end at any moment, so
  every real timing is among the behaviours. How many times a backoff doubles is
  therefore not observable.
* `DropSession` forgets and stops a session in one step. It is only taken by the
  owner of the lock (or, cancelled, as the two steps `LateDrop` and `LateStop`),
  and nothing reads `_wrapper` between the two outside the lock.
* A snapshot and the decision taken on it are one step: the snapshot is a copy
  and the decision reads nothing else that another task writes meanwhile.
* The local UDP port admits one running session (`SupBuild` needs `live = {}`);
  `stop()` stops what it is called on (the wrapper's contract, wrapper_api.py).
* The names of stopped sessions are reused once nothing refers to them; two names
  are enough, because at most one session runs and at most one stopped one is
  still referred to by a late thread.
* Values of orders are left out: an order is its name. The rudder slot and the
  lever slot each hold the newest order (`SameControl`).

`HelmService` is what the voice agent may rely on: link `off`/`down`/`up`, one
answer per order, and a ship that never moves on an order whose caller was told
"failed". `error` and cancelled calls map to `unknown`, since in the code they say
nothing about the order (see the findings). `LateSpec` is the service that remains
when callers may be cancelled: there the ship may move on any order that was issued.

What cancellation leaves of the safety properties is `CancellationContained`: every
running session is the current one or is about to be stopped by a thread that
outlived its call (`Stopping`); after disconnect only such sessions are left; a
session shown as CONNECTED runs, unless it has been taken away; and an order reported
failed is in no session but one being stopped. `GhostOnlyWhileStopping` and
`AckNeverOnAnother` are the action properties that go with it.

### 2.2 Turn

State. `typed` is the order of the injected commands and `context` the messages
after the system prompt. `runs`, `toAction`, `toSpeech` and `stamps` are the
queues in front of the LLM service, the action processor, the assistant
aggregator and the context reset; `llm` is the node of the graph the service is
in, `heard` the user text of each turn, `acting` the envelope whose simulator call
is awaited. `executed`, `events` and `rows` are the ship, the event bus and the
runtime audit rows. `alone` remembers the commands that had the pipeline to
themselves.

Actions. `Inject` is the text route with `build_text_injector` (nothing is awaited
between the message and the queued run). `LlmStarts`, `LlmReads`, `StandsBy`,
`GraphMoves`, `CommandParsed`, `QuestionAnswered` and `GraphFails` are
`LangGraphLLMService` and the graph; the start frame is pushed, and awaited,
before the context is read. `ActStart`, `ActText`, `ActEnd` and `ActSimulator` are
`JsonActionProcessor` with `dispatch_action`. `Aggregates` is Pipecat's assistant
aggregator, modelled from what pipeline.py says of it. `Resets` is
`SingleTurnContextReset`.

The model's reply is any action, blank or not; which rudder angle or telegraph
position it names is left out. A simulator call that raises may or may not have
moved the ship, which is the `unknown` of `HelmService`.

### 2.3 Ingestion

State. `upload` and `req` say where each upload task and each resume request is;
`pending` and `audit` are the two SQLite tables, `collection`, `indexes` and
`points` is Qdrant. `taken` and `upserted` remember the requests that removed
their batch and those whose points arrived.

Actions. One per await: `Upload`, `Extract`, `AuditPdfFailed`, `Summarize`,
`AuditLlmError`, `WritePendingBatch`; `Resume`, `GetBatchChunks`, `DeleteBatch`,
`AuditAllRejected`, `CheckCollection`, `CreateCollection`, `CreateIndex`,
`EmbedTexts`, `UpsertPoints`, `AuditSuccess`. A call that leaves the process may
fail without effect (`HttpFails`) or after its effect (the `failed` outcomes).
`Crash` ends all tasks; the store and Qdrant keep what they have.

Abstractions: batches have distinct point ids (the arithmetic of `point_id`, and
when it collides, is a hazard of its own); there is one collection; texts are the
original or the edited one; Qdrant refuses to create a collection that exists.

### 2.4 Dashboard

State. `link` counts the changes of the link state; `lock`, `reader` and `sample`
are the simulator's lock, the two kinds of task that read the ship (telemetry,
an order) and what each has read. `log` is everything published. Per connection:
`handler` (the `ws_events` call), `queue`, `hand` (the event being sent), `pos`
(the last event applied), `fetch` and `snap` (the REST snapshot). Per tab: `page`
(the `EventStream`), `shown` and `ship` (`live.simulator`, `live.shipState`).
`missed`, `gap` and `known` are history.

Actions. `LinkChanges` is `_set_state` with the listener that publishes;
`Asks`, `Locks`, `Samples`, `Returns`, `Fails` are `run_ship_state_publisher` and
an order or status query from its first await to `_publish_turn_events`; `Subscribes`,
`Takes`, `Sends`, `SendFails` are `ws_events` with `onEvent` at the other end;
`Opens`, `SeesOpen`, `Breaks` are `EventStream`, `Answers`, `SnapshotArrives` and
`SnapshotFails` the request of `refreshSnapshots`. A connection that broke keeps
its queue on the bus until a send fails, as in the code, so a full queue beside a
healthy one occurs with one tab already.

The bus publishes in one step because `publish` awaits nothing. The events of one
turn are published back to back and matter only by their number; texts and turn
metrics are left out.

### 2.5 Voice

State. `offer`, `peer`, `table`, `pipe`: where a peer's request is, its peer
connection, its record in `_connections` and its pipeline; `cleanup` the `_cleanup`
calls that await `cancel()`, `todo` and `current` the loop of `close`, `stage` the
place in `main._serve`, `feed` a dashboard connected to `/ws/events`.

Actions. `OfferArrives`, `InitializeFails`, `Starts` and `Renegotiates` are
`handle_offer`; registering the record and `_start_pipeline` are one step, for
nothing is awaited in between, and assembling may raise, which leaves the record
without tasks. `DisconnectHeard` and `CleanupEnds` are `_cleanup` around its await;
only the call that popped the record cancels. `Interrupted`, `Closes`,
`ClosesNext`, `CleansNext`, `CleanedNext`, `Ends` follow the `finally` of `_serve`:
telemetry, `api.stop`, the lifespan handler with `close`, `simulator.close`.
External: Pipecat ends a pipeline that was told to cancel and reports a lost peer;
uvicorn takes no requests after `should_exit` and runs the lifespan handler once
every request and websocket call is over.

### 2.6 KnowledgeBase

State. `points` is the collection; `upserted` and `deletion` are the writers; the
rest is the one request being read: page offset, points given, chunks of the turn,
files still to be asked for, the parsed answer. `seen` and `always` remember which
points were there at some time, or all the time, of the request. `rerank` and
`expansion` are the two switches of the configuration, both ways each.

Actions. `Scrolls` is a page of `list_documents`; `DeleteCounts` and `DeleteRuns`
are `delete_document`; `Retrieves`, `Selects`, `ExpandStarts`, `Fetches`, `Merges`
and `AnswerParsed` are the nodes of the question branch with their helpers.
What a query finds, which labels the reranking model returns (out of range, twice,
none) and which id the answer names is left open. `RequestEnds` can happen at any
step: a failed call is a 502 or the error envelope, and nothing stays behind. One
request at a time is enough, as a reader changes nothing that another one reads.
Sequences in the order of their ids, and the chunks a filter keeps, are written with
`Ascending` and `At`, which say what is at each place instead of computing it by a
fold, so that they can be proved about.

### 2.7 Config

State. `file`, `dotenv`, `outer` and `env` are `config.yaml`, the `.env` that
`load_dotenv()` finds upward from `main.py`, the environment the operator started
from and `os.environ`; `sameFile` says whether `find_dotenv(usecwd=True)` finds that
file too; `release` and `installed` are the code that runs and the code on disk;
`draft` and `schemaOf` the open Config page. History: `saved` remembers the override
and the release under which the file was accepted, `edited` the names changed in
`.env` since the process read it, `forgotten` the names that reloads have taken out
since the start.

Actions. `Start` and `Exec` are `main._run` from the operator's environment, or
from the one `_exec_self` leaves after `_forget_dotenv_vars`: the process serves if
`load_config` accepts the file and `build_simulator`, which `_serve` reaches through
`build_shared_backends`, finds an endpoint where it needs one. A start may be from any
environment and any directory. Of another `.env` than the one that is read only the
names matter, and they are any set (`NamedLocally`). `ReadConfig`, `FieldEdited`,
`WriteConfig`, `WriteFails` and `ReloadAsked` are the page and its router; `Crash`,
`DotenvEdited` and `Upgraded` may happen at any moment.

Of the settings, the model has one of each kind the code treats differently: a
prompt (unmodified or blank is not written), a setting an environment variable
overrides, the simulator's ports and frame rate (looked at by the start only), the
obsolete `simulator.real` keys (an error, or dropped, depending on the backend), and
a secret read by name. What the schema accepts does not change with the release: only
this release's is known. Other failures of a start (a model that cannot be loaded, a
port in use) do not depend on what is modelled here. The exec of a reload and the
`load_dotenv()` of the new process are one step, so an edit of `.env` in the seconds
between them is not among the behaviours.

### 2.8 Chunking

The module extends `FixedWindows`: `CleanInit` has every clean text up to the bound and
chooses the strategy, as `chunk_text` does. A character is a capital, a sentence end, a
space or a newline: what the patterns tell apart, except that `;`, `:`, brackets and
quotes, which only some patterns take for an end, are left out. A string is the
sequence of the positions its characters come from, 0 for a newline the chunker put
in, so that loss, repetition and order can be stated.

State. `block` is the block `_split_block` is called on, or what remains of it, `parts`
what its loops still have before them, `pieces`, `current` and `raw` the variables of
`chunk_paragraph_aware`; `stage` says which loop runs.

Actions. `SplitsBlock` is a call of `_split_block` up to the choice of a pattern,
`TakesPart` a turn of its loop over the parts, `Cuts` and `CutEnds` the hard fallback,
`Merges` and `MergeEnds` the loop that merges. The calls of `_split_block` nest, but
together they go through the text from its start to its end: the parts that all open
calls have left are one set, and the next one is the first in the text. `Trimmed`,
`TailMerged`, `Overlap` and `ParagraphAware` are the stages behind the loops, each of
which looks at a chunk and its neighbour only.

### 2.9 FixedWindows

State. `pos` and `chunks` are the variables of the loop in `chunk_fixed_size`,
`searchFrom` and `starts` those of the loop in `complete_metadata`; `loop` says which
one runs. A window is the slice of the text that it is, from and to.

Actions. `TakesWindow` and `FindsOffset` are one turn of either loop. Written as steps
instead of recursion, both can be proved about for a text of any length.

## 3. Runs

| Run | Checks | Shows |
|---|---|---|
| `simlink_safety` | `TypeOK`, `NoOrphanSession`, `ConnectedIsLive`, `DisconnectedIsQuiet`, `NoGhostOrder`, `AckOnLiveSession`, `ImplementsHelm` | the link keeps its safety promises and implements `HelmService` |
| `simlink_live` | `CancellationContained`, `OrdersAnswered`, `DisconnectReturns`, `SilenceNoticed`, `LinkRecovers` | with calls cancelled at any await, no session is leaked, nothing waits forever and the link recovers |
| `simlink_error` | `FailedOrderNeverFires` - violated | an order whose confirmation raises is reported failed and stays staged |
| `turn_text` | `TypeOK`, `NoHistoryAtRest`, `SpacedCommandHeard`, `OrdersInSequence`, `DispatchedWasExecuted`, `CommandAnswered` | overlapping turns end with a reply and an empty context; no turn's order is carried out twice or after a newer one |
| `turn_single` | `EachCommandHeard` - violated | of two commands typed in quick succession one is carried out twice and the other never |
| `ingestion_safety` | `TypeOK`, `BatchAccounted`, `NoZombieBatch`, `IndexedWasReviewed`, `AuditIsTrue` | no batch is lost or offered twice, only reviewed text is indexed, the audit log is true |
| `dashboard` | `StreamIntact`, `SettledIsExplained`, `ShipPanelMonotone` | streams are ordered and lose events only by their own full queue; the ship panel never goes back; a settled tab shows a stale link for four known reasons only |
| `voice` | `NoPipelineUnattended`, `SimulatorClosedLast`, `PipelineFollowsPeer`, `InterruptEnds` | no pipeline outlives its peer or the session, the simulator is closed last, and an interrupt ends the session unless an idle dashboard is connected |
| `kb` | `ListingIsExact`, `ContextIsSound`, `CitationIsTheSource` | uploads and deletions between two calls neither hide nor double a chunk; contexts and citations are those of chunks that were there |
| `config` | `ReloadRereadsDotenv`, `OperatorVarsKept`, `DefaultNeverFrozen`, `SavedConfigStarts` | what `.env` alone sets is re-read by a reload; what the operator set is kept until a reload finds its name in a `.env`; shipped prompts are not frozen; an accepted file starts the agent unless it wants the real simulator without an endpoint |
| `config_precedence` | `OperatorWins` - violated | after a reload `.env` wins over what the operator set |
| `chunking` | `LossIsTrimmed`, `WindowsCover`, `OffsetsNeverBehind` | only the sentence trim loses text; fixed windows cover it with exactly the overlap; each is found, at its place or at a repetition before it |

Five configurations go with no run of the list. Each checks one property that a
comment or a document claims, and TLC finds it violated at once:
`tlc -config SimLinkHang.cfg MCSimLink` and so on.

| Configuration | Violates | Shows |
|---|---|---|
| `SimLinkHang` | `DisconnectReturns` | with the `wait_for` of Python 3.11 a disconnect can wait forever |
| `IngestionTwice` | `ResumedOnce` | two overlapping resumes of one batch both finalize it |
| `ConfigElsewhere` | `RereadsAnywhere` | launched from another directory, a reload keeps a rotated value |
| `ConfigUnset` | `MisconfiguredStarts` | an endpoint left as shipped ends the start of an agent with the real backend |
| `ChunkingLoss` | `TrimmedTextRecovered` | what the sentence trim takes off is in no chunk |

Bounds.

* `simlink_safety`: two rudder orders (a setpoint that replaces another), one
  reader that reads again and again, two operators (connect against disconnect,
  disconnect twice), two session names, two delivery frames as in the code; about
  2 million states. An engine order differs from a rudder order only in its
  slot; `simlink_live` uses one, so both slots occur.
* `simlink_live`: one order, cancelled at will, and one operator. A waiting task
  can only be starved by the supervisor, another call or the operator, and each
  of these is there. Here the liveness properties range over about 100 thousand
  states, with the `wait_for` of Python 3.12; `SimLinkHang` has two operators and that
  of Python 3.11. How the thread of one cancelled order meets the session of another is the
  subject of the proofs, which are for any number of orders.
* `turn_text`: two commands, typed at any moment. Two are enough to overtake, to
  be wiped and to have a turn to themselves after one that failed.
* `ingestion_safety`: two uploads, two requests, two chunks, with a missing
  decision, a rejection, an edit and a too short edit; an approval and an unknown
  action do what a missing decision does. Two requests may name one batch or two.

* `dashboard`: one tab with two connections, queues of two, one link change, two
  ship readings, one turn; about 2 million states. The old connection's queue
  fills up while the new one is read, a turn fills a queue in one go, and a
  snapshot can be asked for, answered and applied on either side of the change.
  A second tab adds nothing that a second connection does not, as tabs share only
  the bus.
* `voice`: three browsers: one that leaves while the second is cleaned up and the
  third still offers when the session ends; 80 thousand states.
* `kb`: two uploads, of one file or of two, of up to three chunks; pages of two,
  so that a listing has a page border inside and between documents, and a limit
  of five that can cut it; contexts of two winners with neighbours on both sides;
  3.8 million states.
* `config`, `config_precedence`: one variable with two values, one of them empty,
  which the operator, `.env`, both or neither set, launched from the checkout or
  elsewhere; any file to begin with; prompt and backend changed on the page, one
  upgrade; 1.2 million states. All names of `.env` are treated alike, so the variable
  that is also an override stands for the secret too. Ports and frame rate are set or
  not from the beginning; that they are edited as well changes which file is saved,
  not what a start makes of it, and is among the behaviours of the proofs.
* `chunking`: all 82 thousand clean texts of up to nine characters, each
  by both strategies (1.4 million states), with
  sizes in the order of the code's: overlap 2, minimum 3, merge limit 4, window 5,
  key 3. The trim looks at a larger part of a chunk than the code's last 15 %, which
  in a chunk of four would be empty. Nine characters make three chunks, the last of
  which may be merged, and up to three windows.

Deadlock is checked for the link, which may never stop. In `Turn` and `Ingestion`
every command and call is made once, so the model stops when all have ended;
`Voice` stops when the session is over, `Dashboard` when the tab is closed,
`Chunking` with its loops.

Fairness. `FairSpec` of `SimLink` assumes what asyncio and the thread pool give:
a task that can take its next step takes it (weak fairness), and the lock is
granted first come first served, so a waiting task gets it although it is taken
again and again in between (strong fairness on the steps that acquire it). In
`SimLinkHang` the same fairness holds: nothing that could move is held back. A
running simulator sends frames and engages the controls, and frames of a stopped
one grow old. Operators, clients, the simulator and the failing of wrapper calls
are left open, so recovery is stated under the assumption that the simulator stays
up and calls stop failing. `FairSpec` of `Turn` assumes that each processor takes
the next frame of its queue and that calls to the model, to Qdrant and to the
simulator end: the first two have HTTP timeouts, and `OrdersAnswered` shows the
last. `FairSpec` of `Voice` assumes that the event loop goes on with every call that
can proceed, that a lost peer is noticed, and that a cancelled pipeline ends;
whether offers, disconnects, the interrupt or events come is left open, and so is
whether a connected dashboard ever leaves: `InterruptEnds` says what follows from
that. `Dashboard`, `KnowledgeBase`, `Config`, `Chunking` and `FixedWindows` are
checked for safety only. That a settled tab shows the true link is not a liveness property of this
code (nothing re-sends what was missed), so it is stated as `SettledIsExplained`.

## 4. Proofs

`SimLinkProofs` proves, for any number of orders, readers, operators, sessions and
delivery frames, from the assumptions `TasksAreDistinct`, `NoSessionIsNone` and
`DeliveryFramesPositive`:

* `TypeCorrect`, `NoOrphan`, `ConnectedOverLive`, `DisconnectedQuiet`: the
  invariants of the safety run;
* `GhostFree`, `AckSound`: its action properties;
* `Refinement`: `Spec => HelmSpec` under the mapping at the end of `SimLink`.

The argument is the inductive invariant `IInv`. None of the properties is
inductive by itself: whether a drop orphans a session depends on who may drop,
which is `LockDiscipline` (the lock's owner is the one task inside a locked
section) and `HeldIsCurrent` (that task works on the session `_wrapper` names).
`SessionTracked` (what runs is what `_wrapper` names) and `StateShown` tie the
shown state to the session. `StagedIsOwed` is the heart of `NoGhostOrder`: an
order sits in a session only while that session runs and the order is being
confirmed, was acknowledged, or ended in an error; so once it is reported
undelivered there is no session left that could execute it. `NothingLeftOver`
says that `Spec` has no cancelled calls. Each action is shown to preserve the
parts it touches, and the temporal theorems follow from the invariant.

`CancelSpec` needs an invariant of its own, since there the thread of a cancelled call
takes a session away without the lock, and `HeldIsCurrent` and `SessionTracked` are
false. `CancelInv` keeps `LockDiscipline` (a thread that is left behind owns nothing,
`CancelExclusive`) and replaces the rest: a call works on the current session or on
one that was taken (`HeldOrTaken`), no two threads stop the same session (`OneStops`),
the supervisor's place says what is shown (`SupShown`), and an order is staged in one
session at most (`StagedOnce`). From it follow

* `Contained`: `CancellationContained`, what is left of the four invariants of `Spec`;
* `GhostsAreStopping`: the only way in which an order that was reported failed still
  moves the ship is a frame that reaches its session between the two halves of a late
  `_drop_session`;
* `AcksAreOwn`: an acknowledgment is still given on the order's own session, or on
  none, never on one that has replaced it;
* `LateRefinement`: `CancelSpec` implements `LateSpec`.

TLC checked `CancelInv`, both action properties and the refinement on two rudder
orders and one operator (1.2 million states) before they were proved.

`IngestionProofs` proves, for any sets of uploads, requests and chunks,
`BatchNeverLost`, `NoZombie`, `ReviewedOnly` and `AuditTrue` from the inductive
invariant of `Ingestion`. It adds to the properties where a pending and a taken
batch come from (`PendingWasWritten`, `TakenWasWritten`), what a request at each
stage has done (`RequestStage`), that upserted chunks stay indexed
(`UpsertedIsIndexed`, which fails to follow from the rows alone because two
requests may write one batch) and who can have written a row (`RowsWereEarned`).

`IngestionProofs` also has `TypeCorrect`.

`TurnProofs` proves `TypeCorrect`, `RestIsClean`, `SpacedHeard`, `InSequence` and
`DispatchTrue` for any number of commands, from `MessagesAreDistinct` and
`NoTextIsNone` (the marker for "no text" is not a command and not an envelope). The
properties speak of turns, the state of queues, so the invariant says what a queue
may hold: frames come as start, text, end from where the processor is to where the
service is (`FrameOrder`); a reply is in one place (`HeldOnce`); each command has
one run, queued, started or read (`Counted`). `LatestIsLast` (the newest user message
in the context is the command typed last, or there is none) is why the wipes of
overlapping turns cannot bring an older command back, and with `HeardInOrder`,
`TurnsInOrder`, `TurnIsNew` and `OrdersHaveText` it gives `OrdersInSequence`.
`AloneIsQuiet` follows a command that has the pipeline to itself until it is read.

`DashboardProofs` proves `TypeCorrect`, `StreamsAreIntact`, `PanelMonotone` and
`StaleIsExplained` for any number of tabs and connections, any queue size and any
bounds (`BoundsArePositive`). Its invariant has three layers. The simulator:
`LockOwned`, and from it `ShipsInOrder` (readings are published in the order in which
they were taken, because a reader publishes before it lets the lock go), and
`LinksPublished`. The bus: a queue is ordered and behind what was taken from it
(`QueueInOrder`), and consecutive if the bus dropped nothing (`QueueWhole`). The tab:
what it shows was published and is not ahead of its stream (`ShipWasPublished`,
`TabWasTold`), and `SnapshotBridges`: a snapshot that was not answered too early,
together with the stream so far, leaves no change of the link out. The four reasons
of `SettledIsExplained` are exactly the cases this last part needs to exclude.

`VoiceProofs` proves `PipelinesAttended` and `ClosedLast` for any set of browsers
(`NoPeerIsNone`). `close()` works off a list it took before it awaits; the table is
empty at the end because whoever is in it is on the list or is being cleaned up
(`TableIsListed`) and nobody enters meanwhile (`ClosedToOffers`, which needs that
the lifespan handler starts after the last request).

`KnowledgeBaseProofs` proves `ListingExact`, `ContextSound` and `CitationTrue` for any
uploads, chunks, page size, scroll limit, retrieval depth and number of winners
(`SizesArePositive`). `PagesSoFar` is the invariant of the listing: the points given
so far are in the order of their ids, all before the next offset, and include
everything before it that stayed. Point ids are unique (`IdsAreUnique`), so places of
the list and points of a document correspond one to one, which bounds the counts from
both sides. For the context, `FetchedAreNeighbours` says where neighbours come from
and `MergedIsSound` that the first chunk of a file and id, the one the merge keeps, is
a winner whenever there is a winner. That `Ascending`, `At` and `ById` list a set
once each and in order is proved by counting (`RankGrows`, `AscendingOrders`), with no
induction.

`ConfigProofs` proves `DefaultsStayOut`, `SavedStarts`, `ReloadRereads` and
`OperatorKept` for any number of releases, any secrets and overrides and wherever the
agent is launched, from `ContentsAreDistinct` (a prompt's default, a custom one, a
blank and an absent one can be told apart) and `FieldsOfThePage` (what `Editable` may
name). A PUT writes what a page holds that may be
older than the process: `DraftIsNoNewer` bounds which defaults it can hold,
`SavedIsValid` keeps what the editor accepted. The two invariants of the environment
are inductive as they stand (`EnvInv`): a start establishes them (`StartReads`), a
reload restores them whatever was edited and read before (`ExecRereads`).

`ChunkingProofs` proves `Covers` and `OffsetsFound` for a text of any length, any
window size, any overlap below it and any key length (`WindowsAdvance`). The
invariants are those of one turn of a loop: windows are ordered and each begins the
overlap before the end of the last (`Advancing`), what lies before that end is covered
(`CoveredSoFar`), and the next search starts no later than the window it looks for
(`SearchIsBehind`), so that it always finds something. `WindowsOfDocuments` carries
both over to `CleanSpec`, where the loops are one branch of `chunk_text`.

It also proves `OnlyTrimmedLost`, `CleanSpec => []LossIsTrimmed`, for every text and all
sizes (`SizesMatch`). The inductive invariant `ParagraphInv` says of every turn of the
loops where the text is: the chunks, the chunk being merged, the pieces, the rest of
the block and the parts follow one another in the text (`ToSplit`, `PiecesFit`,
`ChunksFit`), and every character that is not white space is in one of them
(`NothingLost`). It rests on lemmas about the operators: what a slice, a join and
`str.strip` keep (`Slice`, `Joins`, `Strips`); that `re.split` leaves parts in order
that do not overlap and have all the ink (`Splits`, from `RunsApart`: the stretches
around two places are the same or have a separator between them); that the hard cut is
inside the block (`CutIsInside`). Behind the loops, `TrimmedFit`, `TailFits` and
`OverlapFits` say what each stage keeps and how long it may make a chunk. None of this
is an induction over the text: the loops being steps, the invariant of a step is enough.

Every inductive invariant was checked by TLC, on the bounds of the component's run,
before it was proved.

Only model-checked: the liveness properties (`OrdersAnswered`, `DisconnectReturns`,
`SilenceNoticed`, `LinkRecovers`, `CommandAnswered`, `PipelineFollowsPeer`,
`InterruptEnds`), because liveness under fairness is outside what the installed provers
can do, and the properties that are violated, whose counterexamples TLC gives.
Every invariant and every action property of a passing run is proved.

## 5. Findings

Three runs violate what a comment or a document says of the code; `PROJECT.json`
quotes the lines:

* an order whose confirmation raises stays staged (`simlink_error`);
* commands typed in quick succession are read in each other's place (`turn_single`);
* after a reload `.env` wins over what the operator set, after a start it does not
  (`config_precedence`).

So do the five configurations beside them:

* `SimLinkHang`: on Python 3.11, which pyproject.toml:21 admits, `asyncio.wait_for`
  returns its result instead of raising CancelledError when the inner wait is over
  already. A disconnect that meets a supervisor just kicked out of its backoff
  (real.py:363-371) never returns: it owns the lock and awaits the supervisor, which
  waits for the lock. `connect()` and `disconnect()` of real.py, called from two
  tasks on Python 3.11.6 while the supervisor backs off, hang in this way.
* `IngestionTwice`: `resume` reads the rows and deletes them in two awaits
  (engine.py:190, 200), so two overlapping resumes of one batch both finalize and the
  later upsert replaces the earlier decisions. engine.py:186-188 speaks of "one-shot
  semantics", docs/LOCAL_INGESTION.md:39-40 says "a second resume of the same batch
  returns 404".
* `ConfigElsewhere`: the names to forget come from `find_dotenv(usecwd=True)`, the
  values from a search upward from main.py (main.py:98), so an agent launched from
  another directory keeps a rotated key. config_router.py:60-61 says "Forgetting the
  file-sourced names right before the exec lets the child re-read them fresh".
* `ConfigUnset`: the real backend with the endpoint that config.yaml:43-49 ships is
  accepted by `load_config` and by PUT, and ends the start (real.py:517-534).
  real.py:513-515 says "a misconfigured or absent simulator cannot stop the agent from
  starting".
* `ChunkingLoss`: the overlap is taken from the chunk after the trim
  (chunking.py:173-174), so what the trim takes off is in no chunk. chunking.py:9-11
  says that the trim "relies on the 75-char overlap to re-cover trimmed text".

Further divergences met while modelling:

* Delivery is counted from the snapshot before staging (real.py:430, 442), so
  frames in between count as proof; real.py:29-33 says "*after* staging".
* A call cancelled inside `asyncio.to_thread` releases the lock while its thread
  goes on to stage (real.py:436); real.py:24-28 says every session mutation
  happens under the lock. `simlink_live` shows that the link recovers from it, and
  `Contained` that no session is leaked. But an order staged late can take the place
  of a newer one that was acknowledged.
* A late `_drop_session` can take away the session of another order, which is then
  reported undelivered although that session may still get a frame before it is
  stopped: with two orders `NoGhostOrder` fails under `CancelSpec`. real.py:29-33 says
  of such an order that "it must never fire later". `GhostsAreStopping` bounds when.
* A finalize that fails leaves no audit row (engine.py:222-243); engine.py:197-199
  says it "should surface in the audit log".
* A name removed from `.env` keeps its old value over a reload: what is no longer
  named is not forgotten.
* A Config page left open over an upgrade writes the older release's default
  prompt as if it were the operator's own; `DefaultNeverFrozen` allows that case and
  no other.
* With the paragraph-aware strategy the newline between overlap and chunk keeps
  the search of `complete_metadata` from finding the chunk, and its `start_char` is
  then one more than that of the chunk before.
* A dashboard that is connected and idle keeps the process from ending on SIGINT:
  telemetry, which would have made its handler notice, is cancelled first.
* The four reasons in `SettledIsExplained` are defects of the display: a dropped
  event, a failed snapshot, a snapshot answered before the handler subscribed, and
  a snapshot applied after a newer event all leave a wrong link state shown until
  the next change.

## 6. Not modelled, and what is left

Not modelled: speech backends (adapters over third-party models), logging and
tracing, start-up, the dashboard pages and the mock simulator (sequential);
`LatencyTracker` and `ConversationLogger`, which only measure and whose input is
the order in which Pipecat's observers see frames; interruptions of a voice
pipeline, which happen inside Pipecat; the wording of prompts and replies, the
boilerplate rules of `clean_pdf_text`, and the tables that turn actions into
setpoints, which the unit tests enumerate; the limit of 20 points of
`scroll_neighbours`, which three winners do not reach unless a file was uploaded
several times.

What the development leaves open: a fairness-free bound on how long the loops of
`chunk_paragraph_aware` run (TLC explores all of them to their end on the bounded
texts, no theorem says so); the liveness properties beyond their bounds; and
`clean_pdf_text`, whose rules about repeated lines depend on counts of a whole document.
