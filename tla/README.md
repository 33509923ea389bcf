# VoiceStock in TLA+

VoiceStock keeps the stock of a small shop by voice. A Raspberry Pi records the
operator while a button is held, sends the WAV to a PC that transcribes and
interprets it, shows the interpreted operation on a web page, and applies it to
the inventory when the operator confirms. This directory models the parts of
the repository whose correctness depends on several threads, on time or on
failures, checks them with TLC on small instances, and proves what matters most
with TLAPS for every instance. Paths below are relative to the repository.

## 1. Inventory

| Part | State it keeps | Operations | Properties that make it correct |
|---|---|---|---|
| Operation cycle, `src/pi/pending_operation/flow.py`, with `push_to_talk/sender.py` | `_phase`, `_pending`, `_operator_message`, `_jobs`, `_closed`; a one-thread pool; published WAV files | `try_begin_recording`, `on_capture_completed`, `on_capture_error`, `_process`, `_on_sent`, `clear`, `close` | phase and slot agree; PROCESSING always ends; every job and every file has an owner; an operation belongs to the current recording |
| Confirmation gateway, `pending_operation/gateway.py` | `_lock`, `_last_resolution` | `confirm`, `cancel` | an effect is applied at most once; nothing is applied and cancelled; answers and retries say what happened |
| Push-to-talk controller, `push_to_talk/controller.py`, `input/push_to_talk_button.py` | event queue, `_state`, `_generation`, `_closed`, the timer | button edges, timeouts, the worker's handlers, `close` | calls reach the capture in order; only a recording's own timer cuts it; a hold is never waited for twice; shutdown leaves nothing behind |
| Audio capture, `audio/capture.py` | `_state`, `_stop_in_progress`, session, temporary file, stored errors, orphaned worker | `start`, `stop`, `_fail`, `_publish`, `_run` | the backend is never used by two threads; a published WAV is whole; errors blame their own recording |
| PCM buffer, `audio/sounddevice_backend.py:55-131` | queue, depth, sentinel, failure | `put`, `fail`, `close`, `get` | the sentinel always fits; nothing brought to an open buffer is lost or reordered without the capture failing |
| PortAudio backend, `audio/sounddevice_backend.py` | `_stream`, `_generation`, `_pcm`, `_stop_requested`, `_aborted` | `start`, `read`, `stop`, `close`, `_on_pcm`, `_on_finished` | what is read is the whole recording; audio of one recording does not get into another; a blocked read is released |
| Process, `runtime.py` | `_closed` | `serve`, `close`, `main` | parts are closed in an order that loses no recording; nothing is left behind, also when `close` raises |
| Operator page, `web/static/app.js` | `state`, `queue`, `renderedSignature`, the DOM | polling, rendering, a decision | a decision is for the card that was clicked; buttons are off during a decision; the page catches up |
| Operator API, `web/*.py` | none | four routes | — |
| Operation contract, `operation_contract/*.py`, `shared/operation_contract` | the catalog read at start | structural validation, product matching | what is accepted is what was meant: the only product described, the quantity and direction said |
| Transport, `pi/communication`, `shared/communication`, `pc/communication` | none | request, envelope, error codes | each failure has one classification |
| PC pipeline, `pc/audio`, `pc/interpretation`, `pc/speech_to_text`, `pc/operation_contract` | a shared HTTP client | transcribe, interpret, match, map | a result is a valid operation or a named failure |
| Storage, `pi/storage`, `pi/inventory` | a SQLite file with the migration history, the catalog and the stock records | `open_database`, `apply_migrations`, `transaction`, `create_stock_record` | the schema is what the history says; an open connection has its release's schema; a unit of work happens entirely or not at all; a caller is told the truth |

Threads and interactions on the Pi. GPIO callbacks and timer threads put events
in the controller's queue. The controller's only worker takes them, asks the
flow `try_begin_recording`, calls `AudioCapture.start` and `stop` (which spawn
and join a capture worker that reads the PCM buffer, filled by PortAudio's
callback thread), and reports `on_capture_completed` or `on_capture_error`. The
flow submits a job to its one-thread pool; the job uploads the WAV, classifies
the answer and stores the pending operation. HTTP threads read the phase and
call the gateway, which executes and clears the slot. The main thread runs the
web server and, when it returns, `PiRuntime.close`; if that raises, `main` closes
the client and the interpreter exits. The page polls and posts.
The database is a library no entry point opens yet; what it must withstand is
another process on the same file (an upgrade, a restart that overlaps, a second
start by mistake) and the end of its own process between any two statements.

What is hard here: callbacks, HTTP calls and PC answers interleave at every
critical section; an answer may arrive when the cycle, or the process, has moved
on; `start` and `stop` give up on a worker that is still alive; a PortAudio callback
that has passed its check runs on while the recording around it is replaced; a
statement, a COMMIT or the process fails inside a migration; file operations
fail half-way through a failure path; the page lets clicks and timers in at
every `await`. `PROJECT.json` lists each such hazard with its line and the
properties aimed at it.

## 2. Modules

| Module | Models | Composes |
|---|---|---|
| `OperationCycle` | the abstract promise: one cycle, at most one offered operation, applied once or cancelled | |
| `PendingFlow` | flow, sender, pool thread, gateway and its clients, `close` | refines `OperationCycle` (`INSTANCE`, property `CycleSpec`) |
| `PushToTalk` | button, queue, worker, timer, `close`; capture and application as their outcomes | |
| `PiRuntime` | `build_runtime`, `PiRuntime.close`, and the end of the process when it raises | extends `PendingFlow`, instances `PushToTalk` with the flow's phase as its application |
| `AudioCapture` | `start`, `stop`, `_fail`, `_publish`, the capture worker, the backend's stream and queue | |
| `PcmBuffer` | `_PcmBuffer`, as operators on a buffer value; no state of its own | |
| `SoundDeviceBackend` | the backend's calls, PortAudio's threads and the reading worker | extends `PcmBuffer`, one buffer per recording |
| `OperatorPage` | `app.js`, the server as the API shows it | |
| `ProductCatalog` | the product match of ADR-0006, once as the Pi and once as the PC implements it, and the two catalog checks | |
| `Interpretation` | one recording from the client to the PC's handler and back to the Pi's validator | extends `ProductCatalog`; its outcomes are the answers of `PendingFlow` |
| `StockStore` | the abstract promise of the database: an upgrade, a change of the catalog or a unit of work is one step | |
| `Storage` | the file, its migrations, transactions and stock records, under several processes | refines `StockStore` (`INSTANCE`, property `StoreSpec`) |
| `PendingFlowProofs`, `PushToTalkProofs`, `PiRuntimeProofs`, `OperatorPageProofs`, `InterpretationProofs`, `StorageProofs`, `SoundDeviceBackendProofs`, `AudioCaptureProofs` | theorems | extend the module they are about; `PiRuntimeProofs` also extends `PendingFlowProofs` and instances `PushToTalkProofs` |
| `MC...` | instances for TLC | extend the module they check |

How state and actions correspond to the code: each variable is the field, local
or thread position named beside its declaration; each action is one critical
section, one call that may block, or one access another thread can see. The
`map` in `PROJECT.json` gives the lines of every definition. In detail:

- **PendingFlow.** `recorder` is the position of the push-to-talk worker inside
  the flow's callbacks, `worker` that of the pool thread inside `_process`,
  `step[c]` that of an HTTP thread inside `confirm` or `cancel`. A `with
  self._lock` block is one action. The gateway's lock is held by the client
  whose `step` is `execute` or `clear`. The PC is the choice among
  `AnswerAccepted`, `AnswerRejected` (with the classification's three kinds and
  the unexpected case) and `SenderRaised`. An operation id stands for a fresh
  uuid4, `ForeignId` for one from before a restart. `undeleted` keeps the files
  whose deletion the operating system refused.
- **PushToTalk.** `TakeEvent` is one iteration of `_run` up to the first call
  that may block. `start()` and `stop()` are the intervals between two actions,
  in which edges, timers and `close` are free to happen, and which need not end:
  `CaptureReturns` are the steps that end them, and they have no fairness.
  `StopEscapes` is an exception of `stop()` that `_finish` does not catch.
- **PiRuntime.** The callback steps of the two modules are joined into one step
  (`AskFlow`, `Report`); all other steps of one part leave the other unchanged.
  `NoRecordingOverDecision`, `ShutdownIsComplete` and `ControllerContract` are
  about what neither part can promise alone. `runtime` goes on where
  `controller.close()` raised: `aborted`, until `main` closes the client;
  `exiting`, in which the interpreter refuses new jobs (`ExitBegins`), waits for
  the pool (`JoinPool`) and for every other thread; `ended`. The controller's
  worker may leave the capture at any moment of it, so its recording is still
  sent, fails at the closed client (`SendEnds`), or is refused by the pool,
  abandoned and deleted.
- **AudioCapture.** `caller` is the position inside `start` or `stop`; every
  `join` or `wait` with a timeout has both outcomes. `backend.stop` is two steps,
  `CloseQueue` and `AbortStream`, because only the first is sure to return.
  `SpawnFails` is a `worker.start()` that raises. At most one capture worker
  lives (`BackendIsFree` shows that this abstraction is right: a worker is
  spawned only when none lives). `damaged` records the sessions that lost audio.
- **PcmBuffer, SoundDeviceBackend.** A recording, its buffer, its stream and the
  stream's thread have the number that `_generation` had in their `start()`.
  `call` and `step` are the call in progress and the position inside it: the
  backend's methods are called by one thread at a time, which `BackendIsFree` of
  `AudioCapture` shows for `start` and `close`. `thread[s]` is the position of
  PortAudio's thread of stream `s` inside `_on_pcm` or `_on_finished`, with the
  buffer it fetched: between the generation check, the read of `_pcm` and the
  call on the buffer everything else may happen. `reader` is the capture worker
  inside `read()`; `get` is two actions because it takes an item outside the
  lock. `leaked` are the streams whose `close()` raised, and whose threads may
  live on. What arrives twice, too late or after a failure is told apart by
  `offered`, `received` and `ended`, which no guard reads.
- **Storage.** `pc[c]` is what process `c` is doing on its connection, `view[c]`
  the database as its transaction sees it, `lock` the process between BEGIN
  IMMEDIATE and its COMMIT or ROLLBACK. One action is one statement. `Raise`
  takes the exception out of the block, `Rollback` is the `except` branch,
  `CommitFails` the COMMIT outside it; `StatementFails` may have lost the
  transaction already, so that ROLLBACK raises as well; `Die` happens anywhere.
  `release[c]` is the tuple MIGRATIONS of the code the process runs, so that
  histories of an older, a newer or a diverging release meet `CheckHistory`.
  The catalog's own writes, which nothing implements yet, are external.
- **OperatorPage.** The code between two `await`s is one action. The phases
  `recording` and `processing` are one phase, since the page renders them alike.
  `clicked` is history: the card that was on screen at the click. `PostedId` is
  the id in the request, which `resolveOperation` reads at the click and sends
  after whatever polls the queue holds.
- **ProductCatalog, Interpretation.** `Normal` maps spellings to words as
  `normalize_attribute` does, whose text is the same on both sides and which is
  one function here; the match over it is two operators, `Identifies` of the Pi
  and `PcIdentified` of the PC. A catalog file is a sequence of entries, of which
  the PC ignores ids and units. `pi` and `pc` are the positions of the two
  sides, so that a timeout leaves the PC working. A draft is any JSON value, in
  which only what the code tests is told apart; the schema the language service
  is given is not relied on. A service result or payload that is no object, or
  is of another version, comes from `OtherAnswers`. Reasons and codes are kept
  per branch of the code, except that the vocabulary reasons of
  `validate_structure` are one reason, `structure`, and the product ones
  another.

## 3. Runs

| Run | Instance | States | What it shows |
|---|---|---|---|
| `flow_core` | 2 clients, 2 recordings, failing deletions | 398,603 | the cycle is consistent, implements `OperationCycle`, leaves PROCESSING and closes |
| `flow_stale_abandon` (violated) | 1 client, 3 recordings | | a job whose cleanup fails drops the next recording to IDLE; its late answer can then be offered during the third |
| `ptt_core` | 3 presses | 83,348 | controller and application agree, calls are in order, timers cut only their own recording, recordings reach their `stop()`, SHUTDOWN arrives unless the capture hangs |
| `ptt_stop_escapes` (violated) | 1 press | | an OSError of `stop()` kills the worker in RECORDING |
| `runtime_core` | 1 client, 2 presses | 3.11 million | the composition keeps the contract between controller and flow; shutdown is complete, also when `controller.close()` raises |
| `backend_core` | 3 generations, 2 slots, 3 blocks | 336,025 | a recording is read whole, recordings do not mix, the sentinel fits, reads are released |
| `page_core` | 3 operations, 2 lost requests | 44,640 | decisions go to the card clicked; the page catches up |
| `page_stuck` (violated) | 1 operation | | a card stays on screen with both buttons disabled |
| `capture_core` | 4 sessions, failing file system | 6,131 | the backend is never shared; published audio is whole; calls are honest |
| `capture_orphan` (violated) | 2 sessions | | a late `backend.start()` leaves an orphan for ever |
| `storage_core` | 2 processes, 3 releases, 2 products, 3 units of work | 2.46 million | the file behaves as the abstract store; schema and history agree; open connections are migrated; answers are true |
| `interpretation_core` | 9 catalog files, 2 attributes, 6 texts | 229,296 | accepted operations are the ones meant; rejections are of the stage that caused them |

The violated runs each state a sentence of the documentation that the code does
not keep; the findings in `PROJECT.json` quote it.

**Bounds, and why they are enough.** Two clients are all the gateway's lock can
tell apart: one holds it, another waits, retries or contradicts. Two recordings
give an old job beside a new cycle and a remembered resolution beside a pending
operation; three, in `flow_stale_abandon`, leave room for a job, the next
recording and one more. Three presses reach a timer that fired in the first
recording and is handled in the third. Three generations are a recording whose
stream is leaked, the next one, and a close or start after it; two slots and
three blocks fill the queue and overflow it, or split between two streams. Two
processes are a migration and its rival, or a writer and a victim; more would
wait for the same lock. The releases are an old one, its successor and a fork of
it, the longest migration has two statements, and the units of work hold two
products, a second item that is refused after the first was inserted (quantity 2
exceeds `MaxInteger`), and a negative quantity. Four sessions let an orphan of the first
outlive refused starts and meet later recordings. The page needs an operation on
screen, its successor, and one more, with a lost poll and a lost decision.
The catalog files hold two products that share a name, one that is a less specific
version of another, a repeated row, a repeated id and another unit; a second
attribute is what makes a description partial, and the texts include a second
spelling, one of punctuation only and a blank.
The bounds only stop the environment (presses, recordings, blocks, sessions,
losses); no step of the code is guarded by one. Every safety property of a
passing run is also proved for every bound (section 4). Deadlock is checked in
`flow_core`, in `storage_core` and in the page's runs; elsewhere the system may
stop: the controller's and runtime's threads end after `close`, the backend has
used up its generations and blocks or hangs in `abort()`, and the
operator may never press again; in `interpretation_core` one exchange ends.

**Fairness.** Weak fairness is given to threads that were started and to calls
that return: the pool thread (httpx has a timeout, so a send ends), a callback
under way, a `close` under way, the executor of a call that holds the gateway,
the controller's timer threads, its worker outside the capture, the waits and
file operations of the capture's caller, `backend.start()`, the capture worker's
read, a callback of PortAudio under way, the closing of the queue at the
beginning of a `stop()`, and the page's event loop.

None is given to calls into PortAudio on the caller's thread. `AudioCapture.stop`
and `start` run `backend.stop` and `backend.close` without a timeout, and
`docs/architecture/audio-capture.md:367-369` says that they may never return. So
`stream.abort()` and `stream.close()` may hang in `backend_core` and
`capture_core` (`InBackend`), and the controller's `start()` and `stop()` may
hang in `ptt_core` (`CaptureReturns`). What is claimed is what survives that:

- `ReadIsReleased` and `StoppedWorkerExits`: the queue is closed first, so a
  blocked reader and the worker of a `stop()` end whatever `abort()` does.
- `RecordingEnds`: a recording is brought to its `stop()`; RECORDING outlives that
  call only if it kills the worker or never returns. What the exception costs is
  shown by `ptt_stop_escapes`.
- `WorkerExits`: SHUTDOWN reaches the worker, and it ends, unless it is inside a
  `start()` or `stop()` for ever. `controller.close()` then raises after five
  seconds, and the process waits for that thread.

No fairness is given in `storage_core` and `runtime_core`, which state no
liveness, and none to the operator: nobody must press, release, confirm, cancel
or close.

## 4. Proofs

All theorems hold for every value of the constants that satisfies the named
assumptions of the modules (bounds are natural numbers, switches are Boolean;
nothing is assumed about the clients, not even that they are finitely many).

- `PendingFlowProofs`: the abstract cycle applies an operation at most once
  and never applies a cancelled one (`CycleIsSafe`); of the flow itself,
  types, the job count, phase and slot, at-most-once effects, truthful replies,
  settled operations, the owner of PROCESSING, the refinement `Spec => CycleSpec`;
  and, from a second invariant, the files, the operation that is offered and,
  where no deletion is ever refused, that a cycle leaves PROCESSING only by its
  own answer (`OwnAnswerEndsProcessing`: what `flow_stale_abandon` refutes holds
  but for refused deletions). `FlowWindsDown` is the safe half of
  `ProcessingEnds` and `CloseReturns`: a measure, `WorkLeft`, that every step of
  the pool thread and of a callback lowers and only a new recording raises.
- `PushToTalkProofs`: types, the agreement of controller and application, the
  order of the calls to the capture, that only its own timer cuts a recording,
  that a clean shutdown leaves nothing behind, and that every press on its way
  to the worker has its release behind it (`ReleaseAhead`). Its `IInv` adds where the
  worker can be for each pair of controller and capture state, that an armed
  timer belongs to the current recording, and that every timeout event in the
  queue is of a timer that expired.
- `PiRuntimeProofs`: the wired process is a `PendingFlow` (`RuntimeRunsFlow`) and
  a `PushToTalk` (`RuntimeRunsController`), so that every theorem about either
  holds of it, and it implements `OperationCycle` (`RuntimeImplementsCycle`); the
  microphone is never open over a decision, and a shutdown is complete.
- `OperatorPageProofs`: the target of a decision, the buttons and the failure
  text, for every number of operations and of lost requests.
- `InterpretationProofs`: of the matching rule, that a checked catalog has no
  product covered by another, saying more never changes the product, spelling
  does not matter, and that the PC's match finds a description unique in a file
  exactly when the Pi's identifies it in one with equal rows
  (`SameRowsSameVerdict`); then accepted operations and rejections, for every
  pair of catalogs, every draft and every payload of another program. `IInv` says what
  a reply can hold at each position of the PC and that the envelope is either
  the client's own failure or what it read from the reply; the outcome is then
  followed back through the stages to the draft, and `SameRowsSameVerdict`
  carries the PC's verdict on the product to the Pi. Nothing is assumed about
  catalogs beyond what the two loaders check.
- `SoundDeviceBackendProofs`: types, `SentinelFits`, `ReadIsWhole` and
  `RecordingsDoNotMix`, for every capacity of at least one and every number of
  generations and blocks (`CapacityAssumption`, `BackendAssumption`).
- `AudioCaptureProofs`: `BackendIsFree`, `PublishedIsWhole`, `ErrorsAreOwn` and
  `CallsAreHonest`, for every number of sessions.
- `StorageProofs`: types, the schema and its history, open connections, truthful
  answers, the refinement `Spec => StoreSpec` and, through it, that the stock can
  always be read. `StorageAssumption` only gives the constants their types; the
  releases may share any prefixes, or none.

The argument of `SoundDeviceBackendProofs`. `ControlInv` says at which steps of
a call, and with which values of `_pcm`, `_stream` and the reader, the backend
can be. `BufferInv` ties a buffer's queue to its depth and its sentinel: the
blocks in the queue and the one in the reader's hand are what `depth` counts, the
sentinel is last, and a failed buffer is closed. `WholeInv` relates the buffer to
what was offered. `OwnerInv` says that a stream whose thread lives, and which was
not leaked, is the one in `_stream`: therefore a callback that holds a buffer
holds its own recording's, unless its stream was leaked. `MixInv` counts: a
leaked stream has at most one callback past the check, so its only late block is
either in its hand or already in one buffer.

The argument of `AudioCaptureProofs`. `FreeInv` says at which steps of a call no
worker lives: `JoinWorker` is the only way past a living one. `SessionInv`
numbers the sessions upwards, so that an orphan's number is never that of a
later recording. `RecordingInv` says what a recording under way has: its own
worker, its open file, and an error in its fields for every block that was lost.
`ErrorsAreOwn` closes the circle, because the fields are cleared only when no
worker of an earlier session is left to write them.

The argument of `StorageProofs`. `LockInv` puts the lock in one transaction at a
time. `MigrationInv` (`SchemaUpTo`) says that the view of a migration is the
schema of its history and the statements done so far, `UnitInv` (`CreatedSoFar`)
that the view of a unit of work is what the finished items make of the disk,
each of them a creation that the abstract store would allow, and one more part
that a refusal is still true while it is on its way. A COMMIT
then maps to `Migrate` or `CreateRecords`, and every other step but
`CatalogStatement` to a stutter.

The argument of `PendingFlowProofs`. None of the safety invariants is inductive
alone. `IInv` adds what the code relies on without saying it:

- `CountInv`: the job count is the number of recordings in the three places
  that hold one, and every stored operation used up a recording that is past its
  answer. The first makes `jobs - 1` a natural number, the second keeps a fresh
  identifier inside its type.
- `SlotInv`: phase and slot agree, one client is inside the gateway, and while
  it is there the operation it decided about stays in the slot. No flow thread
  can disturb that, because all of them act only on an empty slot.
- `LedgerInv`: the effect of a pending operation is applied only by the client
  about to clear it; operations not yet stored have no effects.
- `LastIsTruthful` and `RepliesAreTruthful`: the remembered resolution, and each
  answer given, is what the ledger says.

Frame lemmas say what each kind of thread leaves alone, so that the step lemma
splits into the flow's threads (which only fill an empty slot) and one client.
The refinement step and `SlotSettled` follow from `IInv`; `ProcessingOwned`
is inductive together with it.

`HandledInv` is the second inductive invariant, about recordings. `OrderInv`: the
caller's recording, the queue and the job of the pool thread are different
recordings in the order in which they were made. `UploadInv` and `HeldInv`: each
of them still has its file, which only its own cleanup deletes. `FreshInv`: while
no deletion was refused, a recording whose answer is still to come is the
current one. That condition is the code's: after a refused deletion
`_process` abandons whatever cycle is in PROCESSING, and with three recordings
the second one's operation can then be offered during the third. It is the
finding of `flow_stale_abandon`.

The argument of `PiRuntimeProofs` is assume-guarantee, made an induction.
`RuntimeInv` holds the invariants of both parts, taken over by their own step
lemmas: each step of the process is a step of the flow, with no condition, and a
step of the controller as long as the flow answers as `PushToTalk` assumes of its
application. The latter needs what joins them. `RecorderInv`: the flow's recorder
is inside the callback the controller is in, so no job is ever submitted from
elsewhere, and it is on the flow's refusal path only while the interpreter exits.
`ClosingInv`: how far each part was closed at each step of `close()` and of the
exit. On the orderly way the flow starts closing when the controller's worker is
gone, so a worker that still reports finds the flow open; that is why the order
in `PiRuntime.close` matters. On the other way only `_python_exit` shuts the
pool (`OnlyExitShutsPool`), and once the pool has drained, whatever the worker
still delivers is refused, abandoned and deleted by the worker itself
(`DrainedStays`); the process ends after the worker does, so nothing is left.
The microphone is open only
in the controller's RECORDING, which is the flow's RECORDING by the agreement of
the two, in which the slot is empty and the gateway idle.

The argument of `OperatorPageProofs`. `TaskInv`: one task of the page's promise
queue runs and at most one waits, and a decision is under way from the click to
the arrival of its own answer. `ButtonInv`: the buttons are off for as long, also
when a poll that had begun before the click renders in between. `AnswerInv`: an
answer under way never names an older operation than the page shows, because
polls do not overtake one another. `TargetInv` is `CardIsDecided`'s argument: the
id read at the click is the clicked card's and stays so until the request is
answered, whatever is rendered in between. With it, a card on screen is then
that of the operation being decided or of a newer one; and a server that refused
to execute still held the operation, so the card is its own (`RefusalInv`). That
is what keeps a failure text off another operation's card.

Only model-checked: the liveness properties (`ProcessingEnds`, `CloseReturns`,
`RecordingEnds`, `WorkerExits`, `ReadIsReleased`, `StoppedWorkerExits`,
`PageCatchesUp`), which need fairness and so ENABLED; the prover has no rules
for either. The properties of the violated runs are refuted on small instances,
which is all a refutation needs.

## 5. What is not modelled, and why

- The text route of the server and its client, which the Pi does not use; the
  speech and language services, whose answers are arbitrary. `PendingFlow` takes
  every outcome of `Interpretation` as possible at any time.
- The Whisper adapter of the Pi, around a native library, which nothing wires.
  `main.py`, `manual.py` and the scripts for integration tests, benchmarks and
  deployment: argument parsing and printing around the components above.
- SQLite and PortAudio are modelled by what the code relies on. SQLite: one
  writer at a time, a killed process's transaction is gone, the write-ahead log
  is in effect (`database.py:82` asks for it and does not check the answer), and a COMMIT that fails has been rolled back by SQLite itself
  (the code does not: COMMIT is outside the `try`). PortAudio: a stream's
  `abort()` and `close()` return once its thread has ended, unless they raise.
- Which device matches the configured query is one choice, found or not. So are
  the checks of the database's path: it opens or it does not.
- `create_stock_record` is modelled inside `transaction()`, as its module asks. In
  autocommit, a catalog change between its look-up and its insert (`stock.py:46`)
  can make its answer untrue; no property covers that use.
- An executor that raises is taken to have had no effect, as `gateway.py:79-80`
  does. One that raises after applying would be confirmed and applied again.
- A thread that cannot be started leaves `AudioCapture` in RECORDING
  (`SpawnFails`), while `PushToTalk` takes any failed `start()` to leave the
  capture idle. The controller goes on as it does there: each further `start()`
  raises, which is one of the outcomes of `CaptureDoesNotStart`.
- Where `stop()` or `start()` hangs, the process does not end: that is allowed, not
  excluded, since nothing in the process could force the native call to return.
- A second interrupt inside `PiRuntime.close`, which would leave it at any
  statement. Normalisation of attributes is one function for both sides; its two
  copies are compared by reading.
- Wording, logging, HTTP codes, schemas, settings, timestamps.

## 6. Plan

Built, in order of importance: the cycle and its gateway; the controller; their
composition; the capture and the page; the path of a recording through the PC to
the validator; the database against its abstract store; the backend with its
callbacks; the proofs of every safety property the runs check. What is left:

1. The safe half of the other liveness arguments, as `FlowWindsDown` is of the
   flow's: a measure for the controller's worker, for the capture's calls and for
   the page's promise queue.
2. `AudioCapture` composed with `SoundDeviceBackend`, in place of its own small
   model of the backend; today each states what it expects of the other.
3. The start and the close of the PC's shared HTTP client in `Interpretation`.
4. The executor of a confirmed operation, once `main.py` wires it to the
   database: `PendingFlow` and `Storage` then meet.
