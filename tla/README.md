# VibeNote: specifications, model checking and proofs

VibeNote is two programs. The daemon (`daemon/src`) watches the desktop, reads
text off the screen, has a local llama.cpp server enrich it, stores notes in
SQLite and serves them over HTTP. The GUI (`app/src`) shows them and asks
questions through the daemon. This directory holds TLA+ models of the parts of
both that keep state, the configurations that check them with TLC, and theorems
about them that TLAPS checks for every value of the constants.

## 1. Inventory

| Component | State it keeps | Operations | What is hard about it |
|---|---|---|---|
| Task queue `queue.cpp` | three deques, slots used per type, id to type map, pause flag, rotation index | `enqueue`, `dequeue`, `taskCompleted`, `setPaused` | worker threads on one mutex and one condition variable; a predicate that reads another object's atomics; priorities, rotation and per-type limits together |
| GPU guard `gpu_guard.cpp` | last NVML sample in two atomics, throttle flag, timer | `initialize`, `pollGpu`, `canAcceptWork`, `calculateOptimalNgl` | written on the Qt thread, read by workers without a lock; hysteresis; NVML may fail at any poll |
| llama.cpp client `llama_client.cpp` | socket, reconnect counter and timers, server process, callbacks, parser buffer | `connectToServer`, `spawnServer`, `restartWithNgl`, `streamCompletion`, `stopGeneration`, socket slots | timers, errors and closes in any order; overlapping streams; 32-bit backoff; a server that is ended while the socket is connected to it |
| Note store `sqlite_store.cpp`, `schema.sql` | the database, its version, prepared statements | constructor, `insertNote`, `queryNotes`, `insertWindowEvent`, `vacuum`, `getStats` | killed half-way through the schema; several daemons on one file; what SQLite keeps per connection is shared by the threads |
| CSV export `export_csv.cpp` | stream, device, byte count, part number | `exportCsv`, `exportStructuredPrompts` | buffered text against a device that is closed and reopened under it; quoting |
| HTTP server `http_server.cpp` | routes | `start`, `stop`, one handler per route | asynchronous calls behind synchronous handlers |
| Daemon start and shutdown `main.cpp` | what has been acquired so far | `main`, signal handlers, `aboutToQuit` | many failure paths; signals at any moment |
| Overlay, API client, metrics view `app/src` | loading flag, answer, replies on their way, history | `submitQuery`, `toggleOverlay`, `requestAiAnalysis`, `refreshMetrics`, reply slots | replies in any order, failed, or meant for another caller |
| Settings store `settings_store.cpp` | cache, file | `load`, `save`, `setValue`, `remove`, `clear`, destructor | crash during a save; two processes on one file |
| OCR engine `ocr_tesseract.cpp` | handle, mutex | `initialize`, `process`, `shutdown` | what each failure path frees |
| Frame capture `frame_diff.cpp`, `screencast_portal.cpp` | a flag | a sum over pixels | little: the portal session is not written yet |
| Configuration, logging, metrics, window watcher, enrichment, JSON and raw exporters, Paddle OCR | none | none | one-line placeholders |

How they interact. The guard's throttle signal is a direct call of the queue's
`setPaused` (`queue.cpp:87-89`), and the queue's wait predicate calls the
guard's `canAcceptWork`. The HTTP server calls the store, the exporters and the
llama client. `main` constructs all of them in an order, each step with a
failure path. The GUI reaches the daemon only by HTTP; its parts share one
`ApiClient` and hear from it by signals.

What makes each correct: the queue loses and doubles no task, keeps its limits
and loses no wakeup; the guard never lets over-use pass and never stays shut
without reason; the client finds its server again and brings tokens to the
callback that asked for them; the store opens, and never calls a partial schema
complete; an export can be read back; the start and the end release what they
took; the GUI shows the answer to the question asked; settings survive.

## 2. The source as it stands

The models translate the `.cpp` files, line by line as `PROJECT.json` maps
them. Some of the repository does not fit together yet, and the models had to
choose:

- Headers and sources disagree (`queue.h` does not exist, `main.cpp:97-98`
  connects signals that the guard does not have). The sources are taken as the
  reference. `queue.cpp:88` subscribes to `throttleStateChanged`,
  `gpu_guard.cpp` emits `throttleRequested`; they are taken as one signal,
  delivered by a direct call, which is what both files are written for.
- No code of the daemon calls `enqueue` or `dequeue`. The clients modelled are
  the producer and worker loops of `tests/daemon/test_queue.cpp`.
- The statements that `sqlite_store.cpp:123-137` prepares do not fit the tables of
  `schema.sql`, and one of them has a parenthesis too many: the constructor of
  the store throws on every start. The models of what comes after it
  (`NoteStore`, the later stages of `DaemonLife`, the HTTP server, the exports
  of stored notes) are the program once the two agree; nothing that they check
  depends on the names of columns.
- The llama server that the client starts is the one vendored in
  `third_party/llama.cpp`, and it streams in a form that the client's parser
  does not read. That is modelled as it is; see `LlamaStream`.
- `main.cpp:95` never calls `initialize` on the guard, whose constructor leaves
  it refusing everything. The models let `initialize` be called.
- `1 << attempts` times 1000 overflows a signed `int`. The multiplication is
  taken to wrap, which is what the instruction does; the counter is modelled up
  to 31, where the shift itself would be undefined.

## 3. Modules

One module per component, constants with named assumptions, one action per
handler, invariants as conjunctions of named parts. A definition marked
`\* mutant` is a plausible bug that replaces the definition after it when the
project tests its own properties (`PROJECT.json`, "mutants").

| Module | Models | Composes |
|---|---|---|
| `Dispatcher` | what the queue promises: bounded, first come first served in a priority and type, high first, limits; one lane for each priority, no mutex, books or rotation | |
| `TaskQueue` | `queue.cpp` | implements `Dispatcher` |
| `GpuGuard` | `gpu_guard.cpp` | |
| `DispatchControl` | the queue and the guard as they call each other | `TaskQueue`, `GpuGuard` |
| `LlamaConnection` | connection, reconnection, `spawnServer`, `restartWithNgl` and the server process | |
| `LlamaStream` | completions over one connection, to the server of `third_party/llama.cpp` | |
| `HttpServer` | `http_server.cpp` on the same `LlamaClient` | extends `LlamaStream` |
| `GuiClient` | overlay, metrics view, API client | |
| `SettingsStore` | settings of the GUI, several processes | |
| `StoreOpen` | constructor of the note store, several daemons | |
| `NoteStore` | writes of the open store, several threads | |
| `DaemonLife` | `main.cpp` | |
| `Daemon` | puts the three together for one run and one module of proofs | extends `DaemonLife`; `StoreOpen`, `NoteStore` |
| `CsvExport` | both CSV exports, and a reader of RFC 4180 | |
| `TaskQueueProofs`, `GpuGuardProofs`, `DispatchProofs`, `LlamaConnectionProofs`, `HttpServerProofs`, `GuiProofs`, `DaemonProofs`, `CsvExportProofs` | theorems (`GuiProofs` about `GuiClient` and `SettingsStore`) | |

`MC*` modules give the constants of a run. Three of them join specifications
that share no variable (`MCLlamaClient`, `MCGui`, `MCDaemon`): `part` is chosen
at the start, the steps are those of that part, and the variables of the others
keep an initial value. A behaviour of the run is then one of one part, and each
part has all of its behaviours, so that a property of one part is checked as it
would be alone.

### TaskQueue
`queues` is the three `std::deque`s, `running` and `inflight` the maps of the
same names, `rrIndex` is `rr_index_`. Every member function holds the mutex
throughout and is one action, but for two places where the code lets go:
`cv_.wait` inside `dequeue` (a worker tests the predicate in `DequeueTakes` or
`DequeueBlocks`, and may be woken in vain by `SpuriousWake`), and `setPaused`,
which notifies after unlocking (`SetPaused`, then `SetPausedNotifies`).
`notify_one` wakes any one sleeper. `accepts` is what `canAcceptWork` would
return now; it changes at any moment and notifies nobody (`GuardChanges`). A job
is one `Task` object; a producer submits it again once it is done. Two history
variables: how often a ready class was passed over, and whether the guard
refused a worker since the last `notify_all`.

Ids default to 0 and nothing makes them unique, while `inflight_` is keyed by
them (`queue.cpp:110`). The limits hold for unique ids only: `LimitsHold`
assumes `UniqueIds`. With two live tasks of equal id and different type,
completing one releases the slot of the other's type, and a type can run more
tasks than its limit (`tests/daemon/test_queue.cpp:172-174` submits such ids).

### GpuGuard
The poll runs on the Qt thread; `canAcceptWork` reads `m_utilization` and
`m_vram_free` at any moment, so the poll is four steps: store the utilization,
store the memory, decide, emit. `PollFails` is either NVML query failing.
`calculateOptimalNgl` only reads and is an operator on the state. Release needs
`utilization < threshold - 10` (`gpu_guard.cpp:107`): with a threshold of 10 or
less, which `daemon/openapi.yaml:319-322` allows, a throttle is permanent, and
`Released` says so by its premise. `per_layer` is rounded down, so the
headroom, "Reserved VRAM" in `README.md:372`, is used by up to a megabyte for
each layer; `OvercommitBounded` gives the bound.

### DispatchControl
Instantiates both, the listener of the guard being the queue's `paused`. A
worker tests the predicate in two steps, one for each of the loads of
`m_utilization` and `m_vram_free`, and holds the mutex from the first to the
second; the guard's stores need no mutex, its signal does. The load of
`m_nvml_available` is made with the first: if that flag is true and falls
between the two, no utilization is stored after its fall, so both loads are
those of the moment before it; if it is false the utilization is not loaded.
Each pair of loads is then one that some single moment gives, and nothing is
lost. `DispatchBacked` is the reason the other split matters: a worker that
mixes the utilization of one sample with the memory of the next does not
dispatch on a combination that was not good at some moment, because a bad
sample throttles and the throttle must take the mutex first. There is one
exception, which the property names (`early`): a test that loads the
constructor's utilization, 0, and then the memory of the first sample passes
with whatever utilization that sample has, as nothing is throttled yet. The
models follow the loads in program order; what a relaxed load may see of an
older store beyond that is left out. `unsignalled` remembers a refusal
that no throttle precedes or follows: on values from before the first poll, or
at the one utilization that `pollGpu` and `canAcceptWork` judge apart.
`StrandedOnlyUnannounced` says that nothing else strands work.

### LlamaConnection
One event handler with the signals it emits is one action. The model keeps the
socket state, the number of armed single-shot timers, the counter, the pass of
`spawnServer`, whether `server_process_` runs, and `serving`: who accepts
connections, nobody, that process, an earlier one that lingers, or a server of
somebody else. `stale` says that the other end of the socket is gone and the
socket does not know. Facts of Qt used: `connectToHost` on a socket in use emits
an error, a negative `singleShot` never fires. The delay first becomes negative
at attempt 22, after which nothing tries again.

`spawnServer` asks an old process to end and, after five seconds, leaves it to
`deleteLater`, which acts only when the event loop runs again; `restartWithNgl`
(`llama_client.cpp:88`) kills it. Both may then find the socket still connected
to the server they ended, and report success for a connection that is gone.
`SuccessIsReal` says that this happens only to a caller that was connected or
left an old server alive (`excused`); `Recovers` says that the new server is
found later all the same. Left out: an old process that was asked to end before
it accepted its first connection is taken to end.

### LlamaStream
Callers on other threads register a callback and write a request; the server is
the one that the client starts, `third_party/llama.cpp/tools/server`; the event
loop appends what the socket has to `buffer_` and cuts it at empty lines. The
wire is a sequence of fragments, as much as the parser can tell apart: a header,
the line with the size of a chunk, the beginning of an event (`data: `) and its
end with the empty line, and the last chunk. The buffer is empty, holds one
event from its start, or is dirty.

A streamed completion is sent through `set_chunked_content_provider`
(`server.cpp:4432-4464`): its HTTP library puts the size of the chunk in front
of each event (`httplib.h:4735`) and CR LF behind it. `onReadyRead` parses
neither header nor chunks, so what it finds in front of each empty line does not
start with `data: `, and is skipped (`llama_client.cpp:168`), `[DONE]` as well.
The ids in the events are the server's own (`server.cpp:4320,4397`), never the
one that `streamCompletion` sent. So no event is taken for one
(`EveryEventSkipped`), no callback is called (`NeverCalled`), and none is ever
released (`CallbacksStay`): each completion leaves one in `callbacks_` for as
long as the client lives. These hold however connections, closes and requests
follow each other, although the buffer outlives a connection. Their mutants are
an event without its chunk, and an event as the client was written for, without
a chunk and with the client's id.

`QTcpSocket` keeps what is written while it connects, and drops it when it does
not (`Sent`). `stopGeneration` is one more request, for a path the server does
not have; a plain response ("File Not Found", or an error instead of a stream)
has no empty line in the parser's sense. After a stream the server closes the
connection. Left out: an event without text at the end of a completion, and the
`error: ` that may end one, which are framed and skipped as the others.

### HttpServer
QHttpServer calls the handlers on the main thread, which is the thread of the
socket. `handler` is the completion whose handler runs; while it is set the
event loop of `LlamaStream` stands still, and callers on other threads and the
llama server go on. The handler of `/v1/summarize` is three steps: register,
write, answer. Its callback refers to a local variable and would write to what
is gone if it were called later; `NeverCalled` says that it is not. `Routes` is
the order of registration: the route for `/v1/config` without a method comes
before the one for PUT (`http_server.cpp:165,171`) and takes its requests
(`ServeConfig`). The constructor may be given null pointers, `main` passes none;
both are initial states. The handlers of the other routes read a component and
answer: nothing changes.

### GuiClient
A reply reaches a slot of `ApiClient`, which emits a signal naming neither call
nor caller. Two consequences are in the model and excepted by name in the
properties: the answer to an analysis of the metrics view is displayed as the
answer of a query that is loading (`crossed`; from then on the overlay may take
each reply for that of the next query), and a failed call leaves the overlay
loading, so that it refuses every later query (`failed`;
`overlay_controller.cpp:45`, `api_client.cpp:106`). What the properties say is
that nothing else leads there. The history of the metrics view keeps the last
100 values; `HistoryIsLatest` compares it with all that came since it was
cleared, while calls overlap, fail and are answered after a clearing.

### SettingsStore
A save is two steps, truncation and write. `interrupted`, `overlapped` and
`raced` record the conditions under which the code loses settings: a process
killed in between leaves an empty file and the next start has no settings at
all; of two processes, the one that exits last overwrites what the other saved
(`settings_store.cpp:28,42`; nothing in `app/src/main.cpp` prevents a second
process). Process crashes are modelled, power loss is not.

### StoreOpen and NoteStore
Daemons execute the statements of `schema.sql` one by one. The statements have
no `IF NOT EXISTS`, so a daemon that finds any object of the schema stops there
with an exception: every second open of a database fails. A lock, a full disk or
lack of memory may refuse any call up to the last (`Refused`); a step of
`PRAGMA user_version` without a row counts as version 0. Checked is that the
version is never set on a partial schema, and that a daemon that found a part of
one never gets past it.

Of the two statements to prepare the model keeps what SQLite checks: table,
columns and parentheses. The insert into `notes` names `text` and
`enriched_text` (`sqlite_store.cpp:125`), where the schema has `raw_text` and
`enriched_summary`; the one into `windows` names `id` for `window_id` and has a
parenthesis too many (`sqlite_store.cpp:132-136`). So the first open fails as
well, after it has created the schema: `StatementsPrepared`, the documented
behaviour, is violated.

`NoteStore` is the open store: several threads, one mutex, one prepared
statement each for notes and windows. The bound values and
`sqlite3_last_insert_rowid` belong to the connection. A foreign key that is not
there, a lock or a full disk make a step throw. `OwnRow` says that the id
`insertNote` returns is that of its own row.

### CsvExport
A text is a sequence of character classes (`Chars`), one byte each; the byte
order mark and the header are symbols of their own. `QTextStream` holds text back
and may hand it on at any time, as a whole or up to the end of the line; a file
holds back the mark until it is flushed (`kept`).
`escaped.replace('"', """")` (`export_csv.cpp:14`) is to the compiler two
empty literals side by side, so quotes are deleted and not doubled. That is not
RFC 4180 (`FieldsKept`, violated), but `RowsReadBack` says that it is all that is
lost: rows and fields keep their shape.

A write to a file may fail or be done in part (`WriteFails`), and the code does
not look. The stream then writes no more, the file may try again what it was
left with, and the export goes on. If it opens one more part, `setDevice` clears
the status of the stream but not its text: a row may be missing, or stand
between the mark and the header of the new part (`SplitAfterFailure`, `hole`).
Up to then a reader finds the first rows and no broken one (`AlwaysAPrefix`).
The caller is told nothing, as when a part cannot be opened.

Left out: the names of the parts, which are `_part1`, `_part2` and so on next to
the first file (parts of a longer, earlier export stay); and that `setDevice` may
reset the codec that was set before. The one caller in the repository passes a
`QBuffer`, which is never split and does not fail. `written` begins with the
three bytes of the mark, so `SplitAtLimit` speaks of limits from there on
(`CsvAssumption`); the code has 10 MiB.

### DaemonLife and Daemon
The steps of `main` with their failure paths, five attempts to connect, the
signal handlers, the loop, `aboutToQuit`, the destructors. A signal may come at
any moment. Before the handlers it kills the daemon and leaves the llama server;
between the handlers (`main.cpp:138`) and `exec` (152) its `quit()` has no
effect. (That `quit()` is not async-signal-safe is outside the model.) In the
loop a handler may throw, `queryNotes` being the one that can
(`HandlerThrows`): nothing catches it, and the daemon is aborted.

The step that opens the store succeeds or throws; what goes on in it is
`StoreOpen`, and with the files as they are it always throws. The stages after
it are the daemon once the store opens. `Daemon` only puts the names of
`DaemonLife`, `StoreOpen` and `NoteStore` side by side: they share no state, the
database excepted, of which `main` sees nothing but the outcome.

## 4. Runs

| Run | Question | Bounds, and why they are enough |
|---|---|---|
| `queue` | books, limits, rotation, wakeups, refinement of `Dispatcher`, nobody starves | 3 workers, 4 jobs in all three deques, 2 types with limits 1 and 2 and one type without a limit entry, depth 3: the queue fills, every class competes for a slot with another, one worker sleeps while another is being woken; every task may be submitted again for ever, so that each class always has a rival |
| `guard_poll` | throttle, fail-stop, layers | threshold 85, headroom 800; utilizations on both sides of 75 and 85, free memory on both sides of 800 and of one, two and three megabytes a layer; all models to 130 MB |
| `dispatch` | queue and guard together | 2 workers, 2 jobs, 1 slot; a sample below, at and above the threshold, with and without memory |
| `dispatch_stranded` | the one refusal nobody announces | the same, two samples (expected to be violated) |
| `llama_client` | reconnection and restart; what becomes of a completion | the real delays and the real 30 passes, counter to 31, 4 calls or closed connections, enough for chains to overlap and for a restart on top of a lingering server; 2 requests, of the HTTP server or of other callers, 0 to 2 tokens, 2 closes: two streams one after the other on one connection or on two, the second on what the first left in the buffer |
| `http_summary` | the text of a summary | the same (expected to be violated) |
| `http_config` | whether a PUT of the configuration updates it | the same (expected to be violated) |
| `gui` | the overlay's answer, the metrics history, settings kept | 2 queries, 1 analysis, 4 fetches and a history of 2: every order of two calls that cross, two values dropped; 2 processes, 2 keys, 2 faults. Symmetric in queries, processes and keys |
| `csv_export` | exports read back | up to 2 rows of 2 fields of 6 texts, limit 6 bytes instead of 10 MiB: no split, one, two, an empty last part; a failure before, at and after a split |
| `csv_quotes` | fields with quotes | the same (expected to be violated) |
| `daemon` | release, termination, the store | 5 attempts, 2 signals; 3 daemons and 10 objects as in `schema.sql`; 2 threads, 2 windows, 2 notes: two calls that could mix, and a row of each other's id |
| `store_prepares` | whether the store opens | the same (expected to be violated) |

What each run shows, with the number of distinct states TLC visits:

- `queue` (71 654): no task is in two places; no type exceeds its limit and
  `running_` counts exactly the workers at work; a ready class is passed over at
  most once; no wakeup is lost; every step is a step of `Dispatcher`; and
  `HighServed` for each task, `ClassServed` for each class. A single low task of
  a contended type may wait for ever, since `findReadyTask` skips what is not
  ready; the class is what the rotation serves.
- `guard_poll` (2 858): the listener is always told, over-use never passes, a
  lost NVML throttles for good, a quiet GPU is released for good, and the layers
  planned are all that fit, within the stated overdraft.
- `dispatch` (82 916): dispatching is backed by values that held at one moment,
  but for a test begun before the first poll; work is stranded only by an
  unannounced refusal; otherwise it is dispatched.
- `llama_client` (528 492): the client gives up only at the overflow of the
  delay, reconnection chains do not multiply, a server in time is found, also
  after a success that was none, and such a success has one of its two causes; no
  event is parsed, no callback called or released, and no token is read before
  the handler of `/v1/summarize` has answered.
- `gui` (31 932): the answer shown belongs to the last query until an analysis is
  answered in between, and the overlay is left loading with nothing on its way
  only by an error; the history is what came last; one process at a time loses
  nothing outside an interrupted save, and an unreadable file has one of two
  causes.
- `csv_export` (5 492 288): whatever is held back when, as long as no write fails
  rows are read back whole, in order and once; when one does, what is there is
  a prefix until another part is opened; parts end within a row and a header of
  the limit.
- `daemon` (9 249): NVML is shut down once on each return; the llama server
  outlives only an early signal or an exception in the loop; a signal ends the
  daemon; a set version means a whole schema, and a part of one is never
  completed; ids of notes are right.

`dispatch_stranded` documents a disagreement between code and documentation.
`AGENT.md:216` says to "hold new tasks until GPU utilisation drops below the
threshold". A worker that tests before the first poll, when `m_vram_free` is
still 0, is refused and sleeps; the first good sample changes no throttle, so
`pollGpu` signals nothing, and the task waits until something else notifies the
queue. The same happens at a utilization equal to the threshold, where the
guard refuses but does not throttle. `StrandedOnlyUnannounced` and
`DispatchedIfSignalled` show that these are the only cases.

`http_summary` documents another. `AGENT.md:205` says that `/v1/summarize`
"streams the summarised note when ready". The handler (`http_server.cpp:151`)
answers with what its callback has been given by the time `streamCompletion`
returns. That only writes the request, and the tokens are read by the same
thread, so the answer is always empty: TLC finds a completion of one token, which
was read, and whose summary is empty. `NothingArrivesInTime` says, in the run
that passes, that there is no exception; and that the client skips every event
(`NeverCalled`) is a second reason that would remain.

`http_config`: of a PUT of `/v1/config` that is answered with 200,
`daemon/openapi.yaml:262` says "Configuration updated", and `AGENT.md:205` that
the route "reads/updates runtime configuration via Config". The first route of
that path takes all methods, and answers with the configuration as it is.

`csv_quotes`: `AGENT.md:353` asks the export to "respect RFC4180 (comma
separation, quotes and newlines)". TLC writes a field with a quote and reads back
one without.

`store_prepares`: `daemon/src/store/AGENT.md:7` calls the store a "database
wrapper using prepared statements". TLC takes one daemon through the whole
schema on a new database, with nothing refused, to the exception of
`prepareStatements`.

Deadlock is checked except in `guard_poll` (a guard without NVML stops),
`llama_client`, `http_summary` and `http_config` (the client may be gone, and a
stream is done when all requests were made and the connection has closed for the
last time), `csv_export` and `csv_quotes`, `daemon` and `store_prepares`
(programs that end).

Histories are capped where they would count for ever: `skipped` at 2, `polls`
at 1.

### Fairness
Only what threads and event loops give. `queue`: a worker that can test
the predicate does, a worker finishes its task, and the thread inside
`setPaused` reaches its `notify_all`; producers, the guard and spurious wakeups
owe nothing. `guard_poll`: the timer keeps firing and a slot that runs
finishes; NVML need not fail. `dispatch`: both. `llama_client`, of the
connection: timers go off, an attempt to connect ends, a closed connection is
noticed, `spawnServer` goes on and the event loop deletes what it was asked to;
the servers owe nothing, and of the streams only safety is checked. `daemon`:
`main` runs; calls, sleeps and the 3 second wait return; the daemons of
`StoreOpen` and the threads of `NoteStore` owe nothing. The other runs check
safety only.
A premise about the environment (the guard settles, the GPU stays quiet, the
server stays up) is written in the property, never assumed as fairness.

## 5. Proofs

All theorems say that a property holds of every behaviour of a specification, or
that one specification implements another. They are proved for every value of
the constants that the modules' assumptions allow: any number of workers,
requests, processes, daemons, threads, rows, any threshold, any limit. Each
module has an inductive invariant, its initial states, one step per action, and
the implications. Every invariant and every action property that a passing run
checks is a theorem.

- `TaskQueueProofs`. Types and the link between where a worker is and what it
  holds; the depth; a queued job is queued once and held by nobody. For the
  limits the invariant must say that `running` counts the holders of a type and
  that `inflight` knows exactly the ids held, with their types, which needs
  `UniqueIds`; the counting is by the cardinality lemmas of the library. For
  `NoDoubleSkip`: a class that was passed over once is the one the rotation
  probes first. For `NoStrandedWork`: `DequeueBlocks` happens only when nothing
  can run, and whatever makes something runnable wakes somebody or is about to.
  `QueueIsDispatcher` is the refinement. `queues` are the dispatcher's lanes and
  `held` is who is busy. `Enqueue` maps to `Submit`, `DequeueTakes` to
  `Dispatch`, `TaskCompleted` to `Complete`; every other step is a stutter. The
  dispatcher counts the workers that are busy, the queue believes its books, so
  the step rests on `BooksExact` (`FreeIsReady`); that the first ready task of a
  deque is the oldest of its type, and that no high task was in its turn when a
  lower one is taken, are facts about `findReadyTask` and the order of probing.
- `GpuGuardProofs`. The obvious statements are not inductive while a poll is
  under way: the invariant says, phase by phase, what the listener was last told
  and what the decision about to be taken rests on, and that a lost NVML is
  throttled. The two rounded divisions of `calculateOptimalNgl` are proved for
  all sizes from lemmas on quotients (`WholeIfItFits`, `OvercommitBounded`).
  `ThrottleIsSound` and `OnlyMismatch` say when the throttle and
  `canAcceptWork` agree, and `LostForGood` is the safety half of `FailStop`:
  once NVML is lost it stays lost, and a listener that has been told stays told,
  with the guard refusing. No run repeats these three.
- `DispatchProofs`. The composition implements the guard alone and the queue
  alone (`GuardImplemented`, `QueueImplemented`), so that a theorem about the
  queue with an arbitrary guard holds with the real one; of these,
  `GuardedQueueIsDispatcher` says that it is a `Dispatcher` and keeps its limits.
  `DispatchIsBacked` rests on `FailsUnlessAllowed`: a test that has seen no good
  instant, and has not loaded the constructor's utilization, would fail, because
  the queue is paused or a load already made is bad, and the pause outlasts the
  test, since the signal needs the mutex. During the first poll, when there is
  no memory to rely on yet, the loads already made are still the stored values.
  `OnlyUnannouncedStrands` takes from `TaskQueueProofs` that no ready task
  sleeps without a refusal, and adds that every refusal is paused, about to be
  notified, or unannounced.
- `LlamaConnectionProofs`. `GivesUpOnlyLate` from `KeepsTrying`: a client that
  was asked to connect, is not connected and has no timer, has used up the
  delays that are not negative; `DelayAssumption`, 22 values of `Delay`, is
  computed by TLC. `SuccessIsReal` needs that a connection is stale only while
  the socket counts as connected, and what each pass of the loop may rely on.
  `NoReconnectStorm` is one fact about timers and attempts for each action.
- `HttpServerProofs`. The HTTP server is a caller of `LlamaStream` like any
  other (`ServerIsACaller`), so the theorems of the stream hold with it.
  `NoEventParsed` rests on `Framed`: each beginning of an event follows the size
  of its chunk, on the wire or, once that is read, in a dirty buffer, and a
  response that is sent keeps it so (`SendsInv`); a closed connection takes the
  wire away but leaves the buffer no cleaner. `NeverCalled` and `CallbacksStay`
  follow, as only a parsed event calls or releases. `SummaryIsEmpty`: while a
  handler runs nothing is read, and nothing of a request can be read before it is
  made (`NotReadYet`).
- `GuiProofs`. Of the overlay: unless calls crossed, at most one query is on its
  way, and it is the one the overlay waits for. The history and all that was
  received change together (`ReceivedStep`). Of the settings: a save that no
  other runs into finds the file empty, as its open left it (`Truncated`);
  without overlap there is one process (`Alone`), and it remembers what was last
  changed or has loaded an interrupted file (`Remembers`).
- `DaemonProofs`. For each stage of `main`, whether NVML is held; that the
  destructors have run when it returned. For the schema: a daemon that reached
  statement `n` created all before it itself, so that two daemons cannot both be
  past the first one, and only the creator of all sets the version.
  `IdOfOwnRow`: one thread at a time is in a call, and what it bound and
  inserted stays its own until it returns. `SignalLeadsOut` is
  the safety half of `SignalEnds`: after a signal that is heard, `main` has at
  most three steps left, each of its steps is one less, and no other step of the
  daemon or its environment adds one.
- `CsvExportProofs`. The reader is a recursion along the text, so its lemmas need
  induction. The induction theorems of the library take an operator, which the
  provers cannot instantiate; `SetInduction` is the same principle for a set of
  naturals, from the least element that well-foundedness gives (`WFMin`), and
  the recursive functions are shown to exist by it. With that: a reader that
  begins a field gets the field without its quotes, whatever characters it has
  (`FieldRead`), after `k` fields of a line it has those `k` (`RowSoFar`), and
  after the line the row (`RowRead`); the reader of a text and then of another is
  the reader of both; what is cut off a text takes no row from its front.
  The invariant says what a flush at this moment would give: a reader of the last
  part with what file and stream hold back after it is between two rows, and
  together with the closed parts it has exactly the rows written so far
  (`ReadSoFar`). So a spill, which only moves text to the device, changes nothing,
  nor does a write done in part, and neither does a split, which closes a part
  there. Of exports that open a part after a failed write nothing is proved
  (`hole`). `Counted` says that `written` is the
  size of that text without the header, and that what exceeds the limit is part
  of one row.

Only model-checked: the liveness properties `HighServed`, `ClassServed`,
`FailStop`, `Released`, `DispatchedIfSignalled`, `Recovers` and `SignalEnds`.
What they promise in time rests on fairness, which is out of the prover's reach;
of `FailStop` and `SignalEnds` the part that does not is proved (`LostForGood`,
`SignalLeadsOut`).

## 6. Not modelled

- The OCR engine: three functions, each sequential under one mutex, and
  recognition is Tesseract's. (The iterator of `ocr_tesseract.cpp:79` is never
  freed; the models have no heap.)
- `frame_diff.cpp`, one sum over pixels; `screencast_portal.cpp`, which sets a
  flag, the portal session being still to be written.
- The calls of `ApiClient` other than `summarize` and `fetchMetrics`: each
  forwards its reply in one signal and keeps nothing. Operations that only read:
  `queryNotes`, `getStats`, `value`, `allKeys`.
- Placeholders of one line (configuration, logging, metrics, window watcher,
  enrichment, JSON and raw exporters, Paddle OCR), the QML pages, build files,
  scripts have no state of the system. Of the vendored llama.cpp, only what its
  server sends for the client's requests is in `LlamaStream`.

Left out within the models, as said above: equal task ids, a `main` that never
initializes the guard, names of CSV parts, power loss, relaxed loads out of order.

## 7. Plan

1. Safety halves of the other liveness properties, where they have one: that
   `Released` and `Recovers` lose nothing once they are on their way.
2. Abstract specifications: a durable map that `SettingsStore` implements for one
   process; and, once client and server agree on a form, a stream service (each
   caller gets its tokens, then an end) for `LlamaStream`.
3. Configuration, enrichment and the window watcher, once they are more than
   placeholders: the guard's initialization and the queue's producers belong to
   them.
4. `frame_diff.cpp` as an operator against a reference definition.
