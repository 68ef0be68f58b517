# Verification of Foundry Local Mobile

TLA+ models of the Foundry Local Mobile core (`core/`, C++20) and of the platform bridges
that drive it (`bindings/`), the TLC runs that check them on small instances, and TLAPS
proofs of what holds for every instance. Paths below are relative to the repository root.

To repeat the work, in this directory: `tlc -workers 2 -config <run>.cfg <module>` for the
runs of section 4, and `tlapm JobPoolProofs.tla`, and so on, for the
proofs of section 5.

## 1. Inventory

| Component | Code | State | Operations |
|---|---|---|---|
| Job | `core/src/job.{h,cc}` | atomic `state_`, `cancel_requested_`; under `mutex_`: `finished_`, `status_`, `result_json_` | `Execute`, `Cancel`, `Finish`, `Wait`, `TakeResult`, `ThrowIfFailed`, progress and delta callbacks |
| JobPool | `core/src/job.{h,cc}` | `queue_`, `running_` (weak), `shutting_down_`, 2-4 worker threads, one condition variable | `Submit`, `WorkerLoop`, `Shutdown` |
| HandleTable | `core/src/handle_table.{h,cc}` | `slots_` (kind, generation, owner, object), 32-bit `next_index_` | `Add`, `SetOwner`, `Get`/`TryGet`, `Remove`, `RemoveAllOwnedBy` |
| C ABI | `core/src/api.cc`, `flm_api.h`, `flm_types.h` | none of its own (thread-local last error) | `flm_*`: resolve the handle, make a job, submit it |
| Manager | `core/src/manager.{h,cc}` | `models_`, `auto_unloaded_models_` (weak), settings, `shutdown_` | `NotifyLifecycle`, `UnloadAllModels`, `RegisterModel`, `UpdateSettings`, `Shutdown` |
| Model | `core/src/model.{h,cc}` | OGA handles, `loaded_`, `load_options_`; `oga_mutex_`, `mutex_` | `Load`, `Reload`, `Unload`, `AcquireInferenceLease`, destructor |
| Runtime | `core/src/runtime.{h,cc}` | process-wide `operation_mutex_`, `live_objects_` | operation lease |
| Session | `core/src/session.{h,cc}` | history, tool-call counter, options, audio queue; `request_mutex_`, `mutex_` | `Complete`, `SubmitToolResults` (token loop, reasoning and tool-call parser), `Transcribe*`, `PushAudio`, `Embed`, history operations |
| Device profile | `core/src/device_profile.*`, `core/src/platform/*` | one cached snapshot under a mutex | detect, refresh, memory budget |
| Errors, encoding | `core/src/error.*`, `core/src/encoding.cc` | thread-local last error | translate exceptions; base64 |
| Android bridge | `bindings/android` | listener registry, per-call state, JNI callback contexts | coroutine/Flow adapters, lifecycle bridge, asset unpacking |
| iOS bridge | `bindings/ios` | `JobBox`, continuation box per call | async/AsyncSequence adapters, lifecycle observer |
| Flutter bridge | `bindings/flutter`, `core/src/flm_dart_bridge.c` | `JobRunner` per call | Future/Stream adapters |
| React Native bridge (Android) | `bindings/react-native/src`, `.../android` | handle registries, delta stream buffers | promise/async-iterator adapters |
| React Native binding (iOS) | `bindings/react-native/ios` | handle registries, a table of `Task`s by subscription | relays the Swift binding's streams to the same events; not modelled (section 6) |

How they interact. A caller passes a 64-bit handle; `api.cc` resolves it to a
`shared_ptr`, wraps the operation in a `Job` whose body captures that pointer, publishes a
job handle and submits the job. A worker executes the body: load and unload take the
model's `oga_mutex_` and then the runtime's `operation_mutex_`; a session request takes
the session's `request_mutex_` first. Progress and deltas are delivered from the body,
completion from `Job::Finish` outside every lock. Lifecycle events arrive on a platform
thread and call `Manager::NotifyLifecycle`, which unloads models on that thread and
submits reload jobs. `flm_manager_release` shuts the pool down, unloads, and drops every
handle the manager owns. Bridges turn one completion callback into one coroutine resume,
continuation, future or promise and must release the job handle exactly once.

What is hard here:

- two compare-and-swaps (`Cancel`, `Execute`) decide who finishes a job, and the terminal
  state is published before the outcome is recorded;
- `Submit` reads the shutdown flag outside the lock that `Shutdown` drains the queue under;
- `Finish` marks a job finished before it serialises the result, which may throw;
- weak registries (`running_`, `models_`, `auto_unloaded_models_`) against objects whose
  last reference may be dropped on any thread, destructors included;
- three nested locks taken from workers, platform threads and destructors;
- lifecycle events that arrive in any order and overlap loads, reloads and requests;
- history edited by one thread while another completes a request;
- audio pushed from one thread to a loop that starts later on another;
- a token stream that nests reasoning and tool calls, is cut off by the token limit or
  stopped by a callback, and numbers the model or the system reports and nobody vouches
  for: tensor shapes, the memory that is left;
- in the bridges: a completion that arrives before the call that starts the job has
  returned its handle, a cancellation that arrives before there is a handle to cancel, and
  contexts and copies whose owner changes with the thread that reports the job.

What makes each component correct:

- **Job, JobPool**: one owner per job, one outcome, one completion callback with that
  outcome, one taker of the result; no accepted job is forgotten; shutdown terminates.
- **HandleTable**: a live handle always denotes the object it was issued for; a released
  one denotes nothing; releasing a manager leaves no live handle derived from it.
- **Manager, Model, Runtime**: no model is destroyed under a lease, runtime references
  count loaded models, lock order excludes deadlock, nothing is loaded after shutdown,
  the models unloaded for the background come back in the foreground.
- **Session**: history grows by whole turns, each reply continues the history it was
  generated from, the ids of the session's tool calls stay apart, requests are serialised
  and all end; a stream hears the audio pushed since it began, in order, and ends with the
  final chunk. What the model says reaches the deltas whole and in order; a callback's stop
  is heeded; an embedding is read inside its tensor.
- **Device profile, encoding**: an admitted model fits the memory there is; every base64
  input is decoded or refused, every half-precision number converted exactly.
- **Bridges**: each call hears its end, its context is freed once and not used after, its
  job handle is released once, a stream that ends well is whole and in order, and
  cancellation reaches the job.

## 2. Plan

| # | Module | Uses | Abstract specification | State |
|---|---|---|---|---|
| 1 | `JobPool` | - | `AsyncJob` | checked, proved |
| 2 | `HandleTable` | - | the correspondence of slots and live objects | checked, proved |
| 3 | `ManagerRelease` | extends `HandleTable` | - | checked, proved |
| 4 | `ModelLifecycle` | - | - | checked, proved |
| 5 | `Session` | - | `TurnLog`, and `AsyncJob` for its requests | checked, proved |
| 6 | `BridgeJob`, and on it `AndroidBridge`, `AppleBridge`, `DartBridge`, `ReactNativeBridge` (on `AndroidBridge`), composed in `Bridges` | - | `AsyncJob` for the job underneath | checked, proved |
| 7 | `Generation`, `DeviceProfile`, `Embedding`, `Codecs`, side by side in `CoreAlgorithms` | - | what was encoded, and the mathematical value, for the conversions | checked, proved |

The order follows how much of the system rests on each part: every operation is a job,
every handle goes through the table, then memory, then sessions, then the callers.

Composition. `ManagerRelease` contains the whole handle table and reduces the pool to what
decides when its workers stop. `ModelLifecycle` and `Session` reduce the pool to a queue, in
the former with what races with its shutdown, and workers that execute it, which is what
`JobPool` establishes about it: a job runs at most once and on one thread. `Session` leaves
model memory out (a request may fail at any time), `ModelLifecycle` leaves history and audio
out (a request holds its locks and ends). `BridgeJob` is the job of `JobPool` as a binding
sees it: accepted or refused, run at most once, reported once, and possibly before the entry
point has returned. `Generation` is what `Session` calls a request between its prompt and
its append.

What `Session` and `BridgeJob` assume of a job is stated as a refinement of `AsyncJob`, the
specification that `JobPool` implements for every job whose result can be serialised
(`KeepsJobs`, `KeepsPromise`). What becomes of a job whose result cannot is in section 4; the
bindings' part of it is that their caller waits for ever.

Proofs, in the order they were made: `JobPool`, `HandleTable`, `ModelLifecycle`,
`ManagerRelease`, `Session` with its refinement of `TurnLog`, `Bridges`, and of
`CoreAlgorithms` the stops of the token loop and the admission of a model, then what
becomes of the tokens, the embedding of a batch and the conversions, and the refinements of
`AsyncJob` by the two users of jobs. Section 5 has the arguments. Each inductive invariant
stands in its module beside the properties, with its parts named, and TLC checked it on the
module's instance before it was proved. No safety property of a passing run is without a
proof. Nothing of the plan is left; `ModelLifecycle` has no refinement of `AsyncJob`,
because its jobs are what their bodies do and have no identity.
## 3. The models and the code

One action is one atomic access or one critical section of the code, so the
interleavings of a module are those that threads can produce. Every definition's lines
are in `PROJECT.json` under `map`; the tables say how the state corresponds.

### JobPool, AsyncJob (`job.cc`, the `flm_job_*` functions of `api.cc`)

`state`, `cancelRequested`, `finished`, `status` and `result` are the fields of `Job`,
`queue`, `running` and `shuttingDown` those of `JobPool`; `pc`, `at` and `out` are a
thread's position, the job it handles and the status it carries to `Finish`. `fired`,
`told` and `taken` record what the owner saw. A job's body is one step that returns or
throws, between which callbacks may ask for cancellation. `running_` holds weak pointers:
`Alive` says when they lock. Condition variables are modelled with their sleeping threads:
`notify_one` wakes one sleeper, `notify_all` all, and a sleeper may wake for no reason.

`Submit` is three steps (read the flag, push, notify) since the flag is read outside the
lock. `Execute` is a compare-and-swap, the body, the check of `cancel_requested_`, the
store of the terminal state and `Finish`, whose callback is one more step outside the lock.

The results of the jobs in `Undumpable` may hold text that is not UTF-8. `FinishThrows` is
`result.dump()` throwing after `finished_` was set (`job.cc:162`, `:164`): the worker stores
FAILED over SUCCEEDED in the catch clause and calls `Finish` again, which returns at the
flag. `Unrecorded` says that this has happened to a job. A waiter that was asleep is not
notified: it returns when its timeout is over or when it wakes for no reason
(`WaitTimeout`).

`AsyncJob` says what a caller may rely on for one job. `JobPool` is mapped to it, for the
jobs whose result can be serialised, by `phase <- state`, `notified <- fired`, and `told`
turned from a status into a state; the other jobs are in the pool beside them.

### HandleTable (`handle_table.cc`)

Every operation is one critical section. A handle is a record of kind, generation and
index; `Pack` puts them in disjoint bits. Objects are numbered by registration, `issued`
remembers the handle of each and `removed` those released. The index is as wide as
`LastIndex` says and wraps as `uint32_t` does; `ProbeStopsAt` is the loop that skips index
0 and slots in use. `Remove` increments the generation of a slot it erases at once, so the
increment leaves no trace, in the model as in the code.

### ManagerRelease (`api.cc`, `manager.cc`)

Extends `HandleTable`, whose `Add` and `SetOwner` are two steps of every entry point.
Application threads submit, create sessions, release handles, shut down and release;
workers run bodies, of which a load registers its model itself. A submission checks the
manager's flag, adds and owns the job's handle, checks the pool's flag and pushes, in five
steps; the shutdown sets its two flags, drains and joins, in four. A job pushed behind the
drain stays in the queue and keeps the manager alive through its body, so that the manager
is then never destroyed. `Holds` says when a thread
has a shared pointer to the manager; `ManagerGone` when nobody has. `ReentrantSpec` adds
what a callback may do on its worker: shut the manager down or release it.

### ModelLifecycle (`manager.cc`, `model.cc`, `runtime.h`, job bodies of `api.cc`)

`oga`, `request` and `operation` are the holders of the three mutexes that are held for
long; the short sections under `Model::mutex_` and `Manager::mutex_` are single steps but
one: `UnloadAllModels` builds its list under `Manager::mutex_`, whose holder is `listing`,
one entry of `models_` at a time (`Visit`). It locks each weak pointer and drops it at once
when the model is not loaded, which may run the model's destructor under that lock
(`manager.cc:148`-`158`). A thread's label says where it is between taking and giving back
locks; `back` and `after` are the return addresses of calls: of `Model::Unload` (called from
a job, `UnloadAllModels` and the destructor), of a submission and of a loop over a list.
`Referenced` lists the places a shared pointer can be; `Drop` destroys the model when the
last is given up, on whatever thread. `registry` and `autoUnloaded` are weak and hence
filtered by `Lockable`.

The result of a load, the length of an inference and the settings are open. A failure is
`LoadFails`; a load that finds the shutdown flag does nothing. Each model has at most one
session here.

The pool is a queue and what races with its shutdown: `SubmitAccepted` reads the flag,
`SubmitPush` pushes, the reloads of FOREGROUND included, and `ShutdownFlag` and
`ShutdownDrain` may come between. A job pushed behind the drain stays queued for ever and
holds its model; nothing says that the queue is empty once the pool is down. The drain's
list holds the models of queued jobs, of those a worker executes and of finished ones whose
handle was kept (`kept`).

### Session, TurnLog (`session.cc`)

`type` is fixed; a chat session has `history`, `keepHistory`, `nextCall`, an audio session
has `audio`. A message is its role, the request it belongs to and the ids of the tool
calls in it: its text is left out. Request 0 stands for the session's options, whose
system prompt is the first message. A worker takes `requestLock`, reads the history into
`prompt`, makes any number of tool calls (each increments the counter, outside `mutex_` as
in the code), reads `keep_history_` and appends the turn. Any of these steps may throw.
Edits of the history may come at any time in between and set `edited` for the workers
concerned. A restore brings back this session's export or one of `Documents`, histories of
other sessions; the messages of those belong to request 0, and `MCSession` chooses one whose
tool call has the id that this session will give to its first. `Fail` includes what throws
before the lock (a session of the wrong type, a request that is no object).

A chunk of audio is its number and whether it is final. `OpenStream` is
`TranscribeStreaming` up to its loop. A turn of the loop is `Listen`, the look at the
cancellation, and then `WaitTimesOut` after 100 ms or `TakeChunk`, which does not look
again; the flush behind the final chunk may fail. `since` and
`heard` record what was pushed and taken per request. `audio_shutdown_` is set by the
destructor only, and the job of a stream holds the session, so no stream sees it set.

`TurnLog` is the promise about the history: a request adds its whole turn in one step and
at most once, a request that is over adds nothing, and the application drops messages from
the end (any number: the promise is about what requests add, not about where an undo
stops), exports, and restores into a session without turns. The mapping takes a request's
status from `kept` and `outcome`. A second mapping, `JobPhase`, sees every request as a job
of `AsyncJob`: pending until a worker takes it, running until its outcome is known.

### Generation (`Session::Generate`, `ParseAndEmitToolCalls`, `Session::TranscribeBatch`)

A token is its number, and text is the sequence of the tokens it was decoded from, so that
loss, doubling and order can be seen. `state`, `preTool`, `toolBuffer`, `fullText`,
`toolCalls`, `produced` and `cancelled` are the locals of the loop. One turn of the loop is
`LoopGoesOn` (the tests at its head) and one action per kind of token: `ReasoningBegins` and
`ReasoningEnds`, `ToolCallBegins`, `ToolCallMalformed` and `ToolCallThrows` for what the
parser makes of a buffer, `ToolCallParsed`, `NextItem` and `ArrayEnds` for an array of
calls, each emitted by its own `EmitDelta` (`session.cc:371`, `:375`) with an answer of its
own, `MarkerDecoded` for a marker that is decoded like any other token, `TextToken`,
`ReasoningToken`, `ToolToken`. Which token comes is open. `Of` joins what the deltas of a
kind say. `EmitDelta` records the delta; its callback may ask to stop, and every place looks
at the answer, or does not, as the code does. `maxLength` is the length of the prompt and
the output, or the output alone when a multimodal prompt's ids cannot be read, or, when
neither request nor session gives `max_output_tokens` (`maxOutput = 0`), the model's own.
`SessionTerminated` is a generator that the runtime has ended by itself, at the head of the
loop or at the next token. A batch transcription has the same loop without the state
machine: `state = "speech"`.

### DeviceProfile (`device_profile.cc`, `platform/*`, the admission in `Model::Load`)

Bytes are small numbers: the budget is 45% of what is available, rounded down. The memory
left to the process and whether the system tells it change between the queries;
`AndroidAvailable`, `AppleAvailable` and `DesktopAvailable` are what each backend makes of
a reading that failed. `FillExecutionProviders` counts how often a provider is listed.
Nothing in the repository writes `thermal_state` or `low_power_mode`, so the halved budgets
of `MaxModelBytes` are never used and the model has none. `lastTold` remembers the last reading
that succeeded, so that `Known` can say what Load could know of the memory when it asked.

### Embedding (`Session::Embed`)

The model chooses the shape of every tensor from `Dimensions`, zero and negative numbers
included; `SizeMax` stands for `numeric_limits<size_t>::max()`. One action is a run of the
model, an iteration of the loop over the shape, and the copy of the vector. What is kept of
a vector is where it was read. `Volume` is what the loop is measured against: the product of
all dimensions, which cannot wrap.

### Codecs (`encoding.cc`, `Float16ToFloat32`)

The two loops with their locals, one character or one shift per step. `Codecs` decodes what
`Base64Encode` made, with its padding, without (`Characters` counts the rest), or with one
padding or foreign character more, each bare or as a data URL, whose header `StripHeader`
removes before the loop. The half is compared with its value as a dyadic fraction
(`HalfExact`).

### CoreAlgorithms

The four above side by side: `subject` says which one a behaviour exercises.

### BridgeJob (`SubmitJob`, `JobContext` and `Job` as a binding sees them)

One call, awaited ("result") or streaming. `phase`, `asked`, `outcome` and `handle` are the
job's; the rest belongs to the binding: `ctx` is what `user_data` points to, `known` whether
the binding has stored the handle, `listening` whether callbacks are forwarded, `buffer`
and `ending` the stream. `ctx` becomes "misused" when a callback uses a context that was
freed or frees it again. The job may run and be reported between `Accept` and `Publish`;
a cancellation may come at any time, also from `Shutdown` (`CoreCancels`), and a pending
job is then reported by the canceller.

### AndroidBridge (`JobBridge.kt`, `NativeCallbacks.kt`, `jni_*.cc`)

`AndroidStart` is the registration of the listener with the making of the
`CallbackContext`; the trampolines use it and `OnCompletionTrampoline` deletes it, whether a
listener is left or not. The flow's channel has `BufferSize` places; a delta that finds it
full is dropped and the job asked to stop. `StreamCancels`, `StreamCancelReturns` and
`StreamUnregisters` are the steps of `awaitClose`.

### AppleBridge (`Job.swift`)

The context is the retained `AsyncCallContext` or `StreamCallContext`. `TaskCancelled` is
`onCancel` of `withTaskCancellationHandler`, `StreamTerminated` the stream's
`onTermination`; the completion bridge releases the handle it was called with.

### DartBridge (`flm_dart_bridge.c`, `job_runner.dart`)

Callbacks copy what they get (`copies`) and post it to the isolate (`mail`), which handles
one message at a time and none before `start()` has returned. `HandleCompletion` is
`_onCompletion` with `_finalize`: result, handle, listeners and context.

### ReactNativeBridge (`FoundryLocalModule.kt`, `stream.ts`)

On top of the Android stream: `co` is the coroutine of `streamDeltas`, `stored` the entry in
`subscriptions`, `events` what was emitted to JavaScript, `queue`, `jsEnd` and `reader` the
state of `makeDeltaStream`. The reader may leave at any time (`return()`).

### Bridges

Composes the four: one call through one of them, and the properties all of them share.
`KeepsPromise` maps the core's side of the call to a job of `AsyncJob`; a refused entry point
is a job to which nothing ever happens.

### The proof modules

`JobPoolProofs`, `HandleTableProofs`, `ManagerReleaseProofs` (on `HandleTableProofs`),
`ModelLifecycleProofs`, `SessionProofs`, `BridgesProofs` and `CoreAlgorithmsProofs` extend
the module they are named after and add nothing but lemmas and theorems. The last stands on
`CoreOperatorProofs`, which has the lemmas about operators: recursion over a sequence, the
product of a shape, what the deltas of a kind say, which tokens are where, the characters of
base64, and powers of two. The inductive invariants are definitions of the models, not of
the proofs, so that TLC can check them.
## 4. The runs

All runs turn deadlock checking off: the system may stop when the application makes no
more calls (and a run when its bounds are used up). Where a thread must not be stuck, a
liveness property says so.

| Run | Instance | What it shows |
|---|---|---|
| `jobpool_pool` | 2 workers; 2 jobs, one of which may refuse to be serialised, and 1 client, or 1 job and 2 clients | one owner per job, one outcome, told once and truthfully; the result is taken once; `JobPool` implements `AsyncJob` for a job that can be serialised; shutdown leaves no running body; a job queued before the shutdown completes, also behind one that goes unreported; `Shutdown` returns; no lost wake-up |
| `manager_release` | 2 application threads, 1 worker, indices 1..3, 4 registrations | live handles never collide, also after the wrap past live slots; stale handles are stale up to the wrap; the release that shuts down leaves neither a running job nor a model handle; the manager never dies with a joinable worker; each release returns |
| `lifecycle_safety` | 2 models, 1 worker, 2 platform threads, 2 jobs, 2 events | leases protect models; one thread in OGA; memory counted once; events unload what they found; nothing loaded after shutdown |
| `lifecycle_liveness` | 1 model, 2 workers, 1 platform thread, 2 jobs, 2 events | every wait for a lock ends; shutdown finishes |
| `session_requests` | 2 requests, 2 workers, 2 tool calls, 3 chunks, 2 edits, 1 history of another session | `Session` implements `TurnLog`; replies fit the history; the session's tool-call ids stay apart; streams hear their audio and end; every request ends |
| `bridge_calls` | 1 call through each of 4 bindings, up to 4 deltas, a channel of 2 | contexts and copies freed once and not used after; handles released; streams whole and in order; every caller hears the end, every cancellation ends the job |
| `core_algorithms` | up to 6 tokens; 12 units of memory; 2 tensors of rank 3; payloads up to 4 bytes, bare or as a data URL, all halves | text, reasoning and tool calls whole and in order; stops heeded; admissions fit; embeddings inside their tensors; conversions exact |
| `jobpool_stranded` (violation) | 1 job, 1 worker, 2 clients | finding 1 |
| `jobpool_taken` (violation) | 1 job, 1 worker, 2 clients | finding 2 |
| `release_reentrant` (violation) | as `manager_release` | finding 3 |
| `lifecycle_evicted` (violation) | 1 model, 1 worker, 1 platform thread, 2 events | finding 4 |
| `session_final_chunk` (violation) | 1 stream, 1 worker, 2 chunks | finding 5 |

Why the bounds are enough. In `jobpool_pool` two workers and either a second job behind the
first in the queue or a second caller beside the first give every pair of conflicting
accesses a pair of threads. `OneOfEach` of `MCJobPool` keeps the two instances in one run; it
only holds back calls that no client is obliged to make, so liveness is not affected. For
two jobs, two clients and more of each there are the proofs of section 5. The handle table
needs more registrations than indices for the wrap to happen: four against three (index 0
is never used), with up to two slots live around it. Two requests show one session's
requests against each other, two edits an export and a restore around them, three chunks a
stream that inherits audio of an earlier one. Two lifecycle events overlap each other and a
shutdown; two jobs load and use a model. Four deltas overfill a channel of two while two
are on their way. Six tokens hold a reasoning section with text before and after, or a tool
call that is opened inside reasoning and cut off by the limit. Twelve units of memory reach
every side of the budget's rounding, and a largest size of 7 lets the product of three
small dimensions wrap. What the instances cannot show: three parties at once, such as three
requests waiting for one session.

`MaxAdds`, `MaxJobs`, `MaxEvents`, `MaxRequests`, `MaxCalls`, `MaxChunks`, `MaxEdits`,
`MaxDeltas`, `MaxTokens`, `MaxChanges`, `MaxBytes`, `MaxRank` and `MaxInputs` bound counters
that the code does not bound; each appears in a guard and nowhere else, except in initial
states and in the ranges of the type invariants. Symmetry is used in `lifecycle_safety`
only.

The inductive invariants. `jobpool_pool`, `manager_release`, `lifecycle_safety` and
`session_requests` check the inductive invariant of their module (`Coupled` with `TypeOK`,
`ReleaseInv`, `Inv`, `Inv`), which contains the types. Those of `Bridges` (`Inv`) and of
`CoreAlgorithms` (`GenerationInv`, `OutputInv`, `ProfileInv`, `EmbeddingInv`, `CodecInv`)
hold in all states of their runs too; the runs list the properties that follow from them
instead. In the same way TLC finds `KeepsJobs` of `Session` and `KeepsPromise` of `Bridges`
true on the instances of `session_requests` and, with two deltas, of `bridge_calls`.

Fairness. Threads that can run do (the operating system schedules them), with weak
fairness per thread: the models take a mutex only when it is free, and the properties
hold although a particular waiter may be overtaken for a bounded number of requests. A
job's body ends: a generation is limited by `max_length` and polls for cancellation, and a
load ends in the runtime. In `ModelLifecycle`, `InferEnds` is fair also for a streaming
transcription, on the assumption that the application pushes the final chunk or cancels;
without it an unload waits as long as the stream, and a lifecycle event with it. In
`Session` nothing makes a stream end but its final chunk or a cancellation. In `Bridges` the
pool's threads, the entry point, the binding's executor (coroutine, task, isolate, event
loop) and the reader of a stream keep running, each with weak fairness; a body need not end
before its cancellation is requested, and nobody has to cancel or to leave a stream. The
application is never obliged to call anything.

Every property is also checked against a fault: an operator beside the action it replaces,
commented `Fault:`, changes it as a plausible mistake would (a dropped lock, a plain store
for a compare-and-swap, a queue that is not cleared), and TLC then finds that property
violated with the same configuration. `PROJECT.json` pairs them under `mutants`.

### Findings

1. `jobpool_stranded`. `JobPool::Submit` reads `shutting_down_` before taking the lock
   (`job.cc:225`) and does not read it again. A job pushed after `Shutdown` has drained the
   queue is neither executed nor cancelled, its completion callback never fires and
   `flm_job_wait` without a timeout never returns. `flm_types.h:233` says "Invoked exactly
   once per job, even on cancellation".
2. `jobpool_taken`. `state_` is terminal before `Finish` records the outcome (`job.cc:139`,
   `job.cc:116`), and `flm_job_take_result_json` (`api.cc:525`) concludes from a terminal
   state without failure that the result was taken. A caller in between is told so although
   nobody took one.
3. `release_reentrant`. A callback that shuts down or releases the manager, which the
   header does not forbid (`flm_types.h:206`), joins the worker it runs on. The error leaves
   workers joinable, and destroying them terminates the process.
4. `lifecycle_evicted`. Each unloading event replaces `auto_unloaded_models_`
   (`manager.cc:161`): after two in a row (BACKGROUND, then MEMORY_CRITICAL) FOREGROUND has
   forgotten the models of the first. `flm_types.h` says of it "Reload eagerly-unloaded
   models".
5. `session_final_chunk`. A stream clears the queue when a worker begins it
   (`session.cc:1459`). Audio pushed after `flm_session_transcribe_async` returned and before
   that is lost, the final chunk included, and the stream then waits until it is cancelled.

### Statements of the documentation that the models contradict and no run checks

Each holds or fails of single executions of the line named, which the model shows by
inspection:

- `flm_types.h:233`: the completion callback is invoked exactly once per job. `Job::Finish`
  sets `finished_` (`job.cc:162`) and then serialises the result (`:164`), which throws when
  it holds text that is not UTF-8; nothing between the tokenizer and that line makes sure
  that it does not. The catch clause of `Execute` stores FAILED over SUCCEEDED and calls
  `Finish` again, which returns at the flag (`:160`): nothing is recorded, a waiter asleep is
  not notified and the callback never fires. `jobpool_pool` contains such a job, its
  properties name it as their exception (`Unrecorded`), and it shows that the other jobs and
  the shutdown do not suffer from it. (An error whose own text cannot be serialised throws
  from `MakeErrorJson`, `job.cc:170`, inside a catch clause: the exception leaves the
  worker's thread and ends the process, which the models leave out.)
- `flm_types.h:205`: callbacks do not run on a caller's thread. `Cancel` completes a job
  that has not started on the thread that cancels (`job.cc:116`).
- `flm_api.h:307`: releasing a job's handle cancels it. `flm_job_release` removes the
  handle only (`api.cc:534`). `flm_api.h:244` says the same of a session's requests.
- `flm_api.h:113`, `:114`: a release blocks until the jobs are done and invalidates all
  handles derived from the manager. A second release does not wait for the first
  (`manager.cc:179`), and a job or session registered past its shutdown check has its
  handle added after `RemoveAllOwnedBy` (`api.cc:189`).
- `flm_types.h:195`: MEMORY_CRITICAL unloads every model. One that is loaded and not yet
  registered (`api.cc:256`) is not seen; `EventUnloads` speaks of registered models.
- `flm_api.h:217`: unloading stops active sessions first. It waits for them
  (`model.cc:343`).
- `handle_table.h:10`, `handle_table.cc:104`: generations keep a stale handle stale for
  ever. The generation is 1 in every slot (`handle_table.cc:44`), so a handle is stale only
  until the 32-bit index has come round: `StaleUntilWrap` is what holds.
- `flm_api.h:281`: undo drops turns. Asked for more turns than there are it drops the
  system prompt too (`session.cc:1896`).
- `flm_api.h:278`: the turn count is of completed turns. It counts user messages
  (`session.cc:1884`); a request with two of them counts twice, one of tool results not at all.

Cases no document decides, which the models contain and no property rules out: a request
cancelled after its last token keeps its turn in the history and ends CANCELLED
(`session.cc:1085`); the history of another session, restored into this one, brings back
tool-call ids that this session, whose counter starts at 0, gives out again
(`CallsAreUnique` is about this session's own replies); FOREGROUND may submit a reload that
runs after the next BACKGROUND (`manager.cc:122`); and a job pushed behind the drain keeps
what its body holds, a model or the manager, for good.

In the bindings, each an exception that a property of `Bridges` names or a case beside it:

- `JobBridge.kt:22`-`26` says that the listener releases the job handle. It cannot when the
  completion comes before `listener.jobHandle` is set (`:52`), nor when a stream is closed
  early and `awaitClose` unregisters the listener (`:87`): the handle stays in the table
  until the manager is released. An awaited call that completes so early resumes with no
  result text (`:132`).
- `FoundryLocalModule.kt:445` relies on `onCompletion` having emitted the terminal event. A
  coroutine cancelled before it is dispatched never runs: no event, although
  `stream.ts:89` guarantees one, and the promise that `stream.ts:176` awaits never settles.
- A coroutine that ends before `subscriptions[subscriptionId] = job`
  (`FoundryLocalModule.kt:473`) leaves its entry behind.
- A Swift task cancelled before `jobBox.set` is not cancelled later (`Job.swift:202`, `:208`).
- An Apple stream that the shutdown cuts off ends without an error (`Job.swift:302`).
- A Dart delta whose text is not valid UTF-8 makes
  `utf8.decode` throw in the listener (`delta.dart:207`): the delta is lost and the stream
  ends normally. `WholeStream` is about deltas that can be decoded.
- All bindings wait for the completion callback, so a job whose result cannot be serialised
  keeps its caller waiting for ever; `Bridges` assumes the promise of `AsyncJob`.
- In React Native an error overtakes the deltas queued before it (`stream.ts:160`).

In the core's algorithms:

- `ParseAndEmitToolCalls` and the flush after the loop do not look at what a callback answers
  (`session.cc:371`, `:900`): one that stops at the first call of an array is called again
  with the others, which `StopIsHeeded` says.
- A tool call whose name is not a string throws (`session.cc:347`) where the comment above
  (`:332`) has the parser return false; a call without a name beside one with a name is lost
  (`:348`).
- When the ids of a multimodal prompt cannot be read, `max_output_tokens` counts the prompt
  too (`session.cc:698`, `:721`).
- A transcription that its token limit cuts off reports "stop" (`session.cc:1423`), not
  `FLM_FINISH_LENGTH` (`flm_types.h:155`), and one whose tokens decode to nothing one by one
  has a text no delta had (`:1407`).
- An Apple process past its share of memory reports 0 bytes (`device_profile_apple.cc:82`),
  which `MaxModelBytes` takes for "detection failed" and turns into a budget of 1 GiB; a
  budget that rounds to 0 is not compared at all (`model.cc:230`).
- `error.cc:82` names code 2 `FLM_ERROR_INTERNAL`; an exception of the JSON library is an
  invalid argument at the ABI (`error.cc:97`) and an internal error in a job (`job.cc:145`).
## 5. The proofs

`tlapm` checks every theorem to its last leaf. They hold for all values of the constants
that satisfy the modules' assumptions; no set of threads, jobs, models or requests is
assumed finite, and no bound of a run is used.

| Assumption | What it says | Why the code justifies it |
|---|---|---|
| `ConstantsAssumption` | workers and clients are different threads; the "none" values are none of the others; the jobs that may refuse to be serialised are any of the jobs | the pool's threads are its own |
| `TableAssumption` | there is a usable index, the manager's kind is a kind, "no slot" is no slot | `uint32_t`, `HandleKind` |
| `ReleaseAssumption` | application threads are not workers; the manager's kind is not that of models, sessions and jobs, and a model's not that of sessions and jobs | the enumerators of `HandleKind` differ; a callback on a worker is `ReentrantSpec`, about which nothing is proved |
| `LifecycleAssumption` | workers are no application threads; the "none" values; two counters | as above |
| `SessionAssumption` | a session is for chat or audio; four counters; other sessions' histories are messages of none of this session's requests | `SessionType` |
| `BridgeAssumption` | the four bindings; a channel has a place | `callbackFlow` (`JobBridge.kt:70`, `:98`) buffers by default |
| `GenerationAssumption` | a prompt has a token, and some output is allowed | a chat template makes tokens of every prompt; a generation without output has no loop to speak of |
| `ProfileAssumption` | three systems; the budget for an unknown memory is positive | it is 1 GiB (`device_profile.cc:90`) |
| `EmbeddingAssumption` | dimensions are integers; the largest size is positive | `int64_t` shapes, `numeric_limits<size_t>::max()` |
| `CodecAssumption` | a byte has 8 bits and a half 16 | `uint8_t`, `uint16_t` |

`JobPoolProofs`, for any jobs, workers and clients:

- `Invariance`: `Spec => [](TypeOK /\ Coupled)`. Neither `OneOwner` nor `OutcomesAgree` is
  inductive: from a state in which two threads finish one job, or a thread is about to
  store a state for a job that is already finished, a step breaks them. `Coupled` adds, per
  thread, what its label says of its job (`ThreadInv`: a thread in the body has a RUNNING
  job, one past `Finish` has the recorded status, one on its way to `Finish` a second time
  has found the result refusing to be serialised) and, per job, how its fields agree
  (`JobInv`). `PendingUnowned` is the heart of it: a PENDING job has no owner, so the winner
  of either compare-and-swap is the only one. The lemmas `MoveKeepsCoupled` (a thread moves
  and no job changes) and `OwnerKeepsCoupled` (an owner changes its own job) carry the
  case split over the actions.
- `SingleOwner`, `OutcomesAlwaysAgree`, `ResultsAccounted`, `TypeCorrect` follow from it.
- `TerminalStaysFinal`: no step changes a terminal state or a recorded outcome, but for the
  success that turns into a failure because it cannot be serialised. No run checks it by
  itself, since `KeepsPromise` implies it for all other jobs.
- `ShutdownForgetsNothing`: `Spec => []ShutdownSettles`. That Shutdown has returned says
  nothing of how its list and the workers came to be empty; `Attended`, inductive together
  with `Coupled`, does. Its first part (`ShutterInv`) follows the one thread inside
  Shutdown: its list is empty before the drain and from the joins on, and it returns when
  every worker has left. Its second part (`TakenOn`) says who answers for an accepted job
  that is not over: the queue, a worker that holds it, or the shutdown that is about to
  cancel it; and a running job always has its worker. `CancelSwap` is the step that needs
  both: the shutdown lets go of a job it finds RUNNING only because a worker has it.
- `Refinement`: `Spec => KeepsPromise`. Every step is a step of `AsyncJob` on a job that can
  be serialised or leaves its variables alone (`StepMoves`).

`HandleTableProofs`, for any index width, set of kinds and number of registrations:

- `TableInvariance`: `TableSpec => [](TableTypeOK /\ Corresponds)`. `LiveHandlesResolve`
  says nothing of slots whose object was released, and `StaleUntilWrap` nothing of where
  the next index is; `Corresponds` has slots and live objects in one-to-one correspondence
  and, before the wrap, object n at index n. `ProbeIsImmediate`: until the wrap the probe
  stops at once. `DroppingKeeps` serves both ways of removing.
- `LiveHandles` and `StaleHandles` follow.

`ManagerReleaseProofs`, for any threads, index width and number of registrations:

- `ReleaseInvariance`: `ReleaseSpec => []ReleaseInv`. The table's invariant is taken over
  from `HandleTableProofs`: each step of a manager is a step of the table or leaves it
  alone. `NeverTerminates` says nothing of why the manager outlives the joins;
  `ShutdownInv` does: one thread carries the shutdown out and is still in there, holding the
  manager, until it is past the joins, when all workers have exited. A job pushed after that
  is executed by nobody. `ManagerKept`: the
  manager's handle goes only after a shutdown has begun. `NoModelSurvivesRelease` needs to
  know who can still make a model: `ModelsOwned` has every live model owned by the manager
  or in the hands of the load that is about to make it so, and `Emptied` says that after
  the release has removed what the manager owns there is no such load, since the workers
  have exited.
- `ManagerHandles`, `ReleaseLeavesNoModel`, `ManagerNeverTerminates` follow.

`ModelLifecycleProofs`, for any models, workers, platform threads, jobs and events:

- `InvariantHolds`: `Spec => []Inv`. `LockInv` says that a thread's label decides which
  locks it holds; `OneOperation` is its consequence. `LeaseProtects` needs the references as
  well: a model under a lease is referenced, so its destructor does not run (`DyingInv`,
  `LiveReferenced`), and nobody else has its operation lock. `ThreadInv` and `QueueInv` say
  what threads, lists and queued jobs handle. `RegistryInv` is the part that took longest to
  find: a model that is not in `Manager::models_` is either being destroyed or in the hands
  of the one load that makes it (`InTheMaking`), so locking a weak pointer misses no model
  that could be loaded. `ListingInv` has one thread go through `models_` at a time, also
  while it runs a destructor from there, so that what it has yet to visit and what it holds
  are entries nobody removed. `ShutdownInv` has one thread in the shutdown, alone once past
  the joins, with no worker left to execute what the queue may still hold; `OwedInv` says
  that what an event or the shutdown has yet to see unloaded is on its list or being
  destroyed. `Counted` is `live_objects_`.
- `LeaseHolds`, `OperationsExclude`, `RuntimeIsBalanced`, `EventsUnload` and
  `ShutdownUnloadsAll` follow: the first and the last are conjuncts of `Inv`, since the
  steps of the locks and of the lists preserve them only together with the rest.

`SessionProofs`, for any workers and any number of requests, tool calls, chunks and edits:

- `InvariantHolds`: `Spec => []Inv`, whatever histories of other sessions are restored.
  `RequestInv`: a request is in the queue once or at one worker. `LockInv`: a body past its
  lock is at the worker that holds `request_mutex_`. `PromptInv`: the prompt is the history
  until an edit. `CallInv` has the counter past every tool-call id of this session, in the
  history, in an export that may come back, and in a reply that is about to be appended;
  without the export `CallsAreUnique` is not inductive. `StreamInv` says where the queue
  begins and ends relative to what the listening stream has heard.
- `CallsStayUnique`, `StreamsHear` and, an action property, `RepliesFit` follow.
- `LogOfTurns`: `Spec => KeepsTurns`. Each action is a step of `TurnLog` or a stutter
  (`AppendTurn` is the one that adds a turn, whole), under the mapping of section 3; its
  case for an edit needs lemmas on what dropping messages from the end leaves of a history.
- `RequestsAreJobs`: `Spec => KeepsJobs`. The session's reduced pool does to a request what
  `AsyncJob` promises and no more. That a worker takes only a request nobody has
  (`RequestInv`) makes it start once; the cancellation of a waiting request and the claim of
  `Pop` are the two steps that meet.

`BridgesProofs`, for any subset of the four bindings, any number of deltas and any channel:

- `InvariantHolds`: `Spec => []Inv`. `ContextInv` says where the context is in the life of
  the job: held while a callback may come, freed when the call is over, which in Flutter is
  only when the isolate has handled the completion; `MailInv` has the completion in the mail
  once and last, and as many copies as there are messages. `HandleInv` says who is still to
  release the handle, with Android's two ways around it (`early`, `Abandoned`). `OrderInv`
  has what the reader was given, what the stream holds and what is in the mail ascending and
  each below the next, and `NoneMissing` has their lengths add up to what was emitted unless
  somebody asked to stop. `EndInv` says when a stream may have ended. `EventInv` continues
  this for React Native, whose coroutine is the reader of the Android stream: what was handed
  over, what is in the queue and what is in events is what the coroutine has read, followed
  by its end.
- `ContextIsFreed`, `HandleIsReclaimed` and `StreamIsWhole` follow.
- `JobIsPromised`: `Spec => KeepsPromise`. The core's side of a call, whichever binding and
  whoever cancels, is a job of `AsyncJob`. With `Refinement` of `JobPoolProofs` this joins the
  two models: the bindings are shown to cope with no more than the pool may do, and the pool
  to do no more than that. `AsyncJob` says what may happen and not that it does; that it does
  is the liveness that TLC checks on either side.

`CoreAlgorithmsProofs` on `CoreOperatorProofs`, for any prompt, limit and amounts of memory,
any shapes and sizes, any payload and all halves:

- `LoopInvariance`: `Spec => []GenerationInv`. `StopIsHeeded` looks at the end; `Stopped`
  says at every step of the loop what makes it heed a callback that asked to stop: the local
  `cancelled`, or the request itself where the answer was not looked at, so that the head of
  the loop ends it before another token, and at most the rest of the array in which it was
  asked comes after. `WithinLimit` has the limit exact where the length
  of the prompt counts, and `ToolsAccounted` ties the deltas of tool calls to the aggregate
  that the reason is taken from. `OneMore` serves all steps that emit one delta.
- `StopsAreHeeded` follows.
- `AdmittedModelsFit`: `Spec => []AdmissionFits`, from `ProfileInv`: what is available is
  what Load could know when it asked, and the budget is made of it. Proving it for all
  amounts of memory showed what the instance of 12 units hides: an Apple device that cannot
  be read guesses a quarter of its memory, which may itself be nothing (then the detection
  counts as failed) or round to a budget of nothing (then nothing is compared).
  `AdmissionFits` now states both exceptions for every reading, and no longer lets a desktop
  that cannot be read admit anything: the last successful reading decides.
- `TokensInvariance`: `Spec => []OutputInv`. `OutputPreserved` looks at the end, where every
  token is in one place. On the way it may be in the tool-call buffer: `AllSomewhere` counts
  that as a fifth place, `InOrder` has what is buffered made after all text and all calls
  sent, so that flushing it, parsed or malformed, keeps the order, and `Buffered` says that
  only an open tool call is buffered and nothing is at the end. `TextSent` ties the deltas to
  the aggregate, with the transcription that decodes its text as a whole as the exception.
- `OutputIsPreserved` follows.
- `BatchInvariance`: `Spec => []EmbeddingInv`. `ShapeRead` has the count that the loop keeps
  equal to the product of the dimensions it has seen, all positive: the division before the
  multiplication is what keeps it exact, and makes it at least the last of them, so that
  there is room for the vector. `VectorsTaken`
  has a vector for every input so far, at the end of its own tensor, all of one size.
- `EmbeddingsAreAligned` follows.
- `CodecInvariance`: `Spec => []CodecInv`. `ForeignAt` says of the input that it is the
  encoded payload but for one character, or none (`HeaderStep`: also once the header of a
  data URL is gone); `Decoded64(m)` that after m of its
  characters exactly the bytes they complete are out and the low bits of the buffer hold the
  rest. That a shifted buffer may lose its upper bits is `BufferEnd`: what is read of it later
  is below the cut. The case split is over the four characters of a group
  (`SecondCharacter`, `ThirdCharacter`, `FourthCharacter`). For halves `HalfRead` has the
  significand doubled as often as the exponent was lowered, at most ten times, and below
  2048, so that the leading bit ends where the single's implied one is.
- `CodecsAreExact` follows: decoding gives back every payload of any length.

These three speak of functions defined by recursion. The library's induction rules take an
operator as a parameter, which no installed prover instantiates, so `CoreOperatorProofs`
goes around them: well-founded sets have minimal elements (`WFMin`), stated with a set, and a
statement about all natural numbers is proved by taking the least one that is not in the set
of those that satisfy it (`LeastNatural`, `Upwards`). `Unrolled` has from this that a
recursion over a prefix has a solution, `UnrolledAlike` that it has one only, and so that the
function a `LET` chooses satisfies its equation, and that a longer prefix agrees with a
shorter one. `ProductOfMore` and `JoinedOfMore` are the steps that the loops need.

### Only model-checked

Liveness (`QueuedJobsComplete`, `ShutdownReturns`, `ReleaseReturns`, `EveryLockIsGranted`,
`ShutdownFinishes`, `StreamEnds`, `RequestsEnd`, `CallSettles`): `tlapm` does not prove
properties under fairness, nor `ENABLED`. All other properties of the passing runs are
theorems. The runs that expect a violation have nothing to prove.

## 6. What is not modelled

- Parsing, validation and formatting: JSON, options, chat templates, package
  configuration, language tables, error documents. A request that is refused is one that
  fails.
- The content of what the model generates, of audio and of media, and the arithmetic of an
  embedding's normalization.
- Progress rates and estimates; they are reported and never read.
- The choice of an execution provider, and the device profile's detection, which asks the
  operating system. `MergeRuntimeExecutionProviders` and `ClassifyExecutionProvider` are
  called by nothing.
- ONNX Runtime GenAI itself, known only through the calls that `model.cc` and `session.cc`
  make: each may fail, and a successful load makes one live object.
- Of the bindings: a JVM that cannot be attached any more (the listener is then never
  told), strings that are not valid modified UTF-8, Dart deltas that are not valid UTF-8, the
  progress stream of a Flutter call,
  `throw()` of a React Native iterator and the invalidation of its module, the handle
  registry (a map), the lifecycle observers, which forward what the platform tells them,
  and the unpacking of bundled assets, which is file I/O. Then the value types the bindings
  exchange, samples and scripts.
- React Native on iOS (`RNFoundryLocalCore.swift`, `RNFoundryLocal.mm`): it relays the
  stream of `AppleBridge` to the events that `ReactNativeBridge` has behind the Android
  stream. The relay itself, a `Task` per subscription in a table under a lock, whose end is
  emitted as end or error, is in no model, so nothing here is claimed of React Native on iOS.
- A job error that cannot be serialised (section 4).
- The memory model below atomics and mutexes: accesses are sequentially consistent. The
  code uses acquire and release on `state_` and `cancel_requested_`, and everything read
  after them is under a mutex.
