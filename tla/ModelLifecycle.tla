-------------------------- MODULE ModelLifecycle --------------------------
(***************************************************************************)
(* Model memory: core/src/manager.cc and model.cc with the runtime's       *)
(* operation lease (runtime.h) and the jobs that load, unload, reload and  *)
(* use a model (api.cc, session.cc).  Platform threads deliver lifecycle   *)
(* events, which unload models on the spot and submit reload jobs; pool    *)
(* workers execute the jobs; any thread may drop the last reference to a   *)
(* model and then unloads it in the destructor.                            *)
(*                                                                         *)
(* A model has two locks here: oga_mutex_ and, process-wide, the runtime's *)
(* operation_mutex_; a session adds its request_mutex_.  The short         *)
(* sections under Model::mutex_ and Manager::mutex_ are atomic steps, but  *)
(* for the one of UnloadAllModels, which may run a destructor.  The job    *)
(* pool is reduced to a queue and to what races with its shutdown.         *)
(***************************************************************************)
EXTENDS Naturals, Sequences, FiniteSets

CONSTANTS Models,    \* the Model objects that may be constructed
          Workers,   \* the pool's threads
          Apps,      \* threads that call the ABI or deliver lifecycle events
          NoModel, NoThread,
          MaxJobs,   \* bound of the model: how many jobs the application submits
          MaxEvents  \* bound of the model: how many lifecycle events are delivered

ASSUME LifecycleAssumption == /\ Workers \cap Apps = {}
                              /\ NoModel \notin Models
                              /\ NoThread \notin Workers \cup Apps
                              /\ MaxJobs \in Nat /\ MaxEvents \in Nat

Threads == Workers \cup Apps

\* The jobs of api.cc: flm_manager_load_model_async, flm_model_load_async,
\* flm_model_unload_async, the reload that FOREGROUND submits, and a session's request.
JobKinds == {"make", "load", "unload", "reload", "infer"}

VARIABLES
  loaded,       \* Model::loaded_; also: oga_model_ and oga_tokenizer_ are not null
  liveObjects,  \* Runtime::live_objects_
  oga,          \* holder of Model::oga_mutex_
  request,      \* holder of the request_mutex_ of the model's session
  operation,    \* holder of Runtime::operation_mutex_
  listing,      \* holder of Manager::mutex_ while it goes through models_
  born, dying,  \* models constructed; models whose destructor has begun
  handle,       \* models with a handle in the table
  session,      \* models with a session handle in the table
  kept,         \* models held by the body of a finished job whose handle is kept
  registry,     \* Manager::models_ (weak)
  autoUnloaded, \* Manager::auto_unloaded_models_ (weak)
  autoUnload,   \* MutableSettings::auto_unload_on_background
  down,         \* Manager::shutdown_ and, from "pool" on, JobPool::shutting_down_
  queue,        \* JobPool::queue_
  submitted,    \* how many jobs the application has submitted
  events,       \* how many lifecycle events were delivered
  pc, at, kind, \* per thread: next step, the model it handles, the job it submits or executes
  todo, hold,   \* per thread: models still to unload or reload; models its list keeps
  back, after,  \* per thread: where to continue after one model, after its whole list
  due           \* per thread: models to be unloaded before the event's handler returns

modelVars == <<loaded, liveObjects, born, dying>>
lockVars == <<oga, request, operation, listing>>
tableVars == <<handle, session, kept>>
managerVars == <<registry, autoUnloaded, autoUnload, down>>
poolVars == <<queue, submitted>>
listVars == <<todo, hold, back, after>>
vars == <<modelVars, lockVars, tableVars, managerVars, poolVars, pc, at, kind, listVars, due,
          events>>

Init ==
  /\ loaded = [m \in Models |-> FALSE] /\ liveObjects = 0
  /\ oga = [m \in Models |-> NoThread] /\ request = [m \in Models |-> NoThread]
  /\ operation = NoThread /\ listing = NoThread
  /\ born = {} /\ dying = {} /\ handle = {} /\ session = {} /\ kept = {}
  /\ registry = {} /\ autoUnloaded = {} /\ autoUnload \in BOOLEAN /\ down = "no"
  /\ queue = <<>> /\ submitted = 0 /\ events = 0
  /\ pc = [t \in Threads |-> IF t \in Workers THEN "poll" ELSE "idle"]
  /\ at = [t \in Threads |-> NoModel]
  /\ kind = [t \in Threads |-> "make"]
  /\ todo = [t \in Threads |-> {}] /\ hold = [t \in Threads |-> {}]
  /\ back = [t \in Threads |-> "idle"] /\ after = [t \in Threads |-> "idle"]
  /\ due = [t \in Threads |-> {}]

-----------------------------------------------------------------------------
Goto(t, label) == pc' = [pc EXCEPT ![t] = label]

Enter(t, label, m) == Goto(t, label) /\ at' = [at EXCEPT ![t] = m]

\* Continue where the caller of Unload, or the owner of the dropped reference, goes on.
Resume(t, m) == Enter(t, back[t], m) /\ back' = [back EXCEPT ![t] = "idle"]

\* A shared pointer to the model exists: in the handle table (directly, through a session
\* or through a job), in a queued job, or in a thread.
Referenced(m) == \/ m \in handle \cup session \cup kept
                 \/ \E i \in 1..Len(queue) : queue[i].model = m
                 \/ \E t \in Threads : at[t] = m \/ m \in hold[t]

\* weak_ptr::lock() gives a pointer.
Lockable(m) == m \in born \ dying /\ Referenced(m)

\* The thread takes one reference out of where it is stored and is about to drop it.
Let(t, m, next) == Enter(t, "drop", m) /\ back' = [back EXCEPT ![t] = next]

\* The reference the thread drops is the last one.
LastReference(t) ==
  LET m == at[t] IN
  /\ m \notin handle \cup session \cup kept
  /\ \A i \in 1..Len(queue) : queue[i].model # m
  /\ \A u \in Threads : m \notin hold[u] /\ (u # t => at[u] # m)

Drop(t) ==
  /\ pc[t] = "drop"
  /\ IF LastReference(t)
       THEN dying' = dying \cup {at[t]} /\ Goto(t, "unloadOga") /\ UNCHANGED <<at, back>>
       ELSE Resume(t, NoModel) /\ UNCHANGED dying
  /\ UNCHANGED <<loaded, liveObjects, born, lockVars, tableVars, managerVars, poolVars,
                 kind, todo, hold, after, due, events>>

-----------------------------------------------------------------------------
(* Model::Unload: from an unload job, UnloadAllModels or ~Model.           *)

\* Fault: the model's lock is not taken.
UnloadOga_Unlocked(t) ==
  /\ pc[t] = "unloadOga"
  /\ Goto(t, "unloadOperation")
  /\ UNCHANGED <<modelVars, lockVars, tableVars, managerVars, poolVars, at, kind, listVars, due,
                 events>>

UnloadOga(t) ==
  /\ pc[t] = "unloadOga" /\ oga[at[t]] = NoThread
  /\ oga' = [oga EXCEPT ![at[t]] = t]
  /\ Goto(t, "unloadOperation")
  /\ UNCHANGED <<modelVars, request, operation, listing, tableVars, managerVars, poolVars, at, kind,
                 listVars, due, events>>

\* Fault: the runtime's lease is not taken.
UnloadOperation_Unlocked(t) ==
  /\ pc[t] = "unloadOperation"
  /\ Goto(t, "unload")
  /\ UNCHANGED <<modelVars, lockVars, tableVars, managerVars, poolVars, at, kind, listVars, due,
                 events>>

UnloadOperation(t) ==
  /\ pc[t] = "unloadOperation" /\ operation = NoThread
  /\ operation' = t
  /\ Goto(t, "unload")
  /\ UNCHANGED <<modelVars, oga, request, listing, tableVars, managerVars, poolVars, at, kind,
                 listVars, due, events>>

\* Fault: no test of loaded_.
Unload_Unconditional(t) ==
  /\ pc[t] = "unload"
  /\ loaded' = [loaded EXCEPT ![at[t]] = FALSE]
  /\ liveObjects' = IF liveObjects > 0 THEN liveObjects - 1 ELSE 99
  /\ oga' = [oga EXCEPT ![at[t]] = NoThread]
  /\ operation' = NoThread
  /\ due' = [u \in Threads |-> due[u] \ {at[t]}]
  /\ Resume(t, IF back[t] = "jobEnd" THEN at[t] ELSE NoModel)
  /\ UNCHANGED <<born, dying, request, listing, tableVars, managerVars, poolVars, kind, todo,
                 hold, after, events>>

\* The rest of Unload with both locks held, and their release.
Unload(t) ==
  /\ pc[t] = "unload"
  /\ loaded' = [loaded EXCEPT ![at[t]] = FALSE]
  /\ liveObjects' = IF loaded[at[t]] THEN liveObjects - 1 ELSE liveObjects
  /\ oga' = [oga EXCEPT ![at[t]] = NoThread]
  /\ operation' = NoThread
  /\ due' = [u \in Threads |-> due[u] \ {at[t]}]
  /\ Resume(t, IF back[t] = "jobEnd" THEN at[t] ELSE NoModel)
  /\ UNCHANGED <<born, dying, request, listing, tableVars, managerVars, poolVars, kind, todo,
                 hold, after, events>>

-----------------------------------------------------------------------------
(* The application: submitting jobs, sessions, releasing handles.          *)

\* SubmitJob for a model (or its session) whose handle resolves, past Manager::ThrowIfShutdown:
\* the job is made and gets its handle.  Its body holds the model from now on, but for a
\* load by package, whose model does not exist yet.
Submit(t, k, m) ==
  /\ pc[t] = "idle" /\ submitted < MaxJobs /\ down = "no"
  /\ \/ k \in {"load", "unload"} /\ m \in handle
     \/ k = "infer" /\ m \in session
     \/ k = "make" /\ m = NoModel
  /\ submitted' = submitted + 1
  /\ kind' = [kind EXCEPT ![t] = k]
  /\ back' = [back EXCEPT ![t] = "idle"]
  /\ Enter(t, "checked", m)
  /\ UNCHANGED <<modelVars, lockVars, tableVars, managerVars, queue, todo, hold, after, due,
                 events>>

PoolDown == down \in {"pool", "done"}

\* JobPool::Submit reads shutting_down_ before it takes the lock ...
SubmitAccepted(t) ==
  /\ pc[t] = "checked" /\ ~PoolDown
  /\ Goto(t, "push")
  /\ UNCHANGED <<modelVars, lockVars, tableVars, managerVars, poolVars, at, kind, listVars, due,
                 events>>

\* The submitting thread lets go of its job, and so of the model in the job's body.
LetJob(t, next) ==
  /\ kind' = [kind EXCEPT ![t] = "make"]
  /\ IF kind[t] = "make" THEN Goto(t, next) /\ UNCHANGED <<at, back>> ELSE Let(t, at[t], next)

\* ... and throws when it is set.  The job keeps its handle; a reload has none, and the throw
\* leaves NotifyLifecycle.
SubmitRefused(t) ==
  /\ pc[t] = "checked" /\ PoolDown
  /\ IF kind[t] = "reload"
       THEN todo' = [todo EXCEPT ![t] = {}] /\ UNCHANGED kept /\ LetJob(t, "dropping")
       ELSE /\ kept' = IF kind[t] = "make" THEN kept ELSE kept \cup {at[t]}
            /\ UNCHANGED todo /\ LetJob(t, "idle")
  /\ UNCHANGED <<modelVars, lockVars, handle, session, managerVars, poolVars, hold, after, due,
                 events>>

\* The push, which may come after the pool has drained its queue, and after its workers left.
SubmitPush(t) ==
  /\ pc[t] = "push"
  /\ queue' = Append(queue, [kind |-> kind[t], model |-> at[t]])
  /\ LetJob(t, back[t])
  /\ UNCHANGED <<modelVars, lockVars, tableVars, managerVars, submitted, todo, hold, after, due,
                 events>>

\* flm_session_create refuses a model that is not loaded.
SessionCreate(t, m) ==
  /\ pc[t] = "idle" /\ m \in handle \ session /\ loaded[m]
  /\ session' = session \cup {m}
  /\ UNCHANGED <<modelVars, lockVars, handle, kept, managerVars, poolVars, pc, at, kind,
                 listVars, due, events>>

\* flm_model_release, flm_session_release, flm_job_release.
ReleaseHandle(t, m) ==
  /\ pc[t] = "idle"
  /\ \/ m \in handle /\ handle' = handle \ {m} /\ UNCHANGED <<session, kept>>
     \/ m \in session /\ session' = session \ {m} /\ UNCHANGED <<handle, kept>>
     \/ m \in kept /\ kept' = kept \ {m} /\ UNCHANGED <<handle, session>>
  /\ Let(t, m, "idle")
  /\ UNCHANGED <<modelVars, lockVars, managerVars, poolVars, kind, todo, hold, after, due, events>>

UpdateSettings(t) ==
  /\ pc[t] = "idle" /\ listing = NoThread
  /\ autoUnload' = ~autoUnload
  /\ UNCHANGED <<modelVars, lockVars, tableVars, registry, autoUnloaded, down, poolVars, pc,
                 at, kind, listVars, due, events>>

-----------------------------------------------------------------------------
(* The workers.                                                            *)

JobBegins(k) == IF k \in {"load", "reload"} THEN "loadCheck"
                ELSE IF k = "unload" THEN "unloadOga" ELSE "inferRequest"

WorkerPop(w) ==
  /\ pc[w] = "poll" /\ queue # <<>> /\ Head(queue).kind # "make"
  /\ queue' = Tail(queue)
  /\ kind' = [kind EXCEPT ![w] = Head(queue).kind]
  /\ Enter(w, JobBegins(Head(queue).kind), Head(queue).model)
  /\ back' = [back EXCEPT ![w] = "jobEnd"]
  /\ UNCHANGED <<modelVars, lockVars, tableVars, managerVars, submitted, todo, hold, after, due,
                 events>>

\* The body of flm_manager_load_model_async makes the model, whose constructor may throw.
MakeBegins(w) ==
  /\ pc[w] = "poll" /\ queue # <<>> /\ Head(queue).kind = "make"
  /\ queue' = Tail(queue)
  /\ \/ \E m \in Models \ born : /\ born' = born \cup {m}
                                 /\ Enter(w, "loadCheck", m)
                                 /\ back' = [back EXCEPT ![w] = "jobEnd"]
     \/ UNCHANGED <<born, pc, at, back>>
  /\ UNCHANGED <<loaded, liveObjects, dying, lockVars, tableVars, managerVars, submitted, kind,
                 todo, hold, after, due, events>>

WorkerExit(w) ==
  /\ pc[w] = "poll" /\ queue = <<>> /\ down = "pool"
  /\ Goto(w, "exited")
  /\ UNCHANGED <<modelVars, lockVars, tableVars, managerVars, poolVars, at, kind, listVars, due,
                 events>>

\* The body has ended and the job's handle is released now or kept.  A reload has no
\* handle, and the body of flm_manager_load_model_async does not hold the model.
JobEnd(w) ==
  /\ pc[w] = "jobEnd"
  /\ \/ kept' = kept
     \/ kind[w] \in {"load", "unload", "infer"} /\ kept' = kept \cup {at[w]}
  /\ Let(w, at[w], "poll")
  /\ kind' = [kind EXCEPT ![w] = "make"]
  /\ UNCHANGED <<modelVars, lockVars, handle, session, managerVars, poolVars, todo, hold, after,
                 due, events>>

-----------------------------------------------------------------------------
(* Model::Load, also for Reload.                                           *)

\* ThrowIfShutdown, and IsCached, which the file system answers.
LoadCheck(w) ==
  /\ pc[w] = "loadCheck"
  /\ \/ down = "no" /\ Goto(w, "loadOga")
     \/ Goto(w, "jobEnd")
  /\ UNCHANGED <<modelVars, lockVars, tableVars, managerVars, poolVars, at, kind, listVars, due,
                 events>>

LoadOga(w) ==
  /\ pc[w] = "loadOga" /\ oga[at[w]] = NoThread
  /\ oga' = [oga EXCEPT ![at[w]] = w]
  /\ Goto(w, "loadOperation")
  /\ UNCHANGED <<modelVars, request, operation, listing, tableVars, managerVars, poolVars, at, kind,
                 listVars, due, events>>

LoadOperation(w) ==
  /\ pc[w] = "loadOperation" /\ operation = NoThread
  /\ operation' = w
  /\ Goto(w, "load")
  /\ UNCHANGED <<modelVars, oga, request, listing, tableVars, managerVars, poolVars, at, kind,
                 listVars, due, events>>

\* Fault: the locks are not given back when the load throws.
LoadFails_Locked(w) ==
  /\ pc[w] = "load" /\ ~loaded[at[w]]
  /\ Goto(w, "jobEnd")
  /\ UNCHANGED <<modelVars, lockVars, tableVars, managerVars, poolVars, at, kind, listVars, due,
                 events>>

\* Cancelled, over the memory budget, or refused by the runtime: the local OGA handles are
\* destroyed and the locks given back.
LoadFails(w) ==
  /\ pc[w] = "load" /\ ~loaded[at[w]]
  /\ oga' = [oga EXCEPT ![at[w]] = NoThread]
  /\ operation' = NoThread
  /\ Goto(w, "jobEnd")
  /\ UNCHANGED <<modelVars, request, listing, tableVars, managerVars, poolVars, at, kind,
                 listVars, due, events>>

\* The model is loaded, by this load or already.
LoadSucceeds(w) ==
  /\ pc[w] = "load"
  /\ loaded' = [loaded EXCEPT ![at[w]] = TRUE]
  /\ liveObjects' = IF loaded[at[w]] THEN liveObjects ELSE liveObjects + 1
  /\ Goto(w, "loaded")
  /\ UNCHANGED <<born, dying, lockVars, tableVars, managerVars, poolVars, at, kind, listVars,
                 due, events>>

\* Load reports its progress and returns, giving back the locks.
LoadReturns(w) ==
  /\ pc[w] = "loaded"
  /\ oga' = [oga EXCEPT ![at[w]] = NoThread]
  /\ operation' = NoThread
  /\ Goto(w, IF kind[w] = "make" THEN "register" ELSE "jobEnd")
  /\ UNCHANGED <<modelVars, request, listing, tableVars, managerVars, poolVars, at, kind,
                 listVars, due, events>>

\* flm_manager_load_model_async: Manager::RegisterModel, which also drops expired entries ...
MakeRegisters(w) ==
  /\ pc[w] = "register" /\ listing = NoThread
  /\ registry' = {m \in registry : Lockable(m)} \cup {at[w]}
  /\ Goto(w, "publish")
  /\ UNCHANGED <<modelVars, lockVars, tableVars, autoUnloaded, autoUnload, down, poolVars, at,
                 kind, listVars, due, events>>

\* ... and the handle.
MakePublishes(w) ==
  /\ pc[w] = "publish"
  /\ handle' = handle \cup {at[w]}
  /\ Goto(w, "jobEnd")
  /\ UNCHANGED <<modelVars, lockVars, session, kept, managerVars, poolVars, at, kind, listVars,
                 due, events>>

-----------------------------------------------------------------------------
(* A session's request: Complete, Transcribe, Embed.                       *)

InferRequest(w) ==
  /\ pc[w] = "inferRequest" /\ request[at[w]] = NoThread
  /\ request' = [request EXCEPT ![at[w]] = w]
  /\ Goto(w, "inferOga")
  /\ UNCHANGED <<modelVars, oga, operation, listing, tableVars, managerVars, poolVars, at, kind,
                 listVars, due, events>>

\* Fault: the operation lease is taken before the model's lock.
InferOga_Swapped(w) ==
  /\ pc[w] = "inferOga"
  /\ \/ /\ operation = NoThread
        /\ operation' = w /\ UNCHANGED <<oga, request, pc>>
     \/ /\ operation = w /\ oga[at[w]] = NoThread /\ loaded[at[w]]
        /\ oga' = [oga EXCEPT ![at[w]] = w] /\ Goto(w, "infer") /\ UNCHANGED <<request, operation>>
     \/ /\ operation = w /\ oga[at[w]] = NoThread /\ ~loaded[at[w]]
        /\ request' = [request EXCEPT ![at[w]] = NoThread]
        /\ operation' = NoThread /\ Goto(w, "jobEnd") /\ UNCHANGED oga
  /\ UNCHANGED <<modelVars, listing, tableVars, managerVars, poolVars, at, kind, listVars, due,
                 events>>

\* AcquireInferenceLease: refused when the model is not loaded.
InferOga(w) ==
  /\ pc[w] = "inferOga" /\ oga[at[w]] = NoThread
  /\ IF loaded[at[w]]
       THEN oga' = [oga EXCEPT ![at[w]] = w] /\ Goto(w, "inferOperation") /\ UNCHANGED request
       ELSE /\ request' = [request EXCEPT ![at[w]] = NoThread]
            /\ Goto(w, "jobEnd") /\ UNCHANGED oga
  /\ UNCHANGED <<modelVars, operation, listing, tableVars, managerVars, poolVars, at, kind,
                 listVars, due, events>>

InferOperation(w) ==
  /\ pc[w] = "inferOperation" /\ operation = NoThread
  /\ operation' = w
  /\ Goto(w, "infer")
  /\ UNCHANGED <<modelVars, oga, request, listing, tableVars, managerVars, poolVars, at, kind,
                 listVars, due, events>>

\* The request ends, well or not.
InferEnds(w) ==
  /\ pc[w] = "infer"
  /\ oga' = [oga EXCEPT ![at[w]] = NoThread]
  /\ request' = [request EXCEPT ![at[w]] = NoThread]
  /\ operation' = NoThread
  /\ Goto(w, "jobEnd")
  /\ UNCHANGED <<modelVars, listing, tableVars, managerVars, poolVars, at, kind, listVars, due,
                 events>>

-----------------------------------------------------------------------------
(* Manager::NotifyLifecycle and Manager::UnloadAllModels.                  *)

\* MEMORY_CRITICAL unloads always, BACKGROUND when the setting says so.
NotifyUnloads(t, event) ==
  /\ pc[t] = "idle" /\ events < MaxEvents
  /\ events' = events + 1
  /\ event = "BACKGROUND" => autoUnload /\ listing = NoThread
  /\ Goto(t, "collect")
  /\ after' = [after EXCEPT ![t] = "idle"]
  /\ due' = [due EXCEPT ![t] = {m \in registry : loaded[m]}]
  /\ UNCHANGED <<modelVars, lockVars, tableVars, managerVars, poolVars, at, kind, todo, hold, back>>

\* The lists are built under the manager's lock, one entry of models_ after the other.
Collect(t) ==
  /\ pc[t] = "collect" /\ listing = NoThread
  /\ listing' = t
  /\ todo' = [todo EXCEPT ![t] = registry]
  /\ Goto(t, "visiting")
  /\ UNCHANGED <<modelVars, oga, request, operation, tableVars, managerVars, poolVars, at, kind,
                 hold, back, after, due, events>>

\* Fault: a model that is in use is passed over.
Visit_SkipsBusy(t, m) ==
  /\ pc[t] = "visiting" /\ m \in todo[t]
  /\ todo' = [todo EXCEPT ![t] = @ \ {m}]
  /\ IF loaded[m] /\ oga[m] = NoThread /\ Lockable(m)
       THEN hold' = [hold EXCEPT ![t] = @ \cup {m}] ELSE UNCHANGED hold
  /\ registry' = IF Lockable(m) THEN registry ELSE registry \ {m}
  /\ UNCHANGED <<modelVars, lockVars, tableVars, autoUnloaded, autoUnload, down, poolVars, pc, at,
                 kind, back, after, due, events>>

\* An entry that has expired goes, a loaded model is listed.  The pointer to a model that is
\* not loaded is dropped at once, and may have become the last: then the destructor runs
\* under the manager's lock.
Visit(t, m) ==
  /\ pc[t] = "visiting" /\ m \in todo[t]
  /\ todo' = [todo EXCEPT ![t] = @ \ {m}]
  /\ \/ ~Lockable(m) /\ registry' = registry \ {m} /\ UNCHANGED <<hold, pc, at, back>>
     \/ /\ Lockable(m) /\ loaded[m] /\ hold' = [hold EXCEPT ![t] = @ \cup {m}]
        /\ UNCHANGED <<registry, pc, at, back>>
     \/ Lockable(m) /\ ~loaded[m] /\ Let(t, m, "visiting") /\ UNCHANGED <<registry, hold>>
  /\ UNCHANGED <<modelVars, lockVars, tableVars, autoUnloaded, autoUnload, down, poolVars, kind,
                 after, due, events>>

\* auto_unloaded_models_ is replaced, and the lock given back.
Collected(t) ==
  /\ pc[t] = "visiting" /\ todo[t] = {}
  /\ autoUnloaded' = hold[t]
  /\ todo' = [todo EXCEPT ![t] = hold[t]]
  /\ listing' = NoThread
  /\ Goto(t, "unloading")
  /\ UNCHANGED <<modelVars, oga, request, operation, tableVars, registry, autoUnload, down,
                 poolVars, at, kind, hold, back, after, due, events>>

UnloadNext(t) ==
  /\ pc[t] = "unloading"
  /\ \/ \E m \in todo[t] : /\ todo' = [todo EXCEPT ![t] = @ \ {m}]
                           /\ Enter(t, "unloadOga", m)
                           /\ back' = [back EXCEPT ![t] = "unloading"]
     \/ todo[t] = {} /\ Goto(t, "dropping") /\ UNCHANGED <<todo, at, back>>
  /\ UNCHANGED <<modelVars, lockVars, tableVars, managerVars, poolVars, kind, hold, after, due,
                 events>>

\* The local list goes out of scope, one reference after the other.
DropNext(t) ==
  /\ pc[t] = "dropping"
  /\ \/ \E m \in hold[t] : /\ hold' = [hold EXCEPT ![t] = @ \ {m}]
                           /\ Let(t, m, "dropping")
                           /\ UNCHANGED <<due, after>>
     \/ /\ hold[t] = {}
        /\ Goto(t, after[t])
        /\ after' = [after EXCEPT ![t] = "idle"]
        /\ due' = [due EXCEPT ![t] = {}]
        /\ UNCHANGED <<hold, at, back>>
  /\ UNCHANGED <<modelVars, lockVars, tableVars, managerVars, poolVars, kind, todo, events>>

\* FOREGROUND takes the models that were unloaded ...
NotifyForeground(t) ==
  /\ pc[t] = "idle" /\ events < MaxEvents /\ listing = NoThread
  /\ events' = events + 1
  /\ LET list == {m \in autoUnloaded : Lockable(m)} IN
     /\ todo' = [todo EXCEPT ![t] = list]
     /\ hold' = [hold EXCEPT ![t] = list]
  /\ autoUnloaded' = {}
  /\ Goto(t, "reloading")
  /\ after' = [after EXCEPT ![t] = "idle"]
  /\ UNCHANGED <<modelVars, lockVars, tableVars, registry, autoUnload, down, poolVars, at, kind,
                 back, due>>

\* ... and submits a reload for each that is on disk and not loaded.
ReloadNext(t) ==
  /\ pc[t] = "reloading"
  /\ \/ \E m \in todo[t] :
          /\ todo' = [todo EXCEPT ![t] = @ \ {m}]
          /\ \/ UNCHANGED <<pc, at, kind, back>>
             \/ /\ ~loaded[m]
                /\ kind' = [kind EXCEPT ![t] = "reload"]
                /\ back' = [back EXCEPT ![t] = "reloading"]
                /\ Enter(t, "checked", m)
     \/ todo[t] = {} /\ Goto(t, "dropping") /\ UNCHANGED <<todo, at, kind, back>>
  /\ UNCHANGED <<modelVars, lockVars, tableVars, managerVars, poolVars, hold, after, due, events>>

-----------------------------------------------------------------------------
(* Manager::Shutdown.                                                      *)

ShutdownBegin(t) ==
  /\ pc[t] = "idle" /\ down = "no"
  /\ down' = "manager"
  /\ Goto(t, "flag")
  /\ UNCHANGED <<modelVars, lockVars, tableVars, registry, autoUnloaded, autoUnload, poolVars,
                 at, kind, listVars, due, events>>

\* JobPool::Shutdown sets its flag ...
ShutdownFlag(t) ==
  /\ pc[t] = "flag"
  /\ down' = "pool"
  /\ Goto(t, "drain")
  /\ UNCHANGED <<modelVars, lockVars, tableVars, registry, autoUnloaded, autoUnload, poolVars,
                 at, kind, listVars, due, events>>

\* ... and then cancels the queued jobs and those in running_: jobs that a worker executes, or
\* that are over and have a handle yet.  Its list keeps them to the end.  The handle of a
\* cancelled job may be kept like any other.
ShutdownDrain(t) ==
  /\ pc[t] = "drain"
  /\ LET dropped(ks) == {queue[i].model : i \in {j \in 1..Len(queue) : queue[j].kind \in ks}}
         executed == {at[w] : w \in {u \in Workers : kind[u] # "make"}} IN
     \E over \in SUBSET kept, K \in SUBSET dropped({"load", "unload", "infer"}) :
       /\ hold' = [hold EXCEPT ![t] = dropped(JobKinds \ {"make"}) \cup executed \cup over]
       /\ kept' = kept \cup K
  /\ queue' = <<>>
  /\ Goto(t, "join")
  /\ UNCHANGED <<modelVars, lockVars, handle, session, managerVars, submitted, at, kind, todo,
                 back, after, due, events>>

\* Fault: UnloadAllModels does not wait for the workers.
ShutdownJoin_Detached(t) ==
  /\ pc[t] = "join"
  /\ Goto(t, "dropping")
  /\ after' = [after EXCEPT ![t] = "shutdownUnloads"]
  /\ UNCHANGED <<modelVars, lockVars, tableVars, managerVars, poolVars, at, kind, todo, hold,
                 back, due, events>>

ShutdownJoin(t) ==
  /\ pc[t] = "join" /\ \A w \in Workers : pc[w] = "exited"
  /\ Goto(t, "dropping")
  /\ after' = [after EXCEPT ![t] = "shutdownUnloads"]
  /\ UNCHANGED <<modelVars, lockVars, tableVars, managerVars, poolVars, at, kind, todo, hold,
                 back, due, events>>

ShutdownUnloads(t) ==
  /\ pc[t] = "shutdownUnloads"
  /\ Goto(t, "collect")
  /\ after' = [after EXCEPT ![t] = "clear"]
  /\ UNCHANGED <<modelVars, lockVars, tableVars, managerVars, poolVars, at, kind, todo, hold,
                 back, due, events>>

ShutdownClears(t) ==
  /\ pc[t] = "clear" /\ listing = NoThread
  /\ registry' = {} /\ autoUnloaded' = {}
  /\ down' = "done"
  /\ Goto(t, "idle")
  /\ UNCHANGED <<modelVars, lockVars, tableVars, autoUnload, poolVars, at, kind, listVars, due,
                 events>>

-----------------------------------------------------------------------------
\* A thread goes on with what it is doing.
UnloadStep(t) == UnloadOga(t) \/ UnloadOperation(t) \/ Unload(t) \/ Drop(t)

AppStep(t) ==
  \/ UnloadStep(t) \/ SubmitAccepted(t) \/ SubmitRefused(t) \/ SubmitPush(t)
  \/ Collect(t) \/ Collected(t) \/ \E m \in Models : Visit(t, m)
  \/ UnloadNext(t) \/ DropNext(t) \/ ReloadNext(t)
  \/ ShutdownFlag(t) \/ ShutdownDrain(t) \/ ShutdownJoin(t) \/ ShutdownUnloads(t)
  \/ ShutdownClears(t)

WorkerStep(w) ==
  \/ UnloadStep(w) \/ WorkerPop(w) \/ MakeBegins(w) \/ WorkerExit(w) \/ JobEnd(w)
  \/ LoadCheck(w) \/ LoadOga(w) \/ LoadOperation(w) \/ LoadFails(w) \/ LoadSucceeds(w)
  \/ LoadReturns(w) \/ MakeRegisters(w) \/ MakePublishes(w)
  \/ InferRequest(w) \/ InferOga(w) \/ InferOperation(w)

\* The application makes a call.
AppCall(t) ==
  \/ \E k \in JobKinds \ {"reload"}, m \in Models \cup {NoModel} : Submit(t, k, m)
  \/ \E m \in Models : SessionCreate(t, m) \/ ReleaseHandle(t, m)
  \/ UpdateSettings(t)
  \/ \E event \in {"MEMORY_CRITICAL", "BACKGROUND"} : NotifyUnloads(t, event)
  \/ NotifyForeground(t)
  \/ ShutdownBegin(t)

Next == \/ \E t \in Apps : AppStep(t) \/ AppCall(t)
        \/ \E w \in Workers : WorkerStep(w) \/ InferEnds(w)

Spec == Init /\ [][Next]_vars

\* Every thread that can go on does.  A request ends by itself, and a streaming transcription
\* because the application pushes its last chunk or cancels it.
FairSpec == /\ Spec
            /\ \A t \in Apps : WF_vars(AppStep(t))
            /\ \A w \in Workers : WF_vars(WorkerStep(w)) /\ WF_vars(InferEnds(w))

-----------------------------------------------------------------------------
Jobs == [kind : JobKinds \ {"make"}, model : Models] \cup [kind : {"make"}, model : {NoModel}]

AppLabels == {"idle", "checked", "push", "collect", "visiting", "unloading", "dropping",
              "reloading", "flag", "drain", "join", "shutdownUnloads", "clear"}
WorkerLabels == {"poll", "exited", "jobEnd", "loadCheck", "loadOga", "loadOperation", "load",
                 "loaded", "register", "publish", "inferRequest", "inferOga",
                 "inferOperation", "infer"}
Returns == {"idle", "poll", "jobEnd", "visiting", "unloading", "dropping", "reloading"}
UnloadLabels == {"drop", "unloadOga", "unloadOperation", "unload"}

TypeOK ==
  /\ loaded \in [Models -> BOOLEAN] /\ liveObjects \in Nat
  /\ oga \in [Models -> Threads \cup {NoThread}]
  /\ request \in [Models -> Threads \cup {NoThread}]
  /\ operation \in Threads \cup {NoThread} /\ listing \in Threads \cup {NoThread}
  /\ born \subseteq Models /\ dying \subseteq born
  /\ handle \subseteq born /\ session \subseteq born /\ kept \subseteq born
  /\ registry \subseteq born /\ autoUnloaded \subseteq born
  /\ autoUnload \in BOOLEAN /\ down \in {"no", "manager", "pool", "done"}
  /\ queue \in Seq(Jobs) /\ submitted \in 0..MaxJobs /\ events \in 0..MaxEvents
  /\ pc \in [Threads -> AppLabels \cup WorkerLabels \cup UnloadLabels]
  /\ at \in [Threads -> Models \cup {NoModel}] /\ kind \in [Threads -> JobKinds]
  /\ todo \in [Threads -> SUBSET Models] /\ hold \in [Threads -> SUBSET Models]
  /\ back \in [Threads -> Returns]
  /\ after \in [Threads -> {"idle", "shutdownUnloads", "clear"}]
  /\ due \in [Threads -> SUBSET Models]

\* A model whose inference lease is held stays loaded and is not destroyed, whatever
\* lifecycle event, unload job or release of a handle comes in between.
LeaseProtects ==
  \A w \in Workers : pc[w] \in {"inferOperation", "infer"} =>
    loaded[at[w]] /\ at[w] \notin dying

\* OGA's C API is not thread-safe: no two threads are inside a load, an unload or an
\* inference, on any models.
OneOperation ==
  LET inside == {"load", "loaded", "unload", "infer"} IN
  \A t, u \in Threads : pc[t] \in inside /\ pc[u] \in inside => t = u

\* Runtime::live_objects_ counts the loaded models, and a destroyed model is not among
\* them: memory is given back exactly once on every path.
RuntimeBalanced ==
  /\ liveObjects = Cardinality({m \in Models : loaded[m]})
  /\ \A m \in dying : loaded[m] => \E t \in Threads : at[t] = m

\* Once Manager::Shutdown is done nothing is loaded, except what another thread's
\* destructor is about to unload; loads that raced with the shutdown included.
NothingLoadedAfterShutdown ==
  down = "done" => \A m \in Models : loaded[m] => m \in dying

\* When the handler of an unloading event returns, every model that was registered and
\* loaded when the event came has been unloaded since, by this thread or another, or its
\* destructor is doing so.
EventUnloads ==
  \A t \in Apps : pc[t] = "dropping" /\ hold[t] = {} => due[t] \subseteq dying

-----------------------------------------------------------------------------
(* Why the safety properties hold: the parts of an inductive invariant.    *)

\* The locks a thread has taken follow from where it is.
OgaHeld == {"unloadOperation", "unload", "loadOperation", "load", "loaded", "inferOperation",
            "infer"}
OperationHeld == {"unload", "load", "loaded", "infer"}

\* Inside a call that goes on at where: an unload, the drop of a reference, a submission.
InUnload(t, where) == pc[t] \in UnloadLabels /\ back[t] = where
Submitting(t) == pc[t] \in {"checked", "push"}

\* Going through models_, through the list of an event or of the shutdown, and submitting
\* reloads, also inside a call.
Visiting(t) == pc[t] = "visiting" \/ InUnload(t, "visiting")
Listing(t) == \/ pc[t] \in {"unloading", "dropping"}
              \/ InUnload(t, "unloading") \/ InUnload(t, "dropping")
Reloading(t) == \/ pc[t] = "reloading"
                \/ InUnload(t, "reloading")
                \/ Submitting(t) /\ back[t] = "reloading"

LockInv ==
  \A t \in Threads : /\ pc[t] \in OgaHeld => oga[at[t]] = t
                     /\ pc[t] \in OperationHeld => operation = t

ListingInv == \A t \in Threads : Visiting(t) => listing = t

Handling == UnloadLabels \cup (WorkerLabels \ {"poll", "exited"})

\* Running the destructor of the model it handles.
Destroying(t) == pc[t] \in UnloadLabels \ {"drop"} /\ back[t] \notin {"jobEnd", "unloading"}

\* What a thread handles and what its lists keep, by where it is.
ThreadInv(t) ==
  /\ pc[t] \in UnloadLabels \cup (IF t \in Workers THEN WorkerLabels ELSE AppLabels)
  /\ IF pc[t] \in Handling \/ (Submitting(t) /\ kind[t] # "make")
       THEN at[t] \in born ELSE at[t] = NoModel
  /\ kind[t] # "make" => Submitting(t) \/ (t \in Workers /\ at[t] \in born /\ ~Destroying(t))
  /\ pc[t] \in UnloadLabels =>
       back[t] \in (IF t \in Workers THEN {"poll", "jobEnd"} ELSE Returns \ {"poll", "jobEnd"})
  /\ pc[t] = "drop" => back[t] \notin {"jobEnd", "unloading"} /\ kind[t] = "make"
  /\ InUnload(t, "reloading") => pc[t] = "drop" /\ at[t] \in hold[t]
  /\ Submitting(t) => IF kind[t] = "reload" THEN back[t] = "reloading" /\ at[t] \in hold[t]
                                            ELSE back[t] = "idle"
  /\ InUnload(t, "unloading") => at[t] \in hold[t]
  /\ hold[t] \cup todo[t] \subseteq born
  /\ IF Visiting(t) THEN hold[t] \cup todo[t] \subseteq registry \cup dying
                     ELSE todo[t] \subseteq hold[t]
  /\ hold[t] # {} => Visiting(t) \/ Listing(t) \/ Reloading(t) \/ pc[t] = "join"
  /\ todo[t] # {} => Visiting(t) \/ pc[t] = "unloading" \/ InUnload(t, "unloading") \/ Reloading(t)
  /\ after[t] # "idle" \/ due[t] # {} => pc[t] = "collect" \/ Visiting(t) \/ Listing(t)

\* A model whose destructor runs is known to its destroyer only, who has it unloaded before
\* it lets go.
Forgotten(m) ==
  /\ m \notin handle \cup session \cup kept
  /\ \A i \in 1..Len(queue) : queue[i].model # m
  /\ \A t \in Threads : m \notin hold[t] /\ (at[t] = m => Destroying(t))
  /\ loaded[m] => \E t \in Threads : at[t] = m

DyingInv == /\ \A t \in Threads : Destroying(t) => at[t] \in dying
            /\ \A m \in dying : Forgotten(m)

\* A queued job holds its model, also when nobody will execute it any more; a load by
\* package has none yet.
QueueInv == \A i \in 1..Len(queue) : queue[i].kind # "make" => queue[i].model \in born

\* A model that Manager::models_ does not have is in the hands of the load that makes it.
InTheMaking(m) ==
  /\ m \notin handle \cup session \cup kept
  /\ \A i \in 1..Len(queue) : queue[i].model # m
  /\ \A t \in Threads : /\ m \notin hold[t]
                        /\ at[t] = m => t \in Workers /\ kind[t] = "make" /\ pc[t] # "publish"
  /\ loaded[m] => \E w \in Workers : at[w] = m /\ pc[w] \in {"loaded", "register"}

\* What the manager's lists keep, and what they miss: locking a weak pointer fails only when
\* the model's destructor has begun.
EvictedKnown == autoUnloaded \subseteq registry \cup dying
LoadedBorn == \A m \in Models : loaded[m] => m \in born
LiveReferenced == \A m \in born \ dying : m \in registry \/ loaded[m] => Referenced(m)
UnlistedInTheMaking == down # "done" => \A m \in born \ (dying \cup registry) : InTheMaking(m)

RegistryInv == EvictedKnown /\ LoadedBorn /\ LiveReferenced /\ UnlistedInTheMaking

\* How far the shutdown is: one thread is inside it, and once past the joins it is alone.
Past(t) == pc[t] \in {"shutdownUnloads", "clear"} \/ after[t] # "idle"
Shutting(t) == pc[t] \in {"flag", "drain", "join"} \/ Past(t)

ShutdownInv ==
  /\ \A t, u \in Threads : Shutting(t) /\ Shutting(u) => t = u
  /\ \A t \in Threads : /\ pc[t] = "flag" => down = "manager"
                        /\ pc[t] \in {"drain", "join"} \/ Past(t) => down = "pool"
  /\ (down = "done" \/ \E t \in Threads : Past(t)) => \A w \in Workers : pc[w] = "exited"

\* The models a thread has yet to see unloaded before its event, or the shutdown, is over:
\* each is on its list, or is being destroyed.
Owed(t) == IF after[t] = "clear" \/ pc[t] = "clear" THEN {m \in Models : loaded[m]} ELSE due[t]

OwedOK(t) ==
  /\ \A m \in due[t] : loaded[m]
  /\ pc[t] = "collect" => Owed(t) \subseteq registry \cup dying
  /\ Visiting(t) => Owed(t) \subseteq todo[t] \cup hold[t] \cup dying
  /\ pc[t] = "unloading" => Owed(t) \subseteq todo[t] \cup dying
  /\ InUnload(t, "unloading") => Owed(t) \subseteq todo[t] \cup {at[t]} \cup dying
  /\ pc[t] \in {"dropping", "clear"} \/ InUnload(t, "dropping") => Owed(t) \subseteq dying

OwedInv == \A t \in Threads : OwedOK(t)

\* Runtime::live_objects_ is the number of loaded models.
Counted == LET Loaded == {m \in Models : loaded[m]} IN
           IsFiniteSet(Loaded) /\ liveObjects = Cardinality(Loaded)

Inv ==
  /\ TypeOK /\ (\A t \in Threads : ThreadInv(t)) /\ LockInv /\ ListingInv /\ DyingInv /\ QueueInv
  /\ RegistryInv /\ ShutdownInv /\ OwedInv /\ Counted
  /\ LeaseProtects /\ NothingLoadedAfterShutdown

\* Nobody waits for ever for the manager's lock, a session's, a model's or the runtime's: they
\* are always taken in the same order, also by a destructor that runs under the manager's.
LockWaits == {"loadOga", "loadOperation", "unloadOga", "unloadOperation", "inferRequest",
              "inferOga", "inferOperation", "collect", "register", "clear"}

EveryLockIsGranted == \A t \in Threads : (pc[t] \in LockWaits) ~> (pc[t] \notin LockWaits)

\* Manager::Shutdown finishes: its workers end and its unloads get their locks.
ShutdownFinishes == (down = "manager") ~> (down = "done")

-----------------------------------------------------------------------------
(* What the documentation says and the code does not do.                   *)

\* flm_types.h on FLM_LIFECYCLE_FOREGROUND: "Reload eagerly-unloaded models."  A registered
\* model that a lifecycle event found loaded and unloaded is on the list that FOREGROUND
\* takes, until it is loaded again.
EvictedAreListed ==
  [][\A t \in Apps : Collected(t) =>
       \A m \in autoUnloaded : Lockable(m) /\ ~loaded[m] => m \in autoUnloaded']_vars
=============================================================================
