------------------------------ MODULE JobPool ------------------------------
(***************************************************************************)
(* The asynchronous job engine of the core (core/src/job.h, job.cc) with   *)
(* the flm_job_* entry points of api.cc.  A job is claimed by an atomic    *)
(* compare-and-swap on its state, finished once under its own lock, and    *)
(* reported to its owner through the completion callback, which runs       *)
(* outside every lock.  Workers take jobs from a queue guarded by a mutex  *)
(* and a condition variable; any other thread may submit, cancel, wait     *)
(* for, take the result of, and release a job, or shut the pool down.      *)
(*                                                                         *)
(* One action is one atomic access or one critical section of the code, so *)
(* every interleaving of them that threads can produce is a behaviour.     *)
(***************************************************************************)
EXTENDS Naturals, Sequences, FiniteSets

CONSTANTS Jobs,        \* the jobs that may be submitted
          Undumpable,  \* those whose result may hold text that is not UTF-8
          Workers,     \* the pool's threads
          Clients,     \* the threads that call the ABI
          NoJob,       \* "this thread is not handling a job"
          NoThread     \* "no thread is inside JobPool::Shutdown"

ASSUME ConstantsAssumption ==
  /\ Undumpable \subseteq Jobs
  /\ Workers \cap Clients = {}
  /\ NoJob \notin Jobs
  /\ NoThread \notin Workers \cup Clients

Threads == Workers \cup Clients

Terminal == {"SUCCEEDED", "FAILED", "CANCELLED"}
JobStates == {"PENDING", "RUNNING"} \cup Terminal

\* The flm_status values a job can end with, as far as the pool tells them apart.
Statuses == {"OK", "CANCELLED", "ERROR"}

VARIABLES
  state,            \* Job::state_
  cancelRequested,  \* Job::cancel_requested_
  finished,         \* Job::finished_
  status,           \* Job::status_
  result,           \* Job::result_json_ holds a value
  phase,            \* how far flm_*_async has come for this job
  released,         \* the job's handle was removed from the handle table
  fired,            \* how often the completion callback has returned
  told,             \* the status the completion callback was given
  taken,            \* how often the result was handed to a caller
  queue,            \* JobPool::queue_
  running,          \* JobPool::running_ (weak pointers)
  shuttingDown,     \* JobPool::shutting_down_
  shutter,          \* the thread inside JobPool::Shutdown past the exchange
  toCancel,         \* Shutdown's local list to_cancel
  pc, at, out       \* per thread: next step, the job it handles, the status it carries

jobVars  == <<state, cancelRequested, finished, status, result>>
userVars == <<phase, released, fired, told, taken>>
poolVars == <<queue, running, shuttingDown, shutter, toCancel>>
vars == <<jobVars, userVars, poolVars, pc, at, out>>

\* Labels of a thread that has won a job's compare-and-swap and has not reported it yet.
Owning == {"body", "returned", "store", "finish", "callback"}

WorkerLabels == {"poll", "asleep", "claim", "exited"} \cup Owning
ClientLabels == {"idle", "push", "notify", "cas", "finish", "callback", "wait",
                 "takeState", "takeRaise", "collect", "cancelling", "join"}

Init ==
  /\ state = [j \in Jobs |-> "PENDING"]
  /\ cancelRequested = [j \in Jobs |-> FALSE]
  /\ finished = [j \in Jobs |-> FALSE]
  /\ status = [j \in Jobs |-> "OK"]
  /\ result = [j \in Jobs |-> FALSE]
  /\ phase = [j \in Jobs |-> "new"]
  /\ released = [j \in Jobs |-> FALSE]
  /\ fired = [j \in Jobs |-> 0]
  /\ told = [j \in Jobs |-> "none"]
  /\ taken = [j \in Jobs |-> 0]
  /\ queue = <<>>
  /\ running = {}
  /\ shuttingDown = FALSE
  /\ shutter = NoThread
  /\ toCancel = {}
  /\ pc = [t \in Threads |-> IF t \in Workers THEN "poll" ELSE "idle"]
  /\ at = [t \in Threads |-> NoJob]
  /\ out = [t \in Threads |-> "OK"]

-----------------------------------------------------------------------------
(* Moving a thread.                                                        *)

Goto(t, label) == pc' = [pc EXCEPT ![t] = label]

Enter(t, label, j) == Goto(t, label) /\ at' = [at EXCEPT ![t] = j]

\* Where a thread continues after Cancel() or Execute(): a worker in its loop, the
\* thread inside Shutdown with the next job of to_cancel, any other in its caller.
Resume(t) == IF t \in Workers THEN "poll"
             ELSE IF t = shutter THEN "cancelling" ELSE "idle"

Return(t) == Enter(t, Resume(t), NoJob)

Queued == {queue[i] : i \in 1..Len(queue)}

\* running_ holds weak pointers: an entry counts while the handle table, the queue or a
\* thread still refers to the job.
Alive(j) == \/ ~released[j]
            \/ j \in Queued
            \/ \E t \in Threads : at[t] = j

\* A job whose handle a caller can know and still use: flm_*_async published it, also
\* when Submit threw afterwards.
Known(j) == phase[j] \in {"pushed", "rejected"} /\ ~released[j]

-----------------------------------------------------------------------------
(* JobPool::Submit: the flag is read before the lock is taken.             *)

SubmitRefused(c, j) ==
  /\ pc[c] = "idle" /\ phase[j] = "new" /\ shuttingDown
  /\ phase' = [phase EXCEPT ![j] = "rejected"]
  /\ UNCHANGED <<jobVars, released, fired, told, taken, poolVars, pc, at, out>>

SubmitAccepted(c, j) ==
  /\ pc[c] = "idle" /\ phase[j] = "new" /\ ~shuttingDown
  /\ phase' = [phase EXCEPT ![j] = "checked"]
  /\ Enter(c, "push", j)
  /\ UNCHANGED <<jobVars, released, fired, told, taken, poolVars, out>>

\* Fault: the moved-from pointer is pushed.
SubmitPush_MovedFrom(c) ==
  /\ pc[c] = "push"
  /\ queue' = Append(queue, NoJob)
  /\ phase' = [phase EXCEPT ![at[c]] = "pushed"]
  /\ Goto(c, "notify")
  /\ UNCHANGED <<jobVars, released, fired, told, taken, running, shuttingDown,
                 shutter, toCancel, at, out>>

SubmitPush(c) ==
  /\ pc[c] = "push"
  /\ queue' = Append(queue, at[c])
  /\ phase' = [phase EXCEPT ![at[c]] = "pushed"]
  /\ Goto(c, "notify")
  /\ UNCHANGED <<jobVars, released, fired, told, taken, running, shuttingDown,
                 shutter, toCancel, at, out>>

\* cv_.notify_one(): wakes one sleeping worker, if there is one.
SubmitNotify(c) ==
  /\ pc[c] = "notify"
  /\ LET Sleepers == {w \in Workers : pc[w] = "asleep"} IN
     \/ Sleepers = {} /\ Goto(c, "idle")
     \/ \E w \in Sleepers : pc' = [pc EXCEPT ![w] = "poll", ![c] = "idle"]
  /\ at' = [at EXCEPT ![c] = NoJob]
  /\ UNCHANGED <<jobVars, userVars, poolVars, out>>

-----------------------------------------------------------------------------
(* JobPool::WorkerLoop.  "poll" is the evaluation of the wait predicate    *)
(* with the lock held.                                                     *)

WorkerSleep(w) ==
  /\ pc[w] = "poll" /\ queue = <<>> /\ ~shuttingDown
  /\ Goto(w, "asleep")
  /\ UNCHANGED <<jobVars, userVars, poolVars, at, out>>

\* A condition variable may wake a thread for no reason.
WorkerWakesSpuriously(w) ==
  /\ pc[w] = "asleep"
  /\ Goto(w, "poll")
  /\ UNCHANGED <<jobVars, userVars, poolVars, at, out>>

WorkerExit(w) ==
  /\ pc[w] = "poll" /\ queue = <<>> /\ shuttingDown
  /\ Goto(w, "exited")
  /\ UNCHANGED <<jobVars, userVars, poolVars, at, out>>

WorkerPop(w) ==
  /\ pc[w] = "poll" /\ queue # <<>>
  /\ queue' = Tail(queue)
  /\ running' = {j \in running : Alive(j)} \cup {Head(queue)}
  /\ Enter(w, "claim", Head(queue))
  /\ UNCHANGED <<jobVars, userVars, shuttingDown, shutter, toCancel, out>>

-----------------------------------------------------------------------------
(* Job::Execute.                                                           *)

\* Fault: a plain store instead of the compare-and-swap.
Claim_Blind(w) ==
  /\ pc[w] = "claim"
  /\ state' = [state EXCEPT ![at[w]] = "RUNNING"]
  /\ Goto(w, "body")
  /\ UNCHANGED <<cancelRequested, finished, status, result, userVars, poolVars, at, out>>

\* The compare-and-swap PENDING -> RUNNING; on failure the job was cancelled first.
Claim(w) ==
  /\ pc[w] = "claim"
  /\ IF state[at[w]] = "PENDING"
       THEN state' = [state EXCEPT ![at[w]] = "RUNNING"] /\ Goto(w, "body") /\ UNCHANGED at
       ELSE Return(w) /\ UNCHANGED state
  /\ UNCHANGED <<cancelRequested, finished, status, result, userVars, poolVars, out>>

\* A progress or delta callback asks for cancellation: Job::Cancel on the worker's own
\* thread, whose compare-and-swap fails because the job is running.
CallbackCancels(w) ==
  /\ pc[w] = "body"
  /\ cancelRequested' = [cancelRequested EXCEPT ![at[w]] = TRUE]
  /\ UNCHANGED <<state, finished, status, result, userVars, poolVars, pc, at, out>>

BodyReturns(w) ==
  /\ pc[w] = "body"
  /\ Goto(w, "returned")
  /\ UNCHANGED <<jobVars, userVars, poolVars, at, out>>

\* The body throws: ThrowIfCancelled and a cancelled runtime call give CANCELLED.
BodyThrows(w) ==
  /\ pc[w] = "body"
  /\ \E s \in {"CANCELLED", "ERROR"} : out' = [out EXCEPT ![w] = s]
  /\ Goto(w, "store")
  /\ UNCHANGED <<jobVars, userVars, poolVars, at>>

CheckCancel(w) ==
  /\ pc[w] = "returned"
  /\ out' = [out EXCEPT ![w] = IF cancelRequested[at[w]] THEN "CANCELLED" ELSE "OK"]
  /\ Goto(w, "store")
  /\ UNCHANGED <<jobVars, userVars, poolVars, at>>

StateOf(s) == IF s = "OK" THEN "SUCCEEDED" ELSE IF s = "CANCELLED" THEN "CANCELLED" ELSE "FAILED"

\* state_ becomes terminal before Finish records the outcome.  After FinishThrows it is the
\* catch clause's store, which overwrites a terminal state.
StoreState(w) ==
  /\ pc[w] = "store"
  /\ state' = [state EXCEPT ![at[w]] = StateOf(out[w])]
  /\ Goto(w, "finish")
  /\ UNCHANGED <<cancelRequested, finished, status, result, userVars, poolVars, at, out>>

-----------------------------------------------------------------------------
(* Job::Finish: the critical section, then the callback outside the lock.  *)

\* Fault: finished_ is not set.
Finish_NoFlag(t) ==
  /\ pc[t] = "finish"
  /\ status' = [status EXCEPT ![at[t]] = out[t]]
  /\ result' = [result EXCEPT ![at[t]] = (out[t] = "OK")]
  /\ Goto(t, "callback")
  /\ UNCHANGED <<state, cancelRequested, finished, userVars, poolVars, at, out>>

\* Fault: the result is kept whatever the status.
Finish_KeepsResult(t) ==
  /\ pc[t] = "finish"
  /\ finished' = [finished EXCEPT ![at[t]] = TRUE]
  /\ status' = [status EXCEPT ![at[t]] = out[t]]
  /\ result' = [result EXCEPT ![at[t]] = TRUE]
  /\ Goto(t, "callback")
  /\ UNCHANGED <<state, cancelRequested, userVars, poolVars, at, out>>

Finish(t) ==
  /\ pc[t] = "finish"
  /\ LET j == at[t] IN
     IF finished[j]
       THEN /\ Return(t) /\ out' = [out EXCEPT ![t] = "OK"]
            /\ UNCHANGED <<finished, status, result>>
       ELSE /\ finished' = [finished EXCEPT ![j] = TRUE]
            /\ status' = [status EXCEPT ![j] = out[t]]
            /\ result' = [result EXCEPT ![j] = (out[t] = "OK")]
            /\ Goto(t, "callback") /\ UNCHANGED <<at, out>>
  /\ UNCHANGED <<state, cancelRequested, userVars, poolVars>>

\* Serialising the result may throw after finished_ was set: nothing is recorded, and
\* Execute's catch clause stores FAILED and calls Finish again, which returns at the flag,
\* without a notify or a callback.  (An error's text that cannot be serialised throws out
\* of the catch clause and ends the process; that is left out.)
FinishThrows(w) ==
  /\ pc[w] = "finish" /\ out[w] = "OK"
  /\ at[w] \in Undumpable /\ ~finished[at[w]]
  /\ finished' = [finished EXCEPT ![at[w]] = TRUE]
  /\ out' = [out EXCEPT ![w] = "ERROR"]
  /\ Goto(w, "store")
  /\ UNCHANGED <<state, cancelRequested, status, result, userVars, poolVars, at>>

\* A finished job that Finish recorded nothing of and nobody is told about.
Unrecorded(j) ==
  /\ j \in Undumpable /\ finished[j] /\ status[j] = "OK"
  /\ fired[j] = 0 /\ ~result[j] /\ taken[j] = 0

Callback(t) ==
  /\ pc[t] = "callback"
  /\ fired' = [fired EXCEPT ![at[t]] = @ + 1]
  /\ told' = [told EXCEPT ![at[t]] = out[t]]
  /\ out' = [out EXCEPT ![t] = "OK"]
  /\ Return(t)
  /\ UNCHANGED <<jobVars, phase, released, taken, poolVars>>

-----------------------------------------------------------------------------
(* Job::Cancel, from flm_job_cancel and from Shutdown.                     *)

CancelRequest(c, j) ==
  /\ pc[c] = "idle" /\ Known(j)
  /\ cancelRequested' = [cancelRequested EXCEPT ![j] = TRUE]
  /\ Enter(c, "cas", j)
  /\ UNCHANGED <<state, finished, status, result, userVars, poolVars, out>>

\* Fault: the state is overwritten without comparing.
CancelSwap_Blind(c) ==
  /\ pc[c] = "cas"
  /\ state' = [state EXCEPT ![at[c]] = "CANCELLED"]
  /\ out' = [out EXCEPT ![c] = "CANCELLED"]
  /\ Goto(c, "finish")
  /\ UNCHANGED <<cancelRequested, finished, status, result, userVars, poolVars, at>>

CancelSwap(c) ==
  /\ pc[c] = "cas"
  /\ IF state[at[c]] = "PENDING"
       THEN /\ state' = [state EXCEPT ![at[c]] = "CANCELLED"]
            /\ out' = [out EXCEPT ![c] = "CANCELLED"]
            /\ Goto(c, "finish") /\ UNCHANGED at
       ELSE Return(c) /\ UNCHANGED <<state, out>>
  /\ UNCHANGED <<cancelRequested, finished, status, result, userVars, poolVars>>

-----------------------------------------------------------------------------
(* flm_job_wait, flm_job_take_result_json, flm_job_release.                *)

WaitStart(c, j) ==
  /\ pc[c] = "idle" /\ Known(j)
  /\ Enter(c, "wait", j)
  /\ UNCHANGED <<jobVars, userVars, poolVars, out>>

\* Woken by notify_all, which Finish does not reach when it throws.
WaitReturn(c) ==
  /\ pc[c] = "wait" /\ finished[at[c]] /\ ~Unrecorded(at[c])
  /\ Return(c)
  /\ UNCHANGED <<jobVars, userVars, poolVars, out>>

\* The time is over, or the thread wakes for no reason and finds finished_ set.
WaitTimeout(c) ==
  /\ pc[c] = "wait"
  /\ Return(c)
  /\ UNCHANGED <<jobVars, userVars, poolVars, out>>

\* Fault: the result is copied out and not reset.
TakeResult_Keeps(c, j) ==
  /\ pc[c] = "idle" /\ Known(j) /\ result[j]
  /\ taken' = [taken EXCEPT ![j] = @ + 1]
  /\ UNCHANGED <<jobVars, phase, released, fired, told, poolVars, pc, at, out>>

TakeResult(c, j) ==
  /\ pc[c] = "idle" /\ Known(j)
  /\ IF result[j]
       THEN /\ result' = [result EXCEPT ![j] = FALSE]
            /\ taken' = [taken EXCEPT ![j] = @ + 1]
            /\ UNCHANGED <<pc, at>>
       ELSE Enter(c, "takeState", j) /\ UNCHANGED <<result, taken>>
  /\ UNCHANGED <<state, cancelRequested, finished, status, phase, released, fired,
                 told, poolVars, out>>

\* No result: "the job has not finished yet" unless state_ is terminal.
TakeReadsState(c) ==
  /\ pc[c] = "takeState"
  /\ IF state[at[c]] \in Terminal
       THEN Goto(c, "takeRaise") /\ UNCHANGED at
       ELSE Return(c)
  /\ UNCHANGED <<jobVars, userVars, poolVars, out>>

\* ThrowIfFailed re-raises the failure the job ended with ...
TakeReportsFailure(c) ==
  /\ pc[c] = "takeRaise" /\ status[at[c]] # "OK"
  /\ Return(c)
  /\ UNCHANGED <<jobVars, userVars, poolVars, out>>

\* ... and otherwise the caller is told that the result has already been taken.
TakeReportsTaken(c) ==
  /\ pc[c] = "takeRaise" /\ status[at[c]] = "OK"
  /\ Return(c)
  /\ UNCHANGED <<jobVars, userVars, poolVars, out>>

Release(c, j) ==
  /\ pc[c] = "idle" /\ Known(j)
  /\ released' = [released EXCEPT ![j] = TRUE]
  /\ UNCHANGED <<jobVars, phase, fired, told, taken, poolVars, pc, at, out>>

-----------------------------------------------------------------------------
(* JobPool::Shutdown.  A second call returns at once and changes nothing.  *)

ShutdownBegin(c) ==
  /\ pc[c] = "idle" /\ ~shuttingDown
  /\ shuttingDown' = TRUE
  /\ shutter' = c
  /\ Goto(c, "collect")
  /\ UNCHANGED <<jobVars, userVars, queue, running, toCancel, at, out>>

\* Fault: the queue is cleared and its jobs are not cancelled.
ShutdownCollect_Drops(c) ==
  /\ pc[c] = "collect"
  /\ toCancel' = {j \in running : Alive(j)}
  /\ queue' = <<>>
  /\ running' = {}
  /\ Goto(c, "cancelling")
  /\ UNCHANGED <<jobVars, userVars, shuttingDown, shutter, at, out>>

\* The order of to_cancel is left open.
ShutdownCollect(c) ==
  /\ pc[c] = "collect"
  /\ toCancel' = Queued \cup {j \in running : Alive(j)}
  /\ queue' = <<>>
  /\ running' = {}
  /\ Goto(c, "cancelling")
  /\ UNCHANGED <<jobVars, userVars, shuttingDown, shutter, at, out>>

ShutdownCancels(c) ==
  /\ pc[c] = "cancelling"
  /\ \E j \in toCancel :
       /\ toCancel' = toCancel \ {j}
       /\ cancelRequested' = [cancelRequested EXCEPT ![j] = TRUE]
       /\ Enter(c, "cas", j)
  /\ UNCHANGED <<state, finished, status, result, userVars, queue, running,
                 shuttingDown, shutter, out>>

\* Fault: the sleeping workers are not notified.
ShutdownNotify_Silent(c) ==
  /\ pc[c] = "cancelling" /\ toCancel = {}
  /\ Goto(c, "join")
  /\ UNCHANGED <<jobVars, userVars, poolVars, at, out>>

\* cv_.notify_all(), then the joins.
ShutdownNotify(c) ==
  /\ pc[c] = "cancelling" /\ toCancel = {}
  /\ pc' = [t \in Threads |-> IF t = c THEN "join"
                              ELSE IF pc[t] = "asleep" THEN "poll" ELSE pc[t]]
  /\ UNCHANGED <<jobVars, userVars, poolVars, at, out>>

\* Fault: the workers are detached instead of joined.
ShutdownJoin_Detached(c) ==
  /\ pc[c] = "join"
  /\ shutter' = NoThread
  /\ Goto(c, "idle")
  /\ UNCHANGED <<jobVars, userVars, queue, running, shuttingDown, toCancel, at, out>>

ShutdownJoin(c) ==
  /\ pc[c] = "join"
  /\ \A w \in Workers : pc[w] = "exited"
  /\ shutter' = NoThread
  /\ Goto(c, "idle")
  /\ UNCHANGED <<jobVars, userVars, queue, running, shuttingDown, toCancel, at, out>>

-----------------------------------------------------------------------------
\* What a worker does by itself.  BodyReturns and BodyThrows stand for the body's end.
WorkerStep(w) ==
  \/ WorkerSleep(w) \/ WorkerExit(w) \/ WorkerPop(w)
  \/ Claim(w) \/ BodyReturns(w) \/ BodyThrows(w) \/ CheckCancel(w) \/ StoreState(w)
  \/ Finish(w) \/ FinishThrows(w) \/ Callback(w)

\* What a client does inside a call it has already made.
ClientStep(c) ==
  \/ SubmitPush(c) \/ SubmitNotify(c) \/ CancelSwap(c) \/ Finish(c) \/ Callback(c)
  \/ WaitReturn(c) \/ TakeReadsState(c) \/ TakeReportsFailure(c) \/ TakeReportsTaken(c)
  \/ ShutdownCollect(c) \/ ShutdownCancels(c) \/ ShutdownNotify(c) \/ ShutdownJoin(c)

\* A client makes a call.
ClientCall(c) ==
  \/ \E j \in Jobs : \/ SubmitRefused(c, j) \/ SubmitAccepted(c, j) \/ CancelRequest(c, j)
                     \/ WaitStart(c, j) \/ TakeResult(c, j) \/ Release(c, j)
  \/ ShutdownBegin(c)

Next ==
  \/ \E w \in Workers : WorkerStep(w) \/ WorkerWakesSpuriously(w) \/ CallbackCancels(w)
  \/ \E c \in Clients : ClientStep(c) \/ ClientCall(c) \/ WaitTimeout(c)

Spec == Init /\ [][Next]_vars

\* The operating system runs every thread that can run, and a job's body ends.
Fairness == /\ \A w \in Workers : WF_vars(WorkerStep(w))
            /\ \A c \in Clients : WF_vars(ClientStep(c))

FairSpec == Spec /\ Fairness

-----------------------------------------------------------------------------
(* Properties.                                                             *)

TypeOK ==
  /\ state \in [Jobs -> JobStates]
  /\ cancelRequested \in [Jobs -> BOOLEAN]
  /\ finished \in [Jobs -> BOOLEAN]
  /\ status \in [Jobs -> Statuses]
  /\ result \in [Jobs -> BOOLEAN]
  /\ phase \in [Jobs -> {"new", "checked", "pushed", "rejected"}]
  /\ released \in [Jobs -> BOOLEAN]
  /\ fired \in [Jobs -> Nat]
  /\ told \in [Jobs -> Statuses \cup {"none"}]
  /\ taken \in [Jobs -> Nat]
  /\ queue \in Seq(Jobs)
  /\ running \subseteq Jobs
  /\ shuttingDown \in BOOLEAN
  /\ shutter \in Clients \cup {NoThread}
  /\ toCancel \subseteq Jobs
  /\ pc \in [Threads -> WorkerLabels \cup ClientLabels]
  /\ at \in [Threads -> Jobs \cup {NoJob}]
  /\ out \in [Threads -> Statuses]

\* The inductive strengthening of the properties below: what holds of a thread at each
\* of its labels and of the job it handles, and what holds of every job.
Busy == Owning \cup {"claim", "push", "notify", "cas", "wait", "takeState", "takeRaise"}

ThreadInv(t) ==
  /\ pc[t] \in (IF t \in Workers THEN WorkerLabels ELSE ClientLabels)
  /\ pc[t] \in Busy => at[t] \in Jobs
  /\ pc[t] \in {"body", "returned"} => state[at[t]] = "RUNNING" /\ ~finished[at[t]]
  /\ pc[t] = "store" => \/ state[at[t]] = "RUNNING" /\ ~finished[at[t]]
                        \/ /\ Unrecorded(at[t]) /\ out[t] = "ERROR"
                           /\ t \in Workers /\ state[at[t]] = "SUCCEEDED"
  /\ pc[t] = "finish" => \/ ~finished[at[t]]
                         \/ Unrecorded(at[t]) /\ out[t] = "ERROR"
  /\ pc[t] \in {"finish", "callback"} => state[at[t]] = StateOf(out[t])
  /\ pc[t] = "callback" => /\ finished[at[t]] /\ ~Unrecorded(at[t])
                           /\ status[at[t]] = out[t]
                           /\ fired[at[t]] = 0

JobInv(j) ==
  /\ finished[j] => \/ state[j] = StateOf(status[j])
                    \/ Unrecorded(j) /\ state[j] = "FAILED"
  /\ ~finished[j] => status[j] = "OK"
  /\ fired[j] \in {0, 1}
  /\ fired[j] = 1 => finished[j] /\ told[j] = status[j]
  /\ fired[j] = 0 => told[j] = "none"
  /\ IF finished[j] /\ status[j] = "OK" /\ ~Unrecorded(j)
       THEN taken[j] = (IF result[j] THEN 0 ELSE 1)
       ELSE ~result[j] /\ taken[j] = 0

\* At most one thread runs, finishes or reports a job: the two compare-and-swaps of
\* Job::Cancel and Job::Execute exclude each other.
OneOwner ==
  \A t, u \in Threads :
    pc[t] \in Owning /\ pc[u] \in Owning /\ at[t] = at[u] => t = u

\* The inductive invariant of the engine: no job is owned by two threads, and every
\* thread and every job are as far along as each other's fields say.
Coupled ==
  /\ OneOwner
  /\ \A t \in Threads : ThreadInv(t)
  /\ \A j \in Jobs : JobInv(j)

\* What the owner was told, what Finish recorded and the job's state agree, however
\* Cancel raced with Execute: a job never reports CANCELLED and then succeeds.  Only a job
\* whose result could not be serialised has failed with nothing recorded and nobody told.
OutcomesAgree ==
  \A j \in Jobs :
    /\ finished[j] => \/ state[j] = StateOf(status[j])
                      \/ Unrecorded(j) /\ state[j] = "FAILED"
    /\ fired[j] > 0 => finished[j] /\ told[j] = status[j]

\* The result of a success is held or was taken, never both, never twice, and no other
\* job has one: what flm_job_take_result_json hands out is never lost, unless it could
\* not be serialised.
ResultAccounted ==
  \A j \in Jobs :
    IF finished[j] /\ status[j] = "OK" /\ ~Unrecorded(j)
      THEN taken[j] = (IF result[j] THEN 0 ELSE 1)
      ELSE ~result[j] /\ taken[j] = 0

\* Once JobPool::Shutdown has returned no body runs, and every accepted job has a
\* terminal state unless it is still in the queue (Submit pushed it after the drain).
ShutdownSettles ==
  shuttingDown /\ shutter = NoThread =>
    /\ \A w \in Workers : pc[w] \notin Owning
    /\ \A j \in Jobs : phase[j] = "pushed" => state[j] \in Terminal \/ j \in Queued

\* Why ShutdownSettles holds, by way of an invariant that is inductive with Coupled.  How
\* far the shutdown is: only one thread is inside it, its list is empty before and after,
\* and it leaves no worker behind.
ShutterInv ==
  /\ shutter # NoThread =>
       /\ shuttingDown
       /\ pc[shutter] \in {"collect", "cancelling", "cas", "finish", "callback", "join"}
  /\ \A c \in Clients : pc[c] \in {"collect", "cancelling", "join"} => c = shutter
  /\ toCancel # {} => /\ shutter # NoThread
                      /\ pc[shutter] \in {"cancelling", "cas", "finish", "callback"}
  /\ shuttingDown /\ shutter = NoThread => \A w \in Workers : pc[w] = "exited"

\* Somebody has taken on every accepted job that is not over: the queue, a worker that
\* will execute it or the shutdown that will cancel it; a running job has its worker.
Held(j, labels) == \E w \in Workers : at[w] = j /\ pc[w] \in labels
Cancelling(j) == \/ j \in toCancel
                 \/ shutter # NoThread /\ pc[shutter] = "cas" /\ at[shutter] = j
TakenOn(j) ==
  /\ state[j] = "RUNNING" => Held(j, {"body", "returned", "store"})
  /\ phase[j] = "pushed" =>
       \/ state[j] \in Terminal \/ j \in Queued \/ Cancelling(j)
       \/ Held(j, {"claim", "body", "returned", "store"})
Attended == ShutterInv /\ \A j \in Jobs : TakenOn(j)

\* A terminal state never changes, and a finished job is never finished again.  The one
\* exception is the success that turns into a failure because its result cannot be
\* serialised.
TerminalIsFinal ==
  [][\A j \in Jobs :
       /\ state[j] \in Terminal =>
            \/ state'[j] = state[j]
            \/ Unrecorded(j) /\ state[j] = "SUCCEEDED" /\ state'[j] = "FAILED"
       /\ finished[j] => finished'[j] /\ status'[j] = status[j]]_vars

Dumpable == Jobs \ Undumpable

Promise == INSTANCE AsyncJob WITH
  Jobs <- Dumpable,
  phase <- [j \in Dumpable |-> state[j]],
  notified <- [j \in Dumpable |-> fired[j]],
  told <- [j \in Dumpable |-> IF told[j] = "none" THEN "none" ELSE StateOf(told[j])],
  taken <- [j \in Dumpable |-> taken[j]]

\* JobPool implements the ABI's promise about every job whose result can be serialised,
\* also while others beside it cannot.
KeepsPromise == Promise!Spec

\* A job queued while the pool accepts work gets its completion callback, also when
\* Shutdown drains the queue before a worker reaches it, and also behind a job that never
\* gets its own because its result cannot be serialised.
QueuedJobsComplete ==
  \A j \in Dumpable : (j \in Queued /\ ~shuttingDown) ~> (fired[j] = 1)

\* JobPool::Shutdown returns: every sleeping worker learns of it and every running
\* body is joined.
ShutdownReturns == shuttingDown ~> (shutter = NoThread)

-----------------------------------------------------------------------------
(* What the ABI's documentation says and the code does not do.             *)

\* flm_types.h on the completion callback: "Invoked exactly once per job, even on
\* cancellation."
AcceptedJobsComplete == \A j \in Jobs : (phase[j] = "pushed") ~> (fired[j] = 1)

\* api.cc, the error of flm_job_take_result_json: "the job's result has already been
\* taken".
TakenMeansTaken ==
  [][\A c \in Clients : TakeReportsTaken(c) => taken[at[c]] > 0]_vars
=============================================================================
