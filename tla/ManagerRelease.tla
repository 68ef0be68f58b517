-------------------------- MODULE ManagerRelease --------------------------
(***************************************************************************)
(* The life of one manager as the entry points of core/src/api.cc drive    *)
(* it: application threads submit jobs, create sessions, release handles,  *)
(* shut the manager down and release it, while pool workers run jobs that  *)
(* may register model handles themselves.  The handle table is             *)
(* HandleTable; the pool is reduced to what decides when workers stop      *)
(* (JobPool has its jobs); model memory is in ModelLifecycle.     *)
(*                                                                         *)
(* The manager is object 1.  Every model, session and job holds a shared   *)
(* pointer that keeps the manager alive, a finished job too (Job::body_).  *)
(***************************************************************************)
EXTENDS HandleTable

CONSTANTS Apps,           \* threads that call the ABI
          Workers,        \* the pool's threads
          Model, Session, Job   \* the other HandleKinds

ASSUME ReleaseAssumption == /\ Apps \cap Workers = {}
                            /\ {Model, Session, Job} \subseteq Kinds
                            /\ Manager \notin {Model, Session, Job}
                            /\ Model \notin {Session, Job}

VARIABLES mgrDown,   \* Manager::shutdown_
          poolDown,  \* JobPool::shutting_down_
          queue,     \* JobPool::queue_
          joined,    \* the workers that were joined
          loads,     \* the jobs whose body is flm_manager_load_model_async's
          pc, at,    \* per thread: next step, and the object it registers or runs
          goal,      \* per thread: "shutdown" or "release", the call it is in
          won,       \* the threads whose Manager::Shutdown did not return early
          settled    \* a flm_manager_release that shut the manager down itself has returned

mgrVars == <<mgrDown, poolDown, queue, joined, loads, won, settled>>
vars == <<tableVars, mgrVars, pc, at, goal>>

Threads == Apps \cup Workers

Mgr == [kind |-> Manager, generation |-> 1, index |-> 1]

\* flm_manager_create has returned: the manager owns its own handle.
ReleaseInit ==
  /\ slots = [i \in Index |-> IF i = 1 THEN [kind |-> Manager, generation |-> 1,
                                             owner |-> Mgr, object |-> 1] ELSE NoSlot]
  /\ nextIndex = Successor(1)
  /\ issued = <<Mgr>>
  /\ removed = {}
  /\ mgrDown = FALSE /\ poolDown = FALSE /\ queue = <<>>
  /\ joined = {} /\ loads = {}
  /\ pc = [t \in Threads |-> IF t \in Workers THEN "poll" ELSE "idle"]
  /\ at = [t \in Threads |-> 0]
  /\ goal = [t \in Threads |-> "shutdown"]
  /\ won = {} /\ settled = FALSE

-----------------------------------------------------------------------------
Goto(t, label) == pc' = [pc EXCEPT ![t] = label]

\* Where a call returns to: the application, or the callback it was made from.
Home(t) == IF t \in Workers THEN "body" ELSE "idle"

Return(t) == Goto(t, Home(t))

Resolves(n) == TryGet(issued[n], issued[n].kind) = n

\* Register an object and remember it; the handle's owner is set by a second call.
Register(t, kind) == Add(kind) /\ at' = [at EXCEPT ![t] = Len(issued) + 1]

\* Fault: the owner is left out.
TakeOwnership_Forgotten(t) == UNCHANGED tableVars

TakeOwnership(t) == SetOwner(issued[at[t]], Mgr)

-----------------------------------------------------------------------------
(* SubmitJob, from any flm_*_async call.                                   *)

SubmitStart(t) ==
  /\ pc[t] = "idle"
  /\ \E n \in Objects : issued[n].kind # Job /\ Resolves(n)
  /\ Goto(t, "checkShutdown")
  /\ UNCHANGED <<tableVars, mgrVars, at, goal>>

SubmitCheck(t) ==
  /\ pc[t] = "checkShutdown"
  /\ Goto(t, IF mgrDown THEN "idle" ELSE "addJob")
  /\ UNCHANGED <<tableVars, mgrVars, at, goal>>

SubmitAdd(t) ==
  /\ pc[t] = "addJob"
  /\ Register(t, Job)
  /\ loads' \in {loads, loads \cup {Len(issued) + 1}}
  /\ Goto(t, "ownJob")
  /\ UNCHANGED <<mgrDown, poolDown, queue, joined, won, settled, goal>>

SubmitOwn(t) ==
  /\ pc[t] = "ownJob"
  /\ TakeOwnership(t)
  /\ Goto(t, "checkPool")
  /\ UNCHANGED <<mgrVars, at, goal>>

\* JobPool::Submit reads shutting_down_ before it takes the lock and throws when it is set;
\* the job's handle stays in the table.
SubmitCheckPool(t) ==
  /\ pc[t] = "checkPool"
  /\ IF poolDown THEN at' = [at EXCEPT ![t] = 0] /\ Goto(t, "idle")
                 ELSE Goto(t, "push") /\ UNCHANGED at
  /\ UNCHANGED <<tableVars, mgrVars, goal>>

\* Fault: the moved-from pointer is queued.
SubmitPush_MovedFrom(t) ==
  /\ pc[t] = "push"
  /\ queue' = Append(queue, 0)
  /\ at' = [at EXCEPT ![t] = 0]
  /\ Goto(t, "idle")
  /\ UNCHANGED <<tableVars, mgrDown, poolDown, joined, loads, won, settled, goal>>

\* The push may come after the drain.  A job that no worker takes any more stays queued and,
\* through its body, keeps the manager alive.
SubmitPush(t) ==
  /\ pc[t] = "push"
  /\ queue' = Append(queue, at[t])
  /\ at' = [at EXCEPT ![t] = 0]
  /\ Goto(t, "idle")
  /\ UNCHANGED <<tableVars, mgrDown, poolDown, joined, loads, won, settled, goal>>

-----------------------------------------------------------------------------
(* flm_session_create; flm_model_release, flm_session_release,             *)
(* flm_job_release.                                                        *)

SessionStart(t) ==
  /\ pc[t] = "idle"
  /\ \E n \in Objects : issued[n].kind = Model /\ Resolves(n)
  /\ Goto(t, "addSession")
  /\ UNCHANGED <<tableVars, mgrVars, at, goal>>

SessionAdd(t) ==
  /\ pc[t] = "addSession"
  /\ Register(t, Session)
  /\ Goto(t, "ownSession")
  /\ UNCHANGED <<mgrVars, goal>>

SessionOwn(t) ==
  /\ pc[t] = "ownSession"
  /\ TakeOwnership(t)
  /\ at' = [at EXCEPT ![t] = 0]
  /\ Goto(t, "idle")
  /\ UNCHANGED <<mgrVars, goal>>

ReleaseHandle(t, n) ==
  /\ pc[t] = "idle" /\ issued[n].kind # Manager
  /\ Remove(issued[n], issued[n].kind)
  /\ UNCHANGED <<mgrVars, pc, at, goal>>

-----------------------------------------------------------------------------
(* The workers.  A load registers its model's handle once; any body may    *)
(* also end without having done so, by an error or a cancellation.         *)

WorkerPop(w) ==
  /\ pc[w] = "poll" /\ queue # <<>>
  /\ queue' = Tail(queue)
  /\ at' = [at EXCEPT ![w] = Head(queue)]
  /\ Goto(w, "body")
  /\ UNCHANGED <<tableVars, mgrDown, poolDown, joined, loads, won, settled, goal>>

BodyRegistersModel(w) ==
  /\ pc[w] = "body" /\ at[w] \in loads
  /\ Register(w, Model)
  /\ Goto(w, "ownModel")
  /\ UNCHANGED <<mgrVars, goal>>

BodyOwnsModel(w) ==
  /\ pc[w] = "ownModel"
  /\ TakeOwnership(w)
  /\ Goto(w, "body")
  /\ UNCHANGED <<mgrVars, at, goal>>

BodyEnds(w) ==
  /\ pc[w] = "body"
  /\ at' = [at EXCEPT ![w] = 0]
  /\ Goto(w, "poll")
  /\ UNCHANGED <<tableVars, mgrVars, goal>>

WorkerExit(w) ==
  /\ pc[w] = "poll" /\ queue = <<>> /\ poolDown
  /\ Goto(w, "exited")
  /\ UNCHANGED <<tableVars, mgrVars, at, goal>>

-----------------------------------------------------------------------------
(* flm_manager_shutdown and flm_manager_release.                           *)

CallShutdown(t, call) ==
  /\ pc[t] = Home(t)
  /\ Resolves(1)
  /\ goal' = [goal EXCEPT ![t] = call]
  /\ Goto(t, "exchange")
  /\ UNCHANGED <<tableVars, mgrVars, at>>

\* Where flm_manager_release goes on after Manager::Shutdown; flm_manager_shutdown is done.
AfterShutdown(t) == IF goal[t] = "release" THEN "removeAll" ELSE Home(t)

\* Manager::Shutdown: a second call returns at once, also while the first still joins.
ShutdownExchange(t) ==
  /\ pc[t] = "exchange"
  /\ IF mgrDown
       THEN Goto(t, AfterShutdown(t)) /\ UNCHANGED <<mgrDown, won>>
       ELSE mgrDown' = TRUE /\ won' = won \cup {t} /\ Goto(t, "flag")
  /\ UNCHANGED <<tableVars, poolDown, queue, joined, loads, settled, at, goal>>

\* Fault: the workers are not told.
ShutdownFlag_Unset(t) ==
  /\ pc[t] = "flag"
  /\ Goto(t, "drain")
  /\ UNCHANGED <<tableVars, mgrVars, at, goal>>

\* JobPool::Shutdown sets its flag ...
ShutdownFlag(t) ==
  /\ pc[t] = "flag"
  /\ poolDown' = TRUE
  /\ Goto(t, "drain")
  /\ UNCHANGED <<tableVars, mgrDown, queue, joined, loads, won, settled, at, goal>>

\* Fault: the workers are not joined before the handles are removed.
ShutdownDrain_NoJoin(t) ==
  /\ pc[t] = "drain"
  /\ queue' = <<>>
  /\ Goto(t, AfterShutdown(t))
  /\ UNCHANGED <<tableVars, mgrDown, poolDown, joined, loads, won, settled, at, goal>>

\* ... cancels what is queued ...
ShutdownDrain(t) ==
  /\ pc[t] = "drain"
  /\ queue' = <<>>
  /\ Goto(t, "join")
  /\ UNCHANGED <<tableVars, mgrDown, poolDown, joined, loads, won, settled, at, goal>>

\* ... and joins the workers.
ShutdownJoin(t) ==
  /\ pc[t] = "join"
  /\ \E w \in Workers \ (joined \cup {t}) :
       /\ pc[w] = "exited"
       /\ joined' = joined \cup {w}
       /\ IF joined' = Workers THEN Goto(t, AfterShutdown(t)) ELSE UNCHANGED pc
  /\ UNCHANGED <<tableVars, mgrDown, poolDown, queue, loads, won, settled, at, goal>>

ReleaseRemovesOwned(t) ==
  /\ pc[t] = "removeAll"
  /\ RemoveAllOwnedBy(Mgr)
  /\ Goto(t, "removeManager")
  /\ UNCHANGED <<mgrVars, at, goal>>

ReleaseRemovesManager(t) ==
  /\ pc[t] = "removeManager"
  /\ Remove(Mgr, Manager)
  /\ settled' = (settled \/ t \in won)
  /\ Return(t)
  /\ UNCHANGED <<mgrDown, poolDown, queue, joined, loads, won, at, goal>>

-----------------------------------------------------------------------------
ShutdownStep(t) ==
  \/ ShutdownExchange(t) \/ ShutdownFlag(t) \/ ShutdownDrain(t) \/ ShutdownJoin(t)
  \/ ReleaseRemovesOwned(t) \/ ReleaseRemovesManager(t)

AppStep(t) ==
  \/ SubmitCheck(t) \/ SubmitAdd(t) \/ SubmitOwn(t) \/ SubmitCheckPool(t) \/ SubmitPush(t)
  \/ SessionAdd(t) \/ SessionOwn(t) \/ ShutdownStep(t)

AppCall(t) ==
  \/ SubmitStart(t) \/ SessionStart(t)
  \/ \E n \in Objects : ReleaseHandle(t, n)
  \/ \E call \in {"shutdown", "release"} : CallShutdown(t, call)

WorkerStep(w) == WorkerPop(w) \/ BodyOwnsModel(w) \/ BodyEnds(w) \/ WorkerExit(w)

ReleaseNext ==
  \/ \E t \in Apps : AppStep(t) \/ AppCall(t)
  \/ \E w \in Workers : WorkerStep(w) \/ BodyRegistersModel(w)

ReleaseSpec == ReleaseInit /\ [][ReleaseNext]_vars

\* The operating system runs the threads, and every job body ends.
ReleaseFairSpec ==
  /\ ReleaseSpec
  /\ \A t \in Apps : WF_vars(AppStep(t))
  /\ \A w \in Workers : WF_vars(WorkerStep(w))

\* flm_types.h lets a callback enter the ABI with other handles than its own job's: here
\* flm_manager_shutdown and flm_manager_release on the worker that runs the callback.
CallbackCalls(w) ==
  \/ pc[w] = "body" /\ \E call \in {"shutdown", "release"} : CallShutdown(w, call)
  \/ ShutdownStep(w)

\* Joining itself throws std::system_error, which the entry point turns into an error
\* status; the workers after it are not joined and workers_ is not cleared.
JoinsItself(w) ==
  /\ pc[w] = "join" /\ w \notin joined
  /\ Return(w)
  /\ UNCHANGED <<tableVars, mgrVars, at, goal>>

ReentrantSpec ==
  ReleaseInit /\ [][ReleaseNext \/ \E w \in Workers : CallbackCalls(w) \/ JoinsItself(w)]_vars

-----------------------------------------------------------------------------
Labels == {"idle", "checkShutdown", "addJob", "ownJob", "checkPool", "push", "addSession",
           "ownSession", "exchange", "flag", "drain", "join", "removeAll", "removeManager",
           "poll", "body", "ownModel", "exited"}

ReleaseTypeOK ==
  /\ TableTypeOK
  /\ mgrDown \in BOOLEAN /\ poolDown \in BOOLEAN /\ settled \in BOOLEAN
  /\ queue \in Seq(Objects)
  /\ joined \subseteq Workers /\ loads \subseteq Objects /\ won \subseteq Threads
  /\ pc \in [Threads -> Labels]
  /\ at \in [Threads -> Objects \cup {0}]
  /\ goal \in [Threads -> {"shutdown", "release"}]

\* The thread is in a call, or runs a job, and so holds the manager.
Holds(t) == pc[t] \notin {"idle", "poll", "exited"}

\* No shared pointer to the manager is left: its destructor has run.
ManagerGone == /\ \A i \in Index : slots[i] = NoSlot
               /\ queue = <<>>
               /\ \A t \in Threads : ~Holds(t)

\* Once the release that shut the pool down has returned, no job runs and no handle of a
\* model that a load registered behind the caller's back is left: the models die with the
\* manager however the load raced with the release.
NoModelSurvivesRelease ==
  settled => /\ \A w \in Workers : pc[w] = "exited"
             /\ \A n \in Objects : issued[n].kind = Model => ~Resolves(n)

\* The manager is never destroyed while a worker is joinable (~std::thread would
\* terminate the process), whoever drops the last reference.
NeverTerminates == ManagerGone => joined = Workers

\* flm_manager_release returns: the workers it joins end, whatever else is called.
ReleaseReturns ==
  \A t \in Apps : (pc[t] = "exchange" /\ goal[t] = "release") ~> (pc[t] = "idle")

-----------------------------------------------------------------------------
(* Why the safety properties hold: the parts of an inductive invariant.    *)

\* The manager's handle goes only after a shutdown has begun.
ManagerKept == /\ 1 \in Objects /\ issued[1] = Mgr
               /\ 1 \in removed => mgrDown

\* A thread that stores or queues an object has registered it, and what is queued is a job.
Registered ==
  /\ \A t \in Threads : pc[t] \in {"ownJob", "checkPool", "push", "ownSession", "ownModel"} =>
                          at[t] # 0
  /\ \A n \in Objects : n # 1 => issued[n].kind # Manager

\* Application threads and workers have their own labels.
Places ==
  /\ \A w \in Workers : pc[w] \in {"poll", "body", "ownModel", "exited"}
  /\ \A t \in Apps : pc[t] \notin {"poll", "body", "ownModel", "exited"}

\* One thread carries the shutdown out; until it is past the joins it is still in there,
\* and then every worker has exited.
Stopped == joined = Workers

ShutdownInv ==
  /\ joined \subseteq {w \in Workers : pc[w] = "exited"}
  /\ \A t \in Threads : /\ pc[t] \in {"flag", "drain", "join"} => t \in won
                        /\ pc[t] \in {"removeAll", "removeManager"} => mgrDown
  /\ \A t, u \in won : t = u
  /\ won # {} <=> mgrDown
  /\ \A t \in won : t \in Apps /\ (pc[t] \in {"flag", "drain", "join"} \/ Stopped)

\* A live model is the manager's, or its load is about to make it so.
ModelsOwned ==
  \A n \in Objects \ removed :
    \/ issued[n].kind # Model
    \/ slots[issued[n].index].owner = Mgr
    \/ \E w \in Workers : pc[w] = "ownModel" /\ at[w] = n

\* Once the release that shut the pool down has removed what the manager owns, no model
\* is live.
Emptied ==
  (settled \/ \E t \in won : pc[t] = "removeManager") =>
    /\ Stopped
    /\ \A n \in Objects : issued[n].kind = Model => n \in removed

ReleaseInv ==
  /\ ReleaseTypeOK /\ Corresponds
  /\ ManagerKept /\ Registered /\ Places /\ ShutdownInv /\ ModelsOwned /\ Emptied

=============================================================================
