----------------------- MODULE ModelLifecycleProofs ------------------------
(***************************************************************************)
(* Proofs about model memory: the inductive invariant of ModelLifecycle    *)
(* and the safety properties that follow from it, for every number of      *)
(* models, threads, jobs and events.                                       *)
(***************************************************************************)
EXTENDS ModelLifecycle, FiniteSetTheorems, TLAPS

\* Every step is one action of one thread.
LEMMA NextCases ==
  ASSUME [Next]_vars
  PROVE  \/ \E t \in Threads : UnloadOga(t) \/ UnloadOperation(t) \/ Unload(t) \/ Drop(t)
         \/ \E t \in Apps :
              \/ SubmitAccepted(t) \/ SubmitRefused(t) \/ SubmitPush(t)
              \/ Collect(t) \/ Collected(t) \/ \E m \in Models : Visit(t, m)
              \/ UnloadNext(t) \/ DropNext(t) \/ ReloadNext(t)
              \/ ShutdownFlag(t) \/ ShutdownDrain(t) \/ ShutdownJoin(t) \/ ShutdownUnloads(t)
              \/ ShutdownClears(t)
              \/ \E k \in JobKinds \ {"reload"}, m \in Models \cup {NoModel} : Submit(t, k, m)
              \/ \E m \in Models : SessionCreate(t, m) \/ ReleaseHandle(t, m)
              \/ UpdateSettings(t)
              \/ \E event \in {"MEMORY_CRITICAL", "BACKGROUND"} : NotifyUnloads(t, event)
              \/ NotifyForeground(t) \/ ShutdownBegin(t)
         \/ \E w \in Workers :
              \/ WorkerPop(w) \/ MakeBegins(w) \/ WorkerExit(w) \/ JobEnd(w)
              \/ LoadCheck(w) \/ LoadOga(w) \/ LoadOperation(w) \/ LoadFails(w)
              \/ LoadSucceeds(w) \/ LoadReturns(w) \/ MakeRegisters(w) \/ MakePublishes(w)
              \/ InferRequest(w) \/ InferOga(w) \/ InferOperation(w) \/ InferEnds(w)
         \/ UNCHANGED vars
  BY DEF Next, AppStep, AppCall, WorkerStep, UnloadStep, Threads

\* What a queue holds after an append, and after its head is taken.
LEMMA AppendIndex ==
  ASSUME NEW S, NEW q \in Seq(S), NEW e \in S
  PROVE  \A i \in 1..Len(Append(q, e)) : \/ i \in 1..Len(q) /\ Append(q, e)[i] = q[i]
                                         \/ i = Len(q) + 1 /\ Append(q, e)[i] = e
  OBVIOUS

LEMMA AppendKeeps ==
  ASSUME NEW S, NEW q \in Seq(S), NEW e \in S
  PROVE  /\ \A i \in 1..Len(q) : i \in 1..Len(Append(q, e)) /\ Append(q, e)[i] = q[i]
         /\ Len(q) + 1 \in 1..Len(Append(q, e)) /\ Append(q, e)[Len(q) + 1] = e
  OBVIOUS

LEMMA TailIndex ==
  ASSUME NEW S, NEW q \in Seq(S), q # <<>>
  PROVE  /\ Head(q) = q[1] /\ 1 \in 1..Len(q) /\ q[1] \in S
         /\ \A i \in 1..Len(Tail(q)) : i + 1 \in 1..Len(q) /\ Tail(q)[i] = q[i + 1]
         /\ \A i \in 1..Len(q) : i # 1 => i - 1 \in 1..Len(Tail(q)) /\ Tail(q)[i - 1] = q[i]
  OBVIOUS

\* The workers and the applications are threads.
LEMMA ThreadSets == Workers \subseteq Threads /\ Apps \subseteq Threads
  BY DEF Threads

\* The tables and lists name models that were constructed.
LEMMA SetTypes ==
  Inv => /\ born \subseteq Models /\ dying \subseteq born
         /\ handle \subseteq born /\ session \subseteq born /\ kept \subseteq born
         /\ registry \subseteq born /\ autoUnloaded \subseteq born
  BY DEF Inv, TypeOK

\* The types of what each thread keeps.
LEMMA ThreadTypes ==
  Inv => /\ pc \in [Threads -> AppLabels \cup WorkerLabels \cup UnloadLabels]
         /\ at \in [Threads -> Models \cup {NoModel}] /\ kind \in [Threads -> JobKinds]
         /\ todo \in [Threads -> SUBSET Models] /\ hold \in [Threads -> SUBSET Models]
         /\ back \in [Threads -> Returns]
         /\ after \in [Threads -> {"idle", "shutdownUnloads", "clear"}]
         /\ due \in [Threads -> SUBSET Models]
  BY DEF Inv, TypeOK

\* The types of the models' state, the locks and the queue.
LEMMA SharedTypes ==
  Inv => /\ loaded \in [Models -> BOOLEAN]
         /\ oga \in [Models -> Threads \cup {NoThread}]
         /\ request \in [Models -> Threads \cup {NoThread}]
         /\ operation \in Threads \cup {NoThread} /\ listing \in Threads \cup {NoThread}
         /\ queue \in Seq(Jobs)
  BY DEF Inv, TypeOK

\* The job a thread submits is a job of a queue; only a load by package has no model.
LEMMA PushedType ==
  ASSUME Inv, NEW t \in Threads, Submitting(t)
  PROVE  /\ [kind |-> kind[t], model |-> at[t]] \in Jobs
         /\ kind[t] # "make" => at[t] \in born
         /\ kind[t] = "make" => at[t] = NoModel
<1>1. ThreadInv(t) /\ born \subseteq Models /\ kind[t] \in JobKinds
  BY DEF Inv, TypeOK
<1>2. /\ kind[t] # "make" => at[t] \in born
      /\ kind[t] = "make" => at[t] = NoModel
  BY <1>1 DEF ThreadInv, Submitting, Handling, UnloadLabels, WorkerLabels
<1> QED BY <1>1, <1>2 DEF Jobs

\* The jobs of a queue have a kind, and a model unless they are to make it.
LEMMA JobTypes ==
  \A j \in Jobs : /\ j.kind \in JobKinds
                  /\ j.kind # "make" => j.model \in Models
                  /\ j.kind = "make" => j.model = NoModel
  BY DEF Jobs, JobKinds

\* The initial state satisfies the inductive invariant.
LEMMA InitInv == Init => Inv
<1> SUFFICES ASSUME Init PROVE Inv
  OBVIOUS
<1>1. TypeOK
  <2>1. <<>> \in Seq(Jobs)
    OBVIOUS
  <2>2. /\ loaded \in [Models -> BOOLEAN] /\ liveObjects \in Nat
        /\ oga \in [Models -> Threads \cup {NoThread}]
        /\ request \in [Models -> Threads \cup {NoThread}]
        /\ operation \in Threads \cup {NoThread} /\ listing \in Threads \cup {NoThread}
    BY DEF Init
  <2>3. /\ pc \in [Threads -> AppLabels \cup WorkerLabels \cup UnloadLabels]
        /\ at \in [Threads -> Models \cup {NoModel}] /\ kind \in [Threads -> JobKinds]
    BY DEF Init, AppLabels, WorkerLabels, JobKinds
  <2>4. /\ todo \in [Threads -> SUBSET Models] /\ hold \in [Threads -> SUBSET Models]
        /\ back \in [Threads -> Returns]
        /\ after \in [Threads -> {"idle", "shutdownUnloads", "clear"}]
        /\ due \in [Threads -> SUBSET Models]
    BY DEF Init, Returns
  <2> QED BY <2>1, <2>2, <2>3, <2>4, LifecycleAssumption DEF Init, TypeOK
<1>2. \A t \in Threads : /\ pc[t] = IF t \in Workers THEN "poll" ELSE "idle"
                         /\ at[t] = NoModel /\ todo[t] = {} /\ hold[t] = {} /\ due[t] = {}
                         /\ after[t] = "idle" /\ back[t] = "idle" /\ kind[t] = "make"
  BY DEF Init
<1>3. queue = <<>> /\ (\A m \in Models : ~loaded[m]) /\ down = "no"
  BY DEF Init
<1>4. \A t \in Threads : ThreadInv(t)
  BY <1>2 DEF ThreadInv, Listing, Visiting, Reloading, Submitting, InUnload, Handling,
      AppLabels, WorkerLabels, UnloadLabels
<1>5. LockInv /\ ListingInv /\ DyingInv /\ QueueInv
  BY <1>2, <1>3 DEF Init, LockInv, ListingInv, Visiting, InUnload, OgaHeld, OperationHeld,
      DyingInv, Destroying, UnloadLabels,
      QueueInv
<1>6. RegistryInv /\ ShutdownInv
  BY <1>2, <1>3 DEF Init, RegistryInv, EvictedKnown, LoadedBorn, LiveReferenced,
      UnlistedInTheMaking, ShutdownInv, Shutting, Past
<1>7. OwedInv
  BY <1>2, <1>3 DEF OwedInv, OwedOK, Owed, Visiting, InUnload, UnloadLabels
<1>8. Counted
  <2>1. {m \in Models : loaded[m]} = {}
    BY <1>3
  <2> QED BY <2>1, FS_EmptySet DEF Init, Counted
<1>9. LeaseProtects /\ NothingLoadedAfterShutdown
  BY <1>2, <1>3, ThreadSets DEF LeaseProtects, NothingLoadedAfterShutdown
<1> QED BY <1>1, <1>4, <1>5, <1>6, <1>7, <1>8, <1>9 DEF Inv

-----------------------------------------------------------------------------
\* A loaded model is counted.
LEMMA LoadedCounts == Counted => \A m \in Models : loaded[m] => liveObjects \in Nat \ {0}
<1> SUFFICES ASSUME Counted, NEW m \in Models, loaded[m] PROVE liveObjects \in Nat \ {0}
  OBVIOUS
<1> DEFINE Loaded == {n \in Models : loaded[n]}
<1>1. IsFiniteSet(Loaded) /\ liveObjects = Cardinality(Loaded) /\ Loaded # {}
  BY DEF Counted
<1> QED BY <1>1, FS_CardinalityType, FS_EmptySet

\* Every step keeps the types.
LEMMA NextTypeOK == Inv /\ [Next]_vars => TypeOK'
<1> SUFFICES ASSUME Inv, [Next]_vars PROVE TypeOK'
  OBVIOUS
<1>a. TypeOK /\ Counted
  BY DEF Inv
<1>g. /\ born \subseteq Models /\ dying \subseteq born
      /\ handle \subseteq born /\ session \subseteq born /\ kept \subseteq born
      /\ registry \subseteq born /\ autoUnloaded \subseteq born
      /\ \A t \in Threads : hold[t] \cup todo[t] \subseteq born
      /\ \A i \in 1..Len(queue) : queue[i].kind # "make" => queue[i].model \in born
  BY DEF Inv, TypeOK, ThreadInv, QueueInv
<1>h. \A t \in Threads :
        pc[t] \in {"drop", "unloadOga", "unloadOperation", "unload", "jobEnd", "register",
                  "publish"} => at[t] \in born
  BY DEF Inv, ThreadInv, Handling, UnloadLabels, WorkerLabels
<1>i. /\ \A t \in Threads : pc[t] = "checked" /\ kind[t] # "make" => at[t] \in born
      /\ \A w \in Workers : kind[w] # "make" => at[w] \in born
  BY LifecycleAssumption, ThreadSets DEF Inv, ThreadInv, Submitting, UnloadLabels, WorkerLabels
<1>1. ASSUME NEW t \in Threads, UnloadOga(t) PROVE TypeOK'
  BY <1>1, <1>a, ThreadSets DEF UnloadOga, Goto, modelVars, tableVars, managerVars, poolVars,
      listVars, TypeOK, AppLabels, WorkerLabels, UnloadLabels
<1>2. ASSUME NEW t \in Threads, UnloadOperation(t) PROVE TypeOK'
  BY <1>2, <1>a, ThreadSets DEF UnloadOperation, Goto, modelVars, tableVars, managerVars,
      poolVars, listVars, TypeOK, AppLabels, WorkerLabels, UnloadLabels
<1>3. ASSUME NEW t \in Threads, Unload(t) PROVE TypeOK'
  <2>0. UNCHANGED <<born, dying, request, listing, tableVars, managerVars, poolVars, kind,
                  todo, hold, after, events>>
    BY <1>3 DEF Unload
  <2>1. loaded' \in [Models -> BOOLEAN]
    BY <1>3, <2>0, ThreadSets, <1>a DEF Unload, Resume, Enter, Goto, TypeOK
  <2>2. liveObjects' \in Nat
    BY <1>3, <2>0, ThreadSets, <1>a, LoadedCounts, <1>h, <1>g DEF Unload, Resume, Enter, Goto,
        TypeOK
  <2>3. oga' \in [Models -> Threads \cup {NoThread}]
    BY <1>3, <2>0, ThreadSets, <1>a DEF Unload, Resume, Enter, Goto, TypeOK
  <2>4. operation' \in Threads \cup {NoThread}
    BY <1>3, <2>0, ThreadSets, <1>a DEF Unload, Resume, Enter, Goto, TypeOK
  <2>5. pc' \in [Threads -> AppLabels \cup WorkerLabels \cup UnloadLabels]
    BY <1>3, <2>0, ThreadSets, ThreadTypes DEF Unload, Resume, Enter, Goto, Returns, AppLabels,
        WorkerLabels, UnloadLabels
  <2>6. at' \in [Threads -> Models \cup {NoModel}]
    BY <1>3, <2>0, ThreadSets, ThreadTypes, <1>g DEF Unload, Resume, Enter, Goto
  <2>7. back' \in [Threads -> Returns]
    BY <1>3, <2>0, ThreadSets, ThreadTypes DEF Returns, Unload, Resume, Enter, Goto
  <2>8. due' \in [Threads -> SUBSET Models]
    BY <1>3, <2>0, ThreadSets, ThreadTypes, <1>g DEF Unload, Resume, Enter, Goto
  <2> QED BY <1>a, <2>0, <2>1, <2>2, <2>3, <2>4, <2>5, <2>6, <2>7, <2>8 DEF TypeOK, tableVars,
      managerVars, poolVars
<1>4. ASSUME NEW t \in Threads, Drop(t) PROVE TypeOK'
  <2>0. UNCHANGED <<loaded, liveObjects, born, lockVars, tableVars, managerVars, poolVars, kind,
      todo, hold, after, due, events>>
    BY <1>4 DEF Drop
  <2>1. dying' \subseteq born'
    BY <1>4, <2>0, ThreadSets, <1>g, <1>h DEF Drop, Goto, Resume, Enter, lockVars, tableVars,
        managerVars, poolVars
  <2>2. pc' \in [Threads -> AppLabels \cup WorkerLabels \cup UnloadLabels]
    BY <1>4, <2>0, ThreadSets, ThreadTypes DEF Drop, Goto, Resume, Enter, Returns, AppLabels,
        WorkerLabels, UnloadLabels
  <2>3. at' \in [Threads -> Models \cup {NoModel}]
    BY <1>4, <2>0, ThreadSets, ThreadTypes, <1>g DEF Drop, Goto, Resume, Enter
  <2>4. back' \in [Threads -> Returns]
    BY <1>4, <2>0, ThreadSets, ThreadTypes DEF Returns, Drop, Goto, Resume, Enter
  <2> QED BY <1>a, <2>0, <2>1, <2>2, <2>3, <2>4 DEF TypeOK, lockVars, tableVars, managerVars,
      poolVars
<1>5. ASSUME NEW t \in Apps, Collect(t) PROVE TypeOK'
  <2>0. UNCHANGED <<modelVars, oga, request, operation, tableVars, managerVars, poolVars, at,
      kind, hold, back, after, due, events>>
    BY <1>5 DEF Collect
  <2>1. listing' \in Threads \cup {NoThread}
    BY <1>5, ThreadSets DEF Collect
  <2>2. pc' \in [Threads -> AppLabels \cup WorkerLabels \cup UnloadLabels]
    BY <1>5, ThreadSets, ThreadTypes DEF Collect, Goto, AppLabels
  <2>3. todo' \in [Threads -> SUBSET Models]
    BY <1>5, ThreadSets, ThreadTypes, <1>g DEF Collect
  <2> QED BY <1>a, <2>0, <2>1, <2>2, <2>3 DEF TypeOK, modelVars, tableVars, managerVars,
      poolVars
<1>6. ASSUME NEW t \in Apps, UnloadNext(t) PROVE TypeOK'
  <2>0. UNCHANGED <<modelVars, lockVars, tableVars, managerVars, poolVars, kind, hold, after,
      due, events>>
    BY <1>6 DEF UnloadNext
  <2>1. pc' \in [Threads -> AppLabels \cup WorkerLabels \cup UnloadLabels]
    BY <1>6, <2>0, ThreadSets, ThreadTypes DEF UnloadNext, Goto, Enter, AppLabels, WorkerLabels,
        UnloadLabels
  <2>2. at' \in [Threads -> Models \cup {NoModel}]
    BY <1>6, <2>0, ThreadSets, ThreadTypes, <1>g DEF UnloadNext, Goto, Enter
  <2>3. todo' \in [Threads -> SUBSET Models]
    BY <1>6, <2>0, ThreadSets, ThreadTypes, <1>g DEF UnloadNext, Goto, Enter
  <2>4. back' \in [Threads -> Returns]
    BY <1>6, <2>0, ThreadSets, ThreadTypes DEF Returns, UnloadNext, Goto, Enter
  <2> QED BY <1>a, <2>0, <2>1, <2>2, <2>3, <2>4 DEF TypeOK, modelVars, lockVars, tableVars,
      managerVars, poolVars
<1>7. ASSUME NEW t \in Apps, DropNext(t) PROVE TypeOK'
  <2>0. UNCHANGED <<modelVars, lockVars, tableVars, managerVars, poolVars, kind, todo, events>>
    BY <1>7 DEF DropNext
  <2>1. pc' \in [Threads -> AppLabels \cup WorkerLabels \cup UnloadLabels]
    BY <1>7, <2>0, ThreadSets, ThreadTypes DEF DropNext, Goto, Let, Enter, AppLabels,
        WorkerLabels, UnloadLabels
  <2>2. at' \in [Threads -> Models \cup {NoModel}]
    BY <1>7, <2>0, ThreadSets, ThreadTypes, <1>g DEF DropNext, Goto, Let, Enter
  <2>3. hold' \in [Threads -> SUBSET Models]
    BY <1>7, <2>0, ThreadSets, ThreadTypes, <1>g DEF DropNext, Goto, Let, Enter
  <2>4. back' \in [Threads -> Returns]
    BY <1>7, <2>0, ThreadSets, ThreadTypes DEF Returns, DropNext, Goto, Let, Enter
  <2>5. after' \in [Threads -> {"idle", "shutdownUnloads", "clear"}]
    BY <1>7, <2>0, ThreadSets, ThreadTypes DEF DropNext, Goto, Let, Enter
  <2>6. due' \in [Threads -> SUBSET Models]
    BY <1>7, <2>0, ThreadSets, ThreadTypes, <1>g DEF DropNext, Goto, Let, Enter
  <2> QED BY <1>a, <2>0, <2>1, <2>2, <2>3, <2>4, <2>5, <2>6 DEF TypeOK, modelVars, lockVars,
      tableVars, managerVars, poolVars
<1>8. ASSUME NEW t \in Apps, ReloadNext(t) PROVE TypeOK'
  <2>0. UNCHANGED <<modelVars, lockVars, tableVars, managerVars, poolVars, hold, after, due,
      events>>
    BY <1>8 DEF ReloadNext
  <2>1. pc' \in [Threads -> AppLabels \cup WorkerLabels \cup UnloadLabels]
    BY <1>8, ThreadSets, ThreadTypes DEF ReloadNext, Goto, Enter, AppLabels
  <2>2. at' \in [Threads -> Models \cup {NoModel}] /\ kind' \in [Threads -> JobKinds]
    BY <1>8, ThreadSets, ThreadTypes, <1>g DEF ReloadNext, Goto, Enter, JobKinds
  <2>3. todo' \in [Threads -> SUBSET Models] /\ back' \in [Threads -> Returns]
    BY <1>8, ThreadSets, ThreadTypes DEF Returns, ReloadNext, Goto, Enter, Returns
  <2> QED BY <1>a, <2>0, <2>1, <2>2, <2>3 DEF TypeOK, modelVars, lockVars, tableVars,
      managerVars, poolVars
<1>9. ASSUME NEW t \in Apps, ShutdownDrain(t) PROVE TypeOK'
  <2>0. UNCHANGED <<modelVars, lockVars, handle, session, managerVars, submitted, at, kind,
      todo, back, after, due, events>>
    BY <1>9 DEF ShutdownDrain
  <2> DEFINE dropped(ks) == {queue[i].model : i \in {j \in 1..Len(queue) : queue[j].kind \in ks}}
             executed == {at[w] : w \in {u \in Workers : kind[u] # "make"}}
  <2>1. /\ dropped({"load", "unload", "infer"}) \subseteq born
        /\ dropped(JobKinds \ {"make"}) \subseteq born
    BY <1>g
  <2>2. executed \subseteq born
    BY <1>i
  <2>3. kept' \subseteq born /\ hold' \in [Threads -> SUBSET Models]
    <3>1. PICK over \in SUBSET kept, K \in SUBSET dropped({"load", "unload", "infer"}) :
             /\ hold' = [hold EXCEPT ![t] = dropped(JobKinds \ {"make"}) \cup executed \cup over]
             /\ kept' = kept \cup K
      BY <1>9 DEF ShutdownDrain
    <3> HIDE DEF dropped, executed
    <3> QED BY <3>1, <2>1, <2>2, <1>g, ThreadTypes, ThreadSets
  <2>4. queue' \in Seq(Jobs)
    BY <1>9 DEF ShutdownDrain
  <2>5. pc' \in [Threads -> AppLabels \cup WorkerLabels \cup UnloadLabels]
    BY <1>9, ThreadSets, ThreadTypes DEF ShutdownDrain, Goto, AppLabels
  <2> QED BY <1>a, <2>0, <2>3, <2>4, <2>5 DEF TypeOK, modelVars, lockVars, managerVars
<1>10. ASSUME NEW t \in Apps, ShutdownJoin(t) PROVE TypeOK'
  BY <1>10, <1>a, ThreadSets DEF ShutdownJoin, Goto, modelVars, lockVars, tableVars,
      managerVars, poolVars, TypeOK, AppLabels, WorkerLabels, UnloadLabels
<1>11. ASSUME NEW t \in Apps, ShutdownUnloads(t) PROVE TypeOK'
  BY <1>11, <1>a, ThreadSets DEF ShutdownUnloads, Goto, modelVars, lockVars, tableVars,
      managerVars, poolVars, TypeOK, AppLabels, WorkerLabels, UnloadLabels
<1>12. ASSUME NEW t \in Apps, ShutdownClears(t) PROVE TypeOK'
  BY <1>12, <1>a, ThreadSets DEF ShutdownClears, Goto, modelVars, lockVars, tableVars, poolVars,
      listVars, TypeOK, AppLabels, WorkerLabels, UnloadLabels
<1>13. ASSUME NEW t \in Apps, NEW k \in JobKinds \ {"reload"}, NEW m \in Models \cup {NoModel},
              Submit(t, k, m)
       PROVE  TypeOK'
  <2>0. UNCHANGED <<modelVars, lockVars, tableVars, managerVars, queue, todo, hold, after, due,
      events>>
    BY <1>13 DEF Submit
  <2>1. submitted' \in 0..MaxJobs
    BY <1>13, <1>a, LifecycleAssumption DEF Submit, TypeOK
  <2>2. pc' \in [Threads -> AppLabels \cup WorkerLabels \cup UnloadLabels]
    BY <1>13, ThreadSets, ThreadTypes DEF Submit, Goto, Enter, AppLabels
  <2>3. /\ at' \in [Threads -> Models \cup {NoModel}] /\ kind' \in [Threads -> JobKinds]
        /\ back' \in [Threads -> Returns]
    BY <1>13, ThreadSets, ThreadTypes DEF Returns, Submit, Goto, Enter, JobKinds, Returns
  <2> QED BY <1>a, <2>0, <2>1, <2>2, <2>3 DEF TypeOK, modelVars, lockVars, tableVars,
      managerVars
<1>14. ASSUME NEW t \in Apps, NEW m \in Models, SessionCreate(t, m) PROVE TypeOK'
  BY <1>14, <1>a, ThreadSets DEF SessionCreate, modelVars, lockVars, managerVars, poolVars,
      listVars, TypeOK, AppLabels, WorkerLabels, UnloadLabels
<1>15. ASSUME NEW t \in Apps, NEW m \in Models, ReleaseHandle(t, m) PROVE TypeOK'
  BY <1>15, <1>a, ThreadSets DEF ReleaseHandle, Let, Enter, Goto, modelVars, lockVars,
      managerVars, poolVars, TypeOK, Returns, AppLabels, WorkerLabels, UnloadLabels
<1>16. ASSUME NEW t \in Apps, UpdateSettings(t) PROVE TypeOK'
  BY <1>16, <1>a, ThreadSets DEF UpdateSettings, modelVars, lockVars, tableVars, poolVars,
      listVars, TypeOK, AppLabels, WorkerLabels, UnloadLabels
<1>17. ASSUME NEW t \in Apps, NEW event \in {"MEMORY_CRITICAL", "BACKGROUND"},
              NotifyUnloads(t, event)
       PROVE  TypeOK'
  <2>0. UNCHANGED <<modelVars, lockVars, tableVars, managerVars, poolVars, at, kind, todo, hold,
      back>>
    BY <1>17 DEF NotifyUnloads
  <2>1. events' \in 0..MaxEvents
    BY <1>17, <2>0, ThreadSets, <1>a, LifecycleAssumption DEF NotifyUnloads, Goto, TypeOK
  <2>2. pc' \in [Threads -> AppLabels \cup WorkerLabels \cup UnloadLabels]
    BY <1>17, <2>0, ThreadSets, ThreadTypes DEF NotifyUnloads, Goto, AppLabels, WorkerLabels,
        UnloadLabels
  <2>3. after' \in [Threads -> {"idle", "shutdownUnloads", "clear"}]
    BY <1>17, <2>0, ThreadSets, ThreadTypes DEF NotifyUnloads, Goto
  <2>4. due' \in [Threads -> SUBSET Models]
    BY <1>17, <2>0, ThreadSets, ThreadTypes, <1>g DEF NotifyUnloads, Goto
  <2> QED BY <1>a, <2>0, <2>1, <2>2, <2>3, <2>4 DEF TypeOK, modelVars, lockVars, tableVars,
      managerVars, poolVars
<1>18. ASSUME NEW t \in Apps, NotifyForeground(t) PROVE TypeOK'
  <2>0. UNCHANGED <<modelVars, lockVars, tableVars, registry, autoUnload, down, poolVars, at,
      kind, back, due>>
    BY <1>18 DEF NotifyForeground
  <2>1. autoUnloaded' \subseteq born'
    BY <1>18, <2>0, ThreadSets, <1>g, <1>h DEF NotifyForeground, Goto, modelVars, lockVars,
        tableVars, poolVars
  <2>2. events' \in 0..MaxEvents
    BY <1>18, <2>0, ThreadSets, <1>a, LifecycleAssumption DEF NotifyForeground, Goto, TypeOK
  <2>3. pc' \in [Threads -> AppLabels \cup WorkerLabels \cup UnloadLabels]
    BY <1>18, <2>0, ThreadSets, ThreadTypes DEF NotifyForeground, Goto, AppLabels, WorkerLabels,
        UnloadLabels
  <2>4. todo' \in [Threads -> SUBSET Models]
    BY <1>18, <2>0, ThreadSets, ThreadTypes, <1>g DEF NotifyForeground, Goto
  <2>5. hold' \in [Threads -> SUBSET Models]
    BY <1>18, <2>0, ThreadSets, ThreadTypes, <1>g DEF NotifyForeground, Goto
  <2>6. after' \in [Threads -> {"idle", "shutdownUnloads", "clear"}]
    BY <1>18, <2>0, ThreadSets, ThreadTypes DEF NotifyForeground, Goto
  <2> QED BY <1>a, <2>0, <2>1, <2>2, <2>3, <2>4, <2>5, <2>6 DEF TypeOK, modelVars, lockVars,
      tableVars, poolVars
<1>19. ASSUME NEW t \in Apps, ShutdownBegin(t) PROVE TypeOK'
  BY <1>19, <1>a, ThreadSets DEF ShutdownBegin, Goto, modelVars, lockVars, tableVars, poolVars,
      listVars, TypeOK, AppLabels, WorkerLabels, UnloadLabels
<1>20. ASSUME NEW w \in Workers, WorkerPop(w) PROVE TypeOK'
  <2>0. UNCHANGED <<modelVars, lockVars, tableVars, managerVars, submitted, todo, hold, after,
      due, events>>
    BY <1>20 DEF WorkerPop
  <2>1. queue' \in Seq(Jobs)
    BY <1>20, <1>a DEF WorkerPop, TypeOK
  <2>2. pc' \in [Threads -> AppLabels \cup WorkerLabels \cup UnloadLabels]
    BY <1>20, ThreadTypes DEF WorkerPop, Enter, Goto, JobBegins, WorkerLabels, UnloadLabels
  <2>3. at' \in [Threads -> Models \cup {NoModel}]
    <3>1. Head(queue) \in Jobs /\ Tail(queue) \in Seq(Jobs)
      BY <1>20, <1>a DEF WorkerPop, TypeOK
    <3> QED BY <1>20, <3>1, ThreadTypes DEF WorkerPop, Enter, Jobs
  <2>4. kind' \in [Threads -> JobKinds]
    <3>1. Head(queue) \in Jobs /\ Tail(queue) \in Seq(Jobs)
      BY <1>20, <1>a DEF WorkerPop, TypeOK
    <3> QED BY <1>20, <3>1, ThreadTypes DEF WorkerPop, Jobs
  <2>5. back' \in [Threads -> Returns]
    BY <1>20, <2>0, ThreadSets, ThreadTypes DEF Returns, WorkerPop, Enter, Goto
  <2> QED BY <1>a, <2>0, <2>1, <2>2, <2>3, <2>4, <2>5 DEF TypeOK, modelVars, lockVars,
      tableVars, managerVars
<1>21. ASSUME NEW w \in Workers, WorkerExit(w) PROVE TypeOK'
  BY <1>21, <1>a, ThreadSets DEF WorkerExit, Goto, modelVars, lockVars, tableVars, managerVars,
      poolVars, listVars, TypeOK, AppLabels, WorkerLabels, UnloadLabels
<1>22. ASSUME NEW w \in Workers, JobEnd(w) PROVE TypeOK'
  <2>0. UNCHANGED <<modelVars, lockVars, handle, session, managerVars, poolVars, todo, hold,
      after, due, events>>
    BY <1>22 DEF JobEnd
  <2>1. kept' \subseteq born'
    BY <1>22, <2>0, ThreadSets, <1>g, <1>h DEF JobEnd, Let, Enter, Goto, modelVars, lockVars,
        managerVars, poolVars
  <2>2. pc' \in [Threads -> AppLabels \cup WorkerLabels \cup UnloadLabels]
    BY <1>22, <2>0, ThreadSets, ThreadTypes DEF JobEnd, Let, Enter, Goto, AppLabels,
        WorkerLabels, UnloadLabels
  <2>3. at' \in [Threads -> Models \cup {NoModel}]
    BY <1>22, <2>0, ThreadSets, ThreadTypes, <1>g DEF JobEnd, Let, Enter, Goto
  <2>4. kind' \in [Threads -> JobKinds]
    BY <1>22, ThreadTypes DEF JobEnd, JobKinds
  <2>5. back' \in [Threads -> Returns]
    BY <1>22, <2>0, ThreadSets, ThreadTypes DEF Returns, JobEnd, Let, Enter, Goto
  <2> QED BY <1>a, <2>0, <2>1, <2>2, <2>3, <2>4, <2>5 DEF TypeOK, modelVars, lockVars,
      managerVars, poolVars
<1>23. ASSUME NEW w \in Workers, LoadCheck(w) PROVE TypeOK'
  BY <1>23, <1>a, ThreadSets DEF LoadCheck, Goto, modelVars, lockVars, tableVars, managerVars,
      poolVars, listVars, TypeOK, AppLabels, WorkerLabels, UnloadLabels
<1>24. ASSUME NEW w \in Workers, LoadOga(w) PROVE TypeOK'
  BY <1>24, <1>a, ThreadSets DEF LoadOga, Goto, modelVars, tableVars, managerVars, poolVars,
      listVars, TypeOK, AppLabels, WorkerLabels, UnloadLabels
<1>25. ASSUME NEW w \in Workers, LoadOperation(w) PROVE TypeOK'
  BY <1>25, <1>a, ThreadSets DEF LoadOperation, Goto, modelVars, tableVars, managerVars,
      poolVars, listVars, TypeOK, AppLabels, WorkerLabels, UnloadLabels
<1>26. ASSUME NEW w \in Workers, LoadFails(w) PROVE TypeOK'
  BY <1>26, <1>a, ThreadSets DEF LoadFails, Goto, modelVars, tableVars, managerVars, poolVars,
      listVars, TypeOK, AppLabels, WorkerLabels, UnloadLabels
<1>27. ASSUME NEW w \in Workers, LoadSucceeds(w) PROVE TypeOK'
  <2>0. UNCHANGED <<born, dying, lockVars, tableVars, managerVars, poolVars, at, kind,
                  listVars, due, events>>
    BY <1>27 DEF LoadSucceeds
  <2>1. loaded' \in [Models -> BOOLEAN]
    BY <1>27, <2>0, ThreadSets, <1>a DEF LoadSucceeds, Goto, TypeOK
  <2>2. liveObjects' \in Nat
    BY <1>27, <2>0, ThreadSets, <1>a DEF LoadSucceeds, Goto, TypeOK
  <2>3. pc' \in [Threads -> AppLabels \cup WorkerLabels \cup UnloadLabels]
    BY <1>27, <2>0, ThreadSets, ThreadTypes DEF LoadSucceeds, Goto, AppLabels, WorkerLabels,
        UnloadLabels
  <2> QED BY <1>a, <2>0, <2>1, <2>2, <2>3 DEF TypeOK, lockVars, tableVars, managerVars,
      poolVars, listVars
<1>28. ASSUME NEW w \in Workers, LoadReturns(w) PROVE TypeOK'
  BY <1>28, <1>a, ThreadSets DEF LoadReturns, Goto, modelVars, tableVars, managerVars, poolVars,
      listVars, TypeOK, AppLabels, WorkerLabels, UnloadLabels
<1>29. ASSUME NEW w \in Workers, MakeRegisters(w) PROVE TypeOK'
  <2>0. UNCHANGED <<modelVars, lockVars, tableVars, autoUnloaded, autoUnload, down, poolVars,
      at, kind, listVars, due, events>>
    BY <1>29 DEF MakeRegisters
  <2>1. registry' \subseteq born'
    BY <1>29, <2>0, ThreadSets, <1>g, <1>h DEF MakeRegisters, Goto, modelVars, lockVars,
        tableVars, poolVars, listVars
  <2>2. pc' \in [Threads -> AppLabels \cup WorkerLabels \cup UnloadLabels]
    BY <1>29, <2>0, ThreadSets, ThreadTypes DEF MakeRegisters, Goto, AppLabels, WorkerLabels,
        UnloadLabels
  <2> QED BY <1>a, <2>0, <2>1, <2>2 DEF TypeOK, modelVars, lockVars, tableVars, poolVars,
      listVars
<1>30. ASSUME NEW w \in Workers, MakePublishes(w) PROVE TypeOK'
  <2>0. UNCHANGED <<modelVars, lockVars, session, kept, managerVars, poolVars, at, kind,
      listVars, due, events>>
    BY <1>30 DEF MakePublishes
  <2>1. handle' \subseteq born'
    BY <1>30, <2>0, ThreadSets, <1>g, <1>h DEF MakePublishes, Goto, modelVars, lockVars,
        managerVars, poolVars, listVars
  <2>2. pc' \in [Threads -> AppLabels \cup WorkerLabels \cup UnloadLabels]
    BY <1>30, <2>0, ThreadSets, ThreadTypes DEF MakePublishes, Goto, AppLabels, WorkerLabels,
        UnloadLabels
  <2> QED BY <1>a, <2>0, <2>1, <2>2 DEF TypeOK, modelVars, lockVars, managerVars, poolVars,
      listVars
<1>31. ASSUME NEW w \in Workers, InferRequest(w) PROVE TypeOK'
  BY <1>31, <1>a, ThreadSets DEF InferRequest, Goto, modelVars, tableVars, managerVars,
      poolVars, listVars, TypeOK, AppLabels, WorkerLabels, UnloadLabels
<1>32. ASSUME NEW w \in Workers, InferOga(w) PROVE TypeOK'
  <2>0. UNCHANGED <<modelVars, operation, listing, tableVars, managerVars, poolVars, at, kind,
                  listVars, due, events>>
    BY <1>32 DEF InferOga
  <2>1. oga' \in [Models -> Threads \cup {NoThread}]
    <3>1. oga \in [Models -> Threads \cup {NoThread}]
      BY <1>a DEF TypeOK
    <3> QED BY <1>32, <3>1, ThreadSets DEF InferOga
  <2>2. request' \in [Models -> Threads \cup {NoThread}]
    <3>1. request \in [Models -> Threads \cup {NoThread}]
      BY <1>a DEF TypeOK
    <3> QED BY <1>32, <3>1 DEF InferOga
  <2>3. pc' \in [Threads -> AppLabels \cup WorkerLabels \cup UnloadLabels]
    BY <1>32, <2>0, ThreadSets, ThreadTypes DEF InferOga, Goto, AppLabels, WorkerLabels,
        UnloadLabels
  <2> QED BY <1>a, <2>0, <2>1, <2>2, <2>3 DEF TypeOK, modelVars, tableVars, managerVars,
      poolVars, listVars
<1>33. ASSUME NEW w \in Workers, InferOperation(w) PROVE TypeOK'
  BY <1>33, <1>a, ThreadSets DEF InferOperation, Goto, modelVars, tableVars, managerVars,
      poolVars, listVars, TypeOK, AppLabels, WorkerLabels, UnloadLabels
<1>34. ASSUME NEW w \in Workers, InferEnds(w) PROVE TypeOK'
  BY <1>34, <1>a, ThreadSets DEF InferEnds, Goto, modelVars, tableVars, managerVars, poolVars,
      listVars, TypeOK, AppLabels, WorkerLabels, UnloadLabels
<1>35. CASE UNCHANGED vars
  BY <1>35, <1>a, ThreadSets DEF vars, modelVars, lockVars, tableVars, managerVars, poolVars,
      listVars, TypeOK, AppLabels, WorkerLabels, UnloadLabels
<1>36. ASSUME NEW t \in Apps, SubmitAccepted(t) PROVE TypeOK'
  BY <1>36, <1>a, ThreadSets DEF SubmitAccepted, Goto, modelVars, lockVars, tableVars,
      managerVars, poolVars, listVars, TypeOK, AppLabels, WorkerLabels, UnloadLabels
<1>37. ASSUME NEW t \in Apps, SubmitRefused(t) PROVE TypeOK'
  <2>0. UNCHANGED <<modelVars, lockVars, handle, session, managerVars, poolVars, hold, after,
      due, events>>
    BY <1>37 DEF SubmitRefused
  <2>1. kept' \subseteq born
    BY <1>37, ThreadSets, <1>g, <1>i DEF SubmitRefused
  <2>2. pc' \in [Threads -> AppLabels \cup WorkerLabels \cup UnloadLabels]
    BY <1>37, ThreadSets, ThreadTypes DEF SubmitRefused, LetJob, Let, Goto, Enter, AppLabels,
        UnloadLabels
  <2>3. /\ at' \in [Threads -> Models \cup {NoModel}] /\ kind' \in [Threads -> JobKinds]
        /\ back' \in [Threads -> Returns]
    BY <1>37, ThreadSets, ThreadTypes DEF Returns, SubmitRefused, LetJob, Let, Goto, Enter,
        JobKinds,
        Returns
  <2>4. todo' \in [Threads -> SUBSET Models]
    BY <1>37, ThreadSets, ThreadTypes DEF SubmitRefused
  <2> QED BY <1>a, <2>0, <2>1, <2>2, <2>3, <2>4 DEF TypeOK, modelVars, lockVars, managerVars,
      poolVars
<1>38. ASSUME NEW t \in Apps, SubmitPush(t) PROVE TypeOK'
  <2>0. UNCHANGED <<modelVars, lockVars, tableVars, managerVars, submitted, todo, hold, after, due,
      events>>
    BY <1>38 DEF SubmitPush
  <2>1. queue' \in Seq(Jobs)
    <3>1. Submitting(t) /\ t \in Threads
      BY <1>38, ThreadSets DEF SubmitPush, Submitting
    <3>2. [kind |-> kind[t], model |-> at[t]] \in Jobs
      BY <3>1, PushedType
    <3> QED BY <1>38, <3>2, SharedTypes DEF SubmitPush
  <2>2. pc' \in [Threads -> AppLabels \cup WorkerLabels \cup UnloadLabels]
    BY <1>38, ThreadSets, ThreadTypes DEF SubmitPush, LetJob, Let, Goto, Enter, AppLabels,
        UnloadLabels, WorkerLabels, Returns
  <2>3. /\ at' \in [Threads -> Models \cup {NoModel}] /\ kind' \in [Threads -> JobKinds]
        /\ back' \in [Threads -> Returns]
    BY <1>38, ThreadSets, ThreadTypes DEF SubmitPush, LetJob, Let, Goto, Enter, JobKinds,
        Returns
  <2> QED BY <1>a, <2>0, <2>1, <2>2, <2>3 DEF TypeOK, modelVars, lockVars, tableVars,
      managerVars
<1>39. ASSUME NEW t \in Apps, NEW m \in Models, Visit(t, m) PROVE TypeOK'
  <2>0. UNCHANGED <<modelVars, lockVars, tableVars, autoUnloaded, autoUnload, down, poolVars,
      kind, after, due, events>>
    BY <1>39 DEF Visit
  <2>1. registry' \subseteq born
    BY <1>39, <1>g DEF Visit
  <2>2. pc' \in [Threads -> AppLabels \cup WorkerLabels \cup UnloadLabels]
    BY <1>39, ThreadSets, ThreadTypes DEF Visit, Let, Goto, Enter, UnloadLabels
  <2>3. at' \in [Threads -> Models \cup {NoModel}] /\ back' \in [Threads -> Returns]
    BY <1>39, ThreadSets, ThreadTypes DEF Returns, Visit, Let, Goto, Enter, Returns
  <2>4. todo' \in [Threads -> SUBSET Models] /\ hold' \in [Threads -> SUBSET Models]
    BY <1>39, ThreadSets, ThreadTypes DEF Visit
  <2> QED BY <1>a, <2>0, <2>1, <2>2, <2>3, <2>4 DEF TypeOK, modelVars, lockVars, tableVars,
      poolVars
<1>40. ASSUME NEW t \in Apps, Collected(t) PROVE TypeOK'
  <2>0. UNCHANGED <<modelVars, oga, request, operation, tableVars, registry, autoUnload, down,
      poolVars, at, kind, hold, back, after, due, events>>
    BY <1>40 DEF Collected
  <2>1. autoUnloaded' \subseteq born /\ listing' \in Threads \cup {NoThread}
    BY <1>40, ThreadSets, <1>g DEF Collected
  <2>2. pc' \in [Threads -> AppLabels \cup WorkerLabels \cup UnloadLabels]
    BY <1>40, ThreadSets, ThreadTypes DEF Collected, Goto, AppLabels
  <2>3. todo' \in [Threads -> SUBSET Models]
    BY <1>40, ThreadSets, ThreadTypes DEF Collected
  <2> QED BY <1>a, <2>0, <2>1, <2>2, <2>3 DEF TypeOK, modelVars, tableVars, poolVars
<1>41. ASSUME NEW t \in Apps, ShutdownFlag(t) PROVE TypeOK'
  BY <1>41, <1>a, ThreadSets DEF ShutdownFlag, Goto, modelVars, lockVars, tableVars, poolVars,
      listVars, TypeOK, AppLabels, WorkerLabels, UnloadLabels
<1>42. ASSUME NEW w \in Workers, MakeBegins(w) PROVE TypeOK'
  <2>0. UNCHANGED <<loaded, liveObjects, dying, lockVars, tableVars, managerVars, submitted,
      kind, todo, hold, after, due, events>>
    BY <1>42 DEF MakeBegins
  <2>1. born' \subseteq Models /\ born \subseteq born'
    BY <1>42, <1>g DEF MakeBegins
  <2>2. queue' \in Seq(Jobs)
    BY <1>42, <1>a DEF MakeBegins, TypeOK
  <2>3. pc' \in [Threads -> AppLabels \cup WorkerLabels \cup UnloadLabels]
    BY <1>42, ThreadSets, ThreadTypes DEF MakeBegins, Goto, Enter, WorkerLabels
  <2>4. at' \in [Threads -> Models \cup {NoModel}] /\ back' \in [Threads -> Returns]
    BY <1>42, ThreadSets, ThreadTypes DEF Returns, MakeBegins, Goto, Enter, Returns
  <2> QED BY <1>a, <1>g, <2>0, <2>1, <2>2, <2>3, <2>4 DEF TypeOK, lockVars, tableVars,
      managerVars
<1> QED BY <1>1, <1>2, <1>3, <1>4, <1>5, <1>6, <1>7, <1>8, <1>9, <1>10, <1>11, <1>12, <1>13,
    <1>14, <1>15, <1>16, <1>17, <1>18, <1>19, <1>20, <1>21, <1>22, <1>23, <1>24, <1>25, <1>26,
    <1>27, <1>28, <1>29, <1>30, <1>31, <1>32, <1>33, <1>34, <1>35, <1>36, <1>37, <1>38, <1>39,
    <1>40, <1>41, <1>42, NextCases

\* A thread holds the locks its place says: nobody takes or gives back another one's.
LEMMA NextLockInv == Inv /\ [Next]_vars => LockInv'
<1> SUFFICES ASSUME Inv, [Next]_vars PROVE LockInv'
  OBVIOUS
<1>a. LockInv
  BY DEF Inv
<1>h. \A t \in Threads :
        pc[t] \in OgaHeld \cup {"unloadOga", "loadOga", "inferOga"} => at[t] \in Models
  BY SetTypes DEF Inv, ThreadInv, Handling, UnloadLabels, WorkerLabels, OgaHeld
<1>1. ASSUME NEW t \in Threads, UnloadOga(t) PROVE LockInv'
  BY <1>1, <1>a, ThreadSets, ThreadTypes, SharedTypes, <1>h, LifecycleAssumption DEF UnloadOga,
      Goto, modelVars, tableVars, managerVars, poolVars, listVars, LockInv, OgaHeld,
      OperationHeld, Threads
<1>2. ASSUME NEW t \in Threads, UnloadOperation(t) PROVE LockInv'
  BY <1>2, <1>a, ThreadSets, ThreadTypes, SharedTypes, <1>h, LifecycleAssumption DEF
      UnloadOperation, Goto, modelVars, tableVars, managerVars, poolVars, listVars, LockInv,
      OgaHeld, OperationHeld, Threads
<1>3. ASSUME NEW t \in Threads, Unload(t) PROVE LockInv'
  BY <1>3, <1>a, ThreadSets, ThreadTypes, SharedTypes, <1>h DEF Returns, Unload, Resume, Enter,
      Goto,
      tableVars, managerVars, poolVars, LockInv, OgaHeld, OperationHeld
<1>4. ASSUME NEW t \in Threads, Drop(t) PROVE LockInv'
  BY <1>4, <1>a, ThreadSets, ThreadTypes, SharedTypes, <1>h DEF Returns, Drop, Goto, Resume, Enter,
      lockVars, tableVars, managerVars, poolVars, LockInv, OgaHeld, OperationHeld
<1>5. ASSUME NEW t \in Apps, Collect(t) PROVE LockInv'
  BY <1>5, <1>a, ThreadSets, ThreadTypes, SharedTypes, <1>h DEF Collect, Goto, modelVars,
      tableVars, managerVars, poolVars, LockInv, OgaHeld, OperationHeld
<1>6. ASSUME NEW t \in Apps, UnloadNext(t) PROVE LockInv'
  BY <1>6, <1>a, ThreadSets, ThreadTypes, SharedTypes, <1>h DEF UnloadNext, Goto, Enter,
      modelVars, lockVars, tableVars, managerVars, poolVars, LockInv, OgaHeld, OperationHeld
<1>7. ASSUME NEW t \in Apps, DropNext(t) PROVE LockInv'
  BY <1>7, <1>a, ThreadSets, ThreadTypes, SharedTypes, <1>h DEF DropNext, Goto, Let, Enter,
      modelVars, lockVars, tableVars, managerVars, poolVars, LockInv, OgaHeld, OperationHeld
<1>8. ASSUME NEW t \in Apps, ReloadNext(t) PROVE LockInv'
  BY <1>8, <1>a, ThreadSets, ThreadTypes, SharedTypes, <1>h DEF ReloadNext, Enter, Goto,
      modelVars, lockVars, tableVars, managerVars, poolVars, LockInv, OgaHeld, OperationHeld
<1>9. ASSUME NEW t \in Apps, ShutdownDrain(t) PROVE LockInv'
  BY <1>9, <1>a, ThreadSets, ThreadTypes, SharedTypes, <1>h DEF ShutdownDrain, Goto, modelVars,
      lockVars, managerVars, LockInv, OgaHeld, OperationHeld
<1>10. ASSUME NEW t \in Apps, ShutdownJoin(t) PROVE LockInv'
  BY <1>10, <1>a, ThreadSets, ThreadTypes, SharedTypes, <1>h DEF ShutdownJoin, Goto, modelVars,
      lockVars, tableVars, managerVars, poolVars, LockInv, OgaHeld, OperationHeld
<1>11. ASSUME NEW t \in Apps, ShutdownUnloads(t) PROVE LockInv'
  BY <1>11, <1>a, ThreadSets, ThreadTypes, SharedTypes, <1>h DEF ShutdownUnloads, Goto,
      modelVars, lockVars, tableVars, managerVars, poolVars, LockInv, OgaHeld, OperationHeld
<1>12. ASSUME NEW t \in Apps, ShutdownClears(t) PROVE LockInv'
  BY <1>12, <1>a, ThreadSets, ThreadTypes, SharedTypes, <1>h DEF ShutdownClears, Goto,
      modelVars, lockVars, tableVars, poolVars, listVars, LockInv, OgaHeld, OperationHeld
<1>13. ASSUME NEW t \in Apps, NEW k \in JobKinds \ {"reload"}, NEW m \in Models \cup {NoModel},
              Submit(t, k, m)
       PROVE  LockInv'
  BY <1>13, <1>a, ThreadSets, ThreadTypes, SharedTypes, <1>h DEF Submit, Enter, Goto, modelVars,
      lockVars, tableVars, managerVars, LockInv, OgaHeld, OperationHeld
<1>14. ASSUME NEW t \in Apps, NEW m \in Models, SessionCreate(t, m) PROVE LockInv'
  BY <1>14, <1>a, ThreadSets, ThreadTypes, SharedTypes, <1>h DEF SessionCreate, modelVars,
      lockVars, managerVars, poolVars, listVars, LockInv, OgaHeld, OperationHeld
<1>15. ASSUME NEW t \in Apps, NEW m \in Models, ReleaseHandle(t, m) PROVE LockInv'
  BY <1>15, <1>a, ThreadSets, ThreadTypes, SharedTypes, <1>h DEF ReleaseHandle, Let, Enter,
      Goto, modelVars, lockVars, managerVars, poolVars, LockInv, OgaHeld, OperationHeld
<1>16. ASSUME NEW t \in Apps, UpdateSettings(t) PROVE LockInv'
  BY <1>16, <1>a, ThreadSets, ThreadTypes, SharedTypes, <1>h DEF UpdateSettings, modelVars,
      lockVars, tableVars, poolVars, listVars, LockInv, OgaHeld, OperationHeld
<1>17. ASSUME NEW t \in Apps, NEW event \in {"MEMORY_CRITICAL", "BACKGROUND"},
              NotifyUnloads(t, event)
       PROVE  LockInv'
  BY <1>17, <1>a, ThreadSets, ThreadTypes, SharedTypes, <1>h DEF NotifyUnloads, Goto, modelVars,
      lockVars, tableVars, managerVars, poolVars, LockInv, OgaHeld, OperationHeld
<1>18. ASSUME NEW t \in Apps, NotifyForeground(t) PROVE LockInv'
  BY <1>18, <1>a, ThreadSets, ThreadTypes, SharedTypes, <1>h DEF NotifyForeground, Goto,
      modelVars, lockVars, tableVars, poolVars, LockInv, OgaHeld, OperationHeld
<1>19. ASSUME NEW t \in Apps, ShutdownBegin(t) PROVE LockInv'
  BY <1>19, <1>a, ThreadSets, ThreadTypes, SharedTypes, <1>h DEF ShutdownBegin, Goto, modelVars,
      lockVars, tableVars, poolVars, listVars, LockInv, OgaHeld, OperationHeld
<1>20. ASSUME NEW w \in Workers, WorkerPop(w) PROVE LockInv'
  <2>1. UNCHANGED <<oga, operation>> /\ pc' = [pc EXCEPT ![w] = JobBegins(Head(queue).kind)]
    BY <1>20 DEF WorkerPop, lockVars, Enter, Goto
  <2>2. \A t \in Threads : t # w => at'[t] = at[t]
    BY <1>20, ThreadSets, ThreadTypes DEF WorkerPop, Enter
  <2>3. JobBegins(Head(queue).kind) \notin OgaHeld \cup OperationHeld
    BY DEF JobBegins, OgaHeld, OperationHeld
  <2> QED BY <2>1, <2>2, <2>3, <1>a, ThreadSets, ThreadTypes DEF LockInv
<1>21. ASSUME NEW w \in Workers, WorkerExit(w) PROVE LockInv'
  BY <1>21, <1>a, ThreadSets, ThreadTypes, SharedTypes, <1>h DEF WorkerExit, Goto, modelVars,
      lockVars, tableVars, managerVars, poolVars, listVars, LockInv, OgaHeld, OperationHeld
<1>22. ASSUME NEW w \in Workers, JobEnd(w) PROVE LockInv'
  BY <1>22, <1>a, ThreadSets, ThreadTypes, SharedTypes, <1>h DEF JobEnd, Let, Enter, Goto,
      modelVars, lockVars, managerVars, poolVars, LockInv, OgaHeld, OperationHeld
<1>23. ASSUME NEW w \in Workers, LoadCheck(w) PROVE LockInv'
  BY <1>23, <1>a, ThreadSets, ThreadTypes, SharedTypes, <1>h DEF LoadCheck, Goto, modelVars,
      lockVars, tableVars, managerVars, poolVars, listVars, LockInv, OgaHeld, OperationHeld
<1>24. ASSUME NEW w \in Workers, LoadOga(w) PROVE LockInv'
  BY <1>24, <1>a, ThreadSets, ThreadTypes, SharedTypes, <1>h, LifecycleAssumption DEF LoadOga,
      Goto, modelVars, tableVars, managerVars, poolVars, listVars, LockInv, OgaHeld,
      OperationHeld, Threads
<1>25. ASSUME NEW w \in Workers, LoadOperation(w) PROVE LockInv'
  BY <1>25, <1>a, ThreadSets, ThreadTypes, SharedTypes, <1>h, LifecycleAssumption DEF
      LoadOperation, Goto, modelVars, tableVars, managerVars, poolVars, listVars, LockInv,
      OgaHeld, OperationHeld, Threads
<1>26. ASSUME NEW w \in Workers, LoadFails(w) PROVE LockInv'
  BY <1>26, <1>a, ThreadSets, ThreadTypes, SharedTypes, <1>h DEF LoadFails, Goto, modelVars,
      tableVars, managerVars, poolVars, listVars, LockInv, OgaHeld, OperationHeld
<1>27. ASSUME NEW w \in Workers, LoadSucceeds(w) PROVE LockInv'
  BY <1>27, <1>a, ThreadSets, ThreadTypes, SharedTypes, <1>h DEF LoadSucceeds, Goto, lockVars,
      tableVars, managerVars, poolVars, listVars, LockInv, OgaHeld, OperationHeld
<1>28. ASSUME NEW w \in Workers, LoadReturns(w) PROVE LockInv'
  BY <1>28, <1>a, ThreadSets, ThreadTypes, SharedTypes, <1>h DEF LoadReturns, Goto, modelVars,
      tableVars, managerVars, poolVars, listVars, LockInv, OgaHeld, OperationHeld
<1>29. ASSUME NEW w \in Workers, MakeRegisters(w) PROVE LockInv'
  BY <1>29, <1>a, ThreadSets, ThreadTypes, SharedTypes, <1>h DEF MakeRegisters, Goto, modelVars,
      lockVars, tableVars, poolVars, listVars, LockInv, OgaHeld, OperationHeld
<1>30. ASSUME NEW w \in Workers, MakePublishes(w) PROVE LockInv'
  BY <1>30, <1>a, ThreadSets, ThreadTypes, SharedTypes, <1>h DEF MakePublishes, Goto, modelVars,
      lockVars, managerVars, poolVars, listVars, LockInv, OgaHeld, OperationHeld
<1>31. ASSUME NEW w \in Workers, InferRequest(w) PROVE LockInv'
  BY <1>31, <1>a, ThreadSets, ThreadTypes, SharedTypes, <1>h DEF InferRequest, Goto, modelVars,
      tableVars, managerVars, poolVars, listVars, LockInv, OgaHeld, OperationHeld
<1>32. ASSUME NEW w \in Workers, InferOga(w) PROVE LockInv'
  BY <1>32, <1>a, ThreadSets, ThreadTypes, SharedTypes, <1>h, LifecycleAssumption DEF InferOga,
      Goto, modelVars, tableVars, managerVars, poolVars, listVars, LockInv, OgaHeld,
      OperationHeld, Threads
<1>33. ASSUME NEW w \in Workers, InferOperation(w) PROVE LockInv'
  BY <1>33, <1>a, ThreadSets, ThreadTypes, SharedTypes, <1>h, LifecycleAssumption DEF
      InferOperation, Goto, modelVars, tableVars, managerVars, poolVars, listVars, LockInv,
      OgaHeld, OperationHeld, Threads
<1>34. ASSUME NEW w \in Workers, InferEnds(w) PROVE LockInv'
  BY <1>34, <1>a, ThreadSets, ThreadTypes, SharedTypes, <1>h DEF InferEnds, Goto, modelVars,
      tableVars, managerVars, poolVars, listVars, LockInv, OgaHeld, OperationHeld
<1>35. CASE UNCHANGED vars
  BY <1>35, <1>a, ThreadSets, ThreadTypes, SharedTypes, <1>h DEF vars, modelVars, lockVars,
      tableVars, managerVars, poolVars, listVars, LockInv, OgaHeld, OperationHeld
<1>36. ASSUME NEW t \in Apps, SubmitAccepted(t) PROVE LockInv'
  BY <1>36, <1>a, ThreadSets, ThreadTypes, SharedTypes, <1>h DEF SubmitAccepted, Goto,
      modelVars, lockVars, tableVars, managerVars, poolVars, listVars, LockInv, OgaHeld,
      OperationHeld
<1>37. ASSUME NEW t \in Apps, SubmitRefused(t) PROVE LockInv'
  BY <1>37, <1>a, ThreadSets, ThreadTypes, SharedTypes, <1>h DEF SubmitRefused, LetJob, Let,
      Enter, Goto, modelVars, lockVars, managerVars, poolVars, LockInv, OgaHeld, OperationHeld
<1>38. ASSUME NEW t \in Apps, SubmitPush(t) PROVE LockInv'
  <2>1. /\ UNCHANGED <<oga, operation, at>> /\ \A u \in Threads : u # t => pc'[u] = pc[u]
        /\ pc'[t] \in Returns \cup {"drop"}
    BY <1>38, ThreadSets, ThreadTypes DEF SubmitPush, LetJob, Let, Enter, Goto, lockVars
  <2>2. pc'[t] \notin OgaHeld /\ pc'[t] \notin OperationHeld
    BY <2>1 DEF Returns, OgaHeld, OperationHeld
  <2> QED BY <2>1, <2>2, <1>a DEF LockInv
<1>39. ASSUME NEW t \in Apps, NEW m \in Models, Visit(t, m) PROVE LockInv'
  BY <1>39, <1>a, ThreadSets, ThreadTypes, SharedTypes, <1>h DEF Visit, Let, Enter, Goto,
      modelVars, lockVars, tableVars, poolVars, LockInv, OgaHeld, OperationHeld
<1>40. ASSUME NEW t \in Apps, Collected(t) PROVE LockInv'
  BY <1>40, <1>a, ThreadSets, ThreadTypes, SharedTypes, <1>h DEF Collected, Goto, modelVars,
      tableVars, poolVars, LockInv, OgaHeld, OperationHeld
<1>41. ASSUME NEW t \in Apps, ShutdownFlag(t) PROVE LockInv'
  BY <1>41, <1>a, ThreadSets, ThreadTypes, SharedTypes, <1>h DEF ShutdownFlag, Goto, modelVars,
      lockVars, tableVars, poolVars, listVars, LockInv, OgaHeld, OperationHeld
<1>42. ASSUME NEW w \in Workers, MakeBegins(w) PROVE LockInv'
  BY <1>42, <1>a, ThreadSets, ThreadTypes, SharedTypes, <1>h DEF MakeBegins, Enter, Goto,
      lockVars, tableVars, managerVars, LockInv, OgaHeld, OperationHeld
<1> QED BY <1>1, <1>2, <1>3, <1>4, <1>5, <1>6, <1>7, <1>8, <1>9, <1>10, <1>11, <1>12, <1>13,
    <1>14, <1>15, <1>16, <1>17, <1>18, <1>19, <1>20, <1>21, <1>22, <1>23, <1>24, <1>25, <1>26,
    <1>27, <1>28, <1>29, <1>30, <1>31, <1>32, <1>33, <1>34, <1>35, <1>36, <1>37, <1>38, <1>39,
    <1>40, <1>41, <1>42, NextCases

\* Who goes through models_ has the manager's lock.
LEMMA NextListingInv == Inv /\ [Next]_vars => ListingInv'
<1> SUFFICES ASSUME Inv, [Next]_vars PROVE ListingInv'
  OBVIOUS
<1>a. ListingInv
  BY DEF Inv
<1>1. ASSUME NEW t \in Threads, UnloadOga(t) \/ UnloadOperation(t) PROVE ListingInv'
  BY <1>1, <1>a, ThreadTypes DEF UnloadOga, UnloadOperation, Goto, listVars, ListingInv,
      Visiting, InUnload, UnloadLabels
<1>2. ASSUME NEW t \in Threads, Unload(t) \/ Drop(t) PROVE ListingInv'
  BY <1>2, <1>a, ThreadTypes DEF Unload, Drop, Resume, Enter, Goto, lockVars, ListingInv,
      Visiting, InUnload, UnloadLabels
<1>3. ASSUME NEW t \in Apps, SubmitAccepted(t) \/ SubmitRefused(t) \/ SubmitPush(t)
      PROVE  ListingInv'
  <2>1. /\ ThreadInv(t) /\ Submitting(t)
        /\ listing' = listing
        /\ \/ pc' = [pc EXCEPT ![t] = "push"] /\ back' = back
           \/ /\ kind[t] = "make" /\ back' = back
              /\ pc' = [pc EXCEPT ![t] = "idle"] \/ pc' = [pc EXCEPT ![t] = "dropping"]
                 \/ pc' = [pc EXCEPT ![t] = back[t]]
           \/ /\ pc' = [pc EXCEPT ![t] = "drop"]
              /\ \/ back' = [back EXCEPT ![t] = "idle"] \/ back' = [back EXCEPT ![t] = "dropping"]
                 \/ back' = [back EXCEPT ![t] = back[t]]
    BY <1>3, ThreadSets DEF Inv, SubmitAccepted, SubmitRefused, SubmitPush, LetJob, Let, Enter,
        Goto, lockVars, listVars, Submitting
  <2>2. back[t] # "visiting"
    BY <2>1 DEF ThreadInv
  <2> QED BY <2>1, <2>2, <1>a, ThreadSets, ThreadTypes DEF ListingInv, Visiting, InUnload,
      UnloadLabels
<1>4. ASSUME NEW t \in Apps,
             Collect(t) \/ Collected(t) \/ \E m \in Models : Visit(t, m)
      PROVE  ListingInv'
  BY <1>4, <1>a, LifecycleAssumption, ThreadSets, ThreadTypes DEF Collect, Collected, Visit, Let,
      Enter, Goto, lockVars, Threads, ListingInv, Visiting, InUnload, UnloadLabels
<1>5. ASSUME NEW t \in Apps, UnloadNext(t) \/ DropNext(t) \/ ReloadNext(t) PROVE ListingInv'
  BY <1>5, <1>a, ThreadSets, ThreadTypes DEF UnloadNext, DropNext, ReloadNext, Let, Enter, Goto,
      lockVars, ListingInv, Visiting, InUnload, UnloadLabels
<1>6. ASSUME NEW t \in Apps,
             \/ ShutdownFlag(t) \/ ShutdownDrain(t) \/ ShutdownJoin(t) \/ ShutdownUnloads(t)
             \/ ShutdownClears(t) \/ ShutdownBegin(t)
      PROVE  ListingInv'
  BY <1>6, <1>a, ThreadSets, ThreadTypes DEF ShutdownFlag, ShutdownDrain, ShutdownJoin,
      ShutdownUnloads, ShutdownClears, ShutdownBegin, Goto, lockVars, listVars, ListingInv,
      Visiting, InUnload, UnloadLabels
<1>7. ASSUME NEW t \in Apps,
             \/ \E k \in JobKinds \ {"reload"}, m \in Models \cup {NoModel} : Submit(t, k, m)
             \/ \E m \in Models : SessionCreate(t, m) \/ ReleaseHandle(t, m)
             \/ UpdateSettings(t)
             \/ \E event \in {"MEMORY_CRITICAL", "BACKGROUND"} : NotifyUnloads(t, event)
             \/ NotifyForeground(t)
      PROVE  ListingInv'
  BY <1>7, <1>a, ThreadSets, ThreadTypes DEF Submit, SessionCreate, ReleaseHandle,
      UpdateSettings, NotifyUnloads, NotifyForeground, Let, Enter, Goto, lockVars, listVars,
      ListingInv, Visiting, InUnload, UnloadLabels
<1>8. ASSUME NEW w \in Workers, WorkerPop(w) \/ MakeBegins(w) \/ WorkerExit(w) \/ JobEnd(w)
      PROVE  ListingInv'
  BY <1>8, <1>a, ThreadSets, ThreadTypes DEF WorkerPop, MakeBegins, WorkerExit, JobEnd,
      JobBegins, Let, Enter, Goto, lockVars, listVars, ListingInv, Visiting, InUnload,
      UnloadLabels
<1>9. ASSUME NEW w \in Workers,
             \/ LoadCheck(w) \/ LoadOga(w) \/ LoadOperation(w) \/ LoadFails(w)
             \/ LoadSucceeds(w) \/ LoadReturns(w) \/ MakeRegisters(w) \/ MakePublishes(w)
      PROVE  ListingInv'
  BY <1>9, <1>a, ThreadSets, ThreadTypes DEF LoadCheck, LoadOga, LoadOperation, LoadFails,
      LoadSucceeds, LoadReturns, MakeRegisters, MakePublishes, Goto, lockVars, listVars,
      ListingInv, Visiting, InUnload, UnloadLabels
<1>10. ASSUME NEW w \in Workers,
              InferRequest(w) \/ InferOga(w) \/ InferOperation(w) \/ InferEnds(w)
       PROVE  ListingInv'
  BY <1>10, <1>a, ThreadSets, ThreadTypes DEF InferRequest, InferOga, InferOperation, InferEnds,
      Goto, listVars, ListingInv, Visiting, InUnload, UnloadLabels
<1>11. CASE UNCHANGED vars
  BY <1>11, <1>a DEF vars, lockVars, listVars, ListingInv, Visiting, InUnload
<1> QED BY <1>1, <1>2, <1>3, <1>4, <1>5, <1>6, <1>7, <1>8, <1>9, <1>10, <1>11, NextCases

-----------------------------------------------------------------------------
\* A step of a thread, and what it leaves to every other thread.
StepOf(t) == \/ t \in Apps /\ (AppStep(t) \/ AppCall(t))
             \/ t \in Workers /\ (WorkerStep(t) \/ InferEnds(t))

Same(u) == /\ pc'[u] = pc[u] /\ at'[u] = at[u] /\ kind'[u] = kind[u] /\ todo'[u] = todo[u]
           /\ hold'[u] = hold[u] /\ back'[u] = back[u] /\ after'[u] = after[u]
           /\ due'[u] \subseteq due[u]

\* No thread's step moves another one; an unload settles what others owe.
LEMMA OthersStay ==
  ASSUME Inv, NEW t \in Threads, StepOf(t), NEW u \in Threads, u # t
  PROVE  Same(u)
<1>1. CASE UnloadOga(t) \/ UnloadOperation(t) \/ Unload(t) \/ Drop(t)
  BY <1>1, ThreadTypes DEF UnloadOga, UnloadOperation, Unload, Drop, Resume, Enter, Goto,
      listVars, Same
<1>2. CASE SubmitAccepted(t) \/ SubmitRefused(t) \/ SubmitPush(t)
  BY <1>2, ThreadTypes DEF SubmitAccepted, SubmitRefused, SubmitPush, LetJob, Let, Enter, Goto,
      listVars, Same
<1>3. CASE \/ Collect(t) \/ Collected(t) \/ UnloadNext(t) \/ DropNext(t) \/ ReloadNext(t)
           \/ \E m \in Models : Visit(t, m)
  BY <1>3, ThreadTypes DEF Collect, Collected, Visit, UnloadNext, DropNext, ReloadNext, Let,
      Enter, Goto, Same
<1>4. CASE \/ ShutdownFlag(t) \/ ShutdownDrain(t) \/ ShutdownJoin(t) \/ ShutdownUnloads(t)
           \/ ShutdownClears(t) \/ ShutdownBegin(t)
  BY <1>4, ThreadTypes DEF ShutdownFlag, ShutdownDrain, ShutdownJoin, ShutdownUnloads,
      ShutdownClears, ShutdownBegin, Goto, listVars, Same
<1>5. CASE \/ \E k \in JobKinds \ {"reload"}, m \in Models \cup {NoModel} : Submit(t, k, m)
           \/ \E m \in Models : SessionCreate(t, m) \/ ReleaseHandle(t, m)
           \/ UpdateSettings(t)
  BY <1>5, ThreadTypes DEF Submit, SessionCreate, ReleaseHandle, UpdateSettings, Let, Enter, Goto,
      listVars, Same
<1>6. CASE \/ \E event \in {"MEMORY_CRITICAL", "BACKGROUND"} : NotifyUnloads(t, event)
           \/ NotifyForeground(t)
  BY <1>6, ThreadTypes DEF NotifyUnloads, NotifyForeground, Goto, Same
<1>7. CASE WorkerPop(t) \/ MakeBegins(t) \/ WorkerExit(t) \/ JobEnd(t)
  BY <1>7, ThreadTypes DEF WorkerPop, MakeBegins, WorkerExit, JobEnd, Let, Enter, Goto, listVars,
      Same
<1>8. CASE \/ LoadCheck(t) \/ LoadOga(t) \/ LoadOperation(t) \/ LoadFails(t)
           \/ LoadSucceeds(t) \/ LoadReturns(t) \/ MakeRegisters(t) \/ MakePublishes(t)
  BY <1>8, ThreadTypes DEF LoadCheck, LoadOga, LoadOperation, LoadFails, LoadSucceeds,
      LoadReturns, MakeRegisters, MakePublishes, Goto, listVars, Same
<1>9. CASE InferRequest(t) \/ InferOga(t) \/ InferOperation(t) \/ InferEnds(t)
  BY <1>9, ThreadTypes DEF InferRequest, InferOga, InferOperation, InferEnds, Goto, listVars, Same
<1> QED BY <1>1, <1>2, <1>3, <1>4, <1>5, <1>6, <1>7, <1>8, <1>9
    DEF StepOf, AppStep, AppCall, WorkerStep, UnloadStep

\* Only an unload and a successful load change what is loaded.
LEMMA LoadedMoves ==
  ASSUME NEW t \in Threads, StepOf(t), ~Unload(t), ~LoadSucceeds(t)
  PROVE  UNCHANGED <<loaded, liveObjects>>
<1>1. CASE t \in Apps /\ AppStep(t)
  BY <1>1 DEF AppStep, UnloadStep, UnloadOga, UnloadOperation, Drop, SubmitAccepted,
      SubmitRefused, SubmitPush, Collect, Collected, Visit, UnloadNext, DropNext, ReloadNext,
      ShutdownFlag, ShutdownDrain, ShutdownJoin, ShutdownUnloads, ShutdownClears, modelVars
<1>2. CASE t \in Apps /\ AppCall(t)
  BY <1>2 DEF AppCall, Submit, SessionCreate, ReleaseHandle, UpdateSettings, NotifyUnloads,
      NotifyForeground, ShutdownBegin, modelVars
<1>3. CASE t \in Workers /\ (WorkerStep(t) \/ InferEnds(t))
  BY <1>3 DEF WorkerStep, UnloadStep, UnloadOga, UnloadOperation, Drop, WorkerPop,
      MakeBegins, WorkerExit, JobEnd, LoadCheck, LoadOga, LoadOperation, LoadFails, LoadReturns,
      MakeRegisters, MakePublishes, InferRequest, InferOga, InferOperation, InferEnds, modelVars
<1> QED BY <1>1, <1>2, <1>3 DEF StepOf

\* Only the drop of a last reference begins a destructor.
LEMMA DyingMoves ==
  ASSUME NEW t \in Threads, StepOf(t), ~Drop(t)
  PROVE  UNCHANGED dying
<1>1. CASE t \in Apps /\ AppStep(t)
  BY <1>1 DEF AppStep, UnloadStep, UnloadOga, UnloadOperation, Unload, SubmitAccepted,
      SubmitRefused, SubmitPush, Collect, Collected, Visit, UnloadNext, DropNext, ReloadNext,
      ShutdownFlag, ShutdownDrain, ShutdownJoin, ShutdownUnloads, ShutdownClears, modelVars
<1>2. CASE t \in Apps /\ AppCall(t)
  BY <1>2 DEF AppCall, Submit, SessionCreate, ReleaseHandle, UpdateSettings, NotifyUnloads,
      NotifyForeground, ShutdownBegin, modelVars
<1>3. CASE t \in Workers /\ (WorkerStep(t) \/ InferEnds(t))
  BY <1>3 DEF WorkerStep, UnloadStep, UnloadOga, UnloadOperation, Unload, WorkerPop,
      MakeBegins, WorkerExit, JobEnd, LoadCheck, LoadOga, LoadOperation, LoadFails,
      LoadSucceeds, LoadReturns, MakeRegisters, MakePublishes, InferRequest, InferOga,
      InferOperation, InferEnds, modelVars
<1> QED BY <1>1, <1>2, <1>3 DEF StepOf

\* Only the shutdown's last step makes the manager done.
LEMMA DoneMoves ==
  ASSUME NEW t \in Threads, StepOf(t), ~ShutdownClears(t), down' = "done"
  PROVE  down = "done"
<1>1. CASE t \in Apps /\ AppStep(t)
  BY <1>1 DEF AppStep, UnloadStep, UnloadOga, UnloadOperation, Unload, Drop, SubmitAccepted,
      SubmitRefused, SubmitPush, Collect, Collected, Visit, UnloadNext, DropNext, ReloadNext,
      ShutdownFlag, ShutdownDrain, ShutdownJoin, ShutdownUnloads, managerVars
<1>2. CASE t \in Apps /\ AppCall(t)
  BY <1>2 DEF AppCall, Submit, SessionCreate, ReleaseHandle, UpdateSettings, NotifyUnloads,
      NotifyForeground, ShutdownBegin, managerVars
<1>3. CASE t \in Workers /\ (WorkerStep(t) \/ InferEnds(t))
  BY <1>3 DEF WorkerStep, UnloadStep, UnloadOga, UnloadOperation, Unload, Drop, WorkerPop,
      MakeBegins, WorkerExit, JobEnd, LoadCheck, LoadOga, LoadOperation, LoadFails,
      LoadSucceeds, LoadReturns, MakeRegisters, MakePublishes, InferRequest, InferOga,
      InferOperation, InferEnds, managerVars
<1> QED BY <1>1, <1>2, <1>3 DEF StepOf

\* Models stay constructed, and the destructor's beginning is not undone.
LEMMA BornStay == Inv /\ [Next]_vars => born \subseteq born' /\ dying \subseteq dying'
<1> SUFFICES ASSUME Inv, [Next]_vars PROVE born \subseteq born' /\ dying \subseteq dying'
  OBVIOUS
<1>1. ASSUME NEW t \in Threads, UnloadOga(t) \/ UnloadOperation(t) \/ Unload(t) \/ Drop(t)
      PROVE  born \subseteq born' /\ dying \subseteq dying'
  BY <1>1 DEF UnloadOga, UnloadOperation, Unload, Drop, modelVars
<1>2. ASSUME NEW t \in Apps, AppStep(t), ~UnloadStep(t)
      PROVE  born \subseteq born' /\ dying \subseteq dying'
  BY <1>2 DEF AppStep, SubmitAccepted, SubmitRefused, SubmitPush, Collect, Collected, Visit,
      UnloadNext, DropNext, ReloadNext, ShutdownFlag, ShutdownDrain, ShutdownJoin,
      ShutdownUnloads, ShutdownClears, modelVars
<1>3. ASSUME NEW t \in Apps, AppCall(t) PROVE born \subseteq born' /\ dying \subseteq dying'
  BY <1>3 DEF AppCall, Submit, SessionCreate, ReleaseHandle, UpdateSettings, NotifyUnloads,
      NotifyForeground, ShutdownBegin, modelVars
<1>4. ASSUME NEW w \in Workers, WorkerStep(w) \/ InferEnds(w), ~UnloadStep(w)
      PROVE  born \subseteq born' /\ dying \subseteq dying'
  BY <1>4 DEF WorkerStep, WorkerPop, MakeBegins, WorkerExit, JobEnd, LoadCheck, LoadOga,
      LoadOperation, LoadFails, LoadSucceeds, LoadReturns, MakeRegisters, MakePublishes,
      InferRequest, InferOga, InferOperation, InferEnds, modelVars
<1>5. CASE UNCHANGED vars
  BY <1>5 DEF vars, modelVars
<1> QED BY <1>1, <1>2, <1>3, <1>4, <1>5, ThreadSets DEF Next, UnloadStep, AppStep, WorkerStep

\* An entry leaves the manager's list when it has expired or the shutdown is over.
LEMMA RegistryMoves ==
  ASSUME Inv, NEW t \in Threads, StepOf(t), ~ShutdownClears(t)
  PROVE  registry \subseteq registry' \cup dying
<1>1. \A m \in registry \ dying : Lockable(m)
  BY SetTypes DEF Inv, RegistryInv, LiveReferenced, Lockable
<1>2. ASSUME NEW m \in Models, Visit(t, m) PROVE registry \subseteq registry' \cup dying
  BY <1>1, <1>2 DEF Visit
<1>3. CASE MakeRegisters(t)
  BY <1>1, <1>3 DEF MakeRegisters
<1>4. CASE t \in Apps /\ AppStep(t) /\ ~\E m \in Models : Visit(t, m)
  BY <1>4 DEF AppStep, UnloadStep, UnloadOga, UnloadOperation, Unload, Drop, SubmitAccepted,
      SubmitRefused, SubmitPush, Collect, Collected, UnloadNext, DropNext, ReloadNext,
      ShutdownFlag, ShutdownDrain, ShutdownJoin, ShutdownUnloads, managerVars
<1>5. CASE t \in Apps /\ AppCall(t)
  BY <1>5 DEF AppCall, Submit, SessionCreate, ReleaseHandle, UpdateSettings, NotifyUnloads,
      NotifyForeground, ShutdownBegin, managerVars
<1>6. CASE t \in Workers /\ (WorkerStep(t) \/ InferEnds(t)) /\ ~MakeRegisters(t)
  BY <1>6 DEF WorkerStep, UnloadStep, UnloadOga, UnloadOperation, Unload, Drop, WorkerPop,
      MakeBegins, WorkerExit, JobEnd, LoadCheck, LoadOga, LoadOperation, LoadFails,
      LoadSucceeds, LoadReturns, MakePublishes, InferRequest, InferOga, InferOperation,
      InferEnds, managerVars
<1> QED BY <1>2, <1>3, <1>4, <1>5, <1>6 DEF StepOf

\* Only an unloading event's handler fills the list of evicted models.
LEMMA EvictedMoves ==
  ASSUME NEW t \in Threads, StepOf(t), ~Collected(t)
  PROVE  autoUnloaded' \subseteq autoUnloaded
<1>1. CASE t \in Apps /\ AppStep(t)
  BY <1>1 DEF AppStep, UnloadStep, UnloadOga, UnloadOperation, Unload, Drop, SubmitAccepted,
      SubmitRefused, SubmitPush, Collect, Visit, UnloadNext, DropNext, ReloadNext, ShutdownFlag,
      ShutdownDrain, ShutdownJoin, ShutdownUnloads, ShutdownClears, managerVars
<1>2. CASE t \in Apps /\ AppCall(t)
  BY <1>2 DEF AppCall, Submit, SessionCreate, ReleaseHandle, UpdateSettings, NotifyUnloads,
      NotifyForeground, ShutdownBegin, managerVars
<1>3. CASE t \in Workers /\ (WorkerStep(t) \/ InferEnds(t))
  BY <1>3 DEF WorkerStep, UnloadStep, UnloadOga, UnloadOperation, Unload, Drop, WorkerPop,
      MakeBegins, WorkerExit, JobEnd, LoadCheck, LoadOga, LoadOperation, LoadFails,
      LoadSucceeds, LoadReturns, MakeRegisters, MakePublishes, InferRequest, InferOga,
      InferOperation, InferEnds, managerVars
<1> QED BY <1>1, <1>2, <1>3 DEF StepOf

\* While a thread goes through models_, an entry that goes is one that has expired.
LEMMA RegistryStays ==
  ASSUME Inv, [Next]_vars, NEW u \in Threads, Visiting(u)
  PROVE  registry \cup dying \subseteq registry' \cup dying'
<1>1. listing # NoThread
  BY LifecycleAssumption DEF Inv, ListingInv, Threads
<1>2. dying \subseteq dying'
  BY BornStay
<1>3. CASE UNCHANGED vars
  BY <1>2, <1>3 DEF vars, managerVars
<1>4. CASE Next
  <2>1. PICK t \in Threads : StepOf(t)
    BY <1>4, ThreadSets DEF Next, StepOf
  <2>2. ~ShutdownClears(t)
    BY <1>1 DEF ShutdownClears
  <2> QED BY <1>2, <2>1, <2>2, RegistryMoves
<1> QED BY <1>3, <1>4

\* A thread that does not move stays where its part of the invariant wants it.
LEMMA ThreadFrame ==
  ASSUME Inv, [Next]_vars, NEW u \in Threads, Same(u)
  PROVE  ThreadInv(u)'
<1>1. ThreadInv(u) /\ born \subseteq born' /\ dying \subseteq dying'
  BY BornStay DEF Inv
<1>2. Visiting(u) => registry \cup dying \subseteq registry' \cup dying'
  BY RegistryStays
<1> QED BY <1>1, <1>2 DEF Same, ThreadInv, Listing, Visiting, Reloading, Submitting, Destroying,
    InUnload

\* What a thread handles and lists follows it from label to label.
LEMMA NextThreadInv == Inv /\ [Next]_vars => \A u \in Threads : ThreadInv(u)'
<1> SUFFICES ASSUME Inv, [Next]_vars PROVE \A u \in Threads : ThreadInv(u)'
  OBVIOUS
<1>a. \A t \in Threads : ThreadInv(t)
  BY DEF Inv
<1>h. /\ Workers \cap Apps = {} /\ NoModel \notin Models
      /\ Workers \subseteq Threads /\ Apps \subseteq Threads
  BY LifecycleAssumption DEF Threads
<1>i. \A t \in Threads : Destroying(t) => at[t] \in dying
  BY DEF Inv, DyingInv
<1>1. ASSUME NEW t \in Threads,
             UnloadOga(t) \/ UnloadOperation(t)
      PROVE  ThreadInv(t)'
  BY <1>1, <1>a, <1>h, SetTypes, ThreadTypes DEF UnloadOga, UnloadOperation, Goto, modelVars,
      managerVars, listVars,
      ThreadInv, Listing, Visiting, Reloading, Submitting,
      Destroying, InUnload, Handling, Returns, AppLabels, WorkerLabels, UnloadLabels
<1>2. ASSUME NEW t \in Threads,
             Unload(t)
      PROVE  ThreadInv(t)'
  BY <1>2, <1>a, <1>h, SetTypes, ThreadTypes DEF Unload, Resume, Enter, Goto, managerVars,
      ThreadInv, Listing, Visiting, Reloading, Submitting,
      Destroying, InUnload, Handling, Returns, AppLabels, WorkerLabels, UnloadLabels
<1>3. ASSUME NEW t \in Threads,
             Drop(t)
      PROVE  ThreadInv(t)'
  BY <1>3, <1>a, <1>h, SetTypes, ThreadTypes DEF Drop, LastReference, Resume, Enter, Goto,
      managerVars,
      ThreadInv, Listing, Visiting, Reloading, Submitting,
      Destroying, InUnload, Handling, Returns, AppLabels, WorkerLabels, UnloadLabels
<1>4. ASSUME NEW t \in Apps,
             SubmitAccepted(t)
      PROVE  ThreadInv(t)'
  BY <1>4, <1>a, <1>h, SetTypes, ThreadTypes DEF SubmitAccepted, Goto, modelVars, listVars,
      ThreadInv, Listing, Visiting, Reloading, Submitting,
      Destroying, InUnload, Handling, Returns, AppLabels, WorkerLabels, UnloadLabels
<1>5. ASSUME NEW t \in Apps,
             SubmitRefused(t)
      PROVE  ThreadInv(t)'
  BY <1>5, <1>a, <1>h, SetTypes, ThreadTypes DEF SubmitRefused, LetJob, Let, Enter, Goto, modelVars,
      ThreadInv, Listing, Visiting, Reloading, Submitting,
      Destroying, InUnload, Handling, Returns, AppLabels, WorkerLabels, UnloadLabels
<1>6. ASSUME NEW t \in Apps, SubmitPush(t) PROVE ThreadInv(t)'
  <2>1. /\ ThreadInv(t) /\ pc[t] = "push" /\ Submitting(t) /\ t \notin Workers
        /\ kind'[t] = "make" /\ UNCHANGED <<born, todo, hold, after, due>>
        /\ IF kind[t] = "make" THEN pc'[t] = back[t] /\ at'[t] = at[t] /\ back'[t] = back[t]
                               ELSE pc'[t] = "drop" /\ at'[t] = at[t] /\ back'[t] = back[t]
    BY <1>6, <1>a, <1>h, ThreadTypes DEF SubmitPush, LetJob, Let, Enter, Goto, modelVars,
        Submitting
  <2>2. CASE kind[t] = "make"
    BY <2>1, <2>2 DEF ThreadInv, Listing, Visiting, Reloading, Submitting,
        Destroying, InUnload, Handling, AppLabels, WorkerLabels, UnloadLabels
  <2>3. CASE kind[t] # "make"
    BY <2>1, <2>3 DEF ThreadInv, Listing, Visiting, Reloading, Submitting,
        Destroying, InUnload, Handling, Returns, AppLabels, WorkerLabels, UnloadLabels
  <2> QED BY <2>2, <2>3
<1>7. ASSUME NEW t \in Apps,
             Collect(t)
      PROVE  ThreadInv(t)'
  BY <1>7, <1>a, <1>h, SetTypes, ThreadTypes DEF Collect, Goto, modelVars, managerVars,
      ThreadInv, Listing, Visiting, Reloading, Submitting,
      Destroying, InUnload, Handling, Returns, AppLabels, WorkerLabels, UnloadLabels
<1>8. ASSUME NEW t \in Apps, NEW m \in Models, Visit(t, m) PROVE ThreadInv(t)'
  <2>1. /\ ThreadInv(t) /\ Visiting(t) /\ pc[t] = "visiting" /\ m \in todo[t]
        /\ todo'[t] = todo[t] \ {m} /\ hold'[t] \subseteq hold[t] \cup {m}
        /\ UNCHANGED <<born, kind, after, due>>
        /\ \/ UNCHANGED <<pc, at, back>>
           \/ pc'[t] = "drop" /\ at'[t] = m /\ back'[t] = "visiting"
    BY <1>8, <1>a, <1>h, ThreadTypes DEF Visit, Visiting, Let, Enter, Goto, modelVars
  <2>2. registry \cup dying \subseteq registry' \cup dying'
    BY <2>1, <1>h, RegistryStays
  <2>3. hold'[t] \cup todo'[t] \subseteq hold[t] \cup todo[t] /\ m \in born
    BY <2>1 DEF ThreadInv
  <2>4. t \notin Workers /\ kind[t] = "make" /\ Visiting(t)'
    BY <2>1, <1>h DEF ThreadInv, Visiting, Submitting, InUnload, UnloadLabels
  <2>5. hold'[t] \cup todo'[t] \subseteq registry' \cup dying'
    BY <2>1, <2>2, <2>3 DEF ThreadInv
  <2>6. CASE UNCHANGED <<pc, at, back>>
    BY <2>1, <2>3, <2>4, <2>5, <2>6 DEF ThreadInv, Listing, Visiting, Reloading, Submitting,
        Destroying, InUnload, Handling, AppLabels, WorkerLabels, UnloadLabels
  <2>7. CASE pc'[t] = "drop" /\ at'[t] = m /\ back'[t] = "visiting"
    BY <2>1, <2>3, <2>4, <2>5, <2>7 DEF ThreadInv, Listing, Visiting, Reloading, Submitting,
        Destroying, InUnload, Handling, Returns, AppLabels, WorkerLabels, UnloadLabels
  <2> QED BY <2>1, <2>6, <2>7
<1>9. ASSUME NEW t \in Apps,
             Collected(t)
      PROVE  ThreadInv(t)'
  BY <1>9, <1>a, <1>h, SetTypes, ThreadTypes DEF Collected, Goto, modelVars,
      ThreadInv, Listing, Visiting, Reloading, Submitting,
      Destroying, InUnload, Handling, Returns, AppLabels, WorkerLabels, UnloadLabels
<1>10. ASSUME NEW t \in Apps,
             UnloadNext(t)
      PROVE  ThreadInv(t)'
  BY <1>10, <1>a, <1>h, SetTypes, ThreadTypes DEF UnloadNext, Enter, Goto, modelVars, managerVars,
      ThreadInv, Listing, Visiting, Reloading, Submitting,
      Destroying, InUnload, Handling, Returns, AppLabels, WorkerLabels, UnloadLabels
<1>11. ASSUME NEW t \in Apps,
             DropNext(t)
      PROVE  ThreadInv(t)'
  BY <1>11, <1>a, <1>h, SetTypes, ThreadTypes DEF DropNext, Let, Enter, Goto, modelVars,
      managerVars,
      ThreadInv, Listing, Visiting, Reloading, Submitting,
      Destroying, InUnload, Handling, Returns, AppLabels, WorkerLabels, UnloadLabels
<1>12. ASSUME NEW t \in Apps,
             ReloadNext(t)
      PROVE  ThreadInv(t)'
  BY <1>12, <1>a, <1>h, SetTypes, ThreadTypes DEF ReloadNext, Enter, Goto, modelVars, managerVars,
      ThreadInv, Listing, Visiting, Reloading, Submitting,
      Destroying, InUnload, Handling, Returns, AppLabels, WorkerLabels, UnloadLabels
<1>13. ASSUME NEW t \in Apps,
             ShutdownFlag(t) \/ ShutdownJoin(t) \/ ShutdownUnloads(t) \/ ShutdownBegin(t)
      PROVE  ThreadInv(t)'
  BY <1>13, <1>a, <1>h, SetTypes, ThreadTypes DEF ShutdownFlag, ShutdownJoin, ShutdownUnloads,
      ShutdownBegin, Goto, modelVars, listVars,
      ThreadInv, Listing, Visiting, Reloading, Submitting,
      Destroying, InUnload, Handling, Returns, AppLabels, WorkerLabels, UnloadLabels
<1>14. ASSUME NEW t \in Apps, ShutdownDrain(t) PROVE ThreadInv(t)'
  <2>1. hold'[t] \subseteq born'
    <3>1. TypeOK'
      BY NextTypeOK
    <3>2. \A i \in 1..Len(queue) : queue[i].kind \in JobKinds \ {"make"} => queue[i].model \in born
      BY DEF Inv, QueueInv
    <3>3. \A w \in Workers : kind[w] # "make" => at[w] \in born
      BY <1>a, <1>h DEF ThreadInv, Submitting, AppLabels, WorkerLabels, UnloadLabels
    <3>4. kept \subseteq born /\ born' = born
      BY <1>14, SetTypes DEF ShutdownDrain, modelVars
    <3>5. \A m \in hold'[t] :
            \/ \E i \in 1..Len(queue) : /\ queue[i].kind \in JobKinds \ {"make"}
                                        /\ queue[i].model = m
            \/ \E w \in Workers : kind[w] # "make" /\ at[w] = m
            \/ m \in kept
      BY <1>14, <1>h, ThreadTypes DEF ShutdownDrain
    <3> QED BY <3>2, <3>3, <3>4, <3>5
  <2>2. /\ pc[t] = "drain" /\ pc'[t] = "join"
        /\ UNCHANGED <<born, at, kind, todo, back, after, due>>
    BY <1>14, <1>h, ThreadTypes DEF ShutdownDrain, Goto, modelVars
  <2> QED BY <2>1, <2>2, <1>a, <1>h DEF ThreadInv, Listing, Visiting, Reloading, Submitting,
      Destroying, InUnload, Handling, AppLabels, WorkerLabels, UnloadLabels
<1>15. ASSUME NEW t \in Apps,
             ShutdownClears(t)
      PROVE  ThreadInv(t)'
  BY <1>15, <1>a, <1>h, SetTypes, ThreadTypes DEF ShutdownClears, Goto, modelVars, listVars,
      ThreadInv, Listing, Visiting, Reloading, Submitting,
      Destroying, InUnload, Handling, Returns, AppLabels, WorkerLabels, UnloadLabels
<1>16. ASSUME NEW t \in Apps,
             \E k \in JobKinds \ {"reload"}, m \in Models \cup {NoModel} : Submit(t, k, m)
      PROVE  ThreadInv(t)'
  BY <1>16, <1>a, <1>h, SetTypes, ThreadTypes DEF Submit, Enter, Goto, modelVars,
      ThreadInv, Listing, Visiting, Reloading, Submitting,
      Destroying, InUnload, Handling, Returns, AppLabels, WorkerLabels, UnloadLabels
<1>17. ASSUME NEW t \in Apps,
             \E m \in Models : SessionCreate(t, m) \/ ReleaseHandle(t, m)
      PROVE  ThreadInv(t)'
  BY <1>17, <1>a, <1>h, SetTypes, ThreadTypes DEF SessionCreate, ReleaseHandle, Let, Enter,
      Goto, modelVars, listVars,
      ThreadInv, Listing, Visiting, Reloading, Submitting,
      Destroying, InUnload, Handling, Returns, AppLabels, WorkerLabels, UnloadLabels
<1>18. ASSUME NEW t \in Apps,
             UpdateSettings(t) \/ NotifyForeground(t)
      PROVE  ThreadInv(t)'
  BY <1>18, <1>a, <1>h, SetTypes, ThreadTypes DEF UpdateSettings, NotifyForeground, Lockable,
      Goto, modelVars, listVars,
      ThreadInv, Listing, Visiting, Reloading, Submitting,
      Destroying, InUnload, Handling, Returns, AppLabels, WorkerLabels, UnloadLabels
<1>19. ASSUME NEW t \in Apps,
             \E event \in {"MEMORY_CRITICAL", "BACKGROUND"} : NotifyUnloads(t, event)
      PROVE  ThreadInv(t)'
  BY <1>19, <1>a, <1>h, SetTypes, ThreadTypes DEF NotifyUnloads, Goto, modelVars,
      ThreadInv, Listing, Visiting, Reloading, Submitting,
      Destroying, InUnload, Handling, Returns, AppLabels, WorkerLabels, UnloadLabels
<1>20. ASSUME NEW t \in Workers, WorkerPop(t) PROVE ThreadInv(t)'
  <2>1. Head(queue).kind # "make" /\ Head(queue).model \in born
    BY <1>20 DEF WorkerPop, Inv, QueueInv, TypeOK
  <2>2. /\ pc[t] = "poll" /\ at'[t] = Head(queue).model /\ kind'[t] = Head(queue).kind
        /\ pc'[t] \in {"loadCheck", "unloadOga", "inferRequest"} /\ back'[t] = "jobEnd"
        /\ UNCHANGED <<born, registry, dying, todo, hold, after, due>>
    BY <1>20, <1>h, ThreadTypes DEF WorkerPop, JobBegins, Enter, Goto, modelVars, managerVars
  <2> QED BY <2>1, <2>2, <1>a, <1>h DEF ThreadInv, Listing, Visiting, Reloading, Submitting,
      Destroying, InUnload, Handling, AppLabels, WorkerLabels, UnloadLabels
<1>21. ASSUME NEW t \in Workers,
             MakeBegins(t)
      PROVE  ThreadInv(t)'
  BY <1>21, <1>a, <1>h, SetTypes, ThreadTypes DEF MakeBegins, Enter, Goto, managerVars,
      ThreadInv, Listing, Visiting, Reloading, Submitting,
      Destroying, InUnload, Handling, Returns, AppLabels, WorkerLabels, UnloadLabels
<1>22. ASSUME NEW t \in Workers,
             WorkerExit(t) \/ JobEnd(t)
      PROVE  ThreadInv(t)'
  BY <1>22, <1>a, <1>h, SetTypes, ThreadTypes DEF WorkerExit, JobEnd, Let, Enter, Goto,
      modelVars, listVars,
      ThreadInv, Listing, Visiting, Reloading, Submitting,
      Destroying, InUnload, Handling, Returns, AppLabels, WorkerLabels, UnloadLabels
<1>23. ASSUME NEW t \in Workers,
             LoadCheck(t) \/ LoadOga(t) \/ LoadOperation(t) \/ LoadFails(t)
      PROVE  ThreadInv(t)'
  BY <1>23, <1>a, <1>h, SetTypes, ThreadTypes DEF LoadCheck, LoadOga, LoadOperation, LoadFails,
      Goto, modelVars, listVars,
      ThreadInv, Listing, Visiting, Reloading, Submitting,
      Destroying, InUnload, Handling, Returns, AppLabels, WorkerLabels, UnloadLabels
<1>24. ASSUME NEW t \in Workers,
             LoadSucceeds(t) \/ LoadReturns(t) \/ MakeRegisters(t) \/ MakePublishes(t)
      PROVE  ThreadInv(t)'
  BY <1>24, <1>a, <1>h, SetTypes, ThreadTypes DEF LoadSucceeds, LoadReturns, MakeRegisters,
      MakePublishes, Goto, modelVars, listVars,
      ThreadInv, Listing, Visiting, Reloading, Submitting,
      Destroying, InUnload, Handling, Returns, AppLabels, WorkerLabels, UnloadLabels
<1>25. ASSUME NEW t \in Workers,
             InferRequest(t) \/ InferOga(t) \/ InferOperation(t) \/ InferEnds(t)
      PROVE  ThreadInv(t)'
  BY <1>25, <1>a, <1>h, SetTypes, ThreadTypes DEF InferRequest, InferOga, InferOperation,
      InferEnds, Goto, modelVars, listVars,
      ThreadInv, Listing, Visiting, Reloading, Submitting,
      Destroying, InUnload, Handling, Returns, AppLabels, WorkerLabels, UnloadLabels
<1>26. ASSUME NEW t \in Threads, StepOf(t) PROVE ThreadInv(t)'
  <2>1. CASE t \in Apps /\ AppStep(t)
    BY <2>1, <1>1, <1>2, <1>3, <1>4, <1>5, <1>6, <1>7, <1>8, <1>9, <1>10, <1>11, <1>12, <1>13,
       <1>14, <1>15 DEF AppStep, UnloadStep
  <2>2. CASE t \in Apps /\ AppCall(t)
    BY <2>2, <1>13, <1>16, <1>17, <1>18, <1>19 DEF AppCall
  <2>3. CASE t \in Workers /\ (WorkerStep(t) \/ InferEnds(t))
    BY <2>3, <1>1, <1>2, <1>3, <1>20, <1>21, <1>22, <1>23, <1>24, <1>25 DEF WorkerStep, UnloadStep
  <2> QED BY <1>26, <2>1, <2>2, <2>3 DEF StepOf
<1>27. CASE UNCHANGED vars
  <2>1. \A u \in Threads : Same(u)
    BY <1>27 DEF vars, listVars, Same
  <2> QED BY <2>1, ThreadFrame
<1> QED BY <1>26, <1>27, <1>h, OthersStay, ThreadFrame DEF Next, StepOf

\* The shutdown stays one thread's, and the workers have ended once it is past the joins.
LEMMA NextShutdownInv == Inv /\ [Next]_vars => ShutdownInv'
<1> SUFFICES ASSUME Inv, [Next]_vars PROVE ShutdownInv'
  OBVIOUS
<1>a. ShutdownInv /\ \A t \in Threads : ThreadInv(t)
  BY DEF Inv
<1>1. ASSUME NEW t \in Threads, UnloadOga(t) PROVE ShutdownInv'
  BY <1>1, <1>a, ThreadSets, ThreadTypes DEF UnloadOga, Goto, modelVars, tableVars, managerVars,
      poolVars, listVars, ShutdownInv, Shutting, Past
<1>2. ASSUME NEW t \in Threads, UnloadOperation(t) PROVE ShutdownInv'
  BY <1>2, <1>a, ThreadSets, ThreadTypes DEF UnloadOperation, Goto, modelVars, tableVars,
      managerVars, poolVars, listVars, ShutdownInv, Shutting, Past
<1>3. ASSUME NEW t \in Threads, Unload(t) PROVE ShutdownInv'
  BY <1>3, <1>a, ThreadSets, ThreadTypes DEF Returns, Unload, Resume, Enter, Goto, tableVars,
      managerVars, poolVars, ShutdownInv, Shutting, Past
<1>4. ASSUME NEW t \in Threads, Drop(t) PROVE ShutdownInv'
  BY <1>4, <1>a, ThreadSets, ThreadTypes DEF Returns, Drop, Goto, Resume, Enter, lockVars,
      tableVars,
      managerVars, poolVars, ShutdownInv, Shutting, Past
<1>5. ASSUME NEW t \in Apps, Collect(t) PROVE ShutdownInv'
  BY <1>5, <1>a, ThreadSets, ThreadTypes DEF Collect, Goto, modelVars, tableVars, managerVars,
      poolVars, ShutdownInv, Shutting, Past
<1>6. ASSUME NEW t \in Apps, UnloadNext(t) PROVE ShutdownInv'
  BY <1>6, <1>a, ThreadSets, ThreadTypes DEF UnloadNext, Goto, Enter, modelVars, lockVars,
      tableVars, managerVars, poolVars, ShutdownInv, Shutting, Past
<1>7. ASSUME NEW t \in Apps, DropNext(t) PROVE ShutdownInv'
  BY <1>7, <1>a, ThreadSets, ThreadTypes DEF DropNext, Goto, Let, Enter, modelVars, lockVars,
      tableVars, managerVars, poolVars, ShutdownInv, Shutting, Past
<1>8. ASSUME NEW t \in Apps, ReloadNext(t) PROVE ShutdownInv'
  BY <1>8, <1>a, ThreadSets, ThreadTypes DEF ReloadNext, Enter, Goto, modelVars, lockVars,
      tableVars, managerVars, poolVars, ShutdownInv, Shutting, Past
<1>9. ASSUME NEW t \in Apps, ShutdownDrain(t) PROVE ShutdownInv'
  BY <1>9, <1>a, ThreadSets, ThreadTypes DEF ShutdownDrain, Goto, modelVars, lockVars,
      managerVars, ShutdownInv, Shutting, Past
<1>10. ASSUME NEW t \in Apps, ShutdownJoin(t) PROVE ShutdownInv'
  BY <1>10, <1>a, ThreadSets, ThreadTypes DEF ShutdownJoin, Goto, modelVars, lockVars,
      tableVars, managerVars, poolVars, ShutdownInv, Shutting, Past
<1>11. ASSUME NEW t \in Apps, ShutdownUnloads(t) PROVE ShutdownInv'
  BY <1>11, <1>a, ThreadSets, ThreadTypes DEF ShutdownUnloads, Goto, modelVars, lockVars,
      tableVars, managerVars, poolVars, ShutdownInv, Shutting, Past
<1>12. ASSUME NEW t \in Apps, ShutdownClears(t) PROVE ShutdownInv'
  <2>1. /\ pc[t] = "clear" /\ pc' = [pc EXCEPT ![t] = "idle"] /\ down' = "done"
        /\ UNCHANGED after
    BY <1>12 DEF ShutdownClears, Goto, modelVars, lockVars, tableVars, poolVars, listVars
  <2>2. after[t] = "idle"
    BY <2>1, <1>a, ThreadSets, ThreadTypes DEF ThreadInv, Listing, Visiting, Reloading,
        Submitting, InUnload, UnloadLabels
  <2>3. \A u \in Threads : ~Shutting(u)'
    BY <2>1, <2>2, <1>a, ThreadSets, ThreadTypes DEF ShutdownInv, Shutting, Past
  <2>4. \A w \in Workers : pc[w] = "exited"
    BY <2>1, <1>a, ThreadSets DEF ShutdownInv, Past
  <2>5. \A w \in Workers : pc'[w] = "exited"
    BY <2>1, <2>4, ThreadSets, ThreadTypes
  <2> QED BY <2>1, <2>2, <2>3, <2>4, <2>5, <1>a, ThreadSets, ThreadTypes DEF ShutdownInv,
      Shutting, Past
<1>13. ASSUME NEW t \in Apps, NEW k \in JobKinds \ {"reload"}, NEW m \in Models \cup {NoModel},
              Submit(t, k, m)
       PROVE  ShutdownInv'
  BY <1>13, <1>a, ThreadSets, ThreadTypes DEF Submit, Enter, Goto, modelVars, lockVars,
      tableVars, managerVars, ShutdownInv, Shutting, Past
<1>14. ASSUME NEW t \in Apps, NEW m \in Models, SessionCreate(t, m) PROVE ShutdownInv'
  BY <1>14, <1>a, ThreadSets, ThreadTypes DEF SessionCreate, modelVars, lockVars, managerVars,
      poolVars, listVars, ShutdownInv, Shutting, Past
<1>15. ASSUME NEW t \in Apps, NEW m \in Models, ReleaseHandle(t, m) PROVE ShutdownInv'
  BY <1>15, <1>a, ThreadSets, ThreadTypes DEF ReleaseHandle, Let, Enter, Goto, modelVars,
      lockVars, managerVars, poolVars, ShutdownInv, Shutting, Past
<1>16. ASSUME NEW t \in Apps, UpdateSettings(t) PROVE ShutdownInv'
  BY <1>16, <1>a, ThreadSets, ThreadTypes DEF UpdateSettings, modelVars, lockVars, tableVars,
      poolVars, listVars, ShutdownInv, Shutting, Past
<1>17. ASSUME NEW t \in Apps, NEW event \in {"MEMORY_CRITICAL", "BACKGROUND"},
              NotifyUnloads(t, event)
       PROVE  ShutdownInv'
  BY <1>17, <1>a, ThreadSets, ThreadTypes DEF NotifyUnloads, Goto, modelVars, lockVars,
      tableVars, managerVars, poolVars, ShutdownInv, Shutting, Past
<1>18. ASSUME NEW t \in Apps, NotifyForeground(t) PROVE ShutdownInv'
  BY <1>18, <1>a, ThreadSets, ThreadTypes DEF NotifyForeground, Goto, modelVars, lockVars,
      tableVars, poolVars, ShutdownInv, Shutting, Past
<1>19. ASSUME NEW t \in Apps, ShutdownBegin(t) PROVE ShutdownInv'
  BY <1>19, <1>a, ThreadSets, ThreadTypes DEF ShutdownBegin, Goto, modelVars, lockVars,
      tableVars, poolVars, listVars, ShutdownInv, Shutting, Past
<1>20. ASSUME NEW w \in Workers, WorkerPop(w) PROVE ShutdownInv'
  <2>1. /\ pc[w] = "poll" /\ UNCHANGED <<down, after>>
        /\ pc' = [pc EXCEPT ![w] = JobBegins(Head(queue).kind)]
    BY <1>20 DEF WorkerPop, Enter, Goto, modelVars, lockVars, tableVars, managerVars
  <2>2. JobBegins(Head(queue).kind) \in {"loadCheck", "unloadOga", "inferRequest"}
    BY DEF JobBegins
  <2>3. \A u \in Threads : pc'[u] = pc[u] \/ pc'[u] \in {"loadCheck", "unloadOga", "inferRequest"}
    BY <2>1, <2>2, ThreadSets, ThreadTypes
  <2>4. down # "done" /\ \A u \in Threads : ~Past(u)
    BY <2>1, <1>a DEF ShutdownInv
  <2>5. \A u \in Threads : ~Past(u)'
    BY <2>1, <2>3, <2>4 DEF Past
  <2> QED BY <2>1, <2>2, <2>3, <2>4, <2>5, <1>a, ThreadSets, ThreadTypes DEF ShutdownInv,
      Shutting, Past
<1>21. ASSUME NEW w \in Workers, WorkerExit(w) PROVE ShutdownInv'
  BY <1>21, <1>a, ThreadSets, ThreadTypes DEF WorkerExit, Goto, modelVars, lockVars, tableVars,
      managerVars, poolVars, listVars, ShutdownInv, Shutting, Past
<1>22. ASSUME NEW w \in Workers, JobEnd(w) PROVE ShutdownInv'
  BY <1>22, <1>a, ThreadSets, ThreadTypes DEF JobEnd, Let, Enter, Goto, modelVars, lockVars,
      managerVars, poolVars, ShutdownInv, Shutting, Past
<1>23. ASSUME NEW w \in Workers, LoadCheck(w) PROVE ShutdownInv'
  BY <1>23, <1>a, ThreadSets, ThreadTypes DEF LoadCheck, Goto, modelVars, lockVars, tableVars,
      managerVars, poolVars, listVars, ShutdownInv, Shutting, Past
<1>24. ASSUME NEW w \in Workers, LoadOga(w) PROVE ShutdownInv'
  BY <1>24, <1>a, ThreadSets, ThreadTypes DEF LoadOga, Goto, modelVars, tableVars, managerVars,
      poolVars, listVars, ShutdownInv, Shutting, Past
<1>25. ASSUME NEW w \in Workers, LoadOperation(w) PROVE ShutdownInv'
  BY <1>25, <1>a, ThreadSets, ThreadTypes DEF LoadOperation, Goto, modelVars, tableVars,
      managerVars, poolVars, listVars, ShutdownInv, Shutting, Past
<1>26. ASSUME NEW w \in Workers, LoadFails(w) PROVE ShutdownInv'
  BY <1>26, <1>a, ThreadSets, ThreadTypes DEF LoadFails, Goto, modelVars, tableVars,
      managerVars, poolVars, listVars, ShutdownInv, Shutting, Past
<1>27. ASSUME NEW w \in Workers, LoadSucceeds(w) PROVE ShutdownInv'
  BY <1>27, <1>a, ThreadSets, ThreadTypes DEF LoadSucceeds, Goto, lockVars, tableVars,
      managerVars, poolVars, listVars, ShutdownInv, Shutting, Past
<1>28. ASSUME NEW w \in Workers, LoadReturns(w) PROVE ShutdownInv'
  BY <1>28, <1>a, ThreadSets, ThreadTypes DEF LoadReturns, Goto, modelVars, tableVars,
      managerVars, poolVars, listVars, ShutdownInv, Shutting, Past
<1>29. ASSUME NEW w \in Workers, MakeRegisters(w) PROVE ShutdownInv'
  BY <1>29, <1>a, ThreadSets, ThreadTypes DEF MakeRegisters, Goto, modelVars, lockVars,
      tableVars, poolVars, listVars, ShutdownInv, Shutting, Past
<1>30. ASSUME NEW w \in Workers, MakePublishes(w) PROVE ShutdownInv'
  BY <1>30, <1>a, ThreadSets, ThreadTypes DEF MakePublishes, Goto, modelVars, lockVars,
      managerVars, poolVars, listVars, ShutdownInv, Shutting, Past
<1>31. ASSUME NEW w \in Workers, InferRequest(w) PROVE ShutdownInv'
  BY <1>31, <1>a, ThreadSets, ThreadTypes DEF InferRequest, Goto, modelVars, tableVars,
      managerVars, poolVars, listVars, ShutdownInv, Shutting, Past
<1>32. ASSUME NEW w \in Workers, InferOga(w) PROVE ShutdownInv'
  BY <1>32, <1>a, ThreadSets, ThreadTypes DEF InferOga, Goto, modelVars, tableVars, managerVars,
      poolVars, listVars, ShutdownInv, Shutting, Past
<1>33. ASSUME NEW w \in Workers, InferOperation(w) PROVE ShutdownInv'
  BY <1>33, <1>a, ThreadSets, ThreadTypes DEF InferOperation, Goto, modelVars, tableVars,
      managerVars, poolVars, listVars, ShutdownInv, Shutting, Past
<1>34. ASSUME NEW w \in Workers, InferEnds(w) PROVE ShutdownInv'
  BY <1>34, <1>a, ThreadSets, ThreadTypes DEF InferEnds, Goto, modelVars, tableVars,
      managerVars, poolVars, listVars, ShutdownInv, Shutting, Past
<1>35. CASE UNCHANGED vars
  BY <1>35, <1>a, ThreadSets, ThreadTypes DEF vars, modelVars, lockVars, tableVars, managerVars,
      poolVars, listVars, ShutdownInv, Shutting, Past
<1>36. ASSUME NEW t \in Apps, SubmitAccepted(t) PROVE ShutdownInv'
  BY <1>36, <1>a, ThreadSets, ThreadTypes DEF SubmitAccepted, Goto, modelVars, lockVars,
      tableVars, managerVars, poolVars, listVars, ShutdownInv, Shutting, Past
<1>37. ASSUME NEW t \in Apps, SubmitRefused(t) PROVE ShutdownInv'
  BY <1>37, <1>a, ThreadSets, ThreadTypes DEF SubmitRefused, LetJob, Let, Enter, Goto,
      modelVars, lockVars, managerVars, poolVars, ShutdownInv, Shutting, Past
<1>38. ASSUME NEW t \in Apps, SubmitPush(t) PROVE ShutdownInv'
  BY <1>38, <1>a, ThreadSets, ThreadTypes DEF Returns, SubmitPush, LetJob, Let, Enter, Goto,
      modelVars,
      lockVars, tableVars, managerVars, ShutdownInv, Shutting, Past
<1>39. ASSUME NEW t \in Apps, NEW m \in Models, Visit(t, m) PROVE ShutdownInv'
  BY <1>39, <1>a, ThreadSets, ThreadTypes DEF Visit, Let, Enter, Goto, modelVars, lockVars,
      tableVars, poolVars, ShutdownInv, Shutting, Past
<1>40. ASSUME NEW t \in Apps, Collected(t) PROVE ShutdownInv'
  BY <1>40, <1>a, ThreadSets, ThreadTypes DEF Collected, Goto, modelVars, tableVars, poolVars,
      ShutdownInv, Shutting, Past
<1>41. ASSUME NEW t \in Apps, ShutdownFlag(t) PROVE ShutdownInv'
  BY <1>41, <1>a, ThreadSets, ThreadTypes DEF ShutdownFlag, Goto, modelVars, lockVars,
      tableVars, poolVars, listVars, ShutdownInv, Shutting, Past
<1>42. ASSUME NEW w \in Workers, MakeBegins(w) PROVE ShutdownInv'
  BY <1>42, <1>a, ThreadSets, ThreadTypes DEF MakeBegins, Enter, Goto, lockVars, tableVars,
      managerVars, ShutdownInv, Shutting, Past
<1> QED BY <1>1, <1>2, <1>3, <1>4, <1>5, <1>6, <1>7, <1>8, <1>9, <1>10, <1>11, <1>12, <1>13,
    <1>14, <1>15, <1>16, <1>17, <1>18, <1>19, <1>20, <1>21, <1>22, <1>23, <1>24, <1>25, <1>26,
    <1>27, <1>28, <1>29, <1>30, <1>31, <1>32, <1>33, <1>34, <1>35, <1>36, <1>37, <1>38, <1>39,
    <1>40, <1>41, <1>42, NextCases

\* Nothing unloads or destroys a model under an inference's lease.
LEMMA NextLeaseProtects == Inv /\ [Next]_vars => LeaseProtects'
<1> SUFFICES ASSUME Inv, [Next]_vars, NEW w \in Workers, pc'[w] \in {"inferOperation", "infer"}
             PROVE  loaded'[at'[w]] /\ at'[w] \notin dying'
  BY DEF LeaseProtects
<1> DEFINE Leased == pc[w] \in {"inferOperation", "infer"}
<1>a. w \in Threads /\ (Leased => loaded[at[w]] /\ at[w] \notin dying)
  BY ThreadSets DEF Inv, LeaseProtects
<1>b. \A t \in Threads : pc[t] \in OgaHeld => at[t] \in Models /\ oga[at[t]] = t
  BY SetTypes DEF Inv, LockInv, ThreadInv, OgaHeld, Handling, UnloadLabels, WorkerLabels
<1>c. \A t \in Threads : at[t] \in dying => Destroying(t)
  BY DEF Inv, DyingInv, Forgotten
<1>1. CASE UNCHANGED vars
  BY <1>1, <1>a DEF vars, modelVars
<1>2. ASSUME NEW t \in Threads, t # w, StepOf(t) PROVE loaded'[at'[w]] /\ at'[w] \notin dying'
  <2>1. Leased /\ at'[w] = at[w]
    BY <1>2, <1>a, OthersStay DEF Same
  <2>2. loaded'[at[w]]
    <3>1. CASE Unload(t)
      BY <3>1, <1>2, <2>1, <1>a, <1>b, SharedTypes DEF Unload, OgaHeld
    <3>2. CASE LoadSucceeds(t)
      BY <3>2, <2>1, <1>a, <1>b, SharedTypes DEF LoadSucceeds, OgaHeld
    <3> QED BY <3>1, <3>2, <1>2, <2>1, <1>a, LoadedMoves
  <2>3. at[w] \notin dying'
    BY <1>2, <2>1, <1>a, DyingMoves DEF Drop, LastReference
  <2> QED BY <2>1, <2>2, <2>3
<1>3. ASSUME StepOf(w) PROVE loaded'[at'[w]] /\ at'[w] \notin dying'
  <2>1. CASE InferOga(w)
    BY <2>1, <1>a, <1>c, ThreadTypes DEF InferOga, Goto, modelVars, Destroying, UnloadLabels
  <2>2. CASE InferOperation(w)
    BY <2>2, <1>a, ThreadTypes DEF InferOperation, Goto, modelVars
  <2>3. w \notin Apps /\ ThreadInv(w)
    BY <1>a, LifecycleAssumption DEF Inv
  <2>4. CASE UnloadStep(w)
    BY <2>3, <2>4, <1>a, ThreadTypes DEF UnloadStep, UnloadOga, UnloadOperation, Unload, Drop,
        Resume, Enter, Goto, ThreadInv, UnloadLabels
  <2>5. CASE (WorkerStep(w) \/ InferEnds(w)) /\ ~UnloadStep(w) /\ ~InferOga(w) /\ ~InferOperation(w)
    BY <2>5, <1>a, ThreadTypes DEF WorkerStep, WorkerPop, JobBegins, MakeBegins, WorkerExit,
        JobEnd, LoadCheck, LoadOga, LoadOperation, LoadFails, LoadSucceeds, LoadReturns,
        MakeRegisters, MakePublishes, InferRequest, InferEnds, Let, Enter, Goto
  <2> QED BY <1>3, <2>1, <2>2, <2>3, <2>4, <2>5 DEF StepOf
<1> QED BY <1>1, <1>2, <1>3, ThreadSets DEF Next, StepOf

\* After the shutdown nothing loads a model any more.
LEMMA NextNothingLoaded == Inv /\ [Next]_vars => NothingLoadedAfterShutdown'
<1> SUFFICES ASSUME Inv, [Next]_vars, down' = "done", NEW m \in Models, loaded'[m]
             PROVE  m \in dying'
  BY DEF NothingLoadedAfterShutdown
<1>1. /\ dying \subseteq dying'
      /\ down = "done" => \A n \in Models : loaded[n] => n \in dying
      /\ down = "done" => \A w \in Workers : pc[w] = "exited"
  BY BornStay DEF Inv, NothingLoadedAfterShutdown, ShutdownInv
<1>2. CASE UNCHANGED vars
  BY <1>1, <1>2 DEF vars, modelVars, managerVars
<1>3. ASSUME NEW t \in Threads, ShutdownClears(t) PROVE m \in dying'
  BY <1>1, <1>3 DEF ShutdownClears, modelVars, Inv, OwedInv, OwedOK, Owed
<1>4. ASSUME NEW t \in Threads, StepOf(t), ~ShutdownClears(t) PROVE m \in dying'
  <2>1. down = "done"
    BY <1>4, DoneMoves
  <2>2. ~LoadSucceeds(t)
    <3>1. pc[t] = "load" => t \in Workers
      BY DEF Inv, ThreadInv, AppLabels, UnloadLabels
    <3> QED BY <3>1, <2>1, <1>1 DEF LoadSucceeds
  <2>3. loaded'[m] => loaded[m]
    BY <1>4, <2>2, LoadedMoves, SharedTypes DEF Unload
  <2> QED BY <2>1, <2>3, <1>1
<1> QED BY <1>2, <1>3, <1>4, ThreadSets DEF Next, StepOf

\* The models whose destructor runs stay forgotten when a step brings none of them anywhere.
LEMMA DyingFrame ==
  ASSUME Inv, dying' = dying, loaded' = loaded,
         \A u \in Threads : Destroying(u)' => Destroying(u) /\ at'[u] = at[u],
         \A u \in Threads : Destroying(u) => Destroying(u)' /\ at'[u] = at[u],
         \A u \in Threads : at'[u] \in dying => at'[u] = at[u],
         \A u \in Threads, m \in dying : m \notin hold'[u],
         \A m \in dying : m \notin handle' \cup session' \cup kept',
         \A m \in dying : \A i \in 1..Len(queue') : queue'[i].model # m
  PROVE  DyingInv'
<1>1. /\ \A t \in Threads : Destroying(t) => at[t] \in dying
      /\ \A m \in dying : Forgotten(m)
  BY DEF Inv, DyingInv
<1>2. ASSUME NEW m \in dying PROVE Forgotten(m)'
  <2>1. \A t \in Threads : at'[t] = m => Destroying(t)'
    BY <1>1 DEF Forgotten
  <2>2. loaded[m] => \E t \in Threads : at[t] = m /\ Destroying(t)
    BY <1>1 DEF Forgotten
  <2> QED BY <2>1, <2>2, <1>2 DEF Forgotten
<1> QED BY <1>1, <1>2 DEF DyingInv

\* A model being destroyed stays with its destroyer.
LEMMA NextDyingInv == Inv /\ [Next]_vars => DyingInv'
<1> SUFFICES ASSUME Inv, [Next]_vars PROVE DyingInv'
  OBVIOUS
<1>a. DyingInv
  BY DEF Inv
<1>h. /\ NoModel \notin Models
      /\ \A t \in Threads : ThreadInv(t)
  BY LifecycleAssumption DEF Inv
<1>1. ASSUME NEW t \in Threads, UnloadOga(t) PROVE DyingInv'
  BY <1>1, <1>a, ThreadSets, SetTypes, ThreadTypes, SharedTypes, <1>h DEF UnloadOga, Goto,
      modelVars, tableVars, managerVars, poolVars, listVars, DyingInv, Forgotten, Destroying,
      UnloadLabels
<1>2. ASSUME NEW t \in Threads, UnloadOperation(t) PROVE DyingInv'
  BY <1>2, <1>a, ThreadSets, SetTypes, ThreadTypes, SharedTypes, <1>h DEF UnloadOperation, Goto,
      modelVars, tableVars, managerVars, poolVars, listVars, DyingInv, Forgotten, Destroying,
      UnloadLabels
<1>3. ASSUME NEW t \in Threads, Unload(t) PROVE DyingInv'
  <2>1. /\ pc[t] = "unload" /\ UNCHANGED <<dying, hold, queue, handle, session, kept>>
        /\ loaded' = [loaded EXCEPT ![at[t]] = FALSE] /\ pc'[t] = back[t]
        /\ at'[t] \in {at[t], NoModel}
        /\ \A u \in Threads : u # t => /\ pc'[u] = pc[u] /\ at'[u] = at[u]
                                     /\ back'[u] = back[u] /\ hold'[u] = hold[u]
    BY <1>3, ThreadSets, ThreadTypes DEF Returns, Unload, Resume, Enter, Goto, tableVars,
        managerVars,
        poolVars
  <2>2. at[t] \in Models
    BY <2>1, SetTypes, <1>h DEF Returns, ThreadInv, Submitting, Handling, UnloadLabels
  <2>3. back[t] \notin UnloadLabels
    BY ThreadTypes DEF Returns, UnloadLabels
  <2>4. back[t] \in {"jobEnd", "unloading"} => at[t] \notin dying
    BY <2>1, <1>a DEF Returns, DyingInv, Forgotten, Destroying
  <2>5. back[t] \notin {"jobEnd", "unloading"} => at'[t] = NoModel
    BY <1>3, ThreadSets, ThreadTypes DEF Returns, Unload, Resume, Enter
  <2>6. \A u \in Threads : Destroying(u)' => Destroying(u) /\ u # t
    BY <2>1, <2>3 DEF Returns, Destroying
  <2>7. ASSUME NEW m \in dying PROVE Forgotten(m)'
      <3>1. Forgotten(m) /\ m \in Models /\ m # NoModel
        BY <1>a, SetTypes, <1>h DEF Returns, DyingInv
      <3>2. CASE at[t] = m
        BY <3>1, <3>2, <2>1, <2>2, <2>4, <2>5, <1>a, ThreadTypes, SharedTypes DEF Returns,
            Forgotten,
            Destroying
      <3>3. CASE at[t] # m
        <4>1. \A u \in Threads : at'[u] = m => at[u] = m /\ u # t
          BY <2>1, <3>1, <3>3
        <4>2. \A u \in Threads : at[u] = m => at'[u] = m
          BY <2>1, <3>3
        <4>3. loaded'[m] = loaded[m]
          BY <2>1, <3>1, <3>3, SharedTypes
        <4> QED BY <4>1, <4>2, <4>3, <3>1, <2>1 DEF Returns, Forgotten, Destroying
      <3> QED BY <3>2, <3>3
  <2> QED BY <2>1, <2>2, <2>3, <2>4, <2>5, <2>6, <2>7, <1>a, ThreadSets, SetTypes, SharedTypes,
      <2>1 DEF Returns, DyingInv, Forgotten, Destroying, UnloadLabels
<1>4. ASSUME NEW t \in Threads, Drop(t) PROVE DyingInv'
  <2>1. /\ pc[t] = "drop" /\ UNCHANGED <<hold, queue, loaded, handle, session, kept>>
        /\ \/ /\ LastReference(t) /\ dying' = dying \cup {at[t]} /\ UNCHANGED <<at, back>>
              /\ pc' = [pc EXCEPT ![t] = "unloadOga"]
           \/ /\ dying' = dying /\ pc' = [pc EXCEPT ![t] = back[t]]
              /\ at' = [at EXCEPT ![t] = NoModel] /\ back' = [back EXCEPT ![t] = "idle"]
    BY <1>4 DEF Returns, Drop, Goto, Resume, Enter, lockVars, tableVars, managerVars, poolVars
  <2>2. at[t] \in Models /\ back[t] \notin {"jobEnd", "unloading"}
    BY <2>1, SetTypes, <1>h DEF Returns, ThreadInv, Submitting, Handling, UnloadLabels
  <2>3. at[t] \notin dying
    BY <2>1, <1>a DEF Returns, DyingInv, Forgotten, Destroying
  <2>4. back[t] \notin UnloadLabels
    BY ThreadTypes DEF Returns, UnloadLabels
  <2>5. CASE LastReference(t) /\ dying' = dying \cup {at[t]}
             /\ pc' = [pc EXCEPT ![t] = "unloadOga"] /\ UNCHANGED <<at, back>>
    BY <2>5, <2>1, <2>2, <2>3, <1>a, ThreadSets, ThreadTypes DEF Returns, DyingInv, Forgotten,
        Destroying, UnloadLabels, LastReference
  <2>6. CASE dying' = dying /\ pc' = [pc EXCEPT ![t] = back[t]]
             /\ at' = [at EXCEPT ![t] = NoModel] /\ back' = [back EXCEPT ![t] = "idle"]
    BY <2>6, <2>1, <2>3, <2>4, <1>a, ThreadSets, SetTypes, ThreadTypes, <1>h DEF Returns, DyingInv,
        Forgotten, Destroying
  <2> QED BY <2>1, <2>5, <2>6
<1>5. ASSUME NEW t \in Apps, Collect(t) PROVE DyingInv'
  BY <1>5, <1>a, ThreadSets, SetTypes, ThreadTypes, SharedTypes, <1>h DEF Collect, Goto,
      modelVars, tableVars, managerVars, poolVars, DyingInv, Forgotten, Destroying, UnloadLabels
<1>6. ASSUME NEW t \in Apps, UnloadNext(t) PROVE DyingInv'
  <2>1. /\ pc[t] = "unloading" /\ UNCHANGED <<dying, loaded, hold, queue, handle, session, kept>>
        /\ \/ \E m \in todo[t] : /\ pc' = [pc EXCEPT ![t] = "unloadOga"]
                             /\ at' = [at EXCEPT ![t] = m]
                             /\ back' = [back EXCEPT ![t] = "unloading"]
           \/ pc' = [pc EXCEPT ![t] = "dropping"] /\ UNCHANGED <<at, back>>
    BY <1>6 DEF UnloadNext, Goto, Enter, modelVars, lockVars, tableVars, managerVars, poolVars
  <2>2. at[t] = NoModel /\ \A m \in todo[t] : m \notin dying
    BY <2>1, <1>a, ThreadSets, <1>h DEF ThreadInv, Submitting, Handling, UnloadLabels, WorkerLabels,
        Visiting, InUnload, DyingInv, Forgotten
  <2>3. CASE pc' = [pc EXCEPT ![t] = "dropping"] /\ UNCHANGED <<at, back>>
    BY <2>1, <2>3, <1>a, ThreadSets, SetTypes, ThreadTypes DEF DyingInv, Forgotten, Destroying,
        UnloadLabels
  <2>4. ASSUME NEW m \in todo[t], pc' = [pc EXCEPT ![t] = "unloadOga"], at' = [at EXCEPT ![t] = m],
             back' = [back EXCEPT ![t] = "unloading"]
      PROVE DyingInv'
    BY <2>1, <2>2, <2>4, <1>a, ThreadSets, SetTypes, ThreadTypes, <1>h DEF DyingInv, Forgotten,
        Destroying, UnloadLabels
  <2> QED BY <2>1, <2>2, <2>3, <2>4
<1>7. ASSUME NEW t \in Apps, DropNext(t) PROVE DyingInv'
  <2>1. /\ pc[t] = "dropping" /\ UNCHANGED <<dying, loaded, queue, handle, session, kept>>
        /\ \/ \E m \in hold[t] : /\ pc' = [pc EXCEPT ![t] = "drop"] /\ at' = [at EXCEPT ![t] = m]
                             /\ back' = [back EXCEPT ![t] = "dropping"]
                             /\ hold' = [hold EXCEPT ![t] = hold[t] \ {m}]
           \/ pc' = [pc EXCEPT ![t] = after[t]] /\ UNCHANGED <<at, back, hold>>
    BY <1>7 DEF DropNext, Goto, Let, Enter, modelVars, lockVars, tableVars, managerVars,
        poolVars
  <2>2. at[t] = NoModel /\ \A m \in hold[t] : m \notin dying
    BY <2>1, <1>a, ThreadSets, <1>h DEF ThreadInv, Submitting, Handling, UnloadLabels, WorkerLabels,
        Visiting, InUnload, DyingInv, Forgotten
  <2>3. CASE pc' = [pc EXCEPT ![t] = after[t]] /\ UNCHANGED <<at, back, hold>>
    BY <2>1, <2>3, <1>a, ThreadSets, SetTypes, ThreadTypes DEF DyingInv, Forgotten, Destroying,
        UnloadLabels
  <2>4. ASSUME NEW m \in hold[t], pc' = [pc EXCEPT ![t] = "drop"], at' = [at EXCEPT ![t] = m],
             back' = [back EXCEPT ![t] = "dropping"], hold' = [hold EXCEPT ![t] = hold[t] \ {m}]
      PROVE DyingInv'
    BY <2>1, <2>2, <2>4, <1>a, ThreadSets, SetTypes, ThreadTypes, <1>h DEF DyingInv, Forgotten,
        Destroying, UnloadLabels
  <2> QED BY <2>1, <2>2, <2>3, <2>4
<1>8. ASSUME NEW t \in Apps, ReloadNext(t) PROVE DyingInv'
  <2>1. /\ UNCHANGED <<dying, loaded, hold, queue, handle, session, kept>>
        /\ pc[t] = "reloading" /\ pc'[t] \in {"reloading", "checked", "dropping"}
        /\ at'[t] = at[t] \/ at'[t] \in todo[t]
        /\ \A u \in Threads : u # t => pc'[u] = pc[u] /\ at'[u] = at[u] /\ back'[u] = back[u]
    BY <1>8, ThreadSets, ThreadTypes DEF ReloadNext, Enter, Goto, modelVars, tableVars, poolVars
  <2>2. todo[t] \subseteq hold[t]
    BY <2>1, <1>h, ThreadSets DEF ThreadInv, Visiting, InUnload, UnloadLabels
  <2>3. ~Destroying(t) /\ ~Destroying(t)'
    BY <2>1 DEF Destroying, UnloadLabels
  <2>4. \A m \in dying : m \notin handle \cup session \cup kept
                         /\ (\A i \in 1..Len(queue) : queue[i].model # m)
                         /\ \A u \in Threads : m \notin hold[u]
    BY <1>a DEF DyingInv, Forgotten
  <2>5. \A u \in Threads : Destroying(u)' <=> Destroying(u)
    BY <2>1, <2>3 DEF Destroying
  <2> QED BY <2>1, <2>2, <2>3, <2>4, <2>5, ThreadSets, DyingFrame
<1>9. ASSUME NEW t \in Apps, ShutdownDrain(t) PROVE DyingInv'
  <2>1. /\ UNCHANGED <<dying, loaded, at, back, handle, session>> /\ queue' = <<>>
        /\ \A u \in Threads : u # t => pc'[u] = pc[u] /\ hold'[u] = hold[u]
        /\ pc[t] = "drain" /\ pc'[t] = "join"
        /\ \A m \in hold'[t] : \/ \E i \in 1..Len(queue) : queue[i].model = m
                               \/ \E w \in Workers : kind[w] # "make" /\ at[w] = m
                               \/ m \in kept
        /\ \A m \in kept' : m \in kept \/ \E i \in 1..Len(queue) : queue[i].model = m
    BY <1>9, ThreadSets, ThreadTypes DEF ShutdownDrain, Goto, modelVars
  <2>2. \A m \in dying : m \notin handle \cup session \cup kept
                         /\ (\A i \in 1..Len(queue) : queue[i].model # m)
                         /\ \A u \in Threads : m \notin hold[u]
    BY <1>a DEF DyingInv, Forgotten
  <2>3. \A m \in dying : \A w \in Workers : kind[w] # "make" => at[w] # m
    BY <1>a, <1>h, ThreadSets, LifecycleAssumption DEF DyingInv, Forgotten, ThreadInv, Submitting,
        Destroying, UnloadLabels, WorkerLabels
  <2>4. \A u \in Threads : Destroying(u)' <=> Destroying(u)
    BY <2>1 DEF Destroying, UnloadLabels
  <2>5. \A m \in dying : m \notin hold'[t] /\ m \notin kept'
    BY <2>1, <2>2, <2>3
  <2> QED BY <2>1, <2>2, <2>4, <2>5, DyingFrame
<1>10. ASSUME NEW t \in Apps, ShutdownJoin(t) PROVE DyingInv'
  BY <1>10, <1>a, ThreadSets, SetTypes, ThreadTypes, SharedTypes, <1>h DEF ShutdownJoin, Goto,
      modelVars, lockVars, tableVars, managerVars, poolVars, DyingInv, Forgotten, Destroying,
      UnloadLabels
<1>11. ASSUME NEW t \in Apps, ShutdownUnloads(t) PROVE DyingInv'
  BY <1>11, <1>a, ThreadSets, SetTypes, ThreadTypes, SharedTypes, <1>h DEF ShutdownUnloads,
      Goto, modelVars, lockVars, tableVars, managerVars, poolVars, DyingInv, Forgotten,
      Destroying, UnloadLabels
<1>12. ASSUME NEW t \in Apps, ShutdownClears(t) PROVE DyingInv'
  BY <1>12, <1>a, ThreadSets, SetTypes, ThreadTypes, SharedTypes, <1>h DEF ShutdownClears, Goto,
      modelVars, lockVars, tableVars, poolVars, listVars, DyingInv, Forgotten, Destroying,
      UnloadLabels
<1>13. ASSUME NEW t \in Apps, NEW k \in JobKinds \ {"reload"}, NEW m \in Models \cup {NoModel},
              Submit(t, k, m)
       PROVE  DyingInv'
  BY <1>13, <1>a, ThreadSets, SetTypes, ThreadTypes, SharedTypes, <1>h DEF Submit, Enter, Goto,
      modelVars, lockVars, tableVars, managerVars, DyingInv, Forgotten, Destroying, UnloadLabels
<1>14. ASSUME NEW t \in Apps, NEW m \in Models, SessionCreate(t, m) PROVE DyingInv'
  BY <1>14, <1>a, ThreadSets, SetTypes, ThreadTypes, SharedTypes, <1>h DEF SessionCreate,
      modelVars, lockVars, managerVars, poolVars, listVars, DyingInv, Forgotten, Destroying,
      UnloadLabels
<1>15. ASSUME NEW t \in Apps, NEW m \in Models, ReleaseHandle(t, m) PROVE DyingInv'
  <2>1. /\ pc[t] = "idle" /\ UNCHANGED <<dying, loaded, hold,
                                         queue>> /\ m \in handle \cup session \cup kept
        /\ handle' \subseteq handle /\ session' \subseteq session /\ kept' \subseteq kept
        /\ pc' = [pc EXCEPT ![t] = "drop"] /\ at' = [at EXCEPT ![t] = m]
        /\ back' = [back EXCEPT ![t] = "idle"]
    BY <1>15 DEF ReleaseHandle, Let, Enter, Goto, modelVars, lockVars, managerVars, poolVars
  <2>2. at[t] = NoModel /\ NoModel \notin dying
    BY <2>1, ThreadSets, SetTypes, <1>h DEF ThreadInv, Submitting, Handling, UnloadLabels,
        WorkerLabels
  <2>3. m \notin dying
    BY <2>1, <1>a DEF DyingInv, Forgotten
  <2> QED BY <2>1, <2>2, <2>3, <1>a, ThreadSets, SetTypes, ThreadTypes DEF DyingInv, Forgotten,
      Destroying, UnloadLabels
<1>16. ASSUME NEW t \in Apps, UpdateSettings(t) PROVE DyingInv'
  BY <1>16, <1>a, ThreadSets, SetTypes, ThreadTypes, SharedTypes, <1>h DEF UpdateSettings,
      modelVars, lockVars, tableVars, poolVars, listVars, DyingInv, Forgotten, Destroying,
      UnloadLabels
<1>17. ASSUME NEW t \in Apps, NEW event \in {"MEMORY_CRITICAL", "BACKGROUND"},
              NotifyUnloads(t, event)
       PROVE  DyingInv'
  BY <1>17, <1>a, ThreadSets, SetTypes, ThreadTypes, SharedTypes, <1>h DEF NotifyUnloads, Goto,
      modelVars, lockVars, tableVars, managerVars, poolVars, DyingInv, Forgotten, Destroying,
      UnloadLabels
<1>18. ASSUME NEW t \in Apps, NotifyForeground(t) PROVE DyingInv'
  <2>1. /\ pc[t] \in {"collect", "idle"} /\ UNCHANGED <<dying, loaded, at, back, queue, handle,
                                                        session, kept>>
        /\ pc' = [pc EXCEPT ![t] = "reloading"]
    BY <1>18 DEF NotifyForeground, Goto, modelVars, lockVars, tableVars, poolVars
  <2>2. \A u \in Threads : hold'[u] = hold[u] \/ \A m \in hold'[u] : m \notin dying
    BY <1>18, ThreadSets, ThreadTypes DEF NotifyForeground, Lockable
  <2> QED BY <2>1, <2>2, <1>a, ThreadSets, SetTypes, ThreadTypes, <1>h DEF DyingInv, Forgotten,
      Destroying, UnloadLabels
<1>19. ASSUME NEW t \in Apps, ShutdownBegin(t) PROVE DyingInv'
  BY <1>19, <1>a, ThreadSets, SetTypes, ThreadTypes, SharedTypes, <1>h DEF ShutdownBegin, Goto,
      modelVars, lockVars, tableVars, poolVars, listVars, DyingInv, Forgotten, Destroying,
      UnloadLabels
<1>20. ASSUME NEW w \in Workers, WorkerPop(w) PROVE DyingInv'
  <2>1. /\ pc[w] = "poll" /\ queue # <<>> /\ queue' = Tail(queue)
        /\ UNCHANGED <<dying, loaded, hold, handle, session, kept>>
        /\ pc' = [pc EXCEPT ![w] = JobBegins(Head(queue).kind)]
        /\ at' = [at EXCEPT ![w] = Head(queue).model] /\ back' = [back EXCEPT ![w] = "jobEnd"]
    BY <1>20 DEF WorkerPop, Enter, Goto, modelVars, lockVars, tableVars, managerVars
  <2>2. at[w] = NoModel /\ NoModel \notin dying
    BY <2>1, ThreadSets, SetTypes, <1>h DEF ThreadInv, Submitting, Handling, UnloadLabels,
        WorkerLabels
  <2>3. \A m \in dying : /\ Head(queue).model # m
                         /\ \A i \in 1..Len(queue') : queue'[i].model # m
      <3>1. \A m \in dying : \A i \in 1..Len(queue) : queue[i].model # m
        BY <1>a DEF DyingInv, Forgotten
      <3>2. \A i \in 1..Len(queue') : i + 1 \in 1..Len(queue) /\ queue'[i] = queue[i + 1]
        BY <2>1, SharedTypes, TailIndex
      <3>3. 1 \in 1..Len(queue) /\ Head(queue) = queue[1]
        BY <2>1, SharedTypes, TailIndex
      <3> QED BY <3>1, <3>2, <3>3
  <2>4. \A u \in Threads : Destroying(u)' <=> Destroying(u) /\ u # w
    BY <2>1, ThreadSets, ThreadTypes DEF Destroying, UnloadLabels
  <2>5. \A u \in Threads : u # w => at'[u] = at[u]
    BY <2>1, ThreadSets, ThreadTypes
  <2>6. \A m \in dying : at'[w] # m
    BY <2>1, <2>3, ThreadSets, ThreadTypes
  <2> QED BY <2>1, <2>2, <2>3, <2>4, <2>5, <2>6, <1>a, ThreadSets DEF DyingInv, Forgotten
<1>21. ASSUME NEW w \in Workers, WorkerExit(w) PROVE DyingInv'
  BY <1>21, <1>a, ThreadSets, SetTypes, ThreadTypes, SharedTypes, <1>h DEF WorkerExit, Goto,
      modelVars, lockVars, tableVars, managerVars, poolVars, listVars, DyingInv, Forgotten,
      Destroying, UnloadLabels
<1>22. ASSUME NEW w \in Workers, JobEnd(w) PROVE DyingInv'
  BY <1>22, <1>a, ThreadSets, SetTypes, ThreadTypes, SharedTypes, <1>h DEF JobEnd, Let, Enter,
      Goto, modelVars, lockVars, managerVars, poolVars, DyingInv, Forgotten, Destroying,
      UnloadLabels
<1>23. ASSUME NEW w \in Workers, LoadCheck(w) PROVE DyingInv'
  <2>1. /\ pc[w] = "loadCheck" /\ UNCHANGED <<dying, loaded, at, back, hold, queue, handle,
                                              session, kept>>
        /\ pc' = [pc EXCEPT ![w] = "loadOga"] \/ pc' = [pc EXCEPT ![w] = "jobEnd"]
    BY <1>23 DEF LoadCheck, Goto, modelVars, lockVars, tableVars, managerVars, poolVars,
        listVars
  <2> QED BY <2>1, <1>a, ThreadSets, SetTypes, ThreadTypes DEF DyingInv, Forgotten, Destroying,
      UnloadLabels
<1>24. ASSUME NEW w \in Workers, LoadOga(w) PROVE DyingInv'
  BY <1>24, <1>a, ThreadSets, SetTypes, ThreadTypes, SharedTypes, <1>h DEF LoadOga, Goto,
      modelVars, tableVars, managerVars, poolVars, listVars, DyingInv, Forgotten, Destroying,
      UnloadLabels
<1>25. ASSUME NEW w \in Workers, LoadOperation(w) PROVE DyingInv'
  BY <1>25, <1>a, ThreadSets, SetTypes, ThreadTypes, SharedTypes, <1>h DEF LoadOperation, Goto,
      modelVars, tableVars, managerVars, poolVars, listVars, DyingInv, Forgotten, Destroying,
      UnloadLabels
<1>26. ASSUME NEW w \in Workers, LoadFails(w) PROVE DyingInv'
  BY <1>26, <1>a, ThreadSets, SetTypes, ThreadTypes, SharedTypes, <1>h DEF LoadFails, Goto,
      modelVars, tableVars, managerVars, poolVars, listVars, DyingInv, Forgotten, Destroying,
      UnloadLabels
<1>27. ASSUME NEW w \in Workers, LoadSucceeds(w) PROVE DyingInv'
  BY <1>27, <1>a, ThreadSets, SetTypes, ThreadTypes, SharedTypes, <1>h DEF LoadSucceeds, Goto,
      lockVars, tableVars, managerVars, poolVars, listVars, DyingInv, Forgotten, Destroying,
      UnloadLabels
<1>28. ASSUME NEW w \in Workers, LoadReturns(w) PROVE DyingInv'
  BY <1>28, <1>a, ThreadSets, SetTypes, ThreadTypes, SharedTypes, <1>h DEF LoadReturns, Goto,
      modelVars, tableVars, managerVars, poolVars, listVars, DyingInv, Forgotten, Destroying,
      UnloadLabels
<1>29. ASSUME NEW w \in Workers, MakeRegisters(w) PROVE DyingInv'
  BY <1>29, <1>a, ThreadSets, SetTypes, ThreadTypes, SharedTypes, <1>h DEF MakeRegisters, Goto,
      modelVars, lockVars, tableVars, poolVars, listVars, DyingInv, Forgotten, Destroying,
      UnloadLabels
<1>30. ASSUME NEW w \in Workers, MakePublishes(w) PROVE DyingInv'
  BY <1>30, <1>a, ThreadSets, SetTypes, ThreadTypes, SharedTypes, <1>h DEF MakePublishes, Goto,
      modelVars, lockVars, managerVars, poolVars, listVars, DyingInv, Forgotten, Destroying,
      UnloadLabels
<1>31. ASSUME NEW w \in Workers, InferRequest(w) PROVE DyingInv'
  BY <1>31, <1>a, ThreadSets, SetTypes, ThreadTypes, SharedTypes, <1>h DEF InferRequest, Goto,
      modelVars, tableVars, managerVars, poolVars, listVars, DyingInv, Forgotten, Destroying,
      UnloadLabels
<1>32. ASSUME NEW w \in Workers, InferOga(w) PROVE DyingInv'
  <2>1. /\ pc[w] = "inferOga" /\ UNCHANGED <<dying, loaded, at, back, hold, queue, handle,
                                             session, kept>>
        /\ pc' = [pc EXCEPT ![w] = "inferOperation"] \/ pc' = [pc EXCEPT ![w] = "jobEnd"]
    BY <1>32 DEF InferOga, Goto, modelVars, tableVars, managerVars, poolVars, listVars
  <2> QED BY <2>1, <1>a, ThreadSets, SetTypes, ThreadTypes DEF DyingInv, Forgotten, Destroying,
      UnloadLabels
<1>33. ASSUME NEW w \in Workers, InferOperation(w) PROVE DyingInv'
  BY <1>33, <1>a, ThreadSets, SetTypes, ThreadTypes, SharedTypes, <1>h DEF InferOperation, Goto,
      modelVars, tableVars, managerVars, poolVars, listVars, DyingInv, Forgotten, Destroying,
      UnloadLabels
<1>34. ASSUME NEW w \in Workers, InferEnds(w) PROVE DyingInv'
  BY <1>34, <1>a, ThreadSets, SetTypes, ThreadTypes, SharedTypes, <1>h DEF InferEnds, Goto,
      modelVars, tableVars, managerVars, poolVars, listVars, DyingInv, Forgotten, Destroying,
      UnloadLabels
<1>35. CASE UNCHANGED vars
  BY <1>35, <1>a, ThreadSets, SetTypes, ThreadTypes, SharedTypes, <1>h DEF vars, modelVars,
      lockVars, tableVars, managerVars, poolVars, listVars, DyingInv, Forgotten, Destroying,
      UnloadLabels
<1>36. ASSUME NEW t \in Apps, SubmitAccepted(t) PROVE DyingInv'
  BY <1>36, <1>a, ThreadSets, SetTypes, ThreadTypes, SharedTypes, <1>h DEF SubmitAccepted, Goto,
      modelVars, lockVars, tableVars, managerVars, poolVars, listVars, DyingInv, Forgotten,
      Destroying, UnloadLabels
<1>37. ASSUME NEW t \in Apps, SubmitRefused(t) PROVE DyingInv'
  BY <1>37, <1>a, ThreadSets, SetTypes, ThreadTypes, SharedTypes, <1>h DEF SubmitRefused,
      LetJob, Let, Enter, Goto, modelVars, lockVars, managerVars, poolVars, DyingInv, Forgotten,
      Destroying, UnloadLabels
<1>38. ASSUME NEW t \in Apps, SubmitPush(t) PROVE DyingInv'
  <2> DEFINE job == [kind |-> kind[t], model |-> at[t]]
  <2>1. /\ UNCHANGED <<dying, loaded, at, hold, handle, session, kept>>
        /\ queue' = Append(queue, job) /\ Submitting(t) /\ pc[t] = "push"
        /\ pc'[t] = back[t] \/ pc'[t] = "drop"
        /\ \A u \in Threads : u # t => pc'[u] = pc[u] /\ back'[u] = back[u]
    BY <1>38, ThreadSets, ThreadTypes DEF SubmitPush, LetJob, Let, Enter, Goto, modelVars,
        tableVars, Submitting
  <2>2. \A m \in dying : m \notin handle \cup session \cup kept
                         /\ (\A i \in 1..Len(queue) : queue[i].model # m)
                         /\ (\A u \in Threads : m \notin hold[u]) /\ at[t] # m
    BY <2>1, <1>a, ThreadSets DEF DyingInv, Forgotten, Destroying, UnloadLabels
  <2>3. job \in Jobs /\ job.model = at[t]
    BY <2>1, ThreadSets, PushedType
  <2> HIDE DEF job
  <2>4. \A m \in dying : \A i \in 1..Len(queue') : queue'[i].model # m
    BY <2>1, <2>2, <2>3, SharedTypes, AppendIndex
  <2>5. ~Destroying(t) /\ ~Destroying(t)'
    BY <2>1, ThreadSets, ThreadTypes DEF Destroying, UnloadLabels, Returns
  <2>6. \A u \in Threads : Destroying(u)' <=> Destroying(u)
    BY <2>1, <2>5 DEF Destroying
  <2> QED BY <2>1, <2>2, <2>4, <2>6, DyingFrame
<1>39. ASSUME NEW t \in Apps, NEW m \in Models, Visit(t, m) PROVE DyingInv'
  <2>1. /\ UNCHANGED <<dying, loaded, queue, handle, session, kept>>
        /\ pc[t] = "visiting" /\ pc'[t] \in {"visiting", "drop"}
        /\ hold'[t] \subseteq hold[t] \cup (IF Lockable(m) THEN {m} ELSE {})
        /\ at'[t] = at[t] \/ (at'[t] = m /\ Lockable(m))
        /\ \A u \in Threads : u # t => /\ pc'[u] = pc[u] /\ at'[u] = at[u] /\ back'[u] = back[u]
                                       /\ hold'[u] = hold[u]
    BY <1>39, ThreadSets, ThreadTypes DEF Visit, Let, Enter, Goto, modelVars, tableVars, poolVars
  <2>2. ~Destroying(t) /\ ~Destroying(t)' /\ (Lockable(m) => m \notin dying)
    BY <2>1 DEF Destroying, UnloadLabels, Lockable
  <2>3. \A n \in dying : n \notin handle \cup session \cup kept
                         /\ (\A i \in 1..Len(queue) : queue[i].model # n)
                         /\ (\A u \in Threads : n \notin hold[u])
    BY <1>a DEF DyingInv, Forgotten
  <2>4. \A u \in Threads : Destroying(u)' <=> Destroying(u)
    BY <2>1, <2>2 DEF Destroying
  <2>5. \A u \in Threads : Destroying(u) => at'[u] = at[u]
    BY <2>1, <2>2
  <2> QED BY <2>1, <2>2, <2>3, <2>4, <2>5, DyingFrame
<1>40. ASSUME NEW t \in Apps, Collected(t) PROVE DyingInv'
  BY <1>40, <1>a, ThreadSets, SetTypes, ThreadTypes, SharedTypes, <1>h DEF Collected, Goto,
      modelVars, tableVars, poolVars, DyingInv, Forgotten, Destroying, UnloadLabels
<1>41. ASSUME NEW t \in Apps, ShutdownFlag(t) PROVE DyingInv'
  BY <1>41, <1>a, ThreadSets, SetTypes, ThreadTypes, SharedTypes, <1>h DEF ShutdownFlag, Goto,
      modelVars, lockVars, tableVars, poolVars, listVars, DyingInv, Forgotten, Destroying,
      UnloadLabels
<1>42. ASSUME NEW w \in Workers, MakeBegins(w) PROVE DyingInv'
  <2>1. /\ UNCHANGED <<dying, loaded, hold, handle, session, kept>>
        /\ queue # <<>> /\ queue' = Tail(queue)
        /\ pc[w] = "poll" /\ pc'[w] \in {"poll", "loadCheck"}
        /\ at'[w] = at[w] \/ at'[w] \in Models \ born
        /\ \A u \in Threads : u # w => pc'[u] = pc[u] /\ at'[u] = at[u] /\ back'[u] = back[u]
    BY <1>42, ThreadSets, ThreadTypes DEF MakeBegins, Enter, Goto, tableVars
  <2>2. ~Destroying(w) /\ ~Destroying(w)'
    BY <2>1 DEF Destroying, UnloadLabels
  <2>3. \A n \in dying : n \notin handle \cup session \cup kept
                         /\ (\A i \in 1..Len(queue) : queue[i].model # n)
                         /\ (\A u \in Threads : n \notin hold[u])
    BY <1>a DEF DyingInv, Forgotten
  <2>4. \A u \in Threads : Destroying(u)' <=> Destroying(u)
    BY <2>1, <2>2 DEF Destroying
  <2>5. \A n \in dying : \A i \in 1..Len(queue') : queue'[i].model # n
    BY <2>1, <2>3, SharedTypes, TailIndex
  <2>6. \A u \in Threads : Destroying(u) => at'[u] = at[u]
    BY <2>1, <2>2
  <2> QED BY <2>1, <2>2, <2>3, <2>4, <2>5, <2>6, SetTypes, DyingFrame
<1> QED BY <1>1, <1>2, <1>3, <1>4, <1>5, <1>6, <1>7, <1>8, <1>9, <1>10, <1>11, <1>12, <1>13,
    <1>14, <1>15, <1>16, <1>17, <1>18, <1>19, <1>20, <1>21, <1>22, <1>23, <1>24, <1>25, <1>26,
    <1>27, <1>28, <1>29, <1>30, <1>31, <1>32, <1>33, <1>34, <1>35, <1>36, <1>37, <1>38, <1>39,
    <1>40, <1>41, <1>42, NextCases

\* A queued job keeps naming a model that was made, but for a load by package.
LEMMA NextQueueInv == Inv /\ [Next]_vars => QueueInv'
<1> SUFFICES ASSUME Inv, [Next]_vars PROVE QueueInv'
  OBVIOUS
<1>a. QueueInv
  BY DEF Inv
<1>b. ASSUME UNCHANGED queue, UNCHANGED born PROVE QueueInv'
  BY <1>a, <1>b DEF QueueInv
<1>c. ASSUME queue # <<>>, queue' = Tail(queue), born \subseteq born' PROVE QueueInv'
  <2>1. \A i \in 1..Len(queue') : i + 1 \in 1..Len(queue) /\ queue'[i] = queue[i + 1]
    BY <1>c, SharedTypes, TailIndex
  <2> QED BY <2>1, <1>a, <1>c DEF QueueInv
<1>1. ASSUME NEW t \in Threads, UnloadOga(t) \/ UnloadOperation(t) \/ Unload(t) \/ Drop(t)
      PROVE  QueueInv'
  BY <1>1, <1>b DEF UnloadOga, UnloadOperation, Unload, Drop, modelVars, poolVars
<1>2. ASSUME NEW t \in Apps,
             \/ SubmitAccepted(t) \/ SubmitRefused(t)
             \/ Collect(t) \/ Collected(t) \/ \E m \in Models : Visit(t, m)
             \/ UnloadNext(t) \/ DropNext(t) \/ ReloadNext(t)
      PROVE  QueueInv'
  BY <1>2, <1>b DEF SubmitAccepted, SubmitRefused, Collect, Collected, Visit, UnloadNext,
      DropNext, ReloadNext, modelVars, poolVars
<1>3. ASSUME NEW t \in Apps, SubmitPush(t) PROVE QueueInv'
  <2> DEFINE job == [kind |-> kind[t], model |-> at[t]]
  <2>1. /\ queue' = Append(queue, job) /\ UNCHANGED born /\ Submitting(t)
    BY <1>3 DEF SubmitPush, modelVars, Submitting
  <2>2. job \in Jobs /\ (job.kind # "make" => job.model \in born)
    BY <2>1, PushedType, ThreadSets
  <2> HIDE DEF job
  <2>3. \A i \in 1..Len(queue') : \/ i \in 1..Len(queue) /\ queue'[i] = queue[i]
                                  \/ queue'[i] = job
    BY <2>1, <2>2, SharedTypes, AppendIndex
  <2> QED BY <2>1, <2>2, <2>3, <1>a DEF QueueInv
<1>4. ASSUME NEW t \in Apps, ShutdownDrain(t) PROVE QueueInv'
  BY <1>4 DEF ShutdownDrain, QueueInv
<1>5. ASSUME NEW t \in Apps,
             \/ ShutdownFlag(t) \/ ShutdownJoin(t) \/ ShutdownUnloads(t) \/ ShutdownClears(t)
             \/ \E k \in JobKinds \ {"reload"}, m \in Models \cup {NoModel} : Submit(t, k, m)
             \/ \E m \in Models : SessionCreate(t, m) \/ ReleaseHandle(t, m)
             \/ UpdateSettings(t)
             \/ \E event \in {"MEMORY_CRITICAL", "BACKGROUND"} : NotifyUnloads(t, event)
             \/ NotifyForeground(t) \/ ShutdownBegin(t)
      PROVE  QueueInv'
  BY <1>5, <1>b DEF ShutdownFlag, ShutdownJoin, ShutdownUnloads, ShutdownClears, Submit,
      SessionCreate, ReleaseHandle, UpdateSettings, NotifyUnloads, NotifyForeground,
      ShutdownBegin, modelVars, poolVars
<1>6. ASSUME NEW w \in Workers, WorkerPop(w) \/ MakeBegins(w) PROVE QueueInv'
  <2>1. queue # <<>> /\ queue' = Tail(queue) /\ born \subseteq born'
    BY <1>6 DEF WorkerPop, MakeBegins, modelVars
  <2> QED BY <2>1, <1>c
<1>7. ASSUME NEW w \in Workers,
             \/ WorkerExit(w) \/ JobEnd(w)
             \/ LoadCheck(w) \/ LoadOga(w) \/ LoadOperation(w) \/ LoadFails(w)
             \/ LoadSucceeds(w) \/ LoadReturns(w) \/ MakeRegisters(w) \/ MakePublishes(w)
             \/ InferRequest(w) \/ InferOga(w) \/ InferOperation(w) \/ InferEnds(w)
      PROVE  QueueInv'
  BY <1>7, <1>b DEF WorkerExit, JobEnd, LoadCheck, LoadOga, LoadOperation, LoadFails,
      LoadSucceeds, LoadReturns, MakeRegisters, MakePublishes, InferRequest, InferOga,
      InferOperation, InferEnds, modelVars, poolVars
<1>8. CASE UNCHANGED vars
  BY <1>8, <1>b DEF vars, modelVars, poolVars
<1> QED BY <1>1, <1>2, <1>3, <1>4, <1>5, <1>6, <1>7, <1>8, NextCases

\* The list of evicted models has registered or dying ones only.
LEMMA NextEvictedKnown == Inv /\ [Next]_vars => EvictedKnown'
<1> SUFFICES ASSUME Inv, [Next]_vars PROVE EvictedKnown'
  OBVIOUS
<1>1. EvictedKnown /\ dying \subseteq dying'
  BY BornStay DEF Inv, RegistryInv
<1>2. CASE UNCHANGED vars
  BY <1>1, <1>2 DEF vars, modelVars, managerVars, EvictedKnown
<1>3. ASSUME NEW t \in Threads, ShutdownClears(t) PROVE EvictedKnown'
  BY <1>3 DEF ShutdownClears, EvictedKnown
<1>4. ASSUME NEW t \in Threads, Collected(t) PROVE EvictedKnown'
  BY <1>1, <1>4 DEF Collected, EvictedKnown, Inv, ThreadInv, Visiting
<1>5. ASSUME NEW t \in Threads, StepOf(t), ~ShutdownClears(t), ~Collected(t) PROVE EvictedKnown'
  BY <1>1, <1>5, RegistryMoves, EvictedMoves DEF EvictedKnown
<1> QED BY <1>2, <1>3, <1>4, <1>5, ThreadSets DEF Next, StepOf

\* Only constructed models are loaded.
LEMMA NextLoadedBorn == Inv /\ [Next]_vars => LoadedBorn'
<1> SUFFICES ASSUME Inv, [Next]_vars PROVE LoadedBorn'
  OBVIOUS
<1>1. LoadedBorn /\ born \subseteq born'
  BY BornStay DEF Inv, RegistryInv
<1>2. ASSUME NEW t \in Threads, Unload(t) PROVE LoadedBorn'
  BY <1>1, <1>2, SharedTypes DEF Unload, LoadedBorn
<1>3. ASSUME NEW t \in Threads, LoadSucceeds(t) PROVE LoadedBorn'
  <2>1. /\ loaded' = [loaded EXCEPT ![at[t]] = TRUE]
        /\ pc[t] = "load"
    BY <1>3 DEF LoadSucceeds
  <2>2. at[t] \in born
    BY <2>1 DEF Inv, ThreadInv, Handling, WorkerLabels
  <2> QED BY <2>1, <2>2, <1>1, SharedTypes DEF LoadedBorn
<1>4. ASSUME UNCHANGED loaded PROVE LoadedBorn'
  BY <1>1, <1>4 DEF LoadedBorn
<1>5. CASE UNCHANGED vars
  BY <1>4, <1>5 DEF vars, modelVars
<1>6. CASE Next
  <2>1. PICK t \in Threads : StepOf(t)
    BY <1>6, ThreadSets DEF Next, StepOf
  <2> QED BY <2>1, <1>2, <1>3, <1>4, LoadedMoves
<1> QED BY <1>5, <1>6

\* A registered or loaded model keeps a reference, until its destructor begins.
LEMMA NextLiveReferenced == Inv /\ [Next]_vars => LiveReferenced'
<1> SUFFICES ASSUME Inv, [Next]_vars PROVE LiveReferenced'
  OBVIOUS
<1>a. LiveReferenced
  BY DEF Inv, RegistryInv
<1>h. \A t \in Threads : ThreadInv(t)
  BY DEF Inv
<1>1. ASSUME NEW t \in Threads, UnloadOga(t) PROVE LiveReferenced'
  BY <1>1, <1>a, ThreadSets, SetTypes, ThreadTypes, SharedTypes, <1>h DEF UnloadOga, Goto,
      modelVars, tableVars, managerVars, poolVars, listVars, LiveReferenced, Referenced
<1>2. ASSUME NEW t \in Threads, UnloadOperation(t) PROVE LiveReferenced'
  BY <1>2, <1>a, ThreadSets, SetTypes, ThreadTypes, SharedTypes, <1>h DEF UnloadOperation, Goto,
      modelVars, tableVars, managerVars, poolVars, listVars, LiveReferenced, Referenced
<1>3. ASSUME NEW t \in Threads, Unload(t) PROVE LiveReferenced'
  <2>1. /\ pc[t] = "unload" /\ UNCHANGED <<born, dying, registry, queue, hold, handle, session,
                                           kept>>
        /\ loaded' = [loaded EXCEPT ![at[t]] = FALSE]
        /\ at' = [at EXCEPT ![t] = IF back[t] = "jobEnd" THEN at[t] ELSE NoModel]
    BY <1>3 DEF Unload, Resume, Enter, Goto, tableVars, managerVars, poolVars
  <2>2. \/ back[t] = "jobEnd"
        \/ at[t] \in hold[t]
        \/ at[t] \in dying
    BY <2>1, <1>h DEF Inv, DyingInv, Destroying, ThreadInv, InUnload, UnloadLabels
  <2>3. \A u \in Threads : u # t => at'[u] = at[u]
    BY <2>1, ThreadTypes
  <2>4. back[t] = "jobEnd" => at'[t] = at[t]
    BY <2>1, ThreadTypes
  <2>5. \A m \in born \ dying : Referenced(m) => Referenced(m)'
    BY <2>1, <2>2, <2>3, <2>4 DEF Referenced
  <2>6. \A m \in Models : loaded'[m] => loaded[m]
    BY <2>1, SharedTypes
  <2> QED BY <2>1, <2>2, <2>3, <2>4, <2>5, <2>6, <1>a, ThreadSets, SetTypes, ThreadTypes,
      SharedTypes DEF LiveReferenced, Referenced
<1>4. ASSUME NEW t \in Threads, Drop(t) PROVE LiveReferenced'
  <2>1. /\ pc[t] = "drop" /\ UNCHANGED <<born, loaded, registry, queue, hold, handle, session,
                                         kept>>
        /\ \/ LastReference(t) /\ dying' = dying \cup {at[t]} /\ UNCHANGED at
           \/ ~LastReference(t) /\ dying' = dying /\ at' = [at EXCEPT ![t] = NoModel]
    BY <1>4 DEF Drop, Goto, Resume, Enter, lockVars, tableVars, managerVars, poolVars
  <2>2. CASE LastReference(t) /\ dying' = dying \cup {at[t]} /\ UNCHANGED at
    BY <2>1, <2>2, <1>a DEF LiveReferenced, Referenced
  <2>3. CASE ~LastReference(t) /\ dying' = dying /\ at' = [at EXCEPT ![t] = NoModel]
      <3>1. \A u \in Threads : u # t => at'[u] = at[u]
        BY <2>3, ThreadTypes
      <3>2. ASSUME NEW m \in Models, Referenced(m) PROVE Referenced(m)'
        <4>1. CASE at[t] = m
          BY <4>1, <2>1, <2>3, <3>1 DEF LastReference, Referenced
        <4>2. CASE at[t] # m
          BY <4>2, <3>2, <2>1, <3>1 DEF Referenced
        <4> QED BY <4>1, <4>2
      <3> QED BY <3>2, <2>1, <2>3, <1>a, SetTypes DEF LiveReferenced
  <2> QED BY <2>1, <2>2, <2>3
<1>5. ASSUME NEW t \in Apps, Collect(t) PROVE LiveReferenced'
  BY <1>5, <1>a, ThreadSets, SetTypes, ThreadTypes, SharedTypes, <1>h DEF Collect, Goto,
      modelVars, tableVars, managerVars, poolVars, LiveReferenced, Referenced
<1>6. ASSUME NEW t \in Apps, UnloadNext(t) PROVE LiveReferenced'
  <2>1. /\ pc[t] = "unloading" /\ UNCHANGED <<born, dying, loaded, registry, queue, hold,
                                              handle, session, kept>>
        /\ \A u \in Threads : u # t => at'[u] = at[u]
    BY <1>6, ThreadSets, ThreadTypes DEF UnloadNext, Goto, Enter, modelVars, lockVars,
        tableVars, managerVars, poolVars
  <2>2. at[t] = NoModel /\ NoModel \notin Models
    BY <2>1, ThreadSets, <1>h, LifecycleAssumption DEF ThreadInv, Submitting, Handling,
        UnloadLabels,
        WorkerLabels
  <2>3. \A m \in Models : Referenced(m) => Referenced(m)'
    BY <2>1, <2>2 DEF Referenced
  <2> QED BY <2>1, <2>2, <2>3, <1>a, SetTypes DEF LiveReferenced
<1>7. ASSUME NEW t \in Apps, DropNext(t) PROVE LiveReferenced'
  <2>1. /\ pc[t] = "dropping" /\ UNCHANGED <<born, dying, loaded, registry, queue, handle,
                                             session, kept>>
        /\ \A u \in Threads : u # t => at'[u] = at[u] /\ hold'[u] = hold[u]
        /\ \A m \in hold[t] : m \in hold'[t] \/ at'[t] = m
    BY <1>7, ThreadSets, ThreadTypes DEF DropNext, Goto, Let, Enter, modelVars, lockVars,
        tableVars, managerVars, poolVars
  <2>2. at[t] = NoModel /\ NoModel \notin Models
    BY <2>1, ThreadSets, <1>h, LifecycleAssumption DEF ThreadInv, Submitting, Handling,
        UnloadLabels,
        WorkerLabels
  <2>3. \A m \in Models : Referenced(m) => Referenced(m)'
    BY <2>1, <2>2 DEF Referenced
  <2> QED BY <2>1, <2>2, <2>3, <1>a, SetTypes DEF LiveReferenced
<1>8. ASSUME NEW t \in Apps, ReloadNext(t) PROVE LiveReferenced'
  <2>1. /\ pc[t] = "reloading"
        /\ UNCHANGED <<born, dying, loaded, registry, queue, hold, handle, session, kept>>
        /\ \A u \in Threads : u # t => at'[u] = at[u]
    BY <1>8, ThreadSets, ThreadTypes DEF ReloadNext, Goto, Enter, modelVars, tableVars,
        managerVars, poolVars
  <2>2. at[t] \notin Models
    BY <2>1, <1>h, LifecycleAssumption, ThreadSets DEF ThreadInv, Submitting, Handling,
        UnloadLabels,
        WorkerLabels
  <2>3. \A n \in Models : Referenced(n) => Referenced(n)'
    BY <2>1, <2>2 DEF Referenced
  <2> QED BY <2>1, <2>3, <1>a, SetTypes DEF LiveReferenced
<1>9. ASSUME NEW t \in Apps, ShutdownDrain(t) PROVE LiveReferenced'
  <2>1. /\ pc[t] = "drain"
        /\ UNCHANGED <<born, dying, loaded, registry, at, handle, session>> /\ kept \subseteq kept'
        /\ \A u \in Threads : u # t => hold'[u] = hold[u]
        /\ \A i \in 1..Len(queue) : queue[i].kind \in JobKinds \ {"make"} =>
                                      queue[i].model \in hold'[t]
    BY <1>9, ThreadSets, ThreadTypes DEF ShutdownDrain, Goto, modelVars, managerVars
  <2>2. hold[t] = {}
    BY <2>1, <1>h, ThreadSets DEF ThreadInv, Visiting, Listing, Reloading, Submitting, InUnload,
        UnloadLabels
  <2>3. \A i \in 1..Len(queue) : queue[i].model \in Models => queue[i].kind \in JobKinds \ {"make"}
    BY SharedTypes, JobTypes, LifecycleAssumption
  <2>4. \A n \in Models : Referenced(n) => Referenced(n)'
    BY <2>1, <2>2, <2>3, ThreadSets DEF Referenced
  <2> QED BY <2>1, <2>4, <1>a, SetTypes DEF LiveReferenced
<1>10. ASSUME NEW t \in Apps, ShutdownJoin(t) PROVE LiveReferenced'
  BY <1>10, <1>a, ThreadSets, SetTypes, ThreadTypes, SharedTypes, <1>h DEF ShutdownJoin, Goto,
      modelVars, lockVars, tableVars, managerVars, poolVars, LiveReferenced, Referenced
<1>11. ASSUME NEW t \in Apps, ShutdownUnloads(t) PROVE LiveReferenced'
  BY <1>11, <1>a, ThreadSets, SetTypes, ThreadTypes, SharedTypes, <1>h DEF ShutdownUnloads,
      Goto, modelVars, lockVars, tableVars, managerVars, poolVars, LiveReferenced, Referenced
<1>12. ASSUME NEW t \in Apps, ShutdownClears(t) PROVE LiveReferenced'
  BY <1>12, <1>a, ThreadSets, SetTypes, ThreadTypes, SharedTypes, <1>h DEF ShutdownClears, Goto,
      modelVars, lockVars, tableVars, poolVars, listVars, LiveReferenced, Referenced
<1>13. ASSUME NEW t \in Apps, NEW k \in JobKinds \ {"reload"}, NEW m \in Models \cup {NoModel},
              Submit(t, k, m)
       PROVE  LiveReferenced'
  <2>1. /\ pc[t] = "idle"
        /\ UNCHANGED <<born, dying, loaded, registry, queue, hold, handle, session, kept>>
        /\ \A u \in Threads : u # t => at'[u] = at[u]
    BY <1>13, ThreadSets, ThreadTypes DEF Submit, Goto, Enter, modelVars, tableVars, managerVars
  <2>2. at[t] \notin Models
    BY <2>1, <1>h, LifecycleAssumption, ThreadSets DEF ThreadInv, Submitting, Handling,
        UnloadLabels,
        WorkerLabels
  <2>3. \A n \in Models : Referenced(n) => Referenced(n)'
    BY <2>1, <2>2 DEF Referenced
  <2> QED BY <2>1, <2>3, <1>a, SetTypes DEF LiveReferenced
<1>14. ASSUME NEW t \in Apps, NEW m \in Models, SessionCreate(t, m) PROVE LiveReferenced'
  BY <1>14, <1>a, ThreadSets, SetTypes, ThreadTypes, SharedTypes, <1>h DEF SessionCreate,
      modelVars, lockVars, managerVars, poolVars, listVars, LiveReferenced, Referenced
<1>15. ASSUME NEW t \in Apps, NEW m \in Models, ReleaseHandle(t, m) PROVE LiveReferenced'
  <2>1. /\ pc[t] = "idle" /\ UNCHANGED <<born, dying, loaded, registry, queue, hold>>
        /\ \A n \in handle \cup session \cup kept :
             n # m => n \in handle' \cup session' \cup kept'
        /\ at'[t] = m /\ \A u \in Threads : u # t => at'[u] = at[u]
    BY <1>15, ThreadSets, ThreadTypes DEF ReleaseHandle, Let, Enter, Goto, modelVars, lockVars,
        managerVars, poolVars
  <2>2. at[t] = NoModel /\ NoModel \notin Models
    BY <2>1, ThreadSets, <1>h, LifecycleAssumption DEF ThreadInv, Submitting, Handling,
        UnloadLabels,
        WorkerLabels
  <2>3. \A n \in Models : Referenced(n) => Referenced(n)'
    BY <2>1, <2>2, ThreadSets DEF Referenced
  <2> QED BY <2>1, <2>2, <2>3, <1>a, SetTypes DEF LiveReferenced
<1>16. ASSUME NEW t \in Apps, UpdateSettings(t) PROVE LiveReferenced'
  BY <1>16, <1>a, ThreadSets, SetTypes, ThreadTypes, SharedTypes, <1>h DEF UpdateSettings,
      modelVars, lockVars, tableVars, poolVars, listVars, LiveReferenced, Referenced
<1>17. ASSUME NEW t \in Apps, NEW event \in {"MEMORY_CRITICAL", "BACKGROUND"},
              NotifyUnloads(t, event)
       PROVE  LiveReferenced'
  BY <1>17, <1>a, ThreadSets, SetTypes, ThreadTypes, SharedTypes, <1>h DEF NotifyUnloads, Goto,
      modelVars, lockVars, tableVars, managerVars, poolVars, LiveReferenced, Referenced
<1>18. ASSUME NEW t \in Apps, NotifyForeground(t) PROVE LiveReferenced'
  <2>1. /\ pc[t] \in {"collect", "idle"} /\ UNCHANGED <<born, dying, loaded, at, queue, handle,
                                                        session, kept>>
        /\ registry' \subseteq registry
        /\ \A u \in Threads : u # t => hold'[u] = hold[u]
    BY <1>18, ThreadSets, ThreadTypes DEF NotifyForeground, Goto, modelVars, lockVars,
        tableVars, poolVars
  <2>2. hold[t] = {}
    BY <2>1, ThreadSets, <1>h DEF ThreadInv, Listing, Visiting, Reloading, Submitting, InUnload,
        UnloadLabels
  <2>3. \A m \in Models : Referenced(m) => Referenced(m)'
    BY <2>1, <2>2 DEF Referenced
  <2> QED BY <2>1, <2>2, <2>3, <1>a, ThreadSets, SetTypes DEF LiveReferenced, Referenced
<1>19. ASSUME NEW t \in Apps, ShutdownBegin(t) PROVE LiveReferenced'
  BY <1>19, <1>a, ThreadSets, SetTypes, ThreadTypes, SharedTypes, <1>h DEF ShutdownBegin, Goto,
      modelVars, lockVars, tableVars, poolVars, listVars, LiveReferenced, Referenced
<1>20. ASSUME NEW w \in Workers, WorkerPop(w) PROVE LiveReferenced'
  <2>1. /\ pc[w] = "poll" /\ queue # <<>> /\ queue' = Tail(queue)
        /\ UNCHANGED <<born, dying, loaded, registry, hold, handle, session, kept>>
        /\ at'[w] = Head(queue).model /\ \A u \in Threads : u # w => at'[u] = at[u]
    BY <1>20, ThreadSets, ThreadTypes DEF WorkerPop, Enter, Goto, modelVars, lockVars,
        tableVars, managerVars
  <2>2. at[w] = NoModel /\ NoModel \notin Models
    BY <2>1, ThreadSets, <1>h, LifecycleAssumption DEF ThreadInv, Submitting, Handling,
        UnloadLabels,
        WorkerLabels
  <2>3. \A i \in 1..Len(queue) : 
           \/ i - 1 \in 1..Len(queue') /\ queue'[i - 1] = queue[i]
           \/ at'[w] = queue[i].model
    BY <2>1, SharedTypes, TailIndex
  <2>4. \A m \in Models : Referenced(m) => Referenced(m)'
      <3> SUFFICES ASSUME NEW m \in Models, Referenced(m) PROVE Referenced(m)'
        OBVIOUS
      <3>1. CASE \E i \in 1..Len(queue) : queue[i].model = m
        BY <3>1, <2>3, ThreadSets DEF Referenced
      <3>2. CASE ~\E i \in 1..Len(queue) : queue[i].model = m
        BY <3>2, <2>1, <2>2 DEF Referenced
      <3> QED BY <3>1, <3>2
  <2> QED BY <2>1, <2>2, <2>3, <2>4, <1>a, SetTypes DEF LiveReferenced
<1>21. ASSUME NEW w \in Workers, WorkerExit(w) PROVE LiveReferenced'
  BY <1>21, <1>a, ThreadSets, SetTypes, ThreadTypes, SharedTypes, <1>h DEF WorkerExit, Goto,
      modelVars, lockVars, tableVars, managerVars, poolVars, listVars, LiveReferenced,
      Referenced
<1>22. ASSUME NEW w \in Workers, JobEnd(w) PROVE LiveReferenced'
  BY <1>22, <1>a, ThreadSets, SetTypes, ThreadTypes, SharedTypes, <1>h DEF JobEnd, Let, Enter,
      Goto, modelVars, lockVars, managerVars, poolVars, LiveReferenced, Referenced
<1>23. ASSUME NEW w \in Workers, LoadCheck(w) PROVE LiveReferenced'
  BY <1>23, <1>a, ThreadSets, SetTypes, ThreadTypes, SharedTypes, <1>h DEF LoadCheck, Goto,
      modelVars, lockVars, tableVars, managerVars, poolVars, listVars, LiveReferenced,
      Referenced
<1>24. ASSUME NEW w \in Workers, LoadOga(w) PROVE LiveReferenced'
  BY <1>24, <1>a, ThreadSets, SetTypes, ThreadTypes, SharedTypes, <1>h DEF LoadOga, Goto,
      modelVars, tableVars, managerVars, poolVars, listVars, LiveReferenced, Referenced
<1>25. ASSUME NEW w \in Workers, LoadOperation(w) PROVE LiveReferenced'
  BY <1>25, <1>a, ThreadSets, SetTypes, ThreadTypes, SharedTypes, <1>h DEF LoadOperation, Goto,
      modelVars, tableVars, managerVars, poolVars, listVars, LiveReferenced, Referenced
<1>26. ASSUME NEW w \in Workers, LoadFails(w) PROVE LiveReferenced'
  BY <1>26, <1>a, ThreadSets, SetTypes, ThreadTypes, SharedTypes, <1>h DEF LoadFails, Goto,
      modelVars, tableVars, managerVars, poolVars, listVars, LiveReferenced, Referenced
<1>27. ASSUME NEW w \in Workers, LoadSucceeds(w) PROVE LiveReferenced'
  BY <1>27, <1>a, ThreadSets, SetTypes, ThreadTypes, SharedTypes, <1>h DEF LoadSucceeds, Goto,
      lockVars, tableVars, managerVars, poolVars, listVars, LiveReferenced, Referenced
<1>28. ASSUME NEW w \in Workers, LoadReturns(w) PROVE LiveReferenced'
  BY <1>28, <1>a, ThreadSets, SetTypes, ThreadTypes, SharedTypes, <1>h DEF LoadReturns, Goto,
      modelVars, tableVars, managerVars, poolVars, listVars, LiveReferenced, Referenced
<1>29. ASSUME NEW w \in Workers, MakeRegisters(w) PROVE LiveReferenced'
  BY <1>29, <1>a, ThreadSets, SetTypes, ThreadTypes, SharedTypes, <1>h DEF MakeRegisters, Goto,
      modelVars, lockVars, tableVars, poolVars, listVars, LiveReferenced, Referenced
<1>30. ASSUME NEW w \in Workers, MakePublishes(w) PROVE LiveReferenced'
  BY <1>30, <1>a, ThreadSets, SetTypes, ThreadTypes, SharedTypes, <1>h DEF MakePublishes, Goto,
      modelVars, lockVars, managerVars, poolVars, listVars, LiveReferenced, Referenced
<1>31. ASSUME NEW w \in Workers, InferRequest(w) PROVE LiveReferenced'
  BY <1>31, <1>a, ThreadSets, SetTypes, ThreadTypes, SharedTypes, <1>h DEF InferRequest, Goto,
      modelVars, tableVars, managerVars, poolVars, listVars, LiveReferenced, Referenced
<1>32. ASSUME NEW w \in Workers, InferOga(w) PROVE LiveReferenced'
  BY <1>32, <1>a, ThreadSets, SetTypes, ThreadTypes, SharedTypes, <1>h DEF InferOga, Goto,
      modelVars, tableVars, managerVars, poolVars, listVars, LiveReferenced, Referenced
<1>33. ASSUME NEW w \in Workers, InferOperation(w) PROVE LiveReferenced'
  BY <1>33, <1>a, ThreadSets, SetTypes, ThreadTypes, SharedTypes, <1>h DEF InferOperation, Goto,
      modelVars, tableVars, managerVars, poolVars, listVars, LiveReferenced, Referenced
<1>34. ASSUME NEW w \in Workers, InferEnds(w) PROVE LiveReferenced'
  BY <1>34, <1>a, ThreadSets, SetTypes, ThreadTypes, SharedTypes, <1>h DEF InferEnds, Goto,
      modelVars, tableVars, managerVars, poolVars, listVars, LiveReferenced, Referenced
<1>35. CASE UNCHANGED vars
  BY <1>35, <1>a, ThreadSets, SetTypes, ThreadTypes, SharedTypes, <1>h DEF vars, modelVars,
      lockVars, tableVars, managerVars, poolVars, listVars, LiveReferenced, Referenced
<1>36. ASSUME NEW t \in Apps, SubmitAccepted(t) PROVE LiveReferenced'
  BY <1>36, <1>a, ThreadSets, SetTypes, ThreadTypes, SharedTypes, <1>h DEF SubmitAccepted, Goto,
      modelVars, lockVars, tableVars, managerVars, poolVars, listVars, LiveReferenced,
      Referenced
<1>37. ASSUME NEW t \in Apps, SubmitRefused(t) PROVE LiveReferenced'
  BY <1>37, <1>a, ThreadSets, SetTypes, ThreadTypes, SharedTypes, <1>h DEF SubmitRefused,
      LetJob, Let, Enter, Goto, modelVars, lockVars, managerVars, poolVars, LiveReferenced,
      Referenced
<1>38. ASSUME NEW t \in Apps, SubmitPush(t) PROVE LiveReferenced'
  <2> DEFINE job == [kind |-> kind[t], model |-> at[t]]
  <2>1. /\ UNCHANGED <<born, dying, loaded, registry, hold, handle, session, kept>>
        /\ queue' = Append(queue, job) /\ Submitting(t) /\ \A u \in Threads : at'[u] = at[u]
    BY <1>38, ThreadSets, ThreadTypes DEF SubmitPush, LetJob, Let, Enter, Goto, modelVars,
        tableVars, managerVars, Submitting
  <2>2. job \in Jobs
    BY <2>1, ThreadSets, PushedType
  <2> HIDE DEF job
  <2>3. \A i \in 1..Len(queue) : i \in 1..Len(queue') /\ queue'[i] = queue[i]
    BY <2>1, <2>2, SharedTypes, AppendKeeps
  <2>4. \A n \in Models : Referenced(n) => Referenced(n)'
    BY <2>1, <2>3 DEF Referenced
  <2> QED BY <2>1, <2>4, <1>a, SetTypes DEF LiveReferenced
<1>39. ASSUME NEW t \in Apps, NEW m \in Models, Visit(t, m) PROVE LiveReferenced'
  <2>1. /\ pc[t] = "visiting" /\ registry' \subseteq registry
        /\ UNCHANGED <<born, dying, loaded, queue, handle, session, kept>>
        /\ \A u \in Threads : hold[u] \subseteq hold'[u] /\ (u # t => at'[u] = at[u])
    BY <1>39, ThreadSets, ThreadTypes DEF Visit, Let, Goto, Enter, modelVars, tableVars, poolVars
  <2>2. at[t] \notin Models
    BY <2>1, <1>h, LifecycleAssumption, ThreadSets DEF ThreadInv, Submitting, Handling,
        UnloadLabels,
        WorkerLabels
  <2>3. \A n \in Models : Referenced(n) => Referenced(n)'
    BY <2>1, <2>2 DEF Referenced
  <2> QED BY <2>1, <2>3, <1>a, SetTypes DEF LiveReferenced
<1>40. ASSUME NEW t \in Apps, Collected(t) PROVE LiveReferenced'
  BY <1>40, <1>a, ThreadSets, SetTypes, ThreadTypes, SharedTypes, <1>h DEF Collected, Goto,
      modelVars, tableVars, poolVars, LiveReferenced, Referenced
<1>41. ASSUME NEW t \in Apps, ShutdownFlag(t) PROVE LiveReferenced'
  BY <1>41, <1>a, ThreadSets, SetTypes, ThreadTypes, SharedTypes, <1>h DEF ShutdownFlag, Goto,
      modelVars, lockVars, tableVars, poolVars, listVars, LiveReferenced, Referenced
<1>42. ASSUME NEW w \in Workers, MakeBegins(w) PROVE LiveReferenced'
  <2>1. /\ pc[w] = "poll" /\ queue # <<>> /\ queue' = Tail(queue) /\ Head(queue).kind = "make"
        /\ UNCHANGED <<dying, loaded, registry, hold, handle, session, kept>>
        /\ \A u \in Threads : u # w => at'[u] = at[u]
        /\ \A n \in born' : n \in born \/ at'[w] = n
    BY <1>42, ThreadSets, ThreadTypes DEF MakeBegins, Enter, Goto, tableVars, managerVars
  <2>2. at[w] \notin Models
    BY <2>1, <1>h, LifecycleAssumption, ThreadSets DEF ThreadInv, Submitting, Handling,
        UnloadLabels,
        WorkerLabels
  <2>3. Head(queue).model \notin Models
    BY <2>1, SharedTypes, JobTypes, LifecycleAssumption
  <2>4. \A i \in 1..Len(queue) :
           \/ i - 1 \in 1..Len(queue') /\ queue'[i - 1] = queue[i]
           \/ queue[i] = Head(queue)
    BY <2>1, SharedTypes, TailIndex
  <2>5. \A n \in Models : Referenced(n) => Referenced(n)'
      <3> SUFFICES ASSUME NEW n \in Models, Referenced(n) PROVE Referenced(n)'
        OBVIOUS
      <3>1. CASE \E i \in 1..Len(queue) : queue[i].model = n
        BY <3>1, <2>3, <2>4 DEF Referenced
      <3>2. CASE ~\E i \in 1..Len(queue) : queue[i].model = n
        BY <3>2, <2>1, <2>2 DEF Referenced
      <3> QED BY <3>1, <3>2
  <2>6. \A n \in born' \ born : Referenced(n)'
    BY <2>1, ThreadSets DEF Referenced
  <2>7. born' \subseteq Models
    BY NextTypeOK DEF TypeOK
  <2> QED BY <2>1, <2>5, <2>6, <2>7, <1>a, SetTypes DEF LiveReferenced
<1> QED BY <1>1, <1>2, <1>3, <1>4, <1>5, <1>6, <1>7, <1>8, <1>9, <1>10, <1>11, <1>12, <1>13,
    <1>14, <1>15, <1>16, <1>17, <1>18, <1>19, <1>20, <1>21, <1>22, <1>23, <1>24, <1>25, <1>26,
    <1>27, <1>28, <1>29, <1>30, <1>31, <1>32, <1>33, <1>34, <1>35, <1>36, <1>37, <1>38, <1>39,
    <1>40, <1>41, <1>42, NextCases

\* A model stays in the hands of the load that makes it when a step brings it nowhere else.
LEMMA MakingFrame ==
  ASSUME NEW m, InTheMaking(m),
         \A u \in Threads : at'[u] = m => at[u] = m /\ kind'[u] = kind[u] /\ pc'[u] # "publish",
         \A u \in Threads : m \notin hold'[u],
         m \notin handle' \cup session' \cup kept',
         \A i \in 1..Len(queue') : queue'[i].model # m,
         loaded' = loaded,
         \A u \in Threads : at[u] = m => at'[u] = m /\ pc'[u] = pc[u]
  PROVE  InTheMaking(m)'
  BY ThreadSets DEF InTheMaking

\* A model the registry does not have stays with the load that makes it.
LEMMA NextUnlistedInTheMaking == Inv /\ [Next]_vars => UnlistedInTheMaking'
<1> SUFFICES ASSUME Inv, [Next]_vars PROVE UnlistedInTheMaking'
  OBVIOUS
<1>a. UnlistedInTheMaking
  BY DEF Inv, RegistryInv
<1>h. /\ \A t \in Threads : ThreadInv(t)
      /\ \A m \in registry \ dying : Lockable(m)
      /\ NoModel \notin Models
  BY SetTypes, LifecycleAssumption DEF Inv, RegistryInv, LiveReferenced, Lockable
<1>i. \A m \in born \ (dying \cup registry) : down # "done" => InTheMaking(m)
  BY <1>a DEF UnlistedInTheMaking
<1>1. ASSUME NEW t \in Threads, UnloadOga(t) PROVE UnlistedInTheMaking'
  <2>1. /\ pc[t] = "unloadOga"
        /\ UNCHANGED <<born, dying, loaded, registry, down, queue, at, kind, hold, handle,
                       session, kept>>
        /\ pc'[t] = "unloadOperation" /\ \A u \in Threads : u # t => pc'[u] = pc[u]
    BY <1>1, ThreadSets, ThreadTypes DEF UnloadOga, Goto, modelVars, tableVars, managerVars,
        poolVars, listVars
  <2>2. ASSUME NEW m \in born' \ (dying' \cup registry'), down' # "done" PROVE InTheMaking(m)'
    BY <2>1, <2>2, ThreadSets, <1>i DEF InTheMaking
  <2> QED BY <2>2 DEF UnlistedInTheMaking
<1>2. ASSUME NEW t \in Threads, UnloadOperation(t) PROVE UnlistedInTheMaking'
  <2>1. /\ pc[t] = "unloadOperation"
        /\ UNCHANGED <<born, dying, loaded, registry, down, queue, at, kind, hold, handle,
                       session, kept>>
        /\ pc'[t] = "unload" /\ \A u \in Threads : u # t => pc'[u] = pc[u]
    BY <1>2, ThreadSets, ThreadTypes DEF UnloadOperation, Goto, modelVars, tableVars, managerVars,
        poolVars, listVars
  <2>2. ASSUME NEW m \in born' \ (dying' \cup registry'), down' # "done" PROVE InTheMaking(m)'
    BY <2>1, <2>2, ThreadSets, <1>i DEF InTheMaking
  <2> QED BY <2>2 DEF UnlistedInTheMaking
<1>3. ASSUME NEW t \in Threads, Unload(t) PROVE UnlistedInTheMaking'
  <2>1. /\ pc[t] = "unload" /\ UNCHANGED <<born, dying, registry, down, queue, kind, hold,
                                           handle, session, kept>>
        /\ loaded' = [loaded EXCEPT ![at[t]] = FALSE] /\ pc'[t] = back[t]
        /\ at'[t] \in {at[t], NoModel}
        /\ \A u \in Threads : u # t => pc'[u] = pc[u] /\ at'[u] = at[u]
    BY <1>3, ThreadSets, ThreadTypes DEF Unload, Resume, Enter, Goto, tableVars, managerVars,
        poolVars
  <2>2. ASSUME NEW m \in born' \ (dying' \cup registry'), down' # "done" PROVE InTheMaking(m)'
      <3>1. InTheMaking(m) /\ m \in Models /\ (loaded'[m] => loaded[m] /\ at[t] # m)
        BY <2>1, SetTypes, SharedTypes, <1>i, <2>2
      <3>2. back[t] # "publish"
        BY ThreadTypes DEF Returns
      <3> QED BY <3>1, <3>2, <2>1, ThreadSets, <1>h DEF InTheMaking
  <2> QED BY <2>2 DEF UnlistedInTheMaking
<1>4. ASSUME NEW t \in Threads, Drop(t) PROVE UnlistedInTheMaking'
  <2>1. /\ pc[t] = "drop" /\ UNCHANGED <<born, loaded, registry, down, queue, kind, hold,
                                         handle, session, kept>>
        /\ dying \subseteq dying' /\ pc'[t] \in {back[t], "unloadOga"}
        /\ at'[t] \in {at[t], NoModel}
        /\ \A u \in Threads : u # t => pc'[u] = pc[u] /\ at'[u] = at[u]
    BY <1>4, ThreadSets, ThreadTypes DEF Drop, Goto, Resume, Enter, lockVars, tableVars,
        managerVars, poolVars
  <2>2. ASSUME NEW m \in born' \ (dying' \cup registry'), down' # "done" PROVE InTheMaking(m)'
      <3>1. InTheMaking(m) /\ m \in Models
        BY <2>1, SetTypes, <1>i, <2>2
      <3>2. back[t] # "publish"
        BY ThreadTypes DEF Returns
      <3> QED BY <3>1, <3>2, <2>1, ThreadSets, <1>h DEF InTheMaking
  <2> QED BY <2>2 DEF UnlistedInTheMaking
<1>5. ASSUME NEW t \in Apps, Collect(t) PROVE UnlistedInTheMaking'
  BY <1>5, <1>a, ThreadSets, SetTypes, ThreadTypes, SharedTypes, <1>h DEF Collect, Goto,
      modelVars, tableVars, managerVars, poolVars, UnlistedInTheMaking, InTheMaking
<1>6. ASSUME NEW t \in Apps, UnloadNext(t) PROVE UnlistedInTheMaking'
  <2>1. /\ pc[t] = "unloading" /\ UNCHANGED <<born, dying, loaded, registry, down, queue, kind,
                                              hold, handle, session, kept>>
        /\ pc'[t] \in {"unloadOga", "dropping"} /\ at'[t] \in {at[t]} \cup todo[t]
        /\ \A u \in Threads : u # t => at'[u] = at[u] /\ pc'[u] = pc[u]
    BY <1>6, ThreadSets, ThreadTypes DEF UnloadNext, Goto, Enter, modelVars, lockVars,
        tableVars, managerVars, poolVars
  <2>2. ASSUME NEW m \in born' \ (dying' \cup registry'), down' # "done" PROVE InTheMaking(m)'
      <3>1. todo[t] \subseteq hold[t] /\ at[t] = NoModel
        BY <2>1, ThreadSets, <1>h DEF ThreadInv, Visiting, InUnload, Submitting, Handling,
            UnloadLabels, WorkerLabels
      <3> QED BY <3>1, <2>1, ThreadSets, SetTypes, <1>h, <1>i, <2>2 DEF InTheMaking
  <2> QED BY <2>2 DEF UnlistedInTheMaking
<1>7. ASSUME NEW t \in Apps, DropNext(t) PROVE UnlistedInTheMaking'
  <2>1. /\ pc[t] = "dropping" /\ UNCHANGED <<born, dying, loaded, registry, down, queue, kind,
                                             handle, session, kept>>
        /\ pc'[t] \in {"drop", after[t]}
        /\ at'[t] \in {at[t]} \cup hold[t] /\ hold'[t] \subseteq hold[t]
        /\ \A u \in Threads : u # t => at'[u] = at[u] /\ pc'[u] = pc[u] /\ hold'[u] = hold[u]
    BY <1>7, ThreadSets, ThreadTypes DEF DropNext, Goto, Let, Enter, modelVars, lockVars,
        tableVars, managerVars, poolVars
  <2>2. ASSUME NEW m \in born' \ (dying' \cup registry'), down' # "done" PROVE InTheMaking(m)'
      <3>1. at[t] = NoModel /\ after[t] # "publish" /\ t \in Threads
        BY <2>1, ThreadSets, ThreadTypes, <1>h DEF ThreadInv, Submitting, Handling, UnloadLabels,
            WorkerLabels
      <3>2. InTheMaking(m) /\ m # NoModel
        BY <2>1, SetTypes, <1>h, <1>i, <2>2
      <3>3. m \notin hold'[t] /\ at'[t] # m /\ at[t] # m /\ pc'[t] # "publish"
        BY <3>1, <3>2, <2>1 DEF InTheMaking
      <3> QED BY <3>1, <3>2, <3>3, <2>1, ThreadSets DEF InTheMaking
  <2> QED BY <2>2 DEF UnlistedInTheMaking
<1>8. ASSUME NEW t \in Apps, ReloadNext(t) PROVE UnlistedInTheMaking'
  <2>1. /\ UNCHANGED <<born, dying, loaded, registry, down, queue, hold, handle, session, kept>>
        /\ pc[t] = "reloading" /\ pc'[t] # "publish" /\ at'[t] \in {at[t]} \cup todo[t]
        /\ \A u \in Threads : u # t => at'[u] = at[u] /\ pc'[u] = pc[u] /\ kind'[u] = kind[u]
    BY <1>8, ThreadSets, ThreadTypes DEF ReloadNext, Goto, Enter, modelVars, tableVars,
        managerVars, poolVars
  <2>2. todo[t] \subseteq hold[t] /\ at[t] = NoModel
    BY <2>1, ThreadSets, <1>h DEF ThreadInv, Submitting, Visiting, InUnload, Handling, UnloadLabels,
        WorkerLabels
  <2>3. ASSUME NEW m \in born' \ (dying' \cup registry'), down' # "done" PROVE InTheMaking(m)'
      <3>1. InTheMaking(m) /\ m # NoModel
        BY <2>1, SetTypes, <1>h, <1>i, <2>3
      <3>2. at'[t] # m /\ at[t] # m
        BY <3>1, <2>1, <2>2, ThreadSets DEF InTheMaking
      <3>3. /\ \A u \in Threads : /\ m \notin hold[u]
                                  /\ at[u] = m => pc[u] # "publish"
            /\ m \notin handle \cup session \cup kept /\ \A i \in 1..Len(queue) : queue[i].model # m
        BY <3>1 DEF InTheMaking
      <3> QED BY <3>1, <3>2, <3>3, <2>1, MakingFrame
  <2> QED BY <2>3 DEF UnlistedInTheMaking
<1>9. ASSUME NEW t \in Apps, ShutdownDrain(t) PROVE UnlistedInTheMaking'
  <2>1. /\ UNCHANGED <<born, dying, loaded, registry, down, at, kind, handle, session>>
        /\ queue' = <<>> /\ pc'[t] # "publish"
        /\ \A u \in Threads : u # t => pc'[u] = pc[u] /\ hold'[u] = hold[u]
        /\ \A m \in hold'[t] : \/ \E i \in 1..Len(queue) : queue[i].model = m
                               \/ \E w \in Workers : kind[w] # "make" /\ at[w] = m
                               \/ m \in kept
        /\ \A m \in kept' : m \in kept \/ \E i \in 1..Len(queue) : queue[i].model = m
    BY <1>9, ThreadSets, ThreadTypes DEF ShutdownDrain, Goto, modelVars, managerVars
  <2>2. ASSUME NEW m \in born' \ (dying' \cup registry'), down' # "done" PROVE InTheMaking(m)'
      <3>1. InTheMaking(m)
        BY <2>1, <1>i, <2>2
      <3>2. /\ \A u \in Threads : /\ m \notin hold[u]
                                  /\ at[u] = m => /\ u \in Workers
                                                  /\ kind[u] = "make" /\ pc[u] # "publish"
            /\ m \notin handle \cup session \cup kept /\ \A i \in 1..Len(queue) : queue[i].model # m
        BY <3>1 DEF InTheMaking
      <3>3. m \notin hold'[t] /\ m \notin kept' /\ at[t] # m
        BY <3>2, <2>1, ThreadSets, LifecycleAssumption
      <3> QED BY <3>1, <3>2, <3>3, <2>1, MakingFrame
  <2> QED BY <2>2 DEF UnlistedInTheMaking
<1>10. ASSUME NEW t \in Apps, ShutdownJoin(t) PROVE UnlistedInTheMaking'
  BY <1>10, <1>a, ThreadSets, SetTypes, ThreadTypes, SharedTypes, <1>h DEF ShutdownJoin, Goto,
      modelVars, lockVars, tableVars, managerVars, poolVars, UnlistedInTheMaking, InTheMaking
<1>11. ASSUME NEW t \in Apps, ShutdownUnloads(t) PROVE UnlistedInTheMaking'
  <2>1. /\ pc[t] = "shutdownUnloads" /\ UNCHANGED <<born, dying, loaded, registry, down, queue,
                                                    kind, at, hold, handle, session, kept>>
        /\ pc' = [pc EXCEPT ![t] = "collect"]
    BY <1>11 DEF ShutdownUnloads, Goto, modelVars, lockVars, tableVars, managerVars, poolVars
  <2>2. ASSUME NEW m \in born' \ (dying' \cup registry'), down' # "done" PROVE InTheMaking(m)'
    BY <2>1, ThreadSets, ThreadTypes, <1>i, <2>2 DEF InTheMaking
  <2> QED BY <2>2 DEF UnlistedInTheMaking
<1>12. ASSUME NEW t \in Apps, ShutdownClears(t) PROVE UnlistedInTheMaking'
  BY <1>12, <1>a, ThreadSets, SetTypes, ThreadTypes, SharedTypes, <1>h DEF ShutdownClears, Goto,
      modelVars, lockVars, tableVars, poolVars, listVars, UnlistedInTheMaking, InTheMaking
<1>13. ASSUME NEW t \in Apps, NEW k \in JobKinds \ {"reload"}, NEW m \in Models \cup {NoModel},
              Submit(t, k, m)
       PROVE  UnlistedInTheMaking'
  BY <1>13, <1>a, ThreadSets, SetTypes, ThreadTypes, SharedTypes, <1>h DEF Submit, Enter, Goto,
      modelVars, lockVars, tableVars, managerVars, UnlistedInTheMaking, InTheMaking
<1>14. ASSUME NEW t \in Apps, NEW m \in Models, SessionCreate(t, m) PROVE UnlistedInTheMaking'
  BY <1>14, <1>a, ThreadSets, SetTypes, ThreadTypes, SharedTypes, <1>h DEF SessionCreate,
      modelVars, lockVars, managerVars, poolVars, listVars, UnlistedInTheMaking, InTheMaking
<1>15. ASSUME NEW t \in Apps, NEW m \in Models, ReleaseHandle(t, m) PROVE UnlistedInTheMaking'
  <2>1. /\ pc[t] = "idle" /\ m \in handle \cup session \cup kept
        /\ UNCHANGED <<born, dying, loaded, registry, down, queue, kind, hold>>
        /\ handle' \subseteq handle /\ session' \subseteq session /\ kept' \subseteq kept
        /\ pc' = [pc EXCEPT ![t] = "drop"] /\ at' = [at EXCEPT ![t] = m]
    BY <1>15 DEF ReleaseHandle, Let, Enter, Goto, modelVars, lockVars, managerVars, poolVars
  <2>2. ASSUME NEW n \in born' \ (dying' \cup registry'), down' # "done" PROVE InTheMaking(n)'
      <3>1. InTheMaking(n) /\ t \in Threads
        BY <2>1, ThreadSets, <1>i, <2>2
      <3>2. n # m
        BY <3>1, <2>1 DEF InTheMaking
      <3>3. /\ pc'[t] = "drop" /\ at'[t] = m
            /\ \A u \in Threads : u # t => pc'[u] = pc[u] /\ at'[u] = at[u]
        BY <3>1, <2>1, ThreadTypes
      <3> QED BY <3>1, <3>2, <3>3, <2>1, ThreadSets DEF InTheMaking
  <2> QED BY <2>2 DEF UnlistedInTheMaking
<1>16. ASSUME NEW t \in Apps, UpdateSettings(t) PROVE UnlistedInTheMaking'
  BY <1>16, <1>a, ThreadSets, SetTypes, ThreadTypes, SharedTypes, <1>h DEF UpdateSettings,
      modelVars, lockVars, tableVars, poolVars, listVars, UnlistedInTheMaking, InTheMaking
<1>17. ASSUME NEW t \in Apps, NEW event \in {"MEMORY_CRITICAL", "BACKGROUND"},
              NotifyUnloads(t, event)
       PROVE  UnlistedInTheMaking'
  BY <1>17, <1>a, ThreadSets, SetTypes, ThreadTypes, SharedTypes, <1>h DEF NotifyUnloads, Goto,
      modelVars, lockVars, tableVars, managerVars, poolVars, UnlistedInTheMaking, InTheMaking
<1>18. ASSUME NEW t \in Apps, NotifyForeground(t) PROVE UnlistedInTheMaking'
  <2>1. /\ pc[t] = "idle" /\ UNCHANGED <<born, dying, loaded, registry, down, at, queue, kind,
                                         handle, session, kept>>
        /\ pc' = [pc EXCEPT ![t] = "reloading"] /\ hold'[t] \subseteq autoUnloaded
        /\ \A u \in Threads : u # t => hold'[u] = hold[u]
    BY <1>18, ThreadSets, ThreadTypes DEF NotifyForeground, Goto, modelVars, lockVars,
        tableVars, poolVars
  <2>2. ASSUME NEW m \in born' \ (dying' \cup registry'), down' # "done" PROVE InTheMaking(m)'
      <3>1. hold'[t] \subseteq registry \cup dying
        BY <2>1 DEF Inv, RegistryInv, EvictedKnown
      <3>2. InTheMaking(m) /\ m \notin hold'[t] /\ t \in Threads
        BY <3>1, <2>1, ThreadSets, <1>i, <2>2
      <3>3. pc'[t] = "reloading" /\ \A u \in Threads : u # t => pc'[u] = pc[u]
        BY <2>1, ThreadTypes, <3>2
      <3> QED BY <3>2, <3>3, <2>1 DEF InTheMaking
  <2> QED BY <2>2 DEF UnlistedInTheMaking
<1>19. ASSUME NEW t \in Apps, ShutdownBegin(t) PROVE UnlistedInTheMaking'
  BY <1>19, <1>a, ThreadSets, SetTypes, ThreadTypes, SharedTypes, <1>h DEF ShutdownBegin, Goto,
      modelVars, lockVars, tableVars, poolVars, listVars, UnlistedInTheMaking, InTheMaking
<1>20. ASSUME NEW w \in Workers, WorkerPop(w) PROVE UnlistedInTheMaking'
  <2>1. /\ pc[w] = "poll" /\ queue # <<>> /\ queue' = Tail(queue)
        /\ UNCHANGED <<born, dying, loaded, registry, down, hold, handle, session, kept>>
        /\ at' = [at EXCEPT ![w] = Head(queue).model]
        /\ kind' = [kind EXCEPT ![w] = Head(queue).kind]
        /\ pc' = [pc EXCEPT ![w] = JobBegins(Head(queue).kind)]
    BY <1>20 DEF WorkerPop, Enter, Goto, modelVars, lockVars, tableVars, managerVars
  <2>2. ASSUME NEW m \in born' \ (dying' \cup registry'), down' # "done" PROVE InTheMaking(m)'
      <3>1. InTheMaking(m)
        BY <2>1, <1>i, <2>2
      <3>2. 1 \in 1..Len(queue) /\ Head(queue) = queue[1]
        BY <2>1, SharedTypes, TailIndex
      <3>3. \A i \in 1..Len(queue') : i + 1 \in 1..Len(queue) /\ queue'[i] = queue[i + 1]
        BY <2>1, SharedTypes, TailIndex
      <3>4. \A i \in 1..Len(queue') : queue'[i].model = m => queue'[i].kind = "make"
        BY <3>1, <3>3 DEF InTheMaking
      <3>5. Head(queue).model = m => Head(queue).kind = "make"
        BY <3>1, <3>2 DEF InTheMaking
      <3>6. at[w] = NoModel
        BY <2>1, ThreadSets, <1>h DEF ThreadInv, Submitting, Handling, UnloadLabels, WorkerLabels
      <3>7. /\ at'[w] = m => kind'[w] = "make"
            /\ pc'[w] # "publish" /\ m # NoModel
        BY <3>5, <2>1, ThreadSets, SetTypes, ThreadTypes, <1>h DEF JobBegins
      <3>8. \A u \in Threads : u # w => /\ at'[u] = at[u] /\ pc'[u] = pc[u]
                                            /\ (u \in Workers => kind'[u] = kind[u])
        BY <2>1, ThreadSets, ThreadTypes
      <3> QED BY <3>1, <3>4, <3>6, <3>7, <3>8, <2>1, ThreadSets DEF InTheMaking
  <2> QED BY <2>2 DEF UnlistedInTheMaking
<1>21. ASSUME NEW w \in Workers, WorkerExit(w) PROVE UnlistedInTheMaking'
  BY <1>21, <1>a, ThreadSets, SetTypes, ThreadTypes, SharedTypes, <1>h DEF WorkerExit, Goto,
      modelVars, lockVars, tableVars, managerVars, poolVars, listVars, UnlistedInTheMaking,
      InTheMaking
<1>22. ASSUME NEW w \in Workers, JobEnd(w) PROVE UnlistedInTheMaking'
  <2>1. /\ pc[w] = "jobEnd" /\ UNCHANGED <<born, dying, loaded, registry, down, queue, hold,
                                           handle, session>>
        /\ kept' = kept \/ (kind[w] # "make" /\ kept' = kept \cup {at[w]})
        /\ pc' = [pc EXCEPT ![w] = "drop"] /\ kind' = [kind EXCEPT ![w] = "make"]
        /\ at' = at
    BY <1>22, ThreadTypes, ThreadSets DEF JobEnd, Let, Enter, Goto, modelVars, lockVars,
        managerVars, poolVars
  <2>2. ASSUME NEW m \in born' \ (dying' \cup registry'), down' # "done" PROVE InTheMaking(m)'
      <3>1. InTheMaking(m) /\ w \in Threads
        BY <2>1, ThreadSets, <1>i, <2>2
      <3>2. m \notin kept'
        BY <3>1, <2>1 DEF InTheMaking
      <3>3. pc'[w] = "drop" /\ kind'[w] = "make" /\ \A u \in Threads : u # w => pc'[u] = pc[u]
        BY <3>1, <2>1, ThreadTypes
      <3>4. \A u \in Workers : u # w => kind'[u] = kind[u]
        BY <2>1, ThreadTypes
      <3> QED BY <3>1, <3>2, <3>3, <3>4, <2>1 DEF InTheMaking
  <2> QED BY <2>2 DEF UnlistedInTheMaking
<1>23. ASSUME NEW w \in Workers, LoadCheck(w) PROVE UnlistedInTheMaking'
  BY <1>23, <1>a, ThreadSets, SetTypes, ThreadTypes, SharedTypes, <1>h DEF LoadCheck, Goto,
      modelVars, lockVars, tableVars, managerVars, poolVars, listVars, UnlistedInTheMaking,
      InTheMaking
<1>24. ASSUME NEW w \in Workers, LoadOga(w) PROVE UnlistedInTheMaking'
  BY <1>24, <1>a, ThreadSets, SetTypes, ThreadTypes, SharedTypes, <1>h DEF LoadOga, Goto,
      modelVars, tableVars, managerVars, poolVars, listVars, UnlistedInTheMaking, InTheMaking
<1>25. ASSUME NEW w \in Workers, LoadOperation(w) PROVE UnlistedInTheMaking'
  BY <1>25, <1>a, ThreadSets, SetTypes, ThreadTypes, SharedTypes, <1>h DEF LoadOperation, Goto,
      modelVars, tableVars, managerVars, poolVars, listVars, UnlistedInTheMaking, InTheMaking
<1>26. ASSUME NEW w \in Workers, LoadFails(w) PROVE UnlistedInTheMaking'
  BY <1>26, <1>a, ThreadSets, SetTypes, ThreadTypes, SharedTypes, <1>h DEF LoadFails, Goto,
      modelVars, tableVars, managerVars, poolVars, listVars, UnlistedInTheMaking, InTheMaking
<1>27. ASSUME NEW w \in Workers, LoadSucceeds(w) PROVE UnlistedInTheMaking'
  BY <1>27, <1>a, ThreadSets, SetTypes, ThreadTypes, SharedTypes, <1>h DEF LoadSucceeds, Goto,
      lockVars, tableVars, managerVars, poolVars, listVars, UnlistedInTheMaking, InTheMaking
<1>28. ASSUME NEW w \in Workers, LoadReturns(w) PROVE UnlistedInTheMaking'
  <2>1. /\ pc[w] = "loaded" /\ UNCHANGED <<born, dying, loaded, registry, down, queue, kind,
                                           at, hold, handle, session, kept>>
        /\ pc' = [pc EXCEPT ![w] = IF kind[w] = "make" THEN "register" ELSE "jobEnd"]
    BY <1>28 DEF LoadReturns, Goto, modelVars, tableVars, managerVars, poolVars, listVars
  <2>2. ASSUME NEW m \in born' \ (dying' \cup registry'), down' # "done" PROVE InTheMaking(m)'
      <3>1. InTheMaking(m) /\ w \in Threads /\ \A u \in Threads : u # w => pc'[u] = pc[u]
        BY <2>1, ThreadSets, ThreadTypes, <1>i, <2>2
      <3>2. at[w] = m => pc'[w] = "register"
        BY <3>1, <2>1, ThreadSets, ThreadTypes DEF InTheMaking
      <3>3. pc'[w] # "publish"
        BY <2>1, ThreadSets, ThreadTypes
      <3> QED BY <3>1, <3>2, <3>3, <2>1, ThreadSets DEF InTheMaking
  <2> QED BY <2>2 DEF UnlistedInTheMaking
<1>29. ASSUME NEW w \in Workers, MakeRegisters(w) PROVE UnlistedInTheMaking'
  <2>1. /\ pc[w] = "register" /\ UNCHANGED <<born, dying, loaded, down, queue, kind, at, hold,
                                             handle, session, kept>>
        /\ registry' = {n \in registry : Lockable(n)} \cup {at[w]}
        /\ pc' = [pc EXCEPT ![w] = "publish"]
    BY <1>29 DEF MakeRegisters, Goto, modelVars, lockVars, tableVars, poolVars, listVars
  <2>2. ASSUME NEW m \in born' \ (dying' \cup registry'), down' # "done" PROVE InTheMaking(m)'
      <3>1. InTheMaking(m) /\ at[w] # m /\ \A u \in Threads : u # w => pc'[u] = pc[u]
        BY <2>1, ThreadTypes, <1>h, <1>i, <2>2
      <3> QED BY <3>1, <2>1, ThreadSets DEF InTheMaking
  <2> QED BY <2>2 DEF UnlistedInTheMaking
<1>30. ASSUME NEW w \in Workers, MakePublishes(w) PROVE UnlistedInTheMaking'
  <2>1. /\ pc[w] = "publish" /\ UNCHANGED <<born, dying, loaded, registry, down, queue, kind,
                                            at, hold, session, kept>>
        /\ handle' = handle \cup {at[w]}
        /\ pc' = [pc EXCEPT ![w] = "jobEnd"]
    BY <1>30 DEF MakePublishes, Goto, modelVars, lockVars, managerVars, poolVars, listVars
  <2>2. ASSUME NEW m \in born' \ (dying' \cup registry'), down' # "done" PROVE InTheMaking(m)'
      <3>1. InTheMaking(m) /\ w \in Threads /\ \A u \in Threads : u # w => pc'[u] = pc[u]
        BY <2>1, ThreadSets, ThreadTypes, <1>i, <2>2
      <3>2. at[w] # m
        BY <3>1, <2>1, ThreadSets DEF InTheMaking
      <3> QED BY <3>1, <3>2, <2>1, ThreadSets DEF InTheMaking
  <2> QED BY <2>2 DEF UnlistedInTheMaking
<1>31. ASSUME NEW w \in Workers, InferRequest(w) PROVE UnlistedInTheMaking'
  BY <1>31, <1>a, ThreadSets, SetTypes, ThreadTypes, SharedTypes, <1>h DEF InferRequest, Goto,
      modelVars, tableVars, managerVars, poolVars, listVars, UnlistedInTheMaking, InTheMaking
<1>32. ASSUME NEW w \in Workers, InferOga(w) PROVE UnlistedInTheMaking'
  BY <1>32, <1>a, ThreadSets, SetTypes, ThreadTypes, SharedTypes, <1>h DEF InferOga, Goto,
      modelVars, tableVars, managerVars, poolVars, listVars, UnlistedInTheMaking, InTheMaking
<1>33. ASSUME NEW w \in Workers, InferOperation(w) PROVE UnlistedInTheMaking'
  BY <1>33, <1>a, ThreadSets, SetTypes, ThreadTypes, SharedTypes, <1>h DEF InferOperation, Goto,
      modelVars, tableVars, managerVars, poolVars, listVars, UnlistedInTheMaking, InTheMaking
<1>34. ASSUME NEW w \in Workers, InferEnds(w) PROVE UnlistedInTheMaking'
  BY <1>34, <1>a, ThreadSets, SetTypes, ThreadTypes, SharedTypes, <1>h DEF InferEnds, Goto,
      modelVars, tableVars, managerVars, poolVars, listVars, UnlistedInTheMaking, InTheMaking
<1>35. CASE UNCHANGED vars
  BY <1>35, <1>a, ThreadSets, SetTypes, ThreadTypes, SharedTypes, <1>h DEF vars, modelVars,
      lockVars, tableVars, managerVars, poolVars, listVars, UnlistedInTheMaking, InTheMaking
<1>36. ASSUME NEW t \in Apps, SubmitAccepted(t) PROVE UnlistedInTheMaking'
  BY <1>36, <1>a, ThreadSets, SetTypes, ThreadTypes, SharedTypes, <1>h DEF SubmitAccepted, Goto,
      modelVars, lockVars, tableVars, managerVars, poolVars, listVars, UnlistedInTheMaking,
      InTheMaking
<1>37. ASSUME NEW t \in Apps, SubmitRefused(t) PROVE UnlistedInTheMaking'
  BY <1>37, <1>a, ThreadSets, SetTypes, ThreadTypes, SharedTypes, <1>h DEF SubmitRefused,
      LetJob, Let, Enter, Goto, modelVars, lockVars, managerVars, poolVars, UnlistedInTheMaking,
      InTheMaking
<1>38. ASSUME NEW t \in Apps, SubmitPush(t) PROVE UnlistedInTheMaking'
  <2> DEFINE job == [kind |-> kind[t], model |-> at[t]]
  <2>1. /\ UNCHANGED <<born, dying, loaded, registry, down, hold, handle, session, kept>>
        /\ queue' = Append(queue, job) /\ Submitting(t) /\ \A u \in Threads : at'[u] = at[u]
        /\ \A u \in Threads : u # t => pc'[u] = pc[u] /\ kind'[u] = kind[u]
    BY <1>38, ThreadSets, ThreadTypes DEF SubmitPush, LetJob, Let, Enter, Goto, modelVars,
        tableVars, managerVars, Submitting
  <2>2. job \in Jobs /\ job.model = at[t]
    BY <2>1, ThreadSets, PushedType
  <2> HIDE DEF job
  <2>3. \A i \in 1..Len(queue') : \/ i \in 1..Len(queue) /\ queue'[i] = queue[i]
                                  \/ queue'[i] = job
    BY <2>1, <2>2, SharedTypes, AppendIndex
  <2>4. ASSUME NEW m \in born' \ (dying' \cup registry'), down' # "done" PROVE InTheMaking(m)'
      <3>1. InTheMaking(m)
        BY <2>1, <1>i, <2>4
      <3>2. /\ \A u \in Threads : /\ m \notin hold[u]
                                  /\ at[u] = m => u \in Workers /\ pc[u] # "publish"
            /\ m \notin handle \cup session \cup kept /\ \A i \in 1..Len(queue) : queue[i].model # m
        BY <3>1 DEF InTheMaking
      <3>3. at[t] # m
        BY <3>2, ThreadSets, LifecycleAssumption
      <3>4. \A i \in 1..Len(queue') : queue'[i].model # m
        BY <2>2, <2>3, <3>2, <3>3
      <3> QED BY <3>1, <3>2, <3>3, <3>4, <2>1, MakingFrame
  <2> QED BY <2>4 DEF UnlistedInTheMaking
<1>39. ASSUME NEW t \in Apps, NEW m \in Models, Visit(t, m) PROVE UnlistedInTheMaking'
  <2>1. /\ UNCHANGED <<born, dying, loaded, down, queue, kind, handle, session, kept>>
        /\ pc[t] = "visiting" /\ pc'[t] # "publish" /\ at'[t] \in {at[t], m} /\ m \in todo[t]
        /\ hold'[t] \subseteq hold[t] \cup {m}
        /\ registry' = registry \/ (~Lockable(m) /\ registry' = registry \ {m})
        /\ \A u \in Threads : u # t => at'[u] = at[u] /\ pc'[u] = pc[u] /\ hold'[u] = hold[u]
    BY <1>39, ThreadSets, ThreadTypes DEF Visit, Let, Goto, Enter, modelVars, tableVars, poolVars
  <2>2. at[t] = NoModel /\ m \in registry \cup dying
    BY <2>1, ThreadSets, <1>h DEF ThreadInv, Submitting, Visiting, Handling, UnloadLabels,
        WorkerLabels
  <2>3. ASSUME NEW n \in born' \ (dying' \cup registry'), down' # "done" PROVE InTheMaking(n)'
      <3>1. n \notin registry /\ n # m
        BY <2>1, <2>2, <2>3, <1>h
      <3>2. InTheMaking(n) /\ n # NoModel
        BY <3>1, <2>1, SetTypes, <1>h, <1>i, <2>3
      <3>3. /\ \A u \in Threads : /\ n \notin hold[u]
                                  /\ at[u] = n => pc[u] # "publish"
            /\ n \notin handle \cup session \cup kept /\ \A i \in 1..Len(queue) : queue[i].model # n
        BY <3>2 DEF InTheMaking
      <3>4. n \notin hold'[t] /\ at'[t] # n /\ at[t] # n
        BY <3>1, <3>2, <3>3, <2>1, <2>2, ThreadSets
      <3> QED BY <3>2, <3>3, <3>4, <2>1, MakingFrame
  <2> QED BY <2>3 DEF UnlistedInTheMaking
<1>40. ASSUME NEW t \in Apps, Collected(t) PROVE UnlistedInTheMaking'
  BY <1>40, <1>a, ThreadSets, SetTypes, ThreadTypes, SharedTypes, <1>h DEF Collected, Goto,
      modelVars, tableVars, poolVars, UnlistedInTheMaking, InTheMaking
<1>41. ASSUME NEW t \in Apps, ShutdownFlag(t) PROVE UnlistedInTheMaking'
  <2>1. /\ UNCHANGED <<born, dying, loaded, registry, queue, kind, at, hold, handle, session, kept>>
        /\ pc[t] = "flag" /\ pc'[t] = "drain" /\ down = "manager"
        /\ \A u \in Threads : u # t => pc'[u] = pc[u]
    BY <1>41, ThreadSets, ThreadTypes DEF ShutdownFlag, Goto, modelVars, tableVars, poolVars,
        listVars, Inv, ShutdownInv
  <2>2. ASSUME NEW m \in born' \ (dying' \cup registry'), down' # "done" PROVE InTheMaking(m)'
      <3>1. InTheMaking(m)
        BY <2>1, <1>i, <2>2
      <3> QED BY <3>1, <2>1, ThreadSets DEF InTheMaking
  <2> QED BY <2>2 DEF UnlistedInTheMaking
<1>42. ASSUME NEW w \in Workers, MakeBegins(w) PROVE UnlistedInTheMaking'
  <2>1. /\ pc[w] = "poll" /\ queue # <<>> /\ queue' = Tail(queue)
        /\ UNCHANGED <<dying, loaded, registry, down, kind, hold, handle, session, kept>>
        /\ \A u \in Threads : u # w => pc'[u] = pc[u] /\ at'[u] = at[u]
        /\ \/ UNCHANGED <<born, at, pc>>
           \/ /\ at'[w] \in Models \ born /\ born' = born \cup {at'[w]} /\ pc'[w] = "loadCheck"
    BY <1>42, ThreadSets, ThreadTypes DEF MakeBegins, Enter, Goto, tableVars, managerVars
  <2>2. at[w] = NoModel /\ kind[w] = "make" /\ NoModel \notin born
    BY <2>1, ThreadSets, SetTypes, <1>h DEF ThreadInv, Submitting, Handling, UnloadLabels,
        WorkerLabels
  <2>3. \A i \in 1..Len(queue') : i + 1 \in 1..Len(queue) /\ queue'[i] = queue[i + 1]
    BY <2>1, SharedTypes, TailIndex
  <2>4. ASSUME NEW m \in born' \ (dying' \cup registry'), down' # "done" PROVE InTheMaking(m)'
      <3>1. CASE m \in born
        <4>1. InTheMaking(m) /\ m # NoModel
          BY <3>1, <2>1, <2>2, <1>i, <2>4
        <4>2. /\ \A u \in Threads : /\ m \notin hold[u]
                                    /\ at[u] = m => pc[u] # "publish"
              /\ m \notin handle \cup session \cup kept
              /\ \A i \in 1..Len(queue) : queue[i].model # m
          BY <4>1 DEF InTheMaking
        <4>3. at[w] # m /\ at'[w] # m
          BY <3>1, <4>1, <2>1, <2>2
        <4>4. \A i \in 1..Len(queue') : queue'[i].model # m
          BY <4>2, <2>3
        <4> QED BY <4>1, <4>2, <4>3, <4>4, <2>1, ThreadSets, MakingFrame
      <3>2. CASE m \notin born
        <4>1. m \in Models /\ m = at'[w] /\ pc'[w] = "loadCheck"
          BY <3>2, <2>1, <2>4
        <4>2. \A u \in Threads : m \notin hold[u] /\ at[u] # m
          BY <3>2, <4>1, <1>h DEF ThreadInv
        <4>3. m \notin handle \cup session \cup kept /\ ~loaded[m]
          BY <3>2, <4>1, SetTypes DEF Inv, RegistryInv, LoadedBorn
        <4>4. \A i \in 1..Len(queue) : queue[i].model # m
          BY <3>2, <4>1, <1>h, SharedTypes, JobTypes DEF Inv, QueueInv
        <4>5. \A i \in 1..Len(queue') : queue'[i].model # m
          BY <4>4, <2>3
        <4> QED BY <4>1, <4>2, <4>3, <4>5, <2>1, <2>2 DEF InTheMaking
      <3> QED BY <3>1, <3>2
  <2> QED BY <2>4 DEF UnlistedInTheMaking
<1> QED BY <1>1, <1>2, <1>3, <1>4, <1>5, <1>6, <1>7, <1>8, <1>9, <1>10, <1>11, <1>12, <1>13,
    <1>14, <1>15, <1>16, <1>17, <1>18, <1>19, <1>20, <1>21, <1>22, <1>23, <1>24, <1>25, <1>26,
    <1>27, <1>28, <1>29, <1>30, <1>31, <1>32, <1>33, <1>34, <1>35, <1>36, <1>37, <1>38, <1>39,
    <1>40, <1>41, <1>42, NextCases

\* What a thread owes is still accounted for after a step of another one that loads nothing the
\* thread owes and takes no living model off the manager's list.
LEMMA OwedFrame ==
  ASSUME NEW u \in Threads, OwedOK(u), Same(u),
         Owed(u)' \subseteq Owed(u), \A n \in due'[u] : loaded'[n], dying \subseteq dying',
         registry \subseteq registry' \cup dying' \/ Owed(u) \subseteq dying'
  PROVE  OwedOK(u)'
  BY DEF OwedOK, Visiting, InUnload, Same

\* Another thread's step: an unload settles the debt, a load is over once it could add to one,
\* and an entry leaves the manager's list when it has expired or the shutdown is over.
LEMMA OthersOwe ==
  ASSUME Inv, [Next]_vars, NEW t \in Threads, StepOf(t), NEW u \in Apps, u # t
  PROVE  OwedOK(u)'
<1> USE DEF RegistryInv
<1>1. /\ u \in Threads /\ OwedOK(u) /\ Same(u) /\ dying \subseteq dying'
      /\ \A n \in due[u] : n \in Models /\ loaded[n]
  BY ThreadSets, OthersStay, BornStay, ThreadTypes DEF Inv, OwedInv, OwedOK
<1>3. registry \subseteq registry' \cup dying \/ Owed(u) \subseteq dying
  <2>1. CASE ShutdownClears(t)
    <3>1. {m \in Models : loaded[m]} \subseteq dying
      BY <2>1 DEF ShutdownClears, Inv, OwedInv, OwedOK, Owed
    <3> QED BY <3>1, <1>1 DEF Owed
  <2> QED BY <2>1, RegistryMoves
<1>4. Owed(u)' \subseteq Owed(u) /\ \A n \in due'[u] : loaded'[n]
  <2>1. CASE Unload(t)
    <3>1. /\ loaded' = [loaded EXCEPT ![at[t]] = FALSE]
          /\ due'[u] = due[u] \ {at[t]}
      BY <2>1, <1>1 DEF Unload
    <3> QED BY <3>1, <1>1, SharedTypes DEF Owed, Same
  <2>2. CASE LoadSucceeds(t)
    <3>1. /\ loaded' = [loaded EXCEPT ![at[t]] = TRUE] /\ due'[u] = due[u]
          /\ pc[t] = "load"
      BY <2>2 DEF LoadSucceeds
    <3>2. ThreadInv(u) /\ ThreadInv(t)
      BY <1>1 DEF Inv
    <3>3. t \in Workers
      BY <3>1, <3>2 DEF ThreadInv, AppLabels, UnloadLabels
    <3>4. after[u] # "clear" /\ pc[u] # "clear"
      BY <3>1, <3>3, <1>1 DEF Inv, ShutdownInv, Past
    <3> QED BY <3>1, <3>4, <1>1, SharedTypes DEF Owed, Same
  <2>3. CASE ~Unload(t) /\ ~LoadSucceeds(t)
    <3>1. loaded' = loaded
      BY <2>3, LoadedMoves
    <3> QED BY <3>1, <1>1 DEF Owed, Same
  <2> QED BY <2>1, <2>2, <2>3
<1> QED BY <1>1, <1>3, <1>4, OwedFrame

\* The thread's own step: what it owes moves from the manager's list to its own, from there to
\* the unload in hand, and is settled or dying before the list goes out of scope.
LEMMA OwnOwed ==
  ASSUME Inv, [Next]_vars, NEW u \in Apps, StepOf(u)
  PROVE  OwedOK(u)'
<1> USE DEF RegistryInv
<1>a. /\ OwedOK(u) /\ ThreadInv(u) /\ u \in Threads /\ u \notin Workers
      /\ \A n \in due[u] : n \in Models /\ loaded[n]
  BY LifecycleAssumption, ThreadTypes DEF Inv, OwedInv, OwedOK, Threads
<1>b. ASSUME due'[u] = {}, after'[u] = "idle", pc'[u] # "clear" PROVE OwedOK(u)'
  BY <1>b DEF OwedOK, Owed
<1>c. pc[u] \notin {"collect", "visiting", "unloading", "dropping"} \cup UnloadLabels =>
        due[u] = {} /\ after[u] = "idle"
  BY <1>a DEF ThreadInv, Visiting, Listing, InUnload
<1>1. CASE UnloadOga(u) \/ UnloadOperation(u)
  <2>1. /\ UNCHANGED <<loaded, dying, due, todo, hold, at, back, after>>
        /\ {pc[u], pc'[u]} \subseteq UnloadLabels
    BY <1>1, <1>a, ThreadTypes DEF UnloadOga, UnloadOperation, Goto, modelVars, listVars,
        UnloadLabels
  <2> QED BY <2>1, <1>a DEF OwedOK, Owed, Visiting, InUnload, UnloadLabels
<1>2. CASE Unload(u)
  <2>1. /\ pc[u] = "unload" /\ pc'[u] = back[u] /\ UNCHANGED <<todo, hold, after, dying>>
        /\ loaded' = [loaded EXCEPT ![at[u]] = FALSE] /\ due'[u] = due[u] \ {at[u]}
    BY <1>2, <1>a, ThreadTypes DEF Unload, Resume, Enter, Goto
  <2>2. /\ at[u] \in Models
        /\ back[u] \in {"idle", "visiting", "unloading", "dropping", "reloading"}
    BY <2>1, <1>a, SetTypes DEF ThreadInv, Submitting, Handling, UnloadLabels, Returns
  <2>3. Owed(u)' \subseteq Owed(u) \ {at[u]} /\ \A n \in due'[u] : loaded'[n]
    BY <2>1, <2>2, SharedTypes, <1>a DEF Owed
  <2>4. /\ back[u] = "visiting" => Owed(u) \subseteq todo[u] \cup hold[u] \cup dying
        /\ back[u] = "unloading" => Owed(u) \subseteq todo[u] \cup {at[u]} \cup dying
        /\ back[u] = "dropping" => Owed(u) \subseteq dying
    BY <2>1, <1>a DEF OwedOK, Visiting, InUnload, UnloadLabels
  <2> QED BY <2>1, <2>2, <2>3, <2>4 DEF OwedOK, Visiting, InUnload, UnloadLabels
<1>3. CASE Drop(u)
  <2>1. /\ pc[u] = "drop" /\ UNCHANGED <<loaded, due, todo, hold, after>> /\ dying \subseteq dying'
        /\ \/ pc'[u] = "unloadOga" /\ UNCHANGED <<at, back>>
           \/ pc'[u] = back[u]
    BY <1>3, <1>a, ThreadTypes DEF Drop, Resume, Enter, Goto
  <2>2. back[u] \in {"idle", "visiting", "dropping", "reloading"}
    BY <2>1, <1>a DEF ThreadInv, UnloadLabels, Returns
  <2>3. Owed(u)' = Owed(u) /\ \A n \in due'[u] : loaded'[n]
    BY <2>1, <2>2, <1>a DEF Owed
  <2>4. /\ back[u] = "visiting" => Owed(u) \subseteq todo[u] \cup hold[u] \cup dying
        /\ back[u] = "dropping" => Owed(u) \subseteq dying
    BY <2>1, <1>a DEF OwedOK, Visiting, InUnload, UnloadLabels
  <2> QED BY <2>1, <2>2, <2>3, <2>4 DEF OwedOK, Visiting, InUnload, UnloadLabels
<1>4. CASE SubmitAccepted(u) \/ SubmitRefused(u) \/ SubmitPush(u)
  <2>1. /\ Submitting(u) /\ due' = due /\ after' = after
        /\ pc'[u] \in {"push", "idle", "dropping", "drop", back[u]}
    BY <1>4, <1>a, ThreadTypes DEF SubmitAccepted, SubmitRefused, SubmitPush, LetJob, Let,
        Enter, Goto, listVars, Submitting
  <2>2. back[u] # "clear"
    BY <1>a, ThreadTypes DEF Returns
  <2> QED BY <2>1, <2>2, <1>b, <1>c DEF Submitting, UnloadLabels
<1>5. CASE Collect(u)
  <2>1. /\ pc[u] = "collect" /\ pc'[u] = "visiting" /\ todo'[u] = registry
        /\ UNCHANGED <<loaded, dying, hold, after, due>>
    BY <1>5, <1>a, ThreadTypes DEF Collect, Goto, modelVars
  <2> QED BY <2>1, <1>a DEF OwedOK, Owed, Visiting, InUnload, UnloadLabels
<1>6. ASSUME NEW m \in Models, Visit(u, m) PROVE OwedOK(u)'
  <2>1. /\ pc[u] = "visiting" /\ m \in todo[u] /\ todo'[u] = todo[u] \ {m}
        /\ UNCHANGED <<loaded, dying, after, due>> /\ hold[u] \subseteq hold'[u]
        /\ \/ pc'[u] = "visiting"
           \/ pc'[u] = "drop" /\ back'[u] = "visiting"
        /\ \/ ~Lockable(m)
           \/ m \in hold'[u]
           \/ ~loaded[m]
    BY <1>6, <1>a, ThreadTypes DEF Visit, Let, Enter, Goto, modelVars
  <2>2. m \in registry \cup dying /\ (m \in registry \ dying => Lockable(m))
    BY <2>1, <1>a, SetTypes DEF ThreadInv, Visiting, Inv, LiveReferenced, Lockable
  <2>3. Owed(u)' = Owed(u) /\ (m \in Owed(u) => loaded[m])
    BY <2>1, <1>a DEF Owed
  <2>4. Owed(u) \subseteq todo[u] \cup hold[u] \cup dying
    BY <2>1, <1>a DEF OwedOK, Visiting
  <2>5. Owed(u) \subseteq todo'[u] \cup hold'[u] \cup dying'
    BY <2>1, <2>2, <2>3, <2>4
  <2> QED BY <2>1, <2>3, <2>5, <1>a DEF OwedOK, Visiting, InUnload, UnloadLabels
<1>7. CASE Collected(u)
  <2>1. /\ pc[u] = "visiting" /\ todo[u] = {} /\ pc'[u] = "unloading" /\ todo'[u] = hold[u]
        /\ UNCHANGED <<loaded, dying, hold, after, due>>
    BY <1>7, <1>a, ThreadTypes DEF Collected, Goto, modelVars
  <2> QED BY <2>1, <1>a DEF OwedOK, Owed, Visiting, InUnload, UnloadLabels
<1>8. CASE UnloadNext(u)
  <2>1. /\ pc[u] = "unloading" /\ UNCHANGED <<loaded, dying, hold, after, due>>
        /\ \/ \E m \in todo[u] : /\ todo'[u] = todo[u] \ {m} /\ at'[u] = m
                                 /\ pc'[u] = "unloadOga" /\ back'[u] = "unloading"
           \/ todo[u] = {} /\ pc'[u] = "dropping"
    BY <1>8, <1>a, ThreadTypes DEF UnloadNext, Enter, Goto, modelVars
  <2>2. Owed(u)' = Owed(u) /\ Owed(u) \subseteq todo[u] \cup dying
    BY <2>1, <1>a DEF OwedOK, Owed
  <2> QED BY <2>1, <2>2, <1>a DEF OwedOK, Visiting, InUnload, UnloadLabels
<1>9. CASE DropNext(u)
  <2>1. /\ pc[u] = "dropping" /\ UNCHANGED <<loaded, dying>>
        /\ \/ /\ pc'[u] = "drop" /\ back'[u] = "dropping" /\ UNCHANGED <<due, after>>
           \/ /\ pc'[u] = after[u] /\ after'[u] = "idle" /\ due'[u] = {}
              /\ after[u] \in {"idle", "shutdownUnloads", "clear"}
    BY <1>9, <1>a, ThreadTypes DEF DropNext, Let, Enter, Goto, modelVars
  <2>2. Owed(u) \subseteq dying
    BY <2>1, <1>a DEF OwedOK
  <2> QED BY <2>1, <2>2, <1>a DEF OwedOK, Owed, Visiting, InUnload, UnloadLabels
<1>10. CASE \/ ReloadNext(u) \/ NotifyForeground(u) \/ UpdateSettings(u)
            \/ \E k \in JobKinds \ {"reload"}, m \in Models \cup {NoModel} : Submit(u, k, m)
            \/ \E m \in Models : SessionCreate(u, m) \/ ReleaseHandle(u, m)
  <2>1. /\ pc[u] \in {"reloading", "idle"} /\ due' = due /\ after'[u] \in {after[u], "idle"}
        /\ pc'[u] \in {pc[u], "checked", "dropping", "reloading", "drop"}
    BY <1>10, <1>a, ThreadTypes DEF ReloadNext, NotifyForeground, UpdateSettings, Submit,
        SessionCreate, ReleaseHandle, Let, Enter, Goto, listVars
  <2> QED BY <2>1, <1>b, <1>c DEF UnloadLabels
<1>11. CASE \/ ShutdownBegin(u) \/ ShutdownFlag(u) \/ ShutdownDrain(u) \/ ShutdownClears(u)
  <2>1. /\ pc[u] \in {"idle", "flag", "drain", "clear"} /\ due' = due /\ after' = after
        /\ pc'[u] \in {"flag", "drain", "join", "idle"}
    BY <1>11, <1>a, ThreadTypes DEF ShutdownBegin, ShutdownFlag, ShutdownDrain,
        ShutdownClears, Goto, listVars
  <2> QED BY <2>1, <1>b, <1>c DEF UnloadLabels
<1>12. CASE ShutdownJoin(u)
  <2>1. /\ pc[u] = "join" /\ due' = due /\ after'[u] = "shutdownUnloads" /\ pc'[u] = "dropping"
    BY <1>12, <1>a, ThreadTypes DEF ShutdownJoin, Goto
  <2> QED BY <2>1, <1>c DEF OwedOK, Owed, UnloadLabels
<1>13. CASE ShutdownUnloads(u)
  <2>1. /\ pc[u] = "shutdownUnloads" /\ UNCHANGED <<loaded, dying, registry, due>>
        /\ after'[u] = "clear" /\ pc'[u] = "collect"
    BY <1>13, <1>a, ThreadTypes DEF ShutdownUnloads, Goto, modelVars, managerVars
  <2>2. down = "pool" /\ \A w \in Workers : pc[w] = "exited"
    BY <2>1, <1>a DEF Inv, ShutdownInv, Past
  <2>3. \A m \in Models : loaded[m] => m \in registry \cup dying
    BY <2>2 DEF Inv, LoadedBorn, UnlistedInTheMaking, InTheMaking
  <2> QED BY <2>1, <2>3, <1>c DEF OwedOK, Owed, Visiting, InUnload, UnloadLabels
<1>14. ASSUME NEW event \in {"MEMORY_CRITICAL", "BACKGROUND"}, NotifyUnloads(u, event)
       PROVE  OwedOK(u)'
  <2>1. /\ pc'[u] = "collect" /\ after'[u] = "idle" /\ due'[u] = {m \in registry : loaded[m]}
        /\ UNCHANGED <<loaded, dying, registry>>
    BY <1>14, <1>a, ThreadTypes DEF NotifyUnloads, Goto, modelVars, managerVars
  <2> QED BY <2>1 DEF OwedOK, Owed, Visiting, InUnload, UnloadLabels
<1> QED BY <1>a, <1>1, <1>2, <1>3, <1>4, <1>5, <1>6, <1>7, <1>8, <1>9, <1>10, <1>11, <1>12,
    <1>13, <1>14 DEF StepOf, AppStep, AppCall, UnloadStep

\* What an application thread owes stays on its list until it is unloaded or dying.
LEMMA NextOwedApp ==
  ASSUME Inv, [Next]_vars, NEW u \in Apps
  PROVE  OwedOK(u)'
<1>1. CASE UNCHANGED vars
  BY <1>1, ThreadSets DEF vars, modelVars, managerVars, listVars, Inv, OwedInv, OwedOK, Owed,
      Visiting, InUnload
<1>2. CASE Next
  <2>1. PICK t \in Threads : StepOf(t)
    BY <1>2, ThreadSets DEF Next, StepOf
  <2> QED BY <2>1, OthersOwe, OwnOwed
<1> QED BY <1>1, <1>2

\* Workers owe nothing.
LEMMA NextOwedInv == Inv /\ [Next]_vars => OwedInv'
<1> SUFFICES ASSUME Inv, [Next]_vars PROVE OwedInv'
  OBVIOUS
<1>1. ASSUME NEW w \in Workers PROVE OwedOK(w)'
  <2>1. ThreadInv(w)'
    BY NextThreadInv DEF Threads
  <2>2. w \notin Apps
    BY LifecycleAssumption
  <2> QED BY <2>1 DEF ThreadInv, OwedOK, Listing, Visiting, Reloading, Submitting, InUnload,
      UnloadLabels, WorkerLabels
<1> QED BY <1>1, NextOwedApp DEF OwedInv, Threads

\* live_objects_ moves with the set of loaded models.
LEMMA NextCounted == Inv /\ [Next]_vars => Counted'
<1> SUFFICES ASSUME Inv, [Next]_vars PROVE Counted'
  OBVIOUS
<1> DEFINE Loaded == {m \in Models : loaded[m]}
<1>1. IsFiniteSet(Loaded) /\ liveObjects = Cardinality(Loaded)
  BY DEF Inv, Counted
<1>2. ASSUME NEW t \in Threads, Unload(t) PROVE Counted'
  <2>1. /\ loaded' = [loaded EXCEPT ![at[t]] = FALSE]
        /\ liveObjects' = IF loaded[at[t]] THEN liveObjects - 1 ELSE liveObjects
        /\ pc[t] = "unload"
    BY <1>2 DEF Unload
  <2>2. at[t] \in Models
    BY <2>1, SetTypes DEF Inv, ThreadInv, Handling, UnloadLabels
  <2>3. {m \in Models : loaded'[m]} = Loaded \ {at[t]}
    BY <2>1, <2>2, SharedTypes
  <2>4. IsFiniteSet(Loaded \ {at[t]}) /\ Cardinality(Loaded \ {at[t]}) = liveObjects'
    BY <2>1, <2>2, <1>1, FS_RemoveElement
  <2> QED BY <2>3, <2>4 DEF Counted
<1>3. ASSUME NEW t \in Threads, LoadSucceeds(t) PROVE Counted'
  <2>1. /\ loaded' = [loaded EXCEPT ![at[t]] = TRUE]
        /\ liveObjects' = IF loaded[at[t]] THEN liveObjects ELSE liveObjects + 1
        /\ pc[t] = "load"
    BY <1>3 DEF LoadSucceeds
  <2>2. at[t] \in Models
    BY <2>1, SetTypes DEF Inv, ThreadInv, Handling, WorkerLabels
  <2>3. {m \in Models : loaded'[m]} = Loaded \cup {at[t]}
    BY <2>1, <2>2, SharedTypes
  <2>4. IsFiniteSet(Loaded \cup {at[t]}) /\ Cardinality(Loaded \cup {at[t]}) = liveObjects'
    BY <2>1, <2>2, <1>1, FS_AddElement
  <2> QED BY <2>3, <2>4 DEF Counted
<1>4. ASSUME UNCHANGED <<loaded, liveObjects>> PROVE Counted'
  BY <1>1, <1>4 DEF Counted
<1>5. CASE UNCHANGED vars
  BY <1>4, <1>5 DEF vars, modelVars
<1>6. CASE Next
  <2>1. PICK t \in Threads : StepOf(t)
    BY <1>6, ThreadSets DEF Next, StepOf
  <2> QED BY <2>1, <1>2, <1>3, <1>4, LoadedMoves
<1> QED BY <1>5, <1>6

-----------------------------------------------------------------------------
\* Every step keeps the inductive invariant.
LEMMA NextInv == Inv /\ [Next]_vars => Inv'
  BY NextTypeOK, NextThreadInv, NextLockInv, NextListingInv, NextDyingInv, NextQueueInv,
      NextEvictedKnown,
      NextLoadedBorn, NextLiveReferenced, NextUnlistedInTheMaking, NextShutdownInv,
      NextOwedInv, NextCounted, NextLeaseProtects, NextNothingLoaded DEF Inv, RegistryInv

\* The inductive invariant of model memory: the places of the threads, the locks, the
\* references, the lists of the manager and the runtime's count fit together in every state.
THEOREM InvariantHolds == Spec => []Inv
  BY InitInv, NextInv, PTL DEF Spec

\* A model whose inference lease is held stays loaded and is not destroyed, whatever event,
\* unload job or release comes in between (manager.cc, model.cc, session.cc).
THEOREM LeaseHolds == Spec => []LeaseProtects
<1>1. Inv => LeaseProtects
  BY DEF Inv
<1> QED BY <1>1, InvariantHolds, PTL

\* No two threads are inside OGA at once, on whatever models: they all hold the runtime's
\* operation lock (runtime.h).
THEOREM OperationsExclude == Spec => []OneOperation
<1>1. Inv => OneOperation
  BY DEF Inv, LockInv, OperationHeld, OneOperation
<1> QED BY <1>1, InvariantHolds, PTL

\* live_objects_ is the number of loaded models, and a destroyed model is not loaded: each
\* load is given back once on whatever path (model.cc, runtime.h).
THEOREM RuntimeIsBalanced == Spec => []RuntimeBalanced
<1>1. Inv => RuntimeBalanced
  BY DEF Inv, Counted, DyingInv, Forgotten, RuntimeBalanced
<1> QED BY <1>1, InvariantHolds, PTL

\* When the handler of an unloading event returns, every registered model the event found
\* loaded has been unloaded since, or its destructor is doing so (Manager::UnloadAllModels).
THEOREM EventsUnload == Spec => []EventUnloads
<1>1. Inv => EventUnloads
  <2> SUFFICES ASSUME Inv, NEW t \in Apps, pc[t] = "dropping"
               PROVE  due[t] \subseteq dying
    BY DEF EventUnloads
  <2>1. OwedOK(t) /\ Owed(t) \subseteq dying
    BY ThreadSets DEF Inv, OwedInv, OwedOK
  <2>2. due[t] \subseteq Owed(t)
    BY <2>1, ThreadSets, ThreadTypes DEF OwedOK, Owed
  <2> QED BY <2>1, <2>2
<1> QED BY <1>1, InvariantHolds, PTL

\* After Manager::Shutdown nothing stays loaded, except what another thread's destructor is
\* about to unload; a load that raced with the shutdown included.
THEOREM ShutdownUnloadsAll == Spec => []NothingLoadedAfterShutdown
<1>1. Inv => NothingLoadedAfterShutdown
  BY DEF Inv
<1> QED BY <1>1, InvariantHolds, PTL

=============================================================================
