--------------------------- MODULE JobPoolProofs ---------------------------
(***************************************************************************)
(* Proofs about the job pool, for every number of jobs and threads.        *)
(***************************************************************************)
EXTENDS JobPool, TLAPS

Labels == WorkerLabels \cup ClientLabels

\* Every status a job can end with stands for a terminal state.
LEMMA StateOfTerminal == \A s \in Statuses : StateOf(s) \in Terminal
  BY DEF StateOf, Statuses, Terminal

\* The queue holds jobs.
LEMMA QueuedType == TypeOK => Queued \subseteq Jobs
  BY DEF TypeOK, Queued

\* Where a thread goes when Cancel or Execute returns keeps the thread's types.
LEMMA ReturnType ==
  ASSUME TypeOK, NEW t \in Threads, Return(t)
  PROVE  pc' \in [Threads -> Labels] /\ at' \in [Threads -> Jobs \cup {NoJob}]
<1>1. Resume(t) \in Labels
  BY DEF Resume, Labels, WorkerLabels, ClientLabels
<1> QED BY <1>1 DEF TypeOK, Return, Enter, Goto, Labels

\* The initial state satisfies the inductive invariant.
LEMMA InitCoupled == Init => TypeOK /\ Coupled
<1> SUFFICES ASSUME Init PROVE TypeOK /\ Coupled
  OBVIOUS
<1>1. TypeOK
  <2>1. /\ state \in [Jobs -> JobStates]
        /\ cancelRequested \in [Jobs -> BOOLEAN]
        /\ finished \in [Jobs -> BOOLEAN]
        /\ status \in [Jobs -> Statuses]
        /\ result \in [Jobs -> BOOLEAN]
    BY DEF Init, JobStates, Statuses
  <2>2. /\ phase \in [Jobs -> {"new", "checked", "pushed", "rejected"}]
        /\ released \in [Jobs -> BOOLEAN]
        /\ fired \in [Jobs -> Nat]
        /\ told \in [Jobs -> Statuses \cup {"none"}]
        /\ taken \in [Jobs -> Nat]
    BY DEF Init
  <2>3. /\ queue \in Seq(Jobs)
        /\ running \subseteq Jobs
        /\ shuttingDown \in BOOLEAN
        /\ shutter \in Clients \cup {NoThread}
        /\ toCancel \subseteq Jobs
    <3>1. <<>> \in Seq(Jobs)
      OBVIOUS
    <3> QED BY <3>1 DEF Init
  <2>4. /\ pc \in [Threads -> WorkerLabels \cup ClientLabels]
        /\ at \in [Threads -> Jobs \cup {NoJob}]
        /\ out \in [Threads -> Statuses]
    BY DEF Init, WorkerLabels, ClientLabels, Statuses
  <2> QED BY <2>1, <2>2, <2>3, <2>4 DEF TypeOK
<1>2. \A t \in Threads : pc[t] \in {"poll", "idle"}
  BY DEF Init
<1>3. OneOwner
  BY <1>2 DEF OneOwner, Owning
<1>4. \A t \in Threads : ThreadInv(t)
  BY <1>2 DEF Init, ThreadInv, Owning, Busy, WorkerLabels, ClientLabels
<1>5. \A j \in Jobs : JobInv(j)
  BY DEF Init, JobInv
<1> QED BY <1>1, <1>3, <1>4, <1>5 DEF Coupled

\* Every step keeps the types: a thread at a busy label handles a job.
LEMMA NextTypeOK == TypeOK /\ Coupled /\ [Next]_vars => TypeOK'
<1> SUFFICES ASSUME TypeOK, Coupled, [Next]_vars PROVE TypeOK'
  OBVIOUS
<1>a. \A t \in Threads : pc[t] \in Busy => at[t] \in Jobs
  BY DEF Coupled, ThreadInv
<1>c. Workers \subseteq Threads /\ Clients \subseteq Threads
  BY DEF Threads
<1>1. ASSUME NEW t \in Threads, Finish(t) PROVE TypeOK'
  <2>1. at[t] \in Jobs
    BY <1>1, <1>a DEF Finish, Busy, Owning
  <2>2. CASE finished[at[t]]
    <3>1. out' = [out EXCEPT ![t] = "OK"]
      BY <1>1, <2>2 DEF Finish
    <3>2. out' \in [Threads -> Statuses]
      BY <3>1 DEF TypeOK, Statuses
    <3> QED BY <1>1, <2>2, <3>2, ReturnType DEF TypeOK, Finish, userVars, poolVars, Labels
  <2>3. CASE ~finished[at[t]]
    <3>1. /\ finished' = [finished EXCEPT ![at[t]] = TRUE]
          /\ status' = [status EXCEPT ![at[t]] = out[t]]
          /\ result' = [result EXCEPT ![at[t]] = (out[t] = "OK")]
          /\ pc' = [pc EXCEPT ![t] = "callback"]
          /\ UNCHANGED <<state, cancelRequested, at, out, userVars, poolVars>>
      BY <1>1, <2>3 DEF Finish, Goto
    <3>2. finished' \in [Jobs -> BOOLEAN] /\ result' \in [Jobs -> BOOLEAN]
      BY <3>1 DEF TypeOK
    <3>3. status' \in [Jobs -> Statuses] /\ pc' \in [Threads -> WorkerLabels \cup ClientLabels]
      BY <3>1 DEF TypeOK, ClientLabels
    <3> QED BY <3>1, <3>2, <3>3 DEF TypeOK, userVars, poolVars
  <2> QED BY <2>2, <2>3
<1>2. ASSUME NEW t \in Threads, Callback(t) PROVE TypeOK'
  <2>1. at[t] \in Jobs
    BY <1>2, <1>a DEF Callback, Busy, Owning
  <2>2. out' \in [Threads -> Statuses]
    BY <1>2 DEF TypeOK, Callback, Statuses
  <2> QED
    BY <1>2, <2>1, <2>2, ReturnType DEF TypeOK, Callback, jobVars, poolVars, Labels
<1>3. ASSUME NEW w \in Workers, WorkerStep(w) PROVE TypeOK'
  <2>1. CASE WorkerSleep(w)
    BY <2>1 DEF TypeOK, WorkerSleep, Goto, jobVars, userVars, poolVars, WorkerLabels
  <2>2. CASE WorkerExit(w)
    BY <2>2 DEF TypeOK, WorkerExit, Goto, jobVars, userVars, poolVars, WorkerLabels
  <2>3. CASE WorkerPop(w)
    <3>1. Head(queue) \in Jobs /\ Tail(queue) \in Seq(Jobs)
      BY <2>3 DEF WorkerPop, TypeOK
    <3>2. pc' \in [Threads -> WorkerLabels \cup ClientLabels] /\ at' \in [Threads -> Jobs \cup {NoJob}]
      BY <2>3, <3>1, <1>c DEF TypeOK, WorkerPop, Enter, Goto, WorkerLabels
    <3>3. running' \subseteq Jobs /\ queue' \in Seq(Jobs)
      BY <2>3, <3>1 DEF TypeOK, WorkerPop
    <3> QED BY <2>3, <3>2, <3>3 DEF TypeOK, WorkerPop, jobVars, userVars
  <2>4. CASE Claim(w)
    <3>1. CASE state[at[w]] = "PENDING"
      BY <2>4, <3>1 DEF TypeOK, Claim, Goto, userVars, poolVars, JobStates, WorkerLabels, Owning
    <3>2. CASE state[at[w]] # "PENDING"
      BY <2>4, <3>2, <1>c, ReturnType DEF TypeOK, Claim, userVars, poolVars, Labels
    <3> QED BY <3>1, <3>2
  <2>5. CASE BodyReturns(w)
    BY <2>5 DEF TypeOK, BodyReturns, Goto, jobVars, userVars, poolVars, WorkerLabels, Owning
  <2>6. CASE BodyThrows(w)
    <3>1. PICK s \in {"CANCELLED", "ERROR"} : out' = [out EXCEPT ![w] = s]
      BY <2>6 DEF BodyThrows
    <3>2. out' \in [Threads -> Statuses]
      BY <3>1 DEF TypeOK, Statuses
    <3>3. pc' \in [Threads -> WorkerLabels \cup ClientLabels]
      BY <2>6 DEF TypeOK, BodyThrows, Goto, WorkerLabels, Owning
    <3> QED BY <2>6, <3>2, <3>3 DEF TypeOK, BodyThrows, jobVars, userVars, poolVars
  <2>7. CASE CheckCancel(w)
    BY <2>7 DEF TypeOK, CheckCancel, Goto, jobVars, userVars, poolVars, WorkerLabels, Owning,
        Statuses
  <2>8. CASE StoreState(w)
    <3>1. StateOf(out[w]) \in JobStates
      BY <1>c, StateOfTerminal DEF TypeOK, JobStates
    <3>2. state' \in [Jobs -> JobStates]
      BY <2>8, <3>1 DEF TypeOK, StoreState
    <3>3. pc' \in [Threads -> WorkerLabels \cup ClientLabels]
      BY <2>8 DEF TypeOK, StoreState, Goto, WorkerLabels, Owning
    <3> QED BY <2>8, <3>2, <3>3 DEF TypeOK, StoreState, userVars, poolVars
  <2>9. CASE FinishThrows(w)
    <3>1. /\ finished' = [finished EXCEPT ![at[w]] = TRUE]
          /\ out' = [out EXCEPT ![w] = "ERROR"]
          /\ pc' = [pc EXCEPT ![w] = "store"]
          /\ UNCHANGED <<state, cancelRequested, status, result, userVars, poolVars, at>>
      BY <2>9 DEF FinishThrows, Goto
    <3>2. finished' \in [Jobs -> BOOLEAN] /\ out' \in [Threads -> Statuses]
      BY <3>1 DEF TypeOK, Statuses
    <3>3. pc' \in [Threads -> WorkerLabels \cup ClientLabels]
      BY <3>1 DEF TypeOK, WorkerLabels, Owning
    <3> QED BY <3>1, <3>2, <3>3 DEF TypeOK, userVars, poolVars
  <2> QED
    BY <1>1, <1>2, <1>3, <1>c, <2>1, <2>2, <2>3, <2>4, <2>5, <2>6, <2>7, <2>8, <2>9
       DEF WorkerStep
<1>4. ASSUME NEW c \in Clients, ClientStep(c) PROVE TypeOK'
  <2>1. CASE SubmitPush(c)
    <3>1. at[c] \in Jobs
      BY <2>1, <1>a, <1>c DEF SubmitPush, Busy
    <3>2. queue' \in Seq(Jobs)
      BY <2>1, <3>1 DEF TypeOK, SubmitPush
    <3>3. pc' \in [Threads -> WorkerLabels \cup ClientLabels]
      BY <2>1 DEF TypeOK, SubmitPush, Goto, ClientLabels
    <3> QED BY <2>1, <3>2, <3>3 DEF TypeOK, SubmitPush, jobVars
  <2>2. CASE SubmitNotify(c)
    <3>1. pc' \in [Threads -> WorkerLabels \cup ClientLabels]
      <4>1. CASE pc' = [pc EXCEPT ![c] = "idle"]
        BY <4>1 DEF TypeOK, ClientLabels
      <4>2. ASSUME NEW w \in Workers, pc' = [pc EXCEPT ![w] = "poll", ![c] = "idle"]
            PROVE  pc' \in [Threads -> WorkerLabels \cup ClientLabels]
        BY <4>2 DEF TypeOK, WorkerLabels, ClientLabels
      <4> QED BY <2>2, <4>1, <4>2 DEF SubmitNotify, Goto
    <3> QED BY <2>2, <3>1 DEF TypeOK, SubmitNotify, jobVars, userVars, poolVars
  <2>3. CASE CancelSwap(c)
    <3>1. CASE state[at[c]] = "PENDING"
      <4>1. state' \in [Jobs -> JobStates]
        <5>1. state' = [state EXCEPT ![at[c]] = "CANCELLED"]
          BY <2>3, <3>1 DEF CancelSwap
        <5> QED BY <5>1 DEF TypeOK, JobStates, Terminal
      <4>2. out' \in [Threads -> Statuses]
        <5>1. out' = [out EXCEPT ![c] = "CANCELLED"]
          BY <2>3, <3>1 DEF CancelSwap
        <5> QED BY <5>1 DEF TypeOK, Statuses
      <4>3. pc' = [pc EXCEPT ![c] = "finish"] /\ UNCHANGED at
        BY <2>3, <3>1 DEF CancelSwap, Goto
      <4>4. UNCHANGED <<cancelRequested, finished, status, result, userVars, poolVars>>
        BY <2>3 DEF CancelSwap
      <4>5. pc' \in [Threads -> WorkerLabels \cup ClientLabels]
        BY <4>3 DEF TypeOK, ClientLabels
      <4> QED BY <4>1, <4>2, <4>3, <4>4, <4>5 DEF TypeOK, userVars, poolVars
    <3>2. CASE state[at[c]] # "PENDING"
      BY <2>3, <3>2, <1>c, ReturnType DEF TypeOK, CancelSwap, userVars, poolVars, Labels
    <3> QED BY <3>1, <3>2
  <2>4. CASE WaitReturn(c)
    BY <2>4, <1>c, ReturnType DEF TypeOK, WaitReturn, jobVars, userVars, poolVars, Labels
  <2>5. CASE TakeReadsState(c)
    <3>1. CASE state[at[c]] \in Terminal
      BY <2>5, <3>1 DEF TypeOK, TakeReadsState, Goto, jobVars, userVars, poolVars, ClientLabels
    <3>2. CASE state[at[c]] \notin Terminal
      BY <2>5, <3>2, <1>c, ReturnType DEF TypeOK, TakeReadsState, jobVars, userVars, poolVars,
          Labels
    <3> QED BY <3>1, <3>2
  <2>6. CASE TakeReportsFailure(c) \/ TakeReportsTaken(c)
    BY <2>6, <1>c, ReturnType
    DEF TypeOK, TakeReportsFailure, TakeReportsTaken, jobVars, userVars, poolVars, Labels
  <2>7. CASE ShutdownCollect(c)
    <3>1. toCancel' \subseteq Jobs
      BY <2>7, QueuedType DEF TypeOK, ShutdownCollect
    <3>2. queue' \in Seq(Jobs) /\ running' \subseteq Jobs
      BY <2>7 DEF ShutdownCollect
    <3> QED BY <2>7, <3>1, <3>2 DEF TypeOK, ShutdownCollect, Goto, jobVars, userVars, ClientLabels
  <2>8. CASE ShutdownCancels(c)
    <3>1. PICK j \in toCancel : /\ toCancel' = toCancel \ {j}
                               /\ cancelRequested' = [cancelRequested EXCEPT ![j] = TRUE]
                               /\ Enter(c, "cas", j)
      BY <2>8 DEF ShutdownCancels
    <3>2. j \in Jobs
      BY DEF TypeOK
    <3>3. pc' \in [Threads -> WorkerLabels \cup ClientLabels] /\ at' \in [Threads -> Jobs \cup {NoJob}]
      BY <3>1, <3>2 DEF TypeOK, Enter, Goto, ClientLabels
    <3>4. toCancel' \subseteq Jobs /\ cancelRequested' \in [Jobs -> BOOLEAN]
      BY <3>1 DEF TypeOK
    <3> QED BY <2>8, <3>3, <3>4 DEF TypeOK, ShutdownCancels, userVars
  <2>9. CASE ShutdownNotify(c)
    BY <2>9 DEF TypeOK, ShutdownNotify, jobVars, userVars, poolVars, WorkerLabels, ClientLabels
  <2>10. CASE ShutdownJoin(c)
    BY <2>10 DEF TypeOK, ShutdownJoin, Goto, jobVars, userVars, ClientLabels
  <2> QED BY <1>1, <1>2, <1>4, <1>c, <2>1, <2>2, <2>3, <2>4, <2>5, <2>6, <2>7, <2>8, <2>9, <2>10
          DEF ClientStep
<1>5. ASSUME NEW c \in Clients, ClientCall(c) PROVE TypeOK'
  <2>1. ASSUME NEW j \in Jobs, SubmitRefused(c, j) PROVE TypeOK'
    BY <2>1 DEF TypeOK, SubmitRefused, jobVars, poolVars
  <2>2. ASSUME NEW j \in Jobs, SubmitAccepted(c, j) PROVE TypeOK'
    BY <2>2 DEF TypeOK, SubmitAccepted, Enter, Goto, jobVars, poolVars, ClientLabels
  <2>3. ASSUME NEW j \in Jobs, CancelRequest(c, j) PROVE TypeOK'
    BY <2>3 DEF TypeOK, CancelRequest, Enter, Goto, userVars, poolVars, ClientLabels
  <2>4. ASSUME NEW j \in Jobs, WaitStart(c, j) PROVE TypeOK'
    BY <2>4 DEF TypeOK, WaitStart, Enter, Goto, jobVars, userVars, poolVars, ClientLabels
  <2>5. ASSUME NEW j \in Jobs, TakeResult(c, j) PROVE TypeOK'
    <3>1. CASE result[j]
      <4>1. result' \in [Jobs -> BOOLEAN] /\ taken' \in [Jobs -> Nat]
        <5>1. /\ result' = [result EXCEPT ![j] = FALSE]
              /\ taken' = [taken EXCEPT ![j] = @ + 1]
          BY <2>5, <3>1 DEF TakeResult
        <5> QED BY <5>1 DEF TypeOK
      <4> QED BY <2>5, <3>1, <4>1 DEF TypeOK, TakeResult, poolVars
    <3>2. CASE ~result[j]
      BY <2>5, <3>2 DEF TypeOK, TakeResult, Enter, Goto, poolVars, ClientLabels
    <3> QED BY <3>1, <3>2
  <2>6. ASSUME NEW j \in Jobs, Release(c, j) PROVE TypeOK'
    BY <2>6 DEF TypeOK, Release, jobVars, poolVars
  <2>7. CASE ShutdownBegin(c)
    BY <2>7 DEF TypeOK, ShutdownBegin, Goto, jobVars, userVars, ClientLabels
  <2> QED BY <1>5, <2>1, <2>2, <2>3, <2>4, <2>5, <2>6, <2>7 DEF ClientCall
<1>6. ASSUME NEW w \in Workers, WorkerWakesSpuriously(w) PROVE TypeOK'
  BY <1>6 DEF TypeOK, WorkerWakesSpuriously, Goto, jobVars, userVars, poolVars, WorkerLabels
<1>7. ASSUME NEW w \in Workers, CallbackCancels(w) PROVE TypeOK'
  BY <1>7 DEF TypeOK, CallbackCancels, userVars, poolVars
<1>8. ASSUME NEW c \in Clients, WaitTimeout(c) PROVE TypeOK'
  BY <1>8, <1>c, ReturnType DEF TypeOK, WaitTimeout, jobVars, userVars, poolVars, Labels
<1>9. CASE UNCHANGED vars
  BY <1>9 DEF TypeOK, vars, jobVars, userVars, poolVars
<1> QED BY <1>3, <1>4, <1>5, <1>6, <1>7, <1>8, <1>9 DEF Next

-----------------------------------------------------------------------------
(* Coupled is inductive.  Two lemmas carry the steps: one for threads that *)
(* move outside Owning and touch no job, one for the single owner of a job *)
(* that changes it.                                                        *)

\* What a step must leave alone for every job to keep JobInv.
Outcome(j) == <<state[j], finished[j], status[j], result[j], fired[j], told[j], taken[j]>>

\* Whether Finish recorded nothing of a job is part of that.
LEMMA OutcomeRecorded ==
  ASSUME NEW j, Outcome(j)' = Outcome(j)
  PROVE  Unrecorded(j)' <=> Unrecorded(j)
  BY DEF Outcome, Unrecorded

\* Nobody owns a job that has not been claimed or cancelled.
LEMMA PendingUnowned ==
  ASSUME TypeOK, Coupled, NEW t \in Threads, pc[t] \in Owning
  PROVE  at[t] \in Jobs /\ state[at[t]] # "PENDING"
<1>1. ThreadInv(t)
  BY DEF Coupled
<1>2. out[t] \in Statuses
  BY DEF TypeOK
<1>3. pc[t] = "store" => state[at[t]] \in {"RUNNING", "SUCCEEDED"}
  BY <1>1 DEF ThreadInv
<1>4. pc[t] \in {"finish", "callback"} => state[at[t]] \in Terminal
  BY <1>1, <1>2, StateOfTerminal DEF ThreadInv
<1>5. pc[t] \in {"body", "returned"} => state[at[t]] = "RUNNING"
  BY <1>1 DEF ThreadInv
<1>6. at[t] \in Jobs
  BY <1>1 DEF ThreadInv, Busy
<1> QED BY <1>3, <1>4, <1>5, <1>6 DEF Owning, Terminal

\* Threads that move outside Owning while no job changes keep the invariant.
LEMMA MoveKeepsCoupled ==
  ASSUME TypeOK, Coupled,
         \A t \in Threads :
           \/ pc'[t] = pc[t] /\ at'[t] = at[t] /\ out'[t] = out[t]
           \/ /\ pc'[t] \in (IF t \in Workers THEN WorkerLabels ELSE ClientLabels) \ Owning
              /\ pc'[t] \in Busy => at'[t] \in Jobs,
         UNCHANGED <<state, finished, status, result, fired, told, taken>>
  PROVE  Coupled'
<1>1. OneOwner'
  BY DEF Coupled, OneOwner
<1>2. ASSUME NEW t \in Threads PROVE ThreadInv(t)'
  <2>1. ThreadInv(t)
    BY DEF Coupled
  <2>2. CASE pc'[t] = pc[t] /\ at'[t] = at[t] /\ out'[t] = out[t]
    BY <2>1, <2>2 DEF ThreadInv, StateOf, Unrecorded
  <2>3. CASE /\ pc'[t] \in (IF t \in Workers THEN WorkerLabels ELSE ClientLabels) \ Owning
             /\ pc'[t] \in Busy => at'[t] \in Jobs
    BY <2>3 DEF ThreadInv, Owning
  <2> QED BY <2>2, <2>3
<1>3. ASSUME NEW j \in Jobs PROVE JobInv(j)'
  <2>1. JobInv(j)
    BY DEF Coupled
  <2> QED BY <2>1 DEF JobInv, StateOf, Unrecorded
<1> QED BY <1>1, <1>2, <1>3 DEF Coupled

\* A step of one thread on a job that no other thread owns keeps the invariant.
LEMMA OwnerKeepsCoupled ==
  ASSUME TypeOK, Coupled, NEW t \in Threads, NEW j \in Jobs,
         \A u \in Threads \ {t} : /\ pc'[u] = pc[u] /\ at'[u] = at[u] /\ out'[u] = out[u]
                                  /\ pc[u] \in Owning => at[u] # j,
         \A i \in Jobs \ {j} : Outcome(i)' = Outcome(i),
         pc'[t] \in Owning => at'[t] = j,
         ThreadInv(t)', JobInv(j)'
  PROVE  Coupled'
<1>1. OneOwner'
  BY DEF Coupled, OneOwner
<1>2. ASSUME NEW u \in Threads PROVE ThreadInv(u)'
  <2>1. CASE u = t
    BY <2>1
  <2>2. CASE u # t
    <3>1. ThreadInv(u)
      BY DEF Coupled
    <3>2. pc'[u] = pc[u] /\ at'[u] = at[u] /\ out'[u] = out[u]
      BY <2>2
    <3>3. CASE pc[u] \notin Owning
      BY <3>1, <3>2, <3>3 DEF ThreadInv, Owning
    <3>4. CASE pc[u] \in Owning
      <4>1. at[u] \in Jobs \ {j}
        BY <2>2, <3>4, PendingUnowned
      <4>2. Outcome(at[u])' = Outcome(at[u])
        <5>1. ASSUME NEW i \in Jobs \ {j} PROVE Outcome(i)' = Outcome(i)
          OBVIOUS
        <5> QED BY <4>1, <5>1, <3>2 DEF Outcome
      <4>3. Unrecorded(at[u])' <=> Unrecorded(at[u])
        BY <3>2, <4>2, OutcomeRecorded DEF Unrecorded, Outcome
      <4> QED BY <3>1, <3>2, <4>2, <4>3 DEF ThreadInv, Outcome, StateOf
    <3> QED BY <3>3, <3>4
  <2> QED BY <2>1, <2>2
<1>3. ASSUME NEW i \in Jobs PROVE JobInv(i)'
  <2>1. CASE i = j
    BY <2>1
  <2>2. CASE i # j
    <3>1. JobInv(i)
      BY DEF Coupled
    <3>2. Outcome(i)' = Outcome(i)
      BY <2>2
    <3>3. /\ state'[i] = state[i] /\ finished'[i] = finished[i] /\ status'[i] = status[i]
          /\ result'[i] = result[i] /\ fired'[i] = fired[i] /\ told'[i] = told[i]
          /\ taken'[i] = taken[i]
      BY <3>2 DEF Outcome
    <3>4. StateOf(status[i])' = StateOf(status[i])
      BY <3>3 DEF StateOf
    <3>5. Unrecorded(i)' <=> Unrecorded(i)
      BY <3>2, OutcomeRecorded
    <3> QED BY <3>1, <3>3, <3>4, <3>5 DEF JobInv
  <2> QED BY <2>1, <2>2
<1> QED BY <1>1, <1>2, <1>3 DEF Coupled

\* Where Return puts a thread: outside Owning and handling nothing.
LEMMA ReturnMoves ==
  ASSUME TypeOK, NEW t \in Threads, Return(t)
  PROVE  /\ pc'[t] \in (IF t \in Workers THEN WorkerLabels ELSE ClientLabels) \ Owning
         /\ pc'[t] \notin Busy
         /\ \A u \in Threads \ {t} : pc'[u] = pc[u] /\ at'[u] = at[u]
<1>1. pc' = [pc EXCEPT ![t] = Resume(t)] /\ at' = [at EXCEPT ![t] = NoJob]
  BY DEF Return, Enter, Goto
<1>2. /\ Resume(t) \in (IF t \in Workers THEN WorkerLabels ELSE ClientLabels) \ Owning
      /\ Resume(t) \notin Busy
  BY DEF Resume, WorkerLabels, ClientLabels, Owning, Busy
<1> QED BY <1>1, <1>2 DEF TypeOK

\* Job::Finish keeps the invariant: the flag is set only when an earlier Finish threw.
LEMMA FinishKeepsCoupled ==
  ASSUME TypeOK, Coupled, NEW t \in Threads, Finish(t)
  PROVE  Coupled'
<1>j. PICK j \in Jobs : j = at[t]
  BY DEF Finish, Coupled, ThreadInv, Busy, Owning
<1>0. pc[t] = "finish" /\ ThreadInv(t) /\ JobInv(j) /\ t \in Threads
  BY DEF Finish, Coupled
<1>1. CASE ~finished[j]
  <2>1. /\ finished' = [finished EXCEPT ![j] = TRUE]
        /\ status' = [status EXCEPT ![j] = out[t]]
        /\ result' = [result EXCEPT ![j] = (out[t] = "OK")]
        /\ pc' = [pc EXCEPT ![t] = "callback"]
        /\ UNCHANGED <<at, out, state, fired, told, taken>>
    BY <1>1, <1>j DEF Finish, Goto, userVars
  <2>2. /\ finished'[j] /\ status'[j] = out[t]
        /\ result'[j] = (out[t] = "OK")
    BY <2>1 DEF TypeOK
  <2>3. fired[j] = 0 /\ told[j] = "none" /\ taken[j] = 0
    BY <1>0, <1>1 DEF JobInv
  <2>4. state'[j] = StateOf(out[t]) /\ at'[t] = j /\ out'[t] = out[t] /\ pc'[t] = "callback"
    BY <1>0, <1>j, <2>1 DEF ThreadInv, TypeOK
  <2>5. ~Unrecorded(j)'
    BY <2>2 DEF Unrecorded
  <2>6. StateOf(out[t])' = StateOf(out[t]) /\ StateOf(status[j])' = StateOf(out[t])
    BY <2>2, <2>4 DEF StateOf
  <2>7. ThreadInv(t)'
    <3>1. pc'[t] \in (IF t \in Workers THEN WorkerLabels ELSE ClientLabels)
      BY <2>4 DEF WorkerLabels, ClientLabels, Owning
    <3> QED BY <2>1, <2>2, <2>3, <2>4, <2>5, <2>6, <3>1 DEF ThreadInv
  <2>8. JobInv(j)'
    <3>1. result'[j] <=> status'[j] = "OK"
      BY <2>2
    <3>2. fired'[j] = 0 /\ told'[j] = "none" /\ taken'[j] = 0
      BY <2>1, <2>3
    <3>3. IF finished'[j] /\ status'[j] = "OK" /\ ~Unrecorded(j)'
            THEN taken'[j] = (IF result'[j] THEN 0 ELSE 1)
            ELSE ~result'[j] /\ taken'[j] = 0
      BY <2>2, <2>5, <3>1, <3>2
    <3> QED BY <2>2, <2>4, <2>6, <3>2, <3>3 DEF JobInv
  <2>9. \A u \in Threads \ {t} : /\ pc'[u] = pc[u] /\ at'[u] = at[u] /\ out'[u] = out[u]
                                 /\ pc[u] \in Owning => at[u] # j
    BY <1>0, <1>j, <2>1 DEF Coupled, OneOwner, Owning, TypeOK
  <2>10. \A i \in Jobs \ {j} : Outcome(i)' = Outcome(i)
    BY <2>1 DEF Outcome, TypeOK
  <2> QED BY <2>4, <2>7, <2>8, <2>9, <2>10, OwnerKeepsCoupled
<1>2. CASE finished[j]
  <2>1. Return(t) /\ out' = [out EXCEPT ![t] = "OK"]
        /\ UNCHANGED <<state, finished, status, result, fired, told, taken>>
    BY <1>2, <1>j DEF Finish, userVars
  <2>2. \A u \in Threads \ {t} : out'[u] = out[u]
    BY <2>1 DEF TypeOK
  <2> QED BY <2>1, <2>2, ReturnMoves, MoveKeepsCoupled
<1> QED BY <1>1, <1>2

\* A Finish that throws keeps the invariant: it leaves a success with nothing recorded.
LEMMA FinishThrowsKeepsCoupled ==
  ASSUME TypeOK, Coupled, NEW w \in Workers, FinishThrows(w)
  PROVE  Coupled'
<1>w. w \in Threads
  BY DEF Threads
<1>j. PICK j \in Jobs : j = at[w]
  BY <1>w DEF FinishThrows, Coupled, ThreadInv, Busy, Owning
<1>0. /\ pc[w] = "finish" /\ out[w] = "OK" /\ j \in Undumpable /\ ~finished[j]
      /\ ThreadInv(w) /\ JobInv(j)
  BY <1>w, <1>j DEF FinishThrows, Coupled
<1>1. /\ finished' = [finished EXCEPT ![j] = TRUE]
      /\ out' = [out EXCEPT ![w] = "ERROR"]
      /\ pc' = [pc EXCEPT ![w] = "store"]
      /\ UNCHANGED <<at, state, status, result, fired, told, taken>>
  BY <1>j DEF FinishThrows, Goto, userVars
<1>2. state[j] = "SUCCEEDED"
  BY <1>0, <1>j DEF ThreadInv, StateOf
<1>3. fired[j] = 0 /\ told[j] = "none" /\ taken[j] = 0 /\ ~result[j]
  BY <1>0 DEF JobInv
<1>4. status[j] = "OK"
  BY <1>0 DEF JobInv
<1>5. finished'[j] /\ pc'[w] = "store" /\ at'[w] = j /\ out'[w] = "ERROR"
  BY <1>w, <1>j, <1>1 DEF TypeOK
<1>6. Unrecorded(j)'
  BY <1>0, <1>1, <1>3, <1>4, <1>5 DEF Unrecorded
<1>7. ThreadInv(w)'
  <2>1. "store" \in WorkerLabels
    BY DEF WorkerLabels, Owning
  <2> QED BY <1>1, <1>2, <1>5, <1>6, <2>1 DEF ThreadInv
<1>8. JobInv(j)'
  <2>1. StateOf(status[j])' = "SUCCEEDED"
    BY <1>1, <1>4 DEF StateOf
  <2>2. /\ finished'[j] /\ state'[j] = "SUCCEEDED" /\ fired'[j] = 0 /\ told'[j] = "none"
        /\ ~result'[j] /\ taken'[j] = 0
    BY <1>1, <1>2, <1>3, <1>5
  <2> QED BY <1>6, <2>1, <2>2 DEF JobInv
<1>9. \A u \in Threads \ {w} : /\ pc'[u] = pc[u] /\ at'[u] = at[u] /\ out'[u] = out[u]
                               /\ pc[u] \in Owning => at[u] # j
  BY <1>w, <1>0, <1>j, <1>1 DEF Coupled, OneOwner, Owning, TypeOK
<1>10. \A i \in Jobs \ {j} : Outcome(i)' = Outcome(i)
  BY <1>1 DEF Outcome, TypeOK
<1> QED BY <1>w, <1>5, <1>7, <1>8, <1>9, <1>10, OwnerKeepsCoupled

\* The completion callback keeps the invariant: it is the first one for its job.
LEMMA CallbackKeepsCoupled ==
  ASSUME TypeOK, Coupled, NEW t \in Threads, Callback(t)
  PROVE  Coupled'
<1>j. PICK j \in Jobs : j = at[t]
  BY DEF Callback, Coupled, ThreadInv, Busy, Owning
<1>0. pc[t] = "callback" /\ ThreadInv(t) /\ JobInv(j)
  BY DEF Callback, Coupled
<1>1. /\ fired' = [fired EXCEPT ![j] = @ + 1]
      /\ told' = [told EXCEPT ![j] = out[t]]
      /\ out' = [out EXCEPT ![t] = "OK"]
      /\ UNCHANGED <<state, finished, status, result, taken>>
      /\ Return(t)
  BY <1>j DEF Callback, jobVars
<1>2. /\ pc'[t] \in (IF t \in Workers THEN WorkerLabels ELSE ClientLabels) \ Owning
      /\ pc'[t] \notin Busy
      /\ \A u \in Threads \ {t} : pc'[u] = pc[u] /\ at'[u] = at[u]
  BY <1>1, ReturnMoves
<1>3. ThreadInv(t)'
  BY <1>2 DEF ThreadInv, Owning
<1>4. /\ finished[j] /\ status[j] = out[t] /\ fired[j] = 0
      /\ fired'[j] = 1 /\ told'[j] = out[t]
  BY <1>0, <1>1, <1>j DEF ThreadInv, TypeOK
<1>5. JobInv(j)'
  <2>1. StateOf(status[j])' = StateOf(status[j])
    BY <1>1 DEF StateOf
  <2>2. ~Unrecorded(j) /\ ~Unrecorded(j)'
    BY <1>0, <1>1, <1>4, <1>j DEF ThreadInv, Unrecorded
  <2> QED BY <1>0, <1>1, <1>4, <2>1, <2>2 DEF JobInv
<1>6. \A u \in Threads \ {t} : pc[u] \in Owning => at[u] # j
  BY <1>0, <1>j DEF Coupled, OneOwner, Owning
<1>7. \A i \in Jobs \ {j} : Outcome(i)' = Outcome(i)
  BY <1>1 DEF Outcome, TypeOK
<1>8. \A u \in Threads \ {t} : out'[u] = out[u]
  BY <1>1 DEF TypeOK
<1> QED BY <1>1, <1>2, <1>3, <1>5, <1>6, <1>7, <1>8, OwnerKeepsCoupled

\* Every step of a worker keeps the invariant.
LEMMA WorkerKeepsCoupled ==
  ASSUME TypeOK, Coupled, NEW w \in Workers,
         WorkerStep(w) \/ WorkerWakesSpuriously(w) \/ CallbackCancels(w)
  PROVE  Coupled'
<1>w. w \in Threads
  BY DEF Threads
<1>1. CASE WorkerSleep(w) \/ WorkerExit(w) \/ WorkerWakesSpuriously(w)
  <2>1. pc' \in {[pc EXCEPT ![w] = l] : l \in {"asleep", "exited", "poll"}}
    BY <1>1 DEF WorkerSleep, WorkerExit, WorkerWakesSpuriously, Goto
  <2>2. UNCHANGED <<state, finished, status, result, fired, told, taken, at, out>>
    BY <1>1 DEF WorkerSleep, WorkerExit, WorkerWakesSpuriously, jobVars, userVars
  <2> QED
    BY <1>w, <2>1, <2>2, MoveKeepsCoupled DEF TypeOK, WorkerLabels, Owning, Busy
<1>2. CASE WorkerPop(w)
  <2>1. Head(queue) \in Jobs
    BY <1>2 DEF WorkerPop, TypeOK
  <2>2. pc' = [pc EXCEPT ![w] = "claim"] /\ at' = [at EXCEPT ![w] = Head(queue)]
    BY <1>2 DEF WorkerPop, Enter, Goto
  <2>3. UNCHANGED <<state, finished, status, result, fired, told, taken, out>>
    BY <1>2 DEF WorkerPop, jobVars, userVars
  <2> QED
    BY <1>w, <2>1, <2>2, <2>3, MoveKeepsCoupled DEF TypeOK, WorkerLabels, Owning, Busy
<1>3. CASE Claim(w)
  <2>0. at[w] \in Jobs /\ pc[w] = "claim" /\ JobInv(at[w])
    BY <1>3, <1>w DEF Claim, Coupled, ThreadInv, Busy
  <2>1. CASE state[at[w]] = "PENDING"
    <3>1. /\ state' = [state EXCEPT ![at[w]] = "RUNNING"]
          /\ pc' = [pc EXCEPT ![w] = "body"]
          /\ UNCHANGED <<at, out, finished, status, result, fired, told, taken>>
      BY <1>3, <2>1 DEF Claim, Goto, userVars
    <3>2. ~finished[at[w]]
      BY <2>0, <2>1, StateOfTerminal DEF JobInv, TypeOK, Terminal
    <3>3. ThreadInv(w)'
      BY <1>w, <2>0, <3>1, <3>2 DEF ThreadInv, TypeOK, WorkerLabels, Owning, Busy
    <3>4. JobInv(at[w])'
      BY <2>0, <3>1, <3>2 DEF JobInv, TypeOK
    <3>5. \A u \in Threads : pc[u] \in Owning => at[u] # at[w]
      BY <2>1, PendingUnowned
    <3>6. \A i \in Jobs \ {at[w]} : Outcome(i)' = Outcome(i)
      BY <3>1 DEF Outcome, TypeOK
    <3>7. \A u \in Threads \ {w} : pc'[u] = pc[u] /\ at'[u] = at[u] /\ out'[u] = out[u]
      BY <3>1 DEF TypeOK
    <3> QED BY <1>w, <2>0, <3>1, <3>3, <3>4, <3>5, <3>6, <3>7, OwnerKeepsCoupled
  <2>2. CASE state[at[w]] # "PENDING"
    BY <1>3, <1>w, <2>2, ReturnMoves, MoveKeepsCoupled DEF Claim, userVars
  <2> QED BY <2>1, <2>2
<1>4. CASE CallbackCancels(w)
  BY <1>4, MoveKeepsCoupled DEF CallbackCancels, userVars
<1>5. CASE BodyReturns(w) \/ BodyThrows(w) \/ CheckCancel(w)
  <2>0. at[w] \in Jobs /\ pc[w] \in {"body", "returned"} /\ ThreadInv(w) /\ JobInv(at[w])
    BY <1>5, <1>w DEF BodyReturns, BodyThrows, CheckCancel, Coupled, ThreadInv, Busy, Owning
  <2>u. state[at[w]] = "RUNNING" /\ ~finished[at[w]]
    BY <2>0 DEF ThreadInv
  <2>1. /\ pc' \in {[pc EXCEPT ![w] = l] : l \in {"returned", "store"}}
        /\ \A u \in Threads \ {w} : out'[u] = out[u]
        /\ UNCHANGED <<at, state, finished, status, result, fired, told, taken>>
    BY <1>5 DEF BodyReturns, BodyThrows, CheckCancel, Goto, jobVars, userVars, TypeOK
  <2>2. ThreadInv(w)'
    BY <1>w, <2>0, <2>u, <2>1 DEF ThreadInv, TypeOK, WorkerLabels, Owning, Busy
  <2>3. JobInv(at[w])'
    BY <2>0, <2>u, <2>1 DEF JobInv, StateOf, Unrecorded
  <2>4. \A u \in Threads \ {w} : pc[u] \in Owning => at[u] # at[w]
    BY <1>w, <2>0 DEF Coupled, OneOwner, Owning
  <2>5. \A i \in Jobs \ {at[w]} : Outcome(i)' = Outcome(i)
    BY <2>1 DEF Outcome
  <2>6. \A u \in Threads \ {w} : pc'[u] = pc[u] /\ at'[u] = at[u]
    BY <2>1 DEF TypeOK
  <2> QED BY <1>w, <2>0, <2>1, <2>2, <2>3, <2>4, <2>5, <2>6, OwnerKeepsCoupled
<1>6. CASE StoreState(w)
  <2>0. at[w] \in Jobs /\ pc[w] = "store" /\ ThreadInv(w) /\ JobInv(at[w])
    BY <1>6, <1>w DEF StoreState, Coupled, ThreadInv, Busy, Owning
  <2>1. /\ pc' = [pc EXCEPT ![w] = "finish"]
        /\ state' = [state EXCEPT ![at[w]] = StateOf(out[w])]
        /\ UNCHANGED <<at, out, finished, status, result, fired, told, taken>>
    BY <1>6 DEF StoreState, Goto, userVars
  <2>j. PICK j \in Jobs : j = at[w]
    BY <2>0
  <2>p. pc'[w] = "finish" /\ at'[w] = j /\ state'[j] = StateOf(out[w]) /\ out'[w] = out[w]
    BY <1>w, <2>j, <2>1 DEF TypeOK
  <2>s. StateOf(out[w])' = StateOf(out[w]) /\ StateOf(status[j])' = StateOf(status[j])
    BY <2>1, <2>p DEF StateOf
  <2>u. (Unrecorded(j)' <=> Unrecorded(j)) /\ finished'[j] = finished[j]
    BY <2>1 DEF Unrecorded
  <2>o. ~finished[j] \/ (Unrecorded(j) /\ out[w] = "ERROR")
    <3>1. ~finished[at[w]] \/ (Unrecorded(at[w]) /\ out[w] = "ERROR")
      BY <2>0 DEF ThreadInv
    <3> QED BY <2>j, <3>1
  <2>2. ThreadInv(w)'
    <3>1. "finish" \in WorkerLabels
      BY DEF WorkerLabels, Owning
    <3> QED BY <2>p, <2>s, <2>u, <2>o, <3>1 DEF ThreadInv
  <2>3. JobInv(at[w])'
    <3>1. finished[j] => state'[j] = "FAILED" /\ Unrecorded(j)
      BY <2>p, <2>o DEF StateOf
    <3>2. JobInv(j)
      BY <2>0, <2>j
    <3>3. JobInv(j)'
      BY <2>1, <2>u, <3>1, <3>2 DEF JobInv
    <3> QED BY <2>j, <2>p, <3>3
  <2>4. \A u \in Threads \ {w} : pc[u] \in Owning => at[u] # at[w]
    BY <1>w, <2>0 DEF Coupled, OneOwner, Owning
  <2>5. \A i \in Jobs \ {at[w]} : Outcome(i)' = Outcome(i)
    BY <2>1 DEF Outcome, TypeOK
  <2>6. \A u \in Threads \ {w} : pc'[u] = pc[u] /\ at'[u] = at[u] /\ out'[u] = out[u]
    BY <2>1 DEF TypeOK
  <2> QED BY <1>w, <2>0, <2>1, <2>2, <2>3, <2>4, <2>5, <2>6, OwnerKeepsCoupled
<1>7. CASE Finish(w)
  BY <1>7, <1>w, FinishKeepsCoupled
<1>8. CASE Callback(w)
  BY <1>8, <1>w, CallbackKeepsCoupled
<1>9. CASE FinishThrows(w)
  BY <1>9, FinishThrowsKeepsCoupled
<1> QED BY <1>1, <1>2, <1>3, <1>4, <1>5, <1>6, <1>7, <1>8, <1>9 DEF WorkerStep

\* Every step of a client inside a call keeps the invariant.
LEMMA ClientKeepsCoupled ==
  ASSUME TypeOK, Coupled, NEW c \in Clients, ClientStep(c) \/ WaitTimeout(c)
  PROVE  Coupled'
<1>c. c \in Threads /\ c \notin Workers
  BY ConstantsAssumption DEF Threads
<1>1. CASE SubmitPush(c)
  <2>1. pc' = [pc EXCEPT ![c] = "notify"] /\ at[c] \in Jobs
    BY <1>1, <1>c DEF SubmitPush, Goto, Coupled, ThreadInv, Busy
  <2>2. UNCHANGED <<state, finished, status, result, fired, told, taken, at, out>>
    BY <1>1 DEF SubmitPush, jobVars
  <2> QED
    BY <1>c, <2>1, <2>2, MoveKeepsCoupled DEF TypeOK, ClientLabels, Owning, Busy
<1>2. CASE SubmitNotify(c)
  <2>1. UNCHANGED <<state, finished, status, result, fired, told, taken, out>>
    BY <1>2 DEF SubmitNotify, jobVars, userVars
  <2>2. at' = [at EXCEPT ![c] = NoJob]
    BY <1>2 DEF SubmitNotify
  <2>3. CASE pc' = [pc EXCEPT ![c] = "idle"]
    BY <1>c, <2>1, <2>2, <2>3, MoveKeepsCoupled DEF TypeOK, ClientLabels, Owning, Busy
  <2>4. ASSUME NEW w \in Workers, pc' = [pc EXCEPT ![w] = "poll", ![c] = "idle"]
        PROVE  Coupled'
    <3>1. w \in Threads /\ w # c
      BY <1>c DEF Threads
    <3> QED
      BY <1>c, <2>1, <2>2, <2>4, <3>1, MoveKeepsCoupled
      DEF TypeOK, WorkerLabels, ClientLabels, Owning, Busy
  <2> QED BY <1>2, <2>3, <2>4 DEF SubmitNotify, Goto
<1>3. CASE CancelSwap(c)
  <2>j. PICK j \in Jobs : j = at[c]
    BY <1>3, <1>c DEF CancelSwap, Coupled, ThreadInv, Busy
  <2>0. JobInv(j)
    BY DEF Coupled
  <2>1. CASE state[j] = "PENDING"
    <3>1. /\ state' = [state EXCEPT ![j] = "CANCELLED"]
          /\ pc' = [pc EXCEPT ![c] = "finish"]
          /\ out' = [out EXCEPT ![c] = "CANCELLED"]
          /\ UNCHANGED <<at, finished, status, result, fired, told, taken>>
      BY <1>3, <2>j, <2>1 DEF CancelSwap, Goto, userVars
    <3>2. ~finished[j]
      BY <2>0, <2>1, StateOfTerminal DEF JobInv, TypeOK, Terminal
    <3>3. ThreadInv(c)'
      BY <1>c, <2>j, <3>1, <3>2 DEF ThreadInv, StateOf, TypeOK, ClientLabels, Owning, Busy
    <3>4. JobInv(j)'
      BY <2>0, <3>1, <3>2 DEF JobInv, TypeOK
    <3>5. \A u \in Threads : pc[u] \in Owning => at[u] # j
      BY <2>1, PendingUnowned
    <3>6. \A i \in Jobs \ {j} : Outcome(i)' = Outcome(i)
      BY <3>1 DEF Outcome, TypeOK
    <3>7. \A u \in Threads \ {c} : pc'[u] = pc[u] /\ at'[u] = at[u] /\ out'[u] = out[u]
      BY <3>1 DEF TypeOK
    <3> QED BY <1>c, <2>j, <3>1, <3>3, <3>4, <3>5, <3>6, <3>7, OwnerKeepsCoupled
  <2>2. CASE state[j] # "PENDING"
    <3>1. /\ Return(c)
          /\ UNCHANGED <<state, out, finished, status, result, fired, told, taken>>
      BY <1>3, <2>j, <2>2 DEF CancelSwap, userVars
    <3> QED BY <1>c, <3>1, ReturnMoves, MoveKeepsCoupled
  <2> QED BY <2>1, <2>2
<1>4. CASE Finish(c)
  BY <1>4, <1>c, FinishKeepsCoupled
<1>5. CASE Callback(c)
  BY <1>5, <1>c, CallbackKeepsCoupled
<1>6. CASE \/ WaitReturn(c) \/ WaitTimeout(c) \/ TakeReportsFailure(c) \/ TakeReportsTaken(c)
           \/ TakeReadsState(c) /\ state[at[c]] \notin Terminal
  <2>1. /\ Return(c)
        /\ UNCHANGED <<state, out, finished, status, result, fired, told, taken>>
    BY <1>6 DEF WaitReturn, WaitTimeout, TakeReportsFailure, TakeReportsTaken, TakeReadsState,
                jobVars, userVars
  <2> QED BY <1>c, <2>1, ReturnMoves, MoveKeepsCoupled
<1>7. CASE TakeReadsState(c) /\ state[at[c]] \in Terminal
  <2>1. /\ pc' = [pc EXCEPT ![c] = "takeRaise"] /\ at[c] \in Jobs
        /\ UNCHANGED <<state, at, out, finished, status, result, fired, told, taken>>
    BY <1>7, <1>c DEF TakeReadsState, Goto, jobVars, userVars, Coupled, ThreadInv, Busy
  <2> QED
    BY <1>c, <2>1, MoveKeepsCoupled DEF TypeOK, ClientLabels, Owning, Busy
<1>8. CASE ShutdownCollect(c) \/ ShutdownJoin(c)
  <2>1. /\ pc' \in {[pc EXCEPT ![c] = l] : l \in {"cancelling", "idle"}}
        /\ UNCHANGED <<state, at, out, finished, status, result, fired, told, taken>>
    BY <1>8 DEF ShutdownCollect, ShutdownJoin, Goto, jobVars, userVars
  <2> QED
    BY <1>c, <2>1, MoveKeepsCoupled DEF TypeOK, ClientLabels, Owning, Busy
<1>9. CASE ShutdownCancels(c)
  <2>1. PICK j \in toCancel : /\ pc' = [pc EXCEPT ![c] = "cas"]
                             /\ at' = [at EXCEPT ![c] = j]
    BY <1>9 DEF ShutdownCancels, Enter, Goto
  <2>2. j \in Jobs
    BY DEF TypeOK
  <2>3. UNCHANGED <<state, out, finished, status, result, fired, told, taken>>
    BY <1>9 DEF ShutdownCancels, userVars
  <2> QED
    BY <1>c, <2>1, <2>2, <2>3, MoveKeepsCoupled DEF TypeOK, ClientLabels, Owning, Busy
<1>10. CASE ShutdownNotify(c)
  <2>1. \A t \in Threads : \/ pc'[t] = pc[t]
                           \/ pc'[t] = "poll" /\ pc[t] = "asleep"
                           \/ t = c /\ pc'[t] = "join"
    BY <1>10 DEF ShutdownNotify
  <2>2. \A t \in Threads : pc[t] = "asleep" => t \in Workers
    BY DEF Coupled, ThreadInv, ClientLabels
  <2>3. UNCHANGED <<state, at, out, finished, status, result, fired, told, taken>>
    BY <1>10 DEF ShutdownNotify, jobVars, userVars
  <2> QED
    BY <1>c, <2>1, <2>2, <2>3, MoveKeepsCoupled DEF WorkerLabels, ClientLabels, Owning, Busy
<1> QED BY <1>1, <1>2, <1>3, <1>4, <1>5, <1>6, <1>7, <1>8, <1>9, <1>10 DEF ClientStep

\* Every call a client makes keeps the invariant.
LEMMA CallKeepsCoupled ==
  ASSUME TypeOK, Coupled, NEW c \in Clients, ClientCall(c)
  PROVE  Coupled'
<1>c. c \in Threads /\ c \notin Workers
  BY ConstantsAssumption DEF Threads
<1>1. ASSUME NEW j \in Jobs, SubmitRefused(c, j) \/ Release(c, j) PROVE Coupled'
  BY <1>1, MoveKeepsCoupled DEF SubmitRefused, Release, jobVars
<1>2. ASSUME NEW j \in Jobs, NEW l \in {"push", "cas", "wait", "takeState"},
             Enter(c, l, j),
             UNCHANGED <<state, out, finished, status, result, fired, told, taken>>
      PROVE  Coupled'
  BY <1>c, <1>2, MoveKeepsCoupled DEF Enter, Goto, TypeOK, ClientLabels, Owning, Busy
<1>3. ASSUME NEW j \in Jobs, SubmitAccepted(c, j) \/ CancelRequest(c, j) \/ WaitStart(c, j)
      PROVE  Coupled'
  BY <1>2, <1>3 DEF SubmitAccepted, CancelRequest, WaitStart, jobVars, userVars
<1>4. ASSUME NEW j \in Jobs, TakeResult(c, j) PROVE Coupled'
  <2>0. JobInv(j) /\ pc[c] = "idle" /\ ThreadInv(c)
    BY <1>c, <1>4 DEF Coupled, TakeResult
  <2>1. CASE ~result[j]
    BY <1>2, <1>4, <2>1 DEF TakeResult
  <2>2. CASE result[j]
    <3>1. /\ result' = [result EXCEPT ![j] = FALSE]
          /\ taken' = [taken EXCEPT ![j] = @ + 1]
          /\ UNCHANGED <<pc, at, out, state, finished, status, fired, told>>
      BY <1>4, <2>2 DEF TakeResult
    <3>u. ASSUME NEW i \in Jobs PROVE Unrecorded(i)' <=> Unrecorded(i)
      <4>1. CASE i # j
        BY <3>1, <4>1 DEF Unrecorded, TypeOK
      <4>2. CASE i = j
        <5>1. taken[j] = 0
          BY <2>0, <2>2 DEF JobInv
        <5>2. taken'[j] = 1
          BY <3>1, <5>1 DEF TypeOK
        <5> QED BY <2>2, <4>2, <5>2 DEF Unrecorded
      <4> QED BY <4>1, <4>2
    <3>2. ASSUME NEW u \in Threads PROVE ThreadInv(u)'
      <4>1. ThreadInv(u)
        BY DEF Coupled
      <4>2. pc[u] \in {"store", "finish", "callback"} => at[u] \in Jobs
        BY <4>1 DEF ThreadInv, Busy, Owning
      <4>3. pc[u] \in {"store", "finish", "callback"} =>
              (Unrecorded(at[u])' <=> Unrecorded(at[u]))
        <5> SUFFICES ASSUME pc[u] \in {"store", "finish", "callback"}
                     PROVE  Unrecorded(at[u])' <=> Unrecorded(at[u])
          OBVIOUS
        <5>1. PICK i \in Jobs : i = at[u]
          BY <4>2
        <5> QED BY <3>1, <3>u, <5>1 DEF Unrecorded
      <4> QED BY <3>1, <4>1, <4>3 DEF ThreadInv, StateOf
    <3>3. ASSUME NEW i \in Jobs PROVE JobInv(i)'
      <4>1. JobInv(i)
        BY DEF Coupled
      <4>2. CASE i # j
        BY <3>1, <3>u, <4>1, <4>2 DEF JobInv, StateOf, TypeOK
      <4>3. CASE i = j
        <5>1. finished[j] /\ status[j] = "OK" /\ taken[j] = 0
          BY <2>0, <2>2 DEF JobInv
        <5>2. ~result'[j] /\ taken'[j] = 1
          BY <3>1, <5>1 DEF TypeOK
        <5>3. ~Unrecorded(j)'
          BY <5>2 DEF Unrecorded
        <5>4. ~Unrecorded(j)
          BY <2>2 DEF Unrecorded
        <5> QED BY <2>0, <3>1, <4>3, <5>1, <5>2, <5>3, <5>4 DEF JobInv, StateOf
      <4> QED BY <4>2, <4>3
    <3>4. OneOwner'
      BY <3>1 DEF Coupled, OneOwner
    <3> QED BY <3>2, <3>3, <3>4 DEF Coupled
  <2> QED BY <2>1, <2>2
<1>5. CASE ShutdownBegin(c)
  <2>1. /\ pc' = [pc EXCEPT ![c] = "collect"]
        /\ UNCHANGED <<state, at, out, finished, status, result, fired, told, taken>>
    BY <1>5 DEF ShutdownBegin, Goto, jobVars, userVars
  <2> QED
    BY <1>c, <2>1, MoveKeepsCoupled DEF TypeOK, ClientLabels, Owning, Busy
<1> QED BY <1>1, <1>3, <1>4, <1>5 DEF ClientCall

\* Coupled is inductive.
LEMMA NextCoupled == TypeOK /\ Coupled /\ [Next]_vars => Coupled'
<1> SUFFICES ASSUME TypeOK, Coupled, [Next]_vars PROVE Coupled'
  OBVIOUS
<1>1. CASE Next
  BY <1>1, WorkerKeepsCoupled, ClientKeepsCoupled, CallKeepsCoupled DEF Next
<1>2. CASE UNCHANGED vars
  BY <1>2, MoveKeepsCoupled DEF vars, jobVars, userVars
<1> QED BY <1>1, <1>2

-----------------------------------------------------------------------------
\* The types of every variable and the invariant that couples threads and jobs hold in
\* every reachable state, whatever the number of jobs, workers and clients.
THEOREM Invariance == Spec => [](TypeOK /\ Coupled)
<1>1. Init => TypeOK /\ Coupled
  BY InitCoupled
<1>2. TypeOK /\ Coupled /\ [Next]_vars => (TypeOK /\ Coupled)'
  BY NextTypeOK, NextCoupled
<1> QED BY <1>1, <1>2, PTL DEF Spec

\* The variables keep their types.
THEOREM TypeCorrect == Spec => []TypeOK
  BY Invariance, PTL

\* No job is run or finished by two threads, however Job::Cancel and Job::Execute race.
THEOREM SingleOwner == Spec => []OneOwner
<1>1. Coupled => OneOwner
  BY DEF Coupled
<1> QED BY <1>1, Invariance, PTL

\* The callback, the record Finish made and the job's state agree.
THEOREM OutcomesAlwaysAgree == Spec => []OutcomesAgree
<1>1. Coupled => OutcomesAgree
  BY DEF Coupled, JobInv, OutcomesAgree
<1> QED BY <1>1, Invariance, PTL

\* No result is lost and none is handed out twice.
THEOREM ResultsAccounted == Spec => []ResultAccounted
<1>1. Coupled => ResultAccounted
  BY DEF Coupled, JobInv, ResultAccounted
<1> QED BY <1>1, Invariance, PTL

-----------------------------------------------------------------------------
(* The pool implements AsyncJob.                                           *)

\* What a step does to the job states and to what the owner sees: nothing, or one of
\* the four moves of AsyncJob on one job, or the failure of a success that could not be
\* serialised, which no job of the promise meets.
Moves(j) ==
  \/ /\ state[j] = "PENDING" /\ state' = [state EXCEPT ![j] = "RUNNING"]
     /\ UNCHANGED <<finished, status, fired, told, taken>>
  \/ /\ state[j] = "RUNNING" /\ UNCHANGED <<finished, status, fired, told, taken>>
     /\ \E o \in Terminal : state' = [state EXCEPT ![j] = o]
  \/ /\ Unrecorded(j) /\ state[j] = "SUCCEEDED"
     /\ state' = [state EXCEPT ![j] = "FAILED"]
     /\ UNCHANGED <<finished, status, fired, told, taken>>
  \/ /\ state[j] = "PENDING" /\ state' = [state EXCEPT ![j] = "CANCELLED"]
     /\ UNCHANGED <<finished, status, fired, told, taken>>
  \/ /\ state[j] \in Terminal /\ fired[j] = 0
     /\ fired' = [fired EXCEPT ![j] = 1]
     /\ \E s \in Statuses : told' = [told EXCEPT ![j] = s] /\ StateOf(s) = state[j]
     /\ UNCHANGED <<state, finished, status, taken>>
  \/ /\ state[j] = "SUCCEEDED" /\ taken[j] = 0
     /\ taken' = [taken EXCEPT ![j] = 1]
     /\ UNCHANGED <<state, finished, status, fired, told>>
  \/ /\ ~finished[j]
     /\ \E s \in Statuses : status' = [status EXCEPT ![j] = s]
     /\ finished' = [finished EXCEPT ![j] = TRUE]
     /\ UNCHANGED <<state, fired, told, taken>>

\* Every step of the pool is such a move or leaves them alone.
LEMMA StepMoves ==
  ASSUME TypeOK, Coupled, [Next]_vars
  PROVE  \/ \E j \in Jobs : Moves(j)
         \/ UNCHANGED <<state, finished, status, fired, told, taken>>
<1> DEFINE Quiet == UNCHANGED <<state, finished, status, fired, told, taken>>
<1> DEFINE Goal == Quiet \/ \E j \in Jobs : Moves(j)
<1> SUFFICES Goal
  OBVIOUS
<1>t. Workers \subseteq Threads /\ Clients \subseteq Threads
  BY DEF Threads
<1>j. \A t \in Threads : ThreadInv(t) /\ (pc[t] \in Busy => at[t] \in Jobs)
  BY DEF Coupled, ThreadInv
<1>1. ASSUME NEW t \in Threads, Finish(t) PROVE Goal
  <2>1. at[t] \in Jobs /\ out[t] \in Statuses
    BY <1>1, <1>j DEF Finish, ThreadInv, Owning, Busy, TypeOK
  <2>2. CASE finished[at[t]]
    BY <1>1, <2>2 DEF Finish, userVars
  <2>3. CASE ~finished[at[t]]
    <3>1. /\ status' = [status EXCEPT ![at[t]] = out[t]]
          /\ finished' = [finished EXCEPT ![at[t]] = TRUE]
          /\ UNCHANGED <<state, fired, told, taken>>
      BY <1>1, <2>3 DEF Finish, userVars
    <3>2. Moves(at[t])
      BY <2>1, <2>3, <3>1 DEF Moves
    <3> QED BY <2>1, <3>2
  <2> QED BY <2>2, <2>3
<1>2. ASSUME NEW t \in Threads, Callback(t) PROVE Goal
  <2>1. /\ at[t] \in Jobs /\ out[t] \in Statuses /\ fired[at[t]] = 0
        /\ state[at[t]] = StateOf(out[t])
    BY <1>2, <1>j DEF Callback, ThreadInv, Owning, Busy, TypeOK
  <2>2. /\ fired' = [fired EXCEPT ![at[t]] = @ + 1]
        /\ told' = [told EXCEPT ![at[t]] = out[t]]
        /\ UNCHANGED <<state, finished, status, taken>>
    BY <1>2 DEF Callback, jobVars
  <2>3. fired' = [fired EXCEPT ![at[t]] = 1]
    BY <2>1, <2>2 DEF TypeOK
  <2>4. state[at[t]] \in Terminal
    BY <2>1, StateOfTerminal
  <2>5. Moves(at[t])
    BY <2>1, <2>2, <2>3, <2>4 DEF Moves
  <2> QED BY <2>1, <2>5
<1>3. ASSUME NEW w \in Workers, WorkerStep(w) PROVE Goal
  <2>1. CASE WorkerSleep(w) \/ WorkerExit(w) \/ WorkerPop(w)
    BY <2>1 DEF WorkerSleep, WorkerExit, WorkerPop, jobVars, userVars
  <2>2. CASE Claim(w)
    <3>1. at[w] \in Jobs
      BY <1>t, <1>j, <2>2 DEF Claim, Busy
    <3>2. CASE state[at[w]] = "PENDING"
      <4>1. /\ state' = [state EXCEPT ![at[w]] = "RUNNING"]
            /\ UNCHANGED <<finished, status, fired, told, taken>>
        BY <2>2, <3>2 DEF Claim, userVars
      <4>2. Moves(at[w])
        BY <3>2, <4>1 DEF Moves
      <4> QED BY <3>1, <4>2
    <3>3. CASE state[at[w]] # "PENDING"
      BY <2>2, <3>3 DEF Claim, userVars
    <3> QED BY <3>2, <3>3
  <2>3. CASE BodyReturns(w) \/ BodyThrows(w) \/ CheckCancel(w)
    BY <2>3 DEF BodyReturns, BodyThrows, CheckCancel, jobVars, userVars
  <2>4. CASE StoreState(w)
    <3>1. /\ at[w] \in Jobs /\ StateOf(out[w]) \in Terminal
          /\ \/ state[at[w]] = "RUNNING"
             \/ Unrecorded(at[w]) /\ state[at[w]] = "SUCCEEDED" /\ out[w] = "ERROR"
      BY <1>t, <1>j, <2>4, StateOfTerminal DEF StoreState, ThreadInv, Busy, Owning, TypeOK
    <3>2. /\ state' = [state EXCEPT ![at[w]] = StateOf(out[w])]
          /\ UNCHANGED <<finished, status, fired, told, taken>>
      BY <2>4 DEF StoreState, userVars
    <3>3. out[w] = "ERROR" => StateOf(out[w]) = "FAILED"
      BY DEF StateOf
    <3>4. Moves(at[w])
      BY <3>1, <3>2, <3>3 DEF Moves
    <3> QED BY <3>1, <3>4
  <2>5. CASE FinishThrows(w)
    <3>1. at[w] \in Jobs /\ ~finished[at[w]] /\ status[at[w]] \in Statuses
      BY <1>t, <1>j, <2>5 DEF FinishThrows, Busy, Owning, TypeOK
    <3>2. /\ finished' = [finished EXCEPT ![at[w]] = TRUE]
          /\ UNCHANGED <<state, status, fired, told, taken>>
      BY <2>5 DEF FinishThrows, userVars
    <3>3. status' = [status EXCEPT ![at[w]] = status[at[w]]]
      BY <3>2 DEF TypeOK
    <3>4. Moves(at[w])
      BY <3>1, <3>2, <3>3 DEF Moves
    <3> QED BY <3>1, <3>4
  <2> QED BY <1>t, <1>1, <1>2, <1>3, <2>1, <2>2, <2>3, <2>4, <2>5 DEF WorkerStep
<1>4. ASSUME NEW c \in Clients, ClientStep(c) PROVE Goal
  <2>1. CASE CancelSwap(c)
    <3>1. at[c] \in Jobs
      BY <1>t, <1>j, <2>1 DEF CancelSwap, Busy
    <3>2. CASE state[at[c]] = "PENDING"
      <4>1. /\ state' = [state EXCEPT ![at[c]] = "CANCELLED"]
            /\ UNCHANGED <<finished, status, fired, told, taken>>
        BY <2>1, <3>2 DEF CancelSwap, userVars
      <4>2. Moves(at[c])
        BY <3>2, <4>1 DEF Moves
      <4> QED BY <3>1, <4>2
    <3>3. CASE state[at[c]] # "PENDING"
      BY <2>1, <3>3 DEF CancelSwap, userVars
    <3> QED BY <3>2, <3>3
  <2>2. CASE \/ SubmitPush(c) \/ SubmitNotify(c) \/ WaitReturn(c) \/ TakeReadsState(c)
             \/ TakeReportsFailure(c) \/ TakeReportsTaken(c)
    BY <2>2 DEF SubmitPush, SubmitNotify, WaitReturn, TakeReadsState, TakeReportsFailure,
                TakeReportsTaken, jobVars, userVars
  <2>3. CASE \/ ShutdownCollect(c) \/ ShutdownCancels(c) \/ ShutdownNotify(c) \/ ShutdownJoin(c)
    BY <2>3 DEF ShutdownCollect, ShutdownCancels, ShutdownNotify, ShutdownJoin, jobVars, userVars
  <2> QED BY <1>t, <1>1, <1>2, <1>4, <2>1, <2>2, <2>3 DEF ClientStep
<1>5. ASSUME NEW c \in Clients, ClientCall(c) PROVE Goal
  <2>1. ASSUME NEW j \in Jobs, TakeResult(c, j) PROVE Goal
    <3>1. CASE result[j]
      <4>1. JobInv(j)
        BY DEF Coupled
      <4>2. finished[j] /\ status[j] = "OK" /\ taken[j] = 0
        BY <3>1, <4>1 DEF JobInv
      <4>3. state[j] = "SUCCEEDED"
        BY <3>1, <4>1, <4>2 DEF JobInv, StateOf, Unrecorded
      <4>4. /\ taken' = [taken EXCEPT ![j] = @ + 1]
            /\ UNCHANGED <<state, finished, status, fired, told>>
        BY <2>1, <3>1 DEF TakeResult
      <4>5. taken' = [taken EXCEPT ![j] = 1]
        BY <4>2, <4>4 DEF TypeOK
      <4>6. Moves(j)
        BY <4>2, <4>3, <4>4, <4>5 DEF Moves
      <4> QED BY <4>6
    <3>2. CASE ~result[j]
      BY <2>1, <3>2 DEF TakeResult
    <3> QED BY <3>1, <3>2
  <2>2. ASSUME NEW j \in Jobs,
               \/ SubmitRefused(c, j) \/ SubmitAccepted(c, j) \/ CancelRequest(c, j)
               \/ WaitStart(c, j) \/ Release(c, j)
        PROVE  Goal
    BY <2>2 DEF SubmitRefused, SubmitAccepted, CancelRequest, WaitStart, Release, jobVars, userVars
  <2>3. CASE ShutdownBegin(c)
    BY <2>3 DEF ShutdownBegin, jobVars, userVars
  <2> QED BY <1>5, <2>1, <2>2, <2>3 DEF ClientCall
<1>6. ASSUME NEW w \in Workers, WorkerWakesSpuriously(w) \/ CallbackCancels(w) PROVE Goal
  BY <1>6 DEF WorkerWakesSpuriously, CallbackCancels, jobVars, userVars
<1>7. ASSUME NEW c \in Clients, WaitTimeout(c) PROVE Goal
  BY <1>7 DEF WaitTimeout, jobVars, userVars
<1>8. CASE UNCHANGED vars
  BY <1>8 DEF vars, jobVars, userVars
<1> QED BY <1>3, <1>4, <1>5, <1>6, <1>7, <1>8 DEF Next

\* A terminal state is final, but for a success that cannot be serialised, and a job is
\* finished once, in every behaviour.
THEOREM TerminalStaysFinal == Spec => TerminalIsFinal
<1>1. TypeOK /\ Coupled /\ [Next]_vars
      => [\A j \in Jobs :
            /\ state[j] \in Terminal =>
                 \/ state'[j] = state[j]
                 \/ Unrecorded(j) /\ state[j] = "SUCCEEDED" /\ state'[j] = "FAILED"
            /\ finished[j] => finished'[j] /\ status'[j] = status[j]]_vars
  <2> SUFFICES ASSUME TypeOK, Coupled, [Next]_vars, NEW i \in Jobs
               PROVE  /\ state[i] \in Terminal =>
                           \/ state'[i] = state[i]
                           \/ Unrecorded(i) /\ state[i] = "SUCCEEDED" /\ state'[i] = "FAILED"
                      /\ finished[i] => finished'[i] /\ status'[i] = status[i]
    OBVIOUS
  <2>1. ASSUME NEW j \in Jobs, Moves(j)
        PROVE  /\ state[i] \in Terminal =>
                    \/ state'[i] = state[i]
                    \/ Unrecorded(i) /\ state[i] = "SUCCEEDED" /\ state'[i] = "FAILED"
               /\ finished[i] => finished'[i] /\ status'[i] = status[i]
    BY <2>1 DEF Moves, TypeOK, Terminal
  <2> QED BY <2>1, StepMoves
<1> QED BY <1>1, Invariance, PTL DEF Spec, TerminalIsFinal

\* A change of one job, seen by the jobs of the promise.
LEMMA SeenBy ==
  ASSUME NEW D, NEW J, NEW f, NEW g, NEW j \in J, NEW v, D \subseteq J,
         \A i \in J : g[i] = IF i = j THEN v ELSE f[i]
  PROVE  [i \in D |-> g[i]]
         = IF j \in D THEN [[i \in D |-> f[i]] EXCEPT ![j] = v] ELSE [i \in D |-> f[i]]
<1>1. CASE j \in D
  <2> DEFINE old == [i \in D |-> f[i]]
  <2> DEFINE new == [i \in D |-> g[i]]
  <2>1. \A i \in D : [old EXCEPT ![j] = v][i] = new[i]
    OBVIOUS
  <2>2. DOMAIN [old EXCEPT ![j] = v] = D
    OBVIOUS
  <2> QED BY <1>1, <2>1, <2>2
<1>2. CASE j \notin D
  BY <1>2
<1> QED BY <1>1, <1>2

\* JobPool implements AsyncJob: every step is a move of the abstract job or a stutter.
THEOREM Refinement == Spec => KeepsPromise
<1> DEFINE ToldAs(s) == IF s = "none" THEN "none" ELSE StateOf(s)
<1>d. Dumpable \subseteq Jobs
  BY DEF Dumpable
<1>1. Init => Promise!Init
  BY <1>d DEF Init, Promise!Init
<1>2. TypeOK /\ Coupled /\ [Next]_vars => [Promise!Next]_(Promise!vars)
  <2> SUFFICES ASSUME TypeOK, Coupled, [Next]_vars
               PROVE  [Promise!Next]_(Promise!vars)
    OBVIOUS
  <2>1. ASSUME NEW j \in Jobs, Moves(j) PROVE [Promise!Next]_(Promise!vars)
    <3>1. ASSUME NEW o, state' = [state EXCEPT ![j] = o], UNCHANGED <<fired, told, taken>>
          PROVE  /\ [i \in Dumpable |-> state'[i]]
                    = IF j \in Dumpable
                        THEN [[i \in Dumpable |-> state[i]] EXCEPT ![j] = o]
                        ELSE [i \in Dumpable |-> state[i]]
      <4>1. \A i \in Jobs : state'[i] = IF i = j THEN o ELSE state[i]
        BY <3>1 DEF TypeOK
      <4> QED BY <4>1, <1>d, SeenBy
    <3>2. ASSUME NEW o \in Terminal, j \in Dumpable,
                 \/ state[j] = "RUNNING"
                 \/ state[j] = "PENDING" /\ o = "CANCELLED",
                 state' = [state EXCEPT ![j] = o], UNCHANGED <<fired, told, taken>>
          PROVE  Promise!Next
      <4>1. Promise!Settle(j, o) /\ o \in Promise!Outcomes
        BY <3>1, <3>2 DEF Promise!Settle, Promise!Outcomes, Terminal
      <4> QED BY <3>2, <4>1 DEF Promise!Next
    <3>3. CASE j \notin Dumpable
      <4>1. \A i \in Dumpable : /\ state'[i] = state[i] /\ fired'[i] = fired[i]
                                /\ told'[i] = told[i] /\ taken'[i] = taken[i]
        BY <1>d, <2>1, <3>3 DEF Moves, TypeOK
      <4>2. \A i \in Dumpable : ToldAs(told'[i]) = ToldAs(told[i])
        BY <4>1 DEF StateOf
      <4> QED BY <4>1, <4>2 DEF Promise!vars
    <3>4. CASE j \in Dumpable
      <4>1. CASE state[j] = "PENDING" /\ state' = [state EXCEPT ![j] = "RUNNING"]
                 /\ UNCHANGED <<fired, told, taken>>
        <5>1. Promise!Start(j)
          BY <3>1, <3>4, <4>1 DEF Promise!Start
        <5> QED BY <3>4, <5>1 DEF Promise!Next
      <4>2. ASSUME NEW s \in Statuses, state[j] \in Terminal, fired[j] = 0,
                   fired' = [fired EXCEPT ![j] = 1], told' = [told EXCEPT ![j] = s],
                   StateOf(s) = state[j], UNCHANGED <<state, taken>>
            PROVE  Promise!Next
        <5>1. \A i \in Jobs : ToldAs(told'[i]) = IF i = j THEN state[j] ELSE ToldAs(told[i])
          BY <4>2 DEF TypeOK, Statuses
        <5>2. \A i \in Jobs : fired'[i] = IF i = j THEN 1 ELSE fired[i]
          BY <4>2 DEF TypeOK
        <5>3. [i \in Dumpable |-> fired'[i]] = [[i \in Dumpable |-> fired[i]] EXCEPT ![j] = 1]
          BY <1>d, <3>4, <5>2, SeenBy
        <5>4. [i \in Dumpable |-> ToldAs(told'[i])]
              = [[i \in Dumpable |-> ToldAs(told[i])] EXCEPT ![j] = state[j]]
          <6> DEFINE was == [i \in Jobs |-> ToldAs(told[i])]
          <6> DEFINE is == [i \in Jobs |-> ToldAs(told'[i])]
          <6>1. \A i \in Jobs : is[i] = IF i = j THEN state[j] ELSE was[i]
            BY <5>1
          <6>2. /\ \A i \in Dumpable : is[i] = ToldAs(told'[i])
                /\ \A i \in Dumpable : was[i] = ToldAs(told[i])
            BY <1>d
          <6> HIDE DEF was, is, ToldAs
          <6>3. [i \in Dumpable |-> is[i]] = [[i \in Dumpable |-> was[i]] EXCEPT ![j] = state[j]]
            BY <1>d, <3>4, <6>1, SeenBy
          <6> QED BY <6>2, <6>3
        <5>5. Promise!Notify(j)
          BY <3>4, <4>2, <5>3, <5>4 DEF Promise!Notify, Promise!Outcomes, Terminal
        <5> QED BY <3>4, <5>5 DEF Promise!Next
      <4>3. CASE /\ state[j] = "SUCCEEDED" /\ taken[j] = 0
                 /\ taken' = [taken EXCEPT ![j] = 1] /\ UNCHANGED <<state, fired, told>>
        <5>1. \A i \in Jobs : taken'[i] = IF i = j THEN 1 ELSE taken[i]
          BY <4>3 DEF TypeOK
        <5>2. [i \in Dumpable |-> taken'[i]] = [[i \in Dumpable |-> taken[i]] EXCEPT ![j] = 1]
          BY <1>d, <3>4, <5>1, SeenBy
        <5>3. Promise!Take(j)
          BY <3>4, <4>3, <5>2 DEF Promise!Take
        <5> QED BY <3>4, <5>3 DEF Promise!Next
      <4>4. CASE UNCHANGED <<state, fired, told, taken>>
        BY <4>4 DEF Promise!vars, StateOf
      <4>5. "CANCELLED" \in Terminal /\ ~Unrecorded(j)
        BY <3>4 DEF Terminal, Unrecorded, Dumpable
      <4> QED BY <2>1, <3>2, <3>4, <4>1, <4>2, <4>3, <4>4, <4>5 DEF Moves
    <3> QED BY <3>3, <3>4
  <2>2. CASE UNCHANGED <<state, finished, status, fired, told, taken>>
    BY <2>2 DEF Promise!vars, StateOf
  <2> QED BY <2>1, <2>2, StepMoves
<1> QED BY <1>1, <1>2, Invariance, PTL DEF Spec, KeepsPromise, Promise!Spec

-----------------------------------------------------------------------------
(* What a finished shutdown leaves behind.                                 *)

\* The initial state satisfies the invariant about the shutdown.
LEMMA InitAttended == Init => Attended
<1> SUFFICES ASSUME Init PROVE Attended
  OBVIOUS
<1>1. \A t \in Threads : pc[t] \in {"poll", "idle"}
  BY DEF Init
<1>2. ShutterInv
  BY <1>1 DEF Init, ShutterInv, Threads
<1>3. ASSUME NEW j \in Jobs PROVE TakenOn(j)
  BY DEF Init, TakenOn
<1> QED BY <1>2, <1>3 DEF Attended

\* A worker's steps do not touch the shutdown, and a worker that has left makes none.
LEMMA WorkerKeepsShutter ==
  ASSUME TypeOK, ShutterInv, NEW w \in Workers,
         WorkerStep(w) \/ WorkerWakesSpuriously(w) \/ CallbackCancels(w)
  PROVE  ShutterInv'
<1>1. pc[w] # "exited"
  BY DEF WorkerStep, WorkerSleep, WorkerExit, WorkerPop, Claim, BodyReturns, BodyThrows,
         CheckCancel, StoreState, Finish, FinishThrows, Callback, WorkerWakesSpuriously,
         CallbackCancels
<1>2. UNCHANGED <<shutter, shuttingDown, toCancel>>
  BY DEF WorkerStep, WorkerSleep, WorkerExit, WorkerPop, Claim, BodyReturns, BodyThrows,
         CheckCancel, StoreState, Finish, FinishThrows, Callback, WorkerWakesSpuriously,
         CallbackCancels,
         poolVars
<1>3. \A t \in Threads \ {w} : pc'[t] = pc[t]
  BY DEF WorkerStep, WorkerSleep, WorkerExit, WorkerPop, Claim, BodyReturns, BodyThrows,
         CheckCancel, StoreState, Finish, FinishThrows, Callback, WorkerWakesSpuriously,
         CallbackCancels,
         Return, Enter, Goto, TypeOK
<1>4. ~(shuttingDown /\ shutter = NoThread)
  BY <1>1 DEF ShutterInv
<1>5. \A c \in Clients : pc'[c] = pc[c]
  BY <1>3, ConstantsAssumption DEF Threads
<1>6. shutter # NoThread => shutter \in Clients
  BY DEF TypeOK
<1> QED BY <1>2, <1>4, <1>5, <1>6 DEF ShutterInv

\* A client's steps that are not the shutdown's own: one client's label changes, and the
\* shutting thread only goes through a cancellation.
LEMMA ClientMoveKeepsShutter ==
  ASSUME TypeOK, ShutterInv, NEW c \in Clients,
         UNCHANGED <<shutter, shuttingDown, toCancel>>,
         \A t \in Threads \ {c} : pc'[t] = pc[t] \/ pc[t] = "asleep",
         IF c = shutter
           THEN /\ pc'[c] \in {"cancelling", "cas", "finish", "callback"}
                /\ pc[c] \in {"cancelling", "cas", "finish", "callback"}
           ELSE pc'[c] \notin {"collect", "cancelling", "join"},
         \A d \in Clients \ {c} : pc'[d] = pc[d]
  PROVE  ShutterInv'
<1>1. shutter # NoThread => shutter \in Clients
  BY DEF TypeOK
<1>2. \A w \in Workers : pc[w] = "exited" => pc'[w] = "exited"
  BY ConstantsAssumption DEF Threads
<1> QED BY <1>1, <1>2 DEF ShutterInv

\* A step of a client keeps the invariant about the shutdown.
LEMMA ClientKeepsShutter ==
  ASSUME TypeOK, Coupled, ShutterInv, NEW c \in Clients,
         ClientStep(c) \/ ClientCall(c) \/ WaitTimeout(c)
  PROVE  ShutterInv'
<1>c. c \in Threads /\ c \notin Workers
  BY ConstantsAssumption DEF Threads
<1>s. /\ shutter # NoThread => shutter \in Clients
      /\ shutter = c => pc[c] \in {"collect", "cancelling", "cas", "finish", "callback", "join"}
      /\ pc[c] \in {"collect", "cancelling", "join"} => c = shutter
  BY ConstantsAssumption DEF TypeOK, ShutterInv, Threads
<1>1. CASE SubmitPush(c)
  BY <1>1, <1>c, <1>s, ClientMoveKeepsShutter DEF SubmitPush, Goto, TypeOK
<1>2. CASE SubmitNotify(c)
  <2>1. /\ c # shutter /\ pc'[c] = "idle"
        /\ UNCHANGED <<shutter, shuttingDown, toCancel>>
    BY <1>2, <1>c, <1>s DEF SubmitNotify, Goto, poolVars, TypeOK
  <2>2. \A t \in Threads \ {c} : pc'[t] = pc[t] \/ (t \in Workers /\ pc[t] = "asleep")
    BY <1>2, <1>c DEF SubmitNotify, Goto, TypeOK, Threads
  <2> QED BY <2>1, <2>2, ClientMoveKeepsShutter, ConstantsAssumption DEF Threads
<1>3. CASE \/ WaitReturn(c) \/ WaitTimeout(c) \/ TakeReadsState(c)
           \/ TakeReportsFailure(c) \/ TakeReportsTaken(c)
  <2>1. /\ c # shutter
        /\ UNCHANGED <<shutter, shuttingDown, toCancel>>
    BY <1>3, <1>s DEF WaitReturn, WaitTimeout, TakeReadsState, TakeReportsFailure,
                      TakeReportsTaken, poolVars
  <2>2. pc' = [pc EXCEPT ![c] = "idle"] \/ pc' = [pc EXCEPT ![c] = "takeRaise"]
    BY <1>3, <1>c, <2>1 DEF WaitReturn, WaitTimeout, TakeReadsState, TakeReportsFailure,
                            TakeReportsTaken, Return, Resume, Enter, Goto
  <2>3. /\ pc'[c] \in {"idle", "takeRaise"}
        /\ \A t \in Threads \ {c} : pc'[t] = pc[t]
    BY <1>c, <2>2 DEF TypeOK
  <2> QED BY <2>1, <2>3, ClientMoveKeepsShutter DEF Threads
<1>4. CASE CancelSwap(c) \/ Finish(c) \/ Callback(c)
  <2>1. /\ pc[c] \in {"cas", "finish", "callback"}
        /\ UNCHANGED <<shutter, shuttingDown, toCancel>>
    BY <1>4 DEF CancelSwap, Finish, Callback, poolVars
  <2>2. \/ pc' = [pc EXCEPT ![c] = "finish"] \/ pc' = [pc EXCEPT ![c] = "callback"]
        \/ pc' = [pc EXCEPT ![c] = Resume(c)]
    BY <1>4 DEF CancelSwap, Finish, Callback, Return, Enter, Goto
  <2>3. Resume(c) = IF c = shutter THEN "cancelling" ELSE "idle"
    BY <1>c DEF Resume
  <2>4. /\ pc'[c] \in {"finish", "callback", Resume(c)}
        /\ \A t \in Threads \ {c} : pc'[t] = pc[t]
    BY <1>c, <2>2 DEF TypeOK
  <2> QED BY <2>1, <2>3, <2>4, ClientMoveKeepsShutter DEF Threads
<1>5. CASE ShutdownCollect(c)
  <2>1. /\ c = shutter /\ UNCHANGED <<shutter, shuttingDown>>
        /\ pc' = [pc EXCEPT ![c] = "cancelling"]
    BY <1>5, <1>s DEF ShutdownCollect, Goto
  <2>2. pc'[c] = "cancelling" /\ \A d \in Clients \ {c} : pc'[d] = pc[d]
    BY <1>c, <2>1 DEF TypeOK, Threads
  <2>3. shutter # NoThread
    BY <2>1, <1>c, ConstantsAssumption
  <2> QED BY <2>1, <2>2, <2>3 DEF ShutterInv
<1>6. CASE ShutdownCancels(c)
  BY <1>6, <1>c, <1>s DEF ShutdownCancels, Enter, Goto, ShutterInv, TypeOK, Threads
<1>7. CASE ShutdownNotify(c)
  <2>1. /\ c = shutter /\ shutter # NoThread /\ toCancel' = {}
        /\ UNCHANGED <<shutter, shuttingDown>>
    BY <1>7, <1>c, <1>s, ConstantsAssumption DEF ShutdownNotify, poolVars, Threads
  <2>2. pc'[c] = "join"
    BY <1>7, <1>c DEF ShutdownNotify
  <2>3. \A d \in Clients \ {c} : pc'[d] = pc[d]
    <3>1. \A d \in Clients : pc[d] # "asleep"
      BY ConstantsAssumption DEF Coupled, ThreadInv, ClientLabels, Threads
    <3> QED BY <1>7, <3>1 DEF ShutdownNotify, Threads
  <2> QED BY <2>1, <2>2, <2>3 DEF ShutterInv
<1>8. CASE ShutdownJoin(c)
  <2>1. /\ c = shutter /\ shutter' = NoThread /\ toCancel = {}
        /\ UNCHANGED <<shuttingDown, toCancel>>
        /\ pc' = [pc EXCEPT ![c] = "idle"]
        /\ \A w \in Workers : pc[w] = "exited"
    BY <1>8, <1>s DEF ShutdownJoin, ShutterInv, Goto
  <2>2. \A d \in Clients : pc'[d] \notin {"collect", "cancelling", "join"}
    BY <1>c, <2>1 DEF ShutterInv, TypeOK, Threads
  <2>3. \A w \in Workers : pc'[w] = "exited"
    BY <1>c, <2>1 DEF TypeOK, Threads
  <2> QED BY <2>1, <2>2, <2>3 DEF ShutterInv
<1>9. CASE ShutdownBegin(c)
  <2>1. /\ shutter = NoThread /\ toCancel = {} /\ shutter' = c /\ shuttingDown'
        /\ toCancel' = {} /\ pc' = [pc EXCEPT ![c] = "collect"]
    BY <1>9 DEF ShutdownBegin, ShutterInv, Goto
  <2>2. \A d \in Clients : pc'[d] \in {"collect", "cancelling", "join"} => d = c
    BY <1>c, <2>1, ConstantsAssumption DEF ShutterInv, TypeOK, Threads
  <2> QED BY <1>c, <2>1, <2>2, ConstantsAssumption DEF ShutterInv, TypeOK, Threads
<1>10. ASSUME NEW j \in Jobs,
              \/ SubmitRefused(c, j) \/ SubmitAccepted(c, j) \/ CancelRequest(c, j)
              \/ WaitStart(c, j) \/ TakeResult(c, j) \/ Release(c, j)
       PROVE  ShutterInv'
  <2>1. /\ c # shutter
        /\ UNCHANGED <<shutter, shuttingDown, toCancel>>
    BY <1>10, <1>s DEF SubmitRefused, SubmitAccepted, CancelRequest, WaitStart, TakeResult,
                       Release, poolVars
  <2>2. pc' = pc \/ \E l \in {"push", "cas", "wait", "takeState"} : pc' = [pc EXCEPT ![c] = l]
    BY <1>10 DEF SubmitRefused, SubmitAccepted, CancelRequest, WaitStart, TakeResult,
                 Release, Enter, Goto
  <2>3. /\ pc'[c] \notin {"collect", "cancelling", "join"}
        /\ \A t \in Threads \ {c} : pc'[t] = pc[t]
    BY <1>c, <1>s, <2>1, <2>2 DEF TypeOK
  <2> QED BY <2>1, <2>3, ClientMoveKeepsShutter DEF Threads
<1> QED
  BY <1>1, <1>2, <1>3, <1>4, <1>5, <1>6, <1>7, <1>8, <1>9, <1>10 DEF ClientStep, ClientCall

\* A worker's step on its own job keeps every job that is not over attended to.
LEMMA WorkerKeepsTakenOn ==
  ASSUME TypeOK, Coupled, NEW w \in Workers, NEW j \in Jobs, TakenOn(j),
         WorkerStep(w) \/ WorkerWakesSpuriously(w) \/ CallbackCancels(w)
  PROVE  TakenOn(j)'
<1>w. w \in Threads /\ Workers \subseteq Threads
  BY DEF Threads
<1>0. /\ UNCHANGED <<phase, toCancel, shutter>>
      /\ Cancelling(j) => Cancelling(j)'
  <2>1. UNCHANGED <<phase, toCancel, shutter>>
    BY DEF WorkerStep, WorkerSleep, WorkerExit, WorkerPop, Claim, BodyReturns, BodyThrows,
           CheckCancel, StoreState, Finish, FinishThrows, Callback, WorkerWakesSpuriously,
           CallbackCancels,
           userVars, poolVars
  <2>2. \A t \in Threads \ {w} : pc'[t] = pc[t] /\ at'[t] = at[t]
    BY DEF WorkerStep, WorkerSleep, WorkerExit, WorkerPop, Claim, BodyReturns, BodyThrows,
           CheckCancel, StoreState, Finish, FinishThrows, Callback, WorkerWakesSpuriously,
           CallbackCancels,
           Return, Enter, Goto, TypeOK
  <2>3. shutter # NoThread => shutter \in Threads \ {w}
    BY ConstantsAssumption DEF TypeOK, Threads
  <2> QED BY <2>1, <2>2, <2>3 DEF Cancelling
<1>m. ASSUME UNCHANGED <<state, queue, at>>, NEW l \in WorkerLabels,
             pc' = [pc EXCEPT ![w] = l],
             pc[w] \in {"body", "returned"} => l \in {"body", "returned", "store"},
             pc[w] \notin {"claim", "store"}
      PROVE  TakenOn(j)'
  <2>1. Held(j, {"body", "returned", "store"}) => Held(j, {"body", "returned", "store"})'
    BY <1>w, <1>m DEF Held, TypeOK
  <2>2. Held(j, {"claim", "body", "returned", "store"})
          => Held(j, {"claim", "body", "returned", "store"})'
    BY <1>w, <1>m DEF Held, TypeOK
  <2>3. Queued' = Queued
    BY <1>m DEF Queued
  <2> QED BY <1>0, <1>m, <2>1, <2>2, <2>3 DEF TakenOn
<1>1. CASE WorkerSleep(w) \/ WorkerExit(w) \/ WorkerWakesSpuriously(w)
  BY <1>1, <1>m DEF WorkerSleep, WorkerExit, WorkerWakesSpuriously, Goto, jobVars, poolVars,
                    WorkerLabels
<1>2. CASE BodyReturns(w) \/ BodyThrows(w) \/ CheckCancel(w)
  BY <1>2, <1>m DEF BodyReturns, BodyThrows, CheckCancel, Goto, jobVars, poolVars,
                    WorkerLabels, Owning
<1>3. CASE CallbackCancels(w)
  BY <1>0, <1>3 DEF CallbackCancels, poolVars, TakenOn, Held, Queued
<1>4. CASE WorkerPop(w)
  <2>1. /\ pc' = [pc EXCEPT ![w] = "claim"] /\ at' = [at EXCEPT ![w] = Head(queue)]
        /\ UNCHANGED state /\ pc[w] = "poll" /\ queue' = Tail(queue) /\ queue # <<>>
    BY <1>4 DEF WorkerPop, Enter, Goto, jobVars
  <2>2. Held(j, {"body", "returned", "store"}) => Held(j, {"body", "returned", "store"})'
    BY <1>w, <2>1 DEF Held, TypeOK
  <2>3. Held(j, {"claim", "body", "returned", "store"})
          => Held(j, {"claim", "body", "returned", "store"})'
    BY <1>w, <2>1 DEF Held, TypeOK
  <2>4. j \in Queued => j \in Queued' \/ j = Head(queue)
    <3>1. queue \in Seq(Jobs)
      BY DEF TypeOK
    <3>2. Head(queue) = queue[1]
      BY <2>1, <3>1
    <3>3. ASSUME NEW i \in 1..Len(queue), queue[i] = j PROVE j \in Queued' \/ j = Head(queue)
      <4>1. CASE i = 1
        BY <3>2, <3>3, <4>1
      <4>2. CASE i # 1
        <5>1. i - 1 \in 1..Len(Tail(queue)) /\ Tail(queue)[i - 1] = j
          BY <2>1, <3>1, <3>3, <4>2
        <5> QED BY <2>1, <5>1 DEF Queued
      <4> QED BY <4>1, <4>2
    <3> QED BY <3>3 DEF Queued
  <2>5. j = Head(queue) => Held(j, {"claim", "body", "returned", "store"})'
    BY <1>w, <2>1 DEF Held, TypeOK
  <2> QED BY <1>0, <2>1, <2>2, <2>3, <2>4, <2>5 DEF TakenOn
<1>5. CASE Claim(w)
  <2>0. /\ pc[w] = "claim" /\ at[w] \in Jobs /\ UNCHANGED queue
        /\ state[j] \in JobStates
    BY <1>5, <1>w DEF Claim, Coupled, ThreadInv, Busy, poolVars, TypeOK
  <2>q. Queued' = Queued
    BY <2>0 DEF Queued
  <2>1. CASE state[at[w]] = "PENDING"
    <3>1. /\ state' = [state EXCEPT ![at[w]] = "RUNNING"]
          /\ pc' = [pc EXCEPT ![w] = "body"] /\ UNCHANGED at
      BY <1>5, <2>1 DEF Claim, Goto
    <3>2. Held(at[w], {"body", "returned", "store"})'
      BY <1>w, <3>1 DEF Held, TypeOK
    <3>3. CASE j = at[w]
      <4>1. Held(j, {"claim", "body", "returned", "store"})'
        BY <3>2, <3>3, <3>1 DEF Held
      <4>2. Held(j, {"body", "returned", "store"})'
        BY <3>2, <3>3, <3>1 DEF Held
      <4> QED BY <4>1, <4>2 DEF TakenOn
    <3>4. CASE j # at[w]
      <4>1. Held(j, {"body", "returned", "store"}) => Held(j, {"body", "returned", "store"})'
        BY <1>w, <3>1, <3>4 DEF Held, TypeOK
      <4>2. Held(j, {"claim", "body", "returned", "store"})
              => Held(j, {"claim", "body", "returned", "store"})'
        BY <1>w, <3>1, <3>4 DEF Held, TypeOK
      <4>3. state'[j] = state[j]
        BY <3>1, <3>4 DEF TypeOK
      <4> QED BY <1>0, <2>q, <4>1, <4>2, <4>3 DEF TakenOn
    <3> QED BY <3>3, <3>4
  <2>2. CASE state[at[w]] # "PENDING"
    <3>1. /\ UNCHANGED state
          /\ pc' = [pc EXCEPT ![w] = "poll"] /\ at' = [at EXCEPT ![w] = NoJob]
      BY <1>5, <2>2 DEF Claim, Return, Resume, Enter, Goto
    <3>2. Held(j, {"body", "returned", "store"}) => Held(j, {"body", "returned", "store"})'
      BY <1>w, <2>0, <3>1 DEF Held, TypeOK
    <3>3. Held(j, {"body", "returned", "store"})'
            => Held(j, {"claim", "body", "returned", "store"})'
      BY DEF Held
    <3>4. Held(j, {"claim", "body", "returned", "store"}) /\ j # at[w]
            => Held(j, {"claim", "body", "returned", "store"})'
      BY <1>w, <3>1 DEF Held, TypeOK
    <3>5. state[j] \in Terminal \/ state[j] = "RUNNING" \/ j # at[w]
      BY <2>0, <2>2 DEF JobStates
    <3> QED BY <1>0, <2>q, <3>1, <3>2, <3>3, <3>4, <3>5 DEF TakenOn
  <2> QED BY <2>1, <2>2
<1>6. CASE StoreState(w)
  <2>1. /\ state' = [state EXCEPT ![at[w]] = StateOf(out[w])]
        /\ pc' = [pc EXCEPT ![w] = "finish"]
        /\ pc[w] = "store" /\ at[w] \in Jobs /\ UNCHANGED <<at, queue>>
    BY <1>6, <1>w DEF StoreState, Goto, Coupled, ThreadInv, Busy, Owning, poolVars
  <2>2. Queued' = Queued
    BY <2>1 DEF Queued
  <2>3. CASE j = at[w]
    <3>1. state'[j] \in Terminal
      BY <1>w, <2>1, <2>3, StateOfTerminal DEF TypeOK
    <3> QED BY <3>1 DEF TakenOn, Terminal
  <2>4. CASE j # at[w]
    <3>1. Held(j, {"body", "returned", "store"}) => Held(j, {"body", "returned", "store"})'
      BY <1>w, <2>1, <2>4 DEF Held, TypeOK
    <3>2. Held(j, {"claim", "body", "returned", "store"})
            => Held(j, {"claim", "body", "returned", "store"})'
      BY <1>w, <2>1, <2>4 DEF Held, TypeOK
    <3>3. state'[j] = state[j]
      BY <2>1, <2>4 DEF TypeOK
    <3> QED BY <1>0, <2>2, <3>1, <3>2, <3>3 DEF TakenOn
  <2> QED BY <2>3, <2>4
<1>7. CASE Finish(w) \/ Callback(w)
  <2>1. /\ UNCHANGED <<state, queue>> /\ pc[w] \in {"finish", "callback"}
        /\ \A t \in Workers \ {w} : pc'[t] = pc[t] /\ at'[t] = at[t]
    BY <1>7, <1>w DEF Finish, Callback, Return, Enter, Goto, jobVars, poolVars, TypeOK
  <2>2. Held(j, {"body", "returned", "store"}) => Held(j, {"body", "returned", "store"})'
    BY <2>1 DEF Held
  <2>3. Held(j, {"claim", "body", "returned", "store"})
          => Held(j, {"claim", "body", "returned", "store"})'
    BY <2>1 DEF Held
  <2>4. Queued' = Queued
    BY <2>1 DEF Queued
  <2> QED BY <1>0, <2>1, <2>2, <2>3, <2>4 DEF TakenOn
<1>8. CASE FinishThrows(w)
  BY <1>8, <1>m DEF FinishThrows, Goto, poolVars, WorkerLabels, Owning
<1> QED BY <1>1, <1>2, <1>3, <1>4, <1>5, <1>6, <1>7, <1>8 DEF WorkerStep

\* A client's step keeps every job that is not over attended to: the queue takes what is
\* pushed, the shutdown's list takes the queue, and who leaves a job finds it terminal.
LEMMA ClientKeepsTakenOn ==
  ASSUME TypeOK, Coupled, ShutterInv, NEW c \in Clients, NEW j \in Jobs, TakenOn(j),
         ClientStep(c) \/ ClientCall(c) \/ WaitTimeout(c)
  PROVE  TakenOn(j)'
<1>c. c \in Threads /\ c \notin Workers
  BY ConstantsAssumption DEF Threads
<1>s. /\ shutter # NoThread => shutter \in Clients
      /\ shutter = c => pc[c] \in {"collect", "cancelling", "cas", "finish", "callback", "join"}
      /\ pc[c] \in {"collect", "cancelling", "join"} => c = shutter
  BY ConstantsAssumption DEF TypeOK, ShutterInv, Threads
<1>m. ASSUME UNCHANGED state, Queued \subseteq Queued',
             phase'[j] = "pushed" => phase[j] = "pushed" \/ j \in Queued',
             \A w \in Workers : at'[w] = at[w] /\ (pc'[w] = pc[w] \/ pc[w] = "asleep"),
             Cancelling(j) => Cancelling(j)' \/ state[j] \in Terminal
      PROVE  TakenOn(j)'
  <2>1. Held(j, {"body", "returned", "store"}) => Held(j, {"body", "returned", "store"})'
    BY <1>m DEF Held
  <2>2. Held(j, {"claim", "body", "returned", "store"})
          => Held(j, {"claim", "body", "returned", "store"})'
    BY <1>m DEF Held
  <2> QED BY <1>m, <2>1, <2>2 DEF TakenOn
<1>k. ASSUME UNCHANGED <<state, queue, shutter, toCancel>>, c # shutter,
             phase'[j] = "pushed" => phase[j] = "pushed",
             \A t \in Threads \ {c} :
               at'[t] = at[t] /\ (pc'[t] = pc[t] \/ (t \in Workers /\ pc[t] = "asleep"))
      PROVE  TakenOn(j)'
  <2>1. Queued' = Queued
    BY <1>k DEF Queued
  <2>2. Cancelling(j) => Cancelling(j)'
    BY <1>k, <1>s, ConstantsAssumption DEF Cancelling, Threads
  <2>3. \A w \in Workers : at'[w] = at[w] /\ (pc'[w] = pc[w] \/ pc[w] = "asleep")
    BY <1>k, <1>c DEF Threads
  <2> QED BY <1>k, <1>m, <2>1, <2>2, <2>3
<1>1. CASE SubmitPush(c)
  <2>1. /\ pc[c] = "push" /\ at[c] \in Jobs /\ queue' = Append(queue, at[c])
        /\ phase' = [phase EXCEPT ![at[c]] = "pushed"]
        /\ UNCHANGED <<state, shutter, toCancel, at>>
        /\ pc' = [pc EXCEPT ![c] = "notify"]
    BY <1>1, <1>c DEF SubmitPush, Goto, Coupled, ThreadInv, Busy, jobVars
  <2>2. \A t \in Threads \ {c} : at'[t] = at[t] /\ pc'[t] = pc[t]
    BY <2>1 DEF TypeOK
  <2>3. Queued \subseteq Queued' /\ at[c] \in Queued'
    <3>1. queue \in Seq(Jobs)
      BY DEF TypeOK
    <3>2. Len(queue') = Len(queue) + 1 /\ Len(queue) \in Nat
      BY <2>1, <3>1
    <3>3. /\ \A i \in 1..Len(queue) : queue'[i] = queue[i]
          /\ queue'[Len(queue) + 1] = at[c]
      BY <2>1, <3>1
    <3>4. 1..Len(queue) \subseteq 1..Len(queue') /\ Len(queue) + 1 \in 1..Len(queue')
      BY <3>2
    <3>5. Queued \subseteq Queued'
      BY <3>3, <3>4 DEF Queued
    <3>6. at[c] \in Queued'
      BY <3>3, <3>4 DEF Queued
    <3> QED BY <3>5, <3>6
  <2>4. phase'[j] = "pushed" => phase[j] = "pushed" \/ j \in Queued'
    BY <2>1, <2>3 DEF TypeOK
  <2>5. Cancelling(j) => Cancelling(j)'
    BY <2>1, <2>2, <1>s, ConstantsAssumption DEF Cancelling, Threads
  <2>6. \A w \in Workers : at'[w] = at[w] /\ pc'[w] = pc[w]
    BY <2>2, <1>c DEF Threads
  <2> QED BY <2>1, <2>3, <2>4, <2>5, <2>6, <1>m
<1>2. CASE SubmitNotify(c)
  <2>1. c # shutter /\ UNCHANGED <<state, phase, queue, shutter, toCancel>>
    BY <1>2, <1>s DEF SubmitNotify, jobVars, userVars, poolVars
  <2>2. \A t \in Threads \ {c} :
          at'[t] = at[t] /\ (pc'[t] = pc[t] \/ (t \in Workers /\ pc[t] = "asleep"))
    BY <1>2, <1>c DEF SubmitNotify, Goto, TypeOK, Threads
  <2> QED BY <1>k, <2>1, <2>2
<1>3. CASE \/ WaitReturn(c) \/ WaitTimeout(c) \/ TakeReadsState(c)
           \/ TakeReportsFailure(c) \/ TakeReportsTaken(c)
  <2>1. c # shutter /\ UNCHANGED <<state, phase, queue, shutter, toCancel>>
    BY <1>3, <1>s DEF WaitReturn, WaitTimeout, TakeReadsState, TakeReportsFailure,
                      TakeReportsTaken, jobVars, userVars, poolVars
  <2>2. \A t \in Threads \ {c} : at'[t] = at[t] /\ pc'[t] = pc[t]
    BY <1>3 DEF WaitReturn, WaitTimeout, TakeReadsState, TakeReportsFailure,
                TakeReportsTaken, Return, Enter, Goto, TypeOK
  <2> QED BY <1>k, <2>1, <2>2
<1>4. CASE Finish(c) \/ Callback(c)
  <2>1. /\ pc[c] \in {"finish", "callback"}
        /\ UNCHANGED <<state, phase, queue, shutter, toCancel>>
    BY <1>4 DEF Finish, Callback, jobVars, userVars, poolVars
  <2>2. \A t \in Threads \ {c} : at'[t] = at[t] /\ pc'[t] = pc[t]
    BY <1>4 DEF Finish, Callback, Return, Enter, Goto, TypeOK
  <2>3. Queued' = Queued
    BY <2>1 DEF Queued
  <2>4. Cancelling(j) => Cancelling(j)'
    BY <2>1, <2>2, <1>s, ConstantsAssumption DEF Cancelling, Threads
  <2>5. \A w \in Workers : at'[w] = at[w] /\ pc'[w] = pc[w]
    BY <2>2, <1>c DEF Threads
  <2> QED BY <2>1, <2>3, <2>4, <2>5, <1>m
<1>5. CASE CancelSwap(c)
  <2>1. /\ pc[c] = "cas" /\ at[c] \in Jobs
        /\ UNCHANGED <<phase, queue, shutter, toCancel>>
    BY <1>5, <1>c DEF CancelSwap, Coupled, ThreadInv, Busy, userVars, poolVars
  <2>2. \A t \in Threads \ {c} : at'[t] = at[t] /\ pc'[t] = pc[t]
    BY <1>5 DEF CancelSwap, Return, Enter, Goto, TypeOK
  <2>3. Queued' = Queued
    BY <2>1 DEF Queued
  <2>4. \A w \in Workers : at'[w] = at[w] /\ pc'[w] = pc[w]
    BY <2>2, <1>c DEF Threads
  <2>5. j # at[c] => (Cancelling(j) => Cancelling(j)')
    BY <2>1, <2>2, <1>s, ConstantsAssumption DEF Cancelling, Threads
  <2>6. /\ Held(j, {"body", "returned", "store"}) => Held(j, {"body", "returned", "store"})'
        /\ Held(j, {"claim", "body", "returned", "store"})
             => Held(j, {"claim", "body", "returned", "store"})'
    BY <2>4 DEF Held
  <2>7. CASE state[at[c]] = "PENDING"
    <3>1. state' = [state EXCEPT ![at[c]] = "CANCELLED"]
      BY <1>5, <2>7 DEF CancelSwap
    <3>2. CASE j = at[c]
      <4>1. state'[j] = "CANCELLED"
        BY <3>1, <3>2 DEF TypeOK
      <4> QED BY <4>1 DEF TakenOn, Terminal
    <3>3. CASE j # at[c]
      <4>1. state'[j] = state[j]
        BY <3>1, <3>3 DEF TypeOK
      <4> QED BY <2>1, <2>3, <2>5, <2>6, <3>3, <4>1 DEF TakenOn
    <3> QED BY <3>2, <3>3
  <2>8. CASE state[at[c]] # "PENDING"
    <3>1. UNCHANGED state
      BY <1>5, <2>8 DEF CancelSwap
    <3>2. CASE j = at[c]
      <4>1. state[j] \in Terminal \/ state[j] = "RUNNING"
        BY <2>8, <3>2 DEF TypeOK, JobStates
      <4>2. state[j] = "RUNNING" => Held(j, {"body", "returned", "store"})'
        BY <2>6 DEF TakenOn
      <4>3. Held(j, {"body", "returned", "store"})'
              => Held(j, {"claim", "body", "returned", "store"})'
        BY DEF Held
      <4> QED BY <3>1, <4>1, <4>2, <4>3 DEF TakenOn
    <3>3. CASE j # at[c]
      BY <2>1, <2>3, <2>5, <2>6, <3>1, <3>3 DEF TakenOn
    <3> QED BY <3>2, <3>3
  <2> QED BY <2>7, <2>8
<1>6. CASE ShutdownCollect(c)
  <2>1. /\ Queued \subseteq toCancel' /\ queue' = <<>>
        /\ UNCHANGED <<state, phase, shutter, at>>
        /\ pc[c] = "collect" /\ toCancel = {} /\ c = shutter
    BY <1>6, <1>s, ConstantsAssumption
       DEF ShutdownCollect, ShutterInv, jobVars, userVars
  <2>2. \A t \in Threads \ {c} : pc'[t] = pc[t]
    BY <1>6 DEF ShutdownCollect, Goto, TypeOK
  <2>3. /\ Held(j, {"body", "returned", "store"}) => Held(j, {"body", "returned", "store"})'
        /\ Held(j, {"claim", "body", "returned", "store"})
             => Held(j, {"claim", "body", "returned", "store"})'
    BY <2>1, <2>2, <1>c DEF Held, Threads
  <2>4. ~Cancelling(j)
    BY <2>1 DEF Cancelling
  <2>5. j \in Queued => Cancelling(j)'
    BY <2>1 DEF Cancelling
  <2> QED BY <2>1, <2>3, <2>4, <2>5 DEF TakenOn
<1>7. CASE ShutdownCancels(c)
  <2>1. PICK k \in toCancel :
          /\ toCancel' = toCancel \ {k}
          /\ pc' = [pc EXCEPT ![c] = "cas"] /\ at' = [at EXCEPT ![c] = k]
    BY <1>7 DEF ShutdownCancels, Enter, Goto
  <2>2. /\ UNCHANGED <<state, phase, queue, shutter>>
        /\ pc[c] = "cancelling" /\ c = shutter
    BY <1>7, <1>s DEF ShutdownCancels, userVars
  <2>3. pc'[c] = "cas" /\ at'[c] = k
    BY <1>c, <2>1 DEF TypeOK
  <2>4. Cancelling(j) => Cancelling(j)'
    BY <2>1, <2>2, <2>3, <1>c, ConstantsAssumption DEF Cancelling, Threads
  <2>5. \A w \in Workers : at'[w] = at[w] /\ pc'[w] = pc[w]
    BY <2>1, <1>c DEF TypeOK, Threads
  <2>6. Queued' = Queued
    BY <2>2 DEF Queued
  <2> QED BY <2>2, <2>4, <2>5, <2>6, <1>m
<1>8. CASE ShutdownNotify(c)
  <2>1. /\ UNCHANGED <<state, phase, queue, shutter, toCancel, at>>
        /\ pc[c] = "cancelling" /\ c = shutter
    BY <1>8, <1>s DEF ShutdownNotify, jobVars, userVars, poolVars
  <2>2. \A w \in Workers : pc'[w] = pc[w] \/ pc[w] = "asleep"
    BY <1>8, <1>c DEF ShutdownNotify, Threads
  <2>3. Cancelling(j) => Cancelling(j)'
    BY <2>1 DEF Cancelling
  <2>4. Queued' = Queued
    BY <2>1 DEF Queued
  <2> QED BY <2>1, <2>2, <2>3, <2>4, <1>m
<1>9. CASE ShutdownJoin(c)
  <2>1. /\ UNCHANGED <<state, phase, queue, toCancel, at>>
        /\ pc[c] = "join" /\ c = shutter /\ toCancel = {}
    BY <1>9, <1>s DEF ShutdownJoin, ShutterInv, jobVars, userVars
  <2>2. \A t \in Threads \ {c} : pc'[t] = pc[t]
    BY <1>9 DEF ShutdownJoin, Goto, TypeOK
  <2>3. ~Cancelling(j)
    BY <2>1 DEF Cancelling
  <2>4. \A w \in Workers : pc'[w] = pc[w]
    BY <2>2, <1>c DEF Threads
  <2>5. Queued' = Queued
    BY <2>1 DEF Queued
  <2> QED BY <2>1, <2>3, <2>4, <2>5, <1>m
<1>10. CASE ShutdownBegin(c)
  <2>1. /\ UNCHANGED <<state, phase, queue, toCancel, at>>
        /\ toCancel = {}
        /\ pc' = [pc EXCEPT ![c] = "collect"]
        /\ shutter = NoThread
    BY <1>10 DEF ShutdownBegin, ShutterInv, Goto, jobVars, userVars
  <2>2. ~Cancelling(j)
    BY <2>1 DEF Cancelling
  <2>3. \A w \in Workers : pc'[w] = pc[w]
    BY <2>1, <1>c DEF TypeOK, Threads
  <2>4. Queued' = Queued
    BY <2>1 DEF Queued
  <2> QED BY <2>1, <2>2, <2>3, <2>4, <1>m
<1>11. ASSUME NEW i \in Jobs,
              \/ SubmitRefused(c, i) \/ SubmitAccepted(c, i) \/ CancelRequest(c, i)
              \/ WaitStart(c, i) \/ TakeResult(c, i) \/ Release(c, i)
       PROVE  TakenOn(j)'
  <2>1. c # shutter /\ UNCHANGED <<state, queue, shutter, toCancel>>
    BY <1>11, <1>s DEF SubmitRefused, SubmitAccepted, CancelRequest, WaitStart, TakeResult,
                       Release, jobVars, poolVars
  <2>2. phase'[j] = "pushed" => phase[j] = "pushed"
    BY <1>11 DEF SubmitRefused, SubmitAccepted, CancelRequest, WaitStart, TakeResult,
                 Release, userVars, TypeOK
  <2>3. \A t \in Threads \ {c} : at'[t] = at[t] /\ pc'[t] = pc[t]
    BY <1>11 DEF SubmitRefused, SubmitAccepted, CancelRequest, WaitStart, TakeResult,
                 Release, Enter, Goto, TypeOK
  <2> QED BY <1>k, <2>1, <2>2, <2>3
<1> QED
  BY <1>1, <1>2, <1>3, <1>4, <1>5, <1>6, <1>7, <1>8, <1>9, <1>10, <1>11
     DEF ClientStep, ClientCall

\* Attended is inductive, given the types and the coupling of threads and jobs.
LEMMA NextAttended == TypeOK /\ Coupled /\ Attended /\ [Next]_vars => Attended'
<1> SUFFICES ASSUME TypeOK, Coupled, ShutterInv, \A j \in Jobs : TakenOn(j), [Next]_vars
             PROVE  ShutterInv' /\ \A j \in Jobs : TakenOn(j)'
  BY DEF Attended
<1>1. ASSUME NEW w \in Workers,
             WorkerStep(w) \/ WorkerWakesSpuriously(w) \/ CallbackCancels(w)
      PROVE  ShutterInv' /\ \A j \in Jobs : TakenOn(j)'
  BY <1>1, WorkerKeepsShutter, WorkerKeepsTakenOn
<1>2. ASSUME NEW c \in Clients, ClientStep(c) \/ ClientCall(c) \/ WaitTimeout(c)
      PROVE  ShutterInv' /\ \A j \in Jobs : TakenOn(j)'
  BY <1>2, ClientKeepsShutter, ClientKeepsTakenOn
<1>3. CASE UNCHANGED vars
  <2>1. UNCHANGED <<state, phase, queue, shuttingDown, shutter, toCancel, pc, at>>
    BY <1>3 DEF vars, jobVars, userVars, poolVars
  <2>2. ShutterInv'
    BY <2>1 DEF ShutterInv
  <2>3. \A j \in Jobs : TakenOn(j)'
    BY <2>1 DEF TakenOn, Held, Cancelling, Queued
  <2> QED BY <2>2, <2>3
<1> QED BY <1>1, <1>2, <1>3 DEF Next

\* JobPool::Shutdown returns only after every worker has left, and no accepted job is
\* forgotten: it is over, or Submit pushed it behind the drain.
THEOREM ShutdownForgetsNothing == Spec => []ShutdownSettles
<1>1. TypeOK /\ Coupled /\ Attended => ShutdownSettles
  <2> SUFFICES ASSUME Attended, shuttingDown, shutter = NoThread
               PROVE  /\ \A w \in Workers : pc[w] \notin Owning
                      /\ \A j \in Jobs : phase[j] = "pushed" =>
                                           state[j] \in Terminal \/ j \in Queued
    BY DEF ShutdownSettles
  <2>1. /\ \A w \in Workers : pc[w] = "exited"
        /\ toCancel = {}
    BY DEF Attended, ShutterInv
  <2>2. \A j \in Jobs : ~Cancelling(j) /\ ~Held(j, {"claim", "body", "returned", "store"})
    BY <2>1 DEF Cancelling, Held
  <2> QED BY <2>1, <2>2 DEF Attended, TakenOn, Owning
<1>2. Init => Attended
  BY InitAttended
<1>3. TypeOK /\ Coupled /\ Attended /\ [Next]_vars => Attended'
  BY NextAttended
<1> QED BY <1>1, <1>2, <1>3, Invariance, PTL DEF Spec
=============================================================================
