SPECIFICATION FairSpec
CONSTANTS
  Jobs = {j1, j2}
  Undumpable = {j1}
  Workers = {w1, w2}
  Clients = {c1, c2}
  NoJob = NoJob
  NoThread = NoThread
  FirstJob = j1
  SecondClient = c2
ACTION_CONSTRAINT OneOfEach
CHECK_DEADLOCK FALSE
INVARIANTS
  TypeOK
  OneOwner
  Coupled
  OutcomesAgree
  ResultAccounted
  ShutdownSettles
PROPERTIES
  KeepsPromise
  QueuedJobsComplete
  ShutdownReturns
