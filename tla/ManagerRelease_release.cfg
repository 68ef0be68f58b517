SPECIFICATION ReleaseFairSpec
CONSTANTS
  LastIndex = 3
  Manager = Manager
  Model = Model
  Session = Session
  Job = Job
  Kinds <- MCKinds
  NoSlot = NoSlot
  MaxAdds = 4
  Apps = {a1, a2}
  Workers = {w1}
INVARIANTS ReleaseInv LiveHandlesResolve StaleUntilWrap NoModelSurvivesRelease NeverTerminates
PROPERTIES ReleaseReturns
CHECK_DEADLOCK FALSE
