SPECIFICATION Spec
CONSTANTS
  Models = {m1, m2}
  Workers = {w1}
  Apps = {a1, a2}
  NoModel = NoModel
  NoThread = NoThread
  MaxJobs = 2
  MaxEvents = 2
INVARIANTS Inv LeaseProtects OneOperation RuntimeBalanced EventUnloads NothingLoadedAfterShutdown
SYMMETRY Symmetry
CHECK_DEADLOCK FALSE
