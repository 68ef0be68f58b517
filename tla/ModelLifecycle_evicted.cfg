SPECIFICATION Spec
CONSTANTS
  Models = {m1}
  Workers = {w1}
  Apps = {a1}
  NoModel = NoModel
  NoThread = NoThread
  MaxJobs = 1
  MaxEvents = 2
PROPERTIES EvictedAreListed
CHECK_DEADLOCK FALSE
