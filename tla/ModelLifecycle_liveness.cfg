SPECIFICATION FairSpec
CONSTANTS
  Models = {m1}
  Workers = {w1, w2}
  Apps = {a1}
  NoModel = NoModel
  NoThread = NoThread
  MaxJobs = 2
  MaxEvents = 2

PROPERTIES EveryLockIsGranted ShutdownFinishes
CHECK_DEADLOCK FALSE
