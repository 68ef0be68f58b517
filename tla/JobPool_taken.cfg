SPECIFICATION Spec
CONSTANTS
  Jobs = {j1}
  Undumpable = {}
  Workers = {w1}
  Clients = {c1, c2}
  NoJob = NoJob
  NoThread = NoThread
CHECK_DEADLOCK FALSE
PROPERTY TakenMeansTaken
