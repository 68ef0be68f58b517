SPECIFICATION FairSpec
CONSTANTS
  Types = {"audio"}
  Workers = {w1}
  NoWorker = NoWorker
  MaxRequests = 1
  MaxCalls = 2
  MaxChunks = 2
  MaxEdits = 2
  Documents <- OtherSessions
PROPERTIES FinalChunkEndsStream
CHECK_DEADLOCK FALSE
