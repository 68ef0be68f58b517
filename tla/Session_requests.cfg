SPECIFICATION FairSpec
CONSTANTS
  Types = {"chat", "audio"}
  Workers = {w1, w2}
  NoWorker = NoWorker
  MaxRequests = 2
  MaxCalls = 2
  MaxChunks = 3
  MaxEdits = 2
  Documents <- OtherSessions
INVARIANTS Inv CallsAreUnique StreamHearsItsAudio
PROPERTIES KeepsTurns ReplyFitsHistory StreamEnds RequestsEnd
CHECK_DEADLOCK FALSE
