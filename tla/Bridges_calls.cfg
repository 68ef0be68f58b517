SPECIFICATION FairSpec
CONSTANTS
  Platforms = {"android", "apple", "dart", "reactNative"}
  MaxDeltas = 4
  BufferSize = 2
INVARIANTS ContextFreedOnce HandleReclaimed WholeStream
PROPERTIES CallSettles
CHECK_DEADLOCK FALSE
