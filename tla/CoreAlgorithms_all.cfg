SPECIFICATION Spec
CONSTANTS
  PromptTokens = 1
  MaxTokens = 6
  Systems = {"android", "apple", "desktop"}
  TotalMemory = 12
  Unknown = 3
  MaxChanges = 1
  Bytes <- MCBytes
  MaxBytes = 4
  Halves <- MCHalves
  Dimensions <- MCDimensions
  MaxRank = 3
  MaxInputs = 2
  SizeMax = 7
INVARIANTS OutputPreserved StopIsHeeded AdmissionFits EmbeddingsAligned CodecsExact
CHECK_DEADLOCK FALSE
