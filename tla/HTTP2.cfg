CONSTANTS
  MAX_MPFS_HANDLES = 6
  Fat <- MCFat
  Chunks <- MCChunks
  ImageLen = 2
  MAX_HTTP_CONNECTIONS = 2
  Kinds <- MCKindsOf
  Alone <- MCAlone
  RxSize = 2
  TxSize = 2
  Timeout = 2
SPECIFICATION HTTPSpec
INVARIANTS HTTPTypeOK AnswerIsWhole HandlesAreHeld ImageIsWhole
PROPERTY RequestEnds
CHECK_DEADLOCK FALSE
