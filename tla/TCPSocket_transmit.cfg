SPECIFICATION Spec
CONSTANTS
  TxSize = 2
  RxSize = 2
  MSS = 4
  MaxRetries = 1
  MaxSynRetries = 1
  MaxUnackedKeepAlives = 1
  PeerWindows = {0, 4}
  Urgent = FALSE
  StaleAcks = {}
  Calls = {"TCPDisconnect", "TCPPutArray", "TCPGet"}
  MaxTx = 2
  MaxRx = 0
  MaxConns = 1
INVARIANTS
  TypeOK
  UnackedIsTimed
  SentFinIsTimed
  SeqTracksFifo
  StreamIntact
PROPERTIES
  NothingTakenBack
\* A closed or listening socket may wait forever.
CHECK_DEADLOCK FALSE
