SPECIFICATION Spec
CONSTANTS
  TxSize = 2
  RxSize = 2
  MSS = 4
  MaxRetries = 1
  MaxSynRetries = 1
  MaxUnackedKeepAlives = 1
  PeerWindows = {4}
  Urgent = FALSE
  StaleAcks = {}
  Calls = {"TCPGet", "TCPGetArray", "TCPDiscard", "TCPDisconnect", "TCPPut"}
  MaxTx = 1
  MaxRx = 3
  MaxConns = 1
INVARIANTS
  FifoOrder
  HoleFits
  ReceivedIsAcknowledged
  AcksOnlySent
PROPERTIES
  StatesOfRFC793
\* A closed or listening socket may wait forever.
CHECK_DEADLOCK FALSE
