SPECIFICATION Spec
CONSTANTS
  TxSize = 2
  RxSize = 1
  MSS = 4
  MaxRetries = 1
  MaxSynRetries = 1
  MaxUnackedKeepAlives = 1
  PeerWindows = {4}
  Urgent = TRUE
  StaleAcks = {0, 9}
  Calls = {"TCPGet", "TCPWasReset", "TCPDisconnect", "TCPPut", "TCPFlush"}
  MaxTx = 0
  MaxRx = 1
  MaxConns = 2
INVARIANTS
  ListenIsClean
  OverlappedTimersExclusive
\* A closed or listening socket may wait forever.
CHECK_DEADLOCK FALSE
