CONSTANTS
  RxN = 2
  TxN = 2
  RxFrames = 4
  TxFrames = 4
  DamagedFrames = {3}
  Period = 3
  HighWrap = 2
  MaxNow = 14
  FLASH_SECTOR_COUNT = 4
  Configs = {c1, c2, c3}
  Default = c1
  NoConfig = NoConfig
  c1 = c1
  c2 = c2
  c3 = c3
  A = A
  B = B
  Servers = {A, B}
  Other = Other
  DefaultIPAddr = DefaultIPAddr
  NoAddr = NoAddr
  Leases <- MCLeases
  DefaultLease = 2
  MaxElapsed = 2
SPECIFICATION UnitsSpec
INVARIANTS
  UnitsTypeOK
  TickWasTheTime
  EngineNeverSleepsOnWork
  SocketHeldWhileAsking
  AddressWasGranted
PROPERTIES
  RingsAreQueues
  EveryFrameGetsThrough
  SavedSettingsSurvive
  NoEndlessWait
  RenewalEnds
\* The rings stop when every frame of a run has been seen, the tick at MaxNow.
CHECK_DEADLOCK FALSE
