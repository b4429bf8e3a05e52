SPECIFICATION PartsSpec
CONSTANTS
  BufferEnd = 9
  MaxRx = 10
  Junk = Junk
  r1 = r1
  r2 = r2
  r3 = r3
  NoRemote = NoRemote
  N = 2
  Ports = {80, 81}
  Remotes = {r1, r2, r3}
  QueueLen = 2
  Timeout = 1
  WORD = 4
SYMMETRY Symmetry
INVARIANTS RxPointersInBuffer
