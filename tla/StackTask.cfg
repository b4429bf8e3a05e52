CONSTANTS
  MAX_UDP_SOCKETS = 3
  Nodes = {n1}
  Broadcast = Broadcast
  NoNode = NoNode
  Room = 2
  Junk = Junk
  Astray = Astray
  NoSocket = NoSocket
  DHCP = dhcp
  NBNS = nbns
  App = app
  None = None
  Port <- MCPort
  PeerPort = {67}
  Lengths = {2}
  Fields = {7, 10}
  Headers = {"plain", "options"}
  MaxFrames = 2
  MaxReads = 3
SPECIFICATION Spec
INVARIANTS StackTypeOK DatagramIsWhole
PROPERTIES ReadsItsOwnPacket DatagramIsOffered
