SPECIFICATION Spec
CONSTANTS
  e1 = e1
  e2 = e2
  NoPeer = NoPeer
  MAX_COMM2_LINKS = 2
  Peers <- TwoPeers
  Entries <- NoBinlog
  Packets = {"good", "bad"}
  Streams = {"raw"}
INVARIANTS
  TypeOK
  SlotAccounting
  OneSlotPerPeer
PROPERTY
  ImplementsLinks
CHECK_DEADLOCK FALSE
