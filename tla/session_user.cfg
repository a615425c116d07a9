SPECIFICATION FairSpec
CONSTANTS
  e1 = e1
  e2 = e2
  NoPeer = NoPeer
  MAX_COMM2_LINKS = 1
  Peers <- OnePeer
  Entries <- NoBinlog
  Packets = {"good", "bad", "quiet", "setup", "refused"}
  Streams = {"raw", "ws"}
INVARIANTS
  Conn1Exclusive
  AuthEarned
  UserHandshakeClean
PROPERTIES
  UserDecides
  PreauthReclaimed
CHECK_DEADLOCK FALSE
