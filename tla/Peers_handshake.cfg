SPECIFICATION PeersFairSpec
CONSTANTS
  Nodes = {"a", "b", "c", "d"}
  Conf <- MCConf
  AddrLimit = 2
  PeerLimit = 2
  Contacts <- MCContacts
  Speakers = {"a"}
  Word = 3
  MaxNow = 1
  MaxPauses = 1
CHECK_DEADLOCK FALSE
INVARIANTS PeersTypeOK  Mutual KnownIsPeer
PROPERTY Settles
