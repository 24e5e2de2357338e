SPECIFICATION FairSpec
CONSTANTS
  Clients = {c1, c2}
  Magics = {1, 2}
  Versions = {1, 2}
  ServerMagic = 1
  ServerVersion = 1
  Uninitialised <- MCUninitialised
  Known = {"focused", "visible"}
  Unknown = {"other"}
  MaxInstances = 2
  MaxEvents = 2
INVARIANTS
  TypeOK
  HandshakeAgrees
  CleanSlate
  HeldIsLive
  EventsInOrder
PROPERTIES
  EveryoneIsServed
CHECK_DEADLOCK FALSE
