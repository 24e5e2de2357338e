SPECIFICATION FairSpec
CONSTANTS
  u1 = u1
  u2 = u2
  Users = {u1}
  UserScripts <- Graceful
  HandlerScripts <- ReplyOrNot
  MaxPeerCalls = 2
  PeerMayShutdown = FALSE
  MayBreak = FALSE
  MaxSpurious = 1
INVARIANTS TypeOK NeverTerminated
PROPERTIES EveryThreadEnds
