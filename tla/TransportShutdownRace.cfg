SPECIFICATION FairSpec
CONSTANTS
  u1 = u1
  u2 = u2
  Users = {u1}
  UserScripts <- ShutdownOnly
  HandlerScripts <- ReplyOrNot
  MaxPeerCalls = 0
  PeerMayShutdown = FALSE
  MayBreak = TRUE
  MaxSpurious = 0
PROPERTIES NoWaitAfterClosed
