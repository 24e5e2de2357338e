SPECIFICATION FairSpec
CONSTANTS
  u1 = u1
  u2 = u2
  Users = {u1, u2}
  UserScripts <- Failing
  HandlerScripts <- ReplyOrNot
  MaxPeerCalls = 0
  PeerMayShutdown = TRUE
  MayBreak = TRUE
  MaxSpurious = 0
PROPERTIES NoWaitAfterClosed ClosingEndsEveryThread
