SPECIFICATION Spec
CONSTANTS
  u1 = u1
  u2 = u2
  Users = {u1, u2}
  UserScripts <- Shared
  HandlerScripts <- ReplyShutdown
  MaxPeerCalls = 1
  PeerMayShutdown = TRUE
  MayBreak = FALSE
  MaxSpurious = 0
INVARIANTS NoLostWakeup DispatchedInOrder AnswersReachTheirCallers
