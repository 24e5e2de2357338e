SPECIFICATION FairSpec
CONSTANTS
  AllRequests <- MCRequests
  Apps <- MCApps
  MaxCalls = 2
  MayClose = TRUE
INVARIANTS
  AnswersAreOwn
  TruncatedNeverRuns
  CallersGetTheOutputs
  OrdinaryCallsSucceed
  OnlyFailuresLeak
PROPERTIES
  IsRemoteCall
  CallsEnd
CHECK_DEADLOCK FALSE
