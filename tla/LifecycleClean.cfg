SPECIFICATION FairSpec
CONSTANTS
  a1 = a1
  a2 = a2
  s1 = s1
  s2 = s2
  c1 = c1
  c2 = c2
  c3 = c3
  None = None
  Apps = {a1, a2}
  Sessions = {s1, s2}
  Chains = {c1, c2}
  N = 2
  Usages = {"color"}
  ReusesHandles = FALSE
  MayClose = TRUE
  MaxCalls = 4
  MaxFailures = 0
INVARIANTS ImportsOwnImages TablesAgree LoopIsDefined
PROPERTIES EveryCallReturns
