SPECIFICATION Spec
CONSTANTS
  a1 = a1
  a2 = a2
  N = 2
  Apps = {a1, a2}
  IsStatic = FALSE
  MaxFrames = 5
  MaxFailures = 1
INVARIANTS HeadsAgree SemaphoresFollowUse
PROPERTIES WaitsBeforeRelease
CHECK_DEADLOCK FALSE
