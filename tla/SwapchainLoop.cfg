SPECIFICATION FairSpec
CONSTANTS
  a1 = a1
  a2 = a2
  N = 3
  Apps = {a1}
  IsStatic = FALSE
  MaxFrames = 6
  MaxFailures = 0
INVARIANTS TypeOK ReleasesLineUp WaitsOnlyForReleased
PROPERTIES ImagesAlternate EveryCallReturns
