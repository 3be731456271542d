CONSTANTS
  r1 = r1  r2 = r2  s1 = s1  s2 = s2
  Runs = {r1, r2}
  Years = 2
  Scenes = {s1, s2}
  Nothing = Nothing
  Chunked = TRUE
  Overlap = FALSE
  MaxLosses = 1
SPECIFICATION Spec
CHECK_DEADLOCK FALSE
INVARIANT TypeOK
INVARIANT CompleteIsAccounted
INVARIANT NoStaleVerdicts
PROPERTY KeepsPromise
