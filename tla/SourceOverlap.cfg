CONSTANTS
  r1 = r1  r2 = r2  s1 = s1  s2 = s2
  Runs = {r1, r2}
  Years = 1
  Scenes = {s1, s2}
  Nothing = Nothing
  Chunked = FALSE
  Overlap = TRUE
  MaxLosses = 1
SPECIFICATION Spec
CHECK_DEADLOCK FALSE
PROPERTY OnlyCondemnedVanish
