CONSTANTS
  p1 = p1  p2 = p2  w1 = w1  w2 = w2  c1 = c1  c2 = c2
  Parcels <- MCTwoParcels
  Sources <- TwoSources
  Eligible <- EligibleTwo
  Workers = {w1, w2}
  Callers = {c1, c2}
  NoParcel = NoParcel
  Cap = 2
  Reserve = 1
  HardLimit = 1
  StaleAfter = 1
  Visibility = 2
  MaxRequests = 2
  MaxLosses = 1
SPECIFICATION StudySpec
SYMMETRY MCSymmetry
INVARIANT TypeOK
INVARIANT OneInflightPerParcel
INVARIANT UnlostRunsAreFresh
PROPERTY VerdictReflectsRun
