CONSTANTS
  p1 = p1  p2 = p2  w1 = w1  w2 = w2  c1 = c1  c2 = c2
  Parcels <- MCParcels
  Sources <- OneSource
  Eligible <- EligibleOne
  Workers = {w1, w2}
  Callers = {c1}
  NoParcel = NoParcel
  Cap = 2
  Reserve = 1
  HardLimit = 1
  StaleAfter = 1
  Visibility = 2
  MaxRequests = 1
  MaxLosses = 1
SPECIFICATION Spec
SYMMETRY MCSymmetry
PROPERTY NoServedRunIsCalledFailed
