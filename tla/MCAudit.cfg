SPECIFICATION Spec
CONSTANTS
  Sessions = {s1, s2}
  Assets = {1, 2}
  Places = {p1, p2}
  NoPlace = noPlace
  Workers = {w1, w2}
  Nobody = nobody
  MaxRequests = 3
  MaxEdits = 1
INVARIANTS MissingWasNotObserved 
PROPERTIES CompletedIsFrozen NoLateObservation
SYMMETRY AuditSymmetry
CHECK_DEADLOCK FALSE
