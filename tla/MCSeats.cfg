SPECIFICATION Spec
CONSTANTS
  l1 = l1
  l2 = l2
  Licenses = {l1, l2}
  Kits <- MCKits
  Targets = {t1, t2}
  NoTarget = noTarget
  Clerks = {c1, c2}
  Archivable = {l2}
  Adjustable = {l1}
  MaxInserts = 2
  MaxSeats = 2
INVARIANTS SeatTypeOK CheckedSeatsFit 
SYMMETRY SeatSymmetry
CHECK_DEADLOCK FALSE
