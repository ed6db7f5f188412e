SPECIFICATION Spec
CONSTANTS
  Assets = {a1, a2}
  Failed = a1
  Targets = {h1, h2}
  People = {h1, h2}
  Nobody = nobody
  Repairs = {r1}
  NoRepair = none
  Unit <- MCUnit
  Clerks = {c1}
  Technicians = {t1}
  MaxIssues = 2
INVARIANTS DisposedNotHeld OneLoanPerRepair
PROPERTY LateCheckinSparesNewHolder
CHECK_DEADLOCK FALSE
