SPECIFICATION Spec
CONSTANTS
  Assets = {a1}
  Failed = a1
  Targets = {h1}
  People = {h1}
  Nobody = nobody
  Repairs = {r1}
  NoRepair = none
  Unit <- MCUnit
  Clerks = {c1}
  Technicians = {}
  MaxIssues = 1
INVARIANT HeldMeansDeployed
CHECK_DEADLOCK FALSE
