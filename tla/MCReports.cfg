SPECIFICATION Spec
CONSTANTS
  Runs = {e1, e2}
  NoRun = noRun
  Fires = {f1}
  NoFire = noFire
  Retries = {r1, r2}
  NoRetry = noRetry
  Email = email
  Channels = {c1}
  MaxRequests = 2
  MaxEdits = 1
  MaxCrashes = 1
INVARIANTS FiredOnce  SuccessIsDelivered OverlapIsOneSend
SYMMETRY ReportSymmetry
CHECK_DEADLOCK FALSE
