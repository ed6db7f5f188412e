SPECIFICATION Spec
CONSTANTS
  Receipts = {r1, r2}
  NoReceipt = noReceipt
  Sessions = {s1, s2}
  NoSession = noSession
  Requests = {a1, a2, a3}
  Nobody = nobody
  SessionLimit = 2
  ReceiptLimit = 3
  MaxRequests = 7
INVARIANTS EndedPeriodIsClosed SessionsAgree MailWithinLimits DeadlockNeedsMailing
PROPERTY EvidenceIsFinal
SYMMETRY ReceiptSymmetry
CHECK_DEADLOCK FALSE
