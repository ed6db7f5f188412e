SPECIFICATION Spec
CONSTANTS
  Requests = {1, 2, 3}
  Parent <- GroupParent
  NoRequest = 0
  Serialised = {1, 2, 3}
  Qty <- GroupQty
  Orders = {o1}
  NoOrder = none
  Lines = {1, 2}
  Tabs = {t1, t2}
  Editors = {}
  Deleters = {}
  HandLines = {}
  MaxQty = 2
INVARIANTS  ProcurementTypeOK LinkLedger BooksOnce UnitHasSupply NothingReceivedIsLost
PROPERTIES  ImplementsRequests
SYMMETRY TabSymmetry
CHECK_DEADLOCK FALSE
