SPECIFICATION Spec
CONSTANTS
  Requests = {2}
  Parent <- SingleParent
  NoRequest = 0
  Serialised = {}
  Qty <- SingleQty
  Orders = {o1}
  NoOrder = none
  Lines = {1, 2}
  Tabs = {t1}
  Editors = {1}
  Deleters = {1}
  HandLines = {2}
  MaxQty = 2
PROPERTIES ApprovalNeedsDelivery AttributionIsKept
CHECK_DEADLOCK FALSE
