SPECIFICATION Spec
CONSTANTS
    l1 = l1
    l2 = l2
    w1 = w1
    w2 = w2
    Locations = {l1, l2}
    NoLocation = NoLocation
    Workers = {w1, w2}
    Nobody = Nobody
    Overallocate = FALSE
    MaxRequests = 3
    MaxRows = 3
    MaxQty = 2
    MaxEdits = 2
SYMMETRY Symmetry
INVARIANTS  ShelvesAddUp PromisesCovered ArchivedNothingOut
CHECK_DEADLOCK FALSE
