\* Three requests of all kinds for two orders of the same two products.
SPECIFICATION Spec
CONSTANTS
  t1 = t1
  t2 = t2
  t3 = t3
  o1 = o1
  o2 = o2
  p1 = p1
  p2 = p2
  Requests = {t1, t2, t3}
  Orders = {o1, o2}
  Products = {p1, p2}
  Items <- MixedItems
  Scans <- AnyScan
  Left <- AnyLeft
SYMMETRY Same
INVARIANTS
  DeadlocksAreOutOfOrder
CHECK_DEADLOCK FALSE
