\* Two requests of any kind: they may wait for each other, for example a refund
\* and the webhook for it.
SPECIFICATION Spec
CONSTANTS
  t1 = t1
  t2 = t2
  t3 = t3
  o1 = o1
  o2 = o2
  p1 = p1
  p2 = p2
  Requests = {t1, t2}
  Orders = {o1, o2}
  Products = {p1, p2}
  Items <- MixedItems
  Scans <- AnyScan
  Left <- AnyLeft
INVARIANTS
  NoDeadlock
CHECK_DEADLOCK FALSE
