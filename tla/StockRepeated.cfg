\* A request that names a product twice.
SPECIFICATION Spec
CONSTANTS
  p1 = p1
  p2 = p2
  o1 = o1
  o2 = o2
  o3 = o3
  u1 = u1
  u2 = u2
  NoChange = NoChange
  Products = {p1, p2}
  Orders = {o1, o2, o3}
  Buyer <- TwoBuyers
  Initial <- TwoAndOne
  Baskets <- RepeatedLines
  Edits <- NoEdits
INVARIANTS
  NotOversold
CHECK_DEADLOCK FALSE
