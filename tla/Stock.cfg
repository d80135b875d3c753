\* Three orders on two products; admins type in stocks and statuses.
SPECIFICATION Spec
CONSTANTS
  p1 = p1
  p2 = p2
  o1 = o1
  o2 = o2
  o3 = o3
  u1 = u1
  u2 = u2
  NoChange = NoChange
  Products = {p1, p2}
  Orders = {o1, o2, o3}
  Buyer <- TwoBuyers
  Initial <- TwoAndOne
  Baskets <- DistinctLines
  Edits <- AnyEdits
INVARIANTS
    NotOversold
PROPERTIES
    Conserved
    StatusFollowsStock
CHECK_DEADLOCK FALSE
