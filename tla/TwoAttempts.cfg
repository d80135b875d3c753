\* One order that the buyer tries to pay twice, two webhook handlers.
SPECIFICATION Spec
CONSTANTS
  o1 = o1
  o2 = o2
  k1 = k1
  k2 = k2
  h1 = h1
  h2 = h2
  u1 = u1
  NoKey = NoKey
  Orders = {o1}
  Keys = {k1, k2}
  Handlers = {h1, h2}
  Console = TRUE
  Buyer <- OneBuyer
  OrderOf <- KeysOfOne
  AdminMoves <- FlowMoves
INVARIANTS
  TypeOK
  NoDoubleSale
  FulfilmentIsPaid
  BooksFollowToss
PROPERTIES
  ImplementsSale
CHECK_DEADLOCK FALSE
