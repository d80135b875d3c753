\* A refund of a delivered order.
SPECIFICATION Spec
CONSTANTS
  o1 = o1
  o2 = o2
  k1 = k1
  k2 = k2
  h1 = h1
  h2 = h2
  u1 = u1
  NoKey = NoKey
  Orders = {o1}
  Keys = {k1}
  Handlers = {h1}
  Console = FALSE
  Buyer <- OneBuyer
  OrderOf <- KeysOfOne
  AdminMoves <- ForwardMoves
PROPERTIES
  RefundKeepsStock
CHECK_DEADLOCK FALSE
