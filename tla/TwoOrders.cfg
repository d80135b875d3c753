\* A new order releases an old one; nothing is delivered.
SPECIFICATION Spec
CONSTANTS
  o1 = o1
  o2 = o2
  k1 = k1
  k2 = k2
  h1 = h1
  h2 = h2
  u1 = u1
  NoKey = NoKey
  Orders = {o1, o2}
  Keys = {k1}
  Handlers = {h1}
  Console = TRUE
  Buyer <- OneBuyer
  OrderOf <- KeysOfOne
  AdminMoves <- UndeliveredMoves
INVARIANTS
  IInv
  ReturnedOnce
CHECK_DEADLOCK FALSE
