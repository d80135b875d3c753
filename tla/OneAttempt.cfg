\* One order, one payment attempt, two webhook handlers; nobody cancels charges by
\* hand at Toss.
SPECIFICATION FairSpec
CONSTANTS
  o1 = o1
  o2 = o2
  k1 = k1
  k2 = k2
  h1 = h1
  h2 = h2
  u1 = u1
  NoKey = NoKey
  Orders = {o1}
  Keys = {k1}
  Handlers = {h1, h2}
  Console = FALSE
  Buyer <- OneBuyer
  OrderOf <- KeysOfOne
  AdminMoves <- FlowMoves
INVARIANTS
  LateMoneyIsNoticed
PROPERTIES
  PaidBackFirst
  PendingEnds
  LateMoneyReturned
CHECK_DEADLOCK FALSE
