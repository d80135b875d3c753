SPECIFICATION FairSpec
CONSTANTS
    NOrders = 3
    w1 = w1
    w2 = w2
    Workers = {w1, w2}
    MaxOrders = 2
    MaxRestarts = 1
INVARIANTS
    IInv
PROPERTIES
    SafeOrdersAreReleased
CHECK_DEADLOCK FALSE
