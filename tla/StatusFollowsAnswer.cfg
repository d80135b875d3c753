SPECIFICATION MCSpec
CONSTANTS
    u1 = u1
    u2 = u2
    h1 = h1
    h2 = h2
    Handlers = {h1, h2}
    Buyers = {u1, u2}
    MaxAddresses = 1
    Wares = {1}
    Quantities = {1, 2}
    MaxStock = 2
    Ids = {1, 2}
    Fields = {"f", "g"}
    Values = {0, 1}
    Urls = {"u", "v"}
    MaxImages = 2
    Listed = {1, 2, 3, 4}
    Prices = {1, 2}
    Size = 2
    MaxEdited = 1
    Priced = {1, 2}
    Pieces = {2}
    Zipcodes = {"near", "far"}
    MaxLines = 2
    MaxOrders = 2
    Amounts = {1, 2}
    Day = 2
    Week = 2
    ZoneOffset = 1
    MaxTick = 4
    MaxSales = 3
    MaxRows = 3
    MaxImageRows = 5
    Contacts = {1}
    Answers = {"a", "b"}
    AdminEmail = TRUE
SYMMETRY Symmetry
CHECK_DEADLOCK FALSE
INVARIANT StatusFollowsAnswer
