SPECIFICATION AllSpec
CONSTANTS
    h1 = h1
    h2 = h2
    b1 = b1
    l1 = l1
    p1 = p1
    s1 = s1
    t1 = t1
    u1 = u1
    n1 = n1
    n2 = n2
    Handlers = {h1, h2}
    Logins = {l1}
    Boxes = {b1}
    Socials = {s1}
    Passwords = {p1}
    Statuses = {"ACTIVE", "BANNED"}
    Phones = {t1}
    MaxId = 1
    Visitors = {u1}
    Mobiles = {n1, n2}
    MaxCode = 2
    ExpireDays = 2
    RememberDays = 4
    MaxDay = 7
SYMMETRY Symmetry
CHECK_DEADLOCK FALSE
INVARIANT OneAccountPerMailbox
