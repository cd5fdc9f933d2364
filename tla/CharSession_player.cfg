SPECIFICATION Spec
CONSTANTS
    m1 = m1
    m2 = m2
    a1 = a1
    c1 = c1
    c2 = c2
    l1 = l1
    l2 = l2
    l3 = l3
    p1 = p1
    p2 = p2
    p3 = p3
    None = None
    Second = Second
    f1 = f1
    f2 = f2
    f3 = f3
    MapServers = {m1, m2}
    Fds = {f1, f2}
    Accounts = {a1}
    Chars = {c1}
    Logins = {l1, l2}
    Clients = {p1, p2}
    OwnerOf <- OneOwner
    AccountOf <- OneAccount
    ClientOf <- OneClient
    HomeOf <- Homes
    Restarters = {l1, l2}
    Quitters = {}
    FifoSize = 1
    MaxVer = 1
    MaxQueue = 1
    MaxPending = 1
    MaxFaults = 1
INVARIANTS TypeOK PlayingIsNewest OnlineOnLinked
PROPERTIES NeverRolledBack
SYMMETRY SymmetricLogins
CHECK_DEADLOCK FALSE
