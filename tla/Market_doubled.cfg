SPECIFICATION MarketSpec
CONSTANTS
    p1 = p1
    p2 = p2
    Traders = {p1, p2}
    Nobody = Nobody
    Places = {1}
    FirstInv <- TwoAndOne
    FirstCart <- NoneOf
    FirstZeny <- NoneOf
    FirstPlace <- OnePlace
    MaxWeight <- Strong
    MaxZeny = 0
    Prices = {}
    Lucky = {p1}
    Carts = {}
    MaxRequests = 1
    MaxChance = 1
INVARIANTS NothingFromNothing
CHECK_DEADLOCK FALSE
