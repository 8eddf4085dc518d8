SPECIFICATION WFairSpec
CONSTANTS
    c1 = c1
    c2 = c2
    r1 = r1
    r2 = r2
    p1 = p1
    p2 = p2
    i1 = i1
    h1 = h1
    h2 = h2
    s1 = s1
    NoCard = NoCard
    NoItem = NoItem
    NoPart = NoPart
    Cards = {c1, c2}
    Requests = {r1}
    Parts = {p1, p2}
    MaxRework = 1
    MaxEvents = 2
    MaxFaults = 0
    Items = {i1}
    Opening <- Opening1
    Threshold <- Threshold0
    ItemOf <- OneItem
    Qty <- EachOne
    Staff = {}
    Amounts = {1}
    Handlers = {h1}
    MaxDeliveries = 2
    MaxStock = 4
    MaxOps = 0
    MaxStockFaults = 1
 
 
INVARIANT PartsAccounted
INVARIANT StockFollowsCards
CHECK_DEADLOCK FALSE
