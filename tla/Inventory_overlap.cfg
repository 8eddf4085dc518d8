SPECIFICATION StockSpec
CONSTANTS
    i1 = i1
    i2 = i2
    c1 = c1
    p1 = p1
    p2 = p2
    s1 = s1
    s2 = s2
    h1 = h1
    h2 = h2
    NoItem = NoItem
    NoPart = NoPart
    Items = {i1}
    Opening <- Opening3
    Threshold <- Threshold1
    Cards = {c1}
    Parts = {p1, p2}
    ItemOf <- OneItem
    Qty <- TwoAndOne
    Staff = {s1, s2}
    Amounts = {0, 1}
    Handlers = {h1, h2}
    MaxEvents = 1
    MaxDeliveries = 2
    MaxStock = 4
    MaxOps = 2
    MaxStockFaults = 1
SYMMETRY StaffSymmetry
INVARIANT StockNeverNegative
INVARIANT ProcessedWasPosted
 
CHECK_DEADLOCK FALSE
