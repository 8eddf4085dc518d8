SPECIFICATION Spec
CONSTANTS
    c1 = c1
    c2 = c2
    r1 = r1
    r2 = r2
    NoCard = NoCard
    Cards = {c1, c2}
    Requests = {r1, r2}
    Total <- Total3
    Amounts = {1, 2, 3}
    MAX_PAYMENTS_PER_INVOICE = 2
    MaxYear = 2
    MaxFaults = 1
SYMMETRY RequestSymmetry
 
INVARIANT PaidIsPaidFor
INVARIANT GeneratedAnnounced
INVARIANT BooksInOrder
CHECK_DEADLOCK FALSE
