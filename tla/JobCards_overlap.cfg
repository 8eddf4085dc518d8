SPECIFICATION Spec
CONSTANTS
    c1 = c1
    c2 = c2
    r1 = r1
    r2 = r2
    p1 = p1
    p2 = p2
    NoCard = NoCard
    Cards = {c1}
    Requests = {r1, r2}
    Parts = {p1, p2}
    MaxRework = 1
    MaxEvents = 2
    MaxFaults = 1
INVARIANT CompletionAnnounced
CHECK_DEADLOCK FALSE
