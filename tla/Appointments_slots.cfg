SPECIFICATION Spec
CONSTANTS
    c1 = c1
    c2 = c2
    c3 = c3
    r1 = r1
    r2 = r2
    m1 = m1
    m2 = m2
    NoCard = NoCard
    Cards = {c1, c2}
    Requests = {r1, r2}
    Managers = {m1}
    Configs <- GarageConfigs
    Times = {4, 6}
    Day = 3
    WindowDays = 3
    RemindWidth = 2
    LateBefore = 1
    Grace = 0
    CreatedWithin = 4
    MaxTime = 6
    MaxFaults = 1
SYMMETRY AppointmentSymmetry
INVARIANT OfferedIsBookable
INVARIANT CancellationsAnnounced
 
 
CHECK_DEADLOCK FALSE
