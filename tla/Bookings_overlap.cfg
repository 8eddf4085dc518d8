SPECIFICATION Spec
CONSTANTS
    b1 = b1
    b2 = b2
    e1 = e1
    e2 = e2
    i1 = i1
    i2 = i2
    r1 = r1
    r2 = r2
    r3 = r3
    Nobody = Nobody
    Keep = Keep
    Bookings = {b1}
    Employees = {e1, e2}
    Items = {i1}
    Requests = {r1, r2}
    MaxFaults = 1
SYMMETRY BookingSymmetry
INVARIANT WorkIsApproved
INVARIANT StaffAreEmployed
INVARIANT AssignmentAdvances
 
CHECK_DEADLOCK FALSE
