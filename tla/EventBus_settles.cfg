SPECIFICATION FairSpec
CONSTANTS
    e1 = e1
    e2 = e2
    c1 = c1
    c2 = c2
    p1 = p1
    p2 = p2
    s1 = s1
    s2 = s2
    NoPoller = NoPoller
    NoEvent = NoEvent
    Events = {e1, e2}
    Consumers = {c1}
    Pollers = {p1}
    Slots = {s1}
    SuppressErrors = TRUE
    MaxRetries = 2
    BatchSize = 1
    MaxThrows = 1
    MaxLogFaults = 1
    MaxOutboxFaults = 2
    MaxCrashes = 1
    MaxInterventions = 0
INVARIANT ExactlyOnce
PROPERTY EventuallySettled
CHECK_DEADLOCK FALSE
