SPECIFICATION Spec
CONSTANTS
    e1 = e1
    e2 = e2
    c1 = c1
    c2 = c2
    p1 = p1
    p2 = p2
    s1 = s1
    s2 = s2
    NoPoller = NoPoller
    NoEvent = NoEvent
    Events = {e1}
    Consumers = {c1, c2}
    Pollers = {p1, p2}
    Slots = {s1, s2}
    SuppressErrors = FALSE
    MaxRetries = 2
    BatchSize = 1
    MaxThrows = 1
    MaxLogFaults = 1
    MaxOutboxFaults = 1
    MaxCrashes = 1
    MaxInterventions = 1
SYMMETRY BusSymmetry
INVARIANT PublishedWasProcessed
INVARIANT DeadLetterEarned
INVARIANT DeadLetterAnnounced
 
CHECK_DEADLOCK FALSE
