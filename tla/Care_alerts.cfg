SPECIFICATION Spec
CONSTANTS
    r1 = r1
    t1 = t1
    j1 = j1
    j2 = j2
    r2 = r2
    d1 = d1
    d2 = d2
    k1 = k1
    g1 = g1
    g2 = g2
    Stride = 300
    BuiltYear <- Aged
    Recalcs = {r1}
    Seeds = {49}
    Kms = {1}
    AlertCooldown = 1
    MaxServices = 2
    MaxTime = 2
    MaxAlerts = 3
    MaxFaults = 1
    Tenants = {t1}
    Items <- Every
    NoItem = NoItem
    SeededDue <- Due
    DueSoonTicks = 0
    DueSoonKm = 1
    Preferences <- Enabled
    Runs = {j1, j2}
    Managers = {g1, g2}
    Mail = {"inventory.low-stock", "service-event.created", "invoice.paid"}
    MaxMail = 2
    MAX_RETRIES = 2
    MaxNotes = 3
    Fields = {"vin", "plate"}
    Clearable = {"plate"}
    Values = {"a"}
    NoValue = NoValue
    Documents = {d1, d2}
    Dates = {3, 6}
    NoDate = NoDate
    Cards = {k1}
    Requests = {j1, j2}
    MAX_PHOTOS_PER_JOB_CARD = 1
    DayTicks = 2
    RunTick = 1
    WindowTicks = 4
    MaxClock = 7
    MaxOps = 2
    Focuses <- OneSide
SYMMETRY RunsAlike
 
INVARIANT NoneLeftBehind
 
INVARIANT AlertsFollowScores
INVARIANT TrailReplays
INVARIANT FilesInOrder
CHECK_DEADLOCK FALSE
