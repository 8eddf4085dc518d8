SPECIFICATION Spec
CONSTANTS
    v1 = v1
    v2 = v2
    u1 = u1
    u2 = u2
    f1 = f1
    r1 = r1
    r2 = r2
    m1 = m1
    m2 = m2
    l1 = l1
    k1 = k1
    NoUser = NoUser
    NoFleet = NoFleet
    NoLegacy = NoLegacy
    Vehicles = {v1}
    Users = {u1, u2}
    Fleets = {f1}
    FleetOwner <- FirstOwnsFleets
    Kms = {1, 2}
    OfferTypes = {"SALE", "FLEET_ASSIGNMENT"}
    Requests = {r1}
    MaxRows = 3
    MaxFaults = 1
    Legacy = {l1}
    LegacyOwner <- FirstOwnsLegacy
    HasPlate = {l1}
    LegacyBookings = {k1}
    BookedVehicle <- AllOfFirst
    HasTenant = {k1}
    Runs = {m1}
SYMMETRY VehicleSymmetry
INVARIANT FleetRowsMatch
PROPERTY ImplementsTitle
PROPERTY OdometerFallsByTransferOnly
 
CHECK_DEADLOCK FALSE
