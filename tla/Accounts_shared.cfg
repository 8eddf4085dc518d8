SPECIFICATION Spec
CONSTANTS
    u1 = u1
    u2 = u2
    u3 = u3
    s1 = s1
    s2 = s2
    s3 = s3
    v1 = v1
    c1 = c1
    r1 = r1
    r2 = r2
    NoUser = NoUser
    Lost = Lost
    Gone = Gone
    Users = {u1, u2, u3}
    Subjects = {s1, s2, s3}
    Provider <- Providers
    Vehicles = {v1}
    Codes = {c1}
    PhoneOf <- Phones
    Requests = {r1, r2}
    InitIdentity <- Known
    InitOwner <- Owned
    MAX_MEMBERSHIPS = 1
    MaxTokens = 3
    MaxOps = 5
SYMMETRY Alike
INVARIANT SignInKept
 
INVARIANT SpentOnce
INVARIANT CapKept
CHECK_DEADLOCK FALSE
