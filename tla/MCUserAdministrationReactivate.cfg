SPECIFICATION Spec
CONSTANTS
    u1 = u1
    u2 = u2
    u3 = u3
    Users = {u1, u2}
    Newcomer = u3
    Admin = admin
    OtherRoles = {investigator}
    h1 = h1
    h2 = h2
    h3 = h3
    Handlers = {h1, h2}
    Requests <- Reactivations
    None = None
INVARIANTS
    SomeActiveAdmin
CHECK_DEADLOCK FALSE
