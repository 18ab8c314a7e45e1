SPECIFICATION FairSpec
CONSTANTS
    u1 = u1
    u2 = u2
    u3 = u3
    Users = {u1, u2, u3}
    Newcomer = u3
    Admin = admin
    OtherRoles = {investigator}
    h1 = h1
    h2 = h2
    Handlers = {h1, h2}
    Requests <- Removals
    None = None
INVARIANTS
    TypeOK
    SomeActiveAdmin
PROPERTIES
    RequestsEnd
CHECK_DEADLOCK FALSE
