SPECIFICATION Spec
CONSTANTS
    owner = owner
    guest = guest
    c1 = c1
    c2 = c2
    None = None
    Users = {owner, guest}
    Owner = owner
    Recipients = {guest}
    RolesOf <- WidestRoles
    Asks <- CreatorManages
    CaseStatuses = {"CLOSED", "ARCHIVED"}
    Calls = {c1, c2}
SYMMETRY Symmetry
INVARIANTS
    ServedWereEntitled
    SteadyNotRefused
PROPERTIES
    InsidersWrite
CHECK_DEADLOCK FALSE
