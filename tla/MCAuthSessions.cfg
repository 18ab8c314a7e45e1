SPECIFICATION Spec
CONSTANTS
    u1 = u1
    Users = {u1}
    c1 = c1
    c2 = c2
    Calls = {c1, c2}
    MaxSessions = 3
    MaxResets = 1
    None = None
SYMMETRY Symmetry
INVARIANTS
    ReuseEndsFamily
    RevokeAllEndsSessions
PROPERTIES
    RevokedIsFinal
