SPECIFICATION Spec
CONSTANTS
    c1 = c1
    c2 = c2
    None = None
    Calls = {c1, c2}
    MaxObjects = 2
    MaxChanges = 2
    Faults = {"error", "crash"}
SYMMETRY Symmetry
INVARIANTS
    RowHasObject
    NoSilentOrphan
    NothingFromDamagedBytes
    CertificatesAgree
    NoFalseAccusation
CHECK_DEADLOCK FALSE
