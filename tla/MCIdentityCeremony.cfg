SPECIFICATION Spec
CONSTANTS
    Proc = {p1, p2}
    Unit = {u1, u2}
    Token = {t1, t2, t3, t4}
    None = None
    Profiles = 2
    Phases = {"InitialEnrollment", "AddMouse", "Restore", "ForeignAdoption", "BleAssociation"}
    MaxBegins <- BeginsByProcesses
    MaxUpsets <- UpsetsByProcesses
SYMMETRY Symmetry
CHECK_DEADLOCK FALSE
INVARIANTS TokensNeverCopied DevicesAreStamped StampIsRecorded
PROPERTY CeremonyResumes
