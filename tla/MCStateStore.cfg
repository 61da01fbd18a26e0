SPECIFICATION Spec
CONSTANTS
    Proc = {p1, p2, p3}
    MaxEdits = 1
    None = None
SYMMETRY Symmetry
PROPERTY ImplementsAtomicStore
