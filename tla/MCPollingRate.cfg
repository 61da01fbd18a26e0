SPECIFICATION Spec
CONSTANTS
    Profile = {q1, q2}
    Image = {i1, i2}
    Rate = {r1, r2}
    Ways = {"update", "composite"}
    MaxOps = 4
    MaxTouches = 1
    None = None
SYMMETRY Symmetry
INVARIANT RateEvidenceIsOfItsProfile
PROPERTY RateWriteSavesIntendedImage
CHECK_DEADLOCK FALSE
