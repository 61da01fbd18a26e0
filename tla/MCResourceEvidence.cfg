SPECIFICATION EvidenceSpec
CONSTANTS
    Value = {v1, v2}
    Time <- MCTime
    None = None
    Resources = {dpi, rate}
    Dpi = dpi
SYMMETRY Symmetry
INVARIANT EvidenceCoherent
PROPERTY ClaimOnlyFromItsReadback
