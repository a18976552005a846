SPECIFICATION Spec
CONSTANTS
    Location = {l1, l2}
    MaxPc = 5
    MaxBlockBytes = 3
SYMMETRY Symmetry
INVARIANTS
    DirectionsAgree
    RangeCountIsExact
    InvalidationIsExact
