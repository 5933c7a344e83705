SPECIFICATION Spec
SYMMETRY EditSymmetry
CONSTANTS
    Create = {c1, c2, c3}
    Edit = {c2, c3}
    Resent = {}
    None = None
    MaxMishaps = 1
    MaxTimeouts = 0
INVARIANTS NothingDestroyed
CHECK_DEADLOCK FALSE
