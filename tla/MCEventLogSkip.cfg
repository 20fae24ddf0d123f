CONSTANTS
    Writers = {w1, w2}
    Nobody = Nobody
    MaxId = 3
    MaxRemounts = 1
    ReaderLocks = {FALSE}
SPECIFICATION Spec
SYMMETRY Symmetry
INVARIANTS
    NothingSkipped
