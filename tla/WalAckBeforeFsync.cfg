SPECIFICATION Spec
CONSTANTS
    Appenders = {a1, a2}
    Records = {r1, r2}
    MaxSegment = 1
    MaxBatch = 1
    MaxSeq = 3
    MaxErrors = 0
    MaxCrashes = 0
SYMMETRY Symmetry
INVARIANTS AckedDurable
