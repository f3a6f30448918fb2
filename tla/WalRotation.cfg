SPECIFICATION Spec
CONSTANTS
    Appenders = {a1, a2}
    Records = {r1, r2, r3}
    MaxSegment = 1
    MaxBatch = 2
    MaxSeq = 5
    MaxErrors = 1
    MaxCrashes = 1
SYMMETRY Symmetry
INVARIANTS SegmentKept
PROPERTIES OwnSyncDurable
