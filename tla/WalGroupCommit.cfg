SPECIFICATION FairSpec
CONSTANTS
    Appenders = {a1, a2}
    Records = {r1, r2, r3}
    MaxSegment = 9
    MaxBatch = 2
    MaxSeq = 3
    MaxErrors = 0
    MaxCrashes = 1
INVARIANTS AckedDurable
PROPERTIES ImplementsDurableLog Reclaimed
