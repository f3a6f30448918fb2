SPECIFICATION Spec
CONSTANTS
    Ops = {o1, o2}
    Ids = {i1}
    Nodes = {0, 1}
    Salt <- NodeSalt
    Controllers = {c1}
    Radix = 2
    Slots = 4
    Kinds = {"index", "delete"}
    Plans <- WritesPlans
    MaxMicros = 1
    MaxSplits = 6
SYMMETRY Symmetry
INVARIANTS LastWriteVisible SupersededHidden
