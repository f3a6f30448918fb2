SPECIFICATION Spec
CONSTANTS
    Ops = {o1, o2}
    Ids = {i1}
    Nodes = {0}
    Salt <- NodeSalt
    Controllers = {c1}
    Radix = 2
    Slots = 5
    Kinds = {"index"}
    Plans <- LostPlans
    MaxMicros = 0
    MaxSplits = 4
INVARIANTS SupersededHidden
