SPECIFICATION FairSpec
CONSTANTS
    Ops = {o1, o2}
    Ids = {i1}
    Nodes = {0}
    Salt <- NodeSalt
    Controllers = {c1, c2}
    Radix = 2
    Slots = 5
    Kinds = {"index", "delete"}
    Plans <- ErasurePlans
    MaxMicros = 0
    MaxSplits = 6
INVARIANTS AppliedHides SupersededHidden LastWriteVisible
PROPERTIES EventuallyErased
