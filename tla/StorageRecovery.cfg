SPECIFICATION FairSpec
CONSTANTS
    Nodes = {1, 2, 3}
    Writer = 2
    RepairBatch = 2
    DrainBatch = 3
    Plans <- MCPlans
INVARIANTS
    Findable
PROPERTIES
    Reclaimed
    Restored
    Drained
CHECK_DEADLOCK FALSE
