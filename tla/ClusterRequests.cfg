SPECIFICATION FairSpec
CONSTANTS
    c1 = c1
    c2 = c2
    Nodes = {n1, n2}
    Docs = {1, 2}
    Clients = {c1, c2}
    Page = 1
    Plans <- MCPlans
INVARIANTS StoredOnce RefreshSees QueryDeleted OwnDeleteHidden ListComplete
PROPERTIES Answered 
