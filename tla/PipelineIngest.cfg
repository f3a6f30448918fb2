SPECIFICATION FairSpec
CONSTANTS
    d1 = d1
    d2 = d2
    Docs = {d1, d2}
    Plans <- MCPlans
    MaxSplits = 6
INVARIANTS AcceptedKept RefreshSeesWrite PublishedReadable NotResurrected DropsOnlyRetired OutstandingExact PublishedOnce
PROPERTIES EventuallyIndexed
