CONSTANTS
    a1 = a1
    a2 = a2
    p1 = p1
    p2 = p2
    Accounts = {a1, a2}
    Plans = {p1, p2}
    UpcomingPlans = {p1}
    Times <- TwoTimes
    MaxChecks = 4
SYMMETRY AccountSymmetry
SPECIFICATION Spec
INVARIANTS
    LatestOutcomeIsNewest
    LatestSubscriptionIsNewest
    HistoryInCommitOrder
    QueriesAgree
    SourceIsFaithful
