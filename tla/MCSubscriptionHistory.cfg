CONSTANTS
    a1 = a1
    p1 = p1
    r1 = r1
    r2 = r2
    k1 = k1
    k2 = k2
    k3 = k3
    Accounts = {a1}
    Plans = {p1}
    UpcomingPlans = {p1}
    Times <- TwoTimes
    MaxChecks = 2
    Repositories = {r1, r2}
    Calls = {k1, k2}
    FilesMayFail = TRUE
SPECIFICATION FairHistorySpec
INVARIANTS
    AnswerTellsEffect
    CommittedCallFailsForReason
PROPERTY EveryCallAnswers
