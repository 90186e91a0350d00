SPECIFICATION FairSpec
CONSTANTS
    MAX_RETRY_ATTEMPTS = 2
    Sessions = {s1}
    Cases = {c1}
    Requests = {r1}
    CaseOf <- CaseOfRequest
    TestPayments <- NoPayment
    MaxRuns = 0
    MaxRecoveries = 0
    MaxAborts = 1
PROPERTIES
    InProgressSettles
CHECK_DEADLOCK FALSE
