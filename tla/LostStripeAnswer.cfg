SPECIFICATION Spec
CONSTANTS
    MAX_RETRY_ATTEMPTS = 2
    Sessions = {s1}
    Cases = {c1}
    Requests = {r1}
    CaseOf <- CaseOfRequest
    TestPayments <- PreparedPayment
    MaxRuns = 0
    MaxRecoveries = 0
    MaxAborts = 0
INVARIANTS
    SingleEffect
CHECK_DEADLOCK FALSE
