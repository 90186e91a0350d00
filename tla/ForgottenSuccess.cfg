SPECIFICATION Spec
CONSTANTS
    MAX_RETRY_ATTEMPTS = 2
    Sessions = {s1}
    Cases = {c1}
    Requests = {r1}
    CaseOf <- CaseOfRequest
    TestPayments <- NoPayment
    MaxRuns = 1
    MaxRecoveries = 0
    MaxAborts = 0
INVARIANTS
    SuccessIsQueued
CHECK_DEADLOCK FALSE
