SPECIFICATION Spec
CONSTANTS
    MAX_RETRY_ATTEMPTS = 2
    Sessions = {s1, s2}
    Cases = {c1}
    Requests = {r1}
    CaseOf <- CaseOfRequest
    TestPayments <- NoPayment
    MaxRuns = 0
    MaxRecoveries = 0
    MaxAborts = 0
SYMMETRY SessionSymmetry
INVARIANTS
    SingleEffect
CHECK_DEADLOCK FALSE
