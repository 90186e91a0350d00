SPECIFICATION Spec
CONSTANTS
    MAX_RETRY_ATTEMPTS = 1
    Sessions = {s1, s2}
    Cases = {c1}
    Requests = {r1}
    CaseOf <- CaseOfRequest
    TestPayments <- NoPayment
    MaxRuns = 1
    MaxRecoveries = 1
    MaxAborts = 0
SYMMETRY SessionSymmetry
INVARIANTS
    SuccessIsRecorded
    ReconciledIsVerified
    AuditTrail
    HumanOutcomeIsHuman
CHECK_DEADLOCK FALSE
