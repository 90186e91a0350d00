SPECIFICATION Spec
CONSTANTS
    Sessions = {s1, s2}
    Cases = {c1}
    SeedCases <- OnlySmall
    FormActions = {"refund"}
    Amounts = {1}
    MANAGER_APPROVAL_THRESHOLD = 1
    MAX_RETRY_ATTEMPTS = 1
    MaxBriefs = 0
    MaxEvaluations = 1
    MaxRuns = 0
    MaxRecoveries = 0
    MaxPayments = 0
    MaxAborts = 0
INVARIANTS
    OneEffectPerCase
CHECK_DEADLOCK FALSE
