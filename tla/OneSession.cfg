SPECIFICATION Spec
CONSTANTS
    MAX_RETRY_ATTEMPTS = 3
    Sessions = {s1}
    Cases = {c1}
    Requests = {r1}
    CaseOf <- CaseOfRequest
    TestPayments <- PreparedPayment
    MaxRuns = 2
    MaxRecoveries = 1
    MaxAborts = 1
INVARIANTS
    OnlyTransientIsRetried
    AttemptsAreNumbered
    MockEffectOnce
    CaseFollowsRequest
    AuditTrail
    DashboardIsConsistent
    RetryAdviceHolds
    OpenWorkIsListed
PROPERTIES
    ReconciledIsFinal
    ImplementsLifecycle
CHECK_DEADLOCK FALSE
