SPECIFICATION FairSpec
CONSTANTS
    MAX_RETRY_ATTEMPTS = 2
    Sessions = {s1, s2}
    Cases = {c1}
    Requests = {r1}
    CaseOf <- CaseOfRequest
    TestPayments <- PreparedPayment
    MaxRuns = 0
    MaxRecoveries = 0
    MaxAborts = 0
INVARIANTS
    TypeOK
    AttemptBudget
    DuplicateNumbersAreBounded
    PendingIsUntouched
    MockWritesAreAccounted
    WaitingIsJustified
PROPERTIES
    InProgressSettles
CHECK_DEADLOCK FALSE
