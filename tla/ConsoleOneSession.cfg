SPECIFICATION Spec
CONSTANTS
    Sessions = {s1}
    Cases = {c1}
    SeedCases <- EveryKind
    FormActions = {"refund"}
    Amounts = {1}
    MANAGER_APPROVAL_THRESHOLD = 1
    MAX_RETRY_ATTEMPTS = 2
    MaxBriefs = 1
    MaxEvaluations = 2
    MaxRuns = 1
    MaxRecoveries = 1
    MaxPayments = 1
    MaxAborts = 1
CONSTRAINT BriefsBeforeExecution
INVARIANTS
    CaseShowsDecision
    CaseShowsExecution
    BriefsAreUsable
PROPERTY
    ImplementsWorkflow
CHECK_DEADLOCK FALSE
