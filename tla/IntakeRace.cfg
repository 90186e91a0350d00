SPECIFICATION Spec
CONSTANTS
    Sessions = {s1, s2}
    Cases = {c1}
    SeedCases <- OnlyLarge
    FormActions = {"refund", "credit_note", "hold_for_manual_review"}
    Amounts = {2}
    MANAGER_APPROVAL_THRESHOLD = 1
    MaxBriefs = 1
    MaxEvaluations = 1
    MaxPayments = 1
    MaxAborts = 1
CONSTRAINT BriefsComeFirst
SYMMETRY SessionSymmetry
INVARIANTS
    IntakeTypeOK
    OneRequestPerApproval
    RequestIsAuthorised
    IntakeTrail
    IntentsAreAccounted
CHECK_DEADLOCK FALSE
