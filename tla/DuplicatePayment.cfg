SPECIFICATION Spec
CONSTANTS
    Sessions = {s1, s2}
    Cases = {c1}
    SeedCases <- OnlySmall
    FormActions = {"refund", "credit_note", "hold_for_manual_review"}
    Amounts = {1}
    MANAGER_APPROVAL_THRESHOLD = 1
    MaxBriefs = 0
    MaxEvaluations = 0
    MaxPayments = 1
    MaxAborts = 0
INVARIANTS
    OnePaymentPerCase
CHECK_DEADLOCK FALSE
