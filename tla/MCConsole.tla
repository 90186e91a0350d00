------------------------------- MODULE MCConsole -------------------------------
(* Values for the constants of ConsoleProperties that a .cfg cannot write, one  *)
(* kind of case for each outcome of policy, and a bound on one run.             *)
EXTENDS ConsoleProperties, TLC

SmallCase ==
    [currency |-> "EUR", issue_type |-> "discount_not_applied", amount |-> 1,
     status |-> "pending_approval"]
LargeCase ==
    [currency |-> "EUR", issue_type |-> "wrong_plan_price", amount |-> 2,
     status |-> "under_review"]
DuplicateCase ==
    [currency |-> "EUR", issue_type |-> "possible_duplicate_correction", amount |-> 1,
     status |-> "under_review"]
ForeignCase ==
    [currency |-> "USD", issue_type |-> "currency_mismatch", amount |-> 1,
     status |-> "new"]

OnlySmall == {SmallCase}
EveryKind == {SmallCase, LargeCase, DuplicateCase, ForeignCase}

BriefSteps == {"call_brief", "store_brief", "audit_brief"}

\* A bound: a brief is asked for only before the case has an execution request.
BriefsBeforeExecution ==
    \A c \in Cases :
        (\/ briefs[c] # <<>>
         \/ \E s \in Sessions : intakePc[s] \in BriefSteps /\ intakeJob[s].case = c)
        => requests[c] = <<>>
=============================================================================
