------------------------------- MODULE MCIntake -------------------------------
(* Values for the constants of IntakeProperties that a .cfg cannot write, a case *)
(* above and one below the threshold, and a bound on one run.                   *)
EXTENDS IntakeProperties, TLC

SmallCase ==
    [currency |-> "EUR", issue_type |-> "discount_not_applied", amount |-> 1,
     status |-> "pending_approval"]
LargeCase ==
    [currency |-> "EUR", issue_type |-> "wrong_plan_price", amount |-> 2,
     status |-> "under_review"]

OnlyLarge == {LargeCase}
OnlySmall == {SmallCase}

BriefSteps == {"call_brief", "store_brief", "audit_brief"}

\* A bound: a brief is asked for only before policy has been evaluated.  (Run
\* ConsoleOneSession asks for one at every stage of the intake.)
BriefsComeFirst ==
    \A c \in Cases :
        (\/ briefs[c] # <<>>
         \/ \E s \in Sessions : pc[s] \in BriefSteps /\ job[s].case = c)
        => evaluations[c] = <<>>

SessionSymmetry == Permutations(Sessions)
=============================================================================
