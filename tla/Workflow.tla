-------------------------------- MODULE Workflow --------------------------------
(***************************************************************************)
(* What the console promises to whoever answers for the money, with no     *)
(* sessions, no handlers and no provider in sight: policy judges a case    *)
(* once and never changes its mind; a decision is taken only after that,   *)
(* in a role the verdict permits; every approval leads to one order at     *)
(* most, which carries its action and its amount; and only an order that   *)
(* was claimed takes effect.  Console implements it for any number of      *)
(* sessions, with handlers that stop midway.                               *)
(***************************************************************************)
EXTENDS Naturals, Sequences

CONSTANTS Cases, Roles, Actions, Amounts

VARIABLES
    verdict,         \* what policy says of each case, "none" as long as nobody asked
    decisions,       \* what was decided of each case, oldest first
    orders,          \* the corrections ordered for each case, oldest first
    claimed,         \* orders <<c, k>> somebody has begun, or begun to settle
    effects          \* orders that took effect at a provider

workflowVars == <<verdict, decisions, orders, claimed, effects>>

Verdicts == {"eligible_for_approval", "requires_manager_approval", "needs_more_review", "blocked"}

WorkflowInit ==
    /\ verdict = [c \in Cases |-> "none"]
    /\ decisions = [c \in Cases |-> <<>>]
    /\ orders = [c \in Cases |-> <<>>]
    /\ claimed = {} /\ effects = {}

Judge(c) ==
    /\ verdict[c] = "none"
    /\ \E outcome \in Verdicts : verdict' = [verdict EXCEPT ![c] = outcome]
    /\ UNCHANGED <<decisions, orders, claimed, effects>>

\* Who may decide of a case with this verdict.
Entitled(outcome) ==
    CASE outcome = "eligible_for_approval" -> Roles
      [] outcome = "requires_manager_approval" -> Roles \cap {"finance_manager"}
      [] OTHER -> {}

Decide(c) ==
    /\ \E role \in Entitled(verdict[c]), decision \in {"approved", "rejected"},
          action \in Actions, amount \in Amounts :
         decisions' = [decisions EXCEPT ![c] = Append(@,
            [role |-> role, decision |-> decision, action |-> action, amount |-> amount])]
    /\ UNCHANGED <<verdict, orders, claimed, effects>>

Order(c) ==
    /\ \E i \in 1 .. Len(decisions[c]) :
         /\ decisions[c][i].decision = "approved"
         /\ \A k \in 1 .. Len(orders[c]) : orders[c][k].approval # i
         /\ orders' = [orders EXCEPT ![c] = Append(@,
              [approval |-> i, action |-> decisions[c][i].action,
               amount |-> decisions[c][i].amount])]
    /\ UNCHANGED <<verdict, decisions, claimed, effects>>

ClaimOrder(c, k) ==
    /\ claimed' = claimed \cup {<<c, k>>}
    /\ UNCHANGED <<verdict, decisions, orders, effects>>

TakeEffect(c, k) ==
    /\ <<c, k>> \in claimed
    /\ effects' = effects \cup {<<c, k>>}
    /\ UNCHANGED <<verdict, decisions, orders, claimed>>

WorkflowNext ==
    \E c \in Cases :
        \/ Judge(c) \/ Decide(c) \/ Order(c)
        \/ \E k \in 1 .. Len(orders[c]) : ClaimOrder(c, k) \/ TakeEffect(c, k)

WorkflowSpec == WorkflowInit /\ [][WorkflowNext]_workflowVars
=============================================================================
