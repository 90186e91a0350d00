--------------------------- MODULE ConsoleProperties ---------------------------
(***************************************************************************)
(* The properties of Console that neither half can state alone.            *)
(***************************************************************************)
EXTENDS Console

\* What a reviewer reads as a brief is complete and says where it comes from.
BriefsAreUsable == Intake!BriefsAreUsable

\* The workflow from policy to effect as an abstract machine: the first evaluation,
\* the columns of decisions and requests a reader acts on, which requests have left
\* execution_pending and which of them moved money.
CaseVerdict == [c \in Cases |-> IF evaluations[c] = <<>> THEN "none" ELSE evaluations[c][1]]

DecisionOf(row) ==
    [role |-> row.role, decision |-> row.decision, action |-> row.action, amount |-> row.amount]

Decided == [c \in Cases |-> [i \in 1 .. Len(approvals[c]) |-> DecisionOf(approvals[c][i])]]

OrderOf(row) == [approval |-> row.approval, action |-> row.action, amount |-> row.amount]

Ordered == [c \in Cases |-> [k \in 1 .. Len(requests[c]) |-> OrderOf(requests[c][k])]]

ClaimedSlots == {r \in RequestSlots : request[r].status # "execution_pending"}

EffectSlots == {r \in RequestSlots : mockWrites[r] > 0 \/ refund[r] # "none"}

Promise ==
    INSTANCE Workflow
    WITH Roles <- Intake!Roles, Actions <- Intake!Actions, verdict <- CaseVerdict,
         decisions <- Decided, orders <- Ordered, claimed <- ClaimedSlots,
         effects <- EffectSlots

\* The order of the workflow is kept step by step, by any number of sessions: a verdict
\* never changes, nobody decides before it or without the role it asks for, no approval
\* gets two requests, and no request takes effect before it was claimed (README.md: the
\* order of the workflow; each panel and service checks one link, and none of them
\* holds a lock).
ImplementsWorkflow == Promise!WorkflowSpec

-----------------------------------------------------------------------------
(* No two handlers of one half on the same case *)

\* The case never shows a decision that is not the latest one and never shows an
\* execution as pending without a request, across both halves and with handlers
\* that stop midway.
CaseShowsDecision == Intake!CaseShowsDecision

\* What the case shows of an execution is what the latest request says, between
\* handlers and as long as none stopped midway: a later policy evaluation may hide
\* the outcome, but no sequence of handlers makes the case show another one.
CaseShowsExecution ==
    (aborts = 0 /\ \A s \in Sessions : intakePc[s] = "idle" /\ executionPc[s] = "idle") =>
        \A c \in Cases :
            caseStatus[c] \in {"processing", "retrying", "succeeded", "failed", "reconciled",
                               "needs_manual_review", "manually_resolved", "cancelled"} =>
                \E r \in LatestRequests(c) :
                    caseStatus[c] = IF request[r].status \in {"failed_transient", "failed_permanent"}
                                    THEN "failed" ELSE request[r].status

-----------------------------------------------------------------------------
(* What the documentation says *)

\* Duplicate clicks do not move money twice: at most one request of a case ever takes
\* effect at a provider (idempotency.py:4-6).
OneEffectPerCase ==
    \A c \in Cases :
        Cardinality({r \in RequestSlots :
                        r[1] = c /\ (mockWrites[r] > 0 \/ refund[r] # "none")}) <= 1
=============================================================================
