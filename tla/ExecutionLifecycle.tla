------------------------- MODULE ExecutionLifecycle -------------------------
(***************************************************************************)
(* What an execution request promises to whoever reads its status, with no *)
(* sessions, no statements and no provider in sight: at most one provider  *)
(* call is outstanding, the status it leaves behind is the one of the      *)
(* answer that was recorded, only a transient failure is tried again and   *)
(* only MAX_RETRY_ATTEMPTS times, and only a recorded success is ever      *)
(* reconciled.  ExecutionSessions implements it as long as no two handlers *)
(* work on the same request at once.                                       *)
(***************************************************************************)
EXTENDS BillingRules, Sequences

CONSTANT Requests

VARIABLES
    status,          \* the stored status of each request
    outcomes,        \* the outcomes recorded so far, oldest first
    call             \* "none", "open" (no answer yet) or "recorded"

lifecycleVars == <<status, outcomes, call>>

Outcomes == {"succeeded", "failed_transient", "failed_permanent", "needs_manual_review"}

LifecycleInit ==
    /\ status = [r \in Requests |-> "execution_pending"]
    /\ outcomes = [r \in Requests |-> <<>>]
    /\ call = [r \in Requests |-> "none"]

\* Moves the status of a request on which no call is under way.
Settle(r, new) ==
    /\ call[r] = "none"
    /\ status' = [status EXCEPT ![r] = new]
    /\ UNCHANGED <<outcomes, call>>

Open(r, inProgress) ==
    /\ call[r] = "none"
    /\ status' = [status EXCEPT ![r] = inProgress]
    /\ call' = [call EXCEPT ![r] = "open"]
    /\ UNCHANGED outcomes

FirstAttempt(r) ==
    /\ status[r] = "execution_pending"
    /\ outcomes[r] = <<>>
    /\ Open(r, "processing")

AnotherAttempt(r) ==
    /\ Retryable(status[r], Len(outcomes[r]))
    /\ outcomes[r][Len(outcomes[r])] = "failed_transient"
    /\ Open(r, "retrying")

RecordOutcome(r) ==
    /\ call[r] = "open"
    /\ \E outcome \in Outcomes : outcomes' = [outcomes EXCEPT ![r] = Append(@, outcome)]
    /\ call' = [call EXCEPT ![r] = "recorded"]
    /\ UNCHANGED status

Publish(r) ==
    /\ call[r] = "recorded"
    /\ status' = [status EXCEPT ![r] = outcomes[r][Len(outcomes[r])]]
    /\ call' = [call EXCEPT ![r] = "none"]
    /\ UNCHANGED outcomes

\* The handler is gone, and its answer or its publication with it.
Abandon(r) ==
    /\ call[r] # "none"
    /\ call' = [call EXCEPT ![r] = "none"]
    /\ UNCHANGED <<status, outcomes>>

GiveUp(r) ==
    /\ status[r] = "failed_transient"
    /\ Len(outcomes[r]) >= MAX_RETRY_ATTEMPTS
    /\ Settle(r, "needs_manual_review")

Verify(r) ==
    /\ status[r] = "succeeded"
    /\ Settle(r, "reconciled")

Escalate(r) ==
    /\ status[r] # "reconciled"
    /\ Settle(r, "needs_manual_review")

HumanDecision(r) ==
    /\ status[r] \in RecoveryEligible
    /\ \E action \in RecoveryActions : Settle(r, RecoveryStatus[action])

LifecycleNext ==
    \E r \in Requests :
        \/ FirstAttempt(r) \/ AnotherAttempt(r) \/ RecordOutcome(r) \/ Publish(r)
        \/ Abandon(r) \/ GiveUp(r) \/ Verify(r) \/ Escalate(r) \/ HumanDecision(r)

LifecycleSpec == LifecycleInit /\ [][LifecycleNext]_lifecycleVars
=============================================================================
