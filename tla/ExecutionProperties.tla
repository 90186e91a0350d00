------------------------ MODULE ExecutionProperties -------------------------
(***************************************************************************)
(* The properties of ExecutionSessions.  Those of the first part hold for  *)
(* any number of sessions, with handlers that stop midway; those of the    *)
(* second part need that no two handlers work on the same request at once; *)
(* those of the third part are what the documentation says and the code    *)
(* does not do.                                                            *)
(***************************************************************************)
EXTENDS ExecutionSessions

ExecuteSteps ==
    { "claim", "claim_case", "reread", "count", "call", "store", "audit_attempt",
      "finish", "finish_case", "recheck", "recount", "exhaust", "exhaust_case" }
ReconcileSteps ==
    { "lookup", "store_run", "audit_run", "mark", "mark_case", "audit_mark",
      "route", "audit_route", "route_case" }
RecoverSteps ==
    { "attach", "resolve", "audit_resolve", "resolve_case", "store_recovery",
      "audit_recovery" }

AttemptRows ==
    [number : Nat, provider : Providers,
     provider_status : {"none", "succeeded", "failed", "timeout", "not_found", "unknown"},
     error_type : {"none", "transient", "permanent", "unknown"}]
RunRows ==
    [internal_status : StoredStatuses,
     provider_status : {"none", "succeeded", "failed", "timeout", "not_found", "unknown"},
     result : {"matched_success", "matched_failure",
               "provider_succeeded_internal_not_recorded",
               "internal_succeeded_provider_missing", "unknown_provider_state",
               "not_ready_for_reconciliation"},
     action : {"mark_reconciled", "route_manual_review", "no_change"}]
RecoveryRows ==
    [action : RecoveryActions, previous : StoredStatuses, new : StoredStatuses]
Jobs ==
    [request : Requests \cup {"none"}, via : Vias, seen : Rows, payment : Payments,
     number : Nat, reply : Replies]

TablesOK ==
    /\ request \in [Requests -> Rows]
    /\ caseStatus \in [Cases -> CaseStatuses]
    /\ attempts \in [Requests -> Seq(AttemptRows)]
    /\ runs \in [Requests -> Seq(RunRows)]
    /\ recoveries \in [Requests -> Seq(RecoveryRows)]
    /\ audit \in [Requests -> [Events -> Nat]]
    /\ refund \in [Requests -> {"none", "pending", "succeeded", "failed", "canceled"}]
    /\ mockWrites \in [Requests -> Nat]
    /\ aborts \in Nat

\* A handler works on a request, and its steps are those of the operation it was
\* started for.
ControlOK ==
    /\ pc \in [Sessions -> {"idle"} \cup ExecuteSteps \cup ReconcileSteps \cup RecoverSteps]
    /\ job \in [Sessions -> Jobs]
    /\ \A s \in Sessions :
         /\ pc[s] # "idle" => job[s].request \in Requests
         /\ pc[s] \in ExecuteSteps => job[s].via \in {"mock", "stripe", "retry"}
         /\ pc[s] \in RecoverSteps => job[s].via \in RecoveryActions

\* The type invariant: what the tables and the locals of a handler hold.
TypeOK == TablesOK /\ ControlOK

-----------------------------------------------------------------------------
(* Any number of sessions *)

\* Sessions whose handler on r is at one of the given steps.
At(r, steps) == {s \in Sessions : pc[s] \in steps /\ job[s].request = r}

\* A handler that may still add an attempt to the request.
BeforeStore == {"claim", "claim_case", "reread", "count", "call", "store"}

\* The retry limit is checked long before the attempt is stored, so it can be
\* overrun, but only by the sessions that were already past the check: the
\* attempts stored and those still coming never exceed MAX_RETRY_ATTEMPTS - 1
\* plus the number of sessions (retry_with_mock_provider).
AttemptBudget ==
    \A r \in Requests :
        Len(attempts[r]) + Cardinality(At(r, BeforeStore))
            <= MAX_RETRY_ATTEMPTS - 1 + Cardinality(Sessions)

\* Attempts of the history that carry a number.
WithNumber(r, n) == {i \in 1 .. Len(attempts[r]) : attempts[r][i].number = n}

\* The number of an attempt is counted from the rows long before its own row is stored,
\* and nothing makes it unique: handlers that overlap store attempts under one number.
\* But no number runs ahead of its place in the history, and none is ever shared by
\* more attempts than there are sessions, however often handlers stop and retry
\* (_run_provider_attempt counts once for each attempt it stores).
DuplicateNumbersAreBounded ==
    \A r \in Requests :
        /\ \A i \in 1 .. Len(attempts[r]) : attempts[r][i].number \in 1 .. i
        /\ \A n \in 1 .. Len(attempts[r]) :
             Cardinality(WithNumber(r, n)) <= Cardinality(Sessions)

Succeeded(attempt) == attempt.provider_status = "succeeded"

HasSuccess(r) == \E i \in 1 .. Len(attempts[r]) : Succeeded(attempts[r][i])

\* A request only ever reads succeeded or reconciled when the success is already
\* in the attempt history and an object id is stored, so a stop at any step
\* leaves the evidence behind (_run_provider_attempt stores before it finishes).
SuccessIsRecorded ==
    \A r \in Requests :
        request[r].status \in {"succeeded", "reconciled"} =>
            HasSuccess(r) /\ request[r].object # "none"

\* A request only becomes reconciled on the strength of a stored run that read it
\* as succeeded and heard the same from the provider (run_reconciliation stores
\* the run before it applies the action).
ReconciledIsVerified ==
    \A r \in Requests :
        request[r].status = "reconciled" =>
            \E i \in 1 .. Len(runs[r]) :
                /\ runs[r][i].internal_status = "succeeded"
                /\ runs[r][i].provider_status = "succeeded"
                /\ runs[r][i].action = "mark_reconciled"

\* A request that still reads execution_pending has reached no provider and has
\* no history of attempts, whatever session stopped where: it is safe to execute
\* (the request is claimed before the provider is called).
PendingIsUntouched ==
    \A r \in Requests :
        request[r].status = "execution_pending" =>
            /\ attempts[r] = <<>>
            /\ refund[r] = "none" /\ mockWrites[r] = 0

\* The rows of a table and their audit events: every row has its event except
\* those of handlers between the two statements and of handlers that stopped
\* there, and no event is recorded for a row that is not there.
Audited(r, rows, event, between) ==
    /\ audit[r][event] <= rows
    /\ rows <= audit[r][event] + Cardinality(At(r, {between})) + aborts

\* Attempts, reconciliation runs and manual recovery actions leave an audit event
\* each (record_audit_event is called right after every INSERT).
AuditTrail ==
    \A r \in Requests :
        /\ Audited(r, Len(attempts[r]), "attempt", "audit_attempt")
        /\ Audited(r, Len(runs[r]), "run", "audit_run")
        /\ Audited(r, Len(recoveries[r]), "recovery", "audit_recovery")

Successes(r) == {i \in 1 .. Len(attempts[r]) : Succeeded(attempts[r][i])}

\* The mock provider never holds more objects than the attempt history shows
\* successes, but for calls that have not been stored yet or whose handler
\* stopped before storing them.
MockWritesAreAccounted ==
    \A r \in Requests :
        mockWrites[r] <= Cardinality(Successes(r)) + Cardinality(At(r, {"store"})) + aborts

\* A request reads manually resolved, cancelled or reopened because an operator
\* decided it: the recovery row is stored, or its handler is still on the way to
\* storing it, or stopped on the way (create_manual_recovery_action).
HumanOutcomeIsHuman ==
    \A r \in Requests :
        request[r].status \in {"manually_resolved", "cancelled", "reopen_for_investigation"} =>
            \/ \E i \in 1 .. Len(recoveries[r]) : recoveries[r][i].new = request[r].status
            \/ \E s \in At(r, {"audit_resolve", "resolve_case", "store_recovery"}) :
                 RecoveryStatus[job[s].via] = request[r].status
            \/ aborts > 0

\* A provider call that is under way ends: a request does not stay in processing
\* or retrying (needs FairSpec and handlers that are not stopped midway).
InProgressSettles ==
    \A r \in Requests :
        request[r].status \in InProgress ~> request[r].status \notin InProgress

-----------------------------------------------------------------------------
(* No two handlers on the same request                           *)

\* Every attempt but the last ended in a transient failure: nothing is tried
\* again after a success, a rejection or an unknown outcome, also when the
\* handler of an earlier attempt stopped midway (retry_policy.py).
OnlyTransientIsRetried ==
    \A r \in Requests : \A i \in 1 .. Len(attempts[r]) - 1 :
        /\ attempts[r][i].provider_status = "failed"
        /\ attempts[r][i].error_type = "transient"

\* Attempts are numbered 1, 2, 3, ... in the order they are stored (the number is
\* counted from the rows and not enforced by the schema).
AttemptsAreNumbered ==
    \A r \in Requests : \A i \in 1 .. Len(attempts[r]) : attempts[r][i].number = i

\* Between handlers the case shows the status of its request, as long as no
\* handler stopped midway: every path that moves one moves the other.
CaseFollowsRequest ==
    (aborts = 0 /\ \A s \in Sessions : pc[s] = "idle") =>
        \A r \in Requests :
            caseStatus[CaseOf[r]] =
                CASE request[r].status \in {"failed_transient", "failed_permanent"} -> "failed"
                  [] request[r].status = "reopen_for_investigation" -> "under_review"
                  [] OTHER -> request[r].status

\* Once reconciled, a request stays reconciled (README.md, lifecycle diagram:
\* "Reconciled --> [*]").
ReconciledIsFinal ==
    [][\A r \in Requests : request[r].status = "reconciled" => request'[r].status = "reconciled"]_vars

\* The mock provider creates at most one object: it ignores the key, so only the
\* statuses keep a success, or an answer that was never recorded, from being tried
\* again (mock_billing_adapter.py draws a new object id for every success).
MockEffectOnce == \A r \in Requests : mockWrites[r] <= 1

\* The lifecycle a reader of the status may rely on, as an abstract machine: the
\* status column, the outcomes in the attempt history, and whether a handler is on
\* its way to the provider, or from there to the status.
RequestStatus == [r \in Requests |-> request[r].status]

RecordedOutcomes ==
    [r \in Requests |-> [i \in 1 .. Len(attempts[r]) |-> ExecutionStatusOf(attempts[r][i])]]

CallState ==
    [r \in Requests |-> CASE At(r, BeforeStore \ {"claim"}) # {} -> "open"
                          [] At(r, {"audit_attempt", "finish"}) # {} -> "recorded"
                          [] OTHER -> "none"]

Lifecycle ==
    INSTANCE ExecutionLifecycle
    WITH status <- RequestStatus, outcomes <- RecordedOutcomes, call <- CallState

\* Handlers that keep apart implement the lifecycle, stops included.
ImplementsLifecycle == Lifecycle!LifecycleSpec

-----------------------------------------------------------------------------
(* What the documentation says *)

\* Money moves once per approved correction: the refund at Stripe and the objects
\* at the mock provider are at most one (idempotency.py:4-6).
SingleEffect ==
    \A r \in Requests : mockWrites[r] + (IF refund[r] = "none" THEN 0 ELSE 1) <= 1

\* Internal success and provider failure is a mismatch, and a mismatch is routed
\* to manual review (README.md: "routing unsafe mismatches to manual review").
FailedRefundIsRouted ==
    \A r \in Requests : \A i \in 1 .. Len(runs[r]) :
        runs[r][i].internal_status = "succeeded" /\ runs[r][i].provider_status = "failed" =>
            runs[r][i].action = "route_manual_review"
=============================================================================
