---------------------------- MODULE BillingRules ----------------------------
(***************************************************************************)
(* The vocabulary and the pure decision rules of the execution half of the *)
(* console: execution_rules.py, retry_policy.py, the response mapping of   *)
(* execution_service.py, the comparison of reconciliation_service.py, the  *)
(* status tables of manual_recovery_service.py and the answers the two     *)
(* provider adapters build.  Statuses are the string literals of the code. *)
(***************************************************************************)
EXTENDS Naturals

CONSTANT MAX_RETRY_ATTEMPTS      \* 3 in execution_rules.py

ASSUME RetryLimitAssumption == MAX_RETRY_ATTEMPTS \in Nat \ {0}

-----------------------------------------------------------------------------
(* Statuses *)

ExecutionStatuses ==
    { "execution_pending", "processing", "retrying", "succeeded",
      "failed_transient", "failed_permanent", "needs_manual_review",
      "reconciled", "manually_resolved", "cancelled" }

InProgress == {"processing", "retrying"}

\* What manual recovery can be asked to do.
RecoveryActions ==
    { "mark_manually_resolved", "cancel_execution",
      "attach_provider_reference", "reopen_for_investigation" }

RecoveryEligible == {"failed_transient", "failed_permanent", "needs_manual_review"}

\* The status column as it is really written: reopening stores the name of the
\* action, which EXECUTION_REQUEST_STATUSES does not list.
StoredStatuses == ExecutionStatuses \cup {"reopen_for_investigation"}

\* The status column of a case: before its execution, and during and after it.
CaseStatuses ==
    { "new", "under_review", "pending_approval", "blocked", "approved", "rejected",
      "execution_pending", "processing", "retrying", "succeeded", "failed",
      "needs_manual_review", "reconciled", "manually_resolved", "cancelled" }

-----------------------------------------------------------------------------
(* Provider answers.  An object is the kind of provider_object_id: which    *)
(* system, real or simulated, the identifier came from.                     *)

Objects == {"none", "mock_refund", "re_stripe", "re_mock", "operator_ref"}

Reply(status, error, object) ==
    [provider_status |-> status, error_type |-> error, object |-> object]

\* execute_billing_operation, by the outcome the operator picked.
MockReply ==
    [ success           |-> Reply("succeeded", "none", "mock_refund"),
      transient_failure |-> Reply("failed", "transient", "none"),
      permanent_failure |-> Reply("failed", "permanent", "none"),
      timeout           |-> Reply("timeout", "unknown", "none") ]

\* The error classes Stripe raises; "other" stands for every other exception,
\* a missing key or an unconfigured client included.
StripeErrorType ==
    [ rate_limit |-> "transient", api_connection |-> "transient", api |-> "transient",
      invalid_request |-> "permanent", authentication |-> "permanent",
      permission |-> "permanent", other |-> "unknown" ]

StripeErrors == DOMAIN StripeErrorType

\* Only an unclassified error becomes a timeout.
StripeErrorReply(error) ==
    Reply(IF StripeErrorType[error] = "unknown" THEN "timeout" ELSE "failed",
          StripeErrorType[error], "none")

\* Refund.create returned: a success whatever status the refund has.
StripeRefundReply == Reply("succeeded", "none", "re_stripe")

MockRefundReply == Reply("succeeded", "none", "re_mock")

-----------------------------------------------------------------------------
(* Provider answer to execution status, execution status to case status     *)

\* Mutant: a timeout is filed as a transient failure.
TimeoutIsTransient(reply) ==
    CASE reply.provider_status = "succeeded" -> "succeeded"
      [] reply.error_type = "permanent" -> "failed_permanent"
      [] OTHER -> "failed_transient"

ExecutionStatusOf(reply) ==
    CASE reply.provider_status = "succeeded" -> "succeeded"
      [] reply.provider_status = "failed" /\ reply.error_type = "transient" -> "failed_transient"
      [] reply.provider_status = "failed" /\ reply.error_type = "permanent" -> "failed_permanent"
      [] OTHER -> "needs_manual_review"

\* Mutant: the execution status is stored as the case status.
CaseStatusIsStatus(status) == status

CaseStatusOf(status) ==
    IF status \in {"succeeded", "needs_manual_review", "processing", "retrying"}
    THEN status
    ELSE "failed"

\* Mutant: one attempt too many.
RetryableOnceMore(status, attemptCount) ==
    status = "failed_transient" /\ attemptCount <= MAX_RETRY_ATTEMPTS

Retryable(status, attemptCount) ==
    status = "failed_transient" /\ attemptCount < MAX_RETRY_ATTEMPTS

-----------------------------------------------------------------------------
(* Reconciliation *)

LookupStatuses == {"succeeded", "failed", "not_found", "unknown"}

\* lookup_provider_state: an override wins, then the stored object, then the
\* stored status.
MockLookup(row, override) ==
    IF override # "default" THEN override
    ELSE IF row.object # "none" THEN "succeeded"
    ELSE IF row.status \in {"failed_transient", "failed_permanent"} THEN "not_found"
    ELSE "unknown"

\* _map_stripe_refund_status_to_provider_status
RefundLookup(refundStatus) ==
    CASE refundStatus = "succeeded" -> "succeeded"
      [] refundStatus \in {"failed", "canceled"} -> "failed"
      [] OTHER -> "unknown"

Verdict(result, action) == [result |-> result, action |-> action]

\* Mutant: a reconciled request is not recognised as such.
EvaluateReconciledAgain(internal, provider) ==
    CASE internal = "succeeded" /\ provider = "succeeded" ->
            Verdict("matched_success", "mark_reconciled")
      [] internal # "succeeded" /\ provider = "succeeded" ->
            Verdict("provider_succeeded_internal_not_recorded", "route_manual_review")
      [] provider = "unknown" -> Verdict("unknown_provider_state", "route_manual_review")
      [] OTHER -> Verdict("not_ready_for_reconciliation", "no_change")

\* Mutant: a request in progress is taken for a success.
EvaluateInProgressAsSuccess(internal, provider) ==
    IF internal \in InProgress \cup {"succeeded"} /\ provider = "succeeded"
    THEN Verdict("matched_success", "mark_reconciled")
    ELSE Verdict("not_ready_for_reconciliation", "no_change")

\* _evaluate_reconciliation, in the order of its tests.
EvaluateReconciliation(internal, provider) ==
    CASE internal = "reconciled" -> Verdict("matched_success", "no_change")
      [] internal = "succeeded" /\ provider = "succeeded" ->
            Verdict("matched_success", "mark_reconciled")
      [] internal \in {"failed_transient", "failed_permanent"} /\ provider = "not_found" ->
            Verdict("matched_failure", "no_change")
      [] internal \notin {"reconciled", "succeeded"} /\ provider = "succeeded" ->
            Verdict("provider_succeeded_internal_not_recorded", "route_manual_review")
      [] internal = "succeeded" /\ provider = "not_found" ->
            Verdict("internal_succeeded_provider_missing", "route_manual_review")
      [] \/ provider = "unknown" /\ internal # "reconciled"
         \/ internal = "needs_manual_review" /\ provider # "succeeded" ->
            Verdict("unknown_provider_state", "route_manual_review")
      [] OTHER -> Verdict("not_ready_for_reconciliation", "no_change")

-----------------------------------------------------------------------------
(* Manual recovery *)

RecoveryStatus ==
    [ mark_manually_resolved    |-> "manually_resolved",
      attach_provider_reference |-> "manually_resolved",
      cancel_execution          |-> "cancelled",
      reopen_for_investigation  |-> "reopen_for_investigation" ]

RecoveryCaseStatus ==
    [ mark_manually_resolved    |-> "manually_resolved",
      attach_provider_reference |-> "manually_resolved",
      cancel_execution          |-> "cancelled",
      reopen_for_investigation  |-> "under_review" ]
=============================================================================
