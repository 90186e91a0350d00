------------------------------ MODULE OpsMetrics ------------------------------
(***************************************************************************)
(* What the operations dashboard and the guidance texts of the console     *)
(* derive from the tables: the aggregate metrics, the two work queues and  *)
(* the advice shown for an execution status (ops_metrics.py,               *)
(* status_helpers.py), and whether what they say is so.                    *)
(***************************************************************************)
EXTENDS ExecutionProperties

\* The rows of a table that is kept per request, by their position.
RowsOf(table) == UNION {{r} \X (1 .. Len(table[r])) : r \in Requests}

Attempt(row) == attempts[row[1]][row[2]]
Run(row) == runs[row[1]][row[2]]
RecoveryAction(row) == recoveries[row[1]][row[2]]

-----------------------------------------------------------------------------
(* The queries *)

AttemptsWithError(error) ==
    Cardinality({row \in RowsOf(attempts) : Attempt(row).error_type = error})

SuccessfulAttempts == Cardinality({row \in RowsOf(attempts) : Succeeded(Attempt(row))})

\* Mutant: a timeout is not counted as an unknown failure.
AttemptMetricsWithoutTimeouts ==
    [total |-> Cardinality(RowsOf(attempts)),
     successful |-> SuccessfulAttempts,
     transient |-> AttemptsWithError("transient"),
     permanent |-> AttemptsWithError("permanent"),
     unknown |-> Cardinality({row \in RowsOf(attempts) :
                                 Attempt(row).provider_status = "unknown"})]

\* get_execution_attempt_metrics
AttemptMetrics ==
    [total |-> Cardinality(RowsOf(attempts)),
     successful |-> SuccessfulAttempts,
     transient |-> AttemptsWithError("transient"),
     permanent |-> AttemptsWithError("permanent"),
     unknown |-> AttemptsWithError("unknown")]

RunsWithResult(results) ==
    Cardinality({row \in RowsOf(runs) : Run(row).result \in results})

Mismatches ==
    { "provider_succeeded_internal_not_recorded", "internal_succeeded_provider_missing",
      "unknown_provider_state" }

\* get_reconciliation_metrics
ReconciliationMetrics ==
    [total |-> Cardinality(RowsOf(runs)),
     matched_success |-> RunsWithResult({"matched_success"}),
     matched_failure |-> RunsWithResult({"matched_failure"}),
     mismatches_or_unknowns |-> RunsWithResult(Mismatches)]

RecoveriesTo(status) ==
    Cardinality({row \in RowsOf(recoveries) : RecoveryAction(row).new = status})

\* get_manual_recovery_metrics
RecoveryMetrics ==
    [total |-> Cardinality(RowsOf(recoveries)),
     manually_resolved |-> RecoveriesTo("manually_resolved"),
     cancelled |-> RecoveriesTo("cancelled")]

\* get_execution_status_counts; a status nobody has is a row the query leaves out.
ExecutionStatusCounts ==
    [status \in StoredStatuses |-> Cardinality({r \in Requests : request[r].status = status})]

WithStatus(statuses) == {r \in Requests : request[r].status \in statuses}

\* get_needs_attention_queue
NeedsAttentionQueue ==
    WithStatus({"failed_transient", "failed_permanent", "needs_manual_review"})

\* get_unreconciled_execution_queue: one run with any result but
\* not_ready_for_reconciliation takes a request off the queue for good.
UnreconciledQueue ==
    {r \in WithStatus({"succeeded", "failed_transient", "failed_permanent",
                       "needs_manual_review"}) :
        \A i \in 1 .. Len(runs[r]) : runs[r][i].result = "not_ready_for_reconciliation"}

\* get_execution_status_guidance
Guidance(status) ==
    CASE status = "execution_pending" -> "execute"
      [] status \in InProgress -> "wait"
      [] status = "succeeded" -> "reconcile"
      [] status = "failed_transient" -> "retry"
      [] status \in {"failed_permanent", "needs_manual_review"} -> "recover"
      [] status \in {"reconciled", "manually_resolved", "cancelled"} -> "done"
      [] OTHER -> "review_history"

-----------------------------------------------------------------------------
(* Any number of sessions *)

\* The figures of the dashboard agree with each other and with the statuses below
\* them at every moment, although rows and statuses are written by different
\* statements: every attempt is counted in exactly one class; no request shows a
\* success, a verification, a resolution or a cancellation that the figures do not
\* count, but for recoveries whose row is still to come or was lost with its handler.
DashboardIsConsistent ==
    LET recovering == Cardinality({s \in Sessions : pc[s] \in RecoverSteps})
        shown == ExecutionStatusCounts
    IN  /\ AttemptMetrics.total =
             AttemptMetrics.successful + AttemptMetrics.transient
               + AttemptMetrics.permanent + AttemptMetrics.unknown
        /\ shown["succeeded"] + shown["reconciled"] <= AttemptMetrics.successful
        /\ shown["reconciled"] <= ReconciliationMetrics.matched_success
        /\ shown["manually_resolved"] <=
             RecoveryMetrics.manually_resolved + recovering + aborts
        /\ shown["cancelled"] <=
             RecoveryMetrics.cancelled + recovering + aborts

\* Who is told to wait ("Execution is in progress. Refresh if needed.") waits for a
\* handler that really is at work on the request and has yet to write its outcome,
\* unless a handler stopped midway (_run_provider_attempt).
WaitingIsJustified ==
    \A r \in Requests :
        Guidance(request[r].status) = "wait" =>
            At(r, ExecuteSteps \ {"claim", "finish_case", "recheck", "recount",
                                  "exhaust", "exhaust_case"}) # {} \/ aborts > 0

-----------------------------------------------------------------------------
(* No two handlers on the same request *)

Quiet == aborts = 0 /\ \A s \in Sessions : pc[s] = "idle"

\* Who is told that a retry is allowed gets one: between handlers no request reads
\* failed_transient once its attempts are used up (status_helpers.py:57-58; retry and
\* the check after it must agree on the limit).
RetryAdviceHolds ==
    Quiet => \A r \in Requests :
        Guidance(request[r].status) = "retry" =>
            Retryable(request[r].status, Len(attempts[r]))

\* Between handlers, whoever is advised to wait, to retry, to reconcile or to recover is
\* on one of the two queues of the dashboard, so no open work drops out of sight: but for
\* a success that a run about an earlier status hides.  A run takes a success off its
\* queue only together with the status, and no handler leaves a request in progress (the
\* queries read statuses and results of runs, the handlers write them one by one).
OpenWorkIsListed ==
    Quiet => \A r \in Requests :
        Guidance(request[r].status) \in {"wait", "retry", "reconcile", "recover"} =>
            \/ r \in NeedsAttentionQueue \cup UnreconciledQueue
            \/ /\ request[r].status = "succeeded"
               /\ \E i \in 1 .. Len(runs[r]) : runs[r][i].internal_status # "succeeded"

-----------------------------------------------------------------------------
(* What the documentation says *)

\* The queue holds the requests that "reached terminal execution states but are not
\* reconciled" (ops_metrics.py:269): between handlers, in particular, every success
\* still to reconcile.
SuccessIsQueued == Quiet => WithStatus({"succeeded"}) \subseteq UnreconciledQueue
=============================================================================
