-------------------------- MODULE ExecutionSessions --------------------------
(***************************************************************************)
(* The execution half of the console at the grain at which it really       *)
(* interleaves.  Every browser session runs in a thread of its own, every  *)
(* database helper opens a connection, runs one statement and commits it,  *)
(* and a provider call is a step between two commits.  A handler is a      *)
(* chain of such steps: pc[s] is the next step of session s, job[s] the    *)
(* locals of its handler.  A handler may also stop between two steps (the  *)
(* process dies, or an exception other than ValueError leaves it), and     *)
(* nothing in the code resumes it.                                         *)
(*                                                                         *)
(* Handlers: execute (mock or Stripe), retry, reconcile, recover.          *)
(***************************************************************************)
EXTENDS BillingRules, Sequences, FiniteSets

CONSTANTS
    Sessions,        \* browser sessions
    Cases,           \* billing cases
    Requests,        \* execution requests
    CaseOf,          \* the case each of them belongs to
    TestPayments,    \* the kinds of test payment a handler can find for each case
    MaxRuns,         \* bound on reconciliation runs started per request
    MaxRecoveries,   \* bound on recovery actions started per request
    MaxAborts        \* bound on handlers that stop midway

\* There is none, or it is a PaymentIntent at Stripe, or a simulated one.
Payments == {"none", "stripe", "mock"}

ASSUME SessionsAssumption == IsFiniteSet(Sessions) /\ Sessions # {}
ASSUME CaseAssumption == CaseOf \in [Requests -> Cases]
ASSUME PaymentAssumption == TestPayments \in [Cases -> SUBSET Payments]
ASSUME BoundsAssumption == MaxRuns \in Nat /\ MaxRecoveries \in Nat /\ MaxAborts \in Nat

VARIABLES
    request,         \* execution_requests: status, provider, provider_object_id
    caseStatus,      \* billing_cases.status
    attempts,        \* execution_attempts
    runs,            \* reconciliation_runs
    recoveries,      \* manual_recovery_actions
    audit,           \* audit_events, counted per kind of event
    refund,          \* Stripe's refund for the request's idempotency key
    mockWrites,      \* refund objects the mock provider has created
    pc, job,         \* the handler each session is running
    aborts           \* handlers that stopped midway

vars == <<request, caseStatus, attempts, runs, recoveries, audit,
          refund, mockWrites, pc, job, aborts>>

-----------------------------------------------------------------------------
Providers == {"mock_billing_provider", "stripe_test_mode"}
Rows == [status : StoredStatuses, provider : Providers, object : Objects]
Replies == [provider_status : {"none", "succeeded", "failed", "timeout", "not_found", "unknown"},
            error_type : {"none", "transient", "permanent", "unknown"},
            object : Objects]
Events == {"attempt", "run", "reconciled", "status", "recovery"}
Vias == {"none", "mock", "stripe", "retry", "reconcile"} \cup RecoveryActions

\* The row create_execution_request inserts.
NewRow == [status |-> "execution_pending", provider |-> "mock_billing_provider",
           object |-> "none"]

\* The locals of a handler: what it was called with, the row and the test payment
\* it has read, the number of its attempt and the answer it got.
Locals(r, via, row, payment) ==
    [request |-> r, via |-> via, seen |-> row, payment |-> payment, number |-> 0,
     reply |-> Reply("none", "none", "none")]

NoJob == Locals("none", "none", NewRow, "none")

\* Execution starts from rows as they are inserted.
InitRequests ==
    /\ request = [r \in Requests |-> NewRow]
    /\ attempts = [r \in Requests |-> <<>>]
    /\ runs = [r \in Requests |-> <<>>]
    /\ recoveries = [r \in Requests |-> <<>>]
    /\ audit = [r \in Requests |-> [e \in Events |-> 0]]
    /\ refund = [r \in Requests |-> "none"]
    /\ mockWrites = [r \in Requests |-> 0]
    /\ pc = [s \in Sessions |-> "idle"]
    /\ job = [s \in Sessions |-> NoJob]
    /\ aborts = 0

Init == InitRequests /\ caseStatus = [c \in Cases |-> "execution_pending"]

-----------------------------------------------------------------------------
(* One committed statement, and what it leaves alone *)

UpdateRequest(r, row) ==
    /\ request' = [request EXCEPT ![r] = row]
    /\ UNCHANGED <<caseStatus, attempts, runs, recoveries, audit, refund, mockWrites, aborts>>

\* The case of request r.
UpdateCase(r, status) ==
    /\ caseStatus' = [caseStatus EXCEPT ![CaseOf[r]] = status]
    /\ UNCHANGED <<request, attempts, runs, recoveries, audit, refund, mockWrites, aborts>>

RecordEvent(r, event) ==
    /\ audit' = [audit EXCEPT ![r][event] = @ + 1]
    /\ UNCHANGED <<request, caseStatus, attempts, runs, recoveries, refund, mockWrites, aborts>>

ReadOnly ==
    UNCHANGED <<request, caseStatus, attempts, runs, recoveries, audit, refund, mockWrites, aborts>>

(* The control flow of a handler *)

\* Session s starts a handler with what it has read so far.
Begin(s, first, locals) ==
    /\ pc[s] = "idle"
    /\ pc' = [pc EXCEPT ![s] = first]
    /\ job' = [job EXCEPT ![s] = locals]
    /\ ReadOnly

Move(s, here, there) ==
    /\ pc[s] = here
    /\ pc' = [pc EXCEPT ![s] = there]

\* A step that changes no local; the locals are gone once the handler returns.
Proceed(s, here, there) ==
    /\ Move(s, here, there)
    /\ job' = [job EXCEPT ![s] = IF there = "idle" THEN NoJob ELSE @]

-----------------------------------------------------------------------------
(* Execute and retry *)

\* execute_with_mock_provider, execute_with_stripe_provider: the status check,
\* and for Stripe the latest test payment of the case, which must be there.
BeginExecute(s, r, via, payment) ==
    /\ request[r].status = "execution_pending"
    /\ via = "stripe" => payment # "none"
    /\ Begin(s, "claim", Locals(r, via, NewRow, payment))

\* Mutant: the attempts are not counted.
BeginRetryUncounted(s, r) ==
    /\ request[r].status = "failed_transient"
    /\ Begin(s, "claim", Locals(r, "retry", NewRow, "none"))

\* Mutant: a request left in processing is resumed by a retry.
BeginRetryResumes(s, r) ==
    /\ request[r].status \in {"failed_transient", "processing"}
    /\ Len(attempts[r]) < MAX_RETRY_ATTEMPTS
    /\ Begin(s, "claim", Locals(r, "retry", NewRow, "none"))

\* retry_with_mock_provider: the eligibility check.  The row is read before the
\* count; attempts only grow, so what passes with two reads passes with one.
BeginRetry(s, r) ==
    /\ Retryable(request[r].status, Len(attempts[r]))
    /\ Begin(s, "claim", Locals(r, "retry", NewRow, "none"))

\* Mutant: only a retry marks the request.
ClaimRetriesOnly(s) ==
    LET j == job[s]
        row == request[j.request]
    IN  /\ Proceed(s, "claim", "claim_case")
        /\ UpdateRequest(j.request,
             [row EXCEPT !.status = IF j.via = "retry" THEN "retrying" ELSE @])

\* The request is marked as being worked on, whatever its status is by now.
Claim(s) ==
    LET j == job[s]
        row == request[j.request]
    IN  /\ Proceed(s, "claim", "claim_case")
        /\ UpdateRequest(j.request,
             [row EXCEPT !.status = IF j.via = "retry" THEN "retrying" ELSE "processing",
                         !.provider = IF j.via = "stripe" THEN "stripe_test_mode" ELSE @])

ClaimCase(s) ==
    /\ Proceed(s, "claim_case", "reread")
    /\ UpdateCase(job[s].request, IF job[s].via = "retry" THEN "retrying" ELSE "processing")

Reread(s) ==
    /\ Move(s, "reread", "count")
    /\ job' = [job EXCEPT ![s].seen = request[job[s].request]]
    /\ ReadOnly

\* Mutant: the attempt takes the number of the last one.
CountWithoutIncrement(s) ==
    /\ Move(s, "count", "call")
    /\ job' = [job EXCEPT ![s].number = Len(attempts[job[s].request])]
    /\ ReadOnly

\* Mutant: a retry does not count as an attempt of its own.
CountRetriesAsOne(s) ==
    /\ Move(s, "count", "call")
    /\ job' = [job EXCEPT ![s].number =
                 Len(attempts[job[s].request]) + IF job[s].via = "retry" THEN 0 ELSE 1]
    /\ ReadOnly

CountAttempts(s) ==
    /\ Move(s, "count", "call")
    /\ job' = [job EXCEPT ![s].number = Len(attempts[job[s].request]) + 1]
    /\ ReadOnly

\* The mock provider answers as the operator chose, and creates a new object for
\* every success: it does not look at the idempotency key.
CallMock(s) ==
    /\ job[s].via \in {"mock", "retry"}
    /\ Move(s, "call", "store")
    /\ \E outcome \in DOMAIN MockReply :
         /\ job' = [job EXCEPT ![s].reply = MockReply[outcome]]
         /\ mockWrites' = [mockWrites EXCEPT ![job[s].request] =
                             IF outcome = "success" THEN @ + 1 ELSE @]
    /\ UNCHANGED <<request, caseStatus, attempts, runs, recoveries, audit, refund, aborts>>

\* Stripe, called with the request's idempotency key: the first call creates the
\* refund, a later one finds it.  A simulated payment has no PaymentIntent to refund.
RefundCreated(r, payment) ==
    /\ payment = "stripe"
    /\ \E status \in IF refund[r] = "none" THEN {"pending", "succeeded"} ELSE {refund[r]} :
         refund' = [refund EXCEPT ![r] = status]

\* Forced mock mode answers without Stripe.  In live mode the call succeeds, or
\* takes effect and its answer is lost, or fails before it has an effect.
CallStripe(s) ==
    /\ job[s].via = "stripe"
    /\ Move(s, "call", "store")
    /\ \/ /\ job' = [job EXCEPT ![s].reply = MockRefundReply]
          /\ UNCHANGED refund
       \/ /\ RefundCreated(job[s].request, job[s].payment)
          /\ \/ job' = [job EXCEPT ![s].reply = StripeRefundReply]
             \/ \E error \in {"api_connection", "api"} :
                  job' = [job EXCEPT ![s].reply = StripeErrorReply(error)]
       \/ /\ \E error \in StripeErrors :
               job' = [job EXCEPT ![s].reply = StripeErrorReply(error)]
          /\ UNCHANGED refund
    /\ UNCHANGED <<request, caseStatus, attempts, runs, recoveries, audit, mockWrites, aborts>>

\* Mutant: an attempt whose number is taken is silently ignored.
StoreAttemptOnce(s) ==
    LET j == job[s]
    IN  /\ Proceed(s, "store", "audit_attempt")
        /\ attempts' = [attempts EXCEPT ![j.request] =
             IF Len(@) >= j.number THEN @
             ELSE Append(@, [number |-> j.number, provider |-> j.seen.provider,
                             provider_status |-> j.reply.provider_status,
                             error_type |-> j.reply.error_type])]
        /\ UNCHANGED <<request, caseStatus, runs, recoveries, audit, refund, mockWrites, aborts>>

\* Mutant: the attempt is stored without its audit event.
StoreAttemptUnaudited(s) ==
    LET j == job[s]
    IN  /\ Proceed(s, "store", "finish")
        /\ attempts' = [attempts EXCEPT ![j.request] = Append(@,
             [number |-> j.number, provider |-> j.seen.provider,
              provider_status |-> j.reply.provider_status,
              error_type |-> j.reply.error_type])]
        /\ UNCHANGED <<request, caseStatus, runs, recoveries, audit, refund, mockWrites, aborts>>

StoreAttempt(s) ==
    LET j == job[s]
    IN  /\ Proceed(s, "store", "audit_attempt")
        /\ attempts' = [attempts EXCEPT ![j.request] = Append(@,
             [number |-> j.number,
              provider |-> IF j.via = "stripe" THEN "stripe_test_mode" ELSE j.seen.provider,
              provider_status |-> j.reply.provider_status,
              error_type |-> j.reply.error_type])]
        /\ UNCHANGED <<request, caseStatus, runs, recoveries, audit, refund, mockWrites, aborts>>

AuditAttempt(s) ==
    /\ Proceed(s, "audit_attempt", "finish")
    /\ RecordEvent(job[s].request, "attempt")

\* Mutant: an answer without an object clears the stored one.
FinishClearsObject(s) ==
    /\ Proceed(s, "finish", "finish_case")
    /\ UpdateRequest(job[s].request,
         [request[job[s].request] EXCEPT !.status = ExecutionStatusOf(job[s].reply),
                                         !.object = job[s].reply.object])

\* Mutant: an answer without an object updates nothing.
FinishNeedsObject(s) ==
    LET j == job[s]
        row == request[j.request]
    IN  /\ Proceed(s, "finish", "finish_case")
        /\ UpdateRequest(j.request,
             IF j.reply.object = "none" THEN row
             ELSE [row EXCEPT !.status = ExecutionStatusOf(j.reply), !.object = j.reply.object])

\* The final status; an empty object id leaves the stored one alone.
Finish(s) ==
    LET j == job[s]
        row == request[j.request]
    IN  /\ Proceed(s, "finish", "finish_case")
        /\ UpdateRequest(j.request,
             [row EXCEPT !.status = ExecutionStatusOf(j.reply),
                         !.object = IF j.reply.object = "none" THEN @ ELSE j.reply.object])

FinishCase(s) ==
    /\ Proceed(s, "finish_case", IF job[s].via = "retry" THEN "recheck" ELSE "idle")
    /\ UpdateCase(job[s].request, CaseStatusOf(ExecutionStatusOf(job[s].reply)))

\* After a retry the row and then the count are read again.
Recheck(s) ==
    /\ Move(s, "recheck", "recount")
    /\ job' = [job EXCEPT ![s].seen = request[job[s].request]]
    /\ ReadOnly

\* Mutant: the attempts may exceed the limit by one before they are exhausted.
ExhaustedLate(s) ==
    /\ job[s].seen.status = "failed_transient"
    /\ Len(attempts[job[s].request]) > MAX_RETRY_ATTEMPTS

Exhausted(s) ==
    /\ job[s].seen.status = "failed_transient"
    /\ Len(attempts[job[s].request]) >= MAX_RETRY_ATTEMPTS

Recount(s) ==
    /\ Proceed(s, "recount", IF Exhausted(s) THEN "exhaust" ELSE "idle")
    /\ ReadOnly

\* Mutant: the case of an exhausted request is forgotten.
ExhaustRequestOnly(s) ==
    LET r == job[s].request
    IN  /\ Proceed(s, "exhaust", "idle")
        /\ UpdateRequest(r, [request[r] EXCEPT !.status = "needs_manual_review"])

Exhaust(s) ==
    LET r == job[s].request
    IN  /\ Proceed(s, "exhaust", "exhaust_case")
        /\ UpdateRequest(r, [request[r] EXCEPT !.status = "needs_manual_review"])

ExhaustCase(s) ==
    /\ Proceed(s, "exhaust_case", "idle")
    /\ UpdateCase(job[s].request, "needs_manual_review")

-----------------------------------------------------------------------------
(* Reconcile: everything is decided on the row read first *)

BeginReconcile(s, r) ==
    /\ Len(runs[r]) < MaxRuns
    /\ Begin(s, "lookup", Locals(r, "reconcile", request[r], "none"))

\* What the lookup can answer for the row that was read.  The mock provider obeys
\* the override the operator picked; Stripe is asked in live mode only, by the
\* stored object id, and any failure to get an answer is "unknown".  An operator's
\* reference may or may not be the refund's id.
LookupAnswers(r, row) ==
    IF row.provider = "mock_billing_provider"
    THEN {MockLookup(row, override) :
            override \in {"default", "succeeded", "not_found", "unknown"}}
    ELSE {"succeeded", "unknown"} \cup
         IF row.object \in {"re_stripe", "operator_ref"} /\ refund[r] # "none"
         THEN {RefundLookup(refund[r])}
         ELSE {}

Lookup(s) ==
    /\ Move(s, "lookup", "store_run")
    /\ \E answer \in LookupAnswers(job[s].request, job[s].seen) :
         job' = [job EXCEPT ![s].reply = Reply(answer, "none", "none")]
    /\ ReadOnly

Evaluated(s) == EvaluateReconciliation(job[s].seen.status, job[s].reply.provider_status)

StoreRun(s) ==
    LET j == job[s]
    IN  /\ Proceed(s, "store_run", "audit_run")
        /\ runs' = [runs EXCEPT ![j.request] = Append(@,
             [internal_status |-> j.seen.status,
              provider_status |-> j.reply.provider_status,
              result |-> Evaluated(s).result,
              action |-> Evaluated(s).action])]
        /\ UNCHANGED <<request, caseStatus, attempts, recoveries, audit, refund, mockWrites, aborts>>

\* Mutant: a mismatch is recorded and not routed.
AuditRunMarksOnly(s) ==
    /\ Proceed(s, "audit_run", IF Evaluated(s).action = "mark_reconciled" THEN "mark" ELSE "idle")
    /\ RecordEvent(job[s].request, "run")

\* The run's audit event; then _apply_reconciliation_action picks the branch.
AuditRun(s) ==
    /\ Proceed(s, "audit_run", CASE Evaluated(s).action = "mark_reconciled" -> "mark"
                                 [] Evaluated(s).action = "route_manual_review" -> "route"
                                 [] OTHER -> "idle")
    /\ RecordEvent(job[s].request, "run")

\* mark_execution_reconciled: status, case, audit, whatever the status is by now.
Mark(s) ==
    LET r == job[s].request
    IN  /\ Proceed(s, "mark", "mark_case")
        /\ UpdateRequest(r, [request[r] EXCEPT !.status = "reconciled"])

MarkCase(s) ==
    /\ Proceed(s, "mark_case", "audit_mark")
    /\ UpdateCase(job[s].request, "reconciled")

AuditMark(s) ==
    /\ Proceed(s, "audit_mark", "idle")
    /\ RecordEvent(job[s].request, "reconciled")

\* Route to manual review: update_execution_request_status, then the case.
Route(s) ==
    LET r == job[s].request
    IN  /\ Proceed(s, "route", "audit_route")
        /\ UpdateRequest(r, [request[r] EXCEPT !.status = "needs_manual_review"])

AuditRoute(s) ==
    /\ Proceed(s, "audit_route", "route_case")
    /\ RecordEvent(job[s].request, "status")

RouteCase(s) ==
    /\ Proceed(s, "route_case", "idle")
    /\ UpdateCase(job[s].request, "needs_manual_review")

-----------------------------------------------------------------------------
(* Recover *)

\* The fields the operator typed are valid: otherwise nothing happens.
BeginRecover(s, r, action) ==
    /\ request[r].status \in RecoveryEligible
    /\ Len(recoveries[r]) < MaxRecoveries
    /\ Begin(s, IF action = "attach_provider_reference" THEN "attach" ELSE "resolve",
             Locals(r, action, request[r], "none"))

Attach(s) ==
    LET r == job[s].request
    IN  /\ Proceed(s, "attach", "resolve")
        /\ UpdateRequest(r, [request[r] EXCEPT !.object = "operator_ref"])

Resolve(s) ==
    LET r == job[s].request
    IN  /\ Proceed(s, "resolve", "audit_resolve")
        /\ UpdateRequest(r, [request[r] EXCEPT !.status = RecoveryStatus[job[s].via]])

AuditResolve(s) ==
    /\ Proceed(s, "audit_resolve", "resolve_case")
    /\ RecordEvent(job[s].request, "status")

ResolveCase(s) ==
    /\ Proceed(s, "resolve_case", "store_recovery")
    /\ UpdateCase(job[s].request, RecoveryCaseStatus[job[s].via])

\* Mutant: the recovery row keeps the old status as the new one.
StoreRecoveryOldStatus(s) ==
    LET j == job[s]
    IN  /\ Proceed(s, "store_recovery", "audit_recovery")
        /\ recoveries' = [recoveries EXCEPT ![j.request] = Append(@,
             [action |-> j.via, previous |-> j.seen.status, new |-> j.seen.status])]
        /\ UNCHANGED <<request, caseStatus, attempts, runs, audit, refund, mockWrites, aborts>>

StoreRecovery(s) ==
    LET j == job[s]
    IN  /\ Proceed(s, "store_recovery", "audit_recovery")
        /\ recoveries' = [recoveries EXCEPT ![j.request] = Append(@,
             [action |-> j.via, previous |-> j.seen.status, new |-> RecoveryStatus[j.via]])]
        /\ UNCHANGED <<request, caseStatus, attempts, runs, audit, refund, mockWrites, aborts>>

AuditRecovery(s) ==
    /\ Proceed(s, "audit_recovery", "idle")
    /\ RecordEvent(job[s].request, "recovery")

-----------------------------------------------------------------------------
(* The environment *)

\* The handler of s stops where it is and nothing resumes it.
Abort(s) ==
    /\ pc[s] # "idle"
    /\ aborts < MaxAborts
    /\ pc' = [pc EXCEPT ![s] = "idle"]
    /\ job' = [job EXCEPT ![s] = NoJob]
    /\ aborts' = aborts + 1
    /\ UNCHANGED <<request, caseStatus, attempts, runs, recoveries, audit, refund, mockWrites>>

\* Stripe settles a pending refund on its own.
RefundSettles(r) ==
    /\ refund[r] = "pending"
    /\ \E status \in {"succeeded", "failed", "canceled"} :
         refund' = [refund EXCEPT ![r] = status]
    /\ UNCHANGED <<request, caseStatus, attempts, runs, recoveries, audit, mockWrites,
                   pc, job, aborts>>

-----------------------------------------------------------------------------
ExecuteStep(s) ==
    \/ Claim(s) \/ ClaimCase(s) \/ Reread(s) \/ CountAttempts(s)
    \/ CallMock(s) \/ CallStripe(s) \/ StoreAttempt(s) \/ AuditAttempt(s)
    \/ Finish(s) \/ FinishCase(s)
    \/ Recheck(s) \/ Recount(s) \/ Exhaust(s) \/ ExhaustCase(s)

ReconcileStep(s) ==
    \/ Lookup(s) \/ StoreRun(s) \/ AuditRun(s)
    \/ Mark(s) \/ MarkCase(s) \/ AuditMark(s)
    \/ Route(s) \/ AuditRoute(s) \/ RouteCase(s)

RecoverStep(s) ==
    \/ Attach(s) \/ Resolve(s) \/ AuditResolve(s) \/ ResolveCase(s)
    \/ StoreRecovery(s) \/ AuditRecovery(s)

\* The next step of a handler that has begun.
Step(s) == ExecuteStep(s) \/ ReconcileStep(s) \/ RecoverStep(s)

BeginHandler(s) ==
    \E r \in Requests :
        \/ BeginExecute(s, r, "mock", "none")
        \/ \E payment \in TestPayments[CaseOf[r]] : BeginExecute(s, r, "stripe", payment)
        \/ BeginRetry(s, r)
        \/ BeginReconcile(s, r)
        \/ \E action \in RecoveryActions : BeginRecover(s, r, action)

Next ==
    \/ \E s \in Sessions : BeginHandler(s) \/ Step(s) \/ Abort(s)
    \/ \E r \in Requests : RefundSettles(r)

Spec == Init /\ [][Next]_vars

\* A handler that has begun keeps running: its thread is scheduled and its calls
\* return or raise.  Nobody is obliged to click a button.
FairSpec == Spec /\ \A s \in Sessions : WF_vars(Step(s))
=============================================================================
