--------------------------- MODULE ExecutionProofs ---------------------------
(***************************************************************************)
(* Proofs about ExecutionSessions, for every number of sessions, requests, *)
(* retries, runs, recoveries and handlers that stop midway.                *)
(***************************************************************************)
EXTENDS ExecutionProperties, FiniteSetTheorems, TLAPS

-----------------------------------------------------------------------------
(* Type correctness.  A step is a move of the control and one statement; each *)
(* kind of move and each kind of statement has a lemma.                       *)

\* Two steps of the same handler, or the return of the handler.
SameHandler(here, there) ==
    \/ there = "idle"
    \/ here \in ExecuteSteps /\ there \in ExecuteSteps
    \/ here \in ReconcileSteps /\ there \in ReconcileSteps
    \/ here \in RecoverSteps /\ there \in RecoverSteps

LEMMA NoJobType == NoJob \in Jobs
  BY DEF NoJob, Locals, Jobs, NewRow, Rows, Reply, Replies, Objects, StoredStatuses,
         ExecutionStatuses, Providers, Vias, Payments

\* The locals a handler of each kind begins with.
LEMMA LocalsType ==
  ASSUME NEW r \in Requests, NEW via \in Vias, NEW row \in Rows, NEW payment \in Payments
  PROVE  /\ Locals(r, via, row, payment) \in Jobs
         /\ Locals(r, via, row, payment).request = r
         /\ Locals(r, via, row, payment).via = via
         /\ Locals(r, via, row, payment).seen = row
  BY DEF Locals, Jobs, Reply, Replies, Objects

LEMMA ProceedControl ==
  ASSUME ControlOK, NEW s \in Sessions, NEW here, NEW there,
         SameHandler(here, there), Proceed(s, here, there)
  PROVE  ControlOK'
  <1>1. pc' = [pc EXCEPT ![s] = there] /\ pc[s] = here
    BY DEF Proceed, Move
  <1>2. job' = [job EXCEPT ![s] = IF there = "idle" THEN NoJob ELSE job[s]]
    BY DEF Proceed
  <1>3. job' \in [Sessions -> Jobs]
    BY <1>2, NoJobType DEF ControlOK
  <1>4. QED
    BY <1>1, <1>2, <1>3 DEF ControlOK, SameHandler, ExecuteSteps, ReconcileSteps, RecoverSteps

LEMMA MoveControl ==
  ASSUME ControlOK, NEW s \in Sessions, NEW here, NEW there, there # "idle",
         SameHandler(here, there), Move(s, here, there), NEW new \in Jobs,
         job' = [job EXCEPT ![s] = new],
         new.request = job[s].request, new.via = job[s].via
  PROVE  ControlOK'
  BY DEF ControlOK, Move, SameHandler, ExecuteSteps, ReconcileSteps, RecoverSteps

LEMMA BeginControl ==
  ASSUME ControlOK, NEW s \in Sessions, NEW first, NEW locals \in Jobs,
         locals.request \in Requests, Begin(s, first, locals),
         \/ locals.via \in {"mock", "stripe", "retry"} /\ first \in ExecuteSteps
         \/ locals.via = "reconcile" /\ first \in ReconcileSteps
         \/ locals.via \in RecoveryActions /\ first \in RecoverSteps
  PROVE  ControlOK'
  <1>1. job' = [job EXCEPT ![s] = locals] /\ pc' = [pc EXCEPT ![s] = first]
    BY DEF Begin
  <1>2. QED
    BY <1>1 DEF ControlOK, ExecuteSteps, ReconcileSteps, RecoverSteps

LEMMA UpdateRequestTables ==
  ASSUME TablesOK, NEW r \in Requests, NEW row \in Rows, UpdateRequest(r, row)
  PROVE  TablesOK'
  BY DEF TablesOK, UpdateRequest

LEMMA UpdateCaseTables ==
  ASSUME TablesOK, NEW r \in Requests, NEW status \in CaseStatuses, UpdateCase(r, status)
  PROVE  TablesOK'
  BY CaseAssumption DEF TablesOK, UpdateCase

LEMMA RecordEventTables ==
  ASSUME TablesOK, NEW r \in Requests, NEW event \in Events, RecordEvent(r, event)
  PROVE  TablesOK'
  BY DEF TablesOK, RecordEvent

LEMMA ReadOnlyTables ==
  ASSUME TablesOK, ReadOnly
  PROVE  TablesOK'
  BY DEF TablesOK, ReadOnly

LEMMA ReplyTypes ==
  /\ \A outcome \in DOMAIN MockReply : MockReply[outcome] \in Replies
  /\ \A error \in StripeErrors : StripeErrorReply(error) \in Replies
  /\ StripeErrorReply("api_connection") \in Replies /\ StripeErrorReply("api") \in Replies
  /\ StripeRefundReply \in Replies /\ MockRefundReply \in Replies
  BY DEF MockReply, StripeErrors, StripeErrorReply, StripeErrorType, StripeRefundReply,
         MockRefundReply, Reply, Replies, Objects

LEMMA LookupTypes ==
  ASSUME NEW r, NEW row, NEW answer \in LookupAnswers(r, row)
  PROVE  answer \in LookupStatuses
  BY DEF LookupAnswers, MockLookup, RefundLookup, LookupStatuses

LEMMA VerdictTypes ==
  ASSUME NEW internal, NEW provider
  PROVE  /\ EvaluateReconciliation(internal, provider).result \in
              {"matched_success", "matched_failure",
               "provider_succeeded_internal_not_recorded",
               "internal_succeeded_provider_missing", "unknown_provider_state",
               "not_ready_for_reconciliation"}
         /\ EvaluateReconciliation(internal, provider).action \in
              {"mark_reconciled", "route_manual_review", "no_change"}
  BY DEF EvaluateReconciliation, Verdict

LEMMA StatusTypes ==
  /\ \A reply : ExecutionStatusOf(reply) \in
        {"succeeded", "failed_transient", "failed_permanent", "needs_manual_review"}
  /\ \A status : CaseStatusOf(status) \in
        {"succeeded", "needs_manual_review", "processing", "retrying", "failed"}
  /\ \A action \in RecoveryActions :
        /\ RecoveryStatus[action] \in
             {"manually_resolved", "cancelled", "reopen_for_investigation"}
        /\ RecoveryCaseStatus[action] \in CaseStatuses
  BY DEF ExecutionStatusOf, CaseStatusOf, RecoveryActions, RecoveryStatus,
         RecoveryCaseStatus, CaseStatuses

LEMMA BeginType ==
  ASSUME TypeOK, NEW s \in Sessions, BeginHandler(s)
  PROVE  TypeOK'
  <1> USE DEF TypeOK
  <1>0. /\ NewRow \in Rows /\ \A r \in Requests : request[r] \in Rows
        /\ \A r \in Requests : TestPayments[CaseOf[r]] \subseteq Payments
        /\ "none" \in Payments
    BY NoJobType, CaseAssumption, PaymentAssumption
    DEF TablesOK, NoJob, Locals, Jobs, Payments
  <1>1. PICK r \in Requests :
          \/ BeginExecute(s, r, "mock", "none")
          \/ \E payment \in TestPayments[CaseOf[r]] : BeginExecute(s, r, "stripe", payment)
          \/ BeginRetry(s, r)
          \/ BeginReconcile(s, r)
          \/ \E action \in RecoveryActions : BeginRecover(s, r, action)
    BY DEF BeginHandler
  <1>2. ASSUME NEW first, NEW via \in Vias, NEW row \in Rows, NEW payment \in Payments,
               Begin(s, first, Locals(r, via, row, payment)),
               \/ via \in {"mock", "stripe", "retry"} /\ first \in ExecuteSteps
               \/ via = "reconcile" /\ first \in ReconcileSteps
               \/ via \in RecoveryActions /\ first \in RecoverSteps
        PROVE  TypeOK'
    <2>1. TablesOK'
      BY <1>2, ReadOnlyTables DEF Begin
    <2>2. ControlOK'
      BY <1>2, LocalsType, BeginControl
    <2>3. QED
      BY <2>1, <2>2
  <1>3. ASSUME NEW via \in {"mock", "stripe"}, NEW payment \in Payments,
               BeginExecute(s, r, via, payment)
        PROVE  TypeOK'
    BY <1>0, <1>2, <1>3 DEF BeginExecute, ExecuteSteps, Vias
  <1>4. CASE BeginRetry(s, r)
    BY <1>0, <1>2, <1>4 DEF BeginRetry, ExecuteSteps, Vias
  <1>5. CASE BeginReconcile(s, r)
    BY <1>0, <1>2, <1>5 DEF BeginReconcile, ReconcileSteps, Vias
  <1>6. ASSUME NEW action \in RecoveryActions, BeginRecover(s, r, action)
        PROVE  TypeOK'
    <2>1. Begin(s, IF action = "attach_provider_reference" THEN "attach" ELSE "resolve",
                Locals(r, action, request[r], "none"))
      BY <1>6 DEF BeginRecover
    <2>2. QED
      BY <1>0, <1>2, <2>1 DEF RecoverSteps, Vias
  <1>7. QED
    BY <1>0, <1>1, <1>3, <1>4, <1>5, <1>6

LEMMA ExecuteType ==
  ASSUME TypeOK, NEW s \in Sessions, ExecuteStep(s)
  PROVE  TypeOK'
  <1> USE DEF TypeOK
  <1> DEFINE r == job[s].request
  <1>0. /\ job[s] \in Jobs /\ job[s].seen \in Rows /\ job[s].reply \in Replies
        /\ job[s].number \in Nat
    BY DEF ControlOK, Jobs
  <1>1. ASSUME NEW here, NEW there, Move(s, here, there), here \in ExecuteSteps
        PROVE  /\ r \in Requests /\ request[r] \in Rows
               /\ job[s].via \in {"mock", "stripe", "retry"}
    BY <1>1 DEF Move, ControlOK, TablesOK, ExecuteSteps
  <1>2. CASE Claim(s)
    <2>1. Move(s, "claim", "claim_case") /\ ControlOK'
      BY <1>2, ProceedControl DEF Claim, Proceed, SameHandler, ExecuteSteps
    <2>2. r \in Requests /\ request[r] \in Rows
      BY <1>1, <2>1 DEF ExecuteSteps
    <2>3. TablesOK'
      BY <1>2, <2>2, UpdateRequestTables
      DEF Claim, Rows, StoredStatuses, ExecutionStatuses, Providers
    <2>4. QED
      BY <2>1, <2>3
  <1>3. CASE ClaimCase(s)
    <2>1. Move(s, "claim_case", "reread") /\ ControlOK'
      BY <1>3, ProceedControl DEF ClaimCase, Proceed, SameHandler, ExecuteSteps
    <2>2. TablesOK'
      BY <1>1, <1>3, <2>1, UpdateCaseTables DEF ClaimCase, CaseStatuses, ExecuteSteps
    <2>3. QED
      BY <2>1, <2>2
  <1>4. CASE Reread(s)
    <2>1. Move(s, "reread", "count") /\ r \in Requests /\ request[r] \in Rows
      BY <1>1, <1>4 DEF Reread, ExecuteSteps
    <2>2. [job[s] EXCEPT !.seen = request[r]] \in Jobs
      BY <1>0, <2>1 DEF Jobs
    <2>3. QED
      BY <1>0, <1>4, <2>1, <2>2, MoveControl, ReadOnlyTables
      DEF Reread, SameHandler, ExecuteSteps, Jobs
  <1>5. CASE CountAttempts(s)
    <2>1. Move(s, "count", "call") /\ r \in Requests
      BY <1>1, <1>5 DEF CountAttempts, ExecuteSteps
    <2>2. Len(attempts[r]) + 1 \in Nat
      BY <2>1 DEF TablesOK
    <2>3. [job[s] EXCEPT !.number = Len(attempts[r]) + 1] \in Jobs
      BY <1>0, <2>2 DEF Jobs
    <2>4. QED
      BY <1>0, <1>5, <2>1, <2>3, MoveControl, ReadOnlyTables
      DEF CountAttempts, SameHandler, ExecuteSteps, Jobs
  <1>6. ASSUME NEW reply \in Replies, Move(s, "call", "store"),
               job' = [job EXCEPT ![s].reply = reply]
        PROVE  ControlOK'
    <2>1. [job[s] EXCEPT !.reply = reply] \in Jobs
      BY <1>0, <1>6 DEF Jobs
    <2>2. QED
      BY <1>0, <1>6, <2>1, MoveControl DEF SameHandler, ExecuteSteps, Jobs
  <1>7. CASE CallMock(s)
    <2>1. Move(s, "call", "store") /\ r \in Requests
      BY <1>1, <1>7 DEF CallMock, ExecuteSteps
    <2>2. PICK outcome \in DOMAIN MockReply :
             /\ job' = [job EXCEPT ![s].reply = MockReply[outcome]]
             /\ mockWrites' = [mockWrites EXCEPT ![r] =
                                 IF outcome = "success" THEN @ + 1 ELSE @]
      BY <1>7 DEF CallMock
    <2>3. ControlOK'
      BY <1>6, <2>1, <2>2, ReplyTypes
    <2>4. mockWrites' \in [Requests -> Nat]
      BY <2>1, <2>2 DEF TablesOK
    <2>5. QED
      BY <1>7, <2>3, <2>4 DEF CallMock, TablesOK
  <1>8. CASE CallStripe(s)
    <2>1. Move(s, "call", "store") /\ r \in Requests
      BY <1>1, <1>8 DEF CallStripe, ExecuteSteps
    <2>2. ControlOK'
      BY <1>6, <1>8, <2>1, ReplyTypes DEF CallStripe
    <2>3. refund' \in [Requests -> {"none", "pending", "succeeded", "failed", "canceled"}]
      BY <1>8, <2>1 DEF CallStripe, RefundCreated, TablesOK
    <2>4. QED
      BY <1>8, <2>2, <2>3 DEF CallStripe, TablesOK
  <1>9. CASE StoreAttempt(s)
    <2>1. Move(s, "store", "audit_attempt") /\ r \in Requests /\ ControlOK'
      BY <1>1, <1>9, ProceedControl DEF StoreAttempt, Proceed, SameHandler, ExecuteSteps
    <2>2. PICK row : /\ attempts' = [attempts EXCEPT ![r] = Append(@, row)]
                     /\ row \in AttemptRows
      <3>1. [number |-> job[s].number,
             provider |-> IF job[s].via = "stripe" THEN "stripe_test_mode"
                          ELSE job[s].seen.provider,
             provider_status |-> job[s].reply.provider_status,
             error_type |-> job[s].reply.error_type] \in AttemptRows
        BY <1>0 DEF AttemptRows, Rows, Replies, Providers
      <3>2. QED
        BY <1>9, <3>1 DEF StoreAttempt
    <2>3. attempts' \in [Requests -> Seq(AttemptRows)]
      BY <2>1, <2>2 DEF TablesOK
    <2>4. QED
      BY <1>9, <2>1, <2>3 DEF StoreAttempt, TablesOK
  <1>10. CASE AuditAttempt(s)
    <2>1. Move(s, "audit_attempt", "finish") /\ ControlOK'
      BY <1>10, ProceedControl DEF AuditAttempt, Proceed, SameHandler, ExecuteSteps
    <2>2. QED
      BY <1>1, <1>10, <2>1, RecordEventTables DEF AuditAttempt, Events, ExecuteSteps
  <1>11. CASE Finish(s)
    <2>1. Move(s, "finish", "finish_case") /\ ControlOK'
      BY <1>11, ProceedControl DEF Finish, Proceed, SameHandler, ExecuteSteps
    <2>2. r \in Requests /\ request[r] \in Rows
      BY <1>1, <2>1 DEF ExecuteSteps
    <2>3. TablesOK'
      BY <1>0, <1>11, <2>2, StatusTypes, UpdateRequestTables
      DEF Finish, Rows, StoredStatuses, ExecutionStatuses, Replies
    <2>4. QED
      BY <2>1, <2>3
  <1>12. CASE FinishCase(s)
    <2>1. /\ \E there : Move(s, "finish_case", there)
          /\ ControlOK'
      BY <1>12, ProceedControl DEF FinishCase, Proceed, SameHandler, ExecuteSteps
    <2>2. QED
      BY <1>1, <1>12, <2>1, StatusTypes, UpdateCaseTables
      DEF FinishCase, CaseStatuses, ExecuteSteps
  <1>13. CASE Recheck(s)
    <2>1. Move(s, "recheck", "recount") /\ r \in Requests /\ request[r] \in Rows
      BY <1>1, <1>13 DEF Recheck, ExecuteSteps
    <2>2. [job[s] EXCEPT !.seen = request[r]] \in Jobs
      BY <1>0, <2>1 DEF Jobs
    <2>3. QED
      BY <1>0, <1>13, <2>1, <2>2, MoveControl, ReadOnlyTables
      DEF Recheck, SameHandler, ExecuteSteps, Jobs
  <1>14. CASE Recount(s)
    BY <1>14, ProceedControl, ReadOnlyTables DEF Recount, SameHandler, ExecuteSteps
  <1>15. CASE Exhaust(s)
    <2>1. Move(s, "exhaust", "exhaust_case") /\ ControlOK'
      BY <1>15, ProceedControl DEF Exhaust, Proceed, SameHandler, ExecuteSteps
    <2>2. r \in Requests /\ request[r] \in Rows
      BY <1>1, <2>1 DEF ExecuteSteps
    <2>3. QED
      BY <1>15, <2>1, <2>2, UpdateRequestTables
      DEF Exhaust, Rows, StoredStatuses, ExecutionStatuses
  <1>16. CASE ExhaustCase(s)
    <2>1. Move(s, "exhaust_case", "idle") /\ ControlOK'
      BY <1>16, ProceedControl DEF ExhaustCase, Proceed, SameHandler
    <2>2. QED
      BY <1>1, <1>16, <2>1, UpdateCaseTables DEF ExhaustCase, CaseStatuses, ExecuteSteps
  <1>17. QED
    BY <1>2, <1>3, <1>4, <1>5, <1>7, <1>8, <1>9, <1>10, <1>11, <1>12, <1>13, <1>14,
       <1>15, <1>16
    DEF ExecuteStep

LEMMA ReconcileType ==
  ASSUME TypeOK, NEW s \in Sessions, ReconcileStep(s)
  PROVE  TypeOK'
  <1> USE DEF TypeOK
  <1> DEFINE r == job[s].request
  <1>0. job[s] \in Jobs /\ job[s].seen \in Rows /\ job[s].reply \in Replies
    BY DEF ControlOK, Jobs
  <1>1. ASSUME NEW here \in ReconcileSteps, NEW there, Move(s, here, there)
        PROVE  r \in Requests /\ request[r] \in Rows
    BY <1>1 DEF Move, ControlOK, TablesOK, ReconcileSteps
  <1>2. ASSUME NEW here \in ReconcileSteps, NEW there \in ReconcileSteps \cup {"idle"},
               Proceed(s, here, there)
        PROVE  ControlOK' /\ r \in Requests /\ request[r] \in Rows
    BY <1>1, <1>2, ProceedControl DEF Proceed, SameHandler
  <1>3. CASE Lookup(s)
    <2>1. PICK answer \in LookupAnswers(r, job[s].seen) :
            job' = [job EXCEPT ![s].reply = Reply(answer, "none", "none")]
      BY <1>3 DEF Lookup
    <2>2. Reply(answer, "none", "none") \in Replies
      BY LookupTypes DEF LookupStatuses, Reply, Replies, Objects
    <2>3. [job[s] EXCEPT !.reply = Reply(answer, "none", "none")] \in Jobs
      BY <1>0, <2>2 DEF Jobs
    <2>4. QED
      BY <1>0, <1>3, <2>1, <2>3, MoveControl, ReadOnlyTables
      DEF Lookup, SameHandler, ReconcileSteps, Jobs
  <1>4. CASE StoreRun(s)
    <2>1. ControlOK' /\ r \in Requests
      BY <1>2, <1>4 DEF StoreRun, ReconcileSteps
    <2>2. PICK row \in RunRows : runs' = [runs EXCEPT ![r] = Append(@, row)]
      <3>1. [internal_status |-> job[s].seen.status,
             provider_status |-> job[s].reply.provider_status,
             result |-> Evaluated(s).result,
             action |-> Evaluated(s).action] \in RunRows
        BY <1>0, VerdictTypes DEF RunRows, Rows, Replies, Evaluated
      <3>2. QED
        BY <1>4, <3>1 DEF StoreRun
    <2>3. runs' \in [Requests -> Seq(RunRows)]
      BY <2>1, <2>2 DEF TablesOK
    <2>4. QED
      BY <1>4, <2>1, <2>3 DEF StoreRun, TablesOK
  <1>5. CASE AuditRun(s)
    BY <1>2, <1>5, RecordEventTables DEF AuditRun, ReconcileSteps, Events
  <1>6. CASE Mark(s)
    BY <1>2, <1>6, UpdateRequestTables
    DEF Mark, ReconcileSteps, Rows, StoredStatuses, ExecutionStatuses
  <1>7. CASE MarkCase(s)
    BY <1>2, <1>7, UpdateCaseTables DEF MarkCase, ReconcileSteps, CaseStatuses
  <1>8. CASE AuditMark(s)
    BY <1>2, <1>8, RecordEventTables DEF AuditMark, ReconcileSteps, Events
  <1>9. CASE Route(s)
    BY <1>2, <1>9, UpdateRequestTables
    DEF Route, ReconcileSteps, Rows, StoredStatuses, ExecutionStatuses
  <1>10. CASE AuditRoute(s)
    BY <1>2, <1>10, RecordEventTables DEF AuditRoute, ReconcileSteps, Events
  <1>11. CASE RouteCase(s)
    BY <1>2, <1>11, UpdateCaseTables DEF RouteCase, ReconcileSteps, CaseStatuses
  <1>12. QED
    BY <1>3, <1>4, <1>5, <1>6, <1>7, <1>8, <1>9, <1>10, <1>11 DEF ReconcileStep

LEMMA RecoverType ==
  ASSUME TypeOK, NEW s \in Sessions, RecoverStep(s)
  PROVE  TypeOK'
  <1> USE DEF TypeOK
  <1> DEFINE r == job[s].request
  <1>0. job[s] \in Jobs /\ job[s].seen \in Rows
    BY DEF ControlOK, Jobs
  <1>1. ASSUME NEW here \in RecoverSteps, NEW there \in RecoverSteps \cup {"idle"},
               Proceed(s, here, there)
        PROVE  /\ ControlOK' /\ r \in Requests /\ request[r] \in Rows
               /\ job[s].via \in RecoveryActions
    BY <1>1, ProceedControl DEF Proceed, Move, SameHandler, ControlOK, TablesOK, RecoverSteps
  <1>2. CASE Attach(s)
    BY <1>1, <1>2, UpdateRequestTables DEF Attach, RecoverSteps, Rows, Objects
  <1>3. CASE Resolve(s)
    BY <1>1, <1>3, StatusTypes, UpdateRequestTables
    DEF Resolve, RecoverSteps, Rows, StoredStatuses, ExecutionStatuses
  <1>4. CASE AuditResolve(s)
    BY <1>1, <1>4, RecordEventTables DEF AuditResolve, RecoverSteps, Events
  <1>5. CASE ResolveCase(s)
    BY <1>1, <1>5, StatusTypes, UpdateCaseTables DEF ResolveCase, RecoverSteps
  <1>6. CASE StoreRecovery(s)
    <2>1. ControlOK' /\ r \in Requests /\ job[s].via \in RecoveryActions
      BY <1>1, <1>6 DEF StoreRecovery, RecoverSteps
    <2>2. PICK row \in RecoveryRows :
            recoveries' = [recoveries EXCEPT ![r] = Append(@, row)]
      <3>1. [action |-> job[s].via, previous |-> job[s].seen.status,
             new |-> RecoveryStatus[job[s].via]] \in RecoveryRows
        BY <1>0, <2>1, StatusTypes DEF RecoveryRows, Rows, StoredStatuses, ExecutionStatuses
      <3>2. QED
        BY <1>6, <3>1 DEF StoreRecovery
    <2>3. recoveries' \in [Requests -> Seq(RecoveryRows)]
      BY <2>1, <2>2 DEF TablesOK
    <2>4. QED
      BY <1>6, <2>1, <2>3 DEF StoreRecovery, TablesOK
  <1>7. CASE AuditRecovery(s)
    BY <1>1, <1>7, RecordEventTables DEF AuditRecovery, RecoverSteps, Events
  <1>8. QED
    BY <1>2, <1>3, <1>4, <1>5, <1>6, <1>7 DEF RecoverStep

LEMMA EnvironmentType ==
  ASSUME TypeOK, \/ \E s \in Sessions : Abort(s)
                 \/ \E r \in Requests : RefundSettles(r)
  PROVE  TypeOK'
  <1>1. ASSUME NEW s \in Sessions, Abort(s)
        PROVE  TypeOK'
    BY <1>1, NoJobType DEF Abort, TypeOK, TablesOK, ControlOK, ExecuteSteps, RecoverSteps
  <1>2. ASSUME NEW r \in Requests, RefundSettles(r)
        PROVE  TypeOK'
    BY <1>2 DEF RefundSettles, TypeOK, TablesOK, ControlOK
  <1>3. QED
    BY <1>1, <1>2

LEMMA TypeStep == TypeOK /\ [Next]_vars => TypeOK'
  <1> SUFFICES ASSUME TypeOK, [Next]_vars
               PROVE  TypeOK'
    OBVIOUS
  <1>1. CASE UNCHANGED vars
    BY <1>1 DEF vars, TypeOK, TablesOK, ControlOK
  <1>2. ASSUME NEW s \in Sessions, Step(s)
        PROVE  TypeOK'
    BY <1>2, ExecuteType, ReconcileType, RecoverType DEF Step
  <1>3. QED
    BY <1>1, <1>2, BeginType, EnvironmentType DEF Next

LEMMA TypeInit == Init => TypeOK
  BY NoJobType DEF Init, InitRequests, TypeOK, TablesOK, ControlOK, NewRow, Rows, StoredStatuses,
     ExecutionStatuses, Providers, Objects, CaseStatuses, ExecuteSteps, RecoverSteps, Events

\* Every table keeps its columns' values and every handler its locals' and its
\* step's kind, whatever sessions interleave and wherever handlers stop.
THEOREM TypeCorrect == Spec => []TypeOK
  <1>1. QED
    BY TypeInit, TypeStep, PTL DEF Spec

-----------------------------------------------------------------------------
(* A pending request is untouched.  The status is never set back to pending, *)
(* so it is enough that a handler that still finds it pending has not got    *)
(* past the claim.                                                           *)

PendingInv ==
    \A r \in Requests :
        request[r].status = "execution_pending" =>
            /\ attempts[r] = <<>>
            /\ refund[r] = "none" /\ mockWrites[r] = 0
            /\ \A s \in Sessions :
                 pc[s] \in ExecuteSteps /\ job[s].request = r => pc[s] = "claim"

\* What one step of a session may change: its own control, and the request it
\* works on.
LEMMA OthersUntouched ==
  ASSUME TypeOK, NEW s \in Sessions, Step(s)
  PROVE  /\ pc[s] # "idle" /\ job[s].request \in Requests
         /\ \A t \in Sessions \ {s} : pc'[t] = pc[t] /\ job'[t] = job[t]
         /\ pc'[s] # "idle" => job'[s].request = job[s].request
         /\ \A r \in Requests \ {job[s].request} :
              /\ request'[r] = request[r] /\ attempts'[r] = attempts[r]
              /\ runs'[r] = runs[r] /\ recoveries'[r] = recoveries[r]
              /\ refund'[r] = refund[r] /\ mockWrites'[r] = mockWrites[r]
  <1> USE DEF TypeOK, TablesOK, ControlOK, Jobs, Move, Proceed, UpdateRequest, UpdateCase,
              RecordEvent, ReadOnly
  <1>1. CASE ExecuteStep(s)
    <2>1. CASE Claim(s) \/ ClaimCase(s) \/ Reread(s) \/ CountAttempts(s)
      BY <2>1 DEF Claim, ClaimCase, Reread, CountAttempts
    <2>2. CASE CallMock(s) \/ CallStripe(s)
      BY <2>2 DEF CallMock, CallStripe, RefundCreated
    <2>3. CASE StoreAttempt(s) \/ AuditAttempt(s) \/ Finish(s) \/ FinishCase(s)
      BY <2>3 DEF StoreAttempt, AuditAttempt, Finish, FinishCase
    <2>4. CASE Recheck(s) \/ Recount(s) \/ Exhaust(s) \/ ExhaustCase(s)
      BY <2>4 DEF Recheck, Recount, Exhaust, ExhaustCase
    <2>5. QED
      BY <1>1, <2>1, <2>2, <2>3, <2>4 DEF ExecuteStep
  <1>2. CASE ReconcileStep(s)
    BY <1>2 DEF ReconcileStep, Lookup, StoreRun, AuditRun, Mark, MarkCase, AuditMark, Route,
                AuditRoute, RouteCase
  <1>3. CASE RecoverStep(s)
    BY <1>3 DEF RecoverStep, Attach, Resolve, AuditResolve, ResolveCase, StoreRecovery,
                AuditRecovery
  <1>4. QED
    BY <1>1, <1>2, <1>3 DEF Step

\* What a step of a session may do to the request's row: nothing, a new status
\* that is never pending, or a new object (attach_provider_reference).
LEMMA RowWrites ==
  ASSUME TypeOK, NEW s \in Sessions, Step(s)
  PROVE  \/ request' = request /\ pc[s] # "claim"
         \/ request'[job[s].request].status # "execution_pending"
         \/ /\ pc[s] = "attach"
            /\ request'[job[s].request].status = request[job[s].request].status
  <1> DEFINE r == job[s].request
  <1>0. r \in Requests /\ request \in [Requests -> Rows]
    BY OthersUntouched DEF TypeOK, TablesOK
  <1>1. ASSUME ReadOnly \/ \E status : UpdateCase(r, status)
        PROVE  request' = request
    BY <1>1 DEF ReadOnly, UpdateCase
  <1>2. ASSUME NEW event, RecordEvent(r, event)
        PROVE  request' = request
    BY <1>2 DEF RecordEvent
  <1>3. ASSUME NEW row, UpdateRequest(r, row)
        PROVE  request'[r] = row
    BY <1>0, <1>3 DEF UpdateRequest
  <1>4. CASE ExecuteStep(s)
    <2>1. CASE Claim(s)
      <3>1. UpdateRequest(r,
              [request[r] EXCEPT
                !.status = IF job[s].via = "retry" THEN "retrying" ELSE "processing",
                !.provider = IF job[s].via = "stripe" THEN "stripe_test_mode"
                             ELSE request[r].provider])
        BY <2>1 DEF Claim
      <3>2. request'[r].status = IF job[s].via = "retry" THEN "retrying" ELSE "processing"
        BY <1>0, <1>3, <3>1 DEF Rows
      <3>3. QED
        BY <3>2
    <2>2. CASE Finish(s)
      <3>1. UpdateRequest(r,
              [request[r] EXCEPT
                !.status = ExecutionStatusOf(job[s].reply),
                !.object = IF job[s].reply.object = "none" THEN request[r].object
                           ELSE job[s].reply.object])
        BY <2>2 DEF Finish
      <3>2. request'[r].status = ExecutionStatusOf(job[s].reply)
        BY <1>0, <1>3, <3>1 DEF Rows
      <3>3. QED
        BY <3>2, StatusTypes
    <2>3. CASE Exhaust(s)
      BY <1>0, <1>3, <2>3 DEF Exhaust, Rows
    <2>4. CASE CallMock(s) \/ CallStripe(s) \/ StoreAttempt(s)
      BY <2>4 DEF CallMock, CallStripe, StoreAttempt, Move, Proceed
    <2>5. CASE ClaimCase(s) \/ FinishCase(s) \/ ExhaustCase(s)
      BY <1>1, <2>5 DEF ClaimCase, FinishCase, ExhaustCase, Move, Proceed
    <2>6. CASE Reread(s) \/ CountAttempts(s) \/ Recheck(s) \/ Recount(s)
      BY <1>1, <2>6 DEF Reread, CountAttempts, Recheck, Recount, Move, Proceed
    <2>7. CASE AuditAttempt(s)
      BY <1>2, <2>7 DEF AuditAttempt, Move, Proceed
    <2>8. QED
      BY <1>4, <2>1, <2>2, <2>3, <2>4, <2>5, <2>6, <2>7 DEF ExecuteStep
  <1>5. CASE ReconcileStep(s)
    <2>1. CASE Mark(s) \/ Route(s)
      BY <1>0, <1>3, <2>1 DEF Mark, Route, Rows
    <2>2. CASE Lookup(s) \/ MarkCase(s) \/ RouteCase(s)
      BY <1>1, <2>2 DEF Lookup, MarkCase, RouteCase, Move, Proceed
    <2>3. CASE AuditRun(s) \/ AuditMark(s) \/ AuditRoute(s)
      BY <1>2, <2>3 DEF AuditRun, AuditMark, AuditRoute, Move, Proceed
    <2>4. CASE StoreRun(s)
      BY <2>4 DEF StoreRun, Move, Proceed
    <2>5. QED
      BY <1>5, <2>1, <2>2, <2>3, <2>4 DEF ReconcileStep
  <1>6. CASE RecoverStep(s)
    <2>1. CASE Attach(s)
      BY <1>0, <1>3, <2>1 DEF Attach, Rows, Move, Proceed
    <2>2. CASE Resolve(s)
      <3>1. job[s].via \in RecoveryActions
        BY <2>2 DEF Resolve, Proceed, Move, TypeOK, ControlOK, RecoverSteps
      <3>2. QED
        BY <1>0, <1>3, <2>2, <3>1, StatusTypes DEF Resolve, Rows
    <2>3. CASE ResolveCase(s)
      BY <1>1, <2>3 DEF ResolveCase, Move, Proceed
    <2>4. CASE AuditResolve(s) \/ AuditRecovery(s)
      BY <1>2, <2>4 DEF AuditResolve, AuditRecovery, Move, Proceed
    <2>5. CASE StoreRecovery(s)
      BY <2>5 DEF StoreRecovery, Move, Proceed
    <2>6. QED
      BY <1>6, <2>1, <2>2, <2>3, <2>4, <2>5 DEF RecoverStep
  <1>7. QED
    BY <1>4, <1>5, <1>6 DEF Step

\* Only the steps of an execution touch attempts and providers, and no other
\* handler turns into one.
LEMMA OnlyExecutionExecutes ==
  ASSUME TypeOK, NEW s \in Sessions, Step(s)
  PROVE  \/ /\ pc[s] \in ExecuteSteps
            /\ pc[s] \in {"claim", "claim_case", "reread", "count"} =>
                 UNCHANGED <<attempts, refund, mockWrites>>
         \/ /\ pc[s] \notin ExecuteSteps /\ pc'[s] \notin ExecuteSteps
            /\ UNCHANGED <<attempts, refund, mockWrites>>
  <1> USE DEF TypeOK, ControlOK, Move, Proceed, UpdateRequest, UpdateCase, RecordEvent, ReadOnly
  <1>1. CASE ExecuteStep(s)
    BY <1>1 DEF ExecuteStep, Claim, ClaimCase, Reread, CountAttempts, CallMock, CallStripe,
        StoreAttempt, AuditAttempt, Finish, FinishCase, Recheck, Recount, Exhaust,
        ExhaustCase, ExecuteSteps
  <1>2. CASE ReconcileStep(s)
    BY <1>2 DEF ReconcileStep, Lookup, StoreRun, AuditRun, Mark, MarkCase, AuditMark, Route,
                AuditRoute, RouteCase, ExecuteSteps
  <1>3. CASE RecoverStep(s)
    <2>1. CASE Attach(s) \/ Resolve(s) \/ AuditResolve(s)
      BY <2>1 DEF Attach, Resolve, AuditResolve, ExecuteSteps
    <2>2. CASE ResolveCase(s) \/ StoreRecovery(s) \/ AuditRecovery(s)
      BY <2>2 DEF ResolveCase, StoreRecovery, AuditRecovery, ExecuteSteps
    <2>3. QED
      BY <1>3, <2>1, <2>2 DEF RecoverStep
  <1>4. QED
    BY <1>1, <1>2, <1>3 DEF Step

\* A provider is reached only by the call, which leaves the row alone and never undoes
\* what an earlier call has done.
LEMMA EffectMoves ==
  ASSUME TypeOK, NEW s \in Sessions, Step(s)
  PROVE  /\ pc[s] = "call" => UNCHANGED request
         /\ pc[s] # "call" => UNCHANGED <<refund, mockWrites>>
         /\ \A r \in Requests :
              mockWrites[r] > 0 \/ refund[r] # "none" => mockWrites'[r] > 0 \/ refund'[r] # "none"
  <1> USE DEF Move, Proceed, UpdateRequest, UpdateCase, RecordEvent, ReadOnly
  <1>1. CASE CallMock(s)
    <2>1. PICK outcome \in DOMAIN MockReply :
            mockWrites' = [mockWrites EXCEPT ![job[s].request] =
                             IF outcome = "success" THEN mockWrites[job[s].request] + 1
                             ELSE mockWrites[job[s].request]]
      BY <1>1 DEF CallMock
    <2>2. mockWrites \in [Requests -> Nat]
      BY DEF TypeOK, TablesOK
    <2>3. \A r \in Requests : mockWrites[r] > 0 => mockWrites'[r] > 0
      BY <2>1, <2>2
    <2>4. QED
      BY <1>1, <2>3 DEF CallMock
  <1>2. CASE CallStripe(s)
    <2>1. refund \in [Requests -> {"none", "pending", "succeeded", "failed", "canceled"}]
      BY DEF TypeOK, TablesOK
    <2>2. refund' = refund \/ RefundCreated(job[s].request, job[s].payment)
      BY <1>2 DEF CallStripe
    <2>3. \A r \in Requests : refund[r] # "none" => refund'[r] # "none"
      BY <2>1, <2>2 DEF RefundCreated
    <2>4. QED
      BY <1>2, <2>3 DEF CallStripe
  <1>3. CASE ExecuteStep(s) /\ ~CallMock(s) /\ ~CallStripe(s)
    BY <1>3 DEF ExecuteStep, Claim, ClaimCase, Reread, CountAttempts, StoreAttempt,
                AuditAttempt, Finish, FinishCase, Recheck, Recount, Exhaust, ExhaustCase
  <1>4. CASE ReconcileStep(s)
    BY <1>4 DEF ReconcileStep, Lookup, StoreRun, AuditRun, Mark, MarkCase, AuditMark, Route,
                AuditRoute, RouteCase
  <1>5. CASE RecoverStep(s)
    BY <1>5 DEF RecoverStep, Attach, Resolve, AuditResolve, ResolveCase, StoreRecovery,
                AuditRecovery
  <1>6. QED
    BY <1>1, <1>2, <1>3, <1>4, <1>5 DEF Step

LEMMA BeginKeepsTables ==
  ASSUME NEW s \in Sessions, BeginHandler(s)
  PROVE  ReadOnly
  BY DEF BeginHandler, BeginExecute, BeginRetry, BeginReconcile, BeginRecover, Begin

\* Where a handler starts, and on what its guard insists.
LEMMA BeginLocals ==
  ASSUME TypeOK, NEW s \in Sessions, NEW first, NEW r, NEW via, NEW row, NEW payment,
         Begin(s, first, Locals(r, via, row, payment))
  PROVE  /\ pc[s] = "idle" /\ pc'[s] = first
         /\ job'[s].request = r /\ job'[s].via = via /\ job'[s].seen = row
         /\ \A t \in Sessions \ {s} : pc'[t] = pc[t] /\ job'[t] = job[t]
  BY DEF Begin, TypeOK, ControlOK, Locals

LEMMA BeginGuards ==
  ASSUME TypeOK, NEW s \in Sessions, BeginHandler(s)
  PROVE  /\ pc[s] = "idle"
         /\ \A t \in Sessions \ {s} : pc'[t] = pc[t] /\ job'[t] = job[t]
         /\ \E r \in Requests :
              /\ job'[s].request = r
              /\ \/ /\ pc'[s] = "claim" /\ job'[s].via \in {"mock", "stripe"}
                    /\ request[r].status = "execution_pending"
                 \/ /\ pc'[s] = "claim" /\ job'[s].via = "retry"
                    /\ Retryable(request[r].status, Len(attempts[r]))
                 \/ /\ pc'[s] = "lookup" /\ job'[s].seen = request[r]
                 \/ /\ pc'[s] \in {"attach", "resolve"} /\ job'[s].seen = request[r]
                    /\ request[r].status \in RecoveryEligible
  <1>1. PICK r \in Requests :
          \/ BeginExecute(s, r, "mock", "none")
          \/ \E payment \in TestPayments[CaseOf[r]] : BeginExecute(s, r, "stripe", payment)
          \/ BeginRetry(s, r)
          \/ BeginReconcile(s, r)
          \/ \E action \in RecoveryActions : BeginRecover(s, r, action)
    BY DEF BeginHandler
  <1>2. ASSUME NEW via \in {"mock", "stripe"}, NEW payment,
               BeginExecute(s, r, via, payment)
        PROVE  /\ Begin(s, "claim", Locals(r, via, NewRow, payment))
               /\ request[r].status = "execution_pending"
    BY <1>2 DEF BeginExecute
  <1>3. CASE BeginRetry(s, r)
    BY <1>3, BeginLocals DEF BeginRetry
  <1>4. CASE BeginReconcile(s, r)
    BY <1>4, BeginLocals DEF BeginReconcile
  <1>5. ASSUME NEW action \in RecoveryActions, BeginRecover(s, r, action)
        PROVE  /\ Begin(s, IF action = "attach_provider_reference" THEN "attach"
                           ELSE "resolve", Locals(r, action, request[r], "none"))
               /\ request[r].status \in RecoveryEligible
    BY <1>5 DEF BeginRecover
  <1>6. QED
    BY <1>1, <1>2, <1>3, <1>4, <1>5, BeginLocals

LEMMA PendingStep == TypeOK /\ PendingInv /\ [Next]_vars => PendingInv'
  <1> SUFFICES ASSUME TypeOK, PendingInv, [Next]_vars, NEW r \in Requests,
                      request'[r].status = "execution_pending"
               PROVE  /\ attempts'[r] = <<>>
                      /\ refund'[r] = "none" /\ mockWrites'[r] = 0
                      /\ \A s \in Sessions :
                           pc'[s] \in ExecuteSteps /\ job'[s].request = r => pc'[s] = "claim"
    BY DEF PendingInv
  <1>1. CASE UNCHANGED vars
    BY <1>1 DEF vars, PendingInv
  <1>2. ASSUME NEW s \in Sessions, BeginHandler(s)
        PROVE  /\ attempts'[r] = <<>>
               /\ refund'[r] = "none" /\ mockWrites'[r] = 0
               /\ \A t \in Sessions :
                    pc'[t] \in ExecuteSteps /\ job'[t].request = r => pc'[t] = "claim"
    <2>1. ReadOnly
      BY <1>2, BeginKeepsTables
    <2>2. pc'[s] \in ExecuteSteps => pc'[s] = "claim"
      BY <1>2, BeginGuards DEF ExecuteSteps
    <2>3. \A t \in Sessions \ {s} : pc'[t] = pc[t] /\ job'[t] = job[t]
      BY <1>2, BeginGuards
    <2>4. QED
      BY <2>1, <2>2, <2>3 DEF ReadOnly, PendingInv
  <1>3. ASSUME NEW s \in Sessions, Step(s)
        PROVE  /\ attempts'[r] = <<>>
               /\ refund'[r] = "none" /\ mockWrites'[r] = 0
               /\ \A t \in Sessions :
                    pc'[t] \in ExecuteSteps /\ job'[t].request = r => pc'[t] = "claim"
    <2>1. \A t \in Sessions \ {s} : pc'[t] = pc[t] /\ job'[t] = job[t]
      BY <1>3, OthersUntouched
    <2>2. CASE job[s].request = r
      <3>1. request[r].status = "execution_pending" /\ pc[s] # "claim"
        BY <1>3, <2>2, RowWrites
      <3>2. pc[s] \notin ExecuteSteps
        BY <2>2, <3>1 DEF PendingInv
      <3>3. pc'[s] \notin ExecuteSteps /\ UNCHANGED <<attempts, refund, mockWrites>>
        BY <1>3, <3>2, OnlyExecutionExecutes
      <3>4. QED
        BY <2>1, <3>1, <3>3 DEF PendingInv
    <2>3. CASE job[s].request # r
      <3>1. /\ request'[r] = request[r] /\ attempts'[r] = attempts[r]
            /\ refund'[r] = refund[r] /\ mockWrites'[r] = mockWrites[r]
            /\ pc'[s] = "idle" \/ job'[s].request # r
        BY <1>3, <2>3, OthersUntouched
      <3>2. QED
        BY <2>1, <3>1 DEF PendingInv, ExecuteSteps
    <2>4. QED
      BY <2>2, <2>3
  <1>4. ASSUME NEW s \in Sessions, Abort(s)
        PROVE  /\ attempts'[r] = <<>>
               /\ refund'[r] = "none" /\ mockWrites'[r] = 0
               /\ \A t \in Sessions :
                    pc'[t] \in ExecuteSteps /\ job'[t].request = r => pc'[t] = "claim"
    BY <1>4 DEF Abort, PendingInv, TypeOK, ControlOK, ExecuteSteps
  <1>5. ASSUME NEW q \in Requests, RefundSettles(q)
        PROVE  /\ attempts'[r] = <<>>
               /\ refund'[r] = "none" /\ mockWrites'[r] = 0
               /\ \A t \in Sessions :
                    pc'[t] \in ExecuteSteps /\ job'[t].request = r => pc'[t] = "claim"
    BY <1>5 DEF RefundSettles, PendingInv, TypeOK, TablesOK
  <1>6. QED
    BY <1>1, <1>2, <1>3, <1>4, <1>5 DEF Next

\* A request that still reads execution_pending has reached no provider and has no
\* attempt, whatever sessions interleave and wherever handlers stop.
THEOREM PendingUntouched == Spec => []PendingIsUntouched
  <1>1. Init => PendingInv
    BY DEF Init, InitRequests, PendingInv, ExecuteSteps
  <1>2. PendingInv => PendingIsUntouched
    BY DEF PendingInv, PendingIsUntouched
  <1>3. QED
    BY <1>1, <1>2, PendingStep, TypeCorrect, PTL DEF Spec

-----------------------------------------------------------------------------
(* The attempt budget.  A handler that can still store an attempt was past   *)
(* the check when fewer than MAX_RETRY_ATTEMPTS were stored, and each of     *)
(* those handlers occupies a session.                                        *)

\* What a step does to the attempts: only storing one changes them, and the
\* handler that stored it will not store another.
LEMMA AttemptGrowth ==
  ASSUME TypeOK, NEW s \in Sessions, Step(s)
  PROVE  /\ pc[s] \notin BeforeStore => pc'[s] \notin BeforeStore
         /\ \/ attempts' = attempts
            \/ /\ pc[s] = "store" /\ pc'[s] = "audit_attempt"
               /\ \E row \in AttemptRows :
                    /\ attempts' = [attempts EXCEPT ![job[s].request] = Append(@, row)]
                    /\ row.provider_status = job[s].reply.provider_status
                    /\ row.error_type = job[s].reply.error_type
  <1> USE DEF TypeOK, ControlOK, Move, Proceed, UpdateRequest, UpdateCase, RecordEvent, ReadOnly
  <1>1. CASE StoreAttempt(s)
    <2> DEFINE row == [number |-> job[s].number,
             provider |-> IF job[s].via = "stripe" THEN "stripe_test_mode"
                          ELSE job[s].seen.provider,
             provider_status |-> job[s].reply.provider_status,
             error_type |-> job[s].reply.error_type]
    <2>1. row \in AttemptRows
      BY DEF AttemptRows, Jobs, Rows, Replies, Providers
    <2>2. /\ attempts' = [attempts EXCEPT ![job[s].request] = Append(@, row)]
          /\ pc[s] = "store" /\ pc'[s] = "audit_attempt"
      BY <1>1 DEF StoreAttempt
    <2>3. QED
      BY <2>1, <2>2 DEF BeforeStore
  <1>2. CASE ExecuteStep(s) /\ ~StoreAttempt(s)
    BY <1>2 DEF ExecuteStep, Claim, ClaimCase, Reread, CountAttempts, CallMock, CallStripe,
        AuditAttempt, Finish, FinishCase, Recheck, Recount, Exhaust, ExhaustCase, BeforeStore
  <1>3. CASE ReconcileStep(s)
    BY <1>3 DEF ReconcileStep, Lookup, StoreRun, AuditRun, Mark, MarkCase, AuditMark, Route,
                AuditRoute, RouteCase, BeforeStore
  <1>4. CASE RecoverStep(s)
    <2>1. CASE Attach(s) \/ Resolve(s) \/ AuditResolve(s)
      BY <2>1 DEF Attach, Resolve, AuditResolve, BeforeStore
    <2>2. CASE ResolveCase(s) \/ StoreRecovery(s) \/ AuditRecovery(s)
      BY <2>2 DEF ResolveCase, StoreRecovery, AuditRecovery, BeforeStore
    <2>3. QED
      BY <1>4, <2>1, <2>2 DEF RecoverStep
  <1>5. QED
    BY <1>1, <1>2, <1>3, <1>4 DEF Step

LEMMA SessionsAt ==
  ASSUME NEW r, NEW steps
  PROVE  /\ IsFiniteSet(At(r, steps)) /\ IsFiniteSet(Sessions)
         /\ Cardinality(At(r, steps)) \in Nat /\ Cardinality(Sessions) \in Nat \ {0}
         /\ Cardinality(At(r, steps)) <= Cardinality(Sessions)
  <1>1. IsFiniteSet(Sessions) /\ Sessions # {} /\ At(r, steps) \subseteq Sessions
    BY SessionsAssumption DEF At
  <1>2. QED
    BY <1>1, FS_Subset, FS_CardinalityType, FS_EmptySet

\* The set of handlers before the store shrinks by the one that stores, and never
\* grows by a step.
LEMMA BudgetStep ==
  ASSUME TypeOK, AttemptBudget, NEW s \in Sessions, Step(s), NEW r \in Requests
  PROVE  Len(attempts'[r]) + Cardinality(At(r, BeforeStore)')
            <= MAX_RETRY_ATTEMPTS - 1 + Cardinality(Sessions)
  <1> DEFINE before == At(r, BeforeStore)
             after == {t \in Sessions : pc'[t] \in BeforeStore /\ job'[t].request = r}
  <1>0. At(r, BeforeStore)' = after
    BY DEF At, BeforeStore
  <1>1. Len(attempts[r]) \in Nat /\ MAX_RETRY_ATTEMPTS \in Nat
    BY RetryLimitAssumption DEF TypeOK, TablesOK
  <1>2. Len(attempts[r]) + Cardinality(before)
            <= MAX_RETRY_ATTEMPTS - 1 + Cardinality(Sessions)
    BY DEF AttemptBudget
  <1>3. after \subseteq before
    <2>1. \A t \in Sessions \ {s} : pc'[t] = pc[t] /\ job'[t] = job[t]
      BY OthersUntouched
    <2>2. s \in after => s \in before
      <3>1. pc'[s] \in BeforeStore => pc[s] \in BeforeStore /\ pc'[s] # "idle"
        BY AttemptGrowth DEF BeforeStore
      <3>2. QED
        BY <3>1, OthersUntouched DEF At
    <2>3. QED
      BY <2>1, <2>2 DEF At
  <1>4. /\ Cardinality(after) \in Nat /\ Cardinality(before) \in Nat
        /\ Cardinality(after) <= Cardinality(before)
        /\ Cardinality(Sessions) \in Nat
    BY <1>3, SessionsAt, FS_Subset, FS_CardinalityType
  <1>5. CASE attempts'[r] = attempts[r]
    BY <1>0, <1>1, <1>2, <1>4, <1>5
  <1>6. CASE attempts'[r] # attempts[r]
    <2>1. /\ pc[s] = "store" /\ pc'[s] = "audit_attempt" /\ job[s].request = r
          /\ Len(attempts'[r]) = Len(attempts[r]) + 1
      <3>1. pc[s] = "store" /\ pc'[s] = "audit_attempt"
        BY <1>6, AttemptGrowth
      <3>2. PICK row \in AttemptRows :
              attempts' = [attempts EXCEPT ![job[s].request] = Append(@, row)]
        BY <1>6, AttemptGrowth
      <3>3. attempts \in [Requests -> Seq(AttemptRows)]
        BY DEF TypeOK, TablesOK
      <3>4. job[s].request = r
        BY <1>6, <3>2, <3>3
      <3>5. attempts'[r] = Append(attempts[r], row) /\ attempts[r] \in Seq(AttemptRows)
        BY <3>2, <3>3, <3>4
      <3>6. Len(attempts'[r]) = Len(attempts[r]) + 1
        BY <3>5
      <3>7. QED
        BY <3>1, <3>4, <3>6
    <2>2. after \subseteq before \ {s} /\ s \in before
      BY <1>3, <2>1 DEF At, BeforeStore
    <2>3. /\ IsFiniteSet(before \ {s}) /\ Cardinality(before \ {s}) = Cardinality(before) - 1
      BY <2>2, SessionsAt, FS_RemoveElement
    <2>4. Cardinality(after) <= Cardinality(before) - 1
      BY <2>2, <2>3, FS_Subset
    <2>5. QED
      BY <1>0, <1>1, <1>2, <1>4, <2>1, <2>4
  <1>7. QED
    BY <1>5, <1>6

LEMMA BudgetPreserved ==
  TypeOK /\ PendingInv /\ AttemptBudget /\ [Next]_vars => AttemptBudget'
  <1> SUFFICES ASSUME TypeOK, PendingInv, AttemptBudget, [Next]_vars, NEW r \in Requests
               PROVE  Len(attempts'[r]) + Cardinality(At(r, BeforeStore)')
                        <= MAX_RETRY_ATTEMPTS - 1 + Cardinality(Sessions)
    BY DEF AttemptBudget
  <1> DEFINE after == {t \in Sessions : pc'[t] \in BeforeStore /\ job'[t].request = r}
  <1>0. /\ At(r, BeforeStore)' = after
        /\ Len(attempts[r]) \in Nat /\ MAX_RETRY_ATTEMPTS \in Nat \ {0}
        /\ Cardinality(Sessions) \in Nat
    <2>1. At(r, BeforeStore)' = after
      BY DEF At, BeforeStore
    <2>2. Len(attempts[r]) \in Nat /\ MAX_RETRY_ATTEMPTS \in Nat \ {0}
      BY RetryLimitAssumption DEF TypeOK, TablesOK
    <2>3. Cardinality(Sessions) \in Nat
      BY SessionsAt
    <2>4. QED
      BY <2>1, <2>2, <2>3
  <1>1. /\ IsFiniteSet(after) /\ Cardinality(after) \in Nat
        /\ Cardinality(after) <= Cardinality(Sessions)
    BY SessionsAt, FS_Subset, FS_CardinalityType
  <1>2. ASSUME after \subseteq At(r, BeforeStore), attempts' = attempts
        PROVE  Len(attempts'[r]) + Cardinality(after)
                        <= MAX_RETRY_ATTEMPTS - 1 + Cardinality(Sessions)
    <2>1. /\ Cardinality(after) <= Cardinality(At(r, BeforeStore))
          /\ Cardinality(At(r, BeforeStore)) \in Nat
      BY <1>2, SessionsAt, FS_Subset
    <2>2. QED
      BY <1>0, <1>1, <1>2, <2>1 DEF AttemptBudget
  <1>3. CASE UNCHANGED vars
    <2>1. after = At(r, BeforeStore) /\ attempts' = attempts
      BY <1>3 DEF vars, At
    <2>2. QED
      BY <1>0, <1>2, <2>1
  <1>4. ASSUME NEW s \in Sessions, BeginHandler(s)
        PROVE  Len(attempts'[r]) + Cardinality(after)
                        <= MAX_RETRY_ATTEMPTS - 1 + Cardinality(Sessions)
    <2>1. attempts' = attempts /\ \A t \in Sessions \ {s} : pc'[t] = pc[t] /\ job'[t] = job[t]
      BY <1>4, BeginKeepsTables, BeginGuards DEF ReadOnly
    <2>2. CASE s \notin after
      BY <1>2, <2>1, <2>2 DEF At
    <2>3. CASE s \in after
      <3>1. \/ request[r].status = "execution_pending"
            \/ Retryable(request[r].status, Len(attempts[r]))
        BY <1>4, <2>3, BeginGuards DEF BeforeStore
      <3>2. Len(attempts[r]) <= MAX_RETRY_ATTEMPTS - 1
        BY <1>0, <3>1 DEF Retryable, PendingInv
      <3>3. QED
        BY <1>0, <1>1, <2>1, <3>2
    <2>4. QED
      BY <2>2, <2>3
  <1>5. ASSUME NEW s \in Sessions, Abort(s)
        PROVE  Len(attempts'[r]) + Cardinality(after)
                        <= MAX_RETRY_ATTEMPTS - 1 + Cardinality(Sessions)
    <2>1. after \subseteq At(r, BeforeStore) /\ attempts' = attempts
      BY <1>5 DEF Abort, At, BeforeStore, TypeOK, ControlOK
    <2>2. QED
      BY <1>2, <2>1
  <1>6. ASSUME NEW q \in Requests, RefundSettles(q)
        PROVE  Len(attempts'[r]) + Cardinality(after)
                        <= MAX_RETRY_ATTEMPTS - 1 + Cardinality(Sessions)
    <2>1. after \subseteq At(r, BeforeStore) /\ attempts' = attempts
      BY <1>6 DEF RefundSettles, At
    <2>2. QED
      BY <1>2, <2>1
  <1>7. QED
    BY <1>0, <1>3, <1>4, <1>5, <1>6, BudgetStep DEF Next

\* However many sessions retry at once, no request gets more attempts than
\* MAX_RETRY_ATTEMPTS - 1 plus one per session; with one session that is the limit.
THEOREM RetryBudget == Spec => []AttemptBudget
  <1>1. Init => PendingInv /\ AttemptBudget
    <2> SUFFICES ASSUME Init
                 PROVE  PendingInv /\ AttemptBudget
      OBVIOUS
    <2>1. PendingInv
      BY DEF Init, InitRequests, PendingInv, ExecuteSteps
    <2>2. \A r \in Requests : Len(attempts[r]) = 0 /\ At(r, BeforeStore) = {}
      BY DEF Init, InitRequests, At, BeforeStore
    <2>3. QED
      BY <2>1, <2>2, SessionsAt, FS_EmptySet, RetryLimitAssumption DEF AttemptBudget
  <1>2. QED
    BY <1>1, PendingStep, BudgetPreserved, TypeCorrect, PTL DEF Spec
=============================================================================
