---------------------------- MODULE EvidenceProofs ----------------------------
(***************************************************************************)
(* What a status of an execution request is evidence of, proved for every  *)
(* number of sessions, requests, retries, runs, recoveries and stops: a    *)
(* success is recorded, a reconciliation verified, a human outcome decided *)
(* by a human, and what is in progress is being worked on.                 *)
(***************************************************************************)
EXTENDS ExecutionProofs, OpsMetrics

-----------------------------------------------------------------------------
(* How a handler moves                                                       *)

\* Which step a handler is at tells which step it has done.
LEMMA Flow ==
  ASSUME TypeOK, NEW s \in Sessions, Step(s)
  PROVE  /\ pc'[s] # "lookup"
         /\ pc'[s] = "store" => pc[s] = "call"
         /\ pc'[s] = "audit_attempt" => pc[s] = "store"
         /\ pc'[s] = "finish" => pc[s] = "audit_attempt"
         /\ pc'[s] = "store_run" => pc[s] = "lookup"
         /\ pc'[s] = "audit_run" => pc[s] = "store_run"
         /\ pc'[s] = "mark" =>
              pc[s] = "audit_run" /\ Evaluated(s).action = "mark_reconciled"
  <1> USE DEF TypeOK, ControlOK, Move, Proceed
  <1>1. CASE ExecuteStep(s)
    BY <1>1 DEF ExecuteStep, Claim, ClaimCase, Reread, CountAttempts, CallMock, CallStripe,
        StoreAttempt, AuditAttempt, Finish, FinishCase, Recheck, Recount, Exhaust, ExhaustCase
  <1>2. CASE ReconcileStep(s)
    BY <1>2 DEF ReconcileStep, Lookup, StoreRun, AuditRun, Mark, MarkCase, AuditMark, Route,
                AuditRoute, RouteCase
  <1>3. CASE RecoverStep(s)
    BY <1>3 DEF RecoverStep, Attach, Resolve, AuditResolve, ResolveCase, StoreRecovery,
                AuditRecovery
  <1>4. QED
    BY <1>1, <1>2, <1>3 DEF Step

\* Which locals a step changes.
LEMMA StepLocals ==
  ASSUME TypeOK, NEW s \in Sessions, Step(s), pc'[s] # "idle"
  PROVE  /\ job'[s].via = job[s].via
         /\ pc[s] \in {"reread", "recheck"} \/ job'[s].seen = job[s].seen
         /\ pc[s] \in {"call", "lookup"} \/ job'[s].reply = job[s].reply
  <1> USE DEF TypeOK, ControlOK, Move, Proceed, Jobs
  <1>1. CASE ExecuteStep(s)
    BY <1>1 DEF ExecuteStep, Claim, ClaimCase, Reread, CountAttempts, CallMock, CallStripe,
        StoreAttempt, AuditAttempt, Finish, FinishCase, Recheck, Recount, Exhaust, ExhaustCase
  <1>2. CASE ReconcileStep(s)
    BY <1>2 DEF ReconcileStep, Lookup, StoreRun, AuditRun, Mark, MarkCase, AuditMark, Route,
                AuditRoute, RouteCase
  <1>3. CASE RecoverStep(s)
    BY <1>3 DEF RecoverStep, Attach, Resolve, AuditResolve, ResolveCase, StoreRecovery,
                AuditRecovery
  <1>4. QED
    BY <1>1, <1>2, <1>3 DEF Step

\* Who writes which status, and that an object is never taken away.
LEMMA StatusWrites ==
  ASSUME TypeOK, NEW s \in Sessions, Step(s), NEW r, r = job[s].request
  PROVE  \/ request' = request
         \/ /\ pc[s] = "claim" /\ pc'[s] = "claim_case"
            /\ request'[r].status \in InProgress /\ request'[r].object = request[r].object
         \/ /\ pc[s] = "finish"
            /\ request'[r].status = ExecutionStatusOf(job[s].reply)
            /\ request'[r].object = IF job[s].reply.object = "none" THEN request[r].object
                                    ELSE job[s].reply.object
         \/ /\ request'[r].status = "needs_manual_review"
            /\ request'[r].object = request[r].object
         \/ /\ pc[s] = "mark"
            /\ request'[r].status = "reconciled" /\ request'[r].object = request[r].object
         \/ /\ pc[s] = "attach"
            /\ request'[r].status = request[r].status /\ request'[r].object = "operator_ref"
         \/ /\ pc[s] = "resolve" /\ pc'[s] = "audit_resolve"
            /\ request'[r].status = RecoveryStatus[job[s].via]
            /\ request'[r].object = request[r].object
  <1>0. r \in Requests /\ request \in [Requests -> Rows]
    BY OthersUntouched DEF TypeOK, TablesOK
  <1>1. ASSUME NEW row, UpdateRequest(r, row)
        PROVE  request'[r] = row
    BY <1>0, <1>1 DEF UpdateRequest
  <1>2. ASSUME NEW here, NEW there, Proceed(s, here, there)
        PROVE  pc[s] = here /\ pc'[s] = there
    BY <1>2 DEF Proceed, Move, TypeOK, ControlOK
  <1>3. CASE Claim(s)
    <2>1. UpdateRequest(r,
            [request[r] EXCEPT
              !.status = IF job[s].via = "retry" THEN "retrying" ELSE "processing",
              !.provider = IF job[s].via = "stripe" THEN "stripe_test_mode"
                           ELSE request[r].provider])
      BY <1>3 DEF Claim
    <2>2. /\ request'[r].status = IF job[s].via = "retry" THEN "retrying" ELSE "processing"
          /\ request'[r].object = request[r].object
      <3>1. request'[r] =
              [request[r] EXCEPT
                !.status = IF job[s].via = "retry" THEN "retrying" ELSE "processing",
                !.provider = IF job[s].via = "stripe" THEN "stripe_test_mode"
                             ELSE request[r].provider]
        BY <1>1, <2>1
      <3>2. QED
        BY <1>0, <3>1 DEF Rows
    <2>3. QED
      BY <1>2, <1>3, <2>2 DEF Claim, InProgress
  <1>4. CASE Finish(s)
    <2>1. UpdateRequest(r,
            [request[r] EXCEPT
              !.status = ExecutionStatusOf(job[s].reply),
              !.object = IF job[s].reply.object = "none" THEN request[r].object
                         ELSE job[s].reply.object])
      BY <1>4 DEF Finish
    <2>2. /\ request'[r].status = ExecutionStatusOf(job[s].reply)
          /\ request'[r].object = IF job[s].reply.object = "none" THEN request[r].object
                                  ELSE job[s].reply.object
      BY <1>0, <1>1, <2>1 DEF Rows
    <2>3. QED
      BY <1>2, <1>4, <2>2 DEF Finish
  <1>5. CASE Exhaust(s) \/ Route(s)
    BY <1>0, <1>1, <1>5 DEF Exhaust, Route, Rows
  <1>6. CASE Mark(s)
    BY <1>0, <1>1, <1>2, <1>6 DEF Mark, Rows
  <1>7. CASE Attach(s)
    BY <1>0, <1>1, <1>2, <1>7 DEF Attach, Rows
  <1>8. CASE Resolve(s)
    BY <1>0, <1>1, <1>2, <1>8 DEF Resolve, Rows
  <1>9. CASE ExecuteStep(s) /\ ~Claim(s) /\ ~Finish(s) /\ ~Exhaust(s)
    BY <1>9 DEF ExecuteStep, ClaimCase, Reread, CountAttempts, CallMock, CallStripe,
        StoreAttempt, AuditAttempt, FinishCase, Recheck, Recount, ExhaustCase,
        ReadOnly, UpdateCase, RecordEvent
  <1>10. CASE ReconcileStep(s) /\ ~Mark(s) /\ ~Route(s)
    BY <1>10 DEF ReconcileStep, Lookup, StoreRun, AuditRun, MarkCase, AuditMark, AuditRoute,
        RouteCase, ReadOnly, UpdateCase, RecordEvent
  <1>11. CASE RecoverStep(s) /\ ~Attach(s) /\ ~Resolve(s)
    BY <1>11 DEF RecoverStep, AuditResolve, ResolveCase, StoreRecovery, AuditRecovery,
        UpdateCase, RecordEvent
  <1>12. QED
    BY <1>3, <1>4, <1>5, <1>6, <1>7, <1>8, <1>9, <1>10, <1>11 DEF Step

\* The step at finish is the one that publishes the outcome of the attempt.
LEMMA FinishWrites ==
  ASSUME TypeOK, NEW s \in Sessions, Step(s), pc[s] = "finish"
  PROVE  request'[job[s].request].status = ExecutionStatusOf(job[s].reply)
  <1>1. Finish(s)
    BY DEF Step, ExecuteStep, Claim, ClaimCase, Reread, CountAttempts, CallMock, CallStripe,
        StoreAttempt, AuditAttempt, FinishCase, Recheck, Recount, Exhaust, ExhaustCase,
        ReconcileStep, Lookup, StoreRun, AuditRun, Mark, MarkCase, AuditMark, Route,
        AuditRoute, RouteCase, RecoverStep, Attach, Resolve, AuditResolve, ResolveCase,
        StoreRecovery, AuditRecovery, Move, Proceed
  <1>2. job[s].request \in Requests /\ request \in [Requests -> Rows]
    BY OthersUntouched DEF TypeOK, TablesOK
  <1>3. QED
    BY <1>1, <1>2 DEF Finish, UpdateRequest, Rows

LEMMA StepKeepsAborts ==
  ASSUME NEW s \in Sessions, Step(s)
  PROVE  aborts' = aborts
  BY DEF Step, ExecuteStep, Claim, ClaimCase, Reread, CountAttempts, CallMock, CallStripe,
        StoreAttempt, AuditAttempt, Finish, FinishCase, Recheck, Recount, Exhaust, ExhaustCase,
        ReconcileStep, Lookup, StoreRun, AuditRun, Mark, MarkCase, AuditMark, Route,
        AuditRoute, RouteCase, RecoverStep, Attach, Resolve, AuditResolve, ResolveCase,
        StoreRecovery, AuditRecovery, UpdateRequest, UpdateCase, RecordEvent, ReadOnly

\* The tables of runs and recoveries are only appended to, by the step that stores.
LEMMA HistoryGrowth ==
  ASSUME TypeOK, NEW s \in Sessions, Step(s)
  PROVE  /\ \/ runs' = runs /\ pc[s] # "store_run"
            \/ /\ pc[s] = "store_run"
               /\ runs' = [runs EXCEPT ![job[s].request] = Append(@,
                    [internal_status |-> job[s].seen.status,
                     provider_status |-> job[s].reply.provider_status,
                     result |-> Evaluated(s).result,
                     action |-> Evaluated(s).action])]
         /\ \/ recoveries' = recoveries /\ pc[s] # "store_recovery"
            \/ /\ pc[s] = "store_recovery"
               /\ recoveries' = [recoveries EXCEPT ![job[s].request] = Append(@,
                    [action |-> job[s].via, previous |-> job[s].seen.status,
                     new |-> RecoveryStatus[job[s].via]])]
  <1> USE DEF Move, Proceed, UpdateRequest, UpdateCase, RecordEvent, ReadOnly
  <1>1. CASE ExecuteStep(s)
    BY <1>1 DEF ExecuteStep, Claim, ClaimCase, Reread, CountAttempts, CallMock, CallStripe,
        StoreAttempt, AuditAttempt, Finish, FinishCase, Recheck, Recount, Exhaust, ExhaustCase
  <1>2. CASE ReconcileStep(s)
    BY <1>2 DEF ReconcileStep, Lookup, StoreRun, AuditRun, Mark, MarkCase, AuditMark, Route,
                AuditRoute, RouteCase
  <1>3. CASE RecoverStep(s)
    BY <1>3 DEF RecoverStep, Attach, Resolve, AuditResolve, ResolveCase, StoreRecovery,
                AuditRecovery
  <1>4. QED
    BY <1>1, <1>2, <1>3 DEF Step

LEMMA AppendKeeps ==
  ASSUME NEW S, NEW seq \in Seq(S), NEW e \in S
  PROVE  /\ \A i \in 1 .. Len(seq) : i \in 1 .. Len(Append(seq, e)) /\ Append(seq, e)[i] = seq[i]
         /\ Len(seq) + 1 \in 1 .. Len(Append(seq, e)) /\ Append(seq, e)[Len(seq) + 1] = e
  OBVIOUS

-----------------------------------------------------------------------------
(* Who waits, waits for somebody                                             *)

Working == ExecuteSteps \ {"claim", "finish_case", "recheck", "recount", "exhaust",
                           "exhaust_case"}

\* A handler that is at work stays at work until it writes the outcome.
LEMMA WorkingFlow ==
  ASSUME TypeOK, NEW s \in Sessions, Step(s), pc[s] \in Working
  PROVE  pc[s] = "finish" \/ pc'[s] \in Working
  <1> USE DEF TypeOK, ControlOK, Move, Proceed
  <1>1. CASE ExecuteStep(s)
    BY <1>1 DEF ExecuteStep, Claim, ClaimCase, Reread, CountAttempts, CallMock, CallStripe,
        StoreAttempt, AuditAttempt, Finish, FinishCase, Recheck, Recount, Exhaust, ExhaustCase,
        Working, ExecuteSteps
  <1>2. CASE ReconcileStep(s)
    BY <1>2 DEF ReconcileStep, Lookup, StoreRun, AuditRun, Mark, MarkCase, AuditMark, Route,
                AuditRoute, RouteCase, Working, ExecuteSteps
  <1>3. CASE RecoverStep(s)
    BY <1>3 DEF RecoverStep, Attach, Resolve, AuditResolve, ResolveCase, StoreRecovery,
                AuditRecovery, Working, ExecuteSteps
  <1>4. QED
    BY <1>1, <1>2, <1>3 DEF Step

WorkedOn(r) == \E s \in Sessions : pc[s] \in Working /\ job[s].request = r

WaitingInv ==
    \A r \in Requests : request[r].status \in InProgress => WorkedOn(r) \/ aborts > 0

LEMMA WaitingStep == TypeOK /\ WaitingInv /\ [Next]_vars => WaitingInv'
  <1> SUFFICES ASSUME TypeOK, WaitingInv, [Next]_vars, NEW r \in Requests,
                      request'[r].status \in InProgress, aborts' = 0
               PROVE  \E t \in Sessions : pc'[t] \in Working /\ job'[t].request = r
    <2>1. TypeOK /\ [Next]_vars => aborts' \in Nat
      BY TypeStep DEF TypeOK, TablesOK
    <2>2. QED
      BY <2>1 DEF WaitingInv, WorkedOn
  <1>0. aborts \in Nat
    BY DEF TypeOK, TablesOK
  <1>1. ASSUME request'[r].status = request[r].status, aborts' = aborts
        PROVE  \E t \in Sessions : pc[t] \in Working /\ job[t].request = r
    BY <1>1 DEF WaitingInv, WorkedOn
  <1>2. CASE UNCHANGED vars
    BY <1>1, <1>2 DEF vars
  <1>3. ASSUME NEW s \in Sessions, BeginHandler(s)
        PROVE  \E t \in Sessions : pc'[t] \in Working /\ job'[t].request = r
    <2>1. request' = request /\ aborts' = aborts
      BY <1>3, BeginKeepsTables DEF ReadOnly
    <2>2. PICK t \in Sessions : pc[t] \in Working /\ job[t].request = r
      BY <1>1, <2>1
    <2>3. t # s
      BY <1>3, <2>2, BeginGuards DEF Working, ExecuteSteps
    <2>4. QED
      BY <1>3, <2>2, <2>3, BeginGuards
  <1>4. ASSUME NEW s \in Sessions, Step(s)
        PROVE  \E t \in Sessions : pc'[t] \in Working /\ job'[t].request = r
    <2>0. /\ job[s].request \in Requests
          /\ \A t \in Sessions \ {s} : pc'[t] = pc[t] /\ job'[t] = job[t]
          /\ pc'[s] # "idle" => job'[s].request = job[s].request
          /\ r # job[s].request => request'[r] = request[r]
      BY <1>4, OthersUntouched
    <2>1. aborts' = aborts
      BY <1>4, StepKeepsAborts
    <2>2. CASE job[s].request = r /\ pc[s] = "claim" /\ pc'[s] = "claim_case"
      BY <2>0, <2>2 DEF Working, ExecuteSteps
    <2>3. CASE request'[r].status = request[r].status /\ (job[s].request = r => pc[s] # "finish")
      <3>1. PICK t \in Sessions : pc[t] \in Working /\ job[t].request = r
        BY <1>1, <2>1, <2>3
      <3>2. CASE t # s
        BY <2>0, <3>1, <3>2
      <3>3. CASE t = s
        BY <1>4, <2>0, <2>3, <3>1, <3>3, WorkingFlow DEF Working, ExecuteSteps
      <3>4. QED
        BY <3>2, <3>3
    <2>4. CASE job[s].request # r
      BY <2>0, <2>3, <2>4
    <2>5. CASE job[s].request = r
      <3>1. pc[s] = "finish" => request'[r].status = ExecutionStatusOf(job[s].reply)
        BY <1>4, <2>5, FinishWrites
      <3>2. \A action \in RecoveryActions : RecoveryStatus[action] \notin InProgress
        BY StatusTypes DEF InProgress
      <3>3. pc[s] = "resolve" => job[s].via \in RecoveryActions
        BY DEF TypeOK, ControlOK, RecoverSteps
      <3>4. pc[s] # "finish"
        BY <3>1, StatusTypes DEF InProgress
      <3>5. \/ request'[r].status = request[r].status
            \/ pc[s] = "claim" /\ pc'[s] = "claim_case"
        BY <1>4, <2>5, <3>2, <3>3, <3>4, StatusWrites DEF InProgress
      <3>6. QED
        BY <2>2, <2>3, <2>5, <3>4, <3>5
    <2>6. QED
      BY <2>4, <2>5
  <1>5. ASSUME NEW s \in Sessions, Abort(s)
        PROVE  FALSE
    BY <1>0, <1>5 DEF Abort
  <1>6. ASSUME NEW q \in Requests, RefundSettles(q)
        PROVE  \E t \in Sessions : pc'[t] \in Working /\ job'[t].request = r
    BY <1>1, <1>6 DEF RefundSettles
  <1>7. QED
    BY <1>2, <1>3, <1>4, <1>5, <1>6 DEF Next

-----------------------------------------------------------------------------
(* A success is recorded                                                     *)

Evidence(r) == HasSuccess(r) /\ request[r].object # "none"

ClosedWell == {"succeeded", "reconciled"}

\* A handler that is going to write such a status, or decides on a row that had one,
\* has the evidence.
HandlerEvidence(s) ==
    /\ pc[s] \in {"store", "audit_attempt", "finish"} /\ Succeeded(job[s].reply) =>
         job[s].reply.object # "none"
    /\ pc[s] \in {"audit_attempt", "finish"} /\ Succeeded(job[s].reply) =>
         HasSuccess(job[s].request)
    /\ pc[s] \in {"lookup", "store_run", "audit_run"} /\ job[s].seen.status \in ClosedWell =>
         Evidence(job[s].request)
    /\ pc[s] = "mark" => Evidence(job[s].request)

EvidenceInv ==
    /\ \A r \in Requests : request[r].status \in ClosedWell => Evidence(r)
    /\ \A s \in Sessions : HandlerEvidence(s)

\* Every answer of a provider that says succeeded names an object.
LEMMA SuccessNamesObject ==
  ASSUME TypeOK, NEW s \in Sessions, Step(s), pc'[s] = "store"
  PROVE  Succeeded(job'[s].reply) => job'[s].reply.object # "none"
  <1>0. job \in [Sessions -> Jobs] /\ pc[s] = "call"
    BY Flow DEF TypeOK, ControlOK
  <1>1. CallMock(s) \/ CallStripe(s)
    BY <1>0 DEF Step, ExecuteStep, Claim, ClaimCase, Reread, CountAttempts, StoreAttempt,
        AuditAttempt, Finish, FinishCase, Recheck, Recount, Exhaust, ExhaustCase,
        ReconcileStep, Lookup, StoreRun, AuditRun, Mark, MarkCase, AuditMark, Route,
        AuditRoute, RouteCase, RecoverStep, Attach, Resolve, AuditResolve, ResolveCase,
        StoreRecovery, AuditRecovery, Move, Proceed
  <1>2. ASSUME NEW reply \in Replies, job' = [job EXCEPT ![s].reply = reply]
        PROVE  job'[s].reply = reply
    BY <1>0, <1>2 DEF Jobs
  <1>3. CASE CallMock(s)
    <2>1. PICK outcome \in DOMAIN MockReply :
            job' = [job EXCEPT ![s].reply = MockReply[outcome]]
      BY <1>3 DEF CallMock
    <2>2. job'[s].reply = MockReply[outcome]
      BY <1>2, <2>1, ReplyTypes
    <2>3. QED
      BY <2>2 DEF MockReply, Reply, Succeeded
  <1>4. CASE CallStripe(s)
    <2>1. PICK reply \in {MockRefundReply, StripeRefundReply} \cup
                         {StripeErrorReply(error) : error \in StripeErrors} :
            job' = [job EXCEPT ![s].reply = reply]
      BY <1>4 DEF CallStripe, StripeErrors, StripeErrorType
    <2>2. job'[s].reply = reply
      BY <1>2, <2>1, ReplyTypes
    <2>3. QED
      BY <2>1, <2>2 DEF MockRefundReply, StripeRefundReply, StripeErrorReply, StripeErrors,
                        StripeErrorType, Reply, Succeeded
  <1>5. QED
    BY <1>1, <1>3, <1>4

\* An attempt is stored by the step at store and by no other.
LEMMA AttemptHistory ==
  ASSUME TypeOK, NEW s \in Sessions, Step(s)
  PROVE  \/ attempts' = attempts /\ pc[s] # "store"
         \/ /\ pc[s] = "store"
            /\ \E row \in AttemptRows :
                 /\ attempts' = [attempts EXCEPT ![job[s].request] = Append(@, row)]
                 /\ row.provider_status = job[s].reply.provider_status
  <1>1. CASE pc[s] # "store"
    BY <1>1, AttemptGrowth
  <1>2. CASE pc[s] = "store"
    <2>1. StoreAttempt(s)
      BY <1>2 DEF Step, ExecuteStep, Claim, ClaimCase, Reread, CountAttempts, CallMock,
          CallStripe, AuditAttempt, Finish, FinishCase, Recheck, Recount, Exhaust,
          ExhaustCase, ReconcileStep, Lookup, StoreRun, AuditRun, Mark, MarkCase, AuditMark,
          Route, AuditRoute, RouteCase, RecoverStep, Attach, Resolve, AuditResolve,
          ResolveCase, StoreRecovery, AuditRecovery, Move, Proceed
    <2> DEFINE row == [number |-> job[s].number,
                       provider |-> IF job[s].via = "stripe" THEN "stripe_test_mode"
                                    ELSE job[s].seen.provider,
                       provider_status |-> job[s].reply.provider_status,
                       error_type |-> job[s].reply.error_type]
    <2>2. row \in AttemptRows
      BY DEF AttemptRows, Jobs, Rows, Replies, Providers, TypeOK, ControlOK
    <2>3. attempts' = [attempts EXCEPT ![job[s].request] = Append(@, row)]
      BY <2>1 DEF StoreAttempt
    <2>4. QED
      BY <1>2, <2>2, <2>3
  <1>3. QED
    BY <1>1, <1>2

\* Attempts are only added and objects only replaced, so evidence stays.
LEMMA EvidenceStays ==
  ASSUME TypeOK, NEW s \in Sessions, Step(s), NEW r \in Requests
  PROVE  /\ HasSuccess(r) => HasSuccess(r)'
         /\ request[r].object # "none" => request'[r].object # "none"
         /\ r = job[s].request /\ pc[s] = "store" /\ Succeeded(job[s].reply) => HasSuccess(r)'
  <1>0. attempts \in [Requests -> Seq(AttemptRows)]
    BY DEF TypeOK, TablesOK
  <1>1. request[r].object # "none" => request'[r].object # "none"
    BY StatusWrites, OthersUntouched
  <1>2. CASE attempts' = attempts /\ pc[s] # "store"
    BY <1>1, <1>2 DEF HasSuccess, Succeeded
  <1>3. ASSUME NEW row \in AttemptRows,
               attempts' = [attempts EXCEPT ![job[s].request] = Append(@, row)],
               row.provider_status = job[s].reply.provider_status
        PROVE  /\ HasSuccess(r) => HasSuccess(r)'
               /\ r = job[s].request /\ Succeeded(job[s].reply) => HasSuccess(r)'
    <2>1. CASE r = job[s].request
      <3>1. attempts'[r] = Append(attempts[r], row) /\ attempts[r] \in Seq(AttemptRows)
        BY <1>0, <1>3, <2>1
      <3>2. /\ \A i \in 1 .. Len(attempts[r]) :
                 i \in 1 .. Len(attempts'[r]) /\ attempts'[r][i] = attempts[r][i]
            /\ Len(attempts[r]) + 1 \in 1 .. Len(attempts'[r])
            /\ attempts'[r][Len(attempts[r]) + 1] = row
        BY <3>1, AppendKeeps
      <3>3. QED
        BY <1>3, <3>2 DEF HasSuccess, Succeeded
    <2>2. CASE r # job[s].request
      BY <1>0, <1>3, <2>2 DEF HasSuccess, Succeeded
    <2>3. QED
      BY <2>1, <2>2
  <1>4. QED
    BY <1>1, <1>2, <1>3, AttemptHistory

LEMMA UnmovedHandler ==
  ASSUME TypeOK, NEW t \in Sessions, HandlerEvidence(t), pc'[t] = pc[t], job'[t] = job[t],
         \A r \in Requests :
            (HasSuccess(r) => HasSuccess(r)') /\ (Evidence(r) => Evidence(r)')
  PROVE  HandlerEvidence(t)'
  <1>1. pc[t] # "idle" => job[t].request \in Requests
    BY DEF TypeOK, ControlOK
  <1>2. pc[t] # "idle" /\ HasSuccess(job[t].request) => HasSuccess(job[t].request)'
    BY <1>1 DEF HasSuccess
  <1>3. pc[t] # "idle" /\ Evidence(job[t].request) => Evidence(job[t].request)'
    BY <1>1 DEF Evidence, HasSuccess
  <1>4. QED
    BY <1>2, <1>3 DEF HandlerEvidence, Succeeded

LEMMA EvidenceStep == TypeOK /\ EvidenceInv /\ [Next]_vars => EvidenceInv'
  <1> SUFFICES ASSUME TypeOK, EvidenceInv, [Next]_vars
               PROVE  EvidenceInv'
    OBVIOUS
  <1>1. CASE UNCHANGED vars
    BY <1>1 DEF vars, EvidenceInv, HandlerEvidence, Evidence, HasSuccess, Succeeded
  <1>2. ASSUME NEW s \in Sessions, BeginHandler(s)
        PROVE  EvidenceInv'
    <2>1. request' = request /\ attempts' = attempts
      BY <1>2, BeginKeepsTables DEF ReadOnly
    <2>2. \A r \in Requests : (HasSuccess(r) => HasSuccess(r)') /\ (Evidence(r) => Evidence(r)')
      BY <2>1 DEF Evidence, HasSuccess, Succeeded
    <2>3. \A t \in Sessions \ {s} : HandlerEvidence(t)'
      BY <1>2, <2>2, BeginGuards, UnmovedHandler DEF EvidenceInv
    <2>4. HandlerEvidence(s)'
      <3>1. PICK r \in Requests :
              /\ job'[s].request = r
              /\ pc'[s] \in {"claim", "lookup", "attach", "resolve"}
              /\ pc'[s] = "lookup" => job'[s].seen = request[r]
        BY <1>2, BeginGuards
      <3>2. request[r].status \in ClosedWell => HasSuccess(r)' /\ request'[r].object # "none"
        BY <2>1, <2>2 DEF EvidenceInv, Evidence
      <3>3. QED
        BY <3>1, <3>2 DEF HandlerEvidence, Evidence, HasSuccess
    <2>5. \A r \in Requests : request'[r].status \in ClosedWell => Evidence(r)'
      BY <2>1, <2>2 DEF EvidenceInv
    <2>6. QED
      BY <2>3, <2>4, <2>5 DEF EvidenceInv
  <1>3. ASSUME NEW s \in Sessions, Step(s)
        PROVE  EvidenceInv'
    <2> DEFINE q == job[s].request
    <2>0. /\ q \in Requests
          /\ \A t \in Sessions \ {s} : pc'[t] = pc[t] /\ job'[t] = job[t]
          /\ pc'[s] # "idle" => job'[s].request = q
          /\ \A r \in Requests \ {q} : request'[r] = request[r]
      BY <1>3, OthersUntouched
    <2>1. \A r \in Requests : (HasSuccess(r) => HasSuccess(r)') /\ (Evidence(r) => Evidence(r)')
      BY <1>3, EvidenceStays DEF Evidence
    <2>2. \A t \in Sessions \ {s} : HandlerEvidence(t)'
      BY <2>0, <2>1, UnmovedHandler DEF EvidenceInv
    <2>3. HandlerEvidence(s)'
      <3>0. HandlerEvidence(s)
        BY DEF EvidenceInv
      <3>1. pc'[s] = "store" /\ Succeeded(job'[s].reply) => job'[s].reply.object # "none"
        BY <1>3, SuccessNamesObject
      <3>2. pc'[s] = "audit_attempt" /\ Succeeded(job'[s].reply) =>
              job'[s].reply.object # "none" /\ HasSuccess(q)'
        <4>1. pc'[s] = "audit_attempt" => pc[s] = "store" /\ job'[s].reply = job[s].reply
          BY <1>3, Flow, StepLocals
        <4>2. QED
          BY <1>3, <2>0, <3>0, <4>1, EvidenceStays DEF HandlerEvidence
      <3>3. pc'[s] = "finish" /\ Succeeded(job'[s].reply) =>
              job'[s].reply.object # "none" /\ HasSuccess(q)'
        <4>1. pc'[s] = "finish" => pc[s] = "audit_attempt" /\ job'[s].reply = job[s].reply
          BY <1>3, Flow, StepLocals
        <4>2. QED
          BY <2>0, <2>1, <3>0, <4>1 DEF HandlerEvidence
      <3>4. pc'[s] \in {"store_run", "audit_run"} /\ job'[s].seen.status \in ClosedWell =>
              Evidence(q)'
        <4>1. pc'[s] \in {"store_run", "audit_run"} =>
                pc[s] \in {"lookup", "store_run"} /\ job'[s].seen = job[s].seen
          BY <1>3, Flow, StepLocals
        <4>2. QED
          BY <2>0, <2>1, <3>0, <4>1 DEF HandlerEvidence
      <3>5. pc'[s] = "mark" => Evidence(q)'
        <4>1. pc'[s] = "mark" => pc[s] = "audit_run" /\ job[s].seen.status \in ClosedWell
          BY <1>3, Flow DEF Evaluated, EvaluateReconciliation, Verdict, ClosedWell
        <4>2. QED
          BY <2>0, <2>1, <3>0, <4>1 DEF HandlerEvidence
      <3>6. pc'[s] # "lookup"
        BY <1>3, Flow
      <3>7. pc'[s] # "idle" => (HasSuccess(q)' => HasSuccess(job[s].request)')
                               /\ (Evidence(q)' => Evidence(job[s].request)')
        BY <2>0 DEF Evidence, HasSuccess
      <3>8. QED
        BY <3>1, <3>2, <3>3, <3>4, <3>5, <3>6, <3>7 DEF HandlerEvidence
    <2>4. ASSUME NEW r \in Requests, request'[r].status \in ClosedWell
          PROVE  Evidence(r)'
      <3>1. CASE request[r].status \in ClosedWell
        BY <2>1, <3>1 DEF EvidenceInv
      <3>2. CASE request[r].status \notin ClosedWell
        <4>1. r = q
          BY <2>0, <2>4, <3>2
        <4>2. job[s].via \in RecoveryActions => RecoveryStatus[job[s].via] \notin ClosedWell
          BY StatusTypes DEF ClosedWell
        <4>3. pc[s] = "resolve" => job[s].via \in RecoveryActions
          BY DEF TypeOK, ControlOK, RecoverSteps
        <4>4. \/ pc[s] = "mark"
              \/ /\ pc[s] = "finish" /\ ExecutionStatusOf(job[s].reply) \in ClosedWell
                 /\ request'[r].object = IF job[s].reply.object = "none" THEN request[r].object
                                         ELSE job[s].reply.object
          BY <1>3, <2>4, <3>2, <4>1, <4>2, <4>3, StatusWrites DEF ClosedWell, InProgress
        <4>5. CASE pc[s] = "mark"
          BY <2>1, <4>1, <4>5 DEF EvidenceInv, HandlerEvidence
        <4>6. CASE pc[s] = "finish" /\ ExecutionStatusOf(job[s].reply) \in ClosedWell
          <5>1. Succeeded(job[s].reply)
            BY <4>6 DEF ExecutionStatusOf, ClosedWell, Succeeded
          <5>2. HasSuccess(r) /\ job[s].reply.object # "none"
            BY <4>1, <4>6, <5>1 DEF EvidenceInv, HandlerEvidence
          <5>3. request'[r].object # "none"
            BY <4>4, <4>6, <5>2
          <5>4. QED
            BY <2>1, <5>2, <5>3 DEF Evidence
        <4>7. QED
          BY <4>4, <4>5, <4>6
      <3>3. QED
        BY <3>1, <3>2
    <2>5. QED
      BY <2>2, <2>3, <2>4 DEF EvidenceInv
  <1>4. ASSUME NEW s \in Sessions, Abort(s)
        PROVE  EvidenceInv'
    BY <1>4 DEF Abort, EvidenceInv, HandlerEvidence, Evidence, HasSuccess, Succeeded,
                TypeOK, ControlOK
  <1>5. ASSUME NEW q \in Requests, RefundSettles(q)
        PROVE  EvidenceInv'
    BY <1>5 DEF RefundSettles, EvidenceInv, HandlerEvidence, Evidence, HasSuccess, Succeeded
  <1>6. QED
    BY <1>1, <1>2, <1>3, <1>4, <1>5 DEF Next

-----------------------------------------------------------------------------
(* A reconciliation is verified                                              *)

Verifies(run) ==
    /\ run.internal_status = "succeeded" /\ run.provider_status = "succeeded"
    /\ run.action = "mark_reconciled"

Verified(r) == \E i \in 1 .. Len(runs[r]) : Verifies(runs[r][i])

\* Who is about to mark a request, or has stored a run that says so, has verified it.
HandlerVerified(s) ==
    \/ pc[s] = "mark"
    \/ pc[s] = "audit_run" /\ Evaluated(s).action = "mark_reconciled"
  => Verified(job[s].request)

VerifiedInv ==
    /\ \A r \in Requests : request[r].status = "reconciled" => Verified(r)
    /\ \A s \in Sessions : HandlerVerified(s)

\* Only a succeeded request of which the provider says the same is to be marked.
LEMMA MarkVerdict ==
  ASSUME NEW internal, NEW provider,
         EvaluateReconciliation(internal, provider).action = "mark_reconciled"
  PROVE  internal = "succeeded" /\ provider = "succeeded"
  BY DEF EvaluateReconciliation, Verdict

\* Runs are only added, and the run stored is the one that was evaluated.
LEMMA VerifiedStays ==
  ASSUME TypeOK, NEW s \in Sessions, Step(s), NEW r \in Requests
  PROVE  /\ Verified(r) => Verified(r)'
         /\ r = job[s].request /\ pc[s] = "store_run"
              /\ Evaluated(s).action = "mark_reconciled" => Verified(r)'
  <1>0. runs \in [Requests -> Seq(RunRows)] /\ job[s] \in Jobs
    BY DEF TypeOK, TablesOK, ControlOK
  <1>1. CASE runs' = runs /\ pc[s] # "store_run"
    BY <1>1 DEF Verified, Verifies
  <1>2. CASE pc[s] = "store_run"
    <2> DEFINE row == [internal_status |-> job[s].seen.status,
                       provider_status |-> job[s].reply.provider_status,
                       result |-> Evaluated(s).result,
                       action |-> Evaluated(s).action]
    <2>1. runs' = [runs EXCEPT ![job[s].request] = Append(@, row)]
      BY <1>2, HistoryGrowth
    <2>2. row \in RunRows
      BY <1>0, VerdictTypes DEF Jobs, RunRows, Rows, Replies, Evaluated
    <2>3. Evaluated(s).action = "mark_reconciled" => Verifies(row)
      BY MarkVerdict DEF Evaluated, Verifies
    <2> HIDE DEF row
    <2>4. CASE r = job[s].request
      <3>1. runs'[r] = Append(runs[r], row) /\ runs[r] \in Seq(RunRows)
        BY <1>0, <2>1, <2>4
      <3>2. /\ \A i \in 1 .. Len(runs[r]) :
                 i \in 1 .. Len(runs'[r]) /\ runs'[r][i] = runs[r][i]
            /\ Len(runs[r]) + 1 \in 1 .. Len(runs'[r])
            /\ runs'[r][Len(runs[r]) + 1] = row
        BY <2>2, <3>1, AppendKeeps
      <3>3. QED
        BY <2>3, <3>2 DEF Verified, Verifies
    <2>5. CASE r # job[s].request
      BY <1>0, <2>1, <2>5 DEF Verified, Verifies
    <2>6. QED
      BY <2>4, <2>5
  <1>3. QED
    BY <1>1, <1>2, HistoryGrowth

LEMMA VerifiedStep == TypeOK /\ VerifiedInv /\ [Next]_vars => VerifiedInv'
  <1> SUFFICES ASSUME TypeOK, VerifiedInv, [Next]_vars
               PROVE  VerifiedInv'
    OBVIOUS
  <1>0. \A t \in Sessions : pc[t] # "idle" => job[t].request \in Requests
    BY DEF TypeOK, ControlOK
  <1>1. CASE UNCHANGED vars
    BY <1>1 DEF vars, VerifiedInv, HandlerVerified, Verified, Verifies, Evaluated
  <1>2. ASSUME NEW s \in Sessions, BeginHandler(s)
        PROVE  VerifiedInv'
    <2>1. request' = request /\ runs' = runs
      BY <1>2, BeginKeepsTables DEF ReadOnly
    <2>2. /\ pc'[s] \in {"claim", "lookup", "attach", "resolve"}
          /\ \A t \in Sessions \ {s} : pc'[t] = pc[t] /\ job'[t] = job[t]
      BY <1>2, BeginGuards
    <2>3. QED
      BY <2>1, <2>2 DEF VerifiedInv, HandlerVerified, Verified, Verifies, Evaluated
  <1>3. ASSUME NEW s \in Sessions, Step(s)
        PROVE  VerifiedInv'
    <2>0. /\ job[s].request \in Requests
          /\ \A t \in Sessions \ {s} : pc'[t] = pc[t] /\ job'[t] = job[t]
          /\ pc'[s] # "idle" => job'[s].request = job[s].request
          /\ \A r \in Requests \ {job[s].request} : request'[r] = request[r]
      BY <1>3, OthersUntouched
    <2>1. \A r \in Requests : Verified(r) => Verified(r)'
      BY <1>3, VerifiedStays
    <2>2. ASSUME NEW t \in Sessions \ {s}
          PROVE  HandlerVerified(t)'
      <3>1. pc[t] # "idle" /\ Verified(job[t].request) => Verified(job[t].request)'
        BY <1>0, <2>0, <2>1 DEF Verified
      <3>2. QED
        BY <2>0, <3>1 DEF VerifiedInv, HandlerVerified, Evaluated
    <2>3. HandlerVerified(s)'
      <3>1. pc'[s] = "mark" => Verified(job[s].request)
        BY <1>3, Flow DEF VerifiedInv, HandlerVerified
      <3>2. pc'[s] = "audit_run" =>
              /\ pc[s] = "store_run"
              /\ job'[s].seen = job[s].seen /\ job'[s].reply = job[s].reply
        BY <1>3, Flow, StepLocals
      <3>3. ASSUME NEW r \in Requests, r = job[s].request, r = job'[s].request,
                   \/ pc'[s] = "mark"
                   \/ pc'[s] = "audit_run" /\ Evaluated(s)'.action = "mark_reconciled"
            PROVE  Verified(r)'
        BY <1>3, <2>1, <3>1, <3>2, <3>3, VerifiedStays DEF Evaluated
      <3>4. QED
        BY <2>0, <3>3 DEF HandlerVerified, Verified
    <2>4. ASSUME NEW r \in Requests, request'[r].status = "reconciled"
          PROVE  Verified(r)'
      <3>1. CASE request[r].status = "reconciled"
        BY <2>1, <3>1 DEF VerifiedInv
      <3>2. CASE request[r].status # "reconciled"
        <4>1. r = job[s].request
          BY <2>0, <2>4, <3>2
        <4>2. \A action \in RecoveryActions : RecoveryStatus[action] # "reconciled"
          BY StatusTypes
        <4>3. pc[s] = "resolve" => job[s].via \in RecoveryActions
          BY DEF TypeOK, ControlOK, RecoverSteps
        <4>4. pc[s] = "mark"
          BY <1>3, <2>4, <3>2, <4>1, <4>2, <4>3, StatusTypes, StatusWrites DEF InProgress
        <4>5. QED
          BY <2>1, <4>1, <4>4 DEF VerifiedInv, HandlerVerified
      <3>3. QED
        BY <3>1, <3>2
    <2>5. QED
      BY <2>2, <2>3, <2>4 DEF VerifiedInv
  <1>4. ASSUME NEW s \in Sessions, Abort(s)
        PROVE  VerifiedInv'
    BY <1>4 DEF Abort, VerifiedInv, HandlerVerified, Verified, Verifies, Evaluated,
                TypeOK, ControlOK
  <1>5. ASSUME NEW q \in Requests, RefundSettles(q)
        PROVE  VerifiedInv'
    BY <1>5 DEF RefundSettles, VerifiedInv, HandlerVerified, Verified, Verifies, Evaluated
  <1>6. QED
    BY <1>1, <1>2, <1>3, <1>4, <1>5 DEF Next

-----------------------------------------------------------------------------
(* A human outcome is decided by a human                                     *)

HumanOutcomes == {"manually_resolved", "cancelled", "reopen_for_investigation"}

RecordedBy(r) == \E i \in 1 .. Len(recoveries[r]) : recoveries[r][i].new = request[r].status

Recording(s, r) ==
    /\ pc[s] \in {"audit_resolve", "resolve_case", "store_recovery"} /\ job[s].request = r
    /\ RecoveryStatus[job[s].via] = request[r].status

HumanInv ==
    \A r \in Requests :
        request[r].status \in HumanOutcomes =>
            RecordedBy(r) \/ (\E s \in Sessions : Recording(s, r)) \/ aborts > 0

\* A handler on the way to its recovery row stays on it.
LEMMA RecordingFlow ==
  ASSUME TypeOK, NEW s \in Sessions, Step(s)
  PROVE  /\ pc[s] = "audit_resolve" => pc'[s] = "resolve_case"
         /\ pc[s] = "resolve_case" => pc'[s] = "store_recovery"
         /\ pc[s] \in {"audit_resolve", "resolve_case", "store_recovery"} => request' = request
  <1> USE DEF TypeOK, ControlOK, Move, Proceed
  <1>1. CASE ExecuteStep(s)
    BY <1>1 DEF ExecuteStep, Claim, ClaimCase, Reread, CountAttempts, CallMock, CallStripe,
        StoreAttempt, AuditAttempt, Finish, FinishCase, Recheck, Recount, Exhaust, ExhaustCase
  <1>2. CASE ReconcileStep(s)
    BY <1>2 DEF ReconcileStep, Lookup, StoreRun, AuditRun, Mark, MarkCase, AuditMark, Route,
                AuditRoute, RouteCase
  <1>3. CASE RecoverStep(s)
    BY <1>3 DEF RecoverStep, Attach, Resolve, AuditResolve, ResolveCase, StoreRecovery,
                AuditRecovery, UpdateCase, RecordEvent
  <1>4. QED
    BY <1>1, <1>2, <1>3 DEF Step

\* Recovery rows are only added, and the row stored is that of the handler's action.
LEMMA RecoveriesStay ==
  ASSUME TypeOK, NEW s \in Sessions, Step(s), NEW r \in Requests, NEW status
  PROVE  /\ (\E i \in 1 .. Len(recoveries[r]) : recoveries[r][i].new = status) =>
              \E i \in 1 .. Len(recoveries'[r]) : recoveries'[r][i].new = status
         /\ r = job[s].request /\ pc[s] = "store_recovery"
              /\ RecoveryStatus[job[s].via] = status =>
              \E i \in 1 .. Len(recoveries'[r]) : recoveries'[r][i].new = status
  <1>0. recoveries \in [Requests -> Seq(RecoveryRows)] /\ job[s] \in Jobs
    BY DEF TypeOK, TablesOK, ControlOK
  <1>1. CASE recoveries' = recoveries /\ pc[s] # "store_recovery"
    BY <1>1
  <1>2. CASE pc[s] = "store_recovery"
    <2> DEFINE row == [action |-> job[s].via, previous |-> job[s].seen.status,
                       new |-> RecoveryStatus[job[s].via]]
    <2>1. recoveries' = [recoveries EXCEPT ![job[s].request] = Append(@, row)]
      BY <1>2, HistoryGrowth
    <2>2. row \in RecoveryRows
      <3>1. job[s].via \in RecoveryActions
        BY <1>2 DEF TypeOK, ControlOK, RecoverSteps
      <3>2. QED
        BY <1>0, <3>1, StatusTypes DEF Jobs, RecoveryRows, Rows, StoredStatuses,
                                      ExecutionStatuses
    <2>3. row.new = RecoveryStatus[job[s].via]
      OBVIOUS
    <2> HIDE DEF row
    <2>4. CASE r = job[s].request
      <3>1. recoveries'[r] = Append(recoveries[r], row) /\ recoveries[r] \in Seq(RecoveryRows)
        BY <1>0, <2>1, <2>4
      <3>2. /\ \A i \in 1 .. Len(recoveries[r]) :
                 i \in 1 .. Len(recoveries'[r]) /\ recoveries'[r][i] = recoveries[r][i]
            /\ Len(recoveries[r]) + 1 \in 1 .. Len(recoveries'[r])
            /\ recoveries'[r][Len(recoveries[r]) + 1] = row
        BY <2>2, <3>1, AppendKeeps
      <3>3. QED
        BY <2>3, <3>2
    <2>5. CASE r # job[s].request
      BY <1>0, <2>1, <2>5
    <2>6. QED
      BY <2>4, <2>5
  <1>3. QED
    BY <1>1, <1>2, HistoryGrowth

LEMMA HumanStep == TypeOK /\ HumanInv /\ [Next]_vars => HumanInv'
  <1> SUFFICES ASSUME TypeOK, HumanInv, [Next]_vars
               PROVE  HumanInv'
    OBVIOUS
  <1>0. aborts \in Nat
    BY DEF TypeOK, TablesOK
  <1>1. CASE UNCHANGED vars
    BY <1>1 DEF vars, HumanInv, RecordedBy, Recording
  <1>2. ASSUME NEW s \in Sessions, BeginHandler(s)
        PROVE  HumanInv'
    <2>1. request' = request /\ recoveries' = recoveries /\ aborts' = aborts
      BY <1>2, BeginKeepsTables DEF ReadOnly
    <2>2. pc[s] = "idle" /\ \A t \in Sessions \ {s} : pc'[t] = pc[t] /\ job'[t] = job[t]
      BY <1>2, BeginGuards
    <2>3. ASSUME NEW r \in Requests, NEW t \in Sessions, Recording(t, r)
          PROVE  Recording(t, r)'
      BY <2>1, <2>2, <2>3 DEF Recording
    <2>4. QED
      BY <2>1, <2>3 DEF HumanInv, RecordedBy
  <1>3. ASSUME NEW s \in Sessions, Step(s)
        PROVE  HumanInv'
    <2>0. /\ job[s].request \in Requests
          /\ \A t \in Sessions \ {s} : pc'[t] = pc[t] /\ job'[t] = job[t]
          /\ pc'[s] # "idle" => job'[s].request = job[s].request
          /\ \A r \in Requests \ {job[s].request} : request'[r] = request[r]
      BY <1>3, OthersUntouched
    <2>1. aborts' = aborts
      BY <1>3, StepKeepsAborts
    <2> SUFFICES ASSUME NEW r \in Requests, request'[r].status \in HumanOutcomes
                 PROVE  \/ RecordedBy(r)' \/ (\E t \in Sessions : Recording(t, r)')
                        \/ aborts' > 0
      BY DEF HumanInv
    <2>2. CASE request'[r].status = request[r].status
      <3>1. CASE RecordedBy(r)
        BY <1>3, <2>2, <3>1, RecoveriesStay DEF RecordedBy
      <3>2. ASSUME NEW t \in Sessions \ {s}, Recording(t, r)
            PROVE  Recording(t, r)'
        BY <2>0, <2>2, <3>2 DEF Recording
      <3>3. CASE Recording(s, r)
        <4>1. CASE pc[s] = "store_recovery"
          BY <1>3, <2>2, <3>3, <4>1, RecoveriesStay DEF RecordedBy, Recording
        <4>2. CASE pc[s] \in {"audit_resolve", "resolve_case"}
          <5>1. pc'[s] \in {"resolve_case", "store_recovery"} /\ job'[s].via = job[s].via
            BY <1>3, <4>2, RecordingFlow, StepLocals
          <5>2. QED
            BY <2>0, <2>2, <3>3, <5>1 DEF Recording
        <4>3. QED
          BY <3>3, <4>1, <4>2 DEF Recording
      <3>4. QED
        BY <2>1, <2>2, <3>1, <3>2, <3>3 DEF HumanInv
    <2>3. CASE request'[r].status # request[r].status
      <3>1. r = job[s].request
        BY <2>0, <2>3
      <3>2. /\ pc[s] = "resolve" /\ pc'[s] = "audit_resolve"
            /\ request'[r].status = RecoveryStatus[job[s].via]
        BY <1>3, <2>3, <3>1, StatusTypes, StatusWrites DEF InProgress, HumanOutcomes
      <3>3. job'[s].via = job[s].via /\ job'[s].request = r
        BY <1>3, <2>0, <3>1, <3>2, StepLocals
      <3>4. QED
        BY <3>2, <3>3 DEF Recording
    <2>4. QED
      BY <2>2, <2>3
  <1>4. ASSUME NEW s \in Sessions, Abort(s)
        PROVE  HumanInv'
    BY <1>0, <1>4 DEF Abort, HumanInv
  <1>5. ASSUME NEW q \in Requests, RefundSettles(q)
        PROVE  HumanInv'
    BY <1>5 DEF RefundSettles, HumanInv, RecordedBy, Recording
  <1>6. QED
    BY <1>1, <1>2, <1>3, <1>4, <1>5 DEF Next

-----------------------------------------------------------------------------
(* All of it together, in a form that a system around the execution can use: *)
(* one that starts from new rows and shares the status of the case and the   *)
(* count of stops.                                                           *)

ExecutionSound ==
    /\ TypeOK /\ PendingInv /\ AttemptBudget
    /\ WaitingInv /\ EvidenceInv /\ VerifiedInv /\ HumanInv

LEMMA ExecutionSoundInit ==
  ASSUME InitRequests, caseStatus \in [Cases -> CaseStatuses]
  PROVE  ExecutionSound
  <1>1. TypeOK
    BY NoJobType
    DEF InitRequests, TypeOK, TablesOK, ControlOK, NewRow, Rows, StoredStatuses,
        ExecutionStatuses, Providers, Objects, ExecuteSteps, RecoverSteps, Events
  <1>2. PendingInv
    BY DEF InitRequests, PendingInv, ExecuteSteps
  <1>3. AttemptBudget
    <2>1. \A r \in Requests : Len(attempts[r]) = 0 /\ At(r, BeforeStore) = {}
      BY DEF InitRequests, At, BeforeStore
    <2>2. QED
      BY <2>1, SessionsAt, FS_EmptySet, RetryLimitAssumption DEF AttemptBudget
  <1>4. WaitingInv
    BY DEF InitRequests, WaitingInv, NewRow, InProgress
  <1>5. EvidenceInv
    BY DEF InitRequests, EvidenceInv, HandlerEvidence, ClosedWell, NewRow
  <1>6. VerifiedInv
    BY DEF InitRequests, VerifiedInv, HandlerVerified, NewRow
  <1>7. HumanInv
    BY DEF InitRequests, HumanInv, HumanOutcomes, NewRow
  <1>8. QED
    BY <1>1, <1>2, <1>3, <1>4, <1>5, <1>6, <1>7 DEF ExecutionSound

LEMMA ExecutionSoundStep ==
  ASSUME ExecutionSound, [Next]_vars
  PROVE  ExecutionSound'
  BY TypeStep, PendingStep, BudgetPreserved, WaitingStep, EvidenceStep, VerifiedStep, HumanStep
  DEF ExecutionSound

\* Others may change the status of a case, and may stop.
LEMMA ExecutionSoundFrame ==
  ASSUME ExecutionSound,
         UNCHANGED <<request, attempts, runs, recoveries, audit, refund, mockWrites, pc, job>>,
         (caseStatus \in [Cases -> CaseStatuses])', aborts' \in {aborts, aborts + 1}
  PROVE  ExecutionSound'
  <1>0. aborts \in Nat /\ aborts' \in Nat /\ (aborts > 0 => aborts' > 0)
    BY DEF ExecutionSound, TypeOK, TablesOK
  <1>1. TypeOK'
    BY <1>0 DEF ExecutionSound, TypeOK, TablesOK, ControlOK
  <1>2. PendingInv' /\ AttemptBudget'
    BY DEF ExecutionSound, PendingInv, AttemptBudget, At
  <1>3. WaitingInv'
    BY <1>0 DEF ExecutionSound, WaitingInv, WorkedOn
  <1>4. EvidenceInv'
    BY DEF ExecutionSound, EvidenceInv, HandlerEvidence, Evidence, HasSuccess
  <1>5. VerifiedInv'
    BY DEF ExecutionSound, VerifiedInv, HandlerVerified, Verified, Evaluated
  <1>6. HumanInv'
    <2>1. \A r \in Requests : RecordedBy(r) => RecordedBy(r)'
      BY DEF RecordedBy
    <2>2. \A r \in Requests, s \in Sessions : Recording(s, r) => Recording(s, r)'
      BY DEF Recording
    <2>3. QED
      BY <1>0, <2>1, <2>2 DEF ExecutionSound, HumanInv
  <1>7. QED
    BY <1>1, <1>2, <1>3, <1>4, <1>5, <1>6 DEF ExecutionSound

LEMMA ExecutionSoundMeans ==
  ExecutionSound =>
    /\ SuccessIsRecorded /\ ReconciledIsVerified /\ HumanOutcomeIsHuman
    /\ PendingIsUntouched /\ WaitingIsJustified /\ AttemptBudget
  <1>1. EvidenceInv => SuccessIsRecorded
    BY DEF EvidenceInv, Evidence, ClosedWell, SuccessIsRecorded
  <1>2. VerifiedInv => ReconciledIsVerified
    BY DEF VerifiedInv, Verified, Verifies, ReconciledIsVerified
  <1>3. HumanInv => HumanOutcomeIsHuman
    BY DEF HumanInv, HumanOutcomes, RecordedBy, Recording, HumanOutcomeIsHuman, At
  <1>4. PendingInv => PendingIsUntouched
    BY DEF PendingInv, PendingIsUntouched
  <1>5. WaitingInv => WaitingIsJustified
    <2>1. \A status : Guidance(status) = "wait" => status \in InProgress
      BY DEF Guidance
    <2>2. QED
      BY <2>1 DEF WaitingInv, WorkedOn, WaitingIsJustified, At, Working
  <1>6. QED
    BY <1>1, <1>2, <1>3, <1>4, <1>5 DEF ExecutionSound

\* In every reachable state, whatever sessions interleave and wherever handlers stop.
THEOREM ExecutionIsSound == Spec => []ExecutionSound
  <1>1. Init => ExecutionSound
    <2>1. Init => caseStatus \in [Cases -> CaseStatuses]
      BY DEF Init, CaseStatuses
    <2>2. QED
      BY <2>1, ExecutionSoundInit DEF Init
  <1>2. QED
    BY <1>1, ExecutionSoundStep, PTL DEF Spec

\* Whoever is told to wait waits for a handler that is at work on the request, or one
\* has stopped midway.
THEOREM WaitingTheorem == Spec => []WaitingIsJustified
  BY ExecutionIsSound, ExecutionSoundMeans, PTL

\* A request only ever reads succeeded or reconciled with the success in its history
\* and an object id in its row.
THEOREM SuccessTheorem == Spec => []SuccessIsRecorded
  BY ExecutionIsSound, ExecutionSoundMeans, PTL

\* A request only becomes reconciled on the strength of a stored run that read it as
\* succeeded and heard the same from the provider.
THEOREM VerifiedTheorem == Spec => []ReconciledIsVerified
  BY ExecutionIsSound, ExecutionSoundMeans, PTL

\* Manually resolved, cancelled and reopened are decisions of an operator.
THEOREM HumanTheorem == Spec => []HumanOutcomeIsHuman
  BY ExecutionIsSound, ExecutionSoundMeans, PTL

-----------------------------------------------------------------------------
(* What execution writes to the status of a case: never a decision, and never *)
(* that an execution is pending.                                              *)

ExecutionOutcomes ==
    { "processing", "retrying", "succeeded", "failed", "needs_manual_review", "reconciled",
      "manually_resolved", "cancelled", "under_review" }

LEMMA CaseWritten ==
  ASSUME TypeOK, [Next]_vars, NEW c \in Cases
  PROVE  caseStatus'[c] = caseStatus[c] \/ caseStatus'[c] \in ExecutionOutcomes
  <1>1. ASSUME NEW r, NEW status \in ExecutionOutcomes, UpdateCase(r, status)
        PROVE  caseStatus'[c] = caseStatus[c] \/ caseStatus'[c] \in ExecutionOutcomes
    BY <1>1 DEF UpdateCase, TypeOK, TablesOK
  <1>2. ASSUME NEW s \in Sessions, Step(s), caseStatus' # caseStatus
        PROVE  \E r, status : status \in ExecutionOutcomes /\ UpdateCase(r, status)
    <2>1. CASE ClaimCase(s)
      BY <2>1 DEF ClaimCase, ExecutionOutcomes
    <2>2. CASE FinishCase(s)
      BY <2>2 DEF FinishCase, CaseStatusOf, ExecutionOutcomes
    <2>3. CASE ExhaustCase(s) \/ MarkCase(s) \/ RouteCase(s)
      BY <2>3 DEF ExhaustCase, MarkCase, RouteCase, ExecutionOutcomes
    <2>4. CASE ResolveCase(s)
      <3>1. job[s].via \in RecoveryActions
        BY <2>4 DEF ResolveCase, Proceed, Move, TypeOK, ControlOK, RecoverSteps
      <3>2. RecoveryCaseStatus[job[s].via] \in ExecutionOutcomes
        BY <3>1 DEF RecoveryActions, RecoveryCaseStatus, ExecutionOutcomes
      <3>3. UpdateCase(job[s].request, RecoveryCaseStatus[job[s].via])
        BY <2>4 DEF ResolveCase
      <3>4. QED
        BY <3>2, <3>3
    <2>5. CASE ~ClaimCase(s) /\ ~FinishCase(s) /\ ~ExhaustCase(s) /\ ~MarkCase(s)
                 /\ ~RouteCase(s) /\ ~ResolveCase(s)
      BY <1>2, <2>5
      DEF Step, ExecuteStep, ReconcileStep, RecoverStep, Claim, Reread, CountAttempts,
          CallMock, CallStripe, StoreAttempt, AuditAttempt, Finish, Recheck, Recount, Exhaust,
          Lookup, StoreRun, AuditRun, Mark, AuditMark, Route, AuditRoute, Attach, Resolve,
          AuditResolve, StoreRecovery, AuditRecovery, UpdateRequest, RecordEvent, ReadOnly
    <2>6. QED
      BY <2>1, <2>2, <2>3, <2>4, <2>5
  <1>3. CASE \E s \in Sessions : Step(s)
    BY <1>1, <1>2, <1>3
  <1>4. CASE \E s \in Sessions : BeginHandler(s)
    BY <1>4, BeginKeepsTables DEF ReadOnly
  <1>5. CASE \/ \E s \in Sessions : Abort(s)
             \/ \E r \in Requests : RefundSettles(r)
             \/ UNCHANGED vars
    BY <1>5 DEF Abort, RefundSettles, vars
  <1>6. QED
    BY <1>3, <1>4, <1>5 DEF Next


\* A handler stops one at a time.
LEMMA StopsCounted ==
  ASSUME TypeOK, Next
  PROVE  aborts' \in {aborts, aborts + 1}
  <1>1. ASSUME NEW s \in Sessions, Step(s)
        PROVE  aborts' = aborts
    BY <1>1, StepKeepsAborts
  <1>2. ASSUME NEW s \in Sessions, BeginHandler(s)
        PROVE  aborts' = aborts
    BY <1>2, BeginKeepsTables DEF ReadOnly
  <1>3. QED
    BY <1>1, <1>2 DEF Next, Abort, RefundSettles
=============================================================================
