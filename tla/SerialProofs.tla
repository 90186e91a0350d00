---------------------------- MODULE SerialProofs ----------------------------
(***************************************************************************)
(* What holds of every behaviour in which no two handlers work on the same *)
(* request at once, proved for every number of sessions, requests,         *)
(* attempts, runs, recoveries and stops: the handlers implement the        *)
(* lifecycle, only a transient failure is tried again, attempts are        *)
(* numbered in order, and reconciled is final.  What a handler has read is *)
(* then still so when it writes, whatever other sessions do elsewhere.     *)
(***************************************************************************)
EXTENDS TrailProofs, SequenceTheorems

\* Nothing in the code keeps two sessions off the same request, and the DoubleClick run
\* shows what happens then.  This is what an operator has to see to: handlers overlap as
\* they like, but not two of them on one request.
SerialHandlers ==
    \A s, t \in Sessions :
        pc[s] # "idle" /\ pc[t] # "idle" /\ job[s].request = job[t].request => s = t

\* One session alone is always serial.
OneSessionAtATime == \A s, t \in Sessions : s = t

LEMMA OneSessionIsSerial == OneSessionAtATime => SerialHandlers
  BY DEF OneSessionAtATime, SerialHandlers

\* While a handler takes a step, the others stay where they are, and so does all they
\* work on.
LEMMA Apart ==
  ASSUME SerialHandlers, TypeOK, NEW s \in Sessions, Step(s), NEW t \in Sessions \ {s}
  PROVE  /\ pc'[t] = pc[t] /\ job'[t] = job[t]
         /\ pc[t] # "idle" =>
              /\ job[t].request \in Requests \ {job[s].request}
              /\ request'[job[t].request] = request[job[t].request]
              /\ attempts'[job[t].request] = attempts[job[t].request]
              /\ runs'[job[t].request] = runs[job[t].request]
              /\ mockWrites'[job[t].request] = mockWrites[job[t].request]
  <1>1. /\ pc[s] # "idle" /\ pc'[t] = pc[t] /\ job'[t] = job[t]
    BY OthersUntouched
  <1>2. pc[t] # "idle" => job[t].request \in Requests \ {job[s].request}
    BY <1>1 DEF SerialHandlers, TypeOK, ControlOK
  <1>3. QED
    BY <1>1, <1>2, OthersUntouched

\* Nobody else is at a step of a handler on the request that a handler works on.
LEMMA AloneAt ==
  ASSUME SerialHandlers, NEW s \in Sessions, pc[s] # "idle", NEW steps, "idle" \notin steps
  PROVE  At(job[s].request, steps) = IF pc[s] \in steps THEN {s} ELSE {}
  BY DEF SerialHandlers, At

-----------------------------------------------------------------------------
(* What the step at each place writes, and where it leads                    *)

\* The status and the attempts of the request a handler works on.
LEMMA StatusMoves ==
  ASSUME TypeOK, NEW s \in Sessions, Step(s), NEW r, r = job[s].request
  PROVE  /\ pc[s] = "claim" =>
              request'[r].status = IF job[s].via = "retry" THEN "retrying" ELSE "processing"
         /\ pc[s] = "finish" => request'[r].status = ExecutionStatusOf(job[s].reply)
         /\ pc[s] \in {"exhaust", "route"} => request'[r].status = "needs_manual_review"
         /\ pc[s] = "mark" => request'[r].status = "reconciled"
         /\ pc[s] = "resolve" => request'[r].status = RecoveryStatus[job[s].via]
         /\ pc[s] \notin {"claim", "finish", "exhaust", "route", "mark", "resolve"} =>
              request'[r].status = request[r].status
  <1>0. r \in Requests /\ request \in [Requests -> Rows]
    BY OthersUntouched DEF TypeOK, TablesOK
  <1>1. ASSUME NEW row, UpdateRequest(r, row)
        PROVE  request'[r] = row
    BY <1>0, <1>1 DEF UpdateRequest
  <1>2. ASSUME NEW here, NEW there, Proceed(s, here, there)
        PROVE  pc[s] = here
    BY <1>2 DEF Proceed, Move
  <1>3. CASE Claim(s)
    <2>1. UpdateRequest(r,
            [request[r] EXCEPT
              !.status = IF job[s].via = "retry" THEN "retrying" ELSE "processing",
              !.provider = IF job[s].via = "stripe" THEN "stripe_test_mode"
                           ELSE request[r].provider])
      BY <1>3 DEF Claim
    <2>2. request'[r] =
            [request[r] EXCEPT
              !.status = IF job[s].via = "retry" THEN "retrying" ELSE "processing",
              !.provider = IF job[s].via = "stripe" THEN "stripe_test_mode"
                           ELSE request[r].provider]
      BY <1>1, <2>1
    <2>3. request'[r].status = IF job[s].via = "retry" THEN "retrying" ELSE "processing"
      BY <1>0, <2>2 DEF Rows
    <2>4. QED
      BY <1>2, <1>3, <2>3 DEF Claim
  <1>4. CASE Finish(s)
    <2>1. pc[s] = "finish"
      BY <1>2, <1>4 DEF Finish
    <2>2. QED
      BY <1>4, <2>1, FinishWrites
  <1>5. CASE Exhaust(s) \/ Route(s)
    BY <1>0, <1>1, <1>2, <1>5 DEF Exhaust, Route, Rows
  <1>6. CASE Mark(s)
    BY <1>0, <1>1, <1>2, <1>6 DEF Mark, Rows
  <1>7. CASE Attach(s)
    BY <1>0, <1>1, <1>2, <1>7 DEF Attach, Rows
  <1>8. CASE Resolve(s)
    BY <1>0, <1>1, <1>2, <1>8 DEF Resolve, Rows
  <1>9. CASE ExecuteStep(s) /\ ~Claim(s) /\ ~Finish(s) /\ ~Exhaust(s)
    BY <1>9 DEF ExecuteStep, ClaimCase, Reread, CountAttempts, CallMock, CallStripe,
        StoreAttempt, AuditAttempt, FinishCase, Recheck, Recount, ExhaustCase,
        ReadOnly, UpdateCase, RecordEvent, Proceed, Move
  <1>10. CASE ReconcileStep(s) /\ ~Mark(s) /\ ~Route(s)
    BY <1>10 DEF ReconcileStep, Lookup, StoreRun, AuditRun, MarkCase, AuditMark, AuditRoute,
        RouteCase, ReadOnly, UpdateCase, RecordEvent, Proceed, Move
  <1>11. CASE RecoverStep(s) /\ ~Attach(s) /\ ~Resolve(s)
    BY <1>11 DEF RecoverStep, AuditResolve, ResolveCase, StoreRecovery, AuditRecovery,
        UpdateCase, RecordEvent, Proceed, Move
  <1>12. QED
    BY <1>3, <1>4, <1>5, <1>6, <1>7, <1>8, <1>9, <1>10, <1>11 DEF Step

\* Where a step leads, and what it has read on the way.
LEMMA Moves ==
  ASSUME TypeOK, NEW s \in Sessions, Step(s)
  PROVE  /\ pc[s] = "claim" => pc'[s] = "claim_case"
         /\ pc[s] \in BeforeStore \ {"claim", "store"} => pc'[s] \in BeforeStore \ {"claim"}
         /\ pc[s] = "call" => pc'[s] = "store"
         /\ pc[s] = "store" => pc'[s] = "audit_attempt"
         /\ pc[s] = "audit_attempt" => pc'[s] = "finish"
         /\ pc[s] = "finish" => pc'[s] = "finish_case"
         /\ pc[s] \notin BeforeStore \cup {"audit_attempt", "finish"} =>
              pc'[s] \notin BeforeStore \cup {"audit_attempt", "finish"}
         /\ pc'[s] = "call" => job'[s].number = Len(attempts[job[s].request]) + 1
         /\ pc'[s] = "store" => pc[s] = "call" /\ job'[s].number = job[s].number
         /\ pc'[s] = "recount" =>
              pc[s] = "recheck" /\ job'[s].seen = request[job[s].request]
         /\ pc'[s] = "exhaust" => pc[s] = "recount" /\ Exhausted(s)
         /\ pc'[s] = "route" => pc[s] = "audit_run" /\ Evaluated(s).action = "route_manual_review"
         /\ pc'[s] # "attach" /\ (pc'[s] = "resolve" => pc[s] = "attach")
  <1> USE DEF TypeOK, ControlOK, Move, Proceed, BeforeStore, Jobs
  <1>1. CASE Claim(s) \/ ClaimCase(s) \/ Reread(s)
    BY <1>1 DEF Claim, ClaimCase, Reread
  <1>2. CASE CountAttempts(s)
    BY <1>2 DEF CountAttempts
  <1>3. CASE CallMock(s) \/ CallStripe(s)
    BY <1>3 DEF CallMock, CallStripe
  <1>4. CASE StoreAttempt(s) \/ AuditAttempt(s) \/ Finish(s) \/ FinishCase(s)
    BY <1>4 DEF StoreAttempt, AuditAttempt, Finish, FinishCase
  <1>5. CASE Recheck(s) \/ Recount(s)
    BY <1>5 DEF Recheck, Recount
  <1>6. CASE Exhaust(s) \/ ExhaustCase(s)
    BY <1>6 DEF Exhaust, ExhaustCase
  <1>7. CASE Lookup(s) \/ StoreRun(s) \/ AuditRun(s)
    BY <1>7 DEF Lookup, StoreRun, AuditRun
  <1>8. CASE ReconcileStep(s) /\ ~Lookup(s) /\ ~StoreRun(s) /\ ~AuditRun(s)
    BY <1>8 DEF ReconcileStep, Mark, MarkCase, AuditMark, Route, AuditRoute, RouteCase
  <1>9. CASE RecoverStep(s)
    BY <1>9 DEF RecoverStep, Attach, Resolve, AuditResolve, ResolveCase, StoreRecovery,
                AuditRecovery
  <1>10. QED
    BY <1>1, <1>2, <1>3, <1>4, <1>5, <1>6, <1>7, <1>8, <1>9 DEF Step, ExecuteStep

-----------------------------------------------------------------------------
(* What a handler has read is still so                                       *)

Transient(attempt) == attempt.provider_status = "failed" /\ attempt.error_type = "transient"

LastAttempt(r) == attempts[r][Len(attempts[r])]

\* Only a transient failure that is the last of the history is shown as one.
FailureIsLast ==
    \A r \in Requests : request[r].status = "failed_transient" =>
        attempts[r] # <<>> /\ Transient(LastAttempt(r))

\* On the way to the provider: it may be called, and what it may be called for.
MayCall(s) ==
    LET r == job[s].request
    IN  /\ pc[s] = "claim" =>
             \/ job[s].via # "retry" /\ request[r].status = "execution_pending"
             \/ job[s].via = "retry" /\ Retryable(request[r].status, Len(attempts[r]))
        /\ pc[s] \in BeforeStore \ {"claim"} =>
             \A i \in 1 .. Len(attempts[r]) : Transient(attempts[r][i])
        /\ pc[s] \in {"call", "store"} => job[s].number = Len(attempts[r]) + 1
        /\ pc[s] \in Working => request[r].status \in InProgress

\* On the way back: the last attempt is the one to be published.
MayPublish(s) ==
    LET r == job[s].request
    IN  /\ pc[s] \in {"audit_attempt", "finish"} =>
             /\ attempts[r] # <<>>
             /\ LastAttempt(r).provider_status = job[s].reply.provider_status
             /\ LastAttempt(r).error_type = job[s].reply.error_type
        /\ pc[s] = "recount" => job[s].seen.status = request[r].status
        /\ pc[s] = "exhaust" =>
             /\ request[r].status = "failed_transient"
             /\ Len(attempts[r]) >= MAX_RETRY_ATTEMPTS

\* In reconciliation and recovery: the status still is the one that was decided on.
MayDecide(s) ==
    LET r == job[s].request
    IN  /\ pc[s] \in {"lookup", "store_run", "audit_run"} =>
             job[s].seen.status = request[r].status
        /\ pc[s] = "mark" => request[r].status = "succeeded"
        /\ pc[s] = "route" => request[r].status # "reconciled"
        /\ pc[s] \in {"attach", "resolve"} => request[r].status \in RecoveryEligible

SoloInv ==
    /\ FailureIsLast /\ OnlyTransientIsRetried /\ AttemptsAreNumbered
    /\ \A s \in Sessions : MayCall(s) /\ MayPublish(s) /\ MayDecide(s)

LEMMA TransientStatus ==
  /\ \A reply : ExecutionStatusOf(reply) = "failed_transient" <=> Transient(reply)
  /\ \A reply, other : (reply.provider_status = other.provider_status
                        /\ reply.error_type = other.error_type) =>
       ExecutionStatusOf(reply) = ExecutionStatusOf(other)
  BY DEF ExecutionStatusOf, Transient

LEMMA RouteVerdict ==
  ASSUME NEW internal, NEW provider,
         EvaluateReconciliation(internal, provider).action = "route_manual_review"
  PROVE  internal # "reconciled"
  BY DEF EvaluateReconciliation, Verdict

\* A handler that is not at work on the request: its history stays as it is.
LEMMA SoloHistory ==
  ASSUME TypeOK, SoloInv, NEW s \in Sessions, Step(s)
  PROVE  OnlyTransientIsRetried' /\ AttemptsAreNumbered'
  <1> DEFINE q == job[s].request
  <1>1. CASE pc[s] # "store"
    BY <1>1, AttemptMoves DEF SoloInv, OnlyTransientIsRetried, AttemptsAreNumbered
  <1>2. CASE pc[s] = "store"
    <2>1. \A r \in Requests \ {q} : attempts'[r] = attempts[r]
      BY OthersUntouched
    <2>2. /\ Len(attempts[q]) \in Nat /\ Len(attempts'[q]) = Len(attempts[q]) + 1
          /\ \A i \in 1 .. Len(attempts[q]) : attempts'[q][i] = attempts[q][i]
          /\ attempts'[q][Len(attempts[q]) + 1] = AttemptOf(s)
      BY <1>2, AfterStore
    <2>3. /\ \A i \in 1 .. Len(attempts[q]) : Transient(attempts[q][i])
          /\ AttemptOf(s).number = Len(attempts[q]) + 1
      BY <1>2 DEF SoloInv, MayCall, BeforeStore, AttemptOf
    <2>4. ASSUME NEW r \in Requests, NEW i \in 1 .. Len(attempts'[r]) - 1
          PROVE  Transient(attempts'[r][i])
      <3>1. CASE r = q
        BY <2>2, <2>3, <2>4, <3>1
      <3>2. CASE r # q
        BY <2>1, <2>4, <3>2 DEF SoloInv, OnlyTransientIsRetried, Transient
      <3>3. QED
        BY <3>1, <3>2
    <2>5. ASSUME NEW r \in Requests, NEW i \in 1 .. Len(attempts'[r])
          PROVE  attempts'[r][i].number = i
      <3>1. CASE r = q /\ i = Len(attempts[q]) + 1
        BY <2>2, <2>3, <3>1
      <3>2. CASE r = q /\ i # Len(attempts[q]) + 1
        <4>1. i \in 1 .. Len(attempts[q]) /\ q \in Requests
          BY <2>2, <2>5, <3>2
        <4>2. QED
          BY <2>2, <3>2, <4>1 DEF SoloInv, AttemptsAreNumbered
      <3>3. CASE r # q
        BY <2>1, <2>5, <3>3 DEF SoloInv, AttemptsAreNumbered
      <3>4. QED
        BY <3>1, <3>2, <3>3
    <2>6. QED
      BY <2>4, <2>5 DEF OnlyTransientIsRetried, AttemptsAreNumbered, Transient
  <1>3. QED
    BY <1>1, <1>2

LEMMA SoloFailure ==
  ASSUME TypeOK, SoloInv, NEW s \in Sessions, Step(s)
  PROVE  FailureIsLast'
  <1> DEFINE q == job[s].request
  <1>0. /\ q \in Requests
        /\ \A r \in Requests \ {q} : request'[r] = request[r] /\ attempts'[r] = attempts[r]
    BY OthersUntouched
  <1>1. ASSUME NEW r \in Requests, request'[r].status = "failed_transient"
        PROVE  attempts'[r] # <<>> /\ Transient(attempts'[r][Len(attempts'[r])])
    <2>1. CASE r # q
      BY <1>0, <1>1, <2>1 DEF SoloInv, FailureIsLast, LastAttempt
    <2>2. CASE r = q /\ pc[s] = "finish"
      <3>1. ExecutionStatusOf(job[s].reply) = "failed_transient"
        BY <1>1, <2>2, StatusMoves
      <3>2. attempts' = attempts
        BY <2>2, AttemptMoves
      <3>3. QED
        BY <2>2, <3>1, <3>2, TransientStatus DEF SoloInv, MayPublish, LastAttempt, Transient
    <2>3. CASE r = q /\ pc[s] # "finish"
      <3>1. pc[s] = "resolve" => job[s].via \in RecoveryActions
        BY DEF TypeOK, ControlOK, RecoverSteps
      <3>2. request[r].status = "failed_transient"
            /\ pc[s] \notin {"claim", "exhaust", "route", "mark", "resolve"}
        BY <1>1, <2>3, <3>1, StatusMoves, StatusTypes
      <3>3. pc[s] # "store"
        BY <2>3, <3>2 DEF SoloInv, MayCall, Working, ExecuteSteps, InProgress
      <3>4. QED
        BY <3>2, <3>3, AttemptMoves DEF SoloInv, FailureIsLast, LastAttempt
    <2>4. QED
      BY <2>1, <2>2, <2>3
  <1>2. QED
    BY <1>1 DEF FailureIsLast, LastAttempt

LEMMA SoloMayCall ==
  ASSUME TypeOK, PendingInv, SoloInv, NEW s \in Sessions, Step(s)
  PROVE  MayCall(s)'
  <1> DEFINE q == job[s].request
  <1>0. q \in Requests /\ (pc'[s] # "idle" => job'[s].request = q)
    BY OthersUntouched
  <1>1. CASE pc[s] = "claim"
    <2>1. /\ pc'[s] = "claim_case" /\ attempts' = attempts
          /\ request'[q].status \in InProgress
      BY <1>1, Moves, AttemptMoves, StatusMoves DEF InProgress
    <2>2. \A i \in 1 .. Len(attempts[q]) : Transient(attempts[q][i])
      <3>1. CASE request[q].status = "execution_pending"
        <4>1. attempts[q] = <<>>
          BY <1>0, <3>1 DEF PendingInv
        <4>2. QED
          BY <4>1
      <3>2. CASE request[q].status = "failed_transient"
        <4>1. Transient(attempts[q][Len(attempts[q])])
          BY <1>0, <3>2 DEF SoloInv, FailureIsLast, LastAttempt
        <4>2. \A i \in 1 .. Len(attempts[q]) - 1 : Transient(attempts[q][i])
          BY <1>0 DEF SoloInv, OnlyTransientIsRetried, Transient
        <4>3. Len(attempts[q]) \in Nat
          BY <1>0 DEF TypeOK, TablesOK
        <4>4. QED
          BY <4>1, <4>2, <4>3
      <3>3. QED
        BY <1>1, <3>1, <3>2 DEF SoloInv, MayCall, Retryable
    <2>3. QED
      BY <1>0, <2>1, <2>2 DEF MayCall, BeforeStore, Transient
  <1>2. CASE pc[s] \in BeforeStore \ {"claim", "store"}
    <2>1. /\ pc'[s] \in BeforeStore \ {"claim"} /\ attempts' = attempts
          /\ request'[q].status = request[q].status
      BY <1>2, Moves, AttemptMoves, StatusMoves DEF BeforeStore
    <2>2. /\ \A i \in 1 .. Len(attempts[q]) : Transient(attempts[q][i])
          /\ request[q].status \in InProgress
      BY <1>2 DEF SoloInv, MayCall, BeforeStore, Working, ExecuteSteps
    <2>3. pc'[s] \in {"call", "store"} => job'[s].number = Len(attempts[q]) + 1
      BY Moves DEF SoloInv, MayCall
    <2>4. QED
      BY <1>0, <2>1, <2>2, <2>3 DEF MayCall, BeforeStore, Transient
  <1>3. CASE pc[s] \in {"store", "audit_attempt"}
    <2>1. pc'[s] \in {"audit_attempt", "finish"} /\ request'[q].status = request[q].status
      BY <1>3, Moves, StatusMoves
    <2>2. request[q].status \in InProgress
      BY <1>3 DEF SoloInv, MayCall, Working, ExecuteSteps
    <2>3. QED
      BY <1>0, <2>1, <2>2 DEF MayCall, BeforeStore
  <1>4. CASE pc[s] \notin BeforeStore \cup {"audit_attempt"}
    <2>1. pc'[s] \notin BeforeStore \cup {"audit_attempt", "finish"}
      BY <1>4, Moves DEF BeforeStore
    <2>2. QED
      BY <2>1 DEF MayCall, BeforeStore, Working, ExecuteSteps
  <1>5. QED
    BY <1>1, <1>2, <1>3, <1>4

LEMMA SoloMayPublish ==
  ASSUME TypeOK, SoloInv, NEW s \in Sessions, Step(s)
  PROVE  MayPublish(s)'
  <1> DEFINE q == job[s].request
  <1>0. q \in Requests /\ (pc'[s] # "idle" => job'[s].request = q)
    BY OthersUntouched
  <1>1. ASSUME pc'[s] \in {"audit_attempt", "finish"}
        PROVE  /\ attempts'[q] # <<>>
               /\ attempts'[q][Len(attempts'[q])].provider_status = job'[s].reply.provider_status
               /\ attempts'[q][Len(attempts'[q])].error_type = job'[s].reply.error_type
    <2>1. pc[s] = "store" \/ pc[s] = "audit_attempt"
      BY <1>1, Flow
    <2>2. job'[s].reply = job[s].reply
      BY <1>1, <2>1, StepLocals
    <2>3. CASE pc[s] = "store"
      <3>1. /\ Len(attempts'[q]) = Len(attempts[q]) + 1 /\ attempts'[q] # <<>>
            /\ attempts'[q][Len(attempts[q]) + 1] = AttemptOf(s)
        BY <2>3, AfterStore
      <3>2. attempts'[q][Len(attempts'[q])] = AttemptOf(s)
        BY <3>1
      <3>3. QED
        BY <2>2, <3>1, <3>2 DEF AttemptOf
    <2>4. CASE pc[s] = "audit_attempt"
      BY <2>2, <2>4, AttemptMoves DEF SoloInv, MayPublish, LastAttempt
    <2>5. QED
      BY <2>1, <2>3, <2>4
  <1>2. ASSUME pc'[s] = "recount"
        PROVE  job'[s].seen.status = request'[q].status
    <2>1. pc[s] = "recheck" /\ job'[s].seen = request[q]
      BY <1>2, Moves
    <2>2. QED
      BY <2>1, StatusMoves
  <1>3. ASSUME pc'[s] = "exhaust"
        PROVE  /\ request'[q].status = "failed_transient"
               /\ Len(attempts'[q]) >= MAX_RETRY_ATTEMPTS
    <2>1. pc[s] = "recount" /\ Exhausted(s)
      BY <1>3, Moves
    <2>2. request'[q].status = request[q].status /\ attempts' = attempts
      BY <2>1, StatusMoves, AttemptMoves
    <2>3. QED
      BY <2>1, <2>2 DEF SoloInv, MayPublish, Exhausted
  <1>4. QED
    BY <1>0, <1>1, <1>2, <1>3 DEF MayPublish, LastAttempt

LEMMA SoloMayDecide ==
  ASSUME TypeOK, SoloInv, NEW s \in Sessions, Step(s)
  PROVE  MayDecide(s)'
  <1> DEFINE q == job[s].request
  <1>0. q \in Requests /\ (pc'[s] # "idle" => job'[s].request = q)
    BY OthersUntouched
  <1>1. ASSUME pc'[s] \in {"lookup", "store_run", "audit_run"}
        PROVE  job'[s].seen.status = request'[q].status
    <2>1. pc[s] \in {"lookup", "store_run"}
      BY <1>1, Flow
    <2>2. job'[s].seen = job[s].seen /\ request'[q].status = request[q].status
      BY <1>1, <2>1, StepLocals, StatusMoves
    <2>3. QED
      BY <2>1, <2>2 DEF SoloInv, MayDecide
  <1>2. ASSUME pc'[s] \in {"mark", "route"}
        PROVE  /\ pc'[s] = "mark" => request'[q].status = "succeeded"
               /\ pc'[s] = "route" => request'[q].status # "reconciled"
    <2>1. /\ pc[s] = "audit_run"
          /\ pc'[s] = "mark" => Evaluated(s).action = "mark_reconciled"
          /\ pc'[s] = "route" => Evaluated(s).action = "route_manual_review"
      BY <1>2, Flow, Moves
    <2>2. request'[q].status = request[q].status /\ job[s].seen.status = request[q].status
      BY <2>1, StatusMoves DEF SoloInv, MayDecide
    <2>3. QED
      BY <2>1, <2>2, MarkVerdict, RouteVerdict DEF Evaluated
  <1>3. ASSUME pc'[s] \in {"attach", "resolve"}
        PROVE  request'[q].status \in RecoveryEligible
    <2>1. pc[s] = "attach"
      BY <1>3, Moves
    <2>2. QED
      BY <2>1, StatusMoves DEF SoloInv, MayDecide
  <1>4. QED
    BY <1>0, <1>1, <1>2, <1>3 DEF MayDecide

\* What a handler is at only depends on its own locals and its request.
LEMMA SoloUnmoved ==
  ASSUME SoloInv, UNCHANGED <<request, attempts, pc, job>>
  PROVE  SoloInv'
  <1>1. FailureIsLast' /\ OnlyTransientIsRetried' /\ AttemptsAreNumbered'
    BY DEF SoloInv, FailureIsLast, OnlyTransientIsRetried, AttemptsAreNumbered, LastAttempt
  <1>2. \A s \in Sessions : MayCall(s)'
    BY DEF SoloInv, MayCall
  <1>3. \A s \in Sessions : MayPublish(s)'
    BY DEF SoloInv, MayPublish, LastAttempt
  <1>4. \A s \in Sessions : MayDecide(s)'
    BY DEF SoloInv, MayDecide
  <1>5. QED
    BY <1>1, <1>2, <1>3, <1>4 DEF SoloInv

\* A handler whose locals and request are left alone.
LEMMA SoloElsewhere ==
  ASSUME NEW t \in Sessions, MayCall(t), MayPublish(t), MayDecide(t),
         pc'[t] = pc[t], job'[t] = job[t],
         pc[t] # "idle" =>
           /\ request'[job[t].request] = request[job[t].request]
           /\ attempts'[job[t].request] = attempts[job[t].request]
  PROVE  MayCall(t)' /\ MayPublish(t)' /\ MayDecide(t)'
  <1>1. MayCall(t)'
    BY DEF MayCall, BeforeStore, Working, ExecuteSteps
  <1>2. MayPublish(t)'
    BY DEF MayPublish, LastAttempt
  <1>3. MayDecide(t)'
    BY DEF MayDecide
  <1>4. QED
    BY <1>1, <1>2, <1>3

LEMMA SoloInvStep ==
  ASSUME SerialHandlers, TypeOK, PendingInv, SoloInv, [Next]_vars
  PROVE  SoloInv'
  <1>1. CASE UNCHANGED vars
    BY <1>1, SoloUnmoved DEF vars
  <1>2. ASSUME NEW r \in Requests, RefundSettles(r)
        PROVE  SoloInv'
    BY <1>2, SoloUnmoved DEF RefundSettles
  <1>3. ASSUME NEW s \in Sessions, Step(s)
        PROVE  SoloInv'
    <2>1. FailureIsLast' /\ OnlyTransientIsRetried' /\ AttemptsAreNumbered'
      BY <1>3, SoloHistory, SoloFailure
    <2>2. MayCall(s)' /\ MayPublish(s)' /\ MayDecide(s)'
      BY <1>3, SoloMayCall, SoloMayPublish, SoloMayDecide
    <2>3. ASSUME NEW t \in Sessions \ {s}
          PROVE  MayCall(t)' /\ MayPublish(t)' /\ MayDecide(t)'
      <3>1. /\ pc'[t] = pc[t] /\ job'[t] = job[t]
            /\ pc[t] # "idle" =>
                 /\ request'[job[t].request] = request[job[t].request]
                 /\ attempts'[job[t].request] = attempts[job[t].request]
        BY <1>3, Apart
      <3>2. QED
        BY <3>1, SoloElsewhere DEF SoloInv
    <2>4. QED
      BY <2>1, <2>2, <2>3 DEF SoloInv
  <1>4. ASSUME NEW s \in Sessions, BeginHandler(s) \/ Abort(s)
        PROVE  SoloInv'
    <2>1. request' = request /\ attempts' = attempts
      BY <1>4, BeginKeepsTables DEF ReadOnly, Abort
    <2>2. FailureIsLast' /\ OnlyTransientIsRetried' /\ AttemptsAreNumbered'
      BY <2>1
      DEF SoloInv, FailureIsLast, OnlyTransientIsRetried, AttemptsAreNumbered, LastAttempt
    <2>0. ASSUME NEW t \in Sessions \ {s}
          PROVE  MayCall(t)' /\ MayPublish(t)' /\ MayDecide(t)'
      <3>1. pc'[t] = pc[t] /\ job'[t] = job[t]
        BY <1>4, BeginGuards DEF Abort, TypeOK, ControlOK
      <3>2. QED
        BY <2>1, <3>1, SoloElsewhere DEF SoloInv
    <2>3. CASE BeginHandler(s)
      <3>1. PICK r \in Requests :
              /\ job'[s].request = r
              /\ \/ /\ pc'[s] = "claim" /\ job'[s].via \in {"mock", "stripe"}
                    /\ request[r].status = "execution_pending"
                 \/ /\ pc'[s] = "claim" /\ job'[s].via = "retry"
                    /\ Retryable(request[r].status, Len(attempts[r]))
                 \/ /\ pc'[s] = "lookup" /\ job'[s].seen = request[r]
                 \/ /\ pc'[s] \in {"attach", "resolve"} /\ job'[s].seen = request[r]
                    /\ request[r].status \in RecoveryEligible
        BY <2>3, BeginGuards
      <3>2. MayCall(s)'
        BY <2>1, <3>1 DEF MayCall, BeforeStore, Working, ExecuteSteps
      <3>3. MayPublish(s)' /\ MayDecide(s)'
        BY <2>1, <3>1 DEF MayPublish, MayDecide
      <3>4. QED
        BY <2>0, <2>2, <3>2, <3>3 DEF SoloInv
    <2>4. CASE Abort(s)
      <3>1. pc'[s] = "idle"
        BY <2>4 DEF Abort, TypeOK, ControlOK
      <3>2. MayCall(s)' /\ MayPublish(s)' /\ MayDecide(s)'
        BY <3>1 DEF MayCall, MayPublish, MayDecide, BeforeStore, Working, ExecuteSteps
      <3>3. QED
        BY <2>0, <2>2, <3>2 DEF SoloInv
    <2>5. QED
      BY <1>4, <2>3, <2>4
  <1>5. QED
    BY <1>1, <1>2, <1>3, <1>4 DEF Next

LEMMA SoloInvInit ==
  ASSUME InitRequests
  PROVE  SoloInv
  BY DEF InitRequests, NewRow, SoloInv, FailureIsLast, OnlyTransientIsRetried,
         AttemptsAreNumbered, MayCall, MayPublish, MayDecide, BeforeStore, Working, ExecuteSteps

\* As long as no two handlers work on the same request, a handler that writes does so
\* on what is still true, and the history is in order.
THEOREM SerialIsSound ==
  Spec /\ []SerialHandlers => [](ExecutionSound /\ SoloInv)
  <1>1. SerialHandlers /\ ExecutionSound /\ SoloInv /\ [Next]_vars => SoloInv'
    BY SoloInvStep DEF ExecutionSound
  <1>2. Init => SoloInv
    BY SoloInvInit DEF Init
  <1>3. QED
    BY <1>1, <1>2, ExecutionIsSound, PTL DEF Spec

\* Only a transient failure is ever tried again.
THEOREM RetryTheorem ==
  Spec /\ []SerialHandlers => []OnlyTransientIsRetried
  <1>1. SoloInv => OnlyTransientIsRetried
    BY DEF SoloInv
  <1>2. QED
    BY <1>1, SerialIsSound, PTL

\* Attempts are numbered 1, 2, 3, ... in the order they are stored.
THEOREM NumberTheorem ==
  Spec /\ []SerialHandlers => []AttemptsAreNumbered
  <1>1. SoloInv => AttemptsAreNumbered
    BY DEF SoloInv
  <1>2. QED
    BY <1>1, SerialIsSound, PTL

LEMMA ReconciledStays ==
  ASSUME ExecutionSound, SoloInv, [Next]_vars, NEW r \in Requests,
         request[r].status = "reconciled"
  PROVE  request'[r].status = "reconciled"
  <1>1. CASE UNCHANGED vars
    BY <1>1 DEF vars
  <1>2. ASSUME NEW s \in Sessions, Step(s)
        PROVE  request'[r].status = "reconciled"
    <2>1. CASE r # job[s].request
      BY <1>2, <2>1, OthersUntouched DEF ExecutionSound
    <2>2. CASE r = job[s].request
      <3>1. pc[s] \notin {"claim", "finish", "exhaust", "route", "resolve"}
        BY <2>2 DEF SoloInv, MayCall, MayPublish, MayDecide, Working, ExecuteSteps, InProgress,
                    Retryable, RecoveryEligible
      <3>2. QED
        BY <1>2, <2>2, <3>1, StatusMoves DEF ExecutionSound
    <2>3. QED
      BY <2>1, <2>2
  <1>3. ASSUME NEW s \in Sessions, BeginHandler(s) \/ Abort(s)
        PROVE  request'[r].status = "reconciled"
    BY <1>3, BeginKeepsTables DEF ReadOnly, Abort
  <1>4. ASSUME NEW q \in Requests, RefundSettles(q)
        PROVE  request'[r].status = "reconciled"
    BY <1>4 DEF RefundSettles
  <1>5. QED
    BY <1>1, <1>2, <1>3, <1>4 DEF Next

\* Once reconciled, a request stays reconciled.
THEOREM FinalTheorem ==
  Spec /\ []SerialHandlers => ReconciledIsFinal
  <1>1. ExecutionSound /\ SoloInv /\ [Next]_vars =>
          [\A r \in Requests :
             request[r].status = "reconciled" => request'[r].status = "reconciled"]_vars
    BY ReconciledStays
  <1>2. QED
    BY <1>1, SerialIsSound, PTL DEF Spec, ReconciledIsFinal

-----------------------------------------------------------------------------
(* The refinement                                                            *)

\* Where a handler is in the life of a call.
CallOf(step) ==
    CASE step \in BeforeStore \ {"claim"} -> "open"
      [] step \in {"audit_attempt", "finish"} -> "recorded"
      [] OTHER -> "none"

\* The call of a request that a handler works on is where the handler is, before and
\* after it moves, and no other call moves.
LEMMA CallMovesWith ==
  ASSUME SerialHandlers, ControlOK, NEW s \in Sessions, pc[s] # "idle",
         NEW q \in Requests, q = job[s].request, pc'[s] # "idle" => job'[s].request = q,
         \A t \in Sessions \ {s} : pc'[t] = pc[t] /\ job'[t] = job[t]
  PROVE  CallState[q] = CallOf(pc[s]) /\ CallState' = [CallState EXCEPT ![q] = CallOf(pc'[s])]
  <1>1. ASSUME NEW steps, "idle" \notin steps
        PROVE  /\ At(q, steps) = IF pc[s] \in steps THEN {s} ELSE {}
               /\ At(q, steps)' = IF pc'[s] \in steps THEN {s} ELSE {}
               /\ \A r \in Requests \ {q} : At(r, steps)' = At(r, steps)
    <2>1. \A t \in Sessions \ {s} : t \notin At(q, steps) /\ t \notin At(q, steps)'
      BY <1>1 DEF SerialHandlers, At
    <2>2. \A r \in Requests \ {q} : At(r, steps)' = At(r, steps)
      BY <1>1 DEF At
    <2>3. At(q, steps) = IF pc[s] \in steps THEN {s} ELSE {}
      BY <2>1 DEF At
    <2>4. At(q, steps)' = IF pc'[s] \in steps THEN {s} ELSE {}
      BY <1>1, <2>1 DEF At
    <2>5. QED
      BY <2>2, <2>3, <2>4
  <1> DEFINE open == BeforeStore \ {"claim"}
             recorded == {"audit_attempt", "finish"}
  <1>2. "idle" \notin open /\ "idle" \notin recorded
    BY DEF BeforeStore
  <1>3. CallState[q] = CallOf(pc[s])
    BY <1>1, <1>2 DEF CallState, CallOf
  <1>4. \A r \in Requests : CallState'[r] = IF r = q THEN CallOf(pc'[s]) ELSE CallState[r]
    <2>1. CallState'[q] = CallOf(pc'[s])
      BY <1>1, <1>2 DEF CallState, CallOf
    <2>2. ASSUME NEW r \in Requests \ {q}
          PROVE  CallState'[r] = CallState[r]
      <3>1. At(r, open)' = At(r, open) /\ At(r, recorded)' = At(r, recorded)
        BY <1>1, <1>2
      <3>2. QED
        BY <3>1 DEF CallState
    <2>3. QED
      BY <2>1, <2>2
  <1>5. /\ CallState = [r \in Requests |-> CallState[r]]
        /\ CallState' = [r \in Requests |-> CallState'[r]]
    BY DEF CallState
  <1>6. QED
    BY <1>3, <1>4, <1>5

\* The call of a request when its handler takes a step.
LEMMA CallMoves ==
  ASSUME SerialHandlers, TypeOK, NEW s \in Sessions, Step(s), NEW q, q = job[s].request
  PROVE  CallState[q] = CallOf(pc[s]) /\ CallState' = [CallState EXCEPT ![q] = CallOf(pc'[s])]
  BY OthersUntouched, CallMovesWith DEF TypeOK

\* The status of the other requests stays.
LEMMA MappedStatus ==
  ASSUME TypeOK, NEW s \in Sessions, Step(s), NEW q, q = job[s].request
  PROVE  RequestStatus' = [RequestStatus EXCEPT ![q] = request'[q].status]
  BY OthersUntouched DEF RequestStatus

LEMMA SameStatus ==
  ASSUME TypeOK, NEW s \in Sessions, Step(s),
         pc[s] \notin {"claim", "finish", "exhaust", "route", "mark", "resolve"}
  PROVE  RequestStatus' = RequestStatus
  <1>1. \A r \in Requests : request'[r].status = request[r].status
    <2>1. \A r \in Requests \ {job[s].request} : request'[r].status = request[r].status
      BY OthersUntouched
    <2>2. request'[job[s].request].status = request[job[s].request].status
      BY StatusMoves
    <2>3. QED
      BY <2>1, <2>2
  <1>2. QED
    BY <1>1 DEF RequestStatus

\* The outcomes of the other requests stay, and storing an attempt adds one outcome.
LEMMA MappedOutcomes ==
  ASSUME TypeOK, NEW s \in Sessions, Step(s), NEW q, q = job[s].request, pc[s] = "store"
  PROVE  RecordedOutcomes' =
           [RecordedOutcomes EXCEPT ![q] = Append(@, ExecutionStatusOf(AttemptOf(s)))]
  <1> DEFINE outcome == ExecutionStatusOf(AttemptOf(s))
             before == [i \in 1 .. Len(attempts[q]) |-> ExecutionStatusOf(attempts[q][i])]
             after == [i \in 1 .. Len(attempts'[q]) |-> ExecutionStatusOf(attempts'[q][i])]
  <1>1. /\ q \in Requests
        /\ \A r \in Requests \ {q} : attempts'[r] = attempts[r]
    BY OthersUntouched
  <1>2. /\ Len(attempts[q]) \in Nat /\ Len(attempts'[q]) = Len(attempts[q]) + 1
        /\ \A i \in 1 .. Len(attempts[q]) : attempts'[q][i] = attempts[q][i]
        /\ attempts'[q][Len(attempts[q]) + 1] = AttemptOf(s)
    BY AfterStore
  <1>3. before \in Seq(Lifecycle!Outcomes) /\ Len(before) = Len(attempts[q])
    BY <1>2, StatusTypes DEF Lifecycle!Outcomes
  <1>4. after \in Seq(Lifecycle!Outcomes) /\ Len(after) = Len(attempts[q]) + 1
    BY <1>2, StatusTypes DEF Lifecycle!Outcomes
  <1>5. outcome \in Lifecycle!Outcomes
    BY StatusTypes DEF Lifecycle!Outcomes
  <1>6. after = Append(before, outcome)
    <2>1. \A i \in 1 .. Len(after) : after[i] = Append(before, outcome)[i]
      BY <1>2, <1>3, <1>4, <1>5
    <2>2. Append(before, outcome) \in Seq(Lifecycle!Outcomes)
          /\ Len(Append(before, outcome)) = Len(after)
      BY <1>3, <1>4, <1>5, AppendProperties
    <2>3. QED
      BY <1>4, <2>1, <2>2, SeqEqual
  <1>7. QED
    BY <1>1, <1>6 DEF RecordedOutcomes

LEMMA MappedValues ==
  ASSUME NEW r \in Requests
  PROVE  /\ RequestStatus[r] = request[r].status
         /\ RecordedOutcomes[r] =
              [i \in 1 .. Len(attempts[r]) |-> ExecutionStatusOf(attempts[r][i])]
  BY DEF RequestStatus, RecordedOutcomes

\* The history of outcomes, as far as the lifecycle looks at it.
LEMMA MappedHistory ==
  ASSUME TypeOK, NEW r \in Requests
  PROVE  /\ Len(RecordedOutcomes[r]) = Len(attempts[r])
         /\ attempts[r] = <<>> => RecordedOutcomes[r] = <<>>
         /\ attempts[r] # <<>> =>
              RecordedOutcomes[r][Len(RecordedOutcomes[r])] = ExecutionStatusOf(LastAttempt(r))
  <1> DEFINE outcomes == [i \in 1 .. Len(attempts[r]) |-> ExecutionStatusOf(attempts[r][i])]
  <1>1. attempts[r] \in Seq(AttemptRows) /\ RecordedOutcomes[r] = outcomes
    BY MappedValues DEF TypeOK, TablesOK
  <1>2. outcomes \in Seq(Lifecycle!Outcomes) /\ Len(outcomes) = Len(attempts[r])
    BY <1>1, StatusTypes DEF Lifecycle!Outcomes
  <1>3. attempts[r] = <<>> => outcomes = <<>>
    BY <1>1, <1>2, EmptySeq
  <1>4. attempts[r] # <<>> => Len(attempts[r]) \in 1 .. Len(attempts[r])
    BY <1>1, EmptySeq
  <1>5. QED
    BY <1>1, <1>2, <1>3, <1>4 DEF LastAttempt

\* A step that moves neither status nor call, and stores nothing.
LEMMA StutterStep ==
  ASSUME RequestStatus' = RequestStatus, attempts' = attempts, CallState' = CallState
  PROVE  UNCHANGED Lifecycle!lifecycleVars
  BY DEF Lifecycle!lifecycleVars, RecordedOutcomes

LEMMA ClaimRefines ==
  ASSUME SerialHandlers, ExecutionSound, SoloInv, NEW s \in Sessions, Step(s),
         pc[s] = "claim"
  PROVE  Lifecycle!LifecycleNext
  <1> DEFINE q == job[s].request
  <1>0. TypeOK /\ PendingInv /\ q \in Requests
    BY OthersUntouched DEF ExecutionSound
  <1>1. /\ RequestStatus' = [RequestStatus EXCEPT ![q] =
                               IF job[s].via = "retry" THEN "retrying" ELSE "processing"]
        /\ RequestStatus[q] = request[q].status
    <2>1. request'[q].status = IF job[s].via = "retry" THEN "retrying" ELSE "processing"
      BY <1>0, StatusMoves
    <2>2. RequestStatus' = [RequestStatus EXCEPT ![q] = request'[q].status]
      BY <1>0, MappedStatus
    <2>3. RequestStatus[q] = request[q].status
      BY <1>0, MappedValues
    <2>4. QED
      BY <2>1, <2>2, <2>3
  <1>2. CallState[q] = "none" /\ CallState' = [CallState EXCEPT ![q] = "open"]
    BY <1>0, CallMoves, Moves DEF CallOf, BeforeStore
  <1>3. UNCHANGED RecordedOutcomes
    BY <1>0, AttemptMoves DEF RecordedOutcomes
  <1>4. CASE job[s].via # "retry"
    <2>1. request[q].status = "execution_pending" /\ attempts[q] = <<>>
      BY <1>0, <1>4 DEF SoloInv, MayCall, PendingInv
    <2>2. Lifecycle!FirstAttempt(q)
      BY <1>0, <1>1, <1>2, <1>3, <1>4, <2>1, MappedHistory
      DEF Lifecycle!FirstAttempt, Lifecycle!Open
    <2>3. QED
      BY <1>0, <2>2 DEF Lifecycle!LifecycleNext
  <1>5. CASE job[s].via = "retry"
    <2>1. Retryable(request[q].status, Len(attempts[q]))
      BY <1>0, <1>5 DEF SoloInv, MayCall
    <2>2. attempts[q] # <<>> /\ Transient(LastAttempt(q))
      BY <1>0, <2>1 DEF SoloInv, FailureIsLast, Retryable
    <2>3. /\ Len(RecordedOutcomes[q]) = Len(attempts[q])
          /\ RecordedOutcomes[q][Len(RecordedOutcomes[q])] = "failed_transient"
      BY <1>0, <2>2, MappedHistory, TransientStatus
    <2>4. Lifecycle!AnotherAttempt(q)
      BY <1>1, <1>2, <1>3, <1>5, <2>1, <2>3
      DEF Lifecycle!AnotherAttempt, Lifecycle!Open, Lifecycle!Retryable, Retryable
    <2>5. QED
      BY <1>0, <2>4 DEF Lifecycle!LifecycleNext
  <1>6. QED
    BY <1>4, <1>5

LEMMA StoreRefines ==
  ASSUME SerialHandlers, ExecutionSound, SoloInv, NEW s \in Sessions, Step(s),
         pc[s] = "store"
  PROVE  Lifecycle!LifecycleNext
  <1> DEFINE q == job[s].request
  <1>0. TypeOK /\ q \in Requests
    BY OthersUntouched DEF ExecutionSound
  <1>1. CallState[q] = "open" /\ CallState' = [CallState EXCEPT ![q] = "recorded"]
    BY <1>0, CallMoves, Moves DEF CallOf, BeforeStore
  <1>2. RequestStatus' = RequestStatus
    BY <1>0, SameStatus
  <1>3. PICK outcome \in Lifecycle!Outcomes :
          RecordedOutcomes' = [RecordedOutcomes EXCEPT ![q] = Append(@, outcome)]
    BY <1>0, MappedOutcomes, StatusTypes DEF Lifecycle!Outcomes
  <1>4. Lifecycle!RecordOutcome(q)
    BY <1>1, <1>2, <1>3 DEF Lifecycle!RecordOutcome
  <1>5. QED
    BY <1>0, <1>4 DEF Lifecycle!LifecycleNext

LEMMA FinishRefines ==
  ASSUME SerialHandlers, ExecutionSound, SoloInv, NEW s \in Sessions, Step(s),
         pc[s] = "finish"
  PROVE  Lifecycle!LifecycleNext
  <1> DEFINE q == job[s].request
  <1>0. TypeOK /\ q \in Requests
    BY OthersUntouched DEF ExecutionSound
  <1>1. CallState[q] = "recorded" /\ CallState' = [CallState EXCEPT ![q] = "none"]
    BY <1>0, CallMoves, Moves DEF CallOf, BeforeStore
  <1>2. UNCHANGED RecordedOutcomes
    BY <1>0, AttemptMoves DEF RecordedOutcomes
  <1>3. /\ attempts[q] # <<>>
        /\ ExecutionStatusOf(LastAttempt(q)) = ExecutionStatusOf(job[s].reply)
    BY TransientStatus DEF SoloInv, MayPublish
  <1>4. RequestStatus' = [RequestStatus EXCEPT ![q] = RecordedOutcomes[q][Len(RecordedOutcomes[q])]]
    BY <1>0, <1>3, MappedStatus, StatusMoves, MappedHistory
  <1>5. Lifecycle!Publish(q)
    BY <1>1, <1>2, <1>4 DEF Lifecycle!Publish
  <1>6. QED
    BY <1>0, <1>5 DEF Lifecycle!LifecycleNext

\* The writes of the status outside a call.
LEMMA SettleRefines ==
  ASSUME SerialHandlers, ExecutionSound, SoloInv, NEW s \in Sessions, Step(s),
         pc[s] \in {"exhaust", "route", "mark", "resolve"}
  PROVE  Lifecycle!LifecycleNext
  <1> DEFINE q == job[s].request
  <1>0. TypeOK /\ q \in Requests
    BY OthersUntouched DEF ExecutionSound
  <1>1. CallState[q] = "none" /\ CallState' = CallState
    <2>1. CallState[q] = "none" /\ CallState' = [CallState EXCEPT ![q] = "none"]
      BY <1>0, CallMoves, Moves DEF CallOf, BeforeStore
    <2>2. QED
      BY <2>1 DEF CallState
  <1>2. UNCHANGED RecordedOutcomes
    BY <1>0, AttemptMoves DEF RecordedOutcomes
  <1>3. /\ RequestStatus' = [RequestStatus EXCEPT ![q] = request'[q].status]
        /\ RequestStatus[q] = request[q].status
    BY <1>0, MappedStatus, MappedValues
  <1>4. Lifecycle!Settle(q, request'[q].status)
    BY <1>1, <1>2, <1>3 DEF Lifecycle!Settle
  <1>5. CASE pc[s] = "exhaust"
    <2>1. /\ request[q].status = "failed_transient" /\ Len(attempts[q]) >= MAX_RETRY_ATTEMPTS
          /\ request'[q].status = "needs_manual_review"
      BY <1>0, <1>5, StatusMoves DEF SoloInv, MayPublish
    <2>2. Lifecycle!GiveUp(q)
      BY <1>0, <1>3, <1>4, <2>1, MappedHistory DEF Lifecycle!GiveUp
    <2>3. QED
      BY <1>0, <2>2 DEF Lifecycle!LifecycleNext
  <1>6. CASE pc[s] = "route"
    <2>1. request[q].status # "reconciled" /\ request'[q].status = "needs_manual_review"
      BY <1>0, <1>6, StatusMoves DEF SoloInv, MayDecide
    <2>2. Lifecycle!Escalate(q)
      BY <1>3, <1>4, <2>1 DEF Lifecycle!Escalate
    <2>3. QED
      BY <1>0, <2>2 DEF Lifecycle!LifecycleNext
  <1>7. CASE pc[s] = "mark"
    <2>1. request[q].status = "succeeded" /\ request'[q].status = "reconciled"
      BY <1>0, <1>7, StatusMoves DEF SoloInv, MayDecide
    <2>2. Lifecycle!Verify(q)
      BY <1>3, <1>4, <2>1 DEF Lifecycle!Verify
    <2>3. QED
      BY <1>0, <2>2 DEF Lifecycle!LifecycleNext
  <1>8. CASE pc[s] = "resolve"
    <2>1. /\ request[q].status \in RecoveryEligible /\ job[s].via \in RecoveryActions
          /\ request'[q].status = RecoveryStatus[job[s].via]
      BY <1>0, <1>8, StatusMoves DEF SoloInv, MayDecide, TypeOK, ControlOK, RecoverSteps
    <2>2. Lifecycle!HumanDecision(q)
      BY <1>3, <1>4, <2>1
      DEF Lifecycle!HumanDecision, Lifecycle!RecoveryEligible, Lifecycle!RecoveryActions,
          Lifecycle!RecoveryStatus, RecoveryEligible, RecoveryActions, RecoveryStatus
    <2>3. QED
      BY <1>0, <2>2 DEF Lifecycle!LifecycleNext
  <1>9. QED
    BY <1>5, <1>6, <1>7, <1>8

\* Every other step of a handler changes nothing the lifecycle sees.
LEMMA OtherStepsStutter ==
  ASSUME SerialHandlers, ExecutionSound, SoloInv, NEW s \in Sessions, Step(s),
         pc[s] \notin {"claim", "store", "finish", "exhaust", "route", "mark", "resolve"}
  PROVE  UNCHANGED Lifecycle!lifecycleVars
  <1> DEFINE q == job[s].request
  <1>0. TypeOK /\ q \in Requests
    BY OthersUntouched DEF ExecutionSound
  <1>1. RequestStatus' = RequestStatus /\ attempts' = attempts
    BY <1>0, SameStatus, AttemptMoves
  <1>2. CallOf(pc'[s]) = CallOf(pc[s])
    <2>1. CASE pc[s] \in BeforeStore \ {"claim", "store"}
      <3>1. pc'[s] \in BeforeStore \ {"claim"}
        BY <1>0, <2>1, Moves
      <3>2. pc[s] \in BeforeStore \ {"claim"}
        BY <2>1
      <3>3. CallOf(pc'[s]) = "open" /\ CallOf(pc[s]) = "open"
        BY <3>1, <3>2 DEF CallOf, BeforeStore
      <3>4. QED
        BY <3>3
    <2>2. CASE pc[s] = "audit_attempt"
      BY <1>0, <2>2, Moves DEF CallOf, BeforeStore
    <2>3. CASE pc[s] \notin BeforeStore \cup {"audit_attempt", "finish"}
      BY <1>0, <2>3, Moves DEF CallOf
    <2>4. QED
      BY <2>1, <2>2, <2>3
  <1>3. CallState' = CallState
    <2>1. CallState[q] = CallOf(pc[s]) /\ CallState' = [CallState EXCEPT ![q] = CallOf(pc'[s])]
      BY <1>0, CallMoves
    <2>2. QED
      BY <1>2, <2>1 DEF CallState
  <1>4. QED
    BY <1>1, <1>3, StutterStep

\* Starting a handler, too: it has claimed nothing yet.
LEMMA BeginStutters ==
  ASSUME TypeOK, NEW s \in Sessions, BeginHandler(s)
  PROVE  UNCHANGED Lifecycle!lifecycleVars
  <1>1. request' = request /\ attempts' = attempts
    BY BeginKeepsTables DEF ReadOnly
  <1>2. /\ pc[s] = "idle" /\ pc'[s] \in {"claim", "lookup", "attach", "resolve"}
        /\ \A t \in Sessions \ {s} : pc'[t] = pc[t] /\ job'[t] = job[t]
    BY BeginGuards
  <1>3. \A r \in Requests :
          /\ At(r, BeforeStore \ {"claim"})' = At(r, BeforeStore \ {"claim"})
          /\ At(r, {"audit_attempt", "finish"})' = At(r, {"audit_attempt", "finish"})
    BY <1>2 DEF At, BeforeStore
  <1>4. CallState' = CallState
    BY <1>3 DEF CallState
  <1>5. RequestStatus' = RequestStatus
    BY <1>1 DEF RequestStatus
  <1>6. QED
    BY <1>1, <1>4, <1>5, StutterStep

\* A stop abandons the call, if one is under way.
LEMMA AbortRefines ==
  ASSUME SerialHandlers, TypeOK, NEW s \in Sessions, Abort(s)
  PROVE  Lifecycle!LifecycleNext \/ UNCHANGED Lifecycle!lifecycleVars
  <1> DEFINE q == job[s].request
  <1>1. /\ request' = request /\ attempts' = attempts
        /\ pc[s] # "idle" /\ pc'[s] = "idle" /\ q \in Requests
        /\ \A t \in Sessions \ {s} : pc'[t] = pc[t] /\ job'[t] = job[t]
    BY DEF Abort, TypeOK, ControlOK
  <1>2. RequestStatus' = RequestStatus /\ RecordedOutcomes' = RecordedOutcomes
    BY <1>1 DEF RequestStatus, RecordedOutcomes
  <1>3. CallState[q] = CallOf(pc[s]) /\ CallState' = [CallState EXCEPT ![q] = "none"]
    <2>1. CallOf("idle") = "none"
      BY DEF CallOf, BeforeStore
    <2>2. QED
      BY <1>1, <2>1, CallMovesWith DEF TypeOK
  <1>4. CASE CallOf(pc[s]) = "none"
    <2>1. CallState' = CallState
      BY <1>3, <1>4 DEF CallState
    <2>2. QED
      BY <1>1, <1>2, <2>1, StutterStep
  <1>5. CASE CallOf(pc[s]) # "none"
    <2>1. Lifecycle!Abandon(q)
      BY <1>2, <1>3, <1>5 DEF Lifecycle!Abandon
    <2>2. QED
      BY <1>1, <2>1 DEF Lifecycle!LifecycleNext
  <1>6. QED
    BY <1>4, <1>5

LEMMA LifecycleSame ==
  ASSUME UNCHANGED <<request, attempts, pc, job>>
  PROVE  UNCHANGED Lifecycle!lifecycleVars
  <1>1. RequestStatus' = RequestStatus /\ CallState' = CallState
    BY DEF RequestStatus, CallState, At
  <1>2. QED
    BY <1>1, StutterStep

LEMMA LifecycleStep ==
  ASSUME SerialHandlers, ExecutionSound, SoloInv, [Next]_vars
  PROVE  [Lifecycle!LifecycleNext]_(Lifecycle!lifecycleVars)
  <1>0. TypeOK
    BY DEF ExecutionSound
  <1>1. ASSUME UNCHANGED <<request, attempts, pc, job>>
        PROVE  UNCHANGED Lifecycle!lifecycleVars
    BY <1>1, LifecycleSame
  <1>2. CASE UNCHANGED vars
    BY <1>1, <1>2 DEF vars
  <1>3. ASSUME NEW r \in Requests, RefundSettles(r)
        PROVE  UNCHANGED Lifecycle!lifecycleVars
    BY <1>1, <1>3 DEF RefundSettles
  <1>4. ASSUME NEW s \in Sessions, Step(s)
        PROVE  Lifecycle!LifecycleNext \/ UNCHANGED Lifecycle!lifecycleVars
    BY <1>4, ClaimRefines, StoreRefines, FinishRefines, SettleRefines, OtherStepsStutter
  <1>5. QED
    BY <1>0, <1>2, <1>3, <1>4, BeginStutters, AbortRefines DEF Next

LEMMA LifecycleStart ==
  ASSUME InitRequests
  PROVE  Lifecycle!LifecycleInit
  <1>1. RequestStatus = [r \in Requests |-> "execution_pending"]
    BY DEF InitRequests, NewRow, RequestStatus
  <1>2. RecordedOutcomes = [r \in Requests |-> <<>>]
    <2>1. \A r \in Requests : attempts[r] = <<>>
      BY DEF InitRequests
    <2>2. [i \in 1 .. Len(<<>>) |-> ExecutionStatusOf((<<>>)[i])] = <<>>
      OBVIOUS
    <2>3. QED
      BY <2>1, <2>2 DEF RecordedOutcomes
  <1>3. CallState = [r \in Requests |-> "none"]
    <2>1. \A r \in Requests : \A steps : "idle" \notin steps => At(r, steps) = {}
      BY DEF InitRequests, At
    <2>2. QED
      BY <2>1 DEF CallState, BeforeStore
  <1>4. QED
    BY <1>1, <1>2, <1>3 DEF Lifecycle!LifecycleInit

\* Handlers that keep apart, as they interleave with Stripe and stop wherever they stop,
\* implement the lifecycle.
THEOREM LifecycleImplemented ==
  Spec /\ []SerialHandlers => ImplementsLifecycle
  <1>1. Init => Lifecycle!LifecycleInit
    BY LifecycleStart DEF Init
  <1>2. SerialHandlers /\ ExecutionSound /\ SoloInv /\ [Next]_vars =>
          [Lifecycle!LifecycleNext]_(Lifecycle!lifecycleVars)
    BY LifecycleStep
  <1>3. QED
    BY <1>1, <1>2, SerialIsSound, PTL
    DEF Spec, ImplementsLifecycle, Lifecycle!LifecycleSpec


-----------------------------------------------------------------------------
(* The mock provider creates one object at most                              *)

\* A request that may still be sent to the provider has no object there, and a
\* handler that has been there left none unless it heard of a success.
Untouched(r) ==
    /\ mockWrites[r] <= 1
    /\ request[r].status \in {"execution_pending", "failed_transient"} => mockWrites[r] = 0

Unspent(s) ==
    LET r == job[s].request
    IN  /\ pc[s] \in BeforeStore \ {"store"} => mockWrites[r] = 0
        /\ pc[s] \in {"store", "audit_attempt", "finish"} =>
             mockWrites[r] = 0 \/ Succeeded(job[s].reply)

OnceInv == (\A r \in Requests : Untouched(r)) /\ (\A s \in Sessions : Unspent(s))

LEMMA FinalOutcome ==
  ASSUME NEW reply, Succeeded(reply)
  PROVE  ExecutionStatusOf(reply) \notin {"execution_pending", "failed_transient"}
  BY DEF Succeeded, ExecutionStatusOf

\* The request a handler works on, after its step.
LEMMA OnceUntouched ==
  ASSUME TypeOK, PendingInv, SoloInv, OnceInv, NEW s \in Sessions, Step(s),
         NEW r, r = job[s].request
  PROVE  Untouched(r)'
  <1>0. /\ r \in Requests /\ mockWrites[r] \in Nat /\ mockWrites[r] <= 1
        /\ request[r].status \in {"execution_pending", "failed_transient"} => mockWrites[r] = 0
        /\ Unspent(s)
    BY OthersUntouched DEF TypeOK, TablesOK, OnceInv, Untouched
  <1>1. CASE pc[s] = "call"
    <2>1. mockWrites[r] = 0 /\ mockWrites'[r] \in {0, 1}
      BY <1>0, <1>1, WriteMoves DEF Unspent, BeforeStore
    <2>2. request'[r].status \in InProgress
      <3>1. request[r].status \in InProgress
        BY <1>1 DEF SoloInv, MayCall, Working, ExecuteSteps
      <3>2. QED
        BY <1>1, <3>1, StatusMoves
    <2>3. QED
      BY <2>1, <2>2 DEF Untouched, InProgress
  <1>2. CASE pc[s] = "finish"
    <2>1. mockWrites'[r] = mockWrites[r]
      BY <1>2, WriteMoves
    <2>2. request'[r].status = ExecutionStatusOf(job[s].reply)
      BY <1>2, StatusMoves
    <2>3. mockWrites[r] = 0 \/ Succeeded(job[s].reply)
      BY <1>0, <1>2 DEF Unspent
    <2>4. QED
      BY <1>0, <2>1, <2>2, <2>3, FinalOutcome DEF Untouched
  <1>3. CASE pc[s] \in {"claim", "exhaust", "route", "mark", "resolve"}
    <2>1. mockWrites'[r] = mockWrites[r]
      BY <1>3, WriteMoves
    <2>2. pc[s] = "resolve" => job[s].via \in RecoveryActions
      BY DEF TypeOK, ControlOK, RecoverSteps
    <2>3. request'[r].status \notin {"execution_pending", "failed_transient"}
      BY <1>3, <2>2, StatusMoves DEF RecoveryActions, RecoveryStatus
    <2>4. QED
      BY <1>0, <2>1, <2>3 DEF Untouched
  <1>4. CASE pc[s] \notin {"call", "finish", "claim", "exhaust", "route", "mark", "resolve"}
    <2>1. mockWrites'[r] = mockWrites[r] /\ request'[r].status = request[r].status
      BY <1>4, WriteMoves, StatusMoves
    <2>2. QED
      BY <1>0, <2>1 DEF Untouched
  <1>5. QED
    BY <1>1, <1>2, <1>3, <1>4

LEMMA OnceUnspent ==
  ASSUME TypeOK, OnceInv, NEW s \in Sessions, Step(s)
  PROVE  Unspent(s)'
  <1> DEFINE r == job[s].request
  <1>0. Unspent(s) /\ mockWrites[r] \in Nat /\ (pc'[s] # "idle" => job'[s].request = r)
    BY OthersUntouched DEF TypeOK, TablesOK, OnceInv
  <1>1. CASE pc'[s] \in BeforeStore \ {"store"}
    <2>1. pc[s] \in BeforeStore \ {"store", "call"}
      BY <1>1, Moves DEF BeforeStore
    <2>2. mockWrites'[r] = mockWrites[r] /\ mockWrites[r] = 0
      BY <1>0, <2>1, WriteMoves DEF Unspent, BeforeStore
    <2>3. QED
      BY <1>0, <1>1, <2>2 DEF Unspent, BeforeStore
  <1>2. CASE pc'[s] = "store"
    <2>1. pc[s] = "call" /\ mockWrites[r] = 0
      BY <1>0, <1>2, Flow DEF Unspent, BeforeStore
    <2>2. mockWrites'[r] = 0 \/ Succeeded(job'[s].reply)
      BY <2>1, WriteMoves
    <2>3. QED
      BY <1>0, <1>2, <2>2 DEF Unspent, BeforeStore, Succeeded
  <1>3. CASE pc'[s] \in {"audit_attempt", "finish"}
    <2>1. pc[s] \in {"store", "audit_attempt"} /\ job'[s].reply = job[s].reply
      BY <1>3, Flow, StepLocals
    <2>2. mockWrites'[r] = mockWrites[r]
      BY <2>1, WriteMoves
    <2>3. mockWrites[r] = 0 \/ Succeeded(job[s].reply)
      BY <1>0, <2>1 DEF Unspent
    <2>4. QED
      BY <1>0, <1>3, <2>1, <2>2, <2>3 DEF Unspent, BeforeStore, Succeeded
  <1>4. CASE pc'[s] \notin BeforeStore \cup {"audit_attempt", "finish"}
    BY <1>4 DEF Unspent, BeforeStore
  <1>5. QED
    BY <1>1, <1>2, <1>3, <1>4 DEF BeforeStore

LEMMA OnceSame ==
  ASSUME OnceInv, UNCHANGED <<request, mockWrites>>,
         \A s \in Sessions :
           \/ pc'[s] = pc[s] /\ job'[s] = job[s]
           \/ pc'[s] \in {"idle", "lookup", "attach", "resolve"}
           \/ /\ pc'[s] = "claim" /\ job'[s].request \in Requests
              /\ mockWrites[job'[s].request] = 0
  PROVE  OnceInv'
  <1>1. \A r \in Requests : Untouched(r)'
    BY DEF OnceInv, Untouched
  <1>2. \A s \in Sessions : Unspent(s)'
    BY DEF OnceInv, Unspent, BeforeStore, Succeeded
  <1>3. QED
    BY <1>1, <1>2 DEF OnceInv

LEMMA OnceInvStep ==
  ASSUME SerialHandlers, TypeOK, PendingInv, SoloInv, OnceInv, [Next]_vars
  PROVE  OnceInv'
  <1>1. CASE UNCHANGED vars
    BY <1>1, OnceSame DEF vars
  <1>2. ASSUME NEW r \in Requests, RefundSettles(r)
        PROVE  OnceInv'
    BY <1>2, OnceSame DEF RefundSettles
  <1>3. ASSUME NEW s \in Sessions, BeginHandler(s)
        PROVE  OnceInv'
    <2>1. request' = request /\ mockWrites' = mockWrites
      BY <1>3, BeginKeepsTables DEF ReadOnly
    <2>2. \/ pc'[s] \in {"lookup", "attach", "resolve"}
          \/ /\ pc'[s] = "claim" /\ job'[s].request \in Requests
             /\ request[job'[s].request].status \in {"execution_pending", "failed_transient"}
      BY <1>3, BeginGuards DEF Retryable
    <2>3. \A t \in Sessions \ {s} : pc'[t] = pc[t] /\ job'[t] = job[t]
      BY <1>3, BeginGuards
    <2>4. QED
      BY <2>1, <2>2, <2>3, OnceSame DEF OnceInv, Untouched
  <1>4. ASSUME NEW s \in Sessions, Abort(s)
        PROVE  OnceInv'
    <2>1. /\ request' = request /\ mockWrites' = mockWrites /\ pc'[s] = "idle"
          /\ \A t \in Sessions \ {s} : pc'[t] = pc[t] /\ job'[t] = job[t]
      BY <1>4 DEF Abort, TypeOK, ControlOK
    <2>2. QED
      BY <2>1, OnceSame
  <1>5. ASSUME NEW s \in Sessions, Step(s)
        PROVE  OnceInv'
    <2>1. ASSUME NEW r \in Requests, r = job[s].request
          PROVE  Untouched(r)'
      BY <1>5, <2>1, OnceUntouched
    <2>2. ASSUME NEW r \in Requests, r # job[s].request
          PROVE  Untouched(r)'
      <3>1. request'[r] = request[r] /\ mockWrites'[r] = mockWrites[r]
        BY <1>5, <2>2, OthersUntouched
      <3>2. QED
        BY <3>1 DEF OnceInv, Untouched
    <2>3. ASSUME NEW t \in Sessions
          PROVE  Unspent(t)'
      <3>1. CASE t = s
        BY <1>5, <3>1, OnceUnspent
      <3>2. CASE t # s
        <4>1. /\ pc'[t] = pc[t] /\ job'[t] = job[t]
              /\ pc[t] # "idle" => mockWrites'[job[t].request] = mockWrites[job[t].request]
          BY <1>5, <3>2, Apart
        <4>2. Unspent(t)
          BY DEF OnceInv
        <4>3. QED
          BY <4>1, <4>2 DEF Unspent, BeforeStore, Succeeded
      <3>3. QED
        BY <3>1, <3>2
    <2>4. \A r \in Requests : Untouched(r)'
      BY <2>1, <2>2
    <2>5. QED
      BY <2>3, <2>4 DEF OnceInv
  <1>6. QED
    BY <1>1, <1>2, <1>3, <1>4, <1>5 DEF Next

LEMMA OnceInvInit ==
  ASSUME InitRequests
  PROVE  OnceInv
  BY DEF InitRequests, OnceInv, Untouched, Unspent, BeforeStore

LEMMA OnceMeans == OnceInv => MockEffectOnce
  BY DEF OnceInv, Untouched, MockEffectOnce

\* What others do elsewhere does not matter to either invariant.
LEMMA SoloFrame ==
  ASSUME SoloInv, OnceInv, UNCHANGED <<request, attempts, mockWrites, pc, job>>
  PROVE  SoloInv' /\ OnceInv'
  <1>1. FailureIsLast' /\ OnlyTransientIsRetried' /\ AttemptsAreNumbered'
    BY DEF SoloInv, FailureIsLast, LastAttempt, OnlyTransientIsRetried, AttemptsAreNumbered
  <1>2. \A s \in Sessions : MayCall(s)' /\ MayPublish(s)' /\ MayDecide(s)'
    BY DEF SoloInv, MayCall, MayPublish, MayDecide, LastAttempt
  <1>3. OnceInv'
    BY DEF OnceInv, Untouched, Unspent
  <1>4. QED
    BY <1>1, <1>2, <1>3 DEF SoloInv

\* The mock provider ignores the key, and still creates one object at most for a
\* request: what a handler left behind when it stopped is never tried again.
THEOREM OnceTheorem ==
  Spec /\ []SerialHandlers => []MockEffectOnce
  <1>1. Init => OnceInv
    BY OnceInvInit DEF Init
  <1>2. SerialHandlers /\ ExecutionSound /\ SoloInv /\ OnceInv /\ [Next]_vars => OnceInv'
    BY OnceInvStep DEF ExecutionSound
  <1>3. QED
    BY <1>1, <1>2, OnceMeans, SerialIsSound, PTL DEF Spec


-----------------------------------------------------------------------------
(* The case follows its request                                              *)

\* Of the requests that handlers work on, live, no two share a case.
OneRequestPerCase(live) ==
    /\ live \subseteq Requests
    /\ \A q, r \in live : CaseOf[q] = CaseOf[r] => q = r

WorkOn(live) == \A s \in Sessions : pc[s] # "idle" => job[s].request \in live

\* What the case of a request with the given status is to show.
CaseShown(status) ==
    CASE status \in {"failed_transient", "failed_permanent"} -> "failed"
      [] status = "reopen_for_investigation" -> "under_review"
      [] OTHER -> status

\* The statements that write the status of the request, those that follow with the
\* case, and the steps between the two.
RequestWriters == {"claim", "finish", "exhaust", "mark", "route", "resolve"}
CaseWriters == {"claim_case", "finish_case", "exhaust_case", "mark_case", "route_case",
                "resolve_case"}
Lagging == CaseWriters \cup {"audit_route", "audit_resolve"}

\* What a handler between the two is going to write to the case.
CaseToBe(s) ==
    CASE pc[s] = "claim_case" -> IF job[s].via = "retry" THEN "retrying" ELSE "processing"
      [] pc[s] = "finish_case" -> CaseStatusOf(ExecutionStatusOf(job[s].reply))
      [] pc[s] = "mark_case" -> "reconciled"
      [] pc[s] \in {"audit_resolve", "resolve_case"} -> RecoveryCaseStatus[job[s].via]
      [] OTHER -> "needs_manual_review"

Follows(r) == caseStatus[CaseOf[r]] = CaseShown(request[r].status)

\* Unless a handler stopped, a case lags behind its request only while a handler is
\* about to write what the request already says, or when it shows one of the statuses
\* hidden, those that others may write over the outcome of the execution.
Shows(r, hidden) == caseStatus[CaseOf[r]] \in hidden \/ Follows(r)

LagInv(live, hidden) ==
    aborts = 0 =>
        /\ \A r \in live : Shows(r, hidden) \/ At(r, Lagging) # {}
        /\ \A s \in Sessions :
             pc[s] \in Lagging => CaseToBe(s) = CaseShown(request[job[s].request].status)

LEMMA CaseMoves ==
  ASSUME TypeOK, NEW s \in Sessions, Step(s), NEW r, r = job[s].request
  PROVE  /\ pc[s] \in CaseWriters =>
              caseStatus' = [caseStatus EXCEPT ![CaseOf[r]] = CaseToBe(s)]
         /\ pc[s] \notin CaseWriters => caseStatus' = caseStatus
         /\ pc'[s] \in Lagging <=>
              pc[s] \in RequestWriters \cup {"audit_route", "audit_resolve"}
         /\ pc[s] = "claim" => pc'[s] = "claim_case"
         /\ pc[s] = "finish" => pc'[s] = "finish_case"
         /\ pc[s] = "exhaust" => pc'[s] = "exhaust_case"
         /\ pc[s] = "mark" => pc'[s] = "mark_case"
         /\ pc[s] = "route" => pc'[s] = "audit_route"
         /\ pc[s] = "audit_route" => pc'[s] = "route_case"
         /\ pc[s] = "resolve" => pc'[s] = "audit_resolve"
         /\ pc[s] = "audit_resolve" => pc'[s] = "resolve_case"
  <1> USE DEF TypeOK, ControlOK, Move, Proceed, CaseWriters, RequestWriters, Lagging
  <1>1. CASE ClaimCase(s) \/ FinishCase(s) \/ ExhaustCase(s)
    BY <1>1 DEF ClaimCase, FinishCase, ExhaustCase, UpdateCase, CaseToBe
  <1>2. CASE MarkCase(s) \/ RouteCase(s) \/ ResolveCase(s)
    BY <1>2 DEF MarkCase, RouteCase, ResolveCase, UpdateCase, CaseToBe
  <1>3. CASE Claim(s) \/ Finish(s) \/ Exhaust(s) \/ Mark(s) \/ Route(s) \/ Resolve(s)
    BY <1>3 DEF Claim, Finish, Exhaust, Mark, Route, Resolve, UpdateRequest
  <1>4. CASE Reread(s) \/ CountAttempts(s) \/ CallMock(s) \/ CallStripe(s)
    BY <1>4 DEF Reread, CountAttempts, CallMock, CallStripe, ReadOnly
  <1>5. CASE StoreAttempt(s) \/ AuditAttempt(s) \/ Recheck(s) \/ Recount(s)
    BY <1>5 DEF StoreAttempt, AuditAttempt, Recheck, Recount, ReadOnly, RecordEvent
  <1>6. CASE Lookup(s) \/ StoreRun(s) \/ AuditRun(s) \/ AuditMark(s) \/ AuditRoute(s)
    BY <1>6 DEF Lookup, StoreRun, AuditRun, AuditMark, AuditRoute, ReadOnly, RecordEvent
  <1>7. CASE Attach(s) \/ AuditResolve(s) \/ StoreRecovery(s) \/ AuditRecovery(s)
    BY <1>7 DEF Attach, AuditResolve, StoreRecovery, AuditRecovery, UpdateRequest, RecordEvent
  <1>8. QED
    BY <1>1, <1>2, <1>3, <1>4, <1>5, <1>6, <1>7 DEF Step, ExecuteStep, ReconcileStep,
       RecoverStep


LEMMA ShownStatuses ==
  /\ \A reply : CaseShown(ExecutionStatusOf(reply)) = CaseStatusOf(ExecutionStatusOf(reply))
  /\ \A action \in RecoveryActions :
       CaseShown(RecoveryStatus[action]) = RecoveryCaseStatus[action]
  /\ \A status \in {"processing", "retrying", "needs_manual_review", "reconciled"} :
       CaseShown(status) = status
  <1>1. \A reply : CaseShown(ExecutionStatusOf(reply)) = CaseStatusOf(ExecutionStatusOf(reply))
    BY DEF CaseShown, ExecutionStatusOf, CaseStatusOf
  <1>2. \A action \in RecoveryActions :
          CaseShown(RecoveryStatus[action]) = RecoveryCaseStatus[action]
    BY DEF CaseShown, RecoveryActions, RecoveryStatus, RecoveryCaseStatus
  <1>3. \A status \in {"processing", "retrying", "needs_manual_review", "reconciled"} :
          CaseShown(status) = status
    BY DEF CaseShown
  <1>4. QED
    BY <1>1, <1>2, <1>3

\* What a handler is going to write to the case is what it has just written to the
\* request, or what it was going to write before.
LEMMA LagToBe ==
  ASSUME TypeOK, NEW live, NEW hidden, LagInv(live, hidden), aborts = 0,
         NEW s \in Sessions, Step(s),
         NEW r, r = job[s].request, pc'[s] \in Lagging
  PROVE  CaseToBe(s)' = CaseShown(request'[r].status)
  <1>0. /\ pc[s] \in RequestWriters \cup {"audit_route", "audit_resolve"}
        /\ pc'[s] # "idle"
    BY CaseMoves DEF Lagging, CaseWriters
  <1>1. /\ job'[s].via = job[s].via
        /\ pc[s] \notin {"call", "lookup"} => job'[s].reply = job[s].reply
    BY <1>0, StepLocals
  <1>2. CASE pc[s] = "claim"
    <2>1. /\ pc'[s] = "claim_case"
          /\ request'[r].status = IF job[s].via = "retry" THEN "retrying" ELSE "processing"
      BY <1>2, CaseMoves, StatusMoves
    <2>2. CaseToBe(s)' = IF job[s].via = "retry" THEN "retrying" ELSE "processing"
      BY <1>1, <2>1 DEF CaseToBe
    <2>3. QED
      BY <2>1, <2>2, ShownStatuses
  <1>3. CASE pc[s] = "finish"
    <2>1. pc'[s] = "finish_case" /\ request'[r].status = ExecutionStatusOf(job[s].reply)
      BY <1>3, CaseMoves, StatusMoves
    <2>2. CaseToBe(s)' = CaseStatusOf(ExecutionStatusOf(job'[s].reply))
      BY <2>1 DEF CaseToBe, CaseStatusOf, ExecutionStatusOf
    <2>3. job'[s].reply = job[s].reply
      BY <1>1, <1>3
    <2>4. QED
      BY <2>1, <2>2, <2>3, ShownStatuses
  <1>4. CASE pc[s] \in {"exhaust", "route"}
    <2>1. /\ pc'[s] \in {"exhaust_case", "audit_route"}
          /\ request'[r].status = "needs_manual_review"
      BY <1>4, CaseMoves, StatusMoves
    <2>2. CaseToBe(s)' = "needs_manual_review"
      BY <2>1 DEF CaseToBe
    <2>3. QED
      BY <2>1, <2>2, ShownStatuses
  <1>5. CASE pc[s] = "mark"
    <2>1. pc'[s] = "mark_case" /\ request'[r].status = "reconciled"
      BY <1>5, CaseMoves, StatusMoves
    <2>2. CaseToBe(s)' = "reconciled"
      BY <2>1 DEF CaseToBe
    <2>3. QED
      BY <2>1, <2>2, ShownStatuses
  <1>6. CASE pc[s] = "resolve"
    <2>1. pc'[s] = "audit_resolve" /\ request'[r].status = RecoveryStatus[job[s].via]
      BY <1>6, CaseMoves, StatusMoves
    <2>2. CaseToBe(s)' = RecoveryCaseStatus[job[s].via]
      BY <1>1, <2>1 DEF CaseToBe
    <2>3. job[s].via \in RecoveryActions
      BY <1>6 DEF TypeOK, ControlOK, RecoverSteps
    <2>4. QED
      BY <2>1, <2>2, <2>3, ShownStatuses
  <1>7. CASE pc[s] \in {"audit_route", "audit_resolve"}
    <2>1. /\ pc[s] = "audit_route" => pc'[s] = "route_case"
          /\ pc[s] = "audit_resolve" => pc'[s] = "resolve_case"
          /\ request'[r].status = request[r].status
      BY <1>7, CaseMoves, StatusMoves
    <2>2. CaseToBe(s) = CaseShown(request[r].status)
      BY <1>7 DEF LagInv, Lagging
    <2>3. CaseToBe(s)' = CaseToBe(s)
      BY <1>1, <1>7, <2>1 DEF CaseToBe
    <2>4. QED
      BY <2>1, <2>2, <2>3
  <1>8. QED
    BY <1>0, <1>2, <1>3, <1>4, <1>5, <1>6, <1>7 DEF RequestWriters

LEMMA LagStep ==
  ASSUME SerialHandlers, TypeOK, NEW live, OneRequestPerCase(live), WorkOn(live),
         NEW hidden, LagInv(live, hidden), NEW s \in Sessions, Step(s)
  PROVE  LagInv(live, hidden)'
  <1> SUFFICES ASSUME aborts' = 0
               PROVE  /\ \A r \in live : Shows(r, hidden)' \/ At(r, Lagging)' # {}
                      /\ \A t \in Sessions :
                           pc'[t] \in Lagging =>
                             CaseToBe(t)' = CaseShown(request'[job'[t].request].status)
    BY DEF LagInv
  <1> PICK r \in Requests : r = job[s].request /\ r \in live
    BY OthersUntouched DEF WorkOn
  <1>0. /\ aborts = 0 /\ pc[s] # "idle" /\ live \subseteq Requests
        /\ pc'[s] # "idle" => job'[s].request = r
    BY OthersUntouched, WriteMoves DEF OneRequestPerCase
  <1>1. \A t \in Sessions :
          pc'[t] \in Lagging => CaseToBe(t)' = CaseShown(request'[job'[t].request].status)
    <2>1. pc'[s] \in Lagging => CaseToBe(s)' = CaseShown(request'[r].status)
      BY <1>0, LagToBe
    <2>2. pc'[s] \in Lagging => job'[s].request = r
      BY <1>0 DEF Lagging, CaseWriters
    <2>3. ASSUME NEW t \in Sessions \ {s}, pc'[t] \in Lagging
          PROVE  CaseToBe(t)' = CaseShown(request'[job'[t].request].status)
      <3>1. pc'[t] = pc[t] /\ job'[t] = job[t]
        BY Apart
      <3>2. request'[job[t].request] = request[job[t].request]
        BY <2>3, <3>1, Apart DEF Lagging, CaseWriters
      <3>3. CaseToBe(t)' = CaseToBe(t)
        BY <3>1 DEF CaseToBe
      <3>4. QED
        BY <1>0, <2>3, <3>1, <3>2, <3>3 DEF LagInv
    <2>4. QED
      BY <2>1, <2>2, <2>3
  <1>2. ASSUME NEW q \in live, q # r
        PROVE  Shows(q, hidden)' \/ At(q, Lagging)' # {}
    <2>1. At(q, Lagging) \subseteq At(q, Lagging)'
      BY <1>2, Apart DEF At
    <2>2. Shows(q, hidden) \/ At(q, Lagging) # {}
      BY <1>0 DEF LagInv
    <2>3. caseStatus'[CaseOf[q]] = caseStatus[CaseOf[q]]
      <3>1. CaseOf[q] # CaseOf[r]
        BY <1>0, <1>2 DEF OneRequestPerCase
      <3>2. \/ caseStatus' = caseStatus
            \/ caseStatus' = [caseStatus EXCEPT ![CaseOf[r]] = CaseToBe(s)]
        BY CaseMoves
      <3>3. QED
        BY <1>0, <3>1, <3>2, CaseAssumption DEF TypeOK, TablesOK
    <2>4. request'[q] = request[q]
      BY <1>0, <1>2, OthersUntouched
    <2>5. Shows(q, hidden) => Shows(q, hidden)'
      BY <2>3, <2>4 DEF Shows, Follows
    <2>6. QED
      BY <2>1, <2>2, <2>5
  <1>3. Shows(r, hidden)' \/ At(r, Lagging)' # {}
    <2>1. CASE pc'[s] \in Lagging
      <3>1. s \in At(r, Lagging)'
        BY <1>0, <2>1 DEF At, Lagging, CaseWriters
      <3>2. QED
        BY <3>1
    <2>2. CASE pc[s] \in CaseWriters
      <3>1. CaseToBe(s) = CaseShown(request[r].status)
        BY <1>0, <2>2 DEF LagInv, Lagging
      <3>2. caseStatus'[CaseOf[r]] = CaseToBe(s)
        BY <1>0, <2>2, CaseMoves, CaseAssumption DEF TypeOK, TablesOK
      <3>3. request'[r].status = request[r].status
        BY <2>2, StatusMoves DEF CaseWriters
      <3>4. QED
        BY <3>1, <3>2, <3>3 DEF Shows, Follows
    <2>3. CASE pc'[s] \notin Lagging /\ pc[s] \notin CaseWriters
      <3>1. pc[s] \notin RequestWriters /\ pc[s] \notin Lagging
        BY <2>3, CaseMoves DEF Lagging
      <3>2. At(r, Lagging) = {}
        BY <1>0, <3>1, AloneAt DEF Lagging, CaseWriters
      <3>3. Shows(r, hidden)
        BY <1>0, <3>2 DEF LagInv
      <3>4. caseStatus' = caseStatus /\ request'[r].status = request[r].status
        BY <2>3, <3>1, CaseMoves, StatusMoves DEF RequestWriters
      <3>5. QED
        BY <3>3, <3>4 DEF Shows, Follows
    <2>4. QED
      BY <2>1, <2>2, <2>3
  <1>4. QED
    BY <1>1, <1>2, <1>3


LEMMA LagSame ==
  ASSUME NEW live, NEW hidden, LagInv(live, hidden),
         UNCHANGED <<request, caseStatus, aborts>>,
         \A s \in Sessions :
           \/ pc'[s] = pc[s] /\ job'[s] = job[s]
           \/ pc[s] \notin Lagging /\ pc'[s] \notin Lagging
  PROVE  LagInv(live, hidden)'
  <1> SUFFICES ASSUME aborts = 0
               PROVE  /\ \A r \in live : Shows(r, hidden)' \/ At(r, Lagging)' # {}
                      /\ \A s \in Sessions :
                           pc'[s] \in Lagging =>
                             CaseToBe(s)' = CaseShown(request'[job'[s].request].status)
    BY DEF LagInv
  <1>1. ASSUME NEW r \in live
        PROVE  Shows(r, hidden)' \/ At(r, Lagging)' # {}
    <2>1. Shows(r, hidden) => Shows(r, hidden)'
      BY DEF Shows, Follows
    <2>2. At(r, Lagging) \subseteq At(r, Lagging)'
      BY DEF At
    <2>3. QED
      BY <2>1, <2>2 DEF LagInv
  <1>2. ASSUME NEW s \in Sessions, pc'[s] \in Lagging
        PROVE  CaseToBe(s)' = CaseShown(request'[job'[s].request].status)
    <2>1. pc'[s] = pc[s] /\ job'[s] = job[s]
      BY <1>2
    <2>2. CaseToBe(s)' = CaseToBe(s)
      BY <2>1 DEF CaseToBe
    <2>3. QED
      BY <1>2, <2>1, <2>2 DEF LagInv
  <1>3. QED
    BY <1>1, <1>2

LEMMA LagInvStep ==
  ASSUME SerialHandlers, TypeOK, NEW live, OneRequestPerCase(live), WorkOn(live),
         NEW hidden, LagInv(live, hidden), [Next]_vars
  PROVE  LagInv(live, hidden)'
  <1>1. CASE UNCHANGED vars
    BY <1>1, LagSame DEF vars
  <1>2. ASSUME NEW r \in Requests, RefundSettles(r)
        PROVE  LagInv(live, hidden)'
    BY <1>2, LagSame DEF RefundSettles
  <1>3. ASSUME NEW s \in Sessions, BeginHandler(s)
        PROVE  LagInv(live, hidden)'
    <2>1. UNCHANGED <<request, caseStatus, aborts>>
      BY <1>3, BeginKeepsTables DEF ReadOnly
    <2>2. /\ pc[s] = "idle" /\ pc'[s] \in {"claim", "lookup", "attach", "resolve"}
          /\ \A t \in Sessions \ {s} : pc'[t] = pc[t] /\ job'[t] = job[t]
      BY <1>3, BeginGuards
    <2>3. QED
      BY <2>1, <2>2, LagSame DEF Lagging, CaseWriters
  <1>4. ASSUME NEW s \in Sessions, Abort(s)
        PROVE  LagInv(live, hidden)'
    <2>1. aborts' # 0
      BY <1>4 DEF Abort, TypeOK, TablesOK
    <2>2. QED
      BY <2>1 DEF LagInv
  <1>5. QED
    BY <1>1, <1>2, <1>3, <1>4, LagStep DEF Next

\* Others may stop and may write a hidden status, and nothing else of the case.
LEMMA LagFrame ==
  ASSUME NEW live, NEW hidden, LagInv(live, hidden), UNCHANGED <<request, pc, job>>,
         aborts \in Nat, aborts' \in {aborts, aborts + 1},
         \A r \in live : \/ caseStatus'[CaseOf[r]] = caseStatus[CaseOf[r]]
                        \/ caseStatus'[CaseOf[r]] \in hidden
  PROVE  LagInv(live, hidden)'
  <1> SUFFICES ASSUME aborts' = 0
               PROVE  /\ \A r \in live : Shows(r, hidden)' \/ At(r, Lagging)' # {}
                      /\ \A s \in Sessions :
                           pc'[s] \in Lagging =>
                             CaseToBe(s)' = CaseShown(request'[job'[s].request].status)
    BY DEF LagInv
  <1>1. aborts = 0
    OBVIOUS
  <1>2. \A r \in live :
           (Shows(r, hidden) => Shows(r, hidden)') /\ At(r, Lagging)' = At(r, Lagging)
    BY DEF Shows, Follows, At
  <1>3. \A s \in Sessions : CaseToBe(s)' = CaseToBe(s)
    BY DEF CaseToBe
  <1>4. QED
    BY <1>1, <1>2, <1>3 DEF LagInv

LEMMA LagInit ==
  ASSUME NEW live, NEW hidden, InitRequests,
         \A r \in live : caseStatus[CaseOf[r]] \in hidden
  PROVE  LagInv(live, hidden)
  BY DEF InitRequests, LagInv, Shows, Lagging, CaseWriters

LEMMA LagMeans ==
  ASSUME NEW live, NEW hidden, LagInv(live, hidden), aborts = 0,
         \A s \in Sessions : pc[s] = "idle",
         NEW r \in live
  PROVE  caseStatus[CaseOf[r]] \in hidden \/ caseStatus[CaseOf[r]] = CaseShown(request[r].status)
  <1>1. At(r, Lagging) = {}
    BY DEF At, Lagging, CaseWriters
  <1>2. QED
    BY <1>1 DEF LagInv, Shows, Follows

\* Between handlers a case shows the status of its request, as long as no handler
\* stopped midway and no other request shares the case.
THEOREM CaseTheorem ==
  ASSUME OneRequestPerCase(Requests)
  PROVE  Spec /\ []SerialHandlers => []CaseFollowsRequest
  <1>1. Init => LagInv(Requests, {})
    <2>1. Init => \A r \in Requests : Follows(r)
      BY CaseAssumption DEF Init, InitRequests, NewRow, Follows, CaseShown
    <2>2. Init => \A s \in Sessions : pc[s] \notin Lagging
      BY DEF Init, InitRequests, Lagging, CaseWriters
    <2>3. QED
      BY <2>1, <2>2 DEF LagInv, Shows
  <1>2. LagInv(Requests, {}) => CaseFollowsRequest
    <2>1. ASSUME LagInv(Requests, {}), aborts = 0, \A s \in Sessions : pc[s] = "idle",
                 NEW r \in Requests
          PROVE  caseStatus[CaseOf[r]] = CaseShown(request[r].status)
      BY <2>1, LagMeans
    <2>2. QED
      BY <2>1 DEF CaseFollowsRequest, CaseShown
  <1>3. SerialHandlers /\ TypeOK /\ LagInv(Requests, {}) /\ [Next]_vars => LagInv(Requests, {})'
    <2>1. TypeOK => WorkOn(Requests)
      BY DEF TypeOK, ControlOK, WorkOn
    <2>2. QED
      BY <2>1, LagInvStep
  <1>4. QED
    BY <1>1, <1>2, <1>3, TypeCorrect, PTL DEF Spec


-----------------------------------------------------------------------------
(* Who is told to retry may retry                                            *)

Publishing == {"audit_attempt", "finish"}
Checking == {"finish_case", "recheck", "recount", "exhaust"}

\* A first execution has no attempt before it, and one when it publishes its outcome.
FirstAttempt(s) ==
    job[s].via # "retry" =>
        /\ pc[s] \in BeforeStore => attempts[job[s].request] = <<>>
        /\ pc[s] \in Publishing => Len(attempts[job[s].request]) = 1

\* A request with a transient failure has attempts left, or is being checked by the
\* retry that failed.
AttemptsLeft(r) ==
    request[r].status = "failed_transient" =>
        \/ Len(attempts[r]) < MAX_RETRY_ATTEMPTS
        \/ \E s \in At(r, Checking) : job[s].via = "retry"

AdviceInv ==
    /\ \A s \in Sessions : FirstAttempt(s)
    /\ aborts = 0 => \A r \in Requests : AttemptsLeft(r)

LEMMA CheckMoves ==
  ASSUME TypeOK, NEW s \in Sessions, Step(s)
  PROVE  /\ pc[s] = "finish_case" /\ job[s].via = "retry" => pc'[s] = "recheck"
         /\ pc[s] = "recheck" => pc'[s] = "recount"
         /\ pc[s] = "recount" => pc'[s] = "exhaust" \/ ~Exhausted(s)
         /\ pc'[s] # "claim"
  <1> USE DEF TypeOK, ControlOK, Move, Proceed
  <1>1. CASE Claim(s) \/ ClaimCase(s) \/ Reread(s) \/ CountAttempts(s) \/ CallMock(s)
             \/ CallStripe(s)
    BY <1>1 DEF Claim, ClaimCase, Reread, CountAttempts, CallMock, CallStripe
  <1>2. CASE StoreAttempt(s) \/ AuditAttempt(s) \/ Finish(s) \/ FinishCase(s)
    BY <1>2 DEF StoreAttempt, AuditAttempt, Finish, FinishCase
  <1>3. CASE Recheck(s) \/ Recount(s) \/ Exhaust(s) \/ ExhaustCase(s)
    BY <1>3 DEF Recheck, Recount, Exhaust, ExhaustCase
  <1>4. CASE ReconcileStep(s)
    BY <1>4 DEF ReconcileStep, Lookup, StoreRun, AuditRun, Mark, MarkCase, AuditMark, Route,
                AuditRoute, RouteCase
  <1>5. CASE RecoverStep(s)
    BY <1>5 DEF RecoverStep, Attach, Resolve, AuditResolve, ResolveCase, StoreRecovery,
                AuditRecovery
  <1>6. QED
    BY <1>1, <1>2, <1>3, <1>4, <1>5 DEF Step, ExecuteStep

LEMMA FirstAttemptStep ==
  ASSUME TypeOK, AdviceInv, NEW s \in Sessions, Step(s)
  PROVE  FirstAttempt(s)'
  <1> SUFFICES ASSUME job'[s].via # "retry"
               PROVE  /\ pc'[s] \in BeforeStore => attempts'[job'[s].request] = <<>>
                      /\ pc'[s] \in Publishing => Len(attempts'[job'[s].request]) = 1
    BY DEF FirstAttempt, BeforeStore, Publishing
  <1> PICK r \in Requests : r = job[s].request
    BY OthersUntouched
  <1>1. FirstAttempt(s) /\ attempts[r] \in Seq(AttemptRows)
    BY DEF AdviceInv, TypeOK, TablesOK
  <1>2. pc'[s] # "idle" => job'[s].request = r /\ job[s].via # "retry"
    BY OthersUntouched, StepLocals
  <1>3. ASSUME pc'[s] \in BeforeStore
        PROVE  attempts'[job'[s].request] = <<>>
    <2>1. pc[s] \in BeforeStore \ {"store"} /\ pc'[s] # "idle"
      BY <1>3, Moves DEF BeforeStore
    <2>2. attempts' = attempts
      BY <2>1, AttemptMoves
    <2>3. QED
      BY <1>1, <1>2, <2>1, <2>2 DEF FirstAttempt
  <1>4. ASSUME pc'[s] \in Publishing
        PROVE  Len(attempts'[job'[s].request]) = 1
    <2>1. pc[s] \in {"store", "audit_attempt"} /\ pc'[s] # "idle"
      BY <1>4, Flow DEF Publishing
    <2>2. CASE pc[s] = "store"
      <3>1. Len(attempts'[r]) = Len(attempts[r]) + 1
        BY <2>2, AfterStore
      <3>2. attempts[r] = <<>>
        BY <1>1, <1>2, <2>1, <2>2 DEF FirstAttempt, BeforeStore
      <3>3. QED
        BY <1>2, <2>1, <3>1, <3>2
    <2>3. CASE pc[s] = "audit_attempt"
      BY <1>1, <1>2, <2>1, <2>3, AttemptMoves DEF FirstAttempt, Publishing
    <2>4. QED
      BY <2>1, <2>2, <2>3
  <1>5. QED
    BY <1>3, <1>4

\* The request a handler works on, after its step.
LEMMA AttemptsLeftStep ==
  ASSUME SerialHandlers, MAX_RETRY_ATTEMPTS > 1, TypeOK, SoloInv, AdviceInv, aborts = 0,
         NEW s \in Sessions, Step(s), NEW r \in Requests, r = job[s].request
  PROVE  AttemptsLeft(r)'
  <1> SUFFICES ASSUME request'[r].status = "failed_transient"
               PROVE  \/ Len(attempts'[r]) < MAX_RETRY_ATTEMPTS
                      \/ \E t \in At(r, Checking)' : job'[t].via = "retry"
    BY DEF AttemptsLeft
  <1>0. /\ pc'[s] # "idle" => job'[s].request = r /\ job'[s].via = job[s].via
        /\ AttemptsLeft(r) /\ FirstAttempt(s)
    BY OthersUntouched, StepLocals DEF AdviceInv
  <1>1. ASSUME pc'[s] \in Checking, job[s].via = "retry"
        PROVE  \E t \in At(r, Checking)' : job'[t].via = "retry"
    <2>1. pc'[s] # "idle"
      BY <1>1 DEF Checking
    <2>2. s \in At(r, Checking)' /\ job'[s].via = "retry"
      BY <1>0, <1>1, <2>1 DEF At, Checking
    <2>3. QED
      BY <2>2
  <1>2. CASE pc[s] = "finish"
    <2>1. pc'[s] = "finish_case" /\ attempts' = attempts
      BY <1>2, CaseMoves, AttemptMoves
    <2>2. CASE job[s].via = "retry"
      BY <1>1, <2>1, <2>2 DEF Checking
    <2>3. CASE job[s].via # "retry"
      BY <1>0, <1>2, <2>1, <2>3 DEF FirstAttempt, Publishing
    <2>4. QED
      BY <2>2, <2>3
  <1>3. CASE pc[s] # "finish"
    <2>1. pc[s] \notin {"claim", "exhaust", "route", "mark", "resolve"}
      <3>1. pc[s] = "resolve" => job[s].via \in RecoveryActions
        BY DEF TypeOK, ControlOK, RecoverSteps
      <3>2. QED
        BY <3>1, StatusMoves DEF RecoveryActions, RecoveryStatus
    <2>2. request[r].status = "failed_transient"
      BY <1>3, <2>1, StatusMoves
    <2>3. pc[s] # "store"
      BY <2>2 DEF SoloInv, MayCall, Working, ExecuteSteps, InProgress
    <2>4. attempts' = attempts
      BY <2>3, AttemptMoves
    <2>5. CASE Len(attempts[r]) < MAX_RETRY_ATTEMPTS
      BY <2>4, <2>5
    <2>6. CASE ~(Len(attempts[r]) < MAX_RETRY_ATTEMPTS)
      <3>1. pc[s] \in Checking /\ job[s].via = "retry"
        <4>1. pc[s] # "idle" /\ "idle" \notin Checking
          BY OthersUntouched DEF Checking
        <4>2. At(r, Checking) = IF pc[s] \in Checking THEN {s} ELSE {}
          BY <4>1, AloneAt
        <4>3. QED
          BY <1>0, <2>2, <2>6, <4>2 DEF AttemptsLeft
      <3>2. pc[s] \in {"finish_case", "recheck", "recount"}
        BY <2>1, <3>1 DEF Checking
      <3>3. pc[s] = "recount" => Exhausted(s)
        <4>1. pc[s] = "recount" => job[s].seen.status = "failed_transient"
          BY <2>2 DEF SoloInv, MayPublish
        <4>2. Len(attempts[r]) >= MAX_RETRY_ATTEMPTS
          BY <2>6, RetryLimitAssumption DEF TypeOK, TablesOK
        <4>3. QED
          BY <4>1, <4>2 DEF Exhausted
      <3>4. pc'[s] \in Checking
        BY <3>1, <3>2, <3>3, CheckMoves DEF Checking
      <3>5. QED
        BY <1>1, <3>1, <3>4
    <2>7. QED
      BY <2>5, <2>6
  <1>4. QED
    BY <1>2, <1>3

LEMMA AdviceSame ==
  ASSUME AdviceInv, UNCHANGED <<request, attempts>>, aborts' = 0 => aborts = 0,
         \A s \in Sessions :
           \/ pc'[s] = pc[s] /\ job'[s] = job[s]
           \/ /\ aborts' # 0 \/ pc[s] = "idle"
              /\ pc'[s] \in {"idle", "lookup", "attach", "resolve"}
           \/ /\ pc[s] = "idle" /\ pc'[s] = "claim"
              /\ job'[s].via # "retry" => attempts[job'[s].request] = <<>>
  PROVE  AdviceInv'
  <1>1. ASSUME NEW s \in Sessions
        PROVE  FirstAttempt(s)'
    BY DEF AdviceInv, FirstAttempt, BeforeStore, Publishing
  <1>2. ASSUME aborts' = 0, NEW r \in Requests
        PROVE  AttemptsLeft(r)'
    <2>1. AttemptsLeft(r)
      BY <1>2 DEF AdviceInv
    <2>2. ASSUME NEW s \in At(r, Checking)
          PROVE  s \in At(r, Checking)' /\ job'[s] = job[s]
      BY <1>2, <2>2 DEF At, Checking
    <2>3. QED
      BY <2>1, <2>2 DEF AttemptsLeft
  <1>3. QED
    BY <1>1, <1>2 DEF AdviceInv

LEMMA AdviceInvStep ==
  ASSUME SerialHandlers, MAX_RETRY_ATTEMPTS > 1, TypeOK, PendingInv, SoloInv, AdviceInv,
         [Next]_vars
  PROVE  AdviceInv'
  <1>1. CASE UNCHANGED vars
    BY <1>1, AdviceSame DEF vars
  <1>2. ASSUME NEW r \in Requests, RefundSettles(r)
        PROVE  AdviceInv'
    BY <1>2, AdviceSame DEF RefundSettles
  <1>3. ASSUME NEW s \in Sessions, BeginHandler(s)
        PROVE  AdviceInv'
    <2>1. UNCHANGED <<request, attempts, aborts>>
      BY <1>3, BeginKeepsTables DEF ReadOnly
    <2>2. \/ pc'[s] \in {"lookup", "attach", "resolve"}
          \/ /\ pc'[s] = "claim" /\ job'[s].request \in Requests
             /\ job'[s].via # "retry" =>
                  request[job'[s].request].status = "execution_pending"
      BY <1>3, BeginGuards
    <2>3. \/ pc'[s] \in {"lookup", "attach", "resolve"}
          \/ /\ pc'[s] = "claim"
             /\ job'[s].via # "retry" => attempts[job'[s].request] = <<>>
      BY <2>2 DEF PendingInv
    <2>4. /\ pc[s] = "idle"
          /\ \A t \in Sessions \ {s} : pc'[t] = pc[t] /\ job'[t] = job[t]
      BY <1>3, BeginGuards
    <2>5. QED
      BY <2>1, <2>3, <2>4, AdviceSame
  <1>4. ASSUME NEW s \in Sessions, Abort(s)
        PROVE  AdviceInv'
    <2>1. /\ UNCHANGED <<request, attempts>> /\ pc'[s] = "idle" /\ aborts' # 0
          /\ \A t \in Sessions \ {s} : pc'[t] = pc[t] /\ job'[t] = job[t]
      BY <1>4 DEF Abort, TypeOK, TablesOK, ControlOK
    <2>2. QED
      BY <2>1, AdviceSame
  <1>5. ASSUME NEW s \in Sessions, Step(s)
        PROVE  AdviceInv'
    <2>1. ASSUME NEW t \in Sessions
          PROVE  FirstAttempt(t)'
      <3>1. CASE t = s
        BY <1>5, <3>1, FirstAttemptStep
      <3>2. CASE t # s
        <4>1. /\ pc'[t] = pc[t] /\ job'[t] = job[t]
              /\ pc[t] # "idle" => attempts'[job[t].request] = attempts[job[t].request]
          BY <1>5, <3>2, Apart
        <4>2. QED
          BY <4>1 DEF AdviceInv, FirstAttempt, BeforeStore, Publishing
      <3>3. QED
        BY <3>1, <3>2
    <2>2. ASSUME aborts' = 0, NEW r \in Requests
          PROVE  AttemptsLeft(r)'
      <3>0. aborts = 0
        BY <1>5, <2>2, WriteMoves
      <3>1. CASE r = job[s].request
        BY <1>5, <3>0, <3>1, AttemptsLeftStep
      <3>2. CASE r # job[s].request
        <4>1. request'[r] = request[r] /\ attempts'[r] = attempts[r]
          BY <1>5, <3>2, OthersUntouched
        <4>2. ASSUME NEW t \in At(r, Checking)
              PROVE  t \in At(r, Checking)' /\ job'[t] = job[t]
          <5>1. pc'[t] = pc[t] /\ job'[t] = job[t]
            BY <1>5, <3>2, <4>2, OthersUntouched DEF At
          <5>2. QED
            BY <4>2, <5>1 DEF At
        <4>3. QED
          BY <3>0, <4>1, <4>2 DEF AdviceInv, AttemptsLeft
      <3>3. QED
        BY <3>1, <3>2
    <2>3. QED
      BY <2>1, <2>2 DEF AdviceInv
  <1>6. QED
    BY <1>1, <1>2, <1>3, <1>4, <1>5 DEF Next

LEMMA AdviceInit ==
  ASSUME InitRequests
  PROVE  AdviceInv
  <1>1. \A s \in Sessions : FirstAttempt(s)
    BY DEF InitRequests, FirstAttempt, BeforeStore, Publishing
  <1>2. \A r \in Requests : AttemptsLeft(r)
    BY DEF InitRequests, NewRow, AttemptsLeft
  <1>3. QED
    BY <1>1, <1>2 DEF AdviceInv

LEMMA AdviceMeans == AdviceInv => RetryAdviceHolds
  <1>1. ASSUME AdviceInv, Quiet, NEW r \in Requests, Guidance(request[r].status) = "retry"
        PROVE  Retryable(request[r].status, Len(attempts[r]))
    <2>1. request[r].status = "failed_transient"
      BY <1>1 DEF Guidance, InProgress
    <2>2. At(r, Checking) = {}
      BY <1>1 DEF Quiet, At, Checking
    <2>3. QED
      BY <1>1, <2>1, <2>2 DEF AdviceInv, Quiet, AttemptsLeft, Retryable
  <1>2. QED
    BY <1>1 DEF RetryAdviceHolds

\* Between handlers, who is told that a retry is allowed gets one, as long as the limit
\* leaves room for a retry at all and no handler stopped midway.
THEOREM AdviceTheorem ==
  ASSUME MAX_RETRY_ATTEMPTS > 1
  PROVE  Spec /\ []SerialHandlers => []RetryAdviceHolds
  <1>1. Init => AdviceInv
    BY AdviceInit DEF Init
  <1>2. SerialHandlers /\ ExecutionSound /\ SoloInv /\ AdviceInv /\ [Next]_vars => AdviceInv'
    BY AdviceInvStep DEF ExecutionSound
  <1>3. AdviceInv => RetryAdviceHolds
    BY AdviceMeans
  <1>4. QED
    BY <1>1, <1>2, <1>3, SerialIsSound, PTL DEF Spec

-----------------------------------------------------------------------------
(* A success nobody checked stays on the queue                               *)

BeforeOutcome == {"execution_pending", "failed_transient"} \cup InProgress

SawSuccess(r) == \E i \in 1 .. Len(runs[r]) : runs[r][i].internal_status = "succeeded"
SawOnlySuccess(r) == \A i \in 1 .. Len(runs[r]) : runs[r][i].internal_status = "succeeded"
NoResult(r) == \A i \in 1 .. Len(runs[r]) : runs[r][i].result = "not_ready_for_reconciliation"

\* A handler that has stored a run and is about to move the request for it.
Deciding(s) == \/ pc[s] \in {"mark", "route"}
               \/ pc[s] = "audit_run" /\ Evaluated(s).action # "no_change"

\* A request that a run has seen succeeded is never executed again; one whose success
\* is off the queue of the unreconciled is about to be moved.
QueueKept(r) ==
    /\ SawSuccess(r) => request[r].status \notin BeforeOutcome
    /\ aborts = 0 /\ request[r].status = "succeeded" /\ SawOnlySuccess(r) =>
         NoResult(r) \/ \E s \in Sessions : job[s].request = r /\ Deciding(s)

QueueInv == \A r \in Requests : QueueKept(r)

\* A run about a success has a result only if it also moves the request.
LEMMA SuccessVerdict ==
  ASSUME NEW provider, EvaluateReconciliation("succeeded", provider).action = "no_change"
  PROVE  EvaluateReconciliation("succeeded", provider).result = "not_ready_for_reconciliation"
  BY DEF EvaluateReconciliation, Verdict

\* Where a reconciliation goes after its run is stored.
LEMMA DecidingMoves ==
  ASSUME TypeOK, NEW s \in Sessions, Step(s)
  PROVE  /\ pc[s] = "store_run" => pc'[s] = "audit_run" /\ Evaluated(s)' = Evaluated(s)
         /\ pc[s] = "audit_run" /\ Evaluated(s).action # "no_change" => pc'[s] \in {"mark", "route"}
  <1> USE DEF TypeOK, ControlOK, Move, Proceed
  <1>1. CASE ExecuteStep(s)
    BY <1>1 DEF ExecuteStep, Claim, ClaimCase, Reread, CountAttempts, CallMock, CallStripe,
        StoreAttempt, AuditAttempt, Finish, FinishCase, Recheck, Recount, Exhaust, ExhaustCase
  <1>2. CASE StoreRun(s)
    BY <1>2 DEF StoreRun, Evaluated
  <1>3. CASE AuditRun(s)
    BY <1>3, VerdictTypes DEF AuditRun, Evaluated
  <1>4. CASE Lookup(s) \/ Mark(s) \/ MarkCase(s) \/ AuditMark(s) \/ Route(s) \/ AuditRoute(s)
             \/ RouteCase(s)
    BY <1>4 DEF Lookup, Mark, MarkCase, AuditMark, Route, AuditRoute, RouteCase
  <1>5. CASE RecoverStep(s)
    BY <1>5 DEF RecoverStep, Attach, Resolve, AuditResolve, ResolveCase, StoreRecovery,
                AuditRecovery
  <1>6. QED
    BY <1>1, <1>2, <1>3, <1>4, <1>5 DEF Step, ReconcileStep

\* Storing a run: what it says is what the request reads, and if it takes the request
\* off the queue its handler goes on to move it.
LEMMA QueueStore ==
  ASSUME SerialHandlers, TypeOK, SoloInv, QueueInv, aborts' = aborts,
         NEW s \in Sessions, Step(s), pc[s] = "store_run", NEW r \in Requests, r = job[s].request
  PROVE  QueueKept(r)'
  <1> DEFINE n == Len(runs[r]) + 1
  <1>0. /\ request'[r].status = request[r].status /\ job[s].seen.status = request[r].status
        /\ job'[s].request = r
        /\ pc'[s] = "audit_run" /\ Evaluated(s)' = Evaluated(s)
    BY OthersUntouched, StatusMoves, DecidingMoves DEF SoloInv, MayDecide
  <1>1. /\ n - 1 \in Nat /\ Len(runs'[r]) = n /\ n - 1 = Len(runs[r])
        /\ \A i \in 1 .. n - 1 : runs'[r][i] = runs[r][i]
        /\ runs'[r][n] = RunOf(s)
    BY RunMoves
  <1> HIDE DEF n
  <1>2. ASSUME SawSuccess(r)'
        PROVE  request'[r].status \notin BeforeOutcome
    <2>1. PICK i \in 1 .. n : runs'[r][i].internal_status = "succeeded"
      BY <1>1, <1>2 DEF SawSuccess
    <2>2. CASE i = n
      <3>1. request[r].status = "succeeded"
        BY <1>0, <1>1, <2>1, <2>2 DEF RunOf
      <3>2. QED
        BY <1>0, <3>1 DEF BeforeOutcome, InProgress
    <2>3. CASE i \in 1 .. n - 1
      BY <1>0, <1>1, <2>1, <2>3 DEF QueueInv, QueueKept, SawSuccess
    <2>4. QED
      BY <1>1, <2>2, <2>3
  <1>3. ASSUME aborts' = 0, request'[r].status = "succeeded", SawOnlySuccess(r)', ~Deciding(s)'
        PROVE  NoResult(r)'
    <2>1. SawOnlySuccess(r) /\ 1 .. n - 1 \subseteq 1 .. n
      BY <1>1, <1>3 DEF SawOnlySuccess
    <2>2. ~Deciding(s)
      BY DEF Deciding
    <2>3. NoResult(r)
      <3>1. \A t \in Sessions \ {s} : job[t].request = r => ~Deciding(t)
        <4>1. pc[s] # "idle"
          BY OthersUntouched
        <4>2. QED
          BY <4>1 DEF SerialHandlers, Deciding
      <3>2. QED
        BY <1>0, <1>3, <2>1, <2>2, <3>1 DEF QueueInv, QueueKept
    <2>4. Evaluated(s).action = "no_change"
      BY <1>0, <1>3 DEF Deciding
    <2>5. Evaluated(s).result = "not_ready_for_reconciliation"
      BY <1>0, <1>3, <2>4, SuccessVerdict DEF Evaluated
    <2>6. \A i \in 1 .. n : i = n \/ i \in 1 .. n - 1
      BY <1>1
    <2>7. QED
      BY <1>1, <2>3, <2>5, <2>6 DEF NoResult, RunOf
  <1>4. QED
    BY <1>0, <1>2, <1>3 DEF QueueKept

\* Any other step of the handler.
LEMMA QueueStep ==
  ASSUME SerialHandlers, TypeOK, SoloInv, QueueInv, aborts' = aborts,
         NEW s \in Sessions, Step(s), pc[s] # "store_run", NEW r \in Requests, r = job[s].request
  PROVE  QueueKept(r)'
  <1>0. runs' = runs /\ QueueKept(r) /\ (pc'[s] # "idle" => job'[s].request = r)
    BY RunMoves, OthersUntouched DEF QueueInv
  <1>1. ASSUME pc[s] \in {"claim", "finish"}
        PROVE  request[r].status \in BeforeOutcome
    BY <1>1 DEF SoloInv, MayCall, Working, ExecuteSteps, Retryable, BeforeOutcome
  <1>2. request'[r].status \in BeforeOutcome =>
          pc[s] \in {"claim", "finish"} \/ request'[r].status = request[r].status
    <2>1. pc[s] = "resolve" => job[s].via \in RecoveryActions
      BY DEF TypeOK, ControlOK, RecoverSteps
    <2>2. QED
      BY <2>1, StatusMoves DEF RecoveryActions, RecoveryStatus, BeforeOutcome, InProgress
  <1>3. SawSuccess(r)' => request'[r].status \notin BeforeOutcome
    BY <1>0, <1>1, <1>2 DEF QueueKept, SawSuccess
  <1>4. ASSUME aborts' = 0, request'[r].status = "succeeded", SawOnlySuccess(r)', ~NoResult(r)'
        PROVE  \E t \in Sessions : job'[t].request = r /\ Deciding(t)'
    <2>1. SawOnlySuccess(r) /\ ~NoResult(r) /\ SawSuccess(r)
      BY <1>0, <1>4 DEF SawOnlySuccess, NoResult, SawSuccess
    <2>2. pc[s] \notin {"claim", "finish"}
      BY <1>0, <1>1, <2>1 DEF QueueKept
    <2>3. request[r].status = "succeeded" /\ pc[s] \notin {"mark", "route"}
      <3>1. pc[s] = "resolve" => job[s].via \in RecoveryActions
        BY DEF TypeOK, ControlOK, RecoverSteps
      <3>2. QED
        BY <1>4, <2>2, <3>1, StatusMoves DEF RecoveryActions, RecoveryStatus
    <2>4. Deciding(s)
      <3>1. PICK t \in Sessions : job[t].request = r /\ Deciding(t)
        BY <1>0, <1>4, <2>1, <2>3 DEF QueueKept
      <3>2. pc[s] # "idle" /\ pc[t] # "idle"
        BY <3>1, OthersUntouched DEF Deciding
      <3>3. QED
        BY <3>1, <3>2 DEF SerialHandlers
    <2>5. pc'[s] \in {"mark", "route"}
      BY <2>3, <2>4, DecidingMoves DEF Deciding
    <2>6. QED
      BY <1>0, <2>5 DEF Deciding
  <1>5. QED
    BY <1>3, <1>4 DEF QueueKept

\* Who neither writes the request nor stores a run disturbs nothing.
LEMMA QueueSame ==
  ASSUME QueueInv, UNCHANGED <<request, runs>>, aborts' = 0 => aborts = 0,
         \A s \in Sessions :
           \/ pc'[s] = pc[s] /\ job'[s] = job[s]
           \/ aborts' # 0 \/ pc[s] = "idle"
  PROVE  QueueInv'
  <1> SUFFICES ASSUME NEW r \in Requests
               PROVE  QueueKept(r)'
    BY DEF QueueInv
  <1>1. QueueKept(r)
    BY DEF QueueInv
  <1>2. /\ SawSuccess(r)' = SawSuccess(r) /\ SawOnlySuccess(r)' = SawOnlySuccess(r)
        /\ NoResult(r)' = NoResult(r)
    BY DEF SawSuccess, SawOnlySuccess, NoResult
  <1>3. ASSUME aborts' = 0, NEW s \in Sessions, job[s].request = r, Deciding(s)
        PROVE  job'[s].request = r /\ Deciding(s)'
    BY <1>3 DEF Deciding, Evaluated
  <1>4. QED
    BY <1>1, <1>2, <1>3 DEF QueueKept

LEMMA QueueInvStep ==
  ASSUME SerialHandlers, TypeOK, SoloInv, QueueInv, [Next]_vars
  PROVE  QueueInv'
  <1>1. CASE UNCHANGED vars
    BY <1>1, QueueSame DEF vars
  <1>2. ASSUME NEW r \in Requests, RefundSettles(r)
        PROVE  QueueInv'
    BY <1>2, QueueSame DEF RefundSettles
  <1>3. ASSUME NEW s \in Sessions, BeginHandler(s)
        PROVE  QueueInv'
    <2>1. UNCHANGED <<request, runs, aborts>>
      BY <1>3, BeginKeepsTables DEF ReadOnly
    <2>2. pc[s] = "idle" /\ \A t \in Sessions \ {s} : pc'[t] = pc[t] /\ job'[t] = job[t]
      BY <1>3, BeginGuards
    <2>3. QED
      BY <2>1, <2>2, QueueSame
  <1>4. ASSUME NEW s \in Sessions, Abort(s)
        PROVE  QueueInv'
    <2>1. UNCHANGED <<request, runs>> /\ aborts' # 0
      BY <1>4 DEF Abort, TypeOK, TablesOK
    <2>2. QED
      BY <2>1, QueueSame
  <1>5. ASSUME NEW s \in Sessions, Step(s), NEW r \in Requests
        PROVE  QueueKept(r)'
    <2>0. aborts' = aborts
      BY <1>5, StepKeepsAborts
    <2>1. CASE r = job[s].request
      BY <1>5, <2>0, <2>1, QueueStore, QueueStep
    <2>2. CASE r # job[s].request
      <3>1. request'[r] = request[r] /\ runs'[r] = runs[r]
        BY <1>5, <2>2, OthersUntouched
      <3>2. ASSUME NEW t \in Sessions, job[t].request = r, Deciding(t)
            PROVE  job'[t].request = r /\ Deciding(t)'
        <4>1. pc'[t] = pc[t] /\ job'[t] = job[t]
          BY <1>5, <2>2, <3>2, OthersUntouched
        <4>2. QED
          BY <3>2, <4>1 DEF Deciding, Evaluated
      <3>3. /\ SawSuccess(r)' = SawSuccess(r) /\ SawOnlySuccess(r)' = SawOnlySuccess(r)
            /\ NoResult(r)' = NoResult(r)
        BY <3>1 DEF SawSuccess, SawOnlySuccess, NoResult
      <3>4. QED
        BY <2>0, <3>1, <3>2, <3>3 DEF QueueInv, QueueKept
    <2>3. QED
      BY <2>1, <2>2
  <1>6. QED
    BY <1>1, <1>2, <1>3, <1>4, <1>5 DEF Next, QueueInv

LEMMA QueueInit ==
  ASSUME InitRequests
  PROVE  QueueInv
  BY DEF InitRequests, NewRow, QueueInv, QueueKept, SawSuccess, NoResult

LEMMA QueueMeans ==
  ASSUME TypeOK, WaitingIsJustified, QueueInv
  PROVE  OpenWorkIsListed
  <1> SUFFICES ASSUME Quiet, NEW r \in Requests,
                      Guidance(request[r].status) \in {"wait", "retry", "reconcile", "recover"}
               PROVE  \/ r \in NeedsAttentionQueue \cup UnreconciledQueue
                      \/ /\ request[r].status = "succeeded"
                         /\ \E i \in 1 .. Len(runs[r]) :
                              runs[r][i].internal_status # "succeeded"
    BY DEF OpenWorkIsListed
  <1>1. request[r].status \in StoredStatuses
    BY DEF TypeOK, TablesOK, Rows
  <1>2. Guidance(request[r].status) # "wait"
    <2>1. \A steps : "idle" \notin steps => At(r, steps) = {}
      BY DEF Quiet, At
    <2>2. "idle" \notin ExecuteSteps
      BY DEF ExecuteSteps
    <2>3. QED
      BY <2>1, <2>2 DEF Quiet, WaitingIsJustified
  <1>3. request[r].status \in {"succeeded", "failed_transient", "failed_permanent",
                               "needs_manual_review"}
    BY <1>1, <1>2 DEF Guidance, InProgress, StoredStatuses, ExecutionStatuses
  <1>4. CASE request[r].status # "succeeded"
    BY <1>3, <1>4 DEF NeedsAttentionQueue, WithStatus
  <1>5. CASE request[r].status = "succeeded" /\ SawOnlySuccess(r)
    <2>1. \A s \in Sessions : ~Deciding(s)
      BY DEF Quiet, Deciding
    <2>2. NoResult(r)
      BY <1>5, <2>1 DEF QueueInv, QueueKept, Quiet
    <2>3. QED
      BY <1>5, <2>2 DEF UnreconciledQueue, WithStatus, NoResult
  <1>6. QED
    BY <1>4, <1>5 DEF SawOnlySuccess

\* Between handlers, as long as none stopped midway, whoever is advised to wait, to retry,
\* to reconcile or to recover is on a queue of the dashboard, but for a success that a run
\* about an earlier status hides.
THEOREM QueueTheorem ==
  Spec /\ []SerialHandlers => []OpenWorkIsListed
  <1>1. Init => QueueInv
    BY QueueInit DEF Init
  <1>2. SerialHandlers /\ ExecutionSound /\ SoloInv /\ QueueInv /\ [Next]_vars => QueueInv'
    BY QueueInvStep DEF ExecutionSound
  <1>3. ExecutionSound /\ QueueInv => OpenWorkIsListed
    BY QueueMeans, ExecutionSoundMeans DEF ExecutionSound
  <1>4. QED
    BY <1>1, <1>2, <1>3, ExecutionIsSound, SerialIsSound, PTL DEF Spec
=============================================================================
