------------------------------ MODULE TrailProofs ------------------------------
(***************************************************************************)
(* What the tables of execution owe each other, proved for every number of *)
(* sessions, requests, attempts, runs, recoveries and stops: each row has  *)
(* its audit event and each object of the mock provider its success, but   *)
(* for the handlers between the two statements and those that stopped      *)
(* there; and the figures the dashboard counts from them agree.            *)
(***************************************************************************)
EXTENDS EvidenceProofs, SessionSets

-----------------------------------------------------------------------------
(* The audit trail                                                           *)

\* Where a row is stored, and where its event is recorded, per kind of event.
TrailEvents == {"attempt", "run", "recovery"}
Storing(event) == CASE event = "attempt" -> "store"
                    [] event = "run" -> "store_run"
                    [] event = "recovery" -> "store_recovery"
Auditing(event) == CASE event = "attempt" -> "audit_attempt"
                     [] event = "run" -> "audit_run"
                     [] event = "recovery" -> "audit_recovery"
RowCount(r, event) == CASE event = "attempt" -> Len(attempts[r])
                        [] event = "run" -> Len(runs[r])
                        [] event = "recovery" -> Len(recoveries[r])

\* The rows are the events recorded and those on the way, and the ones lost with a
\* handler: an event on the way has its row already.
TrailKept(r, event) ==
    LET between == Cardinality(At(r, {Auditing(event)}))
    IN  /\ audit[r][event] + between <= RowCount(r, event)
        /\ RowCount(r, event) <= audit[r][event] + between + aborts

TrailInv == \A r \in Requests : \A event \in TrailEvents : TrailKept(r, event)

LEMMA TrailTypes ==
  ASSUME TypeOK, NEW r \in Requests, NEW event \in TrailEvents
  PROVE  /\ audit[r][event] \in Nat /\ RowCount(r, event) \in Nat /\ aborts \in Nat
         /\ IsFiniteSet(At(r, {Auditing(event)}))
  <1>1. audit[r][event] \in Nat /\ aborts \in Nat
    BY DEF TypeOK, TablesOK, TrailEvents, Events
  <1>2. RowCount(r, event) \in Nat
    BY DEF TypeOK, TablesOK, TrailEvents, RowCount
  <1>3. QED
    BY <1>1, <1>2, SessionsAt

\* A statement adds a row, or records the event of one.
TrailMoves(s, r, event) ==
    /\ pc[s] = Storing(event) =>
         /\ pc'[s] = Auditing(event) /\ RowCount(r, event)' = RowCount(r, event) + 1
         /\ audit'[r][event] = audit[r][event]
    /\ pc[s] = Auditing(event) =>
         /\ pc'[s] # Auditing(event) /\ RowCount(r, event)' = RowCount(r, event)
         /\ audit'[r][event] = audit[r][event] + 1
    /\ pc[s] \notin {Storing(event), Auditing(event)} =>
         /\ pc'[s] # Auditing(event) /\ RowCount(r, event)' = RowCount(r, event)
         /\ audit'[r][event] = audit[r][event]

LEMMA StoreMoves ==
  ASSUME TypeOK, NEW s \in Sessions, NEW r, r = job[s].request, NEW event \in TrailEvents,
         r \in Requests, StoreAttempt(s) \/ StoreRun(s) \/ StoreRecovery(s)
  PROVE  TrailMoves(s, r, event)
  <1> USE DEF TypeOK, TablesOK, ControlOK, Proceed, Move, TrailEvents, TrailMoves, Storing,
              Auditing, RowCount
  <1>1. ASSUME NEW rows \in Seq(AttemptRows) \cup Seq(RunRows) \cup Seq(RecoveryRows), NEW row
        PROVE  Len(Append(rows, row)) = Len(rows) + 1
    OBVIOUS
  <1>2. CASE StoreAttempt(s)
    <2>1. \E row : attempts' = [attempts EXCEPT ![r] = Append(@, row)]
      BY <1>2 DEF StoreAttempt
    <2>2. Len(attempts'[r]) = Len(attempts[r]) + 1
      BY <1>1, <2>1
    <2>3. QED
      BY <1>2, <2>2 DEF StoreAttempt
  <1>3. CASE StoreRun(s)
    <2>1. \E row : runs' = [runs EXCEPT ![r] = Append(@, row)]
      BY <1>3 DEF StoreRun
    <2>2. Len(runs'[r]) = Len(runs[r]) + 1
      BY <1>1, <2>1
    <2>3. QED
      BY <1>3, <2>2 DEF StoreRun
  <1>4. CASE StoreRecovery(s)
    <2>1. \E row : recoveries' = [recoveries EXCEPT ![r] = Append(@, row)]
      BY <1>4 DEF StoreRecovery
    <2>2. Len(recoveries'[r]) = Len(recoveries[r]) + 1
      BY <1>1, <2>1
    <2>3. QED
      BY <1>4, <2>2 DEF StoreRecovery
  <1>5. QED
    BY <1>2, <1>3, <1>4

LEMMA AuditMoves ==
  ASSUME TypeOK, NEW s \in Sessions, NEW r, r = job[s].request, NEW event \in TrailEvents,
         r \in Requests,
         \/ AuditAttempt(s) \/ AuditRun(s) \/ AuditRecovery(s)
         \/ AuditMark(s) \/ AuditRoute(s) \/ AuditResolve(s)
  PROVE  TrailMoves(s, r, event)
  <1>1. ASSUME NEW kind \in Events, RecordEvent(r, kind)
        PROVE  /\ \A e \in TrailEvents : RowCount(r, e)' = RowCount(r, e)
               /\ \A e \in Events :
                    audit'[r][e] = IF e = kind THEN audit[r][e] + 1 ELSE audit[r][e]
    <2>1. \A e \in TrailEvents : RowCount(r, e)' = RowCount(r, e)
      BY <1>1 DEF RecordEvent, RowCount, TrailEvents
    <2>2. \A e \in Events :
            audit'[r][e] = IF e = kind THEN audit[r][e] + 1 ELSE audit[r][e]
      BY <1>1 DEF RecordEvent, TypeOK, TablesOK
    <2>3. QED
      BY <2>1, <2>2
  <1> USE DEF TypeOK, ControlOK, Proceed, Move, TrailEvents, Events, TrailMoves, Storing,
              Auditing
  <1>2. CASE AuditAttempt(s)
    BY <1>1, <1>2 DEF AuditAttempt
  <1>3. CASE AuditRun(s)
    BY <1>1, <1>3 DEF AuditRun
  <1>4. CASE AuditRecovery(s)
    BY <1>1, <1>4 DEF AuditRecovery
  <1>5. CASE AuditMark(s) \/ AuditRoute(s) \/ AuditResolve(s)
    BY <1>1, <1>5 DEF AuditMark, AuditRoute, AuditResolve
  <1>6. QED
    BY <1>2, <1>3, <1>4, <1>5

LEMMA StepMoves ==
  ASSUME TypeOK, NEW s \in Sessions, NEW r, r = job[s].request, NEW event \in TrailEvents,
         r \in Requests, Step(s)
  PROVE  TrailMoves(s, r, event) /\ aborts' = aborts
  <1> USE DEF TypeOK, ControlOK, Proceed, Move, ReadOnly, UpdateRequest, UpdateCase
  <1>1. CASE StoreAttempt(s) \/ StoreRun(s) \/ StoreRecovery(s)
    <2>1. aborts' = aborts
      BY <1>1 DEF StoreAttempt, StoreRun, StoreRecovery
    <2>2. QED
      BY <1>1, <2>1, StoreMoves
  <1>2. CASE \/ AuditAttempt(s) \/ AuditRun(s) \/ AuditRecovery(s)
             \/ AuditMark(s) \/ AuditRoute(s) \/ AuditResolve(s)
    <2>1. aborts' = aborts
      BY <1>2 DEF AuditAttempt, AuditRun, AuditRecovery, AuditMark, AuditRoute, AuditResolve,
                  RecordEvent
    <2>2. QED
      BY <1>2, <2>1, AuditMoves
  <1>3. ASSUME UNCHANGED <<attempts, runs, recoveries, audit, aborts>>,
               pc[s] \notin {"store", "store_run", "store_recovery",
                             "audit_attempt", "audit_run", "audit_recovery"},
               pc'[s] \notin {"audit_attempt", "audit_run", "audit_recovery"}
        PROVE  TrailMoves(s, r, event) /\ aborts' = aborts
    BY <1>3 DEF TrailMoves, Storing, Auditing, RowCount, TrailEvents
  <1>4. CASE \/ Claim(s) \/ ClaimCase(s) \/ Reread(s) \/ CountAttempts(s)
             \/ Finish(s) \/ FinishCase(s)
    BY <1>3, <1>4 DEF Claim, ClaimCase, Reread, CountAttempts, Finish, FinishCase
  <1>5. CASE CallMock(s) \/ CallStripe(s)
    BY <1>3, <1>5 DEF CallMock, CallStripe
  <1>6. CASE Recheck(s) \/ Recount(s) \/ Exhaust(s) \/ ExhaustCase(s)
    BY <1>3, <1>6 DEF Recheck, Recount, Exhaust, ExhaustCase
  <1>7. CASE \/ Lookup(s) \/ Mark(s) \/ MarkCase(s) \/ Route(s) \/ RouteCase(s)
    BY <1>3, <1>7 DEF Lookup, Mark, MarkCase, Route, RouteCase
  <1>8. CASE Attach(s) \/ Resolve(s) \/ ResolveCase(s)
    BY <1>3, <1>8 DEF Attach, Resolve, ResolveCase
  <1>9. QED
    BY <1>1, <1>2, <1>4, <1>5, <1>6, <1>7, <1>8 DEF Step, ExecuteStep, ReconcileStep,
       RecoverStep


LEMMA OtherTrails ==
  ASSUME TypeOK, NEW s \in Sessions, Step(s), NEW r \in Requests, r # job[s].request
  PROVE  /\ audit'[r] = audit[r]
         /\ \A event : RowCount(r, event)' = RowCount(r, event)
  <1> DEFINE q == job[s].request
  <1>1. attempts'[r] = attempts[r] /\ runs'[r] = runs[r] /\ recoveries'[r] = recoveries[r]
    BY OthersUntouched
  <1>2. audit'[r] = audit[r]
    <2> USE DEF TypeOK, TablesOK, ReadOnly, UpdateRequest, UpdateCase
    <2>1. ASSUME NEW kind, RecordEvent(q, kind)
          PROVE  audit'[r] = audit[r]
      BY <2>1 DEF RecordEvent
    <2>2. CASE ExecuteStep(s)
      BY <2>1, <2>2 DEF ExecuteStep, Claim, ClaimCase, Reread, CountAttempts, CallMock,
         CallStripe, StoreAttempt, AuditAttempt, Finish, FinishCase, Recheck, Recount,
         Exhaust, ExhaustCase
    <2>3. CASE ReconcileStep(s)
      BY <2>1, <2>3 DEF ReconcileStep, Lookup, StoreRun, AuditRun, Mark, MarkCase, AuditMark,
         Route, AuditRoute, RouteCase
    <2>4. CASE RecoverStep(s)
      BY <2>1, <2>4 DEF RecoverStep, Attach, Resolve, AuditResolve, ResolveCase,
         StoreRecovery, AuditRecovery
    <2>5. QED
      BY <2>2, <2>3, <2>4 DEF Step
  <1>3. QED
    BY <1>1, <1>2 DEF RowCount

\* A step of a handler keeps the trail of the request it works on: its session joins
\* the ones on the way with the row, and leaves them with the event.
LEMMA TrailStep ==
  ASSUME TypeOK, NEW s \in Sessions, Step(s), NEW r \in Requests, NEW event \in TrailEvents,
         TrailKept(r, event)
  PROVE  TrailKept(r, event)'
  <1> DEFINE before == At(r, {Auditing(event)})
             after == {t \in Sessions : pc'[t] = Auditing(event) /\ job'[t].request = r}
  <1>0. /\ At(r, {Auditing(event)})' = after
        /\ Auditing(event) # "idle" /\ Storing(event) # Auditing(event)
    BY DEF At, Auditing, Storing, TrailEvents
  <1>1. /\ \A t \in Sessions \ {s} : pc'[t] = pc[t] /\ job'[t] = job[t]
        /\ job[s].request \in Requests
        /\ pc'[s] # "idle" => job'[s].request = job[s].request
    BY OthersUntouched
  <1>2. after \ {s} = before \ {s} /\ IsFiniteSet(before)
    BY <1>1, TrailTypes DEF At
  <1>3. /\ s \in before <=> pc[s] = Auditing(event) /\ job[s].request = r
        /\ s \in after <=> pc'[s] = Auditing(event) /\ job[s].request = r
    BY <1>0, <1>1 DEF At
  <1>4. aborts' = aborts
    BY <1>1, StepMoves
  <1>5. /\ audit[r][event] \in Nat /\ RowCount(r, event) \in Nat /\ aborts \in Nat
        /\ audit[r][event] + Cardinality(before) <= RowCount(r, event)
        /\ RowCount(r, event) <= audit[r][event] + Cardinality(before) + aborts
    BY TrailTypes DEF TrailKept
  <1>6. SUFFICES /\ audit'[r][event] + Cardinality(after) <= RowCount(r, event)'
                 /\ RowCount(r, event)' <= audit'[r][event] + Cardinality(after) + aborts
    BY <1>0, <1>4 DEF TrailKept
  <1>7. /\ Cardinality(after) \in Nat /\ Cardinality(before) \in Nat
        /\ s \in after /\ s \notin before => Cardinality(after) = Cardinality(before) + 1
        /\ s \notin after /\ s \in before => Cardinality(after) = Cardinality(before) - 1
        /\ (s \in after <=> s \in before) => Cardinality(after) = Cardinality(before)
    BY <1>2, OneSessionMoves
  <1>8. CASE job[s].request # r
    <2>1. audit'[r][event] = audit[r][event] /\ RowCount(r, event)' = RowCount(r, event)
      BY <1>8, OtherTrails
    <2>2. Cardinality(after) = Cardinality(before)
      BY <1>3, <1>7, <1>8
    <2>3. QED
      BY <1>5, <1>7, <2>1, <2>2
  <1>9. CASE job[s].request = r
    <2>0. TrailMoves(s, r, event)
      BY <1>9, StepMoves
    <2>1. CASE pc[s] = Storing(event)
      <3>1. /\ RowCount(r, event)' = RowCount(r, event) + 1
            /\ audit'[r][event] = audit[r][event]
        BY <2>0, <2>1 DEF TrailMoves
      <3>2. Cardinality(after) = Cardinality(before) + 1
        BY <1>0, <1>3, <1>7, <1>9, <2>0, <2>1 DEF TrailMoves
      <3>3. QED
        BY <1>5, <1>7, <3>1, <3>2
    <2>2. CASE pc[s] = Auditing(event)
      <3>1. /\ RowCount(r, event)' = RowCount(r, event)
            /\ audit'[r][event] = audit[r][event] + 1
        BY <2>0, <2>2 DEF TrailMoves
      <3>2. Cardinality(after) = Cardinality(before) - 1
        BY <1>3, <1>7, <1>9, <2>0, <2>2 DEF TrailMoves
      <3>3. QED
        BY <1>5, <1>7, <3>1, <3>2
    <2>3. CASE pc[s] \notin {Storing(event), Auditing(event)}
      <3>1. /\ RowCount(r, event)' = RowCount(r, event)
            /\ audit'[r][event] = audit[r][event]
        BY <2>0, <2>3 DEF TrailMoves
      <3>2. Cardinality(after) = Cardinality(before)
        BY <1>3, <1>7, <2>0, <2>3 DEF TrailMoves
      <3>3. QED
        BY <1>5, <1>7, <3>1, <3>2
    <2>4. QED
      BY <2>1, <2>2, <2>3
  <1>10. QED
    BY <1>8, <1>9

\* A handler that stops leaves the sessions on the way and counts among the stops.
LEMMA TrailAbort ==
  ASSUME TypeOK, NEW s \in Sessions, Abort(s), NEW r \in Requests, NEW event \in TrailEvents,
         TrailKept(r, event)
  PROVE  TrailKept(r, event)'
  <1> DEFINE before == At(r, {Auditing(event)})
             after == {t \in Sessions : pc'[t] = Auditing(event) /\ job'[t].request = r}
  <1>0. /\ At(r, {Auditing(event)})' = after
        /\ Auditing(event) # "idle"
    BY DEF At, Auditing, TrailEvents
  <1>1. /\ pc'[s] = "idle" /\ aborts' = aborts + 1
        /\ \A t \in Sessions \ {s} : pc'[t] = pc[t] /\ job'[t] = job[t]
        /\ audit' = audit /\ RowCount(r, event)' = RowCount(r, event)
    BY DEF Abort, TypeOK, ControlOK, RowCount
  <1>2. after \ {s} = before \ {s} /\ IsFiniteSet(before) /\ s \notin after
    BY <1>0, <1>1, TrailTypes DEF At
  <1>3. /\ Cardinality(after) \in Nat /\ Cardinality(before) \in Nat
        /\ \/ Cardinality(after) = Cardinality(before) - 1
           \/ Cardinality(after) = Cardinality(before)
    BY <1>2, OneSessionMoves
  <1>4. /\ audit[r][event] \in Nat /\ RowCount(r, event) \in Nat /\ aborts \in Nat
        /\ audit[r][event] + Cardinality(before) <= RowCount(r, event)
        /\ RowCount(r, event) <= audit[r][event] + Cardinality(before) + aborts
    BY TrailTypes DEF TrailKept
  <1>5. /\ audit'[r][event] + Cardinality(after) <= RowCount(r, event)'
        /\ RowCount(r, event)' <= audit'[r][event] + Cardinality(after) + aborts'
    BY <1>1, <1>3, <1>4
  <1>6. QED
    BY <1>0, <1>5 DEF TrailKept

\* No row, no event and nobody on the way to one.
LEMMA TrailSame ==
  ASSUME NEW r \in Requests, NEW event \in TrailEvents, TrailKept(r, event),
         UNCHANGED <<attempts, runs, recoveries, audit, aborts>>,
         At(r, {Auditing(event)})' = At(r, {Auditing(event)})
  PROVE  TrailKept(r, event)'
  <1>1. RowCount(r, event)' = RowCount(r, event)
    BY DEF RowCount
  <1>2. QED
    BY <1>1 DEF TrailKept

LEMMA TrailInvStep ==
  ASSUME TypeOK, TrailInv, [Next]_vars
  PROVE  TrailInv'
  <1> SUFFICES ASSUME NEW r \in Requests, NEW event \in TrailEvents
               PROVE  TrailKept(r, event)'
    BY DEF TrailInv
  <1>0. TrailKept(r, event)
    BY DEF TrailInv
  <1>1. ASSUME NEW s \in Sessions, BeginHandler(s)
        PROVE  TrailKept(r, event)'
    <2>1. UNCHANGED <<attempts, runs, recoveries, audit, aborts>>
      BY <1>1, BeginKeepsTables DEF ReadOnly
    <2>2. /\ \A t \in Sessions \ {s} : pc'[t] = pc[t] /\ job'[t] = job[t]
          /\ pc[s] = "idle" /\ pc'[s] \in {"claim", "lookup", "attach", "resolve"}
      BY <1>1, BeginGuards
    <2>3. At(r, {Auditing(event)})' = At(r, {Auditing(event)})
      BY <2>2 DEF At, Auditing, TrailEvents
    <2>4. QED
      BY <1>0, <2>1, <2>3, TrailSame
  <1>2. ASSUME NEW q \in Requests, RefundSettles(q)
        PROVE  TrailKept(r, event)'
    <2>1. UNCHANGED <<attempts, runs, recoveries, audit, aborts, pc, job>>
      BY <1>2 DEF RefundSettles
    <2>2. At(r, {Auditing(event)})' = At(r, {Auditing(event)})
      BY <2>1 DEF At, Auditing
    <2>3. QED
      BY <1>0, <2>1, <2>2, TrailSame
  <1>3. CASE UNCHANGED vars
    <2>1. UNCHANGED <<attempts, runs, recoveries, audit, aborts, pc, job>>
      BY <1>3 DEF vars
    <2>2. At(r, {Auditing(event)})' = At(r, {Auditing(event)})
      BY <2>1 DEF At, Auditing
    <2>3. QED
      BY <1>0, <2>1, <2>2, TrailSame
  <1>4. QED
    BY <1>0, <1>1, <1>2, <1>3, TrailStep, TrailAbort DEF Next

LEMMA TrailInvInit ==
  ASSUME InitRequests
  PROVE  TrailInv
  <1> SUFFICES ASSUME NEW r \in Requests, NEW event \in TrailEvents
               PROVE  TrailKept(r, event)
    BY DEF TrailInv
  <1>1. audit[r][event] = 0 /\ aborts = 0 /\ RowCount(r, event) = 0
    BY DEF InitRequests, RowCount, TrailEvents, Events
  <1>2. At(r, {Auditing(event)}) = {}
    BY DEF InitRequests, At, Auditing, TrailEvents
  <1>3. QED
    BY <1>1, <1>2, FS_EmptySet DEF TrailKept

LEMMA TrailMeans ==
  ASSUME TypeOK, TrailInv
  PROVE  AuditTrail
  <1> SUFFICES ASSUME NEW r \in Requests
               PROVE  /\ Audited(r, Len(attempts[r]), "attempt", "audit_attempt")
                      /\ Audited(r, Len(runs[r]), "run", "audit_run")
                      /\ Audited(r, Len(recoveries[r]), "recovery", "audit_recovery")
    BY DEF AuditTrail
  <1>1. ASSUME NEW event \in TrailEvents
        PROVE  Audited(r, RowCount(r, event), event, Auditing(event))
    <2>1. /\ audit[r][event] \in Nat /\ RowCount(r, event) \in Nat /\ aborts \in Nat
          /\ Cardinality(At(r, {Auditing(event)})) \in Nat
      BY TrailTypes, SessionsAt
    <2>2. TrailKept(r, event)
      BY DEF TrailInv
    <2>3. QED
      BY <2>1, <2>2 DEF TrailKept, Audited
  <1>2. QED
    BY <1>1 DEF TrailEvents, RowCount, Auditing

\* Every attempt, run and recovery leaves its audit event, but for those of handlers
\* between the two statements and of handlers that stopped there.
THEOREM TrailTheorem == Spec => []AuditTrail
  <1>1. Init => TrailInv
    BY TrailInvInit DEF Init
  <1>2. TypeOK /\ TrailInv /\ [Next]_vars => TrailInv'
    BY TrailInvStep
  <1>3. TypeOK /\ TrailInv => AuditTrail
    BY TrailMeans
  <1>4. QED
    BY <1>1, <1>2, <1>3, TypeCorrect, PTL DEF Spec

-----------------------------------------------------------------------------
(* The objects of the mock provider                                          *)

\* Handlers that have an object from the provider and not stored it yet.
Carrying(r) == {s \in At(r, {"store"}) : Succeeded(job[s].reply)}

\* Only a handler that heard of a success has left an object behind.
WritesInv ==
    \A r \in Requests :
        mockWrites[r] <= Cardinality(Successes(r)) + Cardinality(Carrying(r)) + aborts

LEMMA WritesTypes ==
  ASSUME TypeOK, NEW r \in Requests
  PROVE  /\ mockWrites[r] \in Nat /\ aborts \in Nat /\ Len(attempts[r]) \in Nat
         /\ IsFiniteSet(Successes(r)) /\ Cardinality(Successes(r)) \in Nat
         /\ IsFiniteSet(Carrying(r)) /\ Cardinality(Carrying(r)) \in Nat
         /\ Cardinality(Carrying(r)) <= Cardinality(At(r, {"store"}))
         /\ Cardinality(At(r, {"store"})) \in Nat
  <1>1. mockWrites[r] \in Nat /\ aborts \in Nat /\ Len(attempts[r]) \in Nat
    BY DEF TypeOK, TablesOK
  <1>2. IsFiniteSet(1 .. Len(attempts[r])) /\ Successes(r) \subseteq 1 .. Len(attempts[r])
    <2>1. 1 \in Int /\ Len(attempts[r]) \in Int
      BY <1>1
    <2>2. QED
      BY <2>1, FS_Interval DEF Successes
  <1>3. IsFiniteSet(Successes(r)) /\ Cardinality(Successes(r)) \in Nat
    BY <1>2, FS_Subset, FS_CardinalityType
  <1>4. Carrying(r) \subseteq At(r, {"store"}) /\ IsFiniteSet(At(r, {"store"}))
    BY SessionsAt DEF Carrying
  <1>5. QED
    BY <1>1, <1>3, <1>4, FS_Subset, FS_CardinalityType

\* Storing a success makes one more of them, storing anything else none.
LEMMA SuccessesStored ==
  ASSUME TypeOK, NEW r \in Requests, NEW row \in AttemptRows,
         attempts'[r] = Append(attempts[r], row)
  PROVE  /\ IsFiniteSet(Successes(r)')
         /\ Cardinality(Successes(r)') =
              Cardinality(Successes(r)) + IF Succeeded(row) THEN 1 ELSE 0
  <1> DEFINE last == Len(attempts[r]) + 1
             after == {i \in 1 .. Len(attempts'[r]) : Succeeded(attempts'[r][i])}
  <1>0. Successes(r)' = after
    BY DEF Successes, Succeeded
  <1>1. attempts[r] \in Seq(AttemptRows) /\ Len(attempts[r]) \in Nat
    BY DEF TypeOK, TablesOK
  <1>2. /\ Len(attempts'[r]) = last /\ attempts'[r][last] = row
        /\ \A i \in 1 .. Len(attempts[r]) : attempts'[r][i] = attempts[r][i]
    BY <1>1
  <1>3. \A i \in 1 .. last : i = last \/ i \in 1 .. Len(attempts[r])
    BY <1>1
  <1>4. /\ Succeeded(row) => after = Successes(r) \cup {last}
        /\ ~Succeeded(row) => after = Successes(r)
    BY <1>1, <1>2, <1>3 DEF Successes
  <1>5. last \notin Successes(r)
    BY <1>1 DEF Successes
  <1>6. IsFiniteSet(Successes(r)) /\ Cardinality(Successes(r)) \in Nat
    BY WritesTypes
  <1>7. /\ IsFiniteSet(Successes(r) \cup {last})
        /\ Cardinality(Successes(r) \cup {last}) = Cardinality(Successes(r)) + 1
    BY <1>5, <1>6, FS_AddElement
  <1>8. CASE Succeeded(row)
    BY <1>0, <1>4, <1>7, <1>8
  <1>9. CASE ~Succeeded(row)
    <2>1. Successes(r)' = Successes(r)
      BY <1>0, <1>4, <1>9
    <2>2. (IF Succeeded(row) THEN 1 ELSE 0) = 0
      BY <1>9
    <2>3. Cardinality(Successes(r)) + 0 = Cardinality(Successes(r))
      BY <1>6
    <2>4. QED
      BY <1>6, <2>1, <2>2, <2>3
  <1>10. QED
    BY <1>8, <1>9

\* What a step does to the provider, the history, and what it carries from one to the
\* other.
LEMMA WriteMoves ==
  ASSUME TypeOK, NEW s \in Sessions, Step(s), NEW r, r = job[s].request
  PROVE  /\ r \in Requests
         /\ pc[s] = "call" =>
              \/ mockWrites'[r] = mockWrites[r]
              \/ /\ mockWrites'[r] = mockWrites[r] + 1
                 /\ pc'[s] = "store" /\ Succeeded(job'[s].reply)
         /\ pc[s] # "call" => mockWrites'[r] = mockWrites[r] /\ pc'[s] # "store"
         /\ aborts' = aborts
  <1>0. r \in Requests
    BY OthersUntouched
  <1> USE DEF TypeOK, TablesOK, ControlOK, Proceed, Move, ReadOnly, UpdateRequest, UpdateCase,
              RecordEvent
  <1>1. CASE CallMock(s)
    <2>1. PICK outcome \in DOMAIN MockReply :
            /\ job' = [job EXCEPT ![s].reply = MockReply[outcome]]
            /\ mockWrites' = [mockWrites EXCEPT ![r] =
                                IF outcome = "success" THEN @ + 1 ELSE @]
      BY <1>1 DEF CallMock
    <2>2. /\ pc[s] = "call" /\ pc'[s] = "store" /\ aborts' = aborts
      BY <1>1 DEF CallMock
    <2>3. CASE outcome = "success"
      <3>1. job'[s].reply = MockReply["success"]
        BY <2>1, <2>3 DEF Jobs
      <3>2. Succeeded(job'[s].reply)
        BY <3>1 DEF MockReply, Reply, Succeeded
      <3>3. QED
        BY <1>0, <2>1, <2>2, <2>3, <3>2
    <2>4. CASE outcome # "success"
      BY <1>0, <2>1, <2>2, <2>4
    <2>5. QED
      BY <2>3, <2>4
  <1>2. CASE CallStripe(s)
    BY <1>0, <1>2 DEF CallStripe
  <1>3. CASE ExecuteStep(s) /\ ~CallMock(s) /\ ~CallStripe(s)
    BY <1>0, <1>3 DEF ExecuteStep, Claim, ClaimCase, Reread, CountAttempts, StoreAttempt,
       AuditAttempt, Finish, FinishCase, Recheck, Recount, Exhaust, ExhaustCase
  <1>4. CASE ReconcileStep(s)
    BY <1>0, <1>4 DEF ReconcileStep, Lookup, StoreRun, AuditRun, Mark, MarkCase, AuditMark,
       Route, AuditRoute, RouteCase
  <1>5. CASE RecoverStep(s)
    BY <1>0, <1>5 DEF RecoverStep, Attach, Resolve, AuditResolve, ResolveCase,
       StoreRecovery, AuditRecovery
  <1>6. QED
    BY <1>1, <1>2, <1>3, <1>4, <1>5 DEF Step

LEMMA WritesStep ==
  ASSUME TypeOK, WritesInv, NEW s \in Sessions, Step(s), NEW r \in Requests
  PROVE  mockWrites'[r] <=
           Cardinality(Successes(r)') + Cardinality(Carrying(r)') + aborts'
  <1> DEFINE before == Carrying(r)
             after == {t \in Sessions : /\ pc'[t] = "store" /\ job'[t].request = r
                                        /\ Succeeded(job'[t].reply)}
  <1>0. Carrying(r)' = after
    BY DEF Carrying, At, Succeeded
  <1>1. /\ \A t \in Sessions \ {s} : pc'[t] = pc[t] /\ job'[t] = job[t]
        /\ pc'[s] # "idle" => job'[s].request = job[s].request
    BY OthersUntouched
  <1>2. after \ {s} = before \ {s} /\ IsFiniteSet(before)
    BY <1>1, WritesTypes DEF Carrying, At
  <1>3. /\ Cardinality(after) \in Nat /\ Cardinality(before) \in Nat
        /\ s \in after /\ s \notin before => Cardinality(after) = Cardinality(before) + 1
        /\ s \notin after /\ s \in before => Cardinality(after) = Cardinality(before) - 1
        /\ (s \in after <=> s \in before) => Cardinality(after) = Cardinality(before)
    BY <1>2, OneSessionMoves
  <1>4. /\ mockWrites[r] \in Nat /\ aborts \in Nat /\ Cardinality(Successes(r)) \in Nat
        /\ mockWrites[r] <= Cardinality(Successes(r)) + Cardinality(before) + aborts
    BY WritesTypes DEF WritesInv
  <1>5. ASSUME attempts'[r] = attempts[r]
        PROVE  Successes(r)' = Successes(r)
    BY <1>5 DEF Successes, Succeeded
  <1>6. CASE job[s].request # r
    <2>1. mockWrites'[r] = mockWrites[r] /\ attempts'[r] = attempts[r] /\ aborts' = aborts
      BY <1>6, OthersUntouched, WriteMoves
    <2>2. s \notin before /\ s \notin after
      BY <1>1, <1>6 DEF Carrying, At
    <2>3. QED
      BY <1>0, <1>3, <1>4, <1>5, <2>1, <2>2
  <1>7. CASE job[s].request = r /\ pc[s] = "call"
    <2>1. s \notin before
      BY <1>7 DEF Carrying, At
    <2>2. attempts'[r] = attempts[r] /\ aborts' = aborts
      BY <1>7, AttemptGrowth, WriteMoves
    <2>3. \/ mockWrites'[r] = mockWrites[r]
          \/ mockWrites'[r] = mockWrites[r] + 1 /\ s \in after
      BY <1>1, <1>7, WriteMoves
    <2>4. QED
      BY <1>0, <1>3, <1>4, <1>5, <2>1, <2>2, <2>3
  <1>8. CASE job[s].request = r /\ pc[s] = "store"
    <2>1. PICK row \in AttemptRows :
            /\ attempts' = [attempts EXCEPT ![r] = Append(@, row)]
            /\ row.provider_status = job[s].reply.provider_status
      BY <1>8, AttemptHistory
    <2>2. attempts'[r] = Append(attempts[r], row)
      BY <2>1 DEF TypeOK, TablesOK
    <2>3. Cardinality(Successes(r)') =
            Cardinality(Successes(r)) + IF Succeeded(row) THEN 1 ELSE 0
      BY <2>2, SuccessesStored
    <2>4. /\ s \in before <=> Succeeded(row)
          /\ s \notin after
      BY <1>8, <2>1, WriteMoves DEF Carrying, At, Succeeded
    <2>5. mockWrites'[r] = mockWrites[r] /\ aborts' = aborts
      BY <1>8, WriteMoves
    <2>6. QED
      BY <1>0, <1>3, <1>4, <2>3, <2>4, <2>5
  <1>9. CASE job[s].request = r /\ pc[s] \notin {"call", "store"}
    <2>1. s \notin before /\ s \notin after
      BY <1>9, WriteMoves DEF Carrying, At
    <2>2. /\ attempts'[r] = attempts[r] /\ mockWrites'[r] = mockWrites[r]
          /\ aborts' = aborts
      BY <1>9, AttemptGrowth, WriteMoves
    <2>3. QED
      BY <1>0, <1>3, <1>4, <1>5, <2>1, <2>2
  <1>10. QED
    BY <1>6, <1>7, <1>8, <1>9

LEMMA WritesAbort ==
  ASSUME TypeOK, WritesInv, NEW s \in Sessions, Abort(s), NEW r \in Requests
  PROVE  mockWrites'[r] <=
           Cardinality(Successes(r)') + Cardinality(Carrying(r)') + aborts'
  <1> DEFINE before == Carrying(r)
             after == {t \in Sessions : /\ pc'[t] = "store" /\ job'[t].request = r
                                        /\ Succeeded(job'[t].reply)}
  <1>0. Carrying(r)' = after
    BY DEF Carrying, At, Succeeded
  <1>1. /\ pc'[s] = "idle" /\ aborts' = aborts + 1
        /\ \A t \in Sessions \ {s} : pc'[t] = pc[t] /\ job'[t] = job[t]
        /\ attempts' = attempts /\ mockWrites' = mockWrites
    BY DEF Abort, TypeOK, ControlOK
  <1>2. after \ {s} = before \ {s} /\ IsFiniteSet(before)
    BY <1>1, WritesTypes DEF Carrying, At
  <1>3. /\ Cardinality(after) \in Nat /\ Cardinality(before) \in Nat
        /\ \/ Cardinality(after) = Cardinality(before) - 1
           \/ Cardinality(after) = Cardinality(before)
    BY <1>1, <1>2, OneSessionMoves
  <1>4. /\ mockWrites[r] \in Nat /\ aborts \in Nat /\ Cardinality(Successes(r)) \in Nat
        /\ mockWrites[r] <= Cardinality(Successes(r)) + Cardinality(before) + aborts
    BY WritesTypes DEF WritesInv
  <1>5. Successes(r)' = Successes(r)
    BY <1>1 DEF Successes, Succeeded
  <1>6. QED
    BY <1>0, <1>1, <1>3, <1>4, <1>5

LEMMA WritesInvStep ==
  ASSUME TypeOK, WritesInv, [Next]_vars
  PROVE  WritesInv'
  <1> SUFFICES ASSUME NEW r \in Requests
               PROVE  mockWrites'[r] <=
                        Cardinality(Successes(r)') + Cardinality(Carrying(r)') + aborts'
    BY DEF WritesInv
  <1>1. ASSUME Carrying(r)' = Carrying(r), UNCHANGED <<attempts, mockWrites, aborts>>
        PROVE  mockWrites'[r] <=
                 Cardinality(Successes(r)') + Cardinality(Carrying(r)') + aborts'
    <2>1. Successes(r)' = Successes(r)
      BY <1>1 DEF Successes, Succeeded
    <2>2. QED
      BY <1>1, <2>1 DEF WritesInv
  <1>2. ASSUME NEW s \in Sessions, BeginHandler(s)
        PROVE  Carrying(r)' = Carrying(r) /\ UNCHANGED <<attempts, mockWrites, aborts>>
    <2>1. UNCHANGED <<attempts, mockWrites, aborts>>
      BY <1>2, BeginKeepsTables DEF ReadOnly
    <2>2. /\ \A t \in Sessions \ {s} : pc'[t] = pc[t] /\ job'[t] = job[t]
          /\ pc[s] = "idle" /\ pc'[s] \in {"claim", "lookup", "attach", "resolve"}
      BY <1>2, BeginGuards
    <2>3. QED
      BY <2>1, <2>2 DEF Carrying, At, Succeeded
  <1>3. ASSUME NEW q \in Requests, RefundSettles(q)
        PROVE  Carrying(r)' = Carrying(r) /\ UNCHANGED <<attempts, mockWrites, aborts>>
    BY <1>3 DEF RefundSettles, Carrying, At, Succeeded
  <1>4. CASE UNCHANGED vars
    <2>1. Carrying(r)' = Carrying(r) /\ UNCHANGED <<attempts, mockWrites, aborts>>
      BY <1>4 DEF vars, Carrying, At, Succeeded
    <2>2. QED
      BY <1>1, <2>1
  <1>5. QED
    BY <1>1, <1>2, <1>3, <1>4, WritesStep, WritesAbort DEF Next

LEMMA WritesInvInit ==
  ASSUME InitRequests
  PROVE  WritesInv
  <1> SUFFICES ASSUME NEW r \in Requests
               PROVE  mockWrites[r] <=
                        Cardinality(Successes(r)) + Cardinality(Carrying(r)) + aborts
    BY DEF WritesInv
  <1>1. mockWrites[r] = 0 /\ aborts = 0 /\ Successes(r) = {} /\ Carrying(r) = {}
    BY DEF InitRequests, Successes, Carrying, At
  <1>2. QED
    BY <1>1, FS_EmptySet

LEMMA WritesMeans ==
  ASSUME TypeOK, WritesInv
  PROVE  MockWritesAreAccounted
  <1> SUFFICES ASSUME NEW r \in Requests
               PROVE  mockWrites[r] <=
                        Cardinality(Successes(r)) + Cardinality(At(r, {"store"})) + aborts
    BY DEF MockWritesAreAccounted
  <1>1. QED
    BY WritesTypes DEF WritesInv

\* The mock provider never holds more objects than the history shows successes, but
\* for calls that are still to be stored and for handlers that stopped before that.
THEOREM WritesTheorem == Spec => []MockWritesAreAccounted
  <1>1. Init => WritesInv
    BY WritesInvInit DEF Init
  <1>2. TypeOK /\ WritesInv /\ [Next]_vars => WritesInv'
    BY WritesInvStep
  <1>3. TypeOK /\ WritesInv => MockWritesAreAccounted
    BY WritesMeans
  <1>4. QED
    BY <1>1, <1>2, <1>3, TypeCorrect, PTL DEF Spec

\* Handlers that stop elsewhere only widen the margin.
LEMMA TrailsFrame ==
  ASSUME TypeOK, TrailInv, WritesInv, aborts' \in {aborts, aborts + 1},
         UNCHANGED <<attempts, runs, recoveries, audit, mockWrites, pc, job>>
  PROVE  TrailInv' /\ WritesInv'
  <1>1. ASSUME NEW r \in Requests, NEW event \in TrailEvents
        PROVE  TrailKept(r, event)'
    <2>1. /\ RowCount(r, event)' = RowCount(r, event) /\ audit'[r][event] = audit[r][event]
          /\ At(r, {Auditing(event)})' = At(r, {Auditing(event)})
      BY DEF RowCount, At, Auditing, TrailEvents
    <2>2. /\ audit[r][event] \in Nat /\ RowCount(r, event) \in Nat /\ aborts \in Nat
          /\ Cardinality(At(r, {Auditing(event)})) \in Nat
      BY TrailTypes, SessionsAt
    <2>3. TrailKept(r, event)
      BY DEF TrailInv
    <2>4. QED
      BY <2>1, <2>2, <2>3 DEF TrailKept
  <1>2. ASSUME NEW r \in Requests
        PROVE  (mockWrites[r] <= Cardinality(Successes(r)) + Cardinality(Carrying(r)) + aborts)'
    <2>1. Successes(r)' = Successes(r) /\ Carrying(r)' = Carrying(r)
      BY DEF Successes, Succeeded, Carrying, At
    <2>2. QED
      BY <2>1, WritesTypes DEF WritesInv
  <1>3. QED
    BY <1>1, <1>2 DEF TrailInv, WritesInv

-----------------------------------------------------------------------------
(* What the dashboard adds up                                                *)

\* A success has no error type, every other outcome has one.
Classified(outcome) == Succeeded(outcome) <=> outcome.error_type = "none"

ClassesInv ==
    /\ \A r \in Requests : \A i \in 1 .. Len(attempts[r]) : Classified(attempts[r][i])
    /\ \A s \in Sessions : pc[s] = "store" => Classified(job[s].reply)

\* A run that marks its request has matched a success.
MarkMatches(run) == run.action = "mark_reconciled" => run.result = "matched_success"
VerdictsInv == \A r \in Requests : \A i \in 1 .. Len(runs[r]) : MarkMatches(runs[r][i])

\* The requests that show an outcome of a recovery without a row for it, and with no
\* handler on its way to one: each of them was lost with a handler that stopped.
Lost(status) == {r \in Requests : /\ request[r].status = status /\ ~RecordedBy(r)
                                  /\ \A s \in Sessions : ~Recording(s, r)}
LostInv == \A status \in HumanOutcomes : Cardinality(Lost(status)) <= aborts

DashboardInv == ClassesInv /\ VerdictsInv /\ LostInv

\* The row of the attempt a handler stores.
AttemptOf(s) ==
    [number |-> job[s].number,
     provider |-> IF job[s].via = "stripe" THEN "stripe_test_mode" ELSE job[s].seen.provider,
     provider_status |-> job[s].reply.provider_status,
     error_type |-> job[s].reply.error_type]

LEMMA AttemptMoves ==
  ASSUME TypeOK, NEW s \in Sessions, Step(s)
  PROVE  /\ AttemptOf(s) \in AttemptRows
         /\ pc[s] # "store" => attempts' = attempts
         /\ pc[s] = "store" =>
              attempts' = [attempts EXCEPT ![job[s].request] = Append(@, AttemptOf(s))]
  <1>0. AttemptOf(s) \in AttemptRows
    BY DEF AttemptOf, AttemptRows, Jobs, Rows, Replies, Providers, TypeOK, ControlOK
  <1>1. CASE pc[s] # "store"
    BY <1>0, <1>1, AttemptHistory
  <1>2. CASE pc[s] = "store"
    <2>1. StoreAttempt(s)
      BY <1>2 DEF Step, ExecuteStep, Claim, ClaimCase, Reread, CountAttempts, CallMock,
          CallStripe, AuditAttempt, Finish, FinishCase, Recheck, Recount, Exhaust,
          ExhaustCase, ReconcileStep, Lookup, StoreRun, AuditRun, Mark, MarkCase, AuditMark,
          Route, AuditRoute, RouteCase, RecoverStep, Attach, Resolve, AuditResolve,
          ResolveCase, StoreRecovery, AuditRecovery, Move, Proceed
    <2>2. attempts' = [attempts EXCEPT ![job[s].request] = Append(@, AttemptOf(s))]
      BY <2>1 DEF StoreAttempt, AttemptOf
    <2>3. QED
      BY <1>0, <1>2, <2>2
  <1>3. QED
    BY <1>1, <1>2

\* The attempts of every request after the step at store.
LEMMA AfterStore ==
  ASSUME TypeOK, NEW s \in Sessions, Step(s), pc[s] = "store", NEW r, r = job[s].request
  PROVE  /\ Len(attempts[r]) \in Nat /\ Len(attempts'[r]) = Len(attempts[r]) + 1
         /\ \A i \in 1 .. Len(attempts[r]) : attempts'[r][i] = attempts[r][i]
         /\ attempts'[r][Len(attempts[r]) + 1] = AttemptOf(s)
         /\ attempts'[r] # <<>>
  <1>1. r \in Requests /\ attempts \in [Requests -> Seq(AttemptRows)]
    BY OthersUntouched DEF TypeOK, TablesOK
  <1>2. AttemptOf(s) \in AttemptRows /\ attempts'[r] = Append(attempts[r], AttemptOf(s))
    BY <1>1, AttemptMoves
  <1>3. QED
    BY <1>1, <1>2, AppendKeeps

\* The row of the run a handler stores.
RunOf(s) ==
    [internal_status |-> job[s].seen.status,
     provider_status |-> job[s].reply.provider_status,
     result |-> Evaluated(s).result,
     action |-> Evaluated(s).action]

\* The runs of the request a handler works on, after its step.
LEMMA RunMoves ==
  ASSUME TypeOK, NEW s \in Sessions, Step(s), NEW r, r = job[s].request
  PROVE  /\ pc[s] # "store_run" => runs' = runs
         /\ pc[s] = "store_run" =>
              /\ Len(runs[r]) \in Nat /\ Len(runs'[r]) = Len(runs[r]) + 1
              /\ \A i \in 1 .. Len(runs[r]) : runs'[r][i] = runs[r][i]
              /\ runs'[r][Len(runs[r]) + 1] = RunOf(s)
  <1>1. r \in Requests /\ runs \in [Requests -> Seq(RunRows)] /\ job[s] \in Jobs
    BY OthersUntouched DEF TypeOK, TablesOK, ControlOK
  <1>2. RunOf(s) \in RunRows
    BY <1>1, VerdictTypes DEF RunOf, Jobs, RunRows, Rows, Replies, Evaluated
  <1>3. CASE pc[s] = "store_run"
    <2>1. runs'[r] = Append(runs[r], RunOf(s))
      BY <1>1, <1>3, HistoryGrowth DEF RunOf
    <2>2. QED
      BY <1>1, <1>2, <1>3, <2>1, AppendKeeps
  <1>4. QED
    BY <1>3, HistoryGrowth

\* What a provider answers is classified.
LEMMA RepliesClassified ==
  ASSUME TypeOK, NEW s \in Sessions, Step(s), pc'[s] = "store"
  PROVE  Classified(job'[s].reply)
  <1>0. job \in [Sessions -> Jobs] /\ pc[s] = "call"
    BY Flow DEF TypeOK, ControlOK
  <1>1. CallMock(s) \/ CallStripe(s)
    BY <1>0 DEF Step, ExecuteStep, Claim, ClaimCase, Reread, CountAttempts, StoreAttempt,
        AuditAttempt, Finish, FinishCase, Recheck, Recount, Exhaust, ExhaustCase,
        ReconcileStep, Lookup, StoreRun, AuditRun, Mark, MarkCase, AuditMark, Route,
        AuditRoute, RouteCase, RecoverStep, Attach, Resolve, AuditResolve, ResolveCase,
        StoreRecovery, AuditRecovery, Move, Proceed
  <1>2. ASSUME NEW reply \in Replies, job' = [job EXCEPT ![s].reply = reply]
        PROVE  job'[s].reply = reply
    BY <1>0, <1>2 DEF Jobs
  <1>3. CASE CallMock(s)
    <2>1. PICK outcome \in DOMAIN MockReply :
            job' = [job EXCEPT ![s].reply = MockReply[outcome]]
      BY <1>3 DEF CallMock
    <2>2. job'[s].reply = MockReply[outcome]
      BY <1>2, <2>1, ReplyTypes
    <2>3. QED
      BY <2>2 DEF MockReply, Reply, Succeeded, Classified
  <1>4. CASE CallStripe(s)
    <2>1. PICK reply \in {MockRefundReply, StripeRefundReply} \cup
                         {StripeErrorReply(error) : error \in StripeErrors} :
            job' = [job EXCEPT ![s].reply = reply]
      BY <1>4 DEF CallStripe, StripeErrors, StripeErrorType
    <2>2. job'[s].reply = reply
      BY <1>2, <2>1, ReplyTypes
    <2>3. QED
      BY <2>1, <2>2 DEF MockRefundReply, StripeRefundReply, StripeErrorReply, StripeErrors,
                        StripeErrorType, Reply, Succeeded, Classified
  <1>5. QED
    BY <1>1, <1>3, <1>4

LEMMA ClassesStep ==
  ASSUME TypeOK, ClassesInv, NEW s \in Sessions, Step(s)
  PROVE  ClassesInv'
  <1> DEFINE q == job[s].request
  <1>0. /\ q \in Requests
        /\ \A t \in Sessions \ {s} : pc'[t] = pc[t] /\ job'[t] = job[t]
        /\ \A r \in Requests \ {q} : attempts'[r] = attempts[r]
    BY OthersUntouched
  <1>1. ASSUME NEW r \in Requests, NEW i \in 1 .. Len(attempts'[r])
        PROVE  Classified(attempts'[r][i])
    <2>1. CASE r # q \/ pc[s] # "store"
      <3>1. attempts'[r] = attempts[r]
        BY <1>0, <2>1, AttemptMoves
      <3>2. QED
        BY <3>1 DEF ClassesInv
    <2>2. CASE r = q /\ pc[s] = "store"
      <3>1. /\ Len(attempts[r]) \in Nat /\ Len(attempts'[r]) = Len(attempts[r]) + 1
            /\ \A j \in 1 .. Len(attempts[r]) : attempts'[r][j] = attempts[r][j]
            /\ attempts'[r][Len(attempts[r]) + 1] = AttemptOf(s)
        BY <2>2, AfterStore
      <3>2. Classified(AttemptOf(s))
        BY <2>2 DEF ClassesInv, Classified, AttemptOf, Succeeded
      <3>3. i \in 1 .. Len(attempts[r]) \/ i = Len(attempts[r]) + 1
        BY <3>1
      <3>4. QED
        BY <3>1, <3>2, <3>3 DEF ClassesInv
    <2>3. QED
      BY <2>1, <2>2
  <1>2. ASSUME NEW t \in Sessions, pc'[t] = "store"
        PROVE  Classified(job'[t].reply)
    BY <1>0, <1>2, RepliesClassified DEF ClassesInv
  <1>3. QED
    BY <1>1, <1>2 DEF ClassesInv, Classified, Succeeded

LEMMA MarksMatch ==
  ASSUME NEW internal, NEW provider
  PROVE  MarkMatches([internal_status |-> internal, provider_status |-> provider,
                      result |-> EvaluateReconciliation(internal, provider).result,
                      action |-> EvaluateReconciliation(internal, provider).action])
  BY DEF EvaluateReconciliation, Verdict, MarkMatches

LEMMA VerdictsStep ==
  ASSUME TypeOK, VerdictsInv, NEW s \in Sessions, Step(s)
  PROVE  VerdictsInv'
  <1> DEFINE q == job[s].request
  <1>1. ASSUME NEW r \in Requests, NEW i \in 1 .. Len(runs'[r])
        PROVE  MarkMatches(runs'[r][i])
    <2>1. CASE r # q \/ pc[s] # "store_run"
      <3>1. runs'[r] = runs[r]
        BY <2>1, OthersUntouched, RunMoves
      <3>2. QED
        BY <3>1 DEF VerdictsInv
    <2>2. CASE r = q /\ pc[s] = "store_run"
      <3>1. /\ Len(runs[r]) \in Nat /\ Len(runs'[r]) = Len(runs[r]) + 1
            /\ \A j \in 1 .. Len(runs[r]) : runs'[r][j] = runs[r][j]
            /\ runs'[r][Len(runs[r]) + 1] = RunOf(s)
        BY <2>2, RunMoves
      <3>2. MarkMatches(RunOf(s))
        BY MarksMatch DEF RunOf, Evaluated
      <3>3. i \in 1 .. Len(runs[r]) \/ i = Len(runs[r]) + 1
        BY <3>1
      <3>4. QED
        BY <3>1, <3>2, <3>3 DEF VerdictsInv
    <2>3. QED
      BY <2>1, <2>2
  <1>2. QED
    BY <1>1 DEF VerdictsInv, MarkMatches

\* A handler at work loses nothing: whoever writes an outcome goes on to its row.
LEMMA LostStep ==
  ASSUME TypeOK, NEW s \in Sessions, Step(s), NEW status \in HumanOutcomes
  PROVE  Lost(status)' \subseteq Lost(status)
  <1> SUFFICES ASSUME NEW r \in Requests, request'[r].status = status, ~RecordedBy(r)',
                      \A t \in Sessions : ~Recording(t, r)'
               PROVE  r \in Lost(status)
    BY DEF Lost
  <1>0. /\ job[s].request \in Requests
        /\ \A t \in Sessions \ {s} : pc'[t] = pc[t] /\ job'[t] = job[t]
        /\ pc'[s] # "idle" => job'[s].request = job[s].request
        /\ \A q \in Requests \ {job[s].request} : request'[q] = request[q]
    BY OthersUntouched
  <1>1. request[r].status = status
    <2> SUFFICES ASSUME request'[r].status # request[r].status
                 PROVE  FALSE
      OBVIOUS
    <2>1. r = job[s].request
      BY <1>0
    <2>2. /\ pc[s] = "resolve" /\ pc'[s] = "audit_resolve"
          /\ request'[r].status = RecoveryStatus[job[s].via]
      BY <2>1, StatusTypes, StatusWrites DEF InProgress, HumanOutcomes
    <2>3. job'[s].via = job[s].via /\ job'[s].request = r
      BY <1>0, <2>1, <2>2, StepLocals
    <2>4. QED
      BY <2>2, <2>3 DEF Recording
  <1>2. ~RecordedBy(r)
    BY <1>1, RecoveriesStay DEF RecordedBy
  <1>3. ASSUME NEW t \in Sessions \ {s}
        PROVE  ~Recording(t, r)
    BY <1>0, <1>1 DEF Recording
  <1>4. ~Recording(s, r)
    <2> SUFFICES ASSUME Recording(s, r)
                 PROVE  FALSE
      OBVIOUS
    <2>1. CASE pc[s] = "store_recovery"
      BY <1>1, <2>1, RecoveriesStay DEF RecordedBy, Recording
    <2>2. CASE pc[s] \in {"audit_resolve", "resolve_case"}
      <3>1. pc'[s] \in {"resolve_case", "store_recovery"} /\ job'[s].via = job[s].via
        BY <2>2, RecordingFlow, StepLocals
      <3>2. QED
        BY <1>0, <1>1, <3>1 DEF Recording
    <2>3. QED
      BY <2>1, <2>2 DEF Recording
  <1>5. QED
    BY <1>1, <1>2, <1>3, <1>4 DEF Lost

\* Who touches neither the rows nor a handler on its way loses nothing; a handler that
\* stops loses the outcome of one request at most.
LEMMA LostSame ==
  ASSUME NEW status \in HumanOutcomes, UNCHANGED <<request, recoveries>>, NEW lost,
         \A t \in Sessions : \/ pc'[t] = pc[t] /\ job'[t] = job[t]
                             \/ pc[t] = "idle" \/ job[t].request = lost
  PROVE  Lost(status)' \subseteq Lost(status) \cup {lost}
  <1> SUFFICES ASSUME NEW r \in Requests, r \in Lost(status)', r # lost
               PROVE  r \in Lost(status)
    BY DEF Lost
  <1>1. \A t \in Sessions : Recording(t, r) => Recording(t, r)'
    BY DEF Recording
  <1>2. RecordedBy(r)' = RecordedBy(r)
    BY DEF RecordedBy
  <1>3. QED
    BY <1>1, <1>2 DEF Lost

LEMMA LostInvStep ==
  ASSUME IsFiniteSet(Requests), TypeOK, LostInv, [Next]_vars
  PROVE  LostInv'
  <1> SUFFICES ASSUME NEW status \in HumanOutcomes
               PROVE  Cardinality(Lost(status)') <= aborts'
    BY DEF LostInv
  <1>0. /\ IsFiniteSet(Lost(status)) /\ Cardinality(Lost(status)) \in Nat
        /\ Cardinality(Lost(status)) <= aborts
    BY FS_Subset, FS_CardinalityType DEF Lost, LostInv
  <1>1. aborts \in Nat
    BY DEF TypeOK, TablesOK
  <1>2. ASSUME Lost(status)' \subseteq Lost(status), aborts' = aborts
        PROVE  Cardinality(Lost(status)') <= aborts'
    <2>1. /\ Cardinality(Lost(status)') \in Nat
          /\ Cardinality(Lost(status)') <= Cardinality(Lost(status))
      BY <1>0, <1>2, FS_Subset, FS_CardinalityType
    <2>2. QED
      BY <1>0, <1>1, <1>2, <2>1
  <1>3. ASSUME NEW s \in Sessions, Step(s)
        PROVE  Cardinality(Lost(status)') <= aborts'
    BY <1>2, <1>3, LostStep, StepKeepsAborts
  <1>4. ASSUME UNCHANGED <<request, recoveries, aborts>>,
               \A t \in Sessions : (pc'[t] = pc[t] /\ job'[t] = job[t]) \/ pc[t] = "idle"
        PROVE  Cardinality(Lost(status)') <= aborts'
    <2>1. PICK lost : lost \notin Requests
      BY NoSetContainsEverything
    <2>2. Lost(status)' \subseteq Lost(status) \cup {lost}
      BY <1>4, LostSame
    <2>3. Lost(status)' \subseteq Requests
      BY DEF Lost
    <2>4. QED
      BY <1>2, <1>4, <2>1, <2>2, <2>3
  <1>5. ASSUME NEW s \in Sessions, BeginHandler(s)
        PROVE  Cardinality(Lost(status)') <= aborts'
    <2>1. UNCHANGED <<request, recoveries, aborts>>
      BY <1>5, BeginKeepsTables DEF ReadOnly
    <2>2. pc[s] = "idle" /\ \A t \in Sessions \ {s} : pc'[t] = pc[t] /\ job'[t] = job[t]
      BY <1>5, BeginGuards
    <2>3. QED
      BY <1>4, <2>1, <2>2
  <1>6. ASSUME NEW s \in Sessions, Abort(s)
        PROVE  Cardinality(Lost(status)') <= aborts'
    <2>1. /\ UNCHANGED <<request, recoveries>> /\ aborts' = aborts + 1
          /\ \A t \in Sessions \ {s} : pc'[t] = pc[t] /\ job'[t] = job[t]
      BY <1>6 DEF Abort, TypeOK, TablesOK, ControlOK
    <2>2. Lost(status)' \subseteq Lost(status) \cup {job[s].request}
      BY <2>1, LostSame
    <2>3. /\ IsFiniteSet(Lost(status) \cup {job[s].request})
          /\ Cardinality(Lost(status) \cup {job[s].request}) <= Cardinality(Lost(status)) + 1
      <3>1. /\ IsFiniteSet(Lost(status) \cup {job[s].request})
            /\ Cardinality(Lost(status) \cup {job[s].request}) =
                 IF job[s].request \in Lost(status) THEN Cardinality(Lost(status))
                 ELSE Cardinality(Lost(status)) + 1
        BY <1>0, FS_AddElement, Zenon
      <3>2. QED
        BY <1>0, <3>1
    <2>4. /\ Cardinality(Lost(status)') \in Nat
          /\ Cardinality(Lost(status) \cup {job[s].request}) \in Nat
          /\ Cardinality(Lost(status)') <= Cardinality(Lost(status) \cup {job[s].request})
      BY <2>2, <2>3, FS_Subset, FS_CardinalityType
    <2>5. QED
      BY <1>0, <1>1, <2>1, <2>3, <2>4
  <1>7. ASSUME NEW q \in Requests, RefundSettles(q)
        PROVE  Cardinality(Lost(status)') <= aborts'
    BY <1>4, <1>7 DEF RefundSettles
  <1>8. CASE UNCHANGED vars
    BY <1>4, <1>8 DEF vars
  <1>9. QED
    BY <1>3, <1>5, <1>6, <1>7, <1>8 DEF Next

LEMMA DashboardInvStep ==
  ASSUME IsFiniteSet(Requests), TypeOK, DashboardInv, [Next]_vars
  PROVE  DashboardInv'
  <1>1. ASSUME UNCHANGED <<attempts, runs>>,
               \A t \in Sessions : (pc'[t] = pc[t] /\ job'[t] = job[t]) \/ pc'[t] # "store"
        PROVE  ClassesInv' /\ VerdictsInv'
    BY <1>1 DEF DashboardInv, ClassesInv, VerdictsInv, Classified, Succeeded, MarkMatches
  <1>2. ASSUME NEW s \in Sessions, BeginHandler(s)
        PROVE  ClassesInv' /\ VerdictsInv'
    <2>1. UNCHANGED <<attempts, runs>>
      BY <1>2, BeginKeepsTables DEF ReadOnly
    <2>2. /\ \A t \in Sessions \ {s} : pc'[t] = pc[t] /\ job'[t] = job[t]
          /\ pc'[s] \in {"claim", "lookup", "attach", "resolve"}
      BY <1>2, BeginGuards
    <2>3. QED
      BY <1>1, <2>1, <2>2
  <1>3. ASSUME NEW s \in Sessions, Abort(s)
        PROVE  ClassesInv' /\ VerdictsInv'
    <2>1. /\ UNCHANGED <<attempts, runs>> /\ pc'[s] = "idle"
          /\ \A t \in Sessions \ {s} : pc'[t] = pc[t] /\ job'[t] = job[t]
      BY <1>3 DEF Abort, TypeOK, TablesOK, ControlOK
    <2>2. QED
      BY <1>1, <2>1
  <1>4. ASSUME NEW q \in Requests, RefundSettles(q)
        PROVE  ClassesInv' /\ VerdictsInv'
    BY <1>1, <1>4 DEF RefundSettles
  <1>5. ASSUME UNCHANGED vars
        PROVE  ClassesInv' /\ VerdictsInv'
    BY <1>1, <1>5 DEF vars
  <1>6. ClassesInv' /\ VerdictsInv'
    BY <1>2, <1>3, <1>4, <1>5, ClassesStep, VerdictsStep DEF DashboardInv, Next
  <1>7. QED
    BY <1>6, LostInvStep DEF DashboardInv

LEMMA DashboardInvInit ==
  ASSUME InitRequests
  PROVE  DashboardInv
  <1>1. ClassesInv /\ VerdictsInv
    BY DEF InitRequests, ClassesInv, VerdictsInv
  <1>2. \A status \in HumanOutcomes : Lost(status) = {}
    BY DEF InitRequests, Lost, NewRow, HumanOutcomes
  <1>3. LostInv
    <2>1. Cardinality({}) = 0 /\ aborts = 0
      BY FS_EmptySet DEF InitRequests
    <2>2. ASSUME NEW status \in HumanOutcomes
          PROVE  Cardinality(Lost(status)) = 0
      BY <1>2, <2>1, <2>2
    <2>3. QED
      BY <2>1, <2>2 DEF LostInv
  <1>4. QED
    BY <1>1, <1>3 DEF DashboardInv

\* Others may count a stop, and that only widens what the figures allow.
LEMMA DashboardFrame ==
  ASSUME IsFiniteSet(Requests), TypeOK, DashboardInv,
         UNCHANGED <<request, attempts, runs, recoveries, pc, job>>,
         aborts' \in {aborts, aborts + 1}
  PROVE  DashboardInv'
  <1>1. ClassesInv' /\ VerdictsInv'
    BY DEF DashboardInv, ClassesInv, VerdictsInv, Classified, Succeeded, MarkMatches
  <1>2. ASSUME NEW status \in HumanOutcomes
        PROVE  Cardinality(Lost(status)') <= aborts'
    <2>1. Lost(status)' = Lost(status)
      BY DEF Lost, RecordedBy, Recording
    <2>2. Cardinality(Lost(status)) \in Nat /\ aborts \in Nat
      <3>1. Lost(status) \subseteq Requests
        BY DEF Lost
      <3>2. QED
        BY <3>1, FS_Subset, FS_CardinalityType DEF TypeOK, TablesOK
    <2>3. Cardinality(Lost(status)) <= aborts
      BY DEF DashboardInv, LostInv
    <2>4. QED
      BY <2>1, <2>2, <2>3
  <1>3. QED
    BY <1>1, <1>2 DEF DashboardInv, LostInv

\* A set that maps one to one into another is no larger.
LEMMA NoLarger ==
  ASSUME NEW S, NEW T, IsFiniteSet(T), NEW f \in [S -> T],
         \A x, y \in S : f[x] = f[y] => x = y
  PROVE  /\ IsFiniteSet(S) /\ Cardinality(S) \in Nat /\ Cardinality(T) \in Nat
         /\ Cardinality(S) <= Cardinality(T)
  <1>1. f \in Injection(S, T)
    BY DEF Injection, IsInjective
  <1>2. QED
    BY <1>1, FS_Injection, FS_CardinalityType

\* Requests that have a row of a kind are no more than the rows of that kind.
LEMMA RowPerRequest ==
  ASSUME NEW rows, IsFiniteSet(rows), NEW some,
         \A r \in some : \E row \in rows : row[1] = r
  PROVE  /\ IsFiniteSet(some) /\ Cardinality(some) \in Nat /\ Cardinality(rows) \in Nat
         /\ Cardinality(some) <= Cardinality(rows)
  <1> DEFINE f == [r \in some |-> CHOOSE row \in rows : row[1] = r]
  <1>1. \A r \in some : f[r] \in rows /\ f[r][1] = r
    OBVIOUS
  <1>2. f \in [some -> rows]
    BY <1>1
  <1> HIDE DEF f
  <1>3. \A q, r \in some : f[q] = f[r] => q = r
    BY <1>1
  <1>4. QED
    BY <1>2, <1>3, NoLarger

\* A table of finitely many requests has finitely many rows.
LEMMA RowsFinite ==
  ASSUME IsFiniteSet(Requests), NEW table, \A r \in Requests : Len(table[r]) \in Nat
  PROVE  IsFiniteSet(RowsOf(table))
  <1> DEFINE rows == [r \in Requests |-> {r} \X (1 .. Len(table[r]))]
             all == {rows[r] : r \in Requests}
  <1>1. IsFiniteSet(all)
    <2>1. rows \in Surjection(Requests, all)
      BY DEF Surjection
    <2>2. QED
      BY <2>1, FS_Surjection
  <1>2. ASSUME NEW r \in Requests
        PROVE  IsFiniteSet(rows[r])
    <2>0. IsFiniteSet({r})
      BY FS_Singleton
    <2>1. IsFiniteSet(1 .. Len(table[r]))
      BY FS_Interval
    <2>2. IsFiniteSet({r} \X (1 .. Len(table[r])))
      BY <2>0, <2>1, FS_Product
    <2>3. QED
      BY <2>2
  <1>3. IsFiniteSet(UNION all)
    BY <1>1, <1>2, FS_UNION
  <1>4. RowsOf(table) = UNION all
    BY DEF RowsOf
  <1>5. QED
    BY <1>3, <1>4

LEMMA Disjoint ==
  ASSUME NEW S, IsFiniteSet(S), NEW T, IsFiniteSet(T), S \cap T = {}
  PROVE  /\ IsFiniteSet(S \cup T) /\ Cardinality(S) \in Nat /\ Cardinality(T) \in Nat
         /\ Cardinality(S \cup T) = Cardinality(S) + Cardinality(T)
  <1>1. /\ IsFiniteSet(S \cup T)
        /\ Cardinality(S \cup T) = Cardinality(S) + Cardinality(T) - Cardinality(S \cap T)
    BY FS_Union
  <1>2. Cardinality(S \cap T) = 0
    BY FS_EmptySet
  <1>3. Cardinality(S) \in Nat /\ Cardinality(T) \in Nat
    BY FS_CardinalityType
  <1>4. QED
    BY <1>1, <1>2, <1>3

LEMMA AtMostTheSum ==
  ASSUME NEW S, IsFiniteSet(S), NEW T, IsFiniteSet(T)
  PROVE  /\ IsFiniteSet(S \cup T) /\ Cardinality(S \cup T) \in Nat
         /\ Cardinality(S \cup T) <= Cardinality(S) + Cardinality(T)
  <1>1. /\ IsFiniteSet(S \cup T)
        /\ Cardinality(S \cup T) = Cardinality(S) + Cardinality(T) - Cardinality(S \cap T)
    BY FS_Union
  <1>2. IsFiniteSet(S \cap T)
    BY FS_Intersection
  <1>3. Cardinality(S) \in Nat /\ Cardinality(T) \in Nat /\ Cardinality(S \cap T) \in Nat
    BY <1>2, FS_CardinalityType
  <1>4. Cardinality(S \cup T) \in Nat
    BY <1>1, FS_CardinalityType
  <1>5. QED
    BY <1>1, <1>3, <1>4

\* Every attempt is counted once.
LEMMA AttemptsAddUp ==
  ASSUME IsFiniteSet(Requests), TypeOK, ClassesInv
  PROVE  AttemptMetrics.total =
           AttemptMetrics.successful + AttemptMetrics.transient
             + AttemptMetrics.permanent + AttemptMetrics.unknown
  <1> DEFINE all == RowsOf(attempts)
             successful == {row \in all : Succeeded(Attempt(row))}
             with(error) == {row \in all : Attempt(row).error_type = error}
             failed == with("transient") \cup with("permanent")
  <1>1. IsFiniteSet(all)
    <2>1. \A r \in Requests : Len(attempts[r]) \in Nat
      BY DEF TypeOK, TablesOK
    <2>2. QED
      BY <2>1, RowsFinite
  <1>2. ASSUME NEW row \in all
        PROVE  /\ Attempt(row).error_type \in {"none", "transient", "permanent", "unknown"}
               /\ Classified(Attempt(row))
    <2>1. PICK r \in Requests : row \in {r} \X (1 .. Len(attempts[r]))
      BY DEF RowsOf
    <2>2. row[1] = r /\ row[2] \in 1 .. Len(attempts[r])
      BY <2>1
    <2>3. attempts[r] \in Seq(AttemptRows)
      BY DEF TypeOK, TablesOK
    <2>4. attempts[r][row[2]] \in AttemptRows
      BY <2>2, <2>3
    <2>5. QED
      BY <2>2, <2>4 DEF Attempt, ClassesInv, AttemptRows
  <1>3. /\ IsFiniteSet(successful) /\ IsFiniteSet(with("transient"))
        /\ IsFiniteSet(with("permanent")) /\ IsFiniteSet(with("unknown"))
    BY <1>1, FS_Subset
  <1>4. /\ with("transient") \cap with("permanent") = {}
        /\ failed \cap with("unknown") = {}
        /\ (failed \cup with("unknown")) \cap successful = {}
    BY <1>2 DEF Classified
  <1>5. all = failed \cup with("unknown") \cup successful
    BY <1>2 DEF Classified
  <1> HIDE DEF all, successful, with
  <1>6. /\ IsFiniteSet(failed) /\ Cardinality(with("transient")) \in Nat
        /\ Cardinality(with("permanent")) \in Nat
        /\ Cardinality(failed) = Cardinality(with("transient")) + Cardinality(with("permanent"))
    BY <1>3, <1>4, Disjoint
  <1> HIDE DEF failed
  <1>7. /\ IsFiniteSet(failed \cup with("unknown")) /\ Cardinality(with("unknown")) \in Nat
        /\ Cardinality(failed \cup with("unknown")) =
             Cardinality(failed) + Cardinality(with("unknown"))
    BY <1>3, <1>4, <1>6, Disjoint
  <1>8. /\ Cardinality(successful) \in Nat
        /\ Cardinality(all) = Cardinality(failed \cup with("unknown")) + Cardinality(successful)
    BY <1>3, <1>4, <1>5, <1>7, Disjoint
  <1>9. /\ AttemptMetrics.total = Cardinality(all)
        /\ AttemptMetrics.successful = Cardinality(successful)
        /\ AttemptMetrics.transient = Cardinality(with("transient"))
        /\ AttemptMetrics.permanent = Cardinality(with("permanent"))
        /\ AttemptMetrics.unknown = Cardinality(with("unknown"))
    BY DEF AttemptMetrics, AttemptsWithError, SuccessfulAttempts, all, successful, with
  <1>10. QED
    BY <1>6, <1>7, <1>8, <1>9

\* A row of a table, from its position.
LEMMA RowIn ==
  ASSUME NEW table, NEW r \in Requests, NEW i \in 1 .. Len(table[r])
  PROVE  <<r, i>> \in RowsOf(table)
  BY DEF RowsOf

\* The successes shown are successful attempts.
LEMMA SuccessesAddUp ==
  ASSUME IsFiniteSet(Requests), TypeOK, EvidenceInv
  PROVE  ExecutionStatusCounts["succeeded"] + ExecutionStatusCounts["reconciled"]
           <= AttemptMetrics.successful
  <1> DEFINE with(status) == {r \in Requests : request[r].status = status}
             rows == {row \in RowsOf(attempts) : Succeeded(Attempt(row))}
  <1>1. IsFiniteSet(rows)
    <2>1. \A r \in Requests : Len(attempts[r]) \in Nat
      BY DEF TypeOK, TablesOK
    <2>2. QED
      BY <2>1, RowsFinite, FS_Subset
  <1>2. ASSUME NEW r \in with("succeeded") \cup with("reconciled")
        PROVE  \E row \in rows : row[1] = r
    <2>1. PICK i \in 1 .. Len(attempts[r]) : Succeeded(attempts[r][i])
      BY <1>2 DEF EvidenceInv, ClosedWell, Evidence, HasSuccess
    <2>2. <<r, i>> \in rows
      BY <2>1, RowIn DEF Attempt
    <2>3. QED
      BY <2>2
  <1>3. /\ IsFiniteSet(with("succeeded")) /\ IsFiniteSet(with("reconciled"))
        /\ with("succeeded") \cap with("reconciled") = {}
    BY FS_Subset
  <1>4. /\ ExecutionStatusCounts["succeeded"] = Cardinality(with("succeeded"))
        /\ ExecutionStatusCounts["reconciled"] = Cardinality(with("reconciled"))
        /\ AttemptMetrics.successful = Cardinality(rows)
    BY DEF ExecutionStatusCounts, StoredStatuses, ExecutionStatuses, AttemptMetrics,
           SuccessfulAttempts
  <1> HIDE DEF with, rows
  <1>5. Cardinality(with("succeeded") \cup with("reconciled")) <= Cardinality(rows)
    BY <1>1, <1>2, RowPerRequest
  <1>6. Cardinality(with("succeeded") \cup with("reconciled")) =
          Cardinality(with("succeeded")) + Cardinality(with("reconciled"))
    BY <1>3, Disjoint
  <1>7. QED
    BY <1>4, <1>5, <1>6

\* What is shown as reconciled has been matched.
LEMMA MatchesAddUp ==
  ASSUME IsFiniteSet(Requests), TypeOK, VerifiedInv, VerdictsInv
  PROVE  ExecutionStatusCounts["reconciled"] <= ReconciliationMetrics.matched_success
  <1> DEFINE some == {r \in Requests : request[r].status = "reconciled"}
             rows == {row \in RowsOf(runs) : Run(row).result \in {"matched_success"}}
  <1>1. IsFiniteSet(rows)
    <2>1. \A r \in Requests : Len(runs[r]) \in Nat
      BY DEF TypeOK, TablesOK
    <2>2. QED
      BY <2>1, RowsFinite, FS_Subset
  <1>2. ASSUME NEW r \in some
        PROVE  \E row \in rows : row[1] = r
    <2>1. PICK i \in 1 .. Len(runs[r]) : runs[r][i].action = "mark_reconciled"
      BY <1>2 DEF VerifiedInv, Verified, Verifies
    <2>2. <<r, i>> \in rows
      BY <2>1, RowIn DEF Run, VerdictsInv, MarkMatches
    <2>3. QED
      BY <2>2
  <1>3. /\ ExecutionStatusCounts["reconciled"] = Cardinality(some)
        /\ ReconciliationMetrics.matched_success = Cardinality(rows)
    BY DEF ExecutionStatusCounts, StoredStatuses, ExecutionStatuses, ReconciliationMetrics,
           RunsWithResult
  <1>4. QED
    BY <1>1, <1>2, <1>3, RowPerRequest

\* What is shown as the outcome of a recovery has its row, has it on the way, or lost it.
LEMMA RecoveriesAddUp ==
  ASSUME IsFiniteSet(Requests), TypeOK, LostInv, NEW status \in HumanOutcomes
  PROVE  ExecutionStatusCounts[status] <=
           RecoveriesTo(status) + Cardinality({s \in Sessions : pc[s] \in RecoverSteps}) + aborts
  <1> DEFINE some == {r \in Requests : request[r].status = status}
             recorded == {r \in some : RecordedBy(r)}
             held == {r \in some : \E s \in Sessions : Recording(s, r)}
             rows == {row \in RowsOf(recoveries) : RecoveryAction(row).new = status}
             recovering == {s \in Sessions : pc[s] \in RecoverSteps}
  <1>1. /\ RecoveriesTo(status) = Cardinality(rows)
        /\ ExecutionStatusCounts[status] = Cardinality(some)
    BY DEF ExecutionStatusCounts, HumanOutcomes, StoredStatuses, ExecutionStatuses, RecoveriesTo
  <1>2. /\ IsFiniteSet(recorded) /\ Cardinality(recorded) \in Nat /\ Cardinality(rows) \in Nat
        /\ Cardinality(recorded) <= Cardinality(rows)
    <2>1. IsFiniteSet(rows)
      <3>1. \A r \in Requests : Len(recoveries[r]) \in Nat
        BY DEF TypeOK, TablesOK
      <3>2. QED
        BY <3>1, RowsFinite, FS_Subset
    <2>2. ASSUME NEW r \in recorded
          PROVE  \E row \in rows : row[1] = r
      <3>1. PICK i \in 1 .. Len(recoveries[r]) : recoveries[r][i].new = status
        BY <2>2 DEF RecordedBy
      <3>2. <<r, i>> \in rows
        BY <3>1, RowIn DEF RecoveryAction
      <3>3. QED
        BY <3>2
    <2> HIDE DEF rows, recorded
    <2>3. QED
      BY <2>1, <2>2, RowPerRequest
  <1>3. /\ IsFiniteSet(held) /\ Cardinality(held) \in Nat /\ Cardinality(recovering) \in Nat
        /\ Cardinality(held) <= Cardinality(recovering)
    <2> DEFINE f == [r \in held |-> CHOOSE s \in Sessions : Recording(s, r)]
    <2>1. \A r \in held : f[r] \in Sessions /\ Recording(f[r], r)
      OBVIOUS
    <2> HIDE DEF f
    <2>2. ASSUME NEW r \in held
          PROVE  f[r] \in recovering /\ job[f[r]].request = r
      BY <2>1 DEF Recording, RecoverSteps
    <2>3. f \in [held -> recovering]
      BY <2>2 DEF f
    <2>4. \A q, r \in held : f[q] = f[r] => q = r
      BY <2>2
    <2>5. IsFiniteSet(recovering)
      BY SessionsAssumption, FS_Subset
    <2> HIDE DEF held, recovering
    <2>6. QED
      BY <2>3, <2>4, <2>5, NoLarger
  <1>4. /\ IsFiniteSet(Lost(status)) /\ Cardinality(Lost(status)) \in Nat
        /\ Cardinality(Lost(status)) <= aborts /\ aborts \in Nat
    BY FS_Subset, FS_CardinalityType DEF Lost, LostInv, TypeOK, TablesOK
  <1>5. some \subseteq recorded \cup held \cup Lost(status)
    BY DEF Lost
  <1> HIDE DEF some, recorded, held, rows, recovering
  <1>6. /\ IsFiniteSet(recorded \cup held) /\ Cardinality(recorded \cup held) \in Nat
        /\ Cardinality(recorded \cup held) <= Cardinality(recorded) + Cardinality(held)
    BY <1>2, <1>3, AtMostTheSum
  <1>7. /\ IsFiniteSet(recorded \cup held \cup Lost(status))
        /\ Cardinality(recorded \cup held \cup Lost(status)) \in Nat
        /\ Cardinality(recorded \cup held \cup Lost(status)) <=
             Cardinality(recorded \cup held) + Cardinality(Lost(status))
    BY <1>4, <1>6, AtMostTheSum
  <1>8. /\ Cardinality(some) \in Nat
        /\ Cardinality(some) <= Cardinality(recorded \cup held \cup Lost(status))
    BY <1>5, <1>7, FS_Subset, FS_CardinalityType
  <1>9. Cardinality(some) <= Cardinality(rows) + Cardinality(recovering) + aborts
    BY <1>2, <1>3, <1>4, <1>6, <1>7, <1>8
  <1>10. QED
    BY <1>1, <1>9 DEF recovering

LEMMA DashboardMeans ==
  ASSUME IsFiniteSet(Requests), ExecutionSound, DashboardInv
  PROVE  DashboardIsConsistent
  <1>1. TypeOK /\ EvidenceInv /\ VerifiedInv /\ ClassesInv /\ VerdictsInv /\ LostInv
    BY DEF ExecutionSound, DashboardInv
  <1>2. /\ RecoveryMetrics.manually_resolved = RecoveriesTo("manually_resolved")
        /\ RecoveryMetrics.cancelled = RecoveriesTo("cancelled")
    BY DEF RecoveryMetrics
  <1>3. "manually_resolved" \in HumanOutcomes /\ "cancelled" \in HumanOutcomes
    BY DEF HumanOutcomes
  <1>4. AttemptMetrics.total =
          AttemptMetrics.successful + AttemptMetrics.transient
            + AttemptMetrics.permanent + AttemptMetrics.unknown
    BY <1>1, AttemptsAddUp
  <1>5. ExecutionStatusCounts["succeeded"] + ExecutionStatusCounts["reconciled"]
          <= AttemptMetrics.successful
    BY <1>1, SuccessesAddUp
  <1>6. ExecutionStatusCounts["reconciled"] <= ReconciliationMetrics.matched_success
    BY <1>1, MatchesAddUp
  <1>7. /\ ExecutionStatusCounts["manually_resolved"] <=
             RecoveriesTo("manually_resolved")
               + Cardinality({s \in Sessions : pc[s] \in RecoverSteps}) + aborts
        /\ ExecutionStatusCounts["cancelled"] <=
             RecoveriesTo("cancelled")
               + Cardinality({s \in Sessions : pc[s] \in RecoverSteps}) + aborts
    BY <1>1, <1>3, RecoveriesAddUp
  <1>8. QED
    BY <1>2, <1>4, <1>5, <1>6, <1>7 DEF DashboardIsConsistent

\* The figures of the dashboard agree with each other and with the statuses below them
\* at every moment, however many sessions overlap and wherever handlers stop.
THEOREM DashboardTheorem ==
  ASSUME IsFiniteSet(Requests)
  PROVE  Spec => []DashboardIsConsistent
  <1>1. Init => DashboardInv
    BY DashboardInvInit DEF Init
  <1>2. ExecutionSound /\ DashboardInv /\ [Next]_vars => DashboardInv'
    BY DashboardInvStep DEF ExecutionSound
  <1>3. ExecutionSound /\ DashboardInv => DashboardIsConsistent
    BY DashboardMeans
  <1>4. QED
    BY <1>1, <1>2, <1>3, ExecutionIsSound, PTL DEF Spec
-----------------------------------------------------------------------------
(* The numbers of the attempts                                               *)

\* Handlers that have counted the attempts and not stored their own.
Numbering == {"call", "store"}
Numbered(r, n) == {s \in At(r, Numbering) : job[s].number = n}

\* A number is only taken by counting the rows, so it is at most one ahead of the
\* history, and it goes to no handler any more once a row with it could be counted: the
\* rows and the handlers that share one are never more than the sessions.
NumbersKept(r) ==
    /\ \A i \in 1 .. Len(attempts[r]) : attempts[r][i].number \in 1 .. i
    /\ \A s \in At(r, Numbering) : job[s].number \in 1 .. Len(attempts[r]) + 1
    /\ \A n \in 1 .. Len(attempts[r]) :
         Cardinality(WithNumber(r, n)) + Cardinality(Numbered(r, n)) <= Cardinality(Sessions)

NumbersInv == \A r \in Requests : NumbersKept(r)

LEMMA NumberTypes ==
  ASSUME TypeOK, NEW r \in Requests, NEW n
  PROVE  /\ Len(attempts[r]) \in Nat /\ Cardinality(Sessions) \in Nat
         /\ IsFiniteSet(WithNumber(r, n)) /\ Cardinality(WithNumber(r, n)) \in Nat
         /\ IsFiniteSet(Numbered(r, n)) /\ Cardinality(Numbered(r, n)) \in Nat
  <1>1. Len(attempts[r]) \in Nat
    BY DEF TypeOK, TablesOK
  <1>2. IsFiniteSet(1 .. Len(attempts[r])) /\ WithNumber(r, n) \subseteq 1 .. Len(attempts[r])
    <2>1. 1 \in Int /\ Len(attempts[r]) \in Int
      BY <1>1
    <2>2. QED
      BY <2>1, FS_Interval DEF WithNumber
  <1>3. Numbered(r, n) \subseteq At(r, Numbering) /\ IsFiniteSet(At(r, Numbering))
    BY SessionsAt DEF Numbered
  <1>4. IsFiniteSet(WithNumber(r, n)) /\ IsFiniteSet(Numbered(r, n))
    BY <1>2, <1>3, FS_Subset
  <1>5. Cardinality(Sessions) \in Nat
    BY SessionsAssumption, FS_CardinalityType
  <1>6. QED
    BY <1>1, <1>4, <1>5, FS_CardinalityType

\* Where a handler takes its number, and that it keeps it up to the store.
LEMMA NumberMoves ==
  ASSUME TypeOK, NEW s \in Sessions, Step(s)
  PROVE  /\ pc'[s] = "call" => job'[s].number = Len(attempts[job[s].request]) + 1
         /\ pc'[s] = "store" => pc[s] = "call" /\ job'[s].number = job[s].number
         /\ pc[s] = "store" => pc'[s] = "audit_attempt"
  <1> USE DEF TypeOK, ControlOK, Move, Proceed, Jobs
  <1>1. CASE ExecuteStep(s)
    BY <1>1 DEF ExecuteStep, Claim, ClaimCase, Reread, CountAttempts, CallMock, CallStripe,
        StoreAttempt, AuditAttempt, Finish, FinishCase, Recheck, Recount, Exhaust, ExhaustCase
  <1>2. CASE ReconcileStep(s)
    BY <1>2 DEF ReconcileStep, Lookup, StoreRun, AuditRun, Mark, MarkCase, AuditMark, Route,
                AuditRoute, RouteCase
  <1>3. CASE RecoverStep(s)
    BY <1>3 DEF RecoverStep, Attach, Resolve, AuditResolve, ResolveCase, StoreRecovery,
                AuditRecovery
  <1>4. QED
    BY <1>1, <1>2, <1>3 DEF Step

\* A row adds to its own number and to no other.
LEMMA NumberStored ==
  ASSUME TypeOK, NEW r \in Requests, NEW row \in AttemptRows, NEW n,
         attempts'[r] = Append(attempts[r], row)
  PROVE  Cardinality(WithNumber(r, n)') =
           Cardinality(WithNumber(r, n)) + IF row.number = n THEN 1 ELSE 0
  <1> DEFINE last == Len(attempts[r]) + 1
             after == {i \in 1 .. Len(attempts'[r]) : attempts'[r][i].number = n}
  <1>0. WithNumber(r, n)' = after
    BY DEF WithNumber
  <1>1. attempts[r] \in Seq(AttemptRows) /\ Len(attempts[r]) \in Nat
    BY DEF TypeOK, TablesOK
  <1>2. /\ Len(attempts'[r]) = last /\ attempts'[r][last] = row
        /\ \A i \in 1 .. Len(attempts[r]) : attempts'[r][i] = attempts[r][i]
    BY <1>1
  <1>3. \A i \in 1 .. last : i = last \/ i \in 1 .. Len(attempts[r])
    BY <1>1
  <1>4. /\ row.number = n => after = WithNumber(r, n) \cup {last}
        /\ row.number # n => after = WithNumber(r, n)
    BY <1>1, <1>2, <1>3 DEF WithNumber
  <1>5. last \notin WithNumber(r, n)
    BY <1>1 DEF WithNumber
  <1>6. /\ IsFiniteSet(WithNumber(r, n)) /\ Cardinality(WithNumber(r, n)) \in Nat
        /\ Cardinality(WithNumber(r, n) \cup {last}) = Cardinality(WithNumber(r, n)) + 1
    BY <1>5, NumberTypes, FS_AddElement
  <1>7. CASE row.number = n
    BY <1>0, <1>4, <1>6, <1>7
  <1>8. CASE row.number # n
    <2>1. WithNumber(r, n)' = WithNumber(r, n)
      BY <1>0, <1>4, <1>8
    <2>2. Cardinality(WithNumber(r, n)) + 0 = Cardinality(WithNumber(r, n))
      BY <1>6
    <2>3. (IF row.number = n THEN 1 ELSE 0) = 0
      BY <1>8
    <2>4. QED
      BY <2>1, <2>2, <2>3
  <1>9. QED
    BY <1>7, <1>8

\* As long as nothing is stored, handlers may only take numbers from the end of the
\* history.
LEMMA NumbersFrame ==
  ASSUME TypeOK, NEW r \in Requests, NumbersKept(r), attempts'[r] = attempts[r],
         \A s \in At(r, Numbering)' : \/ s \in At(r, Numbering) /\ job'[s].number = job[s].number
                                      \/ job'[s].number = Len(attempts[r]) + 1
  PROVE  NumbersKept(r)'
  <1>1. Len(attempts[r]) \in Nat
    BY NumberTypes
  <1>2. ASSUME NEW i \in 1 .. Len(attempts'[r])
        PROVE  attempts'[r][i].number \in 1 .. i
    BY DEF NumbersKept
  <1>3. ASSUME NEW s \in At(r, Numbering)'
        PROVE  job'[s].number \in 1 .. Len(attempts'[r]) + 1
    BY <1>1 DEF NumbersKept
  <1>4. ASSUME NEW n \in 1 .. Len(attempts'[r])
        PROVE  Cardinality(WithNumber(r, n)') + Cardinality(Numbered(r, n)')
                 <= Cardinality(Sessions)
    <2>1. WithNumber(r, n)' = WithNumber(r, n)
      BY DEF WithNumber
    <2>2. Numbered(r, n)' \subseteq Numbered(r, n)
      BY <1>1 DEF Numbered
    <2>3. Cardinality(Numbered(r, n)') \in Nat
          /\ Cardinality(Numbered(r, n)') <= Cardinality(Numbered(r, n))
      BY <2>2, NumberTypes, FS_Subset, FS_CardinalityType
    <2>4. Cardinality(WithNumber(r, n)) + Cardinality(Numbered(r, n)) <= Cardinality(Sessions)
      BY DEF NumbersKept
    <2>5. QED
      BY <2>1, <2>3, <2>4, NumberTypes
  <1>5. QED
    BY <1>2, <1>3, <1>4 DEF NumbersKept, At

\* A stored attempt turns a handler into a row, and opens a number nobody has a row for.
LEMMA NumbersStore ==
  ASSUME TypeOK, NEW s \in Sessions, Step(s), pc[s] = "store", NEW r, r = job[s].request,
         NumbersKept(r)
  PROVE  NumbersKept(r)'
  <1> DEFINE length == Len(attempts[r])
  <1>0. /\ r \in Requests /\ pc'[s] = "audit_attempt"
        /\ \A t \in Sessions \ {s} : pc'[t] = pc[t] /\ job'[t] = job[t]
    BY OthersUntouched, NumberMoves
  <1>1. /\ length \in Nat /\ Len(attempts'[r]) = length + 1
        /\ \A i \in 1 .. length : attempts'[r][i] = attempts[r][i]
        /\ attempts'[r][length + 1] = AttemptOf(s)
    BY AfterStore
  <1>2. /\ AttemptOf(s) \in AttemptRows /\ AttemptOf(s).number = job[s].number
        /\ attempts'[r] = Append(attempts[r], AttemptOf(s))
    BY <1>0, AttemptMoves DEF AttemptOf, TypeOK, TablesOK
  <1>3. s \in At(r, Numbering) /\ job[s].number \in 1 .. length + 1
    BY DEF At, Numbering, NumbersKept
  <1>4. At(r, Numbering)' = At(r, Numbering) \ {s}
    BY <1>0 DEF At, Numbering
  <1>5. ASSUME NEW i \in 1 .. Len(attempts'[r])
        PROVE  attempts'[r][i].number \in 1 .. i
    <2>1. i \in 1 .. length \/ i = length + 1
      BY <1>1
    <2>2. QED
      BY <1>1, <1>2, <1>3, <2>1 DEF NumbersKept
  <1>6. ASSUME NEW t \in At(r, Numbering)'
        PROVE  job'[t].number \in 1 .. Len(attempts'[r]) + 1
    <2>1. t \in At(r, Numbering) /\ job'[t].number = job[t].number
      BY <1>0, <1>4 DEF At
    <2>2. job[t].number \in 1 .. length + 1
      BY <2>1 DEF NumbersKept
    <2>3. QED
      BY <1>1, <2>1, <2>2
  <1>7. ASSUME NEW n \in 1 .. Len(attempts'[r])
        PROVE  Cardinality(WithNumber(r, n)') + Cardinality(Numbered(r, n)')
                 <= Cardinality(Sessions)
    <2>1. Numbered(r, n)' = Numbered(r, n) \ {s}
      BY <1>0, <1>4 DEF Numbered, At
    <2>2. s \in Numbered(r, n) <=> job[s].number = n
      BY <1>3 DEF Numbered
    <2>3. Cardinality(Numbered(r, n)') =
            IF job[s].number = n THEN Cardinality(Numbered(r, n)) - 1
            ELSE Cardinality(Numbered(r, n))
      <3>1. IsFiniteSet(Numbered(r, n))
        BY <1>0, NumberTypes
      <3>2. Cardinality(Numbered(r, n) \ {s}) =
              IF s \in Numbered(r, n) THEN Cardinality(Numbered(r, n)) - 1
              ELSE Cardinality(Numbered(r, n))
        BY <3>1, FS_RemoveElement
      <3>3. QED
        BY <2>1, <2>2, <3>2
    <2>4. Cardinality(WithNumber(r, n)') =
            Cardinality(WithNumber(r, n)) + IF job[s].number = n THEN 1 ELSE 0
      BY <1>0, <1>2, NumberStored
    <2>5. /\ Cardinality(WithNumber(r, n)) \in Nat /\ Cardinality(Numbered(r, n)) \in Nat
          /\ Cardinality(Sessions) \in Nat
      BY <1>0, NumberTypes
    <2>6. Cardinality(WithNumber(r, n)) + Cardinality(Numbered(r, n)) <= Cardinality(Sessions)
      <3>1. CASE n \in 1 .. length
        BY <3>1 DEF NumbersKept
      <3>2. CASE n = length + 1
        <4>1. \A i \in 1 .. length : attempts[r][i].number \in 1 .. i
          BY DEF NumbersKept
        <4>2. \A i \in 1 .. length : length + 1 \notin 1 .. i
          BY <1>1
        <4>3. WithNumber(r, n) = {}
          BY <3>2, <4>1, <4>2 DEF WithNumber
        <4>4. Numbered(r, n) \subseteq Sessions
          BY DEF Numbered, At
        <4>5. Cardinality(Numbered(r, n)) <= Cardinality(Sessions)
          BY <4>4, FS_Subset, SessionsAssumption
        <4>6. Cardinality(WithNumber(r, n)) = 0
          BY <4>3, FS_EmptySet
        <4>7. QED
          BY <2>5, <4>5, <4>6
      <3>3. \A k \in Nat : \A m \in 1 .. k + 1 : m \in 1 .. k \/ m = k + 1
        OBVIOUS
      <3>4. n \in 1 .. length + 1
        BY <1>1
      <3>5. n \in 1 .. length \/ n = length + 1
        BY <1>1, <3>3, <3>4, Zenon
      <3>6. QED
        BY <3>1, <3>2, <3>5
    <2>7. QED
      <3>1. CASE job[s].number = n
        <4>1. \A rows, handlers, sessions \in Nat :
                rows + handlers <= sessions => (rows + 1) + (handlers - 1) <= sessions
          OBVIOUS
        <4>2. /\ Cardinality(WithNumber(r, n)') = Cardinality(WithNumber(r, n)) + 1
              /\ Cardinality(Numbered(r, n)') = Cardinality(Numbered(r, n)) - 1
          BY <2>3, <2>4, <3>1
        <4>3. QED
          BY <2>5, <2>6, <4>1, <4>2, Zenon
      <3>2. CASE job[s].number # n
        <4>1. /\ Cardinality(WithNumber(r, n)') = Cardinality(WithNumber(r, n))
              /\ Cardinality(Numbered(r, n)') = Cardinality(Numbered(r, n))
          BY <2>3, <2>4, <2>5, <3>2
        <4>2. QED
          BY <2>6, <4>1
      <3>3. QED
        BY <3>1, <3>2
  <1>8. QED
    BY <1>5, <1>6, <1>7 DEF NumbersKept, At

LEMMA NumbersStep ==
  ASSUME TypeOK, NumbersInv, NEW s \in Sessions, Step(s), NEW r \in Requests
  PROVE  NumbersKept(r)'
  <1>0. NumbersKept(r)
    BY DEF NumbersInv
  <1>1. /\ \A t \in Sessions \ {s} : pc'[t] = pc[t] /\ job'[t] = job[t]
        /\ pc'[s] # "idle" => job'[s].request = job[s].request
        /\ r # job[s].request => attempts'[r] = attempts[r]
    BY OthersUntouched
  <1>2. CASE r = job[s].request /\ pc[s] = "store"
    BY <1>0, <1>2, NumbersStore
  <1>3. CASE r # job[s].request \/ pc[s] # "store"
    <2>1. attempts'[r] = attempts[r]
      BY <1>1, <1>3, AttemptMoves
    <2>2. ASSUME NEW t \in At(r, Numbering)', t # s
          PROVE  t \in At(r, Numbering) /\ job'[t].number = job[t].number
      BY <1>1, <2>2 DEF At
    <2>3. ASSUME s \in At(r, Numbering)'
          PROVE  \/ s \in At(r, Numbering) /\ job'[s].number = job[s].number
                 \/ job'[s].number = Len(attempts[r]) + 1
      BY <1>1, <2>3, NumberMoves DEF At, Numbering
    <2>4. QED
      BY <1>0, <2>1, <2>2, <2>3, NumbersFrame
  <1>4. QED
    BY <1>2, <1>3

LEMMA NumbersInvStep ==
  ASSUME TypeOK, NumbersInv, [Next]_vars
  PROVE  NumbersInv'
  <1> SUFFICES ASSUME NEW r \in Requests
               PROVE  NumbersKept(r)'
    BY DEF NumbersInv
  <1>0. NumbersKept(r)
    BY DEF NumbersInv
  <1>1. ASSUME NEW s \in Sessions, BeginHandler(s)
        PROVE  NumbersKept(r)'
    <2>1. attempts' = attempts
      BY <1>1, BeginKeepsTables DEF ReadOnly
    <2>2. /\ \A t \in Sessions \ {s} : pc'[t] = pc[t] /\ job'[t] = job[t]
          /\ pc'[s] \in {"claim", "lookup", "attach", "resolve"}
      BY <1>1, BeginGuards
    <2>3. QED
      BY <1>0, <2>1, <2>2, NumbersFrame DEF At, Numbering
  <1>2. ASSUME NEW s \in Sessions, Abort(s)
        PROVE  NumbersKept(r)'
    <2>1. /\ attempts' = attempts /\ pc'[s] = "idle"
          /\ \A t \in Sessions \ {s} : pc'[t] = pc[t] /\ job'[t] = job[t]
      BY <1>2 DEF Abort, TypeOK, ControlOK
    <2>2. QED
      BY <1>0, <2>1, NumbersFrame DEF At, Numbering
  <1>3. CASE UNCHANGED vars \/ \E q \in Requests : RefundSettles(q)
    <2>1. UNCHANGED <<attempts, pc, job>>
      BY <1>3 DEF vars, RefundSettles
    <2>2. QED
      BY <1>0, <2>1, NumbersFrame DEF At
  <1>4. QED
    BY <1>1, <1>2, <1>3, NumbersStep DEF Next

LEMMA NumbersInvInit ==
  ASSUME InitRequests
  PROVE  NumbersInv
  <1> SUFFICES ASSUME NEW r \in Requests
               PROVE  NumbersKept(r)
    BY DEF NumbersInv
  <1>1. attempts[r] = <<>> /\ At(r, Numbering) = {}
    BY DEF InitRequests, At, Numbering
  <1>2. QED
    BY <1>1 DEF NumbersKept

\* Handlers of the other half leave the numbers alone.
LEMMA NumbersSame ==
  ASSUME NumbersInv, UNCHANGED <<attempts, pc, job>>
  PROVE  NumbersInv'
  BY DEF NumbersInv, NumbersKept, WithNumber, Numbered, At

LEMMA NumbersMean ==
  ASSUME TypeOK, NumbersInv
  PROVE  DuplicateNumbersAreBounded
  <1> SUFFICES ASSUME NEW r \in Requests
               PROVE  /\ \A i \in 1 .. Len(attempts[r]) : attempts[r][i].number \in 1 .. i
                      /\ \A n \in 1 .. Len(attempts[r]) :
                           Cardinality(WithNumber(r, n)) <= Cardinality(Sessions)
    BY DEF DuplicateNumbersAreBounded
  <1>1. NumbersKept(r)
    BY DEF NumbersInv
  <1>2. QED
    BY <1>1, NumberTypes DEF NumbersKept

\* Two attempts may share a number, but none is shared by more attempts than there are
\* sessions, and none runs ahead of its place in the history, however often handlers
\* overlap, stop and retry.
THEOREM NumbersTheorem == Spec => []DuplicateNumbersAreBounded
  <1>1. Init => NumbersInv
    BY NumbersInvInit DEF Init
  <1>2. TypeOK /\ NumbersInv /\ [Next]_vars => NumbersInv'
    BY NumbersInvStep
  <1>3. TypeOK /\ NumbersInv => DuplicateNumbersAreBounded
    BY NumbersMean
  <1>4. QED
    BY <1>1, <1>2, <1>3, TypeCorrect, PTL DEF Spec
=============================================================================
