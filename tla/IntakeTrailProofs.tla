--------------------------- MODULE IntakeTrailProofs ---------------------------
(***************************************************************************)
(* What the tables of the intake owe each other, proved for every number   *)
(* of sessions, cases, briefs, evaluations, payments and stops: each row   *)
(* has its audit event and each PaymentIntent its row, but for handlers    *)
(* between the two statements and those that stopped there.                *)
(***************************************************************************)
EXTENDS IntakeProofs, SessionSets

\* Where a row is stored, the steps from there to its event, and the last of them.
Storing(event) == CASE event = "brief" -> "store_brief"
                    [] event = "policy" -> "store_policy"
                    [] event = "approval" -> "store_approval"
                    [] event = "payment" -> "store_payment"
                    [] event = "request" -> "store_request"
Auditing(event) == CASE event = "brief" -> {"audit_brief"}
                     [] event = "policy" -> {"policy_case", "audit_policy"}
                     [] event = "approval" -> {"approval_case", "audit_approval"}
                     [] event = "payment" -> {"audit_payment"}
                     [] event = "request" -> {"request_case", "audit_request"}
Recording(event) == CASE event = "brief" -> "audit_brief"
                      [] event = "policy" -> "audit_policy"
                      [] event = "approval" -> "audit_approval"
                      [] event = "payment" -> "audit_payment"
                      [] event = "request" -> "audit_request"
RowCount(c, event) == CASE event = "brief" -> Len(briefs[c])
                        [] event = "policy" -> Len(evaluations[c])
                        [] event = "approval" -> Len(approvals[c])
                        [] event = "payment" -> Len(payments[c])
                        [] event = "request" -> Len(requests[c])

Between(c, event) == {s \in Sessions : pc[s] \in Auditing(event) /\ job[s].case = c}

\* The rows are the events recorded and those on the way, and the ones lost with a
\* handler: an event on the way has its row already.
TrailKept(c, event) ==
    /\ audit[c][event] + Cardinality(Between(c, event)) <= RowCount(c, event)
    /\ RowCount(c, event) <= audit[c][event] + Cardinality(Between(c, event)) + aborts

TrailInv == \A c \in Cases : \A event \in Events : TrailKept(c, event)

LEMMA TrailTypes ==
  ASSUME IntakeTypeOK, NEW c \in Cases, NEW event \in Events
  PROVE  /\ audit[c][event] \in Nat /\ RowCount(c, event) \in Nat /\ aborts \in Nat
         /\ IsFiniteSet(Between(c, event))
  <1>1. audit[c][event] \in Nat /\ aborts \in Nat
    BY DEF IntakeTypeOK, IntakeTablesOK
  <1>2. RowCount(c, event) \in Nat
    BY DEF IntakeTypeOK, IntakeTablesOK, Events, RowCount
  <1>3. Between(c, event) \subseteq Sessions
    BY DEF Between
  <1>4. IsFiniteSet(Between(c, event))
    BY <1>3, IntakeSessionsAssumption, FS_Subset
  <1>5. QED
    BY <1>1, <1>2, <1>4

\* A statement adds a row, or records the event of one; only the INSERT of a request
\* may fail.
TrailMoves(s, c, event) ==
    /\ pc[s] = Storing(event) =>
         /\ audit'[c][event] = audit[c][event]
         /\ \/ pc'[s] \in Auditing(event) /\ RowCount(c, event)' = RowCount(c, event) + 1
            \/ pc'[s] = "idle" /\ RowCount(c, event)' = RowCount(c, event)
    /\ pc[s] = Recording(event) =>
         /\ pc'[s] = "idle" /\ RowCount(c, event)' = RowCount(c, event)
         /\ audit'[c][event] = audit[c][event] + 1
    /\ pc[s] \notin {Storing(event), Recording(event)} =>
         /\ pc'[s] \in Auditing(event) <=> pc[s] \in Auditing(event)
         /\ RowCount(c, event)' = RowCount(c, event)
         /\ audit'[c][event] = audit[c][event]

\* What a step leaves alone: other cases, the stops, and the case of its handler.
LEMMA TrailFrame ==
  ASSUME IntakeTypeOK, NEW s \in Sessions, Step(s), NEW c, c = job[s].case
  PROVE  /\ c \in Cases /\ pc[s] # "idle" /\ aborts' = aborts
         /\ pc'[s] # "idle" => job'[s].case = c
         /\ \A d \in Cases \ {c} :
              /\ audit'[d] = audit[d] /\ intents'[d] = intents[d] /\ payments'[d] = payments[d]
              /\ \A event : RowCount(d, event)' = RowCount(d, event)
  <1> USE DEF IntakeTypeOK, IntakeTablesOK, IntakeControlOK, IntakeJobs, HandlerOK, Proceed,
              Move, Tables, UpdateCaseStatus, RecordEvent
  <1>0. pc[s] # "idle" /\ c \in Cases
    BY DEF Step, CallBrief, StoreBrief, AuditBrief, StorePolicy, PolicyCase, AuditPolicy,
           StoreApproval, ApprovalCase, AuditApproval, CallPayment, StorePayment,
           AuditPayment, ReadApproval, CheckRequest, StoreRequest, RequestCase, AuditRequest
  <1>1. aborts' = aborts /\ (pc'[s] # "idle" => job'[s].case = c)
    <2>1. CASE CallBrief(s) \/ StoreBrief(s) \/ AuditBrief(s) \/ StorePolicy(s)
      BY <2>1 DEF CallBrief, StoreBrief, AuditBrief, StorePolicy
    <2>2. CASE PolicyCase(s) \/ AuditPolicy(s) \/ StoreApproval(s) \/ ApprovalCase(s)
      BY <2>2 DEF PolicyCase, AuditPolicy, StoreApproval, ApprovalCase
    <2>3. CASE AuditApproval(s) \/ CallPayment(s) \/ StorePayment(s) \/ AuditPayment(s)
      BY <2>3 DEF AuditApproval, CallPayment, StorePayment, AuditPayment
    <2>4. CASE ReadApproval(s) \/ CheckRequest(s) \/ StoreRequest(s)
      BY <2>4 DEF ReadApproval, CheckRequest, StoreRequest
    <2>5. CASE RequestCase(s) \/ AuditRequest(s)
      BY <2>5 DEF RequestCase, AuditRequest
    <2>6. QED
      BY <2>1, <2>2, <2>3, <2>4, <2>5 DEF Step
  <1>2. ASSUME NEW d \in Cases, d # c
        PROVE  /\ audit'[d] = audit[d] /\ intents'[d] = intents[d]
               /\ briefs'[d] = briefs[d] /\ evaluations'[d] = evaluations[d]
               /\ approvals'[d] = approvals[d] /\ payments'[d] = payments[d]
               /\ requests'[d] = requests[d]
    <2>1. CASE CallBrief(s) \/ StoreBrief(s) \/ AuditBrief(s) \/ StorePolicy(s)
      BY <1>2, <2>1 DEF CallBrief, StoreBrief, AuditBrief, StorePolicy
    <2>2. CASE PolicyCase(s) \/ AuditPolicy(s) \/ StoreApproval(s) \/ ApprovalCase(s)
      BY <1>2, <2>2 DEF PolicyCase, AuditPolicy, StoreApproval, ApprovalCase
    <2>3. CASE AuditApproval(s) \/ CallPayment(s) \/ StorePayment(s) \/ AuditPayment(s)
      BY <1>2, <2>3 DEF AuditApproval, CallPayment, StorePayment, PaymentStored, AuditPayment
    <2>4. CASE ReadApproval(s) \/ CheckRequest(s) \/ StoreRequest(s)
      BY <1>2, <2>4 DEF ReadApproval, CheckRequest, StoreRequest, RequestInserted
    <2>5. CASE RequestCase(s) \/ AuditRequest(s)
      BY <1>2, <2>5 DEF RequestCase, AuditRequest
    <2>6. QED
      BY <2>1, <2>2, <2>3, <2>4, <2>5 DEF Step
  <1>3. ASSUME NEW d \in Cases, d # c, NEW event
        PROVE  RowCount(d, event)' = RowCount(d, event)
    BY <1>2, <1>3 DEF RowCount
  <1>4. QED
    BY <1>0, <1>1, <1>2, <1>3

LEMMA StoreTrail ==
  ASSUME IntakeTypeOK, NEW s \in Sessions, NEW c \in Cases, c = job[s].case,
         NEW event \in Events,
         \/ StoreBrief(s) \/ StorePolicy(s) \/ StoreApproval(s) \/ StorePayment(s)
         \/ StoreRequest(s)
  PROVE  TrailMoves(s, c, event)
  <1> USE DEF IntakeTypeOK, IntakeTablesOK, IntakeControlOK, Proceed, Move, Events, TrailMoves,
              Storing, Auditing, Recording, RowCount
  <1>1. ASSUME NEW rows \in Seq(BriefRows) \cup Seq(Outcomes) \cup Seq(ApprovalRows)
                              \cup Seq(PaymentRows) \cup Seq(RequestRows), NEW row
        PROVE  Len(Append(rows, row)) = Len(rows) + 1
    OBVIOUS
  <1>2. CASE StoreBrief(s)
    <2>1. Len(briefs'[c]) = Len(briefs[c]) + 1
      BY <1>1, <1>2 DEF StoreBrief
    <2>2. QED
      BY <1>2, <2>1 DEF StoreBrief
  <1>3. CASE StorePolicy(s)
    <2>1. Len(evaluations'[c]) = Len(evaluations[c]) + 1
      BY <1>1, <1>3 DEF StorePolicy
    <2>2. QED
      BY <1>3, <2>1 DEF StorePolicy
  <1>4. CASE StoreApproval(s)
    <2>1. \E row : approvals' = [approvals EXCEPT ![c] = Append(@, row)]
      BY <1>4 DEF StoreApproval
    <2>2. Len(approvals'[c]) = Len(approvals[c]) + 1
      BY <1>1, <2>1
    <2>3. QED
      BY <1>4, <2>2 DEF StoreApproval
  <1>5. CASE StorePayment(s)
    <2>1. \E row : payments' = [payments EXCEPT ![c] = Append(@, row)]
      BY <1>5 DEF StorePayment, PaymentStored
    <2>2. Len(payments'[c]) = Len(payments[c]) + 1
      BY <1>1, <2>1
    <2>3. QED
      BY <1>5, <2>2 DEF StorePayment
  <1>6. CASE StoreRequest(s)
    <2>1. CASE KeyTaken(job[s].case, job[s].approval)
      BY <1>6, <2>1 DEF StoreRequest
    <2>2. CASE ~KeyTaken(job[s].case, job[s].approval)
      <3>1. \E row : requests' = [requests EXCEPT ![c] = Append(@, row)]
        BY <1>6, <2>2 DEF StoreRequest, RequestInserted
      <3>2. Len(requests'[c]) = Len(requests[c]) + 1
        BY <1>1, <3>1
      <3>3. QED
        BY <1>6, <2>2, <3>2 DEF StoreRequest
    <2>3. QED
      BY <2>1, <2>2
  <1>7. QED
    BY <1>2, <1>3, <1>4, <1>5, <1>6

LEMMA RecordTrail ==
  ASSUME IntakeTypeOK, NEW s \in Sessions, NEW c \in Cases, c = job[s].case,
         NEW event \in Events,
         \/ AuditBrief(s) \/ AuditPolicy(s) \/ AuditApproval(s) \/ AuditPayment(s)
         \/ AuditRequest(s)
  PROVE  TrailMoves(s, c, event)
  <1>1. ASSUME NEW kind \in Events, RecordEvent(c, kind)
        PROVE  /\ RowCount(c, event)' = RowCount(c, event)
               /\ audit'[c][event] =
                    IF event = kind THEN audit[c][event] + 1 ELSE audit[c][event]
    BY <1>1 DEF RecordEvent, RowCount, IntakeTypeOK, IntakeTablesOK
  <1> USE DEF IntakeTypeOK, IntakeControlOK, Proceed, Move, Events, TrailMoves, Storing,
              Auditing, Recording
  <1>2. CASE AuditBrief(s)
    BY <1>1, <1>2 DEF AuditBrief
  <1>3. CASE AuditPolicy(s)
    BY <1>1, <1>3 DEF AuditPolicy
  <1>4. CASE AuditApproval(s)
    BY <1>1, <1>4 DEF AuditApproval
  <1>5. CASE AuditPayment(s)
    BY <1>1, <1>5 DEF AuditPayment
  <1>6. CASE AuditRequest(s)
    BY <1>1, <1>6 DEF AuditRequest
  <1>7. QED
    BY <1>2, <1>3, <1>4, <1>5, <1>6

LEMMA StepTrail ==
  ASSUME IntakeTypeOK, NEW s \in Sessions, Step(s), NEW c \in Cases, c = job[s].case,
         NEW event \in Events
  PROVE  TrailMoves(s, c, event)
  <1>1. CASE CallBrief(s) \/ CallPayment(s) \/ ReadApproval(s) \/ CheckRequest(s)
    <2>1. /\ RowCount(c, event)' = RowCount(c, event) /\ audit' = audit
      BY <1>1 DEF CallBrief, CallPayment, ReadApproval, CheckRequest, Tables, RowCount
    <2>2. /\ pc[s] \in {"call_brief", "call_payment", "read_approval", "check_request"}
          /\ pc'[s] \in {"store_brief", "store_payment", "check_request", "store_request",
                         "idle"}
      BY <1>1 DEF CallBrief, CallPayment, ReadApproval, CheckRequest, Move, Proceed,
                  IntakeTypeOK, IntakeControlOK
    <2>3. QED
      BY <2>1, <2>2 DEF TrailMoves, Storing, Auditing, Recording, Events
  <1>2. CASE PolicyCase(s) \/ ApprovalCase(s) \/ RequestCase(s)
    <2>1. /\ RowCount(c, event)' = RowCount(c, event) /\ audit' = audit
      BY <1>2 DEF PolicyCase, ApprovalCase, RequestCase, UpdateCaseStatus, RowCount
    <2>2. \/ pc[s] = "policy_case" /\ pc'[s] = "audit_policy"
          \/ pc[s] = "approval_case" /\ pc'[s] = "audit_approval"
          \/ pc[s] = "request_case" /\ pc'[s] = "audit_request"
      BY <1>2 DEF PolicyCase, ApprovalCase, RequestCase, Move, Proceed, IntakeTypeOK,
                  IntakeControlOK
    <2>3. QED
      BY <2>1, <2>2 DEF TrailMoves, Storing, Auditing, Recording, Events
  <1>3. QED
    BY <1>1, <1>2, StoreTrail, RecordTrail DEF Step


LEMMA TrailStep ==
  ASSUME IntakeTypeOK, NEW s \in Sessions, Step(s), NEW c \in Cases, NEW event \in Events,
         TrailKept(c, event)
  PROVE  TrailKept(c, event)'
  <1> DEFINE before == Between(c, event)
             after == {t \in Sessions : pc'[t] \in Auditing(event) /\ job'[t].case = c}
  <1>0. /\ Between(c, event)' = after
        /\ "idle" \notin Auditing(event)
        /\ Storing(event) \notin Auditing(event) /\ Recording(event) \in Auditing(event)
        /\ Storing(event) # Recording(event)
    BY DEF Between, Auditing, Storing, Recording, Events
  <1>1. /\ \A t \in Sessions \ {s} : pc'[t] = pc[t] /\ job'[t] = job[t]
        /\ pc'[s] # "idle" => job'[s].case = job[s].case
        /\ aborts' = aborts
    BY OtherSessions, TrailFrame
  <1>2. after \ {s} = before \ {s} /\ IsFiniteSet(before)
    BY <1>1, TrailTypes DEF Between
  <1>3. /\ s \in before <=> pc[s] \in Auditing(event) /\ job[s].case = c
        /\ s \in after <=> pc'[s] \in Auditing(event) /\ job[s].case = c
    BY <1>0, <1>1 DEF Between
  <1>4. /\ Cardinality(after) \in Nat /\ Cardinality(before) \in Nat
        /\ s \in after /\ s \notin before => Cardinality(after) = Cardinality(before) + 1
        /\ s \notin after /\ s \in before => Cardinality(after) = Cardinality(before) - 1
        /\ (s \in after <=> s \in before) => Cardinality(after) = Cardinality(before)
    BY <1>2, OneSessionMoves
  <1>5. /\ audit[c][event] \in Nat /\ RowCount(c, event) \in Nat /\ aborts \in Nat
        /\ audit[c][event] + Cardinality(before) <= RowCount(c, event)
        /\ RowCount(c, event) <= audit[c][event] + Cardinality(before) + aborts
    BY TrailTypes DEF TrailKept
  <1>6. SUFFICES /\ audit'[c][event] + Cardinality(after) <= RowCount(c, event)'
                 /\ RowCount(c, event)' <= audit'[c][event] + Cardinality(after) + aborts
    BY <1>0, <1>1 DEF TrailKept
  <1>7. ASSUME audit'[c][event] = audit[c][event], RowCount(c, event)' = RowCount(c, event),
               s \in after <=> s \in before
        PROVE  /\ audit'[c][event] + Cardinality(after) <= RowCount(c, event)'
               /\ RowCount(c, event)' <= audit'[c][event] + Cardinality(after) + aborts
    BY <1>4, <1>5, <1>7
  <1>8. CASE job[s].case # c
    <2>1. audit'[c][event] = audit[c][event] /\ RowCount(c, event)' = RowCount(c, event)
      BY <1>8, TrailFrame
    <2>2. QED
      BY <1>3, <1>7, <1>8, <2>1
  <1>9. CASE job[s].case = c
    <2>0. TrailMoves(s, c, event)
      BY <1>9, StepTrail
    <2>1. CASE pc[s] = Storing(event)
      <3>0. s \notin before /\ audit'[c][event] = audit[c][event]
        BY <1>0, <1>3, <2>0, <2>1 DEF TrailMoves
      <3>1. CASE pc'[s] \in Auditing(event) /\ RowCount(c, event)' = RowCount(c, event) + 1
        <4>1. Cardinality(after) = Cardinality(before) + 1
          BY <1>3, <1>4, <1>9, <3>0, <3>1
        <4>2. QED
          BY <1>4, <1>5, <3>0, <3>1, <4>1
      <3>2. CASE pc'[s] = "idle" /\ RowCount(c, event)' = RowCount(c, event)
        BY <1>0, <1>3, <1>7, <3>0, <3>2
      <3>3. QED
        BY <2>0, <2>1, <3>1, <3>2 DEF TrailMoves
    <2>2. CASE pc[s] = Recording(event)
      <3>1. /\ RowCount(c, event)' = RowCount(c, event) /\ pc'[s] = "idle"
            /\ audit'[c][event] = audit[c][event] + 1
        BY <2>0, <2>2 DEF TrailMoves
      <3>2. s \in before /\ s \notin after
        BY <1>0, <1>3, <1>9, <2>2, <3>1
      <3>3. Cardinality(after) = Cardinality(before) - 1
        BY <1>4, <3>2
      <3>4. QED
        BY <1>4, <1>5, <3>1, <3>3
    <2>3. CASE pc[s] \notin {Storing(event), Recording(event)}
      <3>1. /\ RowCount(c, event)' = RowCount(c, event)
            /\ audit'[c][event] = audit[c][event]
            /\ pc'[s] \in Auditing(event) <=> pc[s] \in Auditing(event)
        BY <2>0, <2>3 DEF TrailMoves
      <3>2. QED
        BY <1>3, <1>7, <3>1
    <2>4. QED
      BY <2>1, <2>2, <2>3
  <1>10. QED
    BY <1>8, <1>9

LEMMA TrailAbort ==
  ASSUME IntakeTypeOK, NEW s \in Sessions, Abort(s), NEW c \in Cases, NEW event \in Events,
         TrailKept(c, event)
  PROVE  TrailKept(c, event)'
  <1> DEFINE before == Between(c, event)
             after == {t \in Sessions : pc'[t] \in Auditing(event) /\ job'[t].case = c}
  <1>0. /\ Between(c, event)' = after
        /\ "idle" \notin Auditing(event)
    BY DEF Between, Auditing, Events
  <1>1. /\ pc'[s] = "idle" /\ aborts' = aborts + 1
        /\ \A t \in Sessions \ {s} : pc'[t] = pc[t] /\ job'[t] = job[t]
        /\ audit' = audit /\ RowCount(c, event)' = RowCount(c, event)
    BY DEF Abort, IntakeTypeOK, IntakeControlOK, RowCount
  <1>2. after \ {s} = before \ {s} /\ IsFiniteSet(before) /\ s \notin after
    BY <1>0, <1>1, TrailTypes DEF Between
  <1>3. /\ Cardinality(after) \in Nat /\ Cardinality(before) \in Nat
        /\ \/ Cardinality(after) = Cardinality(before) - 1
           \/ Cardinality(after) = Cardinality(before)
    BY <1>2, OneSessionMoves
  <1>4. /\ audit[c][event] \in Nat /\ RowCount(c, event) \in Nat /\ aborts \in Nat
        /\ audit[c][event] + Cardinality(before) <= RowCount(c, event)
        /\ RowCount(c, event) <= audit[c][event] + Cardinality(before) + aborts
    BY TrailTypes DEF TrailKept
  <1>5. /\ audit'[c][event] + Cardinality(after) <= RowCount(c, event)'
        /\ RowCount(c, event)' <= audit'[c][event] + Cardinality(after) + aborts'
    BY <1>1, <1>3, <1>4
  <1>6. QED
    BY <1>0, <1>5 DEF TrailKept

LEMMA TrailSame ==
  ASSUME NEW c \in Cases, NEW event \in Events, TrailKept(c, event), UNCHANGED Tables,
         Between(c, event)' = Between(c, event)
  PROVE  TrailKept(c, event)'
  <1>1. RowCount(c, event)' = RowCount(c, event)
    BY DEF RowCount, Tables
  <1>2. QED
    BY <1>1 DEF TrailKept, Tables

\* Where a handler of the intake begins.
LEMMA BeginMoves ==
  ASSUME IntakeTypeOK, NEW s \in Sessions, BeginHandler(s)
  PROVE  /\ UNCHANGED Tables /\ pc[s] = "idle"
         /\ pc'[s] \in {"call_brief", "store_policy", "store_approval", "call_payment",
                        "read_approval"}
  <1> USE DEF Begin, IntakeTypeOK, IntakeControlOK
  <1>1. PICK c \in Cases :
          \/ BeginBrief(s, c) \/ BeginEvaluate(s, c) \/ BeginPrepare(s, c) \/ BeginCreate(s, c)
          \/ \E form : BeginApprove(s, c, form)
    BY DEF BeginHandler
  <1>2. CASE BeginBrief(s, c) \/ BeginEvaluate(s, c) \/ BeginPrepare(s, c) \/ BeginCreate(s, c)
    BY <1>2 DEF BeginBrief, BeginEvaluate, BeginPrepare, BeginCreate
  <1>3. CASE \E form : BeginApprove(s, c, form)
    BY <1>3 DEF BeginApprove
  <1>4. QED
    BY <1>1, <1>2, <1>3

LEMMA TrailInvStep ==
  ASSUME IntakeTypeOK, TrailInv, [Next]_vars
  PROVE  TrailInv'
  <1> SUFFICES ASSUME NEW c \in Cases, NEW event \in Events
               PROVE  TrailKept(c, event)'
    BY DEF TrailInv
  <1>0. TrailKept(c, event)
    BY DEF TrailInv
  <1>1. ASSUME NEW s \in Sessions, BeginHandler(s)
        PROVE  TrailKept(c, event)'
    <2>1. UNCHANGED Tables /\ pc[s] \notin Auditing(event) /\ pc'[s] \notin Auditing(event)
      BY <1>1, BeginMoves DEF Auditing, Events
    <2>2. \A t \in Sessions \ {s} : pc'[t] = pc[t] /\ job'[t] = job[t]
      BY <1>1, OtherSessions
    <2>3. Between(c, event)' = Between(c, event)
      BY <2>1, <2>2 DEF Between, Auditing
    <2>4. QED
      BY <1>0, <2>1, <2>3, TrailSame
  <1>2. CASE UNCHANGED vars
    <2>1. UNCHANGED Tables /\ Between(c, event)' = Between(c, event)
      BY <1>2 DEF vars, Tables, Between, Auditing
    <2>2. QED
      BY <1>0, <2>1, TrailSame
  <1>3. QED
    BY <1>0, <1>1, <1>2, TrailStep, TrailAbort DEF Next

LEMMA TrailInvInit == Init => TrailInv
  <1> SUFFICES ASSUME Init, NEW c \in Cases, NEW event \in Events
               PROVE  TrailKept(c, event)
    BY DEF TrailInv
  <1>1. audit[c][event] = 0 /\ aborts = 0 /\ RowCount(c, event) = 0
    BY DEF Init, RowCount, Events
  <1>2. Between(c, event) = {}
    BY DEF Init, Between, Auditing, Events
  <1>3. QED
    BY <1>1, <1>2, FS_EmptySet DEF TrailKept

LEMMA TrailMeans ==
  ASSUME IntakeTypeOK, TrailInv
  PROVE  IntakeTrail
  <1> SUFFICES ASSUME NEW c \in Cases
               PROVE  \A event \in Events :
                        Audited(c, RowCount(c, event), event, Auditing(event))
    BY DEF IntakeTrail, Events, RowCount, Auditing
  <1> TAKE event \in Events
  <1>1. /\ audit[c][event] \in Nat /\ RowCount(c, event) \in Nat /\ aborts \in Nat
        /\ Cardinality(Between(c, event)) \in Nat
    BY TrailTypes, FS_CardinalityType
  <1>2. TrailKept(c, event)
    BY DEF TrailInv
  <1>3. /\ audit[c][event] <= RowCount(c, event)
        /\ RowCount(c, event) <= audit[c][event] + aborts + Cardinality(Between(c, event))
    BY <1>1, <1>2 DEF TrailKept
  <1>4. QED
    BY <1>3 DEF Audited, Between

\* Every brief, evaluation, decision, payment and request has its audit event, but for
\* those of handlers on the way to it and of handlers that stopped there; the loser of
\* a race for an approval leaves none.
THEOREM IntakeTrailTheorem == Spec => []IntakeTrail
  <1>1. IntakeTypeOK /\ TrailInv => IntakeTrail
    BY TrailMeans
  <1>2. IntakeTypeOK /\ TrailInv /\ [Next]_vars => TrailInv'
    BY TrailInvStep
  <1>3. QED
    BY <1>1, <1>2, TrailInvInit, IntakeTypeCorrect, PTL DEF Spec

-----------------------------------------------------------------------------
(* The PaymentIntents at Stripe                                              *)

\* The rows, and the handlers with a row to store, that may stand for an intent.
LivePayments(c) == {i \in 1 .. Len(payments[c]) : payments[c][i].source # "mock"}
Paying(c) == {s \in Sessions : /\ pc[s] = "store_payment" /\ job[s].case = c
                               /\ job[s].source # "mock"}

IntentsInv ==
    \A c \in Cases :
        intents[c] <= Cardinality(LivePayments(c)) + Cardinality(Paying(c)) + aborts

LEMMA IntentTypes ==
  ASSUME IntakeTypeOK, NEW c \in Cases
  PROVE  /\ intents[c] \in Nat /\ aborts \in Nat /\ Len(payments[c]) \in Nat
         /\ IsFiniteSet(LivePayments(c)) /\ Cardinality(LivePayments(c)) \in Nat
         /\ IsFiniteSet(Paying(c))
  <1>1. intents[c] \in Nat /\ aborts \in Nat /\ Len(payments[c]) \in Nat
    BY DEF IntakeTypeOK, IntakeTablesOK
  <1>2. IsFiniteSet(1 .. Len(payments[c])) /\ LivePayments(c) \subseteq 1 .. Len(payments[c])
    <2>1. 1 \in Int /\ Len(payments[c]) \in Int
      BY <1>1
    <2>2. QED
      BY <2>1, FS_Interval DEF LivePayments
  <1>3. IsFiniteSet(LivePayments(c)) /\ Cardinality(LivePayments(c)) \in Nat
    BY <1>2, FS_Subset, FS_CardinalityType
  <1>4. Paying(c) \subseteq Sessions
    BY DEF Paying
  <1>5. QED
    BY <1>1, <1>3, <1>4, IntakeSessionsAssumption, FS_Subset

\* Storing a payment that is not a forced mock makes one more of them.
LEMMA PaymentsStored ==
  ASSUME IntakeTypeOK, NEW c \in Cases, NEW row, payments'[c] = Append(payments[c], row)
  PROVE  /\ row.source # "mock" =>
              Cardinality(LivePayments(c)') = Cardinality(LivePayments(c)) + 1
         /\ row.source = "mock" => LivePayments(c)' = LivePayments(c)
  <1> DEFINE last == Len(payments[c]) + 1
             after == {i \in 1 .. Len(payments'[c]) : payments'[c][i].source # "mock"}
  <1>0. LivePayments(c)' = after
    BY DEF LivePayments
  <1>1. payments[c] \in Seq(PaymentRows) /\ Len(payments[c]) \in Nat
    BY DEF IntakeTypeOK, IntakeTablesOK
  <1>2. /\ Len(payments'[c]) = last /\ payments'[c][last] = row
        /\ \A i \in 1 .. Len(payments[c]) : payments'[c][i] = payments[c][i]
    BY <1>1
  <1>3. \A i \in 1 .. last : i = last \/ i \in 1 .. Len(payments[c])
    BY <1>1
  <1>4. /\ row.source # "mock" => after = LivePayments(c) \cup {last}
        /\ row.source = "mock" => after = LivePayments(c)
    BY <1>1, <1>2, <1>3 DEF LivePayments
  <1>5. last \notin LivePayments(c)
    BY <1>1 DEF LivePayments
  <1>6. Cardinality(LivePayments(c) \cup {last}) = Cardinality(LivePayments(c)) + 1
    BY <1>5, IntentTypes, FS_AddElement
  <1>7. QED
    BY <1>0, <1>4, <1>6

LEMMA IntentMoves ==
  ASSUME IntakeTypeOK, NEW s \in Sessions, Step(s), NEW c \in Cases, c = job[s].case
  PROVE  /\ pc[s] = "call_payment" =>
              /\ payments'[c] = payments[c]
              /\ \/ intents'[c] = intents[c]
                 \/ /\ intents'[c] = intents[c] + 1
                    /\ pc'[s] = "store_payment" /\ job'[s].source # "mock"
         /\ pc[s] # "call_payment" => intents'[c] = intents[c] /\ pc'[s] # "store_payment"
         /\ pc[s] = "store_payment" =>
              \E row : payments'[c] = Append(payments[c], row) /\ row.source = job[s].source
         /\ pc[s] # "store_payment" => payments'[c] = payments[c]
  <1> USE DEF IntakeTypeOK, IntakeTablesOK, IntakeControlOK, IntakeJobs, Proceed, Move, Tables,
              UpdateCaseStatus, RecordEvent
  <1>1. CASE CallPayment(s)
    <2>1. pc[s] = "call_payment" /\ pc'[s] = "store_payment" /\ payments' = payments
      BY <1>1 DEF CallPayment
    <2>2. CASE intents' = intents
      BY <2>1, <2>2
    <2>3. CASE intents' # intents
      <3>1. PICK source \in {"stripe", "fallback"} :
              /\ job' = [job EXCEPT ![s].source = source]
              /\ intents' = [intents EXCEPT ![c] = @ + 1]
        BY <1>1, <2>3 DEF CallPayment
      <3>2. job'[s].source = source /\ intents'[c] = intents[c] + 1
        BY <3>1
      <3>3. QED
        BY <2>1, <3>2
    <2>4. QED
      BY <2>2, <2>3
  <1>2. CASE StorePayment(s)
    <2>0. PICK tied :
            payments' = [payments EXCEPT ![c] =
                           Append(@, [source |-> job[s].source, tied |-> tied])]
      BY <1>2 DEF StorePayment, PaymentStored
    <2> DEFINE row == [source |-> job[s].source, tied |-> tied]
    <2>1. payments' = [payments EXCEPT ![c] = Append(@, row)] /\ row.source = job[s].source
      BY <2>0
    <2>2. payments'[c] = Append(payments[c], row)
      BY <2>1
    <2>3. /\ pc[s] = "store_payment" /\ pc'[s] = "audit_payment" /\ intents' = intents
      BY <1>2 DEF StorePayment
    <2>4. QED
      BY <2>1, <2>2, <2>3
  <1>3. CASE CallBrief(s) \/ StoreBrief(s) \/ AuditBrief(s) \/ StorePolicy(s) \/ PolicyCase(s)
    BY <1>3 DEF CallBrief, StoreBrief, AuditBrief, StorePolicy, PolicyCase
  <1>4. CASE AuditPolicy(s) \/ StoreApproval(s) \/ ApprovalCase(s) \/ AuditApproval(s)
             \/ AuditPayment(s)
    BY <1>4 DEF AuditPolicy, StoreApproval, ApprovalCase, AuditApproval, AuditPayment
  <1>5. CASE ReadApproval(s) \/ CheckRequest(s) \/ StoreRequest(s)
    BY <1>5 DEF ReadApproval, CheckRequest, StoreRequest
  <1>6. CASE RequestCase(s) \/ AuditRequest(s)
    BY <1>6 DEF RequestCase, AuditRequest
  <1>7. QED
    BY <1>1, <1>2, <1>3, <1>4, <1>5, <1>6 DEF Step

LEMMA IntentStep ==
  ASSUME IntakeTypeOK, IntentsInv, NEW s \in Sessions, Step(s), NEW c \in Cases
  PROVE  intents'[c] <=
           Cardinality(LivePayments(c)') + Cardinality(Paying(c)') + aborts'
  <1> DEFINE before == Paying(c)
             after == {t \in Sessions : /\ pc'[t] = "store_payment" /\ job'[t].case = c
                                        /\ job'[t].source # "mock"}
  <1>0. Paying(c)' = after
    BY DEF Paying
  <1>1. /\ \A t \in Sessions \ {s} : pc'[t] = pc[t] /\ job'[t] = job[t]
        /\ pc'[s] # "idle" => job'[s].case = job[s].case
        /\ aborts' = aborts
    BY OtherSessions, TrailFrame
  <1>2. after \ {s} = before \ {s} /\ IsFiniteSet(before)
    BY <1>1, IntentTypes DEF Paying
  <1>3. /\ Cardinality(after) \in Nat /\ Cardinality(before) \in Nat
        /\ s \in after /\ s \notin before => Cardinality(after) = Cardinality(before) + 1
        /\ s \notin after /\ s \in before => Cardinality(after) = Cardinality(before) - 1
        /\ (s \in after <=> s \in before) => Cardinality(after) = Cardinality(before)
    BY <1>2, OneSessionMoves
  <1>4. /\ intents[c] \in Nat /\ aborts \in Nat /\ Cardinality(LivePayments(c)) \in Nat
        /\ intents[c] <= Cardinality(LivePayments(c)) + Cardinality(before) + aborts
    BY IntentTypes DEF IntentsInv
  <1>5. ASSUME payments'[c] = payments[c]
        PROVE  LivePayments(c)' = LivePayments(c)
    BY <1>5 DEF LivePayments
  <1>6. CASE job[s].case # c
    <2>1. intents'[c] = intents[c] /\ payments'[c] = payments[c]
      BY <1>6, TrailFrame
    <2>2. s \notin before /\ s \notin after
      BY <1>1, <1>6 DEF Paying
    <2>3. QED
      BY <1>0, <1>1, <1>3, <1>4, <1>5, <2>1, <2>2
  <1>7. CASE job[s].case = c /\ pc[s] = "call_payment"
    <2>1. s \notin before /\ payments'[c] = payments[c]
      BY <1>7, IntentMoves DEF Paying
    <2>2. \/ intents'[c] = intents[c]
          \/ intents'[c] = intents[c] + 1 /\ s \in after
      BY <1>1, <1>7, IntentMoves
    <2>3. QED
      BY <1>0, <1>1, <1>3, <1>4, <1>5, <2>1, <2>2
  <1>8. CASE job[s].case = c /\ pc[s] = "store_payment"
    <2>1. PICK row : payments'[c] = Append(payments[c], row) /\ row.source = job[s].source
      BY <1>8, IntentMoves
    <2>2. /\ row.source # "mock" =>
               Cardinality(LivePayments(c)') = Cardinality(LivePayments(c)) + 1
          /\ row.source = "mock" => LivePayments(c)' = LivePayments(c)
      BY <2>1, PaymentsStored
    <2>3. /\ s \in before <=> row.source # "mock"
          /\ s \notin after /\ intents'[c] = intents[c]
      BY <1>8, <2>1, IntentMoves DEF Paying
    <2>4. QED
      BY <1>0, <1>1, <1>3, <1>4, <2>2, <2>3
  <1>9. CASE job[s].case = c /\ pc[s] \notin {"call_payment", "store_payment"}
    <2>1. s \notin before /\ s \notin after
      BY <1>9, IntentMoves DEF Paying
    <2>2. payments'[c] = payments[c] /\ intents'[c] = intents[c]
      BY <1>9, IntentMoves
    <2>3. QED
      BY <1>0, <1>1, <1>3, <1>4, <1>5, <2>1, <2>2
  <1>10. QED
    BY <1>6, <1>7, <1>8, <1>9

LEMMA IntentAbort ==
  ASSUME IntakeTypeOK, IntentsInv, NEW s \in Sessions, Abort(s), NEW c \in Cases
  PROVE  intents'[c] <=
           Cardinality(LivePayments(c)') + Cardinality(Paying(c)') + aborts'
  <1> DEFINE before == Paying(c)
             after == {t \in Sessions : /\ pc'[t] = "store_payment" /\ job'[t].case = c
                                        /\ job'[t].source # "mock"}
  <1>0. Paying(c)' = after
    BY DEF Paying
  <1>1. /\ pc'[s] = "idle" /\ aborts' = aborts + 1
        /\ \A t \in Sessions \ {s} : pc'[t] = pc[t] /\ job'[t] = job[t]
        /\ payments' = payments /\ intents' = intents
    BY DEF Abort, IntakeTypeOK, IntakeControlOK
  <1>2. after \ {s} = before \ {s} /\ IsFiniteSet(before) /\ s \notin after
    BY <1>1, IntentTypes DEF Paying
  <1>3. /\ Cardinality(after) \in Nat /\ Cardinality(before) \in Nat
        /\ \/ Cardinality(after) = Cardinality(before) - 1
           \/ Cardinality(after) = Cardinality(before)
    BY <1>2, OneSessionMoves
  <1>4. /\ intents[c] \in Nat /\ aborts \in Nat /\ Cardinality(LivePayments(c)) \in Nat
        /\ intents[c] <= Cardinality(LivePayments(c)) + Cardinality(before) + aborts
    BY IntentTypes DEF IntentsInv
  <1>5. LivePayments(c)' = LivePayments(c)
    BY <1>1 DEF LivePayments
  <1>6. QED
    BY <1>0, <1>1, <1>3, <1>4, <1>5

LEMMA IntentsInvStep ==
  ASSUME IntakeTypeOK, IntentsInv, [Next]_vars
  PROVE  IntentsInv'
  <1> SUFFICES ASSUME NEW c \in Cases
               PROVE  intents'[c] <=
                        Cardinality(LivePayments(c)') + Cardinality(Paying(c)') + aborts'
    BY DEF IntentsInv
  <1>1. ASSUME Paying(c)' = Paying(c), UNCHANGED Tables
        PROVE  intents'[c] <=
                 Cardinality(LivePayments(c)') + Cardinality(Paying(c)') + aborts'
    <2>1. LivePayments(c)' = LivePayments(c)
      BY <1>1 DEF LivePayments, Tables
    <2>2. QED
      BY <1>1, <2>1 DEF IntentsInv, Tables
  <1>2. ASSUME NEW s \in Sessions, BeginHandler(s)
        PROVE  Paying(c)' = Paying(c) /\ UNCHANGED Tables
    <2>1. /\ UNCHANGED Tables /\ pc[s] # "store_payment" /\ pc'[s] # "store_payment"
      BY <1>2, BeginMoves
    <2>2. \A t \in Sessions \ {s} : pc'[t] = pc[t] /\ job'[t] = job[t]
      BY <1>2, OtherSessions
    <2>3. QED
      BY <2>1, <2>2 DEF Paying
  <1>3. CASE UNCHANGED vars
    <2>1. Paying(c)' = Paying(c) /\ UNCHANGED Tables
      BY <1>3 DEF vars, Tables, Paying
    <2>2. QED
      BY <1>1, <2>1
  <1>4. QED
    BY <1>1, <1>2, <1>3, IntentStep, IntentAbort DEF Next

LEMMA IntentsInvInit == Init => IntentsInv
  <1> SUFFICES ASSUME Init, NEW c \in Cases
               PROVE  intents[c] <=
                        Cardinality(LivePayments(c)) + Cardinality(Paying(c)) + aborts
    BY DEF IntentsInv
  <1>1. intents[c] = 0 /\ aborts = 0 /\ LivePayments(c) = {} /\ Paying(c) = {}
    BY DEF Init, LivePayments, Paying
  <1>2. QED
    BY <1>1, FS_EmptySet

LEMMA IntentsMean == IntentsInv => IntentsAreAccounted
  BY DEF IntentsInv, IntentsAreAccounted, LivePayments, Paying

\* Every PaymentIntent that Stripe may hold is answered for by a stored payment that is
\* not a forced mock, but for calls still to be stored and handlers that stopped there.
THEOREM IntentsTheorem == Spec => []IntentsAreAccounted
  <1>1. IntakeTypeOK /\ IntentsInv /\ [Next]_vars => IntentsInv'
    BY IntentsInvStep
  <1>2. QED
    BY <1>1, IntentsInvInit, IntentsMean, IntakeTypeCorrect, PTL DEF Spec

\* Handlers that stop elsewhere only widen the margin.
LEMMA TrailsFrame ==
  ASSUME IntakeTypeOK, TrailInv, IntentsInv, aborts' \in {aborts, aborts + 1},
         UNCHANGED <<briefs, evaluations, approvals, payments, requests, intents, audit, pc, job>>
  PROVE  TrailInv' /\ IntentsInv'
  <1>1. ASSUME NEW c \in Cases, NEW event \in Events
        PROVE  TrailKept(c, event)'
    <2>1. /\ RowCount(c, event)' = RowCount(c, event) /\ audit'[c][event] = audit[c][event]
          /\ Between(c, event)' = Between(c, event)
      BY DEF RowCount, Between, Auditing, Events
    <2>2. /\ audit[c][event] \in Nat /\ RowCount(c, event) \in Nat /\ aborts \in Nat
          /\ Cardinality(Between(c, event)) \in Nat
      BY TrailTypes, FS_CardinalityType
    <2>3. TrailKept(c, event)
      BY DEF TrailInv
    <2>4. QED
      BY <2>1, <2>2, <2>3 DEF TrailKept
  <1>2. ASSUME NEW c \in Cases
        PROVE  (intents[c] <= Cardinality(LivePayments(c)) + Cardinality(Paying(c)) + aborts)'
    <2>1. LivePayments(c)' = LivePayments(c) /\ Paying(c)' = Paying(c)
      BY DEF LivePayments, Paying
    <2>2. /\ intents[c] \in Nat /\ aborts \in Nat /\ Cardinality(LivePayments(c)) \in Nat
          /\ Cardinality(Paying(c)) \in Nat
      BY IntentTypes, FS_CardinalityType
    <2>3. QED
      BY <2>1, <2>2 DEF IntentsInv
  <1>3. QED
    BY <1>1, <1>2 DEF TrailInv, IntentsInv
=============================================================================
