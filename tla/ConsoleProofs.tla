----------------------------- MODULE ConsoleProofs -----------------------------
(***************************************************************************)
(* Proofs about the whole console, for every number of sessions and cases. *)
(* A step of the console is a step of one half that may also change the    *)
(* status of a case and the count of stops in the other; what is proved of *)
(* each half survives both, and together they give the order of the        *)
(* workflow.                                                               *)
(***************************************************************************)
EXTENDS ConsoleProperties, FiniteSetTheorems, SequenceTheorems, TLAPS

\* A row of execution_requests has been inserted for r.
Exists(r) == r[2] <= Len(requests[r[1]])

\* A handler has begun to work on the request, or has worked on it.
Touched(r) ==
    \/ request[r].status # "execution_pending"
    \/ attempts[r] # <<>> \/ refund[r] # "none" \/ mockWrites[r] > 0

\* Both halves are sound, and only rows that exist are worked on.
ConsoleSound ==
    /\ Intake!IntakeSound /\ Intake!RequestsFitSessions
    /\ Execution!ExecutionSound
    /\ \A r \in RequestSlots : Touched(r) => Exists(r)
    /\ \A s \in Sessions : executionPc[s] # "idle" => Exists(executionJob[s].request)

-----------------------------------------------------------------------------
(* What the two halves assume                                                *)

LEMMA HalfAssumptions ==
  /\ Intake!IsFiniteSet(Sessions) /\ Execution!IsFiniteSet(Sessions)
  /\ [r \in RequestSlots |-> r[1]] \in [RequestSlots -> Cases]
  /\ [c \in Cases |-> {"none", "stripe", "mock"}] \in [Cases -> SUBSET Execution!Payments]
  <1>1. Intake!IsFiniteSet(Sessions) /\ Execution!IsFiniteSet(Sessions)
    BY ConsoleAssumption DEF IsFiniteSet, Intake!IsFiniteSet, Execution!IsFiniteSet
  <1>2. [r \in RequestSlots |-> r[1]] \in [RequestSlots -> Cases]
    BY DEF RequestSlots
  <1>3. [c \in Cases |-> {"none", "stripe", "mock"}] \in [Cases -> SUBSET Execution!Payments]
    BY DEF Execution!Payments
  <1>4. QED
    BY <1>1, <1>2, <1>3

LEMMA IntakeKeepsSound ==
  ASSUME Intake!IntakeSound, Intake!RequestsFitSessions, Intake!Next
  PROVE  Intake!IntakeSound' /\ Intake!RequestsFitSessions'
  <1>1. Intake!IntakeSound'
    BY Intake!IntakeSoundStep, ConsoleAssumption, HalfAssumptions
  <1>2. Intake!IntakeTypeOK
    BY DEF Intake!IntakeSound
  <1>3. Intake!RequestsFitSessions'
    BY <1>2, Intake!RequestsFitStep, ConsoleAssumption, HalfAssumptions
  <1>4. QED
    BY <1>1, <1>3

LEMMA ExecutionKeepsSound ==
  ASSUME Execution!ExecutionSound, Execution!Next
  PROVE  Execution!ExecutionSound'
  BY Execution!ExecutionSoundStep, ConsoleAssumption, HalfAssumptions

\* Both halves agree on what the status of a case can be.
LEMMA SameCaseStatuses == Intake!CaseStatuses = Execution!CaseStatuses
  BY DEF Intake!CaseStatuses, Execution!CaseStatuses

\* The requests of a case all have a slot.
LEMMA RequestsHaveSlots ==
  ASSUME Intake!IntakeSound, Intake!RequestsFitSessions, NEW c \in Cases,
         NEW r \in LatestRequests(c)
  PROVE  r \in RequestSlots /\ Exists(r) /\ r[1] = c
  <1>1. PICK k \in 1 .. Len(requests[c]) : r = <<c, k>>
    BY DEF LatestRequests, Intake!Latest
  <1>2. Len(requests[c]) \in Nat
    BY DEF Intake!IntakeSound, Intake!IntakeTypeOK, Intake!IntakeTablesOK
  <1>3. /\ Cardinality(Intake!Creating(c)) \in Nat /\ Cardinality(Sessions) \in Nat
        /\ Len(requests[c]) + Cardinality(Intake!Creating(c)) <= Cardinality(Sessions)
    <2>1. Intake!Creating(c) \subseteq Sessions
      BY DEF Intake!Creating
    <2>2. QED
      BY <2>1, ConsoleAssumption, FS_Subset, FS_CardinalityType
      DEF Intake!RequestsFitSessions, Intake!Cardinality, Cardinality
  <1>4. QED
    BY <1>1, <1>2, <1>3 DEF RequestSlots, Exists

-----------------------------------------------------------------------------
(* A step of the intake half                                                 *)

LEMMA RequestsOnlyAdded ==
  ASSUME Intake!IntakeSound, NEW s \in Sessions,
         Intake!BeginHandler(s) \/ Intake!Step(s) \/ Intake!Abort(s), NEW c \in Cases
  PROVE  Len(requests'[c]) >= Len(requests[c])
  <1>1. Intake!IntakeTypeOK /\ Len(requests[c]) \in Nat
    BY DEF Intake!IntakeSound, Intake!IntakeTypeOK, Intake!IntakeTablesOK
  <1>2. requests'[c] = requests[c] \/ Len(requests'[c]) = Len(requests[c]) + 1
    BY <1>1, Intake!CreationFlow, ConsoleAssumption, HalfAssumptions
  <1>3. QED
    BY <1>1, <1>2

LEMMA IntakeCountsStops ==
  ASSUME Intake!IntakeSound, NEW s \in Sessions,
         Intake!BeginHandler(s) \/ Intake!Step(s) \/ Intake!Abort(s)
  PROVE  aborts' \in {aborts, aborts + 1}
  <1>1. CASE Intake!BeginHandler(s)
    BY <1>1 DEF Intake!BeginHandler, Intake!BeginBrief, Intake!BeginEvaluate,
                Intake!BeginPrepare, Intake!BeginCreate, Intake!BeginApprove, Intake!Begin,
                Intake!Tables
  <1>2. CASE Intake!Abort(s)
    BY <1>2 DEF Intake!Abort
  <1>3. CASE Intake!StorePolicy(s) \/ Intake!PolicyCase(s) \/ Intake!AuditPolicy(s)
              \/ Intake!StoreApproval(s) \/ Intake!ApprovalCase(s) \/ Intake!AuditApproval(s)
    BY <1>3 DEF Intake!StorePolicy, Intake!PolicyCase, Intake!AuditPolicy,
                Intake!StoreApproval, Intake!ApprovalCase, Intake!AuditApproval,
                Intake!UpdateCaseStatus, Intake!RecordEvent
  <1>4. CASE Intake!CallBrief(s) \/ Intake!StoreBrief(s) \/ Intake!AuditBrief(s)
              \/ Intake!CallPayment(s) \/ Intake!StorePayment(s) \/ Intake!AuditPayment(s)
    BY <1>4 DEF Intake!CallBrief, Intake!StoreBrief, Intake!AuditBrief, Intake!CallPayment,
                Intake!StorePayment, Intake!AuditPayment, Intake!RecordEvent, Intake!Tables
  <1>5. CASE Intake!ReadApproval(s) \/ Intake!CheckRequest(s) \/ Intake!StoreRequest(s)
              \/ Intake!RequestCase(s) \/ Intake!AuditRequest(s)
    BY <1>5 DEF Intake!ReadApproval, Intake!CheckRequest, Intake!StoreRequest,
                Intake!RequestCase, Intake!AuditRequest, Intake!UpdateCaseStatus,
                Intake!RecordEvent, Intake!Tables
  <1>6. QED
    BY <1>1, <1>2, <1>3, <1>4, <1>5 DEF Intake!Step

LEMMA IntakeHalf ==
  ASSUME ConsoleSound, NEW s \in Sessions, IntakeNext(s)
  PROVE  ConsoleSound'
  <1>1. /\ Intake!BeginHandler(s) \/ Intake!Step(s) \/ Intake!Abort(s)
        /\ UNCHANGED executionVars
    BY DEF IntakeNext
  <1>2. Intake!IntakeSound' /\ Intake!RequestsFitSessions'
    BY <1>1, IntakeKeepsSound DEF ConsoleSound, Intake!Next
  <1>3. Execution!ExecutionSound'
    <2>1. (caseStatus \in [Cases -> Execution!CaseStatuses])'
      BY <1>2, SameCaseStatuses
      DEF Intake!IntakeSound, Intake!IntakeTypeOK, Intake!IntakeTablesOK
    <2>2. aborts' \in {aborts, aborts + 1}
      BY <1>1, IntakeCountsStops DEF ConsoleSound
    <2>3. QED
      BY <1>1, <2>1, <2>2, Execution!ExecutionSoundFrame, ConsoleAssumption, HalfAssumptions
      DEF ConsoleSound, executionVars
  <1>4. \A r \in RequestSlots : Exists(r) => Exists(r)'
    <2>1. ASSUME NEW r \in RequestSlots, Exists(r)
          PROVE  Exists(r)'
      <3>1. r[1] \in Cases /\ r[2] \in Nat
        BY DEF RequestSlots
      <3>2. /\ Len(requests'[r[1]]) >= Len(requests[r[1]])
            /\ Len(requests[r[1]]) \in Nat /\ Len(requests'[r[1]]) \in Nat
        <4>1. Intake!IntakeSound /\ Intake!IntakeSound'
          BY <1>2 DEF ConsoleSound
        <4>2. Len(requests'[r[1]]) >= Len(requests[r[1]])
          BY <1>1, <3>1, <4>1, RequestsOnlyAdded
        <4>3. Len(requests[r[1]]) \in Nat /\ Len(requests'[r[1]]) \in Nat
          <5>1. /\ requests \in [Cases -> Seq(Intake!RequestRows)]
                /\ requests' \in [Cases -> Seq(Intake!RequestRows)]
            BY <4>1 DEF Intake!IntakeSound, Intake!IntakeTypeOK, Intake!IntakeTablesOK
          <5>2. QED
            BY <3>1, <5>1
        <4>4. QED
          BY <4>2, <4>3
      <3>3. QED
        BY <2>1, <3>1, <3>2 DEF Exists
    <2>2. QED
      BY <2>1
  <1>5. \A r \in RequestSlots : Touched(r)' = Touched(r)
    BY <1>1 DEF Touched, executionVars
  <1>6. ASSUME NEW t \in Sessions, executionPc'[t] # "idle"
        PROVE  Exists(executionJob[t].request)'
    <2>1. executionPc[t] # "idle" /\ Exists(executionJob[t].request)
      BY <1>1, <1>6 DEF ConsoleSound, executionVars
    <2>2. executionJob[t].request \in RequestSlots
      BY <2>1 DEF ConsoleSound, Execution!ExecutionSound, Execution!TypeOK, Execution!ControlOK
    <2>3. executionJob' = executionJob
      BY <1>1 DEF executionVars
    <2>4. QED
      BY <1>4, <2>1, <2>2, <2>3 DEF Exists
  <1>7. QED
    BY <1>2, <1>3, <1>4, <1>5, <1>6 DEF ConsoleSound

-----------------------------------------------------------------------------
(* A step of the execution half                                              *)

\* The intake does not notice what becomes of the status of a case and of handlers.
LEMMA IntakeFrame ==
  ASSUME Intake!IntakeSound, Intake!RequestsFitSessions, UNCHANGED intakeVars,
         (caseStatus \in [Cases -> Intake!CaseStatuses])', aborts' \in Nat
  PROVE  Intake!IntakeSound' /\ Intake!RequestsFitSessions'
  <1>1. Intake!IntakeTypeOK'
    BY DEF Intake!IntakeSound, Intake!IntakeTypeOK, Intake!IntakeTablesOK,
           Intake!IntakeControlOK, Intake!HandlerOK, intakeVars
  <1>2. Intake!EvaluationsAreSound' /\ Intake!ApprovalsAreAllowed'
    BY DEF Intake!IntakeSound, Intake!EvaluationsAreSound, Intake!ApprovalsAreAllowed,
           Intake!Allowed, intakeVars
  <1>3. Intake!RequestsAreApproved' /\ Intake!KeysAreUnique'
    <2>1. UNCHANGED <<requests, approvals>>
      BY DEF intakeVars
    <2>2. Intake!RequestsAreApproved' = Intake!RequestsAreApproved
      BY <2>1 DEF Intake!RequestsAreApproved, Intake!RequestOfApproval, Intake!IdempotencyKey
    <2>3. Intake!KeysAreUnique' = Intake!KeysAreUnique
      BY <2>1 DEF Intake!KeysAreUnique, Intake!IdempotencyKey
    <2>4. QED
      BY <2>2, <2>3 DEF Intake!IntakeSound
  <1>4. \A s \in Sessions : Intake!HandlerIsSound(s)'
    BY DEF Intake!IntakeSound, Intake!HandlerIsSound, Intake!Allowed, intakeVars
  <1>5. Intake!RequestsFitSessions'
    BY DEF Intake!RequestsFitSessions, Intake!Creating, intakeVars
  <1>6. QED
    BY <1>1, <1>2, <1>3, <1>4, <1>5 DEF Intake!IntakeSound

Offered(s, c, r) ==
    \/ Execution!BeginExecute(s, r, "mock", "none")
    \/ \E i \in Intake!Latest(payments[c]) :
          Execution!BeginExecute(s, r, "stripe", PaymentKind(payments[c][i]))
    \/ Execution!BeginRetry(s, r)
    \/ Execution!BeginReconcile(s, r)
    \/ \E action \in Execution!RecoveryActions : Execution!BeginRecover(s, r, action)

\* The panels offer nothing the execution half would not: its requests have slots,
\* and its payments are those of the case.
LEMMA PanelsOffer ==
  ASSUME ConsoleSound, NEW s \in Sessions, BeginExecution(s)
  PROVE  /\ Execution!BeginHandler(s)
         /\ Exists(executionJob'[s].request)
  <1>0. PICK c \in Cases : \E r \in LatestRequests(c) : Offered(s, c, r)
    BY DEF BeginExecution, Offered
  <1>1. PICK r \in LatestRequests(c) : Offered(s, c, r)
    BY <1>0
  <1>2. r \in RequestSlots /\ Exists(r) /\ r[1] = c
    BY RequestsHaveSlots DEF ConsoleSound
  <1>3. \A payment : PaymentKind(payment) \in
              [d \in Cases |-> {"none", "stripe", "mock"}][[q \in RequestSlots |-> q[1]][r]]
    BY <1>2 DEF PaymentKind
  <1>4. Execution!BeginHandler(s)
    BY <1>1, <1>2, <1>3 DEF Execution!BeginHandler, Offered
  <1>5. executionJob'[s].request = r
    <2>1. executionJob \in [Sessions -> Execution!Jobs]
      BY DEF ConsoleSound, Execution!ExecutionSound, Execution!TypeOK, Execution!ControlOK
    <2>2. PICK first, via, row, payment :
            Execution!Begin(s, first, Execution!Locals(r, via, row, payment))
      BY <1>1 DEF Offered, Execution!BeginExecute, Execution!BeginRetry,
                  Execution!BeginReconcile, Execution!BeginRecover
    <2>3. executionJob'[s] = Execution!Locals(r, via, row, payment)
      BY <2>1, <2>2 DEF Execution!Begin
    <2>4. QED
      BY <2>3 DEF Execution!Locals
  <1>6. QED
    BY <1>2, <1>4, <1>5

\* What the execution half adds to the intake's assumptions after its step.
LEMMA ExecutionKeepsIntake ==
  ASSUME ConsoleSound, Execution!ExecutionSound', UNCHANGED intakeVars
  PROVE  Intake!IntakeSound' /\ Intake!RequestsFitSessions'
  BY IntakeFrame, SameCaseStatuses
  DEF ConsoleSound, Execution!ExecutionSound, Execution!TypeOK, Execution!TablesOK

LEMMA ExistsKept ==
  ASSUME UNCHANGED intakeVars
  PROVE  \A r : Exists(r)' = Exists(r)
  BY DEF Exists, intakeVars

LEMMA ExecutionHalf ==
  ASSUME ConsoleSound, NEW s \in Sessions, ExecutionNext(s)
  PROVE  ConsoleSound'
  <1>0. /\ UNCHANGED intakeVars /\ Execution!TypeOK
        /\ executionJob \in [Sessions -> Execution!Jobs]
        /\ executionPc \in [Sessions -> {"idle"} \cup Execution!ExecuteSteps
                               \cup Execution!ReconcileSteps \cup Execution!RecoverSteps]
    BY DEF ExecutionNext, ConsoleSound, Execution!ExecutionSound, Execution!TypeOK,
           Execution!ControlOK
  <1>1. BeginExecution(s) \/ Execution!Step(s) \/ Execution!Abort(s)
    BY DEF ExecutionNext
  <1>2. Execution!ExecutionSound'
    BY <1>1, PanelsOffer, ExecutionKeepsSound DEF ConsoleSound, Execution!Next
  <1>3. Intake!IntakeSound' /\ Intake!RequestsFitSessions'
    BY <1>0, <1>2, ExecutionKeepsIntake
  <1>4. ASSUME \A r \in RequestSlots : Touched(r)' => Exists(r),
               \A t \in Sessions \ {s} :
                 executionPc'[t] = executionPc[t] /\ executionJob'[t] = executionJob[t],
               executionPc'[s] # "idle" => Exists(executionJob'[s].request)
        PROVE  ConsoleSound'
    <2>1. \A t \in Sessions : executionPc'[t] # "idle" => Exists(executionJob'[t].request)
      BY <1>4 DEF ConsoleSound
    <2>2. \A t \in Sessions : (executionPc[t] # "idle" => Exists(executionJob[t].request))'
      BY <1>0, <2>1 DEF Exists, intakeVars
    <2>3. QED
      BY <1>0, <1>2, <1>3, <1>4, <2>2, ExistsKept DEF ConsoleSound
  <1>5. CASE BeginExecution(s)
    <2>1. Execution!BeginHandler(s) /\ Exists(executionJob'[s].request)
      BY <1>5, PanelsOffer
    <2>2. \A r \in RequestSlots : Touched(r)' = Touched(r)
      BY <2>1, Execution!BeginKeepsTables, ConsoleAssumption, HalfAssumptions
      DEF Execution!ReadOnly, Touched
    <2>3. \A t \in Sessions \ {s} :
            executionPc'[t] = executionPc[t] /\ executionJob'[t] = executionJob[t]
      BY <1>0, <2>1, Execution!BeginGuards, ConsoleAssumption, HalfAssumptions
    <2>4. QED
      BY <1>4, <2>1, <2>2, <2>3 DEF ConsoleSound
  <1>6. CASE Execution!Step(s)
    <2>1. /\ executionPc[s] # "idle"
          /\ \A t \in Sessions \ {s} :
               executionPc'[t] = executionPc[t] /\ executionJob'[t] = executionJob[t]
          /\ executionPc'[s] # "idle" => executionJob'[s].request = executionJob[s].request
          /\ \A r \in RequestSlots \ {executionJob[s].request} :
               /\ request'[r] = request[r] /\ attempts'[r] = attempts[r]
               /\ refund'[r] = refund[r] /\ mockWrites'[r] = mockWrites[r]
      BY <1>0, <1>6, Execution!OthersUntouched, ConsoleAssumption, HalfAssumptions
    <2>2. Exists(executionJob[s].request)
      BY <2>1 DEF ConsoleSound
    <2>3. \A r \in RequestSlots : Touched(r)' => Exists(r)
      BY <2>1, <2>2 DEF ConsoleSound, Touched
    <2>4. QED
      BY <1>4, <2>1, <2>2, <2>3
  <1>7. CASE Execution!Abort(s)
    <2>1. /\ executionPc' = [executionPc EXCEPT ![s] = "idle"]
          /\ executionJob' = [executionJob EXCEPT ![s] = Execution!NoJob]
          /\ UNCHANGED <<request, attempts, refund, mockWrites>>
      BY <1>7 DEF Execution!Abort
    <2>2. executionPc'[s] = "idle"
      BY <1>0, <2>1
    <2>3. \A r \in RequestSlots : Touched(r)' => Exists(r)
      BY <2>1 DEF ConsoleSound, Touched
    <2>4. \A t \in Sessions \ {s} :
            executionPc'[t] = executionPc[t] /\ executionJob'[t] = executionJob[t]
      BY <1>0, <2>1
    <2>5. QED
      BY <1>4, <2>2, <2>3, <2>4
  <1>8. QED
    BY <1>1, <1>5, <1>6, <1>7

\* Stripe settles a refund on its own: the request it belongs to was touched before.
LEMMA SettlingHalf ==
  ASSUME ConsoleSound, NEW q \in RequestSlots, Execution!RefundSettles(q), UNCHANGED intakeVars
  PROVE  ConsoleSound'
  <1>1. Execution!ExecutionSound'
    BY ExecutionKeepsSound DEF ConsoleSound, Execution!Next
  <1>2. Intake!IntakeSound' /\ Intake!RequestsFitSessions'
    BY <1>1, ExecutionKeepsIntake
  <1>3. /\ refund[q] = "pending"
        /\ \E status \in {"succeeded", "failed", "canceled"} :
             refund' = [refund EXCEPT ![q] = status]
        /\ UNCHANGED <<request, attempts, mockWrites, executionPc, executionJob>>
    BY DEF Execution!RefundSettles
  <1>4. refund \in [RequestSlots -> {"none", "pending", "succeeded", "failed", "canceled"}]
    BY DEF ConsoleSound, Execution!ExecutionSound, Execution!TypeOK, Execution!TablesOK
  <1>5. \A r \in RequestSlots : Touched(r)' => Touched(r)
    BY <1>3, <1>4 DEF Touched
  <1>6. \A t \in Sessions : (executionPc[t] # "idle" => Exists(executionJob[t].request))'
    BY <1>3 DEF ConsoleSound, Exists, intakeVars
  <1>7. QED
    BY <1>1, <1>2, <1>5, <1>6, ExistsKept DEF ConsoleSound

-----------------------------------------------------------------------------
LEMMA ConsoleInit ==
  ASSUME Init
  PROVE  ConsoleSound
  <1>1. Intake!Init /\ Execution!InitRequests
    BY DEF Init
  <1>2. Intake!IntakeSound /\ Intake!RequestsFitSessions
    BY <1>1, Intake!IntakeSoundInit, Intake!RequestsFitInit, ConsoleAssumption, HalfAssumptions
  <1>3. caseStatus \in [Cases -> Execution!CaseStatuses]
    BY <1>2, SameCaseStatuses
    DEF Intake!IntakeSound, Intake!IntakeTypeOK, Intake!IntakeTablesOK
  <1>4. Execution!ExecutionSound
    BY <1>1, <1>3, Execution!ExecutionSoundInit, ConsoleAssumption, HalfAssumptions
  <1>5. \A r \in RequestSlots : ~Touched(r)
    BY <1>1 DEF Execution!InitRequests, Execution!NewRow, Touched
  <1>6. \A s \in Sessions : executionPc[s] = "idle"
    BY <1>1 DEF Execution!InitRequests
  <1>7. QED
    BY <1>2, <1>4, <1>5, <1>6 DEF ConsoleSound

LEMMA ConsoleStutters ==
  ASSUME ConsoleSound, UNCHANGED vars
  PROVE  ConsoleSound'
  <1>1. UNCHANGED intakeVars /\ UNCHANGED executionVars /\ UNCHANGED <<caseStatus, aborts>>
    BY DEF vars
  <1>2. Execution!ExecutionSound'
    BY <1>1, Execution!ExecutionSoundStep, ConsoleAssumption, HalfAssumptions
    DEF ConsoleSound, executionVars, Execution!vars
  <1>3. Intake!IntakeSound' /\ Intake!RequestsFitSessions'
    BY <1>1, <1>2, ExecutionKeepsIntake
  <1>4. QED
    BY <1>1, <1>2, <1>3 DEF ConsoleSound, Touched, Exists, intakeVars, executionVars

THEOREM ConsoleIsSound == Spec => []ConsoleSound
  <1>1. ConsoleSound /\ [Next]_vars => ConsoleSound'
    BY IntakeHalf, ExecutionHalf, SettlingHalf, ConsoleStutters DEF Next
  <1>2. QED
    BY <1>1, ConsoleInit, PTL DEF Spec

-----------------------------------------------------------------------------
(* The workflow as an abstract machine.  Of the intake only three statements  *)
(* are steps of it, and of the execution the writes of a status and the calls. *)

IntakeMoves(s) == Intake!BeginHandler(s) \/ Intake!Step(s) \/ Intake!Abort(s)

\* A sequence that agrees with another one and has one element more.
LEMMA Extended ==
  ASSUME NEW S, NEW old \in Seq(S), NEW new \in Seq(S), Len(new) = Len(old) + 1,
         \A i \in 1 .. Len(old) : new[i] = old[i]
  PROVE  new = Append(old, new[Len(old) + 1])
  <1>1. PICK n \in Nat : n = Len(old)
    OBVIOUS
  <1>2. n + 1 \in 1 .. Len(new)
    BY <1>1
  <1>3. new[n + 1] \in S
    BY <1>2, ElementOfSeq
  <1>4. /\ Append(old, new[n + 1]) \in Seq(S) /\ Len(Append(old, new[n + 1])) = n + 1
        /\ \A i \in 1 .. n : Append(old, new[n + 1])[i] = old[i]
        /\ Append(old, new[n + 1])[n + 1] = new[n + 1]
    BY <1>1, <1>3, AppendProperties
  <1>5. \A i \in 1 .. n + 1 : i \in 1 .. n \/ i = n + 1
    BY <1>1
  <1>6. \A i \in 1 .. Len(new) : new[i] = Append(old, new[n + 1])[i]
    BY <1>1, <1>4, <1>5
  <1>7. QED
    BY <1>1, <1>4, <1>6, SeqEqual

LEMMA DecisionAdded ==
  ASSUME approvals \in [Cases -> Seq(Intake!ApprovalRows)], NEW c \in Cases,
         NEW row \in Intake!ApprovalRows, approvals' = [approvals EXCEPT ![c] = Append(@, row)]
  PROVE  Decided' = [Decided EXCEPT ![c] = Append(@, DecisionOf(row))]
  <1>1. PICK n \in Nat : n = Len(approvals[c])
    OBVIOUS
  <1>2. /\ \A d \in Cases \ {c} : approvals'[d] = approvals[d]
        /\ Len(approvals'[c]) = n + 1
        /\ \A i \in 1 .. n : approvals'[c][i] = approvals[c][i]
        /\ approvals'[c][n + 1] = row
    BY <1>1
  <1>3. /\ Decided[c] = [i \in 1 .. n |-> DecisionOf(approvals[c][i])]
        /\ Decided'[c] = [i \in 1 .. n + 1 |-> DecisionOf(approvals'[c][i])]
        /\ \A d \in Cases \ {c} : Decided'[d] = Decided[d]
    BY <1>1, <1>2 DEF Decided
  <1>4. \A i \in 1 .. n + 1 : approvals'[c][i] \in Intake!ApprovalRows
    <2>1. \A i \in 1 .. n : approvals[c][i] \in Intake!ApprovalRows
      BY <1>1
    <2>2. \A i \in 1 .. n + 1 : i \in 1 .. n \/ i = n + 1
      OBVIOUS
    <2>3. QED
      BY <1>2, <2>1, <2>2
  <1> DEFINE S == {DecisionOf(old) : old \in Intake!ApprovalRows}
  <1>5. /\ Decided[c] \in Seq(S) /\ Len(Decided[c]) = n
        /\ Decided'[c] \in Seq(S) /\ Len(Decided'[c]) = n + 1
    <2>1. \A i \in 1 .. n : DecisionOf(approvals[c][i]) \in S
      BY <1>1
    <2>2. \A i \in 1 .. n + 1 : DecisionOf(approvals'[c][i]) \in S
      BY <1>4
    <2> HIDE DEF S
    <2>3. Decided[c] \in [1 .. n -> S] /\ Decided'[c] \in [1 .. n + 1 -> S]
      BY <1>3, <2>1, <2>2
    <2>4. \A m \in Nat : \A seq \in [1 .. m -> S] : seq \in Seq(S) /\ Len(seq) = m
      OBVIOUS
    <2>5. n + 1 \in Nat
      OBVIOUS
    <2>6. QED
      BY <2>3, <2>4, <2>5
  <1>6. Decided'[c] = Append(Decided[c], DecisionOf(row))
    <2> HIDE DEF S
    <2>1. /\ \A i \in 1 .. n : Decided'[c][i] = Decided[c][i]
          /\ Decided'[c][n + 1] = DecisionOf(row)
      BY <1>2, <1>3
    <2>2. QED
      BY <1>5, <2>1, Extended
  <1>7. QED
    BY <1>3, <1>6 DEF Decided

LEMMA OrderAdded ==
  ASSUME requests \in [Cases -> Seq(Intake!RequestRows)], NEW c \in Cases,
         NEW row \in Intake!RequestRows, requests' = [requests EXCEPT ![c] = Append(@, row)]
  PROVE  Ordered' = [Ordered EXCEPT ![c] = Append(@, OrderOf(row))]
  <1>1. PICK n \in Nat : n = Len(requests[c])
    OBVIOUS
  <1>2. /\ \A d \in Cases \ {c} : requests'[d] = requests[d]
        /\ Len(requests'[c]) = n + 1
        /\ \A k \in 1 .. n : requests'[c][k] = requests[c][k]
        /\ requests'[c][n + 1] = row
    BY <1>1
  <1>3. /\ Ordered[c] = [k \in 1 .. n |-> OrderOf(requests[c][k])]
        /\ Ordered'[c] = [k \in 1 .. n + 1 |-> OrderOf(requests'[c][k])]
        /\ \A d \in Cases \ {c} : Ordered'[d] = Ordered[d]
    BY <1>1, <1>2 DEF Ordered
  <1>4. \A k \in 1 .. n + 1 : requests'[c][k] \in Intake!RequestRows
    <2>1. \A k \in 1 .. n : requests[c][k] \in Intake!RequestRows
      BY <1>1
    <2>2. \A k \in 1 .. n + 1 : k \in 1 .. n \/ k = n + 1
      OBVIOUS
    <2>3. QED
      BY <1>2, <2>1, <2>2
  <1> DEFINE S == {OrderOf(old) : old \in Intake!RequestRows}
  <1>5. /\ Ordered[c] \in Seq(S) /\ Len(Ordered[c]) = n
        /\ Ordered'[c] \in Seq(S) /\ Len(Ordered'[c]) = n + 1
    <2>1. \A k \in 1 .. n : OrderOf(requests[c][k]) \in S
      BY <1>1
    <2>2. \A k \in 1 .. n + 1 : OrderOf(requests'[c][k]) \in S
      BY <1>4
    <2> HIDE DEF S
    <2>3. Ordered[c] \in [1 .. n -> S] /\ Ordered'[c] \in [1 .. n + 1 -> S]
      BY <1>3, <2>1, <2>2
    <2>4. \A m \in Nat : \A seq \in [1 .. m -> S] : seq \in Seq(S) /\ Len(seq) = m
      OBVIOUS
    <2>5. n + 1 \in Nat
      OBVIOUS
    <2>6. QED
      BY <2>3, <2>4, <2>5
  <1>6. Ordered'[c] = Append(Ordered[c], OrderOf(row))
    <2> HIDE DEF S
    <2>1. /\ \A k \in 1 .. n : Ordered'[c][k] = Ordered[c][k]
          /\ Ordered'[c][n + 1] = OrderOf(row)
      BY <1>2, <1>3
    <2>2. QED
      BY <1>5, <2>1, Extended
  <1>7. QED
    BY <1>3, <1>6 DEF Ordered

\* The first evaluation is the verdict, and every later one repeats it.
LEMMA PolicyJudges ==
  ASSUME ConsoleSound, NEW s \in Sessions, Intake!StorePolicy(s), UNCHANGED executionVars
  PROVE  Promise!Judge(intakeJob[s].case) \/ UNCHANGED Promise!workflowVars
  <1> DEFINE c == intakeJob[s].case
             outcome == intakeJob[s].outcome
  <1>1. /\ intakePc[s] = "store_policy"
        /\ evaluations' = [evaluations EXCEPT ![c] = Append(@, outcome)]
        /\ UNCHANGED <<approvals, requests>>
    BY DEF Intake!StorePolicy, Intake!Proceed, Intake!Move
  <1>2. /\ c \in Cases /\ outcome \in Intake!Outcomes
        /\ evaluations \in [Cases -> Seq(Intake!Outcomes)]
    BY <1>1
    DEF ConsoleSound, Intake!IntakeSound, Intake!IntakeTypeOK, Intake!IntakeTablesOK,
        Intake!IntakeControlOK, Intake!HandlerOK
  <1> HIDE DEF c, outcome
  <1>3. /\ Decided' = Decided /\ Ordered' = Ordered /\ ClaimedSlots' = ClaimedSlots
        /\ EffectSlots' = EffectSlots
    BY <1>1 DEF Decided, Ordered, ClaimedSlots, EffectSlots, executionVars
  <1>4. /\ \A d \in Cases \ {c} : evaluations'[d] = evaluations[d]
        /\ evaluations'[c] # <<>>
        /\ evaluations[c] # <<>> => evaluations'[c][1] = evaluations[c][1]
        /\ evaluations[c] = <<>> => evaluations'[c][1] = outcome
    BY <1>1, <1>2
  <1>5. CASE evaluations[c] = <<>>
    <2>1. CaseVerdict' = [CaseVerdict EXCEPT ![c] = outcome]
      BY <1>2, <1>4, <1>5 DEF CaseVerdict
    <2>2. CaseVerdict[c] = "none" /\ outcome \in Promise!Verdicts
      BY <1>2, <1>5 DEF CaseVerdict, Promise!Verdicts, Intake!Outcomes
    <2>3. QED
      BY <1>3, <2>1, <2>2 DEF Promise!Judge, c
  <1>6. CASE evaluations[c] # <<>>
    <2>1. CaseVerdict' = CaseVerdict
      BY <1>2, <1>4, <1>6 DEF CaseVerdict
    <2>2. QED
      BY <1>3, <2>1 DEF Promise!workflowVars
  <1>7. QED
    BY <1>5, <1>6

\* A decision is typed in a role that the evaluation permits, and the evaluation read
\* then is the verdict.
LEMMA ApprovalDecides ==
  ASSUME ConsoleSound, NEW s \in Sessions, Intake!StoreApproval(s), UNCHANGED executionVars
  PROVE  Promise!Decide(intakeJob[s].case)
  <1> DEFINE c == intakeJob[s].case
             form == intakeJob[s].form
             row(tied) == [outcome |-> intakeJob[s].outcome, role |-> form.role,
                           decision |-> form.decision, action |-> form.action,
                           amount |-> form.amount, tied |-> tied]
  <1>1. intakePc[s] = "store_approval" /\ UNCHANGED <<evaluations, requests>>
    BY DEF Intake!StoreApproval, Intake!Proceed, Intake!Move
  <1>2. PICK tied \in BOOLEAN : approvals' = [approvals EXCEPT ![c] = Append(@, row(tied))]
    BY DEF Intake!StoreApproval, Intake!Ties
  <1>3. /\ c \in Cases /\ intakeJob[s].outcome \in Intake!Outcomes
        /\ form \in [role : Intake!Roles, decision : Intake!Decisions,
                     action : Intake!Actions, amount : Amounts]
        /\ approvals \in [Cases -> Seq(Intake!ApprovalRows)]
        /\ Intake!Allowed(c, intakeJob[s].outcome, form.role)
    BY <1>1
    DEF ConsoleSound, Intake!IntakeSound, Intake!IntakeTypeOK, Intake!IntakeTablesOK,
        Intake!IntakeControlOK, Intake!HandlerOK, Intake!HandlerIsSound
  <1>4. /\ CaseVerdict' = CaseVerdict /\ Ordered' = Ordered /\ ClaimedSlots' = ClaimedSlots
        /\ EffectSlots' = EffectSlots
    BY <1>1 DEF CaseVerdict, Ordered, ClaimedSlots, EffectSlots, executionVars
  <1>5. form.role \in Promise!Entitled(CaseVerdict[c])
    <2>1. PICK i \in 1 .. Len(evaluations[c]) : evaluations[c][i] = intakeJob[s].outcome
      BY <1>3 DEF Intake!Allowed
    <2>2. evaluations[c] \in Seq(Intake!Outcomes)
      BY <1>3 DEF ConsoleSound, Intake!IntakeSound, Intake!IntakeTypeOK, Intake!IntakeTablesOK
    <2>3. evaluations[c] # <<>> /\ 1 \in 1 .. Len(evaluations[c])
      BY <2>1, <2>2
    <2>4. evaluations[c][1] = intakeJob[s].outcome
      BY <1>3, <2>1, <2>3 DEF ConsoleSound, Intake!IntakeSound, Intake!EvaluationsAreSound
    <2>5. CaseVerdict[c] = intakeJob[s].outcome
      BY <1>3, <2>3, <2>4 DEF CaseVerdict
    <2>6. QED
      BY <1>3, <2>5 DEF Intake!Allowed, Intake!CanBeApproved, Promise!Entitled
  <1>6. Decided' = [Decided EXCEPT ![c] = Append(@, DecisionOf(row(tied)))]
    <2>1. row(tied) \in Intake!ApprovalRows
      BY <1>3 DEF Intake!ApprovalRows
    <2> HIDE DEF row, c
    <2>2. QED
      BY <1>2, <1>3, <2>1, DecisionAdded
  <1>7. DecisionOf(row(tied)) = [role |-> form.role, decision |-> form.decision,
                                 action |-> form.action, amount |-> form.amount]
    BY DEF DecisionOf
  <1> HIDE DEF row
  <1>8. QED
    BY <1>3, <1>4, <1>5, <1>6, <1>7 DEF Promise!Decide, Intake!Decisions

\* A request is inserted for an approval that has none: another handler's request for it
\* would have the same key.
LEMMA RequestOrders ==
  ASSUME ConsoleSound, NEW s \in Sessions, Intake!StoreRequest(s), UNCHANGED executionVars
  PROVE  Promise!Order(intakeJob[s].case) \/ UNCHANGED Promise!workflowVars
  <1> DEFINE c == intakeJob[s].case
             i == intakeJob[s].approval
  <1>1. intakePc[s] = "store_request" /\ UNCHANGED <<evaluations, approvals>>
    BY DEF Intake!StoreRequest
  <1>2. /\ c \in Cases /\ i \in 1 .. Len(approvals[c])
        /\ approvals[c][i].decision = "approved"
        /\ requests \in [Cases -> Seq(Intake!RequestRows)]
        /\ approvals[c] \in Seq(Intake!ApprovalRows)
    BY <1>1
    DEF ConsoleSound, Intake!IntakeSound, Intake!IntakeTypeOK, Intake!IntakeTablesOK,
        Intake!IntakeControlOK, Intake!HandlerOK, Intake!HandlerIsSound
  <1>3. /\ CaseVerdict' = CaseVerdict /\ Decided' = Decided /\ ClaimedSlots' = ClaimedSlots
        /\ EffectSlots' = EffectSlots
    BY <1>1 DEF CaseVerdict, Decided, ClaimedSlots, EffectSlots, executionVars
  <1>4. CASE Intake!KeyTaken(c, i)
    <2>1. Ordered' = Ordered
      BY <1>4 DEF Intake!StoreRequest, Ordered
    <2>2. QED
      BY <1>3, <2>1 DEF Promise!workflowVars
  <1>5. CASE ~Intake!KeyTaken(c, i)
    <2>1. Intake!RequestInserted(c, i)
      BY <1>5 DEF Intake!StoreRequest
    <2>2. PICK row \in Intake!RequestRows :
            /\ requests' = [requests EXCEPT ![c] = Append(@, row)]
            /\ row.approval = i
            /\ row.action = approvals[c][i].action /\ row.amount = approvals[c][i].amount
      BY <1>1, <2>1, Intake!RequestAppended, ConsoleAssumption, HalfAssumptions
      DEF ConsoleSound, Intake!IntakeSound
    <2>3. \A k \in 1 .. Len(requests[c]) : requests[c][k].approval # i
      BY <1>2, <1>5
      DEF Intake!KeyTaken, ConsoleSound, Intake!IntakeSound, Intake!RequestsAreApproved
    <2> HIDE DEF c, i
    <2>4. Ordered' = [Ordered EXCEPT ![c] = Append(@, OrderOf(row))]
      BY <1>2, <2>2, OrderAdded
    <2>5. \A k \in 1 .. Len(Ordered[c]) : Ordered[c][k].approval # i
      <3>1. /\ Ordered[c] = [k \in 1 .. Len(requests[c]) |-> OrderOf(requests[c][k])]
            /\ Len(requests[c]) \in Nat
        BY <1>2 DEF Ordered
      <3>2. Len(Ordered[c]) = Len(requests[c])
        BY <3>1
      <3>3. QED
        BY <2>3, <3>1, <3>2 DEF OrderOf
    <2>6. /\ i \in 1 .. Len(Decided[c]) /\ Decided[c][i].decision = "approved"
          /\ OrderOf(row) = [approval |-> i, action |-> Decided[c][i].action,
                             amount |-> Decided[c][i].amount]
      <3>1. /\ Decided[c] = [k \in 1 .. Len(approvals[c]) |-> DecisionOf(approvals[c][k])]
            /\ Len(approvals[c]) \in Nat
        BY <1>2 DEF Decided
      <3>2. Len(Decided[c]) = Len(approvals[c]) /\ Decided[c][i] = DecisionOf(approvals[c][i])
        BY <1>2, <3>1
      <3>3. QED
        BY <1>2, <2>2, <3>2 DEF DecisionOf, OrderOf
    <2>7. QED
      BY <1>3, <2>4, <2>5, <2>6 DEF Promise!Order, c
  <1>6. QED
    BY <1>4, <1>5

LEMMA IntakeWorks ==
  ASSUME ConsoleSound, NEW s \in Sessions, IntakeNext(s)
  PROVE  [Promise!WorkflowNext]_(Promise!workflowVars)
  <1>1. IntakeMoves(s) /\ UNCHANGED executionVars
    BY DEF IntakeNext, IntakeMoves
  <1>2. CASE UNCHANGED <<evaluations, approvals, requests>>
    BY <1>1, <1>2 DEF Promise!workflowVars, CaseVerdict, Decided, Ordered, ClaimedSlots,
                      EffectSlots, executionVars
  <1>3. CASE Intake!StorePolicy(s) \/ Intake!StoreApproval(s) \/ Intake!StoreRequest(s)
    <2>1. intakePc[s] # "idle"
      BY <1>3 DEF Intake!StorePolicy, Intake!StoreApproval, Intake!StoreRequest,
                  Intake!Proceed, Intake!Move
    <2>2. intakeJob[s].case \in Cases
      BY <2>1 DEF ConsoleSound, Intake!IntakeSound, Intake!IntakeTypeOK,
                  Intake!IntakeControlOK, Intake!HandlerOK
    <2>3. QED
      BY <1>1, <1>3, <2>2, PolicyJudges, ApprovalDecides, RequestOrders
      DEF Promise!WorkflowNext
  <1>4. QED
    BY <1>1, <1>2, <1>3, Intake!WorkflowWrites, ConsoleAssumption, HalfAssumptions
    DEF IntakeMoves

\* What the workflow sees of the intake when only execution moves.
LEMMA WorkflowFrame ==
  ASSUME UNCHANGED intakeVars
  PROVE  CaseVerdict' = CaseVerdict /\ Decided' = Decided /\ Ordered' = Ordered
  BY DEF CaseVerdict, Decided, Ordered, intakeVars

LEMMA ExecutionWorks ==
  ASSUME ConsoleSound, NEW s \in Sessions, ExecutionNext(s)
  PROVE  [Promise!WorkflowNext]_(Promise!workflowVars)
  <1>1. /\ CaseVerdict' = CaseVerdict /\ Decided' = Decided /\ Ordered' = Ordered
        /\ Execution!TypeOK /\ Execution!PendingInv
    BY WorkflowFrame DEF ExecutionNext, ConsoleSound, Execution!ExecutionSound
  <1>2. CASE BeginExecution(s) \/ Execution!Abort(s)
    <2>1. UNCHANGED <<request, refund, mockWrites>>
      BY <1>2, PanelsOffer, Execution!BeginKeepsTables, ConsoleAssumption, HalfAssumptions
      DEF Execution!ReadOnly, Execution!Abort
    <2>2. QED
      BY <1>1, <2>1 DEF Promise!workflowVars, ClaimedSlots, EffectSlots
  <1>3. CASE Execution!Step(s)
    <2> DEFINE r == executionJob[s].request
    <2>1. /\ executionPc[s] # "idle" /\ r \in RequestSlots
          /\ \A q \in RequestSlots \ {r} :
               /\ request'[q] = request[q] /\ refund'[q] = refund[q]
               /\ mockWrites'[q] = mockWrites[q]
      BY <1>1, <1>3, Execution!OthersUntouched, ConsoleAssumption, HalfAssumptions
    <2>2. PICK c \in Cases, k \in 1 .. Cardinality(Sessions) : r = <<c, k>>
      BY <2>1 DEF RequestSlots
    <2>3. k \in 1 .. Len(Ordered[c])
      <3>1. Exists(r) /\ requests[c] \in Seq(Intake!RequestRows)
        BY <2>1 DEF ConsoleSound, Intake!IntakeSound, Intake!IntakeTypeOK, Intake!IntakeTablesOK
      <3>2. Len(requests[c]) \in Nat /\ Len(Ordered[c]) = Len(requests[c])
        BY <3>1 DEF Ordered
      <3>3. k <= Len(requests[c])
        BY <2>2, <3>1 DEF Exists
      <3>4. QED
        BY <3>2, <3>3
    <2>4. ASSUME Promise!ClaimOrder(c, k) \/ Promise!TakeEffect(c, k)
          PROVE  [Promise!WorkflowNext]_(Promise!workflowVars)
      BY <2>3, <2>4 DEF Promise!WorkflowNext
    <2>5. /\ executionPc[s] = "call" => UNCHANGED request
          /\ executionPc[s] # "call" => UNCHANGED <<refund, mockWrites>>
          /\ \A q \in RequestSlots :
               mockWrites[q] > 0 \/ refund[q] # "none" => mockWrites'[q] > 0 \/ refund'[q] # "none"
      BY <1>1, <1>3, Execution!EffectMoves, ConsoleAssumption, HalfAssumptions
    <2> HIDE DEF r
    <2>6. CASE executionPc[s] = "call"
      <3>1. ClaimedSlots' = ClaimedSlots
        BY <2>5, <2>6 DEF ClaimedSlots
      <3>2. r \in ClaimedSlots
        <4>1. "call" \in Execution!ExecuteSteps
          BY DEF Execution!ExecuteSteps
        <4>2. QED
          BY <1>1, <2>1, <2>6, <4>1 DEF Execution!PendingInv, ClaimedSlots, r
      <3>3. EffectSlots' = EffectSlots \/ EffectSlots' = EffectSlots \cup {r}
        BY <2>1, <2>5 DEF EffectSlots
      <3>4. QED
        BY <1>1, <2>2, <2>4, <3>1, <3>2, <3>3 DEF Promise!TakeEffect, Promise!workflowVars
    <2>7. CASE executionPc[s] # "call"
      <3>1. EffectSlots' = EffectSlots
        BY <2>5, <2>7 DEF EffectSlots
      <3>2. \/ request'[r].status = request[r].status
            \/ request'[r].status # "execution_pending"
        BY <1>1, <1>3, Execution!RowWrites, ConsoleAssumption, HalfAssumptions DEF r
      <3>3. ClaimedSlots' = ClaimedSlots \/ ClaimedSlots' = ClaimedSlots \cup {r}
        BY <2>1, <3>2 DEF ClaimedSlots
      <3>4. QED
        BY <1>1, <2>2, <2>4, <3>1, <3>3 DEF Promise!ClaimOrder, Promise!workflowVars
    <2>8. QED
      BY <2>6, <2>7
  <1>4. QED
    BY <1>2, <1>3 DEF ExecutionNext

\* A refund that settles was made before.
LEMMA SettlingWorks ==
  ASSUME ConsoleSound, NEW q \in RequestSlots, Execution!RefundSettles(q), UNCHANGED intakeVars
  PROVE  UNCHANGED Promise!workflowVars
  <1>1. /\ refund[q] = "pending"
        /\ \E status \in {"succeeded", "failed", "canceled"} :
             refund' = [refund EXCEPT ![q] = status]
        /\ UNCHANGED <<request, mockWrites>>
    BY DEF Execution!RefundSettles
  <1>2. refund \in [RequestSlots -> {"none", "pending", "succeeded", "failed", "canceled"}]
    BY DEF ConsoleSound, Execution!ExecutionSound, Execution!TypeOK, Execution!TablesOK
  <1>3. \A r \in RequestSlots : refund'[r] # "none" <=> refund[r] # "none"
    BY <1>1, <1>2
  <1>4. QED
    BY <1>1, <1>3, WorkflowFrame DEF Promise!workflowVars, ClaimedSlots, EffectSlots

\* The console implements the workflow, for any number of sessions and cases and with
\* handlers that stop at any step: the verdict of a case never changes, nobody decides
\* without the role it asks for, no approval gets two requests, and no request takes
\* effect before it was claimed.
THEOREM WorkflowImplemented == Spec => ImplementsWorkflow
  <1>1. Init => Promise!WorkflowInit
    BY DEF Init, Intake!Init, Execution!InitRequests, Execution!NewRow, Promise!WorkflowInit,
           CaseVerdict, Decided, Ordered, ClaimedSlots, EffectSlots
  <1>2. ConsoleSound /\ [Next]_vars => [Promise!WorkflowNext]_(Promise!workflowVars)
    <2>1. ASSUME UNCHANGED vars
          PROVE  UNCHANGED Promise!workflowVars
      BY <2>1 DEF vars, intakeVars, executionVars, Promise!workflowVars, CaseVerdict,
                  Decided, Ordered, ClaimedSlots, EffectSlots
    <2>2. QED
      BY <2>1, IntakeWorks, ExecutionWorks, SettlingWorks DEF Next
  <1>3. QED
    BY <1>1, <1>2, ConsoleIsSound, PTL DEF Spec, ImplementsWorkflow, Promise!WorkflowSpec

-----------------------------------------------------------------------------
\* What is proved of the execution half alone holds in the whole console too.
THEOREM ExecutionInConsole ==
  Spec => [](/\ Execution!SuccessIsRecorded /\ Execution!ReconciledIsVerified
             /\ Execution!HumanOutcomeIsHuman /\ Execution!PendingIsUntouched
             /\ Execution!WaitingIsJustified /\ Execution!AttemptBudget)
  <1>1. ConsoleSound =>
          /\ Execution!SuccessIsRecorded /\ Execution!ReconciledIsVerified
          /\ Execution!HumanOutcomeIsHuman /\ Execution!PendingIsUntouched
          /\ Execution!WaitingIsJustified /\ Execution!AttemptBudget
    BY Execution!ExecutionSoundMeans, ConsoleAssumption, HalfAssumptions DEF ConsoleSound
  <1>2. QED
    BY <1>1, ConsoleIsSound, PTL


\* What is proved of the intake alone holds in the whole console too: every request
\* carries an approval of a permitted role after an evaluation that allows it, no approval
\* gets two requests, and no brief is empty, blank or of unclear origin.
THEOREM IntakeInConsole ==
  Spec => [](/\ Intake!RequestIsAuthorised /\ Intake!OneRequestPerApproval
             /\ BriefsAreUsable)
  <1>1. Init => Intake!BriefSound
    BY Intake!BriefSoundInit, ConsoleAssumption, HalfAssumptions DEF Init
  <1>2. ConsoleSound /\ Intake!BriefSound /\ [Next]_vars => Intake!BriefSound'
    <2>1. ASSUME Intake!BriefSound, UNCHANGED intakeVars
          PROVE  Intake!BriefSound'
      BY <2>1 DEF Intake!BriefSound, Intake!BriefsAreUsable, intakeVars
    <2>2. ASSUME ConsoleSound, Intake!BriefSound, NEW s \in Sessions, IntakeNext(s)
          PROVE  Intake!BriefSound'
      <3>1. Intake!IntakeTypeOK /\ Intake!Next
        BY <2>2 DEF ConsoleSound, Intake!IntakeSound, IntakeNext, Intake!Next
      <3>2. QED
        BY <2>2, <3>1, Intake!BriefSoundStep, ConsoleAssumption, HalfAssumptions
    <2>3. QED
      BY <2>1, <2>2 DEF Next, ExecutionNext, vars
  <1>3. Intake!BriefSound => BriefsAreUsable
    BY DEF BriefsAreUsable, Intake!BriefSound
  <1>4. ConsoleSound => Intake!RequestIsAuthorised /\ Intake!OneRequestPerApproval
    BY Intake!AuthorisedWhenSound, Intake!OneRequestWhenSound, ConsoleAssumption,
       HalfAssumptions
    DEF ConsoleSound
  <1>5. QED
    BY <1>1, <1>2, <1>3, <1>4, ConsoleIsSound, PTL DEF Spec

-----------------------------------------------------------------------------
(* The trails and the accounts of both halves, in one database               *)

TrailsKept ==
    /\ Intake!TrailInv /\ Intake!IntentsInv
    /\ Execution!TrailInv /\ Execution!WritesInv /\ Execution!NumbersInv

\* The steps of the console, as those of the half that moves and of the other one.
LEMMA HalvesMove ==
  ASSUME ConsoleSound, [Next]_vars
  PROVE  /\ Intake!IntakeTypeOK /\ Execution!TypeOK /\ Execution!PendingInv
         /\ Intake!Next \/ (UNCHANGED intakeVars /\ aborts' \in {aborts, aborts + 1})
         /\ Execution!Next \/ (UNCHANGED executionVars /\ aborts' \in {aborts, aborts + 1})
         /\ Intake!Next \/ Execution!Next \/ UNCHANGED vars
  <1>0. Intake!IntakeTypeOK /\ Execution!TypeOK /\ Execution!PendingInv
    BY DEF ConsoleSound, Intake!IntakeSound, Execution!ExecutionSound
  <1>1. ASSUME NEW s \in Sessions, IntakeNext(s)
        PROVE  Intake!Next /\ UNCHANGED executionVars /\ aborts' \in {aborts, aborts + 1}
    <2>1. /\ Intake!BeginHandler(s) \/ Intake!Step(s) \/ Intake!Abort(s)
          /\ UNCHANGED executionVars /\ Intake!IntakeSound
      BY <1>1 DEF IntakeNext, ConsoleSound
    <2>2. QED
      BY <2>1, IntakeCountsStops DEF Intake!Next
  <1>2. ASSUME NEW s \in Sessions, ExecutionNext(s)
        PROVE  Execution!Next /\ UNCHANGED intakeVars
    BY <1>2, PanelsOffer DEF ExecutionNext, Execution!Next
  <1>3. ASSUME NEW r \in RequestSlots, Execution!RefundSettles(r)
        PROVE  Execution!Next
    BY <1>3 DEF Execution!Next
  <1>4. Execution!Next => aborts' \in {aborts, aborts + 1}
    BY <1>0, Execution!StopsCounted, ConsoleAssumption, HalfAssumptions
  <1>5. QED
    BY <1>0, <1>1, <1>2, <1>3, <1>4 DEF Next, vars

LEMMA TrailsStep ==
  ASSUME ConsoleSound, TrailsKept, [Next]_vars
  PROVE  TrailsKept'
  <1>1. /\ Intake!IntakeTypeOK /\ Intake!TrailInv /\ Intake!IntentsInv
        /\ Execution!TypeOK /\ Execution!TrailInv /\ Execution!WritesInv
        /\ Execution!NumbersInv
        /\ Intake!Next \/ (UNCHANGED intakeVars /\ aborts' \in {aborts, aborts + 1})
        /\ Execution!Next \/ (UNCHANGED executionVars /\ aborts' \in {aborts, aborts + 1})
    BY HalvesMove DEF TrailsKept
  <1>2. Intake!TrailInv' /\ Intake!IntentsInv'
    <2>1. CASE Intake!Next
      BY <1>1, <2>1, Intake!TrailInvStep, Intake!IntentsInvStep, ConsoleAssumption,
         HalfAssumptions
    <2>2. CASE UNCHANGED intakeVars /\ aborts' \in {aborts, aborts + 1}
      <3>1. UNCHANGED <<briefs, evaluations, approvals, payments, requests, intents,
                        intakeAudit, intakePc, intakeJob>>
        BY <2>2 DEF intakeVars
      <3>2. QED
        BY <1>1, <2>2, <3>1, Intake!TrailsFrame, ConsoleAssumption, HalfAssumptions
    <2>3. QED
      BY <1>1, <2>1, <2>2
  <1>3. Execution!TrailInv' /\ Execution!WritesInv' /\ Execution!NumbersInv'
    <2>1. CASE Execution!Next
      BY <1>1, <2>1, Execution!TrailInvStep, Execution!WritesInvStep,
         Execution!NumbersInvStep, ConsoleAssumption, HalfAssumptions
    <2>2. CASE UNCHANGED executionVars /\ aborts' \in {aborts, aborts + 1}
      <3>1. UNCHANGED <<attempts, runs, recoveries, executionAudit, mockWrites,
                        executionPc, executionJob>>
        BY <2>2 DEF executionVars
      <3>2. QED
        BY <1>1, <2>2, <3>1, Execution!TrailsFrame, Execution!NumbersSame,
           ConsoleAssumption, HalfAssumptions
    <2>3. QED
      BY <1>1, <2>1, <2>2
  <1>4. QED
    BY <1>2, <1>3 DEF TrailsKept

\* However many sessions use the console and wherever handlers stop: every row of either
\* half has its audit event, every object at the mock provider its success in the
\* history, and every PaymentIntent its row, but for handlers between the two and for
\* those that stopped there; and no number is shared by more attempts than there are
\* sessions.
THEOREM TrailsInConsole ==
  Spec => [](/\ Intake!IntakeTrail /\ Intake!IntentsAreAccounted
             /\ Execution!AuditTrail /\ Execution!MockWritesAreAccounted
             /\ Execution!DuplicateNumbersAreBounded)
  <1>1. Init => TrailsKept
    BY Intake!TrailInvInit, Intake!IntentsInvInit, Execution!TrailInvInit,
       Execution!WritesInvInit, Execution!NumbersInvInit, ConsoleAssumption,
       HalfAssumptions
    DEF Init, TrailsKept
  <1>2. ConsoleSound /\ TrailsKept =>
          /\ Intake!IntakeTrail /\ Intake!IntentsAreAccounted
          /\ Execution!AuditTrail /\ Execution!MockWritesAreAccounted
          /\ Execution!DuplicateNumbersAreBounded
    BY Intake!TrailMeans, Intake!IntentsMean, Execution!TrailMeans, Execution!WritesMeans,
       Execution!NumbersMean, ConsoleAssumption, HalfAssumptions
    DEF ConsoleSound, Intake!IntakeSound, Execution!ExecutionSound, TrailsKept
  <1>3. ConsoleSound /\ TrailsKept /\ [Next]_vars => TrailsKept'
    BY TrailsStep
  <1>4. QED
    BY <1>1, <1>2, <1>3, ConsoleIsSound, PTL DEF Spec

\* A console of finitely many cases has finitely many requests.
LEMMA FiniteSlots ==
  ASSUME IsFiniteSet(Cases)
  PROVE  Execution!IsFiniteSet(RequestSlots)
  <1>1. Cardinality(Sessions) \in Nat
    BY ConsoleAssumption, FS_CardinalityType
  <1>2. IsFiniteSet(1 .. Cardinality(Sessions))
    BY <1>1, FS_Interval
  <1>3. IsFiniteSet(RequestSlots)
    BY <1>2, FS_Product DEF RequestSlots
  <1>4. QED
    BY <1>3 DEF IsFiniteSet, Execution!IsFiniteSet

\* In the whole console the figures of the dashboard agree with each other and with the
\* statuses below them at every moment: both halves may count stops, and only execution
\* writes what the figures count.
THEOREM DashboardInConsole ==
  ASSUME IsFiniteSet(Cases)
  PROVE  Spec => []Execution!DashboardIsConsistent
  <1>1. Init => Execution!DashboardInv
    BY Execution!DashboardInvInit, ConsoleAssumption, HalfAssumptions DEF Init
  <1>2. ConsoleSound /\ Execution!DashboardInv /\ [Next]_vars => Execution!DashboardInv'
    <2> SUFFICES ASSUME ConsoleSound, Execution!DashboardInv, [Next]_vars
                 PROVE  Execution!DashboardInv'
      OBVIOUS
    <2>1. CASE Execution!Next
      BY <2>1, HalvesMove, FiniteSlots, Execution!DashboardInvStep, ConsoleAssumption,
         HalfAssumptions
    <2>2. CASE UNCHANGED executionVars /\ aborts' \in {aborts, aborts + 1}
      <3>1. UNCHANGED <<request, attempts, runs, recoveries, executionPc, executionJob>>
        BY <2>2 DEF executionVars
      <3>2. QED
        BY <2>2, <3>1, HalvesMove, FiniteSlots, Execution!DashboardFrame, ConsoleAssumption,
           HalfAssumptions
    <2>3. QED
      BY <2>1, <2>2, HalvesMove
  <1>3. ConsoleSound /\ Execution!DashboardInv => Execution!DashboardIsConsistent
    BY FiniteSlots, Execution!DashboardMeans, ConsoleAssumption, HalfAssumptions
    DEF ConsoleSound
  <1>4. QED
    BY <1>1, <1>2, <1>3, ConsoleIsSound, PTL DEF Spec

-----------------------------------------------------------------------------
(* Any number of sessions whose handlers keep apart: of the intake, no two on *)
(* one case, and of the execution, no two on one request.  A handler of each  *)
(* may still be at work on the same case.                                     *)

SerialKept == Execution!SoloInv /\ Execution!OnceInv /\ Execution!QueueInv

LEMMA SerialInConsole ==
  Spec /\ []Execution!SerialHandlers => []SerialKept
  <1>1. Init => SerialKept
    BY Execution!SoloInvInit, Execution!OnceInvInit, Execution!QueueInit, ConsoleAssumption,
       HalfAssumptions
    DEF Init, SerialKept
  <1>2. Execution!SerialHandlers /\ ConsoleSound /\ SerialKept /\ [Next]_vars => SerialKept'
    <2> SUFFICES ASSUME Execution!SerialHandlers, ConsoleSound, SerialKept, [Next]_vars
                 PROVE  SerialKept'
      OBVIOUS
    <2>1. CASE Execution!Next
      BY <2>1, HalvesMove, Execution!SoloInvStep, Execution!OnceInvStep,
         Execution!QueueInvStep, ConsoleAssumption, HalfAssumptions
      DEF SerialKept
    <2>2. CASE UNCHANGED executionVars /\ aborts' \in {aborts, aborts + 1}
      <3>1. UNCHANGED <<request, attempts, runs, mockWrites, executionPc, executionJob>>
        BY <2>2 DEF executionVars
      <3>2. aborts' = 0 => aborts = 0
        BY <2>2 DEF ConsoleSound, Execution!ExecutionSound, Execution!TypeOK,
                    Execution!TablesOK
      <3>3. QED
        BY <3>1, <3>2, Execution!SoloFrame, Execution!QueueSame, ConsoleAssumption,
           HalfAssumptions
        DEF SerialKept
    <2>3. QED
      BY <2>1, <2>2, HalvesMove
  <1>3. QED
    BY <1>1, <1>2, ConsoleIsSound, PTL DEF Spec

\* In the whole console, with no two execution handlers on one request, only a transient
\* failure is tried again, attempts are numbered in order, and the mock provider creates
\* one object at most for a request.
THEOREM HistoryInConsole ==
  Spec /\ []Execution!SerialHandlers =>
    [](/\ Execution!OnlyTransientIsRetried /\ Execution!AttemptsAreNumbered
       /\ Execution!MockEffectOnce)
  <1>1. SerialKept =>
          /\ Execution!OnlyTransientIsRetried /\ Execution!AttemptsAreNumbered
          /\ Execution!MockEffectOnce
    BY Execution!OnceMeans, ConsoleAssumption, HalfAssumptions
    DEF SerialKept, Execution!SoloInv
  <1>2. QED
    BY <1>1, SerialInConsole, PTL

\* In the whole console, between handlers, the queues of the dashboard list all open work
\* but a success that a run about an earlier status hides: nothing the intake does takes
\* a request off them.
THEOREM QueueInConsole ==
  Spec /\ []Execution!SerialHandlers => []Execution!OpenWorkIsListed
  <1>1. ConsoleSound /\ SerialKept => Execution!OpenWorkIsListed
    BY Execution!QueueMeans, Execution!ExecutionSoundMeans, ConsoleAssumption,
       HalfAssumptions
    DEF ConsoleSound, SerialKept, Execution!ExecutionSound
  <1>2. QED
    BY <1>1, ConsoleIsSound, SerialInConsole, PTL

\* In the whole console, between handlers, who is told that a retry is allowed gets one.
THEOREM AdviceInConsole ==
  ASSUME MAX_RETRY_ATTEMPTS > 1
  PROVE  Spec /\ []Execution!SerialHandlers => []Execution!RetryAdviceHolds
  <1>1. Init => Execution!AdviceInv
    BY Execution!AdviceInit, ConsoleAssumption, HalfAssumptions DEF Init
  <1>2. Execution!SerialHandlers /\ ConsoleSound /\ SerialKept /\ Execution!AdviceInv
          /\ [Next]_vars => Execution!AdviceInv'
    <2> SUFFICES ASSUME Execution!SerialHandlers, ConsoleSound, SerialKept,
                        Execution!AdviceInv, [Next]_vars
                 PROVE  Execution!AdviceInv'
      OBVIOUS
    <2>1. CASE Execution!Next
      BY <2>1, HalvesMove, Execution!AdviceInvStep, ConsoleAssumption, HalfAssumptions
      DEF SerialKept
    <2>2. CASE UNCHANGED executionVars /\ aborts' \in {aborts, aborts + 1}
      <3>1. UNCHANGED <<request, attempts, executionPc, executionJob>>
        BY <2>2 DEF executionVars
      <3>2. aborts' = 0 => aborts = 0
        BY <2>2 DEF ConsoleSound, Execution!ExecutionSound, Execution!TypeOK,
                    Execution!TablesOK
      <3>3. QED
        BY <3>1, <3>2, Execution!AdviceSame, ConsoleAssumption, HalfAssumptions
    <2>3. QED
      BY <2>1, <2>2, HalvesMove
  <1>3. Execution!AdviceInv => Execution!RetryAdviceHolds
    BY Execution!AdviceMeans, ConsoleAssumption, HalfAssumptions
  <1>4. QED
    BY <1>1, <1>2, <1>3, ConsoleIsSound, SerialInConsole, PTL DEF Spec

\* In the whole console nothing touches a reconciled request, as long as no two execution
\* handlers work on it: neither half takes the status back.
THEOREM FinalInConsole ==
  Spec /\ []Execution!SerialHandlers => Execution!ReconciledIsFinal
  <1>1. ConsoleSound /\ SerialKept /\ [Next]_vars =>
          [\A r \in RequestSlots :
             request[r].status = "reconciled" => request'[r].status = "reconciled"]_(Execution!vars)
    <2> SUFFICES ASSUME ConsoleSound, SerialKept, [Next]_vars, NEW r \in RequestSlots,
                        request[r].status = "reconciled"
                 PROVE  request'[r].status = "reconciled"
      OBVIOUS
    <2>1. CASE Execution!Next
      BY <2>1, Execution!ReconciledStays, ConsoleAssumption, HalfAssumptions
      DEF SerialKept, ConsoleSound
    <2>2. CASE UNCHANGED executionVars
      BY <2>2 DEF executionVars
    <2>3. QED
      BY <2>1, <2>2, HalvesMove
  <1>2. QED
    BY <1>1, ConsoleIsSound, SerialInConsole, PTL DEF Spec, Execution!ReconciledIsFinal

\* In the whole console the execution half implements the lifecycle of a request, as long
\* as no two of its handlers work on one: the intake takes no step of it.
THEOREM LifecycleInConsole ==
  Spec /\ []Execution!SerialHandlers => Execution!ImplementsLifecycle
  <1>1. Init => Execution!Lifecycle!LifecycleInit
    BY Execution!LifecycleStart, ConsoleAssumption, HalfAssumptions DEF Init
  <1>2. Execution!SerialHandlers /\ ConsoleSound /\ SerialKept /\ [Next]_vars =>
          [Execution!Lifecycle!LifecycleNext]_(Execution!Lifecycle!lifecycleVars)
    <2> SUFFICES ASSUME Execution!SerialHandlers, ConsoleSound, SerialKept, [Next]_vars
                 PROVE  [Execution!Lifecycle!LifecycleNext]_(Execution!Lifecycle!lifecycleVars)
      OBVIOUS
    <2>1. CASE Execution!Next
      BY <2>1, HalvesMove, Execution!LifecycleStep, ConsoleAssumption, HalfAssumptions
      DEF SerialKept, ConsoleSound
    <2>2. CASE UNCHANGED executionVars
      BY <2>2, Execution!LifecycleSame, ConsoleAssumption, HalfAssumptions DEF executionVars
    <2>3. QED
      BY <2>1, <2>2, HalvesMove
  <1>3. QED
    BY <1>1, <1>2, ConsoleIsSound, SerialInConsole, PTL
    DEF Spec, Execution!ImplementsLifecycle, Execution!Lifecycle!LifecycleSpec

\* In the whole console the case never shows a decision that is not the latest one, and
\* never an execution as pending without a request, when no two intake handlers work on
\* one case: whatever execution, repeated policy and stopped handlers write to the same
\* column, and however the handlers of both halves interleave.
THEOREM DecisionTheorem ==
  Spec /\ []Intake!SerialHandlers => []CaseShowsDecision
  <1>1. Init => Intake!DecisionInv
    BY Intake!DecisionInvInit, ConsoleAssumption, HalfAssumptions DEF Init
  <1>2. Intake!SerialHandlers /\ ConsoleSound /\ Intake!DecisionInv /\ [Next]_vars
          => Intake!DecisionInv'
    <2>1. ASSUME Intake!SerialHandlers, ConsoleSound, Intake!DecisionInv,
                 NEW s \in Sessions, IntakeNext(s)
          PROVE  Intake!DecisionInv'
      <3>1. Intake!IntakeTypeOK /\ Intake!Next
        BY <2>1 DEF ConsoleSound, Intake!IntakeSound, IntakeNext, Intake!Next
      <3>2. QED
        BY <2>1, <3>1, Intake!DecisionInvStep, ConsoleAssumption, HalfAssumptions
    <2>2. ASSUME ConsoleSound, Intake!DecisionInv, UNCHANGED intakeVars,
                 \/ \E s \in Sessions : Execution!BeginHandler(s) \/ Execution!Step(s)
                                          \/ Execution!Abort(s)
                 \/ \E r \in RequestSlots : Execution!RefundSettles(r)
          PROVE  Intake!DecisionInv'
      <3>1. \A c \in Cases :
              \/ caseStatus'[c] = caseStatus[c]
              \/ caseStatus'[c] \in Execution!ExecutionOutcomes
        BY <2>2, Execution!CaseWritten, ConsoleAssumption, HalfAssumptions
        DEF ConsoleSound, Execution!ExecutionSound, Execution!Next
      <3>2. \A status \in Execution!ExecutionOutcomes :
              status \notin Intake!Decisions \cup {"execution_pending"}
        BY DEF Execution!ExecutionOutcomes, Intake!Decisions
      <3>3. QED
        BY <2>2, <3>1, <3>2, Intake!DecisionFrame, ConsoleAssumption, HalfAssumptions
        DEF intakeVars
    <2>3. ASSUME ConsoleSound, NEW s \in Sessions, ExecutionNext(s)
          PROVE  /\ UNCHANGED intakeVars
                 /\ Execution!BeginHandler(s) \/ Execution!Step(s) \/ Execution!Abort(s)
      BY <2>3, PanelsOffer DEF ExecutionNext
    <2>4. ASSUME Intake!DecisionInv, UNCHANGED vars
          PROVE  Intake!DecisionInv'
      BY <2>4, Intake!DecisionFrame, ConsoleAssumption, HalfAssumptions
      DEF vars, intakeVars
    <2>5. QED
      BY <2>1, <2>2, <2>3, <2>4 DEF Next
  <1>3. ConsoleSound /\ Intake!DecisionInv => CaseShowsDecision
    BY Intake!DecisionMeans, ConsoleAssumption, HalfAssumptions
    DEF ConsoleSound, Intake!IntakeSound, CaseShowsDecision
  <1>4. QED
    BY <1>1, <1>2, <1>3, ConsoleIsSound, PTL DEF Spec

\* The requests of a case as long as it has one at most.
FirstRequests == Cases \X {1}

LEMMA FirstSlots ==
  /\ FirstRequests \subseteq RequestSlots
  /\ \A r \in FirstRequests : [q \in RequestSlots |-> q[1]][r] = r[1] /\ r[1] \in Cases
  <1>1. Cardinality(Sessions) \in Nat \ {0}
    BY ConsoleAssumption, FS_CardinalityType, FS_EmptySet
  <1>2. FirstRequests \subseteq RequestSlots
    BY <1>1 DEF FirstRequests, RequestSlots
  <1>3. QED
    BY <1>2 DEF FirstRequests

LEMMA OneSlot ==
  ASSUME ConsoleSound, Intake!OneRequestInv
  PROVE  /\ \A r \in RequestSlots : Exists(r) => r = <<r[1], 1>>
         /\ Execution!OneRequestPerCase(FirstRequests)
         /\ Execution!WorkOn(FirstRequests)
  <1>1. \A r \in RequestSlots : Exists(r) => r = <<r[1], 1>> /\ r \in FirstRequests
    <2>1. ASSUME NEW c \in Cases, NEW k \in 1 .. Cardinality(Sessions), k <= Len(requests[c])
          PROVE  k = 1
      <3>1. Len(requests[c]) <= 1 /\ Len(requests[c]) \in Nat
        BY DEF Intake!OneRequestInv, Intake!OnlyRequest, ConsoleSound, Intake!IntakeSound,
               Intake!IntakeTypeOK, Intake!IntakeTablesOK
      <3>2. QED
        BY <2>1, <3>1
    <2>2. QED
      BY <2>1 DEF RequestSlots, Exists, FirstRequests
  <1>2. Execution!OneRequestPerCase(FirstRequests)
    BY FirstSlots DEF Execution!OneRequestPerCase, FirstRequests
  <1>3. Execution!WorkOn(FirstRequests)
    BY <1>1 DEF Execution!WorkOn, ConsoleSound, Execution!ExecutionSound, Execution!TypeOK,
                Execution!ControlOK
  <1>4. QED
    BY <1>1, <1>2, <1>3

\* No second request is created when no two intake handlers work on one case.
LEMMA OneRequestKept ==
  ASSUME Intake!SerialHandlers, ConsoleSound, Intake!OneRequestInv, [Next]_vars
  PROVE  Intake!OneRequestInv'
  <1>1. CASE Intake!Next
    BY <1>1, HalvesMove, Intake!OneRequestStep, ConsoleAssumption, HalfAssumptions
  <1>2. CASE UNCHANGED intakeVars
    BY <1>2, Intake!OneRequestFrame, ConsoleAssumption, HalfAssumptions DEF intakeVars
  <1>3. QED
    BY <1>1, <1>2, HalvesMove

LEMMA OneRequestTheorem ==
  Spec /\ []Intake!SerialHandlers => []Intake!OneRequestInv
  <1>1. Init => Intake!OneRequestInv
    BY Intake!OneRequestInit, ConsoleAssumption, HalfAssumptions DEF Init
  <1>2. QED
    BY <1>1, OneRequestKept, ConsoleIsSound, PTL DEF Spec

\* Duplicate clicks on the execution controls never make two requests of a case take
\* effect at a provider, as long as no two intake handlers work on the case: what
\* idempotency.py:4-6 promises, and what the two approvals of the violating run break.
THEOREM OneEffectTheorem ==
  Spec /\ []Intake!SerialHandlers => []OneEffectPerCase
  <1>1. ASSUME ConsoleSound, Intake!OneRequestInv, NEW c \in Cases
        PROVE  Cardinality({r \in RequestSlots :
                   r[1] = c /\ (mockWrites[r] > 0 \/ refund[r] # "none")}) <= 1
    <2> DEFINE effects == {r \in RequestSlots :
                              r[1] = c /\ (mockWrites[r] > 0 \/ refund[r] # "none")}
    <2>1. effects \subseteq {<<c, 1>>}
      BY <1>1, OneSlot DEF ConsoleSound, Touched
    <2>2. IsFiniteSet({<<c, 1>>}) /\ Cardinality({<<c, 1>>}) = 1
      BY FS_Singleton
    <2>3. Cardinality(effects) <= Cardinality({<<c, 1>>})
      BY <2>1, <2>2, FS_Subset
    <2>4. QED
      BY <2>2, <2>3
  <1>2. ConsoleSound /\ Intake!OneRequestInv => OneEffectPerCase
    BY <1>1 DEF OneEffectPerCase
  <1>3. QED
    BY <1>2, ConsoleIsSound, OneRequestTheorem, PTL

CaseLag == Execution!LagInv(FirstRequests, Intake!IntakeStatuses)

\* The intake writes over an outcome with a status of its own only.
LEMMA CaseLagFrame ==
  ASSUME ConsoleSound, CaseLag, UNCHANGED executionVars, aborts' \in {aborts, aborts + 1},
         \A c \in Cases : \/ caseStatus'[c] = caseStatus[c]
                          \/ caseStatus'[c] \in Intake!IntakeStatuses
  PROVE  CaseLag'
  <1> DEFINE hidden == Intake!IntakeStatuses
             caseOf == [r \in RequestSlots |-> r[1]]
  <1>1. \A r \in FirstRequests : \/ caseStatus'[caseOf[r]] = caseStatus[caseOf[r]]
                                 \/ caseStatus'[caseOf[r]] \in hidden
    BY FirstSlots
  <1>2. aborts \in Nat
    BY DEF ConsoleSound, Intake!IntakeSound, Intake!IntakeTypeOK, Intake!IntakeTablesOK
  <1>3. UNCHANGED <<request, executionPc, executionJob>>
    BY DEF executionVars
  <1>4. hidden' = hidden
    BY DEF Intake!IntakeStatuses
  <1>5. Execution!LagInv(FirstRequests, hidden)
    BY DEF CaseLag
  <1> HIDE DEF hidden
  <1>6. Execution!LagInv(FirstRequests, hidden)'
    BY <1>1, <1>2, <1>3, <1>4, <1>5, Execution!LagFrame, ConsoleAssumption, HalfAssumptions
  <1>7. QED
    BY <1>6 DEF CaseLag, hidden

LEMMA CaseLagStep ==
  ASSUME Execution!SerialHandlers, Intake!OneRequestInv, ConsoleSound, CaseLag, [Next]_vars
  PROVE  CaseLag'
  <1>1. ASSUME NEW s \in Sessions, IntakeNext(s)
        PROVE  CaseLag'
    <2>1. /\ Intake!BeginHandler(s) \/ Intake!Step(s) \/ Intake!Abort(s)
          /\ UNCHANGED executionVars
          /\ Intake!IntakeSound /\ Intake!IntakeTypeOK
      BY <1>1 DEF IntakeNext, ConsoleSound, Intake!IntakeSound
    <2>2. \A c \in Cases : \/ caseStatus'[c] = caseStatus[c]
                           \/ caseStatus'[c] \in Intake!IntakeStatuses
      BY <2>1, Intake!IntakeCaseWritten, ConsoleAssumption, HalfAssumptions
    <2>3. aborts' \in {aborts, aborts + 1}
      BY <2>1, IntakeCountsStops
    <2>4. QED
      BY <2>1, <2>2, <2>3, CaseLagFrame
  <1>2. ASSUME Execution!Next
        PROVE  CaseLag'
    BY <1>2, OneSlot, Execution!LagInvStep, ConsoleAssumption, HalfAssumptions
    DEF CaseLag, ConsoleSound, Execution!ExecutionSound
  <1>3. ASSUME NEW s \in Sessions, ExecutionNext(s)
        PROVE  Execution!Next
    BY <1>3, PanelsOffer DEF ExecutionNext, Execution!Next
  <1>4. CASE UNCHANGED vars
    BY <1>4, CaseLagFrame DEF vars
  <1>5. QED
    BY <1>1, <1>2, <1>3, <1>4 DEF Next, Execution!Next

\* Between handlers a case shows of an execution what its latest request says, or a
\* status of the intake, when no two handlers of one half work on the same case and no
\* handler stopped midway: no interleaving of the two halves makes it show another
\* outcome.
THEOREM CaseInConsole ==
  Spec /\ []Intake!SerialHandlers /\ []Execution!SerialHandlers => []CaseShowsExecution
  <1>1. Init => CaseLag
    <2>1. ASSUME Init
          PROVE  \A c \in Cases : caseStatus[c] \in Intake!IntakeStatuses
      BY <2>1, ConsoleAssumption DEF Init, Intake!Init, Intake!IntakeStatuses
    <2>2. ASSUME Init
          PROVE  CaseLag
      BY <2>1, <2>2, FirstSlots, Execution!LagInit, ConsoleAssumption, HalfAssumptions
      DEF Init, CaseLag
    <2>3. QED
      BY <2>2
  <1>2. ConsoleSound /\ Intake!OneRequestInv /\ CaseLag => CaseShowsExecution
    <2> SUFFICES ASSUME ConsoleSound, Intake!OneRequestInv, CaseLag, aborts = 0,
                        \A s \in Sessions : intakePc[s] = "idle" /\ executionPc[s] = "idle",
                        NEW c \in Cases,
                        caseStatus[c] \in {"processing", "retrying", "succeeded", "failed",
                           "reconciled", "needs_manual_review", "manually_resolved", "cancelled"}
                 PROVE  \E r \in LatestRequests(c) :
                          caseStatus[c] =
                            IF request[r].status \in {"failed_transient", "failed_permanent"}
                            THEN "failed" ELSE request[r].status
      BY DEF CaseShowsExecution
    <2> DEFINE r == <<c, 1>>
    <2>1. r \in FirstRequests /\ r \in RequestSlots /\ [q \in RequestSlots |-> q[1]][r] = c
      BY FirstSlots DEF FirstRequests
    <2>2. caseStatus[c] \notin Intake!IntakeStatuses
      BY DEF Intake!IntakeStatuses
    <2>3. caseStatus[c] = Execution!CaseShown(request[r].status)
      BY <2>1, <2>2, Execution!LagMeans, ConsoleAssumption, HalfAssumptions DEF CaseLag
    <2>4. caseStatus[c] = IF request[r].status \in {"failed_transient", "failed_permanent"}
                          THEN "failed" ELSE request[r].status
      BY <2>3 DEF Execution!CaseShown
    <2>5. Touched(r)
      BY <2>4 DEF Touched
    <2>6. r \in LatestRequests(c)
      <3>1. Len(requests[c]) \in Nat /\ 1 <= Len(requests[c])
        <4>1. requests[c] \in Seq(Intake!RequestRows)
          BY DEF ConsoleSound, Intake!IntakeSound, Intake!IntakeTypeOK, Intake!IntakeTablesOK
        <4>2. Exists(r)
          BY <2>1, <2>5 DEF ConsoleSound
        <4>3. 1 <= Len(requests[c])
          BY <4>2 DEF Exists
        <4>4. Len(requests[c]) \in Nat
          BY <4>1
        <4>5. QED
          BY <4>3, <4>4
      <3>2. Len(requests[c]) = 1
        <4>1. Len(requests[c]) <= 1
          BY DEF Intake!OneRequestInv, Intake!OnlyRequest
        <4>2. \A n \in Nat : 1 <= n /\ n <= 1 => n = 1
          OBVIOUS
        <4>3. QED
          BY <3>1, <4>1, <4>2, Zenon
      <3>3. QED
        BY <3>1, <3>2 DEF LatestRequests, Intake!Latest
    <2>7. QED
      BY <2>4, <2>6
  <1>3. Execution!SerialHandlers /\ Intake!OneRequestInv /\ ConsoleSound /\ CaseLag
          /\ [Next]_vars => CaseLag'
    BY CaseLagStep
  <1>4. QED
    BY <1>1, <1>2, <1>3, ConsoleIsSound, OneRequestTheorem, PTL DEF Spec
=============================================================================
