----------------------------- MODULE IntakeProofs -----------------------------
(***************************************************************************)
(* Proofs about CaseIntake, for every number of sessions and cases, every  *)
(* threshold, every set of amounts and every number of stops.              *)
(***************************************************************************)
EXTENDS IntakeProperties, FiniteSetTheorems, TLAPS

-----------------------------------------------------------------------------
(* Type correctness                                                          *)

LEMMA BriefTypes ==
  /\ MockBrief \in BriefRows /\ FallbackBrief \in BriefRows
  /\ \A list \in ModelLists : NormalizeBrief(list) \in BriefRows
  BY DEF MockBrief, FallbackBrief, NormalizeBrief, Brief, BriefRows, ModelLists,
         EnsureStringList

LEMMA IntakeLocalsType ==
  ASSUME NEW c \in Cases \cup {"none"}, NEW form \in Forms, NEW outcome \in Outcomes \cup {"none"},
         NEW approval \in Nat
  PROVE  /\ Locals(c, form, outcome, approval) \in IntakeJobs
         /\ Locals(c, form, outcome, approval).case = c
         /\ Locals(c, form, outcome, approval).form = form
         /\ Locals(c, form, outcome, approval).outcome = outcome
  BY BriefTypes DEF Locals, IntakeJobs

LEMMA NoFormType == NoForm \in Forms /\ NoJob \in IntakeJobs
  <1>1. NoForm \in Forms
    BY DEF NoForm, Form, Forms
  <1>2. QED
    BY <1>1, IntakeLocalsType DEF NoJob

\* A decision as it is typed into the form.
LEMMA FormType ==
  ASSUME NEW role \in Roles, NEW decision \in Decisions, NEW action \in FormActions,
         NEW amount \in Amounts
  PROVE  /\ Form(role, decision, action, amount) \in Forms
         /\ Form(role, decision, action, amount) \in
              [role : Roles, decision : Decisions, action : Actions, amount : Amounts]
  BY AmountsAssumption DEF Form, Forms

LEMMA PolicyTypes ==
  /\ \A data : EvaluatePolicy(data) \in Outcomes
  /\ \A outcome \in Outcomes :
        CaseStatusForOutcome(outcome) \in {"pending_approval", "under_review", "blocked"}
  BY DEF EvaluatePolicy, Outcomes, CaseStatusForOutcome

\* The approvals of a case are only added to.
ApprovalsGrow ==
    \A c \in Cases : \A i \in 1 .. Len(approvals[c]) :
        i \in 1 .. Len(approvals'[c]) /\ approvals'[c][i] = approvals[c][i]

\* What a step changes of the control: one session, whose new locals suit its step.
LEMMA ControlStep ==
  ASSUME IntakeTypeOK, ApprovalsGrow, NEW s \in Sessions,
         NEW there \in Steps \cup {"idle"}, pc' = [pc EXCEPT ![s] = there],
         NEW new \in IntakeJobs, job' = [job EXCEPT ![s] = new],
         HandlerOK(s)'
  PROVE  IntakeControlOK'
  <1>1. pc' \in [Sessions -> Steps \cup {"idle"}] /\ job' \in [Sessions -> IntakeJobs]
    BY DEF IntakeTypeOK, IntakeControlOK
  <1>2. ASSUME NEW t \in Sessions, t # s
        PROVE  HandlerOK(t)'
    <2>1. pc'[t] = pc[t] /\ job'[t] = job[t] /\ HandlerOK(t)
      BY <1>2 DEF IntakeTypeOK, IntakeControlOK
    <2>2. QED
      BY <2>1 DEF HandlerOK, ApprovalsGrow
  <1>3. QED
    BY <1>1, <1>2 DEF IntakeControlOK

RequestsNameApprovals ==
    \A c \in Cases : \A k \in 1 .. Len(requests[c]) :
        requests[c][k].approval \in 1 .. Len(approvals[c])

\* Tables a step leaves alone keep their type.
LEMMA TablesUnchanged ==
  ASSUME IntakeTypeOK, UNCHANGED Tables
  PROVE  IntakeTablesOK' /\ ApprovalsGrow /\ RequestsNameApprovals'
  BY DEF Tables, IntakeTypeOK, IntakeTablesOK, ApprovalsGrow, RequestsNameApprovals

LEMMA CaseStatusUpdated ==
  ASSUME IntakeTypeOK, NEW c \in Cases,
         NEW status \in CaseStatuses, UpdateCaseStatus(c, status)
  PROVE  IntakeTablesOK' /\ ApprovalsGrow /\ RequestsNameApprovals'
  BY DEF UpdateCaseStatus, IntakeTypeOK, IntakeTablesOK, ApprovalsGrow, RequestsNameApprovals

LEMMA EventRecorded ==
  ASSUME IntakeTypeOK, NEW c \in Cases, NEW event \in Events, RecordEvent(c, event)
  PROVE  IntakeTablesOK' /\ ApprovalsGrow /\ RequestsNameApprovals'
  BY DEF RecordEvent, IntakeTypeOK, IntakeTablesOK, ApprovalsGrow, RequestsNameApprovals

LEMMA ProceedStep ==
  ASSUME IntakeTypeOK, ApprovalsGrow, NEW s \in Sessions, NEW here \in Steps,
         NEW there \in Steps \cup {"idle"}, Proceed(s, here, there),
         there = "policy_case" => here = "store_policy",
         there = "approval_case" => here = "store_approval",
         there \notin {"store_policy", "store_approval", "store_payment", "check_request"},
         there \in {"store_request", "request_case", "audit_request"} =>
            here \in {"check_request", "store_request", "request_case"}
  PROVE  IntakeControlOK'
  <1>1. /\ pc[s] = here /\ pc' = [pc EXCEPT ![s] = there]
        /\ job' = [job EXCEPT ![s] = IF there = "idle" THEN NoJob ELSE job[s]]
    BY DEF Proceed, Move
  <1>2. /\ HandlerOK(s) /\ job[s] \in IntakeJobs /\ here # "idle"
        /\ pc \in [Sessions -> Steps \cup {"idle"}] /\ job \in [Sessions -> IntakeJobs]
    BY <1>1 DEF IntakeTypeOK, IntakeControlOK, Steps
  <1>3. (IF there = "idle" THEN NoJob ELSE job[s]) \in IntakeJobs
    BY <1>2, NoFormType
  <1>4. pc'[s] = there /\ (there # "idle" => job'[s] = job[s])
    BY <1>1, <1>2
  <1>5. ASSUME there \in {"store_request", "request_case", "audit_request"}
        PROVE  job[s].approval \in 1 .. Len(approvals'[job[s].case])
    <2>1. job[s].case \in Cases /\ job[s].approval \in 1 .. Len(approvals[job[s].case])
      BY <1>1, <1>2, <1>5 DEF HandlerOK
    <2>2. QED
      BY <2>1 DEF ApprovalsGrow
  <1>6. HandlerOK(s)'
    BY <1>1, <1>2, <1>4, <1>5 DEF HandlerOK
  <1>7. QED
    BY <1>1, <1>3, <1>6, ControlStep

\* A handler begins without touching a table.
LEMMA IntakeBeginType ==
  ASSUME IntakeTypeOK, NEW s \in Sessions, BeginHandler(s)
  PROVE  IntakeTypeOK'
  <1>1. PICK c \in Cases :
          \/ BeginBrief(s, c) \/ BeginEvaluate(s, c) \/ BeginPrepare(s, c) \/ BeginCreate(s, c)
          \/ \E role \in Roles, decision \in Decisions, action \in FormActions,
                amount \in Amounts :
                BeginApprove(s, c, Form(role, decision, action, amount))
    BY DEF BeginHandler
  <1>2. ASSUME NEW first \in {"call_brief", "store_policy", "store_approval", "call_payment",
                              "read_approval"},
               NEW form \in Forms, NEW outcome \in Outcomes \cup {"none"},
               Begin(s, first, Locals(c, form, outcome, 0)),
               first \in {"store_policy", "store_approval"} => outcome \in Outcomes,
               first = "store_approval" =>
                 form \in [role : Roles, decision : Decisions, action : Actions, amount : Amounts]
        PROVE  IntakeTypeOK'
    <2> DEFINE new == Locals(c, form, outcome, 0)
    <2>1. /\ new \in IntakeJobs /\ new.case = c /\ new.form = form /\ new.outcome = outcome
      BY IntakeLocalsType
    <2> HIDE DEF new
    <2>2. /\ pc' = [pc EXCEPT ![s] = first] /\ job' = [job EXCEPT ![s] = new]
          /\ UNCHANGED Tables
      BY <1>2 DEF Begin, new
    <2>3. pc'[s] = first /\ job'[s] = new
      BY <2>2 DEF IntakeTypeOK, IntakeControlOK
    <2>4. HandlerOK(s)'
      BY <1>2, <2>1, <2>3 DEF HandlerOK
    <2>5. IntakeTablesOK' /\ ApprovalsGrow /\ RequestsNameApprovals'
      BY <2>2, TablesUnchanged
    <2>6. IntakeControlOK'
      BY <2>1, <2>2, <2>4, <2>5, ControlStep DEF Steps
    <2>7. QED
      BY <2>5, <2>6 DEF IntakeTypeOK, RequestsNameApprovals
  <1>3. CASE BeginBrief(s, c) \/ BeginPrepare(s, c) \/ BeginCreate(s, c)
    BY <1>2, <1>3, NoFormType DEF BeginBrief, BeginPrepare, BeginCreate
  <1>4. CASE BeginEvaluate(s, c)
    BY <1>2, <1>4, NoFormType, PolicyTypes DEF BeginEvaluate
  <1>5. ASSUME NEW role \in Roles, NEW decision \in Decisions, NEW action \in FormActions,
               NEW amount \in Amounts,
               BeginApprove(s, c, Form(role, decision, action, amount))
        PROVE  IntakeTypeOK'
    <2>1. PICK i \in 1 .. Len(evaluations[c]) :
            Begin(s, "store_approval",
                  Locals(c, Form(role, decision, action, amount), evaluations[c][i], 0))
      BY <1>5 DEF BeginApprove
    <2>2. evaluations[c][i] \in Outcomes
      BY DEF IntakeTypeOK, IntakeTablesOK
    <2>3. QED
      BY <1>2, <2>1, <2>2, FormType
  <1>6. QED
    BY <1>1, <1>3, <1>4, <1>5

LEMMA BriefStepType ==
  ASSUME IntakeTypeOK, NEW s \in Sessions, CallBrief(s) \/ StoreBrief(s) \/ AuditBrief(s)
  PROVE  IntakeTypeOK'
  <1>0. /\ pc[s] # "idle" => job[s].case \in Cases
        /\ job[s] \in IntakeJobs /\ job[s].brief \in BriefRows
        /\ pc \in [Sessions -> Steps \cup {"idle"}] /\ job \in [Sessions -> IntakeJobs]
    BY DEF IntakeTypeOK, IntakeControlOK, HandlerOK, IntakeJobs
  <1>1. CASE CallBrief(s)
    <2>1. PICK brief \in {MockBrief, FallbackBrief} \cup
                         {NormalizeBrief(risk_notes) : risk_notes \in ModelLists} :
            job' = [job EXCEPT ![s].brief = brief]
      BY <1>1 DEF CallBrief
    <2> DEFINE new == [job[s] EXCEPT !.brief = brief]
    <2>2. new \in IntakeJobs /\ job' = [job EXCEPT ![s] = new] /\ new.case = job[s].case
      BY <1>0, <2>1, BriefTypes DEF IntakeJobs
    <2> HIDE DEF new
    <2>3. /\ pc[s] = "call_brief" /\ pc' = [pc EXCEPT ![s] = "store_brief"]
          /\ UNCHANGED Tables
      BY <1>1 DEF CallBrief, Move
    <2>4. HandlerOK(s)'
      BY <1>0, <2>2, <2>3 DEF HandlerOK
    <2>5. QED
      BY <2>2, <2>3, <2>4, TablesUnchanged, ControlStep
      DEF Steps, IntakeTypeOK, RequestsNameApprovals
  <1>2. CASE StoreBrief(s)
    <2>1. /\ Proceed(s, "store_brief", "audit_brief") /\ pc[s] = "store_brief"
          /\ briefs' = [briefs EXCEPT ![job[s].case] = Append(@, job[s].brief)]
          /\ UNCHANGED <<caseData, caseStatus, evaluations, approvals, payments, requests,
                         intents, audit, aborts>>
      BY <1>2 DEF StoreBrief, Proceed, Move
    <2>2. briefs' \in [Cases -> Seq(BriefRows)]
      BY <1>0, <2>1 DEF IntakeTypeOK, IntakeTablesOK
    <2>3. IntakeTablesOK' /\ ApprovalsGrow /\ RequestsNameApprovals'
      BY <2>1, <2>2
      DEF IntakeTypeOK, IntakeTablesOK, ApprovalsGrow, RequestsNameApprovals
    <2>4. QED
      BY <2>1, <2>3, ProceedStep DEF Steps, IntakeTypeOK, RequestsNameApprovals
  <1>3. CASE AuditBrief(s)
    <2>1. /\ Proceed(s, "audit_brief", "idle") /\ pc[s] = "audit_brief"
          /\ RecordEvent(job[s].case, "brief")
      BY <1>3 DEF AuditBrief, Proceed, Move
    <2>2. IntakeTablesOK' /\ ApprovalsGrow /\ RequestsNameApprovals'
      BY <1>0, <2>1, EventRecorded DEF Events
    <2>3. QED
      BY <2>1, <2>2, ProceedStep DEF Steps, IntakeTypeOK, RequestsNameApprovals
  <1>4. QED
    BY <1>1, <1>2, <1>3

\* A step that only changes the status of the case or records an event.
LEMMA PlainStepType ==
  ASSUME IntakeTypeOK, NEW s \in Sessions,
         \/ PolicyCase(s) \/ AuditPolicy(s) \/ ApprovalCase(s) \/ AuditApproval(s)
         \/ AuditPayment(s) \/ RequestCase(s) \/ AuditRequest(s)
  PROVE  IntakeTypeOK'
  <1>0. HandlerOK(s)
    BY DEF IntakeTypeOK, IntakeControlOK
  <1>1. ASSUME IntakeTablesOK', ApprovalsGrow, RequestsNameApprovals', IntakeControlOK'
        PROVE  IntakeTypeOK'
    BY <1>1 DEF IntakeTypeOK, RequestsNameApprovals
  <1>2. CASE PolicyCase(s)
    <2>1. pc[s] = "policy_case" /\ job[s].case \in Cases /\ job[s].outcome \in Outcomes
      BY <1>0, <1>2 DEF PolicyCase, Proceed, Move, HandlerOK
    <2>2. QED
      BY <1>1, <1>2, <2>1, PolicyTypes, CaseStatusUpdated, ProceedStep
      DEF PolicyCase, Steps, CaseStatuses
  <1>3. CASE ApprovalCase(s)
    <2>1. /\ pc[s] = "approval_case" /\ job[s].case \in Cases
          /\ job[s].form.decision \in {"approved", "rejected"}
      BY <1>0, <1>3 DEF ApprovalCase, Proceed, Move, HandlerOK, Decisions
    <2>2. QED
      BY <1>1, <1>3, <2>1, CaseStatusUpdated, ProceedStep DEF ApprovalCase, Steps, CaseStatuses
  <1>4. CASE RequestCase(s)
    <2>1. pc[s] = "request_case" /\ job[s].case \in Cases
      BY <1>0, <1>4 DEF RequestCase, Proceed, Move, HandlerOK
    <2>2. QED
      BY <1>1, <1>4, <2>1, CaseStatusUpdated, ProceedStep DEF RequestCase, Steps, CaseStatuses
  <1>5. CASE AuditPolicy(s) \/ AuditApproval(s) \/ AuditPayment(s) \/ AuditRequest(s)
    <2>1. PICK here \in Steps, event \in Events :
            Proceed(s, here, "idle") /\ RecordEvent(job[s].case, event)
      BY <1>5 DEF AuditPolicy, AuditApproval, AuditPayment, AuditRequest, Steps, Events
    <2>2. job[s].case \in Cases
      BY <1>0, <2>1 DEF Proceed, Move, HandlerOK, Steps
    <2>3. QED
      BY <1>1, <2>1, <2>2, EventRecorded, ProceedStep
  <1>6. QED
    BY <1>2, <1>3, <1>4, <1>5

LEMMA StorePolicyType ==
  ASSUME IntakeTypeOK, NEW s \in Sessions, StorePolicy(s)
  PROVE  IntakeTypeOK'
  <1>1. /\ Proceed(s, "store_policy", "policy_case") /\ pc[s] = "store_policy"
        /\ evaluations' = [evaluations EXCEPT ![job[s].case] = Append(@, job[s].outcome)]
        /\ UNCHANGED <<caseData, caseStatus, briefs, approvals, payments, requests, intents,
                       audit, aborts>>
    BY DEF StorePolicy, Proceed, Move
  <1>2. job[s].case \in Cases /\ job[s].outcome \in Outcomes
    BY <1>1 DEF IntakeTypeOK, IntakeControlOK, HandlerOK
  <1>3. evaluations' \in [Cases -> Seq(Outcomes)]
    BY <1>1, <1>2 DEF IntakeTypeOK, IntakeTablesOK
  <1>4. IntakeTablesOK' /\ ApprovalsGrow /\ RequestsNameApprovals'
    BY <1>1, <1>3 DEF IntakeTypeOK, IntakeTablesOK, ApprovalsGrow, RequestsNameApprovals
  <1>5. QED
    BY <1>1, <1>4, ProceedStep DEF Steps, IntakeTypeOK, RequestsNameApprovals

\* The decision that is stored, and that the others stay as they are.
LEMMA ApprovalAppended ==
  ASSUME IntakeTypeOK, NEW s \in Sessions, StoreApproval(s)
  PROVE  /\ pc[s] = "store_approval" /\ job[s].case \in Cases
         /\ \E row \in ApprovalRows :
              /\ approvals' = [approvals EXCEPT ![job[s].case] = Append(@, row)]
              /\ row.outcome = job[s].outcome /\ row.role = job[s].form.role
         /\ approvals' \in [Cases -> Seq(ApprovalRows)] /\ ApprovalsGrow
  <1>1. pc[s] = "store_approval"
    BY DEF StoreApproval, Proceed, Move
  <1>2. /\ job[s].case \in Cases /\ job[s].outcome \in Outcomes
        /\ job[s].form \in [role : Roles, decision : Decisions, action : Actions,
                            amount : Amounts]
        /\ approvals \in [Cases -> Seq(ApprovalRows)]
    BY <1>1 DEF IntakeTypeOK, IntakeTablesOK, IntakeControlOK, HandlerOK
  <1>3. PICK tied \in Ties(approvals[job[s].case]) :
          approvals' = [approvals EXCEPT ![job[s].case] = Append(@,
            [outcome |-> job[s].outcome, role |-> job[s].form.role,
             decision |-> job[s].form.decision, action |-> job[s].form.action,
             amount |-> job[s].form.amount, tied |-> tied])]
    BY DEF StoreApproval
  <1> DEFINE row == [outcome |-> job[s].outcome, role |-> job[s].form.role,
             decision |-> job[s].form.decision, action |-> job[s].form.action,
             amount |-> job[s].form.amount, tied |-> tied]
  <1>4. row \in ApprovalRows /\ row.outcome = job[s].outcome /\ row.role = job[s].form.role
    BY <1>2, <1>3 DEF ApprovalRows, Ties
  <1>5. approvals' = [approvals EXCEPT ![job[s].case] = Append(@, row)]
    BY <1>3
  <1> HIDE DEF row
  <1>6. approvals' \in [Cases -> Seq(ApprovalRows)]
    BY <1>2, <1>4, <1>5
  <1>7. ApprovalsGrow
    BY <1>2, <1>4, <1>5 DEF ApprovalsGrow
  <1>8. QED
    BY <1>1, <1>2, <1>4, <1>5, <1>6, <1>7

LEMMA StoreApprovalType ==
  ASSUME IntakeTypeOK, NEW s \in Sessions, StoreApproval(s)
  PROVE  IntakeTypeOK'
  <1>1. /\ Proceed(s, "store_approval", "approval_case")
        /\ UNCHANGED <<caseData, caseStatus, briefs, evaluations, payments, requests,
                       intents, audit, aborts>>
    BY DEF StoreApproval
  <1>2. approvals' \in [Cases -> Seq(ApprovalRows)] /\ ApprovalsGrow
    BY ApprovalAppended
  <1>3. IntakeTablesOK' /\ RequestsNameApprovals'
    BY <1>1, <1>2
    DEF IntakeTypeOK, IntakeTablesOK, ApprovalsGrow, RequestsNameApprovals
  <1>4. QED
    BY <1>1, <1>2, <1>3, ProceedStep DEF Steps, IntakeTypeOK, RequestsNameApprovals

LEMMA PaymentStepType ==
  ASSUME IntakeTypeOK, NEW s \in Sessions, CallPayment(s) \/ StorePayment(s)
  PROVE  IntakeTypeOK'
  <1>0. /\ HandlerOK(s) /\ job[s] \in IntakeJobs
        /\ pc \in [Sessions -> Steps \cup {"idle"}] /\ job \in [Sessions -> IntakeJobs]
        /\ intents \in [Cases -> Nat] /\ payments \in [Cases -> Seq(PaymentRows)]
    BY DEF IntakeTypeOK, IntakeControlOK, IntakeTablesOK
  <1>1. CASE CallPayment(s)
    <2>1. /\ pc[s] = "call_payment" /\ pc' = [pc EXCEPT ![s] = "store_payment"]
          /\ UNCHANGED <<caseData, caseStatus, briefs, evaluations, approvals, payments,
                         requests, audit, aborts>>
          /\ job[s].case \in Cases
      BY <1>0, <1>1 DEF CallPayment, Move, HandlerOK
    <2>2. PICK source \in Sources : job' = [job EXCEPT ![s].source = source]
      BY <1>1 DEF CallPayment, Sources
    <2>3. intents' \in [Cases -> Nat]
      <3>1. \/ intents' = intents
            \/ intents' = [intents EXCEPT ![job[s].case] = @ + 1]
        BY <1>1 DEF CallPayment
      <3>2. QED
        BY <1>0, <2>1, <3>1
    <2>4. IntakeTablesOK' /\ ApprovalsGrow /\ RequestsNameApprovals'
      BY <2>1, <2>3 DEF IntakeTypeOK, IntakeTablesOK, ApprovalsGrow, RequestsNameApprovals
    <2> DEFINE new == [job[s] EXCEPT !.source = source]
    <2>5. /\ new \in IntakeJobs /\ job' = [job EXCEPT ![s] = new]
          /\ new.case = job[s].case /\ new.source = source
      BY <1>0, <2>2 DEF IntakeJobs
    <2> HIDE DEF new
    <2>6. HandlerOK(s)'
      BY <1>0, <2>1, <2>5 DEF HandlerOK
    <2>7. QED
      BY <2>1, <2>4, <2>5, <2>6, ControlStep DEF Steps, IntakeTypeOK, RequestsNameApprovals
  <1>2. CASE StorePayment(s)
    <2>1. /\ Proceed(s, "store_payment", "audit_payment") /\ pc[s] = "store_payment"
          /\ PaymentStored(job[s].case, job[s].source)
          /\ UNCHANGED <<caseData, caseStatus, briefs, evaluations, approvals, requests,
                         intents, audit, aborts>>
      BY <1>2 DEF StorePayment, Proceed, Move
    <2>2. job[s].case \in Cases /\ job[s].source \in Sources
      BY <1>0, <2>1 DEF HandlerOK
    <2>3. PICK tied \in BOOLEAN :
            payments' = [payments EXCEPT ![job[s].case] =
                           Append(@, [source |-> job[s].source, tied |-> tied])]
      BY <2>1 DEF PaymentStored, Ties
    <2>4. [source |-> job[s].source, tied |-> tied] \in PaymentRows
      BY <2>2 DEF PaymentRows
    <2>5. payments' \in [Cases -> Seq(PaymentRows)]
      BY <1>0, <2>2, <2>3, <2>4
    <2>6. IntakeTablesOK' /\ ApprovalsGrow /\ RequestsNameApprovals'
      BY <2>1, <2>5 DEF IntakeTypeOK, IntakeTablesOK, ApprovalsGrow, RequestsNameApprovals
    <2>7. QED
      BY <2>1, <2>6, ProceedStep DEF Steps, IntakeTypeOK, RequestsNameApprovals
  <1>3. QED
    BY <1>1, <1>2

\* An approval that was read is one of the case's.
LEMMA ReadApprovalType ==
  ASSUME IntakeTypeOK, NEW s \in Sessions, ReadApproval(s)
  PROVE  IntakeTypeOK'
  <1>0. /\ HandlerOK(s) /\ job[s] \in IntakeJobs /\ pc[s] = "read_approval"
        /\ pc \in [Sessions -> Steps \cup {"idle"}] /\ job \in [Sessions -> IntakeJobs]
    BY DEF IntakeTypeOK, IntakeControlOK, ReadApproval
  <1>1. job[s].case \in Cases
    BY <1>0 DEF HandlerOK
  <1>2. PICK i \in LatestApprovals(job[s].case) :
          \/ /\ Move(s, "read_approval", "check_request")
             /\ job' = [job EXCEPT ![s].approval = i]
          \/ Proceed(s, "read_approval", "idle")
    BY DEF ReadApproval
  <1>3. i \in 1 .. Len(approvals[job[s].case]) /\ i \in Nat
    BY <1>1 DEF LatestApprovals, Latest, IntakeTypeOK, IntakeTablesOK
  <1>4. IntakeTablesOK' /\ ApprovalsGrow /\ RequestsNameApprovals' /\ UNCHANGED approvals
    BY TablesUnchanged DEF ReadApproval, Tables
  <1>5. CASE Move(s, "read_approval", "check_request") /\ job' = [job EXCEPT ![s].approval = i]
    <2> DEFINE new == [job[s] EXCEPT !.approval = i]
    <2>1. /\ new \in IntakeJobs /\ job' = [job EXCEPT ![s] = new]
          /\ new.case = job[s].case /\ new.approval = i
      BY <1>0, <1>3, <1>5 DEF IntakeJobs
    <2> HIDE DEF new
    <2>2. HandlerOK(s)'
      BY <1>0, <1>1, <1>3, <1>4, <1>5, <2>1 DEF HandlerOK, Move
    <2>3. QED
      BY <1>4, <1>5, <2>1, <2>2, ControlStep DEF Move, Steps, IntakeTypeOK, RequestsNameApprovals
  <1>6. CASE Proceed(s, "read_approval", "idle")
    BY <1>4, <1>6, ProceedStep DEF Steps, IntakeTypeOK, RequestsNameApprovals
  <1>7. QED
    BY <1>2, <1>5, <1>6

LEMMA CheckRequestType ==
  ASSUME IntakeTypeOK, NEW s \in Sessions, CheckRequest(s)
  PROVE  IntakeTypeOK'
  <1>1. IntakeTablesOK' /\ ApprovalsGrow /\ RequestsNameApprovals'
    BY TablesUnchanged DEF CheckRequest
  <1>2. \/ Proceed(s, "check_request", "idle")
        \/ Proceed(s, "check_request", "store_request")
    BY DEF CheckRequest
  <1>3. QED
    BY <1>1, <1>2, ProceedStep DEF Steps, IntakeTypeOK, RequestsNameApprovals

\* The request that is stored, when the key is not taken.
LEMMA RequestAppended ==
  ASSUME IntakeTypeOK, NEW s \in Sessions, pc[s] = "store_request",
         RequestInserted(job[s].case, job[s].approval)
  PROVE  \E tied \in BOOLEAN :
            LET row == RequestFor(job[s].case, job[s].approval, tied)
            IN  /\ requests' = [requests EXCEPT ![job[s].case] = Append(@, row)]
                /\ row \in RequestRows
                /\ row.approval = job[s].approval
                /\ row.key = IdempotencyKey(job[s].case, job[s].approval)
                /\ row.action = approvals[job[s].case][job[s].approval].action
                /\ row.amount = approvals[job[s].case][job[s].approval].amount
  <1>1. job[s].case \in Cases /\ job[s].approval \in 1 .. Len(approvals[job[s].case])
    BY DEF IntakeTypeOK, IntakeControlOK, HandlerOK
  <1>2. PICK tied \in BOOLEAN :
          requests' = [requests EXCEPT ![job[s].case] =
                         Append(@, RequestFor(job[s].case, job[s].approval, tied))]
    BY DEF RequestInserted, Ties
  <1>3. approvals[job[s].case] \in Seq(ApprovalRows)
    BY <1>1 DEF IntakeTypeOK, IntakeTablesOK
  <1>4. approvals[job[s].case][job[s].approval] \in ApprovalRows /\ job[s].approval \in Nat
    BY <1>1, <1>3
  <1>5. RequestFor(job[s].case, job[s].approval, tied) \in RequestRows
    BY <1>1, <1>4 DEF RequestFor, IdempotencyKey, RequestRows, ApprovalRows
  <1>6. QED
    BY <1>2, <1>5 DEF RequestFor

LEMMA StoreRequestType ==
  ASSUME IntakeTypeOK, NEW s \in Sessions, StoreRequest(s)
  PROVE  IntakeTypeOK'
  <1>1. /\ pc[s] = "store_request"
        /\ UNCHANGED <<caseData, caseStatus, briefs, evaluations, approvals, payments,
                       intents, audit, aborts>>
    BY DEF StoreRequest
  <1>2. /\ job[s].case \in Cases /\ job[s].approval \in 1 .. Len(approvals[job[s].case])
        /\ requests \in [Cases -> Seq(RequestRows)]
    BY <1>1 DEF IntakeTypeOK, IntakeControlOK, IntakeTablesOK, HandlerOK
  <1>3. CASE KeyTaken(job[s].case, job[s].approval)
    <2>1. Proceed(s, "store_request", "idle") /\ UNCHANGED Tables
      BY <1>1, <1>3 DEF StoreRequest, Tables
    <2>2. QED
      BY <2>1, TablesUnchanged, ProceedStep DEF Steps, IntakeTypeOK, RequestsNameApprovals
  <1>4. CASE ~KeyTaken(job[s].case, job[s].approval)
    <2>1. /\ Proceed(s, "store_request", "request_case")
          /\ RequestInserted(job[s].case, job[s].approval)
      BY <1>4 DEF StoreRequest
    <2>2. PICK row \in RequestRows :
            /\ requests' = [requests EXCEPT ![job[s].case] = Append(@, row)]
            /\ row.approval = job[s].approval
      BY <1>1, <2>1, RequestAppended
    <2>3. requests' \in [Cases -> Seq(RequestRows)]
      BY <1>2, <2>2
    <2>4. IntakeTablesOK' /\ ApprovalsGrow
      BY <1>1, <2>3 DEF IntakeTypeOK, IntakeTablesOK, ApprovalsGrow
    <2>5. RequestsNameApprovals'
      BY <1>1, <1>2, <2>2 DEF IntakeTypeOK, RequestsNameApprovals
    <2>6. QED
      BY <2>1, <2>4, <2>5, ProceedStep DEF Steps, IntakeTypeOK, RequestsNameApprovals
  <1>5. QED
    BY <1>3, <1>4

LEMMA IntakeAbortType ==
  ASSUME IntakeTypeOK, NEW s \in Sessions, Abort(s)
  PROVE  IntakeTypeOK'
  <1>1. /\ pc' = [pc EXCEPT ![s] = "idle"] /\ job' = [job EXCEPT ![s] = NoJob]
        /\ aborts' = aborts + 1
        /\ UNCHANGED <<caseData, caseStatus, briefs, evaluations, approvals, payments,
                       requests, intents, audit>>
    BY DEF Abort
  <1>2. pc'[s] = "idle"
    BY <1>1 DEF IntakeTypeOK, IntakeControlOK
  <1>3. HandlerOK(s)'
    BY <1>2 DEF HandlerOK
  <1>4. IntakeTablesOK' /\ ApprovalsGrow /\ RequestsNameApprovals'
    BY <1>1 DEF IntakeTypeOK, IntakeTablesOK, ApprovalsGrow, RequestsNameApprovals
  <1>5. QED
    BY <1>1, <1>3, <1>4, NoFormType, ControlStep DEF IntakeTypeOK, RequestsNameApprovals

LEMMA IntakeTypeStep ==
  ASSUME IntakeTypeOK, [Next]_vars
  PROVE  IntakeTypeOK'
  <1>1. CASE UNCHANGED vars
    BY <1>1 DEF vars, IntakeTypeOK, IntakeTablesOK, IntakeControlOK, HandlerOK
  <1>2. CASE Next
    <2>1. PICK s \in Sessions : BeginHandler(s) \/ Step(s) \/ Abort(s)
      BY <1>2 DEF Next
    <2>2. CASE Step(s)
      BY <2>2, BriefStepType, PlainStepType, StorePolicyType, StoreApprovalType,
         PaymentStepType, ReadApprovalType, CheckRequestType, StoreRequestType DEF Step
    <2>3. QED
      BY <2>1, <2>2, IntakeBeginType, IntakeAbortType
  <1>3. QED
    BY <1>1, <1>2

LEMMA IntakeTypeInit ==
  ASSUME Init
  PROVE  IntakeTypeOK
  <1>1. caseStatus \in [Cases -> CaseStatuses]
    BY SeedCasesAssumption DEF Init, CaseStatuses
  <1>2. IntakeTablesOK
    BY <1>1 DEF Init, IntakeTablesOK
  <1>3. IntakeControlOK
    BY NoFormType DEF Init, IntakeControlOK, HandlerOK
  <1>4. QED
    BY <1>2, <1>3 DEF Init, IntakeTypeOK

\* The tables and the locals of every handler have their types in every reachable
\* state, and every request names an approval of its case.
THEOREM IntakeTypeCorrect == Spec => []IntakeTypeOK
  BY IntakeTypeInit, IntakeTypeStep, PTL DEF Spec

-----------------------------------------------------------------------------
(* What may be requested                                                     *)

\* Policy evaluated the case with this outcome, which lets this role decide.
Allowed(c, outcome, role) ==
    /\ CanBeApproved(outcome, role)
    /\ \E i \in 1 .. Len(evaluations[c]) : evaluations[c][i] = outcome

EvaluationsAreSound ==
    \A c \in Cases : \A i \in 1 .. Len(evaluations[c]) :
        evaluations[c][i] = EvaluatePolicy(caseData[c])

ApprovalsAreAllowed ==
    \A c \in Cases : \A i \in 1 .. Len(approvals[c]) :
        Allowed(c, approvals[c][i].outcome, approvals[c][i].role)

RequestOfApproval(row, approval) ==
    /\ approval.decision = "approved"
    /\ approval.action = row.action /\ approval.amount = row.amount

RequestsAreApproved ==
    \A c \in Cases : \A k \in 1 .. Len(requests[c]) :
        /\ RequestOfApproval(requests[c][k], approvals[c][requests[c][k].approval])
        /\ requests[c][k].key = IdempotencyKey(c, requests[c][k].approval)

KeysAreUnique ==
    \A c \in Cases : \A k, l \in 1 .. Len(requests[c]) :
        requests[c][k].key = requests[c][l].key => k = l

\* What a handler knows of what it is about to store: it was true when read, and
\* stays true because rows are only added.
HandlerIsSound(s) ==
    /\ pc[s] = "store_policy" => job[s].outcome = EvaluatePolicy(caseData[job[s].case])
    /\ pc[s] = "store_approval" => Allowed(job[s].case, job[s].outcome, job[s].form.role)
    /\ pc[s] \in {"check_request", "store_request"} =>
         approvals[job[s].case][job[s].approval].decision = "approved"

IntakeSound ==
    /\ IntakeTypeOK
    /\ EvaluationsAreSound /\ ApprovalsAreAllowed /\ RequestsAreApproved /\ KeysAreUnique
    /\ \A s \in Sessions : HandlerIsSound(s)

EvaluationsGrow ==
    \A c \in Cases : \A i \in 1 .. Len(evaluations[c]) :
        i \in 1 .. Len(evaluations'[c]) /\ evaluations'[c][i] = evaluations[c][i]

\* Rows that were allowed or approved stay so while evaluations and approvals grow.
LEMMA SoundnessKept ==
  ASSUME IntakeSound, EvaluationsGrow, ApprovalsGrow, caseData' = caseData
  PROVE  /\ \A c \in Cases : \A outcome, role :
               Allowed(c, outcome, role) => Allowed(c, outcome, role)'
         /\ requests' = requests => RequestsAreApproved' /\ KeysAreUnique'
         /\ \A s \in Sessions :
               pc'[s] = pc[s] /\ job'[s] = job[s] => HandlerIsSound(s)'
  <1>1. ASSUME NEW c \in Cases, NEW outcome, NEW role, Allowed(c, outcome, role)
        PROVE  Allowed(c, outcome, role)'
    BY <1>1 DEF Allowed, EvaluationsGrow
  <1>2. ASSUME requests' = requests
        PROVE  RequestsAreApproved' /\ KeysAreUnique'
    <2>1. ASSUME NEW c \in Cases, NEW k \in 1 .. Len(requests[c])
          PROVE  approvals'[c][requests[c][k].approval] = approvals[c][requests[c][k].approval]
      BY DEF IntakeSound, IntakeTypeOK, ApprovalsGrow
    <2>2. ASSUME NEW c \in Cases, NEW k \in 1 .. Len(requests'[c])
          PROVE  /\ RequestOfApproval(requests[c][k], approvals[c][requests[c][k].approval])'
                 /\ (requests[c][k].key = IdempotencyKey(c, requests[c][k].approval))'
      <3>1. /\ RequestOfApproval(requests[c][k], approvals[c][requests[c][k].approval])
            /\ requests[c][k].key = IdempotencyKey(c, requests[c][k].approval)
        BY <1>2 DEF IntakeSound, RequestsAreApproved
      <3>2. approvals'[c][requests[c][k].approval] = approvals[c][requests[c][k].approval]
        BY <1>2, <2>1
      <3>3. QED
        BY <1>2, <3>1, <3>2 DEF RequestOfApproval, IdempotencyKey
    <2>3. QED
      BY <1>2, <2>2 DEF IntakeSound, RequestsAreApproved, KeysAreUnique
  <1>3. ASSUME NEW s \in Sessions, pc'[s] = pc[s], job'[s] = job[s]
        PROVE  HandlerIsSound(s)'
    <2>1. HandlerIsSound(s) /\ HandlerOK(s)
      BY DEF IntakeSound, IntakeTypeOK, IntakeControlOK
    <2>2. CASE pc[s] = "store_policy"
      BY <1>3, <2>1, <2>2 DEF HandlerIsSound
    <2>3. CASE pc[s] = "store_approval"
      BY <1>1, <1>3, <2>1, <2>3 DEF HandlerIsSound, HandlerOK
    <2>4. CASE pc[s] \in {"check_request", "store_request"}
      BY <1>3, <2>1, <2>4 DEF HandlerIsSound, HandlerOK, ApprovalsGrow
    <2>5. QED
      BY <1>3, <2>2, <2>3, <2>4 DEF HandlerIsSound
  <1>4. QED
    BY <1>1, <1>2, <1>3

\* A step that adds no evaluation, approval or request.
LEMMA SoundnessFrame ==
  ASSUME IntakeSound, IntakeTypeOK', NEW s \in Sessions, HandlerIsSound(s)',
         \A t \in Sessions \ {s} : pc'[t] = pc[t] /\ job'[t] = job[t],
         UNCHANGED <<caseData, evaluations, approvals, requests>>
  PROVE  IntakeSound'
  <1>1. EvaluationsGrow /\ ApprovalsGrow
    BY DEF EvaluationsGrow, ApprovalsGrow
  <1>2. EvaluationsAreSound' /\ ApprovalsAreAllowed'
    BY DEF IntakeSound, EvaluationsAreSound, ApprovalsAreAllowed, Allowed
  <1>3. QED
    BY <1>1, <1>2, SoundnessKept DEF IntakeSound

\* What every step leaves alone of the other sessions.
LEMMA OtherSessions ==
  ASSUME IntakeTypeOK, NEW s \in Sessions, BeginHandler(s) \/ Step(s) \/ Abort(s)
  PROVE  \A t \in Sessions \ {s} : pc'[t] = pc[t] /\ job'[t] = job[t]
  <1>0. pc \in [Sessions -> Steps \cup {"idle"}] /\ job \in [Sessions -> IntakeJobs]
    BY DEF IntakeTypeOK, IntakeControlOK
  <1>1. ASSUME NEW there, pc' = [pc EXCEPT ![s] = there], NEW new, job' = [job EXCEPT ![s] = new]
        PROVE  \A t \in Sessions \ {s} : pc'[t] = pc[t] /\ job'[t] = job[t]
    BY <1>0, <1>1
  <1>2. ASSUME NEW here, NEW there, Proceed(s, here, there)
        PROVE  \A t \in Sessions \ {s} : pc'[t] = pc[t] /\ job'[t] = job[t]
    BY <1>0, <1>2 DEF Proceed, Move
  <1>3. CASE BeginHandler(s)
    <2>1. PICK first, locals : Begin(s, first, locals)
      BY <1>3
      DEF BeginHandler, BeginBrief, BeginEvaluate, BeginPrepare, BeginCreate, BeginApprove
    <2>2. QED
      BY <1>1, <2>1 DEF Begin
  <1>4. CASE Abort(s)
    BY <1>1, <1>4 DEF Abort
  <1>5. CASE CallBrief(s)
    BY <1>0, <1>5 DEF CallBrief, Move
  <1>6. CASE CallPayment(s)
    BY <1>0, <1>6 DEF CallPayment, Move
  <1>7. CASE ReadApproval(s)
    BY <1>0, <1>7 DEF ReadApproval, Proceed, Move
  <1>8. CASE StoreRequest(s)
    BY <1>2, <1>8 DEF StoreRequest
  <1>9. CASE StoreBrief(s) \/ AuditBrief(s) \/ StorePolicy(s) \/ PolicyCase(s) \/ AuditPolicy(s)
    BY <1>2, <1>9 DEF StoreBrief, AuditBrief, StorePolicy, PolicyCase, AuditPolicy
  <1>10. CASE StoreApproval(s) \/ ApprovalCase(s) \/ AuditApproval(s)
    BY <1>2, <1>10 DEF StoreApproval, ApprovalCase, AuditApproval
  <1>11. CASE StorePayment(s) \/ AuditPayment(s) \/ CheckRequest(s) \/ RequestCase(s)
              \/ AuditRequest(s)
    BY <1>2, <1>11 DEF StorePayment, AuditPayment, CheckRequest, RequestCase, AuditRequest
  <1>12. QED
    BY <1>3, <1>4, <1>5, <1>6, <1>7, <1>8, <1>9, <1>10, <1>11 DEF Step

\* A decision can only be typed for a case that policy evaluated.
LEMMA BeginSound ==
  ASSUME IntakeSound, IntakeTypeOK', NEW s \in Sessions, BeginHandler(s)
  PROVE  IntakeSound'
  <1>0. /\ pc \in [Sessions -> Steps \cup {"idle"}] /\ job \in [Sessions -> IntakeJobs]
        /\ \A t \in Sessions \ {s} : pc'[t] = pc[t] /\ job'[t] = job[t]
    BY OtherSessions DEF IntakeSound, IntakeTypeOK, IntakeControlOK
  <1>1. UNCHANGED Tables
    BY DEF BeginHandler, BeginBrief, BeginEvaluate, BeginPrepare, BeginCreate, BeginApprove,
           Begin
  <1>2. PICK c \in Cases :
          \/ BeginBrief(s, c) \/ BeginEvaluate(s, c) \/ BeginPrepare(s, c) \/ BeginCreate(s, c)
          \/ \E role \in Roles, decision \in Decisions, action \in FormActions,
                amount \in Amounts :
                BeginApprove(s, c, Form(role, decision, action, amount))
    BY DEF BeginHandler
  <1>3. ASSUME HandlerIsSound(s)'
        PROVE  IntakeSound'
    BY <1>0, <1>1, <1>3, SoundnessFrame DEF Tables
  <1>4. CASE BeginBrief(s, c) \/ BeginPrepare(s, c) \/ BeginCreate(s, c)
    <2>1. pc'[s] \in {"call_brief", "call_payment", "read_approval"}
      BY <1>0, <1>4 DEF BeginBrief, BeginPrepare, BeginCreate, Begin
    <2>2. QED
      BY <1>3, <2>1 DEF HandlerIsSound
  <1>5. CASE BeginEvaluate(s, c)
    <2>1. /\ pc'[s] = "store_policy"
          /\ job'[s] = Locals(c, NoForm, EvaluatePolicy(caseData[c]), 0)
      BY <1>0, <1>5 DEF BeginEvaluate, Begin
    <2>2. job'[s].case = c /\ job'[s].outcome = EvaluatePolicy(caseData[c])
      BY <2>1, NoFormType, PolicyTypes, IntakeLocalsType
    <2>3. QED
      BY <1>1, <1>3, <2>1, <2>2 DEF HandlerIsSound, Tables
  <1>6. ASSUME NEW role \in Roles, NEW decision \in Decisions, NEW action \in FormActions,
               NEW amount \in Amounts,
               BeginApprove(s, c, Form(role, decision, action, amount))
        PROVE  IntakeSound'
    <2> DEFINE form == Form(role, decision, action, amount)
    <2>1. PICK i \in 1 .. Len(evaluations[c]) :
            /\ CanBeApproved(evaluations[c][i], form.role)
            /\ Begin(s, "store_approval", Locals(c, form, evaluations[c][i], 0))
      BY <1>6 DEF BeginApprove
    <2>2. evaluations[c][i] \in Outcomes
      BY DEF IntakeSound, IntakeTypeOK, IntakeTablesOK
    <2>3. form \in Forms
      BY FormType
    <2> HIDE DEF form
    <2>4. /\ pc'[s] = "store_approval"
          /\ job'[s] = Locals(c, form, evaluations[c][i], 0)
      BY <1>0, <2>1 DEF Begin
    <2>5. /\ job'[s].case = c /\ job'[s].outcome = evaluations[c][i]
          /\ job'[s].form = form
      BY <2>2, <2>3, <2>4, IntakeLocalsType
    <2>6. evaluations' = evaluations /\ CanBeApproved(evaluations[c][i], form.role)
      BY <1>1, <2>1 DEF Tables
    <2>7. QED
      BY <1>3, <2>4, <2>5, <2>6 DEF HandlerIsSound, Allowed, CanBeApproved
  <1>7. QED
    BY <1>2, <1>4, <1>5, <1>6

LEMMA PolicySound ==
  ASSUME IntakeSound, IntakeTypeOK', NEW s \in Sessions, StorePolicy(s)
  PROVE  IntakeSound'
  <1>1. /\ pc[s] = "store_policy" /\ pc' = [pc EXCEPT ![s] = "policy_case"]
        /\ evaluations' = [evaluations EXCEPT ![job[s].case] = Append(@, job[s].outcome)]
        /\ UNCHANGED <<caseData, approvals, requests>>
    BY DEF StorePolicy, Proceed, Move
  <1>2. /\ job[s].case \in Cases /\ job[s].outcome = EvaluatePolicy(caseData[job[s].case])
        /\ job[s].outcome \in Outcomes
        /\ evaluations \in [Cases -> Seq(Outcomes)]
        /\ pc \in [Sessions -> Steps \cup {"idle"}]
    BY <1>1
    DEF IntakeSound, IntakeTypeOK, IntakeTablesOK, IntakeControlOK, HandlerOK, HandlerIsSound
  <1>3. EvaluationsGrow /\ ApprovalsGrow
    BY <1>1, <1>2 DEF EvaluationsGrow, ApprovalsGrow
  <1>4. EvaluationsAreSound'
    BY <1>1, <1>2 DEF IntakeSound, EvaluationsAreSound
  <1>5. ApprovalsAreAllowed'
    BY <1>1, <1>3, SoundnessKept DEF IntakeSound, ApprovalsAreAllowed
  <1>6. HandlerIsSound(s)'
    BY <1>1, <1>2 DEF HandlerIsSound
  <1>7. QED
    BY <1>1, <1>3, <1>4, <1>5, <1>6, SoundnessKept, OtherSessions DEF IntakeSound, Step

LEMMA ApprovalSound ==
  ASSUME IntakeSound, IntakeTypeOK', NEW s \in Sessions, StoreApproval(s)
  PROVE  IntakeSound'
  <1>1. /\ pc[s] = "store_approval" /\ pc' = [pc EXCEPT ![s] = "approval_case"]
        /\ UNCHANGED <<caseData, evaluations, requests>>
    BY DEF StoreApproval, Proceed, Move
  <1>2. PICK row \in ApprovalRows :
          /\ approvals' = [approvals EXCEPT ![job[s].case] = Append(@, row)]
          /\ row.outcome = job[s].outcome /\ row.role = job[s].form.role
          /\ job[s].case \in Cases /\ ApprovalsGrow
    BY ApprovalAppended DEF IntakeSound
  <1>3. /\ Allowed(job[s].case, row.outcome, row.role)
        /\ approvals \in [Cases -> Seq(ApprovalRows)]
        /\ pc \in [Sessions -> Steps \cup {"idle"}]
    BY <1>1, <1>2
    DEF IntakeSound, IntakeTypeOK, IntakeTablesOK, IntakeControlOK, HandlerIsSound
  <1>4. EvaluationsGrow /\ EvaluationsAreSound'
    BY <1>1 DEF EvaluationsGrow, IntakeSound, EvaluationsAreSound
  <1>5. ApprovalsAreAllowed'
    <2>1. ASSUME NEW c \in Cases, NEW i \in 1 .. Len(approvals'[c])
          PROVE  Allowed(c, approvals'[c][i].outcome, approvals'[c][i].role)
      BY <1>2, <1>3 DEF IntakeSound, ApprovalsAreAllowed
    <2>2. QED
      BY <1>2, <1>4, <2>1, <1>1, SoundnessKept DEF ApprovalsAreAllowed
  <1>6. HandlerIsSound(s)'
    BY <1>1, <1>3 DEF HandlerIsSound
  <1>7. QED
    BY <1>1, <1>2, <1>4, <1>5, <1>6, SoundnessKept, OtherSessions DEF IntakeSound, Step

\* The request is that of an approval read as approved, and its key is new.
LEMMA RequestSound ==
  ASSUME IntakeSound, IntakeTypeOK', NEW s \in Sessions, StoreRequest(s)
  PROVE  IntakeSound'
  <1>1. /\ pc[s] = "store_request" /\ UNCHANGED <<caseData, evaluations, approvals>>
    BY DEF StoreRequest
  <1>2. /\ job[s].case \in Cases
        /\ approvals[job[s].case][job[s].approval].decision = "approved"
        /\ requests \in [Cases -> Seq(RequestRows)]
        /\ pc \in [Sessions -> Steps \cup {"idle"}]
    BY <1>1
    DEF IntakeSound, IntakeTypeOK, IntakeTablesOK, IntakeControlOK, HandlerOK, HandlerIsSound
  <1>3. /\ EvaluationsGrow /\ ApprovalsGrow /\ EvaluationsAreSound'
        /\ pc'[s] \in {"idle", "request_case"}
    BY <1>1, <1>2
    DEF EvaluationsGrow, ApprovalsGrow, IntakeSound, EvaluationsAreSound, StoreRequest,
        Proceed, Move
  <1>4. HandlerIsSound(s)' /\ ApprovalsAreAllowed'
    BY <1>1, <1>3 DEF HandlerIsSound, IntakeSound, ApprovalsAreAllowed, Allowed
  <1>5. CASE KeyTaken(job[s].case, job[s].approval)
    <2>1. UNCHANGED requests
      BY <1>5 DEF StoreRequest
    <2>2. QED
      BY <1>1, <1>4, <2>1, SoundnessFrame, OtherSessions DEF IntakeSound, Step
  <1>6. CASE ~KeyTaken(job[s].case, job[s].approval)
    <2>1. PICK row \in RequestRows :
            /\ requests' = [requests EXCEPT ![job[s].case] = Append(@, row)]
            /\ row.approval = job[s].approval
            /\ row.key = IdempotencyKey(job[s].case, job[s].approval)
            /\ RequestOfApproval(row, approvals[job[s].case][job[s].approval])
      BY <1>1, <1>2, <1>6, RequestAppended DEF StoreRequest, IntakeSound, RequestOfApproval
    <2>0. /\ \A c \in Cases : Len(requests[c]) \in Nat
          /\ requests'[job[s].case] = Append(requests[job[s].case], row)
          /\ \A c \in Cases \ {job[s].case} : requests'[c] = requests[c]
      BY <1>2, <2>1
    <2>2. RequestsAreApproved'
      <3>1. ASSUME NEW c \in Cases, NEW k \in 1 .. Len(requests'[c])
            PROVE  /\ RequestOfApproval(requests'[c][k],
                                        approvals[c][requests'[c][k].approval])
                   /\ requests'[c][k].key = IdempotencyKey(c, requests'[c][k].approval)
        <4>1. CASE c = job[s].case /\ k = Len(requests[c]) + 1
          <5>1. requests'[c][k] = row
            BY <1>2, <2>0, <4>1
          <5>2. QED
            BY <2>1, <4>1, <5>1
        <4>2. CASE ~(c = job[s].case /\ k = Len(requests[c]) + 1)
          <5>1. k \in 1 .. Len(requests[c]) /\ requests'[c][k] = requests[c][k]
            <6>1. CASE c # job[s].case
              BY <2>0, <6>1
            <6>2. CASE c = job[s].case
              BY <1>2, <2>0, <4>2, <6>2
            <6>3. QED
              BY <6>1, <6>2
          <5>2. QED
            BY <5>1 DEF IntakeSound, RequestsAreApproved
        <4>3. QED
          BY <4>1, <4>2
      <3>2. QED
        BY <1>1, <3>1 DEF RequestsAreApproved, RequestOfApproval, IdempotencyKey
    <2>3. \A k \in 1 .. Len(requests[job[s].case]) : requests[job[s].case][k].key # row.key
      BY <1>2, <1>6, <2>1 DEF KeyTaken
    <2>4. KeysAreUnique'
      <3>1. ASSUME NEW c \in Cases, NEW k \in 1 .. Len(requests'[c]),
                   NEW l \in 1 .. Len(requests'[c]),
                   requests'[c][k].key = requests'[c][l].key
            PROVE  k = l
        <4>1. CASE c # job[s].case
          BY <2>0, <3>1, <4>1 DEF IntakeSound, KeysAreUnique
        <4>2. CASE c = job[s].case
          <5>1. /\ requests[c] \in Seq(RequestRows) /\ row \in RequestRows
                /\ requests'[c] = Append(requests[c], row)
            BY <1>2, <2>0, <2>1, <4>2
          <5>2. \A i \in 1 .. Len(requests'[c]) :
                  \/ i \in 1 .. Len(requests[c]) /\ requests'[c][i] = requests[c][i]
                  \/ i = Len(requests[c]) + 1 /\ requests'[c][i] = row
            BY <5>1
          <5>3. \A i \in 1 .. Len(requests[c]) : requests[c][i].key # row.key
            BY <2>3, <4>2
          <5>4. CASE k \in 1 .. Len(requests[c]) /\ l \in 1 .. Len(requests[c])
            BY <3>1, <5>1, <5>2, <5>4 DEF IntakeSound, KeysAreUnique
          <5>5. CASE ~(k \in 1 .. Len(requests[c]) /\ l \in 1 .. Len(requests[c]))
            BY <3>1, <5>2, <5>3, <5>5
          <5>6. QED
            BY <5>4, <5>5
        <4>3. QED
          BY <4>1, <4>2
      <3>2. QED
        BY <3>1 DEF KeysAreUnique
    <2>5. \A t \in Sessions : HandlerIsSound(t)'
      BY <1>1, <1>3, <1>4, SoundnessKept, OtherSessions DEF IntakeSound, Step
    <2>6. QED
      BY <1>3, <1>4, <2>2, <2>4, <2>5 DEF IntakeSound
  <1>7. QED
    BY <1>5, <1>6

\* The other steps add no evaluation, approval or request.
LEMMA OtherStepSound ==
  ASSUME IntakeSound, IntakeTypeOK', NEW s \in Sessions, Step(s) \/ Abort(s),
         ~StorePolicy(s), ~StoreApproval(s), ~StoreRequest(s)
  PROVE  IntakeSound'
  <1>0. /\ pc \in [Sessions -> Steps \cup {"idle"}] /\ job \in [Sessions -> IntakeJobs]
        /\ \A t \in Sessions \ {s} : pc'[t] = pc[t] /\ job'[t] = job[t]
        /\ HandlerOK(s) /\ HandlerIsSound(s)
    BY OtherSessions DEF IntakeSound, IntakeTypeOK, IntakeControlOK
  <1>1. UNCHANGED <<caseData, evaluations, approvals, requests>>
    BY DEF Step, Abort, CallBrief, StoreBrief, AuditBrief, PolicyCase, AuditPolicy,
           ApprovalCase, AuditApproval, CallPayment, StorePayment, AuditPayment,
           ReadApproval, CheckRequest, RequestCase, AuditRequest, UpdateCaseStatus,
           RecordEvent, Tables
  <1>2. ASSUME HandlerIsSound(s)'
        PROVE  IntakeSound'
    BY <1>0, <1>1, <1>2, SoundnessFrame
  <1>3. CASE ReadApproval(s)
    <2>1. PICK i \in LatestApprovals(job[s].case) :
            IF approvals[job[s].case][i].decision = "approved"
            THEN /\ Move(s, "read_approval", "check_request")
                 /\ job' = [job EXCEPT ![s].approval = i]
            ELSE Proceed(s, "read_approval", "idle")
      BY <1>3 DEF ReadApproval
    <2>2. CASE approvals[job[s].case][i].decision = "approved"
      <3>1. pc'[s] = "check_request" /\ job'[s].case = job[s].case /\ job'[s].approval = i
        BY <1>0, <2>1, <2>2 DEF Move, IntakeJobs
      <3>2. QED
        BY <1>1, <1>2, <2>2, <3>1 DEF HandlerIsSound
    <2>3. CASE approvals[job[s].case][i].decision # "approved"
      <3>1. pc'[s] = "idle"
        BY <1>0, <2>1, <2>3 DEF Proceed, Move
      <3>2. QED
        BY <1>2, <3>1 DEF HandlerIsSound
    <2>4. QED
      BY <2>2, <2>3
  <1>4. CASE CheckRequest(s)
    <2>1. /\ pc[s] = "check_request" /\ pc'[s] \in {"idle", "store_request"}
          /\ pc'[s] # "idle" => job'[s] = job[s]
      BY <1>0, <1>4 DEF CheckRequest, Proceed, Move
    <2>2. QED
      BY <1>0, <1>1, <1>2, <2>1 DEF HandlerIsSound
  <1>5. CASE ~ReadApproval(s) /\ ~CheckRequest(s)
    <2>1. pc'[s] \notin {"store_policy", "store_approval", "check_request", "store_request"}
      BY <1>0, <1>5
      DEF Step, Abort, CallBrief, StoreBrief, AuditBrief, PolicyCase, AuditPolicy,
          ApprovalCase, AuditApproval, CallPayment, StorePayment, AuditPayment,
          RequestCase, AuditRequest, Proceed, Move
    <2>2. QED
      BY <1>2, <2>1 DEF HandlerIsSound
  <1>6. QED
    BY <1>3, <1>4, <1>5

\* Three statements write what the workflow is about: the evaluation, the decision and
\* the request.
LEMMA WorkflowWrites ==
  ASSUME NEW s \in Sessions, BeginHandler(s) \/ Step(s) \/ Abort(s)
  PROVE  \/ StorePolicy(s) \/ StoreApproval(s) \/ StoreRequest(s)
         \/ UNCHANGED <<evaluations, approvals, requests>>
  <1>1. CASE BeginHandler(s)
    BY <1>1 DEF BeginHandler, BeginBrief, BeginEvaluate, BeginPrepare, BeginCreate,
                BeginApprove, Begin, Tables
  <1>2. CASE Step(s) \/ Abort(s)
    BY <1>2 DEF Step, Abort, CallBrief, StoreBrief, AuditBrief, PolicyCase, AuditPolicy,
                ApprovalCase, AuditApproval, CallPayment, StorePayment, AuditPayment,
                ReadApproval, CheckRequest, RequestCase, AuditRequest, UpdateCaseStatus,
                RecordEvent, Tables
  <1>3. QED
    BY <1>1, <1>2

LEMMA IntakeSoundStep ==
  ASSUME IntakeSound, [Next]_vars
  PROVE  IntakeSound'
  <1>1. IntakeTypeOK'
    BY IntakeTypeStep DEF IntakeSound
  <1>2. CASE UNCHANGED vars
    <2>1. EvaluationsAreSound' /\ ApprovalsAreAllowed'
      BY <1>2 DEF vars, IntakeSound, EvaluationsAreSound, ApprovalsAreAllowed, Allowed
    <2>2. RequestsAreApproved'
      <3>1. approvals' = approvals /\ requests' = requests /\ RequestsAreApproved
        BY <1>2 DEF vars, IntakeSound
      <3>2. QED
        BY <3>1 DEF RequestsAreApproved, RequestOfApproval, IdempotencyKey
    <2>3. KeysAreUnique'
      BY <1>2 DEF vars, IntakeSound, KeysAreUnique
    <2>4. \A s \in Sessions : HandlerIsSound(s)'
      BY <1>2 DEF vars, IntakeSound, HandlerIsSound, Allowed, RequestOfApproval
    <2>5. QED
      BY <1>1, <2>1, <2>2, <2>3, <2>4 DEF IntakeSound
  <1>3. CASE Next
    <2>1. PICK s \in Sessions : BeginHandler(s) \/ Step(s) \/ Abort(s)
      BY <1>3 DEF Next
    <2>2. QED
      BY <1>1, <2>1, BeginSound, PolicySound, ApprovalSound, RequestSound, OtherStepSound
  <1>4. QED
    BY <1>2, <1>3

LEMMA IntakeSoundInit ==
  ASSUME Init
  PROVE  IntakeSound
  BY IntakeTypeInit
  DEF Init, IntakeSound, EvaluationsAreSound, ApprovalsAreAllowed, RequestsAreApproved,
      KeysAreUnique, HandlerIsSound

THEOREM IntakeIsSound == Spec => []IntakeSound
  BY IntakeSoundInit, IntakeSoundStep, PTL DEF Spec

LEMMA AuthorisedWhenSound ==
  ASSUME IntakeSound
  PROVE  RequestIsAuthorised
  <1>1. ASSUME NEW c \in Cases, NEW k \in 1 .. Len(requests[c])
        PROVE  LET row == requests[c][k]
                   approval == approvals[c][row.approval]
               IN  /\ RequestOfApproval(row, approval)
                   /\ Allowed(c, approval.outcome, approval.role)
    BY DEF IntakeSound, IntakeTypeOK, RequestsAreApproved, ApprovalsAreAllowed
  <1>2. ASSUME NEW c \in Cases, NEW outcome, NEW role, Allowed(c, outcome, role)
        PROVE  /\ outcome \in {evaluations[c][i] : i \in 1 .. Len(evaluations[c])}
               /\ outcome = EvaluatePolicy(caseData[c]) /\ CanBeApproved(outcome, role)
    BY <1>2 DEF Allowed, IntakeSound, EvaluationsAreSound
  <1>3. ASSUME NEW data, NEW role, CanBeApproved(EvaluatePolicy(data), role)
        PROVE  /\ data.currency = "EUR" /\ data.issue_type \in STANDARD_ELIGIBLE_ISSUE_TYPES
               /\ data.amount > MANAGER_APPROVAL_THRESHOLD => role = "finance_manager"
    BY <1>3 DEF CanBeApproved, EvaluatePolicy
  <1>4. QED
    BY <1>1, <1>2, <1>3 DEF RequestIsAuthorised, RequestOfApproval

\* However many sessions evaluate, approve and create at the same time, what becomes
\* a request was approved in its action and amount, by a role that policy allows.
THEOREM AuthorisationTheorem == Spec => []RequestIsAuthorised
  BY AuthorisedWhenSound, IntakeIsSound, PTL

\* The key is determined by the approval, and no two rows have the same key.
LEMMA OneRequestWhenSound ==
  ASSUME IntakeSound
  PROVE  OneRequestPerApproval
  BY DEF IntakeSound, RequestsAreApproved, KeysAreUnique, OneRequestPerApproval

\* However often and in however many sessions the button is clicked, an approval
\* becomes at most one request: the UNIQUE key decides the race the check loses.
THEOREM OneRequestTheorem == Spec => []OneRequestPerApproval
  BY OneRequestWhenSound, IntakeIsSound, PTL

-----------------------------------------------------------------------------
(* Briefs                                                                    *)

BriefSound ==
    /\ BriefsAreUsable
    /\ \A s \in Sessions : BriefIsUsable(job[s].brief)

LEMMA BriefsObtained ==
  /\ BriefIsUsable(MockBrief) /\ BriefIsUsable(FallbackBrief)
  /\ \A list \in ModelLists : BriefIsUsable(NormalizeBrief(list))
  BY DEF MockBrief, FallbackBrief, NormalizeBrief, Brief, BriefIsUsable, ModelLists,
         EnsureStringList

LEMMA LocalsBrief ==
  /\ BriefIsUsable(NoJob.brief)
  /\ \A c, form, outcome, approval : BriefIsUsable(Locals(c, form, outcome, approval).brief)
  BY BriefsObtained DEF NoJob, Locals

LEMMA BriefSoundStep ==
  ASSUME IntakeTypeOK, BriefSound, [Next]_vars
  PROVE  BriefSound'
  <1>0. /\ job \in [Sessions -> IntakeJobs] /\ briefs \in [Cases -> Seq(BriefRows)]
        /\ \A s \in Sessions : job[s].brief \in BriefRows
    BY DEF IntakeTypeOK, IntakeControlOK, IntakeTablesOK, IntakeJobs
  <1>1. CASE UNCHANGED vars
    BY <1>1 DEF vars, BriefSound, BriefsAreUsable
  <1>2. ASSUME NEW s \in Sessions, BeginHandler(s) \/ Step(s) \/ Abort(s),
               briefs' = briefs, BriefIsUsable(job'[s].brief)
        PROVE  BriefSound'
    BY <1>2, OtherSessions DEF BriefSound, BriefsAreUsable
  <1>3. ASSUME NEW s \in Sessions, BeginHandler(s)
        PROVE  BriefSound'
    <2>1. PICK first, c, form, outcome, approval :
            Begin(s, first, Locals(c, form, outcome, approval))
      BY <1>3 DEF BeginHandler, BeginBrief, BeginEvaluate, BeginPrepare, BeginCreate,
                  BeginApprove
    <2>2. briefs' = briefs /\ job'[s] = Locals(c, form, outcome, approval)
      BY <1>0, <2>1 DEF Begin, Tables
    <2>3. QED
      BY <1>2, <1>3, <2>2, LocalsBrief
  <1>4. ASSUME NEW s \in Sessions, Abort(s)
        PROVE  BriefSound'
    <2>1. briefs' = briefs /\ job'[s] = NoJob
      BY <1>0, <1>4 DEF Abort
    <2>2. QED
      BY <1>2, <1>4, <2>1, LocalsBrief
  <1>5. ASSUME NEW s \in Sessions, Step(s)
        PROVE  BriefSound'
    <2>1. CASE CallBrief(s)
      <3>1. PICK brief \in {MockBrief, FallbackBrief} \cup
                           {NormalizeBrief(risk_notes) : risk_notes \in ModelLists} :
              job' = [job EXCEPT ![s].brief = brief]
        BY <2>1 DEF CallBrief
      <3>2. job'[s].brief = brief /\ briefs' = briefs
        BY <1>0, <2>1, <3>1 DEF CallBrief, Tables, IntakeJobs
      <3>3. QED
        BY <1>2, <1>5, <3>2, BriefsObtained
    <2>2. CASE StoreBrief(s)
      <3>1. /\ pc[s] = "store_brief" /\ job'[s] = job[s]
            /\ briefs' = [briefs EXCEPT ![job[s].case] = Append(@, job[s].brief)]
        BY <1>0, <2>2 DEF StoreBrief, Proceed, Move
      <3>2. job[s].case \in Cases
        BY <3>1 DEF IntakeTypeOK, IntakeControlOK, HandlerOK
      <3>3. BriefsAreUsable'
        BY <1>0, <3>1, <3>2 DEF BriefSound, BriefsAreUsable
      <3>4. QED
        BY <1>5, <3>1, <3>3, OtherSessions DEF BriefSound
    <2>3. CASE ~CallBrief(s) /\ ~StoreBrief(s)
      <3>1. briefs' = briefs
        BY <1>5, <2>3
        DEF Step, AuditBrief, StorePolicy, PolicyCase, AuditPolicy, StoreApproval,
            ApprovalCase, AuditApproval, CallPayment, StorePayment, AuditPayment,
            ReadApproval, CheckRequest, StoreRequest, RequestCase, AuditRequest,
            UpdateCaseStatus, RecordEvent, Tables
      <3>2. job'[s] = NoJob \/ job'[s].brief = job[s].brief
        <4>1. CASE CallPayment(s) \/ ReadApproval(s)
          BY <1>0, <4>1 DEF CallPayment, ReadApproval, Proceed, Move, IntakeJobs
        <4>2. CASE ~CallPayment(s) /\ ~ReadApproval(s)
          BY <1>0, <1>5, <2>3, <4>2
          DEF Step, AuditBrief, StorePolicy, PolicyCase, AuditPolicy, StoreApproval,
              ApprovalCase, AuditApproval, StorePayment, AuditPayment, CheckRequest,
              StoreRequest, RequestCase, AuditRequest, Proceed, Move
        <4>3. QED
          BY <4>1, <4>2
      <3>3. QED
        BY <1>2, <1>5, <3>1, <3>2, LocalsBrief DEF BriefSound
    <2>4. QED
      BY <2>1, <2>2, <2>3
  <1>6. QED
    BY <1>1, <1>3, <1>4, <1>5 DEF Next

LEMMA BriefSoundInit ==
  ASSUME Init
  PROVE  BriefSound
  BY LocalsBrief DEF Init, BriefSound, BriefsAreUsable

\* No answer of the model, whatever its lists hold, and no failure of the call leaves
\* a brief with an empty or blank list or of unclear origin.
THEOREM BriefTheorem == Spec => []BriefsAreUsable
  <1>1. BriefSound => BriefsAreUsable
    BY DEF BriefSound
  <1>2. QED
    BY <1>1, BriefSoundInit, BriefSoundStep, IntakeTypeCorrect, PTL DEF Spec

-----------------------------------------------------------------------------
(* How many requests a case gets.  Whoever creates one has seen none, so the *)
(* requests and the handlers still to store one share out the sessions.      *)

Creating(c) ==
    {s \in Sessions : /\ pc[s] \in {"read_approval", "check_request", "store_request"}
                      /\ job[s].case = c}

RequestsFitSessions ==
    \A c \in Cases : Len(requests[c]) + Cardinality(Creating(c)) <= Cardinality(Sessions)

LEMMA CreatingSessions ==
  ASSUME NEW S \in SUBSET Sessions
  PROVE  /\ IsFiniteSet(S) /\ Cardinality(S) \in Nat /\ Cardinality(Sessions) \in Nat
         /\ Cardinality(S) <= Cardinality(Sessions)
  BY IntakeSessionsAssumption, FS_Subset, FS_CardinalityType

\* Only the start of a creation makes one more session create, and only the insert
\* makes one more request, of a session that then no longer creates.
LEMMA CreationFlow ==
  ASSUME IntakeTypeOK, NEW s \in Sessions, BeginHandler(s) \/ Step(s) \/ Abort(s),
         NEW c \in Cases
  PROVE  \/ /\ requests'[c] = requests[c] /\ Creating(c)' \subseteq Creating(c)
         \/ requests'[c] = requests[c] /\ requests[c] = <<>>
         \/ /\ Len(requests'[c]) = Len(requests[c]) + 1
            /\ s \in Creating(c) /\ Creating(c)' \subseteq Creating(c) \ {s}
  <1>0. /\ pc \in [Sessions -> Steps \cup {"idle"}] /\ job \in [Sessions -> IntakeJobs]
        /\ \A t \in Sessions \ {s} : pc'[t] = pc[t] /\ job'[t] = job[t]
        /\ requests \in [Cases -> Seq(RequestRows)]
    BY OtherSessions DEF IntakeTypeOK, IntakeControlOK, IntakeTablesOK
  <1> DEFINE creating == {"read_approval", "check_request", "store_request"}
  <1>1. ASSUME pc'[s] \in creating /\ job'[s].case = c =>
                  pc[s] \in creating /\ job[s].case = c
        PROVE  Creating(c)' \subseteq Creating(c)
    BY <1>0, <1>1 DEF Creating
  <1>2. CASE BeginHandler(s)
    <2>1. requests' = requests
      BY <1>2 DEF BeginHandler, BeginBrief, BeginEvaluate, BeginPrepare, BeginCreate,
                  BeginApprove, Begin, Tables
    <2>2. PICK d \in Cases :
            \/ BeginBrief(s, d) \/ BeginEvaluate(s, d) \/ BeginPrepare(s, d)
            \/ BeginCreate(s, d)
            \/ \E role \in Roles, decision \in Decisions, action \in FormActions,
                  amount \in Amounts :
                  BeginApprove(s, d, Form(role, decision, action, amount))
      BY <1>2 DEF BeginHandler
    <2>3. CASE BeginCreate(s, d)
      <3>1. requests[d] = <<>> /\ job'[s] = Locals(d, NoForm, "none", 0)
        BY <1>0, <2>3 DEF BeginCreate, Begin
      <3>2. job'[s].case = d
        BY <3>1 DEF Locals
      <3>3. CASE d = c
        BY <2>1, <3>1, <3>3
      <3>4. CASE d # c
        <4>1. Creating(c)' \subseteq Creating(c)
          BY <1>1, <3>2, <3>4
        <4>2. QED
          BY <2>1, <4>1
      <3>5. QED
        BY <3>3, <3>4
    <2>4. CASE ~BeginCreate(s, d)
      <3>1. pc'[s] \in {"call_brief", "store_policy", "call_payment", "store_approval"}
        BY <1>0, <2>2, <2>4 DEF BeginBrief, BeginEvaluate, BeginPrepare, BeginApprove, Begin
      <3>2. QED
        BY <1>1, <2>1, <3>1
    <2>5. QED
      BY <2>3, <2>4
  <1>3. CASE StoreRequest(s)
    <2>1. pc[s] = "store_request" /\ pc'[s] \in {"idle", "request_case"}
      BY <1>0, <1>3 DEF StoreRequest, Proceed, Move
    <2>2. Creating(c)' \subseteq Creating(c) \ {s}
      BY <1>0, <2>1 DEF Creating
    <2>3. \/ requests'[c] = requests[c]
          \/ Len(requests'[c]) = Len(requests[c]) + 1 /\ job[s].case = c
      <3>1. CASE requests' = requests
        BY <3>1
      <3>2. CASE RequestInserted(job[s].case, job[s].approval)
        <4>1. PICK row \in RequestRows :
                requests' = [requests EXCEPT ![job[s].case] = Append(@, row)]
          BY <2>1, <3>2, RequestAppended
        <4>2. requests[c] \in Seq(RequestRows)
          BY <1>0
        <4>3. CASE job[s].case = c
          BY <1>0, <4>1, <4>2, <4>3
        <4>4. CASE job[s].case # c
          BY <1>0, <4>1, <4>4
        <4>5. QED
          BY <4>3, <4>4
      <3>3. QED
        BY <1>3, <3>1, <3>2 DEF StoreRequest
    <2>4. QED
      BY <2>1, <2>2, <2>3 DEF Creating
  <1>4. CASE (Step(s) \/ Abort(s)) /\ ~StoreRequest(s)
    <2>1. requests' = requests
      BY <1>4
      DEF Step, Abort, CallBrief, StoreBrief, AuditBrief, StorePolicy, PolicyCase,
          AuditPolicy, StoreApproval, ApprovalCase, AuditApproval, CallPayment,
          StorePayment, AuditPayment, ReadApproval, CheckRequest, RequestCase,
          AuditRequest, UpdateCaseStatus, RecordEvent, Tables
    <2>2. pc'[s] \in creating => pc[s] \in creating /\ job'[s].case = job[s].case
      <3>1. CASE ReadApproval(s)
        BY <1>0, <3>1 DEF ReadApproval, Proceed, Move, IntakeJobs
      <3>2. CASE CheckRequest(s)
        BY <1>0, <3>2 DEF CheckRequest, Proceed, Move
      <3>3. CASE ~ReadApproval(s) /\ ~CheckRequest(s)
        <4>1. pc'[s] \notin creating
          BY <1>0, <1>4, <3>3
          DEF Step, Abort, CallBrief, StoreBrief, AuditBrief, StorePolicy, PolicyCase,
              AuditPolicy, StoreApproval, ApprovalCase, AuditApproval, CallPayment,
              StorePayment, AuditPayment, RequestCase, AuditRequest, Proceed, Move
        <4>2. QED
          BY <4>1
      <3>4. QED
        BY <3>1, <3>2, <3>3
    <2>3. QED
      BY <1>1, <2>1, <2>2
  <1>5. QED
    BY <1>2, <1>3, <1>4

LEMMA RequestsFitStep ==
  ASSUME IntakeTypeOK, RequestsFitSessions, [Next]_vars
  PROVE  RequestsFitSessions'
  <1> SUFFICES ASSUME NEW c \in Cases
               PROVE  (Len(requests[c]) + Cardinality(Creating(c)) <= Cardinality(Sessions))'
    BY DEF RequestsFitSessions
  <1> DEFINE before == Creating(c)
             after == {s \in Sessions :
                         /\ pc'[s] \in {"read_approval", "check_request", "store_request"}
                         /\ job'[s].case = c}
  <1>0. /\ Creating(c)' = after /\ after \subseteq Sessions /\ before \subseteq Sessions
        /\ Len(requests[c]) \in Nat
        /\ Len(requests[c]) + Cardinality(before) <= Cardinality(Sessions)
    BY DEF Creating, RequestsFitSessions, IntakeTypeOK, IntakeTablesOK
  <1>1. /\ Cardinality(after) \in Nat /\ Cardinality(before) \in Nat
        /\ Cardinality(Sessions) \in Nat /\ IsFiniteSet(before)
        /\ Cardinality(after) <= Cardinality(Sessions)
    BY <1>0, CreatingSessions
  <1> HIDE DEF before, after
  <1>2. CASE requests'[c] = requests[c] /\ after \subseteq before
    <2>1. Cardinality(after) <= Cardinality(before)
      BY <1>1, <1>2, FS_Subset
    <2>2. QED
      BY <1>0, <1>1, <1>2, <2>1
  <1>3. CASE requests'[c] = requests[c] /\ requests[c] = <<>>
    <2>1. Len(requests'[c]) = 0
      BY <1>3
    <2>2. QED
      BY <1>0, <1>1, <2>1
  <1>4. ASSUME NEW s, Len(requests'[c]) = Len(requests[c]) + 1, s \in before,
               after \subseteq before \ {s}
        PROVE  (Len(requests[c]) + Cardinality(Creating(c)) <= Cardinality(Sessions))'
    <2>1. IsFiniteSet(before \ {s}) /\ Cardinality(before \ {s}) = Cardinality(before) - 1
      BY <1>1, <1>4, FS_RemoveElement
    <2>2. Cardinality(after) <= Cardinality(before) - 1
      BY <1>4, <2>1, FS_Subset
    <2>3. QED
      BY <1>0, <1>1, <1>4, <2>2
  <1>5. CASE UNCHANGED vars
    <2>1. requests'[c] = requests[c] /\ after = before
      BY <1>5 DEF vars, after, before, Creating
    <2>2. QED
      BY <1>2, <2>1
  <1>6. CASE Next
    <2>1. PICK s \in Sessions : BeginHandler(s) \/ Step(s) \/ Abort(s)
      BY <1>6 DEF Next
    <2>2. \/ requests'[c] = requests[c] /\ after \subseteq before
          \/ requests'[c] = requests[c] /\ requests[c] = <<>>
          \/ /\ Len(requests'[c]) = Len(requests[c]) + 1
             /\ s \in before /\ after \subseteq before \ {s}
      BY <1>0, <2>1, CreationFlow DEF before
    <2>3. QED
      BY <1>2, <1>3, <1>4, <2>2
  <1>7. QED
    BY <1>5, <1>6

LEMMA RequestsFitInit ==
  ASSUME Init
  PROVE  RequestsFitSessions
  <1>1. \A c \in Cases : Len(requests[c]) = 0 /\ Creating(c) = {}
    BY DEF Init, Creating
  <1>2. QED
    BY <1>1, CreatingSessions, FS_EmptySet DEF RequestsFitSessions

-----------------------------------------------------------------------------
(* What the case shows of decisions and requests, when no two handlers work on *)
(* one case at a time: no second decision is stored, and what a handler is     *)
(* about to show is what it has stored.                                        *)

\* Nothing in the code keeps two sessions off the same case, and the IntakeRace run
\* shows what happens then.  This is what an operator has to see to.
SerialHandlers ==
    \A s, t \in Sessions :
        pc[s] # "idle" /\ pc[t] # "idle" /\ job[s].case = job[t].case => s = t

\* One session alone is always serial.
OneSessionAtATime == \A s, t \in Sessions : s = t

LEMMA OneSessionIsSerial == OneSessionAtATime => SerialHandlers
  BY DEF OneSessionAtATime, SerialHandlers

\* A case holds what its handler has stored as long as the handler is at work.
StoredStays(c) ==
    /\ approvals'[c] = approvals[c]
    /\ requests[c] # <<>> => requests'[c] # <<>>

LastDecision(c) == approvals[c][Len(approvals[c])].decision

DecisionShown(c) ==
    /\ caseStatus[c] \in Decisions => approvals[c] # <<>> /\ LastDecision(c) = caseStatus[c]
    /\ caseStatus[c] = "execution_pending" => requests[c] # <<>>

DecisionHeld(s) ==
    LET c == job[s].case
    IN  /\ pc[s] = "store_approval" => approvals[c] = <<>>
        /\ pc[s] = "approval_case" =>
             approvals[c] # <<>> /\ LastDecision(c) = job[s].form.decision
        /\ pc[s] = "request_case" => requests[c] # <<>>

DecisionInv == (\A c \in Cases : DecisionShown(c)) /\ (\A s \in Sessions : DecisionHeld(s))

\* Who else writes the status of a case does not disturb it with another status.
LEMMA DecisionFrame ==
  ASSUME DecisionInv, UNCHANGED <<approvals, requests, pc, job>>,
         \A c \in Cases :
            \/ caseStatus'[c] = caseStatus[c]
            \/ caseStatus'[c] \notin Decisions \cup {"execution_pending"}
  PROVE  DecisionInv'
  <1>1. \A c \in Cases : DecisionShown(c)'
    BY DEF DecisionInv, DecisionShown, LastDecision
  <1>2. \A s \in Sessions : DecisionHeld(s)'
    BY DEF DecisionInv, DecisionHeld, LastDecision
  <1>3. QED
    BY <1>1, <1>2 DEF DecisionInv

\* There is only the handler that moves to look after, where the others find on their
\* cases what they have stored.
LEMMA DecisionAlone ==
  ASSUME IntakeTypeOK, DecisionInv,
         NEW s \in Sessions, BeginHandler(s) \/ Step(s) \/ Abort(s),
         DecisionHeld(s)', \A c \in Cases : DecisionShown(c)',
         \A t \in Sessions \ {s} : pc[t] # "idle" => StoredStays(job[t].case)
  PROVE  DecisionInv'
  <1>1. ASSUME NEW t \in Sessions \ {s}
        PROVE  DecisionHeld(t)'
    <2>1. pc'[t] = pc[t] /\ job'[t] = job[t] /\ DecisionHeld(t)
      BY OtherSessions DEF DecisionInv
    <2>2. CASE pc[t] = "idle"
      BY <2>1, <2>2 DEF DecisionHeld
    <2>3. CASE pc[t] # "idle"
      BY <2>1, <2>3 DEF DecisionHeld, LastDecision, StoredStays
    <2>4. QED
      BY <2>2, <2>3
  <1>2. QED
    BY <1>1 DEF DecisionInv

\* A statement that stores neither a decision nor a request disturbs no other handler.
LEMMA DecisionKept ==
  ASSUME IntakeTypeOK, DecisionInv,
         NEW s \in Sessions, BeginHandler(s) \/ Step(s) \/ Abort(s),
         DecisionHeld(s)', \A c \in Cases : DecisionShown(c)',
         UNCHANGED <<approvals, requests>>
  PROVE  DecisionInv'
  BY DecisionAlone DEF StoredStays

LEMMA DecisionBegin ==
  ASSUME IntakeTypeOK, DecisionInv, NEW s \in Sessions, BeginHandler(s)
  PROVE  DecisionInv'
  <1>0. pc \in [Sessions -> Steps \cup {"idle"}] /\ job \in [Sessions -> IntakeJobs]
    BY DEF IntakeTypeOK, IntakeControlOK
  <1>1. PICK c \in Cases :
          \/ BeginBrief(s, c) \/ BeginEvaluate(s, c) \/ BeginPrepare(s, c) \/ BeginCreate(s, c)
          \/ \E role \in Roles, decision \in Decisions, action \in FormActions,
                amount \in Amounts :
                BeginApprove(s, c, Form(role, decision, action, amount))
    BY DEF BeginHandler
  <1>2. UNCHANGED <<caseStatus, approvals, requests>>
    BY <1>1 DEF BeginBrief, BeginEvaluate, BeginPrepare, BeginCreate, BeginApprove, Begin,
                Tables
  <1>3. \A d \in Cases : DecisionShown(d)'
    BY <1>2 DEF DecisionInv, DecisionShown, LastDecision
  <1>4. CASE BeginBrief(s, c) \/ BeginEvaluate(s, c) \/ BeginPrepare(s, c) \/ BeginCreate(s, c)
    <2>1. pc'[s] \in {"call_brief", "store_policy", "call_payment", "read_approval"}
      BY <1>0, <1>4 DEF BeginBrief, BeginEvaluate, BeginPrepare, BeginCreate, Begin
    <2>2. DecisionHeld(s)'
      BY <2>1 DEF DecisionHeld
    <2>3. QED
      BY <1>2, <1>3, <2>2, DecisionKept
  <1>5. ASSUME NEW form, BeginApprove(s, c, form)
        PROVE  DecisionInv'
    <2>1. approvals[c] = <<>>
      BY <1>5 DEF BeginApprove
    <2>2. PICK outcome : /\ pc' = [pc EXCEPT ![s] = "store_approval"]
                         /\ job' = [job EXCEPT ![s] = Locals(c, form, outcome, 0)]
      BY <1>5 DEF BeginApprove, Begin
    <2>3. pc'[s] = "store_approval" /\ job'[s].case = c
      BY <1>0, <2>2 DEF Locals
    <2>4. DecisionHeld(s)'
      BY <1>2, <2>1, <2>3 DEF DecisionHeld
    <2>5. QED
      BY <1>2, <1>3, <2>4, DecisionKept
  <1>6. QED
    BY <1>1, <1>4, <1>5

\* The decision becomes the last one, of a case that showed none.
LEMMA DecisionStored ==
  ASSUME SerialHandlers, IntakeTypeOK, DecisionInv, NEW s \in Sessions, StoreApproval(s),
         NEW c, c = job[s].case
  PROVE  DecisionInv'
  <1>0. /\ pc \in [Sessions -> Steps \cup {"idle"}] /\ job \in [Sessions -> IntakeJobs]
        /\ approvals \in [Cases -> Seq(ApprovalRows)]
    BY DEF IntakeTypeOK, IntakeControlOK, IntakeTablesOK
  <1>1. /\ pc[s] = "store_approval" /\ pc'[s] = "approval_case" /\ job'[s] = job[s]
        /\ UNCHANGED <<caseStatus, requests>>
    BY <1>0 DEF StoreApproval, Proceed, Move
  <1>2. c \in Cases /\ approvals[c] = <<>>
    BY <1>1 DEF IntakeTypeOK, IntakeControlOK, HandlerOK, DecisionInv, DecisionHeld
  <1>3. PICK row : /\ row.decision = job[s].form.decision
                   /\ approvals' = [approvals EXCEPT ![c] = Append(@, row)]
    <2>1. PICK tied : approvals' = [approvals EXCEPT ![c] = Append(@,
                [outcome |-> job[s].outcome, role |-> job[s].form.role,
                 decision |-> job[s].form.decision, action |-> job[s].form.action,
                 amount |-> job[s].form.amount, tied |-> tied])]
      BY DEF StoreApproval
    <2>2. QED
      BY <2>1
  <1>4. approvals'[c] = <<row>>
    <2>1. approvals'[c] = Append(approvals[c], row)
      BY <1>0, <1>2, <1>3
    <2>2. Append(<<>>, row) = <<row>>
      OBVIOUS
    <2>3. QED
      BY <1>2, <2>1, <2>2
  <1>5. \A d \in Cases \ {c} : approvals'[d] = approvals[d]
    BY <1>0, <1>3
  <1>6. DecisionHeld(s)'
    <2>1. approvals'[c] # <<>> /\ approvals'[c][Len(approvals'[c])] = row
      BY <1>4
    <2>2. LastDecision(c)' = job'[s].form.decision
      BY <1>1, <1>3, <2>1 DEF LastDecision
    <2>3. QED
      BY <1>1, <2>1, <2>2 DEF DecisionHeld
  <1>7. \A d \in Cases : DecisionShown(d)'
    <2>1. DecisionShown(c)'
      BY <1>1, <1>2 DEF DecisionInv, DecisionShown
    <2>2. \A d \in Cases \ {c} : DecisionShown(d)'
      BY <1>1, <1>5 DEF DecisionInv, DecisionShown, LastDecision
    <2>3. QED
      BY <2>1, <2>2
  <1>8. ASSUME NEW t \in Sessions \ {s}, pc[t] # "idle"
        PROVE  StoredStays(job[t].case)
    <2>1. job[t].case \in Cases /\ job[t].case # c
      BY <1>1, <1>8 DEF SerialHandlers, IntakeTypeOK, IntakeControlOK, HandlerOK
    <2>2. QED
      BY <1>1, <1>5, <2>1 DEF StoredStays
  <1>9. QED
    BY <1>6, <1>7, <1>8, DecisionAlone DEF Step

\* The two statements that show a decision or a pending execution, and the one of the
\* policy, which shows neither.
LEMMA DecisionCase ==
  ASSUME IntakeTypeOK, DecisionInv, NEW s \in Sessions,
         PolicyCase(s) \/ ApprovalCase(s) \/ RequestCase(s), NEW c, c = job[s].case
  PROVE  DecisionInv'
  <1>0. /\ pc \in [Sessions -> Steps \cup {"idle"}] /\ job \in [Sessions -> IntakeJobs]
        /\ caseStatus \in [Cases -> CaseStatuses]
    BY DEF IntakeTypeOK, IntakeControlOK, IntakeTablesOK
  <1>1. /\ pc[s] \in {"policy_case", "approval_case", "request_case"}
        /\ pc'[s] \in {"audit_policy", "audit_approval", "audit_request"}
        /\ UNCHANGED <<approvals, requests>>
        /\ \A d \in Cases \ {c} : caseStatus'[d] = caseStatus[d]
    BY <1>0 DEF PolicyCase, ApprovalCase, RequestCase, Proceed, Move, UpdateCaseStatus
  <1>2. c \in Cases /\ HandlerOK(s)
    BY <1>1 DEF IntakeTypeOK, IntakeControlOK, HandlerOK
  <1>3. DecisionShown(c)'
    <2>1. CASE PolicyCase(s)
      <3>1. job[s].outcome \in Outcomes
        BY <1>2, <2>1 DEF PolicyCase, Proceed, Move, HandlerOK
      <3>2. caseStatus'[c] \in {"pending_approval", "under_review", "blocked"}
        BY <1>0, <1>2, <2>1, <3>1, PolicyTypes DEF PolicyCase, UpdateCaseStatus
      <3>3. QED
        BY <3>2 DEF DecisionShown, Decisions
    <2>2. CASE ApprovalCase(s)
      <3>1. /\ approvals[c] # <<>> /\ LastDecision(c) = job[s].form.decision
            /\ job[s].form.decision \in Decisions
        BY <1>2, <2>2 DEF ApprovalCase, Proceed, Move, HandlerOK, DecisionInv, DecisionHeld
      <3>2. caseStatus'[c] = job[s].form.decision
        BY <1>0, <1>2, <2>2 DEF ApprovalCase, UpdateCaseStatus
      <3>3. QED
        BY <1>1, <3>1, <3>2 DEF DecisionShown, LastDecision, Decisions
    <2>3. CASE RequestCase(s)
      <3>1. requests[c] # <<>>
        BY <2>3 DEF RequestCase, Proceed, Move, DecisionInv, DecisionHeld
      <3>2. caseStatus'[c] = "execution_pending"
        BY <1>0, <1>2, <2>3 DEF RequestCase, UpdateCaseStatus
      <3>3. QED
        BY <1>1, <3>1, <3>2 DEF DecisionShown, Decisions
    <2>4. QED
      BY <2>1, <2>2, <2>3
  <1>4. \A d \in Cases \ {c} : DecisionShown(d)'
    BY <1>1 DEF DecisionInv, DecisionShown, LastDecision
  <1>5. DecisionHeld(s)'
    BY <1>1 DEF DecisionHeld
  <1>6. QED
    BY <1>1, <1>3, <1>4, <1>5, DecisionKept DEF Step

\* The request exists when the case is about to show it.
LEMMA DecisionRequested ==
  ASSUME IntakeTypeOK, DecisionInv, NEW s \in Sessions, StoreRequest(s),
         NEW c, c = job[s].case
  PROVE  DecisionInv'
  <1>0. /\ pc \in [Sessions -> Steps \cup {"idle"}] /\ job \in [Sessions -> IntakeJobs]
        /\ requests \in [Cases -> Seq(RequestRows)]
    BY DEF IntakeTypeOK, IntakeControlOK, IntakeTablesOK
  <1>1. pc[s] = "store_request" /\ UNCHANGED <<caseStatus, approvals>>
    BY DEF StoreRequest
  <1>2. CASE pc'[s] = "idle" /\ requests' = requests
    <2>1. DecisionHeld(s)'
      BY <1>2 DEF DecisionHeld
    <2>2. \A d \in Cases : DecisionShown(d)'
      BY <1>1, <1>2 DEF DecisionInv, DecisionShown, LastDecision
    <2>3. QED
      BY <1>1, <1>2, <2>1, <2>2, DecisionKept DEF Step
  <1>3. CASE pc'[s] = "request_case" /\ job'[s] = job[s] /\ RequestInserted(c, job[s].approval)
    <2>1. PICK row \in RequestRows : requests' = [requests EXCEPT ![c] = Append(@, row)]
      BY <1>1, <1>3, RequestAppended
    <2>2. c \in Cases
      BY <1>1 DEF IntakeTypeOK, IntakeControlOK, HandlerOK
    <2>3. requests'[c] = Append(requests[c], row) /\ requests[c] \in Seq(RequestRows)
      BY <1>0, <2>1, <2>2
    <2>4. requests'[c] # <<>>
      BY <2>3
    <2>5. \A d \in Cases : requests[d] # <<>> => requests'[d] # <<>>
      BY <1>0, <2>1, <2>4
    <2>6. DecisionHeld(s)'
      BY <1>3, <2>4 DEF DecisionHeld
    <2>7. \A d \in Cases : DecisionShown(d)'
      BY <1>1, <2>5 DEF DecisionInv, DecisionShown, LastDecision
    <2>8. \A t \in Sessions \ {s} : pc[t] # "idle" => StoredStays(job[t].case)
      BY <1>1, <2>5 DEF StoredStays, IntakeTypeOK, IntakeControlOK, HandlerOK
    <2>9. QED
      BY <2>6, <2>7, <2>8, DecisionAlone DEF Step
  <1>4. QED
    BY <1>0, <1>2, <1>3 DEF StoreRequest, Proceed, Move

\* Every other statement leaves decisions, requests and the case as they are.
LEMMA DecisionOther ==
  ASSUME IntakeTypeOK, DecisionInv, NEW s \in Sessions,
         \/ CallBrief(s) \/ StoreBrief(s) \/ AuditBrief(s) \/ StorePolicy(s) \/ AuditPolicy(s)
         \/ AuditApproval(s) \/ CallPayment(s) \/ StorePayment(s) \/ AuditPayment(s)
         \/ ReadApproval(s) \/ CheckRequest(s) \/ AuditRequest(s) \/ Abort(s)
  PROVE  DecisionInv'
  <1>0. pc \in [Sessions -> Steps \cup {"idle"}] /\ job \in [Sessions -> IntakeJobs]
    BY DEF IntakeTypeOK, IntakeControlOK
  <1>1. UNCHANGED <<caseStatus, approvals, requests>>
    BY DEF CallBrief, StoreBrief, AuditBrief, StorePolicy, AuditPolicy, AuditApproval,
           CallPayment, StorePayment, AuditPayment, ReadApproval, CheckRequest, AuditRequest,
           Abort, RecordEvent, Tables
  <1>2. pc'[s] \notin {"store_approval", "approval_case", "request_case"}
    BY <1>0
    DEF CallBrief, StoreBrief, AuditBrief, StorePolicy, AuditPolicy, AuditApproval,
        CallPayment, StorePayment, AuditPayment, ReadApproval, CheckRequest, AuditRequest,
        Abort, Proceed, Move
  <1>3. DecisionHeld(s)'
    BY <1>2 DEF DecisionHeld
  <1>4. \A d \in Cases : DecisionShown(d)'
    BY <1>1 DEF DecisionInv, DecisionShown, LastDecision
  <1>5. QED
    BY <1>1, <1>3, <1>4, DecisionKept DEF Step

LEMMA DecisionInvStep ==
  ASSUME SerialHandlers, IntakeTypeOK, DecisionInv, [Next]_vars
  PROVE  DecisionInv'
  <1>1. CASE UNCHANGED vars
    BY <1>1, DecisionFrame DEF vars
  <1>2. ASSUME NEW s \in Sessions, BeginHandler(s) \/ Step(s) \/ Abort(s)
        PROVE  DecisionInv'
    BY <1>2, DecisionBegin, DecisionStored, DecisionCase, DecisionRequested, DecisionOther
    DEF Step
  <1>3. QED
    BY <1>1, <1>2 DEF Next

LEMMA DecisionInvInit ==
  ASSUME Init
  PROVE  DecisionInv
  <1>1. \A c \in Cases : caseStatus[c] \in {"new", "under_review", "pending_approval"}
    BY SeedCasesAssumption DEF Init
  <1>2. QED
    BY <1>1 DEF Init, DecisionInv, DecisionShown, DecisionHeld, Decisions

\* The last decision is one of those a read of the latest can return.
LEMMA DecisionMeans ==
  ASSUME IntakeTypeOK, DecisionInv
  PROVE  CaseShowsDecision
  <1>1. ASSUME NEW c \in Cases, caseStatus[c] \in Decisions
        PROVE  \E i \in LatestApprovals(c) : approvals[c][i].decision = caseStatus[c]
    <2>1. approvals[c] # <<>> /\ LastDecision(c) = caseStatus[c]
      BY <1>1 DEF DecisionInv, DecisionShown
    <2>2. Len(approvals[c]) \in Nat \ {0}
      <3>1. approvals[c] \in Seq(ApprovalRows)
        BY DEF IntakeTypeOK, IntakeTablesOK
      <3>2. QED
        BY <2>1, <3>1
    <2>3. Len(approvals[c]) \in LatestApprovals(c)
      BY <2>2 DEF LatestApprovals, Latest
    <2>4. QED
      BY <2>1, <2>3 DEF LastDecision
  <1>2. QED
    BY <1>1 DEF CaseShowsDecision, DecisionInv, DecisionShown

-----------------------------------------------------------------------------
(* Serial handlers create one request for a case at most: while one is being *)
(* created there is none, and nobody else creates another.                   *)

OnlyRequest(c) ==
    /\ Len(requests[c]) <= 1
    /\ Creating(c) # {} => requests[c] = <<>>

OneRequestInv == \A c \in Cases : OnlyRequest(c)

LEMMA OneRequestStep ==
  ASSUME SerialHandlers, IntakeTypeOK, OneRequestInv, [Next]_vars
  PROVE  OneRequestInv'
  <1> SUFFICES ASSUME NEW c \in Cases
               PROVE  OnlyRequest(c)'
    BY DEF OneRequestInv
  <1>0. OnlyRequest(c)
    BY DEF OneRequestInv
  <1>1. CASE UNCHANGED vars
    BY <1>0, <1>1 DEF vars, OnlyRequest, Creating
  <1>2. ASSUME NEW s \in Sessions, BeginHandler(s) \/ Step(s) \/ Abort(s)
        PROVE  OnlyRequest(c)'
    <2>1. CASE requests'[c] = requests[c] /\ Creating(c)' \subseteq Creating(c)
      BY <1>0, <2>1 DEF OnlyRequest
    <2>2. CASE requests'[c] = requests[c] /\ requests[c] = <<>>
      BY <2>2 DEF OnlyRequest
    <2>3. CASE /\ Len(requests'[c]) = Len(requests[c]) + 1
               /\ s \in Creating(c) /\ Creating(c)' \subseteq Creating(c) \ {s}
      <3>1. Len(requests'[c]) = 1
        BY <1>0, <2>3 DEF OnlyRequest
      <3>2. Creating(c) \ {s} = {}
        BY <2>3 DEF Creating, SerialHandlers
      <3>3. Creating(c)' = {}
        BY <2>3, <3>2
      <3>4. QED
        BY <3>1, <3>3 DEF OnlyRequest
    <2>4. QED
      BY <1>2, <2>1, <2>2, <2>3, CreationFlow
  <1>3. QED
    BY <1>1, <1>2 DEF Next

LEMMA OneRequestInit ==
  ASSUME Init
  PROVE  OneRequestInv
  BY DEF Init, OneRequestInv, OnlyRequest, Creating

LEMMA OneRequestFrame ==
  ASSUME OneRequestInv, UNCHANGED <<requests, pc, job>>
  PROVE  OneRequestInv'
  BY DEF OneRequestInv, OnlyRequest, Creating

-----------------------------------------------------------------------------
(* What the intake writes to the status of a case, where it is not one of the *)
(* outcomes of an execution.                                                  *)

IntakeStatuses ==
    { "new", "under_review", "pending_approval", "blocked", "approved", "rejected",
      "execution_pending" }

LEMMA IntakeCaseWritten ==
  ASSUME IntakeTypeOK, NEW s \in Sessions, BeginHandler(s) \/ Step(s) \/ Abort(s),
         NEW c \in Cases
  PROVE  caseStatus'[c] = caseStatus[c] \/ caseStatus'[c] \in IntakeStatuses
  <1>0. caseStatus \in [Cases -> CaseStatuses]
    BY DEF IntakeTypeOK, IntakeTablesOK
  <1>1. ASSUME NEW d, NEW status \in IntakeStatuses, UpdateCaseStatus(d, status)
        PROVE  caseStatus'[c] = caseStatus[c] \/ caseStatus'[c] \in IntakeStatuses
    BY <1>0, <1>1 DEF UpdateCaseStatus
  <1>2. CASE PolicyCase(s)
    <2>1. job[s].outcome \in Outcomes
      BY <1>2 DEF PolicyCase, Proceed, Move, IntakeTypeOK, IntakeControlOK, HandlerOK
    <2>2. CaseStatusForOutcome(job[s].outcome) \in IntakeStatuses
      BY <2>1, PolicyTypes DEF IntakeStatuses
    <2>3. QED
      BY <1>1, <1>2, <2>2 DEF PolicyCase
  <1>3. CASE ApprovalCase(s)
    <2>1. job[s].form.decision \in IntakeStatuses
      BY <1>3 DEF ApprovalCase, Proceed, Move, IntakeTypeOK, IntakeControlOK, HandlerOK,
                  Decisions, IntakeStatuses
    <2>2. QED
      BY <1>1, <1>3, <2>1 DEF ApprovalCase
  <1>4. CASE RequestCase(s)
    <2>1. "execution_pending" \in IntakeStatuses
      BY DEF IntakeStatuses
    <2>2. QED
      BY <1>1, <1>4, <2>1 DEF RequestCase
  <1>5. CASE BeginHandler(s)
    BY <1>5 DEF BeginHandler, BeginBrief, BeginEvaluate, BeginPrepare, BeginCreate,
                BeginApprove, Begin, Tables
  <1>6. CASE (Step(s) \/ Abort(s)) /\ ~PolicyCase(s) /\ ~ApprovalCase(s) /\ ~RequestCase(s)
    <2>1. CASE CallBrief(s) \/ StoreBrief(s) \/ AuditBrief(s) \/ StorePolicy(s)
                \/ AuditPolicy(s) \/ StoreApproval(s) \/ AuditApproval(s) \/ Abort(s)
      BY <2>1 DEF CallBrief, StoreBrief, AuditBrief, StorePolicy, AuditPolicy, StoreApproval,
                  AuditApproval, Abort, RecordEvent, Tables
    <2>2. CASE CallPayment(s) \/ StorePayment(s) \/ AuditPayment(s) \/ ReadApproval(s)
                \/ CheckRequest(s) \/ StoreRequest(s) \/ AuditRequest(s)
      BY <2>2 DEF CallPayment, StorePayment, AuditPayment, ReadApproval, CheckRequest,
                  StoreRequest, AuditRequest, RecordEvent, Tables
    <2>3. QED
      BY <1>6, <2>1, <2>2 DEF Step
  <1>7. QED
    BY <1>2, <1>3, <1>4, <1>5, <1>6
=============================================================================
