-------------------------------- MODULE Console --------------------------------
(***************************************************************************)
(* The whole console: CaseIntake and ExecutionSessions over one database.  *)
(* Both halves write the status of the case; a session runs one handler at *)
(* a time, of either half; the execution panels appear once the case has   *)
(* an execution request, and always work on the latest one.                *)
(*                                                                         *)
(* A row of execution_requests has two parts: what it was created with, in *)
(* requests[c] of the intake, and what execution does to it, in request[r] *)
(* with r = <<c, k>> for the k-th row of case c.  The events of audit_events *)
(* are counted in two variables, one per half, and so is the control.      *)
(***************************************************************************)
EXTENDS Naturals, Sequences, FiniteSets

CONSTANTS
    Sessions, Cases, SeedCases, Amounts, FormActions, MANAGER_APPROVAL_THRESHOLD,
    MAX_RETRY_ATTEMPTS,
    MaxBriefs, MaxEvaluations, MaxPayments, MaxRuns, MaxRecoveries, MaxAborts   \* bounds

VARIABLES
    caseStatus, aborts,                                               \* shared
    caseData, briefs, evaluations, approvals, payments, requests,     \* intake
    intents, intakeAudit, intakePc, intakeJob,
    request, attempts, runs, recoveries, refund, mockWrites,          \* execution
    executionAudit, executionPc, executionJob

intakeVars == <<caseData, briefs, evaluations, approvals, payments, requests, intents,
                intakeAudit, intakePc, intakeJob>>
executionVars == <<request, attempts, runs, recoveries, refund, mockWrites,
                   executionAudit, executionPc, executionJob>>
vars == <<caseStatus, aborts, intakeVars, executionVars>>

\* Who creates a request has seen none, so a case gets at most one per session.
RequestSlots == Cases \X (1 .. Cardinality(Sessions))

\* The two halves, each with its properties and with what is proved of it.
Intake == INSTANCE IntakeTrailProofs
    WITH audit <- intakeAudit, pc <- intakePc, job <- intakeJob

Execution == INSTANCE SerialProofs
    WITH Requests <- RequestSlots,
         CaseOf <- [r \in RequestSlots |-> r[1]],
         TestPayments <- [c \in Cases |-> {"none", "stripe", "mock"}],
         audit <- executionAudit, pc <- executionPc, job <- executionJob

ASSUME ConsoleAssumption ==
    /\ IsFiniteSet(Sessions) /\ Sessions # {}
    /\ SeedCases \subseteq
         [currency : {"EUR", "USD"}, issue_type : Intake!IssueTypes, amount : Nat,
          status : {"new", "under_review", "pending_approval"}]
    /\ Amounts \subseteq Nat /\ FormActions \subseteq Intake!Actions
    /\ MANAGER_APPROVAL_THRESHOLD \in Nat /\ MAX_RETRY_ATTEMPTS \in Nat \ {0}
    /\ MaxBriefs \in Nat /\ MaxEvaluations \in Nat /\ MaxPayments \in Nat
    /\ MaxRuns \in Nat /\ MaxRecoveries \in Nat /\ MaxAborts \in Nat

\* Execution starts from rows as they are inserted; the status of a case is the
\* intake's.
Init == Intake!Init /\ Execution!InitRequests

-----------------------------------------------------------------------------
\* The request the panels of the case work on (get_latest_execution_request).
LatestRequests(c) == {<<c, k>> : k \in Intake!Latest(requests[c])}

\* Only a PaymentIntent created at Stripe can be refunded there.
PaymentKind(payment) == IF payment.source = "stripe" THEN "stripe" ELSE "mock"

\* What the panels of a case offer: nothing before there is a request, and Stripe
\* only with the latest test payment of the case.
BeginExecution(s) ==
    \E c \in Cases : \E r \in LatestRequests(c) :
        \/ Execution!BeginExecute(s, r, "mock", "none")
        \/ \E i \in Intake!Latest(payments[c]) :
             Execution!BeginExecute(s, r, "stripe", PaymentKind(payments[c][i]))
        \/ Execution!BeginRetry(s, r)
        \/ Execution!BeginReconcile(s, r)
        \/ \E action \in Execution!RecoveryActions : Execution!BeginRecover(s, r, action)

IntakeNext(s) ==
    /\ \/ executionPc[s] = "idle" /\ Intake!BeginHandler(s)
       \/ Intake!Step(s)
       \/ Intake!Abort(s)
    /\ UNCHANGED executionVars

\* The execution half changes of the intake's state only the case and the stops.
ExecutionNext(s) ==
    /\ \/ intakePc[s] = "idle" /\ BeginExecution(s)
       \/ Execution!Step(s)
       \/ Execution!Abort(s)
    /\ UNCHANGED intakeVars

Next ==
    \/ \E s \in Sessions : IntakeNext(s) \/ ExecutionNext(s)
    \/ \E r \in RequestSlots : Execution!RefundSettles(r) /\ UNCHANGED intakeVars

Spec == Init /\ [][Next]_vars
=============================================================================
