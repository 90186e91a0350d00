------------------------------ MODULE CaseIntake ------------------------------
(***************************************************************************)
(* From a billing case to a durable execution request: the AI case brief,  *)
(* policy evaluation, human approval, the Stripe test payment and the      *)
(* creation of the request.  As in ExecutionSessions every statement is a  *)
(* transaction of its own and sessions interleave between statements; a    *)
(* handler may stop between two of them.  The five handlers:               *)
(*   brief     generate_and_store_case_brief                               *)
(*   evaluate  evaluate_and_store_policy                                   *)
(*   approve   create_approval_decision, behind the gate of its panel      *)
(*   prepare   create_and_store_stripe_test_payment                        *)
(*   create    create_execution_request, behind the gate of its panel      *)
(***************************************************************************)
EXTENDS Naturals, Sequences, FiniteSets

CONSTANTS
    Sessions,          \* browser sessions
    Cases,             \* billing cases
    SeedCases,         \* the cases as seeded: what policy looks at, and the status
    Amounts,           \* amounts an approver may type, in cents
    FormActions,       \* actions an approver may pick
    MANAGER_APPROVAL_THRESHOLD,
    MaxBriefs,         \* bound on AI briefs stored per case
    MaxEvaluations,    \* bound on policy evaluations stored per case
    MaxPayments,       \* bound on test payments; 0 leaves them out
    MaxAborts          \* bound on handlers that stop midway

BLOCKED_ISSUE_TYPES == {"currency_mismatch"}
DUPLICATE_REVIEW_ISSUE_TYPES == {"possible_duplicate_correction"}
STANDARD_ELIGIBLE_ISSUE_TYPES ==
    {"duplicate_charge", "wrong_plan_price", "discount_not_applied", "goodwill_credit"}
IssueTypes == BLOCKED_ISSUE_TYPES \cup DUPLICATE_REVIEW_ISSUE_TYPES
                  \cup STANDARD_ELIGIBLE_ISSUE_TYPES \cup {"other"}

Actions == {"refund", "credit_note", "hold_for_manual_review"}

ASSUME IntakeSessionsAssumption == IsFiniteSet(Sessions) /\ Sessions # {}
ASSUME SeedCasesAssumption ==
    SeedCases \subseteq
        [currency : {"EUR", "USD"}, issue_type : IssueTypes, amount : Nat,
         status : {"new", "under_review", "pending_approval"}]
ASSUME AmountsAssumption ==
    /\ Amounts \subseteq Nat /\ FormActions \subseteq Actions
    /\ MANAGER_APPROVAL_THRESHOLD \in Nat
    /\ MaxBriefs \in Nat /\ MaxEvaluations \in Nat /\ MaxPayments \in Nat
    /\ MaxAborts \in Nat

VARIABLES
    caseData,          \* billing_cases as seeded; no operation updates those columns
    caseStatus,        \* billing_cases.status
    briefs,            \* ai_case_briefs
    evaluations,       \* policy_evaluations
    approvals,         \* approvals
    payments,          \* stripe_test_payments
    requests,          \* execution_requests
    intents,           \* PaymentIntents that exist at Stripe
    audit,             \* audit_events, counted per kind of event
    pc, job,           \* the handler each session is running, and its locals
    aborts             \* handlers that stopped midway

vars == <<caseData, caseStatus, briefs, evaluations, approvals, payments, requests,
          intents, audit, pc, job, aborts>>

-----------------------------------------------------------------------------
Outcomes == {"eligible_for_approval", "requires_manager_approval", "needs_more_review", "blocked"}
Roles == {"billing_ops_agent", "finance_manager"}
Decisions == {"approved", "rejected"}
Sources == {"mock", "stripe", "fallback"}
Events == {"brief", "policy", "approval", "payment", "request"}

\* In all rows, tied: the row has the created_at (to the second) of the row before it.
PaymentRows == [source : Sources, tied : BOOLEAN]
ApprovalRows ==
    [outcome : Outcomes, role : Roles, decision : Decisions, action : Actions,
     amount : Amounts, tied : BOOLEAN]

\* evaluate_policy, in the order of its tests.
EvaluatePolicy(data) ==
    IF data.currency # "EUR" \/ data.issue_type \in BLOCKED_ISSUE_TYPES
    THEN "blocked"
    ELSE IF data.issue_type \notin STANDARD_ELIGIBLE_ISSUE_TYPES THEN "needs_more_review"
    ELSE IF data.amount > MANAGER_APPROVAL_THRESHOLD THEN "requires_manager_approval"
    ELSE "eligible_for_approval"

\* Mutant: the outcome is stored as the case status.
CaseStatusIsOutcome(outcome) == outcome

\* _get_case_status_for_policy_outcome
CaseStatusForOutcome(outcome) ==
    CASE outcome \in {"eligible_for_approval", "requires_manager_approval"} -> "pending_approval"
      [] outcome = "needs_more_review" -> "under_review"
      [] outcome = "blocked" -> "blocked"

\* Mutant: a manager's case can be approved by anyone.
AnyRoleCanApprove(outcome, role) ==
    outcome \in {"eligible_for_approval", "requires_manager_approval"}

\* can_case_be_approved, for the outcome of the latest evaluation.
CanBeApproved(outcome, role) ==
    \/ outcome = "eligible_for_approval"
    \/ outcome = "requires_manager_approval" /\ role = "finance_manager"

\* The rows a read of the latest one can return: SQLite leaves open which of the
\* rows with the latest second comes first.
Latest(rows) == {i \in 1 .. Len(rows) : \A k \in i + 1 .. Len(rows) : rows[k].tied}

LatestApprovals(c) == Latest(approvals[c])

\* What the column tied can be in the row appended to rows.
Ties(rows) == {FALSE} \cup {rows # <<>>}

\* generate_idempotency_key of an approval of the case.
IdempotencyKey(c, i) ==
    [case |-> c, approval |-> i, action |-> approvals[c][i].action,
     amount |-> approvals[c][i].amount]

-----------------------------------------------------------------------------
(* The AI brief.  Of its six fields the list risk_notes stands for all: a text *)
(* also falls back to its default, when it is missing or empty.  Of the list   *)
(* it only matters which kinds of items it holds.                              *)

Brief(runtime_result, risk_notes, error) ==
    [runtime_result |-> runtime_result, risk_notes |-> risk_notes, error_message |-> error]

MockBrief == Brief("forced_mock_used", {"default"}, FALSE)
FallbackBrief == Brief("fallback_used", {"default"}, TRUE)

\* What the model may put into a list field: no list at all, or items that are
\* blank or not.
ModelLists == [is_list : BOOLEAN, items : SUBSET {"blank", "text"}]

\* Mutant: an empty list is kept.
EnsureAnyList(value) == IF value.is_list THEN value.items ELSE {"default"}

\* _ensure_string_list: blank items are dropped, and nothing left means the default.
EnsureStringList(value) ==
    LET cleaned == value.items \ {"blank"}
    IN  IF value.is_list /\ cleaned # {} THEN cleaned ELSE {"default"}

\* _normalize_brief_payload of an answer that could be parsed.
NormalizeBrief(risk_notes) == Brief("live_success", EnsureStringList(risk_notes), FALSE)

-----------------------------------------------------------------------------
(* Handlers *)

Form(role, decision, action, amount) ==
    [role |-> role, decision |-> decision, action |-> action, amount |-> amount]

NoForm == Form("none", "none", "none", 0)

\* The locals of a handler: its case, the fields typed, the policy outcome or the
\* number of the approval read, where a payment came from, and the brief obtained.
Locals(c, form, outcome, approval) ==
    [case |-> c, form |-> form, outcome |-> outcome, approval |-> approval,
     source |-> "none", brief |-> MockBrief]

NoJob == Locals("none", NoForm, "none", 0)

\* The cases of seed_database, before anything has happened to them.
Init ==
    /\ caseData \in [Cases -> SeedCases]
    /\ caseStatus = [c \in Cases |-> caseData[c].status]
    /\ briefs = [c \in Cases |-> <<>>]
    /\ evaluations = [c \in Cases |-> <<>>]
    /\ approvals = [c \in Cases |-> <<>>]
    /\ payments = [c \in Cases |-> <<>>]
    /\ requests = [c \in Cases |-> <<>>]
    /\ intents = [c \in Cases |-> 0]
    /\ audit = [c \in Cases |-> [e \in Events |-> 0]]
    /\ pc = [s \in Sessions |-> "idle"]
    /\ job = [s \in Sessions |-> NoJob]
    /\ aborts = 0

-----------------------------------------------------------------------------
(* Control and the statements every handler shares *)

Tables == <<caseData, caseStatus, briefs, evaluations, approvals, payments, requests,
            intents, audit, aborts>>

Begin(s, first, locals) ==
    /\ pc[s] = "idle"
    /\ pc' = [pc EXCEPT ![s] = first]
    /\ job' = [job EXCEPT ![s] = locals]
    /\ UNCHANGED Tables

Move(s, here, there) ==
    /\ pc[s] = here
    /\ pc' = [pc EXCEPT ![s] = there]

Proceed(s, here, there) ==
    /\ Move(s, here, there)
    /\ job' = [job EXCEPT ![s] = IF there = "idle" THEN NoJob ELSE @]

UpdateCaseStatus(c, status) ==
    /\ caseStatus' = [caseStatus EXCEPT ![c] = status]
    /\ UNCHANGED <<caseData, briefs, evaluations, approvals, payments, requests,
                   intents, audit, aborts>>

RecordEvent(c, event) ==
    /\ audit' = [audit EXCEPT ![c][event] = @ + 1]
    /\ UNCHANGED <<caseData, caseStatus, briefs, evaluations, approvals, payments,
                   requests, intents, aborts>>

-----------------------------------------------------------------------------
(* Brief: the button is there at every stage of a case *)

BeginBrief(s, c) ==
    /\ Len(briefs[c]) < MaxBriefs
    /\ Begin(s, "call_brief", Locals(c, NoForm, "none", 0))

\* Forced mock makes no call.  A live answer is normalised, and whatever goes wrong
\* (no answer, no JSON, no object) ends in the fallback with its error.
CallBrief(s) ==
    /\ Move(s, "call_brief", "store_brief")
    /\ \E brief \in {MockBrief, FallbackBrief} \cup
                     {NormalizeBrief(risk_notes) : risk_notes \in ModelLists} :
         job' = [job EXCEPT ![s].brief = brief]
    /\ UNCHANGED Tables

StoreBrief(s) ==
    /\ Proceed(s, "store_brief", "audit_brief")
    /\ briefs' = [briefs EXCEPT ![job[s].case] = Append(@, job[s].brief)]
    /\ UNCHANGED <<caseData, caseStatus, evaluations, approvals, payments, requests,
                   intents, audit, aborts>>

AuditBrief(s) ==
    /\ Proceed(s, "audit_brief", "idle")
    /\ RecordEvent(job[s].case, "brief")

-----------------------------------------------------------------------------
(* Evaluate: the button is there at every stage of a case *)

BeginEvaluate(s, c) ==
    /\ Len(evaluations[c]) < MaxEvaluations
    /\ Begin(s, "store_policy", Locals(c, NoForm, EvaluatePolicy(caseData[c]), 0))

StorePolicy(s) ==
    /\ Proceed(s, "store_policy", "policy_case")
    /\ evaluations' = [evaluations EXCEPT ![job[s].case] = Append(@, job[s].outcome)]
    /\ UNCHANGED <<caseData, caseStatus, briefs, approvals, payments, requests, intents,
                   audit, aborts>>

PolicyCase(s) ==
    /\ Proceed(s, "policy_case", "audit_policy")
    /\ UpdateCaseStatus(job[s].case, CaseStatusForOutcome(job[s].outcome))

AuditPolicy(s) ==
    /\ Proceed(s, "audit_policy", "idle")
    /\ RecordEvent(job[s].case, "policy")

-----------------------------------------------------------------------------
(* Approve: the panel offers its form as long as no decision is stored; the    *)
(* service checks the latest evaluation and not the earlier decisions.         *)

\* Every stored evaluation of a case has the same outcome, so it does not matter
\* which of them is the latest.
BeginApprove(s, c, form) ==
    /\ approvals[c] = <<>>
    /\ \E i \in 1 .. Len(evaluations[c]) :
         /\ CanBeApproved(evaluations[c][i], form.role)
         /\ Begin(s, "store_approval", Locals(c, form, evaluations[c][i], 0))

StoreApproval(s) ==
    LET j == job[s]
    IN  /\ Proceed(s, "store_approval", "approval_case")
        /\ \E tied \in Ties(approvals[j.case]) :
             approvals' = [approvals EXCEPT ![j.case] = Append(@,
                [outcome |-> j.outcome, role |-> j.form.role, decision |-> j.form.decision,
                 action |-> j.form.action, amount |-> j.form.amount, tied |-> tied])]
        /\ UNCHANGED <<caseData, caseStatus, briefs, evaluations, payments, requests,
                       intents, audit, aborts>>

\* Mutant: a rejection marks the case as approved.
ApprovalCaseAlwaysApproved(s) ==
    /\ Proceed(s, "approval_case", "audit_approval")
    /\ UpdateCaseStatus(job[s].case, "approved")

ApprovalCase(s) ==
    /\ Proceed(s, "approval_case", "audit_approval")
    /\ UpdateCaseStatus(job[s].case, job[s].form.decision)

AuditApproval(s) ==
    /\ Proceed(s, "audit_approval", "idle")
    /\ RecordEvent(job[s].case, "approval")

-----------------------------------------------------------------------------
(* Prepare the test payment *)

BeginPrepare(s, c) ==
    /\ payments[c] = <<>> /\ MaxPayments > 0
    /\ Begin(s, "call_payment", Locals(c, NoForm, "none", 0))

\* Forced mock, a live success, or a live failure with or without an effect; the
\* key is a fresh one every time, so Stripe never recognises a repetition.
CallPayment(s) ==
    /\ Move(s, "call_payment", "store_payment")
    /\ \/ /\ \E source \in {"mock", "fallback"} : job' = [job EXCEPT ![s].source = source]
          /\ UNCHANGED intents
       \/ /\ \E source \in {"stripe", "fallback"} : job' = [job EXCEPT ![s].source = source]
          /\ intents' = [intents EXCEPT ![job[s].case] = @ + 1]
    /\ UNCHANGED <<caseData, caseStatus, briefs, evaluations, approvals, payments,
                   requests, audit, aborts>>

PaymentStored(c, source) ==
    \E tied \in Ties(payments[c]) :
        payments' = [payments EXCEPT ![c] = Append(@, [source |-> source, tied |-> tied])]

\* Mutant: a live call that failed leaves no row.
StoreSuccessfulPayment(s) ==
    /\ Proceed(s, "store_payment", "audit_payment")
    /\ IF job[s].source = "fallback"
       THEN UNCHANGED payments
       ELSE PaymentStored(job[s].case, job[s].source)
    /\ UNCHANGED <<caseData, caseStatus, briefs, evaluations, approvals, requests,
                   intents, audit, aborts>>

StorePayment(s) ==
    /\ Proceed(s, "store_payment", "audit_payment")
    /\ PaymentStored(job[s].case, job[s].source)
    /\ UNCHANGED <<caseData, caseStatus, briefs, evaluations, approvals, requests,
                   intents, audit, aborts>>

AuditPayment(s) ==
    /\ Proceed(s, "audit_payment", "idle")
    /\ RecordEvent(job[s].case, "payment")

-----------------------------------------------------------------------------
(* Create the execution request *)

\* The panel offers the button when the case has no request and its latest
\* decision is an approval.
BeginCreate(s, c) ==
    /\ requests[c] = <<>>
    /\ \E i \in LatestApprovals(c) : approvals[c][i].decision = "approved"
    /\ Begin(s, "read_approval", Locals(c, NoForm, "none", 0))

\* get_latest_approval; a rejection ends the handler.
ReadApproval(s) ==
    /\ pc[s] = "read_approval"
    /\ \E i \in LatestApprovals(job[s].case) :
         IF approvals[job[s].case][i].decision = "approved"
         THEN /\ Move(s, "read_approval", "check_request")
              /\ job' = [job EXCEPT ![s].approval = i]
         ELSE Proceed(s, "read_approval", "idle")
    /\ UNCHANGED Tables

Requested(c, i) == \E k \in 1 .. Len(requests[c]) : requests[c][k].approval = i

\* get_execution_request_by_approval_id: an existing request is returned.
CheckRequest(s) ==
    /\ Proceed(s, "check_request",
               IF Requested(job[s].case, job[s].approval) THEN "idle" ELSE "store_request")
    /\ UNCHANGED Tables

RequestFor(c, i, tied) ==
    [approval |-> i, key |-> IdempotencyKey(c, i), action |-> approvals[c][i].action,
     amount |-> approvals[c][i].amount, tied |-> tied]

RequestInserted(c, i) ==
    \E tied \in Ties(requests[c]) :
        requests' = [requests EXCEPT ![c] = Append(@, RequestFor(c, i, tied))]

KeyTaken(c, i) ==
    \E d \in Cases : \E k \in 1 .. Len(requests[d]) : requests[d][k].key = IdempotencyKey(c, i)

\* Mutant: the key is not unique.
StoreRequestTwice(s) ==
    /\ Proceed(s, "store_request", "request_case")
    /\ RequestInserted(job[s].case, job[s].approval)
    /\ UNCHANGED <<caseData, caseStatus, briefs, evaluations, approvals, payments,
                   intents, audit, aborts>>

\* Mutant: a conflict is ignored and the handler goes on as if it had inserted.
StoreRequestOrIgnore(s) ==
    /\ Proceed(s, "store_request", "request_case")
    /\ IF KeyTaken(job[s].case, job[s].approval)
       THEN UNCHANGED requests
       ELSE RequestInserted(job[s].case, job[s].approval)
    /\ UNCHANGED <<caseData, caseStatus, briefs, evaluations, approvals, payments,
                   intents, audit, aborts>>

\* The INSERT.  The key is UNIQUE: when it is there already, IntegrityError leaves
\* the handler, which does nothing more.
StoreRequest(s) ==
    /\ pc[s] = "store_request"
    /\ IF KeyTaken(job[s].case, job[s].approval)
       THEN Proceed(s, "store_request", "idle") /\ UNCHANGED requests
       ELSE /\ Proceed(s, "store_request", "request_case")
            /\ RequestInserted(job[s].case, job[s].approval)
    /\ UNCHANGED <<caseData, caseStatus, briefs, evaluations, approvals, payments,
                   intents, audit, aborts>>

RequestCase(s) ==
    /\ Proceed(s, "request_case", "audit_request")
    /\ UpdateCaseStatus(job[s].case, "execution_pending")

AuditRequest(s) ==
    /\ Proceed(s, "audit_request", "idle")
    /\ RecordEvent(job[s].case, "request")

-----------------------------------------------------------------------------
\* The handler of s stops where it is and nothing resumes it.
Abort(s) ==
    /\ pc[s] # "idle"
    /\ aborts < MaxAborts
    /\ pc' = [pc EXCEPT ![s] = "idle"]
    /\ job' = [job EXCEPT ![s] = NoJob]
    /\ aborts' = aborts + 1
    /\ UNCHANGED <<caseData, caseStatus, briefs, evaluations, approvals, payments,
                   requests, intents, audit>>

BeginHandler(s) ==
    \E c \in Cases :
        \/ BeginBrief(s, c) \/ BeginEvaluate(s, c) \/ BeginPrepare(s, c) \/ BeginCreate(s, c)
        \/ \E role \in Roles, decision \in Decisions, action \in FormActions, amount \in Amounts :
             BeginApprove(s, c, Form(role, decision, action, amount))

Step(s) ==
    \/ CallBrief(s) \/ StoreBrief(s) \/ AuditBrief(s)
    \/ StorePolicy(s) \/ PolicyCase(s) \/ AuditPolicy(s)
    \/ StoreApproval(s) \/ ApprovalCase(s) \/ AuditApproval(s)
    \/ CallPayment(s) \/ StorePayment(s) \/ AuditPayment(s)
    \/ ReadApproval(s) \/ CheckRequest(s) \/ StoreRequest(s) \/ RequestCase(s) \/ AuditRequest(s)

Next == \E s \in Sessions : BeginHandler(s) \/ Step(s) \/ Abort(s)

Spec == Init /\ [][Next]_vars
=============================================================================
