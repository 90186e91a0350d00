--------------------------- MODULE IntakeProperties ---------------------------
(***************************************************************************)
(* The properties of CaseIntake.                                           *)
(***************************************************************************)
EXTENDS CaseIntake

RequestRows ==
    [approval : Nat,
     key : [case : Cases, approval : Nat, action : Actions, amount : Amounts],
     action : Actions, amount : Amounts, tied : BOOLEAN]
BriefRows ==
    [runtime_result : {"live_success", "forced_mock_used", "fallback_used"},
     risk_notes : SUBSET {"default", "text"},
     error_message : BOOLEAN]
Forms ==
    [role : Roles \cup {"none"}, decision : Decisions \cup {"none"},
     action : Actions \cup {"none"}, amount : Nat]
IntakeJobs ==
    [case : Cases \cup {"none"}, form : Forms, outcome : Outcomes \cup {"none"},
     approval : Nat, source : Sources \cup {"none"}, brief : BriefRows]

Steps ==
    { "call_brief", "store_brief", "audit_brief",
      "store_policy", "policy_case", "audit_policy",
      "store_approval", "approval_case", "audit_approval",
      "call_payment", "store_payment", "audit_payment",
      "read_approval", "check_request", "store_request", "request_case", "audit_request" }

\* Those of the execution too: both halves of the console write the status.
CaseStatuses ==
    { "new", "under_review", "pending_approval", "blocked", "approved", "rejected",
      "execution_pending", "processing", "retrying", "succeeded", "failed",
      "needs_manual_review", "reconciled", "manually_resolved", "cancelled" }

IntakeTablesOK ==
    /\ caseData \in [Cases -> SeedCases]
    /\ caseStatus \in [Cases -> CaseStatuses]
    /\ briefs \in [Cases -> Seq(BriefRows)]
    /\ evaluations \in [Cases -> Seq(Outcomes)]
    /\ approvals \in [Cases -> Seq(ApprovalRows)]
    /\ payments \in [Cases -> Seq(PaymentRows)]
    /\ requests \in [Cases -> Seq(RequestRows)]
    /\ intents \in [Cases -> Nat]
    /\ audit \in [Cases -> [Events -> Nat]]
    /\ aborts \in Nat

\* A handler has the locals its step needs: the fields of a decision are filled in
\* where it is stored, and past the read of the approval its number is one of the
\* case's approvals.
HandlerOK(s) ==
    /\ pc[s] # "idle" => job[s].case \in Cases
    /\ pc[s] \in {"store_policy", "policy_case", "store_approval"} => job[s].outcome \in Outcomes
    /\ pc[s] \in {"store_approval", "approval_case"} =>
         job[s].form \in [role : Roles, decision : Decisions, action : Actions,
                          amount : Amounts]
    /\ pc[s] = "store_payment" => job[s].source \in Sources
    /\ pc[s] \in {"check_request", "store_request", "request_case", "audit_request"} =>
         job[s].approval \in 1 .. Len(approvals[job[s].case])

IntakeControlOK ==
    /\ pc \in [Sessions -> Steps \cup {"idle"}]
    /\ job \in [Sessions -> IntakeJobs]
    /\ \A s \in Sessions : HandlerOK(s)

\* The type invariant: what the tables and the locals of a handler hold, and that
\* the approval a request names is a row of its case.
IntakeTypeOK ==
    /\ IntakeTablesOK
    /\ IntakeControlOK
    /\ \A c \in Cases : \A k \in 1 .. Len(requests[c]) :
         requests[c][k].approval \in 1 .. Len(approvals[c])

-----------------------------------------------------------------------------
(* Any number of sessions *)

\* An approval becomes at most one execution request, however often and in however
\* many sessions the button is clicked (README.md:345; the check is a read, so it
\* is the UNIQUE key that must hold).
OneRequestPerApproval ==
    \A c \in Cases : \A k, l \in 1 .. Len(requests[c]) :
        requests[c][k].approval = requests[c][l].approval => k = l

\* What is about to be executed was allowed: the request carries the action and the
\* amount of a stored approval with a positive decision, policy had evaluated the
\* case before and lets it be approved, and a case above the threshold was decided
\* by a finance manager ("Do not execute what has not been approved.  Do not
\* approve what policy has not evaluated.").
RequestIsAuthorised ==
    \A c \in Cases : \A k \in 1 .. Len(requests[c]) :
        LET row == requests[c][k]
            approval == approvals[c][row.approval]
        IN  /\ approval.decision = "approved"
            /\ approval.action = row.action /\ approval.amount = row.amount
            /\ approval.outcome \in {evaluations[c][i] : i \in 1 .. Len(evaluations[c])}
            /\ caseData[c].currency = "EUR"
            /\ caseData[c].issue_type \in STANDARD_ELIGIBLE_ISSUE_TYPES
            /\ caseData[c].amount > MANAGER_APPROVAL_THRESHOLD =>
                 approval.role = "finance_manager"

Audited(c, rows, event, between) ==
    /\ audit[c][event] <= rows
    /\ rows <= audit[c][event] + aborts
                  + Cardinality({s \in Sessions : pc[s] \in between /\ job[s].case = c})

\* Every brief, evaluation, decision, payment and request has its audit event, but for
\* those of handlers on the way to recording it and of handlers that stopped there:
\* in particular the loser of a race for the same approval leaves none.
IntakeTrail ==
    \A c \in Cases :
        /\ Audited(c, Len(briefs[c]), "brief", {"audit_brief"})
        /\ Audited(c, Len(evaluations[c]), "policy", {"policy_case", "audit_policy"})
        /\ Audited(c, Len(approvals[c]), "approval", {"approval_case", "audit_approval"})
        /\ Audited(c, Len(payments[c]), "payment", {"audit_payment"})
        /\ Audited(c, Len(requests[c]), "request", {"request_case", "audit_request"})

\* Every PaymentIntent that Stripe may hold for a case is answered for by a stored
\* payment that did not come from forced mock mode, but for calls whose row is not
\* stored yet and for handlers that stopped there (a failed live call stores a
\* fallback row, because it may have had its effect).
IntentsAreAccounted ==
    \A c \in Cases :
        intents[c] <= Cardinality({i \in 1 .. Len(payments[c]) : payments[c][i].source # "mock"})
                       + Cardinality({s \in Sessions : /\ pc[s] = "store_payment"
                                                      /\ job[s].case = c
                                                      /\ job[s].source # "mock"})
                       + aborts

BriefIsUsable(brief) ==
    /\ brief.risk_notes # {} /\ "blank" \notin brief.risk_notes
    /\ "text" \in brief.risk_notes => brief.runtime_result = "live_success"
    /\ brief.error_message <=> brief.runtime_result = "fallback_used"

\* What a reviewer reads as a brief is complete and says where it comes from: its
\* lists are never empty and hold no blank item whatever the model answered, text
\* of the model only appears under live_success, and a fallback keeps the error
\* that caused it (generate_and_store_case_brief, _normalize_brief_payload).
BriefsAreUsable == \A c \in Cases : \A i \in 1 .. Len(briefs[c]) : BriefIsUsable(briefs[c][i])

-----------------------------------------------------------------------------
(* No two handlers on the same case *)

\* The case never shows a decision that is not the latest one, and never shows an
\* execution as pending without a request, also when handlers stop midway.
CaseShowsDecision ==
    \A c \in Cases :
        /\ caseStatus[c] \in Decisions =>
             \E i \in LatestApprovals(c) : approvals[c][i].decision = caseStatus[c]
        /\ caseStatus[c] = "execution_pending" => requests[c] # <<>>

-----------------------------------------------------------------------------
(* What the documentation says *)

\* "duplicate test payment prevention per case" (README.md:484).
OnePaymentPerCase == \A c \in Cases : Len(payments[c]) <= 1
=============================================================================
