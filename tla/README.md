# Formal models of the billing recovery execution console

The console takes a disputed billing case through policy, human approval, a durable execution
request, a provider write (mock or Stripe test mode), retries, reconciliation and manual recovery,
and leaves an audit trail. It is a Streamlit application over one SQLite file: every browser session
runs its handlers in a thread of its own, every helper opens a connection, runs **one** statement
and commits it, and provider calls sit between two commits. There is no lock, no compare-and-set and
no transaction that spans two statements, so a handler is a chain of small steps that interleaves
with the chains of other sessions and that may stop after any of them.

This directory models that, checks it with TLC on small instances and proves what matters most with
TLAPS for every instance. Paths below are relative to `src/`.

## 1. Inventory

| Part (source) | State it keeps | Operations | What is hard |
|---|---|---|---|
| Policy (`src/policy/`) | `policy_evaluations`, case status | evaluate | can be repeated at any stage |
| Approvals (`src/approvals/`) | `approvals`, case status | decide | the form is offered on a read; the latest decision is found by a one-second timestamp |
| Stripe test payment (`src/providers/stripe_test_payment_service.py`) | `stripe_test_payments`, PaymentIntents at Stripe | prepare | check, call, insert; a fresh key for every call |
| Execution service (`src/execution/`) | `execution_requests`, `execution_attempts` | create, execute, retry, mark reconciled, update status, attach reference | check-then-act, stops midway, lost answers, the retry limit |
| Mock provider (`src/providers/mock_billing_adapter.py`) | none; it ignores the key | write, lookup | a new object for every success |
| Stripe adapter (`src/providers/stripe_adapter.py`) | refunds at Stripe, by key | refund, lookup, PaymentIntent | errors after the effect, refunds that settle later |
| Reconciliation (`src/reconciliation/`) | `reconciliation_runs` | run | verdict on the row read first, applied to the row as it then is |
| Manual recovery (`src/recovery/`) | `manual_recovery_actions` | resolve, attach, cancel, reopen | status before evidence |
| Audit (`src/audit/`), cases (`src/cases/`) | `audit_events`, `billing_cases` | record event, update status | a transaction of their own after the one they report |
| Database (`src/database.py`) | the file | connect, schema | UNIQUE key of requests is the only cross-session guard |
| UI panels (`src/ui/`, `app.py`) | session state | the gates that offer a button | gate and service read at different times |
| Dependency modes (`src/dependencies/`) | session state | choose forced mock or live | may differ between a write and its lookup |
| AI case brief (`src/ai/`) | `ai_case_briefs` | generate | a live answer may be anything that parses |
| Ops metrics (`src/analytics/`), status guidance (`src/ui/status_helpers.py`) | none | metrics, two work queues, advice per status | read rows and statuses that separate transactions write |
| Seed (`src/seed.py`, `data/`) | `billing_cases` | seed an empty table | none once it has run |

How they interact: panels call services; services call helpers of other services
(`update_case_status`, `record_audit_event`, `mark_execution_reconciled`,
`update_execution_request_status`, `attach_provider_reference`) and an adapter;
everything else they share is rows, re-read by whoever needs them.

What makes each part correct, in a sentence: intake must let nothing be executed that a positive
decision by a permitted role does not cover; execution must move money once and keep the evidence of
it; a retry must only follow a transient failure and only so often; reconciliation may only call
reconciled what it verified; a human outcome must be a human's; each row must be in the trail; what the
dashboard counts and what an operator is advised to do must be so; and across all of it nothing may be
executed that was not approved, and nothing approved that policy does not permit.

## 2. Modules

| Module | Role |
|---|---|
| `BillingRules` | vocabulary and pure rules: statuses, reply mapping, retry eligibility, lookup answers, `_evaluate_reconciliation`, recovery tables. No state. |
| `ExecutionSessions` | execute, retry, reconcile, recover, statement by statement, for any number of sessions |
| `ExecutionLifecycle` | abstract specification of the status of a request: no sessions, no statements |
| `ExecutionProperties` | the properties of `ExecutionSessions` and its refinement mapping to `ExecutionLifecycle` |
| `OpsMetrics` | the queries of the dashboard and the advice per status, as operators over the tables, and whether what they say is so |
| `CaseIntake` | brief, evaluate, approve, prepare payment, create request, statement by statement |
| `IntakeProperties` | the properties of `CaseIntake` |
| `Console` | both halves over one database: shared case status, several requests per case, one handler at a time per session |
| `Workflow` | abstract specification of the order of the workflow, from verdict to effect: no sessions, no statements |
| `ConsoleProperties` | the properties that neither half can state alone, and the refinement mapping to `Workflow` |
| `ExecutionProofs`, `EvidenceProofs`, `TrailProofs`, `SerialProofs` | the TLAPS proofs about `ExecutionSessions`; each extends the one before |
| `IntakeProofs`, `IntakeTrailProofs` | the TLAPS proofs about `CaseIntake`; the second extends the first |
| `ConsoleProofs` | the TLAPS proofs about `Console` |
| `SessionSets` | one lemma both trail modules need: how the number of sessions with a property moves when one of them steps |
| `MCExecution`, `MCIntake`, `MCConsole` | constants a `.cfg` cannot write, and the symmetry set |

`Console` instantiates `IntakeTrailProofs` and `SerialProofs`, and so, through them, the two
specifications: the theorems about each half come with it and `ConsoleProofs` cites them by name.

### How state and steps correspond to the code

`ExecutionSessions`: `request[r]` is the row of `execution_requests` (status, provider, kind of
`provider_object_id`), `attempts`, `runs`, `recoveries` the rows of their tables in insertion order,
`audit` the number of events per kind, `caseStatus` the column of the case. Outside the database
`refund[r]` is Stripe's refund for the request's idempotency key and `mockWrites[r]` the objects the
mock provider handed out. `pc[s]` names the statement session `s` executes next and `job[s]` holds
the locals of its handler: the row it read (`seen`), the test payment it found, the attempt number,
the reply.

`CaseIntake` has the same shape. `caseData[c]` is what policy looks at and never changes; `briefs`,
`evaluations`, `approvals`, `payments` and `requests` are rows in insertion order. A row is `tied` when
its `created_at` falls into the same second as that of the row before it: `ORDER BY created_at DESC
LIMIT 1` may then return either, and `Latest(rows)` is the set of rows it can return.

`Console` joins them: the row of `execution_requests` is `requests[c][k]` (what it was created with)
and `request[<<c, k>>]` (what execution makes of it), `caseStatus` and `aborts` are shared, and the
execution panels work on a request of `LatestRequests(c)` with a payment of `Latest(payments[c])`.

| Handler in the code | Steps in the model |
|---|---|
| `generate_and_store_case_brief` | `BeginBrief`, `CallBrief`, `StoreBrief`, `AuditBrief` |
| `evaluate_and_store_policy` | `BeginEvaluate`, `StorePolicy`, `PolicyCase`, `AuditPolicy` |
| `create_approval_decision` | `BeginApprove`, `StoreApproval`, `ApprovalCase`, `AuditApproval` |
| `create_and_store_stripe_test_payment` | `BeginPrepare`, `CallPayment`, `StorePayment`, `AuditPayment` |
| `create_execution_request` | `BeginCreate`, `ReadApproval`, `CheckRequest`, `StoreRequest`, `RequestCase`, `AuditRequest` |
| `execute_with_mock_provider`, `execute_with_stripe_provider`, `_run_provider_attempt` | `BeginExecute`, `Claim`, `ClaimCase`, `Reread`, `CountAttempts`, `CallMock` or `CallStripe`, `StoreAttempt`, `AuditAttempt`, `Finish`, `FinishCase` |
| `retry_with_mock_provider` | `BeginRetry`, the same chain, then `Recheck`, `Recount`, `Exhaust`, `ExhaustCase` |
| `run_reconciliation`, `_apply_reconciliation_action` | `BeginReconcile`, `Lookup`, `StoreRun`, `AuditRun`, then `Mark`, `MarkCase`, `AuditMark` or `Route`, `AuditRoute`, `RouteCase` |
| `create_manual_recovery_action` | `BeginRecover`, `Attach`, `Resolve`, `AuditResolve`, `ResolveCase`, `StoreRecovery`, `AuditRecovery` |
| `ops_metrics.py`, `get_execution_status_guidance` | no steps: operators over the state (`OpsMetrics`) |

`Abort(s)` stops a handler between two statements: the process ends, or an exception other than the
`ValueError` the panels catch leaves it. Nothing in the code resumes such a handler. `RefundSettles`
is Stripe settling a pending refund. In the begin steps the gate of the panel and the first check of
the service are one read: the first commit comes later, so a race between them is still there.

What is abstracted: names, reasons, notes, timestamps (but for ties), amounts (a small set), and
object ids (the kind of system they came from). An idempotency key is the record of what it is made
from. A live Stripe call has three outcomes: it succeeds, it takes effect and its answer is lost as a
connection or API error, or it fails with any error class and no effect. Of the six fields of a brief
one list stands for all, and of a list it only matters which kinds of items (blank or not) it holds.
The mode a session picked is a choice at every call: an operator may change it before every click.

## 3. Properties

Execution half, any number of sessions, with handlers that stop midway:

- `AttemptBudget`: attempts stored plus attempts still coming never exceed
  `MAX_RETRY_ATTEMPTS - 1` plus one per session. The limit can be overrun by racing sessions, and
  this is by how much.
- `DuplicateNumbersAreBounded`: handlers that overlap can store attempts under one number, but never
  more of them than there are sessions, and no number runs ahead of its place in the history.
- `PendingIsUntouched`: a request that reads `execution_pending` has reached no provider.
- `SuccessIsRecorded`: `succeeded` and `reconciled` are never shown without a successful attempt in
  the history and an object id in the row.
- `ReconciledIsVerified`: `reconciled` is backed by a run that read `succeeded` and heard the same.
- `MockWritesAreAccounted`: the mock provider holds no success that the history does not show,
  except calls in flight and stopped handlers.
- `HumanOutcomeIsHuman`: `manually_resolved`, `cancelled` and `reopen_for_investigation` come from a
  recovery row, or one on its way. With stopped handlers the row may be missing, which the property
  concedes.
- `AuditTrail`: every attempt, run and recovery row has its event, up to handlers in between.
- `DashboardIsConsistent`: attempts fall into exactly one class of the dashboard, and it shows no
  success, verification, resolution or cancellation by status that its other figures do not count.
- `WaitingIsJustified`: who is told to wait waits for a handler that is at work and has yet to write
  its outcome.
- `InProgressSettles` (liveness): `processing` and `retrying` always end.

Execution half, with any number of sessions but no two handlers on one request at a time:

- `OnlyTransientIsRetried`, `AttemptsAreNumbered`, `CaseFollowsRequest`, `MockEffectOnce`,
  `ReconciledIsFinal`, and `ImplementsLifecycle`, the refinement of `ExecutionLifecycle`. Handlers that
  overlap on one request can break them: two first executions already store two attempts with the
  number 1 and make the provider write twice (`DoubleClick`).
- `RetryAdviceHolds`: between handlers, who is told that a retry is allowed gets one, so the check
  before a retry and the one after it agree on the limit.
- `OpenWorkIsListed`: between handlers, whoever is advised to wait, retry, reconcile or recover is on a
  queue of the dashboard, but for a success hidden by a run about an earlier status (which is what
  `ForgottenSuccess` shows).

Intake: `OneRequestPerApproval`, `RequestIsAuthorised`, `IntakeTrail` and `IntentsAreAccounted` for
racing sessions; `BriefsAreUsable` (no answer of the model leaves a brief with an empty or blank list
or of unclear origin); `CaseShowsDecision` as long as no two intake handlers work on one case.

Console: `ImplementsWorkflow` chains the links that panels and services check one by one, for any
number of sessions: the console implements `Workflow`, in which a case is judged once, decided only
after that and in a role the verdict permits, an approval is ordered once at most with its own action
and amount, and only a claimed order takes effect. `CaseShowsExecution` (handlers of each half that keep apart): between
handlers the case shows what its latest request says, or what a later policy evaluation hides it
behind, and never another outcome. `CaseShowsDecision` again, now with execution and repeated policy on
the same column.

`SingleEffect`, `FailedRefundIsRouted`, `SuccessIsQueued`, `OnePaymentPerCase` and `OneEffectPerCase`
state what the documentation says and the code does not do (section 7).

## 4. Runs and bounds

| Run | Instance | What it shows |
|---|---|---|
| `OneSession` | 1 session, 1 request, Stripe payment, 3 attempts, 2 runs, 1 recovery, 1 stop | the statement-level handlers implement the lifecycle; history, dashboard and advice are in order |
| `ConcurrentExecution` | 2 fair sessions, Stripe payment, 2 attempts | the retry limit, attempt numbers, pending requests, provider writes and the advice to wait under overlap; in-progress statuses end |
| `ConcurrentFollowUp` | 2 sessions, 1 attempt, 1 run, 1 recovery | evidence for success, reconciliation and human outcomes while all four handlers overlap |
| `IntakeRace` | 2 sessions, 1 case above the threshold, 1 evaluation, 1 stop, 1 brief before the evaluation | request creation and payments under overlap |
| `ConsoleOneSession` | 1 session, whole console, one case of each kind policy knows, 2 evaluations, 2 attempts, 1 each of brief, payment, run, recovery, stop | the statements of both halves implement the workflow; the case status across both halves |
| `StuckInProgress`, `LostStripeAnswer`, `DoubleClick`, `FailedRefundIgnored`, `ForgottenSuccess`, `DuplicatePayment`, `TwoApprovals` | as small as the trace needs | counterexamples (section 7) |

The bounds. *Sessions*: the races of this code are between two handlers on one row, each of which is
a chain of steps without a wait for a third; two are enough for each check-then-act pair, and the
theorems hold for any number. *Requests*: no operation of the execution half reads or writes another
request, so one is enough there; `Console` has one per session and case, which is all a case can get
(`RequestSlots`, proved as `RequestsFitSessions`). *Attempts* (`MAX_RETRY_ATTEMPTS`, 3 in the code): 3
where the limit's exact place matters (`OneSession`), 2 for racing retries, so that a first attempt,
a retry and the exhausted case all occur, 1 where retries are not the question. *Runs and
recoveries* (`MaxRuns`, `MaxRecoveries`): one stored run can be overtaken by a handler in flight, and
the gate compares stored rows, so two sessions may exceed it by one; `OneSession` has two, for a run
after a run. *Stops* (`MaxAborts`): one, at every step, in the runs of one session and in
`IntakeRace`. The two overlapping execution runs have none, because a stop multiplies their state
space and in the properties that mention `aborts` it excuses the violation; the theorems cover stops
together with any overlap. *Cases*: one, seeded with any of the kinds the run lists, since no
operation but the UNIQUE key looks across cases, and a key contains its case. The threshold is scaled
to 1 and amounts to 1 and 2. *Evaluations* (`MaxEvaluations`): the data policy reads never change, so
a second one only matters for what it does to the case status, and `ConsoleOneSession` has two.
*Briefs* (`MaxBriefs`): no other handler reads them; `ConsoleOneSession` asks for one at every stage of
the intake (constraint `BriefsBeforeExecution`), `IntakeRace` only before policy is evaluated
(`BriefsComeFirst`).

`SYMMETRY` permutes sessions and is used in runs that check invariants only. `CHECK_DEADLOCK` is off
everywhere: once the bounds are used up nobody has to click anything, and the real console rests the
same way. Each property of a passing run has a mutant in `PROJECT.json`, a plausible slip in one mapped
definition under which TLC must find it violated. No passing run composes two sessions over the
whole console: that instance is out of TLC's reach, and there `ConsoleProofs` stands alone.

## 5. Fairness

`FairSpec` adds `WF_vars(Step(s))` for each session: a handler that has begun runs on, because its
thread is scheduled, SQLite statements return or raise, and so do the calls of the Stripe client.
Nothing is assumed of operators: beginning a handler carries no fairness, and neither do `Abort` and
`RefundSettles`. Under it `InProgressSettles` holds as long as no handler is stopped, also when two
sessions overlap; `StuckInProgress` shows that one stop is enough to lose it, since execution wants
`execution_pending`, retry wants `failed_transient` and recovery wants a failed or manual-review
status. Only a reconciliation that an operator happens to run moves such a request.

## 6. Proofs

Everything below is proved for every finite set of sessions, every set of cases and requests, every
retry limit above zero, every threshold, every set of amounts and every bound (the `ASSUME`s of
`BillingRules`, `ExecutionSessions`, `CaseIntake` and `Console`), with any number of stops. Handlers
overlap in any way, except where a theorem assumes `[]SerialHandlers`: no two handlers of the execution
half work on one request, or no two of the intake on one case, at a time. Any number of sessions may
then work at once on different requests and cases, and one session alone always satisfies it
(`OneSessionIsSerial`). The code does not enforce it: `DoubleClick` and `TwoApprovals` are what happens
without it.

`ExecutionProofs`
- `TypeCorrect`: `TypeOK` is inductive as it stands, because its `ControlOK` part ties each step to
  the operation the handler was started for (the recovery tables are functions on recovery actions
  only). One lemma per kind of control move and per kind of statement, then one step per action.
- `PendingUntouched`: not inductive, since a handler past its claim could write to the provider while
  the row still read pending. `PendingInv` adds that a handler at any execution step of a request that
  reads pending is at `claim`. No statement ever writes `execution_pending` again (`RowWrites`).
- `RetryBudget`: `AttemptGrowth` says how each step moves the two terms of the sum: only `StoreAttempt`
  lengthens the history, and it takes the session out of `BeforeStore`; only `BeginExecute` and
  `BeginRetry` put one in, the first only when there are no attempts (by `PendingInv`), the second only
  below the limit. Finite-set cardinality then bounds the sum.

`EvidenceProofs`: what a status is evidence of. Each property is strengthened by what a handler on its
way to writing such a status has already done, and all of them together are `ExecutionSound`
(`ExecutionIsSound`).
- `SuccessTheorem` from `EvidenceInv`: a handler with a successful reply holds an object id, has stored
  the attempt once it is past `store`, and one that decided on a row that read succeeded or is about to
  mark it saw the evidence, which is never taken away.
- `VerifiedTheorem` from `VerifiedInv`: a handler at `mark`, or past `store_run` with that verdict, has
  its run in the table.
- `HumanTheorem` from `HumanInv`: a handler that has written a human outcome is on the way to its row;
  the status may be overwritten by another handler in between, but only a recovery writes a human one.
- `WaitingTheorem` from `WaitingInv`: whoever wrote `processing` or `retrying` is still to write the
  outcome, whatever the others do.

`TrailProofs`: what the tables owe each other, with a sum over sessions in each ledger.
- `TrailTheorem` (`AuditTrail`) from `TrailInv`: the events of a kind plus the handlers that have stored
  the row and not yet the event never exceed the rows, and the rows exceed that sum at most by the
  number of stops. The property says only that events never exceed rows; the handlers on the way have to
  be counted with the events, or the step that records one could break it.
- `WritesTheorem` (`MockWritesAreAccounted`) from `WritesInv`: an object that is not a stored success is
  one that a handler at `store` with a successful reply still carries, or that was lost with a stop.
- `NumbersTheorem` (`DuplicateNumbersAreBounded`) from `NumbersInv`: a handler takes the number after the
  last row, so nobody takes a number again once a row could have made the count pass it. From then on
  the rows and the handlers that share it can only turn into each other, and when its turn comes no row
  has it yet and at most all sessions hold it.
- `DashboardTheorem` (`DashboardIsConsistent`; also assumes that there are finitely many requests) from
  `DashboardInv`: an outcome has an error type exactly if it is no success, a run that marks has matched,
  and the requests that show an outcome of a recovery without a row, stored or on its way, are at most
  as many as the stops. Requests are then mapped one to one to rows and to sessions.

`SerialProofs`: what holds when no two handlers work on one request at a time (`SerialHandlers`). The
lemmas it rests on say that a step changes nothing about the requests other handlers work on.
The invariant `SoloInv` says that what a handler has read is still so when it writes: `MayCall` on the
way to the provider (the history holds nothing but transient failures, the number it counted is the
next one), `MayPublish` on the way back (the reply in its locals is the last attempt), `MayDecide` in
reconciliation and recovery (the status is the one it decided on), and `FailureIsLast` that a request
only reads `failed_transient` while such a failure is its last attempt.
- `RetryTheorem`, `NumberTheorem`, `FinalTheorem`.
- `OnceTheorem` (`MockEffectOnce`) from `OnceInv`: a request that may still be tried has no object, and
  a handler on its way to the provider found none. A handler that stops leaves a request that no
  operation tries again, so a stop costs no second write.
- `CaseTheorem` (`CaseFollowsRequest`; also assumes `OneRequestPerCase`) from `LagInv`: a case differs
  from its request only while a handler is about to write what the request says. `LagInv` takes the set
  of statuses that somebody else may write over it, none here and those of the intake in the console.
- `AdviceTheorem` (`RetryAdviceHolds`; also assumes `MAX_RETRY_ATTEMPTS > 1`) from `AdviceInv`: a
  request in `failed_transient` has attempts left, or a retry is about to move it to manual review. With
  a limit of one the first failure is advised to be retried and never accepted: only a retry looks at
  the limit afterwards (`execution_service.py:269`). The configured limit is three.
- `QueueTheorem` (`OpenWorkIsListed`) from `QueueInv` and `WaitingTheorem`: nobody is told to wait when no
  handler runs; what a run has read as succeeded is never executed again, and a success that its runs
  have taken off the queue is about to be moved by the handler that stored the last of them.
- `LifecycleImplemented`: `ExecutionSessions` implements `ExecutionLifecycle` under the mapping
  `RequestStatus`, `RecordedOutcomes`, `CallState`. `ClaimRefines`, `StoreRefines`, `FinishRefines`,
  `SettleRefines` and `AbortRefines` map the steps that move the lifecycle, `OtherStepsStutter` and
  `BeginStutters` the rest to stuttering.

`IntakeProofs`
- `IntakeTypeCorrect`; `IntakeIsSound` for `IntakeSound`: every stored evaluation is what policy says of
  the case, every approval was allowed by one of them, every request is the image of an approval with
  a positive decision and carries its key, keys are unique, and what a handler is about to store was
  true when it read it and stays true because rows are only added. From it `AuthorisationTheorem`
  (`RequestIsAuthorised`) and `OneRequestTheorem` (`OneRequestPerApproval`).
- `BriefTheorem`: `BriefsAreUsable`, with the brief in a handler's locals as the strengthening.
- `DecisionInv` (with `SerialHandlers`): a case shows a decision only if it is the latest, and a handler
  about to write one has stored it. Its lemmas say it survives any writer of the column who writes
  neither a decision nor `execution_pending`; `ConsoleProofs` draws the conclusion.
- `OneRequestInv` (with `SerialHandlers`): a case has one request at most, and a handler about to insert
  one found none.
- `RequestsFitSessions`: a case gets no more requests than there are sessions, because whoever creates
  one has seen none. `Console` relies on it for its slots.

`IntakeTrailProofs`
- `IntakeTrailTheorem` (`IntakeTrail`) and `IntentsTheorem` (`IntentsAreAccounted`), by invariants of the
  same two shapes. The insert that the UNIQUE key refuses moves neither side of the trail; a payment
  with source `mock` answers for no PaymentIntent, so only the others are counted.

`ConsoleProofs`: a step of one half changes only `caseStatus` and `aborts` in the other, so both
invariants survive (`IntakeFrame`, `ExecutionSoundFrame`), and the execution panels begin nothing but
what the execution half may begin, on requests that exist (`PanelsOffer`). `ConsoleSound` adds that a
handler works on an existing request and that only existing requests are touched.
- `WorkflowImplemented`: the console implements `Workflow` (`ImplementsWorkflow`) in any interleaving. The
  mapping reads the first evaluation as the verdict, the columns of approvals and requests that a reader
  acts on as decisions and orders, a status other than `execution_pending` as claimed, and an object at
  the mock provider or a refund at Stripe as an effect. Three statements of the intake move it
  (`WorkflowWrites`; `PolicyJudges`, `ApprovalDecides`, `RequestOrders`), and a second evaluation stutters
  because policy depends on nothing that changes. In the execution half a step moves the row of its own
  request, and only a call to a provider makes an effect (`EffectMoves`): by `PendingInv` the row is
  claimed by then, whatever other sessions have written to it (`ExecutionWorks`). Everything else is a
  stutter (`IntakeWorks`, `SettlingWorks`).
- `ExecutionInConsole`, `IntakeInConsole`, `TrailsInConsole`, `DashboardInConsole` (finitely many cases):
  what is proved of a half alone holds in the whole console, with any sessions.
- With `Execution!SerialHandlers`: `HistoryInConsole`, `QueueInConsole`, `AdviceInConsole`,
  `FinalInConsole` and `LifecycleInConsole`, the theorems of `SerialProofs` where requests appear one by one
  and somebody else writes the case. A request that does not exist yet is one in `execution_pending`
  that nobody works on, so the lifecycle needs no step for its creation.
- With `Intake!SerialHandlers`: `DecisionTheorem` (`CaseShowsDecision`), and with both `CaseInConsole`
  (`CaseShowsExecution`): both halves write the case status, so each invariant is shown to survive what the
  other half writes there (`IntakeCaseWritten`, `CaseWritten`).
- `OneEffectTheorem` (`OneEffectPerCase`, with `Intake!SerialHandlers` only): one request of a case at most
  takes effect, however the handlers of execution overlap. It is the other side of `TwoApprovals`: to
  keep the intake handlers of a case apart would be enough to remove that counterexample.

Checked by TLC only: liveness (`InProgressSettles`), which under fairness is out of reach of this
prover; so is induction over data. Every other property of a passing run is a theorem.

## 7. What the documentation says and the code does not do

Each of these is a run in which TLC finds the counterexample.

- **Stuck in progress** (`StuckInProgress`): see section 5. `src/ui/status_helpers.py:48-49` tells the
  operator "Execution is in progress. Refresh if needed."
- **Lost Stripe answer** (`LostStripeAnswer`): a connection or API error is filed as transient even if
  the refund exists, and the retry goes to the mock provider, which ignores the key; `README.md:334`
  says retries are protected against duplicate external effects.
- **Two sessions execute** (`DoubleClick`): the status check and the claim are two transactions;
  `src/execution/idempotency.py:4-6` says duplicate clicks do not create a duplicate execution.
- **Failed refund** (`FailedRefundIgnored`): internal success and provider failure matches no case of
  `_evaluate_reconciliation` and is left alone; `README.md:449` says unsafe mismatches are routed.
- **Duplicate test payment** (`DuplicatePayment`): check, call and insert with nothing unique;
  `README.md:484` says "duplicate test payment prevention per case".
- **Forgotten success** (`ForgottenSuccess`): a run with the result `matched_failure` takes a request off
  the queue of the unreconciled for good (`src/analytics/ops_metrics.py:293-303`); when a retry then
  succeeds the success is on neither queue, also after every handler has returned. The docstring (line 269) says the queue holds what
  "reached terminal execution states but are not reconciled".
- **Two approvals** (`TwoApprovals`): the approval form is offered on a read and the service does not
  look again, so two sessions store two approvals; each has a key of its own, so both get a request
  and both are executed; `src/execution/idempotency.py:4-6` again. `OneEffectTheorem` says that it takes
  two intake handlers on one case at once.

Seen while modelling and not given a run:

- Overlapping retries exceed `MAX_RETRY_ATTEMPTS` (by how much is `AttemptBudget`). With a limit of 1
  `RetryAdviceHolds` would not hold: `execute` does not look at the limit, so a first transient failure
  would already be out of attempts.
- Reopening stores `reopen_for_investigation`, which `EXECUTION_REQUEST_STATUSES` does not list: such a
  request is on no queue, and the guidance for `under_review` is never shown for it. Only a
  reconciliation moves it on, to manual review (`ImplementsLifecycle`).
- Reconciliation accepts cancelled, manually resolved and pending requests and can route them to
  review, although the lifecycle diagram (`README.md:180-182`) ends there; with two sessions a
  reconciled request can be written over by a handler that read it earlier.
- Policy can be evaluated again at any stage and puts the case back to `pending_approval` while its
  request is executed or reconciled.
- A rejection stored after `create_execution_request` read the latest decision does not stop the insert.
- The agent threshold is compared with the amount of the case and not with the amount approved.
- `hold_for_manual_review` and `credit_note` are executed exactly like a refund: the operation type goes
  into the key and the row and selects nothing.
- `get_case_workflow_stage` tests the case for `eligible_for_approval`, `requires_manager_approval` and
  `needs_more_review`, which are policy outcomes that no code stores as a case status.

## 8. Not modelled

- Rendering, wording, validation messages of forms, configuration checks, the runtime context shown for
  Stripe, the work queue page, the workflow stage label and the layout of the dashboard: none of it
  changes state or decides what another part does.
- The dashboard's counts of case statuses and its success rate, a quotient of two modelled figures.
- SQLite lock waits and errors: one statement is atomic, an error is a handler that stops. Two processes
  that seed an empty file at once.
- What a second test payment of a case means to Stripe: a repeated refund with one key but another
  PaymentIntent would be refused, the model returns the refund the key has.
- The audit events' contents, and blank text fields of a brief (only lists are stripped by the code).
- Two sessions over the whole console in TLC (section 4).

## 9. What could follow

- Two processes that seed an empty database at once (section 8).
