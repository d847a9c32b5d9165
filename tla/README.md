# Verification of P-118

P-118 is an assistant that turns a resident's request into a *plan* (a DAG of
tool calls), asks the people who must agree, and executes the plan against
service providers: resident registration, parking, payment, maintenance, move,
shuttle, property viewings. The backend is Python (FastAPI, asyncio) over one
PostgreSQL database; several processes may run it at once (an API worker, an
approval sweeper), and every coordination between them goes through rows of
that database.

Paths below are relative to `src/` of the repository, so
`src/orchestration/provider_gateway.py` is the file of that name in the
package `src`; in the later sections the leading `src/` is left out.

Contents: [the system](#the-system) - [the modules](#the-modules) -
[the runs](#the-runs) - [bounds](#bounds-and-why-they-are-enough) -
[fairness](#fairness) - [what is proved](#what-is-proved) -
[where the code differs](#where-the-code-differs-from-what-is-said-of-it) -
[what the code leaves open](#what-the-code-leaves-open) -
[what is abstracted](#what-is-abstracted) - [not modelled](#not-modelled) -
[the plan](#the-plan) - [running it](#running-it)

## The system

### Components, their state and their operations

| Component | State it keeps | Operations |
|---|---|---|
| Submission gateway (`orchestration/provider_gateway.py`, `common/submission.py`) | evidence columns of `workflow_tasks`: `provider_submission_status`, `provider_idempotency_key` | `call_provider` = key proposal, `prepare_submission`, connector call, `record_submission_outcome` |
| Task and workflow rows (`db/workflow_repository.py`) | `workflows`, `workflow_tasks`, `workflow_clarifications` | create, status, result, supersede, reopen, cancel, mark failed, clarifications and children, claims of a sentence, trimming |
| Executor (`executor/executor.py`) | in memory: `task_statuses`, `completed_results` | waves of ready tasks, retries, conclusions, verdict |
| Runs (`orchestration/demo_service.py`, `api/routes.py`) | a coroutine per run | first run, retry, amend-and-rerun, resumes after a payment, viewing, service or conflict decision, cancel |
| Connectors, providers (`connectors/`) | the provider's own records | one HTTP call per attempt |
| Bookings and payments ledger (`db/parking_payment_repository.py`) | `parking_bookings`, `parking_capacity`, `payments` | book, change zone, cancel, pay, open a session, confirm, expire, refund, delete |
| Payment approval and gateway session (`orchestration/payment_approval.py`, `connectors/vnpay.py`, `api/webhook_routes.py`) | `payment_approvals` | decide, open session, IPN, browser return, resume |
| Compensation, sweeper (`orchestration/compensation.py`, `sweeper.py`) | none of their own | release what a failed workflow holds; expire approvals and sessions, finish paid workflows, fail zombies |
| Service and viewing approvals (`orchestration/service_approval.py`, `viewing_approval.py`, `support_request.py`) | `service_approvals`, `viewing_approvals` | park a step, pin again, decide once, expire, resume, call off |
| Schedule conflicts (`orchestration/schedule_conflict.py`) | `schedule_conflict_checks` | detect, pause, answer (keep both, move or drop one), resume |
| Provider choice, quotes and proposals (`orchestration/provider_*.py`, `quote*.py`, `proposal*.py`, `db/quote_repository.py`, `db/proposal_repository.py`) | `service_quotes`, `service_provider_proposals` | ask, offer, confirm, supersede, expire, ask another company |
| Clarifications (`agents/pending_intent.py`, `api/routes.py`) | the question in `_DEMO_JOBS` and in its row, parent/child links | ask, understand, claim, create child, archive parent |
| Final answers and views (`api/routes.py`, `orchestration/final_answer.py`) | `_DEMO_JOBS[...]["response"]`, the `assistant_*` columns | keep, drop, claim, speak, store, show |
| Verification of residents (`api/verification_routes.py`, `orchestration/verification_*.py`) | provider records, receipts, links, vehicles | apply, decide, materialize, recover, show |
| Planner and validator (`agents/`) | a conversation's context | correct, validate, ask again, fast lane, rerun |
| Accounts and codes (`api/auth_routes.py`, `db/otp_repository.py`, `db/user_repository.py`) | `registration_otps`, `users` | send, verify, register, reset, lock |

`PROJECT.json` lists every component with its source files and whether it is
modelled.

### How they interact

```
 sentence -> fast lane / planner -> corrections -> validator -> plan   (Planning)
    ^  |                                                         |
    |  question, answer, child workflow      (Conversation)      |
    |                                                            v
    |   gates: schedule conflict (ScheduleConflict), offer of a company
    |   (ProviderChoice), viewing and service queues (ApprovalQueue),
    |   payment card (PaymentFlow)          park a step: WAITING_APPROVAL
    |                                                            |
  view and sentence shown (StatusView)    retry / amend / resume |
    ^                                                            v
    |                                                   Executor.execute (Execution)
    |                                                            v
  workflow_tasks  <-------------------------- call_provider (Submission) -- connector --> provider
    ^                                                                             |
    |  cancel, sweeper, compensation                                              v
    +------------------ IPN, browser return ------------ parking_bookings, payments (ParkingLedger)
```

Calls are Python calls inside one coroutine. Everything that outlives the
coroutine is a row, every repository method is a transaction, and between two
of them any other coroutine of any process may run. There is no lock on a
workflow while it executes: two runs of one workflow may overlap, and each
works on the copy of the rows that it read when it started.

### What is hard

* **A request may be handled after everybody stopped waiting for it.** The
  connector's timeout, a killed coroutine or a dead process leave a request on
  its way. What the rows say must stay true when it arrives.
* **Retries at three levels** (attempts of a step, a retry of the workflow, an
  amendment) decide from three different pieces of state whether a step may be
  sent again: the connector's `is_retry_safe`, the stored error, and the
  evidence column.
* **Several writes for one conclusion.** A step's status and its result are two
  transactions; so are an approval and the session it allows, a decision and
  the resume it starts, a record at the ownership provider and the rows the
  application writes after it.
* **Stale memory.** A run's seeds, its verdict, the response kept for the
  polling page and the price in a quote are read in one transaction and used in
  a later one.
* **Several doors to one step.** A move has an offer, a pinned company, a row in
  that company's queue and an attempt number; each is changed by another actor.
* **Locks by row.** Bookings and payments interleave statement by statement
  under READ COMMITTED. What protects the last place of a zone, or the only
  payment session of a booking, is which row is locked first and for how long.
* **Money that comes back twice**, or not at all: refunds are made by zone
  changes, by cancellation and by compensation, which do not know of each other.
* **Sweeps that do not know who is alive.** The zombie sweep of the second
  process judges by age alone.

What makes each part correct is stated as properties below; everything the
code is exposed to, line by line, is under `hazards` in `PROJECT.json`,
including what no property covers and why.

## The modules

| Module | What it is | Composition |
|---|---|---|
| `CommitmentLedger` | what the gateway promises | abstract specification of `Submission` |
| `Submission` | gateway, evidence, provider, network | |
| `Execution` | executor and runs | EXTENDS `Submission`; every step refines it (`UsesTheGateway`) |
| `ParkingLedger` | bookings and payments, statement by statement | |
| `Escrow` | what the payment protocol promises | abstract specification of `PaymentFlow` |
| `PaymentFlow` | approval, session, callbacks, sweeper, compensation | EXTENDS `ParkingLedger`; a handler is one of its clients |
| `ApprovalQueue` | viewing and service approvals, requests to call off | gates around a serial executor |
| `ProviderChoice` | quotes, offers, attempts of a move | |
| `ScheduleConflict` | warnings between workflows | |
| `Conversation` | questions, answers, children, sweeps | |
| `StatusView` | what is shown of a workflow | |
| `Planning` | from the model's answer to a running plan | |
| `Verification` | record, receipt, link and vehicle | |
| `Accounts` | codes and the accounts they open | |
| `ExecutionProofs` | theorems about `Submission` and `Execution` | EXTENDS `Execution` |
| `PaymentFlowProofs` | theorems about `ParkingLedger` and `PaymentFlow` | EXTENDS `PaymentFlow` |
| `ApiProofs` | theorems about `Accounts` and `StatusView` | EXTENDS both |
| `DialogueProofs` | theorems about `Conversation` and `Planning` | EXTENDS both |
| `ApprovalQueueProofs`, `VerificationProofs`, `ScheduleConflictProofs`, `ProviderChoiceProofs` | theorems | EXTEND the modules they are named after |
| `MC...` | instances for TLC | |

Definitions commented `Slip` in a module are plausible mistakes in the code;
they are not part of the specification, and each property is known to fail when
one of them takes the place of the definition it imitates (`mutants` in
`PROJECT.json`).

### Submission: how a task leaves the system

`Submission.tla` models `call_provider`, the evidence columns of
`workflow_tasks` and the repository methods that write them, the provider and
the network.

| Code | Model |
|---|---|
| `workflow_tasks.status`, `.provider_submission_status`, `.provider_idempotency_key` | `status`, `evidence`, `key` |
| a coroutine inside `call_provider`, by the last thing it did | `call` (`calling`, `permitted`, `waiting`, `answered`, `returned`) |
| requests that have left | `inFlight` |
| what the provider did and the keys it remembers | `committed`, `seen` |
| `prepare_submission` (SELECT FOR UPDATE, then UPDATE) | `PrepareSubmission`; with the database failing before or after its commit, `PrepareSubmissionRaises` |
| `connector.execute` | `Send`, then `ProviderAccepts`, `ProviderRefuses` or `StopWaiting` |
| `evidence_from_result`, `record_submission_outcome` and its deferral | `EvidenceOf`, `Deferred`, `RecordOutcome` |
| `create_task`, `update_task_status`, `reopen_cancelled_tasks`, the task half of `cancel_workflow`, `supersede_task_with_new_attempt` | actions of these names |
| a dead process or a cancelled coroutine | `Crash` of any set of callers, anywhere |

Callers are arbitrary: each may call for any task at any time. So what holds
here holds under every scheduler, and `Execution` only has to refine it.
Every request stays on the wire until the provider takes it, which covers
reordering, delay and loss; the provider answers at most the caller that is
still waiting on that connection.

`CommitmentLedger.tla` is what the gateway promises, stated without callers,
messages or keys: per task a claim (`unsent`, `sending`, `confirmed`,
`unproven`) and at most one commitment, with the claims the code derives from
the evidence column. `ImplementsLedger` is the refinement.

### Execution: runs of a workflow

`Execution.tla` extends `Submission` with the executor and the runs. Run `r`
performs task `t` as the gateway's caller `<<r, t>>`; every step of a run is a
step of the gateway, or leaves it alone (`UsesTheGateway`).

| Code | Model |
|---|---|
| `workflows.status` | `workflow` |
| `result_data`, `error_code`, `retryable` of a row | `result` (`ok`, `retryable`, `final`, `dependency`) |
| `task_statuses`, `completed_results`, attempt counters and gathered results of a coroutine | `run[r].memory`, `.usable`, `.attempt`, `.outcome` |
| `run_demo_workflow`, `retry_failed_tasks`, `amend_and_rerun` / `rerun_with_answers` | `StartFirst`, `StartRetry`, `StartAmend`, then `ReopenTasks`, `ReopenWorkflow`, `ReadSeeds` |
| `Executor.execute`: creation of rows, waves, dependency check, blocked tasks | `EnsureTask`, `BeginRunning`, `MarkRunning`, `FailBlocked`, `Unresolved` |
| `run_task` and its attempts | `CallProvider`, `TakeAnswer` |
| the two writes of a conclusion | `SaveStatus`, `SaveResult` |
| the verdict (`finalize`), `_final_status` and its writer | `Finalize`, `FinishPartly`, `Judge`, `WriteVerdict` |
| `update_task_status` raising on a cancelled row, `mark_workflow_failed` | `Raise`, `MarkWorkflowFailed` |
| cancel endpoint, cancelled coroutine, dead process | `CancelWorkflow`, `CrashRun` |

Each database call is a step; a crash, a cancellation or another run may come
in between any two of them.

### ParkingLedger: bookings and payments

`ParkingLedger.tla` models the transactions of
`db/parking_payment_repository.py`, one SQL statement per action where another
client can come in between and matter, and one action for a transaction whose
first statement already holds all that it needs.

| Code | Model |
|---|---|
| rows of `parking_bookings`, `payments` | `bookings`, `payments` (ids count up and are not reused) |
| the statement an open transaction has reached | `txn`; the rows locked follow from it (`HoldsBooking`, `HoldsZone`) |
| money that really moved | `collected`, `returned` (history variables) |
| `create_booking` | `BookLock`, `BookCount`, `BookInsert`; `BookApproved` when the desk has agreed |
| `change_booking_zone`, `_settle_difference` | `ChangeLock`, `ChangeGuard`, `ChangeLockZone`, `ChangeCount`, `ChangeWrite`; `SettleDifference` |
| `cancel_parking_booking`, the refund window | `CancelParking`, `WindowCloses` |
| `create_payment`, `create_pending_payment` | `PayLookup`, `PayLock`, `PayCheck`, `PayInsert` with the kind `pay` or `open` |
| `confirm_pending_payment` | `ConfirmRead`, `ConfirmWrite` |
| `expire_stale_vnpay_sessions` | `ExpireSession` |
| compensation's `refund_payment` and `cancel_booking` | `RefundPayment`, `DeleteBooking` |
| `uq_bookings_vehicle_date`, `uq_payments_paid_booking`, `uq_payments_idempotency_key`, the foreign key | guards of `InsertBooking`, `Duplicate`, `ConfirmWrite`, `DeleteBooking` |

### PaymentFlow: the payment of one workflow

`PaymentFlow.tla` extends `ParkingLedger`: every handler is one of its clients,
and a statement a handler sends to `parking_bookings` or `payments` is that
module's action. Around it are the rows of the workflow, written one UPDATE at a
time, so that handlers interleave between any two of them.

| Code | Model |
|---|---|
| `workflows.status`, the rows of `pay_fee` and of the rest, `payment_approvals.status` | `wf`, `task`, `evidence`, `approval` |
| sessions whose URL the resident has, sessions the gateway has charged | `urls`, `charged` |
| `save_pending_approval`, `record_decision` | `SavePendingApproval`, `RecordApproved`, `Reject` |
| `open_vnpay_payment_session` | `Approve`, `RecordApproved`, `OpenSession`, `SessionStatement`, `Redirect` |
| `_execute_payment_only` | `Prepare`, `CallGateway` or `CallMock`, `MockStatement`, `MockAnswer`, `Record`, `Save`, `ListTasks`, `WriteVerdict` |
| `vnpay_ipn`, `vnpay_return`, `resume_vnpay_after_gateway` | `Callback`, `Confirm`, `CallbackReturns`, `Resume` |
| `cancel_demo_workflow`, `reject_payment`, `_cancel_workflow_and_tasks` | `AskCancel`, `Reject`, `CancelWorkflow`, `CancelList`, `CancelTask`, `CancelEnd` |
| `sweep_zombie_workflows` in its four phases | `StartSweep`, `SelectApproval`, `SelectSession`, `SelectZombie`, `SelectPaid`, `SelectNothing` |
| `release_on_failure` | `Release`, `Refund`, `Delete` |
| another workflow at the same booking | `DeskChanges` |
| a restart; the mock provider is another process and goes on | `Crash`, `ProviderGoesOn` |

`Escrow.tla` is what it promises about the place and its money, without
sessions, handlers or statuses: no money before consent, no second charge while
money is held, no place given up with money in it. `ImplementsEscrow` is the
refinement: consent is the approval, taken and given back are the ledger's
history of the booking, and the place is gone when its row is. What is taken and
given back only grows there; how much it comes to is `PaidIsThePrice` of the
ledger.

### ApprovalQueue: what the companies must agree to

One workflow, the rows of `service_approvals` and `viewing_approvals`, and the
handlers that read and write them: the first run, requests of companies (or of
the automatic approver, which presses the same buttons) and of the customer.

| Code | Model |
|---|---|
| `service_approvals.status`, `.reject_code`; rows of kind REQUEST | `row`, `code`, `wishes` |
| the payment card; the repair clarification | `card`, `question` |
| `ServiceApprovalBoundary`, `ViewingApprovalBoundary`, `PaymentApprovalBoundary` | `Seed`, `Gate`, `Park`, `Pin`, `Hold`, `Pause`, `PinViewing`, `HoldViewing`, `Card` |
| the executor, one step at a time | `Begin`, `Prepare`, `Answer`, `Save`, `Stuck`, `Exhausted`, `Verdict` |
| `record_service_decision` and `resume_after_service_decision` | `Decide`, `Look`, `Recall`, `Order`, `Recalled`, `Sift`, `Trim`, `GiveUp`, `Admit`, `Ask`, `Fail` |
| `record_viewing_decision`, `resume_viewing_after_approval`, `_materialize_and_run_remaining`, `reject_viewing` | `ApproveViewing`, `Booked`, `Ensure`, `Conclude`, `RejectViewing`, `SaveCode`, `JudgeRefusal` |
| `save_support_request`, its decision, `run_approved_requests` | `Wish`, `DecideWish`, `Recall`, `Order`, `Recalled` |
| stop, retry, amend; expiry of viewings; a restart | `Stop`, `Withdraw`, `Retry`, `Amend`, `Reopen`, `Unlock`, `ExpireStaleViewings`, `Crash` |

### ProviderChoice: quotes, offers and attempts of a move

| Code | Model |
|---|---|
| `service_quotes`, `service_provider_proposals`, `service_approvals` | `quotes`, `offers`, `queue` |
| attempts `T1`, `T1R2`, ... of the step | 1 to `MaxAttempts`, with `details` for what the fingerprint covers |
| `don_bao_gia_va_de_xuat`, `xin_bao_gia_chuyen_nha`, `chon_don_vi`, `ghim_de_xuat` | `Cleans`, `Asks`, `Chooses`, `Offers` |
| `ServiceApprovalBoundary` with `chuan_bi_de_xuat` | `Parks`, `Matches`, `After` |
| `xac_nhan_de_xuat` with the pin that follows it | `Confirms` (`Confirmable`, `Handed`) |
| `tra_loi_hoi_them` | `Says` |
| `record_service_decision`, `resume_after_service_decision` | `Decides`, `Looks`, `Sends`, `Concludes` |
| `mo_lan_chon_lai`, `open_new_attempts` | `AsksForAnother`, `Supersedes`, `Repairs` |
| stop; a quote runs out; a company does not answer | `Stops`, `RunsOut`, `MaxFailures` |

`lax` notes what the code lets through: a customer who switched by name
(`switched`), a press on the card of an attempt that is not the last one
(`behind`), a card pinned on a step whose deal is made (`stale`), and a move that
was sent although nobody was asked (`unasked`).

### ScheduleConflict: warnings between workflows

Several workflows of one owner with appointments. `checks` are the rows of
`schedule_conflict_checks`, found by fingerprint (`Fingerprint`); a `runner` is
a first job or an answer. The guard in front of the executor is `ChecksPlan`
(inside the plan) and `ChecksTask` (against other workflows, step by step);
`Pause`, `PauseFails` write the row and the paused statuses; answers are
`Answers`, `Seen`, `KeepsBoth` (the claim, `claim_conflict_ack`), `Resumes`,
`Clears`, `Repairs`, `MovesAppointment`; `Stops`, `Sweeps` and `Crash` come from
outside.

### Conversation: questions, answers and children

`row`, `clar` and `mem` are `workflows`, `workflow_clarifications` and
`_DEMO_JOBS`; `job` is `_run_demo_job`, `req` a request at `/start` or
`/continue`. `_save_clarification_safely` and its like swallow failures, so every such write
has a variant that is lost (`MaxTroubles`). `Consumes` is
`consume_clarification_and_create_child`, `ClaimsInMemory` the flag that takes
its place when the row could not be read; `SavesRest` is a partial answer,
`TalksAside` small talk beside an open question. `SweepsZombie` spares what has
an open question or, in the process that knows, a live job (`Orphan`).

### StatusView: what is shown of a workflow

A view is reduced to its key (`answer_key`): status, who must act, with what.
`Shown` builds it from the rows and from the response in memory as
`get_demo_workflow_status` does, `Cold` from the rows alone. Sentences are
claimed, spoken and stored by tasks nobody waits for (`Read`, `Claim`,
`Speak`); thirteen kinds of request, each a sequence of the steps `Refuse`,
`Decide`, `Forget`, `Run`, `Settle`, `Succeed`, `Cancel`, `KeepOwn`, `Renew`,
`AskAfter`, move the rows and the response below them.

### Planning: from the model's answer to a running plan

The language model may answer anything of its schema (`Responses`,
`Predictions`). The module has what the code then does: the fast lane
(`FastPlans`, `TakeFastLane`), the corrections of `agents/graph.py`
(`EnsurePayment`, `InjectIdentity`, and the others), `TaskPlanValidator`
(`Validate`), one corrective retry, the question (`TakeAnswer`), and the plan's
second validation on a later day by `boundary.py` and `rerun_with_answers`.
Plan algorithms are operators, checked on the plans of the instance.

### Verification: record, receipt, link and vehicle

Three systems that no transaction spans: `record` at the ownership provider,
`receipt` (`verification_materializations`), and `home`, `garage`, `done` of the
application. A decision is `Presses`, `Opens` (the receipt), `LooksUp`,
`Decides` (at the provider), `Notes`, `LinksHome` or `ReadsHome` and
`RegistersVehicle`, `Seals`; `Fails` and `Drops` are an error and a crash
anywhere. Pressing the button again is the recovery. `Lists` and `Joins` build
the page that is shown from two systems, one after the other.

### Accounts: codes and the accounts they open

`otp`, `issued`, `inbox` are the row of a code, what it was drawn for and the
mail; `ReadsCooldown` and `SavesCode` are the two queries of `save_otp`;
`Register`, `ResetPassword`, `GoogleRegister` verify (`Verifies`), and
`CreateUser`, `UpdatePassword` act on it in another transaction; `UpdateStatus`
is the administrator's lock.

## The runs

| Run | Instance | What it shows |
|---|---|---|
| `submission` | 2 callers, a write without a key and a read | the provider commits once at most; NOT_SUBMITTED proves that nothing left; the abstract ledger is implemented |
| `exec_runs` | a first run and a retry or amendment, a booking and its fee with a key, crashes and cancellation anywhere | SUCCESS is said of a commitment; a workflow is SUCCESS only while its rows are settled; dependencies first; the second attempt gets past the gateway; refinement of the gateway; every run ends |
| `parking_desk` | 2 clients, 2 vehicles, 2 zones of one place with different prices, 2 workflows, 2 bookings, 2 payments | no counted place is given twice, one session at most, the rows account for the money, no circle of waiting transactions |
| `payment_flow` | a user, a callback, a sweep and another workflow at the desk; both providers; a restart | released means ended; a paid step had money; the escrow is implemented; paid workflows are brought to an end |
| `approvals` | 4 plans (a viewing, a place and its fee; a car and the spot that needs it; a place and a tour; a tour, possibly done), up to two decisions or customer requests, two requests to call off, a restart | nothing sent before its company answered or after it refused; called off once per agreement; the last decision resumes or ends the workflow |
| `choice` | 3 attempts of a move, 2 companies with different prices and one day off, 2 requests, a quote that runs out, a silent company | the queue holds the deal agreed last; who refused stays out; a move is booked only as both agreed |
| `conflicts` | 3 workflows, 4 appointments within an hour, 2 answers, a moved appointment, a restart | no two close appointments unwarned; one handler runs a workflow; a paused workflow can be answered |
| `conversation` | 2 messages, 2 answers, 2 fields, 3 workflows, one lost write or restart | one child per answer; acknowledged answers reach the plan; every request ends or asks |
| `views` | every kind of wait, 2 requests of 13 kinds, 2 speaking tasks, a restart | the sentence is about its status; the view at rest is true |
| `planning` | about two thousand answers with right and wrong plans, with and without a booking of an earlier workflow, 2 rounds, a midnight | bookings are paid from their own booking; no foreign identity or remembered value; only open steps are blamed |
| `verification` | an apartment and a vehicle, 3 accounts, 2 reviewers, one fault, one revoked link | receipts tell the decision; rights only for approved records; what is shown is done; the sources agree except where a handler broke off |
| `accounts` | 2 names, 2 addresses, 2 codes, 2 requests, a lock | a code opens once and only what it was drawn for |

Each property is explained where it is defined, with the code it is about, and
breaks under a mutant of one mapped definition.

Some properties carry the condition under which the code keeps them. Where the
code itself lets a case through, the model does so too and *notes* it in a
history variable (`lax`, `excused`, `late`, `torn`), which records the case and guards
nothing; the property then says that this was the only way. The cases are
listed under [what the code leaves open](#what-the-code-leaves-open).

Type invariants are defined in every module (`TypeOK`, `ExecTypeOK`,
`FlowTypeOK`, `QTypeOK`, ...), and all are theorems but `PlanningTypeOK`, which bounds
what the language model may answer; TLC checked it while the module was written, and
the invariant `Fair` of that module's proofs holds what they need of
it. The runs are spent on what could be wrong.

## Bounds, and why they are enough

* *Callers, runs, clients, requests* (two, plus the first job or a sweep). Every
  guard compares a row with one actor's memory of it, and every race in the
  hazards is one of two actors: one that read, one that wrote in between. The
  first job, sweeps, writers and the desk come beside them where they take
  part. The theorems have no bound, except
  that `ReleasedOver` is about sweeps that do not overlap.
* *Tasks* (one or two in the gateway and executor). Tasks meet only through
  dependencies: one edge shows a dependency succeeding, failing, being
  cancelled, being lost with its result not written. `submission` has the task
  without a key, where evidence is all there is; the task with a key is the fee
  of `exec_runs`.
* `MaxAttempts = 3` in `exec_runs` is the code's `_MAX_ATTEMPTS`; in `choice` it is the
  attempts of one move: the first, one after a refusal, one after that.
* *Zones* (two, one place each, prices 1 and 2). A full zone, a free one, a move
  up and a move down; the amounts only have to differ.
* `BookingIds` and `PaymentIds` bound the rows ever inserted; `RoomForBooking`
  and `RoomForPayment` keep a transaction from starting when its insertion could
  lack an id, so that no transaction is blocked by the bound. Two bookings are
  a competition for one place; two payments are a payment and its refund, or two
  sessions.
* `MaxRequests`, `MaxWishes`, `MaxOffers`, `MaxMoves`, `MaxWorkflows`, `MaxRounds`, `MaxCodes`: each is the
  smallest number at which two of the things meet (two decisions, two requests
  for one booking, an offer and its successor, a parent, its child and a second
  child, a round and its rerun).
* `MaxCrashes`, `MaxTroubles`, `MaxFaults`, `MaxFailures`, `MaxLate`, `MaxLocks`, `MaxRevoked` = 1: what is wrong after
  two is wrong after the second alone, since each leaves only rows behind.
* The gateway's calls are not bounded: a caller may retry for ever, the state
  space is finite because a request is in a set and a commitment is made at
  most once (a second one would be the violation).

Deadlock is checked in `submission` only: the other systems may legitimately
come to rest (every run over, no id left, nobody pressing a button). That
transactions do not block each other is `NoDeadlock`, that runs do not hang is
`RunsEnd`, that workflows are not left behind are the other liveness
properties.

Symmetry is used for callers, clients, vehicles, workflows and requests in runs
without liveness; no operator chooses among them.

## Fairness

| Run | Assumed | Because |
|---|---|---|
| `exec_runs` (`FairExecSpec`) | weak fairness of each run's next step and of the gateway's steps of each call, among them `StopWaiting` | asyncio resumes a coroutine whose await is done; every connector passes a timeout to its HTTP client |
| `payment_flow` (`FairFlowSpec`) | weak fairness of the steps of a handler that has begun, of its database transaction, and of the sweep | the sweep is run with every poll of the list and by the loop of the worker |
| `approvals` (`FairQueueSpec`) | weak fairness of the steps of a handler that has begun (`Goes`) | as above; nobody has to decide or to ask |
| `conversation` (`FairConversationSpec`) | weak fairness of the requests and jobs taken together, and of the sweep | they are tasks of one event loop with finitely many steps; the sweep has a loop of its own |

Nothing is assumed of the provider, the network, the customer, the companies or
the gateway's callbacks. A run that has died does not end by itself: that is the
sweeper's part.

## What is proved

Checked by TLAPS for every value of the constants (`ReleasedOver`: with at most one
sweep).

**Submission** (`ExecutionProofs.tla`): `TypeCorrect`, `NoDoubleCommitment`,
`NotSubmittedProves`, `AcknowledgedProves`, `StoredKeyOnTheWire`,
`ConclusionsStay` and `Refinement`. At-most-one-commitment is not inductive:
a state with a second permit, or a second request under another key, would
break it one step later. `IInv` adds what rules those out. Without a key,
the permit, the request and the commitment are one token that moves
(`OneToken`), because leaving NOT_SUBMITTED is what the permit does and no key
means no way back. With a key, every permit and every request carries the
stored key (`PermitsCarryTheKey`) and the provider has committed once, under
that key (`CommittedUnderKey`). `SuccessIsReal` and `ConfirmedIsReal` carry a
success from the provider to the evidence. Assumed: `SubmissionAssumptions`
(read-only tasks have no key; the null values are none of the others) and the
provider's deduplication by key, which is part of the model.

**Execution** (`ExecutionProofs.tla`): `GatewayOnly` - every behaviour of the
runs is one of Submission, for any plan and any number of runs, overlapping or
not - proved action by action. So `NoDoubleExecution` follows from the
theorems above. `SuccessProves` (SUCCESS on a row is said of a commitment)
needs the invariant `RInv`: a caller `<<r, t>>` only calls for `t`
(`OwnCalls`), and a success a run holds in memory is one of a commitment
(`OutcomeIsReal`). `ExecTypeCorrect` is the type invariant. Assumed:
`ExecutionAssumptions`; not that the plan is acyclic, which safety does not
need.

`DependenciesDone` (`DependenciesFirst`) follows from what a run may remember as
done: steps that are done at their provider, however runs overlap
(`MemoryIsReal`, `WaveGrounded`, `CallsGrounded`). Two results are about runs
that wait for each other, and say so: `VerdictNotStale` (`SuccessMeansSettled`)
and `RetryPasses` (`RetryReachesProvider`) assume `~Overlap`, the constant that
lets a run start while another is live; where runs overlap both are false, and
nothing in the code keeps them apart. Their invariant is that one run is live,
that its memory of a row agrees with that row, and that a verdict not written
yet is still true (`OneAtATime`, `FirstAgrees`, `VerdictTrue`). `RetryPasses`
also assumes that every task that is safe to retry has a key. The connectors
break that (see below), and TLC then shows the second attempt being turned away.

**ParkingLedger** (`PaymentFlowProofs.tla`): `PlacesOnce`, `OneSession`, `FrozenStands`
and, from the order of the locks, `NoCircle`: no set of transactions waits in a
circle. Every step is first classified (`EveryStep`): it moves one
client and writes no row (`Quiet`), inserts a booking, moves one, opens a
session, withdraws a booking, or touches payments without opening a session.
From that, `Locked` (no row is locked by two clients), then what each client has
read under its lock and will use: `Counted` (there is a place left in the zone,
`PlacesOnce`), `Seen` (no session is open; the amount is the price), which gives
the other two. `CapacityHeld` counts the bookings that were
counted in when they were made; those the desk has approved past the count
(`availability_already_approved`) may overbook, by design. `LedgerTyped` is the type
invariant. `PriceCollected` (`PaidIsThePrice`) is about a sum over the rows of
`payments`: every step leaves the money of a booking alone, or charges, settles or
refunds it (`Moved`), and what came in stays what the rows say (`Even`). That a sum
changes by the one row that changed is proved without an induction principle: of
the sets that break it, take one with the fewest elements.

**PaymentFlow** (`PaymentFlowProofs.tla`): `EscrowKept`, the refinement of `Escrow`,
`SuccessPaid` and `FlowTyped`. Whatever a handler does to the ledger is a step of
`ParkingLedger`, or a crash that forgets transactions (`LedgerStep`), so that the
ledger's invariants go on. A session, a payment transaction and a handler on its
way to the provider exist only after the resident consented (`Consented`), and a
handler that carries `paid` has read a row whose money came in (`HandlerOk`).

`ReleasedOver` is `ReleasedIsOver` for one sweep at a time (its hypothesis, `\A s, t
\in Sweepers : s = t`, without which it is false, see below) and any number of
requests, callbacks and restarts. A handler that may still write the workflow's
status got there by an approval, a confirmation or a repair (`FlowRoute`, `FlowMoves`),
so the decision is made and no session is open or about to be (`WritesClosed`); a
workflow that is RUNNING or FAILED leaves nothing to decide or to pay (`EndsSpent`).
When a sweep turns to a zombie nobody is at work, so that one handler at most can come
to write afterwards and none where the workflow runs or has failed (`OverIsOver`);
every other compensation cancels first, and nothing leaves CANCELLED (`Cancelling`).
Once the place is gone the status is final and `pay_fee` has ended, which is what
keeps the repair of the next sweep away (`GoneIsOver`).

**Accounts** (`ApiProofs.tla`): `AccountsTyped`, `OpensOnce` and the action property
`PasswordByCode`. A row holds a code drawn for its own address and purpose
(`Drawn`), so a code stands in one row at most; the DELETE that accepts it takes
that row away and a spent code never stands again (`Spent`).

**Verification** (`VerificationProofs.tla`): `VerificationTyped`, `ReceiptTells`,
`ApprovedOpens`, `ShownDone`, `SourcesMeet`. A decision at the provider is final, the
wish on a receipt never changes, and a handler past `open_receipt` carries that
wish (`HandOk`). What came out of the proof: provider and receipt can only
contradict each other over a refusal that is not noted yet, never over an
approval (`Unsaid`).

**ScheduleConflict** (`ScheduleConflictProofs.tla`): `ScheduleTyped`, `OneRunOfEach`
(`RunsAlone`), `PausedHasAWarning` (`PausedCanBeAnswered`), `ClosePairsWarned` (`Warned`).
Whoever may still win the right to run a workflow holds a `Ticket` of it; a
workflow has one at most, none while it runs, and `claim_conflict_ack` spends it
(`AInv`). What waits has an open warning, or an answer that claimed it or took it
away is still at work (`PInv`). Of two appointments that were both checked, the one
whose rows appeared second was checked against the other (`WInv`).

**ProviderChoice** (`ProviderChoiceProofs.tla`): `ChoiceTyped`, `DealKept`
(`DealIsKept`), `BookedAsAgreed` (`BookedWasAgreed`), `RefusersLeftOut`
(`RefusedStaysOut`). The open card of a step is its last one and a quote that was
confirmed stays so (`RInv`), so what is confirmed next is the newest. As long as no
card was pinned on a deal, no step has an open card beside a confirmed one, and a
company's yes cannot become a question again (`BInv`). The attempts form a line
(`CInv`): all but the newest are cancelled and refused for good, each has one offer,
one handler at most looks for a company, and a press that still succeeds has read
every refusal there is.

**ApprovalQueue** (`ApprovalQueueProofs.tla`): `QueueTyped`, `CancelledAsAgreed`
(`CalledOffAsAgreed`) and the action property `SentAsDecided` (`DecidedWhenSent`).
`Sound` is the type invariant with what each handler may hold; all steps but five
leave the plan and the requests alone (`Quiet`). That a booking is not called off
more often than its company agreed is a count of cancellations: their names are
given out in one order, so those of the plan are the first ones (`Segment`), and a
resume that read fewer names than another has given out orders one of those again
and adds nothing (`CalledOff`). That a step is sent after its company's answer holds
of a workflow the customer has neither rerun nor made a request about (`Calm`; the
property says so, and the cases it leaves out are below): the first run asks all
companies once, and whoever has a step in hand then knows its answer (`Governed`).

**Conversation** (`DialogueProofs.tla`): `ConversationTyped`, `AnsweredOnce`
(`OneChildPerAnswer`) and `AnswersCarried` (`AnswersReachThePlan`). A workflow's number
is within its bound because every request that may still make one counts against it
from its beginning (`IdsLeft`). `Course` says who began a workflow and what a
request may hold at each stage. A question that is open, or was never asked, has no
child yet, and the claim that closes it makes the only one (`Once`). Of each question
there are copies in memory, in its row, with the requests that answer it and with
the child; all are about the same fields, those known and those asked for together,
and an answer only moves fields from the second to the first (`Carried`).

**Planning** (`DialogueProofs.tla`): `PaidWhatWasBooked` (`BookingsArePaid`), `OwnWords`
(`OwnWordsOnly`) and `BlamesOpenSteps` (`ResumeBlamesOpenSteps`), for any answers of
the language model and any length of the plans. `Runnable` is what a verdict without
complaint means; `Fair` is what every source of a plan gives and every correction
keeps: the steps are as the schema has them, nothing recalled is in them, and a payment
that has both its values takes them from one booking of the plan or from the context. `EnsurePayment` is a recursive
function of the plan's length; that it has a value, and that with it every booking is
paid (`Offered`), comes from the least index at which it would fail. A plan that runs
or waits is `Planned`: runnable, fair, and the account's own. A payment may also be for
what an earlier workflow of the conversation booked: its values are in the context
(`_load_parent_success_context`, `api/routes.py:3390`) and it refers to no step.

**StatusView** (`ApiProofs.tla`): `ViewsTyped`, `ShownTrue` (`ShownIsTrue`) and
`SentenceFits` (`ShownFits`). As long as nothing is `late`, the kept response is true, or a step is
still owed that makes it true or takes it away (`TrueJob`). A step that moves the rows
cannot break that. Its request has forgotten the response before, and nothing was kept
since (`Cleared`); or it will forget or replace it afterwards (`Owed`); or it is the
gateway's, and nothing was kept since the session was opened (`Gateway`). What is kept
is true at that moment: the first run keeps its response while the rows are as it left
them (`Unmoved`), a stop keeps CANCELLED after it cancelled (`Stopping`), a mock
payment the SUCCESS it wrote (`Paying`).

Assumed, besides the types of the constants: `"none"` is no workflow and prices
are positive (`LedgerAssumptions`); there is a zone, and users, callbacks and sweeps
are different handlers (`FlowAssumptions`); a plan is a sequence and no task is in
two plans (`ConflictAssumptions`); no company is in the catalogue twice and there is
a first attempt (`ChoiceAssumptions`); a code lives at least as long as its cooldown
(`AccountAssumptions`); apartments are not plates (`VerificationAssumptions`);
of a plan (`QueueAssumptions`): the planner names its steps T1, T2, ...
(`planner_prompt.py:326`), so that the names of cancellations
(`task_attempt.py:76`) are those of no other step, a cancellation waits for nothing
and neither does a viewing; of the conversation (`ConversationAssumptions`): a quote is
not a field, and a run does not end RUNNING; of what the language model and the fast
lane return (`PlanningAssumptions`): lists of steps with positive numbers, since
anything else fails the parsing of the answer, and a fast lane that knows nothing
recalled; of what a run leaves behind (`ViewAssumptions`): SUCCESS, FAILED or a
WAITING_APPROVAL with a boundary that waits (`_final_status`), and no gateway session.

**Only model-checked**: liveness (`RunsEnd`, `PaidIsSettled`, `DecidedIsResumed`,
`EveryRequestEnds`), which is out of the prover's reach. Every other property of the
runs is a theorem; `ReleasedOver` has the condition that sweeps do not overlap, which
is the instance of its run and not a promise of the code (see below).

## Where the code differs from what is said of it

Each was met while modelling; the models do what the code does.

**Execution.**
`executor.py:266-267` say that a tool which is safe to retry may be called again;
`executor.py:274` gives a read-only tool, or a tool without a key, a second
attempt that `prepare_submission` refuses as `IN_FLIGHT_WITHOUT_KEY`, since
`provider_gateway.py:108-127` leave the row SUBMITTING without a key (the tools of
`property.py:47`, `transport.py:154`, `tour.py:60`, `shuttle.py:62` and
`resident_services.py:44`).
`demo_service.py:2337` offers a retry for a retryable error although the
evidence it left is UNKNOWN, so that the retry fails before the provider is
reached. Of two retries at once, the slower writes RUNNING and FAILED over the
SUCCESS of the faster, although a task that is SUCCESS is not to run again
(`shared_contracts.md:554`).
`executor.py:170-172` and `payment_approval.py:448-450` say `create_task` is ON
CONFLICT DO NOTHING; it is DO UPDATE of the input.

**Money.**
`webhook_routes.py:12-15` say that the return URL never writes and that the IPN
is the only place that settles money; `vnpay_return` calls
`confirm_pending_payment` too (112). `sweeper.py:17-18` say that two overlapping
sweeps are harmless. One that has selected a workflow as a zombie and goes on only
when it has been paid marks it FAILED and deletes the booking, while the callback
and the other sweep, which both resume it, end it as SUCCESS: with two sweepers
`ReleasedIsOver` fails. (The first has to stall between its SELECT and its UPDATE
for as long as the payment takes.) `sweeper.py:218-226` say the booking of an
expired session is kept; `release_on_failure` deletes it (237).
`refund_payment` (`parking_payment_repository.py:833`) gives the whole amount
back although a zone change has returned a part of it. `create_payment` with
the key of a payment still in its transaction is told PAYMENT_ALREADY_COMPLETED
(716) and not the payment of its key. `cancel_booking` deletes REFUNDED rows
although a PAID row keeps the booking, so that a later cancellation counts less
than went back.

**Queues.**
`support_request.py:135-142` promise that two agreed requests for one booking
call it off once; requests handled by the same resume both see the plan as it
was and both are carried out. So `CalledOffAsAgreed` counts agreements, not
bookings. `routes.py:7440` says a stop withdraws the requests at the companies;
only the viewing's row is withdrawn (`expire_pending_service_approvals` has no
caller). `provider_reselection.py:28` promises that who refused is not offered
again: it holds for reselection, while the cheapest one asked for in words may
be the one that refused, and a press on an old card may have read the refusals
before the newest one (below).

**Conversations and answers.**
`save_assistant_response` does not let the sentence of a finished workflow be
replaced by one for another status (`workflow_repository.py:664`);
`claim_assistant_response` (610) has erased it by then. `refusal_policy` calls INVALID_REQUEST
repairable, `_repairable_refusals` does not.

## What the code leaves open

The cases a property excepts, or that its module shows and no property forbids.
They are the places where a change is most likely to be wanted.

**Payments.** A cancellation that finds an APPROVED card with an open session
answers CANCELLED and leaves the session (`routes.py:7406-7417`). The sweep of
expired sessions may cancel a workflow that is SUCCESS. Tasks behind the
payment leave the workflow RUNNING until the zombie sweep. A crash between
evidence and status of `pay_fee` (`demo_service.py:880`: three transactions), or
a sweep beside a callback, makes the healing fail the paid step. A session that
expires between the SELECT and the UPDATE of its confirmation is answered
ALREADY_CONFIRMED though nothing was booked (`parking_payment_repository.py:992`).
A booking cancelled with an open session is still charged (661, 680).

**Queues.** After a crash between decision and resume nobody resumes. Of two
overlapping resumes, the one that read `approved` first writes PENDING over the
SUCCESS of the other (`service_approval_routes.py:302`). Decisions made while the
first job is still parking leave WAITING_APPROVAL with nobody to act. An expired
viewing strands the other companies' approved steps. A rerun that overlaps a
resume may park a step about to be sent. With a viewing in the plan, a refused
service is sent by the viewing's resume (`demo_service.py:2749` against 1530), and a
refused viewing leaves the other rows AWAITING of a FAILED workflow. A refused
step whose dependant was approved leaves it CANCELLED, and the update to PENDING
raises; when nothing else is left the workflow ends CANCELLED with the dependant
APPROVED and still WAITING_APPROVAL (`demo_service.py:1632-1642`). A cancellation row left PENDING by a crash is run by the next resume; a
cancellation that fails makes the workflow FAILED; the step called off stays
SUCCESS. A decision on a request made before the first run has parked opens the
gate of all services (1708). `amend_and_rerun` looks at rows of kind TASK only
(2107).

**Companies.** Details moved to another day or a company switched after the pin
leave the call without name or quote: `schedule_move` carries neither. An expired
offer is never made again, no quote at all leaves WAITING_APPROVAL with nobody
to act. `ghim_de_xuat` revives cancelled steps and does not look at an offer
already confirmed; a confirmation after a stop still pins, and a request for
another company reopens a stopped workflow. A crash between superseding and
offering leaves an attempt without a card. Reruns ask without exclusions. Two
presses at once answer 500 to one. The newest attempt is told by the length of
its name (`provider_reselection.py:310`), so a press on `T1R2` while `T1R3`
exists is not refused: it opens `T1R4` with the refusers it had read, and if
`T1R3` was refused in between, the company that refused it is offered again. This
takes four attempts and is beyond the run; it came out of the proof of
`RefusedStaysOut`, which now excepts it (`behind`). The approval of another service can send a move
nobody confirmed (`demo_service.py:1681`, `service_approval.py:347`).

**Conflicts.** Pairs checked at the same time, hidden behind a nearer one, or
moved by a repair are not warned of. The row is shared by fingerprint: the
second workflow of a pair pauses without one of its own
(`schedule_conflict.py:303`). `claim_conflict_ack` claims by fingerprint: an answer
whose own warning was cleared meanwhile can claim the one another workflow has
recorded for the same pair, and leaves that workflow waiting without a warning.
`find_intraplan_conflict` returns the nearest pair only: of three close
appointments in one plan a second close pair is never warned of. What
`PausedCanBeAnswered` excepts by name is a restart, the other appointment moved, a
pair already recorded for the other workflow, and a warning claimed by an answer
to the other workflow's. `resume_after_conflict_ack` runs with
`finalize=False` and leaves the row RUNNING, which the zombie sweep turns into
FAILED (`demo_service.py:1459`). Moving the other appointment can set a SUCCESS
workflow FAILED.

**Conversations.** Two answers may both open a child when one of them goes by
the flag in memory (`routes.py:4978` against 4949). A stale partial answer
reopens a question that is answered; two partial answers overwrite each other;
an aside writes back the list of missing fields it read. A question is shown
before it is pinned. A chat child hides a parent whose question is open.
`main.py:80` sweeps without the set of live jobs. A question for a payment quote
alone cannot be answered (409) and keeps its row from the sweep.

**Views.** The first job may keep a card that is no longer true; sweeps change
rows under a kept response; `decide_demo_payment` answers FAILED to a refusal
whose rows say CANCELLED; a retry stores the fallback sentence under a final
key. With a viewing awaited and a payment asked for, the response in memory says
PROVIDER and the rows say USER (`routes.py:6059`).

**Verification.** A rejection without a reason claims its receipt and is then
refused by the provider: the record can no longer be approved (409). An outage
classified as BUSINESS_REFUSED offers no recovery. Finishing an older record
after a newer one moves the link back. After a crash `can_decide` is false, and
REJECTED with a pending receipt is shown as NEEDS_RECONCILIATION.

**Planning.** An invented literal of the right type passes the validator. A
second `pay_fee` for one booking is not rejected. Zone-change and attempt rows
are written before INVALID_PLAN is answered (`demo_service.py:2200`).
`rerun_with_answers` validates without `seeded_task_ids`
(`validator.py:331-337`), and a resume on a later day is rejected when the date of an open
step has passed. `_USER_FIELD_ORDER` (`graph.py:247`) lacks the fields of a
move, so asking for one is a dead end (219-222).

**Accounts.** Two parallel requests pass the cooldown and the first mail's code
is dead. A code is used up before `create_user` may fail with 409, which
`user_repository.create_user` tells from an index name, `users_email_key`, that does not
exist (`uq_users_email`). An archived account's address passes the sending of a
code and cannot register.

## What is abstracted

* Input and output data, key derivation, error codes and wording are reduced to
  what a guard distinguishes: an answer is one of eight outcomes, a result one
  of four. The two error codes that prove a request was never built
  (`evidence_from_result`) are raised before the gateway is entered.
* The order of tasks in a plan's list: a loop over tasks takes them in any
  order. A rerun's upsert of existing rows changes only the input.
* `Execution` takes the plan as a constant and has no approval boundaries; a
  parked step is `ApprovalQueue`'s, which in turn runs a wave one step at a time
  and without keys.
* Database failures other than in the gateway's two writes appear as crashes.
* `ParkingLedger` is one parking day, every booking costs the price of its zone
  at the time, and a mismatch of amount or currency is one refusal.
  `cancel_parking_booking` and the two DELETEs of `cancel_booking` are one step
  each: the first statement locks the booking (or the second waits for whoever
  has locked it), and a payment inserted meanwhile makes the foreign key fail
  the transaction. READ COMMITTED: a statement sees what is committed when it
  runs; no write of an open transaction is visible before its last step.
* Ages are left open: any session, card, viewing or quote that may expire may do
  so at any time. Zombies are selected only when no handler is at work on the
  workflow, since every write makes its row young again.
* `PaymentFlow`: the amount stored in the card is not kept (it is read again
  from the booking); the gateway charges a session whose page was delivered,
  once, at any time; the mock provider's answer may be lost.
* `ApprovalQueue`: the three reads of a resume (rows, plan, statuses) are one;
  cancellations are ordered in any fixed order; names of requests are their
  positions. A viewing cannot be asked to be called off (see below).
* `ProviderChoice`: one move per plan; budget and selection by name are left
  out; SERVICE_PROVIDER_MATCHING is on.
* `Conversation`: a run ends in any status; the repair of a failed step and the
  storing of the session's history are left out; amendments reach workflows with
  task rows.
* `StatusView`: the rows are a status and the set of things waited for; what a
  run does to them is any member of `Rests`.
* `Planning`: one field of each kind per tool, a literal is where it comes from.
* `Verification`: reading the identity and creating the resident are one step;
  receipts are never deleted, since the code never does.
* `Accounts`: a code is a number never drawn twice; lookups by name and address
  are one step; a minute is a tick.

### Not modelled

* *Requests about a viewing.* Their row is stored under the tool of the viewing
  (`schema_migrations.sql:861`), so that the viewing's own queries, which read
  one row without an order (`viewing_approval.py:292`), and
  `record_viewing_decision` (450-465, two rows changed, ALREADY_DECIDED) take it
  for a viewing that waits. What happens is decided by which row comes first,
  which is the database's choice and not the code's.
* *Steps a zone change adds to a plan* (`zone_change.py`): the change of the
  booking is modelled, its row in the plan and the repinning of the card are
  not yet.
* *Tokens, sessions, profile, administrator's tables, lists and histories*:
  single-row reads and writes without a protocol between actors. Tokens are not
  revoked by a new password.
* *Prompts, intents and wording*: `agents/prompts`, `small_talk.py`, `intent_resolver.py`,
  `response_agent.py`, `failure_messages.py`. What they produce is any answer
  (`Planning`), any message (`Conversation`) or any sentence (`StatusView`).
* *Mock providers* other than the company catalogue and the verification
  service; payload mappings and output contracts of the connectors; field
  parsing and constant tables.
* *Monitoring, audit, notifications, e-mail transport, migrations, generated
  data, the front end.* Nothing in the workflow state depends on them.
* *Code nothing calls*: `patch.py`, `check_and_reserve_capacity`,
  `write_final_answer`, `expire_pending_service_approvals`, `xac_nhan_bao_gia`,
  `create_request` and `decide_request` of the link requests.

## How the work was ordered

First what money and bookings depend on (`Submission`, `Execution`, `ParkingLedger`,
`PaymentFlow`), then the gates around the executor, then what is said to the
customer; in each module the model, its run and the mutants of its properties came
before the proofs. Two things would come next: the step a zone change adds to a
plan with the card it repins, beside `PaymentFlow`, and requests about a viewing,
once the code orders the rows they share with it.

## Running it

```
tlc -workers 2 -config MCExecution_runs.cfg MCExecution
tlapm PaymentFlowProofs.tla
```

`PROJECT.json` lists for every run its module, configuration and properties,
for every property a mutant, and for every definition the lines it models.
