----------------------------- MODULE PaymentFlow ------------------------------
(***************************************************************************)
(* The payment of one workflow for the place it has booked: the approval   *)
(* (orchestration/payment_approval.py), the decision endpoint and the two  *)
(* resumes of orchestration/demo_service.py, the gateway's callbacks       *)
(* (api/webhook_routes.py), the sweeper and the compensation it calls.     *)
(*                                                                         *)
(* Composed with ParkingLedger: a handler is one of its clients, and every *)
(* statement a handler sends to parking_bookings or payments is that       *)
(* module's action.  The other rows of the workflow are written one UPDATE *)
(* at a time, so the handlers interleave between any two of them.          *)
(***************************************************************************)
EXTENDS ParkingLedger, Sequences

CONSTANTS Users,      \* requests of the resident
          Callbacks,  \* requests of the gateway or of the returning browser
          Sweepers,   \* sweeps, run by whoever polls the list
          Desk,       \* another workflow that changes or cancels the booking
          Workflow,
          Place,      \* the booking made by this workflow's book_parking step
          Car,
          Providers,  \* the payment_provider settings of this instance
          MaxCrashes  \* BOUND: restarts of the backend

Handlers == Users \cup Callbacks \cup Sweepers

ASSUME FlowAssumptions ==
  /\ Handlers \cup {Desk} \subseteq Clients /\ Desk \notin Handlers
  /\ Users \cap Callbacks = {} /\ Users \cap Sweepers = {} /\ Callbacks \cap Sweepers = {}
  /\ Workflow \in Workflows /\ Place \in BookingIds /\ Car \in Vehicles /\ Zones # {}
  /\ \A b \in BookingIds : Place <= b
  /\ Providers \subseteq {"mock", "vnpay"} /\ MaxCrashes \in Nat

VARIABLES wf,        \* workflows.status
          task,      \* workflow_tasks.status of pay_fee, and of the rest of the plan
          evidence,  \* provider_submission_status of pay_fee
          approval,  \* payment_approvals.status
          handler,   \* where each handler is
          urls,      \* sessions whose page the resident has been given
          charged,   \* sessions the gateway has taken the money of
          provider,  \* settings.payment_provider
          crashes,
          crossed    \* history: a sweep repaired the workflow while another closed it

flow == <<wf, task, evidence, approval, handler, urls, charged, provider, crashes,
          crossed>>
flowVars == <<vars, flow>>

Finished == {"SUCCESS", "FAILED", "CANCELLED"}
Resting == [at |-> "idle", phase |-> "none", open |-> {}, verdict |-> "none",
            amount |-> 0, paid |-> FALSE]
Places == {"idle", "approve", "open", "opening", "opened", "confirm", "resume", "prepare",
           "call", "paying", "record", "save", "list", "verdict", "reject", "cancelAll",
           "cancelList", "cancelTask", "cancelEnd", "select", "release", "refund", "delete"}
Phases == <<"approvals", "sessions", "zombies", "heal">>

FlowTypeOK ==
  /\ TypeOK
  /\ wf \in {"RUNNING", "WAITING_APPROVAL"} \cup Finished
  /\ task \in [{"pay", "rest"} -> {"PENDING", "WAITING_APPROVAL"} \cup Finished]
  /\ evidence \in {"NOT_SUBMITTED", "SUBMITTING", "ACKNOWLEDGED", "UNKNOWN"}
  /\ approval \in {"NONE", "AWAITING", "APPROVED", "REJECTED"}
  /\ handler \in [Handlers -> [at : Places,
                     phase : {"none"} \cup {Phases[i] : i \in DOMAIN Phases},
                     open : SUBSET {"pay", "rest"}, verdict : {"none", "RUNNING"} \cup Finished,
                     amount : Amounts \cup {0}, paid : BOOLEAN]]
  /\ urls \subseteq PaymentIds /\ charged \subseteq urls
  /\ provider \in Providers /\ crashes \in 0..MaxCrashes
  /\ crossed \in BOOLEAN

\* The booking step has succeeded; the rest of the plan has too, or it waits
\* for the payment.
FlowInit ==
  /\ bookings = [b \in BookingIds |->
       IF b = Place THEN [status |-> "ACTIVE", vehicle |-> Car,
                          zone |-> CHOOSE z \in Zones : TRUE, checked |-> FALSE] ELSE NoBooking]
  /\ payments = [p \in PaymentIds |-> NoPayment]
  /\ txn = [c \in Clients |-> Idle]
  /\ late = FALSE
  /\ collected = [b \in BookingIds |-> 0] /\ returned = [b \in BookingIds |-> 0]
  /\ wf = "RUNNING"
  /\ \E s \in {"SUCCESS", "PENDING"} : task = [pay |-> "PENDING", rest |-> s]
  /\ evidence = "NOT_SUBMITTED" /\ approval = "NONE"
  /\ handler = [c \in Handlers |-> Resting]
  /\ urls = {} /\ charged = {}
  /\ provider \in Providers /\ crashes = 0 /\ crossed = FALSE

-------------------------------------------------------------------------------
(* Moving a handler *)

At(c, place) == handler[c].at = place
Go(c, place) == handler' = [handler EXCEPT ![c].at = place]
Stop(c) == handler' = [handler EXCEPT ![c] = Resting]

\* A sweep goes on with its next phase; any other handler has answered.
NextPhase(phase) == Phases[1 + CHOOSE i \in DOMAIN Phases : Phases[i] = phase]
Done(c) ==
  IF c \in Sweepers /\ handler[c].phase # "heal"
    THEN handler' = [handler EXCEPT ![c] = [Resting EXCEPT !.at = "select",
                                              !.phase = NextPhase(handler[c].phase)]]
    ELSE Stop(c)

workflowRows == <<wf, task, evidence, approval>>
outside == <<urls, charged, provider, crashes, crossed>>

\* get_vnpay_session_for_workflow: the newest row of the workflow's session.
Sessions == WithKey(Workflow, Place)
Newest == CHOOSE p \in Sessions : \A q \in Sessions : q <= p
\* Slip: any session will do.
SessionExists == Sessions # {}
GatewayPaid == Sessions # {} /\ payments[Newest].status = "PAID"

-------------------------------------------------------------------------------
(* The run reaches the payment boundary, or a zone change repins it *)

\* get_booking answers for a place that is held; a quote is that place's price.
Quotable == bookings[Place].status = "ACTIVE"

\* save_pending_approval, one transaction under the workflow's lock: never
\* for a finished workflow or step, never over a decision.
SavePendingApproval ==
  /\ wf \in {"RUNNING", "WAITING_APPROVAL"} /\ task["pay"] \notin Finished
  /\ Quotable
  /\ approval \in {"NONE", "AWAITING"}
  /\ approval' = "AWAITING"
  /\ task' = [task EXCEPT !["pay"] = "WAITING_APPROVAL"]
  /\ wf' = "WAITING_APPROVAL"
  /\ UNCHANGED <<vars, evidence, handler, outside>>

\* record_decision: UPDATE ... WHERE status = 'AWAITING'.
\* Slip: without the WHERE on the status.
Overridable == approval # "NONE"
Undecided == approval = "AWAITING"

-------------------------------------------------------------------------------
(* POST payment-decision, approve: resume_payment_after_approval with the     *)
(* mock provider, open_vnpay_payment_session with the gateway                 *)

\* The reads: the approval, the steps before it, a quote from the live booking.
Approve(c) ==
  /\ At(c, "idle") /\ txn[c] = Idle
  /\ approval = "AWAITING" /\ Quotable
  /\ handler' = [handler EXCEPT ![c].at = "approve",
                                ![c].amount = Price[bookings[Place].zone]]
  /\ UNCHANGED <<vars, workflowRows, outside>>

RecordApproved(c) ==
  /\ At(c, "approve")
  /\ \/ /\ Undecided
        /\ approval' = "APPROVED"
        /\ Go(c, IF provider = "vnpay" THEN "open" ELSE "prepare")
     \/ ~Undecided /\ Stop(c) /\ UNCHANGED approval
  /\ UNCHANGED <<vars, wf, task, evidence, outside>>

\* create_pending_payment begins.  Its key may have a row already, which is
\* then the answer; without a booking it raises.
OpenSession(c) ==
  /\ At(c, "open")
  /\ \/ PayLookup(c, "open", Workflow, Place, handler[c].amount) /\ Go(c, "opening")
     \/ (Sessions # {} \/ ~Exists(Place)) /\ Go(c, "opened") /\ UNCHANGED vars
  /\ UNCHANGED <<workflowRows, outside>>

\* A statement of a payment transaction; the handler has its answer with the last.
PayStatement(c, after) ==
  /\ txn[c].step \in {"payLock", "payCheck", "payInsert", "reply"}
  /\ Statement(c)
  /\ IF txn'[c] = Idle
       THEN handler' = [handler EXCEPT ![c] = [Resting EXCEPT !.at = after]]
       ELSE UNCHANGED handler

SessionStatement(c) ==
  /\ At(c, "opening")
  /\ PayStatement(c, "opened")
  /\ UNCHANGED <<workflowRows, outside>>

\* The redirect reaches the resident, unless creating the session raised.
Redirect(c) ==
  /\ At(c, "opened")
  /\ urls' = urls \cup {p \in Sessions : payments[p].status = "PENDING"}
  /\ Stop(c)
  /\ UNCHANGED <<vars, workflowRows, charged, provider, crashes, crossed>>

-------------------------------------------------------------------------------
(* _execute_payment_only: call_provider, then three writes *)

\* prepare_submission.  The key is the workflow and the booking, always the
\* same, so an open SUBMITTING does not refuse it.
Prepare(c) ==
  /\ At(c, "prepare")
  /\ \/ /\ evidence \notin {"ACKNOWLEDGED", "UNKNOWN"}
        /\ task["pay"] \notin {"SUCCESS", "CANCELLED"}
        /\ evidence' = "SUBMITTING"
        /\ Go(c, "call")
     \/ /\ evidence \in {"ACKNOWLEDGED", "UNKNOWN"} \/ task["pay"] \in {"SUCCESS", "CANCELLED"}
        /\ Go(c, "save") /\ UNCHANGED evidence
  /\ UNCHANGED <<vars, wf, task, approval, outside>>

\* VnPayPaymentConnector.execute reads the session again.
CallGateway(c) ==
  /\ At(c, "call") /\ provider = "vnpay"
  /\ handler' = [handler EXCEPT ![c].at = "record", ![c].paid = GatewayPaid]
  /\ UNCHANGED <<vars, workflowRows, outside>>

\* PaymentConnector.execute: the mock provider runs create_payment.
CallMock(c) ==
  /\ At(c, "call") /\ provider = "mock"
  /\ \/ PayLookup(c, "pay", Workflow, Place, handler[c].amount) /\ Go(c, "paying")
     \/ (Sessions # {} \/ ~Exists(Place)) /\ Go(c, "paying") /\ UNCHANGED vars
  /\ UNCHANGED <<workflowRows, outside>>

MockStatement(c) ==
  /\ At(c, "paying")
  /\ PayStatement(c, "paying")
  /\ UNCHANGED <<workflowRows, outside>>

\* The answer: success when the key has its row.  It can be late or lost.
MockAnswer(c) ==
  /\ At(c, "paying")
  /\ \/ txn[c] = Idle /\ \E ok \in {FALSE, Sessions # {}} :
          handler' = [handler EXCEPT ![c].at = "record", ![c].paid = ok]
     \/ txn[c] # Idle /\ Go(c, "record")
  /\ UNCHANGED <<vars, workflowRows, outside>>

\* record_submission_outcome: a conclusion is not overwritten.
Record(c) ==
  /\ At(c, "record")
  /\ evidence' = IF evidence \in {"ACKNOWLEDGED", "UNKNOWN"} THEN evidence
                 ELSE IF handler[c].paid THEN "ACKNOWLEDGED" ELSE "UNKNOWN"
  /\ Go(c, "save")
  /\ UNCHANGED <<vars, wf, task, approval, outside>>

\* update_task_status; on a cancelled step it raises and the rest is skipped.
Save(c) ==
  /\ At(c, "save")
  /\ IF task["pay"] = "CANCELLED"
       THEN Done(c) /\ UNCHANGED task
       ELSE /\ task' = [task EXCEPT !["pay"] = IF handler[c].paid THEN "SUCCESS" ELSE "FAILED"]
            /\ Go(c, "list")
  /\ UNCHANGED <<vars, wf, evidence, approval, outside>>

\* list_tasks, and the verdict drawn from it.
ListTasks(c) ==
  /\ At(c, "list")
  /\ handler' = [handler EXCEPT ![c].at = "verdict", ![c].verdict =
       IF ~handler[c].paid THEN "FAILED"
       ELSE IF \E t \in DOMAIN task : task[t] \notin Finished THEN "RUNNING" ELSE "SUCCESS"]
  /\ UNCHANGED <<vars, workflowRows, outside>>

\* update_workflow_status never leaves CANCELLED.
StatusWritten(status) == wf = "CANCELLED" => status = "CANCELLED"

WriteVerdict(c) ==
  /\ At(c, "verdict")
  /\ wf' = IF StatusWritten(handler[c].verdict) THEN handler[c].verdict ELSE wf
  /\ Done(c)
  /\ UNCHANGED <<vars, task, evidence, approval, outside>>

-------------------------------------------------------------------------------
(* The gateway and its callbacks *)

GatewayCharges(p) ==
  /\ p \in urls \ charged
  /\ charged' = charged \cup {p}
  /\ UNCHANGED <<vars, workflowRows, handler, urls, provider, crashes, crossed>>

\* vnpay_ipn and vnpay_return, as often as the gateway or the browser likes:
\* the SELECT of confirm_pending_payment, when it finds the session pending.
Callback(c, p) ==
  /\ At(c, "idle") /\ p \in charged
  /\ ConfirmRead(c, p)
  /\ Go(c, "confirm")
  /\ UNCHANGED <<workflowRows, outside>>

\* Its UPDATE.  CONFIRMED resumes the workflow; any other answer does not.
Confirm(c) ==
  /\ At(c, "confirm")
  /\ ConfirmWrite(c)
  /\ IF payments' # payments THEN Go(c, "resume") ELSE Stop(c)
  /\ UNCHANGED <<workflowRows, outside>>

CallbackReturns(c) ==
  /\ At(c, "idle") /\ txn[c].step = "reply"
  /\ Return(c)
  /\ UNCHANGED flow

\* resume_vnpay_after_gateway: an approved workflow whose session is paid.
\* The callback swallows whatever it raises.
Resume(c) ==
  /\ At(c, "resume")
  /\ IF approval = "APPROVED" /\ GatewayPaid THEN Go(c, "prepare") ELSE Done(c)
  /\ UNCHANGED <<vars, workflowRows, outside>>

-------------------------------------------------------------------------------
(* POST payment-decision, reject; the cancel endpoint *)

\* cancel_demo_workflow reads the pending payment view: awaiting a decision, or
\* approved with an open session.
PendingView ==
  /\ bookings[Place].status \in {"ACTIVE", "CANCELLED"}
  /\ \/ approval = "AWAITING"
     \/ approval = "APPROVED" /\ \E p \in Sessions : payments[p].status = "PENDING"
AskCancel(c) ==
  /\ At(c, "idle") /\ txn[c] = Idle
  /\ Go(c, IF PendingView THEN "reject" ELSE "cancelAll")
  /\ UNCHANGED <<vars, workflowRows, outside>>

\* reject_payment, from the decision endpoint or for the cancel endpoint.
Reject(c) ==
  /\ (At(c, "idle") /\ txn[c] = Idle) \/ At(c, "reject")
  /\ \/ /\ Undecided
        /\ approval' = "REJECTED"
        /\ Go(c, "cancelList")
     \/ ~Undecided /\ At(c, "reject") /\ Stop(c) /\ UNCHANGED approval
  /\ UNCHANGED <<vars, wf, task, evidence, outside>>

\* cancel_workflow: one transaction.
CancelWorkflow(c) ==
  /\ At(c, "cancelAll")
  /\ IF wf \in Finished
       THEN UNCHANGED <<wf, task>>
       ELSE /\ wf' = "CANCELLED"
            /\ task' = [t \in DOMAIN task |->
                          IF task[t] \in Finished THEN task[t] ELSE "CANCELLED"]
  /\ Stop(c)
  /\ UNCHANGED <<vars, evidence, approval, outside>>

\* reject_payment and _cancel_workflow_and_tasks go on alike: the open steps
\* are read, cancelled one by one, then the workflow.
CancelList(c) ==
  /\ At(c, "cancelList")
  /\ handler' = [handler EXCEPT ![c].at = "cancelTask",
                   ![c].open = {t \in DOMAIN task : task[t] \notin Finished}]
  /\ UNCHANGED <<vars, workflowRows, outside>>

CancelTask(c) ==
  /\ At(c, "cancelTask")
  /\ \/ \E t \in handler[c].open :
          /\ task' = [task EXCEPT ![t] = "CANCELLED"]
          /\ handler' = [handler EXCEPT ![c].open = @ \ {t}]
     \/ handler[c].open = {} /\ Go(c, "cancelEnd") /\ UNCHANGED task
  /\ UNCHANGED <<vars, wf, evidence, approval, outside>>

\* A zombie is closed by mark_workflow_failed, which spares what has ended.
CancelEnd(c) ==
  /\ At(c, "cancelEnd")
  /\ wf' = IF handler[c].phase # "zombies" THEN "CANCELLED"
           ELSE IF wf = "RUNNING" THEN "FAILED" ELSE wf
  /\ IF c \in Sweepers THEN Go(c, "release") ELSE Stop(c)
  /\ UNCHANGED <<vars, task, evidence, approval, outside>>

-------------------------------------------------------------------------------
(* sweep_zombie_workflows.  Ages are left open: an old row is one the sweep   *)
(* may select, and it may always go on without selecting it.                  *)

StartSweep(c) ==
  /\ At(c, "idle")
  /\ handler' = [handler EXCEPT ![c].at = "select", ![c].phase = "approvals"]
  /\ UNCHANGED <<vars, workflowRows, outside>>

Selecting(c, phase) == At(c, "select") /\ handler[c].phase = phase

\* _expire_stale_payment_approvals; the approval itself is not written.
SelectApproval(c) ==
  /\ Selecting(c, "approvals") /\ approval = "AWAITING"
  /\ Go(c, "cancelList")
  /\ UNCHANGED <<vars, workflowRows, outside>>

\* _expire_stale_vnpay_sessions.
SelectSession(c, p) ==
  /\ Selecting(c, "sessions")
  /\ ExpireSession(p)
  /\ Go(c, "cancelList")
  /\ UNCHANGED <<workflowRows, outside>>

\* _sweep_zombie_workflows.  A row is old after hours and every write makes it
\* young again, so no request and no repair is at work on it when it is selected.
Closing == {"select", "cancelList", "cancelTask", "cancelEnd", "release", "refund", "delete"}
AtWork(d) == ~At(d, "idle") /\ (d \in Sweepers => handler[d].at \notin Closing)

SelectZombie(c) ==
  /\ Selecting(c, "zombies") /\ wf = "RUNNING"
  /\ \A d \in Handlers : ~AtWork(d)
  /\ Go(c, "cancelList")
  /\ UNCHANGED <<vars, workflowRows, outside>>

SelectNothing(c) ==
  /\ At(c, "select") /\ handler[c].phase # "heal"
  /\ Done(c)
  /\ UNCHANGED <<vars, workflowRows, outside>>

\* _finalize_paid_vnpay_workflows.  Slip: it heals running workflows only.
HealsRunning == GatewayPaid /\ wf = "RUNNING" /\ task["pay"] \notin Finished
PaidUnfinished == GatewayPaid /\ task["pay"] \notin Finished

ClosesZombie(s) == handler[s].phase = "zombies" /\ ~At(s, "select")

SelectPaid(c) ==
  /\ Selecting(c, "heal")
  /\ \/ /\ provider = "vnpay" /\ PaidUnfinished
        /\ Go(c, "resume")
        /\ crossed' = (crossed \/ \E s \in Sweepers : ClosesZombie(s))
     \/ ~(provider = "vnpay" /\ PaidUnfinished) /\ Stop(c) /\ UNCHANGED crossed
  /\ UNCHANGED <<vars, workflowRows, urls, charged, provider, crashes>>

\* release_on_failure: read the status, refund, delete.
\* Slip: it releases whatever the status.
ReleasesAnyway == TRUE
Releasable == wf \in {"FAILED", "CANCELLED"}

Release(c) ==
  /\ At(c, "release")
  /\ IF Releasable THEN Go(c, "refund") ELSE Done(c)
  /\ UNCHANGED <<vars, workflowRows, outside>>

Refund(c) ==
  /\ At(c, "refund")
  /\ IF Paid(Place) THEN RefundPayment(Place) ELSE UNCHANGED vars
  /\ Go(c, "delete")
  /\ UNCHANGED <<workflowRows, outside>>

Delete(c) ==
  /\ At(c, "delete")
  /\ IF Exists(Place) THEN DeleteBooking(Place) ELSE UNCHANGED vars
  /\ Done(c)
  /\ UNCHANGED <<workflowRows, outside>>

-------------------------------------------------------------------------------
(* Another workflow at the same booking, and the end of a process *)

DeskChanges ==
  /\ \/ \E z \in Zones : ChangeLock(Desk, Place, z)
     \/ Statement(Desk)
     \/ CancelParking(Place)
  /\ UNCHANGED flow

\* The backend restarts.  The mock provider is another process: a transaction
\* it has begun goes on, without anyone waiting for it.
AtProvider(c) == txn[c].step \in {"payLock", "payCheck", "payInsert", "reply"} /\ txn[c] # Idle
                   /\ (txn[c].step # "reply" => txn[c].kind = "pay")
Crash ==
  /\ crashes < MaxCrashes
  /\ \E c \in Handlers : ~At(c, "idle")
  /\ crashes' = crashes + 1
  /\ handler' = [c \in Handlers |-> Resting]
  /\ txn' = [c \in Clients |-> IF AtProvider(c) THEN txn[c] ELSE Idle]
  /\ UNCHANGED <<bookings, payments, late, collected, returned,
                 workflowRows, urls, charged, provider, crossed>>

ProviderGoesOn(c) ==
  /\ ~At(c, "paying") /\ ~At(c, "opening") /\ AtProvider(c)
  /\ Statement(c)
  /\ UNCHANGED flow

-------------------------------------------------------------------------------
Executes(c) ==
  \/ Prepare(c) \/ CallGateway(c) \/ CallMock(c) \/ MockStatement(c) \/ MockAnswer(c)
  \/ Record(c) \/ Save(c) \/ ListTasks(c) \/ WriteVerdict(c)
Cancels(c) == CancelList(c) \/ CancelTask(c) \/ CancelEnd(c)

UserStep(c) ==
  \/ RecordApproved(c) \/ OpenSession(c) \/ SessionStatement(c) \/ Redirect(c)
  \/ Executes(c) \/ (At(c, "reject") /\ Reject(c)) \/ CancelWorkflow(c) \/ Cancels(c)
CallbackStep(c) == Confirm(c) \/ Resume(c) \/ Executes(c) \/ CallbackReturns(c)
SweepStep(c) ==
  \/ SelectApproval(c) \/ (\E p \in PaymentIds : SelectSession(c, p)) \/ SelectZombie(c)
  \/ SelectNothing(c) \/ SelectPaid(c)
  \/ Cancels(c) \/ Release(c) \/ Refund(c) \/ Delete(c) \/ Resume(c) \/ Executes(c)

FlowNext ==
  \/ SavePendingApproval
  \/ \E c \in Users : Approve(c) \/ Reject(c) \/ AskCancel(c) \/ UserStep(c)
  \/ \E p \in PaymentIds : GatewayCharges(p)
  \/ \E c \in Callbacks :
       (\E p \in PaymentIds : Callback(c, p)) \/ CallbackStep(c)
  \/ \E c \in Sweepers : StartSweep(c) \/ SweepStep(c)
  \/ DeskChanges
  \/ Crash
  \/ \E c \in Users : ProviderGoesOn(c)

FlowSpec == FlowInit /\ [][FlowNext]_flowVars

\* A handler that has started goes on, a transaction commits, and the sweep
\* comes back with every poll of the list.  Nobody has to decide or to pay.
Fairness ==
  /\ \A c \in Users : WF_flowVars(UserStep(c)) /\ WF_flowVars(ProviderGoesOn(c))
  /\ \A c \in Callbacks : WF_flowVars(CallbackStep(c))
  /\ \A c \in Sweepers : WF_flowVars(StartSweep(c)) /\ WF_flowVars(SweepStep(c))
  /\ WF_flowVars(Statement(Desk) /\ UNCHANGED flow)

FairFlowSpec == FlowSpec /\ Fairness

-------------------------------------------------------------------------------
(* Properties *)

\* The place and its money, as Escrow has them: consent before money, no second
\* charge while money is held, no place given up with money in it.
Contract == INSTANCE Escrow WITH
  consent <- approval, taken <- collected[Place], given <- returned[Place],
  place <- IF bookings[Place].status = "DELETED" THEN "GONE" ELSE "HELD"
ImplementsEscrow == Contract!Spec

\* Compensation only takes the place of a workflow that has ended, and that
\* stays ended whatever resume was under way, however many sweeps overlap: no
\* SUCCESS without its place, unless one sweep repairs the workflow while
\* another is closing it.
ReleasedIsOver ==
  bookings[Place].status = "DELETED" /\ ~crossed => wf \in {"FAILED", "CANCELLED"}

\* pay_fee is SUCCESS only for money that came in, however the resume was
\* started, expired or overtaken.
SuccessWasPaid == task["pay"] = "SUCCESS" => collected[Place] > 0

\* Money that came in through the gateway does not leave its workflow hanging:
\* the resume or, after a crash, the sweep brings pay_fee to an end.
PaidIsSettled ==
  (GatewayPaid /\ provider = "vnpay") ~> (task["pay"] \in Finished \/ ~GatewayPaid)

===============================================================================
