----------------------------- MODULE ApprovalQueue ----------------------------
(***************************************************************************)
(* The approvals one workflow needs from the companies that serve it: the  *)
(* gates around the executor (orchestration/service_approval.py,           *)
(* viewing_approval.py), the queue both write (service_approvals), the     *)
(* decision endpoints and the resumes of demo_service.py that follow a     *)
(* decision, the stop of the customer and the rerun after an answer.       *)
(*                                                                         *)
(* A handler is one request or the first job.  It works on the rows one    *)
(* statement or transaction at a time.  A wave of the executor is taken    *)
(* one step at a time and calls carry no key: Execution and Submission     *)
(* have the parallel wave and the keys.  Payment ends here with its card;  *)
(* PaymentFlow goes on from it.  A request to call a booking off            *)
(* (support_request.py) is one of a service; cancellations are steps that  *)
(* join the plan when they are ordered.                                    *)
(***************************************************************************)
EXTENDS Naturals, FiniteSets, Sequences

CONSTANTS Steps,      \* tasks
          Plans,      \* plans of this instance: sets of tasks
          Viewing,    \* schedule_property_viewing
          Gated,      \* tools of SERVICE_GATED_TOOLS
          Paying,     \* pay_fee
          DependsOn,
          Repairable, \* NO_AVAILABILITY may be given and names a field to ask for
          CancelsOf,  \* the names cap_danh_tinh gives to cancellations of a step
          Settled,    \* plans that may be finished already, with requests made
          Job,        \* the handler of the first run
          Officers,   \* requests of the companies, or of the automatic approver
          Customers,  \* requests of the customer
          MaxRequests,\* BOUND: requests of companies and customer together
          MaxWishes,  \* BOUND: requests to call off or change a booking
          MaxCrashes  \* BOUND: restarts of the backend

Hands == {Job} \cup Officers \cup Customers

ASSUME QueueAssumptions ==
  /\ Viewing \cup Gated \cup Paying \subseteq Steps
  /\ Viewing \cap Gated = {} /\ (Viewing \cup Gated) \cap Paying = {}
  /\ Repairable \subseteq Viewing \cup Gated
  /\ DependsOn \in [Steps -> SUBSET Steps] /\ Plans \subseteq SUBSET Steps
  /\ Job \notin Officers \cup Customers /\ Officers \cap Customers = {}
  /\ CancelsOf \in [Steps -> SUBSET (Steps \ (Viewing \cup Gated \cup Paying))]
  /\ \A t \in Gated : \A x \in CancelsOf[t] : DependsOn[x] = {}
  \* The planner names its steps T1, T2, ...; T1H2, T1H3 are names of no other step.
  /\ \A t \in Gated : \A p \in Plans : CancelsOf[t] \cap p = {}
  /\ \A s, t \in Gated : s # t => CancelsOf[s] \cap CancelsOf[t] = {}
  /\ Settled \subseteq Plans
  \* So the resume of a viewing always has the viewing itself to go on with.
  /\ \A t \in Viewing : DependsOn[t] = {}
  /\ MaxRequests \in Nat /\ MaxWishes \in Nat /\ MaxCrashes \in Nat

VARIABLES plan,      \* the tasks of the workflow
          wf,        \* workflows.status
          task,      \* workflow_tasks.status
          evidence,  \* provider_submission_status
          row,       \* service_approvals.status
          code,      \* service_approvals.reject_code
          wishes,    \* rows of kind REQUEST, in the order of their names
          card,      \* is there a payment_approvals row
          question,  \* is a repair clarification open
          hand,      \* where each handler is
          crashes

vars == <<plan, wf, task, evidence, row, code, wishes, card, question, hand, crashes>>
rows == <<row, code, wishes>>
tables == <<plan, wf, task, evidence, rows, card, question>>

Finished == {"SUCCESS", "FAILED", "CANCELLED"}
TaskStatuses == {"PENDING", "RUNNING", "WAITING_APPROVAL"} \cup Finished
RowStatuses == {"NONE", "AWAITING", "APPROVED", "REJECTED", "EXPIRED"}
Codes == {"NONE", "NO_AVAILABILITY", "OTHER"}
WishKinds == {"CANCEL", "AMEND"}
Outcomes == {"none", "ok", "failed"}
Idle == [at |-> "idle", kind |-> "none", plan |-> {}, run |-> {}, ok |-> {}, gates |-> {},
         todo |-> {}, to |-> "PENDING", next |-> "over", cur |-> {}, outcome |-> "none",
         failed |-> FALSE, verdict |-> "none", orders |-> {}, taken |-> {},
         refused |-> {}, fixable |-> {}, approved |-> {}]
Over == [Idle EXCEPT !.at = "over"]

Places == {"idle", "seed", "start", "work", "call", "sent", "answered", "write", "gate", "park",
           "pin", "hold", "pause", "pinViewing", "holdViewing", "card", "verdict", "ensure",
           "conclude", "ask", "fail", "look", "recall", "undo", "sift", "trim", "giveUp", "admit",
           "codeOther", "codeFull", "judge", "withdraw", "reopen", "unlock", "over"}
Kinds == {"none", "first", "service", "undo", "approve", "view", "reject", "stop", "again", "wish"}
Hand == [at : Places, kind : Kinds, plan : SUBSET Steps, run : SUBSET Steps, ok : SUBSET Steps,
         gates : SUBSET Steps, todo : SUBSET Steps, to : TaskStatuses,
         next : {"work", "verdict", "park", "pin", "trim", "admit", "seed", "ask", "fail", "over"},
         cur : SUBSET Steps, outcome : Outcomes, failed : BOOLEAN,
         verdict : {"none", "SUCCESS", "FAILED", "WAITING_APPROVAL"}, orders : SUBSET Nat,
         taken : SUBSET Steps, refused : SUBSET Steps, fixable : SUBSET Steps,
         approved : SUBSET Steps]

QTypeOK ==
  /\ plan \subseteq Steps
  /\ wf \in {"PENDING", "RUNNING", "WAITING_APPROVAL"} \cup Finished
  /\ task \in [Steps -> TaskStatuses]
  /\ evidence \in [Steps -> {"NOT_SUBMITTED", "SUBMITTING", "ACKNOWLEDGED", "UNKNOWN"}]
  /\ row \in [Steps -> RowStatuses] /\ code \in [Steps -> Codes]
  /\ \A t \in Steps : row[t] # "NONE" => t \in plan /\ t \in Gated \cup Viewing
  /\ wishes \in Seq([of : Gated, kind : WishKinds, status : RowStatuses]) /\ Len(wishes) <= MaxWishes
  /\ card \in BOOLEAN /\ question \in BOOLEAN /\ crashes \in 0..MaxCrashes
  /\ hand \in [Hands -> Hand]
  /\ \A h \in Hands : hand[h].orders \subseteq DOMAIN wishes /\ hand[h].fixable \subseteq hand[h].refused

\* persist_full_plan has written the rows of the plan.
Planned ==
  /\ plan \in Plans
  /\ wf = "PENDING"
  /\ task = [t \in Steps |-> "PENDING"] /\ evidence = [t \in Steps |-> "NOT_SUBMITTED"]
  /\ row = [t \in Steps |-> "NONE"] /\ wishes = <<>>
  /\ hand = [h \in Hands |-> IF h = Job THEN [Idle EXCEPT !.at = "seed", !.kind = "first",
                                                        !.plan = plan] ELSE Idle]

\* What a run leaves behind when every company agreed, and the requests its
\* customer has made since.
Served ==
  /\ plan \in Settled
  /\ wf = "SUCCESS"
  /\ task = [t \in Steps |-> IF t \in plan THEN "SUCCESS" ELSE "PENDING"]
  /\ evidence = [t \in Steps |-> IF t \in plan THEN "ACKNOWLEDGED" ELSE "NOT_SUBMITTED"]
  /\ row = [t \in Steps |-> IF t \in plan \cap Gated THEN "APPROVED" ELSE "NONE"]
  /\ \E n \in 1..MaxWishes : \E of \in [1..n -> plan \cap Gated] :
       wishes = [i \in 1..n |-> [of |-> of[i], kind |-> "CANCEL", status |-> "AWAITING"]]
  /\ hand = [h \in Hands |-> IF h = Job THEN [Over EXCEPT !.kind = "first"] ELSE Idle]

QueueInit ==
  /\ Planned \/ Served
  /\ code = [t \in Steps |-> "NONE"]
  /\ card = FALSE /\ question = FALSE /\ crashes = 0

-------------------------------------------------------------------------------
(* Plans *)

\* plan_without: what depends on an excluded step goes with it.
PlanWithout(from, out) ==
  UNION {kept \in SUBSET (from \ out) :
           \A t \in kept : DependsOn[t] \cap (from \cup out) \subseteq kept}

In(statuses) == {t \in plan : task[t] \in statuses}
Awaiting == {t \in plan : row[t] = "AWAITING"}
Open(i) == wishes[i].status = "AWAITING"
Unanswered == Awaiting # {} \/ \E i \in DOMAIN wishes : Open(i)

-------------------------------------------------------------------------------
(* Moving a handler, and the statements on the workflow and task rows *)

At(h, place) == hand[h].at = place
Move(h, changed) == hand' = [hand EXCEPT ![h] = changed]
\* A request not made yet, while there may be another.
Fresh(h) == At(h, "idle") /\ Cardinality({g \in Hands : ~At(g, "idle")}) <= MaxRequests
Go(h, place) == hand' = [hand EXCEPT ![h].at = place]
End(h) == Move(h, [Over EXCEPT !.kind = hand[h].kind])

\* update_workflow_status: a stopped workflow stays stopped.
StatusWritten(s) == IF wf = "CANCELLED" THEN wf ELSE s

\* A loop of update_task_status over "todo"; then the handler is at "next".
Writing(h, todo, status, next) == [hand[h] EXCEPT !.at = "write", !.todo = todo,
                                                  !.to = status, !.next = next]

\* An exception ends the request; the first job's handler marks the workflow.
Raised(h) ==
  /\ wf' = IF hand[h].kind = "first" /\ wf \in {"PENDING", "RUNNING"} THEN "FAILED" ELSE wf
  /\ End(h)

Write(h) ==
  /\ At(h, "write")
  /\ IF hand[h].todo = {} THEN Go(h, hand[h].next) /\ UNCHANGED <<wf, task>>
     ELSE \E t \in hand[h].todo :
            IF task[t] = "CANCELLED" /\ hand[h].to # "CANCELLED"
              THEN Raised(h) /\ UNCHANGED task
              ELSE /\ task' = [task EXCEPT ![t] = hand[h].to]
                   /\ hand' = [hand EXCEPT ![h].todo = @ \ {t}]
                   /\ UNCHANGED wf
  /\ UNCHANGED <<plan, evidence, rows, card, question, crashes>>

-------------------------------------------------------------------------------
(* A run: the seeds are read, the gates hold steps back, the rest is executed *)

Shut(seeds) == Gated \ seeds

\* Slip: the resume of a viewing runs everything that is not seeded.
RunsAll(kept) == kept

\* _materialize_and_run_remaining takes out the payment and what still waits.
Remaining(kept) ==
  LET unpaid == PlanWithout(kept, Paying \ In({"SUCCESS"}))
  IN  PlanWithout(IF unpaid = {} THEN kept ELSE unpaid, Awaiting)

\* _seed_completed, then ServiceApprovalBoundary around ViewingApprovalBoundary
\* around PaymentApprovalBoundary.  The gate of the services is open after a
\* decision of theirs; the resume of a viewing has no gates.
Seed(h) ==
  /\ At(h, "seed")
  /\ LET seeds == In({"SUCCESS", "CANCELLED"})
         shut == IF hand[h].kind = "service" THEN {} ELSE Shut(seeds) \cap hand[h].plan
         p1 == PlanWithout(hand[h].plan, shut)
         view == (Viewing \cap p1) \ In({"SUCCESS"})
         p2 == PlanWithout(p1, view)
         pay == Paying \cap p2
         run == IF hand[h].kind = "view" THEN Remaining(hand[h].plan)
                ELSE PlanWithout(p2, pay)
     IN  hand' = [hand EXCEPT
           ![h].gates = IF hand[h].kind = "view" THEN {} ELSE shut \cup view \cup pay,
           ![h].run = run \ seeds, ![h].ok = In({"SUCCESS"}),
           ![h].at = IF run # {} THEN "start" ELSE "gate"]
  /\ UNCHANGED <<tables, crashes>>

Start(h) ==
  /\ At(h, "start")
  /\ wf' = StatusWritten("RUNNING") /\ Go(h, "work")
  /\ UNCHANGED <<plan, task, evidence, rows, card, question, crashes>>

Ready(h) == {t \in hand[h].run : DependsOn[t] \subseteq hand[h].ok}

Begin(h) ==
  /\ At(h, "work")
  /\ \E t \in Ready(h) :
       IF task[t] = "CANCELLED" THEN Raised(h) /\ UNCHANGED task
       ELSE /\ task' = [task EXCEPT ![t] = "RUNNING"]
            /\ Move(h, [hand[h] EXCEPT !.at = "call", !.cur = {t}, !.run = @ \ {t}])
            /\ UNCHANGED wf
  /\ UNCHANGED <<plan, evidence, rows, card, question, crashes>>

\* prepare_submission of a call without a key.
Sendable(t) == task[t] \notin {"SUCCESS", "CANCELLED"} /\ evidence[t] = "NOT_SUBMITTED"

\* The permit is given or the call fails here.
Permit(h, sent) ==
  \E t \in hand[h].cur :
    IF Sendable(t)
      THEN /\ evidence' = [evidence EXCEPT ![t] = "SUBMITTING"]
           /\ Go(h, sent)
      ELSE /\ Move(h, [hand[h] EXCEPT !.at = "answered", !.outcome = "failed"])
           /\ UNCHANGED evidence

Prepare(h) ==
  /\ At(h, "call") /\ Permit(h, "sent")
  /\ UNCHANGED <<plan, wf, task, rows, card, question, crashes>>

\* The company's system takes the request or refuses it; either answer is
\* evidence that it was sent.
Answer(h) ==
  /\ At(h, "sent")
  /\ \E t \in hand[h].cur : \E o \in {"ok", "failed"} :
       /\ evidence' = [evidence EXCEPT ![t] = IF o = "ok" THEN "ACKNOWLEDGED" ELSE "UNKNOWN"]
       /\ Move(h, [hand[h] EXCEPT !.at = "answered", !.outcome = o])
  /\ UNCHANGED <<plan, wf, task, rows, card, question, crashes>>

Save(h) ==
  /\ At(h, "answered") /\ hand[h].kind \notin {"approve", "undo"}
  /\ \E t \in hand[h].cur :
       IF task[t] = "CANCELLED" THEN Raised(h) /\ UNCHANGED task
       ELSE /\ task' = [task EXCEPT ![t] = IF hand[h].outcome = "ok" THEN "SUCCESS" ELSE "FAILED"]
            /\ Move(h, [hand[h] EXCEPT !.at = "work", !.cur = {}, !.outcome = "none",
                          !.ok = IF hand[h].outcome = "ok" THEN @ \cup {t} ELSE @,
                          !.failed = @ \/ hand[h].outcome = "failed"])
            /\ UNCHANGED wf
  /\ UNCHANGED <<plan, evidence, rows, card, question, crashes>>

\* No step is ready: the rest fails for its dependencies.  A partial run with a
\* failure still marks the workflow FAILED.
Stuck(h) ==
  /\ At(h, "work") /\ Ready(h) = {} /\ hand[h].run # {}
  /\ Move(h, [Writing(h, hand[h].run, "FAILED", "work") EXCEPT !.run = {}, !.failed = TRUE])
  /\ UNCHANGED <<tables, crashes>>

Exhausted(h) ==
  /\ At(h, "work") /\ hand[h].run = {}
  /\ wf' = IF hand[h].failed THEN StatusWritten("FAILED") ELSE wf
  /\ Go(h, "gate")
  /\ UNCHANGED <<plan, task, evidence, rows, card, question, crashes>>

-------------------------------------------------------------------------------
(* Parking what was held back *)

Held(h, kinds) == hand[h].gates \cap kinds
Closed(t) == task[t] \in Finished

\* With a failure the viewing is cancelled and nobody is asked anything; else
\* the steps held back wait, the viewing unless its row is final.
Gate(h) ==
  /\ At(h, "gate")
  /\ LET view == {t \in Held(h, Viewing) : ~Closed(t)}
     IN  IF hand[h].failed
           THEN Move(h, Writing(h, view, "CANCELLED", "verdict"))
         ELSE IF hand[h].gates = {} THEN Go(h, "verdict")
         ELSE Move(h, Writing(h, view, "WAITING_APPROVAL", "park"))
  /\ UNCHANGED <<tables, crashes>>

Park(h) ==
  /\ At(h, "park")
  /\ Move(h, IF Held(h, Gated) = {} THEN [hand[h] EXCEPT !.at = "pause"]
             ELSE Writing(h, Held(h, Gated), "WAITING_APPROVAL", "pin"))
  /\ UNCHANGED <<tables, crashes>>

\* save_pending_service_approvals: whatever the row said, it waits again.  The
\* reject code of an earlier refusal stays.
Pin(h) ==
  /\ At(h, "pin")
  /\ row' = [t \in Steps |-> IF t \in Held(h, Gated) THEN "AWAITING" ELSE row[t]]
  /\ Go(h, "hold")
  /\ UNCHANGED <<plan, wf, task, evidence, code, wishes, card, question, crashes>>

Hold(h) ==
  /\ At(h, "hold")
  /\ wf' = StatusWritten("WAITING_APPROVAL") /\ Go(h, "pause")
  /\ UNCHANGED <<plan, task, evidence, rows, card, question, crashes>>

\* The caller of the boundaries: the first run and a rerun pin the viewing, a
\* resume after the services' decisions does not.
Pause(h) ==
  /\ At(h, "pause")
  /\ Go(h, IF hand[h].kind # "service" /\ Held(h, Viewing) # {} THEN "pinViewing"
           ELSE "card")
  /\ UNCHANGED <<tables, crashes>>

\* save_pending_viewing_approval: a decision is never written over.
Arms(t) == row[t] \in {"NONE", "AWAITING", "EXPIRED"}

PinViewing(h) ==
  /\ At(h, "pinViewing")
  /\ row' = [t \in Steps |-> IF t \in Held(h, Viewing) /\ Arms(t) THEN "AWAITING" ELSE row[t]]
  /\ Go(h, "holdViewing")
  /\ UNCHANGED <<plan, wf, task, evidence, code, wishes, card, question, crashes>>

HoldViewing(h) ==
  /\ At(h, "holdViewing")
  /\ wf' = StatusWritten("WAITING_APPROVAL") /\ Go(h, "card")
  /\ UNCHANGED <<plan, task, evidence, rows, card, question, crashes>>

\* save_pending_approval, for a payment whose booking is made.
Payable(t) ==
  /\ t \in Paying /\ ~Closed(t) /\ DependsOn[t] \subseteq In({"SUCCESS"})
  /\ wf \notin Finished

SavePendingApproval(h, place) ==
  /\ IF \E t \in plan : Payable(t)
       THEN /\ task' = [t \in Steps |-> IF Payable(t) THEN "WAITING_APPROVAL" ELSE task[t]]
            /\ wf' = "WAITING_APPROVAL" /\ card' = TRUE
       ELSE UNCHANGED <<task, wf, card>>
  /\ IF place = "over" THEN End(h) ELSE Go(h, place)
  /\ UNCHANGED <<plan, evidence, rows, question, crashes>>

\* persist_pending_approval: of the first run when the payment's gate paused it,
\* of a rerun unless the viewing's did, of a resume always.
AsksForPayment(h) ==
  \/ Held(h, Paying) # {}
  \/ hand[h].kind = "again" /\ Held(h, Viewing) = {}
  \/ hand[h].kind = "service"

Card(h) ==
  /\ At(h, "card")
  /\ IF AsksForPayment(h) THEN SavePendingApproval(h, "over")
     ELSE End(h) /\ UNCHANGED <<tables, crashes>>

-------------------------------------------------------------------------------
(* The verdict of a run that no gate interrupted *)

\* _final_status
FinalStatus ==
  IF In({"SUCCESS", "CANCELLED"}) = plan THEN "SUCCESS"
  ELSE IF In({"FAILED"}) # {} THEN "FAILED" ELSE "WAITING_APPROVAL"

\* The first job reports; a resume with a refusal the customer can repair asks;
\* another one sums the rows up.
Verdict(h) ==
  /\ At(h, "verdict")
  /\ CASE hand[h].kind = "first" ->
            /\ wf' = IF hand[h].failed THEN wf ELSE StatusWritten("SUCCESS")
            /\ End(h)
       [] hand[h].kind # "first" /\ hand[h].fixable # {} ->
            Go(h, "ask") /\ UNCHANGED wf
       [] OTHER ->
            /\ Move(h, [hand[h] EXCEPT !.verdict = FinalStatus,
                          !.at = IF FinalStatus = "WAITING_APPROVAL" THEN "ensure" ELSE "conclude"])
            /\ UNCHANGED wf
  /\ UNCHANGED <<plan, task, evidence, rows, card, question, crashes>>

\* _ensure_payment_card: only for a payment not asked for yet.
Ensure(h) ==
  /\ At(h, "ensure")
  /\ IF ~card /\ \E t \in Paying : task[t] = "PENDING"
       THEN SavePendingApproval(h, "conclude")
       ELSE Go(h, "conclude") /\ UNCHANGED <<tables, crashes>>

Conclude(h) ==
  /\ At(h, "conclude")
  /\ wf' = StatusWritten(hand[h].verdict) /\ End(h)
  /\ UNCHANGED <<plan, task, evidence, rows, card, question, crashes>>

\* _park_for_repair: the question first, then the workflow fails.
Ask(h) ==
  /\ At(h, "ask")
  /\ question' = TRUE /\ Go(h, "fail")
  /\ UNCHANGED <<plan, wf, task, evidence, rows, card, crashes>>

Fail(h) ==
  /\ At(h, "fail")
  /\ wf' = StatusWritten("FAILED") /\ End(h)
  /\ UNCHANGED <<plan, task, evidence, rows, card, question, crashes>>

-------------------------------------------------------------------------------
(* POST service-approvals/.../decide and resume_after_service_decision *)

\* record_service_decision: under the workflow's lock, of a row that waits.
\* COALESCE keeps an old code when none is given.
Decide(h) ==
  /\ Fresh(h) /\ h \in Officers
  /\ \E t \in Gated \cap Awaiting : \E c \in {"NONE", "NO_AVAILABILITY", "OTHER"} :
       /\ c = "NO_AVAILABILITY" => t \in Repairable
       /\ row' = [row EXCEPT ![t] = IF c = "NONE" THEN "APPROVED" ELSE "REJECTED"]
       /\ code' = IF c = "NONE" THEN code ELSE [code EXCEPT ![t] = c]
  /\ Move(h, [Idle EXCEPT !.at = "look", !.kind = "service"])
  /\ UNCHANGED <<plan, wf, task, evidence, wishes, card, question, crashes>>

\* The same of a request: its row is one of the queue.
DecideWish(h) ==
  /\ Fresh(h) /\ h \in Officers
  /\ \E i \in DOMAIN wishes : \E s \in {"APPROVED", "REJECTED"} :
       Open(i) /\ wishes' = [wishes EXCEPT ![i].status = s]
  /\ Move(h, [Idle EXCEPT !.at = "look", !.kind = "service"])
  /\ UNCHANGED <<plan, wf, task, evidence, row, code, card, question, crashes>>

\* Slip: one refusal leaves the workflow where it is.
AllAgreed == \A t \in plan : row[t] \in {"NONE", "APPROVED"}
AllDecided == ~Unanswered

\* A refusal with a code and a field to ask the customer for.
FixableOf(refused) == {t \in refused : row[t] = "REJECTED" /\ code[t] = "NO_AVAILABILITY"
                                       /\ t \in Repairable}

\* The requests to call something off that were agreed to.
Agreed == {i \in DOMAIN wishes : wishes[i].kind = "CANCEL" /\ wishes[i].status = "APPROVED"}

\* Nothing happens while another row of the workflow waits.  The rows are read
\* here, and the plan with them.
Look(h) ==
  /\ At(h, "look")
  /\ IF ~AllDecided THEN End(h)
     ELSE LET refused == {t \in plan : row[t] \in {"REJECTED", "EXPIRED"} /\ ~Closed(t)}
              approved == {t \in plan : row[t] = "APPROVED" /\ ~Closed(t)}
          IN  Move(h, [hand[h] EXCEPT !.at = IF Agreed = {} THEN "sift" ELSE "recall",
                         !.plan = plan, !.orders = Agreed,
                         !.refused = refused, !.fixable = FixableOf(refused),
                         !.approved = approved])
  /\ UNCHANGED <<tables, crashes>>

\* Slip: what was called off is called off again.
Whenever(t) == TRUE
NotCalledOff(t) == CancelsOf[t] \cap plan = {}

\* run_approved_requests reads the rows once, for all requests it carries out.
Recall(h) ==
  /\ At(h, "recall")
  /\ Move(h, [hand[h] EXCEPT !.at = "undo", !.kind = "undo", !.taken = plan,
                !.orders = {i \in @ : task[wishes[i].of] = "SUCCESS" /\ NotCalledOff(wishes[i].of)}])
  /\ UNCHANGED <<tables, crashes>>

\* The next request, under the next name free at that reading; the row of the
\* cancellation is written before it is sent.
Order(h) ==
  /\ At(h, "undo") /\ hand[h].orders # {}
  /\ \E i \in hand[h].orders :
       LET free == CancelsOf[wishes[i].of] \ hand[h].taken
           x == CHOOSE u \in free : TRUE
       IN  /\ \A j \in hand[h].orders : i <= j
           /\ IF free = {}
                THEN hand' = [hand EXCEPT ![h].orders = @ \ {i}] /\ UNCHANGED plan
                ELSE /\ plan' = plan \cup {x}
                     /\ Move(h, [hand[h] EXCEPT !.at = "call", !.orders = @ \ {i},
                                   !.cur = {x}, !.taken = @ \cup {x}])
  /\ UNCHANGED <<wf, task, evidence, rows, card, question, crashes>>

Recalled(h) ==
  /\ At(h, "answered") /\ hand[h].kind = "undo"
  /\ \E x \in hand[h].cur :
       IF task[x] = "CANCELLED" THEN Raised(h) /\ UNCHANGED task
       ELSE /\ task' = [task EXCEPT ![x] = IF hand[h].outcome = "ok" THEN "SUCCESS" ELSE "FAILED"]
            /\ Move(h, [hand[h] EXCEPT !.at = "undo", !.cur = {}, !.outcome = "none"])
            /\ UNCHANGED wf
  /\ UNCHANGED <<plan, evidence, rows, card, question, crashes>>

\* No request is left: the steps refused are written, and the run goes on with
\* the plan read before.
Sift(h) ==
  /\ At(h, "sift") \/ (At(h, "undo") /\ hand[h].orders = {})
  /\ Move(h, [Writing(h, hand[h].refused, "CANCELLED", "trim") EXCEPT !.kind = "service",
                !.taken = {}])
  /\ UNCHANGED <<tables, crashes>>

\* What depends on a refusal the customer cannot repair.
Doomed(h) ==
  LET definitive == hand[h].refused \ hand[h].fixable
  IN  (hand[h].plan \ PlanWithout(hand[h].plan, definitive)) \ hand[h].refused

\* The refused steps leave the plan; without any plan left the customer is
\* asked, or told and the workflow ends.
Trim(h) ==
  /\ At(h, "trim")
  /\ LET kept == PlanWithout(hand[h].plan, hand[h].refused)
     IN  IF kept = {}
           THEN Go(h, IF hand[h].fixable # {} THEN "ask" ELSE "giveUp")
           ELSE Move(h, [Writing(h, Doomed(h), "CANCELLED", "admit") EXCEPT !.plan = kept])
  /\ UNCHANGED <<tables, crashes>>

GiveUp(h) ==
  /\ At(h, "giveUp")
  /\ wf' = "CANCELLED" /\ End(h)
  /\ UNCHANGED <<plan, task, evidence, rows, card, question, crashes>>

\* The approved steps become PENDING.  One that is CANCELLED by now raises.
Admit(h) ==
  /\ At(h, "admit")
  /\ Move(h, Writing(h, hand[h].approved, "PENDING", "seed"))
  /\ UNCHANGED <<tables, crashes>>

-------------------------------------------------------------------------------
(* POST viewing-approvals/.../decide *)

\* record_viewing_decision
DecisionOn(t, s) == [row EXCEPT ![t] = s]

\* The viewings the automatic approver takes up; a person may take up any one
\* of them too.
DueViewings == Viewing \cap Awaiting

\* resume_viewing_after_approval: a look at the row and at the step.
Answerable(t) == t \in DueViewings /\ ~Closed(t)

ApproveViewing(h) ==
  /\ Fresh(h) /\ h \in Officers
  /\ \E t \in Viewing :
       /\ Answerable(t)
       /\ row' = DecisionOn(t, "APPROVED")
       /\ Move(h, [Idle EXCEPT !.at = "call", !.kind = "approve", !.cur = {t}])
  /\ UNCHANGED <<plan, wf, task, evidence, code, wishes, card, question, crashes>>

\* The viewing is booked first, outside the executor; without it everything
\* that is open fails.
Booked(h) ==
  /\ At(h, "answered") /\ hand[h].kind = "approve"
  /\ \E t \in hand[h].cur :
       IF hand[h].outcome = "failed"
         THEN Move(h, Writing(h, {u \in plan : ~Closed(u)}, "FAILED", "fail")) /\ UNCHANGED <<wf, task>>
         ELSE IF task[t] = "CANCELLED" THEN Raised(h) /\ UNCHANGED task
         ELSE /\ task' = [task EXCEPT ![t] = "SUCCESS"]
              /\ Move(h, [Idle EXCEPT !.at = "seed", !.kind = "view", !.plan = plan])
              /\ UNCHANGED wf
  /\ UNCHANGED <<plan, evidence, rows, card, question, crashes>>

\* reject_viewing: the decision, then its code in a statement of its own.
RejectViewing(h) ==
  /\ Fresh(h) /\ h \in Officers
  /\ \E t \in Viewing \cap Awaiting : \E c \in {"NO_AVAILABILITY", "OTHER"} :
       /\ row' = DecisionOn(t, "REJECTED")
       /\ Move(h, [Idle EXCEPT !.at = IF c = "OTHER" THEN "codeOther" ELSE "codeFull",
                     !.kind = "reject", !.cur = {t}])
  /\ UNCHANGED <<plan, wf, task, evidence, code, wishes, card, question, crashes>>

\* save_viewing_reject_reason
SaveCode(h) ==
  /\ hand[h].at \in {"codeOther", "codeFull"}
  /\ code' = [t \in Steps |-> IF t \notin Viewing THEN code[t]
                              ELSE IF At(h, "codeFull") THEN "NO_AVAILABILITY" ELSE "OTHER"]
  /\ Go(h, "judge")
  /\ UNCHANGED <<plan, wf, task, evidence, row, wishes, card, question, crashes>>

\* Every refusal of the workflow that can be repaired is asked about; without
\* one the whole workflow fails.
JudgeRefusal(h) ==
  /\ At(h, "judge")
  /\ LET fixable == FixableOf({t \in plan : ~Closed(t)})
     IN  IF fixable # {}
           THEN Move(h, Writing(h, fixable, "CANCELLED", "ask"))
           ELSE Move(h, Writing(h, {t \in plan : ~Closed(t)}, "FAILED", "fail"))
  /\ UNCHANGED <<tables, crashes>>

-------------------------------------------------------------------------------
(* The customer *)

\* cancel_workflow, one transaction.
Stop(h) ==
  /\ Fresh(h) /\ h \in Customers /\ ~card
  /\ wf \notin Finished
  /\ wf' = "CANCELLED" /\ question' = FALSE
  /\ task' = [t \in Steps |-> IF t \notin plan \/ Closed(t) THEN task[t] ELSE "CANCELLED"]
  /\ Move(h, [Idle EXCEPT !.at = "withdraw", !.kind = "stop"])
  /\ UNCHANGED <<plan, evidence, rows, card, crashes>>

\* expire_pending_viewing_approval: the viewing's row, and no other.
Withdrawn == Viewing

Withdraw(h) ==
  /\ At(h, "withdraw")
  /\ row' = [t \in Steps |-> IF t \in Withdrawn \cap Awaiting THEN "EXPIRED" ELSE row[t]]
  /\ End(h)
  /\ UNCHANGED <<plan, wf, task, evidence, code, wishes, card, question, crashes>>

\* expire_stale_viewing_approvals: the day of the viewing is past.  Whoever
\* opens the list of viewings does this.
ExpireStaleViewings ==
  /\ \E t \in Viewing : row[t] = "AWAITING"
  /\ row' = [t \in Steps |-> IF t \in Viewing \cap Awaiting THEN "EXPIRED" ELSE row[t]]
  /\ UNCHANGED <<plan, wf, task, evidence, code, wishes, card, question, hand, crashes>>

\* amend_and_rerun: not while a company is asked.  A workflow that ended is
\* reopened, rows first.  The answers do not change a concluded step here (that
\* opens a new attempt under a new name).
Amend(h) ==
  /\ Fresh(h) /\ h \in Customers
  /\ wf \in {"CANCELLED", "FAILED", "WAITING_APPROVAL"} /\ Awaiting = {}
  /\ Move(h, [Idle EXCEPT !.at = IF wf = "WAITING_APPROVAL" THEN "seed" ELSE "reopen",
                !.kind = "again", !.plan = plan])
  /\ UNCHANGED <<tables, crashes>>

\* retry_failed_tasks: from a step that failed and may be tried again.
Retry(h) ==
  /\ Fresh(h) /\ h \in Customers
  /\ In({"FAILED"}) # {}
  /\ Move(h, [Idle EXCEPT !.at = "seed", !.kind = "again", !.plan = plan])
  /\ UNCHANGED <<tables, crashes>>

\* save_support_request: of any step, whatever became of it.
Asking(t, k) == Append(wishes, [of |-> t, kind |-> k, status |-> "AWAITING"])

Wish(h) ==
  /\ Fresh(h) /\ h \in Customers /\ Len(wishes) < MaxWishes
  /\ \E t \in plan \cap Gated : \E k \in WishKinds :
       wishes' = Asking(t, k)
  /\ Move(h, [Over EXCEPT !.kind = "wish"])
  /\ UNCHANGED <<plan, wf, task, evidence, row, code, card, question, crashes>>

\* reopen_cancelled_tasks
Reopen(h) ==
  /\ At(h, "reopen")
  /\ task' = [t \in Steps |->
       IF t \in plan /\ task[t] \in {"CANCELLED", "FAILED", "WAITING_APPROVAL"}
            /\ evidence[t] \notin {"ACKNOWLEDGED", "UNKNOWN"} THEN "PENDING" ELSE task[t]]
  /\ Go(h, "unlock")
  /\ UNCHANGED <<plan, wf, evidence, rows, card, question, crashes>>

\* reopen_cancelled_workflow
Unlock(h) ==
  /\ At(h, "unlock")
  /\ wf' = IF wf \in {"CANCELLED", "FAILED"} THEN "RUNNING" ELSE wf
  /\ Go(h, "seed")
  /\ UNCHANGED <<plan, task, evidence, rows, card, question, crashes>>

\* The process ends: every handler is gone, the rows stay.
Crash ==
  /\ crashes < MaxCrashes
  /\ \E h \in Hands : ~At(h, "idle") /\ ~At(h, "over")
  /\ crashes' = crashes + 1
  /\ hand' = [h \in Hands |-> IF At(h, "idle") THEN hand[h]
                             ELSE [Over EXCEPT !.kind = hand[h].kind]]
  /\ UNCHANGED tables

-------------------------------------------------------------------------------
Goes(h) ==
  \/ Write(h) \/ Seed(h) \/ Start(h) \/ Begin(h) \/ Prepare(h) \/ Answer(h) \/ Save(h)
  \/ Stuck(h) \/ Exhausted(h) \/ Gate(h) \/ Park(h) \/ Pin(h) \/ Hold(h) \/ Pause(h)
  \/ PinViewing(h) \/ HoldViewing(h) \/ Card(h) \/ Verdict(h) \/ Ensure(h) \/ Conclude(h)
  \/ Ask(h) \/ Fail(h) \/ Look(h) \/ Recall(h) \/ Order(h) \/ Recalled(h) \/ Sift(h) \/ Trim(h) \/ GiveUp(h) \/ Admit(h)
  \/ Booked(h) \/ SaveCode(h) \/ JudgeRefusal(h) \/ Withdraw(h) \/ Reopen(h) \/ Unlock(h)

Decides(h) == Decide(h) \/ DecideWish(h) \/ ApproveViewing(h) \/ RejectViewing(h)
Asks(h) == Stop(h) \/ Amend(h) \/ Retry(h) \/ Wish(h)

QueueNext ==
  \/ \E h \in Hands : Goes(h) \/ Decides(h) \/ Asks(h)
  \/ ExpireStaleViewings \/ Crash

QueueSpec == QueueInit /\ [][QueueNext]_vars

\* A request that has begun goes on; nobody has to decide or to ask.
FairQueueSpec == QueueSpec /\ \A h \in Hands : WF_vars(Goes(h))

-------------------------------------------------------------------------------
(* Properties *)

Companies == Gated \cup Viewing
Reran == \E h \in Hands : hand[h].kind = "again"

\* A step is sent to a company only after the company's answer, whatever the
\* order in which the companies answer (demo_service.py:2730-2745): the resume
\* that follows the answer about the viewing leaves the other companies' steps
\* alone.  Without a viewing in the plan, the answer was not a refusal
\* (:1610-1640); with one, the resume of the viewing sends a refused step too.
\* A rerun of the customer may park a step again while an earlier resume is
\* still about to send it; and the decision on a request made before the first
\* run has asked the companies opens the gate for all of them (:1708).
DecidedWhenSent ==
  [][\A t \in Companies :
       evidence[t] = "NOT_SUBMITTED" /\ evidence'[t] # "NOT_SUBMITTED"
         /\ ~Reran /\ wishes = <<>>
          => /\ row[t] \notin {"NONE", "AWAITING"}
             /\ plan \cap Viewing = {} => row[t] # "REJECTED"]_vars

\* A booking is called off no more often than its company agreed to
\* (support_request.py:135-142), whatever resumes overlap and wherever one of
\* them stopped: requests refused, and requests about something called off
\* already, send nothing.
CalledOffAsAgreed ==
  \A t \in Gated :
    Cardinality({x \in CancelsOf[t] : evidence[x] # "NOT_SUBMITTED"})
      <= Cardinality({i \in DOMAIN wishes : /\ wishes[i].of = t /\ wishes[i].kind = "CANCEL"
                                            /\ wishes[i].status = "APPROVED"})

\* Once all companies have answered, the steps they approved leave the queue:
\* some resume takes them up, or ends the workflow because everything left
\* needs a step that was refused (demo_service.py:1632-1642); unless the
\* backend restarts in between or the answer missing was about a viewing whose
\* day passed (service_approval_routes.py:302-346).
DecidedIsResumed ==
  (/\ ~Unanswered /\ plan \cap Viewing = {}
   /\ \E t \in Gated : row[t] = "APPROVED" /\ task[t] = "WAITING_APPROVAL")
     ~> \/ crashes > 0 \/ Unanswered \/ wf = "CANCELLED"
        \/ \A t \in Gated : row[t] = "APPROVED" => task[t] # "WAITING_APPROVAL"
===============================================================================
