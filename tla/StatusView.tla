------------------------------- MODULE StatusView ------------------------------
(***************************************************************************)
(* What a customer is shown of one workflow (api/routes.py): the view the  *)
(* polling endpoint builds from the rows and from the response kept in     *)
(* _DEMO_JOBS, and the sentence the assistant says about it, which is      *)
(* claimed, spoken and stored beside the workflow by tasks nobody waits    *)
(* for.                                                                    *)
(*                                                                         *)
(* The rows are reduced to the status of the workflow and to what it is    *)
(* open for; how they come about is the matter of Execution, ApprovalQueue *)
(* and PaymentFlow, so the outcome of a run is any member of Rests.  A     *)
(* request is the sequence of its steps that touch the rows, the kept      *)
(* response or the sentence, and every other handler may work in between.  *)
(***************************************************************************)
EXTENDS Naturals, Sequences, FiniteSets

CONSTANTS Rests,     \* [wf, open]: how a run of the workflow may leave its rows
          Writers,   \* tasks of _attach_answer
          Asking,    \* requests of customer, companies and gateway
          MaxCrashes \* BOUND: restarts of the backend

Final == {"SUCCESS", "FAILED", "CANCELLED"}
Statuses == {"PENDING", "RUNNING", "WAITING_APPROVAL"} \cup Final
\* What the rows of a workflow may wait for.
Items == {"viewing", "service", "conflict", "asked", "session", "proposals",
          "rejection", "hints", "clarification"}

\* What a boundary stops a run for, and a run that stops for none of it is over.
Boundaries == {"hints", "asked", "viewing", "proposals", "conflict", "service"}

\* _final_status; a gateway session is opened by a request, never by a run.
ASSUME ViewAssumptions ==
  /\ Rests \subseteq [wf : {"SUCCESS", "FAILED", "WAITING_APPROVAL"},
                      open : SUBSET (Items \ {"session"})]
  /\ \A r \in Rests : r.wf = "WAITING_APPROVAL" => r.open \cap Boundaries # {}
  /\ Writers \cap Asking = {} /\ MaxCrashes \in Nat

VARIABLES wf,      \* workflows.status
          open,    \* what the other tables hold for it
          job,     \* the view kept in _DEMO_JOBS[...]["response"], or "none"
          answer,  \* the assistant_* columns
          writer,  \* where each task of _attach_answer is
          asking,  \* where each request is
          first,   \* where the first run is
          late,    \* the rows moved under a view that was kept afterwards, or a sweep,
                   \* or an endpoint kept a result that its own writes do not bear out
          crashes

viewVars == <<wf, open, job, answer, writer, asking, first, late, crashes>>
rows == <<wf, open>>

-------------------------------------------------------------------------------
(* Views and their keys *)

ShownAs(status, actor, kind) == <<status, actor, kind>>
ViewingView == ShownAs("WAITING_APPROVAL", "PROVIDER", "none")
ConflictView == ShownAs("WAITING_APPROVAL", "none", "none")
PaymentView == ShownAs("WAITING_APPROVAL", "USER", "none")
ProposalView == ShownAs("WAITING_APPROVAL", "USER", "PROPOSAL")
ReselectionView == ShownAs("WAITING_APPROVAL", "USER", "REJECTION")
ServiceView == ShownAs("WAITING_APPROVAL", "PROVIDER", "none")
QuestionView == ShownAs("NEEDS_INFORMATION", "none", "none")
ClarificationView == ShownAs("NEEDS_INFORMATION", "none", "none")

\* answer_key: who is waited for and with what tells the sentences apart.
Key(view) ==
  [viewing |-> ViewingView, conflict |-> ConflictView, payment |-> PaymentView,
   proposals |-> ProposalView, rejection |-> ReselectionView, service |-> ServiceView,
   question |-> QuestionView, clarification |-> ClarificationView,
   chat |-> ShownAs("CHAT", "none", "none"), error |-> ShownAs("EXECUTION_ERROR", "none", "none"),
   running |-> ShownAs("RUNNING", "none", "none"),
   waiting |-> ShownAs("WAITING_APPROVAL", "none", "none"),
   success |-> ShownAs("SUCCESS", "none", "none"), failed |-> ShownAs("FAILED", "none", "none"),
   cancelled |-> ShownAs("CANCELLED", "none", "none")][view]
Views == {"viewing", "conflict", "payment", "proposals", "rejection", "service", "question",
          "clarification", "chat", "error", "running", "waiting", "success", "failed",
          "cancelled"}
NoKey == <<"none", "none", "none">>
KeyStatus(key) == key[1]

\* public_status_from_db
Plain == CASE wf = "SUCCESS" -> "success" [] wf = "FAILED" -> "failed"
           [] wf = "CANCELLED" -> "cancelled" [] wf = "WAITING_APPROVAL" -> "waiting"
           [] OTHER -> "running"

Asks(view, holds) == [view |-> view, holds |-> holds]
FirstOf(cases) == LET i == CHOOSE n \in DOMAIN cases :
                              cases[n].holds /\ \A m \in 1..(n - 1) : ~cases[m].holds
                  IN  cases[i].view

Repairing == "hints" \in open
Visits == "viewing" \in open
ToChoose == "proposals" \in open
ToAnswer == wf \notin Final /\ "clarification" \in open
InConflict == wf = "WAITING_APPROVAL" /\ "conflict" \in open
ToPay == ~Repairing /\ open \cap {"asked", "session"} # {}
Refused == ~Repairing /\ "rejection" \in open
InQueue == ~Repairing /\ open \cap {"viewing", "service"} # {}

\* The polling endpoint: a viewing and a conflict before everything, what waits for the
\* customer or a company next, the kept response before the rows themselves.
ShownFirst == <<Asks("viewing", Visits), Asks("conflict", InConflict)>>
ShownAwaiting == <<Asks("payment", ToPay), Asks("proposals", ToChoose),
                   Asks("rejection", Refused), Asks("service", InQueue)>>
ShownKept ==
  <<Asks("memory", job # "none"),
    Asks("question", Repairing /\ wf \in {"FAILED", "CANCELLED", "WAITING_APPROVAL"})>>
ShownRest == <<Asks("clarification", ToAnswer), Asks(Plain, TRUE)>>
Shown == LET v == FirstOf(ShownFirst \o ShownAwaiting \o ShownKept \o ShownRest)
         IN  IF v = "memory" THEN job ELSE v

\* _public_view_from_db, what a writer reads when nothing is kept.
ColdFirst == <<Asks("conflict", InConflict)>>
ColdRest == <<Asks("payment", ToPay), Asks("proposals", ToChoose),
              Asks("rejection", Refused), Asks("service", InQueue), Asks(Plain, TRUE)>>
Cold == FirstOf(ColdFirst \o ColdRest)

-------------------------------------------------------------------------------
(* The stored sentence *)

NoAnswer == [for |-> NoKey, state |-> "NULL", text |-> NoKey]
Quiet(w) == [at |-> w, view |-> "none", key |-> NoKey, mine |-> FALSE]

\* Slip: the old sentence stays until the new one is there.
KeepsOldText(key) == [for |-> key, state |-> "PENDING", text |-> answer.text]
\* claim_assistant_response: the old sentence goes with the claim.
Claimable(key) == answer.for # key \/ answer.state \in {"NULL", "STALE"}
Claimed(key) == [for |-> key, state |-> "PENDING", text |-> NoKey]

\* save_assistant_response: what is over is not said to wait.
Savable(key) == KeyStatus(key) \in {"CHAT", "SUCCESS", "CANCELLED"}
                \/ wf \notin {"SUCCESS", "CANCELLED"}
\* The kept response changes: no writer holds it any more.
Keep(view) ==
  /\ job' = view
  /\ writer' = [w \in Writers |-> [writer[w] EXCEPT !.mine = FALSE]]

Free == {w \in Writers : writer[w].at = "idle"}
\* Slip: the writer puts its view back whatever happened meanwhile.
PutsBack(w) == IF writer[w].view \in Views THEN writer[w].view ELSE job
\* What is kept once a writer is through: its view, if that is still the kept one.
Attached(w) == IF writer[w].mine THEN writer[w].view ELSE job
\* request_fresh_answer
Ask == IF Free = {} THEN UNCHANGED writer
       ELSE \E w \in Free : writer' = [writer EXCEPT ![w] = Quiet("read")]

\* _attach_answer: the view the sentence will be about.
Read(w) ==
  /\ writer[w].at = "read"
  /\ LET v == IF job # "none" THEN job ELSE Cold IN
     writer' = [writer EXCEPT ![w] = [at |-> "claim", view |-> v, key |-> Key(v),
                                      mine |-> job # "none"]]
  /\ UNCHANGED <<rows, job, answer, asking, first, late, crashes>>

Claim(w) ==
  /\ writer[w].at = "claim"
  /\ IF Claimable(writer[w].key)
       THEN /\ answer' = Claimed(writer[w].key)
            /\ writer' = [writer EXCEPT ![w].at = "speak"]
       ELSE writer' = [writer EXCEPT ![w] = Quiet("over")] /\ UNCHANGED answer
  /\ UNCHANGED <<rows, job, asking, first, late, crashes>>

\* Spoken or its baseline; a chat workflow without tasks is finished with it.
Speak(w) ==
  /\ writer[w].at = "speak"
  /\ answer' = IF Savable(writer[w].key)
                 THEN [for |-> writer[w].key, state |-> "READY", text |-> writer[w].key]
                 ELSE answer
  /\ wf' = IF writer[w].view = "chat" /\ wf # "CANCELLED" THEN "SUCCESS" ELSE wf
  /\ job' = Attached(w)
  /\ writer' = [writer EXCEPT ![w] = Quiet("over")]
  /\ UNCHANGED <<open, asking, first, late, crashes>>

\* ASSISTANT_PENDING_TTL_SECONDS pass.
Age ==
  /\ answer.state = "PENDING"
  /\ answer' = [answer EXCEPT !.state = "STALE"]
  /\ UNCHANGED <<rows, job, writer, asking, first, late, crashes>>

-------------------------------------------------------------------------------
(* The first run: rows, kept response, question, writer, verdict *)

RestOf(r) == /\ wf' = IF wf = "CANCELLED" THEN wf ELSE r.wf
             /\ open' = IF wf = "CANCELLED" THEN open ELSE r.open
\* What the planner makes of the goal, or the run of its plan.
FirstRun ==
  /\ first.at = "run"
  /\ \/ \E r \in Rests : RestOf(r) /\ first' = [at |-> "keep", view |-> r]
     \/ \E v \in {"clarification", "chat", "error"} :
          first' = [at |-> "keep", view |-> [wf |-> v, open |-> {}]] /\ UNCHANGED rows
  /\ UNCHANGED <<job, answer, writer, asking, late, crashes>>

\* _demo_response, in its order: the question or error of the planner, the wait of
\* the boundary that stopped the run, the results of the run.
PlannerSays(r) == <<Asks("question", "hints" \in r.open), Asks(r.wf, r.wf \in Views)>>
PolicySays(r) == <<Asks("payment", "asked" \in r.open), Asks("viewing", "viewing" \in r.open),
                   Asks("proposals", "proposals" \in r.open),
                   Asks("conflict", "conflict" \in r.open),
                   Asks("service", "service" \in r.open)>>
RunSays(r) == <<Asks("success", r.wf = "SUCCESS"), Asks("failed", TRUE)>>
ResponseOf(r) == FirstOf(PlannerSays(r) \o PolicySays(r) \o RunSays(r))

KeepFirst ==
  /\ first.at = "keep"
  /\ Keep(ResponseOf(first.view))
  /\ first' = [first EXCEPT !.at = "ask"]
  /\ late' = (late \/ \E a \in Asking : asking[a].at = "go")
  /\ UNCHANGED <<rows, answer, asking, crashes>>

\* The question is stored before its answer is asked for.
AskFirst ==
  /\ first.at = "ask"
  /\ open' = IF ResponseOf(first.view) \in {"clarification", "question"}
               THEN open \cup {"clarification"} ELSE open
  /\ Ask
  /\ first' = [first EXCEPT !.at = "mark"]
  /\ UNCHANGED <<wf, job, answer, asking, late, crashes>>

\* mark_workflow_failed after a response of failure.
MarkFirst ==
  /\ first.at = "mark"
  /\ wf' = IF ResponseOf(first.view) = "error" /\ wf \in {"PENDING", "RUNNING"} THEN "FAILED"
           ELSE wf
  /\ first' = [first EXCEPT !.at = "over"]
  /\ UNCHANGED <<open, job, answer, writer, asking, late, crashes>>

-------------------------------------------------------------------------------
(* Requests, each with what it needs, what it decides and its steps in order *)

ServiceDecision == [needs |-> "service", takes |-> {"service"}, gives |-> {},
                    steps |-> <<"decide", "forget", "run", "status", "renew", "speak">>]
ViewingDecision == [needs |-> "viewing", takes |-> {"viewing"}, gives |-> {},
                    steps |-> <<"forget", "decide", "run", "status", "speak">>]
MockPayment == [needs |-> "asked", takes |-> {"asked"}, gives |-> {},
                steps |-> <<"forget", "decide", "succeed", "keep", "speak">>]
OpenSession == [needs |-> "asked", takes |-> {"asked"}, gives |-> {"session"},
                steps |-> <<"forget", "decide", "forget">>]
RefusePayment == [needs |-> "asked", takes |-> {"asked"}, gives |-> {},
                  steps |-> <<"forget", "reject">>]
GatewayCalls == [needs |-> "session", takes |-> {"session"}, gives |-> {},
                 steps |-> <<"decide", "succeed", "speak">>]
ConfirmProposal == [needs |-> "proposals", takes |-> {"proposals"}, gives |-> {"service"},
                    steps |-> <<"decide", "forget", "speak">>]
AnotherProvider == [needs |-> "rejection", takes |-> {"rejection"}, gives |-> {"proposals"},
                    steps |-> <<"decide", "forget", "speak">>]
ConflictReply == [needs |-> "conflict", takes |-> {"conflict"}, gives |-> {},
                  steps |-> <<"forget", "decide", "run", "status">>]
AnswerAndRerun == [needs |-> "hints", takes |-> {"clarification"}, gives |-> {},
                   steps |-> <<"run", "status", "forget", "decide", "speak">>]
Retry == [needs |-> "FAILED", takes |-> {}, gives |-> {}, steps |-> <<"forget", "run", "status">>]
AmendOne == [needs |-> "SUCCESS", takes |-> {}, gives |-> {},
             steps |-> <<"run", "status", "forget", "speak">>]
Stop == [needs |-> "PENDING", takes |-> {"viewing"}, gives |-> {},
         steps |-> <<"cancel", "decide", "keep", "speak">>]
\* A stop that finds a payment asked for, or a session of the gateway, refuses the payment.
StopUnpaid == [needs |-> "asked", takes |-> {"viewing"}, gives |-> {},
               steps |-> <<"reject", "decide", "keep", "speak">>]
Stops == {"stop", "unpaid"}

Endpoints ==
  [service |-> ServiceDecision, viewing |-> ViewingDecision, pay |-> MockPayment,
   session |-> OpenSession, refuse |-> RefusePayment, gateway |-> GatewayCalls,
   confirm |-> ConfirmProposal, another |-> AnotherProvider, conflict |-> ConflictReply,
   answer |-> AnswerAndRerun, retry |-> Retry, amend |-> AmendOne, stop |-> Stop,
   unpaid |-> StopUnpaid]

Needed(kind) ==
  \/ kind # "stop" /\ Endpoints[kind].needs \in open \cup {wf}
  \/ kind = "stop" /\ wf \in {"PENDING", "RUNNING", "WAITING_APPROVAL"}
                   /\ open \cap {"asked", "session"} = {}
  \/ kind = "unpaid" /\ "session" \in open

NoRest == [wf |-> "none", open |-> {}]
Waits == [at |-> "idle", left |-> <<>>, kind |-> "stop", rest |-> NoRest]

Call(a) ==
  /\ asking[a].at = "idle"
  /\ \E kind \in DOMAIN Endpoints :
       /\ Needed(kind)
       /\ asking' = [asking EXCEPT ![a] = [Waits EXCEPT !.at = "go", !.kind = kind,
                                                       !.left = Endpoints[kind].steps]]
  /\ UNCHANGED <<rows, job, answer, writer, first, late, crashes>>

\* The rows move while another handler is about to keep what it saw of them.
Moved(a) == late' = (late \/ first.at = "keep"
                     \/ \E b \in Asking \ {a} : \E i \in DOMAIN asking[b].left :
                                                asking[b].left[i] = "keep")

At(a, step) == asking[a].at = "go" /\ Head(asking[a].left) = step
Next1(a) == IF Tail(asking[a].left) = <<>> THEN [Waits EXCEPT !.at = "over"]
            ELSE [asking[a] EXCEPT !.left = Tail(@)]
Step(a) == asking' = [asking EXCEPT ![a] = Next1(a)]
Refuse(a) == asking' = [asking EXCEPT ![a] = [Waits EXCEPT !.at = "over"]]

\* The conditional write of the endpoint; a second decision is answered 409.
Decide(a) ==
  /\ At(a, "decide")
  /\ LET r == Endpoints[asking[a].kind] IN
     IF r.takes = {} \/ r.takes \cap open # {} \/ asking[a].kind \in Stops
       THEN /\ open' = (open \ r.takes) \cup (IF r.takes \cap open # {} THEN r.gives ELSE {})
            /\ Step(a) /\ Moved(a)
       ELSE Refuse(a) /\ UNCHANGED <<open, late>>
  /\ UNCHANGED <<wf, job, answer, writer, first, crashes>>

Forget(a) ==
  /\ At(a, "forget")
  /\ Keep("none") /\ Step(a)
  /\ UNCHANGED <<rows, answer, first, late, crashes>>

\* What a resume, rerun or retry says of its outcome; "keep both" says nothing.
Told(r) == IF "hints" \in r.open THEN Key("question") ELSE <<r.wf, "none", "none">>
Says(kind, r) == kind # "conflict" \/ "hints" \in r.open

\* resume_after_conflict_ack leaves the workflow PENDING however its run ended.
Outcomes(kind) == IF kind # "conflict" THEN Rests
                  ELSE {[r EXCEPT !.wf = IF @ = "SUCCESS" THEN "PENDING" ELSE @] : r \in Rests}

\* The text of the outcome is stored first, then the status of the workflow.
Run(a) ==
  /\ At(a, "run")
  /\ \E r \in Outcomes(asking[a].kind) :
       /\ open' = IF wf = "CANCELLED" THEN open ELSE r.open
       /\ answer' = IF Says(asking[a].kind, r) /\ Savable(Told(r))
                      THEN [for |-> Told(r), state |-> "READY", text |-> Told(r)] ELSE answer
       /\ asking' = [asking EXCEPT ![a] = [Next1(a) EXCEPT !.rest = r]]
  /\ Moved(a)
  /\ UNCHANGED <<wf, job, writer, first, crashes>>

\* The decisions of the companies ask for no sentence where a question was parked.
Settle(a) ==
  /\ At(a, "status")
  /\ LET r == asking[a].rest IN
     /\ wf' = IF wf = "CANCELLED" THEN wf ELSE r.wf
     /\ IF "hints" \in r.open /\ asking[a].kind \in {"service", "viewing"}
          THEN Refuse(a) ELSE Step(a)
  /\ Moved(a)
  /\ UNCHANGED <<open, job, answer, writer, first, crashes>>

\* _execute_payment_only: a workflow with other steps left goes on RUNNING, and the mock
\* payment that fails is answered at once, with nothing kept.
Succeed(a) ==
  /\ At(a, "succeed")
  /\ \E verdict \in {"SUCCESS", "RUNNING", "FAILED"} :
       /\ wf' = IF wf = "CANCELLED" THEN wf ELSE verdict
       /\ IF asking[a].kind = "pay" /\ verdict = "FAILED" THEN Refuse(a) ELSE Step(a)
  /\ Moved(a)
  /\ UNCHANGED <<open, job, answer, writer, first, crashes>>

\* cancel_workflow; the question and the sentence go with it.
Cancel(a) ==
  /\ At(a, "cancel")
  /\ \/ wf \in {"SUCCESS", "FAILED"} /\ Refuse(a) /\ UNCHANGED <<rows, answer, late>>
     \/ wf = "CANCELLED" /\ Step(a) /\ UNCHANGED <<rows, answer, late>>
     \/ /\ wf \notin Final
        /\ wf' = "CANCELLED" /\ open' = open \ {"clarification"} /\ answer' = NoAnswer
        /\ Step(a) /\ Moved(a)
  /\ UNCHANGED <<job, writer, first, crashes>>

\* reject_payment: only a payment that still waits for its customer is refused; a stop
\* takes ALREADY_DECIDED for a cancelled workflow and goes on.
Reject(a) ==
  /\ At(a, "reject")
  /\ \/ /\ "asked" \in open /\ open' = open \ {"asked"} /\ wf' = "CANCELLED"
        /\ Step(a) /\ Moved(a)
     \/ /\ "asked" \notin open
        /\ IF asking[a].kind \in Stops THEN Step(a) ELSE Refuse(a)
        /\ UNCHANGED <<rows, late>>
  /\ UNCHANGED <<job, answer, writer, first, crashes>>

\* The result an endpoint keeps without reading it: SUCCESS after the payment, CANCELLED.
Result(kind) == IF kind \in Stops THEN "cancelled" ELSE "success"
\* The mock payment keeps SUCCESS over a workflow that has other steps left, and the stop
\* of an open session keeps CANCELLED over a workflow it has not touched.
Unborne(kind) == \/ kind = "pay" /\ wf # "SUCCESS"
                 \/ kind = "unpaid" /\ wf # "CANCELLED"
KeepOwn(a) ==
  /\ At(a, "keep")
  /\ Keep(Result(asking[a].kind))
  /\ first' = IF asking[a].kind \in Stops THEN [first EXCEPT !.at = "over"] ELSE first
  /\ late' = (late \/ Unborne(asking[a].kind) \/ \E b \in Asking \ {a} : asking[b].at = "go")
  /\ Step(a)
  /\ UNCHANGED <<rows, answer, crashes>>

\* invalidate_assistant_response
Renew(a) ==
  /\ At(a, "renew")
  /\ answer' = NoAnswer /\ Step(a)
  /\ UNCHANGED <<rows, job, writer, first, late, crashes>>

AskAfter(a) ==
  /\ At(a, "speak")
  /\ Ask /\ Step(a)
  /\ UNCHANGED <<rows, job, answer, first, late, crashes>>

-------------------------------------------------------------------------------
(* What nobody asked for *)

\* sweep_expired_payment_approvals, sweep_expired_gateway_sessions,
\* sweep_zombie_workflows: rows only.
Sweep ==
  /\ \/ /\ wf = "WAITING_APPROVAL" /\ open \cap {"asked", "session"} # {}
        /\ wf' = "CANCELLED" /\ open' = open \ {"session"}
     \/ /\ wf \in {"PENDING", "RUNNING"} /\ "clarification" \notin open /\ job = "none"
        /\ first.at = "over"
        /\ wf' = "FAILED" /\ UNCHANGED open
  /\ late' = TRUE
  /\ UNCHANGED <<job, answer, writer, asking, first, crashes>>

Crash ==
  /\ crashes < MaxCrashes /\ crashes' = crashes + 1
  /\ job' = "none"
  /\ writer' = [w \in Writers |-> IF writer[w].at = "idle" THEN writer[w] ELSE Quiet("over")]
  /\ asking' = [a \in Asking |-> IF asking[a].at = "go" THEN [Waits EXCEPT !.at = "over"]
                                 ELSE asking[a]]
  /\ first' = [first EXCEPT !.at = "over"]
  /\ UNCHANGED <<rows, answer, late>>

ViewInit ==
  /\ wf = "PENDING" /\ open = {}
  /\ job = "none" /\ answer = NoAnswer
  /\ writer = [w \in Writers |-> Quiet("idle")]
  /\ asking = [a \in Asking |-> Waits]
  /\ first = [at |-> "run", view |-> NoRest]
  /\ late = FALSE /\ crashes = 0

ViewNext ==
  \/ FirstRun \/ KeepFirst \/ AskFirst \/ MarkFirst \/ Age \/ Sweep \/ Crash
  \/ \E w \in Writers : Read(w) \/ Claim(w) \/ Speak(w)
  \/ \E a \in Asking : \/ Call(a) \/ Decide(a) \/ Forget(a) \/ Run(a) \/ Settle(a)
                       \/ Succeed(a) \/ Cancel(a) \/ Reject(a) \/ KeepOwn(a) \/ Renew(a)
                       \/ AskAfter(a)

ViewSpec == ViewInit /\ [][ViewNext]_viewVars

-------------------------------------------------------------------------------
(* Properties *)

AnswerKeys == {Key(v) : v \in Views} \cup {<<s, "none", "none">> : s \in Statuses}

SVTypeOK ==
  /\ wf \in Statuses /\ open \subseteq Items
  /\ job \in Views \cup {"none"}
  /\ answer.for \in AnswerKeys \cup {NoKey} /\ answer.text \in AnswerKeys \cup {NoKey}
  /\ answer.state \in {"NULL", "PENDING", "STALE", "READY"}
  /\ \A w \in Writers : /\ writer[w].at \in {"idle", "read", "claim", "speak", "over"}
                         /\ writer[w].mine => writer[w].view = job
  /\ first.at \in {"run", "keep", "ask", "mark", "over"}
  /\ late \in BOOLEAN /\ crashes \in 0..MaxCrashes

\* A stored sentence is about the state it is filed under, whatever tasks were
\* claiming and speaking at the time: _with_stored_answer shows it by that key alone.
ShownFits == answer.text # NoKey => answer.text = answer.for

\* Is what the view tells the customer true of the rows?
IsTrue(view) ==
  CASE view = "service" -> open \cap {"viewing", "service"} # {}
    [] view = "payment" -> open \cap {"asked", "session"} # {}
    [] view = "question" -> "hints" \in open
    [] view \in Items \ {"service"} -> view \in open
    [] view \in {"error", "failed"} -> wf = "FAILED"
    [] view = "success" -> wf = "SUCCESS"
    [] view = "cancelled" -> wf = "CANCELLED"
    [] OTHER -> TRUE
Settled == first.at = "over" /\ \A a \in Asking : asking[a].at # "go"

\* Once the requests are through, the response kept in memory is still true: no request
\* leaves the card or the result it has just made untrue, and no writer puts it back.
\* Not promised where the rows moved between the reading of a response and its keeping,
\* nor from the two results on that Unborne names, which nothing takes back.
ShownIsTrue == Settled /\ ~late => IsTrue(Shown)

================================================================================
