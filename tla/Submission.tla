------------------------------ MODULE Submission ------------------------------
(***************************************************************************)
(* How a task leaves the system: the gateway every provider call goes      *)
(* through (src/orchestration/provider_gateway.py) and the rows of         *)
(* workflow_tasks it keeps its evidence in (src/db/workflow_repository.py, *)
(* src/common/submission.py).  Callers are whatever runs a task: an        *)
(* executor run, the payment resume, a second resume of the same workflow. *)
(* They are arbitrary here -- any of them may call for any task at any     *)
(* time, repeat, or die -- so what holds here holds under every scheduler; *)
(* Execution composes this module with the executor.                       *)
(*                                                                         *)
(* A database transaction is one step.  Between two of a call's steps any  *)
(* other caller, the provider, the network or a status writer may act.     *)
(***************************************************************************)
EXTENDS Naturals

CONSTANTS Tasks,      \* identities of task rows (T1, T1R2, ...)
          Callers,    \* concurrent coroutines that call the gateway
          Keys,       \* idempotency keys
          NoKey,      \* SQL NULL / Python None in place of a key
          NoTask,     \* the task of a caller that is idle
          ReadOnly,   \* tasks whose tool only reads (READ_ONLY_TOOLS)
          Keyed       \* tasks whose connector can derive a key (pay_fee)

ASSUME SubmissionAssumptions ==
  /\ ReadOnly \subseteq Tasks
  /\ Keyed \subseteq Tasks \ ReadOnly
  /\ NoKey \notin Keys
  /\ NoTask \notin Tasks

VARIABLES status,     \* workflow_tasks.status
          evidence,   \* workflow_tasks.provider_submission_status
          key,        \* workflow_tasks.provider_idempotency_key
          call,       \* the call each caller is in the middle of
          inFlight,   \* requests on the wire, answered or not
          committed,  \* commitments the provider made for the task
          seen        \* keys the provider remembers for the task

rowVars == <<status, evidence, key>>
providerVars == <<committed, seen>>
vars == <<status, evidence, key, call, inFlight, committed, seen>>

WriteTasks == Tasks \ ReadOnly

-------------------------------------------------------------------------------
(* Types *)

Absent == "ABSENT"    \* no such row
Statuses == {"PENDING", "RUNNING", "WAITING_APPROVAL",
             "SUCCESS", "FAILED", "SKIPPED", "CANCELLED"}
Evidence == {"NOT_SUBMITTED", "SUBMITTING", "ACKNOWLEDGED", "UNKNOWN"}
TerminalEvidence == {"ACKNOWLEDGED", "UNKNOWN"}

\* What the caller holds after the connector returned.  "ok" carries the
\* provider's reference, "okNoRef" does not; "refused" is a refusal the
\* provider will repeat; "broken" is a 2xx that breaks the contract or a
\* connection lost while reading; "busy" and "timeout" are the retryable ones;
\* "blocked" and "unwritten" were never sent.
Succeeded == {"ok", "okNoRef"}
Retryable == {"busy", "timeout", "unwritten"}
Answers == Succeeded \cup Retryable \cup {"refused", "broken", "blocked"}

MaybeKey == Keys \cup {NoKey}
Messages == [task : Tasks, key : MaybeKey, caller : Callers]
Phases == {"idle", "calling", "permitted", "waiting", "answered", "returned"}
Calls == [phase : Phases, task : Tasks \cup {NoTask}, key : MaybeKey,
          budget : BOOLEAN, answer : Answers \cup {"none"}]

NoCall == [phase |-> "idle", task |-> NoTask, key |-> NoKey,
           budget |-> FALSE, answer |-> "none"]

TypeOK ==
  /\ status \in [Tasks -> Statuses \cup {Absent}]
  /\ evidence \in [Tasks -> Evidence]
  /\ key \in [Tasks -> MaybeKey]
  /\ call \in [Callers -> Calls]
  /\ \A c \in Callers : call[c].phase # "idle" => call[c].task \in Tasks
  /\ inFlight \subseteq Messages
  /\ committed \in [Tasks -> Nat]
  /\ seen \in [Tasks -> SUBSET Keys]

Init ==
  /\ status = [t \in Tasks |-> Absent]
  /\ evidence = [t \in Tasks |-> "NOT_SUBMITTED"]
  /\ key = [t \in Tasks |-> NoKey]
  /\ call = [c \in Callers |-> NoCall]
  /\ inFlight = {}
  /\ committed = [t \in Tasks |-> 0]
  /\ seen = [t \in Tasks |-> {}]

-------------------------------------------------------------------------------
(* The rows: repository methods that insert a task or change its status *)

\* create_task: an upsert.  On an existing row it refreshes the input (which
\* the ledger does not read) and never the status or the evidence.
CreateTask(t) ==
  /\ status[t] = Absent
  /\ status' = [status EXCEPT ![t] = "PENDING"]
  /\ UNCHANGED <<evidence, key, call, inFlight, committed, seen>>

\* update_task_status.  Leaving CANCELLED is refused (the method raises).
StatusWritable(t, s) ==
  /\ status[t] # Absent
  /\ status[t] = "CANCELLED" => s = "CANCELLED"

UpdateTaskStatus(t, s) ==
  /\ StatusWritable(t, s)
  /\ status' = [status EXCEPT ![t] = s]
  /\ UNCHANGED <<evidence, key, call, inFlight, committed, seen>>

\* reopen_cancelled_tasks: every stopped row without a conclusion, at once.
Reopenable(t) ==
  /\ status[t] \in {"CANCELLED", "FAILED", "SKIPPED", "WAITING_APPROVAL"}
  /\ evidence[t] \notin TerminalEvidence

ReopenCancelledTasks ==
  /\ \E t \in Tasks : Reopenable(t)
  /\ status' = [t \in Tasks |-> IF Reopenable(t) THEN "PENDING" ELSE status[t]]
  /\ UNCHANGED <<evidence, key, call, inFlight, committed, seen>>

\* The rows part of cancel_workflow: every row not yet finished, at once.
Unfinished(t) ==
  status[t] \notin {Absent, "SUCCESS", "FAILED", "CANCELLED", "SKIPPED"}

CancelOpenTasks ==
  /\ status' = [t \in Tasks |-> IF Unfinished(t) THEN "CANCELLED" ELSE status[t]]
  /\ UNCHANGED <<evidence, key, call, inFlight, committed, seen>>

\* supersede_task_with_new_attempt: one transaction, and the INSERT has no
\* ON CONFLICT, so the new identity must be unused.
SupersedeTaskWithNewAttempt(old, new) ==
  /\ status[old] # Absent
  /\ status[new] = Absent
  /\ status' = [status EXCEPT ![old] = "CANCELLED", ![new] = "PENDING"]
  /\ UNCHANGED <<evidence, key, call, inFlight, committed, seen>>

-------------------------------------------------------------------------------
(* The gateway: call_provider *)

\* The caller enters call_provider with the key the connector derives from
\* the task's input; a tool without a key, or an input without a booking,
\* yields none.
CandidateKeys(t) == IF t \in Keyed THEN MaybeKey ELSE {NoKey}

\* The call moves on, keeping its task and its retry budget.
Advance(c, phase, k, answer) ==
  call' = [call EXCEPT ![c] = [phase |-> phase, task |-> call[c].task, key |-> k,
                               budget |-> call[c].budget, answer |-> answer]]

EnterGateway(c, t, k, budget) ==
  /\ call[c].phase = "idle"
  /\ k \in CandidateKeys(t)
  /\ call' = [call EXCEPT ![c] = [phase |-> "calling", task |-> t, key |-> k,
                                  budget |-> budget, answer |-> "none"]]
  /\ UNCHANGED <<rowVars, inFlight, providerVars>>

\* prepare_submission: SELECT ... FOR UPDATE, then the UPDATE.
SendBlocked(t) == status[t] \in {Absent, "SUCCESS", "CANCELLED", "SKIPPED"}
KeyMismatch(t, k) == key[t] # NoKey /\ k # NoKey /\ k # key[t]

\* Slips of this guard that a run must notice: without the fence on SUBMITTING,
\* and without the one on conclusions.
PermittedWhileSubmitting(t, k) ==
  evidence[t] \notin TerminalEvidence /\ ~SendBlocked(t) /\ ~KeyMismatch(t, k)
PermittedAfterConclusion(t, k) ==
  /\ ~SendBlocked(t)
  /\ evidence[t] = "SUBMITTING" => key[t] # NoKey /\ k = key[t]
  /\ ~KeyMismatch(t, k)

Permitted(t, k) ==
  /\ evidence[t] \notin TerminalEvidence
  /\ ~SendBlocked(t)
  /\ evidence[t] = "SUBMITTING" => key[t] # NoKey /\ k = key[t]
  /\ ~KeyMismatch(t, k)

EffectiveKey(t, k) == IF key[t] # NoKey THEN key[t] ELSE k

MarkSubmitting(t, k) ==
  /\ evidence' = [evidence EXCEPT ![t] = "SUBMITTING"]
  /\ key' = [key EXCEPT ![t] = EffectiveKey(t, k)]

PrepareSubmission(c) ==
  LET t == call[c].task
      k == call[c].key
  IN  /\ call[c].phase = "calling"
      /\ \/ /\ Permitted(t, k)
            /\ MarkSubmitting(t, k)
            /\ Advance(c, "permitted", EffectiveKey(t, k), call[c].answer)
         \/ /\ ~Permitted(t, k)
            /\ Advance(c, "returned", call[c].key, "blocked")
            /\ UNCHANGED <<evidence, key>>
      /\ UNCHANGED <<status, inFlight, providerVars>>

\* prepare_submission raised: the database was unreachable, or the commit went
\* through and only its acknowledgement was lost.  Nothing is sent.
PrepareSubmissionRaises(c) ==
  LET t == call[c].task
      k == call[c].key
  IN  /\ call[c].phase = "calling"
      /\ \/ Permitted(t, k) /\ MarkSubmitting(t, k)
         \/ UNCHANGED <<evidence, key>>
      /\ Advance(c, "returned", call[c].key, "unwritten")
      /\ UNCHANGED <<status, inFlight, providerVars>>

RequestOf(c) == [task |-> call[c].task, key |-> call[c].key, caller |-> c]

\* connector.execute puts the request on the wire with the permit's key.
Send(c) ==
  /\ call[c].phase = "permitted"
  /\ inFlight' = inFlight \cup {RequestOf(c)}
  /\ Advance(c, "waiting", call[c].key, call[c].answer)
  /\ UNCHANGED <<rowVars, providerVars>>

\* Slip: a retryable error read as "never sent".
TimeoutReadAsUnsent(t, a) ==
  IF t \in ReadOnly \/ a \in Retryable THEN "NOT_SUBMITTED"
  ELSE IF a = "ok" THEN "ACKNOWLEDGED" ELSE "UNKNOWN"

\* evidence_from_result.  The two codes that prove nothing was sent are raised
\* by the executor before it enters the gateway, so no answer carries them.
EvidenceOf(t, a) ==
  IF t \in ReadOnly THEN "NOT_SUBMITTED"
  ELSE IF a = "ok" THEN "ACKNOWLEDGED" ELSE "UNKNOWN"

\* The conclusion is deferred only when the caller will really try again.
Deferred(c) == call[c].budget /\ call[c].answer \in Retryable

\* The WHERE of record_submission_outcome.
Unconcluded(t) == evidence[t] \notin TerminalEvidence

\* record_submission_outcome, behind the deferral test of call_provider.  A
\* failure of the write is swallowed and leaves the row as it was.
RecordOutcome(c) ==
  LET t == call[c].task
  IN  /\ call[c].phase = "answered"
      /\ \/ /\ ~Deferred(c)
            /\ Unconcluded(t)
            /\ evidence' = [evidence EXCEPT ![t] = EvidenceOf(t, call[c].answer)]
         \/ UNCHANGED evidence
      /\ Advance(c, "returned", call[c].key, call[c].answer)
      /\ UNCHANGED <<status, key, inFlight, providerVars>>

\* The caller has its StandardResult and is free to call again.
LeaveGateway(c) ==
  /\ call[c].phase = "returned"
  /\ call' = [call EXCEPT ![c] = NoCall]
  /\ UNCHANGED <<rowVars, inFlight, providerVars>>

\* A process, or one coroutine of it, dies wherever its calls are.  The rows
\* and the requests stay.
Crash(C) ==
  /\ call' = [c \in Callers |-> IF c \in C THEN NoCall ELSE call[c]]
  /\ UNCHANGED <<rowVars, inFlight, providerVars>>

-------------------------------------------------------------------------------
(* The provider and the network (external, as the connectors use them) *)

\* A response reaches the caller only on the connection it is waiting on.
Respond(m, a) ==
  /\ call[m.caller].phase = "waiting"
  /\ RequestOf(m.caller) = m
  /\ Advance(m.caller, "answered", call[m.caller].key, a)

\* The provider processes a request: a key it remembers is answered from the
\* record it already has, anything else that writes is a new commitment.  The
\* response may be lost, or come after the caller stopped waiting.
ProviderAccepts(m) ==
  /\ m \in inFlight
  /\ inFlight' = inFlight \ {m}
  /\ committed' = [committed EXCEPT ![m.task] =
                     IF m.task \in ReadOnly \/ m.key \in seen[m.task]
                     THEN @ ELSE @ + 1]
  /\ seen' = [seen EXCEPT ![m.task] = @ \cup ({m.key} \ {NoKey})]
  /\ \/ \E a \in Succeeded \cup {"broken"} : Respond(m, a)
     \/ UNCHANGED call
  /\ UNCHANGED rowVars

\* The provider refuses, or the request never reaches it: no commitment.
ProviderRefuses(m) ==
  /\ m \in inFlight
  /\ inFlight' = inFlight \ {m}
  /\ \/ \E a \in {"refused", "busy", "timeout"} : Respond(m, a)
     \/ UNCHANGED call
  /\ UNCHANGED <<rowVars, providerVars>>

\* The client's timeout, or an exception in the connector, while the request
\* may still be on its way: it stays in flight and may be processed later.
StopWaiting(c) ==
  /\ call[c].phase = "waiting"
  /\ \E a \in {"timeout", "broken"} :
       Advance(c, "answered", call[c].key, a)
  /\ UNCHANGED <<rowVars, inFlight, providerVars>>

-------------------------------------------------------------------------------
Gateway(c) ==
  \/ \E t \in Tasks, k \in MaybeKey, b \in BOOLEAN : EnterGateway(c, t, k, b)
  \/ PrepareSubmission(c)
  \/ PrepareSubmissionRaises(c)
  \/ Send(c)
  \/ StopWaiting(c)
  \/ RecordOutcome(c)
  \/ LeaveGateway(c)

Rows ==
  \/ \E t \in Tasks : CreateTask(t)
  \/ \E t \in Tasks, s \in Statuses : UpdateTaskStatus(t, s)
  \/ ReopenCancelledTasks
  \/ CancelOpenTasks
  \/ \E old, new \in Tasks : SupersedeTaskWithNewAttempt(old, new)

Provider == \E m \in inFlight : ProviderAccepts(m) \/ ProviderRefuses(m)

Next ==
  \/ Rows
  \/ \E c \in Callers : Gateway(c)
  \/ \E C \in SUBSET Callers : Crash(C)
  \/ Provider

Spec == Init /\ [][Next]_vars

-------------------------------------------------------------------------------
(* Properties *)

\* A write task is never done twice at the provider, whatever the number of
\* callers, retries, timeouts, crashes and late requests: the fence of
\* prepare_submission (workflow_repository.py) together with the provider's
\* deduplication by key.
AtMostOneCommitment == \A t \in WriteTasks : committed[t] <= 1

\* "NOT_SUBMITTED proves the request never left" (submission.py): while a write
\* task says so, no commitment exists, nothing is on the wire and no caller
\* holds a permit for it.  Read by the amendment and retry paths to decide
\* that running the task again is safe.
NotSubmittedIsProof ==
  \A t \in WriteTasks : evidence[t] = "NOT_SUBMITTED" =>
    /\ committed[t] = 0
    /\ \A m \in inFlight : m.task # t
    /\ \A c \in Callers : call[c].task = t =>
         call[c].phase \notin {"permitted", "waiting", "answered"}

\* ACKNOWLEDGED is only ever said of a commitment the provider really made.
AcknowledgedIsReal ==
  \A t \in Tasks : evidence[t] = "ACKNOWLEDGED" => committed[t] = 1

\* The key a request carries is the key the database holds for its task
\* (payment.py takes it from the permit for exactly this reason), for requests
\* that are late as well.
KeyOnTheWireIsTheKeyStored == \A m \in inFlight : m.key = key[m.task]

\* A conclusion is never taken back, and the key it was sent under never
\* changes, by whatever method of the repository (submission.py,
\* TERMINAL_SUBMISSION_STATUSES).
ConclusionsAreFinal ==
  [][\A t \in Tasks :
       /\ evidence[t] \in TerminalEvidence => evidence'[t] = evidence[t]
       /\ key[t] # NoKey => key'[t] = key[t]]_vars

\* Submission implements the abstract ledger on the tasks that write.
ClaimOf(e) ==
  CASE e = "NOT_SUBMITTED" -> "unsent"
    [] e = "SUBMITTING"    -> "sending"
    [] e = "ACKNOWLEDGED"  -> "confirmed"
    [] e = "UNKNOWN"       -> "unproven"

Ledger == INSTANCE CommitmentLedger WITH
  claim <- [t \in WriteTasks |-> ClaimOf(evidence[t])],
  commitments <- [t \in WriteTasks |-> committed[t]]

\* The ledger read as one promise per task: see CommitmentLedger.
ImplementsLedger == Ledger!Spec
===============================================================================
