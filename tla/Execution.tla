------------------------------- MODULE Execution ------------------------------
(***************************************************************************)
(* One workflow and the runs that execute it: the executor                 *)
(* (src/executor/executor.py), the first run of a request, the retry and   *)
(* the amend-and-rerun of orchestration/demo_service.py, and the cancel    *)
(* endpoint.  A run is one call of Executor.execute with what its caller   *)
(* does before and after it.  Submission is the gateway and the task rows: *)
(* run r performs task t as the caller <<r, t>>, and every step here is a  *)
(* step of Submission or leaves it alone.                                  *)
(*                                                                         *)
(* The memory of a run (task_statuses, completed_results) is a copy of the *)
(* rows made once, at the start; nothing locks the workflow while it runs. *)
(* The order of a plan's list is left open: a loop over tasks takes them   *)
(* in any order.                                                           *)
(***************************************************************************)
EXTENDS Submission

CONSTANTS Runs,         \* runs of the executor; each is used at most once
          DependsOn,    \* depends_on of every task
          RetrySafe,    \* tasks whose connector answers is_retry_safe
          MaxAttempts,  \* _MAX_ATTEMPTS
          KeyFor,       \* the key the connector derives from a task's input
          MayCrash      \* may a run die

ASSUME ExecutionAssumptions ==
  /\ Runs \subseteq Nat
  /\ Callers = Runs \X Tasks
  /\ DependsOn \in [Tasks -> SUBSET Tasks]
  /\ RetrySafe \subseteq Tasks
  /\ MaxAttempts \in Nat \ {0}
  /\ KeyFor \in [Tasks -> MaybeKey]
  /\ \A t \in Tasks : KeyFor[t] \in CandidateKeys(t)
  /\ MayCrash \in BOOLEAN

VARIABLES workflow,  \* workflows.status
          result,    \* result_data, error_code and retryable of each row
          run,       \* what each run is doing and what it remembers
          later      \* history: writes made or reopened beside another run, or after SUCCESS

execVars == <<vars, workflow, result, run, later>>

-------------------------------------------------------------------------------
(* Types *)

WorkflowStatuses == {"PENDING", "RUNNING", "WAITING_APPROVAL",
                     "SUCCESS", "FAILED", "CANCELLED"}

\* A StandardResult, by what its readers tell apart.  "dependency" is
\* DEPENDENCY_ERROR, which the retry guard does not count as a cause.
Results == {"ok", "retryable", "final", "dependency"}

Kinds == {"first", "retry", "amend"}
Steps == {"idle", "reopening", "unlocking", "reading", "creating",
          "scheduling", "calling", "judging", "concluding", "raised", "over"}

\* task_statuses, with "absent" for a task outside the plan and "new" for one
\* whose row this run has not inserted yet.
Memory == {"absent", "new", "PENDING", "RUNNING", "SUCCESS", "FAILED", "CANCELLED"}

RunStates == [step : Steps, kind : Kinds \cup {"none"},
              memory : [Tasks -> Memory], usable : SUBSET Tasks,
              attempt : [Tasks -> 0..MaxAttempts],
              outcome : [Tasks -> Results \cup {"none"}],
              verdict : WorkflowStatuses]

NoRun == [step |-> "idle", kind |-> "none",
          memory |-> [t \in Tasks |-> "absent"], usable |-> {},
          attempt |-> [t \in Tasks |-> 0],
          outcome |-> [t \in Tasks |-> "none"], verdict |-> "PENDING"]

ExecTypeOK ==
  /\ workflow \in WorkflowStatuses
  /\ result \in [Tasks -> Results \cup {"none"}]
  /\ run \in [Runs -> RunStates]
  /\ later \subseteq WriteTasks

\* The workflow's shell is written before anything runs.
ExecInit ==
  /\ Init
  /\ workflow = "PENDING"
  /\ result = [t \in Tasks |-> "none"]
  /\ run = [r \in Runs |-> NoRun]
  /\ later = {}

-------------------------------------------------------------------------------
(* What a run reads off its memory *)

At(r, step) == run[r].step = step
Live(r) == run[r].step \notin {"idle", "over"}

InPlan(r) == {t \in Tasks : run[r].memory[t] # "absent"}
Remaining(r) == {t \in Tasks : run[r].memory[t] = "PENDING"}
Wave(r) == {t \in Tasks : run[r].memory[t] = "RUNNING"}
Unstored(r) == {t \in Tasks : /\ run[r].memory[t] \in {"SUCCESS", "FAILED"}
                              /\ run[r].outcome[t] # "none"}

\* Slip: a dependency that merely ended is enough.
DependencyEnded(r, t) ==
  \A d \in DependsOn[t] : run[r].memory[d] \notin {"new", "PENDING", "RUNNING"}

\* _check_dependencies
CheckDependencies(r, t) == \A d \in DependsOn[t] : run[r].memory[d] = "SUCCESS"

Ready(r) == {t \in Remaining(r) : CheckDependencies(r, t)}

\* Slip: the loop that runs out of ready tasks just goes round again.
NeverStuck(r) == FALSE

\* No task can run and none is running: a dependency failed or was cancelled.
Stuck(r) == Ready(r) = {} /\ Wave(r) = {} /\ Unstored(r) = {}

\* Every task of the plan was run, seeded or failed.
Exhausted(r) == Remaining(r) = {} /\ Wave(r) = {} /\ Unstored(r) = {}

\* Slip: a failed step counts as settled.
SettledOrFailed == {"SUCCESS", "CANCELLED", "FAILED"}
Settled == {"SUCCESS", "CANCELLED"}
AllSettled(r) == \A t \in InPlan(r) : run[r].memory[t] \in Settled

\* _final_status, of the rows as they are now.
FinalStatus ==
  LET values == {status[t] : t \in {u \in Tasks : status[u] # Absent}}
  IN  IF values \subseteq Settled THEN "SUCCESS"
      ELSE IF "FAILED" \in values THEN "FAILED"
      ELSE "WAITING_APPROVAL"

-------------------------------------------------------------------------------
(* Updates *)

Update(r, changes) == run' = [run EXCEPT ![r] = changes]

Goto(r, step) == run' = [run EXCEPT ![r].step = step]

\* What a run remembered ends with Executor.execute, and its calls with it.
Left(r, step) == [NoRun EXCEPT !.step = step, !.kind = run[r].kind]
End(r) == Update(r, Left(r, "over"))

\* update_workflow_status: leaving CANCELLED is silently refused.
UpdateWorkflowStatus(s) ==
  workflow' = IF workflow = "CANCELLED" THEN workflow ELSE s

-------------------------------------------------------------------------------
(* How a run begins *)

\* Any number of runs of a workflow may be live at once: nothing keeps a second retry or an
\* amendment from starting beside a run.  They are numbered as they begin.
Begins(r) == At(r, "idle") /\ \A q \in Runs : At(q, "idle") => r <= q

\* The rows T become open while another run holds an older copy of them, or after SUCCESS.
Joins(r, T) ==
  later' = IF workflow = "SUCCESS" \/ \E q \in Runs \ {r} : Live(q) THEN later \cup (T \cap WriteTasks)
           ELSE later

Start(r, kind, step, memory) ==
  Update(r, [NoRun EXCEPT !.step = step, !.kind = kind, !.memory = memory])

\* run_demo_workflow, from the plan on: every task is new.
StartFirst(r) ==
  /\ Begins(r)
  /\ \A q \in Runs : run[q].kind # "first"
  /\ Start(r, "first", "creating", [t \in Tasks |-> "new"])
  /\ UNCHANGED <<vars, workflow, result, later>>

\* _plan_from_task_rows
PlanFromRows == [t \in Tasks |-> IF status[t] = Absent THEN "absent" ELSE "PENDING"]

\* retry_failed_tasks: the causes are the FAILED rows, less those that only
\* failed with another (unless there are no others).
FailedRows == {t \in Tasks : status[t] = "FAILED"}
Causes ==
  LET own == {t \in FailedRows : result[t] # "dependency"}
  IN  IF own # {} THEN own ELSE FailedRows

StartRetry(r) ==
  /\ Begins(r)
  /\ \E t \in Causes : result[t] = "retryable"
  /\ Start(r, "retry", "reading", PlanFromRows)
  /\ UNCHANGED <<vars, workflow, result, later>>

\* amend_and_rerun: a stopped or failed workflow is reopened first, one that
\* waits is not.  The amended values do not concern a concluded step here.
StartAmend(r) ==
  /\ Begins(r)
  /\ \/ /\ workflow \in {"CANCELLED", "FAILED"}
        /\ Start(r, "amend", "reopening", PlanFromRows)
     \/ /\ workflow = "WAITING_APPROVAL"
        /\ Start(r, "amend", "reading", PlanFromRows)
  /\ UNCHANGED <<vars, workflow, result, later>>

\* reopen_cancelled_tasks clears the error of the rows it reopens, and leaves
\* result_data and retryable, which no reader looks at on a PENDING row.
ReopenTasks(r) ==
  /\ At(r, "reopening")
  /\ IF \E t \in Tasks : Reopenable(t) THEN ReopenCancelledTasks ELSE UNCHANGED vars
  /\ Update(r, [run[r] EXCEPT !.step = "unlocking", !.memory = PlanFromRows])
  /\ Joins(r, {t \in Tasks : Reopenable(t)})
  /\ UNCHANGED <<workflow, result>>

\* reopen_cancelled_workflow
ReopenWorkflow(r) ==
  /\ At(r, "unlocking")
  /\ workflow' = IF workflow \in {"CANCELLED", "FAILED"} THEN "RUNNING" ELSE workflow
  /\ Goto(r, "reading")
  /\ UNCHANGED <<vars, result, later>>

\* _seed_completed: finished and cancelled rows are not run again.
Seed(s, planned) == IF s \in {"SUCCESS", "CANCELLED"} THEN s ELSE planned

\* The rows may give no plan, or one the validator refuses (a dependency whose
\* row was never inserted); the run then ends without executing anything.
PlanIsUsable(r) ==
  /\ InPlan(r) # {}
  /\ \A t \in InPlan(r) : DependsOn[t] \subseteq InPlan(r)

ReadSeeds(r) ==
  /\ At(r, "reading")
  /\ IF PlanIsUsable(r)
     THEN Update(r, [run[r] EXCEPT
            !.step = "creating",
            !.memory = [t \in Tasks |-> Seed(status[t], @[t])],
            !.usable = {t \in Tasks : status[t] = "SUCCESS" /\ result[t] = "ok"}])
     ELSE End(r)
  /\ UNCHANGED <<vars, workflow, result, later>>

-------------------------------------------------------------------------------
(* Executor.execute *)

\* create_task, for a task of the plan.  On a row that exists the upsert
\* changes the input alone, so only new tasks are of interest.
EnsureTask(r, t) ==
  /\ At(r, "creating") /\ run[r].memory[t] = "new"
  /\ IF status[t] = Absent THEN CreateTask(t) ELSE UNCHANGED vars
  /\ Update(r, [run[r] EXCEPT !.memory[t] = "PENDING"])
  /\ Joins(r, IF status[t] = Absent THEN {t} ELSE {})
  /\ UNCHANGED <<workflow, result>>

BeginRunning(r) ==
  /\ At(r, "creating") /\ \A t \in Tasks : run[r].memory[t] # "new"
  /\ UpdateWorkflowStatus("RUNNING")
  /\ Goto(r, "scheduling")
  /\ UNCHANGED <<vars, result, later>>

\* The ready tasks are marked one by one, then called together.
MarkRunning(r, t) ==
  /\ At(r, "scheduling") /\ Unstored(r) = {} /\ t \in Ready(r)
  /\ UpdateTaskStatus(t, "RUNNING")
  /\ Update(r, [run[r] EXCEPT
       !.step = IF Ready(r) = {t} THEN "calling" ELSE @,
       !.memory[t] = "RUNNING"])
  /\ UNCHANGED <<workflow, result, later>>

FailBlocked(r, t) ==
  /\ At(r, "scheduling") /\ Stuck(r) /\ t \in Remaining(r)
  /\ UpdateTaskStatus(t, "FAILED")
  /\ Update(r, [run[r] EXCEPT !.memory[t] = "FAILED", !.outcome[t] = "dependency"])
  /\ UNCHANGED <<workflow, result, later>>

\* _resolve_input fails on a dependency it has no result of, if the input
\* refers to it; a dependency may also be an ordering only.
Unresolved(r, t) ==
  /\ At(r, "calling") /\ t \in Wave(r) /\ run[r].outcome[t] = "none"
  /\ run[r].attempt[t] = 0
  /\ ~(DependsOn[t] \subseteq run[r].usable)
  /\ Update(r, [run[r] EXCEPT !.outcome[t] = "dependency"])
  /\ UNCHANGED <<vars, workflow, result, later>>

Attempts(t) == IF t \in RetrySafe THEN MaxAttempts ELSE 1

Enter(r, t) ==
  EnterGateway(<<r, t>>, t, KeyFor[t], run[r].attempt[t] + 1 < Attempts(t))

CallProvider(r, t) ==
  /\ At(r, "calling") /\ t \in Wave(r) /\ run[r].outcome[t] = "none"
  /\ run[r].attempt[t] < Attempts(t)
  /\ Enter(r, t)
  /\ Update(r, [run[r] EXCEPT !.attempt[t] = @ + 1])
  /\ UNCHANGED <<workflow, result, later>>

\* Slip: an answer that arrived is read as success.
RefusalReadAsSuccess(a) ==
  IF a \in Succeeded \cup {"refused"} THEN "ok"
  ELSE IF a \in Retryable THEN "retryable" ELSE "final"

ResultOf(a) ==
  IF a \in Succeeded THEN "ok" ELSE IF a \in Retryable THEN "retryable" ELSE "final"

Again(r, t, a) == a \in Retryable /\ run[r].attempt[t] < Attempts(t)

\* The attempt's answer: try again, or keep it.
TakeAnswer(r, t) ==
  LET a == call[<<r, t>>].answer
  IN  /\ At(r, "calling") /\ t \in Wave(r)
      /\ LeaveGateway(<<r, t>>)
      /\ Update(r, [run[r] EXCEPT
           !.outcome[t] = IF Again(r, t, a) THEN "none" ELSE ResultOf(a)])
      /\ UNCHANGED <<workflow, result, later>>

\* asyncio.gather has returned every result of the wave.
Gathered(r) == \A t \in Wave(r) : run[r].outcome[t] # "none"

SaveStatus(r, t) ==
  LET s == IF run[r].outcome[t] = "ok" THEN "SUCCESS" ELSE "FAILED"
  IN  /\ At(r, "calling") /\ Gathered(r) /\ Unstored(r) = {} /\ t \in Wave(r)
      /\ UpdateTaskStatus(t, s)
      /\ Update(r, [run[r] EXCEPT
           !.memory[t] = s,
           !.usable = IF s = "SUCCESS" THEN @ \cup {t} ELSE @])
      /\ UNCHANGED <<workflow, result, later>>

\* save_task_result: a second transaction, without the CANCELLED guard.
SaveResult(r, t) ==
  /\ run[r].step \in {"calling", "scheduling"} /\ t \in Unstored(r)
  /\ result' = [result EXCEPT ![t] = run[r].outcome[t]]
  /\ Update(r, [run[r] EXCEPT
       !.step = IF Wave(r) = {} THEN "scheduling" ELSE @,
       !.attempt[t] = 0,
       !.outcome[t] = "none"])
  /\ UNCHANGED <<vars, workflow, later>>

-------------------------------------------------------------------------------
(* How a run ends *)

\* finalize=True: the run's own memory decides.
Finalize(r) ==
  /\ At(r, "scheduling") /\ Exhausted(r) /\ run[r].kind = "first"
  /\ UpdateWorkflowStatus(IF AllSettled(r) THEN "SUCCESS" ELSE "FAILED")
  /\ End(r)
  /\ UNCHANGED <<vars, result, later>>

\* finalize=False: FAILED if not settled, and the caller decides the rest.
FinishPartly(r) ==
  /\ At(r, "scheduling") /\ Exhausted(r) /\ run[r].kind # "first"
  /\ IF AllSettled(r) THEN UNCHANGED workflow ELSE UpdateWorkflowStatus("FAILED")
  /\ Update(r, Left(r, "judging"))
  /\ UNCHANGED <<vars, result, later>>

\* The caller reads the rows, and some writes later stores the verdict.
Judge(r) ==
  /\ At(r, "judging")
  /\ Update(r, [run[r] EXCEPT !.step = "concluding", !.verdict = FinalStatus])
  /\ UNCHANGED <<vars, workflow, result, later>>

WriteVerdict(r) ==
  /\ At(r, "concluding")
  /\ UpdateWorkflowStatus(run[r].verdict)
  /\ End(r)
  /\ UNCHANGED <<vars, result, later>>

\* update_task_status raises on a row that was cancelled: the rest of the loop
\* is lost, the other results of the wave with it.
Refused(r, t) ==
  \/ At(r, "scheduling") /\ Unstored(r) = {} /\ t \in Ready(r)
  \/ At(r, "scheduling") /\ Stuck(r) /\ t \in Remaining(r)
  \/ At(r, "calling") /\ Gathered(r) /\ Unstored(r) = {} /\ t \in Wave(r)

Raise(r) ==
  /\ \E t \in Tasks : Refused(r, t) /\ status[t] = "CANCELLED"
  /\ IF run[r].kind = "first" THEN Update(r, Left(r, "raised")) ELSE End(r)
  /\ UNCHANGED <<vars, workflow, result, later>>

\* mark_workflow_failed, by the job of the first run.
MarkWorkflowFailed(r) ==
  /\ At(r, "raised")
  /\ workflow' = IF workflow \in {"PENDING", "RUNNING"} THEN "FAILED" ELSE workflow
  /\ End(r)
  /\ UNCHANGED <<vars, result, later>>

\* The process dies, or cancel_demo_workflow cancels the coroutine.
CrashRun(r) ==
  /\ MayCrash /\ Live(r)
  /\ Crash({r} \X Tasks)
  /\ End(r)
  /\ UNCHANGED <<workflow, result, later>>

\* cancel_workflow: the rows and the workflow in one transaction.
CancelWorkflow ==
  /\ workflow \notin {"SUCCESS", "FAILED", "CANCELLED"}
  /\ CancelOpenTasks
  /\ workflow' = "CANCELLED"
  /\ UNCHANGED <<result, run, later>>

-------------------------------------------------------------------------------
RunStep(r) ==
  \/ ReopenTasks(r) \/ ReopenWorkflow(r) \/ ReadSeeds(r)
  \/ BeginRunning(r)
  \/ \E t \in Tasks :
       \/ EnsureTask(r, t) \/ MarkRunning(r, t) \/ FailBlocked(r, t)
       \/ Unresolved(r, t) \/ CallProvider(r, t) \/ TakeAnswer(r, t)
       \/ SaveStatus(r, t) \/ SaveResult(r, t)
  \/ Finalize(r) \/ FinishPartly(r) \/ Judge(r) \/ WriteVerdict(r)
  \/ Raise(r) \/ MarkWorkflowFailed(r)

\* The steps of a call that are the gateway's own.
GatewayStep(c) ==
  /\ \/ PrepareSubmission(c) \/ PrepareSubmissionRaises(c)
     \/ Send(c) \/ StopWaiting(c) \/ RecordOutcome(c)
  /\ UNCHANGED <<workflow, result, run, later>>

ProviderStep == Provider /\ UNCHANGED <<workflow, result, run, later>>

ExecNext ==
  \/ \E r \in Runs : \/ StartFirst(r) \/ StartRetry(r) \/ StartAmend(r)
                     \/ RunStep(r)
                     \/ CrashRun(r)
  \/ \E c \in Callers : GatewayStep(c)
  \/ ProviderStep
  \/ CancelWorkflow

ExecSpec == ExecInit /\ [][ExecNext]_execVars

\* The event loop of a live process goes on with some call or run that can go on, and a client
\* stops waiting at its timeout; nothing is assumed of the provider or of the user.
Fairness == WF_execVars((\E c \in Callers : GatewayStep(c)) \/ \E r \in Runs : RunStep(r))

FairExecSpec == ExecSpec /\ Fairness
-------------------------------------------------------------------------------
(* Properties *)

\* Every step of every run is a step of the gateway and the rows, or leaves
\* them alone: what Submission promises (no write committed twice, first of
\* all) holds of this system, retries and amendments included.
UsesTheGateway == Spec

\* SUCCESS on a step that writes is said of a commitment that exists, whatever
\* runs, cancels and crashes around it.
SuccessIsCommitted ==
  \A t \in WriteTasks : status[t] = "SUCCESS" => committed[t] = 1

\* Nothing is sent for a step before what it depends on is done at its
\* provider (_check_dependencies), however stale the memory of the run.
DependenciesFirst ==
  \A m \in inFlight : \A d \in DependsOn[m.task] \cap WriteTasks :
    committed[d] = 1

\* SUCCESS of a workflow is said of work that is done at the providers, or was stopped,
\* however many runs end with a verdict drawn from a memory or from an earlier read
\* (_final_status in retry_failed_tasks): no run may say it for a step another run failed at.
\* Only a row made or reopened beside another run, or after SUCCESS, may be left open under it.
SuccessMeansDone ==
  workflow = "SUCCESS" =>
    \A t \in WriteTasks \ later : committed[t] = 1 \/ status[t] \in {"CANCELLED", Absent}

\* "Retry goes by is_retry_safe: a tool that reads is safe because it reads, not because it
\* has a key" (executor.py): in a first run, with no other beside it, the second attempt of a
\* step that is safe to retry gets past the gateway, unless the step was cancelled.
RetryReachesProvider ==
  \A r \in Runs, t \in RetrySafe :
    /\ \A q \in Runs \ {r} : At(q, "idle")
    /\ run[r].kind = "first" /\ run[r].attempt[t] > 1
    /\ call[<<r, t>>].answer = "blocked"
    => status[t] = "CANCELLED"

\* Every run that begins ends: no plan, failure, cancel or silence of the
\* provider leaves the executor's loop going round or waiting.  (A run is used once.)
RunsEnd == []<>(\A r \in Runs : ~Live(r))
===============================================================================
