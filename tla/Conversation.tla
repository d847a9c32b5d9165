------------------------------ MODULE Conversation -----------------------------
(***************************************************************************)
(* One customer's conversation (api/routes.py: start_demo_workflow,        *)
(* continue_demo_workflow, _run_demo_job): a message opens a workflow, the *)
(* planner asks what is missing, and the answer hands the matter over to a *)
(* child.  The question lives twice, in _DEMO_JOBS and in the row of       *)
(* workflow_clarifications; every write to the rows may be lost where the  *)
(* code swallows the failure, and sweeps, the trimming of the list and a   *)
(* restart come between any two steps.                                     *)
(*                                                                         *)
(* What a run does to its tasks is Execution's matter: here it ends in any *)
(* status, and the repair of a failed step is left out.                    *)
(***************************************************************************)
EXTENDS Naturals, FiniteSets

CONSTANTS Fields,     \* what a planner may ask and a customer may answer
          Starts,     \* messages that come in at /start
          Replies,    \* messages and forms that come in at /continue
          Outcomes,   \* statuses a run may leave its workflow in
          Quota,      \* daily_workflow_quota
          Keep,       \* history_keep_per_user
          MaxWorkflows, MaxTroubles \* BOUNDS: ids; lost writes and restarts

ASSUME ConversationAssumptions ==
  /\ Starts \cap Replies = {}
  /\ Fields \cap {"supported_goal", "payment_quote"} = {} \* a situation, not a field (graph.py:429)
  /\ Outcomes \subseteq {"PENDING", "WAITING_APPROVAL", "SUCCESS", "FAILED", "CANCELLED"}
  /\ Quota \in Nat \ {0} /\ Keep \in Nat \ {0}
  /\ MaxWorkflows \in Nat /\ MaxTroubles \in Nat

VARIABLES row,     \* workflows
          clar,    \* workflow_clarifications
          mem,     \* _DEMO_JOBS
          job,     \* where _run_demo_job is
          req,     \* where each request is
          made,    \* ids handed out
          troubles, \* lost writes and restarts so far
          told,    \* answers acknowledged with 2xx, with the workflow they answer
          lax      \* what the code leaves open has happened

vars == <<row, clar, mem, job, req, made, troubles, told, lax>>

Wids == 1..MaxWorkflows
None == 0
Requests == Starts \cup Replies
Unclear == {"supported_goal"}
Unpriced == {"payment_quote"}
Questions == ((SUBSET Fields) \ {{}}) \cup {Unclear, Unpriced}
Ended == {"SUCCESS", "FAILED", "CANCELLED"}
Statuses == {"absent", "PENDING", "WAITING_APPROVAL"} \cup Ended

Lives(w) == row[w].status # "absent"
NoRow == [status |-> "absent", parent |-> None, archived |-> FALSE, chat |-> FALSE,
          planned |-> FALSE, tasks |-> FALSE,
          answered |-> FALSE] \* assistant_for_status = 'CHAT'
Shell(parent) == [NoRow EXCEPT !.status = "PENDING", !.parent = parent]
ChatRow(parent) == [NoRow EXCEPT !.status = "SUCCESS", !.parent = parent, !.chat = TRUE,
                                !.answered = TRUE]
NoQuestion == [open |-> FALSE, missing |-> {}, known |-> {}]
\* kind: what job["response"] is; "busy" is None.
NoMemory == [kind |-> "none", missing |-> {}, known |-> {}, claimed |-> FALSE, parent |-> None,
             asked |-> {}]
Busy(parent, known) == [NoMemory EXCEPT !.kind = "busy", !.parent = parent, !.known = known]
Idle == [at |-> "new", w |-> None, warm |-> FALSE, missing |-> {}, known |-> {},
         answers |-> {}, child |-> None]

Children(w) == {c \in Wids : row[c].parent = w /\ ~row[c].chat}
Live(r) == req[r].at \notin {"new", "done"}
\* A request that has answered forgets what it held.
Moves(r, to) == req' = [req EXCEPT ![r] = IF to = "done" THEN [Idle EXCEPT !.at = to]
                                         ELSE [@ EXCEPT !.at = to]]
\* BOUND: an id is left for everyone who may still need one.
Room == made + Cardinality({r \in Requests : req[r].at \in {"shell", "read", "save", "tell", "claim"}})
          < MaxWorkflows
Fails == troubles < MaxTroubles /\ troubles' = troubles + 1
Marked(what) == lax' = lax \cup {what}

-------------------------------------------------------------------------------
(* Messages: start_demo_workflow *)

\* A turn that needs no plan: the reply is kept, its row best effort.
TalksOnly(r, parent) ==
  /\ made' = made + 1
  /\ mem' = [mem EXCEPT ![made'] = [NoMemory EXCEPT !.kind = "chat"]]
  /\ \/ row' = [row EXCEPT ![made'] = ChatRow(parent)] /\ UNCHANGED <<troubles, lax>>
     \/ Fails /\ Marked("lost") /\ UNCHANGED row
  /\ Moves(r, "done") /\ UNCHANGED <<clar, job, told>>

Chats(r) == r \in Starts /\ req[r].at = "new" /\ Room /\ TalksOnly(r, None)

\* _amend_target: the newest visible request of the conversation that may be changed.
Amendable(w) == row[w].status \in Statuses \ {"absent", "SUCCESS"} /\ ~row[w].archived
AmendTarget(w) == row[w].tasks /\ Amendable(w) /\ \A v \in Wids : Amendable(v) => v <= w
Amends(r, w) ==
  /\ r \in Starts /\ req[r].at = "new" /\ AmendTarget(w) /\ row[w].status # "PENDING"
  /\ \E s \in Outcomes \ {"PENDING"} : row' = [row EXCEPT ![w].status = s]
  /\ mem' = [mem EXCEPT ![w].kind = IF @ = "none" THEN @ ELSE "busy"]
  /\ Moves(r, "done") /\ UNCHANGED <<clar, job, made, troubles, told, lax>>

\* usage_since counts what cost a call of the model, archived or not.
Used == {w \in Wids : row[w].planned}
CountsQuota(r) ==
  /\ r \in Starts /\ req[r].at = "new" /\ Room
  /\ \/ /\ Cardinality(Used) < Quota /\ Moves(r, "shell") /\ UNCHANGED troubles
        /\ lax' = lax \cup (IF \E w \in Wids : job[w] \in {"new", "plan"} THEN {"rushed"} ELSE {})
                      \cup (IF \E s \in Starts : req[s].at \in {"shell", "launch"} THEN {"rushed"}
                            ELSE {})
     \/ Cardinality(Used) >= Quota /\ Moves(r, "done") /\ UNCHANGED <<troubles, lax>>
     \/ Fails /\ Marked("rushed") /\ Moves(r, "shell") \* fail-open
  /\ UNCHANGED <<row, clar, mem, job, made, told>>

\* create_shell_and_session: workflow and session in one transaction, or 503.
CreatesShell(r) ==
  /\ req[r].at = "shell"
  /\ \/ /\ made' = made + 1
        /\ row' = [row EXCEPT ![made'] = Shell(None)]
        /\ req' = [req EXCEPT ![r].at = "launch", ![r].child = made']
        /\ UNCHANGED troubles
     \/ Fails /\ Moves(r, "done") /\ UNCHANGED <<row, made>>
  /\ UNCHANGED <<clar, mem, job, told, lax>>

\* Slip: the child gets what the parent knew, without the answers.
LaunchesBare(r) ==
  /\ req[r].at = "launch"
  /\ mem' = [mem EXCEPT ![req[r].child] = Busy(req[r].w, req[r].known)]
  /\ job' = [job EXCEPT ![req[r].child] = "new"]
  /\ told' = told \cup {<<req[r].w, f>> : f \in req[r].answers}
  /\ Moves(r, "done")
  /\ UNCHANGED <<row, clar, made, troubles, lax>>
\* The kept job and its task, after the read of the recent turns; 202.
Launches(r) ==
  /\ req[r].at = "launch"
  /\ mem' = [mem EXCEPT ![req[r].child] = Busy(req[r].w, req[r].known \cup req[r].answers)]
  /\ job' = [job EXCEPT ![req[r].child] = "new"]
  /\ told' = told \cup {<<req[r].w, f>> : f \in req[r].answers}
  /\ Moves(r, "done")
  /\ UNCHANGED <<row, clar, made, troubles, lax>>

-------------------------------------------------------------------------------
(* Answers: continue_demo_workflow *)

\* The kept question if there is a kept response, else the row.
ReadsQuestion(r, w) ==
  /\ r \in Replies /\ req[r].at = "new" /\ Lives(w) /\ Room
  /\ LET warm == mem[w].kind \notin {"none", "busy"}
         from == IF warm THEN mem[w] ELSE clar[w]
         asked == IF warm THEN mem[w].kind = "asks" ELSE clar[w].open
     IN  req' = [req EXCEPT ![r] =
           IF asked /\ from.missing \notin {{}, Unpriced}
           THEN [Idle EXCEPT !.at = "read", !.w = w, !.warm = mem[w].kind # "none",
                             !.missing = from.missing, !.known = from.known]
           ELSE [Idle EXCEPT !.at = "done"]]
  /\ lax' = IF \E s \in Replies : Live(s) /\ req[s].w = w THEN lax \cup {"lost"} ELSE lax
  /\ UNCHANGED <<row, clar, mem, job, made, troubles, told>>

\* A greeting instead of a goal: a turn of its own, the question stays open.
TalksAside(r) == req[r].at = "read" /\ req[r].missing = Unclear /\ TalksOnly(r, req[r].w)

\* A question back, or the catalogue: the response is put back with the fields it had.
AnswersAside(r) ==
  /\ req[r].at = "read" /\ req[r].missing # Unclear
  /\ mem' = IF req[r].warm
            THEN [mem EXCEPT ![req[r].w].kind = "asks", ![req[r].w].missing = req[r].missing]
            ELSE mem
  /\ Moves(r, "done") /\ UNCHANGED <<row, clar, job, made, troubles, told, lax>>

\* _extract_follow_up_answers; a form must answer everything that is asked.
Understood(r, answers) ==
  /\ req[r].at = "read"
  /\ req' = [req EXCEPT ![r].answers = answers,
                        ![r].at = IF req[r].missing \in {answers, Unclear} THEN "claim"
                                  ELSE "save"]
  /\ UNCHANGED <<row, clar, mem, job, made, troubles, told, lax>>
Understands(r) ==
  /\ req[r].at = "read"
  /\ \E answers \in SUBSET (req[r].missing \cap Fields) :
       /\ answers = {} => req[r].missing = Unclear
       /\ Understood(r, answers)

Left(r) == req[r].missing \ req[r].answers
Known(r) == req[r].known \cup req[r].answers
\* Part of the answers: the row keeps what is left and what is known by now.
SavesRest(r) ==
  /\ req[r].at = "save" /\ Moves(r, "tell")
  /\ \/ clar' = [clar EXCEPT ![req[r].w] = [open |-> TRUE, missing |-> Left(r), known |-> Known(r)]]
        /\ UNCHANGED troubles
        /\ lax' = IF ~clar[req[r].w].open THEN lax \cup {"again"} ELSE lax
     \/ Fails /\ Marked("lost") /\ UNCHANGED clar
  /\ UNCHANGED <<row, mem, job, made, told>>
TellsRest(r) ==
  /\ req[r].at = "tell" /\ Moves(r, "done")
  /\ LET w == req[r].w
     IN  /\ mem' = IF mem[w].kind = "none" THEN mem
                   ELSE [mem EXCEPT ![w].known = Known(r),
                                    ![w].missing = IF mem[w].kind = "asks" THEN Left(r) ELSE @]
         /\ told' = told \cup {<<w, f>> : f \in req[r].answers}
  /\ UNCHANGED <<row, clar, job, made, troubles, lax>>

\* Slip: any row of the question will do.
ConsumesAgain(r) ==
  LET w == req[r].w
  IN  /\ clar[w].known \cup clar[w].missing # {}
      /\ clar' = [clar EXCEPT ![w].open = FALSE]
      /\ row' = [row EXCEPT ![made'] = Shell(w), ![w].archived = TRUE]
\* consume_clarification_and_create_child: question, child and parent in one transaction.
Consumes(r) ==
  LET w == req[r].w
  IN  /\ clar[w].open
      /\ clar' = [clar EXCEPT ![w].open = FALSE]
      /\ row' = [row EXCEPT ![made'] = Shell(w), ![w].archived = TRUE]
Claims(r) ==
  /\ req[r].at = "claim" /\ made' = made + 1
  /\ Consumes(r)
  /\ req' = [req EXCEPT ![r].at = "archive", ![r].child = made']
  /\ UNCHANGED <<mem, job, troubles, told, lax>>

\* No row to claim, or no database: the flag in memory, where there is a memory.
ClaimsInMemory(r) ==
  LET w == req[r].w
  IN  /\ req[r].at = "claim"
      /\ \/ ~clar[w].open /\ UNCHANGED troubles
         \/ Fails
      /\ IF ~req[r].warm \/ mem[w].claimed
         THEN Moves(r, "done") /\ UNCHANGED <<mem, made, lax>>
         ELSE /\ made' = made + 1
              /\ mem' = [mem EXCEPT ![w].claimed = TRUE]
              /\ req' = [req EXCEPT ![r].at = "archive", ![r].child = made']
              /\ Marked("again")
      /\ UNCHANGED <<row, clar, job, told>>

\* _archive_workflow_safely, then the child's job.
ArchivesParent(r) ==
  /\ req[r].at = "archive" /\ Moves(r, "launch")
  /\ \/ row' = [row EXCEPT ![req[r].w].archived = TRUE] /\ UNCHANGED troubles
     \/ Fails /\ UNCHANGED row
  /\ UNCHANGED <<clar, mem, job, made, told, lax>>

-------------------------------------------------------------------------------
(* The job of a workflow: _run_demo_job *)

\* create_workflow writes nothing a row already says.
EnsuresShell(w) ==
  /\ job[w] = "new" /\ job' = [job EXCEPT ![w] = "plan"]
  /\ \/ /\ row' = IF Lives(w) THEN row ELSE [row EXCEPT ![w] = Shell(mem[w].parent)]
        /\ UNCHANGED troubles
     \/ ~Lives(w) /\ Fails /\ UNCHANGED row
  /\ UNCHANGED <<clar, mem, req, made, told, lax>>

\* The run: the planner asks or finds a question to it and no task, the run ends or waits, or
\* it breaks and leaves its row.  Every update of the status misses a row that is archived or absent.
Plans(w) ==
  /\ job[w] = "plan"
  /\ \E next \in {"asks", "talk", "error", "keep"}, end \in Outcomes :
       /\ next \in {"asks", "talk"} => end = "PENDING"
       /\ job' = [job EXCEPT ![w] = next]
       /\ row' = IF ~Lives(w) THEN row
                 ELSE [row EXCEPT ![w].planned = TRUE, ![w].tasks = next \notin {"asks", "talk"},
                                  ![w].status = IF row[w].archived THEN @ ELSE end]
  /\ UNCHANGED <<clar, mem, req, made, troubles, told, lax>>

KeepsResponse(w) ==
  /\ job[w] \in {"keep", "talk"}
  /\ job' = [job EXCEPT ![w] = IF @ = "talk" THEN "answer" ELSE "ended"]
  /\ mem' = [mem EXCEPT ![w].kind = "done"]
  /\ UNCHANGED <<row, clar, req, made, troubles, told, lax>>

\* _attach_answer of a workflow that only asks: its row is marked as answered, then closed;
\* a failure of either write is swallowed.
MarksAnswered(w) ==
  /\ job[w] = "answer"
  /\ \/ /\ row' = IF Lives(w) THEN [row EXCEPT ![w].answered = TRUE] ELSE row
        /\ job' = [job EXCEPT ![w] = "finish"] /\ UNCHANGED troubles
     \/ Fails /\ job' = [job EXCEPT ![w] = "ended"] /\ UNCHANGED row
  /\ UNCHANGED <<clar, mem, req, made, told, lax>>
FinishesChat(w) ==
  /\ job[w] = "finish" /\ job' = [job EXCEPT ![w] = "ended"]
  /\ \/ /\ row' = IF Lives(w) /\ ~row[w].archived THEN [row EXCEPT ![w].status = "SUCCESS"] ELSE row
        /\ UNCHANGED troubles
     \/ Fails /\ UNCHANGED row
  /\ UNCHANGED <<clar, mem, req, made, told, lax>>

\* The question is shown from memory first and pinned afterwards.
KeepsQuestion(w, missing) ==
  /\ job[w] = "asks" /\ job' = [job EXCEPT ![w] = "pin"]
  /\ missing \in Questions /\ missing \cap mem[w].known = {}
  /\ mem' = [mem EXCEPT ![w].kind = "asks", ![w].missing = missing, ![w].asked = missing]
  /\ UNCHANGED <<row, clar, req, made, troubles, told, lax>>
PinsQuestion(w) ==
  /\ job[w] = "pin" /\ job' = [job EXCEPT ![w] = "ended"]
  /\ mem' = [mem EXCEPT ![w].asked = {}]
  /\ \/ /\ Lives(w)
        /\ clar' = [clar EXCEPT ![w] = [open |-> TRUE, missing |-> mem[w].asked, known |-> mem[w].known]]
        /\ lax' = IF clar[w] = NoQuestion /\ ~mem[w].claimed THEN lax
                  ELSE lax \cup {"lost", "again"}
        /\ UNCHANGED troubles
     \/ ~Lives(w) /\ Marked("lost") /\ UNCHANGED <<clar, troubles>>
     \/ Fails /\ Marked("lost") /\ UNCHANGED clar
  /\ UNCHANGED <<row, req, made, told>>

\* mark_workflow_failed
OpenRow(w) == row[w].status = "PENDING" /\ ~row[w].archived
Closes(w, status) == [row EXCEPT ![w].status = status]
MarksFailed(w) ==
  /\ job[w] = "error" /\ job' = [job EXCEPT ![w] = "ended"]
  /\ mem' = [mem EXCEPT ![w].kind = "done"]
  /\ \/ row' = (IF OpenRow(w) THEN Closes(w, "FAILED") ELSE row) /\ UNCHANGED troubles
     \/ Fails /\ UNCHANGED row
  /\ UNCHANGED <<clar, req, made, told, lax>>

-------------------------------------------------------------------------------
(* The list and the sweeper *)

Quiet(w) == OpenRow(w) /\ job[w] \in {"none", "ended"} /\ ~row[w].chat
\* _archive_superseded_parents
ArchivesSuperseded ==
  /\ \E w \in Wids : OpenRow(w) /\ \E c \in Wids : row[c].parent = w
  /\ row' = [w \in Wids |-> IF OpenRow(w) /\ \E c \in Wids : row[c].parent = w
                            THEN [row[w] EXCEPT !.archived = TRUE] ELSE row[w]]
  /\ UNCHANGED <<clar, mem, job, req, made, troubles, told, lax>>

\* Slip: a workflow this process still keeps is never swept.
OrphanInMemory(w) == Quiet(w) /\ ~clar[w].open /\ ~row[w].answered /\ mem[w].kind = "none"
\* _sweep_zombie_workflows spares an open question and an answered one; the loop of main.py
\* names no live workflows.
Orphan(w) == Quiet(w) /\ ~clar[w].open /\ ~row[w].answered
SweepsZombie(w) ==
  /\ Orphan(w) /\ ~(\E r \in Requests : Live(r) /\ w \in {req[r].w, req[r].child})
  /\ row' = Closes(w, "FAILED")
  /\ UNCHANGED <<clar, mem, job, req, made, troubles, told, lax>>

\* trim_history_for_owner: all but the newest, except what waits for a decision.
Newest == {w \in Wids : /\ Lives(w) /\ ~row[w].archived
                        /\ Cardinality({v \in Wids : v > w /\ Lives(v) /\ ~row[v].archived}) < Keep}
Trimmed == {w \in Wids : /\ Lives(w) /\ ~row[w].archived /\ w \notin Newest
                         /\ row[w].status # "WAITING_APPROVAL"}
Trims ==
  /\ Trimmed # {}
  /\ row' = [w \in Wids |-> IF w \in Trimmed THEN [row[w] EXCEPT !.archived = TRUE] ELSE row[w]]
  /\ UNCHANGED <<clar, mem, job, req, made, troubles, told, lax>>

\* delete_demo_workflow
Deletes(w) ==
  /\ row[w].status \in Ended /\ ~row[w].archived
  /\ row' = [row EXCEPT ![w].archived = TRUE]
  /\ job[w] \in {"none", "ended"} /\ ~(\E r \in Requests : Live(r) /\ req[r].w = w)
  /\ mem' = [mem EXCEPT ![w] = NoMemory]
  /\ UNCHANGED <<clar, job, req, made, troubles, told, lax>>

Crash ==
  /\ Fails
  /\ mem' = [w \in Wids |-> NoMemory] /\ job' = [w \in Wids |-> "none"]
  /\ req' = [r \in Requests |-> IF Live(r) THEN [Idle EXCEPT !.at = "done"] ELSE req[r]]
  /\ UNCHANGED <<row, clar, made, told, lax>>

-------------------------------------------------------------------------------
Init ==
  /\ row = [w \in Wids |-> NoRow] /\ clar = [w \in Wids |-> NoQuestion]
  /\ mem = [w \in Wids |-> NoMemory] /\ job = [w \in Wids |-> "none"]
  /\ req = [r \in Requests |-> Idle]
  /\ made = 0 /\ troubles = 0 /\ told = {} /\ lax = {}

Steps(r) == \/ CountsQuota(r) \/ CreatesShell(r) \/ Launches(r)
            \/ TellsRest(r) \/ SavesRest(r) \/ Claims(r) \/ ClaimsInMemory(r)
            \/ ArchivesParent(r)
            \/ Understands(r)
Message(r) == Chats(r) \/ (\E w \in Wids : Amends(r, w))
Answer(r) == (\E w \in Wids : ReadsQuestion(r, w)) \/ TalksAside(r) \/ AnswersAside(r)
Runs(w) == \/ EnsuresShell(w) \/ Plans(w) \/ KeepsResponse(w) \/ MarksFailed(w)
           \/ MarksAnswered(w) \/ FinishesChat(w)
           \/ (\E missing \in Questions : KeepsQuestion(w, missing)) \/ PinsQuestion(w)
Next ==
  \/ \E r \in Requests : Steps(r) \/ Message(r) \/ Answer(r)
  \/ \E w \in Wids : Runs(w) \/ SweepsZombie(w) \/ Deletes(w)
  \/ ArchivesSuperseded \/ Trims \/ Crash

ConversationSpec == Init /\ [][Next]_vars
\* Requests and jobs are tasks of one event loop and take finitely many steps, so it is
\* enough that the loop goes on with some of them; the sweep runs in a loop of its own.
FairConversationSpec ==
  /\ ConversationSpec
  /\ WF_vars(\E w \in Wids : Runs(w)) /\ WF_vars(\E w \in Wids : SweepsZombie(w))
  /\ WF_vars(\E r \in Requests : Live(r) /\ (Steps(r) \/ Answer(r)))

-------------------------------------------------------------------------------
(* Properties *)

Memories == [kind : {"none", "busy", "asks", "done", "chat"}, missing : {{}} \cup Questions,
             known : SUBSET Fields, claimed : BOOLEAN, parent : Wids \cup {None},
             asked : {{}} \cup Questions]
\* Types of all variables.
CTypeOK ==
  /\ row \in [Wids -> [status : Statuses, parent : Wids \cup {None}, archived : BOOLEAN,
                       chat : BOOLEAN, planned : BOOLEAN, tasks : BOOLEAN,
                       answered : BOOLEAN]]
  /\ clar \in [Wids -> [open : BOOLEAN, missing : {{}} \cup Questions, known : SUBSET Fields]]
  /\ mem \in [Wids -> Memories]
  /\ job \in [Wids -> {"none", "new", "plan", "keep", "talk", "answer", "finish", "asks", "pin",
                   "error", "ended"}]
  /\ \A r \in Requests : /\ req[r].at \in {"new", "shell", "launch", "read", "save", "tell", "claim",
                                          "archive", "done"}
                         /\ req[r].answers \subseteq Fields /\ req[r].w \in Wids \cup {None}
  /\ made \in 0..MaxWorkflows /\ troubles \in 0..MaxTroubles
  /\ told \subseteq (Wids \cup {None}) \X Fields
  /\ lax \subseteq {"rushed", "lost", "again"}

\* However many answers come for one question, before and after a restart, the row hands
\* the matter over once (consume_clarification_and_create_child), as long as nobody went by
\* the flag in memory and no stale partial answer opened the row again.
OneChildPerAnswer ==
  "again" \notin lax => \A w \in Wids : Cardinality(Children(w)) <= 1

\* What a customer was told is taken reaches the plan made for it, over every hand-over and
\* restart (existing_context of memory, row and child), unless answers to one question
\* overlapped or a write was lost without a word.
Ancestors(w) == LET p == mem[w].parent IN {p} \cup (IF p = None THEN {} ELSE {row[p].parent})
AnswersReachThePlan ==
  "lost" \notin lax =>
    \A w \in Wids : job[w] \in {"new", "plan"} =>
      \A f \in Fields : (\E a \in Ancestors(w) \ {None} : <<a, f>> \in told) => f \in mem[w].known

\* When the messages stop, every accepted request has come to an end, is handed over or
\* hidden, or leaves a question somebody may answer, whatever failed to be written and
\* wherever the backend stopped; only a request that asked for an answer and no task, was
\* given it, and whose last write was then lost (_finish_chat_workflow) stays open, since the
\* sweep spares what is answered (sweeper.py, assistant_for_status).
Abandoned(w) == row[w].answered /\ ~row[w].tasks /\ troubles > 0
EveryRequestEnds ==
  <>[](\A w \in Wids : row[w].status = "PENDING" =>
         row[w].archived \/ clar[w].open \/ Abandoned(w))

================================================================================
