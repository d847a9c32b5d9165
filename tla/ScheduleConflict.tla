---------------------------- MODULE ScheduleConflict ----------------------------
(***************************************************************************)
(* Appointments of one owner that come too close to each other             *)
(* (orchestration/schedule_conflict.py): the check in front of a run, the  *)
(* customer's answer (respond_to_conflict) and the run that follows it.    *)
(*                                                                         *)
(* All appointments are on one day, so a time is a number of minutes.      *)
(* Approvals inside a run are ApprovalQueue's matter: here a run that      *)
(* passes the check sends its tasks one after the other.                   *)
(***************************************************************************)
EXTENDS Integers, FiniteSets, Sequences, SequencesExt

CONSTANTS Plan,      \* [workflow -> sequence of its dated tasks]
          Times,     \* minutes of the day an appointment may be moved to
          FirstTime, \* [task -> minutes]
          Window,    \* _CONFLICT_WINDOW_MINUTES
          Replies,   \* answers to a warning
          MaxMoves, MaxCrashes \* BOUNDS

Workflows == DOMAIN Plan
Tasks == UNION {Range(Plan[w]) : w \in Workflows}
Of(t) == CHOOSE w \in Workflows : t \in Range(Plan[w])

ASSUME ConflictAssumptions ==
  /\ Workflows # {} /\ \A w \in Workflows : Plan[w] \in Seq(Tasks)
  /\ \A w, v \in Workflows : w # v => Range(Plan[w]) \cap Range(Plan[v]) = {}
  /\ FirstTime \in [Tasks -> Times] /\ Times \subseteq Nat /\ Window \in Nat
  /\ Workflows \cap Replies = {} /\ MaxMoves \in Nat /\ MaxCrashes \in Nat

VARIABLES wf,      \* workflows.status
          task,    \* workflow_tasks.status
          time,    \* the time in workflow_tasks.input_data
          checks,  \* schedule_conflict_checks, oldest first
          runner,  \* first job of a workflow, or an answer: where it is
          hint,    \* tasks the customer is asked to move
          moves, crashes,
          excused  \* pairs the code lets through, and workflows it leaves behind

vars == <<wf, task, time, checks, runner, hint, moves, crashes, excused>>

Handlers == Workflows \cup Replies
Skipped == {"CANCELLED", "FAILED", "SKIPPED"} \* _TERMINAL_STATUSES
Idle(at, w) == [at |-> at, w |-> w, todo |-> {}, check |-> {}, keep |-> FALSE]
Running(h) == runner[h].at \in {"intra", "cross", "go"}
Moves(h, to) == runner' = [runner EXCEPT ![h].at = to]

Gap(t, u) == IF time[t] < time[u] THEN time[u] - time[t] ELSE time[t] - time[u]
Close(t, u) == t # u /\ Gap(t, u) <= Window
\* compute_fingerprint: who and when, in either order.
Fingerprint(t, u) == {<<t, time[t]>>, <<u, time[u]>>}
Acknowledged(f) == \E i \in DOMAIN checks : checks[i].fp = f /\ checks[i].acked
Nearest(t, others) == CHOOSE u \in others : \A v \in others : Gap(t, u) <= Gap(t, v)

-------------------------------------------------------------------------------
(* The check in front of a run: ScheduleConflictBoundary.execute *)

\* Plan and tasks are written, then the warning and the two statuses in one transaction;
\* ON CONFLICT DO NOTHING leaves a warning that another workflow got for the same pair.
Check(w, t, u) == [fp |-> Fingerprint(t, u), w |-> w, task |-> t, wb |-> Of(u), other |-> u,
                   acked |-> FALSE]
Recorded(f) == \E i \in DOMAIN checks : checks[i].fp = f
Pause(h, w, t, u) ==
  /\ checks' = IF Recorded(Fingerprint(t, u)) THEN checks ELSE Append(checks, Check(w, t, u))
  /\ task' = [x \in Tasks |-> IF x = t THEN "WAITING_APPROVAL"
                             ELSE IF Of(x) = w /\ task[x] = "absent" THEN "PENDING" ELSE task[x]]
  /\ wf' = [wf EXCEPT ![w] = "WAITING_APPROVAL"]
  /\ runner' = [runner EXCEPT ![h] = Idle("done", w)]
  /\ excused' = IF \E i \in DOMAIN checks : checks[i].fp = Fingerprint(t, u) /\ checks[i].w # w
                THEN excused \cup {{w}} ELSE excused
\* The transaction fails: the first job closes its workflow, an answer leaves it as it is.
PauseFails(h, w) ==
  /\ wf' = IF h \in Workflows THEN [wf EXCEPT ![w] = "FAILED"] ELSE wf
  /\ runner' = [runner EXCEPT ![h] = Idle("done", w)]
  /\ UNCHANGED <<task, checks, excused>>
Warns(h, w, t, u) == /\ Pause(h, w, t, u) \/ (h \in Workflows /\ PauseFails(h, w))
                     /\ UNCHANGED <<time, hint, moves, crashes>>

\* Two tasks of the plan itself: the nearest pair, the earlier task first.
Undone(w) == {t \in Range(Plan[w]) : task[t] \notin Skipped}
Earlier(w, t, u) == \E i, j \in DOMAIN Plan[w] : i < j /\ Plan[w][i] = t /\ Plan[w][j] = u
Pairs(w) == {p \in Undone(w) \X Undone(w) : Close(p[1], p[2]) /\ Earlier(w, p[1], p[2])}
NearestPair(w) == CHOOSE p \in Pairs(w) : \A q \in Pairs(w) : Gap(p[1], p[2]) <= Gap(q[1], q[2])
ChecksPlan(h) ==
  LET w == runner[h].w
      p == NearestPair(w)
  IN  /\ runner[h].at = "intra"
      /\ IF Pairs(w) # {} /\ ~Acknowledged(Fingerprint(p[1], p[2]))
         THEN Warns(h, w, p[1], p[2])
         ELSE /\ runner' = [runner EXCEPT ![h].at = "cross", ![h].todo = Undone(w)]
              \* Only the nearest pair is looked at: the others hide behind it.
              /\ excused' = excused \cup {{q[1], q[2]} : q \in {x \in Pairs(w) : x # p}}
              /\ UNCHANGED <<wf, task, time, checks, hint, moves, crashes>>

\* Slip: an appointment already made does not count.
OthersToDo(t) == {u \in Tasks : /\ Of(u) # Of(t) /\ Close(t, u)
                                /\ task[u] \notin Skipped \cup {"absent", "SUCCESS"}}
\* find_conflicting_task: of the other workflows' live rows the nearest.
Others(t) == {u \in Tasks : /\ Of(u) # Of(t) /\ Close(t, u)
                            /\ task[u] \notin Skipped \cup {"absent"}}
FirstOf(w, some) == CHOOSE t \in some : \A u \in some \ {t} : Earlier(w, t, u)
ChecksTask(h) ==
  LET w == runner[h].w
      t == FirstOf(w, runner[h].todo)
      u == Nearest(t, Others(t))
  IN  /\ runner[h].at = "cross" /\ runner[h].todo # {}
      /\ IF Others(t) # {} /\ ~Acknowledged(Fingerprint(t, u))
         THEN Warns(h, w, t, u)
         ELSE /\ runner' = [runner EXCEPT ![h].todo = @ \ {t}]
              \* Here too.
              /\ excused' = excused \cup {{t, v} : v \in {x \in Others(t) : x # u}}
              /\ UNCHANGED <<wf, task, time, checks, hint, moves, crashes>>

\* The inner boundary: the rows appear only now.
BeingRun(h) == {u \in Tasks : \E g \in Handlers \ {h} : Running(g) /\ runner[g].w = Of(u)}
Begins(h) ==
  LET w == runner[h].w
  IN  /\ runner[h].at = "cross" /\ runner[h].todo = {} /\ Moves(h, "go")
      /\ task' = [t \in Tasks |-> IF Of(t) = w /\ task[t] = "absent" THEN "PENDING" ELSE task[t]]
      /\ wf' = [wf EXCEPT ![w] = "RUNNING"]
      \* Whoever was checked before these rows were there could not see them.
      /\ excused' = excused \cup {{t, u} : t \in Range(Plan[w]), u \in BeingRun(h)}
      /\ UNCHANGED <<time, checks, hint, moves, crashes>>
Sends(h) ==
  LET w == runner[h].w
  IN  /\ runner[h].at = "go"
      /\ \E t \in Range(Plan[w]) : task[t] \notin Skipped \cup {"SUCCESS"} /\ task' = [task EXCEPT ![t] = "SUCCESS"]
      /\ UNCHANGED <<wf, time, checks, runner, hint, moves, crashes, excused>>
\* The first run writes the end (finalize); the run after an answer does not.
Finishes(h) ==
  LET w == runner[h].w
  IN  /\ runner[h].at = "go" /\ \A t \in Range(Plan[w]) : task[t] \in Skipped \cup {"SUCCESS"}
      /\ wf' = IF h \in Workflows /\ wf[w] # "CANCELLED" THEN [wf EXCEPT ![w] = "SUCCESS"] ELSE wf
      /\ runner' = [runner EXCEPT ![h] = Idle("done", w)]
      /\ UNCHANGED <<task, time, checks, hint, moves, crashes, excused>>

Submits(w) ==
  /\ wf[w] = "none" /\ wf' = [wf EXCEPT ![w] = "PENDING"]
  /\ runner' = [runner EXCEPT ![w] = Idle("intra", w)]
  /\ UNCHANGED <<task, time, checks, hint, moves, crashes, excused>>

-------------------------------------------------------------------------------
(* The answer: respond_to_conflict and the sentence read by conflict_intent *)

Open(w) == {i \in DOMAIN checks : checks[i].w = w /\ ~checks[i].acked}
Latest(w) == CHOOSE i \in Open(w) : \A j \in Open(w) : j <= i
Answers(r, w) ==
  /\ runner[r].at = "new" /\ Open(w) # {}
  /\ \E to \in {"keep", "clear"}, keep \in BOOLEAN :
       runner' = [runner EXCEPT ![r] = [Idle(to, w) EXCEPT !.check = {checks[Latest(w)]}, !.keep = keep]]
  /\ UNCHANGED <<wf, task, time, checks, hint, moves, crashes, excused>>
Seen(r) == CHOOSE c \in runner[r].check : TRUE

\* Slip: acknowledge_conflict, which everyone wins.
AnyCheck(r) == {i \in DOMAIN checks : checks[i].fp = Seen(r).fp}
\* claim_conflict_ack: only one of two answers goes on.
Claimable(r) == {i \in DOMAIN checks : checks[i].fp = Seen(r).fp /\ ~checks[i].acked}
KeepsBoth(r) ==
  /\ runner[r].at = "keep"
  /\ checks' = [i \in DOMAIN checks |-> IF i \in Claimable(r) THEN [checks[i] EXCEPT !.acked = TRUE]
                                       ELSE checks[i]]
  /\ Moves(r, IF Claimable(r) = {} THEN "done" ELSE "resume")
  \* The pair is what is claimed: a warning that another workflow got for it meanwhile goes too.
  /\ excused' = excused \cup {{checks[i].w} : i \in {j \in Claimable(r) : checks[j].w # runner[r].w}}
  /\ UNCHANGED <<wf, task, time, hint, moves, crashes>>
\* resume_after_conflict_ack
Resumes(r) ==
  LET w == runner[r].w
  IN  /\ runner[r].at = "resume" /\ Moves(r, "intra")
      /\ task' = [task EXCEPT ![Seen(r).task] = "PENDING"]
      /\ wf' = [wf EXCEPT ![w] = "PENDING"]
      /\ UNCHANGED <<time, checks, hint, moves, crashes, excused>>

\* change_a, change_b: the warning goes, and one appointment is asked about again.
\* Slip: warnings in which the workflow is the other side go as well.
KeptElsewhere(c, w) == (c.w # w /\ c.wb # w) \/ c.acked
Kept(c, w) == c.w # w \/ c.acked
Left(w) == {i \in DOMAIN checks : Kept(checks[i], w)}
InOrder(f) == \A i, j \in DOMAIN f : i < j => f[i] < f[j]
Clears(r) ==
  /\ runner[r].at = "clear" /\ Moves(r, "repair")
  /\ LET left == Left(runner[r].w)
     IN  \E f \in [1..Cardinality(left) -> left] :
           InOrder(f) /\ Range(f) = left /\ checks' = [i \in DOMAIN f |-> checks[f[i]]]
  /\ excused' = IF ~runner[r].keep \/ Seen(r).wb = runner[r].w THEN excused
                ELSE excused \cup {{runner[r].w}} \* the workflow that waited is left behind
  /\ UNCHANGED <<wf, task, time, hint, moves, crashes>>
Target(r) == IF runner[r].keep THEN Seen(r).other ELSE Seen(r).task
\* repair_conflict_task
Repairs(r) ==
  /\ runner[r].at = "repair"
  /\ hint' = hint \cup {Target(r)}
  /\ wf' = [wf EXCEPT ![Of(Target(r))] = "FAILED"]
  /\ runner' = [runner EXCEPT ![r] = Idle("done", runner[r].w)]
  /\ UNCHANGED <<task, time, checks, moves, crashes, excused>>

\* rerun_with_answers goes by no conflict boundary.
MovesAppointment(t) ==
  LET w == Of(t)
  IN  /\ t \in hint /\ moves < MaxMoves /\ moves' = moves + 1 /\ hint' = hint \ {t}
      /\ wf[w] = "FAILED" /\ ~\E h \in Handlers : Running(h) /\ runner[h].w = w
      /\ IF task[t] = "SUCCESS" THEN UNCHANGED <<time, task, excused>>
         ELSE /\ \E m \in Times : time' = [time EXCEPT ![t] = m]
              /\ task' = [x \in Tasks |-> IF Of(x) = w /\ task[x] \notin Skipped THEN "SUCCESS" ELSE task[x]]
              /\ excused' = excused \cup {{x, y} : x \in Range(Plan[w]), y \in Tasks}
      /\ wf' = [wf EXCEPT ![w] = "SUCCESS"]
      /\ UNCHANGED <<checks, runner, crashes>>

Stops(w) ==
  /\ wf[w] = "WAITING_APPROVAL" /\ wf' = [wf EXCEPT ![w] = "CANCELLED"]
  /\ task' = [t \in Tasks |-> IF Of(t) = w /\ task[t] \in {"PENDING", "WAITING_APPROVAL"} THEN "CANCELLED"
                             ELSE task[t]]
  /\ UNCHANGED <<time, checks, runner, hint, moves, crashes, excused>>

\* The zombie sweep: a workflow nobody runs is closed.
Sweeps(w) ==
  /\ wf[w] \in {"PENDING", "RUNNING"} /\ ~\E h \in Handlers : Running(h) /\ runner[h].w = w
  /\ wf' = [wf EXCEPT ![w] = "FAILED"]
  /\ UNCHANGED <<task, time, checks, runner, hint, moves, crashes, excused>>

Crash ==
  /\ crashes < MaxCrashes /\ crashes' = crashes + 1
  /\ runner' = [h \in Handlers |-> IF runner[h].at = "new" THEN runner[h] ELSE Idle("done", runner[h].w)]
  /\ excused' = excused \cup {{runner[r].w} : r \in {x \in Replies : runner[x].at \in {"resume", "repair"}}}
  /\ UNCHANGED <<wf, task, time, checks, hint, moves>>

Init ==
  /\ wf = [w \in Workflows |-> "none"] /\ task = [t \in Tasks |-> "absent"] /\ time = FirstTime
  /\ checks = <<>> /\ runner = [h \in Handlers |-> Idle("new", CHOOSE w \in Workflows : TRUE)]
  /\ hint = {} /\ moves = 0 /\ crashes = 0 /\ excused = {}

Runs(h) == ChecksPlan(h) \/ ChecksTask(h) \/ Begins(h) \/ Sends(h) \/ Finishes(h)
Replied(r) == (\E w \in Workflows : Answers(r, w)) \/ KeepsBoth(r) \/ Resumes(r) \/ Clears(r) \/ Repairs(r)
Next ==
  \/ \E w \in Workflows : Submits(w) \/ Stops(w) \/ Sweeps(w)
  \/ \E h \in Handlers : Runs(h)
  \/ \E r \in Replies : Replied(r)
  \/ (\E t \in Tasks : MovesAppointment(t)) \/ Crash
ConflictSpec == Init /\ [][Next]_vars

-------------------------------------------------------------------------------
(* Properties *)

\* Types of all variables.
ScheduleTypeOK ==
  /\ wf \in [Workflows -> {"none", "PENDING", "RUNNING", "WAITING_APPROVAL", "SUCCESS", "FAILED", "CANCELLED"}]
  /\ task \in [Tasks -> {"absent", "PENDING", "WAITING_APPROVAL", "SUCCESS"} \cup Skipped]
  /\ time \in [Tasks -> Times] /\ hint \subseteq Tasks
  /\ \A i \in DOMAIN checks : /\ checks[i].fp \subseteq Tasks \X Times
                              /\ checks[i].task \in Range(Plan[checks[i].w])
  /\ \A h \in Handlers : runner[h].w \in Workflows /\ runner[h].todo \subseteq Tasks
  /\ moves \in 0..MaxMoves /\ crashes \in 0..MaxCrashes
  /\ excused \subseteq SUBSET (Tasks \cup Workflows)

\* Two appointments within the window are both made only when the customer was warned of
\* just these two at these times and kept both; excused are pairs checked at the same
\* time, hidden behind a nearer one, in the plan too, or moved by a repair, which is not
\* checked again.
Warned ==
  \A t, u \in Tasks :
    task[t] = "SUCCESS" /\ task[u] = "SUCCESS" /\ Close(t, u) /\ {t, u} \notin excused
      => Acknowledged(Fingerprint(t, u))

\* One workflow is never run by two handlers at once, whoever answers the warning and
\* whatever is cleared or claimed in between (claim_conflict_ack).
RunsAlone ==
  \A g, h \in Handlers : g # h /\ Running(g) /\ Running(h) => runner[g].w # runner[h].w

\* A workflow that waits with nobody at work has a warning of its own to answer, unless a
\* restart came between, its customer moved the other appointment, or the same pair was
\* already recorded for the other workflow, or claimed by an answer to that one's warning.
PausedCanBeAnswered ==
  \A w \in Workflows :
    (/\ wf[w] = "WAITING_APPROVAL" /\ {w} \notin excused
     /\ \A h \in Handlers : runner[h].w # w \/ runner[h].at \in {"new", "done"})
      => Open(w) # {}

================================================================================
