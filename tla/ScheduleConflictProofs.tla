------------------------- MODULE ScheduleConflictProofs -------------------------
(***************************************************************************)
(* Proofs about ScheduleConflict for any plans, times, window and number   *)
(* of answers.                                                             *)
(*                                                                         *)
(* RunsAlone: a pair with which somebody may still win the right to run a  *)
(* workflow is a Ticket of that workflow; a workflow has at most one, none *)
(* while it runs, and claim_conflict_ack spends it (AInv).                 *)
(* PausedCanBeAnswered: what waits has an open warning, or an answer that  *)
(* has claimed it or taken it away is not done yet (PInv).                 *)
(* Warned: of two appointments that both were checked, the one whose rows  *)
(* appeared second was checked against the other, or the two runs          *)
(* overlapped and the pair is excused (BothPassed, in WInv).               *)
(***************************************************************************)
EXTENDS ScheduleConflict, FiniteSetTheorems, WellFoundedInduction, TLAPS

Row == {c \in [fp : SUBSET (Tasks \X Times), w : Workflows, task : Tasks, wb : Workflows, other : Tasks,
               acked : BOOLEAN] : c.w = Of(c.task) /\ c.wb = Of(c.other)}
Stages == {"new", "intra", "cross", "go", "done", "keep", "clear", "resume", "repair"}
Runner == [at : Stages, w : Workflows, todo : SUBSET Tasks, check : SUBSET Row, keep : BOOLEAN]
Answering == {"keep", "clear", "resume", "repair"}

Rows == checks \in Seq(Row)
Places ==
  /\ runner \in [Handlers -> Runner]
  /\ \A h \in Handlers :
       /\ runner[h].at \in Answering => h \in Replies /\ Seen(h) \in runner[h].check /\ Seen(h).w = runner[h].w
       /\ runner[h].at = "cross" => runner[h].todo \subseteq Range(Plan[runner[h].w])
Columns ==
  /\ wf \in [Workflows -> {"none", "PENDING", "RUNNING", "WAITING_APPROVAL", "SUCCESS", "FAILED", "CANCELLED"}]
  /\ task \in [Tasks -> {"absent", "PENDING", "WAITING_APPROVAL", "SUCCESS"} \cup Skipped]
  /\ time \in [Tasks -> Times] /\ hint \subseteq Tasks
  /\ moves \in 0..MaxMoves /\ crashes \in 0..MaxCrashes
  /\ excused \subseteq SUBSET (Tasks \cup Workflows)
Typed == Rows /\ Places /\ Columns

-------------------------------------------------------------------------------
(* Plans and the nearest appointment *)

LEMMA OfPlan ==
  ASSUME ConflictAssumptions
  PROVE  /\ \A t \in Tasks : Of(t) \in Workflows /\ t \in Range(Plan[Of(t)])
         /\ \A w \in Workflows : \A t \in Range(Plan[w]) : t \in Tasks /\ Of(t) = w
<1>1. \A w, v \in Workflows : w # v => Range(Plan[w]) \cap Range(Plan[v]) = {}
  BY DEF ConflictAssumptions
<1>2. \A w \in Workflows : \A t \in Range(Plan[w]) : t \in Tasks
  BY DEF Tasks
<1>3. ASSUME NEW t \in Tasks PROVE Of(t) \in Workflows /\ t \in Range(Plan[Of(t)])
  <2>1. PICK w \in Workflows : t \in Range(Plan[w])
    BY DEF Tasks
  <2>2. QED
    BY <2>1 DEF Of
<1>4. QED
  BY <1>1, <1>2, <1>3

LEMMA Least ==
  ASSUME NEW T \in SUBSET Nat, T # {}
  PROVE  \E n \in T : \A m \in T : n <= m
<1>1. \E n \in T : \A m \in T : ~(<<m, n>> \in OpToRel(<, Nat))
  BY WFMin, NatLessThanWellFounded
<1>2. PICK n \in T : \A m \in T : ~(<<m, n>> \in OpToRel(<, Nat))
  BY <1>1
<1>3. ASSUME NEW m \in T PROVE ~(m < n)
  <2> DEFINE pair == <<m, n>>
  <2>1. pair \in Nat \X Nat /\ pair[1] = m /\ pair[2] = n
    OBVIOUS
  <2>2. pair \notin {e \in Nat \X Nat : e[1] < e[2]}
    BY <1>2 DEF OpToRel
  <2> HIDE DEF pair
  <2>3. QED
    BY <2>1, <2>2
<1>4. QED
  BY <1>3

LEMMA GapIsNat ==
  ASSUME ConflictAssumptions, time \in [Tasks -> Times], NEW t \in Tasks, NEW u \in Tasks
  PROVE  Gap(t, u) \in Nat
<1>1. time[t] \in Nat /\ time[u] \in Nat
  BY DEF ConflictAssumptions
<1>2. QED
  BY <1>1 DEF Gap

LEMMA NearestIn ==
  ASSUME ConflictAssumptions, time \in [Tasks -> Times], NEW t \in Tasks,
         NEW others \in SUBSET Tasks, others # {}
  PROVE  Nearest(t, others) \in others
<1> DEFINE gaps == {Gap(t, u) : u \in others}
<1>1. gaps \in SUBSET Nat /\ gaps # {}
  BY GapIsNat
<1>2. PICK n \in gaps : \A m \in gaps : n <= m
  <2> HIDE DEF gaps
  <2> QED BY <1>1, Least
<1>3. PICK u \in others : \A v \in others : Gap(t, u) <= Gap(t, v)
  BY <1>2
<1>4. QED
  BY <1>3 DEF Nearest

LEMMA PairsTyped ==
  ASSUME ConflictAssumptions, NEW w \in Workflows
  PROVE  \A p \in Pairs(w) : /\ p[1] \in Undone(w) /\ p[2] \in Undone(w) /\ Close(p[1], p[2])
                             /\ p[1] \in Tasks /\ p[2] \in Tasks /\ Of(p[1]) = w /\ Of(p[2]) = w
<1>1. \A t \in Undone(w) : t \in Range(Plan[w])
  BY DEF Undone
<1>2. QED
  BY <1>1, OfPlan DEF Pairs

LEMMA NearestPairIn ==
  ASSUME ConflictAssumptions, time \in [Tasks -> Times], NEW w \in Workflows, Pairs(w) # {}
  PROVE  NearestPair(w) \in Pairs(w)
<1> DEFINE gaps == {Gap(p[1], p[2]) : p \in Pairs(w)}
<1>1. gaps \in SUBSET Nat /\ gaps # {}
  <2>1. ASSUME NEW p \in Pairs(w) PROVE Gap(p[1], p[2]) \in Nat
    <3>1. p[1] \in Tasks /\ p[2] \in Tasks
      BY PairsTyped
    <3>2. QED
      BY <3>1, GapIsNat
  <2>2. QED
    BY <2>1
<1>2. PICK n \in gaps : \A m \in gaps : n <= m
  <2> HIDE DEF gaps
  <2> QED BY <1>1, Least
<1>3. PICK p \in Pairs(w) : \A q \in Pairs(w) : Gap(p[1], p[2]) <= Gap(q[1], q[2])
  BY <1>2
<1>4. QED
  BY <1>3 DEF NearestPair

LEMMA FirstOfIn ==
  ASSUME ConflictAssumptions, NEW w \in Workflows, NEW some \in SUBSET Range(Plan[w]), some # {}
  PROVE  FirstOf(w, some) \in some
<1> DEFINE plan == Plan[w]
           at == {i \in DOMAIN plan : plan[i] \in some}
<1>1. plan \in Seq(Tasks) /\ some \subseteq {plan[i] : i \in DOMAIN plan}
  BY DEF ConflictAssumptions, Range
<1>2. at \in SUBSET Nat /\ at # {}
  BY <1>1
<1>3. PICK i \in at : \A j \in at : i <= j
  <2> HIDE DEF at
  <2> QED BY <1>2, Least
<1>4. ASSUME NEW u \in some \ {plan[i]} PROVE Earlier(w, plan[i], u)
  <2>1. PICK j \in DOMAIN plan : plan[j] = u
    BY <1>1
  <2>2. j \in at /\ i <= j /\ i # j /\ i \in Nat /\ j \in Nat
    BY <1>2, <1>3, <1>4, <2>1
  <2>3. QED
    BY <2>1, <2>2 DEF Earlier
<1>5. plan[i] \in some
  BY <1>3
<1>6. QED
  BY <1>4, <1>5 DEF FirstOf

-------------------------------------------------------------------------------
(* Types *)

\* A place a handler may be put in.
Seat(h, x) ==
  /\ x \in Runner
  /\ x.at \in Answering => h \in Replies /\ (CHOOSE c \in x.check : TRUE) \in x.check
                           /\ (CHOOSE c \in x.check : TRUE).w = x.w
  /\ x.at = "cross" => x.todo \subseteq Range(Plan[x.w])

LEMMA SeatTaken ==
  ASSUME Places, NEW h \in Handlers, NEW x, Seat(h, x), runner' = [runner EXCEPT ![h] = x]
  PROVE  Places'
<1>1. runner' \in [Handlers -> Runner] /\ runner'[h] = x /\ \A g \in Handlers : g # h => runner'[g] = runner[g]
  BY DEF Places, Seat
<1>2. ASSUME NEW g \in Handlers
      PROVE  /\ runner'[g].at \in Answering => g \in Replies /\ Seen(g)' \in runner'[g].check
                                               /\ Seen(g)'.w = runner'[g].w
             /\ runner'[g].at = "cross" => runner'[g].todo \subseteq Range(Plan[runner'[g].w])
  <2>1. CASE g = h
    BY <1>1, <2>1 DEF Seat, Seen
  <2>2. CASE g # h
    <3>1. runner'[g] = runner[g]
      BY <1>1, <2>2
    <3>2. Seen(g)' = Seen(g)
      BY <3>1 DEF Seen
    <3>3. QED
      BY <3>1, <3>2 DEF Places
  <2>3. QED
    BY <2>1, <2>2
<1>3. QED
  BY <1>1, <1>2 DEF Places

LEMMA SeatIdle ==
  ASSUME NEW h \in Handlers, NEW w \in Workflows, NEW at \in {"new", "intra", "done"}
  PROVE  Seat(h, Idle(at, w))
  BY DEF Seat, Idle, Runner, Stages, Answering

\* Only the stage changes, not to one that needs more.
LEMMA SeatMoved ==
  ASSUME Places, NEW h \in Handlers, NEW to \in {"intra", "go", "done"}, Moves(h, to)
  PROVE  Places'
<1> DEFINE x == [runner[h] EXCEPT !.at = to]
<1>1. runner' = [runner EXCEPT ![h] = x]
  BY DEF Moves
<1>2. x \in Runner /\ x.at = to
  BY DEF Places, Runner, Stages
<1>3. Seat(h, x)
  BY <1>2 DEF Seat, Answering
<1> HIDE DEF x
<1>4. QED
  BY <1>1, <1>3, SeatTaken

LEMMA SeatAnswering ==
  ASSUME Places, NEW h \in Handlers, runner[h].at \in Answering, NEW to \in Answering, Moves(h, to)
  PROVE  Places'
<1> DEFINE x == [runner[h] EXCEPT !.at = to]
<1>1. runner' = [runner EXCEPT ![h] = x]
  BY DEF Moves
<1>2. x \in Runner /\ x.at = to /\ x.w = runner[h].w /\ x.check = runner[h].check
  BY DEF Places, Runner, Stages, Answering
<1>3. Seat(h, x)
  BY <1>2 DEF Seat, Answering, Places, Seen
<1> HIDE DEF x
<1>4. QED
  BY <1>1, <1>3, SeatTaken

\* Rows
LEMMA Fingerprints ==
  ASSUME ConflictAssumptions, Columns, NEW t \in Tasks, NEW u \in Tasks
  PROVE  Fingerprint(t, u) \in SUBSET (Tasks \X Times) /\ Fingerprint(t, u) = Fingerprint(u, t)
<1>1. time[t] \in Times /\ time[u] \in Times
  BY DEF Columns
<1>2. QED
  BY <1>1 DEF Fingerprint

LEMMA CheckRow ==
  ASSUME ConflictAssumptions, Columns, NEW t \in Tasks, NEW u \in Tasks
  PROVE  /\ Check(Of(t), t, u) \in Row
         /\ Check(Of(t), t, u).fp = Fingerprint(t, u) /\ Check(Of(t), t, u).w = Of(t)
         /\ Check(Of(t), t, u).acked = FALSE
<1>1. Of(t) \in Workflows /\ Of(u) \in Workflows
  BY OfPlan
<1>2. QED
  BY <1>1, Fingerprints DEF Check, Row

-------------------------------------------------------------------------------
(* The rows of schedule_conflict_checks *)

Distinct == \A i, j \in DOMAIN checks : checks[i].fp = checks[j].fp => i = j
RowsKeep == Rows' /\ Distinct' /\ \A f : Acknowledged(f) => Acknowledged(f)'

LEMMA RowsSame == ASSUME Rows, Distinct, UNCHANGED checks PROVE RowsKeep
  BY DEF RowsKeep, Rows, Distinct, Acknowledged

LEMMA RowsWarned ==
  ASSUME Rows, Distinct, NEW c \in Row,
         checks' = IF Recorded(c.fp) THEN checks ELSE Append(checks, c)
  PROVE  /\ RowsKeep /\ Recorded(c.fp)'
         /\ \A i \in DOMAIN checks' : (i \in DOMAIN checks /\ checks'[i] = checks[i]) \/ checks'[i] = c
         /\ \A i \in DOMAIN checks : i \in DOMAIN checks' /\ checks'[i] = checks[i]
         /\ ~Recorded(c.fp) => \E i \in DOMAIN checks' : checks'[i] = c
<1>1. CASE Recorded(c.fp)
  BY <1>1, RowsSame DEF Recorded
<1>2. CASE ~Recorded(c.fp)
  <2> DEFINE n == Len(checks)
  <2>1. n \in Nat /\ DOMAIN checks = 1..n /\ checks' = Append(checks, c)
    BY <1>2 DEF Rows
  <2>2. DOMAIN checks' = 1..(n + 1) /\ checks'[n + 1] = c /\ \A i \in 1..n : checks'[i] = checks[i]
    BY <2>1 DEF Rows
  <2>3. checks' \in Seq(Row)
    BY <2>1 DEF Rows
  <2>4. \A i \in 1..n : checks[i].fp # c.fp
    BY <1>2, <2>1 DEF Recorded
  <2>5. \A i \in 1..(n + 1) : i \in 1..n \/ i = n + 1
    BY <2>1
  <2>6. n + 1 \in 1..(n + 1) /\ \A i \in 1..n : i \in 1..(n + 1)
    BY <2>1
  <2> HIDE DEF n
  <2>7. Distinct'
    BY <2>1, <2>2, <2>4, <2>5 DEF Distinct
  <2>8. \A f : Acknowledged(f) => Acknowledged(f)'
    BY <2>1, <2>2, <2>6 DEF Acknowledged
  <2>9. QED
    BY <1>2, <2>1, <2>2, <2>3, <2>5, <2>6, <2>7, <2>8 DEF RowsKeep, Rows, Recorded
<1>3. QED
  BY <1>1, <1>2

LEMMA RowsClaimed ==
  ASSUME Typed, Distinct, NEW r \in Replies, KeepsBoth(r)
  PROVE  /\ RowsKeep /\ DOMAIN checks' = DOMAIN checks
         /\ \A i \in DOMAIN checks : checks'[i].w = checks[i].w /\ checks'[i].fp = checks[i].fp
                                     /\ (i \notin Claimable(r) => checks'[i] = checks[i])
         /\ \A f : f = Seen(r).fp /\ Claimable(r) # {} => Acknowledged(f)'
<1>1. DOMAIN checks' = DOMAIN checks
      /\ \A i \in DOMAIN checks : checks'[i] = IF i \in Claimable(r) THEN [checks[i] EXCEPT !.acked = TRUE]
                                               ELSE checks[i]
  BY DEF KeepsBoth
<1>2. \A i \in DOMAIN checks : checks[i] \in Row
  BY DEF Typed, Rows
<1>3. \A i \in DOMAIN checks : /\ checks'[i] \in Row /\ checks'[i].w = checks[i].w /\ checks'[i].fp = checks[i].fp
                               /\ checks[i].acked => checks'[i].acked
                               /\ (i \in Claimable(r) => checks'[i].acked)
  BY <1>1, <1>2 DEF Row
<1>4. checks' \in Seq(Row)
  <2>1. PICK n \in Nat : DOMAIN checks = 1..n
    BY DEF Typed, Rows
  <2>2. checks' = [i \in 1..n |-> checks'[i]]
    BY <1>1, <2>1 DEF KeepsBoth
  <2>3. QED
    BY <1>3, <2>1, <2>2
<1>5. Distinct' /\ \A f : Acknowledged(f) => Acknowledged(f)'
  BY <1>1, <1>3 DEF Distinct, Acknowledged
<1>6. \A f : f = Seen(r).fp /\ Claimable(r) # {} => Acknowledged(f)'
  BY <1>1, <1>3 DEF Claimable, Acknowledged
<1>7. QED
  BY <1>1, <1>3, <1>4, <1>5, <1>6 DEF RowsKeep, Rows

LEMMA RowsCleared ==
  ASSUME Typed, Distinct, NEW r \in Replies, Clears(r)
  PROVE  /\ RowsKeep
         /\ \A i \in DOMAIN checks' : \E j \in DOMAIN checks : checks'[i] = checks[j]
         /\ \A j \in DOMAIN checks : Kept(checks[j], runner[r].w) =>
              \E i \in DOMAIN checks' : checks'[i] = checks[j]
<1> DEFINE left == Left(runner[r].w)
<1>1. PICK f \in [1..Cardinality(left) -> left] :
        InOrder(f) /\ Range(f) = left /\ checks' = [i \in DOMAIN f |-> checks[f[i]]]
  BY DEF Clears
<1>2. PICK n \in Nat : DOMAIN checks = 1..n
  BY DEF Typed, Rows
<1>3. left \subseteq 1..n
  BY <1>2 DEF Left
<1>4. Cardinality(left) \in Nat
  <2>1. 0 \in Int /\ 1 \in Int /\ n \in Int
    BY <1>2
  <2>2. IsFiniteSet(1..n)
    BY <2>1, FS_Interval
  <2>3. IsFiniteSet(left)
    BY <1>3, <2>2, FS_Subset
  <2> HIDE DEF left
  <2>4. QED
    BY <2>3, FS_CardinalityType
<1> DEFINE m == Cardinality(left)
<1>5. DOMAIN f = 1..m /\ m \in Nat /\ \A i \in 1..m : f[i] \in 1..n /\ f[i] \in left
  BY <1>1, <1>3, <1>4
<1>6. DOMAIN checks' = 1..m /\ \A i \in 1..m : checks'[i] = checks[f[i]]
  BY <1>1, <1>5
<1>7. \A j \in left : \E i \in 1..m : f[i] = j
  BY <1>1, <1>5 DEF Range
<1>8. \A i, j \in 1..m : f[i] = f[j] => i = j
  <2>1. \A i, j \in 1..m : i < j => f[i] < f[j]
    BY <1>1, <1>5 DEF InOrder
  <2>2. \A i \in 1..m : f[i] \in Int /\ i \in Int
    BY <1>5
  <2> HIDE DEF m
  <2>3. QED
    BY <2>1, <2>2
<1> HIDE DEF m
<1>9. \A j \in 1..n : checks[j] \in Row
  BY <1>2 DEF Typed, Rows
<1>10. checks' \in Seq(Row)
  <2>1. checks' = [i \in 1..m |-> checks'[i]]
    BY <1>1, <1>5, <1>6
  <2>2. QED
    BY <1>5, <1>6, <1>9, <2>1
<1>11. Distinct'
  BY <1>2, <1>5, <1>6, <1>8 DEF Distinct, Typed
<1>12. \A j \in 1..n : Kept(checks[j], runner[r].w) => \E i \in 1..m : checks'[i] = checks[j]
  BY <1>2, <1>6, <1>7 DEF Left
<1>13. \A g : Acknowledged(g) => Acknowledged(g)'
  BY <1>2, <1>6, <1>12 DEF Acknowledged, Kept
<1>14. QED
  BY <1>2, <1>5, <1>6, <1>10, <1>11, <1>12, <1>13 DEF RowsKeep, Rows

-------------------------------------------------------------------------------
(* Each step keeps the types *)

LEMMA PauseTyped ==
  ASSUME ConflictAssumptions, Typed, Distinct, NEW h \in Handlers, NEW t \in Tasks, NEW u \in Tasks,
         Pause(h, Of(t), t, u), UNCHANGED <<time, hint, moves, crashes>>
  PROVE  Typed' /\ RowsKeep
<1> DEFINE w == Of(t)
           c == Check(w, t, u)
<1>1. w \in Workflows /\ c \in Row /\ c.fp = Fingerprint(t, u)
  BY OfPlan, CheckRow DEF Typed
<1>2. RowsKeep
  <2>1. checks' = IF Recorded(c.fp) THEN checks ELSE Append(checks, c)
    BY <1>1 DEF Pause
  <2> HIDE DEF c
  <2>2. QED
    BY <1>1, <2>1, RowsWarned DEF Typed
<1>3. Places'
  <2>1. runner' = [runner EXCEPT ![h] = Idle("done", w)] /\ Seat(h, Idle("done", w))
    BY <1>1, SeatIdle DEF Pause
  <2>2. QED
    BY <2>1, SeatTaken DEF Typed
<1>4. Columns'
  <2>1. excused' \subseteq SUBSET (Tasks \cup Workflows)
    BY <1>1 DEF Pause, Columns, Typed
  <2>2. QED
    BY <1>1, <2>1 DEF Pause, Columns, Typed
<1>5. QED
  BY <1>2, <1>3, <1>4 DEF Typed, RowsKeep

LEMMA PauseFailsTyped ==
  ASSUME ConflictAssumptions, Typed, Distinct, NEW h \in Handlers, NEW w \in Workflows,
         PauseFails(h, w), UNCHANGED <<time, hint, moves, crashes>>
  PROVE  Typed' /\ RowsKeep
<1>1. Places'
  <2>1. runner' = [runner EXCEPT ![h] = Idle("done", w)] /\ Seat(h, Idle("done", w))
    BY SeatIdle DEF PauseFails
  <2>2. QED
    BY <2>1, SeatTaken DEF Typed
<1>2. Columns' /\ RowsKeep
  BY RowsSame DEF PauseFails, Columns, Typed
<1>3. QED
  BY <1>1, <1>2 DEF Typed, RowsKeep

\* The two ways a check ends without a warning.
PlanPasses(h) ==
  LET w == runner[h].w
      p == NearestPair(w)
  IN  /\ runner[h].at = "intra" /\ (Pairs(w) = {} \/ Acknowledged(Fingerprint(p[1], p[2])))
      /\ runner' = [runner EXCEPT ![h].at = "cross", ![h].todo = Undone(w)]
      /\ excused' = excused \cup {{q[1], q[2]} : q \in {x \in Pairs(w) : x # p}}
      /\ UNCHANGED <<wf, task, time, checks, hint, moves, crashes>>
TaskPasses(h) ==
  LET w == runner[h].w
      t == FirstOf(w, runner[h].todo)
      u == Nearest(t, Others(t))
  IN  /\ runner[h].at = "cross" /\ runner[h].todo # {}
      /\ (Others(t) = {} \/ Acknowledged(Fingerprint(t, u)))
      /\ runner' = [runner EXCEPT ![h].todo = @ \ {t}]
      /\ excused' = excused \cup {{t, v} : v \in {x \in Others(t) : x # u}}
      /\ UNCHANGED <<wf, task, time, checks, hint, moves, crashes>>
Paused(h) ==
  \E t, u \in Tasks : /\ Of(t) = runner[h].w /\ runner[h].at \in {"intra", "cross"}
                      /\ ~Acknowledged(Fingerprint(t, u)) /\ Pause(h, Of(t), t, u)
                      /\ UNCHANGED <<time, hint, moves, crashes>>
NotPaused(h) ==
  /\ h \in Workflows /\ runner[h].at \in {"intra", "cross"} /\ PauseFails(h, runner[h].w)
  /\ UNCHANGED <<time, hint, moves, crashes>>

LEMMA TaskToCheck ==
  ASSUME ConflictAssumptions, Typed, NEW h \in Handlers, runner[h].at = "cross", runner[h].todo # {}
  PROVE  LET t == FirstOf(runner[h].w, runner[h].todo)
         IN  t \in runner[h].todo /\ t \in Tasks /\ Of(t) = runner[h].w
<1>1. runner[h].w \in Workflows /\ runner[h].todo \subseteq Range(Plan[runner[h].w])
  BY DEF Typed, Places, Runner
<1> DEFINE t == FirstOf(runner[h].w, runner[h].todo)
<1>2. t \in runner[h].todo
  BY <1>1, FirstOfIn
<1> HIDE DEF t
<1>3. t \in runner[h].todo /\ t \in Tasks /\ Of(t) = runner[h].w
  BY <1>1, <1>2, OfPlan
<1>4. QED
  BY <1>3 DEF t

LEMMA CheckCases ==
  ASSUME ConflictAssumptions, Typed, NEW h \in Handlers, ChecksPlan(h) \/ ChecksTask(h)
  PROVE  PlanPasses(h) \/ TaskPasses(h) \/ Paused(h) \/ NotPaused(h)
<1> DEFINE w == runner[h].w
<1>1. w \in Workflows /\ time \in [Tasks -> Times]
  BY DEF Typed, Places, Runner, Columns
<1>2. CASE ChecksPlan(h)
  <2> DEFINE p == NearestPair(w)
  <2>1. CASE Pairs(w) # {} /\ ~Acknowledged(Fingerprint(p[1], p[2]))
    <3>1. p \in Pairs(w)
      BY <1>1, <2>1, NearestPairIn
    <3> HIDE DEF p
    <3>2. p[1] \in Tasks /\ p[2] \in Tasks /\ Of(p[1]) = w
      BY <1>1, <3>1, PairsTyped
    <3>3. runner[h].at = "intra" /\ Warns(h, w, p[1], p[2])
      BY <1>2, <2>1 DEF ChecksPlan, p
    <3>4. QED
      BY <2>1, <3>2, <3>3 DEF Warns, Paused, NotPaused
  <2>2. CASE ~(Pairs(w) # {} /\ ~Acknowledged(Fingerprint(p[1], p[2])))
    BY <1>2, <2>2 DEF ChecksPlan, PlanPasses
  <2>3. QED
    BY <2>1, <2>2
<1>3. CASE ChecksTask(h)
  <2> DEFINE t == FirstOf(w, runner[h].todo)
             u == Nearest(t, Others(t))
  <2>1. CASE Others(t) # {} /\ ~Acknowledged(Fingerprint(t, u))
    <3>1. runner[h].at = "cross" /\ runner[h].todo # {} /\ Warns(h, w, t, u)
      BY <1>3, <2>1 DEF ChecksTask
    <3>2. t \in Tasks /\ Of(t) = w
      BY <3>1, TaskToCheck
    <3> HIDE DEF t
    <3>3. Others(t) \in SUBSET Tasks
      BY DEF Others
    <3>4. u \in Tasks
      BY <1>1, <2>1, <3>2, <3>3, NearestIn
    <3> HIDE DEF u
    <3>5. QED
      BY <2>1, <3>1, <3>2, <3>4 DEF Warns, Paused, NotPaused
  <2>2. CASE ~(Others(t) # {} /\ ~Acknowledged(Fingerprint(t, u)))
    BY <1>3, <2>2 DEF ChecksTask, TaskPasses
  <2>3. QED
    BY <2>1, <2>2
<1>4. QED
  BY <1>2, <1>3

LEMMA RunCases ==
  ASSUME ConflictAssumptions, Typed, NEW h \in Handlers, Runs(h)
  PROVE  \/ PlanPasses(h) \/ TaskPasses(h) \/ Paused(h) \/ NotPaused(h)
         \/ Begins(h) \/ Sends(h) \/ Finishes(h)
  BY CheckCases DEF Runs

LEMMA PassesTyped ==
  ASSUME ConflictAssumptions, Typed, NEW h \in Handlers, PlanPasses(h) \/ TaskPasses(h)
  PROVE  Typed'
<1> DEFINE w == runner[h].w
<1>1. w \in Workflows /\ runner[h] \in Runner
  BY DEF Typed, Places, Runner
<1>2. CASE PlanPasses(h)
  <2> DEFINE x == [runner[h] EXCEPT !.at = "cross", !.todo = Undone(w)]
  <2>1. runner' = [runner EXCEPT ![h] = x]
    BY <1>2 DEF PlanPasses
  <2>2. Undone(w) \subseteq Range(Plan[w]) /\ Undone(w) \subseteq Tasks
    BY <1>1, OfPlan DEF Undone
  <2>3. x \in Runner /\ x.at = "cross" /\ x.w = w /\ x.todo = Undone(w)
    BY <1>1, <2>2 DEF Runner, Stages
  <2> HIDE DEF x
  <2>4. Places'
    <3>1. Seat(h, x)
      BY <2>2, <2>3 DEF Seat, Answering
    <3>2. QED
      BY <2>1, <3>1, SeatTaken DEF Typed
  <2>5. \A q \in {y \in Pairs(w) : y # NearestPair(w)} : {q[1], q[2]} \in SUBSET (Tasks \cup Workflows)
    BY <1>1, PairsTyped
  <2>6. excused' \subseteq SUBSET (Tasks \cup Workflows)
    <3> DEFINE more == {{q[1], q[2]} : q \in {y \in Pairs(w) : y # NearestPair(w)}}
    <3>1. excused' = excused \cup more
      BY <1>2 DEF PlanPasses
    <3>2. more \subseteq SUBSET (Tasks \cup Workflows)
      BY <2>5
    <3> HIDE DEF more
    <3>3. QED
      BY <3>1, <3>2 DEF Typed, Columns
  <2>7. QED
    BY <1>2, <2>4, <2>6 DEF PlanPasses, Typed, Columns, Rows
<1>3. CASE TaskPasses(h)
  <2> DEFINE t == FirstOf(w, runner[h].todo)
             x == [runner[h] EXCEPT !.todo = @ \ {t}]
  <2>1. runner' = [runner EXCEPT ![h] = x]
    BY <1>3 DEF TaskPasses
  <2>2. runner[h].at = "cross" /\ t \in Tasks
    BY <1>3, TaskToCheck DEF TaskPasses
  <2> HIDE DEF t
  <2>3. x \in Runner /\ x.at = "cross" /\ x.w = w /\ x.todo \subseteq runner[h].todo
    BY <1>1, <2>2 DEF Runner
  <2> HIDE DEF x
  <2>4. Places'
    <3>1. Seat(h, x)
      BY <2>2, <2>3 DEF Seat, Answering, Typed, Places
    <3>2. QED
      BY <2>1, <3>1, SeatTaken DEF Typed
  <2>5. excused' \subseteq SUBSET (Tasks \cup Workflows)
    <3>1. excused' = excused \cup {{t, v} : v \in {y \in Others(t) : y # Nearest(t, Others(t))}}
      BY <1>3 DEF TaskPasses, t
    <3>2. Others(t) \subseteq Tasks
      BY DEF Others
    <3>3. QED
      BY <2>2, <3>1, <3>2 DEF Typed, Columns
  <2>6. QED
    BY <1>3, <2>4, <2>5 DEF TaskPasses, Typed, Columns, Rows
<1>4. QED
  BY <1>2, <1>3

LEMMA BeginsTyped ==
  ASSUME ConflictAssumptions, Typed, NEW h \in Handlers, Begins(h)
  PROVE  Typed'
<1> DEFINE w == runner[h].w
           more == {{t, u} : t \in Range(Plan[w]), u \in BeingRun(h)}
<1>1. w \in Workflows /\ \A t \in Range(Plan[w]) : t \in Tasks
  BY OfPlan DEF Typed, Places, Runner
<1>2. Places'
  BY SeatMoved DEF Begins, Typed
<1>3. more \subseteq SUBSET (Tasks \cup Workflows) /\ excused' = excused \cup more
  BY <1>1 DEF Begins, BeingRun
<1> HIDE DEF more
<1>4. Columns'
  BY <1>1, <1>3 DEF Begins, Typed, Columns
<1>5. QED
  BY <1>2, <1>4 DEF Begins, Typed, Rows

LEMMA SendsTyped ==
  ASSUME ConflictAssumptions, Typed, NEW h \in Handlers, Sends(h)
  PROVE  Typed'
<1>1. task' \in [Tasks -> {"absent", "PENDING", "WAITING_APPROVAL", "SUCCESS"} \cup Skipped]
  BY DEF Sends, Typed, Columns
<1>2. Rows' /\ Places'
  BY DEF Sends, Typed, Rows, Places, Seen
<1>3. QED
  BY <1>1, <1>2 DEF Sends, Typed, Columns

LEMMA FinishesTyped ==
  ASSUME ConflictAssumptions, Typed, NEW h \in Handlers, Finishes(h)
  PROVE  Typed'
<1>1. runner[h].w \in Workflows
  BY DEF Typed, Places, Runner
<1>2. Places'
  BY <1>1, SeatIdle, SeatTaken DEF Finishes, Typed
<1>3. QED
  BY <1>2 DEF Finishes, Typed, Rows, Columns

LEMMA SubmitsTyped ==
  ASSUME ConflictAssumptions, Typed, NEW w \in Workflows, Submits(w)
  PROVE  Typed'
<1>1. w \in Handlers
  BY DEF Handlers
<1>2. Places'
  BY <1>1, SeatIdle, SeatTaken DEF Submits, Typed
<1>3. QED
  BY <1>2 DEF Submits, Typed, Rows, Columns

\* Who answers has read an open warning of the workflow.
LEMMA LatestOpen ==
  ASSUME Typed, NEW w \in Workflows, Open(w) # {}
  PROVE  /\ Latest(w) \in DOMAIN checks /\ checks[Latest(w)] \in Row /\ checks[Latest(w)].w = w
         /\ ~checks[Latest(w)].acked
<1>1. PICK n \in Nat : DOMAIN checks = 1..n
  BY DEF Typed, Rows
<1> DEFINE upside == {n - i : i \in Open(w)}
<1>2. Open(w) \subseteq 1..n
  BY <1>1 DEF Open
<1>3. upside \in SUBSET Nat /\ upside # {}
  BY <1>2
<1>4. PICK d \in upside : \A e \in upside : d <= e
  <2> HIDE DEF upside
  <2> QED BY <1>3, Least
<1>5. PICK i \in Open(w) : d = n - i
  BY <1>4
<1>6. \A j \in Open(w) : j <= i
  <2>1. ASSUME NEW j \in Open(w) PROVE j <= i
    <3>1. n - i <= n - j
      BY <1>4, <1>5
    <3>2. i \in Int /\ j \in Int /\ n \in Int
      BY <1>2
    <3>3. QED
      BY <3>1, <3>2
  <2>2. QED
    BY <2>1
<1>7. Latest(w) \in Open(w)
  BY <1>6 DEF Latest
<1>8. QED
  BY <1>7 DEF Open, Typed, Rows

LEMMA AnswersTyped ==
  ASSUME ConflictAssumptions, Typed, NEW r \in Replies, NEW w \in Workflows, Answers(r, w)
  PROVE  /\ Typed' /\ runner'[r].w = w /\ runner'[r].check = {checks[Latest(w)]}
         /\ runner'[r].at \in {"keep", "clear"} /\ Seen(r)' = checks[Latest(w)]
<1>1. r \in Handlers /\ checks[Latest(w)] \in Row /\ checks[Latest(w)].w = w
  BY LatestOpen DEF Handlers, Answers
<1>2. PICK to \in {"keep", "clear"}, keep \in BOOLEAN :
        runner' = [runner EXCEPT ![r] = [Idle(to, w) EXCEPT !.check = {checks[Latest(w)]}, !.keep = keep]]
  BY DEF Answers
<1> DEFINE x == [Idle(to, w) EXCEPT !.check = {checks[Latest(w)]}, !.keep = keep]
<1>3. x \in Runner /\ x.at = to /\ x.w = w /\ x.check = {checks[Latest(w)]}
  BY <1>1 DEF Idle, Runner, Stages
<1> HIDE DEF x
<1>4. Seat(r, x)
  BY <1>1, <1>3 DEF Seat, Answering
<1>5. runner' = [runner EXCEPT ![r] = x]
  BY <1>2 DEF x
<1>6. Places'
  BY <1>1, <1>4, <1>5, SeatTaken DEF Typed
<1>7. runner'[r] = x
  BY <1>1, <1>5 DEF Typed, Places
<1>8. Seen(r)' = checks[Latest(w)]
  BY <1>3, <1>7 DEF Seen
<1>9. QED
  BY <1>3, <1>6, <1>7, <1>8 DEF Answers, Typed, Rows, Columns

LEMMA KeepsBothTyped ==
  ASSUME ConflictAssumptions, Typed, Distinct, NEW r \in Replies, KeepsBoth(r)
  PROVE  Typed'
<1>1. RowsKeep /\ r \in Handlers
  BY RowsClaimed DEF Handlers
<1>2. Places'
  BY <1>1, SeatAnswering, SeatMoved DEF KeepsBoth, Typed, Answering
<1>3. excused' \subseteq SUBSET (Tasks \cup Workflows)
  <2>1. \A i \in Claimable(r) : checks[i].w \in Workflows
    BY DEF Claimable, Typed, Rows, Row
  <2>2. QED
    BY <2>1 DEF KeepsBoth, Typed, Columns
<1>4. QED
  BY <1>1, <1>2, <1>3 DEF KeepsBoth, Typed, Columns, RowsKeep

LEMMA SeenRow ==
  ASSUME ConflictAssumptions, Typed, NEW r \in Replies, runner[r].at \in Answering
  PROVE  /\ Seen(r) \in Row /\ Seen(r).w = runner[r].w /\ Seen(r).w \in Workflows
         /\ Seen(r).task \in Tasks /\ Seen(r).other \in Tasks
         /\ Of(Seen(r).task) = Seen(r).w /\ Of(Seen(r).other) = Seen(r).wb
         /\ Target(r) \in Tasks /\ Of(Target(r)) \in Workflows
<1>1. r \in Handlers
  BY DEF Handlers
<1>2. Seen(r) \in Row /\ Seen(r).w = runner[r].w
  BY <1>1 DEF Typed, Places, Runner
<1>3. QED
  BY <1>2, OfPlan DEF Row, Target

LEMMA ResumesTyped ==
  ASSUME ConflictAssumptions, Typed, NEW r \in Replies, Resumes(r)
  PROVE  Typed'
<1>1. r \in Handlers
  BY DEF Handlers
<1>2. Places'
  BY <1>1, SeatMoved DEF Resumes, Typed
<1>3. QED
  BY <1>1, <1>2 DEF Resumes, Typed, Rows, Columns

LEMMA ClearsTyped ==
  ASSUME ConflictAssumptions, Typed, Distinct, NEW r \in Replies, Clears(r)
  PROVE  Typed'
<1>1. RowsKeep /\ r \in Handlers
  BY RowsCleared DEF Handlers
<1>2. Places'
  BY <1>1, SeatAnswering DEF Clears, Typed, Answering
<1>3. excused' \subseteq SUBSET (Tasks \cup Workflows)
  BY <1>1 DEF Clears, Typed, Columns, Places, Runner
<1>4. QED
  BY <1>1, <1>2, <1>3 DEF Clears, Typed, Columns, RowsKeep

LEMMA RepairsTyped ==
  ASSUME ConflictAssumptions, Typed, NEW r \in Replies, Repairs(r)
  PROVE  Typed'
<1>1. r \in Handlers /\ runner[r].w \in Workflows
  BY DEF Handlers, Typed, Places, Runner
<1>2. Places'
  BY <1>1, SeatIdle, SeatTaken DEF Repairs, Typed
<1>3. Target(r) \in Tasks
  BY SeenRow DEF Repairs, Answering
<1>4. QED
  BY <1>2, <1>3 DEF Repairs, Typed, Rows, Columns

LEMMA MovesAppointmentTyped ==
  ASSUME ConflictAssumptions, Typed, NEW t \in Tasks, MovesAppointment(t)
  PROVE  Typed'
<1>1. excused' \subseteq SUBSET (Tasks \cup Workflows)
  <2>1. \A x \in Range(Plan[Of(t)]) : x \in Tasks
    BY OfPlan
  <2> DEFINE more == {{x, y} : x \in Range(Plan[Of(t)]), y \in Tasks}
  <2>2. more \subseteq SUBSET (Tasks \cup Workflows)
    BY <2>1
  <2>3. excused' \in {excused, excused \cup more}
    BY DEF MovesAppointment
  <2> HIDE DEF more
  <2>4. QED
    BY <2>2, <2>3 DEF Typed, Columns
<1>2. task' \in [Tasks -> {"absent", "PENDING", "WAITING_APPROVAL", "SUCCESS"} \cup Skipped]
  BY DEF MovesAppointment, Typed, Columns
<1>3. time' \in [Tasks -> Times]
  BY DEF MovesAppointment, Typed, Columns
<1>4. moves' \in 0..MaxMoves
  BY DEF MovesAppointment, Typed, Columns, ConflictAssumptions
<1>5. wf' \in [Workflows -> {"none", "PENDING", "RUNNING", "WAITING_APPROVAL", "SUCCESS", "FAILED", "CANCELLED"}]
      /\ hint' \subseteq Tasks
  BY DEF MovesAppointment, Typed, Columns
<1>6. Rows' /\ Places' /\ crashes' \in 0..MaxCrashes
  BY DEF MovesAppointment, Typed, Columns, Rows, Places, Seen
<1>7. QED
  BY <1>1, <1>2, <1>3, <1>4, <1>5, <1>6 DEF Typed, Columns

LEMMA EndsTyped ==
  ASSUME ConflictAssumptions, Typed, NEW w \in Workflows, Stops(w) \/ Sweeps(w)
  PROVE  Typed'
<1>1. Rows' /\ Places'
  BY DEF Stops, Sweeps, Typed, Rows, Places, Seen
<1>2. Columns'
  BY DEF Stops, Sweeps, Typed, Columns, Skipped
<1>3. QED
  BY <1>1, <1>2 DEF Typed

LEMMA CrashTyped ==
  ASSUME ConflictAssumptions, Typed, Crash
  PROVE  Typed'
<1>1. \A h \in Handlers : runner[h] \in Runner /\ runner[h].w \in Workflows
  BY DEF Typed, Places, Runner
<1>2. \A h \in Handlers : runner'[h] = IF runner[h].at = "new" THEN runner[h] ELSE Idle("done", runner[h].w)
  BY DEF Crash
<1>3. \A h \in Handlers : runner'[h] \in Runner /\ runner'[h].at \in {"new", "done"}
  <2>1. \A h \in Handlers : /\ Idle("done", runner[h].w) \in Runner
                            /\ Idle("done", runner[h].w).at = "done"
    BY <1>1, SeatIdle DEF Seat, Idle
  <2>2. QED
    BY <1>1, <1>2, <2>1
<1>4. Places'
  BY <1>3 DEF Crash, Places, Answering
<1>5. excused' \subseteq SUBSET (Tasks \cup Workflows)
  <2>1. \A r \in Replies : r \in Handlers
    BY DEF Handlers
  <2>2. QED
    BY <1>1, <2>1 DEF Crash, Typed, Columns
<1>6. Columns'
  <2>1. crashes' \in 0..MaxCrashes
    BY DEF Crash, Typed, Columns, ConflictAssumptions
  <2>2. QED
    BY <1>5, <2>1 DEF Crash, Typed, Columns
<1>7. QED
  BY <1>4, <1>6 DEF Crash, Typed, Rows

LEMMA InitTyped ==
  ASSUME ConflictAssumptions, Init
  PROVE  Typed /\ Distinct
<1>1. (CHOOSE w \in Workflows : TRUE) \in Workflows
  BY DEF ConflictAssumptions
<1>2. \A h \in Handlers : runner[h] \in Runner /\ runner[h].at = "new"
  BY <1>1 DEF Init, Idle, Runner, Stages
<1>3. Places
  BY <1>2 DEF Init, Places, Answering
<1>4. QED
  BY <1>3 DEF Init, Typed, Rows, Columns, Distinct, ConflictAssumptions

-------------------------------------------------------------------------------
(* One run of a workflow at a time *)

Busy(h, w) == runner[h].w = w /\ runner[h].at \in {"intra", "cross", "go", "resume"}
\* A pair with which somebody may still win the right to run w.
Ticket(w, f) ==
  /\ ~Acknowledged(f)
  /\ \/ \E i \in DOMAIN checks : checks[i].w = w /\ checks[i].fp = f
     \/ \E r \in Replies : runner[r].at = "keep" /\ runner[r].w = w /\ Seen(r).fp = f

OneRun == \A g, h \in Handlers : \A w \in Workflows : Busy(g, w) /\ Busy(h, w) => g = h
OneTicket == \A w \in Workflows : \A f, g : Ticket(w, f) /\ Ticket(w, g) => f = g
NoneMeanwhile ==
  \A w \in Workflows : \A f : Ticket(w, f) => wf[w] # "none" /\ \A h \in Handlers : ~Busy(h, w)
NotBegun == \A w \in Workflows : \A h \in Handlers : wf[w] = "none" => ~Busy(h, w)
AInv == Typed /\ Distinct /\ OneRun /\ OneTicket /\ NoneMeanwhile /\ NotBegun

\* A step after which nobody has a right he did not have before.
NoNewTicket == \A w \in Workflows : \A f : Ticket(w, f)' => Ticket(w, f)
NobodyStarts == \A h \in Handlers : \A w \in Workflows : Busy(h, w)' => Busy(h, w)
Calm ==
  /\ NoNewTicket /\ NobodyStarts
  /\ \A w \in Workflows : wf'[w] = "none" => wf[w] = "none"

LEMMA CalmAlone == ASSUME AInv, Calm, Typed', Distinct' PROVE AInv'
<1>1. OneRun'
  BY DEF AInv, OneRun, Calm, NobodyStarts
<1>2. OneTicket'
  BY DEF AInv, OneTicket, Calm, NoNewTicket
<1>3. NoneMeanwhile'
  BY DEF AInv, NoneMeanwhile, Calm, NoNewTicket, NobodyStarts
<1>4. NotBegun'
  BY DEF AInv, NotBegun, Calm, NobodyStarts
<1>5. QED
  BY <1>1, <1>2, <1>3, <1>4 DEF AInv

LEMMA RowsDistinct == RowsKeep => Distinct'
  BY DEF RowsKeep

\* Nothing about the right to run changes while rows, stages and answers stay.
LEMMA StaysCalm ==
  ASSUME UNCHANGED checks,
         \A h \in Handlers : \/ runner'[h].at = "done"
                             \/ runner'[h] = runner[h]
                             \/ /\ runner'[h].w = runner[h].w /\ runner'[h].at # "keep"
                                /\ runner'[h].at \in {"intra", "cross", "go", "resume"}
                                     => runner[h].at \in {"intra", "cross", "go", "resume"},
         \A w \in Workflows : wf'[w] = "none" => wf[w] = "none"
  PROVE  Calm
<1>1. NobodyStarts
  BY DEF NobodyStarts, Busy
<1>2. \A f : Acknowledged(f)' <=> Acknowledged(f)
  BY DEF Acknowledged
<1>3. \A r \in Replies : runner'[r].at = "keep" => runner'[r] = runner[r] /\ Seen(r)' = Seen(r)
  BY DEF Handlers, Seen
<1>4. NoNewTicket
  BY <1>2, <1>3 DEF NoNewTicket, Ticket
<1>5. QED
  BY <1>1, <1>4 DEF Calm

LEMMA PausedAlone ==
  ASSUME ConflictAssumptions, AInv, NEW h \in Handlers, Paused(h)
  PROVE  AInv'
<1>1. PICK t \in Tasks, u \in Tasks :
        /\ Of(t) = runner[h].w /\ runner[h].at \in {"intra", "cross"}
        /\ ~Acknowledged(Fingerprint(t, u)) /\ Pause(h, Of(t), t, u)
        /\ UNCHANGED <<time, hint, moves, crashes>>
  BY DEF Paused
<1> DEFINE w == Of(t)
           c == Check(w, t, u)
<1>2. w \in Workflows /\ c \in Row /\ c.fp = Fingerprint(t, u) /\ c.w = w /\ c.acked = FALSE
  BY OfPlan, CheckRow DEF AInv, Typed
<1>3. Typed' /\ RowsKeep /\ Distinct'
  BY <1>1, PauseTyped, RowsDistinct DEF AInv
<1>4. \A i \in DOMAIN checks' : (i \in DOMAIN checks /\ checks'[i] = checks[i]) \/ checks'[i] = c
  <2>1. checks' = IF Recorded(c.fp) THEN checks ELSE Append(checks, c)
    BY <1>1, <1>2 DEF Pause
  <2> HIDE DEF c
  <2>2. QED
    BY <1>2, <2>1, RowsWarned DEF AInv, Typed
<1>5. /\ runner'[h].at = "done" /\ \A g \in Handlers : g # h => runner'[g] = runner[g]
      /\ \A r \in Replies : runner'[r].at = "keep" => runner'[r] = runner[r] /\ Seen(r)' = Seen(r)
  BY <1>1 DEF Pause, Idle, AInv, Typed, Places, Seen, Handlers
<1>6. \A g \in Handlers : \A v \in Workflows : Busy(g, v)' => Busy(g, v) /\ g # h
  BY <1>5 DEF Busy
<1>7. Busy(h, w)
  BY <1>1 DEF Busy
<1>8. \A g \in Handlers : ~Busy(g, w)'
  BY <1>2, <1>6, <1>7 DEF AInv, OneRun
<1>9. \A f : Acknowledged(f) => Acknowledged(f)'
  BY <1>3 DEF RowsKeep
<1> HIDE DEF c
<1>10. \A v \in Workflows : \A f : Ticket(v, f)' => Ticket(v, f) \/ (v = w /\ f = c.fp)
  BY <1>2, <1>4, <1>5, <1>9 DEF Ticket
<1>11. \A f : ~Ticket(w, f)
  BY <1>2, <1>7 DEF AInv, NoneMeanwhile
<1>12. wf'[w] = "WAITING_APPROVAL" /\ \A v \in Workflows : v # w => wf'[v] = wf[v]
  BY <1>1, <1>2 DEF Pause, AInv, Typed, Columns
<1> HIDE DEF w
<1>13. OneRun'
  BY <1>6 DEF AInv, OneRun
<1>14. OneTicket'
  BY <1>10, <1>11 DEF AInv, OneTicket
<1>15. NoneMeanwhile'
  BY <1>6, <1>8, <1>10, <1>12 DEF AInv, NoneMeanwhile
<1>16. NotBegun'
  BY <1>6, <1>12 DEF AInv, NotBegun
<1>17. QED
  BY <1>3, <1>13, <1>14, <1>15, <1>16 DEF AInv

LEMMA SubmitsAlone ==
  ASSUME ConflictAssumptions, AInv, NEW w \in Workflows, Submits(w)
  PROVE  AInv'
<1>1. Typed' /\ Distinct'
  BY SubmitsTyped, RowsSame, RowsDistinct DEF AInv, Typed, Submits
<1>2. /\ runner'[w] = Idle("intra", w) /\ \A g \in Handlers : g # w => runner'[g] = runner[g]
      /\ w \in Handlers /\ w \notin Replies
  BY DEF Submits, AInv, Typed, Places, Handlers, ConflictAssumptions
<1>3. \A g \in Handlers : \A v \in Workflows : Busy(g, v)' => Busy(g, v) \/ (g = w /\ v = w)
  BY <1>2 DEF Busy, Idle
<1>4. \A r \in Replies : runner'[r] = runner[r] /\ Seen(r)' = Seen(r)
  BY <1>2 DEF Handlers, Seen
<1>5. \A v \in Workflows : \A f : Ticket(v, f)' => Ticket(v, f)
  BY <1>4 DEF Ticket, Submits, Acknowledged
<1>6. wf[w] = "none" /\ wf'[w] = "PENDING" /\ \A v \in Workflows : v # w => wf'[v] = wf[v]
  BY DEF Submits, AInv, Typed, Columns
<1>7. OneRun'
  BY <1>3, <1>6 DEF AInv, OneRun, NotBegun
<1>8. OneTicket'
  BY <1>5 DEF AInv, OneTicket
<1>9. NoneMeanwhile'
  BY <1>3, <1>5, <1>6 DEF AInv, NoneMeanwhile
<1>10. NotBegun'
  BY <1>3, <1>6 DEF AInv, NotBegun
<1>11. QED
  BY <1>1, <1>7, <1>8, <1>9, <1>10 DEF AInv

LEMMA KeepsBothAlone ==
  ASSUME ConflictAssumptions, AInv, NEW r \in Replies, KeepsBoth(r)
  PROVE  AInv'
<1> DEFINE w == runner[r].w
           f == Seen(r).fp
<1>1. Typed' /\ RowsKeep /\ Distinct' /\ r \in Handlers
  BY KeepsBothTyped, RowsClaimed, RowsDistinct DEF AInv, Handlers
<1>2. w \in Workflows /\ runner[r].at = "keep"
  BY <1>1 DEF KeepsBoth, AInv, Typed, Places, Runner
<1>3. /\ runner'[r].w = w /\ runner'[r].at = IF Claimable(r) = {} THEN "done" ELSE "resume"
      /\ \A g \in Handlers : g # r => runner'[g] = runner[g]
  BY <1>1 DEF KeepsBoth, Moves, AInv, Typed, Places, Runner
<1>4. \A g \in Handlers : \A v \in Workflows :
        Busy(g, v)' => Busy(g, v) \/ (g = r /\ v = w /\ Claimable(r) # {})
  BY <1>3 DEF Busy
<1>5. \A s \in Replies : runner'[s].at = "keep" => runner'[s] = runner[s] /\ Seen(s)' = Seen(s)
  BY <1>3 DEF Handlers, Seen
<1>6. \A g : Acknowledged(g) => Acknowledged(g)'
  BY <1>1 DEF RowsKeep
<1>7. \A i \in DOMAIN checks' : i \in DOMAIN checks /\ checks'[i].w = checks[i].w /\ checks'[i].fp = checks[i].fp
  BY RowsClaimed DEF AInv
<1>8. NoNewTicket
  BY <1>5, <1>6, <1>7 DEF NoNewTicket, Ticket
<1>9. \A v \in Workflows : wf'[v] = wf[v]
  BY DEF KeepsBoth
<1>10. CASE Claimable(r) = {}
  <2>1. Calm
    BY <1>4, <1>8, <1>9, <1>10 DEF Calm, NobodyStarts
  <2>2. QED
    BY <1>1, <2>1, CalmAlone
<1>11. CASE Claimable(r) # {}
  <2>1. PICK i \in Claimable(r) : TRUE
    BY <1>11
  <2>2. ~Acknowledged(f)
    BY <2>1 DEF Claimable, Acknowledged, AInv, Distinct
  <2>3. Ticket(w, f)
    BY <1>2, <2>2 DEF Ticket
  <2>4. \A h \in Handlers : ~Busy(h, w)
    BY <1>2, <2>3 DEF AInv, NoneMeanwhile
  <2>5. \A g : Ticket(w, g) => g = f
    BY <1>2, <2>3 DEF AInv, OneTicket
  <2>6. \A g : g = f => Acknowledged(g)'
    BY <1>11, RowsClaimed DEF AInv
  <2>7. wf[w] # "none"
    BY <1>2, <2>3 DEF AInv, NoneMeanwhile
  <2> HIDE DEF f
  <2>8. PICK v \in Workflows : v = w
    BY <1>2
  <2> HIDE DEF w
  <2>9. \A g : ~Ticket(v, g)'
    <3>1. ASSUME NEW g, Ticket(v, g)' PROVE FALSE
      <4>1. g = f
        BY <1>8, <2>5, <2>8, <3>1 DEF NoNewTicket
      <4>2. ~(Acknowledged(g)')
        BY <3>1 DEF Ticket
      <4>3. QED
        BY <2>6, <4>1, <4>2
    <3>2. QED
      BY <3>1
  <2>14. OneRun'
    BY <1>4, <2>4 DEF AInv, OneRun
  <2>10. OneTicket'
    BY <1>8 DEF AInv, OneTicket, NoNewTicket
  <2>11. NoneMeanwhile'
    <3>1. ASSUME NEW u \in Workflows, NEW g, Ticket(u, g)' PROVE u # v /\ Ticket(u, g)
      BY <1>8, <2>9, <3>1 DEF NoNewTicket
    <3>2. ASSUME NEW u \in Workflows, NEW g, Ticket(u, g)'
          PROVE  wf'[u] # "none" /\ \A h \in Handlers : ~(Busy(h, u)')
      <4>1. u # w /\ Ticket(u, g)
        BY <2>8, <3>1, <3>2
      <4>2. QED
        BY <1>4, <1>9, <4>1 DEF AInv, NoneMeanwhile
    <3>3. QED
      BY <3>2 DEF NoneMeanwhile
  <2>12. NotBegun'
    BY <1>4, <1>9, <2>7 DEF AInv, NotBegun
  <2>13. QED
    BY <1>1, <2>14, <2>10, <2>11, <2>12 DEF AInv
<1>12. QED
  BY <1>10, <1>11

LEMMA ClearsAlone ==
  ASSUME ConflictAssumptions, AInv, NEW r \in Replies, Clears(r)
  PROVE  AInv'
<1>1. Typed' /\ RowsKeep /\ Distinct' /\ r \in Handlers
  BY ClearsTyped, RowsCleared, RowsDistinct DEF AInv, Handlers
<1>2. \A g \in Handlers : runner'[g] = runner[g] \/ runner'[g].at = "repair"
  BY <1>1 DEF Clears, Moves, AInv, Typed, Places, Runner
<1>3. NobodyStarts
  BY <1>2 DEF NobodyStarts, Busy
<1>4. \A s \in Replies : runner'[s].at = "keep" => runner'[s] = runner[s] /\ Seen(s)' = Seen(s)
  BY <1>2 DEF Handlers, Seen
<1>5. \A i \in DOMAIN checks' : \E j \in DOMAIN checks : checks'[i] = checks[j]
  BY RowsCleared DEF AInv
<1>6. \A f : Acknowledged(f) => Acknowledged(f)'
  BY <1>1 DEF RowsKeep
<1>7. NoNewTicket
  BY <1>4, <1>5, <1>6 DEF NoNewTicket, Ticket
<1>8. Calm
  BY <1>3, <1>7 DEF Calm, Clears
<1>9. QED
  BY <1>1, <1>8, CalmAlone

LEMMA AnswersAlone ==
  ASSUME ConflictAssumptions, AInv, NEW r \in Replies, NEW w \in Workflows, Answers(r, w)
  PROVE  AInv'
<1> DEFINE i == Latest(w)
<1>1. Typed' /\ Distinct' /\ r \in Handlers
  BY AnswersTyped, RowsSame, RowsDistinct DEF AInv, Typed, Handlers, Answers
<1>2. runner'[r].w = w /\ runner'[r].at \in {"keep", "clear"} /\ Seen(r)' = checks[i]
  BY AnswersTyped DEF AInv
<1>3. \A g \in Handlers : g # r => runner'[g] = runner[g]
  BY <1>1 DEF Answers, AInv, Typed, Places
<1>4. NobodyStarts
  BY <1>2, <1>3 DEF NobodyStarts, Busy
<1>5. \A s \in Replies : s # r => runner'[s] = runner[s] /\ Seen(s)' = Seen(s)
  BY <1>3 DEF Handlers, Seen
<1>6. i \in DOMAIN checks /\ checks[i].w = w
  BY LatestOpen DEF AInv, Answers
<1> HIDE DEF i
<1>7. checks' = checks /\ \A f : Acknowledged(f)' <=> Acknowledged(f)
  BY DEF Answers, Acknowledged
<1>8. NoNewTicket
  BY <1>2, <1>5, <1>6, <1>7 DEF NoNewTicket, Ticket
<1>9. Calm
  BY <1>4, <1>8 DEF Calm, Answers
<1>10. QED
  BY <1>1, <1>9, CalmAlone

\* Every other step is calm.
LEMMA RunsAreCalm ==
  ASSUME ConflictAssumptions, AInv, NEW h \in Handlers,
         PlanPasses(h) \/ TaskPasses(h) \/ NotPaused(h) \/ Begins(h) \/ Sends(h) \/ Finishes(h)
  PROVE  Calm /\ UNCHANGED checks
<1>1. UNCHANGED checks
  BY DEF PlanPasses, TaskPasses, NotPaused, PauseFails, Begins, Sends, Finishes
<1>2. \A g \in Handlers : g # h => runner'[g] = runner[g]
  BY DEF AInv, Typed, Places, PlanPasses, TaskPasses, NotPaused, PauseFails, Begins, Sends, Finishes, Moves
<1>3. runner[h] \in Runner
  BY DEF AInv, Typed, Places
<1>4. \/ runner'[h].at = "done"
      \/ runner'[h] = runner[h]
      \/ /\ runner'[h].w = runner[h].w /\ runner'[h].at # "keep"
         /\ runner'[h].at \in {"intra", "cross", "go", "resume"}
              => runner[h].at \in {"intra", "cross", "go", "resume"}
  <2>1. CASE PlanPasses(h)
    BY <1>3, <2>1 DEF PlanPasses, AInv, Typed, Places, Runner
  <2>2. CASE TaskPasses(h)
    BY <1>3, <2>2 DEF TaskPasses, AInv, Typed, Places, Runner
  <2>3. CASE NotPaused(h) \/ Finishes(h)
    BY <2>3 DEF NotPaused, PauseFails, Finishes, Idle, AInv, Typed, Places
  <2>4. CASE Begins(h)
    BY <1>3, <2>4 DEF Begins, Moves, AInv, Typed, Places, Runner
  <2>5. CASE Sends(h)
    BY <2>5 DEF Sends
  <2>6. QED
    BY <2>1, <2>2, <2>3, <2>4, <2>5
<1>5. \A w \in Workflows : wf'[w] = "none" => wf[w] = "none"
  BY DEF AInv, Typed, Columns, PlanPasses, TaskPasses, NotPaused, PauseFails, Begins, Sends, Finishes
<1>6. QED
  BY <1>1, <1>2, <1>4, <1>5, StaysCalm

LEMMA RepliesAreCalm ==
  ASSUME ConflictAssumptions, AInv, NEW r \in Replies, Resumes(r) \/ Repairs(r)
  PROVE  Calm /\ UNCHANGED checks
<1>1. UNCHANGED checks /\ r \in Handlers
  BY DEF Resumes, Repairs, Handlers
<1>2. \A g \in Handlers : g # r => runner'[g] = runner[g]
  BY DEF AInv, Typed, Places, Resumes, Repairs, Moves
<1>3. runner[r] \in Runner
  BY <1>1 DEF AInv, Typed, Places
<1>4. \/ runner'[r].at = "done"
      \/ /\ runner'[r].w = runner[r].w /\ runner'[r].at = "intra" /\ runner[r].at = "resume"
  <2>1. CASE Resumes(r)
    BY <1>1, <1>3, <2>1 DEF Resumes, Moves, AInv, Typed, Places, Runner
  <2>2. CASE Repairs(r)
    BY <1>1, <2>2 DEF Repairs, Idle, AInv, Typed, Places
  <2>3. QED
    BY <2>1, <2>2
<1>5. \A w \in Workflows : wf'[w] = "none" => wf[w] = "none"
  BY DEF AInv, Typed, Columns, Resumes, Repairs
<1>6. QED
  BY <1>1, <1>2, <1>4, <1>5, StaysCalm

LEMMA OthersAreCalm ==
  ASSUME ConflictAssumptions, AInv,
         (\E t \in Tasks : MovesAppointment(t)) \/ (\E w \in Workflows : Stops(w) \/ Sweeps(w)) \/ Crash
  PROVE  Calm /\ UNCHANGED checks
<1>1. UNCHANGED checks
  BY DEF MovesAppointment, Stops, Sweeps, Crash
<1>2. \A h \in Handlers : runner'[h].at = "done" \/ runner'[h] = runner[h]
  BY DEF MovesAppointment, Stops, Sweeps, Crash, Idle
<1>3. \A w \in Workflows : wf'[w] = "none" => wf[w] = "none"
  BY DEF AInv, Typed, Columns, MovesAppointment, Stops, Sweeps, Crash
<1>4. QED
  BY <1>1, <1>2, <1>3, StaysCalm

LEMMA AloneStep ==
  ASSUME ConflictAssumptions, AInv, [Next]_vars
  PROVE  AInv'
<1>1. ASSUME Calm, UNCHANGED checks, Typed' PROVE AInv'
  BY <1>1, CalmAlone, RowsSame, RowsDistinct DEF AInv, Typed
<1>2. ASSUME NEW h \in Handlers, Runs(h) PROVE AInv'
  <2>1. CASE Paused(h)
    BY <2>1, PausedAlone
  <2>2. CASE NotPaused(h)
    BY <1>1, <2>2, RunsAreCalm, PauseFailsTyped DEF AInv, Typed, Places, Runner, NotPaused
  <2>3. CASE PlanPasses(h) \/ TaskPasses(h)
    BY <1>1, <2>3, RunsAreCalm, PassesTyped DEF AInv
  <2>4. CASE Begins(h) \/ Sends(h) \/ Finishes(h)
    BY <1>1, <2>4, RunsAreCalm, BeginsTyped, SendsTyped, FinishesTyped DEF AInv
  <2>5. QED
    BY <1>2, <2>1, <2>2, <2>3, <2>4, CheckCases DEF Runs, AInv
<1>3. ASSUME NEW r \in Replies, Replied(r) PROVE AInv'
  <2>1. CASE \E w \in Workflows : Answers(r, w)
    BY <2>1, AnswersAlone
  <2>2. CASE KeepsBoth(r) \/ Clears(r)
    BY <2>2, KeepsBothAlone, ClearsAlone
  <2>3. CASE Resumes(r) \/ Repairs(r)
    BY <1>1, <2>3, RepliesAreCalm, ResumesTyped, RepairsTyped DEF AInv
  <2>4. QED
    BY <1>3, <2>1, <2>2, <2>3 DEF Replied
<1>4. ASSUME NEW t \in Tasks, MovesAppointment(t) PROVE AInv'
  BY <1>1, <1>4, OthersAreCalm, MovesAppointmentTyped DEF AInv
<1>5. ASSUME NEW w \in Workflows, Stops(w) \/ Sweeps(w) PROVE AInv'
  BY <1>1, <1>5, OthersAreCalm, EndsTyped DEF AInv
<1>6. CASE Crash
  BY <1>1, <1>6, OthersAreCalm, CrashTyped DEF AInv
<1>7. CASE UNCHANGED vars
  <2>1. Typed'
    <3>1. Rows' /\ Columns'
      BY <1>7 DEF vars, AInv, Typed, Rows, Columns
    <3>2. Places'
      BY <1>7 DEF vars, AInv, Typed, Places, Seen
    <3>3. QED
      BY <3>1, <3>2 DEF Typed
  <2>2. Calm
    BY <1>7, StaysCalm DEF vars
  <2>3. QED
    BY <1>1, <1>7, <2>1, <2>2 DEF vars
<1>8. QED
  BY <1>2, <1>3, <1>4, <1>5, <1>6, <1>7, SubmitsAlone DEF Next

LEMMA AloneInit == ASSUME ConflictAssumptions, Init PROVE AInv
<1>1. Typed /\ Distinct
  BY InitTyped
<1>2. \A h \in Handlers : runner[h].at = "new"
  BY DEF Init, Idle
<1>3. checks = <<>> /\ \A r \in Replies : runner[r].at # "keep"
  BY <1>2 DEF Init, Handlers
<1>4. QED
  BY <1>1, <1>2, <1>3 DEF AInv, OneRun, OneTicket, NoneMeanwhile, NotBegun, Busy, Ticket

\* All variables keep their types, and a warning is about a task of its own workflow.
THEOREM ScheduleTyped == ConflictSpec => []ScheduleTypeOK
<1>1. ASSUME AInv PROVE ScheduleTypeOK
  <2>1. ASSUME NEW i \in DOMAIN checks
        PROVE  checks[i].fp \subseteq Tasks \X Times /\ checks[i].task \in Range(Plan[checks[i].w])
    <3>1. checks[i] \in Row
      BY <1>1 DEF AInv, Typed, Rows
    <3>2. QED
      BY <3>1, OfPlan, ConflictAssumptions DEF Row
  <2>2. \A h \in Handlers : runner[h].w \in Workflows /\ runner[h].todo \subseteq Tasks
    BY <1>1 DEF AInv, Typed, Places, Runner
  <2>3. QED
    BY <1>1, <2>1, <2>2 DEF AInv, Typed, Columns, ScheduleTypeOK
<1>2. Init => AInv
  BY AloneInit, ConflictAssumptions
<1>3. AInv /\ [Next]_vars => AInv'
  BY AloneStep, ConflictAssumptions
<1>4. QED
  BY <1>1, <1>2, <1>3, PTL DEF ConflictSpec

\* Two handlers never run one workflow at once: neither two answers to a warning, nor an
\* answer and the first job, whatever is cleared in between (claim_conflict_ack).
THEOREM OneRunOfEach == ConflictSpec => []RunsAlone
<1>1. ASSUME AInv PROVE RunsAlone
  <2>1. \A h \in Handlers : runner[h].w \in Workflows
    BY <1>1 DEF AInv, Typed, Places, Runner
  <2>2. QED
    BY <1>1, <2>1 DEF AInv, OneRun, Busy, RunsAlone, Running
<1>2. Init => AInv
  BY AloneInit, ConflictAssumptions
<1>3. AInv /\ [Next]_vars => AInv'
  BY AloneStep, ConflictAssumptions
<1>4. QED
  BY <1>1, <1>2, <1>3, PTL DEF ConflictSpec

-------------------------------------------------------------------------------
(* A paused workflow has a warning to answer *)

Waiting(w) == wf[w] = "WAITING_APPROVAL"
Handled(w) == \E r \in Replies : runner[r].w = w /\ runner[r].at \in {"resume", "repair"}
RunningIsNotWaiting == \A h \in Handlers : Running(h) => ~Waiting(runner[h].w)
WaitingCanBeAnswered ==
  \A w \in Workflows : Waiting(w) /\ {w} \notin excused /\ ~Handled(w) => Open(w) # {}
\* The appointment that is moved is one of the workflow that waits, or that one is left behind.
RepairsOwn ==
  \A r \in Replies : runner[r].at = "repair" /\ runner[r].keep =>
    Seen(r).wb = runner[r].w \/ {runner[r].w} \in excused
PInv == AInv /\ RunningIsNotWaiting /\ WaitingCanBeAnswered /\ RepairsOwn

\* What the steps have in common that neither write a warning nor take one away.
Quiet ==
  /\ UNCHANGED checks /\ excused \subseteq excused'
  /\ \A w \in Workflows : Waiting(w)' => Waiting(w)
  /\ \A r \in Replies : runner[r].at \in {"resume", "repair"} =>
       \/ runner'[r] = runner[r] \/ {runner[r].w} \in excused'
       \/ \A w \in Workflows : w = runner[r].w => ~(Waiting(w)')
  /\ \A h \in Handlers : runner'[h].at \in {"intra", "cross", "go"} =>
       \/ Running(h) /\ runner'[h].w = runner[h].w
       \/ \A w \in Workflows : w = runner'[h].w => ~(Waiting(w)')
  /\ \A r \in Replies : runner'[r].at = "repair" => runner'[r] = runner[r]

LEMMA QuietPauses == ASSUME PInv, AInv', Quiet PROVE PInv'
<1>1. \A h \in Handlers : runner[h].w \in Workflows /\ runner'[h].w \in Workflows
  BY DEF PInv, AInv, Typed, Places, Runner
<1>2. RunningIsNotWaiting'
  <2>1. ASSUME NEW h \in Handlers, Running(h)', NEW w \in Workflows, w = runner'[h].w PROVE ~(Waiting(w)')
    BY <1>1, <2>1 DEF PInv, RunningIsNotWaiting, Quiet, Running
  <2>2. QED
    BY <1>1, <2>1 DEF RunningIsNotWaiting, Waiting
<1>3. WaitingCanBeAnswered'
  <2>1. ASSUME NEW w \in Workflows, Waiting(w)', {w} \notin excused', ~(Handled(w)') PROVE Open(w)' # {}
    <3>1. Waiting(w) /\ {w} \notin excused
      BY <2>1 DEF Quiet
    <3>2. ~Handled(w)
      BY <1>1, <2>1 DEF Handled, Quiet
    <3>3. Open(w) # {}
      BY <3>1, <3>2 DEF PInv, WaitingCanBeAnswered
    <3>4. QED
      BY <3>3 DEF Quiet, Open
  <2>2. QED
    BY <2>1 DEF WaitingCanBeAnswered
<1>4. RepairsOwn'
  <2>1. \A r \in Replies : runner'[r] = runner[r] => Seen(r)' = Seen(r)
    BY DEF Seen
  <2>2. QED
    BY <2>1 DEF PInv, RepairsOwn, Quiet
<1>5. QED
  BY <1>2, <1>3, <1>4 DEF PInv

LEMMA RunsAreQuiet ==
  ASSUME ConflictAssumptions, PInv, NEW h \in Handlers,
         PlanPasses(h) \/ TaskPasses(h) \/ NotPaused(h) \/ Begins(h) \/ Sends(h) \/ Finishes(h)
  PROVE  Quiet
<1>1. runner[h] \in Runner /\ runner[h].w \in Workflows
  BY DEF PInv, AInv, Typed, Places, Runner
<1>2. \A g \in Handlers : g # h => runner'[g] = runner[g]
  BY DEF PInv, AInv, Typed, Places, PlanPasses, TaskPasses, NotPaused, PauseFails, Begins, Sends, Finishes, Moves
<1>3. /\ runner[h].at \in {"intra", "cross", "go"}
      /\ runner'[h].at \in {"cross", "go", "done"} /\ runner'[h].w = runner[h].w
  <2>1. CASE PlanPasses(h)
    BY <1>1, <2>1 DEF PlanPasses, PInv, AInv, Typed, Places, Runner
  <2>2. CASE TaskPasses(h)
    BY <1>1, <2>2 DEF TaskPasses, PInv, AInv, Typed, Places, Runner
  <2>3. CASE NotPaused(h) \/ Finishes(h)
    BY <2>3 DEF NotPaused, PauseFails, Finishes, Idle, PInv, AInv, Typed, Places
  <2>4. CASE Begins(h)
    BY <1>1, <2>4 DEF Begins, Moves, PInv, AInv, Typed, Places, Runner
  <2>5. CASE Sends(h)
    BY <2>5 DEF Sends
  <2>6. QED
    BY <2>1, <2>2, <2>3, <2>4, <2>5
<1>4. excused \subseteq excused' /\ UNCHANGED checks
  BY DEF PlanPasses, TaskPasses, NotPaused, PauseFails, Begins, Sends, Finishes
<1>5. \A w \in Workflows : Waiting(w)' => Waiting(w)
  BY DEF Waiting, PInv, AInv, Typed, Columns, PlanPasses, TaskPasses, NotPaused, PauseFails, Begins, Sends, Finishes
<1>6. QED
  BY <1>2, <1>3, <1>4, <1>5 DEF Quiet, Running, Handlers

LEMMA SubmitsQuiet ==
  ASSUME ConflictAssumptions, PInv, NEW w \in Workflows, Submits(w)
  PROVE  Quiet
<1>1. /\ w \in Handlers /\ w \notin Replies /\ runner'[w].at = "intra" /\ runner'[w].w = w
      /\ \A g \in Handlers : g # w => runner'[g] = runner[g]
  BY DEF Submits, Idle, Handlers, ConflictAssumptions, PInv, AInv, Typed, Places
<1>2. \A v \in Workflows : Waiting(v)' => Waiting(v) /\ v # w
  BY DEF Submits, Waiting, PInv, AInv, Typed, Columns
<1>3. QED
  BY <1>1, <1>2 DEF Quiet, Submits, Handlers, Running

LEMMA AnswersQuiet ==
  ASSUME ConflictAssumptions, PInv, NEW r \in Replies, NEW w \in Workflows, Answers(r, w)
  PROVE  Quiet
<1>1. runner'[r].at \in {"keep", "clear"} /\ runner[r].at = "new" /\ r \in Handlers
  BY AnswersTyped DEF PInv, AInv, Answers, Handlers
<1>2. \A g \in Handlers : g # r => runner'[g] = runner[g]
  BY DEF Answers, PInv, AInv, Typed, Places
<1>3. QED
  BY <1>1, <1>2 DEF Quiet, Answers, Handlers, Running, Waiting

LEMMA ResumesQuiet ==
  ASSUME ConflictAssumptions, PInv, NEW r \in Replies, Resumes(r)
  PROVE  Quiet
<1>1. r \in Handlers /\ runner[r] \in Runner /\ runner[r].w \in Workflows
  BY DEF PInv, AInv, Typed, Places, Runner, Handlers
<1>2. /\ runner'[r].at = "intra" /\ runner'[r].w = runner[r].w
      /\ \A g \in Handlers : g # r => runner'[g] = runner[g]
  BY <1>1 DEF Resumes, Moves, PInv, AInv, Typed, Places, Runner
<1>3. \A v \in Workflows : Waiting(v)' => Waiting(v) /\ v # runner[r].w
  BY <1>1 DEF Resumes, Waiting, PInv, AInv, Typed, Columns
<1>4. QED
  BY <1>1, <1>2, <1>3 DEF Quiet, Resumes, Handlers, Running

LEMMA RepairsQuiet ==
  ASSUME ConflictAssumptions, PInv, NEW r \in Replies, Repairs(r)
  PROVE  Quiet
<1>1. r \in Handlers /\ runner[r].at \in Answering
  BY DEF Handlers, Repairs, Answering
<1>2. /\ runner'[r].at = "done" /\ \A g \in Handlers : g # r => runner'[g] = runner[g]
  BY <1>1 DEF Repairs, Idle, PInv, AInv, Typed, Places
<1>3. Of(Target(r)) \in Workflows /\ Seen(r).w = runner[r].w
      /\ Of(Seen(r).task) = Seen(r).w /\ Of(Seen(r).other) = Seen(r).wb
  BY <1>1, SeenRow DEF PInv, AInv
<1>4. \A v \in Workflows : Waiting(v)' => Waiting(v) /\ v # Of(Target(r))
  BY <1>3 DEF Repairs, Waiting, PInv, AInv, Typed, Columns
<1>5. Of(Target(r)) = runner[r].w \/ {runner[r].w} \in excused
  BY <1>3 DEF Target, PInv, RepairsOwn, Repairs
<1>6. QED
  BY <1>1, <1>2, <1>4, <1>5 DEF Quiet, Repairs, Handlers, Running

LEMMA OthersAreQuiet ==
  ASSUME ConflictAssumptions, PInv,
         (\E t \in Tasks : MovesAppointment(t)) \/ (\E w \in Workflows : Stops(w) \/ Sweeps(w))
  PROVE  Quiet
<1>1. UNCHANGED <<checks, runner>> /\ excused \subseteq excused'
  BY DEF MovesAppointment, Stops, Sweeps
<1>2. \A v \in Workflows : Waiting(v)' => Waiting(v)
  BY DEF MovesAppointment, Stops, Sweeps, Waiting, PInv, AInv, Typed, Columns
<1>3. QED
  BY <1>1, <1>2 DEF Quiet, Running

LEMMA CrashQuiet ==
  ASSUME ConflictAssumptions, PInv, Crash
  PROVE  Quiet
<1>1. UNCHANGED <<checks, wf>> /\ excused \subseteq excused'
  BY DEF Crash
<1>2. \A h \in Handlers : runner'[h].at \in {"new", "done"}
  BY DEF Crash, Idle
<1>3. \A r \in Replies : runner[r].at \in {"resume", "repair"} => {runner[r].w} \in excused'
  BY DEF Crash
<1>4. QED
  BY <1>1, <1>2, <1>3 DEF Quiet, Running, Waiting, Handlers

LEMMA PausedPauses ==
  ASSUME ConflictAssumptions, PInv, NEW h \in Handlers, Paused(h)
  PROVE  PInv'
<1>1. PICK t \in Tasks, u \in Tasks :
        /\ Of(t) = runner[h].w /\ runner[h].at \in {"intra", "cross"}
        /\ ~Acknowledged(Fingerprint(t, u)) /\ Pause(h, Of(t), t, u)
        /\ UNCHANGED <<time, hint, moves, crashes>>
  BY DEF Paused
<1> DEFINE f == Fingerprint(t, u)
<1>2. PICK w \in Workflows : w = Of(t)
  BY OfPlan
<1>3. PICK c \in Row : c = Check(w, t, u) /\ c.fp = f /\ c.w = w /\ c.acked = FALSE
  BY <1>2, CheckRow DEF PInv, AInv, Typed
<1>4. AInv'
  BY PausedAlone DEF PInv
<1>5. /\ \A i \in DOMAIN checks : i \in DOMAIN checks' /\ checks'[i] = checks[i]
      /\ ~Recorded(f) => \E i \in DOMAIN checks' : checks'[i] = c
  BY <1>1, <1>2, <1>3, RowsWarned DEF Pause, PInv, AInv, Typed
<1>6. /\ runner'[h].at = "done" /\ runner'[h].w = w /\ runner[h].w = w
      /\ \A g \in Handlers : g # h => runner'[g] = runner[g]
  BY <1>1, <1>2 DEF Pause, Idle, PInv, AInv, Typed, Places
<1>7. excused \subseteq excused' /\ \A v \in Workflows : v # w => (Waiting(v)' <=> Waiting(v))
  BY <1>1, <1>2 DEF Pause, Waiting, PInv, AInv, Typed, Columns
<1>8. \A g \in Handlers : Running(g)' => g # h /\ Running(g) /\ runner[g].w # w
  <2>1. \A g \in Handlers : Running(g)' => g # h /\ Running(g)
    BY <1>6 DEF Running
  <2>2. Busy(h, w)
    BY <1>1, <1>6 DEF Busy
  <2>3. \A g \in Handlers : Running(g) /\ runner[g].w = w => Busy(g, w)
    BY DEF Running, Busy
  <2>4. QED
    BY <2>1, <2>2, <2>3 DEF PInv, AInv, OneRun
<1>9. RunningIsNotWaiting'
  <2>1. ASSUME NEW g \in Handlers, Running(g)' PROVE wf'[runner'[g].w] # "WAITING_APPROVAL"
    <3>1. runner'[g] = runner[g] /\ Running(g) /\ runner[g].w # w /\ runner[g].w \in Workflows
      BY <1>6, <1>8, <2>1 DEF PInv, AInv, Typed, Places, Runner
    <3>2. QED
      BY <1>7, <3>1 DEF PInv, RunningIsNotWaiting, Waiting
  <2>2. QED
    BY <2>1 DEF RunningIsNotWaiting, Waiting
<1>10. {w} \in excused' \/ Open(w)' # {}
  <2>1. CASE ~Recorded(f)
    BY <1>3, <1>5, <2>1 DEF Open
  <2>2. CASE \E i \in DOMAIN checks : checks[i].fp = f /\ checks[i].w # w
    BY <1>1, <1>2, <2>2 DEF Pause
  <2>3. CASE \E i \in DOMAIN checks : checks[i].fp = f /\ checks[i].w = w
    BY <1>1, <1>5, <2>3 DEF Open, Acknowledged
  <2>4. QED
    BY <2>1, <2>2, <2>3 DEF Recorded
<1>11. WaitingCanBeAnswered'
  <2>1. ASSUME NEW v \in Workflows, Waiting(v)', {v} \notin excused', ~(Handled(v)'), v # w
        PROVE  Open(v)' # {}
    <3>1. Waiting(v) /\ {v} \notin excused
      BY <1>7, <2>1
    <3>2. ~Handled(v)
      BY <1>6, <2>1 DEF Handled, Handlers
    <3>3. Open(v) # {}
      BY <3>1, <3>2 DEF PInv, WaitingCanBeAnswered
    <3>4. QED
      BY <1>5, <3>3 DEF Open
  <2>2. QED
    BY <1>10, <2>1 DEF WaitingCanBeAnswered
<1>12. RepairsOwn'
  <2>1. \A r \in Replies : runner'[r].at = "repair" => runner'[r] = runner[r] /\ Seen(r)' = Seen(r)
    BY <1>6 DEF Seen, Handlers
  <2>2. QED
    BY <1>7, <2>1 DEF PInv, RepairsOwn
<1>13. QED
  BY <1>4, <1>9, <1>11, <1>12 DEF PInv

LEMMA KeepsBothPauses ==
  ASSUME ConflictAssumptions, PInv, NEW r \in Replies, KeepsBoth(r)
  PROVE  PInv'
<1>1. AInv' /\ r \in Handlers
  BY KeepsBothAlone DEF PInv, Handlers
<1>2. PICK w \in Workflows : w = runner[r].w
  BY <1>1 DEF PInv, AInv, Typed, Places, Runner
<1>3. /\ runner[r].at = "keep"
      /\ runner'[r].w = w /\ runner'[r].at = IF Claimable(r) = {} THEN "done" ELSE "resume"
      /\ \A g \in Handlers : g # r => runner'[g] = runner[g]
  BY <1>1, <1>2 DEF KeepsBoth, Moves, PInv, AInv, Typed, Places, Runner
<1>4. /\ wf' = wf /\ excused \subseteq excused'
      /\ \A i \in Claimable(r) : checks[i].w # w => {checks[i].w} \in excused'
  BY <1>2 DEF KeepsBoth, Claimable
<1>5. \A i \in DOMAIN checks : /\ i \in DOMAIN checks'
                               /\ i \notin Claimable(r) => checks'[i] = checks[i]
  BY RowsClaimed DEF PInv, AInv
<1>6. RunningIsNotWaiting'
  <2>1. \A g \in Handlers : Running(g)' => runner'[g] = runner[g]
    BY <1>3 DEF Running
  <2>2. QED
    BY <1>4, <2>1 DEF PInv, RunningIsNotWaiting, Waiting, Running
<1>7. WaitingCanBeAnswered'
  <2>1. ASSUME NEW v \in Workflows, Waiting(v)', {v} \notin excused', ~(Handled(v)') PROVE Open(v)' # {}
    <3>1. Waiting(v) /\ {v} \notin excused
      BY <1>4, <2>1 DEF Waiting
    <3>2. ~Handled(v)
      BY <1>1, <1>3, <2>1 DEF Handled, Handlers
    <3>3. PICK i \in Open(v) : TRUE
      BY <3>1, <3>2 DEF PInv, WaitingCanBeAnswered
    <3>4. i \in DOMAIN checks /\ checks[i].w = v /\ ~checks[i].acked
      BY <3>3 DEF Open
    <3>5. CASE i \in Claimable(r)
      <4>1. v # w
        BY <1>3, <2>1, <3>5 DEF Handled
      <4>2. QED
        BY <1>4, <2>1, <3>4, <3>5, <4>1
    <3>6. CASE i \notin Claimable(r)
      BY <1>5, <3>4, <3>6 DEF Open
    <3>7. QED
      BY <3>5, <3>6
  <2>2. QED
    BY <2>1 DEF WaitingCanBeAnswered
<1>8. RepairsOwn'
  <2>1. \A s \in Replies : runner'[s].at = "repair" => runner'[s] = runner[s] /\ Seen(s)' = Seen(s)
    BY <1>3 DEF Seen, Handlers
  <2>2. QED
    BY <1>4, <2>1 DEF PInv, RepairsOwn
<1>9. QED
  BY <1>1, <1>6, <1>7, <1>8 DEF PInv

LEMMA ClearsPauses ==
  ASSUME ConflictAssumptions, PInv, NEW r \in Replies, Clears(r)
  PROVE  PInv'
<1>1. AInv' /\ r \in Handlers
  BY ClearsAlone DEF PInv, Handlers
<1>2. PICK w \in Workflows : w = runner[r].w
  BY <1>1 DEF PInv, AInv, Typed, Places, Runner
<1>3. /\ runner[r].at = "clear" /\ runner'[r].at = "repair" /\ runner'[r].w = w
      /\ runner'[r].keep = runner[r].keep /\ runner'[r].check = runner[r].check
      /\ \A g \in Handlers : g # r => runner'[g] = runner[g]
  BY <1>1, <1>2 DEF Clears, Moves, PInv, AInv, Typed, Places, Runner
<1>4. /\ wf' = wf /\ excused \subseteq excused'
      /\ runner[r].keep => Seen(r).wb = w \/ {w} \in excused'
  BY <1>2 DEF Clears
<1>5. \A j \in DOMAIN checks : Kept(checks[j], w) => \E i \in DOMAIN checks' : checks'[i] = checks[j]
  BY <1>2, RowsCleared DEF PInv, AInv
<1>6. RunningIsNotWaiting'
  <2>1. \A g \in Handlers : Running(g)' => runner'[g] = runner[g]
    BY <1>3 DEF Running
  <2>2. QED
    BY <1>4, <2>1 DEF PInv, RunningIsNotWaiting, Waiting, Running
<1>7. WaitingCanBeAnswered'
  <2>1. ASSUME NEW v \in Workflows, Waiting(v)', {v} \notin excused', ~(Handled(v)') PROVE Open(v)' # {}
    <3>1. Waiting(v) /\ {v} \notin excused
      BY <1>4, <2>1 DEF Waiting
    <3>2. v # w
      BY <1>3, <2>1 DEF Handled
    <3>3. ~Handled(v)
      BY <1>1, <1>2, <1>3, <2>1, <3>2 DEF Handled, Handlers
    <3>4. PICK i \in DOMAIN checks : checks[i].w = v /\ ~checks[i].acked
      BY <3>1, <3>3 DEF PInv, WaitingCanBeAnswered, Open
    <3>5. \E j \in DOMAIN checks' : checks'[j] = checks[i]
      BY <1>5, <3>2, <3>4 DEF Kept
    <3>6. QED
      BY <3>4, <3>5 DEF Open
  <2>2. QED
    BY <2>1 DEF WaitingCanBeAnswered
<1>8. RepairsOwn'
  <2>1. Seen(r)' = Seen(r)
    BY <1>3 DEF Seen
  <2>2. \A s \in Replies : s # r => runner'[s] = runner[s] /\ Seen(s)' = Seen(s)
    BY <1>3 DEF Seen, Handlers
  <2>3. ASSUME NEW s \in Replies, runner'[s].at = "repair", runner'[s].keep
        PROVE  Seen(s)'.wb = runner'[s].w \/ {runner'[s].w} \in excused'
    <3>1. CASE s = r
      BY <1>3, <1>4, <2>1, <2>3, <3>1
    <3>2. CASE s # r
      BY <1>4, <2>2, <2>3, <3>2 DEF PInv, RepairsOwn
    <3>3. QED
      BY <3>1, <3>2
  <2>4. QED
    BY <2>3 DEF RepairsOwn
<1>9. QED
  BY <1>1, <1>6, <1>7, <1>8 DEF PInv

LEMMA PauseStep ==
  ASSUME ConflictAssumptions, PInv, [Next]_vars
  PROVE  PInv'
<1>1. AInv'
  BY AloneStep DEF PInv
<1>2. ASSUME Quiet PROVE PInv'
  BY <1>1, <1>2, QuietPauses
<1>3. ASSUME NEW h \in Handlers, Runs(h) PROVE PInv'
  BY <1>2, <1>3, CheckCases, PausedPauses, RunsAreQuiet DEF Runs, PInv, AInv
<1>4. ASSUME NEW r \in Replies, Replied(r) PROVE PInv'
  BY <1>2, <1>4, AnswersQuiet, KeepsBothPauses, ClearsPauses, ResumesQuiet, RepairsQuiet DEF Replied
<1>5. CASE UNCHANGED vars
  <2>1. Quiet
    BY <1>5 DEF Quiet, vars, Waiting, Running
  <2>2. QED
    BY <1>2, <2>1
<1>6. QED
  BY <1>2, <1>3, <1>4, <1>5, SubmitsQuiet, OthersAreQuiet, CrashQuiet DEF Next

\* A workflow that waits with nobody at work has a warning its customer can answer,
\* apart from the four ways the code leaves it behind (save_conflict_and_pause_atomic,
\* clear_conflict_check, claim_conflict_ack, a restart).
THEOREM PausedHasAWarning == ConflictSpec => []PausedCanBeAnswered
<1>1. ASSUME PInv PROVE PausedCanBeAnswered
  <2>1. ASSUME NEW w \in Workflows, Waiting(w), {w} \notin excused,
               \A h \in Handlers : runner[h].w # w \/ runner[h].at \in {"new", "done"}
        PROVE  Open(w) # {}
    <3>1. ~Handled(w)
      BY <2>1 DEF Handled, Handlers
    <3>2. QED
      BY <1>1, <2>1, <3>1 DEF PInv, WaitingCanBeAnswered
  <2>2. QED
    BY <2>1 DEF PausedCanBeAnswered, Waiting
<1>2. Init => PInv
  <2>1. Init => \A h \in Handlers : runner[h].at = "new"
    BY DEF Init, Idle
  <2>2. Init => \A r \in Replies : runner[r].at = "new"
    BY <2>1 DEF Handlers
  <2>3. QED
    BY <2>1, <2>2, AloneInit, ConflictAssumptions
       DEF PInv, RunningIsNotWaiting, WaitingCanBeAnswered, RepairsOwn, Running, Waiting, Init
<1>3. PInv /\ [Next]_vars => PInv'
  BY PauseStep, ConflictAssumptions
<1>4. QED
  BY <1>1, <1>2, <1>3, PTL DEF ConflictSpec

-------------------------------------------------------------------------------
(* Close appointments were warned of *)

Cleared(t, u) == Close(t, u) => {t, u} \in excused \/ Acknowledged(Fingerprint(t, u))
Alive(t) == task[t] \notin Skipped
InRun(h, t) == runner[h].w = Of(t) /\ runner[h].at \in {"cross", "go"}
Passed(h, t) == InRun(h, t) /\ (runner[h].at = "cross" => t \notin runner[h].todo)
Sending(h, t) == runner[h].w = Of(t) /\ runner[h].at = "go"

PlanChecked ==
  \A h \in Handlers : \A t, u \in Tasks :
    InRun(h, t) /\ Of(t) = Of(u) /\ Alive(t) /\ Alive(u) => Cleared(t, u)
PassedAfter ==
  \A h \in Handlers : \A t, u \in Tasks :
    Passed(h, t) /\ Alive(t) /\ Of(t) # Of(u) /\ task[u] = "SUCCESS" => Cleared(t, u)
BothPassed ==
  \A g, h \in Handlers : \A t, u \in Tasks :
    Sending(g, t) /\ Alive(t) /\ Of(t) # Of(u) /\ Passed(h, u) /\ Alive(u) => Cleared(t, u)
RowsThere == \A h \in Handlers : \A t \in Tasks : Sending(h, t) => task[t] # "absent"
AllCleared == \A t, u \in Tasks : task[t] = "SUCCESS" /\ task[u] = "SUCCESS" => Cleared(t, u)
WInv == AInv /\ PlanChecked /\ PassedAfter /\ BothPassed /\ RowsThere /\ AllCleared

LEMMA ClearedBoth ==
  ASSUME ConflictAssumptions, Columns, NEW t \in Tasks, NEW u \in Tasks
  PROVE  Cleared(t, u) => Cleared(u, t)
<1>1. Gap(t, u) = Gap(u, t)
  <2>1. time[t] \in Nat /\ time[u] \in Nat
    BY DEF Columns, ConflictAssumptions
  <2>2. QED
    BY <2>1 DEF Gap
<1>2. Fingerprint(t, u) = Fingerprint(u, t) /\ {t, u} = {u, t}
  BY DEF Fingerprint
<1>3. QED
  BY <1>1, <1>2 DEF Cleared, Close

LEMMA ClearedBothNext ==
  ASSUME ConflictAssumptions, AInv', NEW t \in Tasks, NEW u \in Tasks
  PROVE  Cleared(t, u)' => Cleared(u, t)'
<1>1. time'[t] \in Nat /\ time'[u] \in Nat
  BY DEF AInv, Typed, Columns, ConflictAssumptions
<1>2. Gap(t, u)' = Gap(u, t)'
  BY <1>1 DEF Gap
<1>3. Fingerprint(t, u)' = Fingerprint(u, t)' /\ {t, u} = {u, t}
  BY DEF Fingerprint
<1>4. QED
  BY <1>2, <1>3 DEF Cleared, Close, Acknowledged

\* Steps that clear nothing, start nothing and finish nothing.
ClearedStay == \A t, u \in Tasks : Cleared(t, u) => Cleared(t, u)'
RunsStay ==
  \A h \in Handlers : \A t \in Tasks :
    /\ InRun(h, t)' /\ Alive(t)' => InRun(h, t) /\ Alive(t)
    /\ Passed(h, t)' /\ Alive(t)' => Passed(h, t) /\ Alive(t)
    /\ Sending(h, t)' => Sending(h, t)
TasksStay ==
  \A t \in Tasks : /\ task'[t] = "absent" => task[t] = "absent"
                   /\ task'[t] = "SUCCESS" => \/ task[t] = "SUCCESS"
                                              \/ \A u \in Tasks : Cleared(t, u)'
Steady == ClearedStay /\ RunsStay /\ TasksStay

LEMMA SteadyWarns == ASSUME ConflictAssumptions, WInv, AInv', Steady PROVE WInv'
<1>1. \A t, u \in Tasks : Cleared(t, u)' => Cleared(u, t)'
  BY ClearedBothNext
<1>2. PlanChecked'
  BY DEF WInv, PlanChecked, Steady, ClearedStay, RunsStay, InRun
<1>3. PassedAfter'
  BY <1>1 DEF WInv, PassedAfter, Steady, ClearedStay, RunsStay, TasksStay
<1>4. BothPassed'
  BY DEF WInv, BothPassed, Steady, ClearedStay, RunsStay, Passed, InRun, Sending
<1>5. RowsThere'
  BY DEF WInv, RowsThere, Steady, RunsStay, TasksStay
<1>6. AllCleared'
  BY <1>1 DEF WInv, AllCleared, Steady, ClearedStay, TasksStay
<1>7. QED
  BY <1>2, <1>3, <1>4, <1>5, <1>6 DEF WInv

\* What is cleared stays cleared: an appointment that is moved is let through.
LEMMA ClearedGrows ==
  ASSUME ConflictAssumptions, AInv, Next
  PROVE  ClearedStay
<1>1. \A f : Acknowledged(f) => Acknowledged(f)'
  <2>1. CASE UNCHANGED checks
    BY <2>1 DEF Acknowledged
  <2>2. ASSUME NEW h \in Handlers, Paused(h) PROVE \A f : Acknowledged(f) => Acknowledged(f)'
    BY <2>2, PauseTyped DEF Paused, AInv, RowsKeep
  <2>3. ASSUME NEW r \in Replies, KeepsBoth(r) \/ Clears(r) PROVE \A f : Acknowledged(f) => Acknowledged(f)'
    BY <2>3, RowsClaimed, RowsCleared DEF AInv, RowsKeep
  <2>4. ASSUME NEW h \in Handlers, Runs(h) PROVE UNCHANGED checks \/ Paused(h)
    <3>1. CASE PlanPasses(h) \/ TaskPasses(h) \/ NotPaused(h)
      BY <3>1 DEF PlanPasses, TaskPasses, NotPaused, PauseFails
    <3>2. CASE Begins(h) \/ Sends(h) \/ Finishes(h)
      BY <3>2 DEF Begins, Sends, Finishes
    <3>3. QED
      BY <2>4, <3>1, <3>2, RunCases DEF AInv
  <2>5. ASSUME NEW r \in Replies, Replied(r) PROVE UNCHANGED checks \/ KeepsBoth(r) \/ Clears(r)
    BY <2>5 DEF Replied, Answers, Resumes, Repairs
  <2>6. ASSUME NEW w \in Workflows, Submits(w) \/ Stops(w) \/ Sweeps(w) PROVE UNCHANGED checks
    BY <2>6 DEF Submits, Stops, Sweeps
  <2>7. ASSUME NEW t \in Tasks, MovesAppointment(t) PROVE UNCHANGED checks
    BY <2>7 DEF MovesAppointment
  <2>8. CASE Crash
    BY <2>1, <2>8 DEF Crash
  <2>9. QED
    BY <2>1, <2>2, <2>3, <2>4, <2>5, <2>6, <2>7, <2>8 DEF Next
<1>2. excused \subseteq excused'
  <2>1. ASSUME NEW h \in Handlers, Runs(h) PROVE excused \subseteq excused'
    <3>1. CASE PlanPasses(h) \/ TaskPasses(h) \/ NotPaused(h)
      BY <3>1 DEF PlanPasses, TaskPasses, NotPaused, PauseFails
    <3>2. CASE Paused(h)
      BY <3>2 DEF Paused, Pause
    <3>3. CASE Begins(h) \/ Sends(h) \/ Finishes(h)
      BY <3>3 DEF Begins, Sends, Finishes
    <3>4. QED
      BY <2>1, <3>1, <3>2, <3>3, RunCases DEF AInv
  <2>2. ASSUME NEW r \in Replies, Replied(r) PROVE excused \subseteq excused'
    BY <2>2 DEF Replied, Answers, KeepsBoth, Resumes, Clears, Repairs
  <2>3. ASSUME NEW w \in Workflows, Submits(w) \/ Stops(w) \/ Sweeps(w) PROVE excused \subseteq excused'
    BY <2>3 DEF Submits, Stops, Sweeps
  <2>4. ASSUME NEW t \in Tasks, MovesAppointment(t) PROVE excused \subseteq excused'
    BY <2>4 DEF MovesAppointment
  <2>5. CASE Crash
    BY <2>5 DEF Crash
  <2>6. QED
    BY <2>1, <2>2, <2>3, <2>4, <2>5 DEF Next
<1>3. ASSUME NEW t \in Tasks, NEW u \in Tasks
      PROVE  (time'[t] = time[t] /\ time'[u] = time[u]) \/ {t, u} \in excused'
  <2>1. ASSUME NEW m \in Tasks, MovesAppointment(m), t \in Range(Plan[Of(m)]) \/ u \in Range(Plan[Of(m)])
        PROVE  time' = time \/ {t, u} \in excused'
    <3>1. {t, u} = {u, t}
      OBVIOUS
    <3>2. CASE task[m] = "SUCCESS"
      BY <2>1, <3>2 DEF MovesAppointment
    <3>3. CASE task[m] # "SUCCESS"
      <4>1. excused' = excused \cup {{x, y} : x \in Range(Plan[Of(m)]), y \in Tasks}
        BY <2>1, <3>3 DEF MovesAppointment
      <4>2. QED
        BY <2>1, <3>1, <4>1
    <3>4. QED
      BY <3>2, <3>3
  <2>2. ASSUME NEW m \in Tasks, MovesAppointment(m), t \notin Range(Plan[Of(m)]), u \notin Range(Plan[Of(m)])
        PROVE  time'[t] = time[t] /\ time'[u] = time[u]
    <3>1. t # m /\ u # m
      BY <2>2, OfPlan
    <3>2. QED
      BY <2>2, <3>1 DEF MovesAppointment, AInv, Typed, Columns
  <2>3. (\E m \in Tasks : MovesAppointment(m)) \/ time' = time
    <3>1. ASSUME NEW h \in Handlers, Runs(h) PROVE time' = time
      <4>1. CASE PlanPasses(h) \/ TaskPasses(h) \/ NotPaused(h)
        BY <4>1 DEF PlanPasses, TaskPasses, NotPaused
      <4>2. CASE Paused(h)
        BY <4>2 DEF Paused
      <4>3. CASE Begins(h) \/ Sends(h) \/ Finishes(h)
        BY <4>3 DEF Begins, Sends, Finishes
      <4>4. QED
        BY <3>1, <4>1, <4>2, <4>3, RunCases DEF AInv
    <3>2. ASSUME NEW r \in Replies, Replied(r) PROVE time' = time
      BY <3>2 DEF Replied, Answers, KeepsBoth, Resumes, Clears, Repairs
    <3>3. ASSUME NEW w \in Workflows, Submits(w) \/ Stops(w) \/ Sweeps(w) PROVE time' = time
      BY <3>3 DEF Submits, Stops, Sweeps
    <3>4. QED
      BY <3>1, <3>2, <3>3 DEF Next, Crash
  <2>4. QED
    BY <2>1, <2>2, <2>3
<1>4. ASSUME NEW t \in Tasks, NEW u \in Tasks, Cleared(t, u) PROVE Cleared(t, u)'
  <2>1. CASE {t, u} \in excused'
    BY <2>1 DEF Cleared
  <2>2. CASE time'[t] = time[t] /\ time'[u] = time[u]
    <3>1. Gap(t, u)' = Gap(t, u) /\ Fingerprint(t, u)' = Fingerprint(t, u)
      BY <2>2 DEF Gap, Fingerprint
    <3>2. Close(t, u)' => Close(t, u)
      BY <3>1 DEF Close
    <3>3. ASSUME Acknowledged(Fingerprint(t, u)) PROVE Acknowledged(Fingerprint(t, u))'
      <4>1. PICK f : f = Fingerprint(t, u)
        OBVIOUS
      <4>2. Acknowledged(f)'
        BY <1>1, <3>3, <4>1
      <4>3. Fingerprint(t, u)' = f
        BY <3>1, <4>1
      <4>4. QED
        BY <4>2, <4>3 DEF Acknowledged
    <3>4. QED
      BY <1>2, <1>4, <3>2, <3>3 DEF Cleared
  <2>3. QED
    BY <1>3, <2>1, <2>2
<1>5. QED
  BY <1>4 DEF ClearedStay

\* Handlers that are not in a run, or go on as they were.
LEMMA PlacesStay ==
  ASSUME \A h \in Handlers : runner'[h] = runner[h] \/ runner'[h].at \notin {"cross", "go"},
         \A h \in Handlers : \A t \in Tasks :
           runner'[h] = runner[h] /\ InRun(h, t) /\ Alive(t)' => Alive(t)
  PROVE  RunsStay
<1>1. ASSUME NEW h \in Handlers, NEW t \in Tasks, runner'[h].at \notin {"cross", "go"}
      PROVE  ~(InRun(h, t)') /\ ~(Passed(h, t)') /\ ~(Sending(h, t)')
  BY <1>1 DEF InRun, Passed, Sending
<1>2. ASSUME NEW h \in Handlers, NEW t \in Tasks, runner'[h] = runner[h]
      PROVE  (InRun(h, t)' => InRun(h, t)) /\ (Passed(h, t)' => Passed(h, t)) /\ (Sending(h, t)' => Sending(h, t))
  BY <1>2 DEF InRun, Passed, Sending
<1>3. \A h \in Handlers : \A t \in Tasks : Passed(h, t) => InRun(h, t)
  BY DEF Passed
<1>4. QED
  BY <1>1, <1>2, <1>3 DEF RunsStay

LEMMA PausedWarns ==
  ASSUME ConflictAssumptions, WInv, NEW h \in Handlers, Paused(h)
  PROVE  RunsStay /\ TasksStay
<1>1. PICK t \in Tasks, u \in Tasks :
        Of(t) = runner[h].w /\ runner[h].at \in {"intra", "cross"} /\ Pause(h, Of(t), t, u)
  BY DEF Paused
<1>2. /\ runner'[h].at = "done" /\ \A g \in Handlers : g # h => runner'[g] = runner[g]
  BY <1>1 DEF Pause, Idle, WInv, AInv, Typed, Places
<1>3. \A x \in Tasks : task'[x] = IF x = t THEN "WAITING_APPROVAL"
                                 ELSE IF Of(x) = Of(t) /\ task[x] = "absent" THEN "PENDING" ELSE task[x]
  BY <1>1 DEF Pause
<1>4. TasksStay
  BY <1>3 DEF TasksStay
<1>5. \A x \in Tasks : x # t /\ Alive(x)' => Alive(x)
  BY <1>3 DEF Alive, Skipped
<1>6. \A g \in Handlers : g # h => ~InRun(g, t)
  <2>1. Of(t) \in Workflows
    BY OfPlan
  <2>2. QED
    BY <1>1, <2>1 DEF InRun, WInv, AInv, OneRun, Busy
<1>7. RunsStay
  <2>1. \A x \in Tasks : ~(runner'[h] = runner[h] /\ InRun(h, x))
    BY <1>2 DEF InRun
  <2>2. \A g \in Handlers : \A x \in Tasks :
          runner'[g] = runner[g] /\ InRun(g, x) /\ Alive(x)' => Alive(x)
    BY <1>5, <1>6, <2>1
  <2>3. QED
    BY <1>2, <2>2, PlacesStay
<1>8. QED
  BY <1>4, <1>7

LEMMA RestWarns ==
  ASSUME ConflictAssumptions, WInv, NEW h \in Handlers, NotPaused(h) \/ Finishes(h)
  PROVE  RunsStay /\ TasksStay
<1>1. runner'[h].at = "done" /\ task' = task /\ \A g \in Handlers : g # h => runner'[g] = runner[g]
  BY DEF NotPaused, PauseFails, Finishes, Idle, WInv, AInv, Typed, Places
<1>2. QED
  BY <1>1, PlacesStay DEF TasksStay, Alive

LEMMA RepliesWarn ==
  ASSUME ConflictAssumptions, WInv, NEW r \in Replies, Replied(r)
  PROVE  RunsStay /\ TasksStay
<1>1. r \in Handlers
  BY DEF Handlers
<1>2. CASE Resumes(r)
  <2> DEFINE t == Seen(r).task
  <2>1. /\ runner'[r].at = "intra" /\ \A g \in Handlers : g # r => runner'[g] = runner[g]
    BY <1>1, <1>2 DEF Resumes, Moves, WInv, AInv, Typed, Places, Runner
  <2>2. t \in Tasks /\ Of(t) = runner[r].w /\ runner[r].at = "resume" /\ Of(t) \in Workflows
    BY <1>2, SeenRow DEF Resumes, Answering, WInv, AInv
  <2>3. task' = [task EXCEPT ![t] = "PENDING"] /\ task \in [Tasks -> {"absent", "PENDING", "WAITING_APPROVAL", "SUCCESS"} \cup Skipped]
    BY <1>2 DEF Resumes, WInv, AInv, Typed, Columns
  <2> HIDE DEF t
  <2>4. TasksStay
    BY <2>2, <2>3 DEF TasksStay
  <2>5. \A x \in Tasks : x # t /\ Alive(x)' => Alive(x)
    BY <2>2, <2>3 DEF Alive
  <2>6. \A g \in Handlers : g # r => ~InRun(g, t)
    BY <1>1, <2>2 DEF InRun, WInv, AInv, OneRun, Busy
  <2>7. \A x \in Tasks : ~InRun(r, x)
    BY <2>2 DEF InRun
  <2>8. \A g \in Handlers : \A x \in Tasks : InRun(g, x) /\ Alive(x)' => Alive(x)
    BY <2>5, <2>6, <2>7
  <2>9. RunsStay
    BY <2>1, <2>8, PlacesStay
  <2>10. QED
    BY <2>4, <2>9
<1>3. CASE ~Resumes(r)
  <2>1. task' = task
    BY <1>3 DEF Replied, Answers, KeepsBoth, Clears, Repairs
  <2>2. runner'[r].at \notin {"cross", "go"} /\ \A g \in Handlers : g # r => runner'[g] = runner[g]
    <3>1. CASE \E w \in Workflows : Answers(r, w)
      <4>1. PICK w \in Workflows : Answers(r, w)
        BY <3>1
      <4>2. \A g \in Handlers : g # r => runner'[g] = runner[g]
        BY <4>1 DEF Answers, WInv, AInv, Typed, Places
      <4>3. QED
        BY <4>1, <4>2, AnswersTyped DEF WInv, AInv
    <3>2. CASE KeepsBoth(r) \/ Clears(r)
      BY <1>1, <3>2 DEF KeepsBoth, Clears, Moves, WInv, AInv, Typed, Places, Runner
    <3>3. CASE Repairs(r)
      BY <1>1, <3>3 DEF Repairs, Idle, WInv, AInv, Typed, Places
    <3>4. QED
      BY <1>3, <3>1, <3>2, <3>3 DEF Replied
  <2>3. QED
    BY <2>1, <2>2, PlacesStay DEF TasksStay, Alive
<1>4. QED
  BY <1>2, <1>3

LEMMA SubmitsWarns ==
  ASSUME ConflictAssumptions, WInv, NEW w \in Workflows, Submits(w)
  PROVE  RunsStay /\ TasksStay
<1>1. runner'[w].at = "intra" /\ task' = task /\ \A g \in Handlers : g # w => runner'[g] = runner[g]
  BY DEF Submits, Idle, Handlers, WInv, AInv, Typed, Places
<1>2. QED
  BY <1>1, PlacesStay DEF TasksStay, Alive

LEMMA EndsWarn ==
  ASSUME ConflictAssumptions, WInv, NEW w \in Workflows, Stops(w) \/ Sweeps(w)
  PROVE  RunsStay /\ TasksStay
<1>1. runner' = runner
  BY DEF Stops, Sweeps
<1>2. \A t \in Tasks : task'[t] = task[t] \/ task'[t] = "CANCELLED"
  BY DEF Stops, Sweeps
<1>3. QED
  BY <1>1, <1>2, PlacesStay DEF TasksStay, Alive, Skipped

LEMMA MovesWarn ==
  ASSUME ConflictAssumptions, WInv, NEW m \in Tasks, MovesAppointment(m)
  PROVE  RunsStay /\ TasksStay
<1>1. runner' = runner
  BY DEF MovesAppointment
<1>2. CASE task[m] = "SUCCESS"
  <2>1. task' = task
    BY <1>2 DEF MovesAppointment
  <2>2. QED
    BY <1>1, <2>1, PlacesStay DEF TasksStay, Alive
<1>3. CASE task[m] # "SUCCESS"
  <2>1. /\ \A x \in Tasks : task'[x] = IF Of(x) = Of(m) /\ task[x] \notin Skipped THEN "SUCCESS" ELSE task[x]
        /\ excused' = excused \cup {{x, y} : x \in Range(Plan[Of(m)]), y \in Tasks}
    BY <1>3 DEF MovesAppointment
  <2>2. ASSUME NEW x \in Tasks, task'[x] = "SUCCESS", task[x] # "SUCCESS", NEW u \in Tasks
        PROVE  Cleared(x, u)'
    <3>1. x \in Range(Plan[Of(m)])
      BY <2>1, <2>2, OfPlan
    <3>2. {x, u} \in excused'
      BY <2>1, <3>1
    <3>3. QED
      BY <3>2 DEF Cleared
  <2>3. TasksStay
    BY <2>1, <2>2 DEF TasksStay
  <2>4. \A x \in Tasks : Alive(x)' => Alive(x)
    BY <2>1 DEF Alive
  <2>5. QED
    BY <1>1, <2>3, <2>4, PlacesStay
<1>4. QED
  BY <1>2, <1>3

LEMMA CrashWarns ==
  ASSUME ConflictAssumptions, WInv, Crash
  PROVE  RunsStay /\ TasksStay
<1>1. task' = task /\ \A h \in Handlers : runner'[h].at \in {"new", "done"}
  BY DEF Crash, Idle
<1>2. QED
  BY <1>1, PlacesStay DEF TasksStay, Alive

LEMMA PlanPassesWarns ==
  ASSUME ConflictAssumptions, WInv, AInv', ClearedStay, NEW h \in Handlers, PlanPasses(h)
  PROVE  WInv'
<1>1. PICK w \in Workflows : w = runner[h].w
  BY DEF WInv, AInv, Typed, Places, Runner
<1>2. /\ runner'[h].at = "cross" /\ runner'[h].w = w /\ runner'[h].todo = Undone(w)
      /\ \A g \in Handlers : g # h => runner'[g] = runner[g]
  BY <1>1 DEF PlanPasses, WInv, AInv, Typed, Places, Runner
<1>3. task' = task /\ time' = time /\ checks' = checks
  BY DEF PlanPasses
<1>4. ASSUME NEW t \in Tasks, Of(t) = w, Alive(t) PROVE t \in Undone(w)
  BY <1>4, OfPlan DEF Undone, Alive
<1>5. \A t \in Tasks : ~(Passed(h, t)' /\ Alive(t)') /\ ~(Sending(h, t)')
  BY <1>2, <1>3, <1>4 DEF Passed, InRun, Sending, Alive
<1>6. \A g \in Handlers : \A t \in Tasks : g # h =>
        /\ InRun(g, t)' => InRun(g, t)
        /\ Passed(g, t)' => Passed(g, t)
        /\ Sending(g, t)' => Sending(g, t)
  BY <1>2 DEF InRun, Passed, Sending
<1>7. \A t \in Tasks : Alive(t)' <=> Alive(t)
  BY <1>3 DEF Alive
\* Either way round the two are a pair of the plan.
<1>8. ASSUME NEW t \in Tasks, NEW u \in Tasks, Of(t) = w, Of(u) = w, Alive(t), Alive(u), Earlier(w, t, u)
      PROVE  Cleared(t, u)'
  <2> DEFINE p == NearestPair(w)
  <2>1. ASSUME Close(t, u) PROVE {t, u} \in excused' \/ Acknowledged(Fingerprint(t, u))
    <3>1. <<t, u>> \in Pairs(w)
      BY <1>4, <1>8, <2>1 DEF Pairs
    <3>2. CASE p = <<t, u>>
      BY <1>1, <3>1, <3>2 DEF PlanPasses
    <3>3. CASE p # <<t, u>>
      <4>1. PICK q \in Pairs(w) : q = <<t, u>> /\ q # p
        BY <3>1, <3>3
      <4>2. {q[1], q[2]} \in excused'
        BY <1>1, <4>1 DEF PlanPasses
      <4>3. QED
        BY <4>1, <4>2
    <3>4. QED
      BY <3>2, <3>3
  <2>2. QED
    BY <1>3, <2>1 DEF Cleared, Close, Gap, Fingerprint, Acknowledged
<1>9. ASSUME NEW t \in Tasks, NEW u \in Tasks, Of(t) = w, Of(u) = w, t # u
      PROVE  Earlier(w, t, u) \/ Earlier(w, u, t)
  <2>1. Plan[w] \in Seq(Tasks) /\ t \in Range(Plan[w]) /\ u \in Range(Plan[w])
    BY <1>9, OfPlan DEF ConflictAssumptions
  <2>2. PICK i \in DOMAIN Plan[w], j \in DOMAIN Plan[w] : Plan[w][i] = t /\ Plan[w][j] = u
    BY <2>1 DEF Range
  <2>3. i # j /\ i \in Int /\ j \in Int
    BY <1>9, <2>1, <2>2
  <2>4. i < j \/ j < i
    BY <2>3
  <2>5. QED
    BY <2>2, <2>4 DEF Earlier
<1>10. \A t, u \in Tasks : Cleared(t, u)' => Cleared(u, t)'
  BY ClearedBothNext
<1>11. PlanChecked'
  <2>1. ASSUME NEW t \in Tasks, NEW u \in Tasks, Of(t) = w, Of(u) = w, Alive(t), Alive(u)
        PROVE  Cleared(t, u)'
    <3>1. CASE t = u
      BY <3>1 DEF Cleared, Close
    <3>2. CASE t # u
      BY <1>8, <1>9, <1>10, <2>1, <3>2
    <3>3. QED
      BY <3>1, <3>2
  <2>2. ASSUME NEW g \in Handlers, NEW t \in Tasks, NEW u \in Tasks, InRun(g, t)', Of(t) = Of(u),
               Alive(t)', Alive(u)'
        PROVE  Cleared(t, u)'
    <3>1. CASE g = h
      <4>1. Of(t) = w
        BY <1>2, <2>2, <3>1 DEF InRun
      <4>2. QED
        BY <1>7, <2>1, <2>2, <4>1
    <3>2. CASE g # h
      BY <1>6, <1>7, <2>2, <3>2 DEF WInv, PlanChecked, ClearedStay
    <3>3. QED
      BY <3>1, <3>2
  <2>3. QED
    BY <2>2 DEF PlanChecked
<1>12. PassedAfter'
  BY <1>3, <1>5, <1>6, <1>7 DEF WInv, PassedAfter, ClearedStay
<1>13. BothPassed'
  BY <1>3, <1>5, <1>6, <1>7 DEF WInv, BothPassed, ClearedStay
<1>14. RowsThere' /\ AllCleared'
  BY <1>3, <1>5, <1>6 DEF WInv, RowsThere, AllCleared, ClearedStay
<1>15. QED
  BY <1>11, <1>12, <1>13, <1>14 DEF WInv

LEMMA TaskPassesWarns ==
  ASSUME ConflictAssumptions, WInv, AInv', ClearedStay, NEW h \in Handlers, TaskPasses(h)
  PROVE  WInv'
<1>1. PICK w \in Workflows : w = runner[h].w
  BY DEF WInv, AInv, Typed, Places, Runner
<1>2. PICK t : t = FirstOf(w, runner[h].todo)
  OBVIOUS
<1>3. runner[h].at = "cross" /\ t \in Tasks /\ Of(t) = w
  BY <1>1, <1>2, TaskToCheck DEF WInv, AInv, TaskPasses
<1>4. /\ runner'[h].at = "cross" /\ runner'[h].w = w /\ runner'[h].todo = runner[h].todo \ {t}
      /\ \A g \in Handlers : g # h => runner'[g] = runner[g]
  BY <1>1, <1>2, <1>3 DEF TaskPasses, WInv, AInv, Typed, Places, Runner
<1>5. task' = task /\ time' = time /\ checks' = checks
  BY DEF TaskPasses
<1>6. \A g \in Handlers : \A x \in Tasks :
        /\ InRun(g, x)' => InRun(g, x)
        /\ Passed(g, x)' => Passed(g, x) \/ (g = h /\ x = t)
        /\ Sending(g, x)' => Sending(g, x)
  BY <1>1, <1>3, <1>4 DEF InRun, Passed, Sending
<1>7. \A x \in Tasks : Alive(x)' <=> Alive(x)
  BY <1>5 DEF Alive
<1>8. ASSUME NEW u \in Tasks, Of(u) # w, Alive(u), task[u] # "absent"
      PROVE  Cleared(t, u)' /\ Cleared(u, t)'
  <2>1. ASSUME Close(t, u) PROVE {t, u} \in excused' \/ Acknowledged(Fingerprint(t, u))
    <3>1. u \in Others(t)
      BY <1>3, <1>8, <2>1 DEF Others, Alive
    <3>2. CASE u = Nearest(t, Others(t))
      BY <1>1, <1>2, <3>1, <3>2 DEF TaskPasses
    <3>3. CASE u # Nearest(t, Others(t))
      BY <1>1, <1>2, <3>1, <3>3 DEF TaskPasses
    <3>4. QED
      BY <3>2, <3>3
  <2>2. Gap(t, u) = Gap(u, t)
    <3>1. time[t] \in Nat /\ time[u] \in Nat
      BY <1>3 DEF WInv, AInv, Typed, Columns, ConflictAssumptions
    <3>2. QED
      BY <3>1 DEF Gap
  <2>3. /\ Fingerprint(t, u)' = Fingerprint(t, u) /\ Fingerprint(u, t)' = Fingerprint(t, u)
        /\ Gap(t, u)' = Gap(t, u) /\ Gap(u, t)' = Gap(u, t) /\ {t, u} = {u, t}
    BY <1>5 DEF Fingerprint, Gap
  <2>4. \A f : Acknowledged(f)' <=> Acknowledged(f)
    BY <1>5 DEF Acknowledged
  <2>5. Close(t, u)' => Close(t, u)
    BY <2>3 DEF Close
  <2>6. Close(u, t)' => Close(t, u)
    BY <2>2, <2>3 DEF Close
  <2>7. PICK f : f = Fingerprint(t, u)
    OBVIOUS
  <2>8. Acknowledged(f) => Acknowledged(Fingerprint(t, u))' /\ Acknowledged(Fingerprint(u, t))'
    BY <1>5, <2>3, <2>7 DEF Acknowledged
  <2>9. QED
    BY <2>1, <2>3, <2>5, <2>6, <2>7, <2>8 DEF Cleared
<1>9. PlanChecked'
  BY <1>6, <1>7 DEF WInv, PlanChecked, ClearedStay
<1>10. PassedAfter'
  <2>1. \A u \in Tasks : task[u] = "SUCCESS" => Alive(u) /\ task[u] # "absent"
    BY DEF Alive, Skipped
  <2>2. QED
    BY <1>3, <1>5, <1>6, <1>7, <1>8, <2>1 DEF WInv, PassedAfter, ClearedStay
<1>11. BothPassed'
  <2>1. ASSUME NEW g \in Handlers, NEW f \in Handlers, NEW x \in Tasks, NEW y \in Tasks,
               Sending(g, x)', Alive(x)', Of(x) # Of(y), Passed(f, y)', Alive(y)'
        PROVE  Cleared(x, y)'
    <3>1. Sending(g, x) /\ Alive(x) /\ Alive(y) /\ task[x] # "absent"
      BY <1>6, <1>7, <2>1 DEF WInv, RowsThere
    <3>2. CASE Passed(f, y)
      BY <2>1, <3>1, <3>2 DEF WInv, BothPassed, ClearedStay
    <3>3. CASE ~Passed(f, y)
      BY <1>3, <1>6, <1>8, <2>1, <3>1, <3>3
    <3>4. QED
      BY <3>2, <3>3
  <2>2. QED
    BY <2>1 DEF BothPassed
<1>12. RowsThere' /\ AllCleared'
  BY <1>5, <1>6 DEF WInv, RowsThere, AllCleared, ClearedStay
<1>13. QED
  BY <1>9, <1>10, <1>11, <1>12 DEF WInv

LEMMA BeginsWarns ==
  ASSUME ConflictAssumptions, WInv, AInv', ClearedStay, NEW h \in Handlers, Begins(h)
  PROVE  WInv'
<1>1. PICK w \in Workflows : w = runner[h].w
  BY DEF WInv, AInv, Typed, Places, Runner
<1>2. /\ runner[h].at = "cross" /\ runner[h].todo = {} /\ runner'[h].at = "go" /\ runner'[h].w = w
      /\ \A g \in Handlers : g # h => runner'[g] = runner[g]
  BY <1>1 DEF Begins, Moves, WInv, AInv, Typed, Places, Runner
<1>3. \A x \in Tasks : task'[x] = IF Of(x) = w /\ task[x] = "absent" THEN "PENDING" ELSE task[x]
  BY <1>1 DEF Begins
<1>4. \A g \in Handlers : \A x \in Tasks :
        /\ InRun(g, x)' => InRun(g, x)
        /\ Passed(g, x)' => Passed(g, x)
        /\ Sending(g, x)' => Sending(g, x) \/ (g = h /\ Of(x) = w)
  BY <1>1, <1>2 DEF InRun, Passed, Sending
<1>5. \A x \in Tasks : /\ Alive(x)' => Alive(x)
                       /\ task'[x] = "SUCCESS" => task[x] = "SUCCESS"
                       /\ task'[x] = "absent" => task[x] = "absent" /\ Of(x) # w
  BY <1>3 DEF Alive, Skipped
<1>6. PlanChecked'
  BY <1>4, <1>5 DEF WInv, PlanChecked, ClearedStay
<1>7. PassedAfter'
  BY <1>4, <1>5 DEF WInv, PassedAfter, ClearedStay
<1>8. BothPassed'
  <2>1. ASSUME NEW g \in Handlers, NEW f \in Handlers, NEW x \in Tasks, NEW y \in Tasks,
               Sending(g, x)', Alive(x)', Of(x) # Of(y), Passed(f, y)', Alive(y)'
        PROVE  Cleared(x, y)'
    <3>1. CASE Sending(g, x)
      BY <1>4, <1>5, <2>1, <3>1 DEF WInv, BothPassed, ClearedStay
    <3>2. CASE ~Sending(g, x)
      <4>1. g = h /\ Of(x) = w /\ x \in Range(Plan[w])
        BY <1>4, <2>1, <3>2, OfPlan
      <4>2. Passed(f, y) /\ f # h
        BY <1>1, <1>4, <2>1, <4>1 DEF Passed, InRun
      <4>3. y \in BeingRun(h)
        BY <4>2 DEF BeingRun, Passed, InRun, Running
      <4>4. {x, y} \in excused'
        BY <1>1, <4>1, <4>3 DEF Begins
      <4>5. QED
        BY <4>4 DEF Cleared
    <3>3. QED
      BY <3>1, <3>2
  <2>2. QED
    BY <2>1 DEF BothPassed
<1>9. RowsThere'
  BY <1>4, <1>5 DEF WInv, RowsThere
<1>10. AllCleared'
  BY <1>5 DEF WInv, AllCleared, ClearedStay
<1>11. QED
  BY <1>6, <1>7, <1>8, <1>9, <1>10 DEF WInv

LEMMA SendsWarns ==
  ASSUME ConflictAssumptions, WInv, AInv', ClearedStay, NEW h \in Handlers, Sends(h)
  PROVE  WInv'
<1>1. PICK w \in Workflows : w = runner[h].w
  BY DEF WInv, AInv, Typed, Places, Runner
<1>2. runner' = runner /\ time' = time /\ checks' = checks /\ excused' = excused /\ runner[h].at = "go"
  BY DEF Sends
<1>3. PICK t \in Range(Plan[w]) : task[t] \notin Skipped \cup {"SUCCESS"} /\ task' = [task EXCEPT ![t] = "SUCCESS"]
  BY <1>1 DEF Sends
<1>4. t \in Tasks /\ Of(t) = w /\ Alive(t) /\ Sending(h, t) /\ Passed(h, t) /\ InRun(h, t)
  BY <1>1, <1>2, <1>3, OfPlan DEF Alive, Sending, Passed, InRun
<1>5. task'[t] = "SUCCESS" /\ \A x \in Tasks : x # t => task'[x] = task[x]
  BY <1>3, <1>4 DEF WInv, AInv, Typed, Columns
<1>6. \A x \in Tasks : (Alive(x)' => Alive(x)) /\ (task[x] = "SUCCESS" => Alive(x))
  BY <1>4, <1>5 DEF Alive, Skipped
<1>7. \A g \in Handlers : \A x \in Tasks :
        (InRun(g, x)' <=> InRun(g, x)) /\ (Passed(g, x)' <=> Passed(g, x)) /\ (Sending(g, x)' <=> Sending(g, x))
  BY <1>2 DEF InRun, Passed, Sending
<1>8. \A x, y \in Tasks : Cleared(x, y) => Cleared(y, x)
  BY ClearedBoth DEF WInv, AInv, Typed
<1>9. PlanChecked'
  BY <1>6, <1>7 DEF WInv, PlanChecked, ClearedStay
<1>10. PassedAfter'
  <2>1. ASSUME NEW g \in Handlers, NEW x \in Tasks, Passed(g, x), Alive(x), Of(x) # Of(t)
        PROVE  Cleared(x, t)
    BY <1>4, <1>8, <2>1 DEF WInv, BothPassed
  <2>2. QED
    BY <1>4, <1>5, <1>6, <1>7, <2>1 DEF WInv, PassedAfter, ClearedStay
<1>11. BothPassed'
  BY <1>6, <1>7 DEF WInv, BothPassed, ClearedStay
<1>12. RowsThere'
  BY <1>5, <1>7 DEF WInv, RowsThere
<1>13. AllCleared'
  <2>1. ASSUME NEW x \in Tasks, task[x] = "SUCCESS" PROVE Cleared(t, x) /\ Cleared(x, t)
    <3>1. CASE Of(x) = w
      BY <1>4, <1>6, <2>1, <3>1 DEF WInv, PlanChecked, InRun
    <3>2. CASE Of(x) # w
      BY <1>4, <1>8, <2>1, <3>2 DEF WInv, PassedAfter
    <3>3. QED
      BY <3>1, <3>2
  <2>2. Cleared(t, t)
    BY DEF Cleared, Close
  <2>3. QED
    BY <1>4, <1>5, <2>1, <2>2 DEF WInv, AllCleared, ClearedStay
<1>14. QED
  BY <1>9, <1>10, <1>11, <1>12, <1>13 DEF WInv

LEMMA WarnStep ==
  ASSUME ConflictAssumptions, WInv, [Next]_vars
  PROVE  WInv'
<1>1. AInv'
  BY AloneStep DEF WInv
<1>2. CASE UNCHANGED vars
  <2>1. \A t, u \in Tasks : Cleared(t, u)' <=> Cleared(t, u)
    BY <1>2 DEF vars, Cleared, Close, Gap, Fingerprint, Acknowledged
  <2>2. \A h \in Handlers : \A t \in Tasks :
          /\ InRun(h, t)' <=> InRun(h, t)
          /\ Passed(h, t)' <=> Passed(h, t)
          /\ Sending(h, t)' <=> Sending(h, t)
          /\ Alive(t)' <=> Alive(t)
    BY <1>2 DEF vars, InRun, Passed, Sending, Alive
  <2>3. Steady
    BY <1>2, <2>1, <2>2 DEF vars, Steady, ClearedStay, RunsStay, TasksStay
  <2>4. QED
    BY <1>1, <2>3, SteadyWarns
<1>3. CASE Next
  <2>1. ClearedStay
    BY <1>3, ClearedGrows DEF WInv
  <2>2. ASSUME RunsStay /\ TasksStay PROVE WInv'
    BY <1>1, <2>1, <2>2, SteadyWarns DEF Steady
  <2>3. ASSUME NEW h \in Handlers, Runs(h) PROVE WInv'
    BY <1>1, <2>1, <2>2, <2>3, RunCases, PlanPassesWarns, TaskPassesWarns, BeginsWarns, SendsWarns,
       PausedWarns, RestWarns DEF WInv, AInv
  <2>4. ASSUME NEW r \in Replies, Replied(r) PROVE WInv'
    BY <2>2, <2>4, RepliesWarn
  <2>5. QED
    BY <1>3, <2>2, <2>3, <2>4, SubmitsWarns, EndsWarn, MovesWarn, CrashWarns DEF Next
<1>4. QED
  BY <1>2, <1>3

\* Two close appointments are both made only after a warning about just these two was
\* answered with keep_both (ScheduleConflictBoundary.execute), excused pairs apart.
THEOREM ClosePairsWarned == ConflictSpec => []Warned
<1>1. ASSUME WInv PROVE Warned
  BY <1>1 DEF WInv, AllCleared, Cleared, Warned
<1>2. Init => WInv
  <2>1. Init => \A h \in Handlers : runner[h].at = "new"
    BY DEF Init, Idle
  <2>2. Init => \A t \in Tasks : task[t] = "absent"
    BY DEF Init
  <2>3. QED
    BY <2>1, <2>2, AloneInit, ConflictAssumptions
       DEF WInv, PlanChecked, PassedAfter, BothPassed, RowsThere, AllCleared, InRun, Passed, Sending
<1>3. WInv /\ [Next]_vars => WInv'
  BY WarnStep, ConflictAssumptions
<1>4. QED
  BY <1>1, <1>2, <1>3, PTL DEF ConflictSpec
===============================================================================
