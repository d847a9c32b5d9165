-------------------------- MODULE ApprovalQueueProofs -------------------------
(***************************************************************************)
(* What is proved of the approval queue, for every plan, every number of   *)
(* requests and restarts.                                                  *)
(*                                                                         *)
(* Sound is the type invariant with what each handler may hold; every step *)
(* but five leaves the plan and the requests alone (Quiet), so a proof     *)
(* about either has those five to look at.                                 *)
(*                                                                         *)
(* CalledOff counts cancellations.  The names of cancellations of a step   *)
(* are given out in the order of CHOOSE, so those the plan has are the     *)
(* first ones (Segment); a handler that reads fewer names than another     *)
(* has given out orders one of those again and adds nothing.               *)
(*                                                                         *)
(* Governed is the invariant of a workflow nobody reran (Calm): what each  *)
(* handler knows about the answers when it has a step in hand (Informed),  *)
(* that the first run asks all companies once (First), and what the rows   *)
(* say once one company was asked (Asked).                                 *)
(***************************************************************************)
EXTENDS ApprovalQueue, FiniteSetTheorems, WellFoundedInduction, TLAPS

TablesOK ==
  /\ plan \subseteq Steps
  /\ wf \in {"PENDING", "RUNNING", "WAITING_APPROVAL"} \cup Finished
  /\ task \in [Steps -> TaskStatuses]
  /\ evidence \in [Steps -> {"NOT_SUBMITTED", "SUBMITTING", "ACKNOWLEDGED", "UNKNOWN"}]
  /\ row \in [Steps -> RowStatuses] /\ code \in [Steps -> Codes]
  /\ \A t \in Steps : row[t] # "NONE" => t \in plan /\ t \in Gated \cup Viewing
  /\ \A t \in Steps : evidence[t] # "NOT_SUBMITTED" => t \in plan
  /\ wishes \in Seq([of : Gated, kind : WishKinds, status : RowStatuses]) /\ Len(wishes) <= MaxWishes
  /\ card \in BOOLEAN /\ question \in BOOLEAN /\ crashes \in 0..MaxCrashes

\* A handler works on tasks of the plan p and on n requests.
HandOK(c, p, n) ==
  /\ c \in Hand /\ c.orders \subseteq n /\ c.fixable \subseteq c.refused
  /\ c.plan \subseteq p /\ c.run \subseteq p /\ c.cur \subseteq p /\ c.taken \subseteq p
  /\ c.gates \subseteq p
  /\ c.at \in {"ensure", "conclude"} => c.verdict # "none"
  /\ c.at = "look" => c.taken = {}
  /\ c.at = "idle" => c.kind = "none"
  /\ c.at \in {"look", "recall", "undo", "sift"} => c.kind # "again"

HandsOK == /\ hand \in [Hands -> Hand]
           /\ \A h \in Hands : HandOK(hand[h], plan, DOMAIN wishes)

Sound == TablesOK /\ HandsOK

\* The names taken are those read or none, no request is added, a rerun stays
\* one.
Follows(c, d) == /\ c.taken \in {d.taken, {}} /\ c.orders \subseteq d.orders
                 /\ d.kind = "again" => c.kind = "again"

Quiet == /\ UNCHANGED <<plan, wishes>>
         /\ \A h \in Hands : hand'[h] = hand[h] \/ Follows(hand'[h], hand[h])

-------------------------------------------------------------------------------
(* Types *)

LEMMA PlanWithoutIn ==
  ASSUME NEW from, NEW out
  PROVE  PlanWithout(from, out) \subseteq from \ out
BY DEF PlanWithout

LEMMA Moved ==
  ASSUME HandsOK, NEW h \in Hands, NEW c, Move(h, c), HandOK(c, plan', DOMAIN wishes'),
         plan \subseteq plan', DOMAIN wishes \subseteq DOMAIN wishes'
  PROVE  /\ HandsOK' /\ hand'[h] = c
         /\ \A g \in Hands : g # h => hand'[g] = hand[g]
<1>1. c \in Hand
  BY DEF HandOK
<1>2. /\ hand' \in [Hands -> Hand] /\ hand'[h] = c
      /\ \A g \in Hands : g # h => hand'[g] = hand[g]
  BY <1>1 DEF Move, HandsOK
<1>3. \A g \in Hands : g # h => HandOK(hand'[g], plan', DOMAIN wishes')
  BY <1>2 DEF HandOK, HandsOK
<1>4. QED
  BY <1>2, <1>3 DEF HandsOK

LEMMA MovedQuiet ==
  ASSUME HandsOK, NEW h \in Hands, NEW c, Move(h, c), HandOK(c, plan, DOMAIN wishes),
         Follows(c, hand[h]), UNCHANGED <<plan, wishes>>
  PROVE  HandsOK' /\ Quiet /\ hand'[h] = c
BY Moved DEF Quiet

Onward(place) == place \notin {"idle", "look", "recall", "undo", "sift"}

LEMMA AtOK ==
  ASSUME HandsOK, NEW h \in Hands, NEW place \in Places, Onward(place),
         place \in {"ensure", "conclude"} => hand[h].at = "ensure"
  PROVE  /\ HandOK([hand[h] EXCEPT !.at = place], plan, DOMAIN wishes)
         /\ Follows([hand[h] EXCEPT !.at = place], hand[h])
<1>1. hand[h] \in Hand
  BY DEF HandsOK
<1>2. HandOK(hand[h], plan, DOMAIN wishes)
  BY DEF HandsOK
<1>3. QED
  BY <1>1, <1>2 DEF Hand, HandOK, Follows, Onward

LEMMA Kept ==
  ASSUME HandsOK, NEW h \in Hands, NEW c \in Hand, c.orders \subseteq hand[h].orders,
         c.fixable \subseteq c.refused, c.taken \in {hand[h].taken, {}}, c.kind = hand[h].kind,
         c.plan \subseteq plan, c.run \subseteq plan, c.cur \subseteq plan, c.gates \subseteq plan,
         Onward(c.at), c.at \in {"ensure", "conclude"} => c.verdict # "none"
  PROVE  HandOK(c, plan, DOMAIN wishes) /\ Follows(c, hand[h])
<1>1. HandOK(hand[h], plan, DOMAIN wishes)
  BY DEF HandsOK
<1>2. QED
  BY <1>1 DEF HandOK, Follows, Onward

LEMMA GoQuiet ==
  ASSUME HandsOK, NEW h \in Hands, NEW place \in Places, Onward(place), Go(h, place),
         place \in {"ensure", "conclude"} => hand[h].at = "ensure",
         UNCHANGED <<plan, wishes>>
  PROVE  HandsOK' /\ Quiet
<1>1. Move(h, [hand[h] EXCEPT !.at = place])
  BY DEF Go, Move
<1>2. QED
  BY <1>1, AtOK, MovedQuiet

LEMMA IdleOK ==
  /\ Idle \in Hand /\ Over \in Hand
  /\ \A k \in Kinds : [Over EXCEPT !.kind = k] \in Hand
<1>1. Idle \in Hand
  BY DEF Idle, Hand, Places, Kinds, TaskStatuses, Outcomes, Finished
<1>2. Over \in Hand
  BY DEF Over, Idle, Hand, Places, Kinds, TaskStatuses, Outcomes, Finished
<1>3. QED
  BY <1>1, <1>2 DEF Hand

LEMMA OverOK ==
  ASSUME NEW k \in Kinds, NEW p, NEW n, NEW d, d.kind = "again" => k = "again"
  PROVE  HandOK([Over EXCEPT !.kind = k], p, n) /\ Follows([Over EXCEPT !.kind = k], d)
<1> DEFINE c == [Over EXCEPT !.kind = k]
<1>1. /\ c.orders = {} /\ c.fixable = {} /\ c.plan = {} /\ c.run = {} /\ c.cur = {}
      /\ c.taken = {} /\ c.gates = {} /\ c.at = "over" /\ c.kind = k
  BY DEF Over, Idle
<1>2. c \in Hand
  BY IdleOK
<1> HIDE DEF c
<1>3. HandOK(c, p, n) /\ Follows(c, d)
  BY <1>1, <1>2 DEF HandOK, Follows
<1>4. QED
  BY <1>3 DEF c

LEMMA EndQuiet ==
  ASSUME HandsOK, NEW h \in Hands, End(h), UNCHANGED <<plan, wishes>>
  PROVE  HandsOK' /\ Quiet
<1>1. hand[h].kind \in Kinds
  BY DEF HandsOK, Hand
<1>2. QED
  BY <1>1, OverOK, MovedQuiet DEF End

Nexts == {"work", "verdict", "park", "pin", "trim", "admit", "seed", "ask", "fail", "over"}

LEMMA WritingOK ==
  ASSUME HandsOK, NEW h \in Hands, NEW todo \in SUBSET Steps, NEW s \in TaskStatuses,
         NEW next \in Nexts
  PROVE  /\ HandOK(Writing(h, todo, s, next), plan, DOMAIN wishes)
         /\ Follows(Writing(h, todo, s, next), hand[h])
<1> DEFINE c == Writing(h, todo, s, next)
<1>1. hand[h] \in Hand /\ HandOK(hand[h], plan, DOMAIN wishes)
  BY DEF HandsOK
<1>2. c \in Hand
  BY <1>1 DEF Hand, Writing, Places, Nexts
<1>3. /\ c.orders = hand[h].orders /\ c.fixable = hand[h].fixable /\ c.refused = hand[h].refused
      /\ c.plan = hand[h].plan /\ c.run = hand[h].run /\ c.cur = hand[h].cur
      /\ c.taken = hand[h].taken /\ c.gates = hand[h].gates /\ c.at = "write"
      /\ c.kind = hand[h].kind
  BY <1>1 DEF Writing, Hand
<1> HIDE DEF c
<1>4. HandOK(c, plan, DOMAIN wishes) /\ Follows(c, hand[h])
  BY <1>1, <1>2, <1>3 DEF HandOK, Follows
<1>5. QED
  BY <1>4 DEF c

LEMMA WritingQuiet ==
  ASSUME HandsOK, NEW h \in Hands, NEW todo \in SUBSET Steps, NEW s \in TaskStatuses,
         NEW next \in Nexts, Move(h, Writing(h, todo, s, next)), UNCHANGED <<plan, wishes>>
  PROVE  HandsOK' /\ Quiet
BY WritingOK, MovedQuiet

\* What the tables keep when a step leaves them, or only the workflow's status.
LEMMA TablesSame == ASSUME TablesOK, UNCHANGED <<tables, crashes>> PROVE TablesOK'
BY DEF TablesOK, tables, rows

WfStatuses == {"PENDING", "RUNNING", "WAITING_APPROVAL"} \cup Finished

LEMMA TablesWf ==
  ASSUME TablesOK, wf' \in WfStatuses, task' \in [Steps -> TaskStatuses],
         UNCHANGED <<plan, evidence, rows, crashes>>, card' \in BOOLEAN, question' \in BOOLEAN
  PROVE  TablesOK'
BY DEF TablesOK, rows, WfStatuses

LEMMA WrittenIs ==
  ASSUME TablesOK, NEW s \in WfStatuses
  PROVE  StatusWritten(s) \in WfStatuses /\ wf \in WfStatuses
BY DEF StatusWritten, TablesOK, WfStatuses

LEMMA RaisedOK ==
  ASSUME Sound, NEW h \in Hands, Raised(h), UNCHANGED <<plan, wishes>>
  PROVE  HandsOK' /\ Quiet /\ wf' \in WfStatuses
BY EndQuiet DEF Sound, Raised, TablesOK, WfStatuses, Finished

-------------------------------------------------------------------------------
(* One step of each kind *)

LEMMA WriteStep ==
  ASSUME Sound, NEW h \in Hands, Write(h) PROVE Sound' /\ Quiet
<1> HandsOK /\ TablesOK /\ hand[h] \in Hand
  BY DEF Sound, HandsOK
<1>1. CASE hand[h].todo = {}
  <2>1. hand[h].next \in Places \ {"ensure", "conclude"} /\ Onward(hand[h].next)
    BY DEF Hand, Places, Onward
  <2>2. QED
    BY <1>1, <2>1, GoQuiet, TablesWf, WrittenIs DEF Write, Sound, rows, TablesOK
<1>2. ASSUME NEW t \in hand[h].todo, task[t] = "CANCELLED", Raised(h), UNCHANGED task,
             UNCHANGED <<plan, evidence, rows, card, question, crashes>>
      PROVE  Sound' /\ Quiet
  BY <1>2, RaisedOK, TablesWf DEF Sound, rows, TablesOK
<1>3. ASSUME NEW t \in hand[h].todo, task' = [task EXCEPT ![t] = hand[h].to],
             hand' = [hand EXCEPT ![h].todo = @ \ {t}], UNCHANGED wf,
             UNCHANGED <<plan, evidence, rows, card, question, crashes>>
      PROVE  Sound' /\ Quiet
  <2> DEFINE c == [hand[h] EXCEPT !.todo = @ \ {t}]
  <2>1. Move(h, c)
    BY <1>3 DEF Move
  <2>2. HandOK(c, plan, DOMAIN wishes) /\ Follows(c, hand[h])
    <3>1. HandOK(hand[h], plan, DOMAIN wishes) /\ hand[h].at = "write"
      BY DEF HandsOK, Write, At
    <3>2. QED
      BY <3>1 DEF HandOK, Hand, Follows
  <2>3. HandsOK' /\ Quiet
    BY <2>1, <2>2, <1>3, MovedQuiet DEF rows
  <2>4. task' \in [Steps -> TaskStatuses]
    BY <1>3 DEF TablesOK, Hand
  <2>5. QED
    BY <2>3, <2>4, <1>3, TablesWf, WrittenIs DEF Sound, TablesOK, WfStatuses
<1>4. QED
  BY <1>1, <1>2, <1>3 DEF Write

LEMMA SeedStep ==
  ASSUME Sound, NEW h \in Hands, Seed(h) PROVE Sound' /\ Quiet
<1> HandsOK /\ TablesOK /\ hand[h] \in Hand /\ HandOK(hand[h], plan, DOMAIN wishes)
  BY DEF Sound, HandsOK
<1>1. PICK gates, run, ok \in SUBSET Steps, place \in {"start", "gate"} :
        /\ gates \subseteq plan /\ run \subseteq plan
        /\ Move(h, [hand[h] EXCEPT !.gates = gates, !.run = run, !.ok = ok, !.at = place])
  <2> DEFINE seeds == In({"SUCCESS", "CANCELLED"})
             shut == IF hand[h].kind = "service" THEN {} ELSE Shut(seeds) \cap hand[h].plan
             p1 == PlanWithout(hand[h].plan, shut)
             view == (Viewing \cap p1) \ In({"SUCCESS"})
             p2 == PlanWithout(p1, view)
             pay == Paying \cap p2
             run == IF hand[h].kind = "view" THEN Remaining(hand[h].plan) ELSE PlanWithout(p2, pay)
             gates == IF hand[h].kind = "view" THEN {} ELSE shut \cup view \cup pay
  <2>1. p1 \subseteq hand[h].plan /\ p2 \subseteq hand[h].plan /\ shut \subseteq hand[h].plan
    BY PlanWithoutIn
  <2>2. gates \subseteq hand[h].plan
    BY <2>1
  <2>3. Remaining(hand[h].plan) \subseteq hand[h].plan
    BY PlanWithoutIn DEF Remaining
  <2>4. run \subseteq hand[h].plan
    BY <2>1, <2>3, PlanWithoutIn
  <2>5. hand[h].plan \subseteq plan /\ plan \subseteq Steps /\ In({"SUCCESS"}) \subseteq Steps
    BY DEF HandOK, TablesOK, In
  <2>6. Move(h, [hand[h] EXCEPT !.gates = gates, !.run = run \ seeds, !.ok = In({"SUCCESS"}),
                                !.at = IF run # {} THEN "start" ELSE "gate"])
    BY DEF Seed, Move
  <2> HIDE DEF gates, run, seeds
  <2>7. QED
    BY <2>2, <2>4, <2>5, <2>6
<1> DEFINE c == [hand[h] EXCEPT !.gates = gates, !.run = run, !.ok = ok, !.at = place]
<1>2. HandOK(c, plan, DOMAIN wishes) /\ Follows(c, hand[h])
  <2>1. c \in Hand
    BY <1>1 DEF Hand, Places
  <2>2. /\ c.orders = hand[h].orders /\ c.fixable = hand[h].fixable /\ c.refused = hand[h].refused
       /\ c.taken = hand[h].taken /\ c.kind = hand[h].kind /\ c.plan = hand[h].plan /\ c.run = run /\ c.cur = hand[h].cur /\ c.gates = gates /\ c.at = place
    BY <1>1 DEF Hand
  <2> HIDE DEF c
  <2>3. QED
    BY <1>1, <2>1, <2>2, Kept DEF HandOK, Onward
<1>3. QED
  BY <1>1, <1>2, MovedQuiet, TablesSame DEF Seed, tables, rows, Sound

LEMMA StartStep ==
  ASSUME Sound, NEW h \in Hands, Start(h) PROVE Sound' /\ Quiet
BY GoQuiet, TablesWf, WrittenIs DEF Sound, Start, rows, Places, Onward, TablesOK, WfStatuses

LEMMA BeginStep ==
  ASSUME Sound, NEW h \in Hands, Begin(h) PROVE Sound' /\ Quiet
<1> HandsOK /\ TablesOK /\ hand[h] \in Hand /\ HandOK(hand[h], plan, DOMAIN wishes)
  BY DEF Sound, HandsOK
<1>1. PICK t \in Ready(h) :
         IF task[t] = "CANCELLED" THEN Raised(h) /\ UNCHANGED task
         ELSE /\ task' = [task EXCEPT ![t] = "RUNNING"]
              /\ Move(h, [hand[h] EXCEPT !.at = "call", !.cur = {t}, !.run = @ \ {t}])
              /\ UNCHANGED wf
  BY DEF Begin
<1>2. t \in hand[h].run /\ t \in Steps /\ t \in plan
  BY DEF Ready, HandOK, Hand
<1>3. UNCHANGED <<plan, evidence, rows, card, question, crashes>>
  BY DEF Begin
<1>4. CASE task[t] = "CANCELLED"
  BY <1>1, <1>3, <1>4, RaisedOK, TablesWf DEF Sound, rows, TablesOK
<1>5. CASE task[t] # "CANCELLED"
  <2> DEFINE c == [hand[h] EXCEPT !.at = "call", !.cur = {t}, !.run = @ \ {t}]
  <2>1. HandOK(c, plan, DOMAIN wishes) /\ Follows(c, hand[h])
    <3>1. c \in Hand
      BY <1>2 DEF Hand, Places
    <3>2. /\ c.orders = hand[h].orders /\ c.fixable = hand[h].fixable /\ c.refused = hand[h].refused
         /\ c.taken = hand[h].taken /\ c.kind = hand[h].kind /\ c.plan = hand[h].plan /\ c.run = hand[h].run \ {t} /\ c.cur = {t} /\ c.gates = hand[h].gates /\ c.at = "call"
      BY <1>2 DEF Hand
    <3> HIDE DEF c
    <3>3. QED
      BY <1>2, <3>1, <3>2, Kept DEF HandOK, Onward
  <2>2. HandsOK' /\ Quiet
    BY <2>1, <1>1, <1>3, <1>5, MovedQuiet DEF rows
  <2>3. task' \in [Steps -> TaskStatuses]
    BY <1>1, <1>5 DEF TablesOK, TaskStatuses
  <2>4. QED
    BY <2>2, <2>3, <1>1, <1>3, <1>5, TablesWf DEF Sound, TablesOK, WfStatuses
<1>6. QED
  BY <1>4, <1>5

LEMMA EvidenceOK ==
  ASSUME TablesOK, NEW t \in plan, NEW e \in {"SUBMITTING", "ACKNOWLEDGED", "UNKNOWN"},
         evidence' = [evidence EXCEPT ![t] = e],
         UNCHANGED <<plan, wf, task, rows, card, question, crashes>>
  PROVE  TablesOK'
BY DEF TablesOK, rows

LEMMA AnsweredOK ==
  ASSUME HandsOK, NEW h \in Hands, hand[h].at # "look", NEW o \in Outcomes
  PROVE  /\ HandOK([hand[h] EXCEPT !.at = "answered", !.outcome = o], plan, DOMAIN wishes)
         /\ Follows([hand[h] EXCEPT !.at = "answered", !.outcome = o], hand[h])
<1>1. hand[h] \in Hand /\ HandOK(hand[h], plan, DOMAIN wishes)
  BY DEF HandsOK
<1> DEFINE c == [hand[h] EXCEPT !.at = "answered", !.outcome = o]
<1>2. HandOK(c, plan, DOMAIN wishes) /\ Follows(c, hand[h])
  <2>1. c \in Hand
    BY <1>1 DEF Hand, Places
  <2>2. /\ c.orders = hand[h].orders /\ c.fixable = hand[h].fixable /\ c.refused = hand[h].refused
       /\ c.taken = hand[h].taken /\ c.kind = hand[h].kind /\ c.plan = hand[h].plan /\ c.run = hand[h].run /\ c.cur = hand[h].cur /\ c.gates = hand[h].gates /\ c.at = "answered"
    BY <1>1 DEF Hand
  <2> HIDE DEF c
  <2>3. QED
    BY <1>1, <2>1, <2>2, Kept DEF HandOK, Onward
<1>3. QED
  BY <1>2

LEMMA PrepareStep ==
  ASSUME Sound, NEW h \in Hands, Prepare(h) PROVE Sound' /\ Quiet
<1> HandsOK /\ TablesOK /\ hand[h] \in Hand /\ HandOK(hand[h], plan, DOMAIN wishes)
  BY DEF Sound, HandsOK
<1>1. UNCHANGED <<plan, wf, task, rows, card, question, crashes>> /\ hand[h].at = "call"
  BY DEF Prepare, At
<1>2. ASSUME NEW t \in hand[h].cur, evidence' = [evidence EXCEPT ![t] = "SUBMITTING"], Go(h, "sent")
      PROVE  Sound' /\ Quiet
  BY <1>1, <1>2, GoQuiet, EvidenceOK DEF Sound, HandOK, Places, Onward, rows
<1>3. ASSUME Move(h, [hand[h] EXCEPT !.at = "answered", !.outcome = "failed"]), UNCHANGED evidence
      PROVE  Sound' /\ Quiet
  BY <1>1, <1>3, AnsweredOK, MovedQuiet, TablesSame DEF Sound, Outcomes, rows, tables
<1>4. QED
  BY <1>2, <1>3 DEF Prepare, Permit

LEMMA AnswerStep ==
  ASSUME Sound, NEW h \in Hands, Answer(h) PROVE Sound' /\ Quiet
<1> HandsOK /\ TablesOK /\ hand[h] \in Hand /\ HandOK(hand[h], plan, DOMAIN wishes)
  BY DEF Sound, HandsOK
<1>1. UNCHANGED <<plan, wf, task, rows, card, question, crashes>> /\ hand[h].at = "sent"
  BY DEF Answer, At
<1>2. PICK t \in hand[h].cur, o \in {"ok", "failed"} :
        /\ evidence' = [evidence EXCEPT ![t] = IF o = "ok" THEN "ACKNOWLEDGED" ELSE "UNKNOWN"]
        /\ Move(h, [hand[h] EXCEPT !.at = "answered", !.outcome = o])
  BY DEF Answer
<1>3. TablesOK'
  BY <1>1, <1>2, EvidenceOK DEF HandOK
<1>4. QED
  BY <1>1, <1>2, <1>3, AnsweredOK, MovedQuiet DEF Sound, Outcomes, rows

LEMMA SavedOK ==
  ASSUME Sound, NEW h \in Hands, NEW t \in Steps, NEW s \in TaskStatuses, NEW c,
         HandOK(c, plan, DOMAIN wishes), Follows(c, hand[h]),
         IF task[t] = "CANCELLED" THEN Raised(h) /\ UNCHANGED task
         ELSE task' = [task EXCEPT ![t] = s] /\ Move(h, c) /\ UNCHANGED wf,
         UNCHANGED <<plan, evidence, rows, card, question, crashes>>
  PROVE  Sound' /\ Quiet
<1> HandsOK /\ TablesOK
  BY DEF Sound
<1>1. CASE task[t] = "CANCELLED"
  BY <1>1, RaisedOK, TablesWf DEF Sound, rows, TablesOK
<1>2. CASE task[t] # "CANCELLED"
  <2>1. HandsOK' /\ Quiet
    BY <1>2, MovedQuiet DEF rows
  <2>2. task' \in [Steps -> TaskStatuses]
    BY <1>2 DEF TablesOK
  <2>3. QED
    BY <2>1, <2>2, <1>2, TablesWf DEF Sound, TablesOK, WfStatuses
<1>3. QED
  BY <1>1, <1>2

LEMMA SaveStep ==
  ASSUME Sound, NEW h \in Hands, Save(h) PROVE Sound' /\ Quiet
<1> HandsOK /\ TablesOK /\ hand[h] \in Hand /\ HandOK(hand[h], plan, DOMAIN wishes)
  BY DEF Sound, HandsOK
<1>1. PICK t \in hand[h].cur :
         IF task[t] = "CANCELLED" THEN Raised(h) /\ UNCHANGED task
         ELSE /\ task' = [task EXCEPT ![t] = IF hand[h].outcome = "ok" THEN "SUCCESS" ELSE "FAILED"]
              /\ Move(h, [hand[h] EXCEPT !.at = "work", !.cur = {}, !.outcome = "none",
                            !.ok = IF hand[h].outcome = "ok" THEN @ \cup {t} ELSE @,
                            !.failed = @ \/ hand[h].outcome = "failed"])
              /\ UNCHANGED wf
  BY DEF Save
<1> DEFINE c == [hand[h] EXCEPT !.at = "work", !.cur = {}, !.outcome = "none",
                            !.ok = IF hand[h].outcome = "ok" THEN @ \cup {t} ELSE @,
                            !.failed = @ \/ hand[h].outcome = "failed"]
           s == IF hand[h].outcome = "ok" THEN "SUCCESS" ELSE "FAILED"
<1>2. t \in Steps /\ s \in TaskStatuses
  BY DEF HandOK, Hand, TaskStatuses, Finished
<1>3. HandOK(c, plan, DOMAIN wishes) /\ Follows(c, hand[h])
  <2> DEFINE ok == IF hand[h].outcome = "ok" THEN hand[h].ok \cup {t} ELSE hand[h].ok
             failed == hand[h].failed \/ hand[h].outcome = "failed"
  <2>1. failed \in BOOLEAN /\ ok \in SUBSET Steps
    BY <1>2 DEF Hand
  <2>2. c = [hand[h] EXCEPT !.at = "work", !.cur = {}, !.outcome = "none", !.ok = ok,
                            !.failed = failed]
    BY DEF Hand
  <2> HIDE DEF c, ok, failed
  <2>3. c \in Hand
    BY <2>1, <2>2 DEF Hand, Places, Outcomes
  <2>4. /\ c.orders = hand[h].orders /\ c.fixable = hand[h].fixable /\ c.refused = hand[h].refused
        /\ c.taken = hand[h].taken /\ c.kind = hand[h].kind /\ c.plan = hand[h].plan
        /\ c.run = hand[h].run /\ c.cur = {} /\ c.gates = hand[h].gates /\ c.at = "work"
    BY <2>2 DEF Hand
  <2>5. QED
    BY <2>3, <2>4, Kept DEF HandOK, Onward
<1> HIDE DEF c, s
<1>4. QED
  BY <1>1, <1>2, <1>3, SavedOK DEF Save, c, s

LEMMA StuckStep ==
  ASSUME Sound, NEW h \in Hands, Stuck(h) PROVE Sound' /\ Quiet
<1> HandsOK /\ TablesOK /\ hand[h] \in Hand
  BY DEF Sound, HandsOK
<1> DEFINE c == Writing(h, hand[h].run, "FAILED", "work")
           d == [c EXCEPT !.run = {}, !.failed = TRUE]
<1>1. HandOK(c, plan, DOMAIN wishes) /\ Follows(c, hand[h])
  BY WritingOK DEF Hand, Nexts, TaskStatuses, Finished
<1>2. c.at = "write"
  BY DEF Writing, Hand
<1> HIDE DEF c
<1>3. HandOK(d, plan, DOMAIN wishes) /\ Follows(d, hand[h])
  BY <1>1, <1>2 DEF HandOK, Hand, Follows
<1>4. QED
  BY <1>3, MovedQuiet, TablesSame DEF Sound, Stuck, tables, rows, c

LEMMA ExhaustedStep ==
  ASSUME Sound, NEW h \in Hands, Exhausted(h) PROVE Sound' /\ Quiet
BY GoQuiet, TablesWf, WrittenIs DEF Sound, Exhausted, rows, Places, Onward, TablesOK, WfStatuses, Finished

LEMMA GateStep ==
  ASSUME Sound, NEW h \in Hands, Gate(h) PROVE Sound' /\ Quiet
<1> HandsOK /\ TablesOK /\ hand[h] \in Hand
  BY DEF Sound, HandsOK
<1> DEFINE view == {t \in Held(h, Viewing) : ~Closed(t)}
<1>1. view \subseteq Steps
  BY DEF Held, Hand
<1>2. TablesOK' /\ UNCHANGED <<plan, wishes>>
  BY TablesSame DEF Gate, tables, rows
<1>3. CASE hand[h].failed /\ Move(h, Writing(h, view, "CANCELLED", "verdict"))
  BY <1>1, <1>2, <1>3, WritingQuiet DEF Sound, Nexts, TaskStatuses, Finished
<1>4. CASE Move(h, Writing(h, view, "WAITING_APPROVAL", "park"))
  BY <1>1, <1>2, <1>4, WritingQuiet DEF Sound, Nexts, TaskStatuses
<1>5. CASE Go(h, "verdict")
  BY <1>2, <1>5, GoQuiet DEF Sound, Places, Onward
<1>6. QED
  BY <1>3, <1>4, <1>5 DEF Gate

LEMMA ParkStep ==
  ASSUME Sound, NEW h \in Hands, Park(h) PROVE Sound' /\ Quiet
<1> HandsOK /\ TablesOK /\ hand[h] \in Hand
  BY DEF Sound, HandsOK
<1>1. Held(h, Gated) \subseteq Steps
  BY DEF Held, Hand
<1>2. TablesOK' /\ UNCHANGED <<plan, wishes>>
  BY TablesSame DEF Park, tables, rows
<1>3. CASE Move(h, [hand[h] EXCEPT !.at = "pause"])
  BY <1>2, <1>3, AtOK, MovedQuiet DEF Sound, Places, Onward
<1>4. CASE Move(h, Writing(h, Held(h, Gated), "WAITING_APPROVAL", "pin"))
  BY <1>1, <1>2, <1>4, WritingQuiet DEF Sound, Nexts, TaskStatuses
<1>5. QED
  BY <1>3, <1>4 DEF Park

LEMMA PinStep ==
  ASSUME QueueAssumptions, Sound, NEW h \in Hands, Pin(h) PROVE Sound' /\ Quiet
<1> HandsOK /\ TablesOK /\ hand[h] \in Hand /\ HandOK(hand[h], plan, DOMAIN wishes)
  BY DEF Sound, HandsOK
<1>1. Held(h, Gated) \subseteq plan \cap Gated
  BY DEF Held, HandOK
<1>2. TablesOK'
  BY <1>1 DEF TablesOK, Pin, RowStatuses
<1>3. QED
  BY <1>2, GoQuiet DEF Pin, Sound, Places, Onward

LEMMA PinViewingStep ==
  ASSUME QueueAssumptions, Sound, NEW h \in Hands, PinViewing(h) PROVE Sound' /\ Quiet
<1> HandsOK /\ TablesOK /\ hand[h] \in Hand /\ HandOK(hand[h], plan, DOMAIN wishes)
  BY DEF Sound, HandsOK
<1>1. Held(h, Viewing) \subseteq plan \cap Viewing
  BY DEF Held, HandOK
<1>2. TablesOK'
  BY <1>1 DEF TablesOK, PinViewing, RowStatuses
<1>3. QED
  BY <1>2, GoQuiet DEF PinViewing, Sound, Places, Onward

LEMMA HoldStep ==
  ASSUME Sound, NEW h \in Hands, Hold(h) \/ HoldViewing(h) PROVE Sound' /\ Quiet
BY GoQuiet, TablesWf, WrittenIs DEF Sound, Hold, HoldViewing, rows, Places, Onward, TablesOK, WfStatuses

LEMMA PauseStep ==
  ASSUME Sound, NEW h \in Hands, Pause(h) PROVE Sound' /\ Quiet
BY GoQuiet, TablesSame DEF Sound, Pause, Places, Onward, tables, rows

LEMMA CardSaved ==
  ASSUME Sound, NEW h \in Hands, NEW place \in {"over", "conclude"}, SavePendingApproval(h, place),
         place = "conclude" => hand[h].at = "ensure"
  PROVE  Sound' /\ Quiet
<1> HandsOK /\ TablesOK
  BY DEF Sound
<1>1. HandsOK' /\ Quiet
  BY EndQuiet, GoQuiet DEF SavePendingApproval, Places, Onward, rows
<1>2. /\ wf' \in WfStatuses /\ task' \in [Steps -> TaskStatuses] /\ card' \in BOOLEAN
      /\ UNCHANGED <<plan, evidence, rows, crashes>> /\ question' \in BOOLEAN
  BY DEF SavePendingApproval, TablesOK, WfStatuses, TaskStatuses
<1>3. QED
  BY <1>1, <1>2, TablesWf DEF Sound

LEMMA CardStep ==
  ASSUME Sound, NEW h \in Hands, Card(h) PROVE Sound' /\ Quiet
<1>1. CASE SavePendingApproval(h, "over")
  BY <1>1, CardSaved
<1>2. CASE End(h) /\ UNCHANGED <<tables, crashes>>
  BY <1>2, EndQuiet, TablesSame DEF Sound, tables, rows
<1>3. QED
  BY <1>1, <1>2 DEF Card

LEMMA VerdictStep ==
  ASSUME Sound, NEW h \in Hands, Verdict(h) PROVE Sound' /\ Quiet
<1> HandsOK /\ TablesOK /\ hand[h] \in Hand /\ HandOK(hand[h], plan, DOMAIN wishes)
  BY DEF Sound, HandsOK
<1>1. UNCHANGED <<plan, task, evidence, rows, card, question, crashes>> /\ hand[h].at = "verdict"
  BY DEF Verdict, At
<1>2. CASE wf' = (IF hand[h].failed THEN wf ELSE StatusWritten("SUCCESS")) /\ End(h)
  BY <1>1, <1>2, EndQuiet, TablesWf, WrittenIs DEF Sound, rows, TablesOK, WfStatuses, Finished
<1>3. CASE Go(h, "ask") /\ UNCHANGED wf
  BY <1>1, <1>3, GoQuiet, TablesSame DEF Sound, Places, Onward, tables, rows
<1>4. CASE /\ Move(h, [hand[h] EXCEPT !.verdict = FinalStatus,
                          !.at = IF FinalStatus = "WAITING_APPROVAL" THEN "ensure" ELSE "conclude"])
           /\ UNCHANGED wf
  <2>1. PICK place \in {"ensure", "conclude"}, v \in {"SUCCESS", "FAILED", "WAITING_APPROVAL"} :
          Move(h, [hand[h] EXCEPT !.verdict = v, !.at = place])
    BY <1>4 DEF FinalStatus
  <2> DEFINE c == [hand[h] EXCEPT !.verdict = v, !.at = place]
  <2>2. HandOK(c, plan, DOMAIN wishes) /\ Follows(c, hand[h])
    <3>1. c \in Hand
      BY DEF Hand, Places
    <3>2. /\ c.orders = hand[h].orders /\ c.fixable = hand[h].fixable /\ c.refused = hand[h].refused
         /\ c.taken = hand[h].taken /\ c.kind = hand[h].kind /\ c.plan = hand[h].plan /\ c.run = hand[h].run /\ c.cur = hand[h].cur /\ c.gates = hand[h].gates /\ c.at = place /\ c.verdict = v
      BY DEF Hand
    <3> HIDE DEF c
    <3>3. QED
      BY <3>1, <3>2, Kept DEF HandOK, Onward
  <2>3. QED
    BY <1>1, <1>4, <2>1, <2>2, MovedQuiet, TablesSame DEF Sound, tables, rows
<1>5. QED
  BY <1>2, <1>3, <1>4 DEF Verdict

LEMMA EnsureStep ==
  ASSUME Sound, NEW h \in Hands, Ensure(h) PROVE Sound' /\ Quiet
<1>1. CASE SavePendingApproval(h, "conclude")
  BY <1>1, CardSaved DEF Ensure, At
<1>2. CASE Go(h, "conclude") /\ UNCHANGED <<tables, crashes>>
  BY <1>2, GoQuiet, TablesSame DEF Sound, tables, rows, Places, Onward, Ensure, At
<1>3. QED
  BY <1>1, <1>2 DEF Ensure

LEMMA EndsStep ==
  ASSUME Sound, NEW h \in Hands, Conclude(h) \/ Fail(h) \/ GiveUp(h) PROVE Sound' /\ Quiet
<1> HandsOK /\ TablesOK
  BY DEF Sound
<1>1. HandsOK' /\ Quiet
  BY EndQuiet DEF Conclude, Fail, GiveUp, rows
<1>2. wf' \in WfStatuses
  <2>1. CASE Conclude(h)
    <3>1. hand[h].verdict \in {"SUCCESS", "FAILED", "WAITING_APPROVAL"}
      BY <2>1 DEF HandsOK, HandOK, Hand, Conclude, At
    <3>2. QED
      BY <2>1, <3>1, WrittenIs DEF Conclude, WfStatuses, Finished
  <2>2. CASE Fail(h) \/ GiveUp(h)
    BY <2>2, WrittenIs DEF Fail, GiveUp, WfStatuses, Finished
  <2>3. QED
    BY <2>1, <2>2
<1>3. QED
  BY <1>1, <1>2, TablesWf DEF Sound, Conclude, Fail, GiveUp, TablesOK

LEMMA AskStep ==
  ASSUME Sound, NEW h \in Hands, Ask(h) PROVE Sound' /\ Quiet
BY GoQuiet, TablesWf, WrittenIs DEF Sound, Ask, Places, Onward, rows, TablesOK, WfStatuses

-------------------------------------------------------------------------------
(* After a decision *)

\* A request made by an idle handler.
LEMMA FreshOK ==
  ASSUME NEW p, NEW n, NEW d, NEW place \in Places, NEW k \in Kinds, NEW cur \in SUBSET Steps,
         cur \subseteq p, place \notin {"idle", "ensure", "conclude"}, k # "again", d.kind # "again"
  PROVE  /\ HandOK([Idle EXCEPT !.at = place, !.kind = k, !.cur = cur], p, n)
         /\ Follows([Idle EXCEPT !.at = place, !.kind = k, !.cur = cur], d)
<1> DEFINE c == [Idle EXCEPT !.at = place, !.kind = k, !.cur = cur]
<1>1. Idle \in Hand
  BY IdleOK
<1>2. c \in Hand
  BY <1>1 DEF Hand
<1>3. /\ c.orders = {} /\ c.fixable = {} /\ c.plan = {} /\ c.run = {} /\ c.cur = cur
      /\ c.taken = {} /\ c.gates = {} /\ c.at = place /\ c.kind = k
  BY DEF Idle
<1> HIDE DEF c
<1>4. HandOK(c, p, n) /\ Follows(c, d)
  BY <1>2, <1>3 DEF HandOK, Follows
<1>5. QED
  BY <1>4 DEF c

LEMMA MadeOK ==
  ASSUME NEW p, NEW n, NEW d, NEW place \in Places, NEW k \in Kinds,
         place \notin {"idle", "ensure", "conclude"}, k # "again", d.kind # "again"
  PROVE  /\ HandOK([Idle EXCEPT !.at = place, !.kind = k], p, n)
         /\ Follows([Idle EXCEPT !.at = place, !.kind = k], d)
<1> DEFINE c == [Idle EXCEPT !.at = place, !.kind = k]
<1>1. c \in Hand
  BY IdleOK DEF Hand
<1>2. /\ c.orders = {} /\ c.fixable = {} /\ c.plan = {} /\ c.run = {} /\ c.cur = {}
      /\ c.taken = {} /\ c.gates = {} /\ c.at = place /\ c.kind = k
  BY DEF Idle
<1> HIDE DEF c
<1>3. HandOK(c, p, n) /\ Follows(c, d)
  BY <1>1, <1>2 DEF HandOK, Follows
<1>4. QED
  BY <1>3 DEF c

LEMMA FreshKind ==
  ASSUME Sound, NEW h \in Hands, Fresh(h) PROVE hand[h].kind # "again"
BY DEF Sound, HandsOK, HandOK, Fresh, At

LEMMA DecideStep ==
  ASSUME QueueAssumptions, Sound, NEW h \in Hands, Decide(h) PROVE Sound' /\ Quiet
<1> HandsOK /\ TablesOK
  BY DEF Sound
<1> DEFINE d == [Idle EXCEPT !.at = "look", !.kind = "service"]
<1>0. HandOK(d, plan, DOMAIN wishes) /\ Follows(d, hand[h])
  BY MadeOK, FreshKind DEF Places, Kinds, Decide
<1>1. HandsOK' /\ Quiet
  BY <1>0, MovedQuiet DEF Decide
<1>2. PICK t \in Gated \cap Awaiting, c \in Codes :
       /\ row' = [row EXCEPT ![t] = IF c = "NONE" THEN "APPROVED" ELSE "REJECTED"]
       /\ code' = IF c = "NONE" THEN code ELSE [code EXCEPT ![t] = c]
  BY DEF Decide, Codes
<1>3. t \in plan /\ t \in Gated
  BY DEF Awaiting
<1>4. row' \in [Steps -> RowStatuses] /\ code' \in [Steps -> Codes]
  BY <1>2, <1>3 DEF TablesOK, RowStatuses
<1>5. \A u \in Steps : row'[u] # "NONE" => u \in plan /\ u \in Gated \cup Viewing
  BY <1>2, <1>3 DEF TablesOK
<1>6. UNCHANGED <<plan, wf, task, evidence, wishes, card, question, crashes>>
  BY DEF Decide
<1>7. TablesOK'
  BY <1>4, <1>5, <1>6 DEF TablesOK
<1>8. QED
  BY <1>1, <1>7 DEF Sound

LEMMA WishesTyped ==
  ASSUME TablesOK
  PROVE  /\ DOMAIN wishes = 1..Len(wishes) /\ Len(wishes) \in Nat
         /\ \A i \in DOMAIN wishes : wishes[i] \in [of : Gated, kind : WishKinds, status : RowStatuses]
<1> DEFINE W == [of : Gated, kind : WishKinds, status : RowStatuses]
<1>1. wishes \in Seq(W)
  BY DEF TablesOK
<1> HIDE DEF W
<1>2. DOMAIN wishes = 1..Len(wishes) /\ Len(wishes) \in Nat /\ \A i \in DOMAIN wishes : wishes[i] \in W
  BY <1>1
<1>3. QED
  BY <1>2 DEF W

LEMMA DecideWishStep ==
  ASSUME QueueAssumptions, Sound, NEW h \in Hands, DecideWish(h)
  PROVE  /\ Sound' /\ UNCHANGED plan /\ DOMAIN wishes' = DOMAIN wishes
         /\ \A i \in DOMAIN wishes :
              /\ wishes'[i].of = wishes[i].of /\ wishes'[i].kind = wishes[i].kind
              /\ wishes[i].status = "APPROVED" => wishes'[i].status = "APPROVED"
         /\ \A g \in Hands : hand'[g] = hand[g] \/ Follows(hand'[g], hand[g])
<1> HandsOK /\ TablesOK
  BY DEF Sound
<1>1. PICK i \in DOMAIN wishes, s \in {"APPROVED", "REJECTED"} :
        Open(i) /\ wishes' = [wishes EXCEPT ![i].status = s]
  BY DEF DecideWish
<1>2. UNCHANGED <<plan, wf, task, evidence, row, code, card, question, crashes>>
  BY DEF DecideWish
<1>3. /\ wishes' \in Seq([of : Gated, kind : WishKinds, status : RowStatuses])
      /\ Len(wishes') = Len(wishes) /\ DOMAIN wishes' = DOMAIN wishes
      /\ \A j \in DOMAIN wishes :
           /\ wishes'[j].of = wishes[j].of /\ wishes'[j].kind = wishes[j].kind
           /\ wishes[j].status = "APPROVED" => wishes'[j].status = "APPROVED"
  <2> DEFINE w == [wishes[i] EXCEPT !.status = s]
  <2>1. w \in [of : Gated, kind : WishKinds, status : RowStatuses] /\ w.of = wishes[i].of
        /\ w.kind = wishes[i].kind
    BY <1>1, WishesTyped DEF RowStatuses
  <2>2. wishes' = [wishes EXCEPT ![i] = w] /\ wishes[i].status = "AWAITING"
    BY <1>1 DEF Open
  <2> HIDE DEF w
  <2>3. QED
    BY <2>1, <2>2 DEF TablesOK
<1>4. TablesOK'
  BY <1>2, <1>3 DEF TablesOK
<1> DEFINE c == [Idle EXCEPT !.at = "look", !.kind = "service"]
<1>5. HandOK(c, plan', DOMAIN wishes') /\ Follows(c, hand[h])
  BY MadeOK, FreshKind DEF Places, Kinds, DecideWish
<1>6. Move(h, c)
  BY DEF DecideWish
<1> HIDE DEF c
<1>7. HandsOK' /\ \A g \in Hands : hand'[g] = hand[g] \/ Follows(hand'[g], hand[g])
  BY <1>2, <1>3, <1>5, <1>6, Moved
<1>8. QED
  BY <1>2, <1>3, <1>4, <1>7 DEF Sound

LEMMA LookStep ==
  ASSUME Sound, NEW h \in Hands, Look(h)
  PROVE  /\ Sound' /\ UNCHANGED <<plan, wishes>>
         /\ \A g \in Hands : g # h => hand'[g] = hand[g]
         /\ hand'[h].taken = {} /\ hand'[h].orders \in {Agreed, {}}
<1> HandsOK /\ TablesOK /\ hand[h] \in Hand /\ HandOK(hand[h], plan, DOMAIN wishes)
  BY DEF Sound, HandsOK
<1>1. TablesOK' /\ UNCHANGED <<plan, wishes>> /\ hand[h].at = "look"
  BY TablesSame DEF Look, tables, rows, At
<1>2. CASE End(h)
  <2>1. hand[h].kind \in Kinds
    BY DEF Hand
  <2>2. HandsOK' /\ hand'[h] = [Over EXCEPT !.kind = hand[h].kind]
        /\ \A g \in Hands : g # h => hand'[g] = hand[g]
    BY <1>1, <1>2, <2>1, OverOK, Moved DEF End
  <2>3. QED
    BY <1>1, <2>2 DEF Sound, Over, Idle
<1>3. CASE ~End(h)
  <2>1. PICK place \in {"sift", "recall"}, refused, approved \in SUBSET Steps :
          Move(h, [hand[h] EXCEPT !.at = place, !.plan = plan, !.orders = Agreed,
                    !.refused = refused, !.fixable = FixableOf(refused), !.approved = approved])
    <3> DEFINE r == {t \in plan : row[t] \in {"REJECTED", "EXPIRED"} /\ ~Closed(t)}
               a == {t \in plan : row[t] = "APPROVED" /\ ~Closed(t)}
    <3>1. r \in SUBSET Steps /\ a \in SUBSET Steps
      BY DEF TablesOK
    <3>2. Move(h, [hand[h] EXCEPT !.at = IF Agreed = {} THEN "sift" ELSE "recall",
                    !.plan = plan, !.orders = Agreed,
                    !.refused = r, !.fixable = FixableOf(r), !.approved = a])
      BY <1>3 DEF Look
    <3> HIDE DEF r, a
    <3>3. QED
      BY <3>1, <3>2
  <2> DEFINE c == [hand[h] EXCEPT !.at = place, !.plan = plan, !.orders = Agreed,
                    !.refused = refused, !.fixable = FixableOf(refused), !.approved = approved]
  <2>2. Agreed \subseteq DOMAIN wishes /\ Agreed \in SUBSET Nat /\ FixableOf(refused) \subseteq refused
        /\ plan \in SUBSET Steps
    BY WishesTyped DEF Agreed, FixableOf, TablesOK
  <2>3. HandOK(c, plan, DOMAIN wishes) /\ c.taken = {} /\ c.orders = Agreed
    BY <1>1, <2>2 DEF HandOK, Hand, Places
  <2> HIDE DEF c
  <2>4. HandsOK' /\ hand'[h] = c /\ \A g \in Hands : g # h => hand'[g] = hand[g]
    BY <1>1, <2>1, <2>3, Moved DEF c
  <2>5. QED
    BY <1>1, <2>3, <2>4 DEF Sound
<1>4. QED
  BY <1>2, <1>3

LEMMA RecallStep ==
  ASSUME Sound, NEW h \in Hands, Recall(h)
  PROVE  /\ Sound' /\ UNCHANGED <<plan, wishes>>
         /\ \A g \in Hands : g # h => hand'[g] = hand[g]
         /\ hand'[h].taken = plan /\ hand'[h].orders \subseteq hand[h].orders
         /\ \A i \in hand'[h].orders : NotCalledOff(wishes[i].of)
<1> HandsOK /\ TablesOK /\ hand[h] \in Hand /\ HandOK(hand[h], plan, DOMAIN wishes)
  BY DEF Sound, HandsOK
<1> DEFINE orders == {i \in hand[h].orders :
                        task[wishes[i].of] = "SUCCESS" /\ NotCalledOff(wishes[i].of)}
           c == [hand[h] EXCEPT !.at = "undo", !.kind = "undo", !.taken = plan, !.orders = orders]
<1>1. Move(h, c)
  BY DEF Recall
<1>2. orders \in SUBSET hand[h].orders /\ \A i \in orders : NotCalledOff(wishes[i].of)
  OBVIOUS
<1> HIDE DEF orders
<1> hand[h].orders \in SUBSET Nat /\ plan \in SUBSET Steps
  BY DEF Hand, TablesOK
<1>3. HandOK(c, plan, DOMAIN wishes) /\ c.taken = plan /\ c.orders = orders
  <2>1. orders \in SUBSET Nat /\ orders \subseteq DOMAIN wishes
    BY <1>2 DEF HandOK
  <2>2. "undo" \in Places /\ "undo" \in Kinds
    BY DEF Places, Kinds
  <2>3. c \in Hand
    BY <2>1, <2>2 DEF Hand
  <2>4. QED
    BY <2>1, <2>3 DEF HandOK, Hand
<1> HIDE DEF c
<1>4. TablesOK' /\ UNCHANGED <<plan, wishes>>
  BY TablesSame DEF Recall, tables, rows
<1>5. HandsOK' /\ hand'[h] = c /\ \A g \in Hands : g # h => hand'[g] = hand[g]
  BY <1>1, <1>3, <1>4, Moved
<1>6. QED
  BY <1>2, <1>3, <1>4, <1>5 DEF Sound

\* The request taken up leaves; its cancellation gets the next name free, if
\* there is one.
LEMMA OrderStep ==
  ASSUME QueueAssumptions, Sound, NEW h \in Hands, Order(h)
  PROVE  /\ Sound' /\ UNCHANGED wishes
         /\ \A g \in Hands : g # h => hand'[g] = hand[g]
         /\ \E i \in hand[h].orders :
              LET free == CancelsOf[wishes[i].of] \ hand[h].taken
                  x == CHOOSE u \in free : TRUE
              IN  /\ hand'[h].orders = hand[h].orders \ {i}
                  /\ IF free = {} THEN UNCHANGED plan /\ hand'[h].taken = hand[h].taken
                     ELSE plan' = plan \cup {x} /\ hand'[h].taken = hand[h].taken \cup {x}
<1> HandsOK /\ TablesOK /\ hand[h] \in Hand /\ HandOK(hand[h], plan, DOMAIN wishes)
  BY DEF Sound, HandsOK
<1>1. UNCHANGED <<wf, task, evidence, rows, card, question, crashes>> /\ hand[h].at = "undo"
  BY DEF Order, At
<1>2. PICK i \in hand[h].orders :
        LET free == CancelsOf[wishes[i].of] \ hand[h].taken
            x == CHOOSE u \in free : TRUE
        IN  IF free = {}
              THEN hand' = [hand EXCEPT ![h].orders = @ \ {i}] /\ UNCHANGED plan
              ELSE /\ plan' = plan \cup {x}
                   /\ Move(h, [hand[h] EXCEPT !.at = "call", !.orders = @ \ {i},
                                   !.cur = {x}, !.taken = @ \cup {x}])
  BY DEF Order
<1> DEFINE free == CancelsOf[wishes[i].of] \ hand[h].taken
           x == CHOOSE u \in free : TRUE
<1>3. wishes[i].of \in Gated /\ free \subseteq Steps
  <2>1. i \in DOMAIN wishes
    BY DEF HandOK
  <2>2. wishes[i].of \in Gated
    BY <2>1, WishesTyped
  <2>3. QED
    BY <2>2 DEF QueueAssumptions
<1>4. CASE free = {}
  <2> DEFINE c == [hand[h] EXCEPT !.orders = @ \ {i}]
  <2>1. HandOK(c, plan, DOMAIN wishes) /\ c.taken = hand[h].taken /\ c.orders = hand[h].orders \ {i}
    BY DEF HandOK, Hand
  <2>2. Move(h, c) /\ UNCHANGED plan
    BY <1>2, <1>4 DEF Move
  <2>3. UNCHANGED wishes
    BY <1>1 DEF rows
  <2> HIDE DEF c
  <2>4. HandsOK' /\ hand'[h] = c /\ \A g \in Hands : g # h => hand'[g] = hand[g]
    BY <2>1, <2>2, <2>3, Moved
  <2>5. TablesOK'
    BY <1>1, <2>2, TablesSame DEF tables
  <2>6. QED
    BY <1>4, <2>1, <2>2, <2>3, <2>4, <2>5 DEF Sound
<1>5. CASE free # {}
  <2>1. x \in free
    BY <1>5
  <2> HIDE DEF x
  <2> DEFINE c == [hand[h] EXCEPT !.at = "call", !.orders = @ \ {i}, !.cur = {x}, !.taken = @ \cup {x}]
  <2>2. plan' = plan \cup {x} /\ x \in Steps /\ UNCHANGED wishes /\ Move(h, c)
    BY <1>1, <1>2, <1>3, <1>5, <2>1 DEF rows, x
  <2>3. HandOK(c, plan', DOMAIN wishes') /\ c.taken = hand[h].taken \cup {x}
        /\ c.orders = hand[h].orders \ {i}
    <3>1. c \in Hand
      BY <2>2 DEF Hand, Places
    <3>2. /\ c.orders = hand[h].orders \ {i} /\ c.fixable = hand[h].fixable /\ c.refused = hand[h].refused
          /\ c.taken = hand[h].taken \cup {x} /\ c.kind = hand[h].kind /\ c.plan = hand[h].plan
          /\ c.run = hand[h].run /\ c.cur = {x} /\ c.gates = hand[h].gates /\ c.at = "call"
      BY DEF Hand
    <3> HIDE DEF c
    <3>3. QED
      BY <2>2, <3>1, <3>2 DEF HandOK
  <2> HIDE DEF c
  <2>4. HandsOK' /\ hand'[h] = c /\ \A g \in Hands : g # h => hand'[g] = hand[g]
    BY <2>2, <2>3, Moved
  <2>5. TablesOK'
    BY <1>1, <2>2 DEF TablesOK, rows
  <2>6. QED
    BY <1>5, <2>2, <2>3, <2>4, <2>5 DEF Sound, x
<1>6. QED
  BY <1>4, <1>5

LEMMA RecalledStep ==
  ASSUME Sound, NEW h \in Hands, Recalled(h) PROVE Sound' /\ Quiet
<1> HandsOK /\ TablesOK /\ hand[h] \in Hand /\ HandOK(hand[h], plan, DOMAIN wishes)
  BY DEF Sound, HandsOK
<1> DEFINE c == [hand[h] EXCEPT !.at = "undo", !.cur = {}, !.outcome = "none"]
           s == IF hand[h].outcome = "ok" THEN "SUCCESS" ELSE "FAILED"
<1>1. PICK t \in hand[h].cur :
         IF task[t] = "CANCELLED" THEN Raised(h) /\ UNCHANGED task
         ELSE task' = [task EXCEPT ![t] = s] /\ Move(h, c) /\ UNCHANGED wf
  BY DEF Recalled
<1>2. t \in Steps /\ s \in TaskStatuses
  BY DEF HandOK, Hand, TaskStatuses, Finished
<1>3. HandOK(c, plan, DOMAIN wishes) /\ Follows(c, hand[h])
  <2>1. c \in Hand
    BY DEF Hand, Places, Outcomes
  <2>2. /\ c.orders = hand[h].orders /\ c.fixable = hand[h].fixable /\ c.refused = hand[h].refused
        /\ c.taken = hand[h].taken /\ c.kind = hand[h].kind /\ c.plan = hand[h].plan
        /\ c.run = hand[h].run /\ c.cur = {} /\ c.gates = hand[h].gates /\ c.at = "undo"
        /\ hand[h].kind = "undo"
    BY DEF Hand, Recalled
  <2> HIDE DEF c
  <2>3. QED
    BY <2>1, <2>2 DEF HandOK, Follows
<1> HIDE DEF c, s
<1>4. QED
  BY <1>1, <1>2, <1>3, SavedOK DEF Recalled

LEMMA SiftStep ==
  ASSUME Sound, NEW h \in Hands, Sift(h) PROVE Sound' /\ Quiet
<1> HandsOK /\ TablesOK /\ hand[h] \in Hand
  BY DEF Sound, HandsOK
<1> DEFINE c == Writing(h, hand[h].refused, "CANCELLED", "trim")
           d == [c EXCEPT !.kind = "service", !.taken = {}]
<1>1. HandOK(c, plan, DOMAIN wishes) /\ Follows(c, hand[h])
  BY WritingOK DEF Hand, Nexts, TaskStatuses, Finished
<1>2. c.at = "write" /\ c.kind = hand[h].kind /\ hand[h].kind # "again"
  BY DEF Writing, Hand, Sound, HandsOK, HandOK, Sift, At
<1> HIDE DEF c
<1>3. HandOK(d, plan, DOMAIN wishes) /\ Follows(d, hand[h])
  <2>1. d \in Hand
    BY <1>1 DEF HandOK, Hand, Kinds
  <2>2. /\ d.orders = c.orders /\ d.fixable = c.fixable /\ d.refused = c.refused
        /\ d.taken = {} /\ d.kind = "service" /\ d.plan = c.plan
        /\ d.run = c.run /\ d.cur = c.cur /\ d.gates = c.gates /\ d.at = "write"
    BY <1>1, <1>2 DEF HandOK, Hand
  <2> HIDE DEF d
  <2>3. QED
    BY <1>1, <1>2, <2>1, <2>2 DEF HandOK, Follows
<1>4. QED
  BY <1>3, MovedQuiet, TablesSame DEF Sound, Sift, tables, rows, c

LEMMA TrimStep ==
  ASSUME Sound, NEW h \in Hands, Trim(h) PROVE Sound' /\ Quiet
<1> HandsOK /\ TablesOK /\ hand[h] \in Hand
  BY DEF Sound, HandsOK
<1> DEFINE kept == PlanWithout(hand[h].plan, hand[h].refused)
           c == Writing(h, Doomed(h), "CANCELLED", "admit")
           d == [c EXCEPT !.plan = kept]
<1>1. kept \subseteq hand[h].plan /\ Doomed(h) \subseteq Steps
  BY PlanWithoutIn DEF Doomed, Hand
<1>2. TablesOK' /\ UNCHANGED <<plan, wishes>>
  BY TablesSame DEF Trim, tables, rows
<1>3. CASE Go(h, "ask") \/ Go(h, "giveUp")
  BY <1>2, <1>3, GoQuiet DEF Sound, Places, Onward
<1>4. CASE Move(h, d)
  <2>1. HandOK(c, plan, DOMAIN wishes) /\ Follows(c, hand[h])
    BY <1>1, WritingOK DEF Nexts, TaskStatuses, Finished
  <2>2. c.at = "write" /\ c.plan = hand[h].plan
    BY DEF Writing, Hand
  <2> HIDE DEF c, kept
  <2>3. HandOK(d, plan, DOMAIN wishes) /\ Follows(d, hand[h])
    BY <1>1, <2>1, <2>2 DEF HandOK, Hand, Follows
  <2>4. QED
    BY <1>2, <1>4, <2>3, MovedQuiet DEF Sound
<1>5. QED
  BY <1>3, <1>4 DEF Trim

LEMMA AdmitStep ==
  ASSUME Sound, NEW h \in Hands, Admit(h) PROVE Sound' /\ Quiet
<1> HandsOK /\ TablesOK /\ hand[h] \in Hand
  BY DEF Sound, HandsOK
<1>1. hand[h].approved \in SUBSET Steps
  BY DEF Hand
<1>2. QED
  BY <1>1, WritingQuiet, TablesSame DEF Sound, Admit, tables, rows, Nexts, TaskStatuses

-------------------------------------------------------------------------------
(* The viewing, the customer and the process *)

LEMMA RowOK ==
  ASSUME QueueAssumptions, TablesOK, NEW t \in Viewing, t \in Awaiting, NEW s \in RowStatuses,
         row' = DecisionOn(t, s),
         UNCHANGED <<plan, wf, task, evidence, code, wishes, card, question, crashes>>
  PROVE  TablesOK'
BY DEF TablesOK, DecisionOn, Awaiting

LEMMA ApproveViewingStep ==
  ASSUME QueueAssumptions, Sound, NEW h \in Hands, ApproveViewing(h) PROVE Sound' /\ Quiet
<1> HandsOK /\ TablesOK
  BY DEF Sound
<1>1. PICK t \in Viewing : /\ t \in Awaiting /\ row' = DecisionOn(t, "APPROVED")
                           /\ Move(h, [Idle EXCEPT !.at = "call", !.kind = "approve", !.cur = {t}])
  BY DEF ApproveViewing, Answerable, DueViewings
<1>2. UNCHANGED <<plan, wf, task, evidence, code, wishes, card, question, crashes>>
  BY DEF ApproveViewing
<1>3. {t} \in SUBSET Steps /\ {t} \subseteq plan
  BY <1>1 DEF QueueAssumptions, Awaiting
<1> DEFINE c == [Idle EXCEPT !.at = "call", !.kind = "approve", !.cur = {t}]
<1>4. HandOK(c, plan, DOMAIN wishes) /\ Follows(c, hand[h])
  <2>1. "call" \in Places /\ "approve" \in Kinds /\ "call" \notin {"ensure", "conclude"}
    BY DEF Places, Kinds
  <2> DEFINE cur == {t}
  <2>2. cur \in SUBSET Steps /\ cur \subseteq plan
    BY <1>3
  <2> HIDE DEF cur
  <2>3. /\ HandOK([Idle EXCEPT !.at = "call", !.kind = "approve", !.cur = cur], plan, DOMAIN wishes)
        /\ Follows([Idle EXCEPT !.at = "call", !.kind = "approve", !.cur = cur], hand[h])
    BY <2>1, <2>2, FreshOK, FreshKind DEF ApproveViewing
  <2>4. QED
    BY <2>3 DEF cur
<1>5. HandsOK' /\ Quiet
  BY <1>1, <1>2, <1>4, MovedQuiet
<1>6. TablesOK'
  BY <1>1, <1>2, RowOK DEF RowStatuses
<1>7. QED
  BY <1>5, <1>6 DEF Sound

LEMMA BookedStep ==
  ASSUME Sound, NEW h \in Hands, Booked(h) PROVE Sound' /\ Quiet
<1> HandsOK /\ TablesOK /\ hand[h] \in Hand /\ HandOK(hand[h], plan, DOMAIN wishes)
  BY DEF Sound, HandsOK
<1>1. UNCHANGED <<plan, evidence, rows, card, question, crashes>>
  BY DEF Booked
<1>2. CASE Move(h, Writing(h, {u \in plan : ~Closed(u)}, "FAILED", "fail")) /\ UNCHANGED <<wf, task>>
  <2>1. {u \in plan : ~Closed(u)} \in SUBSET Steps
    BY DEF TablesOK
  <2>2. QED
    BY <1>1, <1>2, <2>1, WritingQuiet, TablesSame
       DEF Sound, tables, rows, Nexts, TaskStatuses, Finished
<1>3. ASSUME NEW t \in hand[h].cur,
             IF task[t] = "CANCELLED" THEN Raised(h) /\ UNCHANGED task
             ELSE /\ task' = [task EXCEPT ![t] = "SUCCESS"]
                  /\ Move(h, [Idle EXCEPT !.at = "seed", !.kind = "view", !.plan = plan])
                  /\ UNCHANGED wf
      PROVE  Sound' /\ Quiet
  <2> DEFINE c == [Idle EXCEPT !.at = "seed", !.kind = "view", !.plan = plan]
  <2>1. HandOK(c, plan, DOMAIN wishes) /\ Follows(c, hand[h])
    <3>1. plan \in SUBSET Steps
      BY DEF TablesOK
    <3>2. c \in Hand
      <4>1. "seed" \in Places /\ "view" \in Kinds
        BY DEF Places, Kinds
      <4>2. QED
        BY <3>1, <4>1, IdleOK DEF Hand
    <3>3. /\ c.orders = {} /\ c.fixable = {} /\ c.plan = plan /\ c.run = {} /\ c.cur = {}
          /\ c.taken = {} /\ c.gates = {} /\ c.at = "seed" /\ hand[h].kind # "again"
      BY DEF Idle, Booked
    <3> HIDE DEF c
    <3>4. QED
      BY <3>2, <3>3 DEF HandOK, Follows
  <2>2. t \in Steps
    BY DEF Hand
  <2> HIDE DEF c
  <2>3. IF task[t] = "CANCELLED" THEN Raised(h) /\ UNCHANGED task
        ELSE task' = [task EXCEPT ![t] = "SUCCESS"] /\ Move(h, c) /\ UNCHANGED wf
    BY <1>3 DEF c
  <2>4. QED
    BY <1>1, <2>1, <2>2, <2>3, SavedOK DEF TaskStatuses, Finished
<1>4. QED
  BY <1>2, <1>3 DEF Booked

LEMMA RejectViewingStep ==
  ASSUME QueueAssumptions, Sound, NEW h \in Hands, RejectViewing(h) PROVE Sound' /\ Quiet
<1> HandsOK /\ TablesOK
  BY DEF Sound
<1>1. PICK t \in Viewing, place \in {"codeOther", "codeFull"} :
        /\ t \in Awaiting /\ row' = DecisionOn(t, "REJECTED")
        /\ Move(h, [Idle EXCEPT !.at = place, !.kind = "reject", !.cur = {t}])
  BY DEF RejectViewing
<1>2. UNCHANGED <<plan, wf, task, evidence, code, wishes, card, question, crashes>>
  BY DEF RejectViewing
<1>3. {t} \in SUBSET Steps /\ {t} \subseteq plan
  BY <1>1 DEF QueueAssumptions, Awaiting
<1> DEFINE c == [Idle EXCEPT !.at = place, !.kind = "reject", !.cur = {t}]
<1>4. HandOK(c, plan, DOMAIN wishes) /\ Follows(c, hand[h])
  <2>1. place \in Places /\ "reject" \in Kinds /\ place \notin {"ensure", "conclude"}
    BY DEF Places, Kinds
  <2> DEFINE cur == {t}
  <2>2. cur \in SUBSET Steps /\ cur \subseteq plan
    BY <1>3
  <2> HIDE DEF cur
  <2>3. /\ HandOK([Idle EXCEPT !.at = place, !.kind = "reject", !.cur = cur], plan, DOMAIN wishes)
        /\ Follows([Idle EXCEPT !.at = place, !.kind = "reject", !.cur = cur], hand[h])
    BY <2>1, <2>2, FreshOK, FreshKind DEF RejectViewing
  <2>4. QED
    BY <2>3 DEF cur
<1>5. HandsOK' /\ Quiet
  BY <1>1, <1>2, <1>4, MovedQuiet
<1>6. TablesOK'
  BY <1>1, <1>2, RowOK DEF RowStatuses
<1>7. QED
  BY <1>5, <1>6 DEF Sound

LEMMA SaveCodeStep ==
  ASSUME Sound, NEW h \in Hands, SaveCode(h) PROVE Sound' /\ Quiet
<1>1. TablesOK'
  BY DEF Sound, SaveCode, TablesOK, Codes
<1>2. QED
  BY <1>1, GoQuiet DEF Sound, SaveCode, Places, Onward

LEMMA JudgeRefusalStep ==
  ASSUME Sound, NEW h \in Hands, JudgeRefusal(h) PROVE Sound' /\ Quiet
<1> HandsOK /\ TablesOK
  BY DEF Sound
<1> DEFINE open == {t \in plan : ~Closed(t)}
<1>1. open \in SUBSET Steps /\ FixableOf(open) \in SUBSET Steps
  BY DEF TablesOK, FixableOf
<1>2. TablesOK' /\ UNCHANGED <<plan, wishes>>
  BY TablesSame DEF JudgeRefusal, tables, rows
<1>3. \/ Move(h, Writing(h, FixableOf(open), "CANCELLED", "ask"))
      \/ Move(h, Writing(h, open, "FAILED", "fail"))
  BY DEF JudgeRefusal
<1> HIDE DEF open
<1>4. QED
  BY <1>1, <1>2, <1>3, WritingQuiet DEF Sound, Nexts, TaskStatuses, Finished

LEMMA StopStep ==
  ASSUME Sound, NEW h \in Hands, Stop(h) PROVE Sound' /\ Quiet
<1> HandsOK /\ TablesOK
  BY DEF Sound
<1>1. HandsOK' /\ Quiet
  <2>1. "withdraw" \in Places /\ "stop" \in Kinds
    BY DEF Places, Kinds
  <2>2. QED
    BY <2>1, MadeOK, FreshKind, MovedQuiet DEF Stop, rows
<1>2. TablesOK'
  BY TablesWf DEF Stop, TablesOK, WfStatuses, TaskStatuses, Finished
<1>3. QED
  BY <1>1, <1>2 DEF Sound

LEMMA WithdrawStep ==
  ASSUME Sound, NEW h \in Hands, Withdraw(h) PROVE Sound' /\ Quiet
<1>1. TablesOK'
  BY DEF Sound, Withdraw, TablesOK, RowStatuses, Awaiting
<1>2. QED
  BY <1>1, EndQuiet DEF Sound, Withdraw

LEMMA ExpireStep ==
  ASSUME Sound, ExpireStaleViewings PROVE Sound' /\ Quiet
<1>1. TablesOK'
  BY DEF Sound, ExpireStaleViewings, TablesOK, RowStatuses, Awaiting
<1>2. HandsOK' /\ Quiet
  BY DEF Sound, ExpireStaleViewings, HandsOK, Quiet
<1>3. QED
  BY <1>1, <1>2 DEF Sound

LEMMA AgainStep ==
  ASSUME Sound, NEW h \in Hands, Amend(h) \/ Retry(h) PROVE Sound' /\ Quiet
<1> HandsOK /\ TablesOK
  BY DEF Sound
<1>1. PICK place \in {"seed", "reopen"} :
        Move(h, [Idle EXCEPT !.at = place, !.kind = "again", !.plan = plan])
  BY DEF Amend, Retry
<1> DEFINE c == [Idle EXCEPT !.at = place, !.kind = "again", !.plan = plan]
<1>2. HandOK(c, plan, DOMAIN wishes) /\ Follows(c, hand[h])
  <2>1. plan \in SUBSET Steps
    BY DEF TablesOK
  <2>2. c \in Hand
    <3>1. place \in Places /\ "again" \in Kinds
      BY DEF Places, Kinds
    <3>2. QED
      BY <2>1, <3>1, IdleOK DEF Hand
  <2>3. /\ c.orders = {} /\ c.fixable = {} /\ c.plan = plan /\ c.run = {} /\ c.cur = {}
        /\ c.taken = {} /\ c.gates = {} /\ c.at = place /\ c.kind = "again"
    BY DEF Idle
  <2> HIDE DEF c
  <2>4. QED
    BY <2>2, <2>3 DEF HandOK, Follows
<1>3. TablesOK' /\ UNCHANGED <<plan, wishes>>
  BY TablesSame DEF Amend, Retry, tables, rows
<1>4. QED
  BY <1>1, <1>2, <1>3, MovedQuiet DEF Sound

LEMMA WishStep ==
  ASSUME QueueAssumptions, Sound, NEW h \in Hands, Wish(h)
  PROVE  /\ Sound' /\ UNCHANGED plan /\ DOMAIN wishes \subseteq DOMAIN wishes'
         /\ \A i \in DOMAIN wishes : wishes'[i] = wishes[i]
         /\ \A g \in Hands : hand'[g] = hand[g] \/ Follows(hand'[g], hand[g])
<1> HandsOK /\ TablesOK
  BY DEF Sound
<1>1. PICK t \in plan \cap Gated, k \in WishKinds : wishes' = Asking(t, k)
  BY DEF Wish
<1>2. UNCHANGED <<plan, wf, task, evidence, row, code, card, question, crashes>>
      /\ Len(wishes) < MaxWishes
  BY DEF Wish
<1>3. /\ wishes' \in Seq([of : Gated, kind : WishKinds, status : RowStatuses])
      /\ Len(wishes') <= MaxWishes /\ DOMAIN wishes \subseteq DOMAIN wishes'
      /\ \A i \in DOMAIN wishes : wishes'[i] = wishes[i]
  <2> DEFINE W == [of : Gated, kind : WishKinds, status : RowStatuses]
             w == [of |-> t, kind |-> k, status |-> "AWAITING"]
  <2>1. w \in W /\ wishes' = Append(wishes, w) /\ wishes \in Seq(W)
    BY <1>1 DEF RowStatuses, Asking, TablesOK
  <2>2. MaxWishes \in Nat /\ Len(wishes) < MaxWishes
    BY <1>2 DEF QueueAssumptions
  <2> HIDE DEF W, w
  <2>3. QED
    BY <2>1, <2>2 DEF W
<1>4. TablesOK'
  BY <1>2, <1>3 DEF TablesOK
<1>5. HandsOK' /\ \A g \in Hands : hand'[g] = hand[g] \/ Follows(hand'[g], hand[g])
  <2>1. Move(h, [Over EXCEPT !.kind = "wish"])
    BY DEF Wish
  <2>2. "wish" \in Kinds
    BY DEF Kinds
  <2>3. QED
    BY <1>2, <1>3, <2>1, <2>2, OverOK, Moved, FreshKind DEF Wish
<1>6. QED
  BY <1>2, <1>3, <1>4, <1>5 DEF Sound

LEMMA ReopenStep ==
  ASSUME Sound, NEW h \in Hands, Reopen(h) PROVE Sound' /\ Quiet
<1>1. task' \in [Steps -> TaskStatuses]
  BY DEF Sound, Reopen, TablesOK, TaskStatuses
<1>2. TablesOK'
  BY <1>1, TablesWf DEF Sound, Reopen, TablesOK, WfStatuses
<1>3. QED
  BY <1>2, GoQuiet DEF Sound, Reopen, Places, Onward, rows

LEMMA UnlockStep ==
  ASSUME Sound, NEW h \in Hands, Unlock(h) PROVE Sound' /\ Quiet
BY GoQuiet, TablesWf DEF Sound, Unlock, Places, Onward, rows, TablesOK, WfStatuses

LEMMA CrashStep ==
  ASSUME QueueAssumptions, Sound, Crash PROVE Sound' /\ Quiet
<1> HandsOK /\ TablesOK
  BY DEF Sound
<1>1. TablesOK' /\ UNCHANGED <<plan, wishes>>
  BY DEF Crash, TablesOK, tables, rows, QueueAssumptions
<1>2. ASSUME NEW g \in Hands
      PROVE  /\ HandOK(hand'[g], plan, DOMAIN wishes)
             /\ hand'[g] = hand[g] \/ Follows(hand'[g], hand[g])
  <2>1. hand'[g] = hand[g] \/ hand'[g] = [Over EXCEPT !.kind = hand[g].kind]
    BY DEF Crash
  <2>2. hand[g].kind \in Kinds /\ HandOK(hand[g], plan, DOMAIN wishes)
    BY DEF HandsOK, Hand
  <2>3. QED
    BY <2>1, <2>2, OverOK
<1>3. hand' \in [Hands -> Hand]
  <2>1. \A g \in Hands : hand'[g] \in Hand
    BY <1>2 DEF HandOK
  <2>2. DOMAIN hand' = Hands /\ hand' = [g \in Hands |-> hand'[g]]
    BY DEF Crash
  <2>3. QED
    BY <2>1, <2>2
<1>4. QED
  BY <1>1, <1>2, <1>3 DEF Sound, HandsOK, Quiet

-------------------------------------------------------------------------------
(* The names of cancellations are given in one order *)

\* f takes n names of C, one after the other; a segment is what was taken so.
Taken(f, n) == {f[i] : i \in 1..n}

InOrder(C, f, n) ==
  /\ f \in [1..n -> C]
  /\ \A i \in 1..n : LET left == C \ Taken(f, i - 1)
                     IN  left # {} /\ f[i] = CHOOSE u \in left : TRUE

Segment(C, A) == \E n \in Nat : \E f : InOrder(C, f, n) /\ A = Taken(f, n)

LEMMA SegEmpty == ASSUME NEW C PROVE Segment(C, {})
<1> DEFINE f == [i \in 1..0 |-> CHOOSE u \in C : TRUE]
<1>1. f \in [1..0 -> C] /\ Taken(f, 0) = {} /\ \A i \in 1..0 : FALSE
  BY DEF Taken
<1> HIDE DEF f
<1>2. InOrder(C, f, 0)
  BY <1>1 DEF InOrder
<1>3. QED
  BY <1>1, <1>2 DEF Segment

LEMMA SegFinite ==
  ASSUME NEW C, NEW A, Segment(C, A) PROVE A \subseteq C /\ IsFiniteSet(A)
<1>1. PICK n \in Nat : \E f : InOrder(C, f, n) /\ A = Taken(f, n)
  BY DEF Segment
<1>2. PICK f : f \in [1..n -> C] /\ A = Taken(f, n)
  BY <1>1 DEF InOrder
<1>3. f \in Surjection(1..n, A)
  BY <1>2 DEF Surjection, Taken
<1>4. IsFiniteSet(A)
  BY <1>3, FS_Interval, FS_Surjection
<1>5. QED
  BY <1>2, <1>4 DEF Taken

LEMMA SegAdd ==
  ASSUME NEW C, NEW A, Segment(C, A), C \ A # {}
  PROVE  Segment(C, A \cup {CHOOSE u \in C \ A : TRUE})
<1>0. PICK n \in Nat : \E f : InOrder(C, f, n) /\ A = Taken(f, n)
  BY DEF Segment
<1>1. PICK f : InOrder(C, f, n) /\ A = Taken(f, n)
  BY <1>0
<1> DEFINE x == CHOOSE u \in C \ A : TRUE
           g == [i \in 1..(n + 1) |-> IF i = n + 1 THEN x ELSE f[i]]
<1>2. x \in C \ A
  OBVIOUS
<1> HIDE DEF x
<1>3. g \in [1..(n + 1) -> C]
  BY <1>1, <1>2 DEF InOrder
<1>4. \A i \in 1..n : g[i] = f[i]
  OBVIOUS
<1>5. g[n + 1] = x
  OBVIOUS
<1> HIDE DEF g
<1>6. ASSUME NEW i \in 1..(n + 1)
      PROVE  Taken(g, i - 1) = Taken(f, i - 1)
  <2>1. \A j \in 1..(i - 1) : j \in 1..n
    OBVIOUS
  <2>2. QED
    BY <1>4, <2>1 DEF Taken
<1>7. A \cup {x} = Taken(g, n + 1)
  <2>1. n + 1 \in 1..(n + 1) /\ \A i \in 1..n : i \in 1..(n + 1)
    OBVIOUS
  <2>2. \A i \in 1..(n + 1) : i = n + 1 \/ i \in 1..n
    OBVIOUS
  <2>3. QED
    BY <1>1, <1>4, <1>5, <2>1, <2>2 DEF Taken
<1>8. ASSUME NEW i \in 1..(n + 1)
      PROVE  LET left == C \ Taken(g, i - 1)
             IN  left # {} /\ g[i] = CHOOSE u \in left : TRUE
  <2>1. CASE i = n + 1
    <3>1. i - 1 = n
      BY <2>1
    <3>2. Taken(g, i - 1) = A
      BY <1>1, <1>6, <3>1
    <3>3. QED
      BY <1>2, <1>5, <2>1, <3>2 DEF x
  <2>2. CASE i \in 1..n
    BY <1>1, <1>4, <1>6, <2>2 DEF InOrder
  <2>3. QED
    BY <2>1, <2>2
<1>9. InOrder(C, g, n + 1) /\ n + 1 \in Nat
  BY <1>3, <1>8 DEF InOrder
<1>10. Segment(C, A \cup {x})
  BY <1>7, <1>9 DEF Segment
<1>11. QED
  BY <1>10 DEF x

LEMMA Least ==
  ASSUME NEW T \in SUBSET Nat, T # {}
  PROVE  \E n \in T : \A m \in T : n <= m
<1>1. PICK n \in T : \A m \in T : ~(<<m, n>> \in OpToRel(<, Nat))
  BY WFMin, NatLessThanWellFounded
<1>2. ASSUME NEW m \in T PROVE ~(m < n)
  <2> DEFINE pair == <<m, n>>
  <2>1. pair \in Nat \X Nat /\ pair[1] = m /\ pair[2] = n
    OBVIOUS
  <2>2. pair \notin {e \in Nat \X Nat : e[1] < e[2]}
    BY <1>1 DEF OpToRel
  <2> HIDE DEF pair
  <2>3. QED
    BY <2>1, <2>2
<1>3. QED
  BY <1>2

\* Of two segments one begins the other.
LEMMA InOrderAgree ==
  ASSUME NEW C, NEW n \in Nat, NEW m \in Nat, n <= m, NEW f, NEW g, InOrder(C, f, n), InOrder(C, g, m)
  PROVE  \A i \in 1..n : f[i] = g[i]
<1> DEFINE T == {i \in 1..n : f[i] # g[i]}
<1>1. SUFFICES ASSUME T # {} PROVE FALSE
  OBVIOUS
<1>2. PICK i \in T : \A k \in T : i <= k
  <2>1. T \in SUBSET Nat
    OBVIOUS
  <2> HIDE DEF T
  <2>2. QED
    BY <1>1, <2>1, Least
<1>3. i \in 1..n /\ i \in 1..m /\ f[i] # g[i]
  OBVIOUS
<1>4. \A j \in 1..(i - 1) : f[j] = g[j]
  <2>1. ASSUME NEW j \in 1..(i - 1), f[j] # g[j] PROVE FALSE
    <3>1. j \in T /\ j < i
      BY <1>3, <2>1
    <3>2. i <= j /\ i \in Nat /\ j \in Nat
      BY <1>2, <1>3, <3>1
    <3>3. QED
      BY <3>1, <3>2
  <2>2. QED
    BY <2>1
<1>5. Taken(f, i - 1) = Taken(g, i - 1)
  BY <1>4 DEF Taken
<1>6. QED
  BY <1>3, <1>5 DEF InOrder

LEMMA InOrderLonger ==
  ASSUME NEW C, NEW n \in Nat, NEW m \in Nat, n <= m, NEW f, NEW g, InOrder(C, f, n), InOrder(C, g, m),
         NEW A, NEW B, A = Taken(f, n), B = Taken(g, m)
  PROVE  A \subseteq B /\ (A # B => (CHOOSE u \in C \ A : TRUE) \in B)
<1>0. \A i \in 1..n : f[i] = g[i]
  BY InOrderAgree
<1>1. A \subseteq B
  <2>1. \A i \in 1..n : i \in 1..m
    OBVIOUS
  <2>2. QED
    BY <1>0, <2>1 DEF Taken
<1>2. ASSUME A # B PROVE (CHOOSE u \in C \ A : TRUE) \in B
  <2>1. n < m
    <3>1. ASSUME n = m PROVE FALSE
      BY <1>0, <1>2, <3>1 DEF Taken
    <3>2. QED
      BY <3>1
  <2>2. A = Taken(g, n) /\ n + 1 \in 1..m /\ (n + 1) - 1 = n
    BY <1>0, <2>1 DEF Taken
  <2>3. g[n + 1] = CHOOSE u \in C \ A : TRUE
    BY <2>2 DEF InOrder
  <2>4. QED
    BY <2>2, <2>3 DEF Taken
<1>3. QED
  BY <1>1, <1>2

\* The next name after a shorter segment is in the longer one.
LEMMA SegNext ==
  ASSUME NEW C, NEW A, NEW B, Segment(C, A), Segment(C, B), A \subseteq B, C \ A # {}
  PROVE  LET x == CHOOSE u \in C \ A : TRUE
         IN  Segment(C, B \cup {x}) /\ (B \cup {x} = A \cup {x} \/ B \cup {x} = B)
<1>1. CASE A = B
  BY <1>1, SegAdd
<1>2. CASE A # B
  <2>1. PICK n \in Nat : \E f : InOrder(C, f, n) /\ A = Taken(f, n)
    BY DEF Segment
  <2>2. PICK f : InOrder(C, f, n) /\ A = Taken(f, n)
    BY <2>1
  <2>3. PICK m \in Nat : \E g : InOrder(C, g, m) /\ B = Taken(g, m)
    BY DEF Segment
  <2>4. PICK g : InOrder(C, g, m) /\ B = Taken(g, m)
    BY <2>3
  <2>5. n <= m
    <3>1. ASSUME m <= n PROVE FALSE
      <4>1. B \subseteq A
        BY <2>2, <2>4, <3>1, InOrderLonger
      <4>2. QED
        BY <1>2, <4>1
    <3>2. QED
      BY <3>1
  <2>6. (CHOOSE u \in C \ A : TRUE) \in B
    BY <1>2, <2>2, <2>4, <2>5, InOrderLonger
  <2>7. QED
    BY <2>6
<1>3. QED
  BY <1>1, <1>2

-------------------------------------------------------------------------------
(* No more cancellations than were agreed to *)

AgreedOf(w, t) ==
  {i \in DOMAIN w : w[i].of = t /\ w[i].kind = "CANCEL" /\ w[i].status = "APPROVED"}

OrdersOf(c, w, t) == {i \in c.orders : w[i].of = t}

\* What a handler has taken up and may still take up was agreed to.
Within(c, w, t) ==
  /\ Segment(CancelsOf[t], c.taken \cap CancelsOf[t])
  /\ Cardinality(c.taken \cap CancelsOf[t]) + Cardinality(OrdersOf(c, w, t))
       <= Cardinality(AgreedOf(w, t))

CalledOff ==
  \A t \in Gated :
    /\ Segment(CancelsOf[t], plan \cap CancelsOf[t])
    /\ Cardinality(plan \cap CancelsOf[t]) <= Cardinality(AgreedOf(wishes, t))
    /\ \A h \in Hands : Within(hand[h], wishes, t)

\* Nothing that was agreed to is taken back.
Grows == /\ DOMAIN wishes \subseteq DOMAIN wishes'
         /\ \A i \in DOMAIN wishes :
              /\ wishes'[i].of = wishes[i].of /\ wishes'[i].kind = wishes[i].kind
              /\ wishes[i].status = "APPROVED" => wishes'[i].status = "APPROVED"

LEMMA AgreedFinite ==
  ASSUME Sound, NEW t
  PROVE  IsFiniteSet(AgreedOf(wishes, t)) /\ Cardinality(AgreedOf(wishes, t)) \in Nat
         /\ \A h \in Hands : IsFiniteSet(OrdersOf(hand[h], wishes, t))
<1>1. IsFiniteSet(DOMAIN wishes)
  BY WishesTyped, FS_Interval DEF Sound
<1>2. AgreedOf(wishes, t) \subseteq DOMAIN wishes
  BY DEF AgreedOf
<1>3. \A h \in Hands : OrdersOf(hand[h], wishes, t) \subseteq DOMAIN wishes
  BY DEF OrdersOf, Sound, HandsOK, HandOK
<1>4. QED
  BY <1>1, <1>2, <1>3, FS_Subset, FS_CardinalityType

LEMMA AgreedGrows ==
  ASSUME Sound, Sound', Grows, NEW t
  PROVE  /\ Cardinality(AgreedOf(wishes, t)) <= Cardinality(AgreedOf(wishes', t))
         /\ Cardinality(AgreedOf(wishes, t)) \in Nat /\ Cardinality(AgreedOf(wishes', t)) \in Nat
<1>1. AgreedOf(wishes, t) \subseteq AgreedOf(wishes', t)
  BY DEF AgreedOf, Grows
<1>2. IsFiniteSet(AgreedOf(wishes', t))
  <2>1. IsFiniteSet(DOMAIN wishes')
    <3>1. DOMAIN wishes' = 1..Len(wishes') /\ Len(wishes') \in Nat
      <4> DEFINE W == [of : Gated, kind : WishKinds, status : RowStatuses]
      <4>1. wishes' \in Seq(W)
        BY DEF Sound, TablesOK
      <4> HIDE DEF W
      <4>2. QED
        BY <4>1
    <3>2. QED
      BY <3>1, FS_Interval
  <2>2. AgreedOf(wishes', t) \subseteq DOMAIN wishes'
    BY DEF AgreedOf
  <2>3. QED
    BY <2>1, <2>2, FS_Subset
<1>3. QED
  BY <1>1, <1>2, FS_Subset, FS_CardinalityType, AgreedFinite

LEMMA WithinStays ==
  ASSUME Sound, Sound', Grows, NEW t \in Gated, NEW h \in Hands, Within(hand[h], wishes, t),
         hand'[h] = hand[h] \/ Follows(hand'[h], hand[h])
  PROVE  Within(hand'[h], wishes', t)
<1> DEFINE C == CancelsOf[t]
           T == hand[h].taken \cap C
           N == hand'[h].taken \cap C
           O == OrdersOf(hand[h], wishes, t)
           P == OrdersOf(hand'[h], wishes', t)
<1>1. P \subseteq O
  <2>1. hand'[h].orders \subseteq hand[h].orders /\ hand[h].orders \subseteq DOMAIN wishes
    BY DEF Follows, Sound, HandsOK, HandOK
  <2>2. QED
    BY <2>1 DEF OrdersOf, Grows
<1>2. IsFiniteSet(O) /\ Cardinality(P) <= Cardinality(O) /\ Cardinality(O) \in Nat
      /\ Cardinality(P) \in Nat
  BY <1>1, AgreedFinite, FS_Subset, FS_CardinalityType
<1>3. IsFiniteSet(T) /\ Cardinality(T) \in Nat
  BY SegFinite, FS_CardinalityType DEF Within
<1>4. N = T \/ N = {}
  BY DEF Follows
<1>5. Segment(C, N) /\ Cardinality(N) <= Cardinality(T) /\ Cardinality(N) \in Nat
  <2>1. Segment(C, T) /\ Segment(C, {}) /\ Cardinality({}) = 0
    BY SegEmpty, FS_EmptySet DEF Within
  <2> HIDE DEF N, T, C
  <2>2. QED
    BY <1>3, <1>4, <2>1
<1>6. Cardinality(T) + Cardinality(O) <= Cardinality(AgreedOf(wishes, t))
  BY DEF Within
<1>7. /\ Cardinality(AgreedOf(wishes, t)) <= Cardinality(AgreedOf(wishes', t))
      /\ Cardinality(AgreedOf(wishes, t)) \in Nat /\ Cardinality(AgreedOf(wishes', t)) \in Nat
  BY AgreedGrows
<1> HIDE DEF N, P, T, O
<1>8. Cardinality(N) + Cardinality(P) <= Cardinality(AgreedOf(wishes', t))
  BY <1>2, <1>3, <1>5, <1>6, <1>7
<1>9. QED
  BY <1>5, <1>8 DEF Within, N, P

LEMMA QuietKeeps ==
  ASSUME Sound, Sound', Quiet, CalledOff PROVE CalledOff'
<1>1. Grows
  BY DEF Quiet, Grows
<1>2. \A t \in Gated : \A h \in Hands : Within(hand'[h], wishes', t)
  BY <1>1, WithinStays DEF CalledOff, Quiet
<1>3. QED
  BY <1>2 DEF CalledOff, Quiet

LEMMA GrowsKeeps ==
  ASSUME Sound, Sound', Grows, CalledOff, UNCHANGED plan,
         \A g \in Hands : hand'[g] = hand[g] \/ Follows(hand'[g], hand[g])
  PROVE  CalledOff'
<1>1. \A t \in Gated : \A h \in Hands : Within(hand'[h], wishes', t)
  BY WithinStays DEF CalledOff
<1>2. ASSUME NEW t \in Gated
      PROVE  Cardinality(plan \cap CancelsOf[t]) <= Cardinality(AgreedOf(wishes', t))
  <2>1. /\ Cardinality(AgreedOf(wishes, t)) <= Cardinality(AgreedOf(wishes', t))
        /\ Cardinality(AgreedOf(wishes, t)) \in Nat /\ Cardinality(AgreedOf(wishes', t)) \in Nat
        /\ Cardinality(plan \cap CancelsOf[t]) <= Cardinality(AgreedOf(wishes, t))
    BY AgreedGrows DEF CalledOff
  <2>2. Cardinality(plan \cap CancelsOf[t]) \in Nat
    BY SegFinite, FS_CardinalityType DEF CalledOff
  <2>3. QED
    BY <2>1, <2>2
<1>3. QED
  BY <1>1, <1>2 DEF CalledOff

LEMMA LookKeeps ==
  ASSUME QueueAssumptions, Sound, NEW h \in Hands, Look(h), CalledOff PROVE CalledOff'
<1>1. /\ Sound' /\ UNCHANGED <<plan, wishes>>
      /\ \A g \in Hands : g # h => hand'[g] = hand[g]
      /\ hand'[h].taken = {} /\ hand'[h].orders \in {Agreed, {}}
  BY LookStep
<1>2. \A t \in Gated : \A g \in Hands : g # h => Within(hand'[g], wishes', t)
  BY <1>1 DEF CalledOff
<1>3. ASSUME NEW t \in Gated PROVE Within(hand'[h], wishes', t)
  <2> DEFINE O == OrdersOf(hand'[h], wishes, t)
             A == AgreedOf(wishes, t)
  <2>1. O \subseteq A
    BY <1>1 DEF OrdersOf, AgreedOf, Agreed
  <2>2. IsFiniteSet(A) /\ Cardinality(A) \in Nat
    BY AgreedFinite
  <2>3. Cardinality(O) <= Cardinality(A) /\ Cardinality(O) \in Nat
    BY <2>1, <2>2, FS_Subset, FS_CardinalityType
  <2>4. hand'[h].taken \cap CancelsOf[t] = {} /\ Segment(CancelsOf[t], {}) /\ Cardinality({}) = 0
    BY <1>1, SegEmpty, FS_EmptySet
  <2> HIDE DEF O, A
  <2>5. 0 + Cardinality(O) <= Cardinality(A)
    BY <2>2, <2>3
  <2>6. QED
    BY <1>1, <2>4, <2>5 DEF Within, O, A
<1>4. QED
  BY <1>1, <1>2, <1>3 DEF CalledOff

LEMMA RecallKeeps ==
  ASSUME QueueAssumptions, Sound, NEW h \in Hands, Recall(h), CalledOff PROVE CalledOff'
<1>1. /\ Sound' /\ UNCHANGED <<plan, wishes>>
      /\ \A g \in Hands : g # h => hand'[g] = hand[g]
      /\ hand'[h].taken = plan /\ hand'[h].orders \subseteq hand[h].orders
      /\ \A i \in hand'[h].orders : NotCalledOff(wishes[i].of)
  BY RecallStep
<1>2. \A t \in Gated : \A g \in Hands : g # h => Within(hand'[g], wishes', t)
  BY <1>1 DEF CalledOff
<1>3. ASSUME NEW t \in Gated PROVE Within(hand'[h], wishes', t)
  <2> DEFINE O == OrdersOf(hand'[h], wishes, t)
             P == OrdersOf(hand[h], wishes, t)
             A == AgreedOf(wishes, t)
             T == hand[h].taken \cap CancelsOf[t]
             N == plan \cap CancelsOf[t]
  <2>1. O \subseteq P
    BY <1>1 DEF OrdersOf
  <2>2. IsFiniteSet(P) /\ Cardinality(A) \in Nat
    BY AgreedFinite
  <2>3. Cardinality(O) <= Cardinality(P) /\ Cardinality(O) \in Nat /\ Cardinality(P) \in Nat
    BY <2>1, <2>2, FS_Subset, FS_CardinalityType
  <2>4. Segment(CancelsOf[t], N) /\ Cardinality(N) <= Cardinality(A) /\ Cardinality(N) \in Nat
    BY SegFinite, FS_CardinalityType DEF CalledOff
  <2>5. Cardinality(T) + Cardinality(P) <= Cardinality(A) /\ Cardinality(T) \in Nat
    <3>1. Within(hand[h], wishes, t)
      BY DEF CalledOff
    <3>2. QED
      BY <3>1, SegFinite, FS_CardinalityType DEF Within
  <2>6. O = {} \/ N = {}
    BY <1>1 DEF OrdersOf, NotCalledOff
  <2>7. Cardinality({}) = 0
    BY FS_EmptySet
  <2> HIDE DEF O, P, A, T, N
  <2>8. Cardinality(N) + Cardinality(O) <= Cardinality(A)
    <3>1. CASE O = {}
      BY <2>2, <2>4, <2>7, <3>1
    <3>2. CASE N = {}
      BY <2>2, <2>3, <2>5, <2>7, <3>2
    <3>3. QED
      BY <2>6, <3>1, <3>2
  <2>9. QED
    BY <1>1, <2>4, <2>8 DEF Within, O, A, N
<1>4. QED
  BY <1>1, <1>2, <1>3 DEF CalledOff

LEMMA OrderKeeps ==
  ASSUME QueueAssumptions, Sound, NEW h \in Hands, Order(h), CalledOff PROVE CalledOff'
<1>1. /\ Sound' /\ UNCHANGED wishes
      /\ \A g \in Hands : g # h => hand'[g] = hand[g]
      /\ \E i \in hand[h].orders :
           LET free == CancelsOf[wishes[i].of] \ hand[h].taken
               x == CHOOSE u \in free : TRUE
           IN  /\ hand'[h].orders = hand[h].orders \ {i}
               /\ IF free = {} THEN UNCHANGED plan /\ hand'[h].taken = hand[h].taken
                  ELSE plan' = plan \cup {x} /\ hand'[h].taken = hand[h].taken \cup {x}
  BY OrderStep
<1>2. PICK i \in hand[h].orders :
        LET free == CancelsOf[wishes[i].of] \ hand[h].taken
            x == CHOOSE u \in free : TRUE
        IN  /\ hand'[h].orders = hand[h].orders \ {i}
            /\ IF free = {} THEN UNCHANGED plan /\ hand'[h].taken = hand[h].taken
               ELSE plan' = plan \cup {x} /\ hand'[h].taken = hand[h].taken \cup {x}
  BY <1>1
<1> DEFINE s == wishes[i].of
           C == CancelsOf[s]
           free == C \ hand[h].taken
           x == CHOOSE u \in free : TRUE
           T == hand[h].taken \cap C
<1>3. s \in Gated
  <2>1. i \in DOMAIN wishes
    BY DEF Sound, HandsOK, HandOK
  <2>2. QED
    BY <2>1, WishesTyped DEF Sound
<1>4. CASE free = {}
  <2>1. UNCHANGED plan /\ hand'[h].orders \subseteq hand[h].orders /\ hand'[h].taken = hand[h].taken
    BY <1>2, <1>4
  <2>2. Grows
    BY <1>1 DEF Grows
  <2>3. QED
    <3>1. hand[h].kind = "again" => hand'[h].kind = "again"
      BY DEF Order, At, Sound, HandsOK, HandOK
    <3>2. QED
      BY <1>1, <2>1, <2>2, <3>1, GrowsKeeps DEF Follows
<1>5. CASE free # {}
  <2>1. /\ plan' = plan \cup {x} /\ hand'[h].taken = hand[h].taken \cup {x}
        /\ hand'[h].orders = hand[h].orders \ {i} /\ x \in free
    BY <1>2, <1>5
  <2>2. T = C \cap hand[h].taken /\ C \ T = free
    OBVIOUS
  <2>3. Segment(C, T) /\ Segment(C, plan \cap C)
        /\ Cardinality(T) + Cardinality(OrdersOf(hand[h], wishes, s)) <= Cardinality(AgreedOf(wishes, s))
        /\ Cardinality(plan \cap C) <= Cardinality(AgreedOf(wishes, s))
    BY <1>3 DEF CalledOff, Within
  <2>4. T \subseteq plan \cap C
    BY DEF Sound, HandsOK, HandOK
  <2>5. x = CHOOSE u \in C \ T : TRUE
    BY <2>2
  <2> HIDE DEF x, T, free, C, s
  <2>6. /\ Segment(C, (plan \cap C) \cup {x}) /\ Segment(C, T \cup {x})
        /\ (plan \cap C) \cup {x} = T \cup {x} \/ (plan \cap C) \cup {x} = plan \cap C
    BY <1>5, <2>2, <2>3, <2>4, <2>5, SegNext, SegAdd
  <2>7. Cardinality(T \cup {x}) + Cardinality(OrdersOf(hand'[h], wishes, s))
          <= Cardinality(AgreedOf(wishes, s))
    <3> DEFINE O == OrdersOf(hand[h], wishes, s)
    <3>1. i \in O /\ OrdersOf(hand'[h], wishes, s) = O \ {i}
      BY <2>1 DEF OrdersOf, s
    <3>2. IsFiniteSet(O) /\ Cardinality(AgreedOf(wishes, s)) \in Nat
      BY AgreedFinite
    <3>3. Cardinality(O \ {i}) = Cardinality(O) - 1 /\ Cardinality(O) \in Nat
      BY <3>1, <3>2, FS_RemoveElement, FS_CardinalityType
    <3>4. IsFiniteSet(T) /\ x \notin T
      BY <2>1, <2>2, <2>3, SegFinite
    <3>5. Cardinality(T \cup {x}) = Cardinality(T) + 1 /\ Cardinality(T) \in Nat
      BY <3>4, FS_AddElement, FS_CardinalityType
    <3> HIDE DEF O
    <3>6. QED
      BY <2>3, <3>1, <3>2, <3>3, <3>5 DEF O
  <2>8. Cardinality((plan \cap C) \cup {x}) <= Cardinality(AgreedOf(wishes, s))
    <3>1. IsFiniteSet(OrdersOf(hand'[h], wishes, s)) /\ Cardinality(AgreedOf(wishes, s)) \in Nat
      <4>1. OrdersOf(hand'[h], wishes, s) \subseteq OrdersOf(hand[h], wishes, s)
        BY <2>1 DEF OrdersOf
      <4>2. QED
        BY <4>1, AgreedFinite, FS_Subset
    <3>2. Cardinality(OrdersOf(hand'[h], wishes, s)) \in Nat /\ Cardinality(T \cup {x}) \in Nat
      BY <2>6, <3>1, SegFinite, FS_CardinalityType
    <3>3. Cardinality(T \cup {x}) <= Cardinality(AgreedOf(wishes, s))
      BY <2>7, <3>1, <3>2
    <3>4. QED
      BY <2>3, <2>6, <3>3
  <2>9. ASSUME NEW t \in Gated, t # s PROVE CancelsOf[t] \cap {x} = {}
    <3>1. CancelsOf[t] \cap C = {} /\ x \in C
      BY <1>3, <2>1, <2>2, <2>9 DEF QueueAssumptions, C
    <3>2. QED
      BY <3>1
  <2>10. ASSUME NEW t \in Gated
         PROVE  /\ Segment(CancelsOf[t], plan' \cap CancelsOf[t])
                /\ Cardinality(plan' \cap CancelsOf[t]) <= Cardinality(AgreedOf(wishes', t))
    <3>1. CASE t = s
      <4>1. x \in C
        BY <2>1, <2>2
      <4>2. plan' \cap C = (plan \cap C) \cup {x}
        BY <2>1, <4>1
      <4>3. QED
        BY <1>1, <2>6, <2>8, <3>1, <4>2 DEF C
    <3>2. CASE t # s
      <4>1. plan' \cap CancelsOf[t] = plan \cap CancelsOf[t]
        BY <2>1, <2>9, <3>2
      <4>2. QED
        BY <1>1, <4>1 DEF CalledOff
    <3>3. QED
      BY <3>1, <3>2
  <2>11. ASSUME NEW t \in Gated PROVE Within(hand'[h], wishes', t)
    <3>1. CASE t = s
      <4>1. x \in C
        BY <2>1, <2>2
      <4>2. hand'[h].taken \cap C = T \cup {x}
        BY <2>1, <4>1 DEF T
      <4>3. QED
        BY <1>1, <2>6, <2>7, <3>1, <4>2 DEF Within, C
    <3>2. CASE t # s
      <4>1. hand'[h].taken \cap CancelsOf[t] = hand[h].taken \cap CancelsOf[t]
        BY <2>1, <2>9, <3>2
      <4>2. OrdersOf(hand'[h], wishes, t) = OrdersOf(hand[h], wishes, t)
        BY <2>1, <3>2 DEF OrdersOf, s
      <4>3. QED
        BY <1>1, <4>1, <4>2 DEF CalledOff, Within
    <3>3. QED
      BY <3>1, <3>2
  <2>12. \A t \in Gated : \A g \in Hands : g # h => Within(hand'[g], wishes', t)
    BY <1>1 DEF CalledOff
  <2>13. QED
    BY <2>10, <2>11, <2>12 DEF CalledOff
<1>6. QED
  BY <1>4, <1>5

LEMMA InitKeeps ==
  ASSUME QueueAssumptions, QueueInit PROVE Sound /\ CalledOff
<1>0. code \in [Steps -> Codes] /\ card \in BOOLEAN /\ question \in BOOLEAN /\ crashes \in 0..MaxCrashes
  <2>1. card \in BOOLEAN /\ question \in BOOLEAN
    BY DEF QueueInit
  <2>2. code \in [Steps -> Codes] /\ crashes \in 0..MaxCrashes
    BY DEF QueueInit, Codes, QueueAssumptions
  <2>3. QED
    BY <2>1, <2>2
<1>1. TablesOK /\ \A h \in Hands : hand[h].orders = {} /\ hand[h].taken = {}
  <2>1. CASE Planned
    <3>1. TablesOK
      <4> DEFINE W == [of : Gated, kind : WishKinds, status : RowStatuses]
      <4>1. wishes \in Seq(W) /\ Len(wishes) = 0
        BY <2>1 DEF Planned
      <4>2. plan \subseteq Steps
        BY <2>1 DEF Planned, QueueAssumptions
      <4>3. /\ wf \in WfStatuses /\ task \in [Steps -> TaskStatuses] /\ row \in [Steps -> RowStatuses]
            /\ \A t \in Steps : row[t] = "NONE" /\ evidence[t] = "NOT_SUBMITTED"
            /\ evidence \in [Steps -> {"NOT_SUBMITTED", "SUBMITTING", "ACKNOWLEDGED", "UNKNOWN"}]
        BY <2>1 DEF Planned, TaskStatuses, RowStatuses, WfStatuses
      <4>4. Len(wishes) <= MaxWishes
        BY <4>1 DEF QueueAssumptions
      <4> HIDE DEF W
      <4>5. QED
        BY <4>1, <4>2, <4>3, <4>4, <1>0 DEF TablesOK, WfStatuses, W
    <3>2. \A h \in Hands : hand[h].orders = {} /\ hand[h].taken = {}
      BY <2>1 DEF Planned, Idle
    <3>3. QED
      BY <3>1, <3>2
  <2>2. CASE Served
    <3>1. PICK n \in 1..MaxWishes : \E of \in [1..n -> plan \cap Gated] :
            wishes = [i \in 1..n |-> [of |-> of[i], kind |-> "CANCEL", status |-> "AWAITING"]]
      BY <2>2 DEF Served
    <3>2. PICK of \in [1..n -> plan \cap Gated] :
            wishes = [i \in 1..n |-> [of |-> of[i], kind |-> "CANCEL", status |-> "AWAITING"]]
      BY <3>1
    <3> DEFINE W == [of : Gated, kind : WishKinds, status : RowStatuses]
    <3>3. \A i \in 1..n : wishes[i] \in W
      BY <3>2 DEF WishKinds, RowStatuses
    <3>4. DOMAIN wishes = 1..n /\ n \in Nat /\ n <= MaxWishes
      BY <3>2 DEF QueueAssumptions
    <3> HIDE DEF W
    <3>5. wishes \in Seq(W) /\ Len(wishes) = n
      <4>1. wishes \in [1..n -> W]
        BY <3>2, <3>3, <3>4
      <4>2. QED
        BY <3>4, <4>1
    <3>6. plan \subseteq Steps
      BY <2>2 DEF Served, QueueAssumptions
    <3>7. TablesOK
      <4>1. /\ wf \in WfStatuses /\ task \in [Steps -> TaskStatuses] /\ row \in [Steps -> RowStatuses]
            /\ \A t \in Steps : row[t] # "NONE" => t \in plan /\ t \in Gated
            /\ \A t \in Steps : evidence[t] # "NOT_SUBMITTED" => t \in plan
            /\ evidence \in [Steps -> {"NOT_SUBMITTED", "SUBMITTING", "ACKNOWLEDGED", "UNKNOWN"}]
        BY <2>2 DEF Served, TaskStatuses, RowStatuses, WfStatuses, Finished
      <4>2. QED
        BY <3>4, <3>5, <3>6, <4>1, <1>0 DEF TablesOK, WfStatuses, W
    <3>8. \A h \in Hands : hand[h].orders = {} /\ hand[h].taken = {}
      BY <2>2 DEF Served, Idle, Over
    <3>9. QED
      BY <3>7, <3>8
  <2>3. QED
    BY <2>1, <2>2 DEF QueueInit
<1>2. HandsOK
  <2> DEFINE c == [Idle EXCEPT !.at = "seed", !.kind = "first", !.plan = plan]
  <2>1. HandOK(c, plan, DOMAIN wishes)
    <3>1. plan \in SUBSET Steps
      BY <1>1 DEF TablesOK
    <3>2. "seed" \in Places /\ "first" \in Kinds
      BY DEF Places, Kinds
    <3>3. c \in Hand
      BY <3>1, <3>2, IdleOK DEF Hand
    <3>4. /\ c.orders = {} /\ c.fixable = {} /\ c.plan = plan /\ c.run = {} /\ c.cur = {}
          /\ c.taken = {} /\ c.gates = {} /\ c.at = "seed"
      BY DEF Idle
    <3> HIDE DEF c
    <3>5. QED
      BY <3>3, <3>4 DEF HandOK
  <2>2. HandOK(Idle, plan, DOMAIN wishes)
    BY IdleOK DEF HandOK, Idle
  <2>3. HandOK([Over EXCEPT !.kind = "first"], plan, DOMAIN wishes)
    BY OverOK DEF Kinds
  <2> HIDE DEF c
  <2>4. \E d : /\ HandOK(d, plan, DOMAIN wishes)
               /\ hand = [h \in Hands |-> IF h = Job THEN d ELSE Idle]
    <3>1. CASE Planned
      BY <2>1, <3>1 DEF Planned, c
    <3>2. CASE Served
      BY <2>3, <3>2 DEF Served
    <3>3. QED
      BY <3>1, <3>2 DEF QueueInit
  <2>5. QED
    BY <2>2, <2>4 DEF HandsOK, HandOK
<1>3. CalledOff
  <2>1. ASSUME NEW t \in Gated PROVE plan \cap CancelsOf[t] = {}
    BY DEF QueueAssumptions, QueueInit, Planned, Served
  <2>2. ASSUME NEW t \in Gated, NEW h \in Hands PROVE Within(hand[h], wishes, t)
    <3>1. hand[h].taken \cap CancelsOf[t] = {} /\ OrdersOf(hand[h], wishes, t) = {}
      BY <1>1 DEF OrdersOf
    <3>2. Cardinality(AgreedOf(wishes, t)) \in Nat
      BY <1>1, <1>2, AgreedFinite DEF Sound
    <3>3. Segment(CancelsOf[t], {}) /\ Cardinality({}) = 0
      BY SegEmpty, FS_EmptySet
    <3>4. Cardinality({}) + Cardinality({}) <= Cardinality(AgreedOf(wishes, t))
      BY <3>2, <3>3
    <3>5. QED
      BY <3>1, <3>3, <3>4 DEF Within
  <2>3. ASSUME NEW t \in Gated
        PROVE  /\ Segment(CancelsOf[t], plan \cap CancelsOf[t])
               /\ Cardinality(plan \cap CancelsOf[t]) <= Cardinality(AgreedOf(wishes, t))
    <3>1. Cardinality(AgreedOf(wishes, t)) \in Nat
      BY <1>1, <1>2, AgreedFinite DEF Sound
    <3>2. Segment(CancelsOf[t], {}) /\ Cardinality({}) = 0
      BY SegEmpty, FS_EmptySet
    <3>3. QED
      BY <2>1, <3>1, <3>2
  <2>4. QED
    BY <2>2, <2>3 DEF CalledOff
<1>4. QED
  BY <1>1, <1>2, <1>3 DEF Sound

\* Every step but five is quiet.
LEMMA Steps1 ==
  ASSUME QueueAssumptions, Sound, QueueNext
  PROVE  \/ Sound' /\ Quiet
         \/ \E h \in Hands : Look(h) \/ Recall(h) \/ Order(h) \/ DecideWish(h) \/ Wish(h)
<1>1. ASSUME NEW h \in Hands, Goes(h), ~Look(h), ~Recall(h), ~Order(h) PROVE Sound' /\ Quiet
  BY <1>1, WriteStep, SeedStep, StartStep, BeginStep, PrepareStep, AnswerStep, SaveStep, StuckStep,
     ExhaustedStep, GateStep, ParkStep, PinStep, HoldStep, PauseStep, PinViewingStep, CardStep,
     VerdictStep, EnsureStep, EndsStep, AskStep, RecalledStep, SiftStep, TrimStep, AdmitStep,
     BookedStep, SaveCodeStep, JudgeRefusalStep, WithdrawStep, ReopenStep, UnlockStep DEF Goes
<1>2. ASSUME NEW h \in Hands, Decides(h), ~DecideWish(h) PROVE Sound' /\ Quiet
  BY <1>2, DecideStep, ApproveViewingStep, RejectViewingStep DEF Decides
<1>3. ASSUME NEW h \in Hands, Asks(h), ~Wish(h) PROVE Sound' /\ Quiet
  BY <1>3, StopStep, AgainStep DEF Asks
<1>4. QED
  BY <1>1, <1>2, <1>3, ExpireStep, CrashStep DEF QueueNext, Decides, Asks

LEMMA NextKeeps ==
  ASSUME QueueAssumptions, Sound, CalledOff, [QueueNext]_vars PROVE Sound' /\ CalledOff'
<1>1. CASE UNCHANGED vars
  BY <1>1 DEF vars, rows, Sound, TablesOK, HandsOK, CalledOff
<1>2. CASE Sound' /\ Quiet
  BY <1>2, QuietKeeps
<1>3. ASSUME NEW h \in Hands, Look(h) \/ Recall(h) \/ Order(h) PROVE Sound' /\ CalledOff'
  BY <1>3, LookKeeps, LookStep, RecallKeeps, RecallStep, OrderKeeps, OrderStep
<1>4. ASSUME NEW h \in Hands, DecideWish(h) PROVE Sound' /\ CalledOff'
  BY <1>4, DecideWishStep, GrowsKeeps DEF Grows
<1>5. ASSUME NEW h \in Hands, Wish(h) PROVE Sound' /\ CalledOff'
  BY <1>5, WishStep, GrowsKeeps DEF Grows
<1>6. QED
  BY <1>1, <1>2, <1>3, <1>4, <1>5, Steps1

\* In every reachable state the rows and the handlers hold what Sound allows,
\* and cancellations are named and counted as CalledOff says.
THEOREM QueueSound == ASSUME QueueAssumptions PROVE QueueSpec => [](Sound /\ CalledOff)
BY InitKeeps, NextKeeps, PTL DEF QueueSpec

LEMMA SoundTyped == Sound => QTypeOK
BY DEF Sound, TablesOK, HandsOK, HandOK, QTypeOK

LEMMA AsAgreed == ASSUME Sound, CalledOff PROVE CalledOffAsAgreed
<1>1. SUFFICES ASSUME NEW t \in Gated
               PROVE  Cardinality({x \in CancelsOf[t] : evidence[x] # "NOT_SUBMITTED"})
                        <= Cardinality(AgreedOf(wishes, t))
  BY DEF CalledOffAsAgreed, AgreedOf
<1> DEFINE sent == {x \in CancelsOf[t] : evidence[x] # "NOT_SUBMITTED"}
<1>2. sent \subseteq plan \cap CancelsOf[t]
  BY DEF Sound, TablesOK
<1>3. IsFiniteSet(plan \cap CancelsOf[t]) /\ Cardinality(plan \cap CancelsOf[t]) \in Nat
  BY SegFinite, FS_CardinalityType DEF CalledOff
<1>4. Cardinality(sent) <= Cardinality(plan \cap CancelsOf[t]) /\ Cardinality(sent) \in Nat
  BY <1>2, <1>3, FS_Subset, FS_CardinalityType
<1>5. Cardinality(plan \cap CancelsOf[t]) <= Cardinality(AgreedOf(wishes, t))
      /\ Cardinality(AgreedOf(wishes, t)) \in Nat
  BY AgreedFinite DEF CalledOff
<1>6. QED
  BY <1>3, <1>4, <1>5

\* The rows of the queue keep their types, a row is one of a company's step of
\* the plan, and a handler's requests exist (service_approvals.py).
THEOREM QueueTyped == ASSUME QueueAssumptions PROVE QueueSpec => []QTypeOK
BY QueueSound, SoundTyped, PTL

\* No booking is called off more often than its company agreed to, whatever
\* resumes overlap or die on the way (support_request.py:135-142).
THEOREM CancelledAsAgreed == ASSUME QueueAssumptions PROVE QueueSpec => []CalledOffAsAgreed
BY QueueSound, AsAgreed, PTL

-------------------------------------------------------------------------------
(* Sent when the company has answered *)

\* Nobody reran the workflow and no request was made about a booking.
Calm == (\A h \in Hands : hand[h].kind # "again") /\ wishes = <<>>

\* The company of t has answered, or t was called off; without a viewing in the
\* plan the answer was not a refusal.
Done(r, s, t) == r[t] \notin {"NONE", "AWAITING"} \/ s[t] = "CANCELLED"
Free(r, s, p, t) ==
  Done(r, s, t) /\ (p \cap Viewing = {} => r[t] # "REJECTED" \/ s[t] = "CANCELLED")

Waits == {"PENDING", "WAITING_APPROVAL", "CANCELLED"}

\* A handler that has looked at the answers, and has not yet taken the refused
\* steps out of its plan; and one that has.
Sifting(c) == c.at \in {"sift", "trim"} \/ (c.at = "write" /\ c.next = "trim")
Admitting(c) == c.at \in {"admit", "seed"} \/ (c.at = "write" /\ c.next \in {"admit", "seed"})

\* What each kind of handler may be doing.
RightPlace(h, c) ==
  /\ c.kind = "first" <=> h = Job
  /\ c.kind # "undo" /\ c.at \notin {"recall", "undo", "reopen", "unlock"}
  /\ c.kind \in {"none", "stop", "wish"} => c.at \in {"idle", "withdraw", "over"}
  /\ c.at = "seed" => c.kind \in {"first", "service", "view"}
  /\ c.at \in {"codeOther", "codeFull", "judge"} => c.kind = "reject"
  /\ c.at \in {"look", "sift", "trim", "admit"} \/ (c.at = "write" /\ c.next \in {"trim", "admit", "seed"})
       => c.kind = "service"
  /\ h # Job => /\ c.gates \cap Gated = {} /\ (c.kind # "service" => c.gates \cap Viewing = {})
                /\ c.at \notin {"pin", "hold", "pinViewing", "holdViewing"}
                /\ ~(c.at = "write" /\ c.next = "pin")

\* What the rows and the tasks look like to a handler.
Informed(c, r, s, p, e) ==
  /\ c.kind = "service" => \E t \in Companies : r[t] # "NONE"
  /\ c.kind \in {"view", "approve", "reject"} => \E v \in Viewing : r[v] # "NONE"
  /\ \A t, u \in c.cur : t = u
  /\ c.at = "sent" => \A t \in c.cur : e[t] # "NOT_SUBMITTED"
  /\ c.kind \in {"view", "approve", "reject"} => p \cap Viewing # {}
  /\ \A t \in (c.run \cup c.cur) \cap Companies : Free(r, s, p, t)
  /\ c.at = "write" /\ c.to \notin Waits /\ p \cap Viewing = {}
       => \A t \in c.todo \cap Gated : Free(r, s, p, t)
  /\ c.kind = "service" /\ c.at \notin {"look", "over"} => \A t \in Gated \cap p : Done(r, s, t)
  /\ c.kind = "service" /\ Sifting(c) /\ p \cap Viewing = {}
       => \A t \in Gated \cap p : r[t] = "REJECTED" => t \in c.refused \/ s[t] = "CANCELLED"
  /\ c.kind = "service" /\ Admitting(c) /\ p \cap Viewing = {}
       => \A t \in Gated \cap c.plan : r[t] = "REJECTED" => s[t] = "CANCELLED"

Late == {"hold", "pause", "pinViewing", "holdViewing", "card", "over"}

\* The first run asks all companies of the plan once.
First(c, r, s, p) ==
  /\ c.at = "seed" => c.plan = p /\ \A t \in Companies \cap p : s[t] \in {"PENDING", "CANCELLED"}
  /\ c.at \notin {"seed", "over"} => /\ \A t \in Gated \cap p : t \in c.gates \/ s[t] = "CANCELLED"
                                     /\ Viewing \cap p \subseteq c.gates
  /\ c.at \notin Late => \A t \in Companies : r[t] = "NONE"
  /\ c.at \in {"hold", "pause", "pinViewing"}
       => /\ \A t \in Gated \cap p : r[t] # "NONE" \/ s[t] = "CANCELLED"
          /\ \A v \in Viewing : r[v] = "NONE"

Asked(r, s, p) ==
  /\ (\E t \in Companies : r[t] # "NONE") => \A t \in Gated \cap p : r[t] # "NONE" \/ s[t] = "CANCELLED"
  /\ (\E v \in Viewing : r[v] # "NONE") => \A v \in Viewing \cap p : r[v] # "NONE"
  /\ p \cap Viewing = {}
       => \A t \in Gated \cap p : r[t] \in {"NONE", "AWAITING", "REJECTED"} => s[t] \in Waits

Governed ==
  /\ \A h \in Hands : RightPlace(h, hand[h]) /\ Informed(hand[h], row, task, plan, evidence)
  /\ First(hand[Job], row, task, plan) /\ Asked(row, task, plan)

LEMMA CalmBefore ==
  ASSUME QueueAssumptions, Sound, QueueNext, Calm' PROVE Calm
<1>1. CASE Quiet
  BY <1>1 DEF Quiet, Follows, Calm
<1>2. ASSUME NEW h \in Hands, Look(h) \/ Recall(h) \/ Order(h) PROVE Calm
  <2>1. UNCHANGED wishes /\ \A g \in Hands : g # h => hand'[g] = hand[g]
    BY <1>2, LookStep, RecallStep, OrderStep
  <2>2. hand[h].kind # "again"
    <3>1. hand[h].at \in {"look", "recall", "undo"}
      <4>1. Look(h) => hand[h].at = "look"
        BY DEF Look, At
      <4>2. Recall(h) => hand[h].at = "recall"
        BY DEF Recall, At
      <4>3. Order(h) => hand[h].at = "undo"
        BY DEF Order, At
      <4>4. QED
        BY <1>2, <4>1, <4>2, <4>3
    <3>2. HandOK(hand[h], plan, DOMAIN wishes)
      BY DEF Sound, HandsOK
    <3>3. QED
      BY <3>1, <3>2 DEF HandOK
  <2>3. QED
    BY <2>1, <2>2 DEF Calm
<1>3. ASSUME NEW h \in Hands, DecideWish(h) PROVE Calm
  <2>1. PICK i \in DOMAIN wishes : TRUE
    BY <1>3 DEF DecideWish
  <2>2. DOMAIN wishes' = DOMAIN wishes
    BY <1>3, DecideWishStep
  <2>3. QED
    BY <2>1, <2>2 DEF Calm
<1>4. ASSUME NEW h \in Hands, Wish(h) PROVE Calm
  <2>1. PICK t \in plan \cap Gated, k \in WishKinds : wishes' = Asking(t, k)
    BY <1>4 DEF Wish
  <2>2. DOMAIN wishes' # {}
    <3> DEFINE W == [of : Gated, kind : WishKinds, status : RowStatuses]
               w == [of |-> t, kind |-> k, status |-> "AWAITING"]
    <3>1. w \in W /\ wishes' = Append(wishes, w) /\ wishes \in Seq(W)
      BY <2>1 DEF RowStatuses, Asking, TablesOK, Sound
    <3> HIDE DEF W, w
    <3>2. QED
      BY <3>1
  <2>3. QED
    BY <2>2 DEF Calm
<1>5. QED
  BY <1>1, <1>2, <1>3, <1>4, Steps1

\* The answers given and the evidence stay, a called-off step stays off.
Mono ==
  /\ UNCHANGED plan
  /\ \A t \in Companies : /\ row[t] \notin {"NONE", "AWAITING"} => row'[t] = row[t]
                          /\ row[t] # "NONE" => row'[t] # "NONE"
                          /\ task[t] = "CANCELLED" => task'[t] = "CANCELLED"
  /\ \A t \in Steps : evidence[t] # "NOT_SUBMITTED" => evidence'[t] # "NOT_SUBMITTED"

Unasked == \A t \in Companies : row[t] = "NONE" => row'[t] = "NONE"

LEMMA CompaniesIn == ASSUME QueueAssumptions PROVE Companies \subseteq Steps /\ Gated \subseteq Companies
                                                   /\ Viewing \subseteq Companies
BY DEF QueueAssumptions, Companies

LEMMA FreeStays ==
  ASSUME Mono, NEW t \in Companies
  PROVE  /\ Done(row, task, t) => Done(row', task', t)
         /\ Free(row, task, plan, t) => Free(row', task', plan', t)
<1>1. ASSUME Done(row, task, t) PROVE Done(row', task', t)
  BY <1>1 DEF Mono, Done
<1>2. ASSUME Free(row, task, plan, t) PROVE Free(row', task', plan', t)
  <2>1. Done(row', task', t)
    BY <1>1, <1>2 DEF Free
  <2>2. ASSUME plan \cap Viewing = {} PROVE row'[t] # "REJECTED" \/ task'[t] = "CANCELLED"
    BY <1>2, <2>2 DEF Mono, Free, Done
  <2>3. QED
    BY <2>1, <2>2 DEF Free, Mono
<1>3. QED
  BY <1>1, <1>2

LEMMA InformedStays ==
  ASSUME QueueAssumptions, Mono, NEW c, c.plan \subseteq plan, c.cur \subseteq Steps,
         Informed(c, row, task, plan, evidence)
  PROVE  Informed(c, row', task', plan', evidence')
<1>1. c.kind = "service" => \E t \in Companies : row'[t] # "NONE"
  BY DEF Mono, Informed
<1>2. c.kind \in {"view", "approve", "reject"} => \E v \in Viewing : row'[v] # "NONE"
  BY CompaniesIn DEF Mono, Informed
<1>3. c.kind \in {"view", "approve", "reject"} => plan' \cap Viewing # {}
  BY DEF Mono, Informed
<1>4. \A t \in (c.run \cup c.cur) \cap Companies : Free(row', task', plan', t)
  BY FreeStays DEF Informed
<1>5. c.at = "write" /\ c.to \notin Waits /\ plan' \cap Viewing = {}
       => \A t \in c.todo \cap Gated : Free(row', task', plan', t)
  BY FreeStays, CompaniesIn DEF Informed, Mono
<1>6. c.kind = "service" /\ c.at \notin {"look", "over"} => \A t \in Gated \cap plan' : Done(row', task', t)
  BY FreeStays, CompaniesIn DEF Informed, Mono
<1>7. ASSUME c.kind = "service", Sifting(c), plan' \cap Viewing = {}, NEW t \in Gated \cap plan',
             row'[t] = "REJECTED"
      PROVE  t \in c.refused \/ task'[t] = "CANCELLED"
  <2>1. Done(row, task, t) /\ t \in Companies
    BY <1>7, CompaniesIn DEF Informed, Mono, Sifting
  <2>2. (row[t] = "REJECTED" => t \in c.refused \/ task[t] = "CANCELLED")
    BY <1>7 DEF Informed, Mono
  <2>3. QED
    BY <1>7, <2>1, <2>2 DEF Done, Mono
<1>8. ASSUME c.kind = "service", Admitting(c), plan' \cap Viewing = {}, NEW t \in Gated \cap c.plan,
             row'[t] = "REJECTED"
      PROVE  task'[t] = "CANCELLED"
  <2>1. Done(row, task, t) /\ t \in Companies
    BY <1>8, CompaniesIn DEF Informed, Mono, Admitting
  <2>2. (row[t] = "REJECTED" => task[t] = "CANCELLED")
    BY <1>8 DEF Informed, Mono
  <2>3. QED
    BY <1>8, <2>1, <2>2 DEF Done, Mono
<1>9. c.at = "sent" => \A t \in c.cur : evidence'[t] # "NOT_SUBMITTED"
  BY DEF Mono, Informed
<1>10. QED
  BY <1>1, <1>2, <1>3, <1>4, <1>5, <1>6, <1>7, <1>8, <1>9 DEF Informed

LEMMA FirstStays ==
  ASSUME QueueAssumptions, Mono, Unasked, NEW c, First(c, row, task, plan),
         c.at = "seed" => \A t \in Companies \cap plan : task'[t] \in {"PENDING", "CANCELLED"}
  PROVE  First(c, row', task', plan')
<1>1. c.at \notin {"seed", "over"} => /\ \A t \in Gated \cap plan' : t \in c.gates \/ task'[t] = "CANCELLED"
                                      /\ Viewing \cap plan' \subseteq c.gates
  BY CompaniesIn DEF First, Mono
<1>2. c.at \notin Late => \A t \in Companies : row'[t] = "NONE"
  BY DEF First, Unasked
<1>3. c.at \in {"hold", "pause", "pinViewing"}
        => /\ \A t \in Gated \cap plan' : row'[t] # "NONE" \/ task'[t] = "CANCELLED"
           /\ \A v \in Viewing : row'[v] = "NONE"
  BY CompaniesIn DEF First, Mono, Unasked
<1>4. QED
  BY <1>1, <1>2, <1>3 DEF First, Mono

LEMMA AskedStays ==
  ASSUME QueueAssumptions, Mono, Unasked, Asked(row, task, plan),
         plan \cap Viewing = {}
           => \A t \in Gated \cap plan : row'[t] \in {"NONE", "AWAITING", "REJECTED"} => task'[t] \in Waits
  PROVE  Asked(row', task', plan')
<1>1. (\E t \in Companies : row'[t] # "NONE")
        => \A t \in Gated \cap plan' : row'[t] # "NONE" \/ task'[t] = "CANCELLED"
  BY CompaniesIn DEF Asked, Mono, Unasked
<1>2. (\E v \in Viewing : row'[v] # "NONE") => \A v \in Viewing \cap plan' : row'[v] # "NONE"
  BY CompaniesIn DEF Asked, Mono, Unasked
<1>3. QED
  BY <1>1, <1>2 DEF Asked, Mono

\* While the first run has not asked, nobody else acts on the tasks.
LEMMA Alone ==
  ASSUME QueueAssumptions, Sound, Calm, Governed, NEW h \in Hands, h # Job, hand[Job].at \notin Late
  PROVE  hand[h].at \in {"idle", "withdraw", "over"} /\ hand[h].kind \in {"none", "stop", "wish"}
<1>1. Job \in Hands
  BY DEF Hands
<1>2. \A t \in Companies : row[t] = "NONE"
  BY DEF Governed, First
<1>3. hand[h].kind \notin {"service", "view", "approve", "reject"}
  BY <1>2, CompaniesIn DEF Governed, Informed
<1>4. hand[h].kind \notin {"first", "undo", "again"} /\ hand[h].kind \in Kinds
  BY DEF Governed, RightPlace, Calm, Sound, HandsOK, HandOK, Hand
<1>5. hand[h].kind \in {"none", "stop", "wish"}
  BY <1>3, <1>4 DEF Kinds
<1>6. QED
  BY <1>5 DEF Governed, RightPlace

\* A step of h that asks no company for the first time.
LEMMA GovernedStep ==
  ASSUME QueueAssumptions, Sound, Calm, Governed, NEW h \in Hands,
         \A g \in Hands : g # h => hand'[g] = hand[g],
         RightPlace(h, hand'[h]), Informed(hand'[h], row', task', plan', evidence'),
         h = Job => First(hand'[h], row', task', plan'), Mono, Unasked,
         h # Job /\ hand[Job].at = "seed"
           => \A t \in Companies \cap plan : task'[t] \in {"PENDING", "CANCELLED"},
         plan \cap Viewing = {}
           => \A t \in Gated \cap plan : row'[t] \in {"NONE", "AWAITING", "REJECTED"} => task'[t] \in Waits
  PROVE  Governed'
<1>1. \A g \in Hands : RightPlace(g, hand'[g])
  BY DEF Governed
<1>2. ASSUME NEW g \in Hands PROVE Informed(hand'[g], row', task', plan', evidence')
  <2>1. CASE g = h
    BY <2>1
  <2>2. CASE g # h
    <3>1. Informed(hand[g], row, task, plan, evidence)
      BY DEF Governed
    <3>2. hand[g].plan \subseteq plan /\ hand[g].cur \subseteq Steps
      BY DEF Sound, HandsOK, HandOK, TablesOK
    <3>3. QED
      BY <2>2, <3>1, <3>2, InformedStays
  <2>3. QED
    BY <2>1, <2>2
<1>3. First(hand'[Job], row', task', plan')
  <2>1. CASE h = Job
    BY <2>1
  <2>2. CASE h # Job
    <3>1. First(hand[Job], row, task, plan) /\ hand'[Job] = hand[Job]
      BY <2>2 DEF Governed, Hands
    <3>2. QED
      BY <2>2, <3>1, FirstStays
  <2>3. QED
    BY <2>1, <2>2
<1>4. Asked(row', task', plan')
  BY AskedStays DEF Governed
<1>5. QED
  BY <1>1, <1>2, <1>3, <1>4 DEF Governed

LEMMA Placed ==
  ASSUME HandsOK, NEW h \in Hands, NEW c, Move(h, c)
  PROVE  hand'[h] = c /\ \A g \in Hands : g # h => hand'[g] = hand[g]
BY DEF HandsOK, Move

\* What Governed says of the handler that moves.
Fits(h, c) ==
  /\ RightPlace(h, c) /\ Informed(c, row, task, plan, evidence)
  /\ h = Job => First(c, row, task, plan)

\* A step that leaves the tables alone, but for the workflow's own row.
LEMMA GovStill ==
  ASSUME QueueAssumptions, Sound, Calm, Governed, NEW h \in Hands, NEW c, Move(h, c), Fits(h, c),
         UNCHANGED <<plan, row, task, evidence>>
  PROVE  Governed'
<1>1. hand'[h] = c /\ \A g \in Hands : g # h => hand'[g] = hand[g]
  BY Placed DEF Sound
<1>2. Job \in Hands
  BY DEF Hands
<1>3. QED
  BY <1>1, <1>2 DEF Governed, Fits

\* A step that writes tasks, or sends a call: the rows of the queue are left.
LEMMA GovTasks ==
  ASSUME QueueAssumptions, Sound, Calm, Governed, NEW h \in Hands, NEW c, Move(h, c), Fits(h, c),
         c.plan \subseteq plan, c.cur \subseteq Steps, c.at # "seed" \/ h # Job,
         UNCHANGED <<plan, row>>,
         \A t \in Companies : task[t] = "CANCELLED" => task'[t] = "CANCELLED",
         \A t \in Steps : evidence[t] # "NOT_SUBMITTED" => evidence'[t] # "NOT_SUBMITTED",
         h # Job /\ hand[Job].at = "seed"
           => \A t \in Companies \cap plan : task'[t] \in {"PENDING", "CANCELLED"},
         plan \cap Viewing = {}
           => \A t \in Gated \cap plan : row[t] \in {"NONE", "AWAITING", "REJECTED"} => task'[t] \in Waits
  PROVE  Governed'
<1>1. hand'[h] = c /\ \A g \in Hands : g # h => hand'[g] = hand[g]
  BY Placed DEF Sound
<1>2. Mono /\ Unasked
  BY DEF Mono, Unasked
<1>3. Informed(c, row', task', plan', evidence')
  BY <1>2, InformedStays DEF Fits
<1>4. h = Job => First(c, row', task', plan')
  BY <1>2, FirstStays DEF Fits
<1>5. QED
  BY <1>1, <1>2, <1>3, <1>4, GovernedStep DEF Fits

\* What the tasks of the companies allow stays when they are not written.
LEMMA Unwritten ==
  ASSUME QueueAssumptions, Sound, Calm, Governed, \A t \in Companies : task'[t] = task[t]
  PROVE  /\ hand[Job].at = "seed"
             => \A t \in Companies \cap plan : task'[t] \in {"PENDING", "CANCELLED"}
         /\ plan \cap Viewing = {}
             => \A t \in Gated \cap plan : row[t] \in {"NONE", "AWAITING", "REJECTED"} => task'[t] \in Waits
<1>1. hand[Job].at = "seed"
        => \A t \in Companies \cap plan : task'[t] \in {"PENDING", "CANCELLED"}
  BY DEF Governed, First
<1>2. plan \cap Viewing = {}
        => \A t \in Gated \cap plan : row[t] \in {"NONE", "AWAITING", "REJECTED"} => task'[t] \in Waits
  BY CompaniesIn DEF Governed, Asked
<1>3. QED
  BY <1>1, <1>2

\* A handler goes on with what it has.
Plain == {"start", "work", "call", "answered", "gate", "park", "pause", "card", "verdict", "ensure",
          "conclude", "ask", "fail", "giveUp", "hold", "pinViewing", "holdViewing"}

Forward(c, d) ==
  /\ c.kind = d.kind /\ c.plan = d.plan /\ c.run \subseteq d.run
  /\ c.cur \subseteq d.cur /\ c.gates = d.gates
  /\ c.at \in Plain /\ d.at \notin {"idle", "withdraw", "over", "look", "seed"}
  /\ c.at \in {"hold", "pinViewing", "holdViewing"} => d.at \in {"pin", "hold", "pause", "pinViewing"}

LEMMA FitsForward ==
  ASSUME Governed, NEW h \in Hands, NEW c, Forward(c, hand[h]),
         c.at \in {"hold", "pinViewing", "holdViewing"} => h = Job,
         h = Job /\ c.at \notin Late => hand[h].at \notin Late,
         h = Job /\ c.at \in {"hold", "pause", "pinViewing"}
           => hand[h].at \in {"hold", "pause", "pinViewing"}
  PROVE  Fits(h, c)
<1> DEFINE d == hand[h]
<1>1. RightPlace(h, d) /\ Informed(d, row, task, plan, evidence)
      /\ (h = Job => First(d, row, task, plan))
  BY DEF Governed
<1>2. c.at \notin {"idle", "withdraw", "over", "look", "seed", "sift", "trim", "admit", "write", "sent", "recall", "undo",
                   "reopen", "unlock", "codeOther", "codeFull", "judge", "pin"}
  BY DEF Forward, Plain
<1>3. RightPlace(h, c)
  BY <1>1, <1>2 DEF Forward, RightPlace
<1>4. Informed(c, row, task, plan, evidence)
  <2>1. c.kind = d.kind /\ c.run \cup c.cur \subseteq d.run \cup d.cur /\ c.cur \subseteq d.cur
    BY DEF Forward
  <2>2. ~Sifting(c) /\ ~Admitting(c)
    BY <1>2 DEF Sifting, Admitting
  <2>3. d.at \notin {"look", "over"}
    BY DEF Forward
  <2>4. QED
    BY <1>1, <1>2, <2>1, <2>2, <2>3 DEF Informed
<1>5. h = Job => First(c, row, task, plan)
  <2>1. c.gates = d.gates /\ d.at \notin {"seed", "over"}
    BY DEF Forward
  <2>2. QED
    BY <1>1, <1>2, <2>1 DEF First
<1>6. QED
  BY <1>3, <1>4, <1>5 DEF Fits

\* A handler is over.
LEMMA FitsOver ==
  ASSUME Governed, NEW h \in Hands
  PROVE  Fits(h, [Over EXCEPT !.kind = hand[h].kind])
<1> DEFINE d == hand[h]
           c == [Over EXCEPT !.kind = d.kind]
<1>1. RightPlace(h, d) /\ Informed(d, row, task, plan, evidence)
  BY DEF Governed
<1>2. /\ c.plan = {} /\ c.run = {} /\ c.cur = {} /\ c.gates = {} /\ c.at = "over" /\ c.kind = d.kind
  BY DEF Over, Idle
<1> HIDE DEF c
<1>3. RightPlace(h, c)
  BY <1>1, <1>2 DEF RightPlace
<1>4. Informed(c, row, task, plan, evidence)
  BY <1>1, <1>2 DEF Informed, Sifting, Admitting
<1>5. First(c, row, task, plan)
  BY <1>2 DEF First, Late
<1>6. QED
  BY <1>3, <1>4, <1>5 DEF Fits, c

\* A handler has tasks to write.
LEMMA FitsWriting ==
  ASSUME Governed, Sound, NEW h \in Hands, NEW todo, NEW s, NEW next, NEW c,
         c.kind = hand[h].kind, c.run \subseteq hand[h].run, c.cur \subseteq hand[h].cur, c.gates = hand[h].gates,
         c.at = "write", c.todo = todo, c.to = s, c.next = next,
         hand[h].at \notin {"idle", "withdraw", "over", "look", "seed"},
         next \in {"trim", "admit", "seed"} => hand[h].kind = "service",
         next = "pin" => h = Job,
         s \notin Waits /\ plan \cap Viewing = {} => \A t \in todo \cap Gated : Free(row, task, plan, t),
         next = "trim" /\ plan \cap Viewing = {}
           => \A t \in Gated \cap plan : row[t] = "REJECTED" => t \in c.refused \/ task[t] = "CANCELLED",
         next \in {"admit", "seed"} /\ plan \cap Viewing = {}
           => \A t \in Gated \cap c.plan : row[t] = "REJECTED" => task[t] = "CANCELLED",
         h = Job => hand[h].at \notin Late
  PROVE  Fits(h, c)
<1> DEFINE d == hand[h]
<1>1. RightPlace(h, d) /\ Informed(d, row, task, plan, evidence)
      /\ (h = Job => First(d, row, task, plan))
  BY DEF Governed
<1>2. RightPlace(h, c)
  BY <1>1 DEF RightPlace
<1>3. Informed(c, row, task, plan, evidence)
  BY <1>1 DEF Informed, Sifting, Admitting
<1>4. h = Job => First(c, row, task, plan)
  BY <1>1 DEF First, Late
<1>5. QED
  BY <1>2, <1>3, <1>4 DEF Fits

-------------------------------------------------------------------------------
(* What each step does to a governed workflow *)

LEMMA GovGo ==
  ASSUME QueueAssumptions, Sound, Calm, Governed, NEW h \in Hands, NEW place, Go(h, place),
         Fits(h, [hand[h] EXCEPT !.at = place]), UNCHANGED <<plan, row, task, evidence>>
  PROVE  Governed'
BY GovStill DEF Go, Move

LEMMA FitsGo ==
  ASSUME Governed, Sound, NEW h \in Hands, NEW place \in Plain,
         hand[h].at \notin {"idle", "withdraw", "over", "look", "seed"},
         place \in {"hold", "pinViewing", "holdViewing"}
           => h = Job /\ hand[h].at \in {"pin", "hold", "pause", "pinViewing"},
         h = Job /\ place \notin Late => hand[h].at \notin Late,
         h = Job /\ place \in {"hold", "pause", "pinViewing"}
           => hand[h].at \in {"hold", "pause", "pinViewing"}
  PROVE  Fits(h, [hand[h] EXCEPT !.at = place])
<1> DEFINE c == [hand[h] EXCEPT !.at = place]
<1>1. hand[h] \in Hand
  BY DEF Sound, HandsOK
<1>2. /\ c.kind = hand[h].kind /\ c.plan = hand[h].plan /\ c.run = hand[h].run /\ c.cur = hand[h].cur
      /\ c.gates = hand[h].gates /\ c.at = place
  BY <1>1 DEF Hand
<1> HIDE DEF c
<1>3. Forward(c, hand[h])
  BY <1>2 DEF Forward
<1>4. Fits(h, c)
  BY <1>2, <1>3, FitsForward
<1>5. QED
  BY <1>4 DEF c

LEMMA GovOver ==
  ASSUME QueueAssumptions, Sound, Calm, Governed, NEW h \in Hands, End(h),
         UNCHANGED <<plan, row, task, evidence>>
  PROVE  Governed'
BY GovStill, FitsOver DEF End

LEMMA GovStart ==
  ASSUME QueueAssumptions, Sound, Calm, Governed, NEW h \in Hands, Start(h) PROVE Governed'
BY FitsGo, GovGo DEF Start, At, Plain, Late, rows

LEMMA GovExhausted ==
  ASSUME QueueAssumptions, Sound, Calm, Governed, NEW h \in Hands, Exhausted(h) PROVE Governed'
BY FitsGo, GovGo DEF Exhausted, At, Plain, Late, rows

LEMMA GovHold ==
  ASSUME QueueAssumptions, Sound, Calm, Governed, NEW h \in Hands, Hold(h) \/ HoldViewing(h)
  PROVE  Governed'
<1>1. CASE Hold(h)
  BY <1>1, FitsGo, GovGo DEF Hold, At, Plain, Late, rows
<1>2. CASE HoldViewing(h)
  BY <1>2, FitsGo, GovGo DEF HoldViewing, At, Plain, Late, rows
<1>3. QED
  BY <1>1, <1>2

LEMMA GovPause ==
  ASSUME QueueAssumptions, Sound, Calm, Governed, NEW h \in Hands, Pause(h) PROVE Governed'
<1>1. CASE Go(h, "pinViewing") /\ hand[h].kind # "service" /\ Held(h, Viewing) # {}
  <2>1. h = Job
    BY <1>1 DEF Governed, RightPlace, Held
  <2>2. QED
    BY <1>1, <2>1, FitsGo, GovGo DEF Pause, At, Plain, Late, tables, rows
<1>2. CASE Go(h, "card")
  BY <1>2, FitsGo, GovGo DEF Pause, At, Plain, Late, tables, rows
<1>3. QED
  BY <1>1, <1>2 DEF Pause

LEMMA GovAsk ==
  ASSUME QueueAssumptions, Sound, Calm, Governed, NEW h \in Hands, Ask(h) PROVE Governed'
BY FitsGo, GovGo DEF Ask, At, Plain, Late, rows

LEMMA GovEnds ==
  ASSUME QueueAssumptions, Sound, Calm, Governed, NEW h \in Hands,
         Conclude(h) \/ Fail(h) \/ GiveUp(h)
  PROVE  Governed'
BY GovOver DEF Conclude, Fail, GiveUp, rows

LEMMA GovSaveCode ==
  ASSUME QueueAssumptions, Sound, Calm, Governed, NEW h \in Hands, SaveCode(h) PROVE Governed'
<1> DEFINE c == [hand[h] EXCEPT !.at = "judge"]
           d == hand[h]
<1>1. hand[h] \in Hand
  BY DEF Sound, HandsOK
<1>2. /\ c.kind = hand[h].kind /\ c.plan = hand[h].plan /\ c.run = hand[h].run /\ c.cur = hand[h].cur
      /\ c.gates = hand[h].gates /\ c.at = "judge"
  BY <1>1 DEF Hand
<1>3. Go(h, "judge") /\ UNCHANGED <<plan, row, task, evidence>> /\ d.at \in {"codeOther", "codeFull"}
  BY DEF SaveCode
<1>4. RightPlace(h, d) /\ Informed(d, row, task, plan, evidence) /\ d.kind = "reject" /\ h # Job
  BY <1>3 DEF Governed, RightPlace
<1> HIDE DEF c
<1>5. RightPlace(h, c)
  BY <1>2, <1>4 DEF RightPlace
<1>6. Informed(c, row, task, plan, evidence)
  BY <1>2, <1>4 DEF Informed
<1>7. Fits(h, c)
  BY <1>4, <1>5, <1>6 DEF Fits
<1>8. QED
  BY <1>3, <1>7, GovGo DEF c

LEMMA GovRaised ==
  ASSUME QueueAssumptions, Sound, Calm, Governed, NEW h \in Hands, Raised(h),
         UNCHANGED <<plan, row, task, evidence>>
  PROVE  Governed'
BY GovOver DEF Raised

\* One task of the companies is written.
LEMMA GovOne ==
  ASSUME QueueAssumptions, Sound, Calm, Governed, NEW h \in Hands, NEW c, Move(h, c), Fits(h, c),
         c.plan \subseteq plan, c.cur \subseteq Steps, c.at # "seed" \/ h # Job,
         UNCHANGED <<plan, row, evidence>>, hand[h].at \notin {"idle", "withdraw", "over"},
         NEW t \in Steps, NEW s, task' = [task EXCEPT ![t] = s],
         task[t] # "CANCELLED" \/ s = "CANCELLED",
         s \notin Waits /\ plan \cap Viewing = {} /\ t \in Gated => Free(row, task, plan, t)
  PROVE  Governed'
<1>1. task \in [Steps -> TaskStatuses]
  BY DEF Sound, TablesOK
<1>2. \A u \in Companies : task[u] = "CANCELLED" => task'[u] = "CANCELLED"
  BY <1>1, CompaniesIn
<1>3. h # Job /\ hand[Job].at = "seed"
        => \A u \in Companies \cap plan : task'[u] \in {"PENDING", "CANCELLED"}
  BY Alone DEF Late
<1>4. ASSUME plan \cap Viewing = {}, NEW u \in Gated \cap plan,
             row[u] \in {"NONE", "AWAITING", "REJECTED"}
      PROVE  task'[u] \in Waits
  <2>1. task[u] \in Waits
    BY <1>4 DEF Governed, Asked
  <2>2. CASE u = t /\ s \notin Waits
    BY <1>1, <1>4, <2>2 DEF Free, Done, Waits
  <2>3. QED
    BY <1>1, <2>1, <2>2
<1>5. QED
  BY <1>2, <1>3, <1>4, GovTasks

LEMMA GovWrite ==
  ASSUME QueueAssumptions, Sound, Calm, Governed, NEW h \in Hands, Write(h) PROVE Governed'
<1> DEFINE d == hand[h]
<1>1. d \in Hand /\ d.at = "write" /\ UNCHANGED <<plan, evidence, row>> /\ HandOK(d, plan, DOMAIN wishes)
  BY DEF Sound, HandsOK, Write, At, rows
<1>2. RightPlace(h, d) /\ Informed(d, row, task, plan, evidence) /\ (h = Job => First(d, row, task, plan))
  BY DEF Governed
<1>3. CASE Go(h, d.next) /\ UNCHANGED <<wf, task>>
  <2> DEFINE c == [d EXCEPT !.at = d.next]
  <2>1. /\ c.kind = d.kind /\ c.plan = d.plan /\ c.run = d.run /\ c.cur = d.cur /\ c.gates = d.gates
        /\ c.at = d.next /\ c.refused = d.refused
        /\ d.next \in {"work", "verdict", "park", "pin", "trim", "admit", "seed", "ask", "fail", "over"}
    BY <1>1 DEF Hand
  <2> HIDE DEF c
  <2>2. RightPlace(h, c)
    BY <1>1, <1>2, <2>1 DEF RightPlace
  <2>3. Informed(c, row, task, plan, evidence)
    BY <1>1, <1>2, <2>1 DEF Informed, Sifting, Admitting
  <2>4. h = Job => First(c, row, task, plan)
    <3>1. h = Job => c.at # "seed"
      BY <1>1, <1>2, <2>1 DEF RightPlace
    <3>2. QED
      BY <1>1, <1>2, <2>1, <3>1 DEF First, Late
  <2>5. Fits(h, c)
    BY <2>2, <2>3, <2>4 DEF Fits
  <2>6. QED
    BY <1>1, <1>3, <2>5, GovGo DEF c
<1>4. CASE Raised(h) /\ UNCHANGED task
  BY <1>1, <1>4, GovRaised
<1>5. ASSUME NEW t \in d.todo, ~(task[t] = "CANCELLED" /\ d.to # "CANCELLED"),
             task' = [task EXCEPT ![t] = d.to], hand' = [hand EXCEPT ![h].todo = @ \ {t}]
      PROVE  Governed'
  <2> DEFINE c == [d EXCEPT !.todo = @ \ {t}]
  <2>1. /\ c.kind = d.kind /\ c.plan = d.plan /\ c.run = d.run /\ c.cur = d.cur /\ c.gates = d.gates
        /\ c.at = "write" /\ c.refused = d.refused /\ c.to = d.to /\ c.next = d.next
        /\ c.todo \subseteq d.todo /\ t \in Steps
    BY <1>1 DEF Hand
  <2>2. Move(h, c)
    BY <1>5 DEF Move
  <2> HIDE DEF c
  <2>3. RightPlace(h, c)
    BY <1>1, <1>2, <2>1 DEF RightPlace
  <2>4. Informed(c, row, task, plan, evidence)
    BY <1>1, <1>2, <2>1 DEF Informed, Sifting, Admitting
  <2>5. h = Job => First(c, row, task, plan)
    BY <1>1, <1>2, <2>1 DEF First
  <2>6. Fits(h, c)
    BY <2>3, <2>4, <2>5 DEF Fits
  <2>7. d.to \notin Waits /\ plan \cap Viewing = {} /\ t \in Gated => Free(row, task, plan, t)
    BY <1>1, <1>2, <1>5 DEF Informed
  <2>8. c.plan \subseteq plan /\ c.cur \subseteq Steps
    BY <1>1, <2>1 DEF HandOK, Hand
  <2>9. d.at \notin {"idle", "withdraw", "over"} /\ c.at # "seed"
        /\ (task[t] # "CANCELLED" \/ d.to = "CANCELLED")
    BY <1>1, <1>5, <2>1
  <2>10. UNCHANGED <<plan, row, evidence>> /\ t \in Steps
    BY <1>1, <2>1
  <2>11. QED
    BY <1>5, <2>2, <2>6, <2>7, <2>8, <2>9, <2>10, GovOne
<1>6. QED
  BY <1>3, <1>4, <1>5 DEF Write

LEMMA Whole ==
  ASSUME QueueAssumptions, NEW v \in Viewing, NEW from, NEW out, v \in from, v \notin out
  PROVE  v \in PlanWithout(from, out)
<1>1. DependsOn[v] = {}
  BY DEF QueueAssumptions
<1>2. {v} \in SUBSET (from \ out) /\ \A t \in {v} : DependsOn[t] \cap (from \cup out) \subseteq {v}
  BY <1>1
<1>3. QED
  BY <1>2 DEF PlanWithout

\* What a handler holds back and what it runs.
SeedShut(h) == IF hand[h].kind = "service" THEN {}
               ELSE Shut(In({"SUCCESS", "CANCELLED"})) \cap hand[h].plan
SeedView(h) == (Viewing \cap PlanWithout(hand[h].plan, SeedShut(h))) \ In({"SUCCESS"})
SeedOpen(h) == PlanWithout(PlanWithout(hand[h].plan, SeedShut(h)), SeedView(h))
SeedRun(h) == IF hand[h].kind = "view" THEN Remaining(hand[h].plan)
              ELSE PlanWithout(SeedOpen(h), Paying \cap SeedOpen(h))
SeedGates(h) == IF hand[h].kind = "view" THEN {}
                ELSE SeedShut(h) \cup SeedView(h) \cup (Paying \cap SeedOpen(h))
SeedHand(h) ==
  [hand[h] EXCEPT !.gates = SeedGates(h), !.run = SeedRun(h) \ In({"SUCCESS", "CANCELLED"}),
                  !.ok = In({"SUCCESS"}), !.at = IF SeedRun(h) # {} THEN "start" ELSE "gate"]

LEMMA SeedIs == ASSUME HandsOK, NEW h \in Hands, Seed(h) PROVE Move(h, SeedHand(h))
<1> hand[h] \in Hand
  BY DEF HandsOK
<1>1. QED
  BY DEF SeedHand, Seed, Move, SeedGates, SeedRun, SeedOpen, SeedView, SeedShut

LEMMA GovSeed ==
  ASSUME QueueAssumptions, Sound, Calm, Governed, NEW h \in Hands, Seed(h) PROVE Governed'
<1> DEFINE d == hand[h]
           seeds == In({"SUCCESS", "CANCELLED"})
           shut == SeedShut(h)
           view == SeedView(h)
           p1 == PlanWithout(d.plan, shut)
           p2 == SeedOpen(h)
           pay == Paying \cap p2
           run == SeedRun(h)
           gates == SeedGates(h)
           place == IF run # {} THEN "start" ELSE "gate"
           c == SeedHand(h)
<1> HandsOK /\ hand[h] \in Hand
  BY DEF Sound, HandsOK
<1>1. d \in Hand /\ d.at = "seed" /\ HandOK(d, plan, DOMAIN wishes)
  BY DEF Sound, HandsOK, Seed, At
<1>2. RightPlace(h, d) /\ Informed(d, row, task, plan, evidence) /\ (h = Job => First(d, row, task, plan))
  BY DEF Governed
<1>3. Move(h, c) /\ UNCHANGED <<plan, row, task, evidence>>
  <2>1. Move(h, c)
    BY SeedIs
  <2>2. UNCHANGED <<plan, row, task, evidence>>
    BY DEF Seed, tables, rows
  <2>3. QED
    BY <2>1, <2>2
<1>4. /\ c.kind = d.kind /\ c.plan = d.plan /\ c.run = run \ seeds /\ c.cur = d.cur /\ c.gates = gates
      /\ c.at = place /\ place \in {"start", "gate"}
  BY <1>1 DEF Hand, SeedHand
<1>5. d.kind \in {"first", "service", "view"} /\ (d.kind = "first" <=> h = Job) /\ d.plan \subseteq plan
  BY <1>1, <1>2 DEF RightPlace, HandOK
<1>6. p1 \subseteq d.plan \ shut /\ p2 \subseteq p1 \ view /\ PlanWithout(p2, pay) \subseteq p2
  <2>1. p1 \subseteq d.plan \ shut
    BY PlanWithoutIn
  <2>2. p2 \subseteq p1 \ view /\ PlanWithout(p2, pay) \subseteq p2 \ pay
    <3> HIDE DEF p1
    <3>1. PlanWithout(p1, view) \subseteq p1 \ view
      BY PlanWithoutIn
    <3> HIDE DEF p2
    <3>2. PlanWithout(p2, pay) \subseteq p2 \ pay
      BY PlanWithoutIn
    <3>3. QED
      BY <3>1, <3>2 DEF p1, p2, SeedOpen
  <2>3. QED
    BY <2>1, <2>2
<1>7. Remaining(d.plan) \subseteq d.plan \ Awaiting
  <2> DEFINE unpaid == PlanWithout(d.plan, Paying \ In({"SUCCESS"}))
             rest == IF unpaid = {} THEN d.plan ELSE unpaid
  <2>1. rest \subseteq d.plan
    BY PlanWithoutIn
  <2>2. Remaining(d.plan) = PlanWithout(rest, Awaiting)
    BY DEF Remaining
  <2> HIDE DEF rest
  <2>3. PlanWithout(rest, Awaiting) \subseteq rest \ Awaiting
    BY PlanWithoutIn
  <2>4. QED
    BY <2>1, <2>2, <2>3
<1>8. Gated \cap Viewing = {} /\ Gated \cap Paying = {}
  BY DEF QueueAssumptions
<1>9. In({"SUCCESS"}) \subseteq seeds /\ seeds = {t \in plan : task[t] \in {"SUCCESS", "CANCELLED"}}
  BY DEF In
<1>10. ASSUME NEW t \in (run \ seeds) \cap Companies PROVE Free(row, task, plan, t)
  <2>1. CASE d.kind = "view"
    <3>1. t \in plan /\ row[t] # "AWAITING"
      BY <1>5, <1>7, <1>10, <2>1 DEF Awaiting, SeedRun
    <3>2. plan \cap Viewing # {} /\ \E v \in Viewing : row[v] # "NONE"
      BY <1>2, <2>1 DEF Informed
    <3>3. row[t] # "NONE" \/ task[t] = "CANCELLED"
      BY <1>10, <3>1, <3>2, CompaniesIn DEF Governed, Asked, Companies
    <3>4. QED
      BY <3>1, <3>2, <3>3 DEF Free, Done
  <2>2. CASE d.kind # "view"
    <3>1. t \in p2 /\ t \in p1 /\ t \notin seeds /\ t \notin view /\ t \in d.plan /\ t \notin shut
      BY <1>6, <1>10, <2>2 DEF SeedRun
    <3>2. t \notin Viewing
      BY <1>9, <3>1 DEF SeedView
    <3>3. t \in Gated \cap plan
      BY <1>5, <1>10, <3>1, <3>2 DEF Companies
    <3>4. d.kind = "service"
      BY <1>5, <2>2, <3>1, <3>3 DEF Shut, SeedShut
    <3>5. Done(row, task, t)
      BY <1>1, <1>2, <3>3, <3>4 DEF Informed
    <3>6. plan \cap Viewing = {} => (row[t] = "REJECTED" => task[t] = "CANCELLED")
      BY <1>1, <1>2, <3>1, <3>3, <3>4 DEF Informed, Admitting
    <3>7. QED
      BY <3>5, <3>6 DEF Free
  <2>3. QED
    BY <2>1, <2>2
<1>11. h # Job => gates \cap Gated = {} /\ (d.kind # "service" => gates = {})
  BY <1>5, <1>8 DEF SeedGates, SeedShut, SeedView
<1>12. h = Job => /\ \A t \in Gated \cap plan : t \in gates \/ task[t] = "CANCELLED"
                  /\ Viewing \cap plan \subseteq gates
  <2> HAVE h = Job
  <2>1. d.plan = plan /\ \A t \in Companies \cap plan : task[t] \in {"PENDING", "CANCELLED"}
    BY <1>1, <1>2 DEF First
  <2>2. d.kind = "first" /\ shut = Shut(seeds) \cap plan
    BY <1>5, <2>1 DEF SeedShut
  <2>3. ASSUME NEW t \in Gated \cap plan PROVE t \in gates \/ task[t] = "CANCELLED"
    BY <1>9, <2>1, <2>2, <2>3, CompaniesIn DEF Shut, SeedGates
  <2>4. ASSUME NEW v \in Viewing \cap plan PROVE v \in gates
    <3>1. v \notin shut
      BY <1>8, <2>2, <2>4 DEF Shut
    <3>2. v \in p1
      BY <2>1, <2>4, <3>1, Whole
    <3>3. task[v] # "SUCCESS"
      BY <2>1, <2>4, CompaniesIn
    <3>4. QED
      BY <2>2, <2>4, <3>2, <3>3 DEF In, SeedGates, SeedView
  <2>5. QED
    BY <2>3, <2>4
<1> HIDE DEF place, c, seeds
<1>13. RightPlace(h, c)
  BY <1>2, <1>4, <1>5, <1>11 DEF RightPlace
<1>14. Informed(c, row, task, plan, evidence)
  BY <1>1, <1>2, <1>4, <1>5, <1>10 DEF Informed, Sifting, Admitting
<1>15. h = Job => First(c, row, task, plan)
  BY <1>1, <1>2, <1>4, <1>12 DEF First, Late
<1>16. Fits(h, c)
  BY <1>13, <1>14, <1>15 DEF Fits
<1>17. QED
  BY <1>3, <1>16, GovStill

LEMMA GovBegin ==
  ASSUME QueueAssumptions, Sound, Calm, Governed, NEW h \in Hands, Begin(h) PROVE Governed'
<1> DEFINE d == hand[h]
<1>1. d \in Hand /\ d.at = "work" /\ UNCHANGED <<plan, evidence, row>> /\ HandOK(d, plan, DOMAIN wishes)
  BY DEF Sound, HandsOK, Begin, At, rows
<1>2. RightPlace(h, d) /\ Informed(d, row, task, plan, evidence) /\ (h = Job => First(d, row, task, plan))
  BY DEF Governed
<1> HandsOK /\ hand[h] \in Hand
  BY DEF Sound, HandsOK
<1>3. PICK t \in Ready(h) :
        IF task[t] = "CANCELLED" THEN Raised(h) /\ UNCHANGED task
        ELSE /\ task' = [task EXCEPT ![t] = "RUNNING"]
             /\ Move(h, [hand[h] EXCEPT !.at = "call", !.cur = {t}, !.run = @ \ {t}])
             /\ UNCHANGED wf
  BY DEF Begin
<1>4. CASE task[t] # "CANCELLED"
  <2> DEFINE c == [d EXCEPT !.at = "call", !.cur = {t}, !.run = @ \ {t}]
  <2>1. /\ c.kind = d.kind /\ c.plan = d.plan /\ c.run \subseteq d.run /\ c.cur = {t} /\ c.gates = d.gates
        /\ c.at = "call" /\ t \in d.run /\ t \in Steps
    BY <1>1 DEF Hand, Ready
  <2>2. t \in Companies => Free(row, task, plan, t)
    BY <1>2, <2>1 DEF Informed
  <2> HIDE DEF c
  <2>3. RightPlace(h, c)
    BY <1>1, <1>2, <2>1 DEF RightPlace
  <2>4. Informed(c, row, task, plan, evidence)
    BY <1>1, <1>2, <2>1, <2>2 DEF Informed, Sifting, Admitting
  <2>5. h = Job => First(c, row, task, plan)
    BY <1>1, <1>2, <2>1 DEF First, Late
  <2>6. Fits(h, c)
    BY <2>3, <2>4, <2>5 DEF Fits
  <2>7. "RUNNING" \notin Waits /\ (plan \cap Viewing = {} /\ t \in Gated => Free(row, task, plan, t))
    BY <2>2, CompaniesIn DEF Waits
  <2>8. c.plan \subseteq plan /\ c.cur \subseteq Steps /\ c.at # "seed" /\ d.at \notin {"idle", "withdraw", "over"}
    BY <1>1, <2>1 DEF HandOK
  <2>9. Move(h, c) /\ UNCHANGED <<plan, row, evidence>> /\ t \in Steps
    BY <1>1, <1>3, <1>4, <2>1 DEF c
  <2>10. QED
    BY <1>3, <1>4, <2>6, <2>7, <2>8, <2>9, GovOne
<1>5. CASE task[t] = "CANCELLED"
  BY <1>1, <1>3, <1>5, GovRaised
<1>6. QED
  BY <1>4, <1>5

LEMMA GovSent ==
  ASSUME QueueAssumptions, Sound, Calm, Governed, NEW h \in Hands, NEW c, Move(h, c), Fits(h, c),
         c.plan \subseteq plan, c.cur \subseteq Steps, c.at # "seed", UNCHANGED <<plan, row, task>>,
         NEW t \in Steps, NEW s, s # "NOT_SUBMITTED", evidence' = [evidence EXCEPT ![t] = s]
  PROVE  Governed'
<1>1. evidence \in [Steps -> {"NOT_SUBMITTED", "SUBMITTING", "ACKNOWLEDGED", "UNKNOWN"}]
  BY DEF Sound, TablesOK
<1>2. \A u \in Steps : evidence[u] # "NOT_SUBMITTED" => evidence'[u] # "NOT_SUBMITTED"
  BY <1>1
<1>3. QED
  BY <1>2, Unwritten, GovTasks

LEMMA GovPrepare ==
  ASSUME QueueAssumptions, Sound, Calm, Governed, NEW h \in Hands, Prepare(h) PROVE Governed'
<1> DEFINE d == hand[h]
<1>1. d \in Hand /\ d.at = "call" /\ UNCHANGED <<plan, task, row>> /\ HandOK(d, plan, DOMAIN wishes)
  BY DEF Sound, HandsOK, Prepare, At, rows
<1>2. RightPlace(h, d) /\ Informed(d, row, task, plan, evidence) /\ (h = Job => First(d, row, task, plan))
  BY DEF Governed
<1>3. ASSUME NEW t \in d.cur, evidence' = [evidence EXCEPT ![t] = "SUBMITTING"], Go(h, "sent")
      PROVE  Governed'
  <2> DEFINE c == [d EXCEPT !.at = "sent"]
  <2>1. /\ c.kind = d.kind /\ c.plan = d.plan /\ c.run = d.run /\ c.cur = d.cur /\ c.gates = d.gates
        /\ c.at = "sent" /\ t \in Steps
    BY <1>1, <1>3 DEF Hand
  <2>a. Move(h, c)
    BY <1>3 DEF Go, Move
  <2> HIDE DEF c
  <2>2. hand'[h] = c /\ \A g \in Hands : g # h => hand'[g] = hand[g]
    BY <2>a, Placed DEF Sound
  <2>3. RightPlace(h, c)
    BY <1>1, <1>2, <2>1 DEF RightPlace
  <2>4. evidence \in [Steps -> {"NOT_SUBMITTED", "SUBMITTING", "ACKNOWLEDGED", "UNKNOWN"}]
    BY DEF Sound, TablesOK
  <2>5. \A u \in c.cur : evidence'[u] # "NOT_SUBMITTED"
    BY <1>2, <1>3, <2>1, <2>4 DEF Informed
  <2>6. Informed(c, row', task', plan', evidence')
    BY <1>1, <1>2, <2>1, <2>5 DEF Informed, Sifting, Admitting
  <2>7. h = Job => First(c, row', task', plan')
    BY <1>1, <1>2, <2>1 DEF First, Late
  <2>8. Mono /\ Unasked
    BY <1>1, <1>3, <2>4 DEF Mono, Unasked
  <2>9. /\ h # Job /\ hand[Job].at = "seed"
             => \A u \in Companies \cap plan : task'[u] \in {"PENDING", "CANCELLED"}
        /\ plan \cap Viewing = {}
             => \A u \in Gated \cap plan : row'[u] \in {"NONE", "AWAITING", "REJECTED"} => task'[u] \in Waits
    BY <1>1, Unwritten
  <2>10. QED
    BY <2>2, <2>3, <2>6, <2>7, <2>8, <2>9, GovernedStep
<1>4. ASSUME Move(h, [d EXCEPT !.at = "answered", !.outcome = "failed"]), UNCHANGED evidence
      PROVE  Governed'
  <2> DEFINE c == [d EXCEPT !.at = "answered", !.outcome = "failed"]
  <2>1. /\ c.kind = d.kind /\ c.plan = d.plan /\ c.run = d.run /\ c.cur = d.cur /\ c.gates = d.gates
        /\ c.at = "answered"
    BY <1>1 DEF Hand
  <2>2. Move(h, c)
    BY <1>4
  <2> HIDE DEF c
  <2>3. Forward(c, d)
    BY <1>1, <2>1 DEF Forward, Plain
  <2>4. Fits(h, c)
    BY <1>1, <2>1, <2>3, FitsForward DEF Late
  <2>5. QED
    BY <1>1, <1>4, <2>2, <2>4, GovStill
<1>5. QED
  BY <1>3, <1>4 DEF Prepare, Permit

LEMMA GovAnswer ==
  ASSUME QueueAssumptions, Sound, Calm, Governed, NEW h \in Hands, Answer(h) PROVE Governed'
<1> DEFINE d == hand[h]
<1>1. d \in Hand /\ d.at = "sent" /\ UNCHANGED <<plan, task, row>> /\ HandOK(d, plan, DOMAIN wishes)
  BY DEF Sound, HandsOK, Answer, At, rows
<1>2. PICK t \in d.cur : \E o \in {"ok", "failed"} :
             /\ evidence' = [evidence EXCEPT ![t] = IF o = "ok" THEN "ACKNOWLEDGED" ELSE "UNKNOWN"]
             /\ Move(h, [d EXCEPT !.at = "answered", !.outcome = o])
  BY DEF Answer
<1>3. PICK o \in {"ok", "failed"} :
             /\ evidence' = [evidence EXCEPT ![t] = IF o = "ok" THEN "ACKNOWLEDGED" ELSE "UNKNOWN"]
             /\ Move(h, [d EXCEPT !.at = "answered", !.outcome = o])
  BY <1>2
<1> DEFINE c == [d EXCEPT !.at = "answered", !.outcome = o]
           s == IF o = "ok" THEN "ACKNOWLEDGED" ELSE "UNKNOWN"
<1>4. /\ c.kind = d.kind /\ c.plan = d.plan /\ c.run = d.run /\ c.cur = d.cur /\ c.gates = d.gates
      /\ c.at = "answered" /\ t \in Steps
  BY <1>1 DEF Hand
<1>5. Move(h, c) /\ s # "NOT_SUBMITTED" /\ evidence' = [evidence EXCEPT ![t] = s]
  BY <1>3
<1> HIDE DEF c, s
<1>6. Forward(c, d)
  BY <1>1, <1>4 DEF Forward, Plain
<1>7. Fits(h, c)
  BY <1>1, <1>4, <1>6, FitsForward DEF Late
<1>8. c.plan \subseteq plan /\ c.cur \subseteq Steps /\ c.at # "seed"
  BY <1>1, <1>4 DEF HandOK, Hand
<1>9. QED
  BY <1>1, <1>4, <1>5, <1>7, <1>8, GovSent

LEMMA GovSave ==
  ASSUME QueueAssumptions, Sound, Calm, Governed, NEW h \in Hands, Save(h) PROVE Governed'
<1> DEFINE d == hand[h]
<1>1. d \in Hand /\ d.at = "answered" /\ UNCHANGED <<plan, evidence, row>> /\ HandOK(d, plan, DOMAIN wishes)
  BY DEF Sound, HandsOK, Save, At, rows
<1>2. RightPlace(h, d) /\ Informed(d, row, task, plan, evidence) /\ (h = Job => First(d, row, task, plan))
  BY DEF Governed
<1> HandsOK /\ hand[h] \in Hand
  BY DEF Sound, HandsOK
<1>3. PICK t \in hand[h].cur :
         IF task[t] = "CANCELLED" THEN Raised(h) /\ UNCHANGED task
         ELSE /\ task' = [task EXCEPT ![t] = IF hand[h].outcome = "ok" THEN "SUCCESS" ELSE "FAILED"]
              /\ Move(h, [hand[h] EXCEPT !.at = "work", !.cur = {}, !.outcome = "none",
                            !.ok = IF hand[h].outcome = "ok" THEN @ \cup {t} ELSE @,
                            !.failed = @ \/ hand[h].outcome = "failed"])
              /\ UNCHANGED wf
  BY DEF Save
<1>4. CASE task[t] # "CANCELLED"
  <2> DEFINE c == [hand[h] EXCEPT !.at = "work", !.cur = {}, !.outcome = "none",
                          !.ok = IF hand[h].outcome = "ok" THEN @ \cup {t} ELSE @,
                          !.failed = @ \/ hand[h].outcome = "failed"]
             s == IF hand[h].outcome = "ok" THEN "SUCCESS" ELSE "FAILED"
  <2>1. /\ c.kind = d.kind /\ c.plan = d.plan /\ c.run = d.run /\ c.cur = {} /\ c.gates = d.gates
        /\ c.at = "work" /\ t \in Steps
    BY <1>1 DEF Hand
  <2>2. Move(h, c) /\ task' = [task EXCEPT ![t] = s] /\ UNCHANGED <<plan, row, evidence>>
    BY <1>1, <1>3, <1>4
  <2> HIDE DEF c, s
  <2>3. Forward(c, d)
    BY <1>1, <2>1 DEF Forward, Plain
  <2>4. Fits(h, c)
    BY <1>1, <2>1, <2>3, FitsForward DEF Late
  <2>5. t \in Gated => Free(row, task, plan, t)
    BY <1>2, CompaniesIn DEF Informed
  <2>6. c.plan \subseteq plan /\ c.cur \subseteq Steps /\ c.at # "seed" /\ d.at \notin {"idle", "withdraw", "over"}
    BY <1>1, <2>1 DEF HandOK
  <2>7. QED
    BY <1>3, <1>4, <2>1, <2>2, <2>4, <2>5, <2>6, GovOne
<1>5. CASE task[t] = "CANCELLED"
  BY <1>1, <1>3, <1>5, GovRaised
<1>6. QED
  BY <1>4, <1>5

LEMMA GovStuck ==
  ASSUME QueueAssumptions, Sound, Calm, Governed, NEW h \in Hands, Stuck(h) PROVE Governed'
<1> DEFINE d == hand[h]
           c == [Writing(h, d.run, "FAILED", "work") EXCEPT !.run = {}, !.failed = TRUE]
<1>1. d \in Hand /\ d.at = "work"
  BY DEF Sound, HandsOK, Stuck, At
<1>2. UNCHANGED <<plan, task, row, evidence>> /\ Move(h, c)
  BY DEF Stuck, tables, rows
<1>3. Informed(d, row, task, plan, evidence)
  BY DEF Governed
<1>4. /\ c.kind = d.kind /\ c.run \subseteq d.run /\ c.cur = d.cur /\ c.gates = d.gates
      /\ c.at = "write" /\ c.todo = d.run /\ c.to = "FAILED" /\ c.next = "work"
  BY <1>1 DEF Hand, Writing
<1> HIDE DEF c
<1>5. \A t \in d.run \cap Gated : Free(row, task, plan, t)
  BY <1>3, CompaniesIn DEF Informed
<1>6. Fits(h, c)
  BY <1>1, <1>4, <1>5, FitsWriting DEF Late
<1>7. QED
  BY <1>2, <1>6, GovStill

LEMMA WritingIs ==
  ASSUME Sound, NEW h \in Hands, NEW todo, NEW s, NEW next
  PROVE  LET c == Writing(h, todo, s, next)
         IN  /\ c.kind = hand[h].kind /\ c.run = hand[h].run /\ c.cur = hand[h].cur
             /\ c.gates = hand[h].gates /\ c.plan = hand[h].plan /\ c.refused = hand[h].refused
             /\ c.at = "write" /\ c.todo = todo /\ c.to = s /\ c.next = next
BY DEF Sound, HandsOK, Hand, Writing

\* Tasks are called off, or are to wait: nobody has to have answered.
LEMMA GovParking ==
  ASSUME QueueAssumptions, Sound, Calm, Governed, NEW h \in Hands, NEW todo, NEW s \in Waits,
         NEW next \in {"verdict", "park", "pin", "ask"}, Move(h, Writing(h, todo, s, next)),
         hand[h].at \in {"gate", "park"}, next = "pin" => h = Job,
         UNCHANGED <<plan, task, row, evidence>>
  PROVE  Governed'
<1> DEFINE c == Writing(h, todo, s, next)
<1>1. /\ c.kind = hand[h].kind /\ c.run = hand[h].run /\ c.cur = hand[h].cur
      /\ c.gates = hand[h].gates
      /\ c.at = "write" /\ c.todo = todo /\ c.to = s /\ c.next = next
  BY WritingIs
<1>2. Move(h, c)
  OBVIOUS
<1> HIDE DEF c
<1>3. Fits(h, c)
  BY <1>1, FitsWriting DEF Late
<1>4. QED
  BY <1>2, <1>3, GovStill

LEMMA GovGate ==
  ASSUME QueueAssumptions, Sound, Calm, Governed, NEW h \in Hands, Gate(h) PROVE Governed'
<1> DEFINE view == {t \in Held(h, Viewing) : ~Closed(t)}
<1>1. hand[h].at = "gate" /\ UNCHANGED <<plan, task, row, evidence>>
  BY DEF Gate, At, tables, rows
<1>2. CASE Move(h, Writing(h, view, "CANCELLED", "verdict"))
  BY <1>1, <1>2, GovParking DEF Waits
<1>3. CASE Go(h, "verdict")
  BY <1>1, <1>3, FitsGo, GovGo DEF Plain, Late
<1>4. CASE Move(h, Writing(h, view, "WAITING_APPROVAL", "park"))
  BY <1>1, <1>4, GovParking DEF Waits
<1>5. QED
  BY <1>2, <1>3, <1>4 DEF Gate

LEMMA GovPark ==
  ASSUME QueueAssumptions, Sound, Calm, Governed, NEW h \in Hands, Park(h) PROVE Governed'
<1> DEFINE d == hand[h]
<1>1. d \in Hand /\ d.at = "park" /\ UNCHANGED <<plan, task, row, evidence>>
  BY DEF Park, At, tables, rows, Sound, HandsOK
<1>2. RightPlace(h, d) /\ (h = Job => First(d, row, task, plan))
  BY DEF Governed
<1>3. CASE Held(h, Gated) # {} /\ Move(h, Writing(h, Held(h, Gated), "WAITING_APPROVAL", "pin"))
  <2>1. h = Job
    BY <1>2, <1>3 DEF RightPlace, Held
  <2>2. QED
    BY <1>1, <1>3, <2>1, GovParking DEF Waits
<1>4. CASE Held(h, Gated) = {} /\ Move(h, [d EXCEPT !.at = "pause"])
  <2> DEFINE c == [d EXCEPT !.at = "pause"]
  <2>1. /\ c.kind = d.kind /\ c.plan = d.plan /\ c.run = d.run /\ c.cur = d.cur /\ c.gates = d.gates
        /\ c.at = "pause"
    BY <1>1 DEF Hand
  <2>2. Move(h, c) /\ Informed(d, row, task, plan, evidence)
    BY <1>4 DEF Governed
  <2> HIDE DEF c
  <2>3. RightPlace(h, c)
    BY <1>1, <1>2, <2>1 DEF RightPlace
  <2>4. Informed(c, row, task, plan, evidence)
    BY <1>1, <2>1, <2>2 DEF Informed, Sifting, Admitting
  <2>5. h = Job => First(c, row, task, plan)
    <3>1. h = Job => \A t \in Gated \cap plan : task[t] = "CANCELLED"
      BY <1>1, <1>2, <1>4 DEF First, Held
    <3>2. QED
      BY <1>1, <1>2, <2>1, <3>1, CompaniesIn DEF First, Late
  <2>6. Fits(h, c)
    BY <2>3, <2>4, <2>5 DEF Fits
  <2>7. QED
    BY <1>1, <2>2, <2>6, GovStill
<1>5. QED
  BY <1>3, <1>4 DEF Park

\* A handler asks: the rows of the first run.
LEMMA GovAsking ==
  ASSUME QueueAssumptions, Sound, Calm, Governed, NEW h \in Hands, NEW c, Move(h, c), h = Job,
         RightPlace(h, c), Informed(c, row, task, plan, evidence),
         c.plan \subseteq plan, c.cur \subseteq Steps,
         UNCHANGED <<plan, task, evidence>>, Mono, First(c, row', task', plan'), Asked(row', task', plan')
  PROVE  Governed'
<1>1. hand'[h] = c /\ \A g \in Hands : g # h => hand'[g] = hand[g]
  BY Placed DEF Sound
<1>2. \A g \in Hands : RightPlace(g, hand'[g])
  BY <1>1 DEF Governed
<1>3. ASSUME NEW g \in Hands PROVE Informed(hand'[g], row', task', plan', evidence')
  <2>1. CASE g = h
    <3>1. Informed(c, row', task', plan', evidence')
      BY InformedStays
    <3>2. QED
      BY <1>1, <2>1, <3>1
  <2>2. CASE g # h
    <3>1. Informed(hand[g], row, task, plan, evidence)
      BY DEF Governed
    <3>2. hand[g].plan \subseteq plan /\ hand[g].cur \subseteq Steps
      BY DEF Sound, HandsOK, HandOK, TablesOK
    <3>3. Informed(hand[g], row', task', plan', evidence')
      BY <3>1, <3>2, InformedStays
    <3>4. QED
      BY <1>1, <2>2, <3>3
  <2>3. QED
    BY <2>1, <2>2
<1>4. QED
  BY <1>1, <1>2, <1>3 DEF Governed

LEMMA GovPin ==
  ASSUME QueueAssumptions, Sound, Calm, Governed, NEW h \in Hands, Pin(h) PROVE Governed'
<1> DEFINE d == hand[h]
           c == [d EXCEPT !.at = "hold"]
<1>1. d \in Hand /\ d.at = "pin" /\ UNCHANGED <<plan, task, evidence>> /\ HandOK(d, plan, DOMAIN wishes)
      /\ row' = [t \in Steps |-> IF t \in Held(h, Gated) THEN "AWAITING" ELSE row[t]]
  BY DEF Pin, At, Sound, HandsOK
<1>2. RightPlace(h, d) /\ Informed(d, row, task, plan, evidence)
  BY DEF Governed
<1>3. h = Job /\ First(d, row, task, plan)
  BY <1>1, <1>2 DEF RightPlace, Governed
<1>4. /\ c.kind = d.kind /\ c.plan = d.plan /\ c.run = d.run /\ c.cur = d.cur /\ c.gates = d.gates
      /\ c.at = "hold" /\ c.plan \subseteq plan /\ c.cur \subseteq Steps
  BY <1>1 DEF Hand, HandOK
<1>5. Move(h, c)
  BY DEF Pin, Go, Move
<1> HIDE DEF c
<1>6. /\ \A t \in Companies : row[t] = "NONE"
      /\ \A t \in Gated \cap plan : t \in d.gates \/ task[t] = "CANCELLED"
  BY <1>1, <1>3 DEF First, Late
<1>7. Mono
  BY <1>1, <1>6, CompaniesIn DEF Mono
<1>8. \A t \in Gated \cap plan : row'[t] # "NONE" \/ task'[t] = "CANCELLED"
  BY <1>1, <1>6, CompaniesIn DEF Held
<1>9. \A v \in Viewing : row'[v] = "NONE"
  <2>1. Viewing \cap Gated = {}
    BY DEF QueueAssumptions
  <2>2. QED
    BY <1>1, <1>6, <2>1, CompaniesIn DEF Held
<1>10. First(c, row', task', plan')
  BY <1>1, <1>3, <1>4, <1>8, <1>9 DEF First, Late
<1>11. Asked(row', task', plan')
  <2>1. plan \cap Viewing = {} => \A t \in Gated \cap plan : task[t] \in Waits
    BY <1>6, CompaniesIn DEF Governed, Asked
  <2>2. QED
    BY <1>1, <1>8, <1>9, <2>1 DEF Asked
<1>12. RightPlace(h, c) /\ Informed(c, row, task, plan, evidence)
  <2>1. RightPlace(h, c)
    BY <1>2, <1>3, <1>4 DEF RightPlace
  <2>2. Informed(c, row, task, plan, evidence)
    BY <1>1, <1>2, <1>4 DEF Informed, Sifting, Admitting
  <2>3. QED
    BY <2>1, <2>2
<1>13. QED
  BY <1>1, <1>3, <1>4, <1>5, <1>7, <1>10, <1>11, <1>12, GovAsking

LEMMA GovPinViewing ==
  ASSUME QueueAssumptions, Sound, Calm, Governed, NEW h \in Hands, PinViewing(h) PROVE Governed'
<1> DEFINE d == hand[h]
           c == [d EXCEPT !.at = "holdViewing"]
<1>1. d \in Hand /\ d.at = "pinViewing" /\ UNCHANGED <<plan, task, evidence>> /\ HandOK(d, plan, DOMAIN wishes)
      /\ row' = [t \in Steps |-> IF t \in Held(h, Viewing) /\ Arms(t) THEN "AWAITING" ELSE row[t]]
  BY DEF PinViewing, At, Sound, HandsOK
<1>2. RightPlace(h, d) /\ Informed(d, row, task, plan, evidence)
  BY DEF Governed
<1>3. h = Job /\ First(d, row, task, plan)
  BY <1>1, <1>2 DEF RightPlace, Governed
<1>4. /\ c.kind = d.kind /\ c.plan = d.plan /\ c.run = d.run /\ c.cur = d.cur /\ c.gates = d.gates
      /\ c.at = "holdViewing" /\ c.plan \subseteq plan /\ c.cur \subseteq Steps
  BY <1>1 DEF Hand, HandOK
<1>5. Move(h, c)
  BY DEF PinViewing, Go, Move
<1> HIDE DEF c
<1>6. /\ \A v \in Viewing : row[v] = "NONE"
      /\ Viewing \cap plan \subseteq d.gates
      /\ \A t \in Gated \cap plan : row[t] # "NONE" \/ task[t] = "CANCELLED"
  BY <1>1, <1>3 DEF First
<1>7. \A t \in Companies : row'[t] = row[t] \/ (t \in Viewing /\ row[t] = "NONE" /\ row'[t] = "AWAITING")
  BY <1>1, <1>6, CompaniesIn DEF Held
<1>8. Mono
  BY <1>1, <1>7 DEF Mono
<1>9. \A v \in Viewing \cap plan : row'[v] # "NONE"
  BY <1>1, <1>6, CompaniesIn DEF Held, Arms
<1>10. First(c, row', task', plan')
  BY <1>1, <1>3, <1>4 DEF First, Late
<1>11. \A t \in Gated : row'[t] = row[t] /\ t \in Companies
  <2>1. Viewing \cap Gated = {}
    BY DEF QueueAssumptions
  <2>2. QED
    BY <1>7, <2>1, CompaniesIn
<1>12. Asked(row', task', plan')
  <2>1. plan \cap Viewing = {}
          => \A t \in Gated \cap plan : row[t] \in {"NONE", "AWAITING", "REJECTED"} => task[t] \in Waits
    BY DEF Governed, Asked
  <2>2. \A t \in Gated \cap plan' : row'[t] # "NONE" \/ task'[t] = "CANCELLED"
    BY <1>1, <1>6, <1>11
  <2>3. plan' \cap Viewing = {}
          => \A t \in Gated \cap plan' : row'[t] \in {"NONE", "AWAITING", "REJECTED"} => task'[t] \in Waits
    BY <1>1, <1>11, <2>1
  <2>4. QED
    BY <1>1, <1>9, <2>2, <2>3 DEF Asked
<1>13. RightPlace(h, c)
  BY <1>2, <1>3, <1>4 DEF RightPlace
<1>14. Informed(c, row, task, plan, evidence)
  BY <1>1, <1>2, <1>4 DEF Informed, Sifting, Admitting
<1>15. QED
  BY <1>1, <1>3, <1>4, <1>5, <1>8, <1>10, <1>12, <1>13, <1>14, GovAsking

\* Only payments are written when a card is saved.
LEMMA GovCardSaved ==
  ASSUME QueueAssumptions, Sound, Calm, Governed, NEW h \in Hands, NEW place,
         SavePendingApproval(h, place),
         Fits(h, IF place = "over" THEN [Over EXCEPT !.kind = hand[h].kind] ELSE [hand[h] EXCEPT !.at = place]),
         place # "seed"
  PROVE  Governed'
<1> DEFINE c == IF place = "over" THEN [Over EXCEPT !.kind = hand[h].kind] ELSE [hand[h] EXCEPT !.at = place]
<1>1. UNCHANGED <<plan, row, evidence>>
  BY DEF SavePendingApproval, rows
<1>2. \A t \in Companies : task'[t] = task[t]
  <2>1. Companies \cap Paying = {}
    BY DEF QueueAssumptions, Companies
  <2>2. CASE task' = [t \in Steps |-> IF Payable(t) THEN "WAITING_APPROVAL" ELSE task[t]]
    BY <2>1, <2>2, CompaniesIn DEF Payable
  <2>3. QED
    BY <2>2 DEF SavePendingApproval
<1>3. Move(h, c)
  BY DEF SavePendingApproval, End, Go, Move
<1>4. c.plan \subseteq plan /\ c.cur \subseteq Steps /\ c.at # "seed"
  <2>1. hand[h] \in Hand /\ HandOK(hand[h], plan, DOMAIN wishes)
    BY DEF Sound, HandsOK
  <2>2. CASE place = "over"
    BY <2>2 DEF Over, Idle
  <2>3. CASE place # "over"
    BY <2>1, <2>3 DEF Hand, HandOK
  <2>4. QED
    BY <2>2, <2>3
<1>5. Fits(h, c)
  OBVIOUS
<1> HIDE DEF c
<1>6. QED
  BY <1>1, <1>2, <1>3, <1>4, <1>5, Unwritten, GovTasks

LEMMA GovCard ==
  ASSUME QueueAssumptions, Sound, Calm, Governed, NEW h \in Hands, Card(h) PROVE Governed'
<1>1. CASE SavePendingApproval(h, "over")
  BY <1>1, FitsOver, GovCardSaved
<1>2. CASE End(h) /\ UNCHANGED <<tables, crashes>>
  BY <1>2, GovOver DEF tables, rows
<1>3. QED
  BY <1>1, <1>2 DEF Card

LEMMA GovEnsure ==
  ASSUME QueueAssumptions, Sound, Calm, Governed, NEW h \in Hands, Ensure(h) PROVE Governed'
<1>1. Fits(h, [hand[h] EXCEPT !.at = "conclude"])
  BY FitsGo DEF Ensure, At, Plain, Late
<1>2. CASE SavePendingApproval(h, "conclude")
  BY <1>1, <1>2, GovCardSaved
<1>3. CASE Go(h, "conclude") /\ UNCHANGED <<tables, crashes>>
  BY <1>1, <1>3, GovGo DEF tables, rows
<1>4. QED
  BY <1>2, <1>3 DEF Ensure

LEMMA GovVerdict ==
  ASSUME QueueAssumptions, Sound, Calm, Governed, NEW h \in Hands, Verdict(h) PROVE Governed'
<1> DEFINE d == hand[h]
           place == IF FinalStatus = "WAITING_APPROVAL" THEN "ensure" ELSE "conclude"
           c == [d EXCEPT !.verdict = FinalStatus, !.at = place]
<1>1. d \in Hand /\ d.at = "verdict" /\ UNCHANGED <<plan, row, task, evidence>>
  BY DEF Verdict, At, Sound, HandsOK, rows
<1>2. CASE End(h)
  BY <1>1, <1>2, GovOver
<1>3. CASE Go(h, "ask")
  BY <1>1, <1>3, FitsGo, GovGo DEF Plain, Late
<1>4. CASE Move(h, c)
  <2>1. /\ c.kind = d.kind /\ c.plan = d.plan /\ c.run = d.run /\ c.cur = d.cur /\ c.gates = d.gates
        /\ c.at \in {"ensure", "conclude"}
    BY <1>1 DEF Hand
  <2> HIDE DEF c
  <2>2. Forward(c, d)
    BY <1>1, <2>1 DEF Forward, Plain
  <2>3. Fits(h, c)
    BY <1>1, <2>1, <2>2, FitsForward DEF Late
  <2>4. QED
    BY <1>1, <1>4, <2>3, GovStill
<1>5. QED
  BY <1>2, <1>3, <1>4 DEF Verdict

LEMMA GovLook ==
  ASSUME QueueAssumptions, Sound, Calm, Governed, NEW h \in Hands, Look(h) PROVE Governed'
<1> DEFINE d == hand[h]
           refused == {t \in plan : row[t] \in {"REJECTED", "EXPIRED"} /\ ~Closed(t)}
           approved == {t \in plan : row[t] = "APPROVED" /\ ~Closed(t)}
           place == IF Agreed = {} THEN "sift" ELSE "recall"
           fix == FixableOf(refused)
           c == [d EXCEPT !.at = place, !.plan = plan, !.orders = Agreed, !.refused = refused,
                          !.fixable = fix, !.approved = approved]
<1>1. d \in Hand /\ d.at = "look" /\ UNCHANGED <<plan, row, task, evidence>>
  BY DEF Look, At, Sound, HandsOK, tables, rows
<1>2. CASE End(h)
  BY <1>1, <1>2, GovOver
<1>3. CASE AllDecided /\ Move(h, c)
  <2>1. RightPlace(h, d) /\ Informed(d, row, task, plan, evidence) /\ d.kind = "service" /\ h # Job
    BY <1>1 DEF Governed, RightPlace
  <2>2. place = "sift"
    <3>1. wishes = <<>>
      BY DEF Calm
    <3>2. Agreed = {}
      BY <3>1 DEF Agreed
    <3>3. QED
      BY <3>2
  <2>3. /\ c.kind = "service" /\ c.plan = plan /\ c.run = d.run /\ c.cur = d.cur /\ c.gates = d.gates
        /\ c.at = "sift" /\ c.refused = refused
    BY <1>1, <2>1, <2>2 DEF Hand
  <2>4. \A t \in Gated \cap plan : Done(row, task, t)
    <3>1. Awaiting = {} /\ \A t \in Gated \cap plan : row[t] # "NONE" \/ task[t] = "CANCELLED"
      BY <1>3, <2>1 DEF AllDecided, Unanswered, Informed, Governed, Asked
    <3>2. QED
      BY <3>1 DEF Awaiting, Done
  <2>5. plan \cap Viewing = {}
          => \A t \in Gated \cap plan : row[t] = "REJECTED" => t \in refused \/ task[t] = "CANCELLED"
    <3>1. plan \cap Viewing = {} => \A t \in Gated \cap plan : row[t] = "REJECTED" => task[t] \in Waits
      BY DEF Governed, Asked
    <3>2. QED
      BY <3>1 DEF Closed, Finished, Waits
  <2> HIDE DEF c, refused
  <2>6. RightPlace(h, c)
    BY <2>1, <2>3 DEF RightPlace
  <2>7. Informed(c, row, task, plan, evidence)
    BY <2>1, <2>3, <2>4, <2>5 DEF Informed, Admitting
  <2>8. Fits(h, c)
    BY <2>1, <2>6, <2>7 DEF Fits
  <2>9. QED
    BY <1>1, <1>3, <2>8, GovStill
<1>4. QED
  BY <1>2, <1>3 DEF Look

LEMMA GovSift ==
  ASSUME QueueAssumptions, Sound, Calm, Governed, NEW h \in Hands, Sift(h) PROVE Governed'
<1> DEFINE d == hand[h]
           c == [Writing(h, d.refused, "CANCELLED", "trim") EXCEPT !.kind = "service", !.taken = {}]
<1>1. RightPlace(h, d) /\ Informed(d, row, task, plan, evidence)
  BY DEF Governed
<1>2. d \in Hand /\ d.at = "sift" /\ UNCHANGED <<plan, row, task, evidence>>
  BY <1>1 DEF Sift, At, Sound, HandsOK, tables, rows, RightPlace
<1>3. d.kind = "service" /\ h # Job
  BY <1>1, <1>2 DEF RightPlace
<1>4. /\ c.kind = d.kind /\ c.run = d.run /\ c.cur = d.cur /\ c.gates = d.gates
      /\ c.at = "write" /\ c.todo = d.refused /\ c.to = "CANCELLED" /\ c.next = "trim"
      /\ c.refused = d.refused
  BY <1>2, <1>3 DEF Hand, Writing
<1>5. Move(h, c)
  BY DEF Sift
<1> HIDE DEF c
<1>6. plan \cap Viewing = {}
        => \A t \in Gated \cap plan : row[t] = "REJECTED" => t \in c.refused \/ task[t] = "CANCELLED"
  BY <1>1, <1>2, <1>3, <1>4 DEF Informed, Sifting
<1>7. Fits(h, c)
  BY <1>2, <1>3, <1>4, <1>6, FitsWriting DEF Waits
<1>8. QED
  BY <1>2, <1>5, <1>7, GovStill

LEMMA GovTrim ==
  ASSUME QueueAssumptions, Sound, Calm, Governed, NEW h \in Hands, Trim(h) PROVE Governed'
<1> DEFINE d == hand[h]
           kept == PlanWithout(d.plan, d.refused)
           c == [Writing(h, Doomed(h), "CANCELLED", "admit") EXCEPT !.plan = kept]
<1>1. RightPlace(h, d) /\ Informed(d, row, task, plan, evidence) /\ HandOK(d, plan, DOMAIN wishes)
  BY DEF Governed, Sound, HandsOK
<1>2. d \in Hand /\ d.at = "trim" /\ UNCHANGED <<plan, row, task, evidence>>
  BY <1>1 DEF Trim, At, Sound, HandsOK, tables, rows
<1>3. d.kind = "service" /\ h # Job
  BY <1>1, <1>2 DEF RightPlace
<1>4. CASE Go(h, IF d.fixable # {} THEN "ask" ELSE "giveUp")
  <2>1. CASE Go(h, "ask")
    BY <1>2, <1>3, <2>1, FitsGo, GovGo DEF Plain
  <2>2. CASE Go(h, "giveUp")
    BY <1>2, <1>3, <2>2, FitsGo, GovGo DEF Plain
  <2>3. QED
    BY <1>4, <2>1, <2>2
<1>5. CASE Move(h, c)
  <2>1. /\ c.kind = d.kind /\ c.run = d.run /\ c.cur = d.cur /\ c.gates = d.gates
        /\ c.at = "write" /\ c.todo = Doomed(h) /\ c.to = "CANCELLED" /\ c.next = "admit"
        /\ c.refused = d.refused /\ c.plan = kept
    BY <1>2, <1>3 DEF Hand, Writing
  <2>2. kept \subseteq d.plan \ d.refused /\ d.plan \subseteq plan
    BY <1>1, PlanWithoutIn DEF HandOK
  <2> HIDE DEF c, kept
  <2>3. plan \cap Viewing = {}
          => \A t \in Gated \cap c.plan : row[t] = "REJECTED" => task[t] = "CANCELLED"
    BY <1>1, <1>2, <1>3, <2>1, <2>2 DEF Informed, Sifting
  <2>4. Fits(h, c)
    BY <1>2, <1>3, <2>1, <2>3, FitsWriting DEF Waits
  <2>5. QED
    BY <1>2, <1>5, <2>4, GovStill
<1>6. QED
  BY <1>4, <1>5 DEF Trim

LEMMA GovAdmit ==
  ASSUME QueueAssumptions, Sound, Calm, Governed, NEW h \in Hands, Admit(h) PROVE Governed'
<1> DEFINE d == hand[h]
           c == Writing(h, d.approved, "PENDING", "seed")
<1>1. RightPlace(h, d) /\ Informed(d, row, task, plan, evidence)
  BY DEF Governed
<1>2. d.at = "admit" /\ UNCHANGED <<plan, row, task, evidence>> /\ Move(h, c)
  BY <1>1 DEF Admit, At, tables, rows
<1>3. d.kind = "service" /\ h # Job
  BY <1>1, <1>2 DEF RightPlace
<1>4. /\ c.kind = d.kind /\ c.run = d.run /\ c.cur = d.cur /\ c.gates = d.gates /\ c.plan = d.plan
      /\ c.at = "write" /\ c.todo = d.approved /\ c.to = "PENDING" /\ c.next = "seed"
  BY WritingIs
<1> HIDE DEF c
<1>5. plan \cap Viewing = {}
        => \A t \in Gated \cap c.plan : row[t] = "REJECTED" => task[t] = "CANCELLED"
  BY <1>1, <1>2, <1>3, <1>4 DEF Informed, Admitting
<1>6. Fits(h, c)
  BY <1>2, <1>3, <1>4, <1>5, FitsWriting DEF Waits
<1>7. QED
  BY <1>2, <1>6, GovStill

LEMMA GovJudge ==
  ASSUME QueueAssumptions, Sound, Calm, Governed, NEW h \in Hands, JudgeRefusal(h) PROVE Governed'
<1> DEFINE d == hand[h]
           fixable == FixableOf({t \in plan : ~Closed(t)})
           all == {t \in plan : ~Closed(t)}
<1>1. RightPlace(h, d) /\ Informed(d, row, task, plan, evidence)
  BY DEF Governed
<1>2. d.at = "judge" /\ UNCHANGED <<plan, row, task, evidence>>
  BY <1>1 DEF JudgeRefusal, At, tables, rows
<1>3. d.kind = "reject" /\ h # Job /\ plan \cap Viewing # {}
  BY <1>1, <1>2 DEF RightPlace, Informed
<1>4. ASSUME NEW todo, NEW s, NEW next \in {"ask", "fail"}, Move(h, Writing(h, todo, s, next)) PROVE Governed'
  <2> DEFINE c == Writing(h, todo, s, next)
  <2>1. /\ c.kind = d.kind /\ c.run = d.run /\ c.cur = d.cur /\ c.gates = d.gates /\ c.plan = d.plan
        /\ c.at = "write" /\ c.todo = todo /\ c.to = s /\ c.next = next
    BY WritingIs
  <2>2. Move(h, c)
    BY <1>4
  <2> HIDE DEF c
  <2>3. Fits(h, c)
    BY <1>2, <1>3, <2>1, FitsWriting
  <2>4. QED
    BY <1>2, <2>2, <2>3, GovStill
<1>5. QED
  BY <1>4 DEF JudgeRefusal

LEMMA GovBooked ==
  ASSUME QueueAssumptions, Sound, Calm, Governed, NEW h \in Hands, Booked(h) PROVE Governed'
<1> DEFINE d == hand[h]
           c == [Idle EXCEPT !.at = "seed", !.kind = "view", !.plan = plan]
           w == Writing(h, {u \in plan : ~Closed(u)}, "FAILED", "fail")
<1>1. RightPlace(h, d) /\ Informed(d, row, task, plan, evidence)
  BY DEF Governed
<1>2. d \in Hand /\ d.at = "answered" /\ d.kind = "approve" /\ UNCHANGED <<plan, row, evidence>>
  BY <1>1 DEF Booked, At, rows, Sound, HandsOK
<1>3. h # Job /\ plan \cap Viewing # {} /\ \E v \in Viewing : row[v] # "NONE"
  BY <1>1, <1>2 DEF RightPlace, Informed
<1>4. CASE Move(h, w) /\ UNCHANGED <<wf, task>>
  <2>1. /\ w.kind = d.kind /\ w.run = d.run /\ w.cur = d.cur /\ w.gates = d.gates /\ w.plan = d.plan
        /\ w.at = "write" /\ w.todo = {u \in plan : ~Closed(u)} /\ w.to = "FAILED" /\ w.next = "fail"
    BY WritingIs
  <2> HIDE DEF w
  <2>2. Fits(h, w)
    BY <1>2, <1>3, <2>1, FitsWriting
  <2>3. QED
    BY <1>2, <1>4, <2>2, GovStill
<1>5. CASE Raised(h) /\ UNCHANGED task
  BY <1>2, <1>5, GovRaised
<1>6. ASSUME NEW t \in d.cur, task[t] # "CANCELLED", task' = [task EXCEPT ![t] = "SUCCESS"], Move(h, c)
      PROVE  Governed'
  <2>1. /\ c.kind = "view" /\ c.run = {} /\ c.cur = {} /\ c.gates = {} /\ c.plan = plan /\ c.at = "seed"
    BY DEF Idle
  <2> HIDE DEF c
  <2>2. RightPlace(h, c)
    BY <1>3, <2>1 DEF RightPlace
  <2>3. Informed(c, row, task, plan, evidence)
    BY <1>3, <2>1 DEF Informed
  <2>4. Fits(h, c)
    BY <1>3, <2>2, <2>3 DEF Fits
  <2>5. t \in Steps /\ c.plan \subseteq plan /\ c.cur \subseteq Steps
    BY <1>2, <2>1 DEF Hand
  <2>6. QED
    BY <1>2, <1>3, <1>6, <2>4, <2>5, GovOne
<1>7. PICK t \in hand[h].cur :
       IF hand[h].outcome = "failed"
         THEN Move(h, Writing(h, {u \in plan : ~Closed(u)}, "FAILED", "fail")) /\ UNCHANGED <<wf, task>>
         ELSE IF task[t] = "CANCELLED" THEN Raised(h) /\ UNCHANGED task
         ELSE /\ task' = [task EXCEPT ![t] = "SUCCESS"]
              /\ Move(h, [Idle EXCEPT !.at = "seed", !.kind = "view", !.plan = plan])
              /\ UNCHANGED wf
  BY DEF Booked
<1>8. QED
  BY <1>4, <1>5, <1>6, <1>7

\* A company answers: the row it answers was waiting.
LEMMA GovAnswered ==
  ASSUME QueueAssumptions, Sound, Calm, Governed, NEW h \in Officers, NEW t \in Companies \cap Awaiting,
         NEW s \in {"APPROVED", "REJECTED"}, row' = [row EXCEPT ![t] = s],
         t \in Viewing => s = "APPROVED" \/ plan \cap Viewing # {},
         NEW c, Move(h, c), c.kind \in {"service", "approve", "reject"},
         c.kind # "service" => t \in Viewing, c.kind = "service" <=> c.at = "look", c.at = "look" => c.cur = {},
         c.at \in {"look", "call", "codeOther", "codeFull"}, c.at \in {"codeOther", "codeFull"} => c.kind = "reject",
         c.run = {}, c.cur \subseteq {t}, c.gates = {}, UNCHANGED <<plan, task, evidence>>
  PROVE  Governed'
<1>1. h \in Hands /\ h # Job /\ Job \in Hands
  BY DEF QueueAssumptions, Hands
<1>2. t \in Steps /\ row[t] = "AWAITING" /\ t \in plan /\ row \in [Steps -> RowStatuses]
  BY CompaniesIn DEF Awaiting, Sound, TablesOK
<1>3. hand'[h] = c /\ \A g \in Hands : g # h => hand'[g] = hand[g]
  BY <1>1, Placed DEF Sound
<1>4. row'[t] = s /\ \A u \in Steps : u # t => row'[u] = row[u]
  BY <1>2
<1>5. Mono /\ Unasked
  BY <1>2, <1>4, CompaniesIn DEF Mono, Unasked
<1>6. RightPlace(h, c)
  BY <1>1 DEF RightPlace
<1>7. Informed(c, row', task', plan', evidence')
  <2>1. c.kind = "service" => \E u \in Companies : row'[u] # "NONE"
    BY <1>4
  <2>2. c.kind \in {"view", "approve", "reject"} => \E v \in Viewing : row'[v] # "NONE"
    BY <1>4
  <2>3. c.kind \in {"view", "approve", "reject"} => plan' \cap Viewing # {}
    BY <1>2
  <2>4. \A u \in (c.run \cup c.cur) \cap Companies : Free(row', task', plan', u)
    BY <1>4, <2>3 DEF Free, Done
  <2>5. \A u, v \in c.cur : u = v
    OBVIOUS
  <2>6. QED
    BY <2>1, <2>2, <2>3, <2>4, <2>5 DEF Informed, Sifting, Admitting
<1>8. /\ hand[Job].at = "seed"
           => \A u \in Companies \cap plan : task'[u] \in {"PENDING", "CANCELLED"}
      /\ plan \cap Viewing = {}
           => \A u \in Gated \cap plan : row[u] \in {"NONE", "AWAITING", "REJECTED"} => task'[u] \in Waits
  BY Unwritten
<1>9. plan \cap Viewing = {}
        => \A u \in Gated \cap plan : row'[u] \in {"NONE", "AWAITING", "REJECTED"} => task'[u] \in Waits
  BY <1>2, <1>4, <1>8, CompaniesIn
<1>10. QED
  BY <1>1, <1>3, <1>5, <1>6, <1>7, <1>8, <1>9, GovernedStep

LEMMA GovDecide ==
  ASSUME QueueAssumptions, Sound, Calm, Governed, NEW h \in Hands, Decide(h) PROVE Governed'
<1> DEFINE c == [Idle EXCEPT !.at = "look", !.kind = "service"]
<1>1. Move(h, c) /\ h \in Officers /\ UNCHANGED <<plan, task, evidence>>
  BY DEF Decide
<1>2. PICK t \in Gated \cap Awaiting : \E s \in {"APPROVED", "REJECTED"} : row' = [row EXCEPT ![t] = s]
  BY DEF Decide
<1>3. PICK s \in {"APPROVED", "REJECTED"} : row' = [row EXCEPT ![t] = s]
  BY <1>2
<1>4. c.kind = "service" /\ c.at = "look" /\ c.run = {} /\ c.cur = {} /\ c.gates = {}
  BY DEF Idle
<1> HIDE DEF c
<1>5. t \in Companies \cap Awaiting /\ t \notin Viewing
  BY CompaniesIn DEF QueueAssumptions
<1>6. QED
  BY <1>1, <1>3, <1>4, <1>5, GovAnswered

LEMMA GovApproveViewing ==
  ASSUME QueueAssumptions, Sound, Calm, Governed, NEW h \in Hands, ApproveViewing(h) PROVE Governed'
<1>1. PICK t \in Viewing : /\ Answerable(t) /\ row' = DecisionOn(t, "APPROVED")
                           /\ Move(h, [Idle EXCEPT !.at = "call", !.kind = "approve", !.cur = {t}])
  BY DEF ApproveViewing
<1> DEFINE c == [Idle EXCEPT !.at = "call", !.kind = "approve", !.cur = {t}]
<1>2. h \in Officers /\ UNCHANGED <<plan, task, evidence>>
  BY DEF ApproveViewing
<1>3. c.kind = "approve" /\ c.at = "call" /\ c.run = {} /\ c.cur = {t} /\ c.gates = {}
  BY DEF Idle
<1>4. Move(h, c) /\ row' = [row EXCEPT ![t] = "APPROVED"]
  BY <1>1 DEF DecisionOn
<1> HIDE DEF c
<1>5. t \in Companies \cap Awaiting
  BY <1>1, CompaniesIn DEF Answerable, DueViewings
<1>6. QED
  BY <1>2, <1>3, <1>4, <1>5, GovAnswered

LEMMA GovRejectViewing ==
  ASSUME QueueAssumptions, Sound, Calm, Governed, NEW h \in Hands, RejectViewing(h) PROVE Governed'
<1>1. PICK t \in Viewing \cap Awaiting : \E e \in {"NO_AVAILABILITY", "OTHER"} :
       /\ row' = DecisionOn(t, "REJECTED")
       /\ Move(h, [Idle EXCEPT !.at = IF e = "OTHER" THEN "codeOther" ELSE "codeFull",
                     !.kind = "reject", !.cur = {t}])
  BY DEF RejectViewing
<1>2. PICK e \in {"NO_AVAILABILITY", "OTHER"} :
       /\ row' = DecisionOn(t, "REJECTED")
       /\ Move(h, [Idle EXCEPT !.at = IF e = "OTHER" THEN "codeOther" ELSE "codeFull",
                     !.kind = "reject", !.cur = {t}])
  BY <1>1
<1> DEFINE place == IF e = "OTHER" THEN "codeOther" ELSE "codeFull"
           c == [Idle EXCEPT !.at = place, !.kind = "reject", !.cur = {t}]
<1>3. h \in Officers /\ UNCHANGED <<plan, task, evidence>>
  BY DEF RejectViewing
<1>4. c.kind = "reject" /\ c.at = place /\ c.run = {} /\ c.cur = {t} /\ c.gates = {}
  BY DEF Idle
<1>5. Move(h, c) /\ row' = [row EXCEPT ![t] = "REJECTED"] /\ place \in {"codeOther", "codeFull"}
  BY <1>2 DEF DecisionOn
<1> HIDE DEF c, place
<1>6. t \in Companies \cap Awaiting /\ plan \cap Viewing # {}
  BY CompaniesIn DEF Awaiting
<1>7. QED
  BY <1>3, <1>4, <1>5, <1>6, GovAnswered

LEMMA GovStop ==
  ASSUME QueueAssumptions, Sound, Calm, Governed, NEW h \in Hands, Stop(h) PROVE Governed'
<1> DEFINE c == [Idle EXCEPT !.at = "withdraw", !.kind = "stop"]
<1>1. h # Job /\ Move(h, c) /\ UNCHANGED <<plan, row, evidence>>
      /\ task' = [t \in Steps |-> IF t \notin plan \/ Closed(t) THEN task[t] ELSE "CANCELLED"]
  BY DEF Stop, rows, QueueAssumptions
<1>2. c.kind = "stop" /\ c.at = "withdraw" /\ c.run = {} /\ c.cur = {} /\ c.gates = {} /\ c.plan = {}
  BY DEF Idle
<1> HIDE DEF c
<1>3. RightPlace(h, c)
  BY <1>1, <1>2 DEF RightPlace
<1>4. Informed(c, row, task, plan, evidence)
  BY <1>2 DEF Informed
<1>5. Fits(h, c)
  BY <1>1, <1>3, <1>4 DEF Fits
<1>6. \A t \in Companies : task'[t] \in {task[t], "CANCELLED"}
  BY <1>1, CompaniesIn
<1>7. /\ hand[Job].at = "seed"
           => \A t \in Companies \cap plan : task'[t] \in {"PENDING", "CANCELLED"}
      /\ plan \cap Viewing = {}
           => \A t \in Gated \cap plan : row[t] \in {"NONE", "AWAITING", "REJECTED"} => task'[t] \in Waits
  BY <1>6, CompaniesIn DEF Governed, First, Asked, Waits
<1>8. QED
  BY <1>1, <1>2, <1>5, <1>6, <1>7, GovTasks

\* Viewings nobody answered any more.
LEMMA GovWithdrawn ==
  ASSUME QueueAssumptions, Sound, Calm, Governed, NEW h \in Hands,
         \A g \in Hands : g # h => hand'[g] = hand[g],
         hand'[h] = hand[h] \/ hand'[h] = [Over EXCEPT !.kind = hand[h].kind],
         row' = [t \in Steps |-> IF t \in Viewing \cap Awaiting THEN "EXPIRED" ELSE row[t]],
         UNCHANGED <<plan, task, evidence>>
  PROVE  Governed'
<1> DEFINE c == hand'[h]
<1>1. Fits(h, hand[h])
  <2>1. h = Job => First(hand[h], row, task, plan)
    BY DEF Governed
  <2>2. QED
    BY <2>1 DEF Governed, Fits
<1>2. RightPlace(h, hand'[h]) /\ Informed(hand'[h], row, task, plan, evidence)
      /\ (h = Job => First(hand'[h], row, task, plan))
  BY <1>1, FitsOver DEF Fits
<1>3. \A t \in Companies : row'[t] = row[t] \/ (row[t] = "AWAITING" /\ row'[t] = "EXPIRED")
  BY CompaniesIn DEF Awaiting
<1>4. Mono /\ Unasked
  BY <1>3 DEF Mono, Unasked
<1>5. hand'[h].plan \subseteq plan /\ hand'[h].cur \subseteq Steps
  <2>1. hand[h].plan \subseteq plan /\ hand[h].cur \subseteq Steps
    BY DEF Sound, HandsOK, HandOK, Hand
  <2>2. [Over EXCEPT !.kind = hand[h].kind].plan = {} /\ [Over EXCEPT !.kind = hand[h].kind].cur = {}
    BY DEF Over, Idle
  <2>3. QED
    BY <2>1, <2>2
<1>6. Informed(hand'[h], row', task', plan', evidence')
  BY <1>2, <1>4, <1>5, InformedStays
<1>7. /\ hand[Job].at = "seed"
           => \A u \in Companies \cap plan : task'[u] \in {"PENDING", "CANCELLED"}
      /\ plan \cap Viewing = {}
           => \A u \in Gated \cap plan : row[u] \in {"NONE", "AWAITING", "REJECTED"} => task'[u] \in Waits
  BY Unwritten
<1>8. \A u \in Gated : row'[u] = row[u]
  BY CompaniesIn DEF QueueAssumptions
<1>9. h = Job => First(hand'[h], row', task', plan')
  <2>1. h = Job /\ hand'[h].at = "seed" => hand[Job].at = "seed"
    BY DEF Over, Idle
  <2>2. QED
    BY <1>2, <1>4, <1>7, <2>1, FirstStays
<1>10. QED
  BY <1>2, <1>4, <1>6, <1>7, <1>8, <1>9, GovernedStep

LEMMA GovWithdraw ==
  ASSUME QueueAssumptions, Sound, Calm, Governed, NEW h \in Hands, Withdraw(h) PROVE Governed'
<1>1. hand'[h] = [Over EXCEPT !.kind = hand[h].kind] /\ \A g \in Hands : g # h => hand'[g] = hand[g]
  BY Placed DEF Withdraw, End, Sound
<1>2. QED
  BY <1>1, GovWithdrawn DEF Withdraw, Withdrawn

LEMMA GovExpire ==
  ASSUME QueueAssumptions, Sound, Calm, Governed, ExpireStaleViewings PROVE Governed'
<1>1. Job \in Hands /\ \A g \in Hands : hand'[g] = hand[g]
  BY DEF Hands, ExpireStaleViewings
<1>2. QED
  BY <1>1, GovWithdrawn DEF ExpireStaleViewings

LEMMA GovCrash ==
  ASSUME QueueAssumptions, Sound, Calm, Governed, Crash PROVE Governed'
<1>1. UNCHANGED <<plan, row, task, evidence>>
  BY DEF Crash, tables, rows
<1>2. ASSUME NEW h \in Hands
      PROVE  hand'[h] = hand[h] \/ hand'[h] = [Over EXCEPT !.kind = hand[h].kind]
  BY DEF Crash
<1>3. ASSUME NEW h \in Hands PROVE Fits(h, hand'[h])
  <2>1. CASE hand'[h] = hand[h]
    <3>1. Fits(h, hand[h])
      BY DEF Governed, Fits
    <3>2. QED
      BY <2>1, <3>1
  <2>2. CASE hand'[h] = [Over EXCEPT !.kind = hand[h].kind]
    <3> DEFINE c == [Over EXCEPT !.kind = hand[h].kind]
    <3>1. Fits(h, c) /\ hand'[h] = c
      BY <2>2, FitsOver
    <3> HIDE DEF c
    <3>2. QED
      BY <3>1
  <2>3. QED
    BY <1>2, <2>1, <2>2
<1>4. Job \in Hands
  BY DEF Hands
<1>5. QED
  BY <1>1, <1>3, <1>4 DEF Governed, Fits

\* What a governed workflow may not do, and what would no longer be calm.
LEMMA NotCalm ==
  ASSUME QueueAssumptions, Sound, Calm, Governed, Calm', NEW h \in Hands
  PROVE  /\ ~Recall(h) /\ ~Order(h) /\ ~Recalled(h) /\ ~Reopen(h) /\ ~Unlock(h)
         /\ ~DecideWish(h) /\ ~Amend(h) /\ ~Retry(h) /\ ~Wish(h)
<1>1. RightPlace(h, hand[h])
  BY DEF Governed
<1>2. ~Recall(h)
  BY <1>1 DEF Recall, At, RightPlace
<1>3. ~Order(h)
  BY <1>1 DEF Order, At, RightPlace
<1>4. ~Recalled(h)
  BY <1>1 DEF Recalled, RightPlace
<1>5. ~Reopen(h) /\ ~Unlock(h)
  BY <1>1 DEF Reopen, Unlock, At, RightPlace
<1>6. ~DecideWish(h)
  BY DEF DecideWish, Calm
<1>7. ASSUME NEW place, Move(h, [Idle EXCEPT !.at = place, !.kind = "again", !.plan = plan]) PROVE FALSE
  <2> DEFINE c == [Idle EXCEPT !.at = place, !.kind = "again", !.plan = plan]
  <2>1. c.kind = "again"
    BY DEF Idle
  <2>2. Move(h, c)
    BY <1>7
  <2> HIDE DEF c
  <2>3. hand'[h] = c
    BY <2>2, Placed DEF Sound
  <2>4. QED
    BY <2>1, <2>3 DEF Calm
<1>8. ~Amend(h) /\ ~Retry(h)
  BY <1>7 DEF Amend, Retry
<1>9. ASSUME Wish(h) PROVE FALSE
  <2>1. PICK t \in plan \cap Gated, k \in WishKinds : wishes' = Asking(t, k)
    BY <1>9 DEF Wish
  <2> DEFINE W == [of : Gated, kind : WishKinds, status : RowStatuses]
             w == [of |-> t, kind |-> k, status |-> "AWAITING"]
  <2>2. w \in W /\ wishes' = Append(wishes, w) /\ wishes \in Seq(W)
    BY <2>1 DEF RowStatuses, Asking, TablesOK, Sound
  <2> HIDE DEF W, w
  <2>3. QED
    BY <2>2 DEF Calm
<1>10. QED
  BY <1>2, <1>3, <1>4, <1>5, <1>6, <1>8, <1>9

LEMMA GovernedNext ==
  ASSUME QueueAssumptions, Sound, Calm, Governed, Calm', QueueNext PROVE Governed'
<1>1. ASSUME NEW h \in Hands, Goes(h) PROVE Governed'
  BY <1>1, NotCalm, GovWrite, GovSeed, GovStart, GovBegin, GovPrepare, GovAnswer, GovSave, GovStuck,
     GovExhausted, GovGate, GovPark, GovPin, GovHold, GovPause, GovPinViewing, GovCard, GovVerdict,
     GovEnsure, GovEnds, GovAsk, GovLook, GovSift, GovTrim, GovAdmit, GovBooked, GovSaveCode, GovJudge,
     GovWithdraw DEF Goes
<1>2. ASSUME NEW h \in Hands, Decides(h) PROVE Governed'
  BY <1>2, NotCalm, GovDecide, GovApproveViewing, GovRejectViewing DEF Decides
<1>3. ASSUME NEW h \in Hands, Asks(h) PROVE Governed'
  BY <1>3, NotCalm, GovStop DEF Asks
<1>4. QED
  BY <1>1, <1>2, <1>3, GovExpire, GovCrash DEF QueueNext

LEMMA GovernedSame ==
  ASSUME UNCHANGED vars PROVE /\ Calm' <=> Calm
                              /\ Governed' <=> Governed
BY DEF vars, rows, Calm, Governed

LEMMA GovernedInit ==
  ASSUME QueueAssumptions, QueueInit PROVE Calm => Governed
<1>1. CASE Planned
  <2>1. \A h \in Hands : h # Job => hand[h] = Idle
    BY <1>1 DEF Planned
  <2> DEFINE c == [Idle EXCEPT !.at = "seed", !.kind = "first", !.plan = plan]
  <2>2. hand[Job] = c /\ Job \in Hands
    BY <1>1 DEF Planned, Hands
  <2>3. /\ Idle.at = "idle" /\ Idle.kind = "none" /\ Idle.run = {} /\ Idle.cur = {} /\ Idle.gates = {}
        /\ c.at = "seed" /\ c.kind = "first" /\ c.run = {} /\ c.cur = {} /\ c.gates = {} /\ c.plan = plan
    BY DEF Idle
  <2> HIDE DEF c
  <2>4. /\ \A t \in Companies : row[t] = "NONE" /\ task[t] = "PENDING"
    BY <1>1, CompaniesIn DEF Planned
  <2>5. ASSUME NEW h \in Hands PROVE RightPlace(h, hand[h]) /\ Informed(hand[h], row, task, plan, evidence)
    <3>1. CASE h = Job
      BY <2>2, <2>3, <3>1 DEF RightPlace, Informed
    <3>2. CASE h # Job
      <4>1. RightPlace(h, Idle) /\ Informed(Idle, row, task, plan, evidence)
        BY <2>3, <3>2 DEF RightPlace, Informed
      <4>2. QED
        BY <2>1, <3>2, <4>1
    <3>3. QED
      BY <3>1, <3>2
  <2>6. First(hand[Job], row, task, plan)
    BY <2>2, <2>3, <2>4 DEF First
  <2>7. Asked(row, task, plan)
    BY <2>4, CompaniesIn DEF Asked, Waits
  <2>8. QED
    BY <2>5, <2>6, <2>7 DEF Governed
<1>2. CASE Served
  <2>1. PICK n \in 1..MaxWishes : \E of \in [1..n -> plan \cap Gated] :
          wishes = [i \in 1..n |-> [of |-> of[i], kind |-> "CANCEL", status |-> "AWAITING"]]
    BY <1>2 DEF Served
  <2>2. DOMAIN wishes = 1..n /\ 1 \in 1..n
    BY <2>1 DEF QueueAssumptions
  <2>3. wishes # <<>>
    BY <2>2
  <2>4. QED
    BY <2>3 DEF Calm
<1>3. QED
  BY <1>1, <1>2 DEF QueueInit

\* Until the customer reruns the workflow or makes a request about a booking,
\* every handler with a step of a company in hand knows its answer.
THEOREM QueueGoverned == ASSUME QueueAssumptions PROVE QueueSpec => [](Calm => Governed)
<1>1. ASSUME Sound, Calm => Governed, [QueueNext]_vars PROVE (Calm => Governed)'
  <2>1. CASE UNCHANGED vars
    BY <1>1, <2>1, GovernedSame
  <2>2. CASE QueueNext
    BY <1>1, <2>2, CalmBefore, GovernedNext
  <2>3. QED
    BY <1>1, <2>1, <2>2
<1>2. QED
  BY <1>1, QueueSound, GovernedInit, PTL DEF QueueSpec

\* Only a call sends a step, and only a step whose company has answered.
LEMMA SentWhenDecided ==
  ASSUME QueueAssumptions, Sound, Calm => Governed, [QueueNext]_vars,
         NEW t \in Companies, evidence[t] = "NOT_SUBMITTED", evidence'[t] # "NOT_SUBMITTED",
         ~Reran, wishes = <<>>
  PROVE  /\ row[t] \notin {"NONE", "AWAITING"}
         /\ plan \cap Viewing = {} => row[t] # "REJECTED"
<1>1. Governed
  BY DEF Calm, Reran
<1>2. evidence \in [Steps -> {"NOT_SUBMITTED", "SUBMITTING", "ACKNOWLEDGED", "UNKNOWN"}] /\ t \in Steps
  BY CompaniesIn DEF Sound, TablesOK
<1>3. \E h \in Hands : Prepare(h) \/ Answer(h)
  <2>1. UNCHANGED vars => UNCHANGED evidence
    BY DEF vars
  <2>2. ASSUME NEW h \in Hands, Goes(h), ~Prepare(h), ~Answer(h) PROVE UNCHANGED evidence
    BY <2>2 DEF Goes, Write, Seed, Start, Begin, Save, Stuck, Exhausted, Gate, Park, Pin, Hold, Pause,
       PinViewing, HoldViewing, Card, SavePendingApproval, Verdict, Ensure, Conclude, Ask, Fail, Look, Recall,
       Order, Recalled, Sift, Trim, GiveUp, Admit, Booked, SaveCode, JudgeRefusal, Withdraw, Reopen, Unlock, tables
  <2>3. ASSUME NEW h \in Hands, Decides(h) \/ Asks(h) PROVE UNCHANGED evidence
    BY <2>3 DEF Decides, Asks, Decide, DecideWish, ApproveViewing, RejectViewing, Stop, Amend, Retry, Wish, tables
  <2>4. ExpireStaleViewings \/ Crash => UNCHANGED evidence
    BY DEF ExpireStaleViewings, Crash, tables
  <2>5. QED
    BY <2>1, <2>2, <2>3, <2>4 DEF QueueNext
<1>4. PICK h \in Hands : Prepare(h) \/ Answer(h)
  BY <1>3
<1>5. Informed(hand[h], row, task, plan, evidence)
  BY <1>1 DEF Governed
<1>6. CASE Prepare(h)
  <2>1. t \in hand[h].cur /\ Sendable(t)
    BY <1>2, <1>6 DEF Prepare, Permit
  <2>2. Free(row, task, plan, t) /\ task[t] # "CANCELLED"
    BY <1>5, <2>1 DEF Informed, Sendable
  <2>3. QED
    BY <2>2 DEF Free, Done
<1>7. CASE Answer(h)
  <2>1. hand[h].at = "sent" /\ t \in hand[h].cur
    BY <1>2, <1>7 DEF Answer, At
  <2>2. QED
    BY <1>5, <2>1 DEF Informed
<1>8. QED
  BY <1>4, <1>6, <1>7

\* A step is sent to a company only after the company's answer, in whatever
\* order the companies answer (demo_service.py:2730-2745, :1610-1640).
THEOREM SentAsDecided == ASSUME QueueAssumptions PROVE QueueSpec => DecidedWhenSent
<1>1. ASSUME Sound, Calm => Governed, [QueueNext]_vars
      PROVE  [\A t \in Companies :
                evidence[t] = "NOT_SUBMITTED" /\ evidence'[t] # "NOT_SUBMITTED"
                  /\ ~Reran /\ wishes = <<>>
                   => /\ row[t] \notin {"NONE", "AWAITING"}
                      /\ plan \cap Viewing = {} => row[t] # "REJECTED"]_vars
  BY <1>1, SentWhenDecided
<1>2. QED
  BY <1>1, QueueSound, QueueGoverned, PTL DEF QueueSpec, DecidedWhenSent

===============================================================================
