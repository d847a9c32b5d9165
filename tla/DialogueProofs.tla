------------------------------ MODULE DialogueProofs ----------------------------
(***************************************************************************)
(* The dialogue and the plan that comes of it. First the conversation: its *)
(* course (Types, Course), one child for an answer (Once) and what an      *)
(* answer is about (Carried: every copy of a question agrees on it). Then  *)
(* the planning: what the validator's verdict means (Runnable), what every *)
(* source of a plan and every correction of it keeps (Fair, Offered), and  *)
(* what a plan that runs therefore is (Planned).                           *)
(***************************************************************************)
EXTENDS Conversation, Planning, FiniteSetTheorems, WellFoundedInduction, TLAPS

Stages == {"new", "shell", "launch", "read", "save", "tell", "claim", "archive", "done"}
Rows == [status : Statuses, parent : Wids \cup {None}, archived : BOOLEAN,
         chat : BOOLEAN, planned : BOOLEAN, tasks : BOOLEAN, answered : BOOLEAN]
Pinned == [open : BOOLEAN, missing : {{}} \cup Questions, known : SUBSET Fields]
Held == [at : Stages, w : Wids \cup {None}, warm : BOOLEAN, missing : {{}} \cup Questions,
         known : SUBSET Fields, answers : SUBSET Fields, child : Nat]
JobStages == {"none", "new", "plan", "keep", "talk", "answer", "finish", "asks", "pin", "error",
              "ended"}
Types ==
  /\ row \in [Wids -> Rows]
  /\ clar \in [Wids -> Pinned]
  /\ mem \in [Wids -> Memories]
  /\ job \in [Wids -> JobStages]
  /\ req \in [Requests -> Held]
  /\ made \in Nat
  /\ troubles \in 0..MaxTroubles
  /\ told \subseteq (Wids \cup {None}) \X Fields
  /\ lax \subseteq {"rushed", "lost", "again"}

LEMMA Numbers == ASSUME ConversationAssumptions
                 PROVE  /\ MaxWorkflows \in Nat /\ MaxTroubles \in Nat
                        /\ \A w \in Wids : w \in Nat /\ w # 0
                        /\ None \notin Wids /\ None \in Nat /\ Wids \subseteq Nat
  BY DEF ConversationAssumptions, Wids, None

LEMMA Constants ==
  ASSUME ConversationAssumptions
  PROVE  /\ NoRow \in Rows /\ NoRow.status = "absent" /\ NoRow.parent = None /\ ~NoRow.tasks /\ ~NoRow.chat
         /\ NoQuestion \in Pinned /\ ~NoQuestion.open /\ NoQuestion.missing = {} /\ NoQuestion.known = {}
         /\ NoMemory \in Memories /\ NoMemory.kind = "none" /\ NoMemory.parent = None /\ ~NoMemory.claimed
         /\ Idle \in Held /\ Idle.at = "new" /\ Idle.w = None
  BY Numbers DEF NoRow, Rows, Statuses, Ended, NoQuestion, Pinned, NoMemory, Memories, Idle, Held, Stages

LEMMA Shells ==
  ASSUME ConversationAssumptions, NEW p \in Wids \cup {None}
  PROVE  /\ Shell(p) \in Rows /\ Shell(p).status = "PENDING" /\ Shell(p).parent = p
         /\ ~Shell(p).tasks /\ ~Shell(p).chat
         /\ ChatRow(p) \in Rows /\ ChatRow(p).status = "SUCCESS" /\ ChatRow(p).parent = p
         /\ ~ChatRow(p).tasks /\ ChatRow(p).chat
  BY Numbers DEF NoRow, Rows, Statuses, Ended, Shell, ChatRow

LEMMA Busies ==
  ASSUME ConversationAssumptions, NEW p \in Wids \cup {None}, NEW k \in SUBSET Fields
  PROVE  /\ Busy(p, k) \in Memories /\ Busy(p, k).kind = "busy" /\ Busy(p, k).parent = p
         /\ Busy(p, k).known = k /\ ~Busy(p, k).claimed
  BY Numbers DEF NoMemory, Memories, Busy

LEMMA TypesInit == ASSUME ConversationAssumptions, Init PROVE Types
  BY Constants, Numbers DEF Init, Types, JobStages

\* What an action on a request leaves of it.
LEMMA Moved ==
  ASSUME ConversationAssumptions, Types, NEW r \in Requests, NEW to \in Stages, Moves(r, to)
  PROVE  /\ req' \in [Requests -> Held]
         /\ \A s \in Requests \ {r} : req'[s] = req[s]
         /\ req'[r].at = to
         /\ to = "done" => req'[r] = [Idle EXCEPT !.at = to] /\ req'[r].w = None
         /\ to # "done" => /\ req'[r].w = req[r].w /\ req'[r].warm = req[r].warm
                           /\ req'[r].missing = req[r].missing /\ req'[r].known = req[r].known
                           /\ req'[r].answers = req[r].answers /\ req'[r].child = req[r].child
<1>1. req \in [Requests -> Held] /\ req[r] \in Held
  BY DEF Types
<1>2. [Idle EXCEPT !.at = to] \in Held /\ [req[r] EXCEPT !.at = to] \in Held
  BY <1>1, Constants DEF Held
<1>3. CASE to = "done"
  <2>1. req' = [req EXCEPT ![r] = [Idle EXCEPT !.at = to]]
    BY <1>3 DEF Moves
  <2>2. [Idle EXCEPT !.at = to].at = to /\ [Idle EXCEPT !.at = to].w = None
    BY Constants DEF Held
  <2>3. QED
    BY <1>1, <1>2, <1>3, <2>1, <2>2
<1>4. CASE to # "done"
  <2>1. req' = [req EXCEPT ![r] = [req[r] EXCEPT !.at = to]]
    BY <1>4 DEF Moves
  <2>2. QED
    BY <1>1, <1>2, <1>4, <2>1 DEF Held
<1>5. QED
  BY <1>3, <1>4

LEMMA Later ==
  ASSUME ConversationAssumptions, Types, Fails
  PROVE  troubles' \in 0..MaxTroubles
  BY Numbers DEF Types, Fails

LEMMA Marks ==
  ASSUME Types, NEW what \in {"rushed", "lost", "again"}, Marked(what)
  PROVE  lax' \subseteq {"rushed", "lost", "again"} /\ what \in lax' /\ lax \subseteq lax'
  BY DEF Types, Marked

LEMMA TypesTalk ==
  ASSUME ConversationAssumptions, Types, NEW r \in Requests, NEW p \in Wids \cup {None}, TalksOnly(r, p)
  PROVE  Types'
<1>1. made' \in Nat /\ mem' = [mem EXCEPT ![made'] = [NoMemory EXCEPT !.kind = "chat"]]
  BY DEF TalksOnly, Types
<1>2. [NoMemory EXCEPT !.kind = "chat"] \in Memories
  BY Constants DEF Memories
<1>3. mem' \in [Wids -> Memories]
  BY <1>1, <1>2 DEF Types
<1>4. row' \in [Wids -> Rows] /\ troubles' \in 0..MaxTroubles /\ lax' \subseteq {"rushed", "lost", "again"}
  <2>1. CASE row' = [row EXCEPT ![made'] = ChatRow(p)] /\ UNCHANGED <<troubles, lax>>
    BY <2>1, Shells DEF Types
  <2>2. CASE Fails /\ Marked("lost") /\ UNCHANGED row
    BY <2>2, Later, Marks DEF Types
  <2>3. QED
    BY <2>1, <2>2 DEF TalksOnly
<1>5. req' \in [Requests -> Held]
  BY Moved DEF TalksOnly, Stages
<1>6. QED
  BY <1>1, <1>3, <1>4, <1>5 DEF Types, TalksOnly

LEMMA Lefts ==
  ASSUME NEW r \in Requests, req[r] \in Held
  PROVE  Left(r) \in {{}} \cup Questions
  BY DEF Left, Held, Questions, Unclear, Unpriced

LEMMA SetsArchived ==
  ASSUME NEW rows \in [Wids -> Rows], NEW n, NEW w, NEW s \in Rows
  PROVE  [rows EXCEPT ![n] = s, ![w].archived = TRUE] \in [Wids -> Rows]
<1>1. [rows EXCEPT ![n] = s] \in [Wids -> Rows]
  OBVIOUS
<1>2. ASSUME NEW x \in [Wids -> Rows] PROVE [x EXCEPT ![w].archived = TRUE] \in [Wids -> Rows]
  BY DEF Rows
<1>3. QED
  BY <1>1, <1>2

LEMMA TypesRequest ==
  ASSUME ConversationAssumptions, Types, NEW r \in Requests,
         Steps(r) \/ Message(r) \/ Answer(r)
  PROVE  Types'
<1> USE DEF Types
<1>0. req[r] \in Held /\ "done" \in Stages /\ "shell" \in Stages /\ "tell" \in Stages /\ "launch" \in Stages
  BY DEF Stages
<1>1. CASE Chats(r)
  BY <1>1, TypesTalk DEF Chats
<1>2. ASSUME NEW w \in Wids, Amends(r, w) PROVE Types'
  <2>1. \A s \in Outcomes : s \in Statuses
    BY DEF ConversationAssumptions, Statuses, Ended
  <2>2. row' \in [Wids -> Rows]
    BY <1>2, <2>1 DEF Amends, Rows
  <2>3. mem' \in [Wids -> Memories]
    BY <1>2 DEF Amends, Memories
  <2>4. QED
    BY <1>0, <1>2, <2>2, <2>3, Moved DEF Amends
<1>3. CASE CountsQuota(r)
  <2>1. req' \in [Requests -> Held]
    BY <1>0, <1>3, Moved DEF CountsQuota
  <2>2. troubles' \in 0..MaxTroubles /\ lax' \subseteq {"rushed", "lost", "again"}
    BY <1>3, Later, Marks DEF CountsQuota
  <2>3. QED
    BY <1>3, <2>1, <2>2 DEF CountsQuota
<1>4. CASE CreatesShell(r)
  <2>1. made' \in Nat
    BY <1>4 DEF CreatesShell
  <2>2. row' \in [Wids -> Rows]
    BY <1>4, Shells DEF CreatesShell
  <2>3. req' \in [Requests -> Held]
    <3>1. CASE Moves(r, "done")
      BY <1>0, <3>1, Moved
    <3>2. CASE req' = [req EXCEPT ![r].at = "launch", ![r].child = made']
      BY <1>0, <2>1, <3>2 DEF Held
    <3>3. QED
      BY <1>4, <3>1, <3>2 DEF CreatesShell
  <2>4. troubles' \in 0..MaxTroubles
    BY <1>4, Later DEF CreatesShell
  <2>5. QED
    BY <1>4, <2>1, <2>2, <2>3, <2>4 DEF CreatesShell
<1>5. CASE Launches(r)
  <2>1. Busy(req[r].w, req[r].known \cup req[r].answers) \in Memories
    BY <1>0, Busies DEF Held
  <2>2. mem' \in [Wids -> Memories] /\ job' \in [Wids -> JobStages]
    BY <1>5, <2>1 DEF Launches, JobStages
  <2>3. told' \subseteq (Wids \cup {None}) \X Fields
    BY <1>0, <1>5 DEF Launches, Held
  <2>4. QED
    BY <1>0, <1>5, <2>2, <2>3, Moved DEF Launches
<1>6. CASE TellsRest(r)
  <2>1. told' \subseteq (Wids \cup {None}) \X Fields
    BY <1>0, <1>6 DEF TellsRest, Held
  <2>2. mem' \in [Wids -> Memories]
    <3>1. Known(r) \in SUBSET Fields
      BY <1>0 DEF Known, Held
    <3>2. Left(r) \in {{}} \cup Questions
      BY <1>0, Lefts
    <3> DEFINE w == req[r].w
    <3>3. CASE mem' = mem
      BY <3>3
    <3>4. CASE mem' = [mem EXCEPT ![w].known = Known(r),
                                  ![w].missing = IF mem[w].kind = "asks" THEN Left(r) ELSE @]
      <4> HIDE DEF w
      <4>1. ASSUME NEW v \in Wids PROVE mem'[v] \in Memories
        BY <3>1, <3>2, <3>4, <4>1 DEF Memories
      <4>2. mem' = [v \in Wids |-> mem'[v]]
        BY <3>4
      <4>3. QED
        BY <4>1, <4>2
    <3>5. QED
      BY <1>6, <3>3, <3>4 DEF TellsRest
  <2>3. QED
    BY <1>0, <1>6, <2>1, <2>2, Moved DEF TellsRest
<1>7. CASE SavesRest(r)
  <2>1. troubles' \in 0..MaxTroubles /\ lax' \subseteq {"rushed", "lost", "again"}
    BY <1>7, Later, Marks DEF SavesRest
  <2> DEFINE w == req[r].w
             c == [open |-> TRUE, missing |-> Left(r), known |-> Known(r)]
  <2>2. c \in Pinned
    BY <1>0, Lefts DEF Known, Pinned, Questions, Held
  <2>3. clar' = [clar EXCEPT ![w] = c] \/ clar' = clar
    BY <1>7 DEF SavesRest
  <2> HIDE DEF w, c
  <2>4. clar' \in [Wids -> Pinned]
    BY <2>2, <2>3
  <2>5. QED
    BY <1>0, <1>7, <2>1, <2>4, Moved DEF SavesRest
<1>8. CASE Claims(r)
  <2>1. made' \in Nat /\ req[r].w \in Wids \cup {None}
    BY <1>0, <1>8 DEF Claims, Held
  <2>2. row' \in [Wids -> Rows]
    <3>1. row' = [row EXCEPT ![made'] = Shell(req[r].w), ![req[r].w].archived = TRUE]
      BY <1>8 DEF Claims, Consumes
    <3> DEFINE w == req[r].w
    <3>2. Shell(w) \in Rows /\ row' = [row EXCEPT ![made'] = Shell(w), ![w].archived = TRUE]
      BY <2>1, <3>1, Shells
    <3> HIDE DEF w
    <3>3. QED
      BY <3>2, SetsArchived
  <2>3. clar' \in [Wids -> Pinned]
    BY <1>8, <2>1 DEF Claims, Consumes, Pinned
  <2>4. req' \in [Requests -> Held]
    BY <1>0, <1>8, <2>1 DEF Claims, Held, Stages
  <2>5. QED
    BY <1>8, <2>1, <2>2, <2>3, <2>4 DEF Claims
<1>9. CASE ClaimsInMemory(r)
  <2>1. troubles' \in 0..MaxTroubles
    BY <1>9, Later DEF ClaimsInMemory
  <2>2. CASE Moves(r, "done") /\ UNCHANGED <<mem, made, lax>>
    BY <1>0, <1>9, <2>1, <2>2, Moved DEF ClaimsInMemory
  <2>3. CASE /\ made' = made + 1
             /\ mem' = [mem EXCEPT ![req[r].w].claimed = TRUE]
             /\ req' = [req EXCEPT ![r].at = "archive", ![r].child = made']
             /\ Marked("again")
    <3>1. mem' \in [Wids -> Memories]
      <4> DEFINE w == req[r].w
      <4>1. mem' = [mem EXCEPT ![w].claimed = TRUE]
        BY <2>3
      <4>2. CASE w \in Wids
        <5>1. mem[w] \in Memories /\ mem' = [mem EXCEPT ![w] = [mem[w] EXCEPT !.claimed = TRUE]]
          BY <4>1, <4>2
        <5>2. [mem[w] EXCEPT !.claimed = TRUE] \in Memories
          BY <5>1 DEF Memories
        <5>3. QED
          BY <5>1, <5>2
      <4>3. CASE w \notin Wids
        <5> HIDE DEF w
        <5>1. mem' = mem
          BY <4>1, <4>3
        <5>2. QED
          BY <5>1
      <4>4. QED
        BY <4>2, <4>3
    <3>2. req' \in [Requests -> Held]
      <4>1. made' \in Nat
        BY <2>3
      <4>2. QED
        BY <1>0, <2>3, <4>1 DEF Held, Stages
    <3>3. lax' \subseteq {"rushed", "lost", "again"}
      BY <2>3, Marks
    <3>4. QED
      BY <1>9, <2>1, <2>3, <3>1, <3>2, <3>3 DEF ClaimsInMemory
  <2>4. QED
    BY <1>9, <2>2, <2>3 DEF ClaimsInMemory
<1>10. CASE ArchivesParent(r)
  <2>1. troubles' \in 0..MaxTroubles
    BY <1>10, Later DEF ArchivesParent
  <2> DEFINE w == req[r].w
  <2>3. row' = [row EXCEPT ![w].archived = TRUE] \/ row' = row
    BY <1>10 DEF ArchivesParent
  <2> HIDE DEF w
  <2>4. row' \in [Wids -> Rows]
    <3>1. CASE row' = [row EXCEPT ![w].archived = TRUE]
      BY <3>1 DEF Rows
    <3>2. QED
      BY <2>3, <3>1
  <2>2. QED
    BY <1>0, <1>10, <2>1, <2>4, Moved DEF ArchivesParent
<1>11. CASE Understands(r)
  <2>1. PICK answers1 \in SUBSET (req[r].missing \cap Fields) : Understood(r, answers1)
    BY <1>11 DEF Understands
  <2>2. req' \in [Requests -> Held]
    BY <1>0, <2>1 DEF Understood, Held, Stages
  <2>3. QED
    BY <2>1, <2>2 DEF Understood
<1>12. ASSUME NEW w \in Wids, ReadsQuestion(r, w) PROVE Types'
  <2>1. mem[w] \in Memories /\ clar[w] \in Pinned
    OBVIOUS
  <2> DEFINE from == IF mem[w].kind \notin {"none", "busy"} THEN mem[w] ELSE clar[w]
             next == [Idle EXCEPT !.at = "read", !.w = w, !.warm = mem[w].kind # "none",
                                  !.missing = from.missing, !.known = from.known]
             stop == [Idle EXCEPT !.at = "done"]
  <2>2. from.missing \in {{}} \cup Questions /\ from.known \in SUBSET Fields
    BY <2>1 DEF Memories, Pinned, Questions
  <2>3. next \in Held /\ stop \in Held
    BY <2>2, Constants DEF Held, Stages
  <2>4. req' = [req EXCEPT ![r] = next] \/ req' = [req EXCEPT ![r] = stop]
    BY <1>12 DEF ReadsQuestion
  <2> HIDE DEF next, stop
  <2>5. req' \in [Requests -> Held]
    BY <2>3, <2>4
  <2>6. lax' \subseteq {"rushed", "lost", "again"}
    BY <1>12 DEF ReadsQuestion
  <2>7. QED
    BY <1>12, <2>5, <2>6 DEF ReadsQuestion
<1>13. CASE TalksAside(r)
  BY <1>0, <1>13, TypesTalk DEF TalksAside, Held
<1>14. CASE AnswersAside(r)
  <2> DEFINE w == req[r].w
             m == req[r].missing
  <2>1. m \in {{}} \cup Questions
    BY <1>0 DEF Held, Questions
  <2>2. mem' = [mem EXCEPT ![w].kind = "asks", ![w].missing = m] \/ mem' = mem
    BY <1>14 DEF AnswersAside
  <2> HIDE DEF w, m
  <2>3. mem' \in [Wids -> Memories]
    BY <2>1, <2>2 DEF Memories
  <2>4. QED
    BY <1>0, <1>14, <2>3, Moved DEF AnswersAside
<1>15. QED
  BY <1>1, <1>2, <1>3, <1>4, <1>5, <1>6, <1>7, <1>8, <1>9, <1>10, <1>11, <1>12, <1>13, <1>14
     DEF Steps, Message, Answer

LEMMA TypesJob ==
  ASSUME ConversationAssumptions, Types, NEW w \in Wids, Runs(w) \/ SweepsZombie(w) \/ Deletes(w)
  PROVE  Types'
<1> USE DEF Types
<1>0. /\ mem[w] \in Memories /\ row[w] \in Rows /\ clar[w] \in Pinned
      /\ \A j \in JobStages : [job EXCEPT ![w] = j] \in [Wids -> JobStages]
  OBVIOUS
<1>1. CASE EnsuresShell(w)
  <2>1. mem[w].parent \in Wids \cup {None}
    BY <1>0 DEF Memories
  <2>2. row' \in [Wids -> Rows]
    BY <1>1, <2>1, Shells DEF EnsuresShell
  <2>3. troubles' \in 0..MaxTroubles /\ job' \in [Wids -> JobStages]
    BY <1>0, <1>1, Later DEF EnsuresShell, JobStages
  <2>4. QED
    BY <1>1, <2>2, <2>3 DEF EnsuresShell
<1>2. CASE Plans(w)
  <2>1. PICK next \in {"asks", "talk", "error", "keep"}, end \in Outcomes :
          /\ job' = [job EXCEPT ![w] = next]
          /\ row' = IF ~Lives(w) THEN row
                    ELSE [row EXCEPT ![w].planned = TRUE, ![w].tasks = next \notin {"asks", "talk"},
                                     ![w].status = IF row[w].archived THEN @ ELSE end]
    BY <1>2 DEF Plans
  <2>2. job' \in [Wids -> JobStages]
    BY <1>0, <2>1 DEF JobStages
  <2>3. end \in Statuses
    BY DEF ConversationAssumptions, Statuses, Ended
  <2>4. row' \in [Wids -> Rows]
    <3>1. CASE ~Lives(w)
      BY <2>1, <3>1
    <3>2. CASE Lives(w)
      <4>1. PICK s \in Statuses :
              row' = [row EXCEPT ![w] = [row[w] EXCEPT !.planned = TRUE, !.tasks = next \notin {"asks", "talk"}, !.status = s]]
        <5>1. row[w].status \in Statuses
          BY <1>0 DEF Rows
        <5>2. QED
          BY <2>1, <2>3, <3>2, <5>1
      <4>2. [row[w] EXCEPT !.planned = TRUE, !.tasks = next \notin {"asks", "talk"}, !.status = s] \in Rows
        BY <1>0 DEF Rows
      <4>3. QED
        BY <4>1, <4>2
    <3>3. QED
      BY <3>1, <3>2
  <2>5. QED
    BY <1>2, <2>2, <2>4 DEF Plans
<1>3. CASE KeepsResponse(w)
  <2>1. job' \in [Wids -> JobStages]
    BY <1>3 DEF KeepsResponse, JobStages
  <2>2. QED
    BY <1>0, <1>3, <2>1 DEF KeepsResponse, Memories
<1>9. CASE MarksAnswered(w) \/ FinishesChat(w)
  <2>1. job' \in [Wids -> JobStages] /\ troubles' \in 0..MaxTroubles
    BY <1>0, <1>9, Later DEF MarksAnswered, FinishesChat, JobStages
  <2>2. [row[w] EXCEPT !.answered = TRUE] \in Rows /\ [row[w] EXCEPT !.status = "SUCCESS"] \in Rows
    BY <1>0 DEF Rows, Statuses, Ended
  <2>3. row' \in [Wids -> Rows]
    BY <1>9, <2>2 DEF MarksAnswered, FinishesChat
  <2>4. QED
    BY <1>9, <2>1, <2>3 DEF MarksAnswered, FinishesChat
<1>4. ASSUME NEW missing \in Questions, KeepsQuestion(w, missing) PROVE Types'
  <2>1. mem' \in [Wids -> Memories]
    <3>1. mem' = [mem EXCEPT ![w] = [mem[w] EXCEPT !.kind = "asks", !.missing = missing, !.asked = missing]]
      BY <1>4 DEF KeepsQuestion
    <3>2. [mem[w] EXCEPT !.kind = "asks", !.missing = missing, !.asked = missing] \in Memories
      BY <1>0, <1>4 DEF Memories, KeepsQuestion
    <3>3. QED
      BY <3>1, <3>2
  <2>2. QED
    BY <1>0, <1>4, <2>1 DEF KeepsQuestion, JobStages
<1>5. CASE PinsQuestion(w)
  <2>1. mem' \in [Wids -> Memories] /\ job' \in [Wids -> JobStages]
    BY <1>0, <1>5 DEF PinsQuestion, Memories, JobStages
  <2> DEFINE c == [open |-> TRUE, missing |-> mem[w].asked, known |-> mem[w].known]
  <2>2. c \in Pinned
    BY <1>0 DEF Memories, Pinned
  <2>3. clar' = [clar EXCEPT ![w] = c] \/ clar' = clar
    BY <1>5 DEF PinsQuestion
  <2> HIDE DEF c
  <2>4. clar' \in [Wids -> Pinned]
    BY <2>2, <2>3
  <2>5. troubles' \in 0..MaxTroubles /\ lax' \subseteq {"rushed", "lost", "again"}
    BY <1>5, Later, Marks DEF PinsQuestion
  <2>6. QED
    BY <1>5, <2>1, <2>4, <2>5 DEF PinsQuestion
<1>6. CASE MarksFailed(w)
  <2>1. row' \in [Wids -> Rows]
    BY <1>0, <1>6 DEF MarksFailed, Closes, Rows, Statuses, Ended
  <2>2. troubles' \in 0..MaxTroubles
    BY <1>6, Later DEF MarksFailed
  <2>3. QED
    BY <1>0, <1>6, <2>1, <2>2 DEF MarksFailed, Memories, JobStages
<1>7. CASE SweepsZombie(w)
  BY <1>7 DEF SweepsZombie, Closes, Rows, Statuses, Ended
<1>8. CASE Deletes(w)
  <2>1. row' \in [Wids -> Rows]
    <3>1. row' = [row EXCEPT ![w].archived = TRUE] /\ row \in [Wids -> Rows]
      BY <1>8 DEF Deletes
    <3>2. QED
      BY <3>1 DEF Rows
  <2>2. QED
    BY <1>8, <2>1, Constants DEF Deletes
<1>10. QED
  BY <1>1, <1>2, <1>3, <1>4, <1>5, <1>6, <1>7, <1>8, <1>9 DEF Runs

LEMMA TypesAll ==
  ASSUME ConversationAssumptions, Types, ArchivesSuperseded \/ Trims \/ Crash \/ UNCHANGED vars
  PROVE  Types'
<1> USE DEF Types
<1>1. CASE ArchivesSuperseded \/ Trims
  <2>1. \A w \in Wids : [row[w] EXCEPT !.archived = TRUE] \in Rows
    BY DEF Rows
  <2>2. row' \in [Wids -> Rows]
    BY <1>1, <2>1 DEF ArchivesSuperseded, Trims
  <2>3. QED
    BY <1>1, <2>2 DEF ArchivesSuperseded, Trims
<1>2. CASE Crash
  <2>1. [Idle EXCEPT !.at = "done"] \in Held
    BY Constants DEF Held, Stages
  <2>2. req' \in [Requests -> Held]
    BY <1>2, <2>1 DEF Crash
  <2>3. QED
    BY <1>2, <2>2, Constants, Later DEF Crash, JobStages
<1>3. CASE UNCHANGED vars
  BY <1>3 DEF vars
<1>4. QED
  BY <1>1, <1>2, <1>3

LEMMA TypesStep == ASSUME ConversationAssumptions, Types, [Next]_vars PROVE Types'
  BY TypesRequest, TypesJob, TypesAll DEF Next

-------------------------------------------------------------------------------
(* Ids: whoever may still need one finds one left. *)

Owing == {r \in Requests : req[r].at \in {"shell", "read", "save", "tell", "claim"}}
IdsLeft == IsFiniteSet(Owing) /\ made + Cardinality(Owing) <= MaxWorkflows
IdsStep ==
  \/ made' = made /\ Owing' \subseteq Owing
  \/ made' = made + 1 /\ \E r \in Owing : Owing' \subseteq Owing \ {r}
  \/ Room /\ made' = made + 1 /\ Owing' \subseteq Owing
  \/ Room /\ made' = made /\ \E r \in Requests : Owing' \subseteq Owing \cup {r}

LEMMA IdsKept ==
  ASSUME ConversationAssumptions, IdsLeft, made \in Nat, IdsStep
  PROVE  IdsLeft'
<1>1. IsFiniteSet(Owing) /\ Cardinality(Owing) \in Nat /\ made + Cardinality(Owing) <= MaxWorkflows
      /\ MaxWorkflows \in Nat
  BY FS_CardinalityType, Numbers DEF IdsLeft
<1>2. ASSUME Owing' \subseteq Owing
      PROVE  IsFiniteSet(Owing') /\ Cardinality(Owing') \in Nat /\ Cardinality(Owing') <= Cardinality(Owing)
  BY <1>1, <1>2, FS_Subset, FS_CardinalityType
<1>3. CASE made' = made /\ Owing' \subseteq Owing
  BY <1>1, <1>2, <1>3 DEF IdsLeft
<1>4. ASSUME NEW r \in Owing, made' = made + 1, Owing' \subseteq Owing \ {r} PROVE IdsLeft'
  <2>1. /\ IsFiniteSet(Owing \ {r}) /\ Cardinality(Owing \ {r}) = Cardinality(Owing) - 1
    BY <1>1, FS_RemoveElement
  <2>2. IsFiniteSet(Owing') /\ Cardinality(Owing') <= Cardinality(Owing) - 1
        /\ Cardinality(Owing') \in Nat
    BY <1>4, <2>1, FS_Subset, FS_CardinalityType
  <2>3. QED
    BY <1>1, <1>4, <2>2 DEF IdsLeft
<1>5. Room => made + Cardinality(Owing) < MaxWorkflows
  BY DEF Room, Owing
<1>6. CASE Room /\ made' = made + 1 /\ Owing' \subseteq Owing
  BY <1>1, <1>2, <1>5, <1>6 DEF IdsLeft
<1>7. ASSUME NEW r \in Requests, Room, made' = made, Owing' \subseteq Owing \cup {r} PROVE IdsLeft'
  <2> DEFINE More == Owing \cup {r}
  <2>1. IsFiniteSet(More) /\ (Cardinality(More) = Cardinality(Owing)
                              \/ Cardinality(More) = Cardinality(Owing) + 1)
    <3>1. CASE r \in Owing
      <4>1. More = Owing
        BY <3>1
      <4> HIDE DEF More
      <4>2. QED
        BY <1>1, <4>1
    <3>2. CASE r \notin Owing
      BY <1>1, <3>2, FS_AddElement
    <3>3. QED
      BY <3>1, <3>2
  <2> HIDE DEF More
  <2>2. IsFiniteSet(Owing') /\ Cardinality(Owing') <= Cardinality(More)
        /\ Cardinality(Owing') \in Nat
    BY <1>7, <2>1, FS_Subset, FS_CardinalityType DEF More
  <2>3. QED
    BY <1>1, <1>5, <1>7, <2>1, <2>2 DEF IdsLeft
<1>8. QED
  BY <1>3, <1>4, <1>6, <1>7 DEF IdsStep

\* One request moves.
LEMMA OneOwes ==
  ASSUME NEW r \in Requests, \A s \in Requests \ {r} : req'[s] = req[s]
  PROVE  /\ Owing' \subseteq Owing \cup {r}
         /\ req'[r].at \notin {"shell", "read", "save", "tell", "claim"} => Owing' \subseteq Owing \ {r}
         /\ r \in Owing => Owing' \subseteq Owing
  BY DEF Owing

LEMMA RequestIds ==
  ASSUME ConversationAssumptions, Types, NEW r \in Requests, Steps(r) \/ Message(r) \/ Answer(r)
  PROVE  IdsStep
<1>0. req \in [Requests -> Held] /\ {"done", "shell", "tell", "launch"} \subseteq Stages
  BY DEF Types, Stages
<1>1. ASSUME NEW to \in Stages, Moves(r, to)
      PROVE  (\A s \in Requests \ {r} : req'[s] = req[s]) /\ req'[r].at = to
  BY <1>1, Moved
<1>2. ASSUME NEW to \in {"done", "launch"}, Moves(r, to)
      PROVE  Owing' \subseteq Owing \ {r}
  BY <1>0, <1>1, <1>2, OneOwes
<1>3. CASE Chats(r)
  BY <1>2, <1>3 DEF Chats, TalksOnly, IdsStep
<1>4. CASE \E w \in Wids : Amends(r, w)
  BY <1>2, <1>4 DEF Amends, IdsStep
<1>5. CASE CountsQuota(r)
  <2>1. \A s \in Requests \ {r} : req'[s] = req[s]
    BY <1>0, <1>1, <1>5 DEF CountsQuota
  <2>2. QED
    BY <1>5, <2>1, OneOwes DEF CountsQuota, IdsStep
<1>6. CASE CreatesShell(r)
  <2>1. CASE req' = [req EXCEPT ![r].at = "launch", ![r].child = made']
    <3>1. (\A s \in Requests \ {r} : req'[s] = req[s]) /\ req'[r].at = "launch"
      BY <1>0, <2>1 DEF Held
    <3>2. Owing' \subseteq Owing \ {r} /\ r \in Owing
      BY <1>6, <3>1, OneOwes DEF CreatesShell, Owing
    <3>3. made' = made \/ made' = made + 1
      BY <1>6 DEF CreatesShell
    <3>4. QED
      BY <3>2, <3>3 DEF IdsStep
  <2>2. CASE Moves(r, "done") /\ UNCHANGED made
    BY <1>2, <2>2 DEF IdsStep
  <2>3. QED
    BY <1>6, <2>1, <2>2 DEF CreatesShell
<1>7. CASE Launches(r) \/ TellsRest(r) \/ ArchivesParent(r) \/ AnswersAside(r)
  BY <1>2, <1>7 DEF Launches, TellsRest, ArchivesParent, AnswersAside, IdsStep
<1>8. CASE SavesRest(r)
  <2>1. \A s \in Requests \ {r} : req'[s] = req[s]
    BY <1>0, <1>1, <1>8 DEF SavesRest
  <2>2. QED
    BY <1>8, <2>1, OneOwes DEF SavesRest, Owing, IdsStep
<1>9. ASSUME r \in Owing, made' = made + 1,
             req' = [req EXCEPT ![r].at = "archive", ![r].child = made']
      PROVE  IdsStep
  <2>1. (\A s \in Requests \ {r} : req'[s] = req[s]) /\ req'[r].at = "archive"
    BY <1>0, <1>9 DEF Held
  <2>2. QED
    BY <1>9, <2>1, OneOwes DEF IdsStep
<1>10. CASE Claims(r)
  BY <1>9, <1>10 DEF Claims, Owing
<1>11. CASE ClaimsInMemory(r)
  BY <1>2, <1>9, <1>11 DEF ClaimsInMemory, Owing, IdsStep
<1>12. ASSUME NEW answers1, Understood(r, answers1) PROVE IdsStep
  BY <1>0, <1>12, OneOwes DEF Understood, Owing, IdsStep
<1>13. ASSUME NEW w \in Wids, ReadsQuestion(r, w) PROVE IdsStep
  <2>1. \A s \in Requests \ {r} : req'[s] = req[s]
    BY <1>0, <1>13 DEF ReadsQuestion
  <2>2. QED
    BY <1>13, <2>1, OneOwes DEF ReadsQuestion, IdsStep
<1>14. CASE TalksAside(r)
  BY <1>2, <1>14 DEF TalksAside, TalksOnly, Owing, IdsStep
<1>15. QED
  BY <1>3, <1>4, <1>5, <1>6, <1>7, <1>8, <1>10, <1>11, <1>12, <1>13, <1>14
     DEF Steps, Message, Answer, Understands

LEMMA IdsLeftStep ==
  ASSUME ConversationAssumptions, Types, IdsLeft, [Next]_vars
  PROVE  IdsLeft'
<1>1. CASE \E r \in Requests : Steps(r) \/ Message(r) \/ Answer(r)
  BY <1>1, RequestIds, IdsKept DEF Types
<1>2. CASE UNCHANGED <<made, req>>
  <2>1. Owing' = Owing
    BY <1>2 DEF Owing
  <2>2. QED
    BY <1>2, <2>1, IdsKept DEF IdsStep, Types
<1>3. CASE Crash
  <2>1. [Idle EXCEPT !.at = "done"].at = "done"
    BY Constants DEF Held
  <2>2. Owing' \subseteq Owing
    BY <1>3, <2>1 DEF Crash, Owing
  <2>3. QED
    BY <1>3, <2>2, IdsKept DEF Crash, IdsStep, Types
<1>4. QED
  BY <1>1, <1>2, <1>3 DEF Next, vars, Runs, EnsuresShell, Plans, KeepsResponse, MarksAnswered, FinishesChat, MarksFailed,
     KeepsQuestion, PinsQuestion, SweepsZombie, Deletes, ArchivesSuperseded, Trims

\* Every row, memory and request keeps its type, and no workflow is made beyond the ids
\* there are: who may still come to make one was counted when it began.
THEOREM ConversationTyped == ASSUME ConversationAssumptions PROVE ConversationSpec => []CTypeOK
<1>1. Init => Types /\ IdsLeft
  <2>1. ASSUME Init PROVE IdsLeft
    <3>1. Owing = {}
      BY <2>1, Constants DEF Init, Owing
    <3>2. QED
      BY <2>1, <3>1, FS_EmptySet, Numbers DEF Init, IdsLeft
  <2>2. QED
    BY <2>1, TypesInit
<1>2. Types /\ IdsLeft /\ [Next]_vars => Types' /\ IdsLeft'
  BY TypesStep, IdsLeftStep
<1>3. Types /\ IdsLeft => CTypeOK
  <2>1. ASSUME Types, IdsLeft PROVE made \in 0..MaxWorkflows
    BY <2>1, FS_CardinalityType, Numbers DEF IdsLeft, Types
  <2>2. ASSUME Types PROVE \A r \in Requests : req[r] \in Held
    BY <2>2 DEF Types
  <2>3. QED
    BY <2>1, <2>2 DEF Types, CTypeOK, Rows, Pinned, JobStages, Held, Stages
<1>4. QED
  BY <1>1, <1>2, <1>3, PTL DEF ConversationSpec

-------------------------------------------------------------------------------
(* Who began, who was asked, and what a request may hold. *)

Expecting(r) == req[r].at \in {"archive", "launch"}
Begun(w) == w \in 1..made /\ \A r \in Requests : Expecting(r) => req[r].child # w
Young(w) == job[w] \in {"new", "plan", "asks"}
At(r, w) == Live(r) /\ req[r].w = w
Touched(w) ==
  \/ clar[w] # NoQuestion \/ mem[w].kind = "asks"
  \/ \E r \in Requests : At(r, w)
  \/ \E d \in Wids : mem[d].parent = w
  \/ \E f \in Fields : <<w, f>> \in told
Settled(w) == /\ Begun(w) /\ job[w] \in {"none", "pin", "ended"}
              /\ mem[w].kind \in {"none", "asks"} /\ ~row[w].tasks

Births ==
  /\ \A w \in Wids : job[w] # "none" => Begun(w)
  /\ \A r \in Requests : Expecting(r) => req[r].child \in 1..made
  /\ \A r, s \in Requests : Expecting(r) /\ Expecting(s) /\ req[r].child = req[s].child => r = s
  /\ \A w \in Wids : w > made => row[w] = NoRow
  /\ \A w \in Wids : ~Begun(w) \/ Young(w) => ~row[w].tasks
Parents ==
  /\ \A c \in Wids : Young(c) => row[c].parent \in {None, mem[c].parent}
  /\ \A r \in Requests : Expecting(r) /\ req[r].child \in Wids =>
       row[req[r].child].parent \in {None, req[r].w}
Quests == \A w \in Wids : Touched(w) => Settled(w)
\* A request that is not at work holds nothing.
Empty(q) == q.w = None => q.at \in {"shell", "launch"} /\ q.answers = {}
\* One that is holds the question and some of its answers, or all of them.
Answering(q) ==
  q.w # None =>
    /\ q.at # "shell" /\ q.missing \in Questions \ {Unpriced}
    /\ q.answers \subseteq q.missing \cap Fields
    /\ q.at \in {"claim", "archive", "launch"} => q.missing \cap Fields \subseteq q.answers
    /\ q.at = "save" => q.missing \ q.answers # {} /\ q.missing # Unclear
Working(q) == q.at \notin {"new", "done"} => Empty(q) /\ Answering(q)
Asking ==
  /\ \A r \in Requests : req[r].at = "new" => req[r] = Idle
  /\ \A r \in Requests : Working(req[r])
  /\ \A r \in Requests : Live(r) /\ req[r].w # None /\ req[r].warm => mem[req[r].w].kind = "asks"
  /\ \A w \in Wids : job[w] = "pin" => mem[w].asked \in Questions /\ mem[w].kind = "asks"
  /\ \A w \in Wids : clar[w].open => clar[w].missing # {}
Course == Types /\ Births /\ Parents /\ Quests /\ Asking

SameShape(w) ==
  /\ row'[w].parent = row[w].parent /\ row'[w].chat = row[w].chat /\ row'[w].tasks = row[w].tasks
  /\ (row'[w].status = "absent") <=> (row[w].status = "absent")
  /\ w > made => row'[w] = row[w]
Rests(r) ==
  \/ req'[r] = req[r]
  \/ req'[r].at = "done"
  \/ /\ req[r].at = "archive" /\ req'[r].at = "launch"
     /\ req'[r].w = req[r].w /\ req'[r].warm = req[r].warm /\ req'[r].missing = req[r].missing
     /\ req'[r].known = req[r].known /\ req'[r].answers = req[r].answers /\ req'[r].child = req[r].child
  \/ req'[r].at = "shell" /\ req'[r].w = None /\ req'[r].answers = {}
\* What is kept of w is forgotten or no question.
Forgets(w) ==
  /\ mem'[w].kind # "asks" /\ mem'[w].parent \in {None, mem[w].parent}
  /\ ~Young(w)' /\ job'[w] # "pin"
  /\ mem'[w].kind = "none" \/ ~Touched(w)
  /\ \A r \in Requests : ~At(r, w)'
CalmStep ==
  /\ clar' = clar /\ told' = told /\ made' = made /\ lax \subseteq lax'
  /\ \A w \in Wids : SameShape(w)
  /\ \A w \in Wids : job'[w] = job[w] \/ job'[w] = "none"
                   \/ (job'[w] = "ended" /\ job[w] # "none")
                   \/ (job'[w] \in {"answer", "finish"} /\ job[w] \in {"talk", "answer"})
  /\ \A w \in Wids : mem'[w] = mem[w] \/ Forgets(w)
  /\ \A r \in Requests : Rests(r)

LEMMA CalmBegun ==
  ASSUME Course, CalmStep
  PROVE  \A w \in Wids : Begun(w) => Begun(w)'
<1>1. \A r \in Requests : Expecting(r)' => Expecting(r) /\ req'[r].child = req[r].child
  BY DEF CalmStep, Rests, Expecting
<1>2. QED
  BY <1>1 DEF Begun, CalmStep

LEMMA CalmCourse ==
  ASSUME ConversationAssumptions, Course, Types', CalmStep
  PROVE  Course'
<1>1. \A r \in Requests : Expecting(r)' => /\ Expecting(r) /\ req'[r].child = req[r].child
                                           /\ req'[r].w = req[r].w
  BY DEF CalmStep, Rests, Expecting
<1>2. \A w \in Wids : Begun(w) => Begun(w)'
  BY CalmBegun
<1>3. \A w \in Wids : Young(w)' => Young(w) /\ mem'[w] = mem[w]
  BY DEF CalmStep, Young, Forgets
<1>4. Births'
  <2>1. \A w \in Wids : job'[w] # "none" => Begun(w)'
    BY <1>2 DEF Course, Births, CalmStep
  <2>2. \A r \in Requests : Expecting(r)' => req'[r].child \in 1..made'
    BY <1>1 DEF Course, Births, CalmStep
  <2>3. \A r, s \in Requests : Expecting(r)' /\ Expecting(s)' /\ req'[r].child = req'[s].child => r = s
    BY <1>1 DEF Course, Births
  <2>4. \A w \in Wids : w > made' => row'[w] = NoRow
    BY DEF Course, Births, CalmStep, SameShape
  <2>5. \A w \in Wids : ~Begun(w)' \/ Young(w)' => ~row'[w].tasks
    BY <1>2, <1>3 DEF Course, Births, CalmStep, SameShape
  <2>6. QED
    BY <2>1, <2>2, <2>3, <2>4, <2>5 DEF Births
<1>5. Parents'
  BY <1>1, <1>3 DEF Course, Parents, CalmStep, SameShape
<1>6. \A r \in Requests : \A w \in Wids : At(r, w)' => At(r, w)
  BY Numbers DEF At, Live, CalmStep, Rests
<1>7. Quests'
  <2>1. ASSUME NEW w \in Wids, Touched(w)' PROVE Touched(w)
    <3>1. (\E d \in Wids : mem'[d].parent = w) => \E d \in Wids : mem[d].parent = w
      BY Numbers DEF CalmStep, Forgets
    <3>2. mem'[w].kind = "asks" => mem[w].kind = "asks"
      BY DEF CalmStep, Forgets
    <3>3. QED
      BY <1>6, <2>1, <3>1, <3>2 DEF Touched, CalmStep
  <2>2. ASSUME NEW w \in Wids, Touched(w) PROVE mem'[w].kind \in {"none", "asks"}
    BY <2>2 DEF Course, Quests, Settled, CalmStep, Forgets
  <2>3. ASSUME NEW w \in Wids, Touched(w) PROVE Settled(w)'
    BY <1>2, <2>2, <2>3 DEF Course, Quests, Settled, CalmStep, SameShape
  <2>4. QED
    BY <2>1, <2>3 DEF Quests
<1>8. Asking'
  <2>1. \A r \in Requests : req'[r].at = "new" => req'[r] = Idle
    BY DEF Course, Asking, CalmStep, Rests
  <2>2. ASSUME NEW r \in Requests PROVE Working(req'[r])
    BY DEF Course, Asking, CalmStep, Rests, Working, Empty, Answering
  <2>3. ASSUME NEW r \in Requests, Live(r)', req'[r].w # None, req'[r].warm
        PROVE  mem'[req'[r].w].kind = "asks"
    <3>1. req'[r].w = req[r].w /\ req'[r].warm = req[r].warm /\ Live(r)
      BY <2>3 DEF CalmStep, Rests, Live
    <3>2. req[r].w \in Wids
      BY <2>3, <3>1 DEF Course, Types, Held
    <3>3. mem'[req[r].w] = mem[req[r].w]
      BY <2>3, <3>1, <3>2 DEF CalmStep, Forgets, At
    <3>4. QED
      BY <2>3, <3>1, <3>3 DEF Course, Asking
  <2>4. \A w \in Wids : job'[w] = "pin" => mem'[w].asked \in Questions /\ mem'[w].kind = "asks"
    BY DEF Course, Asking, CalmStep, Forgets
  <2>5. \A w \in Wids : clar'[w].open => clar'[w].missing # {}
    BY DEF Course, Asking, CalmStep
  <2>6. QED
    BY <2>1, <2>2, <2>3, <2>4, <2>5 DEF Asking
<1>9. QED
  BY <1>4, <1>5, <1>7, <1>8 DEF Course

\* Requests that stand still or come to their end.
LEMMA Still ==
  ASSUME ConversationAssumptions, Types, NEW r \in Requests, NEW to \in Stages, Moves(r, to),
         \/ to = "done"
         \/ req[r].at = "archive" /\ to = "launch"
         \/ to = "shell" /\ req[r] = Idle
  PROVE  \A s \in Requests : Rests(s)
<1>1. \A s \in Requests \ {r} : Rests(s)
  BY Moved DEF Rests
<1>2. Idle.answers = {} /\ Idle.w = None
  BY DEF Idle
<1>3. Rests(r)
  BY <1>2, Moved DEF Rests
<1>4. QED
  BY <1>1, <1>3

LEMMA StillShape ==
  ASSUME Types, row' = row
  PROVE  \A w \in Wids : SameShape(w)
  BY DEF SameShape

\* A new status, or the flag of the archive, on rows that are there.
LEMMA Shelved ==
  ASSUME Types, Births, NEW S \in SUBSET Wids, NEW s \in Statuses \ {"absent"},
         \A w \in S : Lives(w),
         row' = [w \in Wids |-> IF w \in S THEN [row[w] EXCEPT !.status = s] ELSE row[w]]
  PROVE  \A w \in Wids : SameShape(w)
<1>1. ASSUME NEW w \in S PROVE SameShape(w)
  <2>1. row[w] \in Rows /\ row'[w] = [row[w] EXCEPT !.status = s]
    BY <1>1 DEF Types
  <2>2. row[w] # NoRow
    BY <1>1 DEF Lives, NoRow
  <2>3. ~(w > made)
    BY <1>1, <2>2 DEF Births
  <2>4. QED
    BY <1>1, <2>1, <2>3 DEF Rows, SameShape, Lives
<1>2. QED
  BY <1>1 DEF SameShape

LEMMA Archived ==
  ASSUME Types, NEW S \in SUBSET Wids, \A w \in S : w <= made, made \in Nat, Wids \subseteq Nat,
         row' = [w \in Wids |-> IF w \in S THEN [row[w] EXCEPT !.archived = TRUE] ELSE row[w]]
  PROVE  \A w \in Wids : SameShape(w)
<1>1. ASSUME NEW w \in S PROVE SameShape(w)
  <2>1. row[w] \in Rows /\ row'[w] = [row[w] EXCEPT !.archived = TRUE]
    BY <1>1 DEF Types
  <2>2. ~(w > made)
    BY <1>1
  <2>3. QED
    BY <1>1, <2>1, <2>2 DEF Rows, SameShape
<1>2. QED
  BY <1>1 DEF SameShape

LEMMA LivesBorn ==
  ASSUME ConversationAssumptions, Types, Births
  PROVE  \A w \in Wids : Lives(w) => w <= made
  BY Numbers DEF Births, Lives, NoRow, Types

LEMMA CalmSteps ==
  ASSUME ConversationAssumptions, Course,
         \/ \E r \in Requests : \/ \E w \in Wids : Amends(r, w)
                                \/ CountsQuota(r) \/ ArchivesParent(r)
         \/ \E w \in Wids : KeepsResponse(w) \/ MarksAnswered(w) \/ FinishesChat(w) \/ MarksFailed(w)
                             \/ SweepsZombie(w) \/ Deletes(w)
         \/ ArchivesSuperseded \/ Trims \/ Crash \/ UNCHANGED vars
  PROVE  CalmStep
<1> USE DEF Course
<1>0. Wids \subseteq Nat /\ made \in Nat /\ (\A w \in Wids : Lives(w) => w <= made) /\ None \notin Wids
  BY LivesBorn, Numbers DEF Types
<1>1. ASSUME NEW r \in Requests, NEW w \in Wids, Amends(r, w) PROVE CalmStep
  <2>1. PICK s \in Outcomes : row' = [row EXCEPT ![w].status = s]
    BY <1>1 DEF Amends
  <2>2. s \in Statuses \ {"absent"}
    BY DEF ConversationAssumptions, Statuses, Ended
  <2>3. Lives(w) /\ row[w].tasks
    BY <1>1 DEF Amends, AmendTarget, Amendable, Lives
  <2>4. \A v \in Wids : SameShape(v)
    <3> DEFINE S == {w}
    <3>1. row' = [v \in Wids |-> IF v \in S THEN [row[v] EXCEPT !.status = s] ELSE row[v]]
      BY <2>1 DEF Types
    <3>2. S \in SUBSET Wids /\ \A v \in S : Lives(v)
      BY <2>3
    <3> HIDE DEF S
    <3>3. QED
      BY <2>2, <3>1, <3>2, Shelved
  <2>5. ~Touched(w) /\ ~Young(w) /\ job[w] # "pin"
    BY <2>3 DEF Quests, Settled, Births, Asking, Touched
  <2>6. \A q \in Requests : Rests(q)
    BY <1>1, Still DEF Amends, Stages
  <2>7. \A v \in Wids : mem'[v] = mem[v] \/ Forgets(v)
    <3>1. mem' = [mem EXCEPT ![w].kind = IF @ = "none" THEN @ ELSE "busy"] /\ job' = job
      BY <1>1 DEF Amends
    <3>2. \A v \in Wids \ {w} : mem'[v] = mem[v]
      BY <3>1 DEF Types
    <3>3. mem'[w].kind \in {"none", "busy"} /\ mem'[w].parent = mem[w].parent
      BY <3>1 DEF Types, Memories
    <3>4. \A q \in Requests : ~At(q, w)'
      BY <1>0, <2>5, <2>6 DEF Touched, At, Rests, Live
    <3>5. Forgets(w)
      BY <2>5, <3>1, <3>3, <3>4 DEF Forgets, Young
    <3>6. QED
      BY <3>2, <3>5
  <2>8. QED
    BY <1>1, <2>4, <2>6, <2>7 DEF Amends, CalmStep
<1>2. ASSUME NEW r \in Requests, CountsQuota(r) PROVE CalmStep
  <2>1. \A q \in Requests : Rests(q)
    <3>1. req[r] = Idle
      BY <1>2 DEF CountsQuota, Asking
    <3>2. QED
      BY <1>2, <3>1, Still DEF CountsQuota, Stages
  <2>2. QED
    BY <1>2, <2>1, StillShape DEF CountsQuota, CalmStep, Marked
<1>3. ASSUME NEW r \in Requests, ArchivesParent(r) PROVE CalmStep
  <2>1. req[r].at = "archive" /\ req[r] \in Held
    BY <1>3 DEF ArchivesParent, Types
  <2>2. req[r].w \in Wids /\ Touched(req[r].w)
    BY <2>1 DEF Asking, Working, Empty, Held, Touched, At, Live
  <2>3. req[r].w <= made
    BY <1>0, <2>2 DEF Quests, Settled, Begun
  <2>4. \A v \in Wids : SameShape(v)
    <3> DEFINE S == IF row' = row THEN {} ELSE {req[r].w}
    <3>1. row' = [v \in Wids |-> IF v \in S THEN [row[v] EXCEPT !.archived = TRUE] ELSE row[v]]
      BY <1>3 DEF ArchivesParent, Types
    <3>2. S \in SUBSET Wids /\ \A v \in S : v <= made
      BY <2>2, <2>3
    <3> HIDE DEF S
    <3>3. QED
      BY <1>0, <3>1, <3>2, Archived
  <2>5. \A q \in Requests : Rests(q)
    BY <1>3, <2>1, Still DEF ArchivesParent, Stages
  <2>6. QED
    BY <1>3, <2>4, <2>5 DEF ArchivesParent, CalmStep
<1>4. ASSUME NEW w \in Wids, KeepsResponse(w) PROVE CalmStep
  <2>1. ~Touched(w)
    BY <1>4 DEF KeepsResponse, Quests, Settled
  <2>2. /\ job'[w] = "ended" \/ (job'[w] = "answer" /\ job[w] = "talk")
        /\ job[w] # "none" /\ \A v \in Wids \ {w} : job'[v] = job[v]
    BY <1>4 DEF KeepsResponse, Types
  <2>3. /\ mem'[w] = [mem[w] EXCEPT !.kind = "done"] /\ mem[w] \in Memories /\ req' = req
        /\ \A v \in Wids \ {w} : mem'[v] = mem[v]
    BY <1>4 DEF KeepsResponse, Types
  <2>5. mem'[w].kind = "done" /\ mem'[w].parent = mem[w].parent
    BY <2>3 DEF Memories
  <2>6. ~Young(w)' /\ job'[w] # "pin"
    BY <2>2 DEF Young
  <2>7. \A r \in Requests : ~At(r, w)'
    BY <2>1, <2>3 DEF At, Touched, Live
  <2>8. Forgets(w)
    BY <2>1, <2>5, <2>6, <2>7 DEF Forgets
  <2>9. QED
    BY <1>4, <2>2, <2>3, <2>8, StillShape DEF KeepsResponse, CalmStep, Rests
<1>12. ASSUME NEW w \in Wids, MarksAnswered(w) \/ FinishesChat(w) PROVE CalmStep
  <2>1. /\ job'[w] = "ended" \/ (job'[w] = "finish" /\ job[w] = "answer")
        /\ job[w] # "none"
        /\ \A v \in Wids \ {w} : job'[v] = job[v]
        /\ UNCHANGED <<clar, mem, req, made, told, lax>>
    BY <1>12 DEF MarksAnswered, FinishesChat, Types
  <2>2. \A v \in Wids : SameShape(v)
    <3>1. CASE row' = row
      BY <3>1, StillShape
    <3>2. CASE Lives(w) /\ row' = [row EXCEPT ![w].answered = TRUE]
      <4>1. row'[w] = [row[w] EXCEPT !.answered = TRUE] /\ row[w] \in Rows
            /\ \A v \in Wids \ {w} : row'[v] = row[v]
        BY <3>2 DEF Types
      <4>2. ~(w > made)
        BY <1>0, <3>2
      <4>3. QED
        BY <4>1, <4>2 DEF Rows, SameShape
    <3>3. CASE Lives(w) /\ row' = [row EXCEPT ![w].status = "SUCCESS"]
      <4> DEFINE S == {w}
      <4>1. row' = [v \in Wids |-> IF v \in S THEN [row[v] EXCEPT !.status = "SUCCESS"] ELSE row[v]]
        BY <3>3 DEF Types
      <4>2. S \in SUBSET Wids /\ \A v \in S : Lives(v)
        BY <3>3
      <4>3. "SUCCESS" \in Statuses \ {"absent"}
        BY DEF Statuses, Ended
      <4> HIDE DEF S
      <4>4. QED
        BY <4>1, <4>2, <4>3, Shelved
    <3>4. QED
      BY <1>12, <3>1, <3>2, <3>3 DEF MarksAnswered, FinishesChat
  <2>3. QED
    BY <2>1, <2>2 DEF CalmStep, Rests
<1>5. ASSUME NEW w \in Wids, MarksFailed(w) PROVE CalmStep
  <2>1. ~Touched(w)
    BY <1>5 DEF MarksFailed, Quests, Settled
  <2>2. Forgets(w) /\ \A v \in Wids \ {w} : mem'[v] = mem[v]
    BY <1>5, <2>1 DEF MarksFailed, Types, Memories, Forgets, Young, At, Touched, Live
  <2>3. \A v \in Wids : SameShape(v)
    <3>1. CASE row' = row
      BY <3>1, StillShape
    <3>2. CASE OpenRow(w) /\ row' = Closes(w, "FAILED")
      <4> DEFINE S == {w}
      <4>1. row' = [v \in Wids |-> IF v \in S THEN [row[v] EXCEPT !.status = "FAILED"] ELSE row[v]]
        BY <3>2 DEF Closes, Types
      <4>2. S \in SUBSET Wids /\ \A v \in S : Lives(v)
        BY <3>2 DEF OpenRow, Lives
      <4>3. "FAILED" \in Statuses \ {"absent"}
        BY DEF Statuses, Ended
      <4> HIDE DEF S
      <4>4. QED
        BY <4>1, <4>2, <4>3, Shelved
    <3>3. QED
      BY <1>5, <3>1, <3>2 DEF MarksFailed
  <2>4. QED
    BY <1>5, <2>2, <2>3 DEF MarksFailed, CalmStep, Rests, Types
<1>6. ASSUME NEW w \in Wids, SweepsZombie(w) PROVE CalmStep
  <2> DEFINE S == {w}
  <2>1. row' = [v \in Wids |-> IF v \in S THEN [row[v] EXCEPT !.status = "FAILED"] ELSE row[v]]
    BY <1>6 DEF SweepsZombie, Closes, Types
  <2>2. S \in SUBSET Wids /\ \A v \in S : Lives(v)
    BY <1>6 DEF SweepsZombie, Orphan, Quiet, OpenRow, Lives
  <2>3. "FAILED" \in Statuses \ {"absent"}
    BY DEF Statuses, Ended
  <2> HIDE DEF S
  <2>4. \A v \in Wids : SameShape(v)
    BY <2>1, <2>2, <2>3, Shelved
  <2>5. QED
    BY <1>6, <2>4 DEF SweepsZombie, CalmStep, Rests
<1>7. ASSUME NEW w \in Wids, Deletes(w) PROVE CalmStep
  <2> DEFINE S == {w}
  <2>1. row' = [v \in Wids |-> IF v \in S THEN [row[v] EXCEPT !.archived = TRUE] ELSE row[v]]
    BY <1>7 DEF Deletes, Types
  <2>2. Lives(w)
    BY <1>7 DEF Deletes, Lives, Ended
  <2>3. S \in SUBSET Wids /\ \A v \in S : v <= made
    BY <1>0, <2>2
  <2> HIDE DEF S
  <2>4. \A v \in Wids : SameShape(v)
    BY <1>0, <2>1, <2>3, Archived
  <2>5. Forgets(w) /\ \A v \in Wids \ {w} : mem'[v] = mem[v]
    BY <1>7, Constants DEF Deletes, Types, Forgets, Young, At, Live
  <2>6. QED
    BY <1>7, <2>4, <2>5 DEF Deletes, CalmStep, Rests, Types
<1>8. CASE ArchivesSuperseded
  <2> DEFINE S == {w \in Wids : OpenRow(w) /\ \E c \in Wids : row[c].parent = w}
  <2>1. row' = [v \in Wids |-> IF v \in S THEN [row[v] EXCEPT !.archived = TRUE] ELSE row[v]]
    BY <1>8 DEF ArchivesSuperseded
  <2>2. S \in SUBSET Wids /\ \A v \in S : v <= made
    BY <1>0 DEF OpenRow, Lives
  <2> HIDE DEF S
  <2>3. \A v \in Wids : SameShape(v)
    BY <1>0, <2>1, <2>2, Archived
  <2>4. QED
    BY <1>8, <2>3 DEF ArchivesSuperseded, CalmStep, Rests
<1>9. CASE Trims
  <2>1. row' = [v \in Wids |-> IF v \in Trimmed THEN [row[v] EXCEPT !.archived = TRUE] ELSE row[v]]
    BY <1>9 DEF Trims
  <2>2. Trimmed \in SUBSET Wids /\ \A v \in Trimmed : v <= made
    BY <1>0 DEF Trimmed
  <2>3. \A v \in Wids : SameShape(v)
    BY <1>0, <2>1, <2>2, Archived
  <2>4. QED
    BY <1>9, <2>3 DEF Trims, CalmStep, Rests
<1>10. CASE Crash
  <2>1. \A r \in Requests : Rests(r) /\ ~Live(r)'
    BY <1>10 DEF Crash, Rests, Live, Idle, Types
  <2>2. \A w \in Wids : Forgets(w)
    BY <1>10, <2>1, Constants DEF Crash, Forgets, Young, At
  <2>3. QED
    BY <1>10, <2>1, <2>2, StillShape DEF Crash, CalmStep
<1>11. CASE UNCHANGED vars
  BY <1>11, StillShape DEF vars, CalmStep, Rests
<1>13. QED
  BY <1>1, <1>2, <1>3, <1>4, <1>5, <1>6, <1>7, <1>8, <1>9, <1>10, <1>11, <1>12

\* Nothing is begun: a step between the customer and the workflow w.
TalkStep(w) ==
  /\ row' = row /\ made' = made
  /\ \A r \in Requests : Expecting(r)' =>
       Expecting(r) /\ req'[r].child = req[r].child /\ req'[r].w = req[r].w
  /\ \A v \in Wids : mem'[v].parent = mem[v].parent
  /\ \A v \in Wids \ {w} :
       /\ job'[v] = job[v] /\ mem'[v] = mem[v] /\ clar'[v] = clar[v]
       /\ \A f \in Fields : <<v, f>> \in told' => <<v, f>> \in told
       /\ \A r \in Requests : At(r, v)' => At(r, v)
  /\ Begun(w) /\ job'[w] \in {"none", "pin", "ended"} /\ mem'[w].kind \in {"none", "asks"}
  /\ ~row[w].tasks

LEMMA TalkCourse ==
  ASSUME Course, NEW w \in Wids, TalkStep(w)
  PROVE  Births' /\ Parents' /\ Quests'
<1>1. \A v \in Wids : Begun(v) => Begun(v)'
  BY DEF TalkStep, Begun
<1>2. \A v \in Wids : Young(v)' => Young(v)
  BY DEF TalkStep, Young
<1>3. Births'
  <2>1. \A v \in Wids : job'[v] # "none" => Begun(v)'
    BY <1>1 DEF Course, Births, TalkStep
  <2>2. \A r \in Requests : Expecting(r)' => req'[r].child \in 1..made'
    BY DEF Course, Births, TalkStep
  <2>3. \A r, s \in Requests : Expecting(r)' /\ Expecting(s)' /\ req'[r].child = req'[s].child => r = s
    BY DEF Course, Births, TalkStep
  <2>4. \A v \in Wids : v > made' => row'[v] = NoRow
    BY DEF Course, Births, TalkStep
  <2>5. \A v \in Wids : ~Begun(v)' \/ Young(v)' => ~row'[v].tasks
    BY <1>1, <1>2 DEF Course, Births, TalkStep
  <2>6. QED
    BY <2>1, <2>2, <2>3, <2>4, <2>5 DEF Births
<1>4. Parents'
  BY <1>2 DEF Course, Parents, TalkStep
<1>5. Quests'
  <2>1. Settled(w)'
    BY <1>1 DEF Settled, TalkStep
  <2>2. ASSUME NEW v \in Wids \ {w}, Touched(v)' PROVE Settled(v)'
    <3>1. Touched(v)
      BY <2>2 DEF Touched, TalkStep
    <3>2. QED
      BY <1>1, <3>1 DEF Course, Quests, Settled, TalkStep
  <2>3. QED
    BY <2>1, <2>2 DEF Quests
<1>6. QED
  BY <1>3, <1>4, <1>5

LEMMA AskingStep ==
  ASSUME Course, Types',
         \A s \in Requests : \/ req'[s] = req[s]
                             \/ /\ req'[s].at # "new" /\ Working(req'[s])
                                /\ Live(s)' /\ req'[s].w # None /\ req'[s].warm =>
                                     mem[req'[s].w].kind = "asks",
         \A v \in Wids : job'[v] = "pin" => \/ /\ job[v] = "pin" /\ mem'[v].asked = mem[v].asked
                                               /\ mem'[v].kind = mem[v].kind
                                            \/ mem'[v].asked \in Questions /\ mem'[v].kind = "asks",
         \A v \in Wids : clar'[v].open => \/ clar[v].open /\ clar'[v].missing = clar[v].missing
                                          \/ clar'[v].missing # {},
         \A s \in Requests : \A v \in Wids : At(s, v)' /\ mem[v].kind = "asks" => mem'[v].kind = "asks"
  PROVE  Asking'
<1>1. \A s \in Requests : req'[s].at = "new" => req'[s] = Idle
  BY DEF Course, Asking
<1>2. \A s \in Requests : Working(req'[s])
  BY DEF Course, Asking
<1>3. ASSUME NEW s \in Requests, Live(s)', req'[s].w # None, req'[s].warm
      PROVE  mem'[req'[s].w].kind = "asks"
  <2>1. req'[s] \in Held
    BY DEF Types
  <2>2. PICK v \in Wids : v = req'[s].w
    BY <1>3, <2>1 DEF Held
  <2>3. At(s, v)'
    BY <1>3, <2>2 DEF At
  <2>4. mem[v].kind = "asks"
    BY <1>3, <2>2 DEF Course, Asking, Live
  <2>5. mem'[v].kind = "asks"
    BY <2>2, <2>3, <2>4
  <2>6. QED
    BY <2>2, <2>5
<1>4. \A v \in Wids : job'[v] = "pin" => mem'[v].asked \in Questions /\ mem'[v].kind = "asks"
  BY DEF Course, Asking
<1>5. \A v \in Wids : clar'[v].open => clar'[v].missing # {}
  BY DEF Course, Asking
<1>6. QED
  BY <1>1, <1>2, <1>3, <1>4, <1>5 DEF Asking

\* A request that is past its first step is about a workflow that asked.
LEMMA AboutOne ==
  ASSUME ConversationAssumptions, Course, NEW r \in Requests,
         req[r].at \in {"read", "save", "tell", "claim", "archive"}
  PROVE  /\ req[r] \in Held /\ Live(r) /\ req[r].w \in Wids /\ req[r].w # None
         /\ At(r, req[r].w) /\ Touched(req[r].w) /\ Settled(req[r].w)
         /\ Answering(req[r])
<1>1. req[r] \in Held /\ Live(r)
  BY DEF Course, Types, Live
<1>2. Empty(req[r]) /\ Answering(req[r])
  BY DEF Course, Asking, Working
<1>3. req[r].w # None /\ req[r].w \in Wids
  BY <1>1, <1>2 DEF Empty, Held
<1>4. At(r, req[r].w) /\ Touched(req[r].w)
  BY <1>1, <1>3 DEF At, Touched
<1>5. QED
  BY <1>1, <1>2, <1>3, <1>4 DEF Course, Quests

LEMMA CourseUnderstands ==
  ASSUME ConversationAssumptions, Course, Types', NEW r \in Requests, Understands(r)
  PROVE  Course'
<1>0. req[r].at = "read" /\ Live(r)
  BY DEF Understands, Live
<1>1. req[r] \in Held /\ req[r].w \in Wids /\ Settled(req[r].w) /\ Answering(req[r])
  BY <1>0, AboutOne
<1>2. PICK said \in SUBSET (req[r].missing \cap Fields) : Understood(r, said)
  BY DEF Understands
<1>3. /\ \A s \in Requests \ {r} : req'[s] = req[s]
      /\ req'[r].w = req[r].w /\ req'[r].warm = req[r].warm /\ req'[r].missing = req[r].missing
      /\ req'[r].answers = said /\ req'[r].child = req[r].child
      /\ req'[r].at = IF req[r].missing \in {said, Unclear} THEN "claim" ELSE "save"
  BY <1>1, <1>2 DEF Understood, Held, Course, Types
<1>4. /\ row' = row /\ made' = made /\ mem' = mem /\ job' = job /\ clar' = clar /\ told' = told
  BY <1>2 DEF Understood
<1>5. Unclear \cap Fields = {}
  BY DEF ConversationAssumptions, Unclear
<1>6. Working(req'[r])
  <2>1. req[r].missing \in {said, Unclear} => req[r].missing \cap Fields \subseteq said
    BY <1>5
  <2>2. req[r].missing \notin {said, Unclear} => req[r].missing \ said # {} /\ req[r].missing # Unclear
    OBVIOUS
  <2>3. req[r].w # None
    BY <1>1, Numbers
  <2>4. QED
    BY <1>1, <1>3, <2>1, <2>2, <2>3 DEF Working, Empty, Answering
<1>7. TalkStep(req[r].w)
  BY <1>0, <1>1, <1>3, <1>4 DEF TalkStep, Settled, Expecting, At, Live
<1>8. Births' /\ Parents' /\ Quests'
  BY <1>1, <1>7, TalkCourse
<1>9. Asking'
  <2>1. Live(r)' /\ req'[r].w # None /\ req'[r].warm => mem[req'[r].w].kind = "asks"
    BY <1>0, <1>3 DEF Course, Asking
  <2>2. QED
    BY <1>3, <1>4, <1>6, <2>1, AskingStep DEF Course, Asking
<1>10. QED
  BY <1>8, <1>9 DEF Course

LEMMA CourseTellsRest ==
  ASSUME ConversationAssumptions, Course, Types', NEW r \in Requests, TellsRest(r)
  PROVE  Course'
<1>0. req[r].at = "tell" /\ Live(r)
  BY DEF TellsRest, Live
<1>1. req[r] \in Held /\ req[r].w \in Wids /\ Settled(req[r].w) /\ Answering(req[r])
  BY <1>0, AboutOne
<1>2. /\ \A s \in Requests \ {r} : req'[s] = req[s]
      /\ req'[r].at = "done"
  BY Moved DEF TellsRest, Course, Stages
<1> DEFINE w == req[r].w
<1>3. /\ row' = row /\ made' = made /\ job' = job /\ clar' = clar
      /\ \A v \in Wids \ {w} : mem'[v] = mem[v]
      /\ mem'[w].kind = mem[w].kind /\ mem'[w].parent = mem[w].parent /\ mem'[w].asked = mem[w].asked
      /\ \A v \in Wids \ {w} : \A f \in Fields : <<v, f>> \in told' => <<v, f>> \in told
  <2>1. row' = row /\ made' = made /\ job' = job /\ clar' = clar /\ w \in Wids /\ mem[w] \in Memories
    BY <1>1 DEF TellsRest, Course, Types
  <2>2. \/ mem' = mem
        \/ mem' = [mem EXCEPT ![w].known = Known(r), ![w].missing = IF mem[w].kind = "asks" THEN Left(r) ELSE @]
    BY DEF TellsRest
  <2>3. told' = told \cup {<<w, f>> : f \in req[r].answers}
    BY DEF TellsRest
  <2> HIDE DEF w
  <2>4. /\ \A v \in Wids \ {w} : mem'[v] = mem[v]
        /\ mem'[w].kind = mem[w].kind /\ mem'[w].parent = mem[w].parent /\ mem'[w].asked = mem[w].asked
    BY <2>1, <2>2 DEF Memories, Course, Types
  <2>5. \A v \in Wids \ {w} : \A f \in Fields : <<v, f>> \in told' => <<v, f>> \in told
    BY <2>3
  <2>6. QED
    BY <2>1, <2>4, <2>5
<1>4. TalkStep(w)
  BY <1>0, <1>1, <1>2, <1>3 DEF TalkStep, Settled, Expecting, At, Live
<1> HIDE DEF w
<1>5. w \in Wids
  BY <1>1 DEF w
<1>6. Births' /\ Parents' /\ Quests'
  BY <1>4, <1>5, TalkCourse
<1>7. Asking'
  <2>1. Working(req'[r]) /\ ~Live(r)'
    BY <1>2 DEF Working, Live
  <2>2. \A v \in Wids : mem'[v].kind = mem[v].kind /\ mem'[v].asked = mem[v].asked
    BY <1>3
  <2>3. QED
    BY <1>2, <1>3, <2>1, <2>2, AskingStep DEF Course, Asking
<1>8. QED
  BY <1>6, <1>7 DEF Course

LEMMA CourseSavesRest ==
  ASSUME ConversationAssumptions, Course, Types', NEW r \in Requests, SavesRest(r)
  PROVE  Course'
<1>0. req[r].at = "save" /\ Live(r)
  BY DEF SavesRest, Live
<1>1. req[r] \in Held /\ req[r].w \in Wids /\ Settled(req[r].w) /\ Answering(req[r])
  BY <1>0, AboutOne
<1>2. /\ \A s \in Requests \ {r} : req'[s] = req[s]
      /\ req'[r].at = "tell" /\ req'[r].w = req[r].w /\ req'[r].warm = req[r].warm
      /\ req'[r].missing = req[r].missing /\ req'[r].answers = req[r].answers
  BY Moved DEF SavesRest, Course, Stages
<1>3. PICK w \in Wids : w = req[r].w
  BY <1>1
<1>4. /\ row' = row /\ made' = made /\ job' = job /\ mem' = mem /\ told' = told
      /\ \A v \in Wids \ {w} : clar'[v] = clar[v]
      /\ clar'[w] = clar[w] \/ clar'[w].missing # {}
  <2>1. row' = row /\ made' = made /\ job' = job /\ mem' = mem /\ told' = told /\ Left(r) # {}
    BY <1>0, <1>1, <1>3, Numbers DEF SavesRest, Answering, Left
  <2>2. clar' = clar \/ clar' = [clar EXCEPT ![w] = [open |-> TRUE, missing |-> Left(r), known |-> Known(r)]]
    BY <1>3 DEF SavesRest
  <2>3. QED
    BY <2>1, <2>2 DEF Course, Types
<1>5. TalkStep(w)
  BY <1>0, <1>1, <1>2, <1>3, <1>4 DEF TalkStep, Settled, Expecting, At, Live
<1>6. Births' /\ Parents' /\ Quests'
  BY <1>5, TalkCourse
<1>7. Asking'
  <2>1. Working(req'[r])
    BY <1>0, <1>1, <1>2, Numbers DEF Working, Empty, Answering
  <2>2. Live(r)' /\ req'[r].w # None /\ req'[r].warm => mem[req'[r].w].kind = "asks"
    BY <1>0, <1>2 DEF Course, Asking
  <2>3. QED
    BY <1>2, <1>4, <2>1, <2>2, AskingStep DEF Course, Asking
<1>8. QED
  BY <1>6, <1>7 DEF Course

LEMMA CourseAnswersAside ==
  ASSUME ConversationAssumptions, Course, Types', NEW r \in Requests, AnswersAside(r)
  PROVE  Course'
<1>0. req[r].at = "read" /\ Live(r)
  BY DEF AnswersAside, Live
<1>1. req[r] \in Held /\ req[r].w \in Wids /\ Settled(req[r].w) /\ Answering(req[r])
  BY <1>0, AboutOne
<1>2. \A s \in Requests \ {r} : req'[s] = req[s]
  BY Moved DEF AnswersAside, Course, Stages
<1>3. req'[r].at = "done"
  BY Moved DEF AnswersAside, Course, Stages
<1>4. PICK w \in Wids : w = req[r].w
  BY <1>1
<1>5. /\ row' = row /\ made' = made /\ job' = job /\ clar' = clar /\ told' = told
      /\ \A v \in Wids \ {w} : mem'[v] = mem[v]
      /\ mem'[w].kind = mem[w].kind /\ mem'[w].parent = mem[w].parent /\ mem'[w].asked = mem[w].asked
      /\ mem'[w].known = mem[w].known /\ mem'[w].missing \in {mem[w].missing, req[r].missing}
  <2>1. row' = row /\ made' = made /\ job' = job /\ clar' = clar /\ told' = told /\ mem[w] \in Memories
    BY DEF AnswersAside, Course, Types
  <2>2. CASE mem' = mem
    BY <2>1, <2>2
  <2>3. CASE req[r].warm /\ mem' = [mem EXCEPT ![w].kind = "asks", ![w].missing = req[r].missing]
    <3>1. mem[w].kind = "asks"
      BY <1>0, <1>4, <2>3, Numbers DEF Course, Asking
    <3>2. QED
      BY <2>1, <2>3, <3>1 DEF Memories, Course, Types
  <2>4. QED
    BY <1>4, <2>2, <2>3 DEF AnswersAside
<1>6. TalkStep(w)
  BY <1>0, <1>1, <1>2, <1>3, <1>4, <1>5 DEF TalkStep, Settled, Expecting, At, Live
<1>7. Births' /\ Parents' /\ Quests'
  BY <1>6, TalkCourse
<1>8. Asking'
  <2>1. Working(req'[r]) /\ ~Live(r)'
    BY <1>3 DEF Working, Live
  <2>2. \A v \in Wids : mem'[v].kind = mem[v].kind /\ mem'[v].asked = mem[v].asked
    BY <1>5
  <2>3. QED
    BY <1>2, <1>3, <1>5, <2>1, <2>2, AskingStep DEF Course, Asking
<1>9. QED
  BY <1>7, <1>8 DEF Course

LEMMA CourseReadsQuestion ==
  ASSUME ConversationAssumptions, Course, Types', NEW r \in Requests, NEW w \in Wids, ReadsQuestion(r, w)
  PROVE  Course'
<1>1. /\ row' = row /\ made' = made /\ job' = job /\ clar' = clar /\ told' = told /\ mem' = mem
      /\ mem[w] \in Memories /\ clar[w] \in Pinned /\ lax \subseteq lax'
  BY DEF ReadsQuestion, Course, Types
<1> DEFINE warm == mem[w].kind \notin {"none", "busy"}
           from == IF warm THEN mem[w] ELSE clar[w]
           next == [Idle EXCEPT !.at = "read", !.w = w, !.warm = mem[w].kind # "none",
                                !.missing = from.missing, !.known = from.known]
           stop == [Idle EXCEPT !.at = "done"]
<1>2. CASE req' = [req EXCEPT ![r] = stop]
  <2>1. \A s \in Requests : Rests(s)
    BY <1>2 DEF Rests, Idle, Course, Types
  <2>2. CalmStep
    BY <1>1, <2>1, StillShape DEF CalmStep, Course
  <2>3. QED
    BY <2>2, CalmCourse
<1>3. CASE /\ IF warm THEN mem[w].kind = "asks" ELSE clar[w].open
           /\ from.missing \notin {{}, Unpriced}
           /\ req' = [req EXCEPT ![r] = next]
  <2>1. Touched(w)
    BY <1>3, Constants DEF Touched
  <2>2. Settled(w)
    BY <2>1 DEF Course, Quests
  <2>3. mem[w].kind # "none" => mem[w].kind = "asks"
    BY <2>2 DEF Settled
  <2>4. /\ next.at = "read" /\ next.w = w /\ next.warm = (mem[w].kind # "none")
        /\ next.missing = from.missing /\ next.answers = {}
    BY DEF Idle
  <2>5. from.missing \in Questions \ {Unpriced}
    BY <1>1, <1>3 DEF Memories, Pinned
  <2> HIDE DEF next
  <2>6. req'[r] = next /\ \A s \in Requests \ {r} : req'[s] = req[s]
    BY <1>3 DEF Course, Types
  <2>7. TalkStep(w)
    BY <1>1, <2>2, <2>4, <2>6 DEF TalkStep, Settled, Expecting, At, Live
  <2>8. Births' /\ Parents' /\ Quests'
    BY <2>7, TalkCourse
  <2>9. Working(next)
    BY <2>4, <2>5, Numbers DEF Working, Empty, Answering
  <2>10. Asking'
    BY <1>1, <2>3, <2>4, <2>6, <2>9, AskingStep DEF Course, Asking
  <2>11. QED
    BY <2>8, <2>10 DEF Course
<1>4. QED
  BY <1>2, <1>3 DEF ReadsQuestion

LEMMA CourseQuestions ==
  ASSUME ConversationAssumptions, Course, Types', NEW w \in Wids,
         (\E missing \in Questions : KeepsQuestion(w, missing)) \/ PinsQuestion(w)
  PROVE  Course'
<1>1. /\ row' = row /\ made' = made /\ req' = req /\ told' = told /\ mem[w] \in Memories
      /\ \A v \in Wids \ {w} : job'[v] = job[v] /\ mem'[v] = mem[v] /\ clar'[v] = clar[v]
      /\ mem'[w].parent = mem[w].parent
  <2>1. mem[w] \in Memories
    BY DEF Course, Types
  <2>2. ASSUME NEW missing \in Questions, KeepsQuestion(w, missing)
        PROVE  /\ row' = row /\ made' = made /\ req' = req /\ told' = told /\ clar' = clar
               /\ \A v \in Wids \ {w} : job'[v] = job[v] /\ mem'[v] = mem[v]
               /\ mem'[w].parent = mem[w].parent
    <3>1. row' = row /\ made' = made /\ req' = req /\ told' = told /\ clar' = clar
      BY <2>2 DEF KeepsQuestion
    <3>2. job' = [job EXCEPT ![w] = "pin"]
          /\ mem' = [mem EXCEPT ![w] = [@ EXCEPT !.kind = "asks", !.missing = missing, !.asked = missing]]
      BY <2>2 DEF KeepsQuestion
    <3>3. mem \in [Wids -> Memories] /\ job \in [Wids -> JobStages]
      BY DEF Course, Types
    <3>4. \A v \in Wids \ {w} : job'[v] = job[v] /\ mem'[v] = mem[v]
      BY <3>2, <3>3
    <3>5. mem'[w] = [mem[w] EXCEPT !.kind = "asks", !.missing = missing, !.asked = missing]
      BY <3>2, <3>3
    <3>6. mem'[w].parent = mem[w].parent
      BY <2>1, <3>5 DEF Memories
    <3>7. QED
      BY <3>1, <3>4, <3>6
  <2>3. CASE PinsQuestion(w)
    <3>1. /\ row' = row /\ made' = made /\ req' = req /\ told' = told
          /\ \A v \in Wids \ {w} : job'[v] = job[v] /\ mem'[v] = mem[v]
          /\ mem'[w].parent = mem[w].parent
      BY <2>1, <2>3 DEF PinsQuestion, Course, Types, Memories
    <3>2. \A v \in Wids \ {w} : clar'[v] = clar[v]
      BY <2>3 DEF PinsQuestion, Course, Types
    <3>3. QED
      BY <2>1, <3>1, <3>2
  <2>4. QED
    BY <2>1, <2>2, <2>3
<1>2. ASSUME NEW missing \in Questions, KeepsQuestion(w, missing) PROVE Course'
  <2>1. Begun(w) /\ ~row[w].tasks
    BY <1>2 DEF KeepsQuestion, Course, Births, Young
  <2>2. job'[w] = "pin" /\ mem'[w].kind = "asks" /\ mem'[w].asked = missing /\ clar' = clar
    BY <1>1, <1>2 DEF KeepsQuestion, Course, Types, Memories
  <2>3. TalkStep(w)
    BY <1>1, <2>1, <2>2 DEF TalkStep, At, Live, Expecting
  <2>4. Births' /\ Parents' /\ Quests'
    BY <2>3, TalkCourse
  <2>5. Asking'
    BY <1>1, <2>2, AskingStep DEF Course, Asking
  <2>6. QED
    BY <2>4, <2>5 DEF Course
<1>3. CASE PinsQuestion(w)
  <2>1. job[w] = "pin" /\ job'[w] = "ended" /\ mem[w].kind = "asks" /\ mem'[w].kind = "asks"
    BY <1>1, <1>3 DEF PinsQuestion, Course, Types, Memories, Asking
  <2>2. Settled(w)
    BY <2>1 DEF Course, Quests, Touched
  <2>3. TalkStep(w)
    BY <1>1, <2>1, <2>2 DEF TalkStep, At, Live, Expecting, Settled
  <2>4. Births' /\ Parents' /\ Quests'
    BY <2>3, TalkCourse
  <2>5. clar'[w] = clar[w] \/ clar'[w].missing # {}
    <3>1. mem[w].asked # {}
      BY <2>1 DEF Course, Asking, Questions, Unclear, Unpriced
    <3>2. QED
      BY <1>3, <3>1 DEF PinsQuestion, Course, Types
  <2>6. Asking'
    BY <1>1, <2>1, <2>5, AskingStep DEF Course, Asking
  <2>7. QED
    BY <2>4, <2>6 DEF Course
<1>4. QED
  BY <1>2, <1>3

\* A new id: it is expected by the request that took it, or a turn that is over.
BirthStep(r) ==
  /\ made' = made + 1 /\ job' = job /\ told' = told
  /\ \A s \in Requests \ {r} : req'[s] = req[s]
  /\ \/ req'[r].at = "done"
     \/ /\ Expecting(r)' /\ ~Expecting(r) /\ req'[r].child = made' /\ req'[r].w = req[r].w
        /\ Live(r) /\ req'[r].warm = req[r].warm
  /\ \A v \in Wids : v # made' =>
       /\ row'[v].parent = row[v].parent /\ row'[v].tasks = row[v].tasks
       /\ v > made' => row'[v] = row[v]
       /\ mem'[v].kind = mem[v].kind
  /\ made' \in Wids =>
       /\ ~row'[made'].tasks
       /\ Expecting(r)' => row'[made'].parent \in {None, req'[r].w}
       /\ mem'[made'].kind \in {mem[made'].kind, "chat"}
  /\ \A v \in Wids : /\ mem'[v].parent \in {None, mem[v].parent}
                     /\ job[v] # "none" => mem'[v].parent = mem[v].parent /\ mem'[v].asked = mem[v].asked
  /\ \A v \in Wids : clar'[v] # NoQuestion => Touched(v)
  /\ \A v \in Wids : clar'[v].open => clar[v].open /\ clar'[v].missing = clar[v].missing

LEMMA BirthCourse ==
  ASSUME ConversationAssumptions, Course, Types', NEW r \in Requests, BirthStep(r), Working(req'[r])
  PROVE  Course'
<1>0. made \in Nat /\ made' \in Nat /\ Wids \subseteq Nat /\ None \notin Wids
  BY Numbers DEF Course, Types
<1>1. \A v \in Wids : Begun(v) => Begun(v)' /\ v # made'
  <2>1. ASSUME NEW v \in Wids, Begun(v) PROVE v # made' /\ v \in 1..made'
    BY <1>0, <2>1 DEF Begun, BirthStep
  <2>2. \A s \in Requests : Expecting(s)' => (Expecting(s) /\ req'[s].child = req[s].child) \/ req'[s].child = made'
    BY DEF BirthStep, Expecting
  <2>3. QED
    BY <2>1, <2>2 DEF Begun
<1>2. \A v \in Wids : Young(v)' => Young(v) /\ Begun(v)
  BY DEF Young, BirthStep, Course, Births
<1>3. Births'
  <2>1. \A v \in Wids : job'[v] # "none" => Begun(v)'
    BY <1>1 DEF Course, Births, BirthStep
  <2>2. \A s \in Requests : Expecting(s)' => req'[s].child \in 1..made'
    BY <1>0 DEF Course, Births, BirthStep, Expecting
  <2>3. ASSUME NEW s \in Requests, NEW q \in Requests, Expecting(s)', Expecting(q)',
               req'[s].child = req'[q].child
        PROVE  s = q
    <3>1. \A x \in Requests : Expecting(x) => req[x].child # made'
      BY <1>0 DEF Course, Births, BirthStep
    <3>2. \A x \in Requests : Expecting(x)' => \/ x = r /\ req'[x].child = made'
                                               \/ Expecting(x) /\ req'[x].child = req[x].child /\ x # r
      BY DEF BirthStep, Expecting
    <3>3. QED
      BY <2>3, <3>1, <3>2 DEF Course, Births
  <2>4. ASSUME NEW v \in Wids, v > made' PROVE row'[v] = NoRow
    <3>1. v # made' /\ v > made
      BY <1>0, <2>4 DEF BirthStep
    <3>2. QED
      BY <2>4, <3>1 DEF Course, Births, BirthStep
  <2>5. ASSUME NEW v \in Wids, ~Begun(v)' \/ Young(v)' PROVE ~row'[v].tasks
    <3>1. ~Begun(v) \/ Young(v)
      BY <1>1, <1>2, <2>5
    <3>2. ~row[v].tasks
      BY <3>1 DEF Course, Births
    <3>3. QED
      BY <3>2 DEF BirthStep
  <2>6. QED
    BY <2>1, <2>2, <2>3, <2>4, <2>5 DEF Births
<1>4. Parents'
  <2>1. ASSUME NEW c \in Wids, Young(c)' PROVE row'[c].parent \in {None, mem'[c].parent}
    <3>1. Young(c) /\ c # made' /\ job[c] # "none"
      BY <1>1, <1>2, <2>1 DEF Young
    <3>2. QED
      BY <3>1 DEF Course, Parents, BirthStep
  <2>2. ASSUME NEW s \in Requests, Expecting(s)', req'[s].child \in Wids
        PROVE  row'[req'[s].child].parent \in {None, req'[s].w}
    <3>1. CASE s = r
      BY <2>2, <3>1 DEF BirthStep, Expecting
    <3>2. CASE s # r
      <4>1. Expecting(s) /\ req'[s] = req[s] /\ req[s].child # made'
        BY <1>0, <2>2, <3>2 DEF BirthStep, Expecting, Course, Births
      <4>2. QED
        BY <2>2, <4>1 DEF Course, Parents, BirthStep
    <3>3. QED
      BY <3>1, <3>2
  <2>3. QED
    BY <2>1, <2>2 DEF Parents
<1>5. Quests'
  <2>1. ASSUME NEW v \in Wids, Touched(v)' PROVE Touched(v)
    <3>1. ASSUME NEW s \in Requests, At(s, v)' PROVE At(s, v)
      BY <3>1 DEF At, Live, BirthStep
    <3>2. (\E d \in Wids : mem'[d].parent = v) => \E d \in Wids : mem[d].parent = v
      BY <1>0 DEF BirthStep
    <3>3. mem'[v].kind = "asks" => mem[v].kind = "asks"
      BY DEF BirthStep
    <3>4. QED
      BY <2>1, <3>1, <3>2, <3>3 DEF Touched, BirthStep
  <2>2. ASSUME NEW v \in Wids, Settled(v) PROVE Settled(v)'
    BY <1>1, <2>2 DEF Settled, BirthStep
  <2>3. QED
    BY <2>1, <2>2 DEF Course, Quests
<1>6. Asking'
  <2>1. ASSUME NEW v \in Wids, mem[v].kind = "asks" PROVE mem'[v].kind = "asks"
    <3>1. Begun(v)
      BY <2>1 DEF Course, Quests, Touched, Settled
    <3>2. QED
      BY <1>1, <2>1, <3>1 DEF BirthStep
  <2>2. ASSUME NEW v \in Wids, job'[v] = "pin"
        PROVE  job[v] = "pin" /\ mem'[v].asked = mem[v].asked /\ mem'[v].kind = mem[v].kind
    <3>1. job[v] = "pin" /\ Begun(v)
      BY <2>2 DEF BirthStep, Course, Births
    <3>2. QED
      BY <1>1, <3>1 DEF BirthStep
  <2>3. /\ req'[r].at # "new" /\ Working(req'[r])
        /\ Live(r)' /\ req'[r].w # None /\ req'[r].warm => mem[req'[r].w].kind = "asks"
    BY DEF Course, Asking, BirthStep, Live, Expecting
  <2>4. QED
    BY <2>1, <2>2, <2>3, AskingStep DEF BirthStep
<1>7. QED
  BY <1>3, <1>4, <1>5, <1>6 DEF Course

LEMMA CourseTalks ==
  ASSUME ConversationAssumptions, Course, Types', NEW r \in Requests, NEW p \in Wids \cup {None}, TalksOnly(r, p)
  PROVE  Course'
<1>1. /\ \A s \in Requests \ {r} : req'[s] = req[s]
      /\ req'[r].at = "done"
  BY Moved DEF TalksOnly, Course, Stages
<1>2. made' = made + 1 /\ made' \in Nat /\ made \in Nat
  BY DEF TalksOnly, Course, Types
<1>3. made' \in Wids => ~Begun(made') /\ job[made'] = "none"
  BY <1>2 DEF Begun, Course, Births
<1> DEFINE chat == [NoMemory EXCEPT !.kind = "chat"]
<1>4. chat.kind = "chat" /\ chat.parent = None
  BY DEF NoMemory
<1>5. mem' = [mem EXCEPT ![made'] = chat]
  BY DEF TalksOnly
<1> HIDE DEF chat
<1>6. \A v \in Wids : v # made' => mem'[v] = mem[v]
  BY <1>5 DEF Course, Types
<1>7. made' \in Wids => mem'[made'] = chat
  BY <1>5 DEF Course, Types
<1>8. \A v \in Wids : v # made' => row'[v] = row[v]
  BY DEF TalksOnly, Course, Types
<1>9. made' \in Wids => ~row'[made'].tasks
  <2>1. CASE row' = row
    BY <1>3, <2>1 DEF Course, Births
  <2>2. CASE row' = [row EXCEPT ![made'] = ChatRow(p)]
    BY <2>2, Shells DEF Course, Types
  <2>3. QED
    BY <2>1, <2>2 DEF TalksOnly
<1>10. BirthStep(r)
  <2>1. \A v \in Wids : clar'[v] # NoQuestion => Touched(v)
    BY DEF TalksOnly, Touched
  <2>2. \A v \in Wids : job[v] # "none" => v # made'
    BY <1>3
  <2>3. job' = job /\ told' = told /\ clar' = clar /\ ~Expecting(r)'
    BY <1>1 DEF TalksOnly, Expecting
  <2>4. \A v \in Wids : /\ mem'[v].parent \in {None, mem[v].parent}
                        /\ job[v] # "none" => mem'[v].parent = mem[v].parent /\ mem'[v].asked = mem[v].asked
    BY <1>4, <1>6, <1>7, <2>2
  <2>5. QED
    BY <1>1, <1>2, <1>4, <1>6, <1>7, <1>8, <1>9, <2>1, <2>3, <2>4 DEF BirthStep
<1>11. Working(req'[r])
  BY <1>1 DEF Working
<1>12. QED
  BY <1>10, <1>11, BirthCourse

LEMMA CourseCreatesShell ==
  ASSUME ConversationAssumptions, Course, Types', NEW r \in Requests, CreatesShell(r)
  PROVE  Course'
<1>1. CASE Fails /\ Moves(r, "done") /\ UNCHANGED <<row, made>>
  <2>1. \A s \in Requests : Rests(s)
    BY <1>1, Still DEF Course, Stages
  <2>2. CalmStep
    BY <1>1, <2>1, StillShape DEF CreatesShell, CalmStep, Course
  <2>3. QED
    BY <2>2, CalmCourse
<1>2. CASE /\ made' = made + 1
           /\ row' = [row EXCEPT ![made'] = Shell(None)]
           /\ req' = [req EXCEPT ![r].at = "launch", ![r].child = made']
  <2>1. made \in Nat /\ made' \in Nat /\ req[r] \in Held /\ req[r].at = "shell"
    BY <1>2 DEF CreatesShell, Course, Types
  <2>2. /\ \A s \in Requests \ {r} : req'[s] = req[s]
        /\ req'[r].at = "launch" /\ req'[r].child = made' /\ req'[r].w = req[r].w
        /\ req'[r].warm = req[r].warm /\ req'[r].answers = req[r].answers
    BY <1>2, <2>1 DEF Held, Course, Types
  <2>3. req[r].w = None /\ req[r].answers = {}
    BY <2>1 DEF Course, Asking, Working, Empty, Answering
  <2>4. Working(req'[r])
    BY <2>2, <2>3 DEF Working, Empty, Answering
  <2>5. \A v \in Wids : v # made' => row'[v] = row[v]
    BY <1>2 DEF Course, Types
  <2>6. made' \in Wids => ~row'[made'].tasks /\ row'[made'].parent = None
    BY <1>2, Shells DEF Course, Types
  <2>7. clar' = clar /\ mem' = mem /\ job' = job /\ told' = told
    BY DEF CreatesShell
  <2>8. Live(r) /\ ~Expecting(r) /\ Expecting(r)'
    BY <2>1, <2>2 DEF Live, Expecting
  <2>9. BirthStep(r)
    BY <1>2, <2>1, <2>2, <2>5, <2>6, <2>7, <2>8 DEF BirthStep, Touched
  <2>10. QED
    BY <2>4, <2>9, BirthCourse
<1>3. QED
  BY <1>1, <1>2 DEF CreatesShell

\* The matter is handed over: with the row, or with the flag in memory.
LEMMA HandsOver ==
  ASSUME ConversationAssumptions, Course, Types', NEW r \in Requests, req[r].at = "claim",
         made' = made + 1, req' = [req EXCEPT ![r].at = "archive", ![r].child = made']
  PROVE  /\ made \in Nat /\ made' \in Nat
         /\ \A s \in Requests \ {r} : req'[s] = req[s]
         /\ req'[r].at = "archive" /\ req'[r].child = made' /\ req'[r].w = req[r].w
         /\ req'[r].warm = req[r].warm /\ req'[r].missing = req[r].missing
         /\ req'[r].known = req[r].known /\ req'[r].answers = req[r].answers
         /\ Working(req'[r]) /\ Live(r) /\ ~Expecting(r) /\ Expecting(r)'
<1>1. made \in Nat /\ made' \in Nat /\ req[r] \in Held
  BY DEF Course, Types
<1>2. /\ \A s \in Requests \ {r} : req'[s] = req[s]
      /\ req'[r].at = "archive" /\ req'[r].child = made' /\ req'[r].w = req[r].w
      /\ req'[r].warm = req[r].warm /\ req'[r].missing = req[r].missing
      /\ req'[r].known = req[r].known /\ req'[r].answers = req[r].answers
  BY <1>1 DEF Held, Course, Types
<1>3. req[r].w # None /\ Answering(req[r])
  BY AboutOne
<1>4. Working(req'[r])
  BY <1>2, <1>3 DEF Working, Empty, Answering
<1>5. QED
  BY <1>1, <1>2, <1>4 DEF Live, Expecting

LEMMA CourseClaims ==
  ASSUME ConversationAssumptions, Course, Types', NEW r \in Requests, Claims(r)
  PROVE  Course'
<1>1. req[r].at = "claim" /\ made' = made + 1 /\ req' = [req EXCEPT ![r].at = "archive", ![r].child = made']
  BY DEF Claims
<1>2. PICK w \in Wids : w = req[r].w
  BY <1>1, AboutOne
<1>3. Settled(w) /\ Touched(w)
  BY <1>1, <1>2, AboutOne
<1>4. w # made'
  BY <1>1, <1>3 DEF Settled, Begun, Course, Types
<1>5. /\ clar' = [clar EXCEPT ![w].open = FALSE]
      /\ row' = [row EXCEPT ![made'] = Shell(w), ![w].archived = TRUE]
      /\ mem' = mem /\ job' = job /\ told' = told
  BY <1>2 DEF Claims, Consumes
<1>6. \A v \in Wids : clar'[v] # NoQuestion => Touched(v)
  BY <1>3, <1>5 DEF Course, Types, Touched
<1>7. \A v \in Wids : clar'[v].open => clar[v].open /\ clar'[v].missing = clar[v].missing
  BY <1>5 DEF Course, Types, Pinned
<1>8. ASSUME NEW v \in Wids, v # made'
      PROVE  row'[v].parent = row[v].parent /\ row'[v].tasks = row[v].tasks /\ (v > made => row'[v] = row[v])
  <2>1. CASE v = w
    <3>1. row[w] \in Rows /\ row'[w] = [row[w] EXCEPT !.archived = TRUE]
      BY <1>4, <1>5 DEF Course, Types
    <3>2. ~(w > made)
      BY <1>3, Numbers DEF Settled, Begun, Course, Types
    <3>3. QED
      BY <2>1, <3>1, <3>2 DEF Rows
  <2>2. CASE v # w
    BY <1>5, <1>8, <2>2 DEF Course, Types
  <2>3. QED
    BY <2>1, <2>2
<1>9. made' \in Wids => ~row'[made'].tasks /\ row'[made'].parent = w
  <2>1. made' \in Wids => row'[made'] = Shell(w)
    BY <1>4, <1>5 DEF Course, Types
  <2>2. QED
    BY <2>1, Shells
<1>10. BirthStep(r)
  <2>1. /\ \A s \in Requests \ {r} : req'[s] = req[s]
        /\ Expecting(r)' /\ ~Expecting(r) /\ req'[r].child = made' /\ req'[r].w = req[r].w
        /\ Live(r) /\ req'[r].warm = req[r].warm
    BY <1>1, HandsOver
  <2>2. made' \in Nat /\ made \in Nat /\ made' = made + 1
    BY <1>1, HandsOver
  <2>3. \A v \in Wids : v # made' => (v > made' => v > made)
    BY <2>2, Numbers
  <2>4. \A v \in Wids : v # made' =>
          /\ row'[v].parent = row[v].parent /\ row'[v].tasks = row[v].tasks
          /\ v > made' => row'[v] = row[v]
          /\ mem'[v].kind = mem[v].kind
    BY <1>5, <1>8, <2>3
  <2>5. made' \in Wids => /\ ~row'[made'].tasks /\ row'[made'].parent \in {None, req'[r].w}
                          /\ mem'[made'].kind \in {mem[made'].kind, "chat"}
    BY <1>2, <1>5, <1>9, <2>1
  <2>6. QED
    BY <1>5, <1>6, <1>7, <2>1, <2>2, <2>4, <2>5 DEF BirthStep
<1>11. QED
  BY <1>1, <1>10, HandsOver, BirthCourse

LEMMA CourseClaimsInMemory ==
  ASSUME ConversationAssumptions, Course, Types', NEW r \in Requests, ClaimsInMemory(r)
  PROVE  Course'
<1>1. CASE Moves(r, "done") /\ UNCHANGED <<mem, made, lax>>
  <2>1. \A s \in Requests : Rests(s)
    BY <1>1, Still DEF Course, Stages
  <2>2. CalmStep
    BY <1>1, <2>1, StillShape DEF ClaimsInMemory, CalmStep, Course
  <2>3. QED
    BY <2>2, CalmCourse
<1>2. CASE /\ made' = made + 1
           /\ mem' = [mem EXCEPT ![req[r].w].claimed = TRUE]
           /\ req' = [req EXCEPT ![r].at = "archive", ![r].child = made']
  <2>1. req[r].at = "claim" /\ row' = row /\ clar' = clar /\ job' = job /\ told' = told
    BY DEF ClaimsInMemory
  <2>2. PICK w \in Wids : w = req[r].w
    BY <2>1, AboutOne
  <2>3. \A v \in Wids : mem'[v].kind = mem[v].kind /\ mem'[v].parent = mem[v].parent /\ mem'[v].asked = mem[v].asked
    BY <1>2, <2>2 DEF Course, Types, Memories
  <2>4. made' \in Wids => ~row'[made'].tasks /\ row'[made'].parent = None
    <3>1. made' \in Wids => row[made'] = NoRow
      BY <1>2 DEF Course, Births, Types
    <3>2. QED
      BY <2>1, <3>1, Constants
  <2>5. \A v \in Wids : clar'[v] # NoQuestion => Touched(v)
    BY <2>1 DEF Touched
  <2>6. BirthStep(r)
    BY <1>2, <2>1, <2>3, <2>4, <2>5, HandsOver DEF BirthStep
  <2>7. QED
    BY <1>2, <2>1, <2>6, HandsOver, BirthCourse
<1>3. QED
  BY <1>1, <1>2 DEF ClaimsInMemory

\* The job of a child, or of a new workflow.
LEMMA Launched ==
  ASSUME ConversationAssumptions, Course, Types', NEW r \in Requests, Launches(r)
  PROVE  /\ req[r] \in Held /\ req[r].at = "launch" /\ Live(r) /\ req[r].child \in 1..made
         /\ \A s \in Requests \ {r} : req'[s] = req[s]
         /\ req'[r].at = "done"
         /\ row' = row /\ clar' = clar /\ made' = made
         /\ \A v \in Wids : v # req[r].child => job'[v] = job[v] /\ mem'[v] = mem[v]
         /\ req[r].child \in Wids =>
              /\ ~Begun(req[r].child) /\ ~Touched(req[r].child)
              /\ job'[req[r].child] = "new"
              /\ mem'[req[r].child] = Busy(req[r].w, req[r].known \cup req[r].answers)
         /\ req[r].w \in Wids => Touched(req[r].w) /\ Settled(req[r].w) /\ req[r].w # req[r].child
         /\ told' = told \cup {<<req[r].w, f>> : f \in req[r].answers}
<1>1. req[r] \in Held /\ req[r].at = "launch" /\ Live(r) /\ req[r].child \in 1..made
  BY DEF Launches, Course, Types, Live, Births, Expecting
<1>2. (\A s \in Requests \ {r} : req'[s] = req[s]) /\ req'[r].at = "done"
  BY Moved DEF Launches, Course, Stages
<1>3. PICK c : c = req[r].child
  OBVIOUS
<1>4. /\ mem' = [mem EXCEPT ![c] = Busy(req[r].w, req[r].known \cup req[r].answers)]
      /\ job' = [job EXCEPT ![c] = "new"]
      /\ row' = row /\ clar' = clar /\ made' = made
      /\ told' = told \cup {<<req[r].w, f>> : f \in req[r].answers}
  BY <1>3 DEF Launches
<1>5. \A v \in Wids : v # c => job'[v] = job[v] /\ mem'[v] = mem[v]
  BY <1>4 DEF Course, Types
<1>6. c \in Wids => /\ job'[c] = "new" /\ mem'[c] = Busy(req[r].w, req[r].known \cup req[r].answers)
                    /\ ~Begun(c) /\ ~Touched(c)
  BY <1>1, <1>3, <1>4 DEF Course, Types, Begun, Expecting, Quests, Settled
<1>7. req[r].w \in Wids => Touched(req[r].w) /\ Settled(req[r].w)
  BY <1>1 DEF Touched, At, Course, Quests
<1>8. req[r].w \in Wids => req[r].w # c
  BY <1>6, <1>7
<1>9. QED
  BY <1>1, <1>2, <1>3, <1>4, <1>5, <1>6, <1>7, <1>8

LEMMA CourseLaunches ==
  ASSUME ConversationAssumptions, Course, Types', NEW r \in Requests, Launches(r)
  PROVE  Course'
<1>0. PICK c \in Nat, w \in Wids \cup {None} : c = req[r].child /\ w = req[r].w
  BY Launched DEF Held
<1>1. /\ req[r].at = "launch" /\ Live(r) /\ c \in 1..made
      /\ \A s \in Requests \ {r} : req'[s] = req[s]
      /\ req'[r].at = "done"
      /\ row' = row /\ clar' = clar /\ made' = made
      /\ \A v \in Wids : v # c => job'[v] = job[v] /\ mem'[v] = mem[v]
      /\ c \in Wids => /\ ~Begun(c) /\ ~Touched(c) /\ job'[c] = "new"
                       /\ mem'[c] = Busy(w, req[r].known \cup req[r].answers)
      /\ w \in Wids => Touched(w) /\ Settled(w) /\ w # c
      /\ told' = told \cup {<<w, f>> : f \in req[r].answers}
  BY <1>0, Launched
<1>2. c \in Wids => mem'[c].kind = "busy" /\ mem'[c].parent = w
  <2>1. PICK said \in SUBSET Fields : said = req[r].known \cup req[r].answers
    BY Launched DEF Held
  <2>2. Busy(w, said).kind = "busy" /\ Busy(w, said).parent = w
    BY <1>0, <2>1, Busies
  <2>3. QED
    BY <1>1, <2>1, <2>2
<1>3. \A v \in Wids : Begun(v) => Begun(v)' /\ v # c
  BY <1>0, <1>1 DEF Begun, Expecting
<1>4. c \in Wids => Begun(c)'
  BY <1>0, <1>1 DEF Begun, Expecting, Course, Births
<1>5. Births'
  <2>1. \A v \in Wids : job'[v] # "none" => Begun(v)'
    BY <1>1, <1>3, <1>4 DEF Course, Births
  <2>2. \A s \in Requests : Expecting(s)' => Expecting(s) /\ req'[s] = req[s] /\ s # r
    BY <1>1 DEF Expecting
  <2>3. \A v \in Wids : ~Begun(v)' \/ Young(v)' => ~row'[v].tasks
    BY <1>1, <1>3, <1>4 DEF Course, Births, Young
  <2>4. QED
    BY <1>1, <2>1, <2>2, <2>3 DEF Course, Births
<1>6. Parents'
  <2>1. ASSUME NEW v \in Wids, Young(v)' PROVE row'[v].parent \in {None, mem'[v].parent}
    <3>1. CASE v = c
      BY <1>0, <1>1, <1>2, <3>1 DEF Course, Parents, Expecting
    <3>2. CASE v # c
      BY <1>1, <2>1, <3>2 DEF Course, Parents, Young
    <3>3. QED
      BY <3>1, <3>2
  <2>2. \A s \in Requests : Expecting(s)' => Expecting(s) /\ req'[s] = req[s]
    BY <1>1 DEF Expecting
  <2>3. QED
    BY <1>1, <2>1, <2>2 DEF Course, Parents
<1>7. Quests'
  <2>1. ASSUME NEW v \in Wids, Touched(v)' PROVE Touched(v)
    <3>1. \A s \in Requests : At(s, v)' => At(s, v)
      BY <1>1 DEF At, Live
    <3>2. mem'[v].kind = "asks" => mem[v].kind = "asks"
      BY <1>1, <1>2
    <3>3. (\E d \in Wids : mem'[d].parent = v) => (\E d \in Wids : mem[d].parent = v) \/ v = w
      BY <1>1, <1>2
    <3>4. \A f \in Fields : <<v, f>> \in told' => <<v, f>> \in told \/ v = w
      BY <1>1
    <3>5. v = w => Touched(v)
      BY <1>1
    <3>6. QED
      BY <1>1, <2>1, <3>1, <3>2, <3>3, <3>4, <3>5 DEF Touched
  <2>2. ASSUME NEW v \in Wids, Settled(v) PROVE Settled(v)'
    BY <1>1, <1>3, <2>2 DEF Settled
  <2>3. QED
    BY <2>1, <2>2 DEF Course, Quests
<1>8. Asking'
  <2>1. \A v \in Wids : mem[v].kind = "asks" => v # c
    BY <1>1 DEF Touched
  <2>2. \A v \in Wids : job'[v] = "pin" => v # c
    BY <1>1
  <2>3. Working(req'[r]) /\ req'[r].at # "new" /\ ~Live(r)'
    BY <1>1 DEF Working, Live
  <2>4. QED
    BY <1>1, <2>1, <2>2, <2>3, AskingStep
<1>9. QED
  BY <1>5, <1>6, <1>7, <1>8 DEF Course

\* A step of the job of w up to the plan's end: w is begun, and nobody speaks of it yet.
JobStep(w) ==
  /\ clar' = clar /\ mem' = mem /\ req' = req /\ made' = made /\ told' = told
  /\ \A v \in Wids \ {w} : job'[v] = job[v] /\ row'[v] = row[v]
  /\ job[w] \in {"new", "plan"} /\ job'[w] \in {"plan", "asks", "talk", "keep", "error"}
  /\ Young(w)' => ~row'[w].tasks
  /\ row'[w].parent \in {row[w].parent, mem[w].parent}

LEMMA JobCourse ==
  ASSUME ConversationAssumptions, Course, Types', NEW w \in Wids, JobStep(w)
  PROVE  Course'
<1>1. Begun(w) /\ Young(w) /\ ~Touched(w) /\ w \in 1..made
  BY DEF JobStep, Course, Births, Quests, Settled, Young, Begun
<1>2. made \in Nat /\ w \in Nat
  BY Numbers DEF Course, Types
<1>3. \A v \in Wids : Begun(v)' <=> Begun(v)
  BY DEF Begun, Expecting, JobStep
<1>4. \A v \in Wids : Touched(v)' <=> Touched(v)
  BY DEF Touched, At, Live, JobStep
<1>5. Births'
  <2>1. \A v \in Wids : job'[v] # "none" => Begun(v)'
    BY <1>1, <1>3 DEF Course, Births, JobStep
  <2>2. \A v \in Wids : v > made' => row'[v] = NoRow
    BY <1>1, <1>2 DEF Course, Births, JobStep
  <2>3. \A v \in Wids : ~Begun(v)' \/ Young(v)' => ~row'[v].tasks
    BY <1>1, <1>3 DEF Course, Births, JobStep, Young
  <2>4. QED
    BY <2>1, <2>2, <2>3 DEF Course, Births, JobStep, Expecting
<1>6. Parents'
  <2>1. ASSUME NEW c \in Wids, Young(c)' PROVE row'[c].parent \in {None, mem'[c].parent}
    BY <1>1, <2>1 DEF Course, Parents, JobStep, Young
  <2>2. ASSUME NEW r \in Requests, Expecting(r)', req'[r].child \in Wids
        PROVE  row'[req'[r].child].parent \in {None, req'[r].w}
    <3>1. Expecting(r) /\ req'[r] = req[r] /\ req[r].child # w
      BY <1>1, <2>2 DEF Begun, JobStep, Expecting
    <3>2. QED
      BY <2>2, <3>1 DEF Course, Parents, JobStep
  <2>3. QED
    BY <2>1, <2>2 DEF Parents
<1>7. Quests'
  <2>1. ASSUME NEW v \in Wids, Touched(v)' PROVE v # w /\ Touched(v) /\ Settled(v)
    BY <1>1, <1>4, <2>1 DEF Course, Quests
  <2>2. QED
    BY <1>3, <2>1 DEF Quests, Settled, JobStep
<1>8. Asking'
  <2>1. \A v \in Wids : job'[v] = "pin" => job[v] = "pin"
    BY DEF JobStep
  <2>2. QED
    BY <2>1 DEF Course, Asking, JobStep, Live
<1>9. QED
  BY <1>5, <1>6, <1>7, <1>8 DEF Course

LEMMA EnsureJob ==
  ASSUME ConversationAssumptions, Course, NEW w \in Wids, EnsuresShell(w)
  PROVE  /\ JobStep(w) /\ job[w] = "new" /\ job'[w] = "plan"
         /\ row' = row \/ (~Lives(w) /\ row' = [row EXCEPT ![w] = Shell(mem[w].parent)])
<1>1. job[w] = "new" /\ job' = [job EXCEPT ![w] = "plan"] /\ UNCHANGED <<clar, mem, req, made, told>>
  BY DEF EnsuresShell
<1>2. job'[w] = "plan" /\ \A v \in Wids \ {w} : job'[v] = job[v]
  BY <1>1 DEF Course, Types
<1>3. ~row[w].tasks /\ mem[w].parent \in Wids \cup {None}
  BY <1>1 DEF Course, Births, Young, Types, Memories
<1>4. row' = row \/ (~Lives(w) /\ row' = [row EXCEPT ![w] = Shell(mem[w].parent)])
  BY DEF EnsuresShell
<1>5. /\ \A v \in Wids \ {w} : row'[v] = row[v]
      /\ ~row'[w].tasks /\ row'[w].parent \in {row[w].parent, mem[w].parent}
  <2>1. CASE row' = row
    BY <1>3, <2>1
  <2>2. CASE row' = [row EXCEPT ![w] = Shell(mem[w].parent)]
    BY <1>3, <2>2, Shells DEF Course, Types
  <2>3. QED
    BY <1>4, <2>1, <2>2
<1>6. QED
  BY <1>1, <1>2, <1>4, <1>5 DEF JobStep

LEMMA PlanJob ==
  ASSUME ConversationAssumptions, Course, NEW w \in Wids, Plans(w)
  PROVE  /\ JobStep(w) /\ job[w] = "plan" /\ job'[w] \in {"asks", "talk", "error", "keep"}
         /\ row'[w].parent = row[w].parent /\ row'[w].chat = row[w].chat
         /\ Lives(w)' <=> Lives(w)
<1>1. PICK next \in {"asks", "talk", "error", "keep"}, end \in Outcomes :
        /\ next \in {"asks", "talk"} => end = "PENDING"
        /\ job' = [job EXCEPT ![w] = next]
        /\ row' = IF ~Lives(w) THEN row
                  ELSE [row EXCEPT ![w].planned = TRUE, ![w].tasks = next \notin {"asks", "talk"},
                                   ![w].status = IF row[w].archived THEN @ ELSE end]
  BY DEF Plans
<1>2. job[w] = "plan" /\ UNCHANGED <<clar, mem, req, made, told>>
  BY DEF Plans
<1>3. job'[w] = next /\ \A v \in Wids \ {w} : job'[v] = job[v]
  BY <1>1 DEF Course, Types
<1>4. ~row[w].tasks /\ row[w] \in Rows
  BY <1>2 DEF Course, Births, Young, Types
<1>5. end # "absent"
  BY DEF ConversationAssumptions
<1>6. CASE ~Lives(w)
  <2>1. row' = row
    BY <1>1, <1>6
  <2>2. QED
    BY <1>2, <1>3, <1>4, <2>1 DEF JobStep, Lives
<1>7. CASE Lives(w)
  <2>1. row' = [row EXCEPT ![w] = [row[w] EXCEPT !.planned = TRUE, !.tasks = next \notin {"asks", "talk"},
                                   !.status = IF row[w].archived THEN @ ELSE end]]
    BY <1>1, <1>4, <1>7 DEF Course, Types
  <2>2. (\A v \in Wids \ {w} : row'[v] = row[v])
        /\ row'[w] = [row[w] EXCEPT !.planned = TRUE, !.tasks = next \notin {"asks", "talk"},
                                   !.status = IF row[w].archived THEN @ ELSE end]
    BY <2>1 DEF Course, Types
  <2>3. row'[w].parent = row[w].parent /\ row'[w].chat = row[w].chat /\ row'[w].tasks = (next \notin {"asks", "talk"})
    BY <1>4, <2>2 DEF Rows
  <2>4. row'[w].status # "absent"
    BY <1>4, <1>5, <1>7, <2>2 DEF Rows, Lives
  <2>5. Young(w)' => ~row'[w].tasks
    BY <1>3, <2>3 DEF Young
  <2>6. QED
    BY <1>2, <1>3, <1>7, <2>2, <2>3, <2>4, <2>5 DEF JobStep, Lives
<1>8. QED
  BY <1>6, <1>7

LEMMA CourseInit == ASSUME ConversationAssumptions, Init PROVE Course
<1>1. Types
  BY TypesInit
<1>2. \A w \in Wids : /\ row[w] = NoRow /\ clar[w] = NoQuestion /\ mem[w] = NoMemory /\ job[w] = "none"
  BY DEF Init
<1>3. \A r \in Requests : req[r] = Idle
  BY DEF Init
<1>4. Idle.at = "new" /\ ~NoRow.tasks /\ told = {} /\ None \notin Wids
      /\ NoMemory.kind = "none" /\ NoMemory.parent = None /\ ~NoQuestion.open
  BY Constants, Numbers DEF Init
<1>5. Births
  BY <1>2, <1>3, <1>4 DEF Births, Expecting, Young
<1>6. Parents
  BY <1>2, <1>3, <1>4 DEF Parents, Expecting, Young
<1>7. Quests
  BY <1>2, <1>3, <1>4 DEF Quests, Touched, At, Live
<1>8. Asking
  BY <1>2, <1>3, <1>4 DEF Asking, Working, Live
<1>9. QED
  BY <1>1, <1>5, <1>6, <1>7, <1>8 DEF Course

LEMMA CourseStep ==
  ASSUME ConversationAssumptions, Course, [Next]_vars
  PROVE  Course'
<1>0. Types'
  BY TypesStep DEF Course
<1>1. CASE \E r \in Requests : Chats(r) \/ TalksAside(r)
  <2>1. PICK r \in Requests : Chats(r) \/ TalksAside(r)
    BY <1>1
  <2>2. \E p \in Wids \cup {None} : TalksOnly(r, p)
    BY <2>1, AboutOne DEF Chats, TalksAside
  <2>3. QED
    BY <1>0, <2>2, CourseTalks
<1>2. CASE \E r \in Requests :
             CreatesShell(r) \/ Launches(r) \/ TellsRest(r) \/ SavesRest(r) \/ Claims(r)
             \/ ClaimsInMemory(r) \/ Understands(r) \/ AnswersAside(r) \/ (\E w \in Wids : ReadsQuestion(r, w))
  BY <1>0, <1>2, CourseCreatesShell, CourseLaunches, CourseTellsRest, CourseSavesRest, CourseClaims,
     CourseClaimsInMemory, CourseUnderstands, CourseAnswersAside, CourseReadsQuestion
<1>3. CASE \E w \in Wids : EnsuresShell(w) \/ Plans(w)
  BY <1>0, <1>3, EnsureJob, PlanJob, JobCourse
<1>4. CASE \E w \in Wids : (\E missing \in Questions : KeepsQuestion(w, missing)) \/ PinsQuestion(w)
  BY <1>0, <1>4, CourseQuestions
<1>5. CASE \/ \E r \in Requests : \/ \E w \in Wids : Amends(r, w)
                                  \/ CountsQuota(r) \/ ArchivesParent(r)
           \/ \E w \in Wids : KeepsResponse(w) \/ MarksAnswered(w) \/ FinishesChat(w) \/ MarksFailed(w)
                             \/ SweepsZombie(w) \/ Deletes(w)
           \/ ArchivesSuperseded \/ Trims \/ Crash \/ UNCHANGED vars
  BY <1>0, <1>5, CalmSteps, CalmCourse
<1>6. QED
  BY <1>1, <1>2, <1>3, <1>4, <1>5 DEF Next, Steps, Message, Answer, Runs

LEMMA CourseAlways == ASSUME ConversationAssumptions PROVE ConversationSpec => []Course
  BY CourseInit, CourseStep, PTL DEF ConversationSpec

-------------------------------------------------------------------------------
(* One child for one answer. *)

Once ==
  "again" \notin lax =>
    /\ \A r \in Requests : \A c \in Wids : Expecting(r) /\ req[r].child = c => Lives(c)
    /\ \A w \in Wids : job[w] = "new" => Lives(w)
    /\ \A w \in Wids : clar[w].open \/ clar[w] = NoQuestion => Children(w) = {}
    /\ \A w \in Wids : \A c, d \in Children(w) : c = d

\* A step that makes no child, unless it is marked.
Steady ==
  /\ lax \subseteq lax'
  /\ "again" \notin lax' =>
       /\ \A v \in Wids : /\ Children(v)' \subseteq Children(v)
                          /\ Lives(v) => Lives(v)'
                          /\ job'[v] = "new" => job[v] = "new" \/ Lives(v)'
                          /\ clar'[v].open \/ clar'[v] = NoQuestion => clar[v].open \/ clar[v] = NoQuestion
       /\ \A r \in Requests : \A c \in Wids : Expecting(r)' /\ req'[r].child = c =>
            Lives(c)' \/ (Expecting(r) /\ req[r].child = c)

LEMMA SteadyOnce == ASSUME Course, Once, Steady PROVE Once'
<1> SUFFICES ASSUME "again" \notin lax' PROVE Once'
  BY DEF Once
<1>1. "again" \notin lax
  BY DEF Steady
<1>2. \A r \in Requests : \A c \in Wids : Expecting(r)' /\ req'[r].child = c => Lives(c)'
  BY <1>1 DEF Once, Steady
<1>3. \A w \in Wids : job'[w] = "new" => Lives(w)'
  BY <1>1 DEF Once, Steady
<1>4. \A w \in Wids : clar'[w].open \/ clar'[w] = NoQuestion => Children(w)' = {}
  BY <1>1 DEF Once, Steady
<1>5. \A w \in Wids : \A c, d \in Children(w)' : c = d
  BY <1>1 DEF Once, Steady
<1>6. QED
  BY <1>2, <1>3, <1>4, <1>5 DEF Once

\* A row where none was, which is nobody's child.
LEMMA NewRow ==
  ASSUME ConversationAssumptions, Course, made' = made + 1,
         NEW s \in Rows, s.status # "absent", s.parent = None \/ s.chat,
         row' = [row EXCEPT ![made'] = s]
  PROVE  \A v \in Wids : Children(v)' \subseteq Children(v) /\ (Lives(v) => Lives(v)')
<1>1. \A c \in Wids : c # made' => row'[c] = row[c]
  BY DEF Course, Types
<1>2. made' \in Wids => row'[made'] = s
  BY DEF Course, Types
<1>3. None \notin Wids
  BY Numbers
<1>4. QED
  BY <1>1, <1>2, <1>3 DEF Children, Lives

LEMMA SameRows ==
  ASSUME row' = row
  PROVE  \A v \in Wids : Children(v)' \subseteq Children(v) /\ (Lives(v) => Lives(v)')
  BY DEF Children, Lives

LEMMA CalmSteady == ASSUME Course, CalmStep PROVE Steady
<1>1. \A v \in Wids : /\ Children(v)' \subseteq Children(v)
                      /\ Lives(v) => Lives(v)'
                      /\ job'[v] = "new" => job[v] = "new"
  BY DEF CalmStep, SameShape, Children, Lives
<1>2. \A r \in Requests : Expecting(r)' => Expecting(r) /\ req'[r].child = req[r].child
  BY DEF CalmStep, Rests, Expecting
<1>3. QED
  BY <1>1, <1>2 DEF Steady, CalmStep

LEMMA TalksSteady ==
  ASSUME ConversationAssumptions, Course, NEW r \in Requests, NEW p \in Wids \cup {None}, TalksOnly(r, p)
  PROVE  Steady
<1>1. \A v \in Wids : Children(v)' \subseteq Children(v) /\ (Lives(v) => Lives(v)')
  BY SameRows, NewRow, Shells DEF TalksOnly
<1>2. \A s \in Requests : Expecting(s)' => Expecting(s) /\ req'[s] = req[s]
  BY Moved DEF TalksOnly, Course, Stages, Expecting
<1>3. job' = job /\ clar' = clar /\ lax \subseteq lax'
  BY DEF TalksOnly, Marked
<1>4. QED
  BY <1>1, <1>2, <1>3 DEF Steady

LEMMA RequestsSteady ==
  ASSUME ConversationAssumptions, Course, Once, NEW r \in Requests,
         \/ CreatesShell(r) \/ Launches(r) \/ TellsRest(r) \/ SavesRest(r) \/ ClaimsInMemory(r)
         \/ Understands(r) \/ AnswersAside(r) \/ (\E w \in Wids : ReadsQuestion(r, w))
  PROVE  Steady
<1> USE DEF Course
<1>0. req \in [Requests -> Held] /\ req[r] \in Held /\ made \in Nat
  BY DEF Types
<1>1. CASE CreatesShell(r)
  <2>1. job' = job /\ clar' = clar /\ lax' = lax
    BY <1>1 DEF CreatesShell
  <2>2. CASE row' = row /\ Moves(r, "done")
    BY <2>1, <2>2, SameRows, Moved DEF Steady, Expecting, Stages
  <2>3. CASE made' = made + 1 /\ row' = [row EXCEPT ![made'] = Shell(None)]
             /\ req' = [req EXCEPT ![r].at = "launch", ![r].child = made']
    <3>1. \A v \in Wids : Children(v)' \subseteq Children(v) /\ (Lives(v) => Lives(v)')
      BY <2>3, NewRow, Shells
    <3>2. req'[r].child = made' /\ \A s \in Requests \ {r} : req'[s] = req[s]
      BY <1>0, <2>3 DEF Held
    <3>3. \A c \in Wids : c = made' => Lives(c)'
      BY <2>3, Shells DEF Types, Lives
    <3>4. QED
      BY <2>1, <3>1, <3>2, <3>3 DEF Steady, Expecting
  <2>4. QED
    BY <1>1, <2>2, <2>3 DEF CreatesShell
<1>2. CASE Launches(r)
  <2>0. Types'
    BY <1>2, TypesRequest DEF Steps
  <2>1. /\ req[r].at = "launch" /\ row' = row /\ clar' = clar /\ lax' = lax
        /\ \A s \in Requests \ {r} : req'[s] = req[s]
        /\ req'[r].at = "done" /\ \A v \in Wids : v # req[r].child => job'[v] = job[v]
    BY <1>2, <2>0, Launched DEF Launches
  <2>2. "again" \notin lax => \A v \in Wids : v = req[r].child => Lives(v)'
    BY <2>1 DEF Once, Expecting, Lives
  <2>3. QED
    BY <2>1, <2>2, SameRows DEF Steady, Expecting
<1>3. CASE TellsRest(r) \/ SavesRest(r) \/ AnswersAside(r)
  <2>1. \A s \in Requests : Expecting(s)' => Expecting(s) /\ req'[s] = req[s]
    BY <1>3, Moved DEF TellsRest, SavesRest, AnswersAside, Expecting, Stages
  <2>2. row' = row /\ job' = job /\ lax \subseteq lax'
    BY <1>3 DEF TellsRest, SavesRest, AnswersAside, Marked
  <2>3. CASE SavesRest(r)
    <3>1. PICK w : w = req[r].w
      OBVIOUS
    <3>2. \A v \in Wids \ {w} : clar'[v] = clar[v]
      BY <2>3, <3>1 DEF SavesRest, Types
    <3>3. clar' = clar \/ clar[w].open \/ "again" \in lax'
      BY <2>3, <3>1 DEF SavesRest
    <3>4. QED
      BY <2>1, <2>2, <3>2, <3>3, SameRows DEF Steady
  <2>4. CASE clar' = clar
    BY <2>1, <2>2, <2>4, SameRows DEF Steady
  <2>5. QED
    BY <1>3, <2>3, <2>4 DEF TellsRest, AnswersAside
<1>4. CASE ClaimsInMemory(r)
  <2>1. row' = row /\ job' = job /\ clar' = clar /\ lax \subseteq lax'
    BY <1>4 DEF ClaimsInMemory, Marked
  <2>2. CASE Moves(r, "done")
    BY <2>1, <2>2, SameRows, Moved DEF Steady, Expecting, Stages
  <2>3. CASE Marked("again")
    BY <2>1, <2>3 DEF Steady, Marked
  <2>4. QED
    BY <1>4, <2>2, <2>3 DEF ClaimsInMemory
<1>5. CASE Understands(r) \/ (\E w \in Wids : ReadsQuestion(r, w))
  <2>1. row' = row /\ job' = job /\ clar' = clar /\ lax \subseteq lax'
    BY <1>5 DEF Understands, Understood, ReadsQuestion
  <2>2. \A s \in Requests : Expecting(s)' => Expecting(s) /\ req'[s] = req[s]
    <3>1. \A s \in Requests \ {r} : req'[s] = req[s]
      BY <1>0, <1>5 DEF Understands, Understood, ReadsQuestion
    <3>2. CASE Understands(r)
      <4>1. PICK said : Understood(r, said)
        BY <3>2 DEF Understands
      <4>2. req'[r].at \in {"claim", "save"}
        BY <1>0, <4>1 DEF Understood, Held
      <4>3. QED
        BY <3>1, <4>2 DEF Expecting
    <3>3. CASE \E w \in Wids : ReadsQuestion(r, w)
      <4>1. PICK w \in Wids : ReadsQuestion(r, w)
        BY <3>3
      <4>2. req'[r].at \in {"read", "done"}
        BY <1>0, <4>1, Constants DEF ReadsQuestion, Held
      <4>3. QED
        BY <3>1, <4>2 DEF Expecting
    <3>4. QED
      BY <1>5, <3>2, <3>3
  <2>3. QED
    BY <2>1, <2>2, SameRows DEF Steady
<1>6. QED
  BY <1>1, <1>2, <1>3, <1>4, <1>5

LEMMA JobsSteady ==
  ASSUME ConversationAssumptions, Course, Once, NEW w \in Wids,
         \/ EnsuresShell(w) \/ Plans(w)
         \/ (\E missing \in Questions : KeepsQuestion(w, missing)) \/ PinsQuestion(w)
  PROVE  Steady
<1>1. CASE EnsuresShell(w)
  <2>1. /\ JobStep(w) /\ job[w] = "new" /\ job'[w] = "plan" /\ lax' = lax
        /\ row' = row \/ ~Lives(w)
    BY <1>1, EnsureJob DEF EnsuresShell
  <2>2. "again" \notin lax => row' = row
    BY <2>1 DEF Once
  <2>3. QED
    BY <2>1, <2>2, SameRows DEF JobStep, Steady, Expecting
<1>2. CASE Plans(w)
  <2>1. /\ JobStep(w) /\ job'[w] \in {"asks", "talk", "error", "keep"} /\ lax' = lax
        /\ row'[w].parent = row[w].parent /\ row'[w].chat = row[w].chat
        /\ Lives(w)' <=> Lives(w)
    BY <1>2, PlanJob DEF Plans
  <2>2. \A v \in Wids : Children(v)' \subseteq Children(v) /\ (Lives(v) => Lives(v)')
    BY <2>1 DEF JobStep, Children, Lives
  <2>3. QED
    BY <2>1, <2>2 DEF JobStep, Steady, Expecting
<1>3. CASE (\E missing \in Questions : KeepsQuestion(w, missing)) \/ PinsQuestion(w)
  <2>1. row' = row /\ req' = req /\ lax \subseteq lax'
    BY <1>3 DEF KeepsQuestion, PinsQuestion, Marked
  <2>2. \A v \in Wids : job'[v] = "new" => job[v] = "new"
    BY <1>3 DEF KeepsQuestion, PinsQuestion, Course, Types
  <2>3. \A v \in Wids : clar'[v] = clar[v] \/ clar[v] = NoQuestion \/ "again" \in lax'
    BY <1>3 DEF KeepsQuestion, PinsQuestion, Course, Types
  <2>4. QED
    BY <2>1, <2>2, <2>3, SameRows DEF Steady, Expecting
<1>4. QED
  BY <1>1, <1>2, <1>3

\* The row hands the matter over: it was open, so there was no child; it is closed.
LEMMA ClaimsOnce ==
  ASSUME ConversationAssumptions, Course, Once, NEW r \in Requests, Claims(r)
  PROVE  Once'
<1>1. req[r].at = "claim" /\ made' = made + 1 /\ req' = [req EXCEPT ![r].at = "archive", ![r].child = made']
  BY DEF Claims
<1>2. PICK w \in Wids : w = req[r].w
  BY <1>1, AboutOne
<1>3. Settled(w) /\ made \in Nat /\ req[r] \in Held
  BY <1>1, <1>2, AboutOne DEF Course, Types
<1>4. w # made' /\ None \notin Wids
  BY <1>1, <1>3, Numbers DEF Settled, Begun
<1>5. /\ clar[w].open /\ clar' = [clar EXCEPT ![w].open = FALSE]
      /\ row' = [row EXCEPT ![made'] = Shell(w), ![w].archived = TRUE]
      /\ job' = job /\ lax' = lax
  BY <1>2 DEF Claims, Consumes
<1> SUFFICES ASSUME "again" \notin lax' PROVE Once'
  BY DEF Once
<1>6. \A v \in Wids : v # made' => /\ row'[v].parent = row[v].parent /\ row'[v].chat = row[v].chat
                                   /\ row'[v].status = row[v].status
  <2>1. row[w] \in Rows /\ row'[w] = [row[w] EXCEPT !.archived = TRUE]
    BY <1>4, <1>5 DEF Course, Types
  <2>2. \A v \in Wids : v # made' /\ v # w => row'[v] = row[v]
    BY <1>5 DEF Course, Types
  <2>3. QED
    BY <2>1, <2>2 DEF Rows
<1>7. made' \in Wids => row'[made'] = Shell(w)
  BY <1>4, <1>5 DEF Course, Types
<1>8. \A c \in Wids : c = made' => row'[c].parent = w /\ Lives(c)'
  BY <1>7, Shells DEF Lives
<1>9. \A v \in Wids : Lives(v) => Lives(v)'
  BY <1>6, <1>8 DEF Lives
<1>10. \A v \in Wids \ {w} : Children(v)' \subseteq Children(v)
  BY <1>6, <1>8 DEF Children
<1>11. Children(w) = {} /\ Children(w)' \subseteq {made'}
  <2>1. Children(w) = {}
    BY <1>5 DEF Once
  <2>2. QED
    BY <1>6, <2>1 DEF Children
<1>12. ~clar'[w].open /\ clar'[w] # NoQuestion /\ \A v \in Wids \ {w} : clar'[v] = clar[v]
  <2>1. clar[w] \in Pinned /\ clar[w].missing # {}
    BY <1>5 DEF Course, Types, Asking
  <2>2. clar'[w] = [clar[w] EXCEPT !.open = FALSE] /\ \A v \in Wids \ {w} : clar'[v] = clar[v]
    BY <1>5 DEF Course, Types
  <2>3. QED
    BY <2>1, <2>2, Constants DEF Pinned
<1>13. \A s \in Requests : \A c \in Wids : Expecting(s)' /\ req'[s].child = c => Lives(c)'
  <2>1. req'[r].child = made' /\ \A s \in Requests \ {r} : req'[s] = req[s]
    BY <1>1, <1>3 DEF Held, Course, Types
  <2>2. ASSUME NEW s \in Requests, NEW c \in Wids, Expecting(s)', req'[s].child = c PROVE Lives(c)'
    <3>1. CASE s = r
      BY <1>8, <2>1, <2>2, <3>1
    <3>2. CASE s # r
      <4>1. Expecting(s) /\ req[s].child = c
        BY <2>1, <2>2, <3>2 DEF Expecting
      <4>2. QED
        BY <1>5, <1>9, <4>1 DEF Once
    <3>3. QED
      BY <3>1, <3>2
  <2>3. QED
    BY <2>2
<1>14. \A v \in Wids : job'[v] = "new" => Lives(v)'
  BY <1>5, <1>9 DEF Once
<1>15. \A v \in Wids : clar'[v].open \/ clar'[v] = NoQuestion => Children(v)' = {}
  BY <1>5, <1>10, <1>12 DEF Once
<1>16. \A v \in Wids : \A c, d \in Children(v)' : c = d
  BY <1>5, <1>10, <1>11 DEF Once
<1>17. QED
  BY <1>13, <1>14, <1>15, <1>16 DEF Once

LEMMA OnceInit == ASSUME ConversationAssumptions, Init PROVE Once
<1>1. \A w \in Wids : row[w] = NoRow /\ job[w] = "none" /\ NoRow.parent = None
  BY Constants DEF Init
<1>2. \A r \in Requests : ~Expecting(r)
  BY Constants DEF Init, Expecting
<1>3. \A w \in Wids : Children(w) = {}
  BY <1>1, Numbers DEF Children
<1>4. QED
  BY <1>1, <1>2, <1>3 DEF Once

LEMMA OnceStep ==
  ASSUME ConversationAssumptions, Course, Once, [Next]_vars
  PROVE  Once'
<1>1. CASE \E r \in Requests : Chats(r) \/ TalksAside(r)
  <2>1. PICK r \in Requests : Chats(r) \/ TalksAside(r)
    BY <1>1
  <2>2. \E p \in Wids \cup {None} : TalksOnly(r, p)
    BY <2>1, AboutOne DEF Chats, TalksAside
  <2>3. QED
    BY <2>2, TalksSteady, SteadyOnce
<1>2. CASE \E r \in Requests :
             CreatesShell(r) \/ Launches(r) \/ TellsRest(r) \/ SavesRest(r)
             \/ ClaimsInMemory(r) \/ Understands(r) \/ AnswersAside(r) \/ (\E w \in Wids : ReadsQuestion(r, w))
  BY <1>2, RequestsSteady, SteadyOnce
<1>3. CASE \E w \in Wids : EnsuresShell(w) \/ Plans(w)
                           \/ (\E missing \in Questions : KeepsQuestion(w, missing)) \/ PinsQuestion(w)
  BY <1>3, JobsSteady, SteadyOnce
<1>4. CASE \E r \in Requests : Claims(r)
  BY <1>4, ClaimsOnce
<1>5. CASE \/ \E r \in Requests : \/ \E w \in Wids : Amends(r, w)
                                  \/ CountsQuota(r) \/ ArchivesParent(r)
           \/ \E w \in Wids : KeepsResponse(w) \/ MarksAnswered(w) \/ FinishesChat(w) \/ MarksFailed(w)
                             \/ SweepsZombie(w) \/ Deletes(w)
           \/ ArchivesSuperseded \/ Trims \/ Crash \/ UNCHANGED vars
  BY <1>5, CalmSteps, CalmSteady, SteadyOnce
<1>6. QED
  BY <1>1, <1>2, <1>3, <1>4, <1>5 DEF Next, Steps, Message, Answer, Runs

\* However many answers come for one question, and whatever restarts come between, the row
\* hands the matter over once (routes.py, consume_clarification_and_create_child).
THEOREM AnsweredOnce == ASSUME ConversationAssumptions PROVE ConversationSpec => []OneChildPerAnswer
<1>1. Once => OneChildPerAnswer
  <2>1. ASSUME NEW w \in Wids, \A c, d \in Children(w) : c = d PROVE Cardinality(Children(w)) <= 1
    <3>1. CASE Children(w) = {}
      BY <3>1, FS_EmptySet
    <3>2. CASE Children(w) # {}
      <4>1. PICK c : Children(w) = {c}
        BY <2>1, <3>2
      <4>2. Cardinality({c}) = 1
        BY FS_Singleton
      <4>3. QED
        BY <4>1, <4>2
    <3>3. QED
      BY <3>1, <3>2
  <2>2. QED
    BY <2>1 DEF Once, OneChildPerAnswer
<1>2. ConversationSpec => [](Course /\ Once)
  <2>1. Init => Course /\ Once
    BY CourseInit, OnceInit
  <2>2. Course /\ Once /\ [Next]_vars => Course' /\ Once'
    BY CourseStep, OnceStep
  <2>3. QED
    BY <2>1, <2>2, PTL DEF ConversationSpec
<1>3. QED
  BY <1>1, <1>2, PTL

-------------------------------------------------------------------------------
(* What was taken reaches the plan. *)

\* The fields a question is about: those it knows and those it asks for.
Scope(q) == (q.known \cup q.missing) \cap Fields
\* Nobody else answers the question meanwhile, and what is kept of it stands.
Alone ==
  /\ \A r \in Requests : \A v \in Wids : At(r, v) => r \in Replies
  /\ \A r, s \in Requests : \A v \in Wids : At(r, v) /\ At(s, v) => r = s
  /\ \A r \in Requests : \A v \in Wids : At(r, v) /\ mem[v].kind = "asks" => mem[v].known = req[r].known
\* Wherever the question of w is kept, it is about the same fields U[w]: answers only move them
\* from those it asks to those it knows.  A child takes up what its parent's question is about.
Agreed(U) ==
  /\ \A w \in Wids :
       /\ clar[w] # NoQuestion => Scope(clar[w]) = U[w]
       /\ mem[w].kind = "asks" => Scope(mem[w]) = U[w]
       /\ job[w] = "pin" => (mem[w].known \cup mem[w].asked) \cap Fields = U[w]
       /\ \A p \in Wids : Young(w) /\ mem[w].parent = p => mem[w].known = U[p]
       /\ \A f \in Fields : <<w, f>> \in told => f \in U[w]
       /\ \A p \in Wids : row[w].parent = p => U[p] \subseteq U[w]
       /\ ~Begun(w) \/ Young(w) => U[w] = Fields
  /\ \A r \in Requests : \A v \in Wids : At(r, v) => Scope(req[r]) = U[v]
Carried == "lost" \notin lax => Alone /\ \E U \in [Wids -> SUBSET Fields] : Agreed(U)

Carries(U) ==
  /\ \A v \in Wids : clar'[v] # NoQuestion => clar'[v] = clar[v] \/ Scope(clar'[v]) = U[v]
  /\ \A v \in Wids : mem'[v].kind = "asks" => mem'[v] = mem[v] \/ Scope(mem'[v]) = U[v]
  /\ \A v \in Wids : job'[v] = "pin" =>
       \/ job[v] = "pin" /\ mem'[v].known = mem[v].known /\ mem'[v].asked = mem[v].asked
       \/ (mem'[v].known \cup mem'[v].asked) \cap Fields = U[v]
  /\ \A v \in Wids : Young(v)' =>
       \/ Young(v) /\ mem'[v].known = mem[v].known /\ mem'[v].parent = mem[v].parent
       \/ ~Begun(v) /\ \A p \in Wids : mem'[v].parent = p => mem'[v].known = U[p]
  /\ \A v \in Wids : \A f \in Fields : <<v, f>> \in told' => <<v, f>> \in told \/ f \in U[v]
  /\ \A v \in Wids : row'[v].parent = row[v].parent \/ ~Begun(v) \/ Young(v)
  /\ \A v \in Wids : Begun(v) => Begun(v)'
  /\ \A r \in Requests : \A v \in Wids :
       At(r, v)' => At(r, v) /\ req'[r].known = req[r].known /\ req'[r].missing = req[r].missing
  /\ \A r \in Requests : \A v \in Wids :
       At(r, v)' /\ mem'[v].kind = "asks" => mem[v].kind = "asks" /\ mem'[v].known = mem[v].known

LEMMA CarriesAll ==
  ASSUME Alone, NEW U \in [Wids -> SUBSET Fields], Agreed(U), Carries(U)
  PROVE  Alone' /\ Agreed(U)'
<1>1. Alone'
  BY DEF Alone, Carries
<1>2. ASSUME NEW v \in Wids
      PROVE  /\ clar'[v] # NoQuestion => Scope(clar'[v]) = U[v]
             /\ mem'[v].kind = "asks" => Scope(mem'[v]) = U[v]
             /\ job'[v] = "pin" => (mem'[v].known \cup mem'[v].asked) \cap Fields = U[v]
             /\ \A p \in Wids : Young(v)' /\ mem'[v].parent = p => mem'[v].known = U[p]
             /\ \A f \in Fields : <<v, f>> \in told' => f \in U[v]
  <2>1. clar'[v] # NoQuestion => Scope(clar'[v]) = U[v]
    BY DEF Agreed, Carries
  <2>2. mem'[v].kind = "asks" => Scope(mem'[v]) = U[v]
    BY DEF Agreed, Carries
  <2>3. job'[v] = "pin" => (mem'[v].known \cup mem'[v].asked) \cap Fields = U[v]
    BY DEF Agreed, Carries
  <2>4. \A p \in Wids : Young(v)' /\ mem'[v].parent = p => mem'[v].known = U[p]
    BY DEF Agreed, Carries
  <2>5. \A f \in Fields : <<v, f>> \in told' => f \in U[v]
    BY DEF Agreed, Carries
  <2>6. QED
    BY <2>1, <2>2, <2>3, <2>4, <2>5
<1>3. ASSUME NEW v \in Wids, NEW p \in Wids, row'[v].parent = p PROVE U[p] \subseteq U[v]
  BY <1>3 DEF Agreed, Carries
<1>4. ASSUME NEW v \in Wids, ~Begun(v)' \/ Young(v)' PROVE U[v] = Fields
  BY <1>4 DEF Agreed, Carries
<1>5. ASSUME NEW r \in Requests, NEW v \in Wids, At(r, v)' PROVE Scope(req'[r]) = U[v]
  BY <1>5 DEF Agreed, Carries, Scope
<1>6. Agreed(U)'
  BY <1>2, <1>3, <1>4, <1>5 DEF Agreed
<1>7. QED
  BY <1>1, <1>6

LEMMA CalmCarries == ASSUME Course, CalmStep, NEW U PROVE Carries(U)
<1>1. \A v \in Wids : Begun(v) => Begun(v)'
  BY CalmBegun
<1>2. \A v \in Wids : row'[v].parent = row[v].parent /\ clar'[v] = clar[v] /\ told' = told
  BY DEF CalmStep, SameShape
<1>3. \A v \in Wids : Young(v)' => Young(v) /\ mem'[v] = mem[v]
  BY DEF CalmStep, Young, Forgets
<1>4. \A v \in Wids : job'[v] = "pin" => job[v] = "pin" /\ mem'[v] = mem[v]
  BY DEF CalmStep, Forgets
<1>5. \A v \in Wids : mem'[v].kind = "asks" => mem'[v] = mem[v]
  BY DEF CalmStep, Forgets
<1>6. ASSUME NEW r \in Requests, NEW v \in Wids, At(r, v)'
      PROVE  At(r, v) /\ req'[r].known = req[r].known /\ req'[r].missing = req[r].missing
  BY <1>6, v # None DEF CalmStep, Rests, At, Live, Wids, None
<1>7. QED
  BY <1>1, <1>2, <1>3, <1>4, <1>5, <1>6 DEF Carries

LEMMA BirthBegun ==
  ASSUME Course, NEW r \in Requests, made' = made + 1, \A s \in Requests \ {r} : req'[s] = req[s],
         ~Expecting(r)' \/ req'[r].child = made'
  PROVE  /\ \A v \in Wids : Begun(v) => Begun(v)' /\ v # made'
         /\ made' \notin 1..made
<1>1. made \in Nat
  BY DEF Course, Types
<1>2. \A v \in Wids : Begun(v) => v # made' /\ v \in 1..made'
  BY <1>1 DEF Begun
<1>3. \A s \in Requests : Expecting(s)' => (Expecting(s) /\ req'[s].child = req[s].child) \/ req'[s].child = made'
  BY DEF Expecting
<1>4. QED
  BY <1>1, <1>2, <1>3 DEF Begun

LEMMA TalksCarries ==
  ASSUME ConversationAssumptions, Course, NEW r \in Requests, NEW p \in Wids \cup {None}, TalksOnly(r, p), NEW U
  PROVE  Carries(U)
<1>1. /\ \A s \in Requests \ {r} : req'[s] = req[s]
      /\ req'[r].at = "done" /\ made' = made + 1
  BY Moved DEF TalksOnly, Course, Stages
<1>2. (\A v \in Wids : Begun(v) => Begun(v)' /\ v # made') /\ made' \notin 1..made
  BY <1>1, BirthBegun DEF Expecting
<1>3. mem' = [mem EXCEPT ![made'] = [NoMemory EXCEPT !.kind = "chat"]]
      /\ clar' = clar /\ job' = job /\ told' = told
  BY DEF TalksOnly
<1>4. \A v \in Wids : v # made' => mem'[v] = mem[v] /\ row'[v] = row[v]
  BY DEF TalksOnly, Course, Types
<1>5. \A v \in Wids : v = made' => ~Begun(v) /\ job[v] = "none" /\ mem'[v].kind = "chat"
  BY <1>2, <1>3 DEF Begun, Course, Births, Types, NoMemory
<1>6. \A s \in Requests : \A v \in Wids : At(s, v)' => At(s, v) /\ req'[s] = req[s]
  BY <1>1 DEF At, Live
<1>7. QED
  BY <1>2, <1>3, <1>4, <1>5, <1>6 DEF Carries, Young

LEMMA BirthsCarry ==
  ASSUME ConversationAssumptions, Course, NEW r \in Requests, NEW U, Agreed(U),
         CreatesShell(r) \/ Claims(r) \/ ClaimsInMemory(r)
  PROVE  Carries(U)
<1> USE DEF Course
<1>0. req \in [Requests -> Held] /\ req[r] \in Held /\ made \in Nat
  BY DEF Types
<1>1. CASE CreatesShell(r)
  <2>1. mem' = mem /\ job' = job /\ clar' = clar /\ told' = told
    BY <1>1 DEF CreatesShell
  <2>2. CASE row' = row /\ made' = made /\ Moves(r, "done")
    <3>1. (\A s \in Requests \ {r} : req'[s] = req[s]) /\ req'[r].at = "done"
      BY <2>2, Moved DEF Stages
    <3>2. QED
      BY <2>1, <2>2, <3>1 DEF Carries, At, Live, Begun, Expecting, Young
  <2>3. CASE made' = made + 1 /\ row' = [row EXCEPT ![made'] = Shell(None)]
             /\ req' = [req EXCEPT ![r].at = "launch", ![r].child = made']
    <3>1. /\ req'[r].child = made' /\ req'[r].at = "launch" /\ req'[r].w = req[r].w
          /\ req'[r].known = req[r].known /\ req'[r].missing = req[r].missing
          /\ \A s \in Requests \ {r} : req'[s] = req[s]
      BY <1>0, <2>3 DEF Held
    <3>2. (\A v \in Wids : Begun(v) => Begun(v)' /\ v # made') /\ made' \notin 1..made
      BY <2>3, <3>1, BirthBegun
    <3>3. \A v \in Wids : v # made' => row'[v] = row[v]
      BY <2>3 DEF Types
    <3>4. \A s \in Requests : \A v \in Wids :
            At(s, v)' => At(s, v) /\ req'[s].known = req[s].known /\ req'[s].missing = req[s].missing
      BY <1>1, <3>1 DEF At, Live, CreatesShell
    <3>5. QED
      BY <2>1, <3>2, <3>3, <3>4 DEF Carries, Young
  <2>4. QED
    BY <1>1, <2>2, <2>3 DEF CreatesShell
<1>2. ASSUME req[r].at = "claim", made' = made + 1, req' = [req EXCEPT ![r].at = "archive", ![r].child = made']
      PROVE  /\ \A v \in Wids : Begun(v) => Begun(v)' /\ v # made'
             /\ \A s \in Requests : \A v \in Wids :
                  At(s, v)' => At(s, v) /\ req'[s].known = req[s].known /\ req'[s].missing = req[s].missing
  <2>1. /\ req'[r].child = made' /\ req'[r].at = "archive" /\ req'[r].w = req[r].w
        /\ req'[r].known = req[r].known /\ req'[r].missing = req[r].missing
        /\ \A s \in Requests \ {r} : req'[s] = req[s]
    BY <1>0, <1>2 DEF Held
  <2>2. QED
    BY <1>2, <2>1, BirthBegun DEF At, Live
<1>3. CASE Claims(r)
  <2>1. /\ \A v \in Wids : Begun(v) => Begun(v)' /\ v # made'
        /\ \A s \in Requests : \A v \in Wids :
             At(s, v)' => At(s, v) /\ req'[s].known = req[s].known /\ req'[s].missing = req[s].missing
    BY <1>2, <1>3 DEF Claims
  <2>2. PICK w \in Wids : w = req[r].w
    BY <1>3, AboutOne DEF Claims
  <2>3. /\ clar[w].open /\ clar' = [clar EXCEPT ![w].open = FALSE]
        /\ row' = [row EXCEPT ![made'] = Shell(w), ![w].archived = TRUE]
        /\ mem' = mem /\ job' = job /\ told' = told
    BY <1>3, <2>2 DEF Claims, Consumes
  <2>4. \A v \in Wids : v # made' => row'[v].parent = row[v].parent
    <3>1. \A v \in Wids : row[v] \in Rows
      BY DEF Types
    <3>2. Settled(w) /\ w # made'
      BY <1>3, <2>1, <2>2, AboutOne DEF Claims, Settled
    <3>3. row'[w] = [row[w] EXCEPT !.archived = TRUE]
      BY <2>3, <3>2 DEF Types
    <3>4. \A v \in Wids : v # made' /\ v # w => row'[v] = row[v]
      BY <2>3 DEF Types
    <3>5. QED
      BY <3>1, <3>3, <3>4 DEF Rows
  <2>5. \A v \in Wids : clar'[v] # NoQuestion => clar'[v] = clar[v] \/ Scope(clar'[v]) = U[v]
    <3>1. clar'[w] = [clar[w] EXCEPT !.open = FALSE] /\ \A v \in Wids \ {w} : clar'[v] = clar[v]
      BY <2>3 DEF Types
    <3>2. clar[w] \in Pinned /\ clar[w] # NoQuestion
      BY <2>3, Constants DEF Types
    <3>3. clar'[w].known = clar[w].known /\ clar'[w].missing = clar[w].missing
      BY <3>1, <3>2 DEF Pinned
    <3>4. Scope(clar'[w]) = U[w]
      BY <3>2, <3>3 DEF Agreed, Scope
    <3>5. QED
      BY <3>1, <3>4
  <2>6. QED
    BY <2>1, <2>3, <2>4, <2>5 DEF Carries, Young
<1>4. CASE ClaimsInMemory(r)
  <2>1. row' = row /\ job' = job /\ clar' = clar /\ told' = told
    BY <1>4 DEF ClaimsInMemory
  <2>2. CASE mem' = mem /\ made' = made /\ Moves(r, "done")
    <3>1. (\A s \in Requests \ {r} : req'[s] = req[s]) /\ req'[r].at = "done"
      BY <2>2, Moved DEF Stages
    <3>2. QED
      BY <2>1, <2>2, <3>1 DEF Carries, At, Live, Begun, Expecting, Young
  <2>3. CASE /\ made' = made + 1
             /\ mem' = [mem EXCEPT ![req[r].w].claimed = TRUE]
             /\ req' = [req EXCEPT ![r].at = "archive", ![r].child = made']
    <3>1. PICK w \in Wids : w = req[r].w
      BY <1>4, AboutOne DEF ClaimsInMemory
    <3>2. mem[w] \in Memories /\ mem'[w] = [mem[w] EXCEPT !.claimed = TRUE]
          /\ \A v \in Wids \ {w} : mem'[v] = mem[v]
      BY <2>3, <3>1 DEF Types
    <3>3. \A v \in Wids : /\ mem'[v].kind = mem[v].kind /\ mem'[v].known = mem[v].known
                          /\ mem'[v].missing = mem[v].missing /\ mem'[v].asked = mem[v].asked
                          /\ mem'[v].parent = mem[v].parent
      BY <3>2 DEF Memories
    <3>4. \A v \in Wids : mem'[v].kind = "asks" => Scope(mem'[v]) = U[v]
      BY <3>3 DEF Agreed, Scope
    <3>5. /\ \A v \in Wids : Begun(v) => Begun(v)'
          /\ \A s \in Requests : \A v \in Wids :
               At(s, v)' => At(s, v) /\ req'[s].known = req[s].known /\ req'[s].missing = req[s].missing
      BY <1>2, <1>4, <2>3 DEF ClaimsInMemory
    <3>6. QED
      BY <2>1, <3>3, <3>4, <3>5 DEF Carries, Young
  <2>4. QED
    BY <1>4, <2>2, <2>3 DEF ClaimsInMemory
<1>5. QED
  BY <1>1, <1>3, <1>4

LEMMA LaunchesCarry ==
  ASSUME ConversationAssumptions, Course, NEW r \in Requests, NEW U \in [Wids -> SUBSET Fields], Agreed(U),
         Launches(r), Types'
  PROVE  Carries(U)
<1>0. PICK c \in Nat, w \in Wids \cup {None} : c = req[r].child /\ w = req[r].w
  BY Launched DEF Held
<1>1. /\ req[r] \in Held /\ req[r].at = "launch" /\ Live(r) /\ c \in 1..made
      /\ \A s \in Requests \ {r} : req'[s] = req[s]
      /\ req'[r].at = "done"
      /\ row' = row /\ clar' = clar /\ made' = made
      /\ \A v \in Wids : v # c => job'[v] = job[v] /\ mem'[v] = mem[v]
      /\ c \in Wids => /\ ~Begun(c) /\ ~Touched(c) /\ job'[c] = "new"
                       /\ mem'[c] = Busy(w, req[r].known \cup req[r].answers)
      /\ \A v, f : <<v, f>> \in told' => <<v, f>> \in told \/ (v = w /\ f \in req[r].answers)
  <2>1. req[r] \in Held /\ req[r].at = "launch" /\ Live(r) /\ c \in 1..made
    BY <1>0, Launched
  <2>2. /\ \A s \in Requests \ {r} : req'[s] = req[s]
        /\ req'[r].at = "done"
        /\ row' = row /\ clar' = clar /\ made' = made
        /\ \A v \in Wids : v # c => job'[v] = job[v] /\ mem'[v] = mem[v]
    BY <1>0, Launched
  <2>3. c \in Wids => /\ ~Begun(c) /\ ~Touched(c) /\ job'[c] = "new"
                     /\ mem'[c] = Busy(w, req[r].known \cup req[r].answers)
    BY <1>0, Launched
  <2>4. \A v, f : <<v, f>> \in told' => <<v, f>> \in told \/ (v = w /\ f \in req[r].answers)
    <3>1. told' = told \cup {<<req[r].w, f>> : f \in req[r].answers}
      BY Launched
    <3>2. QED
      BY <1>0, <3>1
  <2>5. QED
    BY <2>1, <2>2, <2>3, <2>4
<1>2. PICK said \in SUBSET Fields : said = req[r].known \cup req[r].answers
  BY <1>1 DEF Held
<1>3. c \in Wids => mem'[c].kind = "busy" /\ mem'[c].parent = w /\ mem'[c].known = said
  <2>1. Busy(w, said).kind = "busy" /\ Busy(w, said).parent = w /\ Busy(w, said).known = said
    BY <1>0, <1>2, Busies
  <2>2. QED
    BY <1>1, <1>2, <2>1
<1>4. \A v \in Wids : Begun(v) => Begun(v)' /\ v # c
  BY <1>0, <1>1 DEF Begun, Expecting
<1>5. w \in Wids => said = U[w] /\ req[r].answers \subseteq U[w]
  <2>1. ASSUME w \in Wids PROVE said = U[w] /\ req[r].answers \subseteq U[w]
    <3>1. Scope(req[r]) = U[w]
      BY <1>0, <1>1, <2>1 DEF Agreed, At
    <3>2. Answering(req[r]) /\ w # None
      BY <1>1, <2>1, Numbers DEF Course, Asking, Working, Live
    <3>3. req[r].missing \cap Fields \subseteq req[r].answers /\ req[r].answers \subseteq req[r].missing \cap Fields
      BY <1>0, <1>1, <3>2 DEF Answering
    <3>4. req[r].known \subseteq Fields
      BY <1>1 DEF Held
    <3>5. QED
      BY <1>2, <3>1, <3>3, <3>4 DEF Scope
  <2>2. QED
    BY <2>1
<1>6. \A v \in Wids : \A f \in Fields : <<v, f>> \in told' => <<v, f>> \in told \/ f \in U[v]
  BY <1>1, <1>5
<1>7. \A v \in Wids : Young(v)' =>
       \/ Young(v) /\ mem'[v].known = mem[v].known /\ mem'[v].parent = mem[v].parent
       \/ ~Begun(v) /\ \A p \in Wids : mem'[v].parent = p => mem'[v].known = U[p]
  <2>1. ASSUME NEW v \in Wids, v = c PROVE ~Begun(v) /\ \A p \in Wids : mem'[v].parent = p => mem'[v].known = U[p]
    BY <1>1, <1>3, <1>5, <2>1
  <2>2. ASSUME NEW v \in Wids, v # c, Young(v)' PROVE Young(v) /\ mem'[v] = mem[v]
    BY <1>1, <2>2 DEF Young
  <2>3. QED
    BY <2>1, <2>2
<1>8. \A v \in Wids : (mem'[v].kind = "asks" => mem'[v] = mem[v]) /\ (job'[v] = "pin" => job[v] = "pin" /\ mem'[v] = mem[v])
  BY <1>1, <1>3
<1>9. \A s \in Requests : \A v \in Wids : At(s, v)' => At(s, v) /\ req'[s] = req[s]
  BY <1>1 DEF At, Live
<1>10. QED
  BY <1>1, <1>4, <1>6, <1>7, <1>8, <1>9 DEF Carries

\* An answer that comes to its end, in part or aside.
LEMMA AnswersCarry ==
  ASSUME ConversationAssumptions, Course, NEW r \in Requests, NEW U \in [Wids -> SUBSET Fields], Agreed(U), Alone,
         TellsRest(r) \/ SavesRest(r) \/ AnswersAside(r) \/ Understands(r), "lost" \notin lax'
  PROVE  Carries(U)
<1> USE DEF Course
<1>0. req[r].at \in {"read", "save", "tell"}
  BY DEF TellsRest, SavesRest, AnswersAside, Understands, Understood
<1>1. PICK w \in Wids : w = req[r].w
  BY <1>0, AboutOne
<1>2. req[r] \in Held /\ At(r, w) /\ Settled(w) /\ Answering(req[r]) /\ Scope(req[r]) = U[w] /\ mem[w] \in Memories
  BY <1>0, <1>1, AboutOne DEF Agreed, Types
<1>3. req[r].answers \subseteq req[r].missing \cap Fields /\ req[r].known \subseteq Fields /\ w # None
  BY <1>1, <1>2, Numbers DEF Answering, Held
<1>4. req[r].answers \subseteq U[w]
  BY <1>2, <1>3 DEF Scope
<1>5. row' = row /\ job' = job /\ made' = made
  BY DEF TellsRest, SavesRest, AnswersAside, Understands, Understood
<1>6. (\A s \in Requests \ {r} : req'[s] = req[s]) /\ (Expecting(r)' => Expecting(r))
  <2>1. CASE TellsRest(r) \/ SavesRest(r) \/ AnswersAside(r)
    BY <2>1, Moved DEF TellsRest, SavesRest, AnswersAside, Stages, Expecting
  <2>2. CASE Understands(r)
    <3>1. PICK said : Understood(r, said)
      BY <2>2 DEF Understands
    <3>2. req'[r].at \in {"claim", "save"} /\ \A s \in Requests \ {r} : req'[s] = req[s]
      BY <1>2, <3>1 DEF Understood, Held, Types
    <3>3. QED
      BY <3>2 DEF Expecting
  <2>3. QED
    BY <2>1, <2>2
<1>7. \A s \in Requests : Expecting(s)' => Expecting(s) /\ req'[s] = req[s]
  BY <1>0, <1>6 DEF Expecting
<1>8. \A v \in Wids : Begun(v) => Begun(v)'
  BY <1>5, <1>7 DEF Begun
<1>9. \A s \in Requests \ {r} : ~At(s, w)'
  BY <1>2, <1>6 DEF Alone, At, Live
<1>10. CASE TellsRest(r)
  <2>1. req'[r].at = "done" /\ clar' = clar /\ told' = told \cup {<<w, f>> : f \in req[r].answers}
    BY <1>1, <1>10, Moved DEF TellsRest, Stages
  <2>2. \A s \in Requests : \A v \in Wids : At(s, v)' => At(s, v) /\ req'[s] = req[s] /\ v # w
    BY <1>6, <1>9, <2>1 DEF At, Live
  <2>3. /\ \A v \in Wids \ {w} : mem'[v] = mem[v]
        /\ mem'[w].kind = mem[w].kind /\ mem'[w].asked = mem[w].asked
        /\ mem[w].kind = "asks" => mem'[w].known = Known(r) /\ mem'[w].missing = Left(r)
    <3>1. CASE mem[w].kind = "none"
      BY <1>1, <1>10, <3>1 DEF TellsRest
    <3>2. CASE mem[w].kind # "none"
      <4>1. mem' = [mem EXCEPT ![w].known = Known(r),
                               ![w].missing = IF mem[w].kind = "asks" THEN Left(r) ELSE @]
        BY <1>1, <1>10, <3>2 DEF TellsRest
      <4>2. QED
        BY <1>2, <4>1 DEF Types, Memories
    <3>3. QED
      BY <3>1, <3>2
  <2>4. mem[w].kind = "asks" => Scope(mem'[w]) = U[w]
    BY <1>2, <1>3, <2>3 DEF Scope, Known, Left
  <2>5. job[w] = "pin" => (mem'[w].known \cup mem'[w].asked) \cap Fields = U[w]
    <3>1. ASSUME job[w] = "pin" PROVE (mem'[w].known \cup mem'[w].asked) \cap Fields = U[w]
      <4>1. mem[w].kind = "asks"
        BY <3>1 DEF Asking
      <4>2. mem[w].known = req[r].known
        BY <1>2, <4>1 DEF Alone
      <4>3. (mem[w].known \cup mem[w].asked) \cap Fields = U[w]
        BY <3>1 DEF Agreed
      <4>4. mem'[w].known = mem[w].known \cup req[r].answers
        BY <2>3, <4>1, <4>2 DEF Known
      <4>5. QED
        BY <1>3, <1>4, <2>3, <4>3, <4>4
    <3>2. QED
      BY <3>1
  <2>6. ~Young(w) /\ ~Young(w)'
    BY <1>2, <1>5 DEF Settled, Young
  <2>7. \A v \in Wids : \A f \in Fields : <<v, f>> \in told' => <<v, f>> \in told \/ f \in U[v]
    BY <1>4, <2>1
  <2>8. \A v \in Wids : Young(v)' => Young(v) /\ mem'[v] = mem[v]
    BY <1>5, <2>3, <2>6 DEF Young
  <2>9. QED
    BY <1>5, <1>8, <2>1, <2>2, <2>3, <2>4, <2>5, <2>7, <2>8 DEF Carries
<1>11. CASE SavesRest(r)
  <2>1. /\ req'[r].w = req[r].w /\ req'[r].missing = req[r].missing /\ req'[r].known = req[r].known
    BY <1>11, Moved DEF SavesRest, Stages
  <2>2. mem' = mem /\ told' = told
    BY <1>11 DEF SavesRest
  <2>3. clar' = [clar EXCEPT ![w] = [open |-> TRUE, missing |-> Left(r), known |-> Known(r)]]
    BY <1>1, <1>11 DEF SavesRest, Marked
  <2>4. clar'[w].missing = Left(r) /\ clar'[w].known = Known(r) /\ \A v \in Wids \ {w} : clar'[v] = clar[v]
    BY <2>3 DEF Types
  <2>5. Scope(clar'[w]) = U[w]
    BY <1>2, <1>3, <2>4 DEF Scope, Known, Left
  <2>6. \A s \in Requests : \A v \in Wids :
          At(s, v)' => At(s, v) /\ req'[s].known = req[s].known /\ req'[s].missing = req[s].missing
    BY <1>2, <1>6, <2>1 DEF At, Live
  <2>7. QED
    BY <1>5, <1>8, <2>2, <2>4, <2>5, <2>6 DEF Carries, Young
<1>12. CASE AnswersAside(r)
  <2>1. req'[r].at = "done" /\ clar' = clar /\ told' = told
    BY <1>12, Moved DEF AnswersAside, Stages
  <2>2. \A s \in Requests : \A v \in Wids : At(s, v)' => At(s, v) /\ req'[s] = req[s] /\ v # w
    BY <1>6, <1>9, <2>1 DEF At, Live
  <2>3. CASE ~req[r].warm
    <3>1. mem' = mem
      BY <1>12, <2>3 DEF AnswersAside
    <3>2. QED
      BY <1>5, <1>8, <2>1, <2>2, <3>1 DEF Carries, Young
  <2>4. CASE req[r].warm
    <3>1. mem[w].kind = "asks" /\ mem[w].known = req[r].known
      BY <1>1, <1>2, <1>3, <2>4 DEF Asking, At, Alone
    <3>2. mem' = [mem EXCEPT ![w].kind = "asks", ![w].missing = req[r].missing]
      BY <1>1, <1>12, <2>4 DEF AnswersAside
    <3>3. /\ mem'[w].kind = "asks" /\ mem'[w].missing = req[r].missing /\ mem'[w].known = mem[w].known
          /\ mem'[w].asked = mem[w].asked /\ mem'[w].parent = mem[w].parent
          /\ \A v \in Wids \ {w} : mem'[v] = mem[v]
      BY <1>2, <3>2 DEF Types, Memories
    <3>4. Scope(mem'[w]) = U[w]
      BY <1>2, <3>1, <3>3 DEF Scope
    <3>5. QED
      BY <1>5, <1>8, <2>1, <2>2, <3>3, <3>4 DEF Carries, Young
  <2>5. QED
    BY <2>3, <2>4
<1>13. CASE Understands(r)
  <2>1. PICK said : Understood(r, said)
    BY <1>13 DEF Understands
  <2>2. req'[r].w = req[r].w /\ req'[r].missing = req[r].missing /\ req'[r].known = req[r].known
    BY <1>2, <2>1 DEF Understood, Held, Types
  <2>3. mem' = mem /\ told' = told /\ clar' = clar
    BY <2>1 DEF Understood
  <2>4. \A s \in Requests : \A v \in Wids :
          At(s, v)' => At(s, v) /\ req'[s].known = req[s].known /\ req'[s].missing = req[s].missing
    BY <1>2, <1>6, <2>2 DEF At, Live
  <2>5. QED
    BY <1>5, <1>8, <2>3, <2>4 DEF Carries, Young
<1>14. QED
  BY <1>10, <1>11, <1>12, <1>13

LEMMA JobsCarry ==
  ASSUME ConversationAssumptions, Course, NEW w \in Wids, NEW U \in [Wids -> SUBSET Fields], Agreed(U),
         EnsuresShell(w) \/ Plans(w) \/ PinsQuestion(w), "lost" \notin lax'
  PROVE  Carries(U)
<1>1. CASE EnsuresShell(w) \/ Plans(w)
  <2>1. JobStep(w)
    BY <1>1, EnsureJob, PlanJob
  <2>2. /\ \A v \in Wids : Begun(v) => Begun(v)'
        /\ \A s \in Requests : \A v \in Wids : At(s, v)' => At(s, v) /\ req'[s] = req[s]
    BY <2>1 DEF JobStep, Begun, Expecting, At, Live
  <2>3. Young(w) /\ \A v \in Wids : Young(v)' => Young(v)
    BY <2>1 DEF JobStep, Young
  <2>4. \A v \in Wids : job'[v] = "pin" => job[v] = "pin"
    BY <2>1 DEF JobStep
  <2>5. QED
    BY <2>1, <2>2, <2>3, <2>4 DEF JobStep, Carries
<1>2. CASE PinsQuestion(w)
  <2>1. job[w] = "pin" /\ job' = [job EXCEPT ![w] = "ended"] /\ mem' = [mem EXCEPT ![w].asked = {}]
        /\ row' = row /\ req' = req /\ made' = made /\ told' = told
    BY <1>2 DEF PinsQuestion
  <2>2. clar' = [clar EXCEPT ![w] = [open |-> TRUE, missing |-> mem[w].asked, known |-> mem[w].known]]
    BY <1>2 DEF PinsQuestion, Marked
  <2>3. job'[w] = "ended" /\ \A v \in Wids \ {w} : job'[v] = job[v] /\ mem'[v] = mem[v] /\ clar'[v] = clar[v]
    BY <2>1, <2>2 DEF Course, Types
  <2>4. /\ mem'[w].kind = mem[w].kind /\ mem'[w].known = mem[w].known /\ mem'[w].missing = mem[w].missing
        /\ mem'[w].parent = mem[w].parent
    BY <2>1 DEF Course, Types, Memories
  <2>5. Scope(clar'[w]) = U[w]
    <3>1. (mem[w].known \cup mem[w].asked) \cap Fields = U[w]
      BY <2>1 DEF Agreed
    <3>2. clar'[w].known = mem[w].known /\ clar'[w].missing = mem[w].asked
      BY <2>2 DEF Course, Types
    <3>3. QED
      BY <3>1, <3>2 DEF Scope
  <2>6. mem'[w].kind = "asks" => Scope(mem'[w]) = U[w]
    BY <2>4 DEF Agreed, Scope
  <2>7. \A v \in Wids : Young(v)' => Young(v) /\ v # w
    BY <2>3 DEF Young
  <2>8. /\ \A v \in Wids : Begun(v) => Begun(v)'
        /\ \A s \in Requests : \A v \in Wids : At(s, v)' => At(s, v) /\ req'[s] = req[s]
    BY <2>1 DEF Begun, Expecting, At, Live
  <2>9. QED
    BY <2>1, <2>3, <2>4, <2>5, <2>6, <2>7, <2>8 DEF Carries
<1>3. QED
  BY <1>1, <1>2

\* A question is read, with what it knows; another answer that is on its way is marked.
LEMMA ReadsCarried ==
  ASSUME ConversationAssumptions, Course, NEW r \in Requests, NEW w \in Wids, ReadsQuestion(r, w),
         NEW U \in [Wids -> SUBSET Fields], Agreed(U), Alone, "lost" \notin lax'
  PROVE  Alone' /\ Agreed(U)'
<1> USE DEF Course
<1>1. /\ row' = row /\ clar' = clar /\ mem' = mem /\ job' = job /\ made' = made /\ told' = told
      /\ r \in Replies /\ req[r].at = "new" /\ w # None
  BY Numbers DEF ReadsQuestion
<1>2. \A s \in Requests \ {r} : req'[s] = req[s]
  BY DEF ReadsQuestion, Types
<1> DEFINE warm == mem[w].kind \notin {"none", "busy"}
           from == IF warm THEN mem[w] ELSE clar[w]
           put == warm => mem[w].kind = "asks"
<1>3. CASE req'[r].at = "done"
  <2>1. \A s \in Requests : Expecting(s)' => Expecting(s) /\ req'[s] = req[s]
    BY <1>2, <1>3 DEF Expecting
  <2>2. \A s \in Requests : \A v \in Wids : At(s, v)' => At(s, v) /\ req'[s] = req[s]
    BY <1>2, <1>3 DEF At, Live
  <2>3. Carries(U)
    BY <1>1, <2>1, <2>2 DEF Carries, Begun, Young
  <2>4. QED
    BY <2>3, CarriesAll
<1>4. CASE req'[r].at # "done"
  <2>1. \A s \in Requests : ~At(s, w)
    <3>1. \A s \in Replies : ~(Live(s) /\ req[s].w = w)
      BY DEF ReadsQuestion
    <3>2. QED
      BY <3>1 DEF Alone, At
  <2>2. /\ req'[r] = [Idle EXCEPT !.at = "read", !.w = w, !.warm = mem[w].kind # "none",
                                  !.missing = from.missing, !.known = from.known]
        /\ warm => mem[w].kind = "asks"
        /\ ~warm => clar[w].open
    <3>1. \/ req' = [req EXCEPT ![r] = [Idle EXCEPT !.at = "done"]]
          \/ /\ req' = [req EXCEPT ![r] = [Idle EXCEPT !.at = "read", !.w = w, !.warm = mem[w].kind # "none",
                                                       !.missing = from.missing, !.known = from.known]]
             /\ warm => mem[w].kind = "asks"
             /\ ~warm => clar[w].open
      BY DEF ReadsQuestion
    <3>2. [Idle EXCEPT !.at = "done"].at = "done"
      BY Constants DEF Held
    <3>3. QED
      BY <1>4, <3>1, <3>2 DEF Types
  <2>3. /\ req'[r].at = "read" /\ req'[r].w = w /\ req'[r].missing = from.missing /\ req'[r].known = from.known
    BY <2>2, Constants DEF Held
  <2>4. Scope(from) = U[w]
    <3>1. CASE warm
      BY <2>2, <3>1 DEF Agreed
    <3>2. CASE ~warm
      <4>1. clar[w] # NoQuestion
        BY <2>2, <3>2, Constants
      <4>2. QED
        BY <3>2, <4>1 DEF Agreed
    <3>3. QED
      BY <3>1, <3>2
  <2>5. Scope(req'[r]) = U[w]
    BY <2>3, <2>4 DEF Scope
  <2>6. mem[w].kind = "asks" => mem[w].known = req'[r].known
    BY <2>3
  <2> HIDE DEF warm, from
  <2>7. \A v \in Wids : At(r, v)' <=> v = w
    BY <2>3 DEF At, Live
  <2>8. \A s \in Requests \ {r} : \A v \in Wids : At(s, v)' <=> At(s, v)
    BY <1>2 DEF At, Live
  <2>9. \A v \in Wids : Begun(v)' <=> Begun(v)
    BY <1>1, <1>2, <2>3 DEF Begun, Expecting
  <2>10. Alone'
    BY <1>1, <1>2, <2>1, <2>6, <2>7, <2>8 DEF Alone
  <2>11. \A s \in Requests : \A v \in Wids : At(s, v)' => Scope(req'[s]) = U[v]
    BY <1>2, <2>5, <2>7, <2>8 DEF Agreed
  <2>12. Agreed(U)'
    BY <1>1, <2>9, <2>11 DEF Agreed, Young
  <2>13. QED
    BY <2>10, <2>12
<1>5. QED
  BY <1>3, <1>4

\* A new question settles what it is about; it holds what was taken for its parent's.
LEMMA KeepsCarried ==
  ASSUME ConversationAssumptions, Course, NEW w \in Wids, NEW missing \in Questions, KeepsQuestion(w, missing),
         NEW U \in [Wids -> SUBSET Fields], Agreed(U), Alone
  PROVE  Alone' /\ \E V \in [Wids -> SUBSET Fields] : Agreed(V)'
<1> USE DEF Course
<1>1. /\ job[w] = "asks" /\ row' = row /\ clar' = clar /\ req' = req /\ made' = made /\ told' = told
  BY DEF KeepsQuestion
<1>2. /\ job'[w] = "pin" /\ \A v \in Wids \ {w} : job'[v] = job[v] /\ mem'[v] = mem[v]
      /\ mem'[w].kind = "asks" /\ mem'[w].missing = missing /\ mem'[w].asked = missing
      /\ mem'[w].known = mem[w].known /\ mem'[w].parent = mem[w].parent
  BY DEF KeepsQuestion, Types, Memories
<1>3. Young(w) /\ Begun(w) /\ ~Touched(w) /\ U[w] = Fields
  BY <1>1 DEF Young, Births, Quests, Settled, Agreed
<1>4. PICK V : V = [U EXCEPT ![w] = (mem[w].known \cup missing) \cap Fields]
  OBVIOUS
<1>5. V \in [Wids -> SUBSET Fields] /\ V[w] = (mem[w].known \cup missing) \cap Fields
      /\ \A v \in Wids \ {w} : V[v] = U[v]
  BY <1>4
<1>6. \A s \in Requests : \A v \in Wids : (At(s, v)' <=> At(s, v)) /\ (At(s, v) => v # w)
  BY <1>1, <1>3 DEF At, Live, Touched
<1>7. \A v \in Wids : (Begun(v)' <=> Begun(v)) /\ (Young(v)' => Young(v) /\ v # w)
  BY <1>1, <1>2 DEF Begun, Expecting, Young
<1>8. Alone'
  BY <1>1, <1>2, <1>6 DEF Alone
<1>9. ASSUME NEW v \in Wids
      PROVE  /\ clar'[v] # NoQuestion => Scope(clar'[v]) = V[v]
             /\ mem'[v].kind = "asks" => Scope(mem'[v]) = V[v]
             /\ job'[v] = "pin" => (mem'[v].known \cup mem'[v].asked) \cap Fields = V[v]
             /\ \A f \in Fields : <<v, f>> \in told' => f \in V[v]
             /\ ~Begun(v)' \/ Young(v)' => V[v] = Fields
  <2>1. CASE v = w
    BY <1>1, <1>2, <1>3, <1>5, <1>7, <2>1 DEF Scope, Touched
  <2>2. CASE v # w
    BY <1>1, <1>2, <1>5, <1>7, <2>2 DEF Agreed
  <2>3. QED
    BY <2>1, <2>2
<1>10. ASSUME NEW v \in Wids, NEW p \in Wids, Young(v)', mem'[v].parent = p PROVE mem'[v].known = V[p]
  <2>1. Young(v) /\ v # w /\ mem[v].parent = p
    BY <1>2, <1>7, <1>10
  <2>2. p # w
    BY <1>3, <2>1 DEF Touched
  <2>3. QED
    BY <1>2, <1>5, <2>1, <2>2 DEF Agreed
<1>11. ASSUME NEW v \in Wids, NEW p \in Wids, row'[v].parent = p PROVE V[p] \subseteq V[v]
  <2>1. row[v].parent = p /\ U[p] \subseteq U[v] /\ V[p] \subseteq Fields
    BY <1>1, <1>5, <1>11 DEF Agreed
  <2>2. CASE v = w
    <3>1. mem[w].parent = p
      BY <1>3, <2>1, <2>2, Numbers DEF Parents
    <3>2. p # w
      BY <1>3, <3>1 DEF Touched
    <3>3. mem[w].known = U[p]
      BY <1>3, <3>1 DEF Agreed
    <3>4. QED
      BY <1>5, <2>2, <3>2, <3>3
  <2>3. CASE v # w /\ p = w
    BY <1>3, <1>5, <2>1, <2>3
  <2>4. CASE v # w /\ p # w
    BY <1>5, <2>1, <2>4
  <2>5. QED
    BY <2>2, <2>3, <2>4
<1>12. \A s \in Requests : \A v \in Wids : At(s, v)' => Scope(req'[s]) = V[v]
  BY <1>1, <1>5, <1>6 DEF Agreed
<1>13. Agreed(V)'
  BY <1>9, <1>10, <1>11, <1>12 DEF Agreed
<1>14. QED
  BY <1>5, <1>8, <1>13

LEMMA CarriedInit == ASSUME ConversationAssumptions, Init PROVE Carried
<1>1. \A w \in Wids : row[w] = NoRow /\ clar[w] = NoQuestion /\ mem[w] = NoMemory /\ job[w] = "none"
  BY DEF Init
<1>2. NoRow.parent = None /\ NoMemory.parent = None /\ NoMemory.kind = "none" /\ None \notin Wids /\ told = {}
  BY Constants, Numbers DEF Init
<1>3. \A r \in Requests : \A w \in Wids : ~At(r, w)
  BY Constants DEF Init, At, Live
<1>4. PICK U : U = [w \in Wids |-> Fields]
  OBVIOUS
<1>5. Agreed(U)
  BY <1>1, <1>2, <1>3, <1>4 DEF Agreed, Young
<1>6. U \in [Wids -> SUBSET Fields] /\ Alone
  BY <1>3, <1>4 DEF Alone
<1>7. QED
  BY <1>5, <1>6 DEF Carried

LEMMA CarriedStep ==
  ASSUME ConversationAssumptions, Course, Carried, [Next]_vars
  PROVE  Carried'
<1>0. Types'
  BY TypesStep DEF Course
<1> SUFFICES ASSUME "lost" \notin lax' PROVE Alone' /\ \E U \in [Wids -> SUBSET Fields] : Agreed(U)'
  BY DEF Carried
<1>1. "lost" \notin lax
  BY DEF Next, Steps, Message, Answer, Runs, vars, Chats, TalksAside, TalksOnly, Amends, CountsQuota, CreatesShell,
         Launches, TellsRest, SavesRest, Claims, ClaimsInMemory, ArchivesParent, Understands, Understood,
         ReadsQuestion, AnswersAside, EnsuresShell, Plans, KeepsResponse, MarksAnswered, FinishesChat, MarksFailed, KeepsQuestion, PinsQuestion,
         SweepsZombie, Deletes, ArchivesSuperseded, Trims, Crash, Marked
<1>2. PICK U \in [Wids -> SUBSET Fields] : Agreed(U)
  BY <1>1 DEF Carried
<1>3. Alone
  BY <1>1 DEF Carried
<1>4. CASE \E r \in Requests : Chats(r) \/ TalksAside(r)
  <2>1. PICK r \in Requests : Chats(r) \/ TalksAside(r)
    BY <1>4
  <2>2. \E p \in Wids \cup {None} : TalksOnly(r, p)
    BY <2>1, AboutOne DEF Chats, TalksAside
  <2>3. QED
    BY <1>2, <1>3, <2>2, TalksCarries, CarriesAll
<1>5. CASE \E r \in Requests : CreatesShell(r) \/ Claims(r) \/ ClaimsInMemory(r)
  BY <1>2, <1>3, <1>5, BirthsCarry, CarriesAll
<1>6. CASE \E r \in Requests : Launches(r)
  BY <1>0, <1>2, <1>3, <1>6, LaunchesCarry, CarriesAll
<1>7. CASE \E r \in Requests : TellsRest(r) \/ SavesRest(r) \/ AnswersAside(r) \/ Understands(r)
  BY <1>2, <1>3, <1>7, AnswersCarry, CarriesAll
<1>8. CASE \E w \in Wids : EnsuresShell(w) \/ Plans(w) \/ PinsQuestion(w)
  BY <1>2, <1>3, <1>8, JobsCarry, CarriesAll
<1>9. CASE \E r \in Requests : \E w \in Wids : ReadsQuestion(r, w)
  BY <1>2, <1>3, <1>9, ReadsCarried
<1>10. CASE \E w \in Wids : \E missing \in Questions : KeepsQuestion(w, missing)
  BY <1>2, <1>3, <1>10, KeepsCarried
<1>11. CASE \/ \E r \in Requests : \/ \E w \in Wids : Amends(r, w)
                                   \/ CountsQuota(r) \/ ArchivesParent(r)
            \/ \E w \in Wids : KeepsResponse(w) \/ MarksAnswered(w) \/ FinishesChat(w) \/ MarksFailed(w)
                             \/ SweepsZombie(w) \/ Deletes(w)
            \/ ArchivesSuperseded \/ Trims \/ Crash \/ UNCHANGED vars
  BY <1>2, <1>3, <1>11, CalmSteps, CalmCarries, CarriesAll
<1>12. QED
  BY <1>4, <1>5, <1>6, <1>7, <1>8, <1>9, <1>10, <1>11 DEF Next, Steps, Message, Answer, Runs

LEMMA CarriedReaches == ASSUME ConversationAssumptions, Course, Carried PROVE AnswersReachThePlan
<1> SUFFICES ASSUME "lost" \notin lax, NEW w \in Wids, job[w] \in {"new", "plan"},
                    NEW f \in Fields, NEW a \in Ancestors(w) \ {None}, <<a, f>> \in told
             PROVE  f \in mem[w].known
  BY DEF AnswersReachThePlan
<1>1. PICK U \in [Wids -> SUBSET Fields] : Agreed(U)
  BY DEF Carried
<1>2. Young(w) /\ mem[w] \in Memories
  BY DEF Young, Course, Types
<1>3. PICK p \in Wids \cup {None} : p = mem[w].parent
  BY <1>2 DEF Memories
<1>4. p # None /\ p \in Wids
  BY <1>3 DEF Ancestors
<1>5. a = p \/ a = row[p].parent
  BY <1>3, <1>4 DEF Ancestors
<1>6. a \in Wids /\ f \in U[a]
  BY <1>1, <1>4, <1>5 DEF Course, Types, Rows, Agreed
<1>7. U[a] \subseteq U[p]
  BY <1>1, <1>4, <1>5, <1>6 DEF Agreed
<1>8. mem[w].known = U[p]
  BY <1>1, <1>2, <1>3, <1>4 DEF Agreed
<1>9. QED
  BY <1>6, <1>7, <1>8

\* What a customer was told is taken is known to the job that plans for it: every copy of a
\* question is about the same fields, whoever answers it and wherever the backend stopped,
\* unless a write was lost without a word (existing_context of memory, row and child).
THEOREM AnswersCarried == ASSUME ConversationAssumptions PROVE ConversationSpec => []AnswersReachThePlan
<1>1. ConversationSpec => [](Course /\ Carried)
  <2>1. Init => Course /\ Carried
    BY CourseInit, CarriedInit
  <2>2. Course /\ Carried /\ [Next]_vars => Course' /\ Carried'
    BY CourseStep, CarriedStep
  <2>3. QED
    BY <2>1, <2>2, PTL DEF ConversationSpec
<1>2. Course /\ Carried => AnswersReachThePlan
  BY CarriedReaches
<1>3. QED
  BY <1>1, <1>2, PTL

-------------------------------------------------------------------------------
(* Planning: what the validator's verdict means, and what a plan that runs is. *)

LEMMA ValidMeans ==
  ASSUME NEW p, NEW S
  PROVE  Validate(p, S) = Valid <=> /\ WellFormed(p)
                                    /\ \A i \in DOMAIN p : ~OffMap(p[i])
                                    /\ \A i \in DOMAIN p : p[i].id \notin S => ~Faulty(p, p[i])
                                    /\ Gaps(p, S) = {}
<1>1. Invalid # Valid /\ \A fs : Missing(fs) # Valid
  <2>1. Invalid.says = "invalid" /\ Valid.says = "valid" /\ \A fs : Missing(fs).says = "missing"
    BY DEF Invalid, Valid, Missing
  <2>2. QED
    BY <2>1
<1> DEFINE bad == {i \in DOMAIN p : p[i].id \notin S /\ Faulty(p, p[i])}
           first == CHOOSE i \in bad : \A j \in bad : i <= j
           odd == \E i \in DOMAIN p : OffMap(p[i])
           blamed == ~BadPlate(p[first]) /\ PastDate(p[first])
<1>2. Validate(p, S) = IF ~WellFormed(p) THEN Invalid
                       ELSE IF odd THEN Missing({"move_origin_id"})
                       ELSE IF bad # {}
                       THEN IF blamed THEN Missing({"booking_date"}) ELSE Invalid
                       ELSE IF Gaps(p, S) # {} THEN Missing(Gaps(p, S)) ELSE Valid
  BY DEF Validate
<1>3. bad = {} <=> \A i \in DOMAIN p : p[i].id \notin S => ~Faulty(p, p[i])
  OBVIOUS
<1>4. odd <=> \E i \in DOMAIN p : OffMap(p[i])
  OBVIOUS
<1> HIDE DEF bad, first, odd, blamed
<1>5. QED
  BY <1>1, <1>2, <1>3, <1>4

LEMMA NoGaps ==
  ASSUME NEW p, NEW S
  PROVE  Gaps(p, S) = {} <=> \A i \in DOMAIN p : p[i].id \notin S => Inputs[p[i].tool] \subseteq DOMAIN p[i].input
  BY DEF Gaps

LEMMA LaterFaulty ==
  ASSUME NEW p, NEW t, Faulty(p, t), late => late'
  PROVE  Faulty(p, t)'
  BY DEF Faulty, PastDate, BadPlate, KeepsContract, GoodRef, Of, IsRef, Lit

\* A plan that runs, with its steps that ran and those that did not.
Runnable(p) ==
  /\ WellFormed(p)
  /\ \A i \in DOMAIN p :
       /\ ~OffMap(p[i]) /\ KeepsContract(p[i]) /\ Inputs[p[i].tool] \subseteq DOMAIN p[i].input
       /\ \A f \in DOMAIN p[i].input : IsRef(p[i].input[f]) => GoodRef(p, p[i], f)

LEMMA ValidRuns ==
  ASSUME NEW p, Validate(p, {}) = Valid
  PROVE  Runnable(p)
<1>1. WellFormed(p) /\ (\A i \in DOMAIN p : ~OffMap(p[i]) /\ ~Faulty(p, p[i])) /\ Gaps(p, {}) = {}
  BY ValidMeans
<1>2. QED
  BY <1>1, NoGaps DEF Faulty, Runnable

LEMMA RefusedBlames ==
  ASSUME NEW p, NEW S, Runnable(p), Validate(p, S) # Valid
  PROVE  \E i \in DOMAIN p : p[i].id \notin S /\ Faulty(p, p[i])
  BY ValidMeans, NoGaps DEF Runnable

-------------------------------------------------------------------------------
(* EnsurePayment: a function on 0..Len(p) chosen for its recursive equation.  *)
(* That there is one, and what it offers, is proved from the least index a    *)
(* counterexample could have.                                                 *)

LEMMA LeastIndex ==
  ASSUME NEW T \in SUBSET Nat, T # {}
  PROVE  \E n \in T : \A m \in T : n <= m
<1>1. \E n \in T : \A m \in T : ~(<<m, n>> \in OpToRel(<, Nat))
  BY WFMin, NatLessThanWellFounded
<1>2. PICK n \in T : \A m \in T : ~(<<m, n>> \in OpToRel(<, Nat))
  BY <1>1
<1>3. ASSUME NEW m \in T PROVE ~(m < n)
  <2> DEFINE pair == <<m, n>>
  <2>1. pair \in Nat \X Nat /\ pair[1] = m /\ pair[2] = n
    OBVIOUS
  <2>2. pair \notin {e \in Nat \X Nat : e[1] < e[2]}
    BY <1>2 DEF OpToRel
  <2> HIDE DEF pair
  <2>3. QED
    BY <2>1, <2>2
<1>4. QED
  BY <1>3

\* The last step of a number, which Of looks up.
LEMMA LastOf ==
  ASSUME NEW p, NEW n \in Nat, DOMAIN p = 1..n, NEW id \in Ids(p)
  PROVE  \E i \in DOMAIN p : p[i].id = id /\ Of(p, id) = p[i]
<1> DEFINE Back == {m \in Nat : m < n /\ p[n - m].id = id}
<1>1. PICK i \in 1..n : p[i].id = id
  BY DEF Ids
<1>2. n - i \in Back
  BY <1>1
<1>3. PICK m \in Back : \A k \in Back : m <= k
  <2>1. Back \in SUBSET Nat /\ Back # {}
    BY <1>2
  <2> HIDE DEF Back
  <2>2. QED
    BY <2>1, LeastIndex
<1>4. n - m \in DOMAIN p /\ p[n - m].id = id
  OBVIOUS
<1>5. ASSUME NEW j \in DOMAIN p, p[j].id = id PROVE j <= n - m
  <2>1. j \in 1..n /\ n - j \in Nat /\ n - j < n /\ n - (n - j) = j
    OBVIOUS
  <2>2. n - j \in Back
    BY <1>5, <2>1
  <2>3. m <= n - j
    BY <1>3, <2>2
  <2>4. QED
    BY <2>1, <2>3
<1>6. \E k \in DOMAIN p : p[k].id = id /\ \A j \in DOMAIN p : p[j].id = id => j <= k
  BY <1>4, <1>5
<1>7. QED
  BY <1>6 DEF Of

\* What it adds for a booking.
Pays(t, b) ==
  /\ DOMAIN t = StepParts /\ t.tool = "pay_fee" /\ t.deps = {b.id}
  /\ t.input = [f \in Money |-> InputRef(b.id, f)]

LEMMA PayStepPays == ASSUME NEW q, NEW b PROVE Pays(PayStep(q, b), b)
  BY DEF PayStep, Pays, StepParts

Offers(p, g, k) ==
  IF k = 0 THEN p
  ELSE IF Unpaid(p, p[k]) THEN Append(g[k - 1], PayStep(g[k - 1], p[k])) ELSE g[k - 1]
IsOffered(p, n, g) == g = [k \in 0..n |-> Offers(p, g, k)]

LEMMA OfferedExists == ASSUME NEW p PROVE \A n \in Nat : \E g : IsOffered(p, n, g)
<1> DEFINE Bad == {n \in Nat : ~\E g : IsOffered(p, n, g)}
<1> SUFFICES ASSUME Bad # {} PROVE FALSE
  OBVIOUS
<1>1. PICK n \in Bad : \A m \in Bad : n <= m
  <2>1. Bad \in SUBSET Nat
    OBVIOUS
  <2> HIDE DEF Bad
  <2>2. QED
    BY <2>1, LeastIndex
<1>2. n \in Nat /\ ~\E g : IsOffered(p, n, g)
  OBVIOUS
<1>3. CASE n = 0
  <2> DEFINE g == [k \in 0..0 |-> p]
  <2>1. g = [k \in 0..0 |-> Offers(p, g, k)]
    BY DEF Offers
  <2>2. QED
    BY <1>2, <1>3, <2>1 DEF IsOffered
<1>4. CASE n # 0
  <2>1. n - 1 \in Nat /\ ~(n <= n - 1)
    BY <1>2, <1>4
  <2>2. n - 1 \notin Bad
    <3> HIDE DEF Bad
    <3>1. QED
      BY <1>1, <2>1
  <2>3. PICK g : IsOffered(p, n - 1, g)
    BY <2>1, <2>2
  <2> DEFINE h == [k \in 0..n |-> IF k = n THEN Offers(p, g, n) ELSE g[k]]
  <2>4. ASSUME NEW k \in 0..n PROVE h[k] = Offers(p, h, k)
    <3>1. CASE k = 0
      <4>1. 0 \in 0..n - 1 /\ h[0] = g[0] /\ g[0] = Offers(p, g, 0)
        BY <1>2, <1>4, <2>1, <2>3 DEF IsOffered
      <4>2. QED
        BY <3>1, <4>1 DEF Offers
    <3>2. CASE k # 0 /\ k # n
      <4>1. k \in 0..n - 1 /\ k - 1 \in 0..n - 1 /\ k - 1 \in 0..n /\ k - 1 # n
        BY <1>2, <3>2
      <4>2. h[k] = g[k] /\ h[k - 1] = g[k - 1] /\ g[k] = Offers(p, g, k)
        BY <2>3, <3>2, <4>1 DEF IsOffered
      <4>3. QED
        BY <3>2, <4>2 DEF Offers
    <3>3. CASE k = n
      <4>1. n - 1 \in 0..n /\ n - 1 # n /\ h[n - 1] = g[n - 1] /\ h[n] = Offers(p, g, n)
        BY <1>2, <2>1
      <4>2. QED
        BY <1>4, <3>3, <4>1 DEF Offers
    <3>4. QED
      BY <3>1, <3>2, <3>3
  <2>5. h = [k \in 0..n |-> Offers(p, h, k)]
    BY <2>4
  <2>6. QED
    BY <1>2, <2>5 DEF IsOffered
<1>5. QED
  BY <1>3, <1>4

\* The plan stays at the front; every step behind it pays for a booking of it, and every
\* unpaid booking up to k has one.
Extends(p, q, n, k) ==
  /\ \E m \in Nat : m >= n /\ DOMAIN q = 1..m
  /\ q \in Seq({q[i] : i \in DOMAIN q})
  /\ \A i \in 1..n : q[i] = p[i]
  /\ \A i \in DOMAIN q : i > n => \E b \in 1..n : Unpaid(p, p[b]) /\ Pays(q[i], p[b])
  /\ \A b \in 1..k : Unpaid(p, p[b]) => \E i \in DOMAIN q : Pays(q[i], p[b])

LEMMA SeqOver ==
  ASSUME NEW q, NEW m \in Nat, q = [i \in 1..m |-> q[i]]
  PROVE  q \in Seq({q[i] : i \in DOMAIN q}) /\ Len(q) = m /\ DOMAIN q = 1..m
<1> DEFINE S == {q[i] : i \in DOMAIN q}
<1>1. q \in [1..m -> S]
  OBVIOUS
<1> HIDE DEF S
<1>2. q \in Seq(S) /\ Len(q) = m
  BY <1>1
<1>3. QED
  BY <1>2 DEF S

LEMMA ExtendsBy ==
  ASSUME NEW p, NEW q, NEW n \in Nat, NEW k \in Nat, k + 1 \in 1..n, Extends(p, q, n, k), Unpaid(p, p[k + 1])
  PROVE  Extends(p, Append(q, PayStep(q, p[k + 1])), n, k + 1)
<1>1. PICK m \in Nat : m >= n /\ DOMAIN q = 1..m
  BY DEF Extends
<1>2. PICK t : t = PayStep(q, p[k + 1])
  OBVIOUS
<1> DEFINE S == {q[i] : i \in DOMAIN q}
           r == Append(q, t)
<1>3. q \in Seq(S)
  BY DEF Extends
<1>4. Len(q) = m
  <2> HIDE DEF S
  <2>1. QED
    BY <1>1, <1>3
<1>5. r = [i \in 1..m + 1 |-> IF i = m + 1 THEN t ELSE q[i]]
  <2>1. q \in Seq(S \cup {t}) /\ t \in S \cup {t}
    <3> HIDE DEF S
    <3>1. QED
      BY <1>3
  <2> HIDE DEF S
  <2>2. r \in Seq(S \cup {t}) /\ Len(r) = m + 1 /\ r[m + 1] = t /\ \A i \in 1..m : r[i] = q[i]
    BY <1>4, <2>1
  <2> HIDE DEF r
  <2>3. r = [i \in 1..m + 1 |-> r[i]]
    <3> DEFINE T == S \cup {t}
    <3>1. r \in Seq(T) /\ Len(r) = m + 1
      BY <2>2
    <3> HIDE DEF T
    <3>2. r \in [1..Len(r) -> T]
      BY <3>1
    <3>3. QED
      BY <3>1, <3>2
  <2>4. \A i \in 1..m + 1 : r[i] = IF i = m + 1 THEN t ELSE q[i]
    <3>1. \A i \in 1..m + 1 : i # m + 1 => i \in 1..m
      BY <1>1
    <3>2. QED
      BY <2>2, <3>1
  <2>5. QED
    BY <2>3, <2>4
<1>6. Pays(t, p[k + 1])
  BY <1>2, PayStepPays
<1> HIDE DEF r
<1>7. DOMAIN r = 1..m + 1 /\ r[m + 1] = t /\ \A i \in 1..m : r[i] = q[i]
  BY <1>5
<1>8. r = [i \in 1..m + 1 |-> r[i]]
  BY <1>5, <1>7
<1>9. r \in Seq({r[i] : i \in DOMAIN r})
  BY <1>8, SeqOver
<1>10. \A i \in 1..n : r[i] = p[i]
  BY <1>1, <1>7 DEF Extends
<1>11. ASSUME NEW i \in DOMAIN r, i > n PROVE \E b \in 1..n : Unpaid(p, p[b]) /\ Pays(r[i], p[b])
  <2>1. CASE i = m + 1
    BY <1>6, <1>7, <2>1
  <2>2. CASE i # m + 1
    <3>1. i \in DOMAIN q /\ r[i] = q[i]
      BY <1>1, <1>7, <2>2
    <3>2. QED
      BY <1>11, <3>1 DEF Extends
  <2>3. QED
    BY <2>1, <2>2
<1>12. ASSUME NEW b \in 1..k + 1, Unpaid(p, p[b]) PROVE \E i \in DOMAIN r : Pays(r[i], p[b])
  <2>1. CASE b = k + 1
    BY <1>6, <1>7, <2>1
  <2>2. CASE b # k + 1
    <3>1. b \in 1..k
      BY <2>2
    <3>2. PICK i \in DOMAIN q : Pays(q[i], p[b])
      BY <1>12, <3>1 DEF Extends
    <3>3. i \in DOMAIN r /\ r[i] = q[i]
      BY <1>1, <1>7, <3>2
    <3>4. QED
      BY <3>2, <3>3
  <2>3. QED
    BY <2>1, <2>2
<1>13. m + 1 \in Nat /\ m + 1 >= n
  BY <1>1
<1>14. Extends(p, r, n, k + 1)
  BY <1>7, <1>9, <1>10, <1>11, <1>12, <1>13 DEF Extends
<1>15. QED
  BY <1>2, <1>14 DEF r

LEMMA OfferedExtends ==
  ASSUME NEW p, NEW n \in Nat, p = [i \in 1..n |-> p[i]], NEW g, IsOffered(p, n, g)
  PROVE  \A k \in 0..n : Extends(p, g[k], n, k)
<1> DEFINE Bad == {k \in Nat : k <= n /\ ~Extends(p, g[k], n, k)}
<1> SUFFICES ASSUME Bad # {} PROVE FALSE
  OBVIOUS
<1>1. PICK k \in Bad : \A m \in Bad : k <= m
  <2>1. Bad \in SUBSET Nat
    OBVIOUS
  <2> HIDE DEF Bad
  <2>2. QED
    BY <2>1, LeastIndex
<1>2. k \in Nat /\ k <= n /\ ~Extends(p, g[k], n, k)
  OBVIOUS
<1>3. \A j \in 0..n : g[j] = Offers(p, g, j)
  BY DEF IsOffered
<1>4. CASE k = 0
  <2>1. g[0] = p
    BY <1>2, <1>3, <1>4 DEF Offers
  <2>2. p \in Seq({p[i] : i \in DOMAIN p}) /\ DOMAIN p = 1..n
    BY SeqOver
  <2>3. Extends(p, p, n, 0)
    BY <2>2 DEF Extends
  <2>4. QED
    BY <1>2, <1>4, <2>1, <2>3
<1>5. CASE k # 0
  <2>1. PICK j \in Nat : k = j + 1 /\ j \in 0..n /\ k \in 1..n /\ ~(k <= j) /\ k - 1 = j
    <3>1. k - 1 \in Nat /\ k = (k - 1) + 1 /\ k - 1 \in 0..n /\ k \in 1..n /\ ~(k <= k - 1)
      BY <1>2, <1>5
    <3>2. QED
      BY <3>1
  <2>2. j \notin Bad
    <3> HIDE DEF Bad
    <3>1. QED
      BY <1>1, <2>1
  <2>3. Extends(p, g[j], n, j)
    BY <2>1, <2>2
  <2>4. g[k] = IF Unpaid(p, p[k]) THEN Append(g[j], PayStep(g[j], p[k])) ELSE g[j]
    <3>1. g[k] = Offers(p, g, k) /\ g[k - 1] = g[j]
      BY <1>3, <2>1
    <3>2. QED
      BY <1>5, <3>1 DEF Offers
  <2>5. CASE Unpaid(p, p[k])
    BY <1>2, <2>1, <2>3, <2>4, <2>5, ExtendsBy
  <2>6. CASE ~Unpaid(p, p[k])
    <3>1. \A b \in 1..k : Unpaid(p, p[b]) => b \in 1..j
      BY <2>1, <2>6
    <3>2. Extends(p, g[j], n, k)
      BY <2>3, <3>1 DEF Extends
    <3>3. QED
      BY <1>2, <2>4, <2>6, <3>2
  <2>7. QED
    BY <2>5, <2>6
<1>6. QED
  BY <1>4, <1>5

\* _ensure_payment_is_offered: the plan, and a payment for every booking that had none.
LEMMA EnsuredPayment ==
  ASSUME NEW p, NEW n \in Nat, p = [i \in 1..n |-> p[i]]
  PROVE  Extends(p, EnsurePayment(p), n, n)
<1>1. Len(p) = n
  BY SeqOver
<1> DEFINE offered == CHOOSE g : IsOffered(p, n, g)
<1>2. IsOffered(p, n, offered)
  BY OfferedExists
<1>3. EnsurePayment(p) = offered[n]
  BY <1>1 DEF EnsurePayment, IsOffered, Offers
<1> HIDE DEF offered
<1>4. QED
  BY <1>2, <1>3, OfferedExtends

-------------------------------------------------------------------------------
(* The plan of a request, from the model's answer to a run.                   *)

\* A plan is a list of steps, and no booking of it has the number of a literal.
Listed(p) == \E n \in Nat : p = [i \in 1..n |-> p[i]]
Built(p) ==
  /\ Listed(p)
  /\ \A i \in DOMAIN p : DOMAIN p[i] = StepParts /\ (p[i].tool = "book_parking" => p[i].id # 0)
Fresh(p) == \A i \in DOMAIN p : \A f \in DOMAIN p[i].input \cap InputFields : p[i].input[f] # Lit("remembered")
Offered(p) == \A b \in DOMAIN p : p[b].tool = "book_parking" => \E i \in DOMAIN p : RefersTo(p[i], p[b])
Takes(t, b) == b.tool = "book_parking" /\ \A f \in Money : t.input[f] = InputRef(b.id, f)
Charged(p) ==
  \A i \in DOMAIN p : p[i].tool = "pay_fee" /\ Money \subseteq DOMAIN p[i].input =>
    (\E b \in DOMAIN p : Takes(p[i], p[b])) \/ FromContext(p[i])
Own(p) ==
  \A i \in DOMAIN p : p[i].tool = "register_vehicle" =>
    "resident_id" \in DOMAIN p[i].input /\ p[i].input["resident_id"] = Lit("known")
Blamed == \E i \in DOMAIN plan : plan[i].id \notin done /\ Faulty(plan, plan[i])
Fair(p) == Built(p) /\ Fresh(p) /\ Charged(p)
Planned ==
  /\ answers \subseteq UserProvided
  /\ stage \in {"validate", "execute", "running", "paused"} => Fair(plan) /\ Offered(plan)
  /\ stage \in {"running", "paused"} => Runnable(plan) /\ Own(plan)
  /\ stage \notin {"running", "paused"} => done = {} /\ refusal = "none"
  /\ refusal = "resume" => stage = "paused" /\ Blamed

LEMMA FieldNames ==
  /\ DOMAIN Inputs = {"register_vehicle", "book_parking", "pay_fee", "schedule_move", "register_resident"}
  /\ Inputs["register_vehicle"] = {"resident_id", "plate_number"}
  /\ Inputs["book_parking"] = {"vehicle_id", "booking_date"}
  /\ Inputs["pay_fee"] = Money
  /\ Inputs["schedule_move"] = {"move_origin_id"}
  /\ Inputs["register_resident"] = {"apartment_code"}
  BY DEF Inputs, Money

LEMMA OutputNames ==
  /\ DOMAIN Outputs = DOMAIN Inputs
  /\ Outputs["register_vehicle"] = {"vehicle_id"}
  /\ Outputs["book_parking"] = Money
  /\ Outputs["pay_fee"] = {} /\ Outputs["schedule_move"] = {} /\ Outputs["register_resident"] = {}
  BY DEF Outputs, Inputs, Money

LEMMA Literals ==
  /\ \A w : ~IsRef(Lit(w)) /\ Lit(w).is = w
  /\ \A v, w : Lit(v) = Lit(w) => v = w
  /\ \A t, f : InputRef(t, f).from = t /\ InputRef(t, f).is = f
  /\ \A t, f, w : InputRef(t, f) = Lit(w) => f = w /\ t = 0
<1>1. \A w : Lit(w).from = 0 /\ Lit(w).is = w
  BY DEF Lit
<1>2. \A t, f : InputRef(t, f).from = t /\ InputRef(t, f).is = f
  BY DEF InputRef
<1>3. \A v, w : Lit(v) = Lit(w) => v = w
  BY <1>1
<1>4. \A t, f, w : InputRef(t, f) = Lit(w) => f = w /\ t = 0
  BY <1>1, <1>2
<1>5. QED
  BY <1>1, <1>2, <1>3, <1>4 DEF IsRef

\* _apply_user_answers keeps the steps and every reference, and puts nothing but an answer.
LEMMA Answered ==
  ASSUME NEW p, Listed(p), \A i \in DOMAIN p : DOMAIN p[i] = StepParts, NEW said
  PROVE  /\ Listed(ApplyAnswers(p, said)) /\ DOMAIN ApplyAnswers(p, said) = DOMAIN p
         /\ \A i \in DOMAIN p :
              LET t == ApplyAnswers(p, said)[i] IN
              /\ DOMAIN t = StepParts /\ t.id = p[i].id /\ t.tool = p[i].tool /\ t.deps = p[i].deps
              /\ DOMAIN t.input = DOMAIN p[i].input
              /\ \A f \in DOMAIN p[i].input :
                   t.input[f] = IF f \in said /\ ~IsRef(p[i].input[f]) THEN Lit("answer") ELSE p[i].input[f]
<1> DEFINE q == ApplyAnswers(p, said)
           put(i) == [f \in DOMAIN p[i].input |->
                        IF f \in said /\ ~IsRef(p[i].input[f]) THEN Lit("answer") ELSE p[i].input[f]]
<1>1. q = [i \in DOMAIN p |-> [p[i] EXCEPT !.input = put(i)]]
  BY DEF ApplyAnswers
<1>2. PICK n \in Nat : p = [i \in 1..n |-> p[i]]
  BY DEF Listed
<1>3. DOMAIN p = 1..n
  BY <1>2
<1> HIDE DEF q, put
<1>4. DOMAIN q = 1..n /\ q = [i \in 1..n |-> q[i]]
  BY <1>1, <1>3
<1>5. ASSUME NEW i \in DOMAIN p
      PROVE  /\ DOMAIN q[i] = StepParts /\ q[i].id = p[i].id /\ q[i].tool = p[i].tool /\ q[i].deps = p[i].deps
             /\ q[i].input = put(i)
  <2>1. q[i] = [p[i] EXCEPT !.input = put(i)]
    BY <1>1
  <2>2. DOMAIN p[i] = StepParts
    OBVIOUS
  <2>3. QED
    BY <2>1, <2>2 DEF StepParts
<1>6. \A i \in DOMAIN p : /\ DOMAIN put(i) = DOMAIN p[i].input
                          /\ \A f \in DOMAIN p[i].input : put(i)[f] =
                               IF f \in said /\ ~IsRef(p[i].input[f]) THEN Lit("answer") ELSE p[i].input[f]
  BY DEF put
<1>7. QED
  BY <1>3, <1>4, <1>5, <1>6 DEF Listed, q

\* _inject_trusted_identity keeps the steps, and puts nothing but the account's identity.
LEMMA Identified ==
  ASSUME NEW p, Listed(p), \A i \in DOMAIN p : DOMAIN p[i] = StepParts, NEW ctx
  PROVE  /\ Listed(InjectIdentity(p, ctx)) /\ DOMAIN InjectIdentity(p, ctx) = DOMAIN p
         /\ \A i \in DOMAIN p :
              LET t == InjectIdentity(p, ctx)[i] IN
              /\ DOMAIN t = StepParts /\ t.id = p[i].id /\ t.tool = p[i].tool /\ t.deps = p[i].deps
              /\ DOMAIN p[i].input \subseteq DOMAIN t.input
              /\ DOMAIN t.input \subseteq DOMAIN p[i].input \cup {"resident_id"}
              /\ \A f \in DOMAIN p[i].input : t.input[f] = p[i].input[f]
              /\ \A f \in DOMAIN t.input \ DOMAIN p[i].input : t.input[f] = Lit("known")
<1> DEFINE q == InjectIdentity(p, ctx)
           adds(i) == "resident_id" \in ctx /\ p[i].tool = "register_vehicle" /\ "resident_id" \notin DOMAIN p[i].input
           put(i) == [f \in DOMAIN p[i].input \cup {"resident_id"} |->
                        IF f = "resident_id" THEN Lit("known") ELSE p[i].input[f]]
<1>1. q = [i \in DOMAIN p |-> IF adds(i) THEN [p[i] EXCEPT !.input = put(i)] ELSE p[i]]
  BY DEF InjectIdentity
<1>2. PICK n \in Nat : p = [i \in 1..n |-> p[i]]
  BY DEF Listed
<1>3. DOMAIN p = 1..n
  BY <1>2
<1>4. \A i \in DOMAIN p : adds(i) => "resident_id" \notin DOMAIN p[i].input
  OBVIOUS
<1> HIDE DEF q, put, adds
<1>5. DOMAIN q = 1..n /\ q = [i \in 1..n |-> q[i]]
  BY <1>1, <1>3
<1>6. ASSUME NEW i \in DOMAIN p
      PROVE  /\ DOMAIN q[i] = StepParts /\ q[i].id = p[i].id /\ q[i].tool = p[i].tool /\ q[i].deps = p[i].deps
             /\ q[i].input = IF adds(i) THEN put(i) ELSE p[i].input
  <2>1. q[i] = IF adds(i) THEN [p[i] EXCEPT !.input = put(i)] ELSE p[i]
    BY <1>1
  <2>2. DOMAIN p[i] = StepParts
    OBVIOUS
  <2>3. QED
    BY <2>1, <2>2 DEF StepParts
<1>7. \A i \in DOMAIN p : /\ DOMAIN put(i) = DOMAIN p[i].input \cup {"resident_id"}
                          /\ \A f \in DOMAIN put(i) : put(i)[f] =
                               IF f = "resident_id" THEN Lit("known") ELSE p[i].input[f]
  BY DEF put
<1>8. ASSUME NEW i \in DOMAIN p
      PROVE  /\ DOMAIN p[i].input \subseteq DOMAIN q[i].input
             /\ DOMAIN q[i].input \subseteq DOMAIN p[i].input \cup {"resident_id"}
             /\ \A f \in DOMAIN p[i].input : q[i].input[f] = p[i].input[f]
             /\ \A f \in DOMAIN q[i].input \ DOMAIN p[i].input : q[i].input[f] = Lit("known")
  <2>1. CASE adds(i)
    <3>1. q[i].input = put(i) /\ "resident_id" \notin DOMAIN p[i].input
      BY <1>4, <1>6, <2>1
    <3>2. /\ DOMAIN put(i) = DOMAIN p[i].input \cup {"resident_id"}
          /\ \A f \in DOMAIN put(i) : put(i)[f] = IF f = "resident_id" THEN Lit("known") ELSE p[i].input[f]
      BY <1>7
    <3>3. QED
      BY <3>1, <3>2
  <2>2. CASE ~adds(i)
    BY <1>6, <2>2
  <2>3. QED
    BY <2>1, <2>2
<1>9. QED
  BY <1>3, <1>5, <1>6, <1>8 DEF Listed, q

\* A step of the plan in hand is one of the plan that was given, or a payment offered for one of its bookings.
LEMMA EnsuredSteps ==
  ASSUME NEW p, Built(p)
  PROVE  LET q == EnsurePayment(p) IN
         /\ Listed(q) /\ DOMAIN p \subseteq DOMAIN q /\ \A i \in DOMAIN p : q[i] = p[i]
         /\ \A i \in DOMAIN q \ DOMAIN p : \E b \in DOMAIN p : p[b].tool = "book_parking" /\ Pays(q[i], p[b])
         /\ \A b \in DOMAIN p : Unpaid(p, p[b]) => \E i \in DOMAIN q : Pays(q[i], p[b])
<1>1. PICK n \in Nat : p = [i \in 1..n |-> p[i]]
  BY DEF Built, Listed
<1>2. DOMAIN p = 1..n
  BY <1>1
<1>3. PICK q : q = EnsurePayment(p)
  OBVIOUS
<1>4. Extends(p, q, n, n)
  BY <1>1, <1>3, EnsuredPayment
<1>5. PICK m \in Nat : m >= n /\ DOMAIN q = 1..m
  BY <1>4 DEF Extends
<1>6. q = [i \in 1..m |-> q[i]]
  <2>1. q \in Seq({q[i] : i \in DOMAIN q})
    BY <1>4 DEF Extends
  <2> DEFINE S == {q[i] : i \in DOMAIN q}
  <2> HIDE DEF S
  <2>2. q \in [1..Len(q) -> S]
    BY <2>1 DEF S
  <2>3. QED
    BY <1>5, <2>2
<1>7. \A i \in DOMAIN q \ DOMAIN p : i > n
  BY <1>2, <1>5
<1>8. \A i \in DOMAIN q \ DOMAIN p : \E b \in DOMAIN p : p[b].tool = "book_parking" /\ Pays(q[i], p[b])
  BY <1>2, <1>4, <1>7 DEF Extends, Unpaid
<1>9. DOMAIN p \subseteq DOMAIN q /\ \A i \in DOMAIN p : q[i] = p[i]
  BY <1>2, <1>4, <1>5 DEF Extends
<1>10. \A b \in DOMAIN p : Unpaid(p, p[b]) => \E i \in DOMAIN q : Pays(q[i], p[b])
  BY <1>2, <1>4 DEF Extends
<1>11. QED
  BY <1>3, <1>5, <1>6, <1>8, <1>9, <1>10 DEF Listed

\* The payment it adds takes both fields from its booking.
LEMMA PaysTakes ==
  ASSUME NEW t, NEW b, Pays(t, b), b.tool = "book_parking", b.id # 0
  PROVE  /\ DOMAIN t = StepParts /\ t.tool = "pay_fee" /\ DOMAIN t.input = Money
         /\ \A f \in Money : t.input[f] # Lit("remembered")
         /\ Takes(t, b) /\ RefersTo(t, b)
<1>1. DOMAIN t.input = Money /\ \A f \in Money : t.input[f] = InputRef(b.id, f)
  BY DEF Pays
<1>2. "amount" \in Money
  BY DEF Money
<1>3. t.input["amount"].from = b.id
  BY <1>1, <1>2, Literals
<1>4. QED
  BY <1>1, <1>2, <1>3, Literals DEF Pays, Takes, RefersTo

\* _ensure_payment_is_offered: every booking has a payment, and no other is charged.
LEMMA EnsuredFair ==
  ASSUME NEW p, Fair(p)
  PROVE  Fair(EnsurePayment(p)) /\ Offered(EnsurePayment(p))
<1>1. PICK q : q = EnsurePayment(p)
  OBVIOUS
<1>2. /\ Listed(q) /\ DOMAIN p \subseteq DOMAIN q /\ \A i \in DOMAIN p : q[i] = p[i]
      /\ \A i \in DOMAIN q \ DOMAIN p : \E b \in DOMAIN p : p[b].tool = "book_parking" /\ Pays(q[i], p[b])
      /\ \A b \in DOMAIN p : Unpaid(p, p[b]) => \E i \in DOMAIN q : Pays(q[i], p[b])
  BY <1>1, EnsuredSteps DEF Fair
<1>3. \A b \in DOMAIN p : p[b].tool = "book_parking" => p[b].id # 0
  BY DEF Fair, Built
<1>4. ASSUME NEW i \in DOMAIN q \ DOMAIN p
      PROVE  /\ DOMAIN q[i] = StepParts /\ q[i].tool = "pay_fee"
             /\ \A f \in DOMAIN q[i].input : q[i].input[f] # Lit("remembered")
             /\ \E b \in DOMAIN p : Takes(q[i], p[b])
  <2>1. PICK b \in DOMAIN p : p[b].tool = "book_parking" /\ Pays(q[i], p[b])
    BY <1>2
  <2>2. QED
    BY <1>3, <2>1, PaysTakes
<1>5. Built(q)
  BY <1>2, <1>4 DEF Fair, Built
<1>6. Fresh(q)
  BY <1>2, <1>4 DEF Fair, Fresh
<1>7. ASSUME NEW i \in DOMAIN q, q[i].tool = "pay_fee", Money \subseteq DOMAIN q[i].input
      PROVE  (\E b \in DOMAIN q : Takes(q[i], q[b])) \/ FromContext(q[i])
  <2>1. CASE i \in DOMAIN p
    <3>1. q[i] = p[i]
      BY <1>2, <2>1
    <3>2. (\E b \in DOMAIN p : Takes(p[i], p[b])) \/ FromContext(p[i])
      BY <1>7, <2>1, <3>1 DEF Fair, Charged
    <3>3. QED
      BY <1>2, <3>1, <3>2
  <2>2. CASE i \notin DOMAIN p
    BY <1>2, <1>4, <2>2
  <2>3. QED
    BY <2>1, <2>2
<1>8. ASSUME NEW b \in DOMAIN q, q[b].tool = "book_parking" PROVE \E i \in DOMAIN q : RefersTo(q[i], q[b])
  <2>1. b \in DOMAIN p /\ q[b] = p[b]
    <3>1. b \in DOMAIN p
      BY <1>4, <1>8
    <3>2. QED
      BY <1>2, <3>1
  <2>2. CASE Unpaid(p, p[b])
    <3>1. PICK i \in DOMAIN q : Pays(q[i], p[b])
      BY <1>2, <2>1, <2>2
    <3>2. RefersTo(q[i], q[b])
      BY <1>3, <1>8, <2>1, <3>1, PaysTakes
    <3>3. QED
      BY <3>2
  <2>3. CASE ~Unpaid(p, p[b])
    <3>1. PICK i \in DOMAIN p : RefersTo(p[i], p[b])
      BY <1>8, <2>1, <2>3 DEF Unpaid
    <3>2. QED
      BY <1>2, <2>1, <3>1
  <2>4. QED
    BY <2>2, <2>3
<1>9. QED
  BY <1>1, <1>5, <1>6, <1>7, <1>8 DEF Fair, Charged, Offered

\* What the user answered and who they are: no payment changes hands.
LEMMA AnsweredFair ==
  ASSUME NEW p, Fair(p), NEW said, said \subseteq UserProvided
  PROVE  Fair(ApplyAnswers(p, said))
<1>1. PICK q : q = ApplyAnswers(p, said)
  OBVIOUS
<1>2. /\ Listed(q) /\ DOMAIN q = DOMAIN p
      /\ \A i \in DOMAIN p :
           /\ DOMAIN q[i] = StepParts /\ q[i].id = p[i].id /\ q[i].tool = p[i].tool
           /\ DOMAIN q[i].input = DOMAIN p[i].input
           /\ \A f \in DOMAIN p[i].input :
                q[i].input[f] = IF f \in said /\ ~IsRef(p[i].input[f]) THEN Lit("answer") ELSE p[i].input[f]
  BY <1>1, Answered DEF Fair, Built
<1>3. Lit("answer") # Lit("remembered")
  BY Literals
<1>4. \A f \in Money : f \notin said
  BY DEF UserProvided, Money
<1>5. Built(q)
  BY <1>2 DEF Fair, Built
<1>6. Fresh(q)
  BY <1>2, <1>3 DEF Fair, Fresh
<1>7. ASSUME NEW i \in DOMAIN q, q[i].tool = "pay_fee", Money \subseteq DOMAIN q[i].input
      PROVE  (\E b \in DOMAIN q : Takes(q[i], q[b])) \/ FromContext(q[i])
  <2>1. p[i].tool = "pay_fee" /\ Money \subseteq DOMAIN p[i].input /\ i \in DOMAIN p
    BY <1>2, <1>7
  <2>2. \A f \in Money : q[i].input[f] = p[i].input[f]
    BY <1>2, <1>4, <2>1
  <2>3. (\E b \in DOMAIN p : Takes(p[i], p[b])) \/ FromContext(p[i])
    BY <2>1 DEF Fair, Charged
  <2>4. QED
    BY <1>2, <2>2, <2>3 DEF Takes, FromContext
<1>8. QED
  BY <1>1, <1>5, <1>6, <1>7 DEF Fair, Charged

LEMMA IdentifiedFair ==
  ASSUME NEW p, Fair(p), NEW ctx
  PROVE  Fair(InjectIdentity(p, ctx))
<1>1. PICK q : q = InjectIdentity(p, ctx)
  OBVIOUS
<1>2. /\ Listed(q) /\ DOMAIN q = DOMAIN p
      /\ \A i \in DOMAIN p :
           /\ DOMAIN q[i] = StepParts /\ q[i].id = p[i].id /\ q[i].tool = p[i].tool
           /\ DOMAIN p[i].input \subseteq DOMAIN q[i].input
           /\ DOMAIN q[i].input \subseteq DOMAIN p[i].input \cup {"resident_id"}
           /\ \A f \in DOMAIN p[i].input : q[i].input[f] = p[i].input[f]
           /\ \A f \in DOMAIN q[i].input \ DOMAIN p[i].input : q[i].input[f] = Lit("known")
  BY <1>1, Identified DEF Fair, Built
<1>3. Lit("known") # Lit("remembered") /\ "resident_id" \notin Money
  BY Literals DEF Money
<1>4. Built(q)
  BY <1>2 DEF Fair, Built
<1>5. ASSUME NEW i \in DOMAIN q, NEW f \in DOMAIN q[i].input \cap InputFields PROVE q[i].input[f] # Lit("remembered")
  <2>1. CASE f \in DOMAIN p[i].input
    BY <1>2, <2>1 DEF Fair, Fresh
  <2>2. CASE f \notin DOMAIN p[i].input
    BY <1>2, <1>3, <2>2
  <2>3. QED
    BY <2>1, <2>2
<1>6. ASSUME NEW i \in DOMAIN q, q[i].tool = "pay_fee", Money \subseteq DOMAIN q[i].input
      PROVE  (\E b \in DOMAIN q : Takes(q[i], q[b])) \/ FromContext(q[i])
  <2>1. p[i].tool = "pay_fee" /\ i \in DOMAIN p
    BY <1>2, <1>6
  <2>2. Money \subseteq DOMAIN p[i].input
    BY <1>2, <1>3, <1>6, <2>1
  <2>3. \A f \in Money : q[i].input[f] = p[i].input[f]
    BY <1>2, <2>1, <2>2
  <2>4. (\E b \in DOMAIN p : Takes(p[i], p[b])) \/ FromContext(p[i])
    BY <2>1, <2>2 DEF Fair, Charged
  <2>5. QED
    BY <1>2, <2>3, <2>4 DEF Takes, FromContext
<1>7. QED
  BY <1>1, <1>4, <1>5, <1>6 DEF Fair, Charged, Fresh

LEMMA CorrectedFair ==
  ASSUME NEW p, Fair(p), answers \subseteq UserProvided
  PROVE  Fair(Corrected(p)) /\ Offered(Corrected(p))
  BY AnsweredFair, IdentifiedFair, EnsuredFair DEF Corrected

\* _reject_untrusted_payment_values and _fields_taken_from_recall: what the planner returns.
LEMMA AnswerFair ==
  ASSUME PlanningAssumptions, NEW r \in Responses, Consistent(r), Recalled(r.plan) = {},
         r.status # "QUESTION", r.status # "NEEDS_INFORMATION"
  PROVE  Fair(r.plan)
<1>1. PICK p : p = r.plan
  OBVIOUS
<1>2. p \in Seq(ToSet(p)) /\ \A i \in DOMAIN p : DOMAIN p[i] = StepParts /\ p[i].id \in Nat \ {0}
  BY <1>1 DEF PlanningAssumptions
<1>3. PICK n \in Nat : n = Len(p) /\ DOMAIN p = 1..n /\ p = [i \in 1..n |-> p[i]]
  <2> DEFINE S == ToSet(p)
  <2>1. p \in Seq(S)
    BY <1>2
  <2> HIDE DEF S
  <2>2. Len(p) \in Nat /\ p \in [1..Len(p) -> S]
    BY <2>1
  <2>3. QED
    BY <2>2
<1>4. Built(p)
  <2>1. \A i \in DOMAIN p : DOMAIN p[i] = StepParts /\ p[i].id # 0
    BY <1>2
  <2>2. QED
    BY <1>3, <2>1 DEF Built, Listed
<1>5. Fresh(p)
  BY <1>1 DEF Recalled, Fresh
<1>6. r.status = "READY" => MoneyTrusted(p)
  BY <1>1 DEF Consistent
<1>7. r.status # "READY" => p = <<>>
  BY <1>1 DEF Consistent
<1>8. ASSUME NEW i \in DOMAIN p, p[i].tool = "pay_fee", Money \subseteq DOMAIN p[i].input
      PROVE  (\E b \in DOMAIN p : Takes(p[i], p[b])) \/ FromContext(p[i])
  <2>1. r.status = "READY"
    BY <1>7
  <2>2. FromOneBooking(p, p[i]) \/ FromContext(p[i])
    BY <1>6, <1>8, <2>1 DEF MoneyTrusted
  <2>3. CASE FromOneBooking(p, p[i])
    <3>1. PICK b \in Ids(p) : Of(p, b).tool = "book_parking" /\ \A f \in Money : p[i].input[f] = InputRef(b, f)
      BY <2>3 DEF FromOneBooking
    <3>2. PICK k \in DOMAIN p : p[k].id = b /\ Of(p, b) = p[k]
      BY <1>3, LastOf
    <3>3. Takes(p[i], p[k])
      BY <3>1, <3>2 DEF Takes
    <3>4. QED
      BY <3>3
  <2>4. QED
    BY <2>2, <2>3
<1>9. QED
  BY <1>1, <1>4, <1>5, <1>8 DEF Fair, Charged

LEMMA GreatestIndex ==
  ASSUME NEW n \in Nat, NEW T \in SUBSET (1..n), T # {}
  PROVE  \E m \in T : \A k \in T : k <= m
<1> DEFINE Back == {j \in Nat : j <= n /\ n - j \in T}
<1>1. PICK i \in T : TRUE
  OBVIOUS
<1>2. n - i \in Nat /\ n - i <= n /\ n - (n - i) = i
  OBVIOUS
<1>3. PICK j \in Back : \A k \in Back : j <= k
  <2>1. Back \in SUBSET Nat /\ Back # {}
    BY <1>1, <1>2
  <2> HIDE DEF Back
  <2>2. QED
    BY <2>1, LeastIndex
<1>4. j \in Nat /\ n - j \in T
  OBVIOUS
<1>5. ASSUME NEW k \in T PROVE k <= n - j
  <2>1. n - k \in Nat /\ n - k <= n /\ n - (n - k) = k
    OBVIOUS
  <2>2. n - k \in Back
    BY <2>1
  <2>3. j <= n - k
    BY <1>3, <2>2
  <2>4. QED
    BY <1>4, <2>3
<1>6. QED
  BY <1>4, <1>5

\* What the fast lane knows is what the user said or the account holds.
LEMMA KnownValues ==
  ASSUME PlanningAssumptions, NEW g \in Predictions, NEW f \in DOMAIN Values(g.found)
  PROVE  Values(g.found)[f] # "remembered"
<1>1. \A h \in DOMAIN g.found : g.found[h] # "remembered"
  BY DEF PlanningAssumptions
<1>2. QED
  BY <1>1 DEF Values

\* assemble_plan: the payment of a booking is linked to that booking alone.
LEMMA LaneFair ==
  ASSUME PlanningAssumptions, NEW p \in FastPlans
  PROVE  Fair(p)
<1>1. PICK g \in Predictions : p = Assemble(g.tools, Values(g.found))
  BY DEF FastPlans
<1>2. Validate(p, {}) = Valid
  BY DEF FastPlans
<1>3. WellFormed(p)
  BY <1>2, ValidMeans
<1> DEFINE values == Values(g.found)
           steps == WithConsequences(g.tools)
           order == Order(steps)
           maker(n, f) == {m \in 1..n - 1 : f \in Outputs[order[m]]}
           linked(n) == {f \in Needs[order[n]] : maker(n, f) # {}}
           source(n, f) == CHOOSE m \in maker(n, f) : \A k \in maker(n, f) : k <= m
           size == Cardinality(steps)
           given(n) == (Inputs[order[n]] \ Needs[order[n]]) \cap DOMAIN values
           put(n) == [f \in linked(n) \cup given(n) |->
                        IF f \in linked(n) THEN InputRef(source(n, f), f) ELSE Lit(values[f])]
<1>5. p = [n \in 1..size |-> [id |-> n, tool |-> order[n], deps |-> {source(n, f) : f \in linked(n)}, input |-> put(n)]]
  BY <1>1, Zenon DEF Assemble
<1>6. size \in Nat
  <2> DEFINE menu == {"register_vehicle", "book_parking", "schedule_move", "pay_fee"}
  <2>1. IsFiniteSet(menu)
    <3>1. IsFiniteSet({"pay_fee"}) /\ IsFiniteSet({"schedule_move"}) /\ IsFiniteSet({"book_parking"})
          /\ IsFiniteSet({"register_vehicle"})
      BY FS_Singleton
    <3>2. IsFiniteSet({"pay_fee"} \cup {"schedule_move"}) /\ IsFiniteSet({"book_parking"} \cup {"register_vehicle"})
      BY <3>1, FS_Union
    <3>3. IsFiniteSet(({"pay_fee"} \cup {"schedule_move"}) \cup ({"book_parking"} \cup {"register_vehicle"}))
      BY <3>2, FS_Union
    <3>4. menu = ({"pay_fee"} \cup {"schedule_move"}) \cup ({"book_parking"} \cup {"register_vehicle"})
      OBVIOUS
    <3>5. QED
      BY <3>3, <3>4
  <2>2. g.tools \in SUBSET {"register_vehicle", "book_parking", "schedule_move"}
    BY DEF PlanningAssumptions
  <2>3. steps \subseteq menu
    BY <2>2 DEF WithConsequences
  <2>4. QED
    BY <2>1, <2>3, FS_Subset, FS_CardinalityType
<1>7. \A n \in 1..size : maker(n, "amount") \in SUBSET (1..n - 1)
  OBVIOUS
<1>8. \A n \in 1..size : \A f \in given(n) : f \in DOMAIN values
  OBVIOUS
<1>9. \A n \in 1..size : /\ DOMAIN put(n) = linked(n) \cup given(n)
                         /\ \A f \in DOMAIN put(n) : put(n)[f] =
                              IF f \in linked(n) THEN InputRef(source(n, f), f) ELSE Lit(values[f])
  OBVIOUS
<1>10. \A n \in 1..size : \A f : source(n, f) = CHOOSE m \in maker(n, f) : \A k \in maker(n, f) : k <= m
  OBVIOUS
<1>11. \A n \in 1..size : \A f \in linked(n) : f \in Needs[order[n]] /\ maker(n, f) # {}
  OBVIOUS
<1>12. \A n \in 1..size : \A f : \A m : m \in maker(n, f) <=> m \in 1..n - 1 /\ f \in Outputs[order[m]]
  OBVIOUS
<1>13. \A n \in 1..size : given(n) = (Inputs[order[n]] \ Needs[order[n]]) \cap DOMAIN values
  OBVIOUS
<1>4. \A f \in DOMAIN values : values[f] # "remembered"
  BY KnownValues
<1> HIDE DEF values, steps, order, maker, linked, source, size, given, put
<1>14. DOMAIN p = 1..size /\ p = [n \in 1..size |-> p[n]]
  BY <1>5
<1>15. \A n \in 1..size : /\ DOMAIN p[n] = StepParts /\ p[n].id = n /\ p[n].tool = order[n] /\ p[n].input = put(n)
  BY <1>5 DEF StepParts
<1>16. Built(p)
  <2>1. \A n \in 1..size : n # 0
    BY <1>6
  <2>2. QED
    BY <1>6, <1>14, <1>15, <2>1 DEF Built, Listed
<1>17. \A n \in 1..size : order[n] \in DOMAIN Inputs
  BY <1>3, <1>14, <1>15 DEF WellFormed
<1>18. ASSUME NEW n \in DOMAIN p, NEW f \in DOMAIN p[n].input \cap InputFields PROVE p[n].input[f] # Lit("remembered")
  <2>1. n \in 1..size /\ f \in DOMAIN put(n) /\ p[n].input = put(n)
    BY <1>14, <1>15
  <2>2. CASE f \in linked(n)
    <3>1. f # "remembered"
      BY DEF InputFields, Inputs
    <3>2. p[n].input[f] = InputRef(source(n, f), f)
      BY <1>9, <2>1, <2>2
    <3>3. QED
      BY <3>1, <3>2, Literals
  <2>3. CASE f \notin linked(n)
    <3>1. f \in DOMAIN values /\ put(n)[f] = Lit(values[f])
      BY <1>8, <1>9, <2>1, <2>3
    <3>2. values[f] # "remembered"
      BY <1>4, <3>1
    <3>3. QED
      BY <2>1, <3>1, <3>2, Literals
  <2>4. QED
    BY <2>2, <2>3
<1>19. ASSUME NEW n \in DOMAIN p, p[n].tool = "pay_fee", Money \subseteq DOMAIN p[n].input
       PROVE  \E b \in DOMAIN p : Takes(p[n], p[b])
  <2>1. n \in 1..size /\ order[n] = "pay_fee" /\ p[n].input = put(n)
    BY <1>14, <1>15, <1>19
  <2>2. given(n) = {}
    <3>1. Needs["pay_fee"] = Money /\ Inputs["pay_fee"] = Money
      BY FieldNames DEF Needs
    <3>2. QED
      BY <1>13, <2>1, <3>1
  <2>3. \A f \in Money : f \in linked(n) /\ put(n)[f] = InputRef(source(n, f), f)
    BY <1>9, <1>19, <2>1, <2>2
  <2>4. \A m \in 1..n - 1 : m \in 1..size
    BY <1>6, <2>1
  <2>5. \A f \in Money : \A m : m \in maker(n, f) <=> m \in 1..n - 1 /\ order[m] = "book_parking"
    <3>1. \A f \in Money : \A t \in DOMAIN Inputs : f \in Outputs[t] <=> t = "book_parking"
      BY FieldNames, OutputNames DEF Money
    <3>2. QED
      BY <1>12, <1>17, <2>1, <2>4, <3>1
  <2>6. PICK T : T = {m \in 1..n - 1 : order[m] = "book_parking"}
    OBVIOUS
  <2>7. \A f \in Money : maker(n, f) = T
    BY <2>5, <2>6
  <2>8. T # {}
    <3>1. "amount" \in Money
      BY DEF Money
    <3>2. QED
      BY <1>11, <2>1, <2>3, <2>7, <3>1
  <2>9. PICK s : s = CHOOSE m \in T : \A k \in T : k <= m
    OBVIOUS
  <2>10. s \in T
    <3>1. n - 1 \in Nat /\ T \in SUBSET (1..n - 1)
      BY <1>6, <2>1, <2>6
    <3>2. \E m \in T : \A k \in T : k <= m
      BY <2>8, <3>1, GreatestIndex
    <3>3. QED
      BY <2>9, <3>2
  <2>11. \A f \in Money : source(n, f) = s
    BY <1>10, <2>1, <2>7, <2>9
  <2>12. s \in 1..size /\ order[s] = "book_parking"
    BY <2>4, <2>6, <2>10
  <2>13. p[s].tool = "book_parking" /\ p[s].id = s /\ s \in DOMAIN p
    BY <1>14, <1>15, <2>12
  <2>14. \A f \in Money : p[n].input[f] = InputRef(p[s].id, f)
    BY <2>1, <2>3, <2>11, <2>13
  <2>15. QED
    BY <2>13, <2>14 DEF Takes
<1>20. QED
  BY <1>16, <1>18, <1>19 DEF Fair, Fresh, Charged

-------------------------------------------------------------------------------
(* One step of a request.                                                     *)

LEMMA StillFair ==
  ASSUME NEW p, Fair(p), plan' = p, known' = known
  PROVE  Fair(plan)'
  BY DEF Fair, Built, Listed, Fresh, Charged, Takes, FromContext

LEMMA StillOffered == ASSUME NEW p, Offered(p), plan' = p PROVE Offered(plan)'
  BY DEF Offered, RefersTo

LEMMA StillFaulty ==
  ASSUME plan' = plan, late => late', NEW i \in DOMAIN plan, Faulty(plan, plan[i])
  PROVE  Faulty(plan, plan[i])'
  BY DEF Faulty, PastDate, BadPlate, KeepsContract, GoodRef, Of, IsRef, Lit

\* Nothing is planned, and the request has not got to a run.
LEMMA Waits ==
  ASSUME Planned, stage \notin {"running", "paused"}, stage' \notin {"validate", "execute", "running", "paused"},
         done' = done, refusal' = refusal, answers' \subseteq UserProvided
  PROVE  Planned'
  BY DEF Planned

LEMMA PlanReady ==
  ASSUME Planned, stage \notin {"running", "paused"}, NEW p, Fair(p), Ready(p),
         known' = known, answers' = answers, done' = done, refusal' = refusal
  PROVE  Planned'
<1>1. PICK q : q = Corrected(p)
  OBVIOUS
<1>2. Fair(q) /\ Offered(q)
  BY <1>1, CorrectedFair DEF Planned
<1>3. plan' = q /\ stage' = "validate"
  BY <1>1 DEF Ready
<1>4. Fair(plan)' /\ Offered(plan)'
  BY <1>2, <1>3, StillFair, StillOffered
<1>5. QED
  BY <1>3, <1>4 DEF Planned

LEMMA AskedStage == ASSUME NEW fs, Asks(fs) PROVE stage' \in {"asking", "refused"}
  BY DEF Asks

LEMMA AnswerStep == ASSUME PlanningAssumptions, Planned, AskPlanner PROVE Planned'
<1>1. stage = "plan" /\ answers \subseteq UserProvided
      /\ known' = known /\ answers' = answers /\ done' = done /\ refusal' = refusal
  BY DEF AskPlanner, Planned
<1>2. CASE stage' \in {"plan", "asking", "refused"}
  BY <1>1, <1>2, Waits
<1>3. CASE stage' \notin {"plan", "asking", "refused"}
  <2>1. ~Refuse /\ \A fs : ~Asks(fs)
    BY <1>3, AskedStage DEF Refuse
  <2>2. PICK r \in Responses : IF ~Consistent(r)
                               THEN IF tries = Retries THEN Refuse /\ UNCHANGED tries
                                    ELSE tries' = tries + 1 /\ UNCHANGED <<stage, plan, asked>>
                               ELSE TakeAnswer(r) /\ UNCHANGED tries
    BY <2>1 DEF AskPlanner
  <2>3. Consistent(r) /\ TakeAnswer(r)
    BY <1>1, <1>3, <2>1, <2>2
  <2>4. r.status # "QUESTION" /\ r.status # "NEEDS_INFORMATION" /\ Recalled(r.plan) = {} /\ Ready(r.plan)
    BY <2>1, <2>3 DEF TakeAnswer
  <2>5. Fair(r.plan)
    BY <2>3, <2>4, AnswerFair
  <2>6. QED
    BY <1>1, <2>4, <2>5, PlanReady
<1>4. QED
  BY <1>2, <1>3

LEMMA LaneStep == ASSUME PlanningAssumptions, Planned, TakeFastLane PROVE Planned'
<1>1. stage = "lane" /\ answers \subseteq UserProvided
      /\ known' = known /\ answers' = answers /\ done' = done /\ refusal' = refusal
  BY DEF TakeFastLane, Planned
<1>2. CASE stage' = "plan"
  BY <1>1, <1>2, Waits
<1>3. CASE stage' # "plan"
  <2>1. PICK p \in FastPlans : Ready(p)
    BY <1>3 DEF TakeFastLane
  <2>2. Fair(p)
    BY LaneFair
  <2>3. QED
    BY <1>1, <2>1, <2>2, PlanReady
<1>4. QED
  BY <1>2, <1>3

LEMMA ValidateStep == ASSUME Planned, ValidatePlan PROVE Planned'
<1>1. stage = "validate" /\ answers \subseteq UserProvided /\ plan' = plan
      /\ known' = known /\ answers' = answers /\ done' = done /\ refusal' = refusal
  BY DEF ValidatePlan, Planned
<1>2. stage' \in {"execute", "asking", "refused"}
  <2>1. \/ stage' = "execute" \/ stage' = "refused" \/ \E fs : Asks(fs)
    BY DEF ValidatePlan
  <2>2. QED
    BY <2>1, AskedStage
<1>3. CASE stage' = "execute"
  <2>1. Fair(plan) /\ Offered(plan) /\ done = {} /\ refusal = "none"
    BY <1>1 DEF Planned
  <2>2. Fair(plan)' /\ Offered(plan)'
    BY <1>1, <2>1, StillFair, StillOffered
  <2>3. QED
    BY <1>1, <1>3, <2>1, <2>2 DEF Planned
<1>4. CASE stage' # "execute"
  BY <1>1, <1>2, <1>4, Waits
<1>5. QED
  BY <1>3, <1>4

\* ResidentAccessBoundary: a plan that starts is valid and the account's own.
LEMMA ExecuteStep == ASSUME Planned, Execute PROVE Planned'
<1>1. stage = "execute" /\ answers \subseteq UserProvided /\ plan' = plan /\ done = {} /\ refusal = "none"
      /\ known' = known /\ answers' = answers /\ done' = done /\ refusal' = refusal
  BY DEF Execute, Planned
<1>2. CASE stage' = "running"
  <2>1. Fair(plan) /\ Offered(plan)
    BY <1>1 DEF Planned
  <2>2. Fair(plan)' /\ Offered(plan)'
    BY <1>1, <2>1, StillFair, StillOffered
  <2>3. OwnIdentity(plan) /\ Validate(plan, {}) = Valid
    BY <1>1, <1>2 DEF Execute
  <2>4. Runnable(plan') /\ Own(plan')
    BY <1>1, <2>3, ValidRuns DEF OwnIdentity, Own
  <2>5. QED
    BY <1>1, <1>2, <2>2, <2>4 DEF Planned
<1>3. CASE stage' # "running"
  <2>1. stage' = "refused"
    BY <1>3 DEF Execute
  <2>2. QED
    BY <1>1, <2>1, Waits
<1>4. QED
  BY <1>2, <1>3

\* What runs or waits goes on with the plan it has.
LEMMA GoesOn ==
  ASSUME Planned, stage \in {"running", "paused"}, stage' \in {"running", "paused"},
         known' = known, answers' = answers, plan' = plan, refusal' = "resume" => stage' = "paused" /\ Blamed'
  PROVE  Planned'
<1>1. Fair(plan) /\ Offered(plan) /\ Runnable(plan) /\ Own(plan) /\ answers \subseteq UserProvided
  BY DEF Planned
<1>2. Fair(plan)' /\ Offered(plan)'
  BY <1>1, StillFair, StillOffered
<1>3. Runnable(plan') /\ Own(plan')
  BY <1>1
<1>4. QED
  BY <1>1, <1>2, <1>3 DEF Planned

LEMMA ResumeStep == ASSUME Planned, Resumes PROVE Planned'
<1>1. stage = "paused" /\ known' = known /\ answers' = answers /\ plan' = plan /\ done' = done /\ late' = late
  BY DEF Resumes
<1>2. CASE refusal' = "resume"
  <2>1. Runnable(plan)
    BY <1>1 DEF Planned
  <2>2. Validate(plan, done) # Valid /\ stage' = stage
    BY <1>2 DEF Resumes
  <2>3. PICK i \in DOMAIN plan : plan[i].id \notin done /\ Faulty(plan, plan[i])
    BY <2>1, <2>2, RefusedBlames
  <2>4. Faulty(plan, plan[i])'
    BY <1>1, <2>3, StillFaulty
  <2>5. Blamed'
    BY <1>1, <2>3, <2>4 DEF Blamed
  <2>6. QED
    BY <1>1, <2>2, <2>5, GoesOn
<1>3. CASE refusal' # "resume"
  <2>1. stage' = "running"
    BY <1>3 DEF Resumes
  <2>2. QED
    BY <1>1, <1>3, <2>1, GoesOn
<1>4. QED
  BY <1>2, <1>3

\* rerun_with_answers: the answers take the place of literals, and the whole plan is validated.
LEMMA RerunStep == ASSUME Planned, Reruns PROVE Planned'
<1>1. stage = "paused" /\ known' = known /\ answers' = answers /\ done' = done /\ late' = late
  BY DEF Reruns
<1>2. PICK said \in SUBSET (UserProvided \cap InputFields) :
        IF Validate(ApplyAnswers(plan, said), {}) = Valid /\ Validate(ApplyAnswers(plan, said), done) = Valid
        THEN stage' = "running" /\ refusal' = "none" /\ plan' = ApplyAnswers(plan, said)
        ELSE refusal' = "rerun" /\ UNCHANGED <<stage, plan>>
  BY DEF Reruns
<1>3. PICK q : q = ApplyAnswers(plan, said)
  OBVIOUS
<1>4. Fair(plan) /\ Offered(plan) /\ Runnable(plan) /\ Own(plan) /\ answers \subseteq UserProvided
  BY <1>1 DEF Planned
<1>5. CASE refusal' = "rerun"
  <2>1. stage' = "paused" /\ plan' = plan
    BY <1>1, <1>2, <1>5
  <2>2. QED
    BY <1>1, <1>5, <2>1, GoesOn
<1>6. CASE refusal' # "rerun"
  <2>1. stage' = "running" /\ refusal' = "none" /\ plan' = q /\ Validate(q, {}) = Valid
    BY <1>2, <1>3, <1>6
  <2>2. said \subseteq UserProvided
    OBVIOUS
  <2>3. Fair(q)
    BY <1>3, <1>4, <2>2, AnsweredFair
  <2>4. /\ DOMAIN q = DOMAIN plan
        /\ \A i \in DOMAIN plan :
             /\ q[i].id = plan[i].id /\ q[i].tool = plan[i].tool
             /\ DOMAIN q[i].input = DOMAIN plan[i].input
             /\ \A f \in DOMAIN plan[i].input : q[i].input[f] =
                  IF f \in said /\ ~IsRef(plan[i].input[f]) THEN Lit("answer") ELSE plan[i].input[f]
    BY <1>3, <1>4, Answered DEF Fair, Built
  <2>5. ASSUME NEW b \in DOMAIN q, q[b].tool = "book_parking" PROVE \E i \in DOMAIN q : RefersTo(q[i], q[b])
    <3>1. plan[b].tool = "book_parking" /\ q[b].id = plan[b].id /\ b \in DOMAIN plan
      BY <2>4, <2>5
    <3>2. PICK i \in DOMAIN plan : RefersTo(plan[i], plan[b])
      BY <1>4, <3>1 DEF Offered
    <3>3. PICK f \in DOMAIN plan[i].input : plan[i].input[f].from = plan[b].id
      BY <3>2 DEF RefersTo
    <3>4. plan[b].id # 0
      BY <1>4, <3>1 DEF Fair, Built
    <3>5. IsRef(plan[i].input[f])
      BY <3>3, <3>4 DEF IsRef
    <3>6. q[i].input[f] = plan[i].input[f] /\ f \in DOMAIN q[i].input /\ q[i].tool = "pay_fee"
      BY <2>4, <3>2, <3>5 DEF RefersTo
    <3>7. QED
      BY <2>4, <3>1, <3>3, <3>6 DEF RefersTo
  <2>6. "resident_id" \notin said
    BY <2>2 DEF UserProvided
  <2>7. Own(q)
    BY <1>4, <2>4, <2>6 DEF Own
  <2>8. Runnable(q)
    BY <2>1, ValidRuns
  <2>9. Fair(plan)' /\ Offered(plan)'
    BY <1>1, <2>1, <2>3, <2>5, StillFair, StillOffered DEF Offered
  <2>10. Runnable(plan') /\ Own(plan')
    BY <2>1, <2>7, <2>8
  <2>11. QED
    BY <1>1, <1>4, <2>1, <2>9, <2>10 DEF Planned
<1>7. QED
  BY <1>5, <1>6

LEMMA MidnightStep ==
  ASSUME Planned, late => late',
         UNCHANGED <<known, answers, round, stage, tries, plan, asked, done, refusal>>
  PROVE  Planned'
<1>1. CASE stage \in {"running", "paused"}
  <2>1. ASSUME refusal = "resume" PROVE Blamed'
    <3>1. PICK i \in DOMAIN plan : plan[i].id \notin done /\ Faulty(plan, plan[i])
      BY <2>1 DEF Planned, Blamed
    <3>2. Faulty(plan, plan[i])'
      BY <3>1, StillFaulty
    <3>3. QED
      BY <3>1, <3>2 DEF Blamed
  <2>2. QED
    BY <1>1, <2>1, GoesOn DEF Planned
<1>2. CASE stage \notin {"running", "paused"}
  <2>1. CASE stage \in {"validate", "execute"}
    <3>1. Fair(plan) /\ Offered(plan) /\ answers \subseteq UserProvided /\ done = {} /\ refusal = "none"
      BY <1>2, <2>1 DEF Planned
    <3>2. Fair(plan)' /\ Offered(plan)'
      BY <3>1, StillFair, StillOffered
    <3>3. QED
      BY <2>1, <3>1, <3>2 DEF Planned
  <2>2. CASE stage \notin {"validate", "execute"}
    BY <1>2, <2>2, Waits DEF Planned
  <2>3. QED
    BY <2>1, <2>2
<1>3. QED
  BY <1>1, <1>2

LEMMA PlannedStep ==
  ASSUME PlanningAssumptions, Planned, [PlanningNext]_planningVars
  PROVE  Planned'
<1>1. CASE TakeFastLane
  BY <1>1, LaneStep
<1>2. CASE AskPlanner
  BY <1>2, AnswerStep
<1>3. CASE ValidatePlan
  BY <1>3, ValidateStep
<1>4. CASE Execute
  BY <1>4, ExecuteStep
<1>5. CASE DirectoryRefuses
  BY <1>5, Waits DEF DirectoryRefuses, Refuse, Planned
<1>6. CASE Reply
  <2>1. stage = "asking" /\ stage' = "lane" /\ done' = done /\ refusal' = refusal
    BY <1>6 DEF Reply
  <2>2. answers' \subseteq UserProvided
    BY <1>6 DEF Reply
  <2>3. QED
    BY <2>1, <2>2, Waits
<1>7. CASE Midnight
  BY <1>7, MidnightStep DEF Midnight
<1>8. CASE Succeeds
  <2>1. stage = "running" /\ stage' = stage /\ known' = known /\ answers' = answers /\ plan' = plan
        /\ refusal' = refusal
    BY <1>8 DEF Succeeds
  <2>2. refusal' # "resume"
    BY <2>1 DEF Planned
  <2>3. QED
    BY <2>1, <2>2, GoesOn
<1>9. CASE Pauses
  <2>1. stage = "running" /\ stage' = "paused" /\ known' = known /\ answers' = answers /\ plan' = plan
        /\ refusal' = refusal
    BY <1>9 DEF Pauses
  <2>2. refusal' # "resume"
    BY <2>1 DEF Planned
  <2>3. QED
    BY <2>1, <2>2, GoesOn
<1>10. CASE Resumes
  BY <1>10, ResumeStep
<1>11. CASE Reruns
  BY <1>11, RerunStep
<1>12. CASE UNCHANGED planningVars
  BY <1>12, MidnightStep DEF planningVars
<1>13. QED
  BY <1>1, <1>2, <1>3, <1>4, <1>5, <1>6, <1>7, <1>8, <1>9, <1>10, <1>11, <1>12 DEF PlanningNext

LEMMA PlannedInit == ASSUME PlanningInit PROVE Planned
  BY DEF PlanningInit, Planned

LEMMA AlwaysPlanned == ASSUME PlanningAssumptions PROVE PlanningSpec => []Planned
<1>1. PlanningInit => Planned
  BY PlannedInit
<1>2. Planned /\ [PlanningNext]_planningVars => Planned'
  BY PlannedStep
<1>3. QED
  BY <1>1, <1>2, PTL DEF PlanningSpec

\* In a plan that may run, the payment that refers to a booking waits for it and takes both
\* fields from it; a payment of an earlier workflow's booking refers to none.
LEMMA PaidUp ==
  ASSUME NEW p, Fair(p), Offered(p), Runnable(p)
  PROVE  /\ \A b \in DOMAIN p : p[b].tool = "book_parking" =>
              \E i \in DOMAIN p : /\ p[i].tool = "pay_fee" /\ p[b].id \in p[i].deps
                                  /\ \A f \in Money : p[i].input[f] = InputRef(p[b].id, f)
         /\ \A i \in DOMAIN p : p[i].tool = "pay_fee" => FromOneBooking(p, p[i]) \/ FromContext(p[i])
<1>1. ASSUME NEW i \in DOMAIN p, p[i].tool = "pay_fee"
      PROVE  /\ DOMAIN p[i].input = Money
             /\ \A f \in Money : IsRef(p[i].input[f]) => p[i].input[f].from \in p[i].deps
             /\ (\E c \in DOMAIN p : Takes(p[i], p[c])) \/ FromContext(p[i])
  <2>1. DOMAIN p[i].input = Money
    BY <1>1, FieldNames DEF Runnable, KeepsContract
  <2>2. \A f \in DOMAIN p[i].input : IsRef(p[i].input[f]) => GoodRef(p, p[i], f)
    BY DEF Runnable
  <2>3. \A f \in DOMAIN p[i].input : GoodRef(p, p[i], f) => p[i].input[f].from \in p[i].deps
    BY DEF GoodRef
  <2>4. (\E c \in DOMAIN p : Takes(p[i], p[c])) \/ FromContext(p[i])
    BY <1>1, <2>1 DEF Fair, Charged
  <2>5. QED
    BY <2>1, <2>2, <2>3, <2>4
<1>2. ASSUME NEW b \in DOMAIN p, p[b].tool = "book_parking"
      PROVE  \E i \in DOMAIN p : /\ p[i].tool = "pay_fee" /\ p[b].id \in p[i].deps
                                 /\ \A f \in Money : p[i].input[f] = InputRef(p[b].id, f)
  <2>1. PICK i \in DOMAIN p : RefersTo(p[i], p[b])
    BY <1>2 DEF Offered
  <2>2. p[i].tool = "pay_fee"
    BY <2>1 DEF RefersTo
  <2>3. PICK f \in Money : p[i].input[f].from = p[b].id
    BY <1>1, <2>1, <2>2 DEF RefersTo
  <2>4. IsRef(p[i].input[f])
    BY <1>2, <2>3 DEF Fair, Built, IsRef
  <2>5. PICK c \in DOMAIN p : Takes(p[i], p[c])
    <3>1. ~FromContext(p[i])
      BY <2>4, Literals DEF FromContext
    <3>2. QED
      BY <1>1, <2>2, <3>1
  <2>6. p[c].id = p[b].id
    BY <2>3, <2>5, Literals DEF Takes
  <2>7. \A h \in Money : p[i].input[h] = InputRef(p[b].id, h)
    BY <2>5, <2>6 DEF Takes
  <2>8. p[b].id \in p[i].deps
    BY <1>1, <2>2, <2>3, <2>4
  <2>9. QED
    BY <2>2, <2>7, <2>8
<1>3. ASSUME NEW i \in DOMAIN p, p[i].tool = "pay_fee", ~FromContext(p[i]) PROVE FromOneBooking(p, p[i])
  <2>1. PICK c \in DOMAIN p : Takes(p[i], p[c])
    BY <1>1, <1>3
  <2>2. p[c].id \in Ids(p)
    BY DEF Ids
  <2>3. PICK n \in Nat : DOMAIN p = 1..n
    BY DEF Fair, Built, Listed
  <2>4. PICK k \in DOMAIN p : p[k].id = p[c].id /\ Of(p, p[c].id) = p[k]
    BY <2>2, <2>3, LastOf
  <2>5. k = c
    BY <2>4 DEF Runnable, WellFormed
  <2>6. Of(p, p[c].id).tool = "book_parking" /\ \A f \in Money : p[i].input[f] = InputRef(p[c].id, f)
    BY <2>1, <2>4, <2>5 DEF Takes
  <2>7. QED
    BY <2>2, <2>6 DEF FromOneBooking
<1>4. QED
  BY <1>2, <1>3

LEMMA PlannedPays == ASSUME Planned PROVE BookingsArePaid
<1> SUFFICES ASSUME stage = "running"
             PROVE  /\ \A b \in Tasks : b.tool = "book_parking" =>
                         \E t \in Tasks : /\ t.tool = "pay_fee" /\ b.id \in t.deps
                                          /\ \A f \in Money : t.input[f] = InputRef(b.id, f)
                    /\ \A t \in Tasks : t.tool = "pay_fee" => FromOneBooking(plan, t) \/ FromContext(t)
  BY DEF BookingsArePaid
<1>1. Fair(plan) /\ Offered(plan) /\ Runnable(plan)
  BY DEF Planned
<1>2. /\ \A b \in DOMAIN plan : plan[b].tool = "book_parking" =>
           \E i \in DOMAIN plan : /\ plan[i].tool = "pay_fee" /\ plan[b].id \in plan[i].deps
                                  /\ \A f \in Money : plan[i].input[f] = InputRef(plan[b].id, f)
      /\ \A i \in DOMAIN plan : plan[i].tool = "pay_fee" => FromOneBooking(plan, plan[i]) \/ FromContext(plan[i])
  BY <1>1, PaidUp
<1>3. QED
  BY <1>2 DEF Tasks

LEMMA PlannedOwn == ASSUME Planned PROVE OwnWordsOnly
<1> SUFFICES ASSUME stage = "running", NEW i \in DOMAIN plan
             PROVE  /\ \A f \in DOMAIN plan[i].input : plan[i].input[f] # Lit("remembered")
                    /\ plan[i].tool = "register_vehicle" => plan[i].input["resident_id"] = Lit("known")
  BY DEF OwnWordsOnly, Tasks
<1>1. Fair(plan) /\ Runnable(plan) /\ Own(plan)
  BY DEF Planned
<1>2. DOMAIN plan[i].input \subseteq InputFields
  <2>1. DOMAIN plan[i].input \subseteq Inputs[plan[i].tool] /\ plan[i].tool \in DOMAIN Inputs
    BY <1>1 DEF Runnable, KeepsContract, WellFormed
  <2>2. QED
    BY <2>1 DEF InputFields
<1>3. QED
  BY <1>1, <1>2 DEF Fair, Fresh, Own

\* In every plan that runs, whatever the model answered, each booking has a payment that waits
\* for it and takes the booking and the amount from it, and no payment takes them from elsewhere
\* (_ensure_payment_is_offered, _reject_untrusted_payment_values, TaskPlanValidator, the reruns).
THEOREM PaidWhatWasBooked == ASSUME PlanningAssumptions PROVE PlanningSpec => []BookingsArePaid
  BY AlwaysPlanned, PlannedPays, PTL

\* No value recalled from an older conversation and no identity but the account's gets into a
\* plan that runs, from the fast lane, the planner, an answer or a rerun.
THEOREM OwnWords == ASSUME PlanningAssumptions PROVE PlanningSpec => []OwnWordsOnly
  BY AlwaysPlanned, PlannedOwn, PTL

\* A paused workflow is refused for a step that is still open and no longer valid: never for
\* one that ran, for the shape of the plan or for a field that is missing.
THEOREM BlamesOpenSteps == ASSUME PlanningAssumptions PROVE PlanningSpec => []ResumeBlamesOpenSteps
<1>1. Planned => ResumeBlamesOpenSteps
  BY DEF Planned, Blamed, ResumeBlamesOpenSteps, Tasks
<1>2. QED
  BY <1>1, AlwaysPlanned, PTL

===============================================================================
