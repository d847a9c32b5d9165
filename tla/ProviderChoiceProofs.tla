-------------------------- MODULE ProviderChoiceProofs --------------------------
(***************************************************************************)
(* Proofs about ProviderChoice for any companies, prices and number of     *)
(* attempts, offers and requests.                                          *)
(*                                                                         *)
(* DealIsKept: the open offer of a step is its last one, and a quote that  *)
(* was confirmed stays so (RInv); so what is confirmed next is the newest. *)
(* BookedWasAgreed: as long as no offer was pinned on a deal, a step has    *)
(* no open card beside a confirmed one (BInv), and nobody can put what a   *)
(* company agreed to before it again.                                      *)
(* RefusedStaysOut: the attempts form a line (CInv): all but the last are  *)
(* cancelled and refused for good, one handler at a time asks for the      *)
(* last, and it asks none of those who refused.                            *)
(***************************************************************************)
EXTENDS ProviderChoice, FiniteSetTheorems, WellFoundedInduction, TLAPS

Pipe == {"match", "clean", "ask", "choose", "offer"}
Stages == Pipe \cup {"idle", "park", "switch", "after", "look", "run", "supersede"}
Ranks == {"ACTIVE", "CONFIRMED", "EXPIRED", "SUPERSEDED"}
Cards == {"PROPOSED", "CONFIRMED", "EXPIRED", "SUPERSEDED"}
QuoteRow == [of : Attempts, by : Movers, for : Details, status : Ranks, late : BOOLEAN]
OfferRow == [of : Attempts, quote : Nat, status : Cards]
QueueRow == [status : {"NONE", "AWAITING", "APPROVED", "REJECTED"}, by : SUBSET Movers,
             for : SUBSET Details, code : Codes \cup {"NONE"}]
Hand == [at : Stages, of : Attempts, old : Attempts, shut : SUBSET Movers, pick : SUBSET Nat,
         run : SUBSET Steps]

Columns ==
  /\ wf \in {"PENDING", "WAITING_APPROVAL"} \cup Final
  /\ step \in [Steps -> {"absent", "PENDING", "WAITING_APPROVAL"} \cup Final]
  /\ details \in [Attempts -> Details]
  /\ sent \subseteq Steps /\ hint \subseteq Attempts
  /\ late \in 0..MaxLate /\ failures \in 0..MaxFailures
  /\ lax \subseteq {"switched", "stale", "behind", "unasked"}
Tables == quotes \in Seq(QuoteRow) /\ offers \in Seq(OfferRow) /\ queue \in [Steps -> QueueRow]
Seats == hand \in [Handlers -> Hand]
Typed == Columns /\ Tables /\ Seats

\* What the rows of quotes, offers and the queue have to do with each other.
There(t) == step[t] # "absent"
Known(o) == offers[o].quote \in DOMAIN quotes /\ quotes[offers[o].quote].of = offers[o].of
Rooted(q) == There(quotes[q].of) /\ quotes[q].for = details[quotes[q].of]
OpenIsLast ==
  \A o, p \in DOMAIN offers : offers[o].status = "PROPOSED" /\ offers[p].of = offers[o].of => p <= o
Deal(o) ==
  LET t == offers[o].of  q == offers[o].quote
  IN  (\A p \in DOMAIN offers : offers[p].of = t /\ offers[p].status = "CONFIRMED" => p <= o)
        => queue[t].by = {quotes[q].by} /\ queue[t].for = {quotes[q].for} /\ queue[t].status # "NONE"
NoDeal(t) == \A o \in DOMAIN offers : offers[o].of = t => offers[o].status # "CONFIRMED"
RInv ==
  /\ \A o \in DOMAIN offers : Known(o)
  /\ \A q \in DOMAIN quotes : Rooted(q)
  /\ OpenIsLast
  /\ \A o \in DOMAIN offers : offers[o].status = "CONFIRMED"
       => quotes[offers[o].quote].status = "CONFIRMED" /\ Deal(o)
  /\ \A t \in Attempts : NoDeal(t) => queue[t].status = "NONE"
  /\ \A t \in sent : There(t)
  /\ \A t \in Steps : queue[t].status # "NONE" => There(t)
  /\ queue[0].status # "REJECTED"
  /\ \A t \in hint : There(t)
HandOk(h) ==
  /\ hand[h].pick \subseteq DOMAIN quotes
  /\ hand[h].at \in Pipe => There(hand[h].of)
  /\ hand[h].at = "supersede" => There(hand[h].old)
  /\ \A t \in hand[h].run : There(t)
HInv == \A h \in Handlers : HandOk(h)

-------------------------------------------------------------------------------
(* Types *)

LEMMA IdleTyped == ASSUME ChoiceAssumptions PROVE Idle \in Hand /\ 1 \in Attempts /\ Job \in Handlers
BY DEF ChoiceAssumptions, Idle, Hand, Stages, Pipe, Attempts, Handlers

LEMMA InitTyped == ASSUME ChoiceAssumptions, Init PROVE Typed
<1>1. Columns
  BY DEF Init, Columns, Final, Steps, Attempts, ChoiceAssumptions
<1>2. Tables
  BY DEF Init, Tables, NoRow, QueueRow
<1>3. [Idle EXCEPT !.at = "park"] \in Hand
  BY IdleTyped DEF Hand, Stages, Pipe
<1>4. Seats
  BY <1>3, IdleTyped DEF Init, Seats
<1>5. QED
  BY <1>1, <1>2, <1>4 DEF Typed

LEMMA InitRooted == ASSUME ChoiceAssumptions, Init PROVE RInv /\ HInv
<1>1. RInv
  BY DEF Init, RInv, OpenIsLast, NoRow, Attempts, Steps
<1>2. HInv
  BY DEF Init, HInv, HandOk, Idle, Pipe
<1>3. QED
  BY <1>1, <1>2

LEMMA Seated ==
  ASSUME NEW h \in Handlers, NEW x \in Hand, Seats, hand' = [hand EXCEPT ![h] = x]
  PROVE  Seats' /\ hand'[h] = x /\ \A g \in Handlers : g # h => hand'[g] = hand[g]
BY DEF Seats

\* Every action writes one handler, or none.
LEMMA Goes ==
  ASSUME NEW h \in Handlers, NEW at \in Stages, Seats, Go(h, at)
  PROVE  Seats' /\ hand'[h] = [hand[h] EXCEPT !.at = at]
         /\ \A g \in Handlers : g # h => hand'[g] = hand[g]
BY DEF Seats, Go, Hand

LEMMA Ended ==
  ASSUME ChoiceAssumptions, NEW h \in Handlers, Seats, Ends(h)
  PROVE  Seats' /\ hand'[h] = Idle /\ \A g \in Handlers : g # h => hand'[g] = hand[g]
BY IdleTyped, Seated DEF Ends

\* Movers are finitely many, so an enumeration of some of them has a length.
LEMMA MoversFinite == ASSUME ChoiceAssumptions PROVE IsFiniteSet(Movers)
<1>1. Companies \in Seq(Movers)
  BY DEF ChoiceAssumptions
<1>2. PICK n \in Nat : DOMAIN Companies = 1..n
  BY <1>1
<1>3. IsFiniteSet(1..n)
  BY <1>2, FS_Interval
<1>4. Companies \in Surjection(1..n, Movers)
  BY <1>1, <1>2 DEF Movers, Range, Surjection
<1>5. QED
  BY <1>3, <1>4, FS_Surjection

\* What a step leaves of the rows: the statement is about a handler, a status or a company's
\* answer, and about no quote, no offer and no name in the queue.
Still ==
  /\ UNCHANGED <<details, quotes, offers>>
  /\ \A t \in Steps : There(t)' <=> There(t)
  /\ \A t \in Attempts : /\ queue'[t].by = queue[t].by /\ queue'[t].for = queue[t].for
                         /\ queue'[t].status = "NONE" <=> queue[t].status = "NONE"
  /\ \A t \in Steps : queue'[t].status # "NONE" => queue[t].status # "NONE" \/ There(t)
  /\ queue'[0].status = "REJECTED" => queue[0].status = "REJECTED"

LEMMA StillRows ==
  ASSUME ChoiceAssumptions, Typed, RInv, Still, sent' \subseteq sent \cup {t \in Steps : There(t)},
         hint' \subseteq hint \cup {t \in Attempts : There(t)}
  PROVE  RInv'
<1>1. /\ \A o \in DOMAIN offers : offers[o] \in OfferRow
      /\ \A q \in DOMAIN quotes : quotes[q] \in QuoteRow
  BY DEF Typed, Tables
<1>2. \A o \in DOMAIN offers : Known(o)' /\ (Deal(o) => Deal(o)')
  BY <1>1 DEF RInv, Known, Still, Deal, OfferRow
<1>3. \A q \in DOMAIN quotes : Rooted(q)'
  BY <1>1 DEF RInv, Rooted, Still, QuoteRow, Attempts, Steps
<1>4. OpenIsLast'
  BY DEF RInv, OpenIsLast, Still
<1>5. \A t \in Attempts : NoDeal(t)' => queue'[t].status = "NONE"
  BY DEF RInv, NoDeal, Still
<1>6. \A t \in sent' : There(t)'
  BY DEF RInv, Still, Typed, Columns
<1>7. \A t \in Steps : queue'[t].status # "NONE" => There(t)'
  BY DEF RInv, Still
<1>8. \A t \in hint' : There(t)'
  BY DEF RInv, Still, Typed, Columns, Attempts, Steps
<1>9. QED
  BY <1>2, <1>3, <1>4, <1>5, <1>6, <1>7, <1>8 DEF RInv, Still

\* Of a handler that moves, only its own place has to be looked at.
LEMMA StillHands ==
  ASSUME NEW h \in Handlers, HInv, HandOk(h)',
         \A g \in Handlers : g # h => hand'[g] = hand[g],
         DOMAIN quotes \subseteq DOMAIN quotes', \A t \in Steps : There(t) => There(t)',
         \A g \in Handlers : hand[g].of \in Steps /\ hand[g].old \in Steps /\ hand[g].run \subseteq Steps
  PROVE  HInv'
BY DEF HInv, HandOk

Sound == Typed /\ RInv /\ HInv

LEMMA InSteps ==
  ASSUME Seats
  PROVE  \A g \in Handlers : /\ hand[g].of \in Steps /\ hand[g].old \in Steps /\ hand[g].run \subseteq Steps
                             /\ hand[g] \in Hand
BY DEF Seats, Hand, Attempts, Steps

LEMMA IdleOk == ASSUME NEW h \in Handlers, hand'[h] = Idle PROVE HandOk(h)'
BY DEF HandOk, Idle, Pipe

\* The steps that are still, given what they do to the columns and to one handler.
LEMMA StillSound ==
  ASSUME ChoiceAssumptions, Sound, NEW h \in Handlers, NEW x \in Hand,
         hand' = [hand EXCEPT ![h] = x], HandOk(h)', Still, Columns', queue' \in [Steps -> QueueRow],
         sent' \subseteq sent \cup {t \in Steps : There(t)},
         hint' \subseteq hint \cup {t \in Attempts : There(t)}
  PROVE  Sound'
<1>1. Seats' /\ \A g \in Handlers : g # h => hand'[g] = hand[g]
  BY Seated DEF Sound, Typed
<1>2. Typed'
  BY <1>1 DEF Sound, Typed, Tables, Still
<1>3. RInv'
  BY StillRows DEF Sound
<1>4. HInv'
  BY <1>1, StillHands, InSteps DEF Sound, Typed, Still
<1>5. QED
  BY <1>2, <1>3, <1>4 DEF Sound

LEMMA ParksSound ==
  ASSUME ChoiceAssumptions, Sound, NEW h \in Handlers, Parks(h)
  PROVE  Sound' /\ Still
<1>1. Still
  BY DEF Parks, Still, Gated, Present, There, Sound, Typed, Columns
<1>2. Columns'
  BY DEF Parks, bounds, Sound, Typed, Columns
<1>3. PICK x \in Hand : /\ hand' = [hand EXCEPT ![h] = x]
                        /\ x.pick = hand[h].pick /\ x.run = hand[h].run
                        /\ x.at \in Pipe => There(x.of)
                        /\ x.at # "supersede"
  <2>1. CASE Gated \cap Attempts = {}
    <3>1. [hand[h] EXCEPT !.at = "after"] \in Hand
      BY DEF Sound, Typed, Seats, Hand, Stages
    <3>2. hand' = [hand EXCEPT ![h] = [hand[h] EXCEPT !.at = "after"]]
      BY <2>1 DEF Parks, Go, Sound, Typed, Seats
    <3>3. QED
      BY <3>1, <3>2 DEF Hand, Pipe
  <2>2. CASE Gated \cap Attempts # {}
    <3>1. PICK t \in Gated \cap Attempts : hand' = [hand EXCEPT ![h].at = "match", ![h].of = t]
      BY <2>2 DEF Parks
    <3>2. [hand[h] EXCEPT !.at = "match", !.of = t] \in Hand
      BY <3>1 DEF Sound, Typed, Seats, Hand, Stages, Pipe
    <3>3. hand' = [hand EXCEPT ![h] = [hand[h] EXCEPT !.at = "match", !.of = t]]
      BY <3>1 DEF Sound, Typed, Seats
    <3>4. There(t)
      BY <3>1 DEF Gated, Present, There
    <3>5. QED
      BY <3>2, <3>3, <3>4 DEF Hand
  <2>3. QED
    BY <2>1, <2>2
<1>4. HandOk(h)'
  BY <1>1, <1>3, InSteps, Seated DEF HandOk, Sound, HInv, Still, Typed, Hand, Attempts, Steps
<1>5. QED
  BY <1>1, <1>2, <1>3, <1>4, StillSound DEF Parks, Sound, Typed, Tables

LEMMA MatchesSound ==
  ASSUME ChoiceAssumptions, Sound, NEW h \in Handlers, Matches(h)
  PROVE  Sound' /\ Still
<1>1. Still /\ Columns'
  BY DEF Matches, tables, bounds, Still, There, Sound, Typed, Columns
<1>2. PICK at \in {"after", "clean"} : Go(h, at)
  BY DEF Matches
<1>3. [hand[h] EXCEPT !.at = at] \in Hand /\ hand' = [hand EXCEPT ![h] = [hand[h] EXCEPT !.at = at]]
  BY <1>2 DEF Go, Sound, Typed, Seats, Hand, Stages, Pipe
<1>4. HandOk(h)'
  BY <1>1, <1>2, <1>3, Seated, InSteps DEF HandOk, Sound, HInv, Still, Typed, Hand, Matches, Pipe
<1>5. QED
  BY <1>1, <1>3, <1>4, StillSound DEF Matches, tables, Sound, Typed, Tables

LEMMA EndsSound ==
  ASSUME ChoiceAssumptions, Sound, NEW h \in Handlers, Ends(h), Still, Columns',
         queue' \in [Steps -> QueueRow], sent' = sent, hint' = hint
  PROVE  Sound'
<1>1. hand' = [hand EXCEPT ![h] = Idle] /\ HandOk(h)'
  BY Ended, IdleOk DEF Ends, Sound, Typed
<1>2. QED
  BY <1>1, IdleTyped, StillSound

LEMMA AfterSound ==
  ASSUME ChoiceAssumptions, Sound, NEW h \in Handlers, After(h)
  PROVE  Sound' /\ Still
<1>1. /\ queue' \in [Steps -> QueueRow] /\ \A t \in Attempts : queue'[t] = queue[t]
      /\ \A t \in Steps : queue'[t] # queue[t] => There(t)
      /\ queue'[0].status = "REJECTED" => queue[0].status = "REJECTED"
  <2>1. [NoRow EXCEPT !.status = "AWAITING"] \in QueueRow
    BY DEF NoRow, QueueRow
  <2>2. /\ queue \in [Steps -> QueueRow] /\ 0 \notin Attempts /\ Attempts \subseteq Steps /\ 0 \in Steps
    BY DEF Sound, Typed, Tables, Attempts, Steps, ChoiceAssumptions
  <2>3. \/ queue' = queue
        \/ 0 \in Gated /\ queue' = [queue EXCEPT ![0] = [NoRow EXCEPT !.status = "AWAITING"]]
    BY DEF After
  <2>4. QED
    BY <2>1, <2>2, <2>3 DEF Gated, Present, There, NoRow
<1>2. Still /\ Columns'
  BY <1>1 DEF After, bounds, Still, There, Sound, Typed, Columns
<1>3. QED
  BY <1>1, <1>2, EndsSound DEF After

LEMMA SaysSound ==
  ASSUME ChoiceAssumptions, Sound, NEW h \in Requests, Says(h)
  PROVE  Sound' /\ Still
<1>1. Still /\ Columns' /\ h \in Handlers
  BY DEF Says, tables, bounds, Still, There, Sound, Typed, Columns, Handlers
<1>2. PICK q \in DOMAIN quotes : hand' = [hand EXCEPT ![h] = [Idle EXCEPT !.at = "switch", !.pick = {q}]]
  BY DEF Says, Live
<1>3. [Idle EXCEPT !.at = "switch", !.pick = {q}] \in Hand
  <2>1. q \in Nat
    BY DEF Sound, Typed, Tables
  <2>2. QED
    BY <2>1, IdleTyped DEF Hand, Stages
<1>4. HandOk(h)'
  <2>1. hand'[h] = [Idle EXCEPT !.at = "switch", !.pick = {q}]
    BY <1>1, <1>2, <1>3, Seated DEF Sound, Typed
  <2>2. hand'[h].pick = {q} /\ hand'[h].at = "switch" /\ hand'[h].run = {}
    BY <2>1 DEF Idle
  <2>3. QED
    BY <1>1, <2>2 DEF HandOk, Still, Pipe
<1>5. QED
  BY <1>1, <1>2, <1>3, <1>4, StillSound DEF Says, tables, Sound, Typed, Tables

LEMMA DecidesSound ==
  ASSUME ChoiceAssumptions, Sound, NEW h \in Requests, Decides(h)
  PROVE  Sound' /\ Still
<1>1. PICK t \in Steps :
        /\ queue[t].status = "AWAITING"
        /\ \/ queue' = [queue EXCEPT ![t].status = "APPROVED"]
           \/ t # 0 /\ \E c \in Codes : queue' = [queue EXCEPT ![t].status = "REJECTED", ![t].code = c]
  BY DEF Decides, Rows
<1>2. queue \in [Steps -> QueueRow]
  BY DEF Sound, Typed, Tables
<1>3. /\ queue' \in [Steps -> QueueRow]
      /\ \A u \in Steps : /\ queue'[u].by = queue[u].by /\ queue'[u].for = queue[u].for
                          /\ queue'[u].status = "NONE" <=> queue[u].status = "NONE"
      /\ queue'[0].status = "REJECTED" => queue[0].status = "REJECTED"
  <2>0. 0 \in Steps
    BY DEF Steps, ChoiceAssumptions
  <2> DEFINE Goal == /\ queue' \in [Steps -> QueueRow]
                     /\ \A u \in Steps : /\ queue'[u].by = queue[u].by /\ queue'[u].for = queue[u].for
                                         /\ queue'[u].status = "NONE" <=> queue[u].status = "NONE"
                     /\ queue'[0].status = "REJECTED" => queue[0].status = "REJECTED"
  <2>1. CASE queue' = [queue EXCEPT ![t].status = "APPROVED"]
    BY <1>1, <1>2, <2>0, <2>1 DEF QueueRow
  <2>2. ASSUME t # 0, NEW c \in Codes, queue' = [queue EXCEPT ![t].status = "REJECTED", ![t].code = c]
        PROVE  Goal
    BY <1>1, <1>2, <2>0, <2>2 DEF QueueRow
  <2>3. QED
    BY <1>1, <2>1, <2>2
<1>4. Still /\ Columns' /\ h \in Handlers
  BY <1>3 DEF Decides, bounds, Still, There, Sound, Typed, Columns, Handlers, Attempts, Steps
<1>5. [Idle EXCEPT !.at = "look"] \in Hand /\ hand' = [hand EXCEPT ![h] = [Idle EXCEPT !.at = "look"]]
  BY IdleTyped DEF Hand, Stages, Decides
<1>6. HandOk(h)'
  <2>1. hand'[h] = [Idle EXCEPT !.at = "look"]
    BY <1>4, <1>5, Seated DEF Sound, Typed
  <2>2. hand'[h].pick = {} /\ hand'[h].at = "look" /\ hand'[h].run = {}
    BY <2>1 DEF Idle
  <2>3. QED
    BY <2>2 DEF HandOk, Pipe
<1>7. QED
  BY <1>3, <1>4, <1>5, <1>6, StillSound DEF Decides

LEMMA LooksSound ==
  ASSUME ChoiceAssumptions, Sound, NEW h \in Handlers, Looks(h)
  PROVE  Sound' /\ Still
<1>1. CASE StillAsked # {}
  <2>1. Ends(h) /\ Still /\ Columns' /\ queue' = queue /\ sent' = sent /\ hint' = hint
    BY <1>1 DEF Looks, bounds, Still, There, Sound, Typed, Columns
  <2>2. QED
    BY <2>1, EndsSound DEF Sound, Typed, Tables
<1>2. CASE StillAsked = {}
  <2>1. /\ step' = [t \in Steps |-> IF t \in Refused THEN "CANCELLED"
                                    ELSE IF queue[t].status = "APPROVED" /\ step[t] \notin Final
                                    THEN "PENDING" ELSE step[t]]
        /\ hint' = hint \cup Fixable
    BY <1>2 DEF Looks
  <2>2. step' \in [Steps -> {"absent", "PENDING", "WAITING_APPROVAL"} \cup Final]
    BY <2>1 DEF Sound, Typed, Columns, Final
  <2>3. Columns'
    <3>1. wf' \in {"PENDING", "WAITING_APPROVAL"} \cup Final
      BY <1>2 DEF Looks, Sound, Typed, Columns, Final
    <3>2. lax' \subseteq {"switched", "stale", "behind", "unasked"}
      BY <1>2 DEF Looks, Sound, Typed, Columns
    <3>3. Fixable \subseteq Attempts
      <4>1. ASSUME NEW t \in Fixable PROVE t # 0
        BY DEF Fixable, Refused, Rows, Sound, RInv
      <4>2. QED
        BY <4>1 DEF Fixable, Refused, Rows, Steps, Attempts, ChoiceAssumptions
    <3>4. QED
      BY <2>1, <2>2, <3>1, <3>2, <3>3 DEF Looks, bounds, Sound, Typed, Columns
  <2>4. Still
    <3>1. \A t \in Steps : There(t)' <=> There(t)
      BY <2>1 DEF There, Refused, Rows, Final, Sound, RInv
    <3>2. QED
      BY <3>1, <1>2 DEF Looks, Still
  <2>5. [hand[h] EXCEPT !.at = "run", !.run = LeftToRun, !.shut = {}] \in Hand
    BY DEF LeftToRun, Present, Sound, Typed, Seats, Hand, Stages
  <2>6. hand' = [hand EXCEPT ![h] = [hand[h] EXCEPT !.at = "run", !.run = LeftToRun, !.shut = {}]]
    BY <1>2 DEF Looks, Sound, Typed, Seats
  <2>7. HandOk(h)'
    <3>1. /\ hand'[h].at = "run" /\ hand'[h].pick = hand[h].pick
          /\ hand'[h].run = {t \in Present : step[t] \notin {"SUCCESS", "CANCELLED"}} \ Refused
      BY <2>5, <2>6, Seated DEF Sound, Typed, LeftToRun, Seats, Hand
    <3>2. QED
      BY <3>1, <2>4 DEF Still, HandOk, Pipe, Present, There, Sound, HInv
  <2>8. queue' \in [Steps -> QueueRow] /\ sent' = sent
    BY <1>2 DEF Looks, Sound, Typed, Tables
  <2>9. hint' \subseteq hint \cup {t \in Attempts : There(t)}
    <3>1. \A t \in Fixable : There(t)
      BY DEF Fixable, Refused, Rows, Sound, RInv
    <3>2. hint' = hint \cup Fixable /\ hint' \subseteq Attempts
      BY <2>1, <2>3 DEF Columns
    <3>3. QED
      BY <3>1, <3>2
  <2>10. QED
    BY <2>3, <2>4, <2>5, <2>6, <2>7, <2>8, <2>9, StillSound
<1>3. QED
  BY <1>1, <1>2

LEMMA SendsSound ==
  ASSUME ChoiceAssumptions, Sound, NEW h \in Handlers, Sends(h)
  PROVE  Sound' /\ Still /\ \A t \in Steps : step'[t] = "FAILED" => step[t] = "FAILED" \/ t \in sent'
<1>1. PICK t \in hand[h].run :
        /\ hand' = [hand EXCEPT ![h].run = @ \ {t}]
        /\ sent' = sent \/ sent' = sent \cup {t}
        /\ \E s \in {"SUCCESS", "FAILED", "CANCELLED"} : step' = [step EXCEPT ![t] = s]
        /\ step'[t] = "FAILED" => t \in sent'
  <2>1. PICK t \in hand[h].run :
          /\ hand' = [hand EXCEPT ![h].run = @ \ {t}]
          /\ IF step[t] \in {"SUCCESS", "CANCELLED"} \/ t \in sent
             THEN step' = [step EXCEPT ![t] = IF @ \in {"SUCCESS", "CANCELLED"} THEN @ ELSE "FAILED"]
                  /\ UNCHANGED sent
             ELSE /\ sent' = sent \cup {t}
                  /\ \E s \in {"SUCCESS", "FAILED"} : step' = [step EXCEPT ![t] = s]
    BY DEF Sends
  <2>2. t \in Steps /\ step \in [Steps -> {"absent", "PENDING", "WAITING_APPROVAL"} \cup Final]
    BY <2>1, InSteps DEF Sound, Typed, Columns
  <2>3. CASE step[t] \in {"SUCCESS", "CANCELLED"}
    BY <2>1, <2>2, <2>3
  <2>4. CASE step[t] \notin {"SUCCESS", "CANCELLED"} /\ t \in sent
    BY <2>1, <2>2, <2>4
  <2>5. CASE step[t] \notin {"SUCCESS", "CANCELLED"} /\ t \notin sent
    BY <2>1, <2>2, <2>5
  <2>6. QED
    BY <2>3, <2>4, <2>5
<1>2. t \in Steps /\ There(t) /\ hand[h].run \subseteq Steps /\ sent \subseteq Steps
  BY <1>1, InSteps DEF Sound, Typed, HInv, HandOk, Columns
<1>3. PICK s \in {"SUCCESS", "FAILED", "CANCELLED"} : step' = [step EXCEPT ![t] = s]
  BY <1>1
<1>4. step' \in [Steps -> {"absent", "PENDING", "WAITING_APPROVAL"} \cup Final]
  BY <1>2, <1>3 DEF Sound, Typed, Columns, Final
<1>5. Columns'
  BY <1>1, <1>2, <1>4 DEF Sends, bounds, Sound, Typed, Columns
<1>6. Still
  <2>1. \A u \in Steps : There(u)' <=> There(u)
    BY <1>2, <1>3 DEF There, Sound, Typed, Columns
  <2>2. QED
    BY <2>1 DEF Sends, Still
<1>7. [hand[h] EXCEPT !.run = @ \ {t}] \in Hand /\ hand' = [hand EXCEPT ![h] = [hand[h] EXCEPT !.run = @ \ {t}]]
  BY <1>1, <1>2 DEF Sound, Typed, Seats, Hand
<1>8. HandOk(h)'
  <2>1. hand'[h] = [hand[h] EXCEPT !.run = @ \ {t}] /\ hand[h] \in Hand
    BY <1>7, Seated, InSteps DEF Sound, Typed
  <2>2. /\ hand'[h].at = hand[h].at /\ hand'[h].pick = hand[h].pick /\ hand'[h].of = hand[h].of
        /\ hand'[h].run \subseteq hand[h].run /\ hand[h].of \in Steps
    BY <2>1 DEF Hand, Attempts, Steps
  <2>3. quotes' = quotes /\ hand[h].at = "run"
    BY DEF Sends
  <2>4. HandOk(h)
    BY DEF Sound, HInv
  <2>5. QED
    BY <1>2, <1>6, <2>2, <2>3, <2>4 DEF Still, HandOk, Pipe
<1>9. Sound'
  <2>1. queue' \in [Steps -> QueueRow]
    BY DEF Sends, Sound, Typed, Tables
  <2>2. sent' \subseteq sent \cup {u \in Steps : There(u)}
    BY <1>1, <1>2
  <2>3. hint' = hint
    BY DEF Sends
  <2>4. QED
    BY <1>5, <1>6, <1>7, <1>8, <2>1, <2>2, <2>3, StillSound
<1>10. QED
  BY <1>1, <1>2, <1>3, <1>6, <1>9 DEF Sound, Typed, Columns

LEMMA ConcludesSound ==
  ASSUME ChoiceAssumptions, Sound, NEW h \in Handlers, Concludes(h)
  PROVE  Sound' /\ Still
<1>1. wf' \in {"PENDING", "WAITING_APPROVAL"} \cup Final
  BY DEF Concludes, FinalStatus, Sound, Typed, Columns, Final
<1>2. Still /\ Columns'
  BY <1>1 DEF Concludes, bounds, Still, There, Sound, Typed, Columns
<1>3. QED
  BY <1>2, EndsSound DEF Concludes, Sound, Typed, Tables

LEMMA AnotherSound ==
  ASSUME ChoiceAssumptions, Sound, NEW h \in Requests, AsksForAnother(h)
  PROVE  Sound' /\ Still
<1>1. Still /\ Columns' /\ h \in Handlers
  BY DEF AsksForAnother, tables, bounds, Still, There, Sound, Typed, Columns, Handlers
<1>2. PICK t \in Rows("REJECTED") \cap Attempts, k \in Attempts :
        hand' = [hand EXCEPT ![h] = [Idle EXCEPT !.at = "supersede", !.old = t, !.of = k, !.shut = SaidNo]]
  BY DEF AsksForAnother, NextAttempt
<1>3. SaidNo \subseteq Movers
  BY DEF SaidNo, Rows, Sound, Typed, Tables, QueueRow
<1>4. [Idle EXCEPT !.at = "supersede", !.old = t, !.of = k, !.shut = SaidNo] \in Hand
  BY <1>3, IdleTyped DEF Hand, Stages
<1>5. HandOk(h)'
  <2>1. hand'[h] = [Idle EXCEPT !.at = "supersede", !.old = t, !.of = k, !.shut = SaidNo]
    BY <1>1, <1>2, <1>4, Seated DEF Sound, Typed
  <2>2. hand'[h].pick = {} /\ hand'[h].at = "supersede" /\ hand'[h].run = {} /\ hand'[h].old = t
    BY <2>1 DEF Idle
  <2>3. There(t)'
    BY <1>1, <1>2 DEF Rows, Sound, RInv, Still
  <2>4. QED
    BY <2>2, <2>3 DEF HandOk, Pipe
<1>6. QED
  BY <1>1, <1>2, <1>4, <1>5, StillSound DEF AsksForAnother, tables, Sound, Typed, Tables

LEMMA ChoosesSound ==
  ASSUME ChoiceAssumptions, Sound, NEW h \in Handlers, Chooses(h)
  PROVE  Sound' /\ Still
<1>1. Still /\ Columns'
  BY DEF Chooses, tables, bounds, Still, There, Sound, Typed, Columns
<1>2. PICK best \in SUBSET DOMAIN quotes, at \in {"after", "offer"} :
        hand' = [hand EXCEPT ![h].pick = best, ![h].shut = {}, ![h].at = at]
  BY DEF Chooses, Best, Live
<1>3. DOMAIN quotes \subseteq Nat
  BY DEF Sound, Typed, Tables
<1>4. /\ [hand[h] EXCEPT !.pick = best, !.shut = {}, !.at = at] \in Hand
      /\ hand' = [hand EXCEPT ![h] = [hand[h] EXCEPT !.pick = best, !.shut = {}, !.at = at]]
  BY <1>2, <1>3 DEF Sound, Typed, Seats, Hand, Stages, Pipe
<1>5. HandOk(h)'
  <2>1. hand'[h] = [hand[h] EXCEPT !.pick = best, !.shut = {}, !.at = at] /\ hand[h] \in Hand
    BY <1>4, Seated, InSteps DEF Sound, Typed
  <2>2. /\ hand'[h].at # "supersede"
        /\ hand'[h].pick = best /\ hand'[h].of = hand[h].of /\ hand[h].of \in Steps
        /\ hand'[h].run = hand[h].run /\ hand[h].run \subseteq Steps
    BY <2>1 DEF Hand, Attempts, Steps
  <2>3. HandOk(h) /\ hand[h].at \in Pipe /\ quotes' = quotes
    BY DEF Sound, HInv, Chooses, Pipe, tables
  <2>4. QED
    BY <1>1, <1>2, <2>2, <2>3 DEF Still, HandOk
<1>6. QED
  BY <1>1, <1>4, <1>5, StillSound DEF Chooses, tables, Sound, Typed, Tables

LEMMA StopsSound ==
  ASSUME ChoiceAssumptions, Sound, Stops
  PROVE  Sound' /\ Still
<1>1. \A t \in Steps : There(t)' <=> There(t)
  BY DEF Stops, There, Sound, Typed, Columns
<1>2. Still
  BY <1>1 DEF Stops, Still
<1>3. Typed'
  BY DEF Stops, bounds, Final, Sound, Typed, Columns, Tables, Seats
<1>4. RInv'
  BY <1>2, StillRows DEF Stops, Sound
<1>5. HInv'
  BY <1>1, InSteps DEF Stops, Sound, Typed, HInv, HandOk, Attempts, Steps
<1>6. QED
  BY <1>2, <1>3, <1>4, <1>5 DEF Sound

-------------------------------------------------------------------------------
(* The steps that write quotes and offers *)

\* Rows keep what they are about; a card may close, a quote may, and a deal does not.
Tidied ==
  /\ UNCHANGED <<details, queue, step, sent, hint>>
  /\ quotes' \in Seq(QuoteRow) /\ offers' \in Seq(OfferRow)
  /\ DOMAIN quotes' = DOMAIN quotes /\ DOMAIN offers' = DOMAIN offers
  /\ \A q \in DOMAIN quotes : /\ quotes'[q].of = quotes[q].of /\ quotes'[q].by = quotes[q].by
                              /\ quotes'[q].for = quotes[q].for
                              /\ quotes[q].status = "CONFIRMED" => quotes'[q].status = "CONFIRMED"
  /\ \A o \in DOMAIN offers : /\ offers'[o].of = offers[o].of /\ offers'[o].quote = offers[o].quote
                              /\ \/ offers'[o].status = offers[o].status
                                 \/ /\ offers[o].status = "PROPOSED"
                                    /\ offers'[o].status \in {"EXPIRED", "SUPERSEDED"}

LEMMA SameLength ==
  ASSUME NEW S, NEW T, NEW s \in Seq(S), NEW f, f = [i \in DOMAIN s |-> f[i]],
         \A i \in DOMAIN s : f[i] \in T
  PROVE  f \in Seq(T) /\ DOMAIN f = DOMAIN s
<1>1. PICK n \in Nat : DOMAIN s = 1..n
  OBVIOUS
<1>2. f \in [1..n -> T]
  BY <1>1
<1>3. QED
  BY <1>1, <1>2

LEMMA TidyRows == ASSUME Sound, Tidied PROVE RInv'
<1>1. \A o \in DOMAIN offers : offers'[o].status = "CONFIRMED" <=> offers[o].status = "CONFIRMED"
  BY DEF Tidied
<1>2. \A o \in DOMAIN offers : Known(o)' /\ Known(o)
  BY DEF Sound, RInv, Known, Tidied
<1>3. ASSUME NEW o \in DOMAIN offers, Deal(o) PROVE Deal(o)'
  <2>1. /\ offers'[o].of = offers[o].of /\ offers'[o].quote = offers[o].quote
        /\ offers[o].quote \in DOMAIN quotes
    BY <1>2 DEF Tidied, Known
  <2>2. /\ quotes'[offers[o].quote].by = quotes[offers[o].quote].by
        /\ quotes'[offers[o].quote].for = quotes[offers[o].quote].for
    BY <2>1 DEF Tidied
  <2>3. (\A p \in DOMAIN offers' : offers'[p].of = offers'[o].of /\ offers'[p].status = "CONFIRMED" => p <= o)
          => (\A p \in DOMAIN offers : offers[p].of = offers[o].of /\ offers[p].status = "CONFIRMED" => p <= o)
    BY <1>1, <2>1 DEF Tidied
  <2>4. queue' = queue
    BY DEF Tidied
  <2>5. QED
    BY <1>3, <2>1, <2>2, <2>3, <2>4 DEF Deal
<1>4. \A q \in DOMAIN quotes : Rooted(q)'
  BY DEF Sound, RInv, Rooted, There, Tidied
<1>5. OpenIsLast'
  BY DEF Sound, RInv, OpenIsLast, Tidied
<1>6. \A o \in DOMAIN offers : offers'[o].status = "CONFIRMED"
        => quotes'[offers'[o].quote].status = "CONFIRMED" /\ Deal(o)'
  BY <1>1, <1>2, <1>3 DEF Sound, RInv, Known, Tidied
<1>7. \A t \in Attempts : NoDeal(t)' => NoDeal(t)
  BY <1>1 DEF NoDeal, Tidied
<1>8. QED
  BY <1>2, <1>4, <1>5, <1>6, <1>7 DEF Sound, RInv, There, Tidied

LEMMA TidyHands ==
  ASSUME NEW h \in Handlers, Sound, Tidied, HandOk(h)', \A g \in Handlers : g # h => hand'[g] = hand[g]
  PROVE  HInv'
BY StillHands, InSteps DEF Tidied, Sound, Typed, There

\* A place in the line that a handler takes after the one it had there.
LEMMA NextPlace ==
  ASSUME Sound, NEW h \in Handlers, hand[h].at \in Pipe, NEW at \in Pipe \cup {"after"}, Go(h, at),
         DOMAIN quotes \subseteq DOMAIN quotes', \A t \in Steps : There(t) => There(t)'
  PROVE  HandOk(h)' /\ Seats' /\ \A g \in Handlers : g # h => hand'[g] = hand[g]
<1>1. /\ Seats' /\ hand'[h] = [hand[h] EXCEPT !.at = at]
      /\ \A g \in Handlers : g # h => hand'[g] = hand[g]
  BY Goes DEF Sound, Typed, Stages
<1>2. /\ hand'[h].pick = hand[h].pick /\ hand'[h].of = hand[h].of /\ hand[h].of \in Steps
      /\ hand'[h].run = hand[h].run /\ hand[h].run \subseteq Steps
  BY <1>1, InSteps DEF Sound, Typed, Hand
<1>3. HandOk(h)
  BY DEF Sound, HInv
<1>4. hand'[h].at = at /\ at # "supersede"
  BY <1>1, InSteps DEF Sound, Typed, Hand, Pipe
<1>5. QED
  BY <1>1, <1>2, <1>3, <1>4 DEF HandOk

LEMMA CleansSound ==
  ASSUME ChoiceAssumptions, Sound, NEW h \in Handlers, Cleans(h)
  PROVE  Sound' /\ Tidied
<1>1. \A q \in DOMAIN quotes : quotes[q] \in QuoteRow
  BY DEF Sound, Typed, Tables
<1>2. \A o \in DOMAIN offers : offers[o] \in OfferRow
  BY DEF Sound, Typed, Tables
<1>3. /\ quotes' \in Seq(QuoteRow) /\ DOMAIN quotes' = DOMAIN quotes
      /\ \A q \in DOMAIN quotes : /\ quotes'[q].of = quotes[q].of /\ quotes'[q].by = quotes[q].by
                                  /\ quotes'[q].for = quotes[q].for
                                  /\ quotes[q].status = "CONFIRMED" => quotes'[q].status = "CONFIRMED"
  <2>1. quotes' = Cleaned(hand[h].of) /\ quotes \in Seq(QuoteRow)
    BY DEF Cleans, Sound, Typed, Tables
  <2>2. \A q \in DOMAIN quotes : quotes'[q] \in QuoteRow
    BY <1>1, <2>1 DEF Cleaned, QuoteRow, Ranks
  <2>3. quotes' \in Seq(QuoteRow) /\ DOMAIN quotes' = DOMAIN quotes
    <3>1. quotes' = [q \in DOMAIN quotes |-> quotes'[q]]
      BY <2>1 DEF Cleaned
    <3>2. QED
      BY <2>1, <2>2, <3>1, SameLength
  <2>4. QED
    BY <1>1, <2>1, <2>3 DEF Cleaned, Stale, QuoteRow
<1>4. /\ offers' \in Seq(OfferRow) /\ DOMAIN offers' = DOMAIN offers
      /\ \A o \in DOMAIN offers : /\ offers'[o].of = offers[o].of /\ offers'[o].quote = offers[o].quote
                                  /\ \/ offers'[o].status = offers[o].status
                                     \/ /\ offers[o].status = "PROPOSED"
                                        /\ offers'[o].status \in {"EXPIRED", "SUPERSEDED"}
  <2>1. /\ offers' = [o \in DOMAIN offers |->
                        IF o \in Proposed(hand[h].of) /\ quotes'[offers[o].quote].status \in {"SUPERSEDED", "EXPIRED"}
                        THEN [offers[o] EXCEPT !.status = quotes'[offers[o].quote].status] ELSE offers[o]]
        /\ offers \in Seq(OfferRow)
    BY DEF Cleans, Followed, Sound, Typed, Tables
  <2>2. \A o \in DOMAIN offers : offers'[o] \in OfferRow
    BY <1>2, <2>1 DEF OfferRow, Cards
  <2>3. offers' \in Seq(OfferRow) /\ DOMAIN offers' = DOMAIN offers
    <3>1. offers' = [o \in DOMAIN offers |-> offers'[o]]
      BY <2>1
    <3>2. offers \in Seq(OfferRow)
      BY <2>1
    <3>3. QED
      BY <2>2, <3>1, <3>2, SameLength
  <2>4. QED
    BY <1>2, <2>1, <2>3 DEF Proposed, OfferRow
<1>5. Tidied
  BY <1>3, <1>4 DEF Tidied, Cleans
<1>6. HandOk(h)' /\ Seats' /\ \A g \in Handlers : g # h => hand'[g] = hand[g]
  BY <1>5, NextPlace DEF Cleans, Pipe, Tidied, There
<1>7. QED
  BY <1>5, <1>6, TidyRows, TidyHands DEF Cleans, bounds, Tidied, Sound, Typed, Columns, Tables

LEMMA RunsOutSound ==
  ASSUME ChoiceAssumptions, Sound, RunsOut
  PROVE  Sound' /\ Tidied
<1>1. PICK q \in DOMAIN quotes : Usable(q) /\ quotes' = [quotes EXCEPT ![q].late = TRUE]
  BY DEF RunsOut
<1>2. quotes \in Seq(QuoteRow)
  BY DEF Sound, Typed, Tables
<1>3. /\ quotes' \in Seq(QuoteRow) /\ DOMAIN quotes' = DOMAIN quotes
      /\ \A r \in DOMAIN quotes : /\ quotes'[r].of = quotes[r].of /\ quotes'[r].by = quotes[r].by
                                  /\ quotes'[r].for = quotes[r].for /\ quotes'[r].status = quotes[r].status
  <2>1. quotes' = [r \in DOMAIN quotes |-> quotes'[r]]
    BY <1>1
  <2>2. \A r \in DOMAIN quotes : quotes[r] \in QuoteRow /\ quotes'[r] \in QuoteRow
    <3>1. ASSUME NEW r \in DOMAIN quotes PROVE quotes[r] \in QuoteRow
      BY <1>2
    <3>2. [quotes[q] EXCEPT !.late = TRUE] \in QuoteRow
      BY <3>1 DEF QuoteRow
    <3>3. QED
      BY <1>1, <3>1, <3>2
  <2>3. quotes' \in Seq(QuoteRow) /\ DOMAIN quotes' = DOMAIN quotes
    BY <1>2, <2>1, <2>2, SameLength
  <2>4. QED
    BY <1>1, <2>2, <2>3 DEF QuoteRow
<1>4. Tidied
  BY <1>3 DEF Tidied, RunsOut, Sound, Typed, Tables
<1>5. Typed'
  BY <1>3, ChoiceAssumptions DEF RunsOut, Sound, Typed, Columns, Tables, Seats, ChoiceAssumptions
<1>6. HInv'
  BY <1>3 DEF RunsOut, Sound, HInv, HandOk, There
<1>7. QED
  BY <1>4, <1>5, <1>6, TidyRows DEF Sound

\* New quotes follow the old ones, for a step that is there and as it is.
Asked(t) ==
  /\ UNCHANGED <<details, queue, step, sent, hint, offers>>
  /\ quotes' \in Seq(QuoteRow) /\ DOMAIN quotes \subseteq DOMAIN quotes'
  /\ \A q \in DOMAIN quotes : quotes'[q] = quotes[q]
  /\ \A q \in DOMAIN quotes' \ DOMAIN quotes : quotes'[q].of = t /\ quotes'[q].for = details[t]

LEMMA AskedRows == ASSUME Sound, NEW t \in Attempts, There(t), Asked(t) PROVE RInv'
<1>1. \A o \in DOMAIN offers : Known(o) /\ Known(o)'
  BY DEF Sound, RInv, Known, Asked
<1>2. \A o \in DOMAIN offers : Deal(o) => Deal(o)'
  BY <1>1 DEF Deal, Known, Asked
<1>3. \A q \in DOMAIN quotes' : Rooted(q)'
  BY DEF Sound, RInv, Rooted, There, Asked
<1>4. OpenIsLast' /\ \A u \in Attempts : NoDeal(u)' => NoDeal(u)
  BY DEF Sound, RInv, OpenIsLast, NoDeal, Asked
<1>5. \A o \in DOMAIN offers : offers'[o].status = "CONFIRMED"
        => quotes'[offers'[o].quote].status = "CONFIRMED" /\ Deal(o)'
  BY <1>1, <1>2 DEF Sound, RInv, Known, Asked
<1>6. QED
  BY <1>1, <1>3, <1>4, <1>5 DEF Sound, RInv, There, Asked

LEMMA Enumerated ==
  ASSUME ChoiceAssumptions, NEW C \in SUBSET Movers, NEW new \in InOrder(C)
  PROVE  new \in Seq(C)
<1>1. Cardinality(C) \in Nat
  BY MoversFinite, FS_Subset, FS_CardinalityType
<1>2. new \in [1..Cardinality(C) -> C]
  BY DEF InOrder
<1>3. QED
  BY <1>1, <1>2

LEMMA AsksSound ==
  ASSUME ChoiceAssumptions, Sound, NEW h \in Handlers, Asks(h)
  PROVE  Sound' /\ Asked(hand[h].of) /\ There(hand[h].of) /\ hand[h].of \in Attempts
<1> DEFINE t == hand[h].of
<1>1. t \in Attempts /\ There(t) /\ hand[h].at \in Pipe
  BY InSteps DEF Asks, Sound, Typed, Hand, HInv, HandOk, Pipe
<1>2. PICK silent \in SUBSET Serving(t) : \E new \in InOrder((Serving(t) \ silent) \ Issued(t)) :
        /\ failures' = failures + Cardinality(silent) /\ failures' <= MaxFailures
        /\ quotes' = quotes \o [i \in DOMAIN new |-> Quote(t, new[i])]
  BY DEF Asks
<1>3. PICK new \in InOrder((Serving(t) \ silent) \ Issued(t)) :
        /\ failures' = failures + Cardinality(silent) /\ failures' <= MaxFailures
        /\ quotes' = quotes \o [i \in DOMAIN new |-> Quote(t, new[i])]
  BY <1>2
<1>4. (Serving(t) \ silent) \ Issued(t) \in SUBSET Movers /\ silent \subseteq Movers
  BY DEF Serving
<1>5. new \in Seq((Serving(t) \ silent) \ Issued(t))
  BY <1>3, <1>4, Enumerated
<1>6. \A i \in DOMAIN new : new[i] \in Movers
  BY <1>4, <1>5
<1>7. Cardinality(silent) \in Nat
  BY <1>4, MoversFinite, FS_Subset, FS_CardinalityType
<1>8. failures' \in 0..MaxFailures
  BY <1>3, <1>7 DEF Sound, Typed, Columns
<1> DEFINE more == [i \in DOMAIN new |-> Quote(t, new[i])]
<1>9. details[t] \in Details
  BY <1>1 DEF Sound, Typed, Columns
<1>10. \A i \in DOMAIN new : more[i] \in QuoteRow /\ more[i].of = t /\ more[i].for = details[t]
  BY <1>1, <1>6, <1>9 DEF Quote, QuoteRow, Ranks
<1>11. more \in Seq(QuoteRow) /\ DOMAIN more = DOMAIN new
  BY <1>5, <1>10, SameLength
<1>12. quotes \in Seq(QuoteRow) /\ quotes' = quotes \o more
  BY <1>3 DEF Sound, Typed, Tables
<1> HIDE DEF more, t
<1>13. /\ quotes' \in Seq(QuoteRow) /\ DOMAIN quotes \subseteq DOMAIN quotes'
       /\ \A q \in DOMAIN quotes : quotes'[q] = quotes[q]
       /\ \A q \in DOMAIN quotes' \ DOMAIN quotes : \E i \in DOMAIN more : quotes'[q] = more[i]
  <2>1. PICK n \in Nat : n = Len(quotes)
    BY <1>12
  <2>2. PICK m \in Nat : m = Len(more)
    BY <1>11
  <2>3. /\ DOMAIN quotes = 1..n /\ DOMAIN more = 1..m /\ DOMAIN quotes' = 1..(n + m)
        /\ \A q \in 1..(n + m) : quotes'[q] = IF q <= n THEN quotes[q] ELSE more[q - n]
    BY <1>11, <1>12, <2>1, <2>2
  <2>4. \A q \in (1..(n + m)) \ (1..n) : q - n \in 1..m /\ ~(q <= n)
    OBVIOUS
  <2>5. quotes' \in Seq(QuoteRow)
    BY <1>11, <1>12
  <2>6. \A q \in 1..n : q \in 1..(n + m) /\ q <= n
    OBVIOUS
  <2>7. QED
    BY <2>3, <2>4, <2>5, <2>6
<1>14. Asked(t)
  <2>1. \A q \in DOMAIN quotes' \ DOMAIN quotes : quotes'[q].of = t /\ quotes'[q].for = details[t]
    BY <1>10, <1>11, <1>13 DEF more
  <2>2. UNCHANGED <<details, queue, step, sent, hint, offers>>
    BY DEF Asks
  <2>3. QED
    BY <1>13, <2>1, <2>2 DEF Asked
<1>15. RInv'
  BY <1>1, <1>14, AskedRows
<1>16. Go(h, "choose") /\ hand[h].at \in Pipe
  BY <1>1 DEF Asks
<1>17. HandOk(h)' /\ Seats' /\ \A g \in Handlers : g # h => hand'[g] = hand[g]
  BY <1>13, <1>14, <1>16, NextPlace DEF Pipe, Asked, There
<1>18. HInv'
  BY <1>13, <1>14, <1>17, StillHands, InSteps DEF Sound, Typed, Asked, There
<1>19. Typed'
  BY <1>8, <1>13, <1>17 DEF Asks, Sound, Typed, Columns, Tables
<1>20. QED
  BY <1>1, <1>14, <1>15, <1>18, <1>19 DEF Sound, t

\* ghim_de_xuat: the card on q is the newest of its step, and the only one open.
Carded(q) ==
  LET t == quotes[q].of
  IN  /\ UNCHANGED <<details, queue, sent, hint, quotes>>
      /\ offers' \in Seq(OfferRow) /\ DOMAIN offers' = 1..(Len(offers) + 1)
      /\ offers'[Len(offers) + 1] = [of |-> t, quote |-> q, status |-> "PROPOSED"]
      /\ \A o \in DOMAIN offers : /\ offers'[o].of = offers[o].of /\ offers'[o].quote = offers[o].quote
                                  /\ IF offers[o].of = t /\ offers[o].status = "PROPOSED"
                                     THEN offers'[o].status = "SUPERSEDED"
                                     ELSE offers'[o].status = offers[o].status
      /\ step' = [step EXCEPT ![t] = "WAITING_APPROVAL"]

LEMMA Records ==
  ASSUME Sound
  PROVE  /\ \A q \in DOMAIN quotes : quotes[q] \in QuoteRow /\ quotes[q].of \in Attempts /\ quotes[q].of \in Steps
         /\ \A o \in DOMAIN offers : offers[o] \in OfferRow /\ offers[o].of \in Attempts /\ offers[o].of \in Steps
         /\ offers \in Seq(OfferRow) /\ Len(offers) \in Nat /\ DOMAIN offers = 1..Len(offers)
<1>1. quotes \in Seq(QuoteRow) /\ offers \in Seq(OfferRow)
  BY DEF Sound, Typed, Tables
<1>2. \A q \in DOMAIN quotes : quotes[q] \in QuoteRow
  BY <1>1
<1>3. \A o \in DOMAIN offers : offers[o] \in OfferRow
  BY <1>1
<1>4. Attempts \subseteq Steps
  BY DEF Attempts, Steps
<1>5. QED
  BY <1>1, <1>2, <1>3, <1>4 DEF QuoteRow, OfferRow

LEMMA CardedRows == ASSUME Sound, NEW q \in DOMAIN quotes, Carded(q) PROVE RInv'
<1> DEFINE t == quotes[q].of
           new == Len(offers) + 1
<1>1. /\ offers \in Seq(OfferRow) /\ Len(offers) \in Nat /\ DOMAIN offers = 1..Len(offers)
      /\ t \in Attempts /\ There(t) /\ Rooted(q)
  BY Records DEF Sound, RInv, Rooted
<1>2. /\ DOMAIN offers' = DOMAIN offers \cup {new} /\ \A o \in DOMAIN offers : o <= new /\ o # new
      /\ DOMAIN offers \subseteq Nat /\ new \in Nat
  BY <1>1 DEF Carded
<1> HIDE DEF new
<1>3. /\ UNCHANGED <<details, queue, sent, hint, quotes>>
      /\ offers'[new] = [of |-> t, quote |-> q, status |-> "PROPOSED"]
      /\ \A o \in DOMAIN offers : /\ offers'[o].of = offers[o].of /\ offers'[o].quote = offers[o].quote
                                  /\ IF offers[o].of = t /\ offers[o].status = "PROPOSED"
                                     THEN offers'[o].status = "SUPERSEDED"
                                     ELSE offers'[o].status = offers[o].status
      /\ step' = [step EXCEPT ![t] = "WAITING_APPROVAL"]
  BY DEF Carded, new
<1>4. \A u \in Steps : There(u) => There(u)'
  BY <1>3 DEF There, Sound, Typed, Columns
<1>5. /\ offers'[new].of = t /\ offers'[new].quote = q /\ offers'[new].status = "PROPOSED"
  BY <1>3
<1>6. \A o \in DOMAIN offers : offers'[o].status = "CONFIRMED" <=> offers[o].status = "CONFIRMED"
  BY <1>3
<1>7. \A o \in DOMAIN offers' : Known(o)'
  BY <1>2, <1>3, <1>5 DEF Sound, RInv, Known
<1>8. \A r \in DOMAIN quotes : Rooted(r)'
  <2>1. \A r \in DOMAIN quotes : quotes[r].of \in Steps
    BY Records
  <2>2. QED
    BY <1>3, <1>4, <2>1 DEF Sound, RInv, Rooted, There
<1>9. OpenIsLast'
  <2>1. \A o, p \in DOMAIN offers : offers'[o].status = "PROPOSED" /\ offers'[p].of = offers'[o].of
          => p <= o /\ offers'[o].of # t
    BY <1>3 DEF Sound, RInv, OpenIsLast
  <2>2. QED
    BY <1>2, <1>5, <2>1 DEF OpenIsLast
<1>10. ASSUME NEW o \in DOMAIN offers, offers[o].status = "CONFIRMED"
       PROVE  quotes'[offers'[o].quote].status = "CONFIRMED" /\ Deal(o)'
  <2>1. Deal(o) /\ quotes[offers[o].quote].status = "CONFIRMED"
    BY <1>10 DEF Sound, RInv
  <2>2. (\A p \in DOMAIN offers' : offers'[p].of = offers'[o].of /\ offers'[p].status = "CONFIRMED" => p <= o)
          => (\A p \in DOMAIN offers : offers[p].of = offers[o].of /\ offers[p].status = "CONFIRMED" => p <= o)
    BY <1>2, <1>3, <1>6
  <2>3. QED
    BY <1>3, <2>1, <2>2 DEF Deal
<1>11. \A o \in DOMAIN offers' : offers'[o].status = "CONFIRMED"
         => quotes'[offers'[o].quote].status = "CONFIRMED" /\ Deal(o)'
  BY <1>2, <1>5, <1>6, <1>10
<1>12. \A u \in Attempts : NoDeal(u)' => NoDeal(u)
  BY <1>2, <1>3, <1>6 DEF NoDeal
<1>13. sent \subseteq Steps /\ \A u \in hint : u \in Steps
  BY DEF Sound, Typed, Columns, Attempts, Steps
<1>14. QED
  BY <1>3, <1>4, <1>7, <1>8, <1>9, <1>11, <1>12, <1>13 DEF Sound, RInv

\* An offer is made on a quote in hand, or that quote is no longer open.
LEMMA OffersSound ==
  ASSUME ChoiceAssumptions, Sound, NEW h \in Handlers, Offers(h)
  PROVE  /\ Sound' /\ hand[h].at \in {"offer", "switch"}
         /\ hand'[h].at \in {"after", "idle"} /\ \A g \in Handlers : g # h => hand'[g] = hand[g]
         /\ \/ Still /\ UNCHANGED <<step, sent, lax, offers>>
            \/ \E q \in hand[h].pick :
                 /\ Carded(q) /\ Usable(q)
                 /\ lax' = lax \cup (IF hand[h].at = "offer" THEN {} ELSE {"switched"})
                               \cup (IF Confirmed(quotes[q].of) = {} THEN {} ELSE {"stale"})
<1>1. PICK q \in hand[h].pick :
       IF Usable(q)
       THEN /\ offers' = Pinned(quotes[q].of, q)
            /\ step' = [step EXCEPT ![quotes[q].of] = "WAITING_APPROVAL"]
            /\ wf' = "WAITING_APPROVAL"
            /\ IF hand[h].at = "offer" THEN hand' = [hand EXCEPT ![h].at = "after", ![h].pick = {}] ELSE Ends(h)
            /\ lax' = lax \cup (IF hand[h].at = "offer" THEN {} ELSE {"switched"})
                          \cup (IF Confirmed(quotes[q].of) = {} THEN {} ELSE {"stale"})
       ELSE /\ wf' = IF h = Job THEN "FAILED" ELSE wf
            /\ Ends(h) /\ UNCHANGED <<offers, step, lax>>
  BY DEF Offers
<1>2. q \in DOMAIN quotes /\ quotes[q] \in QuoteRow /\ hand[h].at \in {"offer", "switch"}
  BY <1>1 DEF Sound, HInv, HandOk, Typed, Tables, Offers
<1>3. CASE ~Usable(q)
  <2>1. Ends(h) /\ wf' = (IF h = Job THEN "FAILED" ELSE wf) /\ UNCHANGED <<offers, step, lax>>
    BY <1>1, <1>3
  <2>2. Still /\ Columns'
    BY <2>1 DEF Offers, Still, There, bounds, Sound, Typed, Columns, Final
  <2>3. Sound'
    BY <2>1, <2>2, EndsSound DEF Offers, Sound, Typed, Tables
  <2>4. hand'[h] = Idle /\ \A g \in Handlers : g # h => hand'[g] = hand[g]
    BY <2>1, Ended DEF Sound, Typed
  <2>5. QED
    BY <1>2, <2>1, <2>2, <2>3, <2>4 DEF Offers, Idle
<1>4. CASE Usable(q)
  <2>1. /\ offers' = Pinned(quotes[q].of, q)
        /\ step' = [step EXCEPT ![quotes[q].of] = "WAITING_APPROVAL"]
        /\ wf' = "WAITING_APPROVAL"
        /\ IF hand[h].at = "offer" THEN hand' = [hand EXCEPT ![h].at = "after", ![h].pick = {}] ELSE Ends(h)
        /\ lax' = lax \cup (IF hand[h].at = "offer" THEN {} ELSE {"switched"})
                      \cup (IF Confirmed(quotes[q].of) = {} THEN {} ELSE {"stale"})
    BY <1>1, <1>4
  <2>2. Carded(q)
    <3> DEFINE t == quotes[q].of
               old == [o \in DOMAIN offers |-> IF o \in Proposed(t) THEN [offers[o] EXCEPT !.status = "SUPERSEDED"]
                                               ELSE offers[o]]
               card == [of |-> t, quote |-> q, status |-> "PROPOSED"]
    <3>1. \A o \in DOMAIN offers : offers[o] \in OfferRow
      BY Records
    <3>2. \A o \in DOMAIN offers : old[o] \in OfferRow
      BY <3>1 DEF OfferRow, Cards
    <3>3. old \in Seq(OfferRow) /\ DOMAIN old = DOMAIN offers
      <4>1. offers \in Seq(OfferRow)
        BY Records
      <4>2. old = [o \in DOMAIN offers |-> old[o]]
        OBVIOUS
      <4>3. QED
        BY <3>2, <4>1, <4>2, SameLength
    <3>4. \A o \in DOMAIN offers : /\ old[o].of = offers[o].of /\ old[o].quote = offers[o].quote
                                   /\ IF offers[o].of = t /\ offers[o].status = "PROPOSED"
                                      THEN old[o].status = "SUPERSEDED" ELSE old[o].status = offers[o].status
      BY <3>1 DEF OfferRow, Proposed
    <3>5. q \in Nat /\ t \in Attempts
      BY <1>2, Records DEF Sound, Typed, Tables
    <3>6. card \in OfferRow
      BY <3>5 DEF OfferRow, Cards
    <3>7. offers' = Append(old, card)
      BY <2>1 DEF Pinned
    <3> HIDE DEF old, card
    <3>8. Len(old) = Len(offers) /\ Len(offers) \in Nat /\ DOMAIN offers = 1..Len(offers)
      BY <3>3, Records
    <3>9. /\ offers' \in Seq(OfferRow) /\ DOMAIN offers' = 1..(Len(offers) + 1)
          /\ offers'[Len(offers) + 1] = card /\ \A o \in DOMAIN offers : offers'[o] = old[o]
      BY <3>3, <3>6, <3>7, <3>8
    <3>10. QED
      BY <2>1, <3>4, <3>9 DEF Carded, card, Offers
  <2>3. /\ Seats' /\ hand'[h].at \in {"after", "idle"} /\ HandOk(h)'
        /\ \A g \in Handlers : g # h => hand'[g] = hand[g]
    <3>1. CASE hand[h].at = "switch"
      BY <1>2, <2>1, <3>1, Ended, IdleOk DEF Sound, Typed, Idle
    <3>2. CASE hand[h].at = "offer"
      <4>1. /\ [hand[h] EXCEPT !.at = "after", !.pick = {}] \in Hand
            /\ hand' = [hand EXCEPT ![h] = [hand[h] EXCEPT !.at = "after", !.pick = {}]]
        BY <2>1, <3>2 DEF Sound, Typed, Seats, Hand, Stages
      <4>2. /\ Seats' /\ hand'[h] = [hand[h] EXCEPT !.at = "after", !.pick = {}]
            /\ \A g \in Handlers : g # h => hand'[g] = hand[g]
        BY <4>1, Seated DEF Sound, Typed
      <4>3. /\ hand'[h].pick = {} /\ hand'[h].at = "after" /\ hand'[h].run = hand[h].run
            /\ hand[h].run \subseteq Steps
        BY <4>2, InSteps DEF Sound, Typed, Hand
      <4>4. \A u \in Steps : There(u) => There(u)'
        BY <2>2 DEF Carded, There, Sound, Typed, Columns
      <4>5. HandOk(h)
        BY DEF Sound, HInv
      <4>6. QED
        BY <4>2, <4>3, <4>4, <4>5 DEF HandOk, Pipe
    <3>3. QED
      BY <1>2, <3>1, <3>2
  <2>4. RInv'
    BY <1>2, <2>2, CardedRows
  <2>5. HInv'
    BY <2>2, <2>3, StillHands, InSteps DEF Carded, Sound, Typed, There, Columns
  <2>6. Columns'
    <3>1. /\ step' \in [Steps -> {"absent", "PENDING", "WAITING_APPROVAL"} \cup Final]
          /\ lax' \subseteq {"switched", "stale", "behind", "unasked"}
      BY <2>1 DEF Sound, Typed, Columns
    <3>2. QED
      BY <2>1, <3>1 DEF Offers, bounds, Sound, Typed, Columns
  <2>7. QED
    BY <1>2, <1>4, <2>1, <2>2, <2>3, <2>4, <2>5, <2>6 DEF Offers, Sound, Typed, Tables, Carded
<1>5. QED
  BY <1>3, <1>4

\* xac_nhan_de_xuat: the card becomes the deal, and the company finds it in its queue.
Dealt(o) ==
  LET q == offers[o].quote
  IN  /\ UNCHANGED <<details, step, sent, hint>>
      /\ offers[o].status = "PROPOSED"
      /\ quotes' = [quotes EXCEPT ![q].status = "CONFIRMED"]
      /\ offers' = [offers EXCEPT ![o].status = "CONFIRMED"]
      /\ queue' = [queue EXCEPT ![offers[o].of] = Slot(q)]

LEMMA DealtRows ==
  ASSUME ChoiceAssumptions, Sound, NEW o \in DOMAIN offers, Dealt(o)
  PROVE  RInv' /\ quotes' \in Seq(QuoteRow) /\ offers' \in Seq(OfferRow) /\ queue' \in [Steps -> QueueRow]
         /\ DOMAIN quotes' = DOMAIN quotes
<1> DEFINE q == offers[o].quote
           t == offers[o].of
<1>1. /\ offers[o] \in OfferRow /\ t \in Attempts /\ t \in Steps /\ t # 0 /\ o \in Nat
      /\ DOMAIN offers \subseteq Nat
  BY Records DEF Attempts
<1>2. /\ Known(o) /\ q \in DOMAIN quotes /\ quotes[q] \in QuoteRow /\ quotes[q].of = t /\ Rooted(q) /\ There(t)
  BY Records DEF Sound, RInv, Known, Rooted
<1>3. /\ UNCHANGED <<details, step, sent, hint>>
      /\ offers[o].status = "PROPOSED"
      /\ quotes' = [quotes EXCEPT ![q].status = "CONFIRMED"]
      /\ offers' = [offers EXCEPT ![o].status = "CONFIRMED"]
      /\ queue' = [queue EXCEPT ![t] = Slot(q)]
  BY DEF Dealt
<1> HIDE DEF q, t
<1>4. /\ quotes' \in Seq(QuoteRow) /\ DOMAIN quotes' = DOMAIN quotes
      /\ \A r \in DOMAIN quotes : /\ quotes'[r].of = quotes[r].of /\ quotes'[r].by = quotes[r].by
                                  /\ quotes'[r].for = quotes[r].for
                                  /\ quotes'[r].status = (IF r = q THEN "CONFIRMED" ELSE quotes[r].status)
  <2>1. \A r \in DOMAIN quotes : quotes[r] \in QuoteRow
    BY Records
  <2>2. [quotes[q] EXCEPT !.status = "CONFIRMED"] \in QuoteRow
    BY <1>2 DEF QuoteRow, Ranks
  <2>3. \A r \in DOMAIN quotes : quotes'[r] \in QuoteRow
    BY <1>2, <1>3, <2>1, <2>2
  <2>4. quotes' = [r \in DOMAIN quotes |-> quotes'[r]]
    BY <1>3
  <2>5. quotes \in Seq(QuoteRow)
    BY DEF Sound, Typed, Tables
  <2>6. quotes' \in Seq(QuoteRow) /\ DOMAIN quotes' = DOMAIN quotes
    BY <2>3, <2>4, <2>5, SameLength
  <2>7. QED
    BY <1>2, <1>3, <2>1, <2>6 DEF QuoteRow
<1>5. /\ offers' \in Seq(OfferRow) /\ DOMAIN offers' = DOMAIN offers
      /\ \A p \in DOMAIN offers : /\ offers'[p].of = offers[p].of /\ offers'[p].quote = offers[p].quote
                                  /\ offers'[p].status = (IF p = o THEN "CONFIRMED" ELSE offers[p].status)
  <2>1. \A p \in DOMAIN offers : offers[p] \in OfferRow
    BY Records
  <2>2. [offers[o] EXCEPT !.status = "CONFIRMED"] \in OfferRow
    BY <1>1 DEF OfferRow, Cards
  <2>3. \A p \in DOMAIN offers : offers'[p] \in OfferRow
    BY <1>1, <1>3, <2>1, <2>2
  <2>4. offers' = [p \in DOMAIN offers |-> offers'[p]]
    BY <1>3
  <2>5. offers \in Seq(OfferRow)
    BY Records
  <2>6. offers' \in Seq(OfferRow) /\ DOMAIN offers' = DOMAIN offers
    BY <2>3, <2>4, <2>5, SameLength
  <2>7. QED
    BY <1>1, <1>3, <2>1, <2>6 DEF OfferRow
<1>6. /\ queue' \in [Steps -> QueueRow] /\ queue'[t] = Slot(q) /\ \A u \in Steps : u # t => queue'[u] = queue[u]
  <2>1. Slot(q) \in QueueRow
    BY <1>2 DEF Slot, QueueRow, QuoteRow
  <2>2. QED
    BY <1>1, <1>3, <2>1 DEF Sound, Typed, Tables
<1>7. Slot(q).by = {quotes[q].by} /\ Slot(q).for = {quotes[q].for} /\ Slot(q).status = "AWAITING"
  BY DEF Slot
<1>8. \A p \in DOMAIN offers : offers[p].of = t => p <= o
  BY <1>3 DEF Sound, RInv, OpenIsLast, t
<1>9. \A p \in DOMAIN offers : Known(p) /\ Known(p)'
  BY <1>4, <1>5 DEF Sound, RInv, Known
<1>10. \A r \in DOMAIN quotes : Rooted(r)'
  BY <1>3, <1>4 DEF Sound, RInv, Rooted, There
<1>11. OpenIsLast'
  BY <1>5 DEF Sound, RInv, OpenIsLast
<1>12. ASSUME NEW p \in DOMAIN offers, offers'[p].status = "CONFIRMED"
       PROVE  quotes'[offers'[p].quote].status = "CONFIRMED" /\ Deal(p)'
  <2>0. /\ offers'[p].quote = offers[p].quote /\ offers[p].quote \in DOMAIN quotes /\ offers'[p].of = offers[p].of
        /\ offers[p].of \in Steps
    BY <1>5, <1>9, Records DEF Known
  <2>1. CASE p = o
    <3>1. offers[p].quote = q /\ offers[p].of = t
      BY <2>1 DEF q, t
    <3>2. offers'[p].quote = q /\ offers'[p].of = t
      BY <2>0, <3>1
    <3>3. /\ quotes'[q].by = quotes[q].by /\ quotes'[q].for = quotes[q].for
          /\ quotes'[q].status = "CONFIRMED"
      BY <1>2, <1>4
    <3>4. /\ queue'[t].by = {quotes[q].by} /\ queue'[t].for = {quotes[q].for}
          /\ queue'[t].status # "NONE"
      BY <1>6, <1>7
    <3>5. QED
      BY <3>2, <3>3, <3>4 DEF Deal
  <2>2. CASE p # o
    <3>1. offers[p].status = "CONFIRMED"
      BY <1>5, <1>12, <2>2
    <3>2. Deal(p) /\ quotes[offers[p].quote].status = "CONFIRMED"
      BY <3>1 DEF Sound, RInv
    <3>3. quotes'[offers[p].quote].status = "CONFIRMED"
      BY <1>4, <2>0, <3>2
    <3>4. CASE offers[p].of = t
      <4>1. p <= o /\ p \in Nat
        BY <1>1, <1>8, <3>4
      <4>2. offers'[o].status = "CONFIRMED" /\ offers'[o].of = offers'[p].of
        BY <1>5, <2>0, <3>4 DEF t
      <4>3. ~(o <= p)
        BY <1>1, <2>2, <4>1
      <4>4. QED
        BY <1>5, <2>0, <3>3, <4>2, <4>3 DEF Deal
    <3>5. CASE offers[p].of # t
      <4>1. \A r \in DOMAIN offers : offers[r].of = offers[p].of /\ offers[r].status = "CONFIRMED"
              => offers'[r].of = offers'[p].of /\ offers'[r].status = "CONFIRMED"
        BY <1>5, <2>0
      <4>2. queue'[offers[p].of] = queue[offers[p].of]
        BY <1>6, <2>0, <3>5
      <4>3. QED
        BY <1>4, <1>5, <2>0, <3>2, <3>3, <4>1, <4>2 DEF Deal
    <3>6. QED
      BY <3>4, <3>5
  <2>3. QED
    BY <2>1, <2>2
<1>13. \A u \in Attempts : NoDeal(u)' => queue'[u].status = "NONE"
  <2>1. ASSUME NEW u \in Attempts, NoDeal(u)' PROVE u # t /\ NoDeal(u)
    BY <1>5, <2>1 DEF NoDeal, t
  <2>2. \A u \in Attempts : u \in Steps
    BY DEF Attempts, Steps
  <2>3. QED
    BY <1>6, <2>1, <2>2 DEF Sound, RInv
<1>14. \A u \in Steps : queue'[u].status # "NONE" => There(u)'
  BY <1>2, <1>3, <1>6 DEF Sound, RInv, There
<1>15. queue'[0].status # "REJECTED" /\ (\A u \in sent' : There(u)') /\ \A u \in hint' : There(u)'
  <2>1. 0 \in Steps
    BY DEF Steps, ChoiceAssumptions
  <2>2. QED
    BY <1>1, <1>3, <1>6, <2>1 DEF Sound, RInv, There
<1>16. RInv'
  BY <1>4, <1>5, <1>9, <1>10, <1>11, <1>12, <1>13, <1>14, <1>15 DEF RInv
<1>17. QED
  BY <1>4, <1>5, <1>6, <1>16

LEMMA ConfirmsSound ==
  ASSUME ChoiceAssumptions, Sound, NEW o \in DOMAIN offers, Confirms(o)
  PROVE  Sound' /\ (Tidied \/ Dealt(o)) /\ UNCHANGED <<hand, lax, step, sent, hint>>
<1> DEFINE q == offers[o].quote
<1>1. Known(o) /\ q \in DOMAIN quotes /\ offers[o] \in OfferRow /\ offers[o].status = "PROPOSED"
  BY Records DEF Sound, RInv, Known, Confirms, Confirmable
<1>2. CASE quotes[q].late
  <2>1. offers' = [offers EXCEPT ![o].status = "EXPIRED"] /\ UNCHANGED <<quotes, queue>>
    BY <1>2 DEF Confirms
  <2>2. \A p \in DOMAIN offers : offers[p] \in OfferRow /\ offers'[p] \in OfferRow
    <3>1. \A p \in DOMAIN offers : offers[p] \in OfferRow
      BY Records
    <3>2. [offers[o] EXCEPT !.status = "EXPIRED"] \in OfferRow
      BY <1>1 DEF OfferRow, Cards
    <3>3. QED
      BY <2>1, <3>1, <3>2
  <2>3. offers' \in Seq(OfferRow) /\ DOMAIN offers' = DOMAIN offers
    <3>1. offers' = [p \in DOMAIN offers |-> offers'[p]]
      BY <2>1
    <3>2. offers \in Seq(OfferRow)
      BY Records
    <3>3. QED
      BY <2>2, <3>1, <3>2, SameLength
  <2>4. Tidied
    BY <1>1, <2>1, <2>2, <2>3 DEF Confirms, Tidied, Sound, Typed, Tables, OfferRow
  <2>5. Typed' /\ HInv'
    BY <2>1, <2>3 DEF Confirms, bounds, Sound, Typed, Columns, Tables, Seats, HInv, HandOk, There
  <2>6. QED
    BY <2>4, <2>5, TidyRows DEF Sound, Confirms
<1>3. CASE ~quotes[q].late
  <2>1. Dealt(o)
    BY <1>1, <1>3 DEF Confirms, Dealt, Handed
  <2>2. RInv' /\ Tables' /\ DOMAIN quotes' = DOMAIN quotes
    BY <2>1, DealtRows DEF Tables
  <2>3. Typed' /\ HInv'
    BY <2>2 DEF Confirms, bounds, Sound, Typed, Columns, Seats, HInv, HandOk, There
  <2>4. QED
    BY <2>1, <2>2, <2>3 DEF Sound, Confirms
<1>4. QED
  BY <1>2, <1>3

\* A new attempt: a step appears that nothing spoke of.
Opened(k) ==
  /\ UNCHANGED <<quotes, offers, queue, sent>> /\ hint' \subseteq hint
  /\ k \in Attempts /\ ~There(k)
  /\ step'[k] # "absent" /\ \A u \in Steps : u # k => (There(u)' <=> There(u))
  /\ \A u \in Attempts : u # k => details'[u] = details[u]

LEMMA OpenedRows == ASSUME Sound, NEW k, Opened(k) PROVE RInv'
<1>1. \A q \in DOMAIN quotes : quotes[q].of # k /\ Rooted(q)'
  BY Records DEF Sound, RInv, Rooted, There, Opened
<1>2. \A o \in DOMAIN offers : Known(o)' /\ (Deal(o) => Deal(o)')
  BY DEF Sound, RInv, Known, Opened, Deal
<1>3. OpenIsLast' /\ \A t \in Attempts : NoDeal(t)' => NoDeal(t)
  BY DEF Sound, RInv, OpenIsLast, Opened, NoDeal
<1>4. sent \subseteq Steps /\ \A t \in hint : t \in Steps
  BY DEF Sound, Typed, Columns, Attempts, Steps
<1>5. QED
  BY <1>1, <1>2, <1>3, <1>4 DEF Sound, RInv, There, Opened

LEMMA SupersedesSound ==
  ASSUME ChoiceAssumptions, Sound, NEW h \in Handlers, Supersedes(h)
  PROVE  /\ Sound'
         /\ \/ Still /\ UNCHANGED <<step, sent, lax, offers>> /\ hand'[h] = Idle
            \/ /\ Opened(hand[h].of) /\ hand'[h] = [hand[h] EXCEPT !.at = "clean"]
               /\ lax' = Behind(hand[h].old, hand[h].of)
               /\ details'[hand[h].of] = details[hand[h].old]
               /\ step' = [step EXCEPT ![hand[h].old] = "CANCELLED", ![hand[h].of] = "PENDING"]
         /\ \A g \in Handlers : g # h => hand'[g] = hand[g]
<1> DEFINE k == hand[h].of
           t == hand[h].old
<1>1. k \in Attempts /\ t \in Attempts /\ k \in Steps /\ t \in Steps /\ hand[h].at = "supersede"
  BY InSteps DEF Supersedes, Sound, Typed, Hand, Attempts, Steps
<1>2. CASE There(k)
  <2>1. Ends(h) /\ UNCHANGED <<step, details, lax>>
    BY <1>2 DEF Supersedes, There
  <2>2. Still /\ Columns' /\ queue' = queue /\ sent' = sent /\ hint' = hint
    BY <2>1 DEF Supersedes, Still, There, bounds, Sound, Typed, Columns
  <2>3. hand'[h] = Idle /\ \A g \in Handlers : g # h => hand'[g] = hand[g]
    BY <2>1, Ended DEF Sound, Typed
  <2>4. QED
    BY <2>1, <2>2, <2>3, EndsSound DEF Sound, Typed, Tables, Supersedes
<1>3. CASE ~There(k)
  <2>1. /\ step' = [step EXCEPT ![t] = "CANCELLED", ![k] = "PENDING"]
        /\ details' = [details EXCEPT ![k] = details[t]]
        /\ Go(h, "clean") /\ lax' = Behind(t, k)
        /\ UNCHANGED <<wf, quotes, offers, queue, sent, hint, bounds>>
    BY <1>3 DEF Supersedes, There
  <2>2. There(t) /\ t # k
    BY <1>1, <1>3 DEF Sound, HInv, HandOk
  <2>3. step' \in [Steps -> {"absent", "PENDING", "WAITING_APPROVAL"} \cup Final] /\ details' \in [Attempts -> Details]
    BY <1>1, <2>1 DEF Sound, Typed, Columns, Final
  <2>4. lax' \subseteq {"switched", "stale", "behind", "unasked"}
    BY <2>1 DEF Behind, Sound, Typed, Columns
  <2>5. Opened(k)
    <3>1. /\ step \in [Steps -> {"absent", "PENDING", "WAITING_APPROVAL"} \cup Final]
          /\ details \in [Attempts -> Details]
      BY DEF Sound, Typed, Columns
    <3>2. /\ step'[k] = "PENDING" /\ step'[t] = "CANCELLED"
          /\ \A u \in Steps : u # k /\ u # t => step'[u] = step[u]
      BY <1>1, <2>1, <2>2, <3>1
    <3>3. \A u \in Attempts : u # k => details'[u] = details[u]
      BY <1>1, <2>1, <3>1
    <3>4. QED
      BY <1>1, <1>3, <2>1, <2>2, <3>2, <3>3 DEF Opened, There
  <2>6. /\ Seats' /\ hand'[h] = [hand[h] EXCEPT !.at = "clean"]
        /\ \A g \in Handlers : g # h => hand'[g] = hand[g]
    BY <2>1, Goes DEF Sound, Typed, Stages, Pipe
  <2>7. HandOk(h)'
    <3>1. /\ hand'[h].pick = hand[h].pick /\ hand'[h].at = "clean" /\ hand'[h].run = hand[h].run
          /\ hand'[h].of = k /\ hand[h].run \subseteq Steps
      BY <2>6, InSteps DEF Sound, Typed, Hand
    <3>2. HandOk(h)
      BY DEF Sound, HInv
    <3>3. QED
      BY <2>1, <2>5, <3>1, <3>2 DEF HandOk, There, Opened, Pipe
  <2>8. HInv'
    BY <2>1, <2>5, <2>6, <2>7, StillHands, InSteps DEF Opened, Sound, Typed
  <2>9. Typed'
    BY <2>1, <2>3, <2>4, <2>6 DEF bounds, Sound, Typed, Columns, Tables
  <2>10. details'[k] = details[t]
    BY <1>1, <2>1 DEF Sound, Typed, Columns
  <2>11. QED
    BY <2>1, <2>5, <2>6, <2>8, <2>9, <2>10, OpenedRows DEF Sound
<1>4. QED
  BY <1>2, <1>3

LEMMA RepairsSound ==
  ASSUME ChoiceAssumptions, Sound, NEW h \in Requests, Repairs(h)
  PROVE  /\ Sound'
         /\ \E t \in hint, k \in NextAttempt :
              /\ Opened(k) /\ lax' = Behind(t, k) /\ hint' = hint \ {t}
              /\ details'[k] # details[t] /\ hand'[h] = [Idle EXCEPT !.at = "park"]
              /\ step' = [step EXCEPT ![t] = "CANCELLED", ![k] = "PENDING"]
         /\ \A g \in Handlers : g # h => hand'[g] = hand[g]
<1>1. PICK t \in hint, k \in NextAttempt, d \in Details :
       /\ d # details[t]
       /\ step' = [step EXCEPT ![t] = "CANCELLED", ![k] = "PENDING"]
       /\ details' = [details EXCEPT ![k] = d] /\ hint' = hint \ {t}
       /\ lax' = Behind(t, k)
       /\ hand' = [hand EXCEPT ![h] = [Idle EXCEPT !.at = "park"]]
  BY DEF Repairs
<1>2. /\ k \in Attempts /\ t \in Attempts /\ k \in Steps /\ t \in Steps /\ h \in Handlers
      /\ There(t) /\ ~There(k) /\ t # k
  BY DEF NextAttempt, There, Sound, Typed, Columns, RInv, Attempts, Steps, Handlers
<1>3. /\ step \in [Steps -> {"absent", "PENDING", "WAITING_APPROVAL"} \cup Final]
      /\ details \in [Attempts -> Details]
  BY DEF Sound, Typed, Columns
<1>4. /\ step'[k] = "PENDING" /\ step'[t] = "CANCELLED"
      /\ \A u \in Steps : u # k /\ u # t => step'[u] = step[u]
      /\ step' \in [Steps -> {"absent", "PENDING", "WAITING_APPROVAL"} \cup Final]
  BY <1>1, <1>2, <1>3 DEF Final
<1>5. details'[k] = d /\ \A u \in Attempts : u # k => details'[u] = details[u]
  BY <1>1, <1>2, <1>3
<1>6. Opened(k)
  BY <1>1, <1>2, <1>4, <1>5 DEF Repairs, Opened, There
<1>7. [Idle EXCEPT !.at = "park"] \in Hand
  BY IdleTyped DEF Hand, Stages
<1>8. /\ Seats' /\ hand'[h] = [Idle EXCEPT !.at = "park"]
      /\ \A g \in Handlers : g # h => hand'[g] = hand[g]
  BY <1>1, <1>2, <1>7, Seated DEF Sound, Typed
<1>9. HandOk(h)'
  <2>1. hand'[h].pick = {} /\ hand'[h].at = "park" /\ hand'[h].run = {}
    BY <1>8 DEF Idle
  <2>2. QED
    BY <2>1 DEF HandOk, Pipe
<1>10. \A u \in Steps : There(u) => There(u)'
  BY <1>2, <1>4 DEF There
<1>11. HInv'
  BY <1>2, <1>6, <1>8, <1>9, <1>10, StillHands, InSteps DEF Opened, Sound, Typed
<1>12. lax' \subseteq {"switched", "stale", "behind", "unasked"} /\ details' \in [Attempts -> Details]
       /\ hint' \subseteq Attempts
  BY <1>1, <1>2, <1>3 DEF Behind, Sound, Typed, Columns
<1>13. Typed'
  BY <1>4, <1>8, <1>12 DEF Repairs, bounds, Sound, Typed, Columns, Tables
<1>14. QED
  BY <1>1, <1>2, <1>5, <1>6, <1>8, <1>11, <1>13, OpenedRows DEF Sound

-------------------------------------------------------------------------------
(* The whole of a step, and what follows for the types and the deals *)

LEMMA SameSound == ASSUME Sound, UNCHANGED vars PROVE Sound'
<1>1. Typed'
  BY DEF vars, Sound, Typed, Columns, Tables, Seats
<1>2. RInv'
  BY DEF vars, Sound, RInv, Known, Rooted, OpenIsLast, Deal, NoDeal, There
<1>3. HInv'
  BY DEF vars, Sound, HInv, HandOk, There
<1>4. QED
  BY <1>1, <1>2, <1>3 DEF Sound

LEMMA NextSound == ASSUME Sound, [Next]_vars PROVE Sound'
<1> USE ChoiceAssumptions
<1>1. ASSUME NEW h \in Handlers,
             Parks(h) \/ Matches(h) \/ Cleans(h) \/ Asks(h) \/ Chooses(h) \/ Offers(h) \/ After(h)
      PROVE  Sound'
  BY <1>1, ParksSound, MatchesSound, CleansSound, AsksSound, ChoosesSound, OffersSound, AfterSound
<1>2. ASSUME NEW h \in Handlers, Looks(h) \/ Sends(h) \/ Concludes(h) \/ Supersedes(h)
      PROVE  Sound'
  BY <1>2, LooksSound, SendsSound, ConcludesSound, SupersedesSound
<1>3. ASSUME NEW r \in Requests, Says(r) \/ Decides(r) \/ AsksForAnother(r) \/ Repairs(r)
      PROVE  Sound'
  BY <1>3, SaysSound, DecidesSound, AnotherSound, RepairsSound
<1>4. ASSUME NEW o \in DOMAIN offers, Confirms(o) PROVE Sound'
  BY <1>4, ConfirmsSound
<1>5. CASE Stops \/ RunsOut
  BY <1>5, StopsSound, RunsOutSound
<1>6. CASE UNCHANGED vars
  BY <1>6, SameSound
<1>7. QED
  BY <1>1, <1>2, <1>3, <1>4, <1>5, <1>6 DEF Next

LEMMA SoundTypeOK == ASSUME Sound PROVE ChoiceTypeOK
<1>1. \A o \in DOMAIN offers : offers[o] \in OfferRow /\ o \in Nat
  BY Records
<1>2. ASSUME NEW t \in Attempts PROVE Cardinality(Proposed(t)) <= 1
  <2>1. CASE Proposed(t) = {}
    BY <2>1, FS_EmptySet
  <2>2. CASE Proposed(t) # {}
    <3>1. PICK o : o \in Proposed(t)
      BY <2>2
    <3>2. ASSUME NEW p \in Proposed(t) PROVE p = o
      <4>1. p <= o /\ o <= p
        BY <3>1 DEF Proposed, Sound, RInv, OpenIsLast
      <4>2. p \in Nat /\ o \in Nat
        BY <1>1, <3>1 DEF Proposed
      <4>3. QED
        BY <4>1, <4>2
    <3>3. Proposed(t) = {o}
      BY <3>1, <3>2
    <3>4. Cardinality({o}) = 1
      BY FS_Singleton
    <3>5. QED
      BY <3>3, <3>4
  <2>3. QED
    BY <2>1, <2>2
<1>3. \A q \in DOMAIN quotes : /\ quotes[q].of \in Attempts /\ quotes[q].by \in Movers
                               /\ quotes[q].status \in {"ACTIVE", "CONFIRMED", "EXPIRED", "SUPERSEDED"}
  BY Records DEF QuoteRow, Ranks
<1>4. \A o \in DOMAIN offers : /\ quotes[offers[o].quote].of = offers[o].of
                               /\ offers[o].status \in {"PROPOSED", "CONFIRMED", "EXPIRED", "SUPERSEDED"}
  BY <1>1 DEF OfferRow, Cards, Sound, RInv, Known
<1>5. \A t \in Steps : queue[t].status \in {"NONE", "AWAITING", "APPROVED", "REJECTED"}
  BY DEF Sound, Typed, Tables, QueueRow
<1>6. sent \subseteq Present
  BY DEF Sound, RInv, There, Present, Typed, Columns
<1>7. QED
  BY <1>2, <1>3, <1>4, <1>5, <1>6 DEF ChoiceTypeOK, Sound, Typed, Columns

\* Every variable keeps its type (ChoiceTypeOK): an offer rests on a quote of its own step, and no
\* step shows two cards that can be answered.
THEOREM ChoiceTyped == ChoiceSpec => []ChoiceTypeOK
<1>1. Init => Sound
  BY ChoiceAssumptions, InitTyped, InitRooted DEF Sound
<1>2. Sound /\ [Next]_vars => Sound'
  BY NextSound
<1>3. Sound => ChoiceTypeOK
  BY SoundTypeOK
<1>4. QED
  BY <1>1, <1>2, <1>3, PTL DEF ChoiceSpec

\* The offers of a step that were confirmed have a last one.
LEMMA Latest ==
  ASSUME NEW n \in Nat, NEW T \in SUBSET (1..n), T # {}
  PROVE  \E x \in T : \A y \in T : y <= x
<1> DEFINE D == {m \in Nat : n - m \in T}
<1>1. \E m \in D : \A k \in D : ~(<<k, m>> \in OpToRel(<, Nat))
  <2>1. PICK x : x \in T
    OBVIOUS
  <2>2. x \in 1..n /\ n - x \in Nat /\ n - (n - x) = x
    BY <2>1
  <2>3. n - x \in D
    BY <2>1, <2>2
  <2>4. D \subseteq Nat /\ D # {}
    BY <2>3
  <2> HIDE DEF D
  <2>5. QED
    BY <2>4, WFMin, NatLessThanWellFounded
<1>2. PICK m \in D : \A k \in D : ~(<<k, m>> \in OpToRel(<, Nat))
  BY <1>1
<1>3. ASSUME NEW k \in D PROVE ~(k < m)
  <2> DEFINE pair == <<k, m>>
  <2>1. pair \in Nat \X Nat /\ pair[1] = k /\ pair[2] = m
    OBVIOUS
  <2>2. pair \notin {e \in Nat \X Nat : e[1] < e[2]}
    BY <1>2 DEF OpToRel
  <2> HIDE DEF pair
  <2>3. QED
    BY <2>1, <2>2
<1>4. m \in Nat /\ n - m \in T
  OBVIOUS
<1>5. ASSUME NEW y \in T PROVE y <= n - m
  <2>1. y \in 1..n /\ n - y \in Nat /\ n - (n - y) = y
    OBVIOUS
  <2>2. n - y \in D
    BY <2>1
  <2>3. ~(n - y < m)
    BY <1>3, <2>2
  <2>4. QED
    BY <1>4, <2>1, <2>3
<1>6. QED
  BY <1>4, <1>5

LEMMA SoundDeal == ASSUME Sound PROVE DealIsKept
<1> SUFFICES ASSUME NEW t \in Attempts
             PROVE  IF Confirmed(t) = {} THEN queue[t].status = "NONE"
                    ELSE LET q == offers[LastAgreed(t)].quote
                         IN  /\ quotes[q].status = "CONFIRMED" /\ queue[t].status # "NONE"
                             /\ queue[t].by = {quotes[q].by} /\ queue[t].for = {details[t]}
  BY DEF DealIsKept
<1>1. CASE Confirmed(t) = {}
  BY <1>1 DEF Confirmed, Sound, RInv, NoDeal
<1>2. CASE Confirmed(t) # {}
  <2>1. Confirmed(t) \subseteq 1..Len(offers) /\ Len(offers) \in Nat
    BY Records DEF Confirmed
  <2>2. \E o \in Confirmed(t) : \A p \in Confirmed(t) : p <= o
    BY <1>2, <2>1, Latest
  <2>3. /\ LastAgreed(t) \in Confirmed(t)
        /\ \A p \in Confirmed(t) : p <= LastAgreed(t)
    BY <2>2 DEF LastAgreed
  <2>4. PICK o \in Confirmed(t) : o = LastAgreed(t) /\ \A p \in Confirmed(t) : p <= o
    BY <2>3
  <2>5. o \in DOMAIN offers /\ offers[o].of = t /\ offers[o].status = "CONFIRMED"
    BY DEF Confirmed
  <2>6. Known(o) /\ Deal(o) /\ quotes[offers[o].quote].status = "CONFIRMED"
    BY <2>5 DEF Sound, RInv
  <2>7. \A p \in DOMAIN offers : offers[p].of = t /\ offers[p].status = "CONFIRMED" => p <= o
    BY <2>4 DEF Confirmed
  <2>8. /\ queue[t].by = {quotes[offers[o].quote].by} /\ queue[t].for = {quotes[offers[o].quote].for}
        /\ queue[t].status # "NONE"
    BY <2>5, <2>6, <2>7 DEF Deal
  <2>9. quotes[offers[o].quote].for = details[t]
    BY <2>5, <2>6 DEF Known, Sound, RInv, Rooted
  <2>10. QED
    BY <1>2, <2>4, <2>6, <2>8, <2>9
<1>3. QED
  BY <1>1, <1>2

\* The request that a company has before it is the deal the customer agreed to last (DealIsKept):
\* its company, a quote that stays confirmed, and the details of the step as they are, whatever
\* is offered, confirmed, refused, repaired and stopped before and after.
THEOREM DealKept == ChoiceSpec => []DealIsKept
<1>1. Init => Sound
  BY ChoiceAssumptions, InitTyped, InitRooted DEF Sound
<1>2. Sound /\ [Next]_vars => Sound'
  BY NextSound
<1>3. Sound => DealIsKept
  BY SoundDeal
<1>4. QED
  BY <1>1, <1>2, <1>3, PTL DEF ChoiceSpec

-------------------------------------------------------------------------------
(* What is booked was agreed to *)

\* What a step needs to be booked: its customer's choice and the company's yes, which a card that
\* was pinned on the deal can put back to a question.
Fine(t) == "unasked" \in lax \/ (~NoDeal(t) /\ (queue[t].status = "APPROVED" \/ "stale" \in lax))
Apart ==
  "stale" \in lax \/ \A o, p \in DOMAIN offers :
    offers[o].status = "CONFIRMED" /\ offers[p].status = "PROPOSED" => offers[o].of # offers[p].of
BInv ==
  /\ Apart
  /\ \A t \in Steps : step[t] = "FAILED" => t \in sent
  /\ \A h \in Handlers : hand[h].at = "run" => \A t \in hand[h].run \cap Attempts : Fine(t)
  /\ \A t \in sent \cap Attempts : Fine(t)

\* No step takes back what booking needs (Grows); most send nothing and start no run (Quiet).
Grows == Apart' /\ \A t \in Attempts : Fine(t) => Fine(t)'
Quiet ==
  /\ sent' = sent /\ \A t \in Steps : step'[t] = "FAILED" => step[t] = "FAILED"
  /\ \A h \in Handlers : hand'[h].at = "run" => hand[h].at = "run" /\ hand'[h].run \subseteq hand[h].run

LEMMA QuietBooks == ASSUME BInv, Grows, Quiet PROVE BInv'
BY DEF BInv, Grows, Quiet

LEMMA SameOffers ==
  ASSUME Apart, offers' = offers, lax \subseteq lax',
         \A t \in Attempts : queue[t].status = "APPROVED" => queue'[t].status = "APPROVED"
  PROVE  Grows
BY DEF Grows, Apart, Fine, NoDeal

LEMMA TidiedGrows == ASSUME Apart, Tidied, lax' = lax PROVE Grows
<1>1. \A o \in DOMAIN offers' :
        /\ o \in DOMAIN offers /\ offers'[o].of = offers[o].of
        /\ offers'[o].status = "CONFIRMED" <=> offers[o].status = "CONFIRMED"
        /\ offers'[o].status = "PROPOSED" => offers[o].status = "PROPOSED"
  BY DEF Tidied
<1>2. Apart'
  BY <1>1 DEF Apart
<1>3. \A t \in Attempts : NoDeal(t)' => NoDeal(t)
  BY <1>1 DEF NoDeal, Tidied
<1>4. QED
  BY <1>2, <1>3 DEF Grows, Fine, Tidied

LEMMA CardedGrows ==
  ASSUME Sound, Apart, NEW q \in DOMAIN quotes, Carded(q), lax \subseteq lax',
         Confirmed(quotes[q].of) = {} \/ "stale" \in lax'
  PROVE  Grows
<1> DEFINE t == quotes[q].of
           new == Len(offers) + 1
<1>1. /\ DOMAIN offers = 1..Len(offers) /\ Len(offers) \in Nat
      /\ DOMAIN offers' = DOMAIN offers \cup {new} /\ new \notin DOMAIN offers
  BY Records DEF Carded
<1>2. offers'[new].of = t /\ offers'[new].status = "PROPOSED"
  BY DEF Carded
<1>3. \A o \in DOMAIN offers :
        /\ offers'[o].of = offers[o].of
        /\ offers'[o].status = "CONFIRMED" <=> offers[o].status = "CONFIRMED"
        /\ offers'[o].status = "PROPOSED" => offers[o].status = "PROPOSED"
  BY DEF Carded
<1>4. Apart'
  <2>1. CASE "stale" \in lax'
    BY <2>1 DEF Apart
  <2>2. CASE Confirmed(t) = {} /\ "stale" \notin lax'
    BY <1>1, <1>2, <1>3, <2>2 DEF Apart, Confirmed
  <2>3. QED
    BY <2>1, <2>2
<1>5. \A u \in Attempts : NoDeal(u)' => NoDeal(u)
  BY <1>1, <1>3 DEF NoDeal
<1>6. QED
  BY <1>4, <1>5 DEF Grows, Fine, Carded

LEMMA DealtGrows ==
  ASSUME Sound, Apart, NEW o \in DOMAIN offers, Dealt(o), lax' = lax
  PROVE  Grows
<1>1. \A p \in DOMAIN offers : offers[p] \in OfferRow /\ p \in Nat /\ offers[p].of \in Steps
  BY Records
<1>2. /\ DOMAIN offers' = DOMAIN offers
      /\ \A p \in DOMAIN offers : /\ offers'[p].of = offers[p].of
                                  /\ p # o => offers'[p] = offers[p]
      /\ offers'[o].status = "CONFIRMED"
  BY <1>1 DEF Dealt, OfferRow
<1>3. \A p \in DOMAIN offers : offers[p].of = offers[o].of /\ offers[p].status = "PROPOSED" => p = o
  BY <1>1 DEF Dealt, Sound, RInv, OpenIsLast
<1>4. Apart'
  BY <1>2, <1>3 DEF Apart
<1>5. ASSUME NEW t \in Attempts, Fine(t) PROVE Fine(t)'
  <2>1. NoDeal(t)' => NoDeal(t)
    BY <1>2 DEF NoDeal, Dealt
  <2>2. CASE offers[o].of = t
    BY <1>5, <2>1, <2>2 DEF Fine, NoDeal, Apart, Dealt
  <2>3. CASE offers[o].of # t
    <3>1. queue'[t] = queue[t]
      BY <1>1, <2>3 DEF Dealt, Sound, Typed, Tables, Attempts, Steps
    <3>2. QED
      BY <1>5, <2>1, <3>1 DEF Fine
  <2>4. QED
    BY <2>2, <2>3
<1>6. QED
  BY <1>4, <1>5 DEF Grows

LEMMA OneMoves ==
  ASSUME NEW h \in Handlers, sent' = sent, \A t \in Steps : step'[t] = "FAILED" => step[t] = "FAILED",
         hand'[h].at # "run", \A g \in Handlers : g # h => hand'[g] = hand[g]
  PROVE  Quiet
BY DEF Quiet

LEMMA EndsQuiet ==
  ASSUME ChoiceAssumptions, Sound, NEW h \in Handlers, Ends(h), sent' = sent, step' = step
  PROVE  Quiet
<1>1. hand'[h] = Idle /\ \A g \in Handlers : g # h => hand'[g] = hand[g]
  BY Ended DEF Sound, Typed
<1>2. QED
  BY <1>1, OneMoves DEF Idle

LEMMA LooksBooks ==
  ASSUME ChoiceAssumptions, Sound, BInv, NEW h \in Handlers, Looks(h)
  PROVE  BInv'
<1>1. lax \subseteq lax' /\ offers' = offers /\ queue' = queue /\ sent' = sent
  BY DEF Looks
<1>2. Grows
  BY <1>1, SameOffers DEF BInv
<1>3. CASE StillAsked # {}
  BY <1>1, <1>2, <1>3, EndsQuiet, QuietBooks DEF Looks
<1>4. CASE StillAsked = {}
  <2>1. hand' = [hand EXCEPT ![h].at = "run", ![h].run = LeftToRun, ![h].shut = {}]
    BY <1>4 DEF Looks
  <2>2. hand'[h].run = LeftToRun /\ \A g \in Handlers : g # h => hand'[g] = hand[g]
    BY <2>1, InSteps DEF Sound, Typed, Seats, Hand
  <2>3. \A t \in Steps : step'[t] = "FAILED" => step[t] = "FAILED"
    BY <1>4 DEF Looks
  <2>4. ASSUME NEW t \in LeftToRun \cap Attempts PROVE Fine(t)'
    <3>1. t \in Steps /\ queue[t] \in QueueRow
      BY DEF LeftToRun, Present, Sound, Typed, Tables
    <3>2. CASE queue[t].status = "NONE"
      <4>1. t \in LeftToRun \cap Rows("NONE")
        BY <3>1, <3>2 DEF Rows
      <4>2. "unasked" \in lax'
        BY <1>4, <4>1 DEF Looks
      <4>3. QED
        BY <4>2 DEF Fine
    <3>3. CASE queue[t].status = "APPROVED"
      BY <1>1, <3>3 DEF Fine, Sound, RInv, NoDeal
    <3>4. CASE queue[t].status = "REJECTED"
      <4>1. step[t] = "FAILED"
        BY <3>1, <3>4 DEF LeftToRun, Refused, Rows, Final
      <4>2. Fine(t)
        BY <3>1, <4>1 DEF BInv
      <4>3. QED
        BY <1>2, <4>2 DEF Grows
    <3>5. queue[t].status # "AWAITING"
      BY <1>4, <3>1 DEF StillAsked, Rows
    <3>6. QED
      BY <3>1, <3>2, <3>3, <3>4, <3>5 DEF QueueRow
  <2>5. QED
    BY <1>1, <1>2, <2>2, <2>3, <2>4 DEF BInv, Grows
<1>5. QED
  BY <1>3, <1>4

LEMMA SendsBooks ==
  ASSUME ChoiceAssumptions, Sound, BInv, NEW h \in Handlers, Sends(h)
  PROVE  BInv'
<1>1. Grows
  BY SameOffers DEF Sends, BInv
<1>2. PICK t \in hand[h].run : /\ hand' = [hand EXCEPT ![h].run = @ \ {t}]
                               /\ sent' \subseteq sent \cup {t} /\ sent \subseteq sent'
  BY DEF Sends
<1>3. \A g \in Handlers : hand'[g].at = hand[g].at /\ hand'[g].run \subseteq hand[g].run
  BY <1>2, InSteps DEF Sound, Typed, Seats, Hand
<1>4. \A u \in Steps : step'[u] = "FAILED" => u \in sent'
  BY <1>2, SendsSound DEF BInv
<1>5. t \in Attempts => Fine(t)
  BY DEF BInv, Sends
<1>6. QED
  BY <1>1, <1>2, <1>3, <1>4, <1>5 DEF BInv, Grows

\* The steps that neither look nor send.
LEMMA MovesBook ==
  ASSUME ChoiceAssumptions, Sound, BInv, NEW h \in Handlers,
         Parks(h) \/ Matches(h) \/ Cleans(h) \/ Asks(h) \/ Chooses(h)
  PROVE  BInv'
<1>1. CASE Parks(h)
  <2>1. hand'[h].at \in {"after", "match"} /\ \A g \in Handlers : g # h => hand'[g] = hand[g]
    BY <1>1, InSteps DEF Parks, Go, Sound, Typed, Seats, Hand
  <2>2. \A t \in Steps : step'[t] = "FAILED" => step[t] = "FAILED"
    BY <1>1 DEF Parks
  <2>3. Quiet
    BY <1>1, <2>1, <2>2, OneMoves DEF Parks
  <2>4. QED
    BY <1>1, <2>3, SameOffers, QuietBooks DEF Parks, BInv
<1>2. CASE Matches(h)
  <2>1. hand'[h].at \in {"after", "clean"} /\ \A g \in Handlers : g # h => hand'[g] = hand[g]
    BY <1>2, InSteps DEF Matches, Go, Sound, Typed, Seats, Hand
  <2>2. Quiet
    BY <1>2, <2>1, OneMoves DEF Matches, tables
  <2>3. QED
    BY <1>2, <2>2, SameOffers, QuietBooks DEF Matches, tables, BInv
<1>3. CASE Cleans(h)
  <2>1. hand'[h].at = "ask" /\ \A g \in Handlers : g # h => hand'[g] = hand[g]
    BY <1>3, InSteps DEF Cleans, Go, Sound, Typed, Seats, Hand
  <2>2. Quiet
    BY <1>3, <2>1, OneMoves DEF Cleans
  <2>3. QED
    BY <1>3, <2>2, CleansSound, TidiedGrows, QuietBooks DEF Cleans, BInv
<1>4. CASE Asks(h)
  <2>1. hand'[h].at = "choose" /\ \A g \in Handlers : g # h => hand'[g] = hand[g]
    BY <1>4, InSteps DEF Asks, Go, Sound, Typed, Seats, Hand
  <2>2. Quiet
    BY <1>4, <2>1, OneMoves DEF Asks
  <2>3. QED
    BY <1>4, <2>2, SameOffers, QuietBooks DEF Asks, BInv
<1>5. CASE Chooses(h)
  <2>1. hand'[h].at \in {"after", "offer"} /\ \A g \in Handlers : g # h => hand'[g] = hand[g]
    BY <1>5, InSteps DEF Chooses, Sound, Typed, Seats, Hand
  <2>2. Quiet
    BY <1>5, <2>1, OneMoves DEF Chooses, tables
  <2>3. QED
    BY <1>5, <2>2, SameOffers, QuietBooks DEF Chooses, tables, BInv
<1>6. QED
  BY <1>1, <1>2, <1>3, <1>4, <1>5

LEMMA OffersBooks ==
  ASSUME ChoiceAssumptions, Sound, BInv, NEW h \in Handlers, Offers(h)
  PROVE  BInv'
<1>1. \/ Still /\ UNCHANGED <<step, sent, lax, offers>>
      \/ \E q \in hand[h].pick :
           /\ Carded(q) /\ Usable(q)
           /\ lax' = lax \cup (IF hand[h].at = "offer" THEN {} ELSE {"switched"})
                         \cup (IF Confirmed(quotes[q].of) = {} THEN {} ELSE {"stale"})
  BY OffersSound
<1>2. hand'[h].at \in {"after", "idle"} /\ \A g \in Handlers : g # h => hand'[g] = hand[g]
  BY OffersSound
<1>3. sent' = sent /\ queue' = queue
  BY <1>1 DEF Carded, Offers
<1>4. CASE Still /\ UNCHANGED <<step, sent, lax, offers>>
  <2>1. Quiet
    BY <1>2, <1>4, OneMoves
  <2>2. QED
    BY <1>3, <1>4, <2>1, SameOffers, QuietBooks DEF BInv
<1>5. ASSUME NEW q \in hand[h].pick, Carded(q),
             lax' = lax \cup (IF hand[h].at = "offer" THEN {} ELSE {"switched"})
                        \cup (IF Confirmed(quotes[q].of) = {} THEN {} ELSE {"stale"})
      PROVE  BInv'
  <2>1. q \in DOMAIN quotes
    BY DEF Sound, HInv, HandOk
  <2>2. lax \subseteq lax' /\ (Confirmed(quotes[q].of) = {} \/ "stale" \in lax')
    BY <1>5
  <2>3. Grows
    BY <1>5, <2>1, <2>2, CardedGrows DEF BInv
  <2>4. \A t \in Steps : step'[t] = "FAILED" => step[t] = "FAILED"
    BY <1>5 DEF Carded, Sound, Typed, Columns
  <2>5. Quiet
    BY <1>2, <1>3, <2>4, OneMoves
  <2>6. QED
    BY <2>3, <2>5, QuietBooks
<1>6. QED
  BY <1>1, <1>4, <1>5

LEMMA ConfirmsBooks ==
  ASSUME ChoiceAssumptions, Sound, BInv, NEW o \in DOMAIN offers, Confirms(o)
  PROVE  BInv'
<1>1. (Tidied \/ Dealt(o)) /\ UNCHANGED <<hand, lax, step, sent, hint>>
  BY ConfirmsSound
<1>2. Quiet
  BY <1>1 DEF Quiet
<1>3. QED
  BY <1>1, <1>2, TidiedGrows, DealtGrows, QuietBooks DEF BInv

LEMMA EndsBook ==
  ASSUME ChoiceAssumptions, Sound, BInv, NEW h \in Handlers, After(h) \/ Concludes(h)
  PROVE  BInv'
<1>1. Ends(h) /\ UNCHANGED <<step, offers, sent, lax>>
  BY DEF After, Concludes
<1>2. \A t \in Attempts : queue'[t] = queue[t]
  <2>1. queue \in [Steps -> QueueRow] /\ 0 \notin Attempts /\ Attempts \subseteq Steps
    BY DEF Sound, Typed, Tables, Attempts, Steps, ChoiceAssumptions
  <2>2. queue' = queue \/ \E x : queue' = [queue EXCEPT ![0] = x]
    BY DEF After, Concludes
  <2>3. QED
    BY <2>1, <2>2
<1>3. QED
  BY <1>1, <1>2, EndsQuiet, SameOffers, QuietBooks DEF BInv

LEMMA SupersedesBooks ==
  ASSUME ChoiceAssumptions, Sound, BInv, NEW h \in Handlers, Supersedes(h)
  PROVE  BInv'
<1>1. UNCHANGED <<offers, queue, sent>> /\ lax \subseteq lax'
  BY DEF Supersedes, Behind
<1>2. /\ hand'[h] = Idle \/ hand'[h] = [hand[h] EXCEPT !.at = "clean"]
      /\ \A g \in Handlers : g # h => hand'[g] = hand[g]
  BY SupersedesSound
<1>3. hand'[h].at \in {"idle", "clean"}
  BY <1>2, InSteps DEF Idle, Sound, Typed, Hand
<1>4. \A t \in Steps : step'[t] = "FAILED" => step[t] = "FAILED"
  BY DEF Supersedes, Sound, Typed, Columns
<1>5. Quiet
  BY <1>1, <1>2, <1>3, <1>4, OneMoves
<1>6. QED
  BY <1>1, <1>5, SameOffers, QuietBooks DEF BInv

LEMMA RequestsBook ==
  ASSUME ChoiceAssumptions, Sound, BInv, NEW r \in Requests,
         Says(r) \/ Decides(r) \/ AsksForAnother(r) \/ Repairs(r)
  PROVE  BInv'
<1>1. r \in Handlers /\ \A g \in Handlers : hand[g] \in Hand
  BY InSteps DEF Handlers, Sound, Typed
<1>2. \E x \in [at : {"switch", "look", "supersede", "park"}, of : Attempts, old : Attempts,
                shut : SUBSET Movers, pick : SUBSET DOMAIN quotes, run : SUBSET Steps] :
        hand' = [hand EXCEPT ![r] = x]
  <2>1. Idle \in Hand
    BY IdleTyped
  <2>2. SaidNo \subseteq Movers
    BY DEF SaidNo, Rows, Sound, Typed, Tables, QueueRow
  <2>3. CASE Says(r)
    BY <2>1, <2>3 DEF Says, Idle, Hand, Live
  <2>4. CASE Decides(r)
    BY <2>1, <2>4 DEF Decides, Idle, Hand
  <2>5. CASE AsksForAnother(r)
    BY <2>1, <2>2, <2>5 DEF AsksForAnother, Idle, Hand, NextAttempt
  <2>6. CASE Repairs(r)
    BY <2>1, <2>6 DEF Repairs, Idle, Hand
  <2>7. QED
    BY <2>3, <2>4, <2>5, <2>6
<1>3. hand'[r].at # "run" /\ \A g \in Handlers : g # r => hand'[g] = hand[g]
  BY <1>1, <1>2 DEF Sound, Typed, Seats
<1>4. \A t \in Steps : step'[t] = "FAILED" => step[t] = "FAILED"
  BY DEF Says, Decides, AsksForAnother, Repairs, tables, Sound, Typed, Columns
<1>5. /\ offers' = offers /\ sent' = sent /\ lax \subseteq lax'
      /\ \A t \in Attempts : queue[t].status = "APPROVED" => queue'[t].status = "APPROVED"
  <2>1. CASE Decides(r)
    <3>1. PICK t \in Steps : /\ queue[t].status = "AWAITING"
                             /\ \/ queue' = [queue EXCEPT ![t].status = "APPROVED"]
                                \/ \E c \in Codes :
                                     queue' = [queue EXCEPT ![t].status = "REJECTED", ![t].code = c]
      BY <2>1 DEF Decides, Rows
    <3>2. queue \in [Steps -> QueueRow] /\ Attempts \subseteq Steps
      BY DEF Sound, Typed, Tables, Attempts, Steps, ChoiceAssumptions
    <3>3. \A u \in Steps : u # t => queue'[u] = queue[u]
      BY <3>1, <3>2
    <3>4. QED
      BY <2>1, <3>1, <3>2, <3>3 DEF Decides
  <2>2. CASE Says(r) \/ AsksForAnother(r) \/ Repairs(r)
    BY <2>2 DEF Says, AsksForAnother, Repairs, tables, Behind
  <2>3. QED
    BY <2>1, <2>2
<1>6. Quiet
  BY <1>1, <1>3, <1>4, <1>5, OneMoves
<1>7. QED
  BY <1>5, <1>6, SameOffers, QuietBooks DEF BInv

LEMMA OthersBook ==
  ASSUME ChoiceAssumptions, Sound, BInv, Stops \/ RunsOut \/ UNCHANGED vars
  PROVE  BInv'
<1>1. UNCHANGED <<offers, sent, lax, hand, queue>> /\ \A t \in Steps : step'[t] = "FAILED" => step[t] = "FAILED"
  BY DEF Stops, RunsOut, bounds, vars
<1>2. Quiet
  BY <1>1 DEF Quiet
<1>3. QED
  BY <1>1, <1>2, SameOffers, QuietBooks DEF BInv

LEMMA NextBooks == ASSUME Sound, BInv, [Next]_vars PROVE BInv'
<1> USE ChoiceAssumptions
<1>1. ASSUME NEW h \in Handlers,
             Parks(h) \/ Matches(h) \/ Cleans(h) \/ Asks(h) \/ Chooses(h) \/ Offers(h) \/ After(h)
      PROVE  BInv'
  BY <1>1, MovesBook, OffersBooks, EndsBook
<1>2. ASSUME NEW h \in Handlers, Looks(h) \/ Sends(h) \/ Concludes(h) \/ Supersedes(h)
      PROVE  BInv'
  BY <1>2, LooksBooks, SendsBooks, EndsBook, SupersedesBooks
<1>3. ASSUME NEW r \in Requests, Says(r) \/ Decides(r) \/ AsksForAnother(r) \/ Repairs(r)
      PROVE  BInv'
  BY <1>3, RequestsBook
<1>4. ASSUME NEW o \in DOMAIN offers, Confirms(o) PROVE BInv'
  BY <1>4, ConfirmsBooks
<1>5. CASE Stops \/ RunsOut \/ UNCHANGED vars
  BY <1>5, OthersBook
<1>6. QED
  BY <1>1, <1>2, <1>3, <1>4, <1>5 DEF Next

LEMMA InitBooks == ASSUME Init PROVE BInv
<1>1. \A t \in Steps : step[t] # "FAILED"
  BY DEF Init
<1>2. \A h \in Handlers : hand[h].at # "run"
  BY DEF Init, Idle
<1>3. QED
  BY <1>1, <1>2 DEF Init, BInv, Apart

\* A company is asked to book a move only after the customer chose it and it agreed
\* (BookedWasAgreed). Left open by the code: a step that went to nobody's queue is run with the
\* rest, and a card pinned on a deal puts an agreed step back to a question.
THEOREM BookedAsAgreed == ChoiceSpec => []BookedWasAgreed
<1>1. Init => Sound /\ BInv
  BY ChoiceAssumptions, InitTyped, InitRooted, InitBooks DEF Sound
<1>2. Sound /\ BInv /\ [Next]_vars => Sound' /\ BInv'
  BY NextSound, NextBooks
<1>3. BInv => BookedWasAgreed
  BY DEF BInv, BookedWasAgreed, Fine, NoDeal, Confirmed
<1>4. QED
  BY <1>1, <1>2, <1>3, PTL DEF ChoiceSpec

-------------------------------------------------------------------------------
(* Who refused stays out *)

Plain == {"switched", "behind"} \cap lax = {}
\* All but the newest attempt are over for good, each attempt has one offer, and the offer is not
\* of a company that refused before.
Past(t) == step[t] = "CANCELLED" /\ queue[t].status = "REJECTED"
Spared(o) ==
  \A t \in Attempts : t < offers[o].of /\ (\A k \in t..offers[o].of : details[k] = details[t])
                        => quotes[offers[o].quote].by \notin queue[t].by
Chained ==
  /\ \A t, k \in Attempts : t < k /\ There(k) => Past(t)
  /\ \A o, p \in DOMAIN offers : offers[o].of = offers[p].of => o = p
  /\ \A o \in DOMAIN offers : Spared(o)
  /\ \A t \in hint : queue[t].status = "REJECTED"
Newest(n) == There(n) /\ \A k \in Attempts : There(k) => k <= n
InLine(h) == hand[h].at \in Pipe \cup {"park"}
\* The handler that looks for a company works for the newest attempt, before it has an offer; a
\* repeated move is one that a refusal opened, and the refusers are left out of it.
Avoids(h, n) ==
  /\ hand[h].at \in {"clean", "ask", "choose", "offer"}
  /\ hand[h].at # "offer" => \A s \in 1..(n - 1) : queue[s].by \subseteq hand[h].shut
  /\ hand[h].at = "offer" => \A q \in hand[h].pick : \A s \in 1..(n - 1) : quotes[q].by \notin queue[s].by
Works(h, n) ==
  /\ hand[h].at # "park" => hand[h].of = n
  /\ hand[h].at = "offer" => \A q \in hand[h].pick : quotes[q].of = n
  /\ \A o \in DOMAIN offers : offers[o].of # n
  /\ n > 1 /\ details[n] = details[n - 1] => Avoids(h, n)
LineOk(h) == InLine(h) => \A n \in Attempts : Newest(n) => Works(h, n)
\* What a press on "another" read still holds when it writes.
PressOk(h) ==
  hand[h].at = "supersede" /\ hand[h].of = hand[h].old + 1 /\ ~There(hand[h].of)
    => \A s \in 1..hand[h].old : queue[s].status = "REJECTED" /\ queue[s].by \subseteq hand[h].shut
Alone == \A g, h \in Handlers : InLine(g) /\ InLine(h) => g = h
CInv == Chained /\ Alone /\ \A h \in Handlers : LineOk(h) /\ PressOk(h)

\* Most steps open no attempt, pin no card and leave alone what a company refused.
Calm ==
  /\ details' = details /\ \A t \in Steps : There(t)' <=> There(t)
  /\ \A t \in Attempts : /\ step[t] = "CANCELLED" => step'[t] = "CANCELLED"
                         /\ queue[t].status = "REJECTED" => queue'[t].status = "REJECTED" /\ queue'[t].by = queue[t].by
  /\ DOMAIN offers' = DOMAIN offers
  /\ \A o \in DOMAIN offers : offers'[o].of = offers[o].of /\ offers'[o].quote = offers[o].quote
  /\ DOMAIN quotes \subseteq DOMAIN quotes'
  /\ \A q \in DOMAIN quotes : quotes'[q].of = quotes[q].of /\ quotes'[q].by = quotes[q].by
  /\ \A t \in hint' : queue'[t].status = "REJECTED"

LEMMA AttemptSteps ==
  ASSUME ChoiceAssumptions
  PROVE  Attempts \subseteq Steps /\ Attempts \subseteq Nat /\ 0 \in Steps /\ 0 \notin Attempts
         /\ \A n \in Attempts : \A s \in 1..n : s \in Attempts /\ s <= n
BY DEF ChoiceAssumptions, Attempts, Steps

LEMMA CalmChained ==
  ASSUME ChoiceAssumptions, Sound, Chained, Calm
  PROVE  Chained'
<1>1. \A t, k \in Attempts : t < k /\ There(k)' => Past(t)'
  BY AttemptSteps DEF Chained, Calm, Past
<1>2. ASSUME NEW o \in DOMAIN offers PROVE Spared(o)'
  <2>1. /\ offers[o].of \in Attempts /\ offers[o].quote \in DOMAIN quotes
        /\ There(offers[o].of)
    BY Records DEF Sound, RInv, Known, Rooted
  <2>2. \A t \in Attempts : t < offers[o].of => queue'[t].by = queue[t].by
    BY <2>1 DEF Chained, Past, Calm
  <2>3. Spared(o)
    BY DEF Chained
  <2>4. QED
    BY <2>1, <2>2, <2>3 DEF Spared, Calm
<1>3. QED
  BY <1>1, <1>2 DEF Chained, Calm

LEMMA CalmHand ==
  ASSUME ChoiceAssumptions, Sound, Chained, Calm, NEW h \in Handlers, LineOk(h), PressOk(h),
         hand'[h] = hand[h]
  PROVE  LineOk(h)' /\ PressOk(h)'
<1>1. \A n \in Attempts : Newest(n)' <=> Newest(n)
  BY AttemptSteps DEF Newest, Calm
<1>2. ASSUME NEW n \in Attempts, Newest(n), Works(h, n), InLine(h) PROVE Works(h, n)'
  <2>1. \A s \in 1..(n - 1) : s \in Attempts /\ queue'[s].by = queue[s].by
    <3>1. ASSUME NEW s \in 1..(n - 1) PROVE s \in Attempts /\ s < n
      BY DEF Attempts
    <3>2. QED
      BY <1>2, <3>1 DEF Chained, Newest, Past, Calm
  <2>2. hand[h].pick \subseteq DOMAIN quotes
    BY DEF Sound, HInv, HandOk
  <2>3. QED
    BY <1>2, <2>1, <2>2 DEF Works, Avoids, Calm
<1>3. LineOk(h)'
  BY <1>1, <1>2 DEF LineOk, InLine
<1>4. PressOk(h)'
  <2>1. /\ hand[h].of \in Steps /\ hand[h].old \in Attempts
    BY InSteps DEF Sound, Typed, Hand
  <2>2. \A s \in 1..hand[h].old : s \in Attempts
    BY <2>1, AttemptSteps
  <2>3. QED
    BY <2>1, <2>2 DEF PressOk, Calm
<1>5. QED
  BY <1>3, <1>4

\* A calm step is judged by the handler that takes it.
LEMMA CalmMoves ==
  ASSUME ChoiceAssumptions, Sound, CInv, Calm, NEW h \in Handlers,
         \A g \in Handlers : g # h => hand'[g] = hand[g],
         InLine(h)' => InLine(h), LineOk(h)', PressOk(h)'
  PROVE  CInv'
<1>1. Chained'
  BY CalmChained DEF CInv
<1>2. \A g \in Handlers : LineOk(g)' /\ PressOk(g)'
  BY CalmHand DEF CInv
<1>3. Alone'
  BY DEF CInv, Alone, InLine
<1>4. QED
  BY <1>1, <1>2, <1>3 DEF CInv

LEMMA CalmStays ==
  ASSUME ChoiceAssumptions, Sound, CInv, Calm, \A g \in Handlers : hand'[g] = hand[g]
  PROVE  CInv'
<1>1. Chained'
  BY CalmChained DEF CInv
<1>2. \A g \in Handlers : LineOk(g)' /\ PressOk(g)'
  BY CalmHand DEF CInv
<1>3. Alone'
  BY DEF CInv, Alone, InLine
<1>4. QED
  BY <1>1, <1>2, <1>3 DEF CInv

\* A handler that goes elsewhere has nothing to keep.
LEMMA CalmLeaves ==
  ASSUME ChoiceAssumptions, Sound, CInv, Calm, NEW h \in Handlers,
         hand'[h].at \in {"idle", "switch", "after", "look", "run"},
         \A g \in Handlers : g # h => hand'[g] = hand[g]
  PROVE  CInv'
<1>1. ~InLine(h)' /\ LineOk(h)' /\ PressOk(h)'
  BY DEF InLine, LineOk, PressOk, Pipe
<1>2. QED
  BY <1>1, CalmMoves

\* An agreed step has one offer and it was confirmed: no card puts a refusal back.
LEMMA RefusalStays ==
  ASSUME Sound, Chained, NEW o \in DOMAIN offers, offers[o].status = "PROPOSED"
  PROVE  queue[offers[o].of].status = "NONE"
<1>1. NoDeal(offers[o].of) /\ offers[o].of \in Attempts
  BY Records DEF Chained, NoDeal
<1>2. QED
  BY <1>1 DEF Sound, RInv

LEMMA RefusedHasOffer ==
  ASSUME Sound, NEW t \in Attempts, queue[t].status = "REJECTED"
  PROVE  There(t) /\ \E o \in DOMAIN offers : offers[o].of = t
<1>1. t \in Steps
  BY DEF Attempts, Steps
<1>2. QED
  BY <1>1 DEF Sound, RInv, NoDeal

LEMMA TidiedCalm == ASSUME CInv, Tidied PROVE Calm
BY DEF CInv, Chained, Tidied, Calm, There

LEMMA AskedCalm == ASSUME CInv, NEW t, Asked(t) PROVE Calm
BY DEF CInv, Chained, Asked, Calm, There

\* A step that leaves quotes, offers and the queue alone.
LEMMA QuietCalm ==
  ASSUME CInv, Still, queue' = queue, \A t \in Attempts : step[t] = "CANCELLED" => step'[t] = "CANCELLED",
         hint' \subseteq hint \cup Rows("REJECTED")
  PROVE  Calm
BY DEF CInv, Chained, Still, Calm, Rows

LEMMA ParksChain ==
  ASSUME ChoiceAssumptions, Sound, CInv, NEW h \in Handlers, Parks(h)
  PROVE  CInv'
<1>1. Calm
  <2>1. \A t \in Attempts : step[t] = "CANCELLED" => step'[t] = "CANCELLED"
    BY AttemptSteps DEF Parks, Gated
  <2>2. queue' = queue /\ hint' = hint
    BY DEF Parks
  <2>3. QED
    BY <2>1, <2>2, ParksSound, QuietCalm
<1>2. CASE Gated \cap Attempts = {}
  <2>1. hand'[h].at = "after" /\ \A g \in Handlers : g # h => hand'[g] = hand[g]
    BY <1>2, InSteps DEF Parks, Go, Sound, Typed, Seats, Hand
  <2>2. QED
    BY <1>1, <2>1, CalmLeaves
<1>3. CASE Gated \cap Attempts # {}
  <2>1. PICK t \in Gated \cap Attempts : hand' = [hand EXCEPT ![h].at = "match", ![h].of = t]
    BY <1>3 DEF Parks
  <2>2. /\ hand'[h].at = "match" /\ hand'[h].of = t
        /\ \A g \in Handlers : g # h => hand'[g] = hand[g]
    BY <2>1, InSteps DEF Sound, Typed, Seats, Hand
  <2>3. InLine(h) /\ LineOk(h) /\ hand[h].at = "park"
    BY DEF Parks, InLine, CInv
  <2>4. ASSUME NEW n \in Attempts, Newest(n)' PROVE Works(h, n)'
    <3>1. Newest(n)
      BY <1>1, <2>4, AttemptSteps DEF Newest, Calm
    <3>2. t \in Attempts /\ There(t) /\ step[t] # "CANCELLED"
      BY DEF Gated, Present, There
    <3>3. t = n
      <4>1. t \in Nat /\ n \in Nat /\ t <= n
        BY <3>1, <3>2, AttemptSteps DEF Newest
      <4>2. ~(t < n)
        BY <3>1, <3>2 DEF CInv, Chained, Newest, Past
      <4>3. QED
        BY <4>1, <4>2
    <3>4. Works(h, n) /\ ~Avoids(h, n)
      BY <2>3, <3>1 DEF LineOk, Avoids
    <3>5. QED
      BY <1>1, <2>2, <3>3, <3>4 DEF Works, Calm
  <2>5. LineOk(h)' /\ PressOk(h)'
    BY <2>2, <2>4 DEF LineOk, PressOk
  <2>6. QED
    BY <1>1, <2>2, <2>3, <2>5, CalmMoves
<1>4. QED
  BY <1>2, <1>3

LEMMA MatchesChain ==
  ASSUME ChoiceAssumptions, Sound, CInv, NEW h \in Handlers, Matches(h)
  PROVE  CInv'
<1>1. Calm /\ UNCHANGED <<offers, details>>
  BY MatchesSound, QuietCalm DEF Matches, tables
<1>2. /\ hand'[h].at \in {"after", "clean"} /\ hand'[h].of = hand[h].of /\ hand[h].at = "match"
      /\ \A g \in Handlers : g # h => hand'[g] = hand[g]
  BY InSteps DEF Matches, Go, Sound, Typed, Seats, Hand
<1>3. InLine(h) /\ LineOk(h)
  BY DEF Matches, InLine, Pipe, CInv
<1>4. ASSUME NEW n \in Attempts, Newest(n)' PROVE Works(h, n)'
  <2>1. Newest(n)
    BY <1>1, <1>4, AttemptSteps DEF Newest, Calm
  <2>2. Works(h, n) /\ ~Avoids(h, n)
    BY <1>2, <1>3, <2>1 DEF LineOk, Avoids
  <2>3. QED
    BY <1>1, <1>2, <2>2 DEF Works
<1>5. LineOk(h)' /\ PressOk(h)'
  BY <1>2, <1>4 DEF LineOk, PressOk
<1>6. QED
  BY <1>1, <1>2, <1>3, <1>5, CalmMoves

\* The two steps in the middle keep what the handler knows.
LEMMA CarriedChain ==
  ASSUME ChoiceAssumptions, Sound, CInv, NEW h \in Handlers, Calm, queue' = queue,
         \/ hand[h].at = "clean" /\ Go(h, "ask")
         \/ hand[h].at = "ask" /\ Go(h, "choose")
  PROVE  CInv'
<1>1. /\ hand'[h].at \in {"ask", "choose"} /\ hand[h].at \in {"clean", "ask"}
      /\ hand'[h].of = hand[h].of /\ hand'[h].shut = hand[h].shut
      /\ \A g \in Handlers : g # h => hand'[g] = hand[g]
  BY InSteps DEF Go, Sound, Typed, Seats, Hand
<1>2. InLine(h) /\ LineOk(h)
  BY <1>1 DEF InLine, Pipe, CInv
<1>3. ASSUME NEW n \in Attempts, Newest(n)' PROVE Works(h, n)'
  <2>1. Newest(n)
    BY <1>3, AttemptSteps DEF Newest, Calm
  <2>2. Works(h, n)
    BY <1>2, <2>1 DEF LineOk
  <2>3. QED
    BY <1>1, <2>2 DEF Works, Avoids, Calm
<1>4. LineOk(h)' /\ PressOk(h)'
  BY <1>1, <1>3 DEF LineOk, PressOk
<1>5. QED
  BY <1>1, <1>2, <1>4, CalmMoves

LEMMA ChoosesChain ==
  ASSUME ChoiceAssumptions, Sound, CInv, NEW h \in Handlers, Chooses(h)
  PROVE  CInv'
<1>1. Calm /\ UNCHANGED <<quotes, offers, details, queue>>
  BY ChoosesSound, QuietCalm DEF Chooses, tables
<1>2. PICK best : /\ best = Best(hand[h].of, hand[h].shut)
                  /\ hand' = [hand EXCEPT ![h].pick = best, ![h].shut = {},
                                          ![h].at = IF best = {} THEN "after" ELSE "offer"]
  BY DEF Chooses
<1>3. /\ hand'[h].at \in {"after", "offer"} /\ hand'[h].of = hand[h].of /\ hand'[h].pick = best
      /\ \A g \in Handlers : g # h => hand'[g] = hand[g]
  BY <1>2, InSteps DEF Sound, Typed, Seats, Hand
<1>4. InLine(h) /\ LineOk(h) /\ hand[h].at = "choose"
  BY DEF Chooses, InLine, Pipe, CInv
<1>5. \A q \in best : quotes[q].of = hand[h].of /\ quotes[q].by \notin hand[h].shut
  BY <1>2 DEF Best, Live
<1>6. ASSUME NEW n \in Attempts, Newest(n)', hand'[h].at = "offer" PROVE Works(h, n)'
  <2>1. Newest(n)
    BY <1>1, <1>6, AttemptSteps DEF Newest, Calm
  <2>2. Works(h, n)
    BY <1>4, <2>1 DEF LineOk
  <2>3. QED
    BY <1>1, <1>3, <1>4, <1>5, <1>6, <2>2 DEF Works, Avoids
<1>7. LineOk(h)' /\ PressOk(h)'
  BY <1>3, <1>6 DEF LineOk, InLine, Pipe, PressOk
<1>8. QED
  BY <1>1, <1>3, <1>4, <1>7, CalmMoves

LEMMA LooksChain ==
  ASSUME ChoiceAssumptions, Sound, CInv, NEW h \in Handlers, Looks(h)
  PROVE  CInv'
<1>1. Calm
  <2>1. queue' = queue /\ hint' \subseteq hint \cup Rows("REJECTED")
    BY DEF Looks, Fixable, Refused
  <2>2. \A t \in Attempts : step[t] = "CANCELLED" => step'[t] = "CANCELLED"
    BY AttemptSteps DEF Looks, Final
  <2>3. QED
    BY <2>1, <2>2, LooksSound, QuietCalm
<1>2. hand'[h].at \in {"idle", "run"} /\ \A g \in Handlers : g # h => hand'[g] = hand[g]
  BY InSteps DEF Looks, Ends, Idle, Sound, Typed, Seats, Hand
<1>3. QED
  BY <1>1, <1>2, CalmLeaves

LEMMA SendsChain ==
  ASSUME ChoiceAssumptions, Sound, CInv, NEW h \in Handlers, Sends(h)
  PROVE  CInv'
<1>1. Calm
  <2>1. queue' = queue /\ hint' = hint
    BY DEF Sends
  <2>2. \A t \in Attempts : step[t] = "CANCELLED" => step'[t] = "CANCELLED"
    BY AttemptSteps DEF Sends, Sound, Typed, Columns
  <2>3. QED
    BY <2>1, <2>2, SendsSound, QuietCalm
<1>2. hand'[h].at = "run" /\ \A g \in Handlers : g # h => hand'[g] = hand[g]
  BY InSteps DEF Sends, Sound, Typed, Seats, Hand
<1>3. QED
  BY <1>1, <1>2, CalmLeaves

LEMMA EndsChain ==
  ASSUME ChoiceAssumptions, Sound, CInv, NEW h \in Handlers, After(h) \/ Concludes(h)
  PROVE  CInv'
<1>1. hand'[h].at = "idle" /\ \A g \in Handlers : g # h => hand'[g] = hand[g]
  BY Ended DEF After, Concludes, Idle, Sound, Typed
<1>2. UNCHANGED <<details, offers, quotes, step, hint>>
  BY DEF After, Concludes
<1>3. \A t \in Attempts : queue'[t] = queue[t]
  <2>1. queue \in [Steps -> QueueRow]
    BY DEF Sound, Typed, Tables
  <2>2. queue' = queue \/ \E x : queue' = [queue EXCEPT ![0] = x]
    BY DEF After, Concludes
  <2>3. QED
    BY <2>1, <2>2, AttemptSteps
<1>4. hint \subseteq Attempts
  BY DEF Sound, Typed, Columns
<1>5. Calm
  BY <1>2, <1>3, <1>4 DEF Calm, There, CInv, Chained
<1>6. QED
  BY <1>1, <1>5, CalmLeaves

LEMMA DecidesChain ==
  ASSUME ChoiceAssumptions, Sound, CInv, NEW r \in Requests, Decides(r)
  PROVE  CInv'
<1>1. r \in Handlers /\ hand'[r].at = "look" /\ \A g \in Handlers : g # r => hand'[g] = hand[g]
  BY DEF Decides, Idle, Handlers, Sound, Typed, Seats
<1>2. PICK t \in Steps : /\ queue[t].status = "AWAITING"
                         /\ \/ queue' = [queue EXCEPT ![t].status = "APPROVED"]
                            \/ \E c \in Codes :
                                 queue' = [queue EXCEPT ![t].status = "REJECTED", ![t].code = c]
  BY DEF Decides, Rows
<1>3. queue \in [Steps -> QueueRow] /\ hint \subseteq Attempts
  BY DEF Sound, Typed, Tables, Columns
<1>4. \A u \in Steps : u # t => queue'[u] = queue[u]
  BY <1>2, <1>3
<1>5. UNCHANGED <<details, offers, quotes, step, hint>>
  BY DEF Decides
<1>6. Calm
  BY <1>2, <1>3, <1>4, <1>5, AttemptSteps DEF Calm, There, CInv, Chained
<1>7. QED
  BY <1>1, <1>6, CalmLeaves

LEMMA SaysChain ==
  ASSUME ChoiceAssumptions, Sound, CInv, NEW r \in Requests, Says(r)
  PROVE  CInv'
<1>1. r \in Handlers /\ hand'[r].at = "switch" /\ \A g \in Handlers : g # r => hand'[g] = hand[g]
  BY DEF Says, Idle, Handlers, Sound, Typed, Seats
<1>2. Calm
  BY SaysSound, QuietCalm DEF Says, tables
<1>3. QED
  BY <1>1, <1>2, CalmLeaves

\* mo_lan_chon_lai reads who said no in every attempt there is.
LEMMA AnotherChain ==
  ASSUME ChoiceAssumptions, Sound, CInv, NEW r \in Requests, AsksForAnother(r)
  PROVE  CInv'
<1>1. Calm /\ UNCHANGED <<step, queue>>
  BY AnotherSound, QuietCalm DEF AsksForAnother, tables
<1>2. PICK t \in Rows("REJECTED") \cap Attempts, k \in NextAttempt :
        hand' = [hand EXCEPT ![r] = [Idle EXCEPT !.at = "supersede", !.old = t, !.of = k, !.shut = SaidNo]]
  BY DEF AsksForAnother
<1>3. /\ r \in Handlers /\ hand'[r].at = "supersede" /\ hand'[r].old = t /\ hand'[r].shut = SaidNo
      /\ \A g \in Handlers : g # r => hand'[g] = hand[g]
  BY <1>2 DEF Idle, Handlers, Sound, Typed, Seats
<1>4. ASSUME NEW s \in 1..t PROVE queue[s].status = "REJECTED" /\ queue[s].by \subseteq SaidNo
  <2>1. t \in Attempts /\ s \in Attempts /\ s <= t /\ queue[t].status = "REJECTED" /\ There(t)
    BY <1>4, AttemptSteps, RefusedHasOffer DEF Rows
  <2>2. queue[s].status = "REJECTED"
    <3>1. CASE s = t
      BY <2>1, <3>1
    <3>2. CASE s < t
      BY <2>1, <3>2 DEF CInv, Chained, Past
    <3>3. s \in Nat /\ t \in Nat
      BY <2>1, AttemptSteps
    <3>4. QED
      BY <2>1, <3>1, <3>2, <3>3
  <2>3. s \in Rows("REJECTED")
    BY <2>1, <2>2, AttemptSteps DEF Rows
  <2>4. QED
    BY <2>2, <2>3 DEF SaidNo
<1>5. PressOk(r)' /\ LineOk(r)' /\ ~InLine(r)'
  BY <1>1, <1>3, <1>4 DEF PressOk, LineOk, InLine, Pipe
<1>6. QED
  BY <1>1, <1>3, <1>5, CalmMoves

LEMMA ConfirmsChain ==
  ASSUME ChoiceAssumptions, Sound, CInv, NEW o \in DOMAIN offers, Confirms(o)
  PROVE  CInv'
<1>1. (Tidied \/ Dealt(o)) /\ UNCHANGED <<hand, lax, step, sent, hint>>
  BY ConfirmsSound
<1>2. CASE Tidied
  BY <1>1, <1>2, TidiedCalm, CalmStays
<1>3. CASE Dealt(o)
  <2>1. queue[offers[o].of].status = "NONE"
    BY <1>3, RefusalStays DEF Dealt, CInv
  <2>2. /\ queue \in [Steps -> QueueRow] /\ hint \subseteq Attempts
        /\ \A p \in DOMAIN offers : offers[p] \in OfferRow
        /\ \A q \in DOMAIN quotes : quotes[q] \in QuoteRow
    BY Records DEF Sound, Typed, Tables, Columns
  <2>3. \A u \in Attempts : queue[u].status = "REJECTED" => queue'[u] = queue[u]
    BY <1>3, <2>1, <2>2, AttemptSteps DEF Dealt
  <2>4. /\ DOMAIN offers' = DOMAIN offers
        /\ \A p \in DOMAIN offers : offers'[p].of = offers[p].of /\ offers'[p].quote = offers[p].quote
    BY <1>3, <2>2 DEF Dealt, OfferRow
  <2>5. /\ DOMAIN quotes' = DOMAIN quotes
        /\ \A q \in DOMAIN quotes : quotes'[q].of = quotes[q].of /\ quotes'[q].by = quotes[q].by
    BY <1>3, <2>2 DEF Dealt, QuoteRow
  <2>6. Calm
    BY <1>1, <1>3, <2>2, <2>3, <2>4, <2>5 DEF Calm, Dealt, There, CInv, Chained
  <2>7. QED
    BY <1>1, <2>6, CalmStays
<1>4. QED
  BY <1>1, <1>2, <1>3

LEMMA OthersChain ==
  ASSUME ChoiceAssumptions, Sound, CInv, Stops \/ RunsOut \/ UNCHANGED vars
  PROVE  CInv'
<1>1. Calm
  <2>1. CASE Stops
    <3>1. /\ queue' = queue /\ hint' = hint
          /\ \A t \in Attempts : step[t] = "CANCELLED" => step'[t] = "CANCELLED"
      BY <2>1, AttemptSteps DEF Stops
    <3>2. QED
      BY <2>1, <3>1, StopsSound, QuietCalm
  <2>2. CASE RunsOut
    BY <2>2, RunsOutSound, TidiedCalm
  <2>3. CASE UNCHANGED vars
    BY <2>3 DEF vars, Calm, There, CInv, Chained
  <2>4. QED
    BY <2>1, <2>2, <2>3
<1>2. \A g \in Handlers : hand'[g] = hand[g]
  BY DEF Stops, RunsOut, vars
<1>3. QED
  BY <1>1, <1>2, CalmStays

\* The attempts that are there have a newest.
LEMMA NewestThere ==
  ASSUME ChoiceAssumptions, NEW t \in Attempts, There(t)
  PROVE  \E n \in Attempts : Newest(n)
<1> DEFINE T == {k \in Attempts : There(k)}
<1>1. MaxAttempts \in Nat /\ T \subseteq 1..MaxAttempts /\ T # {}
  BY DEF ChoiceAssumptions, Attempts
<1>2. \E n \in T : \A k \in T : k <= n
  <2> HIDE DEF T
  <2>1. QED
    BY <1>1, Latest
<1>3. QED
  BY <1>2 DEF Newest

LEMMA OffersChain ==
  ASSUME ChoiceAssumptions, Sound, CInv, NEW h \in Handlers, Offers(h), Plain'
  PROVE  CInv'
<1>1. /\ hand'[h].at \in {"after", "idle"} /\ \A g \in Handlers : g # h => hand'[g] = hand[g]
      /\ queue' = queue /\ hint' = hint
  BY OffersSound DEF Offers
<1>2. CASE Still /\ UNCHANGED <<step, sent, lax, offers>>
  BY <1>1, <1>2, QuietCalm, CalmLeaves
<1>3. ASSUME NEW q \in hand[h].pick, Carded(q),
             lax' = lax \cup (IF hand[h].at = "offer" THEN {} ELSE {"switched"})
                        \cup (IF Confirmed(quotes[q].of) = {} THEN {} ELSE {"stale"})
      PROVE  CInv'
  <2>1. hand[h].at = "offer"
    BY <1>3 DEF Plain
  <2>2. InLine(h) /\ LineOk(h) /\ There(hand[h].of) /\ hand[h].of \in Attempts /\ q \in DOMAIN quotes
    BY <2>1, InSteps DEF InLine, Pipe, CInv, Sound, HInv, HandOk, Typed, Hand
  <2>3. PICK n \in Attempts : Newest(n)
    BY <2>2, NewestThere
  <2>4. Works(h, n) /\ quotes[q].of = n
    BY <1>3, <2>1, <2>2, <2>3 DEF LineOk, Works
  <2>5. /\ step \in [Steps -> {"absent", "PENDING", "WAITING_APPROVAL"} \cup Final]
        /\ n \in Steps /\ n \in Nat /\ Attempts \subseteq Nat /\ Attempts \subseteq Steps
    BY AttemptSteps DEF Sound, Typed, Columns
  <2>6. step'[n] = "WAITING_APPROVAL" /\ \A t \in Steps : t # n => step'[t] = step[t]
    BY <1>3, <2>4, <2>5 DEF Carded
  <2>7. \A t \in Steps : There(t)' <=> There(t)
    BY <2>3, <2>6 DEF There, Newest
  <2>8. \A t, k \in Attempts : t < k /\ There(k)' => Past(t)'
    <3>1. ASSUME NEW t \in Attempts, NEW k \in Attempts, t < k, There(k) PROVE Past(t)'
      <4>1. k <= n /\ t # n /\ Past(t)
        BY <2>3, <2>5, <3>1 DEF Newest, CInv, Chained
      <4>2. QED
        BY <1>1, <2>5, <2>6, <4>1 DEF Past
    <3>2. QED
      BY <2>5, <2>7, <3>1
  <2>9. PICK new \in Nat :
        /\ DOMAIN offers' = DOMAIN offers \cup {new}
        /\ offers'[new].of = n /\ offers'[new].quote = q
        /\ \A o \in DOMAIN offers : offers'[o].of = offers[o].of /\ offers'[o].quote = offers[o].quote
    BY <1>3, <2>4, Records DEF Carded
  <2>10. \A o, p \in DOMAIN offers' : offers'[o].of = offers'[p].of => o = p
    <3>1. \A o, p \in DOMAIN offers : offers[o].of = offers[p].of => o = p
      BY DEF CInv, Chained
    <3>2. \A o \in DOMAIN offers : offers[o].of # n
      BY <2>4 DEF Works
    <3>3. QED
      BY <2>9, <3>1, <3>2
  <2>11. \A o \in DOMAIN offers' : Spared(o)'
    <3>1. UNCHANGED <<details, queue, quotes>>
      BY <1>1, <1>3 DEF Carded
    <3>2. ASSUME NEW o \in DOMAIN offers PROVE Spared(o)'
      BY <2>9, <3>1 DEF Spared, CInv, Chained
    <3>3. ASSUME NEW t \in Attempts, t < n, \A k \in t..n : details[k] = details[t]
          PROVE  quotes[q].by \notin queue[t].by
      <4>1. n > 1 /\ n - 1 \in t..n /\ n \in t..n /\ t \in 1..(n - 1)
        BY <2>5, <3>3 DEF Attempts
      <4>2. details[n] = details[n - 1]
        BY <3>3, <4>1
      <4>3. QED
        BY <1>3, <2>1, <2>4, <4>1, <4>2 DEF Works, Avoids
    <3>4. Spared(new)'
      BY <2>9, <3>1, <3>3 DEF Spared
    <3>5. QED
      BY <2>9, <3>2, <3>4
  <2>12. Chained'
    BY <1>1, <2>8, <2>10, <2>11 DEF CInv, Chained
  <2>13. \A g \in Handlers : g # h => ~InLine(g)
    BY <2>2 DEF CInv, Alone
  <2>14. \A g \in Handlers : ~InLine(g)'
    BY <1>1, <2>13 DEF InLine, Pipe
  <2>15. \A g \in Handlers : hand[g].of \in Steps
    BY InSteps DEF Sound, Typed
  <2>16. ASSUME NEW g \in Handlers PROVE PressOk(g)'
    BY <1>1, <2>7, <2>15 DEF PressOk, CInv
  <2>17. QED
    BY <2>12, <2>14, <2>16 DEF CInv, Alone, LineOk
<1>4. QED
  BY <1>2, <1>3, OffersSound

\* An attempt that follows the last one: nobody is looking for a company then.
LEMMA OpenedChain ==
  ASSUME ChoiceAssumptions, Sound, CInv, NEW t \in Attempts, NEW k \in Attempts, k = t + 1, Opened(k),
         queue[t].status = "REJECTED", step'[t] = "CANCELLED",
         \A u \in Attempts : u # t /\ u # k => step'[u] = step[u]
  PROVE  /\ Chained' /\ \A g \in Handlers : ~InLine(g)
         /\ \A n \in Attempts : Newest(n)' => n = k
         /\ \A o \in DOMAIN offers' : offers'[o].of # k
         /\ \A g \in Handlers : hand'[g] = hand[g] => LineOk(g)' /\ PressOk(g)'
<1>1. Attempts \subseteq Nat /\ Attempts \subseteq Steps /\ There(t) /\ k \in Nat /\ t \in Nat
  BY AttemptSteps, RefusedHasOffer
<1>2. \A u, v \in Attempts : u < v /\ There(v) => Past(u) /\ There(u)
  BY DEF CInv, Chained, Past, There
<1>3. ASSUME NEW v \in Attempts, There(v) PROVE v <= t
  <2>1. v # k /\ ~(k < v)
    BY <1>2, <1>3 DEF Opened
  <2>2. QED
    BY <1>1, <2>1
<1>4. Newest(t)
  BY <1>1, <1>3 DEF Newest
<1>5. \A g \in Handlers : ~InLine(g)
  BY <1>4, RefusedHasOffer DEF CInv, LineOk, Works
<1>6. \A n \in Attempts : Newest(n)' => n = k
  <2>1. ASSUME NEW n \in Attempts, Newest(n)' PROVE n = k
    <3>1. k <= n
      BY <2>1 DEF Newest, Opened, There
    <3>2. n # k => There(n)
      BY <1>1, <2>1 DEF Newest, Opened
    <3>3. QED
      BY <1>1, <1>3, <3>1, <3>2
  <2>2. QED
    BY <2>1
<1>7. \A o \in DOMAIN offers : /\ offers[o].of \in Attempts /\ offers[o].of <= t /\ offers[o].of # k
  <2>1. ASSUME NEW o \in DOMAIN offers PROVE There(offers[o].of) /\ offers[o].of \in Attempts
    BY Records DEF Sound, RInv, Known, Rooted
  <2>2. QED
    BY <1>3, <2>1 DEF Opened
<1>8. \A u, v \in Attempts : u < v /\ There(v)' => Past(u)'
  <2>1. ASSUME NEW u \in Attempts, NEW v \in Attempts, u < v, There(v)' PROVE Past(u)'
    <3>1. u = t \/ (u # t /\ u # k /\ Past(u))
      <4>1. CASE v = k
        <5>1. u <= t
          BY <1>1, <2>1, <4>1
        <5>2. QED
          BY <1>1, <1>2, <5>1
      <4>2. CASE v # k
        <5>1. There(v)
          BY <1>1, <2>1, <4>2 DEF Opened
        <5>2. QED
          BY <1>2, <2>1, <5>1 DEF Opened
      <4>3. QED
        BY <4>1, <4>2
    <3>2. queue' = queue
      BY DEF Opened
    <3>3. QED
      BY <3>1, <3>2 DEF Past
  <2>2. QED
    BY <2>1
<1>9. ASSUME NEW o \in DOMAIN offers PROVE Spared(o)'
  <2>1. Spared(o) /\ UNCHANGED <<quotes, offers, queue>>
    BY DEF CInv, Chained, Opened
  <2>2. \A u \in Attempts : \A v \in u..offers[o].of : v \in Attempts /\ details'[v] = details[v] /\ details'[u] = details[u]
    <3>1. ASSUME NEW u \in Attempts, NEW v \in u..offers[o].of
          PROVE  v \in Attempts /\ v # k /\ u # k
      <4>1. PICK m \in Nat : m = offers[o].of /\ m <= t
        BY <1>1, <1>7
      <4>2. v <= m /\ u <= v /\ v \in Int /\ u \in Nat /\ u >= 1 /\ t <= MaxAttempts
        BY <1>1, <4>1 DEF Attempts
      <4>3. MaxAttempts \in Nat
        BY DEF ChoiceAssumptions
      <4>4. QED
        BY <1>1, <4>1, <4>2, <4>3 DEF Attempts
    <3>2. QED
      BY <3>1 DEF Opened
  <2>3. QED
    BY <2>1, <2>2 DEF Spared
<1>10. Chained'
  BY <1>8, <1>9 DEF CInv, Chained, Opened
<1>11. ASSUME NEW g \in Handlers, hand'[g] = hand[g] PROVE LineOk(g)' /\ PressOk(g)'
  <2>1. hand[g].of \in Steps
    BY InSteps DEF Sound, Typed
  <2>2. LineOk(g)'
    BY <1>5, <1>11 DEF LineOk, InLine
  <2>3. step[hand[g].of] # "absent" => step'[hand[g].of] # "absent"
    BY <2>1 DEF Opened, There
  <2>4. PressOk(g) /\ queue' = queue
    BY DEF CInv, Opened
  <2>5. PressOk(g)'
    BY <1>11, <2>3, <2>4 DEF PressOk, There
  <2>6. QED
    BY <2>2, <2>5
<1>12. QED
  BY <1>5, <1>6, <1>7, <1>10, <1>11 DEF Opened

LEMMA SupersedesChain ==
  ASSUME ChoiceAssumptions, Sound, CInv, NEW h \in Handlers, Supersedes(h), Plain'
  PROVE  CInv'
<1>1. \A g \in Handlers : g # h => hand'[g] = hand[g]
  BY SupersedesSound
<1>2. CASE Still /\ UNCHANGED <<step, sent, lax, offers>> /\ hand'[h] = Idle
  <2>1. Calm
    BY <1>2, QuietCalm DEF Supersedes
  <2>2. hand'[h].at = "idle"
    BY <1>2 DEF Idle
  <2>3. QED
    BY <1>1, <2>1, <2>2, CalmLeaves
<1>3. CASE /\ Opened(hand[h].of) /\ hand'[h] = [hand[h] EXCEPT !.at = "clean"]
           /\ lax' = Behind(hand[h].old, hand[h].of)
           /\ details'[hand[h].of] = details[hand[h].old]
           /\ step' = [step EXCEPT ![hand[h].old] = "CANCELLED", ![hand[h].of] = "PENDING"]
  <2>1. PICK t \in Attempts, k \in Attempts : t = hand[h].old /\ k = hand[h].of
    BY InSteps DEF Sound, Typed, Hand
  <2>2. k = t + 1
    BY <1>3, <2>1 DEF Plain, Behind
  <2>3. hand[h].at = "supersede" /\ ~There(k) /\ PressOk(h)
    BY <1>3, <2>1 DEF Supersedes, Opened, CInv
  <2>4. \A s \in 1..t : queue[s].status = "REJECTED" /\ queue[s].by \subseteq hand[h].shut
    BY <2>1, <2>2, <2>3 DEF PressOk
  <2>5. t \in Nat /\ t \in 1..t /\ k - 1 = t /\ t \in Steps /\ k \in Steps
    BY <2>2, AttemptSteps DEF Attempts
  <2>6. step'[t] = "CANCELLED" /\ \A u \in Attempts : u # t /\ u # k => step'[u] = step[u]
    BY <1>3, <2>1, <2>2, <2>5, AttemptSteps DEF Sound, Typed, Columns
  <2>7. Opened(k) /\ queue[t].status = "REJECTED"
    BY <1>3, <2>1, <2>4, <2>5
  <2>8. /\ Chained' /\ \A g \in Handlers : ~InLine(g)
        /\ \A n \in Attempts : Newest(n)' => n = k
        /\ \A o \in DOMAIN offers' : offers'[o].of # k
        /\ \A g \in Handlers : hand'[g] = hand[g] => LineOk(g)' /\ PressOk(g)'
    BY <2>2, <2>6, <2>7, OpenedChain
  <2>9. hand'[h].at = "clean" /\ hand'[h].of = k /\ hand'[h].shut = hand[h].shut
    BY <1>3, <2>1, InSteps DEF Sound, Typed, Hand
  <2>10. queue' = queue
    BY <2>7 DEF Opened
  <2>11. Works(h, k)'
    BY <2>4, <2>5, <2>8, <2>9, <2>10 DEF Works, Avoids
  <2>12. LineOk(h)' /\ PressOk(h)'
    BY <2>8, <2>9, <2>11 DEF LineOk, PressOk
  <2>13. Alone'
    BY <1>1, <2>8 DEF Alone, InLine
  <2>14. QED
    BY <1>1, <2>8, <2>12, <2>13 DEF CInv
<1>4. QED
  BY <1>2, <1>3, SupersedesSound

LEMMA RepairsChain ==
  ASSUME ChoiceAssumptions, Sound, CInv, NEW r \in Requests, Repairs(r), Plain'
  PROVE  CInv'
<1>1. PICK t \in Attempts, k \in Attempts :
        /\ t \in hint /\ Opened(k) /\ lax' = Behind(t, k)
        /\ details'[k] # details[t] /\ hand'[r] = [Idle EXCEPT !.at = "park"]
        /\ step' = [step EXCEPT ![t] = "CANCELLED", ![k] = "PENDING"]
  BY RepairsSound DEF NextAttempt, Sound, Typed, Columns
<1>2. r \in Handlers /\ \A g \in Handlers : g # r => hand'[g] = hand[g]
  BY RepairsSound DEF Handlers
<1>3. Opened(k) /\ queue[t].status = "REJECTED"
  BY <1>1 DEF CInv, Chained
<1>4. k = t + 1
  BY <1>1 DEF Plain, Behind
<1>5. t \in Nat /\ k - 1 = t /\ k # t
  BY <1>4, AttemptSteps
<1>6. step'[t] = "CANCELLED" /\ \A u \in Attempts : u # t /\ u # k => step'[u] = step[u]
  BY <1>1, <1>5, AttemptSteps DEF Sound, Typed, Columns
<1>7. /\ Chained' /\ \A g \in Handlers : ~InLine(g)
      /\ \A n \in Attempts : Newest(n)' => n = k
      /\ \A o \in DOMAIN offers' : offers'[o].of # k
      /\ \A g \in Handlers : hand'[g] = hand[g] => LineOk(g)' /\ PressOk(g)'
  BY <1>3, <1>4, <1>6, OpenedChain
<1>8. hand'[r].at = "park"
  BY <1>1 DEF Idle
<1>9. details'[k] # details'[k - 1]
  BY <1>1, <1>3, <1>5 DEF Opened
<1>10. Works(r, k)'
  BY <1>7, <1>8, <1>9 DEF Works
<1>11. LineOk(r)' /\ PressOk(r)'
  BY <1>7, <1>8, <1>10 DEF LineOk, PressOk
<1>12. Alone'
  BY <1>2, <1>7 DEF Alone, InLine
<1>13. QED
  BY <1>2, <1>7, <1>11, <1>12 DEF CInv

LEMMA PlainBefore == ASSUME Sound, [Next]_vars, Plain' PROVE Plain
<1>1. lax \subseteq lax'
  BY DEF Next, Parks, Matches, Cleans, Asks, Chooses, Offers, After, Looks, Sends, Concludes, Supersedes,
         Behind, Says, Decides, AsksForAnother, Repairs, Confirms, Stops, RunsOut, vars
<1>2. QED
  BY <1>1 DEF Plain

LEMMA NextChained == ASSUME Sound, CInv, [Next]_vars, Plain' PROVE CInv'
<1> USE ChoiceAssumptions
<1>1. ASSUME NEW h \in Handlers,
             Parks(h) \/ Matches(h) \/ Cleans(h) \/ Asks(h) \/ Chooses(h) \/ Offers(h) \/ After(h)
      PROVE  CInv'
  <2>1. CASE Cleans(h)
    <3>1. Calm
      BY <2>1, CleansSound, TidiedCalm
    <3>2. QED
      BY <2>1, <3>1, CarriedChain DEF Cleans
  <2>2. CASE Asks(h)
    <3>1. Calm
      BY <2>2, AsksSound, AskedCalm
    <3>2. QED
      BY <2>2, <3>1, CarriedChain DEF Asks
  <2>3. QED
    BY <1>1, <2>1, <2>2, ParksChain, MatchesChain, ChoosesChain, OffersChain, EndsChain
<1>2. ASSUME NEW h \in Handlers, Looks(h) \/ Sends(h) \/ Concludes(h) \/ Supersedes(h)
      PROVE  CInv'
  BY <1>2, LooksChain, SendsChain, EndsChain, SupersedesChain
<1>3. ASSUME NEW r \in Requests, Says(r) \/ Decides(r) \/ AsksForAnother(r) \/ Repairs(r)
      PROVE  CInv'
  BY <1>3, SaysChain, DecidesChain, AnotherChain, RepairsChain
<1>4. ASSUME NEW o \in DOMAIN offers, Confirms(o) PROVE CInv'
  BY <1>4, ConfirmsChain
<1>5. CASE Stops \/ RunsOut \/ UNCHANGED vars
  BY <1>5, OthersChain
<1>6. QED
  BY <1>1, <1>2, <1>3, <1>4, <1>5 DEF Next

LEMMA InitChained == ASSUME ChoiceAssumptions, Init PROVE CInv
<1>1. Attempts \subseteq Nat /\ Attempts \subseteq Steps /\ 0 \notin Attempts /\ \A n \in Attempts : n >= 1
  BY AttemptSteps DEF Attempts
<1>2. \A t \in Attempts : There(t) => t = 1
  BY <1>1 DEF Init, There
<1>3. Chained
  <2>1. \A t, k \in Attempts : ~(t < k /\ There(k))
    BY <1>1, <1>2
  <2>2. QED
    BY <2>1 DEF Init, Chained
<1>4. \A h \in Handlers : InLine(h) => h = Job /\ hand[h].at = "park"
  BY DEF Init, InLine, Idle, Pipe
<1>5. \A h \in Handlers : hand[h].at \in {"idle", "park"}
  BY DEF Init, Idle
<1>6. Alone /\ \A h \in Handlers : PressOk(h)
  BY <1>4, <1>5 DEF Alone, PressOk
<1>7. ASSUME NEW h \in Handlers, InLine(h), NEW n \in Attempts, Newest(n) PROVE Works(h, n)
  <2>1. ~(n > 1)
    BY <1>2, <1>7 DEF Newest
  <2>2. hand[h].at = "park"
    BY <1>4, <1>7
  <2>3. QED
    BY <2>1, <2>2 DEF Works, Init
<1>8. QED
  BY <1>3, <1>6, <1>7 DEF CInv, LineOk

LEMMA ChainSpares == ASSUME ChoiceAssumptions, CInv PROVE RefusedStaysOut
BY DEF CInv, Chained, Spared, RefusedStaysOut

\* A company that refused a move is not offered for it again in any later attempt (RefusedStaysOut),
\* however many attempts there are, and whoever else repairs, confirms, stops or lets quotes run
\* out. Left open by the code: the customer switches to it by name, and a press on an old card
\* reads the refusals before the newest one is there.
THEOREM RefusersLeftOut == ChoiceSpec => []RefusedStaysOut
<1> DEFINE Inv == Sound /\ (Plain => CInv)
<1>1. Init => Inv
  BY ChoiceAssumptions, InitTyped, InitRooted, InitChained DEF Sound
<1>2. Inv /\ [Next]_vars => Inv'
  <2> SUFFICES ASSUME Sound, Plain => CInv, [Next]_vars PROVE Sound' /\ (Plain' => CInv')
    OBVIOUS
  <2>1. Sound'
    BY NextSound
  <2>2. ASSUME Plain' PROVE CInv'
    BY <2>2, PlainBefore, NextChained
  <2>3. QED
    BY <2>1, <2>2
<1>3. Inv => RefusedStaysOut
  BY ChoiceAssumptions, ChainSpares DEF Plain, RefusedStaysOut
<1>4. QED
  BY <1>1, <1>2, <1>3, PTL DEF ChoiceSpec

===============================================================================
