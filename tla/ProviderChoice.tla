----------------------------- MODULE ProviderChoice -----------------------------
(***************************************************************************)
(* Who moves the household: quotes, the company offered to the customer,   *)
(* the customer's confirmation, the company's decision and, after a        *)
(* refusal, the next attempt (quote_repository, proposal_repository,       *)
(* provider_matching, provider_selection, provider_reselection,            *)
(* proposal_followup), with SERVICE_PROVIDER_MATCHING on.                  *)
(*                                                                         *)
(* One workflow with one move, whose attempts are the steps 1, 2, ... (T1, *)
(* T1R2, ...), and one other service, the step 0, that goes straight to    *)
(* its company's queue.  What a run does beside sending is ApprovalQueue.  *)
(***************************************************************************)
EXTENDS Integers, FiniteSets, Sequences, Functions

CONSTANTS Companies,   \* DON_VI_CHUYEN_NHA, in the order of the catalogue
          Details,     \* what is to be moved and when: one fingerprint each
          Price,       \* [company -> amount], ties broken by the order above
          Closed,      \* [details -> companies without a crew on that day]
          MaxAttempts, \* BOUND on the attempts of the move
          MaxOffers,   \* BOUND on the offers made
          MaxLate,     \* BOUND on quotes that run out
          MaxFailures, \* BOUND on companies that do not answer
          Requests     \* handlers of requests

Movers == Range(Companies)
Attempts == 1..MaxAttempts
Steps == 0..MaxAttempts
Job == "job"
Handlers == Requests \cup {Job}

ASSUME ChoiceAssumptions ==
  /\ Companies \in Seq(Movers)
  /\ \A i, j \in DOMAIN Companies : Companies[i] = Companies[j] => i = j
  /\ Price \in [Movers -> Nat] /\ Closed \in [Details -> SUBSET Movers]
  /\ MaxAttempts \in Nat \ {0} /\ {MaxOffers, MaxLate, MaxFailures} \subseteq Nat /\ Job \notin Requests

VARIABLES wf,      \* workflows.status
          step,    \* workflow_tasks.status
          details, \* input_data of an attempt: what its fingerprint covers
          quotes,  \* service_quotes, oldest first
          offers,  \* service_provider_proposals, oldest first
          queue,   \* service_approvals
          sent,    \* steps a company's system was asked to book
          hint,    \* attempts whose details the customer is asked to change
          hand,    \* where each handler is
          late, failures,
          lax      \* what happened that the code lets through, see the properties

vars == <<wf, step, details, quotes, offers, queue, sent, hint, hand, late, failures, lax>>
tables == <<wf, step, details, quotes, offers, queue, sent, hint>>
bounds == <<late, failures>>

Final == {"SUCCESS", "FAILED", "CANCELLED"}
Idle == [at |-> "idle", of |-> 1, old |-> 1, shut |-> {}, pick |-> {}, run |-> {}]
Go(h, at) == hand' = [hand EXCEPT ![h].at = at]
Ends(h) == hand' = [hand EXCEPT ![h] = Idle]
NoRow == [status |-> "NONE", by |-> {}, for |-> {}, code |-> "NONE"]
Present == {t \in Steps : step[t] # "absent"}
Rows(s) == {t \in Steps : queue[t].status = s}

-------------------------------------------------------------------------------
(* Quotes and offers *)

\* bao_gia_dang_song: what can still be confirmed.
Usable(q) == quotes[q].status = "ACTIVE" /\ ~quotes[q].late
Live(t) == {q \in DOMAIN quotes : quotes[q].of = t /\ quotes[q].for = details[t] /\ Usable(q)}
\* _xep_hang: the price, then the catalogue's order.
Before(a, b) == \E i, j \in DOMAIN Companies : i < j /\ Companies[i] = a /\ Companies[j] = b
Better(q, r) ==
  LET this == quotes[q].by  that == quotes[r].by
  IN  Price[this] < Price[that] \/ (Price[this] = Price[that] /\ (this = that \/ Before(this, that)))
\* Slip: whoever said no is asked again.
BestOfAll(t, shut) == {q \in Live(t) : \A r \in Live(t) : Better(q, r)}
\* chon_don_vi without a name and without a budget.
Best(t, shut) ==
  LET open == {q \in Live(t) : quotes[q].by \notin shut}
  IN  {q \in open : \A r \in open : Better(q, r)}

Proposed(t) == {o \in DOMAIN offers : offers[o].of = t /\ offers[o].status = "PROPOSED"}
Confirmed(t) == {o \in DOMAIN offers : offers[o].of = t /\ offers[o].status = "CONFIRMED"}
\* trang_thai_hieu_luc: the button works.
Pressable(o) == offers[o].status = "PROPOSED" /\ Usable(offers[o].quote)

\* don_bao_gia_va_de_xuat: offers follow the quotes they rest on.
Stale(q, t) == quotes[q].of = t /\ quotes[q].status = "ACTIVE"
Cleaned(t) == [q \in DOMAIN quotes |->
  IF Stale(q, t) /\ quotes[q].for # details[t] THEN [quotes[q] EXCEPT !.status = "SUPERSEDED"]
  ELSE IF Stale(q, t) /\ quotes[q].late THEN [quotes[q] EXCEPT !.status = "EXPIRED"] ELSE quotes[q]]
Followed(t, q) == [o \in DOMAIN offers |->
  IF o \in Proposed(t) /\ q[offers[o].quote].status \in {"SUPERSEDED", "EXPIRED"}
  THEN [offers[o] EXCEPT !.status = q[offers[o].quote].status] ELSE offers[o]]
Cleans(h) ==
  /\ hand[h].at = "clean"
  /\ quotes' = Cleaned(hand[h].of)
  /\ offers' = Followed(hand[h].of, Cleaned(hand[h].of))
  /\ Go(h, "ask")
  /\ UNCHANGED <<wf, step, details, queue, sent, hint, bounds, lax>>

\* xin_bao_gia_chuyen_nha asks all of them and stores what comes back, in the order of the
\* catalogue; no answer, or a second for the same request (uq_service_quotes_active), is left out.
\* quote_move: a company without a crew that day refuses.
Serving(t) == {c \in Movers : c \notin Closed[details[t]]}
Quote(t, c) == [of |-> t, by |-> c, for |-> details[t], status |-> "ACTIVE", late |-> FALSE]
Issued(t) == {c \in Movers : \E q \in DOMAIN quotes :
                Stale(q, t) /\ quotes[q].by = c /\ quotes[q].for = details[t]}
InOrder(C) == {s \in [1..Cardinality(C) -> C] : \A i, j \in DOMAIN s : i < j => Before(s[i], s[j])}
Asks(h) ==
  LET t == hand[h].of
  IN  /\ hand[h].at = "ask" /\ Go(h, "choose")
      /\ \E silent \in SUBSET Serving(t) : \E new \in InOrder((Serving(t) \ silent) \ Issued(t)) :
           /\ failures' = failures + Cardinality(silent) /\ failures' <= MaxFailures
           /\ quotes' = quotes \o [i \in DOMAIN new |-> Quote(t, new[i])]
      /\ UNCHANGED <<wf, step, details, offers, queue, sent, hint, late, lax>>
Chooses(h) ==
  /\ hand[h].at = "choose"
  /\ LET best == Best(hand[h].of, hand[h].shut)
     IN  /\ hand' = [hand EXCEPT ![h].pick = best, ![h].shut = {},
                                 ![h].at = IF best = {} THEN "after" ELSE "offer"]
  /\ UNCHANGED <<tables, bounds, lax>>

\* ghim_de_xuat, under the workflow's lock: one offer of a step is open, on a live quote.
Pinned(t, q) ==
  Append([o \in DOMAIN offers |-> IF o \in Proposed(t) THEN [offers[o] EXCEPT !.status = "SUPERSEDED"]
                                  ELSE offers[o]],
         [of |-> t, quote |-> q, status |-> "PROPOSED"])
Offers(h) ==
  /\ hand[h].at \in {"offer", "switch"} /\ Len(offers) < MaxOffers
  /\ \E q \in hand[h].pick :
       IF Usable(q)
       THEN /\ offers' = Pinned(quotes[q].of, q)
            /\ step' = [step EXCEPT ![quotes[q].of] = "WAITING_APPROVAL"]
            /\ wf' = "WAITING_APPROVAL"
            /\ IF hand[h].at = "offer" THEN hand' = [hand EXCEPT ![h].at = "after", ![h].pick = {}] ELSE Ends(h)
            /\ lax' = lax \cup (IF hand[h].at = "offer" THEN {} ELSE {"switched"})
                          \cup (IF Confirmed(quotes[q].of) = {} THEN {} ELSE {"stale"})
       ELSE /\ wf' = IF h = Job THEN "FAILED" ELSE wf
            /\ Ends(h) /\ UNCHANGED <<offers, step, lax>>
  /\ UNCHANGED <<details, quotes, queue, sent, hint, bounds>>

-------------------------------------------------------------------------------
(* Parking a run in front of the gate: ServiceApprovalBoundary._park *)

Gated == {t \in Present : step[t] \notin {"SUCCESS", "CANCELLED"}}
Parks(h) ==
  /\ hand[h].at = "park"
  /\ step' = [t \in Steps |-> IF t \in Gated THEN "WAITING_APPROVAL" ELSE step[t]]
  /\ IF Gated \cap Attempts = {} THEN Go(h, "after")
     ELSE \E t \in Gated \cap Attempts :
            hand' = [hand EXCEPT ![h].at = "match", ![h].of = t]
  /\ UNCHANGED <<wf, details, quotes, offers, queue, sent, hint, bounds, lax>>
\* chuan_bi_de_xuat: what was confirmed is not asked again, a card that can be pressed is kept.
Agreed(t) == \E o \in Confirmed(t) : quotes[offers[o].quote].for = details[t]
Kept(t) == \E o \in Proposed(t) : Pressable(o) /\ quotes[offers[o].quote].for = details[t]
Matches(h) ==
  /\ hand[h].at = "match"
  /\ Go(h, IF Agreed(hand[h].of) \/ Kept(hand[h].of) THEN "after" ELSE "clean")
  /\ UNCHANGED <<tables, bounds, lax>>
\* save_pending_service_approvals pins the other service and the workflow waits; a
\* request for another company ends here.
After(h) ==
  /\ hand[h].at = "after" /\ Ends(h)
  /\ IF hand[h].old # hand[h].of THEN UNCHANGED <<wf, queue>>
     ELSE /\ queue' = IF 0 \in Gated THEN [queue EXCEPT ![0] = [NoRow EXCEPT !.status = "AWAITING"]]
                      ELSE queue
          /\ wf' = "WAITING_APPROVAL"
  /\ UNCHANGED <<step, details, quotes, offers, sent, hint, bounds, lax>>

-------------------------------------------------------------------------------
(* The customer's answer: xac_nhan_de_xuat, one transaction under the workflow's lock *)

Slot(q) == [status |-> "AWAITING", by |-> {quotes[q].by}, for |-> {quotes[q].for}, code |-> "NONE"]
\* Slip: the company is the step's best, not the one on the card.
BestInstead(t, q) == [queue EXCEPT ![t] = Slot(CHOOSE r \in Best(t, {}) \cup {q} : Best(t, {}) \subseteq {r})]
Handed(t, q) == [queue EXCEPT ![t] = Slot(q)]
\* The rows it locks: a card that is open, on a quote that is.
Confirmable(o) == offers[o].status = "PROPOSED" /\ quotes[offers[o].quote].status = "ACTIVE"
Confirms(o) ==
  LET q == offers[o].quote
      t == offers[o].of
  IN  /\ Confirmable(o)
      /\ IF quotes[q].late
         THEN /\ offers' = [offers EXCEPT ![o].status = "EXPIRED"] /\ UNCHANGED <<quotes, queue>>
         ELSE /\ quotes' = [quotes EXCEPT ![q].status = "CONFIRMED"]
              /\ offers' = [offers EXCEPT ![o].status = "CONFIRMED"]
              /\ queue' = Handed(t, q)
      /\ UNCHANGED <<wf, step, details, sent, hint, hand, bounds, lax>>

\* tra_loi_hoi_them: the card and the live quotes are read, another quote is pinned later.
Says(r) ==
  /\ hand[r].at = "idle"
  /\ \E o \in DOMAIN offers : \E q \in Live(offers[o].of) :
       /\ offers[o].status = "PROPOSED"
       /\ hand' = [hand EXCEPT ![r] = [Idle EXCEPT !.at = "switch", !.pick = {q}]]
  /\ UNCHANGED <<tables, bounds, lax>>

-------------------------------------------------------------------------------
(* The company's answer, and the run it starts: resume_after_service_decision *)

Codes == {"SERVICE_UNAVAILABLE", "NO_AVAILABILITY"}
Decides(r) ==
  /\ hand[r].at = "idle"
  /\ \E t \in Rows("AWAITING") :
       \/ queue' = [queue EXCEPT ![t].status = "APPROVED"]
       \/ t # 0 /\ \E c \in Codes :
            queue' = [queue EXCEPT ![t].status = "REJECTED", ![t].code = c]
  /\ hand' = [hand EXCEPT ![r] = [Idle EXCEPT !.at = "look"]]
  /\ UNCHANGED <<wf, step, details, quotes, offers, sent, hint, bounds, lax>>
Refused == {t \in Rows("REJECTED") : step[t] \notin Final}
Fixable == {t \in Refused : queue[t].code = "NO_AVAILABILITY"}
\* Slip: the first answer starts the run.
NobodyAsked == {}
StillAsked == Rows("AWAITING")
LeftToRun == {t \in Present : step[t] \notin {"SUCCESS", "CANCELLED"}} \ Refused
Looks(h) ==
  /\ hand[h].at = "look"
  /\ IF StillAsked # {} THEN Ends(h) /\ UNCHANGED <<wf, step, hint, lax>>
     ELSE /\ step' = [t \in Steps |-> IF t \in Refused THEN "CANCELLED"
                                     ELSE IF queue[t].status = "APPROVED" /\ step[t] \notin Final
                                     THEN "PENDING" ELSE step[t]]
          /\ hint' = hint \cup Fixable
          \* Nothing is left: the question, or the end.
          /\ wf' = IF LeftToRun # {} THEN wf ELSE IF Fixable # {} THEN "FAILED"
                   ELSE IF Refused # {} THEN "CANCELLED" ELSE wf
          /\ hand' = [hand EXCEPT ![h].at = "run", ![h].run = LeftToRun, ![h].shut = {}]
          \* The card of a step that nobody confirmed does not hold it back.
          /\ lax' = IF LeftToRun \cap Rows("NONE") = {} THEN lax ELSE lax \cup {"unasked"}
  /\ UNCHANGED <<details, quotes, offers, queue, sent, bounds>>
Sends(h) ==
  /\ hand[h].at = "run"
  /\ \E t \in hand[h].run :
       /\ hand' = [hand EXCEPT ![h].run = @ \ {t}]
       /\ IF step[t] \in {"SUCCESS", "CANCELLED"} \/ t \in sent
          THEN step' = [step EXCEPT ![t] = IF @ \in {"SUCCESS", "CANCELLED"} THEN @ ELSE "FAILED"]
               /\ UNCHANGED sent
          ELSE /\ sent' = sent \cup {t}
               /\ \E s \in {"SUCCESS", "FAILED"} : step' = [step EXCEPT ![t] = s]
  /\ UNCHANGED <<wf, details, quotes, offers, queue, hint, bounds, lax>>
FinalStatus ==
  IF \A t \in Present : step[t] \in {"SUCCESS", "CANCELLED"} THEN "SUCCESS"
  ELSE IF \E t \in Present : step[t] = "FAILED" THEN "FAILED" ELSE "WAITING_APPROVAL"
Concludes(h) ==
  /\ hand[h].at = "run" /\ hand[h].run = {} /\ Ends(h)
  /\ wf' = IF wf = "CANCELLED" THEN wf ELSE IF hint # {} THEN "FAILED" ELSE FinalStatus
  /\ UNCHANGED <<step, details, quotes, offers, queue, sent, hint, bounds, lax>>

-------------------------------------------------------------------------------
(* After a refusal *)

\* Identities T1, T1R2, T1R3, ...: the code looks for a longer one.
Length(t) == IF t = 1 THEN 2 ELSE 4
Reopened(t) == \E k \in Present \cap Attempts : k # t /\ Length(k) > Length(t)
\* don_vi_da_tu_choi: over the whole chain of attempts.
SaidNo == UNION {queue[t].by : t \in Rows("REJECTED")}
NextAttempt == {t \in Attempts : step[t] = "absent" /\ \A k \in 1..(t - 1) : step[k] # "absent"}
\* A refusal somebody else may make good, not reopened yet.
Reselectable(t) == ~Reopened(t) /\ queue[t].code = "SERVICE_UNAVAILABLE" /\ Movers \ SaidNo # {}
\* mo_lan_chon_lai up to its first write.
AsksForAnother(r) ==
  /\ hand[r].at = "idle"
  /\ \E t \in Rows("REJECTED") \cap Attempts, k \in NextAttempt :
       /\ Reselectable(t)
       /\ hand' = [hand EXCEPT ![r] = [Idle EXCEPT !.at = "supersede", !.old = t, !.of = k, !.shut = SaidNo]]
  /\ UNCHANGED <<tables, bounds, lax>>
\* An attempt that does not follow the last one: the old card was pressed again.
Behind(t, k) == IF k = t + 1 THEN lax ELSE lax \cup {"behind"}
\* supersede_task_with_new_attempt: without ON CONFLICT, the second one fails.
Supersedes(h) ==
  LET k == hand[h].of
  IN  /\ hand[h].at = "supersede"
      /\ IF step[k] # "absent" THEN Ends(h) /\ UNCHANGED <<step, details, lax>>
         ELSE /\ step' = [step EXCEPT ![hand[h].old] = "CANCELLED", ![k] = "PENDING"]
              /\ details' = [details EXCEPT ![k] = details[hand[h].old]]
              /\ Go(h, "clean")
              /\ lax' = Behind(hand[h].old, k)
      /\ UNCHANGED <<wf, quotes, offers, queue, sent, hint, bounds>>

\* rerun_with_answers: other details open a new attempt (open_new_attempts), which is parked.
Repairs(r) ==
  /\ hand[r].at = "idle"
  /\ \E t \in hint, k \in NextAttempt, d \in Details :
       /\ d # details[t]
       /\ step' = [step EXCEPT ![t] = "CANCELLED", ![k] = "PENDING"]
       /\ details' = [details EXCEPT ![k] = d] /\ hint' = hint \ {t}
       /\ lax' = Behind(t, k)
       /\ hand' = [hand EXCEPT ![r] = [Idle EXCEPT !.at = "park"]]
  /\ UNCHANGED <<wf, quotes, offers, queue, sent, bounds>>

\* cancel_workflow leaves cards, quotes and the queue as they are.
Stops ==
  /\ wf \notin Final /\ wf' = "CANCELLED"
  /\ step' = [t \in Steps |-> IF step[t] \in {"PENDING", "WAITING_APPROVAL"} THEN "CANCELLED" ELSE step[t]]
  /\ UNCHANGED <<details, quotes, offers, queue, sent, hint, hand, bounds, lax>>
RunsOut ==
  /\ late < MaxLate /\ late' = late + 1
  /\ \E q \in DOMAIN quotes : Usable(q) /\ quotes' = [quotes EXCEPT ![q].late = TRUE]
  /\ UNCHANGED <<wf, step, details, offers, queue, sent, hint, hand, failures, lax>>

Init ==
  /\ wf = "PENDING" /\ quotes = <<>> /\ offers = <<>> /\ sent = {} /\ hint = {}
  /\ \E other \in {"absent", "PENDING"} :
       step = [t \in Steps |-> IF t = 0 THEN other ELSE IF t = 1 THEN "PENDING" ELSE "absent"]
  /\ details \in {[t \in Attempts |-> d] : d \in Details} /\ queue = [t \in Steps |-> NoRow]
  /\ hand = [h \in Handlers |-> IF h = Job THEN [Idle EXCEPT !.at = "park"] ELSE Idle]
  /\ late = 0 /\ failures = 0 /\ lax = {}

Next ==
  \/ \E h \in Handlers : Parks(h) \/ Matches(h) \/ Cleans(h) \/ Asks(h) \/ Chooses(h) \/ Offers(h) \/ After(h)
  \/ \E h \in Handlers : Looks(h) \/ Sends(h) \/ Concludes(h) \/ Supersedes(h)
  \/ \E r \in Requests : Says(r) \/ Decides(r) \/ AsksForAnother(r) \/ Repairs(r)
  \/ (\E o \in DOMAIN offers : Confirms(o)) \/ Stops \/ RunsOut
ChoiceSpec == Init /\ [][Next]_vars

-------------------------------------------------------------------------------
(* Properties *)

\* Types of all variables.
ChoiceTypeOK ==
  /\ wf \in {"PENDING", "WAITING_APPROVAL"} \cup Final
  /\ step \in [Steps -> {"absent", "PENDING", "WAITING_APPROVAL"} \cup Final]
  /\ details \in [Attempts -> Details] /\ sent \subseteq Present /\ hint \subseteq Attempts
  /\ \A q \in DOMAIN quotes : /\ quotes[q].of \in Attempts /\ quotes[q].by \in Movers
                              /\ quotes[q].status \in {"ACTIVE", "CONFIRMED", "EXPIRED", "SUPERSEDED"}
  /\ \A o \in DOMAIN offers : /\ quotes[offers[o].quote].of = offers[o].of
                              /\ offers[o].status \in {"PROPOSED", "CONFIRMED", "EXPIRED", "SUPERSEDED"}
  /\ \A t \in Steps : queue[t].status \in {"NONE", "AWAITING", "APPROVED", "REJECTED"}
  /\ \A t \in Attempts : Cardinality(Proposed(t)) <= 1
  /\ late \in 0..MaxLate /\ failures \in 0..MaxFailures

\* The request a company has before it is the one the customer agreed to last: its company,
\* on its quote, for the details of the step, whatever was offered before and after.
LastAgreed(t) == CHOOSE o \in Confirmed(t) : \A p \in Confirmed(t) : p <= o
DealIsKept ==
  \A t \in Attempts :
    IF Confirmed(t) = {} THEN queue[t].status = "NONE"
    ELSE LET q == offers[LastAgreed(t)].quote
         IN  /\ quotes[q].status = "CONFIRMED" /\ queue[t].status # "NONE"
             /\ queue[t].by = {quotes[q].by} /\ queue[t].for = {details[t]}

\* A company that said no to a move is not offered for the same move again
\* (provider_reselection.py:28); the customer may switch back to it by name.
RefusedStaysOut ==
  {"switched", "behind"} \cap lax = {} =>
    \A o \in DOMAIN offers : \A t \in Rows("REJECTED") \cap Attempts :
      t < offers[o].of /\ (\A k \in t..offers[o].of : details[k] = details[t])
        => quotes[offers[o].quote].by \notin queue[t].by

\* A move is booked only when its customer chose the company and that company agreed, also
\* when quotes run out, attempts follow each other and the workflow is stopped meanwhile.
BookedWasAgreed ==
  "unasked" \notin lax =>
    \A t \in sent \cap Attempts : /\ Confirmed(t) # {}
                                  /\ queue[t].status = "APPROVED" \/ "stale" \in lax

================================================================================
