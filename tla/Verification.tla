------------------------------ MODULE Verification ------------------------------
(***************************************************************************)
(* Proof of residence: the applicant's record at the ownership provider,   *)
(* the reviewer's decision, the receipt that lets a broken decision be     *)
(* finished later, and the rows the main application writes after it: the  *)
(* account's link to an apartment, the vehicle of that apartment           *)
(* (verification_routes, verification_recovery, verification_status,       *)
(* verification_receipt_repository, link_request_repository).              *)
(*                                                                         *)
(* The provider's database, the receipts and the business rows are three   *)
(* systems that no transaction spans.                                      *)
(***************************************************************************)
EXTENDS Naturals, FiniteSets

CONSTANTS Users, Apartments, Plates,
          Records,    \* record ids, drawn by create_verification_record
          Reviewers,  \* handlers of decisions, each run by a provider account
          Account,    \* [reviewer -> its user]
          MaxFaults,  \* BOUND on crashes, outages and lost answers
          MaxRevoked  \* BOUND on links taken back by an operator

Nobody == "nobody"
Claims == Apartments \cup Plates
ASSUME VerificationAssumptions ==
  /\ Account \in [Reviewers -> Users] /\ {MaxFaults, MaxRevoked} \subseteq Nat
  /\ Apartments \cap Plates = {} /\ Nobody \notin Claims

VARIABLES record,   \* verification_records, at the provider
          pictures, \* records whose proof is on disk
          receipt,  \* verification_materializations
          home,     \* user_resident_links with its resident's apartment
          garage,   \* vehicles: the apartment a plate is registered to
          done,     \* records whose business rows were written
          hand,     \* where each reviewer's handler is
          page,     \* a list being built: the provider's answer, then the receipts
          torn,     \* records of a handler that did not reach its end
          faults, revoked

vars == <<record, pictures, receipt, home, garage, done, hand, page, torn, faults, revoked>>
rows == <<home, garage, done>>
rest == <<pictures, page, torn, faults, revoked>>

NoRecord == [status |-> "NONE", by |-> Nobody, claim |-> Nobody]
NoReceipt == [asked |-> "NONE", mat |-> "NONE", code |-> "NONE"]
Idle == [at |-> "idle", on |-> {}, want |-> "approve", saw |-> "NONE", home |-> Nobody]
Ends(h) == hand' = [hand EXCEPT ![h] = Idle]
Go(h, at) == hand' = [hand EXCEPT ![h].at = at]
Decision == [approve |-> "APPROVED", reject |-> "REJECTED"]

-------------------------------------------------------------------------------
(* The application for it *)

\* uq_verif_pending_apartment and uq_verif_pending_vehicle: one open record per claim.
Open(c) == \E r \in Records : record[r].claim = c /\ record[r].status = "PENDING"
\* The pictures are saved first and removed when the provider does not answer well.
Files(u, c) ==
  /\ c \in Plates => home[u] # Nobody
  /\ \E r \in Records :
       /\ record[r] = NoRecord
       /\ IF Open(c) THEN UNCHANGED <<record, pictures, faults>>
          ELSE /\ record' = [record EXCEPT ![r] = [status |-> "PENDING", by |-> u, claim |-> c]]
               /\ \/ pictures' = pictures \cup {r} /\ UNCHANGED faults
                  \* The provider kept it, its answer was late.
                  \/ faults < MaxFaults /\ faults' = faults + 1 /\ UNCHANGED pictures
  /\ UNCHANGED <<receipt, rows, hand, page, torn, revoked>>

-------------------------------------------------------------------------------
(* run_decision *)

\* _reject_self_review.
OwnRecord(h, r) == record[r].by = Account[h]
Presses(h) ==
  /\ hand[h].at = "idle"
  /\ \E r \in Records, w \in DOMAIN Decision :
       /\ record[r] # NoRecord /\ ~OwnRecord(h, r)
       /\ hand' = [hand EXCEPT ![h] = [Idle EXCEPT !.at = "open", !.on = {r}, !.want = w]]
  /\ UNCHANGED <<record, receipt, rows, rest>>

\* Slip: the second reviewer's wish is not compared with the first one's.
AnyWish(r, w) == TRUE
SameWish(r, w) == receipt[r].asked \in {"NONE", w}
\* open_receipt: the first wish is kept, and the other button is refused.
Opens(h) ==
  /\ hand[h].at = "open"
  /\ \E r \in hand[h].on :
       /\ receipt' = IF receipt[r] # NoReceipt THEN receipt
                     ELSE [receipt EXCEPT ![r] = [asked |-> hand[h].want, mat |-> "PENDING", code |-> "NONE"]]
       /\ IF SameWish(r, hand[h].want) THEN Go(h, "look") ELSE Ends(h)
  /\ UNCHANGED <<record, rows, rest>>

\* The provider is asked what it has; a decided record is only finished, never decided again.
LooksUp(h) ==
  /\ hand[h].at = "look"
  /\ \E r \in hand[h].on :
       IF record[r].status = "PENDING" THEN Go(h, "decide")
       ELSE IF record[r].status = Decision[hand[h].want]
            THEN hand' = [hand EXCEPT ![h].at = "note", ![h].saw = record[r].status]
            ELSE Ends(h)
  /\ UNCHANGED <<record, receipt, rows, rest>>
\* verification_service.decide_record: the first decision wins, and a refusal needs a reason.
Decides(h) ==
  /\ hand[h].at = "decide"
  /\ \E r \in hand[h].on :
       \/ /\ record[r].status = "PENDING"
          /\ record' = [record EXCEPT ![r].status = Decision[hand[h].want]]
          /\ hand' = [hand EXCEPT ![h].at = "note", ![h].saw = Decision[hand[h].want]]
       \/ (record[r].status # "PENDING" \/ hand[h].want = "reject") /\ Ends(h) /\ UNCHANGED record
  /\ UNCHANGED <<receipt, rows, rest>>

Unless(r, mat, code) ==
  IF receipt[r].mat = "SUCCESS" THEN receipt ELSE [receipt EXCEPT ![r].mat = mat, ![r].code = code]
\* Slip: what was asked for is done, whatever was decided.
NeverRefused(h) == FALSE
WasRefused(h) == hand[h].saw = "REJECTED"
Notes(h) ==
  /\ hand[h].at = "note"
  /\ \E r \in hand[h].on :
       IF WasRefused(h) THEN receipt' = Unless(r, "NOT_REQUIRED", "NONE") /\ Ends(h)
       ELSE receipt' = Unless(r, "PENDING", "NONE") /\ Go(h, "write")
  /\ UNCHANGED <<record, rows, rest>>

\* _link_resident_to_user: the resident of the apartment is shared, an account has one link.
Linked(u, a) == [home EXCEPT ![u] = a]
\* _materialize_approved, an apartment.
LinksHome(h) ==
  /\ hand[h].at = "write"
  /\ \E r \in hand[h].on :
       /\ record[r].claim \in Apartments
       /\ \/ /\ home' = Linked(record[r].by, record[r].claim)
             /\ done' = done \cup {r} /\ Go(h, "seal") /\ UNCHANGED faults
          \/ faults < MaxFaults /\ faults' = faults + 1 /\ Go(h, "outage") /\ UNCHANGED <<home, done>>
  /\ UNCHANGED <<record, pictures, receipt, garage, page, torn, revoked>>
\* A vehicle: the applicant's apartment now, if the link still stands ...
ReadsHome(h) ==
  /\ hand[h].at = "write"
  /\ \E r \in hand[h].on :
       LET a == home[record[r].by]
       IN  /\ record[r].claim \in Plates
           /\ hand' = [hand EXCEPT ![h].at = IF a = Nobody THEN "refused" ELSE "send", ![h].home = a]
  /\ UNCHANGED <<record, receipt, rows, rest>>
\* ... is sent to the transport service.  create_vehicle: registering one's own plate again is
\* no conflict.
MayPark(p, a) == garage[p] \in {Nobody, a}
\* Whatever is not a success, an outage too, is taken for a refusal (HTTPException).
RegistersVehicle(h) ==
  /\ hand[h].at = "send"
  /\ \E r \in hand[h].on :
       LET p == record[r].claim
           free == MayPark(p, hand[h].home)
       IN  /\ garage' = IF free THEN [garage EXCEPT ![p] = hand[h].home] ELSE garage
           /\ done' = IF free THEN done \cup {r} ELSE done
           /\ IF free THEN \/ Go(h, "seal") /\ UNCHANGED faults
                           \/ faults < MaxFaults /\ faults' = faults + 1 /\ Go(h, "refused")
              ELSE Go(h, "refused") /\ UNCHANGED faults
  /\ UNCHANGED <<record, pictures, receipt, home, page, torn, revoked>>
\* finish: FAILED never covers SUCCESS.
Fails(h) ==
  /\ hand[h].at \in {"refused", "outage"} /\ Ends(h)
  /\ \E r \in hand[h].on :
       receipt' = Unless(r, "FAILED", IF hand[h].at = "refused" THEN "BUSINESS_REFUSED" ELSE "OTHER")
  /\ UNCHANGED <<record, rows, rest>>
Seals(h) ==
  /\ hand[h].at = "seal" /\ Ends(h)
  /\ \E r \in hand[h].on :
       receipt' = [receipt EXCEPT ![r].mat = "SUCCESS", ![r].code = "NONE"]
  /\ UNCHANGED <<record, rows, rest>>
\* The process, the receipts' database or the provider fails between two steps.
Drops(h) ==
  /\ hand[h].at # "idle" /\ faults < MaxFaults /\ faults' = faults + 1
  /\ torn' = torn \cup hand[h].on /\ Ends(h)
  /\ UNCHANGED <<record, pictures, receipt, rows, page, revoked>>
\* upsert_link by an operator: nothing in the application does it.
Revokes ==
  /\ revoked < MaxRevoked /\ revoked' = revoked + 1
  /\ \E u \in Users : home[u] # Nobody /\ home' = [home EXCEPT ![u] = Nobody]
  /\ UNCHANGED <<record, pictures, receipt, garage, done, hand, page, torn, faults>>

-------------------------------------------------------------------------------
(* What the applicant, the reviewer and the administrator are shown *)

\* Slip: whoever was approved is verified.
EffectiveOfProvider(status, q) == IF status = "APPROVED" THEN "VERIFIED" ELSE status
\* derive.
Effective(status, q) ==
  CASE status = "PENDING" ->
         IF q.mat \in {"NONE", "PENDING"} THEN "WAITING_PROVIDER" ELSE "NEEDS_RECONCILIATION_NEUTRAL"
    [] status = "REJECTED" ->
         IF q.mat \in {"NONE", "NOT_REQUIRED"} THEN "REJECTED" ELSE "NEEDS_RECONCILIATION_NEUTRAL"
    [] status = "APPROVED" ->
         CASE q.mat = "SUCCESS" -> "VERIFIED"
           [] q.mat = "PENDING" -> "APPROVED_PROCESSING"
           [] q.mat = "FAILED" -> IF q.code = "BUSINESS_REFUSED" THEN "APPROVED_BLOCKED"
                                  ELSE "APPROVED_NEEDS_RETRY"
           [] OTHER -> "APPROVED_NEEDS_RECONCILIATION"
Contradiction == {"APPROVED_NEEDS_RECONCILIATION", "NEEDS_RECONCILIATION_NEUTRAL"}
\* list_records, then snapshot_for.
Lists(r) ==
  /\ page.saw = "NONE" /\ record[r] # NoRecord
  /\ page' = [on |-> {r}, saw |-> record[r].status, shown |-> "NONE"]
  /\ UNCHANGED <<record, pictures, receipt, rows, hand, torn, faults, revoked>>
Joins ==
  /\ page.saw # "NONE"
  /\ page' = [page EXCEPT !.saw = "NONE",
                          !.shown = Effective(page.saw, receipt[CHOOSE r \in page.on : TRUE])]
  /\ UNCHANGED <<record, pictures, receipt, rows, hand, torn, faults, revoked>>

Init ==
  /\ record = [r \in Records |-> NoRecord] /\ pictures = {} /\ receipt = [r \in Records |-> NoReceipt]
  /\ home = [u \in Users |-> Nobody] /\ garage = [p \in Plates |-> Nobody] /\ done = {}
  /\ hand = [h \in Reviewers |-> Idle] /\ page = [on |-> {}, saw |-> "NONE", shown |-> "NONE"]
  /\ torn = {} /\ faults = 0 /\ revoked = 0
Next ==
  \/ \E u \in Users, c \in Claims : Files(u, c)
  \/ \E h \in Reviewers : Presses(h) \/ Opens(h) \/ LooksUp(h) \/ Decides(h) \/ Notes(h) \/ Drops(h)
  \/ \E h \in Reviewers : LinksHome(h) \/ ReadsHome(h) \/ RegistersVehicle(h) \/ Fails(h) \/ Seals(h)
  \/ Revokes \/ (\E r \in Records : Lists(r)) \/ Joins
VerificationSpec == Init /\ [][Next]_vars

-------------------------------------------------------------------------------
(* Properties *)

\* Types of all variables.
VTypeOK ==
  /\ \A r \in Records : /\ record[r].status \in {"NONE", "PENDING", "APPROVED", "REJECTED"}
                        /\ record[r].claim \in Claims \cup {Nobody}
                        /\ receipt[r].asked \in {"NONE", "approve", "reject"}
                        /\ receipt[r].mat \in {"NONE", "PENDING", "SUCCESS", "FAILED", "NOT_REQUIRED"}
  /\ home \in [Users -> Apartments \cup {Nobody}] /\ garage \in [Plates -> Apartments \cup {Nobody}]
  /\ done \subseteq Records /\ torn \subseteq Records /\ pictures \subseteq Records
  /\ \A h \in Reviewers : Cardinality(hand[h].on) = IF hand[h].at = "idle" THEN 0 ELSE 1
  /\ \A c \in Claims : Cardinality({r \in Records : record[r].claim = c /\ record[r].status = "PENDING"}) <= 1
  /\ faults \in 0..MaxFaults /\ revoked \in 0..MaxRevoked

\* The receipt tells who decided what, before and after every crash: a record approved at the
\* provider can be finished by pressing the same button, and by no other
\* (verification_recovery, step F).
ReceiptTellsDecision ==
  \A r \in Records : record[r].status \in {"APPROVED", "REJECTED"}
                       => record[r].status = Decision[receipt[r].asked]

\* Rights are opened for approved records only, and a home or a plate that somebody has was
\* claimed in an approved record whose rows were written.
OnlyApprovedOpens ==
  /\ \A r \in done : record[r].status = "APPROVED"
  /\ \A u \in Users : home[u] # Nobody => \E r \in done : record[r].by = u /\ record[r].claim = home[u]
  /\ \A p \in Plates : garage[p] # Nobody => \E r \in done : record[r].claim = p

\* Whoever is shown as verified has what was applied for, and a shown refusal opened nothing,
\* though the page joins two systems read one after the other.
ShownIsDone ==
  \A r \in page.on : /\ page.shown = "VERIFIED" => r \in done
                     /\ page.shown = "REJECTED" => r \notin done

\* The two sources contradict each other only while a decision is on its way or after one broke off.
SourcesAgree ==
  \A r \in Records : record[r] # NoRecord /\ Effective(record[r].status, receipt[r]) \in Contradiction
                       => r \in torn \/ \E h \in Reviewers : r \in hand[h].on
================================================================================
