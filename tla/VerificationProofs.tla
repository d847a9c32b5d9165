--------------------------- MODULE VerificationProofs ---------------------------
(***************************************************************************)
(* Proofs about Verification for any users, claims, records, reviewers and *)
(* faults.                                                                 *)
(*                                                                         *)
(* The argument: a decision at the provider is final, the wish kept on a   *)
(* receipt never changes, and a handler past open_receipt carries that     *)
(* wish (HandOk).  So the receipt's wish is the decision (Rows), what a    *)
(* receipt says is true of the record even while the provider and the      *)
(* receipts are out of step, and only a refusal can be left unsaid, by a   *)
(* handler that still has to note it or that broke off (Unsaid).           *)
(***************************************************************************)
EXTENDS Verification, FiniteSetTheorems, TLAPS

Statuses == {"NONE", "PENDING", "APPROVED", "REJECTED"}
RecordRow == [status : Statuses, by : Users \cup {Nobody}, claim : Claims \cup {Nobody}]
ReceiptRow == [asked : {"NONE", "approve", "reject"},
               mat : {"NONE", "PENDING", "SUCCESS", "FAILED", "NOT_REQUIRED"},
               code : {"NONE", "BUSINESS_REFUSED", "OTHER"}]
Approving == {"write", "send", "refused", "outage", "seal"}
Places == {"idle", "open", "look", "decide", "note"} \cup Approving
Hand == [at : Places, on : SUBSET Records, want : {"approve", "reject"}, saw : Statuses,
         home : Apartments \cup {Nobody}]
Shown == {"NONE", "VERIFIED", "REJECTED", "WAITING_PROVIDER", "APPROVED_PROCESSING", "APPROVED_BLOCKED",
          "APPROVED_NEEDS_RETRY"} \cup Contradiction
Page == [on : SUBSET Records, saw : Statuses, shown : Shown]

Typed ==
  /\ record \in [Records -> RecordRow] /\ receipt \in [Records -> ReceiptRow]
  /\ home \in [Users -> Apartments \cup {Nobody}] /\ garage \in [Plates -> Apartments \cup {Nobody}]
  /\ done \subseteq Records /\ torn \subseteq Records /\ pictures \subseteq Records
  /\ hand \in [Reviewers -> Hand] /\ page \in Page
  /\ faults \in 0..MaxFaults /\ revoked \in 0..MaxRevoked

Decided(r) == record[r].status \in {"APPROVED", "REJECTED"}

\* What a record, its receipt and its business rows say of each other.
RowOk(r) ==
  /\ record[r].status = "NONE" => record[r] = NoRecord
  /\ record[r].status # "NONE" => record[r].by \in Users /\ record[r].claim \in Claims
  /\ receipt[r].asked = "NONE" <=> receipt[r].mat = "NONE"
  /\ receipt[r].asked = "NONE" => receipt[r] = NoReceipt
  /\ Decided(r) => receipt[r].asked # "NONE" /\ record[r].status = Decision[receipt[r].asked]
  /\ receipt[r].mat \in {"SUCCESS", "FAILED"} => record[r].status = "APPROVED"
  /\ receipt[r].mat = "NOT_REQUIRED" => record[r].status = "REJECTED"
  /\ receipt[r].mat = "SUCCESS" => r \in done
  /\ r \in done => record[r].status = "APPROVED"
Rows == \A r \in Records : RowOk(r)

\* uq_verif_pending_apartment and uq_verif_pending_vehicle, as a fact about pairs.
OneOpen ==
  \A r, s \in Records : record[r].status = "PENDING" /\ record[s].status = "PENDING"
                          /\ record[r].claim = record[s].claim => r = s

\* What a handler may rely on about its record r.
Busy(h, r) ==
  /\ record[r].status # "NONE"
  /\ hand[h].at # "open" => receipt[r].asked = hand[h].want
  /\ hand[h].at = "note" => hand[h].saw = record[r].status /\ hand[h].saw \in {"APPROVED", "REJECTED"}
  /\ hand[h].at \in Approving => record[r].status = "APPROVED"
  /\ hand[h].at = "seal" => r \in done
HandOk(h) ==
  /\ hand[h].at = "idle" => hand[h].on = {}
  /\ hand[h].at # "idle" => \E r \in Records : hand[h].on = {r} /\ Busy(h, r)
HandsOk == \A h \in Reviewers : HandOk(h)

HasClaimed(u) == home[u] # Nobody => \E r \in done : record[r].by = u /\ record[r].claim = home[u]
HasPlate(p) == garage[p] # Nobody => \E r \in done : record[r].claim = p
Rights == (\A u \in Users : HasClaimed(u)) /\ (\A p \in Plates : HasPlate(p))

PageOk ==
  /\ page.on = {} \/ \E r \in Records : page.on = {r}
  /\ page.on = {} => page.saw = "NONE"
  /\ \A r \in page.on : /\ page.saw \in {"APPROVED", "REJECTED"} => record[r].status = page.saw
                        /\ page.shown = "VERIFIED" => r \in done
                        /\ page.shown = "REJECTED" => record[r].status = "REJECTED"

\* A refusal that its receipt does not tell yet.
Silent(r) == record[r].status = "REJECTED" /\ receipt[r].mat = "PENDING"
Noting(h, r) == hand[h].at = "note" /\ hand[h].on = {r}
Unsaid == \A r \in Records : Silent(r) => r \in torn \/ \E h \in Reviewers : Noting(h, r)

VInv == Typed /\ Rows /\ OneOpen /\ HandsOk /\ Rights /\ PageOk /\ Unsaid

-------------------------------------------------------------------------------
(* What no step takes back *)

Onward ==
  /\ \A r \in Records : /\ Decided(r) => record'[r] = record[r]
                        /\ record[r].status # "NONE" => /\ record'[r].status # "NONE"
                                                        /\ record'[r].by = record[r].by
                                                        /\ record'[r].claim = record[r].claim
                        /\ receipt[r].asked # "NONE" => receipt'[r].asked = receipt[r].asked
  /\ done \subseteq done' /\ torn \subseteq torn'

LEMMA BusyStays ==
  ASSUME Typed, Onward, NEW h \in Reviewers, hand'[h] = hand[h], NEW r \in Records, Busy(h, r)
  PROVE  Busy(h, r)'
<1>1. Decided(r) => record'[r] = record[r]
  BY DEF Onward
<1>2. record'[r].status # "NONE" /\ (receipt[r].asked # "NONE" => receipt'[r].asked = receipt[r].asked)
  BY DEF Onward, Busy
<1>3. hand[h].want # "NONE" /\ (r \in done => r \in done')
  BY DEF Typed, Hand, Onward
<1>4. QED
  BY <1>1, <1>2, <1>3 DEF Busy, Decided

Alone(h) == \A g \in Reviewers : g # h => hand'[g] = hand[g]

LEMMA HandStays ==
  ASSUME Typed, Onward, NEW h \in Reviewers, hand'[h] = hand[h], HandOk(h)
  PROVE  HandOk(h)'
<1>1. CASE hand[h].at = "idle"
  BY <1>1 DEF HandOk
<1>2. CASE hand[h].at # "idle"
  <2>1. PICK r \in Records : hand[h].on = {r} /\ Busy(h, r)
    BY <1>2 DEF HandOk
  <2>2. Busy(h, r)'
    BY <2>1, BusyStays
  <2>3. QED
    BY <1>2, <2>1, <2>2 DEF HandOk
<1>3. QED
  BY <1>1, <1>2

\* One handler moves: the others still hold what they held.
LEMMA HandsStep ==
  ASSUME Typed, HandsOk, Onward, NEW h \in Reviewers, Alone(h), HandOk(h)'
  PROVE  HandsOk'
<1>1. ASSUME NEW g \in Reviewers PROVE HandOk(g)'
  <2>1. CASE g = h
    BY <2>1
  <2>2. CASE g # h
    BY <2>2, HandStays DEF Alone, HandsOk
  <2>3. QED
    BY <2>1, <2>2
<1>2. QED
  BY <1>1 DEF HandsOk

\* Nobody moves.
LEMMA HandsRest ==
  ASSUME Typed, HandsOk, Onward, UNCHANGED hand
  PROVE  HandsOk'
BY HandStays DEF HandsOk

\* The page still tells the truth, and so do the rights.
LEMMA PageStays ==
  ASSUME Typed, PageOk, Onward, UNCHANGED page
  PROVE  PageOk'
<1>1. ASSUME NEW r \in page.on
      PROVE  /\ r \in Records /\ (Decided(r) => record'[r] = record[r]) /\ (r \in done => r \in done')
  BY DEF Typed, Page, Onward
<1>2. QED
  BY <1>1 DEF PageOk, Decided

LEMMA RightsStay ==
  ASSUME Typed, Rows, Rights, Onward, UNCHANGED <<home, garage>>
  PROVE  Rights'
<1>1. ASSUME NEW r \in done PROVE r \in done' /\ record'[r] = record[r]
  BY DEF Typed, Rows, RowOk, Decided, Onward
<1>2. ASSUME NEW u \in Users PROVE HasClaimed(u)'
  BY <1>1 DEF Rights, HasClaimed
<1>3. ASSUME NEW p \in Plates PROVE HasPlate(p)'
  BY <1>1 DEF Rights, HasPlate
<1>4. QED
  BY <1>2, <1>3 DEF Rights

\* Whoever was to note a refusal still is, or broke off, or has noted it.
LEMMA UnsaidStays ==
  ASSUME Unsaid, torn \subseteq torn', NEW h \in Reviewers, Alone(h),
         \A r \in Records : Silent(r)' => \/ Silent(r) /\ ~Noting(h, r)
                                          \/ Noting(h, r)'
                                          \/ r \in torn'
  PROVE  Unsaid'
<1>1. ASSUME NEW r \in Records, Silent(r)'
      PROVE  r \in torn' \/ \E g \in Reviewers : Noting(g, r)'
  <2>1. CASE Noting(h, r)' \/ r \in torn'
    BY <2>1
  <2>2. CASE Silent(r) /\ ~Noting(h, r)
    <3>1. r \in torn \/ \E g \in Reviewers : Noting(g, r)
      BY <2>2 DEF Unsaid
    <3>2. CASE r \in torn
      BY <3>2
    <3>3. CASE \E g \in Reviewers : Noting(g, r)
      <4>1. PICK g \in Reviewers : Noting(g, r)
        BY <3>3
      <4>2. g # h /\ hand'[g] = hand[g]
        BY <2>2, <4>1 DEF Alone
      <4>3. QED
        BY <4>1, <4>2 DEF Noting
    <3>4. QED
      BY <3>1, <3>2, <3>3
  <2>3. QED
    BY <1>1, <2>1, <2>2
<1>2. QED
  BY <1>1 DEF Unsaid

\* A step of one handler.
LEMMA HandlerStep ==
  ASSUME VInv, Typed', Rows', OneOpen', Rights', Onward, UNCHANGED page,
         NEW h \in Reviewers, Alone(h), HandOk(h)',
         \A r \in Records : Silent(r)' => \/ Silent(r) /\ ~Noting(h, r)
                                          \/ Noting(h, r)'
                                          \/ r \in torn'
  PROVE  VInv'
<1>1. HandsOk'
  BY HandsStep DEF VInv
<1>2. PageOk'
  BY PageStays DEF VInv
<1>3. Unsaid'
  BY UnsaidStays DEF VInv, Onward
<1>4. QED
  BY <1>1, <1>2, <1>3 DEF VInv

LEMMA DecisionIs ==
  /\ DOMAIN Decision = {"approve", "reject"}
  /\ Decision["approve"] = "APPROVED" /\ Decision["reject"] = "REJECTED"
  /\ Decision.approve = "APPROVED" /\ Decision.reject = "REJECTED"
  /\ \A w \in {"approve", "reject"} : Decision[w] \in {"APPROVED", "REJECTED"}
  /\ \A v, w \in {"approve", "reject"} : Decision[v] = Decision[w] => v = w
BY DEF Decision

-------------------------------------------------------------------------------
(* The fields of a handler's hand *)

LEMMA PutIs ==
  ASSUME Typed, NEW h \in Reviewers, NEW q \in Hand, hand' = [hand EXCEPT ![h] = q]
  PROVE  hand' \in [Reviewers -> Hand] /\ Alone(h) /\ hand'[h] = q
BY DEF Typed, Alone

LEMMA IdleIs == Idle \in Hand /\ Idle.at = "idle" /\ Idle.on = {}
  BY DEF Idle, Hand, Places, Statuses

LEMMA EndsIs ==
  ASSUME Typed, NEW h \in Reviewers, Ends(h)
  PROVE  hand' \in [Reviewers -> Hand] /\ Alone(h) /\ hand'[h] = Idle /\ HandOk(h)'
<1>1. hand' \in [Reviewers -> Hand] /\ Alone(h) /\ hand'[h] = Idle
  BY IdleIs, PutIs DEF Ends
<1>2. QED
  BY <1>1, IdleIs DEF HandOk

LEMMA AtIs ==
  ASSUME NEW q \in Hand, NEW at \in Places
  PROVE  LET p == [q EXCEPT !.at = at]
         IN  /\ p \in Hand /\ p.at = at /\ p.on = q.on /\ p.want = q.want /\ p.saw = q.saw
             /\ p.home = q.home
BY DEF Hand

\* Go moves a handler and nothing else of it.
LEMMA GoIs ==
  ASSUME Typed, NEW h \in Reviewers, NEW at \in Places, Go(h, at)
  PROVE  /\ hand' \in [Reviewers -> Hand] /\ Alone(h) /\ hand'[h].at = at /\ hand'[h].on = hand[h].on
         /\ hand'[h].want = hand[h].want /\ hand'[h].saw = hand[h].saw /\ hand'[h].home = hand[h].home
<1> DEFINE q == [hand[h] EXCEPT !.at = at]
<1>1. hand[h] \in Hand /\ hand' = [hand EXCEPT ![h] = q]
  BY DEF Typed, Go
<1>2. /\ q \in Hand /\ q.at = at /\ q.on = hand[h].on /\ q.want = hand[h].want
      /\ q.saw = hand[h].saw /\ q.home = hand[h].home
  BY <1>1, AtIs
<1> HIDE DEF q
<1>3. QED
  BY <1>1, <1>2, PutIs

LEMMA SawIs ==
  ASSUME Typed, NEW h \in Reviewers, NEW at \in Places, NEW saw \in Statuses,
         hand' = [hand EXCEPT ![h].at = at, ![h].saw = saw]
  PROVE  /\ hand' \in [Reviewers -> Hand] /\ Alone(h) /\ hand'[h].at = at /\ hand'[h].on = hand[h].on
         /\ hand'[h].want = hand[h].want /\ hand'[h].saw = saw
<1> DEFINE q == [hand[h] EXCEPT !.at = at, !.saw = saw]
<1>1. hand[h] \in Hand
  BY DEF Typed
<1>2. hand' = [hand EXCEPT ![h] = q]
  BY DEF Typed
<1>3. q \in Hand /\ q.at = at /\ q.on = hand[h].on /\ q.want = hand[h].want /\ q.saw = saw
  BY <1>1 DEF Hand
<1> HIDE DEF q
<1>4. QED
  BY <1>2, <1>3, PutIs

LEMMA HomeIs ==
  ASSUME Typed, NEW h \in Reviewers, NEW at \in Places, NEW a \in Apartments \cup {Nobody},
         hand' = [hand EXCEPT ![h].at = at, ![h].home = a]
  PROVE  /\ hand' \in [Reviewers -> Hand] /\ Alone(h) /\ hand'[h].at = at /\ hand'[h].on = hand[h].on
         /\ hand'[h].want = hand[h].want /\ hand'[h].saw = hand[h].saw
<1> DEFINE q == [hand[h] EXCEPT !.at = at, !.home = a]
<1>1. hand[h] \in Hand
  BY DEF Typed
<1>2. hand' = [hand EXCEPT ![h] = q]
  BY DEF Typed
<1>3. q \in Hand /\ q.at = at /\ q.on = hand[h].on /\ q.want = hand[h].want /\ q.saw = hand[h].saw
  BY <1>1 DEF Hand
<1> HIDE DEF q
<1>4. QED
  BY <1>2, <1>3, PutIs

-------------------------------------------------------------------------------
(* The steps of a handler *)

\* A step that moves a handler and leaves the three systems alone.
LEMMA QuietStep ==
  ASSUME VInv, NEW h \in Reviewers, hand' \in [Reviewers -> Hand], Alone(h), HandOk(h)',
         UNCHANGED <<record, receipt, rows, rest>>, hand[h].at # "note"
  PROVE  VInv'
<1>1. Typed' /\ Rows' /\ OneOpen' /\ Onward
  BY DEF VInv, Typed, Rows, RowOk, Decided, OneOpen, Onward, rows, rest
<1>2. Rights' /\ UNCHANGED page
  BY RightsStay, <1>1 DEF VInv, rows, rest
<1>3. \A r \in Records : Silent(r)' => Silent(r) /\ ~Noting(h, r)
  BY DEF Silent, Noting
<1>4. QED
  BY <1>1, <1>2, <1>3, HandlerStep

LEMMA PressStep ==
  ASSUME VInv, NEW h \in Reviewers, Presses(h)
  PROVE  VInv'
<1>1. PICK r \in Records, w \in DOMAIN Decision :
        /\ record[r] # NoRecord
        /\ hand' = [hand EXCEPT ![h] = [Idle EXCEPT !.at = "open", !.on = {r}, !.want = w]]
  BY DEF Presses
<1> DEFINE q == [Idle EXCEPT !.at = "open", !.on = {r}, !.want = w]
<1>2. q \in Hand /\ q.at = "open" /\ q.on = {r}
  BY DecisionIs DEF Idle, Hand, Places, Statuses
<1> HIDE DEF q
<1>3. hand' \in [Reviewers -> Hand] /\ Alone(h) /\ hand'[h] = q
  BY <1>1, <1>2, PutIs DEF VInv, q
<1>4. record'[r].status # "NONE"
  BY <1>1 DEF Presses, VInv, Rows, RowOk
<1>5. HandOk(h)'
  BY <1>2, <1>3, <1>4 DEF HandOk, Busy, Approving
<1>6. QED
  BY <1>3, <1>5, QuietStep DEF Presses

LEMMA LookStep ==
  ASSUME VInv, NEW h \in Reviewers, LooksUp(h)
  PROVE  VInv'
<1>1. PICK r \in Records : hand[h].on = {r} /\ Busy(h, r)
  BY DEF LooksUp, VInv, HandsOk, HandOk
<1>2. hand[h].at = "look" /\ UNCHANGED <<record, receipt, rows, rest>>
  BY DEF LooksUp
<1>3. CASE Ends(h)
  BY <1>2, <1>3, EndsIs, QuietStep DEF VInv
<1>4. CASE Go(h, "decide")
  <2>1. hand' \in [Reviewers -> Hand] /\ Alone(h) /\ hand'[h].at = "decide" /\ hand'[h].on = hand[h].on
        /\ hand'[h].want = hand[h].want
    BY <1>4, GoIs DEF VInv, Places
  <2>2. HandOk(h)'
    BY <1>1, <1>2, <2>1 DEF HandOk, Busy, Approving
  <2>3. QED
    BY <1>2, <2>1, <2>2, QuietStep
<1>5. CASE /\ record[r].status = Decision[hand[h].want]
           /\ hand' = [hand EXCEPT ![h].at = "note", ![h].saw = record[r].status]
  <2>1. record[r].status \in Statuses /\ hand[h].want \in {"approve", "reject"}
    BY DEF VInv, Typed, RecordRow, Hand
  <2>2. hand' \in [Reviewers -> Hand] /\ Alone(h) /\ hand'[h].at = "note" /\ hand'[h].on = hand[h].on
        /\ hand'[h].want = hand[h].want /\ hand'[h].saw = record[r].status
    BY <1>5, <2>1, SawIs DEF VInv, Places
  <2>3. HandOk(h)'
    BY <1>1, <1>2, <1>5, <2>1, <2>2, DecisionIs DEF HandOk, Busy, Approving
  <2>4. QED
    BY <1>2, <2>2, <2>3, QuietStep
<1>6. QED
  BY <1>1, <1>3, <1>4, <1>5 DEF LooksUp

LEMMA ReadStep ==
  ASSUME VInv, NEW h \in Reviewers, ReadsHome(h)
  PROVE  VInv'
<1>1. PICK r \in Records : hand[h].on = {r} /\ Busy(h, r)
  BY DEF ReadsHome, VInv, HandsOk, HandOk
<1>2. hand[h].at = "write" /\ UNCHANGED <<record, receipt, rows, rest>>
  BY DEF ReadsHome
<1> DEFINE a == home[record[r].by]
           at == IF a = Nobody THEN "refused" ELSE "send"
<1>3. hand' = [hand EXCEPT ![h].at = at, ![h].home = a]
  BY <1>1 DEF ReadsHome
<1>4. a \in Apartments \cup {Nobody} /\ at \in {"refused", "send"} /\ at \in Places
  BY <1>1 DEF VInv, Typed, Rows, RowOk, Busy, Places, Approving
<1> HIDE DEF a, at
<1>5. hand' \in [Reviewers -> Hand] /\ Alone(h) /\ hand'[h].at = at /\ hand'[h].on = hand[h].on
      /\ hand'[h].want = hand[h].want
  BY <1>3, <1>4, HomeIs DEF VInv
<1>6. HandOk(h)'
  BY <1>1, <1>2, <1>4, <1>5 DEF HandOk, Busy, Approving
<1>7. QED
  BY <1>2, <1>5, <1>6, QuietStep

LEMMA OpenStep ==
  ASSUME VInv, NEW h \in Reviewers, Opens(h)
  PROVE  VInv'
<1>1. PICK r \in Records : hand[h].on = {r} /\ Busy(h, r)
  BY DEF Opens, VInv, HandsOk, HandOk
<1>2. hand[h].at = "open" /\ UNCHANGED <<record, rows, rest>>
  BY DEF Opens
<1> DEFINE q == [asked |-> hand[h].want, mat |-> "PENDING", code |-> "NONE"]
<1>3. /\ receipt' = IF receipt[r] # NoReceipt THEN receipt ELSE [receipt EXCEPT ![r] = q]
      /\ IF SameWish(r, hand[h].want) THEN Go(h, "look") ELSE Ends(h)
  BY <1>1 DEF Opens
<1>4. q \in ReceiptRow /\ q.asked = hand[h].want /\ q.mat = "PENDING" /\ q.asked # "NONE"
  BY DEF VInv, Typed, Hand, ReceiptRow
<1> HIDE DEF q
<1>5. /\ receipt' \in [Records -> ReceiptRow]
      /\ \A s \in Records : s # r => receipt'[s] = receipt[s]
      /\ receipt[r] # NoReceipt => receipt'[r] = receipt[r]
      /\ receipt[r] = NoReceipt => receipt'[r] = q
  BY <1>3, <1>4 DEF VInv, Typed
<1>6. receipt[r] = NoReceipt => receipt[r].asked = "NONE" /\ ~Decided(r)
  BY DEF VInv, Rows, RowOk, NoReceipt
<1>7. Onward /\ OneOpen'
  BY <1>2, <1>5, <1>6 DEF Onward, OneOpen, VInv, Typed, rows, rest
<1>8. Rows'
  <2>1. ASSUME NEW s \in Records PROVE RowOk(s)'
    <3>1. record'[s] = record[s] /\ done' = done /\ RowOk(s)
      BY <1>2 DEF rows, VInv, Rows
    <3>2. CASE receipt'[s] = receipt[s]
      BY <3>1, <3>2 DEF RowOk, Decided
    <3>3. CASE s = r /\ receipt[r] = NoReceipt
      BY <1>4, <1>5, <1>6, <3>1, <3>3 DEF RowOk, Decided
    <3>4. QED
      BY <1>5, <3>2, <3>3
  <2>2. QED
    BY <2>1 DEF Rows
<1>9. Typed' /\ Rights' /\ UNCHANGED page
  <2>1. hand' \in [Reviewers -> Hand]
    BY <1>3, GoIs, EndsIs DEF VInv, Places
  <2>2. Typed'
    BY <1>2, <1>5, <2>1 DEF VInv, Typed, rows, rest
  <2>3. QED
    BY <1>2, <1>7, <2>2, RightsStay DEF VInv, rows, rest
<1>10. Alone(h) /\ HandOk(h)'
  <2>1. CASE Ends(h)
    BY <2>1, EndsIs DEF VInv
  <2>2. CASE Go(h, "look") /\ SameWish(r, hand[h].want)
    <3>1. Alone(h) /\ hand'[h].at = "look" /\ hand'[h].on = hand[h].on /\ hand'[h].want = hand[h].want
      BY <2>2, GoIs DEF VInv, Places
    <3>2. receipt'[r].asked = hand[h].want
      BY <1>4, <1>5, <2>2 DEF SameWish, VInv, Rows, RowOk
    <3>3. record'[r] = record[r]
      BY <1>2
    <3>4. QED
      BY <1>1, <3>1, <3>2, <3>3 DEF HandOk, Busy, Approving
  <2>3. QED
    BY <1>3, <2>1, <2>2
<1>11. \A s \in Records : Silent(s)' => Silent(s) /\ ~Noting(h, s)
  BY <1>2, <1>5, <1>6 DEF Silent, Noting, Decided
<1>12. QED
  BY <1>7, <1>8, <1>9, <1>10, <1>11, HandlerStep

LEMMA DecideStep ==
  ASSUME VInv, NEW h \in Reviewers, Decides(h)
  PROVE  VInv'
<1>1. PICK r \in Records : hand[h].on = {r} /\ Busy(h, r)
  BY DEF Decides, VInv, HandsOk, HandOk
<1>2. hand[h].at = "decide" /\ UNCHANGED <<receipt, rows, rest>>
  BY DEF Decides
<1>3. CASE Ends(h) /\ UNCHANGED record
  BY <1>2, <1>3, EndsIs, QuietStep DEF VInv
<1>4. CASE /\ record[r].status = "PENDING"
           /\ record' = [record EXCEPT ![r].status = Decision[hand[h].want]]
           /\ hand' = [hand EXCEPT ![h].at = "note", ![h].saw = Decision[hand[h].want]]
  <2> DEFINE d == Decision[hand[h].want]
             q == [record[r] EXCEPT !.status = d]
  <2>1. hand[h].want \in {"approve", "reject"} /\ receipt[r].asked = hand[h].want
    BY <1>1, <1>2 DEF VInv, Typed, Hand, Busy
  <2>2. d \in {"APPROVED", "REJECTED"} /\ d \in Statuses
    BY <2>1, DecisionIs DEF Statuses
  <2>3. d = Decision[receipt[r].asked]
    BY <2>1
  <2>4. hand' = [hand EXCEPT ![h].at = "note", ![h].saw = d] /\ record' = [record EXCEPT ![r] = q]
    BY <1>4
  <2> HIDE DEF d
  <2>5. q \in RecordRow /\ q.status = d /\ q.by = record[r].by /\ q.claim = record[r].claim
    BY <2>2 DEF VInv, Typed, RecordRow
  <2> HIDE DEF q
  <2>6. record' \in [Records -> RecordRow] /\ record'[r] = q /\ \A s \in Records : s # r => record'[s] = record[s]
    BY <2>4, <2>5 DEF VInv, Typed
  <2>7. /\ hand' \in [Reviewers -> Hand] /\ Alone(h) /\ hand'[h].at = "note" /\ hand'[h].on = hand[h].on
        /\ hand'[h].want = hand[h].want /\ hand'[h].saw = d
    BY <2>2, <2>4, SawIs DEF VInv, Places
  <2>8. Typed'
    BY <1>2, <2>6, <2>7 DEF VInv, Typed, rows, rest
  <2>9. Onward
    BY <1>2, <1>4, <2>2, <2>5, <2>6 DEF Onward, Decided, rows, rest
  <2>10. Rows'
    <3>1. ASSUME NEW s \in Records PROVE RowOk(s)'
      <4>1. receipt'[s] = receipt[s] /\ done' = done /\ RowOk(s)
        BY <1>2 DEF rows, VInv, Rows
      <4>2. CASE s # r
        BY <2>6, <4>1, <4>2 DEF RowOk, Decided
      <4>3. CASE s = r
        BY <1>4, <2>1, <2>2, <2>3, <2>5, <2>6, <4>1, <4>3 DEF RowOk, Decided
      <4>4. QED
        BY <4>2, <4>3
    <3>2. QED
      BY <3>1 DEF Rows
  <2>11. OneOpen'
    BY <2>2, <2>5, <2>6 DEF VInv, OneOpen
  <2>12. Rights' /\ UNCHANGED page
    BY <1>2, <2>9, RightsStay DEF VInv, rows, rest
  <2>13. HandOk(h)'
    BY <1>1, <1>2, <2>1, <2>2, <2>5, <2>6, <2>7 DEF HandOk, Busy, Approving
  <2>14. \A s \in Records : Silent(s)' => (Silent(s) /\ ~Noting(h, s)) \/ Noting(h, s)'
    BY <1>1, <1>2, <2>6, <2>7 DEF Silent, Noting
  <2>15. QED
    BY <2>7, <2>8, <2>9, <2>10, <2>11, <2>12, <2>13, <2>14, HandlerStep
<1>5. QED
  BY <1>1, <1>3, <1>4 DEF Decides

\* What a handler writes on its receipt once the decision is known.
LEMMA MarkStep ==
  ASSUME VInv, NEW h \in Reviewers, NEW r \in Records, hand[h].on = {r}, Busy(h, r),
         hand[h].at \in {"note"} \cup Approving,
         NEW m \in {"PENDING", "SUCCESS", "FAILED", "NOT_REQUIRED"},
         NEW c \in {"NONE", "BUSINESS_REFUSED", "OTHER"},
         \/ receipt' = receipt /\ receipt[r].mat = "SUCCESS"
         \/ receipt' = [receipt EXCEPT ![r].mat = m, ![r].code = c],
         UNCHANGED <<record, rows, rest>>,
         m = "NOT_REQUIRED" => record[r].status = "REJECTED",
         m # "NOT_REQUIRED" => record[r].status = "APPROVED",
         m = "SUCCESS" => r \in done,
         Ends(h) \/ (Go(h, "write") /\ record[r].status = "APPROVED")
  PROVE  VInv'
<1>1. receipt[r].asked = hand[h].want /\ hand[h].want # "NONE" /\ receipt[r].asked # "NONE"
  BY DEF Busy, Approving, VInv, Typed, Hand
<1>2. /\ receipt' \in [Records -> ReceiptRow]
      /\ \A s \in Records : s # r => receipt'[s] = receipt[s]
      /\ receipt'[r].asked = receipt[r].asked
      /\ receipt'[r].mat # m => receipt'[r].mat = "SUCCESS" /\ receipt[r].mat = "SUCCESS"
  BY DEF VInv, Typed, ReceiptRow
<1>3. Onward /\ OneOpen'
  <2>1. \A s \in Records : receipt'[s].asked = receipt[s].asked
    BY <1>2
  <2>2. QED
    BY <2>1 DEF Onward, OneOpen, VInv, rows, rest
<1>4. Rows'
  <2>1. ASSUME NEW s \in Records PROVE RowOk(s)'
    <3>1. record'[s] = record[s] /\ done' = done /\ RowOk(s)
      BY DEF rows, VInv, Rows
    <3>2. CASE s # r
      BY <1>2, <3>1, <3>2 DEF RowOk, Decided
    <3>3. CASE s = r
      BY <1>1, <1>2, <3>1, <3>3 DEF RowOk, Decided
    <3>4. QED
      BY <3>2, <3>3
  <2>2. QED
    BY <2>1 DEF Rows
<1>5. hand' \in [Reviewers -> Hand] /\ Alone(h) /\ HandOk(h)'
  <2>1. CASE Ends(h)
    BY <2>1, EndsIs DEF VInv
  <2>2. CASE Go(h, "write") /\ record[r].status = "APPROVED"
    <3>1. /\ hand' \in [Reviewers -> Hand] /\ Alone(h) /\ hand'[h].at = "write" /\ hand'[h].on = hand[h].on
          /\ hand'[h].want = hand[h].want
      BY <2>2, GoIs DEF VInv, Places, Approving
    <3>2. QED
      BY <1>1, <1>2, <2>2, <3>1 DEF HandOk, Busy, Approving
  <2>3. QED
    BY <2>1, <2>2
<1>6. Typed' /\ Rights' /\ UNCHANGED page
  <2>1. Typed'
    BY <1>2, <1>5 DEF VInv, Typed, rows, rest
  <2>2. QED
    BY <1>3, <2>1, RightsStay DEF VInv, rows, rest
<1>7. \A s \in Records : Silent(s)' => Silent(s) /\ ~Noting(h, s)
  BY <1>2 DEF Silent, Noting
<1>8. QED
  BY <1>3, <1>4, <1>5, <1>6, <1>7, HandlerStep

LEMMA NoteStep ==
  ASSUME VInv, NEW h \in Reviewers, Notes(h)
  PROVE  VInv'
<1>1. PICK r \in Records : hand[h].on = {r} /\ Busy(h, r)
  BY DEF Notes, VInv, HandsOk, HandOk
<1>2. /\ hand[h].at = "note" /\ UNCHANGED <<record, rows, rest>>
      /\ hand[h].saw = record[r].status /\ hand[h].saw \in {"APPROVED", "REJECTED"}
  BY <1>1 DEF Notes, Busy
<1>3. CASE WasRefused(h)
  <2>1. receipt' = Unless(r, "NOT_REQUIRED", "NONE") /\ Ends(h)
    BY <1>1, <1>3 DEF Notes
  <2>2. record[r].status = "REJECTED"
    BY <1>2, <1>3 DEF WasRefused
  <2>3. \/ receipt' = receipt /\ receipt[r].mat = "SUCCESS"
        \/ receipt' = [receipt EXCEPT ![r].mat = "NOT_REQUIRED", ![r].code = "NONE"]
    BY <2>1 DEF Unless
  <2>4. QED
    BY <1>1, <1>2, <2>1, <2>2, <2>3, MarkStep
<1>4. CASE ~WasRefused(h)
  <2>1. receipt' = Unless(r, "PENDING", "NONE") /\ Go(h, "write")
    BY <1>1, <1>4 DEF Notes
  <2>2. record[r].status = "APPROVED"
    BY <1>2, <1>4 DEF WasRefused
  <2>3. \/ receipt' = receipt /\ receipt[r].mat = "SUCCESS"
        \/ receipt' = [receipt EXCEPT ![r].mat = "PENDING", ![r].code = "NONE"]
    BY <2>1 DEF Unless
  <2>4. QED
    BY <1>1, <1>2, <2>1, <2>2, <2>3, MarkStep
<1>5. QED
  BY <1>3, <1>4

LEMMA FailStep ==
  ASSUME VInv, NEW h \in Reviewers, Fails(h)
  PROVE  VInv'
<1>1. PICK r \in Records : hand[h].on = {r} /\ Busy(h, r)
  BY DEF Fails, VInv, HandsOk, HandOk
<1>2. PICK c \in {"BUSINESS_REFUSED", "OTHER"} :
        receipt' = IF receipt[r].mat = "SUCCESS" THEN receipt
                   ELSE [receipt EXCEPT ![r].mat = "FAILED", ![r].code = c]
  BY <1>1 DEF Fails, Unless
<1>3. hand[h].at \in Approving /\ UNCHANGED <<record, rows, rest>> /\ Ends(h)
  BY DEF Fails, Approving
<1>4. record[r].status = "APPROVED"
  BY <1>1, <1>3 DEF Busy
<1>5. \/ receipt' = receipt /\ receipt[r].mat = "SUCCESS"
      \/ receipt' = [receipt EXCEPT ![r].mat = "FAILED", ![r].code = c]
  BY <1>2
<1>6. QED
  BY <1>1, <1>2, <1>3, <1>4, <1>5, MarkStep

LEMMA SealStep ==
  ASSUME VInv, NEW h \in Reviewers, Seals(h)
  PROVE  VInv'
<1>1. PICK r \in Records : hand[h].on = {r} /\ Busy(h, r)
  BY DEF Seals, VInv, HandsOk, HandOk
<1>2. receipt' = [receipt EXCEPT ![r].mat = "SUCCESS", ![r].code = "NONE"]
  BY <1>1 DEF Seals
<1>3. /\ hand[h].at = "seal" /\ hand[h].at \in Approving /\ UNCHANGED <<record, rows, rest>> /\ Ends(h)
  BY DEF Seals, Approving
<1>4. record[r].status = "APPROVED" /\ r \in done
  BY <1>1, <1>3 DEF Busy
<1>5. QED
  BY <1>1, <1>2, <1>3, <1>4, MarkStep

\* The business rows of an approved record are written, or its handler gives up on them.
LEMMA WriteStep ==
  ASSUME VInv, NEW h \in Reviewers, NEW r \in Records, hand[h].on = {r}, Busy(h, r),
         hand[h].at \in Approving, hand[h].at # "seal",
         NEW at \in {"seal", "refused", "outage"}, Go(h, at), at = "seal" => r \in done',
         UNCHANGED <<record, receipt, pictures, page, torn, revoked>>, faults' \in 0..MaxFaults,
         home' \in [Users -> Apartments \cup {Nobody}], garage' \in [Plates -> Apartments \cup {Nobody}],
         done' \in {done, done \cup {r}}, Rights'
  PROVE  VInv'
<1>1. record[r].status = "APPROVED" /\ receipt[r].asked = hand[h].want
  BY DEF Busy, Approving
<1>2. /\ hand' \in [Reviewers -> Hand] /\ Alone(h) /\ hand'[h].at = at /\ hand'[h].on = hand[h].on
      /\ hand'[h].want = hand[h].want
  BY GoIs DEF VInv, Places, Approving
<1>3. Typed' /\ Onward /\ OneOpen'
  BY <1>2 DEF VInv, Typed, Onward, OneOpen
<1>4. Rows'
  <2>1. ASSUME NEW s \in Records PROVE RowOk(s)'
    <3>1. record'[s] = record[s] /\ receipt'[s] = receipt[s] /\ RowOk(s)
      BY DEF VInv, Rows
    <3>2. QED
      BY <1>1, <3>1 DEF RowOk, Decided
  <2>2. QED
    BY <2>1 DEF Rows
<1>5. HandOk(h)'
  BY <1>1, <1>2 DEF HandOk, Busy, Approving
<1>6. \A s \in Records : Silent(s)' => Silent(s) /\ ~Noting(h, s)
  BY DEF Silent, Noting, Approving
<1>7. QED
  BY <1>2, <1>3, <1>4, <1>5, <1>6, HandlerStep

LEMMA LinkStep ==
  ASSUME VInv, VerificationAssumptions, NEW h \in Reviewers, LinksHome(h)
  PROVE  VInv'
<1>1. PICK r \in Records : hand[h].on = {r} /\ Busy(h, r)
  BY DEF LinksHome, VInv, HandsOk, HandOk
<1> DEFINE u == record[r].by
           a == record[r].claim
<1>2. /\ hand[h].at = "write" /\ hand[h].at \in Approving /\ record[r].status = "APPROVED"
      /\ a \in Apartments /\ u \in Users
  BY <1>1 DEF LinksHome, Approving, Busy, VInv, Rows, RowOk
<1>3. UNCHANGED <<record, receipt, pictures, garage, page, torn, revoked>> /\ faults' \in 0..MaxFaults
  BY <1>1 DEF LinksHome, VInv, Typed, VerificationAssumptions
<1>4. CASE home' = Linked(u, a) /\ done' = done \cup {r} /\ Go(h, "seal")
  <2>1. home' = [home EXCEPT ![u] = a]
    BY <1>4 DEF Linked
  <2> HIDE DEF u, a
  <2>2. home' \in [Users -> Apartments \cup {Nobody}]
    BY <1>2, <2>1 DEF VInv, Typed
  <2>3. ASSUME NEW v \in Users PROVE HasClaimed(v)'
    <3>1. CASE v = u
      BY <1>2, <1>3, <1>4, <2>1, <3>1 DEF HasClaimed, VInv, Typed, u, a
    <3>2. CASE v # u
      BY <1>3, <1>4, <2>1, <3>2 DEF HasClaimed, VInv, Typed, Rights
    <3>3. QED
      BY <3>1, <3>2
  <2>4. Rights'
    BY <1>3, <1>4, <2>3 DEF Rights, HasPlate, VInv
  <2>5. QED
    BY <1>1, <1>2, <1>3, <1>4, <2>2, <2>4, WriteStep DEF VInv, Typed
<1>5. CASE Go(h, "outage") /\ UNCHANGED <<home, done>>
  <2>1. Rights'
    BY <1>3, <1>5 DEF Rights, HasClaimed, HasPlate, VInv
  <2>2. QED
    BY <1>1, <1>2, <1>3, <1>5, <2>1, WriteStep DEF VInv, Typed
<1>6. QED
  BY <1>1, <1>4, <1>5 DEF LinksHome

LEMMA VehicleStep ==
  ASSUME VInv, VerificationAssumptions, NEW h \in Reviewers, RegistersVehicle(h)
  PROVE  VInv'
<1>1. PICK r \in Records : hand[h].on = {r} /\ Busy(h, r)
  BY DEF RegistersVehicle, VInv, HandsOk, HandOk
<1> DEFINE p == record[r].claim
           a == hand[h].home
           free == MayPark(p, a)
<1>2. /\ hand[h].at = "send" /\ hand[h].at \in Approving /\ record[r].status = "APPROVED"
      /\ a \in Apartments \cup {Nobody}
  BY <1>1 DEF RegistersVehicle, Approving, Busy, VInv, Typed, Hand
<1>3. UNCHANGED <<record, receipt, pictures, home, page, torn, revoked>>
  BY DEF RegistersVehicle
<1>4. /\ garage' = IF free THEN [garage EXCEPT ![p] = a] ELSE garage
      /\ done' = IF free THEN done \cup {r} ELSE done
      /\ IF free THEN \/ Go(h, "seal") /\ UNCHANGED faults
                      \/ faults < MaxFaults /\ faults' = faults + 1 /\ Go(h, "refused")
         ELSE Go(h, "refused") /\ UNCHANGED faults
  BY <1>1 DEF RegistersVehicle
<1> HIDE DEF p, a, free
<1>5. faults' \in 0..MaxFaults
  BY <1>4 DEF VInv, Typed, VerificationAssumptions
<1>6. /\ garage' \in [Plates -> Apartments \cup {Nobody}] /\ done' \in {done, done \cup {r}}
      /\ \A q \in Plates : garage'[q] = garage[q] \/ (q = p /\ r \in done')
  BY <1>2, <1>4 DEF VInv, Typed
<1>7. Rights'
  <2>1. ASSUME NEW q \in Plates PROVE HasPlate(q)'
    <3>1. CASE garage'[q] = garage[q]
      BY <1>3, <1>6, <3>1 DEF HasPlate, VInv, Rights
    <3>2. CASE q = p /\ r \in done'
      BY <1>3, <3>2 DEF HasPlate, p
    <3>3. QED
      BY <1>6, <3>1, <3>2
  <2>2. ASSUME NEW u \in Users PROVE HasClaimed(u)'
    BY <1>3, <1>6 DEF HasClaimed, VInv, Rights
  <2>3. QED
    BY <2>1, <2>2 DEF Rights
<1>8. (Go(h, "seal") /\ r \in done') \/ Go(h, "refused")
  BY <1>4
<1>9. home' \in [Users -> Apartments \cup {Nobody}] /\ hand[h].at # "seal"
  BY <1>2, <1>3 DEF VInv, Typed
<1>10. CASE Go(h, "seal") /\ r \in done'
  BY <1>1, <1>2, <1>3, <1>5, <1>6, <1>7, <1>9, <1>10, WriteStep
<1>11. CASE Go(h, "refused")
  BY <1>1, <1>2, <1>3, <1>5, <1>6, <1>7, <1>9, <1>11, WriteStep
<1>12. QED
  BY <1>8, <1>10, <1>11

LEMMA DropStep ==
  ASSUME VInv, VerificationAssumptions, NEW h \in Reviewers, Drops(h)
  PROVE  VInv'
<1>1. PICK r \in Records : hand[h].on = {r}
  BY DEF Drops, VInv, HandsOk, HandOk
<1>2. /\ torn' = torn \cup {r} /\ Ends(h) /\ UNCHANGED <<record, pictures, receipt, rows, page, revoked>>
      /\ faults' \in 0..MaxFaults
  BY <1>1 DEF Drops, VInv, Typed, VerificationAssumptions
<1>3. hand' \in [Reviewers -> Hand] /\ Alone(h) /\ HandOk(h)'
  BY <1>2, EndsIs DEF VInv
<1>4. Typed' /\ Rows' /\ OneOpen' /\ Onward
  BY <1>2, <1>3 DEF VInv, Typed, Rows, RowOk, Decided, OneOpen, Onward, rows
<1>5. Rights' /\ UNCHANGED page
  BY <1>2, <1>4, RightsStay DEF VInv, rows
<1>6. \A s \in Records : Silent(s)' => (Silent(s) /\ ~Noting(h, s)) \/ s \in torn'
  BY <1>1, <1>2 DEF Silent, Noting
<1>7. QED
  BY <1>3, <1>4, <1>5, <1>6, HandlerStep

-------------------------------------------------------------------------------
(* The steps of the others *)

LEMMA OtherStep ==
  ASSUME VInv, Typed', Rows', OneOpen', Rights', PageOk', Onward, UNCHANGED <<hand, torn>>,
         \A r \in Records : Silent(r)' => Silent(r)
  PROVE  VInv'
<1>1. HandsOk'
  BY HandsRest DEF VInv
<1>2. Unsaid'
  BY DEF VInv, Unsaid, Noting
<1>3. QED
  BY <1>1, <1>2 DEF VInv

LEMMA FileStep ==
  ASSUME VInv, VerificationAssumptions, NEW u \in Users, NEW c \in Claims, Files(u, c)
  PROVE  VInv'
<1>1. PICK r \in Records :
        /\ record[r] = NoRecord
        /\ IF Open(c) THEN UNCHANGED <<record, pictures, faults>>
           ELSE /\ record' = [record EXCEPT ![r] = [status |-> "PENDING", by |-> u, claim |-> c]]
                /\ \/ pictures' = pictures \cup {r} /\ UNCHANGED faults
                   \/ faults < MaxFaults /\ faults' = faults + 1 /\ UNCHANGED pictures
  BY DEF Files
<1>2. UNCHANGED <<receipt, home, garage, done, hand, page, torn, revoked>>
  BY DEF Files, rows
<1>3. pictures' \subseteq Records /\ faults' \in 0..MaxFaults
  BY <1>1 DEF VInv, Typed, VerificationAssumptions
<1> DEFINE q == [status |-> "PENDING", by |-> u, claim |-> c]
<1>4. q \in RecordRow /\ q.status = "PENDING" /\ q.by = u /\ q.claim = c /\ NoRecord.status = "NONE"
  BY DEF RecordRow, Statuses, NoRecord
<1>5. UNCHANGED record \/ (~Open(c) /\ record' = [record EXCEPT ![r] = q])
  BY <1>1
<1> HIDE DEF q
<1>6. CASE UNCHANGED record
  <2>1. Typed' /\ Rows' /\ OneOpen' /\ Onward
    BY <1>2, <1>3, <1>6 DEF VInv, Typed, Rows, RowOk, Decided, OneOpen, Onward
  <2>2. Rights' /\ PageOk'
    BY <1>2, <2>1, RightsStay, PageStays DEF VInv
  <2>3. \A s \in Records : Silent(s)' => Silent(s)
    BY <1>2, <1>6 DEF Silent
  <2>4. QED
    BY <1>2, <2>1, <2>2, <2>3, OtherStep
<1>7. CASE ~Open(c) /\ record' = [record EXCEPT ![r] = q]
  <2>1. record' \in [Records -> RecordRow] /\ record'[r] = q /\ \A s \in Records : s # r => record'[s] = record[s]
    BY <1>4, <1>7 DEF VInv, Typed
  <2>2. Typed'
    BY <1>2, <1>3, <2>1 DEF VInv, Typed
  <2>3. record[r].status = "NONE" /\ ~Decided(r)
    BY <1>1, <1>4 DEF Decided
  <2>4. Onward
    BY <1>2, <2>1, <2>3 DEF Onward
  <2>5. Rows'
    <3>1. ASSUME NEW s \in Records PROVE RowOk(s)'
      <4>1. receipt'[s] = receipt[s] /\ done' = done /\ RowOk(s)
        BY <1>2 DEF VInv, Rows
      <4>2. CASE s # r
        BY <2>1, <4>1, <4>2 DEF RowOk, Decided
      <4>3. CASE s = r
        BY <1>4, <2>1, <2>3, <4>1, <4>3 DEF RowOk, Decided
      <4>4. QED
        BY <4>2, <4>3
    <3>2. QED
      BY <3>1 DEF Rows
  <2>6. OneOpen'
    BY <1>4, <1>7, <2>1 DEF VInv, OneOpen, Open
  <2>7. Rights' /\ PageOk'
    BY <1>2, <2>4, RightsStay, PageStays DEF VInv
  <2>8. \A s \in Records : Silent(s)' => Silent(s)
    BY <1>2, <1>4, <2>1 DEF Silent
  <2>9. QED
    BY <1>2, <2>2, <2>4, <2>5, <2>6, <2>7, <2>8, OtherStep
<1>8. QED
  BY <1>5, <1>6, <1>7

LEMMA RevokeStep ==
  ASSUME VInv, VerificationAssumptions, Revokes
  PROVE  VInv'
<1>1. PICK u \in Users : home' = [home EXCEPT ![u] = Nobody]
  BY DEF Revokes
<1>2. /\ UNCHANGED <<record, pictures, receipt, garage, done, hand, page, torn, faults>>
      /\ revoked' \in 0..MaxRevoked
  BY DEF Revokes, VInv, Typed, VerificationAssumptions
<1>3. Typed' /\ Rows' /\ OneOpen' /\ Onward
  BY <1>1, <1>2 DEF VInv, Typed, Rows, RowOk, Decided, OneOpen, Onward
<1>4. PageOk'
  BY <1>2, <1>3, PageStays DEF VInv
<1>5. Rights'
  BY <1>1, <1>2 DEF VInv, Typed, Rights, HasClaimed, HasPlate
<1>6. \A s \in Records : Silent(s)' => Silent(s)
  BY <1>2 DEF Silent
<1>7. QED
  BY <1>2, <1>3, <1>4, <1>5, <1>6, OtherStep

\* derive shows a resident as verified on the provider's and the receipt's word
\* together, and as refused on the provider's.
LEMMA EffectiveIs ==
  ASSUME NEW status \in {"PENDING", "APPROVED", "REJECTED"}, NEW q \in ReceiptRow
  PROVE  /\ Effective(status, q) \in Shown
         /\ Effective(status, q) = "VERIFIED" => status = "APPROVED" /\ q.mat = "SUCCESS"
         /\ Effective(status, q) = "REJECTED" => status = "REJECTED"
         /\ Effective(status, q) \in Contradiction =>
              \/ status = "PENDING" /\ q.mat \notin {"NONE", "PENDING"}
              \/ status = "REJECTED" /\ q.mat \notin {"NONE", "NOT_REQUIRED"}
              \/ status = "APPROVED" /\ q.mat \in {"NONE", "NOT_REQUIRED"}
<1>1. q.mat \in {"NONE", "PENDING", "SUCCESS", "FAILED", "NOT_REQUIRED"}
  BY DEF ReceiptRow
<1>2. CASE status = "PENDING"
  BY <1>1, <1>2 DEF Effective, Contradiction, Shown
<1>3. CASE status = "REJECTED"
  BY <1>1, <1>3 DEF Effective, Contradiction, Shown
<1>4. CASE status = "APPROVED"
  BY <1>1, <1>4 DEF Effective, Contradiction, Shown
<1>5. QED
  BY <1>2, <1>3, <1>4

LEMMA ListStep ==
  ASSUME VInv, NEW r \in Records, Lists(r)
  PROVE  VInv'
<1>1. /\ record[r] # NoRecord /\ page' = [on |-> {r}, saw |-> record[r].status, shown |-> "NONE"]
      /\ UNCHANGED <<record, pictures, receipt, rows, hand, torn, faults, revoked>>
  BY DEF Lists
<1>2. page' \in Page /\ page'.on = {r} /\ page'.saw = record[r].status /\ page'.shown = "NONE"
  BY <1>1 DEF Page, Shown, VInv, Typed, RecordRow
<1>3. Typed' /\ Rows' /\ OneOpen' /\ Onward
  BY <1>1, <1>2 DEF VInv, Typed, Rows, RowOk, Decided, OneOpen, Onward, rows
<1>4. Rights'
  BY <1>1, <1>3, RightsStay DEF VInv, rows
<1>5. PageOk'
  BY <1>1, <1>2 DEF PageOk
<1>6. \A s \in Records : Silent(s)' => Silent(s)
  BY <1>1 DEF Silent
<1>7. QED
  BY <1>1, <1>3, <1>4, <1>5, <1>6, OtherStep

LEMMA JoinStep ==
  ASSUME VInv, Joins
  PROVE  VInv'
<1>1. PICK r \in Records : page.on = {r}
  BY DEF Joins, VInv, PageOk
<1> DEFINE e == Effective(page.saw, receipt[r])
<1>2. (CHOOSE s \in page.on : TRUE) = r
  BY <1>1
<1>3. /\ page.saw # "NONE" /\ page' = [page EXCEPT !.saw = "NONE", !.shown = e]
      /\ UNCHANGED <<record, pictures, receipt, rows, hand, torn, faults, revoked>>
  BY <1>2 DEF Joins
<1>4. page.saw \in {"PENDING", "APPROVED", "REJECTED"} /\ receipt[r] \in ReceiptRow
  BY <1>3 DEF VInv, Typed, Page, Statuses
<1>5. /\ e \in Shown
      /\ e = "VERIFIED" => page.saw = "APPROVED" /\ receipt[r].mat = "SUCCESS"
      /\ e = "REJECTED" => page.saw = "REJECTED"
  BY <1>4, EffectiveIs
<1> HIDE DEF e
<1>6. page' \in Page /\ page'.on = {r} /\ page'.saw = "NONE" /\ page'.shown = e
  BY <1>1, <1>3, <1>5 DEF VInv, Typed, Page, Statuses
<1>7. Typed' /\ Rows' /\ OneOpen' /\ Onward
  BY <1>3, <1>6 DEF VInv, Typed, Rows, RowOk, Decided, OneOpen, Onward, rows
<1>8. Rights'
  BY <1>3, <1>7, RightsStay DEF VInv, rows
<1>9. PageOk'
  BY <1>1, <1>3, <1>5, <1>6 DEF PageOk, VInv, Rows, RowOk, rows
<1>10. \A s \in Records : Silent(s)' => Silent(s)
  BY <1>3 DEF Silent
<1>11. QED
  BY <1>3, <1>7, <1>8, <1>9, <1>10, OtherStep

-------------------------------------------------------------------------------
LEMMA VInvStep ==
  ASSUME VInv, VerificationAssumptions, [Next]_vars
  PROVE  VInv'
<1>1. CASE UNCHANGED vars
  <2>1. Typed' /\ Rows' /\ OneOpen' /\ Rights' /\ PageOk' /\ Onward /\ UNCHANGED <<hand, torn>>
    BY <1>1 DEF vars, VInv, Typed, Rows, RowOk, Decided, OneOpen, Rights, HasClaimed, HasPlate, PageOk, Onward
  <2>2. \A r \in Records : Silent(r)' => Silent(r)
    BY <1>1 DEF vars, Silent
  <2>3. QED
    BY <2>1, <2>2, OtherStep
<1>2. ASSUME NEW u \in Users, NEW c \in Claims, Files(u, c) PROVE VInv'
  BY <1>2, FileStep
<1>3. ASSUME NEW h \in Reviewers,
             Presses(h) \/ Opens(h) \/ LooksUp(h) \/ Decides(h) \/ Notes(h) \/ Drops(h)
      PROVE  VInv'
  BY <1>3, PressStep, OpenStep, LookStep, DecideStep, NoteStep, DropStep
<1>4. ASSUME NEW h \in Reviewers,
             LinksHome(h) \/ ReadsHome(h) \/ RegistersVehicle(h) \/ Fails(h) \/ Seals(h)
      PROVE  VInv'
  BY <1>4, LinkStep, ReadStep, VehicleStep, FailStep, SealStep
<1>5. CASE Revokes
  BY <1>5, RevokeStep
<1>6. ASSUME NEW r \in Records, Lists(r) PROVE VInv'
  BY <1>6, ListStep
<1>7. CASE Joins
  BY <1>7, JoinStep
<1>8. QED
  BY <1>1, <1>2, <1>3, <1>4, <1>5, <1>6, <1>7 DEF Next

LEMMA VInvHolds == VerificationSpec => []VInv
<1>1. Init => VInv
  <2> SUFFICES ASSUME Init PROVE VInv
    OBVIOUS
  <2>1. NoRecord \in RecordRow /\ NoRecord.status = "NONE"
    BY DEF NoRecord, RecordRow, Statuses
  <2>2. NoReceipt \in ReceiptRow /\ NoReceipt.asked = "NONE" /\ NoReceipt.mat = "NONE"
    BY DEF NoReceipt, ReceiptRow
  <2>3. page \in Page /\ page.on = {} /\ page.saw = "NONE"
    BY DEF Init, Page, Statuses, Shown
  <2>4. Typed
    BY <2>1, <2>2, <2>3, IdleIs, VerificationAssumptions DEF Init, Typed, VerificationAssumptions
  <2>5. Rows /\ OneOpen /\ Unsaid
    BY <2>1, <2>2 DEF Init, Rows, RowOk, Decided, OneOpen, Unsaid, Silent
  <2>6. HandsOk /\ Rights /\ PageOk
    BY <2>3, IdleIs DEF Init, HandsOk, HandOk, Rights, HasClaimed, HasPlate, PageOk
  <2>7. QED
    BY <2>4, <2>5, <2>6 DEF VInv
<1>2. VInv /\ [Next]_vars => VInv'
  BY VInvStep, VerificationAssumptions
<1>3. QED
  BY <1>1, <1>2, PTL DEF VerificationSpec

\* Every variable keeps its type; a handler holds one record, and a claim has
\* at most one open record (uq_verif_pending_apartment, uq_verif_pending_vehicle).
THEOREM VerificationTyped == VerificationSpec => []VTypeOK
<1>1. VInv => VTypeOK
  <2> SUFFICES ASSUME VInv PROVE VTypeOK
    OBVIOUS
  <2>1. \A r \in Records : /\ record[r].status \in {"NONE", "PENDING", "APPROVED", "REJECTED"}
                           /\ record[r].claim \in Claims \cup {Nobody}
                           /\ receipt[r].asked \in {"NONE", "approve", "reject"}
                           /\ receipt[r].mat \in {"NONE", "PENDING", "SUCCESS", "FAILED", "NOT_REQUIRED"}
    BY DEF VInv, Typed, RecordRow, ReceiptRow, Statuses
  <2>2. ASSUME NEW h \in Reviewers
        PROVE  Cardinality(hand[h].on) = IF hand[h].at = "idle" THEN 0 ELSE 1
    BY FS_EmptySet, FS_Singleton DEF VInv, HandsOk, HandOk
  <2>3. ASSUME NEW c \in Claims
        PROVE  Cardinality({r \in Records : record[r].claim = c /\ record[r].status = "PENDING"}) <= 1
    <3> DEFINE S == {r \in Records : record[r].claim = c /\ record[r].status = "PENDING"}
    <3>1. \A r, s \in S : r = s
      BY DEF VInv, OneOpen
    <3> HIDE DEF S
    <3>2. S = {} \/ \E r \in S : S = {r}
      BY <3>1
    <3>3. Cardinality(S) = 0 \/ Cardinality(S) = 1
      BY <3>2, FS_EmptySet, FS_Singleton
    <3>4. QED
      BY <3>3 DEF S
  <2>4. QED
    BY <2>1, <2>2, <2>3 DEF VInv, Typed, VTypeOK
<1>2. QED
  BY <1>1, VInvHolds, PTL

\* The receipt's wish is the decision, before and after every crash
\* (open_receipt writes it before the provider is asked to decide).
THEOREM ReceiptTells == VerificationSpec => []ReceiptTellsDecision
<1>1. VInv => ReceiptTellsDecision
  BY DEF VInv, Rows, RowOk, Decided, ReceiptTellsDecision
<1>2. QED
  BY <1>1, VInvHolds, PTL

\* Business rows are written for approved records only, and whoever has an
\* apartment, and every registered plate, has an approved record behind it.
THEOREM ApprovedOpens == VerificationSpec => []OnlyApprovedOpens
<1>1. VInv => OnlyApprovedOpens
  BY DEF VInv, Typed, Rows, RowOk, Rights, HasClaimed, HasPlate, OnlyApprovedOpens
<1>2. QED
  BY <1>1, VInvHolds, PTL

\* A page that joins the provider's answer with a later read of the receipts
\* shows no resident as verified whose rows are missing, and none as refused
\* whose rows were written (verification_status.derive).
THEOREM ShownDone == VerificationSpec => []ShownIsDone
<1>1. VInv => ShownIsDone
  BY DEF VInv, Typed, Page, Rows, RowOk, PageOk, ShownIsDone
<1>2. QED
  BY <1>1, VInvHolds, PTL

\* The provider and the receipt contradict each other only while a decision is
\* on its way, or after a handler broke off.
THEOREM SourcesMeet == VerificationSpec => []SourcesAgree
<1>1. VInv => SourcesAgree
  <2> SUFFICES ASSUME VInv, NEW r \in Records, record[r] # NoRecord,
                      Effective(record[r].status, receipt[r]) \in Contradiction
               PROVE  r \in torn \/ \E h \in Reviewers : r \in hand[h].on
    BY DEF SourcesAgree
  <2>1. record[r].status \in {"PENDING", "APPROVED", "REJECTED"} /\ receipt[r] \in ReceiptRow
    BY DEF VInv, Typed, RecordRow, Statuses, Rows, RowOk
  <2>2. receipt[r].mat \in {"NONE", "PENDING", "SUCCESS", "FAILED", "NOT_REQUIRED"} /\ RowOk(r)
    BY <2>1 DEF VInv, Rows, ReceiptRow
  <2>3. Silent(r)
    BY <2>1, <2>2, EffectiveIs DEF Silent, RowOk, Decided
  <2>4. QED
    BY <2>3 DEF VInv, Unsaid, Noting
<1>2. QED
  BY <1>1, VInvHolds, PTL
===============================================================================
