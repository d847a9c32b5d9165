--------------------------- MODULE PaymentFlowProofs --------------------------
(***************************************************************************)
(* Proofs about ParkingLedger, for any clients, vehicles, zones, prices,   *)
(* capacities and ids, and about PaymentFlow, for any handlers, sweeps,    *)
(* prices and restarts.                                                    *)
(*                                                                         *)
(* The ledger: every step is one client's (Quiet) or one of four writes of *)
(* a row (Step), so a lock is taken only when nobody else holds it         *)
(* (Locked), and what a client has read under its lock - a place free      *)
(* (Counted), no session open, the price of the booking (Seen) - is still  *)
(* true when it writes.  What money came in and went back is a sum over    *)
(* the rows of payments: every step leaves a booking's money alone, or     *)
(* charges, settles or refunds it (Moved), and each of the four keeps what *)
(* came in equal to what its rows say (Even), whatever the prices.         *)
(*                                                                         *)
(* The flow: whatever a handler does to the ledger is a step of            *)
(* ParkingLedger or forgets transactions (LedgerStep), so MoneyInv goes    *)
(* on; a session, a payment transaction and a handler on its way to the    *)
(* provider exist only after the resident consented (Consented), so that a *)
(* step that takes money comes after an approval; and a handler that       *)
(* carries "paid" read a row whose money came in (HandlerOk).              *)
(*                                                                         *)
(* The end of the flow, for one sweep at a time: who may write the verdict *)
(* does so when the session is decided, opened and paid (WritesClosed), so *)
(* that when a sweep gives the place up nobody is left or comes back who   *)
(* could end the workflow well (OverIsOver, GoneIsOver).                   *)
(***************************************************************************)
EXTENDS PaymentFlow, FiniteSetTheorems, WellFoundedInduction, TLAPS

--------------------------------------------------------------------------------
(* The ledger *)

\* Only that a reply is one matters here.
IsTxn(t) == \/ t \in {Idle} \cup BookTxn \cup ChangeTxn \cup PayTxn \cup ConfirmTxn
            \/ t.step = "reply"

\* A row of payments has the columns of the table, whatever its amount.
Row(r) ==
  /\ r = [status |-> r.status, booking |-> r.booking,
          amount |-> r.amount, workflow |-> r.workflow]
  /\ r.status # "NONE"
  /\ r.booking \in BookingIds

Table(f) == \E S : f \in [PaymentIds -> S]

Shape ==
  /\ bookings \in [BookingIds -> Booking \cup {NoBooking}]
  /\ \E S : txn \in [Clients -> S]
  /\ \A c \in Clients : IsTxn(txn[c])
  /\ Table(payments)
  /\ \A p \in PaymentIds : payments[p] = NoPayment \/ Row(payments[p])
  /\ \A c \in Clients, b \in BookingIds : HoldsBooking(c, b) => bookings[b] # NoBooking

\* Who reads txn[c].step knows the shape of the transaction.
LEMMA TxnAt ==
  ASSUME NEW t, IsTxn(t)
  PROVE  /\ t.step \in {"bookCount", "bookInsert"} => t \in BookTxn
         /\ t.step \in {"changeGuard", "changeLock", "changeCount", "changeWrite"} => t \in ChangeTxn
         /\ t.step \in {"payLock", "payCheck", "payInsert"} => t \in PayTxn
         /\ t.step = "confirmWrite" => t \in ConfirmTxn
  BY DEF IsTxn, Idle, BookTxn, ChangeTxn, PayTxn, ConfirmTxn

LEMMA BookingTxnOn ==
  ASSUME NEW t \in BookTxn, NEW s \in {"bookCount", "bookInsert"}
  PROVE  LET u == [t EXCEPT !.step = s] IN
         u \in BookTxn /\ u.step = s /\ u.zone = t.zone
<1>1. [t EXCEPT !.step = s] = [step |-> s, vehicle |-> t.vehicle, zone |-> t.zone]
  BY DEF BookTxn
<1>2. QED
  BY <1>1 DEF BookTxn

LEMMA ChangeTxnOn ==
  ASSUME NEW t \in ChangeTxn,
         NEW s \in {"changeGuard", "changeLock", "changeCount", "changeWrite"}
  PROVE  LET u == [t EXCEPT !.step = s] IN
         u \in ChangeTxn /\ u.step = s /\ u.booking = t.booking /\ u.zone = t.zone
<1>1. [t EXCEPT !.step = s] = [step |-> s, booking |-> t.booking, zone |-> t.zone]
  BY DEF ChangeTxn
<1>2. QED
  BY <1>1 DEF ChangeTxn

LEMMA PayTxnOn ==
  ASSUME NEW t \in PayTxn, NEW s \in {"payLock", "payCheck", "payInsert"}
  PROVE  LET u == [t EXCEPT !.step = s] IN
         /\ u \in PayTxn /\ u.step = s /\ u.kind = t.kind
         /\ u.booking = t.booking /\ u.amount = t.amount
<1>1. [t EXCEPT !.step = s] = [step |-> s, kind |-> t.kind, booking |-> t.booking,
                               workflow |-> t.workflow, amount |-> t.amount]
  BY DEF PayTxn
<1>2. QED
  BY <1>1 DEF PayTxn

-------------------------------------------------------------------------------
\* A step that writes no row: client c goes on, refuses or answers.
MayBe(c, t) ==
  \/ t.step \in {"idle", "reply", "confirmWrite", "payLock"}
  \/ t.step = "bookCount" /\ ZoneFree(t.zone)
  \/ t.step = "changeGuard" /\ BookingFree(t.booking) /\ Exists(t.booking)
  \/ /\ t.step = "bookInsert" /\ txn[c].step = "bookCount"
     /\ t.zone = txn[c].zone /\ ~Full(t.zone)
  \/ /\ t.step = "changeLock" /\ txn[c].step = "changeGuard"
     /\ t.booking = txn[c].booking /\ ~Session(t.booking)
  \/ /\ t.step = "changeCount" /\ txn[c].step = "changeLock"
     /\ t.booking = txn[c].booking /\ t.zone = txn[c].zone /\ ZoneFree(t.zone)
  \/ /\ t.step = "changeWrite" /\ txn[c].step = "changeCount"
     /\ t.booking = txn[c].booking /\ t.zone = txn[c].zone /\ ~Full(t.zone)
  \/ /\ t.step = "payCheck" /\ txn[c].step = "payLock" /\ t.kind = txn[c].kind
     /\ BookingFree(t.booking) /\ Exists(t.booking)
     /\ t.amount = Price[bookings[t.booking].zone]
  \/ /\ t.step = "payInsert" /\ txn[c].step = "payCheck"
     /\ t.kind = txn[c].kind /\ t.booking = txn[c].booking /\ t.amount = txn[c].amount
     /\ t.kind = "open" => ~Session(t.booking)

Quiet(c) ==
  /\ UNCHANGED <<bookings, payments>>
  /\ \E t : IsTxn(t) /\ MayBe(c, t) /\ txn' = [txn EXCEPT ![c] = t]

LEMMA RefuseIsQuiet ==
  ASSUME NEW c \in Clients, Refuse(c) \/ Return(c)
  PROVE  Quiet(c)
  BY DEF Refuse, Return, Goto, Quiet, MayBe, IsTxn, Idle

LEMMA AnswerIsQuiet ==
  ASSUME NEW c \in Clients, NEW code, Answer(c, code)
  PROVE  Quiet(c)
  BY DEF Answer, Goto, Quiet, MayBe, IsTxn

LEMMA BookQuiet ==
  ASSUME NEW c \in Clients, Shape
  PROVE  /\ \A v \in Vehicles, z \in Zones : BookLock(c, v, z) => Quiet(c)
         /\ BookCount(c) => Quiet(c)
<1>1. ASSUME NEW v \in Vehicles, NEW z \in Zones, BookLock(c, v, z) PROVE Quiet(c)
  BY <1>1 DEF BookLock, Goto, Quiet, MayBe, IsTxn, BookTxn
<1>2. ASSUME BookCount(c), ~Full(txn[c].zone) PROVE Quiet(c)
  <2>1. txn[c] \in BookTxn
    BY <1>2, TxnAt DEF BookCount, Shape
  <2>2. AtStep(c, "bookInsert") \in BookTxn /\ AtStep(c, "bookInsert").step = "bookInsert"
        /\ AtStep(c, "bookInsert").zone = txn[c].zone
    BY <2>1, BookingTxnOn DEF AtStep
  <2>3. MayBe(c, AtStep(c, "bookInsert"))
    BY <1>2, <2>2 DEF MayBe, BookCount
  <2>4. QED
    BY <1>2, <2>2, <2>3 DEF BookCount, Advance, Goto, Quiet, IsTxn
<1>3. QED
  BY <1>1, <1>2, RefuseIsQuiet DEF BookCount

LEMMA ChangeQuiet ==
  ASSUME NEW c \in Clients, Shape
  PROVE  /\ \A b \in BookingIds, z \in Zones : ChangeLock(c, b, z) => Quiet(c)
         /\ ChangeGuard(c) \/ ChangeLockZone(c) \/ ChangeCount(c) => Quiet(c)
<1>1. ASSUME NEW b \in BookingIds, NEW z \in Zones, ChangeLock(c, b, z) PROVE Quiet(c)
  BY <1>1 DEF ChangeLock, Goto, Quiet, MayBe, IsTxn, ChangeTxn
<1>2. ASSUME NEW s \in {"changeLock", "changeCount", "changeWrite"}, Advance(c, s),
             txn[c].step \in {"changeGuard", "changeLock", "changeCount"},
             s = "changeLock" => txn[c].step = "changeGuard" /\ ~Session(txn[c].booking),
             s = "changeCount" => txn[c].step = "changeLock" /\ ZoneFree(txn[c].zone),
             s = "changeWrite" => txn[c].step = "changeCount" /\ ~Full(txn[c].zone)
      PROVE  Quiet(c)
  <2>1. txn[c] \in ChangeTxn
    BY <1>2, TxnAt DEF Shape
  <2> DEFINE t == AtStep(c, s)
  <2>2. t \in ChangeTxn /\ t.step = s /\ t.booking = txn[c].booking /\ t.zone = txn[c].zone
    <3>1. s \in {"changeGuard", "changeLock", "changeCount", "changeWrite"}
      OBVIOUS
    <3>2. QED
      BY <2>1, <3>1, ChangeTxnOn, Zenon DEF AtStep
  <2>3. txn' = [txn EXCEPT ![c] = t] /\ UNCHANGED <<bookings, payments>>
    BY <1>2 DEF Advance, Goto
  <2> HIDE DEF t
  <2>4. MayBe(c, t)
    BY <1>2, <2>2 DEF MayBe
  <2>5. QED
    BY <2>2, <2>3, <2>4 DEF Quiet, IsTxn
<1>3. QED
  BY <1>1, <1>2, RefuseIsQuiet DEF ChangeGuard, ChangeLockZone, ChangeCount

LEMMA PayQuiet ==
  ASSUME NEW c \in Clients, Shape, LedgerAssumptions
  PROVE  /\ \A kind \in {"pay", "open"}, w \in Workflows, b \in BookingIds, z \in Zones :
              PayLookup(c, kind, w, b, Price[z]) => Quiet(c)
         /\ PayLock(c) \/ PayCheck(c) => Quiet(c)
<1>1. ASSUME NEW kind \in {"pay", "open"}, NEW w \in Workflows, NEW b \in BookingIds,
             NEW z \in Zones, PayLookup(c, kind, w, b, Price[z])
      PROVE  Quiet(c)
  BY <1>1 DEF PayLookup, Goto, Quiet, MayBe, IsTxn, PayTxn, Amounts, LedgerAssumptions
<1>2. ASSUME NEW s \in {"payCheck", "payInsert"}, Advance(c, s),
             txn[c].step \in {"payLock", "payCheck"},
             s = "payCheck" => /\ txn[c].step = "payLock"
                               /\ BookingFree(txn[c].booking) /\ Exists(txn[c].booking)
                               /\ txn[c].amount = Price[bookings[txn[c].booking].zone],
             s = "payInsert" => /\ txn[c].step = "payCheck"
                                /\ ~(txn[c].kind = "open" /\ Session(txn[c].booking))
      PROVE  Quiet(c)
  <2>1. txn[c] \in PayTxn
    BY <1>2, TxnAt DEF Shape
  <2> DEFINE t == AtStep(c, s)
  <2>2. /\ t \in PayTxn /\ t.step = s /\ t.kind = txn[c].kind
        /\ t.booking = txn[c].booking /\ t.amount = txn[c].amount
    <3>1. s \in {"payLock", "payCheck", "payInsert"}
      OBVIOUS
    <3>2. QED
      BY <2>1, <3>1, PayTxnOn, ZenonT(60) DEF AtStep
  <2>3. txn' = [txn EXCEPT ![c] = t] /\ UNCHANGED <<bookings, payments>>
    BY <1>2 DEF Advance, Goto
  <2> HIDE DEF t
  <2>4. MayBe(c, t)
    BY <1>2, <2>2 DEF MayBe
  <2>5. QED
    BY <2>2, <2>3, <2>4 DEF Quiet, IsTxn
<1>3. ASSUME PayCheck(c), Answer(c, "PAYMENT_ALREADY_COMPLETED") PROVE Quiet(c)
  BY <1>3, AnswerIsQuiet
<1>4. QED
  BY <1>1, <1>2, <1>3, RefuseIsQuiet DEF PayLock, PayCheck

-------------------------------------------------------------------------------
(* The steps that write a row. *)

Finish(c) == txn' = [txn EXCEPT ![c] = Idle]

\* No row of payments becomes a session, and a row that changes is a row still.
NoNewSession ==
  /\ Table(payments')
  /\ \A p \in PaymentIds :
       \/ payments'[p] = payments[p]
       \/ Row(payments'[p]) /\ payments'[p].status # "PENDING"

Inserts(b, z, checked) ==
  /\ bookings[b] = NoBooking
  /\ \E r \in Booking : /\ r.zone = z /\ r.checked = checked
                        /\ bookings' = [bookings EXCEPT ![b] = r]
  /\ UNCHANGED payments

\* change_booking_zone commits.
Moves(c) ==
  /\ txn[c].step = "changeWrite"
  /\ \E r \in Booking : /\ r.zone = txn[c].zone
                        /\ bookings' = [bookings EXCEPT ![txn[c].booking] = r]
  /\ NoNewSession /\ Finish(c)

\* A booking that nobody holds is cancelled or deleted.
Withdraws(b) ==
  /\ BookingFree(b) /\ bookings[b] # NoBooking
  /\ \E r \in Booking : /\ r.zone = bookings[b].zone /\ r.status # "ACTIVE"
                        /\ bookings' = [bookings EXCEPT ![b] = r]
  /\ NoNewSession /\ UNCHANGED txn

RowsOnly == UNCHANGED bookings /\ NoNewSession

\* create_pending_payment commits.
Opens(c) ==
  /\ txn[c].step = "payInsert" /\ txn[c].kind = "open"
  /\ UNCHANGED bookings
  /\ \E p \in PaymentIds :
       /\ payments[p] = NoPayment
       /\ payments' = [payments EXCEPT ![p] =
            [status |-> "PENDING", booking |-> txn[c].booking,
             amount |-> txn[c].amount, workflow |-> txn[c].workflow]]
  /\ Finish(c)

Step ==
  \/ \E c \in Clients : \/ Quiet(c)
                        \/ Moves(c)
                        \/ Opens(c)
                        \/ RowsOnly /\ Finish(c)
                        \/ /\ txn[c].step = "bookInsert" /\ Finish(c)
                           /\ \E b \in BookingIds : Inserts(b, txn[c].zone, TRUE)
  \/ UNCHANGED txn /\ \E b \in BookingIds, z \in Zones : Inserts(b, z, FALSE)
  \/ \E b \in BookingIds : Withdraws(b)
  \/ RowsOnly /\ UNCHANGED txn

LEMMA RowIs ==
  ASSUME NEW s, NEW b \in BookingIds, NEW a, NEW w, s # "NONE"
  PROVE  Row([status |-> s, booking |-> b, amount |-> a, workflow |-> w])
  BY DEF Row

LEMMA StatusSet ==
  ASSUME NEW q, NEW b, NEW a, NEW w, NEW s, NEW r,
         r = [status |-> q, booking |-> b, amount |-> a, workflow |-> w]
  PROVE  [r EXCEPT !.status = s] = [status |-> s, booking |-> b, amount |-> a, workflow |-> w]
  OBVIOUS

LEMMA RowWith ==
  ASSUME NEW r, Row(r), NEW s, s # "NONE"
  PROVE  Row([r EXCEPT !.status = s]) /\ [r EXCEPT !.status = s].status = s
<1> DEFINE b == r.booking
           a == r.amount
           w == r.workflow
           q == r.status
<1>1. r = [status |-> q, booking |-> b, amount |-> a, workflow |-> w] /\ b \in BookingIds
  BY DEF Row
<1> HIDE DEF a, b, w, q
<1>2. [r EXCEPT !.status = s] = [status |-> s, booking |-> b, amount |-> a, workflow |-> w]
  BY <1>1, StatusSet
<1>3. QED
  BY <1>1, <1>2, RowIs

LEMMA RowPut ==
  ASSUME Shape, NEW p \in PaymentIds, NEW r, payments' = [payments EXCEPT ![p] = r]
  PROVE  Table(payments') /\ \A q \in PaymentIds : payments'[q] = IF q = p THEN r ELSE payments[q]
<1>1. PICK S : payments \in [PaymentIds -> S]
  BY DEF Shape, Table
<1>2. payments' \in [PaymentIds -> S \cup {r}]
  BY <1>1
<1>3. QED
  BY <1>1, <1>2 DEF Table

LEMMA SameRows == ASSUME Shape, UNCHANGED payments PROVE NoNewSession
  BY DEF Shape, NoNewSession

LEMMA InsertStep ==
  ASSUME NEW v \in Vehicles, NEW z \in Zones, NEW k \in BOOLEAN, InsertBooking(v, z, k), UNCHANGED payments
  PROVE  UNCHANGED bookings \/ \E b \in BookingIds : Inserts(b, z, k)
<1>1. CASE UNCHANGED bookings
  BY <1>1
<1>2. CASE \E b \in BookingIds :
             /\ NextBooking(b)
             /\ bookings' = [bookings EXCEPT ![b] = [status |-> "ACTIVE", vehicle |-> v, zone |-> z,
                                                  checked |-> k]]
  <2>1. PICK b \in BookingIds :
             /\ NextBooking(b)
             /\ bookings' = [bookings EXCEPT ![b] = [status |-> "ACTIVE", vehicle |-> v, zone |-> z,
                                                  checked |-> k]]
    BY <1>2
  <2> DEFINE r == [status |-> "ACTIVE", vehicle |-> v, zone |-> z, checked |-> k]
  <2>2. r \in Booking /\ r.zone = z /\ r.checked = k
    BY DEF Booking
  <2>3. QED
    BY <2>1, <2>2 DEF Inserts, NextBooking
<1>3. QED
  BY <1>1, <1>2 DEF InsertBooking

LEMMA SettleStep ==
  ASSUME Shape, NEW b \in BookingIds, NEW price, SettleDifference(b, price)
  PROVE  NoNewSession
<1>1. CASE UNCHANGED payments
  BY <1>1, SameRows
<1>2. ASSUME NEW p \in PaymentIds, NEW a,
             payments' = [payments EXCEPT ![p] =
               [status |-> "REFUNDED", booking |-> b, amount |-> a, workflow |-> "none"]]
      PROVE  NoNewSession
  <2> DEFINE r == [status |-> "REFUNDED", booking |-> b, amount |-> a, workflow |-> "none"]
  <2>1. Row(r) /\ r.status # "PENDING"
    BY RowIs
  <2>2. payments' = [payments EXCEPT ![p] = r]
    BY <1>2
  <2> HIDE DEF r
  <2>3. Table(payments') /\ \A q \in PaymentIds : payments'[q] = IF q = p THEN r ELSE payments[q]
    BY <2>2, RowPut
  <2>4. QED
    BY <2>1, <2>3 DEF NoNewSession
<1>3. QED
  BY <1>1, <1>2 DEF SettleDifference

LEMMA BookingWith ==
  ASSUME NEW r \in Booking, NEW z \in Zones, NEW s \in {"CANCELLED", "DELETED"}
  PROVE  /\ [r EXCEPT !.zone = z] \in Booking
         /\ [r EXCEPT !.zone = z].zone = z
         /\ [r EXCEPT !.status = s] \in Booking
         /\ [r EXCEPT !.status = s].zone = r.zone
         /\ [r EXCEPT !.status = s].status = s
<1>1. [r EXCEPT !.zone = z] = [status |-> r.status, vehicle |-> r.vehicle, zone |-> z, checked |-> r.checked]
  BY DEF Booking
<1>2. [r EXCEPT !.status = s] = [status |-> s, vehicle |-> r.vehicle, zone |-> r.zone, checked |-> r.checked]
  BY DEF Booking
<1>3. QED
  BY <1>1, <1>2 DEF Booking

LEMMA WithdrawStep ==
  ASSUME Shape, NEW b \in BookingIds, NEW s \in {"CANCELLED", "DELETED"},
         BookingFree(b), bookings[b] # NoBooking, NoNewSession, UNCHANGED txn,
         bookings' = [bookings EXCEPT ![b].status = s]
  PROVE  Withdraws(b)
<1> DEFINE r == [bookings[b] EXCEPT !.status = s]
<1>1. bookings[b] \in Booking
  BY DEF Shape
<1>2. bookings' = [bookings EXCEPT ![b] = r]
  OBVIOUS
<1>3. PICK z \in Zones : TRUE
  BY <1>1 DEF Booking
<1>4. r \in Booking /\ r.zone = bookings[b].zone /\ r.status = s
  BY <1>1, <1>3, BookingWith, Zenon
<1> HIDE DEF r
<1>5. QED
  BY <1>2, <1>4 DEF Withdraws

LEMMA StatusStep ==
  ASSUME Shape, NEW S \in SUBSET PaymentIds, NEW s \in {"PAID", "FAILED", "REFUNDED", "DELETED"},
         \A p \in S : payments[p] # NoPayment,
         payments' = [p \in PaymentIds |-> IF p \in S THEN [payments[p] EXCEPT !.status = s]
                                                      ELSE payments[p]]
  PROVE  NoNewSession
<1>1. Table(payments')
  <2>1. payments' \in [PaymentIds -> {payments'[p] : p \in PaymentIds}]
    OBVIOUS
  <2>2. QED
    BY <2>1 DEF Table
<1>2. ASSUME NEW p \in S
      PROVE  Row(payments'[p]) /\ payments'[p].status # "PENDING"
  <2>1. Row(payments[p]) /\ payments'[p] = [payments[p] EXCEPT !.status = s]
    BY <1>2 DEF Shape
  <2>2. QED
    BY <2>1, RowWith
<1>3. QED
  BY <1>1, <1>2 DEF NoNewSession

LEMMA LiveRows ==
  ASSUME NEW b \in BookingIds, NEW S \in SUBSET LiveStatuses, NEW p \in Rows(b, S)
  PROVE  p \in PaymentIds /\ payments[p] # NoPayment
  BY DEF Rows, LiveStatuses, NoPayment

LEMMA OneStatusStep ==
  ASSUME Shape, NEW p \in PaymentIds, NEW s \in {"PAID", "FAILED"},
         payments[p].status = "PENDING", payments' = [payments EXCEPT ![p].status = s]
  PROVE  NoNewSession
<1> DEFINE r == [payments[p] EXCEPT !.status = s]
<1>1. Row(payments[p])
  BY DEF Shape, NoPayment
<1>2. Row(r) /\ r.status # "PENDING"
  BY <1>1, RowWith
<1>3. payments' = [payments EXCEPT ![p] = r]
  OBVIOUS
<1> HIDE DEF r
<1>4. Table(payments') /\ \A q \in PaymentIds : payments'[q] = IF q = p THEN r ELSE payments[q]
  BY <1>3, RowPut
<1>5. QED
  BY <1>2, <1>4 DEF NoNewSession

LEMMA BookWrites ==
  ASSUME Shape, NEW c \in Clients
  PROVE  BookInsert(c) => Step
<1> SUFFICES ASSUME BookInsert(c) PROVE Step
  OBVIOUS
<1>1. txn[c].vehicle \in Vehicles /\ txn[c].zone \in Zones
  BY TxnAt DEF BookInsert, Shape, BookTxn
<1>2. UNCHANGED bookings \/ \E b \in BookingIds : Inserts(b, txn[c].zone, TRUE)
  BY <1>1, InsertStep DEF BookInsert
<1>3. QED
  BY <1>2, SameRows DEF BookInsert, Goto, Step, Finish, RowsOnly

LEMMA ChangeWrites ==
  ASSUME Shape, NEW c \in Clients, ChangeWrite(c)
  PROVE  Step
<1> DEFINE b == txn[c].booking
           z == txn[c].zone
           r == [bookings[b] EXCEPT !.zone = z]
<1>1. CASE Refuse(c)
  BY <1>1, RefuseIsQuiet DEF Step
<1>2. CASE /\ bookings' = [bookings EXCEPT ![b].zone = z]
           /\ SettleDifference(b, Price[z])
           /\ Goto(c, Idle)
  <2>1. b \in BookingIds /\ z \in Zones
    BY TxnAt DEF ChangeWrite, Shape, ChangeTxn
  <2>2. bookings[b] \in Booking
    BY <2>1 DEF ChangeWrite, Shape, HoldsBooking
  <2>3. r \in Booking /\ r.zone = z
    BY <2>1, <2>2, BookingWith, Zenon
  <2>4. bookings' = [bookings EXCEPT ![b] = r]
    BY <1>2
  <2>5. NoNewSession
    BY <1>2, <2>1, SettleStep
  <2>6. txn[c].step = "changeWrite" /\ Finish(c)
    BY <1>2 DEF ChangeWrite, Goto, Finish
  <2> HIDE DEF r
  <2>7. Moves(c)
    BY <2>3, <2>4, <2>5, <2>6 DEF Moves
  <2>8. QED
    BY <2>7 DEF Step
<1>3. QED
  BY <1>1, <1>2 DEF ChangeWrite

LEMMA CancelWrites ==
  ASSUME Shape, NEW b \in BookingIds, CancelParking(b)
  PROVE  Step
<1>1. NoNewSession
  BY SettleStep, SameRows DEF CancelParking
<1>2. bookings[b] # NoBooking
  BY DEF CancelParking, NoBooking
<1>3. Withdraws(b)
  BY <1>1, <1>2, WithdrawStep DEF CancelParking
<1>4. QED
  BY <1>3 DEF Step

LEMMA DeleteRows ==
  ASSUME Shape, NEW b \in BookingIds, DeleteBooking(b)
  PROVE  NoNewSession
<1> DEFINE S == Rows(b, LiveStatuses \ {"PAID"})
<1>1. S \in SUBSET PaymentIds /\ \A p \in S : payments[p] # NoPayment
  BY LiveRows DEF Rows
<1>2. payments' = [p \in PaymentIds |-> IF p \in S THEN [payments[p] EXCEPT !.status = "DELETED"]
                                                  ELSE payments[p]]
  BY DEF DeleteBooking
<1> HIDE DEF S
<1>3. QED
  BY <1>1, <1>2, StatusStep

LEMMA DeleteWrites ==
  ASSUME Shape, NEW b \in BookingIds, DeleteBooking(b)
  PROVE  Step
<1>1. NoNewSession
  BY DeleteRows
<1>2. bookings[b] # NoBooking
  BY DEF DeleteBooking, Exists, NoBooking
<1>3. CASE Paid(b)
  BY <1>1, <1>3 DEF DeleteBooking, Step, RowsOnly
<1>4. CASE ~Paid(b)
  <2>1. bookings' = [bookings EXCEPT ![b].status = "DELETED"] /\ UNCHANGED txn /\ BookingFree(b)
    BY <1>4 DEF DeleteBooking
  <2>2. Withdraws(b)
    BY <1>1, <1>2, <2>1, WithdrawStep
  <2>3. QED
    BY <2>2 DEF Step
<1>5. QED
  BY <1>3, <1>4

LEMMA RefundWrites ==
  ASSUME Shape, NEW b \in BookingIds, RefundPayment(b)
  PROVE  Step
<1> DEFINE S == Rows(b, {"PAID"})
<1>1. S \in SUBSET PaymentIds /\ \A p \in S : payments[p] # NoPayment
  BY LiveRows DEF Rows, LiveStatuses
<1>2. payments' = [p \in PaymentIds |-> IF p \in S THEN [payments[p] EXCEPT !.status = "REFUNDED"]
                                                  ELSE payments[p]]
  BY DEF RefundPayment
<1> HIDE DEF S
<1>3. NoNewSession
  BY <1>1, <1>2, StatusStep
<1>4. QED
  BY <1>3 DEF RefundPayment, Step, RowsOnly

LEMMA SessionWrites ==
  ASSUME Shape, NEW p \in PaymentIds
  PROVE  /\ \A c \in Clients : ConfirmWrite(c) => Step
         /\ \A c \in Clients : ConfirmRead(c, p) => Step
         /\ ExpireSession(p) => Step
<1>1. ASSUME ExpireSession(p) PROVE Step
  BY <1>1, OneStatusStep DEF ExpireSession, Step, RowsOnly
<1>2. ASSUME NEW c \in Clients, ConfirmRead(c, p) PROVE Step
  <2>1. Quiet(c)
    BY <1>2 DEF ConfirmRead, Goto, Quiet, MayBe, IsTxn, ConfirmTxn
  <2>2. QED
    BY <2>1 DEF Step
<1>3. ASSUME NEW c \in Clients, ConfirmWrite(c) PROVE Step
  <2> DEFINE q == txn[c].payment
  <2>1. q \in PaymentIds
    BY <1>3, TxnAt DEF ConfirmWrite, Shape, ConfirmTxn
  <2>2. CASE /\ payments[q].status = "PENDING"
             /\ payments' = [payments EXCEPT ![q].status = "PAID"]
             /\ Goto(c, Idle) /\ UNCHANGED bookings
    <3>1. NoNewSession
      BY <2>1, <2>2, OneStatusStep
    <3>2. QED
      BY <2>2, <3>1 DEF Step, RowsOnly, Finish, Goto
  <2>3. CASE Refuse(c)
    BY <2>3, RefuseIsQuiet DEF Step
  <2>4. CASE /\ UNCHANGED <<bookings, payments>>
             /\ Goto(c, [step |-> "reply", code |-> "ALREADY_CONFIRMED",
                         booking |-> payments[q].booking, workflow |-> payments[q].workflow])
    <3>1. Quiet(c)
      BY <2>4 DEF Goto, Quiet, MayBe, IsTxn
    <3>2. QED
      BY <3>1 DEF Step
  <2>5. QED
    BY <1>3, <2>2, <2>3, <2>4 DEF ConfirmWrite
<1>4. QED
  BY <1>1, <1>2, <1>3

LEMMA PayWrites ==
  ASSUME Shape, NEW c \in Clients, PayInsert(c)
  PROVE  Step
<1> DEFINE b == txn[c].booking
<1>1. b \in BookingIds /\ txn[c].kind \in {"pay", "open"} /\ txn[c].step = "payInsert"
  BY TxnAt DEF PayInsert, Shape, PayTxn
<1>2. CASE Refuse(c)
  BY <1>2, RefuseIsQuiet DEF Step
<1>3. CASE /\ \E p \in PaymentIds :
                /\ NextPayment(p)
                /\ payments' = [payments EXCEPT ![p] =
                     [status |-> IF txn[c].kind = "pay" THEN "PAID" ELSE "PENDING",
                      booking |-> b, amount |-> txn[c].amount, workflow |-> txn[c].workflow]]
           /\ Goto(c, Idle) /\ UNCHANGED bookings
  <2>1. CASE txn[c].kind = "open"
    <3>1. Opens(c)
      BY <1>1, <1>3, <2>1 DEF Opens, Finish, Goto, NextPayment
    <3>2. QED
      BY <3>1 DEF Step
  <2>2. CASE txn[c].kind = "pay"
    <3> DEFINE r == [status |-> "PAID", booking |-> b, amount |-> txn[c].amount,
                     workflow |-> txn[c].workflow]
    <3>1. PICK p \in PaymentIds : payments' = [payments EXCEPT ![p] = r]
      BY <1>3, <2>2
    <3>2. Row(r) /\ r.status # "PENDING"
      BY <1>1, RowIs
    <3> HIDE DEF r
    <3>3. Table(payments') /\ \A q \in PaymentIds : payments'[q] = IF q = p THEN r ELSE payments[q]
      BY <3>1, RowPut
    <3>4. NoNewSession
      BY <3>2, <3>3 DEF NoNewSession
    <3>5. QED
      BY <1>3, <3>4 DEF Step, RowsOnly, Finish, Goto
  <2>3. QED
    BY <1>1, <2>1, <2>2
<1>4. QED
  BY <1>2, <1>3 DEF PayInsert

\* Every step is a quiet one or writes as one of the transactions above does.
LEMMA EveryStep ==
  ASSUME Shape, LedgerAssumptions, [Next]_vars
  PROVE  Step
<1>1. CASE UNCHANGED vars
  BY <1>1, SameRows DEF vars, Step, RowsOnly
<1>2. ASSUME NEW c \in Clients, Statement(c) PROVE Step
  <2>1. CASE BookCount(c) \/ ChangeGuard(c) \/ ChangeLockZone(c) \/ ChangeCount(c)
             \/ PayLock(c) \/ PayCheck(c) \/ Return(c)
    <3>1. Quiet(c)
      BY <2>1, BookQuiet, ChangeQuiet, PayQuiet, RefuseIsQuiet
    <3>2. QED
      BY <3>1 DEF Step
  <2>2. CASE BookInsert(c) \/ ChangeWrite(c) \/ PayInsert(c)
    BY <2>2, BookWrites, ChangeWrites, PayWrites
  <2>3. ASSUME ConfirmWrite(c) PROVE Step
    <3>1. txn[c].payment \in PaymentIds
      BY <2>3, TxnAt DEF ConfirmWrite, Shape, ConfirmTxn
    <3>2. QED
      BY <2>3, <3>1, SessionWrites
  <2>4. QED
    BY <1>2, <2>1, <2>2, <2>3 DEF Statement
<1>3. ASSUME NEW c \in Clients,
             \/ \E v \in Vehicles, z \in Zones : BookLock(c, v, z)
             \/ \E b \in BookingIds, z \in Zones : ChangeLock(c, b, z)
             \/ \E kind \in {"pay", "open"}, w \in Workflows, b \in BookingIds, z \in Zones :
                  PayLookup(c, kind, w, b, Price[z])
      PROVE  Step
  <2>1. Quiet(c)
    BY <1>3, BookQuiet, ChangeQuiet, PayQuiet
  <2>2. QED
    BY <2>1 DEF Step
<1>4. ASSUME NEW c \in Clients, NEW p \in PaymentIds, ConfirmRead(c, p) PROVE Step
  BY <1>4, SessionWrites
<1>5. ASSUME NEW v \in Vehicles, NEW z \in Zones, BookApproved(v, z) PROVE Step
  BY <1>5, InsertStep, SameRows DEF BookApproved, Step, RowsOnly
<1>6. ASSUME NEW b \in BookingIds, CancelParking(b) \/ RefundPayment(b) \/ DeleteBooking(b)
      PROVE  Step
  BY <1>6, CancelWrites, RefundWrites, DeleteWrites
<1>7. ASSUME NEW p \in PaymentIds, ExpireSession(p) PROVE Step
  BY <1>7, SessionWrites
<1>8. CASE WindowCloses
  BY <1>8, SameRows DEF WindowCloses, Step, RowsOnly
<1>9. QED
  BY <1>1, <1>2, <1>3, <1>4, <1>5, <1>6, <1>7, <1>8 DEF Next

-------------------------------------------------------------------------------
(* The shape of the rows, and the locks. *)

\* One client moves, and a booking keeps its row.
LEMMA OneMoves ==
  ASSUME Shape, LedgerAssumptions, [Next]_vars, NEW c \in Clients, NEW d \in Clients,
         txn'[c] # txn[c], txn'[d] # txn[d]
  PROVE  c = d
<1>1. Step
  BY EveryStep
<1>2. CASE UNCHANGED txn
  BY <1>2
<1>3. CASE \E e \in Clients : \E t : txn' = [txn EXCEPT ![e] = t]
  BY <1>3 DEF Shape
<1>4. QED
  BY <1>1, <1>2, <1>3 DEF Step, Quiet, Moves, Opens, Finish, Withdraws

\* After a step, a transaction is as it was, over, or where MayBe allows.
LEMMA TxnStep ==
  ASSUME Shape, LedgerAssumptions, [Next]_vars, NEW c \in Clients
  PROVE  /\ \/ txn'[c] = txn[c]
            \/ txn'[c] = Idle
            \/ /\ UNCHANGED <<bookings, payments>>
               /\ IsTxn(txn'[c]) /\ MayBe(c, txn'[c])
         /\ \E S : txn' \in [Clients -> S]
<1>1. PICK S : txn \in [Clients -> S]
  BY DEF Shape
<1>2. Step
  BY EveryStep
<1>3. CASE UNCHANGED txn
  BY <1>1, <1>3
<1>4. CASE \E e \in Clients : Finish(e)
  <2>1. PICK e \in Clients : txn' = [txn EXCEPT ![e] = Idle]
    BY <1>4 DEF Finish
  <2>2. txn' \in [Clients -> S \cup {Idle}]
    BY <1>1, <2>1
  <2>3. QED
    BY <1>1, <2>1, <2>2
<1>5. CASE \E e \in Clients : Quiet(e)
  <2>1. PICK e \in Clients : Quiet(e)
    BY <1>5
  <2>2. PICK t : /\ UNCHANGED <<bookings, payments>>
                 /\ IsTxn(t) /\ MayBe(e, t) /\ txn' = [txn EXCEPT ![e] = t]
    BY <2>1 DEF Quiet
  <2>3. txn' \in [Clients -> S \cup {t}]
    BY <1>1, <2>2
  <2>4. QED
    BY <1>1, <2>2, <2>3
<1>6. QED
  BY <1>2, <1>3, <1>4, <1>5 DEF Step, Moves, Opens, Withdraws

LEMMA Acquires ==
  ASSUME Shape, LedgerAssumptions, [Next]_vars, NEW c \in Clients, NEW b \in BookingIds,
         HoldsBooking(c, b)', ~HoldsBooking(c, b)
  PROVE  BookingFree(b) /\ Exists(b) /\ txn'[c] # txn[c] /\ UNCHANGED bookings
<1>1. txn'[c] # txn[c] /\ txn'[c] # Idle
  BY DEF HoldsBooking, Idle
<1>2. UNCHANGED bookings /\ MayBe(c, txn'[c])
  BY <1>1, TxnStep
<1>3. QED
  BY <1>1, <1>2 DEF MayBe, HoldsBooking

LEMMA AcquiresZone ==
  ASSUME Shape, LedgerAssumptions, [Next]_vars, NEW c \in Clients, NEW z \in Zones,
         HoldsZone(c, z)', ~HoldsZone(c, z)
  PROVE  ZoneFree(z) /\ txn'[c] # txn[c]
<1>1. txn'[c] # txn[c] /\ txn'[c] # Idle
  BY DEF HoldsZone, Idle
<1>2. MayBe(c, txn'[c])
  BY <1>1, TxnStep
<1>3. QED
  BY <1>1, <1>2 DEF MayBe, HoldsZone

LEMMA BookingStep ==
  ASSUME Shape, LedgerAssumptions, [Next]_vars
  PROVE  /\ bookings' \in [BookingIds -> Booking \cup {NoBooking}]
         /\ \A b \in BookingIds : bookings[b] # NoBooking => bookings'[b] # NoBooking
<1>1. NoBooking \notin Booking
  BY DEF NoBooking, Booking
<1>2. Step
  BY EveryStep
<1>3. CASE UNCHANGED bookings
  BY <1>3 DEF Shape
<1>4. CASE \E b \in BookingIds, r \in Booking : bookings' = [bookings EXCEPT ![b] = r]
  BY <1>1, <1>4 DEF Shape
<1>5. ASSUME NEW c \in Clients, Moves(c)
      PROVE  \E b \in BookingIds, r \in Booking : bookings' = [bookings EXCEPT ![b] = r]
  <2>1. txn[c].booking \in BookingIds
    BY <1>5, TxnAt DEF Moves, Shape, ChangeTxn
  <2>2. QED
    BY <1>5, <2>1 DEF Moves
<1>6. QED
  BY <1>2, <1>3, <1>4, <1>5 DEF Step, Quiet, Opens, Inserts, Withdraws, RowsOnly

LEMMA PaymentStep ==
  ASSUME Shape, LedgerAssumptions, [Next]_vars
  PROVE  NoNewSession \/ \E c \in Clients : Opens(c)
  BY EveryStep, SameRows DEF Step, Quiet, Moves, Withdraws, RowsOnly, Inserts

LEMMA ShapeStep ==
  ASSUME Shape, LedgerAssumptions, [Next]_vars
  PROVE  Shape'
<1>1. bookings' \in [BookingIds -> Booking \cup {NoBooking}]
  BY BookingStep
<1>2. (\E S : txn' \in [Clients -> S]) /\ \A c \in Clients : IsTxn(txn'[c])
  <2>1. CASE \E c \in Clients : TRUE
    BY <2>1, TxnStep DEF Shape, IsTxn
  <2>2. CASE ~\E c \in Clients : TRUE
    <3>1. UNCHANGED txn
      BY <2>2, EveryStep DEF Step, Withdraws
    <3>2. QED
      BY <3>1 DEF Shape
  <2>3. QED
    BY <2>1, <2>2
<1>3. Table(payments') /\ \A p \in PaymentIds : payments'[p] = NoPayment \/ Row(payments'[p])
  <2>1. CASE NoNewSession
    BY <2>1 DEF Shape, NoNewSession
  <2>2. ASSUME NEW c \in Clients, Opens(c)
        PROVE  Table(payments') /\ \A p \in PaymentIds : payments'[p] = NoPayment \/ Row(payments'[p])
    <3> DEFINE r == [status |-> "PENDING", booking |-> txn[c].booking,
                     amount |-> txn[c].amount, workflow |-> txn[c].workflow]
    <3>1. txn[c].booking \in BookingIds
      BY <2>2, TxnAt DEF Opens, Shape, PayTxn
    <3>2. Row(r)
      BY <3>1, RowIs
    <3>3. PICK p \in PaymentIds : payments' = [payments EXCEPT ![p] = r]
      BY <2>2 DEF Opens
    <3> HIDE DEF r
    <3>4. Table(payments') /\ \A q \in PaymentIds : payments'[q] = IF q = p THEN r ELSE payments[q]
      BY <3>3, RowPut
    <3>5. QED
      BY <3>2, <3>4 DEF Shape
  <2>3. QED
    BY <2>1, <2>2, PaymentStep
<1>4. ASSUME NEW c \in Clients, NEW b \in BookingIds, HoldsBooking(c, b)'
      PROVE  bookings'[b] # NoBooking
  <2>1. bookings[b] # NoBooking
    BY <1>4, Acquires DEF Shape, Exists, NoBooking
  <2>2. QED
    BY <2>1, BookingStep
<1>5. QED
  BY <1>1, <1>2, <1>3, <1>4 DEF Shape

Locked ==
  /\ \A c, d \in Clients, b \in BookingIds : HoldsBooking(c, b) /\ HoldsBooking(d, b) => c = d
  /\ \A c, d \in Clients, z \in Zones : HoldsZone(c, z) /\ HoldsZone(d, z) => c = d

LEMMA LockedStep ==
  ASSUME Shape, Locked, LedgerAssumptions, [Next]_vars
  PROVE  Locked'
<1>1. ASSUME NEW c \in Clients, NEW d \in Clients, NEW b \in BookingIds,
             HoldsBooking(c, b)', HoldsBooking(d, b)'
      PROVE  c = d
  <2>1. CASE HoldsBooking(c, b) /\ HoldsBooking(d, b)
    BY <2>1 DEF Locked
  <2>2. CASE ~HoldsBooking(c, b) /\ ~HoldsBooking(d, b)
    BY <1>1, <2>2, Acquires, OneMoves
  <2>3. QED
    BY <1>1, <2>1, <2>2, Acquires DEF BookingFree
<1>2. ASSUME NEW c \in Clients, NEW d \in Clients, NEW z \in Zones,
             HoldsZone(c, z)', HoldsZone(d, z)'
      PROVE  c = d
  <2>1. CASE HoldsZone(c, z) /\ HoldsZone(d, z)
    BY <2>1 DEF Locked
  <2>2. CASE ~HoldsZone(c, z) /\ ~HoldsZone(d, z)
    BY <1>2, <2>2, AcquiresZone, OneMoves
  <2>3. QED
    BY <1>2, <2>1, <2>2, AcquiresZone DEF ZoneFree
<1>3. QED
  BY <1>1, <1>2 DEF Locked

-------------------------------------------------------------------------------
(* A place is given once: who may write has counted under the zone's lock. *)

Counted ==
  \A c \in Clients : txn[c].step \in {"bookInsert", "changeWrite"}
    => Cardinality(Checked(txn[c].zone)) < Capacity[txn[c].zone]

LEMMA CheckedStep ==
  ASSUME Shape, LedgerAssumptions, [Next]_vars, NEW z \in Zones
  PROVE  \/ Checked(z)' \subseteq Checked(z)
         \/ \E c \in Clients, b \in BookingIds :
              /\ txn[c].step \in {"bookInsert", "changeWrite"} /\ txn[c].zone = z
              /\ txn'[c] = Idle
              /\ Checked(z)' \subseteq Checked(z) \cup {b}
<1>1. Step
  BY EveryStep
<1>2. CASE UNCHANGED bookings
  BY <1>2 DEF Checked, Active
<1>3. ASSUME NEW b \in BookingIds, Withdraws(b) PROVE Checked(z)' \subseteq Checked(z)
  BY <1>3 DEF Withdraws, Checked, Active, Shape
<1>4. ASSUME NEW c \in Clients, NEW b \in BookingIds, NEW r \in Booking, Finish(c),
             txn[c].step \in {"bookInsert", "changeWrite"},
             r.zone = txn[c].zone, bookings' = [bookings EXCEPT ![b] = r]
      PROVE  \/ Checked(z)' \subseteq Checked(z)
             \/ \E e \in Clients, a \in BookingIds :
                  /\ txn[e].step \in {"bookInsert", "changeWrite"} /\ txn[e].zone = z
                  /\ txn'[e] = Idle
                  /\ Checked(z)' \subseteq Checked(z) \cup {a}
  <2>1. Checked(z)' \subseteq IF txn[c].zone = z THEN Checked(z) \cup {b} ELSE Checked(z)
    BY <1>4 DEF Checked, Active, Shape
  <2>2. txn'[c] = Idle
    BY <1>4 DEF Finish, Shape
  <2>3. QED
    BY <1>4, <2>1, <2>2
<1>5. ASSUME NEW c \in Clients, Moves(c) PROVE txn[c].booking \in BookingIds
  BY <1>5, TxnAt DEF Moves, Shape, ChangeTxn
<1>6. ASSUME NEW b \in BookingIds, NEW a \in Zones, Inserts(b, a, FALSE)
      PROVE  Checked(z)' \subseteq Checked(z)
  BY <1>6 DEF Inserts, Checked, Active, Shape
<1>7. QED
  BY <1>1, <1>2, <1>3, <1>4, <1>5, <1>6 DEF Step, Quiet, Opens, Moves, Inserts, RowsOnly

LEMMA CheckedFinite ==
  ASSUME LedgerAssumptions, NEW z
  PROVE  /\ IsFiniteSet(Checked(z)) /\ Cardinality(Checked(z)) \in Nat
         /\ \A S : S \subseteq Checked(z) => Cardinality(S) <= Cardinality(Checked(z))
         /\ \A S, b : S \subseteq Checked(z) \cup {b} => Cardinality(S) <= Cardinality(Checked(z)) + 1
<1>1. IsFiniteSet(Checked(z))
  BY FS_Subset DEF Checked, Active, LedgerAssumptions
<1>2. Cardinality(Checked(z)) \in Nat
  BY <1>1, FS_CardinalityType
<1>3. ASSUME NEW S, S \subseteq Checked(z) PROVE Cardinality(S) <= Cardinality(Checked(z))
  BY <1>1, <1>3, FS_Subset
<1>4. ASSUME NEW S, NEW b, S \subseteq Checked(z) \cup {b}
      PROVE  Cardinality(S) <= Cardinality(Checked(z)) + 1
  <2>1. /\ IsFiniteSet(Checked(z) \cup {b})
        /\ Cardinality(Checked(z) \cup {b}) <= Cardinality(Checked(z)) + 1
    <3> DEFINE A == Checked(z)
    <3>1. IsFiniteSet(A) /\ Cardinality(A) \in Nat
      BY <1>1, <1>2
    <3> HIDE DEF A
    <3>2. IsFiniteSet(A \cup {b}) /\ (b \notin A => Cardinality(A \cup {b}) = Cardinality(A) + 1)
      BY <3>1, FS_AddElement
    <3>3. b \in A => A \cup {b} = A
      OBVIOUS
    <3>4. IsFiniteSet(A \cup {b}) /\ Cardinality(A \cup {b}) <= Cardinality(A) + 1
      BY <3>1, <3>2, <3>3
    <3>5. QED
      BY <3>4 DEF A
  <2>2. /\ Cardinality(S) <= Cardinality(Checked(z) \cup {b})
        /\ Cardinality(S) \in Nat /\ Cardinality(Checked(z) \cup {b}) \in Nat
    BY <1>4, <2>1, FS_Subset, FS_CardinalityType
  <2>3. QED
    BY <1>2, <2>1, <2>2
<1>5. QED
  BY <1>1, <1>2, <1>3, <1>4

LEMMA CapacityStep ==
  ASSUME Shape, Locked, Counted, CapacityHeld, LedgerAssumptions,
         [Next]_vars
  PROVE  CapacityHeld'
<1> SUFFICES ASSUME NEW z \in Zones PROVE Cardinality(Checked(z)') <= Capacity[z]
  BY DEF CapacityHeld
<1>1. Cardinality(Checked(z)) <= Capacity[z] /\ Cardinality(Checked(z)) \in Nat /\ Capacity[z] \in Nat
  BY CheckedFinite DEF CapacityHeld, LedgerAssumptions
<1>2. IsFiniteSet(Checked(z)') /\ Cardinality(Checked(z)') \in Nat
  BY FS_Subset, FS_CardinalityType DEF Checked, Active, LedgerAssumptions
<1>3. CASE Checked(z)' \subseteq Checked(z)
  BY <1>1, <1>2, <1>3, CheckedFinite
<1>4. CASE \E c \in Clients, b \in BookingIds :
             /\ txn[c].step \in {"bookInsert", "changeWrite"} /\ txn[c].zone = z
             /\ txn'[c] = Idle
             /\ Checked(z)' \subseteq Checked(z) \cup {b}
  <2>1. Cardinality(Checked(z)) < Capacity[z]
    BY <1>4 DEF Counted
  <2>2. Cardinality(Checked(z)') <= Cardinality(Checked(z)) + 1
    BY <1>4, CheckedFinite
  <2>3. QED
    BY <1>1, <1>2, <2>1, <2>2
<1>5. QED
  BY <1>3, <1>4, CheckedStep

LEMMA CountedStep ==
  ASSUME Shape, Locked, Counted, LedgerAssumptions, [Next]_vars
  PROVE  Counted'
<1>1. ASSUME NEW c \in Clients, txn'[c].step \in {"bookInsert", "changeWrite"}
      PROVE  txn'[c].zone \in Zones
  BY <1>1, ShapeStep, TxnAt DEF Shape, BookTxn, ChangeTxn
<1> SUFFICES ASSUME NEW c \in Clients, NEW z \in Zones,
                    txn'[c].step \in {"bookInsert", "changeWrite"}, txn'[c].zone = z
             PROVE  Cardinality(Checked(z)') < Capacity[z]
  BY <1>1 DEF Counted, Checked, Active
<1>2. Cardinality(Checked(z)) \in Nat /\ Capacity[z] \in Nat /\ Cardinality(Checked(z)') \in Nat
  BY CheckedFinite, FS_Subset, FS_CardinalityType DEF Checked, Active, LedgerAssumptions
<1>3. txn'[c] # Idle
  BY DEF Idle
<1>4. CASE txn'[c] = txn[c]
  <2>1. Cardinality(Checked(z)) < Capacity[z] /\ HoldsZone(c, z)
    BY <1>4 DEF Counted, HoldsZone
  <2>2. ASSUME NEW d \in Clients, txn[d].step \in {"bookInsert", "changeWrite"}, txn[d].zone = z,
               txn'[d] = Idle
        PROVE  FALSE
    <3>1. HoldsZone(d, z)
      BY <2>2 DEF HoldsZone
    <3>2. QED
      BY <1>3, <2>1, <2>2, <3>1 DEF Locked
  <2>3. Checked(z)' \subseteq Checked(z)
    BY <2>2, CheckedStep
  <2>4. QED
    BY <1>2, <2>1, <2>3, CheckedFinite
<1>5. CASE txn'[c] # txn[c]
  <2>1. UNCHANGED bookings /\ ~Full(z)
    BY <1>3, <1>5, TxnStep DEF MayBe
  <2>2. Cardinality(Checked(z)) <= Cardinality(Active(z)) /\ Cardinality(Active(z)) \in Nat
    BY FS_Subset, FS_CardinalityType DEF Checked, Active, LedgerAssumptions
  <2>3. Checked(z)' = Checked(z)
    BY <2>1 DEF Checked, Active
  <2>4. QED
    BY <1>2, <2>1, <2>2, <2>3 DEF Full
<1>6. QED
  BY <1>4, <1>5

-------------------------------------------------------------------------------
(* A session is the only one of its booking, at the price of its zone. *)

Pending(p) == payments[p].status = "PENDING"

OneOpenSession ==
  /\ \A p, q \in PaymentIds :
       Pending(p) /\ Pending(q) /\ payments[p].booking = payments[q].booking => p = q
  /\ \A p \in PaymentIds : Pending(p)
       => /\ bookings[payments[p].booking] # NoBooking
          /\ payments[p].amount = Price[bookings[payments[p].booking].zone]

\* A client that has seen no session is between that look and its write.
SawNone(c) ==
  \/ txn[c].step = "payInsert" /\ txn[c].kind = "open"
  \/ txn[c].step \in {"changeLock", "changeCount", "changeWrite"}

\* What a client has seen under its lock on the booking still holds.
Seen ==
  \A c \in Clients :
    /\ SawNone(c) => ~Session(txn[c].booking)
    /\ txn[c].step \in {"payCheck", "payInsert"}
         => txn[c].amount = Price[bookings[txn[c].booking].zone]

\* A session is new only if a transaction that saw none inserts it.
LEMMA SessionStep ==
  ASSUME Shape, LedgerAssumptions, [Next]_vars, NEW p \in PaymentIds, Pending(p)'
  PROVE  \/ Pending(p) /\ payments'[p] = payments[p]
         \/ \E c \in Clients : /\ txn[c].step = "payInsert" /\ txn[c].kind = "open"
                               /\ txn[c].booking \in BookingIds
                               /\ txn'[c] = Idle /\ UNCHANGED bookings
                               /\ payments'[p].booking = txn[c].booking
                               /\ payments'[p].amount = txn[c].amount
                               /\ \A q \in PaymentIds : q # p => payments'[q] = payments[q]
<1>1. CASE NoNewSession
  BY <1>1 DEF NoNewSession, Pending
<1>2. ASSUME NEW c \in Clients, Opens(c)
      PROVE  \/ Pending(p) /\ payments'[p] = payments[p]
             \/ /\ txn[c].step = "payInsert" /\ txn[c].kind = "open"
                /\ txn[c].booking \in BookingIds
                /\ txn'[c] = Idle /\ UNCHANGED bookings
                /\ payments'[p].booking = txn[c].booking
                /\ payments'[p].amount = txn[c].amount
                /\ \A q \in PaymentIds : q # p => payments'[q] = payments[q]
  <2>1. PICK q \in PaymentIds :
          /\ payments[q] = NoPayment
          /\ payments' = [payments EXCEPT ![q] =
               [status |-> "PENDING", booking |-> txn[c].booking,
                amount |-> txn[c].amount, workflow |-> txn[c].workflow]]
    BY <1>2 DEF Opens
  <2>2. \A x \in PaymentIds : payments'[x] =
          IF x = q THEN [status |-> "PENDING", booking |-> txn[c].booking,
                         amount |-> txn[c].amount, workflow |-> txn[c].workflow]
                   ELSE payments[x]
    BY <2>1, RowPut
  <2>3. txn'[c] = Idle
    BY <1>2 DEF Opens, Finish, Shape
  <2>4. txn[c].booking \in BookingIds
    BY <1>2, TxnAt DEF Opens, Shape, PayTxn
  <2>5. QED
    BY <1>2, <2>1, <2>2, <2>3, <2>4 DEF Opens, Pending
<1>3. QED
  BY <1>1, <1>2, PaymentStep

\* The zone of a booking changes only by the transaction that holds it.
LEMMA ZoneStep ==
  ASSUME Shape, LedgerAssumptions, [Next]_vars, NEW b \in BookingIds, bookings[b] # NoBooking
  PROVE  \/ bookings'[b].zone = bookings[b].zone
         \/ \E c \in Clients : /\ txn[c].step = "changeWrite" /\ txn[c].booking = b
                               /\ txn'[c] = Idle /\ NoNewSession
<1>1. Step
  BY EveryStep
<1>2. CASE UNCHANGED bookings
  BY <1>2
<1>3. ASSUME NEW a \in BookingIds, Withdraws(a) PROVE bookings'[b].zone = bookings[b].zone
  BY <1>3 DEF Withdraws, Shape
<1>4. ASSUME NEW a \in BookingIds, NEW z, NEW k, Inserts(a, z, k) PROVE bookings'[b].zone = bookings[b].zone
  BY <1>4 DEF Inserts, Shape
<1>5. ASSUME NEW c \in Clients, Moves(c)
      PROVE  \/ bookings'[b].zone = bookings[b].zone
             \/ /\ txn[c].step = "changeWrite" /\ txn[c].booking = b
                /\ txn'[c] = Idle /\ NoNewSession
  <2>1. txn'[c] = Idle
    BY <1>5 DEF Moves, Finish, Shape
  <2>2. txn[c].booking # b => bookings'[b] = bookings[b]
    BY <1>5 DEF Moves, Shape
  <2>3. QED
    BY <1>5, <2>1, <2>2 DEF Moves
<1>6. QED
  BY <1>1, <1>2, <1>3, <1>4, <1>5 DEF Step, Quiet, Opens, RowsOnly

LEMMA OneOpenSessionStep ==
  ASSUME Shape, Locked, OneOpenSession, Seen, LedgerAssumptions, [Next]_vars
  PROVE  OneOpenSession'
<1>1. ASSUME NEW p \in PaymentIds, NEW q \in PaymentIds, Pending(p)', Pending(q)',
             payments'[p].booking = payments'[q].booking
      PROVE  p = q
  <2>1. ASSUME NEW c \in Clients, NEW x \in PaymentIds, NEW y \in PaymentIds, x # y,
               txn[c].step = "payInsert", txn[c].kind = "open",
               payments'[x].booking = txn[c].booking,
               \A o \in PaymentIds : o # x => payments'[o] = payments[o],
               Pending(y)', payments'[y].booking = payments'[x].booking
        PROVE  FALSE
    <3>1. Pending(y) /\ payments[y].booking = txn[c].booking
      BY <2>1 DEF Pending
    <3>2. QED
      BY <2>1, <3>1 DEF Seen, SawNone, Session, Rows, Pending
  <2>2. CASE /\ Pending(p) /\ payments'[p] = payments[p]
             /\ Pending(q) /\ payments'[q] = payments[q]
    BY <1>1, <2>2 DEF OneOpenSession
  <2>3. QED
    BY <1>1, <2>1, <2>2, SessionStep
<1>2. ASSUME NEW p \in PaymentIds, Pending(p)'
      PROVE  /\ bookings'[payments'[p].booking] # NoBooking
             /\ payments'[p].amount = Price[bookings'[payments'[p].booking].zone]
  <2> DEFINE b == payments'[p].booking
  <2>1. CASE Pending(p) /\ payments'[p] = payments[p]
    <3>1. payments[p] # NoPayment
      BY <2>1 DEF Pending, NoPayment
    <3>2. b \in BookingIds
      BY <2>1, <3>1 DEF Shape, Row
    <3>3. bookings[b] # NoBooking /\ payments[p].amount = Price[bookings[b].zone]
      BY <2>1 DEF OneOpenSession
    <3>4. Session(b)
      BY <2>1, <3>2 DEF Session, Rows, Pending
    <3>5. bookings'[b].zone = bookings[b].zone
      <4>1. ASSUME NEW c \in Clients, txn[c].step = "changeWrite", txn[c].booking = b
            PROVE  FALSE
        BY <3>4, <4>1 DEF Seen, SawNone
      <4>2. QED
        BY <3>2, <3>3, <4>1, ZoneStep
    <3>6. bookings'[b] # NoBooking
      BY <3>2, <3>3, BookingStep
    <3>7. QED
      BY <2>1, <3>3, <3>5, <3>6
  <2>2. CASE \E c \in Clients :
               /\ txn[c].step = "payInsert" /\ txn[c].kind = "open" /\ UNCHANGED bookings
               /\ txn[c].booking \in BookingIds
               /\ payments'[p].booking = txn[c].booking /\ payments'[p].amount = txn[c].amount
    BY <2>2 DEF Seen, Shape, HoldsBooking
  <2>3. QED
    BY <1>2, <2>1, <2>2, SessionStep
<1>3. QED
  BY <1>1, <1>2 DEF OneOpenSession, Pending

LEMMA SeenStep ==
  ASSUME Shape, Locked, Seen, LedgerAssumptions, [Next]_vars
  PROVE  Seen'
<1>1. ASSUME NEW c \in Clients, SawNone(c)', NEW b, b = txn'[c].booking,
             NEW p \in PaymentIds, Pending(p)', payments'[p].booking = b
      PROVE  FALSE
  <2>1. txn'[c] # Idle
    BY <1>1 DEF Idle, SawNone
  <2>2. CASE txn'[c] = txn[c]
    <3>1. SawNone(c) /\ txn[c].booking = b
      BY <1>1, <2>2 DEF SawNone
    <3>2. HoldsBooking(c, b) /\ ~Session(b)
      BY <3>1 DEF HoldsBooking, SawNone, Seen
    <3>3. ~(Pending(p) /\ payments'[p] = payments[p])
      BY <1>1, <3>2 DEF Session, Rows, Pending
    <3>4. PICK d \in Clients : /\ txn[d].step = "payInsert" /\ txn'[d] = Idle
                               /\ payments'[p].booking = txn[d].booking
                               /\ txn[d].booking \in BookingIds
      BY <1>1, <3>3, SessionStep
    <3>5. HoldsBooking(d, b) /\ b \in BookingIds
      BY <1>1, <3>4 DEF HoldsBooking
    <3>6. QED
      BY <2>1, <2>2, <3>2, <3>4, <3>5 DEF Locked
  <2>3. CASE txn'[c] # txn[c]
    <3>1. UNCHANGED <<bookings, payments>> /\ MayBe(c, txn'[c])
      BY <2>1, <2>3, TxnStep
    <3>2. ~Session(b)
      BY <1>1, <3>1 DEF MayBe, Seen, SawNone
    <3>3. QED
      BY <1>1, <3>1, <3>2 DEF Session, Rows, Pending
  <2>4. QED
    BY <2>2, <2>3
<1>2. ASSUME NEW c \in Clients, txn'[c].step \in {"payCheck", "payInsert"}
      PROVE  txn'[c].amount = Price[bookings'[txn'[c].booking].zone]
  <2>1. txn'[c] # Idle
    BY <1>2 DEF Idle
  <2>2. CASE txn'[c] = txn[c]
    <3> DEFINE b == txn[c].booking
    <3>1. b \in BookingIds /\ HoldsBooking(c, b) /\ txn[c].amount = Price[bookings[b].zone]
      BY <1>2, <2>2, TxnAt DEF Shape, PayTxn, HoldsBooking, Seen
    <3>2. ASSUME NEW d \in Clients, txn[d].step = "changeWrite", txn[d].booking = b, txn'[d] = Idle
          PROVE  FALSE
      <4>1. HoldsBooking(d, b)
        BY <3>2 DEF HoldsBooking
      <4>2. QED
        BY <2>1, <2>2, <3>1, <3>2, <4>1 DEF Locked
    <3>3. bookings'[b].zone = bookings[b].zone
      BY <3>1, <3>2, ZoneStep DEF Shape
    <3>4. QED
      BY <2>2, <3>1, <3>3
  <2>3. CASE txn'[c] # txn[c]
    BY <1>2, <2>1, <2>3, TxnStep DEF MayBe, Seen
  <2>4. QED
    BY <2>2, <2>3
<1>3. QED
  BY <1>1, <1>2 DEF Seen, Session, Rows, Pending

-------------------------------------------------------------------------------
(* Total is a fold over a set of rows.  A fold chooses a function on all the  *)
(* subsets that adds one element to the sum of the others; that there is one, *)
(* and that the order does not matter, is proved from the least number of     *)
(* elements a counterexample could have.                                      *)

\* What Total computes, for the amounts of a table r of payments.
First(s) == CHOOSE x \in s : TRUE
Adds(r, f, s) == IF s = {} THEN 0 ELSE r[First(s)].amount + f[s \ {First(s)}]
IsSum(r, S, f) == f = [s \in SUBSET S |-> Adds(r, f, s)]

LEMMA Least ==
  ASSUME NEW T \in SUBSET Nat, T # {}
  PROVE  \E n \in T : \A m \in T : n <= m
<1>1. \E n \in T : \A m \in T : ~(<<m, n>> \in OpToRel(<, Nat))
  BY WFMin, NatLessThanWellFounded
<1>2. PICK n \in T : \A m \in T : ~(<<m, n>> \in OpToRel(<, Nat))
  BY <1>1
<1>3. ASSUME NEW m \in T PROVE ~(m < n)
  <2> DEFINE pair == <<m, n>>
  <2>1. pair \in Nat \X Nat /\ pair[1] = m /\ pair[2] = n
    OBVIOUS
  <2>2. pair \notin {e \in Nat \X Nat : e[1] < e[2]}
    BY <1>2 DEF OpToRel
  <2> HIDE DEF pair
  <2>3. QED
    BY <2>1, <2>2
<1>4. QED
  BY <1>3

LEMMA FirstIn == ASSUME NEW s, s # {} PROVE First(s) \in s
  BY DEF First

\* Induction on the number of elements, for a set B of subsets of S.
LEMMA Smallest ==
  ASSUME NEW S, IsFiniteSet(S), NEW B \in SUBSET SUBSET S, B # {}
  PROVE  \E s \in B : \A t \in SUBSET s : t # s => t \notin B
<1> DEFINE Sizes == {Cardinality(s) : s \in B}
<1>1. \A s \in B : IsFiniteSet(s) /\ Cardinality(s) \in Nat
  BY FS_Subset, FS_CardinalityType
<1>2. PICK s \in B : \A t \in B : Cardinality(s) <= Cardinality(t)
  <2>1. PICK n \in Sizes : \A m \in Sizes : n <= m
    <3>1. Sizes \in SUBSET Nat /\ Sizes # {}
      BY <1>1
    <3> HIDE DEF Sizes
    <3>2. QED
      BY <3>1, Least
  <2>2. QED
    BY <2>1
<1>3. ASSUME NEW t \in SUBSET s, t # s PROVE t \notin B
  <2>1. Cardinality(t) < Cardinality(s)
    <3>1. PICK y \in s : y \notin t
      BY <1>3
    <3>2. IsFiniteSet(s \ {y}) /\ Cardinality(s \ {y}) = Cardinality(s) - 1
      BY <1>1, <3>1, FS_RemoveElement
    <3>3. t \subseteq s \ {y}
      BY <3>1
    <3>4. Cardinality(t) <= Cardinality(s \ {y}) /\ Cardinality(t) \in Nat
      BY <3>2, <3>3, FS_Subset, FS_CardinalityType
    <3>5. QED
      BY <1>1, <3>2, <3>4
  <2>2. QED
    BY <1>1, <1>2, <2>1, FS_Subset
<1>4. QED
  BY <1>3

\* A sum over every subset of a finite set exists.
LEMMA SumExists ==
  ASSUME NEW r, NEW S, IsFiniteSet(S)
  PROVE  \E f : IsSum(r, S, f)
<1> DEFINE Upto(n) == {s \in SUBSET S : Cardinality(s) <= n}
           Part(n, f) == f = [s \in Upto(n) |-> Adds(r, f, s)]
           Bad == {n \in Nat : ~\E f : Part(n, f)}
<1>1. \A s \in SUBSET S : IsFiniteSet(s) /\ Cardinality(s) \in Nat /\ Cardinality(s) <= Cardinality(S)
  BY FS_Subset, FS_CardinalityType
<1>2. \A s \in SUBSET S : s # {} => /\ s \ {First(s)} \in SUBSET S
                                    /\ Cardinality(s \ {First(s)}) = Cardinality(s) - 1
  BY <1>1, FirstIn, FS_RemoveElement
<1>3. Bad = {}
  <2>1. SUFFICES ASSUME Bad # {} PROVE FALSE
    OBVIOUS
  <2>2. PICK n \in Bad : \A m \in Bad : n <= m
    <3>1. Bad \in SUBSET Nat
      OBVIOUS
    <3> HIDE DEF Bad
    <3>2. QED
      BY <2>1, <3>1, Least
  <2>3. CASE n = 0
    <3> DEFINE f == [s \in Upto(0) |-> 0]
    <3>1. \A s \in Upto(0) : s = {}
      BY <1>1, FS_EmptySet
    <3>2. f = [s \in Upto(0) |-> Adds(r, f, s)]
      BY <3>1 DEF Adds
    <3>3. QED
      BY <2>3, <3>2
  <2>4. CASE n # 0
    <3>1. PICK f : Part(n - 1, f)
      <4>1. n - 1 \in Nat /\ n - 1 \notin Bad
        <5> HIDE DEF Part
        <5>1. n \in Nat
          OBVIOUS
        <5>2. n - 1 \in Nat /\ ~(n <= n - 1)
          BY <2>4, <5>1
        <5> HIDE DEF Bad
        <5>3. QED
          BY <2>2, <5>2
      <4> HIDE DEF Part
      <4>2. QED
        BY <4>1
    <3> DEFINE h == [s \in Upto(n) |-> Adds(r, f, s)]
    <3>2. ASSUME NEW s \in Upto(n), s # {} PROVE h[s \ {First(s)}] = f[s \ {First(s)}]
      <4>1. s \ {First(s)} \in Upto(n - 1) /\ s \ {First(s)} \in Upto(n)
        BY <1>1, <1>2, <3>2
      <4>2. f[s \ {First(s)}] = Adds(r, f, s \ {First(s)})
        BY <3>1, <4>1
      <4>3. QED
        BY <4>1, <4>2
    <3>3. h = [s \in Upto(n) |-> Adds(r, h, s)]
      BY <3>2 DEF Adds
    <3>4. QED
      BY <3>3
  <2>5. QED
    BY <2>3, <2>4
<1>4. PICK f : Part(Cardinality(S), f)
  BY <1>1, <1>3
<1>5. Upto(Cardinality(S)) = SUBSET S
  BY <1>1
<1>6. QED
  BY <1>4, <1>5 DEF IsSum

LEMMA SumAt ==
  ASSUME NEW r, NEW S, NEW f, IsSum(r, S, f)
  PROVE  \A s \in SUBSET S : f[s] = Adds(r, f, s)
  BY DEF IsSum

\* It is a natural number when the amounts are.
LEMMA SumType ==
  ASSUME NEW r, NEW S, IsFiniteSet(S), NEW f, IsSum(r, S, f), \A x \in S : r[x].amount \in Nat
  PROVE  \A s \in SUBSET S : f[s] \in Nat
<1> DEFINE B == {s \in SUBSET S : f[s] \notin Nat}
<1> SUFFICES ASSUME B # {} PROVE FALSE
  OBVIOUS
<1>1. PICK s \in B : \A t \in SUBSET s : t # s => t \notin B
  <2>1. B \in SUBSET SUBSET S
    OBVIOUS
  <2> HIDE DEF B
  <2>2. QED
    BY <2>1, Smallest
<1>2. f[s] = Adds(r, f, s)
  BY SumAt
<1>3. s # {} => f[s \ {First(s)}] \in Nat
  BY <1>1, FirstIn
<1>4. QED
  BY <1>2, <1>3, FirstIn DEF Adds

\* The order does not matter.
LEMMA SumOrder ==
  ASSUME NEW r, NEW S, IsFiniteSet(S), NEW f, IsSum(r, S, f), \A x \in S : r[x].amount \in Nat
  PROVE  \A s \in SUBSET S : \A x \in s : f[s] = r[x].amount + f[s \ {x}]
<1> DEFINE B == {s \in SUBSET S : \E x \in s : f[s] # r[x].amount + f[s \ {x}]}
<1> SUFFICES ASSUME B # {} PROVE FALSE
  OBVIOUS
<1>1. PICK s \in B : \A t \in SUBSET s : t # s => t \notin B
  <2>1. B \in SUBSET SUBSET S
    OBVIOUS
  <2> HIDE DEF B
  <2>2. QED
    BY <2>1, Smallest
<1>2. PICK x \in s : f[s] # r[x].amount + f[s \ {x}]
  OBVIOUS
<1> DEFINE y == First(s)
<1>3. y \in s /\ f[s] = r[y].amount + f[s \ {y}]
  BY <1>2, SumAt, FirstIn DEF Adds
<1>4. x # y
  BY <1>2, <1>3
<1>5. f[s \ {y}] = r[x].amount + f[(s \ {y}) \ {x}]
  BY <1>1, <1>3, <1>4
<1>6. f[s \ {x}] = r[y].amount + f[(s \ {x}) \ {y}]
  BY <1>1, <1>3, <1>4
<1>7. (s \ {y}) \ {x} = (s \ {x}) \ {y}
  OBVIOUS
<1>8. f[(s \ {x}) \ {y}] \in Nat /\ r[x].amount \in Nat /\ r[y].amount \in Nat
  BY <1>3, SumType
<1>9. f[s] = r[y].amount + (r[x].amount + f[(s \ {x}) \ {y}])
  BY <1>3, <1>5, <1>7
<1> DEFINE a == r[x].amount
           b == r[y].amount
           c == f[(s \ {x}) \ {y}]
<1>10. f[s] = b + (a + c) /\ f[s] # a + (b + c) /\ a \in Nat /\ b \in Nat /\ c \in Nat
  BY <1>2, <1>6, <1>8, <1>9
<1> HIDE DEF a, b, c
<1>11. QED
  BY <1>10

\* Two tables that agree on S have the same sums, over S and over its subsets.
LEMMA SumSame ==
  ASSUME NEW r, NEW q, NEW S, IsFiniteSet(S), NEW T \in SUBSET S, NEW f, NEW g,
         IsSum(r, S, f), IsSum(q, T, g), \A x \in T : r[x].amount = q[x].amount
  PROVE  f[T] = g[T]
<1> DEFINE B == {s \in SUBSET T : f[s] # g[s]}
<1> SUFFICES ASSUME B # {} PROVE FALSE
  OBVIOUS
<1>1. IsFiniteSet(T)
  BY FS_Subset
<1>2. PICK s \in B : \A t \in SUBSET s : t # s => t \notin B
  <2>1. B \in SUBSET SUBSET T
    OBVIOUS
  <2> HIDE DEF B
  <2>2. QED
    BY <1>1, <2>1, Smallest
<1>3. f[s] = Adds(r, f, s) /\ g[s] = Adds(q, g, s)
  BY SumAt
<1>4. s # {} => f[s \ {First(s)}] = g[s \ {First(s)}]
  BY <1>2, FirstIn
<1>5. QED
  BY <1>3, <1>4, FirstIn DEF Adds

SumOf(r, S) == (CHOOSE f : IsSum(r, S, f))[S]

LEMMA TotalIs == \A S : Total(S) = SumOf(payments, S)
  BY DEF Total, MapThenSumSet, MapThenFoldSet, SumOf, IsSum, Adds, First

LEMMA SumOfIs ==
  ASSUME NEW r, NEW S, IsFiniteSet(S), NEW f, IsSum(r, S, f), NEW T \in SUBSET S
  PROVE  SumOf(r, T) = f[T]
<1>1. IsFiniteSet(T)
  BY FS_Subset
<1>2. PICK g : IsSum(r, T, g) /\ SumOf(r, T) = g[T]
  BY <1>1, SumExists DEF SumOf
<1> DEFINE q == r
<1>3. IsSum(q, T, g) /\ \A x \in T : r[x].amount = q[x].amount
  BY <1>2
<1> HIDE DEF q
<1>4. f[T] = g[T]
  BY <1>3, SumSame
<1>5. QED
  BY <1>2, <1>4

LEMMA Sums ==
  ASSUME NEW r, NEW S, IsFiniteSet(S), \A x \in S : r[x].amount \in Nat
  PROVE  /\ SumOf(r, S) \in Nat
         /\ SumOf(r, {}) = 0
         /\ \A x \in S : SumOf(r, S) = r[x].amount + SumOf(r, S \ {x})
<1>1. PICK f : IsSum(r, S, f)
  BY SumExists
<1>2. \A T \in SUBSET S : SumOf(r, T) = f[T]
  BY <1>1, SumOfIs
<1>3. f[{}] = 0
  BY <1>1, SumAt DEF Adds
<1>4. f[S] \in Nat
  BY <1>1, SumType
<1>5. ASSUME NEW x \in S PROVE f[S] = r[x].amount + f[S \ {x}]
  BY <1>1, SumOrder
<1>6. QED
  BY <1>2, <1>3, <1>4, <1>5

LEMMA SumsAgree ==
  ASSUME NEW r, NEW q, NEW S, IsFiniteSet(S), \A x \in S : r[x].amount = q[x].amount
  PROVE  SumOf(r, S) = SumOf(q, S)
<1>1. PICK f : IsSum(r, S, f) /\ SumOf(r, S) = f[S]
  BY SumExists DEF SumOf
<1>2. PICK g : IsSum(q, S, g) /\ SumOf(q, S) = g[S]
  BY SumExists DEF SumOf
<1>3. QED
  BY <1>1, <1>2, SumSame

-------------------------------------------------------------------------------
(* The money of a booking: what its paid rows hold and what went back. *)

IsTable(r) == r \in [PaymentIds -> Payment \cup {NoPayment}]
Of(r, b, s) == {p \in PaymentIds : r[p].status = s /\ r[p].booking = b}
Sum(r, b, s) == SumOf(r, Of(r, b, s))

LEMMA OfIs ==
  ASSUME LedgerAssumptions, NEW r, IsTable(r), NEW b \in BookingIds, NEW s, s # "NONE"
  PROVE  /\ IsFiniteSet(Of(r, b, s))
         /\ \A p \in Of(r, b, s) : r[p] \in Payment /\ r[p].amount \in Nat \ {0}
<1>1. IsFiniteSet(Of(r, b, s))
  BY FS_Subset DEF Of, LedgerAssumptions
<1>2. ASSUME NEW p \in Of(r, b, s) PROVE r[p] \in Payment /\ r[p].amount \in Nat \ {0}
  BY <1>2 DEF Of, IsTable, NoPayment, Payment, Amounts
<1>3. QED
  BY <1>1, <1>2

LEMMA SumOfOne ==
  ASSUME NEW r, NEW p, r[p].amount \in Nat
  PROVE  SumOf(r, {p}) = r[p].amount
<1>1. IsFiniteSet({p}) /\ {p} \ {p} = {}
  BY FS_Singleton
<1>2. SumOf(r, {p}) = r[p].amount + SumOf(r, {}) /\ SumOf(r, {}) = 0
  BY <1>1, Sums
<1>3. QED
  BY <1>2

LEMMA SumIs ==
  ASSUME LedgerAssumptions, NEW r, IsTable(r), NEW b \in BookingIds, NEW s, s # "NONE"
  PROVE  /\ Sum(r, b, s) \in Nat
         /\ Sum(r, b, s) = 0 <=> Of(r, b, s) = {}
<1> DEFINE S == Of(r, b, s)
<1>1. IsFiniteSet(S) /\ \A p \in S : r[p].amount \in Nat \ {0}
  BY OfIs
<1> HIDE DEF S
<1>2. /\ SumOf(r, S) \in Nat /\ SumOf(r, {}) = 0
      /\ \A x \in S : SumOf(r, S) = r[x].amount + SumOf(r, S \ {x})
  BY <1>1, Sums
<1>3. ASSUME NEW x \in S PROVE SumOf(r, S) # 0
  <2>1. IsFiniteSet(S \ {x}) /\ \A p \in S \ {x} : r[p].amount \in Nat
    BY <1>1, FS_Subset
  <2> DEFINE T == S \ {x}
  <2> HIDE DEF T
  <2>2. SumOf(r, T) \in Nat
    BY <2>1, Sums DEF T
  <2>3. SumOf(r, S) = r[x].amount + SumOf(r, T) /\ r[x].amount \in Nat \ {0}
    BY <1>1, <1>2 DEF T
  <2>4. QED
    BY <2>2, <2>3
<1>4. QED
  BY <1>2, <1>3 DEF Sum, S

\* A row joins the rows of a booking with a status: new, or with a new status.
LEMMA SumJoins ==
  ASSUME LedgerAssumptions, NEW r, IsTable(r), NEW q, IsTable(q), NEW b \in BookingIds,
         NEW s, s # "NONE", NEW p \in PaymentIds,
         \A x \in PaymentIds : x # p => q[x] = r[x],
         q[p].status = s, q[p].booking = b, ~(r[p].status = s)
  PROVE  /\ Of(q, b, s) = Of(r, b, s) \cup {p}
         /\ Sum(q, b, s) = Sum(r, b, s) + q[p].amount
<1> DEFINE S == Of(r, b, s)
           T == Of(q, b, s)
<1>1. p \notin S /\ T = S \cup {p} /\ T \ {p} = S
  BY DEF Of
<1>2. IsFiniteSet(T) /\ \A x \in T : q[x].amount \in Nat
  BY OfIs
<1>3. IsFiniteSet(S) /\ \A x \in S : r[x].amount = q[x].amount
  <2>1. \A x \in S : x \in PaymentIds /\ x # p
    BY <1>1 DEF Of
  <2> HIDE DEF S
  <2>2. \A x \in S : r[x].amount = q[x].amount
    BY <2>1
  <2>3. QED
    BY <2>2, OfIs DEF S
<1>4. SumOf(q, T) \in Nat /\ SumOf(r, S) \in Nat
  BY SumIs DEF Sum
<1> HIDE DEF S, T
<1>5. SumOf(q, T) = q[p].amount + SumOf(q, T \ {p})
  BY <1>1, <1>2, Sums
<1>6. SumOf(q, S) = SumOf(r, S)
  BY <1>3, SumsAgree
<1>7. q[p].amount \in Nat
  BY <1>1, <1>2
<1>8. SumOf(q, T) = SumOf(r, S) + q[p].amount
  BY <1>1, <1>4, <1>5, <1>6, <1>7
<1>9. QED
  BY <1>1, <1>8 DEF Sum, S, T

\* Rows of other bookings, or that neither had nor get the status, do not matter.
LEMMA SumStays ==
  ASSUME LedgerAssumptions, NEW r, IsTable(r), NEW q, IsTable(q), NEW b \in BookingIds,
         NEW s, s # "NONE",
         \A x \in PaymentIds : \/ q[x] = r[x]
                               \/ /\ q[x].status # s \/ q[x].booking # b
                                  /\ r[x].status # s \/ r[x].booking # b
  PROVE  Of(q, b, s) = Of(r, b, s) /\ Sum(q, b, s) = Sum(r, b, s)
<1>1. Of(q, b, s) = Of(r, b, s) /\ \A x \in Of(r, b, s) : r[x].amount = q[x].amount
  BY DEF Of
<1>2. IsFiniteSet(Of(r, b, s))
  BY OfIs
<1>3. QED
  BY <1>1, <1>2, SumsAgree DEF Sum

PaidIn(b) == Sum(payments, b, "PAID")
GivenBack(b) == Sum(payments, b, "REFUNDED")

\* Rows and Total in these terms, now and after a step.
LEMMA TotalsAre ==
  ASSUME NEW b
  PROVE  /\ Rows(b, {"PAID"}) = Of(payments, b, "PAID")
         /\ Rows(b, {"PAID"})' = Of(payments', b, "PAID")
         /\ Total(Rows(b, {"PAID"})) = PaidIn(b)
         /\ Total(Rows(b, {"REFUNDED"})) = GivenBack(b)
<1>1. /\ Rows(b, {"PAID"}) = Of(payments, b, "PAID")
      /\ Rows(b, {"PAID"})' = Of(payments', b, "PAID")
      /\ Rows(b, {"REFUNDED"}) = Of(payments, b, "REFUNDED")
  BY DEF Rows, Of
<1>2. QED
  BY <1>1, TotalIs DEF PaidIn, GivenBack, Sum

LEMMA PaidIs ==
  ASSUME NEW b
  PROVE  (Paid(b) <=> Of(payments, b, "PAID") # {}) /\ (Paid(b)' <=> Of(payments', b, "PAID") # {})
  BY DEF Paid, Rows, Of

-------------------------------------------------------------------------------
(* What a step does to the money of a booking *)

\* Nothing, except that a deletion hides what went back.  A zone change that
\* gives nothing back leaves exactly the price of the new zone.
Unmoved(b) ==
  /\ UNCHANGED <<collected[b], returned[b], PaidIn(b)>>
  /\ UNCHANGED GivenBack(b) \/ Compensated(b)'
  /\ bookings'[b].status = "ACTIVE" /\ Paid(b)
       => \/ bookings[b].status = "ACTIVE" /\ bookings'[b].zone = bookings[b].zone
          \/ PaidIn(b) = GivenBack(b) + Price[bookings'[b].zone]

Charged(b) ==
  LET amount == Price[bookings[b].zone] IN
  /\ ~Paid(b)
  /\ Exists(b) /\ UNCHANGED bookings[b]
  /\ PaidIn(b)' = amount
  /\ UNCHANGED GivenBack(b)
  /\ collected'[b] = collected[b] + amount /\ returned'[b] = returned[b]

Settled(b) ==
  /\ Paid(b) /\ UNCHANGED <<PaidIn(b), collected[b]>>
  /\ \E amount \in Nat \ {0} : /\ returned'[b] = returned[b] + amount
                               /\ GivenBack(b)' = GivenBack(b) + amount
  /\ bookings'[b].status = "ACTIVE" => PaidIn(b) = GivenBack(b)' + Price[bookings'[b].zone]

Refunded(b) ==
  /\ Paid(b) /\ PaidIn(b)' = 0 /\ Compensated(b)'
  /\ collected'[b] = collected[b] /\ returned'[b] = returned[b] + PaidIn(b)

Moved(b) ==
  /\ Unmoved(b) \/ Charged(b) \/ Settled(b) \/ Refunded(b)
  /\ Compensated(b) => Compensated(b)'

\* The rows a session was opened or a payment made with have a key.
Keyed ==
  /\ \A p \in PaymentIds : payments[p].status \in {"PENDING", "PAID"} => payments[p].workflow \in Workflows
  /\ \A c \in Clients : txn[c].step = "confirmWrite"
       => payments[txn[c].payment] # NoPayment /\ payments[txn[c].payment].workflow \in Workflows

Placed == \A p \in PaymentIds : payments[p] # NoPayment => bookings[payments[p].booking] # NoBooking


\* Who is about to insert a payment, and an open session, have their booking:
\* DeleteBooking waits for the one and takes the other along.
Standing ==
  /\ \A c \in Clients : txn[c].step \in {"payCheck", "payInsert"} => Exists(txn[c].booking)
  /\ \A p \in PaymentIds : Pending(p) => Exists(payments[p].booking)

\* What came in is in the paid rows or went back, and a paid booking was charged.
Covered(b) == collected[b] <= returned[b] + PaidIn(b) /\ (Paid(b) => collected[b] > 0)
Even(b) ==
  ~Compensated(b) =>
    IF Paid(b)
      THEN /\ collected[b] = PaidIn(b) /\ returned[b] = GivenBack(b)
           /\ bookings[b].status = "ACTIVE" => PaidIn(b) = GivenBack(b) + Price[bookings[b].zone]
      ELSE collected[b] = 0 /\ returned[b] = 0 /\ GivenBack(b) = 0

LEMMA MoneyStep ==
  ASSUME LedgerAssumptions, TypeOK, IsTable(payments'), NEW b \in BookingIds, Moved(b),
         \A a \in BookingIds : bookings[a] # NoBooking => bookings[a].zone \in Zones,
         Covered(b), Even(b)
  PROVE  Covered(b)' /\ Even(b)'
<1>1. /\ PaidIn(b) \in Nat /\ GivenBack(b) \in Nat
      /\ PaidIn(b) = 0 <=> ~Paid(b)
  BY SumIs, PaidIs DEF PaidIn, GivenBack, TypeOK, IsTable
<1>2. /\ PaidIn(b)' \in Nat /\ GivenBack(b)' \in Nat
      /\ PaidIn(b)' = 0 <=> ~Paid(b)'
  BY SumIs, PaidIs DEF PaidIn, GivenBack
<1>3. collected[b] \in Nat /\ returned[b] \in Nat
  BY DEF TypeOK
<1>4. \A z \in Zones : Price[z] \in Nat \ {0}
  BY DEF LedgerAssumptions
<1>5. CASE Unmoved(b)
  BY <1>1, <1>2, <1>3, <1>5 DEF Unmoved, Moved, Covered, Even
<1>6. CASE Charged(b)
  <2>1. bookings[b] # NoBooking
    BY <1>6 DEF Charged, Exists, NoBooking
  <2>2. QED
    BY <1>1, <1>2, <1>3, <1>4, <1>6, <2>1 DEF Charged, Moved, Covered, Even
<1>7. CASE Settled(b)
  BY <1>1, <1>2, <1>3, <1>7 DEF Settled, Moved, Covered, Even
<1>8. CASE Refunded(b)
  BY <1>1, <1>2, <1>3, <1>8 DEF Refunded, Moved, Covered, Even
<1>9. QED
  BY <1>5, <1>6, <1>7, <1>8 DEF Moved

-------------------------------------------------------------------------------
(* The rows of payments over a step *)

\* A row is never forgotten, and what compensation did to it is never undone.
RowsKept ==
  \A p \in PaymentIds : payments[p] # NoPayment =>
    /\ payments'[p] # NoPayment
    /\ payments'[p].booking = payments[p].booking /\ payments'[p].workflow = payments[p].workflow
    /\ payments[p].status = "DELETED" => payments'[p].status = "DELETED"
    /\ payments[p].status = "REFUNDED" => payments'[p].status \in {"REFUNDED", "DELETED"}

KeyedRows(r) ==
  \A p \in PaymentIds : r[p].status \in {"PENDING", "PAID"} => r[p].workflow \in Workflows

Effect ==
  /\ IsTable(payments') /\ RowsKept /\ KeyedRows(payments')
  /\ \A p \in PaymentIds : payments[p] = NoPayment /\ payments'[p] # NoPayment
       => bookings[payments'[p].booking] # NoBooking
  /\ collected' \in [BookingIds -> Nat] /\ returned' \in [BookingIds -> Nat]
  /\ \A b \in BookingIds : Moved(b)

LEMMA CompensatedIs ==
  ASSUME NEW b
  PROVE  /\ Compensated(b) <=> \E p \in PaymentIds : /\ payments[p].booking = b
               /\ \/ payments[p].status = "DELETED"
                  \/ payments[p].status = "REFUNDED" /\ payments[p].workflow # "none"
         /\ Compensated(b)' <=> \E p \in PaymentIds : /\ payments'[p].booking = b
               /\ \/ payments'[p].status = "DELETED"
                  \/ payments'[p].status = "REFUNDED" /\ payments'[p].workflow # "none"
  BY DEF Compensated, Rows

LEMMA CompensatedStays ==
  ASSUME NEW b, RowsKept
  PROVE  Compensated(b) => Compensated(b)'
<1>1. ASSUME NEW p \in PaymentIds, payments[p].status \in {"DELETED", "REFUNDED"}
      PROVE  payments[p] # NoPayment
  BY <1>1 DEF NoPayment
<1>2. QED
  BY <1>1, CompensatedIs DEF RowsKept

\* A booking none of whose rows change, and whose money does not.
LEMMA AloneIsUnmoved ==
  ASSUME LedgerAssumptions, IsTable(payments), IsTable(payments'), RowsKept, NEW b \in BookingIds,
         \A p \in PaymentIds :
            \/ payments'[p] = payments[p]
            \/ /\ payments'[p].booking # b
               /\ payments[p] = NoPayment \/ payments[p].booking # b
            \/ /\ payments'[p].status \notin {"PAID", "REFUNDED"}
               /\ payments[p].status \notin {"PAID", "REFUNDED"},
         UNCHANGED <<collected[b], returned[b]>>,
         bookings'[b].status = "ACTIVE" /\ Paid(b)
           => \/ bookings[b].status = "ACTIVE" /\ bookings'[b].zone = bookings[b].zone
              \/ PaidIn(b) = GivenBack(b) + Price[bookings'[b].zone]
  PROVE  Moved(b)
<1>1. \A p \in PaymentIds : payments[p] = NoPayment => payments[p].status = "NONE"
  BY DEF NoPayment
<1>2. Sum(payments', b, "PAID") = Sum(payments, b, "PAID")
  BY <1>1, SumStays
<1>3. Sum(payments', b, "REFUNDED") = Sum(payments, b, "REFUNDED")
  BY <1>1, SumStays
<1>4. QED
  BY <1>2, <1>3, CompensatedStays DEF Moved, Unmoved, PaidIn, GivenBack

LEMMA NoRowEffect ==
  ASSUME LedgerAssumptions, TypeOK, Keyed, UNCHANGED <<payments, collected, returned>>,
         \A b \in BookingIds : bookings'[b].status = "ACTIVE" /\ Paid(b)
           => \/ bookings[b].status = "ACTIVE" /\ bookings'[b].zone = bookings[b].zone
              \/ PaidIn(b) = GivenBack(b) + Price[bookings'[b].zone]
  PROVE  Effect
<1>1. IsTable(payments) /\ IsTable(payments') /\ KeyedRows(payments')
  BY DEF TypeOK, IsTable, Keyed, KeyedRows
<1>2. RowsKept
  BY DEF RowsKept
<1>3. \A b \in BookingIds : Moved(b)
  BY <1>1, <1>2, AloneIsUnmoved
<1>4. QED
  BY <1>1, <1>2, <1>3 DEF Effect, TypeOK

LEMMA InsertEffect ==
  ASSUME LedgerAssumptions, TypeOK, Keyed, Placed, NEW v, NEW z, NEW k,
         InsertBooking(v, z, k), UNCHANGED <<payments, collected, returned>>
  PROVE  Effect
<1>1. ASSUME NEW b \in BookingIds, Paid(b) PROVE UNCHANGED bookings[b]
  <2>1. PICK p \in PaymentIds : payments[p].status = "PAID" /\ payments[p].booking = b
    BY <1>1 DEF Paid, Rows
  <2>2. bookings[b] # NoBooking
    BY <2>1 DEF Placed, NoPayment
  <2>3. QED
    BY <2>2 DEF InsertBooking, NextBooking, TypeOK
<1>2. QED
  BY <1>1, NoRowEffect

LEMMA NewRow ==
  ASSUME TypeOK, Keyed, NEW p \in PaymentIds, payments[p] = NoPayment, NEW r \in Payment,
         r.status \in {"PENDING", "PAID"} => r.workflow \in Workflows,
         payments' = [payments EXCEPT ![p] = r]
  PROVE  /\ IsTable(payments) /\ IsTable(payments') /\ RowsKept /\ KeyedRows(payments')
         /\ payments'[p] = r /\ \A x \in PaymentIds : x # p => payments'[x] = payments[x]
         /\ payments[p].status = "NONE"
<1>1. payments \in [PaymentIds -> Payment \cup {NoPayment}]
  BY DEF TypeOK
<1>2. payments' \in [PaymentIds -> Payment \cup {NoPayment}]
  BY <1>1
<1>3. payments'[p] = r /\ \A x \in PaymentIds : x # p => payments'[x] = payments[x]
  BY <1>1
<1>4. QED
  BY <1>1, <1>2, <1>3 DEF IsTable, RowsKept, KeyedRows, Keyed, NoPayment

LEMMA SettleEffect ==
  ASSUME LedgerAssumptions, TypeOK, Keyed, Placed, NEW b \in BookingIds, NEW price \in Nat,
         bookings[b] # NoBooking, ~TopUpRequired(b, price), SettleDifference(b, price),
         UNCHANGED collected, \A a \in BookingIds : a # b => UNCHANGED bookings[a],
         bookings'[b].status = "ACTIVE" => price = Price[bookings'[b].zone]
  PROVE  Effect
<1>1. Total(Rows(b, {"PAID"})) = PaidIn(b) /\ Total(Rows(b, {"REFUNDED"})) = GivenBack(b)
  BY TotalsAre
<1>2. PaidIn(b) \in Nat /\ GivenBack(b) \in Nat
  BY SumIs DEF PaidIn, GivenBack, TypeOK, IsTable
<1> DEFINE x == Excess(b, price)
<1>3. x \in Nat /\ (Paid(b) => PaidIn(b) = GivenBack(b) + price + x) /\ (~Paid(b) => x = 0)
  BY <1>1, <1>2 DEF Excess, Kept, TopUpRequired
<1> HIDE DEF x
<1>4. CASE x = 0
  <2>1. UNCHANGED <<payments, returned>>
    BY <1>4 DEF SettleDifference, x
  <2>2. ASSUME NEW a \in BookingIds, bookings'[a].status = "ACTIVE", Paid(a)
        PROVE  \/ bookings[a].status = "ACTIVE" /\ bookings'[a].zone = bookings[a].zone
               \/ PaidIn(a) = GivenBack(a) + Price[bookings'[a].zone]
    <3>1. CASE a = b
      BY <1>2, <1>3, <1>4, <2>2, <3>1
    <3>2. CASE a # b
      BY <2>2, <3>2
    <3>3. QED
      BY <3>1, <3>2
  <2>3. QED
    BY <2>1, <2>2, NoRowEffect
<1>5. CASE x # 0
  <2> DEFINE r == [status |-> "REFUNDED", booking |-> b, amount |-> x, workflow |-> "none"]
  <2>1. PICK p \in PaymentIds : payments[p] = NoPayment /\ payments' = [payments EXCEPT ![p] = r]
    BY <1>5 DEF SettleDifference, NextPayment, x
  <2>2. returned' = [returned EXCEPT ![b] = @ + x]
    BY <1>5 DEF SettleDifference, x
  <2>3. r \in Payment /\ r.status = "REFUNDED" /\ r.booking = b /\ r.amount = x /\ r.workflow = "none"
    BY <1>3, <1>5 DEF Payment, Amounts
  <2> HIDE DEF r
  <2>4. /\ IsTable(payments) /\ IsTable(payments') /\ RowsKept /\ KeyedRows(payments')
        /\ payments'[p] = r /\ \A y \in PaymentIds : y # p => payments'[y] = payments[y]
        /\ payments[p].status = "NONE"
    BY <2>1, <2>3, NewRow
  <2>5. collected' \in [BookingIds -> Nat] /\ returned' \in [BookingIds -> Nat]
        /\ returned'[b] = returned[b] + x /\ \A a \in BookingIds : a # b => returned'[a] = returned[a]
    BY <1>3, <2>2 DEF TypeOK
  <2>6. Sum(payments', b, "PAID") = Sum(payments, b, "PAID")
    <3>1. payments'[p].status # "PAID" /\ payments[p].status # "PAID"
      BY <2>3, <2>4
    <3>2. QED
      BY <2>4, <3>1, SumStays
  <2>7. Sum(payments', b, "REFUNDED") = Sum(payments, b, "REFUNDED") + x
    BY <2>3, <2>4, SumJoins
  <2>8. Settled(b)
    <3>1. Paid(b) /\ UNCHANGED <<PaidIn(b), collected[b]>>
      BY <1>3, <1>5, <2>6 DEF PaidIn
    <3>2. x \in Nat \ {0} /\ returned'[b] = returned[b] + x /\ GivenBack(b)' = GivenBack(b) + x
      BY <1>3, <1>5, <2>5, <2>7 DEF GivenBack
    <3>3. PaidIn(b) = GivenBack(b)' + price
      BY <1>2, <1>3, <3>1, <3>2
    <3>4. QED
      BY <3>1, <3>2, <3>3 DEF Settled
  <2>9. Moved(b)
    BY <2>4, <2>8, CompensatedStays DEF Moved
  <2>10. ASSUME NEW a \in BookingIds, a # b PROVE Moved(a)
    <3>1. \A y \in PaymentIds : \/ payments'[y] = payments[y]
                                \/ payments'[y].booking # a /\ payments[y] = NoPayment
      BY <2>1, <2>3, <2>4, <2>10
    <3>2. UNCHANGED <<collected[a], returned[a], bookings[a]>>
      BY <2>5, <2>10
    <3>3. QED
      BY <2>4, <3>1, <3>2, AloneIsUnmoved
  <2>11. QED
    BY <2>1, <2>3, <2>4, <2>5, <2>9, <2>10 DEF Effect
<1>6. QED
  BY <1>4, <1>5

LEMMA PaymentWith ==
  ASSUME NEW r \in Payment, NEW s \in {"PAID", "FAILED", "REFUNDED", "DELETED"}
  PROVE  LET q == [r EXCEPT !.status = s] IN
         /\ q \in Payment /\ q.status = s /\ q.booking = r.booking
         /\ q.amount = r.amount /\ q.workflow = r.workflow
<1>1. [r EXCEPT !.status = s] = [status |-> s, booking |-> r.booking, amount |-> r.amount,
                                 workflow |-> r.workflow]
  BY DEF Payment
<1>2. QED
  BY <1>1 DEF Payment

\* The rows S get the status s.
Restatused(S, s) ==
  /\ S \subseteq PaymentIds
  /\ s \in {"PAID", "FAILED", "REFUNDED", "DELETED"}
  /\ \A p \in S : /\ payments[p] # NoPayment
                  /\ s = "PAID" => payments[p].status = "PENDING"
                  /\ payments[p].status = "DELETED" => s = "DELETED"
                  /\ payments[p].status = "REFUNDED" => s \in {"REFUNDED", "DELETED"}
  /\ payments' = [p \in PaymentIds |-> IF p \in S THEN [payments[p] EXCEPT !.status = s]
                                                  ELSE payments[p]]

LEMMA Restatus ==
  ASSUME TypeOK, Keyed, NEW S, NEW s, Restatused(S, s)
  PROVE  /\ IsTable(payments) /\ IsTable(payments') /\ RowsKept /\ KeyedRows(payments')
         /\ \A p \in PaymentIds : p \notin S => payments'[p] = payments[p]
         /\ \A p \in S : /\ payments'[p].status = s /\ payments'[p] # NoPayment
                         /\ payments'[p].booking = payments[p].booking
                         /\ payments'[p].amount = payments[p].amount
                         /\ payments'[p].workflow = payments[p].workflow
<1> USE DEF Restatused
<1>1. payments \in [PaymentIds -> Payment \cup {NoPayment}]
  BY DEF TypeOK
<1>2. \A p \in PaymentIds : p \notin S => payments'[p] = payments[p]
  OBVIOUS
<1>3. ASSUME NEW p \in S
      PROVE  /\ payments'[p] \in Payment /\ payments'[p].status = s
             /\ payments'[p].booking = payments[p].booking
             /\ payments'[p].amount = payments[p].amount
             /\ payments'[p].workflow = payments[p].workflow
  <2>1. payments[p] \in Payment /\ payments'[p] = [payments[p] EXCEPT !.status = s]
    BY <1>1, <1>3
  <2>2. QED
    BY <2>1, PaymentWith
<1>4. NoPayment \notin Payment
  BY DEF NoPayment, Payment
<1>5. IsTable(payments) /\ IsTable(payments')
  BY <1>1, <1>2, <1>3 DEF IsTable
<1>6. RowsKept
  BY <1>2, <1>3, <1>4 DEF RowsKept
<1>7. KeyedRows(payments')
  BY <1>2, <1>3 DEF KeyedRows, Keyed
<1>8. QED
  BY <1>2, <1>3, <1>4, <1>5, <1>6, <1>7

\* The one row p of booking b becomes or is inserted as a paid one.
LEMMA ChargeEffect ==
  ASSUME LedgerAssumptions, TypeOK, Keyed, Placed, NEW b \in BookingIds, NEW p \in PaymentIds,
         IsTable(payments'), RowsKept, KeyedRows(payments'), UNCHANGED <<bookings, returned>>,
         \A x \in PaymentIds : x # p => payments'[x] = payments[x],
         payments[p].status \in {"NONE", "PENDING"},
         payments[p] = NoPayment \/ payments[p].booking = b,
         payments'[p].status = "PAID", payments'[p].booking = b,
         Exists(b), payments'[p].amount = Price[bookings[b].zone],
         ~Paid(b), collected' = [collected EXCEPT ![b] = @ + payments'[p].amount]
  PROVE  Effect
<1> DEFINE x == payments'[p].amount
<1>1. IsTable(payments) /\ payments'[p] \in Payment
  <2>1. payments'[p] \in Payment \cup {NoPayment}
    BY DEF IsTable
  <2>2. payments'[p] # NoPayment
    BY DEF NoPayment
  <2>3. IsTable(payments)
    BY DEF TypeOK, IsTable
  <2>4. QED
    BY <2>1, <2>2, <2>3
<1>2. x \in Nat
  BY <1>1 DEF Payment, Amounts
<1>3. /\ collected' \in [BookingIds -> Nat] /\ collected'[b] = collected[b] + x
      /\ \A a \in BookingIds : a # b => collected'[a] = collected[a]
  <2> HIDE DEF x
  <2>1. collected' = [collected EXCEPT ![b] = @ + x]
    BY DEF x
  <2>2. QED
    BY <1>2, <2>1 DEF TypeOK
<1>4. Sum(payments', b, "PAID") = x
  <2>1. Of(payments, b, "PAID") = {}
    BY PaidIs
  <2>2. Of(payments', b, "PAID") = {p}
    BY <1>1, <2>1, SumJoins
  <2>3. QED
    BY <1>2, <2>2, SumOfOne DEF Sum
<1>5. Sum(payments', b, "REFUNDED") = Sum(payments, b, "REFUNDED")
  BY <1>1, SumStays
<1>6. Charged(b)
  BY <1>3, <1>4, <1>5 DEF Charged, PaidIn, GivenBack
<1>7. Moved(b)
  BY <1>6, CompensatedStays DEF Moved
<1>8. ASSUME NEW a \in BookingIds, a # b PROVE Moved(a)
  <2>1. \A y \in PaymentIds :
          \/ payments'[y] = payments[y]
          \/ payments'[y].booking # a /\ (payments[y] = NoPayment \/ payments[y].booking # a)
    BY <1>8
  <2>2. UNCHANGED <<collected[a], returned[a], bookings[a]>>
    BY <1>3, <1>8
  <2>3. QED
    BY <1>1, <2>1, <2>2, AloneIsUnmoved
<1>9. \A q \in PaymentIds : payments[q] = NoPayment /\ payments'[q] # NoPayment
        => bookings[payments'[q].booking] # NoBooking
  BY DEF Exists, NoBooking
<1>10. QED
  BY <1>3, <1>7, <1>8, <1>9 DEF Effect, TypeOK

\* Rows that are neither paid nor refunded, before and after.
LEMMA QuietRows ==
  ASSUME LedgerAssumptions, TypeOK, UNCHANGED <<bookings, collected, returned>>,
         IsTable(payments'), RowsKept, KeyedRows(payments'),
         \A p \in PaymentIds : \/ payments'[p] = payments[p]
                               \/ /\ payments'[p].status \notin {"PAID", "REFUNDED"}
                                  /\ payments[p].status \notin {"PAID", "REFUNDED"},
         \A p \in PaymentIds : payments[p] = NoPayment /\ payments'[p] # NoPayment
           => bookings[payments'[p].booking] # NoBooking
  PROVE  Effect
<1>1. IsTable(payments)
  BY DEF TypeOK, IsTable
<1>2. \A b \in BookingIds : Moved(b)
  BY <1>1, AloneIsUnmoved
<1>3. QED
  BY <1>2 DEF Effect, TypeOK

LEMMA PayInsertEffect ==
  ASSUME LedgerAssumptions, TypeOK, Keyed, Placed, Shape, Seen, Standing, NEW c \in Clients, PayInsert(c)
  PROVE  Effect
<1> DEFINE b == txn[c].booking
           s == IF txn[c].kind = "pay" THEN "PAID" ELSE "PENDING"
           r == [status |-> s, booking |-> b, amount |-> txn[c].amount, workflow |-> txn[c].workflow]
<1>1. txn[c].step = "payInsert" /\ txn[c] \in PayTxn
  BY TxnAt DEF PayInsert, Shape
<1>2. /\ b \in BookingIds /\ txn[c].kind \in {"pay", "open"} /\ txn[c].workflow \in Workflows
      /\ txn[c].amount \in Amounts
  BY <1>1 DEF PayTxn
<1>3. Exists(b) /\ bookings[b] # NoBooking /\ txn[c].amount = Price[bookings[b].zone]
  BY <1>1, <1>2 DEF Shape, HoldsBooking, Seen, Standing
<1>4. CASE Refuse(c)
  BY <1>4, NoRowEffect DEF Refuse
<1>5. CASE /\ ~Duplicate(c) /\ UNCHANGED <<bookings, returned>>
           /\ \E p \in PaymentIds : NextPayment(p) /\ payments' = [payments EXCEPT ![p] = r]
           /\ collected' = IF txn[c].kind = "pay"
                             THEN [collected EXCEPT ![b] = @ + txn[c].amount] ELSE collected
  <2>1. PICK p \in PaymentIds : payments[p] = NoPayment /\ payments' = [payments EXCEPT ![p] = r]
    BY <1>5 DEF NextPayment
  <2>2. r \in Payment /\ r.status = s /\ r.booking = b /\ r.amount = txn[c].amount
        /\ r.workflow \in Workflows
    BY <1>2 DEF Payment
  <2> HIDE DEF r
  <2>3. /\ IsTable(payments) /\ IsTable(payments') /\ RowsKept /\ KeyedRows(payments')
        /\ payments'[p] = r /\ \A x \in PaymentIds : x # p => payments'[x] = payments[x]
        /\ payments[p].status = "NONE"
    BY <2>1, <2>2, NewRow
  <2>4. CASE txn[c].kind = "pay"
    <3>1. ~Paid(b)
      BY <1>5, <2>4 DEF Duplicate
    <3>2. collected' = [collected EXCEPT ![b] = @ + payments'[p].amount]
      BY <1>5, <2>2, <2>3, <2>4
    <3>3. payments'[p].status = "PAID" /\ payments'[p].booking = b
          /\ payments'[p].amount = Price[bookings[b].zone]
      BY <1>3, <2>2, <2>3, <2>4
    <3> HIDE DEF b, s
    <3>4. QED
      BY <1>2, <1>3, <1>5, <2>1, <2>3, <3>1, <3>2, <3>3, ChargeEffect
  <2>5. CASE txn[c].kind # "pay"
    <3>1. payments'[p].status = "PENDING" /\ payments'[p].booking = b
      BY <2>2, <2>3, <2>5
    <3>2. UNCHANGED collected
      BY <1>5, <2>5
    <3> HIDE DEF b, s
    <3>3. QED
      BY <1>3, <1>5, <2>3, <3>1, <3>2, QuietRows
  <2>6. QED
    BY <2>4, <2>5
<1>6. QED
  BY <1>4, <1>5 DEF PayInsert

\* An open session is confirmed or expires.
LEMMA OneRestatused ==
  ASSUME TypeOK, NEW p \in PaymentIds, payments[p].status = "PENDING",
         NEW s \in {"PAID", "FAILED"}, payments' = [payments EXCEPT ![p].status = s]
  PROVE  Restatused({p}, s)
<1> DEFINE S == {p}
<1>1. payments' = [q \in PaymentIds |-> IF q \in S THEN [payments[q] EXCEPT !.status = s]
                                                  ELSE payments[q]]
  BY DEF TypeOK
<1>2. S \subseteq PaymentIds /\ \A q \in S : payments[q].status = "PENDING" /\ payments[q] # NoPayment
  BY DEF NoPayment
<1> HIDE DEF S
<1>3. Restatused(S, s)
  BY <1>1, <1>2 DEF Restatused
<1>4. QED
  BY <1>3 DEF S

LEMMA OneRestatus ==
  ASSUME TypeOK, Keyed, NEW p \in PaymentIds, NEW s, Restatused({p}, s)
  PROVE  /\ IsTable(payments) /\ IsTable(payments') /\ RowsKept /\ KeyedRows(payments')
         /\ \A q \in PaymentIds : q # p => payments'[q] = payments[q]
         /\ payments'[p].status = s /\ payments'[p] # NoPayment
         /\ payments'[p].booking = payments[p].booking
         /\ payments'[p].amount = payments[p].amount
<1> DEFINE S == {p}
<1>1. Restatused(S, s) /\ p \in S /\ \A q \in PaymentIds : q # p => q \notin S
  OBVIOUS
<1> HIDE DEF S
<1>2. /\ IsTable(payments) /\ IsTable(payments') /\ RowsKept /\ KeyedRows(payments')
      /\ \A q \in PaymentIds : q \notin S => payments'[q] = payments[q]
      /\ \A q \in S : /\ payments'[q].status = s /\ payments'[q] # NoPayment
                      /\ payments'[q].booking = payments[q].booking
                      /\ payments'[q].amount = payments[q].amount
  BY <1>1, Restatus
<1>3. QED
  BY <1>1, <1>2

LEMMA ConfirmEffect ==
  ASSUME LedgerAssumptions, TypeOK, Keyed, Placed, Shape, OneOpenSession, Standing,
         NEW c \in Clients, ConfirmWrite(c)
  PROVE  Effect
<1> DEFINE p == txn[c].payment
           b == payments[p].booking
<1>1. p \in PaymentIds
  BY TxnAt DEF ConfirmWrite, Shape, ConfirmTxn
<1>2. CASE UNCHANGED <<bookings, payments, collected, returned>>
  BY <1>2, NoRowEffect
<1>3. CASE /\ payments[p].status = "PENDING" /\ ~Paid(b)
           /\ payments' = [payments EXCEPT ![p].status = "PAID"]
           /\ collected' = [collected EXCEPT ![b] = @ + payments[p].amount]
           /\ UNCHANGED <<bookings, returned>>
  <2>1. payments[p] # NoPayment /\ payments[p] \in Payment /\ b \in BookingIds
    BY <1>1, <1>3 DEF TypeOK, NoPayment, Payment
  <2>2. Exists(b) /\ payments[p].amount = Price[bookings[b].zone]
    BY <1>1, <1>3 DEF OneOpenSession, Standing, Pending
  <2>3. /\ IsTable(payments) /\ IsTable(payments') /\ RowsKept /\ KeyedRows(payments')
        /\ \A q \in PaymentIds : q # p => payments'[q] = payments[q]
        /\ payments'[p].status = "PAID" /\ payments'[p] # NoPayment
        /\ payments'[p].booking = payments[p].booking
        /\ payments'[p].amount = payments[p].amount
    BY <1>1, <1>3, OneRestatused, OneRestatus
  <2> HIDE DEF p
  <2>4. QED
    BY <1>1, <1>3, <2>1, <2>2, <2>3, ChargeEffect
<1>4. QED
  BY <1>2, <1>3 DEF ConfirmWrite, Refuse

LEMMA ExpireEffect ==
  ASSUME LedgerAssumptions, TypeOK, Keyed, NEW p \in PaymentIds, ExpireSession(p)
  PROVE  Effect
<1>1. payments[p].status = "PENDING" /\ payments' = [payments EXCEPT ![p].status = "FAILED"]
      /\ UNCHANGED <<bookings, collected, returned>>
  BY DEF ExpireSession
<1>2. /\ IsTable(payments) /\ IsTable(payments') /\ RowsKept /\ KeyedRows(payments')
      /\ \A q \in PaymentIds : q # p => payments'[q] = payments[q]
      /\ payments'[p].status = "FAILED"
  BY <1>1, OneRestatused, OneRestatus
<1>3. QED
  BY <1>1, <1>2, QuietRows DEF NoPayment

LEMMA RefundEffect ==
  ASSUME LedgerAssumptions, TypeOK, Keyed, NEW b \in BookingIds, RefundPayment(b)
  PROVE  Effect
<1> DEFINE S == Rows(b, {"PAID"})
<1>1. S \in SUBSET PaymentIds /\ \A p \in S : payments[p] # NoPayment
  BY DEF Rows, NoPayment
<1>2. \A p \in S : payments[p].status = "PAID" /\ payments[p].booking = b
  BY DEF Rows
<1>3. payments' = [p \in PaymentIds |-> IF p \in S THEN [payments[p] EXCEPT !.status = "REFUNDED"]
                                                  ELSE payments[p]]
  BY DEF RefundPayment
<1>4. \A p \in PaymentIds : p \notin S => payments[p].status # "PAID" \/ payments[p].booking # b
  BY DEF Rows
<1>5. PICK o : o \in S
  BY DEF RefundPayment, Paid
<1> HIDE DEF S
<1>6. /\ IsTable(payments) /\ IsTable(payments') /\ RowsKept /\ KeyedRows(payments')
      /\ \A p \in PaymentIds : p \notin S => payments'[p] = payments[p]
      /\ \A p \in S : /\ payments'[p].status = "REFUNDED" /\ payments'[p] # NoPayment
                      /\ payments'[p].booking = payments[p].booking
                      /\ payments'[p].workflow = payments[p].workflow
  <2>1. Restatused(S, "REFUNDED")
    BY <1>1, <1>2, <1>3 DEF Restatused
  <2>2. QED
    BY <2>1, Restatus
<1>7. \A p \in PaymentIds : ~(payments'[p].status = "PAID" /\ payments'[p].booking = b)
  BY <1>4, <1>6
<1>8. Of(payments', b, "PAID") = {}
  BY <1>7 DEF Of
<1>9. Sum(payments', b, "PAID") = 0
  BY <1>6, <1>8, SumIs
<1>10. /\ collected' \in [BookingIds -> Nat] /\ returned' \in [BookingIds -> Nat]
       /\ UNCHANGED <<collected, bookings>> /\ returned'[b] = returned[b] + PaidIn(b)
       /\ \A a \in BookingIds : a # b => returned'[a] = returned[a]
  <2>1. returned' = [returned EXCEPT ![b] = @ + PaidIn(b)]
    BY TotalsAre DEF RefundPayment
  <2>2. PaidIn(b) \in Nat
    BY <1>6, SumIs DEF PaidIn
  <2>3. QED
    BY <2>1, <2>2 DEF RefundPayment, TypeOK
<1>11. Compensated(b)'
  <2>1. payments[o].workflow \in Workflows
    BY <1>1, <1>2, <1>5 DEF Keyed
  <2>2. o \in PaymentIds /\ payments'[o].booking = b /\ payments'[o].status = "REFUNDED"
        /\ payments'[o].workflow # "none"
    BY <1>1, <1>2, <1>5, <1>6, <2>1 DEF LedgerAssumptions
  <2>3. QED
    BY <2>2, CompensatedIs
<1>12. Moved(b)
  BY <1>9, <1>10, <1>11 DEF Moved, Refunded, RefundPayment, PaidIn
<1>13. ASSUME NEW a \in BookingIds, a # b PROVE Moved(a)
  <2>1. \A p \in PaymentIds : \/ payments'[p] = payments[p]
                              \/ payments'[p].booking # a /\ payments[p].booking # a
    BY <1>1, <1>2, <1>6, <1>13
  <2>2. UNCHANGED <<collected[a], returned[a], bookings[a]>>
    BY <1>10, <1>13
  <2>3. QED
    BY <1>6, <2>1, <2>2, AloneIsUnmoved
<1>14. \A p \in PaymentIds : payments[p] = NoPayment => payments'[p] = NoPayment
  BY <1>1, <1>6
<1>15. QED
  BY <1>6, <1>10, <1>12, <1>13, <1>14 DEF Effect

LEMMA DeleteEffect ==
  ASSUME LedgerAssumptions, TypeOK, Keyed, NEW b \in BookingIds, DeleteBooking(b)
  PROVE  Effect
<1> DEFINE S == Rows(b, LiveStatuses \ {"PAID"})
<1>1. S \in SUBSET PaymentIds /\ \A p \in S : payments[p] # NoPayment
  BY DEF Rows, NoPayment, LiveStatuses
<1>2. \A p \in S : payments[p].booking = b /\ payments[p].status # "PAID"
  BY DEF Rows
<1>3. payments' = [p \in PaymentIds |-> IF p \in S THEN [payments[p] EXCEPT !.status = "DELETED"]
                                                  ELSE payments[p]]
  BY DEF DeleteBooking
<1>4. Restatused(S, "DELETED")
  BY <1>1, <1>2, <1>3 DEF Restatused
<1>5. UNCHANGED <<collected, returned>> /\ \A a \in BookingIds : a # b => UNCHANGED bookings[a]
  BY DEF DeleteBooking, TypeOK
<1>6. Paid(b) => UNCHANGED bookings[b]
  BY DEF DeleteBooking
<1> HIDE DEF S
<1>7. /\ IsTable(payments) /\ IsTable(payments') /\ RowsKept /\ KeyedRows(payments')
      /\ \A p \in PaymentIds : p \notin S => payments'[p] = payments[p]
      /\ \A p \in S : /\ payments'[p].status = "DELETED" /\ payments'[p] # NoPayment
                      /\ payments'[p].booking = payments[p].booking
  BY <1>4, Restatus
<1>8. Moved(b)
  <2>1. Sum(payments', b, "PAID") = Sum(payments, b, "PAID")
    <3>1. \A p \in PaymentIds : \/ payments'[p] = payments[p]
                                \/ payments'[p].status # "PAID" /\ payments[p].status # "PAID"
      BY <1>2, <1>7
    <3>2. QED
      BY <1>7, <3>1, SumStays
  <2>2. CASE S = {}
    <3>1. \A p \in PaymentIds : payments'[p] = payments[p]
      BY <1>7, <2>2
    <3>2. QED
      BY <1>5, <1>6, <1>7, <3>1, AloneIsUnmoved
  <2>3. CASE S # {}
    <3>1. PICK p \in PaymentIds : payments'[p].booking = b /\ payments'[p].status = "DELETED"
      BY <1>1, <1>2, <1>7, <2>3
    <3>2. Compensated(b)'
      BY <3>1, CompensatedIs
    <3>3. Unmoved(b)
      BY <1>5, <1>6, <2>1, <3>2 DEF Unmoved, PaidIn
    <3>4. QED
      BY <3>2, <3>3 DEF Moved
  <2>4. QED
    BY <2>2, <2>3
<1>9. ASSUME NEW a \in BookingIds, a # b PROVE Moved(a)
  <2>1. \A p \in PaymentIds : \/ payments'[p] = payments[p]
                              \/ payments'[p].booking # a /\ payments[p].booking # a
    BY <1>1, <1>2, <1>7, <1>9
  <2>2. UNCHANGED <<collected[a], returned[a], bookings[a]>>
    BY <1>5, <1>9
  <2>3. QED
    BY <1>7, <2>1, <2>2, AloneIsUnmoved
<1>10. \A p \in PaymentIds : payments[p] = NoPayment => payments'[p] = NoPayment
  BY <1>1, <1>7
<1>11. collected' \in [BookingIds -> Nat] /\ returned' \in [BookingIds -> Nat]
  BY <1>5 DEF TypeOK
<1>12. QED
  BY <1>7, <1>8, <1>9, <1>10, <1>11 DEF Effect

LEMMA ChangeEffect ==
  ASSUME LedgerAssumptions, TypeOK, Keyed, Placed, Shape, NEW c \in Clients, ChangeWrite(c)
  PROVE  Effect
<1> DEFINE b == txn[c].booking
           z == txn[c].zone
<1>1. b \in BookingIds /\ z \in Zones
  BY TxnAt DEF ChangeWrite, Shape, ChangeTxn
<1>2. bookings[b] # NoBooking /\ bookings[b] \in Booking
  BY <1>1 DEF ChangeWrite, Shape, HoldsBooking
<1>3. Price[z] \in Nat
  BY <1>1 DEF LedgerAssumptions
<1>4. CASE Refuse(c)
  BY <1>4, NoRowEffect DEF Refuse
<1>5. CASE /\ ~TopUpRequired(b, Price[z]) /\ bookings' = [bookings EXCEPT ![b].zone = z]
           /\ SettleDifference(b, Price[z]) /\ UNCHANGED collected
  <2>1. bookings'[b].zone = z /\ \A a \in BookingIds : a # b => UNCHANGED bookings[a]
    <3>1. [bookings[b] EXCEPT !.zone = z].zone = z
      BY <1>1, <1>2, BookingWith
    <3>2. QED
      BY <1>1, <1>5, <3>1 DEF TypeOK
  <2> HIDE DEF b, z
  <2> DEFINE price == Price[z]
  <2>2. price \in Nat /\ ~TopUpRequired(b, price) /\ SettleDifference(b, price)
        /\ (bookings'[b].status = "ACTIVE" => price = Price[bookings'[b].zone])
    BY <1>3, <1>5, <2>1
  <2> HIDE DEF price
  <2>3. QED
    BY <1>1, <1>2, <1>5, <2>1, <2>2, SettleEffect
<1>6. QED
  BY <1>4, <1>5 DEF ChangeWrite

LEMMA CancelEffect ==
  ASSUME LedgerAssumptions, TypeOK, Keyed, Placed, NEW b \in BookingIds, CancelParking(b)
  PROVE  Effect
<1>1. bookings[b] # NoBooking /\ bookings[b] \in Booking
  BY DEF CancelParking, NoBooking, TypeOK
<1>2. bookings'[b].status = "CANCELLED" /\ \A a \in BookingIds : a # b => UNCHANGED bookings[a]
  <2>1. [bookings[b] EXCEPT !.status = "CANCELLED"].status = "CANCELLED"
    BY <1>1 DEF Booking
  <2>2. QED
    BY <2>1 DEF CancelParking, TypeOK
<1>3. CASE UNCHANGED <<payments, returned>>
  BY <1>2, <1>3, NoRowEffect DEF CancelParking
<1>4. CASE ~TopUpRequired(b, 0) /\ SettleDifference(b, 0)
  BY <1>1, <1>2, <1>4, SettleEffect DEF CancelParking
<1>5. QED
  BY <1>3, <1>4 DEF CancelParking

MoneyInv ==
  /\ Shape /\ Locked /\ OneOpenSession /\ Seen
  /\ TypeOK /\ Keyed /\ Placed /\ Standing
  /\ \A b \in BookingIds : Covered(b) /\ Even(b)

LEMMA EveryEffect ==
  ASSUME LedgerAssumptions, Shape, OneOpenSession, Seen, TypeOK, Keyed, Placed, Standing,
         [Next]_vars
  PROVE  Effect
<1>1. CASE UNCHANGED <<bookings, payments, collected, returned>>
  BY <1>1, NoRowEffect
<1>2. ASSUME NEW c \in Clients, Statement(c) PROVE Effect
  <2>1. CASE BookCount(c) \/ ChangeGuard(c) \/ ChangeLockZone(c) \/ ChangeCount(c)
             \/ PayLock(c) \/ PayCheck(c) \/ Return(c)
    <3>1. UNCHANGED <<bookings, payments, collected, returned>>
      BY <2>1 DEF BookCount, ChangeGuard, ChangeLockZone, ChangeCount, PayLock, PayCheck, Return,
                  Refuse, Advance, Answer
    <3>2. QED
      BY <1>1, <3>1
  <2>2. CASE BookInsert(c)
    BY <2>2, InsertEffect DEF BookInsert
  <2>3. QED
    BY <1>2, <2>1, <2>2, ChangeEffect, PayInsertEffect, ConfirmEffect DEF Statement
<1>3. ASSUME NEW c \in Clients,
             \/ \E v \in Vehicles, z \in Zones : BookLock(c, v, z)
             \/ \E b \in BookingIds, z \in Zones : ChangeLock(c, b, z)
             \/ \E kind \in {"pay", "open"}, w \in Workflows, b \in BookingIds, z \in Zones :
                  PayLookup(c, kind, w, b, Price[z])
             \/ \E p \in PaymentIds : ConfirmRead(c, p)
      PROVE  Effect
  BY <1>1, <1>3 DEF BookLock, ChangeLock, PayLookup, ConfirmRead
<1>4. ASSUME NEW v \in Vehicles, NEW z \in Zones, BookApproved(v, z) PROVE Effect
  BY <1>4, InsertEffect DEF BookApproved
<1>5. ASSUME NEW b \in BookingIds, CancelParking(b) \/ RefundPayment(b) \/ DeleteBooking(b)
      PROVE  Effect
  BY <1>5, CancelEffect, RefundEffect, DeleteEffect
<1>6. ASSUME NEW p \in PaymentIds, ExpireSession(p) PROVE Effect
  BY <1>6, ExpireEffect
<1>7. CASE WindowCloses
  BY <1>1, <1>7 DEF WindowCloses
<1>8. CASE UNCHANGED vars
  BY <1>1, <1>8 DEF vars
<1>9. QED
  BY <1>2, <1>3, <1>4, <1>5, <1>6, <1>7, <1>8 DEF Next

\* Only two steps answer.
LEMMA ReplyStep ==
  ASSUME LedgerAssumptions, Shape, TypeOK, Keyed, [Next]_vars, NEW c \in Clients,
         txn'[c].step = "reply"
  PROVE  txn'[c] \in Reply
<1>1. CASE txn'[c] = txn[c]
  BY <1>1 DEF TypeOK, Idle, BookTxn, ChangeTxn, PayTxn, ConfirmTxn
<1> SUFFICES ASSUME txn'[c] # txn[c] PROVE txn'[c] \in Reply
  BY <1>1
<1>2. \A d \in Clients : \A t : Goto(d, t) => txn'[c] = IF d = c THEN t ELSE txn[c]
  BY DEF Goto, Shape
<1>3. ASSUME NEW d \in Clients, Refuse(d) PROVE FALSE
  BY <1>2, <1>3 DEF Refuse, Idle
<1>4. ASSUME NEW d \in Clients, NEW s, s # "reply", Advance(d, s),
             txn[d] \in BookTxn \cup ChangeTxn \cup PayTxn
      PROVE  FALSE
  <2>1. txn'[c] = AtStep(c, s) /\ d = c
    BY <1>2, <1>4 DEF Advance
  <2>2. AtStep(c, s).step = s
    BY <1>4, <2>1 DEF AtStep, BookTxn, ChangeTxn, PayTxn
  <2>3. QED
    BY <1>4, <2>1, <2>2
<1>5. ASSUME NEW d \in Clients, Answer(d, "PAYMENT_ALREADY_COMPLETED"), txn[d].step = "payCheck"
      PROVE  txn'[c] \in Reply
  <2>1. txn[d] \in PayTxn
    BY <1>5, TxnAt DEF Shape
  <2>2. QED
    BY <1>2, <1>5, <2>1 DEF Answer, PayTxn, Reply
<1>6. ASSUME NEW d \in Clients, ConfirmWrite(d) PROVE txn'[c] \in Reply
  <2>1. txn[d].payment \in PaymentIds
    BY <1>6, TxnAt DEF ConfirmWrite, Shape, ConfirmTxn
  <2>2. /\ payments[txn[d].payment] # NoPayment
        /\ payments[txn[d].payment].workflow \in Workflows
        /\ payments[txn[d].payment].booking \in BookingIds
    BY <1>6, <2>1 DEF ConfirmWrite, Keyed, TypeOK, Payment
  <2>3. QED
    BY <1>2, <1>3, <1>6, <2>2 DEF ConfirmWrite, Reply, Idle
<1>7. ASSUME NEW d \in Clients, Statement(d) PROVE txn'[c] \in Reply
  <2>1. /\ txn[d].step = "bookCount" => txn[d] \in BookTxn
        /\ txn[d].step \in {"changeGuard", "changeLock", "changeCount"} => txn[d] \in ChangeTxn
        /\ txn[d].step \in {"payLock", "payCheck"} => txn[d] \in PayTxn
    BY TxnAt DEF Shape
  <2>2. CASE BookCount(d) \/ ChangeGuard(d) \/ ChangeLockZone(d) \/ ChangeCount(d)
             \/ PayLock(d) \/ Return(d)
    BY <1>3, <1>4, <2>1, <2>2 DEF BookCount, ChangeGuard, ChangeLockZone, ChangeCount, PayLock, Return
  <2>3. CASE PayCheck(d)
    BY <1>3, <1>4, <1>5, <2>1, <2>3 DEF PayCheck
  <2>4. CASE BookInsert(d) \/ ChangeWrite(d) \/ PayInsert(d)
    <3>1. Goto(d, Idle) \/ Refuse(d)
      BY <2>4 DEF BookInsert, ChangeWrite, PayInsert
    <3>2. QED
      BY <1>2, <1>3, <3>1 DEF Idle
  <2>5. QED
    BY <1>6, <1>7, <2>2, <2>3, <2>4 DEF Statement
<1>8. ASSUME NEW d \in Clients,
             \/ \E v \in Vehicles, z \in Zones : BookLock(d, v, z)
             \/ \E b \in BookingIds, z \in Zones : ChangeLock(d, b, z)
             \/ \E kind \in {"pay", "open"}, w \in Workflows, b \in BookingIds, z \in Zones :
                  PayLookup(d, kind, w, b, Price[z])
             \/ \E p \in PaymentIds : ConfirmRead(d, p)
      PROVE  FALSE
  <2>1. PICK t : Goto(d, t) /\ t.step \in {"bookCount", "changeGuard", "payLock", "confirmWrite"}
    <3>1. CASE \E v \in Vehicles, z \in Zones : BookLock(d, v, z)
      BY <3>1 DEF BookLock
    <3>2. CASE \E b \in BookingIds, z \in Zones : ChangeLock(d, b, z)
      BY <3>2 DEF ChangeLock
    <3>3. CASE \E kind \in {"pay", "open"}, w \in Workflows, b \in BookingIds, z \in Zones :
                 PayLookup(d, kind, w, b, Price[z])
      BY <3>3 DEF PayLookup
    <3>4. CASE \E p \in PaymentIds : ConfirmRead(d, p)
      BY <3>4 DEF ConfirmRead
    <3>5. QED
      BY <1>8, <3>1, <3>2, <3>3, <3>4
  <2>2. QED
    BY <1>2, <2>1
<1>9. QED
  BY <1>7, <1>8 DEF Next, vars, BookApproved, CancelParking, RefundPayment, DeleteBooking,
                    ExpireSession, WindowCloses

\* Only one step is about to confirm.
LEMMA ConfirmStep ==
  ASSUME LedgerAssumptions, Shape, TypeOK, [Next]_vars, NEW c \in Clients,
         txn'[c].step = "confirmWrite", txn'[c] # txn[c]
  PROVE  /\ txn'[c].payment \in PaymentIds /\ UNCHANGED payments
         /\ payments[txn'[c].payment].status = "PENDING"
<1>1. \A d \in Clients : \A t : Goto(d, t) => txn'[c] = IF d = c THEN t ELSE txn[c]
  BY DEF Goto, Shape
<1>2. ASSUME NEW d \in Clients, Refuse(d) PROVE FALSE
  BY <1>1, <1>2 DEF Refuse, Idle
<1>3. ASSUME NEW d \in Clients, NEW t, Goto(d, t), t.step # "confirmWrite" PROVE FALSE
  BY <1>1, <1>3
<1>4. ASSUME NEW d \in Clients, NEW s, s # "confirmWrite", Advance(d, s),
             txn[d] \in BookTxn \cup ChangeTxn \cup PayTxn
      PROVE  FALSE
  <2>1. txn'[c] = AtStep(c, s) /\ d = c
    BY <1>1, <1>4 DEF Advance
  <2>2. AtStep(c, s).step = s
    BY <1>4, <2>1 DEF AtStep, BookTxn, ChangeTxn, PayTxn
  <2>3. QED
    BY <1>4, <2>1, <2>2
<1>5. ASSUME NEW d \in Clients, Statement(d) PROVE FALSE
  <2>1. /\ txn[d].step = "bookCount" => txn[d] \in BookTxn
        /\ txn[d].step \in {"changeGuard", "changeLock", "changeCount"} => txn[d] \in ChangeTxn
        /\ txn[d].step \in {"payLock", "payCheck"} => txn[d] \in PayTxn
    BY TxnAt DEF Shape
  <2>2. CASE BookCount(d) \/ ChangeGuard(d) \/ ChangeLockZone(d) \/ ChangeCount(d)
             \/ PayLock(d) \/ Return(d)
    BY <1>2, <1>4, <2>1, <2>2 DEF BookCount, ChangeGuard, ChangeLockZone, ChangeCount, PayLock, Return
  <2>3. CASE PayCheck(d)
    BY <1>2, <1>3, <1>4, <2>1, <2>3 DEF PayCheck, Answer
  <2>4. CASE BookInsert(d) \/ ChangeWrite(d) \/ PayInsert(d) \/ ConfirmWrite(d)
    <3>1. Refuse(d) \/ \E t : Goto(d, t) /\ t.step # "confirmWrite"
      <4>1. CASE BookInsert(d) \/ ChangeWrite(d) \/ PayInsert(d)
        <5>1. Refuse(d) \/ Goto(d, Idle)
          BY <4>1 DEF BookInsert, ChangeWrite, PayInsert
        <5>2. Idle.step # "confirmWrite"
          BY DEF Idle
        <5>3. QED
          BY <5>1, <5>2
      <4>2. CASE ConfirmWrite(d)
        BY <4>2 DEF ConfirmWrite, Idle
      <4>3. QED
        BY <2>4, <4>1, <4>2
    <3>2. QED
      BY <1>2, <1>3, <3>1
  <2>5. QED
    BY <1>5, <2>2, <2>3, <2>4 DEF Statement
<1>6. ASSUME NEW d \in Clients,
             \/ \E v \in Vehicles, z \in Zones : BookLock(d, v, z)
             \/ \E b \in BookingIds, z \in Zones : ChangeLock(d, b, z)
             \/ \E kind \in {"pay", "open"}, w \in Workflows, b \in BookingIds, z \in Zones :
                  PayLookup(d, kind, w, b, Price[z])
      PROVE  FALSE
  <2>1. PICK t : Goto(d, t) /\ t.step \in {"bookCount", "changeGuard", "payLock"}
    <3>1. CASE \E v \in Vehicles, z \in Zones : BookLock(d, v, z)
      BY <3>1 DEF BookLock
    <3>2. CASE \E b \in BookingIds, z \in Zones : ChangeLock(d, b, z)
      BY <3>2 DEF ChangeLock
    <3>3. CASE \E kind \in {"pay", "open"}, w \in Workflows, b \in BookingIds, z \in Zones :
                 PayLookup(d, kind, w, b, Price[z])
      BY <3>3 DEF PayLookup
    <3>4. QED
      BY <1>6, <3>1, <3>2, <3>3
  <2>2. QED
    BY <1>3, <2>1
<1>7. ASSUME NEW d \in Clients, NEW p \in PaymentIds, ConfirmRead(d, p)
      PROVE  txn'[c].payment = p /\ UNCHANGED payments /\ payments[p].status = "PENDING"
  BY <1>1, <1>7 DEF ConfirmRead
<1>8. QED
  BY <1>5, <1>6, <1>7 DEF Next, vars, BookApproved, CancelParking, RefundPayment, DeleteBooking,
                         ExpireSession, WindowCloses

LEMMA LateStep == ASSUME late \in BOOLEAN, [Next]_vars PROVE late' \in BOOLEAN
<1>1. ASSUME NEW c \in Clients, Statement(c) PROVE UNCHANGED late
  BY <1>1 DEF Statement, BookCount, BookInsert, ChangeGuard, ChangeLockZone, ChangeCount, ChangeWrite,
              PayLock, PayCheck, PayInsert, ConfirmWrite, Return, Refuse, Advance, Answer
<1>2. QED
  BY <1>1 DEF Next, vars, BookLock, ChangeLock, PayLookup, ConfirmRead, BookApproved, CancelParking,
              RefundPayment, DeleteBooking, ExpireSession, WindowCloses

LEMMA TypeStep ==
  ASSUME LedgerAssumptions, Shape, TypeOK, Keyed, Effect, [Next]_vars
  PROVE  TypeOK'
<1>1. bookings' \in [BookingIds -> Booking \cup {NoBooking}]
  BY BookingStep
<1>2. txn' \in [Clients -> {Idle} \cup BookTxn \cup ChangeTxn \cup PayTxn \cup ConfirmTxn \cup Reply]
  <2>1. CASE \E c \in Clients : TRUE
    <3>1. \E S : txn' \in [Clients -> S]
      BY <2>1, TxnStep
    <3>2. ASSUME NEW c \in Clients
          PROVE  txn'[c] \in {Idle} \cup BookTxn \cup ChangeTxn \cup PayTxn \cup ConfirmTxn \cup Reply
      BY ShapeStep, ReplyStep DEF Shape, IsTxn
    <3>3. QED
      BY <3>1, <3>2
  <2>2. CASE ~\E c \in Clients : TRUE
    <3>1. UNCHANGED txn
      BY <2>2, EveryStep DEF Step, Withdraws
    <3>2. QED
      BY <3>1 DEF TypeOK
  <2>3. QED
    BY <2>1, <2>2
<1>3. late' \in BOOLEAN
  BY LateStep DEF TypeOK
<1>4. QED
  BY <1>1, <1>2, <1>3 DEF TypeOK, Effect, IsTable

LEMMA KeyedStep ==
  ASSUME LedgerAssumptions, Shape, TypeOK, Keyed, Effect, [Next]_vars
  PROVE  Keyed'
<1>1. ASSUME NEW c \in Clients, txn'[c].step = "confirmWrite"
      PROVE  payments'[txn'[c].payment] # NoPayment /\ payments'[txn'[c].payment].workflow \in Workflows
  <2>1. CASE txn'[c] = txn[c]
    <3>1. txn[c].payment \in PaymentIds
      BY <1>1, <2>1, TxnAt DEF Shape, ConfirmTxn
    <3>2. QED
      BY <1>1, <2>1, <3>1 DEF Keyed, Effect, RowsKept
  <2>2. CASE txn'[c] # txn[c]
    <3>1. /\ txn'[c].payment \in PaymentIds /\ payments' = payments
          /\ payments[txn'[c].payment].status = "PENDING"
      BY <1>1, <2>2, ConfirmStep
    <3>2. payments[txn'[c].payment].workflow \in Workflows
      BY <3>1 DEF Keyed
    <3>3. payments[txn'[c].payment] # NoPayment
      BY <3>1 DEF NoPayment
    <3>4. QED
      BY <3>1, <3>2, <3>3
  <2>3. QED
    BY <2>1, <2>2
<1>2. QED
  BY <1>1 DEF Keyed, Effect, KeyedRows

LEMMA PlacedStep ==
  ASSUME LedgerAssumptions, Shape, TypeOK, Placed, Effect, [Next]_vars
  PROVE  Placed'
<1> SUFFICES ASSUME NEW p \in PaymentIds, payments'[p] # NoPayment
             PROVE  bookings'[payments'[p].booking] # NoBooking
  BY DEF Placed
<1> DEFINE b == payments'[p].booking
<1>1. b \in BookingIds
  BY DEF Effect, IsTable, Payment
<1>2. bookings[b] # NoBooking
  BY DEF Placed, Effect, RowsKept
<1>3. QED
  BY <1>1, <1>2, BookingStep

\* A booking ends deleted only with nothing paid in it, by the one step that
\* changes its status so; that step takes the open session along.
LEMMA GoneStep ==
  ASSUME LedgerAssumptions, Shape, [Next]_vars, NEW b \in BookingIds, bookings[b] # NoBooking
  PROVE  \/ bookings'[b].status = bookings[b].status
         \/ bookings[b].status = "ACTIVE" /\ bookings'[b].status = "CANCELLED"
         \/ /\ Exists(b) /\ bookings'[b].status = "DELETED"
            /\ BookingFree(b) /\ ~Paid(b) /\ UNCHANGED <<txn, collected, returned>>
            /\ \A p \in PaymentIds : Pending(p)' => Pending(p) /\ payments'[p] = payments[p]
                                                    /\ payments[p].booking # b
<1> DEFINE Same == bookings'[b].status = bookings[b].status
           Cancelled == bookings[b].status = "ACTIVE" /\ bookings'[b].status = "CANCELLED"
           Deleted == /\ Exists(b) /\ bookings'[b].status = "DELETED"
                      /\ BookingFree(b) /\ ~Paid(b) /\ UNCHANGED <<txn, collected, returned>>
                      /\ \A p \in PaymentIds : Pending(p)' => /\ Pending(p) /\ payments'[p] = payments[p]
                                                              /\ payments[p].booking # b
<1>1. CASE UNCHANGED bookings
  BY <1>1
<1>2. ASSUME NEW v, NEW z, NEW k, InsertBooking(v, z, k) PROVE Same
  BY <1>2 DEF InsertBooking, NextBooking, Shape
<1>3. ASSUME NEW c \in Clients, ChangeWrite(c) PROVE Same
  <2>1. CASE UNCHANGED bookings
    BY <2>1
  <2> DEFINE a == txn[c].booking
  <2>2. CASE bookings' = [bookings EXCEPT ![a].zone = txn[c].zone]
    <3>1. bookings[b] \in Booking
      BY DEF Shape
    <3>2. [bookings[b] EXCEPT !.zone = txn[c].zone].status = bookings[b].status
      BY <3>1 DEF Booking
    <3> HIDE DEF a
    <3>3. QED
      BY <2>2, <3>2 DEF Shape
  <2>3. QED
    BY <1>3, <2>1, <2>2 DEF ChangeWrite, Refuse
<1>4. ASSUME NEW a \in BookingIds, CancelParking(a) PROVE Same \/ Cancelled
  <2>1. CASE a # b
    BY <1>4, <2>1 DEF CancelParking, Shape
  <2>2. CASE a = b
    <3>1. [bookings[b] EXCEPT !.status = "CANCELLED"].status = "CANCELLED"
      BY DEF Shape, Booking
    <3>2. QED
      BY <1>4, <2>2, <3>1 DEF CancelParking, Shape
  <2>3. QED
    BY <2>1, <2>2
<1>5. ASSUME NEW a \in BookingIds, DeleteBooking(a) PROVE Same \/ Deleted
  <2>1. CASE a # b
    BY <1>5, <2>1 DEF DeleteBooking, Shape
  <2>2. CASE Paid(a)
    BY <1>5, <2>2 DEF DeleteBooking
  <2>3. CASE a = b /\ ~Paid(b)
    <3>1. [bookings[b] EXCEPT !.status = "DELETED"].status = "DELETED"
      BY DEF Shape, Booking
    <3>2. bookings'[b].status = "DELETED" /\ Exists(b) /\ BookingFree(b)
          /\ UNCHANGED <<txn, collected, returned>>
      BY <1>5, <2>3, <3>1 DEF DeleteBooking, Shape
    <3>3. ASSUME NEW p \in PaymentIds, Pending(p)'
          PROVE  Pending(p) /\ payments'[p] = payments[p] /\ payments[p].booking # b
      <4>1. NoNewSession
        BY <1>5, DeleteRows
      <4>2. Pending(p) /\ payments'[p] = payments[p]
        BY <3>3, <4>1 DEF NoNewSession, Pending
      <4>3. payments[p] # NoPayment /\ Row(payments[p])
        BY <4>2 DEF Shape, Pending, NoPayment
      <4>4. [payments[p] EXCEPT !.status = "DELETED"].status # "PENDING"
        BY <4>3, RowWith
      <4>5. p \notin Rows(b, LiveStatuses \ {"PAID"})
        BY <1>5, <2>3, <3>3, <4>4 DEF DeleteBooking, Pending
      <4>6. QED
        BY <4>2, <4>5 DEF Rows, LiveStatuses, Pending
    <3>4. QED
      BY <2>3, <3>2, <3>3
  <2>4. QED
    BY <2>1, <2>2, <2>3
<1>6. ASSUME NEW c \in Clients, Statement(c) PROVE Same
  <2>1. CASE BookCount(c) \/ ChangeGuard(c) \/ ChangeLockZone(c) \/ ChangeCount(c)
             \/ PayLock(c) \/ PayCheck(c) \/ PayInsert(c) \/ ConfirmWrite(c) \/ Return(c)
    <3>1. UNCHANGED bookings
      BY <2>1 DEF BookCount, ChangeGuard, ChangeLockZone, ChangeCount, PayLock, PayCheck, PayInsert,
                  ConfirmWrite, Return, Refuse, Advance, Answer
    <3>2. QED
      BY <3>1
  <2>2. QED
    BY <1>2, <1>3, <1>6, <2>1 DEF Statement, BookInsert
<1>7. CASE \E c \in Clients :
             \/ \E v \in Vehicles, z \in Zones : BookLock(c, v, z)
             \/ \E a \in BookingIds, z \in Zones : ChangeLock(c, a, z)
             \/ \E kind \in {"pay", "open"}, w \in Workflows, a \in BookingIds, z \in Zones :
                  PayLookup(c, kind, w, a, Price[z])
             \/ \E p \in PaymentIds : ConfirmRead(c, p)
  BY <1>1, <1>7 DEF BookLock, ChangeLock, PayLookup, ConfirmRead
<1>8. CASE \/ \E a \in BookingIds : RefundPayment(a)
           \/ \E p \in PaymentIds : ExpireSession(p)
           \/ WindowCloses
           \/ UNCHANGED vars
  BY <1>1, <1>8 DEF RefundPayment, ExpireSession, WindowCloses, vars
<1>9. CASE \E v \in Vehicles, z \in Zones : BookApproved(v, z)
  BY <1>2, <1>9 DEF BookApproved
<1>10. QED
  BY <1>4, <1>5, <1>6, <1>7, <1>8, <1>9, Zenon DEF Next

LEMMA StandingStep ==
  ASSUME LedgerAssumptions, Shape, Standing, [Next]_vars
  PROVE  Standing'
<1>1. ASSUME NEW b \in BookingIds, Exists(b), bookings'[b].status \notin {"ACTIVE", "CANCELLED"}
      PROVE  /\ BookingFree(b) /\ UNCHANGED txn
             /\ \A p \in PaymentIds : Pending(p)' => Pending(p) /\ payments'[p] = payments[p]
                                                     /\ payments[p].booking # b
  <2>1. bookings[b] # NoBooking
    BY <1>1 DEF Exists, NoBooking
  <2>2. QED
    BY <1>1, <2>1, GoneStep DEF Exists
<1>2. ASSUME NEW c \in Clients, txn'[c].step \in {"payCheck", "payInsert"}
      PROVE  bookings'[txn'[c].booking].status \in {"ACTIVE", "CANCELLED"}
  <2> DEFINE b == txn'[c].booking
  <2>1. b \in BookingIds
    BY <1>2, ShapeStep, TxnAt DEF Shape, PayTxn
  <2>2. CASE txn'[c] = txn[c]
    <3>1. Exists(b) /\ HoldsBooking(c, b)
      BY <1>2, <2>2 DEF Standing, HoldsBooking
    <3>2. QED
      BY <1>1, <2>1, <3>1 DEF BookingFree
  <2>3. CASE txn'[c] # txn[c]
    <3>1. UNCHANGED bookings /\ MayBe(c, txn'[c])
      BY <1>2, <2>3, TxnStep DEF Idle
    <3>2. Exists(b)
      BY <1>2, <3>1 DEF MayBe, Standing
    <3>3. QED
      BY <3>1, <3>2 DEF Exists
  <2>4. QED
    BY <2>2, <2>3
<1>3. ASSUME NEW p \in PaymentIds, Pending(p)' 
      PROVE  bookings'[payments'[p].booking].status \in {"ACTIVE", "CANCELLED"}
  <2>1. CASE Pending(p) /\ payments'[p] = payments[p]
    <3>1. Exists(payments[p].booking) /\ payments[p].booking \in BookingIds
      <4>1. payments[p] # NoPayment
        BY <2>1 DEF Pending, NoPayment
      <4>2. QED
        BY <2>1, <4>1 DEF Standing, Shape, Row
    <3>2. QED
      BY <1>1, <1>3, <2>1, <3>1
  <2>2. CASE \E c \in Clients : /\ txn[c].step = "payInsert" /\ UNCHANGED bookings
                                /\ payments'[p].booking = txn[c].booking
    BY <2>2 DEF Standing, Exists
  <2>3. QED
    BY <1>3, <2>1, <2>2, SessionStep
<1>4. QED
  BY <1>2, <1>3 DEF Standing, Exists

LEMMA MoneyInvStep ==
  ASSUME LedgerAssumptions, MoneyInv, [Next]_vars
  PROVE  MoneyInv' /\ Effect
<1>1. Effect
  BY EveryEffect DEF MoneyInv
<1>2. Shape' /\ Locked' /\ OneOpenSession' /\ Seen'
  BY ShapeStep, LockedStep, OneOpenSessionStep, SeenStep DEF MoneyInv
<1>3. TypeOK' /\ Keyed' /\ Placed' /\ Standing'
  BY <1>1, TypeStep, KeyedStep, PlacedStep, StandingStep DEF MoneyInv
<1>4. ASSUME NEW b \in BookingIds PROVE Covered(b)' /\ Even(b)'
  <2>1. \A a \in BookingIds : bookings[a] # NoBooking => bookings[a].zone \in Zones
    BY DEF MoneyInv, TypeOK, Booking
  <2>2. QED
    BY <1>1, <2>1, MoneyStep DEF MoneyInv, Effect
<1>5. QED
  BY <1>1, <1>2, <1>3, <1>4 DEF MoneyInv

LEMMA NoMoneyYet ==
  ASSUME LedgerAssumptions, payments = [p \in PaymentIds |-> NoPayment],
         collected = [b \in BookingIds |-> 0], returned = [b \in BookingIds |-> 0],
         NEW b \in BookingIds
  PROVE  Covered(b) /\ Even(b)
<1>1. Of(payments, b, "PAID") = {} /\ Of(payments, b, "REFUNDED") = {} /\ IsTable(payments)
  BY DEF Of, NoPayment, IsTable
<1>2. PaidIn(b) = 0 /\ GivenBack(b) = 0 /\ ~Paid(b)
  BY <1>1, SumIs, PaidIs DEF PaidIn, GivenBack
<1>3. QED
  BY <1>2 DEF Covered, Even

-------------------------------------------------------------------------------
(* The theorems *)

LEMMA InitHolds ==
  ASSUME Init, LedgerAssumptions
  PROVE  Shape /\ Locked /\ Counted /\ CapacityHeld /\ OneOpenSession /\ Seen
<1>1. /\ \A b \in BookingIds : bookings[b] = NoBooking
      /\ \A p \in PaymentIds : payments[p] = NoPayment
      /\ \A c \in Clients : txn[c] = Idle
  BY DEF Init
<1>2. Shape
  <2>1. bookings \in [BookingIds -> Booking \cup {NoBooking}]
    BY DEF Init
  <2>2. \E S : txn \in [Clients -> S]
    <3>1. txn \in [Clients -> {Idle}]
      BY DEF Init
    <3>2. QED
      BY <3>1
  <2>3. Table(payments)
    <3>1. payments \in [PaymentIds -> {NoPayment}]
      BY DEF Init
    <3>2. QED
      BY <3>1 DEF Table
  <2>4. QED
    BY <1>1, <2>1, <2>2, <2>3 DEF Shape, IsTxn, HoldsBooking, Idle
<1>3. Locked /\ Counted
  BY <1>1 DEF Locked, Counted, HoldsBooking, HoldsZone, Idle
<1>4. CapacityHeld
  <2> SUFFICES ASSUME NEW z \in Zones PROVE Cardinality(Checked(z)) <= Capacity[z]
    BY DEF CapacityHeld
  <2>1. \A b \in BookingIds : bookings[b].status = "NONE"
    <3>1. NoBooking.status = "NONE"
      BY DEF NoBooking
    <3>2. QED
      BY <1>1, <3>1
  <2>2. Checked(z) = {}
    BY <2>1 DEF Checked, Active
  <2>3. Cardinality(Checked(z)) = 0
    BY <2>2, FS_EmptySet
  <2>4. Capacity[z] \in Nat
    BY DEF LedgerAssumptions
  <2>5. QED
    BY <2>3, <2>4
<1>5. OneOpenSession /\ Seen
  BY <1>1 DEF OneOpenSession, Seen, SawNone, Pending, NoPayment, Idle
<1>6. QED
  BY <1>2, <1>3, <1>4, <1>5

\* The bookings of a zone that counted its places never outnumber them, for
\* any number of clients, zones and places, and however many the desk lets in
\* past the count: create_booking and change_booking_zone count under the lock
\* on parking_capacity.
THEOREM PlacesOnce == Spec => []CapacityHeld
<1> DEFINE Inv == Shape /\ Locked /\ Counted /\ CapacityHeld
<1>1. Init => Inv
  BY InitHolds, LedgerAssumptions
<1>2. Inv /\ [Next]_vars => Inv'
  BY ShapeStep, LockedStep, CountedStep, CapacityStep, LedgerAssumptions
<1>3. QED
  BY <1>1, <1>2, PTL DEF Spec

LEMMA SessionInvariant == Spec => [](Shape /\ OneOpenSession)
<1> DEFINE Inv == Shape /\ Locked /\ OneOpenSession /\ Seen
<1>1. Init => Inv
  BY InitHolds, LedgerAssumptions
<1>2. Inv /\ [Next]_vars => Inv'
  BY ShapeStep, LockedStep, OneOpenSessionStep, SeenStep, LedgerAssumptions
<1>3. QED
  BY <1>1, <1>2, PTL DEF Spec

\* A booking never has two gateway sessions open, however many clients open,
\* expire and confirm them: the lock on the booking between
\* create_pending_payment's check and its INSERT is enough without an index.
THEOREM OneSession == Spec => []OneSessionPerBooking
<1>1. ASSUME OneOpenSession PROVE OneSessionPerBooking
  <2> SUFFICES ASSUME NEW b \in BookingIds PROVE Cardinality(Rows(b, {"PENDING"})) <= 1
    BY DEF OneSessionPerBooking
  <2>1. CASE Rows(b, {"PENDING"}) = {}
    BY <2>1, FS_EmptySet
  <2>2. CASE Rows(b, {"PENDING"}) # {}
    <3>1. PICK p : p \in Rows(b, {"PENDING"})
      BY <2>2
    <3>2. Rows(b, {"PENDING"}) = {p}
      BY <1>1, <3>1 DEF Rows, OneOpenSession, Pending
    <3>3. QED
      BY <3>2, FS_Singleton
  <2>3. QED
    BY <2>1, <2>2
<1>2. QED
  BY <1>1, SessionInvariant, PTL

\* The amount frozen in an open session stays the price of its booking, for
\* any prices and any number of zone changes.
THEOREM FrozenStands == Spec => []FrozenAmountStands
<1>1. OneOpenSession => FrozenAmountStands
  BY DEF OneOpenSession, Pending, FrozenAmountStands
<1>2. QED
  BY <1>1, SessionInvariant, PTL

\* No set of transactions waits in a circle, whatever their number: a booking
\* is always locked before the capacity of a zone, and at most one of each.
THEOREM NoCircle == Spec => []NoDeadlock
<1>1. NoDeadlock
  <2> SUFFICES ASSUME NEW S \in SUBSET Clients, S # {}
               PROVE  \E c \in S : \A d \in S : ~WaitsFor(c, d)
    BY DEF NoDeadlock
  <2>1. CASE \E c \in S : txn[c].step = "changeLock"
    <3>1. PICK c \in S : txn[c].step = "changeLock"
      BY <2>1
    <3>2. CASE \E d \in S : HoldsZone(d, txn[c].zone)
      BY <3>2 DEF HoldsZone, WaitsFor
    <3>3. CASE \A d \in S : ~HoldsZone(d, txn[c].zone)
      BY <3>1, <3>3 DEF WaitsFor
    <3>4. QED
      BY <3>2, <3>3
  <2>2. CASE \A c \in S : txn[c].step # "changeLock"
    <3>1. CASE \E c \in S : txn[c].step # "payLock"
      BY <2>2, <3>1 DEF WaitsFor
    <3>2. CASE \A c \in S : txn[c].step = "payLock"
      BY <3>2 DEF WaitsFor, HoldsBooking
    <3>3. QED
      BY <3>1, <3>2
  <2>3. QED
    BY <2>1, <2>2
<1>2. QED
  BY <1>1, PTL

LEMMA MoneyInvInit == ASSUME LedgerAssumptions, Init PROVE MoneyInv
<1>1. TypeOK
  BY DEF Init, TypeOK
<1>2. Keyed /\ Placed /\ Standing
  BY DEF Init, Keyed, Placed, Standing, Pending, NoPayment, Idle
<1>3. \A b \in BookingIds : Covered(b) /\ Even(b)
  BY NoMoneyYet DEF Init
<1>4. QED
  BY <1>1, <1>2, <1>3, InitHolds DEF MoneyInv

LEMMA MoneyInvariant == Spec => []MoneyInv
<1>1. Init => MoneyInv
  BY MoneyInvInit, LedgerAssumptions
<1>2. MoneyInv /\ [Next]_vars => MoneyInv'
  BY MoneyInvStep, LedgerAssumptions
<1>3. QED
  BY <1>1, <1>2, PTL DEF Spec

\* Rows, transactions and money are of their types in every reachable state: a
\* refund row is never written for nothing or for less, a reply names a row
\* that has a key.
THEOREM LedgerTyped == Spec => []TypeOK
<1>1. MoneyInv => TypeOK
  BY DEF MoneyInv
<1>2. QED
  BY <1>1, MoneyInvariant, PTL

\* A held and paid booking has cost exactly the price of its zone, for any
\* prices, any number of zone changes and any interleaving of transactions, as
\* long as compensation stays away from it: change_booking_zone writes the zone
\* and what it gives back in one commit, under the lock on the booking.
THEOREM PriceCollected == Spec => []PaidIsThePrice
<1>1. ASSUME MoneyInv PROVE PaidIsThePrice
  <2> SUFFICES ASSUME NEW b \in BookingIds, bookings[b].status = "ACTIVE", Paid(b), ~Compensated(b)
               PROVE  collected[b] = returned[b] + Price[bookings[b].zone]
    BY DEF PaidIsThePrice
  <2>1. Even(b)
    BY <1>1 DEF MoneyInv
  <2>2. QED
    BY <2>1 DEF Even
<1>2. QED
  BY <1>1, MoneyInvariant, PTL


--------------------------------------------------------------------------------
(* The flow of one payment *)

PaySteps == {"payLock", "payCheck", "payInsert"}
PhaseNames == {"approvals", "sessions", "zombies", "heal"}
HandlerRec == [at : Places, phase : {"none"} \cup PhaseNames, open : SUBSET {"pay", "rest"},
               verdict : {"none", "RUNNING"} \cup Finished, amount : Amounts \cup {0},
               paid : BOOLEAN]

\* A restart of the backend, as the ledger sees it.
Forgets ==
  /\ UNCHANGED <<bookings, payments, late, collected, returned>>
  /\ \E S : txn' \in [Clients -> S]
  /\ \A c \in Clients : txn'[c] \in {txn[c], Idle}

\* What the flow does to the ledger.
LedgerStep ==
  \/ UNCHANGED vars
  \/ \E c \in Clients : \/ Statement(c)
                        \/ \E p \in PaymentIds : ConfirmRead(c, p)
                        \/ \E z \in Zones : ChangeLock(c, Place, z)
  \/ \E c \in Handlers : At(c, "open") /\ PayLookup(c, "open", Workflow, Place, handler[c].amount)
  \/ \E c \in Handlers : /\ At(c, "call") /\ provider = "mock"
                         /\ PayLookup(c, "pay", Workflow, Place, handler[c].amount)
  \/ CancelParking(Place) \/ RefundPayment(Place) \/ DeleteBooking(Place)
  \/ \E p \in PaymentIds : ExpireSession(p)
  \/ Forgets

\* What a step does to the consent.
ConsentStep ==
  \/ UNCHANGED approval
  \/ UNCHANGED vars /\ approval \in {"NONE", "AWAITING"} /\ approval' = "AWAITING"
  \/ UNCHANGED vars /\ approval = "AWAITING" /\ approval' \in {"APPROVED", "REJECTED"}

LEMMA HandlersAreClients ==
  ASSUME FlowAssumptions
  PROVE  Users \subseteq Clients /\ Callbacks \subseteq Clients /\ Sweepers \subseteq Clients
         /\ Desk \in Clients /\ Place \in BookingIds
  BY DEF FlowAssumptions, Handlers

\* The steps all kinds of handlers share.
LEMMA ExecutesIs ==
  ASSUME FlowAssumptions, NEW c \in Handlers, Executes(c)
  PROVE  LedgerStep /\ UNCHANGED <<approval, provider>>
<1>1. c \in Clients
  BY DEF FlowAssumptions
<1>2. CASE MockStatement(c)
  BY <1>1, <1>2 DEF MockStatement, PayStatement, LedgerStep, workflowRows, outside
<1>3. CASE CallMock(c)
  BY <1>3 DEF CallMock, LedgerStep, workflowRows, outside
<1>4. CASE Prepare(c) \/ CallGateway(c) \/ MockAnswer(c) \/ Record(c) \/ Save(c)
           \/ ListTasks(c) \/ WriteVerdict(c)
  BY <1>4 DEF Prepare, CallGateway, MockAnswer, Record, Save, ListTasks, WriteVerdict,
              LedgerStep, workflowRows, outside
<1>5. QED
  BY <1>2, <1>3, <1>4 DEF Executes

LEMMA CancelsIs ==
  ASSUME NEW c \in Handlers, Cancels(c)
  PROVE  UNCHANGED <<vars, approval, provider>>
  BY DEF Cancels, CancelList, CancelTask, CancelEnd, workflowRows, outside

LEMMA UserIs ==
  ASSUME FlowAssumptions, NEW c \in Users, UserStep(c) \/ Approve(c) \/ Reject(c) \/ AskCancel(c)
  PROVE  LedgerStep /\ ConsentStep /\ UNCHANGED provider
<1>1. c \in Handlers /\ c \in Clients
  BY HandlersAreClients DEF Handlers
<1>2. CASE Executes(c) \/ Cancels(c)
  BY <1>1, <1>2, ExecutesIs, CancelsIs DEF LedgerStep, ConsentStep
<1>3. CASE RecordApproved(c) \/ Reject(c)
  BY <1>3 DEF RecordApproved, Reject, Undecided, LedgerStep, ConsentStep, outside
<1>4. CASE SessionStatement(c)
  BY <1>1, <1>4 DEF SessionStatement, PayStatement, LedgerStep, ConsentStep, workflowRows, outside
<1>5. CASE OpenSession(c)
  BY <1>1, <1>5 DEF OpenSession, LedgerStep, ConsentStep, workflowRows, outside
<1>6. CASE Redirect(c) \/ CancelWorkflow(c) \/ Approve(c) \/ AskCancel(c)
  BY <1>6 DEF Redirect, CancelWorkflow, Approve, AskCancel, LedgerStep, ConsentStep,
              workflowRows, outside
<1>7. QED
  BY <1>2, <1>3, <1>4, <1>5, <1>6 DEF UserStep

LEMMA CallbackIs ==
  ASSUME FlowAssumptions, NEW c \in Callbacks,
         CallbackStep(c) \/ \E p \in PaymentIds : Callback(c, p)
  PROVE  LedgerStep /\ ConsentStep /\ UNCHANGED provider
<1>1. c \in Handlers /\ c \in Clients
  BY HandlersAreClients DEF Handlers
<1>2. CASE Executes(c)
  BY <1>1, <1>2, ExecutesIs DEF ConsentStep
<1>3. CASE Confirm(c) \/ CallbackReturns(c)
  BY <1>1, <1>3 DEF Confirm, CallbackReturns, Statement, LedgerStep, ConsentStep, flow,
                    workflowRows, outside
<1>4. CASE Resume(c) \/ \E p \in PaymentIds : Callback(c, p)
  BY <1>1, <1>4 DEF Resume, Callback, LedgerStep, ConsentStep, workflowRows, outside
<1>5. QED
  BY <1>2, <1>3, <1>4 DEF CallbackStep

LEMMA SweepIs ==
  ASSUME FlowAssumptions, NEW c \in Sweepers, SweepStep(c) \/ StartSweep(c)
  PROVE  LedgerStep /\ ConsentStep /\ UNCHANGED provider
<1>1. c \in Handlers
  BY DEF Handlers
<1>2. CASE Executes(c) \/ Cancels(c)
  BY <1>1, <1>2, ExecutesIs, CancelsIs DEF LedgerStep, ConsentStep
<1>3. CASE (\E p \in PaymentIds : SelectSession(c, p)) \/ Refund(c) \/ Delete(c)
  BY <1>3 DEF SelectSession, Refund, Delete, LedgerStep, ConsentStep, workflowRows, outside
<1>4. CASE SelectApproval(c) \/ SelectZombie(c) \/ SelectNothing(c) \/ SelectPaid(c)
           \/ Release(c) \/ Resume(c) \/ StartSweep(c)
  BY <1>4 DEF SelectApproval, SelectZombie, SelectNothing, SelectPaid, Release, Resume,
              StartSweep, LedgerStep, ConsentStep, workflowRows, outside
<1>5. QED
  BY <1>2, <1>3, <1>4 DEF SweepStep

\* Every step of the flow is one of the ledger, or forgets; and consent goes
\* one way.
LEMMA FlowIs ==
  ASSUME FlowAssumptions, [FlowNext]_flowVars
  PROVE  LedgerStep /\ ConsentStep /\ UNCHANGED provider
<1>1. CASE SavePendingApproval
  BY <1>1 DEF SavePendingApproval, LedgerStep, ConsentStep, outside
<1>2. CASE \E p \in PaymentIds : GatewayCharges(p)
  BY <1>2 DEF GatewayCharges, LedgerStep, ConsentStep, workflowRows
<1>3. CASE DeskChanges
  BY <1>3, HandlersAreClients DEF DeskChanges, LedgerStep, ConsentStep, flow
<1>4. CASE Crash
  <2>1. Forgets
    <3>1. txn' \in [Clients -> {txn[c] : c \in Clients} \cup {Idle}]
      BY <1>4 DEF Crash
    <3>2. \A c \in Clients : txn'[c] \in {txn[c], Idle}
      BY <1>4 DEF Crash
    <3>3. QED
      BY <1>4, <3>1, <3>2 DEF Crash, Forgets
  <2>2. QED
    BY <1>4, <2>1 DEF Crash, LedgerStep, ConsentStep, workflowRows
<1>5. CASE \E c \in Users : ProviderGoesOn(c)
  BY <1>5, HandlersAreClients DEF ProviderGoesOn, LedgerStep, ConsentStep, flow
<1>6. CASE UNCHANGED flowVars
  BY <1>6 DEF flowVars, LedgerStep, ConsentStep, flow
<1>7. QED
  BY <1>1, <1>2, <1>3, <1>4, <1>5, <1>6, UserIs, CallbackIs, SweepIs DEF FlowNext

-------------------------------------------------------------------------------
(* Moving a handler *)

LEMMA PhasesAre ==
  /\ {Phases[i] : i \in DOMAIN Phases} = PhaseNames
  /\ \A phase \in PhaseNames \ {"heal"} : NextPhase(phase) \in PhaseNames
<1>1. /\ DOMAIN Phases = {1, 2, 3, 4}
      /\ Phases[1] = "approvals" /\ Phases[2] = "sessions"
      /\ Phases[3] = "zombies" /\ Phases[4] = "heal"
  BY DEF Phases
<1> HIDE DEF Phases
<1>2. ASSUME NEW phase \in PhaseNames \ {"heal"}
      PROVE  NextPhase(phase) \in PhaseNames
  <2> DEFINE i == CHOOSE i \in DOMAIN Phases : Phases[i] = phase
  <2>1. \E j \in DOMAIN Phases : Phases[j] = phase
    BY <1>1 DEF PhaseNames
  <2>2. i \in {1, 2, 3, 4} /\ Phases[i] = phase
    BY <1>1, <2>1
  <2>3. NextPhase(phase) = Phases[1 + i]
    BY DEF NextPhase
  <2> HIDE DEF i
  <2>4. i \in {1, 2, 3}
    BY <1>1, <2>2
  <2>5. QED
    BY <1>1, <2>3, <2>4 DEF PhaseNames
<1>3. QED
  BY <1>1, <1>2 DEF PhaseNames

HandlersTyped == handler \in [Handlers -> HandlerRec]

\* Nobody but c moves.
Alone(c) == HandlersTyped' /\ \A d \in Handlers : d # c => handler'[d] = handler[d]

LEMMA RestingIs ==
  /\ Resting \in HandlerRec /\ Resting.at = "idle" /\ Resting.paid = FALSE
  /\ Resting.phase = "none"
  BY DEF Resting, HandlerRec, Places

LEMMA GoIs ==
  ASSUME HandlersTyped, NEW c \in Handlers, NEW place \in Places, Go(c, place)
  PROVE  /\ Alone(c)
         /\ handler'[c].at = place /\ handler'[c].phase = handler[c].phase
         /\ handler'[c].open = handler[c].open /\ handler'[c].verdict = handler[c].verdict
         /\ handler'[c].amount = handler[c].amount /\ handler'[c].paid = handler[c].paid
  BY DEF Go, HandlersTyped, HandlerRec, Alone

LEMMA AnswerIs ==
  ASSUME HandlersTyped, NEW c \in Handlers, NEW place \in Places, NEW ok, ok \in BOOLEAN,
         handler' = [handler EXCEPT ![c].at = place, ![c].paid = ok]
  PROVE  /\ Alone(c)
         /\ handler'[c].at = place /\ handler'[c].phase = handler[c].phase
         /\ handler'[c].paid = ok
  BY DEF HandlersTyped, HandlerRec, Alone

LEMMA QuoteIs ==
  ASSUME HandlersTyped, NEW c \in Handlers, NEW place \in Places, NEW amount \in Amounts,
         handler' = [handler EXCEPT ![c].at = place, ![c].amount = amount]
  PROVE  /\ Alone(c)
         /\ handler'[c].at = place /\ handler'[c].paid = handler[c].paid
         /\ handler'[c].amount = amount
  BY DEF HandlersTyped, HandlerRec, Alone

LEMMA PhaseIs ==
  ASSUME HandlersTyped, NEW c \in Handlers, NEW place \in Places, NEW phase \in PhaseNames,
         handler' = [handler EXCEPT ![c].at = place, ![c].phase = phase]
  PROVE  /\ Alone(c)
         /\ handler'[c].at = place /\ handler'[c].paid = handler[c].paid
         /\ handler'[c].phase = phase
  BY DEF HandlersTyped, HandlerRec, Alone

LEMMA VerdictIs ==
  ASSUME HandlersTyped, NEW c \in Handlers, NEW place \in Places, NEW v \in {"RUNNING"} \cup Finished,
         handler' = [handler EXCEPT ![c].at = place, ![c].verdict = v]
  PROVE  /\ Alone(c)
         /\ handler'[c].at = place /\ handler'[c].phase = handler[c].phase
         /\ handler'[c].verdict = v /\ handler'[c].paid = handler[c].paid
  BY DEF HandlersTyped, HandlerRec, Alone

LEMMA StopIs ==
  ASSUME HandlersTyped, NEW c \in Handlers, Stop(c)
  PROVE  Alone(c) /\ handler'[c] = Resting
  BY RestingIs DEF Stop, HandlersTyped, Alone

LEMMA ParkIs ==
  ASSUME HandlersTyped, NEW c \in Handlers, NEW place \in Places,
         handler' = [handler EXCEPT ![c] = [Resting EXCEPT !.at = place]]
  PROVE  /\ Alone(c)
         /\ handler'[c].at = place /\ handler'[c].paid = FALSE
  BY DEF HandlersTyped, HandlerRec, Alone, Resting

LEMMA DoneIs ==
  ASSUME HandlersTyped, NEW c \in Handlers, Done(c),
         c \in Sweepers => handler[c].phase # "none"
  PROVE  /\ Alone(c)
         /\ \/ handler'[c] = Resting
            \/ /\ c \in Sweepers /\ handler'[c].at = "select" /\ handler'[c].paid = FALSE
               /\ handler'[c].phase # "none"
<1>1. CASE c \in Sweepers /\ handler[c].phase # "heal"
  <2> DEFINE next == NextPhase(handler[c].phase)
             h == [Resting EXCEPT !.at = "select", !.phase = next]
  <2>1. handler[c].phase \in PhaseNames \ {"heal"}
    BY <1>1 DEF HandlersTyped, HandlerRec
  <2>2. next \in PhaseNames
    BY <2>1, PhasesAre
  <2>3. handler' = [handler EXCEPT ![c] = h]
    BY <1>1 DEF Done
  <2> HIDE DEF next
  <2>4. h \in HandlerRec /\ h.at = "select" /\ h.paid = FALSE /\ h.phase = next
    BY <2>2 DEF Resting, HandlerRec, Places
  <2> HIDE DEF h
  <2>5. handler'[c] = h /\ Alone(c)
    BY <2>3, <2>4 DEF HandlersTyped, Alone
  <2>6. next # "none"
    BY <2>2 DEF PhaseNames
  <2>7. QED
    BY <1>1, <2>4, <2>5, <2>6
<1>2. CASE ~(c \in Sweepers /\ handler[c].phase # "heal")
  BY <1>2, StopIs DEF Done
<1>3. QED
  BY <1>1, <1>2

-------------------------------------------------------------------------------
(* What more the flow asks of the ledger *)

\* Only PayLookup begins a payment.
LEMMA PayLockStays ==
  ASSUME Shape, NEW d \in Clients, NEW c \in Clients, txn'[c].step = "payLock",
         \/ Statement(d)
         \/ \E p \in PaymentIds : ConfirmRead(d, p)
         \/ \E b \in BookingIds, z \in Zones : ChangeLock(d, b, z)
  PROVE  txn'[c] = txn[c]
<1> SUFFICES ASSUME txn'[c] # txn[c] PROVE FALSE
  OBVIOUS
<1>1. \A t : Goto(d, t) => txn'[c] = IF d = c THEN t ELSE txn[c]
  BY DEF Goto, Shape
<1>2. ASSUME Refuse(d) PROVE FALSE
  BY <1>1, <1>2 DEF Refuse, Idle
<1>3. ASSUME NEW t, Goto(d, t), t.step # "payLock" PROVE FALSE
  BY <1>1, <1>3
<1>4. ASSUME NEW s, s # "payLock", Advance(d, s),
             txn[d] \in BookTxn \cup ChangeTxn \cup PayTxn
      PROVE  FALSE
  <2>1. AtStep(d, s).step = s
    BY <1>4 DEF AtStep, BookTxn, ChangeTxn, PayTxn
  <2>2. QED
    BY <1>3, <1>4, <2>1 DEF Advance
<1>5. ASSUME Statement(d) PROVE FALSE
  <2>1. /\ txn[d].step = "bookCount" => txn[d] \in BookTxn
        /\ txn[d].step \in {"changeGuard", "changeLock", "changeCount"} => txn[d] \in ChangeTxn
        /\ txn[d].step \in {"payLock", "payCheck"} => txn[d] \in PayTxn
    BY TxnAt DEF Shape
  <2>2. CASE BookCount(d) \/ ChangeGuard(d) \/ ChangeLockZone(d) \/ ChangeCount(d)
             \/ PayLock(d) \/ Return(d)
    BY <1>2, <1>4, <2>1, <2>2 DEF BookCount, ChangeGuard, ChangeLockZone, ChangeCount, PayLock, Return
  <2>3. CASE PayCheck(d)
    BY <1>2, <1>3, <1>4, <2>1, <2>3 DEF PayCheck, Answer
  <2>4. CASE BookInsert(d) \/ ChangeWrite(d) \/ PayInsert(d)
    <3>1. Refuse(d) \/ Goto(d, Idle)
      BY <2>4 DEF BookInsert, ChangeWrite, PayInsert
    <3>2. Idle.step # "payLock"
      BY DEF Idle
    <3>3. QED
      BY <1>2, <1>3, <3>1, <3>2
  <2>5. CASE ConfirmWrite(d)
    <3>1. Refuse(d) \/ \E t : Goto(d, t) /\ t.step # "payLock"
      BY <2>5 DEF ConfirmWrite, Idle
    <3>2. QED
      BY <1>2, <1>3, <3>1
  <2>6. QED
    BY <1>5, <2>2, <2>3, <2>4, <2>5 DEF Statement
<1>6. \/ \E p \in PaymentIds : ConfirmRead(d, p)
      \/ \E b \in BookingIds, z \in Zones : ChangeLock(d, b, z)
  BY <1>5
<1>7. \E t : Goto(d, t) /\ t.step \in {"confirmWrite", "changeGuard"}
  <2>1. CASE \E p \in PaymentIds : ConfirmRead(d, p)
    BY <2>1 DEF ConfirmRead
  <2>2. CASE \E b \in BookingIds, z \in Zones : ChangeLock(d, b, z)
    BY <2>2 DEF ChangeLock
  <2>3. QED
    BY <1>6, <2>1, <2>2
<1>8. QED
  BY <1>3, <1>7

\* Money comes in by an INSERT or a confirmation under way.
LEMMA ChargeStep ==
  ASSUME [Next]_vars, collected' # collected
  PROVE  \E c \in Clients : \/ txn[c].step = "payInsert"
                            \/ /\ txn[c].step = "confirmWrite"
                               /\ payments[txn[c].payment].status = "PENDING"
<1>1. ASSUME NEW c \in Clients, Statement(c)
      PROVE  \/ txn[c].step = "payInsert"
             \/ txn[c].step = "confirmWrite" /\ payments[txn[c].payment].status = "PENDING"
  BY <1>1 DEF Statement, BookCount, BookInsert, ChangeGuard, ChangeLockZone, ChangeCount, ChangeWrite,
              PayLock, PayCheck, PayInsert, ConfirmWrite, Return, Refuse, Advance, Answer
<1>2. QED
  BY <1>1 DEF Next, vars, BookLock, ChangeLock, PayLookup, ConfirmRead, BookApproved, CancelParking,
              RefundPayment, DeleteBooking, ExpireSession, WindowCloses

\* A row is new only for a booking that has paid, or for a payment under way.
LEMMA NewRowStep ==
  ASSUME Shape, [Next]_vars, NEW p \in PaymentIds, payments[p] = NoPayment, payments'[p] # NoPayment
  PROVE  \/ Paid(payments'[p].booking)
         \/ \E c \in Clients : /\ txn[c].step = "payInsert" /\ payments'[p].booking = txn[c].booking
                               /\ payments'[p].status = IF txn[c].kind = "pay" THEN "PAID" ELSE "PENDING"
<1>1. CASE UNCHANGED payments
  BY <1>1
<1>2. ASSUME NEW q \in PaymentIds, NEW r, payments' = [payments EXCEPT ![q] = r]
      PROVE  payments'[p] = r /\ p = q
  BY <1>2, RowPut
<1>3. ASSUME NEW b, NEW price, SettleDifference(b, price)
      PROVE  Paid(payments'[p].booking)
  <2>1. Excess(b, price) # 0
    BY <1>1, <1>3 DEF SettleDifference
  <2> DEFINE r == [status |-> "REFUNDED", booking |-> b, amount |-> Excess(b, price), workflow |-> "none"]
  <2>2. PICK q \in PaymentIds : payments' = [payments EXCEPT ![q] = r]
    BY <1>3, <2>1 DEF SettleDifference
  <2>3. payments'[p] = r
    BY <1>2, <2>2
  <2>4. QED
    BY <2>1, <2>3 DEF Excess
<1>4. ASSUME NEW c \in Clients, PayInsert(c)
      PROVE  /\ txn[c].step = "payInsert" /\ payments'[p].booking = txn[c].booking
             /\ payments'[p].status = IF txn[c].kind = "pay" THEN "PAID" ELSE "PENDING"
  <2> DEFINE r == [status |-> IF txn[c].kind = "pay" THEN "PAID" ELSE "PENDING",
                   booking |-> txn[c].booking, amount |-> txn[c].amount,
                   workflow |-> txn[c].workflow]
  <2>1. PICK q \in PaymentIds : payments' = [payments EXCEPT ![q] = r]
    BY <1>1, <1>4 DEF PayInsert, Refuse
  <2>2. payments'[p] = r
    BY <1>2, <2>1
  <2>3. QED
    BY <1>4, <2>2 DEF PayInsert
<1>5. ASSUME NEW q, NEW s, payments[q].status # "NONE",
             payments' = [payments EXCEPT ![q].status = s]
      PROVE  FALSE
  <2>1. q # p
    BY <1>5 DEF NoPayment
  <2>2. QED
    BY <1>5, <2>1 DEF Shape, Table
<1>6. ASSUME NEW S, NEW s, \A q \in S : payments[q].status # "NONE",
             payments' = [q \in PaymentIds |-> IF q \in S THEN [payments[q] EXCEPT !.status = s]
                                                         ELSE payments[q]]
      PROVE  FALSE
  <2>1. p \notin S
    BY <1>6 DEF NoPayment
  <2>2. QED
    BY <1>6, <2>1
<1>7. ASSUME NEW c \in Clients, Statement(c)
      PROVE  \/ Paid(payments'[p].booking)
             \/ /\ txn[c].step = "payInsert" /\ payments'[p].booking = txn[c].booking
                /\ payments'[p].status = IF txn[c].kind = "pay" THEN "PAID" ELSE "PENDING"
  <2>1. CASE BookCount(c) \/ BookInsert(c) \/ ChangeGuard(c) \/ ChangeLockZone(c) \/ ChangeCount(c)
             \/ PayLock(c) \/ PayCheck(c) \/ Return(c)
    BY <1>1, <2>1 DEF BookCount, BookInsert, ChangeGuard, ChangeLockZone, ChangeCount, PayLock,
                      PayCheck, Return, Refuse, Advance, Answer
  <2>2. CASE ChangeWrite(c)
    BY <1>1, <1>3, <2>2 DEF ChangeWrite, Refuse
  <2>3. CASE ConfirmWrite(c)
    <3>1. \/ UNCHANGED payments
          \/ /\ payments[txn[c].payment].status = "PENDING"
             /\ payments' = [payments EXCEPT ![txn[c].payment].status = "PAID"]
      BY <2>3 DEF ConfirmWrite, Refuse
    <3>2. QED
      BY <1>1, <1>5, <3>1
  <2>4. QED
    BY <1>4, <1>7, <2>1, <2>2, <2>3 DEF Statement
<1>8. ASSUME NEW b \in BookingIds, CancelParking(b) PROVE Paid(payments'[p].booking)
  BY <1>1, <1>3, <1>8 DEF CancelParking
<1>9. ASSUME NEW b \in BookingIds, RefundPayment(b) PROVE FALSE
  <2>1. \A q \in Rows(b, {"PAID"}) : payments[q].status # "NONE"
    BY DEF Rows
  <2>2. QED
    BY <1>6, <1>9, <2>1 DEF RefundPayment
<1>10. ASSUME NEW b \in BookingIds, DeleteBooking(b) PROVE FALSE
  <2> DEFINE S == Rows(b, LiveStatuses \ {"PAID"})
  <2>1. \A q \in S : payments[q].status # "NONE"
    BY DEF Rows, LiveStatuses
  <2>2. payments' = [q \in PaymentIds |-> IF q \in S THEN [payments[q] EXCEPT !.status = "DELETED"]
                                                    ELSE payments[q]]
    BY <1>10 DEF DeleteBooking
  <2> HIDE DEF S
  <2>3. QED
    BY <1>6, <2>1, <2>2
<1>11. ASSUME NEW q \in PaymentIds, ExpireSession(q) PROVE FALSE
  BY <1>5, <1>11 DEF ExpireSession
<1>12. UNCHANGED payments \/ (\E c \in Clients : Statement(c))
       \/ (\E b \in BookingIds : CancelParking(b) \/ RefundPayment(b) \/ DeleteBooking(b))
       \/ \E q \in PaymentIds : ExpireSession(q)
  BY DEF Next, vars, BookLock, ChangeLock, PayLookup, ConfirmRead, BookApproved, WindowCloses
<1>13. QED
  BY <1>1, <1>7, <1>8, <1>9, <1>10, <1>11, <1>12

-------------------------------------------------------------------------------
(* The invariant *)

\* What is behind the place a handler has reached: the amount is a price from
\* its quote on, the resident has consented, the mock provider has neither
\* sessions nor callbacks, and who carries "paid" saw money that came in.
HandlerOk(c) ==
  LET h == handler[c] IN
  /\ \/ h.at \in {"approve", "open"}
     \/ provider = "mock" /\ h.at \in {"prepare", "call"}
     => \E z \in Zones : h.amount = Price[z]
  /\ h.at \in {"open", "opening", "prepare", "call", "paying"} => approval = "APPROVED"
  /\ provider = "mock" =>
       /\ h.at \notin {"open", "opening", "opened", "confirm", "resume"}
       /\ c \notin Users => h.at \notin {"prepare", "call", "paying"}
  /\ h.at = "paying" => provider = "mock"
  /\ c \in Sweepers => h.at \notin {"opening", "paying"} /\ (h.at # "idle" => h.phase # "none")
  /\ h.at = "verdict" => h.verdict # "none"
  /\ h.paid => collected[Place] > 0

Consented ==
  approval # "APPROVED" =>
    /\ \A p \in PaymentIds : ~Pending(p)
    /\ \A c \in Clients : txn[c].step \notin PaySteps

PlaceHasRow == \E p \in PaymentIds : payments[p] # NoPayment /\ payments[p].booking = Place

MockPays ==
  provider = "mock" =>
    /\ urls = {}
    /\ \A p \in PaymentIds : ~Pending(p)
    /\ \A c \in Clients : txn[c].step \in PaySteps => txn[c].kind = "pay"
    /\ PlaceHasRow => collected[Place] > 0

FlowInv ==
  /\ MoneyInv /\ FlowTypeOK /\ bookings[Place] # NoBooking
  /\ \A c \in Handlers : HandlerOk(c)
  /\ Consented /\ MockPays /\ SuccessWasPaid

-------------------------------------------------------------------------------
(* The ledger under the flow *)

LEMMA ForgetsKeeps ==
  ASSUME MoneyInv, Forgets
  PROVE  MoneyInv'
<1>1. /\ bookings' = bookings /\ payments' = payments /\ collected' = collected
      /\ returned' = returned /\ late' = late
      /\ \A c \in Clients : txn'[c] = txn[c] \/ txn'[c] = Idle
  BY DEF Forgets
<1>2. ASSUME NEW c \in Clients, txn'[c].step # "idle" PROVE txn'[c] = txn[c]
  BY <1>1, <1>2 DEF Idle
<1>3. Shape'
  <2>1. \A c \in Clients, b \in BookingIds : HoldsBooking(c, b)' => HoldsBooking(c, b)
    BY <1>2 DEF HoldsBooking
  <2>2. \A c \in Clients : IsTxn(txn'[c])
    BY <1>1 DEF MoneyInv, Shape, IsTxn
  <2>3. QED
    BY <1>1, <2>1, <2>2 DEF MoneyInv, Shape, Forgets, Table
<1>4. Locked'
  <2>1. \A c \in Clients : \A b : HoldsBooking(c, b)' => HoldsBooking(c, b)
    BY <1>2 DEF HoldsBooking
  <2>2. \A c \in Clients : \A z : HoldsZone(c, z)' => HoldsZone(c, z)
    BY <1>2 DEF HoldsZone
  <2>3. QED
    BY <2>1, <2>2 DEF MoneyInv, Locked
<1>5. OneOpenSession' /\ Placed'
  BY <1>1 DEF MoneyInv, OneOpenSession, Pending, Placed
<1>6. Seen'
  BY <1>1, <1>2 DEF MoneyInv, Seen, SawNone, Session, Rows
<1>7. TypeOK'
  <2>1. txn' \in [Clients -> {Idle} \cup BookTxn \cup ChangeTxn \cup PayTxn \cup ConfirmTxn \cup Reply]
    BY <1>1 DEF MoneyInv, TypeOK, Forgets
  <2>2. QED
    BY <1>1, <2>1 DEF MoneyInv, TypeOK
<1>8. Keyed' /\ Standing'
  BY <1>1, <1>2 DEF MoneyInv, Keyed, Standing, Pending, Exists
<1>9. \A b \in BookingIds : Covered(b)' /\ Even(b)'
  <2> SUFFICES ASSUME NEW b \in BookingIds PROVE Covered(b)' /\ Even(b)'
    OBVIOUS
  <2>1. /\ PaidIn(b)' = PaidIn(b) /\ GivenBack(b)' = GivenBack(b)
        /\ Paid(b)' = Paid(b) /\ Compensated(b)' = Compensated(b)
    BY <1>1 DEF PaidIn, GivenBack, Paid, Compensated, Rows
  <2>2. Covered(b) /\ Even(b)
    BY DEF MoneyInv
  <2>3. QED
    BY <1>1, <2>1, <2>2 DEF Covered, Even
<1>10. QED
  BY <1>3, <1>4, <1>5, <1>6, <1>7, <1>8, <1>9 DEF MoneyInv

\* A payment begins with the price of a zone.
LEMMA LedgerSteps ==
  ASSUME FlowAssumptions, FlowInv, [FlowNext]_flowVars
  PROVE  [Next]_vars \/ Forgets
<1>1. LedgerStep
  BY FlowIs
<1>2. ASSUME NEW c \in Handlers, NEW kind \in {"open", "pay"},
             PayLookup(c, kind, Workflow, Place, handler[c].amount),
             At(c, "open") \/ (At(c, "call") /\ provider = "mock")
      PROVE  Next
  <2>1. PICK z \in Zones : handler[c].amount = Price[z]
    BY <1>2 DEF FlowInv, HandlerOk, At
  <2>2. c \in Clients /\ Workflow \in Workflows /\ Place \in BookingIds
    BY DEF FlowAssumptions
  <2>3. QED
    BY <1>2, <2>1, <2>2 DEF Next
<1>3. ASSUME NEW c \in Clients,
             \/ Statement(c)
             \/ \E p \in PaymentIds : ConfirmRead(c, p)
             \/ \E z \in Zones : ChangeLock(c, Place, z)
      PROVE  Next
  BY <1>3, HandlersAreClients DEF Next
<1>4. ASSUME CancelParking(Place) \/ RefundPayment(Place) \/ DeleteBooking(Place)
             \/ \E p \in PaymentIds : ExpireSession(p)
      PROVE  Next
  BY <1>4, HandlersAreClients DEF Next
<1>5. QED
  BY <1>1, <1>2, <1>3, <1>4, Zenon DEF LedgerStep

LEMMA LedgerGoesOn ==
  ASSUME LedgerAssumptions, FlowAssumptions, FlowInv, [FlowNext]_flowVars
  PROVE  /\ MoneyInv' /\ bookings'[Place] # NoBooking
         /\ collected[Place] > 0 => collected'[Place] > 0
<1>1. CASE [Next]_vars
  <2>1. MoneyInv' /\ Effect
    BY <1>1, MoneyInvStep DEF FlowInv
  <2>2. bookings'[Place] # NoBooking
    BY <1>1, BookingStep, HandlersAreClients DEF FlowInv, MoneyInv
  <2>3. Place \in BookingIds /\ Moved(Place)
    BY <2>1, HandlersAreClients DEF Effect
  <2>4. collected[Place] \in Nat /\ collected'[Place] \in Nat
    BY <2>1, <2>3 DEF FlowInv, MoneyInv, TypeOK, Effect
  <2>5. bookings[Place] # NoBooking => Price[bookings[Place].zone] \in Nat
    BY <2>3 DEF FlowInv, MoneyInv, TypeOK, Booking, LedgerAssumptions
  <2>6. collected[Place] > 0 => collected'[Place] > 0
    BY <2>3, <2>4, <2>5 DEF Moved, Unmoved, Charged, Settled, Refunded, FlowInv
  <2>7. QED
    BY <2>1, <2>2, <2>6
<1>2. CASE Forgets
  BY <1>2, ForgetsKeeps DEF FlowInv, Forgets
<1>3. QED
  BY <1>1, <1>2, LedgerSteps

\* A payment transaction under way was consented to.
LEMMA PayStepsStep ==
  ASSUME LedgerAssumptions, FlowAssumptions, FlowInv, [FlowNext]_flowVars,
         NEW c \in Clients, txn'[c].step \in PaySteps
  PROVE  approval = "APPROVED" /\ (provider = "mock" => txn'[c].kind = "pay")
<1>1. CASE txn'[c] = txn[c]
  BY <1>1 DEF FlowInv, Consented, MockPays
<1>2. CASE txn'[c] # txn[c] /\ [Next]_vars
  <2>1. MayBe(c, txn'[c])
    BY <1>2, TxnStep DEF FlowInv, MoneyInv, PaySteps, Idle
  <2>2. CASE txn'[c].step # "payLock"
    <3>1. txn[c].step \in PaySteps /\ txn'[c].kind = txn[c].kind
      BY <2>1, <2>2 DEF MayBe, PaySteps
    <3>2. QED
      BY <3>1 DEF FlowInv, Consented, MockPays
  <2>3. CASE txn'[c].step = "payLock"
    <3>1. ASSUME NEW d \in Clients,
                 \/ Statement(d)
                 \/ \E p \in PaymentIds : ConfirmRead(d, p)
                 \/ \E z \in Zones : ChangeLock(d, Place, z)
          PROVE  FALSE
      <4>1. \/ Statement(d)
            \/ \E p \in PaymentIds : ConfirmRead(d, p)
            \/ \E b \in BookingIds, z \in Zones : ChangeLock(d, b, z)
        BY <3>1, HandlersAreClients
      <4>2. QED
        BY <1>2, <2>3, <4>1, PayLockStays DEF FlowInv, MoneyInv
    <3>2. ASSUME NEW d \in Handlers, NEW kind, NEW amount,
                 PayLookup(d, kind, Workflow, Place, amount)
          PROVE  txn'[c].kind = kind
      BY <1>2, <3>2 DEF PayLookup, Goto, FlowInv, MoneyInv, Shape
    <3>3. UNCHANGED txn => FALSE
      BY <1>2
    <3>4. ASSUME NEW d \in Handlers, At(d, "open") \/ At(d, "call")
          PROVE  approval = "APPROVED" /\ (provider = "mock" => ~At(d, "open"))
      BY <3>4 DEF FlowInv, HandlerOk, At
    <3>5. CASE Forgets
      BY <1>2, <2>3, <3>5 DEF Forgets, Idle
    <3>6. QED
      BY <3>1, <3>2, <3>3, <3>4, <3>5, FlowIs DEF LedgerStep, vars, CancelParking, RefundPayment,
         DeleteBooking, ExpireSession
  <2>4. QED
    BY <2>2, <2>3
<1>3. CASE Forgets
  BY <1>1, <1>3 DEF Forgets, Idle, PaySteps
<1>4. QED
  BY <1>1, <1>2, <1>3, LedgerSteps

LEMMA PendingStep ==
  ASSUME LedgerAssumptions, FlowAssumptions, FlowInv, [FlowNext]_flowVars,
         NEW p \in PaymentIds, Pending(p)'
  PROVE  approval = "APPROVED" /\ provider # "mock"
<1>1. CASE Pending(p)
  BY <1>1 DEF FlowInv, Consented, MockPays
<1>2. CASE [Next]_vars /\ ~Pending(p)
  <2>1. \E c \in Clients : txn[c].step = "payInsert" /\ txn[c].kind = "open"
    BY <1>2, SessionStep DEF FlowInv, MoneyInv
  <2>2. QED
    BY <2>1 DEF FlowInv, Consented, MockPays, PaySteps
<1>3. CASE Forgets
  BY <1>1, <1>3 DEF Forgets, Pending
<1>4. QED
  BY <1>1, <1>2, <1>3, LedgerSteps

LEMMA PlaceRowStep ==
  ASSUME LedgerAssumptions, FlowAssumptions, FlowInv, [FlowNext]_flowVars,
         provider = "mock", PlaceHasRow'
  PROVE  collected'[Place] > 0
<1>1. PICK p \in PaymentIds : payments'[p] # NoPayment /\ payments'[p].booking = Place
  BY DEF PlaceHasRow
<1>2. \A b \in BookingIds : (Paid(b) => collected[b] > 0) /\ (Paid(b)' => collected'[b] > 0)
  BY LedgerGoesOn DEF FlowInv, MoneyInv, Covered
<1>3. collected[Place] > 0 => collected'[Place] > 0
  BY LedgerGoesOn
<1>4. CASE Forgets
  BY <1>3, <1>4 DEF Forgets, FlowInv, MockPays, PlaceHasRow
<1>5. CASE [Next]_vars /\ payments[p] # NoPayment
  <2>1. payments[p].booking = Place
    BY <1>1, <1>5, MoneyInvStep DEF FlowInv, Effect, RowsKept
  <2>2. QED
    BY <1>3, <1>5, <2>1 DEF FlowInv, MockPays, PlaceHasRow
<1>6. CASE [Next]_vars /\ payments[p] = NoPayment
  <2>1. CASE Paid(Place)
    BY <1>2, <1>3, <2>1, HandlersAreClients
  <2>2. CASE payments'[p].status = "PAID"
    <3>1. Paid(Place)'
      BY <1>1, <2>2 DEF Paid, Rows
    <3>2. QED
      BY <1>2, <3>1, HandlersAreClients
  <2>3. ASSUME NEW c \in Clients, txn[c].step = "payInsert"
        PROVE  txn[c].kind = "pay"
    BY <2>3 DEF FlowInv, MockPays, PaySteps
  <2>4. QED
    BY <1>1, <1>6, <2>1, <2>2, <2>3, NewRowStep DEF FlowInv, MoneyInv
<1>7. QED
  BY <1>4, <1>5, <1>6, LedgerSteps

-------------------------------------------------------------------------------
(* The handlers *)

LEMMA Greatest ==
  ASSUME NEW S \in SUBSET Nat, IsFiniteSet(S), S # {}
  PROVE  \E p \in S : \A q \in S : q <= p
<1> DEFINE Above(p) == {q \in S : p <= q}
           B == {Above(p) : p \in S}
<1>1. B \in SUBSET SUBSET S /\ B # {}
  OBVIOUS
<1>2. \E s \in B : \A t \in SUBSET s : t # s => t \notin B
  <2> HIDE DEF B
  <2>1. QED
    BY <1>1, Smallest
<1>3. PICK p \in S : \A t \in SUBSET Above(p) : t # Above(p) => t \notin B
  BY <1>2
<1>4. ASSUME NEW q \in S, p < q PROVE FALSE
  <2>1. p \in Nat /\ q \in Nat /\ p \in S
    OBVIOUS
  <2>2. Above(q) \in SUBSET Above(p) /\ p \in Above(p) /\ p \notin Above(q)
    <3>1. p <= p /\ ~(q <= p)
      BY <1>4, <2>1
    <3>2. \A r \in S : q <= r => p <= r
      BY <1>4, <2>1
    <3>3. QED
      BY <2>1, <3>1, <3>2
  <2>3. Above(q) \in B
    OBVIOUS
  <2> HIDE DEF Above, B
  <2>4. QED
    BY <1>3, <2>2, <2>3
<1>5. QED
  BY <1>4

\* A session the gateway calls paid is money that came in.
LEMMA GatewayIsPaid ==
  ASSUME LedgerAssumptions, FlowAssumptions, FlowInv, GatewayPaid
  PROVE  collected[Place] > 0
<1>1. Sessions \in SUBSET PaymentIds
  BY DEF Sessions, WithKey, Rows
<1>2. Sessions \in SUBSET Nat /\ IsFiniteSet(Sessions) /\ Sessions # {}
  BY <1>1, FS_Subset DEF LedgerAssumptions, GatewayPaid
<1>3. Newest \in Sessions
  BY <1>2, Greatest DEF Newest
<1>4. Newest \in PaymentIds /\ payments[Newest].booking = Place /\ payments[Newest].status = "PAID"
  BY <1>3 DEF Sessions, WithKey, Rows, GatewayPaid
<1> HIDE DEF Newest
<1>5. Paid(Place)
  BY <1>4 DEF Paid, Rows
<1>6. QED
  BY <1>5, HandlersAreClients DEF FlowInv, MoneyInv, Covered

LEMMA SessionIsRow ==
  ASSUME FlowInv, Sessions # {}, provider = "mock"
  PROVE  collected[Place] > 0
<1>1. PICK p \in PaymentIds : p \in Sessions
  BY DEF Sessions, WithKey, Rows
<1>2. payments[p] # NoPayment /\ payments[p].booking = Place
  BY <1>1 DEF Sessions, WithKey, Rows, LiveStatuses, NoPayment
<1>3. QED
  BY <1>2 DEF FlowInv, MockPays, PlaceHasRow

\* What a step does to the facts handlers rely on.
Onward ==
  /\ UNCHANGED provider
  /\ approval = "APPROVED" => approval' = "APPROVED"
  /\ collected[Place] > 0 => collected'[Place] > 0

Turn(c) == Alone(c) /\ HandlerOk(c)'

LEMMA TypedHandlers == ASSUME FlowTypeOK PROVE HandlersTyped
  BY PhasesAre DEF FlowTypeOK, HandlersTyped, HandlerRec

LEMMA StaysOk ==
  ASSUME FlowInv, Onward, NEW d \in Handlers, handler'[d] = handler[d]
  PROVE  HandlerOk(d)'
  BY DEF FlowInv, Onward, HandlerOk

LEMMA RestsOk ==
  ASSUME NEW d, handler'[d] = Resting
  PROVE  HandlerOk(d)'
  BY RestingIs DEF HandlerOk

LEMMA TurnOk ==
  ASSUME FlowInv, Onward, NEW c \in Handlers, Turn(c)
  PROVE  HandlersTyped' /\ \A d \in Handlers : HandlerOk(d)'
  BY StaysOk DEF Turn, Alone

LEMMA StopTurn ==
  ASSUME FlowInv, NEW c \in Handlers, Stop(c)
  PROVE  Turn(c)
  BY TypedHandlers, StopIs, RestsOk DEF FlowInv, Turn

LEMMA DoneTurn ==
  ASSUME FlowInv, NEW c \in Handlers, Done(c), handler[c].at # "idle"
  PROVE  Turn(c)
<1>1. Alone(c) /\ \/ handler'[c] = Resting
                  \/ /\ c \in Sweepers /\ handler'[c].at = "select" /\ handler'[c].paid = FALSE
                     /\ handler'[c].phase # "none"
  BY TypedHandlers, DoneIs DEF FlowInv, HandlerOk
<1>2. QED
  BY <1>1, RestsOk DEF Turn, HandlerOk

\* Most places ask for nothing.
LEMMA GoTurn ==
  ASSUME FlowInv, Onward, NEW c \in Handlers, handler[c].at # "idle", NEW place \in Places, Go(c, place),
         place \notin {"approve", "open", "opening", "opened", "confirm", "resume", "prepare",
                       "call", "paying", "verdict"}
  PROVE  Turn(c)
<1>1. /\ Alone(c)
      /\ handler'[c].at = place /\ handler'[c].phase = handler[c].phase
      /\ handler'[c].paid = handler[c].paid
  BY TypedHandlers, GoIs DEF FlowInv
<1>2. HandlerOk(c)
  BY DEF FlowInv
<1>3. QED
  BY <1>1, <1>2 DEF Turn, HandlerOk, Onward

LEMMA ExecutesTurn ==
  ASSUME LedgerAssumptions, FlowAssumptions, FlowInv, Onward, NEW c \in Handlers, Executes(c)
  PROVE  HandlersTyped' /\ \A d \in Handlers : HandlerOk(d)'
<1>0. HandlersTyped /\ HandlerOk(c)
  BY TypedHandlers DEF FlowInv
<1>1. CASE Prepare(c)
  <2>1. Go(c, "call") \/ Go(c, "save")
    BY <1>1 DEF Prepare
  <2>2. CASE Go(c, "save")
    BY <1>1, <2>2, GoTurn, TurnOk DEF Prepare, At, Places
  <2>3. CASE Go(c, "call")
    <3>1. /\ Alone(c) /\ handler'[c].at = "call" /\ handler'[c].phase = handler[c].phase
          /\ handler'[c].amount = handler[c].amount /\ handler'[c].paid = handler[c].paid
      BY <1>0, <2>3, GoIs DEF Places
    <3>2. QED
      BY <1>0, <1>1, <3>1, TurnOk DEF Turn, HandlerOk, Onward, Prepare, At
  <2>4. QED
    BY <2>1, <2>2, <2>3
<1>2. CASE CallGateway(c)
  <2>1. /\ Alone(c) /\ handler'[c].at = "record" /\ handler'[c].phase = handler[c].phase
        /\ handler'[c].paid = GatewayPaid
    <3>1. GatewayPaid \in BOOLEAN
      BY DEF GatewayPaid
    <3>2. handler' = [handler EXCEPT ![c].at = "record", ![c].paid = GatewayPaid]
      BY <1>2 DEF CallGateway
    <3>3. "record" \in Places
      BY DEF Places
    <3>4. QED
      BY <1>0, <3>1, <3>2, <3>3, AnswerIs, Zenon
  <2>2. QED
    BY <1>0, <1>2, <2>1, TurnOk, GatewayIsPaid DEF Turn, HandlerOk, Onward, CallGateway, At
<1>3. CASE CallMock(c)
  <2>1. /\ Alone(c) /\ handler'[c].at = "paying" /\ handler'[c].phase = handler[c].phase
        /\ handler'[c].paid = handler[c].paid
    BY <1>0, <1>3, GoIs DEF CallMock, Places
  <2>2. QED
    BY <1>0, <1>3, <2>1, TurnOk DEF Turn, HandlerOk, Onward, CallMock, At, FlowAssumptions
<1>4. CASE MockStatement(c)
  <2>1. CASE UNCHANGED handler
    BY <1>0, <2>1, StaysOk DEF HandlersTyped
  <2>2. CASE handler' = [handler EXCEPT ![c] = [Resting EXCEPT !.at = "paying"]]
    <3>1. Alone(c) /\ handler'[c].at = "paying" /\ handler'[c].paid = FALSE
      BY <1>0, <2>2, ParkIs DEF Places
    <3>2. QED
      BY <1>0, <1>4, <3>1, TurnOk DEF Turn, HandlerOk, Onward, MockStatement, At
  <2>3. QED
    BY <1>4, <2>1, <2>2 DEF MockStatement, PayStatement
<1>5. CASE MockAnswer(c)
  <2>1. CASE Go(c, "record")
    BY <1>5, <2>1, GoTurn, TurnOk DEF MockAnswer, At, Places
  <2>2. CASE \E ok \in {FALSE, Sessions # {}} :
                handler' = [handler EXCEPT ![c].at = "record", ![c].paid = ok]
    <3>1. PICK ok \in {FALSE, Sessions # {}} :
                handler' = [handler EXCEPT ![c].at = "record", ![c].paid = ok]
      BY <2>2
    <3>2. /\ Alone(c) /\ handler'[c].at = "record" /\ handler'[c].phase = handler[c].phase
          /\ handler'[c].paid = ok
      <4>1. ok \in BOOLEAN
        BY <3>1
      <4>2. QED
        BY <1>0, <3>1, <4>1, AnswerIs DEF Places
    <3>3. ok => collected'[Place] > 0
      <4>1. Sessions # {} => collected[Place] > 0
        BY <1>0, <1>5, SessionIsRow DEF MockAnswer, At, HandlerOk
      <4>2. QED
        BY <3>1, <4>1 DEF Onward
    <3>4. QED
      BY <1>0, <1>5, <3>2, <3>3, TurnOk DEF Turn, HandlerOk, Onward, MockAnswer, At
  <2>3. QED
    BY <1>5, <2>1, <2>2 DEF MockAnswer
<1>6. CASE Record(c)
  BY <1>6, GoTurn, TurnOk DEF Record, At, Places
<1>7. CASE Save(c)
  <2>1. Done(c) \/ Go(c, "list")
    BY <1>7 DEF Save
  <2>2. QED
    BY <1>7, <2>1, GoTurn, DoneTurn, TurnOk DEF Save, At, Places
<1>8. CASE ListTasks(c)
  <2> DEFINE v == IF ~handler[c].paid THEN "FAILED"
                  ELSE IF \E t \in DOMAIN task : task[t] \notin Finished THEN "RUNNING" ELSE "SUCCESS"
  <2>1. handler' = [handler EXCEPT ![c].at = "verdict", ![c].verdict = v]
    BY <1>8 DEF ListTasks
  <2>2. v \in {"RUNNING"} \cup Finished /\ v # "none"
    BY DEF Finished
  <2> HIDE DEF v
  <2>3. /\ Alone(c) /\ handler'[c].at = "verdict" /\ handler'[c].phase = handler[c].phase
        /\ handler'[c].paid = handler[c].paid /\ handler'[c].verdict # "none"
    BY <1>0, <2>1, <2>2, VerdictIs DEF Places
  <2>4. QED
    BY <1>0, <1>8, <2>3, TurnOk DEF Turn, HandlerOk, Onward, ListTasks, At
<1>9. CASE WriteVerdict(c)
  BY <1>9, DoneTurn, TurnOk DEF WriteVerdict, At
<1>10. QED
  BY <1>1, <1>2, <1>3, <1>4, <1>5, <1>6, <1>7, <1>8, <1>9 DEF Executes

LEMMA CancelsTurn ==
  ASSUME FlowInv, Onward, NEW c \in Handlers, Cancels(c)
  PROVE  HandlersTyped' /\ \A d \in Handlers : HandlerOk(d)'
<1>0. HandlersTyped /\ HandlerOk(c)
  BY TypedHandlers DEF FlowInv
<1>1. ASSUME NEW open \in SUBSET {"pay", "rest"},
             \/ handler' = [handler EXCEPT ![c].at = "cancelTask", ![c].open = open]
             \/ handler' = [handler EXCEPT ![c].open = open],
             handler[c].at \in {"cancelList", "cancelTask"}
      PROVE  HandlersTyped' /\ \A d \in Handlers : HandlerOk(d)'
  <2>1. /\ Alone(c) /\ handler'[c].at \in {"cancelList", "cancelTask"}
        /\ handler'[c].phase = handler[c].phase /\ handler'[c].paid = handler[c].paid
    BY <1>0, <1>1 DEF HandlersTyped, HandlerRec, Alone, Places
  <2>2. QED
    BY <1>0, <1>1, <2>1, TurnOk DEF Turn, HandlerOk, Onward
<1>2. CASE CancelList(c)
  <2> DEFINE open == {t \in DOMAIN task : task[t] \notin Finished}
  <2>1. open \in SUBSET {"pay", "rest"}
    BY DEF FlowInv, FlowTypeOK
  <2>2. handler' = [handler EXCEPT ![c].at = "cancelTask", ![c].open = open]
    BY <1>2 DEF CancelList
  <2> HIDE DEF open
  <2>3. QED
    BY <1>1, <1>2, <2>1, <2>2 DEF CancelList, At
<1>3. CASE CancelTask(c)
  <2>1. CASE Go(c, "cancelEnd")
    BY <1>3, <2>1, GoTurn, TurnOk DEF CancelTask, At, Places
  <2>2. ASSUME NEW t, handler' = [handler EXCEPT ![c].open = @ \ {t}]
        PROVE  HandlersTyped' /\ \A d \in Handlers : HandlerOk(d)'
    <3>1. handler[c].open \ {t} \in SUBSET {"pay", "rest"}
      BY <1>0 DEF HandlersTyped, HandlerRec
    <3>2. QED
      BY <1>1, <1>3, <2>2, <3>1 DEF CancelTask, At
  <2>3. QED
    BY <1>3, <2>1, <2>2 DEF CancelTask
<1>4. CASE CancelEnd(c)
  <2>1. (Go(c, "release") \/ Stop(c)) /\ handler[c].at # "idle"
    BY <1>4 DEF CancelEnd, At
  <2>2. QED
    BY <2>1, GoTurn, StopTurn, TurnOk DEF Places
<1>5. QED
  BY <1>2, <1>3, <1>4 DEF Cancels

LEMMA UserTurn ==
  ASSUME LedgerAssumptions, FlowAssumptions, FlowInv, Onward, NEW c \in Users,
         UserStep(c) \/ Approve(c) \/ Reject(c) \/ AskCancel(c)
  PROVE  HandlersTyped' /\ \A d \in Handlers : HandlerOk(d)'
<1>0. HandlersTyped /\ HandlerOk(c) /\ c \in Handlers /\ c \notin Sweepers
  BY TypedHandlers DEF FlowInv, Handlers, FlowAssumptions
<1>1. CASE Executes(c)
  BY <1>0, <1>1, ExecutesTurn
<1>2. CASE RecordApproved(c)
  <2>1. CASE Stop(c)
    BY <1>0, <2>1, StopTurn, TurnOk
  <2>2. CASE approval' = "APPROVED" /\ Go(c, IF provider = "vnpay" THEN "open" ELSE "prepare")
    <3> DEFINE place == IF provider = "vnpay" THEN "open" ELSE "prepare"
    <3>1. place \in Places /\ place \in {"open", "prepare"} /\ (provider = "mock" => place = "prepare")
      BY DEF Places
    <3>2. Go(c, place)
      BY <2>2
    <3> HIDE DEF place
    <3>3. /\ Alone(c)
          /\ handler'[c].at = place /\ handler'[c].phase = handler[c].phase
          /\ handler'[c].amount = handler[c].amount /\ handler'[c].paid = handler[c].paid
      BY <1>0, <3>1, <3>2, GoIs
    <3>4. QED
      BY <1>0, <1>2, <2>2, <3>1, <3>3, TurnOk DEF Turn, HandlerOk, Onward, RecordApproved, At
  <2>3. QED
    BY <1>2, <2>1, <2>2 DEF RecordApproved
<1>3. CASE OpenSession(c)
  <2>1. PICK place \in {"opening", "opened"} : Go(c, place)
    BY <1>3 DEF OpenSession
  <2>2. /\ Alone(c)
        /\ handler'[c].at = place /\ handler'[c].phase = handler[c].phase
        /\ handler'[c].paid = handler[c].paid
    BY <1>0, <2>1, GoIs DEF Places
  <2>3. QED
    BY <1>0, <1>3, <2>2, TurnOk DEF Turn, HandlerOk, Onward, OpenSession, At
<1>4. CASE SessionStatement(c)
  <2>1. CASE UNCHANGED handler
    BY <1>0, <2>1, StaysOk DEF HandlersTyped
  <2>2. CASE handler' = [handler EXCEPT ![c] = [Resting EXCEPT !.at = "opened"]]
    <3>1. Alone(c) /\ handler'[c].at = "opened" /\ handler'[c].paid = FALSE
      BY <1>0, <2>2, ParkIs DEF Places
    <3>2. QED
      BY <1>0, <1>4, <3>1, TurnOk DEF Turn, HandlerOk, Onward, SessionStatement, At
  <2>3. QED
    BY <1>4, <2>1, <2>2 DEF SessionStatement, PayStatement
<1>5. CASE Redirect(c) \/ CancelWorkflow(c)
  BY <1>0, <1>5, StopTurn, TurnOk DEF Redirect, CancelWorkflow
<1>6. CASE Cancels(c)
  BY <1>0, <1>6, CancelsTurn
<1>7. CASE Approve(c)
  <2> DEFINE z == bookings[Place].zone
  <2>1. z \in Zones /\ Price[z] \in Amounts
    BY <1>7, HandlersAreClients DEF Approve, Quotable, FlowInv, MoneyInv, TypeOK, Booking, NoBooking,
       LedgerAssumptions, Amounts
  <2>2. /\ handler' = [handler EXCEPT ![c].at = "approve", ![c].amount = Price[z]]
        /\ handler[c].at = "idle"
    BY <1>7 DEF Approve, At
  <2> HIDE DEF z
  <2>3. /\ Alone(c) /\ handler'[c].at = "approve" /\ handler'[c].paid = handler[c].paid
        /\ handler'[c].amount = Price[z]
    <3>1. "approve" \in Places
      BY DEF Places
    <3>2. QED
      BY <1>0, <2>1, <2>2, <3>1, QuoteIs
  <2>4. QED
    BY <1>0, <2>1, <2>3, TurnOk DEF Turn, HandlerOk, Onward
<1>8. CASE AskCancel(c)
  <2>1. PICK place \in {"reject", "cancelAll"} : Go(c, place)
    BY <1>8 DEF AskCancel
  <2>2. /\ Alone(c) /\ handler'[c].at = place /\ handler'[c].paid = handler[c].paid
    BY <1>0, <2>1, GoIs DEF Places
  <2>3. QED
    BY <1>0, <2>2, TurnOk DEF Turn, HandlerOk, Onward
<1>9. CASE Reject(c)
  <2>1. CASE Stop(c)
    BY <1>0, <2>1, StopTurn, TurnOk
  <2>2. CASE Go(c, "cancelList")
    <3>1. /\ Alone(c) /\ handler'[c].at = "cancelList" /\ handler'[c].paid = handler[c].paid
      BY <1>0, <2>2, GoIs DEF Places
    <3>2. QED
      BY <1>0, <3>1, TurnOk DEF Turn, HandlerOk, Onward
  <2>3. QED
    BY <1>9, <2>1, <2>2 DEF Reject
<1>10. QED
  BY <1>1, <1>2, <1>3, <1>4, <1>5, <1>6, <1>7, <1>8, <1>9 DEF UserStep

LEMMA ResumeTurn ==
  ASSUME FlowAssumptions, FlowInv, Onward, NEW c \in Handlers \ Users, Resume(c)
  PROVE  HandlersTyped' /\ \A d \in Handlers : HandlerOk(d)'
<1>0. HandlersTyped /\ HandlerOk(c) /\ provider # "mock"
  BY TypedHandlers DEF FlowInv, Resume, At, HandlerOk
<1>1. CASE Done(c)
  BY <1>1, DoneTurn, TurnOk DEF Resume, At
<1>2. CASE approval = "APPROVED" /\ Go(c, "prepare")
  <2>1. /\ Alone(c) /\ handler'[c].at = "prepare" /\ handler'[c].phase = handler[c].phase
        /\ handler'[c].paid = handler[c].paid
    BY <1>0, <1>2, GoIs DEF Places
  <2>2. QED
    BY <1>0, <1>2, <2>1, TurnOk DEF Turn, HandlerOk, Onward, Resume, At
<1>3. QED
  BY <1>1, <1>2 DEF Resume

LEMMA CallbackTurn ==
  ASSUME LedgerAssumptions, FlowAssumptions, FlowInv, Onward, NEW c \in Callbacks,
         CallbackStep(c) \/ \E p \in PaymentIds : Callback(c, p)
  PROVE  HandlersTyped' /\ \A d \in Handlers : HandlerOk(d)'
<1>0. /\ HandlersTyped /\ HandlerOk(c) /\ c \in Handlers /\ c \notin Sweepers /\ c \notin Users
  BY TypedHandlers DEF FlowInv, Handlers, FlowAssumptions
<1>1. CASE Executes(c)
  BY <1>0, <1>1, ExecutesTurn
<1>2. CASE Resume(c)
  BY <1>0, <1>2, ResumeTurn
<1>3. CASE CallbackReturns(c)
  BY <1>0, <1>3, StaysOk DEF CallbackReturns, flow, HandlersTyped
<1>4. CASE Confirm(c)
  <2>1. provider # "mock"
    BY <1>0, <1>4 DEF Confirm, At, HandlerOk
  <2>2. CASE Stop(c)
    BY <1>0, <2>2, StopTurn, TurnOk
  <2>3. CASE Go(c, "resume")
    <3>1. Alone(c) /\ handler'[c].at = "resume" /\ handler'[c].paid = handler[c].paid
      BY <1>0, <2>3, GoIs DEF Places
    <3>2. QED
      BY <1>0, <2>1, <3>1, TurnOk DEF Turn, HandlerOk, Onward
  <2>4. QED
    BY <1>4, <2>2, <2>3 DEF Confirm
<1>5. ASSUME NEW p \in PaymentIds, Callback(c, p)
      PROVE  HandlersTyped' /\ \A d \in Handlers : HandlerOk(d)'
  <2>1. provider # "mock"
    BY <1>5 DEF Callback, FlowInv, FlowTypeOK, MockPays
  <2>2. Alone(c) /\ handler'[c].at = "confirm" /\ handler'[c].paid = handler[c].paid
    BY <1>0, <1>5, GoIs DEF Callback, Places
  <2>3. QED
    BY <1>0, <2>1, <2>2, TurnOk DEF Turn, HandlerOk, Onward
<1>6. QED
  BY <1>1, <1>2, <1>3, <1>4, <1>5 DEF CallbackStep

LEMMA SweepTurn ==
  ASSUME LedgerAssumptions, FlowAssumptions, FlowInv, Onward, NEW c \in Sweepers,
         SweepStep(c) \/ StartSweep(c)
  PROVE  HandlersTyped' /\ \A d \in Handlers : HandlerOk(d)'
<1>0. /\ HandlersTyped /\ HandlerOk(c) /\ c \in Handlers /\ c \notin Users
  BY TypedHandlers DEF FlowInv, Handlers, FlowAssumptions
<1>1. CASE Executes(c) \/ Cancels(c) \/ Resume(c)
  BY <1>0, <1>1, ExecutesTurn, CancelsTurn, ResumeTurn
<1>2. CASE SelectApproval(c) \/ (\E p \in PaymentIds : SelectSession(c, p)) \/ SelectZombie(c)
  <2>1. Go(c, "cancelList") /\ handler[c].at = "select"
    BY <1>2 DEF SelectApproval, SelectSession, SelectZombie, Selecting, At
  <2>2. QED
    BY <1>0, <2>1, GoTurn, TurnOk DEF Places
<1>3. CASE SelectNothing(c) \/ Delete(c)
  <2>1. Done(c) /\ handler[c].at # "idle"
    BY <1>3 DEF SelectNothing, Delete, At
  <2>2. QED
    BY <1>0, <2>1, DoneTurn, TurnOk
<1>4. CASE SelectPaid(c)
  <2>1. CASE Stop(c)
    BY <1>0, <2>1, StopTurn, TurnOk
  <2>2. CASE provider = "vnpay" /\ Go(c, "resume")
    <3>1. /\ Alone(c) /\ handler'[c].at = "resume" /\ handler'[c].phase = handler[c].phase
          /\ handler'[c].paid = handler[c].paid
      BY <1>0, <2>2, GoIs DEF Places
    <3>2. QED
      BY <1>0, <1>4, <2>2, <3>1, TurnOk DEF Turn, HandlerOk, Onward, SelectPaid, Selecting, At
  <2>3. QED
    BY <1>4, <2>1, <2>2 DEF SelectPaid
<1>5. CASE Release(c)
  <2>1. (Go(c, "refund") \/ Done(c)) /\ handler[c].at # "idle"
    BY <1>5 DEF Release, At
  <2>2. QED
    BY <1>0, <2>1, GoTurn, DoneTurn, TurnOk DEF Places
<1>6. CASE Refund(c)
  BY <1>0, <1>6, GoTurn, TurnOk DEF Refund, At, Places
<1>7. CASE StartSweep(c)
  <2>1. /\ Alone(c) /\ handler'[c].at = "select" /\ handler'[c].phase = "approvals"
        /\ handler'[c].paid = handler[c].paid
    <3>1. "select" \in Places /\ "approvals" \in PhaseNames
      BY DEF Places, PhaseNames
    <3>2. QED
      BY <1>0, <1>7, <3>1, PhaseIs DEF StartSweep
  <2>2. QED
    BY <1>0, <2>1, TurnOk DEF Turn, HandlerOk, Onward
<1>8. QED
  BY <1>1, <1>2, <1>3, <1>4, <1>5, <1>6, <1>7 DEF SweepStep

LEMMA HandlersStep ==
  ASSUME LedgerAssumptions, FlowAssumptions, FlowInv, [FlowNext]_flowVars
  PROVE  HandlersTyped' /\ \A d \in Handlers : HandlerOk(d)'
<1>1. Onward
  BY FlowIs, LedgerGoesOn DEF Onward, ConsentStep
<1>2. CASE UNCHANGED handler
  BY <1>1, <1>2, StaysOk, TypedHandlers DEF HandlersTyped, FlowInv
<1>3. CASE handler' = [c \in Handlers |-> Resting]
  BY <1>3, RestingIs, RestsOk DEF HandlersTyped
<1>4. CASE \/ \E c \in Users : Approve(c) \/ Reject(c) \/ AskCancel(c) \/ UserStep(c)
           \/ \E c \in Callbacks : (\E p \in PaymentIds : Callback(c, p)) \/ CallbackStep(c)
           \/ \E c \in Sweepers : StartSweep(c) \/ SweepStep(c)
  BY <1>1, <1>4, UserTurn, CallbackTurn, SweepTurn
<1>5. QED
  BY <1>2, <1>3, <1>4 DEF FlowNext, SavePendingApproval, GatewayCharges, DeskChanges, Crash,
     ProviderGoesOn, flowVars, flow

-------------------------------------------------------------------------------
(* The other rows *)

\* pay_fee succeeds by the one write that saw the money.
LEMMA TaskStep ==
  ASSUME LedgerAssumptions, FlowAssumptions, FlowInv, [FlowNext]_flowVars
  PROVE  /\ task' \in [{"pay", "rest"} -> {"PENDING", "WAITING_APPROVAL"} \cup Finished]
         /\ task'["pay"] = "SUCCESS" => task["pay"] = "SUCCESS" \/ collected[Place] > 0
<1>1. task \in [{"pay", "rest"} -> {"PENDING", "WAITING_APPROVAL"} \cup Finished]
  BY DEF FlowInv, FlowTypeOK
<1>2. CASE UNCHANGED task
  BY <1>1, <1>2
<1>3. CASE task' = [task EXCEPT !["pay"] = "WAITING_APPROVAL"]
  BY <1>1, <1>3
<1>4. ASSUME NEW c \in Handlers, Save(c)
      PROVE  /\ task' \in [{"pay", "rest"} -> {"PENDING", "WAITING_APPROVAL"} \cup Finished]
             /\ task'["pay"] = "SUCCESS" => task["pay"] = "SUCCESS" \/ collected[Place] > 0
  <2>1. handler[c].paid => collected[Place] > 0
    BY DEF FlowInv, HandlerOk
  <2>2. QED
    BY <1>1, <1>2, <1>4, <2>1 DEF Save, Finished
<1>5. ASSUME NEW c \in Handlers, CancelTask(c)
      PROVE  /\ task' \in [{"pay", "rest"} -> {"PENDING", "WAITING_APPROVAL"} \cup Finished]
             /\ task'["pay"] = "SUCCESS" => task["pay"] = "SUCCESS" \/ collected[Place] > 0
  BY <1>1, <1>2, <1>5 DEF CancelTask, Finished
<1>6. ASSUME NEW c \in Users, CancelWorkflow(c)
      PROVE  /\ task' \in [{"pay", "rest"} -> {"PENDING", "WAITING_APPROVAL"} \cup Finished]
             /\ task'["pay"] = "SUCCESS" => task["pay"] = "SUCCESS" \/ collected[Place] > 0
  BY <1>1, <1>2, <1>6 DEF CancelWorkflow, Finished
<1>7. ASSUME NEW c \in Handlers, Executes(c)
      PROVE  UNCHANGED task \/ Save(c)
  BY <1>7 DEF Executes, Prepare, CallGateway, CallMock, MockStatement, MockAnswer, Record,
              ListTasks, WriteVerdict, workflowRows
<1>8. ASSUME NEW c, Cancels(c) PROVE UNCHANGED task \/ CancelTask(c)
  BY <1>8 DEF Cancels, CancelList, CancelEnd, workflowRows
<1>9. ASSUME NEW c \in Users, UserStep(c) \/ Approve(c) \/ Reject(c) \/ AskCancel(c)
      PROVE  UNCHANGED task \/ Save(c) \/ CancelTask(c) \/ CancelWorkflow(c)
  BY <1>7, <1>8, <1>9 DEF UserStep, Approve, Reject, AskCancel, RecordApproved, OpenSession,
     SessionStatement, Redirect, workflowRows, Handlers
<1>10. ASSUME NEW c \in Callbacks, CallbackStep(c) \/ \E p \in PaymentIds : Callback(c, p)
       PROVE  UNCHANGED task \/ Save(c)
  BY <1>7, <1>10 DEF CallbackStep, Callback, Confirm, Resume, CallbackReturns, workflowRows, flow,
     Handlers
<1>11. ASSUME NEW c \in Sweepers, SweepStep(c) \/ StartSweep(c)
       PROVE  UNCHANGED task \/ Save(c) \/ CancelTask(c)
  BY <1>7, <1>8, <1>11 DEF SweepStep, StartSweep, SelectApproval, SelectSession, SelectZombie,
     SelectNothing, SelectPaid, Release, Refund, Delete, Resume, workflowRows, Handlers
<1>12. Users \subseteq Handlers /\ Callbacks \subseteq Handlers /\ Sweepers \subseteq Handlers
  BY DEF Handlers
<1>13. QED
  BY <1>2, <1>3, <1>4, <1>5, <1>6, <1>9, <1>10, <1>11, <1>12 DEF FlowNext, SavePendingApproval,
     GatewayCharges, DeskChanges, Crash, ProviderGoesOn, flowVars, flow, workflowRows

LEMMA RowsStep ==
  ASSUME LedgerAssumptions, FlowAssumptions, FlowInv, [FlowNext]_flowVars
  PROVE  /\ wf' \in {"RUNNING", "WAITING_APPROVAL"} \cup Finished
         /\ evidence' \in {"NOT_SUBMITTED", "SUBMITTING", "ACKNOWLEDGED", "UNKNOWN"}
         /\ charged' \subseteq urls' /\ crashes' \in 0..MaxCrashes
         /\ \/ UNCHANGED urls
            \/ /\ urls' \subseteq PaymentIds /\ provider # "mock"
<1> DEFINE Goal == /\ wf' \in {"RUNNING", "WAITING_APPROVAL"} \cup Finished
                   /\ evidence' \in {"NOT_SUBMITTED", "SUBMITTING", "ACKNOWLEDGED", "UNKNOWN"}
                   /\ charged' \subseteq urls' /\ crashes' \in 0..MaxCrashes
                   /\ \/ UNCHANGED urls
                      \/ /\ urls' \subseteq PaymentIds /\ provider # "mock"
<1>1. /\ wf \in {"RUNNING", "WAITING_APPROVAL"} \cup Finished
      /\ evidence \in {"NOT_SUBMITTED", "SUBMITTING", "ACKNOWLEDGED", "UNKNOWN"}
      /\ urls \subseteq PaymentIds /\ charged \subseteq urls /\ crashes \in 0..MaxCrashes
  BY DEF FlowInv, FlowTypeOK
<1>2. CASE UNCHANGED <<wf, evidence, outside>>
  BY <1>1, <1>2 DEF outside
<1>3. ASSUME NEW c \in Handlers, Executes(c) PROVE Goal
  <2>1. CASE WriteVerdict(c)
    <3>1. handler[c].verdict \in {"RUNNING"} \cup Finished
      BY <2>1, TypedHandlers DEF FlowInv, HandlerOk, WriteVerdict, At, HandlersTyped, HandlerRec
    <3>2. QED
      BY <1>1, <2>1, <3>1 DEF WriteVerdict, outside
  <2>2. CASE ~WriteVerdict(c)
    BY <1>1, <1>3, <2>2 DEF Executes, Prepare, CallGateway, CallMock, MockStatement, MockAnswer,
       Record, Save, ListTasks, workflowRows, outside
  <2>3. QED
    BY <2>1, <2>2
<1>4. ASSUME NEW c, Cancels(c) PROVE Goal
  BY <1>1, <1>4 DEF Cancels, CancelList, CancelTask, CancelEnd, workflowRows, outside, Finished
<1>5. ASSUME NEW c \in Users, UserStep(c) \/ Approve(c) \/ Reject(c) \/ AskCancel(c)
      PROVE  Goal
  <2>1. CASE Executes(c) \/ Cancels(c)
    BY <1>3, <1>4, <2>1 DEF Handlers
  <2>2. CASE Redirect(c)
    <3>1. provider # "mock"
      BY <2>2 DEF Redirect, At, FlowInv, HandlerOk, Handlers
    <3>2. Sessions \subseteq PaymentIds
      BY DEF Sessions, WithKey, Rows
    <3>3. QED
      BY <1>1, <2>2, <3>1, <3>2 DEF Redirect, workflowRows
  <2>3. CASE CancelWorkflow(c)
    BY <1>1, <2>3 DEF CancelWorkflow, outside, Finished
  <2>4. QED
    BY <1>2, <1>5, <2>1, <2>2, <2>3 DEF UserStep, Approve, Reject, AskCancel, RecordApproved,
       OpenSession, SessionStatement, workflowRows
<1>6. ASSUME NEW c \in Callbacks, CallbackStep(c) \/ \E p \in PaymentIds : Callback(c, p)
      PROVE  Goal
  BY <1>2, <1>3, <1>6 DEF CallbackStep, Callback, Confirm, Resume, CallbackReturns, workflowRows,
     flow, outside, Handlers
<1>7. ASSUME NEW c \in Sweepers, SweepStep(c) \/ StartSweep(c)
      PROVE  Goal
  <2>1. CASE SelectPaid(c)
    BY <1>1, <2>1 DEF SelectPaid, workflowRows
  <2>2. CASE ~SelectPaid(c)
    BY <1>2, <1>3, <1>4, <1>7, <2>2 DEF SweepStep, StartSweep, SelectApproval, SelectSession,
       SelectZombie, SelectNothing, Release, Refund, Delete, Resume, workflowRows, Handlers
  <2>3. QED
    BY <2>1, <2>2
<1>8. CASE SavePendingApproval
  BY <1>1, <1>8 DEF SavePendingApproval, outside
<1>9. ASSUME NEW p \in PaymentIds, GatewayCharges(p) PROVE Goal
  BY <1>1, <1>9 DEF GatewayCharges, workflowRows
<1>10. CASE Crash
  BY <1>1, <1>10 DEF Crash, workflowRows, FlowAssumptions
<1>11. CASE UNCHANGED flow
  BY <1>2, <1>11 DEF flow, outside
<1>12. QED
  BY <1>5, <1>6, <1>7, <1>8, <1>9, <1>10, <1>11 DEF FlowNext, DeskChanges, ProviderGoesOn, flowVars

\* The history is a truth value.
LEMMA CrossedTyped ==
  ASSUME [FlowNext]_flowVars, crossed \in BOOLEAN PROVE crossed' \in BOOLEAN
<1>1. UNCHANGED outside => crossed' \in BOOLEAN
  BY DEF outside
<1>2. ASSUME NEW c, Executes(c) PROVE UNCHANGED outside
  BY <1>2 DEF Executes, Prepare, CallGateway, CallMock, MockStatement, MockAnswer,
     Record, Save, ListTasks, WriteVerdict
<1>3. ASSUME NEW c, Cancels(c) PROVE UNCHANGED outside
  BY <1>3 DEF Cancels, CancelList, CancelTask, CancelEnd
<1>4. ASSUME NEW c, UserStep(c) \/ Approve(c) \/ Reject(c) \/ AskCancel(c) PROVE crossed' \in BOOLEAN
  BY <1>1, <1>2, <1>3, <1>4 DEF UserStep, Approve, Reject, AskCancel, RecordApproved, OpenSession,
     SessionStatement, Redirect, CancelWorkflow
<1>5. ASSUME NEW c, CallbackStep(c) \/ \E p \in PaymentIds : Callback(c, p) PROVE crossed' \in BOOLEAN
  BY <1>1, <1>2, <1>5 DEF CallbackStep, Callback, Confirm, Resume, CallbackReturns, flow
<1>6. ASSUME NEW c, SweepStep(c) \/ StartSweep(c) PROVE crossed' \in BOOLEAN
  BY <1>1, <1>2, <1>3, <1>6 DEF SweepStep, StartSweep, SelectApproval, SelectSession, SelectZombie,
     SelectNothing, SelectPaid, Release, Refund, Delete, Resume
<1>7. QED
  BY <1>1, <1>4, <1>5, <1>6 DEF FlowNext, SavePendingApproval, GatewayCharges, DeskChanges, Crash,
     ProviderGoesOn, flowVars, flow

LEMMA FlowInvStep ==
  ASSUME LedgerAssumptions, FlowAssumptions, FlowInv, [FlowNext]_flowVars
  PROVE  FlowInv'
<1>1. /\ MoneyInv' /\ bookings'[Place] # NoBooking
      /\ collected[Place] > 0 => collected'[Place] > 0
  BY LedgerGoesOn
<1>2. HandlersTyped' /\ \A c \in Handlers : HandlerOk(c)'
  BY HandlersStep
<1>3. ConsentStep /\ UNCHANGED provider
  BY FlowIs
<1>4. Consented'
  <2>1. approval = "APPROVED" => approval' = "APPROVED"
    BY <1>3 DEF ConsentStep
  <2>2. \A p \in PaymentIds : Pending(p)' => approval = "APPROVED"
    BY PendingStep
  <2>3. \A c \in Clients : txn'[c].step \in PaySteps => approval = "APPROVED"
    BY PayStepsStep
  <2>4. QED
    BY <2>1, <2>2, <2>3 DEF Consented
<1>5. MockPays'
  <2>1. urls = {} => urls' = {} \/ provider # "mock"
    BY RowsStep
  <2>2. \A p \in PaymentIds : Pending(p)' => provider # "mock"
    BY PendingStep
  <2>3. \A c \in Clients : txn'[c].step \in PaySteps => (provider = "mock" => txn'[c].kind = "pay")
    BY PayStepsStep
  <2>4. provider = "mock" /\ PlaceHasRow' => collected'[Place] > 0
    BY PlaceRowStep
  <2>5. QED
    BY <1>3, <2>1, <2>2, <2>3, <2>4 DEF MockPays, FlowInv
<1>6. SuccessWasPaid'
  BY <1>1, TaskStep DEF FlowInv, SuccessWasPaid
<1>7. FlowTypeOK'
  <2>1. TypeOK'
    BY <1>1 DEF MoneyInv
  <2>2. approval' \in {"NONE", "AWAITING", "APPROVED", "REJECTED"} /\ provider' \in Providers
    BY <1>3 DEF ConsentStep, FlowInv, FlowTypeOK
  <2>3. urls' \subseteq PaymentIds
    BY RowsStep DEF FlowInv, FlowTypeOK
  <2>4. handler' \in [Handlers -> [at : Places,
                       phase : {"none"} \cup {Phases[i] : i \in DOMAIN Phases},
                       open : SUBSET {"pay", "rest"}, verdict : {"none", "RUNNING"} \cup Finished,
                       amount : Amounts \cup {0}, paid : BOOLEAN]]
    BY <1>2, PhasesAre DEF HandlersTyped, HandlerRec
  <2>5. crossed' \in BOOLEAN
    BY CrossedTyped DEF FlowInv, FlowTypeOK
  <2>6. QED
    BY <2>1, <2>2, <2>3, <2>4, <2>5, TaskStep, RowsStep DEF FlowTypeOK
<1>8. QED
  BY <1>1, <1>2, <1>4, <1>5, <1>6, <1>7 DEF FlowInv

-------------------------------------------------------------------------------
(* The theorems *)

LEMMA FlowInvInit ==
  ASSUME LedgerAssumptions, FlowAssumptions, FlowInit
  PROVE  FlowInv
<1> DEFINE z == CHOOSE y \in Zones : TRUE
           held == [status |-> "ACTIVE", vehicle |-> Car, zone |-> z, checked |-> FALSE]
<1>1. held \in Booking /\ held # NoBooking /\ NoBooking.status = "NONE"
  BY DEF FlowAssumptions, Booking, NoBooking
<1>2. bookings = [b \in BookingIds |-> IF b = Place THEN held ELSE NoBooking]
  BY DEF FlowInit
<1> HIDE DEF held
<1>3. /\ bookings \in [BookingIds -> Booking \cup {NoBooking}] /\ bookings[Place] # NoBooking
  BY <1>1, <1>2, HandlersAreClients
<1>4. /\ \A p \in PaymentIds : payments[p] = NoPayment /\ payments[p].status = "NONE"
      /\ \A c \in Clients : txn[c] = Idle /\ txn[c].step = "idle"
  BY DEF FlowInit, NoPayment, Idle
<1>5. TypeOK
  BY <1>3 DEF FlowInit, TypeOK
<1>6. Shape
  <2>1. \E S : txn \in [Clients -> S]
    BY <1>5 DEF TypeOK
  <2>2. Table(payments)
    BY <1>5 DEF TypeOK, Table
  <2>3. QED
    BY <1>3, <1>4, <2>1, <2>2 DEF Shape, IsTxn, HoldsBooking
<1>7. Locked /\ Seen
  BY <1>4 DEF Locked, Seen, SawNone, HoldsBooking, HoldsZone
<1>8. OneOpenSession /\ Keyed /\ Placed /\ Standing
  BY <1>4 DEF OneOpenSession, Pending, Keyed, Placed, Standing
<1>9. \A b \in BookingIds : Covered(b) /\ Even(b)
  BY NoMoneyYet DEF FlowInit
<1>10. MoneyInv
  BY <1>5, <1>6, <1>7, <1>8, <1>9 DEF MoneyInv
<1>11. \A c \in Handlers : handler[c] = Resting
  BY DEF FlowInit
<1>12. \A c \in Handlers : HandlerOk(c)
  BY <1>11, RestingIs DEF HandlerOk
<1>13. FlowTypeOK
  <2>1. handler \in [Handlers -> [at : Places,
                       phase : {"none"} \cup {Phases[i] : i \in DOMAIN Phases},
                       open : SUBSET {"pay", "rest"}, verdict : {"none", "RUNNING"} \cup Finished,
                       amount : Amounts \cup {0}, paid : BOOLEAN]]
    BY RestingIs, PhasesAre DEF FlowInit, HandlerRec
  <2>2. task \in [{"pay", "rest"} -> {"PENDING", "WAITING_APPROVAL"} \cup Finished]
    BY DEF FlowInit, Finished
  <2>3. crashes \in 0..MaxCrashes
    BY DEF FlowInit, FlowAssumptions
  <2>4. QED
    BY <1>5, <2>1, <2>2, <2>3 DEF FlowTypeOK, FlowInit
<1>14. Consented /\ MockPays
  BY <1>4 DEF Consented, MockPays, Pending, PaySteps, PlaceHasRow, FlowInit
<1>15. SuccessWasPaid
  BY DEF FlowInit, SuccessWasPaid
<1>16. QED
  BY <1>3, <1>10, <1>12, <1>13, <1>14, <1>15 DEF FlowInv

LEMMA FlowInvariant == FlowSpec => []FlowInv
<1>1. FlowInit => FlowInv
  BY FlowInvInit, LedgerAssumptions, FlowAssumptions
<1>2. FlowInv /\ [FlowNext]_flowVars => FlowInv'
  BY FlowInvStep, LedgerAssumptions, FlowAssumptions
<1>3. QED
  BY <1>1, <1>2, PTL DEF FlowSpec

\* Every row and every handler keeps its type, so no resume ever writes a
\* status that no step of the code has drawn.
THEOREM FlowTyped == FlowSpec => []FlowTypeOK
<1>1. FlowInv => FlowTypeOK
  BY DEF FlowInv
<1>2. QED
  BY <1>1, FlowInvariant, PTL

\* pay_fee is SUCCESS only for money that came in, whichever handler resumed,
\* expired, cancelled or crashed in between: a resume carries "paid" only from
\* a PAID row, and what came in is never uncounted.
THEOREM SuccessPaid == FlowSpec => []SuccessWasPaid
<1>1. FlowInv => SuccessWasPaid
  BY DEF FlowInv
<1>2. QED
  BY <1>1, FlowInvariant, PTL

\* A step of the ledger takes money, gives money back, gives the place up, or
\* is none of Escrow's business.
LEMMA MoneyImplements ==
  ASSUME LedgerAssumptions, FlowAssumptions, FlowInv, [Next]_vars, UNCHANGED approval
  PROVE  [Contract!Next]_(Contract!escrowVars)
<1> DEFINE gone == bookings[Place].status = "DELETED"
           gone2 == bookings'[Place].status = "DELETED"
<1>1. /\ Place \in BookingIds /\ bookings[Place] # NoBooking
      /\ MoneyInv' /\ Effect /\ Moved(Place) /\ Covered(Place) /\ Covered(Place)'
      /\ collected[Place] \in Nat /\ returned[Place] \in Nat
      /\ collected'[Place] \in Nat /\ returned'[Place] \in Nat
  BY MoneyInvStep, HandlersAreClients DEF FlowInv, MoneyInv, Effect, TypeOK
<1>2. /\ PaidIn(Place) \in Nat /\ (PaidIn(Place) = 0 <=> ~Paid(Place))
  BY <1>1, SumIs, PaidIs DEF PaidIn, FlowInv, MoneyInv, TypeOK, IsTable
<1>3. CASE /\ Exists(Place) /\ gone2 /\ ~Paid(Place) /\ UNCHANGED <<collected, returned>>
  <2>1. ~gone /\ collected[Place] <= returned[Place]
    BY <1>1, <1>2, <1>3 DEF Exists, Covered
  <2>2. Contract!GiveUp
    BY <1>3, <2>1 DEF Contract!GiveUp
  <2>3. QED
    BY <2>2 DEF Contract!Next
<1>4. CASE gone2 <=> gone
  <2>1. CASE Unmoved(Place)
    BY <1>4, <2>1 DEF Unmoved, Contract!escrowVars
  <2>2. CASE Charged(Place)
    <3>1. ~gone /\ collected[Place] <= returned[Place]
      BY <1>1, <1>2, <2>2 DEF Charged, Exists, Covered
    <3>2. Price[bookings[Place].zone] \in Nat \ {0}
      BY <1>1 DEF FlowInv, MoneyInv, TypeOK, Booking, LedgerAssumptions
    <3>3. collected'[Place] > collected[Place] /\ UNCHANGED returned[Place]
      BY <1>1, <2>2, <3>2 DEF Charged
    <3>4. approval = "APPROVED"
      <4>1. collected' # collected
        BY <1>1, <3>3
      <4>2. ASSUME NEW c \in Clients, txn[c].step = "confirmWrite"
            PROVE  txn[c].payment \in PaymentIds
        BY <4>2, TxnAt DEF FlowInv, MoneyInv, Shape, ConfirmTxn
      <4>3. QED
        BY <4>1, <4>2, ChargeStep DEF FlowInv, Consented, Pending, PaySteps
    <3>5. Contract!Take
      BY <1>1, <1>4, <3>1, <3>3, <3>4 DEF Contract!Take
    <3>6. QED
      BY <3>5 DEF Contract!Next
  <2>3. CASE Settled(Place) \/ Refunded(Place)
    <3>1. collected[Place] > 0 /\ UNCHANGED collected[Place] /\ returned'[Place] > returned[Place]
      BY <1>1, <1>2, <2>3 DEF Settled, Refunded, Covered
    <3>2. Contract!GiveBack
      BY <1>1, <1>4, <3>1 DEF Contract!GiveBack
    <3>3. QED
      BY <3>2 DEF Contract!Next
  <2>4. QED
    BY <1>1, <2>1, <2>2, <2>3 DEF Moved
<1>5. QED
  BY <1>1, <1>3, <1>4, GoneStep DEF FlowInv, MoneyInv, Exists

\* The flow keeps the promise about the place and its money, for every number
\* of requests, callbacks, sweeps and restarts and whatever they overtake: no
\* money before consent, no second charge while money is held, no place given
\* up with money in it.
THEOREM EscrowKept == FlowSpec => ImplementsEscrow
<1>1. FlowInit => Contract!Init
  <2> SUFFICES ASSUME FlowInit PROVE Contract!Init
    OBVIOUS
  <2>1. Place \in BookingIds
    BY FlowAssumptions, HandlersAreClients
  <2>2. bookings[Place].status = "ACTIVE" /\ collected[Place] = 0 /\ returned[Place] = 0
    BY <2>1 DEF FlowInit
  <2>3. QED
    BY <2>2 DEF FlowInit, Contract!Init
<1>2. FlowInv /\ [FlowNext]_flowVars => [Contract!Next]_(Contract!escrowVars)
  <2> SUFFICES ASSUME FlowInv, [FlowNext]_flowVars PROVE [Contract!Next]_(Contract!escrowVars)
    OBVIOUS
  <2>1. CASE UNCHANGED vars /\ approval \in {"NONE", "AWAITING"} /\ approval' = "AWAITING"
    BY <2>1 DEF vars, Contract!Next, Contract!Ask, Contract!escrowVars
  <2>2. CASE UNCHANGED vars /\ approval = "AWAITING" /\ approval' \in {"APPROVED", "REJECTED"}
    BY <2>2 DEF vars, Contract!Next, Contract!Decide
  <2>3. CASE UNCHANGED approval /\ [Next]_vars
    BY <2>3, MoneyImplements, LedgerAssumptions, FlowAssumptions
  <2>4. CASE UNCHANGED approval /\ Forgets
    BY <2>4 DEF Forgets, Contract!escrowVars
  <2>5. QED
    BY <2>1, <2>2, <2>3, <2>4, FlowIs, LedgerSteps, FlowAssumptions DEF ConsentStep
<1>3. QED
  BY <1>1, <1>2, FlowInvariant, PTL DEF FlowSpec, ImplementsEscrow, Contract!Spec

-------------------------------------------------------------------------------
(* No workflow ends well without its place *)

\* Who is creating the session, and who may yet write the workflow's verdict.
Openers == {c \in Handlers : handler[c].at \in {"open", "opening"}}
WriterPlaces == {"resume", "prepare", "call", "paying", "record", "save", "list", "verdict"}
Writing == {c \in Handlers : handler[c].at \in WriterPlaces}

\* Nobody can become a writer any more: no decision, no session to come or to confirm.
Spent == approval # "AWAITING" /\ Openers = {} /\ \A p \in PaymentIds : ~Pending(p)
Closed == approval = "APPROVED" /\ Spent

\* Every payment is the workflow's own; its opener creates the session, and only the
\* mock provider pays without one.
Dealings ==
  /\ \A p \in PaymentIds : Pending(p) => payments[p].booking = Place
  /\ \A c \in Clients : txn[c].step \in PaySteps =>
        /\ txn[c].booking = Place
        /\ txn[c].kind = "open" => c \in Users /\ At(c, "opening")
        /\ txn[c].kind = "pay" => provider = "mock"
OneOpener == /\ \A c, d \in Openers : c = d
             /\ Openers # {} => \A p \in PaymentIds : ~Pending(p)
PaidIsClosed == (\E p \in PaymentIds : payments[p].status = "PAID") => Closed
WritesClosed == Writing # {} => Closed
EndsSpent == wf \in {"RUNNING", "FAILED"} => Spent

\* A sweep cancels what it read, then the workflow, and takes the place of one that ended.
Compensating == {"cancelList", "cancelTask", "cancelEnd", "release", "refund", "delete"}
Cancelling ==
  \A s \in Sweepers :
    /\ At(s, "cancelTask") => task["pay"] \in Finished \/ "pay" \in handler[s].open
    /\ handler[s].at \in {"cancelEnd", "release", "refund", "delete"} => task["pay"] \in Finished
    /\ handler[s].at \in {"release", "refund", "delete"} /\ handler[s].phase # "zombies"
         => wf = "CANCELLED"
    /\ handler[s].at \in {"refund", "delete"} /\ ~crossed => wf \in {"FAILED", "CANCELLED"}

\* A zombie was selected when nobody was at work on it: from then on one handler at most
\* may still write, none where the workflow runs or has failed, unless a sweep repairs it.
Deleted == bookings[Place].status = "DELETED"
Over == \/ Deleted
        \/ \E s \in Sweepers : handler[s].phase = "zombies" /\ handler[s].at \in Compensating
OverIsOver ==
  Over /\ wf # "CANCELLED" /\ ~crossed =>
    /\ \A c, d \in Writing : c = d
    /\ wf \in {"RUNNING", "FAILED"} => Writing = {}
GoneIsOver == Deleted => /\ task["pay"] \in Finished
                         /\ ~crossed => wf \in {"FAILED", "CANCELLED"}

ReleaseInv ==
  /\ Dealings /\ OneOpener /\ PaidIsClosed /\ WritesClosed /\ EndsSpent
  /\ Cancelling /\ OverIsOver /\ GoneIsOver

-------------------------------------------------------------------------------
(* The ways of a handler *)

Approves(c) ==
  /\ c \in Users /\ approval = "AWAITING" /\ approval' = "APPROVED"
  /\ UNCHANGED <<vars, wf, task>>
  /\ handler'[c].at = IF provider = "vnpay" THEN "open" ELSE "prepare"
Confirms(c) ==
  /\ c \in Callbacks /\ ConfirmWrite(c) /\ payments' # payments
  /\ UNCHANGED <<wf, task, approval>>
  /\ handler'[c].at = "resume"
Heals(c) ==
  /\ c \in Sweepers /\ At(c, "select") /\ GatewayPaid /\ task["pay"] \notin Finished
  /\ UNCHANGED <<vars, wf, task, approval>>
  /\ (\E s \in Sweepers : ClosesZombie(s)) => crossed'
  /\ handler'[c].at = "resume"
Compensates(c) ==
  /\ c \in Sweepers /\ handler'[c].phase = handler[c].phase
  /\ \/ /\ At(c, "select") /\ handler'[c].at = "cancelList"
        /\ handler[c].phase = "zombies" => \A d \in Handlers : ~AtWork(d)
     \/ /\ At(c, "cancelList") /\ handler'[c].at = "cancelTask"
        /\ handler'[c].open = {t \in DOMAIN task : task[t] \notin Finished}
        /\ UNCHANGED task
     \/ /\ At(c, "cancelTask") /\ handler'[c].at = "cancelTask"
        /\ \E t \in handler[c].open : /\ handler'[c].open = handler[c].open \ {t}
                                      /\ task' = [task EXCEPT ![t] = "CANCELLED"]
     \/ /\ At(c, "cancelTask") /\ handler'[c].at = "cancelEnd"
        /\ handler[c].open = {} /\ UNCHANGED task
     \/ /\ At(c, "cancelEnd") /\ handler'[c].at = "release"
        /\ handler[c].phase # "zombies" => wf' = "CANCELLED"
        /\ UNCHANGED task
     \/ /\ At(c, "release") /\ handler'[c].at = "refund"
        /\ wf \in {"FAILED", "CANCELLED"} /\ UNCHANGED <<wf, task>>
     \/ At(c, "refund") /\ handler'[c].at = "delete" /\ UNCHANGED <<wf, task>>

Route(c) ==
  \/ handler'[c].at \in {"idle", "select"}
  \/ /\ c \notin Sweepers
     /\ handler'[c].at \in {"approve", "opened", "confirm", "reject", "cancelAll",
                            "cancelList", "cancelTask", "cancelEnd"}
  \/ handler[c].at \in WriterPlaces /\ handler'[c].at \in WriterPlaces
  \/ handler[c].at = "open" /\ handler'[c].at = "opening"
  \/ Approves(c) \/ Confirms(c) \/ Heals(c) \/ Compensates(c)

Goes(c) == Alone(c) /\ Route(c)

LEMMA RestRoute ==
  ASSUME FlowInv, NEW c \in Handlers,
         Stop(c) \/ (Done(c) /\ handler[c].at # "idle")
  PROVE  Goes(c)
<1>1. HandlersTyped /\ HandlerOk(c)
  BY TypedHandlers DEF FlowInv
<1>2. CASE Stop(c)
  BY <1>1, <1>2, StopIs, RestingIs DEF Goes, Route
<1>3. CASE Done(c) /\ handler[c].at # "idle"
  BY <1>1, <1>3, DoneIs, RestingIs DEF Goes, Route, HandlerOk
<1>4. QED
  BY <1>2, <1>3

LEMMA ExecutesRoute ==
  ASSUME FlowInv, NEW c \in Handlers, Executes(c)
  PROVE  UNCHANGED handler \/ Goes(c)
<1>0. HandlersTyped /\ HandlerOk(c) /\ WriterPlaces \subseteq Places
  BY TypedHandlers DEF FlowInv, WriterPlaces, Places
<1>1. ASSUME NEW place \in WriterPlaces, Go(c, place), handler[c].at \in WriterPlaces
      PROVE  Goes(c)
  BY <1>0, <1>1, GoIs DEF Goes, Route
<1>2. CASE Prepare(c) \/ CallMock(c) \/ Record(c)
  BY <1>1, <1>2 DEF Prepare, CallMock, Record, At, WriterPlaces
<1>3. CASE CallGateway(c)
  <2>1. GatewayPaid \in BOOLEAN /\ "record" \in Places /\ handler[c].at = "call"
        /\ handler' = [handler EXCEPT ![c].at = "record", ![c].paid = GatewayPaid]
    BY <1>3 DEF CallGateway, GatewayPaid, Places, At
  <2>2. Alone(c) /\ handler'[c].at = "record"
    BY <1>0, <2>1, AnswerIs, Zenon
  <2>3. QED
    BY <2>1, <2>2 DEF Goes, Route, WriterPlaces
<1>4. CASE MockStatement(c)
  <2>1. CASE UNCHANGED handler
    BY <2>1
  <2>2. CASE handler' = [handler EXCEPT ![c] = [Resting EXCEPT !.at = "paying"]]
    <3>1. Alone(c) /\ handler'[c].at = "paying"
      BY <1>0, <2>2, ParkIs DEF Places
    <3>2. QED
      BY <1>4, <3>1 DEF Goes, Route, WriterPlaces, MockStatement, At
  <2>3. QED
    BY <1>4, <2>1, <2>2 DEF MockStatement, PayStatement
<1>5. CASE MockAnswer(c)
  <2>1. CASE Go(c, "record")
    BY <1>1, <1>5, <2>1 DEF MockAnswer, At, WriterPlaces
  <2>2. ASSUME NEW ok \in {FALSE, Sessions # {}},
               handler' = [handler EXCEPT ![c].at = "record", ![c].paid = ok]
        PROVE  Goes(c)
    <3>1. ok \in BOOLEAN /\ "record" \in Places
      BY DEF Places
    <3>2. Alone(c) /\ handler'[c].at = "record"
      BY <1>0, <2>2, <3>1, AnswerIs
    <3>3. QED
      BY <1>5, <3>2 DEF Goes, Route, WriterPlaces, MockAnswer, At
  <2>3. QED
    BY <1>5, <2>1, <2>2 DEF MockAnswer
<1>6. CASE Save(c)
  BY <1>1, <1>6, RestRoute DEF Save, At, WriterPlaces
<1>7. CASE ListTasks(c)
  <2> DEFINE v == IF ~handler[c].paid THEN "FAILED"
                  ELSE IF \E t \in DOMAIN task : task[t] \notin Finished THEN "RUNNING" ELSE "SUCCESS"
  <2>1. handler' = [handler EXCEPT ![c].at = "verdict", ![c].verdict = v] /\ handler[c].at = "list"
    BY <1>7 DEF ListTasks, At
  <2>2. v \in {"RUNNING"} \cup Finished
    BY DEF Finished
  <2> HIDE DEF v
  <2>3. Alone(c) /\ handler'[c].at = "verdict"
    BY <1>0, <2>1, <2>2, VerdictIs DEF Places
  <2>4. QED
    BY <2>1, <2>3 DEF Goes, Route, WriterPlaces
<1>8. CASE WriteVerdict(c)
  BY <1>8, RestRoute DEF WriteVerdict, At
<1>9. QED
  BY <1>2, <1>3, <1>4, <1>5, <1>6, <1>7, <1>8 DEF Executes

LEMMA CancelsRoute ==
  ASSUME FlowInv, NEW c \in Handlers, Cancels(c)
  PROVE  Goes(c)
<1>0. HandlersTyped /\ HandlerOk(c)
  BY TypedHandlers DEF FlowInv
<1>1. ASSUME c \notin Sweepers, Alone(c),
             handler'[c].at \in {"cancelTask", "cancelEnd"}
      PROVE  Goes(c)
  BY <1>1 DEF Goes, Route
<1>2. CASE CancelList(c)
  <2> DEFINE S == {t \in DOMAIN task : task[t] \notin Finished}
  <2>1. S \in SUBSET {"pay", "rest"}
    BY DEF FlowInv, FlowTypeOK
  <2>2. handler' = [handler EXCEPT ![c].at = "cancelTask", ![c].open = S] /\ At(c, "cancelList")
        /\ UNCHANGED task
    BY <1>2 DEF CancelList, workflowRows
  <2> HIDE DEF S
  <2>3. /\ Alone(c) /\ handler'[c].at = "cancelTask" /\ handler'[c].phase = handler[c].phase
        /\ handler'[c].open = S
    <3> DEFINE h == [handler[c] EXCEPT !.at = "cancelTask", !.open = S]
    <3>1. handler[c] \in HandlerRec
      BY <1>0 DEF HandlersTyped
    <3>2. /\ h \in HandlerRec /\ h.at = "cancelTask" /\ h.phase = handler[c].phase /\ h.open = S
      BY <2>1, <3>1 DEF HandlerRec, Places
    <3>3. handler' = [handler EXCEPT ![c] = h]
      BY <2>2
    <3> HIDE DEF h
    <3>4. QED
      BY <1>0, <3>2, <3>3 DEF Alone, HandlersTyped
  <2>4. QED
    BY <1>1, <2>2, <2>3 DEF Goes, Route, Compensates, S
<1>4. CASE CancelTask(c)
  <2>1. CASE Go(c, "cancelEnd") /\ handler[c].open = {} /\ UNCHANGED task
    <3>1. Alone(c) /\ handler'[c].at = "cancelEnd" /\ handler'[c].phase = handler[c].phase
      BY <1>0, <2>1, GoIs DEF Places
    <3>2. QED
      BY <1>1, <1>4, <2>1, <3>1 DEF Goes, Route, Compensates, CancelTask
  <2>2. ASSUME NEW t \in handler[c].open, task' = [task EXCEPT ![t] = "CANCELLED"],
               handler' = [handler EXCEPT ![c].open = @ \ {t}]
        PROVE  Goes(c)
    <3>1. /\ Alone(c) /\ handler'[c].at = handler[c].at /\ handler'[c].phase = handler[c].phase
          /\ handler'[c].open = handler[c].open \ {t}
      BY <1>0, <2>2 DEF Alone, HandlersTyped, HandlerRec
    <3>2. QED
      BY <1>1, <1>4, <2>2, <3>1 DEF Goes, Route, Compensates, CancelTask, At
  <2>3. QED
    BY <1>4, <2>1, <2>2 DEF CancelTask
<1>5. CASE CancelEnd(c)
  <2>1. CASE c \in Sweepers /\ Go(c, "release")
    <3>1. /\ Alone(c) /\ handler'[c].at = "release" /\ handler'[c].phase = handler[c].phase
      BY <1>0, <2>1, GoIs DEF Places
    <3>2. QED
      BY <1>5, <2>1, <3>1 DEF Goes, Route, Compensates, CancelEnd
  <2>2. QED
    BY <1>5, <2>1, RestRoute DEF CancelEnd
<1>6. QED
  BY <1>2, <1>4, <1>5 DEF Cancels


LEMMA UserRoute ==
  ASSUME FlowAssumptions, FlowInv, NEW c \in Users,
         UserStep(c) \/ Approve(c) \/ Reject(c) \/ AskCancel(c)
  PROVE  UNCHANGED handler \/ Goes(c)
<1>0. HandlersTyped /\ c \in Handlers /\ c \notin Sweepers
  BY TypedHandlers DEF FlowInv, Handlers, FlowAssumptions
<1>1. CASE Executes(c) \/ Cancels(c)
  BY <1>0, <1>1, ExecutesRoute, CancelsRoute
<1>2. ASSUME NEW place \in {"opened", "reject", "cancelAll", "cancelList"}, Go(c, place)
      PROVE  Goes(c)
  <2>1. Alone(c) /\ handler'[c].at = place
    BY <1>0, <1>2, GoIs DEF Places
  <2>2. QED
    BY <1>0, <2>1 DEF Goes, Route
<1>3. CASE RecordApproved(c)
  <2>1. CASE Stop(c)
    BY <1>0, <2>1, RestRoute
  <2>2. CASE /\ Undecided /\ approval' = "APPROVED"
             /\ Go(c, IF provider = "vnpay" THEN "open" ELSE "prepare")
    <3> DEFINE place == IF provider = "vnpay" THEN "open" ELSE "prepare"
    <3>1. place \in Places /\ Go(c, place)
      BY <2>2 DEF Places
    <3>2. Alone(c) /\ handler'[c].at = place
      <4> HIDE DEF place
      <4>1. QED
        BY <1>0, <3>1, GoIs
    <3>3. Approves(c)
      BY <1>3, <2>2, <3>2 DEF Approves, Undecided, RecordApproved
    <3>4. QED
      BY <3>2, <3>3 DEF Goes, Route
  <2>3. QED
    BY <1>3, <2>1, <2>2 DEF RecordApproved
<1>4. CASE OpenSession(c)
  <2>1. CASE Go(c, "opened")
    BY <1>2, <2>1
  <2>2. CASE Go(c, "opening")
    <3>1. Alone(c) /\ handler'[c].at = "opening"
      BY <1>0, <2>2, GoIs DEF Places
    <3>2. QED
      BY <1>4, <3>1 DEF Goes, Route, OpenSession, At
  <2>3. QED
    BY <1>4, <2>1, <2>2 DEF OpenSession
<1>5. CASE SessionStatement(c)
  <2>1. CASE handler' = [handler EXCEPT ![c] = [Resting EXCEPT !.at = "opened"]]
    <3>1. Alone(c) /\ handler'[c].at = "opened"
      BY <1>0, <2>1, ParkIs DEF Places
    <3>2. QED
      BY <1>0, <3>1 DEF Goes, Route
  <2>2. QED
    BY <1>5, <2>1 DEF SessionStatement, PayStatement
<1>6. CASE Redirect(c) \/ CancelWorkflow(c)
  BY <1>0, <1>6, RestRoute DEF Redirect, CancelWorkflow
<1>7. CASE Approve(c)
  <2> DEFINE amount == Price[bookings[Place].zone]
  <2>1. bookings[Place].zone \in Zones /\ amount \in Amounts
    BY <1>7, HandlersAreClients, LedgerAssumptions DEF Approve, Quotable, FlowInv, MoneyInv,
       TypeOK, Booking, NoBooking, LedgerAssumptions, Amounts
  <2>2. handler' = [handler EXCEPT ![c].at = "approve", ![c].amount = amount]
    BY <1>7 DEF Approve
  <2> HIDE DEF amount
  <2>3. Alone(c) /\ handler'[c].at = "approve"
    BY <1>0, <2>1, <2>2, QuoteIs DEF Places
  <2>4. QED
    BY <1>0, <2>3 DEF Goes, Route
<1>8. CASE AskCancel(c)
  BY <1>2, <1>8 DEF AskCancel
<1>9. CASE Reject(c)
  BY <1>0, <1>2, <1>9, RestRoute DEF Reject
<1>10. QED
  BY <1>1, <1>3, <1>4, <1>5, <1>6, <1>7, <1>8, <1>9 DEF UserStep

LEMMA ResumeRoute ==
  ASSUME FlowInv, NEW c \in Handlers, Resume(c)
  PROVE  Goes(c)
<1>0. HandlersTyped
  BY TypedHandlers DEF FlowInv
<1>1. CASE Done(c)
  BY <1>1, RestRoute DEF Resume, At
<1>2. CASE Go(c, "prepare")
  <2>1. Alone(c) /\ handler'[c].at = "prepare"
    BY <1>0, <1>2, GoIs DEF Places
  <2>2. QED
    BY <2>1 DEF Resume, At, Goes, Route, WriterPlaces
<1>3. QED
  BY <1>1, <1>2 DEF Resume

LEMMA CallbackRoute ==
  ASSUME FlowAssumptions, FlowInv, NEW c \in Callbacks,
         CallbackStep(c) \/ \E p \in PaymentIds : Callback(c, p)
  PROVE  UNCHANGED handler \/ Goes(c)
<1>0. HandlersTyped /\ c \in Handlers /\ c \notin Sweepers
  BY TypedHandlers DEF FlowInv, Handlers, FlowAssumptions
<1>1. CASE Executes(c) \/ Resume(c)
  BY <1>0, <1>1, ExecutesRoute, ResumeRoute
<1>2. CASE CallbackReturns(c)
  BY <1>2 DEF CallbackReturns, flow
<1>3. CASE Confirm(c)
  <2>1. CASE Stop(c)
    BY <1>0, <2>1, RestRoute
  <2>2. CASE payments' # payments /\ Go(c, "resume")
    <3>1. Alone(c) /\ handler'[c].at = "resume"
      BY <1>0, <2>2, GoIs DEF Places
    <3>2. Confirms(c)
      BY <1>3, <2>2, <3>1 DEF Confirms, Confirm, workflowRows
    <3>3. QED
      BY <3>1, <3>2 DEF Goes, Route
  <2>3. QED
    BY <1>3, <2>1, <2>2 DEF Confirm
<1>4. CASE \E p \in PaymentIds : Callback(c, p)
  <2>1. Alone(c) /\ handler'[c].at = "confirm"
    BY <1>0, <1>4, GoIs DEF Callback, Places
  <2>2. QED
    BY <1>0, <2>1 DEF Goes, Route
<1>5. QED
  BY <1>1, <1>2, <1>3, <1>4 DEF CallbackStep

LEMMA SweepRoute ==
  ASSUME FlowAssumptions, FlowInv, NEW c \in Sweepers, SweepStep(c) \/ StartSweep(c)
  PROVE  UNCHANGED handler \/ Goes(c)
<1>0. HandlersTyped /\ c \in Handlers
  BY TypedHandlers DEF FlowInv, Handlers
<1>1. CASE Executes(c) \/ Cancels(c) \/ Resume(c)
  BY <1>0, <1>1, ExecutesRoute, CancelsRoute, ResumeRoute
<1>2. CASE SelectApproval(c) \/ (\E p \in PaymentIds : SelectSession(c, p)) \/ SelectZombie(c)
  <2>1. /\ Go(c, "cancelList") /\ At(c, "select")
        /\ handler[c].phase = "zombies" => \A d \in Handlers : ~AtWork(d)
    BY <1>2 DEF SelectApproval, SelectSession, SelectZombie, Selecting
  <2>2. Alone(c) /\ handler'[c].at = "cancelList" /\ handler'[c].phase = handler[c].phase
    BY <1>0, <2>1, GoIs DEF Places
  <2>3. Compensates(c)
    BY <2>1, <2>2 DEF Compensates
  <2>4. QED
    BY <2>2, <2>3 DEF Goes, Route
<1>3. CASE SelectNothing(c) \/ Delete(c)
  BY <1>0, <1>3, RestRoute DEF SelectNothing, Delete, At
<1>4. CASE SelectPaid(c)
  <2>1. CASE Stop(c)
    BY <1>0, <2>1, RestRoute
  <2>2. CASE /\ PaidUnfinished /\ Go(c, "resume")
             /\ crossed' = (crossed \/ \E s \in Sweepers : ClosesZombie(s))
    <3>1. Alone(c) /\ handler'[c].at = "resume"
      BY <1>0, <2>2, GoIs DEF Places
    <3>2. (\E s \in Sweepers : ClosesZombie(s)) => crossed'
      BY <2>2
    <3>3. At(c, "select") /\ UNCHANGED <<vars, wf, task, approval>>
      BY <1>4 DEF SelectPaid, Selecting, workflowRows
    <3>4. Heals(c)
      BY <2>2, <3>1, <3>2, <3>3 DEF Heals, PaidUnfinished
    <3>5. QED
      BY <3>1, <3>4 DEF Goes, Route
  <2>3. QED
    BY <1>4, <2>1, <2>2 DEF SelectPaid
<1>5. CASE Release(c)
  <2>1. CASE Done(c)
    BY <1>0, <1>5, <2>1, RestRoute DEF Release, At
  <2>2. CASE Releasable /\ Go(c, "refund")
    <3>1. Alone(c) /\ handler'[c].at = "refund" /\ handler'[c].phase = handler[c].phase
      BY <1>0, <2>2, GoIs DEF Places
    <3>2. Compensates(c)
      BY <1>5, <2>2, <3>1 DEF Compensates, Release, Releasable, workflowRows
    <3>3. QED
      BY <3>1, <3>2 DEF Goes, Route
  <2>3. QED
    BY <1>5, <2>1, <2>2 DEF Release
<1>6. CASE Refund(c)
  <2>1. Alone(c) /\ handler'[c].at = "delete" /\ handler'[c].phase = handler[c].phase
    BY <1>0, <1>6, GoIs DEF Refund, Places
  <2>2. Compensates(c)
    BY <1>6, <2>1 DEF Compensates, Refund, workflowRows
  <2>3. QED
    BY <2>1, <2>2 DEF Goes, Route
<1>7. CASE StartSweep(c)
  <2>1. Alone(c) /\ handler'[c].at = "select"
    BY <1>0, <1>7, PhaseIs DEF StartSweep, Places, PhaseNames
  <2>2. QED
    BY <2>1 DEF Goes, Route
<1>8. QED
  BY <1>1, <1>2, <1>3, <1>4, <1>5, <1>6, <1>7 DEF SweepStep

\* At most one handler moves, by one of the routes, or all are gone.
LEMMA FlowRoute ==
  ASSUME FlowAssumptions, FlowInv, [FlowNext]_flowVars
  PROVE  \/ UNCHANGED handler
         \/ \E c \in Handlers : Goes(c)
         \/ \A c \in Handlers : handler'[c] = Resting
<1>1. CASE Crash
  BY <1>1 DEF Crash
<1>2. CASE SavePendingApproval \/ DeskChanges \/ (\E p \in PaymentIds : GatewayCharges(p))
           \/ (\E c \in Users : ProviderGoesOn(c)) \/ UNCHANGED flowVars
  BY <1>2 DEF SavePendingApproval, DeskChanges, GatewayCharges, ProviderGoesOn, flow, flowVars
<1>3. ASSUME NEW c \in Users, UserStep(c) \/ Approve(c) \/ Reject(c) \/ AskCancel(c)
      PROVE  UNCHANGED handler \/ \E d \in Handlers : Goes(d)
  BY <1>3, UserRoute DEF Handlers
<1>4. ASSUME NEW c \in Callbacks, CallbackStep(c) \/ \E p \in PaymentIds : Callback(c, p)
      PROVE  UNCHANGED handler \/ \E d \in Handlers : Goes(d)
  BY <1>4, CallbackRoute DEF Handlers
<1>5. ASSUME NEW c \in Sweepers, SweepStep(c) \/ StartSweep(c)
      PROVE  UNCHANGED handler \/ \E d \in Handlers : Goes(d)
  BY <1>5, SweepRoute DEF Handlers
<1>6. QED
  BY <1>1, <1>2, <1>3, <1>4, <1>5 DEF FlowNext

-------------------------------------------------------------------------------
(* Who moves the ledger *)

\* The client d goes on with its transaction, or begins one.  Who is creating the session
\* moves its own.
Mover(d) ==
  /\ \/ Statement(d)
     \/ \E p \in PaymentIds : ConfirmRead(d, p)
     \/ \E z \in Zones : ChangeLock(d, Place, z)
     \/ d \in Users /\ handler'[d].at = "opening" /\ \E a : PayLookup(d, "open", Workflow, Place, a)
     \/ provider = "mock" /\ \E a : PayLookup(d, "pay", Workflow, Place, a)
  /\ d \in Handlers /\ At(d, "opening") => SessionStatement(d)

Movement ==
  \/ UNCHANGED vars
  \/ \E d \in Clients : Mover(d)
  \/ CancelParking(Place) \/ RefundPayment(Place)
  \/ \E p \in PaymentIds : ExpireSession(p)
  \/ \E s \in Sweepers : Delete(s)
  \/ Crash

LEMMA ExecutesMoves ==
  ASSUME FlowAssumptions, NEW c \in Handlers, Executes(c)
  PROVE  Movement
<1>1. c \in Clients
  BY DEF FlowAssumptions
<1>2. CASE MockStatement(c)
  BY <1>1, <1>2 DEF MockStatement, PayStatement, Movement, Mover, At
<1>3. CASE CallMock(c)
  BY <1>1, <1>3 DEF CallMock, Movement, Mover, At
<1>4. CASE Prepare(c) \/ CallGateway(c) \/ MockAnswer(c) \/ Record(c) \/ Save(c)
           \/ ListTasks(c) \/ WriteVerdict(c)
  BY <1>4 DEF Prepare, CallGateway, MockAnswer, Record, Save, ListTasks, WriteVerdict, Movement
<1>5. QED
  BY <1>2, <1>3, <1>4 DEF Executes

LEMMA UserMoves ==
  ASSUME FlowAssumptions, FlowInv, NEW c \in Users,
         UserStep(c) \/ Approve(c) \/ Reject(c) \/ AskCancel(c)
  PROVE  Movement
<1>1. c \in Handlers /\ c \in Clients /\ HandlersTyped
  BY HandlersAreClients, TypedHandlers DEF Handlers, FlowInv
<1>2. CASE Executes(c) \/ Cancels(c)
  BY <1>1, <1>2, ExecutesMoves, CancelsIs DEF Movement
<1>3. CASE SessionStatement(c)
  BY <1>1, <1>3 DEF SessionStatement, PayStatement, Movement, Mover
<1>4. CASE OpenSession(c)
  <2>1. CASE UNCHANGED vars
    BY <2>1 DEF Movement
  <2>2. CASE PayLookup(c, "open", Workflow, Place, handler[c].amount) /\ Go(c, "opening")
    <3>1. handler'[c].at = "opening"
      BY <1>1, <2>2, GoIs DEF Places
    <3>2. handler[c].at # "opening"
      BY <1>4 DEF OpenSession, At
    <3>3. Mover(c)
      BY <1>1, <2>2, <3>1, <3>2 DEF Mover, At
    <3>4. QED
      BY <1>1, <3>3 DEF Movement
  <2>3. QED
    BY <1>4, <2>1, <2>2 DEF OpenSession
<1>5. CASE RecordApproved(c) \/ Reject(c) \/ Redirect(c) \/ CancelWorkflow(c) \/ Approve(c) \/ AskCancel(c)
  BY <1>5 DEF RecordApproved, Reject, Redirect, CancelWorkflow, Approve, AskCancel, Movement
<1>6. QED
  BY <1>2, <1>3, <1>4, <1>5 DEF UserStep

LEMMA OtherMoves ==
  ASSUME FlowAssumptions, FlowInv,
         \/ \E c \in Callbacks : CallbackStep(c) \/ \E p \in PaymentIds : Callback(c, p)
         \/ \E c \in Sweepers : SweepStep(c) \/ StartSweep(c)
  PROVE  Movement
<1>1. ASSUME NEW c \in Callbacks, CallbackStep(c) \/ \E p \in PaymentIds : Callback(c, p)
      PROVE  Movement
  <2>1. c \in Handlers /\ c \in Clients
    BY HandlersAreClients DEF Handlers
  <2>2. CASE Executes(c)
    BY <2>1, <2>2, ExecutesMoves
  <2>3. CASE Confirm(c) \/ CallbackReturns(c)
    BY <2>1, <2>3 DEF Confirm, CallbackReturns, Statement, Movement, Mover, At
  <2>4. CASE Resume(c)
    BY <2>4 DEF Resume, Movement
  <2>5. CASE \E p \in PaymentIds : Callback(c, p)
    BY <2>1, <2>5 DEF Callback, Movement, Mover, At
  <2>6. QED
    BY <1>1, <2>2, <2>3, <2>4, <2>5 DEF CallbackStep
<1>2. ASSUME NEW c \in Sweepers, SweepStep(c) \/ StartSweep(c)
      PROVE  Movement
  <2>1. c \in Handlers
    BY DEF Handlers
  <2>2. CASE Executes(c) \/ Cancels(c)
    BY <2>1, <2>2, ExecutesMoves, CancelsIs DEF Movement
  <2>3. CASE (\E p \in PaymentIds : SelectSession(c, p)) \/ Refund(c) \/ Delete(c)
    BY <2>3 DEF SelectSession, Refund, Movement
  <2>4. CASE SelectApproval(c) \/ SelectZombie(c) \/ SelectNothing(c) \/ SelectPaid(c)
             \/ Release(c) \/ Resume(c) \/ StartSweep(c)
    BY <2>4 DEF SelectApproval, SelectZombie, SelectNothing, SelectPaid,
                Release, Resume, StartSweep, Movement
  <2>5. QED
    BY <1>2, <2>2, <2>3, <2>4 DEF SweepStep
<1>3. QED
  BY <1>1, <1>2

LEMMA FlowMoves ==
  ASSUME FlowAssumptions, FlowInv, [FlowNext]_flowVars
  PROVE  Movement
<1>1. CASE SavePendingApproval \/ (\E p \in PaymentIds : GatewayCharges(p)) \/ UNCHANGED flowVars
  BY <1>1 DEF SavePendingApproval, GatewayCharges, flowVars, Movement
<1>2. CASE DeskChanges
  BY <1>2, HandlersAreClients DEF DeskChanges, FlowAssumptions, Movement, Mover
<1>3. CASE \E c \in Users : ProviderGoesOn(c)
  BY <1>3, HandlersAreClients DEF ProviderGoesOn, Movement, Mover
<1>4. QED
  BY <1>1, <1>2, <1>3, UserMoves, OtherMoves DEF FlowNext, Movement

\* Who is creating the session stays at it until the last statement.
LEMMA OpeningStep ==
  ASSUME FlowAssumptions, FlowInv, [FlowNext]_flowVars, NEW c \in Users, At(c, "opening")
  PROVE  handler'[c] = handler[c] \/ SessionStatement(c) \/ Crash
<1>1. CASE SavePendingApproval \/ DeskChanges \/ (\E p \in PaymentIds : GatewayCharges(p))
           \/ (\E d \in Users : ProviderGoesOn(d)) \/ UNCHANGED flowVars
  BY <1>1 DEF SavePendingApproval, DeskChanges, GatewayCharges, ProviderGoesOn, flow, flowVars
<1>2. ASSUME NEW d \in Users, UserStep(d) \/ Approve(d) \/ Reject(d) \/ AskCancel(d)
      PROVE  handler'[c] = handler[c] \/ SessionStatement(c)
  <2>1. CASE d # c
    <3>1. UNCHANGED handler \/ Alone(d)
      BY <1>2, UserRoute DEF Goes
    <3>2. QED
      BY <2>1, <3>1 DEF Alone, Handlers
  <2>2. CASE d = c
    <3>1. ~Executes(c) /\ ~Cancels(c)
      BY DEF Executes, Prepare, CallGateway, CallMock, MockStatement, MockAnswer, Record, Save,
             ListTasks, WriteVerdict, Cancels, CancelList, CancelTask, CancelEnd, At
    <3>2. QED
      BY <1>2, <2>2, <3>1 DEF UserStep, RecordApproved, OpenSession, Redirect, CancelWorkflow,
         Approve, Reject, AskCancel, At
  <2>3. QED
    BY <2>1, <2>2
<1>3. ASSUME NEW d \in Callbacks, CallbackStep(d) \/ \E p \in PaymentIds : Callback(d, p)
      PROVE  handler'[c] = handler[c]
  <2>1. UNCHANGED handler \/ Alone(d)
    BY <1>3, CallbackRoute DEF Goes
  <2>2. QED
    BY <2>1 DEF Alone, Handlers, FlowAssumptions
<1>4. ASSUME NEW d \in Sweepers, SweepStep(d) \/ StartSweep(d)
      PROVE  handler'[c] = handler[c]
  <2>1. UNCHANGED handler \/ Alone(d)
    BY <1>4, SweepRoute DEF Goes
  <2>2. QED
    BY <2>1 DEF Alone, Handlers, FlowAssumptions
<1>5. QED
  BY <1>1, <1>2, <1>3, <1>4 DEF FlowNext

\* A mover moves its own transaction; a payment goes on as it was begun.
LEMMA MoverOwn ==
  ASSUME FlowInv, NEW d \in Clients, Mover(d), NEW c \in Clients, c # d
  PROVE  txn'[c] = txn[c]
<1>1. \A t : Goto(d, t) => txn'[c] = txn[c]
  BY DEF Goto, FlowInv, MoneyInv, Shape
<1>2. CASE Statement(d)
  <2>1. \E t : Goto(d, t)
    BY <1>2 DEF Statement, BookCount, BookInsert, ChangeGuard, ChangeLockZone, ChangeCount, ChangeWrite,
              PayLock, PayCheck, PayInsert, ConfirmWrite, Return, Refuse, Advance, Answer
  <2>2. QED
    BY <1>1, <2>1
<1>3. CASE ~Statement(d)
  BY <1>1, <1>3 DEF Mover, ConfirmRead, ChangeLock, PayLookup
<1>4. QED
  BY <1>2, <1>3

LEMMA PayGoesOn ==
  ASSUME FlowInv, NEW c \in Clients, Statement(c), txn'[c].step \in PaySteps
  PROVE  /\ txn[c].step \in PaySteps /\ txn'[c].booking = txn[c].booking
         /\ txn'[c].kind = txn[c].kind
<1>1. \A t : Goto(c, t) => txn'[c] = t
  BY DEF Goto, FlowInv, MoneyInv, Shape
<1>2. /\ txn[c].step = "bookCount" => txn[c] \in BookTxn
      /\ txn[c].step \in {"changeGuard", "changeLock", "changeCount"} => txn[c] \in ChangeTxn
      /\ txn[c].step \in PaySteps => txn[c] \in PayTxn
  BY TxnAt DEF FlowInv, MoneyInv, Shape, PaySteps
<1>3. Idle.step \notin PaySteps
  BY DEF Idle, PaySteps
<1>4. ASSUME Refuse(c) PROVE FALSE
  BY <1>1, <1>3, <1>4 DEF Refuse
<1>5. ASSUME NEW t, Goto(c, t), t.step \notin PaySteps PROVE FALSE
  BY <1>1, <1>5
<1>6. ASSUME NEW s, s \notin PaySteps, Advance(c, s), txn[c] \in BookTxn \cup ChangeTxn PROVE FALSE
  <2>1. AtStep(c, s).step = s
    BY <1>6 DEF AtStep, BookTxn, ChangeTxn
  <2>2. QED
    BY <1>5, <1>6, <2>1 DEF Advance
<1>7. CASE BookCount(c) \/ ChangeGuard(c) \/ ChangeLockZone(c) \/ ChangeCount(c)
  BY <1>2, <1>4, <1>6, <1>7 DEF BookCount, ChangeGuard, ChangeLockZone, ChangeCount, PaySteps
<1>8. CASE BookInsert(c) \/ ChangeWrite(c) \/ PayInsert(c) \/ Return(c)
  <2>1. Refuse(c) \/ Goto(c, Idle)
    BY <1>8 DEF BookInsert, ChangeWrite, PayInsert, Return
  <2>2. QED
    BY <1>3, <1>4, <1>5, <2>1
<1>9. CASE ConfirmWrite(c)
  <2>1. Refuse(c) \/ \E t : Goto(c, t) /\ t.step \notin PaySteps
    BY <1>3, <1>9 DEF ConfirmWrite, PaySteps
  <2>2. QED
    BY <1>4, <1>5, <2>1
<1>10. CASE PayLock(c) \/ PayCheck(c)
  <2>1. txn[c].step \in PaySteps /\ txn[c] \in PayTxn
    BY <1>2, <1>10 DEF PayLock, PayCheck, PaySteps
  <2>2. CASE \E s : Advance(c, s)
    <3>1. PICK s : txn'[c] = [txn[c] EXCEPT !.step = s]
      BY <1>1, <2>2 DEF Advance, AtStep
    <3>2. QED
      BY <2>1, <3>1 DEF PayTxn
  <2>3. CASE \E code : Answer(c, code)
    BY <1>5, <2>3 DEF Answer, PaySteps
  <2>4. QED
    BY <1>4, <1>10, <2>2, <2>3 DEF PayLock, PayCheck
<1>11. QED
  BY <1>7, <1>8, <1>9, <1>10 DEF Statement

\* The payment transaction of c is the one it was, or c begins it.
LEMMA PayTxnStep ==
  ASSUME FlowAssumptions, FlowInv, Dealings, [FlowNext]_flowVars,
         NEW c \in Clients, txn'[c].step \in PaySteps
  PROVE  /\ txn'[c].booking = Place
         /\ txn'[c].kind = "open" => c \in Users /\ handler'[c].at = "opening"
         /\ txn'[c].kind = "pay" => provider = "mock"
<1> DEFINE Goal == /\ txn'[c].booking = Place
                   /\ txn'[c].kind = "open" => c \in Users /\ handler'[c].at = "opening"
                   /\ txn'[c].kind = "pay" => provider = "mock"
<1>1. Idle.step \notin PaySteps
  BY DEF Idle, PaySteps
<1>2. ASSUME SessionStatement(c), c \in Users PROVE handler'[c].at = "opening"
  <2>1. txn'[c] # Idle
    BY <1>1
  <2>2. QED
    BY <1>2, <2>1 DEF SessionStatement, PayStatement, At
<1>3. CASE Crash
  <2>1. txn'[c] = IF AtProvider(c) THEN txn[c] ELSE Idle
    BY <1>3 DEF Crash
  <2>2. AtProvider(c) /\ txn'[c] = txn[c]
    BY <1>1, <2>1
  <2>3. txn[c].kind = "pay"
    BY <2>2 DEF AtProvider, PaySteps
  <2>4. QED
    BY <2>2, <2>3 DEF Dealings
<1>4. ASSUME txn'[c] = txn[c], ~Crash PROVE Goal
  <2>1. CASE txn[c].kind = "open"
    <3>1. c \in Users /\ At(c, "opening")
      BY <1>4, <2>1 DEF Dealings
    <3>2. handler'[c].at = "opening"
      BY <1>2, <1>4, <3>1, OpeningStep DEF At
    <3>3. QED
      BY <1>4, <2>1, <3>1, <3>2 DEF Dealings
  <2>2. QED
    BY <1>4, <2>1 DEF Dealings
<1>5. ASSUME txn'[c] # txn[c], Mover(c) PROVE Goal
  <2>1. \A t : Goto(c, t) => txn'[c] = t
    BY DEF Goto, FlowInv, MoneyInv, Shape
  <2>2. CASE Statement(c)
    <3>1. /\ txn[c].step \in PaySteps /\ txn'[c].booking = txn[c].booking
          /\ txn'[c].kind = txn[c].kind
      BY <2>2, PayGoesOn
    <3>2. txn[c].kind = "open" => c \in Users /\ At(c, "opening")
      BY <3>1 DEF Dealings
    <3>3. txn[c].kind = "open" => handler'[c].at = "opening"
      BY <1>2, <1>5, <3>2 DEF Mover, Handlers
    <3>4. QED
      BY <3>1, <3>2, <3>3 DEF Dealings
  <2>3. CASE (\E p \in PaymentIds : ConfirmRead(c, p)) \/ \E z \in Zones : ChangeLock(c, Place, z)
    <3>1. ASSUME NEW t, Goto(c, t) PROVE t.step \in PaySteps
      BY <2>1, <3>1
    <3>2. CASE \E p \in PaymentIds : ConfirmRead(c, p)
      BY <3>1, <3>2 DEF ConfirmRead, PaySteps
    <3>3. CASE \E z \in Zones : ChangeLock(c, Place, z)
      BY <3>1, <3>3 DEF ChangeLock, PaySteps
    <3>4. QED
      BY <2>3, <3>2, <3>3
  <2>4. CASE c \in Users /\ handler'[c].at = "opening" /\ \E a : PayLookup(c, "open", Workflow, Place, a)
    BY <2>1, <2>4 DEF PayLookup
  <2>5. CASE provider = "mock" /\ \E a : PayLookup(c, "pay", Workflow, Place, a)
    BY <2>1, <2>5 DEF PayLookup
  <2>6. QED
    BY <1>5, <2>2, <2>3, <2>4, <2>5 DEF Mover
<1>6. ASSUME txn'[c] # txn[c], ~Mover(c) PROVE Crash
  <2>1. \A d \in Clients : ~Mover(d)
    BY <1>6, MoverOwn
  <2>2. ASSUME NEW s \in Sweepers, Delete(s) PROVE UNCHANGED txn
    BY <2>2 DEF Delete, DeleteBooking, vars
  <2>3. QED
    BY <1>6, <2>1, <2>2, FlowMoves DEF Movement, vars, CancelParking, RefundPayment, ExpireSession
<1>7. QED
  BY <1>3, <1>4, <1>5, <1>6

\* A new session is its opener's: the opener is then at the end, no other row has changed.
LEMMA NewSession ==
  ASSUME LedgerAssumptions, FlowAssumptions, FlowInv, Dealings, [FlowNext]_flowVars,
         NEW p \in PaymentIds, Pending(p)'
  PROVE  \/ Pending(p) /\ payments'[p] = payments[p]
         \/ /\ payments'[p].booking = Place
            /\ \E c \in Users : At(c, "opening") /\ handler'[c].at = "opened"
<1>1. CASE Forgets
  BY <1>1 DEF Forgets, Pending
<1>2. CASE [Next]_vars
  <2>1. CASE Pending(p) /\ payments'[p] = payments[p]
    BY <2>1
  <2>2. ASSUME NEW c \in Clients, txn[c].step = "payInsert", txn[c].kind = "open", txn'[c] = Idle,
               payments'[p].booking = txn[c].booking
        PROVE  /\ payments'[p].booking = Place
               /\ Crash \/ (c \in Users /\ At(c, "opening") /\ handler'[c].at = "opened")
    <3>1. c \in Users /\ At(c, "opening") /\ txn[c].booking = Place
      BY <2>2 DEF Dealings, PaySteps
    <3>2. txn'[c] # txn[c]
      BY <2>2 DEF Idle
    <3>3. ASSUME SessionStatement(c) PROVE handler'[c].at = "opened"
      <4>1. handler' = [handler EXCEPT ![c] = [Resting EXCEPT !.at = "opened"]]
        BY <2>2, <3>3 DEF SessionStatement, PayStatement
      <4>2. QED
        BY <3>1, <4>1, ParkIs, TypedHandlers DEF Places, Handlers, FlowInv
    <3>4. Mover(c) => SessionStatement(c)
      BY <3>1 DEF Mover, Handlers
    <3>5. \A d \in Clients : Mover(d) => d = c
      BY <3>2, MoverOwn
    <3>6. ASSUME NEW s \in Sweepers, Delete(s) PROVE UNCHANGED txn
      BY <3>6 DEF Delete, DeleteBooking, vars
    <3>7. Mover(c) \/ Crash
      BY <3>2, <3>5, <3>6, FlowMoves DEF Movement, vars, CancelParking, RefundPayment, ExpireSession
    <3>8. QED
      BY <2>2, <3>1, <3>3, <3>4, <3>7
  <2>3. Crash => Pending(p) /\ payments'[p] = payments[p]
    BY DEF Crash, Pending
  <2>4. QED
    BY <1>2, <2>1, <2>2, <2>3, SessionStep DEF FlowInv, MoneyInv
<1>3. QED
  BY <1>1, <1>2, LedgerSteps

LEMMA DealingsStep ==
  ASSUME LedgerAssumptions, FlowAssumptions, FlowInv, Dealings, [FlowNext]_flowVars
  PROVE  Dealings'
<1>1. \A p \in PaymentIds : Pending(p)' => payments'[p].booking = Place
  BY NewSession DEF Dealings
<1>2. UNCHANGED provider
  BY FlowIs
<1>3. QED
  BY <1>1, <1>2, PayTxnStep DEF Dealings, At

\* A row becomes PAID by a confirmation, which is all that happens then, or by a payment
\* of the mock provider.
LEMMA PaidStep ==
  ASSUME Shape, [Next]_vars, NEW p \in PaymentIds,
         payments'[p].status = "PAID", payments[p].status # "PAID"
  PROVE  \/ Pending(p) /\ \A q \in PaymentIds : q # p => payments'[q] = payments[q]
         \/ \E c \in Clients : txn[c].step = "payInsert" /\ txn[c].kind = "pay"
<1> DEFINE Confirmed == Pending(p) /\ \A q \in PaymentIds : q # p => payments'[q] = payments[q]
<1>1. UNCHANGED payments => FALSE
  OBVIOUS
<1>2. ASSUME NEW q \in PaymentIds, NEW r, payments' = [payments EXCEPT ![q] = r]
      PROVE  p = q /\ r.status = "PAID" /\ \A x \in PaymentIds : x # q => payments'[x] = payments[x]
  BY <1>2, RowPut
<1>3. ASSUME NEW b, NEW price, SettleDifference(b, price) PROVE FALSE
  <2>1. Excess(b, price) # 0
    BY <1>1, <1>3 DEF SettleDifference
  <2> DEFINE r == [status |-> "REFUNDED", booking |-> b, amount |-> Excess(b, price), workflow |-> "none"]
  <2>2. PICK q \in PaymentIds : payments' = [payments EXCEPT ![q] = r]
    BY <1>3, <2>1 DEF SettleDifference
  <2>3. r.status = "PAID"
    <3> HIDE DEF r
    <3>1. QED
      BY <1>2, <2>2
  <2>4. QED
    BY <2>3
<1>4. ASSUME NEW c \in Clients, PayInsert(c)
      PROVE  txn[c].step = "payInsert" /\ txn[c].kind = "pay"
  <2> DEFINE r == [status |-> IF txn[c].kind = "pay" THEN "PAID" ELSE "PENDING",
                   booking |-> txn[c].booking, amount |-> txn[c].amount,
                   workflow |-> txn[c].workflow]
  <2>1. PICK q \in PaymentIds : payments' = [payments EXCEPT ![q] = r]
    BY <1>1, <1>4 DEF PayInsert, Refuse
  <2>2. r.status = "PAID"
    <3> HIDE DEF r
    <3>1. QED
      BY <1>2, <2>1
  <2>3. QED
    BY <1>4, <2>2 DEF PayInsert
<1>5. ASSUME NEW S \in SUBSET PaymentIds, NEW s, s # "PAID", \A q \in S : Row(payments[q]),
             payments' = [q \in PaymentIds |-> IF q \in S THEN [payments[q] EXCEPT !.status = s]
                                                         ELSE payments[q]]
      PROVE  FALSE
  <2>1. p \in S => [payments[p] EXCEPT !.status = s].status = s
    <3>1. ASSUME p \in S PROVE payments[p] = [status |-> payments[p].status, booking |-> payments[p].booking,
                                 amount |-> payments[p].amount, workflow |-> payments[p].workflow]
      BY <1>5, <3>1 DEF Row
    <3>2. QED
      BY <3>1
  <2>2. QED
    BY <1>5, <2>1
<1>6. \A q \in PaymentIds : payments[q].status # "NONE" => Row(payments[q])
  BY DEF Shape, NoPayment
<1>7. ASSUME NEW c \in Clients, ConfirmWrite(c) PROVE Confirmed
  <2> DEFINE q == txn[c].payment
  <2>1. q \in PaymentIds
    BY <1>7, TxnAt DEF ConfirmWrite, Shape, ConfirmTxn
  <2>2. payments[q].status = "PENDING" /\ payments' = [payments EXCEPT ![q].status = "PAID"]
    BY <1>1, <1>7 DEF ConfirmWrite, Refuse
  <2> HIDE DEF q
  <2>3. PICK r : r = [payments[q] EXCEPT !.status = "PAID"]
    OBVIOUS
  <2>4. payments' = [payments EXCEPT ![q] = r]
    BY <2>2, <2>3
  <2>5. QED
    BY <1>2, <2>1, <2>2, <2>4 DEF Pending
<1>8. ASSUME NEW c \in Clients, Statement(c)
      PROVE  Confirmed \/ (txn[c].step = "payInsert" /\ txn[c].kind = "pay")
  <2>1. CASE BookCount(c) \/ BookInsert(c) \/ ChangeGuard(c) \/ ChangeLockZone(c) \/ ChangeCount(c)
             \/ PayLock(c) \/ PayCheck(c) \/ Return(c)
    BY <1>1, <2>1 DEF BookCount, BookInsert, ChangeGuard, ChangeLockZone, ChangeCount, PayLock,
                      PayCheck, Return, Refuse, Advance, Answer
  <2>2. CASE ChangeWrite(c)
    BY <1>1, <1>3, <2>2 DEF ChangeWrite, Refuse
  <2>3. QED
    BY <1>4, <1>7, <1>8, <2>1, <2>2 DEF Statement
<1>9. ASSUME NEW b \in BookingIds, CancelParking(b) PROVE FALSE
  BY <1>1, <1>3, <1>9 DEF CancelParking
<1>10. ASSUME NEW b \in BookingIds, RefundPayment(b) PROVE FALSE
  <2> DEFINE S == Rows(b, {"PAID"})
  <2>1. S \in SUBSET PaymentIds /\ \A q \in S : Row(payments[q])
    BY <1>6 DEF Rows
  <2>2. payments' = [q \in PaymentIds |-> IF q \in S THEN [payments[q] EXCEPT !.status = "REFUNDED"]
                                                    ELSE payments[q]]
    BY <1>10 DEF RefundPayment
  <2> HIDE DEF S
  <2>3. QED
    BY <1>5, <2>1, <2>2
<1>11. ASSUME NEW b \in BookingIds, DeleteBooking(b) PROVE FALSE
  <2> DEFINE S == Rows(b, LiveStatuses \ {"PAID"})
  <2>1. S \in SUBSET PaymentIds /\ \A q \in S : Row(payments[q])
    BY <1>6 DEF Rows, LiveStatuses
  <2>2. payments' = [q \in PaymentIds |-> IF q \in S THEN [payments[q] EXCEPT !.status = "DELETED"]
                                                    ELSE payments[q]]
    BY <1>11 DEF DeleteBooking
  <2> HIDE DEF S
  <2>3. QED
    BY <1>5, <2>1, <2>2
<1>12. ASSUME NEW q \in PaymentIds, ExpireSession(q) PROVE FALSE
  <2>1. Row(payments[q])
    BY <1>6, <1>12 DEF ExpireSession
  <2>2. PICK r : r = [payments[q] EXCEPT !.status = "FAILED"]
    OBVIOUS
  <2>3. r.status = "FAILED"
    <3>1. payments[q] = [status |-> payments[q].status, booking |-> payments[q].booking,
                         amount |-> payments[q].amount, workflow |-> payments[q].workflow]
      BY <2>1 DEF Row
    <3>2. QED
      BY <2>2, <3>1
  <2>4. payments' = [payments EXCEPT ![q] = r]
    BY <1>12, <2>2 DEF ExpireSession
  <2>5. QED
    BY <1>2, <2>3, <2>4
<1>13. UNCHANGED payments \/ (\E c \in Clients : Statement(c))
       \/ (\E b \in BookingIds : CancelParking(b) \/ RefundPayment(b) \/ DeleteBooking(b))
       \/ \E q \in PaymentIds : ExpireSession(q)
  BY DEF Next, vars, BookLock, ChangeLock, PayLookup, ConfirmRead, BookApproved, WindowCloses
<1>14. QED
  BY <1>1, <1>8, <1>9, <1>10, <1>11, <1>12, <1>13

\* The place goes by a sweep's last step, which writes no row of the workflow.
LEMMA TakenStep ==
  ASSUME LedgerAssumptions, FlowAssumptions, FlowInv, [FlowNext]_flowVars,
         bookings[Place].status # "DELETED", bookings'[Place].status = "DELETED"
  PROVE  (\E s \in Sweepers : At(s, "delete")) /\ UNCHANGED <<wf, task>>
<1>1. UNCHANGED bookings => FALSE
  OBVIOUS
<1>2. [Next]_vars
  BY <1>1, LedgerSteps DEF Forgets
<1>3. Place \in BookingIds /\ bookings[Place] # NoBooking
  BY HandlersAreClients DEF FlowInv
<1>4. UNCHANGED txn
  BY <1>2, <1>3, GoneStep DEF FlowInv, MoneyInv
<1>5. ASSUME NEW d \in Clients, Mover(d) PROVE FALSE
  <2>1. \A t : Goto(d, t) => t = txn[d]
    BY <1>4 DEF Goto, FlowInv, MoneyInv, Shape
  <2>2. CASE BookInsert(d) \/ ChangeWrite(d)
    <3>1. Goto(d, Idle)
      BY <2>2 DEF BookInsert, ChangeWrite, Refuse
    <3>2. txn[d].step = "idle"
      BY <2>1, <3>1 DEF Idle
    <3>3. QED
      BY <2>2, <3>2 DEF BookInsert, ChangeWrite
  <2>3. CASE ~(BookInsert(d) \/ ChangeWrite(d))
    BY <1>1, <1>5, <2>3 DEF Mover, Statement, BookCount, ChangeGuard, ChangeLockZone, ChangeCount,
       PayLock, PayCheck, PayInsert, ConfirmWrite, Return, Refuse, Advance, Answer,
       ConfirmRead, ChangeLock, PayLookup
  <2>4. QED
    BY <2>2, <2>3
<1>6. ASSUME CancelParking(Place) PROVE FALSE
  <2>1. bookings[Place] \in Booking
    BY <1>3 DEF FlowInv, MoneyInv, Shape
  <2>2. [bookings[Place] EXCEPT !.status = "CANCELLED"].status = "CANCELLED"
    BY <2>1 DEF Booking
  <2>3. QED
    BY <1>3, <1>6, <2>2 DEF CancelParking, FlowInv, MoneyInv, Shape
<1>7. ~RefundPayment(Place) /\ (\A p \in PaymentIds : ~ExpireSession(p)) /\ ~Crash
  BY <1>1 DEF RefundPayment, ExpireSession, Crash
<1>8. \E s \in Sweepers : Delete(s)
  BY <1>1, <1>5, <1>6, <1>7, FlowMoves DEF Movement, vars
<1>9. QED
  BY <1>8 DEF Delete, workflowRows

\* How workflows.status moves: nothing leaves CANCELLED; a verdict is written by a handler
\* that is then through.
Verdicts(c) ==
  /\ At(c, "verdict") /\ Alone(c) /\ handler'[c].at \in {"idle", "select"}
  /\ wf # "CANCELLED" /\ UNCHANGED approval
WfMoves ==
  \/ UNCHANGED wf /\ (approval' = "AWAITING" => approval = "AWAITING")
  \/ wf' = "CANCELLED"
  \/ wf \in {"RUNNING", "WAITING_APPROVAL"} /\ wf' = "WAITING_APPROVAL"
  \/ wf = "RUNNING" /\ wf' = "FAILED" /\ UNCHANGED approval
  \/ \E c \in Handlers : Verdicts(c)

LEMMA WfStep ==
  ASSUME FlowAssumptions, FlowInv, [FlowNext]_flowVars
  PROVE  WfMoves
<1>1. CASE UNCHANGED wf /\ approval' # "AWAITING"
  BY <1>1 DEF WfMoves
<1>2. CASE UNCHANGED <<wf, approval>>
  BY <1>2 DEF WfMoves
<1>3. ASSUME NEW c \in Handlers, Executes(c) PROVE WfMoves
  <2>1. CASE WriteVerdict(c)
    <3>1. CASE wf = "CANCELLED"
      BY <2>1, <3>1 DEF WriteVerdict, StatusWritten, WfMoves
    <3>2. CASE wf # "CANCELLED"
      <4>1. /\ HandlersTyped /\ handler[c].at = "verdict"
            /\ c \in Sweepers => handler[c].phase # "none"
        BY <2>1, TypedHandlers DEF FlowInv, HandlerOk, WriteVerdict, At
      <4>2. Alone(c) /\ handler'[c].at \in {"idle", "select"}
        BY <2>1, <4>1, DoneIs, RestingIs DEF WriteVerdict
      <4>3. QED
        BY <2>1, <3>2, <4>2 DEF WriteVerdict, Verdicts, WfMoves
    <3>3. QED
      BY <3>1, <3>2
  <2>2. CASE ~WriteVerdict(c)
    BY <1>2, <1>3, <2>2 DEF Executes, Prepare, CallGateway, CallMock, MockStatement, MockAnswer,
       Record, Save, ListTasks, workflowRows
  <2>3. QED
    BY <2>1, <2>2
<1>4. ASSUME NEW c, Cancels(c) PROVE WfMoves
  BY <1>2, <1>4 DEF Cancels, CancelList, CancelTask, CancelEnd, workflowRows, WfMoves
<1>5. ASSUME NEW c \in Users, UserStep(c) \/ Approve(c) \/ Reject(c) \/ AskCancel(c)
      PROVE  WfMoves
  <2>1. CASE Executes(c) \/ Cancels(c)
    BY <1>3, <1>4, <2>1 DEF Handlers
  <2>2. CASE CancelWorkflow(c)
    BY <1>2, <2>2 DEF CancelWorkflow, WfMoves
  <2>3. CASE RecordApproved(c) \/ Reject(c)
    BY <1>1, <1>2, <2>3 DEF RecordApproved, Reject
  <2>4. QED
    BY <1>2, <1>5, <2>1, <2>2, <2>3 DEF UserStep, Approve, AskCancel,
       OpenSession, SessionStatement, Redirect, workflowRows
<1>6. ASSUME NEW c \in Callbacks, CallbackStep(c) \/ \E p \in PaymentIds : Callback(c, p)
      PROVE  WfMoves
  BY <1>2, <1>3, <1>6 DEF CallbackStep, Callback, Confirm, Resume, CallbackReturns, workflowRows,
     flow, Handlers
<1>7. ASSUME NEW c \in Sweepers, SweepStep(c) \/ StartSweep(c)
      PROVE  WfMoves
  BY <1>2, <1>3, <1>4, <1>7 DEF SweepStep, StartSweep, SelectApproval, SelectSession, SelectZombie,
     SelectNothing, SelectPaid, Release, Refund, Delete, Resume, workflowRows, Handlers
<1>8. CASE SavePendingApproval
  BY <1>8 DEF SavePendingApproval, WfMoves
<1>9. QED
  BY <1>2, <1>5, <1>6, <1>7, <1>8 DEF FlowNext, GatewayCharges, DeskChanges, Crash, ProviderGoesOn,
     flowVars, flow, workflowRows

\* pay_fee stays finished.
LEMMA PayEnds ==
  ASSUME FlowAssumptions, FlowInv, [FlowNext]_flowVars, task["pay"] \in Finished
  PROVE  task'["pay"] \in Finished
<1>1. task \in [{"pay", "rest"} -> {"PENDING", "WAITING_APPROVAL"} \cup Finished]
  BY DEF FlowInv, FlowTypeOK
<1>2. UNCHANGED task => task'["pay"] \in Finished
  OBVIOUS
<1>3. ASSUME NEW c, Save(c) PROVE task'["pay"] \in Finished
  BY <1>1, <1>2, <1>3 DEF Save, Finished
<1>4. ASSUME NEW c, CancelTask(c) PROVE task'["pay"] \in Finished
  BY <1>1, <1>2, <1>4 DEF CancelTask, Finished
<1>5. ASSUME NEW c, CancelWorkflow(c) PROVE task'["pay"] \in Finished
  BY <1>1, <1>2, <1>5 DEF CancelWorkflow, Finished
<1>6. ASSUME NEW c, Executes(c) PROVE UNCHANGED task \/ Save(c)
  BY <1>6 DEF Executes, Prepare, CallGateway, CallMock, MockStatement, MockAnswer, Record,
              ListTasks, WriteVerdict, workflowRows
<1>7. ASSUME NEW c, Cancels(c) PROVE UNCHANGED task \/ CancelTask(c)
  BY <1>7 DEF Cancels, CancelList, CancelEnd, workflowRows
<1>8. ASSUME NEW c \in Users, UserStep(c) \/ Approve(c) \/ Reject(c) \/ AskCancel(c)
      PROVE  UNCHANGED task \/ Save(c) \/ CancelTask(c) \/ CancelWorkflow(c)
  BY <1>6, <1>7, <1>8 DEF UserStep, Approve, Reject, AskCancel, RecordApproved, OpenSession,
     SessionStatement, Redirect, workflowRows
<1>9. ASSUME NEW c \in Callbacks, CallbackStep(c) \/ \E p \in PaymentIds : Callback(c, p)
      PROVE  UNCHANGED task \/ Save(c)
  BY <1>6, <1>9 DEF CallbackStep, Callback, Confirm, Resume, CallbackReturns, workflowRows, flow
<1>10. ASSUME NEW c \in Sweepers, SweepStep(c) \/ StartSweep(c)
       PROVE  UNCHANGED task \/ Save(c) \/ CancelTask(c)
  BY <1>6, <1>7, <1>10 DEF SweepStep, StartSweep, SelectApproval, SelectSession, SelectZombie,
     SelectNothing, SelectPaid, Release, Refund, Delete, Resume, workflowRows
<1>11. QED
  BY <1>2, <1>3, <1>4, <1>5, <1>8, <1>9, <1>10 DEF FlowNext, SavePendingApproval,
     GatewayCharges, DeskChanges, Crash, ProviderGoesOn, flowVars, flow, workflowRows

\* The only way to the session is the recorded decision.
LEMMA OpenersStep ==
  ASSUME FlowAssumptions, FlowInv, [FlowNext]_flowVars, NEW c \in Openers', c \notin Openers
  PROVE  Alone(c) /\ Approves(c)
<1>1. c \in Handlers /\ handler'[c].at \in {"open", "opening"}
      /\ handler[c].at \notin {"open", "opening"}
  BY DEF Openers
<1>2. UNCHANGED handler => FALSE
  BY <1>1
<1>3. (\A d \in Handlers : handler'[d] = Resting) => FALSE
  BY <1>1, RestingIs
<1>4. ASSUME NEW d \in Handlers, Goes(d) PROVE d = c /\ Alone(c) /\ Route(c)
  BY <1>1, <1>4 DEF Goes, Alone
<1>5. Alone(c) /\ Route(c)
  BY <1>2, <1>3, <1>4, FlowRoute
<1>6. ~Confirms(c) /\ ~Heals(c)
  BY <1>1 DEF Confirms, Heals
<1>7. ~Compensates(c)
  BY <1>1 DEF Compensates
<1>8. QED
  BY <1>1, <1>5, <1>6, <1>7 DEF Route, WriterPlaces

\* A handler comes to write the verdict by an approval, a confirmation or a repair.
LEMMA WritersStep ==
  ASSUME FlowAssumptions, FlowInv, [FlowNext]_flowVars, NEW c \in Writing', c \notin Writing
  PROVE  /\ Alone(c)
         /\ (Approves(c) /\ provider = "mock") \/ Confirms(c) \/ Heals(c)
<1>1. c \in Handlers /\ handler'[c].at \in WriterPlaces /\ handler[c].at \notin WriterPlaces
  BY DEF Writing
<1>2. UNCHANGED handler => FALSE
  BY <1>1
<1>3. (\A d \in Handlers : handler'[d] = Resting) => FALSE
  BY <1>1, RestingIs DEF WriterPlaces
<1>4. ASSUME NEW d \in Handlers, Goes(d) PROVE d = c /\ Alone(c) /\ Route(c)
  BY <1>1, <1>4 DEF Goes, Alone
<1>5. Alone(c) /\ Route(c)
  BY <1>2, <1>3, <1>4, FlowRoute
<1>6. ~Compensates(c)
  BY <1>1 DEF Compensates, WriterPlaces
<1>7. Approves(c) => provider = "mock"
  <2>1. FlowInv => provider \in {"mock", "vnpay"}
    BY DEF FlowInv, FlowTypeOK, FlowAssumptions
  <2>2. QED
    BY <1>1, <2>1 DEF Approves, WriterPlaces
<1>8. QED
  BY <1>1, <1>5, <1>6, <1>7 DEF Route, WriterPlaces

\* Once nobody can become a writer any more, only a new question changes that.
LEMMA SpentStays ==
  ASSUME LedgerAssumptions, FlowAssumptions, FlowInv, ReleaseInv, [FlowNext]_flowVars,
         Spent, approval' # "AWAITING"
  PROVE  Spent'
<1>1. Openers' = {}
  BY OpenersStep DEF Spent, Approves
<1>2. ASSUME NEW p \in PaymentIds, Pending(p)' PROVE FALSE
  <2>1. \E c \in Users : At(c, "opening")
    BY <1>2, NewSession DEF Spent, ReleaseInv
  <2>2. QED
    BY <2>1 DEF Spent, Openers, At, Handlers
<1>3. QED
  BY <1>1, <1>2 DEF Spent

LEMMA ClosedStays ==
  ASSUME LedgerAssumptions, FlowAssumptions, FlowInv, ReleaseInv, [FlowNext]_flowVars, Closed
  PROVE  Closed'
<1>1. approval' = "APPROVED"
  BY FlowIs DEF ConsentStep, Closed
<1>2. QED
  BY <1>1, SpentStays DEF Closed

\* With the mock provider there is nothing to open and nothing to confirm.
LEMMA MockIsClosed ==
  ASSUME FlowInv', provider' = "mock", approval' = "APPROVED"
  PROVE  Closed'
<1>1. \A c \in Handlers : handler'[c].at \notin {"open", "opening"}
  BY DEF FlowInv, HandlerOk
<1>2. \A p \in PaymentIds : ~Pending(p)'
  BY DEF FlowInv, MockPays
<1>3. QED
  BY <1>1, <1>2 DEF Closed, Spent, Openers

LEMMA OneOpenerStep ==
  ASSUME LedgerAssumptions, FlowAssumptions, FlowInv, ReleaseInv, [FlowNext]_flowVars
  PROVE  OneOpener'
<1>1. ASSUME NEW c \in Openers', c \notin Openers PROVE OneOpener'
  <2>1. Alone(c) /\ Approves(c)
    BY <1>1, OpenersStep
  <2>2. Openers = {}
    BY <2>1 DEF Approves, Openers, FlowInv, HandlerOk
  <2>3. Openers' \subseteq {c}
    BY <2>1, <2>2 DEF Openers, Alone
  <2>4. \A p \in PaymentIds : ~Pending(p)'
    BY <2>1 DEF Approves, FlowInv, Consented, Pending, vars
  <2>5. QED
    BY <2>3, <2>4 DEF OneOpener
<1>2. ASSUME Openers' \subseteq Openers PROVE OneOpener'
  <2>1. \A c, d \in Openers' : c = d
    BY <1>2 DEF ReleaseInv, OneOpener
  <2>2. ASSUME NEW c \in Openers', NEW p \in PaymentIds, Pending(p)' PROVE FALSE
    <3>1. PICK d \in Users : At(d, "opening") /\ handler'[d].at = "opened"
      BY <1>2, <2>2, NewSession DEF ReleaseInv, OneOpener
    <3>2. d \in Openers
      BY <3>1 DEF Openers, Handlers, At
    <3>3. d = c
      BY <1>2, <3>2 DEF ReleaseInv, OneOpener
    <3>4. QED
      BY <3>1, <3>3 DEF Openers
  <2>3. QED
    BY <2>1, <2>2 DEF OneOpener
<1>3. QED
  BY <1>1, <1>2

LEMMA PaidIsClosedStep ==
  ASSUME LedgerAssumptions, FlowAssumptions, FlowInv, ReleaseInv, [FlowNext]_flowVars
  PROVE  PaidIsClosed'
<1> SUFFICES ASSUME NEW p \in PaymentIds, payments'[p].status = "PAID" PROVE Closed'
  BY DEF PaidIsClosed
<1>1. CASE payments[p].status = "PAID"
  BY <1>1, ClosedStays DEF ReleaseInv, PaidIsClosed
<1>2. ASSUME Pending(p), \A q \in PaymentIds : q # p => payments'[q] = payments[q] PROVE Closed'
  <2>1. approval = "APPROVED" /\ Openers = {}
    BY <1>2 DEF FlowInv, Consented, ReleaseInv, OneOpener
  <2>2. approval' = "APPROVED"
    BY <2>1, FlowIs DEF ConsentStep
  <2>3. Openers' = {}
    BY <2>1, OpenersStep DEF Approves
  <2>4. ASSUME NEW q \in PaymentIds, Pending(q)' PROVE FALSE
    <3>1. q # p
      BY <2>4 DEF Pending
    <3>2. Pending(q)
      BY <1>2, <2>4, <3>1 DEF Pending
    <3>3. QED
      BY <1>2, <3>1, <3>2 DEF ReleaseInv, Dealings, FlowInv, MoneyInv, OneOpenSession
  <2>5. QED
    BY <2>2, <2>3, <2>4 DEF Closed, Spent
<1>3. ASSUME NEW c \in Clients, txn[c].step = "payInsert", txn[c].kind = "pay" PROVE Closed'
  <2>1. approval = "APPROVED" /\ provider = "mock"
    BY <1>3 DEF FlowInv, Consented, ReleaseInv, Dealings, PaySteps
  <2>2. approval' = "APPROVED" /\ provider' = "mock"
    BY <2>1, FlowIs DEF ConsentStep
  <2>3. QED
    BY <2>2, FlowInvStep, MockIsClosed
<1>4. CASE payments[p].status # "PAID"
  <2>1. [Next]_vars
    BY <1>4, LedgerSteps DEF Forgets
  <2>2. Shape
    BY DEF FlowInv, MoneyInv
  <2>3. QED
    BY <1>2, <1>3, <1>4, <2>1, <2>2, PaidStep
<1>5. QED
  BY <1>1, <1>4

\* A confirmation finds a pending session and leaves it PAID.
LEMMA ConfirmsPending ==
  ASSUME FlowAssumptions, FlowInv, NEW c, Confirms(c)
  PROVE  \E q \in PaymentIds : Pending(q) /\ payments'[q].status = "PAID"
<1>1. c \in Clients /\ txn[c].step = "confirmWrite"
  BY HandlersAreClients DEF Confirms, ConfirmWrite
<1>2. PICK q : q = txn[c].payment
  OBVIOUS
<1>3. q \in PaymentIds
  BY <1>1, <1>2, TxnAt DEF FlowInv, MoneyInv, Shape, ConfirmTxn
<1>4. payments[q].status = "PENDING" /\ payments' = [payments EXCEPT ![q].status = "PAID"]
  BY <1>2 DEF Confirms, ConfirmWrite, Refuse, Answer
<1>5. payments \in [PaymentIds -> Payment \cup {NoPayment}]
  BY DEF FlowInv, MoneyInv, TypeOK
<1>6. payments[q] \in Payment
  BY <1>3, <1>4, <1>5 DEF NoPayment
<1>7. QED
  BY <1>3, <1>4, <1>5, <1>6 DEF Pending, Payment

LEMMA GatewayRow ==
  ASSUME LedgerAssumptions, GatewayPaid
  PROVE  \E p \in PaymentIds : payments[p].status = "PAID"
<1>1. Sessions \in SUBSET PaymentIds
  BY DEF Sessions, WithKey, Rows
<1>2. Sessions \in SUBSET Nat /\ IsFiniteSet(Sessions) /\ Sessions # {}
  BY <1>1, FS_Subset DEF LedgerAssumptions, GatewayPaid
<1>3. Newest \in Sessions
  BY <1>2, Greatest DEF Newest
<1>4. QED
  BY <1>1, <1>3 DEF GatewayPaid

LEMMA WritesClosedStep ==
  ASSUME LedgerAssumptions, FlowAssumptions, FlowInv, ReleaseInv, [FlowNext]_flowVars
  PROVE  WritesClosed'
<1> SUFFICES ASSUME NEW c \in Writing' PROVE Closed'
  BY DEF WritesClosed
<1>1. CASE c \in Writing
  BY <1>1, ClosedStays DEF ReleaseInv, WritesClosed
<1>2. CASE Approves(c) /\ provider = "mock"
  BY <1>2, FlowIs, FlowInvStep, MockIsClosed DEF Approves
<1>3. CASE Confirms(c)
  BY <1>3, ConfirmsPending, PaidIsClosedStep DEF PaidIsClosed
<1>4. CASE Heals(c)
  <2>1. \E p \in PaymentIds : payments[p].status = "PAID"
    BY <1>4, GatewayRow DEF Heals
  <2>2. QED
    BY <2>1, ClosedStays DEF ReleaseInv, PaidIsClosed
<1>5. QED
  BY <1>1, <1>2, <1>3, <1>4, WritersStep

LEMMA EndsSpentStep ==
  ASSUME LedgerAssumptions, FlowAssumptions, FlowInv, ReleaseInv, [FlowNext]_flowVars
  PROVE  EndsSpent'
<1> SUFFICES ASSUME wf' \in {"RUNNING", "FAILED"} PROVE Spent'
  BY DEF EndsSpent
<1>1. ASSUME Spent, approval' = "AWAITING" => approval = "AWAITING" PROVE Spent'
  BY <1>1, SpentStays DEF Spent
<1>2. wf \in {"RUNNING", "FAILED"} => Spent
  BY DEF ReleaseInv, EndsSpent
<1>3. ASSUME NEW c \in Handlers, Verdicts(c) PROVE Spent'
  <2>1. c \in Writing
    BY <1>3 DEF Verdicts, Writing, WriterPlaces, At
  <2>2. QED
    BY <2>1, ClosedStays DEF ReleaseInv, WritesClosed, Closed
<1>4. QED
  BY <1>1, <1>2, <1>3, WfStep DEF WfMoves

\* The history only grows.
LEMMA CrossedStays ==
  ASSUME [FlowNext]_flowVars, crossed PROVE crossed'
<1>1. UNCHANGED outside => crossed'
  BY DEF outside
<1>2. ASSUME NEW c, Executes(c) PROVE UNCHANGED outside
  BY <1>2 DEF Executes, Prepare, CallGateway, CallMock, MockStatement, MockAnswer,
     Record, Save, ListTasks, WriteVerdict
<1>3. ASSUME NEW c, Cancels(c) PROVE UNCHANGED outside
  BY <1>3 DEF Cancels, CancelList, CancelTask, CancelEnd
<1>4. ASSUME NEW c, UserStep(c) \/ Approve(c) \/ Reject(c) \/ AskCancel(c) PROVE crossed'
  BY <1>1, <1>2, <1>3, <1>4 DEF UserStep, Approve, Reject, AskCancel, RecordApproved, OpenSession,
     SessionStatement, Redirect, CancelWorkflow
<1>5. ASSUME NEW c, CallbackStep(c) \/ \E p \in PaymentIds : Callback(c, p) PROVE crossed'
  BY <1>1, <1>2, <1>5 DEF CallbackStep, Callback, Confirm, Resume, CallbackReturns, flow
<1>6. ASSUME NEW c, SweepStep(c) \/ StartSweep(c) PROVE crossed'
  BY <1>1, <1>2, <1>3, <1>6 DEF SweepStep, StartSweep, SelectApproval, SelectSession, SelectZombie,
     SelectNothing, SelectPaid, Release, Refund, Delete, Resume
<1>7. QED
  BY <1>1, <1>4, <1>5, <1>6 DEF FlowNext, SavePendingApproval, GatewayCharges, DeskChanges, Crash,
     ProviderGoesOn, flowVars, flow

\* Nothing leaves CANCELLED, and a writer's verdict is all that may leave FAILED.
LEMMA EndsStay ==
  ASSUME FlowAssumptions, FlowInv, [FlowNext]_flowVars
  PROVE  /\ wf = "CANCELLED" => wf' = "CANCELLED"
         /\ wf = "FAILED" /\ Writing = {} => wf' \in {"FAILED", "CANCELLED"}
<1>1. \A c \in Handlers : Verdicts(c) => c \in Writing /\ wf # "CANCELLED"
  BY DEF Verdicts, Writing, WriterPlaces, At
<1>2. QED
  BY <1>1, WfStep DEF WfMoves

\* What a sweep is about to give up stays ended.
LEMMA GivenUpStays ==
  ASSUME FlowAssumptions, FlowInv, ReleaseInv, [FlowNext]_flowVars,
         NEW s \in Sweepers, handler[s].at \in {"refund", "delete"}
  PROVE  ~crossed => wf' \in {"FAILED", "CANCELLED"}
<1> SUFFICES ASSUME ~crossed PROVE wf' \in {"FAILED", "CANCELLED"}
  OBVIOUS
<1>1. wf \in {"FAILED", "CANCELLED"}
  BY DEF ReleaseInv, Cancelling
<1>2. wf = "FAILED" => Over
  BY DEF ReleaseInv, Cancelling, Over, Compensating
<1>3. wf = "FAILED" => Writing = {}
  BY <1>2 DEF ReleaseInv, OverIsOver
<1>4. QED
  BY <1>1, <1>3, EndsStay

LEMMA CancellingStep ==
  ASSUME LedgerAssumptions, FlowAssumptions, FlowInv, ReleaseInv, [FlowNext]_flowVars
  PROVE  Cancelling'
<1> DEFINE StillSo(s) ==
      /\ handler'[s].at = "cancelTask" => task'["pay"] \in Finished \/ "pay" \in handler'[s].open
      /\ handler'[s].at \in {"cancelEnd", "release", "refund", "delete"} => task'["pay"] \in Finished
      /\ handler'[s].at \in {"release", "refund", "delete"} /\ handler'[s].phase # "zombies"
           => wf' = "CANCELLED"
      /\ handler'[s].at \in {"refund", "delete"} /\ ~crossed' => wf' \in {"FAILED", "CANCELLED"}
<1> SUFFICES ASSUME NEW s \in Sweepers PROVE StillSo(s)
  BY DEF Cancelling, At
<1>0. s \in Handlers
  BY DEF Handlers
<1>1. /\ handler[s].at = "cancelTask" => task["pay"] \in Finished \/ "pay" \in handler[s].open
      /\ handler[s].at \in {"cancelEnd", "release", "refund", "delete"} => task["pay"] \in Finished
      /\ handler[s].at \in {"release", "refund", "delete"} /\ handler[s].phase # "zombies"
           => wf = "CANCELLED"
      /\ handler[s].at \in {"refund", "delete"} /\ ~crossed => wf \in {"FAILED", "CANCELLED"}
  BY DEF ReleaseInv, Cancelling, At
<1>2. /\ task["pay"] \in Finished => task'["pay"] \in Finished
      /\ wf = "CANCELLED" => wf' = "CANCELLED"
      /\ ~crossed' => ~crossed
  BY PayEnds, EndsStay, CrossedStays
<1>3. handler[s].at \in {"refund", "delete"} /\ ~crossed => wf' \in {"FAILED", "CANCELLED"}
  BY GivenUpStays
<1>4. CASE handler'[s] = handler[s]
  BY <1>1, <1>2, <1>3, <1>4
<1>5. CASE handler'[s] = Resting
  BY <1>5, RestingIs
<1>6. ASSUME Compensates(s) PROVE StillSo(s)
  <2>0. handler'[s].phase = handler[s].phase
    BY <1>6 DEF Compensates
  <2>1. CASE handler'[s].at = "cancelList"
    BY <2>1
  <2>2. CASE At(s, "cancelList") /\ handler'[s].at = "cancelTask"
    <3>1. handler'[s].open = {t \in DOMAIN task : task[t] \notin Finished} /\ UNCHANGED task
      BY <1>6, <2>2 DEF Compensates, At
    <3>2. "pay" \in DOMAIN task
      BY DEF FlowInv, FlowTypeOK
    <3>3. QED
      BY <2>2, <3>1, <3>2
  <2>3. CASE At(s, "cancelTask") /\ handler'[s].at = "cancelTask"
    <3>1. PICK t \in handler[s].open : /\ handler'[s].open = handler[s].open \ {t}
                                       /\ task' = [task EXCEPT ![t] = "CANCELLED"]
      BY <1>6, <2>3 DEF Compensates, At
    <3>2. t = "pay" => task'["pay"] = "CANCELLED"
      BY <3>1 DEF FlowInv, FlowTypeOK
    <3>3. QED
      BY <1>1, <1>2, <2>3, <3>1, <3>2 DEF At, Finished
  <2>4. CASE At(s, "cancelTask") /\ handler'[s].at = "cancelEnd"
    <3>1. handler[s].open = {}
      BY <1>6, <2>4 DEF Compensates, At
    <3>2. QED
      BY <1>1, <1>2, <2>4, <3>1 DEF At
  <2>5. CASE At(s, "cancelEnd") /\ handler'[s].at = "release"
    <3>1. handler[s].phase # "zombies" => wf' = "CANCELLED"
      BY <1>6, <2>5 DEF Compensates, At
    <3>2. QED
      BY <1>1, <1>2, <2>0, <2>5, <3>1 DEF At
  <2>6. CASE At(s, "release") /\ handler'[s].at = "refund"
    <3>1. wf \in {"FAILED", "CANCELLED"} /\ UNCHANGED wf
      BY <1>6, <2>6 DEF Compensates, At
    <3>2. QED
      BY <1>1, <1>2, <2>0, <2>6, <3>1 DEF At
  <2>7. CASE At(s, "refund") /\ handler'[s].at = "delete"
    BY <1>1, <1>2, <1>3, <2>0, <2>7 DEF At
  <2>8. QED
    BY <1>6, <2>1, <2>2, <2>3, <2>4, <2>5, <2>6, <2>7 DEF Compensates
<1>7. ASSUME Route(s) PROVE StillSo(s)
  <2>1. CASE handler'[s].at \in {"idle", "select", "resume", "open", "opening"} \cup WriterPlaces
    BY <2>1 DEF WriterPlaces
  <2>2. Approves(s) => s \in Users
    BY DEF Approves
  <2>3. s \notin Users
    BY DEF FlowAssumptions
  <2>4. QED
    BY <1>6, <1>7, <2>1, <2>2, <2>3 DEF Route, Confirms, Heals
<1>8. ASSUME NEW c \in Handlers, Goes(c) PROVE StillSo(s)
  BY <1>0, <1>4, <1>7, <1>8 DEF Goes, Alone
<1>9. QED
  BY <1>0, <1>4, <1>5, <1>8, FlowRoute

\* Who becomes a writer is the only one, and the workflow has not ended.
LEMMA NewWriter ==
  ASSUME LedgerAssumptions, FlowAssumptions, FlowInv, ReleaseInv, [FlowNext]_flowVars,
         Over, ~crossed', NEW c \in Writing', c \notin Writing
  PROVE  Writing' \subseteq {c} /\ wf' \notin {"RUNNING", "FAILED"}
<1>1. Alone(c) /\ (Approves(c) \/ Confirms(c) \/ Heals(c))
  BY WritersStep
<1>2. CASE ~Spent /\ UNCHANGED wf
  <2>1. Writing = {}
    BY <1>2 DEF ReleaseInv, WritesClosed, Closed
  <2>2. QED
    BY <1>1, <1>2, <2>1 DEF Writing, Alone, ReleaseInv, EndsSpent
<1>3. CASE Approves(c)
  BY <1>2, <1>3 DEF Approves, Spent
<1>4. CASE Confirms(c)
  <2>1. \E q \in PaymentIds : Pending(q)
    BY <1>4, ConfirmsPending
  <2>2. QED
    BY <1>2, <1>4, <2>1 DEF Confirms, Spent
<1>5. ASSUME Heals(c) PROVE FALSE
  <2>1. ~Deleted
    BY <1>5 DEF Heals, ReleaseInv, GoneIsOver
  <2>2. PICK s \in Sweepers : handler[s].phase = "zombies" /\ handler[s].at \in Compensating
    BY <2>1 DEF Over
  <2>3. ~ClosesZombie(s)
    BY <1>5 DEF Heals
  <2>4. QED
    BY <2>2, <2>3 DEF ClosesZombie, At, Compensating
<1>6. QED
  BY <1>1, <1>3, <1>4, <1>5

\* A sweep turns to a zombie when nobody is at work on it.
LEMMA ZombieStep ==
  ASSUME FlowAssumptions, FlowInv, [FlowNext]_flowVars, ~Over,
         NEW s \in Sweepers, handler'[s].phase = "zombies", handler'[s].at \in Compensating
  PROVE  Writing' = {}
<1>0. s \in Handlers
  BY DEF Handlers
<1>1. ~(handler[s].phase = "zombies" /\ handler[s].at \in Compensating)
  BY DEF Over
<1>2. ASSUME NEW c \in Handlers, Goes(c) PROVE s = c /\ Goes(s)
  BY <1>0, <1>1, <1>2 DEF Goes, Alone
<1>3. Goes(s)
  BY <1>0, <1>1, <1>2, FlowRoute, RestingIs
<1>4. Compensates(s)
  <2>1. s \notin Users
    BY DEF FlowAssumptions
  <2>2. QED
    BY <1>3, <2>1 DEF Goes, Route, Approves, Confirms, Heals, Compensating, WriterPlaces
<1>5. handler[s].phase = "zombies" /\ handler[s].at \notin Compensating
  BY <1>1, <1>4 DEF Compensates
<1>6. \A d \in Handlers : ~AtWork(d)
  BY <1>4, <1>5 DEF Compensates, At, Compensating
<1>7. \A d \in Handlers : d \notin Writing
  BY <1>6 DEF AtWork, At, Closing, Writing, WriterPlaces
<1>8. QED
  BY <1>3, <1>7 DEF Goes, Alone, Writing, WriterPlaces, Compensating

LEMMA OverIsOverStep ==
  ASSUME LedgerAssumptions, FlowAssumptions, FlowInv, ReleaseInv, [FlowNext]_flowVars
  PROVE  OverIsOver'
<1> DEFINE StillSo == /\ \A c, d \in Writing' : c = d
                      /\ wf' \in {"RUNNING", "FAILED"} => Writing' = {}
<1> SUFFICES ASSUME Over', wf' # "CANCELLED", ~crossed' PROVE StillSo
  BY DEF OverIsOver
<1>0. wf # "CANCELLED" /\ ~crossed
  BY EndsStay, CrossedStays
<1>1. CASE Over
  <2>1. /\ \A c, d \in Writing : c = d
        /\ wf \in {"RUNNING", "FAILED"} => Writing = {}
    BY <1>0, <1>1 DEF ReleaseInv, OverIsOver
  <2>2. ASSUME NEW c \in Writing', c \notin Writing PROVE StillSo
    BY <1>1, <2>2, NewWriter
  <2>3. ASSUME Writing' \subseteq Writing PROVE StillSo
    <3>1. \A c, d \in Writing' : c = d
      BY <2>1, <2>3
    <3>2. ASSUME NEW c \in Handlers, Verdicts(c) PROVE Writing' = {}
      <4>1. c \in Writing
        BY <3>2 DEF Verdicts, Writing, WriterPlaces, At
      <4>2. c \notin Writing'
        BY <3>2 DEF Verdicts, Writing, WriterPlaces
      <4>3. QED
        BY <2>1, <2>3, <4>1, <4>2
    <3>3. wf' \in {"RUNNING", "FAILED"} => Writing' = {}
      BY <2>1, <2>3, <3>2, WfStep DEF WfMoves
    <3>4. QED
      BY <3>1, <3>3
  <2>4. QED
    BY <2>2, <2>3
<1>2. CASE ~Over
  <2>1. ASSUME Deleted' PROVE FALSE
    <3>1. PICK s \in Sweepers : At(s, "delete") /\ UNCHANGED wf
      BY <1>2, <2>1, TakenStep DEF Over, Deleted
    <3>2. wf = "FAILED" /\ handler[s].phase = "zombies"
      BY <1>0, <3>1 DEF ReleaseInv, Cancelling, At
    <3>3. QED
      BY <1>2, <3>1, <3>2 DEF Over, Compensating, At
  <2>2. QED
    BY <1>2, <2>1, ZombieStep DEF Over
<1>3. QED
  BY <1>1, <1>2

LEMMA GoneIsOverStep ==
  ASSUME LedgerAssumptions, FlowAssumptions, FlowInv, ReleaseInv, [FlowNext]_flowVars
  PROVE  GoneIsOver'
<1> SUFFICES ASSUME Deleted'
             PROVE  task'["pay"] \in Finished /\ (~crossed' => wf' \in {"FAILED", "CANCELLED"})
  BY DEF GoneIsOver
<1>0. ~crossed' => ~crossed
  BY CrossedStays
<1>1. CASE Deleted
  <2>1. task["pay"] \in Finished /\ (~crossed => wf \in {"FAILED", "CANCELLED"})
    BY <1>1 DEF ReleaseInv, GoneIsOver
  <2>2. wf = "FAILED" /\ ~crossed => Writing = {}
    BY <1>1 DEF ReleaseInv, OverIsOver, Over
  <2>3. QED
    BY <1>0, <2>1, <2>2, EndsStay, PayEnds
<1>2. CASE ~Deleted
  <2>1. PICK s \in Sweepers : At(s, "delete") /\ UNCHANGED <<wf, task>>
    BY <1>2, TakenStep DEF Deleted
  <2>2. QED
    BY <1>0, <2>1 DEF ReleaseInv, Cancelling, At
<1>3. QED
  BY <1>1, <1>2

LEMMA ReleaseInvStep ==
  ASSUME LedgerAssumptions, FlowAssumptions, FlowInv, ReleaseInv, [FlowNext]_flowVars
  PROVE  ReleaseInv'
<1>1. Dealings'
  BY DealingsStep DEF ReleaseInv
<1>2. QED
  BY <1>1, OneOpenerStep, PaidIsClosedStep, WritesClosedStep, EndsSpentStep, CancellingStep,
     OverIsOverStep, GoneIsOverStep DEF ReleaseInv

LEMMA ReleaseInvInit ==
  ASSUME FlowAssumptions, FlowInit
  PROVE  ReleaseInv
<1>1. /\ \A p \in PaymentIds : payments[p].status = "NONE"
      /\ \A c \in Clients : txn[c].step = "idle"
  BY DEF FlowInit, NoPayment, Idle
<1>2. \A c \in Handlers : handler[c].at = "idle"
  BY RestingIs DEF FlowInit
<1>3. bookings[Place].status = "ACTIVE"
  BY HandlersAreClients DEF FlowInit
<1>4. Openers = {} /\ Writing = {}
  BY <1>2 DEF Openers, Writing, WriterPlaces
<1>5. Dealings /\ OneOpener /\ PaidIsClosed /\ WritesClosed
  BY <1>1, <1>4 DEF Dealings, OneOpener, PaidIsClosed, WritesClosed, Pending, PaySteps
<1>6. EndsSpent
  BY <1>1, <1>4 DEF EndsSpent, Spent, Pending, FlowInit
<1>7. Cancelling /\ ~Over
  BY <1>2, <1>3 DEF Cancelling, Over, Deleted, At, Compensating, Handlers
<1>8. QED
  BY <1>3, <1>5, <1>6, <1>7 DEF ReleaseInv, OverIsOver, GoneIsOver, Deleted

\* Compensation takes the place only of a workflow that has failed or was cancelled, and it
\* stays so, for any number of sweeps and requests that overlap: nobody who could still
\* write SUCCESS is left when the place goes, unless one sweep repairs what another closes.
THEOREM ReleasedOver == FlowSpec => []ReleasedIsOver
<1>1. FlowInit => FlowInv /\ ReleaseInv
  BY FlowInvInit, ReleaseInvInit, LedgerAssumptions, FlowAssumptions
<1>2. FlowInv /\ ReleaseInv /\ [FlowNext]_flowVars => (FlowInv /\ ReleaseInv)'
  BY FlowInvStep, ReleaseInvStep, LedgerAssumptions, FlowAssumptions
<1>3. ReleaseInv => ReleasedIsOver
  BY DEF ReleaseInv, GoneIsOver, Deleted, ReleasedIsOver
<1>4. QED
  BY <1>1, <1>2, <1>3, PTL DEF FlowSpec
================================================================================
