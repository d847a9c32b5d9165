----------------------------- MODULE ParkingLedger ----------------------------
(***************************************************************************)
(* The tables parking_bookings and payments of one parking day, and the    *)
(* transactions of db/parking_payment_repository.py that write them.       *)
(*                                                                         *)
(* A transaction is the statements of a client, under READ COMMITTED: a    *)
(* statement reads what is committed when it runs, and the writes of a     *)
(* transaction appear when it commits, its last step here.  SELECT ... FOR *)
(* UPDATE holds a row until then; the rows a client holds follow from the  *)
(* statement it has reached.  A booking's amount is always the price of    *)
(* its zone (ZONE_PRICES), so it is not stored twice.                      *)
(***************************************************************************)
EXTENDS Naturals, FiniteSets, FiniteSetsExt

CONSTANTS Clients,    \* connections that may be inside a transaction
          Vehicles,
          Zones,
          Price,      \* ZONE_PRICES
          Capacity,   \* parking_capacity.capacity of the day
          Workflows,  \* a payment's key is its workflow and its booking
          BookingIds, \* BOUND: the booking ids there are
          PaymentIds, \* BOUND: the payment ids there are
          Ops         \* the operations this instance performs

Operations == {"book", "approved", "change", "cancel", "pay", "open",
               "confirm", "expire", "refund", "delete", "late"}

ASSUME LedgerAssumptions ==
  /\ Price \in [Zones -> Nat \ {0}]
  /\ Capacity \in [Zones -> Nat]
  /\ BookingIds \subseteq Nat /\ IsFiniteSet(BookingIds)
  /\ PaymentIds \subseteq Nat /\ IsFiniteSet(PaymentIds)
  /\ "none" \notin Workflows
  /\ Ops \subseteq Operations

VARIABLES bookings,  \* parking_bookings
          payments,  \* payments
          txn,       \* the statement each client has reached
          late,      \* is the 24 hour refund window over
          collected, \* money that came in for a booking
          returned   \* money that went back for a booking

vars == <<bookings, payments, txn, late, collected, returned>>

-------------------------------------------------------------------------------
(* Types *)

\* "NONE" is an id not given out yet, "DELETED" one whose row was deleted.
NoBooking == [status |-> "NONE"]
\* checked is a history field: whether the insertion counted the places.
Booking == [status : {"ACTIVE", "CANCELLED", "DELETED"}, vehicle : Vehicles, zone : Zones,
            checked : BOOLEAN]

NoPayment == [status |-> "NONE"]
Amounts == Nat \ {0}
\* The key is "none" for the refund rows, which have no idempotency_key.
Payment == [status : {"PENDING", "PAID", "FAILED", "REFUNDED", "DELETED"},
            booking : BookingIds, amount : Amounts,
            workflow : Workflows \cup {"none"}]

Idle == [step |-> "idle"]
BookTxn == [step : {"bookCount", "bookInsert"}, vehicle : Vehicles, zone : Zones]
ChangeTxn == [step : {"changeGuard", "changeLock", "changeCount", "changeWrite"},
              booking : BookingIds, zone : Zones]
PayTxn == [step : {"payLock", "payCheck", "payInsert"}, kind : {"pay", "open"},
           booking : BookingIds, workflow : Workflows, amount : Amounts]
ConfirmTxn == [step : {"confirmWrite"}, payment : PaymentIds]
\* What create_payment or confirm_pending_payment answers, when a property asks.
Reply == [step : {"reply"}, code : {"PAYMENT_ALREADY_COMPLETED", "ALREADY_CONFIRMED"},
          booking : BookingIds, workflow : Workflows]

TypeOK ==
  /\ bookings \in [BookingIds -> Booking \cup {NoBooking}]
  /\ payments \in [PaymentIds -> Payment \cup {NoPayment}]
  /\ txn \in [Clients -> {Idle} \cup BookTxn \cup ChangeTxn \cup PayTxn
                           \cup ConfirmTxn \cup Reply]
  /\ late \in BOOLEAN
  /\ collected \in [BookingIds -> Nat]
  /\ returned \in [BookingIds -> Nat]

Init ==
  /\ bookings = [b \in BookingIds |-> NoBooking]
  /\ payments = [p \in PaymentIds |-> NoPayment]
  /\ txn = [c \in Clients |-> Idle]
  /\ late = FALSE
  /\ collected = [b \in BookingIds |-> 0]
  /\ returned = [b \in BookingIds |-> 0]

-------------------------------------------------------------------------------
(* Rows and locks *)

Exists(b) == bookings[b].status \in {"ACTIVE", "CANCELLED"}
Active(z) == {b \in BookingIds : bookings[b].status = "ACTIVE" /\ bookings[b].zone = z}
Checked(z) == {b \in Active(z) : bookings[b].checked}
Full(z) == Cardinality(Active(z)) >= Capacity[z]

\* The live rows of payments for a booking with a status in S.
Rows(b, S) == {p \in PaymentIds : /\ payments[p].status \in S
                                  /\ payments[p].booking = b}
LiveStatuses == {"PENDING", "PAID", "FAILED", "REFUNDED"}
Paid(b) == Rows(b, {"PAID"}) # {}
Session(b) == Rows(b, {"PENDING"}) # {}
WithKey(w, b) == {p \in Rows(b, LiveStatuses) : payments[p].workflow = w}
Total(S) == MapThenSumSet(LAMBDA p : payments[p].amount, S)

\* parking_bookings FOR UPDATE, and parking_capacity FOR UPDATE.
HoldsBooking(c, b) ==
  /\ txn[c].step \in {"changeGuard", "changeLock", "changeCount", "changeWrite",
                      "payCheck", "payInsert"}
  /\ txn[c].booking = b
\* Slip: a zone change locks the capacity row of the zone it leaves as well.
LocksOldZoneToo(c, z) ==
  \/ /\ txn[c].step \in {"bookCount", "bookInsert", "changeCount", "changeWrite"}
     /\ txn[c].zone = z
  \/ /\ txn[c].step \in {"changeLock", "changeCount", "changeWrite"}
     /\ bookings[txn[c].booking].zone = z
HoldsZone(c, z) ==
  /\ txn[c].step \in {"bookCount", "bookInsert", "changeCount", "changeWrite"}
  /\ txn[c].zone = z
BookingFree(b) == \A c \in Clients : ~HoldsBooking(c, b)
ZoneFree(z) == \A c \in Clients : ~HoldsZone(c, z)

\* _next_id counts up and does not reuse the id of a deleted row.
NextBooking(b) == bookings[b] = NoBooking /\ \A a \in BookingIds : a < b => bookings[a] # NoBooking
NextPayment(p) == payments[p] = NoPayment /\ \A q \in PaymentIds : q < p => payments[q] # NoPayment

\* BOUND: a transaction starts only when an id is left for every insertion
\* the open ones may still make.
RoomForBooking ==
  Cardinality({c \in Clients : txn[c].step \in {"bookCount", "bookInsert"}})
    < Cardinality({b \in BookingIds : bookings[b] = NoBooking})
RoomForPayment ==
  Cardinality({c \in Clients : txn[c].step \in {"changeGuard", "changeLock", "changeCount",
                                 "changeWrite", "payLock", "payCheck", "payInsert"}})
    < Cardinality({p \in PaymentIds : payments[p] = NoPayment})

Goto(c, t) == txn' = [txn EXCEPT ![c] = t]
AtStep(c, s) == [txn[c] EXCEPT !.step = s]
Refuse(c) == Goto(c, Idle) /\ UNCHANGED <<bookings, payments, late, collected, returned>>
Advance(c, s) ==
  Goto(c, AtStep(c, s)) /\ UNCHANGED <<bookings, payments, late, collected, returned>>
Answer(c, code) ==
  /\ Goto(c, [step |-> "reply", code |-> code, booking |-> txn[c].booking,
              workflow |-> txn[c].workflow])
  /\ UNCHANGED <<bookings, payments, late, collected, returned>>

-------------------------------------------------------------------------------
(* create_booking *)

\* uq_bookings_vehicle_date: one active booking of a vehicle on a day.
InsertBooking(v, z, checked) ==
  IF \E b \in BookingIds : bookings[b].status = "ACTIVE" /\ bookings[b].vehicle = v
    THEN UNCHANGED bookings
    ELSE \E b \in BookingIds :
           /\ NextBooking(b)
           /\ bookings' = [bookings EXCEPT ![b] =
                             [status |-> "ACTIVE", vehicle |-> v, zone |-> z,
                              checked |-> checked]]

\* Slip: SELECT capacity without FOR UPDATE.
CountsWithoutLock(c, v, z) ==
  /\ "book" \in Ops /\ txn[c] = Idle /\ RoomForBooking
  /\ Goto(c, [step |-> "bookCount", vehicle |-> v, zone |-> z])
  /\ UNCHANGED <<bookings, payments, late, collected, returned>>

\* INSERT ... ON CONFLICT DO NOTHING, then SELECT capacity ... FOR UPDATE.
BookLock(c, v, z) ==
  /\ "book" \in Ops /\ txn[c] = Idle /\ RoomForBooking
  /\ ZoneFree(z)
  /\ Goto(c, [step |-> "bookCount", vehicle |-> v, zone |-> z])
  /\ UNCHANGED <<bookings, payments, late, collected, returned>>

BookCount(c) ==
  /\ txn[c].step = "bookCount"
  /\ IF Full(txn[c].zone) THEN Refuse(c) ELSE Advance(c, "bookInsert")

BookInsert(c) ==
  /\ txn[c].step = "bookInsert"
  /\ InsertBooking(txn[c].vehicle, txn[c].zone, TRUE)
  /\ Goto(c, Idle)
  /\ UNCHANGED <<payments, late, collected, returned>>

\* availability_already_approved: the desk has said there is a place, and no
\* capacity is read.
BookApproved(v, z) ==
  /\ "approved" \in Ops /\ RoomForBooking
  /\ InsertBooking(v, z, FALSE)
  /\ UNCHANGED <<payments, txn, late, collected, returned>>

-------------------------------------------------------------------------------
(* change_booking_zone and cancel_parking_booking *)

\* _settle_difference for a booking that now costs `price': what is given
\* back.  Kept is what was paid less what went back already.
\* Slip: only a cancellation gives money back.
Kept(b) == Total(Rows(b, {"PAID"})) - Total(Rows(b, {"REFUNDED"}))
TopUpRequired(b, price) == Paid(b) /\ Total(Rows(b, {"PAID"})) < price + Total(Rows(b, {"REFUNDED"}))
ExcessWhenCancelled(b, price) == IF Paid(b) /\ price = 0 THEN Kept(b) ELSE 0
Excess(b, price) == IF Paid(b) THEN Kept(b) - price ELSE 0

SettleDifference(b, price) ==
  IF Excess(b, price) = 0
    THEN UNCHANGED <<payments, returned>>
    ELSE /\ \E p \in PaymentIds :
              /\ NextPayment(p)
              /\ payments' = [payments EXCEPT ![p] =
                   [status |-> "REFUNDED", booking |-> b,
                    amount |-> Excess(b, price), workflow |-> "none"]]
         /\ returned' = [returned EXCEPT ![b] = @ + Excess(b, price)]

\* SELECT * FROM parking_bookings ... FOR UPDATE.
ChangeLock(c, b, z) ==
  /\ "change" \in Ops /\ txn[c] = Idle /\ RoomForPayment
  /\ Exists(b) /\ BookingFree(b)
  /\ Goto(c, [step |-> "changeGuard", booking |-> b, zone |-> z])
  /\ UNCHANGED <<bookings, payments, late, collected, returned>>

\* PAYMENT_SESSION_ACTIVE, or the zone the booking is already in.
ChangeGuard(c) ==
  /\ txn[c].step = "changeGuard"
  /\ IF Session(txn[c].booking) \/ bookings[txn[c].booking].zone = txn[c].zone
       THEN Refuse(c)
       ELSE Advance(c, "changeLock")

\* SELECT capacity of the new zone ... FOR UPDATE.
ChangeLockZone(c) ==
  /\ txn[c].step = "changeLock"
  /\ ZoneFree(txn[c].zone)
  /\ Advance(c, "changeCount")

ChangeCount(c) ==
  /\ txn[c].step = "changeCount"
  /\ IF Full(txn[c].zone) THEN Refuse(c) ELSE Advance(c, "changeWrite")

\* The new zone and what it gives back commit together, or not at all.
ChangeWrite(c) ==
  LET b == txn[c].booking
      price == Price[txn[c].zone] IN
  /\ txn[c].step = "changeWrite"
  /\ IF TopUpRequired(b, price)
       THEN Refuse(c)
       ELSE /\ bookings' = [bookings EXCEPT ![b].zone = txn[c].zone]
            /\ SettleDifference(b, price)
            /\ Goto(c, Idle)
            /\ UNCHANGED <<late, collected>>

\* From its FOR UPDATE on the booking and the payment rows on, nothing another
\* client does can reach it: one step.
CancelParking(b) ==
  /\ "cancel" \in Ops /\ RoomForPayment
  /\ bookings[b].status = "ACTIVE" /\ BookingFree(b)
  /\ late \/ ~TopUpRequired(b, 0)
  /\ bookings' = [bookings EXCEPT ![b].status = "CANCELLED"]
  /\ IF late THEN UNCHANGED <<payments, returned>> ELSE SettleDifference(b, 0)
  /\ UNCHANGED <<txn, late, collected>>

\* The day before the booking begins.
WindowCloses ==
  /\ "late" \in Ops /\ ~late
  /\ late' = TRUE
  /\ UNCHANGED <<bookings, payments, txn, collected, returned>>

-------------------------------------------------------------------------------
(* create_payment ("pay") and create_pending_payment ("open") *)

\* SELECT * FROM payments WHERE idempotency_key: when there is a row it is the
\* answer.  The amount is the caller's, from a quote it read some time before.
PayLookup(c, kind, w, b, amount) ==
  /\ kind \in Ops /\ txn[c] = Idle /\ RoomForPayment
  /\ Exists(b) /\ WithKey(w, b) = {}
  /\ Goto(c, [step |-> "payLock", kind |-> kind, booking |-> b,
              workflow |-> w, amount |-> amount])
  /\ UNCHANGED <<bookings, payments, late, collected, returned>>

\* Slip: the booking is read without FOR UPDATE.
ReadsWithoutLock(c) ==
  LET b == txn[c].booking IN
  /\ txn[c].step = "payLock"
  /\ IF Exists(b) /\ txn[c].amount = Price[bookings[b].zone]
       THEN Advance(c, "payCheck")
       ELSE Refuse(c)

\* SELECT * FROM parking_bookings ... FOR UPDATE, of any status.
PayLock(c) ==
  LET b == txn[c].booking IN
  /\ txn[c].step = "payLock"
  /\ BookingFree(b)
  /\ IF Exists(b) /\ txn[c].amount = Price[bookings[b].zone]
       THEN Advance(c, "payCheck")
       ELSE Refuse(c)

PayCheck(c) ==
  LET b == txn[c].booking IN
  /\ txn[c].step = "payCheck"
  /\ \/ Paid(b) /\ Answer(c, "PAYMENT_ALREADY_COMPLETED")
     \/ ~Paid(b) /\ txn[c].kind = "open" /\ Session(b) /\ Refuse(c)
     \/ ~Paid(b) /\ ~(txn[c].kind = "open" /\ Session(b)) /\ Advance(c, "payInsert")

\* uq_payments_paid_booking and uq_payments_idempotency_key.  The failed INSERT
\* aborts the transaction, so create_payment's read of the winner fails too.
Duplicate(c) ==
  \/ WithKey(txn[c].workflow, txn[c].booking) # {}
  \/ txn[c].kind = "pay" /\ Paid(txn[c].booking)

PayInsert(c) ==
  LET b == txn[c].booking IN
  /\ txn[c].step = "payInsert"
  /\ IF Duplicate(c)
       THEN Refuse(c)
       ELSE /\ \E p \in PaymentIds :
                 /\ NextPayment(p)
                 /\ payments' = [payments EXCEPT ![p] =
                      [status |-> IF txn[c].kind = "pay" THEN "PAID" ELSE "PENDING",
                       booking |-> b, amount |-> txn[c].amount,
                       workflow |-> txn[c].workflow]]
            /\ collected' = IF txn[c].kind = "pay"
                              THEN [collected EXCEPT ![b] = @ + txn[c].amount]
                              ELSE collected
            /\ Goto(c, Idle)
            /\ UNCHANGED <<bookings, late, returned>>

-------------------------------------------------------------------------------
(* confirm_pending_payment, expire_stale_vnpay_sessions *)

\* The SELECT, when it finds a pending row of the callback's amount; every
\* other outcome only answers.
ConfirmRead(c, p) ==
  /\ "confirm" \in Ops /\ txn[c] = Idle
  /\ payments[p].status = "PENDING"
  /\ Goto(c, [step |-> "confirmWrite", payment |-> p])
  /\ UNCHANGED <<bookings, payments, late, collected, returned>>

\* UPDATE ... WHERE payment_status = 'PENDING'.  No row: ALREADY_CONFIRMED.
\* Another PAID row of the booking: the unique index raises.
ConfirmWrite(c) ==
  LET p == txn[c].payment
      b == payments[p].booking IN
  /\ txn[c].step = "confirmWrite"
  /\ \/ /\ payments[p].status = "PENDING" /\ ~Paid(b)
        /\ payments' = [payments EXCEPT ![p].status = "PAID"]
        /\ collected' = [collected EXCEPT ![b] = @ + payments[p].amount]
        /\ Goto(c, Idle)
        /\ UNCHANGED <<bookings, late, returned>>
     \/ payments[p].status = "PENDING" /\ Paid(b) /\ Refuse(c)
     \/ /\ payments[p].status # "PENDING"
        /\ Goto(c, [step |-> "reply", code |-> "ALREADY_CONFIRMED",
                    booking |-> b, workflow |-> payments[p].workflow])
        /\ UNCHANGED <<bookings, payments, late, collected, returned>>

\* The caller has its answer.
Return(c) == txn[c].step = "reply" /\ Refuse(c)

\* One row at a time: the age of a session is left open.
ExpireSession(p) ==
  /\ "expire" \in Ops
  /\ payments[p].status = "PENDING"
  /\ payments' = [payments EXCEPT ![p].status = "FAILED"]
  /\ UNCHANGED <<bookings, txn, late, collected, returned>>

-------------------------------------------------------------------------------
(* What compensation calls: refund_payment, then cancel_booking *)

RefundPayment(b) ==
  /\ "refund" \in Ops
  /\ Paid(b)
  /\ payments' = [p \in PaymentIds |->
       IF p \in Rows(b, {"PAID"}) THEN [payments[p] EXCEPT !.status = "REFUNDED"]
                                 ELSE payments[p]]
  /\ returned' = [returned EXCEPT ![b] = @ + Total(Rows(b, {"PAID"}))]
  /\ UNCHANGED <<bookings, txn, late, collected>>

\* Both DELETEs.  The second waits for the row a transaction has locked, and
\* the foreign key fails it when a payment was inserted in between.
DeleteBooking(b) ==
  /\ "delete" \in Ops
  /\ Exists(b) /\ BookingFree(b)
  /\ payments' = [p \in PaymentIds |->
       IF p \in Rows(b, LiveStatuses \ {"PAID"}) THEN [payments[p] EXCEPT !.status = "DELETED"]
                                                ELSE payments[p]]
  /\ bookings' = IF Paid(b) THEN bookings
                 ELSE [bookings EXCEPT ![b].status = "DELETED"]
  /\ UNCHANGED <<txn, late, collected, returned>>

-------------------------------------------------------------------------------
Statement(c) ==
  \/ BookCount(c) \/ BookInsert(c)
  \/ ChangeGuard(c) \/ ChangeLockZone(c) \/ ChangeCount(c) \/ ChangeWrite(c)
  \/ PayLock(c) \/ PayCheck(c) \/ PayInsert(c)
  \/ ConfirmWrite(c) \/ Return(c)

Next ==
  \/ \E c \in Clients :
       \/ \E v \in Vehicles, z \in Zones : BookLock(c, v, z)
       \/ \E b \in BookingIds, z \in Zones : ChangeLock(c, b, z)
       \/ \E kind \in {"pay", "open"}, w \in Workflows, b \in BookingIds, z \in Zones :
            PayLookup(c, kind, w, b, Price[z])
       \/ \E p \in PaymentIds : ConfirmRead(c, p)
       \/ Statement(c)
  \/ \E v \in Vehicles, z \in Zones : BookApproved(v, z)
  \/ \E b \in BookingIds : CancelParking(b) \/ RefundPayment(b) \/ DeleteBooking(b)
  \/ \E p \in PaymentIds : ExpireSession(p)
  \/ WindowCloses

Spec == Init /\ [][Next]_vars

-------------------------------------------------------------------------------
(* Properties *)

\* The bookings that counted the places never outnumber them, however many the
\* desk lets in past the count: create_booking and change_booking_zone count
\* under the lock on parking_capacity.
CapacityHeld == \A z \in Zones : Cardinality(Checked(z)) <= Capacity[z]

\* A booking never has two gateway sessions open.  No index says so: only the
\* lock on the booking between create_pending_payment's check and its INSERT.
OneSessionPerBooking == \A b \in BookingIds : Cardinality(Rows(b, {"PENDING"})) <= 1

\* The amount frozen in an open session is the price of the booking, whatever
\* zone changes ran: change_booking_zone refuses while a session is open.
FrozenAmountStands ==
  \A p \in PaymentIds : payments[p].status = "PENDING"
     => payments[p].amount = Price[bookings[payments[p].booking].zone]

\* Compensation was here: it gave a payment back whole (the refunds of
\* _settle_difference are rows of their own, without a workflow), or it
\* deleted rows.
Compensated(b) ==
  \/ Rows(b, {"DELETED"}) # {}
  \/ \E p \in Rows(b, {"REFUNDED"}) : payments[p].workflow # "none"

\* A booking that is held and paid for has cost exactly the price of its zone
\* over all its zone changes, what came in less what went back, as
\* long as compensation stays away from it.
PaidIsThePrice ==
  \A b \in BookingIds : bookings[b].status = "ACTIVE" /\ Paid(b) /\ ~Compensated(b)
     => collected[b] = returned[b] + Price[bookings[b].zone]

\* Transactions never wait for each other in a circle: whichever of them wait,
\* one waits only for a transaction that can go on.
WaitsFor(c, d) ==
  \/ txn[c].step = "payLock" /\ HoldsBooking(d, txn[c].booking)
  \/ txn[c].step = "changeLock" /\ HoldsZone(d, txn[c].zone)
NoDeadlock ==
  \A S \in SUBSET Clients : S # {} => \E c \in S : \A d \in S : ~WaitsFor(c, d)
===============================================================================
