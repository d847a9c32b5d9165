------------------------------- MODULE ApiProofs -------------------------------
(***************************************************************************)
(* Proofs about what the API keeps for a customer: Accounts, for any       *)
(* requests, addresses, codes and times, and StatusView, for any outcomes  *)
(* of the runs, requests and writers.                                      *)
(*                                                                         *)
(* Accounts: a row of registration_otps holds a code that was drawn        *)
(* for its own address and purpose (Drawn), so a code stands in one row at *)
(* most; the DELETE that accepts it takes that row away, and a spent code  *)
(* never stands again (Spent).  A request that is about to set a password  *)
(* has had such a row (Holds), and an address has one account (OneEach).   *)
(*                                                                         *)
(* StatusView: as long as nothing is late, the kept response is true or    *)
(* something is still to come that makes it true or takes it away          *)
(* (TrueJob).  A step that moves the rows disturbs it in no case: either   *)
(* the request has forgotten the response before and nothing was kept      *)
(* since (Cleared), or it will forget or replace it (Owed), or it is the   *)
(* gateway's and nothing was kept since the session was opened (Gateway).  *)
(* A response is kept by the first run, whose rows are then still those of *)
(* the run (Unmoved), by a stop, which has cancelled the workflow, and by  *)
(* a mock payment, whose workflow is the SUCCESS it keeps (Paying).        *)
(***************************************************************************)
EXTENDS Accounts, StatusView, FiniteSetTheorems, SequenceTheorems, WellFoundedInduction, TLAPS

Drawn == \A k \in Keys : otp[k].code # 0 => otp[k].code \in DOMAIN issued /\ issued[otp[k].code] = k

Spent ==
  \A c \in Codes : /\ uses[c] <= 1
                   /\ uses[c] = 1 => c \in DOMAIN issued /\ \A k \in Keys : otp[k].code # c

Holds ==
  \A h \in Requests :
    /\ hand[h].at \in {"cool", "save"} => <<hand[h].email, hand[h].purpose>> \in Keys
    /\ hand[h].at \in {"find", "store"}
         => hand[h].code \in DOMAIN issued /\ issued[hand[h].code] = <<hand[h].email, "password_reset">>

OneEach == \A u, v \in users : u.email = v.email => u = v

AInv == AccountsTypeOK /\ Drawn /\ Spent /\ Holds /\ OneEach

-------------------------------------------------------------------------------
(* The rows of registration_otps *)

\* What happens to the codes: nothing, a new one is drawn, one is tried, or the
\* rest of the step does not look at them.
Draws(key) ==
  /\ DOMAIN issued' = DOMAIN issued \cup {Cardinality(DOMAIN issued) + 1}
  /\ Cardinality(DOMAIN issued) + 1 \notin DOMAIN issued
  /\ \A d \in DOMAIN issued : issued'[d] = issued[d]
  /\ issued'[Cardinality(DOMAIN issued) + 1] = key

LEMMA DrawIs ==
  ASSUME AccountAssumptions, AccountsTypeOK, NEW key, Cardinality(DOMAIN issued) < MaxCodes,
         LET c == Cardinality(DOMAIN issued) + 1 IN
         issued' = [d \in 1..c |-> IF d = c THEN key ELSE issued[d]]
  PROVE  /\ Draws(key) /\ Cardinality(DOMAIN issued) + 1 \in Codes
         /\ \E n \in Nat : DOMAIN issued' = 1..n /\ n <= MaxCodes
<1>1. PICK n \in Nat : DOMAIN issued = 1..n /\ n <= MaxCodes
  BY DEF AccountsTypeOK
<1>2. Cardinality(DOMAIN issued) = n
  BY <1>1, FS_Interval
<1>3. issued' = [d \in 1..(n + 1) |-> IF d = n + 1 THEN key ELSE issued[d]]
  BY <1>2
<1>4. MaxCodes \in Nat /\ n < MaxCodes
  BY <1>2 DEF AccountAssumptions
<1>5. DOMAIN issued' = 1..(n + 1) /\ 1..(n + 1) = (1..n) \cup {n + 1} /\ n + 1 \notin 1..n
  BY <1>3
<1>6. QED
  BY <1>1, <1>2, <1>3, <1>4, <1>5 DEF Draws, Codes

LEMMA SaveStep ==
  ASSUME AccountAssumptions, AInv, NEW h \in Requests, SavesCode(h)
  PROVE  AInv'
<1> DEFINE key == <<hand[h].email, hand[h].purpose>>
           c == Cardinality(DOMAIN issued) + 1
           row == [code |-> c, made |-> clock, until |-> clock + Life]
<1>1. key \in Keys
  BY DEF AInv, Holds, SavesCode
<1>2. Draws(key) /\ c \in Codes /\ \E n \in Nat : DOMAIN issued' = 1..n /\ n <= MaxCodes
  BY DrawIs DEF SavesCode, AInv
<1>3. otp' = [otp EXCEPT ![key] = row]
  BY DEF SavesCode
<1>4. row \in OtpRow /\ row.code = c /\ c # 0
  BY <1>2 DEF OtpRow, Codes, AInv, AccountsTypeOK, AccountAssumptions
<1>5. AccountsTypeOK'
  <2>1. hand' \in [Requests -> Hand]
    BY DEF SavesCode, Ends, AInv, AccountsTypeOK, Hand, Idle, Places
  <2>2. inbox' \subseteq DOMAIN issued'
    BY <1>2 DEF SavesCode, AInv, AccountsTypeOK, Draws
  <2>3. otp' \in [Keys -> OtpRow]
    BY <1>3, <1>4 DEF AInv, AccountsTypeOK
  <2>4. QED
    BY <1>2, <2>1, <2>2, <2>3 DEF SavesCode, AInv, AccountsTypeOK
<1> HIDE DEF row, key, c
<1>6. \A k \in Keys : otp'[k] = IF k = key THEN row ELSE otp[k]
  BY <1>3 DEF AInv, AccountsTypeOK
<1>7. /\ DOMAIN issued' = DOMAIN issued \cup {c} /\ c \notin DOMAIN issued
      /\ \A d \in DOMAIN issued : issued'[d] = issued[d]
      /\ issued'[c] = key
  BY <1>2 DEF Draws, c
<1>8. Drawn'
  BY <1>1, <1>7, <1>4, <1>6 DEF AInv, Drawn
<1>9. Spent'
  <2>1. uses' = uses
    BY DEF SavesCode
  <2>2. QED
    BY <1>1, <1>2, <1>7, <1>4, <1>6, <2>1 DEF AInv, Spent
<1>10. Holds'
  <2>1. hand'[h] = Idle /\ \A g \in Requests : g # h => hand'[g] = hand[g]
    BY DEF SavesCode, Ends, AInv, AccountsTypeOK
  <2>2. QED
    BY <1>7, <2>1 DEF AInv, Holds, Idle
<1>11. OneEach'
  BY DEF SavesCode, AInv, OneEach
<1>12. QED
  BY <1>5, <1>8, <1>9, <1>10, <1>11 DEF AInv

\* A code is tried: whichever rows go, the one that matched goes with them.
LEMMA TryStep ==
  ASSUME AccountAssumptions, AInv, NEW h \in Requests, NEW n \in Names \cup {"-"}, NEW e \in Emails,
         NEW p \in Purposes, NEW c \in inbox, NEW next \in {"create", "find"},
         Verifies(h, n, e, p, c, next), next = "find" => p = "password_reset"
  PROVE  AInv'
<1> DEFINE key == <<e, p>>
           r == [at |-> next, name |-> n, email |-> e, purpose |-> p, code |-> c]
<1>1. key \in Keys
  BY DEF Keys
<1>2. c \in DOMAIN issued /\ c \in Codes /\ c # 0 /\ c \in Nat
  BY DEF AInv, AccountsTypeOK, Codes, AccountAssumptions
<1>3. \A k \in Keys : otp'[k] = IF ~Fresh(otp[k]) \/ (k = key /\ otp[k].code = c) THEN NoRow ELSE otp[k]
  BY DEF Verifies, Deletes, AInv, AccountsTypeOK
<1>4. NoRow \in OtpRow /\ NoRow.code = 0
  BY DEF NoRow, OtpRow
<1>5. otp' \in [Keys -> OtpRow] /\ \A k \in Keys : otp'[k].code # 0 => otp'[k] = otp[k]
  BY <1>3, <1>4 DEF Verifies, Deletes, AInv, AccountsTypeOK
<1>6. UNCHANGED <<issued, inbox, users, clock>>
  BY DEF Verifies
<1> HIDE DEF key
<1>7. Drawn' /\ OneEach'
  BY <1>5, <1>6 DEF AInv, Drawn, OneEach
<1>8. CASE Matches(e, p, c)
  <2>1. uses' = [uses EXCEPT ![c] = @ + 1] /\ hand' = [hand EXCEPT ![h] = r]
    BY <1>8 DEF Verifies
  <2>2. otp[key].code = c /\ issued[c] = key
    BY <1>1, <1>2, <1>8 DEF Matches, AInv, Drawn, key
  <2>3. r \in Hand /\ r.at = next /\ r.email = e /\ r.code = c
    BY <1>2 DEF Hand, Places
  <2> HIDE DEF r
  <2>4. AccountsTypeOK'
    BY <1>2, <1>5, <1>6, <2>1, <2>3 DEF AInv, AccountsTypeOK
  <2>5. Spent'
    <3>1. uses[c] = 0
      <4>1. uses[c] \in Nat /\ uses[c] <= 1
        BY <1>2 DEF AInv, AccountsTypeOK, Spent
      <4>2. uses[c] # 1
        BY <1>1, <1>2, <2>2 DEF AInv, Spent
      <4>3. QED
        BY <4>1, <4>2
    <3>2. \A k \in Keys : otp'[k].code # c
      BY <1>2, <1>3, <1>4, <1>5, <2>2 DEF AInv, Drawn
    <3>3. \A d \in Codes : uses'[d] = IF d = c THEN uses[d] + 1 ELSE uses[d]
      BY <2>1 DEF AInv, AccountsTypeOK
    <3>4. \A d \in Codes, k \in Keys : otp[k].code # d /\ d # 0 => otp'[k].code # d
      BY <1>5
    <3>5. \A d \in Codes : d # 0
      BY DEF Codes
    <3>6. QED
      BY <1>2, <1>6, <3>1, <3>2, <3>3, <3>4, <3>5 DEF AInv, Spent
  <2>6. Holds'
    <3>1. hand'[h] = r /\ \A g \in Requests : g # h => hand'[g] = hand[g]
      BY <2>1 DEF AInv, AccountsTypeOK
    <3>2. QED
      BY <1>2, <1>6, <2>2, <2>3, <3>1 DEF AInv, Holds, key
  <2>7. QED
    BY <1>7, <2>4, <2>5, <2>6 DEF AInv
<1>9. CASE ~Matches(e, p, c)
  <2>1. UNCHANGED <<uses, hand>>
    BY <1>9 DEF Verifies
  <2>2. \A d \in Codes : d # 0
    BY DEF Codes
  <2>3. QED
    BY <1>5, <1>6, <1>7, <2>1, <2>2 DEF AInv, AccountsTypeOK, Spent, Holds
<1>10. QED
  BY <1>8, <1>9

-------------------------------------------------------------------------------
(* The other steps leave the codes alone. *)

LEMMA HandStep ==
  ASSUME AInv, NEW h \in Requests, NEW r \in Hand, hand' = [hand EXCEPT ![h] = r],
         UNCHANGED <<otp, issued, inbox, users, uses, clock, locks>>,
         r.at \in {"cool", "save"} => <<r.email, r.purpose>> \in Keys,
         r.at \in {"find", "store"} => /\ r.code \in DOMAIN issued
                                       /\ issued[r.code] = <<r.email, "password_reset">>
  PROVE  AInv'
<1>1. hand' \in [Requests -> Hand] /\ hand'[h] = r /\ \A g \in Requests : g # h => hand'[g] = hand[g]
  BY DEF AInv, AccountsTypeOK
<1>2. AccountsTypeOK' /\ Drawn' /\ Spent' /\ OneEach'
  BY <1>1 DEF AInv, AccountsTypeOK, Drawn, Spent, OneEach
<1>3. Holds'
  BY <1>1 DEF AInv, Holds
<1>4. QED
  BY <1>2, <1>3 DEF AInv

LEMMA IdleIs == Idle \in Hand /\ Idle.at = "idle"
  BY DEF Idle, Hand, Places

LEMMA GoStep ==
  ASSUME AInv, NEW h \in Requests, NEW at \in Places, Go(h, at) \/ Ends(h),
         UNCHANGED <<otp, issued, inbox, users, uses, clock, locks>>,
         \/ at = "save" /\ hand[h].at = "cool"
         \/ at = "store" /\ hand[h].at = "find"
  PROVE  AInv'
<1>1. CASE Ends(h)
  BY <1>1, IdleIs, HandStep DEF Ends
<1>2. CASE Go(h, at)
  <2> DEFINE r == [hand[h] EXCEPT !.at = at]
  <2>1. hand[h] \in Hand
    BY DEF AInv, AccountsTypeOK
  <2>2. /\ r \in Hand /\ r.at = at /\ r.email = hand[h].email /\ r.purpose = hand[h].purpose
        /\ r.code = hand[h].code
    BY <2>1 DEF Hand
  <2>3. hand' = [hand EXCEPT ![h] = r]
    BY <1>2 DEF Go
  <2> HIDE DEF r
  <2>4. QED
    BY <2>2, <2>3, HandStep DEF AInv, Holds
<1>3. QED
  BY <1>1, <1>2

LEMMA RecordIs ==
  ASSUME NEW r, NEW A, NEW N, NEW E, NEW P, NEW C, r \in [at : A, name : N, email : E, purpose : P, code : C]
  PROVE  r = [at |-> r.at, name |-> r.name, email |-> r.email, purpose |-> r.purpose, code |-> r.code]
OBVIOUS

LEMMA AskedIs ==
  ASSUME NEW e, NEW p
  PROVE  [Idle EXCEPT !.at = "cool", !.email = e, !.purpose = p]
           = [at |-> "cool", name |-> "-", email |-> e, purpose |-> p, code |-> 0]
<1> DEFINE r == [Idle EXCEPT !.at = "cool", !.email = e, !.purpose = p]
<1>1. r \in [at : {"cool"}, name : {"-"}, email : {e}, purpose : {p}, code : {0}]
  BY DEF Idle
<1> HIDE DEF r
<1>2. r.at = "cool" /\ r.name = "-" /\ r.email = e /\ r.purpose = p /\ r.code = 0
  BY <1>1
<1>3. r = [at |-> r.at, name |-> r.name, email |-> r.email, purpose |-> r.purpose, code |-> r.code]
  BY <1>1, RecordIs
<1>4. QED
  BY <1>2, <1>3 DEF r

LEMMA GoogleIs ==
  ASSUME NEW e, NEW n
  PROVE  [Idle EXCEPT !.at = "create", !.name = n, !.email = e]
           = [at |-> "create", name |-> n, email |-> e, purpose |-> "-", code |-> 0]
<1> DEFINE r == [Idle EXCEPT !.at = "create", !.name = n, !.email = e]
<1>1. r \in [at : {"create"}, name : {n}, email : {e}, purpose : {"-"}, code : {0}]
  BY DEF Idle
<1> HIDE DEF r
<1>2. r.at = "create" /\ r.name = n /\ r.email = e /\ r.purpose = "-" /\ r.code = 0
  BY <1>1
<1>3. r = [at |-> r.at, name |-> r.name, email |-> r.email, purpose |-> r.purpose, code |-> r.code]
  BY <1>1, RecordIs
<1>4. QED
  BY <1>2, <1>3 DEF r

LEMMA AskStep ==
  ASSUME AInv, NEW h \in Requests,
         \/ AsksToRegister(h) \/ ForgotPassword(h) \/ GoogleRegister(h)
         \/ ReadsCooldown(h) \/ FindsUser(h)
  PROVE  AInv'
<1>1. ASSUME NEW e \in Emails, NEW p \in Purposes, NEW at \in {"cool", "create"},
             NEW n \in Names \cup {"-"},
             hand' = [hand EXCEPT ![h] = [at |-> at, name |-> n, email |-> e, purpose |-> p, code |-> 0]]
                \/ (at = "create" /\ hand' = [hand EXCEPT ![h] =
                     [at |-> at, name |-> n, email |-> e, purpose |-> "-", code |-> 0]]),
             UNCHANGED <<otp, issued, inbox, users, uses, clock, locks>>
      PROVE  AInv'
  <2>1. CASE hand' = [hand EXCEPT ![h] = [at |-> at, name |-> n, email |-> e, purpose |-> p, code |-> 0]]
    <3> DEFINE r == [at |-> at, name |-> n, email |-> e, purpose |-> p, code |-> 0]
    <3>1. r \in Hand /\ r.at = at /\ r.email = e /\ r.purpose = p /\ <<e, p>> \in Keys
      BY DEF Hand, Places, Keys
    <3>2. hand' = [hand EXCEPT ![h] = r]
      BY <2>1
    <3> HIDE DEF r
    <3>3. QED
      BY <1>1, <3>1, <3>2, HandStep
  <2>2. CASE at = "create" /\ hand' = [hand EXCEPT ![h] =
                     [at |-> at, name |-> n, email |-> e, purpose |-> "-", code |-> 0]]
    <3> DEFINE r == [at |-> at, name |-> n, email |-> e, purpose |-> "-", code |-> 0]
    <3>1. r \in Hand /\ r.at = at
      BY DEF Hand, Places
    <3>2. hand' = [hand EXCEPT ![h] = r]
      BY <2>2
    <3> HIDE DEF r
    <3>3. QED
      BY <1>1, <2>2, <3>1, <3>2, HandStep
  <2>3. QED
    BY <1>1, <2>1, <2>2
<1>2. CASE AsksToRegister(h)
  <2>1. PICK e \in Emails : hand' = [hand EXCEPT ![h] = [Idle EXCEPT !.at = "cool", !.email = e,
                                                                   !.purpose = "registration"]]
    BY <1>2 DEF AsksToRegister
  <2>2. [Idle EXCEPT !.at = "cool", !.email = e, !.purpose = "registration"]
          = [at |-> "cool", name |-> "-", email |-> e, purpose |-> "registration", code |-> 0]
    BY AskedIs
  <2>3. QED
    BY <1>1, <1>2, <2>1, <2>2 DEF AsksToRegister, Purposes
<1>3. CASE ForgotPassword(h)
  <2>1. PICK e \in Emails : hand' = [hand EXCEPT ![h] = [Idle EXCEPT !.at = "cool", !.email = e,
                                                                   !.purpose = "password_reset"]]
    BY <1>3 DEF ForgotPassword
  <2>2. [Idle EXCEPT !.at = "cool", !.email = e, !.purpose = "password_reset"]
          = [at |-> "cool", name |-> "-", email |-> e, purpose |-> "password_reset", code |-> 0]
    BY AskedIs
  <2>3. QED
    BY <1>1, <1>3, <2>1, <2>2 DEF ForgotPassword, Purposes
<1>4. CASE GoogleRegister(h)
  <2>1. PICK n \in Names, e \in Emails :
          hand' = [hand EXCEPT ![h] = [Idle EXCEPT !.at = "create", !.name = n, !.email = e]]
    BY <1>4 DEF GoogleRegister
  <2>2. [Idle EXCEPT !.at = "create", !.name = n, !.email = e]
          = [at |-> "create", name |-> n, email |-> e, purpose |-> "-", code |-> 0]
    BY GoogleIs
  <2>3. QED
    BY <1>1, <1>4, <2>1, <2>2 DEF GoogleRegister, Purposes
<1>5. CASE ReadsCooldown(h)
  BY <1>5, GoStep DEF ReadsCooldown, Places
<1>6. CASE FindsUser(h)
  BY <1>6, GoStep DEF FindsUser, Places
<1>7. QED
  BY <1>2, <1>3, <1>4, <1>5, <1>6

-------------------------------------------------------------------------------
(* The accounts *)

LEMMA UpdateStep ==
  ASSUME AInv, NEW h \in Requests, UpdatePassword(h)
  PROVE  /\ AInv'
         /\ \A u \in users, v \in users' : (u.email = v.email /\ u.password # v.password) =>
              issued[v.password] = <<u.email, "password_reset">> /\ ~u.archived
<1> DEFINE e == hand[h].email
           c == hand[h].code
           f(u) == IF u \in Updates(e) THEN [u EXCEPT !.password = c] ELSE u
<1>1. hand[h] \in Hand /\ c \in Nat /\ issued[c] = <<e, "password_reset">>
  BY DEF AInv, AccountsTypeOK, Hand, Holds, UpdatePassword
<1>2. users' = {f(u) : u \in users}
  BY DEF UpdatePassword
<1>3. ASSUME NEW u \in users
      PROVE  /\ f(u) \in User /\ f(u).email = u.email
             /\ f(u).password # u.password => f(u).password = c /\ u.email = e /\ ~u.archived
  <2>1. u \in User
    BY DEF AInv, AccountsTypeOK
  <2>2. u \in Updates(e) => u.email = e /\ ~u.archived
    BY DEF Updates, Active
  <2>3. [u EXCEPT !.password = c] = [name |-> u.name, email |-> u.email, by |-> u.by, password |-> c,
                                     archived |-> u.archived]
    BY <2>1 DEF User
  <2>4. QED
    BY <1>1, <2>1, <2>2, <2>3 DEF User
<1> HIDE DEF f, c, e
<1>4. users' \subseteq User /\ OneEach'
  BY <1>2, <1>3 DEF AInv, OneEach
<1>5. \A u \in users, v \in users' : u.email = v.email => v = f(u)
  BY <1>2, <1>3 DEF AInv, OneEach
<1>6. UNCHANGED <<otp, issued, inbox, uses, clock>> /\ Ends(h)
  BY DEF UpdatePassword
<1>7. AccountsTypeOK' /\ Drawn' /\ Spent' /\ Holds'
  <2>1. hand' \in [Requests -> Hand] /\ hand'[h] = Idle /\ \A g \in Requests : g # h => hand'[g] = hand[g]
    BY <1>6, IdleIs DEF Ends, AInv, AccountsTypeOK
  <2>2. QED
    BY <1>4, <1>6, <2>1, IdleIs DEF AInv, AccountsTypeOK, Drawn, Spent, Holds
<1>8. QED
  BY <1>1, <1>3, <1>4, <1>5, <1>7 DEF AInv

LEMMA CreateStep ==
  ASSUME AInv, NEW h \in Requests, CreateUser(h)
  PROVE  /\ AInv'
         /\ \A u \in users, v \in users' : (u.email = v.email /\ u.password # v.password) =>
              issued[v.password] = <<u.email, "password_reset">> /\ ~u.archived
<1> DEFINE new == [name |-> hand[h].name, email |-> hand[h].email, by |-> hand[h].code,
                   password |-> 0, archived |-> FALSE]
<1>1. new \in User /\ new.email = hand[h].email
  BY DEF AInv, AccountsTypeOK, Hand, User
<1>2. \/ users' = users
      \/ users' = users \cup {new} /\ \A u \in users : u.email # new.email
  BY DEF CreateUser, Taken
<1> HIDE DEF new
<1>3. users' \subseteq User /\ OneEach'
  BY <1>1, <1>2 DEF AInv, OneEach, AccountsTypeOK
<1>4. \A u \in users, v \in users' : u.email = v.email => v = u
  BY <1>2 DEF AInv, OneEach
<1>5. UNCHANGED <<otp, issued, inbox, uses, clock>> /\ Ends(h)
  BY DEF CreateUser
<1>6. AccountsTypeOK' /\ Drawn' /\ Spent' /\ Holds'
  <2>1. hand' \in [Requests -> Hand] /\ hand'[h] = Idle /\ \A g \in Requests : g # h => hand'[g] = hand[g]
    BY <1>5, IdleIs DEF Ends, AInv, AccountsTypeOK
  <2>2. QED
    BY <1>3, <1>5, <2>1, IdleIs DEF AInv, AccountsTypeOK, Drawn, Spent, Holds
<1>7. QED
  BY <1>3, <1>4, <1>6 DEF AInv

LEMMA StatusStep ==
  ASSUME AInv, UpdateStatus
  PROVE  /\ AInv'
         /\ \A u \in users, v \in users' : (u.email = v.email /\ u.password # v.password) =>
              issued[v.password] = <<u.email, "password_reset">> /\ ~u.archived
<1>1. PICK x \in users : users' = (users \ {x}) \cup {[x EXCEPT !.archived = ~@]}
  BY DEF UpdateStatus
<1> DEFINE y == [x EXCEPT !.archived = ~@]
<1>2. y \in User /\ y.email = x.email /\ y.password = x.password
  <2>1. x \in User
    BY DEF AInv, AccountsTypeOK
  <2>2. QED
    BY <2>1 DEF User
<1>3. users' = (users \ {x}) \cup {y}
  BY <1>1
<1> HIDE DEF y
<1>4. users' \subseteq User /\ OneEach'
  BY <1>2, <1>3 DEF AInv, OneEach, AccountsTypeOK
<1>5. \A u \in users, v \in users' : u.email = v.email => v.password = u.password
  BY <1>2, <1>3 DEF AInv, OneEach
<1>6. UNCHANGED <<otp, issued, inbox, uses, clock, hand>>
  BY DEF UpdateStatus
<1>7. AccountsTypeOK' /\ Drawn' /\ Spent' /\ Holds'
  BY <1>4, <1>6 DEF AInv, AccountsTypeOK, Drawn, Spent, Holds
<1>8. QED
  BY <1>4, <1>5, <1>7 DEF AInv

-------------------------------------------------------------------------------
PasswordKept ==
  \A u \in users, v \in users' : (u.email = v.email /\ u.password # v.password) =>
    issued[v.password] = <<u.email, "password_reset">> /\ ~u.archived

LEMMA AInvStep ==
  ASSUME AccountAssumptions, AInv, [Next]_vars
  PROVE  AInv' /\ PasswordKept
<1>1. UNCHANGED users => PasswordKept
  BY DEF AInv, OneEach, PasswordKept
<1>2. CASE UNCHANGED vars
  BY <1>1, <1>2 DEF vars, AInv, AccountsTypeOK, Drawn, Spent, Holds, OneEach
<1>3. ASSUME NEW h \in Requests,
             \/ AsksToRegister(h) \/ ForgotPassword(h) \/ GoogleRegister(h)
             \/ ReadsCooldown(h) \/ FindsUser(h)
      PROVE  AInv' /\ UNCHANGED users
  BY <1>3, AskStep DEF AsksToRegister, ForgotPassword, GoogleRegister, ReadsCooldown, FindsUser
<1>4. ASSUME NEW h \in Requests, SavesCode(h) PROVE AInv' /\ UNCHANGED users
  BY <1>4, SaveStep DEF SavesCode
<1>5. ASSUME NEW h \in Requests, Register(h) PROVE AInv' /\ UNCHANGED users
  <2>1. PICK n \in Names, e \in Emails, c \in inbox : Verifies(h, n, e, "registration", c, "create")
    BY <1>5 DEF Register
  <2>2. QED
    BY <2>1, TryStep DEF Purposes, Verifies
<1>6. ASSUME NEW h \in Requests, ResetPassword(h) PROVE AInv' /\ UNCHANGED users
  <2>1. PICK e \in Emails, c \in inbox : Verifies(h, "-", e, "password_reset", c, "find")
    BY <1>6 DEF ResetPassword
  <2>2. QED
    BY <2>1, TryStep DEF Purposes, Verifies
<1>7. CASE MailArrives
  BY <1>1, <1>7 DEF MailArrives, AInv, AccountsTypeOK, Drawn, Spent, Holds, OneEach
<1>8. CASE Tick
  BY <1>1, <1>8 DEF Tick, AInv, AccountsTypeOK, Drawn, Spent, Holds, OneEach
<1>9. ASSUME NEW h \in Requests, CreateUser(h) \/ UpdatePassword(h) PROVE AInv' /\ PasswordKept
  BY <1>9, CreateStep, UpdateStep DEF PasswordKept
<1>10. CASE UpdateStatus
  BY <1>10, StatusStep DEF PasswordKept
<1>11. QED
  BY <1>1, <1>2, <1>3, <1>4, <1>5, <1>6, <1>7, <1>8, <1>9, <1>10 DEF Next

LEMMA AInvHolds == AccountsSpec => []AInv
<1>1. Init => AInv
  <2> SUFFICES ASSUME Init PROVE AInv
    OBVIOUS
  <2>1. AccountsTypeOK
    <3>1. issued = <<>> /\ DOMAIN issued = 1..0 /\ 0 <= MaxCodes
      BY AccountAssumptions DEF Init, AccountAssumptions
    <3>2. otp \in [Keys -> OtpRow]
      BY DEF Init, NoRow, OtpRow, Keys
    <3>3. QED
      BY <3>1, <3>2, IdleIs DEF Init, AccountsTypeOK
  <2>2. Drawn /\ Spent /\ Holds /\ OneEach
    BY IdleIs DEF Init, Drawn, Spent, Holds, OneEach, NoRow, Keys
  <2>3. QED
    BY <2>1, <2>2 DEF AInv
<1>2. AInv /\ [Next]_vars => AInv'
  BY AInvStep, AccountAssumptions
<1>3. QED
  BY <1>1, <1>2, PTL DEF AccountsSpec

\* A code opens one account or sets one password, whatever the number of
\* requests that carry it at the same time: verify_otp deletes the row it
\* accepts in the statement that finds it, and no other row has the code.
THEOREM OpensOnce == AccountsSpec => []CodeOpensOnce
<1>1. AInv => CodeOpensOnce
  BY DEF AInv, Spent, CodeOpensOnce
<1>2. QED
  BY <1>1, AInvHolds, PTL

\* Rows, requests and accounts keep their type, so a password is always the number of a
\* drawn code or 0, and what the mail has delivered has been drawn.
THEOREM AccountsTyped == AccountsSpec => []AccountsTypeOK
<1>1. AInv => AccountsTypeOK
  BY DEF AInv
<1>2. QED
  BY <1>1, AInvHolds, PTL

\* A password changes only with a code drawn to reset it and mailed to that
\* account's address, and never while the account is locked, though the code
\* was accepted two transactions before the password is written.
THEOREM PasswordByCode == AccountsSpec => PasswordFollowsCode
<1>1. AInv /\ [Next]_vars => [PasswordKept]_vars
  BY AInvStep, AccountAssumptions
<1>2. AccountsSpec => [][PasswordKept]_vars
  BY <1>1, AInvHolds, PTL DEF AccountsSpec
<1>3. QED
  BY <1>2, PTL DEF PasswordFollowsCode, PasswordKept

-------------------------------------------------------------------------------
(* The view and the sentence: what holds of rows, kept response and requests *)

\* A request is known by its kind and by how many of its steps are done; Bars are the
\* steps that need a forget before them, and Owes says that a forget or the response of
\* the request itself is still to come, with no such step before it.
Kinds == DOMAIN Endpoints
Steps(k) == Endpoints[k].steps
Did(k, p, s) == \E i \in 1..(p - 1) : Steps(k)[i] = s
Bars(k) == IF k \in Stops THEN {"cancel", "reject"} ELSE {"decide", "cancel", "reject"}
Owes(k, p) == \E i \in p..Len(Steps(k)) : /\ Steps(k)[i] \in {"forget", "keep"}
                                          /\ \A j \in p..i : Steps(k)[j] \notin Bars(k)
Going(a) == asking[a].at = "go"
Kind(a) == asking[a].kind
Place(a) == Len(Steps(Kind(a))) - Len(asking[a].left) + 1
Past(a, s) == Going(a) /\ Did(Kind(a), Place(a), s)

StepNames == {"cancel", "decide", "forget", "keep", "reject", "renew", "run", "speak", "status",
              "succeed"}
Asker == [at : {"idle", "go", "over"}, left : Seq(StepNames), kind : Kinds,
         rest : [wf : Statuses \cup {"none"}, open : SUBSET Items]]
Writer == [at : {"idle", "read", "claim", "speak", "over"}, view : Views \cup {"none"},
           key : AnswerKeys \cup {NoKey}, mine : BOOLEAN]
Sentence == [for : AnswerKeys \cup {NoKey}, state : {"NULL", "PENDING", "STALE", "READY"},
             text : AnswerKeys \cup {NoKey}]
First == [at : {"run", "keep", "ask", "mark", "over"},
          view : [wf : Statuses \cup {"none", "clarification", "chat", "error"},
                  open : SUBSET Items]]

ViewTyped ==
  /\ wf \in Statuses /\ open \subseteq Items /\ job \in Views \cup {"none"}
  /\ answer \in Sentence /\ writer \in [Writers -> Writer] /\ asking \in [Asking -> Asker]
  /\ first \in First /\ late \in BOOLEAN /\ crashes \in 0..MaxCrashes

\* A request has the last steps of its kind left.
Course ==
  \A a \in Asking : Going(a) =>
    LET s == Steps(Kind(a)) IN
    /\ \E p \in 1..Len(s) : asking[a].left = SubSeq(s, p, Len(s))
    /\ s[Place(a)] = "status" => asking[a].rest.wf \in Statuses \ {"CANCELLED"}

\* Before the first run there is nothing to ask about, to say or to keep.
FirstOk ==
  /\ first.at \in {"keep", "ask", "mark"}
       => \/ first.view \in Rests
          \/ first.view.wf \in {"clarification", "chat", "error"} /\ first.view.open = {}
  /\ first.at = "run"
       => /\ open = {} /\ wf \in {"PENDING", "CANCELLED"} /\ job = "none"
          /\ \A w \in Writers : writer[w].at = "idle"
          /\ \A a \in Asking : Going(a) => Kind(a) = "stop"
          /\ wf = "CANCELLED" => \E a \in Asking : Kind(a) = "stop" /\ Past(a, "cancel")
\* A writer that may put its view back has the one that is kept.
WritersOk ==
  \A w \in Writers :
    /\ writer[w].at = "idle" => writer[w].view = "none" /\ ~writer[w].mine
    /\ writer[w].mine => writer[w].view = job
    /\ writer[w].view = "chat" => first.at \notin {"run", "keep"} /\ first.view.wf = "chat"
\* Kept is the response of the first run, or one a request wrote without reading.
JobOk == \/ job \in {"none", "success", "cancelled"}
         \/ first.at \notin {"run", "keep"} /\ job = ResponseOf(first.view)
\* Who is asked for a payment has no gateway session yet.
OneWay == ~("asked" \in open /\ "session" \in open)
Stopping ==
  \A a \in Asking : Kind(a) = "stop" => /\ Past(a, "cancel") => wf = "CANCELLED"
                                        /\ Past(a, "keep") => first.at = "over"

\* Nothing is kept that a payment could make untrue.
Gone == job = "none" \/ (job = "cancelled" /\ wf = "CANCELLED")
\* The response of the first run is kept while the rows are as the run left them.
Unmoved == first.at = "keep" =>
  /\ "session" \notin open
  /\ (\A a \in Asking : ~(Kind(a) = "stop" /\ Past(a, "cancel"))) =>
       \/ first.view.wf \in {"clarification", "chat", "error"} /\ open = {} /\ wf = "PENDING"
       \/ first.view \in Rests /\ wf = first.view.wf /\ open = first.view.open
\* After a forget nothing is kept until the request keeps its own response.
Cleared == \A a \in Asking : Past(a, "forget") /\ ~Past(a, "keep") => job = "none"
\* The gateway's callback forgets nothing: nothing is kept since the session was opened.
Gateway == /\ "session" \in open => Gone
           /\ \A a \in Asking : Kind(a) = "gateway" /\ Past(a, "decide") /\ ~Past(a, "succeed")
                                => Gone
\* No session is opened while a mock payment is under way.
Paying == \A a \in Asking : Going(a) /\ Kind(a) = "pay" /\ ~Past(a, "keep")
                            => "session" \notin open
\* The steps after the first response make it true: its question, its verdict.
FirstOwes ==
  \/ first.at = "ask" /\ job = "clarification"
  \/ first.at \in {"ask", "mark"} /\ job = "error" /\ wf \in {"PENDING", "RUNNING"}
Owed == \E a \in Asking : Going(a) /\ Owes(Kind(a), Place(a))
\* What is kept is true, or a step that makes it true or takes it away is still owed.
TrueJob == job = "none" \/ IsTrue(job) \/ FirstOwes \/ Owed

OnTime == Unmoved /\ Cleared /\ Gateway /\ Paying /\ TrueJob
SInv == /\ ViewTyped /\ Course /\ FirstOk /\ WritersOk /\ JobOk /\ OneWay /\ Stopping
        /\ ~late => OnTime

\* A set of numbers has a least one.
LEMMA LeastIndex ==
  ASSUME NEW T \in SUBSET Nat, T # {}
  PROVE  \E n \in T : \A m \in T : n <= m
<1>1. \E n \in T : \A m \in T : ~(<<m, n>> \in OpToRel(<, Nat))
  BY WFMin, NatLessThanWellFounded
<1>2. PICK n \in T : \A m \in T : ~(<<m, n>> \in OpToRel(<, Nat))
  BY <1>1
<1>3. ASSUME NEW m \in T PROVE ~(m < n)
  <2> DEFINE pair == <<m, n>>
  <2>1. pair \in Nat \X Nat /\ pair[1] = m /\ pair[2] = n
    OBVIOUS
  <2>2. pair \notin {e \in Nat \X Nat : e[1] < e[2]}
    BY <1>2 DEF OpToRel
  <2> HIDE DEF pair
  <2>3. QED
    BY <2>1, <2>2
<1>4. QED
  BY <1>3

LEMMA FirstOfIs ==
  ASSUME NEW cases, NEW n \in Nat, DOMAIN cases = 1..n, NEW k \in 1..n, cases[k].holds
  PROVE  \E i \in 1..n : /\ cases[i].holds /\ \A m \in 1..(i - 1) : ~cases[m].holds
                         /\ FirstOf(cases) = cases[i].view
<1> DEFINE T == {i \in 1..n : cases[i].holds}
<1>1. T \in SUBSET Nat /\ T # {}
  OBVIOUS
<1>2. PICK i \in T : \A m \in T : i <= m
  BY <1>1, LeastIndex
<1>3. i \in DOMAIN cases /\ cases[i].holds /\ \A m \in 1..(i - 1) : ~cases[m].holds
  BY <1>2
<1> DEFINE j == CHOOSE l \in DOMAIN cases :
                  cases[l].holds /\ \A m \in 1..(l - 1) : ~cases[m].holds
<1>4. j \in DOMAIN cases /\ cases[j].holds /\ \A m \in 1..(j - 1) : ~cases[m].holds
  BY <1>3
<1>5. FirstOf(cases) = cases[j].view
  BY DEF FirstOf
<1> HIDE DEF j
<1>6. QED
  BY <1>4, <1>5

LEMMA Nine ==
  ASSUME NEW c1, NEW c2, NEW c3, NEW c4, NEW c5, NEW c6, NEW c7, NEW c8, NEW c9
  PROVE  <<c1, c2>> \o <<c3, c4, c5, c6, c7>> \o <<c8, c9>> = <<c1, c2, c3, c4, c5, c6, c7, c8, c9>>
<1> DEFINE S == {c1, c2, c3, c4, c5, c6, c7, c8, c9}
           x == <<c1, c2>>
           y == <<c3, c4, c5, c6, c7>>
           z == <<c8, c9>>
           all == <<c1, c2, c3, c4, c5, c6, c7, c8, c9>>
<1>1. x \in Seq(S) /\ Len(x) = 2 /\ x[1] = c1 /\ x[2] = c2
  OBVIOUS
<1>2. y \in Seq(S) /\ Len(y) = 5 /\ y[1] = c3 /\ y[2] = c4 /\ y[3] = c5 /\ y[4] = c6 /\ y[5] = c7
  OBVIOUS
<1>3. z \in Seq(S) /\ Len(z) = 2 /\ z[1] = c8 /\ z[2] = c9
  OBVIOUS
<1>4. /\ all \in Seq(S) /\ Len(all) = 9
      /\ all[1] = c1 /\ all[2] = c2 /\ all[3] = c3 /\ all[4] = c4 /\ all[5] = c5
      /\ all[6] = c6 /\ all[7] = c7 /\ all[8] = c8 /\ all[9] = c9
  OBVIOUS
<1> HIDE DEF S, x, y, z, all
<1>5. /\ x \o y \in Seq(S) /\ Len(x \o y) = 7
      /\ \A i \in 1..7 : (x \o y)[i] = IF i <= 2 THEN x[i] ELSE y[i - 2]
  <2>1. /\ x \o y \in Seq(S) /\ Len(x \o y) = Len(x) + Len(y)
        /\ \A i \in 1..Len(x) + Len(y) : (x \o y)[i] = IF i <= Len(x) THEN x[i] ELSE y[i - Len(x)]
    BY <1>1, <1>2, ConcatProperties, Zenon
  <2>2. QED
    BY <1>1, <1>2, <2>1
<1> DEFINE xy == x \o y
<1> HIDE DEF xy
<1>6. /\ xy \o z \in Seq(S) /\ Len(xy \o z) = 9
      /\ \A i \in 1..9 : (xy \o z)[i] = IF i <= 7 THEN xy[i] ELSE z[i - 7]
  <2>1. xy \in Seq(S) /\ Len(xy) = 7
    BY <1>5 DEF xy
  <2>2. /\ xy \o z \in Seq(S) /\ Len(xy \o z) = Len(xy) + Len(z)
        /\ \A i \in 1..Len(xy) + Len(z) : (xy \o z)[i] = IF i <= Len(xy) THEN xy[i] ELSE z[i - Len(xy)]
    BY <1>3, <2>1, ConcatProperties, Zenon
  <2>3. QED
    BY <1>3, <2>1, <2>2
<1>7. \A i \in 1..9 : (xy \o z)[i] = all[i]
  <2>1. ASSUME NEW i \in 1..9 PROVE (xy \o z)[i] = all[i]
    BY <1>1, <1>2, <1>3, <1>4, <1>5, <1>6 DEF xy
  <2>2. QED
    BY <2>1
<1>8. xy \o z = all
  BY <1>4, <1>6, <1>7, SeqEqual
<1>9. QED
  BY <1>8 DEF xy, x, y, z, all

LEMMA Suffix ==
  ASSUME NEW s \in Seq(StepNames), NEW p \in 1..Len(s), NEW l, l = SubSeq(s, p, Len(s))
  PROVE  /\ l \in Seq(StepNames) /\ Len(l) = Len(s) - p + 1 /\ l # <<>>
         /\ \A i \in 1..Len(l) : l[i] = s[p + i - 1]
         /\ Head(l) = s[p] /\ Tail(l) \in Seq(StepNames)
         /\ p < Len(s) => Tail(l) = SubSeq(s, p + 1, Len(s)) /\ Tail(l) # <<>>
         /\ p = Len(s) => Tail(l) = <<>>
<1>1. Len(s) \in Nat /\ l \in Seq(StepNames) /\ Len(l) = Len(s) - p + 1
  OBVIOUS
<1>2. \A i \in 1..Len(l) : l[i] = s[p + i - 1]
  BY <1>1
<1>3. l # <<>>
  <2>1. l = <<>> => Len(l) = 0
    BY EmptySeq
  <2>2. QED
    BY <1>1, <2>1
<1>4. Head(l) = s[p] /\ Tail(l) = SubSeq(s, p + 1, Len(s))
  BY <1>1, HeadTailOfSubSeq
<1>5. Tail(l) \in Seq(StepNames) /\ Len(Tail(l)) = Len(s) - p
  BY <1>1, <1>3, HeadTailProperties
<1>6. p < Len(s) => Tail(l) # <<>>
  <2>1. Tail(l) = <<>> => Len(Tail(l)) = 0
    BY EmptySeq
  <2>2. QED
    BY <1>1, <1>5, <2>1
<1>7. p = Len(s) => Tail(l) = <<>>
  BY <1>1, <1>5, EmptySeq
<1>8. QED
  BY <1>1, <1>2, <1>3, <1>4, <1>5, <1>6, <1>7

LEMMA KindsAre ==
  Kinds = {"service", "viewing", "pay", "session", "refuse", "gateway", "confirm", "another",
           "conflict", "answer", "retry", "amend", "stop", "unpaid"}
  BY DEF Kinds, Endpoints

LEMMA ServiceSteps ==
  /\ Len(Steps("service")) = 6 /\ Steps("service") \in Seq(StepNames)
  /\ Steps("service")[1] = "decide" /\ Steps("service")[2] = "forget"
  /\ Steps("service")[3] = "run" /\ Steps("service")[4] = "status"
  /\ Steps("service")[5] = "renew" /\ Steps("service")[6] = "speak"
<1> DEFINE s == <<"decide", "forget", "run", "status", "renew", "speak">>
<1>1. Steps("service") = s
  BY DEF Steps, Endpoints, ServiceDecision
<1>2. s \in Seq(StepNames) /\ Len(s) = 6
  BY DEF StepNames
<1>3. s[1] = "decide" /\ s[2] = "forget" /\ s[3] = "run" /\ s[4] = "status" /\ s[5] = "renew" /\ s[6] = "speak"
  OBVIOUS
<1> HIDE DEF s
<1>4. QED
  BY <1>1, <1>2, <1>3

LEMMA ViewingSteps ==
  /\ Len(Steps("viewing")) = 5 /\ Steps("viewing") \in Seq(StepNames)
  /\ Steps("viewing")[1] = "forget" /\ Steps("viewing")[2] = "decide"
  /\ Steps("viewing")[3] = "run" /\ Steps("viewing")[4] = "status"
  /\ Steps("viewing")[5] = "speak"
<1> DEFINE s == <<"forget", "decide", "run", "status", "speak">>
<1>1. Steps("viewing") = s
  BY DEF Steps, Endpoints, ViewingDecision
<1>2. s \in Seq(StepNames) /\ Len(s) = 5
  BY DEF StepNames
<1>3. s[1] = "forget" /\ s[2] = "decide" /\ s[3] = "run" /\ s[4] = "status" /\ s[5] = "speak"
  OBVIOUS
<1> HIDE DEF s
<1>4. QED
  BY <1>1, <1>2, <1>3

LEMMA PaySteps ==
  /\ Len(Steps("pay")) = 5 /\ Steps("pay") \in Seq(StepNames)
  /\ Steps("pay")[1] = "forget" /\ Steps("pay")[2] = "decide"
  /\ Steps("pay")[3] = "succeed" /\ Steps("pay")[4] = "keep"
  /\ Steps("pay")[5] = "speak"
<1> DEFINE s == <<"forget", "decide", "succeed", "keep", "speak">>
<1>1. Steps("pay") = s
  BY DEF Steps, Endpoints, MockPayment
<1>2. s \in Seq(StepNames) /\ Len(s) = 5
  BY DEF StepNames
<1>3. s[1] = "forget" /\ s[2] = "decide" /\ s[3] = "succeed" /\ s[4] = "keep" /\ s[5] = "speak"
  OBVIOUS
<1> HIDE DEF s
<1>4. QED
  BY <1>1, <1>2, <1>3

LEMMA SessionSteps ==
  /\ Len(Steps("session")) = 3 /\ Steps("session") \in Seq(StepNames)
  /\ Steps("session")[1] = "forget" /\ Steps("session")[2] = "decide"
  /\ Steps("session")[3] = "forget"
<1> DEFINE s == <<"forget", "decide", "forget">>
<1>1. Steps("session") = s
  BY DEF Steps, Endpoints, OpenSession
<1>2. s \in Seq(StepNames) /\ Len(s) = 3
  BY DEF StepNames
<1>3. s[1] = "forget" /\ s[2] = "decide" /\ s[3] = "forget"
  OBVIOUS
<1> HIDE DEF s
<1>4. QED
  BY <1>1, <1>2, <1>3

LEMMA RefuseSteps ==
  /\ Len(Steps("refuse")) = 2 /\ Steps("refuse") \in Seq(StepNames)
  /\ Steps("refuse")[1] = "forget" /\ Steps("refuse")[2] = "reject"
<1> DEFINE s == <<"forget", "reject">>
<1>1. Steps("refuse") = s
  BY DEF Steps, Endpoints, RefusePayment
<1>2. s \in Seq(StepNames) /\ Len(s) = 2
  BY DEF StepNames
<1>3. s[1] = "forget" /\ s[2] = "reject"
  OBVIOUS
<1> HIDE DEF s
<1>4. QED
  BY <1>1, <1>2, <1>3

LEMMA GatewaySteps ==
  /\ Len(Steps("gateway")) = 3 /\ Steps("gateway") \in Seq(StepNames)
  /\ Steps("gateway")[1] = "decide" /\ Steps("gateway")[2] = "succeed"
  /\ Steps("gateway")[3] = "speak"
<1> DEFINE s == <<"decide", "succeed", "speak">>
<1>1. Steps("gateway") = s
  BY DEF Steps, Endpoints, GatewayCalls
<1>2. s \in Seq(StepNames) /\ Len(s) = 3
  BY DEF StepNames
<1>3. s[1] = "decide" /\ s[2] = "succeed" /\ s[3] = "speak"
  OBVIOUS
<1> HIDE DEF s
<1>4. QED
  BY <1>1, <1>2, <1>3

LEMMA ConfirmSteps ==
  /\ Len(Steps("confirm")) = 3 /\ Steps("confirm") \in Seq(StepNames)
  /\ Steps("confirm")[1] = "decide" /\ Steps("confirm")[2] = "forget"
  /\ Steps("confirm")[3] = "speak"
<1> DEFINE s == <<"decide", "forget", "speak">>
<1>1. Steps("confirm") = s
  BY DEF Steps, Endpoints, ConfirmProposal
<1>2. s \in Seq(StepNames) /\ Len(s) = 3
  BY DEF StepNames
<1>3. s[1] = "decide" /\ s[2] = "forget" /\ s[3] = "speak"
  OBVIOUS
<1> HIDE DEF s
<1>4. QED
  BY <1>1, <1>2, <1>3

LEMMA AnotherSteps ==
  /\ Len(Steps("another")) = 3 /\ Steps("another") \in Seq(StepNames)
  /\ Steps("another")[1] = "decide" /\ Steps("another")[2] = "forget"
  /\ Steps("another")[3] = "speak"
<1> DEFINE s == <<"decide", "forget", "speak">>
<1>1. Steps("another") = s
  BY DEF Steps, Endpoints, AnotherProvider
<1>2. s \in Seq(StepNames) /\ Len(s) = 3
  BY DEF StepNames
<1>3. s[1] = "decide" /\ s[2] = "forget" /\ s[3] = "speak"
  OBVIOUS
<1> HIDE DEF s
<1>4. QED
  BY <1>1, <1>2, <1>3

LEMMA ConflictSteps ==
  /\ Len(Steps("conflict")) = 4 /\ Steps("conflict") \in Seq(StepNames)
  /\ Steps("conflict")[1] = "forget" /\ Steps("conflict")[2] = "decide"
  /\ Steps("conflict")[3] = "run" /\ Steps("conflict")[4] = "status"
<1> DEFINE s == <<"forget", "decide", "run", "status">>
<1>1. Steps("conflict") = s
  BY DEF Steps, Endpoints, ConflictReply
<1>2. s \in Seq(StepNames) /\ Len(s) = 4
  BY DEF StepNames
<1>3. s[1] = "forget" /\ s[2] = "decide" /\ s[3] = "run" /\ s[4] = "status"
  OBVIOUS
<1> HIDE DEF s
<1>4. QED
  BY <1>1, <1>2, <1>3

LEMMA AnswerSteps ==
  /\ Len(Steps("answer")) = 5 /\ Steps("answer") \in Seq(StepNames)
  /\ Steps("answer")[1] = "run" /\ Steps("answer")[2] = "status"
  /\ Steps("answer")[3] = "forget" /\ Steps("answer")[4] = "decide"
  /\ Steps("answer")[5] = "speak"
<1> DEFINE s == <<"run", "status", "forget", "decide", "speak">>
<1>1. Steps("answer") = s
  BY DEF Steps, Endpoints, AnswerAndRerun
<1>2. s \in Seq(StepNames) /\ Len(s) = 5
  BY DEF StepNames
<1>3. s[1] = "run" /\ s[2] = "status" /\ s[3] = "forget" /\ s[4] = "decide" /\ s[5] = "speak"
  OBVIOUS
<1> HIDE DEF s
<1>4. QED
  BY <1>1, <1>2, <1>3

LEMMA RetrySteps ==
  /\ Len(Steps("retry")) = 3 /\ Steps("retry") \in Seq(StepNames)
  /\ Steps("retry")[1] = "forget" /\ Steps("retry")[2] = "run"
  /\ Steps("retry")[3] = "status"
<1> DEFINE s == <<"forget", "run", "status">>
<1>1. Steps("retry") = s
  BY DEF Steps, Endpoints, Retry
<1>2. s \in Seq(StepNames) /\ Len(s) = 3
  BY DEF StepNames
<1>3. s[1] = "forget" /\ s[2] = "run" /\ s[3] = "status"
  OBVIOUS
<1> HIDE DEF s
<1>4. QED
  BY <1>1, <1>2, <1>3

LEMMA AmendSteps ==
  /\ Len(Steps("amend")) = 4 /\ Steps("amend") \in Seq(StepNames)
  /\ Steps("amend")[1] = "run" /\ Steps("amend")[2] = "status"
  /\ Steps("amend")[3] = "forget" /\ Steps("amend")[4] = "speak"
<1> DEFINE s == <<"run", "status", "forget", "speak">>
<1>1. Steps("amend") = s
  BY DEF Steps, Endpoints, AmendOne
<1>2. s \in Seq(StepNames) /\ Len(s) = 4
  BY DEF StepNames
<1>3. s[1] = "run" /\ s[2] = "status" /\ s[3] = "forget" /\ s[4] = "speak"
  OBVIOUS
<1> HIDE DEF s
<1>4. QED
  BY <1>1, <1>2, <1>3

LEMMA StopSteps ==
  /\ Len(Steps("stop")) = 4 /\ Steps("stop") \in Seq(StepNames)
  /\ Steps("stop")[1] = "cancel" /\ Steps("stop")[2] = "decide"
  /\ Steps("stop")[3] = "keep" /\ Steps("stop")[4] = "speak"
<1> DEFINE s == <<"cancel", "decide", "keep", "speak">>
<1>1. Steps("stop") = s
  BY DEF Steps, Endpoints, Stop
<1>2. s \in Seq(StepNames) /\ Len(s) = 4
  BY DEF StepNames
<1>3. s[1] = "cancel" /\ s[2] = "decide" /\ s[3] = "keep" /\ s[4] = "speak"
  OBVIOUS
<1> HIDE DEF s
<1>4. QED
  BY <1>1, <1>2, <1>3

LEMMA UnpaidSteps ==
  /\ Len(Steps("unpaid")) = 4 /\ Steps("unpaid") \in Seq(StepNames)
  /\ Steps("unpaid")[1] = "reject" /\ Steps("unpaid")[2] = "decide"
  /\ Steps("unpaid")[3] = "keep" /\ Steps("unpaid")[4] = "speak"
<1> DEFINE s == <<"reject", "decide", "keep", "speak">>
<1>1. Steps("unpaid") = s
  BY DEF Steps, Endpoints, StopUnpaid
<1>2. s \in Seq(StepNames) /\ Len(s) = 4
  BY DEF StepNames
<1>3. s[1] = "reject" /\ s[2] = "decide" /\ s[3] = "keep" /\ s[4] = "speak"
  OBVIOUS
<1> HIDE DEF s
<1>4. QED
  BY <1>1, <1>2, <1>3

LEMMA SaysAre ==
  ASSUME NEW r
  PROVE  LET c == PlannerSays(r) \o PolicySays(r) \o RunSays(r) IN
         /\ DOMAIN c = 1..9
         /\ c[1] = Asks("question", "hints" \in r.open) /\ c[2] = Asks(r.wf, r.wf \in Views)
         /\ c[3] = Asks("payment", "asked" \in r.open)
         /\ c[4] = Asks("viewing", "viewing" \in r.open)
         /\ c[5] = Asks("proposals", "proposals" \in r.open)
         /\ c[6] = Asks("conflict", "conflict" \in r.open)
         /\ c[7] = Asks("service", "service" \in r.open)
         /\ c[8] = Asks("success", r.wf = "SUCCESS") /\ c[9] = Asks("failed", TRUE)
<1> DEFINE d == <<Asks("question", "hints" \in r.open), Asks(r.wf, r.wf \in Views),
                 Asks("payment", "asked" \in r.open), Asks("viewing", "viewing" \in r.open),
                 Asks("proposals", "proposals" \in r.open), Asks("conflict", "conflict" \in r.open),
                 Asks("service", "service" \in r.open), Asks("success", r.wf = "SUCCESS"),
                 Asks("failed", TRUE)>>
<1>1. PlannerSays(r) \o PolicySays(r) \o RunSays(r) = d
  <2> DEFINE c1 == Asks("question", "hints" \in r.open)
             c2 == Asks(r.wf, r.wf \in Views)
             c3 == Asks("payment", "asked" \in r.open)
             c4 == Asks("viewing", "viewing" \in r.open)
             c5 == Asks("proposals", "proposals" \in r.open)
             c6 == Asks("conflict", "conflict" \in r.open)
             c7 == Asks("service", "service" \in r.open)
             c8 == Asks("success", r.wf = "SUCCESS")
             c9 == Asks("failed", TRUE)
  <2>1. /\ PlannerSays(r) = <<c1, c2>> /\ PolicySays(r) = <<c3, c4, c5, c6, c7>>
        /\ RunSays(r) = <<c8, c9>>
    BY DEF PlannerSays, PolicySays, RunSays
  <2>2. d = <<c1, c2, c3, c4, c5, c6, c7, c8, c9>>
    OBVIOUS
  <2> HIDE DEF d, c1, c2, c3, c4, c5, c6, c7, c8, c9
  <2>3. <<c1, c2>> \o <<c3, c4, c5, c6, c7>> \o <<c8, c9>> = <<c1, c2, c3, c4, c5, c6, c7, c8, c9>>
    BY Nine
  <2>4. QED
    BY <2>1, <2>2, <2>3, Zenon
<1>2. QED
  BY <1>1


LEMMA ResponseIs ==
  ASSUME NEW r
  PROVE  \/ "hints" \in r.open /\ ResponseOf(r) = "question"
         \/ "hints" \notin r.open /\ r.wf \in Views /\ ResponseOf(r) = r.wf
         \/ /\ "hints" \notin r.open /\ r.wf \notin Views
            /\ \/ "asked" \in r.open /\ ResponseOf(r) = "payment"
               \/ "viewing" \in r.open /\ ResponseOf(r) = "viewing"
               \/ "proposals" \in r.open /\ ResponseOf(r) = "proposals"
               \/ "conflict" \in r.open /\ ResponseOf(r) = "conflict"
               \/ "service" \in r.open /\ ResponseOf(r) = "service"
               \/ /\ r.open \cap Boundaries = {}
                  /\ ResponseOf(r) = IF r.wf = "SUCCESS" THEN "success" ELSE "failed"
<1> DEFINE c1 == Asks("question", "hints" \in r.open)
           c2 == Asks(r.wf, r.wf \in Views)
           c3 == Asks("payment", "asked" \in r.open)
           c4 == Asks("viewing", "viewing" \in r.open)
           c5 == Asks("proposals", "proposals" \in r.open)
           c6 == Asks("conflict", "conflict" \in r.open)
           c7 == Asks("service", "service" \in r.open)
           c8 == Asks("success", r.wf = "SUCCESS")
           c9 == Asks("failed", TRUE)
<1>1. PICK c : c = PlannerSays(r) \o PolicySays(r) \o RunSays(r)
  OBVIOUS
<1>2. /\ DOMAIN c = 1..9
      /\ c[1] = c1 /\ c[2] = c2 /\ c[3] = c3 /\ c[4] = c4 /\ c[5] = c5 /\ c[6] = c6
      /\ c[7] = c7 /\ c[8] = c8 /\ c[9] = c9
  BY <1>1, SaysAre, Zenon
<1>3. /\ c1.view = "question" /\ c2.view = r.wf /\ c3.view = "payment"
      /\ c4.view = "viewing" /\ c5.view = "proposals" /\ c6.view = "conflict"
      /\ c7.view = "service" /\ c8.view = "success" /\ c9.view = "failed"
  BY DEF Asks
<1>4. /\ c1.holds <=> "hints" \in r.open
      /\ c2.holds <=> r.wf \in Views
      /\ c3.holds <=> "asked" \in r.open
      /\ c4.holds <=> "viewing" \in r.open
      /\ c5.holds <=> "proposals" \in r.open
      /\ c6.holds <=> "conflict" \in r.open
      /\ c7.holds <=> "service" \in r.open
      /\ c8.holds <=> r.wf = "SUCCESS"
      /\ c9.holds
  BY DEF Asks
<1> HIDE DEF c1, c2, c3, c4, c5, c6, c7, c8, c9
<1>5. ResponseOf(r) = FirstOf(c)
  BY <1>1 DEF ResponseOf
<1>6. PICK i \in 1..9 : /\ c[i].holds /\ \A m \in 1..(i - 1) : ~c[m].holds
                        /\ FirstOf(c) = c[i].view
  <2>1. 9 \in Nat /\ 9 \in 1..9 /\ DOMAIN c = 1..9
    BY <1>2
  <2>2. QED
    BY <1>2, <1>4, <2>1, FirstOfIs
<1>7. \A m \in 1..9 : m < i => ~c[m].holds
  BY <1>6
<1>8. CASE i <= 2
  BY <1>2, <1>3, <1>4, <1>5, <1>6, <1>7, <1>8
<1>9. CASE i > 2
  <2>1. "hints" \notin r.open /\ r.wf \notin Views
    BY <1>2, <1>4, <1>7, <1>9
  <2>2. CASE i \in 3..7
    BY <1>2, <1>3, <1>4, <1>5, <1>6, <2>1, <2>2
  <2>3. CASE i \in 8..9
    <3>1. r.open \cap Boundaries = {}
      BY <1>2, <1>4, <1>7, <2>1, <2>3 DEF Boundaries
    <3>2. FirstOf(c) = IF r.wf = "SUCCESS" THEN "success" ELSE "failed"
      BY <1>2, <1>3, <1>4, <1>6, <1>7, <2>3
    <3>3. QED
      BY <1>5, <2>1, <3>1, <3>2
  <2>4. QED
    BY <1>9, <2>2, <2>3
<1>10. QED
  BY <1>8, <1>9

LEMMA Joined ==
  ASSUME NEW S, NEW s \in Seq(S), NEW t \in Seq(S)
  PROVE  /\ s \o t \in Seq(S) /\ Len(s \o t) = Len(s) + Len(t)
         /\ \A i \in 1..Len(s) : (s \o t)[i] = s[i]
         /\ \A i \in 1..Len(t) : (s \o t)[Len(s) + i] = t[i]
<1>1. /\ s \o t \in Seq(S) /\ Len(s \o t) = Len(s) + Len(t)
      /\ \A i \in 1..Len(s) + Len(t) : (s \o t)[i] = IF i <= Len(s) THEN s[i] ELSE t[i - Len(s)]
  BY ConcatProperties, Zenon
<1>2. Len(s) \in Nat /\ Len(t) \in Nat
  BY LenProperties
<1>3. \A i \in 1..Len(s) : (s \o t)[i] = s[i]
  BY <1>1, <1>2
<1>4. \A i \in 1..Len(t) : (s \o t)[Len(s) + i] = t[i]
  BY <1>1, <1>2
<1>5. QED
  BY <1>1, <1>3, <1>4

\* What the polling endpoint shows: what waits, else the kept response, else the rows.
LEMMA ShownOf ==
  \/ Shown = "viewing" /\ "viewing" \in open
  \/ Shown = "conflict" /\ "conflict" \in open
  \/ Shown = "payment" /\ open \cap {"asked", "session"} # {}
  \/ Shown = "proposals" /\ "proposals" \in open
  \/ Shown = "rejection" /\ "rejection" \in open
  \/ Shown = "service" /\ open \cap {"viewing", "service"} # {}
  \/ Shown = job /\ job # "none"
  \/ Shown = "question" /\ "hints" \in open
  \/ Shown = "clarification" /\ "clarification" \in open
  \/ Shown = Plain
<1> DEFINE c1 == Asks("viewing", Visits)
           c2 == Asks("conflict", InConflict)
           c3 == Asks("payment", ToPay)
           c4 == Asks("proposals", ToChoose)
           c5 == Asks("rejection", Refused)
           c6 == Asks("service", InQueue)
           c7 == Asks("memory", job # "none")
           c8 == Asks("question", Repairing /\ wf \in {"FAILED", "CANCELLED", "WAITING_APPROVAL"})
           c9 == Asks("clarification", ToAnswer)
           c10 == Asks(Plain, TRUE)
           S == {c1, c2, c3, c4, c5, c6, c7, c8, c9, c10}
<1>1. /\ c1.view = "viewing" /\ c2.view = "conflict" /\ c3.view = "payment"
      /\ c4.view = "proposals" /\ c5.view = "rejection" /\ c6.view = "service"
      /\ c7.view = "memory" /\ c8.view = "question" /\ c9.view = "clarification"
      /\ c10.view = Plain
  BY DEF Asks
<1>2. /\ c1.holds => "viewing" \in open
      /\ c2.holds => "conflict" \in open
      /\ c3.holds => open \cap {"asked", "session"} # {}
      /\ c4.holds => "proposals" \in open
      /\ c5.holds => "rejection" \in open
      /\ c6.holds => open \cap {"viewing", "service"} # {}
      /\ c7.holds => job # "none"
      /\ c8.holds => "hints" \in open
      /\ c9.holds => "clarification" \in open
      /\ c10.holds
  BY DEF Asks, Visits, InConflict, ToPay, ToChoose, Refused, InQueue, Repairing, ToAnswer
<1>3. /\ ShownFirst = <<c1, c2>> /\ ShownAwaiting = <<c3, c4, c5, c6>>
      /\ ShownKept = <<c7, c8>> /\ ShownRest = <<c9, c10>>
  BY DEF ShownFirst, ShownAwaiting, ShownKept, ShownRest
<1>4. /\ ShownFirst \in Seq(S) /\ Len(ShownFirst) = 2
      /\ ShownAwaiting \in Seq(S) /\ Len(ShownAwaiting) = 4
      /\ ShownKept \in Seq(S) /\ Len(ShownKept) = 2
      /\ ShownRest \in Seq(S) /\ Len(ShownRest) = 2
      /\ ShownFirst[1] = c1 /\ ShownFirst[2] = c2
      /\ ShownAwaiting[1] = c3 /\ ShownAwaiting[2] = c4 /\ ShownAwaiting[3] = c5
      /\ ShownAwaiting[4] = c6
      /\ ShownKept[1] = c7 /\ ShownKept[2] = c8 /\ ShownRest[1] = c9 /\ ShownRest[2] = c10
  <2> HIDE DEF c1, c2, c3, c4, c5, c6, c7, c8, c9, c10
  <2>1. QED
    BY <1>3
<1> HIDE DEF c1, c2, c3, c4, c5, c6, c7, c8, c9, c10, S
<1>5. PICK x : x = ShownFirst \o ShownAwaiting
  OBVIOUS
<1>6. /\ x \in Seq(S) /\ Len(x) = 6
      /\ \A i \in 1..2 : x[i] = ShownFirst[i]
      /\ \A i \in 1..4 : x[2 + i] = ShownAwaiting[i]
  <2>1. ShownFirst \in Seq(S) /\ ShownAwaiting \in Seq(S)
    BY <1>4, <1>5
  <2>2. /\ ShownFirst \o ShownAwaiting \in Seq(S) /\ Len(ShownFirst \o ShownAwaiting) = Len(ShownFirst) + Len(ShownAwaiting)
        /\ \A i \in 1..Len(ShownFirst) : (ShownFirst \o ShownAwaiting)[i] = ShownFirst[i]
        /\ \A i \in 1..Len(ShownAwaiting) : (ShownFirst \o ShownAwaiting)[Len(ShownFirst) + i] = ShownAwaiting[i]
    BY <2>1, Joined
  <2>3. QED
    BY <1>4, <1>5, <2>2
<1>7. PICK y : y = x \o ShownKept
  OBVIOUS
<1>8. /\ y \in Seq(S) /\ Len(y) = 8
      /\ \A i \in 1..6 : y[i] = x[i]
      /\ \A i \in 1..2 : y[6 + i] = ShownKept[i]
  <2>1. x \in Seq(S) /\ ShownKept \in Seq(S)
    BY <1>4, <1>6
  <2>2. /\ x \o ShownKept \in Seq(S) /\ Len(x \o ShownKept) = Len(x) + Len(ShownKept)
        /\ \A i \in 1..Len(x) : (x \o ShownKept)[i] = x[i]
        /\ \A i \in 1..Len(ShownKept) : (x \o ShownKept)[Len(x) + i] = ShownKept[i]
    BY <2>1, Joined
  <2>3. QED
    BY <1>4, <1>6, <1>7, <2>2
<1>9. PICK z : z = y \o ShownRest
  OBVIOUS
<1>10. /\ z \in Seq(S) /\ Len(z) = 10
       /\ \A i \in 1..8 : z[i] = y[i]
       /\ \A i \in 1..2 : z[8 + i] = ShownRest[i]
  <2>1. y \in Seq(S) /\ ShownRest \in Seq(S)
    BY <1>4, <1>8
  <2>2. /\ y \o ShownRest \in Seq(S) /\ Len(y \o ShownRest) = Len(y) + Len(ShownRest)
        /\ \A i \in 1..Len(y) : (y \o ShownRest)[i] = y[i]
        /\ \A i \in 1..Len(ShownRest) : (y \o ShownRest)[Len(y) + i] = ShownRest[i]
    BY <2>1, Joined
  <2>3. QED
    <3>1. z \in Seq(S) /\ Len(z) = 10
      BY <1>4, <1>8, <1>9, <2>2
    <3>2. \A i \in 1..8 : z[i] = y[i]
      BY <1>8, <1>9, <2>2
    <3>3. \A i \in 1..2 : z[8 + i] = ShownRest[i]
      BY <1>4, <1>8, <1>9, <2>2
    <3>4. QED
      BY <3>1, <3>2, <3>3
<1>11. /\ z[1] = c1 /\ z[2] = c2 /\ z[3] = c3 /\ z[4] = c4 /\ z[5] = c5 /\ z[6] = c6
       /\ z[7] = c7 /\ z[8] = c8 /\ z[9] = c9 /\ z[10] = c10
  BY <1>4, <1>6, <1>8, <1>10
<1>12. DOMAIN z = 1..10
  BY <1>10, LenProperties
<1>13. PICK i \in 1..10 : z[i].holds /\ FirstOf(z) = z[i].view
  <2>1. 10 \in Nat /\ 10 \in 1..10 /\ z[10].holds
    <3>1. 10 \in Nat /\ 10 \in 1..10
      OBVIOUS
    <3>2. QED
      BY <1>2, <1>11, <3>1, Zenon
  <2>2. QED
    <3>1. PICK n \in Nat : n = 10
      OBVIOUS
    <3>2. n \in 1..n /\ DOMAIN z = 1..n /\ z[n].holds
      BY <1>12, <2>1, <3>1
    <3>3. \E i \in 1..n : z[i].holds /\ FirstOf(z) = z[i].view
      BY <3>2, FirstOfIs
    <3>4. QED
      BY <3>1, <3>3
<1>14. Shown = IF FirstOf(z) = "memory" THEN job ELSE FirstOf(z)
  BY <1>5, <1>7, <1>9 DEF Shown
<1>15. Plain # "memory"
  BY DEF Plain
<1>16. CASE i \in 1..6
  BY <1>1, <1>2, <1>11, <1>13, <1>14, <1>16
<1>17. CASE i \in 7..10
  BY <1>1, <1>2, <1>11, <1>13, <1>14, <1>15, <1>17
<1>18. QED
  BY <1>16, <1>17

LEMMA ColdIs == Cold \in Views \ {"chat"}
<1> DEFINE c1 == Asks("conflict", InConflict)
           c2 == Asks("payment", ToPay)
           c3 == Asks("proposals", ToChoose)
           c4 == Asks("rejection", Refused)
           c5 == Asks("service", InQueue)
           c6 == Asks(Plain, TRUE)
           S == {c1, c2, c3, c4, c5, c6}
<1>1. Plain \in Views \ {"chat"}
  BY DEF Plain, Views
<1>2. /\ c1.view = "conflict" /\ c2.view = "payment" /\ c3.view = "proposals"
      /\ c4.view = "rejection" /\ c5.view = "service" /\ c6.view = Plain /\ c6.holds
  BY DEF Asks
<1>3. ColdFirst = <<c1>> /\ ColdRest = <<c2, c3, c4, c5, c6>>
  BY DEF ColdFirst, ColdRest
<1> HIDE DEF c1, c2, c3, c4, c5, c6
<1>4. /\ ColdFirst \in Seq(S) /\ Len(ColdFirst) = 1 /\ ColdFirst[1] = c1
      /\ ColdRest \in Seq(S) /\ Len(ColdRest) = 5
      /\ ColdRest[1] = c2 /\ ColdRest[2] = c3 /\ ColdRest[3] = c4 /\ ColdRest[4] = c5
      /\ ColdRest[5] = c6
  BY <1>3
<1> HIDE DEF S
<1>5. PICK x : x = ColdFirst \o ColdRest
  OBVIOUS
<1>6. /\ x \in Seq(S) /\ Len(x) = 6
      /\ \A i \in 1..1 : x[i] = ColdFirst[i]
      /\ \A i \in 1..5 : x[1 + i] = ColdRest[i]
  <2>1. ColdFirst \in Seq(S) /\ ColdRest \in Seq(S)
    BY <1>4, <1>5
  <2>2. /\ ColdFirst \o ColdRest \in Seq(S) /\ Len(ColdFirst \o ColdRest) = Len(ColdFirst) + Len(ColdRest)
        /\ \A i \in 1..Len(ColdFirst) : (ColdFirst \o ColdRest)[i] = ColdFirst[i]
        /\ \A i \in 1..Len(ColdRest) : (ColdFirst \o ColdRest)[Len(ColdFirst) + i] = ColdRest[i]
    BY <2>1, Joined
  <2>3. QED
    BY <1>4, <1>5, <2>2
<1>7. /\ x[1] = c1 /\ x[2] = c2 /\ x[3] = c3 /\ x[4] = c4 /\ x[5] = c5 /\ x[6] = c6
  BY <1>4, <1>6
<1>8. DOMAIN x = 1..6
  BY <1>6, LenProperties
<1>9. PICK i \in 1..6 : FirstOf(x) = x[i].view
  <2>1. 6 \in Nat /\ 6 \in 1..6 /\ x[6].holds
    BY <1>2, <1>7
  <2>2. QED
    BY <1>8, <2>1, FirstOfIs
<1>10. x[i].view \in Views \ {"chat"}
  BY <1>1, <1>2, <1>7 DEF Views
<1>11. QED
  BY <1>5, <1>9, <1>10 DEF Cold

LEMMA Long ==
  ASSUME NEW k \in Kinds
  PROVE  Steps(k) \in Seq(StepNames) /\ Len(Steps(k)) \in 2..6
<1>1. CASE k = "service"
  BY <1>1, ServiceSteps
<1>2. CASE k = "viewing"
  BY <1>2, ViewingSteps
<1>3. CASE k = "pay"
  BY <1>3, PaySteps
<1>4. CASE k = "session"
  BY <1>4, SessionSteps
<1>5. CASE k = "refuse"
  BY <1>5, RefuseSteps
<1>6. CASE k = "gateway"
  BY <1>6, GatewaySteps
<1>7. CASE k = "confirm"
  BY <1>7, ConfirmSteps
<1>8. CASE k = "another"
  BY <1>8, AnotherSteps
<1>9. CASE k = "conflict"
  BY <1>9, ConflictSteps
<1>10. CASE k = "answer"
  BY <1>10, AnswerSteps
<1>11. CASE k = "retry"
  BY <1>11, RetrySteps
<1>12. CASE k = "amend"
  BY <1>12, AmendSteps
<1>13. CASE k = "stop"
  BY <1>13, StopSteps
<1>14. CASE k = "unpaid"
  BY <1>14, UnpaidSteps
<1>15. QED
  BY <1>1, <1>2, <1>3, <1>4, <1>5, <1>6, <1>7, <1>8, <1>9, <1>10, <1>11, <1>12, <1>13, <1>14, KindsAre

Moving == {"decide", "run", "status", "succeed", "cancel", "reject"}

LEMMA Settling ==
  ASSUME NEW k \in Kinds, NEW p \in 1..Len(Steps(k)), Steps(k)[p] \in Moving, k # "gateway"
  PROVE  \/ Did(k, p, "forget") /\ ~Did(k, p, "keep")
         \/ p < Len(Steps(k)) /\ Owes(k, p + 1)
<1>1. CASE k = "service"
  <2>1. CASE p = 1
    <3>1. 2 \in 2..Len(Steps(k)) /\ Steps(k)[2] \in {"forget", "keep"} /\ p + 1 = 2
      BY <1>1, <2>1, ServiceSteps
    <3>2. \A j \in 2..2 : Steps(k)[j] \notin Bars(k)
      BY <1>1, ServiceSteps DEF Bars, Stops
    <3>3. QED
      BY <1>1, <2>1, <3>1, <3>2, ServiceSteps DEF Owes
  <2>2. CASE p = 3
    BY <1>1, <2>2, ServiceSteps DEF Did
  <2>3. CASE p = 4
    BY <1>1, <2>3, ServiceSteps DEF Did
  <2>4. p = 1 \/ p = 2 \/ p = 3 \/ p = 4 \/ p = 5 \/ p = 6
    BY <1>1, ServiceSteps
  <2>5. p # 2 /\ p # 5 /\ p # 6
    BY <1>1, ServiceSteps DEF Moving
  <2>6. QED
    BY <2>1, <2>2, <2>3, <2>4, <2>5
<1>2. CASE k = "viewing"
  <2>1. CASE p = 2
    BY <1>2, <2>1, ViewingSteps DEF Did
  <2>2. CASE p = 3
    BY <1>2, <2>2, ViewingSteps DEF Did
  <2>3. CASE p = 4
    BY <1>2, <2>3, ViewingSteps DEF Did
  <2>4. p = 1 \/ p = 2 \/ p = 3 \/ p = 4 \/ p = 5
    BY <1>2, ViewingSteps
  <2>5. p # 1 /\ p # 5
    BY <1>2, ViewingSteps DEF Moving
  <2>6. QED
    BY <2>1, <2>2, <2>3, <2>4, <2>5
<1>3. CASE k = "pay"
  <2>1. CASE p = 2
    BY <1>3, <2>1, PaySteps DEF Did
  <2>2. CASE p = 3
    BY <1>3, <2>2, PaySteps DEF Did
  <2>3. p = 1 \/ p = 2 \/ p = 3 \/ p = 4 \/ p = 5
    BY <1>3, PaySteps
  <2>4. p # 1 /\ p # 4 /\ p # 5
    BY <1>3, PaySteps DEF Moving
  <2>5. QED
    BY <2>1, <2>2, <2>3, <2>4
<1>4. CASE k = "session"
  <2>1. CASE p = 2
    BY <1>4, <2>1, SessionSteps DEF Did
  <2>2. p = 1 \/ p = 2 \/ p = 3
    BY <1>4, SessionSteps
  <2>3. p # 1 /\ p # 3
    BY <1>4, SessionSteps DEF Moving
  <2>4. QED
    BY <2>1, <2>2, <2>3
<1>5. CASE k = "refuse"
  <2>1. CASE p = 2
    BY <1>5, <2>1, RefuseSteps DEF Did
  <2>2. p = 1 \/ p = 2
    BY <1>5, RefuseSteps
  <2>3. p # 1
    BY <1>5, RefuseSteps DEF Moving
  <2>4. QED
    BY <2>1, <2>2, <2>3
<1>6. CASE k = "confirm"
  <2>1. CASE p = 1
    <3>1. 2 \in 2..Len(Steps(k)) /\ Steps(k)[2] \in {"forget", "keep"} /\ p + 1 = 2
      BY <1>6, <2>1, ConfirmSteps
    <3>2. \A j \in 2..2 : Steps(k)[j] \notin Bars(k)
      BY <1>6, ConfirmSteps DEF Bars, Stops
    <3>3. QED
      BY <1>6, <2>1, <3>1, <3>2, ConfirmSteps DEF Owes
  <2>2. p = 1 \/ p = 2 \/ p = 3
    BY <1>6, ConfirmSteps
  <2>3. p # 2 /\ p # 3
    BY <1>6, ConfirmSteps DEF Moving
  <2>4. QED
    BY <2>1, <2>2, <2>3
<1>7. CASE k = "another"
  <2>1. CASE p = 1
    <3>1. 2 \in 2..Len(Steps(k)) /\ Steps(k)[2] \in {"forget", "keep"} /\ p + 1 = 2
      BY <1>7, <2>1, AnotherSteps
    <3>2. \A j \in 2..2 : Steps(k)[j] \notin Bars(k)
      BY <1>7, AnotherSteps DEF Bars, Stops
    <3>3. QED
      BY <1>7, <2>1, <3>1, <3>2, AnotherSteps DEF Owes
  <2>2. p = 1 \/ p = 2 \/ p = 3
    BY <1>7, AnotherSteps
  <2>3. p # 2 /\ p # 3
    BY <1>7, AnotherSteps DEF Moving
  <2>4. QED
    BY <2>1, <2>2, <2>3
<1>8. CASE k = "conflict"
  <2>1. CASE p = 2
    BY <1>8, <2>1, ConflictSteps DEF Did
  <2>2. CASE p = 3
    BY <1>8, <2>2, ConflictSteps DEF Did
  <2>3. CASE p = 4
    BY <1>8, <2>3, ConflictSteps DEF Did
  <2>4. p = 1 \/ p = 2 \/ p = 3 \/ p = 4
    BY <1>8, ConflictSteps
  <2>5. p # 1
    BY <1>8, ConflictSteps DEF Moving
  <2>6. QED
    BY <2>1, <2>2, <2>3, <2>4, <2>5
<1>9. CASE k = "answer"
  <2>1. CASE p = 1
    <3>1. 3 \in 2..Len(Steps(k)) /\ Steps(k)[3] \in {"forget", "keep"} /\ p + 1 = 2
      BY <1>9, <2>1, AnswerSteps
    <3>2. \A j \in 2..3 : Steps(k)[j] \notin Bars(k)
      BY <1>9, AnswerSteps DEF Bars, Stops
    <3>3. QED
      BY <1>9, <2>1, <3>1, <3>2, AnswerSteps DEF Owes
  <2>2. CASE p = 2
    <3>1. 3 \in 2..Len(Steps(k)) /\ Steps(k)[3] \in {"forget", "keep"} /\ p + 1 = 3
      BY <1>9, <2>2, AnswerSteps
    <3>2. \A j \in 3..3 : Steps(k)[j] \notin Bars(k)
      BY <1>9, AnswerSteps DEF Bars, Stops
    <3>3. QED
      BY <1>9, <2>2, <3>1, <3>2, AnswerSteps DEF Owes
  <2>3. CASE p = 4
    BY <1>9, <2>3, AnswerSteps DEF Did
  <2>4. p = 1 \/ p = 2 \/ p = 3 \/ p = 4 \/ p = 5
    BY <1>9, AnswerSteps
  <2>5. p # 3 /\ p # 5
    BY <1>9, AnswerSteps DEF Moving
  <2>6. QED
    BY <2>1, <2>2, <2>3, <2>4, <2>5
<1>10. CASE k = "retry"
  <2>1. CASE p = 2
    BY <1>10, <2>1, RetrySteps DEF Did
  <2>2. CASE p = 3
    BY <1>10, <2>2, RetrySteps DEF Did
  <2>3. p = 1 \/ p = 2 \/ p = 3
    BY <1>10, RetrySteps
  <2>4. p # 1
    BY <1>10, RetrySteps DEF Moving
  <2>5. QED
    BY <2>1, <2>2, <2>3, <2>4
<1>11. CASE k = "amend"
  <2>1. CASE p = 1
    <3>1. 3 \in 2..Len(Steps(k)) /\ Steps(k)[3] \in {"forget", "keep"} /\ p + 1 = 2
      BY <1>11, <2>1, AmendSteps
    <3>2. \A j \in 2..3 : Steps(k)[j] \notin Bars(k)
      BY <1>11, AmendSteps DEF Bars, Stops
    <3>3. QED
      BY <1>11, <2>1, <3>1, <3>2, AmendSteps DEF Owes
  <2>2. CASE p = 2
    <3>1. 3 \in 2..Len(Steps(k)) /\ Steps(k)[3] \in {"forget", "keep"} /\ p + 1 = 3
      BY <1>11, <2>2, AmendSteps
    <3>2. \A j \in 3..3 : Steps(k)[j] \notin Bars(k)
      BY <1>11, AmendSteps DEF Bars, Stops
    <3>3. QED
      BY <1>11, <2>2, <3>1, <3>2, AmendSteps DEF Owes
  <2>3. p = 1 \/ p = 2 \/ p = 3 \/ p = 4
    BY <1>11, AmendSteps
  <2>4. p # 3 /\ p # 4
    BY <1>11, AmendSteps DEF Moving
  <2>5. QED
    BY <2>1, <2>2, <2>3, <2>4
<1>12. CASE k = "stop"
  <2>1. CASE p = 1
    <3>1. 3 \in 2..Len(Steps(k)) /\ Steps(k)[3] \in {"forget", "keep"} /\ p + 1 = 2
      BY <1>12, <2>1, StopSteps
    <3>2. \A j \in 2..3 : Steps(k)[j] \notin Bars(k)
      BY <1>12, StopSteps DEF Bars, Stops
    <3>3. QED
      BY <1>12, <2>1, <3>1, <3>2, StopSteps DEF Owes
  <2>2. CASE p = 2
    <3>1. 3 \in 2..Len(Steps(k)) /\ Steps(k)[3] \in {"forget", "keep"} /\ p + 1 = 3
      BY <1>12, <2>2, StopSteps
    <3>2. \A j \in 3..3 : Steps(k)[j] \notin Bars(k)
      BY <1>12, StopSteps DEF Bars, Stops
    <3>3. QED
      BY <1>12, <2>2, <3>1, <3>2, StopSteps DEF Owes
  <2>3. p = 1 \/ p = 2 \/ p = 3 \/ p = 4
    BY <1>12, StopSteps
  <2>4. p # 3 /\ p # 4
    BY <1>12, StopSteps DEF Moving
  <2>5. QED
    BY <2>1, <2>2, <2>3, <2>4
<1>13. CASE k = "unpaid"
  <2>1. CASE p = 1
    <3>1. 3 \in 2..Len(Steps(k)) /\ Steps(k)[3] \in {"forget", "keep"} /\ p + 1 = 2
      BY <1>13, <2>1, UnpaidSteps
    <3>2. \A j \in 2..3 : Steps(k)[j] \notin Bars(k)
      BY <1>13, UnpaidSteps DEF Bars, Stops
    <3>3. QED
      BY <1>13, <2>1, <3>1, <3>2, UnpaidSteps DEF Owes
  <2>2. CASE p = 2
    <3>1. 3 \in 2..Len(Steps(k)) /\ Steps(k)[3] \in {"forget", "keep"} /\ p + 1 = 3
      BY <1>13, <2>2, UnpaidSteps
    <3>2. \A j \in 3..3 : Steps(k)[j] \notin Bars(k)
      BY <1>13, UnpaidSteps DEF Bars, Stops
    <3>3. QED
      BY <1>13, <2>2, <3>1, <3>2, UnpaidSteps DEF Owes
  <2>3. p = 1 \/ p = 2 \/ p = 3 \/ p = 4
    BY <1>13, UnpaidSteps
  <2>4. p # 3 /\ p # 4
    BY <1>13, UnpaidSteps DEF Moving
  <2>5. QED
    BY <2>1, <2>2, <2>3, <2>4
<1>14. QED
  BY <1>1, <1>2, <1>3, <1>4, <1>5, <1>6, <1>7, <1>8, <1>9, <1>10, <1>11, <1>12, <1>13, KindsAre

LEMMA OwesOn ==
  ASSUME NEW k \in Kinds, NEW p \in 1..Len(Steps(k)), Owes(k, p)
  PROVE  /\ Steps(k)[p] \notin Bars(k)
         /\ Steps(k)[p] \notin {"forget", "keep"} => p < Len(Steps(k)) /\ Owes(k, p + 1)
<1>1. PICK i \in p..Len(Steps(k)) : /\ Steps(k)[i] \in {"forget", "keep"}
                                   /\ \A j \in p..i : Steps(k)[j] \notin Bars(k)
  BY DEF Owes
<1>2. Len(Steps(k)) \in Nat
  BY Long
<1>3. Steps(k)[p] \notin Bars(k)
  BY <1>1, <1>2
<1>4. ASSUME Steps(k)[p] \notin {"forget", "keep"}
      PROVE  p < Len(Steps(k)) /\ Owes(k, p + 1)
  <2>1. p < i /\ i \in (p + 1)..Len(Steps(k))
    BY <1>1, <1>2, <1>4
  <2>2. \A j \in (p + 1)..i : j \in p..i
    BY <1>2, <2>1
  <2>3. QED
    BY <1>1, <1>2, <2>1, <2>2 DEF Owes
<1>5. QED
  BY <1>3, <1>4

-------------------------------------------------------------------------------
(* The view and the sentence: one step of a request *)

Onward(a, s) ==
  /\ Going(a) /\ Steps(Kind(a))[Place(a)] = s
  /\ asking' \in [Asking -> Asker]
  /\ \A b \in Asking \ {a} : asking'[b] = asking[b]
  /\ \/ asking'[a].at = "over"
     \/ /\ Place(a) < Len(Steps(Kind(a)))
        /\ asking'[a].at = "go" /\ asking'[a].kind = Kind(a)
        /\ asking'[a].left = SubSeq(Steps(Kind(a)), Place(a) + 1, Len(Steps(Kind(a))))

LEMMA PlaceIs ==
  ASSUME ViewTyped, Course, NEW a \in Asking, Going(a)
  PROVE  /\ Kind(a) \in Kinds /\ Place(a) \in 1..Len(Steps(Kind(a)))
         /\ asking[a].left = SubSeq(Steps(Kind(a)), Place(a), Len(Steps(Kind(a))))
         /\ Head(asking[a].left) = Steps(Kind(a))[Place(a)]
         /\ Place(a) < Len(Steps(Kind(a)))
              => /\ Tail(asking[a].left)
                      = SubSeq(Steps(Kind(a)), Place(a) + 1, Len(Steps(Kind(a))))
                 /\ Tail(asking[a].left) # <<>> /\ Tail(asking[a].left) \in Seq(StepNames)
         /\ Place(a) = Len(Steps(Kind(a))) => Tail(asking[a].left) = <<>>
<1> DEFINE k == Kind(a)
           l == asking[a].left
<1>1. asking[a] \in Asker
  BY DEF ViewTyped
<1>2. k \in Kinds
  BY <1>1 DEF Asker, Kind
<1> DEFINE s == Steps(k)
<1>3. s \in Seq(StepNames) /\ Len(s) \in 2..6
  BY <1>2, Long
<1>4. PICK p \in 1..Len(s) : l = SubSeq(s, p, Len(s))
  BY DEF Course
<1> HIDE DEF s, l
<1>5. /\ l \in Seq(StepNames) /\ Len(l) = Len(s) - p + 1 /\ l # <<>>
      /\ Head(l) = s[p] /\ Tail(l) \in Seq(StepNames)
      /\ p < Len(s) => Tail(l) = SubSeq(s, p + 1, Len(s)) /\ Tail(l) # <<>>
      /\ p = Len(s) => Tail(l) = <<>>
  BY <1>3, <1>4, Suffix
<1>6. Place(a) = Len(s) - Len(l) + 1
  BY DEF Place, s, l
<1>7. Place(a) = p
  BY <1>3, <1>5, <1>6
<1>8. QED
  BY <1>2, <1>4, <1>5, <1>7 DEF s, l

LEMMA OverIs ==
  /\ Waits \in Asker /\ Waits.at = "idle"
  /\ [Waits EXCEPT !.at = "over"] \in Asker /\ [Waits EXCEPT !.at = "over"].at = "over"
<1>1. <<>> \in Seq(StepNames)
  BY EmptySeq
<1>2. "stop" \in Kinds /\ NoRest \in [wf : Statuses \cup {"none"}, open : SUBSET Items]
  BY KindsAre DEF NoRest
<1>3. Waits \in Asker /\ Waits.at = "idle"
  BY <1>1, <1>2 DEF Waits, Asker
<1>4. QED
  BY <1>3 DEF Asker

LEMMA NextIs ==
  ASSUME ViewTyped, Course, NEW a \in Asking, NEW s, At(a, s)
  PROVE  /\ Going(a) /\ Steps(Kind(a))[Place(a)] = s
         /\ Next1(a) \in Asker
         /\ Place(a) = Len(Steps(Kind(a))) => Next1(a).at = "over"
         /\ Place(a) < Len(Steps(Kind(a)))
              => /\ Next1(a).at = "go" /\ Next1(a).kind = Kind(a)
                 /\ Next1(a).left = SubSeq(Steps(Kind(a)), Place(a) + 1, Len(Steps(Kind(a))))
                 /\ Next1(a).rest = asking[a].rest
<1>1. Going(a)
  BY DEF At, Going
<1>2. asking[a] \in Asker
  BY DEF ViewTyped
<1>3. Steps(Kind(a))[Place(a)] = s
  BY <1>1, PlaceIs DEF At
<1>4. Place(a) \in 1..Len(Steps(Kind(a))) /\ Len(Steps(Kind(a))) \in 2..6
  BY <1>1, PlaceIs, Long
<1>5. [Waits EXCEPT !.at = "over"] \in Asker /\ [Waits EXCEPT !.at = "over"].at = "over"
  BY OverIs
<1>6. CASE Place(a) = Len(Steps(Kind(a)))
  <2>1. Tail(asking[a].left) = <<>>
    BY <1>1, <1>6, PlaceIs
  <2>2. Next1(a) = [Waits EXCEPT !.at = "over"]
    BY <2>1 DEF Next1
  <2>3. QED
    BY <1>1, <1>3, <1>4, <1>5, <1>6, <2>2
<1>7. CASE Place(a) < Len(Steps(Kind(a)))
  <2> DEFINE t == Tail(asking[a].left)
  <2>1. /\ t = SubSeq(Steps(Kind(a)), Place(a) + 1, Len(Steps(Kind(a))))
        /\ t # <<>> /\ t \in Seq(StepNames)
    BY <1>1, <1>7, PlaceIs
  <2>2. Next1(a) = [asking[a] EXCEPT !.left = t]
    BY <2>1 DEF Next1
  <2> HIDE DEF t
  <2>3. /\ Next1(a) \in Asker /\ Next1(a).at = asking[a].at /\ Next1(a).kind = asking[a].kind
        /\ Next1(a).left = t /\ Next1(a).rest = asking[a].rest
    BY <1>2, <2>1, <2>2 DEF Asker
  <2>4. QED
    BY <1>1, <1>3, <1>4, <1>7, <2>1, <2>3 DEF Kind, Going
<1>8. QED
  BY <1>4, <1>6, <1>7

LEMMA StepIs ==
  ASSUME ViewTyped, Course, NEW a \in Asking, NEW s, At(a, s), Step(a)
  PROVE  /\ Onward(a, s)
         /\ Place(a) < Len(Steps(Kind(a)))
              => asking'[a].at = "go" /\ asking'[a].rest = asking[a].rest
<1>1. asking \in [Asking -> Asker]
  BY DEF ViewTyped
<1>2. Place(a) \in 1..Len(Steps(Kind(a))) /\ Len(Steps(Kind(a))) \in 2..6
  BY NextIs, PlaceIs, Long
<1>3. Next1(a) \in Asker
  BY NextIs
<1>4. /\ asking' \in [Asking -> Asker] /\ asking'[a] = Next1(a)
      /\ \A b \in Asking \ {a} : asking'[b] = asking[b]
  BY <1>1, <1>3 DEF Step
<1>5. QED
  BY <1>2, <1>4, NextIs DEF Onward

LEMMA RefuseIs ==
  ASSUME ViewTyped, Course, NEW a \in Asking, NEW s, At(a, s), Refuse(a)
  PROVE  Onward(a, s) /\ asking'[a].at = "over"
<1>1. asking \in [Asking -> Asker]
  BY DEF ViewTyped
<1>2. [Waits EXCEPT !.at = "over"] \in Asker /\ [Waits EXCEPT !.at = "over"].at = "over"
  BY OverIs
<1>3. /\ asking' \in [Asking -> Asker] /\ asking'[a].at = "over"
      /\ \A b \in Asking \ {a} : asking'[b] = asking[b]
  BY <1>1, <1>2 DEF Refuse
<1>4. QED
  BY <1>3, NextIs DEF Onward

\* The others stay where they are, and who goes on has done one step more.
LEMMA PlacesOf ==
  ASSUME ViewTyped, Course, NEW a \in Asking, NEW s, Onward(a, s)
  PROVE  /\ \A b \in Asking \ {a} :
              /\ Going(b)' <=> Going(b)
              /\ Kind(b)' = Kind(b) /\ Place(b)' = Place(b)
              /\ \A x \in StepNames : Past(b, x)' <=> Past(b, x)
         /\ \A x \in StepNames :
              /\ Past(a, x)' => Kind(a)' = Kind(a) /\ (Past(a, x) \/ x = s)
              /\ Going(a)' /\ Past(a, x) => Past(a, x)'
         /\ Going(a)' => /\ Kind(a)' = Kind(a) /\ Place(a)' = Place(a) + 1
                         /\ Past(a, s)'
                         /\ Place(a) < Len(Steps(Kind(a)))
<1>1. Going(a) /\ Steps(Kind(a))[Place(a)] = s
  BY DEF Onward
<1>2. Place(a) \in 1..Len(Steps(Kind(a))) /\ Len(Steps(Kind(a))) \in 2..6
      /\ Steps(Kind(a)) \in Seq(StepNames)
  BY <1>1, PlaceIs, Long
<1>3. ASSUME NEW b \in Asking \ {a}
      PROVE  /\ Going(b)' <=> Going(b)
             /\ Kind(b)' = Kind(b) /\ Place(b)' = Place(b)
             /\ \A x \in StepNames : Past(b, x)' <=> Past(b, x)
  <2>1. asking'[b] = asking[b]
    BY DEF Onward
  <2>2. (Going(b)' <=> Going(b)) /\ Kind(b)' = Kind(b)
    BY <2>1 DEF Going, Kind
  <2>3. Place(b)' = Place(b)
    BY <2>1, <2>2 DEF Place
  <2>4. QED
    BY <2>2, <2>3 DEF Past
<1>4. ASSUME Going(a)'
      PROVE  Kind(a)' = Kind(a) /\ Place(a)' = Place(a) + 1 /\ Place(a) < Len(Steps(Kind(a)))
  <2>1. /\ Place(a) < Len(Steps(Kind(a))) /\ asking'[a].kind = Kind(a)
        /\ asking'[a].left = SubSeq(Steps(Kind(a)), Place(a) + 1, Len(Steps(Kind(a))))
    BY <1>4 DEF Onward, Going
  <2>2. Kind(a)' = Kind(a)
    BY <2>1 DEF Kind
  <2> DEFINE q == Place(a) + 1
             l == asking'[a].left
             t == Steps(Kind(a))
  <2>3. q \in 1..Len(t) /\ t \in Seq(StepNames) /\ l = SubSeq(t, q, Len(t))
    BY <1>2, <2>1
  <2>4. Place(a)' = Len(t) - Len(l) + 1
    BY <2>2 DEF Place
  <2> HIDE DEF q, l, t
  <2>5. Len(l) = Len(t) - q + 1
    BY <2>3, Suffix
  <2>6. Len(t) \in 2..6
    BY <1>2 DEF t
  <2>7. Place(a)' = q
    BY <2>3, <2>4, <2>5, <2>6
  <2>8. QED
    BY <2>1, <2>2, <2>7 DEF q
<1>5. Going(a)' => Past(a, s)'
  BY <1>1, <1>2, <1>4 DEF Past, Did
<1>6. ASSUME NEW x \in StepNames
      PROVE  /\ Past(a, x)' => Kind(a)' = Kind(a) /\ (Past(a, x) \/ x = s)
             /\ Going(a)' /\ Past(a, x) => Past(a, x)'
  <2>1. ASSUME Past(a, x)' PROVE Kind(a)' = Kind(a) /\ (Past(a, x) \/ x = s)
    <3>1. Going(a)' /\ Kind(a)' = Kind(a) /\ Place(a)' = Place(a) + 1
      BY <1>4, <2>1 DEF Past
    <3>2. PICK i \in 1..Place(a) : Steps(Kind(a))[i] = x
      BY <1>2, <2>1, <3>1 DEF Past, Did
    <3>3. CASE i = Place(a)
      BY <1>1, <3>1, <3>2, <3>3
    <3>4. CASE i # Place(a)
      BY <1>1, <1>2, <3>1, <3>2, <3>4 DEF Past, Did
    <3>5. QED
      BY <3>3, <3>4
  <2>2. ASSUME Going(a)', Past(a, x) PROVE Past(a, x)'
    BY <1>2, <1>4, <2>2 DEF Past, Did
  <2>3. QED
    BY <2>1, <2>2
<1>7. QED
  BY <1>3, <1>4, <1>5, <1>6

LEMMA RunsFirst ==
  ASSUME NEW k \in Kinds, NEW p \in 1..Len(Steps(k)), p < Len(Steps(k)),
         Steps(k)[p + 1] = "status"
  PROVE  Steps(k)[p] = "run"
<1>1. CASE k = "service"
  <2>1. p = 1 \/ p = 2 \/ p = 3 \/ p = 4 \/ p = 5
    BY <1>1, ServiceSteps
  <2>2. QED
    BY <1>1, <2>1, ServiceSteps
<1>2. CASE k = "viewing"
  BY <1>2, ViewingSteps
<1>3. CASE k = "pay"
  BY <1>3, PaySteps
<1>4. CASE k = "session"
  BY <1>4, SessionSteps
<1>5. CASE k = "refuse"
  BY <1>5, RefuseSteps
<1>6. CASE k = "gateway"
  BY <1>6, GatewaySteps
<1>7. CASE k = "confirm"
  BY <1>7, ConfirmSteps
<1>8. CASE k = "another"
  BY <1>8, AnotherSteps
<1>9. CASE k = "conflict"
  BY <1>9, ConflictSteps
<1>10. CASE k = "answer"
  <2>1. p = 1 \/ p = 2 \/ p = 3 \/ p = 4
    BY <1>10, AnswerSteps
  <2>2. QED
    BY <1>10, <2>1, AnswerSteps
<1>11. CASE k = "retry"
  BY <1>11, RetrySteps
<1>12. CASE k = "amend"
  BY <1>12, AmendSteps
<1>13. CASE k = "stop"
  BY <1>13, StopSteps
<1>14. CASE k = "unpaid"
  BY <1>14, UnpaidSteps
<1>15. QED
  BY <1>1, <1>2, <1>3, <1>4, <1>5, <1>6, <1>7, <1>8, <1>9, <1>10, <1>11, <1>12, <1>13, <1>14, KindsAre

\* The order of the steps, as far as the others need it.
LEMMA OrderIs ==
  ASSUME NEW k \in Kinds, NEW p \in 1..Len(Steps(k))
  PROVE  /\ Steps(k)[p] = "status" /\ k \in {"service", "viewing"}
              => Did(k, p, "forget") /\ ~Did(k, p, "keep")
         /\ Steps(k)[p] = "keep" => \/ k = "pay" /\ Did(k, p, "succeed")
                                    \/ k = "stop" /\ Did(k, p, "cancel")
                                    \/ k = "unpaid" /\ Did(k, p, "reject")
         /\ Steps(k)[p] = "cancel" => k = "stop"
         /\ k = "unpaid" => Steps(k)[p] \in {"reject", "decide", "keep", "speak"}
         /\ k = "stop" => /\ Steps(k)[p] \in {"cancel", "decide", "keep", "speak"}
                          /\ Steps(k)[p] = "speak" => Did(k, p, "keep")
                          /\ Steps(k)[p] \in {"cancel", "decide"} => p < Len(Steps(k))
                          /\ Steps(k)[p] # "cancel" => Did(k, p, "cancel")
                          /\ Steps(k)[p] = "cancel" => ~Did(k, p, "cancel")
                          /\ ~Did(k, p, "forget")
         /\ k = "pay" => /\ Steps(k)[p] \in {"forget", "decide", "succeed", "keep", "speak"}
                         /\ ~Did(k, p, "keep") => \E i \in p..Len(Steps(k)) : Steps(k)[i] = "keep"
                         /\ Steps(k)[p] \in {"succeed", "keep"} => ~Did(k, p, "keep")
                         /\ Steps(k)[p] = "succeed" => Did(k, p, "forget")
         /\ k = "gateway" => /\ Steps(k)[p] \in {"decide", "succeed", "speak"}
                             /\ Steps(k)[p] = "succeed" => Did(k, p, "decide") /\ ~Did(k, p, "succeed")
         /\ k = "session" /\ Steps(k)[p] = "decide" => Did(k, p, "forget") /\ ~Did(k, p, "keep")
<1>1. CASE k = "service"
  BY <1>1, ServiceSteps DEF Did
<1>2. CASE k = "viewing"
  BY <1>2, ViewingSteps DEF Did
<1>3. CASE k = "pay"
  BY <1>3, PaySteps DEF Did
<1>4. CASE k = "session"
  BY <1>4, SessionSteps DEF Did
<1>5. CASE k = "refuse"
  BY <1>5, RefuseSteps DEF Did
<1>6. CASE k = "gateway"
  BY <1>6, GatewaySteps DEF Did
<1>7. CASE k = "confirm"
  BY <1>7, ConfirmSteps DEF Did
<1>8. CASE k = "another"
  BY <1>8, AnotherSteps DEF Did
<1>9. CASE k = "conflict"
  BY <1>9, ConflictSteps DEF Did
<1>10. CASE k = "answer"
  BY <1>10, AnswerSteps DEF Did
<1>11. CASE k = "retry"
  BY <1>11, RetrySteps DEF Did
<1>12. CASE k = "amend"
  BY <1>12, AmendSteps DEF Did
<1>13. CASE k = "stop"
  BY <1>13, StopSteps DEF Did
<1>14. CASE k = "unpaid"
  BY <1>14, UnpaidSteps DEF Did
<1>15. QED
  BY <1>1, <1>2, <1>3, <1>4, <1>5, <1>6, <1>7, <1>8, <1>9, <1>10, <1>11, <1>12, <1>13, <1>14, KindsAre

\* The kept course of the requests after a step of one of them.
LEMMA CourseStep ==
  ASSUME ViewTyped, Course, NEW a \in Asking, NEW s, Onward(a, s),
         s = "run" => asking'[a].rest.wf \in Statuses \ {"CANCELLED"}
  PROVE  Course'
<1>1. Going(a) /\ Steps(Kind(a))[Place(a)] = s
  BY DEF Onward
<1>2. /\ Kind(a) \in Kinds /\ Place(a) \in 1..Len(Steps(Kind(a)))
      /\ Len(Steps(Kind(a))) \in 2..6
  BY <1>1, PlaceIs, Long
<1>3. ASSUME NEW b \in Asking, Going(b)'
      PROVE  LET t == Steps(Kind(b)') IN
             /\ \E p \in 1..Len(t) : asking'[b].left = SubSeq(t, p, Len(t))
             /\ t[Place(b)'] = "status" => asking'[b].rest.wf \in Statuses \ {"CANCELLED"}
  <2>1. CASE b # a
    <3>1. asking'[b] = asking[b] /\ Kind(b)' = Kind(b) /\ Place(b)' = Place(b) /\ Going(b)
      BY <1>3, <2>1, PlacesOf DEF Onward
    <3>2. QED
      BY <3>1 DEF Course
  <2>2. CASE b = a
    <3>1. /\ Kind(a)' = Kind(a) /\ Place(a)' = Place(a) + 1
          /\ Place(a) < Len(Steps(Kind(a)))
      BY <1>3, <2>2, PlacesOf
    <3>2. asking'[a].left = SubSeq(Steps(Kind(a)), Place(a) + 1, Len(Steps(Kind(a))))
      BY <1>3, <2>2 DEF Onward, Going
    <3>3. Place(a) + 1 \in 1..Len(Steps(Kind(a)))
      BY <1>2, <3>1
    <3>4. Steps(Kind(a))[Place(a) + 1] = "status" => s = "run"
      BY <1>1, <1>2, <3>1, RunsFirst
    <3>5. QED
      BY <2>2, <3>1, <3>2, <3>3, <3>4
  <2>3. QED
    BY <2>1, <2>2
<1>4. QED
  BY <1>3 DEF Course

LEMMA ClearedStep ==
  ASSUME ViewTyped, Course, Cleared, NEW a \in Asking, NEW s, Onward(a, s), s # "forget",
         s # "keep", job' = job
  PROVE  Cleared'
<1>1. ASSUME NEW b \in Asking, Past(b, "forget")', ~Past(b, "keep")' PROVE job' = "none"
  <2>1. "forget" \in StepNames /\ "keep" \in StepNames
    BY DEF StepNames
  <2>2. Past(b, "forget") /\ ~Past(b, "keep")
    <3>1. CASE b # a
      BY <1>1, <2>1, <3>1, PlacesOf
    <3>2. CASE b = a
      <4>1. Going(a)' /\ Past(a, "forget")
        BY <1>1, <2>1, <3>2, PlacesOf DEF Past
      <4>2. QED
        BY <1>1, <2>1, <3>2, <4>1, PlacesOf
    <3>3. QED
      BY <3>1, <3>2
  <2>3. QED
    BY <2>2 DEF Cleared
<1>2. QED
  BY <1>1 DEF Cleared

\* A step that forgets nothing leaves owed what was owed.
LEMMA OwedStep ==
  ASSUME ViewTyped, Course, NEW a \in Asking, NEW s, Onward(a, s), s \notin {"forget", "keep"},
         \/ s \in Bars(Kind(a)) \/ Place(a) = Len(Steps(Kind(a))) \/ Going(a)',
         Owed
  PROVE  Owed'
<1>1. PICK b \in Asking : Going(b) /\ Owes(Kind(b), Place(b))
  BY DEF Owed
<1>2. CASE b # a
  <2>1. Going(b)' /\ Kind(b)' = Kind(b) /\ Place(b)' = Place(b)
    BY <1>1, <1>2, PlacesOf
  <2>2. QED
    BY <1>1, <2>1 DEF Owed
<1>3. CASE b = a
  <2>1. Kind(a) \in Kinds /\ Place(a) \in 1..Len(Steps(Kind(a))) /\ Steps(Kind(a))[Place(a)] = s
    BY <1>1, <1>3, PlaceIs DEF Onward
  <2>2. /\ s \notin Bars(Kind(a)) /\ Place(a) < Len(Steps(Kind(a)))
        /\ Owes(Kind(a), Place(a) + 1)
    BY <1>1, <1>3, <2>1, OwesOn
  <2>3. Going(a)'
    BY <2>1, <2>2, Long
  <2>4. Kind(a)' = Kind(a) /\ Place(a)' = Place(a) + 1
    BY <2>3, PlacesOf
  <2>5. QED
    BY <2>2, <2>3, <2>4 DEF Owed
<1>4. QED
  BY <1>2, <1>3

\* The facts about rows, kept response and first run, after a step that touches none of them.
LEMMA QuietStep ==
  ASSUME SInv, NEW a \in Asking, NEW s, Onward(a, s), s \notin {"forget", "keep"},
         \/ s \in Bars(Kind(a)) \/ Place(a) = Len(Steps(Kind(a))) \/ Going(a)',
         s # "run", s = "succeed" => ~Going(a)',
         s = "cancel" => ~Going(a)' \/ wf = "CANCELLED",
         s = "decide" => ~Going(a)' /\ Kind(a) # "stop",
         UNCHANGED <<wf, open, job, late, first, crashes>>,
         answer' \in Sentence, writer' \in [Writers -> Writer],
         \A w \in Writers : writer'[w] = writer[w] \/ (s = "speak" /\ writer'[w] = Quiet("read"))
  PROVE  SInv'
<1> USE DEF SInv
<1>1. ViewTyped'
  BY DEF ViewTyped, Onward
<1>2. Course'
  BY CourseStep
<1>3. Kind(a) \in Kinds /\ Place(a) \in 1..Len(Steps(Kind(a))) /\ Steps(Kind(a))[Place(a)] = s
      /\ Going(a)
  BY PlaceIs DEF Onward
<1>4. {"cancel", "decide", "forget", "keep", "succeed"} \subseteq StepNames
  BY DEF StepNames
<1>5. Stopping'
  <2>1. ASSUME NEW b \in Asking, Kind(b)' = "stop"
        PROVE  /\ Past(b, "cancel")' => wf = "CANCELLED"
               /\ Past(b, "keep")' => first.at = "over"
    <3>1. CASE b # a
      BY <1>4, <2>1, <3>1, PlacesOf DEF Stopping
    <3>2. CASE b = a
      <4>1. Past(a, "cancel")' => (Past(a, "cancel") \/ wf = "CANCELLED") /\ Kind(a) = "stop"
        BY <1>4, <2>1, <3>2, PlacesOf DEF Past
      <4>2. Past(a, "keep")' => Past(a, "keep") /\ Kind(a) = "stop"
        BY <1>4, <2>1, <3>2, PlacesOf DEF Past
      <4>3. QED
        BY <3>2, <4>1, <4>2 DEF Stopping
    <3>3. QED
      BY <3>1, <3>2
  <2>2. QED
    BY <2>1 DEF Stopping
<1>6. first.at = "run" => s # "speak" /\ Kind(a) = "stop"
  <2>1. ASSUME first.at = "run" PROVE s # "speak" /\ Kind(a) = "stop"
    <3>1. Kind(a) = "stop"
      BY <1>3, <2>1 DEF FirstOk
    <3>2. s = "speak" => Past(a, "keep")
      BY <1>3, <3>1, OrderIs DEF Past
    <3>3. QED
      BY <2>1, <3>1, <3>2 DEF Stopping
  <2>2. QED
    BY <2>1
\* Only a stop is under way before the first run, and it goes on.
<1>7. \A b \in Asking : Kind(b) = "stop" /\ Past(b, "cancel") /\ first.at \in {"run", "keep"}
        => Kind(b)' = "stop" /\ Past(b, "cancel")'
  <2>1. ASSUME NEW b \in Asking, Kind(b) = "stop", Past(b, "cancel"), first.at \in {"run", "keep"}
        PROVE  Kind(b)' = "stop" /\ Past(b, "cancel")'
    <3>1. CASE b # a
      BY <1>4, <2>1, <3>1, PlacesOf
    <3>2. CASE b = a
      <4>1. s \in {"cancel", "decide", "keep", "speak"}
        BY <1>3, <2>1, <3>2, OrderIs
      <4>2. s = "speak" => Past(a, "keep")
        BY <1>3, <2>1, <3>2, OrderIs DEF Past
      <4>3. s # "speak"
        BY <2>1, <3>2, <4>2 DEF Stopping
      <4>4. s # "cancel" /\ s # "decide"
        BY <1>3, <2>1, <3>2, OrderIs DEF Past
      <4>5. QED
        BY <4>1, <4>3, <4>4
    <3>3. QED
      BY <3>1, <3>2
  <2>2. QED
    BY <2>1
<1>8. FirstOk'
  <2>1. ASSUME first.at = "run"
        PROVE  /\ \A w \in Writers : writer'[w].at = "idle"
               /\ \A b \in Asking : Going(b)' => Kind(b)' = "stop"
               /\ wf = "CANCELLED" => \E b \in Asking : Kind(b)' = "stop" /\ Past(b, "cancel")'
    <3>1. \A w \in Writers : writer'[w].at = "idle"
      BY <1>6, <2>1 DEF FirstOk
    <3>2. ASSUME NEW b \in Asking, Going(b)' PROVE Kind(b)' = "stop"
      <4>1. CASE b # a
        BY <2>1, <3>2, <4>1, PlacesOf DEF FirstOk
      <4>2. CASE b = a
        BY <1>6, <2>1, <3>2, <4>2, PlacesOf
      <4>3. QED
        BY <4>1, <4>2
    <3>3. wf = "CANCELLED" => \E b \in Asking : Kind(b)' = "stop" /\ Past(b, "cancel")'
      BY <1>7, <2>1 DEF FirstOk
    <3>4. QED
      BY <3>1, <3>2, <3>3
  <2>2. QED
    BY <2>1 DEF FirstOk
<1>9. WritersOk'
  <2>1. ASSUME NEW w \in Writers
        PROVE  /\ writer'[w].at = "idle" => writer'[w].view = "none" /\ ~writer'[w].mine
               /\ writer'[w].mine => writer'[w].view = job
               /\ writer'[w].view = "chat" => first.at \notin {"run", "keep"} /\ first.view.wf = "chat"
    <3>1. CASE writer'[w] = writer[w]
      BY <3>1 DEF WritersOk
    <3>2. CASE writer'[w] = Quiet("read")
      BY <3>2 DEF Quiet
    <3>3. QED
      BY <3>1, <3>2
  <2>2. QED
    BY <2>1 DEF WritersOk
<1>10. JobOk' /\ OneWay'
  BY DEF JobOk, OneWay
<1>11. ASSUME ~late PROVE OnTime'
  <2> USE DEF OnTime
  <2>1. Unmoved'
    <3>1. ASSUME first.at = "keep",
                 \A b \in Asking : ~(Kind(b)' = "stop" /\ Past(b, "cancel")')
          PROVE  \A b \in Asking : ~(Kind(b) = "stop" /\ Past(b, "cancel"))
      BY <1>7, <3>1
    <3>2. QED
      BY <1>11, <3>1 DEF Unmoved
  <2>2. Cleared'
    BY <1>11, ClearedStep
  <2>3. Gateway'
    <3>1. ("session" \in open => Gone) /\ Gone' = Gone
      BY <1>11 DEF Gateway, Gone
    <3>2. ASSUME NEW b \in Asking, Kind(b)' = "gateway", Past(b, "decide")', ~Past(b, "succeed")'
          PROVE  Gone
      <4>1. CASE b # a
        BY <1>4, <1>11, <3>2, <4>1, PlacesOf DEF Gateway
      <4>2. CASE b = a
        <5>1. Going(a)' /\ Kind(a) = "gateway" /\ (Past(a, "decide") \/ s = "decide")
          BY <1>4, <3>2, <4>2, PlacesOf DEF Past
        <5>2. Past(a, "decide") /\ ~Past(a, "succeed")
          BY <1>4, <3>2, <4>2, <5>1, PlacesOf
        <5>3. QED
          BY <1>11, <5>1, <5>2 DEF Gateway
      <4>3. QED
        BY <4>1, <4>2
    <3>3. QED
      BY <3>1, <3>2 DEF Gateway
  <2>4. Paying'
    <3>1. ASSUME NEW b \in Asking, Going(b)', Kind(b)' = "pay", ~Past(b, "keep")'
          PROVE  "session" \notin open
      <4>1. CASE b # a
        BY <1>4, <1>11, <3>1, <4>1, PlacesOf DEF Paying
      <4>2. CASE b = a
        <5>1. Kind(a) = "pay" /\ ~Past(a, "keep")
          BY <1>4, <3>1, <4>2, PlacesOf
        <5>2. QED
          BY <1>3, <1>11, <4>2, <5>1 DEF Paying
      <4>3. QED
        BY <4>1, <4>2
    <3>2. QED
      BY <3>1 DEF Paying
  <2>5. TrueJob'
    <3>1. Owed => Owed'
      BY OwedStep
    <3>2. IsTrue(job)' <=> IsTrue(job)
      BY DEF IsTrue
    <3>3. FirstOwes' <=> FirstOwes
      BY DEF FirstOwes
    <3>4. QED
      BY <1>11, <3>1, <3>2, <3>3 DEF TrueJob
  <2>6. QED
    BY <2>1, <2>2, <2>3, <2>4, <2>5
<1>12. QED
  BY <1>1, <1>2, <1>5, <1>8, <1>9, <1>10, <1>11

\* A request that has a response to keep is one that may not see the rows move.
LEMMA KeepAhead ==
  ASSUME ViewTyped, Course, NEW b \in Asking, Going(b), Kind(b) = "pay", ~Past(b, "keep")
  PROVE  \E i \in DOMAIN asking[b].left : asking[b].left[i] = "keep"
<1> DEFINE t == Steps(Kind(b))
           l == asking[b].left
           p == Place(b)
<1>1. Kind(b) \in Kinds /\ p \in 1..Len(t) /\ l = SubSeq(t, p, Len(t))
  BY PlaceIs
<1>2. t \in Seq(StepNames) /\ Len(t) \in 2..6
  BY <1>1, Long
<1>3. ~Did(Kind(b), p, "keep")
  BY DEF Past
<1>4. PICK i \in p..Len(t) : t[i] = "keep"
  BY <1>1, <1>3, OrderIs
<1> HIDE DEF t, l, p
<1>5. /\ l \in Seq(StepNames) /\ Len(l) = Len(t) - p + 1
      /\ \A j \in 1..Len(l) : l[j] = t[p + j - 1]
  BY <1>1, <1>2, Suffix
<1>6. DOMAIN l = 1..Len(l)
  BY <1>5, LenProperties
<1>7. (i - p + 1) \in 1..Len(l) /\ p + (i - p + 1) - 1 = i
  BY <1>1, <1>2, <1>4, <1>5
<1>8. l[i - p + 1] = "keep"
  BY <1>4, <1>5, <1>7
<1>9. QED
  BY <1>6, <1>7, <1>8 DEF l

\* A step that moves the rows: the kept response was forgotten before it, or is to be
\* forgotten or replaced after it, or nothing is kept while a gateway is at work.
LEMMA MoveStep ==
  ASSUME SInv, NEW a \in Asking, NEW s \in Moving, Onward(a, s), Moved(a),
         UNCHANGED <<job, writer, first, crashes>>,
         wf' \in Statuses, open' \subseteq Items, answer' \in Sentence,
         s = "run" => asking'[a].rest.wf \in Statuses \ {"CANCELLED"},
         wf = "CANCELLED" => wf' = "CANCELLED",
         Going(a)' \/ Place(a) = Len(Steps(Kind(a))) \/ (Past(a, "forget") /\ ~Past(a, "keep")),
         "session" \in open' => "session" \in open \/ (Past(a, "forget") /\ ~Past(a, "keep")),
         Kind(a) = "gateway" /\ s = "decide" => "session" \in open,
         Kind(a) = "gateway" => s # "run" /\ s # "status" /\ s # "cancel" /\ s # "reject",
         OneWay',
         s \in {"run", "decide"} => wf' = wf,
         s = "decide" /\ Kind(a) = "pay" => ("session" \in open' => "session" \in open),
         s = "succeed" => open' = open,
         s = "cancel" => wf' = "CANCELLED",
         s = "cancel" /\ Kind(a) = "stop" => open' \subseteq open,
         s = "decide" /\ Kind(a) = "stop" /\ open = {} => open' = {}
  PROVE  SInv'
<1> USE DEF SInv
<1>1. ViewTyped' /\ late' \in BOOLEAN
  BY DEF ViewTyped, Onward, Moved
<1>2. Course'
  BY CourseStep
<1>3. Kind(a) \in Kinds /\ Place(a) \in 1..Len(Steps(Kind(a))) /\ Steps(Kind(a))[Place(a)] = s
      /\ Going(a)
  BY PlaceIs DEF Onward
<1>4. {"cancel", "decide", "forget", "keep", "succeed"} \subseteq StepNames
      /\ s \notin {"forget", "keep", "speak"}
  BY DEF StepNames, Moving
<1>5. Stopping'
  <2>1. ASSUME NEW b \in Asking, Kind(b)' = "stop"
        PROVE  /\ Past(b, "cancel")' => wf' = "CANCELLED"
               /\ Past(b, "keep")' => first.at = "over"
    <3>1. CASE b # a
      BY <1>4, <2>1, <3>1, PlacesOf DEF Stopping
    <3>2. CASE b = a
      <4>1. Past(a, "cancel")' => (Past(a, "cancel") \/ s = "cancel") /\ Kind(a) = "stop"
        BY <1>4, <2>1, <3>2, PlacesOf DEF Past
      <4>2. Past(a, "keep")' => Past(a, "keep") /\ Kind(a) = "stop"
        BY <1>4, <2>1, <3>2, PlacesOf DEF Past
      <4>3. QED
        BY <3>2, <4>1, <4>2 DEF Stopping
    <3>3. QED
      BY <3>1, <3>2
  <2>2. QED
    BY <2>1 DEF Stopping
<1>6. FirstOk'
  <2>1. ASSUME first.at = "run"
        PROVE  /\ open' = {} /\ wf' \in {"PENDING", "CANCELLED"}
               /\ \A b \in Asking : Going(b)' => Kind(b)' = "stop"
               /\ wf' = "CANCELLED" => \E b \in Asking : Kind(b)' = "stop" /\ Past(b, "cancel")'
    <3>1. Kind(a) = "stop" /\ open = {} /\ wf \in {"PENDING", "CANCELLED"}
      BY <1>3, <2>1 DEF FirstOk
    <3>2. s \in {"cancel", "decide"} /\ Place(a) < Len(Steps(Kind(a)))
          /\ (s # "cancel" => Past(a, "cancel")) /\ ~Past(a, "forget")
      BY <1>3, <1>4, <3>1, OrderIs DEF Past
    <3>3. Going(a)' /\ Kind(a)' = "stop" /\ Past(a, "cancel")'
      BY <1>3, <1>4, <3>1, <3>2, PlacesOf, Long
    <3>4. open' = {} /\ wf' \in {"PENDING", "CANCELLED"}
      BY <3>1, <3>2
    <3>5. ASSUME NEW b \in Asking, Going(b)' PROVE Kind(b)' = "stop"
      <4>1. CASE b # a
        BY <2>1, <3>5, <4>1, PlacesOf DEF FirstOk
      <4>2. CASE b = a
        BY <3>3, <4>2
      <4>3. QED
        BY <4>1, <4>2
    <3>6. QED
      BY <3>3, <3>4, <3>5
  <2>2. QED
    BY <2>1 DEF FirstOk
<1>7. WritersOk' /\ JobOk'
  BY DEF WritersOk, JobOk
<1>8. ASSUME ~late' PROVE OnTime'
  <2>1. /\ ~late /\ first.at # "keep"
        /\ \A b \in Asking \ {a} : \A i \in DOMAIN asking[b].left : asking[b].left[i] # "keep"
    BY <1>8 DEF Moved, ViewTyped
  <2>2. Unmoved /\ Cleared /\ Gateway /\ Paying /\ TrueJob
    BY <2>1 DEF OnTime
  <2>3. Unmoved'
    BY <2>1 DEF Unmoved
  <2>4. Cleared'
    BY <1>4, <2>2, ClearedStep
  <2>5. Gone => Gone'
    BY DEF Gone
  <2>6. Past(a, "forget") /\ ~Past(a, "keep") => job = "none"
    BY <2>2 DEF Cleared
  <2>7. Kind(a) = "gateway" => Gone
    <3>1. Kind(a) = "gateway" /\ s = "decide" => Gone
      BY <2>2 DEF Gateway
    <3>2. Kind(a) = "gateway" /\ s = "succeed" => Gone
      <4>1. Kind(a) = "gateway" /\ s = "succeed" => Past(a, "decide") /\ ~Past(a, "succeed")
        BY <1>3, OrderIs DEF Past
      <4>2. QED
        BY <2>2, <4>1 DEF Gateway
    <3>3. QED
      BY <3>1, <3>2 DEF Moving
  <2>8. Gateway'
    <3>1. "session" \in open' => Gone'
      <4>1. job = "none" => Gone
        BY DEF Gone
      <4>2. QED
        BY <2>2, <2>5, <2>6, <4>1 DEF Gateway
    <3>2. ASSUME NEW b \in Asking, Kind(b)' = "gateway", Past(b, "decide")', ~Past(b, "succeed")'
          PROVE  Gone
      <4>1. CASE b # a
        BY <1>4, <2>2, <3>2, <4>1, PlacesOf DEF Gateway
      <4>2. CASE b = a
        <5>1. Kind(a) = "gateway"
          BY <1>4, <3>2, <4>2, PlacesOf DEF Past
        <5>2. QED
          BY <2>7, <5>1
      <4>3. QED
        BY <4>1, <4>2
    <3>3. QED
      BY <2>5, <3>1, <3>2 DEF Gateway
  <2>9. Paying'
    <3>1. ASSUME NEW b \in Asking, Going(b)', Kind(b)' = "pay", ~Past(b, "keep")'
          PROVE  "session" \notin open'
      <4>1. CASE b # a
        <5>1. Going(b) /\ Kind(b) = "pay" /\ ~Past(b, "keep")
          BY <1>4, <3>1, <4>1, PlacesOf
        <5>2. QED
          BY <2>1, <4>1, <5>1, KeepAhead
      <4>2. CASE b = a
        <5>1. Kind(a) = "pay" /\ ~Past(a, "keep")
          BY <1>4, <3>1, <4>2, PlacesOf
        <5>2. "session" \notin open
          BY <1>3, <2>2, <5>1 DEF Paying
        <5>3. s \in {"decide", "succeed"}
          BY <1>3, <5>1, OrderIs DEF Moving
        <5>4. CASE s = "decide"
          BY <4>2, <5>1, <5>2, <5>4
        <5>5. CASE s = "succeed"
          BY <4>2, <5>1, <5>2, <5>5
        <5>6. QED
          BY <5>3, <5>4, <5>5
      <4>3. QED
        BY <4>1, <4>2
    <3>2. QED
      BY <3>1 DEF Paying
  <2>10. TrueJob'
    <3>1. CASE Kind(a) = "gateway"
      <4>1. Gone'
        BY <2>5, <2>7, <3>1
      <4>2. QED
        BY <4>1 DEF Gone, TrueJob, IsTrue, Items
    <3>2. CASE Past(a, "forget") /\ ~Past(a, "keep")
      BY <2>6, <3>2 DEF TrueJob
    <3>3. CASE Kind(a) # "gateway" /\ ~(Past(a, "forget") /\ ~Past(a, "keep"))
      <4>1. Place(a) < Len(Steps(Kind(a))) /\ Owes(Kind(a), Place(a) + 1)
        BY <1>3, <3>3, Settling DEF Past
      <4>2. Going(a)'
        BY <1>3, <3>3, <4>1, Long
      <4>3. Kind(a)' = Kind(a) /\ Place(a)' = Place(a) + 1
        BY <4>2, PlacesOf
      <4>4. Owed'
        BY <4>1, <4>2, <4>3 DEF Owed
      <4>5. QED
        BY <4>4 DEF TrueJob
    <3>4. QED
      BY <3>1, <3>2, <3>3
  <2>11. QED
    BY <2>3, <2>4, <2>8, <2>9, <2>10 DEF OnTime
<1>9. QED
  BY <1>1, <1>2, <1>5, <1>6, <1>7, <1>8

LEMMA Sentences ==
  /\ NoAnswer \in Sentence
  /\ \A k \in AnswerKeys \cup {NoKey} : /\ Claimed(k) \in Sentence
                                        /\ [for |-> k, state |-> "READY", text |-> k] \in Sentence
  BY DEF NoAnswer, Claimed, Sentence

LEMMA Keyed ==
  /\ \A v \in Views : Key(v) \in AnswerKeys
  /\ \A s \in Statuses : <<s, "none", "none">> \in AnswerKeys
  BY DEF AnswerKeys

LEMMA DecideStep ==
  ASSUME SInv, NEW a \in Asking, Decide(a)
  PROVE  SInv'
<1> DEFINE r == Endpoints[asking[a].kind]
           meets == r.takes \cap open # {}
<1>1. ViewTyped /\ Course /\ At(a, "decide")
  BY DEF SInv, Decide
<1>2. /\ Going(a) /\ Kind(a) \in Kinds /\ Steps(Kind(a))[Place(a)] = "decide"
      /\ Place(a) \in 1..Len(Steps(Kind(a)))
  BY <1>1, NextIs, PlaceIs
<1>3. /\ r.takes \subseteq Items /\ r.gives \subseteq {"session", "service", "proposals"}
      /\ ("session" \in r.gives => Kind(a) = "session" /\ r.takes = {"asked"})
      /\ (Kind(a) = "gateway" => r.takes = {"session"})
      /\ (Kind(a) = "pay" => r.gives = {})
  BY <1>2, KindsAre DEF Kind, Kinds, Endpoints, ServiceDecision, ViewingDecision, MockPayment, OpenSession,
         RefusePayment, GatewayCalls, ConfirmProposal, AnotherProvider, ConflictReply,
         AnswerAndRerun, Retry, AmendOne, Stop, StopUnpaid, Items
<1>4. CASE r.takes = {} \/ r.takes \cap open # {} \/ asking[a].kind \in Stops
  <2>1. /\ open' = (open \ r.takes) \cup (IF meets THEN r.gives ELSE {})
        /\ Step(a) /\ Moved(a) /\ UNCHANGED <<wf, job, answer, writer, first, crashes>>
    BY <1>4 DEF Decide
  <2>2. Onward(a, "decide") /\ (Place(a) < Len(Steps(Kind(a))) => Going(a)')
    BY <1>1, <2>1, StepIs DEF Going
  <2>3. open' \subseteq Items /\ wf' \in Statuses /\ answer' \in Sentence
    BY <1>1, <1>3, <2>1 DEF ViewTyped, Items
  <2> HIDE DEF r
  <2>4. "session" \in open' /\ "session" \notin open => Kind(a) = "session"
    BY <1>3, <2>1
  <2>5. Kind(a) = "session" => Past(a, "forget") /\ ~Past(a, "keep")
    BY <1>2, OrderIs DEF Past
  <2>6. OneWay'
    BY <1>3, <2>1 DEF SInv, OneWay
  <2>7. Kind(a) = "gateway" => "session" \in open
    BY <1>3, <1>4 DEF Kind, Stops
  <2>8. Kind(a) = "pay" => ("session" \in open' => "session" \in open)
    BY <1>3, <2>1
  <2>9. open = {} => open' = {}
    BY <2>1
  <2>10. Going(a)' \/ Place(a) = Len(Steps(Kind(a)))
    BY <1>2, <2>2, Long
  <2>11. "decide" \in Moving
    BY DEF Moving
  <2>12. QED
    BY <2>1, <2>2, <2>3, <2>4, <2>5, <2>6, <2>7, <2>8, <2>9, <2>10, <2>11, MoveStep
<1>5. CASE ~(r.takes = {} \/ r.takes \cap open # {} \/ asking[a].kind \in Stops)
  <2>1. Refuse(a) /\ UNCHANGED <<open, late, wf, job, answer, writer, first, crashes>>
    BY <1>5 DEF Decide
  <2>2. Onward(a, "decide") /\ asking'[a].at = "over" /\ Kind(a) \notin Stops
    BY <1>1, <1>5, <2>1, RefuseIs DEF Kind
  <2>3. "decide" \in Bars(Kind(a)) /\ ~Going(a)' /\ Kind(a) # "stop"
    BY <2>2 DEF Bars, Going, Stops
  <2>4. answer' \in Sentence /\ writer' \in [Writers -> Writer]
    BY <1>1, <2>1 DEF ViewTyped
  <2>5. QED
    BY <2>1, <2>2, <2>3, <2>4, QuietStep
<1>6. QED
  BY <1>4, <1>5

LEMMA RunStep ==
  ASSUME SInv, NEW a \in Asking, Run(a)
  PROVE  SInv'
<1>1. ViewTyped /\ Course /\ At(a, "run")
  BY DEF SInv, Run
<1>2. /\ Going(a) /\ Kind(a) \in Kinds /\ Steps(Kind(a))[Place(a)] = "run"
      /\ Place(a) \in 1..Len(Steps(Kind(a)))
  BY <1>1, NextIs, PlaceIs
<1>3. PICK r \in Outcomes(asking[a].kind) :
        /\ open' = IF wf = "CANCELLED" THEN open ELSE r.open
        /\ answer' = IF Says(asking[a].kind, r) /\ Savable(Told(r))
                       THEN [for |-> Told(r), state |-> "READY", text |-> Told(r)] ELSE answer
        /\ asking' = [asking EXCEPT ![a] = [Next1(a) EXCEPT !.rest = r]]
  BY DEF Run
<1>4. r.wf \in Statuses \ {"CANCELLED"} /\ r.open \subseteq Items \ {"session"}
      /\ r \in [wf : Statuses \cup {"none"}, open : SUBSET Items]
  <2>1. CASE r \in Rests
    BY <2>1, ViewAssumptions DEF Statuses, Final
  <2>2. CASE r \notin Rests
    <3>1. PICK q \in Rests : r = [q EXCEPT !.wf = IF @ = "SUCCESS" THEN "PENDING" ELSE @]
      BY <2>2 DEF Outcomes
    <3>2. q \in [wf : {"SUCCESS", "FAILED", "WAITING_APPROVAL"},
                 open : SUBSET (Items \ {"session"})]
      BY ViewAssumptions
    <3>3. QED
      BY <3>1, <3>2 DEF Statuses, Final
  <2>3. QED
    BY <2>1, <2>2
<1>5. /\ asking' \in [Asking -> Asker] /\ \A b \in Asking \ {a} : asking'[b] = asking[b]
      /\ asking'[a] = [Next1(a) EXCEPT !.rest = r]
  <2>1. asking \in [Asking -> Asker] /\ Next1(a) \in Asker
    BY <1>1, NextIs DEF ViewTyped
  <2>2. [Next1(a) EXCEPT !.rest = r] \in Asker
    BY <1>4, <2>1 DEF Asker
  <2>3. QED
    BY <1>3, <2>1, <2>2
<1>6. /\ asking'[a].at = Next1(a).at /\ asking'[a].kind = Next1(a).kind
      /\ asking'[a].left = Next1(a).left /\ asking'[a].rest = r
  <2>1. Next1(a) \in Asker
    BY <1>1, NextIs
  <2>2. QED
    BY <1>5, <2>1 DEF Asker
<1>7. Onward(a, "run") /\ (Place(a) < Len(Steps(Kind(a))) => Going(a)')
  BY <1>1, <1>2, <1>5, <1>6, NextIs, Long DEF Onward, Going
<1>8. Going(a)' \/ Place(a) = Len(Steps(Kind(a)))
  BY <1>2, <1>7, Long
<1>9. Told(r) \in AnswerKeys
  BY <1>4, Keyed DEF Told, Views
<1>10. answer' \in Sentence
  BY <1>1, <1>3, <1>9, Sentences DEF ViewTyped
<1>11. /\ Moved(a) /\ UNCHANGED <<wf, job, writer, first, crashes>>
       /\ open' \subseteq Items /\ wf' \in Statuses
  BY <1>1, <1>3, <1>4 DEF Run, ViewTyped
<1>12. OneWay' /\ ("session" \in open' => "session" \in open)
  BY <1>3, <1>4, <1>11 DEF SInv, OneWay
<1>13. Kind(a) # "gateway" /\ "run" \in Moving
  BY <1>2, OrderIs DEF Moving
<1>14. QED
  BY <1>4, <1>6, <1>7, <1>8, <1>10, <1>11, <1>12, <1>13, MoveStep

LEMMA SettleStep ==
  ASSUME SInv, NEW a \in Asking, Settle(a)
  PROVE  SInv'
<1>1. ViewTyped /\ Course /\ At(a, "status")
  BY DEF SInv, Settle
<1>2. /\ Going(a) /\ Kind(a) \in Kinds /\ Steps(Kind(a))[Place(a)] = "status"
      /\ Place(a) \in 1..Len(Steps(Kind(a)))
  BY <1>1, NextIs, PlaceIs
<1>3. asking[a].rest.wf \in Statuses \ {"CANCELLED"}
  BY <1>1, <1>2 DEF Course
<1>4. wf' = IF wf = "CANCELLED" THEN wf ELSE asking[a].rest.wf
  BY DEF Settle
<1>5. /\ Onward(a, "status")
      /\ \/ Going(a)' \/ Place(a) = Len(Steps(Kind(a)))
         \/ Past(a, "forget") /\ ~Past(a, "keep")
  <2>1. CASE Refuse(a) /\ Kind(a) \in {"service", "viewing"}
    BY <1>1, <1>2, <2>1, RefuseIs, OrderIs DEF Past
  <2>2. CASE Step(a)
    <3>1. Onward(a, "status") /\ (Place(a) < Len(Steps(Kind(a))) => Going(a)')
      BY <1>1, <2>2, StepIs DEF Going
    <3>2. QED
      BY <1>2, <3>1, Long
  <2>3. QED
    BY <2>1, <2>2 DEF Settle, Kind
<1>6. /\ Moved(a) /\ UNCHANGED <<open, job, answer, writer, first, crashes>>
      /\ wf' \in Statuses /\ open' \subseteq Items /\ answer' \in Sentence
  BY <1>1, <1>3, <1>4 DEF Settle, ViewTyped
<1>7. OneWay'
  BY <1>3, <1>4, <1>6 DEF SInv, OneWay
<1>8. Kind(a) # "gateway" /\ "status" \in Moving
  BY <1>2, OrderIs DEF Moving
<1>9. QED
  BY <1>4, <1>5, <1>6, <1>7, <1>8, MoveStep

LEMMA SucceedStep ==
  ASSUME SInv, NEW a \in Asking, Succeed(a)
  PROVE  SInv'
<1>1. ViewTyped /\ Course /\ At(a, "succeed")
  BY DEF SInv, Succeed
<1>2. /\ Going(a) /\ Kind(a) \in Kinds /\ Steps(Kind(a))[Place(a)] = "succeed"
      /\ Place(a) \in 1..Len(Steps(Kind(a)))
  BY <1>1, NextIs, PlaceIs
<1>3. PICK verdict \in {"SUCCESS", "RUNNING", "FAILED"} :
        /\ wf' = IF wf = "CANCELLED" THEN wf ELSE verdict
        /\ IF asking[a].kind = "pay" /\ verdict = "FAILED" THEN Refuse(a) ELSE Step(a)
  BY DEF Succeed
<1>4. /\ Onward(a, "succeed")
      /\ \/ Going(a)' \/ Place(a) = Len(Steps(Kind(a)))
         \/ Past(a, "forget") /\ ~Past(a, "keep")
  <2>1. CASE Refuse(a) /\ Kind(a) = "pay"
    BY <1>1, <1>2, <2>1, RefuseIs, OrderIs DEF Past
  <2>2. CASE Step(a)
    <3>1. Onward(a, "succeed") /\ (Place(a) < Len(Steps(Kind(a))) => Going(a)')
      BY <1>1, <2>2, StepIs DEF Going
    <3>2. QED
      BY <1>2, <3>1, Long
  <2>3. QED
    BY <1>3, <2>1, <2>2 DEF Kind
<1>5. /\ Moved(a) /\ UNCHANGED <<open, job, answer, writer, first, crashes>>
      /\ wf' \in Statuses /\ open' \subseteq Items /\ answer' \in Sentence
  BY <1>1, <1>3 DEF Succeed, ViewTyped, Statuses, Final
<1>6. OneWay'
  BY <1>3, <1>5 DEF SInv, OneWay
<1>7. "succeed" \in Moving
  BY DEF Moving
<1>8. QED
  BY <1>3, <1>4, <1>5, <1>6, <1>7, MoveStep

LEMMA CancelStep ==
  ASSUME SInv, NEW a \in Asking, Cancel(a)
  PROVE  SInv'
<1>1. ViewTyped /\ Course /\ At(a, "cancel")
  BY DEF SInv, Cancel
<1>2. /\ Going(a) /\ Kind(a) \in Kinds /\ Steps(Kind(a))[Place(a)] = "cancel"
      /\ Place(a) \in 1..Len(Steps(Kind(a))) /\ Kind(a) = "stop"
  BY <1>1, NextIs, PlaceIs, OrderIs
<1>3. CASE Refuse(a) /\ UNCHANGED <<wf, open, answer, late>>
  <2>1. Onward(a, "cancel") /\ asking'[a].at = "over"
    BY <1>1, <1>3, RefuseIs
  <2>2. "cancel" \in Bars(Kind(a)) /\ ~Going(a)'
    BY <2>1 DEF Bars, Going
  <2>3. /\ UNCHANGED <<wf, open, answer, late, job, writer, first, crashes>>
        /\ answer' \in Sentence /\ writer' \in [Writers -> Writer]
    BY <1>1, <1>3 DEF Cancel, ViewTyped
  <2>4. QED
    BY <2>1, <2>2, <2>3, QuietStep
<1>4. CASE wf = "CANCELLED" /\ Step(a) /\ UNCHANGED <<wf, open, answer, late>>
  <2>1. Onward(a, "cancel") /\ "cancel" \in Bars(Kind(a))
    BY <1>1, <1>4, StepIs DEF Bars
  <2>2. /\ UNCHANGED <<wf, open, answer, late, job, writer, first, crashes>>
        /\ answer' \in Sentence /\ writer' \in [Writers -> Writer]
    BY <1>1, <1>4 DEF Cancel, ViewTyped
  <2>3. QED
    BY <1>4, <2>1, <2>2, QuietStep
<1>5. CASE /\ wf' = "CANCELLED" /\ open' = open \ {"clarification"} /\ answer' = NoAnswer
           /\ Step(a) /\ Moved(a)
  <2>1. Onward(a, "cancel") /\ (Going(a)' \/ Place(a) = Len(Steps(Kind(a))))
    <3>1. Onward(a, "cancel") /\ (Place(a) < Len(Steps(Kind(a))) => Going(a)')
      BY <1>1, <1>5, StepIs DEF Going
    <3>2. QED
      BY <1>2, <3>1, Long
  <2>2. /\ UNCHANGED <<job, writer, first, crashes>>
        /\ wf' \in Statuses /\ open' \subseteq Items /\ answer' \in Sentence
    BY <1>1, <1>5, Sentences DEF Cancel, ViewTyped, Statuses, Final
  <2>3. OneWay'
    BY <1>5 DEF SInv, OneWay
  <2>4. "cancel" \in Moving
    BY DEF Moving
  <2>5. QED
    BY <1>2, <1>5, <2>1, <2>2, <2>3, <2>4, MoveStep
<1>6. QED
  BY <1>3, <1>4, <1>5 DEF Cancel, rows

LEMMA RejectStep ==
  ASSUME SInv, NEW a \in Asking, Reject(a)
  PROVE  SInv'
<1>1. ViewTyped /\ Course /\ At(a, "reject")
  BY DEF SInv, Reject
<1>2. /\ Going(a) /\ Kind(a) \in Kinds /\ Steps(Kind(a))[Place(a)] = "reject"
      /\ Place(a) \in 1..Len(Steps(Kind(a)))
  BY <1>1, NextIs, PlaceIs
<1>3. CASE UNCHANGED <<wf, open, late>> /\ (Step(a) \/ Refuse(a))
  <2>1. Onward(a, "reject")
    BY <1>1, <1>3, StepIs, RefuseIs
  <2>2. "reject" \in Bars(Kind(a))
    BY DEF Bars
  <2>3. /\ UNCHANGED <<wf, open, answer, late, job, writer, first, crashes>>
        /\ answer' \in Sentence /\ writer' \in [Writers -> Writer]
    BY <1>1, <1>3 DEF Reject, ViewTyped
  <2>4. QED
    BY <2>1, <2>2, <2>3, QuietStep
<1>4. CASE /\ "asked" \in open /\ open' = open \ {"asked"} /\ wf' = "CANCELLED"
           /\ Step(a) /\ Moved(a)
  <2>1. Onward(a, "reject") /\ (Going(a)' \/ Place(a) = Len(Steps(Kind(a))))
    <3>1. Onward(a, "reject") /\ (Place(a) < Len(Steps(Kind(a))) => Going(a)')
      BY <1>1, <1>4, StepIs DEF Going
    <3>2. QED
      BY <1>2, <3>1, Long
  <2>2. /\ UNCHANGED <<job, writer, first, crashes>>
        /\ wf' \in Statuses /\ open' \subseteq Items /\ answer' \in Sentence
    BY <1>1, <1>4 DEF Reject, ViewTyped, Statuses, Final
  <2>3. OneWay'
    BY <1>4 DEF SInv, OneWay
  <2>4. "reject" \in Moving
    BY DEF Moving
  <2>5. Kind(a) # "gateway"
    BY <1>2, OrderIs
  <2>6. QED
    BY <1>4, <2>1, <2>2, <2>3, <2>4, <2>5, MoveStep
<1>5. QED
  BY <1>3, <1>4 DEF Reject, rows

LEMMA Asked ==
  ASSUME ViewTyped, Ask
  PROVE  /\ writer' \in [Writers -> Writer]
         /\ \A w \in Writers : writer'[w] = writer[w] \/ writer'[w] = Quiet("read")
<1>1. Quiet("read") \in Writer
  BY DEF Quiet, Writer
<1>2. QED
  BY <1>1 DEF Ask, ViewTyped

LEMMA RenewStep ==
  ASSUME SInv, NEW a \in Asking, Renew(a)
  PROVE  SInv'
<1>1. ViewTyped /\ Course /\ At(a, "renew") /\ Step(a)
  BY DEF SInv, Renew
<1>2. Onward(a, "renew") /\ (Place(a) < Len(Steps(Kind(a))) => Going(a)')
  BY <1>1, StepIs DEF Going
<1>3. Going(a)' \/ Place(a) = Len(Steps(Kind(a)))
  BY <1>1, <1>2, NextIs, PlaceIs, Long
<1>4. /\ UNCHANGED <<wf, open, job, late, first, crashes>>
      /\ answer' \in Sentence /\ writer' = writer /\ writer' \in [Writers -> Writer]
  BY <1>1, Sentences DEF Renew, rows, ViewTyped
<1>5. QED
  BY <1>2, <1>3, <1>4, QuietStep

LEMMA AskAfterStep ==
  ASSUME SInv, NEW a \in Asking, AskAfter(a)
  PROVE  SInv'
<1>1. ViewTyped /\ Course /\ At(a, "speak") /\ Step(a) /\ Ask
  BY DEF SInv, AskAfter
<1>2. Onward(a, "speak") /\ (Place(a) < Len(Steps(Kind(a))) => Going(a)')
  BY <1>1, StepIs DEF Going
<1>3. Going(a)' \/ Place(a) = Len(Steps(Kind(a)))
  BY <1>1, <1>2, NextIs, PlaceIs, Long
<1>4. UNCHANGED <<wf, open, job, late, first, crashes>> /\ answer' \in Sentence
  BY <1>1 DEF AskAfter, rows, ViewTyped
<1>5. QED
  BY <1>1, <1>2, <1>3, <1>4, Asked, QuietStep

\* The kept response is replaced and no writer holds the old one any more.
LEMMA Kept ==
  ASSUME ViewTyped, WritersOk, NEW v \in Views \cup {"none"}, Keep(v),
         first' = first \/ (first'.at = "over" /\ first'.view = first.view)
  PROVE  job' = v /\ writer' \in [Writers -> Writer] /\ WritersOk'
         /\ \A w \in Writers : writer'[w].at = writer[w].at
<1>1. writer \in [Writers -> Writer]
  BY DEF ViewTyped
<1>2. ASSUME NEW w \in Writers
      PROVE  /\ writer'[w] \in Writer /\ writer'[w].at = writer[w].at
             /\ writer'[w].view = writer[w].view /\ writer'[w].mine = FALSE
  <2>1. writer'[w] = [writer[w] EXCEPT !.mine = FALSE] /\ writer[w] \in Writer
    BY <1>1 DEF Keep
  <2>2. QED
    BY <2>1 DEF Writer
<1>3. job' = v /\ writer' = [w \in Writers |-> [writer[w] EXCEPT !.mine = FALSE]]
  BY DEF Keep
<1>4. writer' \in [Writers -> Writer]
  BY <1>2, <1>3
<1>5. ASSUME NEW w \in Writers
      PROVE  /\ writer'[w].at = "idle" => writer'[w].view = "none" /\ ~writer'[w].mine
             /\ writer'[w].mine => writer'[w].view = job'
             /\ writer'[w].view = "chat"
                  => first'.at \notin {"run", "keep"} /\ first'.view.wf = "chat"
  BY <1>2 DEF WritersOk
<1>6. QED
  BY <1>2, <1>3, <1>4, <1>5 DEF WritersOk

\* Who is not a stop changes nothing about the stops.
LEMMA OthersStop ==
  ASSUME ViewTyped, Course, NEW a \in Asking, NEW s, Onward(a, s), Kind(a) # "stop"
  PROVE  \A b \in Asking : \A x \in StepNames :
           Kind(b)' = "stop" /\ Past(b, x)' <=> Kind(b) = "stop" /\ Past(b, x)
<1>1. ASSUME NEW b \in Asking, NEW x \in StepNames
      PROVE  Kind(b)' = "stop" /\ Past(b, x)' <=> Kind(b) = "stop" /\ Past(b, x)
  <2>1. CASE b # a
    BY <2>1, PlacesOf
  <2>2. CASE b = a
    <3>1. Going(a)' => Kind(a)' # "stop"
      BY PlacesOf
    <3>2. Past(a, x)' => Going(a)'
      BY DEF Past
    <3>3. QED
      BY <2>2, <3>1, <3>2
  <2>3. QED
    BY <2>1, <2>2
<1>2. QED
  BY <1>1

LEMMA ForgetStep ==
  ASSUME SInv, NEW a \in Asking, Forget(a)
  PROVE  SInv'
<1> USE DEF SInv
<1>1. ViewTyped /\ Course /\ At(a, "forget") /\ Step(a) /\ Keep("none")
      /\ UNCHANGED <<wf, open, answer, first, late, crashes>>
  BY DEF Forget, rows
<1>2. Onward(a, "forget")
  BY <1>1, StepIs
<1>3. /\ Going(a) /\ Kind(a) \in Kinds /\ Steps(Kind(a))[Place(a)] = "forget"
      /\ Place(a) \in 1..Len(Steps(Kind(a)))
  BY <1>1, NextIs, PlaceIs
<1>4. {"cancel", "decide", "forget", "keep", "succeed"} \subseteq StepNames
  BY DEF StepNames
<1>5. job' = "none" /\ writer' \in [Writers -> Writer] /\ WritersOk'
      /\ \A w \in Writers : writer'[w].at = writer[w].at
  BY <1>1, Kept
<1>6. ViewTyped'
  BY <1>1, <1>2, <1>5 DEF ViewTyped, Onward
<1>7. Course'
  BY <1>2, CourseStep
<1>8. Kind(a) # "stop"
  BY <1>3, OrderIs
<1>9. \A b \in Asking : \A x \in StepNames :
        Kind(b)' = "stop" /\ Past(b, x)' <=> Kind(b) = "stop" /\ Past(b, x)
  BY <1>2, <1>8, OthersStop
<1>10. Stopping'
  <2>1. ASSUME NEW b \in Asking, Kind(b)' = "stop"
        PROVE  /\ Past(b, "cancel")' => wf = "CANCELLED"
               /\ Past(b, "keep")' => first.at = "over"
    BY <1>4, <1>9, <2>1 DEF Stopping
  <2>2. QED
    BY <1>1, <2>1 DEF Stopping
<1>11. first.at # "run"
  BY <1>3, <1>8 DEF FirstOk
<1>12. FirstOk'
  BY <1>1, <1>11 DEF FirstOk
<1>13. JobOk' /\ OneWay'
  BY <1>1, <1>5 DEF JobOk, OneWay
<1>14. ASSUME ~late PROVE OnTime'
  <2>1. Unmoved /\ Paying
    BY <1>14 DEF OnTime
  <2>2. Unmoved'
    <3>1. (\A b \in Asking : ~(Kind(b)' = "stop" /\ Past(b, "cancel")'))
            => \A b \in Asking : ~(Kind(b) = "stop" /\ Past(b, "cancel"))
      BY <1>4, <1>9
    <3>2. QED
      BY <1>1, <2>1, <3>1 DEF Unmoved
  <2>3. Paying'
    <3>1. ASSUME NEW b \in Asking, Going(b)', Kind(b)' = "pay", ~Past(b, "keep")'
          PROVE  "session" \notin open
      <4>1. CASE b # a
        BY <1>2, <1>4, <2>1, <3>1, <4>1, PlacesOf DEF Paying
      <4>2. CASE b = a
        <5>1. Kind(a) = "pay" /\ ~Past(a, "keep")
          BY <1>2, <1>4, <3>1, <4>2, PlacesOf
        <5>2. QED
          BY <1>3, <2>1, <4>2, <5>1 DEF Paying
      <4>3. QED
        BY <4>1, <4>2
    <3>2. QED
      BY <1>1, <3>1 DEF Paying
  <2>4. Cleared' /\ Gateway' /\ TrueJob'
    BY <1>5 DEF Cleared, Gateway, Gone, TrueJob
  <2>5. QED
    BY <2>1, <2>2, <2>3, <2>4 DEF OnTime
<1>15. QED
  BY <1>1, <1>5, <1>6, <1>7, <1>10, <1>12, <1>13, <1>14

LEMMA KeepOwnStep ==
  ASSUME SInv, NEW a \in Asking, KeepOwn(a)
  PROVE  SInv'
<1> USE DEF SInv
<1> DEFINE v == Result(asking[a].kind)
<1>1. /\ ViewTyped /\ Course /\ At(a, "keep") /\ Step(a) /\ Keep(v)
      /\ first' = IF asking[a].kind \in Stops THEN [first EXCEPT !.at = "over"] ELSE first
      /\ late' = (late \/ Unborne(asking[a].kind) \/ \E b \in Asking \ {a} : asking[b].at = "go")
      /\ UNCHANGED <<wf, open, answer, crashes>>
  BY DEF KeepOwn, rows
<1>2. Onward(a, "keep")
  BY <1>1, StepIs
<1>3. /\ Going(a) /\ Kind(a) \in Kinds /\ Steps(Kind(a))[Place(a)] = "keep"
      /\ Place(a) \in 1..Len(Steps(Kind(a))) /\ asking[a].kind = Kind(a)
      /\ \/ Kind(a) = "pay" /\ Past(a, "succeed")
         \/ Kind(a) = "stop" /\ Past(a, "cancel")
         \/ Kind(a) = "unpaid"
  BY <1>1, NextIs, PlaceIs, OrderIs DEF Past, Kind
<1>4. {"cancel", "decide", "forget", "keep", "succeed"} \subseteq StepNames
  BY DEF StepNames
<1>5. /\ first' \in First /\ first'.view = first.view
      /\ Kind(a) \in Stops => first'.at = "over"
      /\ Kind(a) \notin Stops => first' = first
      /\ first'.at \in {first.at, "over"}
  <2>1. first \in First
    BY DEF ViewTyped
  <2>2. CASE Kind(a) \in Stops
    BY <1>1, <1>3, <2>1, <2>2 DEF First
  <2>3. CASE Kind(a) \notin Stops
    BY <1>1, <1>3, <2>1, <2>3
  <2>4. QED
    BY <2>2, <2>3
<1>6. v \in {"cancelled", "success"} /\ v \in Views /\ (v = "cancelled" <=> Kind(a) \in Stops)
  BY <1>3 DEF Views, Result
<1> HIDE DEF v
<1>7. job' = v /\ writer' \in [Writers -> Writer] /\ WritersOk'
      /\ \A w \in Writers : writer'[w].at = writer[w].at
  BY <1>1, <1>5, <1>6, Kept
<1>8. ViewTyped'
  BY <1>1, <1>2, <1>5, <1>6, <1>7 DEF ViewTyped, Onward
<1>9. Course'
  BY <1>2, CourseStep
<1>10. Stopping'
  <2>1. ASSUME NEW b \in Asking, Kind(b)' = "stop"
        PROVE  /\ Past(b, "cancel")' => wf = "CANCELLED"
               /\ Past(b, "keep")' => first'.at = "over"
    <3>1. CASE b # a
      BY <1>2, <1>4, <1>5, <2>1, <3>1, PlacesOf DEF Stopping
    <3>2. CASE b = a
      <4>1. Past(a, "cancel")' => Past(a, "cancel") /\ Kind(a) = "stop"
        BY <1>2, <1>4, <2>1, <3>2, PlacesOf DEF Past
      <4>2. Past(a, "keep")' => Kind(a) = "stop"
        BY <1>2, <1>4, <2>1, <3>2, PlacesOf DEF Past
      <4>3. QED
        BY <1>5, <3>2, <4>1, <4>2 DEF Stopping, Stops
    <3>3. QED
      BY <3>1, <3>2
  <2>2. QED
    BY <1>1, <2>1 DEF Stopping
<1>11. first'.at # "run"
  <2>1. first.at = "run" => Kind(a) = "stop"
    BY <1>3 DEF FirstOk
  <2>2. QED
    BY <1>5, <2>1 DEF Stops
<1>12. FirstOk'
  BY <1>5, <1>11 DEF FirstOk
<1>13. JobOk' /\ OneWay'
  BY <1>1, <1>6, <1>7 DEF JobOk, OneWay
<1>14. ASSUME ~late' PROVE OnTime'
  <2>1. ~late /\ ~Unborne(Kind(a)) /\ \A b \in Asking \ {a} : ~Going(b)
    BY <1>1, <1>3, <1>14 DEF Going
  <2>2. Unmoved /\ Cleared /\ Gateway /\ Paying
    BY <2>1 DEF OnTime
  <2>3. \A b \in Asking : Going(b)' => b = a /\ Past(b, "keep")' /\ Kind(b)' = Kind(a)
    BY <1>2, <2>1, PlacesOf
  <2>4. Cleared' /\ Paying'
    BY <2>3 DEF Cleared, Paying, Past
  <2>5. IsTrue(job)' /\ (Kind(a) \in Stops => Gone')
    <3>1. CASE Kind(a) \in Stops
      <4>1. wf = "CANCELLED" /\ wf' = wf /\ job' = "cancelled"
        BY <1>1, <1>3, <1>6, <1>7, <2>1, <3>1 DEF Stopping, Stops, Unborne
      <4>2. QED
        BY <4>1 DEF IsTrue, Gone, Items
    <3>2. CASE Kind(a) \notin Stops
      <4>1. wf = "SUCCESS" /\ wf' = wf /\ job' = "success"
        BY <1>1, <1>3, <1>6, <1>7, <2>1, <3>2 DEF Unborne, Stops
      <4>2. QED
        BY <3>2, <4>1 DEF IsTrue, Items
    <3>3. QED
      BY <3>1, <3>2
  <2>6. Gateway'
    <3>1. "session" \in open => Kind(a) \in Stops
      <4>1. Kind(a) = "pay" => ~Past(a, "keep")
        BY <1>3, OrderIs DEF Past
      <4>2. QED
        BY <1>3, <2>2, <4>1 DEF Paying, Stops
    <3>2. QED
      BY <1>1, <1>3, <2>3, <2>5, <3>1 DEF Gateway, Past
  <2>7. TrueJob'
    BY <1>1, <2>2, <2>5 DEF TrueJob
  <2>8. Unmoved'
    <3>1. CASE first'.at # "keep"
      BY <3>1 DEF Unmoved
    <3>2. CASE first'.at = "keep"
      <4>1. Kind(a) # "stop" /\ first' = first
        BY <1>5, <3>2 DEF Stops
      <4>2. \A b \in Asking : \A x \in StepNames :
              Kind(b)' = "stop" /\ Past(b, x)' <=> Kind(b) = "stop" /\ Past(b, x)
        BY <1>2, <4>1, OthersStop
      <4>3. (\A b \in Asking : ~(Kind(b)' = "stop" /\ Past(b, "cancel")'))
              => \A b \in Asking : ~(Kind(b) = "stop" /\ Past(b, "cancel"))
        BY <1>4, <4>2
      <4>4. QED
        BY <1>1, <2>2, <4>1, <4>3 DEF Unmoved
    <3>3. QED
      BY <3>1, <3>2
  <2>9. QED
    BY <2>4, <2>6, <2>7, <2>8 DEF OnTime
<1>15. QED
  BY <1>7, <1>8, <1>9, <1>10, <1>12, <1>13, <1>14

\* The requests stand where they stood.
LEMMA Standing ==
  ASSUME asking' = asking
  PROVE  \A b \in Asking : /\ Going(b)' <=> Going(b)
                           /\ Kind(b)' = Kind(b) /\ Place(b)' = Place(b)
                           /\ \A x : Past(b, x)' <=> Past(b, x)
<1>1. ASSUME NEW b \in Asking
      PROVE  /\ Going(b)' <=> Going(b)
             /\ Kind(b)' = Kind(b) /\ Place(b)' = Place(b)
  BY DEF Going, Kind, Place
<1>2. QED
  BY <1>1 DEF Past

LEMMA CourseKept ==
  ASSUME Course, asking' = asking
  PROVE  Course' /\ (Owed => Owed')
<1>1. Course'
  BY Standing DEF Course
<1>2. Owed => Owed'
  BY Standing DEF Owed
<1>3. QED
  BY <1>1, <1>2

\* A step of the first run, of a writer, of time: what is said of the requests stays so
\* while wf stays CANCELLED once it is, and nothing kept changes unless all of it is new.
LEMMA AloneStep ==
  ASSUME SInv, asking' = asking, job' = job, late' = late,
         wf = "CANCELLED" => wf' = "CANCELLED", wf' = "CANCELLED" => wf = "CANCELLED",
         wf = "SUCCESS" => wf' = "SUCCESS",
         open \subseteq open', open' \subseteq open \cup {"clarification"},
         first.at = "over" => first'.at = "over"
  PROVE  /\ Course' /\ OneWay' /\ Stopping'
         /\ ~late => Cleared' /\ Gateway' /\ Paying'
         /\ Owed => Owed'
<1> USE DEF SInv
<1>1. Course' /\ (Owed => Owed')
  BY CourseKept
<1>2. OneWay'
  BY DEF OneWay
<1>3. ASSUME ~late PROVE Cleared' /\ Gateway' /\ Paying'
  <2>1. Cleared /\ Gateway /\ Paying
    BY <1>3 DEF OnTime
  <2>2. Cleared'
    BY <2>1, Standing DEF Cleared
  <2>3. Gone => Gone'
    BY DEF Gone
  <2>4. Gateway'
    BY <2>1, <2>3, Standing DEF Gateway
  <2>5. Paying'
    BY <2>1, Standing DEF Paying
  <2>6. QED
    BY <2>2, <2>4, <2>5
<1>4. Stopping'
  BY Standing DEF Stopping
<1>5. QED
  BY <1>1, <1>2, <1>3, <1>4

LEMMA AskFirstStep ==
  ASSUME SInv, AskFirst
  PROVE  SInv'
<1> USE DEF SInv
<1>1. /\ first.at = "ask" /\ Ask /\ first' = [first EXCEPT !.at = "mark"] /\ ViewTyped
      /\ open' = IF ResponseOf(first.view) \in {"clarification", "question"}
                   THEN open \cup {"clarification"} ELSE open
      /\ UNCHANGED <<wf, job, answer, asking, late, crashes>>
  BY DEF AskFirst
<1>2. first' \in First /\ first'.at = "mark" /\ first'.view = first.view
  BY <1>1 DEF ViewTyped, First
<1>3. /\ writer' \in [Writers -> Writer]
      /\ \A w \in Writers : writer'[w] = writer[w] \/ writer'[w] = Quiet("read")
  BY <1>1, Asked
<1>4. ViewTyped'
  BY <1>1, <1>2, <1>3 DEF ViewTyped, Items
<1>5. open \subseteq open' /\ open' \subseteq open \cup {"clarification"}
  BY <1>1
<1>6. /\ Course' /\ OneWay' /\ Stopping' /\ (Owed => Owed')
      /\ ~late => Cleared' /\ Gateway' /\ Paying'
  BY <1>1, <1>5, AloneStep
<1>7. FirstOk'
  BY <1>1, <1>2 DEF FirstOk
<1>8. WritersOk'
  <2>1. ASSUME NEW w \in Writers
        PROVE  /\ writer'[w].at = "idle" => writer'[w].view = "none" /\ ~writer'[w].mine
               /\ writer'[w].mine => writer'[w].view = job'
               /\ writer'[w].view = "chat"
                    => first'.at \notin {"run", "keep"} /\ first'.view.wf = "chat"
    <3>1. CASE writer'[w] = writer[w]
      BY <1>1, <1>2, <3>1 DEF WritersOk
    <3>2. CASE writer'[w] = Quiet("read")
      BY <3>2 DEF Quiet
    <3>3. QED
      BY <1>3, <3>1, <3>2
  <2>2. QED
    BY <2>1 DEF WritersOk
<1>9. JobOk'
  BY <1>1, <1>2 DEF JobOk
<1>10. ASSUME ~late PROVE Unmoved' /\ TrueJob'
  <2>1. Unmoved'
    BY <1>2 DEF Unmoved
  <2>2. IsTrue(job) => IsTrue(job)'
    <3>1. job' = job /\ wf' = wf
      BY <1>1
    <3>2. QED
      BY <1>5, <3>1 DEF IsTrue
  <2>3. FirstOwes => FirstOwes' \/ IsTrue(job)'
    <3>1. CASE job = "clarification"
      <4>1. ResponseOf(first.view) = "clarification"
        BY <1>1, <3>1 DEF JobOk
      <4>2. job' = "clarification" /\ "clarification" \in open'
        BY <1>1, <3>1, <4>1
      <4>3. QED
        BY <4>2 DEF IsTrue, Items
    <3>2. CASE job # "clarification"
      BY <1>1, <1>2, <3>2 DEF FirstOwes
    <3>3. QED
      BY <3>1, <3>2
  <2>4. TrueJob
    BY <1>10 DEF OnTime
  <2>5. QED
    BY <1>1, <1>6, <2>1, <2>2, <2>3, <2>4 DEF TrueJob
<1>11. QED
  BY <1>1, <1>4, <1>6, <1>7, <1>8, <1>9, <1>10 DEF OnTime

LEMMA MarkFirstStep ==
  ASSUME SInv, MarkFirst
  PROVE  SInv'
<1> USE DEF SInv
<1>1. /\ first.at = "mark" /\ first' = [first EXCEPT !.at = "over"] /\ ViewTyped
      /\ wf' = IF ResponseOf(first.view) = "error" /\ wf \in {"PENDING", "RUNNING"} THEN "FAILED"
               ELSE wf
      /\ UNCHANGED <<open, job, answer, writer, asking, late, crashes>>
  BY DEF MarkFirst
<1>2. first' \in First /\ first'.at = "over" /\ first'.view = first.view
  BY <1>1 DEF ViewTyped, First
<1>3. ViewTyped'
  BY <1>1, <1>2 DEF ViewTyped, Statuses, Final
<1>4. /\ Course' /\ OneWay' /\ Stopping' /\ (Owed => Owed')
      /\ ~late => Cleared' /\ Gateway' /\ Paying'
  <2>1. /\ wf = "CANCELLED" => wf' = "CANCELLED"
        /\ wf' = "CANCELLED" => wf = "CANCELLED"
        /\ wf = "SUCCESS" => wf' = "SUCCESS"
    BY <1>1
  <2>2. QED
    BY <1>1, <1>2, <2>1, AloneStep
<1>5. FirstOk' /\ WritersOk' /\ JobOk'
  BY <1>1, <1>2 DEF FirstOk, WritersOk, JobOk
<1>6. ASSUME ~late PROVE Unmoved' /\ TrueJob'
  <2>1. Unmoved'
    BY <1>2 DEF Unmoved
  <2>2. IsTrue(job) => IsTrue(job)'
    <3>1. job' = job /\ open' = open /\ (wf' = wf \/ wf \in {"PENDING", "RUNNING"})
      BY <1>1
    <3>2. QED
      BY <3>1 DEF IsTrue, Items
  <2>3. FirstOwes => IsTrue(job)'
    <3>1. ASSUME FirstOwes PROVE IsTrue(job)'
      <4>1. job = "error" /\ wf \in {"PENDING", "RUNNING"}
        BY <1>1, <3>1 DEF FirstOwes
      <4>2. ResponseOf(first.view) = "error"
        BY <4>1 DEF JobOk
      <4>3. wf' = "FAILED" /\ job' = "error"
        BY <1>1, <4>1, <4>2
      <4>4. QED
        BY <4>3 DEF IsTrue, Items
    <3>2. QED
      BY <3>1
  <2>4. TrueJob
    BY <1>6 DEF OnTime
  <2>5. QED
    BY <1>1, <1>4, <2>1, <2>2, <2>3, <2>4 DEF TrueJob
<1>7. QED
  BY <1>1, <1>3, <1>4, <1>5, <1>6 DEF OnTime

LEMMA SpeakStep ==
  ASSUME SInv, NEW w \in Writers, Speak(w)
  PROVE  SInv'
<1> USE DEF SInv
<1>1. /\ writer[w].at = "speak" /\ ViewTyped
      /\ answer' = IF Savable(writer[w].key)
                     THEN [for |-> writer[w].key, state |-> "READY", text |-> writer[w].key]
                     ELSE answer
      /\ wf' = IF writer[w].view = "chat" /\ wf # "CANCELLED" THEN "SUCCESS" ELSE wf
      /\ job' = Attached(w)
      /\ writer' = [writer EXCEPT ![w] = Quiet("over")]
      /\ UNCHANGED <<open, asking, first, late, crashes>>
  BY DEF Speak
<1>2. job' = job
  BY <1>1 DEF Attached, WritersOk
<1>3. Quiet("over") \in Writer /\ Quiet("over").view = "none" /\ Quiet("over").at = "over"
      /\ ~Quiet("over").mine
  BY DEF Quiet, Writer
<1>4. /\ writer' \in [Writers -> Writer] /\ writer'[w] = Quiet("over")
      /\ \A u \in Writers \ {w} : writer'[u] = writer[u]
  BY <1>1, <1>3 DEF ViewTyped
<1>5. writer[w].key \in AnswerKeys \cup {NoKey}
  BY <1>1 DEF ViewTyped, Writer
<1>6. answer' \in Sentence /\ wf' \in Statuses
  BY <1>1, <1>5, Sentences DEF ViewTyped, Statuses, Final
<1>7. ViewTyped'
  BY <1>1, <1>2, <1>4, <1>6 DEF ViewTyped
<1>8. /\ Course' /\ OneWay' /\ Stopping' /\ (Owed => Owed')
      /\ ~late => Cleared' /\ Gateway' /\ Paying'
  <2>1. /\ wf = "CANCELLED" => wf' = "CANCELLED"
        /\ wf' = "CANCELLED" => wf = "CANCELLED"
        /\ wf = "SUCCESS" => wf' = "SUCCESS"
    BY <1>1
  <2>2. QED
    BY <1>1, <1>2, <2>1, AloneStep
<1>9. first.at # "run"
  BY <1>1 DEF FirstOk
<1>10. FirstOk' /\ JobOk'
  BY <1>1, <1>2, <1>9 DEF FirstOk, JobOk
<1>11. WritersOk'
  <2>1. ASSUME NEW u \in Writers
        PROVE  /\ writer'[u].at = "idle" => writer'[u].view = "none" /\ ~writer'[u].mine
               /\ writer'[u].mine => writer'[u].view = job'
               /\ writer'[u].view = "chat"
                    => first'.at \notin {"run", "keep"} /\ first'.view.wf = "chat"
    <3>1. CASE u # w
      BY <1>1, <1>2, <1>4, <3>1 DEF WritersOk
    <3>2. CASE u = w
      BY <1>3, <1>4, <3>2
    <3>3. QED
      BY <3>1, <3>2
  <2>2. QED
    BY <2>1 DEF WritersOk
\* Only a chat moves the rows, when it is over, and no other response stands then.
<1>12. wf' # wf => /\ wf' = "SUCCESS" /\ wf # "CANCELLED" /\ first.at \notin {"run", "keep"}
                  /\ job \in {"none", "success", "cancelled", "question", "chat"}
  <2>1. ASSUME wf' # wf
        PROVE  /\ wf' = "SUCCESS" /\ wf # "CANCELLED" /\ first.at \notin {"run", "keep"}
               /\ job \in {"none", "success", "cancelled", "question", "chat"}
    <3>1. writer[w].view = "chat" /\ wf # "CANCELLED" /\ wf' = "SUCCESS"
      BY <1>1, <2>1
    <3>2. first.at \notin {"run", "keep"} /\ first.view.wf = "chat"
      BY <3>1 DEF WritersOk
    <3>3. ResponseOf(first.view) \in {"question", "chat"}
      BY <3>2, ResponseIs DEF Views
    <3>4. QED
      BY <3>1, <3>2, <3>3 DEF JobOk
  <2>2. QED
    BY <2>1
<1>13. ASSUME ~late PROVE Unmoved' /\ TrueJob'
  <2>1. Unmoved /\ TrueJob
    BY <1>13 DEF OnTime
  <2>2. Unmoved'
    <3>1. first.at = "keep" => wf' = wf
      BY <1>12
    <3>2. QED
      BY <1>1, <2>1, <3>1, Standing DEF Unmoved
  <2>3. CASE wf' = wf
    <3>1. (IsTrue(job)' <=> IsTrue(job)) /\ (FirstOwes' <=> FirstOwes)
      BY <1>1, <1>2, <2>3 DEF IsTrue, FirstOwes
    <3>2. QED
      BY <1>2, <1>8, <2>1, <2>2, <3>1 DEF TrueJob
  <2>4. CASE wf' # wf
    <3>1. IsTrue(job) => IsTrue(job)'
      BY <1>1, <1>2, <1>12, <2>4 DEF IsTrue, Items
    <3>2. ~FirstOwes
      BY <1>12, <2>4 DEF FirstOwes
    <3>3. QED
      BY <1>2, <1>8, <2>1, <2>2, <3>1, <3>2 DEF TrueJob
  <2>5. QED
    BY <2>3, <2>4
<1>14. QED
  BY <1>1, <1>7, <1>8, <1>10, <1>11, <1>13 DEF OnTime

\* The rows, the kept response, the requests and the first run stay as they are.
LEMMA SameStep ==
  ASSUME SInv, UNCHANGED <<wf, open, job, asking, first, late, crashes>>,
         answer' \in Sentence, writer' \in [Writers -> Writer], WritersOk',
         \A w \in Writers : writer[w].at = "idle" => writer'[w].at = "idle"
  PROVE  SInv'
<1> USE DEF SInv
<1>1. ViewTyped'
  BY DEF ViewTyped
<1>2. /\ Course' /\ OneWay' /\ Stopping' /\ (Owed => Owed')
      /\ ~late => Cleared' /\ Gateway' /\ Paying'
  BY AloneStep
<1>3. FirstOk'
  BY Standing DEF FirstOk
<1>4. JobOk'
  BY DEF JobOk
<1>5. ASSUME ~late PROVE Unmoved' /\ TrueJob'
  <2>1. Unmoved /\ TrueJob
    BY <1>5 DEF OnTime
  <2>2. Unmoved'
    BY <2>1, Standing DEF Unmoved
  <2>3. (IsTrue(job)' <=> IsTrue(job)) /\ (FirstOwes' <=> FirstOwes)
    BY DEF IsTrue, FirstOwes
  <2>4. QED
    BY <1>2, <2>1, <2>2, <2>3 DEF TrueJob
<1>6. QED
  BY <1>1, <1>2, <1>3, <1>4, <1>5 DEF OnTime

LEMMA WriterStep ==
  ASSUME SInv, NEW w \in Writers, Read(w) \/ Claim(w)
  PROVE  SInv'
<1> USE DEF SInv
<1>1. /\ writer[w].at \in {"read", "claim"} /\ ViewTyped
      /\ UNCHANGED <<wf, open, job, asking, first, late, crashes>>
  BY DEF Read, Claim, rows
<1>2. /\ writer[w] \in Writer /\ writer \in [Writers -> Writer]
      /\ Quiet("over") \in Writer /\ Quiet("over").view = "none" /\ Quiet("over").at = "over"
      /\ ~Quiet("over").mine
  BY <1>1 DEF Quiet, Writer, ViewTyped
<1>3. PICK r \in Writer :
        /\ writer' = [writer EXCEPT ![w] = r] /\ r.at # "idle"
        /\ r.mine => r.view = job
        /\ r.view = "chat" => first.at \notin {"run", "keep"} /\ first.view.wf = "chat"
        /\ answer' \in Sentence
  <2>1. CASE Read(w)
    <3> DEFINE v == IF job # "none" THEN job ELSE Cold
               r == [at |-> "claim", view |-> v, key |-> Key(v), mine |-> job # "none"]
    <3>1. writer' = [writer EXCEPT ![w] = r] /\ answer' = answer
      BY <2>1 DEF Read
    <3>2. v \in Views /\ (v = "chat" => job = "chat") /\ (job # "none" => v = job)
      BY <1>1, ColdIs DEF ViewTyped
    <3> HIDE DEF v
    <3>3. Key(v) \in AnswerKeys
      BY <3>2, Keyed
    <3>4. r \in Writer /\ r.at # "idle" /\ (r.mine => r.view = job) /\ r.view = v
      BY <3>2, <3>3 DEF Writer
    <3>5. v = "chat" => first.at \notin {"run", "keep"} /\ first.view.wf = "chat"
      <4>1. ASSUME v = "chat" PROVE first.at \notin {"run", "keep"} /\ first.view.wf = "chat"
        <5>1. first.at \notin {"run", "keep"} /\ ResponseOf(first.view) = "chat"
          BY <3>2, <4>1 DEF JobOk
        <5>2. first.view.wf = "chat"
          BY <5>1, ResponseIs
        <5>3. QED
          BY <5>1, <5>2
      <4>2. QED
        BY <4>1
    <3>6. answer' \in Sentence
      BY <1>1, <3>1 DEF ViewTyped
    <3> HIDE DEF r
    <3>7. QED
      BY <3>1, <3>4, <3>5, <3>6
  <2>2. CASE Claim(w) /\ Claimable(writer[w].key)
    <3> DEFINE r == [writer[w] EXCEPT !.at = "speak"]
    <3>1. writer' = [writer EXCEPT ![w] = r] /\ answer' = Claimed(writer[w].key)
      BY <1>2, <2>2 DEF Claim
    <3>2. /\ r \in Writer /\ r.at = "speak" /\ r.view = writer[w].view /\ r.mine = writer[w].mine
          /\ writer[w].key \in AnswerKeys \cup {NoKey}
      BY <1>2 DEF Writer
    <3>3. answer' \in Sentence
      BY <3>1, <3>2, Sentences
    <3> HIDE DEF r
    <3>4. QED
      BY <3>1, <3>2, <3>3 DEF WritersOk
  <2>3. CASE Claim(w) /\ ~Claimable(writer[w].key)
    <3>1. writer' = [writer EXCEPT ![w] = Quiet("over")] /\ answer' = answer
      BY <2>3 DEF Claim
    <3>2. QED
      BY <1>1, <1>2, <3>1 DEF ViewTyped
  <2>4. QED
    BY <2>1, <2>2, <2>3
<1>4. /\ writer' \in [Writers -> Writer] /\ writer'[w] = r
      /\ \A u \in Writers \ {w} : writer'[u] = writer[u]
  BY <1>2, <1>3
<1>5. WritersOk'
  <2>1. ASSUME NEW u \in Writers
        PROVE  /\ writer'[u].at = "idle" => writer'[u].view = "none" /\ ~writer'[u].mine
               /\ writer'[u].mine => writer'[u].view = job'
               /\ writer'[u].view = "chat"
                    => first'.at \notin {"run", "keep"} /\ first'.view.wf = "chat"
    <3>1. CASE u # w
      BY <1>1, <1>4, <3>1 DEF WritersOk
    <3>2. CASE u = w
      BY <1>1, <1>3, <1>4, <3>2
    <3>3. QED
      BY <3>1, <3>2
  <2>2. QED
    BY <2>1 DEF WritersOk
<1>6. \A u \in Writers : writer[u].at = "idle" => writer'[u].at = "idle"
  BY <1>1, <1>4
<1>7. QED
  BY <1>1, <1>3, <1>4, <1>5, <1>6, SameStep

LEMMA AgeStep ==
  ASSUME SInv, Age
  PROVE  SInv'
<1>1. ViewTyped /\ WritersOk
  BY DEF SInv
<1>2. UNCHANGED <<wf, open, job, writer, asking, first, late, crashes>>
  BY DEF Age, rows
<1>3. answer' \in Sentence
  BY <1>1 DEF Age, ViewTyped, Sentence
<1>4. WritersOk' /\ writer' \in [Writers -> Writer]
  BY <1>1, <1>2 DEF WritersOk, ViewTyped
<1>5. QED
  BY <1>2, <1>3, <1>4, SameStep

LEMMA CrashStep ==
  ASSUME SInv, Crash
  PROVE  SInv'
<1> USE DEF SInv
<1>1. /\ crashes < MaxCrashes /\ crashes' = crashes + 1 /\ job' = "none" /\ ViewTyped
      /\ writer' = [w \in Writers |-> IF writer[w].at = "idle" THEN writer[w] ELSE Quiet("over")]
      /\ asking' = [a \in Asking |-> IF asking[a].at = "go" THEN [Waits EXCEPT !.at = "over"]
                                     ELSE asking[a]]
      /\ first' = [first EXCEPT !.at = "over"]
      /\ UNCHANGED <<wf, open, answer, late>>
  BY DEF Crash, rows
<1>2. first' \in First /\ first'.at = "over"
  BY <1>1 DEF ViewTyped, First
<1>3. asking' \in [Asking -> Asker] /\ \A a \in Asking : ~Going(a)'
  BY <1>1, OverIs DEF ViewTyped, Going
<1>4. Quiet("over") \in Writer /\ Quiet("over").view = "none" /\ Quiet("over").at = "over"
      /\ ~Quiet("over").mine
  BY DEF Quiet, Writer
<1>5. writer' \in [Writers -> Writer]
      /\ \A w \in Writers : writer'[w].view = "none" /\ ~writer'[w].mine
  BY <1>1, <1>4 DEF ViewTyped, WritersOk
<1>6. ViewTyped'
  BY <1>1, <1>2, <1>3, <1>5, ViewAssumptions DEF ViewTyped
<1>7. Course' /\ Stopping'
  BY <1>3 DEF Course, Stopping, Past
<1>8. FirstOk' /\ JobOk' /\ OneWay'
  BY <1>1, <1>2 DEF FirstOk, JobOk, OneWay
<1>9. WritersOk'
  BY <1>5 DEF WritersOk
<1>10. ASSUME ~late PROVE OnTime'
  <2>1. Unmoved' /\ Cleared' /\ Gateway' /\ TrueJob'
    BY <1>1, <1>2 DEF Unmoved, Cleared, Gateway, Gone, TrueJob
  <2>2. Paying'
    BY <1>3 DEF Paying
  <2>3. QED
    BY <2>1, <2>2 DEF OnTime
<1>11. QED
  BY <1>1, <1>6, <1>7, <1>8, <1>9, <1>10

LEMMA SweepStep ==
  ASSUME SInv, Sweep
  PROVE  SInv'
<1> USE DEF SInv
<1>1. /\ late' = TRUE /\ UNCHANGED <<job, answer, writer, asking, first, crashes>> /\ ViewTyped
      /\ open' \subseteq open /\ wf' \in {"CANCELLED", "FAILED"}
      /\ wf # "CANCELLED" /\ (wf # "WAITING_APPROVAL" => first.at = "over")
  BY DEF Sweep
<1>2. ViewTyped'
  BY <1>1 DEF ViewTyped, Statuses, Final
<1>3. Course'
  BY <1>1, CourseKept
<1>4. Stopping'
  BY <1>1, Standing DEF Stopping
<1>5. first.at # "run"
  BY <1>1 DEF FirstOk
<1>6. FirstOk'
  BY <1>1, <1>5 DEF FirstOk
<1>7. WritersOk' /\ JobOk' /\ OneWay'
  BY <1>1 DEF WritersOk, JobOk, OneWay
<1>8. QED
  BY <1>1, <1>2, <1>3, <1>4, <1>6, <1>7

LEMMA FirstRunStep ==
  ASSUME SInv, FirstRun
  PROVE  SInv'
<1> USE DEF SInv
<1>1. first.at = "run" /\ UNCHANGED <<job, answer, writer, asking, late, crashes>> /\ ViewTyped
  BY DEF FirstRun
<1>2. /\ open = {} /\ wf \in {"PENDING", "CANCELLED"} /\ job = "none"
      /\ \A w \in Writers : writer[w].at = "idle"
      /\ \A a \in Asking : Going(a) => Kind(a) = "stop"
      /\ wf = "CANCELLED" => \E a \in Asking : Kind(a) = "stop" /\ Past(a, "cancel")
  BY <1>1 DEF FirstOk
<1>3. PICK r : /\ first' = [at |-> "keep", view |-> r]
               /\ \/ r \in Rests /\ RestOf(r)
                  \/ /\ r.wf \in {"clarification", "chat", "error"} /\ r.open = {}
                     /\ r = [wf |-> r.wf, open |-> {}] /\ UNCHANGED <<wf, open>>
  BY DEF FirstRun, rows
<1>4. /\ first'.at = "keep" /\ first'.view = r
      /\ r \in Rests \/ (r.wf \in {"clarification", "chat", "error"} /\ r.open = {})
      /\ wf = "CANCELLED" => wf' = wf /\ open' = open
      /\ wf # "CANCELLED" => \/ r \in Rests /\ wf' = r.wf /\ open' = r.open
                             \/ /\ r.wf \in {"clarification", "chat", "error"} /\ open' = {}
                                /\ wf' = "PENDING"
  BY <1>2, <1>3 DEF RestOf
<1>5. r \in Rests => /\ r.wf \in {"SUCCESS", "FAILED", "WAITING_APPROVAL"}
                     /\ r.open \subseteq Items \ {"session"}
                     /\ r \in [wf : Statuses \cup {"none", "clarification", "chat", "error"},
                               open : SUBSET Items]
  BY ViewAssumptions DEF Statuses, Final
<1>6. first' \in First
  BY <1>3, <1>5 DEF First
<1>7. /\ wf' \in Statuses /\ open' \subseteq Items /\ "session" \notin open'
      /\ (wf' = "CANCELLED" <=> wf = "CANCELLED")
  BY <1>1, <1>2, <1>4, <1>5 DEF ViewTyped, Statuses, Final
<1>8. ViewTyped'
  BY <1>1, <1>6, <1>7 DEF ViewTyped
<1>9. Course'
  BY <1>1, CourseKept
<1>10. FirstOk'
  BY <1>4 DEF FirstOk
<1>11. WritersOk'
  <2>1. ASSUME NEW w \in Writers PROVE writer'[w].view = "none" /\ ~writer'[w].mine
    BY <1>1, <1>2 DEF WritersOk
  <2>2. QED
    BY <2>1 DEF WritersOk
<1>12. JobOk' /\ OneWay'
  BY <1>1, <1>2, <1>7 DEF JobOk, OneWay
<1>13. Stopping'
  <2>1. ASSUME NEW a \in Asking, Kind(a)' = "stop"
        PROVE  /\ Past(a, "cancel")' => wf' = "CANCELLED"
               /\ Past(a, "keep")' => first'.at = "over"
    <3>1. Kind(a) = "stop" /\ (Past(a, "cancel")' <=> Past(a, "cancel")) /\ (Past(a, "keep")' <=> Past(a, "keep"))
      BY <1>1, <2>1, Standing
    <3>2. QED
      BY <1>1, <1>7, <3>1 DEF Stopping
  <2>2. QED
    BY <2>1 DEF Stopping
<1>14. ASSUME ~late PROVE OnTime'
  <2>1. Unmoved'
    <3>1. ASSUME \A a \in Asking : ~(Kind(a)' = "stop" /\ Past(a, "cancel")')
          PROVE  wf # "CANCELLED"
      BY <1>1, <1>2, <3>1, Standing
    <3>2. QED
      BY <1>4, <1>7, <3>1 DEF Unmoved
  <2>2. Cleared' /\ Gateway' /\ TrueJob'
    BY <1>1, <1>2 DEF Cleared, Gateway, Gone, TrueJob
  <2>3. Paying'
    <3>1. \A a \in Asking : Going(a)' => Kind(a)' = "stop"
      BY <1>1, <1>2, Standing
    <3>2. QED
      BY <3>1 DEF Paying
  <2>4. QED
    BY <2>1, <2>2, <2>3 DEF OnTime
<1>15. QED
  BY <1>1, <1>8, <1>9, <1>10, <1>11, <1>12, <1>13, <1>14

LEMMA KeepFirstStep ==
  ASSUME SInv, KeepFirst
  PROVE  SInv'
<1> USE DEF SInv
<1>1. /\ first.at = "keep" /\ ViewTyped /\ Keep(ResponseOf(first.view))
      /\ first' = [first EXCEPT !.at = "ask"]
      /\ late' = (late \/ \E a \in Asking : asking[a].at = "go")
      /\ UNCHANGED <<wf, open, answer, asking, crashes>>
  BY DEF KeepFirst, rows
<1>2. first' \in First /\ first'.at = "ask" /\ first'.view = first.view
  BY <1>1 DEF ViewTyped, First
<1> DEFINE v == ResponseOf(first.view)
<1>3. v \in Views
  BY ResponseIs DEF Views
<1>4. /\ job' = v /\ writer' \in [Writers -> Writer]
      /\ \A w \in Writers : /\ writer'[w].at = writer[w].at /\ ~writer'[w].mine
                            /\ writer'[w].view = writer[w].view
  <2>1. writer \in [Writers -> Writer]
    BY <1>1 DEF ViewTyped
  <2>2. ASSUME NEW w \in Writers
        PROVE  /\ [writer[w] EXCEPT !.mine = FALSE] \in Writer
               /\ [writer[w] EXCEPT !.mine = FALSE].at = writer[w].at
               /\ [writer[w] EXCEPT !.mine = FALSE].view = writer[w].view
               /\ ~[writer[w] EXCEPT !.mine = FALSE].mine
    <3>1. writer[w] \in Writer
      BY <2>1
    <3>2. QED
      BY <3>1 DEF Writer
  <2>3. job' = v /\ writer' = [w \in Writers |-> [writer[w] EXCEPT !.mine = FALSE]]
    BY <1>1 DEF Keep
  <2>4. QED
    BY <2>2, <2>3
<1>5. ViewTyped'
  BY <1>1, <1>2, <1>3, <1>4 DEF ViewTyped
<1>6. Course'
  BY <1>1, CourseKept
<1>7. FirstOk' /\ OneWay'
  BY <1>1, <1>2 DEF FirstOk, OneWay
<1>8. JobOk'
  BY <1>2, <1>4 DEF JobOk
<1>9. WritersOk'
  BY <1>1, <1>2, <1>4 DEF WritersOk
<1>10. Stopping'
  BY <1>1, Standing DEF Stopping
<1>11. ASSUME ~late' PROVE OnTime'
  <2>1. ~late /\ \A a \in Asking : ~Going(a) /\ ~Going(a)'
    BY <1>1, <1>11, Standing DEF Going
  <2>2. Unmoved
    BY <2>1 DEF OnTime
  <2>3. /\ "session" \notin open
        /\ \/ first.view.wf \in {"clarification", "chat", "error"} /\ open = {} /\ wf = "PENDING"
           \/ first.view \in Rests /\ wf = first.view.wf /\ open = first.view.open
    BY <1>1, <2>1, <2>2 DEF Unmoved, Past
  <2>4. IsTrue(job)' \/ FirstOwes'
    <3>1. CASE first.view \in Rests /\ wf = first.view.wf /\ open = first.view.open
      <4>1. /\ first.view.wf \in {"SUCCESS", "FAILED", "WAITING_APPROVAL"}
            /\ (first.view.open \cap Boundaries = {} => first.view.wf # "WAITING_APPROVAL")
        BY <3>1, ViewAssumptions
      <4>2. first.view.wf \notin Views
        BY <4>1 DEF Views
      <4>3. \/ "hints" \in open /\ v = "question"
            \/ "asked" \in open /\ v = "payment"
            \/ "viewing" \in open /\ v = "viewing"
            \/ "proposals" \in open /\ v = "proposals"
            \/ "conflict" \in open /\ v = "conflict"
            \/ "service" \in open /\ v = "service"
            \/ wf = "SUCCESS" /\ v = "success"
            \/ wf = "FAILED" /\ v = "failed"
        BY <3>1, <4>1, <4>2, ResponseIs
      <4> HIDE DEF v
      <4>4. wf' = wf /\ open' = open
        BY <1>1
      <4>5. QED
        BY <1>4, <4>3, <4>4 DEF IsTrue, Items
    <3>2. CASE /\ first.view.wf \in {"clarification", "chat", "error"} /\ open = {}
               /\ wf = "PENDING"
      <4>1. first.view.open = {}
        BY <1>1, <3>2, ViewAssumptions DEF FirstOk
      <4>2. v = first.view.wf
        BY <3>2, <4>1, ResponseIs DEF Views
      <4> HIDE DEF v
      <4>3. CASE v = "chat"
        BY <1>4, <4>3 DEF IsTrue, Items
      <4>4. CASE v # "chat"
        BY <1>1, <1>2, <1>4, <3>2, <4>2, <4>4 DEF FirstOwes
      <4>5. QED
        BY <4>3, <4>4
    <3>3. QED
      BY <2>3, <3>1, <3>2
  <2>5. Cleared' /\ Paying' /\ Gateway'
    BY <1>1, <2>1, <2>3 DEF Cleared, Paying, Gateway, Past
  <2>6. Unmoved'
    BY <1>1, <1>2, <2>2 DEF Unmoved
  <2>7. QED
    BY <2>4, <2>5, <2>6 DEF OnTime, TrueJob
<1>12. QED
  BY <1>5, <1>6, <1>7, <1>8, <1>9, <1>10, <1>11

LEMMA StartIs ==
  ASSUME NEW k \in Kinds
  PROVE  Steps(k)[1] # "status"
<1>1. CASE k = "service"
  BY <1>1, ServiceSteps
<1>2. CASE k = "viewing"
  BY <1>2, ViewingSteps
<1>3. CASE k = "pay"
  BY <1>3, PaySteps
<1>4. CASE k = "session"
  BY <1>4, SessionSteps
<1>5. CASE k = "refuse"
  BY <1>5, RefuseSteps
<1>6. CASE k = "gateway"
  BY <1>6, GatewaySteps
<1>7. CASE k = "confirm"
  BY <1>7, ConfirmSteps
<1>8. CASE k = "another"
  BY <1>8, AnotherSteps
<1>9. CASE k = "conflict"
  BY <1>9, ConflictSteps
<1>10. CASE k = "answer"
  BY <1>10, AnswerSteps
<1>11. CASE k = "retry"
  BY <1>11, RetrySteps
<1>12. CASE k = "amend"
  BY <1>12, AmendSteps
<1>13. CASE k = "stop"
  BY <1>13, StopSteps
<1>14. CASE k = "unpaid"
  BY <1>14, UnpaidSteps
<1>15. QED
  BY <1>1, <1>2, <1>3, <1>4, <1>5, <1>6, <1>7, <1>8, <1>9, <1>10, <1>11, <1>12, <1>13, <1>14, KindsAre

LEMMA NeedsAre ==
  ASSUME NEW k \in Kinds
  PROVE  /\ k = "pay" => Endpoints[k].needs = "asked"
         /\ Endpoints[k].needs \notin {"CANCELLED"}
         /\ Endpoints[k].needs = "PENDING" => k = "stop"
  BY KindsAre DEF Endpoints, ServiceDecision, ViewingDecision, MockPayment, OpenSession,
     RefusePayment, GatewayCalls, ConfirmProposal, AnotherProvider, ConflictReply,
     AnswerAndRerun, Retry, AmendOne, Stop, StopUnpaid

LEMMA CallStep ==
  ASSUME SInv, NEW a \in Asking, Call(a)
  PROVE  SInv'
<1> USE DEF SInv
<1>1. asking[a].at = "idle" /\ UNCHANGED <<wf, open, job, answer, writer, first, late, crashes>>
      /\ ViewTyped
  BY DEF Call, rows
<1>2. PICK kind \in Kinds :
        /\ Needed(kind)
        /\ asking' = [asking EXCEPT ![a] = [Waits EXCEPT !.at = "go", !.kind = kind,
                                                        !.left = Endpoints[kind].steps]]
  BY DEF Call, Kinds
<1> DEFINE r == [Waits EXCEPT !.at = "go", !.kind = kind, !.left = Steps(kind)]
<1>3. Steps(kind) \in Seq(StepNames) /\ Len(Steps(kind)) \in 2..6
  BY Long
<1>4. r \in Asker /\ r.at = "go" /\ r.kind = kind /\ r.left = Steps(kind)
  BY <1>3, OverIs DEF Asker
<1>5. asking' = [asking EXCEPT ![a] = r]
  BY <1>2 DEF Steps
<1> HIDE DEF r
<1>6. /\ asking' \in [Asking -> Asker] /\ asking'[a] = r
      /\ \A b \in Asking \ {a} : asking'[b] = asking[b]
  BY <1>1, <1>4, <1>5 DEF ViewTyped
<1>7. ~Going(a) /\ Going(a)' /\ Kind(a)' = kind /\ Place(a)' = 1
  BY <1>1, <1>3, <1>4, <1>6 DEF Going, Kind, Place
<1>8. \A x \in StepNames : ~Past(a, x) /\ ~Past(a, x)'
  BY <1>7 DEF Past, Did
<1>9. \A b \in Asking \ {a} : /\ Going(b)' <=> Going(b)
                              /\ Kind(b)' = Kind(b) /\ Place(b)' = Place(b)
                              /\ \A x \in StepNames : Past(b, x)' <=> Past(b, x)
  <2>1. ASSUME NEW b \in Asking \ {a}
        PROVE  (Going(b)' <=> Going(b)) /\ Kind(b)' = Kind(b) /\ Place(b)' = Place(b)
    BY <1>6 DEF Going, Kind, Place
  <2>2. QED
    BY <2>1 DEF Past
<1>10. {"cancel", "decide", "forget", "keep", "succeed"} \subseteq StepNames
  BY DEF StepNames
<1>11. \A b \in Asking : \A x \in StepNames : Past(b, x)' <=> Past(b, x)
  BY <1>8, <1>9
<1>12. \A b \in Asking : \A x \in StepNames : Past(b, x) => Kind(b)' = Kind(b) /\ b # a
  BY <1>8, <1>9
<1>13. ViewTyped'
  BY <1>1, <1>6 DEF ViewTyped
<1>14. Course'
  <2>1. ASSUME NEW b \in Asking, Going(b)'
        PROVE  LET t == Steps(Kind(b)') IN
               /\ \E p \in 1..Len(t) : asking'[b].left = SubSeq(t, p, Len(t))
               /\ t[Place(b)'] = "status" => asking'[b].rest.wf \in Statuses \ {"CANCELLED"}
    <3>1. CASE b # a
      BY <1>6, <1>9, <2>1, <3>1 DEF Course
    <3>2. CASE b = a
      <4>1. Steps(kind) = SubSeq(Steps(kind), 1, Len(Steps(kind)))
        BY <1>3, SubSeqFull
      <4>2. Steps(kind)[1] # "status"
        BY <1>2, StartIs
      <4>3. QED
        BY <1>3, <1>4, <1>6, <1>7, <3>2, <4>1, <4>2
    <3>3. QED
      BY <3>1, <3>2
  <2>2. QED
    BY <2>1 DEF Course
<1>15. \/ Endpoints[kind].needs \in open \cup {wf} \/ kind = "stop"
       \/ kind = "unpaid" /\ "session" \in open
  BY <1>2 DEF Needed
<1>16. FirstOk'
  <2>1. ASSUME first.at = "run"
        PROVE  /\ \A b \in Asking : Going(b)' => Kind(b)' = "stop"
               /\ wf = "CANCELLED" => \E b \in Asking : Kind(b)' = "stop" /\ Past(b, "cancel")'
    <3>1. open = {} /\ wf \in {"PENDING", "CANCELLED"}
      BY <2>1 DEF FirstOk
    <3>2. kind = "stop"
      BY <1>15, <3>1, NeedsAre
    <3>3. \A b \in Asking : Going(b)' => Kind(b)' = "stop"
      BY <1>7, <1>9, <2>1, <3>2 DEF FirstOk
    <3>4. QED
      BY <1>10, <1>11, <1>12, <2>1, <3>3 DEF FirstOk
  <2>2. QED
    BY <1>1, <2>1 DEF FirstOk
<1>17. WritersOk' /\ JobOk' /\ OneWay'
  BY <1>1 DEF WritersOk, JobOk, OneWay
<1>18. Stopping'
  <2>1. ASSUME NEW b \in Asking, Kind(b)' = "stop"
        PROVE  /\ Past(b, "cancel")' => wf = "CANCELLED"
               /\ Past(b, "keep")' => first.at = "over"
    BY <1>8, <1>9, <1>10, <2>1 DEF Stopping
  <2>2. QED
    BY <1>1, <2>1 DEF Stopping
<1>19. ASSUME ~late PROVE OnTime'
  <2>1. Unmoved /\ Cleared /\ Gateway /\ Paying /\ TrueJob
    BY <1>19 DEF OnTime
  <2>2. Unmoved'
    <3>1. (\A b \in Asking : ~(Kind(b)' = "stop" /\ Past(b, "cancel")'))
            => \A b \in Asking : ~(Kind(b) = "stop" /\ Past(b, "cancel"))
      BY <1>10, <1>11, <1>12
    <3>2. QED
      BY <1>1, <2>1, <3>1 DEF Unmoved
  <2>3. Cleared'
    BY <1>1, <1>10, <1>11, <2>1 DEF Cleared
  <2>4. Gateway'
    <3>1. \A b \in Asking : Kind(b)' = "gateway" /\ Past(b, "decide")' /\ ~Past(b, "succeed")'
            => Gone
      BY <1>8, <1>9, <1>10, <2>1 DEF Gateway
    <3>2. Gone' <=> Gone
      BY <1>1 DEF Gone
    <3>3. QED
      BY <1>1, <2>1, <3>1, <3>2 DEF Gateway
  <2>5. Paying'
    <3>1. ASSUME NEW b \in Asking, Going(b)', Kind(b)' = "pay", ~Past(b, "keep")'
          PROVE  "session" \notin open
      <4>1. CASE b # a
        BY <1>9, <1>10, <2>1, <3>1, <4>1 DEF Paying
      <4>2. CASE b = a
        <5>1. "asked" \in open
          BY <1>1, <1>7, <1>15, <3>1, <4>2, NeedsAre DEF ViewTyped, Statuses, Final
        <5>2. QED
          BY <5>1 DEF OneWay
      <4>3. QED
        BY <4>1, <4>2
    <3>2. QED
      BY <1>1, <3>1 DEF Paying
  <2>6. TrueJob'
    <3>1. Owed => Owed'
      BY <1>7, <1>9 DEF Owed
    <3>2. (IsTrue(job)' <=> IsTrue(job)) /\ (FirstOwes' <=> FirstOwes)
      BY <1>1 DEF IsTrue, FirstOwes
    <3>3. QED
      BY <1>1, <2>1, <3>1, <3>2 DEF TrueJob
  <2>7. QED
    BY <2>2, <2>3, <2>4, <2>5, <2>6 DEF OnTime
<1>20. QED
  BY <1>1, <1>13, <1>14, <1>16, <1>17, <1>18, <1>19

LEMMA SInvInit == ViewInit => SInv
<1> SUFFICES ASSUME ViewInit PROVE SInv
  OBVIOUS
<1> USE DEF ViewInit
<1>1. Quiet("idle") \in Writer /\ Quiet("idle").at = "idle" /\ Quiet("idle").view = "none"
      /\ ~Quiet("idle").mine
  BY DEF Quiet, Writer
<1>2. first \in First
  BY DEF First, NoRest
<1>3. /\ asking \in [Asking -> Asker] /\ writer \in [Writers -> Writer]
      /\ \A a \in Asking : ~Going(a)
      /\ \A w \in Writers : writer[w] = Quiet("idle")
  BY <1>1, OverIs DEF Going
<1>4. ViewTyped
  <2>1. wf \in Statuses /\ open \subseteq Items /\ job \in Views \cup {"none"} /\ late \in BOOLEAN
    BY DEF Statuses
  <2>2. answer \in Sentence
    BY DEF Sentence, NoAnswer
  <2>3. crashes \in 0..MaxCrashes
    BY ViewAssumptions
  <2>4. QED
    BY <1>2, <1>3, <2>1, <2>2, <2>3 DEF ViewTyped
<1>5. Course /\ Stopping
  BY <1>3 DEF Course, Stopping, Past
<1>6. FirstOk /\ WritersOk /\ JobOk /\ OneWay
  BY <1>1, <1>3 DEF FirstOk, WritersOk, JobOk, OneWay
<1>7. Cleared /\ Gateway /\ Paying
  BY <1>3 DEF Cleared, Gateway, Paying, Past
<1>8. Unmoved /\ TrueJob
  BY DEF Unmoved, TrueJob
<1>9. QED
  BY <1>4, <1>5, <1>6, <1>7, <1>8 DEF SInv, OnTime

LEMMA SInvStep == SInv /\ [ViewNext]_viewVars => SInv'
<1> SUFFICES ASSUME SInv, [ViewNext]_viewVars PROVE SInv'
  OBVIOUS
<1>1. CASE FirstRun
  BY <1>1, FirstRunStep
<1>2. CASE KeepFirst
  BY <1>2, KeepFirstStep
<1>3. CASE AskFirst
  BY <1>3, AskFirstStep
<1>4. CASE MarkFirst
  BY <1>4, MarkFirstStep
<1>5. CASE Age
  BY <1>5, AgeStep
<1>6. CASE Sweep
  BY <1>6, SweepStep
<1>7. CASE Crash
  BY <1>7, CrashStep
<1>8. ASSUME NEW w \in Writers, Read(w) \/ Claim(w) \/ Speak(w) PROVE SInv'
  BY <1>8, WriterStep, SpeakStep
<1>9. ASSUME NEW a \in Asking,
             \/ Call(a) \/ Decide(a) \/ Forget(a) \/ Run(a) \/ Settle(a)
             \/ Succeed(a) \/ Cancel(a) \/ Reject(a) \/ KeepOwn(a) \/ Renew(a)
             \/ AskAfter(a)
      PROVE  SInv'
  BY <1>9, CallStep, DecideStep, ForgetStep, RunStep, SettleStep, SucceedStep, CancelStep,
     RejectStep, KeepOwnStep, RenewStep, AskAfterStep
<1>10. CASE UNCHANGED viewVars
  <2>1. UNCHANGED <<wf, open, job, asking, first, late, crashes, answer, writer>>
    BY <1>10 DEF viewVars
  <2>2. answer' \in Sentence /\ writer' \in [Writers -> Writer] /\ WritersOk'
    BY <2>1 DEF SInv, ViewTyped, WritersOk
  <2>3. QED
    BY <2>1, <2>2, SameStep
<1>11. QED
  BY <1>1, <1>2, <1>3, <1>4, <1>5, <1>6, <1>7, <1>8, <1>9, <1>10 DEF ViewNext

\* Rows, kept response, sentence and requests keep their type, and a writer that may put
\* its view back has the one that is kept (_attach_answer).
THEOREM ViewsTyped == ViewSpec => []SVTypeOK
<1>1. ASSUME SInv PROVE SVTypeOK
  <2>1. ViewTyped /\ WritersOk
    BY <1>1 DEF SInv
  <2>2. answer \in Sentence /\ first \in First /\ \A w \in Writers : writer[w] \in Writer
    BY <2>1 DEF ViewTyped
  <2>3. QED
    BY <2>1, <2>2 DEF SVTypeOK, ViewTyped, WritersOk, Sentence, First, Writer
<1>2. ViewInit => SInv
  BY SInvInit
<1>3. SInv /\ [ViewNext]_viewVars => SInv'
  BY SInvStep
<1>4. QED
  BY <1>1, <1>2, <1>3, PTL DEF ViewSpec

\* Once every request is through, what the customer is shown is true of the rows, for any
\* outcomes of the runs and any number of requests and writers: the endpoints forget the
\* kept response (_invalidate_cached_response) before they move the rows or after, and
\* _attach_answer puts a response back only where it is still the kept one.  What an
\* endpoint kept without its own writes bearing it out (Unborne) is in late.
THEOREM ShownTrue == ViewSpec => []ShownIsTrue
<1>1. ASSUME SInv PROVE ShownIsTrue
  <2>1. ASSUME Settled, ~late PROVE IsTrue(Shown)
    <3>1. TrueJob
      BY <1>1, <2>1 DEF SInv, OnTime
    <3>2. ~FirstOwes /\ ~Owed
      BY <2>1 DEF Settled, FirstOwes, Owed, Going
    <3>3. job = "none" \/ IsTrue(job)
      BY <3>1, <3>2 DEF TrueJob
    <3>4. IsTrue(Plain)
      BY DEF Plain, IsTrue, Items
    <3>5. PICK v : v = Shown
      OBVIOUS
    <3>6. \/ v = "viewing" /\ "viewing" \in open
          \/ v = "conflict" /\ "conflict" \in open
          \/ v = "payment" /\ open \cap {"asked", "session"} # {}
          \/ v = "proposals" /\ "proposals" \in open
          \/ v = "rejection" /\ "rejection" \in open
          \/ v = "service" /\ open \cap {"viewing", "service"} # {}
          \/ v = job /\ job # "none"
          \/ v = "question" /\ "hints" \in open
          \/ v = "clarification" /\ "clarification" \in open
          \/ v = Plain
      BY <3>5, ShownOf
    <3>7. CASE v = job /\ job # "none"
      BY <3>3, <3>5, <3>7
    <3>8. CASE v = Plain
      BY <3>4, <3>5, <3>8
    <3>9. CASE ~(v = job /\ job # "none") /\ v # Plain
      <4>a. ASSUME v \in {"viewing", "conflict", "proposals", "rejection", "clarification"} PROVE IsTrue(v)
        BY <3>6, <3>9, <4>a DEF IsTrue, Items
      <4>b. ASSUME v = "payment" PROVE IsTrue(v)
        BY <3>6, <3>9, <4>b DEF IsTrue, Items
      <4>c. ASSUME v = "service" PROVE IsTrue(v)
        BY <3>6, <3>9, <4>c DEF IsTrue, Items
      <4>d. ASSUME v = "question" PROVE IsTrue(v)
        BY <3>6, <3>9, <4>d DEF IsTrue, Items
      <4>1. IsTrue(v)
        BY <3>6, <3>9, <4>a, <4>b, <4>c, <4>d
      <4>2. QED
        BY <3>5, <4>1
    <3>10. QED
      BY <3>7, <3>8, <3>9
  <2>2. QED
    BY <2>1 DEF ShownIsTrue
<1>2. QED
  BY <1>1, SInvInit, SInvStep, PTL DEF ViewSpec


\* Whoever writes a sentence writes it with the key it is about, and a claim takes the
\* old one away.
LEMMA FitsStep == ShownFits /\ answer \in Sentence /\ [ViewNext]_viewVars => ShownFits'
<1> SUFFICES ASSUME ShownFits, answer \in Sentence, [ViewNext]_viewVars PROVE ShownFits'
  OBVIOUS
<1>1. CASE UNCHANGED answer
  BY <1>1 DEF ShownFits
<1>2. CASE answer'.text = answer'.for \/ answer'.text = NoKey
  BY <1>2 DEF ShownFits
<1>3. CASE Age
  <2>1. answer'.text = answer.text /\ answer'.for = answer.for
    BY <1>3 DEF Age, Sentence
  <2>2. QED
    BY <2>1 DEF ShownFits
<1>4. ASSUME NEW w \in Writers, Claim(w) PROVE ShownFits'
  <2>1. answer' = answer \/ answer' = Claimed(writer[w].key)
    BY <1>4 DEF Claim
  <2>2. QED
    BY <1>1, <1>2, <2>1 DEF Claimed
<1>5. ASSUME NEW w \in Writers, Speak(w) PROVE ShownFits'
  <2>1. answer' = answer
        \/ answer' = [for |-> writer[w].key, state |-> "READY", text |-> writer[w].key]
    BY <1>5 DEF Speak
  <2>2. QED
    BY <1>1, <1>2, <2>1
<1>6. ASSUME NEW a \in Asking, Run(a) PROVE ShownFits'
  <2>1. PICK r : answer' = IF Says(asking[a].kind, r) /\ Savable(Told(r))
                             THEN [for |-> Told(r), state |-> "READY", text |-> Told(r)]
                             ELSE answer
    BY <1>6 DEF Run
  <2>2. QED
    BY <1>1, <1>2, <2>1
<1>7. ASSUME NEW a \in Asking, Cancel(a) \/ Renew(a) PROVE ShownFits'
  <2>1. answer' = answer \/ answer' = NoAnswer
    BY <1>7 DEF Cancel, Renew
  <2>2. QED
    BY <1>1, <1>2, <2>1 DEF NoAnswer
<1>8. ASSUME NEW w \in Writers, Read(w) PROVE ShownFits'
  BY <1>1, <1>8 DEF Read
<1>9. ASSUME NEW a \in Asking, \/ Call(a) \/ Decide(a) \/ Forget(a) \/ Settle(a) \/ Succeed(a)
                               \/ Reject(a) \/ KeepOwn(a) \/ AskAfter(a)
      PROVE  ShownFits'
  BY <1>1, <1>9 DEF Call, Decide, Forget, Settle, Succeed, Reject, KeepOwn, AskAfter
<1>10. ASSUME FirstRun \/ KeepFirst \/ AskFirst \/ MarkFirst \/ Sweep \/ Crash PROVE ShownFits'
  BY <1>1, <1>10 DEF FirstRun, KeepFirst, AskFirst, MarkFirst, Sweep, Crash
<1>11. CASE UNCHANGED viewVars
  BY <1>1, <1>11 DEF viewVars
<1>12. QED
  BY <1>3, <1>4, <1>5, <1>6, <1>7, <1>8, <1>9, <1>10, <1>11 DEF ViewNext

\* _with_stored_answer shows a stored sentence by its key alone: whatever tasks were
\* claiming and speaking, the text under a key is about that key.
THEOREM SentenceFits == ViewSpec => []ShownFits
<1>1. ViewInit => ShownFits
  BY DEF ViewInit, ShownFits, NoAnswer
<1>2. SInv => answer \in Sentence
  BY DEF SInv, ViewTyped
<1>3. SInv /\ ShownFits /\ [ViewNext]_viewVars => (SInv /\ ShownFits)'
  BY <1>2, SInvStep, FitsStep
<1>4. QED
  BY <1>1, <1>3, SInvInit, PTL DEF ViewSpec

================================================================================
