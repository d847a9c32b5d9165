-------------------------------- MODULE Accounts --------------------------------
(***************************************************************************)
(* Accounts and one-time codes: a code mailed to an address, the account   *)
(* opened or the password replaced with it, Google's word instead of a     *)
(* code, and the administrator's lock (api/auth_routes, db/otp_repository, *)
(* db/user_repository, api/admin_routes).  Every query is a transaction of *)
(* its own; a request is several of them.  A code is a number never drawn  *)
(* twice, a minute is a tick of the clock.                                 *)
(***************************************************************************)
EXTENDS Naturals, FiniteSets

CONSTANTS Names, Emails, Requests,
          Cooldown, Life,   \* 60 seconds and 5 minutes, scaled
          MaxCodes, MaxClock, MaxLocks \* BOUNDS on codes, time and the administrator

ASSUME AccountAssumptions == {Cooldown, Life, MaxCodes, MaxClock, MaxLocks} \subseteq Nat /\ Cooldown <= Life

Purposes == {"registration", "password_reset"}  \* OtpPurpose
Codes == 1..MaxCodes
NoRow == [code |-> 0, made |-> 0, until |-> 0]
Idle == [at |-> "idle", name |-> "-", email |-> "-", purpose |-> "-", code |-> 0]

VARIABLES otp,    \* registration_otps, by address and purpose
          issued, \* what each code was drawn for
          inbox,  \* codes whose mail arrived
          users,  \* the users table
          hand,   \* where each request is
          uses,   \* how often each code was accepted
          clock, locks

vars == <<otp, issued, inbox, users, hand, uses, clock, locks>>

Go(h, at) == hand' = [hand EXCEPT ![h].at = at]
Ends(h) == hand' = [hand EXCEPT ![h] = Idle]
\* get_user_by_username, get_user_by_email: accounts that are not archived.
Active(key, x) == {u \in users : u[key] = x /\ ~u.archived}
\* uq_users_username and uq_users_email cover them.
Taken(n, e) == \E u \in users : u.name = n \/ u.email = e

-------------------------------------------------------------------------------
(* A code is asked for *)

AsksToRegister(h) ==
  /\ hand[h].at = "idle"
  /\ \E n \in Names, e \in Emails :
       /\ Active("name", n) = {} /\ Active("email", e) = {}
       /\ hand' = [hand EXCEPT ![h] = [Idle EXCEPT !.at = "cool", !.email = e, !.purpose = "registration"]]
  /\ UNCHANGED <<otp, issued, inbox, users, uses, clock, locks>>
ForgotPassword(h) ==
  /\ hand[h].at = "idle"
  /\ \E e \in Emails :
       /\ Active("email", e) # {}
       /\ hand' = [hand EXCEPT ![h] = [Idle EXCEPT !.at = "cool", !.email = e, !.purpose = "password_reset"]]
  /\ UNCHANGED <<otp, issued, inbox, users, uses, clock, locks>>
\* save_otp reads the age of the last code in one query and writes the next in another.
Cooling(row) == row # NoRow /\ clock - row.made < Cooldown
ReadsCooldown(h) ==
  /\ hand[h].at = "cool"
  /\ IF Cooling(otp[<<hand[h].email, hand[h].purpose>>]) THEN Ends(h) ELSE Go(h, "save")
  /\ UNCHANGED <<otp, issued, inbox, users, uses, clock, locks>>
SavesCode(h) ==
  /\ hand[h].at = "save" /\ Cardinality(DOMAIN issued) < MaxCodes
  /\ LET c == Cardinality(DOMAIN issued) + 1  key == <<hand[h].email, hand[h].purpose>> IN
     /\ otp' = [otp EXCEPT ![key] = [code |-> c, made |-> clock, until |-> clock + Life]]
     /\ issued' = [d \in 1..c |-> IF d = c THEN key ELSE issued[d]]
  /\ Ends(h) /\ UNCHANGED <<inbox, users, uses, clock, locks>>
\* The mail is sent after the answer; it may never arrive, or late.
MailArrives == /\ \E c \in DOMAIN issued \ inbox : inbox' = inbox \cup {c}
               /\ UNCHANGED <<otp, issued, users, hand, uses, clock, locks>>

-------------------------------------------------------------------------------
(* A code is used: verify_otp, then the account in another transaction *)

Fresh(row) == row.until > clock
\* Slip: the row outlives its use.
KeepsRow(e, p, c) == otp' = [k \in DOMAIN otp |-> IF Fresh(otp[k]) THEN otp[k] ELSE NoRow]
Matches(e, p, c) == otp[<<e, p>>].code = c /\ Fresh(otp[<<e, p>>])
\* The expired rows first, then the one that matches, deleted and counted at once.
Deletes(e, p, c) ==
  otp' = [k \in DOMAIN otp |-> IF ~Fresh(otp[k]) \/ (k = <<e, p>> /\ otp[k].code = c) THEN NoRow ELSE otp[k]]
Verifies(h, n, e, p, c, next) ==
  /\ Deletes(e, p, c)
  /\ IF Matches(e, p, c)
     THEN /\ uses' = [uses EXCEPT ![c] = @ + 1]
          /\ hand' = [hand EXCEPT ![h] = [at |-> next, name |-> n, email |-> e, purpose |-> p, code |-> c]]
     ELSE UNCHANGED <<uses, hand>>
  /\ UNCHANGED <<issued, inbox, users, clock, locks>>

\* Whoever types a code has read it in a mail, for this address or for another.
Register(h) == hand[h].at = "idle" /\ \E n \in Names, e \in Emails, c \in inbox :
                 Verifies(h, n, e, "registration", c, "create")
ResetPassword(h) == hand[h].at = "idle" /\ \E e \in Emails, c \in inbox :
                      Verifies(h, "-", e, "password_reset", c, "find")
\* google_register: the address has no account; Google vouches for it.
GoogleRegister(h) ==
  /\ hand[h].at = "idle"
  /\ \E n \in Names, e \in Emails :
       /\ Active("email", e) = {}
       /\ hand' = [hand EXCEPT ![h] = [Idle EXCEPT !.at = "create", !.name = n, !.email = e]]
  /\ UNCHANGED <<otp, issued, inbox, users, uses, clock, locks>>
CreateUser(h) ==
  /\ hand[h].at = "create"
  /\ users' = IF Taken(hand[h].name, hand[h].email) THEN users
              ELSE users \cup {[name |-> hand[h].name, email |-> hand[h].email, by |-> hand[h].code,
                                password |-> 0, archived |-> FALSE]}
  /\ Ends(h) /\ UNCHANGED <<otp, issued, inbox, uses, clock, locks>>
FindsUser(h) ==
  /\ hand[h].at = "find"
  /\ IF Active("email", hand[h].email) = {} THEN Ends(h) ELSE Go(h, "store")
  /\ UNCHANGED <<otp, issued, inbox, users, uses, clock, locks>>
\* Slip: the lock is not looked at.
UpdatesLocked(e) == {u \in users : u.email = e}
Updates(e) == Active("email", e)
\* update_password
UpdatePassword(h) ==
  /\ hand[h].at = "store"
  /\ users' = {IF u \in Updates(hand[h].email) THEN [u EXCEPT !.password = hand[h].code] ELSE u : u \in users}
  /\ Ends(h) /\ UNCHANGED <<otp, issued, inbox, uses, clock, locks>>

-------------------------------------------------------------------------------
\* update_status
UpdateStatus ==
  /\ locks < MaxLocks /\ locks' = locks + 1
  /\ \E u \in users : users' = (users \ {u}) \cup {[u EXCEPT !.archived = ~@]}
  /\ UNCHANGED <<otp, issued, inbox, hand, uses, clock>>
Tick == clock < MaxClock /\ clock' = clock + 1 /\ UNCHANGED <<otp, issued, inbox, users, hand, uses, locks>>

Init == /\ otp = [k \in Emails \X Purposes |-> NoRow] /\ issued = <<>> /\ inbox = {} /\ users = {}
        /\ hand = [h \in Requests |-> Idle] /\ uses = [c \in Codes |-> 0] /\ clock = 0 /\ locks = 0
Next == \/ \E h \in Requests : \/ AsksToRegister(h) \/ ForgotPassword(h) \/ ReadsCooldown(h) \/ SavesCode(h)
                               \/ Register(h) \/ ResetPassword(h) \/ GoogleRegister(h) \/ CreateUser(h)
                               \/ FindsUser(h) \/ UpdatePassword(h)
        \/ MailArrives \/ UpdateStatus \/ Tick
AccountsSpec == Init /\ [][Next]_vars

-------------------------------------------------------------------------------
(* Properties *)

\* Rows, requests and accounts keep their columns, and the drawn codes are numbered.
Keys == Emails \X Purposes
OtpRow == [code : Nat, made : Nat, until : Nat]
Places == {"idle", "cool", "save", "create", "find", "store"}
Hand == [at : Places, name : Names \cup {"-"}, email : Emails \cup {"-"},
         purpose : Purposes \cup {"-"}, code : Nat]
User == [name : Names \cup {"-"}, email : Emails \cup {"-"}, by : Nat, password : Nat,
         archived : BOOLEAN]
AccountsTypeOK ==
  /\ otp \in [Keys -> OtpRow] /\ inbox \subseteq DOMAIN issued
  /\ \E n \in Nat : DOMAIN issued = 1..n /\ n <= MaxCodes
  /\ users \subseteq User /\ hand \in [Requests -> Hand] /\ uses \in [Codes -> Nat]
  /\ clock \in Nat

\* A code opens one account or sets one password, however many requests carry
\* it at the same time.
CodeOpensOnce == \A c \in Codes : uses[c] <= 1

\* A password changes only with a code drawn to reset it, mailed to the
\* account's own address, and never while the account is locked.
PasswordFollowsCode ==
  [][\A u \in users, v \in users' :
       (u.email = v.email /\ u.password # v.password) =>
         issued[v.password] = <<u.email, "password_reset">> /\ ~u.archived]_vars
================================================================================
