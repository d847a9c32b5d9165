-------------------------------- MODULE Escrow --------------------------------
(***************************************************************************)
(* What the payment protocol promises about one place and its money: no    *)
(* money moves before the resident consents, a place whose money is held   *)
(* is not charged again, and a place is given up only without money in it. *)
(***************************************************************************)
EXTENDS Naturals

VARIABLES consent, taken, given, place

escrowVars == <<consent, taken, given, place>>

Init == consent = "NONE" /\ taken = 0 /\ given = 0 /\ place = "HELD"

\* Asking again is possible as long as nothing is decided.
Ask ==
  /\ consent = "NONE"
  /\ consent' = "AWAITING"
  /\ UNCHANGED <<taken, given, place>>

Decide ==
  /\ consent = "AWAITING"
  /\ consent' \in {"APPROVED", "REJECTED"}
  /\ UNCHANGED <<taken, given, place>>

Take ==
  /\ consent = "APPROVED" /\ place = "HELD" /\ taken <= given
  /\ taken' \in Nat /\ taken' > taken
  /\ UNCHANGED <<consent, given, place>>

GiveBack ==
  /\ taken > 0
  /\ given' \in Nat /\ given' > given
  /\ UNCHANGED <<consent, taken, place>>

GiveUp ==
  /\ place = "HELD" /\ taken <= given
  /\ place' = "GONE"
  /\ UNCHANGED <<consent, taken, given>>

Next == Ask \/ Decide \/ Take \/ GiveBack \/ GiveUp

Spec == Init /\ [][Next]_escrowVars
===============================================================================
