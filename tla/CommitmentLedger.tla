--------------------------- MODULE CommitmentLedger ---------------------------
(***************************************************************************)
(* What the submission ledger promises about one write task, with neither  *)
(* callers, messages, keys nor retries: the provider makes at most one     *)
(* commitment for the task, the ledger claims "unsent" only while none can *)
(* exist, "confirmed" only once it does, and never takes a conclusion      *)
(* back.  Submission implements it.                                        *)
(***************************************************************************)
EXTENDS Naturals

CONSTANT WriteTasks

VARIABLES claim,        \* what the ledger says of the task
          commitments   \* how many commitments the provider made for it

vars == <<claim, commitments>>

Claims == {"unsent", "sending", "confirmed", "unproven"}

TypeOK ==
  /\ claim \in [WriteTasks -> Claims]
  /\ commitments \in [WriteTasks -> {0, 1}]

Init ==
  /\ claim = [t \in WriteTasks |-> "unsent"]
  /\ commitments = [t \in WriteTasks |-> 0]

Start(t) ==
  /\ claim[t] = "unsent"
  /\ claim' = [claim EXCEPT ![t] = "sending"]
  /\ UNCHANGED commitments

\* The provider may commit late: after the ledger stopped waiting for it.
Commit(t) ==
  /\ claim[t] \in {"sending", "unproven"}
  /\ commitments[t] = 0
  /\ commitments' = [commitments EXCEPT ![t] = 1]
  /\ UNCHANGED claim

Confirm(t) ==
  /\ claim[t] = "sending"
  /\ commitments[t] = 1
  /\ claim' = [claim EXCEPT ![t] = "confirmed"]
  /\ UNCHANGED commitments

Doubt(t) ==
  /\ claim[t] = "sending"
  /\ claim' = [claim EXCEPT ![t] = "unproven"]
  /\ UNCHANGED commitments

Next == \E t \in WriteTasks : Start(t) \/ Commit(t) \/ Confirm(t) \/ Doubt(t)

Spec == Init /\ [][Next]_vars
===============================================================================
