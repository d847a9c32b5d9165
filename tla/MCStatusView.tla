------------------------------ MODULE MCStatusView -----------------------------
(* Small instances of StatusView. *)
EXTENDS StatusView, TLC

\* Every kind of wait in two outcomes: "proposals" follow from a "rejection".
Rest(status, items) == [wf |-> status, open |-> items]
RestsOfRuns == {Rest("FAILED", {"hints", "clarification", "rejection"}),
                Rest("WAITING_APPROVAL", {"viewing", "service", "asked", "conflict"})}
\* No request differs from another before it calls.
Alike == Permutations(Asking)
================================================================================
