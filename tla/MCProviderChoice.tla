---------------------------- MODULE MCProviderChoice ----------------------------
(* Small instances of ProviderChoice. *)
EXTENDS ProviderChoice, TLC

CONSTANTS a, b, today, later
TwoCompanies == <<a, b>>
\* The company with the lowest price has no crew on the later day.
Prices2 == (a :> 20) @@ (b :> 25)
DaysOff == (today :> {}) @@ (later :> {a})
CONSTANTS r1, r2
SameRequests == Permutations({r1, r2})
================================================================================
