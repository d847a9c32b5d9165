----------------------------- MODULE MCVerification -----------------------------
(* Two applicants, one of them with a provider account, and two reviewers. *)
EXTENDS Verification, TLC
CONSTANTS ann, bob, flat, loft, plate, v1, v2
Accounts == (v1 :> bob) @@ (v2 :> "clerk")
People == {ann, bob, "clerk"}
================================================================================
