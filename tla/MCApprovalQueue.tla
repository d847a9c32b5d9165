---------------------------- MODULE MCApprovalQueue ----------------------------
(* Small instances of ApprovalQueue: a viewing beside a place and its fee, a    *)
(* car and the spot that needs it, and a tour that may be called off.           *)
EXTENDS ApprovalQueue

Needs == [t \in Steps |-> CASE t = "spot" -> {"car"}
                            [] t = "pay" -> {"place"}
                            [] OTHER -> {}]

Names == [t \in Steps |-> IF t = "tour" THEN {"tourH2", "tourH3"} ELSE {}]
================================================================================
