---------------------------- MODULE MCPaymentFlow -----------------------------
(* Small instances of PaymentFlow for TLC. *)
EXTENDS PaymentFlow

\* The booking starts in one of two zones with different prices.
CONSTANTS cheap, dear
TwoPrices == [z \in Zones |-> IF z = dear THEN 2 ELSE 1]
OnePlace == [z \in Zones |-> 1]
===============================================================================
