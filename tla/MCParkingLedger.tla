--------------------------- MODULE MCParkingLedger ---------------------------
(* Small instances of ParkingLedger for TLC. *)
EXTENDS ParkingLedger, TLC

CONSTANTS cheap, dear

LedgerSymmetry == Permutations(Clients) \cup Permutations(Vehicles) \cup Permutations(Workflows)

\* A downgrade gives one back; the prices differ, which is all that matters.
TwoPrices == [z \in Zones |-> IF z = dear THEN 2 ELSE 1]
OnePlace == [z \in Zones |-> 1]
===============================================================================
