----------------------------- MODULE MCLiveTrades -----------------------------
(* LiveTrades on small instances, for TLC. *)
EXTENDS LiveTrades

AllOfOne == [t \in Trade |-> CHOOSE m \in Mint : m \in Initial]
=============================================================================
