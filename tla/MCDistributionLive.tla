------------------------- MODULE MCDistributionLive -------------------------
(* CumulativeDistribution under fairness, for TLC. *)
EXTENDS CumulativeDistribution

OneWorld == {[serial |-> TRUE, reland |-> FALSE, repeat |-> FALSE]}
OneAmount == [w \in World |-> {[r \in Recipient |-> 1]}]
=============================================================================
