------------------------- MODULE MCTradeSettlement -------------------------
(* TradeSettlement on small instances, for TLC. *)
EXTENDS TradeSettlement, TLC

OneProcess == [c \in Call |-> CHOOSE p \in Process : TRUE]
OwnProcess == [c \in Call |-> c]
SameTrade == [c \in Call |-> CHOOSE f \in Fingerprint : TRUE]
OwnTrade == [c \in Call |-> c]

\* Calls of one process, or of a process each, that ask for the same trade.
Symmetry == Permutations(Call)
=============================================================================
