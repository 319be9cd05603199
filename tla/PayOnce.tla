------------------------------- MODULE PayOnce -------------------------------
(***************************************************************************)
(* What the durable payment flows promise, with no protocol in it: every   *)
(* allocation is moved on chain at most once, and an allocation is only    *)
(* reported as paid after it has been moved.  A report is never withdrawn. *)
(***************************************************************************)
CONSTANTS
    Alloc,      \* the allocations of one payment intent
    Payer       \* the transactions that may carry them

VARIABLES
    paidBy,     \* paidBy[a]: the transactions that have moved allocation a
    reported    \* the allocations whose durable record says "paid"

vars == <<paidBy, reported>>

Init ==
    /\ paidBy = [a \in Alloc |-> {}]
    /\ reported = {}

\* One transaction moves a whole batch of allocations nobody has moved yet.
Pay(t, batch) ==
    /\ \A a \in batch : paidBy[a] = {}
    /\ paidBy' = [a \in Alloc |-> IF a \in batch THEN {t} ELSE paidBy[a]]
    /\ UNCHANGED reported

\* The durable record catches up with the chain.
Report(batch) ==
    /\ \A a \in batch : paidBy[a] # {}
    /\ reported' = reported \cup batch
    /\ UNCHANGED paidBy

Next ==
    \/ \E t \in Payer, batch \in SUBSET Alloc : Pay(t, batch)
    \/ \E batch \in SUBSET Alloc : Report(batch)

Spec == Init /\ [][Next]_vars
=============================================================================
