-------------------------------- MODULE PayOwed --------------------------------
(***************************************************************************)
(* What a cumulative payment flow promises, with no protocol in it: what a *)
(* payee is owed only grows, what it got never exceeds that, and the books *)
(* follow the money: never ahead of it, and nothing is ever struck out.     *)
(***************************************************************************)
EXTENDS Naturals

CONSTANT Payee

VARIABLES
    owed,     \* owed[p]: what payee p is entitled to, in all
    got,      \* got[p]: what it has been paid, in all
    booked    \* booked[p]: what the durable record counts as paid

vars == <<owed, got, booked>>

Below(f, g) == \A p \in Payee : f[p] <= g[p]

Init == owed = [p \in Payee |-> 0] /\ got = owed /\ booked = owed

Entitle ==
    /\ Below(owed, owed')
    /\ UNCHANGED <<got, booked>>

\* One payment may reach several payees.
Pay ==
    /\ Below(got, got') /\ Below(got', owed)
    /\ UNCHANGED <<owed, booked>>

Book ==
    /\ Below(booked, booked') /\ Below(booked', got)
    /\ UNCHANGED <<owed, got>>

Next == Entitle \/ Pay \/ Book

Spec == Init /\ [][Next]_vars
=============================================================================
