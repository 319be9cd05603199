------------------------------ MODULE MCServices ------------------------------
(* Services on small instances.  No two components have more than the       *)
(* cluster in common, and their transactions differ, so a behaviour         *)
(* explores one of them while the others stay in their initial states.      *)
EXTENDS Services, TLC

VARIABLE machine    \* the one explored

\* Two claims for each of two blockhashes; two buys for one of them.
Claims == [claim : {"first", "second"}, lastValid : 0..1]
Buys == [quote : {"first"}, lastValid : 0..1] \cup [quote : {"second"}, lastValid : {1}]
AllTx == Payment \cup Claims \cup Buys

Assumed(s, r, p) == [serial |-> s, reland |-> r, repeat |-> p]
Worlds == { Assumed(TRUE, FALSE, TRUE), Assumed(TRUE, FALSE, FALSE),
            Assumed(TRUE, TRUE, FALSE), Assumed(FALSE, FALSE, FALSE) }
AnyWorld == CHOOSE w \in World : TRUE

\* Calls that overlap pay one recipient, to keep their instance small.
Growing == [w \in World |->
    IF w.serial THEN {<<1, 1>>, <<2, 1>>} ELSE {<<1, 0>>, <<2, 0>>}]

ProcessedAndConfirmed == [r \in Recorder |-> IF r = "r1" THEN 0 ELSE 1]

\* What a component does not depend on is chosen once.
Init ==
    /\ machine \in {"distribution", "claim", "buyer", "history", "portal"}
    /\ ServicesInit
    /\ machine \in {"history", "portal"} => world = AnyWorld
    /\ IF machine = "buyer" THEN world.serial ELSE loop = "careful"

Next ==
    /\ UNCHANGED machine
    /\ \/ machine = "distribution" /\ DistributionStep
       \/ machine = "claim" /\ ClaimStep
       \/ machine = "buyer" /\ BuyerStep
       \/ machine = "history" /\ HistoryStep
       \/ machine = "portal" /\ PortalStep

Spec == Init /\ [][Next]_<<machine, servicesVars>>

Symmetry == Permutations(Caller)
=============================================================================
