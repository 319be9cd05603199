-------------------------------- MODULE Services --------------------------------
(***************************************************************************)
(* Five components in one process, in any interleaving.  Distributions,    *)
(* reward claims and Pump buyers pay through the same cluster and have     *)
(* nothing else in common; the trade recorder and the Portal listener have *)
(* nothing in common with anything.                                        *)
(***************************************************************************)
EXTENDS CumulativeDistribution, CreatorClaim, PumpBuyer, LiveTradeHistory,
        PortalCursor

\* A transfer, a claim and a buy are different transactions.
ASSUME ApartAssumption ==
    /\ Payment \cap ClaimTx = {}
    /\ Payment \cap BuyTx = {}
    /\ ClaimTx \cap BuyTx = {}

servicesVars ==
    <<cluster, distribution, claimVars, buyerVars, historyVars, portalVars>>

TypeOK ==
    ClusterTypeOK /\ CDTypeOK /\ CCTypeOK /\ PBTypeOK /\ LHTypeOK /\ PLTypeOK

ServicesInit == ClusterInit /\ CDInit /\ CCInit /\ PBInit /\ LHInit /\ PLInit

DistributionStep == CDNext /\ UNCHANGED <<claimVars, buyerVars, historyVars, portalVars>>
ClaimStep == CCNext /\ UNCHANGED <<distribution, buyerVars, historyVars, portalVars>>
BuyerStep == PBNext /\ UNCHANGED <<distribution, claimVars, historyVars, portalVars>>
HistoryStep ==
    LHNext /\ UNCHANGED <<cluster, distribution, claimVars, buyerVars, portalVars>>
PortalStep ==
    PLNext /\ UNCHANGED <<cluster, distribution, claimVars, buyerVars, historyVars>>

ServicesNext ==
    DistributionStep \/ ClaimStep \/ BuyerStep \/ HistoryStep \/ PortalStep

ServicesSpec == ServicesInit /\ [][ServicesNext]_servicesVars
=============================================================================
