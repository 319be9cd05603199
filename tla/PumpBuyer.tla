------------------------------- MODULE PumpBuyer -------------------------------
(***************************************************************************)
(* The loops that buy for one wallet while a token is launched.            *)
(*   careful      launches/pump/pump-buyer-spam.ts: the same bytes are     *)
(*                sent until they are confirmed, have failed or have       *)
(*                expired, and only then another buy is built;             *)
(*   generations  launches/pump/spam-buy.ts: another buy is built at every *)
(*                interval, and all those that were sent are watched;      *)
(*   dependent    spamDependentBuy of launches/pump/token-launch.ts: as    *)
(*                before, but only the last one is watched.                *)
(* A step is the code between two awaits.  Deadline, abort and the limit   *)
(* of failures end a loop at any await.                                    *)
(***************************************************************************)
EXTENDS Cluster

CONSTANTS
    BuyTx,    \* the buys that can be signed: a quote and a blockhash
    NoBuy     \* active = null

ASSUME BuyerAssumption == BuyTx \subseteq Tx /\ NoBuy \notin Tx

VARIABLES
    loop,        \* which of the loops, chosen once
    active,      \* the buy that is sent
    processed,   \* it has been seen processed
    signatures,  \* generations: the buys that are watched
    buyerAt,     \* the await the loop is at
    replaced     \* history: buys given up, and on what evidence

buyerVars == <<loop, active, processed, signatures, buyerAt, replaced>>

BuyerLoop == {"careful", "generations", "dependent"}
Evidence == {"failed", "expired unseen", "expired", "interval"}

PBTypeOK ==
    /\ loop \in BuyerLoop
    /\ signatures \subseteq BuyTx
    /\ active \in BuyTx \cup {NoBuy}
    /\ processed \in BOOLEAN
    /\ buyerAt \in {"build", "submit", "loop", "height", "resend", "end"}
    /\ replaced \subseteq BuyTx \X Evidence

PBInit ==
    /\ loop \in BuyerLoop
    /\ active = NoBuy /\ processed = FALSE /\ signatures = {}
    /\ buyerAt = IF loop = "generations" THEN "loop" ELSE "build"
    /\ replaced = {}

-----------------------------------------------------------------------------

GoBuyer(label) ==
    buyerAt' = label /\ UNCHANGED <<loop, active, processed, signatures, replaced>>

\* The plan is compiled: its blockhash may be as old as the node's view.
Compiles(t) == net[t] = "none" /\ t.lastValid >= height

\* The buy is given up and another one is built.
Replace(evidence) ==
    /\ replaced' = replaced \cup {<<active, evidence>>}
    /\ active' = NoBuy
    /\ buyerAt' = "build"
    /\ UNCHANGED <<loop, processed, signatures>>

BuildBuy ==
    /\ loop # "generations" /\ buyerAt = "build"
    /\ \E t \in BuyTx : Compiles(t) /\ active' = t
    /\ buyerAt' = "submit"
    /\ UNCHANGED <<loop, processed, signatures, replaced, cluster>>

\* submitPlan throws before the bytes leave, or answers for a signature that
\* was sent, whatever the network said.
SubmitBuy ==
    /\ loop # "generations" /\ buyerAt = "submit"
    /\ \/ /\ active' = NoBuy /\ buyerAt' = "build"
          /\ UNCHANGED <<loop, processed, signatures, replaced, cluster>>
       \/ /\ Broadcast(active)
          /\ processed' = FALSE
          /\ buyerAt' = "loop"
          /\ UNCHANGED <<loop, active, signatures, replaced, height, world>>

\* Slip: the expiry is looked at for a buy that was seen as well.
MayExpireSeen(seen) == seen \in BOOLEAN

\* "Never compile a second buy after the first signature is processed."
MayExpire(seen) == ~seen

\* One round.  The status is asked for once an interval; a round without it,
\* or whose request fails, goes on as if nothing had been seen.  The height
\* has an interval of its own.
PollStatus ==
    /\ loop = "careful" /\ buyerAt = "loop"
    /\ \E view \in StatusViews(active) :
        \/ view = "ok" /\ GoBuyer("end")
        \/ view \in {"err", "procErr"} /\ Replace("failed")
        \/ /\ view \in {"procOk", "none"}
           /\ processed' = (processed \/ view = "procOk")
           /\ \/ MayExpire(processed') /\ buyerAt' = "height"
              \/ buyerAt' = "resend"
           /\ UNCHANGED <<loop, active, signatures, replaced>>
    /\ UNCHANGED cluster

PollHeight ==
    /\ buyerAt = "height"
    /\ \E told \in 0..height :
        IF told > active.lastValid
        THEN Replace(IF processed THEN "expired" ELSE "expired unseen")
        ELSE GoBuyer("resend")
    /\ UNCHANGED cluster

Resend ==
    /\ buyerAt = "resend"
    /\ Broadcast(active)
    /\ GoBuyer("loop")
    /\ UNCHANGED <<height, world>>

-----------------------------------------------------------------------------
(* The other loops *)

\* Processed is enough; after an interval another buy takes the place of this
\* one, which is forgotten.
PollDependent ==
    /\ loop = "dependent" /\ buyerAt = "loop"
    /\ \E view \in StatusViews(active) :
        \/ view \in {"ok", "procOk"} /\ GoBuyer("end")
        \/ view \in {"err", "procErr"} /\ Replace("failed")
        \/ view = "none" /\ (Replace("interval") \/ GoBuyer("resend"))
    /\ UNCHANGED cluster

\* One request for all of them, which may fail.  A plan that has failed is
\* kept, and sent, until the next interval.
PollGenerations ==
    /\ loop = "generations" /\ buyerAt = "loop"
    /\ \/ \E t \in signatures :
            StatusViews(t) \cap {"procOk", "ok"} # {} /\ GoBuyer("end")
       \/ GoBuyer("build")
       \/ active # NoBuy /\ GoBuyer("submit")
    /\ UNCHANGED cluster

\* A build that throws leaves the plan of before in its place.
BuildGeneration ==
    /\ loop = "generations" /\ buyerAt = "build"
    /\ \/ GoBuyer("loop")
       \/ /\ \E t \in BuyTx : Compiles(t) /\ active' = t
          /\ replaced' = replaced \cup
                 (IF active = NoBuy THEN {} ELSE {<<active, "interval">>})
          /\ buyerAt' = "submit"
          /\ UNCHANGED <<loop, processed, signatures>>
    /\ UNCHANGED cluster

SubmitGeneration ==
    /\ loop = "generations" /\ buyerAt = "submit"
    /\ \/ GoBuyer("loop") /\ UNCHANGED cluster
       \/ /\ Broadcast(active)
          /\ signatures' = signatures \cup {active}
          /\ buyerAt' = "loop"
          /\ UNCHANGED <<loop, active, processed, replaced, height, world>>

EndBuyer ==
    /\ buyerAt # "end"
    /\ GoBuyer("end")
    /\ UNCHANGED cluster

PBCluster ==
    /\ Tick \/ \E t \in BuyTx : Process(t) \/ ConfirmOk(t) \/ ConfirmErr(t) \/ DropFork(t)
    /\ UNCHANGED buyerVars

PBNext ==
    \/ BuildBuy \/ SubmitBuy \/ Resend \/ EndBuyer
    \/ PollStatus \/ PollHeight \/ PollDependent
    \/ PollGenerations \/ BuildGeneration \/ SubmitGeneration
    \/ PBCluster

PBSpec == PBInit /\ ClusterInit /\ [][PBNext]_<<buyerVars, cluster>>

-----------------------------------------------------------------------------
(* Properties *)

Bought == {t \in BuyTx : net[t] \in {"procOk", "ok"}}

\* The wallet buys twice only where the code cannot know better: the first buy
\* was never seen when its blockhash had expired, or its failure was on a fork
\* that was dropped.  A buy that was seen is never replaced, whatever the
\* intervals of the two checks, lost answers and lagging nodes.  The loops that
\* build by the clock may buy once more for each buy they replaced unseen.
SecondBuyHasCause ==
    \A t, u \in Bought : t # u =>
        \E b \in {t, u} : \/ <<b, "expired unseen">> \in replaced
                          \/ world.reland /\ <<b, "failed">> \in replaced
                          \/ loop # "careful" /\ <<b, "interval">> \in replaced
=============================================================================
