-------------------------------- MODULE Cluster --------------------------------
(***************************************************************************)
(* What the payment calls know of the Solana cluster: the fate of each     *)
(* signed transaction, the block height, and the answers an RPC node gives *)
(* about them, which may lag.  Shared by the modules of the calls that pay *)
(* through it.  Signing is deterministic: a transaction IS its content and *)
(* its blockhash, which fixes lastValid.                                   *)
(***************************************************************************)
EXTENDS Integers

CONSTANTS
    Tx,          \* the transactions that can be signed
    MaxHeight,   \* bound: the last block height explored
    World        \* the worlds explored

ASSUME ClusterAssumption ==
    /\ MaxHeight \in Nat
    /\ \A t \in Tx : t.lastValid \in Nat
    /\ World \subseteq [ serial : BOOLEAN,    \* callers never overlap
                         reland : BOOLEAN,    \* a processed failure may be
                                              \* dropped and land again
                         repeat : BOOLEAN ]   \* a build may be given the
                                              \* blockhash of an earlier one

\* none: no leader has it; inflight: it may still be processed;
\* procOk/procErr: in a block that is not confirmed; ok/err: confirmed.
TxStatus == {"none", "inflight", "procOk", "procErr", "ok", "err"}

VARIABLES
    net,      \* net[t]: what the cluster has done with transaction t
    height,   \* the cluster's block height
    world     \* what is assumed of callers and cluster, chosen once

cluster == <<net, height, world>>

ClusterTypeOK ==
    /\ net \in [Tx -> TxStatus]
    /\ height \in 0..MaxHeight
    /\ world \in World

ClusterInit ==
    /\ net = [t \in Tx |-> "none"]
    /\ height = 0
    /\ world \in World

-----------------------------------------------------------------------------
(* Answers *)

\* getSignatureStatuses: of any commitment the node has reached.
StatusViews(t) ==
    {"none"} \cup
    CASE net[t] = "ok"  -> {"procOk", "ok"}
      [] net[t] = "err" -> {"procErr", "err"}
      [] net[t] \in {"procOk", "procErr"} -> {net[t]}
      [] OTHER -> {}

\* confirmSignature and getParsedTransaction answer at confirmed commitment.
ConfirmedViews(t) ==
    {"none"} \cup (IF net[t] \in {"ok", "err"} THEN {net[t]} ELSE {})

\* The request is lost, or a leader has the bytes.
Broadcast(t) ==
    net' \in {net, [net EXCEPT ![t] = IF @ = "none" THEN "inflight" ELSE @]}

-----------------------------------------------------------------------------
(* Steps *)

SetNet(t, from, to) ==
    /\ net[t] = from
    /\ net' = [net EXCEPT ![t] = to]
    /\ UNCHANGED <<height, world>>

Tick == height < MaxHeight /\ height' = height + 1 /\ UNCHANGED <<net, world>>

Process(t) ==
    /\ height <= t.lastValid
    /\ SetNet(t, "inflight", "procOk") \/ SetNet(t, "inflight", "procErr")

ConfirmOk(t) == SetNet(t, "procOk", "ok")
ConfirmErr(t) == SetNet(t, "procErr", "err")

\* The block is on a fork the cluster abandons.
DropFork(t) ==
    \/ SetNet(t, "procOk", "inflight")
    \/ world.reland /\ SetNet(t, "procErr", "inflight")
=============================================================================
