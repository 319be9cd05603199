------------------------- MODULE CreatorClaimProofs -------------------------
(***************************************************************************)
(* The safety properties of CreatorClaim, for every set of callers and of  *)
(* transactions and every bound on the height.                             *)
(*                                                                         *)
(* First, in any world: types, and what the row says of the chain.  Then,  *)
(* for calls that do not overlap: one transaction per id, and the          *)
(* implementation of PayOnce.                                              *)
(***************************************************************************)
EXTENDS CreatorClaim, TLAPS

USE ClusterAssumption, ClaimAssumption, NoClaimAssumption

-----------------------------------------------------------------------------
(* The cluster *)

\* What any step may do to the fate of a transaction: what is confirmed, and
\* a failure that cannot be dropped, stay what they are.
ClaimMonotone(n, m, w) ==
    /\ \A t \in Tx : n[t] # "none" => m[t] # "none"
    /\ \A t \in Tx : n[t] = "ok" => m[t] = "ok"
    /\ \A t \in Tx : ~w.reland /\ n[t] \in {"procErr", "err"}
                        => m[t] \in {"procErr", "err"}

\* A broadcast reaches one transaction at most, and none it has not met yet.
LEMMA ClaimBroadcast ==
    ASSUME net \in [Tx -> TxStatus], NEW t \in Tx, Broadcast(t)
    PROVE  /\ net' \in [Tx -> TxStatus]
           /\ ClaimMonotone(net, net', world)
           /\ \A u \in Tx : u # t => net'[u] = net[u]
<1>1. CASE net' = net
  BY <1>1 DEF ClaimMonotone
<1>2. CASE net' = [net EXCEPT ![t] = IF @ = "none" THEN "inflight" ELSE @]
  BY <1>2 DEF ClaimMonotone, TxStatus
<1> QED
  BY <1>1, <1>2 DEF Broadcast

\* The cluster by itself sends nothing.
LEMMA ClaimClusterEffect ==
    ASSUME ClusterTypeOK, CCCluster
    PROVE  /\ ClusterTypeOK' /\ UNCHANGED <<world, claimVars>>
           /\ ClaimMonotone(net, net', world)
           /\ \A t \in Tx : net[t] = "none" => net'[t] = "none"
<1>1. CASE Tick /\ UNCHANGED claimVars
  BY <1>1 DEF Tick, ClusterTypeOK, ClaimMonotone
<1>2. ASSUME NEW t \in ClaimTx, UNCHANGED claimVars,
             Process(t) \/ ConfirmOk(t) \/ ConfirmErr(t) \/ DropFork(t)
      PROVE  /\ ClusterTypeOK' /\ UNCHANGED <<world, claimVars>>
             /\ ClaimMonotone(net, net', world)
             /\ \A u \in Tx : net[u] = "none" => net'[u] = "none"
  BY <1>2 DEF ClusterTypeOK, ClaimMonotone, TxStatus, Process, ConfirmOk,
              ConfirmErr, DropFork, SetNet
<1> QED
  BY <1>1, <1>2 DEF CCCluster

-----------------------------------------------------------------------------
(* The invariant in any world *)

\* A call that has not pinned or read a transaction yet has no copy.
ClaimEarly == {"idle", "build"}

\* The copy of a call always pins one, and is not confirmed.
ClaimCopyInv ==
    \A c \in Claimer :
        IF claimAt[c] \in ClaimEarly THEN claimCopy[c] = NoClaim
        ELSE /\ claimCopy[c] \in ClaimRow
             /\ claimCopy[c].pending \in ClaimTx
             /\ claimCopy[c].checkpoint = NoneSigned
             /\ claimCopy[c].status # "confirmed"
             /\ claim # NoClaim

\* A row that exists pins a transaction, has the checkpoint of one that
\* landed, or belongs to one that failed.  Without a row nothing was sent.
ClaimRowInv ==
    /\ \A t \in checkpoints : net[t] = "ok"
    /\ claim = NoClaim => SentClaims = {}
    /\ claim # NoClaim =>
        /\ claim.status # "confirmed" => claim.checkpoint = NoneSigned
        /\ claim.status = "confirmed" => claim.checkpoint \in checkpoints
        /\ \/ claim.pending \in ClaimTx
           \/ claim.checkpoint \in ClaimTx
           \/ ~world.reland =>
                \E t \in ClaimTx : net[t] \in {"procErr", "err"}

ClaimInv == ClusterTypeOK /\ CCTypeOK /\ ClaimCopyInv /\ ClaimRowInv

LEMMA ClaimInit == CCInit /\ ClusterInit => ClaimInv
  BY DEF CCInit, ClusterInit, ClaimInv, ClusterTypeOK, CCTypeOK, TxStatus,
         ClaimCopyInv, ClaimRowInv, SentClaims, ClaimAwait, ClaimEarly

-----------------------------------------------------------------------------
(* Steps *)

\* What a call writes back keeps its transaction, unless that was refused.
LEMMA RowChanges ==
    ASSUME NEW s \in ClaimRow, s.pending \in ClaimTx,
           s.checkpoint = NoneSigned, s.status # "confirmed"
    PROVE  /\ \A r \in {s, Submitted(s), Lost(s)} :
                /\ r \in ClaimRow /\ r.pending = s.pending
                /\ r.checkpoint = NoneSigned /\ r.status # "confirmed"
           /\ Refused(s) \in ClaimRow
           /\ Refused(s).status = "failed"
           /\ Refused(s).checkpoint = NoneSigned
           /\ Refused(s).pending = NoneSigned
  BY DEF ClaimRow, Submitted, Lost, Refused

LEMMA FreshRow ==
    ASSUME NEW t \in ClaimTx
    PROVE  \A r \in {Fresh(t), Submitted(Fresh(t))} :
              /\ r \in ClaimRow /\ r.pending = t
              /\ r.checkpoint = NoneSigned /\ r.status # "confirmed"
  BY DEF ClaimRow, Submitted, Fresh

\* A call whose answer leaves the row as it was.
LEMMA ClaimStayInv ==
    ASSUME ClaimInv, NEW c \in Claimer, UNCHANGED <<claim, checkpoints, cluster>>,
           \/ LeaveClaim(c)
           \/ /\ claimAt[c] \notin ClaimEarly
              /\ \E a \in ClaimAwait \ ClaimEarly : GotoClaim(c, a)
              /\ UNCHANGED claimCopy
    PROVE  ClaimInv'
  BY DEF ClaimInv, ClusterTypeOK, CCTypeOK, ClaimCopyInv, ClaimRowInv, SentClaims,
         cluster, LeaveClaim, GotoClaim, ClaimAwait, ClaimEarly

\* A call that writes its copy back, changed or not, and returns.
LEMMA ClaimWriteInv ==
    ASSUME ClaimInv, NEW c \in Claimer, claimAt[c] \notin ClaimEarly,
           UNCHANGED <<checkpoints, cluster>>,
           \/ \E s \in {claimCopy[c], Submitted(claimCopy[c]), Lost(claimCopy[c])} :
                WriteClaim(c, s)
           \/ /\ WriteClaim(c, Refused(claimCopy[c]))
              /\ ~world.reland => net[claimCopy[c].pending] \in {"procErr", "err"}
    PROVE  ClaimInv'
<1>1. /\ claimCopy[c] \in ClaimRow /\ claimCopy[c].pending \in ClaimTx
      /\ claimCopy[c].checkpoint = NoneSigned
      /\ claimCopy[c].status # "confirmed"
  BY DEF ClaimInv, ClaimCopyInv
<1>2. /\ claim' \in ClaimRow /\ claim' # NoClaim
      /\ claim'.status # "confirmed" /\ claim'.checkpoint = NoneSigned
      /\ \/ claim'.pending \in ClaimTx
         \/ ~world.reland => net[claimCopy[c].pending] \in {"procErr", "err"}
  BY <1>1, RowChanges DEF WriteClaim
<1>3. LeaveClaim(c)
  BY DEF WriteClaim
<1> QED
  BY <1>1, <1>2, <1>3
     DEF ClaimInv, ClusterTypeOK, CCTypeOK, ClaimCopyInv, ClaimRowInv, SentClaims,
         cluster, LeaveClaim, ClaimAwait, ClaimEarly

\* A call that pins a row, sends its transaction and waits.
LEMMA ClaimSendInv ==
    ASSUME ClaimInv, NEW c \in Claimer, NEW s \in ClaimRow,
           s.pending \in ClaimTx, s.checkpoint = NoneSigned,
           s.status # "confirmed",
           claim' = s, claimCopy' = [claimCopy EXCEPT ![c] = s],
           Broadcast(s.pending), GotoClaim(c, "send"),
           UNCHANGED <<checkpoints, height, world>>
    PROVE  ClaimInv'
<1>1. /\ net' \in [Tx -> TxStatus] /\ ClaimMonotone(net, net', world)
  BY ClaimBroadcast DEF ClaimInv, ClusterTypeOK
<1>2. ClusterTypeOK' /\ CCTypeOK'
  BY <1>1 DEF ClaimInv, ClusterTypeOK, CCTypeOK, GotoClaim, ClaimAwait
<1>3. ClaimCopyInv'
  BY DEF ClaimInv, CCTypeOK, ClaimCopyInv, GotoClaim, ClaimEarly
<1>4. ClaimRowInv'
  BY <1>1 DEF ClaimInv, CCTypeOK, ClaimRowInv, ClaimMonotone
<1> QED
  BY <1>2, <1>3, <1>4 DEF ClaimInv

\* Every step of a call.
ClaimCall(c) ==
    \/ ClaimNew(c) \/ ClaimResume(c) \/ ClaimBuild(c) \/ ClaimSent(c)
    \/ ClaimConfirm(c) \/ ClaimStatus(c) \/ ClaimReceipt(c)
    \/ ClaimHistory(c) \/ ClaimHeight(c) \/ ClaimFinalize(c)
    \/ ClaimQuit(c)

\* An answer "failed" is of a transaction that has failed.
LEMMA ClaimFailedViews ==
    ASSUME NEW t \in Tx, net \in [Tx -> TxStatus]
    PROVE  /\ \A v \in StatusViews(t) : v \in {"procErr", "err"}
                => net[t] \in {"procErr", "err"}
           /\ "err" \in ConfirmedViews(t) => net[t] = "err"
  BY DEF StatusViews, ConfirmedViews, TxStatus

LEMMA ClaimCallInv ==
    ASSUME ClaimInv, NEW c \in Claimer, ClaimCall(c)
    PROVE  ClaimInv'
<1>0. claimAt[c] \notin ClaimEarly =>
        /\ claimCopy[c] \in ClaimRow /\ claimCopy[c].pending \in ClaimTx
        /\ claimCopy[c].checkpoint = NoneSigned
        /\ claimCopy[c].status # "confirmed" /\ claim # NoClaim
        /\ claimCopy[c].pending \in Tx /\ net \in [Tx -> TxStatus]
  BY DEF ClaimInv, ClaimCopyInv, ClusterTypeOK
<1>1. CASE ClaimNew(c)
  BY <1>1 DEF ClaimNew, MayClaim, ClaimInv, ClusterTypeOK, CCTypeOK, ClaimCopyInv,
              ClaimRowInv, SentClaims, cluster, GotoClaim, ClaimAwait, ClaimEarly
<1>2. CASE ClaimResume(c)
  BY <1>2 DEF ClaimResume, MayClaim, Resumable, ClaimRow, ClaimInv,
              ClusterTypeOK, CCTypeOK, ClaimCopyInv, ClaimRowInv, SentClaims, cluster,
              GotoClaim, ClaimAwait, ClaimEarly
<1>3. CASE ClaimBuild(c)
  <2>1. PICK t \in ClaimTx :
          \/ WriteClaim(c, Fresh(t)) /\ UNCHANGED net
          \/ /\ Pinned(t)
             /\ claimCopy' = [claimCopy EXCEPT ![c] = Submitted(Fresh(t))]
             /\ Broadcast(t)
             /\ GotoClaim(c, "send")
    BY <1>3 DEF ClaimBuild
  <2>2. UNCHANGED <<checkpoints, height, world>>
    BY <1>3 DEF ClaimBuild
  <2>3. CASE WriteClaim(c, Fresh(t)) /\ UNCHANGED net
    <3>1. /\ claim' \in ClaimRow /\ claim'.pending \in ClaimTx /\ claim' # NoClaim
          /\ claim'.checkpoint = NoneSigned /\ claim'.status # "confirmed"
      BY <2>3, FreshRow DEF WriteClaim
    <3> QED
      BY <2>2, <2>3, <3>1 DEF WriteClaim, ClaimInv, ClusterTypeOK, CCTypeOK,
         ClaimCopyInv, ClaimRowInv, SentClaims, LeaveClaim, ClaimAwait, ClaimEarly
  <2>4. CASE Pinned(t) /\ Broadcast(t) /\ GotoClaim(c, "send")
             /\ claimCopy' = [claimCopy EXCEPT ![c] = Submitted(Fresh(t))]
    BY <2>2, <2>4, FreshRow, ClaimSendInv DEF Pinned
  <2> QED
    BY <2>1, <2>3, <2>4
<1>4. CASE ClaimSent(c)
  BY <1>4, ClaimStayInv, ClaimWriteInv DEF ClaimSent, ClaimAwait, ClaimEarly
<1>5. CASE ClaimConfirm(c)
  BY <1>0, <1>5, ClaimStayInv, ClaimWriteInv, ClaimFailedViews
     DEF ClaimConfirm, ClaimAwait, ClaimEarly
<1>6. CASE ClaimStatus(c)
  BY <1>0, <1>6, ClaimStayInv, ClaimWriteInv, ClaimFailedViews
     DEF ClaimStatus, ClaimAwait, ClaimEarly
<1>7. CASE ClaimReceipt(c)
  BY <1>0, <1>7, ClaimStayInv, ClaimWriteInv, ClaimFailedViews
     DEF ClaimReceipt, ClaimAwait, ClaimEarly
<1>8. CASE ClaimHistory(c)
  BY <1>0, <1>8, ClaimStayInv, ClaimWriteInv, ClaimFailedViews
     DEF ClaimHistory, ClaimAwait, ClaimEarly
<1>9. CASE ClaimHeight(c)
  <2>1. claimAt[c] \notin ClaimEarly /\ UNCHANGED <<checkpoints, height, world>>
    BY <1>9 DEF ClaimHeight, ClaimEarly
  <2>2. CASE WriteClaim(c, Lost(claimCopy[c])) /\ UNCHANGED net
    BY <2>1, <2>2, ClaimWriteInv DEF cluster
  <2>3. CASE /\ claim' = Submitted(claimCopy[c])
             /\ claimCopy' = [claimCopy EXCEPT ![c] = Submitted(@)]
             /\ Broadcast(claimCopy[c].pending)
             /\ GotoClaim(c, "send")
    <3>1. claimCopy' = [claimCopy EXCEPT ![c] = Submitted(claimCopy[c])]
      BY <2>3
    <3> QED
      BY <1>0, <2>1, <2>3, <3>1, RowChanges, ClaimSendInv
  <2> QED
    BY <1>9, <2>2, <2>3 DEF ClaimHeight
<1>10. CASE ClaimFinalize(c)
  <2>1. claimAt[c] \notin ClaimEarly /\ UNCHANGED cluster
    BY <1>10 DEF ClaimFinalize, ClaimEarly
  <2>2. CASE WriteClaim(c, claimCopy[c]) /\ UNCHANGED checkpoints
    BY <2>1, <2>2, ClaimWriteInv
  <2>3. CASE /\ Fetched(claimCopy[c].pending)
             /\ checkpoints' = checkpoints \cup {claimCopy[c].pending}
             /\ WriteClaim(c, Completed(c))
    <3>1. /\ Completed(c) \in ClaimRow /\ Completed(c).status = "confirmed"
          /\ Completed(c).checkpoint = claimCopy[c].pending
      BY <1>0, <2>1 DEF Completed, ClaimRow, ClaimInv, CCTypeOK
    <3> QED
      BY <1>0, <2>1, <2>3, <3>1 DEF WriteClaim, Fetched, ClaimInv,
         ClusterTypeOK, CCTypeOK, ClaimCopyInv, ClaimRowInv, SentClaims, cluster,
         LeaveClaim, ClaimAwait, ClaimEarly
  <2>4. CASE /\ Fetched(claimCopy[c].pending)
             /\ checkpoints' = checkpoints \cup {claimCopy[c].pending}
             /\ LeaveClaim(c) /\ UNCHANGED claim
    BY <1>0, <2>1, <2>4 DEF Fetched, ClaimInv, ClusterTypeOK, CCTypeOK,
       ClaimCopyInv, ClaimRowInv, SentClaims, cluster, LeaveClaim, ClaimAwait, ClaimEarly
  <2> QED
    BY <1>10, <2>2, <2>3, <2>4 DEF ClaimFinalize
<1>11. CASE ClaimQuit(c)
  BY <1>11, ClaimStayInv DEF ClaimQuit
<1> QED
  BY <1>1, <1>2, <1>3, <1>4, <1>5, <1>6, <1>7, <1>8, <1>9, <1>10, <1>11
     DEF ClaimCall

LEMMA ClaimInduction == ClaimInv /\ [CCNext]_<<claimVars, cluster>> => ClaimInv'
<1> SUFFICES ASSUME ClaimInv, [CCNext]_<<claimVars, cluster>> PROVE ClaimInv'
  OBVIOUS
<1>1. CASE CCCluster
  <2>1. /\ ClusterTypeOK' /\ UNCHANGED <<world, claimVars>>
        /\ ClaimMonotone(net, net', world)
        /\ \A t \in Tx : net[t] = "none" => net'[t] = "none"
    BY <1>1, ClaimClusterEffect DEF ClaimInv
  <2> QED
    BY <2>1 DEF ClaimInv, CCTypeOK, ClaimCopyInv, ClaimRowInv, SentClaims, ClaimMonotone,
                claimVars
<1>2. CASE \E c \in Claimer : ClaimCall(c)
  BY <1>2, ClaimCallInv
<1>3. CASE UNCHANGED <<claimVars, cluster>>
  BY <1>3 DEF claimVars, cluster, ClaimInv, ClusterTypeOK, CCTypeOK, ClaimCopyInv,
              ClaimRowInv, SentClaims
<1> QED
  BY <1>1, <1>2, <1>3 DEF CCNext, ClaimCall

\* The row, the copies of it and the checkpoints have their types.
THEOREM ClaimTypeCorrect == CCSpec => [](ClusterTypeOK /\ CCTypeOK)
<1>1. ClaimInv => ClusterTypeOK /\ CCTypeOK
  BY DEF ClaimInv
<1> QED
  BY <1>1, ClaimInit, ClaimInduction, PTL DEF CCSpec

LEMMA ClaimRowMatches == ClaimInv => ClaimMatchesChain
<1>1. ClaimInv => ConfirmedHasLanded
  BY DEF ClaimInv, ClaimRowInv, ConfirmedHasLanded
<1>2. ClaimInv => LandedIsKept
  <2> SUFFICES ASSUME ClaimInv, ~world.reland,
                      \A t, u \in SignedClaims : t = u,
                      NEW t \in SentClaims, net[t] = "ok"
               PROVE  claim # NoClaim /\ t \in {claim.pending, claim.checkpoint}
    BY DEF LandedIsKept
  <2>1. claim # NoClaim /\ t \in ClaimTx /\ t \in SignedClaims
    BY DEF ClaimInv, ClaimRowInv, SentClaims, SignedClaims
  <2>2. \A u \in ClaimTx \cap {claim.pending, claim.checkpoint} :
            u \in SignedClaims
    BY <2>1 DEF SignedClaims
  <2>3. \A u \in ClaimTx : net[u] \in {"procErr", "err"} => u \in SignedClaims
    BY DEF SentClaims, SignedClaims
  <2> QED
    BY <2>1, <2>2, <2>3 DEF ClaimInv, ClaimRowInv
<1> QED
  BY <1>1, <1>2 DEF ClaimMatchesChain

\* A confirmed row has the checkpoint of a claim that landed, and while one
\* claim has been signed and failures are final, one that landed is found from
\* the row: whatever stale copies overlapping resumes write back.
THEOREM ClaimRowIsTrue == CCSpec => []ClaimMatchesChain
  BY ClaimRowMatches, ClaimInit, ClaimInduction, PTL DEF CCSpec

-----------------------------------------------------------------------------
(* Calls that do not overlap *)

\* The one call under way and the row pin the same transaction, the only one
\* that was ever sent.
ClaimAloneInv ==
    world.serial =>
      /\ \A c, d \in Claimer :
            claimAt[c] # "idle" /\ claimAt[d] # "idle" => c = d
      /\ \A c \in Claimer : claimAt[c] = "build" => claim = NoClaim
      /\ \A t \in SentClaims :
            /\ claim.pending \in ClaimTx => t = claim.pending
            /\ \A c \in Claimer :
                 claimAt[c] \notin ClaimEarly => t = claimCopy[c].pending
      /\ \A t, u \in SentClaims : t = u

SerialClaimInv == ClaimInv /\ ClaimAloneInv

LEMMA SerialClaimInit == CCInit /\ ClusterInit => SerialClaimInv
  BY ClaimInit DEF CCInit, ClusterInit, SerialClaimInv, ClaimAloneInv, SentClaims

LEMMA SerialCallInv ==
    ASSUME SerialClaimInv, NEW c \in Claimer, ClaimCall(c)
    PROVE  ClaimAloneInv'
<1> SUFFICES ASSUME world.serial PROVE ClaimAloneInv'
  BY DEF ClaimAloneInv, ClaimCall, ClaimNew, ClaimResume, ClaimBuild, ClaimSent,
         ClaimConfirm, ClaimStatus, ClaimReceipt, ClaimHistory, ClaimHeight,
         ClaimFinalize, ClaimQuit, cluster
<1>0. /\ claimAt \in [Claimer -> ClaimAwait] /\ net \in [Tx -> TxStatus]
      /\ claimCopy \in [Claimer -> ClaimRow \cup {NoClaim}]
      /\ claimAt[c] \notin ClaimEarly =>
           /\ claimCopy[c] \in ClaimRow /\ claimCopy[c].pending \in ClaimTx
           /\ claimCopy[c].checkpoint = NoneSigned
           /\ claimCopy[c].status # "confirmed"
  BY DEF SerialClaimInv, ClaimInv, CCTypeOK, ClusterTypeOK, ClaimCopyInv
\* What is written is the copy; what is read is the row.
<1>1. ASSUME net' = net, UNCHANGED claim,
             \/ LeaveClaim(c)
             \/ /\ claimAt[c] \notin ClaimEarly /\ UNCHANGED claimCopy
                /\ \E a \in ClaimAwait \ ClaimEarly : GotoClaim(c, a)
      PROVE  ClaimAloneInv'
  BY <1>0, <1>1 DEF SerialClaimInv, ClaimAloneInv, SentClaims, LeaveClaim,
                    GotoClaim, ClaimEarly
<1>2. ASSUME net' = net, claimAt[c] \notin ClaimEarly,
             \E s \in {claimCopy[c], Submitted(claimCopy[c]),
                       Lost(claimCopy[c]), Refused(claimCopy[c])} :
                WriteClaim(c, s)
      PROVE  ClaimAloneInv'
  <2>1. /\ claim'.pending \in {claimCopy[c].pending, NoneSigned}
        /\ LeaveClaim(c)
    BY <1>0, <1>2, RowChanges DEF WriteClaim
  <2> QED
    BY <1>0, <1>2, <2>1 DEF SerialClaimInv, ClaimAloneInv, SentClaims, LeaveClaim,
                            ClaimEarly
<1>3. CASE ClaimNew(c)
  BY <1>0, <1>3 DEF ClaimNew, MayClaim, SerialClaimInv, ClaimAloneInv, SentClaims,
                    GotoClaim, cluster, ClaimEarly
<1>4. CASE ClaimResume(c)
  BY <1>0, <1>4 DEF ClaimResume, MayClaim, Resumable, ClaimRow, SerialClaimInv,
     ClaimAloneInv, SentClaims, GotoClaim, cluster, ClaimEarly, ClaimInv, CCTypeOK
<1>5. CASE ClaimBuild(c)
  <2>1. claim = NoClaim /\ SentClaims = {}
    BY <1>5 DEF ClaimBuild, SerialClaimInv, ClaimAloneInv, ClaimInv, ClaimRowInv
  <2>2. PICK t \in ClaimTx :
          \/ WriteClaim(c, Fresh(t)) /\ UNCHANGED net
          \/ /\ Pinned(t)
             /\ claimCopy' = [claimCopy EXCEPT ![c] = Submitted(Fresh(t))]
             /\ Broadcast(t)
             /\ GotoClaim(c, "send")
    BY <1>5 DEF ClaimBuild
  <2>3. CASE WriteClaim(c, Fresh(t)) /\ UNCHANGED net
    <3>1. claim'.pending = t /\ LeaveClaim(c)
      BY <2>3, FreshRow DEF WriteClaim
    <3>2. SentClaims' = {}
      BY <2>1, <2>3 DEF SentClaims
    <3>3. \A d \in Claimer : claimAt'[d] = "idle"
      BY <1>0, <1>5, <3>1 DEF ClaimBuild, LeaveClaim, SerialClaimInv, ClaimAloneInv
    <3> QED
      BY <3>2, <3>3 DEF ClaimAloneInv
  <2>4. CASE Pinned(t) /\ Broadcast(t) /\ GotoClaim(c, "send")
             /\ claimCopy' = [claimCopy EXCEPT ![c] = Submitted(Fresh(t))]
    <3>1. claim'.pending = t /\ claimCopy'[c].pending = t
      BY <1>0, <2>4, FreshRow DEF Pinned
    <3>2. \A u \in SentClaims' : u = t
      BY <1>0, <2>1, <2>4, ClaimBroadcast DEF SentClaims
    <3>3. \A d \in Claimer : claimAt'[d] # "idle" => d = c
      BY <1>0, <1>5, <2>4 DEF ClaimBuild, GotoClaim, SerialClaimInv, ClaimAloneInv
    <3>4. claimAt'[c] = "send"
      BY <1>0, <2>4 DEF GotoClaim
    <3> QED
      BY <3>1, <3>2, <3>3, <3>4 DEF ClaimAloneInv, ClaimEarly
  <2> QED
    BY <2>2, <2>3, <2>4
<1>6. CASE ClaimSent(c)
  BY <1>1, <1>2, <1>6 DEF ClaimSent, ClaimAwait, ClaimEarly, cluster
<1>7. CASE ClaimConfirm(c)
  BY <1>1, <1>2, <1>7 DEF ClaimConfirm, ClaimAwait, ClaimEarly, cluster
<1>8. CASE ClaimStatus(c)
  BY <1>1, <1>2, <1>8 DEF ClaimStatus, ClaimAwait, ClaimEarly, cluster
<1>9. CASE ClaimReceipt(c)
  BY <1>1, <1>2, <1>9 DEF ClaimReceipt, ClaimAwait, ClaimEarly, cluster
<1>10. CASE ClaimHistory(c)
  BY <1>1, <1>2, <1>10 DEF ClaimHistory, ClaimAwait, ClaimEarly, cluster
<1>11. CASE ClaimHeight(c)
  <2>1. claimAt[c] \notin ClaimEarly /\ claimAt[c] # "idle"
    BY <1>11 DEF ClaimHeight, ClaimEarly
  <2>2. CASE WriteClaim(c, Lost(claimCopy[c])) /\ UNCHANGED net
    BY <1>2, <2>1, <2>2
  <2>3. CASE /\ claim' = Submitted(claimCopy[c])
             /\ claimCopy' = [claimCopy EXCEPT ![c] = Submitted(@)]
             /\ Broadcast(claimCopy[c].pending)
             /\ GotoClaim(c, "send")
    <3> DEFINE t == claimCopy[c].pending
    <3>1. claim'.pending = t /\ claimCopy'[c].pending = t
      BY <1>0, <2>1, <2>3, RowChanges
    <3>2. \A u \in SentClaims' : u = t
      BY <1>0, <2>1, <2>3, ClaimBroadcast
         DEF SentClaims, SerialClaimInv, ClaimAloneInv
    <3>3. \A d \in Claimer : claimAt'[d] # "idle" => d = c
      BY <1>0, <2>1, <2>3 DEF GotoClaim, SerialClaimInv, ClaimAloneInv
    <3>4. claimAt'[c] = "send"
      BY <1>0, <2>3 DEF GotoClaim
    <3> QED
      BY <3>1, <3>2, <3>3, <3>4 DEF ClaimAloneInv, ClaimEarly
  <2> QED
    BY <1>11, <2>2, <2>3 DEF ClaimHeight
<1>12. CASE ClaimFinalize(c)
  <2>1. claimAt[c] \notin ClaimEarly /\ net' = net
    BY <1>12 DEF ClaimFinalize, ClaimEarly, cluster
  <2>2. CASE WriteClaim(c, Completed(c))
    <3>1. claim'.pending = NoneSigned /\ LeaveClaim(c)
      BY <1>0, <2>1, <2>2 DEF WriteClaim, Completed, ClaimRow,
         SerialClaimInv, ClaimInv, CCTypeOK, ClaimCopyInv
    <3> QED
      BY <1>0, <2>1, <3>1 DEF SerialClaimInv, ClaimAloneInv, SentClaims,
                              LeaveClaim, ClaimEarly
  <2> QED
    BY <1>1, <1>2, <1>12, <2>1, <2>2 DEF ClaimFinalize
<1>13. CASE ClaimQuit(c)
  BY <1>1, <1>13 DEF ClaimQuit, cluster
<1> QED
  BY <1>3, <1>4, <1>5, <1>6, <1>7, <1>8, <1>9, <1>10, <1>11, <1>12, <1>13
     DEF ClaimCall

LEMMA SerialClaimInduction ==
    SerialClaimInv /\ [CCNext]_<<claimVars, cluster>> => SerialClaimInv'
<1> SUFFICES ASSUME SerialClaimInv, [CCNext]_<<claimVars, cluster>>
             PROVE  SerialClaimInv'
  OBVIOUS
<1>1. ClaimInv'
  BY ClaimInduction DEF SerialClaimInv
<1>2. CASE CCCluster
  <2>1. /\ UNCHANGED <<world, claimVars>>
        /\ \A t \in Tx : net[t] = "none" => net'[t] = "none"
    BY <1>2, ClaimClusterEffect DEF SerialClaimInv, ClaimInv
  <2>2. SentClaims' \subseteq SentClaims
    BY <2>1 DEF SentClaims
  <2> QED
    BY <1>1, <2>1, <2>2 DEF SerialClaimInv, ClaimAloneInv, claimVars
<1>3. CASE \E c \in Claimer : ClaimCall(c)
  BY <1>1, <1>3, SerialCallInv DEF SerialClaimInv
<1>4. CASE UNCHANGED <<claimVars, cluster>>
  BY <1>1, <1>4 DEF SerialClaimInv, ClaimAloneInv, claimVars, cluster, SentClaims
<1> QED
  BY <1>2, <1>3, <1>4 DEF CCNext, ClaimCall

\* Calls that do not overlap send one transaction for an id, ever: through
\* crashes, expiry, failures that land again and any number of resumes.
THEOREM OneClaimEver == CCSpec => []OneClaimPerId
<1>1. SerialClaimInv => OneClaimPerId
  BY DEF SerialClaimInv, ClaimAloneInv, OneClaimPerId
<1> QED
  BY <1>1, SerialClaimInit, SerialClaimInduction, PTL DEF CCSpec

-----------------------------------------------------------------------------
(* Calls that do not overlap implement PayOnce *)

\* Nobody is left to write a copy over a row that is confirmed.
DoneInv ==
    world.serial /\ claim # NoClaim /\ claim.status = "confirmed" =>
        \A c \in Claimer : claimAt[c] = "idle"

LEMMA DoneCallInv ==
    ASSUME SerialClaimInv, DoneInv, NEW c \in Claimer, ClaimCall(c)
    PROVE  DoneInv'
<1> SUFFICES ASSUME world.serial PROVE DoneInv'
  BY DEF DoneInv, ClaimCall, ClaimNew, ClaimResume, ClaimBuild, ClaimSent,
         ClaimConfirm, ClaimStatus, ClaimReceipt, ClaimHistory, ClaimHeight,
         ClaimFinalize, ClaimQuit, cluster
<1>0. /\ claimAt \in [Claimer -> ClaimAwait]
      /\ claimCopy \in [Claimer -> ClaimRow \cup {NoClaim}]
      /\ claimAt[c] \notin ClaimEarly =>
           /\ claimCopy[c] \in ClaimRow /\ claimCopy[c].pending \in ClaimTx
           /\ claimCopy[c].checkpoint = NoneSigned
           /\ claimCopy[c].status # "confirmed"
  BY DEF SerialClaimInv, ClaimInv, CCTypeOK, ClaimCopyInv
<1>1. claimAt[c] # "idle" => \A d \in Claimer \ {c} : claimAt[d] = "idle"
  BY DEF SerialClaimInv, ClaimAloneInv
\* A call that returns leaves nobody behind.
<1>2. ASSUME claimAt[c] # "idle", LeaveClaim(c) PROVE DoneInv'
  BY <1>0, <1>1, <1>2 DEF DoneInv, LeaveClaim
\* One that goes on has not confirmed.
<1>3. ASSUME claimAt[c] # "idle", UNCHANGED claim,
             NEW a \in ClaimAwait, GotoClaim(c, a)
      PROVE  DoneInv'
  BY <1>0, <1>3 DEF DoneInv, GotoClaim
<1>4. CASE ClaimNew(c)
  BY <1>4 DEF ClaimNew, DoneInv
<1>5. CASE ClaimResume(c)
  BY <1>5 DEF ClaimResume, Resumable, DoneInv
<1>6. CASE ClaimBuild(c)
  <2>1. claimAt[c] # "idle"
    BY <1>6 DEF ClaimBuild
  <2>2. ASSUME NEW t \in ClaimTx, Pinned(t) PROVE DoneInv'
    <3>1. claim'.status # "confirmed"
      BY <2>2, FreshRow DEF Pinned
    <3> QED
      BY <3>1 DEF DoneInv
  <2> QED
    BY <1>2, <1>6, <2>1, <2>2 DEF ClaimBuild, WriteClaim
<1>7. CASE ClaimHeight(c)
  <2>1. claimAt[c] # "idle" /\ claimAt[c] \notin ClaimEarly
    BY <1>7 DEF ClaimHeight, ClaimEarly
  <2>2. ASSUME claim' = Submitted(claimCopy[c]) PROVE DoneInv'
    <3>1. claim'.status # "confirmed"
      BY <1>0, <2>1, <2>2, RowChanges
    <3> QED
      BY <3>1 DEF DoneInv
  <2> QED
    BY <1>2, <1>7, <2>1, <2>2 DEF ClaimHeight, WriteClaim
<1>8. CASE ClaimSent(c) \/ ClaimConfirm(c) \/ ClaimStatus(c) \/ ClaimReceipt(c)
           \/ ClaimHistory(c) \/ ClaimFinalize(c) \/ ClaimQuit(c)
  BY <1>2, <1>3, <1>8 DEF ClaimSent, ClaimConfirm, ClaimStatus, ClaimReceipt,
     ClaimHistory, ClaimFinalize, ClaimQuit, WriteClaim, ClaimAwait
<1> QED
  BY <1>4, <1>5, <1>6, <1>7, <1>8 DEF ClaimCall

OnceInv == SerialClaimInv /\ DoneInv

LEMMA OnceInit == CCInit /\ ClusterInit => OnceInv
  BY SerialClaimInit DEF CCInit, OnceInv, DoneInv

LEMMA OnceInduction ==
    OnceInv /\ [CCNext]_<<claimVars, cluster>> => OnceInv'
<1> SUFFICES ASSUME OnceInv, [CCNext]_<<claimVars, cluster>>
             PROVE  DoneInv'
  BY SerialClaimInduction DEF OnceInv
<1>1. CASE CCCluster
  <2>1. UNCHANGED <<world, claimVars>>
    BY <1>1, ClaimClusterEffect DEF OnceInv, SerialClaimInv, ClaimInv
  <2> QED
    BY <2>1 DEF OnceInv, DoneInv, claimVars
<1>2. CASE \E c \in Claimer : ClaimCall(c)
  BY <1>2, DoneCallInv DEF OnceInv
<1>3. CASE UNCHANGED <<claimVars, cluster>>
  BY <1>3 DEF OnceInv, DoneInv, claimVars, cluster
<1> QED
  BY <1>1, <1>2, <1>3 DEF CCNext, ClaimCall

\* What the abstract variables say of the concrete ones.
LEMMA Mapping ==
    /\ AbstractClaim!vars = <<ClaimedBy, ReportedClaim>>
    /\ ReportedClaim = IF claim # NoClaim /\ claim.status = "confirmed"
                       THEN {"rewards"} ELSE {}
  BY DEF AbstractClaim!vars, ReportedClaim

\* A call confirms nothing; what it reports has been claimed, and it takes
\* nothing back.
LEMMA ClaimCallRefines ==
    ASSUME OnceInv, OnceInv', world.serial, NEW c \in Claimer, ClaimCall(c)
    PROVE  AbstractClaim!Next \/ UNCHANGED AbstractClaim!vars
<1>1. \A t \in ClaimTx : net'[t] = "ok" <=> net[t] = "ok"
  <2>0. net \in [Tx -> TxStatus]
    BY DEF OnceInv, SerialClaimInv, ClaimInv, ClusterTypeOK
  <2>1. ASSUME NEW t \in ClaimTx, Broadcast(t)
        PROVE  \A u \in ClaimTx : net'[u] = "ok" <=> net[u] = "ok"
    BY <2>0, <2>1 DEF Broadcast, TxStatus
  <2>2. claimAt[c] \notin ClaimEarly => claimCopy[c].pending \in ClaimTx
    BY DEF OnceInv, SerialClaimInv, ClaimInv, ClaimCopyInv
  <2> QED
    BY <2>1, <2>2 DEF ClaimCall, ClaimNew, ClaimResume, ClaimBuild, ClaimSent,
       ClaimConfirm, ClaimStatus, ClaimReceipt, ClaimHistory, ClaimHeight,
       ClaimFinalize, ClaimQuit, cluster, ClaimEarly
<1>2. ClaimedBy' = ClaimedBy
  BY <1>1 DEF ClaimedBy
\* Nothing confirmed is taken back: no call is under way, and none starts.
<1>3. ASSUME claim # NoClaim, claim.status = "confirmed"
      PROVE  claim' = claim
  <2>1. claimAt[c] = "idle"
    BY <1>3 DEF OnceInv, DoneInv
  <2> QED
    BY <1>3, <2>1 DEF ClaimCall, ClaimNew, ClaimResume, ClaimBuild, ClaimSent,
       ClaimConfirm, ClaimStatus, ClaimReceipt, ClaimHistory, ClaimHeight,
       ClaimFinalize, ClaimQuit
\* What is confirmed has the checkpoint of a claim that landed.
<1>4. ASSUME claim' # NoClaim, claim'.status = "confirmed"
      PROVE  ClaimedBy["rewards"] # {}
  <2>1. claim'.checkpoint \in ClaimTx /\ net'[claim'.checkpoint] = "ok"
    BY <1>4 DEF OnceInv, SerialClaimInv, ClaimInv, ClaimRowInv, CCTypeOK
  <2> QED
    BY <1>1, <2>1 DEF ClaimedBy
<1>5. CASE ReportedClaim' = ReportedClaim
  BY <1>2, <1>5, Mapping DEF AbstractClaim!vars
<1>6. CASE ReportedClaim' # ReportedClaim
  <2>1. ReportedClaim' = ReportedClaim \cup {"rewards"}
    BY <1>3, <1>6, Mapping DEF ReportedClaim
  <2>2. ClaimedBy["rewards"] # {}
    BY <1>3, <1>4, <1>6 DEF ReportedClaim
  <2>3. AbstractClaim!Report({"rewards"})
    BY <1>2, <2>1, <2>2 DEF AbstractClaim!Report
  <2> QED
    BY <2>3 DEF AbstractClaim!Next
<1> QED
  BY <1>5, <1>6

\* The cluster confirms the one claim that was sent.
LEMMA ClaimClusterRefines ==
    ASSUME OnceInv, world.serial, CCCluster
    PROVE  AbstractClaim!Next \/ UNCHANGED AbstractClaim!vars
<1>0. net \in [Tx -> TxStatus] /\ ClaimTx \subseteq Tx
  BY DEF OnceInv, SerialClaimInv, ClaimInv, ClusterTypeOK
<1>1. UNCHANGED claimVars /\ ReportedClaim' = ReportedClaim
  BY DEF CCCluster, claimVars, ReportedClaim
<1>2. ASSUME \A t \in ClaimTx : net'[t] = "ok" <=> net[t] = "ok"
      PROVE  UNCHANGED AbstractClaim!vars
  <2>1. ClaimedBy' = ClaimedBy
    BY <1>2 DEF ClaimedBy
  <2> QED
    BY <1>1, <2>1 DEF AbstractClaim!vars
<1>3. ASSUME NEW t \in ClaimTx, ConfirmOk(t)
      PROVE  AbstractClaim!Next
  <2>1. net[t] = "procOk" /\ net' = [net EXCEPT ![t] = "ok"]
    BY <1>3 DEF ConfirmOk, SetNet
  <2>2. \A u \in ClaimTx : net[u] # "none" => u = t
    BY <2>1 DEF OnceInv, SerialClaimInv, ClaimAloneInv, SentClaims
  <2>3. \A u \in ClaimTx : net[u] # "ok" /\ (net'[u] = "ok" <=> u = t)
    BY <1>0, <2>1, <2>2
  <2>4. ClaimedBy["rewards"] = {} /\ ClaimedBy'["rewards"] = {t}
    BY <2>3 DEF ClaimedBy
  <2>5. ClaimedBy' = [a \in {"rewards"} |->
                        IF a \in {"rewards"} THEN {t} ELSE ClaimedBy[a]]
    BY <2>4 DEF ClaimedBy
  <2>6. AbstractClaim!Pay(t, {"rewards"})
    BY <1>1, <2>4, <2>5 DEF AbstractClaim!Pay
  <2> QED
    BY <2>6 DEF AbstractClaim!Next
<1>4. ASSUME NEW t \in ClaimTx, Process(t) \/ ConfirmErr(t) \/ DropFork(t)
      PROVE  \A u \in ClaimTx : net'[u] = "ok" <=> net[u] = "ok"
  BY <1>0, <1>4 DEF Process, ConfirmErr, DropFork, SetNet
<1>5. CASE Tick
  BY <1>2, <1>5 DEF Tick
<1> QED
  BY <1>2, <1>3, <1>4, <1>5 DEF CCCluster

LEMMA ClaimMapsInit == CCInit /\ ClusterInit => AbstractClaim!Init
<1> SUFFICES ASSUME CCInit, ClusterInit PROVE AbstractClaim!Init
  OBVIOUS
<1>1. \A t \in ClaimTx : net[t] # "ok"
  BY DEF ClusterInit
<1>2. ClaimedBy = [a \in {"rewards"} |-> {}]
  BY <1>1 DEF ClaimedBy
<1>3. ReportedClaim = {}
  BY DEF CCInit, ReportedClaim
<1> QED
  BY <1>2, <1>3 DEF AbstractClaim!Init

LEMMA ClaimMapsStep ==
    OnceInv /\ OnceInv' /\ [CCNext]_<<claimVars, cluster>> =>
        [world.serial => AbstractClaim!Next]_(AbstractClaim!vars)
<1> SUFFICES ASSUME OnceInv, OnceInv', [CCNext]_<<claimVars, cluster>>, world.serial
             PROVE  AbstractClaim!Next \/ UNCHANGED AbstractClaim!vars
  OBVIOUS
<1>1. CASE CCCluster
  BY <1>1, ClaimClusterRefines
<1>2. CASE \E c \in Claimer : ClaimCall(c)
  BY <1>2, ClaimCallRefines
<1>3. CASE UNCHANGED <<claimVars, cluster>>
  BY <1>3 DEF claimVars, cluster, AbstractClaim!vars, ClaimedBy, ReportedClaim
<1> QED
  BY <1>1, <1>2, <1>3 DEF CCNext, ClaimCall

\* Calls that do not overlap claim an id's rewards once, report that only
\* when it has happened, and never take the report back.
THEOREM ClaimImplementsPayOnce == CCSpec => ClaimsOnce
  BY ClaimMapsInit, ClaimMapsStep, OnceInit, OnceInduction, PTL DEF CCSpec, ClaimsOnce
=============================================================================
