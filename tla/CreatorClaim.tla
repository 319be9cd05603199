------------------------------ MODULE CreatorClaim ------------------------------
(***************************************************************************)
(* rewards/creator-claim.ts: the claim of a creator's rewards under a      *)
(* stable id.  The first call builds the id's transaction and pins it in a *)
(* settings row before it is sent; later calls only reconcile that row.    *)
(* When the transaction is confirmed a checkpoint of what it paid is saved *)
(* under its signature, then the row is read again and completed.  A step  *)
(* of a call is the code between two awaits; Quit is the death of the      *)
(* process, or an exception that leaves the call, at any of them.          *)
(* Claims without an id keep no row and are left out.                      *)
(***************************************************************************)
EXTENDS Cluster

CONSTANTS
    Claimer,    \* concurrent calls with the same claim id
    ClaimTx,    \* the claims that can be signed for the id
    NoClaim,    \* no row for the id
    NoneSigned  \* pending = null, checkpoint = null

ASSUME ClaimAssumption ==
    /\ ClaimTx \subseteq Tx
    /\ NoneSigned \notin Tx

ClaimRow == [ status     : {"prepared", "submitted", "confirmed", "failed",
                            "uncertain"},
              pending    : ClaimTx \cup {NoneSigned},
              checkpoint : ClaimTx \cup {NoneSigned} ]

ASSUME NoClaimAssumption == NoClaim \notin ClaimRow

VARIABLES
    claim,        \* the settings row of the id
    claimCopy,    \* claimCopy[c]: the state object of call c
    claimAt,      \* claimAt[c]: the await call c is at
    checkpoints   \* the signatures with a checkpoint row

claimVars == <<claim, claimCopy, claimAt, checkpoints>>

ClaimAwait == {"idle", "build", "send", "confirm", "status", "reconfirm",
               "parsed", "height", "finalize"}

CCTypeOK ==
    /\ claim \in ClaimRow \cup {NoClaim}
    /\ claimCopy \in [Claimer -> ClaimRow \cup {NoClaim}]
    /\ claimAt \in [Claimer -> ClaimAwait]
    /\ checkpoints \subseteq ClaimTx

CCInit ==
    /\ claim = NoClaim
    /\ claimCopy = [c \in Claimer |-> NoClaim]
    /\ claimAt = [c \in Claimer |-> "idle"]
    /\ checkpoints = {}

-----------------------------------------------------------------------------

GotoClaim(c, label) == claimAt' = [claimAt EXCEPT ![c] = label]

LeaveClaim(c) ==
    /\ claimAt' = [claimAt EXCEPT ![c] = "idle"]
    /\ claimCopy' = [claimCopy EXCEPT ![c] = NoClaim]

\* The state object is written back whole, then the call returns or throws.
WriteClaim(c, s) == claim' = s /\ LeaveClaim(c)

Fresh(t) == [status |-> "prepared", pending |-> t, checkpoint |-> NoneSigned]
Submitted(s) == [s EXCEPT !.status = "submitted"]

\* Slip: the signature of a claim that expired is dropped.
LostUnpinned(s) == [s EXCEPT !.status = "uncertain", !.pending = NoneSigned]

Lost(s) == [s EXCEPT !.status = "uncertain"]

Refused(s) == [s EXCEPT !.status = "failed", !.pending = NoneSigned]

MayClaim(c) ==
    /\ claimAt[c] = "idle"
    /\ world.serial => \A d \in Claimer : claimAt[d] = "idle"

\* Slip: a claim recorded as failed is built anew.
ClaimAnew(c) ==
    /\ MayClaim(c)
    /\ claim # NoClaim => claim.status = "failed"
    /\ GotoClaim(c, "build")
    /\ UNCHANGED <<claim, claimCopy, checkpoints, cluster>>

\* No row yet: slot check, payout resolution, compiling and simulation follow.
ClaimNew(c) ==
    /\ MayClaim(c)
    /\ claim = NoClaim
    /\ GotoClaim(c, "build")
    /\ UNCHANGED <<claim, claimCopy, checkpoints, cluster>>

\* A confirmed claim is answered from its checkpoint, a failed one refused.
Resumable(s) == s.pending # NoneSigned /\ s.status # "confirmed"

ClaimResume(c) ==
    /\ MayClaim(c)
    /\ claim # NoClaim
    /\ Resumable(claim)
    /\ claimCopy' = [claimCopy EXCEPT ![c] = claim]
    /\ GotoClaim(c, "status")
    /\ UNCHANGED <<claim, checkpoints, cluster>>

Pinned(t) == claim' = Submitted(Fresh(t))

\* The row is written twice, prepared and submitted, before the send; the
\* process may die between the two.
ClaimBuild(c) ==
    /\ claimAt[c] = "build"
    /\ \E t \in ClaimTx :
        /\ t.lastValid >= height
        /\ \/ WriteClaim(c, Fresh(t)) /\ UNCHANGED net
           \/ /\ Pinned(t)
              /\ claimCopy' = [claimCopy EXCEPT ![c] = Submitted(Fresh(t))]
              /\ Broadcast(t)
              /\ GotoClaim(c, "send")
    /\ UNCHANGED <<checkpoints, height, world>>

\* The sender answers with the signature, throws (lastError is written), or
\* answers with another signature.
ClaimSent(c) ==
    /\ claimAt[c] = "send"
    /\ \/ GotoClaim(c, "confirm") /\ UNCHANGED <<claim, claimCopy>>
       \/ WriteClaim(c, claimCopy[c])
       \/ WriteClaim(c, Lost(claimCopy[c]))
    /\ UNCHANGED <<checkpoints, cluster>>

\* Unconfirmed in time: a provisional result, nothing is written.
ClaimConfirm(c) ==
    /\ claimAt[c] = "confirm"
    /\ \E view \in ConfirmedViews(claimCopy[c].pending) :
        \/ view = "ok" /\ GotoClaim(c, "finalize") /\ UNCHANGED <<claim, claimCopy>>
        \/ view = "err" /\ WriteClaim(c, Refused(claimCopy[c]))
        \/ view = "none" /\ LeaveClaim(c) /\ UNCHANGED claim
    /\ UNCHANGED <<checkpoints, cluster>>

ClaimStatus(c) ==
    /\ claimAt[c] = "status"
    /\ \E view \in StatusViews(claimCopy[c].pending) :
        \/ view \in {"procErr", "err"} /\ WriteClaim(c, Refused(claimCopy[c]))
        \/ view = "ok" /\ GotoClaim(c, "reconfirm") /\ UNCHANGED <<claim, claimCopy>>
        \/ view = "procOk" /\ WriteClaim(c, Submitted(claimCopy[c]))
        \/ view = "none" /\ GotoClaim(c, "parsed") /\ UNCHANGED <<claim, claimCopy>>
    /\ UNCHANGED <<checkpoints, cluster>>

ClaimReceipt(c) ==
    /\ claimAt[c] = "reconfirm"
    /\ \E view \in ConfirmedViews(claimCopy[c].pending) :
        IF view = "err" THEN WriteClaim(c, Refused(claimCopy[c]))
        ELSE GotoClaim(c, "finalize") /\ UNCHANGED <<claim, claimCopy>>
    /\ UNCHANGED <<checkpoints, cluster>>

ClaimHistory(c) ==
    /\ claimAt[c] = "parsed"
    /\ \E view \in ConfirmedViews(claimCopy[c].pending) :
        \/ view = "err" /\ WriteClaim(c, Refused(claimCopy[c]))
        \/ view = "ok" /\ GotoClaim(c, "finalize") /\ UNCHANGED <<claim, claimCopy>>
        \/ view = "none" /\ GotoClaim(c, "height") /\ UNCHANGED <<claim, claimCopy>>
    /\ UNCHANGED <<checkpoints, cluster>>

\* Expired: uncertain, to be resumed.  Otherwise the same bytes are sent.
ClaimHeight(c) ==
    /\ claimAt[c] = "height"
    /\ \E seen \in 0..height :
        \/ /\ seen > claimCopy[c].pending.lastValid
           /\ WriteClaim(c, Lost(claimCopy[c]))
           /\ UNCHANGED net
        \/ /\ seen <= claimCopy[c].pending.lastValid
           /\ claim' = Submitted(claimCopy[c])
           /\ claimCopy' = [claimCopy EXCEPT ![c] = Submitted(@)]
           /\ Broadcast(claimCopy[c].pending)
           /\ GotoClaim(c, "send")
    /\ UNCHANGED <<checkpoints, height, world>>

\* The row is read again; whatever it pins is taken for this transaction.
Completed(c) ==
    [claim EXCEPT !.status = "confirmed", !.pending = NoneSigned,
                  !.checkpoint = claimCopy[c].pending]

\* confirmedCreatorRewardTransaction: the transaction with its metadata.
Fetched(t) == net[t] = "ok"

\* Not available after eight requests, or its slot is before the basis:
\* the row still pins it.  The checkpoint is saved before the row.
ClaimFinalize(c) ==
    /\ claimAt[c] = "finalize"
    /\ \/ WriteClaim(c, claimCopy[c]) /\ UNCHANGED checkpoints
       \/ /\ Fetched(claimCopy[c].pending)
          /\ checkpoints' = checkpoints \cup {claimCopy[c].pending}
          /\ \/ WriteClaim(c, Completed(c))
             \/ LeaveClaim(c) /\ UNCHANGED claim
    /\ UNCHANGED cluster

ClaimQuit(c) ==
    /\ claimAt[c] # "idle"
    /\ LeaveClaim(c)
    /\ UNCHANGED <<claim, checkpoints, cluster>>

CCCluster ==
    /\ Tick \/ \E t \in ClaimTx : Process(t) \/ ConfirmOk(t) \/ ConfirmErr(t) \/ DropFork(t)
    /\ UNCHANGED claimVars

CCNext ==
    \/ \E c \in Claimer :
        \/ ClaimNew(c) \/ ClaimResume(c) \/ ClaimBuild(c) \/ ClaimSent(c)
        \/ ClaimConfirm(c) \/ ClaimStatus(c) \/ ClaimReceipt(c)
        \/ ClaimHistory(c) \/ ClaimHeight(c) \/ ClaimFinalize(c)
        \/ ClaimQuit(c)
    \/ CCCluster

CCSpec == CCInit /\ ClusterInit /\ [][CCNext]_<<claimVars, cluster>>

-----------------------------------------------------------------------------
(* Properties *)

SentClaims == {t \in ClaimTx : net[t] # "none"}

\* Calls that do not overlap send one transaction for an id, ever: not
\* another one after a crash, an expiry or a failure ("will not build another
\* claim until this signature is resolved").
OneClaimPerId ==
    world.serial => \A t, u \in SentClaims : t = u

\* Every transaction some call or row of the id has had.
SignedClaims ==
    SentClaims \cup checkpoints \cup
    UNION { {s.pending, s.checkpoint} \cap ClaimTx :
              s \in ({claim} \cup {claimCopy[c] : c \in Claimer}) \ {NoClaim} }

\* A confirmed row has the saved checkpoint of a transaction that landed.
ConfirmedHasLanded ==
    /\ \A t \in checkpoints : net[t] = "ok"
    /\ claim # NoClaim /\ claim.status = "confirmed" =>
            claim.checkpoint \in checkpoints

\* While one call has built and failures are final, a claim that landed is
\* found from the row, pinned or in its checkpoint.
LandedIsKept ==
    ~world.reland /\ (\A t, u \in SignedClaims : t = u) =>
        \A t \in SentClaims : net[t] = "ok" =>
            claim # NoClaim /\ t \in {claim.pending, claim.checkpoint}

\* Row and chain agree in both directions, whatever stale copies overlapping
\* resumes write back.
ClaimMatchesChain == ConfirmedHasLanded /\ LandedIsKept

-----------------------------------------------------------------------------
(* Refinement *)

\* What the chain has paid for the id, and what the row reports as claimed.
ClaimedBy == [a \in {"rewards"} |-> {t \in ClaimTx : net[t] = "ok"}]
ReportedClaim ==
    {a \in {"rewards"} : claim # NoClaim /\ claim.status = "confirmed"}

AbstractClaim == INSTANCE PayOnce WITH
    Alloc <- {"rewards"}, Payer <- ClaimTx,
    paidBy <- ClaimedBy, reported <- ReportedClaim

\* Calls that do not overlap implement PayOnce: the rewards of an id are
\* claimed once on chain, the row says "confirmed" only after that, and no
\* stale copy of a call ever takes it back.
ClaimsOnce ==
    /\ AbstractClaim!Init
    /\ [][world.serial => AbstractClaim!Next]_(AbstractClaim!vars)
=============================================================================
