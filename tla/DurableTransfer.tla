--------------------------- MODULE DurableTransfer ---------------------------
(***************************************************************************)
(* tx/durable-transfer-many.ts: crash-safe payment of a set of allocations *)
(* under one stable id.  The durable state is one JSON row of the settings *)
(* table; every call of executeDurableTransferMany or                      *)
(* resumeDurableTransferMany is a driver that works on its own copy of the *)
(* row and overwrites the row after each change.  A step of a driver is    *)
(* the code between two awaits; Crash is the death of the process, or an   *)
(* exception that leaves the call, at any of them.                         *)
(*                                                                         *)
(* Signing is deterministic, so a transaction IS its content: the batch,   *)
(* the economic input and the blockhash, which fixes lastValid.            *)
(***************************************************************************)
EXTENDS Integers

CONSTANTS
    Alloc,           \* allocation ids, numbered in their sorted order
    Input,           \* economic inputs (inputHash values) callers may supply
    Driver,          \* concurrent calls on the same stable id
    MaxHeight,       \* bound: the last block height explored
    ValidFor,        \* blocks a blockhash stays valid (150 on Solana)
    HashAge,         \* how many blocks old the blockhash of a build may be
    Serial,          \* callers never run two drivers at once
    FailedCanReland, \* a processed failure may be dropped and land again
    NoTx,            \* pending = null
    NoState          \* no row for the id

ASSUME AllocAssumption == Alloc \subseteq Nat /\ Alloc # {}
ASSUME HeightAssumption ==
    MaxHeight \in Nat /\ ValidFor \in Nat /\ HashAge \in Nat
ASSUME FlagAssumption == Serial \in BOOLEAN /\ FailedCanReland \in BOOLEAN

Tx == [ input     : Input,
        ids       : (SUBSET Alloc) \ {{}},
        lastValid : ValidFor..(MaxHeight + ValidFor) ]

ASSUME NoTxAssumption == NoTx \notin Tx

RowStatus == {"planned", "distributing", "complete", "uncertain"}

Row == [ input     : Input,
         status    : RowStatus,
         paid      : SUBSET Alloc,
         pending   : Tx \cup {NoTx},
         attempted : BOOLEAN,         \* submissionAttempts > 0
         receipts  : SUBSET Tx ]

ASSUME NoStateAssumption == NoState \notin Row

\* none: no leader has it; inflight: it may still be processed;
\* procOk/procErr: in a block that is not confirmed; ok/err: confirmed.
TxStatus == {"none", "inflight", "procOk", "procErr", "ok", "err"}

PC == {"idle", "pack", "status", "reconfirm", "parsed", "height",
       "build", "submit", "send", "confirm"}

VARIABLES
    db,         \* the settings row of the id
    mem,        \* mem[d]: driver d's copy of the row
    pc,         \* pc[d]: the await driver d is at
    net,        \* net[t]: what the cluster has done with transaction t
    height      \* the cluster's block height

vars == <<db, mem, pc, net, height>>

-----------------------------------------------------------------------------
(* Changes of the row *)

Unpaid(s) == Alloc \ s.paid
AllPaid(s) == Unpaid(s) = {}

Planned(in) ==
    [ input |-> in, status |-> "planned", paid |-> {}, pending |-> NoTx,
      attempted |-> FALSE, receipts |-> {} ]

MarkPendingPaid(s) == [s EXCEPT !.paid = @ \cup s.pending.ids]

RecordReceipt(s) == [s EXCEPT !.receipts = @ \cup {s.pending}]

\* Slip: the receipt is written but the allocations are not marked.
OnConfirmedUnmarked(s) ==
    [RecordReceipt(s) EXCEPT !.pending = NoTx,
                             !.attempted = FALSE,
                             !.status = "distributing"]

OnConfirmed(s) ==
    LET r == RecordReceipt(MarkPendingPaid(s))
    IN  [r EXCEPT !.pending = NoTx,
                  !.attempted = FALSE,
                  !.status = IF AllPaid(r) THEN "complete" ELSE "distributing"]

\* Slip: a status the state machine does not have.
OnFailedTerminal(s) ==
    [s EXCEPT !.pending = NoTx, !.attempted = FALSE, !.status = "failed"]

OnFailed(s) ==
    [s EXCEPT !.pending = NoTx, !.attempted = FALSE, !.status = "distributing"]

OnUnresolved(s) == [s EXCEPT !.status = "distributing"]

OnUncertain(s) == [s EXCEPT !.status = "uncertain"]

PersistBeforeSubmission(s, t) ==
    [s EXCEPT !.status = "distributing", !.pending = t, !.attempted = FALSE]

\* Slip: the attempt is not marked before the network call.
MarkAttemptLater(s) == s

MarkAttempt(s) == [s EXCEPT !.attempted = TRUE]

\* packTransferMany packs the unpaid allocations in order; drive takes its
\* first batch, whose length depends on byte sizes and options.
FirstBatches(s) ==
    { B \in SUBSET Unpaid(s) :
        B # {} /\ \A a \in B, b \in Unpaid(s) \ B : a < b }

-----------------------------------------------------------------------------
(* What a driver can observe.  A lagging RPC node may not have the         *)
(* transaction yet, or may have it at an earlier commitment.               *)

StatusViews(t) ==
    {"none"} \cup
    CASE net[t] = "ok"  -> {"procOk", "ok"}
      [] net[t] = "err" -> {"procErr", "err"}
      [] net[t] \in {"procOk", "procErr"} -> {net[t]}
      [] OTHER -> {}

\* confirmSignature and getParsedTransaction answer at confirmed commitment.
ConfirmedViews(t) ==
    {"none"} \cup (IF net[t] \in {"ok", "err"} THEN {net[t]} ELSE {})

-----------------------------------------------------------------------------
(* Driver steps *)

Goto(d, label) == pc' = [pc EXCEPT ![d] = label]

\* The row and the driver's copy change together.
WriteState(d, s) ==
    /\ db' = s
    /\ mem' = [mem EXCEPT ![d] = s]

Return(d) ==
    /\ pc' = [pc EXCEPT ![d] = "idle"]
    /\ mem' = [mem EXCEPT ![d] = NoState]

WriteAndReturn(d, s) ==
    /\ db' = s
    /\ Return(d)

\* The head of drive: reconcile what is pending before building anything.
\* Slip: unpaid allocations are rebuilt without reconciling the pending batch.
DriveWithoutReconcile(d, s) ==
    /\ s.status # "uncertain" /\ ~AllPaid(s)
    /\ mem' = [mem EXCEPT ![d] = s]
    /\ Goto(d, "build")

Drive(d, s) ==
    \/ /\ s.pending # NoTx
       /\ mem' = [mem EXCEPT ![d] = s]
       /\ Goto(d, "status")
    \/ /\ s.pending = NoTx /\ s.status # "uncertain" /\ ~AllPaid(s)
       /\ mem' = [mem EXCEPT ![d] = s]
       /\ Goto(d, "build")

\* After a batch is settled: the next batch, or complete.
Settle(d) ==
    LET s == OnConfirmed(mem[d]) IN
    IF AllPaid(s) THEN WriteAndReturn(d, s)
                  ELSE WriteState(d, s) /\ Goto(d, "build")

\* The failure is thrown after the row is written.
FailBatch(d) == WriteAndReturn(d, OnFailed(mem[d]))

MayStart(d) ==
    /\ pc[d] = "idle"
    /\ Serial => \A e \in Driver : pc[e] = "idle"

ExecuteNew(d, in) ==
    /\ MayStart(d)
    /\ db = NoState
    /\ mem' = [mem EXCEPT ![d] = Planned(in)]
    /\ Goto(d, "pack")
    /\ UNCHANGED <<db, net, height>>

\* The intent is saved once the packability check has returned.
SaveIntent(d) ==
    /\ pc[d] = "pack"
    /\ db' = mem[d]
    /\ Drive(d, mem[d])
    /\ UNCHANGED <<net, height>>

\* A different inputHash is refused: no step.
ExecuteAgain(d, in) ==
    /\ MayStart(d)
    /\ db # NoState
    /\ db.input = in
    /\ Drive(d, db)
    /\ UNCHANGED <<db, net, height>>

\* Slip: only a planned intent is resumed.
ResumePlannedOnly(d) ==
    /\ MayStart(d)
    /\ db # NoState
    /\ db.status = "planned"
    /\ Drive(d, db)
    /\ UNCHANGED <<db, net, height>>

\* Slip: uncertain is treated as terminal.
ResumeSkipsUncertain(d) ==
    /\ MayStart(d)
    /\ db # NoState
    /\ db.status \notin {"complete", "uncertain"}
    /\ Drive(d, db)
    /\ UNCHANGED <<db, net, height>>

Resume(d) ==
    /\ MayStart(d)
    /\ db # NoState
    /\ db.status # "complete"
    /\ Drive(d, db)
    /\ UNCHANGED <<db, net, height>>

ReconcileStatus(d) ==
    /\ pc[d] = "status"
    /\ \E view \in StatusViews(mem[d].pending) :
        \/ /\ view \in {"procErr", "err"}
           /\ FailBatch(d)
        \/ /\ view = "ok"
           /\ Goto(d, "reconfirm")
           /\ UNCHANGED <<db, mem>>
        \/ /\ view = "procOk"
           /\ WriteAndReturn(d, OnUnresolved(mem[d]))
        \/ /\ view = "none"
           /\ Goto(d, "parsed")
           /\ UNCHANGED <<db, mem>>
    /\ UNCHANGED <<net, height>>

\* Only a receipt that says "failed" stops the payment being recorded.
ReconcileReceipt(d) ==
    /\ pc[d] = "reconfirm"
    /\ \E view \in ConfirmedViews(mem[d].pending) :
        IF view = "err" THEN FailBatch(d) ELSE Settle(d)
    /\ UNCHANGED <<net, height>>

ReconcileHistory(d) ==
    /\ pc[d] = "parsed"
    /\ \E view \in ConfirmedViews(mem[d].pending) :
        \/ view = "err" /\ FailBatch(d)
        \/ view = "ok" /\ Settle(d)
        \/ view = "none" /\ Goto(d, "height") /\ UNCHANGED <<db, mem>>
    /\ UNCHANGED <<net, height>>

\* The attempt is written, then the bytes leave (or the process dies first).
Submit(d) ==
    LET t == mem[d].pending IN
    /\ WriteState(d, MarkAttempt(mem[d]))
    /\ net' \in {net, [net EXCEPT ![t] = IF @ = "none" THEN "inflight" ELSE @]}
    /\ Goto(d, "send")
    /\ UNCHANGED height

\* The node asked may lag behind the cluster.
ReconcileHeight(d) ==
    /\ pc[d] = "height"
    /\ \E seen \in 0..height :
        \/ /\ seen > mem[d].pending.lastValid
           /\ WriteAndReturn(d, OnUncertain(mem[d]))
           /\ UNCHANGED <<net, height>>
        \/ /\ seen <= mem[d].pending.lastValid
           /\ Submit(d)

\* A simulation or packing error throws before anything is written: Crash.
BuildNextPending(d) ==
    /\ pc[d] = "build"
    /\ \E ids \in FirstBatches(mem[d]), h \in 0..height :
        /\ height - h <= HashAge
        /\ WriteState(d, PersistBeforeSubmission(mem[d],
                [ input |-> mem[d].input, ids |-> ids,
                  lastValid |-> h + ValidFor ]))
    /\ Goto(d, "submit")
    /\ UNCHANGED <<net, height>>

FirstSubmit(d) == pc[d] = "submit" /\ Submit(d)

\* The sender answers with the signature, with an error, or with another one.
SendReturns(d) ==
    /\ pc[d] = "send"
    /\ \/ Goto(d, "confirm") /\ UNCHANGED <<db, mem>>
       \/ WriteAndReturn(d, mem[d])
       \/ WriteAndReturn(d, OnUncertain(mem[d]))
    /\ UNCHANGED <<net, height>>

\* Slip: "submitted" is taken for "confirmed".
ConfirmBatchOptimistic(d) ==
    /\ pc[d] = "confirm"
    /\ \E view \in ConfirmedViews(mem[d].pending) :
        IF view = "err" THEN FailBatch(d) ELSE Settle(d)
    /\ UNCHANGED <<net, height>>

ConfirmBatch(d) ==
    /\ pc[d] = "confirm"
    /\ \E view \in ConfirmedViews(mem[d].pending) :
        \/ view = "ok" /\ Settle(d)
        \/ view = "err" /\ FailBatch(d)
        \/ view = "none" /\ WriteAndReturn(d, OnUnresolved(mem[d]))
    /\ UNCHANGED <<net, height>>

Crash(d) ==
    /\ pc[d] # "idle"
    /\ Return(d)
    /\ UNCHANGED <<db, net, height>>

DriverStep(d) ==
    \/ SaveIntent(d) \/ ReconcileStatus(d) \/ ReconcileReceipt(d)
    \/ ReconcileHistory(d) \/ ReconcileHeight(d) \/ BuildNextPending(d)
    \/ FirstSubmit(d) \/ SendReturns(d) \/ ConfirmBatch(d)

-----------------------------------------------------------------------------
(* The cluster *)

SetNet(t, from, to) ==
    /\ net[t] = from
    /\ net' = [net EXCEPT ![t] = to]
    /\ UNCHANGED <<db, mem, pc, height>>

Tick ==
    /\ height < MaxHeight
    /\ height' = height + 1
    /\ UNCHANGED <<db, mem, pc, net>>

Execute(t) == height <= t.lastValid /\ SetNet(t, "inflight", "procOk")

\* The last height explored has no failures, so a rebuild after a failure can
\* always take a later blockhash.
ExecuteFails(t) ==
    /\ height <= t.lastValid
    /\ height < MaxHeight
    /\ SetNet(t, "inflight", "procErr")

ConfirmOk(t) == SetNet(t, "procOk", "ok")
ConfirmErr(t) == SetNet(t, "procErr", "err")

Droppable == IF FailedCanReland THEN {"procOk", "procErr"} ELSE {"procOk"}

\* The block is on a fork the cluster abandons.
DropFork(t) == \E from \in Droppable : SetNet(t, from, "inflight")

ClusterStep ==
    \/ Tick
    \/ \E t \in Tx : \/ Execute(t) \/ ExecuteFails(t) \/ ConfirmOk(t)
                     \/ ConfirmErr(t) \/ DropFork(t)

-----------------------------------------------------------------------------

Init ==
    /\ db = NoState
    /\ mem = [d \in Driver |-> NoState]
    /\ pc = [d \in Driver |-> "idle"]
    /\ net = [t \in Tx |-> "none"]
    /\ height = 0

Next ==
    \/ \E d \in Driver :
        \/ \E in \in Input : ExecuteNew(d, in) \/ ExecuteAgain(d, in)
        \/ Resume(d)
        \/ DriverStep(d)
        \/ Crash(d)
    \/ ClusterStep

Spec == Init /\ [][Next]_vars
-----------------------------------------------------------------------------
(* Fairness of a caller that keeps resuming, on a cluster that keeps        *)
(* working.  Crashes may go on for ever, so a driver's steps are strongly   *)
(* fair: each await is survived if it is reached again and again.           *)

\* The request of a submission gets through.
Delivers(d) == (FirstSubmit(d) \/ ReconcileHeight(d)) /\ net' # net

\* The node asked has caught up with a confirmed outcome.
LearnsOutcome(d) ==
    /\ ReconcileStatus(d)
    /\ net[mem[d].pending] \in {"ok", "err"}
    /\ pc'[d] = "reconfirm" \/ db'.pending = NoTx

\* The node asked has seen the blockhash expire.
NoticesExpiry(d) ==
    /\ ReconcileHeight(d)
    /\ pc'[d] = "idle"

Fairness ==
    /\ WF_vars(Tick)
    /\ SF_vars(\E t \in Tx : Execute(t))
    /\ SF_vars(\E t \in Tx : ConfirmOk(t) \/ ConfirmErr(t))
    /\ \A d \in Driver :
        /\ WF_vars(Resume(d))
        /\ SF_vars(ReconcileStatus(d))
        /\ SF_vars(LearnsOutcome(d))
        /\ SF_vars(ReconcileReceipt(d))
        /\ SF_vars(ReconcileHistory(d))
        /\ SF_vars(ReconcileHeight(d))
        /\ SF_vars(NoticesExpiry(d))
        /\ SF_vars(BuildNextPending(d))
        /\ SF_vars(FirstSubmit(d))
        /\ SF_vars(Delivers(d))
        /\ WF_vars(SendReturns(d))
        /\ WF_vars(ConfirmBatch(d))

FairSpec == Spec /\ Fairness

-----------------------------------------------------------------------------
(* Properties *)

TypeOK ==
    /\ db \in Row \cup {NoState}
    /\ mem \in [Driver -> Row \cup {NoState}]
    /\ pc \in [Driver -> PC]
    /\ net \in [Tx -> TxStatus]
    /\ height \in 0..MaxHeight

\* Two different confirmed transactions never move the same allocation: the
\* double payment this state machine exists to prevent.
PaidAtMostOnce ==
    \A t, u \in Tx :
        net[t] = "ok" /\ net[u] = "ok" /\ t # u => t.ids \cap u.ids = {}

\* A transaction that can still move money: it was sent and is not decided.
Unresolved(t) == net[t] \in {"inflight", "procOk"}

\* Only one batch is unresolved on the network at a time, whatever the row
\* says ("only one batch may be unresolved at a time").
OneUnresolved ==
    \A t, u \in Tx : Unresolved(t) /\ Unresolved(u) => t = u

\* Whatever has left this machine and may have moved money is found in the
\* row: pinned as pending with its attempt marked, or receipted.
NothingForgotten ==
    \A t \in Tx :
        /\ Unresolved(t) => db # NoState /\ db.pending = t /\ db.attempted
        /\ net[t] = "ok" =>
            /\ db # NoState
            /\ t \in db.receipts \/ (db.pending = t /\ db.attempted)

\* Row s against chain n: receipts are of confirmed transactions and cover
\* exactly the allocations marked paid, all of them once complete.
RowMatches(s, n) ==
    /\ \A t \in s.receipts : n[t] = "ok"
    /\ s.paid = UNION { t.ids : t \in s.receipts }
    /\ s.status = "complete" => AllPaid(s) /\ s.pending = NoTx

\* The row never claims a payment the chain has not made.
RecordMatchesChain == db # NoState => RowMatches(db, net)

\* An uncertain row still pins the signature that made it uncertain, so a
\* later resume can reconcile it ("should never happen in v1" otherwise).
UncertainKeepsPending ==
    db # NoState /\ db.status = "uncertain" => db.pending # NoTx

\* The chain has decided t for good.
Decided(t) ==
    net[t] \in {"ok", "err"} \/ (net[t] = "procErr" /\ ~FailedCanReland)

\* A pending transaction is dropped from the row only after the chain decided
\* it: no replacement for one that may still land.
ReplacedOnlyWhenDecided ==
    [][ db # NoState /\ db.pending # NoTx /\ db'.pending # db.pending
          => Decided(db.pending) ]_vars

\* What makes the above inductive: a live driver's copy is the row itself,
\* unless it is about to save the intent, and the batch a row pins is one it
\* has not marked paid.
SerialCopies ==
    /\ \A d, e \in Driver : pc[d] # "idle" /\ pc[e] # "idle" => d = e
    /\ \A d \in Driver :
        /\ pc[d] \notin {"idle", "pack"} => mem[d] = db
        /\ pc[d] = "pack" => db = NoState
    /\ db # NoState /\ db.pending # NoTx => db.pending.ids \cap db.paid = {}

\* The abstract promise: pay once, report only what is paid, never withdraw.
Abstract == INSTANCE PayOnce WITH
    Payer    <- Tx,
    paidBy   <- [a \in Alloc |-> {t \in Tx : net[t] = "ok" /\ a \in t.ids}],
    reported <- IF db = NoState THEN {} ELSE db.paid

PaysOnce == Abstract!Spec

\* A saved intent is carried to completion or to the declared dead end.
EveryIntentEnds ==
    db # NoState ~> db # NoState /\ db.status \in {"complete", "uncertain"}

\* A payment that landed is discovered by a later resume, even when the row
\* had already given up on it as uncertain.
LandedIsRecorded ==
    \A t \in Tx : net[t] = "ok" ~> db # NoState /\ t \in db.receipts
=============================================================================
