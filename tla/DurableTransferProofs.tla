------------------------ MODULE DurableTransferProofs ------------------------
(***************************************************************************)
(* Proofs about DurableTransfer, for every set of allocations, of callers  *)
(* and of inputs and every bound on the heights.                           *)
(*                                                                         *)
(* First, in any mode (overlapping callers, failures that land again): the *)
(* row has its type and never claims a payment the chain did not make.     *)
(* Then, for callers that do not overlap and failures that are final: at   *)
(* most one transaction can still move money, it is pinned in the row, and *)
(* no allocation is paid twice.                                            *)
(***************************************************************************)
EXTENDS DurableTransfer, TLAPS

USE AllocAssumption, HeightAssumption, FlagAssumption, NoTxAssumption,
    NoStateAssumption

-----------------------------------------------------------------------------
(* The row operators *)

\* A driver at one of these awaits has a pending transaction in its copy.
Awaiting == {"status", "reconfirm", "parsed", "height", "submit", "send",
             "confirm"}

\* What every copy of the row satisfies, on its own and against the chain.
GoodRow(s, n) ==
    /\ s \in Row
    /\ RowMatches(s, n)
    /\ s.status = "uncertain" => s.pending # NoTx

\* The allocations covered by one more receipt.
LEMMA OneMoreReceipt ==
    ASSUME NEW S, NEW x
    PROVE  UNION {t.ids : t \in S \cup {x}}
             = (UNION {t.ids : t \in S}) \cup x.ids
  OBVIOUS

\* Paying a confirmed batch keeps the row in agreement with the chain.
LEMMA ConfirmedRow ==
    ASSUME NEW s, NEW n, GoodRow(s, n), s.pending \in Tx, n[s.pending] = "ok"
    PROVE  /\ GoodRow(OnConfirmed(s), n)
           /\ OnConfirmed(s).pending = NoTx
           /\ OnConfirmed(s).paid = s.paid \cup s.pending.ids
           /\ OnConfirmed(s).receipts = s.receipts \cup {s.pending}
<1> DEFINE p == s.pending
           o == OnConfirmed(s)
<1>1. /\ p.ids \subseteq Alloc
      /\ s.paid \subseteq Alloc
      /\ s.receipts \subseteq Tx
  BY DEF GoodRow, Row, Tx
<1>a. MarkPendingPaid(s) = [ input |-> s.input, status |-> s.status,
            paid |-> s.paid \cup p.ids, pending |-> p,
            attempted |-> s.attempted, receipts |-> s.receipts ]
  BY DEF MarkPendingPaid, GoodRow, Row
<1> DEFINE q == MarkPendingPaid(s)
           r == RecordReceipt(q)
<1>b. r = [ input |-> s.input, status |-> s.status,
            paid |-> s.paid \cup p.ids, pending |-> p,
            attempted |-> s.attempted, receipts |-> s.receipts \cup {p} ]
  <2>1. r = [q EXCEPT !.receipts = q.receipts \cup {q.pending}]
    BY DEF RecordReceipt
  <2>2. q = [ input |-> s.input, status |-> s.status,
              paid |-> s.paid \cup p.ids, pending |-> p,
              attempted |-> s.attempted, receipts |-> s.receipts ]
    BY <1>a
  <2> HIDE DEF q, r, p
  <2>3. q.receipts = s.receipts /\ q.pending = p
    BY <2>2
  <2>4. QED
    BY <2>1, <2>2, <2>3
<1>c. AllPaid(r) <=> Alloc \ (s.paid \cup p.ids) = {}
  BY <1>b DEF AllPaid, Unpaid
<1>2. o = [ input |-> s.input,
            status |-> IF Alloc \ (s.paid \cup p.ids) = {}
                       THEN "complete" ELSE "distributing",
            paid |-> s.paid \cup p.ids, pending |-> NoTx,
            attempted |-> FALSE, receipts |-> s.receipts \cup {p} ]
  <2> HIDE DEF r
  <2>1. o = [r EXCEPT !.pending = NoTx, !.attempted = FALSE,
                 !.status = IF AllPaid(r) THEN "complete" ELSE "distributing"]
    BY DEF OnConfirmed, r
  <2>2. QED
    BY <1>b, <1>c, <2>1
<1>3. o \in Row
  BY <1>1, <1>2 DEF GoodRow, Row, RowStatus
<1>4. UNION {t.ids : t \in s.receipts \cup {p}}
        = (UNION {t.ids : t \in s.receipts}) \cup p.ids
  BY OneMoreReceipt
<1>5. RowMatches(o, n)
  BY <1>2, <1>4 DEF GoodRow, RowMatches, AllPaid, Unpaid
<1>6. QED
  BY <1>2, <1>3, <1>5 DEF GoodRow

\* The other changes of a row that pins a transaction.
LEMMA PendingRow ==
    ASSUME NEW s, NEW n, GoodRow(s, n), s.pending \in Tx
    PROVE  /\ GoodRow(OnFailed(s), n) /\ OnFailed(s).pending = NoTx
           /\ OnFailed(s).paid = s.paid /\ OnFailed(s).receipts = s.receipts
           /\ \A r \in {OnUnresolved(s), OnUncertain(s), MarkAttempt(s)} :
                /\ GoodRow(r, n) /\ r.pending = s.pending
                /\ r.paid = s.paid /\ r.receipts = s.receipts
                /\ s.attempted => r.attempted
           /\ MarkAttempt(s).attempted
  BY DEF GoodRow, Row, RowStatus, RowMatches, AllPaid, Unpaid, OnFailed,
         OnUnresolved, OnUncertain, MarkAttempt

\* Pinning the next transaction.
LEMMA PersistedRow ==
    ASSUME NEW s, NEW n, GoodRow(s, n), NEW t \in Tx
    PROVE  LET r == PersistBeforeSubmission(s, t) IN
           /\ GoodRow(r, n)
           /\ r.pending = t /\ r.paid = s.paid /\ r.receipts = s.receipts
  BY DEF GoodRow, Row, RowStatus, RowMatches, AllPaid, Unpaid,
         PersistBeforeSubmission

LEMMA PlannedRow ==
    ASSUME NEW in \in Input, NEW n
    PROVE  GoodRow(Planned(in), n) /\ Planned(in).pending = NoTx
  BY DEF GoodRow, Row, RowStatus, RowMatches, Planned, AllPaid, Unpaid

\* A row stays good when the chain only confirms more.
LEMMA GoodRowMonotone ==
    ASSUME NEW s, NEW n, NEW m, GoodRow(s, n),
           \A t \in Tx : n[t] = "ok" => m[t] = "ok"
    PROVE  GoodRow(s, m)
  BY DEF GoodRow, Row, RowMatches

-----------------------------------------------------------------------------
(* Any mode: the row is sound *)

\* What holds of a driver at label l with copy r.
LocalOK(r, l, n) ==
    l # "idle" =>
        /\ GoodRow(r, n)
        /\ l \in Awaiting => r.pending \in Tx
        /\ l = "build" => r.pending = NoTx
        /\ l = "reconfirm" => n[r.pending] = "ok"

SoundInv ==
    /\ TypeOK
    /\ db # NoState => GoodRow(db, net)
    /\ \A d \in Driver : LocalOK(mem[d], pc[d], net)

\* What every step of driver d does.
SoundStep(d) ==
    /\ \E r \in Row \cup {NoState}, l \in PC :
        /\ mem' = [mem EXCEPT ![d] = r]
        /\ pc' = [pc EXCEPT ![d] = l]
        /\ LocalOK(r, l, net')
    /\ db' = db \/ GoodRow(db', net')
    /\ net' \in [Tx -> TxStatus]
    /\ \A t \in Tx : net[t] = "ok" => net'[t] = "ok"
    /\ height' = height

LEMMA SoundStepPreserves ==
    ASSUME SoundInv, NEW d \in Driver, SoundStep(d)
    PROVE  SoundInv'
<1> USE DEF SoundInv
<1>1. PICK r \in Row \cup {NoState}, l \in PC :
        /\ mem' = [mem EXCEPT ![d] = r]
        /\ pc' = [pc EXCEPT ![d] = l]
        /\ LocalOK(r, l, net')
  BY DEF SoundStep
<1>2. db' \in Row \cup {NoState}
  BY DEF SoundStep, TypeOK, GoodRow
<1>3. TypeOK'
  BY <1>1, <1>2 DEF SoundStep, TypeOK
<1>4. db' # NoState => GoodRow(db', net')
  BY GoodRowMonotone DEF SoundStep
<1>5. ASSUME NEW e \in Driver PROVE LocalOK(mem'[e], pc'[e], net')
  <2>1. CASE e = d
    BY <1>1, <2>1 DEF TypeOK
  <2>2. CASE e # d
    <3>1. mem'[e] = mem[e] /\ pc'[e] = pc[e]
      BY <1>1, <2>2 DEF TypeOK
    <3>2. ASSUME pc[e] # "idle" PROVE GoodRow(mem[e], net')
      BY <3>2, GoodRowMonotone DEF SoundStep, LocalOK
    <3>3. pc[e] = "reconfirm" => net'[mem[e].pending] = "ok"
      BY DEF SoundStep, LocalOK, Awaiting
    <3>4. QED
      BY <3>1, <3>2, <3>3 DEF LocalOK
  <2>3. QED
    BY <2>1, <2>2
<1>6. QED
  BY <1>3, <1>4, <1>5

\* Returning with the row written.
LEMMA ReturnSound ==
    ASSUME NEW d \in Driver, NEW s, GoodRow(s, net), TypeOK,
           WriteAndReturn(d, s), UNCHANGED <<net, height>>
    PROVE  SoundStep(d)
  BY DEF SoundStep, WriteAndReturn, Return, LocalOK, PC, TypeOK

\* Recording a confirmed batch, then returning or going on.
LEMMA SettleSound ==
    ASSUME NEW d \in Driver, TypeOK, GoodRow(mem[d], net),
           mem[d].pending \in Tx, net[mem[d].pending] = "ok",
           Settle(d), UNCHANGED <<net, height>>
    PROVE  SoundStep(d)
<1> DEFINE s == OnConfirmed(mem[d])
<1>1. GoodRow(s, net) /\ s.pending = NoTx
  BY ConfirmedRow
<1> HIDE DEF s
<1>2. CASE AllPaid(s)
  BY <1>1, <1>2, ReturnSound DEF Settle, s
<1>3. CASE ~AllPaid(s)
  <2>1. /\ db' = s
        /\ mem' = [mem EXCEPT ![d] = s]
        /\ pc' = [pc EXCEPT ![d] = "build"]
    BY <1>3 DEF Settle, WriteState, Goto, s
  <2>2. QED
    BY <1>1, <2>1 DEF SoundStep, LocalOK, PC, TypeOK, GoodRow, Awaiting
<1>4. QED
  BY <1>2, <1>3

\* Dropping a batch the chain reports as failed.
LEMMA FailSound ==
    ASSUME NEW d \in Driver, TypeOK, GoodRow(mem[d], net),
           mem[d].pending \in Tx, FailBatch(d), UNCHANGED <<net, height>>
    PROVE  SoundStep(d)
  BY PendingRow, ReturnSound DEF FailBatch

\* Entering drive with a good row.
LEMMA DriveSound ==
    ASSUME NEW d \in Driver, TypeOK, NEW s, GoodRow(s, net), Drive(d, s),
           db' = db \/ GoodRow(db', net), UNCHANGED <<net, height>>
    PROVE  SoundStep(d)
<1>1. s \in Row /\ s.pending \in Tx \cup {NoTx}
  BY DEF GoodRow, Row
<1>2. CASE s.pending # NoTx
  BY <1>1, <1>2 DEF Drive, Goto, SoundStep, LocalOK, PC, TypeOK, Awaiting
<1>3. CASE s.pending = NoTx
  BY <1>1, <1>3 DEF Drive, Goto, SoundStep, LocalOK, PC, TypeOK, Awaiting
<1>4. QED
  BY <1>2, <1>3

\* Going on to another await with the copy unchanged.
LEMMA GotoSound ==
    ASSUME NEW d \in Driver, TypeOK, NEW l \in PC, LocalOK(mem[d], l, net),
           Goto(d, l), UNCHANGED <<db, mem, net, height>>
    PROVE  SoundStep(d)
<1>1. mem[d] \in Row \cup {NoState} /\ mem' = [mem EXCEPT ![d] = mem[d]]
  BY DEF TypeOK
<1>2. QED
  BY <1>1 DEF SoundStep, Goto, TypeOK

\* Marking the attempt and sending the pinned bytes.
LEMMA SubmitSound ==
    ASSUME NEW d \in Driver, TypeOK, GoodRow(mem[d], net),
           mem[d].pending \in Tx, Submit(d)
    PROVE  SoundStep(d)
<1> DEFINE t == mem[d].pending
           r == MarkAttempt(mem[d])
<1>1. GoodRow(r, net) /\ r.pending = t
  BY PendingRow
<1>2. /\ net' \in [Tx -> TxStatus]
      /\ \A u \in Tx : net[u] = "ok" => net'[u] = "ok"
  BY DEF Submit, TypeOK, TxStatus
<1>3. GoodRow(r, net')
  BY <1>1, <1>2, GoodRowMonotone
<1>4. /\ db' = r
      /\ mem' = [mem EXCEPT ![d] = r]
      /\ pc' = [pc EXCEPT ![d] = "send"]
      /\ height' = height
  BY DEF Submit, WriteState, Goto
<1> HIDE DEF r
<1>5. QED
  BY <1>1, <1>2, <1>3, <1>4
     DEF SoundStep, LocalOK, PC, Awaiting, GoodRow

\* A confirmed view of a transaction is true.
LEMMA ViewsAreTrue ==
    ASSUME NEW t
    PROVE  /\ "ok" \in ConfirmedViews(t) => net[t] = "ok"
           /\ "err" \in ConfirmedViews(t) => net[t] = "err"
           /\ ConfirmedViews(t) \subseteq {"none", "ok", "err"}
           /\ "ok" \in StatusViews(t) => net[t] = "ok"
           /\ {"procErr", "err"} \cap StatusViews(t) # {}
                => net[t] \in {"procErr", "err"}
           /\ StatusViews(t) \subseteq {"none", "procOk", "ok", "procErr", "err"}
<1>1. CASE net[t] = "ok"
  BY <1>1 DEF ConfirmedViews, StatusViews
<1>2. CASE net[t] = "err"
  BY <1>2 DEF ConfirmedViews, StatusViews
<1>3. CASE net[t] \in {"procOk", "procErr"}
  BY <1>3 DEF ConfirmedViews, StatusViews
<1>4. CASE net[t] \notin {"ok", "err", "procOk", "procErr"}
  BY <1>4 DEF ConfirmedViews, StatusViews
<1>5. QED
  BY <1>1, <1>2, <1>3, <1>4

\* A waiting driver has a good copy that pins a transaction.
LEMMA AwaitingCopy ==
    ASSUME SoundInv, NEW d \in Driver, pc[d] \in Awaiting
    PROVE  GoodRow(mem[d], net) /\ mem[d].pending \in Tx
  BY DEF SoundInv, LocalOK, Awaiting

LEMMA DriverStepSound ==
    ASSUME SoundInv, NEW d \in Driver, DriverStep(d)
    PROVE  SoundStep(d)
<1> DEFINE t == mem[d].pending
<1>0. TypeOK
  BY DEF SoundInv
<1>1. CASE SaveIntent(d)
  <2>1. GoodRow(mem[d], net)
    BY <1>1 DEF SaveIntent, SoundInv, LocalOK
  <2>2. QED
    BY <1>0, <1>1, <2>1, DriveSound DEF SaveIntent
<1>2. CASE ReconcileStatus(d)
  <2>1. GoodRow(mem[d], net) /\ t \in Tx
    BY <1>2, AwaitingCopy DEF ReconcileStatus, Awaiting
  <2>2. PICK view \in StatusViews(t) :
          \/ FailBatch(d)
          \/ view = "ok" /\ Goto(d, "reconfirm") /\ UNCHANGED <<db, mem>>
          \/ WriteAndReturn(d, OnUnresolved(mem[d]))
          \/ Goto(d, "parsed") /\ UNCHANGED <<db, mem>>
    BY <1>2 DEF ReconcileStatus
  <2>3. UNCHANGED <<net, height>>
    BY <1>2 DEF ReconcileStatus
  <2>4. CASE FailBatch(d)
    BY <1>0, <2>1, <2>3, <2>4, FailSound
  <2>5. CASE view = "ok" /\ Goto(d, "reconfirm") /\ UNCHANGED <<db, mem>>
    <3>1. LocalOK(mem[d], "reconfirm", net)
      BY <2>1, <2>2, <2>5, ViewsAreTrue DEF LocalOK
    <3>2. QED
      BY <1>0, <2>3, <2>5, <3>1, GotoSound DEF PC
  <2>6. CASE WriteAndReturn(d, OnUnresolved(mem[d]))
    BY <1>0, <2>1, <2>3, <2>6, PendingRow, ReturnSound
  <2>7. CASE Goto(d, "parsed") /\ UNCHANGED <<db, mem>>
    <3>1. LocalOK(mem[d], "parsed", net)
      BY <2>1 DEF LocalOK
    <3>2. QED
      BY <1>0, <2>3, <2>7, <3>1, GotoSound DEF PC
  <2>8. QED
    BY <2>2, <2>4, <2>5, <2>6, <2>7
<1>3. CASE ReconcileReceipt(d)
  <2>1. GoodRow(mem[d], net) /\ t \in Tx /\ net[t] = "ok"
    BY <1>3, AwaitingCopy
       DEF ReconcileReceipt, Awaiting, SoundInv, LocalOK
  <2>2. QED
    BY <1>0, <1>3, <2>1, FailSound, SettleSound DEF ReconcileReceipt
<1>4. CASE ReconcileHistory(d)
  <2>1. GoodRow(mem[d], net) /\ t \in Tx
    BY <1>4, AwaitingCopy DEF ReconcileHistory, Awaiting
  <2>2. LocalOK(mem[d], "height", net)
    BY <2>1 DEF LocalOK
  <2>3. QED
    BY <1>0, <1>4, <2>1, <2>2, FailSound, SettleSound, GotoSound,
       ViewsAreTrue DEF ReconcileHistory, PC
<1>5. CASE ReconcileHeight(d)
  <2>1. GoodRow(mem[d], net) /\ t \in Tx
    BY <1>5, AwaitingCopy DEF ReconcileHeight, Awaiting
  <2>2. QED
    BY <1>0, <1>5, <2>1, PendingRow, ReturnSound, SubmitSound
       DEF ReconcileHeight
<1>6. CASE BuildNextPending(d)
  <2>1. GoodRow(mem[d], net)
    BY <1>6 DEF BuildNextPending, SoundInv, LocalOK
  <2>2. PICK ids \in FirstBatches(mem[d]), h \in 0..height :
          WriteState(d, PersistBeforeSubmission(mem[d],
            [ input |-> mem[d].input, ids |-> ids, lastValid |-> h + ValidFor ]))
    BY <1>6 DEF BuildNextPending
  <2> DEFINE u == [ input |-> mem[d].input, ids |-> ids,
                    lastValid |-> h + ValidFor ]
             r == PersistBeforeSubmission(mem[d], u)
  <2>3. u \in Tx
    <3>1. ids \subseteq Alloc /\ ids # {}
      BY DEF FirstBatches, Unpaid
    <3>2. mem[d].input \in Input
      BY <2>1 DEF GoodRow, Row
    <3>3. h + ValidFor \in ValidFor..(MaxHeight + ValidFor)
      BY <1>0 DEF TypeOK
    <3>4. QED
      BY <3>1, <3>2, <3>3 DEF Tx
  <2>4. GoodRow(r, net) /\ r.pending = u
    BY <2>1, <2>3, PersistedRow
  <2>5. /\ db' = r
        /\ mem' = [mem EXCEPT ![d] = r]
        /\ pc' = [pc EXCEPT ![d] = "submit"]
        /\ UNCHANGED <<net, height>>
    BY <1>6, <2>2 DEF BuildNextPending, WriteState, Goto
  <2> HIDE DEF r, u
  <2>6. QED
    BY <1>0, <2>3, <2>4, <2>5
       DEF SoundStep, LocalOK, PC, Awaiting, GoodRow, TypeOK
<1>7. CASE FirstSubmit(d)
  <2>1. GoodRow(mem[d], net) /\ t \in Tx
    BY <1>7, AwaitingCopy DEF FirstSubmit, Awaiting
  <2>2. QED
    BY <1>0, <1>7, <2>1, SubmitSound DEF FirstSubmit
<1>8. CASE SendReturns(d)
  <2>1. GoodRow(mem[d], net) /\ t \in Tx
    BY <1>8, AwaitingCopy DEF SendReturns, Awaiting
  <2>2. LocalOK(mem[d], "confirm", net)
    BY <2>1 DEF LocalOK
  <2>3. QED
    BY <1>0, <1>8, <2>1, <2>2, GotoSound, PendingRow, ReturnSound
       DEF SendReturns, PC
<1>9. CASE ConfirmBatch(d)
  <2>1. GoodRow(mem[d], net) /\ t \in Tx
    BY <1>9, AwaitingCopy DEF ConfirmBatch, Awaiting
  <2>2. QED
    BY <1>0, <1>9, <2>1, FailSound, SettleSound, PendingRow, ReturnSound,
       ViewsAreTrue DEF ConfirmBatch
<1>10. QED
  BY <1>1, <1>2, <1>3, <1>4, <1>5, <1>6, <1>7, <1>8, <1>9 DEF DriverStep

\* Starting a call, and losing one.
LEMMA CallStepSound ==
    ASSUME SoundInv, NEW d \in Driver,
           \/ \E in \in Input : ExecuteNew(d, in) \/ ExecuteAgain(d, in)
           \/ Resume(d)
           \/ Crash(d)
    PROVE  SoundStep(d)
<1>0. TypeOK
  BY DEF SoundInv
<1>1. ASSUME NEW in \in Input, ExecuteNew(d, in) PROVE SoundStep(d)
  <2>1. GoodRow(Planned(in), net) /\ Planned(in).pending = NoTx
    BY PlannedRow
  <2>2. QED
    BY <1>0, <1>1, <2>1
       DEF ExecuteNew, Goto, SoundStep, LocalOK, PC, TypeOK, GoodRow, Awaiting
<1>2. ASSUME NEW in \in Input, ExecuteAgain(d, in) PROVE SoundStep(d)
  BY <1>0, <1>2, DriveSound DEF ExecuteAgain, SoundInv
<1>3. CASE Resume(d)
  BY <1>0, <1>3, DriveSound DEF Resume, SoundInv
<1>4. CASE Crash(d)
  BY <1>0, <1>4 DEF Crash, Return, SoundStep, LocalOK, PC, TypeOK
<1>5. QED
  BY <1>1, <1>2, <1>3, <1>4

\* What every step of the cluster does.
LEMMA ClusterStepEffect ==
    ASSUME TypeOK, ClusterStep
    PROVE  /\ UNCHANGED <<db, mem, pc>>
           /\ net' \in [Tx -> TxStatus]
           /\ \A t \in Tx : net[t] = "ok" => net'[t] = "ok"
           /\ height' \in 0..MaxHeight
  BY DEF ClusterStep, Tick, Execute, ExecuteFails, ConfirmOk, ConfirmErr,
         DropFork, Droppable, SetNet, TypeOK, TxStatus

LEMMA SoundInduction == SoundInv /\ [Next]_vars => SoundInv'
<1> SUFFICES ASSUME SoundInv, [Next]_vars
             PROVE  SoundInv'
  OBVIOUS
<1>1. ASSUME NEW d \in Driver,
             \/ \E in \in Input : ExecuteNew(d, in) \/ ExecuteAgain(d, in)
             \/ Resume(d)
             \/ Crash(d)
      PROVE  SoundInv'
  BY <1>1, CallStepSound, SoundStepPreserves
<1>2. ASSUME NEW d \in Driver, DriverStep(d) PROVE SoundInv'
  BY <1>2, DriverStepSound, SoundStepPreserves
<1>3. CASE ClusterStep
  <2>1. /\ UNCHANGED <<db, mem, pc>>
        /\ net' \in [Tx -> TxStatus]
        /\ \A t \in Tx : net[t] = "ok" => net'[t] = "ok"
        /\ height' \in 0..MaxHeight
    BY <1>3, ClusterStepEffect DEF SoundInv
  <2>2. TypeOK'
    BY <2>1 DEF SoundInv, TypeOK
  <2>3. db' # NoState => GoodRow(db', net')
    BY <2>1, GoodRowMonotone DEF SoundInv
  <2>4. ASSUME NEW e \in Driver PROVE LocalOK(mem'[e], pc'[e], net')
    <3>1. pc[e] # "idle" => GoodRow(mem[e], net')
      BY <2>1, GoodRowMonotone DEF SoundInv, LocalOK
    <3>2. QED
      BY <2>1, <3>1 DEF SoundInv, LocalOK, Awaiting
  <2>5. QED
    BY <2>2, <2>3, <2>4 DEF SoundInv
<1>4. CASE UNCHANGED vars
  BY <1>4 DEF vars, SoundInv, TypeOK
<1>5. QED
  BY <1>1, <1>2, <1>3, <1>4 DEF Next

LEMMA SoundInit == Init => SoundInv
  BY DEF Init, SoundInv, TypeOK, LocalOK, PC, TxStatus

\* Every variable keeps its type, whatever the callers and the cluster do.
THEOREM TypeCorrect == Spec => []TypeOK
<1>1. SoundInv => TypeOK
  BY DEF SoundInv
<1>2. QED
  BY <1>1, SoundInit, SoundInduction, PTL DEF Spec

\* The row never claims a payment the chain has not made, even when calls
\* overlap and overwrite each other's row.
THEOREM RecordIsTrue == Spec => []RecordMatchesChain
<1>1. SoundInv => RecordMatchesChain
  BY DEF SoundInv, RecordMatchesChain, GoodRow
<1>2. QED
  BY <1>1, SoundInit, SoundInduction, PTL DEF Spec

\* An uncertain row always pins the signature to reconcile.
THEOREM UncertainIsPinned == Spec => []UncertainKeepsPending
<1>1. SoundInv => UncertainKeepsPending
  BY DEF SoundInv, UncertainKeepsPending, GoodRow
<1>2. QED
  BY <1>1, SoundInit, SoundInduction, PTL DEF Spec

-----------------------------------------------------------------------------
(* Callers that do not overlap, failures that are final *)

\* Row s accounts for all that chain n has of this intent, and the batch it
\* pins is one it has not marked paid.
Accounts(s, n) ==
    /\ \A t \in Tx : n[t] \in {"inflight", "procOk"} =>
            s # NoState /\ s.pending = t /\ s.attempted
    /\ \A t \in Tx : n[t] = "ok" =>
            s # NoState /\ (t \in s.receipts \/ (s.pending = t /\ s.attempted))
    /\ s # NoState /\ s.pending # NoTx => s.pending.ids \cap s.paid = {}

SafeInv ==
    /\ SoundInv
    /\ SerialCopies
    /\ NothingForgotten
    /\ PaidAtMostOnce

LEMMA SafeAccounts == SafeInv => Accounts(db, net)
  BY DEF SafeInv, SerialCopies, NothingForgotten, Unresolved, Accounts

LEMMA ConfirmedAccounts ==
    ASSUME NEW s, NEW n, GoodRow(s, n), Accounts(s, n),
           s.pending \in Tx, n[s.pending] = "ok"
    PROVE  Accounts(OnConfirmed(s), n)
<1> DEFINE o == OnConfirmed(s)
<1>1. /\ o \in Row /\ o # NoState /\ o.pending = NoTx
      /\ o.receipts = s.receipts \cup {s.pending}
  BY ConfirmedRow DEF GoodRow
<1> HIDE DEF o
<1>2. QED
  BY <1>1 DEF Accounts, o

LEMMA FailedAccounts ==
    ASSUME NEW s, NEW n, GoodRow(s, n), Accounts(s, n),
           s.pending \in Tx, n[s.pending] \in {"procErr", "err"}
    PROVE  Accounts(OnFailed(s), n)
<1> DEFINE o == OnFailed(s)
<1>1. /\ o \in Row /\ o # NoState /\ o.pending = NoTx
      /\ o.receipts = s.receipts
  BY PendingRow DEF GoodRow
<1> HIDE DEF o
<1>2. QED
  BY <1>1 DEF Accounts, o

LEMMA KeptAccounts ==
    ASSUME NEW s, NEW n, GoodRow(s, n), Accounts(s, n), s.pending \in Tx
    PROVE  \A r \in {OnUnresolved(s), OnUncertain(s), MarkAttempt(s)} :
             Accounts(r, n)
<1>1. ASSUME NEW r \in {OnUnresolved(s), OnUncertain(s), MarkAttempt(s)}
      PROVE  Accounts(r, n)
  <2>1. /\ r \in Row /\ r # NoState /\ r.pending = s.pending
        /\ r.paid = s.paid /\ r.receipts = s.receipts
        /\ s.attempted => r.attempted
    BY <1>1, PendingRow DEF GoodRow
  <2> HIDE <1>1
  <2>2. \A t \in Tx : n[t] \in {"inflight", "procOk"} =>
            r # NoState /\ r.pending = t /\ r.attempted
    BY <2>1 DEF Accounts
  <2>3. \A t \in Tx : n[t] = "ok" =>
            r # NoState /\ (t \in r.receipts \/ (r.pending = t /\ r.attempted))
    BY <2>1 DEF Accounts
  <2>4. s # NoState
    BY NoStateAssumption DEF GoodRow
  <2>5. r.pending.ids \cap r.paid = {}
    BY <2>1, <2>4 DEF Accounts
  <2>6. QED
    BY <2>2, <2>3, <2>5 DEF Accounts
<1>2. QED
  BY <1>1

LEMMA PersistedAccounts ==
    ASSUME NEW s, NEW n, GoodRow(s, n), Accounts(s, n), s.pending = NoTx,
           NEW t \in Tx, t.ids \subseteq Unpaid(s)
    PROVE  Accounts(PersistBeforeSubmission(s, t), n)
<1> DEFINE r == PersistBeforeSubmission(s, t)
<1>1. /\ r \in Row /\ r # NoState /\ r.pending = t
      /\ r.paid = s.paid /\ r.receipts = s.receipts
  BY PersistedRow DEF GoodRow
<1> HIDE DEF r
<1>2. QED
  BY <1>1 DEF Accounts, Unpaid, r

LEMMA SentAccounts ==
    ASSUME NEW s, NEW n, GoodRow(s, n), Accounts(s, n), s.pending \in Tx,
           n \in [Tx -> TxStatus],
           NEW m \in {n, [n EXCEPT ![s.pending] =
                            IF @ = "none" THEN "inflight" ELSE @]}
    PROVE  Accounts(MarkAttempt(s), m)
<1> DEFINE r == MarkAttempt(s)
<1>1. /\ r \in Row /\ r # NoState /\ r.pending = s.pending
      /\ r.paid = s.paid /\ r.receipts = s.receipts /\ r.attempted
  BY PendingRow DEF GoodRow
<1>2. Accounts(r, n)
  BY KeptAccounts
<1>3. \A t \in Tx : /\ m[t] = "ok" <=> n[t] = "ok"
                    /\ m[t] \in {"inflight", "procOk"} =>
                         n[t] \in {"inflight", "procOk"} \/ t = s.pending
  BY DEF TxStatus
<1> HIDE DEF r
<1>4. QED
  BY <1>1, <1>2, <1>3 DEF Accounts, r

\* The allocations a row reports, and those the chain has moved.
Reported(s) == IF s = NoState THEN {} ELSE s.paid
Moved(n) == {a \in Alloc : \E t \in Tx : n[t] = "ok" /\ a \in t.ids}

\* A step that reports paid only what the chain has moved.
ReportsMoved ==
    \E B \in SUBSET Moved(net) : Reported(db') = Reported(db) \cup B

LEMMA ReportsNothing == Reported(db') = Reported(db) => ReportsMoved
<1>1. {} \in SUBSET Moved(net)
  OBVIOUS
<1>2. Reported(db) = Reported(db) \cup {}
  OBVIOUS
<1>3. QED
  BY <1>1, <1>2, Zenon DEF ReportsMoved

\* How a step moves its driver.
DriverMoves(d) ==
    \E r, l :
        /\ mem' = [mem EXCEPT ![d] = r]
        /\ pc' = [pc EXCEPT ![d] = l]
        /\ l \notin {"idle", "pack"} => r = db'
        /\ l = "pack" => db' = NoState

LEMMA MovesWithRow ==
    ASSUME NEW d, NEW l, l \notin {"idle", "pack"},
           mem' = [mem EXCEPT ![d] = db'], pc' = [pc EXCEPT ![d] = l]
    PROVE  DriverMoves(d)
  BY DEF DriverMoves

\* What every step of the only driver d does.
SerialStep(d) ==
    /\ DriverMoves(d)
    /\ \A e \in Driver \ {d} : pc[e] = "idle"
    /\ Accounts(db', net')
    /\ \A t \in Tx : net'[t] = "ok" <=> net[t] = "ok"
    /\ ReportsMoved
    /\ db # NoState => db' # NoState
    /\ db # NoState /\ db.pending # NoTx /\ db'.pending # db.pending
         => Decided(db.pending)

LEMMA SerialStepPreserves ==
    ASSUME SafeInv, NEW d \in Driver, SerialStep(d)
    PROVE  SerialCopies' /\ NothingForgotten' /\ PaidAtMostOnce'
<1>1. PICK r, l :
        /\ mem' = [mem EXCEPT ![d] = r]
        /\ pc' = [pc EXCEPT ![d] = l]
        /\ l \notin {"idle", "pack"} => r = db'
        /\ l = "pack" => db' = NoState
  BY DEF SerialStep, DriverMoves
<1>2. mem \in [Driver -> Row \cup {NoState}] /\ pc \in [Driver -> PC]
  BY DEF SafeInv, SoundInv, TypeOK
<1>3. \A e \in Driver : e # d => pc'[e] = "idle"
  BY <1>1, <1>2 DEF SerialStep
<1>4. pc'[d] = l /\ mem'[d] = r
  BY <1>1, <1>2
<1>5. SerialCopies'
  BY <1>1, <1>3, <1>4 DEF SerialStep, SerialCopies, Accounts
<1>6. NothingForgotten'
  BY DEF SerialStep, NothingForgotten, Unresolved, Accounts
<1>7. PaidAtMostOnce'
  BY DEF SerialStep, PaidAtMostOnce, SafeInv
<1>8. QED
  BY <1>5, <1>6, <1>7

\* Returning with a row that accounts for the chain and reports no more.
LEMMA ReturnSerial ==
    ASSUME NEW d \in Driver, NEW s, WriteAndReturn(d, s),
           UNCHANGED <<net, height>>, Accounts(s, net),
           \A e \in Driver \ {d} : pc[e] = "idle",
           db # NoState, s # NoState, s.paid = db.paid,
           s.pending # db.pending => Decided(db.pending)
    PROVE  SerialStep(d)
<1>1. ReportsMoved
  BY ReportsNothing DEF WriteAndReturn, Reported
<1>2. DriverMoves(d)
  BY DEF WriteAndReturn, Return, DriverMoves
<1>3. QED
  BY <1>1, <1>2 DEF WriteAndReturn, SerialStep

\* The only driver's copy is the row.
LEMMA CopyIsRow ==
    ASSUME SafeInv, NEW d \in Driver, pc[d] \notin {"idle", "pack"}
    PROVE  /\ mem[d] = db /\ db # NoState
           /\ GoodRow(db, net) /\ Accounts(db, net)
           /\ \A e \in Driver \ {d} : pc[e] = "idle"
           /\ pc[d] \in Awaiting => db.pending \in Tx
           /\ pc[d] = "build" => db.pending = NoTx
           /\ pc[d] = "reconfirm" => net[db.pending] = "ok"
<1>1. mem[d] = db
  BY DEF SafeInv, SerialCopies
<1>2. LocalOK(mem[d], pc[d], net)
  BY DEF SafeInv, SoundInv
<1>3. GoodRow(db, net)
  BY <1>1, <1>2 DEF LocalOK
<1>4. db # NoState
  BY <1>3, NoStateAssumption DEF GoodRow
<1>5. \A e \in Driver \ {d} : pc[e] = "idle"
  BY DEF SafeInv, SerialCopies
<1>6. QED
  BY <1>1, <1>2, <1>3, <1>4, <1>5, SafeAccounts DEF LocalOK

LEMMA SettleSerial ==
    ASSUME SafeInv, NEW d \in Driver, pc[d] \in Awaiting,
           net[db.pending] = "ok", Settle(d), UNCHANGED <<net, height>>
    PROVE  SerialStep(d)
<1> DEFINE s == OnConfirmed(db)
<1>1. /\ mem[d] = db /\ db # NoState /\ GoodRow(db, net)
      /\ Accounts(db, net) /\ db.pending \in Tx
      /\ \A e \in Driver \ {d} : pc[e] = "idle"
  BY CopyIsRow DEF Awaiting
<1>2. /\ s \in Row /\ s.paid = db.paid \cup db.pending.ids
      /\ s # NoState
  BY <1>1, ConfirmedRow, NoStateAssumption DEF GoodRow
<1>3. Accounts(s, net)
  BY <1>1, ConfirmedAccounts
<1> HIDE DEF s
<1>4. db' = s /\ DriverMoves(d)
  BY <1>1 DEF Settle, WriteAndReturn, WriteState, Return, Goto, DriverMoves, s
<1>5. db.pending.ids \in SUBSET Moved(net)
  BY <1>1 DEF Moved, Tx
<1>6. ReportsMoved
  BY <1>1, <1>2, <1>4, <1>5 DEF Reported, ReportsMoved
<1>7. Decided(db.pending)
  BY DEF Decided
<1>8. QED
  BY <1>1, <1>2, <1>3, <1>4, <1>5, <1>6, <1>7 DEF SerialStep

LEMMA FailSerial ==
    ASSUME ~FailedCanReland, SafeInv, NEW d \in Driver, pc[d] \in Awaiting,
           net[db.pending] \in {"procErr", "err"}, FailBatch(d),
           UNCHANGED <<net, height>>
    PROVE  SerialStep(d)
<1> DEFINE s == OnFailed(db)
<1>1. /\ mem[d] = db /\ db # NoState /\ GoodRow(db, net)
      /\ Accounts(db, net) /\ db.pending \in Tx
      /\ \A e \in Driver \ {d} : pc[e] = "idle"
  BY CopyIsRow DEF Awaiting
<1>2. s \in Row /\ s.paid = db.paid /\ s # NoState
  BY <1>1, PendingRow, NoStateAssumption DEF GoodRow
<1>3. Accounts(s, net)
  BY <1>1, FailedAccounts
<1>4. Decided(db.pending)
  BY DEF Decided
<1>5. WriteAndReturn(d, s)
  BY <1>1 DEF FailBatch
<1> HIDE DEF s
<1>6. QED
  BY <1>1, <1>2, <1>3, <1>4, <1>5, ReturnSerial

\* Returning with the batch still pinned.
LEMMA KeepSerial ==
    ASSUME SafeInv, NEW d \in Driver, pc[d] \in Awaiting,
           NEW s \in {OnUnresolved(db), OnUncertain(db), db},
           WriteAndReturn(d, s), UNCHANGED <<net, height>>
    PROVE  SerialStep(d)
<1>1. /\ db # NoState /\ GoodRow(db, net)
      /\ Accounts(db, net) /\ db.pending \in Tx
      /\ \A e \in Driver \ {d} : pc[e] = "idle"
  BY CopyIsRow DEF Awaiting
<1>2. s # NoState /\ s.paid = db.paid /\ s.pending = db.pending
  BY <1>1, PendingRow, NoStateAssumption DEF GoodRow
<1>3. Accounts(s, net)
  BY <1>1, KeptAccounts
<1>4. QED
  BY <1>1, <1>2, <1>3, ReturnSerial

\* Going on to another await changes nothing that matters.
LEMMA GotoSerial ==
    ASSUME SafeInv, NEW d \in Driver, pc[d] \notin {"idle", "pack"},
           NEW l \in PC, l # "pack", Goto(d, l),
           UNCHANGED <<db, mem, net, height>>
    PROVE  SerialStep(d)
<1>1. /\ mem[d] = db /\ Accounts(db, net)
      /\ \A e \in Driver \ {d} : pc[e] = "idle"
  BY CopyIsRow
<1>2. mem' = [mem EXCEPT ![d] = mem[d]]
  BY DEF SafeInv, SoundInv, TypeOK
<1>3. ReportsMoved
  BY ReportsNothing
<1>4. DriverMoves(d)
  BY <1>1, <1>2 DEF Goto, DriverMoves
<1>5. QED
  BY <1>1, <1>3, <1>4 DEF SerialStep

LEMMA SubmitSerial ==
    ASSUME SafeInv, NEW d \in Driver, pc[d] \in Awaiting, Submit(d)
    PROVE  SerialStep(d)
<1> DEFINE s == MarkAttempt(db)
<1>1. /\ mem[d] = db /\ db # NoState /\ GoodRow(db, net)
      /\ Accounts(db, net) /\ db.pending \in Tx
      /\ \A e \in Driver \ {d} : pc[e] = "idle"
  BY CopyIsRow DEF Awaiting
<1>2. s # NoState /\ s.paid = db.paid /\ s.pending = db.pending
  BY <1>1, PendingRow, NoStateAssumption DEF GoodRow
<1>3. net \in [Tx -> TxStatus]
  BY DEF SafeInv, SoundInv, TypeOK
<1>4. net' \in {net, [net EXCEPT ![db.pending] =
                        IF @ = "none" THEN "inflight" ELSE @]}
  BY <1>1 DEF Submit
<1>5. Accounts(s, net')
  BY <1>1, <1>3, <1>4, SentAccounts
<1>6. \A t \in Tx : net'[t] = "ok" <=> net[t] = "ok"
  BY <1>3, <1>4 DEF TxStatus
<1>7. /\ db' = s
      /\ mem' = [mem EXCEPT ![d] = s]
      /\ pc' = [pc EXCEPT ![d] = "send"]
  BY <1>1 DEF Submit, WriteState, Goto
<1> HIDE DEF s
<1>8. ReportsMoved
  BY <1>1, <1>2, <1>7, ReportsNothing DEF Reported
<1>9. DriverMoves(d)
  <2>1. mem' = [mem EXCEPT ![d] = db']
    BY <1>7
  <2>2. QED
    BY <1>7, <2>1, MovesWithRow
<1>10. QED
  BY <1>1, <1>2, <1>5, <1>6, <1>7, <1>8, <1>9 DEF SerialStep

LEMMA DriverStepSerial ==
    ASSUME ~FailedCanReland, SafeInv, NEW d \in Driver, DriverStep(d)
    PROVE  SerialStep(d)
<1>1. CASE SaveIntent(d)
  <2> DEFINE s == mem[d]
  <2>1. db = NoState /\ \A e \in Driver \ {d} : pc[e] = "idle"
    BY <1>1 DEF SaveIntent, SafeInv, SerialCopies
  <2>2. GoodRow(s, net)
    BY <1>1 DEF SaveIntent, SafeInv, SoundInv, LocalOK
  <2>3. Accounts(db, net)
    BY SafeAccounts
  <2>4. s.receipts = {} => s.paid = {}
    BY <2>2 DEF GoodRow, RowMatches
  <2>5. \A t \in Tx : net[t] \notin {"inflight", "procOk", "ok"}
    BY <2>1, <2>3 DEF Accounts
  <2>6. s.receipts = {} /\ s.paid = {}
    BY <2>2, <2>4, <2>5 DEF GoodRow, RowMatches, Row
  <2>7. Accounts(s, net)
    BY <2>5, <2>6 DEF Accounts
  <2>8. /\ db' = s /\ UNCHANGED net
        /\ DriverMoves(d)
    BY <1>1 DEF SaveIntent, Drive, Goto, DriverMoves
  <2>9. ReportsMoved
    BY <2>1, <2>6, <2>8, ReportsNothing DEF Reported
  <2> HIDE DEF s
  <2>10. QED
    BY <2>1, <2>7, <2>8, <2>9 DEF SerialStep
<1>2. CASE ReconcileStatus(d)
  <2>1. pc[d] = "status" /\ pc[d] \in Awaiting /\ UNCHANGED <<net, height>>
    BY <1>2 DEF ReconcileStatus, Awaiting
  <2>2. mem[d] = db
    BY <2>1, CopyIsRow
  <2>3. PICK view \in StatusViews(db.pending) :
          \/ view \in {"procErr", "err"} /\ FailBatch(d)
          \/ Goto(d, "reconfirm") /\ UNCHANGED <<db, mem>>
          \/ WriteAndReturn(d, OnUnresolved(db))
          \/ Goto(d, "parsed") /\ UNCHANGED <<db, mem>>
    BY <1>2, <2>2 DEF ReconcileStatus
  <2>4. CASE view \in {"procErr", "err"} /\ FailBatch(d)
    <3>1. net[db.pending] \in {"procErr", "err"}
      BY <2>3, <2>4, ViewsAreTrue
    <3>2. QED
      BY <2>1, <2>4, <3>1, FailSerial
  <2>5. CASE Goto(d, "reconfirm") /\ UNCHANGED <<db, mem>>
    BY <2>1, <2>5, GotoSerial DEF PC
  <2>6. CASE WriteAndReturn(d, OnUnresolved(db))
    BY <2>1, <2>6, KeepSerial
  <2>7. CASE Goto(d, "parsed") /\ UNCHANGED <<db, mem>>
    BY <2>1, <2>7, GotoSerial DEF PC
  <2>8. QED
    BY <2>3, <2>4, <2>5, <2>6, <2>7
<1>3. CASE ReconcileReceipt(d)
  <2>1. pc[d] = "reconfirm" /\ pc[d] \in Awaiting /\ UNCHANGED <<net, height>>
    BY <1>3 DEF ReconcileReceipt, Awaiting
  <2>2. mem[d] = db /\ net[db.pending] = "ok"
    BY <2>1, CopyIsRow
  <2>3. Settle(d)
    BY <1>3, <2>2, ViewsAreTrue DEF ReconcileReceipt
  <2>4. QED
    BY <2>1, <2>2, <2>3, SettleSerial
<1>4. CASE ReconcileHistory(d)
  <2>1. pc[d] = "parsed" /\ pc[d] \in Awaiting /\ UNCHANGED <<net, height>>
    BY <1>4 DEF ReconcileHistory, Awaiting
  <2>2. mem[d] = db
    BY <2>1, CopyIsRow
  <2>3. \/ net[db.pending] = "err" /\ FailBatch(d)
        \/ net[db.pending] = "ok" /\ Settle(d)
        \/ Goto(d, "height") /\ UNCHANGED <<db, mem>>
    BY <1>4, <2>2, ViewsAreTrue DEF ReconcileHistory
  <2>4. QED
    BY <2>1, <2>3, FailSerial, SettleSerial, GotoSerial DEF PC
<1>5. CASE ReconcileHeight(d)
  <2>1. pc[d] = "height" /\ pc[d] \in Awaiting
    BY <1>5 DEF ReconcileHeight, Awaiting
  <2>2. mem[d] = db
    BY <2>1, CopyIsRow
  <2>3. \/ WriteAndReturn(d, OnUncertain(db)) /\ UNCHANGED <<net, height>>
        \/ Submit(d)
    BY <1>5, <2>2 DEF ReconcileHeight
  <2>4. QED
    BY <2>1, <2>3, KeepSerial, SubmitSerial
<1>6. CASE BuildNextPending(d)
  <2>1. pc[d] = "build" /\ UNCHANGED <<net, height>>
    BY <1>6 DEF BuildNextPending
  <2>2. /\ mem[d] = db /\ db # NoState /\ GoodRow(db, net)
        /\ Accounts(db, net) /\ db.pending = NoTx
        /\ \A e \in Driver \ {d} : pc[e] = "idle"
    BY <2>1, CopyIsRow
  <2>3. PICK ids \in FirstBatches(db), h \in 0..height :
          WriteState(d, PersistBeforeSubmission(db,
            [ input |-> db.input, ids |-> ids, lastValid |-> h + ValidFor ]))
    BY <1>6, <2>2 DEF BuildNextPending
  <2> DEFINE u == [ input |-> db.input, ids |-> ids,
                    lastValid |-> h + ValidFor ]
             r == PersistBeforeSubmission(db, u)
  <2>4. u \in Tx /\ u.ids \subseteq Unpaid(db)
    <3>1. ids \subseteq Unpaid(db) /\ ids \subseteq Alloc /\ ids # {}
      BY DEF FirstBatches, Unpaid
    <3>2. db.input \in Input
      BY <2>2 DEF GoodRow, Row
    <3>3. h + ValidFor \in ValidFor..(MaxHeight + ValidFor)
      BY DEF SafeInv, SoundInv, TypeOK
    <3>4. QED
      BY <3>1, <3>2, <3>3 DEF Tx
  <2>5. r.paid = db.paid /\ r # NoState
    BY <2>2, <2>4, PersistedRow, NoStateAssumption DEF GoodRow
  <2>6. Accounts(r, net)
    BY <2>2, <2>4, PersistedAccounts
  <2>7. /\ db' = r
        /\ mem' = [mem EXCEPT ![d] = r]
        /\ pc' = [pc EXCEPT ![d] = "submit"]
    BY <1>6, <2>3 DEF BuildNextPending, WriteState, Goto
  <2> HIDE DEF r, u
  <2>8. ReportsMoved
    BY <2>2, <2>5, <2>7, ReportsNothing DEF Reported
  <2>9. DriverMoves(d)
    <3>1. mem' = [mem EXCEPT ![d] = db']
      BY <2>7
    <3>2. QED
      BY <2>7, <3>1, MovesWithRow
  <2>10. QED
    BY <2>1, <2>2, <2>5, <2>6, <2>7, <2>8, <2>9 DEF SerialStep
<1>7. CASE FirstSubmit(d)
  BY <1>7, SubmitSerial DEF FirstSubmit, Awaiting
<1>8. CASE SendReturns(d)
  <2>1. pc[d] = "send" /\ pc[d] \in Awaiting /\ UNCHANGED <<net, height>>
    BY <1>8 DEF SendReturns, Awaiting
  <2>2. mem[d] = db
    BY <2>1, CopyIsRow
  <2>3. \/ Goto(d, "confirm") /\ UNCHANGED <<db, mem>>
        \/ WriteAndReturn(d, db)
        \/ WriteAndReturn(d, OnUncertain(db))
    BY <1>8, <2>2 DEF SendReturns
  <2>4. QED
    BY <2>1, <2>3, GotoSerial, KeepSerial DEF PC
<1>9. CASE ConfirmBatch(d)
  <2>1. pc[d] = "confirm" /\ pc[d] \in Awaiting /\ UNCHANGED <<net, height>>
    BY <1>9 DEF ConfirmBatch, Awaiting
  <2>2. mem[d] = db
    BY <2>1, CopyIsRow
  <2>3. \/ net[db.pending] = "err" /\ FailBatch(d)
        \/ net[db.pending] = "ok" /\ Settle(d)
        \/ WriteAndReturn(d, OnUnresolved(db))
    BY <1>9, <2>2, ViewsAreTrue DEF ConfirmBatch
  <2>4. QED
    BY <2>1, <2>3, FailSerial, SettleSerial, KeepSerial
<1>10. QED
  BY <1>1, <1>2, <1>3, <1>4, <1>5, <1>6, <1>7, <1>8, <1>9 DEF DriverStep

LEMMA CallStepSerial ==
    ASSUME Serial, SafeInv, NEW d \in Driver,
           \/ \E in \in Input : ExecuteNew(d, in) \/ ExecuteAgain(d, in)
           \/ Resume(d)
           \/ Crash(d)
    PROVE  SerialStep(d)
<1>1. Accounts(db, net) /\ UNCHANGED <<db, net, height>>
  BY SafeAccounts DEF ExecuteNew, ExecuteAgain, Resume, Crash
<1>2. ReportsMoved
  BY <1>1, ReportsNothing DEF Reported
<1>3. \A e \in Driver \ {d} : pc[e] = "idle"
  BY DEF ExecuteNew, ExecuteAgain, Resume, Crash, MayStart, SafeInv,
         SerialCopies
<1>4. DriverMoves(d)
  <2>1. ASSUME NEW in \in Input, ExecuteNew(d, in) PROVE DriverMoves(d)
    <3>1. /\ mem' = [mem EXCEPT ![d] = Planned(in)]
          /\ pc' = [pc EXCEPT ![d] = "pack"]
          /\ db' = NoState
      BY <2>1 DEF ExecuteNew, Goto
    <3>2. QED
      BY <3>1 DEF DriverMoves
  <2>2. CASE Crash(d)
    <3>1. /\ mem' = [mem EXCEPT ![d] = NoState]
          /\ pc' = [pc EXCEPT ![d] = "idle"]
      BY <2>2 DEF Crash, Return
    <3> DEFINE l == "idle"
    <3>2. (l \notin {"idle", "pack"} => NoState = db')
            /\ (l = "pack" => db' = NoState)
      OBVIOUS
    <3>3. pc' = [pc EXCEPT ![d] = l]
      BY <3>1
    <3> HIDE DEF l
    <3>4. QED
      BY <3>1, <3>2, <3>3, Zenon DEF DriverMoves
  <2>3. CASE Resume(d) \/ \E in \in Input : ExecuteAgain(d, in)
    <3>1. Drive(d, db') /\ db' = db
      BY <2>3, <1>1 DEF Resume, ExecuteAgain
    <3>2. /\ mem' = [mem EXCEPT ![d] = db']
          /\ \/ pc' = [pc EXCEPT ![d] = "status"]
             \/ pc' = [pc EXCEPT ![d] = "build"]
      BY <3>1 DEF Drive, Goto
    <3>3. CASE pc' = [pc EXCEPT ![d] = "status"]
      BY <3>2, <3>3, MovesWithRow
    <3>4. CASE pc' = [pc EXCEPT ![d] = "build"]
      BY <3>2, <3>4, MovesWithRow
    <3>5. QED
      BY <3>2, <3>3, <3>4
  <2>4. QED
    BY <2>1, <2>2, <2>3
<1>5. QED
  BY <1>1, <1>2, <1>3, <1>4 DEF SerialStep

\* A confirmation pays allocations that no confirmed transaction carried.
LEMMA ConfirmOkPays ==
    ASSUME SafeInv, NEW t \in Tx, ConfirmOk(t)
    PROVE  /\ net' = [net EXCEPT ![t] = "ok"]
           /\ UNCHANGED <<db, mem, pc, height>>
           /\ \A u \in Tx : net[u] = "ok" => u.ids \cap t.ids = {}
<1>1. /\ net[t] = "procOk" /\ net' = [net EXCEPT ![t] = "ok"]
      /\ UNCHANGED <<db, mem, pc, height>>
  BY DEF ConfirmOk, SetNet
<1>2. /\ db # NoState /\ db.pending = t
      /\ t.ids \cap db.paid = {}
  BY <1>1, SafeAccounts, NoTxAssumption DEF Accounts
<1>3. ASSUME NEW u \in Tx, net[u] = "ok" PROVE u.ids \cap t.ids = {}
  <2>1. u # t
    BY <1>1, <1>3
  <2>2. u \in db.receipts
    BY <1>2, <1>3, <2>1, SafeAccounts DEF Accounts
  <2>3. db.paid = UNION {v.ids : v \in db.receipts}
    BY <1>2 DEF SafeInv, SoundInv, GoodRow, RowMatches
  <2>4. u.ids \subseteq db.paid
    BY <2>2, <2>3
  <2>5. QED
    BY <1>2, <2>4
<1>4. QED
  BY <1>1, <1>3

LEMMA ClusterStepSafe ==
    ASSUME ~FailedCanReland, SafeInv, ClusterStep
    PROVE  SerialCopies' /\ NothingForgotten' /\ PaidAtMostOnce'
<1>0. TypeOK /\ Accounts(db, net)
  BY SafeAccounts DEF SafeInv, SoundInv
<1>1. UNCHANGED <<db, mem, pc>>
  BY <1>0, ClusterStepEffect
<1>2. SerialCopies'
  BY <1>1 DEF SerialCopies, SafeInv
<1>3. CASE \E t \in Tx : ConfirmOk(t)
  <2>1. PICK t \in Tx : ConfirmOk(t)
    BY <1>3
  <2>2. net[t] = "procOk" /\ net' = [net EXCEPT ![t] = "ok"]
    BY <2>1 DEF ConfirmOk, SetNet
  <2>3. db # NoState /\ db.pending = t /\ db.attempted
    BY <1>0, <2>2 DEF Accounts
  <2>4. \A u \in Tx : net'[u] = IF u = t THEN "ok" ELSE net[u]
    BY <1>0, <2>2 DEF TypeOK
  <2>5. NothingForgotten'
    BY <1>0, <1>1, <2>3, <2>4 DEF NothingForgotten, Unresolved, Accounts
  <2>6. PaidAtMostOnce'
    BY <2>1, <2>4, ConfirmOkPays DEF PaidAtMostOnce, SafeInv
  <2>7. QED
    BY <1>2, <2>5, <2>6
<1>4. CASE ~ \E t \in Tx : ConfirmOk(t)
  <2>1. \A u \in Tx :
          /\ net'[u] = "ok" => net[u] = "ok"
          /\ net'[u] \in {"inflight", "procOk"} =>
               net[u] \in {"inflight", "procOk"}
    BY <1>0, <1>4 DEF ClusterStep, Tick, Execute, ExecuteFails, ConfirmErr,
                      DropFork, Droppable, SetNet, TypeOK, TxStatus
  <2>2. NothingForgotten'
    BY <1>0, <1>1, <2>1 DEF NothingForgotten, Unresolved, Accounts
  <2>3. PaidAtMostOnce'
    BY <2>1 DEF PaidAtMostOnce, SafeInv
  <2>4. QED
    BY <1>2, <2>2, <2>3
<1>5. QED
  BY <1>3, <1>4

LEMMA SafeInduction ==
    ASSUME Serial, ~FailedCanReland
    PROVE  SafeInv /\ [Next]_vars => SafeInv'
<1> SUFFICES ASSUME SafeInv, [Next]_vars
             PROVE  SafeInv'
  OBVIOUS
<1>1. SoundInv'
  BY SoundInduction DEF SafeInv
<1>2. SerialCopies' /\ NothingForgotten' /\ PaidAtMostOnce'
  <2>1. ASSUME NEW d \in Driver,
               \/ \E in \in Input : ExecuteNew(d, in) \/ ExecuteAgain(d, in)
               \/ Resume(d)
               \/ Crash(d)
        PROVE  SerialCopies' /\ NothingForgotten' /\ PaidAtMostOnce'
    BY <2>1, CallStepSerial, SerialStepPreserves
  <2>2. ASSUME NEW d \in Driver, DriverStep(d)
        PROVE  SerialCopies' /\ NothingForgotten' /\ PaidAtMostOnce'
    BY <2>2, DriverStepSerial, SerialStepPreserves
  <2>3. CASE ClusterStep
    BY <2>3, ClusterStepSafe
  <2>4. CASE UNCHANGED vars
    BY <2>4 DEF vars, SafeInv, SerialCopies, NothingForgotten, Unresolved,
                PaidAtMostOnce
  <2>5. QED
    BY <2>1, <2>2, <2>3, <2>4 DEF Next
<1>3. QED
  BY <1>1, <1>2 DEF SafeInv

LEMMA SafeInit == Init => SafeInv
<1> SUFFICES ASSUME Init PROVE SafeInv
  OBVIOUS
<1>1. SoundInv
  BY SoundInit
<1>2. SerialCopies /\ NothingForgotten /\ PaidAtMostOnce
  BY DEF Init, SerialCopies, NothingForgotten, Unresolved, PaidAtMostOnce
<1>3. QED
  BY <1>1, <1>2 DEF SafeInv

\* No allocation is moved by two transactions.
THEOREM NoDoublePayment ==
    ASSUME Serial, ~FailedCanReland
    PROVE  Spec => []PaidAtMostOnce
<1>1. SafeInv => PaidAtMostOnce
  BY DEF SafeInv
<1>2. QED
  BY <1>1, SafeInit, SafeInduction, PTL DEF Spec

\* All that was sent and may have moved money is pinned or receipted.
THEOREM NothingIsForgotten ==
    ASSUME Serial, ~FailedCanReland
    PROVE  Spec => []NothingForgotten
<1>1. SafeInv => NothingForgotten
  BY DEF SafeInv
<1>2. QED
  BY <1>1, SafeInit, SafeInduction, PTL DEF Spec

\* Only one batch is unresolved at a time.
THEOREM OneBatchUnresolved ==
    ASSUME Serial, ~FailedCanReland
    PROVE  Spec => []OneUnresolved
<1>1. SafeInv => OneUnresolved
  BY DEF SafeInv, NothingForgotten, OneUnresolved
<1>2. QED
  BY <1>1, SafeInit, SafeInduction, PTL DEF Spec

\* A pinned transaction is replaced only after the chain has decided it.
THEOREM ReplacementIsSafe ==
    ASSUME Serial, ~FailedCanReland
    PROVE  Spec => ReplacedOnlyWhenDecided
<1> DEFINE Replaced == db # NoState /\ db.pending # NoTx
                       /\ db'.pending # db.pending
<1>1. ASSUME SafeInv, [Next]_vars, Replaced PROVE Decided(db.pending)
  <2>1. CASE \E d \in Driver : SerialStep(d)
    BY <1>1, <2>1 DEF SerialStep
  <2>2. CASE UNCHANGED db
    BY <1>1, <2>2
  <2>3. \/ \E d \in Driver : SerialStep(d)
        \/ UNCHANGED db
    BY <1>1, CallStepSerial, DriverStepSerial, ClusterStepEffect
       DEF Next, vars, SafeInv, SoundInv
  <2>4. QED
    BY <2>1, <2>2, <2>3
<1>2. SafeInv /\ [Next]_vars => [Replaced => Decided(db.pending)]_vars
  BY <1>1
<1>3. QED
  BY <1>2, SafeInit, SafeInduction, PTL DEF Spec, ReplacedOnlyWhenDecided

-----------------------------------------------------------------------------
(* The durable payment implements the abstract pay-once promise *)

PaidBy(n) == [a \in Alloc |-> {t \in Tx : n[t] = "ok" /\ a \in t.ids}]

LEMMA RefinesInit == Init => Abstract!Init
  BY DEF Init, Abstract!Init

\* A driver reports allocations the chain has moved, or nothing.
LEMMA SerialStepRefines ==
    ASSUME SafeInv, NEW d \in Driver, SerialStep(d)
    PROVE  Abstract!Next
<1>1. PICK B \in SUBSET Moved(net) : Reported(db') = Reported(db) \cup B
  BY DEF SerialStep, ReportsMoved
<1>2. B \in SUBSET Alloc
  BY <1>1 DEF Moved
<1>3. \A a \in B : {t \in Tx : net[t] = "ok" /\ a \in t.ids} # {}
  BY <1>1 DEF Moved
<1>4. PaidBy(net') = PaidBy(net)
  BY DEF SerialStep, PaidBy
<1>5. Abstract!Report(B)
  BY <1>1, <1>2, <1>3, <1>4 DEF Abstract!Report, Reported, PaidBy
<1>6. QED
  BY <1>2, <1>5 DEF Abstract!Next

\* A confirmation pays; the cluster's other steps change nothing abstract.
LEMMA ClusterStepRefines ==
    ASSUME SafeInv, ClusterStep
    PROVE  Abstract!Next \/ UNCHANGED Abstract!vars
<1>0. TypeOK
  BY DEF SafeInv, SoundInv
<1>1. CASE \E t \in Tx : ConfirmOk(t)
  <2>1. PICK t \in Tx : ConfirmOk(t)
    BY <1>1
  <2>2. /\ net' = [net EXCEPT ![t] = "ok"]
        /\ UNCHANGED db
        /\ \A u \in Tx : net[u] = "ok" => u.ids \cap t.ids = {}
    BY <2>1, ConfirmOkPays
  <2>3. \A u \in Tx : net'[u] = IF u = t THEN "ok" ELSE net[u]
    BY <1>0, <2>2 DEF TypeOK
  <2>4. t.ids \in SUBSET Alloc
    BY DEF Tx
  <2>5. \A a \in t.ids : {u \in Tx : net[u] = "ok" /\ a \in u.ids} = {}
    BY <2>2
  <2>6. ASSUME NEW a \in Alloc
        PROVE  {u \in Tx : net'[u] = "ok" /\ a \in u.ids}
                 = IF a \in t.ids THEN {t}
                   ELSE {u \in Tx : net[u] = "ok" /\ a \in u.ids}
    <3>1. CASE a \in t.ids
      BY <2>3, <2>5, <3>1
    <3>2. CASE a \notin t.ids
      BY <2>3, <3>2
    <3>3. QED
      BY <3>1, <3>2
  <2>7. Abstract!Pay(t, t.ids)
    BY <2>2, <2>4, <2>5, <2>6 DEF Abstract!Pay
  <2>8. QED
    BY <2>4, <2>7 DEF Abstract!Next
<1>2. CASE ~ \E t \in Tx : ConfirmOk(t)
  <2>1. \A u \in Tx : net'[u] = "ok" <=> net[u] = "ok"
    BY <1>0, <1>2 DEF ClusterStep, Tick, Execute, ExecuteFails, ConfirmErr,
                      DropFork, Droppable, SetNet, TypeOK, TxStatus
  <2>2. PaidBy(net') = PaidBy(net) /\ UNCHANGED db
    BY <1>0, <2>1, ClusterStepEffect DEF PaidBy
  <2>3. QED
    BY <2>2 DEF Abstract!vars, PaidBy
<1>3. QED
  BY <1>1, <1>2

\* The durable row and the chain together implement PayOnce: every
\* allocation is moved at most once and reported only after that.
THEOREM DurableImplementsPayOnce ==
    ASSUME Serial, ~FailedCanReland
    PROVE  Spec => PaysOnce
<1>1. SafeInv /\ [Next]_vars => [Abstract!Next]_(Abstract!vars)
  <2> SUFFICES ASSUME SafeInv, [Next]_vars
               PROVE  Abstract!Next \/ UNCHANGED Abstract!vars
    OBVIOUS
  <2>1. ASSUME NEW d \in Driver,
               \/ \E in \in Input : ExecuteNew(d, in) \/ ExecuteAgain(d, in)
               \/ Resume(d)
               \/ Crash(d)
        PROVE  Abstract!Next
    BY <2>1, CallStepSerial, SerialStepRefines
  <2>2. ASSUME NEW d \in Driver, DriverStep(d) PROVE Abstract!Next
    BY <2>2, DriverStepSerial, SerialStepRefines
  <2>3. CASE ClusterStep
    BY <2>3, ClusterStepRefines
  <2>4. CASE UNCHANGED vars
    BY <2>4 DEF vars, Abstract!vars
  <2>5. QED
    BY <2>1, <2>2, <2>3, <2>4 DEF Next
<1>2. QED
  BY <1>1, RefinesInit, SafeInit, SafeInduction, PTL
     DEF Spec, PaysOnce, Abstract!Spec
=============================================================================
