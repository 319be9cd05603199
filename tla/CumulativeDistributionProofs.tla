-------------------- MODULE CumulativeDistributionProofs --------------------
(***************************************************************************)
(* What a distribution owes, pays and records, for every set of            *)
(* recipients, of amounts and of callers and every bound.                  *)
(*                                                                         *)
(* In any world the row and all copies of it stay within the entitlement.  *)
(* If no two builds share a blockhash, what is recorded as paid has been   *)
(* received.  If calls do not overlap and failures are final, nobody       *)
(* receives more than the entitlement, and the distribution implements     *)
(* PayOwed.                                                                *)
(***************************************************************************)
EXTENDS CumulativeDistribution, TLAPS

USE ClusterAssumption, DistributionAssumption, NoRowAssumption

-----------------------------------------------------------------------------
(* Rows *)

\* What a pinned batch will add to what r has been paid.
InBatch(s, r) == IF s.pending = NoTx THEN 0 ELSE s.pending.pay[r]

GoodRow(s) ==
    /\ s \in Row
    /\ \A r \in Recipient : s.paid[r] + InBatch(s, r) <= s.entitled[r]

LEMMA AmountsType ==
    /\ \A a \in Amounts, r \in Recipient : a[r] \in Nat /\ a[r] <= MaxEntitled
    /\ Nothing \in Amounts
    /\ \A t \in Payment : t.pay \in Amounts /\ t \in Tx /\ t # NoTx
  BY DEF Amounts, Nothing, Payment

LEMMA RowType ==
    ASSUME NEW s \in Row
    PROVE  /\ s.paid \in Amounts /\ s.entitled \in Amounts
           /\ s.pending \in Payment \cup {NoTx}
           /\ s # NoRow
  BY DEF Row

\* refreshStatus changes the status only.
LEMMA RefreshRow ==
    ASSUME NEW s \in Row
    PROVE  /\ Refresh(s) \in Row
           /\ Refresh(s).paid = s.paid /\ Refresh(s).entitled = s.entitled
           /\ Refresh(s).pending = s.pending
<1> DEFINE st == IF s.status = "uncertain" THEN s.status
                 ELSE IF s.pending # NoTx THEN "distributing"
                 ELSE IF Outstanding(s) = {} THEN "complete" ELSE "ready"
<1>1. Refresh(s) = [s EXCEPT !.status = st]
  BY DEF Refresh
<1>2. st \in {"ready", "distributing", "complete", "funding-required", "uncertain"}
  BY DEF Row
<1> HIDE DEF st
<1> QED
  BY <1>1, <1>2 DEF Row

LEMMA NewRowGood == GoodRow(NewRow) /\ NewRow.paid = Nothing /\ NewRow.pending = NoTx
<1>1. NewRow \in Row
  BY AmountsType DEF NewRow, Row
<1> QED
  BY <1>1 DEF GoodRow, NewRow, InBatch, Nothing

\* Entitlements only grow.
LEMMA EntitledRow ==
    ASSUME NEW s, GoodRow(s), NEW e \in Amounts, MayApply(s, e)
    PROVE  /\ GoodRow(ApplyEntitlements(s, e))
           /\ ApplyEntitlements(s, e).paid = s.paid
           /\ ApplyEntitlements(s, e).pending = s.pending
           /\ ApplyEntitlements(s, e).entitled = e
<1> DEFINE n == [s EXCEPT !.entitled = e]
<1>1. n \in Row /\ n.paid = s.paid /\ n.entitled = e /\ n.pending = s.pending
  BY DEF GoodRow, Row
<1>2. ApplyEntitlements(s, e) = Refresh(n)
  BY DEF ApplyEntitlements
<1> HIDE DEF n
<1>3. /\ Refresh(n) \in Row /\ Refresh(n).paid = s.paid
      /\ Refresh(n).entitled = e /\ Refresh(n).pending = s.pending
  BY <1>1, RefreshRow
<1>4. ASSUME NEW r \in Recipient
      PROVE  s.paid[r] + InBatch(s, r) <= e[r]
  <2>1. /\ s.paid[r] \in Nat /\ s.entitled[r] \in Nat /\ e[r] \in Nat
        /\ s.pending # NoTx => s.pending.pay[r] \in Nat
    BY RowType, AmountsType DEF GoodRow
  <2>2. InBatch(s, r) \in Nat
    BY <2>1 DEF InBatch
  <2>3. s.paid[r] + InBatch(s, r) <= s.entitled[r] /\ e[r] >= s.entitled[r]
    BY DEF MayApply, GoodRow
  <2> QED
    BY <2>1, <2>2, <2>3
<1> QED
  BY <1>2, <1>3, <1>4 DEF GoodRow, InBatch

\* A confirmed batch is moved from pinned to paid.
LEMMA ConfirmedRow ==
    ASSUME NEW s, GoodRow(s), s.pending \in Payment
    PROVE  /\ GoodRow(OnConfirmed(s))
           /\ OnConfirmed(s).pending = NoTx
           /\ OnConfirmed(s).entitled = s.entitled
           /\ \A r \in Recipient :
                OnConfirmed(s).paid[r] = s.paid[r] + s.pending.pay[r]
<1> DEFINE p == [r \in Recipient |-> s.paid[r] + s.pending.pay[r]]
           n == [ApplyConfirmed(s) EXCEPT !.pending = NoTx]
<1>1. \A r \in Recipient :
        /\ s.paid[r] \in Nat /\ s.pending.pay[r] \in Nat
        /\ s.entitled[r] \in 0..MaxEntitled
        /\ s.paid[r] + s.pending.pay[r] <= s.entitled[r]
  BY RowType, AmountsType DEF GoodRow, InBatch
<1>2. p \in Amounts
  BY <1>1 DEF Amounts
<1>3. ApplyConfirmed(s) = [s EXCEPT !.paid = p]
  BY DEF ApplyConfirmed
<1>4. \A r \in Recipient : p[r] = s.paid[r] + s.pending.pay[r]
  OBVIOUS
<1> HIDE DEF p
<1>5. n \in Row /\ n.paid = p /\ n.entitled = s.entitled /\ n.pending = NoTx
  BY <1>2, <1>3 DEF GoodRow, Row
<1>6. OnConfirmed(s) = Refresh(n)
  BY DEF OnConfirmed
<1> HIDE DEF n
<1>7. /\ Refresh(n) \in Row /\ Refresh(n).paid = p
      /\ Refresh(n).entitled = s.entitled /\ Refresh(n).pending = NoTx
  BY <1>5, RefreshRow
<1> QED
  BY <1>1, <1>4, <1>6, <1>7 DEF GoodRow, InBatch

\* A batch that failed is dropped; an expired one and a new status keep it.
LEMMA StatusRow ==
    ASSUME NEW s, GoodRow(s)
    PROVE  /\ GoodRow(OnFailed(s)) /\ OnFailed(s).pending = NoTx
           /\ OnFailed(s).paid = s.paid /\ OnFailed(s).entitled = s.entitled
           /\ GoodRow(OnExpired(s)) /\ OnExpired(s).pending = s.pending
           /\ OnExpired(s).paid = s.paid /\ OnExpired(s).entitled = s.entitled
           /\ \A st \in {"complete", "funding-required"} :
                LET n == [s EXCEPT !.status = st] IN
                /\ GoodRow(n) /\ n.paid = s.paid /\ n.pending = s.pending
                /\ n.entitled = s.entitled
<1>1. \A r \in Recipient :
        /\ s.paid[r] \in Nat /\ s.entitled[r] \in Nat
        /\ s.pending # NoTx => s.pending.pay[r] \in Nat
        /\ s.paid[r] + InBatch(s, r) <= s.entitled[r]
  BY RowType, AmountsType DEF GoodRow
<1>2. /\ OnFailed(s) \in Row /\ OnFailed(s).pending = NoTx
      /\ OnFailed(s).paid = s.paid /\ OnFailed(s).entitled = s.entitled
  BY DEF GoodRow, Row, OnFailed
<1>3. ASSUME NEW st \in {"complete", "funding-required", "uncertain"}
      PROVE  /\ [s EXCEPT !.status = st] \in Row
             /\ [s EXCEPT !.status = st].pending = s.pending
             /\ [s EXCEPT !.status = st].paid = s.paid
             /\ [s EXCEPT !.status = st].entitled = s.entitled
  BY DEF GoodRow, Row
<1>4. GoodRow(OnFailed(s))
  BY <1>1, <1>2 DEF GoodRow, InBatch
<1>5. ASSUME NEW st \in {"complete", "funding-required", "uncertain"}
      PROVE  GoodRow([s EXCEPT !.status = st])
  BY <1>3 DEF GoodRow, InBatch
<1> QED
  BY <1>2, <1>3, <1>4, <1>5 DEF OnExpired

\* The next batch pays what is outstanding or less.
LEMMA BuiltRow ==
    ASSUME NEW s, GoodRow(s), s.pending = NoTx, NEW p \in Batches(s),
           NEW t \in Payment, t.pay = p
    PROVE  LET n == [s EXCEPT !.pending = t, !.status = "distributing"] IN
           GoodRow(n) /\ n.paid = s.paid /\ n.pending = t /\ n.entitled = s.entitled
<1> DEFINE n == [s EXCEPT !.pending = t, !.status = "distributing"]
<1>1. n \in Row /\ n.paid = s.paid /\ n.pending = t /\ n.entitled = s.entitled
  BY DEF GoodRow, Row
<1> HIDE DEF n
<1>2. ASSUME NEW r \in Recipient
      PROVE  s.paid[r] + p[r] <= s.entitled[r]
  <2>1. s.paid[r] \in Nat /\ s.entitled[r] \in Nat /\ p[r] \in Nat
    BY RowType, AmountsType DEF GoodRow, Batches
  <2>2. s.paid[r] <= s.entitled[r]
    BY <2>1 DEF GoodRow, InBatch
  <2>3. p[r] > 0 => p[r] <= s.entitled[r] - s.paid[r]
    <3>1. \A q \in {x \in Recipient : p[x] > 0} :
            \/ p[q] = s.entitled[q] - s.paid[q]
            \/ p[q] < s.entitled[q] - s.paid[q]
      BY DEF Batches
    <3> QED
      BY <2>1, <3>1
  <2> QED
    BY <2>1, <2>2, <2>3
<1>3. t # NoTx
  BY AmountsType
<1> QED
  BY <1>1, <1>2, <1>3 DEF GoodRow, InBatch, n

-----------------------------------------------------------------------------
(* The invariant in any world *)

\* The awaits behind which a call has a pinned batch.
Reconciling == {"status", "reconfirm", "parsed", "height", "send"}

\* A call that asks for the receipt again has been told "confirmed".
CopyInv ==
    \A c \in Caller :
        IF at[c] = "idle" THEN copy[c] = NoRow
        ELSE /\ GoodRow(copy[c])
             /\ at[c] \in Reconciling => copy[c].pending \in Payment
             /\ at[c] = "build" => copy[c].pending = NoTx
             /\ at[c] = "reconfirm" => net[copy[c].pending] = "ok"

RowInv == row # NoRow => GoodRow(row)

DistInv == ClusterTypeOK /\ CDTypeOK /\ CopyInv /\ RowInv

LEMMA DistInit == CDInit /\ ClusterInit => DistInv
  BY AmountsType DEF CDInit, ClusterInit, DistInv, ClusterTypeOK, CDTypeOK,
         TxStatus, At, Nothing, CopyInv, RowInv

-----------------------------------------------------------------------------
(* What a call does, in four words *)

\* It goes on waiting for the same batch.
Waits(c) ==
    /\ at[c] \in Reconciling /\ UNCHANGED <<row, copy>>
    /\ \E a \in Reconciling :
        Goto(c, a) /\ (a = "reconfirm" => net[copy[c].pending] = "ok")

\* It writes s into the row, and returns or goes on with s.
Writes(c, s) ==
    /\ row' = s
    /\ \/ Leave(c)
       \/ /\ copy' = [copy EXCEPT ![c] = s]
          /\ \E a \in {"status", "send", "build"} :
                /\ Goto(c, a)
                /\ IF a = "build" THEN s.pending = NoTx ELSE s.pending \in Payment

\* It writes s, which keeps paid amounts and batch of its copy.
Keeps(c, s) ==
    /\ GoodRow(s) /\ s.paid = copy[c].paid /\ s.pending = copy[c].pending
    /\ s.entitled = copy[c].entitled

\* It writes s, where the batch of its copy is no longer pinned.
Settles(c, s) ==
    /\ GoodRow(s) /\ s.pending = NoTx /\ copy[c].pending \in Payment
    /\ at[c] \in Reconciling /\ s.entitled = copy[c].entitled
    /\ \/ /\ net[copy[c].pending] = "ok"
          /\ \A r \in Recipient :
                s.paid[r] = copy[c].paid[r] + copy[c].pending.pay[r]
       \/ /\ net[copy[c].pending] \in {"procErr", "err"}
          /\ s.paid = copy[c].paid

\* It writes s, which pins t, and sends it.
Pins(c, s, t) ==
    /\ GoodRow(s) /\ s.paid = copy[c].paid /\ s.pending = t /\ Broadcast(t)
    /\ s.entitled = copy[c].entitled
    /\ \/ copy[c].pending = t
       \/ copy[c].pending = NoTx /\ (world.repeat \/ net[t] = "none")

Effect(c) ==
    /\ GoodRow(copy[c]) /\ UNCHANGED <<received, height, world>>
    /\ \/ net' = net /\ Waits(c)
       \/ net' = net /\ \E s \in Row : Writes(c, s) /\ (Keeps(c, s) \/ Settles(c, s))
       \/ \E s \in Row, t \in Payment : Writes(c, s) /\ Pins(c, s, t)

\* The head of the loop writes what it is given, up to the status.
LEMMA LoopWrites ==
    ASSUME NEW c \in Caller, NEW s, GoodRow(s), Loop(c, s)
    PROVE  \E n \in Row : /\ Writes(c, n) /\ GoodRow(n)
                          /\ n.paid = s.paid /\ n.pending = s.pending
                          /\ n.entitled = s.entitled
<1>1. CASE s.pending # NoTx
  <2>1. s \in Row /\ s.pending \in Payment
    BY <1>1, RowType DEF GoodRow
  <2>2. Writes(c, s)
    BY <1>1, <2>1 DEF Loop, Save, Writes
  <2> QED
    BY <2>1, <2>2
<1>2. CASE s.pending = NoTx /\ Outstanding(s) = {}
  <2> DEFINE n == [s EXCEPT !.status = "complete"]
  <2>1. /\ GoodRow(n) /\ n.paid = s.paid /\ n.pending = s.pending
        /\ n.entitled = s.entitled
    BY StatusRow
  <2>2. row' = n /\ Leave(c)
    BY <1>2 DEF Loop, SaveAndLeave
  <2> HIDE DEF n
  <2> QED
    BY <2>1, <2>2 DEF GoodRow, Writes
<1>3. CASE s.pending = NoTx /\ Outstanding(s) # {}
  <2>1. Writes(c, s)
    BY <1>3 DEF Loop, Save, Writes
  <2> QED
    BY <2>1 DEF GoodRow
<1> QED
  BY <1>1, <1>2, <1>3

LEMMA SettleEffect ==
    ASSUME DistInv, NEW c \in Caller, GoodRow(copy[c]), at[c] \in Reconciling,
           copy[c].pending \in Payment, UNCHANGED <<received, cluster>>,
           \/ Settle(c) /\ net[copy[c].pending] = "ok"
           \/ Fail(c) /\ net[copy[c].pending] \in {"procErr", "err"}
    PROVE  Effect(c)
<1> DEFINE s == copy[c]
<1>1. CASE Settle(c) /\ net[s.pending] = "ok"
  <2> DEFINE n == OnConfirmed(s)
  <2>1. /\ GoodRow(n) /\ n.pending = NoTx /\ n.entitled = s.entitled
        /\ \A r \in Recipient : n.paid[r] = s.paid[r] + s.pending.pay[r]
    BY ConfirmedRow
  <2>2. Loop(c, n)
    BY <1>1 DEF Settle
  <2> HIDE DEF n
  <2>3. PICK m \in Row : /\ Writes(c, m) /\ GoodRow(m)
                         /\ m.paid = n.paid /\ m.pending = n.pending
                         /\ m.entitled = n.entitled
    BY <2>1, <2>2, LoopWrites
  <2>4. Settles(c, m)
    BY <1>1, <2>1, <2>3 DEF Settles
  <2> QED
    BY <2>3, <2>4 DEF Effect, cluster
<1>2. CASE Fail(c) /\ net[s.pending] \in {"procErr", "err"}
  <2> DEFINE n == OnFailed(s)
  <2>1. /\ GoodRow(n) /\ n.pending = NoTx /\ n.paid = s.paid
        /\ n.entitled = s.entitled
    BY StatusRow
  <2>2. Writes(c, n)
    BY <1>2 DEF Fail, SaveAndLeave, Writes
  <2> HIDE DEF n
  <2>3. Settles(c, n) /\ n \in Row
    BY <1>2, <2>1 DEF Settles, GoodRow
  <2> QED
    BY <2>2, <2>3 DEF Effect, cluster
<1> QED
  BY <1>1, <1>2

\* A call that writes its copy, with another status or not, and returns.
LEMMA KeepEffect ==
    ASSUME NEW c \in Caller, GoodRow(copy[c]), UNCHANGED <<received, cluster>>,
           NEW s, Keeps(c, s), SaveAndLeave(c, s)
    PROVE  Effect(c)
  BY DEF Keeps, SaveAndLeave, Writes, Effect, GoodRow, cluster

\* What the cluster's answers are worth.
LEMMA Views ==
    ASSUME NEW t \in Tx, net \in [Tx -> TxStatus]
    PROVE  /\ \A v \in StatusViews(t) :
                /\ v \in {"procErr", "err"} => net[t] \in {"procErr", "err"}
                /\ v = "ok" => net[t] = "ok"
           /\ "err" \in ConfirmedViews(t) => net[t] = "err"
           /\ "ok" \in ConfirmedViews(t) => net[t] = "ok"
  BY DEF StatusViews, ConfirmedViews, TxStatus

\* Every step of a call is one of these.
LEMMA CallEffect ==
    ASSUME DistInv, NEW c \in Caller, CallStep(c)
    PROVE  Effect(c)
<1>0. /\ at[c] # "idle" => GoodRow(copy[c])
      /\ at[c] \in Reconciling => copy[c].pending \in Payment
      /\ at[c] = "build" => copy[c].pending = NoTx
      /\ at[c] = "reconfirm" => net[copy[c].pending] = "ok"
      /\ net \in [Tx -> TxStatus] /\ height \in 0..MaxHeight
      /\ \A t \in Payment : t \in Tx
  BY AmountsType DEF DistInv, CopyInv, ClusterTypeOK, Reconciling
<1>1. CASE Plan(c)
  BY <1>0, <1>1, KeepEffect DEF Plan, Keeps
<1>2. CASE Execute(c)
  <2>1. GoodRow(copy[c]) /\ UNCHANGED <<received, cluster>>
    BY <1>0, <1>2 DEF Execute
  <2>2. CASE SaveAndLeave(c, copy[c])
    BY <2>1, <2>2, KeepEffect DEF Keeps
  <2>3. CASE Loop(c, copy[c])
    BY <2>1, <2>3, LoopWrites DEF Effect, Keeps, cluster
  <2> QED
    BY <1>2, <2>2, <2>3 DEF Execute
<1>3. CASE ReconcileStatus(c)
  <2>1. /\ at[c] \in Reconciling /\ at[c] = "status" /\ GoodRow(copy[c])
        /\ copy[c].pending \in Payment /\ UNCHANGED <<received, cluster>>
    BY <1>0, <1>3 DEF ReconcileStatus, Reconciling
  <2>2. PICK v \in StatusViews(copy[c].pending) :
        \/ v \in {"procErr", "err"} /\ Fail(c)
        \/ v = "ok" /\ Goto(c, "reconfirm") /\ UNCHANGED <<row, copy>>
        \/ v = "procOk" /\ UNCHANGED <<row, copy, at>>
        \/ v = "none" /\ Goto(c, "parsed") /\ UNCHANGED <<row, copy>>
    BY <1>3 DEF ReconcileStatus
  <2>3. CASE v \in {"procErr", "err"} /\ Fail(c)
    BY <1>0, <2>1, <2>3, Views, SettleEffect
  <2>4. CASE v = "ok" /\ Goto(c, "reconfirm") /\ UNCHANGED <<row, copy>>
    BY <1>0, <2>1, <2>4, Views DEF Effect, Waits, Reconciling, cluster
  <2>5. CASE v = "procOk" /\ UNCHANGED <<row, copy, at>>
    <3>1. Goto(c, "status")
      BY <2>1, <2>5 DEF Goto, DistInv, CDTypeOK
    <3> QED
      BY <2>1, <2>5, <3>1 DEF Effect, Waits, Reconciling, cluster
  <2>6. CASE v = "none" /\ Goto(c, "parsed") /\ UNCHANGED <<row, copy>>
    BY <2>1, <2>6 DEF Effect, Waits, Reconciling, cluster
  <2> QED
    BY <2>2, <2>3, <2>4, <2>5, <2>6
<1>4. CASE ReconcileReceipt(c)
  BY <1>0, <1>4, Views, SettleEffect DEF ReconcileReceipt, Reconciling
<1>5. CASE ReconcileHistory(c)
  <2>1. /\ at[c] \in Reconciling /\ GoodRow(copy[c])
        /\ copy[c].pending \in Payment /\ UNCHANGED <<received, cluster>>
    BY <1>0, <1>5 DEF ReconcileHistory, Reconciling
  <2>2. CASE Goto(c, "height") /\ UNCHANGED <<row, copy>>
    BY <2>1, <2>2 DEF Effect, Waits, Reconciling, cluster
  <2> QED
    BY <1>0, <1>5, <2>1, <2>2, Views, SettleEffect DEF ReconcileHistory
<1>6. CASE ReconcileHeight(c)
  <2>1. /\ at[c] \in Reconciling /\ GoodRow(copy[c]) /\ copy[c] \in Row
        /\ copy[c].pending \in Payment /\ UNCHANGED <<received, height, world>>
    BY <1>0, <1>6 DEF ReconcileHeight, Reconciling, GoodRow
  <2>2. CASE SaveAndLeave(c, OnExpired(copy[c])) /\ UNCHANGED net
    BY <2>1, <2>2, StatusRow, KeepEffect DEF Keeps, cluster
  <2>3. CASE Submit(c, copy[c])
    <3>1. Writes(c, copy[c]) /\ Pins(c, copy[c], copy[c].pending)
      BY <2>1, <2>3 DEF Submit, Save, Writes, Pins
    <3> QED
      BY <2>1, <3>1 DEF Effect
  <2>4. CASE Goto(c, "status") /\ UNCHANGED <<row, copy, net>>
    BY <2>1, <2>4 DEF Effect, Waits, Reconciling
  <2> QED
    BY <1>6, <2>2, <2>3, <2>4 DEF ReconcileHeight
<1>7. CASE Build(c)
  <2>1. GoodRow(copy[c]) /\ copy[c].pending = NoTx
    BY <1>0, <1>7 DEF Build
  <2>2. PICK p \in Batches(copy[c]), h \in 0..height :
          LET t == [pay |-> p, lastValid |-> h + ValidFor] IN
          /\ world.repeat \/ net[t] = "none"
          /\ Submit(c, [copy[c] EXCEPT !.pending = t, !.status = "distributing"])
    BY <1>7 DEF Build
  <2> DEFINE t == [pay |-> p, lastValid |-> h + ValidFor]
             n == [copy[c] EXCEPT !.pending = t, !.status = "distributing"]
  <2>3. t \in Payment /\ t.pay = p
    BY <1>0 DEF Payment, Batches
  <2>4. Submit(c, n) /\ (world.repeat \/ net[t] = "none")
    BY <2>2
  <2> HIDE DEF t
  <2>5. /\ GoodRow(n) /\ n.paid = copy[c].paid /\ n.pending = t
        /\ n.entitled = copy[c].entitled
    BY <2>1, <2>3, BuiltRow
  <2> HIDE DEF n
  <2>6. Writes(c, n) /\ Pins(c, n, t) /\ n \in Row
    BY <2>1, <2>3, <2>4, <2>5 DEF Submit, Save, Writes, Pins, GoodRow
  <2> QED
    BY <1>7, <2>1, <2>3, <2>6 DEF Effect, Build
<1>8. CASE NoFunding(c)
  BY <1>0, <1>8, StatusRow, KeepEffect DEF NoFunding, Keeps
<1>9. CASE SendReturns(c)
  <2>1. /\ at[c] \in Reconciling /\ GoodRow(copy[c])
        /\ UNCHANGED <<received, cluster>>
    BY <1>0, <1>9 DEF SendReturns, Reconciling
  <2>2. CASE Goto(c, "status") /\ UNCHANGED <<row, copy>>
    BY <2>1, <2>2 DEF Effect, Waits, Reconciling, cluster
  <2>3. CASE SaveAndLeave(c, OnExpired(copy[c]))
    BY <2>1, <2>3, StatusRow, KeepEffect DEF Keeps
  <2> QED
    BY <1>9, <2>2, <2>3 DEF SendReturns
<1> QED
  BY <1>1, <1>2, <1>3, <1>4, <1>5, <1>6, <1>7, <1>8, <1>9 DEF CallStep

-----------------------------------------------------------------------------
(* Steps, in any world *)

\* A broadcast confirms nothing and reaches one transaction at most.
LEMMA BroadcastEffect ==
    ASSUME net \in [Tx -> TxStatus], NEW t \in Tx, Broadcast(t)
    PROVE  /\ net' \in [Tx -> TxStatus]
           /\ \A u \in Tx : net'[u] = "ok" <=> net[u] = "ok"
           /\ \A u \in Tx : u # t => net'[u] = net[u]
<1>1. CASE net' = net
  BY <1>1
<1>2. CASE net' = [net EXCEPT ![t] = IF @ = "none" THEN "inflight" ELSE @]
  BY <1>2 DEF TxStatus
<1> QED
  BY <1>1, <1>2 DEF Broadcast

\* The cluster by itself: what is confirmed stays, and only a transaction in
\* a block becomes confirmed, which is when it is received.
LEMMA ClusterEffect ==
    ASSUME ClusterTypeOK, CDTypeOK, CDCluster
    PROVE  /\ ClusterTypeOK' /\ UNCHANGED <<world, row, copy, at>>
           /\ \A u \in Tx : net[u] = "ok" => net'[u] = "ok"
           /\ \/ /\ UNCHANGED received
                 /\ \A u \in Tx : net'[u] = "ok" => net[u] = "ok"
              \/ \E t \in Payment :
                    /\ net[t] = "procOk"
                    /\ net' = [net EXCEPT ![t] = "ok"]
                    /\ received' = [r \in Recipient |-> received[r] + t.pay[r]]
<1>0. Payment \subseteq Tx
  OBVIOUS
<1>1. ASSUME NEW t \in Payment, Receive(t)
      PROVE  /\ ClusterTypeOK' /\ UNCHANGED <<world, row, copy, at>>
             /\ \A u \in Tx : net[u] = "ok" => net'[u] = "ok"
             /\ net[t] = "procOk" /\ net' = [net EXCEPT ![t] = "ok"]
             /\ received' = [r \in Recipient |-> received[r] + t.pay[r]]
  BY <1>0, <1>1 DEF Receive, ConfirmOk, SetNet, ClusterTypeOK, TxStatus
<1>2. CASE Tick /\ UNCHANGED distribution
  BY <1>2 DEF Tick, ClusterTypeOK, distribution
<1>3. ASSUME NEW t \in Payment, UNCHANGED distribution,
             Process(t) \/ ConfirmErr(t) \/ DropFork(t)
      PROVE  /\ ClusterTypeOK' /\ UNCHANGED <<world, row, copy, at, received>>
             /\ \A u \in Tx : net[u] = "ok" <=> net'[u] = "ok"
  BY <1>0, <1>3 DEF Process, ConfirmErr, DropFork, SetNet, ClusterTypeOK,
                    TxStatus, distribution
<1> QED
  BY <1>1, <1>2, <1>3 DEF CDCluster

\* A new call reads the row, or begins one, and enters its entitlements.
LEMMA BeginEffect ==
    ASSUME DistInv, NEW c \in Caller, NEW e \in Entitlements[world],
           NEW label \in {"plan", "prepare"}, Begin(c, e, label)
    PROVE  /\ at[c] = "idle" /\ at' = [at EXCEPT ![c] = label]
           /\ world.serial => \A d \in Caller : at[d] = "idle"
           /\ UNCHANGED <<row, received, cluster>>
           /\ \E s \in Row :
                /\ copy' = [copy EXCEPT ![c] = s] /\ GoodRow(s)
                /\ IF row = NoRow THEN s.paid = Nothing /\ s.pending = NoTx
                   ELSE /\ s.paid = row.paid /\ s.pending = row.pending
                        /\ \A r \in Recipient : row.entitled[r] <= s.entitled[r]
<1> DEFINE s == IF row = NoRow THEN NewRow ELSE row
           n == ApplyEntitlements(s, e)
<1>1. e \in Amounts
  BY DEF DistInv, ClusterTypeOK
<1>2. /\ GoodRow(s)
      /\ row = NoRow => s.paid = Nothing /\ s.pending = NoTx
      /\ row # NoRow => s = row
  BY NewRowGood DEF DistInv, RowInv
<1>3. MayApply(s, e) /\ copy' = [copy EXCEPT ![c] = n]
  BY DEF Begin
<1> HIDE DEF s
<1>4. /\ GoodRow(n) /\ n.paid = s.paid /\ n.pending = s.pending
      /\ \A r \in Recipient : s.entitled[r] <= n.entitled[r]
  <2>1. \A r \in Recipient : e[r] \in Nat /\ s.entitled[r] \in Nat /\ e[r] >= s.entitled[r]
    BY <1>1, <1>2, <1>3, RowType, AmountsType DEF MayApply, GoodRow
  <2>2. GoodRow(n) /\ n.paid = s.paid /\ n.pending = s.pending /\ n.entitled = e
    BY <1>1, <1>2, <1>3, EntitledRow
  <2> QED
    BY <2>1, <2>2
<1> HIDE DEF n
<1>5. /\ at[c] = "idle" /\ at' = [at EXCEPT ![c] = label]
      /\ world.serial => \A d \in Caller : at[d] = "idle"
      /\ UNCHANGED <<row, received, cluster>>
  BY DEF Begin, Goto
<1> QED
  BY <1>2, <1>3, <1>4, <1>5 DEF GoodRow

\* A call that leaves the others as they are.
LEMMA WriteInv ==
    ASSUME DistInv, NEW c \in Caller, NEW s \in Row, GoodRow(s), Writes(c, s),
           ClusterTypeOK', UNCHANGED received,
           \A u \in Tx : net[u] = "ok" => net'[u] = "ok"
    PROVE  DistInv'
<1>0. /\ \A t \in Payment : t \in Tx
      /\ at \in [Caller -> At] /\ copy \in [Caller -> Row \cup {NoRow}]
  BY DEF DistInv, CDTypeOK
<1>1. CASE Leave(c)
  <2>1. CDTypeOK'
    BY <1>1 DEF DistInv, CDTypeOK, Writes, Leave, At
  <2>2. CopyInv'
    BY <1>0, <1>1 DEF DistInv, CopyInv, Leave, Reconciling
  <2> QED
    BY <2>1, <2>2 DEF DistInv, RowInv, Writes
<1>2. ASSUME copy' = [copy EXCEPT ![c] = s],
             NEW a \in {"status", "send", "build"}, Goto(c, a),
             IF a = "build" THEN s.pending = NoTx ELSE s.pending \in Payment
      PROVE  DistInv'
  <2>1. CDTypeOK'
    BY <1>2 DEF DistInv, CDTypeOK, Writes, Goto, At
  <2>2. CopyInv'
    BY <1>0, <1>2 DEF DistInv, CopyInv, Goto, Reconciling
  <2> QED
    BY <2>1, <2>2 DEF DistInv, RowInv, Writes
<1> QED
  BY <1>1, <1>2 DEF Writes

LEMMA EffectInv ==
    ASSUME DistInv, NEW c \in Caller, Effect(c)
    PROVE  /\ DistInv' /\ UNCHANGED <<world, received>>
           /\ \A u \in Tx : net'[u] = "ok" <=> net[u] = "ok"
<1>0. /\ net \in [Tx -> TxStatus] /\ ClusterTypeOK
      /\ UNCHANGED <<received, height, world>>
      /\ \A t \in Payment : t \in Tx
  BY DEF Effect, DistInv, ClusterTypeOK
<1>1. CASE net' = net /\ Waits(c)
  <2>1. ClusterTypeOK'
    BY <1>0, <1>1 DEF ClusterTypeOK
  <2>2. CDTypeOK' /\ CopyInv' /\ RowInv'
    BY <1>0, <1>1 DEF Waits, DistInv, CDTypeOK, CopyInv, RowInv, Goto,
                      Reconciling, At
  <2> QED
    BY <1>0, <1>1, <2>1, <2>2 DEF DistInv
<1>2. ASSUME net' = net, NEW s \in Row, Writes(c, s), Keeps(c, s) \/ Settles(c, s)
      PROVE  DistInv'
  <2>1. ClusterTypeOK'
    BY <1>0, <1>2 DEF ClusterTypeOK
  <2> QED
    BY <1>0, <1>2, <2>1, WriteInv DEF Keeps, Settles
<1>3. ASSUME NEW s \in Row, NEW t \in Payment, Writes(c, s), Pins(c, s, t)
      PROVE  DistInv' /\ \A u \in Tx : net'[u] = "ok" <=> net[u] = "ok"
  <2>1. /\ net' \in [Tx -> TxStatus]
        /\ \A u \in Tx : net'[u] = "ok" <=> net[u] = "ok"
    BY <1>0, <1>3, BroadcastEffect DEF Pins
  <2>2. ClusterTypeOK'
    BY <1>0, <2>1 DEF ClusterTypeOK
  <2> QED
    BY <1>0, <1>3, <2>1, <2>2, WriteInv DEF Pins
<1> QED
  BY <1>0, <1>1, <1>2, <1>3 DEF Effect

LEMMA BeginInv ==
    ASSUME DistInv, NEW c \in Caller, NEW e \in Entitlements[world],
           NEW label \in {"plan", "prepare"}, Begin(c, e, label)
    PROVE  DistInv'
<1>1. PICK s \in Row : copy' = [copy EXCEPT ![c] = s] /\ GoodRow(s)
  BY BeginEffect
<1>2. at' = [at EXCEPT ![c] = label] /\ UNCHANGED <<row, received, cluster>>
  BY BeginEffect
<1> QED
  BY <1>1, <1>2 DEF DistInv, ClusterTypeOK, CDTypeOK, CopyInv, RowInv, cluster,
                    Reconciling, At

LEMMA ClusterInv ==
    ASSUME DistInv, CDCluster
    PROVE  DistInv'
<1>1. /\ ClusterTypeOK' /\ UNCHANGED <<world, row, copy, at>>
      /\ \A u \in Tx : net[u] = "ok" => net'[u] = "ok"
      /\ \/ UNCHANGED received
         \/ \E t \in Payment :
                received' = [r \in Recipient |-> received[r] + t.pay[r]]
  BY ClusterEffect DEF DistInv
<1>2. received' \in [Recipient -> Nat]
  BY <1>1, AmountsType DEF DistInv, CDTypeOK
<1>3. CDTypeOK'
  BY <1>1, <1>2 DEF DistInv, CDTypeOK
<1>4. CopyInv' /\ RowInv'
  <2>1. \A t \in Payment : t \in Tx
    OBVIOUS
  <2> QED
    BY <1>1, <2>1 DEF DistInv, CopyInv, RowInv, Reconciling
<1> QED
  BY <1>1, <1>3, <1>4 DEF DistInv

LEMMA QuitInv ==
    ASSUME DistInv, NEW c \in Caller, Quit(c)
    PROVE  DistInv'
  BY DEF Quit, Leave, DistInv, ClusterTypeOK, CDTypeOK, CopyInv, RowInv, cluster,
         Reconciling, At

LEMMA DistInduction == DistInv /\ [CDNext]_<<distribution, cluster>> => DistInv'
<1> SUFFICES ASSUME DistInv, [CDNext]_<<distribution, cluster>> PROVE DistInv'
  OBVIOUS
<1>1. ASSUME NEW c \in Caller, CallStep(c) PROVE DistInv'
  BY <1>1, CallEffect, EffectInv
<1>2. CASE UNCHANGED <<distribution, cluster>>
  BY <1>2 DEF distribution, cluster, DistInv, ClusterTypeOK, CDTypeOK, CopyInv,
              RowInv
<1> QED
  BY <1>1, <1>2, BeginInv, QuitInv, ClusterInv DEF CDNext

\* The row, its copies and what is received have their types.
THEOREM DistributionTypeCorrect == CDSpec => [](ClusterTypeOK /\ CDTypeOK)
<1>1. DistInv => ClusterTypeOK /\ CDTypeOK
  BY DEF DistInv
<1> QED
  BY <1>1, DistInit, DistInduction, PTL DEF CDSpec

\* In no row and in no copy of it is more paid and pinned than entitled: the
\* corruption checks never fire, also when calls overwrite each other's row.
THEOREM AlwaysWithinEntitlement == CDSpec => []WithinEntitlement
<1>1. DistInv => WithinEntitlement
  BY DEF DistInv, RowInv, CopyInv, WithinEntitlement, GoodRow, InBatch
<1> QED
  BY <1>1, DistInit, DistInduction, PTL DEF CDSpec

-----------------------------------------------------------------------------
(* What is recorded as paid has been received *)

\* A row's paid amounts are in the recipients' wallets, and so is its batch
\* once that has landed: it is not among what is marked paid.
Backed(s, n, got) ==
    \A r \in Recipient :
        /\ s.paid[r] <= got[r]
        /\ s.pending \in Payment /\ n[s.pending] = "ok" =>
                s.paid[r] + s.pending.pay[r] <= got[r]

BackedInv ==
    ~world.repeat =>
        /\ row # NoRow => Backed(row, net, received)
        /\ \A c \in Caller : copy[c] # NoRow => Backed(copy[c], net, received)

\* It is enough that the same transactions have landed.
LEMMA BackedStable ==
    ASSUME NEW s, NEW n, NEW m, NEW got, Backed(s, n, got),
           \A u \in Payment : m[u] = "ok" => n[u] = "ok"
    PROVE  Backed(s, m, got)
  BY DEF Backed

\* What a call writes is backed if its copy was: the batch that is settled
\* landed and was not counted; the one that is pinned had not landed.
LEMMA EffectBacked ==
    ASSUME DistInv, BackedInv, ~world.repeat, NEW c \in Caller, Effect(c),
           NEW s \in Row,
           \/ net' = net /\ (Keeps(c, s) \/ Settles(c, s))
           \/ \E t \in Payment : Pins(c, s, t)
    PROVE  Backed(s, net', received)
<1>0. /\ GoodRow(copy[c]) /\ copy[c] # NoRow
      /\ Backed(copy[c], net, received)
      /\ net \in [Tx -> TxStatus] /\ received \in [Recipient -> Nat]
      /\ \A t \in Payment : t \in Tx /\ t # NoTx
  BY AmountsType, RowType DEF Effect, DistInv, CDTypeOK, ClusterTypeOK, BackedInv,
                              GoodRow
<1>1. CASE net' = net /\ Keeps(c, s)
  BY <1>0, <1>1 DEF Keeps, Backed
<1>2. CASE net' = net /\ Settles(c, s)
  BY <1>0, <1>2, AmountsType DEF Settles, Backed
<1>3. ASSUME NEW t \in Payment, Pins(c, s, t)
      PROVE  Backed(s, net', received)
  <2>1. \A u \in Payment : net'[u] = "ok" <=> net[u] = "ok"
    BY <1>0, <1>3, BroadcastEffect DEF Pins
  <2>2. s.pending = t /\ s.paid = copy[c].paid
    BY <1>3 DEF Pins
  <2>3. CASE copy[c].pending = t
    BY <1>0, <2>1, <2>2, <2>3 DEF Backed
  <2>4. CASE net[t] = "none"
    BY <1>0, <2>1, <2>2, <2>4 DEF Backed
  <2> QED
    BY <1>3, <2>3, <2>4 DEF Pins
<1> QED
  BY <1>1, <1>2, <1>3

LEMMA BackedInduction ==
    DistInv /\ BackedInv /\ [CDNext]_<<distribution, cluster>> => BackedInv'
<1> SUFFICES ASSUME DistInv, BackedInv, [CDNext]_<<distribution, cluster>>,
                    ~world'.repeat
             PROVE  /\ row' # NoRow => Backed(row', net', received')
                    /\ \A d \in Caller : copy'[d] # NoRow =>
                            Backed(copy'[d], net', received')
  BY DEF BackedInv
<1>0. /\ copy \in [Caller -> Row \cup {NoRow}]
      /\ received \in [Recipient -> Nat] /\ net \in [Tx -> TxStatus]
      /\ \A t \in Payment : t \in Tx
  BY DEF DistInv, CDTypeOK, ClusterTypeOK
<1>1. ASSUME NEW c \in Caller, CallStep(c)
      PROVE  /\ row' # NoRow => Backed(row', net', received')
             /\ \A d \in Caller : copy'[d] # NoRow =>
                     Backed(copy'[d], net', received')
  <2>1. /\ Effect(c) /\ UNCHANGED <<world, received>>
        /\ \A u \in Payment : net'[u] = "ok" <=> net[u] = "ok"
    BY <1>0, <1>1, CallEffect, EffectInv
  <2>2. /\ row # NoRow => Backed(row, net', received)
        /\ \A d \in Caller : copy[d] # NoRow => Backed(copy[d], net', received)
    BY <2>1, BackedStable DEF BackedInv
  <2>3. CASE Waits(c)
    BY <2>1, <2>2, <2>3 DEF Waits
  <2>4. ASSUME NEW s \in Row, Writes(c, s), Backed(s, net', received)
        PROVE  /\ row' # NoRow => Backed(row', net', received')
               /\ \A d \in Caller : copy'[d] # NoRow =>
                       Backed(copy'[d], net', received')
    BY <1>0, <2>1, <2>2, <2>4 DEF Writes, Leave
  <2>5. Waits(c) \/ \E s \in Row : Writes(c, s) /\ Backed(s, net', received)
    <3>1. ~world.repeat
      BY <2>1
    <3> QED
      BY <2>1, <3>1, EffectBacked DEF Effect
  <2> QED
    BY <2>3, <2>4, <2>5
<1>2. ASSUME NEW c \in Caller, NEW e \in Entitlements[world],
             NEW label \in {"plan", "prepare"}, Begin(c, e, label)
      PROVE  /\ row' # NoRow => Backed(row', net', received')
             /\ \A d \in Caller : copy'[d] # NoRow =>
                     Backed(copy'[d], net', received')
  <2>1. UNCHANGED <<row, received, cluster>>
    BY <1>2, BeginEffect
  <2>2. PICK s \in Row :
          /\ copy' = [copy EXCEPT ![c] = s]
          /\ IF row = NoRow THEN s.paid = Nothing /\ s.pending = NoTx
             ELSE s.paid = row.paid /\ s.pending = row.pending
    BY <1>2, BeginEffect
  <2>3. BackedInv /\ ~world.repeat /\ net' = net
    BY <2>1 DEF cluster
  <2>4. Backed(s, net, received)
    <3>1. CASE row = NoRow
      BY <1>0, <2>2, <3>1, AmountsType DEF Backed, Nothing
    <3>2. CASE row # NoRow
      BY <2>2, <2>3, <3>2 DEF Backed, BackedInv
    <3> QED
      BY <3>1, <3>2
  <2> QED
    BY <1>0, <2>1, <2>2, <2>3, <2>4 DEF BackedInv
<1>3. ASSUME NEW c \in Caller, Quit(c)
      PROVE  /\ row' # NoRow => Backed(row', net', received')
             /\ \A d \in Caller : copy'[d] # NoRow =>
                     Backed(copy'[d], net', received')
  BY <1>0, <1>3 DEF Quit, Leave, BackedInv, cluster
\* What lands is received: a row that pins it had not counted it.
<1>4. CASE CDCluster
  <2>1. UNCHANGED <<world, row, copy>>
    BY <1>4, ClusterEffect DEF DistInv
  <2>2. CASE /\ UNCHANGED received
             /\ \A u \in Tx : net'[u] = "ok" => net[u] = "ok"
    BY <1>0, <2>1, <2>2, BackedStable DEF BackedInv
  <2>3. ASSUME NEW t \in Payment, net[t] = "procOk",
               net' = [net EXCEPT ![t] = "ok"],
               received' = [r \in Recipient |-> received[r] + t.pay[r]]
        PROVE  /\ row' # NoRow => Backed(row', net', received')
               /\ \A d \in Caller : copy'[d] # NoRow =>
                       Backed(copy'[d], net', received')
    <3>1. ASSUME NEW s \in Row, Backed(s, net, received)
          PROVE  Backed(s, net', received')
      <4> SUFFICES ASSUME NEW r \in Recipient
                   PROVE  /\ s.paid[r] <= received'[r]
                          /\ s.pending \in Payment /\ net'[s.pending] = "ok" =>
                                s.paid[r] + s.pending.pay[r] <= received'[r]
        BY DEF Backed
      <4>1. /\ s.paid[r] \in Nat /\ t.pay[r] \in Nat /\ received[r] \in Nat
            /\ s.pending \in Payment => s.pending.pay[r] \in Nat
            /\ received'[r] = received[r] + t.pay[r]
        BY <1>0, <2>3, RowType, AmountsType
      <4>2. /\ s.paid[r] <= received[r]
            /\ s.pending \in Payment /\ net[s.pending] = "ok" =>
                  s.paid[r] + s.pending.pay[r] <= received[r]
        BY <3>1 DEF Backed
      <4>3. \A u \in Payment : u # t => net'[u] = net[u]
        BY <1>0, <2>3
      <4> QED
        BY <4>1, <4>2, <4>3
    <3>2. row # NoRow => row \in Row
      BY DEF DistInv, CDTypeOK
    <3> QED
      BY <1>0, <2>1, <3>1, <3>2 DEF BackedInv
  <2> QED
    BY <1>4, <2>2, <2>3, ClusterEffect DEF DistInv
<1>5. CASE UNCHANGED <<distribution, cluster>>
  BY <1>5 DEF distribution, cluster, BackedInv
<1> QED
  BY <1>1, <1>2, <1>3, <1>4, <1>5 DEF CDNext

\* If no two builds share a blockhash, confirmedPaidRaw is money the
\* recipient has: also when calls overlap and overwrite each other's row.
THEOREM RecordedIsReceived == CDSpec => []PaidIsReceived
<1>1. CDInit => BackedInv
  BY DEF CDInit, BackedInv
<1>2. DistInv /\ BackedInv => PaidIsReceived
  BY DEF BackedInv, Backed, PaidIsReceived
<1> QED
  BY <1>1, <1>2, DistInit, DistInduction, BackedInduction, PTL DEF CDSpec

-----------------------------------------------------------------------------
(* Nobody is overpaid, by calls that do not overlap and final failures *)

Undecided(n, u) == n[u] \in {"inflight", "procOk"}

\* The one call works on what the row says.
AloneInv ==
    \A c \in Caller : at[c] # "idle" =>
        /\ \A d \in Caller \ {c} : at[d] = "idle"
        /\ IF row = NoRow THEN copy[c].paid = Nothing /\ copy[c].pending = NoTx
           ELSE copy[c].paid = row.paid /\ copy[c].pending = row.pending

\* Nothing that may still pay is forgotten.
PinnedInv ==
    \A u \in Payment : Undecided(net, u) => row # NoRow /\ row.pending = u

\* What is received is marked paid, or pinned.
CountedInv ==
    \A r \in Recipient :
        IF row = NoRow THEN received[r] = 0
        ELSE \/ received[r] <= row.paid[r]
             \/ /\ row.pending \in Payment /\ net[row.pending] = "ok"
                /\ received[r] <= row.paid[r] + row.pending.pay[r]

OwedInv == world.serial /\ ~world.reland => AloneInv /\ PinnedInv /\ CountedInv

\* Without a dropped failure, the cluster makes nothing undecided again.
LEMMA ClusterDecides ==
    ASSUME ClusterTypeOK, CDCluster, ~world.reland, NEW u \in Payment,
           Undecided(net', u)
    PROVE  Undecided(net, u)
<1>0. Payment \subseteq Tx
  OBVIOUS
<1>1. ASSUME NEW t \in Payment,
             Receive(t) \/ Process(t) \/ ConfirmErr(t) \/ DropFork(t)
      PROVE  Undecided(net, u)
  BY <1>0, <1>1 DEF Receive, ConfirmOk, Process, ConfirmErr, DropFork, SetNet,
                    ClusterTypeOK, TxStatus, Undecided
<1> QED
  BY <1>1 DEF CDCluster, Tick, Undecided

\* What a call writes in the row when its copy agreed with it.
LEMMA EffectOwed ==
    ASSUME DistInv, AloneInv, PinnedInv, CountedInv,
           NEW c \in Caller, Effect(c), at[c] # "idle", NEW s \in Row, row' = s,
           \/ net' = net /\ (Keeps(c, s) \/ Settles(c, s))
           \/ \E t \in Payment : Pins(c, s, t)
    PROVE  PinnedInv' /\ CountedInv'
<1>0. /\ net \in [Tx -> TxStatus] /\ received \in [Recipient -> Nat]
      /\ \A t \in Payment : t \in Tx /\ t # NoTx
      /\ received' = received /\ row' \in Row /\ row' # NoRow
      /\ IF row = NoRow THEN copy[c].paid = Nothing /\ copy[c].pending = NoTx
         ELSE copy[c].paid = row.paid /\ copy[c].pending = row.pending
      /\ NoTx \notin Payment
  BY AmountsType, RowType DEF DistInv, ClusterTypeOK, CDTypeOK, Effect, AloneInv
<1>1. CASE net' = net /\ Keeps(c, s)
  <2>1. s.paid = copy[c].paid /\ s.pending = copy[c].pending
    BY <1>1 DEF Keeps
  <2>2. PinnedInv'
    BY <1>0, <1>1, <2>1 DEF PinnedInv
  <2>3. CountedInv'
    BY <1>0, <1>1, <2>1 DEF CountedInv, Nothing
  <2> QED
    BY <2>2, <2>3
<1>2. CASE net' = net /\ Settles(c, s)
  <2>1. /\ row # NoRow /\ row.pending \in Payment /\ row.pending = copy[c].pending
        /\ row.paid = copy[c].paid /\ s.pending = NoTx
    BY <1>0, <1>2 DEF Settles
  <2>2. ~Undecided(net, row.pending)
    BY <1>2, <2>1 DEF Settles, Undecided
  <2>3. PinnedInv'
    BY <1>2, <2>1, <2>2 DEF PinnedInv, Undecided
  <2>4. ASSUME NEW r \in Recipient PROVE received[r] <= s.paid[r]
    <3>1. /\ received[r] \in Nat /\ row.paid[r] \in Nat
          /\ row.pending.pay[r] \in Nat
      BY <1>0, <2>1, RowType, AmountsType DEF DistInv, CDTypeOK
    <3>2. \/ received[r] <= row.paid[r]
          \/ /\ net[row.pending] = "ok"
             /\ received[r] <= row.paid[r] + row.pending.pay[r]
      BY <2>1 DEF CountedInv
    <3>3. CASE net[copy[c].pending] = "ok" /\ s.paid[r] = copy[c].paid[r] + copy[c].pending.pay[r]
      BY <2>1, <3>1, <3>2, <3>3
    <3>4. CASE net[copy[c].pending] # "ok" /\ s.paid = copy[c].paid
      BY <2>1, <3>2, <3>4
    <3> QED
      BY <1>2, <3>3, <3>4 DEF Settles
  <2> QED
    BY <1>0, <2>3, <2>4 DEF CountedInv
<1>3. ASSUME NEW t \in Payment, Pins(c, s, t)
      PROVE  PinnedInv' /\ CountedInv'
  <2>1. /\ s.paid = copy[c].paid /\ s.pending = t
        /\ copy[c].pending = t \/ copy[c].pending = NoTx
        /\ \A u \in Tx : net'[u] = "ok" <=> net[u] = "ok"
        /\ \A u \in Tx : u # t => net'[u] = net[u]
    BY <1>0, <1>3, BroadcastEffect DEF Pins
  <2>2. PinnedInv'
    BY <1>0, <2>1 DEF PinnedInv, Undecided
  <2>3. ASSUME row = NoRow PROVE CountedInv'
    <3>1. row'.paid = Nothing /\ \A r \in Recipient : received[r] = 0 /\ Nothing[r] = 0
      BY <1>0, <2>1, <2>3 DEF CountedInv, Nothing
    <3>2. received' = received /\ row' # NoRow
      BY <1>0
    <3> QED
      BY <3>1, <3>2 DEF CountedInv
  <2>4. ASSUME row # NoRow PROVE CountedInv'
    <3>1. /\ row'.paid = row.paid /\ row'.pending = t
          /\ row.pending = t \/ row.pending \notin Payment
          /\ received' = received /\ row' # NoRow
      BY <1>0, <2>1, <2>4
    <3>2. net'[t] = "ok" <=> net[t] = "ok"
      BY <1>0, <2>1
    <3> QED
      BY <2>4, <3>1, <3>2 DEF CountedInv
  <2> QED
    BY <2>2, <2>3, <2>4
<1> QED
  BY <1>1, <1>2, <1>3

LEMMA OwedInduction ==
    DistInv /\ OwedInv /\ [CDNext]_<<distribution, cluster>> => OwedInv'
<1> SUFFICES ASSUME DistInv, OwedInv, [CDNext]_<<distribution, cluster>>,
                    world'.serial, ~world'.reland
             PROVE  AloneInv' /\ PinnedInv' /\ CountedInv'
  BY DEF OwedInv
<1>0. /\ copy \in [Caller -> Row \cup {NoRow}] /\ at \in [Caller -> At]
      /\ received \in [Recipient -> Nat] /\ net \in [Tx -> TxStatus]
      /\ \A t \in Payment : t \in Tx
  BY DEF DistInv, CDTypeOK, ClusterTypeOK
<1>1. ASSUME NEW c \in Caller, CallStep(c)
      PROVE  AloneInv' /\ PinnedInv' /\ CountedInv'
  <2>1. Effect(c) /\ UNCHANGED <<world, received>>
    BY <1>1, CallEffect, EffectInv
  <2>2. AloneInv /\ PinnedInv /\ CountedInv
    BY <2>1 DEF OwedInv
  <2>3. at[c] # "idle"
    BY <2>1, RowType DEF Effect, GoodRow, DistInv, CopyInv
  <2>4. CASE net' = net /\ Waits(c)
    BY <1>0, <2>1, <2>2, <2>3, <2>4
       DEF Waits, Goto, AloneInv, PinnedInv, CountedInv, Undecided
  <2>5. ASSUME NEW s \in Row, Writes(c, s)
        PROVE  AloneInv'
    <3>1. s # NoRow /\ row' = s
      BY <2>5, RowType DEF Writes
    <3>2. CASE Leave(c)
      BY <1>0, <2>2, <2>3, <3>2 DEF Leave, AloneInv
    <3>3. ASSUME copy' = [copy EXCEPT ![c] = s], NEW a \in {"status", "send", "build"},
                 Goto(c, a)
          PROVE  AloneInv'
      BY <1>0, <2>2, <2>3, <3>1, <3>3 DEF Goto, AloneInv
    <3> QED
      BY <2>5, <3>2, <3>3 DEF Writes
  <2>6. ASSUME NEW s \in Row, Writes(c, s),
               \/ net' = net /\ (Keeps(c, s) \/ Settles(c, s))
               \/ \E t \in Payment : Pins(c, s, t)
        PROVE  PinnedInv' /\ CountedInv'
    BY <2>1, <2>2, <2>3, <2>6, EffectOwed DEF Writes
  <2> QED
    BY <2>1, <2>4, <2>5, <2>6 DEF Effect
<1>2. ASSUME NEW c \in Caller, NEW e \in Entitlements[world],
             NEW label \in {"plan", "prepare"}, Begin(c, e, label)
      PROVE  AloneInv' /\ PinnedInv' /\ CountedInv'
  <2>1. /\ UNCHANGED <<row, received, cluster>>
        /\ at' = [at EXCEPT ![c] = label]
        /\ world.serial => \A d \in Caller : at[d] = "idle"
    BY <1>2, BeginEffect
  <2>2. PICK s \in Row :
          /\ copy' = [copy EXCEPT ![c] = s]
          /\ IF row = NoRow THEN s.paid = Nothing /\ s.pending = NoTx
             ELSE s.paid = row.paid /\ s.pending = row.pending
    BY <1>2, BeginEffect
  <2>3. AloneInv /\ PinnedInv /\ CountedInv /\ \A d \in Caller : at[d] = "idle"
    BY <2>1 DEF OwedInv, cluster
  <2>4. AloneInv'
    BY <1>0, <2>1, <2>2, <2>3 DEF AloneInv
  <2> QED
    BY <2>1, <2>3, <2>4 DEF PinnedInv, CountedInv, Undecided, cluster
<1>3. ASSUME NEW c \in Caller, Quit(c)
      PROVE  AloneInv' /\ PinnedInv' /\ CountedInv'
  BY <1>0, <1>3 DEF Quit, Leave, OwedInv, AloneInv, PinnedInv, CountedInv,
                    Undecided, cluster
<1>4. CASE CDCluster
  <2>1. UNCHANGED <<world, row, copy, at>>
    BY <1>4, ClusterEffect DEF DistInv
  <2>2. AloneInv /\ PinnedInv /\ CountedInv
    BY <2>1 DEF OwedInv
  <2>3. AloneInv'
    BY <2>1, <2>2 DEF AloneInv
  <2>4. PinnedInv'
    BY <1>4, <2>1, <2>2, ClusterDecides DEF DistInv, PinnedInv
  <2>5. ASSUME UNCHANGED received, \A u \in Tx : net[u] = "ok" => net'[u] = "ok"
        PROVE  CountedInv'
    BY <1>0, <2>1, <2>2, <2>5 DEF CountedInv
  \* What lands now was pinned, and not counted.
  <2>6. ASSUME NEW t \in Payment, net[t] = "procOk",
               net' = [net EXCEPT ![t] = "ok"],
               received' = [r \in Recipient |-> received[r] + t.pay[r]]
        PROVE  CountedInv'
    <3>1. row # NoRow /\ row.pending = t /\ row \in Row
      BY <2>2, <2>6 DEF PinnedInv, Undecided, DistInv, CDTypeOK
    <3>2. ASSUME NEW r \in Recipient
          PROVE  received'[r] <= row.paid[r] + t.pay[r]
      <4>1. /\ received[r] \in Nat /\ row.paid[r] \in Nat /\ t.pay[r] \in Nat
            /\ received'[r] = received[r] + t.pay[r]
        BY <1>0, <2>6, <3>1, RowType, AmountsType
      <4>2. received[r] <= row.paid[r]
        BY <2>2, <2>6, <3>1 DEF CountedInv
      <4> QED
        BY <4>1, <4>2
    <3>3. net'[t] = "ok"
      BY <1>0, <2>6
    <3> QED
      BY <2>1, <3>1, <3>2, <3>3 DEF CountedInv
  <2> QED
    BY <1>4, <2>3, <2>4, <2>5, <2>6, ClusterEffect DEF DistInv
<1>5. CASE UNCHANGED <<distribution, cluster>>
  BY <1>5 DEF distribution, cluster, OwedInv, AloneInv, PinnedInv, CountedInv,
              Undecided
<1> QED
  BY <1>1, <1>2, <1>3, <1>4, <1>5 DEF CDNext

\* What is received was owed: without a row, nothing is.
OwesInv ==
    world.serial /\ ~world.reland => \A r \in Recipient : received[r] <= Entitled[r]

LEMMA OwedBound == DistInv /\ OwedInv => OwesInv
<1> SUFFICES ASSUME DistInv, OwedInv, world.serial, ~world.reland, NEW r \in Recipient
             PROVE  received[r] <= Entitled[r]
  BY DEF OwesInv
<1>1. CASE row = NoRow
  <2>1. Entitled = Nothing /\ received[r] = 0
    BY <1>1 DEF OwedInv, CountedInv, Entitled
  <2> QED
    BY <2>1 DEF Nothing
<1>2. CASE row # NoRow
  <2>1. /\ received[r] \in Nat /\ row.paid[r] \in Nat /\ row.entitled[r] \in Nat
        /\ row.pending \in Payment => row.pending.pay[r] \in Nat
        /\ row.pending \in Payment => row.pending # NoTx
    BY <1>2, RowType, AmountsType DEF DistInv, CDTypeOK
  <2>2. InBatch(row, r) \in Nat
    BY <1>2, <2>1, RowType DEF DistInv, CDTypeOK, InBatch
  <2>3. row.paid[r] + InBatch(row, r) <= row.entitled[r]
    BY <1>2 DEF DistInv, RowInv, GoodRow
  <2>4. \/ received[r] <= row.paid[r]
        \/ /\ row.pending \in Payment
           /\ received[r] <= row.paid[r] + row.pending.pay[r]
    BY <1>2 DEF OwedInv, CountedInv
  <2>5. Entitled = row.entitled
    BY <1>2 DEF Entitled
  <2> QED
    BY <2>1, <2>2, <2>3, <2>4, <2>5 DEF InBatch
<1> QED
  BY <1>1, <1>2

\* Calls that do not overlap, on a cluster whose failures are final, pay
\* nobody more than the entitlement on record: through crashes, expiries,
\* lost answers and repeated sends.
THEOREM NobodyIsOverpaid == CDSpec => []NeverOverpaid
<1>1. CDInit /\ ClusterInit => OwedInv
  BY DEF CDInit, ClusterInit, OwedInv, AloneInv, PinnedInv, CountedInv, Undecided,
         Nothing
<1>2. OwesInv => NeverOverpaid
  BY DEF OwesInv, Entitled, NeverOverpaid
<1> QED
  BY <1>1, <1>2, DistInit, DistInduction, OwedInduction, OwedBound, PTL DEF CDSpec

-----------------------------------------------------------------------------
(* The distribution implements PayOwed *)

\* No call carries a lower entitlement than the row; behind the awaits of a
\* pinned batch, it carries the row's.
AgreedInv ==
    world.serial /\ ~world.reland =>
        \A c \in Caller : at[c] # "idle" =>
            /\ row # NoRow => \A r \in Recipient : row.entitled[r] <= copy[c].entitled[r]
            /\ at[c] \in Reconciling => row # NoRow /\ row.entitled = copy[c].entitled

LEMMA AgreedInduction ==
    DistInv /\ OwedInv /\ AgreedInv /\ [CDNext]_<<distribution, cluster>> => AgreedInv'
<1> SUFFICES ASSUME DistInv, OwedInv, AgreedInv, [CDNext]_<<distribution, cluster>>,
                    world'.serial, ~world'.reland,
                    NEW d \in Caller, at'[d] # "idle"
             PROVE  /\ row' # NoRow =>
                        \A r \in Recipient : row'.entitled[r] <= copy'[d].entitled[r]
                    /\ at'[d] \in Reconciling =>
                        row' # NoRow /\ row'.entitled = copy'[d].entitled
  BY DEF AgreedInv
<1>0. /\ copy \in [Caller -> Row \cup {NoRow}] /\ at \in [Caller -> At]
      /\ \A s \in Row, r \in Recipient : s # NoRow /\ s.entitled[r] <= s.entitled[r]
  <2>1. \A s \in Row, r \in Recipient : s.entitled[r] \in Nat
    BY RowType, AmountsType
  <2> QED
    BY <2>1, RowType DEF DistInv, CDTypeOK
<1>1. ASSUME NEW c \in Caller, CallStep(c)
      PROVE  /\ row' # NoRow =>
                 \A r \in Recipient : row'.entitled[r] <= copy'[d].entitled[r]
             /\ at'[d] \in Reconciling =>
                 row' # NoRow /\ row'.entitled = copy'[d].entitled
  <2>1. Effect(c) /\ UNCHANGED world
    BY <1>1, CallEffect, EffectInv
  <2>2. AloneInv /\ world.serial /\ ~world.reland
    BY <2>1 DEF OwedInv
  <2>3. at[c] # "idle"
    BY <2>1, RowType DEF Effect, GoodRow, DistInv, CopyInv
  <2>4. CASE Waits(c)
    BY <1>0, <2>2, <2>3, <2>4 DEF Waits, Goto, AgreedInv, AloneInv
  <2>5. ASSUME NEW s \in Row, Writes(c, s)
        PROVE  d = c /\ row' = s /\ copy'[d] = s
    BY <1>0, <2>2, <2>3, <2>5 DEF Writes, Leave, Goto, AloneInv
  <2> QED
    BY <1>0, <2>1, <2>4, <2>5 DEF Effect
<1>2. ASSUME NEW c \in Caller, NEW e \in Entitlements[world],
             NEW label \in {"plan", "prepare"}, Begin(c, e, label)
      PROVE  /\ row' # NoRow =>
                 \A r \in Recipient : row'.entitled[r] <= copy'[d].entitled[r]
             /\ at'[d] \in Reconciling =>
                 row' # NoRow /\ row'.entitled = copy'[d].entitled
  <2>1. /\ at' = [at EXCEPT ![c] = label] /\ UNCHANGED <<row, cluster>>
        /\ world.serial => \A b \in Caller : at[b] = "idle"
    BY <1>2, BeginEffect
  <2>2. PICK s \in Row :
          /\ copy' = [copy EXCEPT ![c] = s]
          /\ row # NoRow => \A r \in Recipient : row.entitled[r] <= s.entitled[r]
    BY <1>2, BeginEffect
  <2>3. d = c /\ copy'[d] = s /\ at'[d] \notin Reconciling
    BY <1>0, <2>1, <2>2 DEF cluster, Reconciling
  <2> QED
    BY <2>1, <2>2, <2>3
<1>3. ASSUME NEW c \in Caller, Quit(c)
      PROVE  /\ row' # NoRow =>
                 \A r \in Recipient : row'.entitled[r] <= copy'[d].entitled[r]
             /\ at'[d] \in Reconciling =>
                 row' # NoRow /\ row'.entitled = copy'[d].entitled
  BY <1>0, <1>3 DEF Quit, Leave, AgreedInv, cluster
<1>4. CASE CDCluster
  <2>1. UNCHANGED <<world, row, copy, at>>
    BY <1>4, ClusterEffect DEF DistInv
  <2> QED
    BY <2>1 DEF AgreedInv
<1>5. CASE UNCHANGED <<distribution, cluster>>
  BY <1>5 DEF distribution, cluster, AgreedInv
<1> QED
  BY <1>1, <1>2, <1>3, <1>4, <1>5 DEF CDNext

\* A call that leaves paid amounts and batch as they were in the row can only
\* have raised the entitlement.
LEMMA WriteEntitles ==
    ASSUME DistInv, OwedInv, AgreedInv, world.serial, ~world.reland,
           NEW c \in Caller, at[c] # "idle", UNCHANGED <<world, received>>,
           NEW s \in Row, row' = s,
           s.paid = copy[c].paid, s.entitled = copy[c].entitled
    PROVE  Ledger!Entitle
<1>1. /\ row' # NoRow
      /\ IF row = NoRow THEN s.paid = Nothing ELSE s.paid = row.paid
  BY RowType DEF OwedInv, AloneInv
<1>2. Booked' = Booked
  BY <1>1 DEF Booked
<1>3. \A r \in Recipient : Entitled[r] <= Entitled'[r]
  <2>1. Entitled' = s.entitled /\ \A r \in Recipient : s.entitled[r] \in Nat
    BY <1>1, RowType, AmountsType DEF Entitled
  <2>2. CASE row = NoRow
    <3>1. Entitled = Nothing
      BY <2>2 DEF Entitled
    <3> QED
      BY <2>1, <3>1 DEF Nothing
  <2>3. CASE row # NoRow
    BY <2>1, <2>3 DEF Entitled, AgreedInv
  <2> QED
    BY <2>2, <2>3
<1> QED
  BY <1>2, <1>3 DEF Ledger!Entitle, Ledger!Below

\* A call that settles a batch books what has been received.
LEMMA SettleBooks ==
    ASSUME DistInv, OwedInv, AgreedInv, BackedInv', world.serial, ~world.reland,
           NEW c \in Caller, at[c] # "idle", UNCHANGED <<world, received>>,
           NEW s \in Row, row' = s, Settles(c, s)
    PROVE  Ledger!Book
<1>1. /\ row # NoRow /\ row.entitled = copy[c].entitled /\ row.paid = copy[c].paid
      /\ row' # NoRow /\ s.entitled = copy[c].entitled
      /\ row \in Row /\ copy[c].pending \in Payment
  BY RowType DEF OwedInv, AloneInv, AgreedInv, Settles, DistInv, CDTypeOK
<1>2. Entitled' = Entitled
  BY <1>1 DEF Entitled
<1>3. ASSUME NEW r \in Recipient
      PROVE  Booked[r] <= Booked'[r] /\ Booked'[r] <= received[r]
  <2>0. received[r] \in Nat
    BY DEF DistInv, CDTypeOK
  <2>1. CASE world.repeat
    BY <2>0, <2>1 DEF Booked, Nothing
  <2>2. CASE ~world.repeat
    <3>1. row.paid[r] \in Nat /\ copy[c].pending.pay[r] \in Nat
      BY <1>1, RowType, AmountsType
    <3>2. \/ s.paid[r] = copy[c].paid[r] + copy[c].pending.pay[r]
          \/ s.paid = copy[c].paid
      BY DEF Settles
    <3>3. s.paid[r] <= received[r]
      BY <1>1, <2>2 DEF BackedInv, Backed
    <3>4. Booked = row.paid /\ Booked' = s.paid
      BY <1>1, <2>2 DEF Booked
    <3> QED
      BY <1>1, <3>1, <3>2, <3>3, <3>4
  <2> QED
    BY <2>1, <2>2
<1> QED
  BY <1>2, <1>3 DEF Ledger!Book, Ledger!Below

\* Each step of a call is one of the two, or goes on waiting.
LEMMA CallRefines ==
    ASSUME DistInv, OwedInv, AgreedInv, BackedInv', world.serial, ~world.reland,
           NEW c \in Caller, CallStep(c)
    PROVE  [Ledger!Next]_(Ledger!vars)
<1>1. Effect(c) /\ UNCHANGED <<world, received>>
  BY CallEffect, EffectInv
<1>2. at[c] # "idle"
  BY <1>1, RowType DEF Effect, GoodRow, DistInv, CopyInv
<1>3. CASE Waits(c)
  BY <1>1, <1>3 DEF Waits, Entitled, Booked, Ledger!vars
<1>4. ASSUME NEW s \in Row, Writes(c, s), Keeps(c, s) \/ \E t \in Payment : Pins(c, s, t)
      PROVE  Ledger!Entitle
  <2>1. row' = s /\ s.paid = copy[c].paid /\ s.entitled = copy[c].entitled
    BY <1>4 DEF Writes, Keeps, Pins
  <2> QED
    BY <1>1, <1>2, <2>1, WriteEntitles
<1>5. ASSUME NEW s \in Row, Writes(c, s), Settles(c, s)
      PROVE  Ledger!Book
  <2>1. row' = s
    BY <1>5 DEF Writes
  <2> QED
    BY <1>1, <1>2, <1>5, <2>1, SettleBooks
<1> QED
  BY <1>1, <1>3, <1>4, <1>5 DEF Effect, Ledger!Next

\* What the cluster confirms was owed.
LEMMA ClusterRefines ==
    ASSUME DistInv, OwesInv', world.serial, ~world.reland, CDCluster
    PROVE  [Ledger!Next]_(Ledger!vars)
<1>1. UNCHANGED <<world, row>>
  BY ClusterEffect DEF DistInv
<1>2. Entitled' = Entitled /\ Booked' = Booked
  BY <1>1 DEF Entitled, Booked
<1>3. CASE UNCHANGED received
  BY <1>2, <1>3 DEF Ledger!vars
<1>4. ASSUME NEW t \in Payment,
             received' = [r \in Recipient |-> received[r] + t.pay[r]],
             NEW r \in Recipient
      PROVE  received[r] <= received'[r]
  <2>1. received[r] \in Nat /\ t.pay[r] \in Nat /\ received'[r] = received[r] + t.pay[r]
    BY <1>4, AmountsType DEF DistInv, CDTypeOK
  <2> QED
    BY <2>1
<1>5. ASSUME NEW r \in Recipient
      PROVE  received'[r] <= Entitled[r]
  BY <1>1, <1>2 DEF OwesInv
<1> QED
  BY <1>2, <1>3, <1>4, <1>5, ClusterEffect
     DEF DistInv, Ledger!Next, Ledger!Pay, Ledger!Below

LEMMA LedgerMapsInit ==
    CDInit /\ ClusterInit => Ledger!Init /\ BackedInv /\ OwedInv /\ AgreedInv
  BY DEF CDInit, ClusterInit, OwedInv, AloneInv, PinnedInv, CountedInv, Undecided,
         Nothing, BackedInv, AgreedInv, Ledger!Init, Entitled, Booked

LEMMA LedgerMapsStep ==
    /\ DistInv /\ OwedInv /\ AgreedInv /\ OwesInv' /\ BackedInv'
    /\ [CDNext]_<<distribution, cluster>>
    => [world.serial /\ ~world.reland => Ledger!Next]_(Ledger!vars)
<1> SUFFICES ASSUME DistInv, OwedInv, AgreedInv, OwesInv', BackedInv',
                    [CDNext]_<<distribution, cluster>>, world.serial, ~world.reland
             PROVE  [Ledger!Next]_(Ledger!vars)
  OBVIOUS
<1>1. ASSUME NEW c \in Caller, NEW e \in Entitlements[world],
             NEW label \in {"plan", "prepare"}, Begin(c, e, label)
      PROVE  UNCHANGED Ledger!vars
  BY <1>1, BeginEffect DEF cluster, Entitled, Booked, Ledger!vars
<1>2. ASSUME NEW c \in Caller, Quit(c)
      PROVE  UNCHANGED Ledger!vars
  BY <1>2 DEF Quit, cluster, Entitled, Booked, Ledger!vars
<1>3. CASE UNCHANGED <<distribution, cluster>>
  BY <1>3 DEF distribution, cluster, Entitled, Booked, Ledger!vars
<1> QED
  BY <1>1, <1>2, <1>3, CallRefines, ClusterRefines DEF CDNext

\* Calls that do not overlap, on a cluster whose failures are final, implement
\* PayOwed: no write of the row lowers an entitlement or a paid amount, the
\* books are never ahead of the money, and every payment lands within what was
\* owed at that moment.
THEOREM DistributionImplementsPayOwed == CDSpec => PaysWhatIsOwed
  BY LedgerMapsInit, LedgerMapsStep, DistInit, DistInduction, BackedInduction,
     OwedInduction, AgreedInduction, OwedBound, PTL DEF CDSpec, PaysWhatIsOwed
=============================================================================
