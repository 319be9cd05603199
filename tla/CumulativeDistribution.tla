------------------------- MODULE CumulativeDistribution -------------------------
(***************************************************************************)
(* distributions/cumulative.ts: recipients are entitled to amounts that    *)
(* only grow, and each call pays what is outstanding, batch by batch.  The *)
(* durable state is one JSON row; a call (an execute, or a plan, which     *)
(* saves the new entitlements too) works on its own copy of the row and    *)
(* overwrites the row after each change.  A step is the code between two   *)
(* awaits; Quit is the death of the process, or an exception that leaves   *)
(* the call, at any of them.                                               *)
(*                                                                         *)
(* The balance of the source wallet is not modelled: funding and reserve   *)
(* let a batch end anywhere, in the middle of the last recipient's amount. *)
(* A recipient that has not been entered yet is entitled to 0.             *)
(***************************************************************************)
EXTENDS Cluster, FiniteSets

CONSTANTS
    Recipient,     \* numbered in the order of localeCompare
    MaxEntitled,   \* bound: the largest entitlement explored
    MaxSigned,     \* bound: the transactions signed and sent
    Entitlements,  \* the entitlements callers may supply, world by world
    Caller,        \* concurrent calls on the same distribution id
    ValidFor,      \* blocks a blockhash stays valid (150 on Solana)
    NoTx,          \* pending = null
    NoRow          \* no row for the id

Amounts == [Recipient -> 0..MaxEntitled]
Nothing == [r \in Recipient |-> 0]
Payment == [ pay : Amounts \ {Nothing}, lastValid : ValidFor..(MaxHeight + ValidFor) ]

ASSUME DistributionAssumption ==
    /\ Recipient \subseteq Nat
    /\ MaxEntitled \in Nat /\ ValidFor \in Nat
    /\ Entitlements \in [World -> SUBSET Amounts]
    /\ Payment \subseteq Tx
    /\ NoTx \notin Tx

Row == [ status   : {"ready", "distributing", "complete", "funding-required",
                     "uncertain"},
         entitled : Amounts,
         paid     : Amounts,               \* confirmedPaidRaw
         pending  : Payment \cup {NoTx} ]

ASSUME NoRowAssumption == NoRow \notin Row

VARIABLES
    row,        \* the settings row of the id
    copy,       \* copy[c]: the state object of call c
    at,         \* at[c]: the await call c is at
    received    \* received[r]: what confirmed transactions have paid r

distribution == <<row, copy, at, received>>

At == {"idle", "plan", "prepare", "status", "reconfirm", "parsed", "height",
       "build", "send"}

CDTypeOK ==
    /\ row \in Row \cup {NoRow}
    /\ copy \in [Caller -> Row \cup {NoRow}]
    /\ at \in [Caller -> At]
    /\ received \in [Recipient -> Nat]

CDInit ==
    /\ row = NoRow
    /\ copy = [c \in Caller |-> NoRow]
    /\ at = [c \in Caller |-> "idle"]
    /\ received = Nothing

-----------------------------------------------------------------------------
(* Changes of the row *)

NewRow == [ status |-> "complete", entitled |-> Nothing, paid |-> Nothing,
            pending |-> NoTx ]

Outstanding(s) == {r \in Recipient : s.paid[r] < s.entitled[r]}

\* refreshStatus: uncertain is kept.
Refresh(s) ==
    [s EXCEPT !.status =
        IF @ = "uncertain" THEN @
        ELSE IF s.pending # NoTx THEN "distributing"
        ELSE IF Outstanding(s) = {} THEN "complete" ELSE "ready"]

\* Anything else is refused before the row is written.
MayApply(s, e) ==
    \A r \in Recipient : e[r] >= s.entitled[r] /\ e[r] >= s.paid[r]

ApplyEntitlements(s, e) == Refresh([s EXCEPT !.entitled = e])

ApplyConfirmed(s) ==
    [s EXCEPT !.paid = [r \in Recipient |-> @[r] + s.pending.pay[r]]]

OnConfirmed(s) == Refresh([ApplyConfirmed(s) EXCEPT !.pending = NoTx])
OnFailed(s) == [s EXCEPT !.pending = NoTx, !.status = "ready"]

\* Slip: an expired batch is dropped, to be built again.
OnExpiredRebuilds(s) == [s EXCEPT !.pending = NoTx, !.status = "ready"]

OnExpired(s) == [s EXCEPT !.status = "uncertain"]

\* The largest outstanding amount first, then by name.
Before(s, r, q) ==
    LET left(x) == s.entitled[x] - s.paid[x] IN
    left(r) > left(q) \/ (left(r) = left(q) /\ r < q)

\* Slip: the partial amount is not limited to what is outstanding.
BatchesOfEntitled(s) ==
    {p \in Amounts \ {Nothing} : \A r \in Recipient : p[r] \in {0, s.entitled[r]}}

\* The first batch packTransferMany makes of paymentCandidates: a prefix in
\* that order, whose last amount may be cut to the balance.
Batches(s) ==
    {p \in Amounts \ {Nothing} :
        LET paid == {r \in Recipient : p[r] > 0} IN
        /\ paid \subseteq Outstanding(s)
        /\ \A r \in paid, q \in Outstanding(s) \ paid : Before(s, r, q)
        /\ \A r \in paid :
            \/ p[r] = s.entitled[r] - s.paid[r]
            \/ /\ p[r] < s.entitled[r] - s.paid[r]
               /\ \A q \in paid \ {r} : Before(s, q, r)}

-----------------------------------------------------------------------------
(* Calls *)

Goto(c, label) == at' = [at EXCEPT ![c] = label]

Save(c, s) == row' = s /\ copy' = [copy EXCEPT ![c] = s]

Leave(c) ==
    /\ at' = [at EXCEPT ![c] = "idle"]
    /\ copy' = [copy EXCEPT ![c] = NoRow]

SaveAndLeave(c, s) == row' = s /\ Leave(c)

\* The head of the loop: reconcile what is pending before anything is built.
Loop(c, s) ==
    IF s.pending # NoTx THEN Save(c, s) /\ Goto(c, "status")
    ELSE IF Outstanding(s) = {}
    THEN SaveAndLeave(c, [s EXCEPT !.status = "complete"])
    ELSE Save(c, s) /\ Goto(c, "build")

\* Both calls read the row and save it in another turn of the event loop.
Begin(c, e, label) ==
    /\ at[c] = "idle"
    /\ world.serial => \A d \in Caller : at[d] = "idle"
    /\ LET s == IF row = NoRow THEN NewRow ELSE row IN
       /\ MayApply(s, e)
       /\ copy' = [copy EXCEPT ![c] = ApplyEntitlements(s, e)]
    /\ Goto(c, label)
    /\ UNCHANGED <<row, received, cluster>>

Plan(c) ==
    /\ at[c] = "plan"
    /\ SaveAndLeave(c, copy[c])
    /\ UNCHANGED <<received, cluster>>

\* "distribution is uncertain": the entitlements are saved and it throws.
Execute(c) ==
    /\ at[c] = "prepare"
    /\ IF copy[c].status = "uncertain" THEN SaveAndLeave(c, copy[c])
       ELSE Loop(c, copy[c])
    /\ UNCHANGED <<received, cluster>>

Settle(c) == Loop(c, OnConfirmed(copy[c]))
Fail(c) == SaveAndLeave(c, OnFailed(copy[c]))

\* Slip: processed is taken for confirmed.
ReconcileStatusEarly(c) ==
    /\ at[c] = "status"
    /\ \E view \in StatusViews(copy[c].pending) :
        \/ view \in {"procErr", "err"} /\ Fail(c)
        \/ view \in {"procOk", "ok"} /\ Settle(c)
        \/ view = "none" /\ Goto(c, "parsed") /\ UNCHANGED <<row, copy>>
    /\ UNCHANGED <<received, cluster>>

\* A status that is not confirmed yet is asked for again, a second later.
ReconcileStatus(c) ==
    /\ at[c] = "status"
    /\ \E view \in StatusViews(copy[c].pending) :
        \/ view \in {"procErr", "err"} /\ Fail(c)
        \/ view = "ok" /\ Goto(c, "reconfirm") /\ UNCHANGED <<row, copy>>
        \/ view = "procOk" /\ UNCHANGED <<row, copy, at>>
        \/ view = "none" /\ Goto(c, "parsed") /\ UNCHANGED <<row, copy>>
    /\ UNCHANGED <<received, cluster>>

\* Only a receipt that says "failed" stops the payment being recorded.
ReconcileReceipt(c) ==
    /\ at[c] = "reconfirm"
    /\ \E view \in ConfirmedViews(copy[c].pending) :
        IF view = "err" THEN Fail(c) ELSE Settle(c)
    /\ UNCHANGED <<received, cluster>>

ReconcileHistory(c) ==
    /\ at[c] = "parsed"
    /\ \E view \in ConfirmedViews(copy[c].pending) :
        \/ view = "err" /\ Fail(c)
        \/ view = "ok" /\ Settle(c)
        \/ view = "none" /\ Goto(c, "height") /\ UNCHANGED <<row, copy>>
    /\ UNCHANGED <<received, cluster>>

\* submitPersisted: the attempt is saved, then the bytes leave.
Submit(c, s) ==
    /\ Save(c, s)
    /\ Broadcast(s.pending)
    /\ Goto(c, "send")

\* The node asked for the height may lag.  Within a second of the last
\* attempt the bytes are not sent again.
ReconcileHeight(c) ==
    /\ at[c] = "height"
    /\ \E seen \in 0..height :
        \/ /\ seen > copy[c].pending.lastValid
           /\ SaveAndLeave(c, OnExpired(copy[c]))
           /\ UNCHANGED net
        \/ seen <= copy[c].pending.lastValid /\ Submit(c, copy[c])
        \/ /\ seen <= copy[c].pending.lastValid
           /\ Goto(c, "status")
           /\ UNCHANGED <<row, copy, net>>
    /\ UNCHANGED <<received, height, world>>

\* Balance, packing, compiling and simulation; the batch is saved unsent and
\* then submitted in the same turn.
Build(c) ==
    /\ at[c] = "build"
    /\ \E p \in Batches(copy[c]), h \in 0..height :
        LET t == [pay |-> p, lastValid |-> h + ValidFor] IN
        /\ world.repeat \/ net[t] = "none"
        /\ Cardinality({u \in Payment : net[u] # "none"} \cup {t}) <= MaxSigned
        /\ Submit(c, [copy[c] EXCEPT !.pending = t, !.status = "distributing"])
    /\ UNCHANGED <<received, height, world>>

NoFunding(c) ==
    /\ at[c] = "build"
    /\ SaveAndLeave(c, [copy[c] EXCEPT !.status = "funding-required"])
    /\ UNCHANGED <<received, cluster>>

\* The sender answers with the signature, or with another one.
SendReturns(c) ==
    /\ at[c] = "send"
    /\ \/ Goto(c, "status") /\ UNCHANGED <<row, copy>>
       \/ SaveAndLeave(c, OnExpired(copy[c]))
    /\ UNCHANGED <<received, cluster>>

Quit(c) ==
    /\ at[c] # "idle"
    /\ Leave(c)
    /\ UNCHANGED <<row, received, cluster>>

CallStep(c) ==
    \/ Plan(c) \/ Execute(c)
    \/ ReconcileStatus(c) \/ ReconcileReceipt(c) \/ ReconcileHistory(c)
    \/ ReconcileHeight(c) \/ Build(c) \/ NoFunding(c) \/ SendReturns(c)

-----------------------------------------------------------------------------
(* The cluster *)

Receive(t) ==
    /\ ConfirmOk(t)
    /\ received' = [r \in Recipient |-> received[r] + t.pay[r]]
    /\ UNCHANGED <<row, copy, at>>

CDCluster ==
    \/ \E t \in Payment : Receive(t)
    \/ /\ Tick \/ \E t \in Payment : Process(t) \/ ConfirmErr(t) \/ DropFork(t)
       /\ UNCHANGED distribution

CDNext ==
    \/ \E c \in Caller :
        \/ \E e \in Entitlements[world], label \in {"plan", "prepare"} : Begin(c, e, label)
        \/ CallStep(c)
        \/ Quit(c)
    \/ CDCluster

CDSpec == CDInit /\ ClusterInit /\ [][CDNext]_<<distribution, cluster>>

\* Callers that keep executing, on a cluster that keeps working.
CDFairness ==
    /\ WF_<<distribution, cluster>>(Tick /\ UNCHANGED distribution)
    /\ \A t \in Payment :
        WF_<<distribution, cluster>>(
            Receive(t) \/ (UNCHANGED distribution /\ (Process(t) \/ ConfirmErr(t))))
    /\ \A c \in Caller :
        /\ SF_<<distribution, cluster>>(
                \E e \in Entitlements[world] : Begin(c, e, "prepare"))
        /\ WF_<<distribution, cluster>>(CallStep(c))

CDFairSpec == CDSpec /\ CDFairness

-----------------------------------------------------------------------------
(* Properties *)

\* Nobody is ever paid more than the entitlement on record, by calls that do
\* not overlap and a cluster whose failures are final; whatever crashes,
\* expires or is sent again.
NeverOverpaid ==
    row # NoRow /\ world.serial /\ ~world.reland =>
        \A r \in Recipient : received[r] <= row.entitled[r]

\* confirmedPaidRaw is money the recipient has, also when calls overlap, if
\* two batches never share a blockhash: then two batches of the same amounts
\* are two transactions.
PaidIsReceived ==
    row # NoRow /\ ~world.repeat =>
        \A r \in Recipient : row.paid[r] <= received[r]

\* "replacement is blocked until reconciled" (:563): a batch that has landed
\* although the row calls it uncertain is reconciled by later executes.
UncertainIsReconciled ==
    \A t \in Payment :
        row # NoRow /\ row.status = "uncertain" /\ row.pending = t /\ net[t] = "ok"
            ~> row # NoRow /\ row.pending # t

\* The two corruption checks of the code (:313, :517) never fire, also when
\* calls overwrite each other's row.
WithinEntitlement ==
    \A s \in {row} \cup {copy[c] : c \in Caller} : s # NoRow =>
        \A r \in Recipient :
            s.paid[r] + (IF s.pending = NoTx THEN 0 ELSE s.pending.pay[r])
                <= s.entitled[r]

-----------------------------------------------------------------------------
(* Refinement *)

\* What the row says.  Two builds that share a blockhash make one transaction
\* of two batches: there the books can be ahead of the money, and only what is
\* received is compared.
Entitled == IF row = NoRow THEN Nothing ELSE row.entitled
Booked == IF row = NoRow \/ world.repeat THEN Nothing ELSE row.paid

Ledger == INSTANCE PayOwed WITH
    Payee <- Recipient, owed <- Entitled, got <- received, booked <- Booked

\* Calls that do not overlap, on a cluster whose failures are final, implement
\* PayOwed: no call ever writes back a lower entitlement or a lower paid
\* amount, and no payment lands that was not owed in full when it did.
PaysWhatIsOwed ==
    /\ Ledger!Init
    /\ [][world.serial /\ ~world.reland => Ledger!Next]_(Ledger!vars)
=============================================================================
