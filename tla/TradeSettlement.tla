--------------------------- MODULE TradeSettlement ---------------------------
(***************************************************************************)
(* core/solard.ts: a buy or sell under one intentKey, from the reservation *)
(* of the key to the answer.  runReliableTrade queues the calls of a       *)
(* process per wallet, claims the key in the settings table and runs       *)
(* executeTradePlan, which signs, journals, broadcasts and settles up to   *)
(* MaxAttempts transactions, one after the expiry of the other; any other  *)
(* call on the key, and resumeTrade, settles what is already journaled.    *)
(* A step is the code between two awaits.                                  *)
(*                                                                         *)
(* A buy that is refused for its price, by the simulation or by the send's *)
(* preflight, is built and submitted again once in the same attempt.       *)
(*                                                                         *)
(* Signing is deterministic, so a transaction IS its content: the attempt, *)
(* which fixes the fee bid, the quote, and the blockhash, which fixes      *)
(* lastValid.                                                              *)
(***************************************************************************)
EXTENDS Integers, Sequences

CONSTANTS
    Call,           \* calls of buy, sell, resumeTrade or reconcile on the key
    Process,        \* processes that share the database
    ProcessOf,      \* the process of a call
    Fingerprint,    \* what a trade asks for
    FingerprintOf,  \* the fingerprint a call supplies
    MaxAttempts,    \* landing.maxAttempts
    MaxHeight,      \* bound: the last block height explored
    ValidFor,       \* blocks a blockhash stays valid (150 on Solana)
    HashAge,        \* how many blocks old the blockhash of a build may be
    ResumeWaits,    \* callers do not resume a key whose operation is running
    OneNode,        \* the requests of one expiry inspection reach one node
    SendRetried,    \* a send may be repeated after its answer was lost
    StoreMayFail,   \* a write of the intent may throw
    Resubmits,      \* a buy, simulated, with skipPreflight: false
    NoTx,           \* no transaction
    NoIntent        \* no settings row for the key

ASSUME CallAssumption ==
    /\ ProcessOf \in [Call -> Process]
    /\ FingerprintOf \in [Call -> Fingerprint]
ASSUME BoundAssumption ==
    /\ MaxAttempts \in Nat \ {0}
    /\ MaxHeight \in Nat /\ ValidFor \in Nat /\ HashAge \in Nat
ASSUME FlagAssumption ==
    {ResumeWaits, OneNode, SendRetried, StoreMayFail, Resubmits} \subseteq BOOLEAN

Tx == [ attempt   : 1..MaxAttempts,
        requoted  : BOOLEAN,
        lastValid : ValidFor..(MaxHeight + ValidFor) ]

ASSUME NoTxAssumption == NoTx \notin Tx

Status == {"none", "confirmed", "failed", "unresolved"}
Terminal == {"confirmed", "failed"}

Intent == [ fingerprint : Fingerprint,
            submissions : SUBSET Tx,
            last        : Tx \cup {NoTx},   \* submissions.at(-1)
            result      : Status ]

ASSUME NoIntentAssumption == NoIntent \notin Intent

ExecutionStatus == {"none", "submitted", "confirmed", "failed"}

\* none: no leader has it; inflight: it may still be processed;
\* procOk/procErr: in a block that is not confirmed; ok/err: confirmed.
TxStatus == {"none", "inflight", "procOk", "procErr", "ok", "err"}

PC == {"idle", "queued", "build", "create", "record", "send", "confirm",
       "height", "expiry", "absence", "recheck", "lastExpiry",
       "lastAbsence", "save"}

Job == [ pc       : PC,
         tx       : Tx \cup {NoTx},        \* the submission being settled
         attempt  : 0..MaxAttempts,
         again    : BOOLEAN,               \* the attempt is submitted again
         resuming : BOOLEAN,               \* in resumeTrade
         result   : Status ]               \* to be stored and returned

IdleJob == [ pc |-> "idle", tx |-> NoTx, attempt |-> 0, again |-> FALSE,
             resuming |-> FALSE, result |-> "none" ]

VARIABLES
    intent,     \* the settings row of the key
    execution,  \* execution[t]: status of the executions row of t
    queue,      \* queue[p]: the wallet's chain of pending trades in p
    job,        \* job[c]: where call c is
    told,       \* told[c]: what the last call of c answered
    net,        \* net[t]: what the cluster has done with t
    height,     \* the tip's block height
    final       \* the finalized block height

vars == <<intent, execution, queue, job, told, net, height, final>>
durable == <<intent, execution>>
cluster == <<net, height, final>>

-----------------------------------------------------------------------------
(* Helpers *)

Goto(c, label) == job' = [job EXCEPT ![c].pc = label]

SaveNext(c, result) ==
    job' = [job EXCEPT ![c].pc = "save", ![c].result = result]

SetExecution(t, status) == execution' = [execution EXCEPT ![t] = status]

\* Slip: a finished call keeps its place in the queue.
ReturnKeepsTurn(c, answer) ==
    /\ job' = [job EXCEPT ![c] = IdleJob]
    /\ told' = [told EXCEPT ![c] = answer]
    /\ UNCHANGED queue

Return(c, answer) ==
    /\ job' = [job EXCEPT ![c] = IdleJob]
    /\ told' = [told EXCEPT ![c] = answer]
    /\ queue' = [queue EXCEPT ![ProcessOf[c]] =
                    IF @ # <<>> /\ Head(@) = c THEN Tail(@) ELSE @]

\* The bytes leave for a leader, or get lost.
Sent(t) == net' \in {net, [net EXCEPT ![t] = IF @ = "none" THEN "inflight" ELSE @]}

\* Slip: a processed status is taken for a confirmed one.
ConfirmedViewsProcessed(t) ==
    {"none"} \cup (IF net[t] \in {"procOk", "ok"} THEN {"ok"} ELSE
                   IF net[t] \in {"procErr", "err"} THEN {"err"} ELSE {})

\* Answers at confirmed commitment; a lagging node may not have it yet.
ConfirmedViews(t) ==
    {"none"} \cup (IF net[t] \in {"ok", "err"} THEN {net[t]} ELSE {})

\* An execution at any commitment is in the status history.
InHistory(t) == net[t] \in {"procOk", "procErr", "ok", "err"}

Operating(c) == job[c].pc \notin {"idle", "queued"} /\ ~job[c].resuming

\* Slip: a stored result is not trusted, and settled again.
StoredResultIgnored(i) == FALSE

StoredResult(i) == i.result \in Terminal

\* resumeTrade up to its first await: it returns a stored result, gives up on
\* an intent without a signature, or settles the last signature.
Resume(c) ==
    \/ /\ StoredResult(intent)
       /\ Return(c, intent.result)
    \/ /\ ~StoredResult(intent) /\ intent.last = NoTx
       /\ Return(c, "unresolved")
    \/ /\ ~StoredResult(intent) /\ intent.last # NoTx
       /\ job' = [job EXCEPT ![c] = [IdleJob EXCEPT !.pc = "recheck",
                                                    !.tx = intent.last,
                                                    !.resuming = TRUE]]
       /\ told' = [told EXCEPT ![c] = "none"]
       /\ UNCHANGED queue

-----------------------------------------------------------------------------
(* runReliableTrade *)

ClaimTurn(c) == Head(queue[ProcessOf[c]]) = c

RunReliableTrade(c) ==
    /\ job[c].pc = "idle"
    /\ job' = [job EXCEPT ![c] = [IdleJob EXCEPT !.pc = "queued"]]
    /\ told' = [told EXCEPT ![c] = "none"]
    /\ queue' = [queue EXCEPT ![ProcessOf[c]] = Append(@, c)]
    /\ UNCHANGED <<durable, cluster>>

\* Slip: a key reserved by a call that has not signed yet is taken over.
KeyFreeUntilSigned ==
    IF intent = NoIntent THEN TRUE ELSE intent.last = NoTx

KeyFree == intent = NoIntent

\* The insert of the unique key decides which call operates.
ClaimIntent(c) ==
    /\ job[c].pc = "queued"
    /\ ClaimTurn(c)
    /\ \/ /\ KeyFree
          /\ intent' = [ fingerprint |-> FingerprintOf[c], submissions |-> {},
                         last |-> NoTx, result |-> "none" ]
          /\ job' = [job EXCEPT ![c].pc = "build", ![c].attempt = 1]
          /\ UNCHANGED <<queue, told>>
       \/ /\ ~KeyFree
          /\ intent.fingerprint = FingerprintOf[c]
          /\ Resume(c)
          /\ UNCHANGED intent
       \/ /\ ~KeyFree
          /\ intent.fingerprint # FingerprintOf[c]
          /\ Return(c, "none")
          /\ UNCHANGED intent
    /\ UNCHANGED <<execution, cluster>>

\* The operation threw an error that does not prove nothing was submitted.
Escalate(c) ==
    \/ intent.submissions # {} /\ Resume(c)
    \/ intent.submissions = {} /\ SaveNext(c, "unresolved") /\ UNCHANGED <<queue, told>>

\* TradeIntentStore.update: an unresolved result never replaces a resolved one.
\* Slip: the guard is missing.
ResolvedUnguarded(i, result) == [i EXCEPT !.result = result]

\* Slip: the receipt's status is stored as it is.
ResolvedRaw(i, result) ==
    [i EXCEPT !.result = IF result = "unresolved" THEN "submitted" ELSE result]

Resolved(i, result) ==
    IF i.result \in Terminal /\ result = "unresolved"
    THEN i
    ELSE [i EXCEPT !.result = result]

UpdateIntent(c) ==
    /\ job[c].pc = "save"
    /\ intent' = Resolved(intent, job[c].result)
    /\ Return(c, job[c].result)
    /\ UNCHANGED <<execution, cluster>>

\* The write throws: runReliableTrade swallows it, resumeTrade lets it out.
UpdateIntentFails(c) ==
    /\ StoreMayFail
    /\ job[c].pc = "save"
    /\ Return(c, IF job[c].resuming THEN "none" ELSE job[c].result)
    /\ UNCHANGED <<durable, cluster>>

-----------------------------------------------------------------------------
(* executeTradePlan and submitPlan *)

\* Refused for its price: the attempt is built once more, from a fresh quote.
SubmitAgain(c) ==
    /\ Resubmits /\ ~job[c].again
    /\ job' = [job EXCEPT ![c].pc = "build", ![c].again = TRUE]

\* Build, balance check, simulation and fee estimate have no effect but a
\* plan, a definitive error, or an error of the RPC.
BuildPlan(c) ==
    /\ job[c].pc = "build"
    /\ \/ /\ \E h \in 0..height, requoted \in {FALSE, job[c].again} :
              /\ height - h <= HashAge
              /\ h + ValidFor < MaxHeight
              /\ job' = [job EXCEPT ![c].pc = "create",
                                    ![c].tx = [ attempt   |-> job[c].attempt,
                                                requoted  |-> requoted,
                                                lastValid |-> h + ValidFor ]]
          /\ UNCHANGED <<queue, told>>
       \/ /\ SubmitAgain(c) \/ SaveNext(c, "failed")
          /\ UNCHANGED <<queue, told>>
       \/ Escalate(c)
    /\ UNCHANGED <<durable, cluster>>

CreateExecution(c) ==
    /\ job[c].pc = "create"
    /\ SetExecution(job[c].tx, "submitted")
    /\ Goto(c, "record")
    /\ UNCHANGED <<intent, queue, told, cluster>>

\* Slip: the intent is not told of a later attempt.
SubmissionAddedOnce(i, t) ==
    IF i.submissions # {} THEN i
    ELSE [i EXCEPT !.submissions = @ \cup {t}, !.last = t]

SubmissionAdded(i, t) ==
    IF t \in i.submissions THEN i
    ELSE [i EXCEPT !.submissions = @ \cup {t}, !.last = t]

RecordSubmission(c) ==
    /\ job[c].pc = "record"
    /\ \/ /\ intent' = SubmissionAdded(intent, job[c].tx)
          /\ Goto(c, "send")
          /\ UNCHANGED <<queue, told>>
       \/ /\ StoreMayFail
          /\ Escalate(c)
          /\ UNCHANGED intent
    /\ UNCHANGED <<execution, cluster>>

\* The sender takes the bytes, or fails in a way that leaves their fate open:
\* fallback senders and rebroadcasts repeat the same bytes, and the
\* submission is settled.  Or the error is one that counts as definitive, and
\* the attempt ends here or is submitted again.
Broadcast(c) ==
    /\ job[c].pc = "send"
    /\ \/ /\ Sent(job[c].tx)
          /\ Goto(c, "confirm")
          /\ UNCHANGED execution
       \/ /\ IF SendRetried THEN Sent(job[c].tx) ELSE UNCHANGED net
          /\ SetExecution(job[c].tx, "failed")
          /\ SubmitAgain(c) \/ SaveNext(c, "failed")
    /\ UNCHANGED <<intent, queue, told, height, final>>

-----------------------------------------------------------------------------
(* settleSubmission, for the operation and for resumeTrade *)

\* An expired, unobserved submission fails, and only then is replaced.
Replace(c) ==
    IF ~job[c].resuming /\ job[c].attempt < MaxAttempts
    THEN job' = [job EXCEPT ![c].pc = "build", ![c].attempt = @ + 1,
                            ![c].again = FALSE]
    ELSE SaveNext(c, "failed")

\* The deadline passes, or the caller asked not to wait for confirmation.
SettlementTimeout(c) ==
    /\ job[c].pc = "confirm"
    /\ SetExecution(job[c].tx, "submitted")
    /\ IF job[c].resuming THEN Goto(c, "lastExpiry")
                          ELSE SaveNext(c, "unresolved")
    /\ UNCHANGED <<intent, queue, told, cluster>>

\* Slip: a program failure starts a new attempt.
ConfirmSliceRetries(c) ==
    LET t == job[c].tx IN
    /\ job[c].pc = "confirm"
    /\ \E view \in ConfirmedViews(t) :
        \/ view = "ok"   /\ SetExecution(t, "confirmed") /\ SaveNext(c, "confirmed")
        \/ view = "err"  /\ SetExecution(t, "failed") /\ Replace(c)
        \/ view = "none" /\ SetExecution(t, "submitted") /\ Goto(c, "height")
    /\ UNCHANGED <<intent, queue, told, cluster>>

\* One slice of confirmSubmission; an error of the RPC repeats the slice.
ConfirmSlice(c) ==
    LET t == job[c].tx IN
    /\ job[c].pc = "confirm"
    /\ \E view \in ConfirmedViews(t) :
        \/ view = "ok"   /\ SetExecution(t, "confirmed") /\ SaveNext(c, "confirmed")
        \/ view = "err"  /\ SetExecution(t, "failed") /\ SaveNext(c, "failed")
        \/ view = "none" /\ SetExecution(t, "submitted") /\ Goto(c, "height")
    /\ UNCHANGED <<intent, queue, told, cluster>>

\* The tip decides between another rebroadcast and the inspection of expiry.
CheckHeight(c) ==
    /\ job[c].pc = "height"
    /\ \E seen \in 0..height :
        \/ /\ seen <= job[c].tx.lastValid
           /\ Sent(job[c].tx)
           /\ Goto(c, "confirm")
        \/ /\ seen > job[c].tx.lastValid
           /\ Goto(c, "expiry")
           /\ UNCHANGED net
    /\ UNCHANGED <<durable, queue, told, height, final>>

\* inspectExpiredSubmission asks for the finalized height ...
ExpiryHeights == 0..final

InspectExpiry(c) ==
    /\ \/ /\ job[c].pc = "expiry"
          /\ \E seen \in ExpiryHeights :
              Goto(c, IF seen > job[c].tx.lastValid THEN "absence" ELSE "confirm")
       \/ /\ job[c].pc = "lastExpiry"
          /\ \E seen \in ExpiryHeights :
              IF seen > job[c].tx.lastValid THEN Goto(c, "lastAbsence")
                                            ELSE SaveNext(c, "unresolved")
    /\ UNCHANGED <<durable, queue, told, cluster>>

\* Slip: expiry alone is taken for absence.
MayLookAbsentAlways(t) == TRUE

\* ... and then for the signature: a node that has finalized past lastValid
\* knows every execution of it, another node may not.
MayLookAbsent(t) == OneNode => ~InHistory(t)

\* The signature is observed, or a request fails; or it is absent.
InspectAbsence(c) ==
    LET t == job[c].tx IN
    /\ job[c].pc = "absence"
    /\ \/ /\ Goto(c, "confirm")
          /\ UNCHANGED execution
       \/ /\ MayLookAbsent(t)
          /\ SetExecution(t, "failed")
          /\ Replace(c)
    /\ UNCHANGED <<intent, queue, told, cluster>>

-----------------------------------------------------------------------------
(* resumeTrade *)

ResumeTrade(c) ==
    /\ job[c].pc = "idle"
    /\ ResumeWaits => \A d \in Call : ~Operating(d)
    /\ \/ intent = NoIntent /\ Return(c, "none")
       \/ intent # NoIntent /\ Resume(c)
    /\ UNCHANGED <<durable, cluster>>

\* Slip: a resume only looks, and never settles.
RecheckOnly(c) ==
    LET t == job[c].tx IN
    /\ job[c].pc = "recheck"
    /\ \E view \in ConfirmedViews(t) :
        \/ view = "ok"  /\ SetExecution(t, "confirmed") /\ SaveNext(c, "confirmed")
        \/ view = "err" /\ SetExecution(t, "failed") /\ SaveNext(c, "failed")
        \/ view = "none" /\ SetExecution(t, "submitted") /\ SaveNext(c, "unresolved")
    /\ UNCHANGED <<intent, queue, told, cluster>>

\* One second of confirmSignature; then the stored bytes are settled, unless
\* they do not match the journal.
RecheckSignature(c) ==
    LET t == job[c].tx IN
    /\ job[c].pc = "recheck"
    /\ \E view \in ConfirmedViews(t) :
        \/ view = "ok"  /\ SetExecution(t, "confirmed") /\ SaveNext(c, "confirmed")
        \/ view = "err" /\ SetExecution(t, "failed") /\ SaveNext(c, "failed")
        \/ /\ view = "none"
           /\ SetExecution(t, "submitted") \/ UNCHANGED execution
           /\ Goto(c, "confirm") \/ Goto(c, "lastExpiry")
    /\ UNCHANGED <<intent, queue, told, cluster>>

LastAbsence(c) ==
    LET t == job[c].tx IN
    /\ job[c].pc = "lastAbsence"
    /\ \/ SaveNext(c, "unresolved")
       \/ MayLookAbsent(t) /\ SaveNext(c, "failed")
    /\ UNCHANGED <<durable, queue, told, cluster>>

-----------------------------------------------------------------------------
(* The death of a process, at any await *)

Crash(p) ==
    /\ \E c \in Call : ProcessOf[c] = p /\ job[c].pc # "idle"
    /\ job' = [c \in Call |-> IF ProcessOf[c] = p THEN IdleJob ELSE job[c]]
    /\ queue' = [queue EXCEPT ![p] = <<>>]
    /\ UNCHANGED <<durable, told, cluster>>

CallStep(c) ==
    \/ ClaimIntent(c) \/ BuildPlan(c) \/ CreateExecution(c)
    \/ RecordSubmission(c) \/ Broadcast(c) \/ ConfirmSlice(c)
    \/ SettlementTimeout(c) \/ CheckHeight(c) \/ InspectExpiry(c)
    \/ InspectAbsence(c) \/ RecheckSignature(c) \/ LastAbsence(c)
    \/ UpdateIntent(c) \/ UpdateIntentFails(c)

-----------------------------------------------------------------------------
(* The cluster *)

SetNet(t, from, to) ==
    /\ net[t] = from
    /\ net' = [net EXCEPT ![t] = to]
    /\ UNCHANGED <<durable, queue, job, told, height, final>>

Tick ==
    /\ height < MaxHeight
    /\ height' = height + 1
    /\ UNCHANGED <<durable, queue, job, told, net, final>>

Unsettled(t) == net[t] \in {"procOk", "procErr"}

\* A block is final once what it executed is confirmed.
Finalize ==
    /\ final < height
    /\ \A t \in Tx : Unsettled(t) => final + 1 < t.lastValid
    /\ final' = final + 1
    /\ UNCHANGED <<durable, queue, job, told, net, height>>

\* A fork may be shorter than the tip seen so far: only finality closes the
\* window of a blockhash.
Execute(t) ==
    /\ final < t.lastValid
    /\ SetNet(t, "inflight", "procOk") \/ SetNet(t, "inflight", "procErr")

Confirm(t) == SetNet(t, "procOk", "ok") \/ SetNet(t, "procErr", "err")

DropFork(t) ==
    SetNet(t, "procOk", "inflight") \/ SetNet(t, "procErr", "inflight")

ClusterStep ==
    \/ Tick
    \/ Finalize
    \/ \E t \in Tx : Execute(t) \/ Confirm(t) \/ DropFork(t)

-----------------------------------------------------------------------------

Init ==
    /\ intent = NoIntent
    /\ execution = [t \in Tx |-> "none"]
    /\ queue = [p \in Process |-> <<>>]
    /\ job = [c \in Call |-> IdleJob]
    /\ told = [c \in Call |-> "none"]
    /\ net = [t \in Tx |-> "none"]
    /\ height = 0
    /\ final = 0

Next ==
    \/ \E c \in Call : RunReliableTrade(c) \/ ResumeTrade(c) \/ CallStep(c)
    \/ \E p \in Process : Crash(p)
    \/ ClusterStep

Spec == Init /\ [][Next]_vars
-----------------------------------------------------------------------------
(* Fairness of a caller that keeps resuming the key, on a cluster that      *)
(* keeps working.  Crashes may go on for ever, so an await is survived if    *)
(* it is reached again and again.                                            *)

\* The node asked has caught up with a confirmed outcome.
LearnsOutcome(c) ==
    (ConfirmSlice(c) \/ RecheckSignature(c)) /\ job'[c].pc = "save"

\* The node asked has seen the blockhash expire.
NoticesTip(c) == CheckHeight(c) /\ job'[c].pc = "expiry"
NoticesExpiry(c) ==
    InspectExpiry(c) /\ job'[c].pc \in {"absence", "lastAbsence"}
NoticesAbsence(c) ==
    /\ InspectAbsence(c) \/ LastAbsence(c)
    /\ job'[c].pc \in {"build", "save"} /\ job'[c].result # "unresolved"

\* The process lives long enough to store the outcome it has found.
StoresOutcome(c) == UpdateIntent(c) /\ job[c].result \in Terminal

Fairness ==
    /\ WF_vars(Tick)
    /\ WF_vars(Finalize)
    /\ SF_vars(\E t \in Tx : Confirm(t))
    /\ \A c \in Call :
        /\ SF_vars(ResumeTrade(c))
        /\ WF_vars(CallStep(c))
        /\ SF_vars(RecheckSignature(c))
        /\ SF_vars(ConfirmSlice(c))
        /\ SF_vars(LearnsOutcome(c))
        /\ SF_vars(NoticesTip(c))
        /\ SF_vars(NoticesExpiry(c))
        /\ SF_vars(NoticesAbsence(c))
        /\ SF_vars(StoresOutcome(c))

FairSpec == Spec /\ Fairness

-----------------------------------------------------------------------------
(* Properties *)

TypeOK ==
    /\ intent \in Intent \cup {NoIntent}
    /\ execution \in [Tx -> ExecutionStatus]
    /\ queue \in [Process -> Seq(Call)]
    /\ job \in [Call -> Job]
    /\ told \in [Call -> Status]
    /\ net \in [Tx -> TxStatus]
    /\ height \in 0..MaxHeight
    /\ final \in 0..MaxHeight

\* The transaction has traded or still may.
Alive(t) ==
    \/ net[t] = "ok"
    \/ Unsettled(t)
    \/ net[t] = "inflight" /\ final < t.lastValid

\* A key never has two transactions that have traded or may still trade, over
\* all its calls, processes, attempts and restarts.
OneTradeAlive == \A t, u \in Tx : Alive(t) /\ Alive(u) => t = u

\* Every transaction that left a process is in the intent and the executions
\* journal ("every signed generation is journaled before broadcasting").
JournaledBeforeBroadcast ==
    \A t \in Tx : net[t] # "none" =>
        /\ intent # NoIntent
        /\ t \in intent.submissions
        /\ execution[t] # "none"

\* Once expired for good and in no block, a transaction is closed.
Closed(t) == final >= t.lastValid /\ ~InHistory(t)

\* A preflight refused it, and nothing of it is out there.
NeverLeft(t) == Resubmits /\ net[t] = "none"

\* A new transaction is journaled only when every earlier one is closed, or was
\* refused before it left: "any observed transaction, program failure, or
\* ambiguous RPC result prevents replacement".
ReplacedOnlyWhenClosed ==
    [][ intent # NoIntent /\ intent'.submissions # intent.submissions
          => \A t \in intent.submissions : Closed(t) \/ NeverLeft(t) ]_vars

\* "confirmed", in the intent, the journal or an answer, is the truth.
ConfirmedIsTrue ==
    /\ intent # NoIntent /\ intent.result = "confirmed" =>
           \E t \in intent.submissions : net[t] = "ok"
    /\ \A t \in Tx : execution[t] = "confirmed" => net[t] = "ok"
    /\ \A c \in Call : told[c] = "confirmed" => \E t \in Tx : net[t] = "ok"

\* "failed", in the intent or in an answer, means that nothing of this key
\* has traded or ever will: the caller may trade again under a new key.
FailedIsFinal ==
    (intent # NoIntent /\ intent.result = "failed") \/ (\E c \in Call : told[c] = "failed")
        => \A t \in Tx : ~Alive(t)

\* A resolved result is never changed or taken back, and nothing is journaled
\* after it.
ResolvedStays ==
    [][ intent # NoIntent /\ intent.result \in Terminal => intent' = intent ]_vars

\* Nobody waits behind a call that has returned, thrown or been refused: the
\* head of a wallet's queue is a call that will still give up its turn.
HeadIsPending ==
    \A p \in Process : queue[p] # <<>> => job[Head(queue[p])].pc # "idle"

\* The abstract promise, for the one trade of the key.
Abstract == INSTANCE PayOnce WITH
    Alloc    <- {"trade"},
    Payer    <- Tx,
    paidBy   <- [a \in {"trade"} |-> {t \in Tx : net[t] = "ok"}],
    reported <- IF intent # NoIntent /\ intent.result = "confirmed"
                THEN {"trade"} ELSE {}

TradesOnce == Abstract!Spec

\* A submitted trade is resolved by resuming it.
SubmittedIsResolved ==
    intent # NoIntent /\ intent.last # NoTx
        ~> intent # NoIntent /\ intent.result \in Terminal
=============================================================================
