------------------------- MODULE TradeSettlementProofs -------------------------
(***************************************************************************)
(* What a trade under an intentKey guarantees, for every number of calls,  *)
(* processes, attempts and heights.                                        *)
(*                                                                         *)
(* In any mode: what is sent is journaled first, "confirmed" is the truth, *)
(* and nobody waits for a call that is over.  If one node answers the      *)
(* three requests of an expiry inspection and refused buys are not         *)
(* submitted again: at most one transaction of the key trades.  If one     *)
(* process uses the key, its callers do not resume it while it operates,   *)
(* sends are not repeated and the intent can be written: the same, also    *)
(* when refused buys are submitted again, "failed" is final, and the key   *)
(* implements PayOnce.                                                     *)
(***************************************************************************)
EXTENDS TradeSettlement, TLAPS

USE CallAssumption, BoundAssumption, FlagAssumption, NoTxAssumption,
    NoIntentAssumption

-----------------------------------------------------------------------------
(* The steps of a call, by kind *)

Settling == {"confirm", "height", "expiry", "absence", "recheck", "lastExpiry",
             "lastAbsence"}

\* The awaits behind which the submission of a call is in intent and journal.
Journaled == Settling \cup {"send"}

Moves(c, j) == job' = [job EXCEPT ![c] = j] /\ UNCHANGED <<queue, told>>

\* It settles the same submission.
Same(c, j) ==
    /\ j.tx = job[c].tx /\ j.attempt = job[c].attempt
    /\ j.again = job[c].again /\ j.resuming = job[c].resuming

Notes(c, status) == execution' = [execution EXCEPT ![job[c].tx] = status]

\* The first operation on the key.
Claims(c) ==
    /\ job[c].pc = "queued" /\ ClaimTurn(c) /\ KeyFree
    /\ intent' = [ fingerprint |-> FingerprintOf[c], submissions |-> {},
                   last |-> NoTx, result |-> "none" ]
    /\ \E j \in Job : /\ Moves(c, j) /\ j.pc = "build" /\ j.attempt = 1
                      /\ ~j.resuming
    /\ UNCHANGED <<execution, cluster>>

\* The journal is settled, from the last signature.
Rechecks(c) ==
    /\ intent # NoIntent /\ intent.last # NoTx /\ ~StoredResult(intent)
    /\ job[c].pc \in {"idle", "queued", "build", "record"}
    /\ job[c].pc = "queued" => ClaimTurn(c)
    /\ job[c].pc = "idle" /\ ResumeWaits => \A d \in Call : ~Operating(d)
    /\ \E j \in Job : /\ job' = [job EXCEPT ![c] = j]
                      /\ j.pc = "recheck" /\ j.tx = intent.last /\ j.resuming
    /\ told' = [told EXCEPT ![c] = "none"]
    /\ UNCHANGED <<durable, queue, cluster>>

\* Without a write: a stored result, "unresolved", or an error.
Answers(c, a) ==
    /\ job[c].pc \in {"idle", "queued", "build", "record", "save"}
    /\ job[c].pc = "queued" => ClaimTurn(c)
    /\ a \in Terminal =>
          \/ job[c].pc = "save" /\ a = job[c].result /\ StoreMayFail
          \/ intent # NoIntent /\ a = intent.result
    /\ a \in Status
    /\ Return(c, a)
    /\ UNCHANGED <<durable, cluster>>

Signs(c) ==
    /\ job[c].pc = "build"
    /\ \E j \in Job : /\ Moves(c, j) /\ j.pc = "create" /\ j.tx \in Tx
                      /\ j.tx.attempt = job[c].attempt
                      /\ j.attempt = job[c].attempt /\ j.again = job[c].again
                      /\ j.resuming = job[c].resuming
    /\ UNCHANGED <<durable, cluster>>

Creates(c) ==
    /\ job[c].pc = "create" /\ Notes(c, "submitted")
    /\ \E j \in Job : Moves(c, j) /\ Same(c, j) /\ j.pc = "record"
    /\ UNCHANGED <<intent, cluster>>

Records(c) ==
    /\ job[c].pc = "record"
    /\ intent' = SubmissionAdded(intent, job[c].tx)
    /\ \E j \in Job : Moves(c, j) /\ Same(c, j) /\ j.pc = "send"
    /\ UNCHANGED <<execution, cluster>>

\* It goes on settling its submission, perhaps sending it again.
Waits(c) ==
    /\ job[c].pc \in Journaled
    /\ \E j \in Job : /\ Moves(c, j) /\ Same(c, j) /\ j.pc \in Settling
                      /\ j.pc \in {"absence", "lastAbsence"} =>
                            final > job[c].tx.lastValid
    /\ execution' = execution \/ Notes(c, "submitted")
    /\ Sent(job[c].tx)
    /\ UNCHANGED <<intent, height, final>>

\* The submission is given up, and the next attempt begins.
Rebuilds(c) ==
    /\ job[c].pc = "absence" /\ MayLookAbsent(job[c].tx)
    /\ ~job[c].resuming /\ job[c].attempt < MaxAttempts
    /\ Notes(c, "failed")
    /\ \E j \in Job : /\ Moves(c, j) /\ j.pc = "build" /\ ~j.resuming
                      /\ j.attempt = job[c].attempt + 1
    /\ UNCHANGED <<intent, cluster>>

\* The attempt is refused for its price, and built again.
Resubmission(c) ==
    /\ Resubmits /\ ~job[c].again
    /\ \/ job[c].pc = "build" /\ execution' = execution /\ net' = net
       \/ /\ job[c].pc = "send" /\ Notes(c, "failed")
          /\ Sent(job[c].tx) /\ (~SendRetried => net' = net)
    /\ \E j \in Job : /\ Moves(c, j) /\ j.pc = "build" /\ ~j.resuming
                      /\ j.attempt = job[c].attempt /\ j.again
    /\ UNCHANGED <<intent, height, final>>

\* A result is reached: from a confirmed transaction, ...
EndsWell(c) ==
    /\ job[c].pc \in {"confirm", "recheck"} /\ net[job[c].tx] = "ok"
    /\ Notes(c, "confirmed") /\ net' = net

\* ... from a failure, an absence, an error before anything was sent, ...
EndsBadly(c) ==
    /\ \/ /\ job[c].pc \in {"confirm", "recheck"} /\ net[job[c].tx] = "err"
          /\ net' = net
       \/ /\ job[c].pc \in {"absence", "lastAbsence"}
          /\ MayLookAbsent(job[c].tx) /\ net' = net
       \/ job[c].pc = "build" /\ net' = net
       \/ /\ job[c].pc = "send"
          /\ Sent(job[c].tx) /\ (~SendRetried => net' = net)
    /\ execution' = execution \/ (job[c].pc \in Journaled /\ Notes(c, "failed"))

\* ... or it is left open.
EndsOpen(c) ==
    /\ job[c].pc \in {"build", "record"} \cup Settling
    /\ execution' = execution \/ (job[c].pc \in Settling /\ Notes(c, "submitted"))
    /\ net' = net

Ends(c, r) ==
    /\ \E j \in Job : Moves(c, j) /\ Same(c, j) /\ j.pc = "save" /\ j.result = r
    /\ \/ r = "confirmed" /\ EndsWell(c)
       \/ r = "failed" /\ EndsBadly(c)
       \/ r = "unresolved" /\ EndsOpen(c)
    /\ UNCHANGED <<intent, height, final>>

Kind(c) ==
    \/ RunReliableTrade(c) \/ Claims(c) \/ Rechecks(c)
    \/ \E a \in Status : Answers(c, a)
    \/ Signs(c) \/ Creates(c) \/ Records(c) \/ Waits(c) \/ Rebuilds(c)
    \/ Resubmission(c)
    \/ \E r \in Status : Ends(c, r)
    \/ UpdateIntent(c)

-----------------------------------------------------------------------------
(* The invariant in any mode *)

Entered(t) ==
    intent # NoIntent /\ t \in intent.submissions /\ execution[t] # "none"

\* What a call needs is there, and its transaction is in the journal as soon
\* as it may be sent.
JobOK(c) ==
    /\ job[c].pc \notin {"idle", "queued"} => intent # NoIntent
    /\ job[c].pc \in {"queued", "build", "create", "record", "send"} =>
          ~job[c].resuming
    /\ job[c].pc = "build" => job[c].attempt \in 1..MaxAttempts
    /\ job[c].pc \in {"create", "record", "send"} =>
          job[c].tx \in Tx /\ job[c].tx.attempt = job[c].attempt
    /\ job[c].pc = "record" => execution[job[c].tx] # "none"
    /\ job[c].pc \in Journaled => job[c].tx \in Tx /\ Entered(job[c].tx)
    /\ job[c].pc = "save" /\ job[c].result = "confirmed" =>
          \E t \in intent.submissions : net[t] = "ok"

JobInv == \A c \in Call : JobOK(c)

IntentInv ==
    intent # NoIntent =>
        /\ intent.last # NoTx => intent.last \in intent.submissions
        /\ \A t \in intent.submissions : execution[t] # "none"

SoundInv ==
    TypeOK /\ JobInv /\ IntentInv /\ JournaledBeforeBroadcast /\ ConfirmedIsTrue

-----------------------------------------------------------------------------
(* Every step of a call is of one of the kinds *)

LEMMA IntentType ==
    ASSUME NEW i \in Intent
    PROVE  /\ i.submissions \subseteq Tx /\ i.last \in Tx \cup {NoTx}
           /\ i.result \in Status /\ i # NoIntent
  BY DEF Intent

LEMMA JobType ==
    /\ IdleJob \in Job /\ IdleJob.pc = "idle"
    /\ \A j \in Job : /\ j.pc \in PC /\ j.tx \in Tx \cup {NoTx}
                      /\ j.attempt \in 0..MaxAttempts /\ j.again \in BOOLEAN
                      /\ j.resuming \in BOOLEAN /\ j.result \in Status
<1>1. IdleJob \in Job
  BY DEF IdleJob, Job, PC, Status
<1> QED
  BY <1>1 DEF IdleJob, Job

LEMMA GotoMoves ==
    ASSUME TypeOK, NEW c \in Call, NEW l \in PC, Goto(c, l), UNCHANGED <<queue, told>>
    PROVE  \E j \in Job : /\ Moves(c, j) /\ Same(c, j) /\ j.pc = l
<1> DEFINE j == [job[c] EXCEPT !.pc = l]
<1>1. job' = [job EXCEPT ![c] = j]
  BY DEF Goto
<1>2. job[c] \in Job
  BY DEF TypeOK
<1>3. j \in Job /\ j.pc = l /\ Same(c, j)
  BY <1>2 DEF Job, Same
<1> QED
  BY <1>1, <1>3 DEF Moves

LEMMA SaveMoves ==
    ASSUME TypeOK, NEW c \in Call, NEW r \in Status, SaveNext(c, r),
           UNCHANGED <<queue, told>>
    PROVE  \E j \in Job : Moves(c, j) /\ Same(c, j) /\ j.pc = "save" /\ j.result = r
<1> DEFINE j == [job[c] EXCEPT !.pc = "save", !.result = r]
<1>1. job' = [job EXCEPT ![c] = j]
  BY DEF SaveNext, TypeOK
<1>2. job[c] \in Job
  BY DEF TypeOK
<1>3. j \in Job /\ j.pc = "save" /\ j.result = r /\ Same(c, j)
  BY <1>2 DEF Job, Same, PC
<1> QED
  BY <1>1, <1>3 DEF Moves

BuildNext(c, a, again) ==
    job' = [job EXCEPT ![c].pc = "build", ![c].attempt = a, ![c].again = again]

LEMMA BuildMoves ==
    ASSUME TypeOK, NEW c \in Call, NEW a \in 0..MaxAttempts, NEW g \in BOOLEAN,
           BuildNext(c, a, g), UNCHANGED <<queue, told>>
    PROVE  \E j \in Job : /\ Moves(c, j) /\ j.pc = "build" /\ j.attempt = a
                          /\ j.again = g /\ j.resuming = job[c].resuming
<1> DEFINE j == [job[c] EXCEPT !.pc = "build", !.attempt = a, !.again = g]
<1>1. job' = [job EXCEPT ![c] = j]
  BY DEF TypeOK, BuildNext
<1>2. job[c] \in Job
  BY DEF TypeOK
<1>3. /\ j \in Job /\ j.pc = "build" /\ j.attempt = a /\ j.again = g
      /\ j.resuming = job[c].resuming
  BY <1>2 DEF Job, PC
<1> QED
  BY <1>1, <1>3 DEF Moves

\* What is refused for its price is taken up again, at most once per attempt.
LEMMA AgainMoves ==
    ASSUME TypeOK, NEW c \in Call, SubmitAgain(c), ~job[c].resuming,
           UNCHANGED <<queue, told>>
    PROVE  /\ Resubmits /\ ~job[c].again
           /\ \E j \in Job : /\ Moves(c, j) /\ j.pc = "build" /\ ~j.resuming
                             /\ j.attempt = job[c].attempt /\ j.again
<1> DEFINE a == job[c].attempt
<1>1. a \in 0..MaxAttempts /\ job[c] \in Job
  BY JobType DEF TypeOK
<1>2. BuildNext(c, a, TRUE)
  <2>1. [job[c] EXCEPT !.pc = "build", !.attempt = a, !.again = TRUE]
          = [job[c] EXCEPT !.pc = "build", !.again = TRUE]
    BY <1>1 DEF Job
  <2> QED
    BY <1>1, <2>1 DEF SubmitAgain, BuildNext, TypeOK
<1>3. \E j \in Job : /\ Moves(c, j) /\ j.pc = "build" /\ j.attempt = a
                     /\ j.again = TRUE /\ j.resuming = job[c].resuming
  BY <1>1, <1>2, BuildMoves
<1> QED
  BY <1>3 DEF SubmitAgain

LEMMA ResumeKind ==
    ASSUME SoundInv, NEW c \in Call, Resume(c), intent # NoIntent,
           UNCHANGED <<durable, cluster>>,
           job[c].pc \in {"idle", "queued", "build", "record"},
           job[c].pc = "queued" => ClaimTurn(c),
           job[c].pc = "idle" /\ ResumeWaits => \A d \in Call : ~Operating(d)
    PROVE  Kind(c)
<1>1. intent \in Intent
  BY DEF SoundInv, TypeOK
<1>2. CASE StoredResult(intent) /\ Return(c, intent.result)
  <2>1. Answers(c, intent.result) /\ intent.result \in Status
    BY <1>1, <1>2, IntentType DEF Answers
  <2> QED
    BY <2>1 DEF Kind
<1>3. CASE ~StoredResult(intent) /\ intent.last = NoTx /\ Return(c, "unresolved")
  <2>1. Answers(c, "unresolved") /\ "unresolved" \in Status
    BY <1>3 DEF Answers, Status, Terminal
  <2> QED
    BY <2>1 DEF Kind
<1>4. CASE ~StoredResult(intent) /\ intent.last # NoTx
  <2> DEFINE j == [IdleJob EXCEPT !.pc = "recheck", !.tx = intent.last,
                                  !.resuming = TRUE]
  <2>1. /\ job' = [job EXCEPT ![c] = j] /\ told' = [told EXCEPT ![c] = "none"]
        /\ UNCHANGED queue
    BY <1>4 DEF Resume
  <2>2. IdleJob \in Job /\ intent.last \in Tx \cup {NoTx}
    BY <1>1, IntentType, JobType
  <2>3. j \in Job /\ j.pc = "recheck" /\ j.tx = intent.last /\ j.resuming = TRUE
    BY <2>2 DEF Job, PC
  <2>4. j.resuming
    BY <2>3
  <2> HIDE DEF j
  <2>5. Rechecks(c)
    BY <1>4, <2>1, <2>3, <2>4 DEF Rechecks
  <2> QED
    BY <2>5 DEF Kind
<1> QED
  BY <1>2, <1>3, <1>4 DEF Resume

LEMMA EscalateKind ==
    ASSUME SoundInv, NEW c \in Call, Escalate(c), UNCHANGED <<durable, cluster>>,
           job[c].pc \in {"build", "record"}
    PROVE  Kind(c)
<1>1. intent # NoIntent
  BY DEF SoundInv, JobInv, JobOK
<1>2. CASE Resume(c)
  BY <1>1, <1>2, ResumeKind
<1>3. CASE SaveNext(c, "unresolved") /\ UNCHANGED <<queue, told>>
  <2>1. \E j \in Job : /\ Moves(c, j) /\ Same(c, j) /\ j.pc = "save"
                       /\ j.result = "unresolved"
    BY <1>3, SaveMoves DEF SoundInv, Status
  <2>2. Ends(c, "unresolved")
    BY <2>1 DEF Ends, EndsOpen, durable, cluster
  <2> QED
    BY <2>2 DEF Kind, Status
<1> QED
  BY <1>2, <1>3 DEF Escalate

\* A receipt or a signature status at confirmed commitment is the truth.
LEMMA Views ==
    ASSUME NEW t, NEW v \in ConfirmedViews(t)
    PROVE  v = "none" \/ (v \in {"ok", "err"} /\ net[t] = v)
  BY DEF ConfirmedViews

LEMMA EndsKind ==
    ASSUME SoundInv, NEW c \in Call, NEW r \in Status, SaveNext(c, r),
           UNCHANGED <<intent, queue, told, height, final>>,
           \/ r = "confirmed" /\ EndsWell(c)
           \/ r = "failed" /\ EndsBadly(c)
           \/ r = "unresolved" /\ EndsOpen(c)
    PROVE  Kind(c)
<1>1. \E j \in Job : Moves(c, j) /\ Same(c, j) /\ j.pc = "save" /\ j.result = r
  BY SaveMoves DEF SoundInv
<1> QED
  BY <1>1 DEF Ends, Kind

LEMMA WaitsKind ==
    ASSUME SoundInv, NEW c \in Call, NEW l \in Settling, Goto(c, l),
           UNCHANGED <<intent, queue, told, height, final>>,
           job[c].pc \in Journaled, Sent(job[c].tx),
           execution' = execution \/ Notes(c, "submitted"),
           l \in {"absence", "lastAbsence"} => final > job[c].tx.lastValid
    PROVE  Kind(c)
<1>1. \E j \in Job : Moves(c, j) /\ Same(c, j) /\ j.pc = l
  BY GotoMoves DEF SoundInv, Settling, PC
<1> QED
  BY <1>1 DEF Waits, Kind

\* The actions of the code, one by one.
LEMMA StepKinds ==
    ASSUME SoundInv, NEW c \in Call,
           RunReliableTrade(c) \/ ResumeTrade(c) \/ CallStep(c)
    PROVE  Kind(c)
<1> DEFINE t == job[c].tx
<1>0. /\ TypeOK /\ job[c] \in Job /\ job[c].tx \in Tx \cup {NoTx}
      /\ job[c].attempt \in 0..MaxAttempts /\ job[c].again \in BOOLEAN
      /\ job[c].resuming \in BOOLEAN /\ job[c].result \in Status
      /\ {"none", "confirmed", "failed", "unresolved"} \subseteq Status
      /\ job[c].pc \notin {"idle", "queued"} => intent # NoIntent
      /\ job[c].pc \in {"queued", "build", "create", "record", "send"} =>
            ~job[c].resuming
      /\ job[c].pc = "build" => job[c].attempt \in 1..MaxAttempts
      /\ job[c].pc \in Journaled => job[c].tx \in Tx
      /\ height \in 0..MaxHeight /\ final \in 0..MaxHeight
  BY JobType DEF SoundInv, TypeOK, JobInv, JobOK, Status
<1>1. CASE ResumeTrade(c)
  <2>1. CASE intent = NoIntent /\ Return(c, "none")
    <3>1. Answers(c, "none")
      BY <1>1, <2>1 DEF ResumeTrade, Answers, Terminal, Status
    <3> QED
      BY <1>0, <3>1 DEF Kind
  <2>2. CASE intent # NoIntent /\ Resume(c)
    BY <1>1, <2>2, ResumeKind DEF ResumeTrade
  <2> QED
    BY <1>1, <2>1, <2>2 DEF ResumeTrade
<1>2. CASE ClaimIntent(c)
  <2>1. CASE KeyFree
    <3> DEFINE j == [job[c] EXCEPT !.pc = "build", !.attempt = 1]
    <3>1. Moves(c, j)
      BY <1>0, <1>2, <2>1 DEF ClaimIntent, Moves, TypeOK
    <3>2. /\ j \in Job /\ j.pc = "build" /\ j.attempt = 1
          /\ j.resuming = job[c].resuming
      <4>1. 1 \in 0..MaxAttempts /\ job[c] \in Job
        BY <1>0
      <4> QED
        BY <4>1 DEF Job, PC
    <3>3. Claims(c)
      BY <1>0, <1>2, <2>1, <3>1, <3>2 DEF ClaimIntent, Claims
    <3> QED
      BY <3>3 DEF Kind
  <2>2. CASE ~KeyFree /\ Resume(c) /\ UNCHANGED intent
    BY <1>2, <2>2, ResumeKind DEF ClaimIntent, KeyFree, durable
  <2>3. CASE ~KeyFree /\ Return(c, "none") /\ UNCHANGED intent
    <3>1. Answers(c, "none")
      BY <1>2, <2>3 DEF ClaimIntent, Answers, Terminal, Status, durable
    <3> QED
      BY <1>0, <3>1 DEF Kind
  <2> QED
    BY <1>2, <2>1, <2>2, <2>3 DEF ClaimIntent
<1>3. CASE BuildPlan(c)
  <2>1. ASSUME NEW h \in 0..height, NEW q \in {FALSE, job[c].again},
               job' = [job EXCEPT ![c].pc = "create",
                                  ![c].tx = [ attempt   |-> job[c].attempt,
                                              requoted  |-> q,
                                              lastValid |-> h + ValidFor ]],
               UNCHANGED <<queue, told>>
        PROVE  Kind(c)
    <3> DEFINE u == [ attempt |-> job[c].attempt, requoted |-> q,
                      lastValid |-> h + ValidFor ]
               j == [job[c] EXCEPT !.pc = "create", !.tx = u]
    <3>1. job' = [job EXCEPT ![c] = j]
      BY <1>0, <2>1 DEF TypeOK
    <3>2. u \in Tx /\ u.attempt = job[c].attempt
      <4>1. h + ValidFor \in ValidFor..(MaxHeight + ValidFor)
        BY <1>0
      <4>2. q \in BOOLEAN
        BY <1>0
      <4>3. job[c].attempt \in 1..MaxAttempts
        BY <1>0, <1>3 DEF BuildPlan
      <4> QED
        BY <4>1, <4>2, <4>3 DEF Tx
    <3> HIDE DEF u
    <3>3. /\ j \in Job /\ j.pc = "create" /\ j.tx = u
          /\ j.attempt = job[c].attempt /\ j.again = job[c].again
          /\ j.resuming = job[c].resuming
      BY <1>0, <3>2 DEF Job, PC
    <3> HIDE DEF j
    <3>4. Signs(c)
      BY <1>3, <2>1, <3>1, <3>2, <3>3 DEF Signs, Moves, BuildPlan
    <3> QED
      BY <3>4 DEF Kind
  <2>2. CASE SaveNext(c, "failed") /\ UNCHANGED <<queue, told>>
    BY <1>0, <1>3, <2>2, EndsKind DEF BuildPlan, EndsBadly, durable, cluster
  <2>3. CASE Escalate(c)
    BY <1>3, <2>3, EscalateKind DEF BuildPlan
  <2>4. CASE SubmitAgain(c) /\ UNCHANGED <<queue, told>>
    <3>1. Resubmission(c)
      BY <1>0, <1>3, <2>4, AgainMoves DEF BuildPlan, Resubmission, durable, cluster
    <3> QED
      BY <3>1 DEF Kind
  <2> QED
    BY <1>3, <2>1, <2>2, <2>3, <2>4 DEF BuildPlan
<1>4. CASE CreateExecution(c)
  <2>1. \E j \in Job : Moves(c, j) /\ Same(c, j) /\ j.pc = "record"
    BY <1>0, <1>4, GotoMoves DEF CreateExecution, PC
  <2> QED
    BY <1>4, <2>1 DEF CreateExecution, Creates, Notes, SetExecution, Kind
<1>5. CASE RecordSubmission(c)
  <2>1. CASE /\ intent' = SubmissionAdded(intent, job[c].tx) /\ Goto(c, "send")
             /\ UNCHANGED <<queue, told>>
    <3>1. \E j \in Job : Moves(c, j) /\ Same(c, j) /\ j.pc = "send"
      BY <1>0, <2>1, GotoMoves DEF PC
    <3> QED
      BY <1>5, <2>1, <3>1 DEF RecordSubmission, Records, Kind
  <2>2. CASE Escalate(c) /\ UNCHANGED intent
    BY <1>5, <2>2, EscalateKind DEF RecordSubmission, durable
  <2> QED
    BY <1>5, <2>1, <2>2 DEF RecordSubmission
<1>6. CASE Broadcast(c)
  <2>1. CASE Sent(t) /\ Goto(c, "confirm") /\ UNCHANGED execution
    BY <1>6, <2>1, WaitsKind DEF Broadcast, Journaled, Settling
  <2>2. CASE /\ IF SendRetried THEN Sent(t) ELSE UNCHANGED net
             /\ SetExecution(t, "failed")
             /\ SubmitAgain(c) \/ SaveNext(c, "failed")
    <3>1. Sent(t) /\ (~SendRetried => net' = net)
      BY <2>2 DEF Sent
    <3>2. CASE SaveNext(c, "failed")
      <4>1. EndsBadly(c)
        BY <1>6, <2>2, <3>1 DEF Broadcast, EndsBadly, Notes, SetExecution, Journaled
      <4> QED
        BY <1>0, <1>6, <3>2, <4>1, EndsKind DEF Broadcast
    <3>3. CASE SubmitAgain(c)
      <4>1. Resubmission(c)
        BY <1>0, <1>6, <2>2, <3>1, <3>3, AgainMoves
           DEF Broadcast, Resubmission, Notes, SetExecution
      <4> QED
        BY <4>1 DEF Kind
    <3> QED
      BY <2>2, <3>2, <3>3
  <2> QED
    BY <1>6, <2>1, <2>2 DEF Broadcast
<1>7. CASE ConfirmSlice(c) \/ RecheckSignature(c)
  <2>1. /\ job[c].pc \in {"confirm", "recheck"}
        /\ UNCHANGED <<intent, queue, told, net, height, final>>
        /\ Sent(t)
    BY <1>7 DEF ConfirmSlice, RecheckSignature, cluster, Sent
  <2>2. CASE net[t] = "ok" /\ SetExecution(t, "confirmed") /\ SaveNext(c, "confirmed")
    BY <1>0, <2>1, <2>2, EndsKind DEF EndsWell, Notes, SetExecution
  <2>3. CASE net[t] = "err" /\ SetExecution(t, "failed") /\ SaveNext(c, "failed")
    BY <1>0, <2>1, <2>3, EndsKind
       DEF EndsBadly, Notes, SetExecution, Journaled, Settling
  <2>4. CASE /\ SetExecution(t, "submitted") \/ UNCHANGED execution
             /\ \/ Goto(c, "confirm") \/ Goto(c, "lastExpiry") \/ Goto(c, "height")
    BY <2>1, <2>4, WaitsKind DEF Notes, SetExecution, Journaled, Settling
  <2>5. PICK v \in ConfirmedViews(t) :
          \/ v = "ok" /\ SetExecution(t, "confirmed") /\ SaveNext(c, "confirmed")
          \/ v = "err" /\ SetExecution(t, "failed") /\ SaveNext(c, "failed")
          \/ /\ SetExecution(t, "submitted") \/ UNCHANGED execution
             /\ \/ Goto(c, "confirm") \/ Goto(c, "lastExpiry") \/ Goto(c, "height")
    BY <1>7 DEF ConfirmSlice, RecheckSignature
  <2> QED
    BY <2>2, <2>3, <2>4, <2>5, Views
<1>8. CASE SettlementTimeout(c)
  <2>1. /\ job[c].pc = "confirm" /\ Notes(c, "submitted") /\ Sent(t)
        /\ UNCHANGED <<intent, queue, told, net, height, final>>
    BY <1>8 DEF SettlementTimeout, Notes, SetExecution, cluster, Sent
  <2>2. CASE Goto(c, "lastExpiry")
    BY <2>1, <2>2, WaitsKind DEF Journaled, Settling
  <2>3. CASE SaveNext(c, "unresolved")
    BY <1>0, <2>1, <2>3, EndsKind DEF EndsOpen, Settling
  <2> QED
    BY <1>8, <2>2, <2>3 DEF SettlementTimeout
<1>9. CASE CheckHeight(c)
  <2>1. /\ job[c].pc = "height" /\ Sent(t)
        /\ UNCHANGED <<intent, execution, queue, told, height, final>>
        /\ Goto(c, "confirm") \/ Goto(c, "expiry")
    BY <1>9 DEF CheckHeight, durable, Sent
  <2> QED
    BY <2>1, WaitsKind DEF Journaled, Settling
<1>10. CASE InspectExpiry(c)
  <2>1. /\ job[c].pc \in {"expiry", "lastExpiry"} /\ Sent(t)
        /\ UNCHANGED <<intent, execution, queue, told, net, height, final>>
    BY <1>10 DEF InspectExpiry, durable, cluster, Sent
  <2>2. PICK seen \in 0..final :
          \/ Goto(c, IF seen > t.lastValid THEN "absence" ELSE "confirm")
          \/ IF seen > t.lastValid THEN Goto(c, "lastAbsence")
                                   ELSE SaveNext(c, "unresolved")
    BY <1>10 DEF InspectExpiry, ExpiryHeights
  <2>3. t.lastValid \in Nat
    BY <1>0, <2>1 DEF Journaled, Settling, Tx
  <2>4. seen > t.lastValid => final > t.lastValid
    BY <1>0, <2>3
  <2>5. CASE Goto(c, "confirm")
    BY <2>1, <2>5, WaitsKind DEF Journaled, Settling
  <2>6. CASE seen > t.lastValid /\ (Goto(c, "absence") \/ Goto(c, "lastAbsence"))
    BY <2>1, <2>4, <2>6, WaitsKind DEF Journaled, Settling
  <2>7. CASE SaveNext(c, "unresolved")
    BY <1>0, <2>1, <2>7, EndsKind DEF EndsOpen, Settling
  <2> QED
    BY <2>2, <2>5, <2>6, <2>7
<1>11. CASE InspectAbsence(c)
  <2>1. /\ job[c].pc = "absence" /\ Sent(t)
        /\ UNCHANGED <<intent, queue, told, net, height, final>>
    BY <1>11 DEF InspectAbsence, cluster, Sent
  <2>2. CASE Goto(c, "confirm") /\ UNCHANGED execution
    BY <2>1, <2>2, WaitsKind DEF Journaled, Settling
  <2>3. CASE /\ MayLookAbsent(t) /\ SetExecution(t, "failed")
             /\ ~job[c].resuming /\ job[c].attempt < MaxAttempts
             /\ job' = [job EXCEPT ![c].pc = "build", ![c].attempt = @ + 1,
                                   ![c].again = FALSE]
    <3> DEFINE a == job[c].attempt + 1
    <3>1. a \in 0..MaxAttempts
      BY <1>0, <2>3
    <3>2. BuildNext(c, a, FALSE)
      BY <1>0, <2>3 DEF TypeOK, BuildNext
    <3>3. \E j \in Job : /\ Moves(c, j) /\ j.pc = "build" /\ j.attempt = a
                         /\ j.again = FALSE /\ j.resuming = job[c].resuming
      BY <1>0, <2>1, <3>1, <3>2, BuildMoves
    <3>4. Rebuilds(c)
      BY <2>1, <2>3, <3>3 DEF Rebuilds, Notes, SetExecution, cluster
    <3> QED
      BY <3>4 DEF Kind
  <2>4. CASE MayLookAbsent(t) /\ SetExecution(t, "failed") /\ SaveNext(c, "failed")
    BY <1>0, <2>1, <2>4, EndsKind
       DEF EndsBadly, Notes, SetExecution, Journaled, Settling
  <2> QED
    BY <1>11, <2>2, <2>3, <2>4 DEF InspectAbsence, Replace
<1>12. CASE LastAbsence(c)
  <2>1. /\ job[c].pc = "lastAbsence"
        /\ UNCHANGED <<intent, execution, queue, told, net, height, final>>
    BY <1>12 DEF LastAbsence, durable, cluster
  <2>2. CASE SaveNext(c, "unresolved")
    BY <1>0, <2>1, <2>2, EndsKind DEF EndsOpen, Settling
  <2>3. CASE MayLookAbsent(t) /\ SaveNext(c, "failed")
    BY <1>0, <2>1, <2>3, EndsKind DEF EndsBadly
  <2> QED
    BY <1>12, <2>2, <2>3 DEF LastAbsence
<1>13. CASE UpdateIntentFails(c)
  <2>1. \E a \in Status : Answers(c, a)
    <3>1. CASE job[c].resuming
      <4>1. Answers(c, "none")
        BY <1>13, <3>1 DEF UpdateIntentFails, Answers, Terminal, Status
      <4> QED
        BY <1>0, <4>1
    <3>2. CASE ~job[c].resuming
      <4>1. Answers(c, job[c].result)
        BY <1>0, <1>13, <3>2 DEF UpdateIntentFails, Answers
      <4> QED
        BY <1>0, <4>1
    <3> QED
      BY <3>1, <3>2
  <2> QED
    BY <2>1 DEF Kind
<1> QED
  BY <1>1, <1>2, <1>3, <1>4, <1>5, <1>6, <1>7, <1>8, <1>9, <1>10, <1>11, <1>12,
     <1>13 DEF CallStep, Kind

-----------------------------------------------------------------------------
(* Soundness of every step *)

\* The intent and the journal only grow, and what has landed stays.
Grows ==
    /\ intent # NoIntent =>
          intent' # NoIntent /\ intent.submissions \subseteq intent'.submissions
    /\ \A t \in Tx : execution[t] # "none" => execution'[t] # "none"
    /\ \A t \in Tx : net[t] = "ok" => net'[t] = "ok"

LEMMA SentEffect ==
    ASSUME TypeOK, NEW t \in Tx, Sent(t)
    PROVE  /\ net' \in [Tx -> TxStatus]
           /\ \A u \in Tx :
                \/ net'[u] = net[u]
                \/ u = t /\ net[u] = "none" /\ net'[u] = "inflight"
<1>0. net \in [Tx -> TxStatus]
  BY DEF TypeOK
<1>1. CASE net' = net
  BY <1>0, <1>1
<1>2. CASE net' = [net EXCEPT ![t] = IF @ = "none" THEN "inflight" ELSE @]
  BY <1>0, <1>2 DEF TxStatus
<1> QED
  BY <1>1, <1>2 DEF Sent

\* What is in a block stays decided, nothing is sent, and what enters a block
\* does so before its blockhash has expired for good.
LEMMA ClusterEffect ==
    ASSUME TypeOK, ClusterStep
    PROVE  /\ TypeOK' /\ UNCHANGED <<durable, queue, job, told>>
           /\ final' >= final
           /\ \A t \in Tx :
                /\ net[t] \in {"none", "ok", "err"} => net'[t] = net[t]
                /\ net[t] # "none" => net'[t] # "none"
                /\ InHistory(t)' => InHistory(t) \/ final < t.lastValid
                /\ net'[t] = "ok" => net[t] \in {"procOk", "ok"}
<1>1. CASE Tick
  BY <1>1 DEF Tick, TypeOK, durable, InHistory
<1>2. CASE Finalize
  BY <1>2 DEF Finalize, TypeOK, durable, InHistory
<1>3. ASSUME NEW u \in Tx, Execute(u) \/ Confirm(u) \/ DropFork(u)
      PROVE  /\ TypeOK' /\ UNCHANGED <<durable, queue, job, told, final>>
             /\ \A t \in Tx :
                  /\ net[t] \in {"none", "ok", "err"} => net'[t] = net[t]
                  /\ net[t] # "none" => net'[t] # "none"
                  /\ InHistory(t)' => InHistory(t) \/ final < t.lastValid
                  /\ net'[t] = "ok" => net[t] \in {"procOk", "ok"}
  BY <1>3 DEF Execute, Confirm, DropFork, SetNet, TypeOK, TxStatus, durable, InHistory
<1>4. final \in Nat
  BY DEF TypeOK
<1> QED
  BY <1>1, <1>2, <1>3, <1>4 DEF ClusterStep

LEMMA ReturnType ==
    ASSUME TypeOK, NEW c \in Call, NEW a \in Status, Return(c, a)
    PROVE  /\ job' = [job EXCEPT ![c] = IdleJob] /\ told' = [told EXCEPT ![c] = a]
           /\ job' \in [Call -> Job] /\ told' \in [Call -> Status]
           /\ queue' \in [Process -> Seq(Call)]
<1> DEFINE p == ProcessOf[c]
           q == IF queue[p] # <<>> /\ Head(queue[p]) = c THEN Tail(queue[p])
                ELSE queue[p]
<1>1. p \in Process /\ queue[p] \in Seq(Call)
  BY DEF TypeOK
<1>2. q \in Seq(Call)
  BY <1>1
<1>3. queue' = [queue EXCEPT ![p] = q]
  BY <1>1 DEF Return, TypeOK
<1> HIDE DEF q
<1> QED
  BY <1>2, <1>3, JobType DEF Return, TypeOK

\* Every kind keeps the types, leaves the other calls alone and sends at most
\* the submission it settles.
LEMMA KindEffect ==
    ASSUME SoundInv, NEW c \in Call, Kind(c)
    PROVE  /\ TypeOK' /\ Grows /\ UNCHANGED <<height, final>>
           /\ \A d \in Call \ {c} : job'[d] = job[d] /\ told'[d] = told[d]
           /\ \A t \in Tx :
                \/ net'[t] = net[t]
                \/ /\ job[c].pc \in Journaled /\ t = job[c].tx
                   /\ net[t] = "none" /\ net'[t] = "inflight"
<1>0. /\ TypeOK /\ job[c] \in Job /\ job[c].tx \in Tx \cup {NoTx}
      /\ job \in [Call -> Job] /\ told \in [Call -> Status]
      /\ job[c].result \in Status /\ execution \in [Tx -> ExecutionStatus]
      /\ net \in [Tx -> TxStatus] /\ intent \in Intent \cup {NoIntent}
      /\ job[c].pc \notin {"idle", "queued"} => intent # NoIntent
      /\ job[c].pc \in {"create", "record"} \cup Journaled => job[c].tx \in Tx
  BY JobType DEF SoundInv, TypeOK, JobInv, JobOK
<1>1. CASE RunReliableTrade(c)
  <2> DEFINE p == ProcessOf[c]
  <2>1. p \in Process /\ queue[p] \in Seq(Call)
    BY <1>0 DEF TypeOK
  <2>2. queue' \in [Process -> Seq(Call)]
    BY <1>0, <1>1, <2>1 DEF RunReliableTrade, TypeOK
  <2>3. [IdleJob EXCEPT !.pc = "queued"] \in Job
    BY JobType DEF Job, PC
  <2>4. job' \in [Call -> Job] /\ told' \in [Call -> Status]
    BY <1>0, <1>1, <2>3 DEF RunReliableTrade, Status
  <2> QED
    BY <1>0, <1>1, <2>2, <2>4 DEF RunReliableTrade, TypeOK, Grows, durable, cluster
<1>2. CASE Claims(c)
  <2>1. intent' \in Intent
    BY <1>2 DEF Claims, Intent, Status
  <2> QED
    BY <1>0, <1>2, <2>1 DEF Claims, Moves, TypeOK, Grows, KeyFree, cluster
<1>3. CASE Rechecks(c)
  BY <1>0, <1>3 DEF Rechecks, TypeOK, Grows, Status, durable, cluster
<1>4. ASSUME NEW a \in Status, Answers(c, a)
      PROVE  /\ TypeOK' /\ Grows /\ UNCHANGED <<height, final, net>>
             /\ \A d \in Call \ {c} : job'[d] = job[d] /\ told'[d] = told[d]
  BY <1>0, <1>4, ReturnType DEF Answers, TypeOK, Grows, durable, cluster
<1>5. CASE Signs(c)
  BY <1>0, <1>5 DEF Signs, Moves, TypeOK, Grows, durable, cluster
<1>6. CASE Creates(c)
  BY <1>0, <1>6 DEF Creates, Notes, Moves, TypeOK, Grows, ExecutionStatus, cluster
<1>7. CASE Records(c)
  <2>1. intent \in Intent /\ job[c].tx \in Tx
    BY <1>0, <1>7 DEF Records
  <2>2. /\ intent' \in Intent /\ intent' # NoIntent
        /\ intent.submissions \subseteq intent'.submissions
    <3> DEFINE t == job[c].tx
               i == [intent EXCEPT !.submissions = @ \cup {t}, !.last = t]
    <3>1. i \in Intent /\ intent.submissions \subseteq i.submissions
      BY <2>1 DEF Intent
    <3>2. intent' = intent \/ intent' = i
      BY <1>7 DEF Records, SubmissionAdded
    <3> HIDE DEF i
    <3> QED
      BY <2>1, <3>1, <3>2
  <2> QED
    BY <1>0, <1>7, <2>2 DEF Records, Moves, TypeOK, Grows, cluster
<1>8. CASE Waits(c)
  <2>1. job[c].tx \in Tx /\ Sent(job[c].tx)
    BY <1>0, <1>8 DEF Waits
  <2>2. /\ execution' \in [Tx -> ExecutionStatus]
        /\ \A t \in Tx : execution[t] # "none" => execution'[t] # "none"
    BY <1>0, <1>8, <2>1 DEF Waits, Notes, ExecutionStatus
  <2> QED
    BY <1>0, <1>8, <2>1, <2>2, SentEffect DEF Waits, Moves, TypeOK, Grows
<1>9. CASE Rebuilds(c)
  <2>1. /\ execution' \in [Tx -> ExecutionStatus]
        /\ \A t \in Tx : execution[t] # "none" => execution'[t] # "none"
    BY <1>0, <1>9 DEF Rebuilds, Notes, ExecutionStatus
  <2> QED
    BY <1>0, <1>9, <2>1 DEF Rebuilds, Moves, TypeOK, Grows, cluster
<1>10. ASSUME NEW r \in Status, Ends(c, r)
       PROVE  /\ TypeOK' /\ Grows /\ UNCHANGED <<height, final>>
              /\ \A d \in Call \ {c} : job'[d] = job[d] /\ told'[d] = told[d]
              /\ \A t \in Tx :
                   \/ net'[t] = net[t]
                   \/ /\ job[c].pc \in Journaled /\ t = job[c].tx
                      /\ net[t] = "none" /\ net'[t] = "inflight"
  <2>1. /\ execution' \in [Tx -> ExecutionStatus]
        /\ \A t \in Tx : execution[t] # "none" => execution'[t] # "none"
    BY <1>0, <1>10 DEF Ends, EndsWell, EndsBadly, EndsOpen, Notes, ExecutionStatus
  <2>2. \/ net' = net
        \/ job[c].pc = "send" /\ Sent(job[c].tx)
    BY <1>10 DEF Ends, EndsWell, EndsBadly, EndsOpen
  <2>3. /\ net' \in [Tx -> TxStatus]
        /\ \A t \in Tx :
             \/ net'[t] = net[t]
             \/ /\ job[c].pc \in Journaled /\ t = job[c].tx
                /\ net[t] = "none" /\ net'[t] = "inflight"
    BY <1>0, <2>2, SentEffect DEF Journaled
  <2> QED
    BY <1>0, <1>10, <2>1, <2>3 DEF Ends, Moves, TypeOK, Grows
<1>12. CASE Resubmission(c)
  <2>1. /\ execution' \in [Tx -> ExecutionStatus]
        /\ \A t \in Tx : execution[t] # "none" => execution'[t] # "none"
    <3>1. execution' = execution \/ Notes(c, "failed")
      BY <1>12 DEF Resubmission
    <3>2. CASE execution' = execution
      BY <1>0, <3>2
    <3>3. CASE Notes(c, "failed")
      BY <1>0, <3>3 DEF Notes, ExecutionStatus
    <3> QED
      BY <3>1, <3>2, <3>3
  <2>2. net' = net \/ (job[c].pc = "send" /\ Sent(job[c].tx))
    BY <1>12 DEF Resubmission
  <2>3. /\ net' \in [Tx -> TxStatus]
        /\ \A t \in Tx :
             \/ net'[t] = net[t]
             \/ /\ job[c].pc \in Journaled /\ t = job[c].tx
                /\ net[t] = "none" /\ net'[t] = "inflight"
    BY <1>0, <2>2, SentEffect DEF Journaled
  <2> QED
    BY <1>0, <1>12, <2>1, <2>3 DEF Resubmission, Moves, TypeOK, Grows
<1>11. CASE UpdateIntent(c)
  <2>1. intent \in Intent
    BY <1>0, <1>11 DEF UpdateIntent
  <2>2. /\ intent' \in Intent /\ intent' # NoIntent
        /\ intent'.submissions = intent.submissions
    BY <1>0, <1>11, <2>1 DEF UpdateIntent, Resolved, Intent
  <2> QED
    BY <1>0, <1>11, <2>2, ReturnType DEF UpdateIntent, TypeOK, Grows, cluster
<1> QED
  BY <1>1, <1>2, <1>3, <1>4, <1>5, <1>6, <1>7, <1>8, <1>9, <1>10, <1>11,
     <1>12 DEF Kind

\* A call whose job is not touched stays sound.
LEMMA OthersSound ==
    ASSUME SoundInv, Grows, NEW d \in Call, job'[d] = job[d]
    PROVE  JobOK(d)'
<1>1. JobOK(d) /\ (intent # NoIntent => intent \in Intent)
  BY DEF SoundInv, JobInv, TypeOK
<1>2. \A t \in Tx : Entered(t) => Entered(t)'
  BY DEF Entered, Grows
<1>3. job[d].pc = "save" /\ job[d].result = "confirmed" =>
        \E t \in intent'.submissions : net'[t] = "ok"
  BY <1>1, IntentType DEF JobOK, Grows
<1> QED
  BY <1>1, <1>2, <1>3 DEF JobOK, Grows

LEMMA KindJob ==
    ASSUME SoundInv, NEW c \in Call, Kind(c)
    PROVE  JobOK(c)'
<1>0. /\ TypeOK /\ JobOK(c) /\ IntentInv /\ Grows
      /\ job \in [Call -> Job] /\ execution \in [Tx -> ExecutionStatus]
      /\ intent \in Intent \cup {NoIntent}
      /\ intent # NoIntent => intent.submissions \subseteq Tx
      /\ job[c].attempt \in 0..MaxAttempts
      /\ \A t \in Tx : t = job[c].tx /\ job[c].pc \in Journaled => Entered(t)'
      /\ job[c].pc \notin {"idle", "queued"} => intent' # NoIntent
  <2>1. TypeOK /\ JobOK(c) /\ IntentInv /\ Grows
    BY KindEffect DEF SoundInv, JobInv
  <2>2. /\ job \in [Call -> Job] /\ execution \in [Tx -> ExecutionStatus]
        /\ intent \in Intent \cup {NoIntent}
        /\ intent # NoIntent => intent.submissions \subseteq Tx
        /\ job[c].attempt \in 0..MaxAttempts
    BY <2>1, IntentType, JobType DEF TypeOK
  <2>3. \A t \in Tx : Entered(t) => Entered(t)'
    BY <2>1 DEF Entered, Grows
  <2>4. /\ job[c].pc \in Journaled => Entered(job[c].tx)
        /\ job[c].pc \notin {"idle", "queued"} => intent' # NoIntent
    BY <2>1 DEF JobOK, Grows
  <2> QED
    BY <2>1, <2>2, <2>3, <2>4
<1>1. CASE RunReliableTrade(c)
  <2>1. job'[c].pc = "queued" /\ ~job'[c].resuming
    BY <1>0, <1>1 DEF RunReliableTrade, IdleJob
  <2> QED
    BY <2>1 DEF JobOK, Journaled, Settling
<1>2. CASE Claims(c)
  <2>1. /\ job'[c].pc = "build" /\ ~job'[c].resuming /\ job'[c].attempt = 1
        /\ intent' # NoIntent
    BY <1>0, <1>2 DEF Claims, Moves, Intent, Status
  <2> QED
    BY <2>1 DEF JobOK, Journaled, Settling
<1>3. CASE Rechecks(c)
  <2>1. /\ job'[c].pc = "recheck" /\ job'[c].tx = intent.last
        /\ intent' = intent /\ execution' = execution
    BY <1>0, <1>3 DEF Rechecks, durable
  <2>2. intent # NoIntent /\ intent.last \in intent.submissions
    BY <1>0, <1>3 DEF Rechecks, IntentInv
  <2>3. intent.last \in Tx /\ Entered(intent.last)'
    BY <1>0, <2>1, <2>2 DEF Entered, IntentInv
  <2> QED
    BY <1>3, <2>1, <2>2, <2>3 DEF JobOK, Journaled, Settling
<1>4. ASSUME job'[c] = IdleJob
      PROVE  JobOK(c)'
  BY <1>4 DEF JobOK, IdleJob, Journaled, Settling
<1>5. CASE \E a \in Status : Answers(c, a)
  BY <1>0, <1>4, <1>5, ReturnType DEF Answers
<1>6. CASE UpdateIntent(c)
  BY <1>0, <1>4, <1>6, ReturnType, JobType DEF UpdateIntent
<1>7. CASE Signs(c)
  <2>1. /\ job'[c].pc = "create" /\ job'[c].tx \in Tx
        /\ job'[c].tx.attempt = job'[c].attempt
        /\ ~job'[c].resuming
    BY <1>0, <1>7 DEF Signs, Moves, JobOK
  <2> QED
    BY <1>0, <1>7, <2>1 DEF Signs, JobOK, Journaled, Settling
<1>8. CASE Creates(c)
  <2>1. /\ job'[c].pc = "record" /\ job'[c].tx = job[c].tx
        /\ job'[c].attempt = job[c].attempt /\ ~job'[c].resuming
    BY <1>0, <1>8 DEF Creates, Moves, Same, JobOK
  <2>2. /\ job[c].tx \in Tx /\ job[c].tx.attempt = job[c].attempt
        /\ execution'[job[c].tx] # "none"
    BY <1>0, <1>8 DEF Creates, Notes, JobOK
  <2> QED
    BY <1>0, <1>8, <2>1, <2>2 DEF Creates, JobOK, Journaled, Settling
<1>9. CASE Records(c)
  <2>1. /\ job'[c].pc = "send" /\ job'[c].tx = job[c].tx /\ ~job'[c].resuming
        /\ job[c].tx \in Tx /\ execution'[job[c].tx] # "none"
        /\ job[c].tx.attempt = job[c].attempt /\ job'[c].attempt = job[c].attempt
    BY <1>0, <1>9 DEF Records, Moves, Same, JobOK
  <2>2. intent \in Intent
    BY <1>0, <1>9 DEF JobOK, Records
  <2>3. job[c].tx \in intent'.submissions
    BY <1>9, <2>2 DEF Records, SubmissionAdded, Intent
  <2> QED
    BY <1>0, <1>9, <2>1, <2>3 DEF Records, JobOK, Journaled, Settling, Entered
<1>10. CASE Waits(c)
  <2>1. job'[c].pc \in Settling /\ job'[c].tx = job[c].tx /\ job[c].tx \in Tx
    BY <1>0, <1>10 DEF Waits, Moves, Same, JobOK
  <2> QED
    BY <1>0, <1>10, <2>1 DEF Waits, JobOK, Journaled, Settling
<1>11. CASE Rebuilds(c)
  <2>1. job'[c].pc = "build" /\ ~job'[c].resuming /\ job'[c].attempt \in 1..MaxAttempts
    BY <1>0, <1>11 DEF Rebuilds, Moves
  <2> QED
    BY <1>0, <1>11, <2>1 DEF Rebuilds, JobOK, Journaled, Settling
<1>13. CASE Resubmission(c)
  <2>1. /\ job'[c].pc = "build" /\ ~job'[c].resuming
        /\ job'[c].attempt = job[c].attempt /\ job[c].pc \in {"build", "send"}
    BY <1>0, <1>13 DEF Resubmission, Moves
  <2>2. job[c].attempt \in 1..MaxAttempts
    BY <1>0, <2>1 DEF JobOK, Tx
  <2> QED
    BY <1>0, <2>1, <2>2 DEF JobOK, Journaled, Settling
<1>12. ASSUME NEW r \in Status, Ends(c, r)
       PROVE  JobOK(c)'
  <2>1. job'[c].pc = "save" /\ job'[c].result = r
    BY <1>0, <1>12 DEF Ends, Moves
  <2>2. job[c].pc \notin {"idle", "queued"}
    BY <1>12 DEF Ends, EndsWell, EndsBadly, EndsOpen, Settling
  <2>3. r = "confirmed" => \E t \in intent'.submissions : net'[t] = "ok"
    <3> SUFFICES ASSUME r = "confirmed"
                 PROVE  \E t \in intent'.submissions : net'[t] = "ok"
      OBVIOUS
    <3>1. EndsWell(c)
      BY <1>12 DEF Ends
    <3>2. net'[job[c].tx] = "ok" /\ job[c].pc \in Journaled
      BY <3>1 DEF EndsWell, Journaled, Settling
    <3>3. job[c].tx \in Tx /\ job[c].tx \in intent'.submissions
      BY <1>0, <3>2 DEF Entered, JobOK
    <3> QED
      BY <3>2, <3>3
  <2> QED
    BY <1>0, <2>1, <2>2, <2>3 DEF JobOK, Journaled, Settling
<1> QED
  BY <1>1, <1>2, <1>3, <1>5, <1>6, <1>7, <1>8, <1>9, <1>10, <1>11, <1>12,
     <1>13 DEF Kind

LEMMA KindRecords ==
    ASSUME SoundInv, NEW c \in Call, Kind(c)
    PROVE  IntentInv' /\ JournaledBeforeBroadcast' /\ ConfirmedIsTrue'
<1>0. /\ TypeOK /\ JobOK(c) /\ Grows /\ IntentInv /\ JournaledBeforeBroadcast
      /\ ConfirmedIsTrue /\ TypeOK' /\ JobOK(c)'
      /\ \A d \in Call \ {c} : told'[d] = told[d]
      /\ job \in [Call -> Job] /\ execution \in [Tx -> ExecutionStatus]
      /\ intent \in Intent \cup {NoIntent} /\ told \in [Call -> Status]
      /\ job[c].result \in Status
  BY KindEffect, KindJob, JobType DEF SoundInv, JobInv, TypeOK
<1>1. \A t \in Tx : Entered(t) => Entered(t)'
  BY <1>0 DEF Entered, Grows
<1>2. JournaledBeforeBroadcast'
  <2> SUFFICES ASSUME NEW t \in Tx, net'[t] # "none"
               PROVE  Entered(t)'
    BY DEF JournaledBeforeBroadcast, Entered
  <2>1. CASE net[t] # "none"
    BY <1>0, <1>1, <2>1 DEF JournaledBeforeBroadcast, Entered
  <2>2. CASE net[t] = "none"
    <3>1. job[c].pc \in Journaled /\ t = job[c].tx
      BY <2>2, KindEffect
    <3> QED
      BY <1>0, <1>1, <3>1 DEF JobOK
  <2> QED
    BY <2>1, <2>2
<1>3. ASSUME intent' = intent
      PROVE  IntentInv'
  <2>1. intent # NoIntent => intent.submissions \subseteq Tx
    BY <1>0, IntentType
  <2> QED
    BY <1>0, <1>3, <2>1 DEF IntentInv, Grows
<1>4. ASSUME NEW t \in Tx, intent # NoIntent, t \in intent.submissions, net[t] = "ok"
      PROVE  t \in intent'.submissions /\ net'[t] = "ok"
  BY <1>0, <1>4 DEF Grows
\* The three places of a "confirmed".
<1> DEFINE InIntent(i, n) ==
               i # NoIntent /\ i.result = "confirmed" =>
                   \E t \in i.submissions : n[t] = "ok"
           InJournal(e, n) == \A t \in Tx : e[t] = "confirmed" => n[t] = "ok"
           InAnswer(m, n) ==
               \A d \in Call : m[d] = "confirmed" => \E t \in Tx : n[t] = "ok"
<1>5. InIntent(intent, net) /\ InJournal(execution, net) /\ InAnswer(told, net)
  BY <1>0 DEF ConfirmedIsTrue
<1>6. InIntent(intent', net') /\ InJournal(execution', net') /\ InAnswer(told', net')
      => ConfirmedIsTrue'
  BY DEF ConfirmedIsTrue
<1>7. execution' = execution => InJournal(execution', net')
  BY <1>0, <1>5 DEF Grows
<1>8. ASSUME NEW s \in {"submitted", "failed"}, Notes(c, s)
      PROVE  InJournal(execution', net')
  BY <1>0, <1>5, <1>8 DEF Grows, Notes
<1>9. ASSUME told'[c] = "confirmed" => \E t \in Tx : net'[t] = "ok"
      PROVE  InAnswer(told', net')
  BY <1>0, <1>5, <1>9 DEF Grows
<1>10. ASSUME intent' = intent
       PROVE  InIntent(intent', net')
  <2> SUFFICES ASSUME intent # NoIntent, intent.result = "confirmed"
               PROVE  \E t \in intent.submissions : net'[t] = "ok"
    BY <1>10
  <2>1. PICK t \in intent.submissions : net[t] = "ok"
    BY <1>5
  <2> QED
    BY <1>0, <1>10, <2>1, IntentType DEF Grows
<1>11. told' = told => InAnswer(told', net')
  BY <1>0, <1>5 DEF Grows
<1> HIDE DEF InIntent, InJournal, InAnswer
<1>12. CASE RunReliableTrade(c) \/ Rechecks(c)
  <2>1. told'[c] = "none" /\ intent' = intent /\ execution' = execution
    BY <1>0, <1>12 DEF RunReliableTrade, Rechecks, durable
  <2> QED
    BY <1>2, <1>3, <1>6, <1>7, <1>9, <1>10, <2>1
<1>13. CASE Claims(c)
  <2>1. /\ intent'.submissions = {} /\ intent'.last = NoTx
        /\ intent'.result = "none" /\ told' = told /\ execution' = execution
    BY <1>13 DEF Claims, Moves
  <2>2. IntentInv' /\ InIntent(intent', net')
    BY <2>1 DEF IntentInv, InIntent
  <2> QED
    BY <1>2, <1>6, <1>7, <1>11, <2>1, <2>2
<1>14. ASSUME NEW a \in Status, Answers(c, a)
       PROVE  IntentInv' /\ ConfirmedIsTrue'
  <2>1. told'[c] = a /\ intent' = intent /\ execution' = execution /\ net' = net
    BY <1>0, <1>14, ReturnType DEF Answers, durable, cluster
  <2>2. a = "confirmed" => \E t \in Tx : net'[t] = "ok"
    <3> SUFFICES ASSUME a = "confirmed" PROVE \E t \in Tx : net[t] = "ok"
      BY <2>1
    <3>1. intent # NoIntent /\ \E t \in intent.submissions : net[t] = "ok"
      BY <1>0, <1>5, <1>14 DEF Answers, Terminal, JobOK, InIntent
    <3> QED
      BY <1>0, <3>1, IntentType
  <2> QED
    BY <1>3, <1>6, <1>7, <1>9, <1>10, <2>1, <2>2
<1>15. CASE Signs(c)
  BY <1>2, <1>3, <1>6, <1>7, <1>10, <1>11, <1>15 DEF Signs, Moves, durable
<1>16. CASE Creates(c) \/ Rebuilds(c) \/ Resubmission(c)
  BY <1>2, <1>3, <1>6, <1>7, <1>8, <1>10, <1>11, <1>16
     DEF Creates, Rebuilds, Resubmission, Moves
<1>17. CASE Records(c)
  <2>1. intent \in Intent /\ execution' = execution /\ told' = told /\ net' = net
    BY <1>0, <1>17 DEF Records, JobOK, Moves, cluster
  <2> DEFINE t == job[c].tx
             i == [intent EXCEPT !.submissions = @ \cup {t}, !.last = t]
  <2>2. /\ i.submissions = intent.submissions \cup {t} /\ i.last = t
        /\ i.result = intent.result
    BY <2>1 DEF Intent
  <2>3. intent' = intent \/ intent' = i
    BY <1>17 DEF Records, SubmissionAdded
  <2> HIDE DEF i
  <2>4. IntentInv'
    <3>1. CASE intent' = intent
      BY <1>3, <3>1
    <3>2. CASE intent' = i
      BY <1>0, <1>17, <2>1, <2>2, <3>2 DEF Records, IntentInv, JobOK
    <3> QED
      BY <2>3, <3>1, <3>2
  <2>5. InIntent(intent', net')
    BY <1>0, <1>5, <2>1, <2>2, <2>3 DEF InIntent
  <2> QED
    BY <1>2, <1>6, <1>7, <1>11, <2>1, <2>4, <2>5
<1>18. CASE Waits(c)
  BY <1>2, <1>3, <1>6, <1>7, <1>8, <1>10, <1>11, <1>18 DEF Waits, Moves
<1>19. ASSUME NEW r \in Status, Ends(c, r)
       PROVE  IntentInv' /\ ConfirmedIsTrue'
  <2>1. intent' = intent /\ told' = told
    BY <1>19 DEF Ends, Moves
  <2>2. InJournal(execution', net')
    <3>1. CASE EndsWell(c)
      <4>1. job[c].tx \in Tx /\ net' = net /\ net[job[c].tx] = "ok"
        BY <1>0, <3>1 DEF EndsWell, JobOK, Journaled, Settling
      <4> QED
        BY <1>0, <1>5, <3>1, <4>1 DEF EndsWell, Notes, InJournal
    <3>2. CASE EndsBadly(c) \/ EndsOpen(c)
      BY <1>7, <1>8, <3>2 DEF EndsBadly, EndsOpen
    <3> QED
      BY <1>19, <3>1, <3>2 DEF Ends
  <2> QED
    BY <1>3, <1>6, <1>10, <1>11, <2>1, <2>2
<1>20. CASE UpdateIntent(c)
  <2>1. /\ intent \in Intent /\ intent' = Resolved(intent, job[c].result)
        /\ execution' = execution /\ net' = net /\ told'[c] = job[c].result
    BY <1>0, <1>20, ReturnType DEF UpdateIntent, JobOK, cluster
  <2>2. job[c].result = "confirmed" => \E t \in intent.submissions : net[t] = "ok"
    BY <1>0, <1>20 DEF UpdateIntent, JobOK
  <2>3. /\ intent'.submissions = intent.submissions /\ intent'.last = intent.last
        /\ intent'.result \in {intent.result, job[c].result}
    BY <2>1 DEF Resolved, Intent
  <2>4. IntentInv'
    BY <1>0, <2>1, <2>3, IntentType DEF IntentInv
  <2>5. InIntent(intent', net')
    BY <1>5, <2>1, <2>2, <2>3, IntentType DEF InIntent
  <2>6. InAnswer(told', net')
    BY <1>9, <2>1, <2>2, IntentType
  <2> QED
    BY <1>2, <1>6, <1>7, <2>1, <2>4, <2>5, <2>6
<1> QED
  BY <1>2, <1>12, <1>13, <1>14, <1>15, <1>16, <1>17, <1>18, <1>19, <1>20 DEF Kind

\* The cluster and the death of a process leave the records alone.
LEMMA QuietSound ==
    ASSUME SoundInv, TypeOK', Grows, UNCHANGED <<durable, told>>,
           \A d \in Call : job'[d] = job[d] \/ job'[d] = IdleJob,
           \A t \in Tx : net[t] = "none" => net'[t] = "none"
    PROVE  SoundInv'
<1>1. JobInv'
  <2> SUFFICES ASSUME NEW d \in Call PROVE JobOK(d)'
    BY DEF JobInv
  <2>1. CASE job'[d] = IdleJob
    BY <2>1 DEF JobOK, IdleJob, Journaled, Settling
  <2> QED
    BY <2>1, OthersSound
<1>2. IntentInv'
  BY DEF SoundInv, IntentInv, durable
<1>3. JournaledBeforeBroadcast'
  BY DEF SoundInv, JournaledBeforeBroadcast, durable
<1>4. ConfirmedIsTrue'
  <2>1. intent # NoIntent => intent.submissions \subseteq Tx
    BY IntentType DEF SoundInv, TypeOK
  <2> QED
    BY <2>1 DEF SoundInv, ConfirmedIsTrue, durable, Grows
<1> QED
  BY <1>1, <1>2, <1>3, <1>4 DEF SoundInv

LEMMA CrashEffect ==
    ASSUME TypeOK, NEW p \in Process, Crash(p)
    PROVE  /\ TypeOK' /\ Grows /\ UNCHANGED <<durable, told, cluster>>
           /\ \A c \in Call : job'[c] = IF ProcessOf[c] = p THEN IdleJob ELSE job[c]
           /\ queue' = [queue EXCEPT ![p] = <<>>]
<1>1. /\ \A c \in Call : job'[c] = IF ProcessOf[c] = p THEN IdleJob ELSE job[c]
      /\ job' \in [Call -> Job] /\ queue' \in [Process -> Seq(Call)]
  BY JobType DEF Crash, TypeOK
<1> QED
  BY <1>1 DEF Crash, TypeOK, Grows, durable, cluster

LEMMA SoundInduction == SoundInv /\ [Next]_vars => SoundInv'
<1> SUFFICES ASSUME SoundInv, [Next]_vars PROVE SoundInv'
  OBVIOUS
<1>1. ASSUME NEW c \in Call, Kind(c) PROVE SoundInv'
  <2>1. TypeOK' /\ Grows /\ \A d \in Call \ {c} : job'[d] = job[d]
    BY <1>1, KindEffect
  <2>2. JobInv'
    BY <1>1, <2>1, KindJob, OthersSound DEF JobInv
  <2> QED
    BY <1>1, <2>1, <2>2, KindRecords DEF SoundInv
<1>2. ASSUME NEW p \in Process, Crash(p) PROVE SoundInv'
  BY <1>2, CrashEffect, QuietSound DEF SoundInv, cluster
<1>3. CASE ClusterStep
  <2>1. TypeOK' /\ UNCHANGED <<durable, queue, job, told>>
    BY <1>3, ClusterEffect DEF SoundInv
  <2>2. Grows /\ \A t \in Tx : net[t] = "none" => net'[t] = "none"
    BY <1>3, <2>1, ClusterEffect DEF SoundInv, Grows, durable
  <2> QED
    BY <2>1, <2>2, QuietSound
<1>4. CASE UNCHANGED vars
  <2>1. TypeOK' /\ Grows /\ UNCHANGED <<durable, told, job, net>>
    BY <1>4 DEF vars, SoundInv, TypeOK, Grows, durable
  <2> QED
    BY <2>1, QuietSound
<1> QED
  BY <1>1, <1>2, <1>3, <1>4, StepKinds DEF Next

LEMMA SoundInit == Init => SoundInv
<1> SUFFICES ASSUME Init PROVE SoundInv
  OBVIOUS
<1>1. TypeOK
  BY JobType DEF Init, TypeOK, ExecutionStatus, Status, TxStatus
<1>2. JobInv
  BY DEF Init, JobInv, JobOK, IdleJob, Journaled, Settling
<1> QED
  BY <1>1, <1>2 DEF Init, SoundInv, IntentInv, JournaledBeforeBroadcast, ConfirmedIsTrue

\* Every variable keeps its type in every mode.
THEOREM TypeCorrect == Spec => []TypeOK
<1>1. SoundInv => TypeOK
  BY DEF SoundInv
<1> QED
  BY <1>1, SoundInit, SoundInduction, PTL DEF Spec

\* Whatever left a process is in the intent and in the executions journal, in
\* every mode: also after crashes and when writes of the intent fail.
THEOREM SentIsJournaled == Spec => []JournaledBeforeBroadcast
<1>1. SoundInv => JournaledBeforeBroadcast
  BY DEF SoundInv
<1> QED
  BY <1>1, SoundInit, SoundInduction, PTL DEF Spec

\* No intent, journal row or answer says "confirmed" of what has not landed,
\* whatever other calls and processes do with the key.
THEOREM ConfirmedIsLanded == Spec => []ConfirmedIsTrue
<1>1. SoundInv => ConfirmedIsTrue
  BY DEF SoundInv
<1> QED
  BY <1>1, SoundInit, SoundInduction, PTL DEF Spec

-----------------------------------------------------------------------------
(* The queue of a wallet *)

\* Only the first in the queue is past its turn; nobody is in it twice.
LineOf(p) ==
    \A i \in 1..Len(queue[p]) :
        /\ ProcessOf[queue[p][i]] = p
        /\ job[queue[p][i]].pc # "idle"
        /\ i > 1 => job[queue[p][i]].pc = "queued"
        /\ \A k \in 1..Len(queue[p]) : queue[p][k] = queue[p][i] => k = i

InLine(c) == \E i \in 1..Len(queue[ProcessOf[c]]) : queue[ProcessOf[c]][i] = c

HasTurn(c) == queue[ProcessOf[c]] # <<>> /\ Head(queue[ProcessOf[c]]) = c

\* Who waits is in the queue, and who operates is its head.
PlaceOf(c) ==
    /\ job[c].pc = "queued" => InLine(c)
    /\ Operating(c) => HasTurn(c)

QueueInv == (\A p \in Process : LineOf(p)) /\ (\A c \in Call : PlaceOf(c))

LEMMA QueueFacts ==
    ASSUME TypeOK, NEW p \in Process
    PROVE  /\ queue[p] \in Seq(Call) /\ Len(queue[p]) \in Nat
           /\ \A i \in 1..Len(queue[p]) : queue[p][i] \in Call
           /\ queue[p] # <<>> => 1 \in 1..Len(queue[p]) /\ Head(queue[p]) = queue[p][1]
           /\ queue[p] = <<>> => Len(queue[p]) = 0
  BY DEF TypeOK

\* A call that is out of the queue, or the head of it, may take any step but
\* returning without telling the queue.
LEMMA StayInLine ==
    ASSUME TypeOK, QueueInv, NEW c \in Call, UNCHANGED queue,
           \A d \in Call \ {c} : job'[d] = job[d],
           job'[c].pc \notin {"idle", "queued"},
           job[c].pc = "queued" => HasTurn(c),
           Operating(c)' => HasTurn(c)
    PROVE  QueueInv'
<1>1. ASSUME NEW p \in Process PROVE LineOf(p)'
  <2> SUFFICES ASSUME NEW i \in 1..Len(queue[p])
               PROVE  /\ job'[queue[p][i]].pc # "idle"
                      /\ i > 1 => job'[queue[p][i]].pc = "queued"
    BY DEF LineOf, QueueInv
  <2>1. /\ ProcessOf[queue[p][i]] = p /\ queue[p][i] \in Call
        /\ job[queue[p][i]].pc # "idle"
        /\ i > 1 => job[queue[p][i]].pc = "queued"
        /\ \A k \in 1..Len(queue[p]) : queue[p][k] = queue[p][i] => k = i
    BY QueueFacts DEF LineOf, QueueInv
  <2>2. CASE queue[p][i] # c
    BY <2>1, <2>2
  <2>3. CASE queue[p][i] = c /\ i > 1
    <3>1. HasTurn(c) /\ ProcessOf[c] = p
      BY <2>1, <2>3
    <3>2. 1 \in 1..Len(queue[p]) /\ queue[p][1] = c
      BY <3>1, QueueFacts DEF HasTurn
    <3> QED
      BY <2>1, <2>3, <3>2
  <2> QED
    BY <2>2, <2>3
<1>2. ASSUME NEW d \in Call PROVE PlaceOf(d)'
  <2>1. CASE d = c
    BY <2>1 DEF PlaceOf, HasTurn
  <2>2. CASE d # c
    BY <2>2 DEF QueueInv, PlaceOf, InLine, HasTurn, Operating
  <2> QED
    BY <2>1, <2>2
<1> QED
  BY <1>1, <1>2 DEF QueueInv

\* A call that returns leaves the queue if it was its head, and was not in it
\* otherwise.
LEMMA LeaveLine ==
    ASSUME TypeOK, QueueInv, NEW c \in Call, NEW a \in Status, Return(c, a),
           \A d \in Call \ {c} : job'[d] = job[d],
           job[c].pc = "queued" => HasTurn(c)
    PROVE  QueueInv'
<1> DEFINE w == ProcessOf[c]
<1>0. /\ w \in Process /\ job'[c] = IdleJob /\ queue \in [Process -> Seq(Call)]
      /\ queue' = [queue EXCEPT ![w] = IF queue[w] # <<>> /\ Head(queue[w]) = c
                                       THEN Tail(queue[w]) ELSE queue[w]]
  BY DEF Return, TypeOK
<1>1. CASE HasTurn(c)
  <2>1. /\ queue'[w] = Tail(queue[w]) /\ Len(queue[w]) \in Nat
        /\ Len(queue'[w]) = Len(queue[w]) - 1
        /\ \A i \in 1..Len(queue'[w]) :
              queue'[w][i] = queue[w][i + 1] /\ i + 1 \in 1..Len(queue[w])
        /\ queue[w][1] = c /\ 1 \in 1..Len(queue[w])
    BY <1>0, <1>1 DEF HasTurn
  <2>2. LineOf(w)'
    <3> SUFFICES ASSUME NEW i \in 1..Len(queue'[w])
                 PROVE  /\ ProcessOf[queue'[w][i]] = w
                        /\ job'[queue'[w][i]].pc = "queued"
                        /\ \A k \in 1..Len(queue'[w]) :
                              queue'[w][k] = queue'[w][i] => k = i
      BY DEF LineOf
    <3>1. i + 1 \in 1..Len(queue[w]) /\ i + 1 > 1 /\ queue'[w][i] = queue[w][i + 1]
      BY <2>1
    <3>2. /\ ProcessOf[queue[w][i + 1]] = w
          /\ job[queue[w][i + 1]].pc = "queued"
          /\ \A k \in 1..Len(queue[w]) : queue[w][k] = queue[w][i + 1] => k = i + 1
      <4>1. LineOf(w)
        BY <1>0 DEF QueueInv
      <4> DEFINE m == i + 1
      <4>2. m \in 1..Len(queue[w]) /\ m > 1
        BY <3>1
      <4> HIDE DEF m
      <4>3. /\ ProcessOf[queue[w][m]] = w /\ job[queue[w][m]].pc = "queued"
            /\ \A k \in 1..Len(queue[w]) : queue[w][k] = queue[w][m] => k = m
        BY <4>1, <4>2 DEF LineOf
      <4> QED
        BY <4>3 DEF m
    <3>3. queue[w][i + 1] # c /\ queue[w][i + 1] \in Call
      <4>1. queue[w][i + 1] = queue[w][1] => 1 = i + 1
        BY <2>1, <3>2
      <4>2. queue[w][i + 1] \in Call
        BY <1>0, <3>1, QueueFacts
      <4> QED
        BY <2>1, <3>1, <4>1, <4>2
    <3>4. ASSUME NEW k \in 1..Len(queue'[w]), queue'[w][k] = queue'[w][i]
          PROVE  k = i
      <4>1. k + 1 \in 1..Len(queue[w]) /\ queue[w][k + 1] = queue[w][i + 1]
        BY <2>1, <3>1, <3>4
      <4> QED
        BY <3>2, <4>1
    <3> QED
      BY <3>1, <3>2, <3>3, <3>4
  <2>3. ASSUME NEW d \in Call, d # c, ProcessOf[d] = w, job[d].pc = "queued"
        PROVE  InLine(d)'
    <3>1. PICK i \in 1..Len(queue[w]) : queue[w][i] = d
      BY <2>3 DEF QueueInv, PlaceOf, InLine
    <3>2. i # 1 /\ i - 1 \in 1..Len(queue'[w]) /\ queue'[w][i - 1] = d
      BY <2>1, <2>3, <3>1
    <3> QED
      BY <2>3, <3>2 DEF InLine
  <2>4. ASSUME NEW d \in Call, d # c, ProcessOf[d] = w, Operating(d)
        PROVE  FALSE
    BY <1>1, <2>4 DEF QueueInv, PlaceOf, HasTurn
  <2>5. ASSUME NEW d \in Call PROVE PlaceOf(d)'
    <3>1. CASE d = c
      BY <1>0, <3>1 DEF PlaceOf, IdleJob, Operating
    <3>2. CASE d # c /\ ProcessOf[d] = w
      BY <2>3, <2>4, <3>2 DEF PlaceOf, Operating
    <3>3. CASE d # c /\ ProcessOf[d] # w
      BY <1>0, <3>3 DEF QueueInv, PlaceOf, InLine, HasTurn, Operating
    <3> QED
      BY <3>1, <3>2, <3>3
  <2>6. ASSUME NEW p \in Process, p # w PROVE LineOf(p)'
    <3>1. queue'[p] = queue[p]
      BY <1>0, <2>6
    <3>2. \A i \in 1..Len(queue[p]) : queue[p][i] \in Call /\ queue[p][i] # c
      BY <2>6, QueueFacts DEF QueueInv, LineOf
    <3> QED
      BY <3>1, <3>2 DEF QueueInv, LineOf
  <2> QED
    BY <2>2, <2>5, <2>6 DEF QueueInv
<1>2. CASE ~HasTurn(c)
  <2>1. queue' = queue
    BY <1>0, <1>2 DEF HasTurn
  <2>2. ASSUME NEW p \in Process, NEW i \in 1..Len(queue[p])
        PROVE  queue[p][i] # c
    <3> SUFFICES ASSUME queue[p][i] = c PROVE FALSE
      OBVIOUS
    <3>1. p = w /\ (i > 1 => job[c].pc = "queued")
      BY DEF QueueInv, LineOf
    <3>2. i = 1
      BY <1>2, <3>1
    <3> QED
      BY <1>0, <1>2, <3>1, <3>2, QueueFacts DEF HasTurn
  <2>3. ASSUME NEW p \in Process PROVE LineOf(p)'
    <3>1. \A i \in 1..Len(queue[p]) : job'[queue[p][i]] = job[queue[p][i]]
      BY <2>2, QueueFacts
    <3> QED
      BY <2>1, <3>1 DEF QueueInv, LineOf
  <2>4. ASSUME NEW d \in Call PROVE PlaceOf(d)'
    <3>1. CASE d = c
      BY <1>0, <3>1 DEF PlaceOf, IdleJob, Operating
    <3>2. CASE d # c
      BY <2>1, <3>2 DEF QueueInv, PlaceOf, InLine, HasTurn, Operating
    <3> QED
      BY <3>1, <3>2
  <2> QED
    BY <2>3, <2>4 DEF QueueInv
<1> QED
  BY <1>1, <1>2

LEMMA EnterLine ==
    ASSUME TypeOK, QueueInv, NEW c \in Call, RunReliableTrade(c)
    PROVE  QueueInv'
<1> DEFINE w == ProcessOf[c]
<1>0. /\ w \in Process /\ queue[w] \in Seq(Call) /\ Len(queue[w]) \in Nat
      /\ queue' = [queue EXCEPT ![w] = Append(queue[w], c)]
      /\ job[c].pc = "idle" /\ job'[c].pc = "queued"
      /\ \A d \in Call \ {c} : job'[d] = job[d]
      /\ queue \in [Process -> Seq(Call)]
  BY QueueFacts DEF RunReliableTrade, TypeOK, IdleJob
<1>1. /\ queue'[w] = Append(queue[w], c) /\ Len(queue'[w]) = Len(queue[w]) + 1
      /\ queue'[w][Len(queue[w]) + 1] = c
      /\ \A i \in 1..Len(queue[w]) : queue'[w][i] = queue[w][i]
      /\ \A p \in Process : p # w => queue'[p] = queue[p]
  BY <1>0
<1>2. ASSUME NEW p \in Process, NEW i \in 1..Len(queue[p])
      PROVE  /\ queue[p][i] # c /\ queue[p][i] \in Call
             /\ job'[queue[p][i]] = job[queue[p][i]]
  BY <1>0, QueueFacts DEF QueueInv, LineOf
<1>3. LineOf(w)'
  <2> SUFFICES ASSUME NEW i \in 1..Len(queue'[w])
               PROVE  /\ ProcessOf[queue'[w][i]] = w
                      /\ job'[queue'[w][i]].pc # "idle"
                      /\ i > 1 => job'[queue'[w][i]].pc = "queued"
                      /\ \A k \in 1..Len(queue'[w]) :
                            queue'[w][k] = queue'[w][i] => k = i
    BY DEF LineOf
  <2>1. CASE i \in 1..Len(queue[w])
    <3>1. /\ ProcessOf[queue[w][i]] = w /\ job[queue[w][i]].pc # "idle"
          /\ i > 1 => job[queue[w][i]].pc = "queued"
          /\ \A k \in 1..Len(queue[w]) : queue[w][k] = queue[w][i] => k = i
      BY <1>0, <2>1 DEF QueueInv, LineOf
    <3>2. queue'[w][i] = queue[w][i] /\ job'[queue[w][i]] = job[queue[w][i]]
          /\ queue[w][i] # c
      BY <1>0, <1>1, <1>2, <2>1
    <3>3. ASSUME NEW k \in 1..Len(queue'[w]), queue'[w][k] = queue'[w][i]
          PROVE  k = i
      <4>1. k # Len(queue[w]) + 1
        BY <1>1, <3>2, <3>3
      <4>2. k \in 1..Len(queue[w])
        BY <1>0, <1>1, <4>1
      <4> QED
        BY <1>1, <3>1, <3>2, <3>3, <4>2
    <3> QED
      BY <3>1, <3>2, <3>3
  <2>2. CASE i = Len(queue[w]) + 1
    <3>1. queue'[w][i] = c
      BY <1>1, <2>2
    <3>2. ASSUME NEW k \in 1..Len(queue'[w]), queue'[w][k] = c
          PROVE  k = i
      <4>1. k \notin 1..Len(queue[w])
        BY <1>0, <1>1, <1>2, <3>2
      <4> QED
        BY <1>0, <1>1, <2>2, <4>1
    <3> QED
      BY <1>0, <3>1, <3>2
  <2>3. i \in 1..Len(queue[w]) \/ i = Len(queue[w]) + 1
    BY <1>0, <1>1
  <2> QED
    BY <2>1, <2>2, <2>3
<1>4. ASSUME NEW p \in Process, p # w PROVE LineOf(p)'
  BY <1>1, <1>2, <1>4 DEF QueueInv, LineOf
<1>5. ASSUME NEW d \in Call PROVE PlaceOf(d)'
  <2>1. CASE d = c
    <3>1. Len(queue[w]) + 1 \in 1..Len(queue'[w])
      BY <1>0, <1>1
    <3> QED
      BY <1>0, <1>1, <2>1, <3>1 DEF PlaceOf, InLine, Operating
  <2>2. CASE d # c /\ ProcessOf[d] = w
    <3>1. InLine(d) => InLine(d)'
      <4> SUFFICES ASSUME NEW i \in 1..Len(queue[w]), queue[w][i] = d
                   PROVE  InLine(d)'
        BY <2>2 DEF InLine
      <4>1. i \in 1..Len(queue'[w]) /\ queue'[w][i] = d
        BY <1>0, <1>1
      <4> QED
        BY <2>2, <4>1 DEF InLine
    <3>2. HasTurn(d) => HasTurn(d)'
      <4> SUFFICES ASSUME HasTurn(d) PROVE HasTurn(d)'
        OBVIOUS
      <4>1. queue[w] # <<>> /\ 1 \in 1..Len(queue[w]) /\ queue[w][1] = d
        BY <1>0, <2>2, QueueFacts DEF HasTurn
      <4>2. queue'[w] # <<>> /\ queue'[w][1] = d /\ queue'[w] \in Seq(Call)
        BY <1>0, <1>1, <4>1
      <4>3. Head(queue'[w]) = d
        BY <4>2
      <4> QED
        BY <2>2, <4>2, <4>3 DEF HasTurn
    <3> QED
      BY <1>0, <2>2, <3>1, <3>2 DEF QueueInv, PlaceOf, Operating
  <2>3. CASE d # c /\ ProcessOf[d] # w
    <3>1. queue'[ProcessOf[d]] = queue[ProcessOf[d]]
      BY <1>1, <2>3
    <3> QED
      BY <1>0, <2>3, <3>1 DEF QueueInv, PlaceOf, InLine, HasTurn, Operating
  <2> QED
    BY <2>1, <2>2, <2>3
<1> QED
  BY <1>3, <1>4, <1>5 DEF QueueInv

\* The queue of a dead process is gone with its calls.
LEMMA CrashLine ==
    ASSUME TypeOK, QueueInv, NEW p \in Process, Crash(p)
    PROVE  QueueInv'
<1>0. /\ \A c \in Call : job'[c] = IF ProcessOf[c] = p THEN IdleJob ELSE job[c]
      /\ queue' = [queue EXCEPT ![p] = <<>>] /\ queue \in [Process -> Seq(Call)]
  BY CrashEffect DEF TypeOK
<1>1. LineOf(p)'
  BY <1>0 DEF LineOf
<1>2. ASSUME NEW q \in Process, q # p PROVE LineOf(q)'
  <2>1. queue'[q] = queue[q]
    BY <1>0, <1>2
  <2>2. \A i \in 1..Len(queue[q]) : job'[queue[q][i]] = job[queue[q][i]]
    BY <1>0, <1>2, QueueFacts DEF QueueInv, LineOf
  <2> QED
    BY <2>1, <2>2 DEF QueueInv, LineOf
<1>3. ASSUME NEW d \in Call PROVE PlaceOf(d)'
  <2>1. CASE ProcessOf[d] = p
    BY <1>0, <2>1 DEF PlaceOf, IdleJob, Operating
  <2>2. CASE ProcessOf[d] # p
    BY <1>0, <2>2 DEF QueueInv, PlaceOf, InLine, HasTurn, Operating
  <2> QED
    BY <2>1, <2>2
<1> QED
  BY <1>1, <1>2, <1>3 DEF QueueInv

LEMMA QueueInduction == SoundInv /\ QueueInv /\ [Next]_vars => QueueInv'
<1> SUFFICES ASSUME SoundInv, QueueInv, [Next]_vars PROVE QueueInv'
  OBVIOUS
<1>0. TypeOK /\ job \in [Call -> Job]
  BY DEF SoundInv, TypeOK
<1>1. ASSUME NEW c \in Call, Kind(c) PROVE QueueInv'
  <2>1. /\ \A d \in Call \ {c} : job'[d] = job[d]
        /\ job[c].pc = "queued" /\ ClaimTurn(c) => HasTurn(c)
        /\ Operating(c) => HasTurn(c)
    <3>1. job[c].pc = "queued" => queue[ProcessOf[c]] # <<>>
      BY <1>0, QueueFacts DEF QueueInv, PlaceOf, InLine
    <3> QED
      BY <1>1, <3>1, KindEffect DEF ClaimTurn, HasTurn, QueueInv, PlaceOf
  <2>2. CASE RunReliableTrade(c)
    BY <1>0, <2>2, EnterLine
  <2>3. CASE \E a \in Status : Answers(c, a)
    BY <1>0, <2>1, <2>3, LeaveLine DEF Answers
  <2>4. CASE UpdateIntent(c)
    BY <1>0, <2>1, <2>4, LeaveLine, JobType DEF UpdateIntent
  <2>5. CASE Claims(c)
    <3>1. job'[c].pc = "build" /\ HasTurn(c) /\ UNCHANGED queue
      BY <1>0, <2>1, <2>5 DEF Claims, Moves
    <3> QED
      BY <1>0, <2>1, <3>1, StayInLine
  <2>6. CASE Rechecks(c)
    <3>1. /\ job'[c].pc = "recheck" /\ job'[c].resuming /\ UNCHANGED queue
          /\ job[c].pc = "queued" => HasTurn(c)
      BY <1>0, <2>1, <2>6 DEF Rechecks
    <3>2. ~Operating(c)'
      BY <3>1 DEF Operating
    <3> QED
      BY <1>0, <2>1, <3>1, <3>2, StayInLine
  <2>7. ASSUME Signs(c) \/ Creates(c) \/ Records(c) \/ Waits(c) \/ Rebuilds(c)
               \/ Resubmission(c) \/ \E r \in Status : Ends(c, r)
        PROVE  QueueInv'
    <3>1. /\ UNCHANGED queue /\ job[c].pc \notin {"idle", "queued"}
          /\ job'[c].pc \notin {"idle", "queued"}
      BY <1>0, <2>7 DEF Signs, Creates, Records, Waits, Rebuilds, Resubmission, Ends,
                        EndsWell, EndsBadly, EndsOpen, Moves, Journaled, Settling
    <3>2. job'[c].resuming = job[c].resuming \/ ~job'[c].resuming
      BY <1>0, <2>7 DEF Signs, Creates, Records, Waits, Rebuilds, Resubmission, Ends,
                        Moves, Same
    <3>3. Operating(c)' => Operating(c)
      <4>1. Rebuilds(c) \/ Resubmission(c) => ~job[c].resuming
        BY DEF Rebuilds, Resubmission, SoundInv, JobInv, JobOK
      <4> QED
        BY <1>0, <2>7, <3>1, <3>2, <4>1
           DEF Operating, Signs, Creates, Records, Waits, Ends, Moves, Same
    <3> QED
      BY <1>0, <2>1, <3>1, <3>3, StayInLine
  <2> QED
    BY <1>1, <2>2, <2>3, <2>4, <2>5, <2>6, <2>7 DEF Kind
<1>2. ASSUME NEW p \in Process, Crash(p) PROVE QueueInv'
  BY <1>0, <1>2, CrashLine
<1>3. CASE UNCHANGED <<job, queue>>
  BY <1>3 DEF QueueInv, LineOf, PlaceOf, InLine, HasTurn, Operating
<1> QED
  BY <1>0, <1>1, <1>2, <1>3, StepKinds, ClusterEffect DEF Next, vars

\* Nobody waits behind a call that is over: the head of a queue is a call that
\* still has to return, or to die with its process.
THEOREM HeadIsAtWork == Spec => []HeadIsPending
<1>1. Init => QueueInv
  BY DEF Init, QueueInv, LineOf, PlaceOf, Operating, IdleJob
<1>2. SoundInv /\ QueueInv => HeadIsPending
  BY QueueFacts DEF SoundInv, QueueInv, LineOf, HeadIsPending
<1> QED
  BY <1>1, <1>2, SoundInit, SoundInduction, QueueInduction, PTL DEF Spec

-----------------------------------------------------------------------------
(* One node answers the requests of an expiry inspection *)

\* Nothing of it trades, unless somebody sends it first.
Over(t) == Closed(t) \/ NeverLeft(t)

\* The operation of the key: there is one, it signs its next transaction when
\* all that is journaled is over, and what it settles was journaled last.  In
\* the attempt it is at, only the last submission has been refused.
OperationOK(c) ==
    Operating(c) =>
        /\ \A d \in Call : Operating(d) => d = c
        /\ job[c].pc \in {"build", "create", "record"} =>
              \A t \in intent.submissions :
                  /\ Over(t) /\ t.attempt <= job[c].attempt
                  /\ t.attempt = job[c].attempt =>
                        job[c].again /\ t = intent.last /\ NeverLeft(t)
        /\ job[c].pc \in Journaled =>
              /\ job[c].tx = intent.last
              /\ \A t \in intent.submissions :
                  /\ t.attempt <= job[c].attempt
                  /\ t.attempt = job[c].attempt => job[c].again \/ t = intent.last

\* Absence is asked for after expiry was seen.
ExpiryOK(c) ==
    job[c].pc \in {"absence", "lastAbsence"} => final > job[c].tx.lastValid

LastIsOpen ==
    intent # NoIntent =>
        \A t \in intent.submissions : t # intent.last => Over(t)

ReplaceInv == LastIsOpen /\ \A c \in Call : OperationOK(c) /\ ExpiryOK(c)

AtRest(c) == job[c].pc \in {"idle", "queued"}

\* While a call operates nobody settles and nothing is resolved, so what it
\* is about to send has not been sent before.
ExclusiveOK(c) ==
    Operating(c) =>
        /\ \A d \in Call \ {c} : AtRest(d)
        /\ intent.result \notin Terminal
        /\ job[c].pc = "send" => net[job[c].tx] = "none"

LatestOK(c) == job[c].pc \in Journaled => job[c].tx = intent.last

\* What has to be excluded where a refused buy is submitted again: that the
\* refused bytes are still sent, by a repeated send or by another call.
Exclusive ==
    Resubmits => ~SendRetried /\ \A c \in Call : ExclusiveOK(c) /\ LatestOK(c)

\* A closed transaction stays closed: it may be sent again, but no block takes it.
LEMMA ClosedStays ==
    ASSUME SoundInv, [Next]_vars, NEW t \in Tx, Closed(t)
    PROVE  Closed(t)' /\ final' >= final
<1>0. TypeOK /\ t.lastValid \in Int /\ final \in Int
  BY DEF SoundInv, TypeOK, Tx
<1>1. CASE ClusterStep
  <2>1. final' >= final /\ final' \in Int
    BY <1>0, <1>1, ClusterEffect DEF TypeOK
  <2>2. InHistory(t)' => InHistory(t) \/ final < t.lastValid
    BY <1>0, <1>1, ClusterEffect
  <2> QED
    BY <1>0, <2>1, <2>2 DEF Closed
<1>2. ASSUME NEW c \in Call, Kind(c) PROVE Closed(t)' /\ final' >= final
  <2>1. final' = final /\ (net'[t] = net[t] \/ net'[t] = "inflight")
    BY <1>2, KindEffect
  <2> QED
    BY <1>0, <2>1 DEF Closed, InHistory
<1>3. CASE UNCHANGED <<net, final>>
  BY <1>0, <1>3 DEF Closed, InHistory
<1> QED
  BY <1>0, <1>1, <1>2, <1>3, StepKinds, CrashEffect DEF Next, vars, cluster

\* A refused transaction is not sent while the operation prepares the next,
\* and never again once another one is journaled.
LEMMA NeverLeftStays ==
    ASSUME SoundInv, Exclusive, [Next]_vars, NEW t \in Tx, NeverLeft(t),
           \/ t # intent.last
           \/ \E d \in Call : Operating(d) /\ job[d].pc \notin Journaled
    PROVE  NeverLeft(t)'
<1>0. Resubmits /\ net[t] = "none" /\ TypeOK
  BY DEF NeverLeft, SoundInv
<1>1. ASSUME NEW c \in Call, Kind(c) PROVE net'[t] = "none"
  <2> SUFFICES ASSUME job[c].pc \in Journaled, t = job[c].tx PROVE FALSE
    BY <1>0, <1>1, KindEffect
  <2>1. t = intent.last
    BY <1>0 DEF Exclusive, LatestOK
  <2>2. PICK d \in Call : Operating(d) /\ job[d].pc \notin Journaled
    BY <2>1
  <2>3. AtRest(c)
    BY <1>0, <2>2 DEF Exclusive, ExclusiveOK
  <2> QED
    BY <2>3 DEF AtRest, Journaled, Settling
<1>2. CASE ClusterStep
  BY <1>0, <1>2, ClusterEffect DEF NeverLeft
<1>3. CASE net' = net
  BY <1>0, <1>3 DEF NeverLeft
<1> QED
  BY <1>0, <1>1, <1>2, <1>3, StepKinds, CrashEffect DEF Next, vars, cluster, NeverLeft

\* What a call has left alone in another one stays right.
LEMMA KeepsOperation ==
    ASSUME SoundInv, ReplaceInv, Exclusive, [Next]_vars, NEW d \in Call,
           job'[d] = job[d],
           intent' = intent \/ (/\ intent # NoIntent
                                /\ intent'.submissions = intent.submissions
                                /\ intent'.last = intent.last),
           \A e \in Call : Operating(e)' => Operating(e)
    PROVE  OperationOK(d)' /\ ExpiryOK(d)'
<1>0. /\ OperationOK(d) /\ ExpiryOK(d) /\ JobOK(d) /\ final' >= final
      /\ final \in Int /\ final' \in Int
      /\ intent # NoIntent => intent.submissions \subseteq Tx
      /\ job[d].pc \in Journaled => job[d].tx \in Tx
  <2>1. TypeOK /\ TypeOK'
    BY SoundInduction DEF SoundInv
  <2>2. final' >= final
    <3>1. CASE ClusterStep
      BY <2>1, <3>1, ClusterEffect
    <3>2. CASE final' = final
      BY <2>1, <3>2 DEF TypeOK
    <3> QED
      BY <2>1, <3>1, <3>2, StepKinds, KindEffect, CrashEffect DEF Next, vars, cluster
  <2> QED
    BY <2>1, <2>2, IntentType DEF SoundInv, ReplaceInv, JobInv, JobOK, TypeOK
<1>1. intent # NoIntent => \A t \in intent.submissions : Closed(t) => Closed(t)'
  BY <1>0, ClosedStays
<1>2. Operating(d) => intent # NoIntent
  BY <1>0 DEF JobOK, Operating
<1>3. OperationOK(d)'
  <2> SUFFICES ASSUME Operating(d)' PROVE OperationOK(d)'
    BY DEF OperationOK
  <2>1. Operating(d) /\ intent # NoIntent
    BY <1>2
  <2>2. /\ intent'.submissions = intent.submissions /\ intent'.last = intent.last
    OBVIOUS
  <2>3. ASSUME job[d].pc \in {"build", "create", "record"},
               NEW t \in intent.submissions
        PROVE  /\ NeverLeft(t) => NeverLeft(t)'
               /\ Over(t)'
    <3>1. t \in Tx /\ job[d].pc \notin Journaled
      BY <1>0, <2>1, <2>3 DEF Journaled, Settling
    <3>2. NeverLeft(t) => NeverLeft(t)'
      BY <2>1, <3>1, NeverLeftStays
    <3>3. Over(t)
      BY <1>0, <2>1, <2>3 DEF OperationOK
    <3> QED
      BY <1>1, <2>1, <3>2, <3>3 DEF Over
  <2> QED
    BY <1>0, <2>1, <2>2, <2>3 DEF OperationOK
<1>4. ExpiryOK(d)'
  <2> SUFFICES ASSUME job[d].pc \in {"absence", "lastAbsence"}
               PROVE  final' > job[d].tx.lastValid
    BY DEF ExpiryOK
  <2>1. job[d].tx.lastValid \in Int /\ final > job[d].tx.lastValid
    BY <1>0 DEF ExpiryOK, Journaled, Settling, Tx
  <2> QED
    BY <1>0, <2>1
<1> QED
  BY <1>3, <1>4

LEMMA KeepsLast ==
    ASSUME SoundInv, ReplaceInv, Exclusive, [Next]_vars,
           intent' = intent \/ (/\ intent # NoIntent
                                /\ intent'.submissions = intent.submissions
                                /\ intent'.last = intent.last)
    PROVE  LastIsOpen'
<1>1. intent # NoIntent => intent.submissions \subseteq Tx
  BY IntentType DEF SoundInv, TypeOK
<1>2. intent # NoIntent =>
         \A t \in intent.submissions : t # intent.last /\ Over(t) => Over(t)'
  BY <1>1, ClosedStays, NeverLeftStays DEF Over
<1> QED
  BY <1>2 DEF ReplaceInv, LastIsOpen

LEMMA KindReplace ==
    ASSUME OneNode, SoundInv, ReplaceInv, Exclusive, NEW c \in Call, Kind(c), [Next]_vars
    PROVE  ReplaceInv'
<1>0. /\ TypeOK /\ JobOK(c) /\ OperationOK(c) /\ ExpiryOK(c) /\ LastIsOpen
      /\ job \in [Call -> Job] /\ job[c].attempt \in 0..MaxAttempts
      /\ intent \in Intent \cup {NoIntent}
      /\ intent # NoIntent => intent.submissions \subseteq Tx
      /\ \A d \in Call \ {c} : job'[d] = job[d]
      /\ final' = final /\ final \in Nat
      /\ \A t \in Tx : t.attempt \in Nat /\ t.lastValid \in Nat
  BY IntentType, JobType, KindEffect
     DEF SoundInv, ReplaceInv, JobInv, TypeOK, Tx
<1>1. intent # NoIntent =>
         \A t \in intent.submissions :
            /\ Closed(t) => Closed(t)'
            /\ net' = net /\ NeverLeft(t) => NeverLeft(t)'
            /\ net' = net /\ Over(t) => Over(t)'
  BY <1>0, ClosedStays DEF Over, NeverLeft
\* Steps that leave the submissions alone and do not start an operation.
<1>2. ASSUME intent' = intent \/ (/\ intent # NoIntent
                                  /\ intent'.submissions = intent.submissions
                                  /\ intent'.last = intent.last),
             Operating(c)' => Operating(c),
             OperationOK(c)' /\ ExpiryOK(c)'
      PROVE  ReplaceInv'
  <2>1. \A e \in Call : Operating(e)' => Operating(e)
    BY <1>0, <1>2 DEF Operating
  <2>2. \A d \in Call \ {c} : OperationOK(d)' /\ ExpiryOK(d)'
    BY <1>0, <1>2, <2>1, KeepsOperation
  <2>3. LastIsOpen'
    BY <1>2, KeepsLast
  <2> QED
    BY <1>2, <2>2, <2>3 DEF ReplaceInv
\* Of those, the ones after which c does not operate.
<1>3. ASSUME intent' = intent \/ (/\ intent # NoIntent
                                  /\ intent'.submissions = intent.submissions
                                  /\ intent'.last = intent.last),
             ~Operating(c)', job'[c].pc \notin {"absence", "lastAbsence"}
      PROVE  ReplaceInv'
  BY <1>2, <1>3 DEF OperationOK, ExpiryOK
<1>4. CASE RunReliableTrade(c)
  <2>1. job'[c].pc = "queued" /\ intent' = intent
    BY <1>0, <1>4 DEF RunReliableTrade, IdleJob, durable
  <2> QED
    BY <1>3, <2>1 DEF Operating
<1>5. CASE \E a \in Status : Answers(c, a)
  <2>1. job'[c].pc = "idle" /\ intent' = intent
    BY <1>0, <1>5, ReturnType DEF Answers, IdleJob, durable
  <2> QED
    BY <1>3, <2>1 DEF Operating
<1>6. CASE UpdateIntent(c)
  <2>1. job'[c].pc = "idle" /\ intent \in Intent
    BY <1>0, <1>6, ReturnType, JobType DEF UpdateIntent, IdleJob, JobOK
  <2>2. intent'.submissions = intent.submissions /\ intent'.last = intent.last
    BY <1>6, <2>1 DEF UpdateIntent, Resolved, Intent
  <2> QED
    BY <1>3, <2>1, <2>2, IntentType DEF Operating
<1>7. CASE Rechecks(c)
  <2>1. job'[c].pc = "recheck" /\ job'[c].resuming /\ intent' = intent
    BY <1>0, <1>7 DEF Rechecks, durable
  <2> QED
    BY <1>3, <2>1 DEF Operating
<1>8. CASE Claims(c)
  <2>1. /\ job'[c].pc = "build" /\ intent = NoIntent /\ intent'.submissions = {}
    BY <1>0, <1>8 DEF Claims, Moves, KeyFree
  <2>2. \A d \in Call : ~Operating(d)
    BY <2>1 DEF SoundInv, JobInv, JobOK, Operating
  <2>3. \A d \in Call \ {c} : ~Operating(d)' /\ OperationOK(d)' /\ ExpiryOK(d)'
    <3>1. \A d \in Call \ {c} : ~Operating(d)'
      BY <1>0, <2>2 DEF Operating
    <3> QED
      BY <1>0, <3>1 DEF OperationOK, ExpiryOK, ReplaceInv
  <2>4. OperationOK(c)' /\ ExpiryOK(c)'
    BY <2>1, <2>3 DEF OperationOK, ExpiryOK, Journaled, Settling
  <2>5. LastIsOpen'
    BY <2>1 DEF LastIsOpen
  <2> QED
    BY <2>3, <2>4, <2>5 DEF ReplaceInv
<1>9. CASE Signs(c) \/ Creates(c)
  <2>1. /\ job[c].pc \in {"build", "create"} /\ job'[c].pc \in {"create", "record"}
        /\ job'[c].attempt = job[c].attempt /\ job'[c].again = job[c].again
        /\ intent' = intent /\ net' = net /\ ~job[c].resuming
    BY <1>0, <1>9 DEF Signs, Creates, Moves, Same, JobOK, durable, cluster
  <2>2. Operating(c) /\ intent # NoIntent
    BY <1>0, <2>1 DEF Operating, JobOK
  <2>3. \A d \in Call : Operating(d)' => Operating(d)
    BY <1>0, <2>2 DEF Operating
  <2>4. OperationOK(c)'
    BY <1>0, <1>1, <2>1, <2>2, <2>3 DEF OperationOK, Journaled, Settling
  <2>5. ExpiryOK(c)'
    BY <2>1 DEF ExpiryOK
  <2> QED
    BY <1>2, <2>1, <2>2, <2>4, <2>5
\* The one step that adds a submission: all the others are over.
<1>10. CASE Records(c)
  <2> DEFINE t == job[c].tx
  <2>1. /\ job[c].pc = "record" /\ job'[c].pc = "send" /\ job'[c].tx = t
        /\ job'[c].attempt = job[c].attempt /\ job'[c].again = job[c].again
        /\ ~job[c].resuming /\ t \in Tx /\ t.attempt = job[c].attempt
        /\ intent \in Intent /\ net' = net
    BY <1>0, <1>10 DEF Records, Moves, Same, JobOK, cluster
  <2>2. Operating(c) /\ intent # NoIntent
    BY <1>0, <2>1 DEF Operating, JobOK
  <2>3. \A u \in intent.submissions :
           /\ Over(u) /\ u.attempt <= job[c].attempt
           /\ u.attempt = job[c].attempt => job[c].again /\ u = intent.last
    BY <1>0, <2>1, <2>2 DEF OperationOK
  <2>4. CASE t \in intent.submissions
    <3>1. intent' = intent /\ t = intent.last
      BY <1>10, <2>1, <2>3, <2>4 DEF Records, SubmissionAdded
    <3>2. \A d \in Call : Operating(d)' => Operating(d)
      BY <1>0, <2>2 DEF Operating
    <3>3. OperationOK(c)' /\ ExpiryOK(c)'
      BY <1>0, <2>1, <2>2, <2>3, <3>1, <3>2 DEF OperationOK, ExpiryOK
    <3> QED
      BY <1>2, <2>2, <3>1, <3>3
  <2>5. CASE t \notin intent.submissions
    <3>1. intent'.submissions = intent.submissions \cup {t} /\ intent'.last = t
      BY <1>10, <2>1, <2>5 DEF Records, SubmissionAdded, Intent
    <3>2. \A d \in Call \ {c} : ~Operating(d)
      BY <1>0, <2>2 DEF OperationOK
    <3>3. \A d \in Call \ {c} : ~Operating(d)' /\ OperationOK(d)' /\ ExpiryOK(d)'
      <4>1. \A d \in Call \ {c} : ~Operating(d)'
        BY <1>0, <3>2 DEF Operating
      <4> QED
        BY <1>0, <4>1 DEF OperationOK, ExpiryOK, ReplaceInv
    <3>4. \A u \in intent'.submissions :
             /\ u.attempt <= job[c].attempt
             /\ u.attempt = job[c].attempt => job[c].again \/ u = t
      BY <1>0, <2>1, <2>2, <2>3, <3>1
    <3>5. OperationOK(c)' /\ ExpiryOK(c)'
      BY <2>1, <3>1, <3>3, <3>4 DEF OperationOK, ExpiryOK
    <3>6. LastIsOpen'
      BY <1>1, <2>1, <2>2, <2>3, <3>1 DEF LastIsOpen
    <3> QED
      BY <3>3, <3>5, <3>6 DEF ReplaceInv
  <2> QED
    BY <2>4, <2>5
<1>11. CASE Waits(c)
  <2>1. /\ job[c].pc \in Journaled /\ job'[c].pc \in Settling
        /\ job'[c].tx = job[c].tx /\ job'[c].attempt = job[c].attempt
        /\ job'[c].again = job[c].again
        /\ job'[c].resuming = job[c].resuming /\ intent' = intent
        /\ job'[c].pc \in {"absence", "lastAbsence"} => final > job[c].tx.lastValid
    BY <1>0, <1>11 DEF Waits, Moves, Same
  <2>2. Operating(c)' => Operating(c)
    BY <2>1 DEF Operating, Journaled, Settling
  <2>3. \A d \in Call : Operating(d)' => Operating(d)
    BY <1>0, <2>2 DEF Operating
  <2>4. OperationOK(c)'
    BY <1>0, <2>1, <2>2, <2>3 DEF OperationOK, Settling
  <2>5. ExpiryOK(c)'
    BY <1>0, <2>1 DEF ExpiryOK
  <2> QED
    BY <1>2, <2>1, <2>2, <2>4, <2>5
\* The last submission has expired and is absent: now it is closed, too.
<1>12. CASE Rebuilds(c)
  <2> DEFINE t == job[c].tx
  <2>1. /\ job[c].pc = "absence" /\ job'[c].pc = "build" /\ ~InHistory(t)
        /\ job'[c].attempt = job[c].attempt + 1 /\ intent' = intent
        /\ ~job[c].resuming /\ net' = net
    BY <1>0, <1>12 DEF Rebuilds, Moves, MayLookAbsent, cluster
  <2>2. Operating(c) /\ intent # NoIntent /\ t \in Tx
    BY <1>0, <2>1 DEF Operating, JobOK, Journaled, Settling
  <2>3. /\ final > t.lastValid /\ t = intent.last
        /\ \A u \in intent.submissions : u.attempt <= job[c].attempt
    BY <1>0, <2>1, <2>2 DEF ExpiryOK, OperationOK, Journaled, Settling
  <2>4. Closed(t)
    BY <1>0, <2>1, <2>2, <2>3 DEF Closed
  <2>5. \A u \in intent.submissions : Over(u)'
    <3>1. \A u \in intent.submissions : Over(u)
      BY <1>0, <2>2, <2>3, <2>4 DEF LastIsOpen, Over
    <3> QED
      BY <1>1, <2>1, <2>2, <3>1
  <2>6. \A u \in intent.submissions :
           u.attempt <= job[c].attempt + 1 /\ u.attempt # job[c].attempt + 1
    BY <1>0, <2>2, <2>3
  <2>7. \A d \in Call : Operating(d)' => Operating(d)
    BY <1>0, <2>2 DEF Operating
  <2>8. OperationOK(c)' /\ ExpiryOK(c)'
    BY <1>0, <2>1, <2>2, <2>5, <2>6, <2>7 DEF OperationOK, ExpiryOK, Journaled, Settling
  <2> QED
    BY <1>2, <2>1, <2>2, <2>8
\* The refused submission has not left, and is the only one of its attempt.
<1>14. CASE Resubmission(c)
  <2> DEFINE t == job[c].tx
  <2>1. /\ job[c].pc \in {"build", "send"} /\ job'[c].pc = "build"
        /\ job'[c].attempt = job[c].attempt /\ ~job[c].again /\ job'[c].again
        /\ intent' = intent /\ Resubmits /\ ~SendRetried /\ net' = net
    BY <1>0, <1>14 DEF Resubmission, Moves, Exclusive
  <2>2. Operating(c) /\ intent # NoIntent /\ ~job[c].resuming
    BY <1>0, <2>1 DEF Operating, JobOK
  <2>3. \A u \in intent.submissions :
           /\ Over(u) /\ u.attempt <= job[c].attempt
           /\ u.attempt = job[c].attempt => u = intent.last /\ NeverLeft(u)
    <3>1. CASE job[c].pc = "build"
      BY <1>0, <2>1, <2>2, <3>1 DEF OperationOK
    <3>2. CASE job[c].pc = "send"
      <4>1. NeverLeft(t) /\ t = intent.last
        BY <2>1, <2>2, <3>2 DEF Exclusive, ExclusiveOK, LatestOK, NeverLeft, Journaled
      <4>2. \A u \in intent.submissions : Over(u)
        BY <1>0, <2>2, <4>1 DEF LastIsOpen, Over
      <4>3. \A u \in intent.submissions :
               /\ u.attempt <= job[c].attempt
               /\ u.attempt = job[c].attempt => u = intent.last
        BY <1>0, <2>1, <2>2, <3>2 DEF OperationOK, Journaled
      <4> QED
        BY <4>1, <4>2, <4>3
    <3> QED
      BY <2>1, <3>1, <3>2
  <2>4. \A d \in Call : Operating(d)' => Operating(d)
    BY <1>0, <2>2 DEF Operating
  <2>5. OperationOK(c)'
    BY <1>0, <1>1, <2>1, <2>2, <2>3, <2>4 DEF OperationOK, Journaled, Settling
  <2>6. ExpiryOK(c)'
    BY <2>1 DEF ExpiryOK
  <2> QED
    BY <1>2, <2>1, <2>2, <2>5, <2>6
<1>13. ASSUME NEW r \in Status, Ends(c, r)
       PROVE  ReplaceInv'
  <2>1. /\ job'[c].pc = "save" /\ job'[c].resuming = job[c].resuming
        /\ intent' = intent /\ job[c].pc \notin {"idle", "queued"}
    BY <1>0, <1>13 DEF Ends, EndsWell, EndsBadly, EndsOpen, Settling, Moves, Same
  <2>2. Operating(c)' => Operating(c)
    BY <2>1 DEF Operating
  <2>3. \A d \in Call : Operating(d)' => Operating(d)
    BY <1>0, <2>2 DEF Operating
  <2>4. OperationOK(c)' /\ ExpiryOK(c)'
    BY <1>0, <2>1, <2>2, <2>3 DEF OperationOK, ExpiryOK, Journaled, Settling
  <2> QED
    BY <1>2, <2>1, <2>2, <2>4
<1> QED
  BY <1>4, <1>5, <1>6, <1>7, <1>8, <1>9, <1>10, <1>11, <1>12, <1>13,
     <1>14 DEF Kind

LEMMA ReplaceInduction ==
    ASSUME OneNode
    PROVE  SoundInv /\ ReplaceInv /\ Exclusive /\ [Next]_vars => ReplaceInv'
<1> SUFFICES ASSUME SoundInv, ReplaceInv, Exclusive, [Next]_vars PROVE ReplaceInv'
  OBVIOUS
<1>1. ASSUME NEW c \in Call, Kind(c) PROVE ReplaceInv'
  BY <1>1, KindReplace
<1>2. CASE UNCHANGED <<intent, job>>
  <2>1. \A e \in Call : Operating(e)' => Operating(e)
    BY <1>2 DEF Operating
  <2> QED
    BY <1>2, <2>1, KeepsOperation, KeepsLast DEF ReplaceInv
<1>3. ASSUME NEW p \in Process, Crash(p) PROVE ReplaceInv'
  <2>1. /\ \A c \in Call : job'[c] = IF ProcessOf[c] = p THEN IdleJob ELSE job[c]
        /\ intent' = intent
    BY <1>3, CrashEffect DEF SoundInv, durable
  <2>2. \A e \in Call : Operating(e)' => Operating(e)
    BY <2>1 DEF Operating, IdleJob
  <2>3. ASSUME NEW d \in Call PROVE OperationOK(d)' /\ ExpiryOK(d)'
    <3>1. CASE ProcessOf[d] = p
      BY <2>1, <3>1 DEF OperationOK, ExpiryOK, Operating, IdleJob
    <3>2. CASE ProcessOf[d] # p
      BY <2>1, <2>2, <3>2, KeepsOperation
    <3> QED
      BY <3>1, <3>2
  <2> QED
    BY <2>1, <2>3, KeepsLast DEF ReplaceInv
<1> QED
  BY <1>1, <1>2, <1>3, StepKinds, ClusterEffect DEF SoundInv, Next, vars, durable

LEMMA ReplaceInit == Init => ReplaceInv
  BY DEF Init, ReplaceInv, LastIsOpen, OperationOK, ExpiryOK, Operating, IdleJob

LEMMA LastIsAlive ==
    ASSUME SoundInv, ReplaceInv, NEW t \in Tx, Alive(t)
    PROVE  intent # NoIntent /\ t \in intent.submissions /\ t = intent.last
<1>1. net[t] # "none" /\ ~Over(t)
  BY DEF Alive, Over, NeverLeft, Closed, InHistory, Unsettled, SoundInv, TypeOK, Tx
<1>2. intent # NoIntent /\ t \in intent.submissions
  BY <1>1 DEF SoundInv, JournaledBeforeBroadcast
<1> QED
  BY <1>1, <1>2 DEF ReplaceInv, LastIsOpen

-----------------------------------------------------------------------------
(* One process uses the key, and its callers leave a running operation alone *)

OneCaller ==
    /\ OneNode /\ ResumeWaits /\ ~SendRetried /\ ~StoreMayFail
    /\ \A c, d \in Call : ProcessOf[c] = ProcessOf[d]

\* The transaction has not traded and never will.
Lost(t) == net[t] = "err" \/ Closed(t)

\* Or it was refused, and others have been journaled after it.
Spent(t) == Lost(t) \/ (t # intent.last /\ net[t] = "none")

\* "failed" is concluded when all is lost, or by the operation from an error
\* before anything left the process.
ResultOK(c) ==
    job[c].pc = "save" =>
        /\ job[c].result # "none"
        /\ job[c].result = "failed" =>
              \A t \in intent.submissions :
                  Spent(t) \/ (~job[c].resuming /\ net[t] = "none")

ToldOK(c) == told[c] = "failed" => intent # NoIntent /\ intent.result = "failed"

\* Once "failed" is stored, what is not lost was never sent, and nobody is
\* left to send it.
GivenUp ==
    intent # NoIntent /\ intent.result = "failed" =>
        \/ \A t \in intent.submissions : Spent(t)
        \/ /\ \A t \in intent.submissions : Lost(t) \/ net[t] = "none"
           /\ \A c \in Call : AtRest(c)

GuardedInv ==
    /\ \A c \in Call : ExclusiveOK(c) /\ LatestOK(c) /\ ResultOK(c) /\ ToldOK(c)
    /\ GivenUp

FullInv == SoundInv /\ QueueInv /\ ReplaceInv /\ GuardedInv

LEMMA LostStays ==
    ASSUME SoundInv, [Next]_vars, NEW t \in Tx, Lost(t)
    PROVE  Lost(t)'
<1>1. CASE Closed(t)
  BY <1>1, ClosedStays DEF Lost
<1>2. CASE net[t] = "err"
  <2>1. CASE ClusterStep
    BY <1>2, <2>1, ClusterEffect DEF Lost, SoundInv
  <2>2. ASSUME NEW c \in Call, Kind(c) PROVE net'[t] = "err"
    BY <1>2, <2>2, KindEffect
  <2>3. CASE net' = net
    BY <1>2, <2>3 DEF Lost
  <2> QED
    BY <2>1, <2>2, <2>3, StepKinds, CrashEffect DEF SoundInv, Next, vars, cluster, Lost
<1> QED
  BY <1>1, <1>2 DEF Lost

\* Nobody but the operation itself can settle or operate while it is there.
LEMMA RestStays ==
    ASSUME OneCaller, FullInv, NEW c \in Call, NEW d \in Call \ {c}, Kind(c),
           Operating(d)
    PROVE  AtRest(c)' /\ net' = net /\ intent' = intent
<1>0. /\ AtRest(c) /\ intent # NoIntent /\ HasTurn(d) /\ ProcessOf[c] = ProcessOf[d]
      /\ job[c].pc \in {"idle", "queued"} /\ ResumeWaits
      /\ job \in [Call -> Job] /\ TypeOK
  BY DEF FullInv, GuardedInv, ExclusiveOK, SoundInv, JobInv, JobOK, TypeOK,
         QueueInv, PlaceOf, OneCaller, AtRest, Operating
<1>1. ~Claims(c)
  BY <1>0 DEF Claims, KeyFree
<1>2. ~Rechecks(c)
  BY <1>0 DEF Rechecks, HasTurn, ClaimTurn
<1>3. CASE RunReliableTrade(c)
  BY <1>0, <1>3 DEF RunReliableTrade, IdleJob, AtRest, durable, cluster
<1>4. CASE \E a \in Status : Answers(c, a)
  BY <1>0, <1>4, ReturnType DEF Answers, IdleJob, AtRest, durable, cluster
<1> QED
  BY <1>0, <1>1, <1>2, <1>3, <1>4
     DEF Kind, Signs, Creates, Records, Waits, Rebuilds, Resubmission, Ends,
         EndsWell, EndsBadly, EndsOpen, UpdateIntent, Journaled, Settling

\* The submissions change where an operation claims the key or records one.
LEMMA KeepsSubmissions ==
    ASSUME SoundInv, NEW c \in Call, Kind(c), ~Claims(c), ~Records(c)
    PROVE  \/ intent' = intent
           \/ /\ UpdateIntent(c) /\ intent # NoIntent
              /\ intent'.submissions = intent.submissions
              /\ intent'.last = intent.last /\ intent' # NoIntent
<1>1. CASE UpdateIntent(c)
  <2>1. intent \in Intent /\ intent # NoIntent /\ intent' # NoIntent
    BY <1>1, KindEffect DEF UpdateIntent, SoundInv, JobInv, JobOK, TypeOK, Grows
  <2> QED
    BY <1>1, <2>1 DEF UpdateIntent, Resolved, Intent
<1>2. CASE ~UpdateIntent(c)
  BY <1>2 DEF Kind, RunReliableTrade, Rechecks, Answers, Signs, Creates, Waits,
              Rebuilds, Resubmission, Ends, durable
<1> QED
  BY <1>1, <1>2

\* What a call sends was journaled last, so what is spent stays so.
LEMMA SpentStays ==
    ASSUME OneCaller, FullInv, [Next]_vars, intent # NoIntent,
           NEW t \in intent.submissions, Spent(t)
    PROVE  Spent(t)'
<1>0. /\ SoundInv /\ TypeOK /\ intent \in Intent /\ t \in Tx
      /\ \A c \in Call : LatestOK(c)
  <2>1. TypeOK /\ intent \in Intent
    BY DEF FullInv, SoundInv, TypeOK
  <2> QED
    BY <2>1, IntentType DEF FullInv, GuardedInv
<1>1. CASE Lost(t)
  BY <1>0, <1>1, LostStays DEF Spent
<1>2. CASE t # intent.last /\ net[t] = "none"
  <2>1. ASSUME NEW c \in Call, Kind(c)
        PROVE  net'[t] = "none" /\ t # intent'.last
    <3>1. net'[t] = "none"
      BY <1>0, <1>2, <2>1, KindEffect DEF LatestOK
    <3>2. ~Claims(c)
      BY DEF Claims, KeyFree
    <3>3. CASE Records(c)
      <4> DEFINE u == job[c].tx
                 i == [intent EXCEPT !.submissions = @ \cup {u}, !.last = u]
      <4>1. i.last = u
        BY <1>0 DEF Intent
      <4>2. intent' = intent \/ (intent' = i /\ u # t)
        BY <3>3 DEF Records, SubmissionAdded
      <4> HIDE DEF i
      <4> QED
        BY <1>2, <3>1, <4>1, <4>2
    <3>4. CASE ~Records(c)
      <4>1. intent' = intent \/ intent'.last = intent.last
        BY <1>0, <2>1, <3>2, <3>4, KeepsSubmissions
      <4> QED
        BY <1>2, <3>1, <4>1
    <3> QED
      BY <3>1, <3>3, <3>4
  <2>2. ClusterStep => net'[t] = "none" /\ intent' = intent
    BY <1>0, <1>2, ClusterEffect DEF durable
  <2>3. (\E p \in Process : Crash(p)) \/ UNCHANGED vars
           => net'[t] = "none" /\ intent' = intent
    BY <1>0, <1>2, CrashEffect DEF vars, durable, cluster
  <2> QED
    BY <1>0, <1>2, <2>1, <2>2, <2>3, StepKinds DEF Next, Spent
<1> QED
  BY <1>1, <1>2 DEF Spent

\* A resolved result is not touched.
LEMMA ResolvedStep ==
    ASSUME OneCaller, FullInv, NEW c \in Call, Kind(c), intent # NoIntent,
           intent.result \in Terminal
    PROVE  intent' = intent
<1>0. /\ intent \in Intent /\ TypeOK /\ ResultOK(c) /\ ExclusiveOK(c) /\ GivenUp
      /\ JobOK(c) /\ job[c].result \in Status /\ intent.submissions \subseteq Tx
      /\ \A t \in Tx : Spent(t) \/ Lost(t) => net[t] # "ok"
  <2>1. \A t \in Tx : Spent(t) \/ Lost(t) => net[t] # "ok"
    BY DEF Spent, Lost, Closed, InHistory
  <2> QED
    BY <2>1, IntentType, JobType
       DEF FullInv, GuardedInv, SoundInv, TypeOK, JobInv
<1>1. ~Claims(c)
  BY DEF Claims, KeyFree
<1>2. ~Records(c)
  BY <1>0 DEF Records, JobOK, ExclusiveOK, Operating
<1>3. CASE UpdateIntent(c)
  <2>1. job[c].pc = "save" /\ intent' = Resolved(intent, job[c].result)
    BY <1>3 DEF UpdateIntent
  <2>2. CASE job[c].result = "unresolved"
    BY <2>1, <2>2 DEF Resolved
  <2>3. CASE job[c].result = "confirmed"
    <3>1. \E t \in intent.submissions : net[t] = "ok"
      BY <1>0, <2>1, <2>3 DEF JobOK
    <3>2. intent.result = "confirmed"
      BY <1>0, <3>1 DEF GivenUp, Terminal
    <3> QED
      BY <1>0, <2>1, <2>3, <3>2 DEF Resolved, Intent
  <2>4. CASE job[c].result = "failed"
    <3>1. \A t \in intent.submissions : net[t] # "ok"
      BY <1>0, <2>1, <2>4 DEF ResultOK
    <3>2. intent.result = "failed"
      BY <3>1 DEF Terminal, FullInv, SoundInv, ConfirmedIsTrue
    <3> QED
      BY <1>0, <2>1, <2>4, <3>2 DEF Resolved, Intent
  <2> QED
    BY <1>0, <2>1, <2>2, <2>3, <2>4 DEF ResultOK, Status
<1> QED
  BY <1>1, <1>2, <1>3, KeepsSubmissions DEF FullInv

\* What a step of c leaves to the others.
LEMMA OthersGuarded ==
    ASSUME OneCaller, FullInv, [Next]_vars, NEW c \in Call, Kind(c),
           NEW d \in Call \ {c}
    PROVE  ExclusiveOK(d)' /\ LatestOK(d)' /\ ResultOK(d)' /\ ToldOK(d)'
<1>0. /\ job'[d] = job[d] /\ told'[d] = told[d]
      /\ ExclusiveOK(d) /\ LatestOK(d) /\ ResultOK(d) /\ ToldOK(d) /\ JobOK(d)
      /\ ExclusiveOK(c) /\ JobOK(c) /\ SoundInv /\ TypeOK
      /\ intent # NoIntent => intent.submissions \subseteq Tx
      /\ \A e \in Call \ {c} : job'[e] = job[e]
  BY KindEffect, IntentType DEF FullInv, GuardedInv, SoundInv, JobInv, TypeOK
<1>1. ToldOK(d)'
  <2> SUFFICES ASSUME told[d] = "failed"
               PROVE  intent' # NoIntent /\ intent'.result = "failed"
    BY <1>0 DEF ToldOK
  <2>1. intent # NoIntent /\ intent.result = "failed"
    BY <1>0 DEF ToldOK
  <2> QED
    BY <2>1, ResolvedStep DEF Terminal
<1>2. ExclusiveOK(d)'
  <2> SUFFICES ASSUME Operating(d) PROVE ExclusiveOK(d)'
    BY <1>0 DEF ExclusiveOK, Operating
  <2>1. AtRest(c)' /\ net' = net /\ intent' = intent
    BY RestStays
  <2>2. \A e \in Call \ {d} : AtRest(e)'
    BY <1>0, <2>1 DEF ExclusiveOK, AtRest
  <2> QED
    BY <1>0, <2>1, <2>2 DEF ExclusiveOK
<1>3. CASE AtRest(d)
  BY <1>0, <1>1, <1>2, <1>3 DEF AtRest, LatestOK, ResultOK, Journaled, Settling
<1>4. CASE ~AtRest(d)
  <2>1. intent # NoIntent /\ ~Operating(c)
    BY <1>0, <1>4 DEF AtRest, JobOK, ExclusiveOK
  <2>2. ~Claims(c) /\ ~Records(c)
    BY <1>0, <2>1 DEF Claims, KeyFree, Records, JobOK, Operating
  <2>3. intent'.submissions = intent.submissions /\ intent'.last = intent.last
    BY <1>0, <2>1, <2>2, KeepsSubmissions
  <2>4. LatestOK(d)'
    BY <1>0, <2>3 DEF LatestOK
  <2>5. ASSUME NEW t \in intent.submissions, job[d].pc = "save",
               job[d].result = "failed"
        PROVE  Spent(t)' \/ (~job[d].resuming /\ net'[t] = "none")
    <3>1. CASE Spent(t)
      BY <2>1, <3>1, SpentStays
    <3>2. CASE ~job[d].resuming /\ net[t] = "none"
      <4>1. Operating(d)
        BY <2>5, <3>2 DEF Operating
      <4> QED
        BY <3>2, <4>1, RestStays
    <3> QED
      BY <1>0, <2>5, <3>1, <3>2 DEF ResultOK
  <2>6. ResultOK(d)'
    BY <1>0, <2>3, <2>5 DEF ResultOK
  <2> QED
    BY <1>1, <1>2, <2>4, <2>6
<1> QED
  BY <1>3, <1>4

\* The result a step concludes, and what its call settles from then on.
LEMMA EndsGuarded ==
    ASSUME OneCaller, FullInv, [Next]_vars, NEW c \in Call, NEW r \in Status,
           Ends(c, r)
    PROVE  ResultOK(c)'
<1>0. /\ job \in [Call -> Job] /\ SoundInv /\ ReplaceInv /\ TypeOK
      /\ JobOK(c) /\ OperationOK(c) /\ ExpiryOK(c) /\ LatestOK(c) /\ ExclusiveOK(c)
      /\ ~SendRetried /\ OneNode
      /\ \A t \in Tx : t.lastValid \in Int
      /\ final \in Int
  BY DEF FullInv, GuardedInv, SoundInv, TypeOK, JobInv, ReplaceInv, OneCaller, Tx
<1>1. /\ job'[c].pc = "save" /\ job'[c].resuming = job[c].resuming
      /\ job'[c].result = r /\ intent' = intent
      /\ job[c].pc \notin {"idle", "queued"} /\ intent # NoIntent
  BY <1>0 DEF Ends, EndsWell, EndsBadly, EndsOpen, Settling, Moves, Same, JobOK
<1>2. CASE r # "failed"
  BY <1>1, <1>2 DEF Ends, ResultOK
<1>3. CASE r = "failed"
  <2>1. EndsBadly(c) /\ final' = final
    BY <1>3 DEF Ends
  <2>2. intent.submissions \subseteq Tx
    BY <1>0, <1>1, IntentType DEF TypeOK
  <2>3. job[c].pc \in Journaled =>
           \A t \in intent.submissions : t # job[c].tx => Spent(t)
    BY <1>0, <1>1 DEF ReplaceInv, LastIsOpen, LatestOK, Over, NeverLeft, Spent, Lost
  <2>4. ASSUME NEW t \in intent.submissions
        PROVE  Spent(t) \/ (~job[c].resuming /\ net'[t] = "none")
    <3>1. CASE job[c].pc \in {"confirm", "recheck"} /\ net[job[c].tx] = "err"
      BY <2>3, <3>1 DEF Spent, Lost, Journaled, Settling
    <3>2. CASE job[c].pc \in {"absence", "lastAbsence"} /\ MayLookAbsent(job[c].tx)
      <4>1. job[c].tx \in Tx /\ final > job[c].tx.lastValid
        BY <1>0, <3>2 DEF JobOK, ExpiryOK, Journaled, Settling
      <4>2. Spent(job[c].tx)
        BY <1>0, <3>2, <4>1 DEF MayLookAbsent, Spent, Lost, Closed
      <4> QED
        BY <2>3, <3>2, <4>2 DEF Journaled, Settling
    <3>3. CASE job[c].pc = "build"
      <4>1. Operating(c) /\ ~job[c].resuming /\ net' = net
        BY <1>0, <2>1, <3>3 DEF JobOK, Operating, EndsBadly
      <4>2. Closed(t) \/ net[t] = "none"
        BY <1>0, <3>3, <4>1 DEF OperationOK, Over, NeverLeft
      <4> QED
        BY <4>1, <4>2 DEF Spent, Lost
    <3>4. CASE job[c].pc = "send" /\ net' = net
      <4>1. Operating(c) /\ ~job[c].resuming
        BY <1>0, <3>4 DEF JobOK, Operating
      <4>2. net'[job[c].tx] = "none"
        BY <1>0, <3>4, <4>1 DEF ExclusiveOK
      <4> QED
        BY <2>3, <3>4, <4>1, <4>2 DEF Journaled
    <3> QED
      BY <1>0, <2>1, <3>1, <3>2, <3>3, <3>4 DEF EndsBadly
  <2>5. ASSUME NEW t \in intent.submissions
         PROVE  Spent(t)' \/ (~job[c].resuming /\ net'[t] = "none")
    BY <1>1, <2>4, SpentStays
  <2> QED
    BY <1>1, <1>3, <2>5 DEF ResultOK
<1> QED
  BY <1>2, <1>3

\* The call that takes the step: it may start to operate when nobody has the
\* key, and to settle when nobody operates.
LEMMA OwnGuarded ==
    ASSUME OneCaller, FullInv, [Next]_vars, NEW c \in Call, Kind(c)
    PROVE  ExclusiveOK(c)' /\ LatestOK(c)' /\ ResultOK(c)' /\ ToldOK(c)'
<1>0. /\ job \in [Call -> Job] /\ told \in [Call -> Status] /\ SoundInv /\ TypeOK
      /\ JobOK(c) /\ ExclusiveOK(c) /\ LatestOK(c) /\ ResultOK(c) /\ ToldOK(c)
      /\ job[c].result \in Status /\ ~StoreMayFail
      /\ intent \in Intent \cup {NoIntent} /\ Grows
      /\ \A d \in Call \ {c} : job'[d] = job[d]
      /\ net \in [Tx -> TxStatus]
  BY JobType, KindEffect
     DEF FullInv, GuardedInv, SoundInv, TypeOK, JobInv, OneCaller
\* What c says is false only in what it says from now on.
<1>1. CASE RunReliableTrade(c)
  <2>1. job'[c].pc = "queued" /\ told'[c] = "none"
    BY <1>0, <1>1 DEF RunReliableTrade, IdleJob
  <2> QED
    BY <2>1 DEF ExclusiveOK, LatestOK, ResultOK, ToldOK, Operating, Journaled, Settling
<1>2. CASE Claims(c)
  <2>1. /\ intent = NoIntent /\ job'[c].pc = "build" /\ told'[c] = told[c]
        /\ intent'.result = "none"
    BY <1>0, <1>2 DEF Claims, KeyFree, Moves
  <2>2. \A d \in Call \ {c} : AtRest(d)'
    BY <1>0, <2>1 DEF SoundInv, JobInv, JobOK, AtRest
  <2>3. told'[c] # "failed"
    BY <1>0, <2>1 DEF ToldOK
  <2> QED
    BY <2>1, <2>2, <2>3
       DEF ExclusiveOK, LatestOK, ResultOK, ToldOK, Terminal, Journaled, Settling
<1>3. CASE Rechecks(c)
  <2>1. /\ job'[c].pc = "recheck" /\ job'[c].resuming /\ told'[c] = "none"
        /\ job'[c].tx = intent.last /\ intent' = intent
    BY <1>0, <1>3 DEF Rechecks, durable
  <2> QED
    BY <2>1 DEF ExclusiveOK, LatestOK, ResultOK, ToldOK, Operating
<1>4. ASSUME NEW a \in Status, Answers(c, a)
      PROVE  ExclusiveOK(c)' /\ LatestOK(c)' /\ ResultOK(c)' /\ ToldOK(c)'
  <2>1. job'[c].pc = "idle" /\ told'[c] = a /\ intent' = intent
    BY <1>0, <1>4, ReturnType DEF Answers, IdleJob, durable
  <2>2. a = "failed" => intent # NoIntent /\ intent.result = "failed"
    BY <1>0, <1>4 DEF Answers, Terminal
  <2> QED
    BY <2>1, <2>2 DEF ExclusiveOK, LatestOK, ResultOK, ToldOK, Operating, Journaled, Settling
<1>5. CASE UpdateIntent(c)
  <2>1. /\ job[c].pc = "save" /\ intent' = Resolved(intent, job[c].result)
        /\ intent # NoIntent /\ intent' # NoIntent /\ intent \in Intent
        /\ job'[c].pc = "idle" /\ told'[c] = job[c].result
    BY <1>0, <1>5, ReturnType DEF UpdateIntent, JobOK, IdleJob, Grows
  <2>2. job[c].result = "failed" => intent'.result = "failed"
    BY <2>1 DEF Resolved, Intent
  <2> QED
    BY <2>1, <2>2 DEF ExclusiveOK, LatestOK, ResultOK, ToldOK, Operating, Journaled, Settling
\* The other kinds: c settles, or is the operation and stays it.
<1>6. ASSUME intent # NoIntent, intent' # NoIntent,
             intent'.result = intent.result, told'[c] = told[c],
             Operating(c)' => Operating(c),
             job'[c].pc = "send" => net'[job'[c].tx] = "none",
             LatestOK(c)', ResultOK(c)'
      PROVE  ExclusiveOK(c)' /\ LatestOK(c)' /\ ResultOK(c)' /\ ToldOK(c)'
  <2>1. ToldOK(c)'
    BY <1>0, <1>6 DEF ToldOK
  <2>2. ExclusiveOK(c)'
    <3> SUFFICES ASSUME Operating(c)' PROVE ExclusiveOK(c)'
      BY DEF ExclusiveOK
    <3>1. \A d \in Call \ {c} : AtRest(d)'
      BY <1>0, <1>6 DEF ExclusiveOK, AtRest
    <3>2. intent'.result \notin Terminal
      BY <1>0, <1>6 DEF ExclusiveOK
    <3> QED
      BY <1>6, <3>1, <3>2 DEF ExclusiveOK
  <2> QED
    BY <1>6, <2>1, <2>2
<1>7. CASE Signs(c) \/ Creates(c) \/ Rebuilds(c) \/ Resubmission(c)
  <2>1. /\ job'[c].pc \in {"create", "record", "build"} /\ told'[c] = told[c]
        /\ job[c].pc \in {"build", "create", "send", "absence"}
        /\ intent' = intent /\ ~job[c].resuming
    BY <1>0, <1>7
       DEF Signs, Creates, Rebuilds, Resubmission, Moves, Same, JobOK, durable
  <2>2. intent # NoIntent /\ (Operating(c)' => Operating(c))
    BY <1>0, <2>1 DEF JobOK, Operating
  <2>3. LatestOK(c)' /\ ResultOK(c)'
    BY <2>1 DEF LatestOK, ResultOK, Journaled, Settling
  <2> QED
    BY <1>6, <2>1, <2>2, <2>3
\* A transaction that is signed anew, or was refused, has never been sent.
<1>8. CASE Records(c)
  <2> DEFINE t == job[c].tx
  <2>1. /\ job[c].pc = "record" /\ job'[c].pc = "send" /\ job'[c].tx = t
        /\ job'[c].resuming = job[c].resuming /\ told'[c] = told[c]
        /\ intent # NoIntent /\ intent' # NoIntent /\ t \in Tx /\ net' = net
        /\ intent \in Intent /\ ~job[c].resuming /\ t.attempt = job[c].attempt
    BY <1>0, <1>8 DEF Records, Moves, Same, JobOK, Grows, cluster
  <2>2. Operating(c)
    BY <2>1 DEF Operating
  <2>3. t \in intent.submissions => t = intent.last /\ net[t] = "none"
    BY <2>1, <2>2 DEF FullInv, ReplaceInv, OperationOK, NeverLeft
  <2>4. net[t] = "none"
    BY <1>0, <2>1, <2>3 DEF SoundInv, JournaledBeforeBroadcast
  <2>5. intent'.result = intent.result /\ intent'.last = t
    BY <1>8, <2>1, <2>3 DEF Records, SubmissionAdded, Intent
  <2>6. LatestOK(c)' /\ ResultOK(c)'
    BY <2>1, <2>5 DEF LatestOK, ResultOK
  <2> QED
    BY <1>6, <2>1, <2>2, <2>4, <2>5, <2>6
<1>9. CASE Waits(c)
  <2>1. /\ job[c].pc \in Journaled /\ job'[c].pc \in Settling
        /\ job'[c].tx = job[c].tx /\ told'[c] = told[c]
        /\ job'[c].resuming = job[c].resuming /\ intent' = intent
    BY <1>0, <1>9 DEF Waits, Moves, Same
  <2>2. intent # NoIntent /\ (Operating(c)' => Operating(c))
    BY <1>0, <2>1 DEF JobOK, Operating, Journaled, Settling
  <2>3. LatestOK(c)' /\ ResultOK(c)' /\ job'[c].pc # "send"
    BY <1>0, <2>1 DEF LatestOK, ResultOK, Settling
  <2> QED
    BY <1>6, <2>1, <2>2, <2>3
<1>10. ASSUME NEW r \in Status, Ends(c, r)
       PROVE  ExclusiveOK(c)' /\ LatestOK(c)' /\ ResultOK(c)' /\ ToldOK(c)'
  <2>1. /\ job'[c].pc = "save" /\ job'[c].resuming = job[c].resuming
        /\ intent' = intent /\ job[c].pc \notin {"idle", "queued"}
        /\ told'[c] = told[c]
    BY <1>0, <1>10 DEF Ends, EndsWell, EndsBadly, EndsOpen, Settling, Moves, Same
  <2>2. intent # NoIntent /\ (Operating(c)' => Operating(c))
    BY <1>0, <2>1 DEF JobOK, Operating
  <2>3. LatestOK(c)' /\ ResultOK(c)'
    BY <1>10, <2>1, EndsGuarded DEF LatestOK, Journaled, Settling
  <2> QED
    BY <1>6, <2>1, <2>2, <2>3
<1> QED
  BY <1>1, <1>2, <1>3, <1>4, <1>5, <1>7, <1>8, <1>9, <1>10 DEF Kind

\* "failed" is stored by a call whose result was right, and then nobody sends.
LEMMA GivenUpStays ==
    ASSUME OneCaller, FullInv, [Next]_vars, NEW c \in Call, Kind(c)
    PROVE  GivenUp'
<1>0. /\ job \in [Call -> Job] /\ SoundInv /\ TypeOK /\ GivenUp /\ JobOK(c)
      /\ ResultOK(c) /\ ExclusiveOK(c)
      /\ intent # NoIntent => intent \in Intent /\ intent.submissions \subseteq Tx
      /\ \A d \in Call \ {c} : job'[d] = job[d]
  BY IntentType, KindEffect DEF FullInv, GuardedInv, SoundInv, TypeOK, JobInv
<1>1. CASE intent # NoIntent /\ intent.result = "failed"
  <2>1. intent' = intent
    BY <1>1, ResolvedStep DEF Terminal
  <2>2. CASE \A t \in intent.submissions : Spent(t)
    <3>1. ASSUME NEW t \in intent.submissions PROVE Spent(t)'
      BY <1>1, <2>2, SpentStays
    <3> QED
      BY <2>1, <3>1 DEF GivenUp
  <2>3. CASE /\ \A t \in intent.submissions : Lost(t) \/ net[t] = "none"
             /\ \A d \in Call : AtRest(d)
    <3>1. AtRest(c) /\ ~Claims(c) /\ ~Rechecks(c)
      BY <1>1, <2>3 DEF Claims, KeyFree, Rechecks, StoredResult, Terminal
    <3>2. AtRest(c)' /\ net' = net
      <4>1. CASE RunReliableTrade(c)
        BY <1>0, <4>1 DEF RunReliableTrade, IdleJob, AtRest, cluster
      <4>2. CASE \E a \in Status : Answers(c, a)
        BY <1>0, <4>2, ReturnType DEF Answers, IdleJob, AtRest, cluster
      <4> QED
        BY <3>1, <4>1, <4>2
           DEF Kind, Signs, Creates, Records, Waits, Rebuilds, Resubmission, Ends,
               EndsWell, EndsBadly, EndsOpen, UpdateIntent, AtRest, Journaled,
               Settling
    <3>3. \A d \in Call : AtRest(d)'
      BY <1>0, <2>3, <3>2 DEF AtRest
    <3>4. ASSUME NEW t \in intent.submissions PROVE Lost(t)' \/ net'[t] = "none"
      BY <1>0, <1>1, <2>3, <3>2, LostStays
    <3> QED
      BY <2>1, <3>3, <3>4 DEF GivenUp
  <2> QED
    BY <1>0, <1>1, <2>2, <2>3 DEF GivenUp
<1>2. CASE ~(intent # NoIntent /\ intent.result = "failed")
  <2> SUFFICES ASSUME intent' # NoIntent, intent'.result = "failed"
               PROVE  GivenUp'
    BY DEF GivenUp
  <2>1. ~Claims(c)
    BY DEF Claims
  <2>2. ~Records(c)
    <3> SUFFICES ASSUME Records(c) PROVE FALSE
      OBVIOUS
    <3>1. intent \in Intent /\ intent' = SubmissionAdded(intent, job[c].tx)
      BY <1>0 DEF Records, JobOK
    <3>2. intent'.result = intent.result
      BY <3>1 DEF SubmissionAdded, Intent
    <3> QED
      BY <1>0, <1>2, <3>1, <3>2
  <2>3. UpdateIntent(c) /\ intent # NoIntent /\ intent'.submissions = intent.submissions
    BY <1>0, <1>2, <2>1, <2>2, KeepsSubmissions
  <2>4. /\ job[c].pc = "save" /\ intent' = Resolved(intent, job[c].result)
        /\ job'[c].pc = "idle" /\ net' = net
    BY <1>0, <2>3, ReturnType, JobType DEF UpdateIntent, IdleJob, cluster
  <2>5. job[c].result = "failed"
    BY <1>0, <1>2, <2>3, <2>4 DEF Resolved, Intent
  <2>6. CASE job[c].resuming
    <3>1. ASSUME NEW t \in intent.submissions PROVE Spent(t)'
      BY <1>0, <2>3, <2>4, <2>5, <2>6, SpentStays DEF ResultOK
    <3> QED
      BY <2>3, <3>1 DEF GivenUp
  <2>7. CASE ~job[c].resuming
    <3>1. \A d \in Call \ {c} : AtRest(d)
      BY <1>0, <2>4, <2>7 DEF ExclusiveOK, Operating
    <3>2. \A d \in Call : AtRest(d)'
      BY <1>0, <2>4, <3>1 DEF AtRest
    <3>3. ASSUME NEW t \in intent.submissions PROVE Lost(t)' \/ net'[t] = "none"
      <4>1. Lost(t) \/ net[t] = "none"
        BY <1>0, <2>4, <2>5 DEF ResultOK, Spent
      <4> QED
        BY <1>0, <2>3, <2>4, <4>1, LostStays
    <3> QED
      BY <2>3, <3>2, <3>3 DEF GivenUp
  <2> QED
    BY <2>6, <2>7
<1> QED
  BY <1>1, <1>2

LEMMA GuardedInduction ==
    ASSUME OneCaller
    PROVE  FullInv /\ [Next]_vars => GuardedInv'
<1> SUFFICES ASSUME FullInv, [Next]_vars PROVE GuardedInv'
  OBVIOUS
<1>0. SoundInv /\ TypeOK /\ (intent # NoIntent => intent.submissions \subseteq Tx)
  BY IntentType DEF FullInv, SoundInv, TypeOK
<1>1. ASSUME NEW c \in Call, Kind(c) PROVE GuardedInv'
  BY <1>1, OthersGuarded, OwnGuarded, GivenUpStays DEF GuardedInv
\* The cluster, the death of the process, or nothing.
<1>2. ASSUME intent' = intent, told' = told,
             \A t \in Tx : net[t] = "none" => net'[t] = "none",
             \A c \in Call : job'[c] = job[c] \/ job'[c] = IdleJob
      PROVE  GuardedInv'
  <2>1. ASSUME NEW d \in Call
        PROVE  ExclusiveOK(d)' /\ LatestOK(d)' /\ ResultOK(d)' /\ ToldOK(d)'
    <3>1. ToldOK(d)' /\ ExclusiveOK(d) /\ LatestOK(d) /\ ResultOK(d) /\ JobOK(d)
      BY <1>2 DEF FullInv, GuardedInv, SoundInv, JobInv, ToldOK
    <3>2. CASE job'[d] = IdleJob
      BY <3>1, <3>2
         DEF ExclusiveOK, LatestOK, ResultOK, IdleJob, Operating, Journaled, Settling
    <3>3. CASE job'[d] = job[d]
      <4>1. ExclusiveOK(d)'
        <5> SUFFICES ASSUME Operating(d) PROVE ExclusiveOK(d)'
          BY <3>3 DEF ExclusiveOK, Operating
        <5>1. \A e \in Call \ {d} : AtRest(e)'
          BY <1>2, <3>1 DEF ExclusiveOK, AtRest, IdleJob
        <5>2. job[d].pc = "send" => job[d].tx \in Tx
          BY <3>1 DEF JobOK, Journaled
        <5> QED
          BY <1>2, <3>1, <3>3, <5>1, <5>2 DEF ExclusiveOK
      <4>2. LatestOK(d)'
        BY <1>2, <3>1, <3>3 DEF LatestOK
      <4>3. ASSUME job[d].pc = "save", job[d].result = "failed",
                   NEW t \in intent.submissions
            PROVE  Spent(t)' \/ (~job[d].resuming /\ net'[t] = "none")
        <5>1. t \in Tx /\ intent # NoIntent
          BY <1>0, <3>1, <4>3 DEF JobOK
        <5> QED
          BY <1>0, <1>2, <3>1, <4>3, <5>1, SpentStays DEF ResultOK
      <4>4. ResultOK(d)'
        BY <1>2, <3>1, <3>3, <4>3 DEF ResultOK
      <4> QED
        BY <3>1, <4>1, <4>2, <4>4
    <3> QED
      BY <1>2, <3>2, <3>3
  <2>2. GivenUp'
    <3> SUFFICES ASSUME intent # NoIntent, intent.result = "failed"
                 PROVE  GivenUp'
      BY <1>2 DEF GivenUp
    <3>1. GivenUp
      BY DEF FullInv, GuardedInv
    <3>2. CASE \A t \in intent.submissions : Spent(t)
      <4>1. ASSUME NEW t \in intent.submissions PROVE Spent(t)'
        BY <3>2, SpentStays
      <4> QED
        BY <1>2, <4>1 DEF GivenUp
    <3>3. CASE /\ \A t \in intent.submissions : Lost(t) \/ net[t] = "none"
               /\ \A c \in Call : AtRest(c)
      <4>1. ASSUME NEW t \in intent.submissions PROVE Lost(t)' \/ net'[t] = "none"
        BY <1>0, <1>2, <3>3, LostStays
      <4>2. \A c \in Call : AtRest(c)'
        BY <1>2, <3>3 DEF AtRest, IdleJob
      <4> QED
        BY <1>2, <4>1, <4>2 DEF GivenUp
    <3> QED
      BY <3>1, <3>2, <3>3 DEF GivenUp
  <2> QED
    BY <2>1, <2>2 DEF GuardedInv
<1>3. CASE ClusterStep
  <2>1. /\ UNCHANGED <<durable, queue, job, told>>
        /\ \A t \in Tx : net[t] = "none" => net'[t] = "none"
    BY <1>0, <1>3, ClusterEffect
  <2> QED
    BY <1>2, <2>1 DEF durable
<1>4. ASSUME NEW p \in Process, Crash(p) PROVE GuardedInv'
  BY <1>0, <1>2, <1>4, CrashEffect DEF durable, cluster
<1>5. CASE UNCHANGED vars
  BY <1>2, <1>5 DEF vars
<1> QED
  BY <1>0, <1>1, <1>3, <1>4, <1>5, StepKinds DEF Next

LEMMA FullInduction ==
    ASSUME OneCaller
    PROVE  FullInv /\ [Next]_vars => FullInv'
<1>1. OneNode /\ (FullInv => Exclusive)
  BY DEF FullInv, GuardedInv, OneCaller, Exclusive
<1> QED
  BY <1>1, SoundInduction, QueueInduction, ReplaceInduction, GuardedInduction
     DEF FullInv

LEMMA FullInit == Init => FullInv
<1> SUFFICES ASSUME Init PROVE FullInv
  OBVIOUS
<1>1. QueueInv
  BY DEF Init, QueueInv, LineOf, PlaceOf, Operating, IdleJob
<1>2. GuardedInv
  BY DEF Init, GuardedInv, ExclusiveOK, LatestOK, ResultOK, ToldOK, GivenUp,
         Operating, IdleJob, Journaled, Settling
<1> QED
  BY <1>1, <1>2, SoundInit, ReplaceInit DEF FullInv

\* What both modes share: the bytes of a refused buy are not sent again, as
\* there is no such buy or only one caller.
SafeInv == SoundInv /\ ReplaceInv /\ (Resubmits => FullInv)

LEMMA SafeInduction ==
    ASSUME OneNode, Resubmits => OneCaller
    PROVE  SafeInv /\ [Next]_vars => SafeInv'
<1> SUFFICES ASSUME SafeInv, [Next]_vars PROVE SafeInv'
  OBVIOUS
<1>1. CASE Resubmits
  BY <1>1, FullInduction DEF SafeInv, FullInv
<1>2. CASE ~Resubmits
  BY <1>2, SoundInduction, ReplaceInduction DEF SafeInv, Exclusive
<1> QED
  BY <1>1, <1>2

LEMMA SafeInit == Init => SafeInv
  BY FullInit DEF SafeInv, FullInv

\* Over all calls, attempts and restarts, a key never has two transactions that
\* have traded or may still trade, if one node answers the requests of an
\* expiry inspection: with any number of processes, repeated sends and lost
\* writes when buys are not submitted again after a preflight, for OneCaller
\* when they are.
THEOREM OnlyOneTrade ==
    ASSUME OneNode, Resubmits => OneCaller
    PROVE  Spec => []OneTradeAlive
<1>1. SafeInv => OneTradeAlive
  BY LastIsAlive DEF SafeInv, OneTradeAlive
<1> QED
  BY <1>1, SafeInit, SafeInduction, PTL DEF Spec

\* Under the same assumptions a new transaction is journaled only when every
\* earlier one has expired for good and is in no block, or was refused by a
\* preflight before anything of it left.
THEOREM ReplacementIsSafe ==
    ASSUME OneNode, Resubmits => OneCaller
    PROVE  Spec => ReplacedOnlyWhenClosed
<1> DEFINE Adds == intent # NoIntent /\ intent'.submissions # intent.submissions
           Safe == Adds => \A t \in intent.submissions : Closed(t) \/ NeverLeft(t)
<1>1. ASSUME SoundInv, ReplaceInv, [Next]_vars, Adds
      PROVE  \A t \in intent.submissions : Closed(t) \/ NeverLeft(t)
  <2>1. PICK c \in Call : Kind(c)
    BY <1>1, StepKinds, ClusterEffect, CrashEffect
       DEF SoundInv, Next, vars, durable
  <2>2. CASE Records(c)
    <3>1. Operating(c) /\ job[c].pc = "record"
      BY <1>1, <2>2 DEF Records, SoundInv, JobInv, JobOK, Operating
    <3> QED
      BY <1>1, <3>1 DEF ReplaceInv, OperationOK, Over
  <2>3. CASE ~Records(c)
    <3>1. ~Claims(c)
      BY <1>1 DEF Claims, KeyFree
    <3> QED
      BY <1>1, <2>1, <2>3, <3>1, KeepsSubmissions
  <2> QED
    BY <2>2, <2>3
<1>2. SafeInv /\ [Next]_vars => Safe
  BY <1>1 DEF SafeInv
<1>3. SafeInv /\ [Next]_vars => [Safe]_vars
  BY <1>2
<1> QED
  BY <1>3, SafeInit, SafeInduction, PTL DEF Spec, ReplacedOnlyWhenClosed

\* "failed", in the intent or in an answer, means that nothing of the key has
\* traded or ever will: if the key is used by one process that does not resume
\* it while it operates, no send is repeated and the intent can be written.
THEOREM FailureIsFinal ==
    ASSUME OneCaller
    PROVE  Spec => []FailedIsFinal
<1>1. FullInv => FailedIsFinal
  <2> SUFFICES ASSUME FullInv, intent # NoIntent, intent.result = "failed",
                      NEW t \in Tx, Alive(t)
               PROVE  FALSE
    BY DEF FullInv, GuardedInv, ToldOK, FailedIsFinal
  <2>1. t \in intent.submissions /\ net[t] # "none"
    BY LastIsAlive DEF FullInv, Alive, Unsettled
  <2>2. Lost(t)
    BY <2>1 DEF FullInv, GuardedInv, GivenUp, Spent
  <2>3. TypeOK /\ final \in Int /\ t.lastValid \in Int
    BY DEF FullInv, SoundInv, TypeOK, Tx
  <2> QED
    BY <2>2, <2>3 DEF Lost, Closed, InHistory, Alive, Unsettled
<1> QED
  BY <1>1, FullInit, FullInduction, PTL DEF Spec

\* A resolved result is never changed or taken back, and nothing is journaled
\* after it.
LEMMA ResolvedKept ==
    ASSUME OneCaller, FullInv, [Next]_vars, intent # NoIntent,
           intent.result \in Terminal
    PROVE  intent' = intent
<1>1. TypeOK
  BY DEF FullInv, SoundInv
<1>2. ASSUME NEW c \in Call, Kind(c) PROVE intent' = intent
  BY <1>2, ResolvedStep
<1>3. ClusterStep \/ (\E p \in Process : Crash(p)) \/ UNCHANGED vars => intent' = intent
  BY <1>1, ClusterEffect, CrashEffect DEF durable, vars
<1> QED
  BY <1>2, <1>3, StepKinds DEF Next, FullInv

\* As an action property: the row of a key that is resolved never changes.
THEOREM ResolvedIsKept ==
    ASSUME OneCaller
    PROVE  Spec => ResolvedStays
<1> DEFINE Keeps == intent # NoIntent /\ intent.result \in Terminal => intent' = intent
<1>1. FullInv /\ [Next]_vars => [Keeps]_vars
  BY ResolvedKept
<1> QED
  BY <1>1, FullInit, FullInduction, PTL DEF Spec, ResolvedStays

-----------------------------------------------------------------------------
(* The key implements PayOnce *)

Traded == {t \in Tx : net[t] = "ok"}

Reported ==
    IF intent # NoIntent /\ intent.result = "confirmed" THEN {"trade"} ELSE {}

PaidBy == [a \in {"trade"} |-> Traded]

LEMMA RefinesInit == Init => Abstract!Init
  BY DEF Init, Abstract!Init

\* Only the confirmation of the one live transaction changes what has traded.
LEMMA TradedStep ==
    ASSUME OneCaller, FullInv, [Next]_vars
    PROVE  \/ Traded' = Traded
           \/ /\ Traded = {} /\ UNCHANGED intent
              /\ \E t \in Tx : Traded' = {t}
<1>1. SoundInv /\ ReplaceInv /\ TypeOK
  BY DEF FullInv, SoundInv
<1>2. ASSUME NEW c \in Call, Kind(c) PROVE Traded' = Traded
  <2>1. \A t \in Tx : net'[t] = "ok" <=> net[t] = "ok"
    BY <1>1, <1>2, KindEffect
  <2> QED
    BY <2>1 DEF Traded
<1>3. CASE ClusterStep
  <2>1. /\ \A t \in Tx : net[t] = "ok" => net'[t] = "ok"
        /\ \A t \in Tx : net'[t] = "ok" => net[t] \in {"procOk", "ok"}
        /\ intent' = intent
    BY <1>1, <1>3, ClusterEffect DEF durable
  <2>2. CASE \E t \in Tx : net'[t] = "ok" /\ net[t] # "ok"
    <3>1. PICK t \in Tx : net'[t] = "ok" /\ net[t] = "procOk"
      BY <2>1, <2>2
    <3>2. \A u \in Tx : net[u] \in {"procOk", "ok"} => u = t
      BY <1>1, <3>1, LastIsAlive DEF Alive, Unsettled
    <3>3. Traded = {} /\ Traded' = {t}
      BY <2>1, <3>1, <3>2 DEF Traded
    <3> QED
      BY <2>1, <3>3
  <2>3. CASE \A t \in Tx : net'[t] = "ok" => net[t] = "ok"
    BY <2>1, <2>3 DEF Traded
  <2> QED
    BY <2>2, <2>3
<1>4. CASE net' = net
  BY <1>4 DEF Traded
<1> QED
  BY <1>1, <1>2, <1>3, <1>4, StepKinds, CrashEffect DEF Next, vars, cluster

LEMMA RefinesStep ==
    ASSUME OneCaller, FullInv, [Next]_vars
    PROVE  Abstract!Next \/ UNCHANGED Abstract!vars
<1>1. CASE Traded' = Traded /\ Reported' = Reported
  BY <1>1 DEF Abstract!vars, Traded, Reported
<1>2. CASE Traded' = Traded /\ Reported' # Reported
  <2>1. Reported = {} /\ Reported' = {"trade"}
    BY <1>2, ResolvedKept DEF Reported, Terminal
  <2>2. \E t \in Tx : net'[t] = "ok"
    <3>1. intent' # NoIntent /\ intent'.result = "confirmed"
      BY <2>1 DEF Reported
    <3>2. SoundInv'
      BY SoundInduction DEF FullInv
    <3>3. intent'.submissions \subseteq Tx
      BY <3>1, <3>2, IntentType DEF SoundInv, TypeOK, Intent
    <3> QED
      BY <3>1, <3>2, <3>3 DEF SoundInv, ConfirmedIsTrue
  <2>3. Traded # {}
    BY <1>2, <2>2 DEF Traded
  <2>4. PaidBy["trade"] # {} /\ PaidBy' = PaidBy /\ Reported' = Reported \cup {"trade"}
    BY <1>2, <2>1, <2>3 DEF PaidBy
  <2>5. Abstract!Report({"trade"})
    BY <2>4 DEF Abstract!Report, PaidBy, Traded, Reported
  <2> QED
    BY <2>5 DEF Abstract!Next
<1>3. CASE Traded' # Traded
  <2>1. Traded = {} /\ UNCHANGED intent
    BY <1>3, TradedStep
  <2>2. PICK t \in Tx : Traded' = {t}
    BY <1>3, TradedStep
  <2>3. Reported' = Reported
    BY <2>1 DEF Reported
  <2>4. /\ PaidBy["trade"] = {}
        /\ PaidBy' = [a \in {"trade"} |-> IF a \in {"trade"} THEN {t} ELSE PaidBy[a]]
    BY <2>1, <2>2 DEF PaidBy
  <2>5. Abstract!Pay(t, {"trade"})
    BY <2>3, <2>4 DEF Abstract!Pay, PaidBy, Traded, Reported
  <2> QED
    BY <2>5 DEF Abstract!Next
<1> QED
  BY <1>1, <1>2, <1>3

\* The key moves its one trade at most once, and only says so afterwards.
THEOREM TradeIsMadeOnce ==
    ASSUME OneCaller
    PROVE  Spec => TradesOnce
<1>1. FullInv /\ [Next]_vars => [Abstract!Next]_(Abstract!vars)
  BY RefinesStep
<1> QED
  BY <1>1, RefinesInit, FullInit, FullInduction, PTL
     DEF Spec, TradesOnce, Abstract!Spec
=============================================================================
