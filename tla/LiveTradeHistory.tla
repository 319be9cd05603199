---------------------------- MODULE LiveTradeHistory ----------------------------
(***************************************************************************)
(* market/live-trade-history.ts: the recorders of one database path share  *)
(* a writer with a bounded map of rows that are not in the database yet.   *)
(* flush() queues a drain on a promise chain; a drain runs in one turn of  *)
(* the event loop, so a step is a call, a drain or what follows the await  *)
(* of one.  Rows of a backfilled history, which displace live ones, are    *)
(* left out, and so are candles and coverage.                              *)
(***************************************************************************)
EXTENDS Integers, FiniteSets

CONSTANTS
    Recorder,
    Confidence,   \* Confidence[r]: rank of the commitment r was created with
    EventKey,     \* identities of trades
    RecordCall,   \* record() calls under way at the same time
    MaxPending,
    BatchSize

Absent == -1
Rank == {0, 1, 2}    \* processed, confirmed, finalized

ASSUME HistoryAssumption ==
    /\ IsFiniteSet(Recorder) /\ IsFiniteSet(EventKey) /\ IsFiniteSet(RecordCall)
    /\ Confidence \in [Recorder -> Rank]
    /\ BatchSize \in Nat \ {0} /\ MaxPending \in Nat /\ BatchSize <= MaxPending

VARIABLES
    refs,       \* references to the writer; 0: there is none
    pending,    \* pending[k]: confidence of the row that waits, or Absent
    stored,     \* stored[k]: confidence of the row in the database
    recorder,   \* recorder[r]: how far its close() is
    record,     \* record[c]: what record() call c waits for
    recorded    \* history: recorded[k]: best confidence k was recorded with

historyVars == <<refs, pending, stored, recorder, record, recorded>>

NoRecord == [at |-> "idle"]
Waiting == [at : {"room", "roomed", "full"}, by : Recorder, key : EventKey]

LHTypeOK ==
    /\ refs \in 0..Cardinality(Recorder)
    /\ pending \in [EventKey -> Rank \cup {Absent}]
    /\ stored \in [EventKey -> Rank \cup {Absent}]
    /\ recorder \in [Recorder -> {"none", "open", "closing", "flushing", "drained"}]
    /\ record \in [RecordCall -> Waiting \cup {NoRecord}]
    /\ recorded \in [EventKey -> Rank \cup {Absent}]

LHInit ==
    /\ refs = 0
    /\ pending = [k \in EventKey |-> Absent]
    /\ stored = [k \in EventKey |-> Absent]
    /\ recorder = [r \in Recorder |-> "none"]
    /\ record = [c \in RecordCall |-> NoRecord]
    /\ recorded = [k \in EventKey |-> Absent]

-----------------------------------------------------------------------------

Size(rows) == Cardinality({k \in EventKey : rows[k] # Absent})

Better(a, b) == IF a > b THEN a ELSE b

\* Slip: the row in the map is replaced whatever its confidence is.
PutLatest(k, rank) == [pending EXCEPT ![k] = rank]

\* A row gives way to one of the same or a higher confidence.
Put(k, rank) == [pending EXCEPT ![k] = Better(@, rank)]

\* Batch by batch: written, then taken out of the map.  A batch that fails may
\* be in both places; the database keeps the higher confidence.
Drained(ok) ==
    LET rows == {k \in EventKey : pending[k] # Absent} IN
    \E written \in (IF ok THEN {rows} ELSE SUBSET rows) :
        \E removed \in (IF ok THEN {rows} ELSE SUBSET written) :
            /\ Cardinality(written \ removed) <= BatchSize
            /\ stored' = [k \in EventKey |->
                            IF k \in written THEN Better(stored[k], pending[k])
                            ELSE stored[k]]
            /\ pending' = [k \in EventKey |->
                            IF k \in removed THEN Absent ELSE pending[k]]

Create(r) ==
    /\ recorder[r] = "none"
    /\ refs' = refs + 1
    /\ recorder' = [recorder EXCEPT ![r] = "open"]
    /\ UNCHANGED <<pending, stored, record, recorded>>

\* The row is put into the map; a full batch is flushed before the call ends.
PutRow(c, r, k) ==
    /\ pending' = Put(k, Confidence[r])
    /\ recorded' = [recorded EXCEPT ![k] = Better(@, Confidence[r])]
    /\ record' = [record EXCEPT ![c] =
                    IF Size(pending') >= BatchSize
                    THEN [at |-> "full", by |-> r, key |-> k] ELSE NoRecord]
    /\ UNCHANGED <<refs, stored, recorder>>

\* Slip: a record goes ahead while the map is full.
HasRoomUnbounded == Size(pending) <= Cardinality(EventKey)

HasRoom == Size(pending) < MaxPending

Record(c, r, k) ==
    /\ record[c] = NoRecord
    /\ recorder[r] = "open"
    /\ IF HasRoom THEN PutRow(c, r, k)
       ELSE /\ record' = [record EXCEPT ![c] = [at |-> "room", by |-> r, key |-> k]]
            /\ UNCHANGED <<refs, pending, stored, recorder, recorded>>

\* The flush it waited for is over; the bound is not looked at again.
PutAfterFlush(c) ==
    /\ record[c].at = "roomed"
    /\ PutRow(c, record[c].by, record[c].key)

\* A record whose flush fails is rejected; its row may wait in the map.
FlushForRecord(c) ==
    /\ record[c].at \in {"room", "full"}
    /\ \E ok \in BOOLEAN :
        /\ Drained(ok)
        /\ record' = [record EXCEPT ![c] =
                        IF ok /\ @.at = "room" THEN [@ EXCEPT !.at = "roomed"]
                        ELSE NoRecord]
    /\ UNCHANGED <<refs, recorder, recorded>>

\* The timer of the writer, or flush() of any recorder.
FlushTimer ==
    /\ refs > 0
    /\ \E ok \in BOOLEAN : Drained(ok)
    /\ UNCHANGED <<refs, recorder, record, recorded>>

SetRecorder(r, from, to) ==
    recorder[r] = from /\ recorder' = [recorder EXCEPT ![r] = to]

CloseRecorder(r) ==
    /\ SetRecorder(r, "open", "closing")
    /\ UNCHANGED <<refs, pending, stored, record, recorded>>

Settled(r) == \A c \in RecordCall : record[c] # NoRecord => record[c].by # r

AwaitActive(r) ==
    /\ Settled(r)
    /\ SetRecorder(r, "closing", "flushing")
    /\ UNCHANGED <<refs, pending, stored, record, recorded>>

\* "Retain queued rows and allow an explicit close retry."
FlushForClose(r) ==
    /\ \/ Drained(TRUE) /\ SetRecorder(r, "flushing", "drained")
       \/ Drained(FALSE) /\ SetRecorder(r, "flushing", "open")
    /\ UNCHANGED <<refs, record, recorded>>

\* The last recorder takes the writer and its map with it.
Release(r) ==
    /\ SetRecorder(r, "drained", "none")
    /\ refs' = refs - 1
    /\ pending' = IF refs' = 0 THEN [k \in EventKey |-> Absent] ELSE pending
    /\ UNCHANGED <<stored, record, recorded>>

LHNext ==
    \/ FlushTimer
    \/ \E r \in Recorder :
        \/ Create(r) \/ CloseRecorder(r) \/ AwaitActive(r) \/ FlushForClose(r)
        \/ Release(r)
        \/ \E c \in RecordCall, k \in EventKey : Record(c, r, k)
    \/ \E c \in RecordCall : PutAfterFlush(c) \/ FlushForRecord(c)

LHSpec == LHInit /\ [][LHNext]_historyVars

-----------------------------------------------------------------------------
(* Properties *)

\* A recorded row is in the map or in the database, with the confidence it was
\* recorded with or a higher one, through failed flushes, failed and repeated
\* closes and the end of the writer ("flushes buffered rows when closed").
RecordedIsKept ==
    \A k \in EventKey : Better(pending[k], stored[k]) >= recorded[k]

\* The map exceeds its limit by the records that waited for one flush at most.
QueueIsBounded == Size(pending) < MaxPending + Cardinality(RecordCall)
=============================================================================
