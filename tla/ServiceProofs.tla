---------------------------- MODULE ServiceProofs ----------------------------
(***************************************************************************)
(* Three components of Services, and the composition of all five.          *)
(*                                                                         *)
(* LiveTradeHistory: the shared writer loses no record and keeps to its    *)
(* bound, for every number of recorders, of keys and of concurrent calls.  *)
(* PumpBuyer: why a wallet buys twice, for every set of buys, every bound  *)
(* on the height and each of the three loops.  PortalCursor: why the       *)
(* listener misses nothing, for every length of the chain, number of       *)
(* forks, capacity of the header memory and rewind.                        *)
(*                                                                         *)
(* Services: what each component was shown to keep alone it keeps among    *)
(* the others, because a step of one touches the transactions of no other. *)
(***************************************************************************)
EXTENDS MCServices, CumulativeDistributionProofs, CreatorClaimProofs,
        FiniteSetTheorems, WellFoundedInduction, TLAPS

USE HistoryAssumption

-----------------------------------------------------------------------------
(* The recorder: the invariant *)

\* A record that waits keeps its recorder from flushing for the last time.
ActiveInv ==
    \A c \in RecordCall : record[c] # NoRecord =>
        recorder[record[c].by] \in {"open", "closing"}

\* The writer lives as long as a recorder refers to it.
Referring == {r \in Recorder : recorder[r] # "none"}
RefInv == refs = Cardinality(Referring)

\* When every recorder has flushed for the last time nothing waits.
DrainedInv ==
    (\A r \in Recorder : recorder[r] \in {"none", "drained"}) =>
        \A k \in EventKey : pending[k] = Absent

\* Each call that was told that there is room may take one place unasked.
Roomed == {c \in RecordCall : record[c].at = "roomed"}
RoomInv ==
    Size(pending) + Cardinality(Roomed) < MaxPending + Cardinality(RecordCall)

HistoryInv ==
    LHTypeOK /\ ActiveInv /\ RefInv /\ DrainedInv /\ RoomInv /\ RecordedIsKept

-----------------------------------------------------------------------------
(* The recorder: its operators *)

\* Sizes are those of finite sets.
LEMMA SizeType ==
    ASSUME NEW rows
    PROVE  /\ IsFiniteSet({k \in EventKey : rows[k] # Absent})
           /\ Size(rows) \in Nat
<1>1. {k \in EventKey : rows[k] # Absent} \in SUBSET EventKey
  OBVIOUS
<1>2. IsFiniteSet({k \in EventKey : rows[k] # Absent})
  BY <1>1, FS_Subset
<1> QED
  BY <1>2, FS_CardinalityType DEF Size

LEMMA RoomedType ==
    /\ IsFiniteSet(Roomed) /\ Cardinality(Roomed) \in Nat
    /\ Cardinality(Roomed) <= Cardinality(RecordCall)
    /\ Cardinality(RecordCall) \in Nat
<1>1. Roomed \in SUBSET RecordCall
  BY DEF Roomed
<1> QED
  BY <1>1, FS_Subset, FS_CardinalityType

\* A map with fewer rows is not larger.
LEMMA SizeMonotone ==
    ASSUME NEW old, NEW new,
           \A k \in EventKey : new[k] # Absent => old[k] # Absent
    PROVE  Size(new) <= Size(old)
<1>1. {k \in EventKey : new[k] # Absent}
        \in SUBSET {k \in EventKey : old[k] # Absent}
  OBVIOUS
<1> QED
  BY <1>1, SizeType, FS_Subset DEF Size

LEMMA SizeEmpty ==
    ASSUME NEW rows, \A k \in EventKey : rows[k] = Absent
    PROVE  Size(rows) = 0
<1>1. {k \in EventKey : rows[k] # Absent} = {}
  OBVIOUS
<1> QED
  BY <1>1, FS_EmptySet DEF Size

\* A row that is put may take one place.
LEMMA SizePut ==
    ASSUME pending \in [EventKey -> Rank \cup {Absent}],
           NEW k \in EventKey, NEW rank \in Rank
    PROVE  /\ Put(k, rank) \in [EventKey -> Rank \cup {Absent}]
           /\ \A q \in EventKey :
                Put(k, rank)[q] = IF q = k THEN Better(pending[k], rank)
                                  ELSE pending[q]
           /\ Size(Put(k, rank)) <= Size(pending) + 1
<1> DEFINE P == {q \in EventKey : pending[q] # Absent}
<1>1. /\ Put(k, rank) \in [EventKey -> Rank \cup {Absent}]
      /\ \A q \in EventKey :
            Put(k, rank)[q] = IF q = k THEN Better(pending[k], rank)
                              ELSE pending[q]
  BY DEF Put, Better, Rank, Absent
<1>2. {q \in EventKey : Put(k, rank)[q] # Absent} = P \cup {k}
  BY <1>1 DEF Better, Rank, Absent
<1>3. /\ IsFiniteSet(P) /\ Cardinality(P) \in Nat
      /\ Cardinality(P \cup {k}) <= Cardinality(P) + 1
  <2>1. IsFiniteSet(P)
    BY SizeType
  <2> HIDE DEF P
  <2>2. Cardinality(P) \in Nat
    BY <2>1, FS_CardinalityType
  <2>3. Cardinality(P \cup {k})
          = IF k \in P THEN Cardinality(P) ELSE Cardinality(P) + 1
    BY <2>1, FS_AddElement
  <2> QED
    BY <2>1, <2>2, <2>3
<1> QED
  BY <1>1, <1>2, <1>3 DEF Size

\* A drain takes rows out of the map, none of which is lost; one that
\* succeeds takes all of them.
LEMMA DrainEffect ==
    ASSUME LHTypeOK, NEW ok \in BOOLEAN, Drained(ok)
    PROVE  /\ pending' \in [EventKey -> Rank \cup {Absent}]
           /\ stored' \in [EventKey -> Rank \cup {Absent}]
           /\ \A k \in EventKey :
                /\ pending'[k] \in {pending[k], Absent}
                /\ Better(pending'[k], stored'[k]) >= Better(pending[k], stored[k])
           /\ ok => \A k \in EventKey : pending'[k] = Absent
<1> DEFINE rows == {k \in EventKey : pending[k] # Absent}
<1>1. PICK written, removed :
        /\ written \subseteq rows /\ removed \subseteq written
        /\ ok => removed = rows
        /\ stored' = [k \in EventKey |->
                        IF k \in written THEN Better(stored[k], pending[k])
                        ELSE stored[k]]
        /\ pending' = [k \in EventKey |->
                        IF k \in removed THEN Absent ELSE pending[k]]
  BY DEF Drained
<1> QED
  BY <1>1 DEF LHTypeOK, Better, Rank, Absent

-----------------------------------------------------------------------------
(* The recorder: steps *)

LEMMA HistoryInit == LHInit => HistoryInv
<1> SUFFICES ASSUME LHInit PROVE HistoryInv
  OBVIOUS
<1>1. Referring = {} /\ Roomed = {} /\ Size(pending) = 0
  BY SizeEmpty DEF LHInit, Referring, Roomed, NoRecord
<1>2. Cardinality({}) = 0
  BY FS_EmptySet
<1>3. Cardinality(Recorder) \in Nat /\ Cardinality(RecordCall) \in Nat
  BY FS_CardinalityType
<1>4. LHTypeOK
  BY <1>3 DEF LHInit, LHTypeOK
<1>5. RefInv /\ RoomInv
  BY <1>1, <1>2, <1>3 DEF LHInit, RefInv, RoomInv
<1> QED
  BY <1>4, <1>5 DEF LHInit, HistoryInv, ActiveInv, DrainedInv, RecordedIsKept,
                    Better, Absent

\* What a call waits for.
LEMMA RecordType ==
    ASSUME LHTypeOK, NEW c \in RecordCall, record[c] # NoRecord
    PROVE  /\ record[c] \in Waiting
           /\ record[c].by \in Recorder /\ record[c].key \in EventKey
  BY DEF LHTypeOK, Waiting

\* A recorder with no record under way moves on.
LEMMA ActiveMove ==
    ASSUME HistoryInv, NEW r \in Recorder,
           recorder[r] \notin {"open", "closing"},
           \A q \in Recorder : q # r => recorder'[q] = recorder[q],
           record' = record
    PROVE  ActiveInv'
<1> SUFFICES ASSUME NEW c \in RecordCall, record[c] # NoRecord
             PROVE  recorder'[record[c].by] \in {"open", "closing"}
  BY DEF ActiveInv
<1>1. /\ record[c].by \in Recorder
      /\ recorder[record[c].by] \in {"open", "closing"}
  BY RecordType DEF HistoryInv, ActiveInv
<1> QED
  BY <1>1

\* The row is put: a new one where there is room, or one that was let in.
LEMMA PutRowInv ==
    ASSUME HistoryInv, NEW c \in RecordCall, NEW r \in Recorder,
           NEW k \in EventKey, PutRow(c, r, k),
           recorder[r] \in {"open", "closing"},
           \/ HasRoom /\ record[c] = NoRecord
           \/ record[c].at = "roomed"
    PROVE  HistoryInv'
<1>0. /\ pending \in [EventKey -> Rank \cup {Absent}]
      /\ record \in [RecordCall -> Waiting \cup {NoRecord}]
      /\ Confidence[r] \in Rank
  BY DEF HistoryInv, LHTypeOK
<1>1. /\ pending' \in [EventKey -> Rank \cup {Absent}]
      /\ \A q \in EventKey : pending'[q] =
            IF q = k THEN Better(pending[k], Confidence[r]) ELSE pending[q]
      /\ Size(pending') <= Size(pending) + 1
  BY <1>0, SizePut DEF PutRow
<1>2. /\ record'[c] \in {NoRecord, [at |-> "full", by |-> r, key |-> k]}
      /\ \A d \in RecordCall : d # c => record'[d] = record[d]
      /\ record' \in [RecordCall -> Waiting \cup {NoRecord}]
  BY <1>0 DEF PutRow, Waiting
<1>3. LHTypeOK'
  BY <1>1, <1>2 DEF HistoryInv, LHTypeOK, PutRow, Better
<1>4. ActiveInv'
  BY <1>2 DEF HistoryInv, ActiveInv, PutRow
<1>5. RefInv' /\ DrainedInv'
  BY DEF HistoryInv, RefInv, Referring, DrainedInv, PutRow
<1>6. RoomInv'
  <2>1. /\ Size(pending) \in Nat /\ Size(pending') \in Nat
        /\ Cardinality(Roomed) \in Nat /\ Cardinality(RecordCall) \in Nat
    BY SizeType, RoomedType
  <2>2. Roomed' = Roomed \ {c}
    BY <1>2 DEF Roomed, NoRecord
  <2>3. CASE HasRoom /\ record[c] = NoRecord
    <3>1. Roomed' \in SUBSET (RecordCall \ {c})
      BY <2>2 DEF Roomed
    <3>2. /\ IsFiniteSet(RecordCall \ {c})
          /\ Cardinality(RecordCall \ {c}) = Cardinality(RecordCall) - 1
      BY FS_RemoveElement
    <3>3. /\ Cardinality(Roomed') <= Cardinality(RecordCall) - 1
          /\ Cardinality(Roomed') \in Nat
      BY <3>1, <3>2, FS_Subset, FS_CardinalityType
    <3>4. Size(pending') <= MaxPending
      BY <1>1, <2>1, <2>3 DEF HasRoom
    <3> QED
      BY <2>1, <3>3, <3>4 DEF RoomInv
  <2>4. CASE record[c].at = "roomed"
    <3>1. Cardinality(Roomed') = Cardinality(Roomed) - 1
      <4>1. c \in Roomed /\ IsFiniteSet(Roomed)
        BY <2>4, RoomedType DEF Roomed
      <4>2. Cardinality(Roomed \ {c}) = Cardinality(Roomed) - 1
        BY <4>1, FS_RemoveElement
      <4> QED
        BY <2>2, <4>2
    <3> QED
      BY <1>1, <2>1, <3>1 DEF HistoryInv, RoomInv
  <2> QED
    BY <2>3, <2>4
<1>7. RecordedIsKept'
  BY <1>0, <1>1 DEF HistoryInv, RecordedIsKept, LHTypeOK, PutRow, Better, Rank,
                    Absent
<1> QED
  BY <1>3, <1>4, <1>5, <1>6, <1>7 DEF HistoryInv

\* A drain, whatever the recorders and the calls do in the same step.
LEMMA DrainInv ==
    ASSUME HistoryInv, NEW ok \in BOOLEAN, Drained(ok), UNCHANGED recorded
    PROVE  /\ pending' \in [EventKey -> Rank \cup {Absent}]
           /\ stored' \in [EventKey -> Rank \cup {Absent}]
           /\ RecordedIsKept'
           /\ \A k \in EventKey : pending'[k] \in {pending[k], Absent}
           /\ ok => \A k \in EventKey : pending'[k] = Absent
           /\ Size(pending') <= Size(pending)
           /\ ok => Size(pending') = 0
<1>1. /\ pending' \in [EventKey -> Rank \cup {Absent}]
      /\ stored' \in [EventKey -> Rank \cup {Absent}]
      /\ \A k \in EventKey :
            /\ pending'[k] \in {pending[k], Absent}
            /\ Better(pending'[k], stored'[k]) >= Better(pending[k], stored[k])
      /\ ok => \A k \in EventKey : pending'[k] = Absent
  BY DrainEffect DEF HistoryInv
<1>2. RecordedIsKept'
  BY <1>1 DEF HistoryInv, RecordedIsKept, LHTypeOK, Better, Rank, Absent
<1>3. Size(pending') <= Size(pending)
  BY <1>1, SizeMonotone
<1>4. ok => Size(pending') = 0
  BY <1>1, SizeEmpty
<1> QED
  BY <1>1, <1>2, <1>3, <1>4

\* The map and the calls stay; a recorder that did not flush for the last
\* time goes on to another stage.
LEMMA RecorderInv ==
    ASSUME HistoryInv, NEW r \in Recorder,
           NEW from, NEW to \in {"open", "closing", "flushing"},
           SetRecorder(r, from, to), from \in {"open", "closing"},
           to = "flushing" => Settled(r),
           UNCHANGED <<refs, pending, stored, record, recorded>>
    PROVE  HistoryInv'
<1>1. /\ recorder'[r] = to /\ recorder[r] = from
      /\ \A q \in Recorder : q # r => recorder'[q] = recorder[q]
      /\ LHTypeOK'
  BY DEF HistoryInv, LHTypeOK, SetRecorder
<1>2. Referring' = Referring
  BY <1>1 DEF Referring
<1>3. ActiveInv'
  <2> SUFFICES ASSUME NEW c \in RecordCall, record[c] # NoRecord
               PROVE  recorder'[record[c].by] \in {"open", "closing"}
    BY DEF ActiveInv
  <2>1. /\ record[c].by \in Recorder
        /\ recorder[record[c].by] \in {"open", "closing"}
    BY RecordType DEF HistoryInv, ActiveInv
  <2>2. to = "flushing" => record[c].by # r
    BY DEF Settled
  <2> QED
    BY <1>1, <2>1, <2>2
<1> QED
  BY <1>1, <1>2, <1>3 DEF HistoryInv, RefInv, DrainedInv, RoomInv, Roomed,
                          RecordedIsKept

\* A drain that changes no recorder and lets at most one more call in.
LEMMA FlushInv ==
    ASSUME HistoryInv, NEW ok \in BOOLEAN, Drained(ok),
           UNCHANGED <<refs, recorder, recorded>>,
           \/ UNCHANGED record
           \/ /\ \E c \in RecordCall :
                   /\ \A d \in RecordCall : d # c => record'[d] = record[d]
                   /\ \/ record'[c] = NoRecord
                      \/ /\ ok /\ record[c] \in Waiting
                         /\ record'[c] = [record[c] EXCEPT !.at = "roomed"]
              /\ record' \in [RecordCall -> Waiting \cup {NoRecord}]
    PROVE  HistoryInv'
<1>1. /\ pending' \in [EventKey -> Rank \cup {Absent}]
      /\ stored' \in [EventKey -> Rank \cup {Absent}]
      /\ RecordedIsKept'
      /\ \A k \in EventKey : pending'[k] \in {pending[k], Absent}
      /\ Size(pending') <= Size(pending)
      /\ ok => Size(pending') = 0
  BY DrainInv
<1>2. LHTypeOK'
  BY <1>1 DEF HistoryInv, LHTypeOK
<1>3. ActiveInv'
  <2>1. \A d \in RecordCall : record'[d] # NoRecord =>
            record[d] # NoRecord /\ record'[d].by = record[d].by
    <3>1. \A w \in Waiting : w # NoRecord /\ [w EXCEPT !.at = "roomed"].by = w.by
      BY DEF Waiting, NoRecord
    <3> QED
      BY <3>1
  <2> QED
    BY <2>1 DEF HistoryInv, ActiveInv
<1>4. RefInv' /\ DrainedInv'
  BY <1>1 DEF HistoryInv, RefInv, Referring, DrainedInv
<1>5. RoomInv'
  <2>1. /\ Size(pending) \in Nat /\ Size(pending') \in Nat
        /\ Cardinality(Roomed) \in Nat /\ Cardinality(RecordCall) \in Nat
    BY SizeType, RoomedType
  <2>2. /\ IsFiniteSet(Roomed') /\ Cardinality(Roomed') \in Nat
        /\ Cardinality(Roomed') <= Cardinality(RecordCall)
    <3>1. Roomed' \in SUBSET RecordCall
      BY DEF Roomed
    <3> QED
      BY <3>1, FS_Subset, FS_CardinalityType
  <2>3. CASE ok
    BY <1>1, <2>1, <2>2, <2>3 DEF RoomInv
  <2>4. CASE ~ok
    <3>1. Roomed' \in SUBSET Roomed
      <4>1. \A d \in RecordCall : record'[d] \in {record[d], NoRecord}
        BY <2>4
      <4> QED
        BY <4>1 DEF Roomed, NoRecord
    <3>2. Cardinality(Roomed') <= Cardinality(Roomed)
      BY <3>1, RoomedType, FS_Subset
    <3> QED
      BY <1>1, <2>1, <2>2, <3>2 DEF HistoryInv, RoomInv
  <2> QED
    BY <2>3, <2>4
<1> QED
  BY <1>1, <1>2, <1>3, <1>4, <1>5 DEF HistoryInv

LEMMA RecordInv ==
    ASSUME HistoryInv, NEW c \in RecordCall, NEW r \in Recorder,
           NEW k \in EventKey, Record(c, r, k)
    PROVE  HistoryInv'
<1>1. CASE HasRoom
  BY <1>1, PutRowInv DEF Record
<1>2. CASE ~HasRoom
  <2>1. /\ record' = [record EXCEPT ![c] = [at |-> "room", by |-> r, key |-> k]]
        /\ UNCHANGED <<refs, pending, stored, recorder, recorded>>
        /\ recorder[r] = "open"
        /\ record \in [RecordCall -> Waiting \cup {NoRecord}]
    BY <1>2 DEF Record, HistoryInv, LHTypeOK
  <2>2. /\ record'[c] = [at |-> "room", by |-> r, key |-> k]
        /\ \A d \in RecordCall : d # c => record'[d] = record[d]
        /\ record' \in [RecordCall -> Waiting \cup {NoRecord}]
    BY <2>1 DEF Waiting
  <2>3. Roomed' = Roomed
    BY <1>2, <2>2 DEF Roomed, Record, NoRecord
  <2> QED
    BY <2>1, <2>2, <2>3 DEF HistoryInv, LHTypeOK, ActiveInv, RefInv, Referring,
                            DrainedInv, RoomInv, RecordedIsKept
<1> QED
  BY <1>1, <1>2

LEMMA PutAfterFlushInv ==
    ASSUME HistoryInv, NEW c \in RecordCall, PutAfterFlush(c)
    PROVE  HistoryInv'
<1>1. record[c].at = "roomed" /\ record[c] # NoRecord
  BY DEF PutAfterFlush, NoRecord
<1>2. /\ record[c].by \in Recorder /\ record[c].key \in EventKey
      /\ recorder[record[c].by] \in {"open", "closing"}
  BY <1>1, RecordType DEF HistoryInv, ActiveInv
<1> QED
  BY <1>1, <1>2, PutRowInv DEF PutAfterFlush

LEMMA FlushForRecordInv ==
    ASSUME HistoryInv, NEW c \in RecordCall, FlushForRecord(c)
    PROVE  HistoryInv'
<1>1. PICK ok \in BOOLEAN :
        /\ Drained(ok)
        /\ record' = [record EXCEPT ![c] =
                        IF ok /\ record[c].at = "room"
                        THEN [record[c] EXCEPT !.at = "roomed"] ELSE NoRecord]
  BY DEF FlushForRecord
<1>2. /\ record \in [RecordCall -> Waiting \cup {NoRecord}]
      /\ record[c] \in Waiting
      /\ UNCHANGED <<refs, recorder, recorded>>
  BY RecordType DEF FlushForRecord, HistoryInv, LHTypeOK, NoRecord
<1>3. [record[c] EXCEPT !.at = "roomed"] \in Waiting
  BY <1>2 DEF Waiting
<1>4. \/ record' = [record EXCEPT ![c] = NoRecord]
      \/ ok /\ record' = [record EXCEPT ![c] = [record[c] EXCEPT !.at = "roomed"]]
  BY <1>1
<1>5. /\ \A d \in RecordCall : d # c => record'[d] = record[d]
      /\ \/ record'[c] = NoRecord
         \/ ok /\ record'[c] = [record[c] EXCEPT !.at = "roomed"]
      /\ record' \in [RecordCall -> Waiting \cup {NoRecord}]
  BY <1>2, <1>3, <1>4
<1> QED
  BY <1>1, <1>2, <1>5, FlushInv

LEMMA CreateInv ==
    ASSUME HistoryInv, NEW r \in Recorder, Create(r)
    PROVE  HistoryInv'
<1>1. /\ recorder[r] = "none" /\ recorder'[r] = "open"
      /\ \A q \in Recorder : q # r => recorder'[q] = recorder[q]
      /\ recorder' \in [Recorder -> {"none", "open", "closing", "flushing",
                                     "drained"}]
      /\ UNCHANGED <<pending, stored, record, recorded>>
  BY DEF Create, HistoryInv, LHTypeOK
<1>2. Referring' = Referring \cup {r} /\ r \notin Referring
  BY <1>1 DEF Referring
<1>3. /\ IsFiniteSet(Referring) /\ Cardinality(Referring) \in Nat
      /\ Cardinality(Referring') <= Cardinality(Recorder)
      /\ Cardinality(Recorder) \in Nat
  <2>1. Referring \in SUBSET Recorder /\ Referring' \in SUBSET Recorder
    BY DEF Referring
  <2> QED
    BY <2>1, FS_Subset, FS_CardinalityType
<1>4. Cardinality(Referring') = Cardinality(Referring) + 1
  BY <1>2, <1>3, FS_AddElement
<1>5. RefInv' /\ refs' \in 0..Cardinality(Recorder)
  BY <1>3, <1>4 DEF Create, HistoryInv, RefInv
<1>6. ActiveInv'
  BY <1>1, ActiveMove
<1> QED
  BY <1>1, <1>5, <1>6 DEF HistoryInv, LHTypeOK, DrainedInv, RoomInv, Roomed,
                          RecordedIsKept

LEMMA FlushForCloseInv ==
    ASSUME HistoryInv, NEW r \in Recorder, FlushForClose(r)
    PROVE  HistoryInv'
<1>1. PICK ok \in BOOLEAN :
        /\ Drained(ok)
        /\ SetRecorder(r, "flushing", IF ok THEN "drained" ELSE "open")
  BY DEF FlushForClose
<1>2. UNCHANGED <<refs, record, recorded>>
  BY DEF FlushForClose
<1>3. /\ pending' \in [EventKey -> Rank \cup {Absent}]
      /\ stored' \in [EventKey -> Rank \cup {Absent}]
      /\ RecordedIsKept'
      /\ ok => \A k \in EventKey : pending'[k] = Absent
      /\ Size(pending') <= Size(pending)
  BY <1>1, <1>2, DrainInv
<1>4. /\ recorder[r] = "flushing"
      /\ recorder'[r] = IF ok THEN "drained" ELSE "open"
      /\ \A q \in Recorder : q # r => recorder'[q] = recorder[q]
      /\ recorder' \in [Recorder -> {"none", "open", "closing", "flushing",
                                     "drained"}]
  BY <1>1 DEF SetRecorder, HistoryInv, LHTypeOK
<1>5. LHTypeOK' /\ ActiveInv' /\ DrainedInv'
  <2>1. ActiveInv'
    BY <1>2, <1>4, ActiveMove
  <2>2. DrainedInv'
    BY <1>3, <1>4 DEF DrainedInv
  <2> QED
    BY <1>2, <1>3, <1>4, <2>1, <2>2 DEF HistoryInv, LHTypeOK
<1>6. RefInv'
  <2>1. Referring' = Referring
    BY <1>4 DEF Referring
  <2> QED
    BY <1>2, <2>1 DEF HistoryInv, RefInv
<1>7. RoomInv'
  <2>1. /\ Roomed' = Roomed /\ Cardinality(Roomed) \in Nat
        /\ Size(pending) \in Nat /\ Size(pending') \in Nat
        /\ Cardinality(RecordCall) \in Nat
    BY <1>2, SizeType, RoomedType DEF Roomed
  <2> QED
    BY <1>3, <2>1 DEF HistoryInv, RoomInv
<1> QED
  BY <1>3, <1>5, <1>6, <1>7 DEF HistoryInv

\* The writer that goes takes an empty map with it.
LEMMA ReleaseInv ==
    ASSUME HistoryInv, NEW r \in Recorder, Release(r)
    PROVE  HistoryInv'
<1>1. /\ recorder[r] = "drained" /\ recorder'[r] = "none"
      /\ \A q \in Recorder : q # r => recorder'[q] = recorder[q]
      /\ recorder' \in [Recorder -> {"none", "open", "closing", "flushing",
                                     "drained"}]
      /\ refs' = refs - 1 /\ UNCHANGED <<stored, record, recorded>>
  BY DEF Release, SetRecorder, HistoryInv, LHTypeOK
<1>2. Referring' = Referring \ {r} /\ r \in Referring
  BY <1>1 DEF Referring
<1>3. /\ IsFiniteSet(Referring) /\ Cardinality(Referring) \in Nat
      /\ IsFiniteSet(Referring') /\ Cardinality(Referring') \in Nat
      /\ Cardinality(Referring') <= Cardinality(Recorder)
      /\ Cardinality(Recorder) \in Nat
  <2>1. Referring \in SUBSET Recorder /\ Referring' \in SUBSET Recorder
    BY DEF Referring
  <2> QED
    BY <2>1, FS_Subset, FS_CardinalityType
<1>4. Cardinality(Referring') = Cardinality(Referring) - 1
  BY <1>2, <1>3, FS_RemoveElement
<1>5. RefInv' /\ refs' \in 0..Cardinality(Recorder)
  BY <1>1, <1>3, <1>4 DEF HistoryInv, RefInv
<1>6. \A k \in EventKey : pending'[k] = pending[k]
  <2>1. CASE refs' = 0
    <3>1. Referring' = {}
      BY <1>3, <1>5, <2>1, FS_EmptySet DEF RefInv
    <3>2. \A q \in Recorder : recorder[q] \in {"none", "drained"}
      BY <1>1, <3>1 DEF Referring
    <3> QED
      BY <2>1, <3>2 DEF Release, HistoryInv, DrainedInv
  <2>2. CASE refs' # 0
    BY <2>2 DEF Release
  <2> QED
    BY <2>1, <2>2
<1>7. pending' = pending
  <2>1. pending \in [EventKey -> Rank \cup {Absent}]
    BY DEF HistoryInv, LHTypeOK
  <2>2. pending' = pending \/ pending' = [k \in EventKey |-> Absent]
    BY DEF Release
  <2> QED
    BY <1>6, <2>1, <2>2
<1>8. ActiveInv' /\ DrainedInv'
  <2>1. ActiveInv'
    BY <1>1, ActiveMove
  <2>2. DrainedInv'
    BY <1>1, <1>7 DEF HistoryInv, DrainedInv
  <2> QED
    BY <2>1, <2>2
<1> QED
  BY <1>1, <1>5, <1>7, <1>8 DEF HistoryInv, LHTypeOK, RoomInv, Roomed,
                                RecordedIsKept

LEMMA HistoryInduction == HistoryInv /\ [LHNext]_historyVars => HistoryInv'
<1> SUFFICES ASSUME HistoryInv, [LHNext]_historyVars PROVE HistoryInv'
  OBVIOUS
<1>1. CASE FlushTimer
  BY <1>1, FlushInv DEF FlushTimer
<1>2. ASSUME NEW r \in Recorder, CloseRecorder(r) PROVE HistoryInv'
  BY <1>2, RecorderInv DEF CloseRecorder
<1>3. ASSUME NEW r \in Recorder, AwaitActive(r) PROVE HistoryInv'
  BY <1>3, RecorderInv DEF AwaitActive
<1>4. CASE UNCHANGED historyVars
  BY <1>4 DEF historyVars, HistoryInv, LHTypeOK, ActiveInv, RefInv, Referring,
              DrainedInv, RoomInv, Roomed, RecordedIsKept
<1> QED
  BY <1>1, <1>2, <1>3, <1>4, CreateInv, FlushForCloseInv, ReleaseInv, RecordInv,
     PutAfterFlushInv, FlushForRecordInv DEF LHNext

-----------------------------------------------------------------------------

\* The writer's variables have their types.
THEOREM HistoryTypeCorrect == LHSpec => []LHTypeOK
<1>1. HistoryInv => LHTypeOK
  BY DEF HistoryInv
<1> QED
  BY <1>1, HistoryInit, HistoryInduction, PTL DEF LHSpec

\* What was recorded is in the map or in the database with that confidence or
\* a higher one, also when flushes and closes fail and when the writer ends.
THEOREM NothingRecordedIsLost == LHSpec => []RecordedIsKept
<1>1. HistoryInv => RecordedIsKept
  BY DEF HistoryInv
<1> QED
  BY <1>1, HistoryInit, HistoryInduction, PTL DEF LHSpec

LEMMA HistoryIsBounded == HistoryInv => QueueIsBounded
<1>1. /\ Size(pending) \in Nat /\ Cardinality(Roomed) \in Nat
      /\ Cardinality(RecordCall) \in Nat
  BY SizeType, RoomedType
<1> QED
  BY <1>1 DEF HistoryInv, RoomInv, QueueIsBounded

\* The map outgrows its limit only by calls that waited for one flush.
THEOREM QueueStaysBounded == LHSpec => []QueueIsBounded
  BY HistoryIsBounded, HistoryInit, HistoryInduction, PTL DEF LHSpec

HIDE HistoryAssumption
USE ClusterAssumption, BuyerAssumption, PortalAssumption, NoChainAssumption

-----------------------------------------------------------------------------
(* The buyers' loops: the cluster *)

\* A failure that cannot be dropped is final.
Final(n, m, w) ==
    \A t \in Tx : ~w.reland /\ n[t] \in {"procErr", "err"}
                    => m[t] \in {"procErr", "err"}

\* A broadcast reaches one transaction at most.
LEMMA BuyBroadcast ==
    ASSUME net \in [Tx -> TxStatus], NEW t \in Tx, Broadcast(t)
    PROVE  /\ net' \in [Tx -> TxStatus]
           /\ Final(net, net', world)
           /\ \A u \in Tx : u # t => net'[u] = net[u]
<1>1. CASE net' = net
  BY <1>1 DEF Final
<1>2. CASE net' = [net EXCEPT ![t] = IF @ = "none" THEN "inflight" ELSE @]
  BY <1>2 DEF Final, TxStatus
<1> QED
  BY <1>1, <1>2 DEF Broadcast

\* The cluster by itself sends nothing.
LEMMA BuyerClusterEffect ==
    ASSUME ClusterTypeOK, PBCluster
    PROVE  /\ ClusterTypeOK' /\ UNCHANGED <<world, buyerVars>>
           /\ Final(net, net', world)
           /\ \A t \in Tx : net[t] = "none" => net'[t] = "none"
<1>1. CASE Tick /\ UNCHANGED buyerVars
  BY <1>1 DEF Tick, ClusterTypeOK, Final
<1>2. ASSUME NEW t \in BuyTx, UNCHANGED buyerVars,
             Process(t) \/ ConfirmOk(t) \/ ConfirmErr(t) \/ DropFork(t)
      PROVE  /\ ClusterTypeOK' /\ UNCHANGED <<world, buyerVars>>
             /\ Final(net, net', world)
             /\ \A u \in Tx : net[u] = "none" => net'[u] = "none"
  BY <1>2 DEF ClusterTypeOK, Final, TxStatus, Process, ConfirmOk, ConfirmErr,
              DropFork, SetNet
<1> QED
  BY <1>1, <1>2 DEF PBCluster

-----------------------------------------------------------------------------
(* The buyers' loops: the invariant *)

\* Where each loop can be, and what it holds there.  The careful loop asks
\* for the height only of a buy it has not seen; the first two loops build
\* a buy that was never sent.
StageInv ==
    /\ loop # "generations" =>
        /\ buyerAt \in {"submit", "loop", "height", "resend"} => active \in BuyTx
        /\ buyerAt = "submit" => net[active] = "none"
        /\ buyerAt = "build" => active = NoBuy
    /\ loop = "generations" /\ buyerAt = "submit" => active \in BuyTx
    /\ buyerAt = "height" => loop = "careful" /\ ~processed
    /\ buyerAt = "resend" => loop # "generations"

\* A buy that was sent and is not the active one was replaced, and on
\* evidence: a failure was one, no buy that was seen has expired, and the
\* careful loop never goes by the clock.
ReplacedInv ==
    /\ \A t \in BuyTx : net[t] # "none" /\ t # active =>
            \E e \in Evidence : <<t, e>> \in replaced
    /\ \A t \in BuyTx :
        /\ <<t, "failed">> \in replaced /\ ~world.reland
                => net[t] \in {"procErr", "err"}
        /\ <<t, "expired">> \notin replaced
        /\ loop = "careful" => <<t, "interval">> \notin replaced

BuyerInv == ClusterTypeOK /\ PBTypeOK /\ StageInv /\ ReplacedInv

LEMMA BuyerInit == PBInit /\ ClusterInit => BuyerInv
<1> SUFFICES ASSUME PBInit, ClusterInit PROVE BuyerInv
  OBVIOUS
<1>1. ClusterTypeOK
  BY DEF ClusterInit, ClusterTypeOK, TxStatus
<1>2. PBTypeOK
  <2>1. processed \in BOOLEAN
    BY DEF PBInit
  <2> QED
    BY <2>1 DEF PBInit, PBTypeOK, BuyerLoop
<1>3. StageInv
  BY DEF PBInit, StageInv
<1>4. ReplacedInv
  BY DEF PBInit, ClusterInit, ReplacedInv
<1> QED
  BY <1>1, <1>2, <1>3, <1>4 DEF BuyerInv

-----------------------------------------------------------------------------
(* The buyers' loops: steps *)

\* The loop goes on with the same buy.
LEMMA GoInv ==
    ASSUME BuyerInv, UNCHANGED cluster,
           NEW a \in {"build", "submit", "loop", "resend", "end"}, GoBuyer(a),
           a = "resend" => loop # "generations" /\ active \in BuyTx,
           a = "loop" => loop = "generations" \/ active \in BuyTx,
           a = "build" => loop = "generations",
           a = "submit" => loop = "generations" /\ active \in BuyTx
    PROVE  BuyerInv'
<1>1. ClusterTypeOK' /\ PBTypeOK'
  BY DEF BuyerInv, ClusterTypeOK, PBTypeOK, GoBuyer, cluster
<1>2. StageInv'
  BY DEF BuyerInv, StageInv, GoBuyer, cluster
<1>3. ReplacedInv'
  BY DEF BuyerInv, ReplacedInv, GoBuyer, cluster
<1> QED
  BY <1>1, <1>2, <1>3 DEF BuyerInv

\* The buy is given up on evidence that may be held against it.
LEMMA ReplaceInv ==
    ASSUME BuyerInv, UNCHANGED cluster, loop # "generations",
           active \in BuyTx, NEW e \in Evidence, Replace(e),
           e = "failed" => net[active] \in {"procErr", "err"},
           e # "expired",
           e = "interval" => loop # "careful"
    PROVE  BuyerInv'
<1>1. ClusterTypeOK' /\ PBTypeOK'
  BY DEF BuyerInv, ClusterTypeOK, PBTypeOK, Replace, cluster
<1>2. StageInv'
  BY DEF BuyerInv, StageInv, Replace, cluster
<1>3. ReplacedInv'
  BY DEF BuyerInv, ReplacedInv, Replace, cluster, Evidence
<1> QED
  BY <1>1, <1>2, <1>3 DEF BuyerInv

\* The active buy is sent, for the first time or again.
LEMMA SentInv ==
    ASSUME BuyerInv, active \in BuyTx, Broadcast(active), buyerAt' = "loop",
           processed' \in BOOLEAN, signatures' \subseteq BuyTx,
           UNCHANGED <<loop, active, replaced, height, world>>
    PROVE  BuyerInv'
<1>1. /\ net' \in [Tx -> TxStatus] /\ Final(net, net', world)
      /\ \A u \in Tx : u # active => net'[u] = net[u]
  BY BuyBroadcast DEF BuyerInv, ClusterTypeOK
<1>2. ClusterTypeOK' /\ PBTypeOK'
  BY <1>1 DEF BuyerInv, ClusterTypeOK, PBTypeOK
<1>3. StageInv'
  BY DEF BuyerInv, StageInv
<1>4. ReplacedInv'
  BY <1>1 DEF BuyerInv, ReplacedInv, Final
<1> QED
  BY <1>2, <1>3, <1>4 DEF BuyerInv

\* An answer "failed" is of a buy that has failed.
LEMMA BuyFailedViews ==
    ASSUME NEW t \in Tx, net \in [Tx -> TxStatus]
    PROVE  \A v \in StatusViews(t) : v \in {"procErr", "err"}
                => net[t] \in {"procErr", "err"}
  BY DEF StatusViews, TxStatus

LEMMA BuyerInduction == BuyerInv /\ [PBNext]_<<buyerVars, cluster>> => BuyerInv'
<1> SUFFICES ASSUME BuyerInv, [PBNext]_<<buyerVars, cluster>> PROVE BuyerInv'
  OBVIOUS
<1>0. /\ net \in [Tx -> TxStatus] /\ active \in BuyTx \cup {NoBuy}
      /\ processed \in BOOLEAN /\ signatures \subseteq BuyTx
  BY DEF BuyerInv, ClusterTypeOK, PBTypeOK
<1>1. CASE BuildBuy
  BY <1>1 DEF BuildBuy, Compiles, BuyerInv, ClusterTypeOK, PBTypeOK, StageInv,
              ReplacedInv, cluster
<1>2. CASE SubmitBuy
  <2>1. active \in BuyTx /\ loop # "generations" /\ net[active] = "none"
    BY <1>2 DEF SubmitBuy, BuyerInv, StageInv
  <2>2. CASE /\ active' = NoBuy /\ buyerAt' = "build"
             /\ UNCHANGED <<loop, processed, signatures, replaced, cluster>>
    BY <2>1, <2>2 DEF BuyerInv, ClusterTypeOK, PBTypeOK, StageInv,
                      ReplacedInv, cluster
  <2> QED
    BY <1>0, <1>2, <2>1, <2>2, SentInv DEF SubmitBuy
<1>3. CASE Resend
  BY <1>0, <1>3, SentInv DEF Resend, GoBuyer, BuyerInv, StageInv
<1>4. CASE EndBuyer
  BY <1>4, GoInv DEF EndBuyer
<1>5. CASE PollStatus
  <2>1. active \in BuyTx /\ loop = "careful" /\ UNCHANGED cluster
    BY <1>5 DEF PollStatus, BuyerInv, StageInv
  <2>2. PICK view \in StatusViews(active) :
          \/ view = "ok" /\ GoBuyer("end")
          \/ view \in {"err", "procErr"} /\ Replace("failed")
          \/ /\ view \in {"procOk", "none"}
             /\ processed' = (processed \/ view = "procOk")
             /\ \/ MayExpire(processed') /\ buyerAt' = "height"
                \/ buyerAt' = "resend"
             /\ UNCHANGED <<loop, active, signatures, replaced>>
    BY <1>5 DEF PollStatus
  <2>3. CASE view = "ok" /\ GoBuyer("end")
    BY <2>1, <2>3, GoInv
  <2>4. CASE view \in {"err", "procErr"} /\ Replace("failed")
    BY <1>0, <2>1, <2>4, BuyFailedViews, ReplaceInv DEF Evidence
  <2>5. CASE /\ processed' = (processed \/ view = "procOk")
             /\ \/ MayExpire(processed') /\ buyerAt' = "height"
                \/ buyerAt' = "resend"
             /\ UNCHANGED <<loop, active, signatures, replaced>>
    <3>1. processed' \in BOOLEAN /\ (buyerAt' = "height" => ~processed')
      BY <2>5 DEF MayExpire
    <3> QED
      BY <2>1, <2>5, <3>1 DEF BuyerInv, ClusterTypeOK, PBTypeOK, StageInv,
                              ReplacedInv, cluster
  <2> QED
    BY <2>2, <2>3, <2>4, <2>5
<1>6. CASE PollHeight
  <2>1. /\ active \in BuyTx /\ loop = "careful" /\ ~processed
        /\ UNCHANGED cluster
    BY <1>6 DEF PollHeight, BuyerInv, StageInv
  <2> QED
    BY <1>6, <2>1, GoInv, ReplaceInv DEF PollHeight, Evidence
<1>7. CASE PollDependent
  <2>1. active \in BuyTx /\ loop = "dependent" /\ UNCHANGED cluster
    BY <1>7 DEF PollDependent, BuyerInv, StageInv
  <2> QED
    BY <1>0, <1>7, <2>1, GoInv, ReplaceInv, BuyFailedViews
       DEF PollDependent, Evidence
<1>8. CASE PollGenerations
  <2>1. loop = "generations" /\ UNCHANGED cluster
    BY <1>8 DEF PollGenerations
  <2>2. \/ GoBuyer("end") \/ GoBuyer("build")
        \/ active \in BuyTx /\ GoBuyer("submit")
    BY <1>0, <1>8 DEF PollGenerations
  <2> QED
    BY <2>1, <2>2, GoInv
<1>9. CASE BuildGeneration
  <2>1. CASE GoBuyer("loop") /\ UNCHANGED cluster
    BY <1>9, <2>1, GoInv DEF BuildGeneration
  <2>2. CASE /\ \E t \in BuyTx : Compiles(t) /\ active' = t
             /\ replaced' = replaced \cup
                    (IF active = NoBuy THEN {} ELSE {<<active, "interval">>})
             /\ buyerAt' = "submit"
             /\ UNCHANGED <<loop, processed, signatures, cluster>>
    <3>1. loop = "generations" /\ active' \in BuyTx
      BY <1>9, <2>2 DEF BuildGeneration
    <3>2. \/ active = NoBuy /\ replaced' = replaced
          \/ /\ active # NoBuy
             /\ replaced' = replaced \cup {<<active, "interval">>}
      BY <2>2
    <3>3. ClusterTypeOK' /\ PBTypeOK'
      <4>1. replaced \subseteq BuyTx \X Evidence
        BY DEF BuyerInv, PBTypeOK
      <4>2. active # NoBuy => <<active, "interval">> \in BuyTx \X Evidence
        BY <1>0 DEF Evidence
      <4>3. replaced' \subseteq BuyTx \X Evidence
        BY <3>2, <4>1, <4>2
      <4>4. ClusterTypeOK'
        BY <2>2 DEF BuyerInv, ClusterTypeOK, cluster
      <4> QED
        BY <2>2, <3>1, <4>3, <4>4 DEF BuyerInv, PBTypeOK
    <3>4. StageInv'
      BY <2>2, <3>1 DEF StageInv
    <3>5. ReplacedInv'
      BY <1>0, <2>2, <3>1, <3>2 DEF BuyerInv, ReplacedInv, Evidence, cluster
    <3> QED
      BY <3>3, <3>4, <3>5 DEF BuyerInv
  <2> QED
    BY <1>9, <2>1, <2>2 DEF BuildGeneration
<1>10. CASE SubmitGeneration
  <2>1. active \in BuyTx
    BY <1>10 DEF SubmitGeneration, BuyerInv, StageInv
  <2>2. CASE GoBuyer("loop") /\ UNCHANGED cluster
    BY <1>10, <2>2, GoInv DEF SubmitGeneration
  <2> QED
    BY <1>0, <1>10, <2>1, <2>2, SentInv DEF SubmitGeneration
<1>11. CASE PBCluster
  <2>1. /\ ClusterTypeOK' /\ UNCHANGED <<world, buyerVars>>
        /\ Final(net, net', world)
        /\ \A t \in Tx : net[t] = "none" => net'[t] = "none"
    BY <1>11, BuyerClusterEffect DEF BuyerInv
  <2> QED
    BY <2>1 DEF BuyerInv, PBTypeOK, StageInv, ReplacedInv, Final, buyerVars
<1>12. CASE UNCHANGED <<buyerVars, cluster>>
  BY <1>12 DEF BuyerInv, ClusterTypeOK, PBTypeOK, StageInv, ReplacedInv,
               buyerVars, cluster
<1> QED
  BY <1>1, <1>2, <1>3, <1>4, <1>5, <1>6, <1>7, <1>8, <1>9, <1>10, <1>11, <1>12
     DEF PBNext

-----------------------------------------------------------------------------

\* The loop's variables have their types.
THEOREM BuyerTypeCorrect == PBSpec => [](ClusterTypeOK /\ PBTypeOK)
<1>1. BuyerInv => ClusterTypeOK /\ PBTypeOK
  BY DEF BuyerInv
<1> QED
  BY <1>1, BuyerInit, BuyerInduction, PTL DEF PBSpec

LEMMA BuyerHasCause == BuyerInv => SecondBuyHasCause
<1> SUFFICES ASSUME BuyerInv, NEW t \in Bought, NEW u \in Bought, t # u
             PROVE  \E b \in {t, u} :
                      \/ <<b, "expired unseen">> \in replaced
                      \/ world.reland /\ <<b, "failed">> \in replaced
                      \/ loop # "careful" /\ <<b, "interval">> \in replaced
  BY DEF SecondBuyHasCause
<1>1. PICK b \in {t, u} : b # active
  OBVIOUS
<1>2. b \in BuyTx /\ net[b] \in {"procOk", "ok"}
  BY DEF Bought
<1>3. PICK e \in Evidence : <<b, e>> \in replaced
  BY <1>1, <1>2 DEF BuyerInv, ReplacedInv
<1> QED
  BY <1>2, <1>3 DEF BuyerInv, ReplacedInv, Evidence

\* Of two buys that landed one is not the active buy any more, so it was
\* replaced: unseen, because of a failure that was dropped, or by the clock.
THEOREM SecondBuyIsExplained == PBSpec => []SecondBuyHasCause
  BY BuyerHasCause, BuyerInit, BuyerInduction, PTL DEF PBSpec

-----------------------------------------------------------------------------
(* The listener: numbers *)

\* Every set of numbers that is not empty has a least element.
LEMMA Least ==
    ASSUME NEW T \in SUBSET Nat, T # {}
    PROVE  \E m \in T : \A y \in T : m <= y
<1> DEFINE Less == OpToRel(<, Nat)
<1>1. IsWellFoundedOn(Less, Nat)
  BY NatLessThanWellFounded
<1>2. \A x, y \in Nat : <<y, x>> \in Less <=> y < x
  BY DEF OpToRel
<1> HIDE DEF Less
<1>3. PICK m \in T : \A y \in T : ~(<<y, m>> \in Less)
  BY <1>1, WFMin
<1>4. \A y \in T : ~(y < m)
  BY <1>2, <1>3
<1> QED
  BY <1>4

LEMMA Full == \A a, b \in Nat : a <= b /\ ~(a < b) => a = b
  OBVIOUS

LEMMA Positions == \A n \in Nat : \A j \in 1..n : j = n \/ j \in 1..(n - 1)
  OBVIOUS

\* Induction for a set of numbers: its complement has no least element.
LEMMA NumberInduction ==
    ASSUME NEW S, 0 \in S, \A n \in Nat : n \in S => n + 1 \in S
    PROVE  Nat \subseteq S
<1> SUFFICES ASSUME Nat \ S # {} PROVE FALSE
  OBVIOUS
<1>1. PICK m \in Nat \ S : \A y \in Nat \ S : m <= y
  BY Least
<1>2. m # 0 /\ m - 1 \in Nat /\ ~(m <= m - 1) /\ (m - 1) + 1 = m
  OBVIOUS
<1>3. m - 1 \in S
  BY <1>1, <1>2
<1> QED
  BY <1>2, <1>3

-----------------------------------------------------------------------------
(* The listener: chains and hashes *)

Content == {{}} \cup {{x} : x \in Creation}

LEMMA ChainFacts ==
    ASSUME NEW c \in Chain
    PROVE  /\ c \in Seq(Content) /\ Len(c) \in Nat /\ Len(c) <= MaxChain
           /\ DOMAIN c = 1..Len(c)
           /\ \A i \in 1..Len(c) : c[i] \in SUBSET Creation
           /\ \A i, j \in 1..Len(c) : i # j => c[i] \cap c[j] = {}
           /\ c # NoHash /\ c # NoStream
<1>1. PICK n \in 0..MaxChain : c \in [1..n -> Content]
  BY DEF Chain, Content
<1>2. c \in Seq(Content) /\ Len(c) = n
  BY <1>1
<1>3. \A i, j \in DOMAIN c : i # j => c[i] \cap c[j] = {}
  BY DEF Chain
<1> QED
  BY <1>1, <1>2, <1>3 DEF Content

LEMMA HashFacts ==
    ASSUME NEW c \in Chain, NEW n \in 0..Len(c)
    PROVE  /\ Hash(c, n) \in Chain /\ Len(Hash(c, n)) = n
           /\ \A i \in 1..n : Hash(c, n)[i] = c[i] /\ i \in 1..Len(c)
<1>1. c \in Seq(Content) /\ Len(c) \in Nat /\ Len(c) <= MaxChain /\ n \in Nat
      /\ \A i, j \in 1..Len(c) : i # j => c[i] \cap c[j] = {}
  BY ChainFacts
<1>2. \A i \in 1..n : i \in 1..Len(c)
  BY <1>1
<1>3. Hash(c, n) = [i \in 1..n |-> c[i]]
  BY <1>1 DEF Hash
<1>4. Hash(c, n) \in [1..n -> Content]
  BY <1>1, <1>2, <1>3
<1>5. Len(Hash(c, n)) = n
  BY <1>1, <1>3
<1>6. \A i, j \in DOMAIN Hash(c, n) : i # j => Hash(c, n)[i] \cap Hash(c, n)[j] = {}
  BY <1>1, <1>2, <1>3
<1>7. n \in 0..MaxChain
  BY <1>1
<1>8. Hash(c, n) \in Chain
  BY <1>4, <1>6, <1>7 DEF Chain, Content
<1> QED
  BY <1>2, <1>3, <1>5, <1>8

\* A hash on a chain names a beginning of it.
LEMMA OnFacts ==
    ASSUME NEW h \in Chain, NEW c \in Chain, On(h, c)
    PROVE  Len(h) <= Len(c) /\ \A i \in 1..Len(h) : h[i] = c[i]
<1>1. Len(h) \in 0..Len(c) /\ Hash(c, Len(h)) = h
  BY ChainFacts DEF On
<1>2. \A i \in 1..Len(h) : Hash(c, Len(h))[i] = c[i]
  BY <1>1, HashFacts
<1> QED
  BY <1>1, <1>2

LEMMA NewestFacts ==
    ASSUME NEW H \in SUBSET Chain, H # {}
    PROVE  Newest(H) \in H
<1> DEFINE T == {MaxChain - Len(h) : h \in H}
<1>1. \A h \in H : Len(h) \in Nat /\ Len(h) <= MaxChain
  BY ChainFacts
<1>2. T \in SUBSET Nat /\ T # {}
  BY <1>1
<1>3. PICK m \in T : \A y \in T : m <= y
  BY <1>2, Least
<1>4. PICK h \in H : m = MaxChain - Len(h)
  OBVIOUS
<1>5. ASSUME NEW g \in H PROVE Len(g) <= Len(h)
  <2>1. MaxChain - Len(h) <= MaxChain - Len(g)
    BY <1>3, <1>4
  <2> QED
    BY <1>1, <2>1
<1> QED
  BY <1>5 DEF Newest

-----------------------------------------------------------------------------
(* The listener: the header memory *)

\* Whatever is in the memory q was in the memory r.
Within(q, r) == \A j \in 1..Len(q) : \E k \in 1..Len(r) : q[j] = r[k]

\* What is kept was there before.
LEMMA RemovedAfterFacts ==
    ASSUME headers \in Seq(Chain), NEW n
    PROVE  /\ RemovedAfter(n) \in Seq(Chain)
           /\ Len(RemovedAfter(n)) <= Len(headers)
           /\ Within(RemovedAfter(n), headers)
<1>0. Len(headers) \in Nat /\ \A i \in 1..Len(headers) : headers[i] \in Chain
  OBVIOUS
<1> DEFINE Body(f, i) == IF i = 0 THEN <<>>
                         ELSE IF Len(headers[i]) <= n THEN Append(f[i - 1], headers[i])
                         ELSE f[i - 1]
<1>1. PICK kept : /\ kept = [i \in 0..Len(headers) |-> Body(kept, i)]
                  /\ RemovedAfter(n) = kept[Len(headers)]
  <2> DEFINE Good == {m \in Nat : \E f : f = [i \in 0..m |-> Body(f, i)]}
  <2>1. 0 \in Good
    <3>1. [i \in 0..0 |-> <<>>] = [i \in 0..0 |-> Body([j \in 0..0 |-> <<>>], i)]
      OBVIOUS
    <3> QED
      BY <3>1
  <2>2. ASSUME NEW m \in Nat, m \in Good PROVE m + 1 \in Good
    <3>1. PICK f : f = [i \in 0..m |-> Body(f, i)]
      BY <2>2
    <3> DEFINE g == [i \in 0..(m + 1) |-> IF i = m + 1 THEN Body(f, i) ELSE f[i]]
    <3>2. \A i \in 0..(m + 1) : g[i] = Body(g, i)
      <4>1. \A i \in 1..(m + 1) : g[i - 1] = f[i - 1]
        OBVIOUS
      <4>2. \A i \in 0..m : f[i] = Body(f, i)
        BY <3>1
      <4>3. \A i \in 0..(m + 1) : g[i] = Body(f, i)
        BY <4>2
      <4> HIDE DEF g
      <4>4. \A i \in 0..(m + 1) : Body(f, i) = Body(g, i)
        BY <4>1
      <4> QED
        BY <4>3, <4>4
    <3>3. g = [i \in 0..(m + 1) |-> g[i]]
      OBVIOUS
    <3> HIDE DEF g
    <3>4. g = [i \in 0..(m + 1) |-> Body(g, i)]
      BY <3>2, <3>3
    <3>5. \E h : h = [i \in 0..(m + 1) |-> Body(h, i)]
      BY <3>4
    <3>6. m + 1 \in Nat
      OBVIOUS
    <3> QED
      BY <3>5, <3>6
  <2>3. Len(headers) \in Good
    <3> HIDE DEF Good
    <3>1. Nat \subseteq Good
      BY <2>1, <2>2, NumberInduction
    <3> QED
      BY <1>0, <3>1
  <2> DEFINE k == CHOOSE f : f = [i \in 0..Len(headers) |-> Body(f, i)]
  <2>4. \E f : f = [i \in 0..Len(headers) |-> Body(f, i)]
    BY <2>3
  <2>5. k = [i \in 0..Len(headers) |-> Body(k, i)]
    BY <2>4
  <2>6. RemovedAfter(n) = k[Len(headers)]
    BY DEF RemovedAfter
  <2> HIDE DEF k
  <2> QED
    BY <2>5, <2>6
<1>2. \A i \in 0..Len(headers) : kept[i] = Body(kept, i)
  BY <1>1
<1> DEFINE Fine(q, i) == q \in Seq(Chain) /\ Len(q) <= i /\ Within(q, headers)
           Kept == {i \in Nat : i <= Len(headers) => Fine(kept[i], i)}
<1>3. 0 \in Kept
  <2>1. kept[0] = <<>>
    BY <1>0, <1>2
  <2>2. Fine(<<>>, 0)
    BY DEF Within
  <2> QED
    BY <2>1, <2>2
<1>4. ASSUME NEW m \in Nat, m \in Kept PROVE m + 1 \in Kept
  <2> SUFFICES ASSUME m + 1 <= Len(headers) PROVE Fine(kept[m + 1], m + 1)
    OBVIOUS
  <2>1. /\ m + 1 \in 0..Len(headers) /\ m + 1 # 0 /\ (m + 1) - 1 = m
        /\ m + 1 \in 1..Len(headers) /\ headers[m + 1] \in Chain
    BY <1>0
  <2>2. kept[m + 1] = kept[m] \/ kept[m + 1] = Append(kept[m], headers[m + 1])
    BY <1>2, <2>1
  <2>3. PICK q : q = kept[m]
    OBVIOUS
  <2>4. q \in Seq(Chain) /\ Len(q) \in Nat /\ Len(q) <= m /\ Within(q, headers)
    BY <1>0, <1>4, <2>3
  <2>5. CASE kept[m + 1] = Append(q, headers[m + 1])
    <3>1. PICK r : r = Append(q, headers[m + 1])
      OBVIOUS
    <3>2. r \in Seq(Chain) /\ Len(r) = Len(q) + 1 /\ r[Len(q) + 1] = headers[m + 1]
          /\ \A j \in 1..Len(q) : r[j] = q[j]
      BY <2>1, <2>4, <3>1
    <3>3. Within(r, headers)
      <4> SUFFICES ASSUME NEW j \in 1..Len(r)
                   PROVE  \E k \in 1..Len(headers) : r[j] = headers[k]
        BY DEF Within
      <4>1. j \in 1..Len(q) \/ j = Len(q) + 1
        BY <2>4, <3>2
      <4> QED
        BY <2>1, <2>4, <3>2, <4>1 DEF Within
    <3>4. Len(r) <= m + 1
      BY <2>4, <3>2
    <3> QED
      BY <2>5, <3>1, <3>2, <3>3, <3>4
  <2>6. CASE kept[m + 1] = q
    BY <2>4, <2>6
  <2> QED
    BY <2>2, <2>3, <2>5, <2>6
<1>5. Len(headers) \in Kept
  <2> HIDE DEF Kept
  <2>1. Nat \subseteq Kept
    BY <1>3, <1>4, NumberInduction
  <2> QED
    BY <1>0, <2>1
<1> QED
  BY <1>0, <1>1, <1>5

\* The hash that was added is the only one that is new.
LEMMA RememberedFacts ==
    ASSUME headers \in Seq(Chain), Len(headers) <= Headers, NEW h \in Chain
    PROVE  /\ Remembered(h) \in Seq(Chain) /\ Len(Remembered(h)) <= Headers
           /\ \A j \in 1..Len(Remembered(h)) :
                 \/ Remembered(h)[j] = h
                 \/ \E k \in 1..Len(headers) : Remembered(h)[j] = headers[k]
<1>0. /\ Len(headers) \in Nat /\ DOMAIN headers = 1..Len(headers)
      /\ \A i \in 1..Len(headers) : headers[i] \in Chain
      /\ Headers \in Nat \ {0}
  OBVIOUS
<1>1. CASE Numbered(Len(h)) # {}
  <2> DEFINE q == [i \in DOMAIN headers |-> IF i \in Numbered(Len(h)) THEN h ELSE headers[i]]
  <2>1. q \in [1..Len(headers) -> Chain]
    BY <1>0
  <2>2. q \in Seq(Chain) /\ Len(q) = Len(headers)
    BY <1>0, <2>1
  <2>3. \A j \in 1..Len(headers) : q[j] = h \/ q[j] = headers[j]
    BY <1>0
  <2>4. Remembered(h) = q
    BY <1>1 DEF Remembered
  <2> HIDE DEF q
  <2> QED
    BY <2>2, <2>3, <2>4
<1>2. CASE Numbered(Len(h)) = {} /\ Len(headers) < Headers
  <2>1. PICK q : q = Append(headers, h)
    OBVIOUS
  <2>2. /\ q \in Seq(Chain) /\ Len(q) = Len(headers) + 1 /\ q[Len(headers) + 1] = h
        /\ \A j \in 1..Len(headers) : q[j] = headers[j]
    BY <2>1
  <2>3. Remembered(h) = q
    BY <1>2, <2>1 DEF Remembered
  <2>4. \A j \in 1..Len(q) : j \in 1..Len(headers) \/ j = Len(headers) + 1
    BY <1>0, <2>2
  <2> QED
    BY <1>0, <1>2, <2>2, <2>3, <2>4
<1>3. CASE Numbered(Len(h)) = {} /\ ~(Len(headers) < Headers)
  <2>0. headers # <<>> /\ Len(headers) = Headers
    <3>1. Len(headers) \in Nat /\ Headers \in Nat /\ Len(headers) <= Headers
      BY <1>0
    <3>2. headers = <<>> => Len(headers) = 0
      OBVIOUS
    <3>3. Len(headers) = Headers
      BY <1>3, <3>1, Full
    <3> QED
      BY <1>0, <3>2, <3>3
  <2>1. PICK q : q = Tail(headers)
    OBVIOUS
  <2>2. /\ q \in Seq(Chain) /\ Len(q) = Len(headers) - 1
        /\ \A j \in 1..Len(q) : q[j] = headers[j + 1] /\ j + 1 \in 1..Len(headers)
    BY <2>0, <2>1
  <2>3. PICK r : r = Append(q, h)
    OBVIOUS
  <2>4. /\ r \in Seq(Chain) /\ Len(r) = Len(headers) /\ r[Len(headers)] = h
        /\ \A j \in 1..Len(q) : r[j] = q[j]
    <3>1. /\ r \in Seq(Chain) /\ Len(r) = Len(q) + 1 /\ r[Len(q) + 1] = h
          /\ \A j \in 1..Len(q) : r[j] = q[j]
      BY <2>2, <2>3
    <3>2. Len(q) + 1 = Len(headers)
      BY <1>0, <2>2
    <3> QED
      BY <3>1, <3>2
  <2>5. \A j \in 1..Len(r) : j \in 1..Len(q) \/ j = Len(headers)
    BY <1>0, <2>2, <2>4, Positions
  <2>6. Remembered(h) = r
    BY <1>3, <2>1, <2>3 DEF Remembered
  <2>7. \A j \in 1..Len(r) :
           r[j] = h \/ \E k \in 1..Len(headers) : r[j] = headers[k]
    BY <2>2, <2>4, <2>5
  <2>8. Len(r) <= Headers
    BY <1>0, <2>0, <2>4
  <2> QED
    BY <2>4, <2>6, <2>7, <2>8
<1> QED
  BY <1>1, <1>2, <1>3

-----------------------------------------------------------------------------
(* The listener: the invariant *)

\* Every creation of the chain h, from the first block that is read, is reported.
Heard(h) == \A n \in From..Len(h) : h[n] \subseteq reported

\* What of h no fork can drop any more is on the source's chain.
Certain(h) ==
    Len(h) <= Len(chain) /\ \A n \in 1..(Len(h) - Rewind) : h[n] = chain[n]

\* The blocks the client has passed are all heard.  Without a parent hash it
\* cannot tell on which chain it stands, and has passed settled blocks only.
ParentOK ==
    IF parent # NoHash THEN Len(parent) = cursor - 1 /\ Heard(parent) /\ Certain(parent)
    ELSE \A n \in From..(cursor - 1) :
            n <= Len(chain) - Rewind /\ chain[n] \subseteq reported

\* What is remembered was read, on whatever branch.
HeadersOK == \A i \in 1..Len(headers) : Heard(headers[i])

StreamOK ==
    stream # NoStream =>
        /\ Certain(stream) /\ cursor <= Len(stream) + 1
        /\ \A n \in From..(cursor - 1) : stream[n] \subseteq reported

PortalInv == PLTypeOK /\ ParentOK /\ HeadersOK /\ StreamOK

LEMMA EmptyChain == <<>> \in Chain
<1>1. <<>> \in [1..0 -> {{}} \cup {{x} : x \in Creation}]
  OBVIOUS
<1> QED
  BY <1>1 DEF Chain

LEMMA PortalInit == PLInit => PortalInv
<1> SUFFICES ASSUME PLInit PROVE PortalInv
  OBVIOUS
<1>1. PLTypeOK
  BY EmptyChain DEF PLInit, PLTypeOK
<1>2. ParentOK
  BY DEF PLInit, ParentOK
<1> QED
  BY <1>1, <1>2 DEF PLInit, PortalInv, HeadersOK, StreamOK

\* The source's chain only moves beyond what is settled.
LEMMA SourceStep ==
    ASSUME PortalInv, Extend \/ Fork
    PROVE  /\ UNCHANGED <<stream, cursor, parent, headers, reported>>
           /\ chain' \in Chain /\ forks' \in 0..MaxForks
           /\ Len(chain') >= Len(chain)
           /\ \A n \in 1..Len(chain) : n <= Len(chain) - Rewind => chain'[n] = chain[n]
<1>0. chain \in Chain /\ forks \in 0..MaxForks
  BY DEF PortalInv, PLTypeOK
<1>1. chain \in Seq(Content) /\ Len(chain) \in Nat
  BY <1>0, ChainFacts
<1>2. CASE Extend
  <2>1. PICK b \in Content : chain' = Append(chain, b)
    BY <1>2 DEF Extend, Content
  <2>2. Len(chain') = Len(chain) + 1 /\ \A n \in 1..Len(chain) : chain'[n] = chain[n]
    BY <1>1, <2>1
  <2> QED
    BY <1>0, <1>1, <1>2, <2>2 DEF Extend
<1>3. CASE Fork
  <2>1. PICK c \in Chain, k \in 0..(Len(chain) - 1) :
           /\ Len(c) = Len(chain) /\ Hash(c, k) = Hash(chain, k)
           /\ Shallow(k) /\ chain' = c
    BY <1>3 DEF Fork
  <2>2. k \in 0..Len(c) /\ k \in 0..Len(chain)
    BY <1>1, <2>1
  <2>3. \A n \in 1..k : Hash(c, k)[n] = c[n] /\ Hash(chain, k)[n] = chain[n]
    BY <1>0, <2>1, <2>2, HashFacts
  <2>4. \A n \in 1..Len(chain) : n <= Len(chain) - Rewind => n \in 1..k
    BY <1>1, <2>1 DEF Shallow
  <2>5. \A n \in 1..Len(chain) : n <= Len(chain) - Rewind => chain'[n] = chain[n]
    BY <2>1, <2>3, <2>4
  <2>6. forks' \in 0..MaxForks
    BY <1>0, <1>3 DEF Fork
  <2> QED
    BY <1>1, <1>3, <2>1, <2>5, <2>6 DEF Fork
<1> QED
  BY <1>2, <1>3

LEMMA SourceInv ==
    ASSUME PortalInv, Extend \/ Fork
    PROVE  PortalInv'
<1>0. /\ PLTypeOK /\ ParentOK /\ HeadersOK /\ StreamOK
      /\ chain \in Chain /\ Len(chain) \in Nat /\ Len(chain') \in Nat
      /\ Len(chain') >= Len(chain)
      /\ cursor \in Nat
  BY SourceStep, ChainFacts DEF PortalInv, PLTypeOK
<1>1. PLTypeOK'
  BY <1>0, SourceStep DEF PLTypeOK
<1>2. ASSUME NEW h \in Chain, Certain(h)
      PROVE  Len(h) <= Len(chain') /\ \A n \in 1..(Len(h) - Rewind) : h[n] = chain'[n]
  <2>1. Len(h) \in Nat /\ Len(h) <= Len(chain)
    BY <1>2, ChainFacts DEF Certain
  <2>2. ASSUME NEW n \in 1..(Len(h) - Rewind) PROVE h[n] = chain'[n]
    <3>1. n \in 1..Len(chain) /\ n <= Len(chain) - Rewind
      BY <1>0, <2>1
    <3> QED
      BY <1>2, <3>1, SourceStep DEF Certain
  <2> QED
    BY <1>0, <2>1, <2>2
<1>3. ParentOK'
  <2>1. CASE parent # NoHash
    <3>1. parent \in Chain
      BY <1>0, <2>1 DEF PLTypeOK
    <3> QED
      BY <1>0, <1>2, <2>1, <3>1, SourceStep DEF ParentOK, Certain, Heard
  <2>2. CASE parent = NoHash
    <3>1. ASSUME NEW n \in From..(cursor - 1)
          PROVE  n <= Len(chain') - Rewind /\ chain'[n] \subseteq reported
      <4>1. n <= Len(chain) - Rewind /\ chain[n] \subseteq reported
        BY <1>0, <2>2, <3>1 DEF ParentOK
      <4>2. n \in 1..Len(chain)
        BY <1>0, <4>1
      <4> QED
        BY <1>0, <4>1, <4>2, SourceStep
    <3> QED
      BY <2>2, <3>1, SourceStep DEF ParentOK
  <2> QED
    BY <2>1, <2>2
<1>4. HeadersOK'
  BY <1>0, SourceStep DEF HeadersOK, Heard
<1>5. StreamOK'
  <2>1. CASE stream # NoStream
    <3>1. stream \in Chain
      BY <1>0, <2>1 DEF PLTypeOK
    <3> QED
      BY <1>0, <1>2, <2>1, <3>1, SourceStep DEF StreamOK, Certain
  <2>2. CASE stream = NoStream
    BY <2>2, SourceStep DEF StreamOK
  <2> QED
    BY <2>1, <2>2
<1> QED
  BY <1>1, <1>3, <1>4, <1>5 DEF PortalInv

\* A response starts where everything before the cursor has been heard.
LEMMA RequestInv ==
    ASSUME PortalInv, Request
    PROVE  PortalInv'
<1>0. /\ PLTypeOK /\ ParentOK /\ HeadersOK /\ StreamOK
      /\ UNCHANGED <<chain, forks, cursor, parent, headers, reported>>
      /\ stream' = chain /\ chain \in Chain /\ Len(chain) \in Nat
      /\ cursor \in Nat /\ cursor <= Len(chain)
  BY ChainFacts DEF PortalInv, PLTypeOK, Request, HasData
<1>1. PLTypeOK'
  BY <1>0 DEF PLTypeOK
<1>2. Certain(chain) /\ cursor <= Len(chain) + 1
  BY <1>0 DEF Certain
<1>3. ASSUME NEW n \in From..(cursor - 1)
      PROVE  chain[n] \subseteq reported
  <2>1. CASE parent # NoHash
    <3>1. parent \in Chain /\ On(parent, chain) /\ Len(parent) = cursor - 1 /\ Heard(parent)
      BY <1>0, <2>1 DEF PLTypeOK, Request, ParentOK
    <3>2. n \in 1..Len(parent) /\ n \in From..Len(parent)
      BY <1>0, <3>1
    <3>3. parent[n] = chain[n]
      BY <1>0, <3>1, <3>2, OnFacts
    <3> QED
      BY <3>1, <3>2, <3>3 DEF Heard
  <2>2. CASE parent = NoHash
    BY <1>0, <2>2 DEF ParentOK
  <2> QED
    BY <2>1, <2>2
<1>4. StreamOK'
  BY <1>0, <1>2, <1>3 DEF StreamOK, Certain
<1>5. ParentOK' /\ HeadersOK'
  BY <1>0 DEF ParentOK, HeadersOK, Heard, Certain
<1> QED
  BY <1>1, <1>4, <1>5 DEF PortalInv

\* The client goes back to a block it has heard up to, or behind all that a
\* fork can have changed.
LEMMA ConflictInv ==
    ASSUME PortalInv, Conflict
    PROVE  PortalInv'
<1>0. /\ PLTypeOK /\ ParentOK /\ HeadersOK
      /\ UNCHANGED <<chain, forks, stream, reported>> /\ stream = NoStream
      /\ chain \in Chain /\ Len(chain) \in Nat
      /\ headers \in Seq(Chain) /\ DOMAIN headers = 1..Len(headers)
      /\ Len(headers) \in Nat /\ Len(headers) <= Headers
      /\ cursor \in Nat \ {0} /\ cursor <= Len(chain)
      /\ parent \in Chain /\ Len(parent) = cursor - 1 /\ Heard(parent) /\ Certain(parent)
  BY ChainFacts DEF PortalInv, PLTypeOK, Conflict, HasData, ParentOK
<1>1. CASE Known # {}
  <2>1. PICK common : common = Newest(Known)
    OBVIOUS
  <2>2. /\ cursor' = Len(common) + 1 /\ parent' = common
        /\ headers' = RemovedAfter(Len(common))
    BY <1>1, <2>1 DEF Conflict
  <2>3. Known \subseteq Chain
    BY <1>0, HashFacts DEF Known, Range
  <2>4. common \in Known
    BY <1>1, <2>1, <2>3, NewestFacts
  <2>5. PICK k \in 1..(cursor - 1) : common = Hash(chain, k)
    BY <2>4 DEF Known, Previous
  <2>6. PICK i \in 1..Len(headers) : common = headers[i]
    BY <1>0, <2>4 DEF Known, Range
  <2>7. /\ common \in Chain /\ Len(common) = k /\ k <= Len(chain) /\ k \in Nat
        /\ \A n \in 1..k : common[n] = chain[n]
    <3>1. k \in 0..Len(chain) /\ k \in Nat
      BY <1>0
    <3> QED
      BY <1>0, <2>5, <3>1, HashFacts
  <2>8. Heard(common)
    BY <1>0, <2>6 DEF HeadersOK
  <2>9. Certain(common)
    BY <2>7 DEF Certain
  <2>10. ParentOK'
    <3>1. common # NoHash /\ Len(common) = cursor' - 1
      BY <2>2, <2>7, ChainFacts
    <3> QED
      BY <1>0, <2>2, <2>8, <2>9, <3>1 DEF ParentOK, Heard, Certain
  <2>11. /\ headers' \in Seq(Chain) /\ Len(headers') <= Len(headers)
         /\ \A j \in 1..Len(headers') : \E m \in 1..Len(headers) : headers'[j] = headers[m]
    BY <1>0, <2>2, RemovedAfterFacts DEF Within
  <2>12. HeadersOK'
    BY <1>0, <2>11 DEF HeadersOK, Heard
  <2>13. Len(headers') \in Nat /\ Len(headers') <= Headers
    BY <1>0, <2>11
  <2>14. PLTypeOK'
    BY <1>0, <2>2, <2>7, <2>11, <2>13 DEF PLTypeOK
  <2> QED
    BY <1>0, <2>10, <2>12, <2>14 DEF PortalInv, StreamOK
<1>2. CASE Known = {}
  <2>1. cursor' = Rewound /\ parent' = NoHash /\ headers' = headers
    BY <1>2 DEF Conflict
  <2>2. cursor' \in Nat \ {0} /\ \A n \in From..(cursor' - 1) : n \in 1..(cursor - 1 - Rewind)
    BY <1>0, <2>1 DEF Rewound
  <2>3. ASSUME NEW n \in From..(cursor' - 1)
        PROVE  n <= Len(chain) - Rewind /\ chain[n] \subseteq reported
    <3>1. n \in 1..(Len(parent) - Rewind) /\ n \in From..Len(parent) /\ n <= Len(chain) - Rewind
      <4>0. n \in 1..(cursor - 1 - Rewind)
        BY <2>2
      <4>1. n \in 1..(cursor - 1 - Rewind) /\ n >= From
        BY <4>0
      <4>2. n \in 1..(Len(parent) - Rewind) /\ n <= Len(chain) - Rewind
        BY <1>0, <4>1
      <4>3. n \in From..Len(parent)
        BY <1>0, <4>1
      <4> QED
        BY <4>2, <4>3
    <3>2. parent[n] = chain[n] /\ parent[n] \subseteq reported
      BY <1>0, <3>1 DEF Certain, Heard
    <3> QED
      BY <3>1, <3>2
  <2>4. ParentOK'
    BY <1>0, <2>1, <2>3 DEF ParentOK
  <2>5. PLTypeOK' /\ HeadersOK' /\ StreamOK'
    BY <1>0, <2>1, <2>2 DEF PLTypeOK, HeadersOK, Heard, StreamOK
  <2> QED
    BY <2>4, <2>5 DEF PortalInv
<1> QED
  BY <1>1, <1>2

\* A line of the response passes empty blocks only.
LEMMA BlockInv ==
    ASSUME PortalInv, Block
    PROVE  PortalInv'
<1>0. /\ PLTypeOK /\ HeadersOK /\ StreamOK
      /\ UNCHANGED <<chain, forks, stream>> /\ stream \in Chain /\ stream # NoStream
      /\ Len(stream) \in Nat /\ chain \in Chain /\ Len(chain) \in Nat
      /\ headers \in Seq(Chain) /\ Len(headers) <= Headers
      /\ cursor \in Nat \ {0} /\ reported \subseteq Creation
      /\ Certain(stream) /\ cursor <= Len(stream) + 1
      /\ \A n \in From..(cursor - 1) : stream[n] \subseteq reported
      /\ \A n \in 1..Len(stream) : stream[n] \subseteq Creation
  BY ChainFacts DEF PortalInv, PLTypeOK, Block, StreamOK
<1>1. PICK n \in cursor..Len(stream) :
        /\ \A i \in cursor..(n - 1) : stream[i] = {}
        /\ reported' = reported \cup stream[n]
        /\ headers' = Remembered(Hash(stream, n))
        /\ cursor' = n + 1 /\ parent' = Hash(stream, n)
  BY DEF Block
<1>2. n \in 1..Len(stream) /\ n \in 0..Len(stream) /\ n \in Nat
  BY <1>0
<1>3. PICK h \in Chain : h = Hash(stream, n) /\ Len(h) = n /\ h # NoHash
                         /\ \A i \in 1..n : h[i] = stream[i]
  <2>1. /\ Hash(stream, n) \in Chain /\ Len(Hash(stream, n)) = n
        /\ \A i \in 1..n : Hash(stream, n)[i] = stream[i]
    BY <1>0, <1>2, HashFacts
  <2> QED
    BY <2>1, ChainFacts
<1>4. ASSUME NEW i \in From..n PROVE stream[i] \subseteq reported'
  <2>1. i \in From..(cursor - 1) \/ i \in cursor..(n - 1) \/ i = n
    BY <1>0, <1>2
  <2> QED
    BY <1>0, <1>1, <2>1
<1>5. \A i \in From..n : h[i] \subseteq reported'
  <2>1. \A i \in From..n : i \in 1..n
    BY <1>2
  <2> QED
    BY <1>3, <1>4, <2>1
<1>6. Certain(h)
  <2>1. Len(h) <= Len(chain)
    BY <1>0, <1>2, <1>3 DEF Certain
  <2>2. ASSUME NEW i \in 1..(Len(h) - Rewind) PROVE h[i] = chain[i]
    <3>1. i \in 1..n /\ i \in 1..(Len(stream) - Rewind)
      BY <1>0, <1>2, <1>3
    <3> QED
      BY <1>0, <1>3, <3>1 DEF Certain
  <2> QED
    BY <2>1, <2>2 DEF Certain
<1>7. ParentOK'
  <2>1. parent' = h /\ Len(h) = cursor' - 1
    BY <1>1, <1>2, <1>3
  <2> QED
    BY <1>0, <1>3, <1>5, <1>6, <2>1 DEF ParentOK, Heard, Certain
<1>8. /\ headers' \in Seq(Chain) /\ Len(headers') <= Headers
      /\ \A j \in 1..Len(headers') :
            headers'[j] = h \/ \E k \in 1..Len(headers) : headers'[j] = headers[k]
  BY <1>0, <1>1, <1>3, RememberedFacts
<1>9. HeadersOK'
  <2> SUFFICES ASSUME NEW j \in 1..Len(headers'), NEW i \in From..Len(headers'[j])
               PROVE  headers'[j][i] \subseteq reported'
    BY DEF HeadersOK, Heard
  <2>1. CASE headers'[j] = h
    BY <1>3, <1>5, <2>1
  <2>2. ASSUME NEW k \in 1..Len(headers), headers'[j] = headers[k]
        PROVE  headers'[j][i] \subseteq reported'
    BY <1>0, <1>1, <2>2 DEF HeadersOK, Heard
  <2> QED
    BY <1>8, <2>1, <2>2
<1>10. StreamOK'
  <2>1. \A i \in From..(cursor' - 1) : stream[i] \subseteq reported'
    BY <1>1, <1>2, <1>4
  <2>2. cursor' <= Len(stream) + 1
    BY <1>1, <1>2
  <2> QED
    BY <1>0, <2>1, <2>2 DEF StreamOK, Certain
<1>11. PLTypeOK'
  BY <1>0, <1>1, <1>2, <1>3, <1>8 DEF PLTypeOK
<1> QED
  BY <1>7, <1>9, <1>10, <1>11 DEF PortalInv

LEMMA PortalInduction == PortalInv /\ [PLNext]_portalVars => PortalInv'
<1> SUFFICES ASSUME PortalInv, [PLNext]_portalVars PROVE PortalInv'
  OBVIOUS
<1>1. CASE EndOfStream
  BY <1>1 DEF EndOfStream, PortalInv, PLTypeOK, ParentOK, HeadersOK, StreamOK,
              Heard, Certain
<1>2. CASE UNCHANGED portalVars
  BY <1>2 DEF portalVars, PortalInv, PLTypeOK, ParentOK, HeadersOK, StreamOK,
              Heard, Certain
<1> QED
  BY <1>1, <1>2, SourceInv, RequestInv, ConflictInv, BlockInv DEF PLNext

\* The cursor, the parent hash and the memory keep their types.
THEOREM PortalTypeCorrect == PLSpec => []PLTypeOK
<1>1. PortalInv => PLTypeOK
  BY DEF PortalInv
<1> QED
  BY <1>1, PortalInit, PortalInduction, PTL DEF PLSpec

LEMMA PortalHeard == PortalInv => NothingMissed
<1> SUFFICES ASSUME PortalInv, parent # NoHash, On(parent, chain),
                    NEW n \in From..(cursor - 1)
             PROVE  chain[n] \subseteq reported
  BY DEF NothingMissed
<1>1. /\ parent \in Chain /\ chain \in Chain /\ cursor \in Nat
      /\ Len(parent) = cursor - 1 /\ Heard(parent)
  BY DEF PortalInv, PLTypeOK, ParentOK
<1>2. n \in 1..Len(parent) /\ n \in From..Len(parent)
  BY <1>1
<1>3. parent[n] = chain[n]
  BY <1>1, <1>2, OnFacts
<1> QED
  BY <1>1, <1>2, <1>3 DEF Heard

\* A client that stands on the source's chain has reported every creation
\* behind its cursor: after any number of forks no deeper than the rewind, in
\* the middle of responses, with any capacity of the header memory.
THEOREM NothingIsMissed == PLSpec => []NothingMissed
  BY PortalHeard, PortalInit, PortalInduction, PTL DEF PLSpec

-----------------------------------------------------------------------------
(* The composition: what the components are to each other *)

USE ApartAssumption

\* All a component does to the cluster, at its own transactions.
Touches(own) ==
    /\ ClusterTypeOK' /\ UNCHANGED world
    /\ \A t \in Tx \ own : net'[t] = net[t]

\* What another component sees of it.
Foreign(own) ==
    /\ ClusterTypeOK' /\ UNCHANGED world
    /\ \A t \in own : net'[t] = net[t]

\* The steps of the cluster move one transaction, or none.
LEMMA ClusterTouches ==
    ASSUME ClusterTypeOK, NEW own \in SUBSET Tx,
           \/ Tick
           \/ \E t \in own : Process(t) \/ ConfirmOk(t) \/ ConfirmErr(t) \/ DropFork(t)
    PROVE  Touches(own)
<1>1. CASE Tick
  BY <1>1 DEF Tick, ClusterTypeOK, Touches
<1>2. ASSUME NEW t \in own, Process(t) \/ ConfirmOk(t) \/ ConfirmErr(t) \/ DropFork(t)
      PROVE  Touches(own)
  <2>1. PICK st \in TxStatus : net' = [net EXCEPT ![t] = st] /\ UNCHANGED <<height, world>>
    BY <1>2 DEF Process, ConfirmOk, ConfirmErr, DropFork, SetNet, TxStatus
  <2> QED
    BY <2>1 DEF ClusterTypeOK, Touches
<1> QED
  BY <1>1, <1>2

LEMMA BroadcastTouches ==
    ASSUME ClusterTypeOK, NEW own \in SUBSET Tx, NEW t \in own, Broadcast(t),
           UNCHANGED <<height, world>>
    PROVE  Touches(own)
<1>1. net' \in [Tx -> TxStatus] /\ \A u \in Tx : u # t => net'[u] = net[u]
  BY BroadcastEffect DEF ClusterTypeOK
<1> QED
  BY <1>1 DEF ClusterTypeOK, Touches

LEMMA StillTouches ==
    ASSUME ClusterTypeOK, NEW own, UNCHANGED cluster
    PROVE  Touches(own)
  BY DEF ClusterTypeOK, Touches, cluster

LEMMA DistributionTouches ==
    ASSUME DistInv, CDNext
    PROVE  Touches(Payment)
<1>0. ClusterTypeOK /\ Payment \in SUBSET Tx
  BY DistributionAssumption DEF DistInv
<1>1. ASSUME NEW c \in Caller, CallStep(c) PROVE Touches(Payment)
  <2>1. Effect(c)
    BY <1>1, CallEffect
  <2>2. CASE net' = net /\ UNCHANGED <<height, world>>
    BY <1>0, <2>2, StillTouches DEF cluster
  <2>3. ASSUME NEW s \in Row, NEW t \in Payment, Pins(c, s, t), UNCHANGED <<height, world>>
        PROVE  Touches(Payment)
    BY <1>0, <2>3, BroadcastTouches DEF Pins
  <2> QED
    BY <2>1, <2>2, <2>3 DEF Effect
<1>2. ASSUME NEW c \in Caller, Quit(c) \/ \E e \in Entitlements[world],
                                   label \in {"plan", "prepare"} : Begin(c, e, label)
      PROVE  Touches(Payment)
  BY <1>0, <1>2, StillTouches DEF Quit, Begin
<1>3. CASE CDCluster
  BY <1>0, <1>3, ClusterTouches DEF CDCluster, Receive
<1> QED
  BY <1>1, <1>2, <1>3 DEF CDNext

LEMMA ClaimTouches ==
    ASSUME ClaimInv, CCNext
    PROVE  Touches(ClaimTx)
<1>0. ClusterTypeOK /\ ClaimTx \in SUBSET Tx
  BY ClaimAssumption DEF ClaimInv
<1>1. CASE CCCluster
  BY <1>0, <1>1, ClusterTouches DEF CCCluster
<1>2. ASSUME NEW c \in Claimer, ClaimBuild(c) PROVE Touches(ClaimTx)
  <2>1. \/ UNCHANGED cluster
        \/ UNCHANGED <<height, world>> /\ \E t \in ClaimTx : Broadcast(t)
    BY <1>2 DEF ClaimBuild, cluster
  <2> QED
    BY <1>0, <2>1, StillTouches, BroadcastTouches
<1>3. ASSUME NEW c \in Claimer, ClaimHeight(c) PROVE Touches(ClaimTx)
  <2>1. claimCopy[c].pending \in ClaimTx
    BY <1>3 DEF ClaimHeight, ClaimInv, ClaimCopyInv, ClaimEarly
  <2> QED
    BY <1>0, <1>3, <2>1, StillTouches, BroadcastTouches DEF ClaimHeight, cluster
<1>4. ASSUME NEW c \in Claimer,
             \/ ClaimNew(c) \/ ClaimResume(c) \/ ClaimSent(c) \/ ClaimConfirm(c)
             \/ ClaimStatus(c) \/ ClaimReceipt(c) \/ ClaimHistory(c)
             \/ ClaimFinalize(c) \/ ClaimQuit(c)
      PROVE  Touches(ClaimTx)
  <2>1. UNCHANGED cluster
    BY <1>4 DEF ClaimNew, ClaimResume, ClaimSent, ClaimConfirm, ClaimStatus,
                ClaimReceipt, ClaimHistory, ClaimFinalize, ClaimQuit
  <2> QED
    BY <1>0, <2>1, StillTouches
<1> QED
  BY <1>1, <1>2, <1>3, <1>4 DEF CCNext

LEMMA BuyerTouches ==
    ASSUME BuyerInv, PBNext
    PROVE  Touches(BuyTx)
<1>0. ClusterTypeOK /\ BuyTx \in SUBSET Tx
  BY DEF BuyerInv
<1>1. CASE PBCluster
  BY <1>0, <1>1, ClusterTouches DEF PBCluster
<1>2. CASE SubmitBuy \/ Resend \/ SubmitGeneration
  <2>1. active \in BuyTx
    BY <1>2 DEF SubmitBuy, Resend, SubmitGeneration, BuyerInv, StageInv
  <2> QED
    BY <1>0, <1>2, <2>1, StillTouches, BroadcastTouches
       DEF SubmitBuy, Resend, SubmitGeneration
<1>3. CASE UNCHANGED cluster
  BY <1>0, <1>3, StillTouches
<1> QED
  BY <1>1, <1>2, <1>3 DEF PBNext, BuildBuy, EndBuyer, PollStatus, PollHeight,
     PollDependent, PollGenerations, BuildGeneration

\* Disjoint transactions: what one touches is none of the other's.
LEMMA TouchesIsForeign ==
    ASSUME NEW own \in SUBSET Tx, NEW other, Touches(other), own \cap other = {}
    PROVE  Foreign(own)
  BY DEF Touches, Foreign

-----------------------------------------------------------------------------
(* The composition: a component is indifferent to the others' steps *)

DistributionInv == DistInv /\ BackedInv /\ OwedInv /\ AgreedInv

LEMMA DistributionIndifferent ==
    ASSUME DistributionInv, Foreign(Payment), UNCHANGED distribution
    PROVE  DistributionInv' /\ UNCHANGED Ledger!vars
<1>0. /\ UNCHANGED <<row, copy, at, received, world>>
      /\ \A t \in Payment : net'[t] = net[t]
  BY DEF Foreign, distribution
<1>1. DistInv'
  <2>1. CDTypeOK' /\ RowInv' /\ ClusterTypeOK'
    BY <1>0 DEF DistributionInv, DistInv, CDTypeOK, RowInv, Foreign
  <2>2. CopyInv'
    BY <1>0 DEF DistributionInv, DistInv, CopyInv, Reconciling
  <2> QED
    BY <2>1, <2>2 DEF DistInv
<1>2. BackedInv'
  BY <1>0 DEF DistributionInv, BackedInv, Backed
<1>3. OwedInv'
  BY <1>0 DEF DistributionInv, OwedInv, AloneInv, PinnedInv, CountedInv, Undecided
<1>4. AgreedInv'
  BY <1>0 DEF DistributionInv, AgreedInv
<1>5. UNCHANGED Ledger!vars
  BY <1>0 DEF Ledger!vars, Entitled, Booked
<1> QED
  BY <1>1, <1>2, <1>3, <1>4, <1>5 DEF DistributionInv

LEMMA ClaimIndifferent ==
    ASSUME OnceInv, Foreign(ClaimTx), UNCHANGED claimVars
    PROVE  OnceInv' /\ UNCHANGED AbstractClaim!vars
<1>0. /\ UNCHANGED <<claim, claimCopy, claimAt, checkpoints, world>>
      /\ \A t \in ClaimTx : net'[t] = net[t]
  BY DEF Foreign, claimVars
<1>1. SentClaims' = SentClaims /\ ClaimedBy' = ClaimedBy
  BY <1>0 DEF SentClaims, ClaimedBy
<1>2. ClaimInv'
  BY <1>0, <1>1 DEF OnceInv, SerialClaimInv, ClaimInv, CCTypeOK, ClaimCopyInv,
                    ClaimRowInv, Foreign
<1>3. ClaimAloneInv' /\ DoneInv'
  BY <1>0, <1>1 DEF OnceInv, SerialClaimInv, ClaimAloneInv, DoneInv
<1>4. ReportedClaim' = ReportedClaim
  BY <1>0 DEF ReportedClaim
<1> QED
  BY <1>1, <1>2, <1>3, <1>4 DEF OnceInv, SerialClaimInv, AbstractClaim!vars

LEMMA BuyerIndifferent ==
    ASSUME BuyerInv, Foreign(BuyTx), UNCHANGED buyerVars
    PROVE  BuyerInv'
<1>0. /\ UNCHANGED <<loop, active, processed, signatures, buyerAt, replaced, world>>
      /\ \A t \in BuyTx : net'[t] = net[t]
  BY DEF Foreign, buyerVars
<1>1. PBTypeOK' /\ StageInv'
  BY <1>0 DEF BuyerInv, PBTypeOK, StageInv
<1>2. ReplacedInv'
  BY <1>0 DEF BuyerInv, ReplacedInv
<1> QED
  BY <1>1, <1>2 DEF BuyerInv, Foreign

LEMMA HistoryIndifferent == HistoryInv /\ UNCHANGED historyVars => HistoryInv'
  BY HistoryInduction

LEMMA PortalIndifferent == PortalInv /\ UNCHANGED portalVars => PortalInv'
  BY PortalInduction

-----------------------------------------------------------------------------
(* The composition: every step *)

ServicesInv == DistributionInv /\ OnceInv /\ BuyerInv /\ HistoryInv /\ PortalInv

LEMMA ServicesInitially ==
    ServicesInit => ServicesInv /\ Ledger!Init /\ AbstractClaim!Init
  BY DistInit, LedgerMapsInit, OnceInit, ClaimMapsInit, BuyerInit, HistoryInit, PortalInit
     DEF ServicesInit, ServicesInv, DistributionInv

\* Each component's own induction, and the indifference of the others.
LEMMA ServicesInduction ==
    ServicesInv /\ [ServicesNext]_servicesVars => ServicesInv'
<1> SUFFICES ASSUME ServicesInv, [ServicesNext]_servicesVars PROVE ServicesInv'
  OBVIOUS
<1>0. /\ Payment \in SUBSET Tx /\ ClaimTx \in SUBSET Tx /\ BuyTx \in SUBSET Tx
      /\ DistInv /\ ClaimInv /\ ClusterTypeOK
      /\ DistributionInv /\ OnceInv /\ BuyerInv /\ HistoryInv /\ PortalInv
  BY DistributionAssumption, ClaimAssumption
     DEF ServicesInv, DistributionInv, DistInv, OnceInv, SerialClaimInv
<1>1. CASE DistributionStep
  <2>1. Foreign(ClaimTx) /\ Foreign(BuyTx)
    BY <1>0, <1>1, DistributionTouches, TouchesIsForeign DEF DistributionStep
  <2>2. DistributionInv'
    BY <1>0, <1>1, DistInduction, BackedInduction, OwedInduction, AgreedInduction
       DEF DistributionStep, DistributionInv
  <2> QED
    BY <1>0, <1>1, <2>1, <2>2, ClaimIndifferent, BuyerIndifferent,
       HistoryIndifferent, PortalIndifferent DEF DistributionStep, ServicesInv
<1>2. CASE ClaimStep
  <2>1. Foreign(Payment) /\ Foreign(BuyTx)
    BY <1>0, <1>2, ClaimTouches, TouchesIsForeign DEF ClaimStep
  <2>2. OnceInv'
    BY <1>0, <1>2, OnceInduction DEF ClaimStep
  <2> QED
    BY <1>0, <1>2, <2>1, <2>2, DistributionIndifferent, BuyerIndifferent,
       HistoryIndifferent, PortalIndifferent DEF ClaimStep, ServicesInv
<1>3. CASE BuyerStep
  <2>1. Foreign(Payment) /\ Foreign(ClaimTx)
    BY <1>0, <1>3, BuyerTouches, TouchesIsForeign DEF BuyerStep
  <2>2. BuyerInv'
    BY <1>0, <1>3, BuyerInduction DEF BuyerStep
  <2> QED
    BY <1>0, <1>3, <2>1, <2>2, DistributionIndifferent, ClaimIndifferent,
       HistoryIndifferent, PortalIndifferent DEF BuyerStep, ServicesInv
<1>4. CASE UNCHANGED <<cluster, distribution, claimVars, buyerVars>>
  <2>1. Foreign(Payment) /\ Foreign(ClaimTx) /\ Foreign(BuyTx)
    BY <1>0, <1>4 DEF Foreign, cluster, ClusterTypeOK
  <2>2. DistributionInv' /\ OnceInv' /\ BuyerInv'
    BY <1>0, <1>4, <2>1, DistributionIndifferent, ClaimIndifferent, BuyerIndifferent
  <2>3. HistoryInv' /\ PortalInv'
    BY <1>0, <1>1, <1>2, <1>3, HistoryInduction, PortalInduction
       DEF ServicesNext, HistoryStep, PortalStep, servicesVars,
           DistributionStep, ClaimStep, BuyerStep
  <2> QED
    BY <2>2, <2>3 DEF ServicesInv
<1> QED
  BY <1>1, <1>2, <1>3, <1>4 DEF ServicesNext, HistoryStep, PortalStep, servicesVars

\* To the abstract specification of one, the steps of the others stutter.
LEMMA ServicesMapStep ==
    ServicesInv /\ ServicesInv' /\ OwesInv' /\ [ServicesNext]_servicesVars =>
        /\ [world.serial => AbstractClaim!Next]_(AbstractClaim!vars)
        /\ [world.serial /\ ~world.reland => Ledger!Next]_(Ledger!vars)
<1> SUFFICES ASSUME ServicesInv, ServicesInv', OwesInv', [ServicesNext]_servicesVars
             PROVE  /\ [world.serial => AbstractClaim!Next]_(AbstractClaim!vars)
                    /\ [world.serial /\ ~world.reland => Ledger!Next]_(Ledger!vars)
  OBVIOUS
<1>0. /\ Payment \in SUBSET Tx /\ ClaimTx \in SUBSET Tx
      /\ DistributionInv /\ DistInv /\ OwedInv /\ AgreedInv /\ BackedInv'
      /\ OnceInv /\ OnceInv' /\ ClaimInv /\ BuyerInv
  BY DistributionAssumption, ClaimAssumption
     DEF ServicesInv, DistributionInv, OnceInv, SerialClaimInv
<1>1. CASE DistributionStep
  <2>1. [world.serial /\ ~world.reland => Ledger!Next]_(Ledger!vars)
    BY <1>0, <1>1, LedgerMapsStep DEF DistributionStep
  <2>2. UNCHANGED AbstractClaim!vars
    BY <1>0, <1>1, DistributionTouches, TouchesIsForeign, ClaimIndifferent
       DEF DistributionStep
  <2> QED
    BY <2>1, <2>2
<1>2. CASE ClaimStep
  <2>1. [world.serial => AbstractClaim!Next]_(AbstractClaim!vars)
    BY <1>0, <1>2, ClaimMapsStep DEF ClaimStep
  <2>2. UNCHANGED Ledger!vars
    BY <1>0, <1>2, ClaimTouches, TouchesIsForeign, DistributionIndifferent DEF ClaimStep
  <2> QED
    BY <2>1, <2>2
<1>3. CASE BuyerStep
  <2>1. Foreign(Payment) /\ Foreign(ClaimTx)
    BY <1>0, <1>3, BuyerTouches, TouchesIsForeign DEF BuyerStep
  <2> QED
    BY <1>0, <1>3, <2>1, DistributionIndifferent, ClaimIndifferent DEF BuyerStep
<1>4. CASE UNCHANGED <<cluster, distribution, claimVars>>
  BY <1>4 DEF cluster, distribution, claimVars, Ledger!vars, AbstractClaim!vars,
              Entitled, Booked, ClaimedBy, ReportedClaim
<1> QED
  BY <1>1, <1>2, <1>3, <1>4 DEF ServicesNext, HistoryStep, PortalStep, servicesVars

-----------------------------------------------------------------------------
(* The composition: theorems *)

\* Every variable of the five components has its type, in any interleaving.
THEOREM ServicesTypeCorrect == ServicesSpec => []TypeOK
<1>1. ServicesInv => TypeOK
  BY DEF ServicesInv, DistributionInv, DistInv, OnceInv, SerialClaimInv, ClaimInv,
         BuyerInv, HistoryInv, PortalInv, TypeOK
<1> QED
  BY <1>1, ServicesInitially, ServicesInduction, PTL DEF ServicesSpec

\* What each component promises it keeps among the others: their transactions
\* share a cluster with its own, and nothing of it depends on theirs.
THEOREM ServicesAreSafe ==
    ServicesSpec => [](/\ NeverOverpaid /\ PaidIsReceived /\ WithinEntitlement
                       /\ OneClaimPerId /\ ClaimMatchesChain
                       /\ SecondBuyHasCause
                       /\ RecordedIsKept /\ QueueIsBounded
                       /\ NothingMissed)
<1>1. DistributionInv => NeverOverpaid /\ PaidIsReceived /\ WithinEntitlement
  <2>1. DistributionInv => NeverOverpaid
    BY OwedBound DEF DistributionInv, OwesInv, Entitled, NeverOverpaid
  <2>2. DistributionInv => PaidIsReceived
    BY DEF DistributionInv, BackedInv, Backed, PaidIsReceived
  <2>3. DistributionInv => WithinEntitlement
    BY DEF DistributionInv, DistInv, RowInv, CopyInv, WithinEntitlement, GoodRow, InBatch
  <2> QED
    BY <2>1, <2>2, <2>3
<1>2. OnceInv => OneClaimPerId /\ ClaimMatchesChain
  BY ClaimRowMatches DEF OnceInv, SerialClaimInv, ClaimAloneInv, OneClaimPerId
<1>3. HistoryInv => RecordedIsKept /\ QueueIsBounded
  BY HistoryIsBounded DEF HistoryInv
<1>4. ServicesInv => /\ NeverOverpaid /\ PaidIsReceived /\ WithinEntitlement
                     /\ OneClaimPerId /\ ClaimMatchesChain
                     /\ SecondBuyHasCause
                     /\ RecordedIsKept /\ QueueIsBounded
                     /\ NothingMissed
  BY <1>1, <1>2, <1>3, BuyerHasCause, PortalHeard DEF ServicesInv
<1> QED
  BY <1>4, ServicesInitially, ServicesInduction, PTL DEF ServicesSpec

\* Among the others, the claim still implements PayOnce and the distribution
\* PayOwed.
THEOREM ServicesImplement == ServicesSpec => ClaimsOnce /\ PaysWhatIsOwed
<1>1. ServicesInv => DistInv /\ OwedInv
  BY DEF ServicesInv, DistributionInv
<1> QED
  BY <1>1, OwedBound, ServicesInitially, ServicesInduction, ServicesMapStep, PTL
     DEF ServicesSpec, ClaimsOnce, PaysWhatIsOwed

\* The instance TLC explores, one component at a time, is a part of it.
THEOREM HarnessIsServices == Spec => ServicesSpec
<1>1. Init => ServicesInit
  BY DEF Init
<1>2. [Next]_<<machine, servicesVars>> => [ServicesNext]_servicesVars
  BY DEF Next, ServicesNext
<1> QED
  BY <1>1, <1>2, PTL DEF Spec, ServicesSpec
==============================================================================
