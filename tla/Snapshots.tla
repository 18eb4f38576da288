----------------------------- MODULE Snapshots ------------------------------
(***************************************************************************)
(* Loading one aggregate through its snapshot and taking snapshots of it:  *)
(* SnapshotService, the snapshot table, AggregateStore.load and            *)
(* fromSnapshot.  The state of an aggregate is the sequence of the events  *)
(* that were applied to it.                                                *)
(***************************************************************************)
EXTENDS Naturals, Sequences

CONSTANTS Handlers,  \* commands handled concurrently
          Frequency, \* snapshotFrequency
          MaxBatch,  \* events a command produces at most
          MaxLog     \* bound: the length of the stream

ASSUME SnapshotAssumption == {Frequency, MaxBatch, MaxLog} \subseteq Nat \ {0}

VARIABLES
  stream, \* the events of the aggregate; the event at version v is v
  row,    \* its row of the snapshot table (aggregate_id is unique), or NoRow
  phase,  \* phase[h]: the step that handler h is at
  found,  \* found[h]: the row it read
  loaded, \* loaded[h]: the aggregate it holds: [version, state]
  since   \* since[h]: the length of the stream when h began to load

snapshotVars == <<stream, row, phase, found, loaded, since>>

NoRow == [version |-> 0, state |-> <<>>, expired |-> FALSE]
Nothing == [version |-> 0, state |-> <<>>]

-----------------------------------------------------------------------------
SnapshotInit ==
  /\ stream = <<>> /\ row = NoRow
  /\ phase = [h \in Handlers |-> "idle"]
  /\ found = [h \in Handlers |-> NoRow]
  /\ loaded = [h \in Handlers |-> Nothing]
  /\ since = [h \in Handlers |-> 0]

(* load, first await: getLatestSnapshot.  It does not look at expiresAt.   *)
ReadSnapshot(h) ==
  /\ phase[h] = "idle"
  /\ found' = [found EXCEPT ![h] = row]
  /\ since' = [since EXCEPT ![h] = Len(stream)]
  /\ phase' = [phase EXCEPT ![h] = "reading"]
  /\ UNCHANGED <<stream, row, loaded>>

(* A slip this code could have had: version >= fromVersion.                *)
FaultyEventsAfter(snapshot) ==
  SubSeq(stream, IF snapshot = NoRow THEN 1 ELSE snapshot.version, Len(stream))

(* getEventsFromVersion, or getEvents without a snapshot.                  *)
EventsAfter(snapshot) == SubSeq(stream, snapshot.version + 1, Len(stream))

(* fromSnapshot or fromEvents: loadFromHistory sets the version to that of *)
(* the last event applied.                                                 *)
FromSnapshot(snapshot, events) ==
  [version |-> IF events = <<>> THEN snapshot.version ELSE events[Len(events)],
   state |-> snapshot.state \o events]

(* load, second await.                                                     *)
ReadEvents(h) ==
  /\ phase[h] = "reading"
  /\ loaded' = [loaded EXCEPT ![h] = FromSnapshot(found[h], EventsAfter(found[h]))]
  /\ phase' = [phase EXCEPT ![h] = "loaded"]
  /\ found' = [found EXCEPT ![h] = NoRow]
  /\ UNCHANGED <<stream, row, since>>

(* The command adds n events and the store appends them, unless another    *)
(* command was faster.                                                     *)
Save(h, n) ==
  LET events == [i \in 1 .. n |-> loaded[h].version + i]
  IN /\ phase[h] = "loaded" /\ Len(stream) + n <= MaxLog
     /\ \/ /\ loaded[h].version = Len(stream)
           /\ stream' = stream \o events
           /\ loaded' = [loaded EXCEPT ![h] = [version |-> @.version + n, state |-> @.state \o events]]
           /\ phase' = [phase EXCEPT ![h] = "saved"]
        \/ /\ loaded[h].version < Len(stream)
           /\ phase' = [phase EXCEPT ![h] = "idle"]
           /\ loaded' = [loaded EXCEPT ![h] = Nothing]
           /\ UNCHANGED stream
     /\ since' = [since EXCEPT ![h] = 0]
     /\ UNCHANGED <<row, found>>

ShouldCreateSnapshot(version) == version > 0 /\ version % Frequency = 0

(* The repository's save: the row of an earlier snapshot makes it fail.    *)
SavedRow(aggregate) ==
  IF row # NoRow THEN row
  ELSE [version |-> aggregate.version, state |-> aggregate.state, expired |-> FALSE]

(* createSnapshot; pruneOldSnapshots keeps the one row there can be.       *)
CreateSnapshot(h) ==
  /\ phase[h] = "saved"
  /\ row' = IF ShouldCreateSnapshot(loaded[h].version) THEN SavedRow(loaded[h]) ELSE row
  /\ phase' = [phase EXCEPT ![h] = "idle"]
  /\ loaded' = [loaded EXCEPT ![h] = Nothing]
  /\ UNCHANGED <<stream, found, since>>

(* The process stops before it took the snapshot, or with a loaded copy.   *)
Stop(h) ==
  /\ phase[h] \in {"reading", "loaded", "saved"}
  /\ phase' = [phase EXCEPT ![h] = "idle"]
  /\ found' = [found EXCEPT ![h] = NoRow]
  /\ loaded' = [loaded EXCEPT ![h] = Nothing]
  /\ since' = [since EXCEPT ![h] = 0]
  /\ UNCHANGED <<stream, row>>

(* expirationDays pass; cleanupExpiredSnapshots; deleteSnapshots.          *)
RowExpires ==
  /\ row # NoRow /\ ~row.expired
  /\ row' = [row EXCEPT !.expired = TRUE]
  /\ UNCHANGED <<stream, phase, found, loaded, since>>

CleanupExpired ==
  /\ row.expired /\ row' = NoRow
  /\ UNCHANGED <<stream, phase, found, loaded, since>>

DeleteSnapshots ==
  /\ row # NoRow /\ row' = NoRow
  /\ UNCHANGED <<stream, phase, found, loaded, since>>

SnapshotNext ==
  \/ \E h \in Handlers : \/ ReadSnapshot(h) \/ ReadEvents(h) \/ CreateSnapshot(h) \/ Stop(h)
                         \/ \E n \in 1 .. MaxBatch : Save(h, n)
  \/ RowExpires \/ CleanupExpired \/ DeleteSnapshots

SnapshotSpec == SnapshotInit /\ [][SnapshotNext]_snapshotVars

-----------------------------------------------------------------------------
Aggregates == [version : 0 .. MaxLog, state : Seq(1 .. MaxLog)]

SnapshotTypeOK ==
  /\ stream \in Seq(1 .. MaxLog)
  /\ row \in [version : 0 .. MaxLog, state : Seq(1 .. MaxLog), expired : BOOLEAN]
  /\ phase \in [Handlers -> {"idle", "reading", "loaded", "saved"}]
  /\ \A h \in Handlers : loaded[h] \in Aggregates /\ since[h] \in 0 .. MaxLog

(* Whatever is appended, and however the snapshot is written, deleted or   *)
(* expires between the two reads of load, the aggregate a command works on *)
(* is the replay of its whole stream up to the version it claims, and lacks*)
(* no event that was there when the command began.                         *)
RestoredIsReplayed ==
  \A h \in Handlers : phase[h] \in {"loaded", "saved"} =>
    /\ loaded[h].state = SubSeq(stream, 1, loaded[h].version)
    /\ loaded[h].version >= since[h]
=============================================================================
