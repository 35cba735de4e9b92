-------------------------------- MODULE Restore --------------------------------
(***************************************************************************)
(* What BackupManager::restore gives back when it reads the bucket as it   *)
(* is now (restore_latest in src/src/manager.rs): the snapshot of the      *)
(* generation `latest` names, and the transactions SQLite replays from the *)
(* concatenation of the generation's segments.                             *)
(***************************************************************************)
EXTENDS SqliteWal, S3Bucket, SequencesExt

\* The segments that are stored, in the order of their keys.
StoredIndexes(g) ==
  FlattenSeq([n \in 1..(MaxIndex + 1) |->
                IF Stored(WalKey(g, n - 1)) THEN <<n - 1>> ELSE <<>>])

\* segment_keys_from_manifest: the order of the manifest, or that of the keys
\* if there is no manifest.
SegmentIndexes(g) ==
  IF Stored(ManifestKey(g))
  THEN [n \in DOMAIN bucket[ManifestKey(g)] |-> bucket[ManifestKey(g)][n].index]
  ELSE StoredIndexes(g)

\* The segments a manifest of generation g lists are stored.
SegmentsStored(g, segments) ==
  \A n \in DOMAIN segments : Stored(WalKey(g, segments[n].index))

\* No get_object of restore_latest fails: the snapshot is stored and so are the
\* segments the manifest lists.  Without a manifest it asks for keys it has
\* just listed.
Restorable(g) ==
  /\ Stored(SnapshotKey(g))
  /\ Stored(ManifestKey(g)) => SegmentsStored(g, bucket[ManifestKey(g)])

\* The -wal file restore_latest writes next to the snapshot.
RestoredWal(g) ==
  LET indexes == SegmentIndexes(g)
  IN FlattenSeq([n \in DOMAIN indexes |-> bucket[WalKey(g, indexes[n])]])

\* SQLite takes the blocks of a WAL that continue one another, from a header.
ValidPrefix(w, n) ==
  \A i \in 1..n : w[i].prev = IF i = 1 THEN 0 ELSE w[i - 1].id

\* It replays them up to the last commit frame.
Replay(w) ==
  {w[i].tx : i \in {i \in 2..Len(w) :
                      \E n \in i..Len(w) : w[n].commit /\ ValidPrefix(w, n)}}

Restored(g) == bucket[SnapshotKey(g)] \cup Replay(RestoredWal(g))

\* Nothing, before the first backup.
RestoreLatest == IF Stored(LatestKey) THEN Restored(bucket[LatestKey]) ELSE {}
=============================================================================
