--------------------------- MODULE BackupProperties ---------------------------
(***************************************************************************)
(* What makes the backups of BackupManager correct.                        *)
(***************************************************************************)
EXTENDS BackupManager

Latest == bucket[LatestKey]

\* A restore works at every moment: once a backup exists, the generation that
\* `latest` names has its snapshot and every segment restore_latest asks for
\* (manager.rs:632-685), also while objects are replaced or deleted.
LatestIsRestorable == Stored(LatestKey) => Restorable(Latest)

\* Every transaction also writes one page they share.  Frames replayed on a
\* snapshot give the database as it was after some transaction if both together
\* hold the transactions up to it and the last of them is replayed, not buried.
Consistent(pages, replayed) ==
  \E n \in 0..commits :
    /\ pages \cup replayed = 1..n
    /\ replayed # {} => n \in replayed

\* A restore gives the database as it was after some transaction: a snapshot
\* and the segments replayed on it never mix states (README.md:206).
RestoreIsConsistent ==
  Stored(LatestKey) /\ Restorable(Latest)
  => Consistent(bucket[SnapshotKey(Latest)], Replay(RestoredWal(Latest)))

\* What sync_wal acknowledged stays restorable for as long as its generation
\* is the latest.
SyncedIsRestorable ==
  Stored(LatestKey) /\ acked.gen = Latest => 1..acked.n \subseteq RestoreLatest

\* What sync_wal acknowledged stays restorable, whatever generation is the
\* latest (README.md:186, "capture every change").
SyncedNeverLost == 1..acked.n \subseteq RestoreLatest

\* Between calls the backup is one segment behind at most: what is restorable,
\* followed by the part of the WAL that sync_wal has not uploaded, replays to
\* every committed transaction, unless the next sync starts a new generation.
NothingSkipped ==
  running /\ step = "idle" /\ Stored(LatestKey) /\ Latest = generation
    /\ Len(wal) > 1 /\ ~WalNeedsRecovery
  => 1..commits \subseteq bucket[SnapshotKey(Latest)] \cup
       Replay(RestoredWal(Latest) \o SubSeq(wal, wal_offset + 1, Len(wal)))

\* Every entry of a stored manifest, of whatever generation, describes a stored
\* segment (manager.rs uploads the segment first and deletes it last), and the
\* entries follow one another from the start of the WAL without gap or overlap.
Contiguous(m) ==
  \A n \in DOMAIN m :
    m[n].offset = IF n = 1 THEN 0 ELSE m[n - 1].offset + m[n - 1].size

ManifestDescribesSegments ==
  \A g \in Generations : Stored(ManifestKey(g)) =>
    LET m == bucket[ManifestKey(g)]
    IN /\ Contiguous(m)
       /\ \A n \in DOMAIN m : /\ Stored(WalKey(g, m[n].index))
                              /\ Len(bucket[WalKey(g, m[n].index)]) = m[n].size

\* Between calls the manager holds its read transaction until shutdown
\* (manager.rs:331-333), so that nothing restarts the WAL under it.
WalPinned ==
  running /\ step = "idle" /\ ~shutdown_complete => readMark["waloy"] # NoRead

\* No step of compact or enforce_retention, interrupted or not, changes what a
\* restore gives (manager.rs:486-488).
CompactionPreserves ==
  [][Compaction \/ Retention => RestoreLatest' = RestoreLatest]_vars

\* The segments of a generation are cut from one WAL: sync_wal never adds blocks
\* of the file it reads to segments that began with another header.  A WAL that
\* was restarted or truncated behind its back makes it recover instead
\* (manager.rs:235-240).
SegmentsOfOneWal ==
  [][/\ step # "put_segment" /\ step' = "put_segment"
     /\ Stored(ManifestKey(generation)) /\ RestoredWal(generation) # <<>>
     => RestoredWal(generation)[1] = wal[1]]_vars

\* Every transaction is eventually restorable and stays so, if the
\* application keeps calling sync_wal.
EventuallyBackedUp ==
  \A n \in 1..MaxCommits : commits >= n ~> [](n \in RestoreLatest)

\* The backups are a replica of the history of the database.
Abstract == INSTANCE Replica WITH backup <- RestoreLatest
ImplementsReplica == Abstract!Spec
=============================================================================
