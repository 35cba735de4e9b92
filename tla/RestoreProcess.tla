----------------------------- MODULE RestoreProcess -----------------------------
(***************************************************************************)
(* BackupManager::restore, restore_to_time and the auto-restore of new     *)
(* (src/src/manager.rs), run elsewhere while a BackupManager goes on with  *)
(* the bucket they read.  A restore downloads one object at a time;        *)
(* between two downloads the manager may compact, delete or replace what   *)
(* the restore is about to ask for.                                        *)
(***************************************************************************)
EXTENDS TimeStamps

CONSTANTS
  RestoreCalls,     \* the calls made
  RestoreFaults,    \* what goes wrong in them beside a missing object
  MaxRestores       \* bound: calls made

ASSUME RestoresAssumption ==
  /\ RestoreCalls \subseteq {"restore", "restore_to_time", "auto_restore"}
  /\ RestoreFaults \subseteq {"get_error", "interrupted", "torn_write", "exists_error"}
  /\ MaxRestores \in Nat

VARIABLES
  rstep,            \* the await the restore has reached
  target,           \* the file at target_path, and the call that wrote it
  targetWal,        \* the file target_path-wal, and the call that wrote it
  torn,             \* the target was not written to its end
  restoring,        \* the generation it restores
  segments,         \* the indexes of the segments it still has to download
  wal_data,         \* the segments it has downloaded
  unread,           \* restore_to_time: the generations whose manifest is to be read
  found,            \* restore_to_time: the manifest that fits best so far
  restores,         \* number of calls made
  moment,           \* history: the point in time the user will ask for
  couldGive,        \* history: what an instantaneous restore gave while this one ran
  missed,           \* history: this one goes on without a manifest it should have
  mixed             \* history: the target holds what two restores wrote

files == <<target, targetWal, torn, mixed>>
fetching == <<restoring, segments, wal_data, unread, found>>
restoreVars == <<rstep, files, fetching, restores, moment, couldGive, missed>>
managerVars == <<vars, stampVars>>
allVars == <<managerVars, restoreVars>>

Ready == {"idle", "failed", "done"}
PointInTime == {"list_manifests", "read_manifest"}
Downloading == PointInTime \cup {"get_latest", "get_snapshot", "get_manifest", "list_wal",
                                  "get_segment", "replay"}

NoFile == [by |-> 0, pages |-> {}]
NoWalFile == [by |-> 0, blocks |-> <<>>]
NoManifest == [gen |-> 0, snapshot |-> 0, indexes |-> <<>>]
NoMoment == [gen |-> 0, time |-> 0, commits |-> 0, restorable |-> {}, compacted |-> FALSE]

RestoreTypeOK ==
  /\ StampsTypeOK
  /\ rstep \in Ready \cup Downloading \cup {"opened"}
  /\ target \in [by : 0..MaxRestores, pages : SUBSET (1..MaxCommits)]
  /\ targetWal \in [by : 0..MaxRestores, blocks : Seq(Block)]
  /\ restoring \in 0..MaxGenerations /\ unread \subseteq Generations
  /\ segments \in Seq(Indexes) /\ wal_data \in Seq(Block)
  /\ found \in [gen : 0..MaxGenerations, snapshot : Nat, indexes : Seq(Indexes)]
  /\ restores \in 0..MaxRestores
  /\ moment \in [gen : 0..MaxGenerations, time : Nat, commits : Nat,
                  restorable : SUBSET (1..MaxCommits), compacted : BOOLEAN]
  /\ couldGive \subseteq SUBSET (1..MaxCommits)
  /\ missed \in BOOLEAN /\ mixed \in BOOLEAN /\ torn \in BOOLEAN

RestoreInit ==
  /\ Init /\ StampsInit
  /\ rstep = "idle" /\ target = NoFile /\ targetWal = NoWalFile
  /\ restoring = 0 /\ segments = <<>> /\ wal_data = <<>>
  /\ unread = {} /\ found = NoManifest
  /\ restores = 0 /\ moment = NoMoment /\ couldGive = {} /\ missed = FALSE
  /\ torn = FALSE /\ mixed = FALSE

\* What a restore would give if all of it happened now.
Instantaneous ==
  IF Stored(LatestKey) /\ Restorable(bucket[LatestKey]) THEN {RestoreLatest} ELSE {}

-----------------------------------------------------------------------------
(* The calls. *)

ClearFetching ==
  restoring' = 0 /\ segments' = <<>> /\ wal_data' = <<>> /\ unread' = {} /\ found' = NoManifest

MayCall(c) ==
  /\ rstep \in Ready /\ c \in RestoreCalls /\ restores < MaxRestores
  /\ restores' = restores + 1
  /\ UNCHANGED <<managerVars, moment>>

Begin(first) ==
  /\ rstep' = first
  /\ couldGive' = IF first = "get_latest" THEN Instantaneous ELSE {}
  /\ missed' = FALSE
  /\ ClearFetching
  /\ UNCHANGED files

\* restore_inner: with a target time or without.
BeginRestore == MayCall("restore") /\ Begin("get_latest")
BeginRestoreToTime == moment.gen # 0 /\ MayCall("restore_to_time") /\ Begin("list_manifests")

\* new with auto_restore: nothing is restored if there is a file.  A file that
\* cannot be looked up counts as missing.
AutoRestore ==
  /\ target.by = 0 \/ "exists_error" \in RestoreFaults
  /\ MayCall("auto_restore") /\ Begin("get_latest")

\* A call ends with an error, or its process ends.
Ends ==
  /\ rstep' = "failed"
  /\ couldGive' = {} /\ missed' = FALSE
  /\ ClearFetching
  /\ UNCHANGED <<managerVars, restores, moment>>

\* It does so between two writes: the files stay.
Failed == Ends /\ UNCHANGED files

\* It does so while it writes a file, or the disk is full: fs::write truncates
\* the file first, and leaves a part of what it was to write.
CutShort == "torn_write" \in RestoreFaults /\ Ends

Interrupted ==
  /\ "interrupted" \in RestoreFaults
  /\ rstep \in Downloading
  /\ Failed

\* get_object of key k fails: it is not stored, or the last retry failed.
GetFailed(k) == (~Stored(k) \/ "get_error" \in RestoreFaults) /\ Failed

Goes(from, to) ==
  /\ rstep = from /\ rstep' = to
  /\ couldGive' = IF to = "done" THEN {} ELSE couldGive
  /\ UNCHANGED <<managerVars, restores, moment>>

-----------------------------------------------------------------------------
(* restore_latest. *)

GetLatest ==
  \/ /\ Stored(LatestKey)
     /\ Goes("get_latest", "get_snapshot")
     /\ restoring' = bucket[LatestKey]
     /\ UNCHANGED <<files, segments, wal_data, unread, found, missed>>
  \/ rstep = "get_latest" /\ GetFailed(LatestKey)

\* The snapshot is written to the target before anything else is downloaded.
GetSnapshot ==
  \/ /\ Stored(SnapshotKey(restoring))
     /\ Goes("get_snapshot", IF found.gen = 0 THEN "get_manifest"
                             ELSE IF segments = <<>> THEN "replay" ELSE "get_segment")
     /\ target' = [by |-> restores, pages |-> bucket[SnapshotKey(restoring)]]
     /\ torn' = FALSE /\ mixed' = FALSE
     /\ UNCHANGED <<targetWal, fetching, missed>>
  \/ rstep = "get_snapshot" /\ GetFailed(SnapshotKey(restoring))

\* The target holds some of its pages, perhaps none.
SnapshotCutShort ==
  /\ rstep = "get_snapshot" /\ Stored(SnapshotKey(restoring))
  /\ \E pages \in SUBSET bucket[SnapshotKey(restoring)] :
       target' = [by |-> restores, pages |-> pages]
  /\ torn' = TRUE /\ mixed' = FALSE
  /\ UNCHANGED targetWal
  /\ CutShort

Listed(indexes) ==
  /\ segments' = indexes
  /\ UNCHANGED <<files, restoring, wal_data, unread, found>>

\* segment_keys_from_manifest: any failure to get it leads to the listing.
GetManifest ==
  LET k == ManifestKey(restoring)
  IN \/ /\ Stored(k)
        /\ LET indexes == SegmentIndexes(restoring)
           IN /\ Goes("get_manifest", IF indexes = <<>> THEN "replay" ELSE "get_segment")
              /\ Listed(indexes)
        /\ UNCHANGED missed
     \/ /\ ~Stored(k) \/ "get_error" \in RestoreFaults
        /\ Goes("get_manifest", "list_wal")
        /\ missed' = (Stored(k) \/ bucket[LatestKey] # restoring)
        /\ UNCHANGED <<files, fetching>>

\* The fallback: the keys in their order, or none if they cannot be listed.
ListWal ==
  \E indexes \in {StoredIndexes(restoring)}
                 \cup (IF "get_error" \in RestoreFaults THEN {<<>>} ELSE {}) :
    /\ Goes("list_wal", IF indexes = <<>> THEN "replay" ELSE "get_segment")
    /\ Listed(indexes)
    /\ missed' = (missed \/ indexes # StoredIndexes(restoring))

\* Variant: the segments are those of the generation that is the latest by now.
SegmentKeyOfLatest(i) == WalKey(bucket[LatestKey], i)

SegmentKey(i) == WalKey(restoring, i)

\* Variant: what was downloaded last comes first.
ConcatenatedInReverse(k) == bucket[k] \o wal_data

\* wal_data.extend_from_slice
Concatenated(k) == wal_data \o bucket[k]

\* The -wal file is written when the last segment is there.
GetSegment ==
  LET k == SegmentKey(Head(segments))
  IN /\ rstep = "get_segment"
     /\ \/ /\ Stored(k)
           /\ segments' = Tail(segments)
           /\ wal_data' = Concatenated(k)
           /\ Goes("get_segment", IF Len(segments) = 1 THEN "replay" ELSE "get_segment")
           /\ targetWal' = IF Len(segments) = 1
                           THEN [by |-> restores, blocks |-> wal_data'] ELSE targetWal
           /\ UNCHANGED <<target, torn, mixed, restoring, unread, found, missed>>
        \/ GetFailed(k)

\* The -wal file ends somewhere; a block that is not complete does not count.
WalCutShort ==
  LET k == SegmentKey(Head(segments))
  IN /\ rstep = "get_segment" /\ Len(segments) = 1 /\ Stored(k)
     /\ \E n \in 0..Len(Concatenated(k)) :
          targetWal' = [by |-> restores, blocks |-> SubSeq(Concatenated(k), 1, n)]
     /\ UNCHANGED <<target, torn, mixed>>
     /\ CutShort

\* SQLite opens the target: it replays the -wal file it finds there and, when
\* the connection closes, removes it.
OpenTarget ==
  /\ target' = [target EXCEPT !.pages = @ \cup Replay(targetWal.blocks)]
  /\ targetWal' = NoWalFile
  /\ mixed' = (mixed \/ targetWal.by \notin {0, target.by})
  /\ UNCHANGED torn

ReplayWal ==
  /\ Goes("replay", "done")
  /\ OpenTarget
  /\ missed' = FALSE
  /\ ClearFetching

\* new with auto_restore when there is a file: it goes on with it as it is,
\* also with one that SQLite may refuse to open because it is torn.
AutoRestoreSkipped ==
  /\ target.by # 0 /\ MayCall("auto_restore")
  /\ rstep' = "opened"
  /\ OpenTarget
  /\ UNCHANGED <<fetching, couldGive, missed>>

-----------------------------------------------------------------------------
(* restore_pitr. *)

\* The manifests are listed, then read one after the other.
ListManifests ==
  \/ /\ DOMAIN published # {}
     /\ Goes("list_manifests", "read_manifest")
     /\ unread' = DOMAIN published
     /\ missed' = (moment.gen \notin DOMAIN published)
     /\ UNCHANGED <<files, restoring, segments, wal_data, found>>
  \/ /\ rstep = "list_manifests"
     /\ DOMAIN published = {} \/ "get_error" \in RestoreFaults
     /\ Failed

\* Variant: every segment is replayed, whatever its time stamp.
SegmentsUpToIgnoringTime(g, time) == SegmentIndexes(g)

\* The segments of g whose own time stamp is not after the target time.
SegmentsUpTo(g, time) ==
  LET m == bucket[ManifestKey(g)]
  IN FlattenSeq([n \in DOMAIN m |->
                   IF published[g].segments[n] <= time THEN <<m[n].index>> ELSE <<>>])

\* Variant: the manifests are not sorted, the first that fits is taken.
FirstThatFits(g, time) == published[g].snapshot <= time /\ found.gen = 0

\* The latest generation whose snapshot is not after the target time.
Better(g, time) ==
  published[g].snapshot <= time /\ published[g].snapshot >= found.snapshot

\* One manifest is read; one that cannot be is passed over.
ReadManifest ==
  /\ rstep = "read_manifest"
  /\ \E g \in unread :
       /\ Goes("read_manifest", "read_manifest")
       /\ unread' = unread \ {g}
       /\ \/ /\ g \in DOMAIN published
             /\ found' = IF Better(g, moment.time)
                         THEN [gen |-> g, snapshot |-> published[g].snapshot,
                               indexes |-> SegmentsUpTo(g, moment.time)]
                         ELSE found
             /\ missed' = (missed \/ (g = moment.gen /\ moment.compacted))
          \/ /\ g \notin DOMAIN published \/ "get_error" \in RestoreFaults
             /\ missed' = (missed \/ g = moment.gen)
             /\ UNCHANGED found
       /\ UNCHANGED <<files, restoring, segments, wal_data>>

ChooseGeneration ==
  /\ rstep = "read_manifest" /\ unread = {}
  /\ \/ /\ found.gen # 0
        /\ Goes("read_manifest", "get_snapshot")
        /\ restoring' = found.gen /\ segments' = found.indexes
        /\ UNCHANGED <<files, wal_data, unread, found, missed>>
     \/ found.gen = 0 /\ Failed

-----------------------------------------------------------------------------
(* The restores beside the manager. *)

Restoring ==
  \/ BeginRestore \/ BeginRestoreToTime \/ AutoRestore \/ AutoRestoreSkipped
  \/ Interrupted \/ SnapshotCutShort \/ WalCutShort
  \/ GetLatest \/ GetSnapshot \/ GetManifest \/ ListWal \/ GetSegment \/ ReplayWal
  \/ ListManifests \/ ReadManifest \/ ChooseGeneration

\* A moment at which a backup exists, that a user will want to come back to.
Remember ==
  /\ moment.gen = 0 /\ "restore_to_time" \in RestoreCalls
  /\ rstep \in Ready /\ restores < MaxRestores                 \* bound
  /\ \E restorable \in Instantaneous :
       moment' = [gen |-> bucket[LatestKey], time |-> now_ms, commits |-> commits,
                  restorable |-> restorable, compacted |-> FALSE]
  /\ ticks' = ticks + 1
  /\ UNCHANGED <<vars, snapshotStamp, segmentStamps, newStamps, published,
                 rstep, files, fetching, restores, couldGive, missed>>

Witness ==
  /\ couldGive' = IF rstep \in Downloading \ PointInTime /\ found.gen = 0
                  THEN couldGive \cup Instantaneous' ELSE {}
  /\ moment' = [moment EXCEPT !.compacted = @ \/ (/\ step = "compact_manifest"
                                                  /\ ManifestLanded
                                                  /\ generation = moment.gen)]
  /\ UNCHANGED <<rstep, files, fetching, restores, missed>>

\* Bound: what comes after the last restore does not concern it.
Beside == /\ restores < MaxRestores \/ rstep \in Downloading
          /\ (AppStep \/ Manager \/ Drop \/ Crash)
          /\ Stamp /\ Witness

RestoreNext == Beside \/ Restoring \/ Remember

RestoreSpec == RestoreInit /\ [][RestoreNext]_allVars
===============================================================================
