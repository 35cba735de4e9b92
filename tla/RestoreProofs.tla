------------------------------ MODULE RestoreProofs ------------------------------
(***************************************************************************)
(* Restores that run beside a manager: what they download one object at a  *)
(* time, while the manager goes on with the bucket, and what SQLite makes  *)
(* of the files they leave.                                                *)
(***************************************************************************)
EXTENDS ReplicaProofs

-----------------------------------------------------------------------------
(* The steps. *)

\* A step is one of the manager and its environment, one of a restore, which
\* leaves all of that alone, or the choice of a point in time.
LEMMA RestoreSteps ==
  ASSUME [RestoreNext]_allVars
  PROVE  \/ Beside
         \/ Restoring /\ UNCHANGED managerVars
         \/ Remember
         \/ UNCHANGED allVars
  BY DEF RestoreNext, Restoring, BeginRestore, BeginRestoreToTime, AutoRestore, AutoRestoreSkipped,
         MayCall, Interrupted, SnapshotCutShort, WalCutShort, CutShort, Ends, Failed, GetLatest,
         GetSnapshot, GetManifest, ListWal, GetSegment,
         ReplayWal, ListManifests, ReadManifest, ChooseGeneration, Goes, GetFailed

\* What a step of a restore does to its files and to what it has downloaded.
FilesStay == UNCHANGED files /\ wal_data' \in {<<>>, wal_data}
WritesSnapshot ==
  /\ rstep = "get_snapshot" /\ Stored(SnapshotKey(restoring))
  /\ target' = [by |-> restores, pages |-> bucket[SnapshotKey(restoring)]]
  /\ torn' = FALSE /\ mixed' = FALSE /\ UNCHANGED <<targetWal, fetching, restores>>
  /\ rstep' \in {"get_manifest", "replay", "get_segment"}
WritesSegment ==
  LET k == WalKey(restoring, Head(segments))
  IN /\ rstep = "get_segment" /\ Stored(k)
     /\ segments' = Tail(segments) /\ wal_data' = wal_data \o bucket[k]
     /\ rstep' = (IF Len(segments) = 1 THEN "replay" ELSE "get_segment")
     /\ targetWal' = IF Len(segments) = 1
                     THEN [by |-> restores, blocks |-> wal_data'] ELSE targetWal
     /\ UNCHANGED <<target, torn, mixed, restoring, found, restores>>
TearsSnapshot ==
  /\ rstep = "get_snapshot" /\ Stored(SnapshotKey(restoring))
  /\ \E pages \in SUBSET bucket[SnapshotKey(restoring)] :
       target' = [by |-> restores, pages |-> pages]
  /\ torn' = TRUE /\ mixed' = FALSE
  /\ UNCHANGED <<targetWal, restores>> /\ rstep' = "failed" /\ wal_data' = <<>>
TearsWal ==
  LET k == WalKey(restoring, Head(segments))
  IN /\ "torn_write" \in RestoreFaults
     /\ rstep = "get_segment" /\ Stored(k)
     /\ \E n \in 0..Len(wal_data \o bucket[k]) :
          targetWal' = [by |-> restores, blocks |-> SubSeq(wal_data \o bucket[k], 1, n)]
     /\ UNCHANGED <<target, torn, mixed, restores>> /\ rstep' = "failed" /\ wal_data' = <<>>
Opens == OpenTarget /\ wal_data' \in {<<>>, wal_data}

\* A step of a restore leaves the files or writes one, or the target is opened.
LEMMA FilesStep ==
  ASSUME Restoring
  PROVE  FilesStay \/ WritesSnapshot \/ WritesSegment \/ TearsSnapshot \/ TearsWal \/ Opens
<1>1. CASE BeginRestore \/ BeginRestoreToTime \/ AutoRestore
  BY <1>1 DEF BeginRestore, BeginRestoreToTime, AutoRestore, Begin, ClearFetching, FilesStay
<1>2. CASE AutoRestoreSkipped \/ ReplayWal
  BY <1>2 DEF AutoRestoreSkipped, ReplayWal, ClearFetching, fetching, Opens
<1>3. CASE Failed
  BY <1>3 DEF Failed, Ends, ClearFetching, FilesStay
<1>4. CASE GetSnapshot
  BY <1>3, <1>4 DEF GetSnapshot, GetFailed, Goes, WritesSnapshot
<1>5. CASE GetSegment
  BY <1>3, <1>5 DEF GetSegment, GetFailed, Goes, WritesSegment, SegmentKey, Concatenated
<1>6. CASE GetLatest \/ GetManifest \/ ListWal
  BY <1>3, <1>6 DEF GetLatest, GetManifest, ListWal, Listed, GetFailed, FilesStay, fetching
<1>7. CASE ListManifests \/ ReadManifest \/ ChooseGeneration
  BY <1>3, <1>7 DEF ListManifests, ReadManifest, ChooseGeneration, FilesStay
<1>8. CASE SnapshotCutShort
  BY <1>8 DEF SnapshotCutShort, CutShort, Ends, ClearFetching, TearsSnapshot
<1>9. CASE WalCutShort
  BY <1>9 DEF WalCutShort, CutShort, Ends, ClearFetching, SegmentKey, Concatenated, TearsWal
<1> QED
  BY <1>1, <1>2, <1>3, <1>4, <1>5, <1>6, <1>7, <1>8, <1>9 DEF Restoring, Interrupted

\* The calls are numbered.
LEMMA RestoresStep ==
  ASSUME Restoring
  PROVE  UNCHANGED restores \/ (restores < MaxRestores /\ restores' = restores + 1)
  BY DEF Restoring, BeginRestore, BeginRestoreToTime, AutoRestore, AutoRestoreSkipped, MayCall,
         Interrupted, SnapshotCutShort, WalCutShort, CutShort, Ends, Failed, GetLatest,
         GetSnapshot, GetManifest, ListWal, GetSegment,
         ReplayWal, ListManifests, ReadManifest, ChooseGeneration, Goes, GetFailed

\* What a restore downloads it downloads for the last call.
LEMMA DownloadingStep ==
  ASSUME Restoring, rstep' \in Downloading
  PROVE  \/ rstep \in Downloading /\ UNCHANGED restores
         \/ restores' = restores + 1
  BY DEF Restoring, BeginRestore, BeginRestoreToTime, AutoRestore, AutoRestoreSkipped, MayCall,
         Interrupted, SnapshotCutShort, WalCutShort, CutShort, Ends, Failed, GetLatest,
         GetSnapshot, GetManifest, ListWal, GetSegment,
         ReplayWal, ListManifests, ReadManifest, ChooseGeneration, Goes, GetFailed, Downloading,
         PointInTime

-----------------------------------------------------------------------------
(* One history, with what the restores hold of it.  *)

\* The blocks restores have downloaded or written.
Downloads == Blocks(wal_data) \cup Blocks(targetWal.blocks)

\* Transactions are committed one after the other, up to the bound.
LEMMA CommitsStep ==
  ASSUME TypeOK, [Next]_vars
  PROVE  commits' = commits \/ (commits < MaxCommits /\ commits' = commits + 1)
<1>1. CASE App
  BY <1>1 DEF App, AppAppend, AppRestartWal, AppRewriteHeader, WriteFrame, AppRollback, AppReadBegin,
              AppReadEnd, AppCheckpoint, WalCheckpoint
<1> QED
  BY <1>1, DatabaseStep DEF WalCheckpoint, FilesKept

\* Whatever set of blocks holds those of the manager, a step adds to their history.
LEMMA HistoryStep ==
  ASSUME TypeOK, StepOK, SqliteOK, NEW K, Known \subseteq K, History(K, lastId, commits),
         [Next]_vars
  PROVE  SqliteOK' /\ \E L : K \subseteq L /\ Known' \subseteq L /\ History(L, lastId', commits')
<1>1. SqliteInv(K)
  BY DEF SqliteInv, Known, TypeOK
<1>2. SqliteOK' /\ GoesOn(K)
  BY <1>1, DatabaseStep, AppOK, WalCheckpointOK, FilesKeptOK DEF FilesKept, MarksMove
<1>3. PICK L : K \subseteq L /\ Blocks(wal') \subseteq L /\ History(L, lastId', commits')
  BY <1>2 DEF GoesOn
<1>4. Known' \subseteq L
  BY <1>3, NothingInvented DEF Known, DataKnown, StoreKnown
<1> QED
  BY <1>2, <1>3, <1>4

\* SQLite replays transactions that have committed.
LEMMA ReplayWithin ==
  ASSUME NEW c \in Nat, NEW w \in Seq(Block), Linked(w, c)
  PROVE  Replay(w) \subseteq 1..c
<1>1. CASE \A N \in 2..Len(w) : ~CommitAt(w, N)
  BY <1>1, ReplayNothing
<1>2. ASSUME NEW N0 \in 2..Len(w), CommitAt(w, N0)
      PROVE  Replay(w) \subseteq 1..c
  <2>1. PICK N \in 2..Len(w) : CommitAt(w, N) /\ Replay(w) = (w[1].tx + 1)..w[N].tx
    BY <1>2, ReplayTo
  <2>2. w[1] \in Block /\ w[N] \in Block
    BY <2>1
  <2>3. w[N].tx <= c
    BY <2>1 DEF Linked, CommitAt
  <2>4. w[1].tx \in Nat /\ w[N].tx \in Nat
    BY <2>2, BlockFields
  <2> QED
    BY <2>1, <2>3, <2>4
<1> QED
  BY <1>1, <1>2

\* The files of the restores, and the history with what they hold of it.
FilesOK ==
  /\ wal_data \in Seq(Block)
  /\ targetWal \in [by : 0..MaxRestores, blocks : Seq(Block)]
  /\ targetWal.by = 0 => targetWal.blocks = <<>>
  /\ restores \in 0..MaxRestores /\ (rstep \in Downloading => restores # 0)
  /\ torn \in BOOLEAN /\ mixed \in BOOLEAN
  /\ SqliteOK /\ History(Known \cup Downloads, lastId, commits)

\* What the pages of snapshots and of the restored file come from.
PagesWithin ==
  /\ commits <= MaxCommits
  /\ \A g \in Generations : Stored(SnapshotKey(g)) => bucket[SnapshotKey(g)] \subseteq 1..commits
  /\ step \in {"read_db", "put_snapshot"} => image \subseteq 1..commits
  /\ target \in [by : 0..MaxRestores, pages : SUBSET (1..commits)]

\* The keys that are stored are those of a generation and an index in bounds.
LEMMA StoredKeys ==
  ASSUME BucketTypeOK, NEW g
  PROVE  /\ Stored(SnapshotKey(g)) => g \in Generations
         /\ Stored(ManifestKey(g)) => g \in Generations
         /\ \A i : Stored(WalKey(g, i)) => g \in Generations /\ i \in Indexes
<1>1. DOMAIN bucket \subseteq Keys
  BY DEF BucketTypeOK
<1>2. SnapshotKey(g) \in Keys => g \in Generations
  BY DEF SnapshotKey, Keys, LatestKey, ManifestKey, WalKeys, WalKey
<1>3. ManifestKey(g) \in Keys => g \in Generations
  BY DEF SnapshotKey, Keys, LatestKey, ManifestKey, WalKeys, WalKey
<1>4. ASSUME NEW i, WalKey(g, i) \in Keys PROVE g \in Generations /\ i \in Indexes
  <2>1. WalKey(g, i) \in WalKeys
    BY <1>4 DEF SnapshotKey, Keys, LatestKey, ManifestKey, WalKey
  <2> QED
    BY <2>1 DEF WalKeys, WalKey
<1> QED
  BY <1>1, <1>2, <1>3, <1>4 DEF Stored

\* What a restore downloads are blocks of the history.
LEMMA SegmentKnown ==
  ASSUME TypeOK, NEW g, NEW i, Stored(WalKey(g, i))
  PROVE  bucket[WalKey(g, i)] \in Seq(Block) /\ Blocks(bucket[WalKey(g, i)]) \subseteq Known
<1>1. WalKey(g, i) \in DOMAIN bucket /\ WalKey(g, i)[1] = "wal"
  BY DEF Stored, WalKey
<1> QED
  BY <1>1, ObjectBlocks DEF TypeOK, BucketTypeOK, ObjectTypeOK, Known

\* So are those of the first part of what it has downloaded.
LEMMA PrefixKnown ==
  ASSUME NEW s \in Seq(Block), NEW t \in Seq(Block), NEW n \in 0..Len(s \o t)
  PROVE  /\ SubSeq(s \o t, 1, n) \in Seq(Block)
         /\ Blocks(SubSeq(s \o t, 1, n)) \subseteq Blocks(s) \cup Blocks(t)
<1>1. PICK w : w = s \o t
  OBVIOUS
<1>2. w \in Seq(Block) /\ Blocks(w) \subseteq Blocks(s) \cup Blocks(t)
  BY <1>1, JoinKnown
<1>3. n \in Nat /\ n <= Len(w) /\ SubSeq(w, 1, n) \in Seq(Block)
  BY <1>1, <1>2
<1>4. Blocks(SubSeq(w, 1, n)) \subseteq Blocks(w)
  BY <1>2, <1>3, CutKnown
<1> QED
  BY <1>1, <1>2, <1>3, <1>4

\* The file a restore leaves, as SQLite opens it.
LEMMA OpenedPages ==
  ASSUME TypeOK, FilesOK, PagesWithin
  PROVE  /\ Linked(targetWal.blocks, commits)
         /\ target.pages \cup Replay(targetWal.blocks) \subseteq 1..commits
<1>1. targetWal.blocks \in Seq(Block) /\ Blocks(targetWal.blocks) \subseteq Known \cup Downloads
  BY DEF FilesOK, Downloads
<1>2. PICK w : w = targetWal.blocks
  OBVIOUS
<1>3. Linked(w, commits)
  BY <1>1, <1>2, HistoryLinks DEF FilesOK
<1>4. commits \in Nat /\ target.pages \subseteq 1..commits
  BY DEF TypeOK, SqliteTypeOK, PagesWithin
<1>5. Replay(w) \subseteq 1..commits
  BY <1>1, <1>2, <1>3, <1>4, ReplayWithin
<1> QED
  BY <1>2, <1>3, <1>4, <1>5

\* What the restores hold stays in the history: they take blocks from the bucket only.
LEMMA DownloadsStep ==
  ASSUME TypeOK, FilesOK, Restoring, UNCHANGED managerVars
  PROVE  FilesOK'
<1>1. UNCHANGED vars
  BY DEF managerVars
<1>9. UNCHANGED <<wal, mxFrame, spilled, nBackfill, db, commits, readMark, data, bucket>>
  BY <1>1 DEF vars, sqliteVars, sqliteFiles, call, locals, syncLocals
<1>2. SqliteOK' /\ Known' = Known
  <2>1. SqliteOK'
    BY <1>9 DEF FilesOK, SqliteOK, WalOK, DbOK, MarksOK, CommitAt, ValidPrefix
  <2>2. Known' = Known
    BY <1>9 DEF Known, Blocks, StoredBlocks
  <2> QED
    BY <2>1, <2>2
<1>3. lastId' = lastId /\ commits' = commits
  BY <1>1 DEF vars, sqliteVars, sqliteFiles
<1>4. restores' \in 0..MaxRestores
  BY RestoresStep, RestoresAssumption DEF FilesOK
<1>8. rstep' \in Downloading => restores' # 0
  BY DownloadingStep, RestoresAssumption DEF FilesOK
<1>5. Blocks(<<>>) = {}
  BY DEF Blocks
<1>6. CASE FilesStay \/ WritesSnapshot \/ TearsSnapshot \/ Opens
  <2>1. wal_data' \in {<<>>, wal_data} /\ targetWal' \in {NoWalFile, targetWal}
    BY <1>6 DEF FilesStay, WritesSnapshot, TearsSnapshot, Opens, files, fetching, OpenTarget
  <2>2. torn' \in BOOLEAN /\ mixed' \in BOOLEAN
    BY <1>6 DEF FilesStay, WritesSnapshot, TearsSnapshot, Opens, files, fetching, OpenTarget, FilesOK
  <2>3. Downloads' \subseteq Downloads
    BY <1>5, <2>1 DEF Downloads, NoWalFile
  <2>4. PICK K : K = Known \cup Downloads
    OBVIOUS
  <2>5. (Known \cup Downloads)' \subseteq K
    BY <1>2, <2>3, <2>4
  <2>6. PICK M : M = (Known \cup Downloads)'
    OBVIOUS
  <2>7. History(M, lastId', commits')
    BY <1>3, <2>4, <2>5, <2>6, HistoryPart DEF FilesOK
  <2>8. /\ wal_data' \in Seq(Block) /\ targetWal' \in [by : 0..MaxRestores, blocks : Seq(Block)]
        /\ targetWal'.by = 0 => targetWal'.blocks = <<>>
    <3>1. <<>> \in Seq(Block) /\ 0 \in 0..MaxRestores
      BY RestoresAssumption
    <3>2. NoWalFile \in [by : 0..MaxRestores, blocks : Seq(Block)]
      BY <3>1 DEF NoWalFile
    <3>3. NoWalFile.by = 0 /\ NoWalFile.blocks = <<>>
      BY DEF NoWalFile
    <3>4. wal_data' \in Seq(Block)
      BY <2>1, <3>1 DEF FilesOK
    <3> QED
      BY <2>1, <3>2, <3>3, <3>4 DEF FilesOK
  <2> QED
    BY <1>2, <1>4, <1>8, <2>2, <2>6, <2>7, <2>8 DEF FilesOK
<1>7. CASE WritesSegment
  <2>1. PICK v : v = bucket[WalKey(restoring, Head(segments))]
    OBVIOUS
  <2>2. v \in Seq(Block) /\ Blocks(v) \subseteq Known
    BY <1>7, <2>1, SegmentKnown DEF WritesSegment
  <2>3. wal_data \in Seq(Block) /\ wal_data' = wal_data \o v
    BY <1>7, <2>1 DEF WritesSegment, FilesOK
  <2>4. wal_data' \in Seq(Block) /\ Blocks(wal_data') \subseteq Blocks(wal_data) \cup Blocks(v)
    BY <2>2, <2>3, JoinKnown
  <2>5. targetWal' \in {targetWal, [by |-> restores, blocks |-> wal_data']}
    BY <1>7 DEF WritesSegment
  <2>6. Downloads' \subseteq Known \cup Downloads
    BY <2>2, <2>4, <2>5 DEF Downloads
  <2>7. PICK K : K = Known \cup Downloads
    OBVIOUS
  <2>8. PICK M : M = (Known \cup Downloads)'
    OBVIOUS
  <2>9. History(M, lastId', commits')
    BY <1>2, <1>3, <2>6, <2>7, <2>8, HistoryPart DEF FilesOK
  <2>10. /\ targetWal' \in [by : 0..MaxRestores, blocks : Seq(Block)]
         /\ targetWal'.by = 0 => targetWal'.blocks = <<>>
    BY <1>7, <2>4, <2>5 DEF FilesOK, WritesSegment, Downloading
  <2>11. torn' \in BOOLEAN /\ mixed' \in BOOLEAN
    BY <1>7 DEF WritesSegment, FilesOK
  <2> QED
    BY <1>2, <1>4, <1>8, <2>4, <2>8, <2>9, <2>10, <2>11 DEF FilesOK
<1>10. CASE TearsWal
  <2>1. PICK v : v = bucket[WalKey(restoring, Head(segments))]
    OBVIOUS
  <2>2. v \in Seq(Block) /\ Blocks(v) \subseteq Known
    BY <1>10, <2>1, SegmentKnown DEF TearsWal
  <2>3. PICK t : /\ \E n \in 0..Len(wal_data \o v) : t = SubSeq(wal_data \o v, 1, n)
                 /\ targetWal' = [by |-> restores, blocks |-> t]
    BY <1>10, <2>1 DEF TearsWal
  <2>4. t \in Seq(Block) /\ Blocks(t) \subseteq Blocks(wal_data) \cup Blocks(v)
    BY <2>2, <2>3, PrefixKnown DEF FilesOK
  <2>5. wal_data' = <<>> /\ restores' = restores /\ restores # 0
        /\ torn' \in BOOLEAN /\ mixed' \in BOOLEAN
    BY <1>10 DEF TearsWal, FilesOK, Downloading
  <2>6. Downloads' \subseteq Known \cup Downloads
    BY <1>5, <2>2, <2>3, <2>4, <2>5 DEF Downloads
  <2>7. PICK K : K = Known \cup Downloads
    OBVIOUS
  <2>8. PICK M : M = (Known \cup Downloads)'
    OBVIOUS
  <2>9. History(M, lastId', commits')
    BY <1>2, <1>3, <2>6, <2>7, <2>8, HistoryPart DEF FilesOK
  <2>10. /\ targetWal' \in [by : 0..MaxRestores, blocks : Seq(Block)]
         /\ targetWal'.by = 0 => targetWal'.blocks = <<>>
    BY <2>3, <2>4, <2>5 DEF FilesOK
  <2>11. wal_data' \in Seq(Block)
    BY <2>5
  <2> QED
    BY <1>2, <1>4, <1>8, <2>5, <2>8, <2>9, <2>10, <2>11 DEF FilesOK
<1> QED
  BY <1>6, <1>7, <1>10, FilesStep

\* A step of the manager and its environment adds to the history.
LEMMA FilesBeside ==
  ASSUME TypeOK, StepOK, FilesOK, [Next]_vars,
         UNCHANGED <<files, fetching, restores>>,
         rstep' \in Downloading => rstep \in Downloading
  PROVE  FilesOK'
<1>1. PICK K : K = Known \cup Downloads
  OBVIOUS
<1>2. PICK L : K \subseteq L /\ Known' \subseteq L /\ History(L, lastId', commits')
  BY <1>1, HistoryStep DEF FilesOK
<1>3. Downloads' = Downloads
  BY DEF Downloads, files, fetching
<1>4. PICK M : M = (Known \cup Downloads)'
  OBVIOUS
<1>5. M \subseteq L
  BY <1>1, <1>2, <1>3, <1>4
<1>6. History(M, lastId', commits')
  BY <1>2, <1>5, HistoryPart
<1>7. SqliteOK'
  BY <1>1, HistoryStep DEF FilesOK
<1> QED
  BY <1>4, <1>6, <1>7 DEF FilesOK, files, fetching

\* A restore at some moment would give transactions that have committed.
Within == Instantaneous \subseteq SUBSET (1..commits)
\* A restore gives transactions that were committed.
LEMMA InstantaneousWithin ==
  ASSUME TypeOK, FilesOK, PagesWithin
  PROVE  Within
<1>1. CASE Stored(LatestKey) /\ Restorable(Latest)
  <2>1. SqliteOK /\ History(Known, lastId, commits)
    BY HistoryPart DEF FilesOK
  <2>2. RestoredWal(Latest) \in Seq(Block) /\ Linked(RestoredWal(Latest), commits)
    BY <1>1, <2>1, RestoredLinked DEF HInv
  <2>3. PICK w : w = RestoredWal(Latest)
    OBVIOUS
  <2>4. Replay(w) \subseteq 1..commits
    BY <2>2, <2>3, ReplayWithin DEF TypeOK, SqliteTypeOK
  <2>5. bucket[SnapshotKey(Latest)] \subseteq 1..commits
    BY <1>1, StoredKeys DEF Restorable, PagesWithin, TypeOK
  <2>6. RestoreLatest \subseteq 1..commits
    BY <1>1, <2>3, <2>4, <2>5 DEF RestoreLatest, Restored, Latest
  <2> QED
    BY <2>6 DEF Within, Instantaneous
<1>2. CASE ~(Stored(LatestKey) /\ Restorable(Latest))
  BY <1>2 DEF Within, Instantaneous, Latest
<1> QED
  BY <1>1, <1>2

\* Snapshots come from the database file, which holds what has committed.
LEMMA PagesBeside ==
  ASSUME TypeOK, FilesOK, FilesOK', TypeOK', PagesWithin, [Next]_vars, UNCHANGED target
  PROVE  PagesWithin'
<1>1. commits \in Nat /\ commits' \in Nat /\ commits <= commits' /\ commits' <= MaxCommits
  BY CommitsStep, BoundsAssumption DEF TypeOK, SqliteTypeOK, PagesWithin
<1>2. db \subseteq 1..commits /\ db' \subseteq 1..commits'
  BY <1>1 DEF FilesOK, SqliteOK, DbOK
<1>3. ASSUME NEW g \in Generations, Stored(SnapshotKey(g))'
      PROVE  bucket'[SnapshotKey(g)] \subseteq 1..commits'
  <2>1. \/ Untouched(SnapshotKey(g))
        \/ step = "put_snapshot" /\ bucket'[SnapshotKey(g)] = image
    BY <1>3, ObjectsStep DEF ObjectStep, Put, SnapshotKey, WalKey, Stored, Generations
  <2>2. bucket'[SnapshotKey(g)] \subseteq 1..commits
    BY <1>3, <2>1 DEF Untouched, PagesWithin, Stored
  <2> QED
    BY <1>1, <2>2
<1>4. ASSUME step' \in {"read_db", "put_snapshot"} PROVE image' \subseteq 1..commits'
  <2>1. image' \subseteq 1..commits \/ image' \subseteq 1..commits'
    BY <1>2, <1>4, ReadsStep DEF ReadStep, PagesWithin
  <2> QED
    BY <1>1, <2>1
<1>5. target \in [by : 0..MaxRestores, pages : SUBSET (1..commits')]
  <2>1. 1..commits \subseteq 1..commits'
    BY <1>1
  <2> QED
    BY <2>1 DEF PagesWithin
<1> QED
  BY <1>1, <1>3, <1>4, <1>5 DEF PagesWithin

\* Restores read snapshots and segments.
LEMMA PagesRestoring ==
  ASSUME TypeOK, FilesOK, PagesWithin, Restoring, UNCHANGED managerVars
  PROVE  PagesWithin'
<1>1. UNCHANGED <<commits, bucket, step, image>>
  BY DEF managerVars, vars, sqliteVars, sqliteFiles, call, locals, snapshotLocals
<1>2. target' \in [by : 0..MaxRestores, pages : SUBSET (1..commits)]
  <2>1. CASE target' = target
    BY <2>1 DEF PagesWithin
  <2>2. CASE WritesSnapshot
    BY <2>2, StoredKeys DEF WritesSnapshot, PagesWithin, TypeOK, FilesOK
  <2>3. CASE OpenTarget
    BY <2>3, OpenedPages DEF OpenTarget, PagesWithin
  <2>4. CASE TearsSnapshot
    <3>1. PICK pages \in SUBSET bucket[SnapshotKey(restoring)] :
            target' = [by |-> restores, pages |-> pages]
      BY <2>4 DEF TearsSnapshot
    <3>2. bucket[SnapshotKey(restoring)] \subseteq 1..commits /\ restores \in 0..MaxRestores
      BY <2>4, StoredKeys DEF TearsSnapshot, PagesWithin, TypeOK, FilesOK
    <3> QED
      BY <3>1, <3>2
  <2> QED
    BY <2>1, <2>2, <2>3, <2>4, FilesStep DEF FilesStay, WritesSegment, TearsWal, Opens, files
<1> QED
  BY <1>1, <1>2 DEF PagesWithin, Stored

\* What steps that are not those of a restore leave alone.
LEMMA RestoreWaits ==
  ASSUME Beside \/ Remember \/ UNCHANGED allVars
  PROVE  UNCHANGED <<rstep, files, fetching, restores>>
  BY DEF Beside, Witness, Remember, allVars, restoreVars

\* What a restore gives has been committed, and what it holds is of the history.
LEMMA AlwaysFiles ==
  RestoreSpec => [](TypeOK /\ StepOK /\ FilesOK /\ PagesWithin /\ Within)
<1> DEFINE RI == TypeOK /\ StepOK /\ FilesOK /\ PagesWithin
<1>1. RestoreInit => RI
  <2> SUFFICES ASSUME RestoreInit
               PROVE  RI
    OBVIOUS
  <2>1. TypeOK /\ StepOK /\ HInv
    BY InitInv, HInit DEF RestoreInit
  <2>2. wal_data = <<>> /\ targetWal = NoWalFile /\ target = NoFile /\ restores = 0 /\ rstep = "idle"
        /\ torn = FALSE /\ mixed = FALSE
    BY DEF RestoreInit
  <2>3. Downloads = {}
    BY <2>2 DEF Downloads, NoWalFile, Blocks
  <2>4. PICK K : K = Known \cup Downloads
    OBVIOUS
  <2>5. K = Known
    BY <2>3, <2>4
  <2>6. History(K, lastId, commits) /\ SqliteOK
    BY <2>1, <2>5 DEF HInv
  <2>7. <<>> \in Seq(Block) /\ 0 \in 0..MaxRestores
    BY RestoresAssumption
  <2>8. targetWal \in [by : 0..MaxRestores, blocks : Seq(Block)] /\ targetWal.blocks = <<>>
    BY <2>2, <2>7 DEF NoWalFile
  <2>9. FilesOK
    BY <2>2, <2>4, <2>6, <2>7, <2>8 DEF FilesOK, Downloading, PointInTime
  <2>10. commits = 0 /\ DOMAIN bucket = {} /\ step = "idle"
    BY DEF RestoreInit, Init, SqliteInit
  <2>11. PagesWithin
    BY <2>2, <2>7, <2>10, BoundsAssumption DEF PagesWithin, NoFile, Stored
  <2> QED
    BY <2>1, <2>9, <2>11
<1>2. RI /\ [RestoreNext]_allVars => RI'
  <2> SUFFICES ASSUME RI, [RestoreNext]_allVars
               PROVE  RI'
    OBVIOUS
  <2>1. [Next]_vars
    BY RestoringReads
  <2>2. TypeOK' /\ StepOK'
    BY <2>1, NextInv
  <2>3. CASE Beside \/ Remember \/ UNCHANGED allVars
    <3>1. UNCHANGED <<rstep, files, fetching, restores>>
      BY <2>3, RestoreWaits
    <3>2. FilesOK'
      BY <2>1, <3>1, FilesBeside
    <3>3. PagesWithin'
      BY <2>1, <2>2, <3>1, <3>2, PagesBeside DEF files
    <3> QED
      BY <2>2, <3>2, <3>3
  <2>4. CASE Restoring /\ UNCHANGED managerVars
    BY <2>2, <2>4, DownloadsStep, PagesRestoring
  <2> QED
    BY <2>3, <2>4, RestoreSteps
<1>3. RI => TypeOK /\ StepOK /\ FilesOK /\ PagesWithin /\ Within
  BY InstantaneousWithin
<1> HIDE DEF RI
<1> QED
  BY <1>1, <1>2, <1>3, PTL DEF RestoreSpec

-----------------------------------------------------------------------------
(* Types. *)

\* How a step of the manager changes its manifest and the segments of compact.
ManifestStep ==
  /\ \/ manifest' \in {manifest, <<>>}
     \/ step = "put_segment" /\ \E s \in SegmentMeta : manifest' = Append(manifest, s)
     \/ step = "compact_put" /\ manifest' = newSegments'
  /\ \/ newSegments' \in {newSegments, <<>>}
     \/ step = "compact_put" /\ \E s \in SegmentMeta : newSegments' = Append(newSegments, s)

\* Only upload_manifest stores a manifest, the one in memory.
ManifestPut ==
  \A g : ManifestKey(g) \in DOMAIN bucket' =>
    \/ Untouched(ManifestKey(g))
    \/ g = generation /\ ManifestLanded

\* What compact keeps while it runs is gone when it returns.
LEMMA ClearsSegments ==
  ASSUME ClearLocals
  PROVE  newSegments' = <<>>
  BY DEF ClearLocals

\* Uploads of other objects leave the manifests.
LEMMA PutOther ==
  ASSUME NEW o, NEW k, NEW v, PutObject(o, k, v), \A g : k # ManifestKey(g)
  PROVE  ManifestPut
<1>1. ASSUME NEW g, ManifestKey(g) \in DOMAIN bucket' PROVE Untouched(ManifestKey(g))
  BY <1>1 DEF PutObject, Untouched
<1> QED
  BY <1>1 DEF ManifestPut

\* The upload of a manifest puts the one in memory.
LEMMA PutManifest ==
  ASSUME NEW o, PutObject(o, ManifestKey(generation), manifest), step \in ManifestSteps
  PROVE  ManifestPut
<1>1. ASSUME NEW g, ManifestKey(g) \in DOMAIN bucket'
      PROVE  Untouched(ManifestKey(g)) \/ (g = generation /\ ManifestLanded)
  <2>1. CASE g = generation
    BY <1>1, <2>1 DEF PutObject, Untouched, ManifestLanded
  <2>2. CASE g # generation
    <3>1. ManifestKey(g) # ManifestKey(generation)
      BY <2>2 DEF ManifestKey
    <3> QED
      BY <1>1, <3>1 DEF PutObject, Untouched
  <2> QED
    BY <2>1, <2>2
<1> QED
  BY <1>1 DEF ManifestPut

\* Deletions leave the manifests that stay.
LEMMA PutNone ==
  ASSUME UNCHANGED bucket \/ \E o, k : DeleteObject(o, k)
  PROVE  ManifestPut
  BY DEF ManifestPut, Untouched, DeleteObject

\* sync_wal returns with no segments of compact...
LEMMA SyncReturnSegments ==
  ASSUME NEW c, NEW o, NEW mark, SyncReturn(c, o, mark)
  PROVE  newSegments' = <<>>
  BY ClearsSegments DEF SyncReturn, Idle

\* ... and so does a snapshot.
LEMMA SnapshotReturnSegments ==
  ASSUME NEW o, SnapshotReturn(o)
  PROVE  newSegments' = <<>>
  BY ClearsSegments, SyncReturnSegments DEF SnapshotReturn, Idle

\* Every step changes the lists one segment at a time, or clears or replaces them.
LEMMA ManifestsStep ==
  ASSUME TypeOK, TypeOK', StepOK, [Next]_vars
  PROVE  ManifestStep /\ ManifestPut
<1>1. CASE AppStep \/ UNCHANGED vars
  BY <1>1, PutNone DEF AppStep, vars, tracking, call, locals, compactLocals, ManifestStep
<1>2. CASE New \/ CheckpointWal \/ Snapshot
  BY <1>2, PutNone, ClearsSegments
     DEF New, CheckpointWal, Snapshot, NewGeneration, tracking, EnterSnapshot, compactLocals, Idle,
         ManifestStep
<1>3. ASSUME NEW c, SyncWal(c) PROVE ManifestStep /\ ManifestPut
  BY <1>3, PutNone, SyncReturnSegments
     DEF SyncWal, Recover, ReadNewFrames, NewGeneration, tracking, EnterSnapshot, compactLocals,
         ManifestStep
<1>4. ASSUME NEW o, PutSegment(o) PROVE ManifestStep /\ ManifestPut
  <2>1. \A g : WalKey(generation, wal_index) # ManifestKey(g)
    BY KeysDiffer
  <2>2. ManifestPut
    BY <1>4, <2>1, PutOther DEF PutSegment
  <2>3. wal_index \in Indexes /\ wal_offset \in Nat /\ Len(data) \in Nat
    BY <1>4, KeysAssumption DEF PutSegment, StepOK, TypeOK, ManagerTypeOK, CallTypeOK, Indexes
  <2>4. [index |-> wal_index, offset |-> wal_offset, size |-> Len(data)] \in SegmentMeta
    BY <2>3 DEF SegmentMeta
  <2> QED
    BY <1>4, <2>2, <2>4, SyncReturnSegments DEF PutSegment, ManifestStep, locals, compactLocals
<1>5. ASSUME NEW o, PutSegmentManifest(o) \/ PutSnapshotManifest(o) \/ CompactManifest(o)
      PROVE  ManifestStep /\ ManifestPut
  <2>1. ManifestPut
    BY <1>5, PutManifest
       DEF PutSegmentManifest, PutSnapshotManifest, CompactManifest, ManifestSteps
  <2> QED
    BY <1>5, <2>1, SyncReturnSegments, SnapshotReturnSegments, ClearsSegments
       DEF PutSegmentManifest, PutSnapshotManifest, CompactManifest, tracking, Idle, ManifestStep
<1>6. ASSUME NEW o, PutSnapshot(o) \/ PutLatest(o) PROVE ManifestStep /\ ManifestPut
  <2>1. \A g : SnapshotKey(generation) # ManifestKey(g) /\ LatestKey # ManifestKey(g)
    BY KeysDiffer
  <2>2. ManifestPut
    BY <1>6, <2>1, PutOther DEF PutSnapshot, PutLatest
  <2> QED
    BY <1>6, <2>2, SnapshotReturnSegments
       DEF PutSnapshot, PutLatest, tracking, ManifestStep, locals, compactLocals
<1>7. ASSUME NEW o, ReadDb(o) PROVE ManifestStep /\ ManifestPut
  BY <1>7, PutNone, SnapshotReturnSegments DEF ReadDb, tracking, ManifestStep, compactLocals
<1>8. ASSUME NEW o, CompactPut(o) PROVE ManifestStep /\ ManifestPut
  <2>1. \A g : WalKey(generation, CompactIndex) # ManifestKey(g)
    BY KeysDiffer
  <2>2. ManifestPut
    BY <1>8, <2>1, PutOther DEF CompactPut
  <2>3. newSegments' = <<>> \/ \E s \in SegmentMeta : newSegments' = Append(newSegments, s)
    <3>1. CASE newSegments' = Append(newSegments, [index |-> CompactIndex, offset |-> CompactOffset,
                                                   size |-> CompactEnd - CompactOffset])
      <4>1. PICK s : s = [index |-> CompactIndex, offset |-> CompactOffset,
                          size |-> CompactEnd - CompactOffset]
        OBVIOUS
      <4>2. newSegments \in Seq(SegmentMeta) /\ Append(newSegments, s) \in Seq(SegmentMeta)
        BY <3>1, <4>1 DEF TypeOK, CallTypeOK
      <4>3. s = Append(newSegments, s)[Len(newSegments) + 1]
        BY <4>2
      <4>4. Len(newSegments) + 1 \in DOMAIN Append(newSegments, s)
        BY <4>2
      <4>5. s \in SegmentMeta
        BY <4>2, <4>3, <4>4
      <4> QED
        BY <3>1, <4>1, <4>5
    <3>2. CASE Idle
      BY <3>2, ClearsSegments DEF Idle
    <3> QED
      BY <1>8, <3>1, <3>2 DEF CompactPut
  <2> QED
    BY <1>8, <2>2, <2>3 DEF CompactPut, ManifestStep
<1>9. ASSUME NEW o, CompactDelete(o) \/ RetentionDelete(o) PROVE ManifestStep /\ ManifestPut
  BY <1>9, PutNone, ClearsSegments
     DEF CompactDelete, RetentionDelete, tracking, ManifestStep, Idle, compactLocals
<1>10. CASE (\E size \in SegmentSizes : Compact(size)) \/ CompactGet
  BY <1>10, PutNone, ClearsSegments DEF Compact, CompactGet, tracking, ManifestStep, Idle
<1>11. CASE (\E cutoff \in 1..(MaxGenerations + 1) : EnforceRetention(cutoff)) \/ RetentionNext
  BY <1>11, PutNone, ClearsSegments
     DEF EnforceRetention, RetentionNext, tracking, ManifestStep, Idle, compactLocals
<1>12. CASE Drop \/ Crash
  BY <1>12, PutNone, ClearsSegments DEF Drop, Crash, Gone, Idle, ManifestStep
<1> QED
  BY <1>1, <1>2, <1>3, <1>4, <1>5, <1>6, <1>7, <1>8, <1>9, <1>10, <1>11, <1>12
     DEF Next, Manager, Sync, TakeSnapshot, Compaction, Retention

\* The clock shows a number.
LEMMA ClockType ==
  ASSUME TypeOK, ticks \in Nat
  PROVE  now_ms \in Nat
  BY KeysAssumption DEF TypeOK, SqliteTypeOK, ManagerTypeOK, now_ms

\* There is a stamp for each segment.
LEMMA StampsStep ==
  ASSUME TypeOK, TypeOK', StepOK, StampsTypeOK, [Next]_vars, Stamp
  PROVE  StampsTypeOK'
<1>1. now_ms \in Nat
  BY ClockType DEF StampsTypeOK
<1>2. ManifestStep /\ ManifestPut
  BY ManifestsStep
<1>3. /\ manifest \in Seq(SegmentMeta) /\ newSegments \in Seq(SegmentMeta)
      /\ manifest' \in Seq(SegmentMeta) /\ newSegments' \in Seq(SegmentMeta)
  BY DEF TypeOK, ManagerTypeOK, CallTypeOK
<1>4. newStamps' \in Seq(Nat) /\ Len(newStamps') = Len(newSegments')
  <2>1. newStamps' = NextNewStamps
    BY DEF Stamp
  <2>2. CASE newSegments' \in {newSegments, <<>>}
    <3>1. Len(newSegments') \in 0..Len(newStamps) /\ ~(Len(newSegments') > Len(newSegments))
      BY <1>3, <2>2 DEF StampsTypeOK
    <3> QED
      BY <2>1, <3>1 DEF NextNewStamps, StampsTypeOK
  <2>3. ASSUME NEW s \in SegmentMeta, newSegments' = Append(newSegments, s)
        PROVE  newStamps' \in Seq(Nat) /\ Len(newStamps') = Len(newSegments')
    <3>1. Len(newSegments') = Len(newSegments) + 1
      BY <1>3, <2>3
    <3>2. newStamps' = Append(newStamps, now_ms)
      BY <1>3, <2>1, <3>1 DEF NextNewStamps
    <3> QED
      BY <1>1, <3>1, <3>2 DEF StampsTypeOK
  <2> QED
    BY <1>2, <2>2, <2>3 DEF ManifestStep
<1>5. segmentStamps' \in Seq(Nat) /\ Len(segmentStamps') = Len(manifest')
  <2>1. segmentStamps' = NextSegmentStamps
    BY DEF Stamp
  <2>2. CASE manifest' = manifest
    BY <2>1, <2>2 DEF NextSegmentStamps, StampsTypeOK
  <2>3. CASE manifest' # manifest /\ manifest' = <<>>
    BY <2>1, <2>3 DEF NextSegmentStamps, StampsTypeOK
  <2>4. CASE manifest' # manifest /\ manifest' # <<>>
    <3>1. segmentStamps' = IF step = "put_segment" THEN Append(segmentStamps, now_ms) ELSE newStamps'
      BY <2>1, <2>4 DEF NextSegmentStamps
    <3>2. ASSUME step = "put_segment", NEW s \in SegmentMeta, manifest' = Append(manifest, s)
          PROVE  segmentStamps' \in Seq(Nat) /\ Len(segmentStamps') = Len(manifest')
      <4>1. Len(manifest') = Len(manifest) + 1
        BY <1>3, <3>2
      <4> QED
        BY <1>1, <3>1, <3>2, <4>1 DEF StampsTypeOK
    <3>3. CASE step # "put_segment" /\ manifest' = newSegments'
      BY <1>4, <3>1, <3>3
    <3> QED
      BY <1>2, <2>4, <3>2, <3>3 DEF ManifestStep
  <2> QED
    BY <2>2, <2>3, <2>4
<1>6. snapshotStamp' \in Nat /\ ticks' \in Nat
  BY <1>1 DEF Stamp, StampsTypeOK
<1>7. DOMAIN published' = {g \in Generations : ManifestKey(g) \in DOMAIN bucket'}
  BY DEF Stamp, NextPublished
<1>8. ASSUME NEW g \in DOMAIN published' PROVE published'[g] \in Stamps
  <2>1. g \in Generations /\ ManifestKey(g) \in DOMAIN bucket'
    BY <1>7, <1>8
  <2>2. published'[g] = IF g = generation /\ ManifestLanded
                        THEN [snapshot |-> snapshotStamp, segments |-> segmentStamps]
                        ELSE published[g]
    BY <2>1 DEF Stamp, NextPublished
  <2>3. CASE g = generation /\ ManifestLanded
    BY <2>2, <2>3 DEF StampsTypeOK, Stamps
  <2>4. CASE ~(g = generation /\ ManifestLanded)
    <3>1. g \in DOMAIN published
      BY <1>2, <2>1, <2>4 DEF ManifestPut, Untouched, StampsTypeOK, Stored
    <3> QED
      BY <2>2, <2>4, <3>1 DEF StampsTypeOK
  <2> QED
    BY <2>3, <2>4
<1>9. (\A g \in DOMAIN published : published[g] \in Stamps)'
  BY <1>8
<1>10. (DOMAIN published = {g \in Generations : Stored(ManifestKey(g))})'
  BY <1>7 DEF Stored, ManifestKey
<1> QED
  BY <1>4, <1>5, <1>6, <1>9, <1>10 DEF StampsTypeOK

\* The segments up to a point in time are segments of the manifest.
LEMMA UpToType ==
  ASSUME TypeOK, NEW g, Stored(ManifestKey(g)), NEW time
  PROVE  SegmentsUpTo(g, time) \in Seq(Indexes)
<1>1. PICK m : m = bucket[ManifestKey(g)]
  OBVIOUS
<1>2. m \in Seq(SegmentMeta)
  BY <1>1 DEF Stored, TypeOK, BucketTypeOK, ObjectTypeOK, ManifestKey
<1>3. PICK parts : parts = [n \in DOMAIN m |->
                             IF published[g].segments[n] <= time THEN <<m[n].index>> ELSE <<>>]
  OBVIOUS
<1>4. ASSUME NEW n \in DOMAIN m PROVE parts[n] \in Seq(Indexes)
  <2>1. m[n].index \in Indexes
    <3>1. m[n] \in SegmentMeta
      BY <1>2, <1>4
    <3> QED
      BY <3>1 DEF SegmentMeta
  <2>2. <<m[n].index>> \in Seq(Indexes) /\ <<>> \in Seq(Indexes)
    BY <2>1
  <2> QED
    BY <1>3, <1>4, <2>2
<1>5. parts \in Seq(Seq(Indexes))
  <2>1. PICK P : P = Seq(Indexes)
    OBVIOUS
  <2>2. \A n \in DOMAIN m : parts[n] \in P
    BY <1>4, <2>1
  <2>3. Len(m) \in Nat /\ DOMAIN m = 1..Len(m)
    BY <1>2
  <2>4. parts \in [1..Len(m) -> P]
    BY <1>3, <2>2, <2>3
  <2>5. parts \in Seq(P)
    BY <2>3, <2>4
  <2> QED
    BY <2>1, <2>5
<1>6. FlattenSeq(parts) \in Seq(Indexes)
  BY <1>5, FlattenType
<1> QED
  BY <1>1, <1>3, <1>6 DEF SegmentsUpTo

\* So are those of a manifest or a listing.
LEMMA IndexesType ==
  ASSUME TypeOK, NEW g
  PROVE  SegmentIndexes(g) \in Seq(Indexes) /\ StoredIndexes(g) \in Seq(Indexes)
<1>1. StoredIndexes(g) \in Seq(Indexes)
  <2>1. PICK S : S = {i \in Indexes : Stored(WalKey(g, i))}
    OBVIOUS
  <2>2. StoredIndexes(g) \in Seq(S) /\ S \subseteq Indexes
    BY <2>1, ListedIndexes
  <2> QED
    BY <2>2
<1>2. ASSUME Stored(ManifestKey(g)) PROVE SegmentIndexes(g) \in Seq(Indexes)
  <2>1. PICK m : m = bucket[ManifestKey(g)]
    OBVIOUS
  <2>2. m \in Seq(SegmentMeta)
    BY <1>2, <2>1 DEF Stored, TypeOK, BucketTypeOK, ObjectTypeOK, ManifestKey
  <2>3. \A n \in DOMAIN m : m[n].index \in Indexes
    <3>1. \A n \in DOMAIN m : m[n] \in SegmentMeta
      BY <2>2
    <3> QED
      BY <3>1 DEF SegmentMeta
  <2>4. [n \in DOMAIN m |-> m[n].index] \in Seq(Indexes)
    BY <2>2, <2>3
  <2> QED
    BY <1>2, <2>1, <2>4 DEF SegmentIndexes
<1> QED
  BY <1>1, <1>2 DEF SegmentIndexes

\* The types of what a restore keeps between two downloads.
FetchTypeOK ==
  /\ rstep \in Ready \cup Downloading \cup {"opened"}
  /\ restoring \in 0..MaxGenerations /\ unread \subseteq Generations
  /\ segments \in Seq(Indexes)
  /\ found \in [gen : 0..MaxGenerations, snapshot : Nat, indexes : Seq(Indexes)]
  /\ missed \in BOOLEAN

\* The lists a restore reads.
LEMMA FetchStep ==
  ASSUME TypeOK, StampsTypeOK, FetchTypeOK, Restoring
  PROVE  FetchTypeOK'
<1> USE DEF FetchTypeOK
<1>1. 0 \in 0..MaxGenerations /\ Generations \subseteq 0..MaxGenerations /\ <<>> \in Seq(Indexes)
  BY KeysAssumption DEF Generations
<1>2. NoManifest \in [gen : 0..MaxGenerations, snapshot : Nat, indexes : Seq(Indexes)]
  BY <1>1 DEF NoManifest
<1>3. ClearFetching => /\ restoring' \in 0..MaxGenerations /\ unread' \subseteq Generations
                       /\ segments' \in Seq(Indexes)
                       /\ found' \in [gen : 0..MaxGenerations, snapshot : Nat, indexes : Seq(Indexes)]
  BY <1>1, <1>2 DEF ClearFetching
<1>15. CASE Ends
  BY <1>3, <1>15 DEF Ends, Ready
<1>4. CASE Failed
  BY <1>4, <1>15 DEF Failed
<1>5. CASE BeginRestore \/ BeginRestoreToTime \/ AutoRestore
  BY <1>3, <1>5 DEF BeginRestore, BeginRestoreToTime, AutoRestore, Begin, Downloading, PointInTime
<1>6. CASE AutoRestoreSkipped \/ ReplayWal
  BY <1>3, <1>6 DEF AutoRestoreSkipped, ReplayWal, Goes, Ready, fetching
<1>7. CASE GetLatest
  <2>1. Stored(LatestKey) => bucket[LatestKey] \in Generations
    BY DEF TypeOK, BucketTypeOK, ObjectTypeOK, Stored, LatestKey
  <2> QED
    BY <1>1, <1>4, <1>7, <2>1 DEF GetLatest, GetFailed, Goes, Downloading
<1>8. CASE GetSnapshot
  BY <1>4, <1>8 DEF GetSnapshot, GetFailed, Goes, Downloading, fetching
<1>9. CASE GetManifest
  BY <1>9, IndexesType DEF GetManifest, Goes, Listed, Downloading, fetching
<1>10. CASE ListWal
  <2>1. PICK indexes \in {StoredIndexes(restoring)} \cup {<<>>} :
          /\ rstep' \in {"replay", "get_segment"} /\ Listed(indexes)
          /\ missed' = (missed \/ indexes # StoredIndexes(restoring))
    BY <1>10 DEF ListWal, Goes
  <2>2. indexes \in Seq(Indexes)
    BY <1>1, <2>1, IndexesType
  <2> QED
    BY <2>1, <2>2 DEF Listed, Downloading
<1>11. CASE GetSegment
  <2>1. CASE WritesSegment /\ UNCHANGED <<unread, missed>>
    <3>1. segments' \in Seq(Indexes)
      <4>1. CASE segments = <<>>
        BY <2>1, <4>1 DEF WritesSegment
      <4>2. CASE segments # <<>>
        BY <2>1, <4>2 DEF WritesSegment
      <4> QED
        BY <4>1, <4>2
    <3> QED
      BY <2>1, <3>1 DEF WritesSegment, Downloading
  <2> QED
    BY <1>4, <1>11, <2>1 DEF GetSegment, GetFailed, Goes, SegmentKey, Concatenated, WritesSegment
<1>12. CASE ListManifests
  <2>1. DOMAIN published \subseteq Generations
    BY DEF StampsTypeOK
  <2>2. missed' \in BOOLEAN
    BY <1>12 DEF ListManifests, Failed, Ends
  <2> QED
    BY <1>4, <1>12, <2>1, <2>2 DEF ListManifests, Goes, Downloading, PointInTime
<1>13. CASE ReadManifest
  <2>1. PICK g \in unread :
          /\ unread' = unread \ {g} /\ rstep' = "read_manifest"
          /\ UNCHANGED <<restoring, segments>>
          /\ \/ /\ g \in DOMAIN published
                /\ found' = IF Better(g, moment.time)
                            THEN [gen |-> g, snapshot |-> published[g].snapshot,
                                  indexes |-> SegmentsUpTo(g, moment.time)]
                            ELSE found
                /\ missed' = (missed \/ (g = moment.gen /\ moment.compacted))
             \/ missed' = (missed \/ g = moment.gen) /\ UNCHANGED found
    BY <1>13 DEF ReadManifest, Goes
  <2>2. ASSUME g \in DOMAIN published
        PROVE  [gen |-> g, snapshot |-> published[g].snapshot,
                indexes |-> SegmentsUpTo(g, moment.time)]
               \in [gen : 0..MaxGenerations, snapshot : Nat, indexes : Seq(Indexes)]
    <3>1. g \in Generations /\ Stored(ManifestKey(g)) /\ published[g].snapshot \in Nat
      BY <2>2 DEF StampsTypeOK, Stamps
    <3>2. SegmentsUpTo(g, moment.time) \in Seq(Indexes)
      BY <3>1, UpToType
    <3> QED
      BY <1>1, <3>1, <3>2
  <2>3. found' \in [gen : 0..MaxGenerations, snapshot : Nat, indexes : Seq(Indexes)]
    BY <2>1, <2>2
  <2>4. missed' \in BOOLEAN
    BY <2>1
  <2> QED
    BY <2>1, <2>3, <2>4 DEF Downloading, PointInTime
<1>14. CASE ChooseGeneration
  BY <1>4, <1>14 DEF ChooseGeneration, Goes, Downloading
<1> QED
  BY <1>4, <1>5, <1>6, <1>7, <1>8, <1>9, <1>10, <1>11, <1>12, <1>13, <1>14, <1>15
     DEF Restoring, Interrupted, SnapshotCutShort, WalCutShort, CutShort

\* The point in time and what restores may give: transactions that have committed.
MomentTypeOK ==
  /\ moment \in [gen : 0..MaxGenerations, time : Nat, commits : Nat,
                  restorable : SUBSET (1..MaxCommits), compacted : BOOLEAN]
  /\ couldGive \subseteq SUBSET (1..MaxCommits)

\* What is remembered of the moments.
LEMMA MomentStep ==
  ASSUME TypeOK, StampsTypeOK, MomentTypeOK, PagesWithin, PagesWithin', Within, Within',
         commits \in Nat, commits' \in Nat, [RestoreNext]_allVars
  PROVE  MomentTypeOK'
<1> USE DEF MomentTypeOK
<1>1. /\ Instantaneous \subseteq SUBSET (1..MaxCommits)
      /\ Instantaneous' \subseteq SUBSET (1..MaxCommits)
  <2>1. 1..commits \subseteq 1..MaxCommits /\ 1..(commits') \subseteq 1..MaxCommits
    BY BoundsAssumption DEF PagesWithin
  <2> QED
    BY <2>1 DEF Within
<1>2. CASE Beside
  <2>1. couldGive' \subseteq SUBSET (1..MaxCommits)
    BY <1>1, <1>2 DEF Beside, Witness
  <2>2. moment' = [moment EXCEPT !.compacted = moment'.compacted] /\ moment'.compacted \in BOOLEAN
    BY <1>2 DEF Beside, Witness
  <2> QED
    BY <2>1, <2>2
<1>3. CASE Remember
  <2>1. PICK restorable \in Instantaneous :
          moment' = [gen |-> bucket[LatestKey], time |-> now_ms, commits |-> commits,
                     restorable |-> restorable, compacted |-> FALSE]
    BY <1>3 DEF Remember
  <2>2. Stored(LatestKey)
    BY <2>1 DEF Instantaneous
  <2>3. bucket[LatestKey] \in Generations
    BY <2>2 DEF TypeOK, BucketTypeOK, ObjectTypeOK, Stored, LatestKey
  <2>4. now_ms \in Nat /\ bucket[LatestKey] \in 0..MaxGenerations
    BY <2>3, ClockType, KeysAssumption DEF StampsTypeOK, Generations
  <2>5. restorable \in SUBSET (1..MaxCommits)
    BY <1>1, <2>1
  <2> QED
    BY <1>3, <2>1, <2>4, <2>5 DEF Remember
<1>4. CASE UNCHANGED allVars
  BY <1>4 DEF allVars, restoreVars
<1>5. CASE Restoring
  <2>1. UNCHANGED moment /\ (couldGive' \in {couldGive, {}, Instantaneous})
    BY <1>5
       DEF Restoring, BeginRestore, BeginRestoreToTime, AutoRestore, AutoRestoreSkipped, MayCall, Begin,
         Interrupted, SnapshotCutShort, WalCutShort, CutShort, Ends, Failed, GetLatest,
         GetSnapshot, GetManifest, ListWal, GetSegment,
         ReplayWal, ListManifests, ReadManifest, ChooseGeneration, Goes, GetFailed
  <2> QED
    BY <1>1, <2>1
<1> QED
  BY <1>2, <1>3, <1>4, <1>5 DEF RestoreNext

\* The stamps are those of the manifests, also beside restores.
LEMMA AlwaysStamped ==
  RestoreSpec => []StampsTypeOK
<1>1. RestoreInit => StampsTypeOK
  <2> SUFFICES ASSUME RestoreInit
               PROVE  StampsTypeOK
    OBVIOUS
  <2>1. /\ ticks = 0 /\ snapshotStamp = 0 /\ segmentStamps = <<>> /\ newStamps = <<>>
        /\ DOMAIN published = {} /\ manifest = <<>> /\ newSegments = <<>> /\ DOMAIN bucket = {}
    BY DEF RestoreInit, StampsInit, Init
  <2> QED
    BY <2>1 DEF StampsTypeOK, Stored
<1>2. TypeOK /\ TypeOK' /\ StepOK /\ StampsTypeOK /\ [RestoreNext]_allVars => StampsTypeOK'
  <2> SUFFICES ASSUME TypeOK, TypeOK', StepOK, StampsTypeOK, [RestoreNext]_allVars
               PROVE  StampsTypeOK'
    OBVIOUS
  <2>1. CASE Beside
    BY <2>1, RestoringReads, StampsStep DEF Beside
  <2>2. CASE UNCHANGED managerVars \/ UNCHANGED allVars
    BY <2>2 DEF allVars, managerVars, vars, tracking, call, locals, compactLocals, stampVars,
                StampsTypeOK, Stored
  <2>3. CASE Remember
    BY <2>3 DEF Remember, vars, tracking, call, locals, compactLocals, StampsTypeOK, Stored
  <2> QED
    BY <2>1, <2>2, <2>3, RestoreSteps
<1> QED
  BY <1>1, <1>2, AlwaysFiles, PTL DEF RestoreSpec

\* Beside any manager, whatever fails: each call of restore keeps to its steps, the
\* stamps to their segments, and nothing is restored that was not committed.
THEOREM RestoreTypeCorrect == RestoreSpec => []RestoreTypeOK
<1> DEFINE Kept == TypeOK /\ StepOK /\ FilesOK /\ PagesWithin /\ Within /\ StampsTypeOK
           Rest == FetchTypeOK /\ MomentTypeOK
<1>1. RestoreInit => Rest
  <2> SUFFICES ASSUME RestoreInit
               PROVE  Rest
    OBVIOUS
  <2>1. /\ rstep = "idle" /\ restoring = 0 /\ unread = {} /\ segments = <<>> /\ found = NoManifest
        /\ missed = FALSE /\ moment = NoMoment /\ couldGive = {}
    BY DEF RestoreInit
  <2>2. 0 \in 0..MaxGenerations /\ <<>> \in Seq(Indexes)
    BY KeysAssumption
  <2> QED
    BY <2>1, <2>2 DEF FetchTypeOK, MomentTypeOK, Ready, NoManifest, NoMoment
<1>2. Kept /\ Kept' /\ Rest /\ [RestoreNext]_allVars => Rest'
  <2> SUFFICES ASSUME Kept, Kept', Rest, [RestoreNext]_allVars
               PROVE  Rest'
    OBVIOUS
  <2>1. MomentTypeOK'
    BY MomentStep DEF TypeOK, SqliteTypeOK
  <2>2. CASE Restoring
    BY <2>1, <2>2, FetchStep
  <2>3. CASE Beside \/ Remember \/ UNCHANGED allVars
    <3>1. UNCHANGED <<rstep, restoring, segments, unread, found, missed>>
      BY <2>3 DEF Beside, Witness, Remember, allVars, restoreVars, fetching
    <3> QED
      BY <2>1, <3>1 DEF FetchTypeOK
  <2> QED
    BY <2>2, <2>3, RestoreSteps
<1>3. Kept /\ Rest => RestoreTypeOK
  <2> SUFFICES ASSUME Kept, Rest
               PROVE  RestoreTypeOK
    OBVIOUS
  <2>1. target \in [by : 0..MaxRestores, pages : SUBSET (1..MaxCommits)]
    <3>1. 1..commits \subseteq 1..MaxCommits
      BY BoundsAssumption DEF PagesWithin, TypeOK, SqliteTypeOK
    <3> QED
      BY <3>1 DEF PagesWithin
  <2> QED
    BY <2>1 DEF RestoreTypeOK, FilesOK, FetchTypeOK, MomentTypeOK
<1> HIDE DEF Kept, Rest
<1>4. RestoreSpec => []Kept
  BY AlwaysFiles, AlwaysStamped, PTL DEF Kept
<1> QED
  BY <1>1, <1>2, <1>3, <1>4, PTL DEF RestoreSpec

-----------------------------------------------------------------------------
(* What is handed over: the segments a restore downloads suit the snapshot  *)
(* it has downloaded before, whatever the manager has done in between.      *)

\* No checkpoint is ever busy: nobody reads for long, transactions write their
\* frames when they commit, and only the manager checkpoints.
NeverBusy == Env \cap {"reader", "ext_checkpoint", "multi_frame"} = {}

\* The pages are those of the database when the WAL began of which w holds blocks.
Fits(w, pages) == \A b \in Blocks(w) : b.prev = 0 => pages = 1..b.tx

\* Whether w may be replayed on the pages, and v after it.  Compaction cuts a
\* segment anywhere: a piece of it suits the snapshot only if all of it began there.
Suits(w, pages) == IF NeverBusy THEN Fits(w, pages) ELSE Given(w, pages)

\* Nothing suits every database.
LEMMA SuitsNothing ==
  ASSUME NEW pages
  PROVE  Suits(<<>>, pages)
  BY DEF Suits, Fits, Given, Blocks

\* What suits a database goes on with what suits it.
LEMMA SuitsLonger ==
  ASSUME NEW w \in Seq(Block), NEW v \in Seq(Block), NEW pages, Suits(w, pages), Suits(v, pages)
  PROVE  Suits(w \o v, pages)
<1>1. CASE NeverBusy
  <2>1. PICK u : u = w \o v
    OBVIOUS
  <2>2. Blocks(u) \subseteq Blocks(w) \cup Blocks(v)
    BY <2>1, JoinKnown
  <2> QED
    BY <1>1, <2>1, <2>2 DEF Suits, Fits
<1>2. CASE ~NeverBusy
  <2>1. CASE w = <<>>
    BY <2>1
  <2>2. CASE w # <<>>
    <3>1. Complete(w, pages)
      BY <1>2, <2>2 DEF Suits, Given
    <3>2. Starts(w \o v, w, Block) /\ w \o v \in Seq(Block)
      BY StartsItself, StartsLonger
    <3>3. PICK u : u = w \o v
      OBVIOUS
    <3>4. Complete(u, pages)
      BY <2>2, <3>1, <3>2, <3>3, CompleteLonger
    <3> QED
      BY <1>2, <3>3, <3>4 DEF Suits, Given
  <2> QED
    BY <2>1, <2>2
<1> QED
  BY <1>1, <1>2

\* What suits the database after some transaction gives that after another.
LEMMA SuitsReplay ==
  ASSUME NEW c \in Nat, NEW w \in Seq(Block), Linked(w, c), NEW k \in 0..c, Suits(w, 1..k)
  PROVE  \E n \in 0..c : /\ (1..k) \cup Replay(w) = 1..n
                         /\ Replay(w) # {} => n \in Replay(w)
<1>1. w = <<>> \/ Complete(w, 1..k)
  <2>1. CASE ~NeverBusy
    BY <2>1 DEF Suits, Given
  <2>2. CASE NeverBusy /\ w # <<>>
    <3>1. w[1] \in Blocks(w)
      BY <2>2 DEF Blocks
    <3>2. w[1].prev = 0 => 1..k = 1..w[1].tx
      BY <2>2, <3>1 DEF Suits, Fits
    <3> QED
      BY <3>2 DEF Complete
  <2> QED
    BY <2>1, <2>2
<1> QED
  BY <1>1, CompleteReplay

\* The database file while no checkpoint is busy: it does not change until the
\* manager truncates the WAL.
QuietWal ==
  /\ nBackfill = 0 /\ spilled = 0
  /\ wal # <<>> => db = 1..wal[1].tx
  /\ readMark["reader"] = NoRead
  /\ step = "wal_checkpoint" => readMark["waloy"] = NoRead

\* A checkpoint that nobody keeps busy copies all of the WAL.
LEMMA QuietWalNext ==
  ASSUME NeverBusy, TypeOK, SqliteOK, QuietWal, [Next]_vars
  PROVE  QuietWal'
<1>1. SqliteTypeOK
  BY DEF TypeOK
<1>2. CASE AppStep
  <2>1. /\ "reader" \notin Env /\ "ext_checkpoint" \notin Env /\ "multi_frame" \notin Env
        /\ UNCHANGED step
    BY <1>2 DEF NeverBusy, AppStep, call
  <2>2. ASSUME NEW c \in BOOLEAN, AppAppend(c) PROVE QuietWal'
    <3>1. PICK p : p = SubSeq(wal, 1, mxFrame + spilled)
      OBVIOUS
    <3>2. WriteFrame(p, mxFrame, nBackfill, lastId + 1, c) /\ mxFrame + spilled > 0
      BY <2>2, <3>1 DEF AppAppend
    <3>3. p \in Seq(Block) /\ p # <<>> /\ p[1] = wal[1] /\ wal # <<>>
      BY <1>1, <3>1, <3>2 DEF SqliteTypeOK
    <3>4. wal' # <<>> /\ wal'[1] = wal[1]
      BY <1>1, <3>2, <3>3, WriteFrameHeader
    <3>5. nBackfill' = 0 /\ spilled' = 0 /\ UNCHANGED <<db, readMark>>
      BY <2>1, <3>2 DEF WriteFrame, QuietWal
    <3> QED
      BY <2>1, <3>3, <3>4, <3>5 DEF QuietWal
  <2>3. ASSUME NEW c \in BOOLEAN, AppRestartWal(c) PROVE QuietWal'
    <3>1. PICK h : h = [id |-> lastId + 1, prev |-> 0, tx |-> commits, commit |-> TRUE]
      OBVIOUS
    <3>2. WriteFrame(<<h>>, 0, 0, lastId + 2, c)
      BY <2>3, <3>1 DEF AppRestartWal
    <3>3. <<h>> \in Seq(Block) /\ <<h>> # <<>> /\ <<h>>[1] = h
      BY <1>1, <3>1 DEF SqliteTypeOK, Block
    <3>4. wal' # <<>> /\ wal'[1] = h
      BY <1>1, <3>2, <3>3, WriteFrameHeader
    <3>5. db = 1..commits
      BY <2>3, BackfilledAll DEF AppRestartWal, TypeOK
    <3>6. nBackfill' = 0 /\ spilled' = 0 /\ UNCHANGED <<db, readMark>>
      BY <2>1, <3>2 DEF WriteFrame
    <3> QED
      BY <2>1, <3>1, <3>4, <3>5, <3>6 DEF QuietWal
  <2>4. ASSUME NEW c \in BOOLEAN, AppRewriteHeader(c) PROVE QuietWal'
    <3>1. WriteFrame(<<wal[1]>>, 0, 0, lastId + 1, c) /\ wal # <<>>
      BY <2>4 DEF AppRewriteHeader
    <3>2. <<wal[1]>> \in Seq(Block) /\ <<wal[1]>> # <<>> /\ <<wal[1]>>[1] = wal[1]
      BY <1>1, <3>1 DEF SqliteTypeOK
    <3>3. wal' # <<>> /\ wal'[1] = wal[1]
      BY <1>1, <3>1, <3>2, WriteFrameHeader
    <3>4. nBackfill' = 0 /\ spilled' = 0 /\ UNCHANGED <<db, readMark>>
      BY <2>1, <3>1 DEF WriteFrame
    <3> QED
      BY <2>1, <3>1, <3>3, <3>4 DEF QuietWal
  <2>5. CASE AppRollback \/ AppReadBegin \/ AppReadEnd \/ \E t \in BOOLEAN : AppCheckpoint(t)
    BY <1>1, <2>1, <2>5
       DEF AppRollback, AppReadBegin, AppReadEnd, AppCheckpoint, QuietWal, SqliteTypeOK
  <2> QED
    BY <1>2, <2>2, <2>3, <2>4, <2>5 DEF AppStep, App
<1>3. CASE CheckpointWal /\ WalCheckpoint(TRUE) /\ UNCHANGED readMark /\ step' = "read_db"
  <2>1. readMark["waloy"] = NoRead /\ readMark["reader"] = NoRead
    BY <1>3 DEF CheckpointWal, QuietWal
  <2>2. Backfillable = mxFrame
    BY <1>1, <2>1 DEF Backfillable, UpTo, NoRead, Connections, QuietWal, SqliteTypeOK
  <2>3. wal' = <<>> /\ nBackfill' = 0 /\ spilled' = 0
    BY <1>3, <2>1, <2>2 DEF WalCheckpoint, NoRead, Connections, QuietWal
  <2> QED
    BY <1>3, <2>1, <2>3 DEF QuietWal
<1>4. CASE UNCHANGED sqliteFiles /\ (MarksLeft \/ UNCHANGED <<readMark, step>>)
  BY <1>4 DEF sqliteFiles, MarksLeft, QuietWal
<1>5. CASE Crash
  <2>1. /\ spilled' = 0 /\ nBackfill' = 0 /\ step' = "idle"
        /\ readMark'["reader"] = NoRead /\ UNCHANGED <<wal, db>>
    BY <1>5 DEF Crash, SqliteCrash, Gone, Idle, Connections
  <2> QED
    BY <2>1 DEF QuietWal
<1> QED
  BY <1>2, <1>3, <1>4, <1>5, MarksStep

\* Every segment suits the snapshot of its generation, and so does what a call
\* has in memory to make one of.
Owned(s) == \A n \in DOMAIN s : s[n][1] = "wal" /\ s[n][2] = generation
DataSuits ==
  /\ step \in {"put_segment", "compact_get", "compact_put"} => Suits(data, db)
  /\ step = "compact_get" => Owned(todo)
SegmentsSuit ==
  \A k \in DOMAIN bucket : k[1] = "wal" =>
    /\ k[2] = generation => Suits(bucket[k], db)
    /\ Stored(SnapshotKey(k[2])) => Suits(bucket[k], bucket[SnapshotKey(k[2])])
\* A segment that is stored by a step suits the database file.
SegmentPut ==
  \A x \in DOMAIN bucket' : x[1] = "wal" =>
    Untouched(x) \/ (x[2] = generation /\ Suits(bucket'[x], db))

\* What step a manager takes to hold blocks in memory.
DataStep ==
  step' \in {"put_segment", "compact_get", "compact_put"} =>
    \/ UNCHANGED <<step, data, generation, todo>>
    \/ step' = "put_segment" /\ data' = NewFrames /\ ~NothingNew /\ UNCHANGED generation
    \/ step' = "compact_get" /\ data' = <<>> /\ UNCHANGED generation /\ Owned(todo')
    \/ /\ step = "compact_get" /\ step' \in {"compact_get", "compact_put"} /\ UNCHANGED generation
       /\ todo' = Tail(todo) /\ Stored(Head(todo)) /\ data' = data \o bucket[Head(todo)]

\* What sync_wal is about to upload, and what compact has downloaded.
LEMMA DataSteps ==
  ASSUME [Next]_vars
  PROVE  DataStep
<1>1. CASE AppStep \/ UNCHANGED vars
  BY <1>1 DEF AppStep, vars, tracking, call, locals, syncLocals, compactLocals, DataStep
<1>2. CASE New \/ CheckpointWal \/ Snapshot
  BY <1>2 DEF New, CheckpointWal, Snapshot, EnterSnapshot, Idle, DataStep
<1>3. ASSUME NEW c, SyncWal(c) PROVE DataStep
  <2>1. CASE \E o : SyncReturn(c, o, readMark["waloy"])
    BY <2>1, SyncReturnStep DEF DataStep
  <2>2. CASE Recover(c)
    BY <2>2 DEF Recover, EnterSnapshot, DataStep
  <2>3. CASE step' = "put_segment" /\ data' = NewFrames /\ ~NothingNew /\ UNCHANGED generation
    BY <2>3 DEF DataStep
  <2> QED
    BY <1>3, <2>1, <2>2, <2>3 DEF SyncWal, ReadNewFrames
<1>4. ASSUME NEW o, PutSegment(o) \/ PutSegmentManifest(o) PROVE DataStep
  BY <1>4, SyncReturnStep DEF PutSegment, PutSegmentManifest, DataStep
<1>5. ASSUME NEW o, ReadDb(o) \/ PutSnapshot(o) \/ PutLatest(o) \/ PutSnapshotManifest(o)
      PROVE  DataStep
  BY <1>5, SnapshotReturnAny DEF ReadDb, PutSnapshot, PutLatest, PutSnapshotManifest, DataStep
<1>6. ASSUME NEW size, Compact(size) PROVE DataStep
  <2>1. Owned(todo')
    BY <1>6 DEF Compact, Owned, WalKey
  <2> QED
    BY <1>6, <2>1 DEF Compact, tracking, DataStep
<1>7. CASE CompactGet
  BY <1>7 DEF CompactGet, tracking, Idle, DataStep, Stored
<1>8. ASSUME NEW o, CompactPut(o) PROVE DataStep
  BY <1>8 DEF CompactPut, Idle, syncLocals, DataStep
<1>9. ASSUME NEW o, CompactManifest(o) \/ CompactDelete(o) PROVE DataStep
  BY <1>9 DEF CompactManifest, CompactDelete, Idle, DataStep
<1>10. CASE Retention
  BY <1>10 DEF Retention, EnforceRetention, RetentionNext, RetentionDelete, Idle, DataStep
<1>11. CASE Drop \/ Crash
  BY <1>11 DEF Drop, Crash, Gone, Idle, DataStep
<1> QED
  BY <1>1, <1>2, <1>3, <1>4, <1>5, <1>6, <1>7, <1>8, <1>9, <1>10, <1>11
     DEF Next, Manager, Sync, TakeSnapshot, Compaction

\* Only the chunks of a compaction are not put as they were read.
LEMMA ChunkPut ==
  ASSUME TypeOK, StepOK, [Next]_vars, step = "compact_put",
         NEW x \in DOMAIN bucket', x[1] = "wal", ~Untouched(x)
  PROVE  x[2] = generation /\ Blocks(bucket'[x]) \subseteq Blocks(data)
<1>1. x[2] = generation
  BY ObjectsStep DEF ObjectStep, Put, SnapshotKey, WalKey
<1>2. ASSUME NEW o, CompactPut(o) PROVE Blocks(bucket'[x]) \subseteq Blocks(data)
  <2>1. bucket'[x] = SubSeq(data, CompactOffset + 1, CompactEnd)
    BY <1>2 DEF CompactPut, PutObject, Untouched
  <2>2. data \in Seq(Block) /\ newSegments \in Seq(SegmentMeta) /\ maxSize \in Nat
    BY DEF TypeOK, CallTypeOK
  <2>3. CompactOffset \in Nat
    <3>1. newSegments # <<>> => newSegments[Len(newSegments)] \in SegmentMeta
      BY <2>2
    <3> QED
      BY <3>1 DEF CompactOffset, SegmentMeta
  <2>4. CompactEnd \in Nat /\ CompactEnd <= Len(data)
    BY <2>2, <2>3 DEF CompactEnd
  <2>5. CompactOffset + 1 \in Nat /\ CompactOffset + 1 >= 1
    BY <2>3
  <2>6. Blocks(SubSeq(data, CompactOffset + 1, CompactEnd)) \subseteq Blocks(data)
    BY <2>2, <2>4, <2>5, CutKnown
  <2> QED
    BY <2>1, <2>6
<1>3. CASE UNCHANGED bucket
  BY <1>3 DEF Untouched
<1>4. (\E o \in Outcomes : CompactPut(o)) \/ UNCHANGED bucket
  BY DEF Next, AppStep, Manager, Sync, TakeSnapshot, Compaction, Retention, New, SyncWal, PutSegment,
         PutSegmentManifest, CheckpointWal, Snapshot, ReadDb, PutSnapshot, PutLatest,
         PutSnapshotManifest, Compact, Call, CompactGet, CompactManifest, CompactDelete,
         EnforceRetention, RetentionNext, RetentionDelete, Drop, Crash, vars
<1> QED
  BY <1>1, <1>2, <1>3, <1>4

\* What sync_wal reads suits the database file.
LEMMA FramesSuit ==
  ASSUME TypeOK, SqliteOK, NeverBusy => QuietWal, ~NothingNew
  PROVE  Suits(NewFrames, db)
<1>1. CASE NeverBusy
  <2>1. Blocks(NewFrames) \subseteq Blocks(wal)
    <3>1. wal \in Seq(Block) /\ wal_offset \in Nat
      BY DEF TypeOK, SqliteTypeOK, ManagerTypeOK
    <3>2. wal_offset + 1 \in Nat /\ wal_offset + 1 >= 1 /\ Len(wal) \in Nat /\ Len(wal) <= Len(wal)
      BY <3>1
    <3> QED
      BY <3>1, <3>2, CutKnown DEF NewFrames
  <2>2. ASSUME NEW b \in Blocks(wal), b.prev = 0 PROVE db = 1..b.tx
    <3>1. PICK i \in DOMAIN wal : b = wal[i]
      BY DEF Blocks
    <3>2. i = 1 /\ wal # <<>>
      BY <2>2, <3>1 DEF SqliteOK, WalOK, TypeOK, SqliteTypeOK
    <3> QED
      BY <1>1, <3>1, <3>2 DEF QuietWal
  <2> QED
    BY <1>1, <2>1, <2>2 DEF Suits, Fits
<1>2. CASE ~NeverBusy
  BY <1>2, FramesComplete DEF Suits, Given, TypeOK, ManagerTypeOK
<1> QED
  BY <1>1, <1>2

\* What a call has in memory goes on suiting the database file, which changes
\* with the generation only.
LEMMA DataSuitsNext ==
  ASSUME TypeOK, StepOK, SqliteOK, NeverBusy => QuietWal, DbStep, SegmentsSuit, DataSuits, DataStep,
         generation' = generation + 1 => generation' # generation
  PROVE  DataSuits'
<1> SUFFICES ASSUME step' \in {"put_segment", "compact_get", "compact_put"}
             PROVE  Suits(data', db') /\ (step' = "compact_get" => Owned(todo)')
  BY DEF DataSuits, Suits, Fits, Given, Complete, NeverBusy, Blocks
<1>1. generation' = generation /\ db' = db
  BY DEF DataStep, DbStep
<1>2. CASE UNCHANGED <<step, data, generation, todo>>
  BY <1>1, <1>2 DEF DataSuits, Owned
<1>3. CASE step' = "put_segment" /\ data' = NewFrames /\ ~NothingNew
  BY <1>1, <1>3, FramesSuit
<1>4. CASE step' = "compact_get" /\ data' = <<>> /\ Owned(todo')
  BY <1>1, <1>4, SuitsNothing DEF Owned
<1>5. CASE /\ step = "compact_get" /\ todo' = Tail(todo)
           /\ Stored(Head(todo)) /\ data' = data \o bucket[Head(todo)]
  <2>1. todo \in Seq(WalKeys) /\ todo # <<>> /\ Owned(todo) /\ Suits(data, db)
    BY <1>5 DEF DataSuits, TypeOK, CallTypeOK, StepOK
  <2>2. PICK k : k = Head(todo)
    OBVIOUS
  <2>3. k[1] = "wal" /\ k[2] = generation
    <3>1. 1 \in DOMAIN todo /\ k = todo[1]
      BY <2>1, <2>2
    <3> QED
      BY <2>1, <3>1 DEF Owned
  <2>4. k \in DOMAIN bucket /\ data' = data \o bucket[k]
    BY <1>5, <2>2 DEF Stored
  <2>5. Suits(bucket[k], db)
    BY <2>3, <2>4 DEF SegmentsSuit
  <2>6. data \in Seq(Block) /\ bucket[k] \in Seq(Block)
    BY <2>3, <2>4 DEF TypeOK, CallTypeOK, BucketTypeOK, ObjectTypeOK
  <2>7. Suits(data', db)
    BY <2>1, <2>4, <2>5, <2>6, SuitsLonger
  <2>8. Owned(todo')
    <3>1. \A n \in DOMAIN Tail(todo) : n + 1 \in DOMAIN todo /\ Tail(todo)[n] = todo[n + 1]
      BY <2>1
    <3> QED
      BY <1>5, <2>1, <3>1 DEF Owned
  <2> QED
    BY <1>1, <2>7, <2>8 DEF Owned
<1> QED
  BY <1>2, <1>3, <1>4, <1>5 DEF DataStep

\* Both sync_wal and compact store what suits the database file.
LEMMA SegmentPuts ==
  ASSUME NeverBusy \/ Uncompacted, TypeOK, StepOK, DataSuits, [Next]_vars
  PROVE  SegmentPut
<1>1. ObjectStep
  BY ObjectsStep
<1>2. ASSUME NEW x \in DOMAIN bucket', x[1] = "wal", ~Untouched(x)
      PROVE  x[2] = generation /\ Suits(bucket'[x], db)
  <2>1. CASE step = "put_segment" /\ bucket'[x] = data /\ x = WalKey(generation, wal_index)
    BY <2>1 DEF DataSuits, WalKey
  <2>2. CASE step = "compact_put"
    <3>1. NeverBusy
      BY <2>2 DEF Uncompacted
    <3>2. x[2] = generation /\ Blocks(bucket'[x]) \subseteq Blocks(data)
      BY <1>2, <2>2, ChunkPut
    <3>3. Fits(data, db)
      BY <2>2, <3>1 DEF DataSuits, Suits
    <3> QED
      BY <3>1, <3>2, <3>3 DEF Suits, Fits
  <2> QED
    BY <1>1, <1>2, <2>1, <2>2 DEF ObjectStep, Put, SnapshotKey
<1> QED
  BY <1>2 DEF SegmentPut

\* Every segment goes on suiting the snapshot of its generation.
LEMMA SegmentsSuitNext ==
  ASSUME Undisturbed, NeverBusy \/ Uncompacted, TypeOK, StepOK, HInv, PagesOK, DataSuits,
         SegmentsSuit, [Next]_vars
  PROVE  SegmentsSuit'
<1>1. ObjectStep /\ GenerationStep /\ DbStep /\ PagesOK' /\ SegmentPut
  BY ObjectsStep, DatabaseKept, PagesNext, SegmentPuts
<1>2. generation \in Nat /\ generation' \in Nat /\ generation + 1 # generation /\ ~(generation + 1 <= generation)
  BY <1>1, KeysAssumption DEF TypeOK, ManagerTypeOK, GenerationStep
<1>3. ASSUME NEW x \in DOMAIN bucket', x[1] = "wal"
      PROVE  /\ x[2] = generation' => Suits(bucket'[x], db')
             /\ SnapshotKey(x[2]) \in DOMAIN bucket' => Suits(bucket'[x], bucket'[SnapshotKey(x[2])])
  <2>1. ASSUME x[2] = generation' PROVE Suits(bucket'[x], db')
    <3>1. CASE generation' = generation
      <4>1. db' = db
        BY <1>1, <1>2, <3>1 DEF DbStep
      <4>2. Suits(bucket'[x], db)
        BY <1>1, <1>3, <2>1, <3>1 DEF SegmentPut, Untouched, SegmentsSuit
      <4> QED
        BY <4>1, <4>2
    <3>2. CASE generation' = generation + 1 /\ UNCHANGED bucket
      <4>1. x[2] <= generation
        BY <1>3, <3>2 DEF PagesOK, Fresh
      <4> QED
        BY <1>2, <2>1, <3>2, <4>1
    <3> QED
      BY <1>1, <3>1, <3>2 DEF GenerationStep
  <2>2. ASSUME SnapshotKey(x[2]) \in DOMAIN bucket'
        PROVE  Suits(bucket'[x], bucket'[SnapshotKey(x[2])])
    <3>1. CASE x[2] = generation'
      <4>1. SnapshotKey(generation') \in DOMAIN bucket'
        BY <2>2, <3>1
      <4>2. bucket'[SnapshotKey(generation')] = db'
        BY <1>1, <4>1 DEF PagesOK, Stored, SnapshotKey
      <4> QED
        BY <2>1, <3>1, <4>2
    <3>2. CASE x[2] # generation'
      <4>1. Untouched(x) /\ Untouched(SnapshotKey(x[2]))
        <5>1. CASE UNCHANGED bucket
          BY <1>3, <2>2, <5>1 DEF Untouched
        <5>2. CASE generation' = generation
          <6>1. ~Put(SnapshotKey(x[2]))
            BY <1>3, <3>2, <5>2 DEF Put, SnapshotKey, WalKey
          <6> QED
            BY <1>1, <1>3, <2>2, <3>2, <5>2, <6>1 DEF ObjectStep, SegmentPut
        <5> QED
          BY <1>1, <5>1, <5>2 DEF GenerationStep
      <4> QED
        BY <1>3, <4>1 DEF Untouched, SegmentsSuit, Stored
    <3> QED
      BY <3>1, <3>2
  <2> QED
    BY <2>1, <2>2
<1>4. ASSUME NEW k \in DOMAIN bucket', k[1] = "wal"
      PROVE  (Stored(SnapshotKey(k[2])) => Suits(bucket[k], bucket[SnapshotKey(k[2])]))'
  <2>1. SnapshotKey(k[2]) \in DOMAIN bucket' => Suits(bucket'[k], bucket'[SnapshotKey(k[2])])
    BY <1>3, <1>4
  <2> QED
    BY <2>1 DEF Stored, SnapshotKey, Suits, Fits, Given, Complete, NeverBusy, Blocks
<1>5. ASSUME NEW k \in DOMAIN bucket', k[1] = "wal"
      PROVE  (k[2] = generation => Suits(bucket[k], db))'
  <2>1. k[2] = generation' => Suits(bucket'[k], db')
    BY <1>3, <1>5
  <2> QED
    BY <2>1 DEF Suits, Fits, Given, Complete, NeverBusy, Blocks
<1> QED
  BY <1>4, <1>5 DEF SegmentsSuit

\* What each step of a restore does to its files, and where it leads.
CallBegins ==
  /\ restores' = restores + 1 /\ rstep' \in {"get_latest", "list_manifests"}
  /\ UNCHANGED files /\ wal_data' = <<>>
CallFails == rstep' = "failed" /\ UNCHANGED <<files, restores>> /\ wal_data' = <<>>
CallGoesOn ==
  /\ rstep \in {"get_latest", "list_manifests", "read_manifest", "get_manifest", "list_wal"}
  /\ UNCHANGED <<files, restores, wal_data>>
  /\ \/ rstep' \in {"read_manifest", "get_snapshot"}
     \/ /\ rstep \in {"get_manifest", "list_wal"} /\ rstep' \in {"list_wal", "get_segment", "replay"}
        /\ UNCHANGED restoring
HandsOver ==
  /\ OpenTarget
  /\ \/ rstep = "replay" /\ rstep' = "done" /\ UNCHANGED restores /\ wal_data' = <<>>
     \/ /\ rstep \in Ready /\ target.by # 0 /\ rstep' = "opened" /\ restores' = restores + 1
        /\ UNCHANGED wal_data

\* Every step of a restore is one of these.
LEMMA FetchingStep ==
  ASSUME Restoring
  PROVE  \/ CallBegins \/ CallFails \/ CallGoesOn \/ HandsOver
         \/ WritesSnapshot \/ WritesSegment \/ TearsSnapshot \/ TearsWal
<1>1. CASE BeginRestore \/ BeginRestoreToTime \/ AutoRestore
  BY <1>1 DEF BeginRestore, BeginRestoreToTime, AutoRestore, MayCall, Begin, ClearFetching, CallBegins
<1>2. CASE AutoRestoreSkipped \/ ReplayWal
  BY <1>2 DEF AutoRestoreSkipped, ReplayWal, MayCall, Goes, ClearFetching, fetching, HandsOver
<1>3. CASE Failed
  BY <1>3 DEF Failed, Ends, ClearFetching, CallFails
<1>4. CASE GetSnapshot
  BY <1>3, <1>4 DEF GetSnapshot, GetFailed, Goes, WritesSnapshot
<1>5. CASE GetSegment
  BY <1>3, <1>5 DEF GetSegment, GetFailed, Goes, WritesSegment, SegmentKey, Concatenated
<1>6. CASE GetLatest \/ GetManifest \/ ListWal
  BY <1>3, <1>6 DEF GetLatest, GetManifest, ListWal, Listed, GetFailed, Goes, CallGoesOn, fetching
<1>7. CASE ListManifests \/ ReadManifest \/ ChooseGeneration
  BY <1>3, <1>7 DEF ListManifests, ReadManifest, ChooseGeneration, Goes, CallGoesOn
<1>8. CASE SnapshotCutShort \/ WalCutShort
  BY <1>8 DEF SnapshotCutShort, WalCutShort, CutShort, Ends, ClearFetching, SegmentKey, Concatenated,
              TearsSnapshot, TearsWal
<1> QED
  BY <1>1, <1>2, <1>3, <1>4, <1>5, <1>6, <1>7, <1>8 DEF Restoring, Interrupted

\* The segments of the generation that is restored suit the snapshot of it that
\* has been downloaded, those yet to come too.
SegmentsFit ==
  /\ restoring <= generation /\ (restoring = generation => target.pages = db)
  /\ \A k \in DOMAIN bucket : k[1] = "wal" /\ k[2] = restoring => Suits(bucket[k], target.pages)

\* The file and the -wal file next to it are those of one restore, or the -wal
\* file is that of an earlier one.  A restore goes on only with a file it has
\* written to its end.
HandOK ==
  /\ rstep \in {"get_manifest", "list_wal", "get_segment"} =>
       target.by = restores /\ SegmentsFit /\ Suits(wal_data, target.pages)
  /\ rstep = "replay" => target.by # 0
  /\ rstep \in {"get_manifest", "list_wal", "get_segment", "replay"} => ~torn
  /\ rstep \notin {"get_segment", "replay"} => wal_data = <<>>
  /\ targetWal.by <= restores
  /\ rstep \in Downloading \ {"replay"} => targetWal.by < restores
  /\ target.by # 0 /\ ~mixed /\ ~torn =>
       /\ \E n \in 0..commits : target.pages = 1..n
       /\ targetWal.by \in {0, target.by} => Suits(targetWal.blocks, target.pages)

\* Steps of the manager leave the files of a restore, and what it will download suits them.
LEMMA HandBeside ==
  ASSUME Undisturbed, NeverBusy \/ Uncompacted, TypeOK, TypeOK', StepOK, DataSuits, HandOK,
         restoring \in Nat, [Next]_vars, UNCHANGED <<rstep, files, fetching, restores>>
  PROVE  HandOK'
<1>1. GenerationStep /\ DbStep /\ SegmentPut /\ commits' \in {commits, commits + 1}
  BY ObjectsStep, DatabaseKept, SegmentPuts
<1>2. generation \in Nat /\ generation' \in Nat /\ restoring' = restoring /\ target' = target
      /\ commits \in Nat /\ wal_data' = wal_data /\ targetWal' = targetWal
  BY KeysAssumption DEF TypeOK, ManagerTypeOK, SqliteTypeOK, fetching, files
<1>3. ASSUME SegmentsFit, rstep \in {"get_manifest", "list_wal", "get_segment"} PROVE SegmentsFit'
  <2>2. restoring <= generation' /\ (restoring = generation' => generation' = generation)
    BY <1>1, <1>2, <1>3 DEF GenerationStep, SegmentsFit
  <2>3. restoring = generation' => target.pages = db'
    BY <1>1, <1>2, <1>3, <2>2 DEF DbStep, SegmentsFit
  <2>4. ASSUME NEW k \in DOMAIN bucket', k[1] = "wal", k[2] = restoring
        PROVE  Suits(bucket'[k], target.pages)
    BY <1>1, <1>3, <2>4 DEF SegmentPut, Untouched, SegmentsFit
  <2>5. (\A k \in DOMAIN bucket : k[1] = "wal" /\ k[2] = restoring => Suits(bucket[k], target.pages))'
    BY <1>2, <2>4 DEF Suits, Fits, Given, Complete, NeverBusy, Blocks
  <2> QED
    BY <1>2, <2>2, <2>3, <2>5 DEF SegmentsFit
<1>4. 0..commits \subseteq 0..commits'
  BY <1>1, <1>2
<1>5. rstep' = rstep /\ restores' = restores /\ mixed' = mixed /\ torn' = torn
  BY DEF files
<1>6. (rstep \in {"get_manifest", "list_wal", "get_segment"} =>
         target.by = restores /\ SegmentsFit /\ Suits(wal_data, target.pages))'
  <2>1. rstep \in {"get_manifest", "list_wal", "get_segment"} =>
          target.by = restores /\ SegmentsFit' /\ Suits(wal_data, target.pages)
    BY <1>3 DEF HandOK
  <2> QED
    BY <1>2, <1>5, <2>1 DEF Suits, Fits, Given, Complete, NeverBusy, Blocks
<1>7. (target.by # 0 /\ ~mixed /\ ~torn =>
         /\ \E n \in 0..commits : target.pages = 1..n
         /\ targetWal.by \in {0, target.by} => Suits(targetWal.blocks, target.pages))'
  <2>1. target.by # 0 /\ ~mixed /\ ~torn =>
         /\ \E n \in 0..commits' : target.pages = 1..n
         /\ targetWal.by \in {0, target.by} => Suits(targetWal.blocks, target.pages)
    BY <1>4 DEF HandOK
  <2> QED
    BY <1>2, <1>5, <2>1 DEF Suits, Fits, Given, Complete, NeverBusy, Blocks
<1> QED
  BY <1>2, <1>5, <1>6, <1>7 DEF HandOK

\* A database after some transaction with what suits it is one after another.
LEMMA OpenedIsConsistent ==
  ASSUME TypeOK, FilesOK, PagesWithin, HandOK, target.by # 0, ~mixed, ~torn,
         targetWal.by \in {0, target.by}
  PROVE  Consistent(target.pages, Replay(targetWal.blocks))
<1>1. PICK n \in 0..commits : target.pages = 1..n
  BY DEF HandOK
<1>2. PICK w : w = targetWal.blocks
  OBVIOUS
<1>3. w \in Seq(Block) /\ Linked(w, commits) /\ Suits(w, 1..n) /\ commits \in Nat
  BY <1>1, <1>2, OpenedPages DEF FilesOK, HandOK, TypeOK, SqliteTypeOK
<1>4. \E m \in 0..commits : /\ (1..n) \cup Replay(w) = 1..m
                            /\ Replay(w) # {} => m \in Replay(w)
  BY <1>3, SuitsReplay
<1> QED
  BY <1>1, <1>2, <1>4 DEF Consistent

\* Steps of a restore.
LEMMA HandRestoring ==
  ASSUME TypeOK, FilesOK, PagesWithin, PagesOK, SegmentsSuit, HandOK, restoring \in 0..MaxGenerations,
         NeverBusy \/ "torn_write" \notin RestoreFaults, Restoring, UNCHANGED managerVars
  PROVE  HandOK'
<1>1. /\ bucket' = bucket /\ db' = db /\ generation' = generation /\ commits' = commits
  BY DEF managerVars, vars, sqliteVars, sqliteFiles, tracking
<1>2. restores \in Nat /\ targetWal.by \in Nat /\ generation \in Nat /\ commits \in Nat
  BY RestoresAssumption, KeysAssumption DEF FilesOK, TypeOK, SqliteTypeOK, ManagerTypeOK
<1>3. CASE CallBegins \/ CallFails
  <2>1. /\ target' = target /\ targetWal' = targetWal /\ mixed' = mixed /\ torn' = torn
        /\ wal_data' = <<>>
    BY <1>3 DEF CallBegins, CallFails, files
  <2>2. restores' >= restores /\ restores' \in Nat
        /\ (rstep' \in Downloading => restores' = restores + 1)
        /\ rstep' \in {"get_latest", "list_manifests", "failed"}
    BY <1>2, <1>3 DEF CallBegins, CallFails, Downloading, PointInTime
  <2>3. targetWal.by <= restores' /\ (rstep' \in Downloading => targetWal.by < restores')
    BY <1>2, <2>2 DEF HandOK
  <2>4. (target.by # 0 /\ ~mixed /\ ~torn =>
         /\ \E n \in 0..commits : target.pages = 1..n
         /\ targetWal.by \in {0, target.by} => Suits(targetWal.blocks, target.pages))'
    BY <1>1, <2>1 DEF HandOK, Suits, Fits, Given, Complete, NeverBusy, Blocks
  <2> QED
    BY <2>1, <2>2, <2>3, <2>4 DEF HandOK
<1>4. CASE CallGoesOn
  <2>1. /\ target' = target /\ targetWal' = targetWal /\ mixed' = mixed /\ torn' = torn
        /\ restores' = restores /\ wal_data' = wal_data /\ wal_data' = <<>>
    BY <1>4 DEF CallGoesOn, files, HandOK
  <2>2. rstep \in Downloading \ {"replay"}
    BY <1>4 DEF CallGoesOn, Downloading, PointInTime
  <2>3. rstep' \in {"get_manifest", "list_wal", "get_segment"} =>
          target.by = restores /\ SegmentsFit' /\ Suits(wal_data', target.pages)
    <3>1. ASSUME rstep' \in {"get_manifest", "list_wal", "get_segment"}
          PROVE  target.by = restores /\ SegmentsFit /\ restoring' = restoring
      BY <1>4, <3>1 DEF CallGoesOn, HandOK
    <3>2. ASSUME rstep' \in {"get_manifest", "list_wal", "get_segment"}
          PROVE  SegmentsFit'
      BY <1>1, <2>1, <3>1, <3>2 DEF SegmentsFit, Suits, Fits, Given, Complete, NeverBusy, Blocks
    <3> QED
      BY <2>1, <3>1, <3>2, SuitsNothing
  <2>4. /\ rstep' = "replay" => target.by # 0
        /\ rstep' \in {"get_manifest", "list_wal", "get_segment", "replay"} => ~torn
    BY <1>4, <2>2 DEF CallGoesOn, HandOK, FilesOK
  <2>5. (target.by # 0 /\ ~mixed /\ ~torn =>
         /\ \E n \in 0..commits : target.pages = 1..n
         /\ targetWal.by \in {0, target.by} => Suits(targetWal.blocks, target.pages))'
    BY <1>1, <2>1 DEF HandOK, Suits, Fits, Given, Complete, NeverBusy, Blocks
  <2>6. (rstep \in {"get_manifest", "list_wal", "get_segment"} =>
           target.by = restores /\ SegmentsFit /\ Suits(wal_data, target.pages))'
    BY <2>1, <2>3 DEF Suits, Fits, Given, Complete, NeverBusy, Blocks
  <2> QED
    BY <2>1, <2>2, <2>4, <2>5, <2>6 DEF HandOK
<1>5. CASE WritesSnapshot
  <2>1. PICK s : s = bucket[SnapshotKey(restoring)]
    OBVIOUS
  <2>2. /\ target'.by = restores /\ target'.pages = s /\ mixed' = FALSE /\ torn' = FALSE
        /\ targetWal' = targetWal /\ wal_data' = <<>> /\ restores' = restores
        /\ restoring' = restoring /\ wal_data = <<>> /\ targetWal.by < restores
        /\ Stored(SnapshotKey(restoring))
    BY <1>5, <2>1 DEF WritesSnapshot, fetching, HandOK, Downloading
  <2>3. restoring \in Generations /\ restoring <= generation
    <3>1. SnapshotKey(restoring) \in DOMAIN bucket /\ SnapshotKey(restoring)[2] = restoring
      BY <2>2 DEF Stored, SnapshotKey
    <3> QED
      BY <2>2, <3>1, StoredKeys DEF PagesOK, Fresh, TypeOK
  <2>4. (\E n \in 0..commits : s = 1..n) /\ (restoring = generation => s = db)
    BY <2>1, <2>2, <2>3 DEF PagesOK
  <2>5. \A k \in DOMAIN bucket : k[1] = "wal" /\ k[2] = restoring => Suits(bucket[k], s)
    BY <2>1, <2>2 DEF SegmentsSuit
  <2>6. SegmentsFit'
    BY <1>1, <2>2, <2>3, <2>4, <2>5 DEF SegmentsFit, Suits, Fits, Given, Complete, NeverBusy, Blocks
  <2>7. targetWal.by \in {0, restores} => targetWal.blocks = <<>>
    BY <1>2, <2>2 DEF FilesOK
  <2>8. Suits(<<>>, s)
    BY SuitsNothing
  <2>9. (target.by # 0 /\ ~mixed /\ ~torn =>
         /\ \E n \in 0..commits : target.pages = 1..n
         /\ targetWal.by \in {0, target.by} => Suits(targetWal.blocks, target.pages))'
    <3>1. Suits(targetWal.blocks, s) \/ targetWal.by \notin {0, restores}
      BY <2>7, <2>8
    <3> QED
      BY <1>1, <2>2, <2>4, <3>1 DEF Suits, Fits, Given, Complete, NeverBusy, Blocks
  <2>10. (rstep \in {"get_manifest", "list_wal", "get_segment"} =>
           target.by = restores /\ SegmentsFit /\ Suits(wal_data, target.pages))'
    BY <2>2, <2>6, <2>8 DEF Suits, Fits, Given, Complete, NeverBusy, Blocks
  <2>11. rstep' \in {"get_manifest", "replay", "get_segment"} /\ restores # 0
    BY <1>5 DEF WritesSnapshot, FilesOK, Downloading
  <2> QED
    BY <1>2, <2>2, <2>9, <2>10, <2>11 DEF HandOK
<1>6. CASE WritesSegment
  <2>1. PICK k : k = WalKey(restoring, Head(segments))
    OBVIOUS
  <2>2. /\ target.by = restores /\ SegmentsFit /\ Suits(wal_data, target.pages) /\ Stored(k)
        /\ target' = target /\ mixed' = mixed /\ ~torn /\ torn' = torn
        /\ restoring' = restoring /\ restores' = restores
        /\ wal_data' = wal_data \o bucket[k] /\ rstep' \in {"replay", "get_segment"}
        /\ targetWal' = IF rstep' = "replay" THEN [by |-> restores, blocks |-> wal_data'] ELSE targetWal
        /\ targetWal.by < restores
    BY <1>6, <2>1 DEF WritesSegment, HandOK, Downloading
  <2>3. bucket[k] \in Seq(Block) /\ wal_data \in Seq(Block) /\ k \in DOMAIN bucket
        /\ k[1] = "wal" /\ k[2] = restoring
    BY <2>1, <2>2, SegmentKnown DEF FilesOK, Stored, WalKey
  <2>4. Suits(bucket[k], target.pages)
    BY <2>2, <2>3 DEF SegmentsFit
  <2>5. Suits(wal_data', target.pages)
    BY <2>2, <2>3, <2>4, SuitsLonger
  <2>6. SegmentsFit'
    BY <1>1, <2>2 DEF SegmentsFit, Suits, Fits, Given, Complete, NeverBusy, Blocks
  <2>7. restores # 0
    BY <1>6 DEF WritesSegment, FilesOK, Downloading
  <2>8. (target.by # 0 /\ ~mixed /\ ~torn =>
         /\ \E n \in 0..commits : target.pages = 1..n
         /\ targetWal.by \in {0, target.by} => Suits(targetWal.blocks, target.pages))'
    <3>1. targetWal'.by \in {0, target.by} => Suits(targetWal'.blocks, target.pages) \/ mixed
      BY <1>2, <2>2, <2>5, <2>7 DEF HandOK
    <3> QED
      BY <1>1, <2>2, <3>1 DEF HandOK, Suits, Fits, Given, Complete, NeverBusy, Blocks
  <2>9. (rstep \in {"get_manifest", "list_wal", "get_segment"} =>
           target.by = restores /\ SegmentsFit /\ Suits(wal_data, target.pages))'
    BY <2>2, <2>5, <2>6 DEF Suits, Fits, Given, Complete, NeverBusy, Blocks
  <2>10. targetWal'.by <= restores' /\ (rstep' # "replay" => targetWal'.by < restores')
    BY <1>2, <2>2
  <2> QED
    BY <2>2, <2>7, <2>8, <2>9, <2>10 DEF HandOK
<1>7. CASE HandsOver
  <2>1. /\ targetWal' = NoWalFile /\ target'.by = target.by
        /\ target'.pages = target.pages \cup Replay(targetWal.blocks)
        /\ mixed' = (mixed \/ targetWal.by \notin {0, target.by}) /\ torn' = torn
        /\ rstep' \in {"done", "opened"} /\ wal_data' = <<>> /\ restores' \in Nat
    <3>1. target \in [by : 0..MaxRestores, pages : SUBSET (1..commits)]
      BY DEF PagesWithin
    <3>2. wal_data' = <<>>
      BY <1>7 DEF HandsOver, HandOK, Ready
    <3> QED
      BY <1>2, <1>7, <3>1, <3>2 DEF HandsOver, OpenTarget
  <2>2. ASSUME target.by # 0, ~mixed', ~torn
        PROVE  \E n \in 0..commits : target'.pages = 1..n
    BY <2>1, <2>2, OpenedIsConsistent DEF Consistent
  <2>3. targetWal'.by = 0 /\ targetWal'.blocks = <<>>
    BY <2>1 DEF NoWalFile
  <2>4. (target.by # 0 /\ ~mixed /\ ~torn =>
         /\ \E n \in 0..commits : target.pages = 1..n
         /\ targetWal.by \in {0, target.by} => Suits(targetWal.blocks, target.pages))'
    <3>1. Suits(<<>>, target'.pages)
      BY SuitsNothing
    <3> QED
      BY <1>1, <2>1, <2>2, <2>3, <3>1 DEF Suits, Fits, Given, Complete, NeverBusy, Blocks
  <2> QED
    BY <1>2, <2>1, <2>3, <2>4 DEF HandOK, Downloading, PointInTime
<1>8. CASE TearsSnapshot
  <2>1. /\ torn' = TRUE /\ target'.by = restores /\ targetWal' = targetWal /\ wal_data' = <<>>
        /\ restores' = restores /\ rstep' = "failed" /\ targetWal.by < restores
    BY <1>8 DEF TearsSnapshot, HandOK, Downloading
  <2> QED
    BY <1>2, <2>1 DEF HandOK, Downloading, PointInTime
<1>9. CASE TearsWal
  <2>1. PICK k : k = WalKey(restoring, Head(segments))
    OBVIOUS
  <2>2. /\ target.by = restores /\ SegmentsFit /\ Suits(wal_data, target.pages) /\ Stored(k)
        /\ target' = target /\ mixed' = mixed /\ torn' = torn /\ restores' = restores
        /\ rstep' = "failed" /\ wal_data' = <<>> /\ NeverBusy
    BY <1>9, <2>1 DEF TearsWal, HandOK
  <2>3. PICK t : /\ \E n \in 0..Len(wal_data \o bucket[k]) :
                      t = SubSeq(wal_data \o bucket[k], 1, n)
                 /\ targetWal' = [by |-> restores, blocks |-> t]
    BY <1>9, <2>1 DEF TearsWal
  <2>4. bucket[k] \in Seq(Block) /\ wal_data \in Seq(Block) /\ k \in DOMAIN bucket
        /\ k[1] = "wal" /\ k[2] = restoring
    BY <2>1, <2>2, SegmentKnown DEF FilesOK, Stored, WalKey
  <2>5. Suits(bucket[k], target.pages)
    BY <2>2, <2>4 DEF SegmentsFit
  <2>6. Blocks(t) \subseteq Blocks(wal_data) \cup Blocks(bucket[k])
    BY <2>3, <2>4, PrefixKnown
  <2>7. Suits(t, target.pages)
    BY <2>2, <2>5, <2>6 DEF Suits, Fits
  <2>8. targetWal'.by = restores /\ Suits(targetWal'.blocks, target.pages)
    BY <2>3, <2>7
  <2>9. (target.by # 0 /\ ~mixed /\ ~torn =>
         /\ \E m \in 0..commits : target.pages = 1..m
         /\ targetWal.by \in {0, target.by} => Suits(targetWal.blocks, target.pages))'
    BY <1>1, <2>2, <2>8 DEF HandOK, Suits, Fits, Given, Complete, NeverBusy, Blocks
  <2> QED
    BY <1>2, <2>2, <2>8, <2>9 DEF HandOK, Downloading, PointInTime
<1> QED
  BY <1>3, <1>4, <1>5, <1>6, <1>7, <1>8, <1>9, FetchingStep

\* No step but these two leads to a database that is handed over.
LEMMA HandedOver ==
  ASSUME [RestoreNext]_allVars, rstep' \in {"done", "opened"}, rstep' # rstep
  PROVE  HandsOver
<1>1. Restoring
  BY RestoreSteps DEF Beside, Witness, Remember, allVars, restoreVars
<1> QED
  BY <1>1, FetchingStep DEF CallBegins, CallFails, CallGoesOn, WritesSnapshot, WritesSegment,
                            TearsSnapshot, TearsWal

\* What a restore hands over, or what a manager opens after one that failed, is
\* the database after some transaction, whatever fails and whatever the manager
\* does meanwhile: also crashes, compaction and retention.  A file that was not
\* written to its end is never handed over by a restore (what a manager that finds
\* one opens is excepted in HandedOverConsistent); a -wal file may end anywhere.
\* No other process checkpoints the database, and if a checkpoint can be busy
\* neither compaction nor the end of a write cuts the segments anywhere.
THEOREM HandedOverIsConsistent ==
  ASSUME Undisturbed,
         NeverBusy \/ ("compact" \notin Calls /\ "torn_write" \notin RestoreFaults)
  PROVE  RestoreSpec => HandedOverConsistent
<1> DEFINE Kept == TypeOK /\ StepOK /\ FilesOK /\ PagesWithin /\ restoring \in 0..MaxGenerations
           SI == /\ NeverBusy => QuietWal
                 /\ "compact" \notin Calls => Uncompacted
                 /\ PagesOK /\ DataSuits /\ SegmentsSuit /\ HandOK
<1>1. RestoreInit => SI
  <2> SUFFICES ASSUME RestoreInit
               PROVE  SI
    OBVIOUS
  <2>1. /\ step = "idle" /\ DOMAIN bucket = {} /\ db = {} /\ wal = <<>> /\ nBackfill = 0 /\ spilled = 0
        /\ readMark["reader"] = NoRead
    BY DEF RestoreInit, Init, SqliteInit, Connections
  <2>2. /\ rstep = "idle" /\ wal_data = <<>> /\ targetWal.by = 0 /\ restores = 0 /\ target.by = 0
    BY DEF RestoreInit, NoWalFile, NoFile
  <2>3. QuietWal /\ Uncompacted
    BY <2>1 DEF QuietWal, Uncompacted
  <2>4. PagesOK
    BY <2>1 DEF PagesOK, Fresh, Stored
  <2>5. DataSuits /\ SegmentsSuit
    BY <2>1 DEF DataSuits, SegmentsSuit
  <2>6. HandOK
    BY <2>2 DEF HandOK, Downloading, PointInTime
  <2> QED
    BY <2>3, <2>4, <2>5, <2>6
<1>2. Kept /\ Kept' /\ SI /\ [RestoreNext]_allVars => SI'
  <2> SUFFICES ASSUME Kept, Kept', SI, [RestoreNext]_allVars
               PROVE  SI'
    OBVIOUS
  <2>1. [Next]_vars
    BY RestoringReads
  <2>2. HInv /\ restoring \in Nat
    <3>1. History(Known, lastId, commits)
      BY HistoryPart DEF FilesOK
    <3> QED
      BY <3>1, KeysAssumption DEF HInv, FilesOK
  <2>3. NeverBusy \/ Uncompacted
    OBVIOUS
  <2>4. NeverBusy => QuietWal'
    BY <2>1, QuietWalNext DEF FilesOK
  <2>5. "compact" \notin Calls => Uncompacted'
    BY <2>1, UncompactedNext
  <2>6. PagesOK'
    BY <2>1, <2>2, PagesNext
  <2>7. DataSuits'
    <3>1. DbStep /\ DataStep
      BY <2>1, DatabaseKept, DataSteps
    <3>2. generation' = generation + 1 => generation' # generation
      BY KeysAssumption DEF TypeOK, ManagerTypeOK
    <3> QED
      BY <3>1, <3>2, DataSuitsNext DEF FilesOK
  <2>8. SegmentsSuit'
    BY <2>1, <2>2, <2>3, SegmentsSuitNext
  <2>9. HandOK'
    <3>1. CASE Beside \/ Remember \/ UNCHANGED allVars
      BY <2>1, <2>2, <2>3, <3>1, RestoreWaits, HandBeside
    <3>2. CASE Restoring /\ UNCHANGED managerVars
      BY <3>2, HandRestoring
    <3> QED
      BY <3>1, <3>2, RestoreSteps
  <2> QED
    BY <2>4, <2>5, <2>6, <2>7, <2>8, <2>9
<1>3. Kept /\ SI /\ [RestoreNext]_allVars =>
        (rstep' \in {"done", "opened"} /\ rstep' # rstep /\ (rstep' = "opened" => ~torn) /\ ~mixed'
         => Consistent(target.pages, Replay(targetWal.blocks)))
  <2> SUFFICES ASSUME Kept, SI, [RestoreNext]_allVars, rstep' \in {"done", "opened"},
                      rstep' # rstep, rstep' = "opened" => ~torn, ~mixed'
               PROVE  Consistent(target.pages, Replay(targetWal.blocks))
    OBVIOUS
  <2>1. HandsOver
    BY HandedOver
  <2>2. target.by # 0 /\ ~mixed /\ ~torn /\ targetWal.by \in {0, target.by}
    BY <2>1 DEF HandsOver, OpenTarget, HandOK, FilesOK
  <2> QED
    BY <2>2, OpenedIsConsistent
<1>4. RestoreTypeOK => restoring \in 0..MaxGenerations
  BY DEF RestoreTypeOK
<1> HIDE DEF SI
<1>5. RestoreSpec => []Kept
  BY <1>4, AlwaysFiles, RestoreTypeCorrect, PTL
<1> HIDE DEF Kept
<1> QED
  BY <1>1, <1>2, <1>3, <1>5, PTL DEF RestoreSpec, HandedOverConsistent

-----------------------------------------------------------------------------
(* Objects that are not written again. *)

\* The index of the next segment the manager may upload.
NextIndex == IF step = "put_segment_manifest" THEN wal_index + 1
             ELSE IF step \in {"compact_put", "compact_manifest"} THEN CompactIndex
             ELSE wal_index

\* No upload to the key of this snapshot or segment is to come.
Closed(k) ==
  \/ k[2] < generation
  \/ k[2] = generation /\ ~running
  \/ k[2] = generation /\ step \notin BeforeReset /\ (k[1] = "wal" => k[3] < NextIndex)

\* What a step does to the generation and to the indexes that are taken.
NextGen ==
  /\ generation' = generation + 1 /\ UNCHANGED bucket
  /\ step' = "read_db" /\ manifest' = <<>>
SameGen ==
  /\ generation' = generation /\ (running' => running)
  /\ running' /\ step \notin BeforeReset => step' \notin BeforeReset /\ NextIndex <= NextIndex'
PhaseStep == NextGen \/ SameGen

\* The indexes are numbers.
LEMMA IndexGrows ==
  ASSUME TypeOK
  PROVE  wal_index \in Nat /\ Len(newSegments) \in Nat /\ CompactIndex \in Nat /\ NextIndex \in Nat
BY DEF TypeOK, ManagerTypeOK, CallTypeOK, CompactIndex, NextIndex

\* A step that uploads nothing and begins no generation.
LEMMA PhaseQuiet ==
  ASSUME TypeOK, UNCHANGED <<generation, wal_index>>, running' => running,
         step \notin {"put_segment_manifest", "compact_put", "compact_manifest"},
         step' \notin {"put_segment_manifest", "compact_put", "compact_manifest"},
         step' \in BeforeReset => step \in BeforeReset
  PROVE  SameGen
BY IndexGrows DEF SameGen, NextIndex

\* Every step begins a generation or goes on with it.
LEMMA PhasesStep ==
  ASSUME NoFailures, "snapshot" \notin Calls, TypeOK, StepOK, [Next]_vars
  PROVE  PhaseStep
<1> USE DEF PhaseStep
<1>0. Outcomes = {"ok"} /\ IoOutcomes = {"ok"} /\ "io_error" \notin Env
  BY OnlyOk
<1>a. wal_index \in Nat /\ CompactIndex \in Nat /\ NextIndex \in Nat
  BY IndexGrows
<1>1. CASE AppStep \/ UNCHANGED vars
  <2>1. UNCHANGED <<running, step, generation, wal_index, newSegments>>
    BY <1>1 DEF AppStep, vars, tracking, call, locals, compactLocals
  <2> QED
    BY <1>a, <2>1 DEF SameGen, NextIndex, CompactIndex
<1>2. CASE New \/ CheckpointWal
  BY <1>0, <1>2 DEF New, CheckpointWal, EnterSnapshot, NewGeneration, NextGen
<1>3. CASE Snapshot
  BY <1>3 DEF Snapshot, Call
<1>4. ASSUME NEW c, SyncWal(c) PROVE PhaseStep
  <2>1. CASE Recover(c)
    BY <1>4, <2>1 DEF SyncWal, Recover, EnterSnapshot, NewGeneration, NextGen
  <2>2. CASE ~Recover(c)
    <3>1. UNCHANGED <<generation, wal_index, running>> /\ step = "idle"
          /\ step' \in {"idle", "wal_checkpoint", "put_segment"}
      BY <1>4, <2>2, SyncReturnStep DEF SyncWal, ReadNewFrames, tracking, Call
    <3> QED
      BY <3>1, PhaseQuiet DEF BeforeReset
  <2> QED
    BY <2>1, <2>2
<1>5. CASE PutSegment("ok") \/ PutSegmentManifest("ok")
  <2>1. CASE PutSegment("ok")
    BY <1>a, <2>1 DEF PutSegment, SameGen, NextIndex, BeforeReset
  <2>2. CASE PutSegmentManifest("ok")
    <3>1. step' \in {"idle", "wal_checkpoint"} /\ step = "put_segment_manifest"
          /\ generation' = generation /\ running' = running /\ wal_index' = wal_index + 1
      BY <2>2, SyncReturnStep DEF PutSegmentManifest
    <3>2. NextIndex = wal_index + 1 /\ NextIndex' = wal_index'
      BY <3>1 DEF NextIndex
    <3>3. NextIndex <= NextIndex' /\ step' \notin BeforeReset
      BY <1>a, <3>1, <3>2 DEF BeforeReset
    <3> QED
      BY <3>1, <3>3 DEF SameGen
  <2> QED
    BY <1>5, <2>1, <2>2
<1>6. CASE ReadDb("ok") \/ PutSnapshot("ok") \/ PutLatest("ok")
  BY <1>6, SnapshotReturnStep
     DEF ReadDb, PutSnapshot, PutLatest, tracking, SameGen, BeforeReset
<1>7. CASE PutSnapshotManifest("ok")
  <2>1. step' \in {"idle", "wal_checkpoint"} /\ step = "put_snapshot_manifest"
        /\ UNCHANGED <<generation, running, wal_index>>
    BY <1>7, SnapshotReturnStep DEF PutSnapshotManifest, tracking
  <2> QED
    BY <2>1, PhaseQuiet DEF BeforeReset
<1>8. ASSUME NEW size, Compact(size) PROVE PhaseStep
  BY <1>8, PhaseQuiet DEF Compact, Call, tracking, BeforeReset
<1>9. CASE CompactGet
  <2>1. UNCHANGED <<generation, wal_index, running>> /\ step = "compact_get"
        /\ newSegments = <<>>
        /\ \/ step' = "idle"
           \/ step' \in {"compact_get", "compact_put"} /\ newSegments' = newSegments
    BY <1>9 DEF CompactGet, tracking, Idle, StepOK
  <2> QED
    BY <1>a, <2>1 DEF SameGen, NextIndex, CompactIndex, BeforeReset
<1>10. CASE CompactPut("ok")
  <2>1. /\ UNCHANGED <<generation, wal_index, running>> /\ step = "compact_put"
        /\ step' \in {"compact_put", "compact_manifest"}
        /\ \E s : newSegments' = Append(newSegments, s)
    BY <1>10 DEF CompactPut
  <2>2. Len(newSegments') = Len(newSegments) + 1
    BY <2>1 DEF TypeOK, CallTypeOK
  <2> QED
    BY <1>a, <2>1, <2>2, IndexGrows DEF SameGen, NextIndex, CompactIndex, BeforeReset
<1>11. CASE CompactManifest("ok")
  BY <1>a, <1>11 DEF CompactManifest, SameGen, NextIndex, BeforeReset
<1>12. CASE CompactDelete("ok")
  <2>1. UNCHANGED <<generation, wal_index, running>> /\ step = "compact_delete"
        /\ step' \in {"idle", "compact_delete"}
    BY <1>12 DEF CompactDelete, tracking, Idle
  <2> QED
    BY <2>1, PhaseQuiet DEF BeforeReset
<1>13. CASE Retention
  <2>1. UNCHANGED <<generation, wal_index, running>>
        /\ step \in {"idle", "retention_next", "retention_delete"}
        /\ step' \in {"idle", "retention_next", "retention_delete"}
    BY <1>13 DEF Retention, EnforceRetention, Call, RetentionNext, RetentionDelete, tracking, Idle
  <2> QED
    BY <2>1, PhaseQuiet DEF BeforeReset
<1>14. CASE Drop \/ Crash
  BY <1>14 DEF Drop, Crash, Gone, SameGen
<1> QED
  BY <1>0, <1>1, <1>2, <1>3, <1>4, <1>5, <1>6, <1>7, <1>8, <1>9, <1>10, <1>11, <1>12, <1>13, <1>14
     DEF Next, Manager, Sync, TakeSnapshot, Compaction

\* Segments are uploaded under an index that is taken by that.
LEMMA WalPuts ==
  ASSUME NoFailures, TypeOK, StepOK, [Next]_vars,
         NEW x \in DOMAIN bucket', x[1] = "wal", ~Untouched(x)
  PROVE  /\ x = WalKey(generation, NextIndex) /\ NextIndex < NextIndex'
         /\ running /\ running' /\ generation' = generation
         /\ step \in {"put_segment", "compact_put"} /\ step' \notin BeforeReset
<1>0. wal_index \in Nat /\ CompactIndex \in Nat /\ NextIndex \in Nat
  BY IndexGrows
<1>1. step \in {"put_segment", "compact_put"}
  BY ObjectsStep DEF ObjectStep, Put, SnapshotKey
<1>2. CASE PutSegment("ok")
  BY <1>0, <1>2 DEF PutSegment, PutObject, Untouched, NextIndex, StepOK, BeforeReset
<1>3. CASE CompactPut("ok")
  <2>1. /\ UNCHANGED <<generation, wal_index, running>> /\ step = "compact_put"
        /\ step' \in {"compact_put", "compact_manifest"}
        /\ \E s : newSegments' = Append(newSegments, s)
        /\ x = WalKey(generation, CompactIndex)
    BY <1>3 DEF CompactPut, PutObject, Untouched
  <2>2. Len(newSegments') = Len(newSegments) + 1
    BY <2>1 DEF TypeOK, CallTypeOK
  <2> QED
    BY <1>0, <2>1, <2>2, IndexGrows DEF NextIndex, CompactIndex, StepOK, BeforeReset
<1>4. CASE UNCHANGED bucket
  BY <1>4 DEF Untouched
<1>5. PutSegment("ok") \/ CompactPut("ok") \/ UNCHANGED bucket
  BY <1>1, OnlyOk DEF Next, AppStep, Manager, Sync, TakeSnapshot, Compaction, Retention, New, SyncWal,
         PutSegmentManifest, CheckpointWal, Snapshot, ReadDb, PutSnapshot, PutLatest,
         PutSnapshotManifest, Compact, Call, CompactGet, CompactManifest, CompactDelete,
         EnforceRetention, RetentionNext, RetentionDelete, Drop, Crash, vars
<1> QED
  BY <1>2, <1>3, <1>4, <1>5

\* A key that is closed stays so, and what it holds stays or is deleted.
LEMMA ClosedStep ==
  ASSUME NoFailures, "snapshot" \notin Calls, TypeOK, StepOK, [Next]_vars,
         NEW k, k[1] \in {"wal", "snapshot"}, k[2] \in Nat, k[3] \in Nat, Closed(k)
  PROVE  Closed(k)' /\ (k \in DOMAIN bucket' => Untouched(k))
<1>1. PhaseStep
  BY PhasesStep
<1>2. generation \in Nat /\ generation' \in Nat
  BY <1>1, KeysAssumption DEF TypeOK, ManagerTypeOK, PhaseStep, NextGen, SameGen
<1>3. NextIndex \in Nat
  BY IndexGrows
<1>4. Closed(k)'
  <2>1. CASE NextGen
    BY <1>2, <2>1 DEF NextGen, Closed
  <2>2. CASE SameGen
    <3>1. CASE k[2] < generation
      BY <2>2, <3>1 DEF SameGen, Closed
    <3>2. CASE k[2] = generation /\ ~running'
      BY <2>2, <3>2 DEF SameGen, Closed
    <3>3. CASE k[2] = generation /\ running'
      <4>1. step \notin BeforeReset /\ (k[1] = "wal" => k[3] < NextIndex)
        BY <1>2, <2>2, <3>3 DEF Closed, SameGen
      <4>2. step' \notin BeforeReset /\ NextIndex <= NextIndex'
        BY <2>2, <3>3, <4>1 DEF SameGen
      <4>3. NextIndex' \in Nat
        <5>1. TypeOK'
          BY NextInv
        <5>2. (TypeOK => NextIndex \in Nat)'
          BY IndexGrows, PTL
        <5> QED
          BY <5>1, <5>2
      <4> QED
        BY <1>3, <2>2, <3>3, <4>1, <4>2, <4>3 DEF Closed, SameGen
    <3> QED
      BY <1>2, <3>1, <3>2, <3>3 DEF Closed
  <2> QED
    BY <1>1, <2>1, <2>2 DEF PhaseStep
<1>5. ASSUME k \in DOMAIN bucket', ~Untouched(k)
      PROVE  FALSE
  <2>1. CASE k[1] = "wal"
    <3>1. k = WalKey(generation, NextIndex) /\ running /\ step \in {"put_segment", "compact_put"}
      BY <1>5, <2>1, WalPuts
    <3>2. k[2] = generation /\ k[3] = NextIndex
      BY <3>1 DEF WalKey
    <3> QED
      BY <1>2, <1>3, <2>1, <3>1, <3>2 DEF Closed, BeforeReset
  <2>2. CASE k[1] = "snapshot"
    <3>1. k = SnapshotKey(generation) /\ step = "put_snapshot"
      BY <1>5, <2>2, ObjectsStep DEF ObjectStep, Put, WalKey
    <3>2. k[2] = generation /\ running
      BY <3>1 DEF SnapshotKey, StepOK
    <3> QED
      BY <1>2, <3>1, <3>2 DEF Closed, BeforeReset
  <2> QED
    BY <2>1, <2>2
<1> QED
  BY <1>4, <1>5

\* What is stored and listed somewhere is not written again.
StoredClosed == \A k \in DOMAIN bucket : k[1] = "wal" => Closed(k)
SnapshotsClosed ==
  /\ \A g \in Generations : Stored(ManifestKey(g)) => Closed(SnapshotKey(g))
  /\ Stored(LatestKey) => Latest \in Generations /\ Closed(SnapshotKey(Latest))

\* Every stored segment is closed.
LEMMA StoredClosedNext ==
  ASSUME NoFailures, "snapshot" \notin Calls, TypeOK, StepOK, StoredClosed, [Next]_vars
  PROVE  StoredClosed'
<1>1. ASSUME NEW k \in DOMAIN bucket', k[1] = "wal" PROVE Closed(k)'
  <2>1. TypeOK' /\ NextIndex \in Nat
    BY NextInv, IndexGrows
  <2>2. CASE Untouched(k)
    <3>1. k \in Keys /\ Closed(k)
      BY <1>1, <2>2 DEF Untouched, StoredClosed, TypeOK, BucketTypeOK
    <3>2. k[2] \in Nat /\ k[3] \in Nat
      BY <1>1, <3>1, KeysAssumption
         DEF Keys, WalKeys, WalKey, LatestKey, SnapshotKey, ManifestKey, Generations, Indexes
    <3> QED
      BY <1>1, <3>1, <3>2, ClosedStep
  <2>3. CASE ~Untouched(k)
    <3>1. k = WalKey(generation, NextIndex) /\ NextIndex < NextIndex'
          /\ generation' = generation /\ step' \notin BeforeReset
      BY <1>1, <2>3, WalPuts
    <3>2. k[2] = generation' /\ k[3] < NextIndex'
      BY <3>1 DEF WalKey
    <3> QED
      BY <3>1, <3>2 DEF Closed
  <2> QED
    BY <2>2, <2>3
<1> QED
  BY <1>1 DEF StoredClosed

\* `latest` is written at the end of a snapshot only.
LEMMA LatestPuts ==
  ASSUME NoFailures, [Next]_vars, LatestKey \in DOMAIN bucket', ~Untouched(LatestKey)
  PROVE  PutLatest("ok")
<1>0. Outcomes = {"ok"} /\ IoOutcomes = {"ok"} /\ "io_error" \notin Env
  BY OnlyOk
<1>1. ~UNCHANGED bucket
  BY DEF Untouched
<1>2. ASSUME NEW o, NEW k, NEW v, PutObject(o, k, v) \/ DeleteObject(o, k), k # LatestKey
      PROVE  FALSE
  BY <1>2 DEF PutObject, DeleteObject, Untouched
<1>3. ASSUME NEW o, DeleteObject(o, LatestKey) PROVE FALSE
  BY <1>3 DEF DeleteObject, Untouched
<1>4. ASSUME NEW o, PutSegment(o) PROVE FALSE
  BY <1>2, <1>4 DEF PutSegment, WalKey, LatestKey
<1>5. ASSUME NEW o, PutSegmentManifest(o) \/ PutSnapshotManifest(o) \/ CompactManifest(o) PROVE FALSE
  BY <1>2, <1>5 DEF PutSegmentManifest, PutSnapshotManifest, CompactManifest, ManifestKey, LatestKey
<1>6. ASSUME NEW o, CompactPut(o) PROVE FALSE
  BY <1>2, <1>6 DEF CompactPut, WalKey, LatestKey
<1>7. ASSUME NEW o, PutSnapshot(o) PROVE FALSE
  BY <1>2, <1>7 DEF PutSnapshot, SnapshotKey, LatestKey
<1>8. ASSUME NEW o, CompactDelete(o) PROVE FALSE
  BY <1>2, <1>3, <1>8 DEF CompactDelete
<1>9. ASSUME NEW o, RetentionDelete(o) PROVE FALSE
  BY <1>2, <1>3, <1>9 DEF RetentionDelete
<1>10. UNCHANGED bucket \/ \E o : \/ PutSegment(o) \/ PutSegmentManifest(o) \/ PutSnapshotManifest(o)
                                  \/ CompactManifest(o) \/ CompactPut(o) \/ PutSnapshot(o)
                                  \/ CompactDelete(o) \/ RetentionDelete(o) \/ (o = "ok" /\ PutLatest(o))
  BY <1>0 DEF Next, AppStep, Manager, Sync, TakeSnapshot, Compaction, Retention, New, SyncWal,
         CheckpointWal, Snapshot, ReadDb, Compact, CompactGet, EnforceRetention, RetentionNext,
         Drop, Crash, vars
<1> QED
  BY <1>1, <1>4, <1>5, <1>6, <1>7, <1>8, <1>9, <1>10

\* So is the snapshot of a generation with a manifest, and that of the latest.
LEMMA SnapshotsClosedNext ==
  ASSUME NoFailures, "snapshot" \notin Calls, TypeOK, StepOK, SnapshotsClosed, [Next]_vars
  PROVE  SnapshotsClosed'
<1>1. ASSUME NEW g \in Generations, Closed(SnapshotKey(g)) PROVE Closed(SnapshotKey(g))'
  <2>1. PICK k : k = SnapshotKey(g)
    OBVIOUS
  <2>2. k[1] = "snapshot" /\ k[2] = g /\ k[3] = 0 /\ g \in Nat
    BY <2>1, KeysAssumption DEF SnapshotKey, Generations
  <2>3. Closed(k)'
    BY <1>1, <2>1, <2>2, ClosedStep
  <2> QED
    BY <2>1, <2>3
<1>2. ASSUME NEW g \in Generations, ManifestKey(g) \in DOMAIN bucket' PROVE Closed(SnapshotKey(g))'
  <2>1. TypeOK' /\ ManifestPut
    BY NextInv, ManifestsStep
  <2>2. CASE Untouched(ManifestKey(g))
    BY <1>1, <2>2 DEF Untouched, SnapshotsClosed, Stored
  <2>3. CASE g = generation /\ ManifestLanded
    <3>1. Closed(SnapshotKey(g))
      BY <2>3 DEF ManifestLanded, ManifestSteps, BeforeReset, Closed, SnapshotKey
    <3> QED
      BY <1>1, <3>1
  <2> QED
    BY <1>2, <2>1, <2>2, <2>3 DEF ManifestPut
<1>3. ASSUME LatestKey \in DOMAIN bucket'
      PROVE  bucket'[LatestKey] \in Generations /\ Closed(SnapshotKey(bucket[LatestKey]))'
  <2>1. PICK g : g = bucket'[LatestKey]
    OBVIOUS
  <2>2. g \in Generations
    BY <1>3, <2>1, NextInv DEF TypeOK, BucketTypeOK, ObjectTypeOK, LatestKey
  <2>3. CASE Untouched(LatestKey)
    <3>1. Closed(SnapshotKey(g))
      BY <2>1, <2>3 DEF Untouched, SnapshotsClosed, Stored, Latest
    <3>2. Closed(SnapshotKey(g))'
      BY <1>1, <2>2, <3>1
    <3> QED
      BY <2>1, <2>2, <3>2
  <2>4. CASE PutLatest("ok")
    <3>1. g = generation /\ generation' = generation /\ step' = "put_snapshot_manifest"
      BY <2>1, <2>4 DEF PutLatest, PutObject
    <3>2. Closed(SnapshotKey(g))'
      BY <3>1 DEF Closed, SnapshotKey, BeforeReset
    <3> QED
      BY <2>1, <2>2, <3>2
  <2> QED
    BY <1>3, <2>3, <2>4, LatestPuts
<1> QED
  BY <1>2, <1>3 DEF SnapshotsClosed, Stored, Latest

\* A snapshot goes on to its manifest when `latest` is written.
LEMMA ResetStep ==
  ASSUME NoFailures, [Next]_vars, step \in BeforeReset, running', generation' = generation,
         step' \notin BeforeReset
  PROVE  PutLatest("ok")
<1>1. step' # step
  OBVIOUS
<1>2. CASE AppStep \/ UNCHANGED vars
  BY <1>1, <1>2 DEF AppStep, vars, call
<1>3. CASE ReadDb("ok") \/ PutSnapshot("ok")
  BY <1>3, SnapshotReturnStep DEF ReadDb, PutSnapshot, BeforeReset
<1>4. CASE Drop \/ Crash
  BY <1>4 DEF Drop, Crash, Gone
<1>5. CASE New
  BY <1>5 DEF New, EnterSnapshot, BeforeReset
<1> QED
  BY <1>2, <1>3, <1>4, <1>5, OnlyOk
     DEF BeforeReset, Next, Manager, Sync, TakeSnapshot, Compaction, Retention, SyncWal, PutSegment,
         PutSegmentManifest, CheckpointWal, Snapshot, PutSnapshotManifest, Compact, Call, CompactGet,
         CompactPut, CompactManifest, CompactDelete, EnforceRetention, RetentionNext, RetentionDelete

\* The chunks are uploaded after the downloads.
LEMMA ChunksStep ==
  ASSUME [Next]_vars, step' = "compact_put"
  PROVE  step \in {"compact_get", "compact_put"}
<1>1. CASE AppStep \/ UNCHANGED vars
  BY <1>1 DEF AppStep, vars, call
<1>2. CASE New \/ CheckpointWal \/ Snapshot
  BY <1>2 DEF New, CheckpointWal, Snapshot, EnterSnapshot, Idle
<1>3. ASSUME NEW c, SyncWal(c) PROVE FALSE
  BY <1>3, SyncReturnStep DEF SyncWal, ReadNewFrames, Recover, EnterSnapshot
<1>4. ASSUME NEW o, PutSegment(o) \/ PutSegmentManifest(o) PROVE FALSE
  BY <1>4, SyncReturnStep DEF PutSegment, PutSegmentManifest
<1>5. ASSUME NEW o, ReadDb(o) \/ PutSnapshot(o) \/ PutLatest(o) \/ PutSnapshotManifest(o) PROVE FALSE
  BY <1>5, SnapshotReturnAny DEF ReadDb, PutSnapshot, PutLatest, PutSnapshotManifest
<1>6. ASSUME NEW size, Compact(size) PROVE FALSE
  BY <1>6 DEF Compact
<1>7. CASE CompactGet \/ \E o : CompactPut(o)
  BY <1>7 DEF CompactGet, CompactPut
<1>8. ASSUME NEW o, CompactManifest(o) \/ CompactDelete(o) PROVE FALSE
  BY <1>8 DEF CompactManifest, CompactDelete, Idle
<1>9. CASE Retention
  BY <1>9 DEF Retention, EnforceRetention, RetentionNext, RetentionDelete, Idle
<1>10. CASE Drop \/ Crash
  BY <1>10 DEF Drop, Crash, Gone, Idle
<1> QED
  BY <1>1, <1>2, <1>3, <1>4, <1>5, <1>6, <1>7, <1>8, <1>9, <1>10
     DEF Next, Manager, Sync, TakeSnapshot, Compaction

-----------------------------------------------------------------------------
(* What a point in time gives: nothing that was committed after it. *)

\* The segments of w, or the object k, hold nothing of what the user asked not to see.
Dated(w) == \A b \in Blocks(w) : b.commit => b.tx <= moment.commits
DatedObject(k) ==
  k \in DOMAIN bucket => IF k[1] = "wal" THEN Dated(bucket[k]) ELSE bucket[k] \subseteq 1..moment.commits
Sealed(k) == Closed(k) /\ DatedObject(k)

\* So do the objects of generation g with a stamp that is not after the moment.
ListDated(g, s, m, st) ==
  /\ s <= moment.time => Sealed(SnapshotKey(g))
  /\ \A n \in DOMAIN m : st[n] <= moment.time => Sealed(WalKey(g, m[n].index))
DatesOK ==
  moment.gen # 0 =>
    /\ moment.time < now_ms
    /\ \A g \in Generations : Stored(ManifestKey(g)) =>
         ListDated(g, published[g].snapshot, bucket[ManifestKey(g)], published[g].segments)
    /\ running /\ step \notin BeforeReset => ListDated(generation, snapshotStamp, manifest, segmentStamps)
    /\ step = "compact_put" => ListDated(generation, snapshotStamp, newSegments, newStamps)
MomentStays ==
  moment'.gen = moment.gen /\ moment'.time = moment.time /\ moment'.commits = moment.commits

\* What is sealed stays sealed.
LEMMA SealedStep ==
  ASSUME NoFailures, "snapshot" \notin Calls, TypeOK, StepOK, [Next]_vars, MomentStays,
         NEW k, k[1] \in {"wal", "snapshot"}, k[2] \in Nat, k[3] \in Nat, Sealed(k)
  PROVE  Sealed(k)'
<1>1. Closed(k)' /\ (k \in DOMAIN bucket' => Untouched(k))
  BY ClosedStep DEF Sealed
<1>2. DatedObject(k)'
  <2>1. k \in DOMAIN bucket' => k \in DOMAIN bucket /\ bucket'[k] = bucket[k]
    BY <1>1 DEF Untouched
  <2> QED
    BY <2>1 DEF Sealed, DatedObject, Dated, Blocks, MomentStays
<1> QED
  BY <1>1, <1>2 DEF Sealed

\* The same for the objects of a list of segments.
LEMMA ListDatedStep ==
  ASSUME NoFailures, "snapshot" \notin Calls, TypeOK, StepOK, [Next]_vars, MomentStays,
         NEW g \in Generations, NEW s, NEW m \in Seq(SegmentMeta), NEW st, ListDated(g, s, m, st)
  PROVE  ListDated(g, s, m, st)'
<1>1. ASSUME s <= moment.time PROVE Sealed(SnapshotKey(g))'
  <2>1. PICK k : k = SnapshotKey(g)
    OBVIOUS
  <2>2. k[1] = "snapshot" /\ k[2] \in Nat /\ k[3] \in Nat /\ Sealed(k)
    BY <1>1, <2>1 DEF SnapshotKey, Generations, ListDated
  <2> QED
    BY <2>1, <2>2, SealedStep
<1>2. ASSUME NEW n \in DOMAIN m, st[n] <= moment.time PROVE Sealed(WalKey(g, m[n].index))'
  <2>1. PICK k : k = WalKey(g, m[n].index)
    OBVIOUS
  <2>2. m[n] \in SegmentMeta
    OBVIOUS
  <2>3. k[1] = "wal" /\ k[2] \in Nat /\ k[3] \in Nat /\ Sealed(k)
    BY <1>2, <2>1, <2>2 DEF WalKey, Generations, ListDated, SegmentMeta, Indexes
  <2> QED
    BY <2>1, <2>3, SealedStep
<1> QED
  BY <1>1, <1>2 DEF ListDated, MomentStays

\* A segment with a later stamp may be added to the list.
LEMMA ListDatedLonger ==
  ASSUME NEW g, NEW s, NEW m \in Seq(SegmentMeta), NEW st \in Seq(Nat), Len(st) = Len(m),
         ListDated(g, s, m, st)', NEW e \in SegmentMeta, NEW t \in Nat, ~(t <= moment'.time)
  PROVE  ListDated(g, s, Append(m, e), Append(st, t))'
<1>1. ASSUME NEW n \in DOMAIN Append(m, e), Append(st, t)[n] <= moment'.time
      PROVE  Sealed(WalKey(g, Append(m, e)[n].index))'
  <2>1. n # Len(m) + 1
    BY <1>1
  <2>2. n \in DOMAIN m /\ Append(m, e)[n] = m[n] /\ Append(st, t)[n] = st[n]
    BY <1>1, <2>1
  <2>3. Sealed(WalKey(g, m[n].index))'
    BY <1>1, <2>2 DEF ListDated
  <2> QED
    BY <2>2, <2>3
<1> QED
  BY <1>1 DEF ListDated

\* The clock goes on.
LEMMA ClockStep ==
  ASSUME TypeOK, StampsTypeOK, [Next]_vars, UNCHANGED ticks
  PROVE  now_ms \in Nat /\ now_ms' \in Nat /\ now_ms <= now_ms'
<1>1. commits \in Nat /\ generation \in Nat /\ ticks \in Nat
  BY DEF TypeOK, SqliteTypeOK, ManagerTypeOK, StampsTypeOK
<1>2. commits' \in {commits, commits + 1} /\ generation' \in {generation, generation + 1}
  BY CommitsStep, ObjectsStep DEF GenerationStep
<1>3. commits' \in Nat /\ generation' \in Nat /\ commits <= commits' /\ generation <= generation'
  BY <1>1, <1>2
<1>4. now_ms = commits + generation + ticks /\ now_ms' = commits' + generation' + ticks
  BY DEF now_ms
<1>5. \A a, b, c, d, e \in Nat : a <= c /\ b <= d => a + b + e <= c + d + e
  OBVIOUS
<1>6. now_ms <= now_ms'
  BY <1>1, <1>3, <1>4, <1>5
<1>7. now_ms \in Nat
  BY <1>1, <1>4
<1>8. now_ms' \in Nat
  <2>1. PICK a, b, c \in Nat : now_ms' = a + b + c
    BY <1>1, <1>3, <1>4
  <2>2. a + b + c \in Nat
    OBVIOUS
  <2> QED
    BY <2>1, <2>2
<1> QED
  BY <1>6, <1>7, <1>8

\* Steps of the manager: a new object gets a stamp after the moment.
LEMMA DatesBeside ==
  ASSUME NoFailures, "snapshot" \notin Calls, TypeOK, TypeOK', StepOK, StampsTypeOK, DatesOK,
         [Next]_vars, Stamp, MomentStays, moment.time \in Nat
  PROVE  DatesOK'
<1> SUFFICES ASSUME moment.gen # 0
             PROVE  DatesOK'
  BY DEF DatesOK, MomentStays
<1>1. now_ms \in Nat /\ now_ms' \in Nat /\ now_ms <= now_ms' /\ ~(now_ms <= moment'.time)
      /\ moment'.time < now_ms'
  BY ClockStep DEF Stamp, DatesOK, MomentStays
<1>2. ManifestStep /\ ManifestPut /\ PhaseStep
  BY ManifestsStep, PhasesStep
<1>3. /\ manifest \in Seq(SegmentMeta) /\ newSegments \in Seq(SegmentMeta)
      /\ segmentStamps \in Seq(Nat) /\ Len(segmentStamps) = Len(manifest)
      /\ newStamps \in Seq(Nat) /\ Len(newStamps) = Len(newSegments)
      /\ running => generation \in Generations
  BY CurrentGeneration DEF TypeOK, ManagerTypeOK, CallTypeOK, StampsTypeOK
<1>4. running /\ step \notin BeforeReset => ListDated(generation, snapshotStamp, manifest, segmentStamps)
  BY DEF DatesOK
\* the manifests in the bucket
<1>5. ASSUME NEW g \in Generations, ManifestKey(g) \in DOMAIN bucket'
      PROVE  ListDated(g, published[g].snapshot, bucket[ManifestKey(g)], published[g].segments)'
  <2>1. published'[g] = IF g = generation /\ ManifestLanded
                        THEN [snapshot |-> snapshotStamp, segments |-> segmentStamps]
                        ELSE published[g]
    BY <1>5 DEF Stamp, NextPublished
  <2>2. PICK s, m, st : s = published'[g].snapshot /\ m = bucket'[ManifestKey(g)] /\ st = published'[g].segments
    OBVIOUS
  <2>3. CASE g = generation /\ ManifestLanded
    <3>1. s = snapshotStamp /\ m = manifest /\ st = segmentStamps
      BY <2>1, <2>2, <2>3 DEF ManifestLanded
    <3>2. running /\ step \notin BeforeReset
      BY <2>3 DEF ManifestLanded, ManifestSteps, BeforeReset, StepOK
    <3>3. ListDated(g, s, m, st) /\ m \in Seq(SegmentMeta)
      BY <1>3, <1>4, <2>3, <3>1, <3>2
    <3> QED
      BY <2>2, <3>3, ListDatedStep
  <2>4. CASE ~(g = generation /\ ManifestLanded)
    <3>1. Untouched(ManifestKey(g)) /\ published'[g] = published[g]
      BY <1>2, <1>5, <2>1, <2>4 DEF ManifestPut
    <3>2. ListDated(g, s, m, st) /\ m \in Seq(SegmentMeta)
      BY <2>2, <3>1 DEF Untouched, DatesOK, Stored, TypeOK, BucketTypeOK, ObjectTypeOK, ManifestKey
    <3> QED
      BY <2>2, <3>2, ListDatedStep
  <2> QED
    BY <2>3, <2>4
<1>6. ASSUME running', step \notin BeforeReset, step' \notin BeforeReset
      PROVE  running /\ generation' = generation /\ snapshotStamp' = snapshotStamp
  <2>1. SameGen
    BY <1>2, <1>6 DEF PhaseStep, NextGen, BeforeReset
  <2> QED
    BY <1>6, <2>1 DEF SameGen, Stamp, SnapshotStamped, BeforeReset
\* the segments of compact
<1>7. ASSUME running', step' \notin BeforeReset, step \in {"compact_get", "compact_put"}
      PROVE  ListDated(generation, snapshotStamp, newSegments, newStamps)'
  <2>1. PICK g, s : g = generation /\ s = snapshotStamp
    OBVIOUS
  <2>2. /\ generation' = g /\ snapshotStamp' = s /\ g \in Generations
        /\ ListDated(g, s, manifest, segmentStamps)
    BY <1>3, <1>4, <1>6, <1>7, <2>1 DEF BeforeReset
  <2>3. ListDated(g, s, newSegments, newStamps)
    BY <1>7, <2>1, <2>2 DEF DatesOK, StepOK, ListDated
  <2>4. PICK m, st : m = newSegments /\ st = newStamps
    OBVIOUS
  <2>5. ListDated(g, s, m, st)' /\ m \in Seq(SegmentMeta) /\ st \in Seq(Nat) /\ Len(st) = Len(m)
    BY <1>3, <2>2, <2>3, <2>4, ListDatedStep
  <2>6. newStamps' = NextNewStamps
    BY DEF Stamp
  <2>7. CASE newSegments' = newSegments
    <3>1. newStamps' = SubSeq(st, 1, Len(st))
      BY <1>3, <2>4, <2>6, <2>7 DEF NextNewStamps
    <3>2. newStamps' = st
      BY <2>5, <3>1
    <3> QED
      BY <2>2, <2>4, <2>5, <2>7, <3>2
  <2>8. CASE newSegments' = <<>>
    BY <2>2, <2>5, <2>8 DEF ListDated
  <2>9. ASSUME NEW e \in SegmentMeta, newSegments' = Append(newSegments, e)
        PROVE  ListDated(generation, snapshotStamp, newSegments, newStamps)'
    <3>1. Len(newSegments') = Len(newSegments) + 1
      BY <1>3, <2>9
    <3>2. PICK t : t = now_ms
      OBVIOUS
    <3>3. newStamps' = Append(st, t) /\ newSegments' = Append(m, e)
      BY <1>3, <2>4, <2>6, <2>9, <3>1, <3>2 DEF NextNewStamps
    <3>4. ListDated(g, s, Append(m, e), Append(st, t))'
      BY <1>1, <2>5, <3>2, ListDatedLonger
    <3> QED
      BY <2>2, <3>3, <3>4
  <2> QED
    BY <1>2, <2>7, <2>8, <2>9 DEF ManifestStep
\* the manifest in memory
<1>8. ASSUME running', step' \notin BeforeReset
      PROVE  ListDated(generation, snapshotStamp, manifest, segmentStamps)'
  <2>0. segmentStamps' = NextSegmentStamps
    BY DEF Stamp
  <2>1. CASE step \in BeforeReset
    <3>1. generation' = generation
      BY <1>2, <1>8 DEF PhaseStep, NextGen, SameGen, BeforeReset
    <3>2. PutLatest("ok")
      BY <1>8, <2>1, <3>1, ResetStep
    <3>3. manifest' = <<>> /\ SnapshotStamped
      BY <3>2 DEF PutLatest, SnapshotStamped
    <3>4. ~(snapshotStamp' <= moment'.time)
      BY <1>1, <3>3 DEF Stamp
    <3> QED
      BY <3>3, <3>4 DEF ListDated
  <2>2. CASE step \notin BeforeReset
    <3>1. PICK g, s, m, st : g = generation /\ s = snapshotStamp /\ m = manifest /\ st = segmentStamps
      OBVIOUS
    <3>2. generation' = g /\ snapshotStamp' = s /\ g \in Generations /\ running
      BY <1>3, <1>6, <1>8, <2>2, <3>1
    <3>3. ListDated(g, s, m, st)' /\ m \in Seq(SegmentMeta) /\ st \in Seq(Nat) /\ Len(st) = Len(m)
      BY <1>3, <1>4, <2>2, <3>1, <3>2, ListDatedStep
    <3>4. CASE manifest' = manifest
      BY <2>0, <3>1, <3>2, <3>3, <3>4 DEF NextSegmentStamps
    <3>5. CASE manifest' = <<>>
      BY <3>2, <3>3, <3>5 DEF ListDated
    <3>6. ASSUME step = "put_segment", NEW e \in SegmentMeta, manifest' = Append(manifest, e)
          PROVE  ListDated(generation, snapshotStamp, manifest, segmentStamps)'
      <4>1. manifest' # manifest /\ manifest' # <<>>
        <5>1. Len(manifest) \in Nat /\ Len(manifest') = Len(manifest) + 1 /\ Len(<<>>) = 0
          BY <1>3, <3>6
        <5>2. Len(manifest') # 0 /\ Len(manifest') # Len(manifest)
          BY <5>1
        <5> QED
          BY <5>1, <5>2
      <4>2. PICK t : t = now_ms
        OBVIOUS
      <4>3. segmentStamps' = Append(st, t) /\ manifest' = Append(m, e)
        BY <2>0, <3>1, <3>6, <4>1, <4>2 DEF NextSegmentStamps
      <4>4. ListDated(g, s, Append(m, e), Append(st, t))'
        BY <1>1, <3>3, <4>2, ListDatedLonger
      <4> QED
        BY <3>2, <4>3, <4>4
    <3>7. CASE step = "compact_put" /\ manifest' = newSegments' /\ manifest' # manifest /\ manifest' # <<>>
      <4>1. segmentStamps' = newStamps'
        BY <2>0, <3>7 DEF NextSegmentStamps
      <4> QED
        BY <1>7, <1>8, <3>7, <4>1
    <3> QED
      BY <1>2, <3>4, <3>5, <3>6, <3>7 DEF ManifestStep
  <2> QED
    BY <2>1, <2>2
<1>9. ASSUME step' = "compact_put"
      PROVE  ListDated(generation, snapshotStamp, newSegments, newStamps)'
  <2>1. step \in {"compact_get", "compact_put"} /\ running' /\ step' \notin BeforeReset
    BY <1>9, ChunksStep, NextInv DEF StepOK, BeforeReset
  <2> QED
    BY <1>7, <2>1
<1> QED
  BY <1>1, <1>5, <1>8, <1>9 DEF DatesOK, Stored, ManifestKey

\* At the moment itself all that is stored is of the past.
LEMMA DatesRemember ==
  ASSUME TypeOK, StepOK, StampsTypeOK, FilesOK, PagesWithin, StoredClosed, SnapshotsClosed,
         AllDescribed, running => ManagerOK, Remember
  PROVE  DatesOK'
<1>1. /\ UNCHANGED vars /\ UNCHANGED <<snapshotStamp, segmentStamps, newStamps, published>>
      /\ moment'.commits = commits /\ moment'.time = now_ms /\ ticks' = ticks + 1
  BY DEF Remember
<1>2. /\ bucket' = bucket /\ generation' = generation /\ running' = running /\ step' = step
      /\ manifest' = manifest /\ newSegments' = newSegments /\ wal_index' = wal_index
      /\ commits' = commits
  BY <1>1 DEF vars, sqliteVars, sqliteFiles, tracking, call, locals, compactLocals
<1>3. ASSUME NEW k, Closed(k) PROVE Closed(k)'
  BY <1>2, <1>3 DEF Closed, NextIndex, CompactIndex
<1>4. ASSUME NEW k \in DOMAIN bucket, k[1] = "wal" PROVE Sealed(k)'
  <2>1. Closed(k)'
    BY <1>3, <1>4 DEF StoredClosed
  <2>2. Blocks(bucket[k]) \subseteq Known /\ History(Known \cup Downloads, lastId, commits)
    BY <1>4, ObjectBlocks DEF Known, FilesOK
  <2>3. \A b \in Blocks(bucket[k]) : b.commit => b.tx <= commits
    BY <2>2 DEF History
  <2> QED
    BY <1>1, <1>2, <1>4, <2>1, <2>3 DEF Sealed, DatedObject, Dated, Blocks
<1>5. ASSUME NEW g \in Generations, Closed(SnapshotKey(g)) PROVE Sealed(SnapshotKey(g))'
  <2>1. PICK k : k = SnapshotKey(g)
    OBVIOUS
  <2>2. k[1] # "wal" /\ (k \in DOMAIN bucket => bucket[k] \subseteq 1..commits)
    BY <2>1 DEF SnapshotKey, PagesWithin, Stored
  <2>3. Sealed(k)'
    BY <1>1, <1>2, <1>3, <1>5, <2>1, <2>2 DEF Sealed, DatedObject
  <2> QED
    BY <2>1, <2>3
<1>6. ASSUME NEW g \in Generations, Closed(SnapshotKey(g)), NEW s, NEW m, NEW st, Describes(m, bucket, g)
      PROVE  ListDated(g, s, m, st)'
  <2>1. ASSUME NEW n \in DOMAIN m PROVE Sealed(WalKey(g, m[n].index))'
    <3>1. PICK k : k = WalKey(g, m[n].index)
      OBVIOUS
    <3>2. k \in DOMAIN bucket /\ k[1] = "wal"
      BY <1>6, <3>1 DEF Describes, WalKey
    <3> QED
      BY <1>4, <3>1, <3>2
  <2> QED
    BY <1>5, <1>6, <2>1 DEF ListDated
<1>7. ASSUME NEW g \in Generations, Stored(ManifestKey(g))'
      PROVE  ListDated(g, published[g].snapshot, bucket[ManifestKey(g)], published[g].segments)'
  <2>1. Stored(ManifestKey(g))
    BY <1>2, <1>7 DEF Stored, ManifestKey
  <2>2. Closed(SnapshotKey(g)) /\ Describes(bucket[ManifestKey(g)], bucket, g)
    BY <2>1 DEF SnapshotsClosed, AllDescribed
  <2>3. PICK s, m, st : s = published[g].snapshot /\ m = bucket[ManifestKey(g)] /\ st = published[g].segments
    OBVIOUS
  <2>4. ListDated(g, s, m, st)'
    BY <1>6, <2>2, <2>3
  <2> QED
    BY <1>1, <1>2, <2>3, <2>4
<1>8. ASSUME running, step \notin BeforeReset
      PROVE  /\ generation \in Generations /\ Closed(SnapshotKey(generation))
             /\ Describes(manifest, bucket, generation)
             /\ step = "compact_put" => Describes(newSegments, bucket, generation)
  BY <1>8, CurrentGeneration DEF Closed, SnapshotKey, ManagerOK, CompactOK
<1>9. ASSUME running', step' \notin BeforeReset
      PROVE  ListDated(generation, snapshotStamp, manifest, segmentStamps)'
  <2>1. PICK g, s, m, st : g = generation /\ s = snapshotStamp /\ m = manifest /\ st = segmentStamps
    OBVIOUS
  <2>2. ListDated(g, s, m, st)'
    BY <1>2, <1>6, <1>8, <1>9, <2>1
  <2> QED
    BY <1>1, <1>2, <2>1, <2>2
<1>10. ASSUME step' = "compact_put"
       PROVE  ListDated(generation, snapshotStamp, newSegments, newStamps)'
  <2>1. PICK g, s, m, st : g = generation /\ s = snapshotStamp /\ m = newSegments /\ st = newStamps
    OBVIOUS
  <2>2. running /\ step \notin BeforeReset /\ step = "compact_put"
    BY <1>2, <1>10 DEF StepOK, BeforeReset
  <2>3. ListDated(g, s, m, st)'
    BY <1>6, <1>8, <2>1, <2>2
  <2> QED
    BY <1>1, <1>2, <2>1, <2>3
<1>11. moment'.time < now_ms'
  <2>1. commits \in Nat /\ generation \in Nat /\ ticks \in Nat
    BY DEF TypeOK, SqliteTypeOK, ManagerTypeOK, StampsTypeOK
  <2>2. now_ms = commits + generation + ticks /\ now_ms' = commits + generation + (ticks + 1)
    BY <1>1, <1>2 DEF now_ms
  <2>3. now_ms' = now_ms + 1 /\ now_ms \in Nat
    BY <2>1, <2>2
  <2> QED
    BY <1>1, <2>3
<1> QED
  BY <1>7, <1>9, <1>10, <1>11 DEF DatesOK

\* The files and lists of a restore in progress.
FetchOK ==
  /\ targetWal.by <= restores
  /\ rstep \in Downloading \ {"replay"} => targetWal.by < restores
  /\ rstep \notin {"get_segment", "replay"} => wal_data = <<>>
  /\ rstep = "get_segment" => segments # <<>>

\* A download goes on while there are segments left.
LEMMA SegmentsLeft ==
  ASSUME Restoring, segments \in Seq(Indexes), rstep = "get_segment" => segments # <<>>,
         rstep' = "get_segment"
  PROVE  segments' # <<>>
<1>1. CASE GetSegment
  <2>1. segments' = Tail(segments) /\ Len(segments) # 1 /\ rstep = "get_segment"
    BY <1>1 DEF GetSegment, GetFailed, Failed, Ends, Goes
  <2>2. Len(segments) \in Nat /\ Len(segments) # 0
    BY <2>1
  <2>3. Len(segments') = Len(segments) - 1
    BY <2>1, <2>2
  <2>4. Len(segments') # 0 /\ Len(<<>>) = 0
    BY <2>1, <2>2, <2>3
  <2> QED
    BY <2>4
<1> QED
  BY <1>1 DEF Restoring, BeginRestore, BeginRestoreToTime, AutoRestore, Begin, AutoRestoreSkipped,
         Interrupted, SnapshotCutShort, WalCutShort, CutShort, Ends, Failed, GetFailed, GetLatest,
         GetSnapshot, GetManifest, ListWal, Listed,
         ReplayWal, ListManifests, ReadManifest, ChooseGeneration, Goes, fetching

\* Steps of a restore.
LEMMA FetchOKStep ==
  ASSUME FetchOK, FilesOK, segments \in Seq(Indexes), Restoring
  PROVE  FetchOK'
<1>1. restores \in Nat /\ targetWal.by \in Nat
  BY RestoresAssumption DEF FilesOK
<1>2. rstep' = "get_segment" => segments' # <<>>
  BY SegmentsLeft DEF FetchOK
<1>3. CASE CallBegins \/ CallFails
  BY <1>1, <1>2, <1>3 DEF CallBegins, CallFails, files, Downloading, PointInTime, FetchOK
<1>4. CASE CallGoesOn
  BY <1>1, <1>2, <1>4 DEF CallGoesOn, files, Downloading, PointInTime, FetchOK
<1>5. CASE WritesSnapshot
  BY <1>1, <1>2, <1>5 DEF WritesSnapshot, fetching, Downloading, PointInTime, FetchOK
<1>6. CASE WritesSegment
  <2>1. /\ restores' = restores /\ rstep' \in {"replay", "get_segment"} /\ targetWal.by < restores
        /\ targetWal' = IF rstep' = "replay" THEN [by |-> restores, blocks |-> wal_data'] ELSE targetWal
    BY <1>6 DEF WritesSegment, FetchOK, Downloading
  <2> QED
    BY <1>1, <1>2, <2>1 DEF FetchOK
<1>7. CASE HandsOver
  BY <1>1, <1>2, <1>7, RestoresAssumption
     DEF HandsOver, OpenTarget, NoWalFile, Ready, Downloading, PointInTime, FetchOK
<1>8. CASE TearsSnapshot \/ TearsWal
  <2>1. rstep' = "failed" /\ wal_data' = <<>> /\ restores' = restores
        /\ targetWal'.by \in {restores, targetWal.by}
    BY <1>8 DEF TearsSnapshot, TearsWal
  <2> QED
    BY <1>1, <2>1 DEF Downloading, PointInTime, FetchOK
<1> QED
  BY <1>3, <1>4, <1>5, <1>6, <1>7, <1>8, FetchingStep

\* The segments up to a point in time are those with a stamp up to it.
LEMMA UpToElements ==
  ASSUME TypeOK, NEW g, Stored(ManifestKey(g)), NEW time
  PROVE  SegmentsUpTo(g, time) \in
           Seq({bucket[ManifestKey(g)][n].index :
                  n \in {n \in DOMAIN bucket[ManifestKey(g)] : published[g].segments[n] <= time}})
<1>1. PICK m : m = bucket[ManifestKey(g)]
  OBVIOUS
<1>2. m \in Seq(SegmentMeta)
  BY <1>1 DEF Stored, TypeOK, BucketTypeOK, ObjectTypeOK, ManifestKey
<1>3. PICK S : S = {m[n].index : n \in {n \in DOMAIN m : published[g].segments[n] <= time}}
  OBVIOUS
<1>4. PICK parts : parts = [n \in DOMAIN m |->
                             IF published[g].segments[n] <= time THEN <<m[n].index>> ELSE <<>>]
  OBVIOUS
<1>5. PICK P : P = Seq(S)
  OBVIOUS
<1>6. ASSUME NEW n \in DOMAIN m PROVE parts[n] \in P
  <2>1. CASE published[g].segments[n] <= time
    <3>1. m[n].index \in S
      BY <1>3, <2>1
    <3>2. <<m[n].index>> \in Seq(S)
      BY <3>1
    <3> QED
      BY <1>4, <1>5, <2>1, <3>2
  <2>2. CASE ~(published[g].segments[n] <= time)
    <3>1. <<>> \in Seq(S)
      OBVIOUS
    <3> QED
      BY <1>4, <1>5, <2>2, <3>1
  <2> QED
    BY <2>1, <2>2
<1>7. parts \in Seq(Seq(S))
  <2>1. Len(m) \in Nat /\ DOMAIN m = 1..Len(m)
    BY <1>2
  <2>2. parts \in [1..Len(m) -> P]
    BY <1>4, <1>6, <2>1
  <2>3. parts \in Seq(P)
    BY <2>1, <2>2
  <2> QED
    BY <1>5, <2>3
<1>8. FlattenSeq(parts) \in Seq(S)
  BY <1>7, FlattenType
<1> QED
  BY <1>1, <1>3, <1>4, <1>8 DEF SegmentsUpTo

\* What a restore to a point in time has chosen and downloaded.
SealedAll(g, indexes) == \A n \in DOMAIN indexes : Sealed(WalKey(g, indexes[n]))
DownloadDated ==
  /\ target.by = restores /\ target.pages \subseteq 1..moment.commits
  /\ Dated(wal_data)
  /\ targetWal.by = restores => Dated(targetWal.blocks)
FoundOK ==
  /\ rstep \in PointInTime => moment.gen # 0
  /\ found.gen # 0 =>
       /\ moment.gen # 0 /\ rstep \in {"read_manifest", "get_snapshot", "get_segment", "replay"}
       /\ Sealed(SnapshotKey(found.gen)) /\ SealedAll(found.gen, found.indexes)
       /\ rstep # "read_manifest" => restoring = found.gen
       /\ rstep \in {"get_snapshot", "get_segment"} => SealedAll(found.gen, segments)
       /\ rstep \in {"get_segment", "replay"} => DownloadDated

\* The segments a restore has chosen stay sealed.
LEMMA SealedAllStep ==
  ASSUME NoFailures, "snapshot" \notin Calls, TypeOK, StepOK, [Next]_vars, MomentStays,
         NEW g \in Generations, NEW s \in Seq(Indexes), SealedAll(g, s)
  PROVE  SealedAll(g, s)'
<1>1. ASSUME NEW n \in DOMAIN s PROVE Sealed(WalKey(g, s[n]))'
  <2>1. PICK k : k = WalKey(g, s[n])
    OBVIOUS
  <2>2. s[n] \in Indexes
    OBVIOUS
  <2>3. k[1] = "wal" /\ k[2] \in Nat /\ k[3] \in Nat /\ Sealed(k)
    BY <2>1, <2>2 DEF WalKey, Generations, Indexes, SealedAll
  <2> QED
    BY <2>1, <2>3, SealedStep
<1> QED
  BY <1>1 DEF SealedAll

\* Steps of the manager leave what a restore has chosen.
LEMMA FoundBeside ==
  ASSUME NoFailures, "snapshot" \notin Calls, TypeOK, StepOK, FetchTypeOK, FoundOK,
         [Next]_vars, MomentStays, UNCHANGED <<rstep, files, fetching, restores>>
  PROVE  FoundOK'
<1>1. UNCHANGED <<rstep, target, targetWal, restoring, segments, wal_data, found, restores>>
  BY DEF files, fetching
<1>2. ASSUME found.gen # 0
      PROVE  /\ Sealed(SnapshotKey(found.gen))' /\ SealedAll(found.gen, found.indexes)'
             /\ rstep \in {"get_snapshot", "get_segment"} => SealedAll(found.gen, segments)'
  <2>1. PICK g, f, s : g = found.gen /\ f = found.indexes /\ s = segments
    OBVIOUS
  <2>2. g \in Generations /\ f \in Seq(Indexes) /\ s \in Seq(Indexes)
    BY <1>2, <2>1, KeysAssumption DEF FetchTypeOK, Generations
  <2>3. /\ Sealed(SnapshotKey(g)) /\ SealedAll(g, f)
        /\ rstep \in {"get_snapshot", "get_segment"} => SealedAll(g, s)
    BY <1>2, <2>1 DEF FoundOK
  <2>4. PICK k : k = SnapshotKey(g)
    OBVIOUS
  <2>5. k[1] = "snapshot" /\ k[2] \in Nat /\ k[3] \in Nat
    BY <2>2, <2>4 DEF SnapshotKey, Generations
  <2>6. Sealed(k)' /\ SealedAll(g, f)'
    BY <2>2, <2>3, <2>4, <2>5, SealedStep, SealedAllStep
  <2>7. rstep \in {"get_snapshot", "get_segment"} => SealedAll(g, s)'
    BY <2>2, <2>3, SealedAllStep
  <2> QED
    BY <1>1, <2>1, <2>4, <2>6, <2>7
<1>3. ASSUME DownloadDated PROVE DownloadDated'
  BY <1>1, <1>3 DEF DownloadDated, Dated, Blocks, MomentStays
<1> QED
  BY <1>1, <1>2, <1>3 DEF FoundOK, MomentStays

\* Nothing of this changes by a step of a restore.
LEMMA SealedSame ==
  ASSUME UNCHANGED managerVars, UNCHANGED moment, NEW k, Sealed(k)
  PROVE  Sealed(k)'
<1>1. UNCHANGED <<bucket, generation, running, step, wal_index, newSegments, moment>>
  BY DEF managerVars, vars, tracking, call, locals, compactLocals
<1> QED
  BY <1>1 DEF Sealed, DatedObject, Closed, NextIndex, CompactIndex, Dated, Blocks

\* Nor does it for the chosen segments.
LEMMA SealedAllSame ==
  ASSUME UNCHANGED managerVars, UNCHANGED moment, NEW g, NEW s, SealedAll(g, s)
  PROVE  SealedAll(g, s)'
<1>1. ASSUME NEW n \in DOMAIN s PROVE Sealed(WalKey(g, s[n]))'
  <2>1. PICK k : k = WalKey(g, s[n])
    OBVIOUS
  <2>2. Sealed(k)
    BY <2>1 DEF SealedAll
  <2> QED
    BY <2>1, <2>2, SealedSame
<1> QED
  BY <1>1 DEF SealedAll

\* The download of a restore to a point in time goes on while nothing else happens.
LEMMA FoundSame ==
  ASSUME TypeOK, StampsTypeOK, FetchTypeOK, FoundOK, found.gen # 0, UNCHANGED managerVars,
         UNCHANGED <<moment, found>>,
         rstep' \in {"read_manifest", "get_snapshot", "get_segment", "replay"},
         rstep' # "read_manifest" => restoring' = found.gen,
         rstep' \in {"get_snapshot", "get_segment"} => SealedAll(found.gen, segments'),
         rstep' \in {"get_segment", "replay"} => DownloadDated'
  PROVE  FoundOK'
<1>1. PICK g, f : g = found.gen /\ f = found.indexes
  OBVIOUS
<1>2. Sealed(SnapshotKey(g)) /\ SealedAll(g, f) /\ moment.gen # 0
  BY <1>1 DEF FoundOK
<1>3. Sealed(SnapshotKey(g))' /\ SealedAll(g, f)'
  <2>1. PICK k : k = SnapshotKey(g)
    OBVIOUS
  <2> QED
    BY <1>2, <2>1, SealedSame, SealedAllSame
<1>4. (rstep \in {"get_snapshot", "get_segment"} => SealedAll(found.gen, segments))'
  <2>1. ASSUME rstep' \in {"get_snapshot", "get_segment"} PROVE SealedAll(found.gen, segments)'
    <3>1. PICK s : s = segments'
      OBVIOUS
    <3>2. SealedAll(g, s)
      BY <1>1, <2>1, <3>1
    <3>3. SealedAll(g, s)'
      BY <3>2, SealedAllSame
    <3> QED
      BY <1>1, <3>1, <3>3
  <2> QED
    BY <2>1
<1>5. (DownloadDated)' \/ rstep' \notin {"get_segment", "replay"}
  OBVIOUS
<1>6. (Sealed(SnapshotKey(found.gen)) /\ SealedAll(found.gen, found.indexes))'
  BY <1>1, <1>3
<1> QED
  BY <1>2, <1>4, <1>5, <1>6 DEF FoundOK

\* The manifest that fits best is among those whose lists are of the past.
LEMMA FoundReads ==
  ASSUME TypeOK, StampsTypeOK, FetchTypeOK, DatesOK, FoundOK, ReadManifest, UNCHANGED managerVars,
         UNCHANGED moment
  PROVE  FoundOK'
<1>1. rstep = "read_manifest" /\ rstep' = "read_manifest" /\ restoring' = restoring /\ segments' = segments
  BY DEF ReadManifest, Goes
<1>2. CASE found' = found
  <2>1. CASE found.gen = 0
    BY <1>1, <1>2, <2>1 DEF FoundOK
  <2>2. CASE found.gen # 0
    BY <1>1, <1>2, <2>2, FoundSame
  <2> QED
    BY <2>1, <2>2
<1>3. CASE found' # found
  <2>1. PICK g \in DOMAIN published :
          /\ Better(g, moment.time)
          /\ found' = [gen |-> g, snapshot |-> published[g].snapshot,
                       indexes |-> SegmentsUpTo(g, moment.time)]
    BY <1>3 DEF ReadManifest
  <2>2. g \in Generations /\ Stored(ManifestKey(g)) /\ moment.gen # 0
    BY <1>1, <2>1 DEF StampsTypeOK, FoundOK, PointInTime
  <2>3. ListDated(g, published[g].snapshot, bucket[ManifestKey(g)], published[g].segments)
    BY <2>2 DEF DatesOK
  <2>4. Sealed(SnapshotKey(g))
    BY <2>1, <2>3 DEF ListDated, Better
  <2>5. PICK m, st, t : m = bucket[ManifestKey(g)] /\ st = published[g].segments /\ t = moment.time
    OBVIOUS
  <2>6. PICK S : S = {m[n].index : n \in {n \in DOMAIN m : st[n] <= t}}
    OBVIOUS
  <2>7. PICK f : f = SegmentsUpTo(g, t)
    OBVIOUS
  <2>8. f \in Seq(S)
    BY <2>2, <2>5, <2>6, <2>7, UpToElements
  <2>9. \A i \in S : Sealed(WalKey(g, i))
    BY <2>3, <2>5, <2>6 DEF ListDated
  <2>10. SealedAll(g, f)
    <3>1. ASSUME NEW n \in DOMAIN f PROVE f[n] \in S
      BY <2>8
    <3> QED
      BY <2>9, <3>1 DEF SealedAll
  <2>11. Sealed(SnapshotKey(g))' /\ SealedAll(g, f)'
    <3>1. PICK k : k = SnapshotKey(g)
      OBVIOUS
    <3> QED
      BY <2>4, <2>10, <3>1, SealedSame, SealedAllSame
  <2>12. found'.gen = g /\ found'.indexes = f
    BY <2>1, <2>5, <2>7
  <2>13. (Sealed(SnapshotKey(found.gen)) /\ SealedAll(found.gen, found.indexes))'
    BY <2>11, <2>12
  <2> QED
    BY <1>1, <2>2, <2>13 DEF FoundOK
<1> QED
  BY <1>2, <1>3

\* A segment of the past may be added to what is of the past.
LEMMA DatedJoined ==
  ASSUME NEW v \in Seq(Block), NEW w \in Seq(Block), Dated(v), Dated(w)
  PROVE  Dated(v \o w)
  BY JoinKnown DEF Dated

\* Restores do not change the point in time.
LEMMA MomentKept ==
  ASSUME Restoring
  PROVE  UNCHANGED moment
BY DEF Restoring, BeginRestore, BeginRestoreToTime, AutoRestore, MayCall, AutoRestoreSkipped,
       Interrupted, SnapshotCutShort, WalCutShort, CutShort, Ends, Failed, GetFailed, GetLatest,
       GetSnapshot, GetManifest, ListWal, Listed, GetSegment, ReplayWal,
       ListManifests, ReadManifest, ChooseGeneration, Goes

\* Steps of a restore: what it downloads was sealed when it was chosen.
LEMMA FoundRestoring ==
  ASSUME TypeOK, StampsTypeOK, FilesOK, FetchTypeOK, FetchOK, DatesOK, FoundOK,
         Restoring, UNCHANGED managerVars
  PROVE  FoundOK'
<1>1. UNCHANGED moment /\ bucket' = bucket
  BY MomentKept DEF managerVars, vars
<1>2. CASE Ends \/ Failed \/ ReplayWal \/ BeginRestore \/ AutoRestore
  BY <1>2 DEF Failed, Ends, ReplayWal, BeginRestore, AutoRestore, Begin, ClearFetching, NoManifest, FoundOK,
              PointInTime, Goes
<1>3. CASE BeginRestoreToTime
  BY <1>1, <1>3 DEF BeginRestoreToTime, Begin, ClearFetching, NoManifest, FoundOK
<1>4. CASE AutoRestoreSkipped
  <2>1. found.gen = 0 /\ found' = found /\ rstep' = "opened"
    BY <1>4 DEF AutoRestoreSkipped, MayCall, Ready, FoundOK, fetching
  <2> QED
    BY <2>1 DEF FoundOK, PointInTime
<1>5. CASE GetLatest \/ GetManifest \/ ListWal
  <2>1. CASE Failed
    BY <1>2, <2>1
  <2>2. CASE ~Failed
    <3>1. found.gen = 0 /\ found' = found /\ rstep' \notin PointInTime
      BY <1>5, <2>2 DEF GetLatest, GetManifest, ListWal, Listed, Goes, GetFailed, FoundOK, fetching, PointInTime
    <3> QED
      BY <3>1 DEF FoundOK
  <2> QED
    BY <2>1, <2>2
<1>6. CASE ListManifests
  <2>1. CASE Failed
    BY <1>2, <2>1
  <2>2. CASE ~Failed
    <3>1. found.gen = 0 /\ found' = found /\ moment.gen # 0
      BY <1>6, <2>2 DEF ListManifests, Goes, FoundOK, PointInTime
    <3> QED
      BY <1>1, <3>1 DEF FoundOK
  <2> QED
    BY <2>1, <2>2
<1>7. CASE ReadManifest
  BY <1>1, <1>7, FoundReads
<1>8. CASE ChooseGeneration
  <2>1. CASE Failed
    BY <1>2, <2>1
  <2>2. CASE ~Failed
    <3>1. found.gen # 0 /\ found' = found /\ restoring' = found.gen /\ segments' = found.indexes
          /\ rstep' = "get_snapshot"
      BY <1>8, <2>2 DEF ChooseGeneration, Goes
    <3>2. SealedAll(found.gen, segments')
      BY <3>1 DEF FoundOK
    <3> QED
      BY <1>1, <3>1, <3>2, FoundSame
  <2> QED
    BY <2>1, <2>2
<1>9. CASE GetSnapshot
  <2>1. CASE Failed
    BY <1>2, <2>1
  <2>2. CASE ~Failed
    <3>1. PICK s : s = bucket[SnapshotKey(restoring)]
      OBVIOUS
    <3>2. /\ Stored(SnapshotKey(restoring)) /\ found' = found /\ rstep = "get_snapshot"
          /\ restoring' = restoring /\ segments' = segments /\ targetWal' = targetWal
          /\ wal_data' = wal_data /\ restores' = restores
          /\ rstep' \in {"get_manifest", "get_segment", "replay"}
          /\ target'.by = restores /\ target'.pages = s
          /\ (found.gen # 0 => rstep' \in {"get_segment", "replay"})
      BY <1>9, <2>2, <3>1 DEF GetSnapshot, GetFailed, Goes, fetching
    <3>3. CASE found.gen = 0
      BY <3>2, <3>3 DEF FoundOK, PointInTime
    <3>4. CASE found.gen # 0
      <4>1. restoring = found.gen /\ Sealed(SnapshotKey(found.gen)) /\ SealedAll(found.gen, segments)
        BY <3>2, <3>4 DEF FoundOK
      <4>2. s \subseteq 1..moment.commits
        BY <3>1, <3>2, <4>1 DEF Sealed, DatedObject, SnapshotKey, Stored
      <4>3. wal_data = <<>> /\ targetWal.by < restores /\ restores \in Nat /\ targetWal.by \in Nat
        BY <3>2, RestoresAssumption DEF FetchOK, Downloading, FilesOK
      <4>4. DownloadDated'
        BY <1>1, <3>2, <4>2, <4>3 DEF DownloadDated, Dated, Blocks
      <4> QED
        BY <1>1, <3>2, <3>4, <4>1, <4>4, FoundSame
    <3> QED
      BY <3>3, <3>4
  <2> QED
    BY <2>1, <2>2
<1>10. CASE GetSegment
  <2>1. CASE Failed
    BY <1>2, <2>1
  <2>2. CASE ~Failed
    <3>1. PICK k : k = WalKey(restoring, Head(segments))
      OBVIOUS
    <3>2. /\ Stored(k) /\ found' = found /\ rstep = "get_segment"
          /\ restoring' = restoring /\ segments' = Tail(segments) /\ restores' = restores
          /\ target' = target /\ wal_data' = wal_data \o bucket[k]
          /\ rstep' \in {"get_segment", "replay"}
          /\ targetWal' \in {targetWal, [by |-> restores, blocks |-> wal_data']}
      BY <1>10, <2>2, <3>1 DEF GetSegment, GetFailed, Goes, SegmentKey, Concatenated
    <3>3. CASE found.gen = 0
      BY <3>2, <3>3 DEF FoundOK, PointInTime
    <3>4. CASE found.gen # 0
      <4>1. restoring = found.gen /\ SealedAll(found.gen, segments) /\ DownloadDated
            /\ segments # <<>> /\ segments \in Seq(Indexes)
        BY <3>2, <3>4 DEF FoundOK, FetchOK, FetchTypeOK
      <4>2. Len(segments) \in Nat /\ Len(segments) # 0 /\ Head(segments) = segments[1]
            /\ 1 \in DOMAIN segments
        BY <4>1
      <4>3. Sealed(k)
        BY <3>1, <4>1, <4>2 DEF SealedAll
      <4>4. Dated(bucket[k]) /\ bucket[k] \in Seq(Block) /\ wal_data \in Seq(Block)
        BY <3>1, <3>2, <4>3, SegmentKnown DEF Sealed, DatedObject, WalKey, Stored, FilesOK
      <4>5. Dated(wal_data \o bucket[k])
        BY <4>1, <4>4, DatedJoined DEF DownloadDated
      <4>6. SealedAll(found.gen, Tail(segments))
        <5>1. ASSUME NEW n \in DOMAIN Tail(segments)
              PROVE  n + 1 \in DOMAIN segments /\ Tail(segments)[n] = segments[n + 1]
          BY <4>1, <4>2
        <5> QED
          BY <4>1, <5>1 DEF SealedAll
      <4>7. DownloadDated'
        <5>1. target.by = restores /\ target.pages \subseteq 1..moment.commits
              /\ (targetWal.by = restores => Dated(targetWal.blocks))
          BY <4>1 DEF DownloadDated
        <5>2. target'.by = restores' /\ target'.pages \subseteq 1..moment'.commits
          BY <1>1, <3>2, <5>1
        <5>3. Dated(wal_data')
          BY <3>2, <4>5
        <5>4. targetWal'.by = restores' => Dated(targetWal'.blocks)
          <6>1. CASE targetWal' = targetWal
            BY <3>2, <5>1, <6>1
          <6>2. CASE targetWal' = [by |-> restores, blocks |-> wal_data']
            BY <5>3, <6>2
          <6> QED
            BY <3>2, <6>1, <6>2
        <5> QED
          BY <1>1, <5>2, <5>3, <5>4 DEF DownloadDated, Dated, Blocks
      <4> QED
        BY <1>1, <3>2, <3>4, <4>1, <4>6, <4>7, FoundSame
    <3> QED
      BY <3>3, <3>4
  <2> QED
    BY <2>1, <2>2
<1> QED
  BY <1>2, <1>3, <1>4, <1>5, <1>6, <1>7, <1>8, <1>9, <1>10
     DEF Restoring, Interrupted, SnapshotCutShort, WalCutShort, CutShort

\* Nothing of this changes while the manager does nothing.
LEMMA DatesSame ==
  ASSUME DatesOK, UNCHANGED managerVars, UNCHANGED moment
  PROVE  DatesOK'
<1>1. UNCHANGED <<commits, bucket, generation, running, step, manifest, newSegments, moment,
                  ticks, snapshotStamp, segmentStamps, newStamps, published>>
  BY DEF managerVars, vars, sqliteVars, sqliteFiles, tracking, call, locals, compactLocals, stampVars
<1>2. ASSUME NEW g, NEW s, NEW m, NEW st, ListDated(g, s, m, st)
      PROVE  ListDated(g, s, m, st)'
  <2>1. s <= moment'.time => Sealed(SnapshotKey(g))'
    <3>1. PICK k : k = SnapshotKey(g)
      OBVIOUS
    <3> QED
      BY <1>1, <1>2, <3>1, SealedSame DEF ListDated
  <2>2. ASSUME NEW n \in DOMAIN m, st[n] <= moment'.time PROVE Sealed(WalKey(g, m[n].index))'
    <3>1. PICK k : k = WalKey(g, m[n].index)
      OBVIOUS
    <3> QED
      BY <1>1, <1>2, <2>2, <3>1, SealedSame DEF ListDated
  <2> QED
    BY <2>1, <2>2 DEF ListDated
<1>3. CASE moment.gen = 0
  BY <1>1, <1>3 DEF DatesOK
<1>4. CASE moment.gen # 0
  <2>1. (moment.time < now_ms)'
    BY <1>1, <1>4 DEF DatesOK, now_ms
  <2>2. ASSUME NEW g \in Generations, Stored(ManifestKey(g))'
        PROVE  ListDated(g, published[g].snapshot, bucket[ManifestKey(g)], published[g].segments)'
    <3>1. PICK s, m, st : s = published[g].snapshot /\ m = bucket[ManifestKey(g)] /\ st = published[g].segments
      OBVIOUS
    <3>2. ListDated(g, s, m, st)
      BY <1>1, <1>4, <2>2, <3>1 DEF DatesOK, Stored, ManifestKey
    <3>3. ListDated(g, s, m, st)'
      BY <1>2, <3>2
    <3> QED
      BY <1>1, <3>1, <3>3
  <2>3. ASSUME running', step' \notin BeforeReset
        PROVE  ListDated(generation, snapshotStamp, manifest, segmentStamps)'
    <3>1. PICK g, s, m, st : g = generation /\ s = snapshotStamp /\ m = manifest /\ st = segmentStamps
      OBVIOUS
    <3>2. ListDated(g, s, m, st)'
      BY <1>1, <1>2, <1>4, <2>3, <3>1 DEF DatesOK
    <3> QED
      BY <1>1, <3>1, <3>2
  <2>4. ASSUME step' = "compact_put"
        PROVE  ListDated(generation, snapshotStamp, newSegments, newStamps)'
    <3>1. PICK g, s, m, st : g = generation /\ s = snapshotStamp /\ m = newSegments /\ st = newStamps
      OBVIOUS
    <3>2. ListDated(g, s, m, st)'
      BY <1>1, <1>2, <1>4, <2>4, <3>1 DEF DatesOK
    <3> QED
      BY <1>1, <3>1, <3>2
  <2> QED
    BY <2>1, <2>2, <2>3, <2>4 DEF DatesOK
<1> QED
  BY <1>3, <1>4

\* Blocks of the past give pages of the past.
LEMMA ReplayDated ==
  ASSUME TypeOK, FilesOK, PagesWithin, moment.commits \in Nat, Dated(targetWal.blocks)
  PROVE  Replay(targetWal.blocks) \subseteq 1..moment.commits
<1>1. PICK w, c : w = targetWal.blocks /\ c = moment.commits
  OBVIOUS
<1>2. w \in Seq(Block) /\ Linked(w, commits) /\ c \in Nat
  BY <1>1, OpenedPages DEF FilesOK
<1>3. Linked(w, c)
  BY <1>1, <1>2 DEF Linked, Dated, Blocks
<1> QED
  BY <1>1, <1>2, <1>3, ReplayWithin

\* The invariant of restores beside a manager that nothing fails but restores.
RestoreSound ==
  /\ TypeOK /\ StepOK /\ FilesOK /\ PagesWithin /\ StampsTypeOK /\ FetchTypeOK /\ MomentTypeOK
  /\ RInv /\ SInv
PastOK == StoredClosed /\ SnapshotsClosed /\ FetchOK /\ DatesOK /\ FoundOK

\* At the start nothing is stored and nothing runs.
LEMMA PastInit ==
  ASSUME RestoreInit
  PROVE  PastOK
<1>1. DOMAIN bucket = {}
  BY DEF RestoreInit, Init
<1>2. /\ rstep = "idle" /\ wal_data = <<>> /\ targetWal.by = 0 /\ restores = 0
      /\ moment.gen = 0 /\ found.gen = 0
  BY DEF RestoreInit, NoWalFile, NoMoment, NoManifest
<1>3. StoredClosed /\ SnapshotsClosed
  BY <1>1 DEF StoredClosed, SnapshotsClosed, Stored
<1>4. FetchOK /\ DatesOK /\ FoundOK
  BY <1>2 DEF FetchOK, DatesOK, FoundOK, Downloading, PointInTime
<1> QED
  BY <1>3, <1>4 DEF PastOK

\* Steps keep it.
LEMMA PastNext ==
  ASSUME NoFailures, "snapshot" \notin Calls, RestoreSound, RestoreSound', PastOK, [RestoreNext]_allVars
  PROVE  PastOK'
<1> USE DEF RestoreSound, PastOK
<1>1. [Next]_vars
  BY RestoringReads
<1>2. StoredClosed' /\ SnapshotsClosed'
  BY <1>1, StoredClosedNext, SnapshotsClosedNext
<1>3. ASSUME UNCHANGED <<rstep, files, fetching, restores>> PROVE FetchOK'
  BY <1>3 DEF FetchOK, files, fetching
<1>4. CASE Beside
  <2>1. UNCHANGED <<rstep, files, fetching, restores>> /\ Stamp
    BY <1>4, RestoreWaits DEF Beside
  <2>2. MomentStays /\ moment.time \in Nat
    BY <1>4 DEF Beside, Witness, MomentTypeOK, MomentStays
  <2>3. DatesOK'
    BY <1>1, <2>1, <2>2, DatesBeside
  <2>4. FoundOK'
    BY <1>1, <2>1, <2>2, FoundBeside
  <2> QED
    BY <1>2, <1>3, <2>1, <2>3, <2>4
<1>5. CASE Restoring /\ UNCHANGED managerVars
  <2>1. FetchOK'
    BY <1>5, FetchOKStep DEF FetchTypeOK
  <2>2. DatesOK'
    BY <1>5, MomentKept, DatesSame
  <2>3. FoundOK'
    BY <1>5, FoundRestoring
  <2> QED
    BY <1>2, <2>1, <2>2, <2>3
<1>6. CASE Remember
  <2>1. UNCHANGED <<rstep, files, fetching, restores>> /\ rstep \in Ready
    BY <1>6, RestoreWaits DEF Remember
  <2>2. DatesOK'
    BY <1>6, DatesRemember DEF SInv
  <2>3. FoundOK'
    BY <2>1 DEF FoundOK, Ready, PointInTime, fetching
  <2> QED
    BY <1>2, <1>3, <2>1, <2>2, <2>3
<1>7. CASE UNCHANGED allVars
  <2>1. UNCHANGED <<rstep, files, fetching, restores, moment>>
    BY <1>7 DEF allVars, restoreVars
  <2>2. UNCHANGED managerVars
    BY <1>7 DEF allVars
  <2>4. DatesOK'
    BY <2>1, <2>2, DatesSame
  <2>5. FoundOK'
    BY <1>1, <2>1, FoundBeside DEF MomentStays
  <2> QED
    BY <1>2, <1>3, <2>1, <2>4, <2>5
<1> QED
  BY <1>4, <1>5, <1>6, <1>7, RestoreSteps

\* So it holds always.
LEMMA AlwaysPast ==
  ASSUME NoFailures, "snapshot" \notin Calls
  PROVE  RestoreSpec => [](RestoreSound /\ PastOK)
<1>1. RestoreTypeOK => StampsTypeOK /\ FetchTypeOK /\ MomentTypeOK
  BY DEF RestoreTypeOK, FetchTypeOK, MomentTypeOK
<1>2. TypeOK /\ StepOK /\ FilesOK /\ PagesWithin /\ RestoreTypeOK /\ RInv /\ SInv => RestoreSound
  BY <1>1 DEF RestoreSound
<1>3. RestoreSpec => []RestoreSound
  BY <1>2, AlwaysFiles, RestoreTypeCorrect, RestoresBesideBackups, AlwaysSInv, PTL
<1>4. RestoreSound /\ RestoreSound' /\ PastOK /\ [RestoreNext]_allVars => PastOK'
  BY PastNext
<1> QED
  BY <1>3, <1>4, PastInit, PTL DEF RestoreSpec

\* A restore to a point in time gives nothing that was committed after it,
\* whatever the manager does meanwhile and wherever a process ends: a manifest
\* lists a stamp up to that time only for an object that is not written again.
THEOREM NothingFromTheFutureHolds ==
  ASSUME NoFailures, "snapshot" \notin Calls
  PROVE  RestoreSpec => NothingFromTheFuture
<1>1. RestoreSound /\ PastOK /\ [RestoreNext]_allVars =>
        (rstep = "replay" /\ rstep' = "done" /\ found.gen # 0 /\ ~mixed'
         => target'.pages \subseteq 1..moment.commits)
  <2> SUFFICES ASSUME RestoreSound, PastOK, [RestoreNext]_allVars, rstep = "replay", rstep' = "done",
                      found.gen # 0, ~mixed'
               PROVE  target'.pages \subseteq 1..moment.commits
    OBVIOUS
  <2> USE DEF RestoreSound, PastOK
  <2>1. HandsOver
    BY HandedOver
  <2>2. DownloadDated /\ moment.commits \in Nat
    BY DEF FoundOK, MomentTypeOK
  <2>3. targetWal.by \in {0, restores}
    BY <2>1, <2>2 DEF HandsOver, OpenTarget, DownloadDated, FilesOK
  <2>4. targetWal.by = 0 => targetWal.blocks = <<>>
    BY DEF FilesOK
  <2>5. Dated(targetWal.blocks)
    BY <2>2, <2>3, <2>4 DEF DownloadDated, Dated, Blocks
  <2>6. Replay(targetWal.blocks) \subseteq 1..moment.commits
    BY <2>2, <2>5, ReplayDated
  <2>7. target'.pages = target.pages \cup Replay(targetWal.blocks)
    BY <2>1 DEF HandsOver, OpenTarget, PagesWithin
  <2> QED
    BY <2>2, <2>6, <2>7 DEF DownloadDated
<1> QED
  BY <1>1, AlwaysPast, PTL DEF RestoreSpec, NothingFromTheFuture
================================================================================
