# A TLA+ model of waloy

waloy copies a SQLite database to S3 while the application writes to it: a full
snapshot of the file, then segments of the write-ahead log (WAL) as it grows.
This directory models that program, checks it with TLC and proves part of it
with TLAPS. Line numbers refer to `src/src/manager.rs` unless a file is named.

## The system

| component | state | operations | source |
|---|---|---|---|
| BackupManager | `generation`, `wal_offset`, `wal_index`, salt, `manifest`, read transaction, `shutdown_complete` | `new`, `snapshot`, `sync_wal`, `recover`, `checkpoint`, `maybe_snapshot`, `compact`, `enforce_retention`, `shutdown`, drop | manager.rs |
| restore | none; writes the target and its `-wal` file | latest, point in time, auto-restore in `new` | manager.rs 566-804 |
| S3Client | the bucket: `latest`, `G/snapshot`, `G/manifest.json`, `G/wal/N` | put, get, delete, list, each with up to 4 attempts | s3.rs |
| manifest | segments of a generation: index, time, offset, size | `new`, `add_segment` | manifest.rs |
| pipeline | none | compress and encrypt; detection by magic bytes | compression*.rs, encryption.rs |
| stats, config, error, CLI | counters; plain data | | stats.rs, config.rs, error.rs, bin/waloy.rs |
| SQLite (external) | WAL file, wal-index, database file, read marks | commit, roll back, read, checkpoint | used by manager.rs |

How they interact. The manager's methods take `&mut self`, so one call runs at a
time, but every `.await` lets the application commit, other processes read, the
caller drop the future, or the process end. The manager sees the database only
through files it reads with `tokio::fs::read`, and holds SQLite back only through
one read transaction (the pin). The bucket is the only state that survives; a
restore may look at it at any moment.

Hard behaviours: writers between any two steps of `checkpoint` and `recover`,
where the pin is released; a WAL restarted or truncated between two syncs; frames
in the file that are not committed; crashes and failing uploads between the three
uploads of a snapshot, the two of a sync, and the many of a compaction; deletion of
generations while one of them may still be the one to restore. `PROJECT.json`
lists each hazard at its line with the properties that cover it. Restores add theirs:
they download one object at a time from a bucket that changes under them, and may fail
half way with files on disk. Uploads add theirs: an attempt that failed may have had its
effect, or have it later, and the WAL file grows while it is read.

What makes each component correct: a restore works at any moment and gives a state
the database was in; what a sync acknowledged is restorable; the backup catches up;
compaction and retention change nothing a restore gives; the WAL stays pinned
between calls; segments follow one another without gap and come from one WAL. A restore
beside the manager hands over a consistent file, no older than the moment it began, or
exactly what the point in time asked for; an object decodes to what was encoded; a retried
request does not change what a later one did; frames are uploaded whole.

## Modules

- `SqliteWal`: SQLite, external. A WAL is a sequence of blocks, the header and then
  frames; `id` and `prev` stand for salts and checksums, so that a block is valid
  exactly after the block it was written after. Frames of an open transaction may
  spill and roll back, checkpoints respect read marks, the WAL restarts in place
  (stale blocks stay behind) or is truncated.
- `S3Bucket`: the objects and the outcomes of an upload or a deletion.
- `Restore`: what `restore_latest` gives back from the bucket as it stands.
- `BackupManager`: the manager, over the three modules above. `api` is the call that
  runs, `step` the await it has reached; one action per await.
- `Replica`: the abstract specification, a replica that only moves forward.
- `BackupProperties`: the properties of the manager, and of a bucket at any moment.
- `TimeStamps`: the time stamps of manifests and segments, beside `BackupManager`, whose
  steps do not depend on them.
- `RestoreProcess`: `restore`, `restore_to_time` and auto-restore, one download per step,
  composed with `TimeStamps` and `BackupManager`; `RestoreProperties`: its properties.
- `WalFormat`: `wal_aligned_len`. `Pipeline`: `pipeline_encode` and `pipeline_decode` over
  layers with magic numbers. `S3Client`: the retry loop and what may become of an attempt.
- `SegmentUpload`: `sync_wal` and `compact` in bytes over these three;
  `UploadProperties`: its properties.
- The proofs, each module over the one before it: `BackupManagerProofs` (types; when a
  restore works at every moment), `SegmentProofs` (manifests, compaction, the pin, restores
  beside backups), `ConsistencyProofs` (the WAL; what a restore gives), `ReplicaProofs` (what
  is acknowledged; the refinement), `RestoreProofs` (restores beside the manager: types, what
  they hand over, what they give at most) and `CompletenessProofs` (what they give at least).
  `FlattenProofs` has the lemmas about joined segments. `UploadProofs` is about `WalFormat`,
  `Pipeline`, `S3Client` and `SegmentUpload`.

### State and actions

| model | code |
|---|---|
| `generation` (number in order of creation) | `generation`, a uuid |
| `wal_offset`, sizes and offsets in blocks | byte offsets at frame boundaries |
| `salt` (`id` of the header, 0 for `None`) | `wal_header_salt` |
| `readMark["waloy"] # NoRead` | `has_read_transaction` |
| `New` / `Snapshot`, `ReadDb`, `PutSnapshot`, `PutLatest`, `PutSnapshotManifest` | `new` 84-131, `snapshot` 190-216 |
| `SyncWal` (`NoWal`: 222-233), `PutSegment`, `PutSegmentManifest`, `SyncReturn` | `sync_wal` 220-279 and what `checkpoint`, `shutdown` do after it |
| `WalNeedsRecovery`, `Recover`, `SnapshotReturn` | `check_wal_discontinuity` 808-830, `recover` 292-311 |
| `SyncWal("checkpoint")`, `CheckpointWal`, snapshot steps | `checkpoint` 315-340 (and `maybe_snapshot`) |
| `Compact`, `CompactGet`, `CompactPut`, `CompactManifest`, `CompactDelete` | `compact` 489-564 |
| `EnforceRetention`, `RetentionNext`, `RetentionDelete` | 410-482 |
| `SyncWal("shutdown")`, `Drop`, `Crash` | `shutdown` 376-395, `Drop` 832-843, end of the process |
| `BeginRestore`, `BeginRestoreToTime`, `AutoRestore`, `AutoRestoreSkipped` | 573-625, `new` 84-99, the command `restore` |
| `GetLatest`, `GetSnapshot`, `GetManifest`, `ListWal`, `GetSegment`, `ReplayWal` | `restore_latest` 627-685, `segment_keys_from_manifest` 689-707 |
| `ListManifests`, `ReadManifest`, `ChooseGeneration`, then the same downloads | `restore_pitr` 714-804 |
| `Interrupted`, `Failed` | an error or the end of the process between two writes; the files stay |
| `SnapshotCutShort`, `WalCutShort` | the same inside `fs::write` of the target (648, 763) or its `-wal` file (664, 781) |
| `Stamp` | time stamps in 112, 207, 271, 299, 329, 531 |
| `S3Client!Attempt`, `Retry`, `CallFails` | `retry`, s3.rs 49-76, and the `?` of its callers |
| `SegmentUpload!SyncWal` ... `DeleteSegment` | `sync_wal` and `compact`, one action per request |
| `LandLate`, `WriteWal` | the network; SQLite |

`SegmentUpload` repeats `sync_wal` and `compact` of `BackupManager` at a finer grain and
leaves out the rest (one generation, a WAL that is never restarted): the retry loop with
late requests beside checkpoints, retention and readers is too large for TLC. There,
`suspect` and `overtaken` are history variables: segments that a failed call wrote under
indexes to be used again, and whether a late request has changed an object since the last
upload of the manifest. In `RestoreProcess`, `moment` is the point in time a user will ask
for and what could be restored then, `couldGive` what an instantaneous restore gave while
this one ran, `missed` whether this one goes on without a manifest it should have had, and
`mixed` whether SQLite has replayed on the target a `-wal` file that another restore wrote.
`torn` says that the write of the target did not reach its end.

`seen` and `acked` are history variables: how many transactions were committed when
the sync in progress read the WAL, and what the last successful sync covered.

### Abstractions

- One read of the WAL file is atomic, and a block is in it as a whole or not at all:
  `wal_aligned_len` cuts what is torn. The read of the database file is not atomic:
  `ReadDb` gives any state between its start and its end.
- Distinct transactions write distinct pages, so the pages a file holds are the set
  of transactions whose frames it holds. A missing page is therefore always visible;
  a page that a later transaction would overwrite anyway is not modelled.
- Generation ids grow with time and a retention cutoff separates older from newer
  ones; a clock that goes backwards is left out. `now_ms` counts the events a time stamp
  has to tell apart: commits, generations and the points in time asked for.
- Statistics and logging are left out. Outside `SegmentUpload`, encoding gives back what
  was stored.
- In `BackupManager`, `compact` cuts chunks at block boundaries and the four attempts of
  an S3 call are one step whose outcome is `ok`, `err` or `cancel`; an upload that did not
  return `ok` may have been stored. In `SegmentUpload` chunks are cut at any byte and every
  attempt is a step.
- A restore writes a file in one step: as a whole, or, if the call or its process ends
  inside `fs::write`, as any part of it (some of the pages of a snapshot, perhaps none; a
  number of first blocks of a `-wal` file, since SQLite ignores one that is not complete).
  Nothing else reads the file in the meantime. A write that is still under way in its
  blocking thread when the next restore begins is left out.
- SQLite replays the `-wal` file it finds and removes it when the connection closes. A torn
  target may also be refused by SQLite; the model opens it.
- Chunk sizes are positive. `compact(Some(0))` does not end: `end` stays at `offset`
  (522-523), and empty segments are uploaded for ever. What is said of chunk sizes is said
  of those above 0.
- An object is what was encoded and the layers around it; data that looks compressed makes
  the codec fail. `AccidentAt` is the one place where application data looks like a magic
  number; sizes of headers and pages are scaled down.
- The application keeps a connection open while the manager closes its own, so that
  closing does not checkpoint.
- A call that changes nothing (`Ok(0)` of `enforce_retention`, a `compact` of one
  segment, a second `shutdown`) is a stuttering step.

`Env` says what the environment may do: `multi_frame` (transactions of several
frames, which spill), `rollback`, `reader`, `ext_checkpoint` (checkpoints by other
connections), `s3_error`, `get_error`, `io_error`, `cancel` (the future is dropped),
`drop`, `crash`. `Calls` says which calls are made beside `new` and `sync_wal`.
With `io_error` a local read fails, or the look-up of the WAL file does, which `sync_wal`
takes for a missing file and answers with `Ok(false)` (222). No run claims with it what
a successful `sync_wal` acknowledges.

`RestoreFaults` says what goes wrong in a restore: `get_error` (a download or a listing
fails), `interrupted`, `torn_write` (the call ends inside a write) and `exists_error` (the
target cannot be looked up, which auto-restore takes for a missing file, 86-90).

## Runs

| run | environment | what it shows |
|---|---|---|
| `replica` | no faults | refinement of `Replica`; what a sync acknowledged is never lost; every commit is eventually backed up |
| `crash` | crashes, drops, failing downloads | restores work and are consistent at every moment, nothing is skipped after a restart, manifests describe stored segments, compaction and retention preserve the restore |
| `database_faults` | multi-frame transactions, rollbacks, readers, crashes | the restore stays a state the database was in; the WAL stays pinned |
| `storage_faults` | failing and cancelled uploads, I/O errors | restores work and are consistent |
| `external_checkpoint` | foreign checkpoints, readers, drops | a WAL restarted or truncated behind the manager is noticed; segments of two WALs never mix |
| `restore` | two restores of any kind beside syncs, checkpoints, compaction and retention; interruptions, failing downloads, writes cut short, a target that cannot be looked up | what is handed over is consistent; a restore is not older than its start; a point in time gives nothing of the future and forgets nothing; every stored manifest can be restored |
| `segment_upload` | attempts refused, done but unanswered, or late; a growing WAL; with and without compression and key | listed segments are exact, acknowledged bytes durable, frames whole, objects never misread, every frame uploaded in the end |

Violations, each a disagreement of the code with its own documentation (details and
quotes under `findings`):

| run | property | the code |
|---|---|---|
| `rolled_back_frames` | `SyncedIsRestorable` | uploads uncommitted frames and skips those that replace them |
| `manifest_upload_fails` | `SyncedIsRestorable` | lists a segment twice after a failed manifest upload |
| `retention_deletes_latest` | `LatestIsRestorable` | deletes the generation `latest` names after a failed checkpoint |
| `compaction_fails` | `LatestIsRestorable` | reuses and deletes listed keys after a failed compaction |
| `busy_checkpoint` | `SyncedNeverLost` | ignores a checkpoint that could not finish |

What the properties of `restore`, `segment_upload` and `database_faults` except, because the
code does otherwise:

- `RestoreIsNotStale`: a restore whose manifest download fails, for any reason, falls back
  to a listing, and a listing that fails counts as empty (689-706). It still hands over a
  consistent file.
- `NothingForgotten`: compaction stamps the merged segments anew (531), so a restore to a
  time before it gives the snapshot alone, although 712-713 names only the sync interval as
  the limit (TLC refutes the property without this exception); and a generation that retention
  has deleted, or whose manifest could not be read, is passed over (724-729).
- `HandedOverConsistent`, `NothingFromTheFuture`: a `-wal` file that an earlier, failed
  restore left beside the target is replayed if the new one has no segments (656, 679); both
  except what is `mixed`. The README of waloy restores to a new file.
- `HandedOverConsistent`: `fs::write` truncates and then writes the target (648, 763), and only
  a restore that goes on syncs it (673-675). An attempt that ends inside leaves a partial or
  empty file, which the next `new` with `auto_restore` takes for a database (86-90). What
  auto-restore opens while `torn` is excepted; a restore itself never hands over such a file,
  and a `-wal` file cut short is not excepted.
- `ListedSegmentsExact`, `AckedIsDurable`: after a call has failed, its indexes are used
  again while the manifest in memory may list them (see `manifest_upload_fails`); a late
  request may put back an older manifest until the next upload repairs it; data cut so that
  it looks compressed is lost with `compression: None`, also with encryption, because
  decoding decrypts and then decompresses whatever begins with a magic number.
- `NeverMisread`: a program without a key takes what is encrypted for plain data (170-177).
- `WalPinned` (`database_faults`) fails with failing uploads: `recover` returns the error of
  its snapshot before it pins the WAL again (304), and `checkpoint` returns that error from
  its sync although 331-333 says that the pin is always re-acquired.

The passing runs are split so that a property is claimed exactly under the faults
that leave it true: for instance `SyncedIsRestorable` holds under crashes and is
refuted under failing uploads. `external_checkpoint` claims no consistency of the
restore: with foreign checkpoints a snapshot can be torn while the pin is held at a
mark above 0, and transactions can fall into the gap while the pin is released; the
README of waloy asks applications to disable automatic checkpoints.

### Bounds

`MaxCommits` and `MaxBlocks` are at least one more than the number of syncs and
restarts of the WAL that a property relates (two segments, a checkpoint or a restart,
one more segment). Three generations give one to be deleted, one that is current and
one to be created. `MaxIndex` leaves an index for every sync and compacted chunk, so
that no call stops for the bound alone; `Compact` states this as a guard. Segment size
2 makes several chunks, the last one shorter; size 5 merges all into one.
`replica` checks deadlock: the bounded system only stops when nothing is left to do,
and `sync_wal` is always possible. The other runs end in states where a bound is used
up after a crash, which is no deadlock of the program.

`restore` allows two restores, so that a second one meets the files of the first, two
generations and compaction of two segments into chunks; what the manager does after the
last restore is cut off, and one point in time is remembered between restores.
`segment_upload` has three frames, so that a sync follows a compaction of two segments;
`MAX_RETRIES` is 1 and `MaxFaults` 2, which is a call that fails for good, or late attempts
that land after their call and the next ones; `MaxIndex` 6 allows a compaction that fails,
one that reuses its keys and one that no longer finds them. `ChunkSize` 3 cuts a page so
that a chunk begins at `AccidentAt`. Both stop where a bound is used up.

### Fairness

`FairSpec` assumes that an application without a manager creates one (`New`), that it
keeps calling `sync_wal` (the loop of the README, about once a second), and that a call
that has begun goes on (`CallStep`: the runtime polls the future and each await ends
after a bounded number of attempts). Nothing is assumed of writers, readers,
checkpoints or any other call. `SegmentUpload` assumes that a call goes on (`CallStep`,
weakly fair) and that the loop of the application calls `sync_wal` again and again between
its other calls (strongly fair, since a compaction that keeps failing also keeps the manager
busy); nothing of SQLite, the network or compaction.

## Proofs

Every theorem holds for every value of the constants that the named assumptions of the
modules admit: bounds, sizes, sets of calls and faults. Where a theorem needs more, it
says so in its hypotheses, and the text says what goes wrong without them. Every invariant
was checked with TLC before it was proved.

| theorem | module | hypotheses | property |
|---|---|---|---|
| `TypeCorrect` | `BackupManagerProofs` | none | `TypeOK` |
| `AlwaysRestorable` | `BackupManagerProofs` | `NoFailures` | `LatestIsRestorable` |
| `RestorableWithoutDeletion` | `BackupManagerProofs` | `NoDeletion` | `LatestIsRestorable` |
| `SegmentsDescribed` | `SegmentProofs` | `NoFailures` | `ManifestDescribesSegments` |
| `CompactionKeepsTheBackup` | `SegmentProofs` | `NoFailures` | `CompactionPreserves` |
| `OneWalPerGeneration` | `SegmentProofs` | `NoFailures` | `SegmentsOfOneWal` |
| `AlwaysPinned` | `SegmentProofs` | `NoFailures` | `WalPinned` |
| `RestoresBesideBackups` | `SegmentProofs` | none | `RestoreSpec => Spec` |
| `PointInTimeRestorable` | `SegmentProofs` | `NoFailures` | `ManifestsAreRestorable` |
| `OneHistory` | `ConsistencyProofs` | none | `HInv` |
| `ConsistentWithoutCompaction` | `ConsistencyProofs` | `Undisturbed`, no `compact` | `RestoreIsConsistent` |
| `ConsistentWithCompaction` | `ConsistencyProofs` | `NoFailures`, `Undisturbed` | `RestoreIsConsistent` |
| `NothingIsSkipped` | `ReplicaProofs` | `NoFailures`, `Steady` | `NothingSkipped` |
| `AcknowledgedIsRestorable` | `ReplicaProofs` | `Orderly` | `SyncedIsRestorable` |
| `AcknowledgedIsNeverLost` | `ReplicaProofs` | `OneManager` | `SyncedNeverLost` |
| `BackupsAreReplica` | `ReplicaProofs` | `OneManager` | `ImplementsReplica` |
| `RestoreTypeCorrect` | `RestoreProofs` | none | `RestoreTypeOK` |
| `HandedOverIsConsistent` | `RestoreProofs` | `Undisturbed`, and `NeverBusy` or neither `compact` nor `torn_write` | `HandedOverConsistent` |
| `NothingFromTheFutureHolds` | `RestoreProofs` | `NoFailures`, no direct `snapshot` | `NothingFromTheFuture` |
| `RestoreIsNotStaleHolds` | `CompletenessProofs` | `NoFailures`, no direct `snapshot` | `RestoreIsNotStale` |
| `NothingForgottenHolds` | `CompletenessProofs` | `NoFailures`, no direct `snapshot` | `NothingForgotten` |
| `AlignedLen` | `UploadProofs` | none | `wal_aligned_len` |
| `TrackedWholeFrames` | `UploadProofs` | none | the first part of `WholeFrames` |
| `UploadTypeCorrect` | `UploadProofs` | none | `UploadTypeOK` |
| `NothingIsMisread` | `UploadProofs` | none | `NeverMisread` |
| `ListedSegmentsAreExact` | `UploadProofs` | none | `ListedSegmentsExact` |
| `SyncedIsDurable` | `UploadProofs` | none | `AckedIsDurable` |
| `StoredWholeFrames` | `UploadProofs` | none | `WholeFrames` |

The hypotheses are about `Env` and `Calls`:

- `NoFailures`: no upload and no local read fails and no call is cancelled. Crashes, drops,
  failing downloads, every call and everything other connections do are allowed.
- `NoDeletion`: the application never calls `compact` or `enforce_retention`.
- `Undisturbed`: no other connection checkpoints, as the README of waloy asks.
- `Steady`: `Undisturbed`, no transaction rolls back frames it has written, and no other
  process holds a read transaction. Transactions may have several frames if there is no
  crash: a crash in the middle of one leaves frames behind like a rollback.
- `Orderly`: `NoFailures`, `Steady`, and `snapshot` is called by the manager only.
- `OneManager`: `Orderly`, and the manager is neither dropped, crashed nor shut down.
- `NeverBusy`: every checkpoint finds the WAL free: no other process reads or checkpoints, and
  transactions are written at once. Rollbacks, failing uploads and crashes are allowed.
- No direct `snapshot`: the application leaves snapshots to the manager. A direct one writes
  to the snapshot and the segment keys of its generation a second time (190-216).

### Types

`BackupManagerProofs` proves `TypeCorrect == Spec => []TypeOK`, for every value of the
constants that the assumptions `BoundsAssumption`, `KeysAssumption` and
`CallsAssumption` admit, every fault included. `TypeOK` is not inductive: that an
upload goes to an existing key depends on where the call is. The invariant `IInv` adds
`StepOK`: a manager that exists has a generation, a segment about to be uploaded fits
below `MaxIndex`, the lists that `CompactGet` and `CompactDelete` take the head of are
not empty, and the chunks uploaded so far end inside the data. Each action has a lemma
that it preserves `TypeOK /\ StepOK`; `NextInv` puts them together.

### The latest backup can be restored

`BackupManagerProofs` proves `[]LatestIsRestorable` under each of two assumptions; the
violations `retention_deletes_latest` and `compaction_fails` break both at once:

- `AlwaysRestorable` assumes `NoFailures`. The two violations show that one failing upload
  is enough to break it once objects are deleted.
- `RestorableWithoutDeletion` assumes `NoDeletion`. Every failure is allowed, uploads
  reported as failed that took place included.

Neither is inductive. Both rest on `Base`: no object of a generation to come exists
(`Fresh`), so a new generation starts empty; the latest backup is restorable; and a
manager can publish its manifest at any moment, since every segment it lists is stored,
as is every segment of the manifest published last (`Publishable`). For the second
theorem it is enough to add that the snapshot is stored before `latest` moves (`KInv`).
The first has to justify deletions and needs `Order`: outside a snapshot `latest` names
the manager's generation (`Current`), indexes from `wal_index` on are free (`Below`),
merged segments lie above all old ones (`Merged`, `OldKey`), what `compact` deletes is in
no manifest (`Unlisted`), and what retention deletes belongs to other generations
(`OfOther`). `Current` and `Below` are what a failing upload breaks. Upload lemmas
(`PutOfGeneration`, `PutManifestR`) serve both; each action then has one lemma, and
`RNext` and `KNext` put them together.

### Segments and manifests

`SegmentProofs` relates the bucket to the WAL. Its invariant `SInv` has three parts. `Ids`:
the id of a WAL is never used again, which is what comparing salts rests on.
`AllDescribed`: every stored manifest, of whatever generation, lists stored segments that are as long as it says and
follow one another from the start of the WAL (`Describes`). `ManagerOK`: the same for the
manifest in memory; the segments of the manager (`Own`) begin with the header its salt
names (`Headed`); between calls the manifest in memory is the stored one (`Published`);
`CompactOK` says what is downloaded and what the chunks uploaded so far hold, and `DoomedOK`
that retention deletes no segment of a generation before its manifest. Without failures this gives `SegmentsDescribed` and, because a
chunk holds the next part of what the old segments hold joined, `CompactionKeepsTheBackup`:
replacing the old manifest by the new one changes nothing a restore gives.
`OneWalPerGeneration` follows from `Headed`: `sync_wal` goes on only if the header of the
file still has the salt. `AlwaysPinned` needs `PinOK`, which lists the steps at which the
pin is released. As to `NoFailures`: `manifest_upload_fails` shows a segment that is listed
twice, `compaction_fails` a listed segment that is overwritten or deleted, and the end of the
section on runs says how a failed upload loses the pin.

`RestoresBesideBackups` needs no assumption: each step of `RestoreProcess` is one of the
manager or leaves its variables alone. Hence every theorem about backups holds beside
restores, and `PointInTimeRestorable` follows from `SInv`.

Both compaction, which appends one downloaded segment at a time, and restore, which joins
all of them, are about the same blocks because of the lemma `FlattenAppend`. `FlattenSeq` is a fold,
whose result is a choice; `FlattenProofs` shows what it chooses by taking the least length
for which it would not (`LeastNumber`), in place of an induction theorem.

### What a restore gives

`OneHistory` holds with no assumption at all, failures and foreign checkpoints included.
Its invariant `HInv` says that the WAL, the buffer of the call in progress and every stored
segment are made of blocks of one `History`: a block is determined by its id, is
written after one with a smaller id, and transactions count up along that chain; and that
(`SqliteOK`) the database file holds the first transactions and the WAL the rest up to the
last commit, stale blocks and uncommitted frames apart. Rollbacks, WALs restarted in place
and crashes preserve it, since a new header or frame takes a new id.

`RestoreIsConsistent` then follows if what is stored `Complete`s the snapshot of its
generation: replaying it over the snapshot gives the database after some transaction. It is
proved twice. `ConsistentWithoutCompaction` allows every failure: each segment by itself
completes the snapshot, and so does whatever list of them a manifest has (`PagesOK`,
`ObjectsOK`). A merged segment has no such property, since chunks cut the WAL anywhere.
`ConsistentWithCompaction` therefore follows the segments of the manager and of `latest` as
a whole (`OwnGiven`, `LatestGiven`), and that a generation `latest` does not name yet has a
snapshot at most (`Unused`); it needs `NoFailures`. Both need `Undisturbed`: with foreign
checkpoints the snapshot itself can be torn (hazard at manager.rs:188).

### What is acknowledged

`ReplicaProofs` proves what the application relies on. If nothing is rolled back, every
block of the WAL counts and it is never restarted in place while the manager holds its
pin (`WalFull`); then the segments of the manager are the beginning of the WAL, and with
what `sync_wal` is about to upload still are (`OwnBegins`), which is `NothingIsSkipped`.
`AcknowledgedIsRestorable` adds `SeenOK` (what the sync in progress saw committed is in
what it has read) and `AckedOK` (while a generation begins nothing of it is acknowledged).
`AcknowledgedIsNeverLost` adds `Covers`: whatever generation the next upload makes the
latest, it restores all that the one before it did (`Grows`, a property of each step), since
the manager has moved the WAL into the file before it takes the snapshot. `BackupsAreReplica`
combines this with consistency: each step is a `Commit` or a `Replicate` of
`Replica`, or a stutter.

Why the hypotheses:

- Rollbacks: the run `rolled_back_frames`. Readers: `busy_checkpoint`. Failing uploads:
  `manifest_upload_fails`. After a foreign checkpoint the WAL may be restarted, and the
  segments are no longer its beginning until the next sync notices (`external_checkpoint`).
- A direct `snapshot` clears the manifest and keeps the generation: what was acknowledged is
  not restorable until the next sync (hazard at manager.rs:190).
- A manager that begins anew makes a snapshot of the file, without what only the WAL holds
  yet. `latest` moves back until its first sync, which is why `AcknowledgedIsNeverLost`
  needs `OneManager` while `AcknowledgedIsRestorable`, about the generation in which the
  sync was, does not.

### What a restore beside the manager hands over

`RestoreProofs` follows one restore through its downloads. `RestoreTypeCorrect` needs more
than types: what it has downloaded is made of blocks of the `History` of `OneHistory`
(`FilesOK`), so that replaying it gives transactions that exist, in a database that had them
(`PagesWithin`). The lists of segments (`StoredIndexes`, `SegmentsUpTo`) are joined from lists
of one element or none; `IndexesType`, `UpToType` and `ListedIndexes` give their types and
elements from the lemmas of `FlattenProofs`.

`HandedOverIsConsistent` allows every failure of the manager, interrupted restores, failing
downloads, writes cut short and a second restore over the files of the first. A restore may then download
segments of different moments: of before and after a compaction, from a listing after the
manifest could not be read, from a generation that is being deleted. None of that matters if each segment by
itself suits the snapshot. Without compaction that is `PagesOK` of the section above. With
compaction, or with a `-wal` file that is cut short, it needs `NeverBusy`: then the database
file of a generation holds every
transaction before its WAL (`QuietWal`), any block of that WAL, wherever a chunk or a write was
cut, continues the snapshot, and `SegmentsSuit` and `HandOK` carry this through the bucket and
through the download. `HandOK` also says that the target is not `torn` from the download of
the snapshot to the end of the restore, so that only auto-restore can meet a torn one. TLC refutes the property with a reader and compaction together
(`Env = {"reader"}`, `Calls = {"checkpoint", "compact"}`, a restore to a moment, no failures):
a checkpoint that found the WAL busy leaves transactions both in the new snapshot and in the
WAL that is copied again under the new generation, and a restore to a moment between the
uploads of two merged segments takes the first of them only, and replays older transactions
over the newer ones of the snapshot. It refutes it with a reader and writes cut short as well
(`Env = {"reader"}`, `Calls = {"checkpoint"}`, a restore that ends inside its write of the
`-wal` file, then an auto-restore): the first blocks of the WAL that was copied again are
replayed over that same snapshot.

`NothingFromTheFutureHolds`, `RestoreIsNotStaleHolds` and `NothingForgottenHolds` relate what
is downloaded to buckets of earlier moments. They rest on one fact about writes: an object is
`Closed` if the manager is past it (its generation is over, or its index is below `NextIndex`),
and a `Closed` object is never written again, only deleted (`ClosedStep`), in which case the
download fails and with it the restore. Everything a manifest lists is closed (`StoredClosed`,
`SnapshotsClosed`). A failing upload breaks it, because its index is used again
(`manifest_upload_fails`), and so does a direct `snapshot`.

- The future (`DatesOK`, `FoundOK`): whatever a manifest, stored or in memory, stamps up to the
  moment is closed and holds nothing committed after it (`Sealed`); so is what the restore has
  chosen to download.
- The latest backup (`LatestOK`, `DownloadOK`): `latest` only moves forward, and the generation
  a restore has read from it keeps its snapshot. Up to the manifest, either that generation is
  still the latest, and what can be restored is added to `couldGive` at each step of the
  manager; or it is not, its manifest stays as it was (`RestoredOld`), and it was enough when
  it was the latest. From the manifest on there is one value for every segment
  still to come, which the bucket holds or no longer holds (`Partway`), and with these and the
  snapshot the restore will give `Enough`.
- The moment (`StampsOK`, `MomentOK`, `ReadingOK`): stamps of snapshots grow with the
  generations (`HasStamp`, `Begun`), so that, whatever the order in which manifests are read
  and whichever cannot be, the best one is of the generation of the moment, unless that one was
  `missed`. Until it is compacted, its manifest, in the bucket and in memory, can be cut
  such that the segments before the cut are those stamped up to the moment and give what could
  be restored then (`PointKept`); the cut is where the lists end when the moment is chosen
  (`Timely`, `Uploading`), and later uploads go behind it. Reading the manifest turns this into the
  list of closed segments of `DownloadOK`.

### Uploads in bytes

`UploadProofs` proves `AlignedLen` from `SizesAssumption`: the result of `wal_aligned_len`
is the end of a frame inside the file, and no complete frame lies after it, for lengths and
page sizes of any size (`Division` and `Product` give the arithmetic). From it and
`UploadAssumption` follows `TrackedWholeFrames`: `SyncInv` adds that between the two uploads
of `sync_wal` the bytes it has read end with a frame, which makes it inductive.

The other five hold for all features, any number of retries, failed calls and late
requests. Besides `SyncInv` their invariant `DAll` has:

- `TInv`: the types, and that every value stored or on its way is what
  `pipeline_encode` makes of a manifest or of bytes. `NothingIsMisread` needs no more: layers
  are taken off in the order they were put on, and a reader without the key or the codec
  gets an error or, without any key, the encrypted data. The assumption
  `FailedAssumption` says that the value that stands for an error is no object.
- `XInv`: a key of a segment that no failed call wrote is only ever sent one value, so that
  it does not matter how often or how late that lands. `AllDescribed` says so of the keys
  that any manifest lists, stored, in memory or on its way, and that the value is the range
  of its entry; `InTransit` of the key of the upload in progress; `Free` that beyond them
  nothing is stored or on its way. `Downloaded` and `Chunks` say what `compact` has read and
  written so far. From it follows `ListedSegmentsAreExact`.
- `DInv`: the stored manifest and its segments stay until the next manifest is stored,
  because only keys below `wal_index` that no manifest lists are deleted (`Kept`, `Begun`);
  unless `overtaken`, it reaches `wal_offset` and all it lists is stored (`Newest`); and manifests end
  where a sync ended, wherever compaction has cut (`Ends`). With the lemma `Joined`, that
  exact segments without gap join to the bytes from the first to the last, it gives
  `SyncedIsDurable`; `Ends` gives `StoredWholeFrames`.

### Only model-checked

- Liveness (`EventuallyBackedUp`, `EventuallyUploaded`), which is beyond the prover.
- That the hypotheses of the theorems are needed: the violations above and the counterexamples
  named in the text.

Each passing run is an instance of the hypotheses of the theorems about its properties; it
adds that these can be met and that the interesting cases happen under them.

## Not modelled, and the plan

Not modelled: statistics and errors, which have no state the backup depends on; the listings
of the command line tool; codecs, ciphers and HTTP, which are libraries; a clock that steps
back; late requests of one generation that land in the next (`latest`); the generation ids
themselves. Planned, in this order:

1. Restores beside failing uploads: a segment key that a failed call has written may change under
   a restore, which the proofs exclude with `NoFailures`; the state space of both together is
   too large for the run `restore`.
2. Late requests in `BackupManager` itself, with snapshots and `latest`, if the state space
   allows.
