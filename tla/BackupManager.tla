----------------------------- MODULE BackupManager -----------------------------
(***************************************************************************)
(* BackupManager (src/src/manager.rs): snapshots of the database file and  *)
(* segments of its WAL, uploaded to a bucket.                              *)
(*                                                                         *)
(* The methods take &mut self, so one call runs at a time: `api` is that   *)
(* call and `step` the await it has reached.  Between two awaits the       *)
(* application and other processes go on (App), and at any await the       *)
(* caller may drop the future ("cancel").                                  *)
(***************************************************************************)
EXTENDS Restore

CONSTANTS
  Calls,          \* the calls made, beside new and sync_wal
  SegmentSizes,   \* the max_segment_size values of compact, in blocks
  MaxSegments     \* bound: segments in a manifest

ASSUME CallsAssumption ==
  /\ Env \subseteq {"multi_frame", "rollback", "reader", "ext_checkpoint",
                    "s3_error", "get_error", "io_error", "cancel", "drop", "crash"}
  /\ Calls \subseteq {"snapshot", "checkpoint", "shutdown", "compact",
                      "enforce_retention"}
  /\ SegmentSizes \subseteq Nat \ {0}
  /\ MaxSegments \in Nat

VARIABLES
  running,            \* a BackupManager exists
  generation, wal_offset, wal_index, salt, manifest, shutdown_complete,
  api, step,          \* the call that runs and where it waits
  recovering,         \* the snapshot in progress is that of recover()
  data,               \* bytes read from the WAL or from the segments
  image,              \* what has been read of the database file
  newSegments, maxSize, keys, todo,   \* locals of compact; keys is its old ones
  victims, doomed,    \* generations, keys that enforce_retention has to delete
  seen,               \* history: commits when the sync in progress read the WAL
  acked               \* history: the last sync that returned Ok

\* has_read_transaction is readMark["waloy"] # NoRead.
tracking == <<generation, wal_offset, wal_index, salt, manifest>>
snapshotLocals == <<recovering, image>>
syncLocals == <<data, seen>>
compactLocals == <<newSegments, maxSize, keys, todo>>
retentionLocals == <<victims, doomed>>
locals == <<snapshotLocals, syncLocals, compactLocals, retentionLocals>>
call == <<api, step, locals>>
vars == <<sqliteVars, bucket, running, tracking, shutdown_complete, call, acked>>

NoSalt == 0

Apis == {"none", "new", "sync_wal", "snapshot", "checkpoint", "shutdown",
         "compact", "enforce_retention"}
Steps == {"idle", "put_segment", "put_segment_manifest", "wal_checkpoint",
          "read_db", "put_snapshot", "put_latest", "put_snapshot_manifest",
          "compact_get", "compact_put", "compact_manifest", "compact_delete",
          "retention_next", "retention_delete"}

Outcomes == {"ok"} \cup (IF "s3_error" \in Env THEN {"err"} ELSE {})
                   \cup (IF "cancel" \in Env THEN {"cancel"} ELSE {})
IoOutcomes == {"ok"} \cup (IF "io_error" \in Env THEN {"err"} ELSE {})

\* What an object holds.
ObjectTypeOK(k, v) ==
  /\ k[1] = "latest" => v \in Generations
  /\ k[1] = "snapshot" => v \subseteq Nat
  /\ k[1] = "manifest" => v \in Seq(SegmentMeta)
  /\ k[1] = "wal" => v \in Seq(Block)

BucketTypeOK ==
  /\ DOMAIN bucket \subseteq Keys
  /\ \A k \in DOMAIN bucket : ObjectTypeOK(k, bucket[k])

ManagerTypeOK ==
  /\ running \in BOOLEAN /\ shutdown_complete \in BOOLEAN
  /\ generation \in 0..MaxGenerations
  /\ wal_offset \in Nat /\ wal_index \in Nat /\ salt \in Nat
  /\ manifest \in Seq(SegmentMeta)
  /\ acked \in [gen : Nat, n : Nat]

CallTypeOK ==
  /\ api \in Apis /\ step \in Steps
  /\ recovering \in BOOLEAN /\ image \subseteq Nat
  /\ data \in Seq(Block) /\ seen \in Nat
  /\ newSegments \in Seq(SegmentMeta) /\ maxSize \in Nat
  /\ keys \in Seq(WalKeys) /\ todo \in Seq(WalKeys)
  /\ victims \subseteq Generations /\ doomed \subseteq Keys

TypeOK == SqliteTypeOK /\ BucketTypeOK /\ ManagerTypeOK /\ CallTypeOK

-----------------------------------------------------------------------------
(* Between calls. *)

ClearLocals ==
  /\ recovering' = FALSE /\ data' = <<>> /\ image' = {} /\ newSegments' = <<>>
  /\ maxSize' = 0 /\ keys' = <<>> /\ todo' = <<>> /\ victims' = {} /\ doomed' = {}
  /\ seen' = 0

Idle == api' = "none" /\ step' = "idle" /\ ClearLocals

\* Variant: the offset of the WAL before is kept.
ResetWalTrackingKeepingOffset ==
  wal_index' = 0 /\ salt' = NoSalt /\ UNCHANGED wal_offset

ResetWalTracking == wal_offset' = 0 /\ wal_index' = 0 /\ salt' = NoSalt

Init ==
  /\ SqliteInit
  /\ bucket = <<>>
  /\ running = FALSE /\ shutdown_complete = FALSE
  /\ generation = 0 /\ wal_offset = 0 /\ wal_index = 0 /\ salt = NoSalt
  /\ manifest = <<>>
  /\ api = "none" /\ step = "idle"
  /\ recovering = FALSE /\ data = <<>> /\ image = {} /\ newSegments = <<>>
  /\ maxSize = 0 /\ keys = <<>> /\ todo = <<>> /\ victims = {} /\ doomed = {}
  /\ seen = 0
  /\ acked = [gen |-> 0, n |-> 0]

Call(c) ==
  /\ running /\ step = "idle"
  /\ c \in Calls \cup {"sync_wal"}

Pin(mark) == readMark' = [readMark EXCEPT !["waloy"] = mark]

\* Variant: the read transaction is not begun again.
MarksWithoutBegin == {readMark["waloy"]}

\* begin_read_transaction and its error: the mark the connection then has.
MarksAfterBegin ==
  IF readMark["waloy"] # NoRead THEN {readMark["waloy"]}
  ELSE {NewMark} \cup (IF "io_error" \in Env THEN {NoRead} ELSE {})

\* Variant: the generation id is not replaced.
SameGeneration == manifest' = <<>> /\ UNCHANGED generation

\* A new generation with an empty manifest.
NewGeneration ==
  /\ generation < MaxGenerations
  /\ generation' = generation + 1
  /\ manifest' = <<>>

\* The first await of snapshot(): the database file is about to be read.
EnterSnapshot(c, rec, content) ==
  /\ api' = c /\ step' = "read_db"
  /\ recovering' = rec /\ image' = content
  /\ UNCHANGED <<syncLocals, compactLocals, retentionLocals>>

\* The manager is gone and its connection closed.
Gone ==
  /\ running' = FALSE /\ shutdown_complete' = FALSE
  /\ ResetWalTracking /\ manifest' = <<>>
  /\ Idle
  /\ UNCHANGED <<generation, acked>>

-----------------------------------------------------------------------------
(* new.  It fails before it does anything if the database has no table.     *)

New ==
  /\ ~running /\ commits > 0
  /\ running' = TRUE
  /\ ResetWalTracking /\ NewGeneration
  /\ Pin(NewMark)
  /\ EnterSnapshot("new", FALSE, db)
  /\ UNCHANGED <<sqliteFiles, bucket, shutdown_complete, acked>>

-----------------------------------------------------------------------------
(* sync_wal, and what its callers do when it returns: checkpoint goes on    *)
(* if it succeeded, shutdown in any case.  `mark` is the waloy read mark.   *)

SyncReturn(c, outcome, mark) ==
  \/ /\ \/ c = "sync_wal"
        \/ outcome = "cancel"
        \/ c = "checkpoint" /\ outcome = "err"
     /\ Pin(mark) /\ Idle
     /\ UNCHANGED shutdown_complete
  \/ /\ c = "shutdown" /\ outcome # "cancel"
     /\ Pin(NoRead) /\ Idle
     /\ shutdown_complete' = TRUE
  \/ /\ c = "checkpoint" /\ outcome = "ok"
     /\ Pin(NoRead)
     /\ api' = c /\ step' = "wal_checkpoint" /\ ClearLocals
     /\ UNCHANGED shutdown_complete

Synced(n) == acked' = [gen |-> generation, n |-> n]

\* Variant: the salt is not compared.
WalNeedsRecoveryOnShrink == wal_offset > 0 /\ Len(wal) < wal_offset

\* check_wal_discontinuity: the file is shorter than what was synced of it, or
\* its salt is not the one seen first.
WalNeedsRecovery ==
  \/ wal_offset > 0 /\ Len(wal) < wal_offset
  \/ salt # NoSalt /\ wal[1].id # salt

\* Variant: a WAL one block longer than what was synced passes for unchanged.
NothingNewOffByOne == Len(wal) <= wal_offset + 1

\* wal_aligned_len drops a block that is not complete: a block is here when it is.
NothingNew == Len(wal) <= wal_offset

\* Variant: the first new block is taken for the last one synced.
NewFramesSkippingOne == SubSeq(wal, wal_offset + 2, Len(wal))

NewFrames == SubSeq(wal, wal_offset + 1, Len(wal))

\* No WAL file, or the header alone.  A file that cannot be looked up counts as
\* missing.
NoWal == Len(wal) <= 1 \/ "io_error" \in Env

Recover(c) ==
  /\ NewGeneration
  /\ c = "checkpoint" => generation + 1 < MaxGenerations    \* bound
  /\ Pin(NoRead)
  /\ EnterSnapshot(c, TRUE, db)
  /\ UNCHANGED <<wal_offset, wal_index, salt, shutdown_complete, acked>>

ReadNewFrames(c) ==
  /\ salt' = wal[1].id
  /\ \/ /\ NothingNew
        /\ SyncReturn(c, "ok", readMark["waloy"])
        /\ Synced(commits)
        /\ UNCHANGED <<generation, wal_offset, wal_index, manifest>>
     \/ /\ ~NothingNew
        /\ wal_index <= MaxIndex /\ Len(manifest) < MaxSegments
        /\ data' = NewFrames
        /\ seen' = commits
        /\ api' = c /\ step' = "put_segment"
        /\ UNCHANGED <<readMark, generation, wal_offset, wal_index, manifest,
                       shutdown_complete, acked, snapshotLocals, compactLocals,
                       retentionLocals>>

SyncWal(c) ==
  /\ Call(c) /\ c \in {"sync_wal", "checkpoint", "shutdown"}
  /\ c = "shutdown" => ~shutdown_complete
  /\ c = "checkpoint" => generation < MaxGenerations        \* bound
  /\ \/ /\ NoWal
        /\ SyncReturn(c, "ok", readMark["waloy"])
        /\ Synced(commits)
        /\ UNCHANGED tracking
     \/ Len(wal) > 1 /\ WalNeedsRecovery /\ Recover(c)
     \/ Len(wal) > 1 /\ ~WalNeedsRecovery /\ ReadNewFrames(c)
     \/ /\ "io_error" \in Env
        /\ SyncReturn(c, "err", readMark["waloy"])
        /\ UNCHANGED <<tracking, acked>>
  /\ UNCHANGED <<sqliteFiles, bucket, running>>

PutSegment(outcome) ==
  /\ step = "put_segment"
  /\ PutObject(outcome, WalKey(generation, wal_index), data)
  /\ \/ /\ outcome = "ok"
        /\ manifest' = Append(manifest, [index |-> wal_index, offset |-> wal_offset,
                                         size |-> Len(data)])
        /\ step' = "put_segment_manifest"
        /\ UNCHANGED <<readMark, shutdown_complete, api, locals>>
     \/ /\ outcome # "ok"
        /\ SyncReturn(api, outcome, readMark["waloy"])
        /\ UNCHANGED manifest
  /\ UNCHANGED <<sqliteFiles, running, generation, wal_offset, wal_index, salt,
                 acked>>

PutSegmentManifest(outcome) ==
  /\ step = "put_segment_manifest"
  /\ PutObject(outcome, ManifestKey(generation), manifest)
  /\ SyncReturn(api, outcome, readMark["waloy"])
  /\ \/ /\ outcome = "ok"
        /\ wal_offset' = wal_offset + Len(data)
        /\ wal_index' = wal_index + 1
        /\ Synced(seen)
     \/ /\ outcome # "ok"
        /\ UNCHANGED <<wal_offset, wal_index, acked>>
  /\ UNCHANGED <<sqliteFiles, running, generation, salt, manifest>>

-----------------------------------------------------------------------------
(* checkpoint, once its sync has succeeded and the pin is released.         *)

\* Variant: the database file is read from before the checkpoint on.
ImageBeforeCheckpoint == db

\* The database file snapshot() finds: the checkpoint is over.
ImageAfterCheckpoint == db'

CheckpointWal ==
  /\ step = "wal_checkpoint"
  /\ \/ /\ WalCheckpoint(TRUE)
        /\ NewGeneration
        /\ EnterSnapshot(api, FALSE, ImageAfterCheckpoint)
     \/ /\ "io_error" \in Env
        /\ Idle
        /\ UNCHANGED <<sqliteFiles, generation, manifest>>
  /\ UNCHANGED <<readMark, bucket, running, wal_offset, wal_index, salt,
                 shutdown_complete, acked>>

-----------------------------------------------------------------------------
(* snapshot, called directly or by new, recover and checkpoint, and what    *)
(* these do when it returns.                                                *)

Snapshot ==
  /\ Call("snapshot")
  /\ EnterSnapshot("snapshot", FALSE, db)
  /\ UNCHANGED <<sqliteVars, bucket, running, tracking, shutdown_complete,
                 acked>>

\* new drops what it has built; recover re-acquires the pin only if the
\* snapshot succeeded, checkpoint always.
SnapshotReturn(outcome) ==
  \/ /\ api = "new" /\ outcome # "ok"
     /\ running' = FALSE
     /\ Pin(NoRead) /\ Idle
     /\ UNCHANGED shutdown_complete
  \/ /\ \/ api = "snapshot"
        \/ api = "new" /\ outcome = "ok"
        \/ api # "new" /\ outcome = "cancel"
     /\ Idle
     /\ UNCHANGED <<running, readMark, shutdown_complete>>
  \/ /\ recovering /\ outcome = "err"
     /\ SyncReturn(api, "err", readMark["waloy"])
     /\ UNCHANGED running
  \/ /\ recovering /\ outcome = "ok"
     /\ \E mark \in MarksAfterBegin :
          SyncReturn(api, IF mark = NoRead THEN "err" ELSE "ok", mark)
     /\ UNCHANGED running
  \/ /\ api = "checkpoint" /\ ~recovering /\ outcome # "cancel"
     /\ \E mark \in MarksAfterBegin : Pin(mark)
     /\ Idle
     /\ UNCHANGED <<running, shutdown_complete>>

\* The file is read while other processes may write to it: what is read lies
\* between its contents at the start and at the end.
ReadDb(outcome) ==
  /\ step = "read_db"
  /\ \/ /\ outcome = "ok"
        /\ \E x \in SUBSET db : image \subseteq x /\ image' = x
        /\ step' = "put_snapshot"
        /\ UNCHANGED <<running, readMark, shutdown_complete, api, recovering,
                       syncLocals, compactLocals, retentionLocals>>
     \/ outcome # "ok" /\ SnapshotReturn(outcome)
  /\ UNCHANGED <<sqliteFiles, bucket, tracking, acked>>

\* Variant: an error of the upload is not looked at.
PutSnapshotUnchecked(outcome) ==
  /\ step = "put_snapshot"
  /\ PutObject(outcome, SnapshotKey(generation), image)
  /\ step' = "put_latest"
  /\ UNCHANGED <<sqliteVars, running, tracking, shutdown_complete, api, locals,
                 acked>>

PutSnapshot(outcome) ==
  /\ step = "put_snapshot"
  /\ PutObject(outcome, SnapshotKey(generation), image)
  /\ \/ /\ outcome = "ok"
        /\ step' = "put_latest"
        /\ UNCHANGED <<running, readMark, shutdown_complete, api, locals>>
     \/ outcome # "ok" /\ SnapshotReturn(outcome)
  /\ UNCHANGED <<sqliteFiles, tracking, acked>>

PutLatest(outcome) ==
  /\ step = "put_latest"
  /\ PutObject(outcome, LatestKey, generation)
  /\ \/ /\ outcome = "ok"
        /\ ResetWalTracking
        /\ manifest' = <<>>
        /\ step' = "put_snapshot_manifest"
        /\ UNCHANGED <<running, readMark, shutdown_complete, api, locals>>
     \/ /\ outcome # "ok"
        /\ SnapshotReturn(outcome)
        /\ UNCHANGED <<wal_offset, wal_index, salt, manifest>>
  /\ UNCHANGED <<sqliteFiles, generation, acked>>

PutSnapshotManifest(outcome) ==
  /\ step = "put_snapshot_manifest"
  /\ PutObject(outcome, ManifestKey(generation), manifest)
  /\ SnapshotReturn(outcome)
  /\ UNCHANGED <<sqliteFiles, tracking, acked>>

-----------------------------------------------------------------------------
(* compact: download the segments of the manifest, upload them merged under *)
(* new indexes, publish the new manifest, delete the old segments.          *)

\* A call that only reads the bucket may end here, with an error or cancelled.
GetFails == Env \cap {"s3_error", "get_error", "cancel"} # {}

Compact(size) ==
  /\ Call("compact")
  /\ Len(manifest) > 1
  \* bound: an index is left for every sync that can still find new frames
  /\ LET last == manifest[Len(manifest)]
         chunks == (last.offset + last.size + size - 1) \div size
     IN wal_index + chunks + (MaxCommits - commits) <= MaxIndex
  /\ api' = "compact" /\ step' = "compact_get"
  /\ maxSize' = size /\ data' = <<>> /\ newSegments' = <<>>
  /\ keys' = [n \in DOMAIN manifest |-> WalKey(generation, manifest[n].index)]
  /\ todo' = keys'
  /\ UNCHANGED <<sqliteVars, bucket, running, tracking, shutdown_complete,
                 acked, snapshotLocals, seen, retentionLocals>>

CompactGet ==
  /\ step = "compact_get"
  /\ \/ /\ Stored(Head(todo))
        /\ data' = data \o bucket[Head(todo)]
        /\ todo' = Tail(todo)
        /\ step' = IF Len(todo) = 1 THEN "compact_put" ELSE "compact_get"
        /\ UNCHANGED <<api, snapshotLocals, newSegments, maxSize, keys,
                       retentionLocals, seen>>
     \/ /\ ~Stored(Head(todo)) \/ GetFails
        /\ Idle
  /\ UNCHANGED <<sqliteVars, bucket, running, tracking, shutdown_complete,
                 acked>>

\* Variant: the merged segments take the indexes of the old ones.
CompactIndexFromZero == Len(newSegments)

CompactIndex == wal_index + Len(newSegments)

\* Variant: a block is lost between two chunks.
CompactOffsetSkippingOne ==
  IF newSegments = <<>> THEN 0
  ELSE LET last == newSegments[Len(newSegments)] IN last.offset + last.size + 1

\* The next chunk starts where those before it end.
CompactOffset == IF newSegments = <<>> THEN 0
                 ELSE LET last == newSegments[Len(newSegments)] IN last.offset + last.size

CompactEnd == IF CompactOffset + maxSize < Len(data) THEN CompactOffset + maxSize
              ELSE Len(data)

CompactPut(outcome) ==
  /\ step = "compact_put"
  /\ CompactIndex <= MaxIndex
  /\ PutObject(outcome, WalKey(generation, CompactIndex),
               SubSeq(data, CompactOffset + 1, CompactEnd))
  /\ \/ /\ outcome = "ok"
        /\ newSegments' = Append(newSegments, [index |-> CompactIndex,
                                               offset |-> CompactOffset,
                                               size |-> CompactEnd - CompactOffset])
        /\ \/ /\ CompactEnd < Len(data)
              /\ UNCHANGED <<step, manifest>>
           \/ /\ CompactEnd = Len(data)
              /\ manifest' = newSegments'
              /\ step' = "compact_manifest"
        /\ UNCHANGED <<api, snapshotLocals, syncLocals, maxSize, keys, todo,
                       retentionLocals>>
     \/ outcome # "ok" /\ Idle /\ UNCHANGED manifest
  /\ UNCHANGED <<sqliteVars, running, generation, wal_offset, wal_index, salt,
                 shutdown_complete, acked>>

CompactManifest(outcome) ==
  /\ step = "compact_manifest"
  /\ PutObject(outcome, ManifestKey(generation), manifest)
  /\ \/ /\ outcome = "ok"
        /\ wal_index' = CompactIndex
        /\ todo' = keys
        /\ step' = "compact_delete"
        /\ UNCHANGED <<api, snapshotLocals, syncLocals, newSegments, maxSize,
                       keys, retentionLocals>>
     \/ outcome # "ok" /\ Idle /\ UNCHANGED wal_index
  /\ UNCHANGED <<sqliteVars, running, generation, wal_offset, salt, manifest,
                 shutdown_complete, acked>>

\* delete_objects deletes one key after the other and stops at an error.
CompactDelete(outcome) ==
  /\ step = "compact_delete"
  /\ DeleteObject(outcome, Head(todo))
  /\ \/ /\ outcome = "ok" /\ Len(todo) > 1
        /\ todo' = Tail(todo)
        /\ UNCHANGED <<api, step, snapshotLocals, syncLocals, newSegments,
                       maxSize, keys, retentionLocals>>
     \/ /\ outcome # "ok" \/ Len(todo) = 1
        /\ Idle
  /\ UNCHANGED <<sqliteVars, running, tracking, shutdown_complete, acked>>

-----------------------------------------------------------------------------
(* enforce_retention.  Generations are numbered in the order they were      *)
(* created: a cutoff time separates those below `cutoff` from the others.   *)

\* Variant: the current generation is not spared.
RetentionVictimsWithCurrent(cutoff) == {g \in Generations : Stored(ManifestKey(g)) /\ g < cutoff}

RetentionVictims(cutoff) ==
  {g \in Generations : /\ Stored(ManifestKey(g))
                       /\ g # generation
                       /\ g < cutoff}

EnforceRetention(cutoff) ==
  /\ Call("enforce_retention")
  /\ api' = "enforce_retention" /\ step' = "retention_next"
  /\ \E v \in SUBSET RetentionVictims(cutoff) :
       \* a manifest that cannot be fetched is passed over
       /\ GetFails \/ v = RetentionVictims(cutoff)
       /\ v # {}
       /\ victims' = v
  /\ UNCHANGED <<sqliteVars, bucket, running, tracking, shutdown_complete,
                 acked, snapshotLocals, syncLocals, compactLocals, doomed>>

\* delete_generation lists the keys of one generation...
RetentionNext ==
  /\ step = "retention_next"
  /\ \/ \E g \in victims :
          /\ doomed' = KeysOf(g)
          /\ victims' = victims \ {g}
          /\ step' = "retention_delete"
          /\ UNCHANGED <<api, snapshotLocals, syncLocals, compactLocals>>
     \/ GetFails /\ Idle
  /\ UNCHANGED <<sqliteVars, bucket, running, tracking, shutdown_complete,
                 acked>>

\* ... and deletes them in their order, then goes on to the next generation.
RetentionDelete(outcome) ==
  /\ step = "retention_delete"
  /\ \E k \in doomed :
       /\ \A x \in doomed : Before(k, x)
       /\ DeleteObject(outcome, k)
       /\ \/ /\ outcome = "ok"
             /\ doomed # {k} \/ victims # {}
             /\ doomed' = doomed \ {k}
             /\ step' = IF doomed = {k} THEN "retention_next" ELSE "retention_delete"
             /\ UNCHANGED <<api, snapshotLocals, syncLocals, compactLocals,
                            victims>>
          \/ /\ outcome # "ok" \/ (doomed = {k} /\ victims = {})
             /\ Idle
  /\ UNCHANGED <<sqliteVars, running, tracking, shutdown_complete, acked>>

-----------------------------------------------------------------------------
(* The end of a manager, and the system. *)

\* Drop releases the pin and uploads nothing.
Drop ==
  /\ "drop" \in Env \/ shutdown_complete
  /\ running /\ step = "idle"
  /\ Pin(NoRead)
  /\ Gone
  /\ UNCHANGED <<sqliteFiles, bucket>>

\* The process ends at any point.  An upload in flight has or has not landed:
\* as if the process had ended after or before that step.
Crash ==
  /\ "crash" \in Env
  /\ SqliteCrash
  /\ Gone
  /\ UNCHANGED bucket

Sync ==
  \/ \E c \in {"sync_wal", "checkpoint", "shutdown"} : SyncWal(c)
  \/ \E o \in Outcomes : PutSegment(o) \/ PutSegmentManifest(o)

TakeSnapshot ==
  \/ Snapshot
  \/ \E o \in Outcomes : PutSnapshot(o) \/ PutLatest(o) \/ PutSnapshotManifest(o)
  \/ \E o \in IoOutcomes \cup (Outcomes \ {"err"}) : ReadDb(o)

Compaction ==
  \/ \E size \in SegmentSizes : Compact(size)
  \/ CompactGet
  \/ \E o \in Outcomes : CompactPut(o) \/ CompactManifest(o) \/ CompactDelete(o)

Retention ==
  \/ \E cutoff \in 1..(MaxGenerations + 1) : EnforceRetention(cutoff)
  \/ RetentionNext
  \/ \E o \in Outcomes : RetentionDelete(o)

Manager == New \/ Sync \/ CheckpointWal \/ TakeSnapshot \/ Compaction \/ Retention

AppStep == App /\ UNCHANGED <<bucket, running, tracking, shutdown_complete,
                              call, acked>>

Next == AppStep \/ Manager \/ Drop \/ Crash

Spec == Init /\ [][Next]_vars

\* The calls an application's backup loop makes again and again, and the steps
\* of a call once it has begun.
CallStep == step # "idle" /\ Manager
Fairness == WF_vars(New) /\ WF_vars(SyncWal("sync_wal")) /\ WF_vars(CallStep)
FairSpec == Spec /\ Fairness
=============================================================================
