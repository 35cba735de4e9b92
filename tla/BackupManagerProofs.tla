-------------------------- MODULE BackupManagerProofs --------------------------
(***************************************************************************)
(* Proofs about BackupManager, for every value of its constants.           *)
(***************************************************************************)
EXTENDS BackupProperties, TLAPS

\* What the type invariant needs to be inductive: between which steps the
\* indexes are in bounds and the lists of keys are not empty.
StepOK ==
  /\ running => generation # 0
  /\ step # "idle" => running
  /\ step = "put_segment" => wal_index <= MaxIndex
  /\ step \in {"compact_get", "compact_delete"} => todo # <<>>
  /\ step \in {"compact_get", "compact_put", "compact_manifest"} => keys # <<>>
  /\ step = "compact_get" => newSegments = <<>>
  /\ step = "compact_put" => CompactOffset <= Len(data)

IInv == TypeOK /\ StepOK

-----------------------------------------------------------------------------
(* The bucket. *)

\* A typed object put under a key leaves the bucket typed.
LEMMA PutKeepsType ==
  ASSUME BucketTypeOK, NEW o, NEW k \in Keys, NEW v, ObjectTypeOK(k, v),
         PutObject(o, k, v)
  PROVE  BucketTypeOK'
  BY DEF BucketTypeOK, PutObject, ObjectTypeOK

\* So does a deletion.
LEMMA DeleteKeepsType ==
  ASSUME BucketTypeOK, NEW o, NEW k, DeleteObject(o, k)
  PROVE  BucketTypeOK'
  BY DEF BucketTypeOK, DeleteObject, ObjectTypeOK

\* The keys of a generation, and the kind that says what they hold.
LEMMA KeyTypes ==
  ASSUME NEW g \in Generations, NEW i \in Indexes
  PROVE  /\ LatestKey \in Keys /\ LatestKey[1] = "latest"
         /\ SnapshotKey(g) \in Keys /\ SnapshotKey(g)[1] = "snapshot"
         /\ ManifestKey(g) \in Keys /\ ManifestKey(g)[1] = "manifest"
         /\ WalKey(g, i) \in WalKeys /\ WalKey(g, i) \in Keys /\ WalKey(g, i)[1] = "wal"
  BY DEF Keys, WalKeys, LatestKey, SnapshotKey, ManifestKey, WalKey

-----------------------------------------------------------------------------
(* SQLite. *)

\* A frame written after a non-empty prefix of the file leaves it typed.
LEMMA WriteFrameType ==
  ASSUME SqliteTypeOK,
         NEW prefix \in Seq(Block), prefix # <<>>, Len(prefix) <= Len(wal) + 1,
         NEW kept \in Nat, kept <= Len(prefix),
         NEW backfilled \in Nat, backfilled <= kept,
         NEW id \in Nat, NEW c \in BOOLEAN,
         WriteFrame(prefix, kept, backfilled, id, c)
  PROVE  SqliteTypeOK'
<1> DEFINE frame == [id |-> id, prev |-> prefix[Len(prefix)].id,
                     tx |-> commits + 1, commit |-> c]
           written == Append(prefix, frame)
           rest == SubSeq(wal, Len(written) + 1, Len(wal))
<1>1. frame \in Block
  <2>1. prefix[Len(prefix)] \in Block
    OBVIOUS
  <2> QED BY <2>1 DEF Block, SqliteTypeOK
<1>2. written \in Seq(Block) /\ Len(written) = Len(prefix) + 1
  BY <1>1
<1>3. rest \in Seq(Block)
  BY <1>2 DEF SqliteTypeOK
<1>4. wal' = written \o rest
  BY DEF WriteFrame
<1>5. wal' \in Seq(Block) /\ Len(wal') >= Len(prefix) + 1
  <2> HIDE DEF written, rest
  <2> QED BY <1>2, <1>3, <1>4
<1>6. mxFrame' \in Nat /\ spilled' \in Nat /\ mxFrame' + spilled' <= Len(prefix) + 1
        /\ nBackfill' \in Nat /\ nBackfill' <= mxFrame'
  BY <1>2 DEF WriteFrame
<1>7. commits' \in Nat /\ lastId' \in Nat /\ UNCHANGED <<db, readMark>>
  BY DEF WriteFrame, SqliteTypeOK
<1>8. mxFrame' + spilled' <= Len(wal')
  <2>1. Len(wal') \in Nat /\ Len(prefix) \in Nat
    BY <1>5
  <2> QED BY <2>1, <1>5, <1>6
<1>9. db' \subseteq Nat /\ readMark' \in [Connections -> {NoRead} \cup Nat]
  BY <1>7 DEF SqliteTypeOK
<1> QED
  BY <1>5, <1>6, <1>7, <1>8, <1>9 DEF SqliteTypeOK

\* A checkpoint copies committed frames only, and keeps the database typed if
\* the read marks are.
LEMMA CheckpointType ==
  ASSUME SqliteTypeOK, NEW t \in BOOLEAN, WalCheckpoint(t), UNCHANGED readMark
  PROVE  SqliteTypeOK'
<1>1. Backfillable \in Nat /\ Backfillable <= mxFrame
  BY DEF Backfillable, UpTo, SqliteTypeOK, Connections, NoRead
<1>2. \A i \in 2..Backfillable : wal[i] \in Block
  BY <1>1 DEF SqliteTypeOK
<1>3. {wal[i].tx : i \in 2..Backfillable} \subseteq Nat
  BY <1>2 DEF Block
<1>4. db' \subseteq Nat
  BY <1>3 DEF WalCheckpoint, SqliteTypeOK
<1>5. \/ UNCHANGED <<wal, mxFrame, spilled>> /\ nBackfill' = Backfillable
      \/ wal' = <<>> /\ mxFrame' = 0 /\ spilled' = 0 /\ nBackfill' = 0
  BY DEF WalCheckpoint
<1>6. UNCHANGED <<commits, lastId, readMark>>
  BY DEF WalCheckpoint
<1>7. CASE UNCHANGED <<wal, mxFrame, spilled>> /\ nBackfill' = Backfillable
  BY <1>1, <1>4, <1>6, <1>7 DEF SqliteTypeOK
<1>8. CASE wal' = <<>> /\ mxFrame' = 0 /\ spilled' = 0 /\ nBackfill' = 0
  BY <1>4, <1>6, <1>8 DEF SqliteTypeOK
<1> QED
  BY <1>5, <1>7, <1>8

\* The application keeps the database typed.
LEMMA AppType ==
  ASSUME SqliteTypeOK, App
  PROVE  SqliteTypeOK'
<1>1. ASSUME NEW c \in BOOLEAN, AppAppend(c) PROVE SqliteTypeOK'
  <2> DEFINE used == mxFrame + spilled
  <2>1. used \in Nat /\ used > 0 /\ used <= Len(wal) /\ wal \in Seq(Block)
    BY <1>1 DEF AppAppend, SqliteTypeOK
  <2>2. SubSeq(wal, 1, used) \in Seq(Block) /\ Len(SubSeq(wal, 1, used)) = used
    BY <2>1
  <2> DEFINE prefix == SubSeq(wal, 1, used)
  <2>3. WriteFrame(prefix, mxFrame, nBackfill, lastId + 1, c)
    BY <1>1 DEF AppAppend
  <2>4. /\ mxFrame \in Nat /\ nBackfill \in Nat /\ nBackfill <= mxFrame
        /\ lastId + 1 \in Nat /\ mxFrame <= Len(prefix) /\ Len(prefix) <= Len(wal) + 1
        /\ prefix # <<>>
    BY <2>1, <2>2 DEF SqliteTypeOK
  <2> HIDE DEF prefix
  <2> QED BY <2>2, <2>3, <2>4, WriteFrameType DEF prefix
<1>2. ASSUME NEW c \in BOOLEAN, AppRestartWal(c) PROVE SqliteTypeOK'
  <2> DEFINE header == [id |-> lastId + 1, prev |-> 0, tx |-> commits, commit |-> TRUE]
         prefix == <<header>>
  <2>1. header \in Block /\ lastId + 2 \in Nat
    BY DEF Block, SqliteTypeOK
  <2>2. prefix \in Seq(Block) /\ Len(prefix) = 1 /\ prefix # <<>>
    BY <2>1
  <2>z. PICK z \in Nat : z = 0
    OBVIOUS
  <2>3. WriteFrame(prefix, z, z, lastId + 2, c)
    BY <1>2, <2>z DEF AppRestartWal
  <2>4. Len(prefix) <= Len(wal) + 1 /\ z <= Len(prefix) /\ z <= z
    BY <2>z, <2>2 DEF SqliteTypeOK
  <2> HIDE DEF prefix
  <2> QED BY <2>1, <2>2, <2>3, <2>4, WriteFrameType
<1>3. ASSUME NEW c \in BOOLEAN, AppRewriteHeader(c) PROVE SqliteTypeOK'
  <2> DEFINE prefix == <<wal[1]>>
  <2>1. prefix \in Seq(Block) /\ Len(prefix) = 1 /\ prefix # <<>>
    BY <1>3 DEF AppRewriteHeader, SqliteTypeOK
  <2>z. PICK z \in Nat : z = 0
    OBVIOUS
  <2>2. WriteFrame(prefix, z, z, lastId + 1, c) /\ lastId + 1 \in Nat
    BY <1>3, <2>z DEF AppRewriteHeader, SqliteTypeOK
  <2>3. Len(prefix) <= Len(wal) + 1 /\ z <= Len(prefix) /\ z <= z
    BY <2>z, <2>1 DEF SqliteTypeOK
  <2> HIDE DEF prefix
  <2> QED BY <2>1, <2>2, <2>3, WriteFrameType
<1>4. CASE AppRollback
  BY <1>4 DEF AppRollback, SqliteTypeOK
<1>5. CASE AppReadBegin
  BY <1>5 DEF AppReadBegin, NewMark, SqliteTypeOK
<1>6. CASE AppReadEnd
  BY <1>6 DEF AppReadEnd, SqliteTypeOK
<1>7. ASSUME NEW t \in BOOLEAN, AppCheckpoint(t) PROVE SqliteTypeOK'
  BY <1>7, CheckpointType DEF AppCheckpoint
<1> QED
  BY <1>1, <1>2, <1>3, <1>4, <1>5, <1>6, <1>7 DEF App

\* So does the crash of every process.
LEMMA CrashType ==
  ASSUME SqliteTypeOK, SqliteCrash
  PROVE  SqliteTypeOK'
  BY DEF SqliteCrash, SqliteTypeOK

-----------------------------------------------------------------------------
(* What the manager's calls share. *)

\* Changing the read marks only keeps the database typed.
LEMMA MarksKeepType ==
  ASSUME SqliteTypeOK, UNCHANGED sqliteFiles,
         readMark' \in [Connections -> {NoRead} \cup Nat]
  PROVE  SqliteTypeOK'
  BY DEF SqliteTypeOK, sqliteFiles

\* The pin is a read mark.
LEMMA PinType ==
  ASSUME SqliteTypeOK, NEW mark \in {NoRead} \cup Nat, Pin(mark)
  PROVE  readMark' \in [Connections -> {NoRead} \cup Nat]
  BY DEF SqliteTypeOK, Pin

\* The marks a read transaction can have, and the one the pin has.
LEMMA MarkTypes ==
  ASSUME SqliteTypeOK
  PROVE  /\ NewMark \in Nat
         /\ readMark["waloy"] \in {NoRead} \cup Nat
         /\ MarksAfterBegin \subseteq {NoRead} \cup Nat
  BY DEF SqliteTypeOK, NewMark, MarksAfterBegin, Connections

\* Cleared locals are typed.
LEMMA ClearLocalsType ==
  ASSUME ClearLocals, api' \in Apis, step' \in Steps
  PROVE  CallTypeOK'
<1>1. recovering' \in BOOLEAN /\ image' \subseteq Nat
  BY DEF ClearLocals
<1>2. data' \in Seq(Block) /\ seen' \in Nat
  BY DEF ClearLocals
<1>3. newSegments' \in Seq(SegmentMeta) /\ maxSize' \in Nat
  BY DEF ClearLocals
<1>4. keys' \in Seq(WalKeys) /\ todo' \in Seq(WalKeys)
  BY DEF ClearLocals
<1>5. victims' \subseteq Generations /\ doomed' \subseteq Keys
  BY DEF ClearLocals
<1> QED BY <1>1, <1>2, <1>3, <1>4, <1>5 DEF CallTypeOK

\* A call that ends leaves its locals typed.
LEMMA IdleType ==
  ASSUME Idle
  PROVE  CallTypeOK' /\ step' = "idle"
  BY ClearLocalsType DEF Idle, Apis, Steps

\* sync_wal returns to its caller or goes on with the checkpoint.
LEMMA SyncReturnType ==
  ASSUME TypeOK, NEW c \in Apis, NEW o, NEW mark \in {NoRead} \cup Nat,
         SyncReturn(c, o, mark)
  PROVE  /\ CallTypeOK' /\ step' \in {"idle", "wal_checkpoint"}
         /\ readMark' \in [Connections -> {NoRead} \cup Nat]
         /\ shutdown_complete' \in BOOLEAN
<1>1. CASE Pin(mark) /\ Idle /\ UNCHANGED shutdown_complete
  BY <1>1, IdleType, PinType DEF TypeOK, ManagerTypeOK
<1>2. CASE Pin(NoRead) /\ Idle /\ shutdown_complete' = TRUE
  BY <1>2, IdleType, PinType DEF TypeOK
<1>3. CASE /\ Pin(NoRead) /\ api' = c /\ step' = "wal_checkpoint" /\ ClearLocals
           /\ UNCHANGED shutdown_complete
  <2>1. CallTypeOK'
    BY <1>3, ClearLocalsType DEF Steps
  <2> QED BY <1>3, <2>1, PinType DEF TypeOK, ManagerTypeOK
<1> QED BY <1>1, <1>2, <1>3 DEF SyncReturn

\* snapshot returns to its caller, which may go on with a checkpoint.
LEMMA SnapshotReturnType ==
  ASSUME TypeOK, NEW o, SnapshotReturn(o)
  PROVE  /\ CallTypeOK' /\ step' \in {"idle", "wal_checkpoint"}
         /\ readMark' \in [Connections -> {NoRead} \cup Nat]
         /\ shutdown_complete' \in BOOLEAN
         /\ running' \in BOOLEAN /\ (running' => running)
         /\ step' = "wal_checkpoint" => UNCHANGED running
<1> USE DEF TypeOK, ManagerTypeOK
<1>1. CASE running' = FALSE /\ Pin(NoRead) /\ Idle /\ UNCHANGED shutdown_complete
  BY <1>1, IdleType, PinType
<1>2. CASE Idle /\ UNCHANGED <<running, readMark, shutdown_complete>>
  BY <1>2, IdleType DEF SqliteTypeOK
<1>3. CASE SyncReturn(api, "err", readMark["waloy"]) /\ UNCHANGED running
  BY <1>3, SyncReturnType, MarkTypes DEF CallTypeOK
<1>4. CASE /\ \E mark \in MarksAfterBegin :
                SyncReturn(api, IF mark = NoRead THEN "err" ELSE "ok", mark)
           /\ UNCHANGED running
  BY <1>4, SyncReturnType, MarkTypes DEF CallTypeOK
<1>5. CASE /\ \E mark \in MarksAfterBegin : Pin(mark)
           /\ Idle /\ UNCHANGED <<running, shutdown_complete>>
  BY <1>5, IdleType, PinType, MarkTypes
<1> QED BY <1>1, <1>2, <1>3, <1>4, <1>5 DEF SnapshotReturn

\* A snapshot begins with a typed image and no other change of the locals.
LEMMA EnterSnapshotType ==
  ASSUME CallTypeOK, NEW c \in Apis, NEW rec \in BOOLEAN, NEW content,
         content \subseteq Nat, EnterSnapshot(c, rec, content)
  PROVE  CallTypeOK' /\ step' = "read_db"
  BY DEF EnterSnapshot, CallTypeOK, Steps, syncLocals, compactLocals, retentionLocals

\* A new generation is one of the bounded ids.
LEMMA NewGenerationType ==
  ASSUME ManagerTypeOK, NewGeneration
  PROVE  generation' \in Generations /\ generation' \in 0..MaxGenerations
         /\ generation' # 0 /\ manifest' \in Seq(SegmentMeta)
  BY KeysAssumption DEF ManagerTypeOK, NewGeneration, Generations

\* In most steps all that is left to show of StepOK is that a manager exists.
LEMMA OtherStepOK ==
  ASSUME step' \notin {"put_segment", "compact_get", "compact_put", "compact_manifest",
                       "compact_delete"},
         running' => generation' # 0,
         step' # "idle" => running'
  PROVE  StepOK'
  BY DEF StepOK

\* While a call runs, the current generation has a key.
LEMMA CurrentGeneration ==
  ASSUME TypeOK, StepOK, running
  PROVE  generation \in Generations
  BY KeysAssumption DEF TypeOK, ManagerTypeOK, StepOK, Generations

-----------------------------------------------------------------------------
(* One step lemma per method. *)

\* new preserves the invariant.
LEMMA NewInv ==
  ASSUME TypeOK, StepOK, New
  PROVE  TypeOK' /\ StepOK'
<1>1. SqliteTypeOK'
  BY PinType, MarkTypes, MarksKeepType DEF TypeOK, New
<1>2. BucketTypeOK'
  BY DEF TypeOK, New, BucketTypeOK, ObjectTypeOK
<1>3. ManagerTypeOK' /\ generation' # 0
  <2>1. generation' \in 0..MaxGenerations /\ generation' # 0 /\ manifest' \in Seq(SegmentMeta)
    BY NewGenerationType DEF TypeOK, New
  <2> QED BY <2>1 DEF TypeOK, New, ManagerTypeOK, ResetWalTracking, NoSalt
<1>4. CallTypeOK' /\ step' = "read_db"
  BY EnterSnapshotType DEF TypeOK, New, SqliteTypeOK, Apis
<1>5. StepOK'
  BY <1>3, <1>4, OtherStepOK DEF New
<1> QED BY <1>1, <1>2, <1>3, <1>4, <1>5 DEF TypeOK

\* The first step of sync_wal, up to its upload, preserves the invariant.
LEMMA SyncWalInv ==
  ASSUME TypeOK, StepOK, NEW c, SyncWal(c)
  PROVE  TypeOK' /\ StepOK'
<1>1. c \in Apis /\ running /\ running' = running /\ generation \in Generations
  BY CurrentGeneration DEF SyncWal, Call, Apis
<1>2. BucketTypeOK'
  BY DEF TypeOK, SyncWal, BucketTypeOK, ObjectTypeOK
<1>3. UNCHANGED sqliteFiles /\ readMark["waloy"] \in {NoRead} \cup Nat
  BY MarkTypes DEF TypeOK, SyncWal
<1>4. ASSUME NEW o, SyncReturn(c, o, readMark["waloy"]),
             UNCHANGED <<generation, wal_offset, wal_index, manifest>>,
             salt' \in Nat, acked' \in [gen : Nat, n : Nat]
      PROVE  TypeOK' /\ StepOK'
  <2>1. /\ CallTypeOK' /\ step' \in {"idle", "wal_checkpoint"}
        /\ readMark' \in [Connections -> {NoRead} \cup Nat]
        /\ shutdown_complete' \in BOOLEAN
    BY <1>1, <1>3, <1>4, SyncReturnType
  <2>2. SqliteTypeOK'
    BY <1>3, <2>1, MarksKeepType DEF TypeOK
  <2>3. ManagerTypeOK'
    BY <1>1, <1>4, <2>1 DEF TypeOK, ManagerTypeOK
  <2>4. StepOK'
    BY <1>1, <1>4, <2>1, OtherStepOK DEF StepOK
  <2> QED BY <1>2, <2>1, <2>2, <2>3, <2>4 DEF TypeOK
<1>5. ASSUME NEW n \in Nat, Synced(n) PROVE acked' \in [gen : Nat, n : Nat]
  BY <1>5 DEF Synced, TypeOK, ManagerTypeOK
<1>6. CASE NoWal /\ SyncReturn(c, "ok", readMark["waloy"]) /\ Synced(commits)
             /\ UNCHANGED tracking
  BY <1>4, <1>5, <1>6 DEF tracking, TypeOK, ManagerTypeOK, SqliteTypeOK
<1>7. CASE SyncReturn(c, "err", readMark["waloy"]) /\ UNCHANGED <<tracking, acked>>
  BY <1>4, <1>7 DEF tracking, TypeOK, ManagerTypeOK
<1>8. CASE Recover(c)
  <2>1. SqliteTypeOK'
    BY <1>3, <1>8, PinType, MarksKeepType DEF TypeOK, Recover
  <2>2. generation' \in 0..MaxGenerations /\ generation' # 0 /\ manifest' \in Seq(SegmentMeta)
    BY <1>8, NewGenerationType DEF TypeOK, Recover
  <2>3. ManagerTypeOK'
    BY <1>1, <1>8, <2>2 DEF TypeOK, Recover, ManagerTypeOK
  <2>4. CallTypeOK' /\ step' = "read_db"
    BY <1>1, <1>8, EnterSnapshotType DEF TypeOK, Recover, SqliteTypeOK
  <2>5. StepOK'
    BY <1>1, <2>2, <2>4, OtherStepOK
  <2> QED BY <1>2, <2>1, <2>3, <2>4, <2>5 DEF TypeOK
<1>9. CASE Len(wal) > 1 /\ ReadNewFrames(c)
  <2>1. salt' \in Nat
    <3>1. wal[1] \in Block
      BY <1>9 DEF TypeOK, SqliteTypeOK
    <3> QED BY <1>9, <3>1 DEF ReadNewFrames, Block
  <2>2. CASE /\ SyncReturn(c, "ok", readMark["waloy"]) /\ Synced(commits)
             /\ UNCHANGED <<generation, wal_offset, wal_index, manifest>>
    BY <1>4, <1>5, <2>1, <2>2 DEF TypeOK, SqliteTypeOK
  <2>3. CASE /\ wal_index <= MaxIndex /\ data' = NewFrames /\ seen' = commits
             /\ api' = c /\ step' = "put_segment"
             /\ UNCHANGED <<readMark, generation, wal_offset, wal_index, manifest,
                            shutdown_complete, acked, snapshotLocals, compactLocals,
                            retentionLocals>>
    <3>1. SqliteTypeOK'
      BY <1>3, <2>3, MarksKeepType DEF TypeOK, SqliteTypeOK
    <3>2. ManagerTypeOK'
      BY <1>1, <2>1, <2>3 DEF TypeOK, ManagerTypeOK
    <3>3. NewFrames \in Seq(Block)
      BY DEF NewFrames, TypeOK, ManagerTypeOK, SqliteTypeOK
    <3>4. CallTypeOK'
      BY <1>1, <2>3, <3>3 DEF TypeOK, CallTypeOK, SqliteTypeOK, Steps, snapshotLocals,
                              compactLocals, retentionLocals
    <3>5. StepOK'
      BY <1>1, <2>3 DEF StepOK
    <3> QED BY <1>2, <3>1, <3>2, <3>4, <3>5 DEF TypeOK
  <2> QED BY <1>9, <2>2, <2>3 DEF ReadNewFrames
<1> QED BY <1>6, <1>7, <1>8, <1>9 DEF SyncWal

\* So does the upload of a segment...
LEMMA PutSegmentInv ==
  ASSUME TypeOK, StepOK, NEW o, PutSegment(o)
  PROVE  TypeOK' /\ StepOK'
<1>1. running /\ running' = running /\ generation \in Generations
        /\ generation # 0 /\ wal_index \in Indexes
  BY CurrentGeneration DEF PutSegment, StepOK, TypeOK, ManagerTypeOK, Indexes
<1>2. UNCHANGED <<sqliteFiles, generation, wal_offset, wal_index, salt, acked>>
  BY DEF PutSegment
<1>3. BucketTypeOK'
  <2>1. ObjectTypeOK(WalKey(generation, wal_index), data)
    BY DEF ObjectTypeOK, WalKey, TypeOK, CallTypeOK
  <2> QED BY <1>1, <2>1, KeyTypes, PutKeepsType DEF PutSegment, TypeOK
<1>4. CASE /\ manifest' = Append(manifest, [index |-> wal_index, offset |-> wal_offset,
                                            size |-> Len(data)])
           /\ step' = "put_segment_manifest"
           /\ UNCHANGED <<readMark, shutdown_complete, api, locals>>
  <2>1. [index |-> wal_index, offset |-> wal_offset, size |-> Len(data)] \in SegmentMeta
    BY <1>1 DEF SegmentMeta, TypeOK, ManagerTypeOK, CallTypeOK
  <2>2. manifest' \in Seq(SegmentMeta)
    BY <1>4, <2>1 DEF TypeOK, ManagerTypeOK
  <2>3. ManagerTypeOK'
    BY <1>1, <1>2, <1>4, <2>2 DEF TypeOK, ManagerTypeOK
  <2>4. CallTypeOK'
    BY <1>4 DEF TypeOK, CallTypeOK, Steps, locals, snapshotLocals, syncLocals,
                compactLocals, retentionLocals
  <2>5. SqliteTypeOK'
    BY <1>2, <1>4, MarksKeepType DEF TypeOK, SqliteTypeOK
  <2>6. StepOK'
    BY <1>1, <1>2, <1>4, OtherStepOK
  <2> QED BY <1>3, <2>3, <2>4, <2>5, <2>6 DEF TypeOK
<1>5. CASE SyncReturn(api, o, readMark["waloy"]) /\ UNCHANGED manifest
  <2>1. /\ CallTypeOK' /\ step' \in {"idle", "wal_checkpoint"}
        /\ readMark' \in [Connections -> {NoRead} \cup Nat]
        /\ shutdown_complete' \in BOOLEAN
    BY <1>5, MarkTypes, SyncReturnType DEF TypeOK, CallTypeOK
  <2>2. SqliteTypeOK'
    BY <1>2, <2>1, MarksKeepType DEF TypeOK
  <2>3. ManagerTypeOK'
    BY <1>1, <1>2, <1>5, <2>1 DEF TypeOK, ManagerTypeOK
  <2>4. StepOK'
    BY <1>1, <1>2, <2>1, OtherStepOK
  <2> QED BY <1>3, <2>1, <2>2, <2>3, <2>4 DEF TypeOK
<1> QED BY <1>4, <1>5 DEF PutSegment

\* ... and that of the manifest that lists it.
LEMMA PutSegmentManifestInv ==
  ASSUME TypeOK, StepOK, NEW o, PutSegmentManifest(o)
  PROVE  TypeOK' /\ StepOK'
<1>1. running /\ running' = running /\ generation \in Generations /\ generation # 0
  BY CurrentGeneration DEF PutSegmentManifest, StepOK
<1>2. UNCHANGED <<sqliteFiles, generation, salt, manifest>>
  BY DEF PutSegmentManifest
<1>3. BucketTypeOK'
  <2>1. ObjectTypeOK(ManifestKey(generation), manifest) /\ ManifestKey(generation) \in Keys
    BY <1>1 DEF ObjectTypeOK, ManifestKey, Keys, TypeOK, ManagerTypeOK
  <2> QED BY <2>1, PutKeepsType DEF PutSegmentManifest, TypeOK
<1>4. /\ CallTypeOK' /\ step' \in {"idle", "wal_checkpoint"}
      /\ readMark' \in [Connections -> {NoRead} \cup Nat]
      /\ shutdown_complete' \in BOOLEAN
  BY MarkTypes, SyncReturnType DEF PutSegmentManifest, TypeOK, CallTypeOK
<1>5. wal_offset' \in Nat /\ wal_index' \in Nat /\ acked' \in [gen : Nat, n : Nat]
  BY DEF PutSegmentManifest, Synced, TypeOK, ManagerTypeOK, CallTypeOK
<1>6. SqliteTypeOK'
  BY <1>2, <1>4, MarksKeepType DEF TypeOK
<1>7. ManagerTypeOK'
  BY <1>1, <1>2, <1>4, <1>5 DEF TypeOK, ManagerTypeOK
<1>8. StepOK'
  BY <1>1, <1>2, <1>4, OtherStepOK
<1> QED BY <1>3, <1>4, <1>6, <1>7, <1>8 DEF TypeOK

\* The PRAGMA of checkpoint preserves the invariant.
LEMMA CheckpointWalInv ==
  ASSUME TypeOK, StepOK, CheckpointWal
  PROVE  TypeOK' /\ StepOK'
<1>1. running /\ running' = running /\ generation \in Generations /\ generation # 0
  BY CurrentGeneration DEF CheckpointWal, StepOK
<1>2. BucketTypeOK' /\ UNCHANGED <<readMark, wal_offset, wal_index, salt,
                                   shutdown_complete, acked>>
  BY DEF TypeOK, CheckpointWal, BucketTypeOK, ObjectTypeOK
<1>3. CASE WalCheckpoint(TRUE) /\ NewGeneration /\ EnterSnapshot(api, FALSE, ImageAfterCheckpoint)
  <2>1. SqliteTypeOK'
    BY <1>2, <1>3, CheckpointType DEF TypeOK
  <2>2. db' \subseteq Nat
    BY <2>1 DEF SqliteTypeOK
  <2>3. generation' \in 0..MaxGenerations /\ generation' # 0 /\ manifest' \in Seq(SegmentMeta)
    BY <1>3, NewGenerationType DEF TypeOK
  <2>4. ManagerTypeOK'
    BY <1>1, <1>2, <2>3 DEF TypeOK, ManagerTypeOK
  <2>5. CallTypeOK' /\ step' = "read_db"
    BY <1>3, <2>2 DEF TypeOK, CallTypeOK, EnterSnapshot, ImageAfterCheckpoint, Steps,
                      syncLocals, compactLocals, retentionLocals
  <2>6. StepOK'
    BY <1>1, <2>3, <2>5, OtherStepOK
  <2> QED BY <1>2, <2>1, <2>4, <2>5, <2>6 DEF TypeOK
<1>4. CASE Idle /\ UNCHANGED <<sqliteFiles, generation, manifest>>
  <2>1. CallTypeOK' /\ step' = "idle"
    BY <1>4, IdleType
  <2>2. SqliteTypeOK'
    BY <1>2, <1>4, MarksKeepType DEF TypeOK, SqliteTypeOK
  <2>3. ManagerTypeOK'
    BY <1>1, <1>2, <1>4 DEF TypeOK, ManagerTypeOK
  <2>4. StepOK'
    BY <1>1, <1>4, <2>1, OtherStepOK
  <2> QED BY <1>2, <2>1, <2>2, <2>3, <2>4 DEF TypeOK
<1> QED BY <1>3, <1>4 DEF CheckpointWal

\* A step of snapshot() that goes on to the next one, or returns, preserves
\* the invariant if the bucket and the manager's fields stay typed.
LEMMA SnapshotStepInv ==
  ASSUME TypeOK, StepOK, step # "idle", BucketTypeOK',
         UNCHANGED <<sqliteFiles, generation, acked>>,
         wal_offset' \in Nat, wal_index' \in Nat, salt' \in Nat,
         manifest' \in Seq(SegmentMeta), NEW o,
         \/ /\ step' \in {"put_snapshot", "put_latest", "put_snapshot_manifest"}
            /\ image' \subseteq Nat
            /\ UNCHANGED <<running, readMark, shutdown_complete, api, recovering,
                           syncLocals, compactLocals, retentionLocals>>
         \/ SnapshotReturn(o)
  PROVE  TypeOK' /\ StepOK'
<1>1. running /\ generation # 0
  BY DEF StepOK
<1>2. CASE /\ step' \in {"put_snapshot", "put_latest", "put_snapshot_manifest"}
           /\ image' \subseteq Nat
           /\ UNCHANGED <<running, readMark, shutdown_complete, api, recovering,
                          syncLocals, compactLocals, retentionLocals>>
  <2>1. CallTypeOK'
    BY <1>2 DEF TypeOK, CallTypeOK, Steps, syncLocals, compactLocals, retentionLocals
  <2>2. SqliteTypeOK'
    BY <1>2, MarksKeepType DEF TypeOK, SqliteTypeOK
  <2>3. ManagerTypeOK'
    BY <1>2 DEF TypeOK, ManagerTypeOK
  <2>4. StepOK'
    BY <1>1, <1>2, OtherStepOK
  <2> QED BY <2>1, <2>2, <2>3, <2>4 DEF TypeOK
<1>3. CASE SnapshotReturn(o)
  <2>1. /\ CallTypeOK' /\ step' \in {"idle", "wal_checkpoint"}
        /\ readMark' \in [Connections -> {NoRead} \cup Nat]
        /\ shutdown_complete' \in BOOLEAN
        /\ running' \in BOOLEAN /\ (running' => running)
        /\ step' = "wal_checkpoint" => UNCHANGED running
    BY <1>3, SnapshotReturnType
  <2>2. SqliteTypeOK'
    BY <2>1, MarksKeepType DEF TypeOK
  <2>3. ManagerTypeOK'
    BY <2>1 DEF TypeOK, ManagerTypeOK
  <2>4. StepOK'
    BY <1>1, <2>1, OtherStepOK
  <2> QED BY <2>1, <2>2, <2>3, <2>4 DEF TypeOK
<1> QED BY <1>2, <1>3

\* The methods and uploads that make a snapshot preserve the invariant.
LEMMA TakeSnapshotInv ==
  ASSUME TypeOK, StepOK, TakeSnapshot
  PROVE  TypeOK' /\ StepOK'
<1> USE DEF TypeOK
<1>1. CASE Snapshot
  <2>1. running /\ running' = running /\ generation # 0 /\ UNCHANGED generation
    BY <1>1 DEF Snapshot, Call, StepOK, tracking
  <2>2. CallTypeOK' /\ step' = "read_db"
    BY <1>1, EnterSnapshotType DEF Snapshot, SqliteTypeOK, Apis
  <2>3. SqliteTypeOK'
    BY <1>1, MarksKeepType DEF Snapshot, SqliteTypeOK, sqliteVars
  <2>4. BucketTypeOK' /\ ManagerTypeOK'
    BY <1>1 DEF Snapshot, BucketTypeOK, ObjectTypeOK, ManagerTypeOK, tracking
  <2>5. StepOK'
    BY <2>1, <2>2, OtherStepOK
  <2> QED BY <2>2, <2>3, <2>4, <2>5
<1>2. ASSUME NEW o, PutSnapshot(o) PROVE TypeOK' /\ StepOK'
  <2>1. running /\ generation \in Generations
    BY <1>2, CurrentGeneration DEF PutSnapshot, StepOK
  <2>2. ObjectTypeOK(SnapshotKey(generation), image) /\ SnapshotKey(generation) \in Keys
    BY <2>1 DEF ObjectTypeOK, SnapshotKey, Keys, CallTypeOK
  <2>3. BucketTypeOK'
    BY <1>2, <2>2, PutKeepsType DEF PutSnapshot
  <2> QED BY <1>2, <2>3, SnapshotStepInv
          DEF PutSnapshot, ManagerTypeOK, CallTypeOK, tracking, locals, snapshotLocals
<1>3. ASSUME NEW o, PutLatest(o) PROVE TypeOK' /\ StepOK'
  <2>1. running /\ generation \in Generations
    BY <1>3, CurrentGeneration DEF PutLatest, StepOK
  <2>2. ObjectTypeOK(LatestKey, generation) /\ LatestKey \in Keys
    BY <2>1 DEF ObjectTypeOK, LatestKey, Keys
  <2>3. BucketTypeOK'
    BY <1>3, <2>2, PutKeepsType DEF PutLatest
  <2>4. wal_offset' \in Nat /\ wal_index' \in Nat /\ salt' \in Nat
          /\ manifest' \in Seq(SegmentMeta)
    <3>1. CASE ResetWalTracking /\ manifest' = <<>>
      BY <3>1 DEF ResetWalTracking, NoSalt
    <3>2. CASE UNCHANGED <<wal_offset, wal_index, salt, manifest>>
      BY <3>2 DEF ManagerTypeOK
    <3> QED BY <1>3, <3>1, <3>2 DEF PutLatest
  <2> QED BY <1>3, <2>3, <2>4, SnapshotStepInv
          DEF PutLatest, CallTypeOK, locals, snapshotLocals
<1>4. ASSUME NEW o, PutSnapshotManifest(o) PROVE TypeOK' /\ StepOK'
  <2>1. running /\ generation \in Generations
    BY <1>4, CurrentGeneration DEF PutSnapshotManifest, StepOK
  <2>2. ObjectTypeOK(ManifestKey(generation), manifest) /\ ManifestKey(generation) \in Keys
    BY <2>1 DEF ObjectTypeOK, ManifestKey, Keys, ManagerTypeOK
  <2>3. BucketTypeOK'
    BY <1>4, <2>2, PutKeepsType DEF PutSnapshotManifest
  <2> QED BY <1>4, <2>3, SnapshotStepInv
          DEF PutSnapshotManifest, ManagerTypeOK, tracking
<1>5. ASSUME NEW o, ReadDb(o) PROVE TypeOK' /\ StepOK'
  <2>1. BucketTypeOK'
    BY <1>5 DEF ReadDb, BucketTypeOK, ObjectTypeOK
  <2>2. (\E x \in SUBSET db : image \subseteq x /\ image' = x) => image' \subseteq Nat
    BY DEF SqliteTypeOK
  <2> QED BY <1>5, <2>1, <2>2, SnapshotStepInv DEF ReadDb, ManagerTypeOK, tracking
<1> QED BY <1>1, <1>2, <1>3, <1>4, <1>5 DEF TakeSnapshot

\* Starting to compact preserves the invariant.
LEMMA CompactInv ==
  ASSUME TypeOK, StepOK, NEW size \in SegmentSizes, Compact(size)
  PROVE  TypeOK' /\ StepOK'
<1> USE DEF TypeOK
<1>1. running /\ generation \in Generations /\ generation # 0
  BY CurrentGeneration DEF Compact, Call, StepOK
<1>2. UNCHANGED <<sqliteVars, bucket, running, tracking, shutdown_complete, acked,
                  snapshotLocals, seen, retentionLocals>>
        /\ maxSize' = size /\ api' = "compact" /\ step' = "compact_get"
        /\ todo' = keys' /\ data' = <<>> /\ newSegments' = <<>>
  BY DEF Compact
<1>3. keys' \in Seq(WalKeys) /\ keys' # <<>>
  <2>1. \A n \in DOMAIN manifest : WalKey(generation, manifest[n].index) \in WalKeys
    <3>1. \A n \in DOMAIN manifest : manifest[n] \in SegmentMeta
      BY DEF ManagerTypeOK
    <3> QED BY <1>1, <3>1 DEF WalKeys, SegmentMeta
  <2>2. DOMAIN manifest = 1..Len(manifest) /\ Len(manifest) \in Nat /\ Len(manifest) > 1
    BY DEF ManagerTypeOK, Compact
  <2>3. keys' = [n \in 1..Len(manifest) |-> WalKey(generation, manifest[n].index)]
    BY <2>2 DEF Compact
  <2>4. keys' \in [1..Len(manifest) -> WalKeys]
    BY <2>1, <2>2, <2>3
  <2>5. keys' \in Seq(WalKeys) /\ Len(keys') = Len(manifest)
    BY <2>2, <2>4
  <2> QED BY <2>2, <2>5
<1>4. maxSize' \in Nat
  BY <1>2, CallsAssumption
<1>5. CallTypeOK'
  BY <1>2, <1>3, <1>4 DEF CallTypeOK, Apis, Steps, snapshotLocals, retentionLocals
<1>6. SqliteTypeOK'
  BY <1>2, MarksKeepType DEF sqliteVars, SqliteTypeOK
<1>7. BucketTypeOK' /\ ManagerTypeOK'
  BY <1>2 DEF BucketTypeOK, ObjectTypeOK, ManagerTypeOK, tracking
<1>8. StepOK'
  BY <1>1, <1>2, <1>3 DEF StepOK, tracking
<1> QED BY <1>5, <1>6, <1>7, <1>8

\* So does a download...
LEMMA CompactGetInv ==
  ASSUME TypeOK, StepOK, CompactGet
  PROVE  TypeOK' /\ StepOK'
<1> USE DEF TypeOK
<1>1. running /\ generation # 0 /\ todo # <<>> /\ keys # <<>> /\ newSegments = <<>>
  BY DEF CompactGet, StepOK
<1>2. UNCHANGED <<sqliteVars, bucket, running, tracking, shutdown_complete, acked>>
  BY DEF CompactGet
<1>3. SqliteTypeOK'
  BY <1>2, MarksKeepType DEF sqliteVars, SqliteTypeOK
<1>4. BucketTypeOK' /\ ManagerTypeOK'
  BY <1>2 DEF BucketTypeOK, ObjectTypeOK, ManagerTypeOK, tracking
<1>5. CASE /\ Stored(Head(todo))
           /\ data' = data \o bucket[Head(todo)]
           /\ todo' = Tail(todo)
           /\ step' = IF Len(todo) = 1 THEN "compact_put" ELSE "compact_get"
           /\ UNCHANGED <<api, snapshotLocals, newSegments, maxSize, keys,
                          retentionLocals, seen>>
  <2>1. Head(todo) \in WalKeys
    BY <1>1 DEF CallTypeOK
  <2>2. bucket[Head(todo)] \in Seq(Block)
    BY <1>5, <2>1 DEF BucketTypeOK, ObjectTypeOK, Stored, WalKeys, WalKey
  <2>3. data' \in Seq(Block)
    BY <1>5, <2>2 DEF CallTypeOK
  <2>4. todo' \in Seq(WalKeys) /\ Len(todo') = Len(todo) - 1
    BY <1>1, <1>5 DEF CallTypeOK
  <2>5. CallTypeOK'
    BY <1>5, <2>3, <2>4 DEF CallTypeOK, Steps, snapshotLocals, retentionLocals
  <2>6. CASE Len(todo) # 1
    <3>0. Len(todo') > 0
      BY <1>1, <2>4, <2>6 DEF CallTypeOK
    <3>1. todo' # <<>> /\ step' = "compact_get"
      BY <1>5, <2>4, <2>6, <3>0
    <3>2. StepOK'
      BY <1>1, <1>2, <1>5, <3>1 DEF StepOK, tracking
    <3> QED BY <1>3, <1>4, <2>5, <3>2
  <2>7. CASE Len(todo) = 1
    <3>1. step' = "compact_put" /\ newSegments' = <<>> /\ Len(data') \in Nat
      BY <1>1, <1>5, <2>3, <2>7
    <3>2. CompactOffset' <= Len(data')
      BY <3>1 DEF CompactOffset
    <3>3. StepOK'
      BY <1>1, <1>2, <1>5, <3>1, <3>2 DEF StepOK, tracking
    <3> QED BY <1>3, <1>4, <2>5, <3>3
  <2> QED BY <2>6, <2>7
<1>6. CASE Idle
  BY <1>1, <1>2, <1>3, <1>4, <1>6, IdleType, OtherStepOK DEF tracking
<1> QED BY <1>5, <1>6 DEF CompactGet

\* ... the upload of a merged segment...
LEMMA CompactPutInv ==
  ASSUME TypeOK, StepOK, NEW o, CompactPut(o)
  PROVE  TypeOK' /\ StepOK'
<1> USE DEF TypeOK
<1> DEFINE chunk == [index |-> CompactIndex, offset |-> CompactOffset,
                     size |-> CompactEnd - CompactOffset]
<1>1. running /\ generation # 0 /\ generation \in Generations /\ keys # <<>>
        /\ CompactOffset <= Len(data) /\ step = "compact_put"
  BY CurrentGeneration DEF CompactPut, StepOK
<1>2. UNCHANGED <<sqliteVars, running, generation, wal_offset, wal_index, salt,
                  shutdown_complete, acked>>
  BY DEF CompactPut
<1>3. SqliteTypeOK'
  BY <1>2, MarksKeepType DEF sqliteVars, SqliteTypeOK
<1>4. CompactOffset \in Nat /\ Len(data) \in Nat
  <2>1. CASE newSegments = <<>>
    BY <2>1 DEF CompactOffset, CallTypeOK
  <2>2. CASE newSegments # <<>>
    <3>1. newSegments[Len(newSegments)] \in SegmentMeta
      BY <2>2 DEF CallTypeOK
    <3> QED BY <2>2, <3>1 DEF CompactOffset, SegmentMeta, CallTypeOK
  <2> QED BY <2>1, <2>2
<1>5. CompactEnd \in Nat /\ CompactOffset <= CompactEnd /\ CompactEnd <= Len(data)
  BY <1>1, <1>4 DEF CompactEnd, CallTypeOK
<1>6. CompactIndex \in Indexes
  BY DEF CompactIndex, CompactPut, Indexes, ManagerTypeOK, CallTypeOK
<1>7. BucketTypeOK'
  <2>1. SubSeq(data, CompactOffset + 1, CompactEnd) \in Seq(Block)
    BY <1>4, <1>5 DEF CallTypeOK
  <2>2. ObjectTypeOK(WalKey(generation, CompactIndex),
                     SubSeq(data, CompactOffset + 1, CompactEnd))
    BY <2>1 DEF ObjectTypeOK, WalKey
  <2> QED BY <1>1, <1>6, <2>2, KeyTypes, PutKeepsType DEF CompactPut
<1>8. chunk \in SegmentMeta
  BY <1>4, <1>5, <1>6 DEF SegmentMeta
<1>9. Append(newSegments, chunk) \in Seq(SegmentMeta)
  BY <1>8 DEF CallTypeOK
<1>10. ASSUME newSegments' = Append(newSegments, chunk),
              \/ CompactEnd < Len(data) /\ UNCHANGED <<step, manifest>>
              \/ manifest' = newSegments' /\ step' = "compact_manifest",
              UNCHANGED <<api, snapshotLocals, syncLocals, maxSize, keys, todo,
                          retentionLocals>>
       PROVE  TypeOK' /\ StepOK'
  <2>1. CallTypeOK'
    BY <1>1, <1>9, <1>10 DEF CallTypeOK, Steps, snapshotLocals, syncLocals, retentionLocals
  <2>2. ManagerTypeOK'
    BY <1>2, <1>9, <1>10 DEF ManagerTypeOK
  <2>3. CompactOffset' = CompactEnd
    <3>1. /\ newSegments' # <<>> /\ newSegments'[Len(newSegments')] = chunk
      BY <1>8, <1>10 DEF CallTypeOK
    <3>2. CompactOffset' = chunk.offset + chunk.size
      BY <3>1 DEF CompactOffset
    <3> QED BY <1>4, <1>5, <3>2
  <2>4. CompactOffset' <= Len(data')
    BY <1>5, <1>10, <2>3 DEF syncLocals
  <2>5. step' \in {"compact_put", "compact_manifest"} /\ running' /\ generation' # 0
          /\ keys' # <<>>
    BY <1>1, <1>2, <1>10
  <2>6. StepOK'
    BY <2>4, <2>5 DEF StepOK
  <2> QED BY <1>3, <1>7, <2>1, <2>2, <2>6
<1>11. CASE Idle /\ UNCHANGED manifest
  <2>1. ManagerTypeOK'
    BY <1>2, <1>11 DEF ManagerTypeOK
  <2> QED BY <1>1, <1>2, <1>3, <1>7, <1>11, <2>1, IdleType, OtherStepOK
<1> HIDE DEF chunk
<1> QED BY <1>10, <1>11 DEF CompactPut, chunk

\* ... that of the manifest of the merged segments...
LEMMA CompactManifestInv ==
  ASSUME TypeOK, StepOK, NEW o, CompactManifest(o)
  PROVE  TypeOK' /\ StepOK'
<1> USE DEF TypeOK
<1>1. running /\ generation # 0 /\ generation \in Generations /\ keys # <<>>
  BY CurrentGeneration DEF CompactManifest, StepOK
<1>2. UNCHANGED <<sqliteVars, running, generation, wal_offset, salt, manifest,
                  shutdown_complete, acked>>
  BY DEF CompactManifest
<1>3. SqliteTypeOK'
  BY <1>2, MarksKeepType DEF sqliteVars, SqliteTypeOK
<1>4. BucketTypeOK'
  <2>1. ObjectTypeOK(ManifestKey(generation), manifest) /\ ManifestKey(generation) \in Keys
    BY <1>1 DEF ObjectTypeOK, ManifestKey, Keys, ManagerTypeOK
  <2> QED BY <2>1, PutKeepsType DEF CompactManifest
<1>5. CASE /\ wal_index' = CompactIndex /\ todo' = keys /\ step' = "compact_delete"
           /\ UNCHANGED <<api, snapshotLocals, syncLocals, newSegments, maxSize, keys,
                          retentionLocals>>
  <2>1. CallTypeOK'
    BY <1>5 DEF CallTypeOK, Steps, snapshotLocals, syncLocals, retentionLocals
  <2>2. ManagerTypeOK'
    BY <1>2, <1>5 DEF ManagerTypeOK, CompactIndex, CallTypeOK
  <2>3. StepOK'
    BY <1>1, <1>2, <1>5 DEF StepOK
  <2> QED BY <1>3, <1>4, <2>1, <2>2, <2>3
<1>6. CASE Idle /\ UNCHANGED wal_index
  <2>1. ManagerTypeOK'
    BY <1>2, <1>6 DEF ManagerTypeOK
  <2> QED BY <1>1, <1>2, <1>3, <1>4, <1>6, <2>1, IdleType, OtherStepOK
<1> QED BY <1>5, <1>6 DEF CompactManifest

\* ... and the deletion of an old segment.
LEMMA CompactDeleteInv ==
  ASSUME TypeOK, StepOK, NEW o, CompactDelete(o)
  PROVE  TypeOK' /\ StepOK'
<1> USE DEF TypeOK
<1>1. running /\ generation # 0 /\ todo # <<>> /\ step = "compact_delete"
  BY DEF CompactDelete, StepOK
<1>2. UNCHANGED <<sqliteVars, running, tracking, shutdown_complete, acked>>
  BY DEF CompactDelete
<1>3. SqliteTypeOK' /\ BucketTypeOK' /\ ManagerTypeOK'
  BY <1>2, MarksKeepType, DeleteKeepsType
     DEF CompactDelete, sqliteVars, SqliteTypeOK, ManagerTypeOK, tracking
<1>4. CASE /\ Len(todo) > 1 /\ todo' = Tail(todo)
           /\ UNCHANGED <<api, step, snapshotLocals, syncLocals, newSegments, maxSize,
                          keys, retentionLocals>>
  <2>1. todo' \in Seq(WalKeys) /\ todo' # <<>>
    <3>1. todo' \in Seq(WalKeys) /\ Len(todo') > 0
      BY <1>1, <1>4 DEF CallTypeOK
    <3> QED BY <3>1
  <2>2. CallTypeOK'
    BY <1>4, <2>1 DEF CallTypeOK, snapshotLocals, syncLocals, retentionLocals
  <2>3. StepOK'
    BY <1>1, <1>2, <1>4, <2>1 DEF StepOK, tracking
  <2> QED BY <1>3, <2>2, <2>3
<1>5. CASE Idle
  BY <1>1, <1>2, <1>3, <1>5, IdleType, OtherStepOK DEF tracking
<1> QED BY <1>4, <1>5 DEF CompactDelete

\* The steps of enforce_retention preserve the invariant.
LEMMA RetentionInv ==
  ASSUME TypeOK, StepOK, Retention
  PROVE  TypeOK' /\ StepOK'
<1> USE DEF TypeOK
<1>1. UNCHANGED <<sqliteVars, running, tracking, shutdown_complete, acked>>
  BY DEF Retention, EnforceRetention, RetentionNext, RetentionDelete
<1>2. running /\ generation # 0 /\ running' = running /\ generation' = generation
  BY <1>1 DEF Retention, EnforceRetention, RetentionNext, RetentionDelete, Call, StepOK,
              tracking
<1>3. SqliteTypeOK' /\ ManagerTypeOK'
  BY <1>1, MarksKeepType DEF sqliteVars, SqliteTypeOK, ManagerTypeOK, tracking
<1>4. ASSUME NEW cutoff, EnforceRetention(cutoff) PROVE TypeOK' /\ StepOK'
  <2>1. BucketTypeOK'
    BY <1>4 DEF EnforceRetention, BucketTypeOK, ObjectTypeOK
  <2>2. victims' \subseteq Generations /\ step' = "retention_next"
    BY <1>4 DEF EnforceRetention, RetentionVictims
  <2>3. CallTypeOK'
    BY <1>4, <2>2 DEF EnforceRetention, CallTypeOK, Apis, Steps, snapshotLocals, syncLocals,
                      compactLocals
  <2>4. StepOK'
    BY <1>2, <2>2, OtherStepOK
  <2> QED BY <1>3, <2>1, <2>3, <2>4
<1>5. CASE RetentionNext
  <2>1. BucketTypeOK'
    BY <1>5 DEF RetentionNext, BucketTypeOK, ObjectTypeOK
  <2>2. ASSUME NEW g \in victims, doomed' = KeysOf(g), victims' = victims \ {g},
               step' = "retention_delete",
               UNCHANGED <<api, snapshotLocals, syncLocals, compactLocals>>
        PROVE  TypeOK' /\ StepOK'
    <3>1. doomed' \subseteq Keys
      BY <2>2 DEF KeysOf, BucketTypeOK
    <3>2. CallTypeOK'
      BY <2>2, <3>1 DEF CallTypeOK, Steps, snapshotLocals, syncLocals, compactLocals
    <3>3. StepOK'
      BY <1>2, <2>2, OtherStepOK
    <3> QED BY <1>3, <2>1, <3>2, <3>3
  <2>3. CASE Idle
    BY <1>2, <1>3, <2>1, <2>3, IdleType, OtherStepOK
  <2> QED BY <1>5, <2>2, <2>3 DEF RetentionNext, snapshotLocals, syncLocals, compactLocals
<1>6. ASSUME NEW o, RetentionDelete(o) PROVE TypeOK' /\ StepOK'
  <2>1. BucketTypeOK'
    BY <1>6, DeleteKeepsType DEF RetentionDelete
  <2>2. ASSUME NEW k \in doomed, doomed' = doomed \ {k},
               step' = IF doomed = {k} THEN "retention_next" ELSE "retention_delete",
               UNCHANGED <<api, snapshotLocals, syncLocals, compactLocals, victims>>
        PROVE  TypeOK' /\ StepOK'
    <3>1. step' \in {"retention_next", "retention_delete"}
      BY <2>2
    <3>2. CallTypeOK'
      BY <2>2, <3>1 DEF CallTypeOK, Steps, snapshotLocals, syncLocals, compactLocals
    <3>3. StepOK'
      BY <1>2, <3>1, OtherStepOK
    <3> QED BY <1>3, <2>1, <3>2, <3>3
  <2>3. CASE Idle
    BY <1>2, <1>3, <2>1, <2>3, IdleType, OtherStepOK
  <2> QED BY <1>6, <2>2, <2>3 DEF RetentionDelete, snapshotLocals, syncLocals, compactLocals
<1> QED BY <1>4, <1>5, <1>6 DEF Retention

\* The end of a manager preserves the invariant.
LEMMA GoneInv ==
  ASSUME TypeOK, StepOK, Gone, SqliteTypeOK', UNCHANGED bucket
  PROVE  TypeOK' /\ StepOK'
<1>1. CallTypeOK' /\ step' = "idle"
  BY IdleType DEF Gone
<1>2. manifest' \in Seq(SegmentMeta)
  BY DEF Gone
<1>3. ManagerTypeOK'
  BY <1>2 DEF Gone, ResetWalTracking, NoSalt, TypeOK, ManagerTypeOK
<1>4. BucketTypeOK'
  BY DEF TypeOK, BucketTypeOK, ObjectTypeOK
<1>5. StepOK'
  BY <1>1, OtherStepOK DEF Gone
<1> QED BY <1>1, <1>3, <1>4, <1>5 DEF TypeOK

-----------------------------------------------------------------------------
(* The theorem. *)

\* Every step of the system preserves the invariant.
LEMMA NextInv ==
  ASSUME TypeOK, StepOK, [Next]_vars
  PROVE  TypeOK' /\ StepOK'
<1>1. CASE AppStep
  <2>1. SqliteTypeOK'
    BY <1>1, AppType DEF AppStep, TypeOK
  <2>2. BucketTypeOK' /\ ManagerTypeOK' /\ CallTypeOK'
    BY <1>1 DEF AppStep, TypeOK, BucketTypeOK, ObjectTypeOK, ManagerTypeOK, CallTypeOK,
                tracking, call, locals, snapshotLocals, syncLocals, compactLocals,
                retentionLocals
  <2>3. StepOK'
    BY <1>1 DEF AppStep, StepOK, CompactOffset, tracking, call, locals, syncLocals,
                compactLocals
  <2> QED BY <2>1, <2>2, <2>3 DEF TypeOK
<1>2. CASE Manager
  BY <1>2, NewInv, SyncWalInv, PutSegmentInv, PutSegmentManifestInv, CheckpointWalInv,
     TakeSnapshotInv, CompactInv, CompactGetInv, CompactPutInv, CompactManifestInv,
     CompactDeleteInv, RetentionInv
     DEF Manager, Sync, Compaction
<1>3. CASE Drop
  <2>1. SqliteTypeOK'
    BY <1>3, PinType, MarksKeepType DEF Drop, TypeOK
  <2> QED BY <1>3, <2>1, GoneInv DEF Drop
<1>4. CASE Crash
  BY <1>4, CrashType, GoneInv DEF Crash, TypeOK
<1>5. CASE UNCHANGED vars
  BY <1>5, MarksKeepType
     DEF vars, TypeOK, SqliteTypeOK, BucketTypeOK, ObjectTypeOK, ManagerTypeOK, CallTypeOK,
         StepOK, CompactOffset, sqliteVars, tracking, call, locals, snapshotLocals,
         syncLocals, compactLocals, retentionLocals
<1> QED BY <1>1, <1>2, <1>3, <1>4, <1>5 DEF Next

\* The initial state satisfies the invariant.
LEMMA InitInv == Init => TypeOK /\ StepOK
<1> SUFFICES ASSUME Init PROVE TypeOK /\ StepOK
  OBVIOUS
<1>1. SqliteTypeOK
  BY DEF Init, SqliteInit, SqliteTypeOK, NoRead, Connections
<1>2. BucketTypeOK
  BY DEF Init, BucketTypeOK
<1>3. ManagerTypeOK
  <2>1. running \in BOOLEAN /\ shutdown_complete \in BOOLEAN
    BY DEF Init
  <2>2. generation \in 0..MaxGenerations
    BY KeysAssumption DEF Init
  <2>3. wal_offset \in Nat /\ wal_index \in Nat /\ salt \in Nat
    BY DEF Init, NoSalt
  <2>4. manifest \in Seq(SegmentMeta)
    BY DEF Init
  <2>5. acked \in [gen : Nat, n : Nat]
    BY DEF Init
  <2> QED BY <2>1, <2>2, <2>3, <2>4, <2>5 DEF ManagerTypeOK
<1>4. CallTypeOK
  <2>1. api \in Apis /\ step \in Steps
    BY DEF Init, Apis, Steps
  <2>2. recovering \in BOOLEAN /\ image \subseteq Nat
    BY DEF Init
  <2>3. data \in Seq(Block) /\ seen \in Nat
    BY DEF Init
  <2>4. newSegments \in Seq(SegmentMeta) /\ maxSize \in Nat
    BY DEF Init
  <2>5. keys \in Seq(WalKeys) /\ todo \in Seq(WalKeys)
    BY DEF Init
  <2>6. victims \subseteq Generations /\ doomed \subseteq Keys
    BY DEF Init
  <2> QED BY <2>1, <2>2, <2>3, <2>4, <2>5, <2>6 DEF CallTypeOK
<1>5. StepOK
  BY DEF Init, StepOK
<1> QED BY <1>1, <1>2, <1>3, <1>4, <1>5 DEF TypeOK

\* Whatever the environment does and whichever calls are made, every variable
\* keeps its type: uploads go to keys inside the bounds and hold what their key
\* says, and no call looks at the head of an empty list.
THEOREM TypeCorrect == Spec => []TypeOK
<1>1. IInv /\ [Next]_vars => IInv'
  BY NextInv DEF IInv
<1>2. Init => IInv
  BY InitInv DEF IInv
<1>3. IInv => TypeOK
  BY DEF IInv
<1> QED BY <1>1, <1>2, <1>3, PTL DEF Spec

-----------------------------------------------------------------------------
(* When a restore works at every moment, whatever crashes, drops, writers,  *)
(* readers and foreign checkpoints there are: if no upload fails, or if     *)
(* nothing is ever deleted.                                                 *)

\* Uploads, local reads and calls succeed; downloads may fail, processes end.
NoFailures == Env \cap {"s3_error", "io_error", "cancel"} = {}

\* A generation that is to come has no object yet.
Fresh == \A k \in DOMAIN bucket : k[2] <= generation

\* What the manager publishes as its manifest, now or next, is stored.
Publishable ==
  /\ Stored(ManifestKey(generation)) =>
       SegmentsStored(generation, bucket[ManifestKey(generation)])
  /\ SegmentsStored(generation, manifest)

\* `latest` names the generation of the manager.
Current == Stored(LatestKey) /\ Latest = generation

\* Indexes from wal_index on are free.
Below == \A n \in DOMAIN manifest : manifest[n].index < wal_index

\* The segments compact has uploaded: new ones, and stored.
Merged ==
  /\ \A n \in DOMAIN newSegments : newSegments[n].index \in wal_index..(CompactIndex - 1)
  /\ SegmentsStored(generation, newSegments)

OldKey(k) == k[1] = "wal" /\ k[2] = generation /\ k[3] < wal_index

\* A key that the manifest, published and in memory, does not list.
Unlisted(k) ==
  /\ k[1] = "wal" /\ k[2] = generation
  /\ \A n \in DOMAIN manifest : k # WalKey(generation, manifest[n].index)

\* A key of a generation that is neither the latest nor none.
OfOther(k) == k[2] # generation /\ k[2] # 0

CompactSteps == {"compact_get", "compact_put", "compact_manifest"}

\* Where the call in progress is in its order of uploads and deletions.
Order ==
  /\ step = "put_latest" => Stored(SnapshotKey(generation))
  /\ step \notin {"read_db", "put_snapshot", "put_latest"} => Current
  /\ step \notin {"put_segment_manifest", "compact_manifest"} => Below
  /\ step = "put_segment_manifest" => \A n \in DOMAIN manifest : manifest[n].index <= wal_index
  /\ step \in CompactSteps => \A n \in DOMAIN keys : OldKey(keys[n])
  /\ step \in {"compact_put", "compact_manifest"} => Merged
  /\ step = "compact_manifest" => manifest = newSegments
  /\ step = "compact_delete" =>
       /\ Stored(ManifestKey(generation)) /\ bucket[ManifestKey(generation)] = manifest
       /\ \A n \in DOMAIN todo : Unlisted(todo[n])
  /\ step \in {"retention_next", "retention_delete"} => generation \notin victims
  /\ step = "retention_delete" => \A k \in doomed : OfOther(k)

\* What failures alone never break.
Base == Fresh /\ LatestIsRestorable /\ (running => Publishable)

RInv == Base /\ (running => Order)
-----------------------------------------------------------------------------
(* The bucket. *)

\* Without failures a call has one outcome.
LEMMA OnlyOk ==
  ASSUME NoFailures
  PROVE  Outcomes = {"ok"} /\ IoOutcomes = {"ok"} /\ "io_error" \notin Env
  BY DEF NoFailures, Outcomes, IoOutcomes

\* An upload that succeeds stores its object and changes no other.
LEMMA PutStores ==
  ASSUME NEW k, NEW v, PutObject("ok", k, v)
  PROVE  /\ DOMAIN bucket' = DOMAIN bucket \cup {k}
         /\ bucket'[k] = v
         /\ \A x \in DOMAIN bucket : x # k => bucket'[x] = bucket[x]
  BY DEF PutObject

\* A deletion that succeeds removes its object and changes no other.
LEMMA DeleteRemoves ==
  ASSUME NEW k, DeleteObject("ok", k)
  PROVE  /\ DOMAIN bucket' = DOMAIN bucket \ {k}
         /\ \A x \in DOMAIN bucket : x # k => bucket'[x] = bucket[x]
  BY DEF DeleteObject

\* Objects of different kinds, generations or indexes have different keys.
LEMMA KeysDiffer ==
  ASSUME NEW g, NEW h, NEW i, NEW j
  PROVE  /\ LatestKey # SnapshotKey(g) /\ LatestKey # ManifestKey(g) /\ LatestKey # WalKey(g, i)
         /\ SnapshotKey(g) # ManifestKey(h) /\ SnapshotKey(g) # WalKey(h, i)
         /\ ManifestKey(g) # WalKey(h, i)
         /\ ManifestKey(g) = ManifestKey(h) => g = h
         /\ WalKey(g, i) = WalKey(h, j) => g = h /\ i = j
         /\ LatestKey[2] = 0 /\ SnapshotKey(g)[2] = g /\ ManifestKey(g)[2] = g
         /\ WalKey(g, i)[2] = g /\ WalKey(g, i)[1] = "wal" /\ WalKey(g, i)[3] = i
  BY DEF LatestKey, SnapshotKey, ManifestKey, WalKey

\* The latest backup stays restorable when the bucket keeps it: its manifest, its
\* snapshot and the segments it lists.
LEMMA LatestKept ==
  ASSUME LatestIsRestorable,
         Stored(LatestKey)' => Stored(LatestKey) /\ Latest' = Latest,
         Stored(LatestKey) =>
           /\ Stored(SnapshotKey(Latest)) => SnapshotKey(Latest) \in DOMAIN bucket'
           /\ ManifestKey(Latest) \in DOMAIN bucket' =>
                /\ Stored(ManifestKey(Latest))
                /\ bucket'[ManifestKey(Latest)] = bucket[ManifestKey(Latest)]
                /\ \A n \in DOMAIN bucket[ManifestKey(Latest)] :
                     LET k == WalKey(Latest, bucket[ManifestKey(Latest)][n].index)
                     IN Stored(k) => k \in DOMAIN bucket'
  PROVE  LatestIsRestorable'
  BY DEF LatestIsRestorable, Restorable, SegmentsStored, Stored, Latest

\* An upload of a snapshot or of a segment, of whatever generation, keeps what
\* was stored.
LEMMA PutKeeps ==
  ASSUME LatestIsRestorable, NEW g, NEW i, NEW v, NEW k,
         k = SnapshotKey(g) \/ k = WalKey(g, i),
         PutObject("ok", k, v)
  PROVE  LatestIsRestorable'
<1>1. /\ DOMAIN bucket' = DOMAIN bucket \cup {k}
      /\ \A x \in DOMAIN bucket : x # k => bucket'[x] = bucket[x]
  BY PutStores
<1>2. k # LatestKey /\ \A h : k # ManifestKey(h)
  BY KeysDiffer
<1>3. Stored(LatestKey)' => Stored(LatestKey) /\ Latest' = Latest
  BY <1>1, <1>2 DEF Stored, Latest
<1> HIDE DEF Latest
<1>4. Stored(LatestKey) =>
         /\ Stored(SnapshotKey(Latest)) => SnapshotKey(Latest) \in DOMAIN bucket'
         /\ ManifestKey(Latest) \in DOMAIN bucket' =>
              /\ Stored(ManifestKey(Latest))
              /\ bucket'[ManifestKey(Latest)] = bucket[ManifestKey(Latest)]
              /\ \A n \in DOMAIN bucket[ManifestKey(Latest)] :
                   LET x == WalKey(Latest, bucket[ManifestKey(Latest)][n].index)
                   IN Stored(x) => x \in DOMAIN bucket'
  BY <1>1, <1>2 DEF Stored
<1> QED BY <1>3, <1>4, LatestKept

-----------------------------------------------------------------------------
(* Steps that upload nothing. *)

\* After a sync the call is over, or checkpoint goes on.
LEMMA SyncReturnStep ==
  ASSUME NEW c, NEW o, NEW mark, SyncReturn(c, o, mark)
  PROVE  step' \in {"idle", "wal_checkpoint"}
  BY DEF SyncReturn, Idle

\* So it is after a snapshot.
LEMMA SnapshotReturnStep ==
  ASSUME SnapshotReturn("ok")
  PROVE  step' \in {"idle", "wal_checkpoint"} /\ UNCHANGED running
  BY SyncReturnStep DEF SnapshotReturn, Idle

\* Between calls the order of uploads asks for no more than this.
LEMMA SettledOrder ==
  ASSUME step' \in {"idle", "wal_checkpoint", "put_segment"}, Current', Below'
  PROVE  Order'
  BY DEF Order, CompactSteps

\* What the bucket, the generation and the manifest say stays true while they do
\* not change.
LEMMA QuietBase ==
  ASSUME Base, UNCHANGED <<bucket, generation, manifest>>, running' => running
  PROVE  Base'
<1>1. Fresh'
  BY DEF Base, Fresh
<1>2. LatestIsRestorable'
  BY DEF Base, LatestIsRestorable, Restorable, SegmentsStored, Stored, Latest
<1>3. running' => Publishable'
  BY DEF Base, Publishable, SegmentsStored, Stored
<1> QED BY <1>1, <1>2, <1>3 DEF Base

\* If the order of uploads stays respected too, so does the invariant.
LEMMA QuietInv ==
  ASSUME RInv, UNCHANGED <<bucket, generation, manifest>>, running' => running /\ Order'
  PROVE  RInv'
  BY QuietBase DEF RInv

\* A step to a point between calls from one at which `latest` is current.
LEMMA QuietIdle ==
  ASSUME RInv, running, UNCHANGED <<bucket, generation, manifest, wal_index>>,
         step \notin {"read_db", "put_snapshot", "put_latest",
                      "put_segment_manifest", "compact_manifest"},
         step' \in {"idle", "wal_checkpoint", "put_segment"}
  PROVE  RInv'
<1>1. Current /\ Below
  BY DEF RInv, Base, Order
<1>2. Current' /\ Below'
  BY <1>1 DEF Current, Below, Stored, Latest
<1> QED BY <1>2, SettledOrder, QuietInv

\* A new generation starts without objects.
LEMMA NewGenerationBase ==
  ASSUME TypeOK, Base, NewGeneration, UNCHANGED bucket
  PROVE  Base'
<1>1. generation \in Nat /\ generation' = generation + 1 /\ manifest' = <<>>
  BY DEF NewGeneration, TypeOK, ManagerTypeOK
<1>2. Fresh'
  <2>1. \A k \in DOMAIN bucket : k \in Keys /\ k[2] <= generation
    BY DEF Base, Fresh, TypeOK, BucketTypeOK
  <2>2. \A k \in Keys : k[2] \in Nat
    BY KeysAssumption DEF Keys, WalKeys, LatestKey, ManifestKey, SnapshotKey, WalKey, Generations
  <2> QED BY <2>1, <2>2, <1>1 DEF Fresh
<1>3. LatestIsRestorable'
  BY DEF Base, LatestIsRestorable, Restorable, SegmentsStored, Stored, Latest
<1>4. ~Stored(ManifestKey(generation'))
  <2>1. ManifestKey(generation')[2] = generation'
    BY KeysDiffer
  <2> QED BY <2>1, <1>1 DEF Base, Fresh, Stored
<1>5. Publishable'
  BY <1>1, <1>4 DEF Publishable, SegmentsStored, Stored
<1> QED BY <1>2, <1>3, <1>5 DEF Base

\* Its snapshot comes first.
LEMMA NewGenerationInv ==
  ASSUME TypeOK, RInv, NewGeneration, UNCHANGED bucket, step' = "read_db"
  PROVE  RInv'
<1>1. Order'
  BY DEF NewGeneration, Order, Below, CompactSteps
<1> QED BY <1>1, NewGenerationBase DEF RInv

\* The manager is gone: what it kept in memory no longer matters.
LEMMA GoneR ==
  ASSUME RInv, Gone, UNCHANGED bucket
  PROVE  RInv'
  BY DEF RInv, Base, Gone, Fresh, LatestIsRestorable, Restorable, SegmentsStored, Stored, Latest

\* sync_wal up to its first upload.
LEMMA SyncWalR ==
  ASSUME TypeOK, RInv, NEW c, SyncWal(c)
  PROVE  RInv'
<1>1. running /\ step = "idle" /\ UNCHANGED bucket
  BY DEF SyncWal, Call
<1>2. CASE SyncReturn(c, "ok", readMark["waloy"]) /\ UNCHANGED tracking
  BY <1>1, <1>2, SyncReturnStep, QuietIdle DEF tracking
<1>3. CASE SyncReturn(c, "err", readMark["waloy"]) /\ UNCHANGED tracking
  BY <1>1, <1>3, SyncReturnStep, QuietIdle DEF tracking
<1>4. CASE Recover(c)
  BY <1>1, <1>4, NewGenerationInv DEF Recover, EnterSnapshot
<1>5. CASE ReadNewFrames(c)
  <2>1. UNCHANGED <<generation, manifest, wal_index>>
    BY <1>5 DEF ReadNewFrames
  <2>2. step' \in {"idle", "wal_checkpoint", "put_segment"}
    BY <1>5, SyncReturnStep DEF ReadNewFrames
  <2> QED BY <1>1, <2>1, <2>2, QuietIdle
<1> QED BY <1>2, <1>3, <1>4, <1>5 DEF SyncWal

\* checkpoint, once the WAL is copied.
LEMMA CheckpointWalR ==
  ASSUME TypeOK, StepOK, RInv, NoFailures, CheckpointWal
  PROVE  RInv'
  BY OnlyOk, NewGenerationInv DEF CheckpointWal, EnterSnapshot

\* snapshot, called directly.
LEMMA SnapshotR ==
  ASSUME RInv, Snapshot
  PROVE  RInv'
<1>1. /\ running /\ step = "idle" /\ step' = "read_db"
      /\ UNCHANGED <<bucket, generation, manifest, wal_index>>
  BY DEF Snapshot, Call, EnterSnapshot, tracking
<1>2. Below
  BY <1>1 DEF RInv, Base, Order
<1>3. Order'
  BY <1>1, <1>2 DEF Order, Below, CompactSteps
<1> QED BY <1>1, <1>3, QuietInv

\* snapshot has read the database file.
LEMMA ReadDbR ==
  ASSUME StepOK, RInv, ReadDb("ok")
  PROVE  RInv'
<1>1. /\ running /\ step = "read_db" /\ step' = "put_snapshot"
      /\ UNCHANGED <<bucket, generation, manifest, wal_index>>
  BY DEF ReadDb, StepOK, tracking
<1>2. Below
  BY <1>1 DEF RInv, Base, Order
<1>3. Order'
  BY <1>1, <1>2 DEF Order, Below, CompactSteps
<1> QED BY <1>1, <1>3, QuietInv

-----------------------------------------------------------------------------
(* Uploads. *)

\* What an upload of the current generation's snapshot or segment leaves: no
\* object of a generation to come, `latest`, and the published manifest.
LEMMA PutOfGeneration ==
  ASSUME TypeOK, Base, running, UNCHANGED generation, NEW i, NEW v, NEW k,
         k = SnapshotKey(generation) \/ k = WalKey(generation, i),
         PutObject("ok", k, v)
  PROVE  /\ Fresh' /\ LatestIsRestorable'
         /\ DOMAIN bucket \subseteq DOMAIN bucket' /\ k \in DOMAIN bucket'
         /\ Current => Current'
         /\ Stored(ManifestKey(generation))' =>
              SegmentsStored(generation, bucket[ManifestKey(generation)])'
         /\ Stored(ManifestKey(generation))' =>
              /\ Stored(ManifestKey(generation))
              /\ bucket'[ManifestKey(generation)] = bucket[ManifestKey(generation)]
<1>1. /\ DOMAIN bucket' = DOMAIN bucket \cup {k}
      /\ \A x \in DOMAIN bucket : x # k => bucket'[x] = bucket[x]
  BY PutStores
<1>2. k # LatestKey /\ (\A h : k # ManifestKey(h)) /\ k[2] = generation
  BY KeysDiffer
<1>3. generation \in Nat
  BY DEF TypeOK, ManagerTypeOK
<1>4. Fresh'
  BY <1>1, <1>2, <1>3 DEF Base, Fresh
<1>5. LatestIsRestorable'
  BY PutKeeps DEF Base
<1>6. Current => Current'
  BY <1>1, <1>2 DEF Current, Stored, Latest
<1>7. Stored(ManifestKey(generation))' =>
        /\ Stored(ManifestKey(generation))
        /\ bucket'[ManifestKey(generation)] = bucket[ManifestKey(generation)]
  BY <1>1, <1>2 DEF Stored
<1>8. Stored(ManifestKey(generation))' =>
        SegmentsStored(generation, bucket[ManifestKey(generation)])'
  BY <1>1, <1>7 DEF Base, Publishable, SegmentsStored, Stored
<1> QED BY <1>1, <1>4, <1>5, <1>6, <1>7, <1>8

\* What the upload of a manifest leaves, if the segments it lists are stored.
LEMMA PutManifestR ==
  ASSUME TypeOK, Base, running, UNCHANGED <<generation, manifest>>,
         PutObject("ok", ManifestKey(generation), manifest)
  PROVE  /\ Fresh' /\ LatestIsRestorable' /\ Publishable'
         /\ Current => Current'
         /\ Stored(ManifestKey(generation))' /\ bucket'[ManifestKey(generation)] = manifest
         /\ DOMAIN bucket \subseteq DOMAIN bucket'
<1> DEFINE k == ManifestKey(generation)
<1>1. /\ DOMAIN bucket' = DOMAIN bucket \cup {k} /\ bucket'[k] = manifest
      /\ \A x \in DOMAIN bucket : x # k => bucket'[x] = bucket[x]
  BY PutStores
<1>2. k # LatestKey /\ k[2] = generation
  BY KeysDiffer
<1>3. generation \in Nat
  BY DEF TypeOK, ManagerTypeOK
<1>4. Fresh'
  BY <1>1, <1>2, <1>3 DEF Base, Fresh
<1>5. Stored(LatestKey)' => Stored(LatestKey) /\ Latest' = Latest
  BY <1>1, <1>2 DEF Stored, Latest
<1>6. SegmentsStored(generation, manifest)
  BY DEF Base, Publishable
<1>7. Publishable'
  BY <1>1, <1>6 DEF Publishable, SegmentsStored, Stored
<1>8. LatestIsRestorable'
  <2>1. CASE Stored(LatestKey) /\ Latest = generation
    <3>1. Stored(SnapshotKey(generation))'
      BY <1>1, <2>1 DEF Base, LatestIsRestorable, Restorable, Stored
    <3> QED BY <1>5, <1>7, <2>1, <3>1 DEF LatestIsRestorable, Restorable, Publishable
  <2>2. CASE ~(Stored(LatestKey) /\ Latest = generation)
    <3>1. Stored(LatestKey) => k # ManifestKey(Latest)
      BY <2>2, KeysDiffer
    <3> HIDE DEF k, Latest
    <3> QED BY <1>1, <1>5, <3>1, LatestKept DEF Base, Stored
  <2> QED BY <2>1, <2>2
<1>9. Current => Current'
  BY <1>1, <1>2 DEF Current, Stored, Latest
<1> QED BY <1>1, <1>4, <1>7, <1>8, <1>9 DEF Stored

\* Indexes are natural numbers.
LEMMA IndexType ==
  ASSUME NEW s \in Seq(SegmentMeta)
  PROVE  \A n \in DOMAIN s : s[n].index \in Nat
<1> SUFFICES ASSUME NEW n \in DOMAIN s PROVE s[n].index \in Nat
  OBVIOUS
<1>1. s[n] \in SegmentMeta
  OBVIOUS
<1>2. s[n].index \in Indexes
  BY <1>1 DEF SegmentMeta
<1> QED BY <1>2, KeysAssumption DEF Indexes

\* sync_wal has uploaded a segment.
LEMMA PutSegmentR ==
  ASSUME TypeOK, StepOK, RInv, PutSegment("ok")
  PROVE  RInv'
<1> DEFINE k == WalKey(generation, wal_index)
           new == [index |-> wal_index, offset |-> wal_offset, size |-> Len(data)]
<1>1. /\ running /\ step = "put_segment" /\ step' = "put_segment_manifest"
      /\ UNCHANGED <<running, generation, wal_index>>
      /\ PutObject("ok", k, data) /\ manifest' = Append(manifest, new)
  BY DEF PutSegment, StepOK
<1>2. Current /\ Below /\ Publishable
  BY <1>1 DEF RInv, Base, Order
<1>3. /\ Fresh' /\ LatestIsRestorable' /\ Current'
      /\ DOMAIN bucket \subseteq DOMAIN bucket' /\ k \in DOMAIN bucket'
      /\ Stored(ManifestKey(generation))' =>
           SegmentsStored(generation, bucket[ManifestKey(generation)])'
  BY <1>1, <1>2, PutOfGeneration DEF RInv
<1>4. manifest \in Seq(SegmentMeta) /\ wal_index \in Nat
  BY DEF TypeOK, ManagerTypeOK
<1>5. \A n \in DOMAIN manifest' :
        \/ n \in DOMAIN manifest /\ manifest'[n] = manifest[n]
        \/ manifest'[n] = new
  <2> HIDE DEF new
  <2> QED BY <1>1, <1>4
<1>6. SegmentsStored(generation, manifest)'
  BY <1>1, <1>2, <1>3, <1>5 DEF Publishable, SegmentsStored, Stored
<1>7. \A n \in DOMAIN manifest' : manifest'[n].index <= wal_index'
  <2>1. \A n \in DOMAIN manifest : manifest[n].index \in Nat
    BY <1>4, IndexType
  <2> QED BY <1>1, <1>2, <1>4, <1>5, <2>1 DEF Below
<1>8. Publishable'
  BY <1>1, <1>3, <1>6 DEF Publishable
<1>9. Order'
  BY <1>1, <1>3, <1>7 DEF Order, CompactSteps
<1> QED BY <1>3, <1>8, <1>9 DEF RInv, Base

\* sync_wal has uploaded the manifest.
LEMMA PutSegmentManifestR ==
  ASSUME TypeOK, StepOK, RInv, PutSegmentManifest("ok")
  PROVE  RInv'
<1>1. /\ running /\ step = "put_segment_manifest"
      /\ UNCHANGED <<running, generation, manifest>> /\ wal_index' = wal_index + 1
      /\ PutObject("ok", ManifestKey(generation), manifest)
  BY DEF PutSegmentManifest, StepOK
<1>2. step' \in {"idle", "wal_checkpoint"}
  BY SyncReturnStep DEF PutSegmentManifest
<1>3. Current /\ \A n \in DOMAIN manifest : manifest[n].index <= wal_index
  BY <1>1 DEF RInv, Base, Order
<1>4. Fresh' /\ LatestIsRestorable' /\ Current' /\ Publishable'
  BY <1>1, <1>3, PutManifestR DEF RInv
<1>5. Below'
  <2>1. manifest \in Seq(SegmentMeta) /\ wal_index \in Nat
    BY DEF TypeOK, ManagerTypeOK
  <2>2. \A n \in DOMAIN manifest : manifest[n].index \in Nat
    BY <2>1, IndexType
  <2> QED BY <1>1, <1>3, <2>1, <2>2 DEF Below
<1> QED BY <1>2, <1>4, <1>5, SettledOrder DEF RInv, Base

\* snapshot has uploaded the database file.
LEMMA PutSnapshotR ==
  ASSUME TypeOK, StepOK, RInv, PutSnapshot("ok")
  PROVE  RInv'
<1>1. /\ running /\ step = "put_snapshot" /\ step' = "put_latest"
      /\ UNCHANGED <<running, generation, manifest, wal_index>>
      /\ PutObject("ok", SnapshotKey(generation), image)
  BY DEF PutSnapshot, StepOK, tracking
<1>2. Below /\ Publishable
  BY <1>1 DEF RInv, Base, Order
<1>3. /\ Fresh' /\ LatestIsRestorable' /\ DOMAIN bucket \subseteq DOMAIN bucket'
      /\ SnapshotKey(generation) \in DOMAIN bucket'
      /\ Stored(ManifestKey(generation))' =>
           SegmentsStored(generation, bucket[ManifestKey(generation)])'
  BY <1>1, PutOfGeneration DEF RInv
<1>4. Publishable'
  BY <1>1, <1>2, <1>3 DEF Publishable, SegmentsStored, Stored
<1>5. Order'
  BY <1>1, <1>2, <1>3 DEF Order, Below, CompactSteps, Stored
<1> QED BY <1>3, <1>4, <1>5 DEF RInv, Base

\* snapshot has moved `latest`.
LEMMA PutLatestR ==
  ASSUME TypeOK, StepOK, RInv, PutLatest("ok")
  PROVE  RInv'
<1>1. /\ running /\ step = "put_latest" /\ step' = "put_snapshot_manifest"
      /\ UNCHANGED <<running, generation>> /\ manifest' = <<>>
      /\ PutObject("ok", LatestKey, generation)
  BY DEF PutLatest, StepOK
<1>2. Publishable /\ Stored(SnapshotKey(generation))
  BY <1>1 DEF RInv, Base, Order
<1>3. /\ DOMAIN bucket' = DOMAIN bucket \cup {LatestKey} /\ bucket'[LatestKey] = generation
      /\ \A x \in DOMAIN bucket : x # LatestKey => bucket'[x] = bucket[x]
  BY <1>1, PutStores
<1>4. /\ LatestKey # ManifestKey(generation) /\ LatestKey[2] = 0
      /\ generation \in Nat
  <2>1. LatestKey # ManifestKey(generation) /\ LatestKey[2] = 0
    BY KeysDiffer
  <2> QED BY <2>1 DEF TypeOK, ManagerTypeOK
<1>5. Fresh'
  BY <1>1, <1>3, <1>4 DEF RInv, Base, Fresh
<1>6. Current'
  BY <1>1, <1>3 DEF Current, Stored, Latest
<1>7. Publishable'
  BY <1>1, <1>2, <1>3, <1>4 DEF Publishable, SegmentsStored, Stored
<1>8. Stored(SnapshotKey(generation))'
  BY <1>1, <1>2, <1>3 DEF Stored
<1>9. LatestIsRestorable'
  BY <1>6, <1>7, <1>8 DEF LatestIsRestorable, Restorable, Current, Publishable
<1>10. Order'
  BY <1>1, <1>6 DEF Order, Below, CompactSteps
<1> QED BY <1>5, <1>7, <1>9, <1>10 DEF RInv, Base

\* snapshot has uploaded its empty manifest.
LEMMA PutSnapshotManifestR ==
  ASSUME TypeOK, StepOK, RInv, PutSnapshotManifest("ok")
  PROVE  RInv'
<1>1. /\ running /\ step = "put_snapshot_manifest"
      /\ UNCHANGED <<generation, manifest, wal_index>>
      /\ PutObject("ok", ManifestKey(generation), manifest)
  BY DEF PutSnapshotManifest, StepOK, tracking
<1>2. step' \in {"idle", "wal_checkpoint"}
  BY SnapshotReturnStep DEF PutSnapshotManifest
<1>3. Current /\ Below
  BY <1>1 DEF RInv, Base, Order
<1>4. Fresh' /\ LatestIsRestorable' /\ Current' /\ Publishable'
  BY <1>1, <1>3, PutManifestR DEF RInv
<1>5. Below'
  BY <1>1, <1>3 DEF Below
<1> QED BY <1>2, <1>4, <1>5, SettledOrder DEF RInv, Base

-----------------------------------------------------------------------------
(* Compaction. *)

\* compact begins: the segments it will merge have indexes below wal_index.
LEMMA CompactR ==
  ASSUME TypeOK, RInv, NEW size, Compact(size)
  PROVE  RInv'
<1>1. /\ running /\ step = "idle" /\ step' = "compact_get"
      /\ UNCHANGED <<bucket, generation, manifest, wal_index>>
      /\ keys' = [n \in DOMAIN manifest |-> WalKey(generation, manifest[n].index)]
  BY DEF Compact, Call, tracking
<1>2. Current /\ Below
  BY <1>1 DEF RInv, Base, Order
<1>3. \A n \in DOMAIN keys' :
        /\ keys'[n][1] = "wal" /\ keys'[n][2] = generation /\ keys'[n][3] < wal_index
  <2> SUFFICES ASSUME NEW n \in DOMAIN manifest
               PROVE  LET k == WalKey(generation, manifest[n].index)
                      IN k[1] = "wal" /\ k[2] = generation /\ k[3] < wal_index
    BY <1>1
  <2>1. manifest[n].index < wal_index
    BY <1>2 DEF Below
  <2> QED BY <2>1, KeysDiffer
<1>4. Current' /\ Below'
  BY <1>1, <1>2 DEF Current, Below, Stored, Latest
<1>5. \A n \in DOMAIN keys' : OldKey(keys[n])'
  BY <1>1, <1>3 DEF OldKey
<1>6. Order'
  BY <1>1, <1>4, <1>5 DEF Order, CompactSteps
<1> QED BY <1>1, <1>6, QuietInv

\* compact has downloaded a segment, or failed to.
LEMMA CompactGetR ==
  ASSUME TypeOK, StepOK, RInv, CompactGet
  PROVE  RInv'
<1>1. /\ running /\ step = "compact_get"
      /\ UNCHANGED <<running, bucket, generation, manifest, wal_index>>
  BY DEF CompactGet, StepOK, tracking
<1>2. Current /\ Below /\ (\A n \in DOMAIN keys : OldKey(keys[n])) /\ newSegments = <<>>
  BY <1>1 DEF RInv, Base, Order, CompactSteps, StepOK
<1>3. Current' /\ Below'
  BY <1>1, <1>2 DEF Current, Below, Stored, Latest
<1>4. CASE step' \in {"compact_get", "compact_put"} /\ UNCHANGED <<keys, newSegments>>
  <2>1. \A n \in DOMAIN keys' : OldKey(keys[n])'
    BY <1>1, <1>2, <1>4 DEF OldKey
  <2>2. Merged'
    BY <1>2, <1>4 DEF Merged, SegmentsStored
  <2>3. Order'
    BY <1>3, <1>4, <2>1, <2>2 DEF Order
  <2> QED BY <1>1, <2>3, QuietInv
<1>5. CASE Idle
  BY <1>1, <1>5, QuietIdle DEF Idle
<1> QED BY <1>4, <1>5 DEF CompactGet

\* compact has uploaded a merged segment, perhaps its last one.
LEMMA CompactPutR ==
  ASSUME TypeOK, StepOK, RInv, CompactPut("ok")
  PROVE  RInv'
<1> DEFINE k == WalKey(generation, CompactIndex)
           new == [index |-> CompactIndex, offset |-> CompactOffset,
                   size |-> CompactEnd - CompactOffset]
<1>1. /\ running /\ step = "compact_put"
      /\ UNCHANGED <<running, generation, wal_index, keys>>
      /\ PutObject("ok", k, SubSeq(data, CompactOffset + 1, CompactEnd))
      /\ newSegments' = Append(newSegments, new)
      /\ \/ step' = step /\ manifest' = manifest
         \/ step' = "compact_manifest" /\ manifest' = newSegments'
  BY DEF CompactPut, StepOK
<1>2. Current /\ Below /\ Merged /\ Publishable /\ \A n \in DOMAIN keys : OldKey(keys[n])
  BY <1>1 DEF RInv, Base, Order, CompactSteps
<1>3. /\ Fresh' /\ LatestIsRestorable' /\ Current'
      /\ DOMAIN bucket \subseteq DOMAIN bucket' /\ k \in DOMAIN bucket'
      /\ Stored(ManifestKey(generation))' =>
           SegmentsStored(generation, bucket[ManifestKey(generation)])'
  BY <1>1, <1>2, PutOfGeneration DEF RInv
<1>4. newSegments \in Seq(SegmentMeta) /\ wal_index \in Nat
  BY DEF TypeOK, ManagerTypeOK, CallTypeOK
<1>5. /\ \A n \in DOMAIN newSegments' :
           \/ n \in DOMAIN newSegments /\ newSegments'[n] = newSegments[n]
           \/ newSegments'[n] = new
      /\ Len(newSegments') = Len(newSegments) + 1 /\ Len(newSegments) \in Nat
  <2> HIDE DEF new
  <2> QED BY <1>1, <1>4
<1>6. SegmentsStored(generation, newSegments)'
  BY <1>1, <1>2, <1>3, <1>5 DEF Merged, SegmentsStored, Stored
<1>7. \A n \in DOMAIN newSegments' : newSegments'[n].index \in wal_index..CompactIndex
  <2>1. new.index = CompactIndex /\ CompactIndex \in wal_index..CompactIndex
    BY <1>4, <1>5 DEF CompactIndex
  <2> HIDE DEF new
  <2> QED BY <1>2, <1>4, <1>5, <2>1 DEF Merged, CompactIndex
<1>8. CompactIndex' = CompactIndex + 1
  BY <1>1, <1>4, <1>5 DEF CompactIndex
<1>9. CompactIndex' - 1 = CompactIndex
  BY <1>4, <1>5, <1>8 DEF CompactIndex
<1>10. Merged'
  BY <1>1, <1>6, <1>7, <1>9 DEF Merged
<1>11. \A n \in DOMAIN keys' : OldKey(keys[n])'
  BY <1>1, <1>2 DEF OldKey
<1>12. Publishable'
  BY <1>1, <1>2, <1>3, <1>6 DEF Publishable, SegmentsStored, Stored
<1>13. Order'
  <2>1. manifest' = manifest => Below'
    BY <1>1, <1>2 DEF Below
  <2> QED BY <1>1, <1>3, <1>10, <1>11, <2>1 DEF Order
<1> QED BY <1>3, <1>12, <1>13 DEF RInv, Base

\* compact has published its manifest: no old key is in it.
LEMMA CompactManifestR ==
  ASSUME TypeOK, StepOK, RInv, CompactManifest("ok")
  PROVE  RInv'
<1>1. /\ running /\ step = "compact_manifest" /\ step' = "compact_delete"
      /\ UNCHANGED <<running, generation, manifest>>
      /\ wal_index' = CompactIndex /\ todo' = keys
      /\ PutObject("ok", ManifestKey(generation), manifest)
  BY DEF CompactManifest, StepOK
<1>2. Current /\ Merged /\ manifest = newSegments /\ \A n \in DOMAIN keys : OldKey(keys[n])
  BY <1>1 DEF RInv, Base, Order, CompactSteps
<1>3. /\ Fresh' /\ LatestIsRestorable' /\ Current' /\ Publishable'
      /\ Stored(ManifestKey(generation))' /\ bucket'[ManifestKey(generation)] = manifest
  BY <1>1, <1>2, PutManifestR DEF RInv
<1>4. newSegments \in Seq(SegmentMeta) /\ wal_index \in Nat /\ Len(newSegments) \in Nat
  BY DEF TypeOK, ManagerTypeOK, CallTypeOK
<1>5. \A n \in DOMAIN manifest : wal_index <= manifest[n].index /\ manifest[n].index < CompactIndex
  BY <1>2, <1>4 DEF Merged, CompactIndex
<1>6. Below'
  BY <1>1, <1>5 DEF Below
<1>7. \A m \in DOMAIN todo' : Unlisted(todo[m])'
  <2> SUFFICES ASSUME NEW m \in DOMAIN keys
               PROVE  /\ keys[m][1] = "wal" /\ keys[m][2] = generation
                      /\ \A n \in DOMAIN manifest :
                           keys[m] # WalKey(generation, manifest[n].index)
    BY <1>1 DEF Unlisted
  <2>1. keys[m][1] = "wal" /\ keys[m][2] = generation /\ keys[m][3] < wal_index
    BY <1>2 DEF OldKey
  <2>2. ASSUME NEW n \in DOMAIN manifest
        PROVE  keys[m] # WalKey(generation, manifest[n].index)
    <3>1. WalKey(generation, manifest[n].index)[3] = manifest[n].index
      BY KeysDiffer
    <3>2. manifest[n].index \in Nat
      BY <1>2, <1>4, IndexType
    <3>3. keys[m] \in WalKeys
      BY DEF TypeOK, CallTypeOK
    <3>4. keys[m][3] \in Nat
      BY <3>3, KeysAssumption DEF WalKeys, WalKey, Indexes
    <3> QED BY <1>4, <1>5, <2>1, <3>1, <3>2, <3>4
  <2> QED BY <2>1, <2>2
<1>8. Order'
  BY <1>1, <1>3, <1>6, <1>7 DEF Order, CompactSteps
<1> QED BY <1>3, <1>8 DEF RInv, Base

\* compact has deleted an old segment.
LEMMA CompactDeleteR ==
  ASSUME TypeOK, StepOK, RInv, CompactDelete("ok")
  PROVE  RInv'
<1> DEFINE k == Head(todo)
<1>1. /\ running /\ step = "compact_delete" /\ DeleteObject("ok", k) /\ todo # <<>>
      /\ UNCHANGED <<running, generation, manifest, wal_index>>
      /\ \/ step' = step /\ todo' = Tail(todo)
         \/ step' = "idle"
  BY DEF CompactDelete, Idle, StepOK, tracking
<1>2. /\ Current /\ Below /\ Publishable
      /\ Stored(ManifestKey(generation)) /\ bucket[ManifestKey(generation)] = manifest
      /\ \A n \in DOMAIN todo : Unlisted(todo[n])
  BY <1>1 DEF RInv, Base, Order
<1>3. todo \in Seq(WalKeys)
  BY DEF TypeOK, CallTypeOK
<1>4. Unlisted(k)
  <2>1. 1 \in DOMAIN todo /\ k = todo[1]
    BY <1>1, <1>3
  <2> QED BY <1>2, <2>1
<1>5. \A n \in DOMAIN Tail(todo) : Unlisted(Tail(todo)[n])
  <2>1. \A n \in DOMAIN Tail(todo) : n + 1 \in DOMAIN todo /\ Tail(todo)[n] = todo[n + 1]
    BY <1>1, <1>3
  <2> QED BY <1>2, <2>1
<1>6. /\ DOMAIN bucket' = DOMAIN bucket \ {k}
      /\ \A x \in DOMAIN bucket : x # k => bucket'[x] = bucket[x]
  BY <1>1, DeleteRemoves
<1>7. k # LatestKey /\ k # SnapshotKey(generation) /\ k # ManifestKey(generation)
  BY <1>4 DEF Unlisted, LatestKey, SnapshotKey, ManifestKey
<1>8. Fresh'
  BY <1>1, <1>6 DEF RInv, Base, Fresh
<1>9. Current'
  BY <1>1, <1>2, <1>6, <1>7 DEF Current, Stored, Latest
<1>10. /\ Stored(ManifestKey(generation))' /\ bucket'[ManifestKey(generation)] = manifest'
       /\ SegmentsStored(generation, manifest)'
  BY <1>1, <1>2, <1>4, <1>6, <1>7 DEF Publishable, SegmentsStored, Stored, Unlisted
<1>11. Publishable'
  BY <1>1, <1>10 DEF Publishable, SegmentsStored, Stored
<1>12. LatestIsRestorable'
  <2>1. Stored(SnapshotKey(generation))
    BY <1>2 DEF RInv, Base, LatestIsRestorable, Restorable, Current
  <2>2. Stored(SnapshotKey(generation))'
    BY <1>1, <1>6, <1>7, <2>1 DEF Stored
  <2> QED BY <1>9, <1>11, <2>2 DEF LatestIsRestorable, Restorable, Current, Publishable
<1>13. Below'
  BY <1>1, <1>2 DEF Below
<1>14. CASE step' = step /\ todo' = Tail(todo)
  <2>1. \A n \in DOMAIN todo' : Unlisted(todo[n])'
    BY <1>1, <1>5, <1>14 DEF Unlisted
  <2>2. Order'
    BY <1>1, <1>9, <1>10, <1>13, <1>14, <2>1 DEF Order, CompactSteps
  <2> QED BY <1>8, <1>11, <1>12, <2>2 DEF RInv, Base
<1>15. CASE step' = "idle"
  BY <1>8, <1>9, <1>11, <1>12, <1>13, <1>15, SettledOrder DEF RInv, Base
<1> QED BY <1>1, <1>14, <1>15

-----------------------------------------------------------------------------
(* Retention. *)

\* enforce_retention spares the generation of the manager.
LEMMA EnforceRetentionR ==
  ASSUME TypeOK, RInv, NEW cutoff, EnforceRetention(cutoff)
  PROVE  RInv'
<1>1. /\ running /\ step = "idle" /\ step' = "retention_next"
      /\ UNCHANGED <<bucket, generation, manifest, wal_index>>
  BY DEF EnforceRetention, Call, tracking
<1>2. Current' /\ Below'
  BY <1>1 DEF RInv, Base, Order, Current, Below, Stored, Latest
<1>3. generation' \notin victims'
  BY <1>1 DEF EnforceRetention, RetentionVictims
<1>4. Order'
  BY <1>1, <1>2, <1>3 DEF Order, CompactSteps
<1> QED BY <1>1, <1>4, QuietInv

\* delete_generation lists the keys of another generation.
LEMMA RetentionNextR ==
  ASSUME TypeOK, StepOK, RInv, RetentionNext
  PROVE  RInv'
<1>1. /\ running /\ step = "retention_next"
      /\ UNCHANGED <<running, bucket, generation, manifest, wal_index>>
  BY DEF RetentionNext, StepOK, tracking
<1>2. Current /\ Below /\ generation \notin victims
  BY <1>1 DEF RInv, Base, Order
<1>3. ASSUME NEW g \in victims, doomed' = KeysOf(g), victims' = victims \ {g},
             step' = "retention_delete"
      PROVE  RInv'
  <2>1. g # generation /\ g # 0
    BY <1>2, <1>3, KeysAssumption DEF TypeOK, CallTypeOK, Generations
  <2>2. \A k \in doomed' : OfOther(k)'
    BY <1>1, <1>3, <2>1 DEF OfOther, KeysOf
  <2>3. Current' /\ Below'
    BY <1>1, <1>2 DEF Current, Below, Stored, Latest
  <2>4. Order'
    BY <1>1, <1>2, <1>3, <2>2, <2>3 DEF Order, CompactSteps
  <2> QED BY <1>1, <2>4, QuietInv
<1>4. CASE Idle
  BY <1>1, <1>4, QuietIdle DEF Idle
<1> QED BY <1>3, <1>4 DEF RetentionNext

\* delete_generation has deleted an object of another generation.
LEMMA RetentionDeleteR ==
  ASSUME TypeOK, StepOK, RInv, RetentionDelete("ok")
  PROVE  RInv'
<1>1. PICK k \in doomed :
        /\ DeleteObject("ok", k)
        /\ \/ /\ doomed' = doomed \ {k} /\ UNCHANGED victims
              /\ step' \in {"retention_next", "retention_delete"}
           \/ Idle
  BY DEF RetentionDelete
<1>2. /\ running /\ step = "retention_delete"
      /\ UNCHANGED <<running, generation, manifest, wal_index>>
  BY DEF RetentionDelete, StepOK, tracking
<1>3. /\ Current /\ Below /\ Publishable /\ generation \notin victims
      /\ \A x \in doomed : OfOther(x)
  BY <1>2 DEF RInv, Base, Order
<1>4. OfOther(k)
  BY <1>3
<1>5. /\ DOMAIN bucket' = DOMAIN bucket \ {k}
      /\ \A x \in DOMAIN bucket : x # k => bucket'[x] = bucket[x]
  BY <1>1, DeleteRemoves
<1>6. /\ k # LatestKey /\ k # SnapshotKey(generation) /\ k # ManifestKey(generation)
      /\ \A i : k # WalKey(generation, i)
  BY <1>4 DEF OfOther, LatestKey, SnapshotKey, ManifestKey, WalKey
<1>7. Fresh'
  BY <1>2, <1>5 DEF RInv, Base, Fresh
<1>8. Current' /\ Below'
  BY <1>2, <1>3, <1>5, <1>6 DEF Current, Below, Stored, Latest
<1>9. Publishable'
  BY <1>2, <1>3, <1>5, <1>6 DEF Publishable, SegmentsStored, Stored
<1>10. LatestIsRestorable'
  <2>1. Stored(SnapshotKey(generation))
    BY <1>3 DEF RInv, Base, LatestIsRestorable, Restorable, Current
  <2>2. Stored(SnapshotKey(generation))'
    BY <1>2, <1>5, <1>6, <2>1 DEF Stored
  <2> QED BY <1>8, <1>9, <2>2 DEF LatestIsRestorable, Restorable, Current, Publishable
<1>11. CASE /\ doomed' = doomed \ {k} /\ UNCHANGED victims
            /\ step' \in {"retention_next", "retention_delete"}
  <2>1. generation' \notin victims' /\ \A x \in doomed' : OfOther(x)'
    BY <1>2, <1>3, <1>11 DEF OfOther
  <2>2. Order'
    BY <1>8, <1>11, <2>1 DEF Order, CompactSteps
  <2> QED BY <1>7, <1>9, <1>10, <2>2 DEF RInv, Base
<1>12. CASE Idle
  BY <1>7, <1>8, <1>9, <1>10, <1>12, SettledOrder DEF RInv, Base, Idle
<1> QED BY <1>1, <1>11, <1>12

-----------------------------------------------------------------------------
(* The theorem. *)

\* Every step of the system preserves the invariant.
LEMMA RNext ==
  ASSUME NoFailures, TypeOK, StepOK, RInv, [Next]_vars
  PROVE  RInv'
<1>1. CASE AppStep
  <2>1. UNCHANGED <<bucket, running, tracking, call>>
    BY <1>1 DEF AppStep
  <2>2. Order => Order'
    BY <2>1 DEF Order, Current, Below, Merged, CompactIndex, SegmentsStored, OldKey, Unlisted,
                OfOther, Stored, Latest, tracking, call, locals, snapshotLocals,
                syncLocals, compactLocals, retentionLocals
  <2> QED BY <2>1, <2>2, QuietInv DEF RInv, Base, tracking
<1>2. CASE New
  BY <1>2, NewGenerationInv DEF New, EnterSnapshot
<1>3. CASE Sync
  BY <1>3, OnlyOk, SyncWalR, PutSegmentR, PutSegmentManifestR DEF Sync
<1>4. CASE CheckpointWal
  BY <1>4, CheckpointWalR
<1>5. CASE TakeSnapshot
  BY <1>5, OnlyOk, SnapshotR, ReadDbR, PutSnapshotR, PutLatestR, PutSnapshotManifestR
     DEF TakeSnapshot
<1>6. CASE Compaction
  BY <1>6, OnlyOk, CompactR, CompactGetR, CompactPutR, CompactManifestR, CompactDeleteR
     DEF Compaction
<1>7. CASE Retention
  BY <1>7, OnlyOk, EnforceRetentionR, RetentionNextR, RetentionDeleteR DEF Retention
<1>8. CASE Drop
  BY <1>8, GoneR DEF Drop
<1>9. CASE Crash
  BY <1>9, GoneR DEF Crash
<1>10. CASE UNCHANGED vars
  <2>1. UNCHANGED <<bucket, running, tracking, call>>
    BY <1>10 DEF vars
  <2>2. Order => Order'
    BY <2>1 DEF Order, Current, Below, Merged, CompactIndex, SegmentsStored, OldKey, Unlisted,
                OfOther, Stored, Latest, tracking, call, locals, snapshotLocals,
                syncLocals, compactLocals, retentionLocals
  <2> QED BY <2>1, <2>2, QuietInv DEF RInv, Base, tracking
<1> QED BY <1>1, <1>2, <1>3, <1>4, <1>5, <1>6, <1>7, <1>8, <1>9, <1>10 DEF Next, Manager

\* If no upload, no read of a local file and no call is cut short by anything
\* but the end of the manager, then a restore works at every moment: `latest`
\* names a generation whose snapshot and listed segments are stored, in the
\* middle of a snapshot, a sync, a compaction or a retention run, after a crash
\* in any of them, and with other connections that checkpoint or restart the WAL.
THEOREM AlwaysRestorable ==
  ASSUME NoFailures
  PROVE  Spec => []LatestIsRestorable
<1> DEFINE Inv == TypeOK /\ StepOK /\ RInv
<1>1. Init => Inv
  <2>1. Init => RInv
    BY DEF Init, RInv, Base, Fresh, LatestIsRestorable, Stored
  <2> QED BY <2>1, InitInv
<1>2. Inv /\ [Next]_vars => Inv'
  BY RNext, NextInv
<1>3. Inv => LatestIsRestorable
  BY DEF RInv, Base
<1> QED BY <1>1, <1>2, <1>3, PTL DEF Spec
-----------------------------------------------------------------------------
(* Failures, but no deletion. *)

\* The calls that delete objects are not made.
NoDeletion == Calls \cap {"compact", "enforce_retention"} = {}

DeletingSteps ==
  CompactSteps \cup {"compact_delete", "retention_next", "retention_delete"}

\* What holds whatever fails, if nothing is deleted.
KInv ==
  /\ Base
  /\ running /\ step = "put_latest" => Stored(SnapshotKey(generation))
  /\ step \notin DeletingSteps

\* An upload has happened or not, whatever its outcome says.
LEMMA PutOrNot ==
  ASSUME NEW o, NEW k, NEW v, PutObject(o, k, v)
  PROVE  /\ PutObject("ok", k, v) \/ UNCHANGED bucket
         /\ o = "ok" => PutObject("ok", k, v)
  BY DEF PutObject

\* After a snapshot that failed the call is over, or checkpoint goes on.
LEMMA SnapshotReturnAny ==
  ASSUME NEW o, SnapshotReturn(o)
  PROVE  step' \in {"idle", "wal_checkpoint"} /\ (running' => running)
  BY SyncReturnStep DEF SnapshotReturn, Idle

\* What is asked of the steps other than the move of `latest`.
LEMMA OtherK ==
  ASSUME Base', step' \notin DeletingSteps, step' # "put_latest"
  PROVE  KInv'
  BY DEF KInv, DeletingSteps, CompactSteps

\* A step to one of these that changes neither the bucket nor the generation.
LEMMA QuietK ==
  ASSUME KInv, UNCHANGED <<bucket, generation, manifest>>, running' => running,
         step' \notin DeletingSteps, step' # "put_latest"
  PROVE  KInv'
  BY QuietBase, OtherK DEF KInv

\* sync_wal up to its first upload.
LEMMA SyncWalK ==
  ASSUME TypeOK, KInv, NEW c, SyncWal(c)
  PROVE  KInv'
<1>1. running /\ step = "idle" /\ UNCHANGED <<bucket, running>>
  BY DEF SyncWal, Call
<1>2. CASE Recover(c)
  <2>1. step' = "read_db" /\ NewGeneration
    BY <1>2 DEF Recover, EnterSnapshot
  <2>2. Base'
    BY <1>1, <2>1, NewGenerationBase DEF KInv
  <2> QED BY <2>1, <2>2, OtherK DEF DeletingSteps, CompactSteps
<1>3. CASE ~Recover(c)
  <2>1. step' \in {"idle", "wal_checkpoint", "put_segment"}
    BY <1>3, SyncReturnStep DEF SyncWal, ReadNewFrames
  <2>2. UNCHANGED <<generation, manifest>>
    BY <1>3 DEF SyncWal, ReadNewFrames, tracking
  <2> QED BY <1>1, <2>1, <2>2, QuietK DEF DeletingSteps, CompactSteps
<1> QED BY <1>2, <1>3

\* sync_wal's upload of a segment: the manifest lists it only once it is stored.
LEMMA PutSegmentK ==
  ASSUME TypeOK, StepOK, KInv, NEW o, PutSegment(o)
  PROVE  KInv'
<1> DEFINE k == WalKey(generation, wal_index)
           new == [index |-> wal_index, offset |-> wal_offset, size |-> Len(data)]
<1>1. /\ running /\ UNCHANGED <<running, generation>> /\ PutObject(o, k, data)
      /\ \/ o = "ok" /\ manifest' = Append(manifest, new)
         \/ o # "ok" /\ UNCHANGED manifest
  BY DEF PutSegment, StepOK
<1>2. step' \in {"idle", "wal_checkpoint", "put_segment_manifest"}
  BY SyncReturnStep DEF PutSegment
<1>3. step' \notin DeletingSteps /\ step' # "put_latest"
  BY <1>2 DEF DeletingSteps, CompactSteps
<1>4. CASE UNCHANGED <<bucket, manifest>>
  BY <1>1, <1>3, <1>4, QuietK
<1>5. CASE PutObject("ok", k, data)
  <2>1. Base /\ Publishable
    BY <1>1 DEF KInv, Base
  <2>2. /\ Fresh' /\ LatestIsRestorable'
        /\ DOMAIN bucket \subseteq DOMAIN bucket' /\ k \in DOMAIN bucket'
        /\ Stored(ManifestKey(generation))' =>
             SegmentsStored(generation, bucket[ManifestKey(generation)])'
    BY <1>1, <1>5, <2>1, PutOfGeneration
  <2>3. manifest \in Seq(SegmentMeta)
    BY DEF TypeOK, ManagerTypeOK
  <2>4. \A n \in DOMAIN manifest' :
          \/ n \in DOMAIN manifest /\ manifest'[n] = manifest[n]
          \/ manifest'[n] = new
    <3> HIDE DEF new
    <3> QED BY <1>1, <2>3
  <2>5. SegmentsStored(generation, manifest)'
    BY <1>1, <2>1, <2>2, <2>4 DEF Publishable, SegmentsStored, Stored
  <2> QED BY <1>3, <2>2, <2>5, OtherK DEF Base, Publishable
<1> QED BY <1>1, <1>4, <1>5, PutOrNot

\* An upload of the manifest, by sync_wal or by snapshot.
LEMMA PutManifestK ==
  ASSUME TypeOK, KInv, running, UNCHANGED <<generation, manifest>>, running' => running,
         NEW o, PutObject(o, ManifestKey(generation), manifest),
         step' \in {"idle", "wal_checkpoint"}
  PROVE  KInv'
<1>1. step' \notin DeletingSteps /\ step' # "put_latest"
  BY DEF DeletingSteps, CompactSteps
<1>2. CASE UNCHANGED bucket
  BY <1>1, <1>2, QuietK
<1>3. CASE PutObject("ok", ManifestKey(generation), manifest)
  <2>1. Fresh' /\ LatestIsRestorable' /\ Publishable'
    BY <1>3, PutManifestR DEF KInv
  <2> QED BY <1>1, <2>1, OtherK DEF Base
<1> QED BY <1>2, <1>3, PutOrNot

\* snapshot's upload of the database file.
LEMMA PutSnapshotK ==
  ASSUME TypeOK, StepOK, KInv, NEW o, PutSnapshot(o)
  PROVE  KInv'
<1> DEFINE k == SnapshotKey(generation)
<1>1. /\ running /\ (running' => running) /\ PutObject(o, k, image)
      /\ UNCHANGED <<generation, manifest>>
      /\ \/ o = "ok" /\ step' = "put_latest"
         \/ o # "ok" /\ step' \in {"idle", "wal_checkpoint"}
  BY SnapshotReturnAny DEF PutSnapshot, StepOK, tracking
<1>2. step' \notin DeletingSteps
  BY <1>1 DEF DeletingSteps, CompactSteps
<1>3. CASE UNCHANGED bucket /\ o # "ok"
  BY <1>1, <1>2, <1>3, QuietK
<1>4. CASE PutObject("ok", k, image)
  <2>1. Base /\ Publishable
    BY <1>1 DEF KInv, Base
  <2>2. /\ Fresh' /\ LatestIsRestorable' /\ DOMAIN bucket \subseteq DOMAIN bucket'
        /\ k \in DOMAIN bucket'
        /\ Stored(ManifestKey(generation))' =>
             SegmentsStored(generation, bucket[ManifestKey(generation)])'
    BY <1>1, <1>4, <2>1, PutOfGeneration
  <2>3. Publishable'
    BY <1>1, <2>1, <2>2 DEF Publishable, SegmentsStored, Stored
  <2>4. Stored(k)'
    BY <1>1, <2>2 DEF Stored
  <2> QED BY <1>1, <1>2, <2>2, <2>3, <2>4 DEF KInv, Base
<1> QED BY <1>1, <1>3, <1>4, PutOrNot

\* snapshot's move of `latest`, to a generation whose snapshot is stored.
LEMMA PutLatestK ==
  ASSUME TypeOK, StepOK, KInv, NEW o, PutLatest(o)
  PROVE  KInv'
<1>1. /\ running /\ (running' => running) /\ UNCHANGED generation
      /\ PutObject(o, LatestKey, generation)
      /\ manifest' = <<>> \/ UNCHANGED manifest
      /\ step' \in {"idle", "wal_checkpoint", "put_snapshot_manifest"}
  BY SnapshotReturnAny DEF PutLatest, StepOK
<1>2. step' \notin DeletingSteps /\ step' # "put_latest"
  BY <1>1 DEF DeletingSteps, CompactSteps
<1>3. Base /\ Publishable /\ Stored(SnapshotKey(generation))
  BY <1>1 DEF KInv, Base, PutLatest
<1>4. CASE UNCHANGED bucket
  <2>1. Publishable'
    BY <1>1, <1>3, <1>4 DEF Publishable, SegmentsStored, Stored
  <2>2. Fresh' /\ LatestIsRestorable'
    BY <1>1, <1>3, <1>4 DEF Base, Fresh, LatestIsRestorable, Restorable, SegmentsStored,
                            Stored, Latest
  <2> QED BY <1>2, <2>1, <2>2, OtherK DEF Base
<1>5. CASE PutObject("ok", LatestKey, generation)
  <2>1. /\ DOMAIN bucket' = DOMAIN bucket \cup {LatestKey}
        /\ bucket'[LatestKey] = generation
        /\ \A x \in DOMAIN bucket : x # LatestKey => bucket'[x] = bucket[x]
    BY <1>5, PutStores
  <2>2. LatestKey # ManifestKey(generation) /\ LatestKey[2] = 0
    BY KeysDiffer
  <2>3. generation \in Nat
    BY DEF TypeOK, ManagerTypeOK
  <2>4. Fresh'
    BY <1>1, <1>3, <2>1, <2>2, <2>3 DEF Base, Fresh
  <2>5. Publishable'
    BY <1>1, <1>3, <2>1, <2>2 DEF Publishable, SegmentsStored, Stored
  <2>6. Stored(SnapshotKey(generation))' /\ Current'
    BY <1>1, <1>3, <2>1 DEF Stored, Current, Latest
  <2>7. LatestIsRestorable'
    BY <2>5, <2>6 DEF LatestIsRestorable, Restorable, Current, Publishable
  <2> QED BY <1>2, <2>4, <2>5, <2>7, OtherK DEF Base
<1> QED BY <1>1, <1>4, <1>5, PutOrNot

\* Every step preserves the invariant if nothing is deleted.
LEMMA KNext ==
  ASSUME NoDeletion, TypeOK, StepOK, KInv, [Next]_vars
  PROVE  KInv'
<1> USE DEF DeletingSteps, CompactSteps
<1>1. CASE (AppStep \/ UNCHANGED vars)
  <2>1. UNCHANGED <<bucket, running, generation, manifest, step>>
    BY <1>1 DEF AppStep, vars, tracking, call
  <2>2. CASE step = "put_latest"
    <3>1. Base'
      BY <2>1, QuietBase DEF KInv
    <3> QED BY <2>1, <2>2, <3>1 DEF KInv, Stored
  <2>3. CASE step # "put_latest"
    BY <2>1, <2>3, QuietK DEF KInv
  <2> QED BY <2>2, <2>3
<1>2. CASE New
  <2>1. step' = "read_db" /\ NewGeneration /\ UNCHANGED bucket
    BY <1>2 DEF New, EnterSnapshot
  <2>2. Base'
    BY <2>1, NewGenerationBase DEF KInv
  <2> QED BY <2>1, <2>2, OtherK
<1>3. CASE Sync
  <2>1. ASSUME NEW o, PutSegmentManifest(o) PROVE KInv'
    <3>1. /\ running /\ UNCHANGED <<running, generation, manifest>>
          /\ PutObject(o, ManifestKey(generation), manifest)
      BY <2>1 DEF PutSegmentManifest, StepOK
    <3>2. step' \in {"idle", "wal_checkpoint"}
      BY <2>1, SyncReturnStep DEF PutSegmentManifest
    <3> QED BY <3>1, <3>2, PutManifestK
  <2> QED BY <1>3, <2>1, SyncWalK, PutSegmentK DEF Sync
<1>4. CASE CheckpointWal
  <2>1. CASE step' = "read_db" /\ NewGeneration /\ UNCHANGED bucket
    <3>1. Base'
      BY <2>1, NewGenerationBase DEF KInv
    <3> QED BY <2>1, <3>1, OtherK
  <2>2. CASE Idle /\ UNCHANGED <<bucket, running, generation, manifest>>
    BY <2>2, QuietK DEF Idle
  <2> QED BY <1>4, <2>1, <2>2 DEF CheckpointWal, EnterSnapshot
<1>5. CASE TakeSnapshot
  <2>1. CASE Snapshot
    BY <2>1, QuietK DEF Snapshot, EnterSnapshot, tracking
  <2>2. ASSUME NEW o, ReadDb(o) PROVE KInv'
    <3>1. UNCHANGED <<bucket, generation, manifest>>
      BY <2>2 DEF ReadDb, tracking
    <3>2. step' \in {"idle", "wal_checkpoint", "put_snapshot"} /\ (running' => running)
      BY <2>2, SnapshotReturnAny DEF ReadDb
    <3> QED BY <3>1, <3>2, QuietK
  <2>3. ASSUME NEW o, PutSnapshotManifest(o) PROVE KInv'
    <3>1. /\ running /\ UNCHANGED <<generation, manifest>>
          /\ PutObject(o, ManifestKey(generation), manifest)
      BY <2>3 DEF PutSnapshotManifest, StepOK, tracking
    <3>2. step' \in {"idle", "wal_checkpoint"} /\ (running' => running)
      BY <2>3, SnapshotReturnAny DEF PutSnapshotManifest
    <3> QED BY <3>1, <3>2, PutManifestK
  <2> QED BY <1>5, <2>1, <2>2, <2>3, PutSnapshotK, PutLatestK DEF TakeSnapshot
<1>6. CASE Compaction
  BY <1>6 DEF Compaction, Compact, CompactGet, CompactPut, CompactManifest, CompactDelete,
              Call, NoDeletion, KInv
<1>7. CASE Retention
  BY <1>7 DEF Retention, EnforceRetention, RetentionNext, RetentionDelete, Call,
              NoDeletion, KInv
<1>8. CASE Drop \/ Crash
  <2>1. Gone /\ UNCHANGED bucket
    BY <1>8 DEF Drop, Crash
  <2>2. UNCHANGED generation /\ running' = FALSE /\ step' = "idle"
    BY <2>1 DEF Gone, Idle
  <2>3. Fresh' /\ LatestIsRestorable'
    BY <2>1, <2>2 DEF KInv, Base, Fresh, LatestIsRestorable, Restorable, SegmentsStored,
                      Stored, Latest
  <2> QED BY <2>2, <2>3, OtherK DEF Base
<1> QED BY <1>1, <1>2, <1>3, <1>4, <1>5, <1>6, <1>7, <1>8 DEF Next, Manager

\* If an application never compacts and never enforces retention, then a restore
\* works at every moment, whatever fails: uploads that are refused, or that are
\* done and reported as failed, local reads, cancelled calls, crashes.
THEOREM RestorableWithoutDeletion ==
  ASSUME NoDeletion
  PROVE  Spec => []LatestIsRestorable
<1> DEFINE Inv == TypeOK /\ StepOK /\ KInv
<1>1. Init => Inv
  <2>1. Init => KInv
    BY DEF Init, KInv, Base, Fresh, LatestIsRestorable, Stored, DeletingSteps, CompactSteps
  <2> QED BY <2>1, InitInv
<1>2. Inv /\ [Next]_vars => Inv'
  BY KNext, NextInv
<1>3. Inv => LatestIsRestorable
  BY DEF KInv, Base
<1> QED BY <1>1, <1>2, <1>3, PTL DEF Spec
================================================================================
