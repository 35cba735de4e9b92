------------------------------ MODULE ReplicaProofs ------------------------------
(***************************************************************************)
(* What sync_wal acknowledged can be restored, and the backups implement   *)
(* Replica: as long as the WAL only grows until the manager truncates it,  *)
(* the segments of a generation are its beginning, block for block.        *)
(***************************************************************************)
EXTENDS ConsistencyProofs

\* Frames once written stay, and only the manager copies and removes them.
Steady ==
  /\ Env \cap {"rollback", "reader", "ext_checkpoint"} = {}
  /\ ~({"multi_frame", "crash"} \subseteq Env)

\* The blocks o begin the file w.
Begins(o, w) == Len(o) <= Len(w) /\ \A i \in DOMAIN o : o[i] = w[i]

-----------------------------------------------------------------------------
(* The WAL is full of blocks that count, and is never restarted in place. *)

WalFull ==
  /\ mxFrame + spilled = Len(wal)
  /\ mxFrame > 0 /\ spilled = 0 => nBackfill < mxFrame
  /\ "multi_frame" \notin Env => spilled = 0
  /\ readMark["reader"] = NoRead
  /\ step = "wal_checkpoint" => readMark["waloy"] = NoRead

\* A frame comes behind all blocks there are.
LEMMA WriteFrameFull ==
  ASSUME SqliteTypeOK, NEW p \in Seq(Block), p # <<>>, Begins(wal, p), NEW id \in Nat,
         NEW isCommit \in BOOLEAN, NEW kept \in 0..Len(p), NEW backfilled \in 0..kept,
         WriteFrame(p, kept, backfilled, id, isCommit)
  PROVE  /\ Begins(wal, wal') /\ UNCHANGED readMark
         /\ mxFrame' + spilled' = Len(wal')
         /\ mxFrame' > 0 /\ spilled' = 0 => nBackfill' < mxFrame'
         /\ "multi_frame" \notin Env => spilled' = 0
<1>1. wal \in Seq(Block) /\ commits \in Nat
  BY DEF SqliteTypeOK
<1>2. PICK b \in Block :
        /\ OverIs(wal', wal, p, b)
        /\ mxFrame' = (IF isCommit THEN Len(p) + 1 ELSE kept)
        /\ spilled' = (IF isCommit THEN 0 ELSE Len(p) + 1 - kept)
        /\ nBackfill' = backfilled /\ readMark' = readMark
  BY <1>1, WriteFrameFile
<1>3. PICK w : w = wal'
  OBVIOUS
<1>4. PICK n \in Nat : n = Len(p)
  OBVIOUS
<1>5. PICK m \in Nat : m = Len(wal)
  BY <1>1
<1>6. m <= n /\ \A i \in 1..m : wal[i] = p[i]
  BY <1>1, <1>4, <1>5 DEF Begins
<1>7. /\ w \in Seq(Block) /\ Len(w) \in Nat /\ Len(w) >= n + 1
      /\ \A i \in 1..n : w[i] = p[i]
      /\ \A i \in (n + 2)..Len(w) : i \in 1..m
  BY <1>2, <1>3, <1>4, <1>5 DEF OverIs
<1>8. Len(w) = n + 1
  <2>1. SUFFICES ASSUME Len(w) >= n + 2 PROVE FALSE
    BY <1>7
  <2>2. Len(w) \in (n + 2)..Len(w)
    BY <1>7, <2>1
  <2> QED
    BY <1>6, <1>7, <2>1, <2>2
<1>9. Begins(wal, w)
  BY <1>1, <1>5, <1>6, <1>7, <1>8 DEF Begins
<1>10. isCommit \/ "multi_frame" \in Env
  BY DEF WriteFrame
<1> QED
  BY <1>2, <1>3, <1>4, <1>8, <1>9, <1>10

\* The application appends, or writes to an empty file.
LEMMA AppFull ==
  ASSUME Steady, SqliteTypeOK, WalFull, App, step' = step
  PROVE  WalFull' /\ Begins(wal, wal')
<1>1. wal \in Seq(Block) /\ Len(wal) \in Nat /\ mxFrame \in Nat /\ spilled \in Nat
      /\ nBackfill \in Nat /\ nBackfill <= mxFrame /\ lastId \in Nat /\ commits \in Nat
  BY DEF SqliteTypeOK
<1>2. Begins(wal, wal)
  BY <1>1 DEF Begins
<1>3. ASSUME NEW c \in BOOLEAN, AppAppend(c) PROVE WalFull' /\ Begins(wal, wal')
  <2>1. SubSeq(wal, 1, Len(wal)) = wal
    BY <1>1
  <2>2. WriteFrame(wal, mxFrame, nBackfill, lastId + 1, c) /\ Len(wal) > 0
    BY <1>3, <2>1 DEF AppAppend, WalFull
  <2>3. mxFrame \in 0..Len(wal) /\ nBackfill \in 0..mxFrame /\ wal # <<>>
    BY <1>1, <2>2 DEF WalFull
  <2> QED
    BY <1>1, <1>2, <2>2, <2>3, WriteFrameFull DEF WalFull
<1>4. mxFrame + spilled = 0 => wal = <<>>
  BY <1>1 DEF WalFull
<1>5. ASSUME NEW c \in BOOLEAN, AppRestartWal(c) PROVE WalFull' /\ Begins(wal, wal')
  <2>1. wal = <<>>
    BY <1>1, <1>4, <1>5 DEF AppRestartWal, Restartable, WalFull
  <2>2. PICK h : h = [id |-> lastId + 1, prev |-> 0, tx |-> commits, commit |-> TRUE]
    OBVIOUS
  <2>3. h \in Block
    BY <1>1, <2>2 DEF Block
  <2>4. PICK p : p = <<h>>
    OBVIOUS
  <2>5. p \in Seq(Block) /\ p # <<>> /\ Begins(wal, p) /\ 0 \in 0..Len(p)
    BY <2>1, <2>3, <2>4 DEF Begins
  <2>6. WriteFrame(p, 0, 0, lastId + 2, c)
    BY <1>5, <2>2, <2>4 DEF AppRestartWal
  <2> QED
    BY <1>1, <2>5, <2>6, WriteFrameFull DEF WalFull
<1>6. ~AppRewriteHeader(TRUE) /\ ~AppRewriteHeader(FALSE)
  BY <1>4 DEF AppRewriteHeader
<1>7. ~AppRollback /\ ~AppReadBegin /\ ~AppCheckpoint(TRUE) /\ ~AppCheckpoint(FALSE)
  BY DEF Steady, AppRollback, AppReadBegin, AppCheckpoint
<1>8. ~AppReadEnd
  BY DEF AppReadEnd, WalFull
<1> QED
  BY <1>3, <1>5, <1>6, <1>7, <1>8 DEF App

\* The checkpoint of the manager meets no reader: all that is committed goes to the
\* database file, and the WAL is empty unless a transaction is being written.
LEMMA CheckpointFull ==
  ASSUME SqliteTypeOK, WalFull, step = "wal_checkpoint", WalCheckpoint(TRUE), UNCHANGED readMark,
         step' # "wal_checkpoint"
  PROVE  /\ WalFull'
         /\ db' = db \cup {wal[i].tx : i \in 2..mxFrame}
<1>1. readMark["waloy"] = NoRead /\ readMark["reader"] = NoRead
  BY DEF WalFull
<1>2. \A c \in Connections : readMark[c] = NoRead
  BY <1>1 DEF Connections
<1>3. mxFrame \in Nat /\ nBackfill \in Nat /\ nBackfill <= mxFrame /\ spilled \in Nat
      /\ wal \in Seq(Block) /\ Len(wal) \in Nat
  BY DEF SqliteTypeOK
<1>4. Backfillable = mxFrame
  BY <1>1, <1>2, <1>3 DEF Backfillable, UpTo, NoRead
<1>5. /\ db' = db \cup {wal[i].tx : i \in 2..mxFrame}
      /\ wal' = (IF spilled = 0 THEN <<>> ELSE wal)
      /\ mxFrame' = (IF spilled = 0 THEN 0 ELSE mxFrame)
      /\ spilled' = spilled
  BY <1>2, <1>4 DEF WalCheckpoint, NoRead
<1> QED
  BY <1>3, <1>5 DEF WalFull

\* The process ends: nothing of a file without open transactions is lost.
LEMMA KeptFull ==
  ASSUME Steady, SqliteTypeOK, WalFull, UNCHANGED <<wal, mxFrame>>,
         \/ UNCHANGED <<spilled, nBackfill>>
         \/ "crash" \in Env /\ spilled' = 0 /\ nBackfill' = 0,
         readMark'["reader"] = NoRead, step' = "wal_checkpoint" => readMark'["waloy"] = NoRead
  PROVE  WalFull' /\ Begins(wal, wal')
<1>1. wal \in Seq(Block) /\ Len(wal) \in Nat /\ mxFrame \in Nat
  BY DEF SqliteTypeOK
<1>2. Begins(wal, wal)
  BY <1>1 DEF Begins
<1>3. spilled' = spilled
  BY DEF Steady, WalFull
<1>4. mxFrame > 0 /\ spilled = 0 => nBackfill' < mxFrame
  BY <1>1 DEF WalFull
<1> QED
  BY <1>2, <1>3, <1>4 DEF WalFull

\* The mark of the application stays, and that of the manager is given up before
\* the WAL is checkpointed.
MarksLeft ==
  /\ readMark'["reader"] = readMark["reader"]
  /\ step' = "wal_checkpoint" => readMark'["waloy"] = NoRead

\* What Pin sets, and what it leaves.
LEMMA PinLeaves ==
  ASSUME TypeOK, NEW mark, Pin(mark)
  PROVE  readMark'["waloy"] = mark /\ readMark'["reader"] = readMark["reader"]
  BY DEF Pin, TypeOK, SqliteTypeOK, Connections

\* A sync returns without a pin if a checkpoint follows.
LEMMA SyncReturnLeaves ==
  ASSUME TypeOK, NEW c, NEW o, NEW mark, SyncReturn(c, o, mark)
  PROVE  MarksLeft
  BY PinLeaves DEF SyncReturn, Idle, MarksLeft

\* So does a snapshot.
LEMMA SnapshotReturnLeaves ==
  ASSUME TypeOK, NEW o, SnapshotReturn(o)
  PROVE  MarksLeft
<1>1. CASE UNCHANGED readMark /\ step' = "idle"
  BY <1>1 DEF MarksLeft
<1>2. ASSUME NEW mark, Pin(mark), step' = "idle" PROVE MarksLeft
  BY <1>2, PinLeaves DEF MarksLeft
<1>3. ASSUME NEW mark, NEW x, SyncReturn(api, x, mark) PROVE MarksLeft
  BY <1>3, SyncReturnLeaves
<1> QED
  BY <1>1, <1>2, <1>3 DEF SnapshotReturn, Idle

\* What a step is to the WAL and the read marks.
LEMMA MarksStep ==
  ASSUME TypeOK, [Next]_vars
  PROVE  \/ AppStep
         \/ CheckpointWal /\ WalCheckpoint(TRUE) /\ UNCHANGED readMark /\ step' = "read_db"
         \/ UNCHANGED sqliteFiles /\ (MarksLeft \/ UNCHANGED <<readMark, step>>)
         \/ Crash
<1> DEFINE Goal == UNCHANGED sqliteFiles /\ MarksLeft
<1>1. CASE New
  <2>1. MarksLeft
    BY <1>1, PinLeaves DEF New, EnterSnapshot, MarksLeft
  <2> QED
    BY <1>1, <2>1 DEF New
<1>2. ASSUME NEW c, SyncWal(c) PROVE Goal
  <2>1. CASE \E o : SyncReturn(c, o, readMark["waloy"])
    BY <1>2, <2>1, SyncReturnLeaves DEF SyncWal
  <2>2. CASE Recover(c)
    <3>1. MarksLeft
      BY <2>2, PinLeaves DEF Recover, EnterSnapshot, MarksLeft
    <3> QED
      BY <1>2, <3>1 DEF SyncWal
  <2>3. CASE UNCHANGED readMark /\ step' = "put_segment"
    BY <1>2, <2>3 DEF SyncWal, MarksLeft
  <2> QED
    BY <1>2, <2>1, <2>2, <2>3 DEF SyncWal, ReadNewFrames
<1>3. ASSUME NEW o, PutSegment(o) \/ PutSegmentManifest(o) PROVE Goal
  <2>1. CASE \E c : SyncReturn(api, c, readMark["waloy"])
    BY <1>3, <2>1, SyncReturnLeaves DEF PutSegment, PutSegmentManifest
  <2>2. CASE UNCHANGED readMark /\ step' = "put_segment_manifest"
    BY <1>3, <2>2 DEF PutSegment, PutSegmentManifest, MarksLeft
  <2> QED
    BY <1>3, <2>1, <2>2 DEF PutSegment, PutSegmentManifest
<1>4. CASE CheckpointWal
  <2>1. CASE WalCheckpoint(TRUE) /\ step' = "read_db"
    BY <1>4, <2>1 DEF CheckpointWal
  <2>2. CASE UNCHANGED sqliteFiles /\ step' = "idle"
    BY <1>4, <2>2 DEF CheckpointWal, MarksLeft
  <2> QED
    BY <1>4, <2>1, <2>2 DEF CheckpointWal, EnterSnapshot, Idle
<1>5. CASE Snapshot \/ Compaction \/ Retention
  <2>1. UNCHANGED sqliteVars /\ step' # "wal_checkpoint"
    BY <1>5 DEF Snapshot, Compaction, Retention, Compact, CompactGet, CompactPut, CompactManifest,
                CompactDelete, EnforceRetention, RetentionNext, RetentionDelete, EnterSnapshot, Idle
  <2> QED
    BY <2>1 DEF sqliteVars, MarksLeft
<1>6. ASSUME NEW o, ReadDb(o) \/ PutSnapshot(o) \/ PutLatest(o) \/ PutSnapshotManifest(o)
      PROVE  Goal
  <2>1. CASE SnapshotReturn(o)
    BY <1>6, <2>1, SnapshotReturnLeaves
       DEF ReadDb, PutSnapshot, PutLatest, PutSnapshotManifest
  <2>2. CASE UNCHANGED readMark /\ step' # "wal_checkpoint"
    BY <1>6, <2>2 DEF ReadDb, PutSnapshot, PutLatest, PutSnapshotManifest, MarksLeft
  <2> QED
    BY <1>6, <2>1, <2>2 DEF ReadDb, PutSnapshot, PutLatest, PutSnapshotManifest
<1>7. CASE Drop
  BY <1>7, PinLeaves DEF Drop, Gone, Idle, MarksLeft
<1>8. CASE UNCHANGED vars
  BY <1>8 DEF vars, sqliteVars, call
<1> QED
  BY <1>1, <1>2, <1>3, <1>4, <1>5, <1>6, <1>7, <1>8 DEF Next, Manager, Sync, TakeSnapshot

\* Nothing but the checkpoint of the manager takes blocks off the WAL.
LEMMA WalStep ==
  ASSUME Steady, TypeOK, StepOK, WalFull, [Next]_vars
  PROVE  /\ WalFull'
         /\ \/ Begins(wal, wal')
            \/ CheckpointWal /\ WalCheckpoint(TRUE)
<1>1. SqliteTypeOK /\ readMark["reader"] = NoRead
  BY DEF TypeOK, WalFull
<1>2. CASE UNCHANGED sqliteFiles /\ (MarksLeft \/ UNCHANGED <<readMark, step>>)
  <2>1. readMark'["reader"] = NoRead /\ (step' = "wal_checkpoint" => readMark'["waloy"] = NoRead)
    BY <1>1, <1>2 DEF MarksLeft, WalFull
  <2> QED
    BY <1>1, <1>2, <2>1, KeptFull DEF sqliteFiles
<1>3. CASE AppStep
  BY <1>1, <1>3, AppFull DEF AppStep, call
<1>4. CASE CheckpointWal /\ WalCheckpoint(TRUE) /\ UNCHANGED readMark /\ step' = "read_db"
  BY <1>1, <1>4, CheckpointFull DEF CheckpointWal
<1>5. CASE Crash
  <2>1. /\ "crash" \in Env /\ spilled' = 0 /\ nBackfill' = 0 /\ step' = "idle"
        /\ readMark'["reader"] = NoRead /\ UNCHANGED <<wal, mxFrame>>
    BY <1>5 DEF Crash, SqliteCrash, Gone, Idle, Connections
  <2> QED
    BY <1>1, <2>1, KeptFull
<1> QED
  BY <1>2, <1>3, <1>4, <1>5, MarksStep

-----------------------------------------------------------------------------
(* What is replayed of the beginning of a file, and of all of it. *)

\* More is replayed of more.
LEMMA ReplayMore ==
  ASSUME NEW w \in Seq(Block), NEW o \in Seq(Block), Begins(o, w)
  PROVE  Replay(o) \subseteq Replay(w)
<1>1. Len(o) \in Nat /\ Len(w) \in Nat /\ Len(o) <= Len(w) /\ \A i \in 1..Len(o) : o[i] = w[i]
  BY DEF Begins
<1>2. ASSUME NEW i \in 2..Len(o), NEW n \in i..Len(o), o[n].commit, ValidPrefix(o, n)
      PROVE  /\ i \in 2..Len(w) /\ n \in i..Len(w) /\ w[n].commit /\ ValidPrefix(w, n)
             /\ o[i].tx = w[i].tx
  <2>1. i \in 2..Len(w) /\ n \in i..Len(w) /\ i \in 1..Len(o) /\ n \in 1..Len(o)
    BY <1>1
  <2>2. \A j \in 1..n : o[j] = w[j] /\ (j # 1 => o[j - 1] = w[j - 1])
    BY <1>1, <2>1
  <2> QED
    BY <1>1, <1>2, <2>1, <2>2 DEF ValidPrefix
<1> QED
  BY <1>2 DEF Replay

\* The database file and the WAL hold every committed transaction.
LEMMA AllCommitted ==
  ASSUME TypeOK, HInv
  PROVE  1..commits \subseteq db \cup Replay(wal)
<1>1. wal \in Seq(Block) /\ commits \in Nat /\ mxFrame \in Nat
  BY DEF TypeOK, SqliteTypeOK
<1>2. Linked(wal, commits)
  BY HistoryLinks DEF HInv, Known
<1>3. CASE mxFrame = 0
  BY <1>3 DEF HInv, SqliteOK, DbOK
<1>4. CASE mxFrame # 0
  <2>1. CommitAt(wal, mxFrame) /\ wal[mxFrame].tx = commits /\ mxFrame \in 2..Len(wal)
    BY <1>4 DEF HInv, SqliteOK, WalOK, CommitAt
  <2>2. PICK N \in 2..Len(wal) : Replay(wal) = (wal[1].tx + 1)..wal[N].tx
                                 /\ wal[mxFrame].tx <= wal[N].tx
    BY <1>1, <1>2, <2>1, ReplayTo
  <2>3. wal # <<>> /\ wal[1] \in Block /\ wal[N] \in Block
    BY <1>1, <2>1
  <2>4. wal[1].tx \in Nat /\ wal[N].tx \in Nat
    BY <2>3, BlockFields
  <2>5. 1..wal[1].tx \subseteq db
    BY <2>3 DEF HInv, SqliteOK, DbOK
  <2>6. ASSUME NEW t \in 1..commits PROVE t \in 1..wal[1].tx \/ t \in (wal[1].tx + 1)..wal[N].tx
    BY <1>1, <2>1, <2>2, <2>4
  <2> QED
    BY <2>2, <2>5, <2>6
<1> QED
  BY <1>3, <1>4

\* The checkpoint of the manager leaves every committed transaction in the
\* database file.
LEMMA CheckpointCopies ==
  ASSUME TypeOK, HInv, WalFull, CheckpointWal, WalCheckpoint(TRUE), step' # "wal_checkpoint"
  PROVE  1..commits \subseteq db'
<1>1. db' = db \cup {wal[i].tx : i \in 2..mxFrame}
  BY CheckpointFull DEF CheckpointWal, TypeOK
<1>2. wal \in Seq(Block) /\ commits \in Nat /\ mxFrame \in Nat
  BY DEF TypeOK, SqliteTypeOK
<1>3. Linked(wal, commits)
  BY HistoryLinks DEF HInv, Known
<1>4. CASE mxFrame = 0
  BY <1>1, <1>4 DEF HInv, SqliteOK, DbOK
<1>5. CASE mxFrame # 0
  <2>1. /\ wal[mxFrame].tx = commits /\ mxFrame \in 2..Len(wal) /\ ValidPrefix(wal, mxFrame)
        /\ mxFrame \in 1..Len(wal)
    BY <1>5 DEF HInv, SqliteOK, WalOK, CommitAt
  <2>2. {wal[i].tx : i \in 2..mxFrame} = (wal[1].tx + 1)..commits
    BY <1>2, <1>3, <2>1, Chain
  <2>3. wal # <<>> /\ wal[1] \in Block
    BY <1>2, <2>1
  <2>4. wal[1].tx \in Nat
    BY <2>3, BlockFields
  <2>5. 1..wal[1].tx \subseteq db
    BY <2>3 DEF HInv, SqliteOK, DbOK
  <2>6. ASSUME NEW t \in 1..commits PROVE t \in 1..wal[1].tx \/ t \in (wal[1].tx + 1)..commits
    BY <1>2, <2>4
  <2> QED
    BY <1>1, <2>2, <2>5, <2>6
<1> QED
  BY <1>4, <1>5

-----------------------------------------------------------------------------
(* The segments of the manager are the beginning of the WAL. *)

OwnBegins ==
  running /\ step \notin BeforeReset =>
    /\ Begins(Own, wal)
    /\ salt # NoSalt => wal # <<>> /\ wal[1].id = salt
    /\ step = "put_segment" => Begins(Own \o data, wal)

\* What begins the beginning of a file begins the file.
LEMMA BeginsFurther ==
  ASSUME NEW o \in Seq(Block), NEW w \in Seq(Block), NEW v \in Seq(Block),
         Begins(o, w), Begins(w, v)
  PROVE  Begins(o, v)
<1>1. \A i \in DOMAIN o : i \in DOMAIN w
  BY DEF Begins
<1> QED
  BY <1>1 DEF Begins

\* The segments hold blocks, as many as were tracked.
LEMMA OwnLength ==
  ASSUME TypeOK, SInv, running
  PROVE  /\ Own \in Seq(Block)
         /\ step \notin BeforeReset \cup {"put_segment_manifest"} => Len(Own) = wal_offset
<1>1. Describes(manifest, bucket, generation) /\ manifest \in Seq(SegmentMeta) /\ SegmentsTyped(bucket)
  BY BucketSegments DEF SInv, ManagerOK, TypeOK, ManagerTypeOK
<1>2. Own \in Seq(Block)
  BY <1>1, JoinedType DEF Own
<1>3. Len(Own) = End(manifest)
  BY <1>1, JoinedLength DEF Own
<1> QED
  BY <1>2, <1>3 DEF SInv, ManagerOK

\* The segments and what sync_wal has not uploaded yet are the WAL.
LEMMA RestOfWal ==
  ASSUME NEW o \in Seq(Block), NEW w \in Seq(Block), Begins(o, w)
  PROVE  /\ o \o SubSeq(w, Len(o) + 1, Len(w)) = w
         /\ Len(o) >= Len(w) => o = w
<1>1. PICK n \in Nat : n = Len(o)
  OBVIOUS
<1>2. PICK m \in Nat : m = Len(w)
  OBVIOUS
<1>3. n <= m /\ \A i \in 1..n : o[i] = w[i]
  BY <1>1, <1>2 DEF Begins
<1>4. PICK s : s = SubSeq(w, n + 1, m)
  OBVIOUS
<1>5. s \in Seq(Block) /\ Len(s) = m - n /\ \A i \in 1..(m - n) : s[i] = w[n + i]
  BY <1>1, <1>2, <1>3, <1>4
<1>6. Len(o \o s) = m /\ \A i \in 1..m : (o \o s)[i] = w[i]
  <2>1. ASSUME NEW i \in 1..m PROVE (o \o s)[i] = w[i]
    <3>1. CASE i \in 1..n
      BY <1>1, <1>3, <1>5, <3>1, ConcatProperties
    <3>2. CASE i \in (n + 1)..m
      <4>1. i - n \in 1..(m - n) /\ n + (i - n) = i
        BY <3>2
      <4>2. (o \o s)[i] = s[i - n]
        BY <1>1, <1>2, <1>3, <1>5, <3>2, ConcatProperties
      <4> QED
        BY <1>5, <4>1, <4>2
    <3>3. i \in 1..n \/ i \in (n + 1)..m
      BY <1>3, <2>1
    <3> QED
      BY <3>1, <3>2, <3>3
  <2> QED
    BY <1>1, <1>3, <1>5, <2>1
<1>7. o \o s = w
  <2>1. o \o s \in Seq(Block)
    BY <1>5
  <2>2. PICK v \in Seq(Block) : v = o \o s
    BY <2>1
  <2> QED
    BY <1>2, <1>6, <2>2, SeqEqual
<1>8. n >= m => o = w
  BY <1>1, <1>2, <1>3
<1> QED
  BY <1>1, <1>2, <1>4, <1>7, <1>8

\* The WAL that was synced is still there: nothing is to be recovered.
LEMMA NoRecovery ==
  ASSUME TypeOK, SInv, OwnBegins, running, step = "idle"
  PROVE  ~WalNeedsRecovery
<1>1. Begins(Own, wal) /\ Len(Own) = wal_offset /\ (salt # NoSalt => wal[1].id = salt)
  BY OwnLength DEF OwnBegins, BeforeReset
<1>2. wal_offset \in Nat /\ Len(wal) \in Nat
  BY DEF TypeOK, ManagerTypeOK, SqliteTypeOK
<1> QED
  BY <1>1, <1>2 DEF Begins, WalNeedsRecovery

\* The segments hold what they held, and the WAL has grown.
LEMMA BeginsSame ==
  ASSUME TypeOK, TypeOK', SInv, OwnBegins, running, step \notin BeforeReset, Own' = Own,
         Begins(wal, wal'), salt' = salt,
         step' = "put_segment" => step = "put_segment" /\ data' = data
  PROVE  OwnBegins'
<1>1. wal \in Seq(Block) /\ wal' \in Seq(Block) /\ data \in Seq(Block) /\ Own \in Seq(Block)
  BY OwnLength DEF TypeOK, SqliteTypeOK, CallTypeOK
<1>2. PICK w \in Seq(Block) : w = wal'
  BY <1>1
<1>3. PICK o \in Seq(Block) : o = Own
  BY <1>1
<1>4. /\ Begins(o, wal) /\ Begins(wal, w)
      /\ salt # NoSalt => wal # <<>> /\ wal[1].id = salt
      /\ step = "put_segment" => Begins(o \o data, wal)
  BY <1>2, <1>3 DEF OwnBegins
<1>5. Begins(o, w)
  BY <1>1, <1>4, BeginsFurther
<1>6. o \o data \in Seq(Block)
  BY <1>1
<1>7. step = "put_segment" => Begins(o \o data, w)
  BY <1>1, <1>4, <1>6, BeginsFurther
<1>8. salt # NoSalt => w # <<>> /\ w[1].id = salt
  BY <1>1, <1>4 DEF Begins
<1> QED
  BY <1>2, <1>3, <1>5, <1>7, <1>8 DEF OwnBegins

\* There is nothing to show until the tracking is reset.
LEMMA BeginsBefore ==
  ASSUME ~running' \/ step' \in BeforeReset
  PROVE  OwnBegins'
  BY DEF OwnBegins

\* Nothing is listed, and no salt is known.
LEMMA BeginsNothing ==
  ASSUME TypeOK', manifest' = <<>>, salt' = NoSalt, step' # "put_segment"
  PROVE  OwnBegins'
<1>1. Joined(bucket', generation', <<>>) = <<>>
  BY JoinedNothing
<1>2. Own' = <<>>
  BY <1>1 DEF Own
<1>3. Begins(<<>>, wal')
  BY DEF Begins, TypeOK, SqliteTypeOK
<1> QED
  BY <1>2, <1>3 DEF OwnBegins

\* What the manager believes of the WAL when it has read its header, and what it
\* has read behind the segments.
LEMMA BeginsRead ==
  ASSUME TypeOK, TypeOK', SInv, OwnBegins, running, step = "idle", Len(wal) > 1,
         Own' = Own, wal' = wal, salt' = wal[1].id,
         step' = "put_segment" => data' = NewFrames
  PROVE  OwnBegins'
<1>1. wal \in Seq(Block) /\ Own \in Seq(Block) /\ Len(Own) = wal_offset /\ Begins(Own, wal)
  BY OwnLength DEF TypeOK, SqliteTypeOK, OwnBegins, BeforeReset
<1>2. PICK w \in Seq(Block) : w = wal
  BY <1>1
<1>3. PICK o \in Seq(Block) : o = Own
  BY <1>1
<1>4. o \o SubSeq(w, Len(o) + 1, Len(w)) = w
  BY <1>1, <1>2, <1>3, RestOfWal
<1>5. PICK f : f = NewFrames
  OBVIOUS
<1>6. o \o f = w
  BY <1>1, <1>2, <1>3, <1>4, <1>5 DEF NewFrames
<1>7. Begins(w, w) /\ w # <<>>
  BY <1>2 DEF Begins
<1>8. wal' = w /\ Own' = o /\ salt' = w[1].id /\ (step' = "put_segment" => data' = f)
  BY <1>2, <1>3, <1>5
<1>9. Begins(o, w)
  BY <1>1, <1>2, <1>3
<1> QED
  BY <1>6, <1>7, <1>8, <1>9 DEF OwnBegins

\* Whatever step: the segments go on being the beginning of the WAL, and the next
\* segment its rest.
LEMMA BeginsNext ==
  ASSUME NoFailures, Steady, Sound, Sound', WalFull, OwnBegins, [Next]_vars
  PROVE  OwnBegins'
<1>1. TypeOK /\ TypeOK' /\ StepOK /\ RInv /\ SInv
  BY DEF Sound
<1> SUFFICES ASSUME running', step' \notin BeforeReset PROVE OwnBegins'
  BY BeginsBefore
<1>2. Begins(wal, wal')
  <2>1. CheckpointWal => step' \in BeforeReset
    BY OnlyOk DEF CheckpointWal, EnterSnapshot, BeforeReset
  <2> QED
    BY <1>1, <2>1, WalStep
<1>3. ASSUME running, step \notin BeforeReset, UNCHANGED <<bucket, generation, manifest, salt>>,
             step' = "put_segment" => step = "put_segment" /\ data' = data
      PROVE  OwnBegins'
  <2>1. Own' = Own
    BY <1>3 DEF Own, Joined, Parts
  <2> QED
    BY <1>1, <1>2, <1>3, <2>1, BeginsSame
<1>4. CASE AppStep \/ UNCHANGED vars
  BY <1>3, <1>4 DEF AppStep, vars, tracking, call, locals, syncLocals
<1>5. CASE New \/ Snapshot \/ CheckpointWal
  BY <1>5, OnlyOk DEF New, Snapshot, CheckpointWal, EnterSnapshot, BeforeReset
<1>6. ASSUME NEW c, SyncWal(c) PROVE OwnBegins'
  <2>1. running /\ step = "idle" /\ UNCHANGED <<bucket, wal>>
    BY <1>6 DEF SyncWal, Call, sqliteFiles
  <2>2. CASE UNCHANGED tracking /\ \E o : SyncReturn(c, o, readMark["waloy"])
    BY <1>3, <2>1, <2>2, SyncReturnStep DEF tracking, BeforeReset
  <2>3. CASE Recover(c)
    BY <2>3 DEF Recover, EnterSnapshot, BeforeReset
  <2>4. CASE Len(wal) > 1 /\ ReadNewFrames(c)
    <3>1. UNCHANGED <<bucket, generation, manifest>> /\ salt' = wal[1].id
      BY <2>1, <2>4 DEF ReadNewFrames
    <3>2. step' = "put_segment" => data' = NewFrames
      BY <2>4, SyncReturnStep DEF ReadNewFrames
    <3>3. Own' = Own
      BY <3>1 DEF Own, Joined, Parts
    <3> QED
      BY <1>1, <2>1, <2>4, <3>1, <3>2, <3>3, BeginsRead
  <2> QED
    BY <1>6, <2>2, <2>3, <2>4, OnlyOk DEF SyncWal
<1>7. CASE PutSegment("ok")
  <2>1. running /\ step = "put_segment" /\ step' = "put_segment_manifest"
        /\ UNCHANGED <<wal, salt>>
    BY <1>1, <1>7 DEF PutSegment, StepOK, sqliteFiles
  <2>2. Own' = Own \o data
    BY <1>1, <1>7, PutSegmentS
  <2>3. PICK v : v = Own \o data
    OBVIOUS
  <2>4. PICK w : w = wal
    OBVIOUS
  <2>5. Begins(v, w) /\ (salt # NoSalt => w # <<>> /\ w[1].id = salt)
    BY <2>1, <2>3, <2>4 DEF OwnBegins, BeforeReset
  <2>6. wal' = w /\ Own' = v
    BY <2>1, <2>2, <2>3, <2>4
  <2> QED
    BY <2>1, <2>5, <2>6 DEF OwnBegins
<1>8. CASE PutSegmentManifest("ok")
  <2>1. /\ running /\ step = "put_segment_manifest" /\ UNCHANGED <<generation, manifest, salt>>
        /\ PutObject("ok", ManifestKey(generation), manifest)
    BY <1>1, <1>8 DEF PutSegmentManifest, StepOK
  <2>2. Current
    BY <1>1, <2>1 DEF RInv, Base, Order
  <2>3. Own' = Own
    BY <1>1, <2>1, <2>2, PutManifestS
  <2>4. step' # "put_segment"
    BY <1>8, SyncReturnStep DEF PutSegmentManifest
  <2> QED
    BY <1>1, <1>2, <2>1, <2>3, <2>4, BeginsSame DEF BeforeReset
<1>9. CASE ReadDb("ok") \/ PutSnapshot("ok")
  BY <1>9 DEF ReadDb, PutSnapshot, BeforeReset
<1>10. CASE PutLatest("ok")
  BY <1>1, <1>10, BeginsNothing DEF PutLatest, ResetWalTracking
<1>11. CASE PutSnapshotManifest("ok")
  <2>1. running /\ step = "put_snapshot_manifest" /\ UNCHANGED <<manifest, salt>>
    BY <1>1, <1>11 DEF PutSnapshotManifest, StepOK, tracking
  <2>2. manifest = <<>> /\ manifest' = <<>>
    BY <1>1, <2>1 DEF SInv, ManagerOK
  <2>3. Own' = Own
    BY <2>2, JoinedNothing DEF Own
  <2>4. step' # "put_segment"
    BY <1>11, SnapshotReturnStep DEF PutSnapshotManifest
  <2> QED
    BY <1>1, <1>2, <2>1, <2>3, <2>4, BeginsSame DEF BeforeReset
<1>12. CASE Compaction \/ Retention
  <2>1. running /\ step \notin BeforeReset /\ UNCHANGED salt /\ step' # "put_segment"
    BY <1>1, <1>12 DEF Compaction, Retention, Compact, CompactGet, CompactPut, CompactManifest,
           CompactDelete, EnforceRetention, RetentionNext, RetentionDelete, Call, StepOK,
           tracking, BeforeReset, Idle
  <2>2. Own' = Own
    BY <1>1, <1>12, OwnKept
  <2> QED
    BY <1>1, <1>2, <2>1, <2>2, BeginsSame
<1>13. CASE Drop \/ Crash
  BY <1>13 DEF Drop, Crash, Gone
<1> QED
  BY <1>4, <1>5, <1>6, <1>7, <1>8, <1>9, <1>10, <1>11, <1>12, <1>13, OnlyOk
     DEF Next, Manager, Sync, TakeSnapshot

-----------------------------------------------------------------------------
(* What a restore gives, step by step. *)

\* Between the uploads of a call a restore gives the database file and what the
\* segments replay.
Gives == db \cup Replay(Own)

\* The snapshot of the latest backup is that of the manager.
LEMMA SnapshotIsDb ==
  ASSUME PagesOK, RInv, Current
  PROVE  Stored(SnapshotKey(Latest)) /\ bucket[SnapshotKey(Latest)] = db
  BY DEF PagesOK, RInv, Base, LatestIsRestorable, Restorable, Current

\* The generation of the manager is the latest, and this is what a restore of it
\* gives.
LEMMA RestoreGives ==
  ASSUME RInv, SInv, PagesOK, running, step \in Settled \cup {"compact_manifest"}
  PROVE  Stored(LatestKey) /\ Latest = generation /\ RestoreLatest = Gives
<1>1. Stored(LatestKey) /\ Latest = generation /\ RestoredWal(generation) = Own
  BY OwnIsRestored
<1>2. bucket[SnapshotKey(Latest)] = db
  BY <1>1, SnapshotIsDb DEF Current
<1>3. PICK g : g = generation
  OBVIOUS
<1>4. bucket[LatestKey] = g /\ RestoredWal(g) = Own /\ bucket[SnapshotKey(g)] = db
  BY <1>1, <1>2, <1>3 DEF Latest
<1> QED
  BY <1>1, <1>4 DEF RestoreLatest, Restored, Gives

\* A restore reads a snapshot and a WAL: what it gives is theirs.
LEMMA RestoreIsNext ==
  ASSUME NEW g, NEW w, NEW s, Stored(LatestKey)', Latest' = g, RestoredWal(g)' = w,
         bucket'[SnapshotKey(g)] = s
  PROVE  RestoreLatest' = s \cup Replay(w)
<1>1. LatestKey \in DOMAIN bucket' /\ bucket'[LatestKey] = g
  BY DEF Stored, Latest
<1>2. Restored(g)' = s \cup Replay(w)
  BY DEF Restored
<1> QED
  BY <1>1, <1>2 DEF RestoreLatest, Stored

\* The same after a step.
LEMMA RestoreGivesNext ==
  ASSUME RInv', SInv', PagesOK', running', step' \in Settled \cup {"compact_manifest"}
  PROVE  Stored(LatestKey)' /\ Latest' = generation' /\ RestoreLatest' = Gives'
<1>1. Stored(LatestKey)' /\ Latest' = generation' /\ RestoredWal(generation)' = Own'
  BY OwnIsRestoredNext
<1>2. SnapshotKey(generation') \in DOMAIN bucket'
  BY <1>1 DEF RInv, Base, LatestIsRestorable, Restorable, Stored, SnapshotKey
<1>3. bucket'[SnapshotKey(generation')] = db'
  BY <1>2 DEF PagesOK, Stored, SnapshotKey
<1>4. PICK g : g = generation'
  OBVIOUS
<1>5. PICK w : w = Own'
  OBVIOUS
<1>6. PICK s : s = db'
  OBVIOUS
<1>7. Latest' = g /\ RestoredWal(g)' = w /\ bucket'[SnapshotKey(g)] = s
  BY <1>1, <1>3, <1>4, <1>5, <1>6 DEF RestoredWal, SegmentIndexes, StoredIndexes, Stored, ManifestKey
<1>8. RestoreLatest' = s \cup Replay(w)
  BY <1>1, <1>7, RestoreIsNext
<1>9. Gives' = s \cup Replay(w)
  BY <1>5, <1>6 DEF Gives
<1> QED
  BY <1>1, <1>8, <1>9

\* A step that leaves the bucket alone.
LEMMA RestoreSame ==
  ASSUME UNCHANGED bucket
  PROVE  /\ RestoreLatest' = RestoreLatest /\ Latest' = Latest
         /\ Stored(LatestKey)' <=> Stored(LatestKey)
  BY DEF RestoreLatest, Restored, RestoredWal, SegmentIndexes, StoredIndexes, Stored, Latest

\* One that leaves what a restore reads.
LEMMA RestoreKept ==
  ASSUME Stored(LatestKey), \A x \in DOMAIN bucket : x \in DOMAIN bucket',
         bucket'[LatestKey] = bucket[LatestKey],
         bucket'[SnapshotKey(Latest)] = bucket[SnapshotKey(Latest)],
         RestoredWal(Latest)' = RestoredWal(Latest)
  PROVE  RestoreLatest' = RestoreLatest /\ Latest' = Latest /\ Stored(LatestKey)'
<1>1. PICK g : g = Latest
  OBVIOUS
<1>2. PICK w : w = RestoredWal(g)
  OBVIOUS
<1>3. PICK s : s = bucket[SnapshotKey(g)]
  OBVIOUS
<1>4. Latest' = g /\ RestoredWal(Latest)' = w /\ bucket'[SnapshotKey(g)] = s /\ Stored(LatestKey)'
  BY <1>1, <1>2, <1>3 DEF Latest, Stored
<1>5. RestoredWal(g)' = w
  BY <1>4
<1>6. RestoreLatest' = s \cup Replay(w)
  BY <1>4, <1>5, RestoreIsNext
<1>7. RestoreLatest = s \cup Replay(w)
  BY <1>1, <1>2, <1>3 DEF RestoreLatest, Restored, Latest
<1> QED
  BY <1>1, <1>4, <1>6, <1>7

\* The segment that is uploaded is not restored before the manifest lists it.
LEMMA PutSegmentGives ==
  ASSUME TypeOK, TypeOK', StepOK, RInv, SInv, PutSegment("ok")
  PROVE  RestoreLatest' = RestoreLatest
<1>1. /\ running /\ step = "put_segment" /\ generation' = generation
      /\ PutObject("ok", WalKey(generation, wal_index), data)
  BY DEF PutSegment, StepOK
<1>2. Current /\ Published
  BY <1>1 DEF RInv, Base, Order, SInv, ManagerOK, Settled
<1>3. PICK g : g = generation /\ g = Latest
  BY <1>2 DEF Current
<1>4. Stored(SnapshotKey(g)) /\ Stored(LatestKey) /\ Stored(ManifestKey(g))
      /\ bucket[ManifestKey(g)] = manifest
  BY <1>2, <1>3 DEF RInv, Base, Current, LatestIsRestorable, Restorable, Published
<1>5. PICK k : k = WalKey(generation, wal_index)
  OBVIOUS
<1>6. k # LatestKey /\ k # ManifestKey(g) /\ k # SnapshotKey(g)
  BY <1>5, KeysDiffer
<1>7. /\ DOMAIN bucket' = DOMAIN bucket \cup {k}
      /\ \A x \in DOMAIN bucket : x # k => bucket'[x] = bucket[x]
  BY <1>1, <1>5, PutStores
<1>8. /\ bucket'[LatestKey] = bucket[LatestKey] /\ bucket'[SnapshotKey(g)] = bucket[SnapshotKey(g)]
      /\ bucket'[ManifestKey(g)] = manifest /\ Stored(ManifestKey(g))'
  BY <1>4, <1>6, <1>7 DEF Stored
<1>9. RestoredWal(g)' = RestoredWal(g)
  <2>1. Joined(bucket', g, manifest) = Joined(bucket, g, manifest)
    BY <1>3, PutSegmentS DEF Own
  <2>2. RestoredWal(g) = Joined(bucket, g, manifest)
    BY <1>4, RestoredIs
  <2>3. RestoredWal(g)' = Joined(bucket', g, manifest)
    BY <1>8, RestoredIsNext
  <2> QED
    BY <2>1, <2>2, <2>3
<1>10. Latest' = Latest
  BY <1>8 DEF Latest
<1>11. RestoredWal(Latest)' = RestoredWal(Latest)
  BY <1>3, <1>9, <1>10
<1> QED
  BY <1>3, <1>4, <1>7, <1>8, <1>11, RestoreKept

\* The snapshot of a new generation is not restored before `latest` names it.
LEMMA PutSnapshotGives ==
  ASSUME TypeOK, RInv, ~Current, PutSnapshot("ok")
  PROVE  /\ RestoreLatest' = RestoreLatest /\ ~Current'
         /\ Stored(LatestKey)' <=> Stored(LatestKey)
         /\ Stored(LatestKey) => Latest' = Latest
<1>1. PutObject("ok", SnapshotKey(generation), image) /\ generation' = generation
  BY DEF PutSnapshot, tracking
<1>2. PICK k : k = SnapshotKey(generation)
  OBVIOUS
<1>3. /\ DOMAIN bucket' = DOMAIN bucket \cup {k}
      /\ \A x \in DOMAIN bucket : x # k => bucket'[x] = bucket[x]
  BY <1>1, <1>2, PutStores
<1>4. k # LatestKey
  BY <1>2, KeysDiffer
<1>5. CASE Stored(LatestKey)
  <2>1. PICK g : g = Latest
    OBVIOUS
  <2>2. Restorable(g) /\ Stored(SnapshotKey(g)) /\ g # generation
    BY <1>5, <2>1 DEF RInv, Base, LatestIsRestorable, Restorable, Current
  <2>3. k # SnapshotKey(g)
    BY <1>2, <2>2, KeysDiffer
  <2>4. ~ReadKey(k, g)
    BY <1>2 DEF ReadKey, SnapshotKey
  <2>5. RestoredWal(g)' = RestoredWal(g)
    BY <1>3, <2>2, <2>4, RestoredSame
  <2>6. bucket'[LatestKey] = bucket[LatestKey] /\ bucket'[SnapshotKey(g)] = bucket[SnapshotKey(g)]
    BY <1>3, <1>4, <1>5, <2>2, <2>3 DEF Stored
  <2>7. Latest' = g
    BY <2>1, <2>6 DEF Latest
  <2>8. RestoredWal(Latest)' = RestoredWal(Latest)
    BY <2>1, <2>5, <2>7
  <2>9. RestoreLatest' = RestoreLatest
    BY <1>3, <1>5, <2>1, <2>6, <2>8, RestoreKept
  <2>10. ~Current'
    BY <1>1, <2>1, <2>2, <2>7 DEF Current
  <2>11. Stored(LatestKey)'
    BY <1>3, <1>5 DEF Stored
  <2> QED
    BY <1>5, <2>1, <2>7, <2>9, <2>10, <2>11
<1>6. CASE ~Stored(LatestKey)
  BY <1>3, <1>4, <1>6 DEF Stored, RestoreLatest, Current
<1> QED
  BY <1>5, <1>6

\* A generation without segments gives the database file.
LEMMA PutLatestGives ==
  ASSUME TypeOK, StepOK, RInv, PagesOK, PagesOK', Unused, ~Current, PutLatest("ok")
  PROVE  RestoreLatest' = db' /\ Latest' = generation'
<1>1. step = "put_latest" /\ running /\ PutObject("ok", LatestKey, generation)
      /\ generation' = generation
  BY DEF PutLatest, StepOK
<1>2. PICK g : g = generation
  OBVIOUS
<1>3. /\ DOMAIN bucket' = DOMAIN bucket \cup {LatestKey} /\ bucket'[LatestKey] = g
      /\ \A x \in DOMAIN bucket : x # LatestKey => bucket'[x] = bucket[x]
  BY <1>1, <1>2, PutStores
<1>4. \A k \in DOMAIN bucket' : ~ReadKey(k, g)
  <2>1. \A k \in DOMAIN bucket : k[2] = g => k[1] = "snapshot"
    BY <1>1, <1>2 DEF Unused, BeforeReset
  <2> QED
    BY <1>3, <2>1 DEF ReadKey, LatestKey
<1>5. RestoredWal(g)' = <<>>
  BY <1>4, RestoredNothing
<1>6. SnapshotKey(generation') \in DOMAIN bucket'
  BY <1>1, <1>3 DEF RInv, Base, Order, Stored
<1>7. bucket'[SnapshotKey(generation')] = db'
  BY <1>6 DEF PagesOK, Stored, SnapshotKey
<1>8. PICK s : s = db'
  OBVIOUS
<1>9. Stored(LatestKey)' /\ Latest' = g /\ bucket'[SnapshotKey(g)] = s
  BY <1>1, <1>2, <1>3, <1>7, <1>8 DEF Stored, Latest
<1>10. RestoreLatest' = s \cup Replay(<<>>)
  BY <1>5, <1>9, RestoreIsNext
<1>11. Replay(<<>>) = {}
  BY DEF Replay
<1> QED
  BY <1>1, <1>2, <1>8, <1>9, <1>10, <1>11

\* The generation that `latest` names has come, so that another one is to come.
LEMMA LatestHasCome ==
  ASSUME TypeOK, RInv, UNCHANGED bucket, generation' = generation + 1
  PROVE  ~Current'
<1>1. generation \in Nat /\ ~(generation + 1 <= generation)
  BY KeysAssumption DEF TypeOK, ManagerTypeOK
<1>2. CASE Stored(LatestKey)
  <2>1. SnapshotKey(Latest) \in DOMAIN bucket
    BY <1>2 DEF RInv, Base, LatestIsRestorable, Restorable, Stored
  <2>2. SnapshotKey(Latest)[2] = Latest
    BY DEF SnapshotKey
  <2>3. Latest <= generation
    BY <2>1, <2>2 DEF RInv, Base, Fresh
  <2>4. Latest' = Latest
    BY DEF Latest
  <2> QED
    BY <1>1, <2>3, <2>4 DEF Current
<1>3. CASE ~Stored(LatestKey)
  BY <1>3 DEF Current, Stored
<1> QED
  BY <1>2, <1>3

-----------------------------------------------------------------------------
(* What sync_wal acknowledges. *)

\* No snapshot but those that begin a generation.
Orderly == NoFailures /\ Steady /\ "snapshot" \notin Calls

\* What the sync in progress saw committed comes with the segment it uploads.
SeenOK ==
  /\ step = "put_segment" => 1..seen \subseteq db \cup Replay(Own \o data)
  /\ step = "put_segment_manifest" => 1..seen \subseteq Gives

\* While a generation begins nothing of it is acknowledged.
AckedOK ==
  /\ acked.gen <= generation
  /\ running /\ step \in BeforeReset => acked.gen < generation /\ ~Current
  /\ running /\ step = "put_snapshot_manifest" => acked.gen < generation
  /\ SyncedIsRestorable

\* What is committed when sync_wal reads the WAL is in what it has read.
LEMMA SeenRead ==
  ASSUME Sound, OwnBegins, running, step = "idle", Len(wal) > 1
  PROVE  /\ 1..commits \subseteq db \cup Replay(Own \o NewFrames)
         /\ NothingNew => 1..commits \subseteq Gives
<1>1. wal \in Seq(Block) /\ Own \in Seq(Block) /\ Len(Own) = wal_offset /\ Begins(Own, wal)
  BY OwnLength DEF Sound, TypeOK, SqliteTypeOK, OwnBegins, BeforeReset
<1>2. PICK w \in Seq(Block) : w = wal
  BY <1>1
<1>3. PICK o \in Seq(Block) : o = Own
  BY <1>1
<1>4. o \o SubSeq(w, Len(o) + 1, Len(w)) = w /\ (Len(o) >= Len(w) => o = w)
  BY <1>1, <1>2, <1>3, RestOfWal
<1>5. 1..commits \subseteq db \cup Replay(w)
  BY <1>2, AllCommitted DEF Sound
<1>6. Own \o NewFrames = w
  BY <1>1, <1>2, <1>3, <1>4 DEF NewFrames
<1>7. NothingNew => Own = w
  BY <1>1, <1>2, <1>3, <1>4 DEF NothingNew
<1> QED
  BY <1>5, <1>6, <1>7 DEF Gives

\* Nothing is committed beside the database file while the WAL has no frame.
LEMMA NothingToSee ==
  ASSUME Sound, Len(wal) <= 1
  PROVE  1..commits \subseteq db
<1>1. Len(wal) \in Nat
  BY DEF Sound, TypeOK, SqliteTypeOK
<1>2. 2..Len(wal) = {}
  BY <1>1
<1>3. Replay(wal) = {}
  BY <1>2 DEF Replay
<1> QED
  BY <1>3, AllCommitted DEF Sound

\* Whatever step: a sync uploads what it saw committed.
LEMMA SeenNext ==
  ASSUME Orderly, Sound, Sound', OwnBegins, SeenOK, [Next]_vars
  PROVE  SeenOK'
<1>1. TypeOK /\ TypeOK' /\ StepOK /\ RInv /\ SInv /\ NoFailures /\ Undisturbed
  BY DEF Sound, Orderly, Steady, Undisturbed
<1>2. CASE AppStep \/ UNCHANGED vars
  <2>1. UNCHANGED <<bucket, generation, manifest, step, data, seen>>
    BY <1>2 DEF AppStep, vars, tracking, call, locals, syncLocals
  <2>2. db' = db
    <3>1. generation' # generation + 1
      BY <1>1, <2>1, KeysAssumption DEF TypeOK, ManagerTypeOK
    <3> QED
      BY <1>1, <3>1, DatabaseKept DEF DbStep
  <2>3. Own' = Own
    BY <2>1 DEF Own, Joined, Parts
  <2>4. PICK o : o = Own
    OBVIOUS
  <2> QED
    BY <2>1, <2>2, <2>3, <2>4 DEF SeenOK, Gives
<1>3. CASE step' \notin {"put_segment", "put_segment_manifest"}
  BY <1>3 DEF SeenOK
<1>4. ASSUME NEW c, SyncWal(c) PROVE SeenOK'
  <2>1. CASE step' = "put_segment"
    <3>1. running /\ step = "idle" /\ UNCHANGED <<bucket, db>>
      BY <1>4 DEF SyncWal, Call, sqliteFiles
    <3>2. Len(wal) > 1 /\ data' = NewFrames /\ seen' = commits /\ UNCHANGED <<generation, manifest>>
      BY <1>4, <2>1, SyncReturnStep DEF SyncWal, ReadNewFrames, Recover, EnterSnapshot
    <3>3. Own' = Own
      BY <3>1, <3>2 DEF Own, Joined, Parts
    <3>4. PICK v : v = Own \o NewFrames
      OBVIOUS
    <3>5. Own' \o data' = v
      BY <3>2, <3>3, <3>4
    <3>6. 1..commits \subseteq db \cup Replay(v)
      BY <3>1, <3>2, <3>4, SeenRead
    <3> QED
      BY <2>1, <3>1, <3>2, <3>5, <3>6 DEF SeenOK
  <2>2. step' # "put_segment_manifest"
    BY <1>4, SyncReturnStep DEF SyncWal, ReadNewFrames, Recover, EnterSnapshot
  <2> QED
    BY <1>3, <2>1, <2>2
<1>5. CASE PutSegment("ok")
  <2>1. step = "put_segment" /\ step' = "put_segment_manifest" /\ UNCHANGED <<db, seen>>
    BY <1>5 DEF PutSegment, sqliteFiles, locals, syncLocals
  <2>2. Own' = Own \o data
    BY <1>1, <1>5, PutSegmentS
  <2>3. PICK v : v = Own \o data
    OBVIOUS
  <2>4. Own' = v /\ 1..seen \subseteq db \cup Replay(v)
    BY <2>1, <2>2, <2>3 DEF SeenOK
  <2> QED
    BY <2>1, <2>4 DEF SeenOK, Gives
<1>6. CASE PutSegmentManifest("ok")
  BY <1>3, <1>6, SyncReturnStep DEF PutSegmentManifest
<1>7. CASE New \/ CheckpointWal \/ Snapshot
  BY <1>1, <1>3, <1>7, OnlyOk DEF New, Snapshot, CheckpointWal, EnterSnapshot
<1>8. CASE ReadDb("ok") \/ PutSnapshot("ok") \/ PutLatest("ok") \/ PutSnapshotManifest("ok")
  BY <1>3, <1>8, SnapshotReturnStep DEF ReadDb, PutSnapshot, PutLatest, PutSnapshotManifest
<1>9. CASE Compaction \/ Retention
  BY <1>3, <1>9 DEF Compaction, Retention, Compact, CompactGet, CompactPut, CompactManifest,
       CompactDelete, EnforceRetention, RetentionNext, RetentionDelete, Idle
<1>10. CASE Drop \/ Crash
  BY <1>3, <1>10 DEF Drop, Crash, Gone, Idle
<1> QED
  BY <1>1, <1>2, <1>4, <1>5, <1>6, <1>7, <1>8, <1>9, <1>10, OnlyOk
     DEF Next, Manager, Sync, TakeSnapshot

\* What a restore gives is the same, and so is what is acknowledged.
LEMMA AckedSame ==
  ASSUME SyncedIsRestorable, acked' = acked, RestoreLatest' = RestoreLatest,
         Stored(LatestKey)' <=> Stored(LatestKey), Stored(LatestKey) => Latest' = Latest
  PROVE  SyncedIsRestorable'
<1>1. PICK r : r = RestoreLatest
  OBVIOUS
<1>2. RestoreLatest' = r
  BY <1>1
<1> QED
  BY <1>1, <1>2 DEF SyncedIsRestorable

\* A generation begins: it has acknowledged nothing.
LEMMA AckedBegin ==
  ASSUME TypeOK, RInv, AckedOK, UNCHANGED <<bucket, acked>>, generation' = generation + 1
  PROVE  AckedOK'
<1>1. generation \in Nat /\ acked.gen \in Nat
  BY KeysAssumption DEF TypeOK, ManagerTypeOK
<1>2. acked'.gen < generation' /\ acked'.gen <= generation'
  BY <1>1 DEF AckedOK
<1>3. ~Current'
  BY LatestHasCome
<1>4. SyncedIsRestorable'
  BY AckedSame, RestoreSame DEF AckedOK
<1> QED
  BY <1>2, <1>3, <1>4 DEF AckedOK

\* A step that leaves the bucket, the generation and what is acknowledged.
LEMMA AckedQuiet ==
  ASSUME AckedOK, UNCHANGED <<bucket, acked, generation>>, running' => running,
         step' \in BeforeReset => step \in BeforeReset,
         step' = "put_snapshot_manifest" => step = "put_snapshot_manifest"
  PROVE  AckedOK'
<1>1. SyncedIsRestorable'
  BY AckedSame, RestoreSame DEF AckedOK
<1>2. Current' <=> Current
  BY RestoreSame DEF Current
<1> QED
  BY <1>1, <1>2 DEF AckedOK

\* sync_wal returns with what is restorable now.
LEMMA AckedNow ==
  ASSUME TypeOK', acked'.gen = generation', 1..acked'.n \subseteq RestoreLatest',
         step' \in {"idle", "wal_checkpoint"}
  PROVE  AckedOK'
<1>1. SyncedIsRestorable'
  BY DEF SyncedIsRestorable
<1>2. acked'.gen <= generation'
  BY KeysAssumption DEF TypeOK, ManagerTypeOK
<1> QED
  BY <1>1, <1>2 DEF AckedOK, BeforeReset

\* `latest` is that of the manager before and after: what a restore gives tells.
LEMMA AckedCurrent ==
  ASSUME AckedOK, Current, Current', UNCHANGED <<acked, generation>>,
         RestoreLatest' = RestoreLatest, step' \notin BeforeReset \cup {"put_snapshot_manifest"}
  PROVE  AckedOK'
<1>1. Stored(LatestKey)' /\ Stored(LatestKey) /\ Latest' = Latest
  BY DEF Current
<1>2. SyncedIsRestorable'
  BY <1>1, AckedSame DEF AckedOK
<1> QED
  BY <1>2 DEF AckedOK

\* The generation that has acknowledged nothing becomes the latest.
LEMMA AckedOther ==
  ASSUME TypeOK, acked.gen < generation, acked' = acked, generation' = generation,
         Latest' = generation', step' \notin BeforeReset
  PROVE  AckedOK'
<1>1. generation \in Nat /\ acked.gen \in Nat
  BY KeysAssumption DEF TypeOK, ManagerTypeOK
<1>2. acked'.gen # Latest' /\ acked'.gen <= generation' /\ acked'.gen < generation'
  BY <1>1
<1>3. SyncedIsRestorable'
  BY <1>2 DEF SyncedIsRestorable
<1> QED
  BY <1>2, <1>3 DEF AckedOK

\* sync_wal acknowledges what a restore gives.
LEMMA AckedSync ==
  ASSUME Sound, Sound', OwnBegins, AckedOK, NoFailures, NEW c, SyncWal(c)
  PROVE  AckedOK'
<1>1. TypeOK /\ TypeOK' /\ RInv /\ SInv /\ PagesOK
  BY DEF Sound
<1>2. running /\ step = "idle" /\ UNCHANGED <<bucket, running>>
  BY DEF SyncWal, Call
<1>3. RestoreLatest' = Gives
  BY <1>1, <1>2, RestoreGives, RestoreSame DEF Settled
<1>4. ASSUME Synced(commits), generation' = generation, step' \in {"idle", "wal_checkpoint"},
             1..commits \subseteq Gives
      PROVE  AckedOK'
  BY <1>1, <1>3, <1>4, AckedNow DEF Synced
<1>5. CASE /\ NoWal /\ SyncReturn(c, "ok", readMark["waloy"])
           /\ Synced(commits) /\ UNCHANGED tracking
  <2>1. Len(wal) <= 1
    BY <1>5 DEF NoWal, NoFailures
  <2> QED
    BY <1>4, <1>5, <2>1, NothingToSee, SyncReturnStep DEF Gives, tracking
<1>6. CASE Recover(c)
  BY <1>1, <1>2, <1>6, AckedBegin DEF Recover, NewGeneration
<1>7. CASE Len(wal) > 1 /\ ReadNewFrames(c)
  <2>1. CASE NothingNew /\ SyncReturn(c, "ok", readMark["waloy"]) /\ Synced(commits)
             /\ generation' = generation
    BY <1>2, <1>4, <1>7, <2>1, SeenRead, SyncReturnStep
  <2>2. CASE step' = "put_segment" /\ UNCHANGED <<generation, acked>>
    BY <1>2, <2>2, AckedQuiet DEF BeforeReset
  <2> QED
    BY <1>7, <2>1, <2>2 DEF ReadNewFrames
<1> QED
  BY <1>5, <1>6, <1>7, OnlyOk DEF SyncWal

\* Whatever step: what sync_wal acknowledged is what a restore gives.
LEMMA AckedNext ==
  ASSUME Orderly, Sound, Sound', Unused, OwnBegins, SeenOK, AckedOK, [Next]_vars
  PROVE  AckedOK'
<1>1. TypeOK /\ TypeOK' /\ StepOK /\ StepOK' /\ RInv /\ RInv' /\ SInv /\ SInv' /\ PagesOK /\ PagesOK'
      /\ NoFailures
  BY DEF Sound, Orderly
<1>2. CASE AppStep \/ UNCHANGED vars
  BY <1>2, AckedQuiet DEF AppStep, vars, tracking, call
<1>3. CASE New \/ CheckpointWal
  BY <1>1, <1>3, OnlyOk, AckedBegin DEF New, CheckpointWal, NewGeneration
<1>4. ASSUME NEW c, SyncWal(c) PROVE AckedOK'
  BY <1>1, <1>4, AckedSync
<1>5. CASE PutSegment("ok")
  <2>1. /\ running /\ running' /\ step = "put_segment" /\ step' = "put_segment_manifest"
        /\ UNCHANGED <<acked, generation>>
    BY <1>1, <1>5 DEF PutSegment, StepOK
  <2>2. Current /\ Current'
    BY <1>1, <2>1 DEF RInv, Base, Order
  <2> QED
    BY <1>1, <1>5, <2>1, <2>2, PutSegmentGives, AckedCurrent DEF BeforeReset
<1>6. CASE PutSegmentManifest("ok")
  <2>1. /\ running /\ running' /\ step = "put_segment_manifest" /\ Synced(seen)
        /\ UNCHANGED <<generation, manifest, db>>
        /\ PutObject("ok", ManifestKey(generation), manifest)
    BY <1>1, <1>6 DEF PutSegmentManifest, StepOK, sqliteFiles
  <2>2. step' \in {"idle", "wal_checkpoint"}
    BY <1>6, SyncReturnStep DEF PutSegmentManifest
  <2>3. Current
    BY <1>1, <2>1 DEF RInv, Base, Order
  <2>4. Own' = Own
    BY <1>1, <2>1, <2>3, PutManifestS
  <2>5. Gives' = Gives
    BY <2>1, <2>4 DEF Gives
  <2>6. RestoreLatest' = Gives
    BY <1>1, <2>1, <2>2, <2>5, RestoreGivesNext DEF Settled
  <2>7. 1..seen \subseteq Gives /\ acked' = [gen |-> generation, n |-> seen]
    BY <2>1 DEF SeenOK, Synced
  <2>8. acked'.gen = generation' /\ acked'.n = seen
    BY <2>1, <2>7
  <2> QED
    BY <1>1, <2>2, <2>6, <2>7, <2>8, AckedNow
<1>7. CASE Snapshot
  BY <1>7 DEF Snapshot, Call, Orderly
<1>8. CASE ReadDb("ok")
  BY <1>1, <1>8, AckedQuiet DEF ReadDb, tracking, BeforeReset
<1>9. CASE PutSnapshot("ok")
  <2>1. /\ running /\ step = "put_snapshot" /\ step' = "put_latest"
        /\ UNCHANGED <<acked, generation>>
    BY <1>1, <1>9 DEF PutSnapshot, StepOK, tracking
  <2>2. acked.gen < generation /\ ~Current
    BY <2>1 DEF AckedOK, BeforeReset
  <2>3. SyncedIsRestorable' /\ ~Current'
    BY <1>1, <1>9, <2>1, <2>2, PutSnapshotGives, AckedSame DEF AckedOK
  <2> QED
    BY <2>1, <2>2, <2>3 DEF AckedOK
<1>10. CASE PutLatest("ok")
  <2>1. /\ running /\ step = "put_latest" /\ step' = "put_snapshot_manifest"
        /\ UNCHANGED <<acked, generation>>
    BY <1>1, <1>10 DEF PutLatest, StepOK
  <2>2. acked.gen < generation /\ ~Current
    BY <2>1 DEF AckedOK, BeforeReset
  <2>3. Latest' = generation'
    BY <1>1, <1>10, <2>2, PutLatestGives
  <2> QED
    BY <1>1, <2>1, <2>2, <2>3, AckedOther DEF BeforeReset
<1>11. CASE PutSnapshotManifest("ok")
  <2>1. /\ running /\ step = "put_snapshot_manifest" /\ UNCHANGED <<acked, generation>>
    BY <1>1, <1>11 DEF PutSnapshotManifest, StepOK, tracking
  <2>2. step' \in {"idle", "wal_checkpoint"} /\ running'
    BY <1>11, <2>1, SnapshotReturnStep DEF PutSnapshotManifest
  <2>3. Latest' = generation'
    BY <1>1, <2>2, RestoreGivesNext DEF Settled
  <2> QED
    BY <1>1, <2>1, <2>2, <2>3, AckedOther DEF AckedOK, BeforeReset
<1>12. CASE Compaction \/ Retention
  <2>1. /\ running /\ running' /\ step \notin BeforeReset
        /\ step' \notin BeforeReset \cup {"put_snapshot_manifest"}
        /\ UNCHANGED <<acked, generation>>
    BY <1>1, <1>12 DEF Compaction, Retention, Compact, CompactGet, CompactPut, CompactManifest,
           CompactDelete, EnforceRetention, RetentionNext, RetentionDelete, Call, StepOK,
           tracking, BeforeReset, Idle
  <2>2. Current /\ Current'
    BY <1>1, <2>1 DEF RInv, Base, Order, BeforeReset
  <2> QED
    BY <1>1, <1>12, <2>1, <2>2, CompactionGives, AckedCurrent
<1>13. CASE Drop \/ Crash
  BY <1>13, AckedQuiet DEF Drop, Crash, Gone, Idle, BeforeReset
<1> QED
  BY <1>1, <1>2, <1>3, <1>4, <1>5, <1>6, <1>7, <1>8, <1>9, <1>10, <1>11, <1>12, <1>13, OnlyOk
     DEF Next, Manager, Sync, TakeSnapshot

-----------------------------------------------------------------------------
(* The theorems. *)

\* The WAL is full and the segments are its beginning, always.
LEMMA AlwaysBegins ==
  ASSUME NoFailures, Steady
  PROVE  Spec => [](Sound /\ CInv /\ WalFull /\ OwnBegins)
<1>1. Undisturbed
  BY DEF Steady, Undisturbed
<1>2. Init => WalFull /\ OwnBegins
  BY DEF Init, SqliteInit, WalFull, OwnBegins, Connections
<1>3. Sound /\ Sound' /\ WalFull /\ OwnBegins /\ [Next]_vars => WalFull' /\ OwnBegins'
  BY WalStep, BeginsNext DEF Sound
<1> QED
  BY <1>1, <1>2, <1>3, AlwaysSound, PTL DEF Spec

\* Between calls what is restorable and the part of the WAL that sync_wal has not
\* uploaded hold every committed transaction (manager.rs:220-279): if no upload
\* fails, whatever is checkpointed, compacted, retained, dropped or crashes.
THEOREM NothingIsSkipped ==
  ASSUME NoFailures, Steady
  PROVE  Spec => []NothingSkipped
<1>1. Sound /\ OwnBegins => NothingSkipped
  <2> SUFFICES ASSUME Sound, OwnBegins, running, step = "idle", Stored(LatestKey),
                      Latest = generation, Len(wal) > 1
               PROVE  1..commits \subseteq bucket[SnapshotKey(Latest)] \cup
                        Replay(RestoredWal(Latest) \o SubSeq(wal, wal_offset + 1, Len(wal)))
    BY DEF NothingSkipped
  <2>1. 1..commits \subseteq db \cup Replay(Own \o NewFrames)
    BY SeenRead
  <2>2. RestoredWal(generation) = Own
    BY OwnIsRestored DEF Sound, Settled
  <2>3. PICK g : g = generation
    OBVIOUS
  <2>4. RestoredWal(Latest) = Own
    BY <2>2, <2>3
  <2>5. bucket[SnapshotKey(Latest)] = db
    BY SnapshotIsDb DEF Sound, Current
  <2> QED
    BY <2>1, <2>4, <2>5 DEF NewFrames
<1> QED
  BY <1>1, AlwaysBegins, PTL

\* What sync_wal acknowledged is restorable while its generation is the latest
\* (manager.rs:220-279): if besides no snapshot is taken by hand.
THEOREM AcknowledgedIsRestorable ==
  ASSUME Orderly
  PROVE  Spec => []SyncedIsRestorable
<1>1. Init => SeenOK /\ AckedOK
  <2> SUFFICES ASSUME Init PROVE SeenOK /\ AckedOK
    OBVIOUS
  <2>1. SeenOK /\ ~Stored(LatestKey) /\ running = FALSE /\ generation = 0 /\ acked.gen = 0
    BY DEF Init, SeenOK, Stored
  <2> QED
    BY <2>1 DEF AckedOK, SyncedIsRestorable
<1>2. Sound /\ Sound' /\ CInv /\ OwnBegins /\ SeenOK /\ AckedOK /\ [Next]_vars => SeenOK' /\ AckedOK'
  BY SeenNext, AckedNext DEF CInv
<1>3. AckedOK => SyncedIsRestorable
  BY DEF AckedOK
<1>4. NoFailures /\ Steady
  BY DEF Orderly
<1> QED
  BY <1>1, <1>2, <1>3, <1>4, AlwaysBegins, PTL DEF Spec

-----------------------------------------------------------------------------
(* One manager that goes on: what is restorable only grows. *)

OneManager == Orderly /\ Env \cap {"crash", "drop"} = {} /\ "shutdown" \notin Calls

\* The manager is not shut down, and there is no backup before there is one.
Lives ==
  /\ ~shutdown_complete /\ api # "shutdown"
  /\ ~running => ~Stored(LatestKey)

\* A sync that returns is not that of shutdown.
LEMMA SyncReturnLives ==
  ASSUME NEW c, c # "shutdown", NEW o, NEW mark, SyncReturn(c, o, mark), ~shutdown_complete
  PROVE  ~shutdown_complete' /\ api' # "shutdown"
  BY DEF SyncReturn, Idle

\* So it is when a snapshot returns.
LEMMA SnapshotReturnLives ==
  ASSUME SnapshotReturn("ok"), Lives
  PROVE  ~shutdown_complete' /\ api' # "shutdown" /\ running' = running
<1>1. CASE UNCHANGED <<shutdown_complete, running>> /\ Idle
  BY <1>1 DEF Idle, Lives
<1>2. CASE running' = running /\ \E o, mark : SyncReturn(api, o, mark)
  BY <1>2, SyncReturnLives DEF Lives
<1> QED
  BY <1>1, <1>2 DEF SnapshotReturn

\* Whatever step: the manager lives on.
LEMMA LivesNext ==
  ASSUME OneManager, StepOK, Lives, [Next]_vars
  PROVE  Lives' /\ (running => running')
<1>1. NoFailures /\ "shutdown" \notin Calls
  BY DEF OneManager, Orderly
<1>2. CASE AppStep \/ UNCHANGED vars
  BY <1>2 DEF AppStep, vars, call, Lives, Stored
<1>3. CASE New \/ CheckpointWal \/ Snapshot
  <2>1. running' /\ UNCHANGED shutdown_complete
    BY <1>3 DEF New, CheckpointWal, Snapshot, StepOK, Call
  <2>2. api' \in {"new", "snapshot", "none", api}
    BY <1>3 DEF New, CheckpointWal, Snapshot, EnterSnapshot, Idle
  <2> QED
    BY <2>1, <2>2 DEF Lives
<1>4. ASSUME NEW c \in {"sync_wal", "checkpoint", "shutdown"}, SyncWal(c)
      PROVE  Lives' /\ (running => running')
  <2>1. c # "shutdown" /\ running /\ running' = running
    BY <1>1, <1>4 DEF SyncWal, Call
  <2>2. ~shutdown_complete' /\ api' # "shutdown"
    <3>1. CASE \E o, mark : SyncReturn(c, o, mark)
      BY <2>1, <3>1, SyncReturnLives DEF Lives
    <3>2. CASE api' = c /\ UNCHANGED shutdown_complete
      BY <2>1, <3>2 DEF Lives
    <3> QED
      BY <1>4, <3>1, <3>2 DEF SyncWal, ReadNewFrames, Recover, EnterSnapshot
  <2> QED
    BY <2>1, <2>2 DEF Lives
<1>5. CASE PutSegment("ok") \/ PutSegmentManifest("ok")
  <2>1. running /\ running' = running
    BY <1>5 DEF PutSegment, PutSegmentManifest, StepOK
  <2>2. CASE PutSegment("ok")
    BY <2>1, <2>2 DEF PutSegment, Lives
  <2>3. CASE PutSegmentManifest("ok")
    BY <2>1, <2>3, SyncReturnLives DEF PutSegmentManifest, Lives
  <2> QED
    BY <1>5, <2>2, <2>3
<1>6. CASE ReadDb("ok") \/ PutSnapshot("ok") \/ PutLatest("ok")
  <2>1. running /\ UNCHANGED <<running, shutdown_complete, api>>
    BY <1>6 DEF ReadDb, PutSnapshot, PutLatest, StepOK
  <2> QED
    BY <2>1 DEF Lives
<1>7. CASE PutSnapshotManifest("ok")
  BY <1>7, SnapshotReturnLives DEF PutSnapshotManifest, StepOK, Lives
<1>8. CASE Compaction \/ Retention
  <2>1. running /\ running' = running /\ UNCHANGED shutdown_complete
    BY <1>8 DEF Compaction, Retention, Compact, CompactGet, CompactPut, CompactManifest,
       CompactDelete, EnforceRetention, RetentionNext, RetentionDelete, Call, StepOK
  <2>2. api' \in {"compact", "enforce_retention", "none", api}
    BY <1>8 DEF Compaction, Retention, Compact, CompactGet, CompactPut, CompactManifest,
       CompactDelete, EnforceRetention, RetentionNext, RetentionDelete, Idle
  <2> QED
    BY <2>1, <2>2 DEF Lives
<1>9. ~Drop /\ ~Crash
  BY DEF Drop, Crash, Lives, OneManager
<1> QED
  BY <1>1, <1>2, <1>3, <1>4, <1>5, <1>6, <1>7, <1>8, <1>9, OnlyOk
     DEF Next, Manager, Sync, TakeSnapshot

\* What is restorable before an upload that changes it is restorable after it.
Covers ==
  /\ running /\ step \in BeforeReset \cup {"put_snapshot_manifest"} => RestoreLatest \subseteq db
  /\ running /\ step = "put_segment_manifest" => RestoreLatest \subseteq Gives

Grows == Covers' /\ RestoreLatest \subseteq RestoreLatest'

\* A step that changes nothing of that.
LEMMA GrowsSame ==
  ASSUME Covers, RestoreLatest' = RestoreLatest, running' => running,
         step' \in BeforeReset \cup {"put_snapshot_manifest"} =>
           db' = db /\ step \in BeforeReset \cup {"put_snapshot_manifest"},
         step' = "put_segment_manifest" => Gives' = Gives /\ step = "put_segment_manifest"
  PROVE  Grows
<1>1. PICK r : r = RestoreLatest
  OBVIOUS
<1>2. PICK v : v = Gives
  OBVIOUS
<1>3. RestoreLatest' = r
  BY <1>1
<1> QED
  BY <1>1, <1>2, <1>3 DEF Covers, Grows

\* The upload after which a restore gives what the segments hold.
LEMMA GrowsOwn ==
  ASSUME Sound', running', step' \in {"idle", "wal_checkpoint"},
         RestoreLatest \subseteq Gives'
  PROVE  Grows
<1>1. RestoreLatest' = Gives'
  BY RestoreGivesNext DEF Sound, Settled
<1> QED
  BY <1>1 DEF Covers, Grows, BeforeReset

\* What a restore gives is committed.
LEMMA RestoreCommitted ==
  ASSUME Sound, CInv
  PROVE  RestoreLatest \subseteq 1..commits
<1>1. CASE Stored(LatestKey)
  <2>1. Restorable(Latest)
    BY <1>1 DEF Sound, RInv, Base, LatestIsRestorable
  <2>2. Consistent(bucket[SnapshotKey(Latest)], Replay(RestoredWal(Latest)))
    BY <1>1, <2>1, SoundIsConsistent DEF RestoreIsConsistent
  <2>3. PICK n \in 0..commits : RestoreLatest = 1..n
    BY <1>1, <2>2 DEF Consistent, RestoreLatest, Restored, Latest
  <2>4. commits \in Nat
    BY DEF Sound, TypeOK, SqliteTypeOK
  <2> QED
    BY <2>3, <2>4
<1>2. CASE ~Stored(LatestKey)
  BY <1>2 DEF RestoreLatest
<1> QED
  BY <1>1, <1>2

\* Whatever step: what is restorable stays so.
LEMMA GrowsNext ==
  ASSUME OneManager, Sound, Sound', CInv, WalFull, OwnBegins, AckedOK, Lives, Lives', Covers,
         [Next]_vars
  PROVE  Grows
<1>1. /\ TypeOK /\ TypeOK' /\ StepOK /\ RInv /\ RInv' /\ SInv /\ SInv' /\ PagesOK /\ PagesOK'
      /\ Orderly /\ NoFailures /\ Undisturbed
  BY DEF Sound, OneManager, Orderly, Steady, Undisturbed
<1>2. CASE AppStep \/ UNCHANGED vars
  <2>1. UNCHANGED <<bucket, generation, manifest, running, step>>
    BY <1>2 DEF AppStep, vars, tracking, call
  <2>2. db' = db
    <3>1. generation' # generation + 1
      BY <1>1, <2>1, KeysAssumption DEF TypeOK, ManagerTypeOK
    <3> QED
      BY <1>1, <3>1, DatabaseKept DEF DbStep
  <2>3. Gives' = Gives
    BY <2>1, <2>2 DEF Gives, Own, Joined, Parts
  <2> QED
    BY <2>1, <2>2, <2>3, RestoreSame, GrowsSame
<1>3. CASE New
  <2>1. RestoreLatest = {} /\ RestoreLatest' = RestoreLatest /\ step' = "read_db"
    BY <1>3, RestoreSame DEF New, EnterSnapshot, Lives, RestoreLatest
  <2> QED
    BY <2>1 DEF Grows, Covers
<1>4. ASSUME NEW c, SyncWal(c) PROVE Grows
  <2>1. running /\ step = "idle" /\ RestoreLatest' = RestoreLatest /\ running' = running
    BY <1>4, RestoreSame DEF SyncWal, Call
  <2>2. ~WalNeedsRecovery
    BY <1>1, <2>1, NoRecovery
  <2>3. step' \in {"idle", "wal_checkpoint", "put_segment"}
    BY <1>1, <1>4, <2>2, OnlyOk, SyncReturnStep DEF SyncWal, ReadNewFrames
  <2> QED
    BY <2>1, <2>3, GrowsSame DEF BeforeReset
<1>5. CASE PutSegment("ok")
  <2>1. running /\ step = "put_segment" /\ step' = "put_segment_manifest" /\ UNCHANGED db
    BY <1>1, <1>5 DEF PutSegment, StepOK, sqliteFiles
  <2>2. RestoreLatest' = RestoreLatest
    BY <1>1, <1>5, PutSegmentGives
  <2>3. RestoreLatest = db \cup Replay(Own)
    BY <1>1, <2>1, RestoreGives DEF Settled, Gives
  <2>4. PICK o \in Seq(Block) : o = Own
    BY <1>1, <2>1, OwnLength
  <2>5. PICK d \in Seq(Block) : d = data
    BY <1>1 DEF TypeOK, CallTypeOK
  <2>6. PICK v \in Seq(Block) : v = o \o d
    BY ConcatProperties
  <2>7. Begins(o, v)
    BY <2>6, ConcatProperties DEF Begins
  <2>8. Replay(o) \subseteq Replay(v)
    BY <2>7, ReplayMore
  <2>9. Own' = v
    BY <1>1, <1>5, <2>4, <2>5, <2>6, PutSegmentS
  <2>10. Gives' = db \cup Replay(v)
    BY <2>1, <2>9 DEF Gives
  <2>11. RestoreLatest' \subseteq Gives'
    BY <2>2, <2>3, <2>4, <2>8, <2>10
  <2> QED
    BY <2>1, <2>2, <2>11 DEF Grows, Covers, BeforeReset
<1>6. CASE PutSegmentManifest("ok")
  <2>1. /\ running /\ running' /\ step = "put_segment_manifest"
        /\ UNCHANGED <<generation, manifest, db>>
        /\ PutObject("ok", ManifestKey(generation), manifest)
    BY <1>1, <1>6 DEF PutSegmentManifest, StepOK, sqliteFiles
  <2>2. step' \in {"idle", "wal_checkpoint"}
    BY <1>6, SyncReturnStep DEF PutSegmentManifest
  <2>3. Current
    BY <1>1, <2>1 DEF RInv, Base, Order
  <2>4. Own' = Own
    BY <1>1, <2>1, <2>3, PutManifestS
  <2>5. Gives' = Gives
    BY <2>1, <2>4 DEF Gives
  <2>6. RestoreLatest \subseteq Gives'
    BY <2>1, <2>5 DEF Covers
  <2> QED
    BY <2>1, <2>2, <2>6, GrowsOwn
<1>7. CASE CheckpointWal
  <2>1. WalCheckpoint(TRUE) /\ step' = "read_db" /\ UNCHANGED bucket
    BY <1>1, <1>7, OnlyOk DEF CheckpointWal, EnterSnapshot
  <2>2. 1..commits \subseteq db'
    BY <1>1, <1>7, <2>1, CheckpointCopies DEF Sound
  <2>3. RestoreLatest' = RestoreLatest /\ RestoreLatest \subseteq db'
    BY <2>1, <2>2, RestoreSame, RestoreCommitted
  <2> QED
    BY <2>1, <2>3 DEF Grows, Covers
<1>8. CASE Snapshot
  BY <1>1, <1>8 DEF Snapshot, Call, Orderly
<1>9. CASE ReadDb("ok")
  BY <1>1, <1>9, RestoreSame, GrowsSame DEF ReadDb, sqliteFiles, StepOK, BeforeReset
<1>10. CASE PutSnapshot("ok")
  <2>1. running /\ step = "put_snapshot" /\ step' = "put_latest" /\ UNCHANGED db
    BY <1>1, <1>10 DEF PutSnapshot, StepOK, sqliteFiles
  <2>2. ~Current
    BY <2>1 DEF AckedOK, BeforeReset
  <2> QED
    BY <1>1, <1>10, <2>1, <2>2, PutSnapshotGives, GrowsSame DEF BeforeReset
<1>11. CASE PutLatest("ok")
  <2>1. running /\ step = "put_latest" /\ step' = "put_snapshot_manifest" /\ UNCHANGED db
    BY <1>1, <1>11 DEF PutLatest, StepOK, sqliteFiles
  <2>2. ~Current
    BY <2>1 DEF AckedOK, BeforeReset
  <2>3. RestoreLatest' = db' /\ RestoreLatest \subseteq db'
    BY <1>1, <1>11, <2>1, <2>2, PutLatestGives DEF CInv, Covers, BeforeReset
  <2> QED
    BY <2>1, <2>3 DEF Grows, Covers
<1>12. CASE PutSnapshotManifest("ok")
  <2>1. running /\ step = "put_snapshot_manifest" /\ UNCHANGED db
    BY <1>1, <1>12 DEF PutSnapshotManifest, StepOK, sqliteFiles
  <2>2. step' \in {"idle", "wal_checkpoint"} /\ running'
    BY <1>12, <2>1, SnapshotReturnStep DEF PutSnapshotManifest
  <2>3. RestoreLatest \subseteq Gives'
    BY <2>1 DEF Covers, Gives
  <2> QED
    BY <2>2, <2>3, GrowsOwn
<1>13. CASE Compaction \/ Retention
  <2>1. /\ running
        /\ step' \notin BeforeReset \cup {"put_snapshot_manifest", "put_segment_manifest"}
    BY <1>1, <1>13 DEF Compaction, Retention, Compact, CompactGet, CompactPut, CompactManifest,
           CompactDelete, EnforceRetention, RetentionNext, RetentionDelete, Call, StepOK,
           BeforeReset, Idle
  <2> QED
    BY <1>1, <1>13, <2>1, CompactionGives, GrowsSame
<1>14. ~Drop /\ ~Crash
  BY DEF Drop, Crash, Lives, OneManager
<1> QED
  BY <1>1, <1>2, <1>3, <1>4, <1>5, <1>6, <1>7, <1>8, <1>9, <1>10, <1>11, <1>12, <1>13, <1>14, OnlyOk
     DEF Next, Manager, Sync, TakeSnapshot

\* A sync that acknowledges acknowledges what its generation gives.
LEMMA AckedStep ==
  ASSUME NoFailures, TypeOK, StepOK, [Next]_vars
  PROVE  \/ acked' = acked
         \/ /\ acked'.gen = generation' /\ running'
            /\ step' \in {"idle", "wal_checkpoint"}
<1>1. CASE AppStep \/ UNCHANGED vars
  BY <1>1 DEF AppStep, vars
<1>2. CASE New \/ Snapshot \/ CheckpointWal
  BY <1>2 DEF New, Snapshot, CheckpointWal
<1>3. ASSUME NEW c, SyncWal(c), ~(UNCHANGED acked)
      PROVE  acked'.gen = generation' /\ running' /\ step' \in {"idle", "wal_checkpoint"}
  <2>1. running' /\ Synced(commits) /\ generation' = generation
    BY <1>3 DEF SyncWal, Call, Recover, ReadNewFrames, tracking
  <2>2. step' \in {"idle", "wal_checkpoint"}
    BY <1>3, SyncReturnStep DEF SyncWal, Recover, ReadNewFrames
  <2> QED
    BY <2>1, <2>2 DEF Synced
<1>4. CASE PutSegment("ok")
  BY <1>4 DEF PutSegment
<1>5. CASE PutSegmentManifest("ok")
  <2>1. running' /\ Synced(seen) /\ generation' = generation
    BY <1>5 DEF PutSegmentManifest, StepOK
  <2>2. step' \in {"idle", "wal_checkpoint"}
    BY <1>5, SyncReturnStep DEF PutSegmentManifest
  <2> QED
    BY <2>1, <2>2 DEF Synced
<1>6. CASE ReadDb("ok") \/ PutSnapshot("ok") \/ PutLatest("ok") \/ PutSnapshotManifest("ok")
  BY <1>6 DEF ReadDb, PutSnapshot, PutLatest, PutSnapshotManifest
<1>7. CASE Compaction \/ Retention
  BY <1>7 DEF Compaction, Retention, Compact, CompactGet, CompactPut, CompactManifest,
       CompactDelete, EnforceRetention, RetentionNext, RetentionDelete
<1>8. CASE Drop \/ Crash
  BY <1>8 DEF Drop, Crash, Gone
<1> QED
  BY <1>1, <1>2, <1>3, <1>4, <1>5, <1>6, <1>7, <1>8, OnlyOk
     DEF Next, Manager, Sync, TakeSnapshot

\* So what is acknowledged stays restorable.
LEMMA NeverLostNext ==
  ASSUME NoFailures, Sound, Sound', AckedOK', Grows, SyncedNeverLost, [Next]_vars
  PROVE  SyncedNeverLost'
<1>1. CASE acked' = acked
  <2>1. PICK r : r = RestoreLatest'
    OBVIOUS
  <2>2. 1..acked.n \subseteq r
    BY <2>1 DEF SyncedNeverLost, Grows
  <2> QED
    BY <1>1, <2>1, <2>2 DEF SyncedNeverLost
<1>2. CASE acked'.gen = generation' /\ running' /\ step' \in {"idle", "wal_checkpoint"}
  <2>1. Stored(LatestKey)' /\ Latest' = generation'
    BY <1>2, RestoreGivesNext DEF Sound, Settled
  <2> QED
    BY <1>2, <2>1 DEF AckedOK, SyncedIsRestorable, SyncedNeverLost
<1> QED
  BY <1>1, <1>2, AckedStep DEF Sound

\* Only the application commits.
LEMMA OnlyAppCommits ==
  ASSUME [Next]_vars
  PROVE  AppStep \/ commits' = commits
<1>1. CASE UNCHANGED sqliteFiles
  BY <1>1 DEF sqliteFiles
<1>2. CASE New \/ Snapshot \/ CheckpointWal
  BY <1>1, <1>2 DEF New, Snapshot, CheckpointWal, WalCheckpoint, sqliteVars
<1>3. ASSUME NEW o, PutSegment(o) \/ PutSegmentManifest(o) \/ ReadDb(o) \/ PutSnapshot(o)
                    \/ PutLatest(o) \/ PutSnapshotManifest(o)
      PROVE  UNCHANGED sqliteFiles
  BY <1>3 DEF PutSegment, PutSegmentManifest, ReadDb, PutSnapshot, PutLatest, PutSnapshotManifest
<1>4. CASE Compaction \/ Retention
  BY <1>1, <1>4 DEF Compaction, Retention, Compact, CompactGet, CompactPut, CompactManifest,
       CompactDelete, EnforceRetention, RetentionNext, RetentionDelete, sqliteVars
<1>5. CASE Drop \/ Crash \/ UNCHANGED vars
  BY <1>1, <1>5 DEF Drop, Crash, SqliteCrash, vars, sqliteVars
<1>6. ASSUME NEW c, SyncWal(c) PROVE UNCHANGED sqliteFiles
  BY <1>6 DEF SyncWal
<1> QED
  BY <1>1, <1>2, <1>3, <1>4, <1>5, <1>6 DEF Next, Manager, Sync, TakeSnapshot

\* A step of the backups is one of the replica.
LEMMA ReplicaStep ==
  ASSUME TypeOK, TypeOK', Undisturbed, LatestIsRestorable', RestoreIsConsistent', Grows, [Next]_vars
  PROVE  [Abstract!Next]_<<commits, RestoreLatest>>
<1>1. CASE AppStep
  <2>1. RestoreLatest' = RestoreLatest
    BY <1>1, RestoreSame DEF AppStep
  <2>2. commits' \in {commits, commits + 1}
    BY DatabaseKept
  <2> QED
    BY <2>1, <2>2 DEF Abstract!Next, Abstract!Commit
<1>2. CASE commits' = commits
  <2>1. \E n \in 0..commits' : RestoreLatest' = 1..n
    <3>1. PICK r : r = RestoreLatest'
      OBVIOUS
    <3>2. CASE LatestKey \in DOMAIN bucket'
      <4>1. PICK s : s = bucket[SnapshotKey(Latest)]'
        OBVIOUS
      <4>2. PICK v : v = Replay(RestoredWal(Latest))'
        OBVIOUS
      <4>3. r = s \cup v
        BY <3>1, <3>2, <4>1, <4>2 DEF RestoreLatest, Restored, Latest, Stored
      <4>4. \E n \in 0..commits' : s \cup v = 1..n
        BY <3>2, <4>1, <4>2 DEF LatestIsRestorable, RestoreIsConsistent, Consistent, Stored
      <4> QED
        BY <3>1, <4>3, <4>4
    <3>3. CASE LatestKey \notin DOMAIN bucket'
      <4>1. RestoreLatest' = {}
        BY <3>3 DEF RestoreLatest, Stored
      <4>2. 1..0 = {} /\ 0 \in 0..commits'
        BY DEF TypeOK, SqliteTypeOK
      <4> QED
        BY <4>1, <4>2
    <3> QED
      BY <3>2, <3>3
  <2>2. PICK n \in 0..commits : RestoreLatest' = 1..n
    BY <1>2, <2>1
  <2>3. RestoreLatest \subseteq 1..n
    BY <2>2 DEF Grows
  <2> QED
    BY <1>2, <2>2, <2>3 DEF Abstract!Next, Abstract!Replicate
<1> QED
  BY <1>1, <1>2, OnlyAppCommits

\* The manager lives on, and what is restorable grows, from the first state on.
LEMMA AlwaysGrows ==
  ASSUME OneManager
  PROVE  Spec => []Sound /\ [](AckedOK /\ SyncedNeverLost) /\ [][Grows]_vars
<1> DEFINE Fixed == Sound /\ CInv /\ WalFull /\ OwnBegins
           Inv == SeenOK /\ AckedOK /\ Lives /\ Covers /\ SyncedNeverLost
<1>1. Orderly /\ NoFailures /\ Steady
  BY DEF OneManager, Orderly
<1>2. Init => Inv
  <2> SUFFICES ASSUME Init PROVE Inv
    OBVIOUS
  <2>1. /\ SeenOK /\ ~Stored(LatestKey) /\ running = FALSE /\ generation = 0
        /\ acked.gen = 0 /\ acked.n = 0 /\ Lives
    BY DEF Init, SeenOK, Stored, Lives
  <2>2. 1..0 = {}
    OBVIOUS
  <2> QED
    BY <2>1, <2>2 DEF AckedOK, SyncedIsRestorable, Covers, SyncedNeverLost
<1>3. Fixed /\ Fixed' /\ Inv /\ [Next]_vars => Inv' /\ Grows
  <2> SUFFICES ASSUME Fixed, Fixed', Inv, [Next]_vars PROVE Inv' /\ Grows
    OBVIOUS
  <2>1. SeenOK' /\ AckedOK'
    BY <1>1, SeenNext, AckedNext DEF CInv
  <2>2. Lives'
    BY LivesNext DEF Sound
  <2>3. Grows
    BY <2>2, GrowsNext
  <2>4. SyncedNeverLost'
    BY <1>1, <2>1, <2>3, NeverLostNext
  <2> QED
    BY <2>1, <2>2, <2>3, <2>4 DEF Grows
<1>4. Spec => []Fixed
  BY <1>1, AlwaysBegins
<1> QED
  BY <1>2, <1>3, <1>4, PTL DEF Spec

\* What sync_wal acknowledged is restorable from then on, whatever generation is
\* the latest (README.md:186): if one manager goes on, no upload fails, nobody but
\* the manager checkpoints, and no snapshot is taken by hand.
THEOREM AcknowledgedIsNeverLost ==
  ASSUME OneManager
  PROVE  Spec => []SyncedNeverLost
BY AlwaysGrows, PTL

\* Under the same conditions the backups implement Replica: a restore gives the
\* database after some transaction, and that transaction only moves forward.
THEOREM BackupsAreReplica ==
  ASSUME OneManager
  PROVE  Spec => ImplementsReplica
<1>1. NoFailures /\ Undisturbed
  BY DEF OneManager, Orderly, Steady, Undisturbed
<1>2. Init => Abstract!Init
  BY DEF Init, SqliteInit, Abstract!Init, RestoreLatest, Stored
<1>3. /\ TypeOK /\ TypeOK' /\ LatestIsRestorable' /\ RestoreIsConsistent'
      /\ (UNCHANGED vars \/ Grows) /\ [Next]_vars
      => [Abstract!Next]_<<commits, RestoreLatest>>
  <2>1. UNCHANGED vars => UNCHANGED <<commits, RestoreLatest>>
    BY RestoreSame DEF vars, sqliteVars, sqliteFiles
  <2> QED
    BY <1>1, <2>1, ReplicaStep
<1>4. Spec => [](TypeOK /\ LatestIsRestorable /\ RestoreIsConsistent)
  <2>1. Sound => TypeOK /\ LatestIsRestorable
    BY DEF Sound, RInv, Base
  <2> QED
    BY <1>1, <2>1, AlwaysGrows, ConsistentWithCompaction, PTL
<1>5. Spec => [][Grows]_vars
  BY AlwaysGrows, PTL
<1> QED
  BY <1>2, <1>3, <1>4, <1>5, PTL DEF Spec, ImplementsReplica, Abstract!Spec
================================================================================
