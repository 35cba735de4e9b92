------------------------------ MODULE SqliteWal ------------------------------
(***************************************************************************)
(* The SQLite database in WAL mode as src/src/manager.rs uses it.  SQLite  *)
(* is not part of the repository: this module is the external component    *)
(* whose file, read marks and checkpoints the backup manager observes.     *)
(*                                                                         *)
(* The WAL file is a sequence of blocks: block 1 is the 32-byte header,    *)
(* every later block a frame.  A block is known by the number of the write *)
(* that produced it, `id`; `prev` is the id of the block it was written    *)
(* after.  The pair stands for the salts and the cumulative checksum of    *)
(* the file format: SQLite accepts a frame only if it continues the block  *)
(* before it.  The id of the header stands for the salt of the WAL.        *)
(*                                                                         *)
(* The data of a frame is abstracted to the transaction `tx` that wrote    *)
(* it, numbered in commit order, and the flag `commit` of a commit frame;  *)
(* the pages of distinct transactions are distinct.  In a header, `tx` is  *)
(* the number of transactions committed when the header was written.       *)
(***************************************************************************)
EXTENDS Integers, Sequences

CONSTANTS
  Env,          \* what the environment may do: "multi_frame", "reader", ...
  MaxCommits,   \* bound: transactions committed
  MaxBlocks     \* bound: blocks ever written to the WAL file

ASSUME BoundsAssumption == MaxCommits \in Nat /\ MaxBlocks \in Nat

VARIABLES
  wal,          \* the blocks of the -wal file, the stale ones past the end too
  mxFrame,      \* blocks of the file that are committed (wal-index)
  spilled,      \* blocks of an open write transaction after those
  nBackfill,    \* blocks a checkpoint has copied to the database file
  db,           \* the transactions whose pages the database file holds
  commits,      \* number of transactions committed so far
  lastId,       \* id of the last block written
  readMark      \* per reading connection: NoRead, 0 (database only) or a block

sqliteFiles == <<wal, mxFrame, spilled, nBackfill, db, commits, lastId>>
sqliteVars == <<sqliteFiles, readMark>>

Block == [id : Nat, prev : Nat, tx : Nat, commit : BOOLEAN]

NoRead == -1

\* "waloy" is BackupManager.read_conn, "reader" a reader of the application.
Connections == {"waloy", "reader"}

SqliteTypeOK ==
  /\ wal \in Seq(Block)
  /\ mxFrame \in Nat /\ spilled \in Nat /\ nBackfill \in Nat
  /\ mxFrame + spilled <= Len(wal)
  /\ nBackfill <= mxFrame
  /\ db \subseteq Nat
  /\ commits \in Nat /\ lastId \in Nat
  /\ readMark \in [Connections -> {NoRead} \cup Nat]

SqliteInit ==
  /\ wal = <<>> /\ mxFrame = 0 /\ spilled = 0 /\ nBackfill = 0
  /\ db = {} /\ commits = 0 /\ lastId = 0
  /\ readMark = [c \in Connections |-> NoRead]

-----------------------------------------------------------------------------
(* Writers.  The frames of a transaction are written one after the other    *)
(* when it commits, or before when the page cache spills; a transaction     *)
(* that has written frames may still roll back, and that does not shorten   *)
(* the file.                                                                *)

\* A frame of the next transaction, after `prefix`, over what the file holds.
WriteFrame(prefix, kept, backfilled, id, isCommit) ==
  LET frame == [id |-> id, prev |-> prefix[Len(prefix)].id,
                tx |-> commits + 1, commit |-> isCommit]
      written == Append(prefix, frame)
  IN /\ commits < MaxCommits
     /\ id <= MaxBlocks
     /\ isCommit \/ ("multi_frame" \in Env /\ id < MaxBlocks)
     /\ wal' = written \o SubSeq(wal, Len(written) + 1, Len(wal))
     /\ mxFrame' = IF isCommit THEN Len(written) ELSE kept
     /\ spilled' = IF isCommit THEN 0 ELSE Len(written) - kept
     /\ nBackfill' = backfilled
     /\ commits' = IF isCommit THEN commits + 1 ELSE commits
     /\ lastId' = id
     /\ UNCHANGED <<db, readMark>>

\* The usual case: append after the committed and the spilled blocks.
AppAppend(isCommit) ==
  LET used == mxFrame + spilled
  IN /\ used > 0
     /\ WriteFrame(SubSeq(wal, 1, used), mxFrame, nBackfill, lastId + 1, isCommit)

\* The first write of a transaction restarts the WAL from its beginning, with
\* new salts, when all of it is backfilled and no reader uses a frame of it.
\* A reader on mark 0 reads the database file only and does not prevent this.
Restartable ==
  /\ mxFrame > 0 /\ spilled = 0 /\ nBackfill = mxFrame
  /\ \A c \in Connections : readMark[c] <= 0

AppRestartWal(isCommit) ==
  /\ mxFrame + spilled = 0 \/ Restartable
  /\ WriteFrame(<<[id |-> lastId + 1, prev |-> 0, tx |-> commits, commit |-> TRUE]>>,
                0, 0, lastId + 2, isCommit)

\* After a rollback that left no committed frame, a connection that has
\* restarted the WAL before writes the same header, salts included, again.
AppRewriteHeader(isCommit) ==
  /\ mxFrame + spilled = 0 /\ wal # <<>>
  /\ WriteFrame(<<wal[1]>>, 0, 0, lastId + 1, isCommit)

AppRollback ==
  /\ "rollback" \in Env
  /\ spilled > 0
  /\ spilled' = 0
  /\ UNCHANGED <<wal, mxFrame, nBackfill, db, commits, lastId, readMark>>

-----------------------------------------------------------------------------
(* Readers and checkpoints. *)

\* The mark a read transaction that starts now gets.
NewMark == IF nBackfill = mxFrame THEN 0 ELSE mxFrame

AppReadBegin ==
  /\ "reader" \in Env
  /\ readMark["reader"] = NoRead
  /\ readMark' = [readMark EXCEPT !["reader"] = NewMark]
  /\ UNCHANGED <<wal, mxFrame, spilled, nBackfill, db, commits, lastId>>

AppReadEnd ==
  /\ readMark["reader"] # NoRead
  /\ readMark' = [readMark EXCEPT !["reader"] = NoRead]
  /\ UNCHANGED <<wal, mxFrame, spilled, nBackfill, db, commits, lastId>>

UpTo(mark, n) == IF mark > 0 /\ mark < n THEN mark ELSE n

\* The blocks a checkpoint may have copied when it is done: none past a read
\* mark, and none at all while a reader relies on the database file alone.
Backfillable ==
  LET safe == UpTo(readMark["waloy"], UpTo(readMark["reader"], mxFrame))
  IN IF (\E c \in Connections : readMark[c] = 0) \/ safe < nBackfill
     THEN nBackfill ELSE safe

\* wal_checkpoint copies what it can; TRUNCATE also empties the file if all
\* of it was copied and no writer and no reader uses it.  When it cannot, the
\* pragma reports busy in its result row and is no error.
WalCheckpoint(truncate) ==
  LET done == Backfillable
      reset == /\ truncate /\ spilled = 0 /\ done = mxFrame
               /\ \A c \in Connections : readMark[c] <= 0
  IN /\ db' = db \cup {wal[i].tx : i \in 2..done}
     /\ wal' = IF reset THEN <<>> ELSE wal
     /\ mxFrame' = IF reset THEN 0 ELSE mxFrame
     /\ nBackfill' = IF reset THEN 0 ELSE done
     /\ UNCHANGED <<spilled, commits, lastId>>

\* A checkpoint the application runs against the README's advice.
AppCheckpoint(truncate) ==
  /\ "ext_checkpoint" \in Env
  /\ WalCheckpoint(truncate)
  /\ UNCHANGED readMark

\* Every process that has the database open is gone: locks and open
\* transactions with it.  The next open rebuilds the wal-index from the file.
SqliteCrash ==
  /\ spilled' = 0
  /\ nBackfill' = 0
  /\ readMark' = [c \in Connections |-> NoRead]
  /\ UNCHANGED <<wal, mxFrame, db, commits, lastId>>

\* What the application and the other processes do to the database.
App ==
  \/ \E c \in BOOLEAN : AppAppend(c) \/ AppRestartWal(c) \/ AppRewriteHeader(c)
  \/ AppRollback
  \/ AppReadBegin
  \/ AppReadEnd
  \/ \E t \in BOOLEAN : AppCheckpoint(t)
=============================================================================
