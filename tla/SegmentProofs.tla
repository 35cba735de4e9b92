----------------------------- MODULE SegmentProofs -----------------------------
(***************************************************************************)
(* What the segments of a generation hold together: the WAL from its first *)
(* block on, once, in its order, whatever compaction makes of them and     *)
(* retention deletes, as long as no upload fails (NoFailures).             *)
(***************************************************************************)
EXTENDS RestoreProperties, BackupManagerProofs, FlattenProofs

\* What the segments that m lists hold in bucket b, one by one and together.
Parts(b, g, m) == [n \in DOMAIN m |-> b[WalKey(g, m[n].index)]]
Joined(b, g, m) == FlattenSeq(Parts(b, g, m))

\* Where a list of segments ends.
End(m) == IF m = <<>> THEN 0 ELSE m[Len(m)].offset + m[Len(m)].size

\* A list of segments of generation g is true of bucket b.
Describes(m, b, g) ==
  /\ Contiguous(m)
  /\ \A n \in DOMAIN m : /\ WalKey(g, m[n].index) \in DOMAIN b
                         /\ Len(b[WalKey(g, m[n].index)]) = m[n].size

\* The blocks w begin with the header whose salt is s, that of the file f if
\* it has this salt.
Headed(w, s, f) ==
  w # <<>> => /\ s # NoSalt /\ w[1].id = s
              /\ f # <<>> /\ f[1].id = s => f[1] = w[1]

SegmentsTyped(b) == \A k \in DOMAIN b : k[1] = "wal" => b[k] \in Seq(Block)

-----------------------------------------------------------------------------
(* Lists of segments. *)

\* The segments of a typed bucket are blocks.
LEMMA BucketSegments ==
  ASSUME BucketTypeOK
  PROVE  SegmentsTyped(bucket)
  BY DEF BucketTypeOK, ObjectTypeOK, SegmentsTyped

\* One sequence of blocks for each entry of a list.
LEMMA PartsType ==
  ASSUME NEW b, SegmentsTyped(b), NEW g, NEW m \in Seq(SegmentMeta), Describes(m, b, g)
  PROVE  /\ Parts(b, g, m) \in Seq(Seq(Block)) /\ Len(Parts(b, g, m)) = Len(m)
         /\ \A n \in 1..Len(m) : Parts(b, g, m)[n] = b[WalKey(g, m[n].index)]
<1>1. \A n \in 1..Len(m) : b[WalKey(g, m[n].index)] \in Seq(Block)
  BY DEF Describes, SegmentsTyped, WalKey
<1>2. DOMAIN m = 1..Len(m) /\ Len(m) \in Nat
  OBVIOUS
<1>3. Parts(b, g, m) = [n \in 1..Len(m) |-> b[WalKey(g, m[n].index)]]
  BY <1>2 DEF Parts
<1> DEFINE parts == [n \in 1..Len(m) |-> b[WalKey(g, m[n].index)]]
<1>4. parts \in Seq(Seq(Block)) /\ Len(parts) = Len(m)
  BY <1>1, <1>2, IsASeq
<1> QED
  BY <1>3, <1>4

\* Together they are blocks.
LEMMA JoinedType ==
  ASSUME NEW b, SegmentsTyped(b), NEW g, NEW m \in Seq(SegmentMeta), Describes(m, b, g)
  PROVE  Joined(b, g, m) \in Seq(Block)
  BY PartsType, FlattenType DEF Joined

\* An empty list is true of every bucket.
LEMMA JoinedNothing ==
  ASSUME NEW b, NEW g
  PROVE  Joined(b, g, <<>>) = <<>> /\ Describes(<<>>, b, g)
<1>1. Parts(b, g, <<>>) = <<>>
  BY DEF Parts
<1>2. DOMAIN <<>> = {}
  OBVIOUS
<1> QED
  BY <1>1, <1>2, FlattenEmpty DEF Joined, Describes, Contiguous

\* It only matters what the bucket holds under the keys of the list.
LEMMA JoinedSame ==
  ASSUME NEW b, NEW c, NEW g, NEW m,
         \A n \in DOMAIN m : /\ WalKey(g, m[n].index) \in DOMAIN b =>
                                  WalKey(g, m[n].index) \in DOMAIN c
                             /\ c[WalKey(g, m[n].index)] = b[WalKey(g, m[n].index)]
  PROVE  Joined(c, g, m) = Joined(b, g, m) /\ (Describes(m, b, g) => Describes(m, c, g))
<1>1. Parts(c, g, m) = Parts(b, g, m)
  BY DEF Parts
<1> QED
  BY <1>1 DEF Joined, Describes

\* A list that is one segment longer, and what it names together.
LEMMA DescribesAppend ==
  ASSUME NEW b, SegmentsTyped(b), NEW g, NEW m \in Seq(SegmentMeta), Describes(m, b, g),
         NEW s \in SegmentMeta, s.offset = End(m),
         WalKey(g, s.index) \in DOMAIN b, Len(b[WalKey(g, s.index)]) = s.size
  PROVE  /\ Append(m, s) \in Seq(SegmentMeta)
         /\ Describes(Append(m, s), b, g) /\ End(Append(m, s)) = End(m) + s.size
         /\ Joined(b, g, Append(m, s)) = Joined(b, g, m) \o b[WalKey(g, s.index)]
<1> DEFINE more == Append(m, s)
<1>1. /\ more \in Seq(SegmentMeta) /\ more # <<>> /\ Len(more) = Len(m) + 1 /\ Len(m) \in Nat
      /\ more[Len(m) + 1] = s /\ (\A n \in 1..Len(m) : more[n] = m[n])
      /\ DOMAIN more = 1..(Len(m) + 1) /\ DOMAIN m = 1..Len(m)
  BY AppendProperties
<1> HIDE DEF more
<1>2. \A n \in DOMAIN more : n \in DOMAIN m \/ n = Len(m) + 1
  BY <1>1
<1>3. Contiguous(more)
  <2>1. ASSUME NEW n \in DOMAIN m
        PROVE  more[n].offset = IF n = 1 THEN 0 ELSE more[n - 1].offset + more[n - 1].size
    <3>1. n # 1 => n - 1 \in 1..Len(m)
      BY <1>1
    <3>2. more[n] = m[n] /\ (n # 1 => more[n - 1] = m[n - 1])
      BY <1>1, <3>1
    <3>3. m[n].offset = IF n = 1 THEN 0 ELSE m[n - 1].offset + m[n - 1].size
      BY DEF Describes, Contiguous
    <3> QED
      BY <3>2, <3>3
  <2>2. CASE m = <<>>
    <3>1. Len(m) = 0
      BY <2>2
    <3> QED
      BY <1>1, <1>2, <2>1, <2>2, <3>1 DEF Contiguous, End
  <2>3. CASE m # <<>>
    <3>1. Len(m) \in 1..Len(m) /\ Len(m) + 1 # 1 /\ (Len(m) + 1) - 1 = Len(m)
      BY <2>3
    <3>2. more[Len(m)] = m[Len(m)] /\ s.offset = m[Len(m)].offset + m[Len(m)].size
      BY <1>1, <2>3, <3>1 DEF End
    <3> QED
      BY <1>1, <1>2, <2>1, <3>1, <3>2 DEF Contiguous
  <2> QED
    BY <2>2, <2>3
<1>4. Describes(more, b, g)
  BY <1>1, <1>2, <1>3 DEF Describes
<1>5. End(more) = End(m) + s.size
  BY <1>1 DEF End
<1>6. Parts(b, g, more) = Append(Parts(b, g, m), b[WalKey(g, s.index)])
  <2>1. /\ Parts(b, g, more) \in Seq(Seq(Block)) /\ Len(Parts(b, g, more)) = Len(m) + 1
        /\ \A n \in 1..(Len(m) + 1) : Parts(b, g, more)[n] = b[WalKey(g, more[n].index)]
    BY <1>1, <1>4, PartsType
  <2>2. /\ Parts(b, g, m) \in Seq(Seq(Block)) /\ Len(Parts(b, g, m)) = Len(m)
        /\ \A n \in 1..Len(m) : Parts(b, g, m)[n] = b[WalKey(g, m[n].index)]
    BY PartsType
  <2>3. b[WalKey(g, s.index)] \in Seq(Block)
    BY DEF SegmentsTyped, WalKey
  <2> DEFINE p == Parts(b, g, m)
             x == b[WalKey(g, s.index)]
             q == Parts(b, g, more)
  <2> HIDE DEF p, x, q
  <2>4. p \in Seq(Seq(Block)) /\ x \in Seq(Block) /\ q \in Seq(Seq(Block))
    BY <2>1, <2>2, <2>3 DEF p, x, q
  <2>5. /\ Append(p, x) \in Seq(Seq(Block)) /\ Len(Append(p, x)) = Len(p) + 1
        /\ Append(p, x)[Len(p) + 1] = x /\ \A n \in 1..Len(p) : Append(p, x)[n] = p[n]
    BY <2>4, AppendProperties
  <2>6. Len(p) = Len(m) /\ Len(q) = Len(m) + 1
    BY <2>1, <2>2 DEF p, q
  <2>7. \A n \in 1..Len(m) : q[n] = p[n]
    BY <1>1, <2>1, <2>2 DEF p, q
  <2>8. q[Len(m) + 1] = x
    BY <1>1, <2>1 DEF q, x
  <2>9. \A n \in 1..Len(q) : q[n] = Append(p, x)[n]
    BY <1>1, <2>5, <2>6, <2>7, <2>8
  <2>10. q = Append(p, x)
    BY <2>4, <2>5, <2>6, <2>9, SeqEqual
  <2> QED
    BY <2>10 DEF p, x, q
<1>7. Joined(b, g, more) = Joined(b, g, m) \o b[WalKey(g, s.index)]
  <2>1. b[WalKey(g, s.index)] \in Seq(Block)
    BY DEF SegmentsTyped, WalKey
  <2>2. Parts(b, g, m) \in Seq(Seq(Block))
    BY PartsType
  <2> QED
    BY <1>6, <2>1, <2>2, FlattenAppend DEF Joined
<1> QED
  BY <1>1, <1>4, <1>5, <1>7 DEF more

\* The first n segments of a list.
LEMMA FirstSegments ==
  ASSUME NEW b, NEW g, NEW m \in Seq(SegmentMeta), Describes(m, b, g), NEW n \in 0..Len(m)
  PROVE  /\ SubSeq(m, 1, n) \in Seq(SegmentMeta) /\ Describes(SubSeq(m, 1, n), b, g)
         /\ n < Len(m) => /\ SubSeq(m, 1, n + 1) = Append(SubSeq(m, 1, n), m[n + 1])
                          /\ m[n + 1].offset = End(SubSeq(m, 1, n))
<1> DEFINE p == SubSeq(m, 1, n)
<1>1. /\ p \in Seq(SegmentMeta) /\ Len(p) = n /\ (\A i \in 1..n : p[i] = m[i])
      /\ DOMAIN p = 1..n /\ DOMAIN m = 1..Len(m)
  OBVIOUS
<1>2. n < Len(m) => SubSeq(m, 1, n + 1) = Append(p, m[n + 1])
  OBVIOUS
<1> HIDE DEF p
<1>3. Contiguous(p)
  <2> SUFFICES ASSUME NEW i \in 1..n
               PROVE  p[i].offset = IF i = 1 THEN 0 ELSE p[i - 1].offset + p[i - 1].size
    BY <1>1 DEF Contiguous
  <2>3. i \in DOMAIN m
    BY <1>1
  <2>1. m[i].offset = IF i = 1 THEN 0 ELSE m[i - 1].offset + m[i - 1].size
    BY <2>3 DEF Describes, Contiguous
  <2>2. i # 1 => i - 1 \in 1..n
    OBVIOUS
  <2> QED
    BY <1>1, <2>1, <2>2
<1>4. Describes(p, b, g)
  BY <1>1, <1>3 DEF Describes
<1>5. n < Len(m) => m[n + 1].offset = End(p)
  <2> SUFFICES ASSUME n < Len(m) PROVE m[n + 1].offset = End(p)
    OBVIOUS
  <2>1. n + 1 \in DOMAIN m /\ (n + 1) - 1 = n
    BY <1>1
  <2>2. m[n + 1].offset = IF n + 1 = 1 THEN 0 ELSE m[n].offset + m[n].size
    BY <2>1 DEF Describes, Contiguous
  <2>3. (n + 1 = 1) <=> (p = <<>>)
    BY <1>1
  <2>4. n # 0 => p[n] = m[n]
    BY <1>1
  <2> QED
    BY <1>1, <2>2, <2>3, <2>4 DEF End
<1> QED
  BY <1>1, <1>2, <1>4, <1>5 DEF p

\* What the segments of a list hold together is as long as the list says.
LEMMA JoinedLength ==
  ASSUME NEW b, SegmentsTyped(b), NEW g, NEW m \in Seq(SegmentMeta), Describes(m, b, g)
  PROVE  Len(Joined(b, g, m)) = End(m)
<1> DEFINE Right(n) == Len(Joined(b, g, SubSeq(m, 1, n))) = End(SubSeq(m, 1, n))
           T == {n \in Nat : n <= Len(m) => Right(n)}
<1>1. Right(0)
  <2>1. SubSeq(m, 1, 0) = <<>>
    OBVIOUS
  <2>2. Joined(b, g, <<>>) = <<>> /\ End(<<>>) = 0 /\ Len(<<>>) = 0
    BY JoinedNothing DEF End
  <2>3. Len(Joined(b, g, <<>>)) = End(<<>>)
    BY <2>2
  <2> QED
    BY <2>1, <2>3
<1>2. ASSUME NEW n \in Nat, Right(n), n + 1 <= Len(m) PROVE Right(n + 1)
  <2> DEFINE p == SubSeq(m, 1, n)
             s == m[n + 1]
  <2>1. n \in 0..Len(m) /\ n < Len(m) /\ n + 1 \in DOMAIN m
    BY <1>2
  <2>2. /\ p \in Seq(SegmentMeta) /\ Describes(p, b, g)
        /\ SubSeq(m, 1, n + 1) = Append(p, s) /\ s.offset = End(p)
    BY <2>1, FirstSegments
  <2>3. s \in SegmentMeta
    BY <2>1
  <2>4. WalKey(g, s.index) \in DOMAIN b /\ Len(b[WalKey(g, s.index)]) = s.size
    BY <2>1 DEF Describes
  <2>5. b[WalKey(g, s.index)] \in Seq(Block)
    BY <2>4 DEF SegmentsTyped, WalKey
  <2>6. Len(Joined(b, g, p)) = End(p)
    BY <1>2
  <2> HIDE DEF p, s
  <2>7. /\ End(Append(p, s)) = End(p) + s.size
        /\ Joined(b, g, Append(p, s)) = Joined(b, g, p) \o b[WalKey(g, s.index)]
    BY <2>2, <2>3, <2>4, DescribesAppend
  <2>8. Joined(b, g, p) \in Seq(Block)
    BY <2>2, JoinedType
  <2>9. Len(Joined(b, g, Append(p, s))) = End(Append(p, s))
    <3>1. ASSUME NEW j \in Seq(Block), NEW x \in Seq(Block) PROVE Len(j \o x) = Len(j) + Len(x)
      OBVIOUS
    <3> QED
      BY <2>4, <2>5, <2>6, <2>7, <2>8, <3>1
  <2> QED
    BY <2>2, <2>9
<1> HIDE DEF Right
<1>3. ASSUME NEW n \in Nat, n \in T PROVE n + 1 \in T
  BY <1>2, <1>3
<1>4. 0 \in T
  BY <1>1
<1> HIDE DEF T
<1>5. Len(m) \in T /\ Len(m) \in Nat
  BY <1>3, <1>4, Induction
<1>6. Right(Len(m))
  BY <1>5 DEF T
<1>7. SubSeq(m, 1, Len(m)) = m
  OBVIOUS
<1> QED
  BY <1>6, <1>7 DEF Right
-----------------------------------------------------------------------------
(* The invariant. *)

\* The blocks are numbered, and the salt in memory is the number of a header.
Ids == (wal # <<>> => wal[1].id \in 1..lastId) /\ salt \in 0..lastId

\* Every generation that has a manifest has its snapshot and what it lists.
AllDescribed ==
  \A g \in Generations : Stored(ManifestKey(g)) =>
    Stored(SnapshotKey(g)) /\ Describes(bucket[ManifestKey(g)], bucket, g)

\* What the segments of the manager hold.
Own == Joined(bucket, generation, manifest)

Published == Stored(ManifestKey(generation)) /\ bucket[ManifestKey(generation)] = manifest

BeforeReset == {"read_db", "put_snapshot", "put_latest"}
Settled == {"idle", "put_segment", "wal_checkpoint", "compact_get", "compact_put",
            "compact_delete", "retention_next", "retention_delete"}

\* Segments of the manifest that compact has downloaded.
Fetched == Len(keys) - Len(todo)

\* compact neither loses nor repeats a block.
CompactOK ==
  /\ step = "compact_get" =>
       /\ keys = [n \in DOMAIN manifest |-> WalKey(generation, manifest[n].index)]
       /\ Fetched \in 0..(Len(keys) - 1)
       /\ todo = SubSeq(keys, Fetched + 1, Len(keys))
       /\ data = Joined(bucket, generation, SubSeq(manifest, 1, Fetched))
  /\ step = "compact_put" =>
       /\ data = Own
       /\ Describes(newSegments, bucket, generation)
       /\ CompactOffset \in 0..Len(data)
       /\ Joined(bucket, generation, newSegments) = SubSeq(data, 1, CompactOffset)
  /\ step = "compact_manifest" =>
       /\ Stored(ManifestKey(generation))
       /\ Joined(bucket, generation, bucket[ManifestKey(generation)]) = Own

\* delete_generation deletes one generation, its manifest first.
DoomedOK ==
  step = "retention_delete" =>
    \E g \in Generations : /\ \A k \in doomed : k[2] = g
                           /\ Stored(ManifestKey(g)) => ManifestKey(g) \in doomed

ManagerOK ==
  /\ Describes(manifest, bucket, generation)
  /\ step \notin BeforeReset => Headed(Own, salt, wal)
  /\ step \in Settled => Published
  /\ step \notin BeforeReset \cup {"put_segment_manifest"} => wal_offset = End(manifest)
  /\ step = "put_segment" /\ wal_offset = 0 => Headed(data, salt, wal)
  /\ step = "put_segment_manifest" => wal_offset + Len(data) = End(manifest)
  /\ step = "put_snapshot_manifest" => manifest = <<>>
  /\ CompactOK /\ DoomedOK

SInv == Ids /\ AllDescribed /\ (running => ManagerOK)

-----------------------------------------------------------------------------
(* Steps that upload nothing. *)

\* The header of the file stays, or another has a new number.
LEMMA WriteFrameHeader ==
  ASSUME SqliteTypeOK, NEW prefix \in Seq(Block), prefix # <<>>, NEW kept, NEW backfilled,
         NEW id, NEW c, WriteFrame(prefix, kept, backfilled, id, c)
  PROVE  wal' # <<>> /\ wal'[1] = prefix[1] /\ lastId' = id
<1> DEFINE frame == [id |-> id, prev |-> prefix[Len(prefix)].id,
                     tx |-> commits + 1, commit |-> c]
           written == Append(prefix, frame)
           rest == SubSeq(wal, Len(written) + 1, Len(wal))
<1>1. wal' = written \o rest /\ lastId' = id
  BY DEF WriteFrame
<1> HIDE DEF frame
<1>2. /\ \A i \in 1..Len(written) : (written \o rest)[i] = written[i]
      /\ Len(written \o rest) = Len(written) + Len(rest)
      /\ Len(written) = Len(prefix) + 1 /\ written[1] = prefix[1] /\ Len(prefix) \in Nat
      /\ Len(rest) \in Nat
  BY DEF SqliteTypeOK
<1> HIDE DEF written, rest
<1> QED
  BY <1>1, <1>2

\* A checkpoint leaves the header, or empties the file.
LEMMA CheckpointHeader ==
  ASSUME NEW t, WalCheckpoint(t)
  PROVE  lastId' = lastId /\ (wal' = <<>> \/ wal' = wal)
  BY DEF WalCheckpoint

\* An application keeps the header, or writes one with a number that is new.
LEMMA AppHeader ==
  ASSUME SqliteTypeOK, Ids, App
  PROVE  /\ lastId' \in Nat /\ lastId' >= lastId
         /\ wal' # <<>> => \/ wal # <<>> /\ wal'[1] = wal[1]
                           \/ wal'[1].id = lastId + 1 /\ lastId' >= lastId + 1
<1>1. ASSUME NEW c \in BOOLEAN, AppAppend(c)
      PROVE  wal # <<>> /\ wal'[1] = wal[1] /\ lastId' = lastId + 1
  <2> DEFINE used == mxFrame + spilled
             prefix == SubSeq(wal, 1, used)
  <2>1. used \in Nat /\ used > 0 /\ used <= Len(wal) /\ wal \in Seq(Block)
    BY <1>1 DEF AppAppend, SqliteTypeOK
  <2>2. prefix \in Seq(Block) /\ prefix # <<>> /\ prefix[1] = wal[1] /\ wal # <<>>
    BY <2>1
  <2>3. WriteFrame(prefix, mxFrame, nBackfill, lastId + 1, c)
    BY <1>1 DEF AppAppend
  <2> HIDE DEF prefix
  <2> QED
    BY <2>2, <2>3, WriteFrameHeader
<1>2. ASSUME NEW c \in BOOLEAN, AppRestartWal(c)
      PROVE  wal'[1].id = lastId + 1 /\ lastId' = lastId + 2
  <2> DEFINE header == [id |-> lastId + 1, prev |-> 0, tx |-> commits, commit |-> TRUE]
             prefix == <<header>>
  <2>1. header \in Block
    BY DEF Block, SqliteTypeOK
  <2>2. WriteFrame(prefix, 0, 0, lastId + 2, c)
    BY <1>2 DEF AppRestartWal
  <2>3. prefix \in Seq(Block) /\ prefix # <<>> /\ prefix[1] = header
    BY <2>1
  <2>4. header.id = lastId + 1
    OBVIOUS
  <2> HIDE DEF header, prefix
  <2>5. wal'[1] = prefix[1] /\ lastId' = lastId + 2
    BY <2>2, <2>3, WriteFrameHeader
  <2> QED
    BY <2>3, <2>4, <2>5
<1>3. ASSUME NEW c \in BOOLEAN, AppRewriteHeader(c)
      PROVE  wal # <<>> /\ wal'[1] = wal[1] /\ lastId' = lastId + 1
  <2>1. wal # <<>> /\ wal \in Seq(Block)
    BY <1>3 DEF AppRewriteHeader, SqliteTypeOK
  <2> DEFINE prefix == <<wal[1]>>
  <2>2. prefix \in Seq(Block) /\ prefix # <<>> /\ prefix[1] = wal[1]
    BY <2>1
  <2>3. WriteFrame(prefix, 0, 0, lastId + 1, c)
    BY <1>3 DEF AppRewriteHeader
  <2> HIDE DEF prefix
  <2>4. wal'[1] = prefix[1] /\ lastId' = lastId + 1
    BY <2>2, <2>3, WriteFrameHeader
  <2> QED
    BY <2>1, <2>2, <2>4
<1>4. ASSUME NEW t \in BOOLEAN, AppCheckpoint(t) PROVE lastId' = lastId /\ (wal' = <<>> \/ wal' = wal)
  BY <1>4, CheckpointHeader DEF AppCheckpoint
<1>5. CASE AppRollback \/ AppReadBegin \/ AppReadEnd
  BY <1>5 DEF AppRollback, AppReadBegin, AppReadEnd, SqliteTypeOK
<1>6. lastId \in Nat
  BY DEF SqliteTypeOK
<1> QED
  BY <1>1, <1>2, <1>3, <1>4, <1>5, <1>6 DEF App

\* What an application writes does not concern what is uploaded.
LEMMA AppStepS ==
  ASSUME TypeOK, SInv, AppStep
  PROVE  SInv'
<1>1. App /\ UNCHANGED <<bucket, running, tracking, shutdown_complete, call, acked>>
  BY DEF AppStep
<1>2. /\ lastId' \in Nat /\ lastId' >= lastId
      /\ wal' # <<>> => \/ wal # <<>> /\ wal'[1] = wal[1]
                        \/ wal'[1].id = lastId + 1 /\ lastId' >= lastId + 1
  BY <1>1, AppHeader DEF TypeOK, SInv
<1>3. lastId \in Nat /\ UNCHANGED salt
  BY <1>1 DEF TypeOK, SqliteTypeOK, tracking
<1>4. Ids'
  BY <1>2, <1>3 DEF SInv, Ids
<1>5. ASSUME NEW w, Headed(w, salt, wal) PROVE Headed(w, salt', wal')
  BY <1>2, <1>3, <1>5 DEF SInv, Ids, Headed
<1>6. AllDescribed'
  BY <1>1 DEF SInv, AllDescribed, Stored
<1>7. running => ManagerOK'
  <2>1. UNCHANGED <<bucket, running, generation, wal_offset, salt, manifest, step, data,
                    newSegments, keys, todo, doomed>>
    BY <1>1 DEF tracking, call, locals, syncLocals, compactLocals, retentionLocals
  <2>2. Own' = Own /\ (Published => Published') /\ (DoomedOK => DoomedOK')
    BY <2>1 DEF Own, Published, Stored, DoomedOK
  <2>3. CompactOK => CompactOK'
    BY <2>1, <2>2 DEF CompactOK, Fetched, CompactOffset, Stored
  <2> SUFFICES ASSUME running PROVE ManagerOK'
    OBVIOUS
  <2>4. ManagerOK
    BY DEF SInv
  <2> QED
    BY <1>5, <2>1, <2>2, <2>3, <2>4 DEF ManagerOK
<1> QED
  BY <1>1, <1>4, <1>6, <1>7 DEF SInv

\* Nothing of a bucket that stays as it is.
LEMMA QuietAll ==
  ASSUME AllDescribed, UNCHANGED bucket
  PROVE  AllDescribed'
  BY DEF AllDescribed, Stored

\* A new generation has no segments.
LEMMA NewGenerationS ==
  ASSUME SInv, NewGeneration, UNCHANGED bucket, step' = "read_db", Ids'
  PROVE  SInv'
<1>1. manifest' = <<>> /\ Describes(manifest', bucket', generation')
  BY JoinedNothing DEF NewGeneration
<1>2. ManagerOK'
  BY <1>1 DEF ManagerOK, BeforeReset, Settled, CompactOK, DoomedOK
<1> QED
  BY <1>2, QuietAll DEF SInv

\* Between calls, and where checkpoint goes on after its sync.
LEMMA SettledS ==
  ASSUME step' \in {"idle", "wal_checkpoint"}, Ids', AllDescribed',
         Describes(manifest, bucket, generation)', Headed(Own, salt, wal)',
         Published', wal_offset' = End(manifest')
  PROVE  SInv'
  BY DEF SInv, ManagerOK, BeforeReset, CompactOK, DoomedOK

\* A call that ends where nothing is under way.
LEMMA QuietS ==
  ASSUME SInv, running, step \in Settled,
         UNCHANGED <<wal, lastId, bucket, generation, wal_offset, salt, manifest>>,
         step' \in {"idle", "wal_checkpoint"}
  PROVE  SInv'
<1>1. /\ ManagerOK /\ Ids /\ AllDescribed
      /\ step \notin BeforeReset \cup {"put_segment_manifest"}
  BY DEF SInv, Settled, BeforeReset
<1>2. Own' = Own /\ Published' /\ Ids' /\ AllDescribed'
  BY <1>1, QuietAll DEF Own, Published, Ids, ManagerOK, Stored
<1> QED
  BY <1>1, <1>2, SettledS DEF ManagerOK

\* Entering snapshot, and on the way to its upload.
LEMMA EnterS ==
  ASSUME SInv, running, step' \in {"read_db", "put_snapshot", "put_latest"}, Ids', AllDescribed',
         Describes(manifest, bucket, generation)'
  PROVE  SInv'
  BY DEF SInv, ManagerOK, BeforeReset, Settled, CompactOK, DoomedOK

\* sync_wal up to its first upload.
LEMMA SyncWalS ==
  ASSUME TypeOK, SInv, NEW c, SyncWal(c)
  PROVE  SInv'
<1>1. /\ running /\ step = "idle" /\ UNCHANGED <<bucket, running, wal, lastId>>
  BY DEF SyncWal, Call, sqliteFiles
<1>2. /\ ManagerOK /\ Ids /\ AllDescribed /\ Describes(manifest, bucket, generation)
      /\ Headed(Own, salt, wal) /\ Published /\ wal_offset = End(manifest)
  BY <1>1 DEF SInv, ManagerOK, Settled, BeforeReset
<1>3. CASE (\E o : SyncReturn(c, o, readMark["waloy"])) /\ UNCHANGED tracking
  BY <1>1, <1>3, SyncReturnStep, QuietS DEF tracking, Settled
<1>4. CASE Recover(c)
  <2>1. Ids'
    BY <1>1, <1>2, <1>4 DEF Recover, Ids
  <2> QED
    BY <1>1, <1>4, <2>1, NewGenerationS DEF Recover, EnterSnapshot
<1>5. CASE Len(wal) > 1 /\ ~WalNeedsRecovery /\ ReadNewFrames(c)
  <2>1. /\ wal \in Seq(Block) /\ wal # <<>> /\ wal[1].id \in 1..lastId /\ salt' = wal[1].id
        /\ UNCHANGED <<generation, wal_offset, manifest>>
    BY <1>2, <1>5 DEF Ids, ReadNewFrames, TypeOK, SqliteTypeOK
  <2>2. Ids' /\ AllDescribed' /\ Own' = Own /\ Published'
    BY <1>1, <1>2, <2>1, QuietAll DEF Ids, Own, Published, Stored
  <2>3. Headed(Own, salt', wal)
    BY <1>2, <1>5, <2>1 DEF Headed, WalNeedsRecovery
  <2>4. Describes(manifest, bucket, generation)' /\ Headed(Own, salt, wal)'
    BY <1>1, <1>2, <2>1, <2>2, <2>3
  <2>5. CASE step' \in {"idle", "wal_checkpoint"}
    BY <1>1, <1>2, <2>1, <2>2, <2>4, <2>5, SettledS
  <2>6. CASE step' = "put_segment" /\ data' = NewFrames
    <3>1. wal_offset = 0 => data' = wal
      BY <2>1, <2>6 DEF NewFrames
    <3>2. wal_offset = 0 => Headed(data', salt', wal)
      BY <2>1, <3>1 DEF Headed, NoSalt
    <3> QED
      BY <1>1, <1>2, <2>1, <2>2, <2>4, <2>6, <3>2
         DEF SInv, ManagerOK, BeforeReset, CompactOK, DoomedOK
  <2> QED
    BY <1>5, <2>5, <2>6, SyncReturnStep DEF ReadNewFrames
<1> QED
  BY <1>3, <1>4, <1>5 DEF SyncWal

\* checkpoint, once the WAL is copied.
LEMMA CheckpointWalS ==
  ASSUME TypeOK, StepOK, SInv, NoFailures, CheckpointWal
  PROVE  SInv'
<1>1. WalCheckpoint(TRUE) /\ NewGeneration /\ step' = "read_db" /\ UNCHANGED <<bucket, salt>>
  BY OnlyOk DEF CheckpointWal, EnterSnapshot
<1>2. lastId' = lastId /\ (wal' = <<>> \/ wal' = wal)
  BY <1>1, CheckpointHeader
<1>3. Ids'
  BY <1>1, <1>2 DEF SInv, Ids
<1> QED
  BY <1>1, <1>3, NewGenerationS

\* snapshot, called directly, and its reading of the database file.
LEMMA SnapshotS ==
  ASSUME StepOK, SInv, Snapshot \/ ReadDb("ok")
  PROVE  SInv'
<1>1. /\ running /\ step' \in {"read_db", "put_snapshot"}
      /\ UNCHANGED <<wal, lastId, salt, bucket, generation, manifest>>
  BY DEF Snapshot, Call, EnterSnapshot, ReadDb, StepOK, tracking, sqliteVars, sqliteFiles
<1>2. Ids' /\ AllDescribed' /\ Describes(manifest, bucket, generation)'
  BY <1>1, QuietAll DEF SInv, Ids, ManagerOK
<1> QED
  BY <1>1, <1>2, EnterS

\* The manager is gone.
LEMMA GoneS ==
  ASSUME TypeOK, SInv, Gone, UNCHANGED <<bucket, wal, lastId>>
  PROVE  SInv'
<1>1. ~running' /\ salt' = 0
  BY DEF Gone, ResetWalTracking, NoSalt
<1>2. Ids' /\ AllDescribed'
  BY <1>1, QuietAll DEF SInv, Ids, TypeOK, SqliteTypeOK
<1> QED
  BY <1>1, <1>2 DEF SInv

-----------------------------------------------------------------------------
(* Uploads. *)

\* A bucket that keeps what the lists of the stored manifests name, and in which
\* a manifest that is new or changed has its snapshot and its segments.
LEMMA DescribedStill ==
  ASSUME AllDescribed,
         \A g \in Generations : Stored(ManifestKey(g))' =>
           \/ /\ Stored(ManifestKey(g)) /\ bucket'[ManifestKey(g)] = bucket[ManifestKey(g)]
              /\ Stored(SnapshotKey(g)) => Stored(SnapshotKey(g))'
              /\ \A n \in DOMAIN bucket[ManifestKey(g)] :
                   LET k == WalKey(g, bucket[ManifestKey(g)][n].index)
                   IN /\ Stored(k) => Stored(k)'
                      /\ bucket'[k] = bucket[k]
           \/ Stored(SnapshotKey(g))' /\ Describes(bucket'[ManifestKey(g)], bucket', g)
  PROVE  AllDescribed'
<1> SUFFICES ASSUME NEW g \in Generations, Stored(ManifestKey(g))'
             PROVE  Stored(SnapshotKey(g))' /\ Describes(bucket'[ManifestKey(g)], bucket', g)
  BY DEF AllDescribed
<1>1. CASE /\ Stored(ManifestKey(g)) /\ bucket'[ManifestKey(g)] = bucket[ManifestKey(g)]
           /\ Stored(SnapshotKey(g)) => Stored(SnapshotKey(g))'
           /\ \A n \in DOMAIN bucket[ManifestKey(g)] :
                LET k == WalKey(g, bucket[ManifestKey(g)][n].index)
                IN /\ Stored(k) => Stored(k)'
                   /\ bucket'[k] = bucket[k]
  <2>1. Stored(SnapshotKey(g))' /\ Describes(bucket[ManifestKey(g)], bucket, g)
    BY <1>1 DEF AllDescribed
  <2>2. Describes(bucket[ManifestKey(g)], bucket', g)
    BY <1>1, <2>1, JoinedSame DEF Stored
  <2> QED
    BY <1>1, <2>1, <2>2
<1> QED
  BY <1>1

\* A segment under a new index of the generation disturbs no list.
LEMMA PutWalS ==
  ASSUME TypeOK, AllDescribed, NEW i, NEW v, PutObject("ok", WalKey(generation, i), v),
         UNCHANGED generation, NEW m, Describes(m, bucket, generation), \A n \in DOMAIN m : m[n].index # i,
         Stored(ManifestKey(generation)) =>
           \A n \in DOMAIN bucket[ManifestKey(generation)] :
             bucket[ManifestKey(generation)][n].index # i
  PROVE  /\ AllDescribed' /\ Describes(m, bucket', generation)
         /\ Joined(bucket', generation, m) = Joined(bucket, generation, m)
         /\ WalKey(generation, i) \in DOMAIN bucket' /\ bucket'[WalKey(generation, i)] = v
         /\ Stored(ManifestKey(generation))' <=> Stored(ManifestKey(generation))
         /\ Stored(ManifestKey(generation)) =>
              /\ bucket'[ManifestKey(generation)] = bucket[ManifestKey(generation)]
              /\ Describes(bucket[ManifestKey(generation)], bucket, generation) =>
                   Joined(bucket', generation, bucket[ManifestKey(generation)])
                     = Joined(bucket, generation, bucket[ManifestKey(generation)])
<1> DEFINE k == WalKey(generation, i)
<1>1. /\ DOMAIN bucket' = DOMAIN bucket \cup {k} /\ bucket'[k] = v
      /\ \A x \in DOMAIN bucket : x # k => bucket'[x] = bucket[x]
  BY PutStores
<1>2. \A g : /\ k # ManifestKey(g) /\ k # SnapshotKey(g)
             /\ \A j : (k = WalKey(g, j)) => g = generation /\ j = i
  BY KeysDiffer
<1> HIDE DEF k
<1>3. ASSUME NEW g, NEW l, Describes(l, bucket, g),
             g = generation => \A n \in DOMAIN l : l[n].index # i
      PROVE  \A n \in DOMAIN l : /\ WalKey(g, l[n].index) \in DOMAIN bucket'
                                 /\ bucket'[WalKey(g, l[n].index)] = bucket[WalKey(g, l[n].index)]
  <2> SUFFICES ASSUME NEW n \in DOMAIN l
               PROVE  /\ WalKey(g, l[n].index) \in DOMAIN bucket'
                      /\ bucket'[WalKey(g, l[n].index)] = bucket[WalKey(g, l[n].index)]
    OBVIOUS
  <2>1. WalKey(g, l[n].index) \in DOMAIN bucket /\ k # WalKey(g, l[n].index)
    BY <1>2, <1>3 DEF Describes
  <2> QED
    BY <1>1, <2>1
<1>4. AllDescribed'
  <2>1. ASSUME NEW g \in Generations, Stored(ManifestKey(g))'
        PROVE  /\ Stored(ManifestKey(g)) /\ bucket'[ManifestKey(g)] = bucket[ManifestKey(g)]
               /\ Stored(SnapshotKey(g)) => Stored(SnapshotKey(g))'
               /\ \A n \in DOMAIN bucket[ManifestKey(g)] :
                    LET x == WalKey(g, bucket[ManifestKey(g)][n].index)
                    IN /\ Stored(x) => Stored(x)'
                       /\ bucket'[x] = bucket[x]
    <3>1. Stored(ManifestKey(g)) /\ bucket'[ManifestKey(g)] = bucket[ManifestKey(g)]
      BY <1>1, <1>2, <2>1 DEF Stored
    <3>2. Describes(bucket[ManifestKey(g)], bucket, g)
      BY <3>1 DEF AllDescribed
    <3>3. g = generation => \A n \in DOMAIN bucket[ManifestKey(g)] :
                              bucket[ManifestKey(g)][n].index # i
      BY <3>1
    <3> QED
      BY <1>1, <1>3, <3>1, <3>2, <3>3 DEF Stored
  <2> QED
    BY <2>1, DescribedStill
<1>5. ASSUME NEW l, Describes(l, bucket, generation), \A n \in DOMAIN l : l[n].index # i
      PROVE  /\ Describes(l, bucket', generation)
             /\ Joined(bucket', generation, l) = Joined(bucket, generation, l)
  <2>1. \A n \in DOMAIN l :
           /\ WalKey(generation, l[n].index) \in DOMAIN bucket'
           /\ bucket'[WalKey(generation, l[n].index)] = bucket[WalKey(generation, l[n].index)]
    BY <1>3, <1>5
  <2> QED
    BY <1>5, <2>1, JoinedSame
<1>6. /\ Stored(ManifestKey(generation))' <=> Stored(ManifestKey(generation))
      /\ Stored(ManifestKey(generation)) =>
           bucket'[ManifestKey(generation)] = bucket[ManifestKey(generation)]
  <2>1. ManifestKey(generation) \in DOMAIN bucket' <=> ManifestKey(generation) \in DOMAIN bucket
    BY <1>1, <1>2
  <2>2. UNCHANGED generation => Stored(ManifestKey(generation))' = (ManifestKey(generation) \in DOMAIN bucket')
    BY DEF Stored
  <2> QED
    BY <1>1, <1>2, <2>1, <2>2 DEF Stored
<1> QED
  BY <1>1, <1>4, <1>5, <1>6 DEF k

\* What sync_wal's segment adds is what follows the segments before.
LEMMA PutSegmentS ==
  ASSUME TypeOK, TypeOK', StepOK, RInv, SInv, PutSegment("ok")
  PROVE  SInv' /\ Joined(bucket', generation, manifest) = Own /\ Own' = Own \o data
<1> DEFINE new == [index |-> wal_index, offset |-> wal_offset, size |-> Len(data)]
<1>1. /\ running /\ step = "put_segment" /\ step' = "put_segment_manifest"
      /\ UNCHANGED <<running, generation, wal_index, wal_offset, salt, data, wal, lastId>>
      /\ PutObject("ok", WalKey(generation, wal_index), data)
      /\ manifest' = Append(manifest, new) /\ wal_index <= MaxIndex
  BY DEF PutSegment, StepOK, sqliteFiles, locals, syncLocals
<1>2. /\ ManagerOK /\ Ids /\ AllDescribed /\ Describes(manifest, bucket, generation)
      /\ Headed(Own, salt, wal) /\ Published /\ wal_offset = End(manifest)
      /\ wal_offset = 0 => Headed(data, salt, wal)
  BY <1>1 DEF SInv, ManagerOK, Settled, BeforeReset
<1>3. Below
  BY <1>1 DEF RInv, Base, Order
<1>4. /\ manifest \in Seq(SegmentMeta) /\ wal_index \in Nat /\ wal_offset \in Nat
      /\ data \in Seq(Block) /\ BucketTypeOK /\ BucketTypeOK'
  BY DEF TypeOK, ManagerTypeOK, CallTypeOK
<1>5. \A n \in DOMAIN manifest : manifest[n].index # wal_index
  <2>1. \A n \in DOMAIN manifest : manifest[n].index \in Nat
    BY <1>4, IndexType
  <2> QED
    BY <1>3, <1>4, <2>1 DEF Below
<1>6. /\ AllDescribed' /\ Describes(manifest, bucket', generation)
      /\ Joined(bucket', generation, manifest) = Own
      /\ WalKey(generation, wal_index) \in DOMAIN bucket'
      /\ bucket'[WalKey(generation, wal_index)] = data
  BY <1>1, <1>2, <1>5, PutWalS DEF Own, Published
<1>7. new \in SegmentMeta
  BY <1>1, <1>4, KeysAssumption DEF SegmentMeta, Indexes
<1>8. new.index = wal_index /\ new.offset = wal_offset /\ new.size = Len(data)
  OBVIOUS
<1>9. SegmentsTyped(bucket) /\ SegmentsTyped(bucket')
  <2>1. SegmentsTyped(bucket')
    BY <1>4 DEF BucketTypeOK, ObjectTypeOK, SegmentsTyped
  <2> QED
    BY <1>4, <2>1, BucketSegments
<1> HIDE DEF new
<1>10. /\ Describes(manifest', bucket', generation) /\ End(manifest') = End(manifest) + Len(data)
       /\ Joined(bucket', generation, manifest') = Own \o data
  <2>1. PICK b : b = bucket'
    OBVIOUS
  <2>2. /\ SegmentsTyped(b) /\ Describes(manifest, b, generation)
        /\ new.offset = End(manifest) /\ WalKey(generation, new.index) \in DOMAIN b
        /\ b[WalKey(generation, new.index)] = data
    BY <1>2, <1>6, <1>8, <1>9, <2>1
  <2>3. Len(b[WalKey(generation, new.index)]) = new.size
    BY <1>8, <2>2
  <2>4. /\ Describes(Append(manifest, new), b, generation)
        /\ End(Append(manifest, new)) = End(manifest) + new.size
        /\ Joined(b, generation, Append(manifest, new))
             = Joined(b, generation, manifest) \o b[WalKey(generation, new.index)]
    BY <1>4, <1>7, <2>2, <2>3, DescribesAppend
  <2> QED
    BY <1>1, <1>6, <1>8, <2>1, <2>2, <2>4
<1>11. Headed(Own \o data, salt, wal)
  <2>1. Own \in Seq(Block) /\ Len(Own) = wal_offset
    BY <1>2, <1>4, <1>9, JoinedType, JoinedLength DEF Own
  <2>2. CASE Own = <<>>
    <3>1. Own \o data = data /\ Len(Own) = 0
      BY <1>4, <2>2
    <3> QED
      BY <1>2, <2>1, <3>1
  <2>3. CASE Own # <<>>
    <3>1. (Own \o data)[1] = Own[1]
      BY <1>4, <2>1, <2>3
    <3> QED
      BY <1>2, <2>3, <3>1 DEF Headed
  <2> QED
    BY <2>2, <2>3
<1>12. /\ Own' = Own \o data /\ Headed(Own, salt, wal)' /\ Ids'
       /\ Describes(manifest, bucket, generation)'
       /\ wal_offset' + Len(data') = End(manifest')
  BY <1>1, <1>2, <1>10, <1>11 DEF Own, Ids
<1> QED
  BY <1>1, <1>6, <1>12 DEF SInv, ManagerOK, BeforeReset, Settled, CompactOK, DoomedOK

\* The upload of a manifest makes the list in memory the published one.
LEMMA PutManifestS ==
  ASSUME TypeOK, RInv, SInv, running, Current, UNCHANGED <<generation, manifest>>,
         PutObject("ok", ManifestKey(generation), manifest)
  PROVE  /\ AllDescribed' /\ Published' /\ Own' = Own /\ Describes(manifest, bucket, generation)'
         /\ DOMAIN bucket' = DOMAIN bucket \cup {ManifestKey(generation)}
         /\ bucket'[ManifestKey(generation)] = manifest
<1> DEFINE k == ManifestKey(generation)
<1>1. /\ DOMAIN bucket' = DOMAIN bucket \cup {k} /\ bucket'[k] = manifest
      /\ \A x \in DOMAIN bucket : x # k => bucket'[x] = bucket[x]
  BY PutStores
<1>2. \A g, i : k # SnapshotKey(g) /\ k # WalKey(g, i) /\ (k = ManifestKey(g) => g = generation)
  BY KeysDiffer
<1>3. Describes(manifest, bucket, generation) /\ AllDescribed
  BY DEF SInv, ManagerOK
<1>4. Stored(SnapshotKey(generation))
  BY DEF RInv, Base, LatestIsRestorable, Restorable, Current
<1> HIDE DEF k
<1>5. ASSUME NEW g, NEW l, Describes(l, bucket, g)
      PROVE  \A n \in DOMAIN l : /\ WalKey(g, l[n].index) \in DOMAIN bucket'
                                 /\ bucket'[WalKey(g, l[n].index)] = bucket[WalKey(g, l[n].index)]
  BY <1>1, <1>2, <1>5 DEF Describes
<1>6. /\ Describes(manifest, bucket', generation)
      /\ Joined(bucket', generation, manifest) = Joined(bucket, generation, manifest)
  BY <1>3, <1>5, JoinedSame
<1>7. AllDescribed'
  <2>1. ASSUME NEW g \in Generations, Stored(ManifestKey(g))', g # generation
        PROVE  /\ Stored(ManifestKey(g)) /\ bucket'[ManifestKey(g)] = bucket[ManifestKey(g)]
               /\ Stored(SnapshotKey(g)) => Stored(SnapshotKey(g))'
               /\ \A n \in DOMAIN bucket[ManifestKey(g)] :
                    LET x == WalKey(g, bucket[ManifestKey(g)][n].index)
                    IN /\ Stored(x) => Stored(x)'
                       /\ bucket'[x] = bucket[x]
    <3>1. Stored(ManifestKey(g)) /\ bucket'[ManifestKey(g)] = bucket[ManifestKey(g)]
      BY <1>1, <1>2, <2>1 DEF Stored
    <3>2. Describes(bucket[ManifestKey(g)], bucket, g)
      BY <1>3, <3>1 DEF AllDescribed
    <3> QED
      BY <1>1, <1>5, <3>1, <3>2 DEF Stored
  <2>2. Stored(SnapshotKey(generation))' /\ Describes(bucket'[ManifestKey(generation)], bucket', generation)
    BY <1>1, <1>4, <1>6 DEF Stored, k
  <2> QED
    BY <1>3, <2>1, <2>2, DescribedStill
<1>8. Published'
  BY <1>1 DEF Published, Stored, k
<1> QED
  BY <1>1, <1>6, <1>7, <1>8 DEF Own, k

\* Then the list is uploaded, and the offset moves past the segment.
LEMMA PutSegmentManifestS ==
  ASSUME TypeOK, StepOK, RInv, SInv, PutSegmentManifest("ok")
  PROVE  SInv'
<1>1. /\ running /\ step = "put_segment_manifest" /\ step' \in {"idle", "wal_checkpoint"}
      /\ UNCHANGED <<generation, manifest, salt, wal, lastId>>
      /\ wal_offset' = wal_offset + Len(data)
      /\ PutObject("ok", ManifestKey(generation), manifest)
  BY SyncReturnStep DEF PutSegmentManifest, StepOK, sqliteFiles
<1>2. Current
  BY <1>1 DEF RInv, Base, Order
<1>3. AllDescribed' /\ Published' /\ Own' = Own /\ Describes(manifest, bucket, generation)'
  BY <1>1, <1>2, PutManifestS
<1>4. /\ Ids /\ Headed(Own, salt, wal) /\ wal_offset + Len(data) = End(manifest)
  BY <1>1 DEF SInv, ManagerOK, BeforeReset
<1>5. Ids' /\ Headed(Own, salt, wal)' /\ wal_offset' = End(manifest')
  BY <1>1, <1>3, <1>4 DEF Ids
<1> QED
  BY <1>1, <1>3, <1>5, SettledS

\* snapshot's uploads: the database file...
LEMMA PutSnapshotS ==
  ASSUME TypeOK, StepOK, SInv, PutSnapshot("ok")
  PROVE  SInv'
<1> DEFINE k == SnapshotKey(generation)
<1>1. /\ running /\ step' = "put_latest" /\ PutObject("ok", k, image)
      /\ UNCHANGED <<generation, manifest, salt, wal, lastId>>
  BY DEF PutSnapshot, StepOK, sqliteFiles, tracking
<1>2. /\ DOMAIN bucket' = DOMAIN bucket \cup {k}
      /\ \A x \in DOMAIN bucket : x # k => bucket'[x] = bucket[x]
  BY <1>1, PutStores
<1>3. \A g, i : k # ManifestKey(g) /\ k # WalKey(g, i)
  BY KeysDiffer
<1>4. AllDescribed /\ Ids /\ Describes(manifest, bucket, generation)
  BY <1>1 DEF SInv, ManagerOK
<1> HIDE DEF k
<1>5. ASSUME NEW g, NEW l, Describes(l, bucket, g)
      PROVE  \A n \in DOMAIN l : /\ WalKey(g, l[n].index) \in DOMAIN bucket'
                                 /\ bucket'[WalKey(g, l[n].index)] = bucket[WalKey(g, l[n].index)]
  BY <1>2, <1>3, <1>5 DEF Describes
<1>6. Describes(manifest, bucket', generation)
  BY <1>4, <1>5, JoinedSame
<1>7. AllDescribed'
  <2>1. ASSUME NEW g \in Generations, Stored(ManifestKey(g))'
        PROVE  /\ Stored(ManifestKey(g)) /\ bucket'[ManifestKey(g)] = bucket[ManifestKey(g)]
               /\ Stored(SnapshotKey(g)) => Stored(SnapshotKey(g))'
               /\ \A n \in DOMAIN bucket[ManifestKey(g)] :
                    LET x == WalKey(g, bucket[ManifestKey(g)][n].index)
                    IN /\ Stored(x) => Stored(x)'
                       /\ bucket'[x] = bucket[x]
    <3>1. Stored(ManifestKey(g)) /\ bucket'[ManifestKey(g)] = bucket[ManifestKey(g)]
      BY <1>2, <1>3, <2>1 DEF Stored
    <3>2. Describes(bucket[ManifestKey(g)], bucket, g)
      BY <1>4, <3>1 DEF AllDescribed
    <3> QED
      BY <1>2, <1>5, <3>1, <3>2 DEF Stored
  <2> QED
    BY <1>4, <2>1, DescribedStill
<1>8. Ids' /\ Describes(manifest, bucket, generation)'
  BY <1>1, <1>4, <1>6 DEF Ids
<1> QED
  BY <1>1, <1>7, <1>8, EnterS

\* ... `latest`, and with it the list in memory is emptied...
LEMMA PutLatestS ==
  ASSUME TypeOK, StepOK, SInv, PutLatest("ok")
  PROVE  SInv'
<1>1. /\ running /\ step' = "put_snapshot_manifest" /\ PutObject("ok", LatestKey, generation)
      /\ manifest' = <<>> /\ wal_offset' = 0 /\ salt' = 0
      /\ UNCHANGED <<generation, wal, lastId>>
  BY DEF PutLatest, StepOK, sqliteFiles, ResetWalTracking, NoSalt
<1>2. /\ DOMAIN bucket' = DOMAIN bucket \cup {LatestKey}
      /\ \A x \in DOMAIN bucket : x # LatestKey => bucket'[x] = bucket[x]
  BY <1>1, PutStores
<1>3. \A g, i : LatestKey # ManifestKey(g) /\ LatestKey # WalKey(g, i) /\ LatestKey # SnapshotKey(g)
  BY KeysDiffer
<1>4. AllDescribed /\ Ids
  BY <1>1 DEF SInv
<1>5. AllDescribed'
  <2>1. ASSUME NEW g \in Generations, Stored(ManifestKey(g))'
        PROVE  /\ Stored(ManifestKey(g)) /\ bucket'[ManifestKey(g)] = bucket[ManifestKey(g)]
               /\ Stored(SnapshotKey(g)) => Stored(SnapshotKey(g))'
               /\ \A n \in DOMAIN bucket[ManifestKey(g)] :
                    LET x == WalKey(g, bucket[ManifestKey(g)][n].index)
                    IN /\ Stored(x) => Stored(x)'
                       /\ bucket'[x] = bucket[x]
    <3>1. Stored(ManifestKey(g)) /\ bucket'[ManifestKey(g)] = bucket[ManifestKey(g)]
      BY <1>2, <1>3, <2>1 DEF Stored
    <3>2. \A n \in DOMAIN bucket[ManifestKey(g)] :
            WalKey(g, bucket[ManifestKey(g)][n].index) \in DOMAIN bucket
      BY <1>4, <3>1 DEF AllDescribed, Describes
    <3> QED
      BY <1>2, <1>3, <3>1, <3>2 DEF Stored
  <2> QED
    BY <1>4, <2>1, DescribedStill
<1>6. Own' = <<>> /\ Describes(manifest, bucket, generation)' /\ End(manifest') = 0
  BY <1>1, JoinedNothing DEF Own, End
<1>7. Headed(Own, salt, wal)'
  BY <1>6 DEF Headed
<1>8. Ids'
  BY <1>1, <1>4 DEF Ids, TypeOK, SqliteTypeOK
<1> QED
  BY <1>1, <1>5, <1>6, <1>7, <1>8 DEF SInv, ManagerOK, BeforeReset, Settled, CompactOK, DoomedOK

\* ... and last the empty manifest.
LEMMA PutSnapshotManifestS ==
  ASSUME TypeOK, StepOK, RInv, SInv, PutSnapshotManifest("ok")
  PROVE  SInv'
<1>1. /\ running /\ step = "put_snapshot_manifest" /\ step' \in {"idle", "wal_checkpoint"}
      /\ UNCHANGED <<generation, manifest, salt, wal_offset, wal, lastId>>
      /\ PutObject("ok", ManifestKey(generation), manifest)
  BY SnapshotReturnStep DEF PutSnapshotManifest, StepOK, sqliteFiles, tracking
<1>2. Current
  BY <1>1 DEF RInv, Base, Order
<1>3. AllDescribed' /\ Published' /\ Own' = Own /\ Describes(manifest, bucket, generation)'
  BY <1>1, <1>2, PutManifestS
<1>4. /\ Ids /\ Headed(Own, salt, wal) /\ wal_offset = End(manifest)
  BY <1>1 DEF SInv, ManagerOK, BeforeReset
<1>5. Ids' /\ Headed(Own, salt, wal)' /\ wal_offset' = End(manifest')
  BY <1>1, <1>3, <1>4 DEF Ids
<1> QED
  BY <1>1, <1>3, <1>5, SettledS

-----------------------------------------------------------------------------
(* Compaction. *)

\* compact begins to download what the manifest lists...
LEMMA CompactS ==
  ASSUME TypeOK, SInv, NEW size, Compact(size)
  PROVE  SInv' /\ Own' = Own
<1>1. /\ running /\ step = "idle" /\ step' = "compact_get" /\ data' = <<>>
      /\ keys' = [n \in DOMAIN manifest |-> WalKey(generation, manifest[n].index)]
      /\ todo' = keys' /\ Len(manifest) > 1
      /\ UNCHANGED <<bucket, generation, manifest, salt, wal_offset, wal, lastId>>
  BY DEF Compact, Call, tracking, sqliteVars, sqliteFiles
<1>2. /\ ManagerOK /\ Ids /\ AllDescribed /\ Describes(manifest, bucket, generation)
      /\ Headed(Own, salt, wal) /\ Published /\ wal_offset = End(manifest)
  BY <1>1 DEF SInv, ManagerOK, Settled, BeforeReset
<1>3. manifest \in Seq(SegmentMeta) /\ DOMAIN manifest = 1..Len(manifest) /\ Len(manifest) \in Nat
  BY DEF TypeOK, ManagerTypeOK
<1>4. Len(keys') = Len(manifest) /\ SubSeq(keys', 1, Len(keys')) = keys'
  <2> DEFINE f == [n \in 1..Len(manifest) |-> WalKey(generation, manifest[n].index)]
  <2>1. f \in Seq({WalKey(generation, manifest[n].index) : n \in 1..Len(manifest)})
        /\ Len(f) = Len(manifest)
    BY <1>3, IsASeq
  <2>2. keys' = f
    BY <1>1, <1>3
  <2> HIDE DEF f
  <2> QED
    BY <2>1, <2>2
<1>5. SubSeq(manifest, 1, 0) = <<>>
  BY <1>3
<1>6. Fetched' = 0
  BY <1>1, <1>3, <1>4 DEF Fetched
<1>7. /\ Fetched' \in 0..(Len(keys') - 1) /\ todo' = SubSeq(keys', Fetched' + 1, Len(keys'))
      /\ data' = Joined(bucket', generation', SubSeq(manifest', 1, Fetched'))
  <2>1. Fetched' \in 0..(Len(keys') - 1)
    BY <1>1, <1>3, <1>4, <1>6
  <2>2. Fetched' + 1 = 1
    BY <1>6
  <2>3. todo' = SubSeq(keys', Fetched' + 1, Len(keys'))
    BY <1>1, <1>4, <2>2
  <2>4. SubSeq(manifest', 1, Fetched') = <<>>
    BY <1>1, <1>5, <1>6
  <2>5. data' = Joined(bucket', generation', SubSeq(manifest', 1, Fetched'))
    BY <1>1, <2>4, JoinedNothing
  <2> QED
    BY <2>1, <2>3, <2>5
<1>8. CompactOK'
  BY <1>1, <1>7 DEF CompactOK
<1>9. Own' = Own /\ Published' /\ Ids' /\ AllDescribed'
  BY <1>1, <1>2, QuietAll DEF Own, Published, Ids, Stored
<1> QED
  BY <1>1, <1>2, <1>8, <1>9 DEF SInv, ManagerOK, BeforeReset, Settled, DoomedOK

\* ... one segment after the other, until it has all of them.
LEMMA CompactGetS ==
  ASSUME TypeOK, TypeOK', StepOK, SInv, CompactGet
  PROVE  SInv' /\ Own' = Own
<1>1. /\ running /\ step = "compact_get"
      /\ UNCHANGED <<bucket, generation, manifest, salt, wal_offset, wal, lastId>>
  BY DEF CompactGet, StepOK, tracking, sqliteVars, sqliteFiles
<1>2. /\ ManagerOK /\ Ids /\ AllDescribed /\ Describes(manifest, bucket, generation)
      /\ Headed(Own, salt, wal) /\ Published /\ wal_offset = End(manifest) /\ CompactOK
  BY <1>1 DEF SInv, ManagerOK, Settled, BeforeReset
<1>3. CASE Idle
  BY <1>1, <1>3, QuietS DEF Idle, Settled, Own
<1>4. CASE /\ data' = data \o bucket[Head(todo)] /\ todo' = Tail(todo)
           /\ step' = IF Len(todo) = 1 THEN "compact_put" ELSE "compact_get"
           /\ UNCHANGED <<newSegments, keys>>
  <2> DEFINE p == Fetched
             s == manifest[p + 1]
             first == SubSeq(manifest, 1, p)
  <2>1. /\ manifest \in Seq(SegmentMeta) /\ DOMAIN manifest = 1..Len(manifest)
        /\ Len(manifest) \in Nat /\ keys \in Seq(WalKeys) /\ todo \in Seq(WalKeys)
        /\ todo # <<>> /\ BucketTypeOK /\ newSegments = <<>>
    BY <1>1 DEF TypeOK, ManagerTypeOK, CallTypeOK, StepOK
  <2>2. /\ keys = [n \in DOMAIN manifest |-> WalKey(generation, manifest[n].index)]
        /\ p \in 0..(Len(keys) - 1) /\ todo = SubSeq(keys, p + 1, Len(keys))
        /\ data = Joined(bucket, generation, first) /\ p = Len(keys) - Len(todo)
    BY <1>1, <1>2 DEF CompactOK, Fetched
  <2>3. Len(keys) = Len(manifest)
    <3>1. DOMAIN keys = DOMAIN manifest
      BY <2>2
    <3> QED
      BY <2>1, <3>1
  <2> HIDE DEF p
  <2>4. /\ Head(todo) = keys[p + 1] /\ Tail(todo) = SubSeq(keys, p + 2, Len(keys))
        /\ Len(Tail(todo)) = Len(todo) - 1 /\ Len(todo) \in Nat /\ Len(todo) >= 1
        /\ Len(todo) = Len(keys) - p
    <3>1. Len(todo) \in Nat /\ Len(todo) >= 1 /\ Len(todo) = Len(keys) - p /\ Len(keys) \in Nat
      BY <2>1, <2>2
    <3>2. Len(Tail(todo)) = Len(todo) - 1
      BY <2>1, HeadTailProperties
    <3>3. p + 1 \in 1..Len(keys) /\ Len(keys) \in (p + 1)..Len(keys) /\ (p + 1) + 1 = p + 2
      BY <2>2, <3>1
    <3>4. /\ Head(SubSeq(keys, p + 1, Len(keys))) = keys[p + 1]
          /\ Tail(SubSeq(keys, p + 1, Len(keys))) = SubSeq(keys, (p + 1) + 1, Len(keys))
      BY <2>1, <3>3, HeadTailOfSubSeq
    <3> QED
      BY <2>2, <3>1, <3>2, <3>3, <3>4
  <2>5. /\ p \in 0..Len(manifest) /\ p < Len(manifest) /\ p + 1 \in DOMAIN manifest
        /\ keys[p + 1] = WalKey(generation, s.index) /\ s \in SegmentMeta
    <3>1. p \in 0..Len(manifest) /\ p < Len(manifest) /\ p + 1 \in DOMAIN manifest
      BY <2>1, <2>2, <2>3
    <3>2. keys[p + 1] = WalKey(generation, s.index)
      BY <2>2, <3>1
    <3>3. s \in SegmentMeta
      BY <2>1, <3>1
    <3> QED
      BY <3>1, <3>2, <3>3
  <2>6. /\ first \in Seq(SegmentMeta) /\ Describes(first, bucket, generation)
        /\ SubSeq(manifest, 1, p + 1) = Append(first, s) /\ s.offset = End(first)
    BY <1>2, <2>1, <2>5, FirstSegments
  <2>7. WalKey(generation, s.index) \in DOMAIN bucket /\ Len(bucket[WalKey(generation, s.index)]) = s.size
    BY <1>2, <2>5 DEF Describes
  <2> HIDE DEF s, first
  <2>8. data' = Joined(bucket, generation, SubSeq(manifest, 1, p + 1))
    <3>1. SegmentsTyped(bucket)
      BY <2>1, BucketSegments
    <3>2. Joined(bucket, generation, Append(first, s))
            = Joined(bucket, generation, first) \o bucket[WalKey(generation, s.index)]
      BY <2>5, <2>6, <2>7, <3>1, DescribesAppend
    <3> QED
      BY <1>4, <2>2, <2>4, <2>5, <2>6, <3>2 DEF first
  <2>9. CompactOK'
    <3>1. CASE Len(todo) = 1
      <4>1. step' = "compact_put" /\ p + 1 = Len(manifest)
        <5>1. Len(manifest) \in Nat /\ p \in 0..Len(manifest) /\ 1 = Len(manifest) - p
          BY <2>1, <2>3, <2>4, <2>5, <3>1
        <5>2. p + 1 = Len(manifest)
          BY <5>1
        <5> QED
          BY <1>4, <3>1, <5>2
      <4>2. SubSeq(manifest, 1, p + 1) = manifest
        BY <2>1, <4>1, SubSeqFull
      <4>3. data' = Own'
        BY <1>1, <2>8, <4>2 DEF Own
      <4>4. newSegments' = <<>> /\ CompactOffset' = 0
        BY <1>4, <2>1 DEF CompactOffset
      <4>5. SubSeq(data', 1, 0) = <<>> /\ CompactOffset' \in 0..Len(data')
        <5>1. Len(data') \in Nat
          BY DEF TypeOK, CallTypeOK
        <5> QED
          BY <4>4, <5>1
      <4>6. /\ Describes(newSegments, bucket, generation)'
            /\ Joined(bucket', generation', newSegments') = SubSeq(data', 1, CompactOffset')
        BY <4>4, <4>5, JoinedNothing
      <4> QED
        BY <4>1, <4>3, <4>5, <4>6 DEF CompactOK
    <3>2. CASE Len(todo) # 1
      <4>1. step' = "compact_get"
        BY <1>4, <3>2
      <4>2. Fetched' = p + 1
        BY <1>4, <2>1, <2>4, <2>5 DEF Fetched
      <4>3. Fetched' \in 0..(Len(keys') - 1) /\ todo' = SubSeq(keys', Fetched' + 1, Len(keys'))
        <5>1. Fetched' \in 0..(Len(keys') - 1) /\ Fetched' + 1 = p + 2
          BY <1>4, <2>3, <2>4, <2>5, <3>2, <4>2
        <5>2. todo' = SubSeq(keys', p + 2, Len(keys'))
          BY <1>4, <2>4
        <5> QED
          BY <5>1, <5>2
      <4>4. data' = Joined(bucket', generation', SubSeq(manifest', 1, Fetched'))
        BY <1>1, <2>8, <4>2
      <4>5. keys' = [n \in DOMAIN manifest' |-> WalKey(generation', manifest'[n].index)]
        BY <1>1, <1>4, <2>2
      <4> QED
        BY <4>1, <4>3, <4>4, <4>5 DEF CompactOK
    <3> QED
      BY <3>1, <3>2
  <2>10. Own' = Own /\ Published' /\ Ids' /\ AllDescribed'
    BY <1>1, <1>2, QuietAll DEF Own, Published, Ids, Stored
  <2>11. step' \in {"compact_get", "compact_put"}
    BY <1>4
  <2> QED
    BY <1>1, <1>2, <2>9, <2>10, <2>11 DEF SInv, ManagerOK, BeforeReset, Settled, DoomedOK
<1> QED
  BY <1>3, <1>4 DEF CompactGet

\* The next chunk continues those before it, and the last one ends the data.
LEMMA CompactPutS ==
  ASSUME TypeOK, TypeOK', StepOK, RInv, SInv, CompactPut("ok")
  PROVE  SInv' /\ Own' = Own
<1> DEFINE o == CompactOffset
           e == CompactEnd
           i == CompactIndex
           new == [index |-> i, offset |-> o, size |-> e - o]
           chunk == SubSeq(data, o + 1, e)
<1>1. /\ running /\ step = "compact_put" /\ i <= MaxIndex
      /\ UNCHANGED <<running, generation, wal_index, wal_offset, salt, data, maxSize, wal, lastId>>
      /\ PutObject("ok", WalKey(generation, i), chunk)
      /\ newSegments' = Append(newSegments, new)
      /\ \/ step' = "compact_put" /\ manifest' = manifest
         \/ step' = "compact_manifest" /\ manifest' = newSegments' /\ e = Len(data)
  BY DEF CompactPut, StepOK, sqliteVars, sqliteFiles, syncLocals
<1>2. /\ ManagerOK /\ Ids /\ AllDescribed /\ Describes(manifest, bucket, generation)
      /\ Headed(Own, salt, wal) /\ Published /\ wal_offset = End(manifest) /\ CompactOK
  BY <1>1 DEF SInv, ManagerOK, Settled, BeforeReset
<1>3. /\ data = Own /\ Describes(newSegments, bucket, generation) /\ o \in 0..Len(data)
      /\ Joined(bucket, generation, newSegments) = SubSeq(data, 1, o)
  BY <1>1, <1>2 DEF CompactOK
<1>4. Below /\ Merged
  BY <1>1 DEF RInv, Base, Order
<1>5. /\ manifest \in Seq(SegmentMeta) /\ newSegments \in Seq(SegmentMeta) /\ wal_index \in Nat
      /\ data \in Seq(Block) /\ maxSize \in Nat /\ SegmentsTyped(bucket)
  BY BucketSegments DEF TypeOK, ManagerTypeOK, CallTypeOK
<1>6. SegmentsTyped(bucket')
  BY DEF TypeOK, BucketTypeOK, ObjectTypeOK, SegmentsTyped
<1>7. o = End(newSegments) /\ Len(SubSeq(data, 1, o)) = o /\ Len(data) = wal_offset
  <2>1. o = End(newSegments)
    BY DEF CompactOffset, End
  <2> HIDE DEF o
  <2>2. Len(SubSeq(data, 1, o)) = o
    BY <1>3, <1>5, <2>1, JoinedLength
  <2>3. Len(data) = wal_offset
    BY <1>2, <1>3, <1>5, JoinedLength DEF Own
  <2> QED
    BY <2>1, <2>2, <2>3
<1>8. e \in o..Len(data) /\ Len(data) \in Nat
  <2>1. e = IF o + maxSize < Len(data) THEN o + maxSize ELSE Len(data)
    BY DEF CompactEnd
  <2> HIDE DEF o, e
  <2> QED
    BY <1>3, <1>5, <2>1
<1>9. i \in Nat /\ i >= wal_index /\ new \in SegmentMeta
  <2>1. i \in Nat /\ i >= wal_index
    BY <1>5 DEF CompactIndex
  <2> HIDE DEF o, e, i
  <2> QED
    BY <1>1, <1>3, <1>5, <1>8, <2>1, KeysAssumption DEF SegmentMeta, Indexes
<1>10. new.index = i /\ new.offset = o /\ new.size = e - o
  OBVIOUS
<1> HIDE DEF new
<1>11. Len(chunk) = e - o /\ SubSeq(data, 1, o) \o chunk = SubSeq(data, 1, e)
  <2> HIDE DEF o, e
  <2>1. Len(SubSeq(data, o + 1, e)) = e - o
    BY <1>3, <1>5, <1>8
  <2>2. SubSeq(data, 1, o) \o SubSeq(data, o + 1, e) = SubSeq(data, 1, e)
    BY <1>3, <1>5, <1>8
  <2> QED
    BY <2>1, <2>2
<1>12. /\ \A n \in DOMAIN manifest : manifest[n].index # i
       /\ \A n \in DOMAIN newSegments : newSegments[n].index # i
  <2>1. \A n \in DOMAIN manifest : manifest[n].index \in Nat /\ manifest[n].index < wal_index
    BY <1>4, <1>5, IndexType DEF Below
  <2>2. \A n \in DOMAIN newSegments : newSegments[n].index \in wal_index..(i - 1)
    BY <1>4 DEF Merged
  <2> HIDE DEF i
  <2>3. wal_index \in Nat /\ i \in Nat /\ i >= wal_index
    BY <1>5, <1>9
  <2>4. ASSUME NEW n \in DOMAIN manifest PROVE manifest[n].index # i
    <3>1. manifest[n].index \in Nat /\ manifest[n].index < wal_index
      BY <2>1
    <3> QED
      BY <2>3, <3>1
  <2>5. ASSUME NEW n \in DOMAIN newSegments PROVE newSegments[n].index # i
    <3>1. newSegments[n].index \in wal_index..(i - 1)
      BY <2>2
    <3> QED
      BY <2>3, <3>1
  <2> QED
    BY <2>4, <2>5
<1> HIDE DEF o, e, i, chunk
<1>13. /\ AllDescribed' /\ Describes(manifest, bucket', generation)
       /\ Joined(bucket', generation, manifest) = Own
       /\ WalKey(generation, i) \in DOMAIN bucket' /\ bucket'[WalKey(generation, i)] = chunk
       /\ Stored(ManifestKey(generation))' /\ bucket'[ManifestKey(generation)] = manifest
  BY <1>1, <1>2, <1>12, PutWalS DEF Own, Published
<1>14. /\ Describes(newSegments, bucket', generation)
       /\ Joined(bucket', generation, newSegments) = SubSeq(data, 1, o)
  BY <1>1, <1>2, <1>3, <1>12, PutWalS DEF Published
<1>15. /\ Describes(newSegments', bucket', generation) /\ End(newSegments') = e
       /\ Joined(bucket', generation, newSegments') = SubSeq(data, 1, e)
  <2>1. PICK b : b = bucket'
    OBVIOUS
  <2>2. /\ SegmentsTyped(b) /\ Describes(newSegments, b, generation)
        /\ new.offset = End(newSegments) /\ WalKey(generation, new.index) \in DOMAIN b
        /\ b[WalKey(generation, new.index)] = chunk
    BY <1>6, <1>7, <1>10, <1>13, <1>14, <2>1
  <2>3. Len(b[WalKey(generation, new.index)]) = new.size
    BY <1>10, <1>11, <2>2
  <2>4. /\ Describes(Append(newSegments, new), b, generation)
        /\ End(Append(newSegments, new)) = End(newSegments) + new.size
        /\ Joined(b, generation, Append(newSegments, new))
             = Joined(b, generation, newSegments) \o b[WalKey(generation, new.index)]
    <3>1. newSegments \in Seq(SegmentMeta) /\ new \in SegmentMeta
      BY <1>5, <1>9
    <3> QED
      BY <2>2, <2>3, <3>1, DescribesAppend
  <2>5. End(newSegments) + new.size = e
    BY <1>3, <1>7, <1>8, <1>10
  <2> QED
    BY <1>1, <1>11, <1>14, <2>1, <2>2, <2>4, <2>5
<1>16. Ids' /\ CompactOffset' = e
  <2>1. CompactOffset' = End(newSegments')
    BY DEF CompactOffset, End
  <2> QED
    BY <1>1, <1>2, <1>15, <2>1 DEF Ids
<1>17. CASE step' = "compact_put" /\ manifest' = manifest
  <2>1. Own' = Own /\ Published' /\ Describes(manifest, bucket, generation)'
    BY <1>1, <1>13, <1>17 DEF Own, Published
  <2>2. CompactOK'
    BY <1>1, <1>3, <1>8, <1>15, <1>16, <1>17, <2>1 DEF CompactOK
  <2> QED
    BY <1>1, <1>2, <1>13, <1>16, <1>17, <2>1, <2>2
       DEF SInv, ManagerOK, BeforeReset, DoomedOK
<1>18. CASE step' = "compact_manifest" /\ manifest' = newSegments' /\ e = Len(data)
  <2>1. SubSeq(data, 1, e) = data
    BY <1>5, <1>18, SubSeqFull
  <2>2. Own' = Own /\ Describes(manifest, bucket, generation)' /\ End(manifest') = wal_offset
    BY <1>1, <1>3, <1>7, <1>15, <1>18, <2>1 DEF Own
  <2>3. CompactOK'
    BY <1>1, <1>13, <1>18, <2>2 DEF CompactOK
  <2> QED
    BY <1>1, <1>2, <1>13, <1>16, <1>18, <2>2, <2>3
       DEF SInv, ManagerOK, BeforeReset, Settled, DoomedOK
<1> QED
  BY <1>1, <1>17, <1>18 DEF e

\* The new list gives what the old one gave.
LEMMA CompactManifestS ==
  ASSUME TypeOK, StepOK, RInv, SInv, CompactManifest("ok")
  PROVE  SInv' /\ Own' = Own
<1>1. /\ running /\ step = "compact_manifest" /\ step' = "compact_delete"
      /\ UNCHANGED <<generation, manifest, salt, wal_offset, wal, lastId>>
      /\ PutObject("ok", ManifestKey(generation), manifest)
  BY DEF CompactManifest, StepOK, sqliteVars, sqliteFiles
<1>2. Current
  BY <1>1 DEF RInv, Base, Order
<1>3. AllDescribed' /\ Published' /\ Own' = Own /\ Describes(manifest, bucket, generation)'
  BY <1>1, <1>2, PutManifestS
<1>4. /\ Ids /\ Headed(Own, salt, wal) /\ wal_offset = End(manifest)
  BY <1>1 DEF SInv, ManagerOK, BeforeReset
<1>5. Ids' /\ Headed(Own, salt, wal)' /\ wal_offset' = End(manifest')
  BY <1>1, <1>3, <1>4 DEF Ids
<1> QED
  BY <1>1, <1>3, <1>5 DEF SInv, ManagerOK, BeforeReset, CompactOK, DoomedOK

\* compact deletes what no list names any more.
LEMMA CompactDeleteS ==
  ASSUME TypeOK, StepOK, RInv, SInv, CompactDelete("ok")
  PROVE  SInv' /\ Own' = Own
<1> DEFINE k == Head(todo)
<1>1. /\ running /\ step = "compact_delete" /\ step' \in {"compact_delete", "idle"}
      /\ DeleteObject("ok", k) /\ todo # <<>>
      /\ UNCHANGED <<generation, manifest, salt, wal_offset, wal, lastId>>
  BY DEF CompactDelete, Idle, StepOK, tracking, sqliteVars, sqliteFiles
<1>2. /\ ManagerOK /\ Ids /\ AllDescribed /\ Describes(manifest, bucket, generation)
      /\ Headed(Own, salt, wal) /\ Published /\ wal_offset = End(manifest)
  BY <1>1 DEF SInv, ManagerOK, Settled, BeforeReset
<1>3. Unlisted(k)
  <2>1. todo \in Seq(WalKeys)
    BY DEF TypeOK, CallTypeOK
  <2>2. 1 \in DOMAIN todo /\ k = todo[1]
    BY <1>1, <2>1
  <2> QED
    BY <1>1, <2>2 DEF RInv, Base, Order
<1>4. /\ DOMAIN bucket' = DOMAIN bucket \ {k}
      /\ \A x \in DOMAIN bucket : x # k => bucket'[x] = bucket[x]
  BY <1>1, DeleteRemoves
<1> HIDE DEF k
<1>5. /\ k[2] = generation /\ \A g : k # ManifestKey(g) /\ k # SnapshotKey(g)
      /\ \A n \in DOMAIN manifest : k # WalKey(generation, manifest[n].index)
  BY <1>3, KeysDiffer DEF Unlisted, ManifestKey, SnapshotKey
<1>6. \A g, j : k = WalKey(g, j) => g = generation
  BY <1>5, KeysDiffer
<1>7. \A n \in DOMAIN manifest :
         /\ WalKey(generation, manifest[n].index) \in DOMAIN bucket'
         /\ bucket'[WalKey(generation, manifest[n].index)]
              = bucket[WalKey(generation, manifest[n].index)]
  BY <1>2, <1>4, <1>5 DEF Describes
<1>8. /\ Describes(manifest, bucket', generation)
      /\ Joined(bucket', generation, manifest) = Joined(bucket, generation, manifest)
  BY <1>2, <1>7, JoinedSame
<1>9. AllDescribed'
  <2>1. ASSUME NEW g \in Generations, Stored(ManifestKey(g))'
        PROVE  /\ Stored(ManifestKey(g)) /\ bucket'[ManifestKey(g)] = bucket[ManifestKey(g)]
               /\ Stored(SnapshotKey(g)) => Stored(SnapshotKey(g))'
               /\ \A n \in DOMAIN bucket[ManifestKey(g)] :
                    LET x == WalKey(g, bucket[ManifestKey(g)][n].index)
                    IN /\ Stored(x) => Stored(x)'
                       /\ bucket'[x] = bucket[x]
    <3>1. Stored(ManifestKey(g)) /\ bucket'[ManifestKey(g)] = bucket[ManifestKey(g)]
      BY <1>4, <2>1 DEF Stored
    <3>2. Stored(SnapshotKey(g)) => Stored(SnapshotKey(g))'
      BY <1>4, <1>5 DEF Stored
    <3>3. \A n \in DOMAIN bucket[ManifestKey(g)] :
            WalKey(g, bucket[ManifestKey(g)][n].index) \in DOMAIN bucket
      BY <1>2, <3>1 DEF AllDescribed, Describes
    <3>4. \A n \in DOMAIN bucket[ManifestKey(g)] :
            k # WalKey(g, bucket[ManifestKey(g)][n].index)
      <4>1. CASE g = generation
        BY <1>2, <1>5, <4>1 DEF Published
      <4>2. CASE g # generation
        BY <1>6, <4>2
      <4> QED
        BY <4>1, <4>2
    <3> QED
      BY <1>4, <3>1, <3>2, <3>3, <3>4 DEF Stored
  <2> QED
    BY <1>2, <2>1, DescribedStill
<1>10. Own' = Own /\ Published' /\ Ids' /\ Describes(manifest, bucket, generation)'
  BY <1>1, <1>2, <1>4, <1>5, <1>8 DEF Own, Published, Ids, Stored
<1> QED
  BY <1>1, <1>2, <1>9, <1>10 DEF SInv, ManagerOK, BeforeReset, Settled, CompactOK, DoomedOK

-----------------------------------------------------------------------------
(* Retention. *)

\* enforce_retention chooses its generations.
LEMMA EnforceRetentionS ==
  ASSUME SInv, NEW cutoff, EnforceRetention(cutoff)
  PROVE  SInv' /\ Own' = Own
<1>1. /\ running /\ step = "idle" /\ step' = "retention_next"
      /\ UNCHANGED <<wal, lastId, bucket, generation, wal_offset, salt, manifest>>
  BY DEF EnforceRetention, Call, tracking, sqliteVars, sqliteFiles
<1>2. /\ ManagerOK /\ Ids /\ AllDescribed /\ Describes(manifest, bucket, generation)
      /\ Headed(Own, salt, wal) /\ Published /\ wal_offset = End(manifest)
  BY <1>1 DEF SInv, ManagerOK, Settled, BeforeReset
<1>3. Own' = Own /\ Published' /\ Ids' /\ AllDescribed'
  BY <1>1, <1>2, QuietAll DEF Own, Published, Ids, Stored
<1> QED
  BY <1>1, <1>2, <1>3 DEF SInv, ManagerOK, BeforeReset, Settled, CompactOK, DoomedOK

\* delete_generation lists all objects of one generation.
LEMMA RetentionNextS ==
  ASSUME TypeOK, StepOK, SInv, RetentionNext
  PROVE  SInv' /\ Own' = Own
<1>1. /\ running /\ step = "retention_next"
      /\ UNCHANGED <<wal, lastId, bucket, generation, wal_offset, salt, manifest>>
  BY DEF RetentionNext, StepOK, tracking, sqliteVars, sqliteFiles
<1>2. /\ ManagerOK /\ Ids /\ AllDescribed /\ Describes(manifest, bucket, generation)
      /\ Headed(Own, salt, wal) /\ Published /\ wal_offset = End(manifest)
  BY <1>1 DEF SInv, ManagerOK, Settled, BeforeReset
<1>3. Own' = Own /\ Published' /\ Ids' /\ AllDescribed'
  BY <1>1, <1>2, QuietAll DEF Own, Published, Ids, Stored
<1>4. ASSUME NEW g \in victims, doomed' = KeysOf(g), step' = "retention_delete"
      PROVE  SInv' /\ Own' = Own
  <2>1. g \in Generations
    BY DEF TypeOK, CallTypeOK
  <2>2. \A k \in doomed' : k[2] = g
    BY <1>4 DEF KeysOf
  <2>3. Stored(ManifestKey(g))' => ManifestKey(g) \in doomed'
    BY <1>1, <1>4, KeysDiffer DEF KeysOf, Stored
  <2>4. DoomedOK'
    BY <2>1, <2>2, <2>3 DEF DoomedOK
  <2> QED
    BY <1>1, <1>2, <1>3, <1>4, <2>4 DEF SInv, ManagerOK, BeforeReset, Settled, CompactOK
<1>5. CASE Idle
  BY <1>1, <1>5, QuietS DEF Idle, Settled, Own
<1> QED
  BY <1>4, <1>5 DEF RetentionNext

\* The manifest of a generation is the first of its objects to go.
LEMMA RetentionDeleteS ==
  ASSUME TypeOK, StepOK, RInv, SInv, RetentionDelete("ok")
  PROVE  SInv' /\ Own' = Own
<1>1. PICK k \in doomed :
        /\ \A x \in doomed : Before(k, x)
        /\ DeleteObject("ok", k)
        /\ \/ /\ doomed' = doomed \ {k}
              /\ step' \in {"retention_next", "retention_delete"}
           \/ step' = "idle"
  BY DEF RetentionDelete, Idle
<1>2. /\ running /\ step = "retention_delete"
      /\ UNCHANGED <<generation, manifest, salt, wal_offset, wal, lastId>>
  BY DEF RetentionDelete, StepOK, tracking, sqliteVars, sqliteFiles
<1>3. /\ ManagerOK /\ Ids /\ AllDescribed /\ Describes(manifest, bucket, generation)
      /\ Headed(Own, salt, wal) /\ Published /\ wal_offset = End(manifest) /\ DoomedOK
  BY <1>2 DEF SInv, ManagerOK, Settled, BeforeReset
<1>4. PICK g \in Generations : /\ \A x \in doomed : x[2] = g
                               /\ Stored(ManifestKey(g)) => ManifestKey(g) \in doomed
  BY <1>2, <1>3 DEF DoomedOK
<1>5. k[2] = g /\ g # generation /\ k \in Keys
  BY <1>1, <1>2, <1>4 DEF RInv, Base, Order, OfOther, TypeOK, CallTypeOK
<1>6. /\ DOMAIN bucket' = DOMAIN bucket \ {k}
      /\ \A x \in DOMAIN bucket : x # k => bucket'[x] = bucket[x]
  BY <1>1, DeleteRemoves
<1>7. ManifestKey(g) \notin DOMAIN bucket'
  <2> SUFFICES ASSUME Stored(ManifestKey(g)) PROVE k = ManifestKey(g)
    BY <1>6 DEF Stored
  <2>1. Rank(k) <= Rank(ManifestKey(g)) /\ Rank(ManifestKey(g)) = 0
    BY <1>1, <1>4 DEF Before, Rank, ManifestKey
  <2>2. g # 0
    BY DEF Generations
  <2>3. CASE k = LatestKey
    BY <1>5, <2>2, <2>3, KeysDiffer
  <2>4. ASSUME NEW h, k = SnapshotKey(h) PROVE FALSE
    <3>1. Rank(k) = 1
      BY <2>4 DEF Rank, SnapshotKey
    <3> QED
      BY <2>1, <3>1
  <2>5. ASSUME NEW h, NEW j \in Indexes, k = WalKey(h, j) PROVE FALSE
    <3>1. Rank(k) = 2 + j /\ j \in Nat
      BY <2>5, KeysAssumption DEF Rank, WalKey, Indexes
    <3> QED
      BY <2>1, <3>1
  <2>6. ASSUME NEW h, k = ManifestKey(h) PROVE k = ManifestKey(g)
    BY <1>5, <2>6, KeysDiffer
  <2> QED
    BY <1>5, <2>3, <2>4, <2>5, <2>6 DEF Keys, WalKeys
<1>8. \A h, j : h # g => k # ManifestKey(h) /\ k # SnapshotKey(h) /\ k # WalKey(h, j)
  BY <1>5, KeysDiffer
<1>9. AllDescribed'
  <2>1. ASSUME NEW h \in Generations, Stored(ManifestKey(h))'
        PROVE  /\ Stored(ManifestKey(h)) /\ bucket'[ManifestKey(h)] = bucket[ManifestKey(h)]
               /\ Stored(SnapshotKey(h)) => Stored(SnapshotKey(h))'
               /\ \A n \in DOMAIN bucket[ManifestKey(h)] :
                    LET x == WalKey(h, bucket[ManifestKey(h)][n].index)
                    IN /\ Stored(x) => Stored(x)'
                       /\ bucket'[x] = bucket[x]
    <3>1. h # g
      BY <1>7, <2>1 DEF Stored
    <3>2. Stored(ManifestKey(h)) /\ bucket'[ManifestKey(h)] = bucket[ManifestKey(h)]
      BY <1>6, <2>1 DEF Stored
    <3>3. Stored(SnapshotKey(h)) => Stored(SnapshotKey(h))'
      BY <1>6, <1>8, <3>1 DEF Stored
    <3>4. \A n \in DOMAIN bucket[ManifestKey(h)] :
            WalKey(h, bucket[ManifestKey(h)][n].index) \in DOMAIN bucket
      BY <1>3, <3>2 DEF AllDescribed, Describes
    <3> QED
      BY <1>6, <1>8, <3>1, <3>2, <3>3, <3>4 DEF Stored
  <2> QED
    BY <1>3, <2>1, DescribedStill
<1>10. \A n \in DOMAIN manifest :
         /\ WalKey(generation, manifest[n].index) \in DOMAIN bucket'
         /\ bucket'[WalKey(generation, manifest[n].index)]
              = bucket[WalKey(generation, manifest[n].index)]
  BY <1>3, <1>5, <1>6, <1>8 DEF Describes
<1>11. /\ Describes(manifest, bucket', generation)
       /\ Joined(bucket', generation, manifest) = Joined(bucket, generation, manifest)
  BY <1>3, <1>10, JoinedSame
<1>12. Own' = Own /\ Published' /\ Ids' /\ Describes(manifest, bucket, generation)'
  BY <1>2, <1>3, <1>5, <1>6, <1>8, <1>11 DEF Own, Published, Ids, Stored
<1>13. DoomedOK'
  <2> SUFFICES ASSUME step' = "retention_delete" PROVE DoomedOK'
    BY DEF DoomedOK
  <2>1. \A x \in doomed' : x[2] = g
    BY <1>1, <1>4
  <2> QED
    BY <1>7, <2>1 DEF DoomedOK, Stored
<1> QED
  BY <1>1, <1>2, <1>3, <1>9, <1>12, <1>13 DEF SInv, ManagerOK, BeforeReset, Settled, CompactOK

-----------------------------------------------------------------------------
(* Every step. *)

\* new begins a generation, and knows no salt.
LEMMA NewS ==
  ASSUME TypeOK, SInv, New
  PROVE  SInv'
<1>1. /\ NewGeneration /\ step' = "read_db" /\ salt' = 0
      /\ UNCHANGED <<bucket, wal, lastId>>
  BY DEF New, EnterSnapshot, ResetWalTracking, NoSalt, sqliteFiles
<1>2. Ids /\ lastId \in Nat
  BY DEF SInv, TypeOK, SqliteTypeOK
<1>3. Ids'
  BY <1>1, <1>2 DEF Ids
<1> QED
  BY <1>1, <1>3, NewGenerationS

\* Every step of the system preserves the invariant.
LEMMA SNext ==
  ASSUME NoFailures, TypeOK, TypeOK', StepOK, RInv, SInv, [Next]_vars
  PROVE  SInv'
<1>1. CASE AppStep
  BY <1>1, AppStepS
<1>2. CASE New
  BY <1>2, NewS
<1>3. CASE Sync
  BY <1>3, OnlyOk, SyncWalS, PutSegmentS, PutSegmentManifestS DEF Sync
<1>4. CASE CheckpointWal
  BY <1>4, CheckpointWalS
<1>5. CASE TakeSnapshot
  BY <1>5, OnlyOk, SnapshotS, PutSnapshotS, PutLatestS, PutSnapshotManifestS DEF TakeSnapshot
<1>6. CASE Compaction
  BY <1>6, OnlyOk, CompactS, CompactGetS, CompactPutS, CompactManifestS, CompactDeleteS
     DEF Compaction
<1>7. CASE Retention
  BY <1>7, OnlyOk, EnforceRetentionS, RetentionNextS, RetentionDeleteS DEF Retention
<1>8. CASE Drop
  BY <1>8, GoneS DEF Drop, sqliteFiles
<1>9. CASE Crash
  BY <1>9, GoneS DEF Crash, SqliteCrash
<1>10. CASE UNCHANGED vars
  <2>1. UNCHANGED <<wal, lastId, bucket, running, generation, wal_offset, salt, manifest, step,
                    data, newSegments, keys, todo, doomed>>
    BY <1>10 DEF vars, sqliteVars, sqliteFiles, tracking, call, locals, syncLocals, compactLocals,
                 retentionLocals
  <2>2. /\ Own' = Own /\ (Published => Published') /\ (DoomedOK => DoomedOK')
        /\ (AllDescribed => AllDescribed') /\ (Ids => Ids')
    BY <2>1, QuietAll DEF Own, Published, Stored, DoomedOK, Ids
  <2>3. CompactOK => CompactOK'
    BY <2>1, <2>2 DEF CompactOK, Fetched, CompactOffset, Stored
  <2> QED
    BY <2>1, <2>2, <2>3 DEF SInv, ManagerOK
<1> QED
  BY <1>1, <1>2, <1>3, <1>4, <1>5, <1>6, <1>7, <1>8, <1>9, <1>10 DEF Next, Manager

\* The invariant holds before the first backup.
LEMMA SInit == Init => SInv
<1> SUFFICES ASSUME Init PROVE SInv
  OBVIOUS
<1>1. /\ wal = <<>> /\ salt = 0 /\ lastId = 0 /\ bucket = <<>> /\ ~running
  BY DEF Init, SqliteInit, NoSalt
<1>2. AllDescribed
  BY <1>1 DEF AllDescribed, Stored
<1> QED
  BY <1>1, <1>2 DEF SInv, Ids

-----------------------------------------------------------------------------
(* What a restore gives. *)

\* With a manifest, a restore concatenates what the manifest lists.
LEMMA RestoredIs ==
  ASSUME NEW g, Stored(ManifestKey(g))
  PROVE  RestoredWal(g) = Joined(bucket, g, bucket[ManifestKey(g)])
  BY DEF RestoredWal, SegmentIndexes, Joined, Parts

\* The same after a step.
LEMMA RestoredIsNext ==
  ASSUME NEW g, Stored(ManifestKey(g))'
  PROVE  RestoredWal(g)' = Joined(bucket', g, bucket'[ManifestKey(g)])
  BY DEF RestoredWal, SegmentIndexes, Joined, Parts, Stored

\* From a snapshot to the next the latest backup is that of the manager, and a
\* restore gives its snapshot and what its segments hold.
LEMMA OwnIsRestored ==
  ASSUME RInv, SInv, running, step \in Settled \cup {"compact_manifest"}
  PROVE  /\ Stored(LatestKey) /\ Latest = generation /\ Stored(ManifestKey(generation))
         /\ RestoredWal(generation) = Own
<1>1. Current
  BY DEF RInv, Base, Order, Settled
<1>2. Stored(ManifestKey(generation))
      /\ Joined(bucket, generation, bucket[ManifestKey(generation)]) = Own
  BY DEF SInv, ManagerOK, CompactOK, Published, Own
<1> QED
  BY <1>1, <1>2, RestoredIs DEF Current

\* The same after a step.
LEMMA OwnIsRestoredNext ==
  ASSUME RInv', SInv', running', step' \in Settled \cup {"compact_manifest"}
  PROVE  /\ Stored(LatestKey)' /\ Latest' = generation' /\ Stored(ManifestKey(generation))'
         /\ RestoredWal(generation)' = Own'
<1>1. Current'
  BY DEF RInv, Base, Order, Settled
<1>2. Stored(ManifestKey(generation))'
      /\ Joined(bucket', generation', bucket'[ManifestKey(generation')]) = Own'
  BY DEF SInv, ManagerOK, CompactOK, Published, Own
<1> QED
  BY <1>1, <1>2, RestoredIsNext DEF Current

\* compact and enforce_retention leave the snapshot of the manager alone.
LEMMA SnapshotUntouched ==
  ASSUME NoFailures, TypeOK, StepOK, RInv, Compaction \/ Retention,
         Stored(SnapshotKey(generation))
  PROVE  /\ running /\ running' /\ generation' = generation
         /\ step \in Settled \cup {"compact_manifest"}
         /\ step' \in Settled \cup {"compact_manifest"}
         /\ bucket'[SnapshotKey(generation)] = bucket[SnapshotKey(generation)]
<1> DEFINE k == SnapshotKey(generation)
           Steps2 == Settled \cup {"compact_manifest"}
           Fine == /\ running /\ running' /\ generation' = generation
                   /\ step \in Steps2 /\ step' \in Steps2 /\ bucket'[k] = bucket[k]
<1>1. ASSUME NEW size, Compact(size) PROVE Fine
  BY <1>1 DEF Compact, Call, tracking, Settled
<1>2. CASE CompactGet
  <2>1. step' \in {"compact_get", "compact_put", "idle"}
    BY <1>2 DEF CompactGet, Idle
  <2> QED
    BY <1>2, <2>1 DEF CompactGet, StepOK, tracking, Settled
<1>3. CASE CompactPut("ok")
  <2>1. /\ step = "compact_put" /\ step' \in {"compact_put", "compact_manifest"}
        /\ running /\ UNCHANGED <<running, generation>>
        /\ PutObject("ok", WalKey(generation, CompactIndex),
                     SubSeq(data, CompactOffset + 1, CompactEnd))
    BY <1>3 DEF CompactPut, StepOK
  <2>2. k # WalKey(generation, CompactIndex)
    BY KeysDiffer
  <2> QED
    BY <2>1, <2>2, PutStores DEF Settled, Stored
<1>4. CASE CompactManifest("ok")
  <2>1. /\ step = "compact_manifest" /\ step' = "compact_delete"
        /\ running /\ UNCHANGED <<running, generation>>
        /\ PutObject("ok", ManifestKey(generation), manifest)
    BY <1>4 DEF CompactManifest, StepOK
  <2>2. k # ManifestKey(generation)
    BY KeysDiffer
  <2> QED
    BY <2>1, <2>2, PutStores DEF Settled, Stored
<1>5. CASE CompactDelete("ok")
  <2>1. /\ step = "compact_delete" /\ step' \in {"compact_delete", "idle"}
        /\ running /\ UNCHANGED <<running, generation>> /\ todo # <<>>
        /\ DeleteObject("ok", Head(todo))
    BY <1>5 DEF CompactDelete, StepOK, Idle, tracking
  <2>2. todo \in Seq(WalKeys) /\ 1 \in DOMAIN todo /\ Head(todo) = todo[1]
    BY <2>1 DEF TypeOK, CallTypeOK
  <2>3. Unlisted(Head(todo))
    BY <2>1, <2>2 DEF RInv, Base, Order
  <2>4. k # Head(todo)
    BY <2>3 DEF Unlisted, SnapshotKey
  <2> QED
    BY <2>1, <2>4, DeleteRemoves DEF Settled, Stored
<1>6. ASSUME NEW cutoff, EnforceRetention(cutoff) PROVE Fine
  BY <1>6 DEF EnforceRetention, Call, tracking, Settled
<1>7. CASE RetentionNext
  BY <1>7 DEF RetentionNext, Idle, StepOK, tracking, Settled
<1>8. CASE RetentionDelete("ok")
  <2>1. PICK x \in doomed :
          /\ DeleteObject("ok", x)
          /\ step' \in {"retention_next", "retention_delete", "idle"}
    BY <1>8 DEF RetentionDelete, Idle
  <2>2. step = "retention_delete" /\ running /\ UNCHANGED <<running, generation>>
    BY <1>8 DEF RetentionDelete, StepOK, tracking
  <2>3. k # x
    BY <2>2, KeysDiffer DEF RInv, Base, Order, OfOther
  <2> QED
    BY <2>1, <2>2, <2>3, DeleteRemoves DEF Settled, Stored
<1> QED
  BY <1>1, <1>2, <1>3, <1>4, <1>5, <1>6, <1>7, <1>8, OnlyOk DEF Compaction, Retention

\* compact and enforce_retention change nothing of what the segments hold together.
LEMMA OwnKept ==
  ASSUME NoFailures, TypeOK, TypeOK', StepOK, RInv, SInv, Compaction \/ Retention
  PROVE  Own' = Own
<1>1. CASE Compaction
  BY <1>1, OnlyOk, CompactS, CompactGetS, CompactPutS, CompactManifestS, CompactDeleteS
     DEF Compaction
<1>2. CASE Retention
  BY <1>2, OnlyOk, EnforceRetentionS, RetentionNextS, RetentionDeleteS DEF Retention
<1> QED
  BY <1>1, <1>2

\* So a restore gives what it gave.
LEMMA CompactionGives ==
  ASSUME NoFailures, TypeOK, TypeOK', StepOK, RInv, RInv', SInv, SInv', Compaction \/ Retention
  PROVE  RestoreLatest' = RestoreLatest
<1>1. running /\ step \in Settled \cup {"compact_manifest"}
  <2>1. step \in {"idle", "compact_get", "compact_put", "compact_manifest", "compact_delete",
                  "retention_next", "retention_delete"}
    BY DEF Compaction, Retention, Compact, CompactGet, CompactPut, CompactManifest, CompactDelete,
           EnforceRetention, RetentionNext, RetentionDelete, Call
  <2>2. step = "idle" => running
    BY DEF Compaction, Retention, Compact, CompactGet, CompactPut, CompactManifest, CompactDelete,
           EnforceRetention, RetentionNext, RetentionDelete, Call
  <2> QED
    BY <2>1, <2>2 DEF StepOK, Settled
<1>2. /\ Stored(LatestKey) /\ Latest = generation /\ RestoredWal(generation) = Own
  BY <1>1, OwnIsRestored
<1>3. Stored(SnapshotKey(generation))
  BY <1>2 DEF RInv, Base, LatestIsRestorable, Restorable
<1>4. /\ running' /\ generation' = generation /\ step' \in Settled \cup {"compact_manifest"}
      /\ bucket'[SnapshotKey(generation)] = bucket[SnapshotKey(generation)]
  BY <1>3, SnapshotUntouched
<1>5. /\ Stored(LatestKey)' /\ Latest' = generation' /\ RestoredWal(generation)' = Own'
  BY <1>4, OwnIsRestoredNext
<1>6. Own' = Own
  BY OwnKept
<1>7. RestoreLatest = bucket[SnapshotKey(generation)] \cup Replay(Own)
  BY <1>2 DEF RestoreLatest, Restored, Latest
<1>8. RestoreLatest' = bucket'[SnapshotKey(generation')] \cup Replay(Own')
  <2>1. bucket'[LatestKey] = generation' /\ Stored(LatestKey)'
    BY <1>5 DEF Latest
  <2>2. RestoreLatest' = bucket'[SnapshotKey(generation)] \cup Replay(RestoredWal(generation)')
    BY <1>4, <2>1 DEF RestoreLatest, Restored
  <2> QED
    BY <1>4, <1>5, <2>2
<1> QED
  BY <1>4, <1>6, <1>7, <1>8

\* sync_wal cuts a segment of a WAL that has the header of the segments before.
LEMMA SegmentsOfOne ==
  ASSUME NoFailures, TypeOK, StepOK, RInv, SInv, Next, step # "put_segment", step' = "put_segment",
         Stored(ManifestKey(generation)), RestoredWal(generation) # <<>>
  PROVE  RestoredWal(generation)[1] = wal[1]
<1>1. PICK c : SyncWal(c)
  <2>1. CASE AppStep
    BY <2>1 DEF AppStep, call
  <2>2. CASE New \/ CheckpointWal
    BY <2>2 DEF New, CheckpointWal, EnterSnapshot, Idle
  <2>3. CASE Sync
    BY <2>3, SyncReturnStep DEF Sync, PutSegment, PutSegmentManifest
  <2>4. CASE TakeSnapshot
    BY <2>4, OnlyOk, SnapshotReturnStep
       DEF TakeSnapshot, Snapshot, EnterSnapshot, ReadDb, PutSnapshot, PutLatest,
           PutSnapshotManifest
  <2>5. CASE Compaction
    BY <2>5 DEF Compaction, Compact, CompactGet, CompactPut, CompactManifest, CompactDelete, Idle
  <2>6. CASE Retention
    BY <2>6 DEF Retention, EnforceRetention, RetentionNext, RetentionDelete, Idle
  <2>7. CASE Drop \/ Crash
    BY <2>7 DEF Drop, Crash, Gone, Idle
  <2> QED
    BY <2>1, <2>2, <2>3, <2>4, <2>5, <2>6, <2>7 DEF Next, Manager
<1>2. running /\ step = "idle"
  BY <1>1 DEF SyncWal, Call
<1>3. RestoredWal(generation) = Own
  BY <1>2, OwnIsRestored DEF Settled
<1>4. Headed(Own, salt, wal)
  BY <1>2 DEF SInv, ManagerOK, BeforeReset
<1>5. Len(wal) > 1 /\ ~WalNeedsRecovery
  BY <1>1, SyncReturnStep DEF SyncWal, Recover, EnterSnapshot
<1>6. wal # <<>>
  BY <1>5 DEF TypeOK, SqliteTypeOK
<1> QED
  BY <1>3, <1>4, <1>5, <1>6 DEF Headed, WalNeedsRecovery

-----------------------------------------------------------------------------
(* The read transaction. *)

SnapshotSteps == BeforeReset \cup {"put_snapshot_manifest"}

\* It is released on the way to a checkpoint of the WAL or in a recovery only.
PinOK ==
  /\ recovering => step \in SnapshotSteps /\ api \notin {"new", "snapshot"}
  /\ step = "wal_checkpoint" => api = "checkpoint"
  /\ ~shutdown_complete /\ readMark["waloy"] = NoRead =>
       \/ step = "wal_checkpoint"
       \/ step \in SnapshotSteps /\ (recovering \/ api = "checkpoint")

PInv == running => PinOK

\* A mark of SQLite is not that of a connection without a transaction.
LEMMA MarksPinned ==
  ASSUME NoFailures, TypeOK, NEW mark \in MarksAfterBegin
  PROVE  mark # NoRead
  BY OnlyOk DEF MarksAfterBegin, NewMark, NoRead, TypeOK, SqliteTypeOK

\* What Pin sets.
LEMMA PinReads ==
  ASSUME TypeOK, NEW mark, Pin(mark)
  PROVE  readMark'["waloy"] = mark
  BY DEF Pin, TypeOK, SqliteTypeOK, Connections

\* A sync returns with a pin, or shut down, or to checkpoint the WAL.
LEMMA SyncReturnPin ==
  ASSUME TypeOK, NEW c, NEW mark, SyncReturn(c, "ok", mark),
         ~shutdown_complete => mark # NoRead
  PROVE  PinOK'
<1>1. CASE c = "sync_wal" /\ Pin(mark) /\ Idle /\ UNCHANGED shutdown_complete
  BY <1>1, PinReads DEF PinOK, Idle, ClearLocals
<1>2. CASE Pin(NoRead) /\ Idle /\ shutdown_complete' = TRUE
  BY <1>2 DEF PinOK, Idle, ClearLocals
<1>3. CASE step' = "wal_checkpoint" /\ api' = "checkpoint" /\ ClearLocals
  BY <1>3 DEF PinOK, ClearLocals
<1> QED
  BY <1>1, <1>2, <1>3 DEF SyncReturn

\* After a snapshot the pin is held again, or the call goes on without one.
LEMMA SnapshotReturnPin ==
  ASSUME NoFailures, TypeOK, PinOK, step \in SnapshotSteps, SnapshotReturn("ok")
  PROVE  PinOK'
<1>1. CASE /\ api = "snapshot" \/ api = "new"
           /\ Idle /\ UNCHANGED <<readMark, shutdown_complete>>
  BY <1>1 DEF PinOK, Idle, ClearLocals, SnapshotSteps, BeforeReset
<1>2. ASSUME NEW mark \in MarksAfterBegin, SyncReturn(api, IF mark = NoRead THEN "err" ELSE "ok", mark)
      PROVE  PinOK'
  BY <1>2, MarksPinned, SyncReturnPin
<1>3. ASSUME NEW mark \in MarksAfterBegin, Pin(mark), Idle
      PROVE  PinOK'
  BY <1>3, MarksPinned, PinReads DEF PinOK, Idle, ClearLocals
<1> QED
  BY <1>1, <1>2, <1>3 DEF SnapshotReturn

\* Where no snapshot is under way nothing is recovered and the pin is held.
LEMMA PinHeld ==
  ASSUME PinOK, step \notin SnapshotSteps \cup {"wal_checkpoint"},
         step' # "wal_checkpoint", ~recovering', UNCHANGED <<readMark, shutdown_complete>>
  PROVE  PinOK'
  BY DEF PinOK

\* No other connection touches it.
LEMMA AppPin ==
  ASSUME TypeOK, App
  PROVE  readMark'["waloy"] = readMark["waloy"]
  BY DEF App, AppAppend, AppRestartWal, AppRewriteHeader, WriteFrame, AppRollback, AppReadBegin,
         AppReadEnd, AppCheckpoint, TypeOK, SqliteTypeOK, Connections

\* Every step keeps the pin, or releases it where it may.
LEMMA PNext ==
  ASSUME NoFailures, TypeOK, StepOK, PInv, [Next]_vars
  PROVE  PInv'
<1>1. CASE AppStep
  BY <1>1, AppPin DEF AppStep, PInv, PinOK, call, locals, snapshotLocals
<1>2. CASE New
  <2>1. NewMark # NoRead
    BY DEF NewMark, NoRead, TypeOK, SqliteTypeOK
  <2> QED
    BY <1>2, <2>1, PinReads DEF New, EnterSnapshot, PInv, PinOK
<1>3. ASSUME NEW c, SyncWal(c) PROVE PInv'
  <2>1. running /\ step = "idle"
    BY <1>3 DEF SyncWal, Call
  <2>2. PinOK
    BY <2>1 DEF PInv
  <2>3. ~shutdown_complete => readMark["waloy"] # NoRead
    BY <2>1, <2>2 DEF PinOK, SnapshotSteps, BeforeReset
  <2>4. ~recovering
    BY <2>1, <2>2 DEF PinOK, SnapshotSteps, BeforeReset
  <2>5. CASE SyncReturn(c, "ok", readMark["waloy"])
    BY <2>3, <2>5, SyncReturnPin DEF PInv
  <2>6. CASE Recover(c)
    BY <1>3, <2>6 DEF SyncWal, Recover, EnterSnapshot, PInv, PinOK, SnapshotSteps, BeforeReset
  <2>7. CASE step' = "put_segment" /\ UNCHANGED <<readMark, shutdown_complete, snapshotLocals>>
    BY <2>1, <2>2, <2>4, <2>7, PinHeld DEF PInv, snapshotLocals, SnapshotSteps, BeforeReset
  <2> QED
    BY <1>3, <2>5, <2>6, <2>7, OnlyOk DEF SyncWal, ReadNewFrames
<1>4. CASE PutSegment("ok")
  BY <1>4, PinHeld
     DEF PutSegment, StepOK, PInv, locals, snapshotLocals, SnapshotSteps, BeforeReset, PinOK
<1>5. CASE PutSegmentManifest("ok")
  <2>1. running /\ step = "put_segment_manifest" /\ SyncReturn(api, "ok", readMark["waloy"])
    BY <1>5 DEF PutSegmentManifest, StepOK
  <2>2. ~shutdown_complete => readMark["waloy"] # NoRead
    BY <2>1 DEF PInv, PinOK, SnapshotSteps, BeforeReset
  <2> QED
    BY <2>1, <2>2, SyncReturnPin DEF PInv
<1>6. CASE CheckpointWal
  <2>1. running /\ step = "wal_checkpoint" /\ step' = "read_db" /\ api' = api /\ ~recovering'
    BY <1>6, OnlyOk DEF CheckpointWal, EnterSnapshot, StepOK
  <2> QED
    BY <2>1 DEF PInv, PinOK, SnapshotSteps, BeforeReset
<1>7. CASE Snapshot
  <2>1. /\ running /\ step = "idle" /\ step' = "read_db" /\ ~recovering'
        /\ UNCHANGED <<readMark, shutdown_complete>>
    BY <1>7 DEF Snapshot, Call, EnterSnapshot, sqliteVars
  <2> QED
    BY <2>1, PinHeld DEF PInv, SnapshotSteps, BeforeReset
<1>8. CASE ReadDb("ok") \/ PutSnapshot("ok") \/ PutLatest("ok")
  <2>1. /\ running /\ step \in SnapshotSteps /\ step' \in SnapshotSteps
        /\ UNCHANGED <<readMark, shutdown_complete, api, recovering>>
    BY <1>8 DEF ReadDb, PutSnapshot, PutLatest, StepOK, locals, snapshotLocals, SnapshotSteps,
                BeforeReset
  <2> QED
    BY <2>1 DEF PInv, PinOK, SnapshotSteps, BeforeReset
<1>9. CASE PutSnapshotManifest("ok")
  BY <1>9, SnapshotReturnPin DEF PutSnapshotManifest, StepOK, PInv, SnapshotSteps
<1>10. CASE Compaction \/ Retention
  <2>1. step \in {"idle", "compact_get", "compact_put", "compact_manifest", "compact_delete",
                  "retention_next", "retention_delete"}
    BY <1>10 DEF Compaction, Retention, Compact, CompactGet, CompactPut, CompactManifest,
                 CompactDelete, EnforceRetention, RetentionNext, RetentionDelete, Call
  <2>2. step' \in {"idle", "compact_get", "compact_put", "compact_manifest", "compact_delete",
                   "retention_next", "retention_delete"}
    BY <1>10 DEF Compaction, Retention, Compact, CompactGet, CompactPut, CompactManifest,
                 CompactDelete, EnforceRetention, RetentionNext, RetentionDelete, Idle
  <2>3. running /\ UNCHANGED <<readMark, shutdown_complete>>
    BY <1>10 DEF Compaction, Retention, Compact, CompactGet, CompactPut, CompactManifest,
                 CompactDelete, EnforceRetention, RetentionNext, RetentionDelete, Call, StepOK,
                 sqliteVars
  <2>4. recovering' = recovering \/ ~recovering'
    BY <1>10 DEF Compaction, Retention, Compact, CompactGet, CompactPut, CompactManifest,
                 CompactDelete, EnforceRetention, RetentionNext, RetentionDelete, Idle,
                 ClearLocals, snapshotLocals
  <2> QED
    BY <2>1, <2>2, <2>3, <2>4, PinHeld DEF PInv, PinOK, SnapshotSteps, BeforeReset
<1>11. CASE Drop \/ Crash
  BY <1>11 DEF Drop, Crash, Gone, PInv
<1>12. CASE UNCHANGED vars
  BY <1>12 DEF vars, sqliteVars, call, locals, snapshotLocals, PInv, PinOK
<1> QED
  BY <1>1, <1>2, <1>3, <1>4, <1>5, <1>6, <1>7, <1>8, <1>9, <1>10, <1>11, <1>12, OnlyOk
     DEF Next, Manager, Sync, TakeSnapshot

-----------------------------------------------------------------------------
(* The theorems. *)

\* The invariant of the system without failures.
LEMMA AlwaysSInv ==
  ASSUME NoFailures
  PROVE  Spec => [](TypeOK /\ StepOK /\ RInv /\ SInv /\ PInv)
<1> DEFINE Inv == TypeOK /\ StepOK /\ RInv /\ SInv /\ PInv
<1>1. Init => Inv
  <2>1. Init => RInv
    BY DEF Init, RInv, Base, Fresh, LatestIsRestorable, Stored
  <2>2. Init => PInv
    BY DEF Init, PInv
  <2> QED
    BY <2>1, <2>2, InitInv, SInit
<1>2. Inv /\ [Next]_vars => Inv'
  <2> SUFFICES ASSUME Inv, [Next]_vars PROVE Inv'
    OBVIOUS
  <2>1. TypeOK' /\ StepOK'
    BY NextInv
  <2> QED
    BY <2>1, RNext, SNext, PNext
<1> QED
  BY <1>1, <1>2, PTL DEF Spec

\* If no upload fails, no call is cancelled and the process may end at any moment,
\* every stored manifest lists segments that follow one another from the first
\* block on, are stored, and are as long as it says: compact publishes its list
\* between the uploads and the deletions it speaks of, and retention deletes the
\* list of a generation first.
THEOREM SegmentsDescribed ==
  ASSUME NoFailures
  PROVE  Spec => []ManifestDescribesSegments
<1>1. SInv => ManifestDescribesSegments
  BY DEF SInv, AllDescribed, Describes, ManifestDescribesSegments, Stored
<1> QED
  BY <1>1, AlwaysSInv, PTL

\* Whatever compact and enforce_retention have uploaded or deleted so far, a
\* restore gives what it gave before.
THEOREM CompactionKeepsTheBackup ==
  ASSUME NoFailures
  PROVE  Spec => CompactionPreserves
<1> DEFINE Inv == TypeOK /\ StepOK /\ RInv /\ SInv /\ PInv
<1>1. Inv /\ Inv' /\ [Next]_vars => [Compaction \/ Retention => RestoreLatest' = RestoreLatest]_vars
  BY CompactionGives
<1> QED
  BY <1>1, AlwaysSInv, PTL DEF Spec, CompactionPreserves

\* sync_wal never adds blocks of a WAL that was restarted or truncated to the
\* segments of the one before.
THEOREM OneWalPerGeneration ==
  ASSUME NoFailures
  PROVE  Spec => SegmentsOfOneWal
<1> DEFINE Inv == TypeOK /\ StepOK /\ RInv /\ SInv /\ PInv
<1>1. Inv /\ [Next]_vars =>
        [/\ step # "put_segment" /\ step' = "put_segment"
         /\ Stored(ManifestKey(generation)) /\ RestoredWal(generation) # <<>>
         => RestoredWal(generation)[1] = wal[1]]_vars
  BY SegmentsOfOne
<1> QED
  BY <1>1, AlwaysSInv, PTL DEF Spec, SegmentsOfOneWal

\* Between calls the manager holds its read transaction until shutdown, also when
\* a sync has had to recover and when an application restarts the WAL meanwhile.
THEOREM AlwaysPinned ==
  ASSUME NoFailures
  PROVE  Spec => []WalPinned
<1>1. PInv => WalPinned
  BY DEF PInv, PinOK, WalPinned, SnapshotSteps, BeforeReset
<1> QED
  BY <1>1, AlwaysSInv, PTL

-----------------------------------------------------------------------------
(* Beside restores. *)

\* A restore changes nothing of what a manager works with.
LEMMA RestoringReads ==
  ASSUME [RestoreNext]_allVars
  PROVE  [Next]_vars
<1>1. CASE Beside
  BY <1>1 DEF Beside, Next
<1>2. CASE Restoring
  BY <1>2 DEF Restoring, BeginRestore, BeginRestoreToTime, AutoRestore, AutoRestoreSkipped, MayCall,
              Interrupted, SnapshotCutShort, WalCutShort, CutShort, Ends, Failed, GetLatest,
              GetSnapshot, GetManifest, ListWal, GetSegment,
              ReplayWal, ListManifests, ReadManifest, ChooseGeneration, Goes, GetFailed,
              managerVars
<1>3. CASE Remember
  BY <1>3 DEF Remember
<1>4. CASE UNCHANGED allVars
  BY <1>4 DEF allVars, managerVars
<1> QED
  BY <1>1, <1>2, <1>3, <1>4 DEF RestoreNext

\* Managers with restores beside them do what they do without: what holds of all
\* backups holds of these.
THEOREM RestoresBesideBackups == RestoreSpec => Spec
<1>1. RestoreInit => Init
  BY DEF RestoreInit
<1> QED
  BY <1>1, RestoringReads, PTL DEF RestoreSpec, Spec

\* Beside restores of every kind: each generation with a manifest can be restored,
\* so that a point in time never leads to one whose objects are missing.
THEOREM PointInTimeRestorable ==
  ASSUME NoFailures
  PROVE  RestoreSpec => []ManifestsAreRestorable
<1>1. SInv => ManifestsAreRestorable
  BY DEF SInv, AllDescribed, Describes, ManifestsAreRestorable, Restorable, SegmentsStored, Stored
<1> QED
  BY <1>1, AlwaysSInv, RestoresBesideBackups, PTL
================================================================================
