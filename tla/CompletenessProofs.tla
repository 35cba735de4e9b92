---------------------------- MODULE CompletenessProofs ----------------------------
(***************************************************************************)
(* What a restore beside the manager gives at least: the latest backup as  *)
(* it was at some moment while the restore ran, and a point in time as it  *)
(* could have been restored then, although the manager uploads, compacts   *)
(* and deletes between two downloads.                                      *)
(***************************************************************************)
EXTENDS RestoreProofs

-----------------------------------------------------------------------------
(* A restore of the latest backup is no older than the moment it began. *)

\* Segments are deleted, and objects of generations that are not the latest.
LEMMA Deletions ==
  ASSUME NoFailures, TypeOK, StepOK, RInv, [Next]_vars,
         NEW x \in DOMAIN bucket, x \notin DOMAIN bucket'
  PROVE  Current /\ (x[1] = "wal" \/ OfOther(x))
<1>0. Outcomes = {"ok"} /\ IoOutcomes = {"ok"} /\ "io_error" \notin Env
  BY OnlyOk
<1>1. ~UNCHANGED bucket
  OBVIOUS
<1>2. ASSUME NEW o, NEW k, NEW v, PutObject(o, k, v) PROVE FALSE
  BY <1>1, <1>2 DEF PutObject
<1>3. ASSUME NEW o, NEW k, DeleteObject(o, k) PROVE x = k
  BY <1>1, <1>3 DEF DeleteObject
<1>4. UNCHANGED bucket \/ \E o : \/ PutSegment(o) \/ PutSegmentManifest(o) \/ PutSnapshotManifest(o)
                                  \/ CompactManifest(o) \/ CompactPut(o) \/ PutSnapshot(o) \/ PutLatest(o)
                                  \/ CompactDelete(o) \/ RetentionDelete(o)
  BY <1>0 DEF Next, AppStep, Manager, Sync, TakeSnapshot, Compaction, Retention, New, SyncWal,
         CheckpointWal, Snapshot, ReadDb, Compact, CompactGet, EnforceRetention, RetentionNext,
         Drop, Crash, vars
<1>5. PICK o : CompactDelete(o) \/ RetentionDelete(o)
  BY <1>1, <1>2, <1>4 DEF PutSegment, PutSegmentManifest, PutSnapshotManifest, CompactManifest,
                          CompactPut, PutSnapshot, PutLatest
<1>6. CASE CompactDelete(o)
  <2>1. x = Head(todo) /\ step = "compact_delete"
    BY <1>3, <1>6 DEF CompactDelete
  <2>2. running /\ todo # <<>> /\ todo \in Seq(WalKeys)
    BY <2>1 DEF StepOK, TypeOK, CallTypeOK
  <2>3. 1 \in DOMAIN todo /\ Head(todo) = todo[1]
    BY <2>2
  <2>4. Current /\ \A n \in DOMAIN todo : Unlisted(todo[n])
    BY <2>1, <2>2 DEF RInv, Order
  <2> QED
    BY <2>1, <2>3, <2>4 DEF Unlisted
<1>7. CASE RetentionDelete(o)
  <2>1. x \in doomed /\ step = "retention_delete"
    BY <1>3, <1>7 DEF RetentionDelete
  <2>2. running
    BY <2>1 DEF StepOK
  <2> QED
    BY <2>1, <2>2 DEF RInv, Order
<1> QED
  BY <1>5, <1>6, <1>7

\* `latest` stays, and moves forward.
LEMMA LatestStep ==
  ASSUME NoFailures, TypeOK, StepOK, RInv, SnapshotsClosed, Stored(LatestKey), [Next]_vars
  PROVE  /\ LatestKey \in DOMAIN bucket'
         /\ \/ Untouched(LatestKey) /\ Latest' = Latest
            \/ PutLatest("ok") /\ Latest' = generation
         /\ Latest <= Latest' /\ Latest \in Generations /\ Latest' \in Nat
<1>1. LatestKey \in DOMAIN bucket'
  BY Deletions DEF LatestKey, OfOther, Stored
<1>2. Untouched(LatestKey) \/ PutLatest("ok")
  BY <1>1, LatestPuts
<1>3. CASE Untouched(LatestKey)
  BY <1>1, <1>3, KeysAssumption DEF Untouched, Latest, SnapshotsClosed, Generations
<1>4. CASE PutLatest("ok")
  <2>1. Latest' = generation
    BY <1>4 DEF PutLatest, PutObject, Latest
  <2>2. Latest \in Generations /\ Closed(SnapshotKey(Latest)) /\ generation \in Nat
    BY KeysAssumption DEF SnapshotsClosed, TypeOK, ManagerTypeOK
  <2>3. Latest <= generation
    BY <2>2, KeysAssumption DEF Closed, SnapshotKey, Generations
  <2> QED
    BY <1>1, <1>4, <2>1, <2>2, <2>3
<1> QED
  BY <1>2, <1>3, <1>4

\* The latest generation has no segments but those of its manifest.
LatestListed ==
  Stored(LatestKey) =>
    \A k \in DOMAIN bucket : k[1] = "wal" /\ k[2] = Latest => Stored(ManifestKey(Latest))

\* Steps of the manager keep that.
LEMMA LatestListedNext ==
  ASSUME NoFailures, TypeOK, StepOK, RInv, SInv, Unused, SnapshotsClosed, LatestListed, [Next]_vars
  PROVE  LatestListed'
<1> SUFFICES ASSUME LatestKey \in DOMAIN bucket', NEW k \in DOMAIN bucket', k[1] = "wal", k[2] = Latest'
             PROVE  ManifestKey(Latest') \in DOMAIN bucket'
  BY DEF LatestListed, Stored, Latest
<1>1. CASE PutLatest("ok")
  <2>1. Latest' = generation /\ DOMAIN bucket' = DOMAIN bucket \cup {LatestKey} /\ step = "put_latest"
    BY <1>1 DEF PutLatest, PutObject, Latest
  <2>2. k \in DOMAIN bucket /\ k[2] = generation
    BY <2>1 DEF LatestKey
  <2>3. Current
    BY <2>1, <2>2 DEF Unused, StepOK, BeforeReset
  <2> QED
    BY <2>1, <2>2, <2>3 DEF Current, LatestListed, Stored
<1>2. CASE ~PutLatest("ok")
  <2>1. Untouched(LatestKey)
    BY <1>2, LatestPuts
  <2>2. Latest' = Latest /\ Stored(LatestKey)
    BY <2>1 DEF Untouched, Latest, Stored
  <2>3. Stored(ManifestKey(Latest))
    <3>1. CASE Untouched(k)
      BY <2>2, <3>1 DEF Untouched, LatestListed
    <3>2. CASE ~Untouched(k)
      <4>1. k[2] = generation /\ running /\ step \in {"put_segment", "compact_put"}
        BY <3>2, WalPuts DEF WalKey
      <4> QED
        BY <2>2, <4>1 DEF SInv, ManagerOK, Published, Settled
    <3> QED
      BY <3>1, <3>2
  <2>4. PICK x : x = ManifestKey(Latest)
    OBVIOUS
  <2>5. x \in DOMAIN bucket'
    <3>1. x \in DOMAIN bucket /\ x[1] = "manifest" /\ x[2] = Latest
      BY <2>3, <2>4 DEF Stored, ManifestKey
    <3> QED
      BY <3>1, Deletions DEF OfOther, Current
  <2> QED
    BY <2>2, <2>4, <2>5
<1> QED
  BY <1>1, <1>2

\* The objects of an older generation are not written.
LEMMA OldUntouched ==
  ASSUME TypeOK, [Next]_vars, NEW x \in DOMAIN bucket', x[1] # "latest", x[2] < generation'
  PROVE  Untouched(x)
<1>1. ObjectStep /\ GenerationStep /\ generation \in Nat
  BY ObjectsStep DEF TypeOK, ManagerTypeOK
<1>2. CASE UNCHANGED bucket
  BY <1>2 DEF Untouched
<1>3. CASE generation' = generation
  BY <1>1, <1>3 DEF ObjectStep, Put, SnapshotKey, WalKey
<1> QED
  BY <1>1, <1>2, <1>3 DEF GenerationStep

\* What an older generation gives stays as long as its manifest does.
LEMMA RestoredOld ==
  ASSUME TypeOK, AllDescribed, AllDescribed', [Next]_vars, NEW g \in Generations, g < generation',
         Stored(ManifestKey(g))'
  PROVE  Stored(ManifestKey(g)) /\ Restored(g)' = Restored(g)
<1>1. ASSUME NEW x \in DOMAIN bucket', x[1] # "latest", x[2] = g PROVE x \in DOMAIN bucket /\ bucket'[x] = bucket[x]
  BY <1>1, OldUntouched DEF Untouched
<1>2. PICK x : x = ManifestKey(g)
  OBVIOUS
<1>3. x \in DOMAIN bucket' /\ x[1] = "manifest" /\ x[2] = g
  BY <1>2 DEF Stored, ManifestKey
<1>4. x \in DOMAIN bucket /\ bucket'[x] = bucket[x]
  BY <1>1, <1>3
<1>5. PICK m : m = bucket[x]
  OBVIOUS
<1>6. SnapshotKey(g) \in DOMAIN bucket' /\ Describes(m, bucket', g)
  BY <1>2, <1>4, <1>5 DEF AllDescribed, Stored, ManifestKey, SnapshotKey
<1>7. SnapshotKey(g) \in DOMAIN bucket /\ bucket'[SnapshotKey(g)] = bucket[SnapshotKey(g)]
  <2>1. PICK y : y = SnapshotKey(g)
    OBVIOUS
  <2> QED
    BY <1>1, <1>6, <2>1 DEF SnapshotKey
<1>8. ASSUME NEW n \in DOMAIN m
      PROVE  /\ WalKey(g, m[n].index) \in DOMAIN bucket'
             /\ bucket'[WalKey(g, m[n].index)] = bucket[WalKey(g, m[n].index)]
  <2>1. PICK y : y = WalKey(g, m[n].index)
    OBVIOUS
  <2>2. y \in DOMAIN bucket' /\ y[1] = "wal" /\ y[2] = g
    BY <1>6, <2>1 DEF Describes, WalKey
  <2> QED
    BY <1>1, <2>1, <2>2
<1>9. Joined(bucket', g, m) = Joined(bucket, g, m)
  <2>1. PICK b, c : b = bucket /\ c = bucket'
    OBVIOUS
  <2>2. Joined(c, g, m) = Joined(b, g, m)
    BY <1>8, <2>1, JoinedSame
  <2> QED
    BY <2>1, <2>2
<1>10. RestoredWal(g) = Joined(bucket, g, m)
  BY <1>2, <1>4, <1>5, RestoredIs DEF Stored
<1>11. RestoredWal(g)' = Joined(bucket', g, m)
  BY <1>2, <1>4, <1>5, RestoredIsNext
<1>12. PICK w : w = RestoredWal(g)
  OBVIOUS
<1>13. Restored(g) = bucket[SnapshotKey(g)] \cup Replay(w)
  BY <1>12 DEF Restored
<1>14. Restored(g)' = bucket'[SnapshotKey(g)] \cup Replay(w)
  BY <1>9, <1>10, <1>11, <1>12 DEF Restored
<1> QED
  BY <1>2, <1>4, <1>7, <1>13, <1>14 DEF Stored

-----------------------------------------------------------------------------
(* What a restore has still to download. *)

\* What it must give at least: what an instantaneous one gave since it began, or
\* what could be restored at the point in time.
Enough(pages) ==
  IF found.gen = 0 THEN \E p \in couldGive : p \subseteq pages ELSE moment.restorable \subseteq pages

\* It is to download the last of these segments, as far as they stay stored, and
\* has downloaded the others.
Partway(values) ==
  LET done == Len(values) - Len(segments)
  IN /\ done \in Nat /\ wal_data = FlattenSeq(SubSeq(values, 1, done))
     /\ \A n \in DOMAIN segments :
          /\ Closed(WalKey(restoring, segments[n]))
          /\ Stored(WalKey(restoring, segments[n])) =>
               bucket[WalKey(restoring, segments[n])] = values[done + n]

\* What it will hand over is enough, unless it missed a manifest.
DownloadOK ==
  ~missed =>
    /\ rstep = "get_snapshot" /\ found.gen # 0 =>
         \E values \in Seq(Seq(Block)) :
           /\ Partway(values)
           /\ Stored(SnapshotKey(restoring)) =>
                Enough(bucket[SnapshotKey(restoring)] \cup Replay(FlattenSeq(values)))
    /\ rstep = "get_segment" =>
         \E values \in Seq(Seq(Block)) :
           Partway(values) /\ Enough(target.pages \cup Replay(FlattenSeq(values)))
    /\ rstep = "replay" => Enough(target.pages \cup Replay(targetWal.blocks))

\* More pages are enough too.
LEMMA EnoughMore ==
  ASSUME NEW p, NEW q, p \subseteq q, Enough(p)
  PROVE  Enough(q)
BY DEF Enough

\* What is enough stays enough while the restore promises the same.
LEMMA EnoughSame ==
  ASSUME UNCHANGED <<found, moment, couldGive>>, NEW p, Enough(p)
  PROVE  Enough(p)'
BY DEF Enough

\* An empty -wal file adds nothing.
LEMMA ReplaysNothing == Replay(<<>>) = {}
BY DEF Replay

\* Steps that leave the backup and the download leave what is to come.
LEMMA PartwaySame ==
  ASSUME UNCHANGED managerVars, UNCHANGED <<restoring, segments, wal_data>>, NEW values, Partway(values)
  PROVE  Partway(values)'
<1>1. UNCHANGED <<bucket, generation, running, step, wal_index, newSegments>>
  BY DEF managerVars, vars, tracking, call, locals, compactLocals
<1> QED
  BY <1>1 DEF Partway, Closed, NextIndex, CompactIndex, Stored, WalKey

\* Steps of the manager delete segments, but do not replace them.
LEMMA PartwayBeside ==
  ASSUME NoFailures, "snapshot" \notin Calls, TypeOK, StepOK, [Next]_vars,
         UNCHANGED <<restoring, segments, wal_data>>,
         restoring \in Nat, segments \in Seq(Indexes), NEW values, Partway(values)
  PROVE  Partway(values)'
<1>1. PICK g, s, j : g = restoring /\ s = segments /\ j = Len(values) - Len(segments)
  OBVIOUS
<1>2. j \in Nat /\ wal_data = FlattenSeq(SubSeq(values, 1, j))
  BY <1>1 DEF Partway
<1>3. ASSUME NEW n \in DOMAIN s
      PROVE  Closed(WalKey(g, s[n]))' /\ (Stored(WalKey(g, s[n]))' => bucket'[WalKey(g, s[n])] = values[j + n])
  <2>1. PICK k : k = WalKey(g, s[n])
    OBVIOUS
  <2>2. s[n] \in Indexes
    BY <1>1
  <2>3. k[1] = "wal" /\ k[2] \in Nat /\ k[3] \in Nat
    BY <1>1, <2>1, <2>2 DEF WalKey, Indexes
  <2>4. Closed(k) /\ (Stored(k) => bucket[k] = values[j + n])
    BY <1>1, <2>1 DEF Partway
  <2>5. Closed(k)' /\ (k \in DOMAIN bucket' => Untouched(k))
    BY <2>3, <2>4, ClosedStep
  <2>6. k \in DOMAIN bucket' => bucket'[k] = values[j + n]
    BY <2>4, <2>5 DEF Untouched, Stored
  <2> QED
    BY <2>1, <2>5, <2>6 DEF Stored
<1>4. restoring' = g /\ segments' = s /\ wal_data' = wal_data
  BY <1>1
<1> QED
  BY <1>1, <1>2, <1>3, <1>4 DEF Partway

\* One more has been downloaded.
LEMMA PartwayNext ==
  ASSUME UNCHANGED managerVars, restoring' = restoring, segments \in Seq(Indexes), segments # <<>>,
         NEW values \in Seq(Seq(Block)), Partway(values),
         NEW k, k = WalKey(restoring, Head(segments)), Stored(k),
         segments' = Tail(segments), wal_data' = wal_data \o bucket[k]
  PROVE  Partway(values)' /\ (Len(segments) = 1 => wal_data' = FlattenSeq(values))
<1>1. PICK s, g, j, w : s = segments /\ g = restoring /\ j = Len(values) - Len(segments) /\ w = wal_data
  OBVIOUS
<1>2. j \in Nat /\ w = FlattenSeq(SubSeq(values, 1, j))
  BY <1>1 DEF Partway
<1>3. Len(s) \in Nat /\ Len(s) >= 1 /\ Head(s) = s[1] /\ 1 \in DOMAIN s /\ Len(values) \in Nat
  BY <1>1
<1>4. j + 1 <= Len(values) /\ j + Len(s) = Len(values)
  BY <1>1, <1>2, <1>3
<1>5. bucket[k] = values[j + 1]
  BY <1>1, <1>3 DEF Partway
<1>6. FlattenSeq(SubSeq(values, 1, j + 1)) = w \o bucket[k]
  <2>1. PICK S : S = Seq(Block)
    OBVIOUS
  <2>2. PICK p, q : p = SubSeq(values, 1, j) /\ q = SubSeq(values, 1, j + 1)
    OBVIOUS
  <2>3. values \in Seq(S)
    BY <2>1
  <2>4. p \in Seq(S) /\ q \in Seq(S)
    BY <1>2, <1>3, <1>4, <2>2, <2>3
  <2>5. Len(p) = j /\ Len(q) = j + 1 /\ q[j + 1] = values[j + 1]
    BY <1>2, <1>3, <1>4, <2>2, <2>3
  <2>6. \A i \in 1..Len(p) : p[i] = q[i]
    BY <1>2, <1>3, <1>4, <2>2, <2>3, <2>5
  <2>7. FlattenSeq(q) = FlattenSeq(p) \o q[Len(q)]
    BY <1>2, <2>1, <2>4, <2>5, <2>6, FlattenLonger
  <2> QED
    BY <1>2, <1>5, <2>2, <2>5, <2>7
<1>7. UNCHANGED <<bucket, generation, running, step, wal_index, newSegments>>
  BY DEF managerVars, vars, tracking, call, locals, compactLocals
<1>8. PICK t : t = Tail(s)
  OBVIOUS
<1>9. /\ Len(t) = Len(s) - 1 /\ DOMAIN t = 1..(Len(s) - 1)
      /\ \A n \in 1..(Len(s) - 1) : t[n] = s[n + 1]
      /\ \A n \in 1..(Len(s) - 1) : n + 1 \in DOMAIN s
  <2>1. s \in Seq(Indexes) /\ t = Tail(s)
    BY <1>1, <1>8
  <2>2. Len(t) = Len(s) - 1 /\ DOMAIN t = 1..(Len(s) - 1)
    BY <1>3, <2>1
  <2>3. \A n \in 1..(Len(s) - 1) : t[n] = s[n + 1]
    BY <1>3, <2>1
  <2>4. \A n \in 1..(Len(s) - 1) : n + 1 \in DOMAIN s
    BY <1>3, <2>1
  <2> QED
    BY <2>2, <2>3, <2>4
<1>10. Len(values) - Len(t) = j + 1
  BY <1>2, <1>3, <1>4, <1>9
<1>11. ASSUME NEW n \in 1..(Len(s) - 1)
       PROVE  Closed(WalKey(g, t[n]))' /\ (Stored(WalKey(g, t[n]))' => bucket'[WalKey(g, t[n])] = values[(j + 1) + n])
  <2>1. PICK x : x = WalKey(g, s[n + 1])
    OBVIOUS
  <2>2. n \in Nat /\ n + 1 \in DOMAIN s /\ t[n] = s[n + 1] /\ j + (n + 1) = (j + 1) + n
    BY <1>2, <1>3, <1>9
  <2>3. Closed(x) /\ (Stored(x) => bucket[x] = values[j + (n + 1)])
    BY <1>1, <2>1, <2>2 DEF Partway
  <2>4. Closed(x)' /\ (Stored(x)' => bucket'[x] = values[(j + 1) + n])
    <3>1. Closed(x)'
      BY <1>7, <2>3 DEF Closed, NextIndex, CompactIndex
    <3>2. Stored(x) => bucket[x] = values[(j + 1) + n]
      BY <2>2, <2>3
    <3> QED
      BY <1>7, <3>1, <3>2 DEF Stored
  <2> QED
    BY <2>1, <2>2, <2>4
<1>12. restoring' = g /\ segments' = t /\ wal_data' = FlattenSeq(SubSeq(values, 1, j + 1))
  BY <1>1, <1>6, <1>8
<1>13. Partway(values)'
  <2>1. PICK d : d = j + 1
    OBVIOUS
  <2>2. ASSUME NEW n \in DOMAIN t
        PROVE  Closed(WalKey(g, t[n]))' /\ (Stored(WalKey(g, t[n]))' => bucket'[WalKey(g, t[n])] = values[d + n])
    BY <1>9, <1>11, <2>1
  <2>3. d \in Nat /\ Len(values) - Len(t) = d
    BY <1>2, <1>10, <2>1
  <2>4. wal_data' = FlattenSeq(SubSeq(values, 1, d))
    BY <1>12, <2>1
  <2> QED
    BY <1>12, <2>2, <2>3, <2>4 DEF Partway
<1>14. Len(segments) = 1 => wal_data' = FlattenSeq(values)
  <2>1. ASSUME Len(segments) = 1 PROVE SubSeq(values, 1, j + 1) = values
    BY <1>1, <1>3, <1>4, <2>1
  <2> QED
    BY <1>12, <2>1
<1> QED
  BY <1>13, <1>14

-----------------------------------------------------------------------------
(* Restores of the latest backup. *)

\* The restore is one of the latest backup, and downloads.
Now == rstep \in Downloading \ PointInTime /\ found.gen = 0

\* What it downloads next is of the latest generation, or was enough when it was.
LatestOK ==
  Now =>
    /\ Instantaneous \subseteq couldGive
    /\ rstep # "get_latest" =>
         /\ Stored(LatestKey) /\ restoring \in Generations /\ restoring <= Latest
         /\ Closed(SnapshotKey(restoring))
    /\ rstep \in {"get_snapshot", "get_manifest"} /\ Stored(ManifestKey(restoring)) =>
         restoring = Latest \/ Enough(Restored(restoring))
    /\ rstep = "get_manifest" /\ Stored(SnapshotKey(restoring)) =>
         target.pages = bucket[SnapshotKey(restoring)]
    /\ rstep = "list_wal" /\ ~missed => Enough(target.pages)

\* Steps of the manager add to what it could give.
LEMMA EnoughBeside ==
  ASSUME Beside, rstep \in Downloading \ PointInTime, NEW p, Enough(p)
  PROVE  Enough(p)'
<1>1. UNCHANGED <<rstep, found>> /\ moment'.restorable = moment.restorable
  BY DEF Beside, Witness, fetching
<1>2. found.gen = 0 => couldGive \subseteq couldGive'
  BY DEF Beside, Witness
<1> QED
  BY <1>1, <1>2 DEF Enough

\* What can be restored is restored from the latest generation.
LEMMA InstantaneousIs ==
  ASSUME RInv, Stored(LatestKey)
  PROVE  Instantaneous = {Restored(Latest)} /\ Restorable(Latest)
BY DEF RInv, Base, LatestIsRestorable, Instantaneous, RestoreLatest, Latest

\* What it is to download is enough as long as its manifest stays stored.
LEMMA RestoredEnough ==
  ASSUME RInv, LatestOK, Now, rstep # "get_latest", restoring = Latest
  PROVE  Enough(Restored(restoring))
<1>1. Instantaneous = {Restored(Latest)} /\ Instantaneous \subseteq couldGive
  BY InstantaneousIs DEF LatestOK
<1>2. Restored(restoring) \in couldGive
  BY <1>1
<1> QED
  BY <1>2 DEF Enough, Now

\* A step of the manager: a newer generation may become the latest.
LEMMA LatestBeside ==
  ASSUME NoFailures, "snapshot" \notin Calls, RestoreSound, RestoreSound', PastOK, PastOK',
         LatestOK, Beside
  PROVE  LatestOK'
<1> SUFFICES ASSUME Now' PROVE LatestOK'
  BY DEF LatestOK
<1>0. [RestoreNext]_allVars
  BY DEF RestoreNext
<1>1. [Next]_vars /\ UNCHANGED <<rstep, target, restoring, found, missed>>
  BY <1>0, RestoringReads DEF Beside, Witness, files, fetching
<1>2. Now /\ couldGive' = couldGive \cup Instantaneous'
  BY <1>1 DEF Now, Beside, Witness
<1>3. ASSUME NEW p, Enough(p) PROVE Enough(p)'
  BY <1>2, <1>3, EnoughBeside DEF Now
<1>4. CASE rstep = "get_latest"
  <2>1. Instantaneous' \subseteq couldGive' /\ rstep' = "get_latest"
    BY <1>1, <1>2, <1>4
  <2> QED
    BY <2>1 DEF LatestOK
<1>5. CASE rstep # "get_latest"
  <2>1. Stored(LatestKey) /\ restoring \in Generations /\ restoring <= Latest /\ Closed(SnapshotKey(restoring))
    BY <1>2, <1>5 DEF LatestOK
  <2>2. Stored(LatestKey)' /\ Latest <= Latest' /\ Latest \in Nat /\ Latest' \in Nat
    BY <1>1, <2>1, LatestStep DEF RestoreSound, PastOK, Stored, LatestKey, Generations
  <2>3. PICK g : g = restoring
    OBVIOUS
  <2>4. g \in Generations /\ g \in Nat /\ g <= Latest'
    BY <2>1, <2>2, <2>3, KeysAssumption DEF Generations
  <2>5. PICK k : k = SnapshotKey(g)
    OBVIOUS
  <2>6. Closed(k)' /\ (k \in DOMAIN bucket' => Untouched(k))
    <3>1. k[1] = "snapshot" /\ k[2] \in Nat /\ k[3] \in Nat
      BY <2>4, <2>5 DEF SnapshotKey
    <3> QED
      BY <1>1, <2>1, <2>3, <2>5, <3>1, ClosedStep DEF RestoreSound
  <2>7. rstep \in {"get_snapshot", "get_manifest"} /\ Stored(ManifestKey(g))' /\ g # Latest'
        => Enough(Restored(g))'
    <3> SUFFICES ASSUME rstep \in {"get_snapshot", "get_manifest"}, Stored(ManifestKey(g))', g # Latest'
                 PROVE  Enough(Restored(g))'
      OBVIOUS
    <3>1. g < Latest'
      BY <2>2, <2>4
    <3>2. Latest' <= generation' /\ generation' \in Nat
      BY <2>2 DEF RestoreSound, PastOK, SnapshotsClosed, Closed, SnapshotKey, TypeOK, ManagerTypeOK
    <3>3. g < generation'
      BY <2>2, <2>4, <3>1, <3>2
    <3>4. AllDescribed /\ AllDescribed' /\ TypeOK
      BY DEF RestoreSound, SInv
    <3>5. Stored(ManifestKey(g)) /\ Restored(g)' = Restored(g)
      BY <1>1, <2>4, <3>3, <3>4, RestoredOld
    <3>6. Enough(Restored(g))
      BY <1>2, <1>5, <2>3, <3>5, RestoredEnough DEF LatestOK, RestoreSound
    <3>7. PICK p : p = Restored(g)
      OBVIOUS
    <3>8. Enough(p)'
      BY <1>3, <3>6, <3>7
    <3> QED
      BY <3>5, <3>7, <3>8
  <2>8. rstep = "get_manifest" /\ k \in DOMAIN bucket' => target.pages = bucket'[k]
    BY <1>2, <2>3, <2>5, <2>6 DEF LatestOK, Stored, Untouched
  <2>9. rstep = "list_wal" /\ ~missed => Enough(target.pages)'
    <3>1. PICK p : p = target.pages
      OBVIOUS
    <3>2. rstep = "list_wal" /\ ~missed => Enough(p)'
      BY <1>2, <1>3, <3>1 DEF LatestOK
    <3> QED
      BY <1>1, <3>1, <3>2
  <2>10. restoring' = g /\ rstep' = rstep /\ target' = target /\ missed' = missed
    BY <1>1, <2>3
  <2>11. Instantaneous' \subseteq couldGive'
    BY <1>2
  <2>12. (rstep \in {"get_snapshot", "get_manifest"} /\ Stored(ManifestKey(restoring))
           => restoring = Latest \/ Enough(Restored(restoring)))'
    BY <2>7, <2>10
  <2>13. (rstep = "get_manifest" /\ Stored(SnapshotKey(restoring)) => target.pages = bucket[SnapshotKey(restoring)])'
    BY <2>5, <2>8, <2>10 DEF Stored
  <2>14. (Stored(LatestKey) /\ restoring \in Generations /\ restoring <= Latest /\ Closed(SnapshotKey(restoring)))'
    BY <2>2, <2>4, <2>5, <2>6, <2>10
  <2>15. (rstep = "list_wal" /\ ~missed => Enough(target.pages))'
    BY <2>9, <2>10
  <2> QED
    BY <2>11, <2>12, <2>13, <2>14, <2>15 DEF LatestOK
<1> QED
  BY <1>4, <1>5

\* Without a manifest the latest generation has no segments.
LEMMA ListsNothing ==
  ASSUME LatestListed, Stored(LatestKey), NEW g, g = Latest, ~Stored(ManifestKey(g))
  PROVE  Restored(g) = bucket[SnapshotKey(g)]
<1>1. {i \in Indexes : Stored(WalKey(g, i))} = {}
  <2>1. ASSUME NEW i \in Indexes, Stored(WalKey(g, i)) PROVE FALSE
    <3>1. PICK k : k = WalKey(g, i)
      OBVIOUS
    <3>2. k \in DOMAIN bucket /\ k[1] = "wal" /\ k[2] = Latest
      BY <2>1, <3>1 DEF WalKey, Stored
    <3> QED
      BY <3>2 DEF LatestListed
  <2> QED
    BY <2>1
<1>2. StoredIndexes(g) = <<>>
  <2>1. PICK s : s = StoredIndexes(g)
    OBVIOUS
  <2>2. s \in Seq({})
    BY <1>1, <2>1, ListedIndexes
  <2> QED
    BY <2>1, <2>2
<1>3. SegmentIndexes(g) = <<>>
  BY <1>2 DEF SegmentIndexes
<1>4. RestoredWal(g) = <<>>
  <2>1. PICK indexes : indexes = <<>>
    OBVIOUS
  <2>2. [n \in DOMAIN indexes |-> bucket[WalKey(g, indexes[n])]] = <<>>
    BY <2>1
  <2> QED
    BY <1>3, <2>1, <2>2, FlattenEmpty DEF RestoredWal
<1> QED
  BY <1>4, ReplaysNothing DEF Restored

\* Steps of a restore leave what may be downloaded.
LEMMA SameBackup ==
  ASSUME UNCHANGED managerVars
  PROVE  /\ UNCHANGED <<bucket, generation, running, step, wal_index, newSegments>>
         /\ Instantaneous' = Instantaneous
         /\ \A k : Closed(k)' <=> Closed(k)
<1>1. UNCHANGED <<bucket, generation, running, step, wal_index, newSegments>>
  BY DEF managerVars, vars, tracking, call, locals, compactLocals
<1>2. Instantaneous' = Instantaneous
  BY <1>1 DEF Instantaneous, Restorable, SegmentsStored, Stored, RestoreLatest, Restored, RestoredWal,
              SegmentIndexes, StoredIndexes
<1>3. \A k : Closed(k)' <=> Closed(k)
  BY <1>1 DEF Closed, NextIndex, CompactIndex
<1> QED
  BY <1>1, <1>2, <1>3

\* A step of the restore itself.
LEMMA LatestRestoring ==
  ASSUME RestoreSound, PastOK, LatestListed, LatestOK, Restoring, UNCHANGED managerVars
  PROVE  LatestOK'
<1>1. /\ bucket' = bucket /\ Instantaneous' = Instantaneous
      /\ \A k : Closed(k)' <=> Closed(k)
  BY SameBackup
<1>2. Latest' = Latest
  BY <1>1 DEF Latest
<1>3. CASE ~Now'
  BY <1>3 DEF LatestOK
<1>4. CASE BeginRestore \/ AutoRestore
  BY <1>1, <1>4 DEF BeginRestore, AutoRestore, Begin, LatestOK
<1>5. CASE GetLatest /\ ~Failed
  <2>1. /\ Stored(LatestKey) /\ rstep = "get_latest" /\ rstep' = "get_snapshot" /\ restoring' = Latest
        /\ couldGive' = couldGive /\ found' = found
    BY <1>5 DEF GetLatest, GetFailed, Goes, Latest
  <2>2. Latest \in Generations /\ Closed(SnapshotKey(Latest))
    BY <2>1 DEF PastOK, SnapshotsClosed
  <2>3. PICK g : g = Latest
    OBVIOUS
  <2>4. g \in Generations /\ g <= g /\ Closed(SnapshotKey(g)) /\ restoring' = g /\ Latest' = g
    BY <1>2, <2>1, <2>2, <2>3, KeysAssumption DEF Generations
  <2>5. CASE found.gen # 0
    BY <2>1, <2>5 DEF LatestOK, Now
  <2>6. CASE found.gen = 0
    <3>1. Instantaneous' \subseteq couldGive'
      BY <1>1, <2>1, <2>6 DEF LatestOK, Now, Downloading, PointInTime
    <3>2. (Stored(LatestKey) /\ restoring \in Generations /\ restoring <= Latest)'
      BY <1>1, <2>1, <2>4 DEF Stored
    <3>3. Closed(SnapshotKey(restoring))'
      BY <1>1, <2>4
    <3>4. restoring' = Latest'
      BY <2>4
    <3>5. rstep' = "get_snapshot"
      BY <2>1
    <3> QED
      BY <3>1, <3>2, <3>3, <3>4, <3>5 DEF LatestOK
  <2> QED
    BY <2>5, <2>6
<1>6. CASE /\ Now /\ rstep # "get_latest" /\ UNCHANGED <<couldGive, restoring, found, moment>>
           /\ rstep' \in {"get_manifest", "list_wal", "get_segment", "replay"}
           /\ rstep' = "get_manifest" => /\ rstep = "get_snapshot" /\ Stored(SnapshotKey(restoring))
                                         /\ target'.pages = bucket[SnapshotKey(restoring)]
           /\ rstep' = "list_wal" =>
                /\ rstep = "get_manifest" /\ UNCHANGED target
                /\ ~missed' => ~Stored(ManifestKey(restoring)) /\ restoring = Latest
  <2>1. PICK g : g = restoring
    OBVIOUS
  <2>2. /\ Instantaneous \subseteq couldGive
        /\ Stored(LatestKey) /\ g \in Generations /\ g <= Latest /\ Closed(SnapshotKey(g))
    BY <1>6, <2>1 DEF LatestOK
  <2>3. restoring' = g /\ couldGive' = couldGive /\ found' = found /\ moment' = moment
    BY <1>6, <2>1
  <2>4. (Instantaneous \subseteq couldGive)'
    BY <1>1, <2>2, <2>3
  <2>5. (Stored(LatestKey) /\ restoring \in Generations /\ restoring <= Latest /\ Closed(SnapshotKey(restoring)))'
    BY <1>1, <1>2, <2>2, <2>3 DEF Stored
  <2>6. (rstep \in {"get_snapshot", "get_manifest"} /\ Stored(ManifestKey(restoring))
           => restoring = Latest \/ Enough(Restored(restoring)))'
    <3> SUFFICES ASSUME rstep' = "get_manifest", Stored(ManifestKey(g))', g # Latest
                 PROVE  Enough(Restored(g))'
      BY <1>2, <1>6, <2>3
    <3>1. rstep = "get_snapshot" /\ Stored(ManifestKey(g))
      BY <1>1, <1>6 DEF Stored
    <3>2. Enough(Restored(g))
      BY <1>6, <2>1, <3>1 DEF LatestOK
    <3>3. PICK p : p = Restored(g)
      OBVIOUS
    <3>4. Enough(p)'
      BY <2>3, <3>2, <3>3, EnoughSame
    <3>5. Restored(g)' = Restored(g)
      BY <1>1 DEF Restored, RestoredWal, SegmentIndexes, StoredIndexes, Stored
    <3> QED
      BY <3>3, <3>4, <3>5
  <2>7. (rstep = "get_manifest" /\ Stored(SnapshotKey(restoring)) => target.pages = bucket[SnapshotKey(restoring)])'
    BY <1>1, <1>6, <2>1, <2>3
  <2>8. (rstep = "list_wal" /\ ~missed => Enough(target.pages))'
    <3> SUFFICES ASSUME rstep' = "list_wal", ~missed' PROVE Enough(target.pages)'
      OBVIOUS
    <3>1. rstep = "get_manifest" /\ target' = target /\ ~Stored(ManifestKey(g)) /\ g = Latest
      BY <1>6, <2>1
    <3>2. Restorable(g)
      BY <2>2, <3>1, InstantaneousIs DEF RestoreSound
    <3>3. target.pages = bucket[SnapshotKey(g)]
      BY <1>6, <2>1, <3>1, <3>2 DEF LatestOK, Restorable
    <3>4. Restored(g) = bucket[SnapshotKey(g)]
      BY <2>2, <3>1, ListsNothing
    <3>5. Enough(Restored(g))
      BY <1>6, <2>1, <3>1, RestoredEnough DEF RestoreSound
    <3>6. PICK p : p = target.pages
      OBVIOUS
    <3>7. Enough(p)'
      BY <2>3, <3>3, <3>4, <3>5, <3>6, EnoughSame
    <3> QED
      BY <3>1, <3>6, <3>7
  <2> QED
    BY <2>4, <2>5, <2>6, <2>7, <2>8 DEF LatestOK
<1>7. CASE Ends \/ Failed \/ ReplayWal \/ AutoRestoreSkipped \/ BeginRestoreToTime \/ ListManifests
           \/ ReadManifest \/ (ChooseGeneration /\ ~Failed)
  <2>1. ~Now'
    BY <1>7 DEF Failed, Ends, ReplayWal, AutoRestoreSkipped, BeginRestoreToTime, Begin, ListManifests, ReadManifest,
                ChooseGeneration, Goes, Now, Downloading, PointInTime
  <2> QED
    BY <2>1, <1>3
<1>8. CASE (GetSnapshot \/ GetManifest \/ ListWal \/ GetSegment) /\ ~Failed
  <2>1. rstep \in {"get_snapshot", "get_manifest", "list_wal", "get_segment"}
        /\ UNCHANGED <<couldGive, restoring, found, moment>>
        /\ rstep' \in {"get_manifest", "list_wal", "get_segment", "replay"}
    BY <1>8 DEF GetSnapshot, GetManifest, ListWal, Listed, GetSegment, GetFailed, Goes, fetching
  <2>2. rstep' = "get_manifest" => /\ rstep = "get_snapshot" /\ Stored(SnapshotKey(restoring))
                                   /\ target'.pages = bucket[SnapshotKey(restoring)]
    BY <1>8 DEF GetSnapshot, GetManifest, ListWal, Listed, GetSegment, GetFailed, Goes, fetching
  <2>3. rstep' = "list_wal" =>
                /\ rstep = "get_manifest" /\ UNCHANGED target
                /\ ~missed' => ~Stored(ManifestKey(restoring)) /\ restoring = Latest
    BY <1>8 DEF GetSnapshot, GetManifest, ListWal, Listed, GetSegment, GetFailed, Goes, fetching, files, Latest
  <2>4. Now' => Now
    BY <2>1 DEF Now, Downloading, PointInTime
  <2> QED
    BY <1>3, <1>6, <2>1, <2>2, <2>3, <2>4
<1> QED
  BY <1>4, <1>5, <1>7, <1>8 DEF Restoring, Interrupted, SnapshotCutShort, WalCutShort, CutShort

-----------------------------------------------------------------------------
(* What a restore has chosen to download stays enough. *)

\* A step of the manager leaves what is downloaded and what is to come.
LEMMA DownloadBeside ==
  ASSUME NoFailures, "snapshot" \notin Calls, RestoreSound, PastOK, DownloadOK, Beside
  PROVE  DownloadOK'
<1>0. [RestoreNext]_allVars
  BY DEF RestoreNext
<1>1. [Next]_vars /\ UNCHANGED <<rstep, target, targetWal, restoring, segments, wal_data, found, missed>>
  BY <1>0, RestoringReads DEF Beside, Witness, files, fetching
<1>2. /\ TypeOK /\ StepOK /\ restoring \in Nat /\ segments \in Seq(Indexes)
  BY KeysAssumption DEF RestoreSound, FetchTypeOK
<1> SUFFICES ASSUME ~missed PROVE DownloadOK'
  BY <1>1 DEF DownloadOK
<1>3. ASSUME NEW p, Enough(p), rstep \in {"get_snapshot", "get_segment", "replay"} PROVE Enough(p)'
  BY <1>3, EnoughBeside DEF Downloading, PointInTime
<1>4. ASSUME NEW values, Partway(values) PROVE Partway(values)'
  BY <1>1, <1>2, <1>4, PartwayBeside
<1>5. ASSUME rstep = "get_snapshot", found.gen # 0
      PROVE  (\E values \in Seq(Seq(Block)) :
                /\ Partway(values)
                /\ Stored(SnapshotKey(restoring)) =>
                     Enough(bucket[SnapshotKey(restoring)] \cup Replay(FlattenSeq(values))))'
  <2>1. PICK values \in Seq(Seq(Block)) :
               /\ Partway(values)
               /\ Stored(SnapshotKey(restoring)) =>
                    Enough(bucket[SnapshotKey(restoring)] \cup Replay(FlattenSeq(values)))
    BY <1>5 DEF DownloadOK
  <2>2. PICK k : k = SnapshotKey(restoring)
    OBVIOUS
  <2>3. Closed(k) /\ k[1] = "snapshot" /\ k[2] \in Nat /\ k[3] \in Nat
    BY <1>2, <1>5, <2>2 DEF PastOK, FoundOK, Sealed, SnapshotKey
  <2>4. k \in DOMAIN bucket' => k \in DOMAIN bucket /\ bucket'[k] = bucket[k]
    BY <1>1, <1>2, <2>3, ClosedStep DEF Untouched
  <2>5. PICK p : p = bucket[k] \cup Replay(FlattenSeq(values))
    OBVIOUS
  <2>6. k \in DOMAIN bucket' => Enough(p)'
    BY <1>3, <1>5, <2>1, <2>2, <2>4, <2>5 DEF Stored
  <2>7. k \in DOMAIN bucket' => p = bucket'[k] \cup Replay(FlattenSeq(values))
    BY <2>4, <2>5
  <2>8. k = SnapshotKey(restoring') /\ Partway(values)'
    BY <1>1, <1>4, <2>1, <2>2
  <2>9. (Stored(SnapshotKey(restoring)) =>
           Enough(bucket[SnapshotKey(restoring)] \cup Replay(FlattenSeq(values))))'
    BY <2>6, <2>7, <2>8 DEF Stored
  <2> QED
    BY <2>8, <2>9
<1>6. ASSUME rstep = "get_segment"
      PROVE  (\E values \in Seq(Seq(Block)) :
                Partway(values) /\ Enough(target.pages \cup Replay(FlattenSeq(values))))'
  <2>1. PICK values \in Seq(Seq(Block)) :
               Partway(values) /\ Enough(target.pages \cup Replay(FlattenSeq(values)))
    BY <1>6 DEF DownloadOK
  <2>2. PICK p : p = target.pages \cup Replay(FlattenSeq(values))
    OBVIOUS
  <2>3. Partway(values)' /\ Enough(p)'
    BY <1>3, <1>4, <1>6, <2>1, <2>2
  <2> QED
    BY <1>1, <2>2, <2>3
<1>7. ASSUME rstep = "replay" PROVE Enough(target.pages \cup Replay(targetWal.blocks))'
  <2>1. PICK p : p = target.pages \cup Replay(targetWal.blocks)
    OBVIOUS
  <2>2. Enough(p)'
    BY <1>3, <1>7, <2>1 DEF DownloadOK
  <2> QED
    BY <1>1, <2>1, <2>2
<1> QED
  BY <1>1, <1>5, <1>6, <1>7 DEF DownloadOK

\* The segments it will download, one value for each.
LEMMA PartwayBegins ==
  ASSUME UNCHANGED managerVars, NEW g, restoring' = g, wal_data' = <<>>,
         NEW indexes \in Seq(Indexes), segments' = indexes,
         NEW values \in Seq(Seq(Block)), Len(values) = Len(indexes),
         \A n \in DOMAIN indexes :
           /\ Closed(WalKey(g, indexes[n]))
           /\ Stored(WalKey(g, indexes[n])) => bucket[WalKey(g, indexes[n])] = values[n]
  PROVE  Partway(values)'
<1>1. bucket' = bucket /\ \A k : Closed(k)' <=> Closed(k)
  BY SameBackup
<1>2. Len(values) - Len(indexes) = 0 /\ SubSeq(values, 1, 0) = <<>> /\ FlattenSeq(<<>>) = <<>>
  BY FlattenEmpty
<1>3. PICK j : j = 0
  OBVIOUS
<1>4. ASSUME NEW n \in DOMAIN indexes
      PROVE  Closed(WalKey(g, indexes[n]))' /\ (Stored(WalKey(g, indexes[n]))' => bucket'[WalKey(g, indexes[n])] = values[j + n])
  <2>1. j + n = n
    BY <1>3, <1>4
  <2> QED
    BY <1>1, <2>1 DEF Stored
<1>5. j \in Nat /\ Len(values) - Len(indexes) = j /\ wal_data' = FlattenSeq(SubSeq(values, 1, j))
  BY <1>2, <1>3
<1> QED
  BY <1>4, <1>5 DEF Partway

\* What is stored under a list of indexes.
LEMMA ListValues ==
  ASSUME TypeOK, StoredClosed, NEW g, NEW indexes \in Seq({i \in Indexes : Stored(WalKey(g, i))})
  PROVE  /\ indexes \in Seq(Indexes)
         /\ [n \in DOMAIN indexes |-> bucket[WalKey(g, indexes[n])]] \in Seq(Seq(Block))
         /\ Len([n \in DOMAIN indexes |-> bucket[WalKey(g, indexes[n])]]) = Len(indexes)
         /\ \A n \in DOMAIN indexes : Closed(WalKey(g, indexes[n])) /\ Stored(WalKey(g, indexes[n]))
<1> DEFINE S == {i \in Indexes : Stored(WalKey(g, i))}
<1>1. \A i \in S : Stored(WalKey(g, i)) /\ i \in Indexes
  OBVIOUS
<1>2. indexes \in Seq(S)
  OBVIOUS
<1> HIDE DEF S
<1>3. /\ \A n \in DOMAIN indexes : indexes[n] \in S
      /\ DOMAIN indexes = 1..Len(indexes) /\ Len(indexes) \in Nat
  BY <1>2
<1>4. ASSUME NEW n \in DOMAIN indexes
      PROVE  /\ Closed(WalKey(g, indexes[n])) /\ Stored(WalKey(g, indexes[n]))
             /\ bucket[WalKey(g, indexes[n])] \in Seq(Block)
  <2>1. PICK k : k = WalKey(g, indexes[n])
    OBVIOUS
  <2>2. Stored(k) /\ k[1] = "wal"
    BY <1>1, <1>3, <2>1 DEF WalKey
  <2>3. bucket[k] \in Seq(Block)
    BY <2>1, <2>2, SegmentKnown
  <2> QED
    BY <2>1, <2>2, <2>3 DEF StoredClosed, Stored
<1>5. indexes \in Seq(Indexes)
  BY <1>1, <1>2, <1>3
<1>6. PICK values : values = [n \in DOMAIN indexes |-> bucket[WalKey(g, indexes[n])]]
  OBVIOUS
<1>7. PICK T : T = Seq(Block)
  OBVIOUS
<1>8. values = [n \in 1..Len(indexes) |-> bucket[WalKey(g, indexes[n])]]
  BY <1>3, <1>6
<1>9. \A n \in 1..Len(indexes) : bucket[WalKey(g, indexes[n])] \in T
  BY <1>3, <1>4, <1>7
<1>10. values \in Seq(T) /\ Len(values) = Len(indexes)
  BY <1>3, <1>8, <1>9, IsASeq
<1> QED
  BY <1>4, <1>5, <1>6, <1>7, <1>10

\* restore_latest downloads what its manifest lists.
LEMMA DownloadManifest ==
  ASSUME RestoreSound, PastOK, LatestOK, Now, rstep = "get_manifest",
         UNCHANGED <<managerVars, found, moment, couldGive, target, restoring, wal_data>>,
         Stored(ManifestKey(restoring)), segments' = SegmentIndexes(restoring),
         rstep' = IF segments' = <<>> THEN "replay" ELSE "get_segment"
  PROVE  DownloadOK'
<1>1. PICK g, indexes : g = restoring /\ indexes = SegmentIndexes(g)
  OBVIOUS
<1>2. g \in Generations /\ Stored(ManifestKey(g))
  BY <1>1 DEF LatestOK
<1>3. Restorable(g)
  BY <1>2 DEF RestoreSound, SInv, AllDescribed, Restorable, SegmentsStored, Describes, Stored
<1>4. target.pages = bucket[SnapshotKey(g)]
  BY <1>1, <1>3 DEF LatestOK, Restorable
<1>5. Enough(Restored(g))
  BY <1>1, <1>2, RestoredEnough DEF LatestOK, RestoreSound
<1>6. indexes \in Seq({i \in Indexes : Stored(WalKey(g, i))})
  BY <1>1, <1>3, RestoredIndexes DEF RestoreSound
<1>7. PICK values : values = [n \in DOMAIN indexes |-> bucket[WalKey(g, indexes[n])]]
  OBVIOUS
<1>8. /\ indexes \in Seq(Indexes) /\ values \in Seq(Seq(Block)) /\ Len(values) = Len(indexes)
      /\ \A n \in DOMAIN indexes : Closed(WalKey(g, indexes[n])) /\ Stored(WalKey(g, indexes[n]))
  BY <1>6, <1>7, ListValues DEF RestoreSound, PastOK
<1>9. Restored(g) = target.pages \cup Replay(FlattenSeq(values))
  BY <1>1, <1>4, <1>7 DEF Restored, RestoredWal
<1>10. wal_data = <<>> /\ wal_data' = wal_data /\ restoring' = g /\ segments' = indexes /\ target' = target
  BY <1>1 DEF PastOK, FetchOK
<1>11. PICK p : p = target.pages \cup Replay(FlattenSeq(values))
  OBVIOUS
<1>12. Enough(p)'
  BY <1>5, <1>9, <1>11, EnoughSame
<1>13. CASE indexes = <<>>
  <2>1. Len(values) = 0
    BY <1>8, <1>13
  <2>2. values = <<>>
    BY <1>8, <2>1
  <2>3. p = target.pages
    BY <1>11, <2>2, FlattenEmpty, ReplaysNothing
  <2>4. PICK q : q = target'.pages \cup Replay(targetWal'.blocks)
    OBVIOUS
  <2>5. p \subseteq q
    BY <1>10, <2>3, <2>4
  <2>6. Enough(q)'
    BY <1>12, <2>5 DEF Enough
  <2> QED
    BY <1>10, <1>13, <2>4, <2>6 DEF DownloadOK
<1>14. CASE indexes # <<>>
  <2>1. Partway(values)'
    BY <1>7, <1>8, <1>10, PartwayBegins
  <2> QED
    BY <1>8, <1>10, <1>11, <1>12, <1>14, <2>1 DEF DownloadOK
<1> QED
  BY <1>13, <1>14

\* Without a manifest, the snapshot was enough.
LEMMA DownloadListed ==
  ASSUME RestoreSound, PastOK, LatestOK, Now, rstep = "list_wal", ~missed,
         UNCHANGED <<managerVars, found, moment, couldGive, target, restoring, wal_data>>,
         segments' = StoredIndexes(restoring),
         rstep' = IF segments' = <<>> THEN "replay" ELSE "get_segment"
  PROVE  DownloadOK'
<1>1. PICK g, indexes : g = restoring /\ indexes = StoredIndexes(g)
  OBVIOUS
<1>2. PICK p : p = target.pages
  OBVIOUS
<1>3. Enough(p)
  BY <1>2 DEF LatestOK
<1>4. ASSUME NEW q, p \subseteq q PROVE Enough(q)'
  <2>1. Enough(q)
    BY <1>3, <1>4, EnoughMore
  <2> QED
    BY <2>1, EnoughSame
<1>5. indexes \in Seq({i \in Indexes : Stored(WalKey(g, i))})
  BY <1>1, ListedIndexes
<1>6. PICK values : values = [n \in DOMAIN indexes |-> bucket[WalKey(g, indexes[n])]]
  OBVIOUS
<1>7. /\ indexes \in Seq(Indexes) /\ values \in Seq(Seq(Block)) /\ Len(values) = Len(indexes)
      /\ \A n \in DOMAIN indexes : Closed(WalKey(g, indexes[n])) /\ Stored(WalKey(g, indexes[n]))
  BY <1>5, <1>6, ListValues DEF RestoreSound, PastOK
<1>8. wal_data' = <<>> /\ restoring' = g /\ segments' = indexes /\ target'.pages = p
  BY <1>1, <1>2 DEF PastOK, FetchOK
<1>9. Partway(values)'
  BY <1>6, <1>7, <1>8, PartwayBegins
<1>10. Enough(target.pages \cup Replay(FlattenSeq(values)))'
  <2>1. PICK q : q = p \cup Replay(FlattenSeq(values))
    OBVIOUS
  <2> QED
    BY <1>4, <1>8, <2>1
<1>11. Enough(target.pages \cup Replay(targetWal.blocks))'
  <2>1. PICK q : q = p \cup Replay(targetWal'.blocks)
    OBVIOUS
  <2> QED
    BY <1>4, <1>8, <2>1
<1>12. rstep' \in {"replay", "get_segment"}
  OBVIOUS
<1> QED
  BY <1>7, <1>9, <1>10, <1>11, <1>12 DEF DownloadOK

\* The snapshot of a point in time goes to the target.
LEMMA DownloadSnapshot ==
  ASSUME RestoreSound, PastOK, DownloadOK, rstep = "get_snapshot", found.gen # 0, ~missed,
         UNCHANGED <<managerVars, found, moment, couldGive, restoring, segments, wal_data>>,
         Stored(SnapshotKey(restoring)), target'.pages = bucket[SnapshotKey(restoring)],
         rstep' = IF segments = <<>> THEN "replay" ELSE "get_segment"
  PROVE  DownloadOK'
<1>1. PICK values \in Seq(Seq(Block)) :
             /\ Partway(values)
             /\ Enough(bucket[SnapshotKey(restoring)] \cup Replay(FlattenSeq(values)))
  BY DEF DownloadOK
<1>2. Partway(values)'
  BY <1>1, PartwaySame
<1>3. PICK p : p = target'.pages
  OBVIOUS
<1>4. Enough(p \cup Replay(FlattenSeq(values)))
  BY <1>1, <1>3
<1>5. CASE segments # <<>>
  <2>1. PICK q : q = p \cup Replay(FlattenSeq(values))
    OBVIOUS
  <2>2. Enough(q)'
    BY <1>4, <2>1, EnoughSame
  <2>3. rstep' = "get_segment"
    BY <1>5
  <2> QED
    BY <1>2, <1>3, <2>1, <2>2, <2>3 DEF DownloadOK
<1>6. CASE segments = <<>>
  <2>1. Len(segments) = 0 /\ Len(values) \in Nat /\ Len(values) - 0 = Len(values)
    BY <1>6
  <2>2. SubSeq(values, 1, Len(values)) = values
    OBVIOUS
  <2>3. wal_data = FlattenSeq(values) /\ wal_data = <<>>
    BY <1>1, <2>1, <2>2 DEF Partway, PastOK, FetchOK
  <2>4. Enough(p)
    BY <1>4, <2>3, ReplaysNothing
  <2>5. PICK q : q = target'.pages \cup Replay(targetWal'.blocks)
    OBVIOUS
  <2>6. Enough(q)
    BY <1>3, <2>4, <2>5, EnoughMore
  <2>7. Enough(q)' /\ rstep' = "replay"
    BY <1>6, <2>6, EnoughSame
  <2> QED
    BY <2>5, <2>7 DEF DownloadOK
<1> QED
  BY <1>5, <1>6

\* One segment more, or the last one.
LEMMA DownloadSegment ==
  ASSUME RestoreSound, PastOK, DownloadOK, rstep = "get_segment", ~missed,
         UNCHANGED <<managerVars, found, moment, couldGive, restoring, target>>,
         NEW k, k = WalKey(restoring, Head(segments)), Stored(k),
         segments' = Tail(segments), wal_data' = wal_data \o bucket[k],
         rstep' = IF Len(segments) = 1 THEN "replay" ELSE "get_segment",
         Len(segments) = 1 => targetWal'.blocks = wal_data'
  PROVE  DownloadOK'
<1>1. PICK values \in Seq(Seq(Block)) :
             Partway(values) /\ Enough(target.pages \cup Replay(FlattenSeq(values)))
  BY DEF DownloadOK
<1>2. segments \in Seq(Indexes) /\ segments # <<>>
  BY DEF RestoreSound, FetchTypeOK, PastOK, FetchOK
<1>3. Partway(values)' /\ (Len(segments) = 1 => wal_data' = FlattenSeq(values))
  BY <1>1, <1>2, PartwayNext
<1>4. PICK p : p = target.pages \cup Replay(FlattenSeq(values))
  OBVIOUS
<1>5. Enough(p)'
  BY <1>1, <1>4, EnoughSame
<1>6. CASE Len(segments) = 1
  <2>1. rstep' = "replay" /\ p = target'.pages \cup Replay(targetWal'.blocks)
    BY <1>3, <1>4, <1>6
  <2> QED
    BY <1>5, <2>1 DEF DownloadOK
<1>7. CASE Len(segments) # 1
  <2>1. rstep' = "get_segment" /\ p = target'.pages \cup Replay(FlattenSeq(values))
    BY <1>4, <1>7
  <2> QED
    BY <1>3, <1>5, <2>1 DEF DownloadOK
<1> QED
  BY <1>6, <1>7

\* A step of the restore: choosing a generation is left to DownloadChosen.
LEMMA DownloadRestoring ==
  ASSUME RestoreSound, PastOK, LatestOK, DownloadOK, Restoring, UNCHANGED managerVars,
         ChooseGeneration => DownloadOK'
  PROVE  DownloadOK'
<1>1. CASE missed' \/ rstep' \notin {"get_snapshot", "get_segment", "replay"}
  BY <1>1 DEF DownloadOK
<1>2. CASE Ends \/ Failed \/ ReplayWal \/ AutoRestoreSkipped \/ BeginRestore \/ AutoRestore
           \/ BeginRestoreToTime \/ ListManifests \/ ReadManifest
  <2>1. rstep' \notin {"get_snapshot", "get_segment", "replay"}
    BY <1>2 DEF Failed, Ends, ReplayWal, AutoRestoreSkipped, BeginRestore, AutoRestore, BeginRestoreToTime,
                Begin, ListManifests, ReadManifest, Goes
  <2> QED
    BY <1>1, <2>1
<1>3. UNCHANGED moment
  BY MomentKept
<1>4. CASE GetLatest /\ ~Failed
  <2>1. rstep = "get_latest" /\ rstep' = "get_snapshot" /\ found' = found
    BY <1>4 DEF GetLatest, GetFailed, Goes
  <2>2. found'.gen = 0
    BY <2>1 DEF PastOK, FoundOK
  <2> QED
    BY <2>1, <2>2 DEF DownloadOK
<1>5. CASE GetSnapshot /\ ~Failed /\ ~missed'
  <2>1. /\ rstep = "get_snapshot" /\ ~missed /\ Stored(SnapshotKey(restoring))
        /\ UNCHANGED <<found, couldGive, restoring, segments, wal_data>>
        /\ target'.pages = bucket[SnapshotKey(restoring)]
        /\ rstep' = IF found.gen = 0 THEN "get_manifest" ELSE IF segments = <<>> THEN "replay" ELSE "get_segment"
    BY <1>5 DEF GetSnapshot, GetFailed, Goes, fetching
  <2>2. CASE found.gen = 0
    BY <1>1, <2>1, <2>2
  <2>3. CASE found.gen # 0
    BY <1>3, <2>1, <2>3, DownloadSnapshot
  <2> QED
    BY <2>2, <2>3
<1>6. CASE GetManifest /\ ~missed'
  <2>1. /\ rstep = "get_manifest" /\ UNCHANGED <<found, couldGive, restoring, target, wal_data>>
        /\ \/ rstep' = "list_wal"
           \/ /\ Stored(ManifestKey(restoring)) /\ segments' = SegmentIndexes(restoring)
              /\ rstep' = IF segments' = <<>> THEN "replay" ELSE "get_segment"
    BY <1>6 DEF GetManifest, Listed, Goes, files, fetching
  <2>2. Now
    BY <2>1 DEF Now, Downloading, PointInTime, PastOK, FoundOK
  <2>3. CASE rstep' = "list_wal"
    BY <1>1, <2>3
  <2>4. CASE rstep' # "list_wal"
    BY <1>3, <2>1, <2>2, <2>4, DownloadManifest
  <2> QED
    BY <2>3, <2>4
<1>7. CASE ListWal /\ ~missed'
  <2>1. /\ rstep = "list_wal" /\ UNCHANGED <<found, couldGive, restoring, target, wal_data>> /\ ~missed
        /\ segments' = StoredIndexes(restoring)
        /\ rstep' = IF segments' = <<>> THEN "replay" ELSE "get_segment"
    <3>1. PICK indexes :
                 /\ Goes("list_wal", IF indexes = <<>> THEN "replay" ELSE "get_segment")
                 /\ Listed(indexes)
                 /\ missed' = (missed \/ indexes # StoredIndexes(restoring))
      BY <1>7 DEF ListWal
    <3>2. ~missed /\ indexes = StoredIndexes(restoring)
      BY <1>7, <3>1, Zenon
    <3> QED
      BY <3>1, <3>2 DEF Listed, Goes, files
  <2>2. Now
    BY <2>1 DEF Now, Downloading, PointInTime, PastOK, FoundOK
  <2> QED
    BY <1>3, <2>1, <2>2, DownloadListed
<1>8. CASE GetSegment /\ ~Failed /\ ~missed'
  <2>1. PICK k : k = WalKey(restoring, Head(segments))
    OBVIOUS
  <2>2. /\ rstep = "get_segment" /\ UNCHANGED <<found, couldGive, restoring, target>> /\ ~missed
        /\ Stored(k) /\ segments' = Tail(segments) /\ wal_data' = wal_data \o bucket[k]
        /\ rstep' = (IF Len(segments) = 1 THEN "replay" ELSE "get_segment")
        /\ Len(segments) = 1 => targetWal'.blocks = wal_data'
    <3>1. /\ rstep = "get_segment" /\ Stored(k) /\ segments' = Tail(segments) /\ wal_data' = Concatenated(k)
          /\ Goes("get_segment", IF Len(segments) = 1 THEN "replay" ELSE "get_segment")
          /\ targetWal' = IF Len(segments) = 1
                          THEN [by |-> restores, blocks |-> wal_data'] ELSE targetWal
          /\ UNCHANGED <<target, restoring, found, missed>>
      BY <1>8, <2>1 DEF GetSegment, GetFailed, SegmentKey
    <3>2. ~missed
      BY <1>8, <3>1
    <3>3. rstep' = IF Len(segments) = 1 THEN "replay" ELSE "get_segment"
      BY <3>1 DEF Goes
    <3>4. couldGive' = couldGive
      BY <3>1, <3>3 DEF Goes
    <3>5. Len(segments) = 1 => targetWal'.blocks = wal_data'
      BY <3>1
    <3> QED
      BY <3>1, <3>2, <3>3, <3>4, <3>5 DEF Concatenated
  <2> QED
    BY <1>3, <2>1, <2>2, DownloadSegment
<1> QED
  BY <1>1, <1>2, <1>4, <1>5, <1>6, <1>7, <1>8
     DEF Restoring, Interrupted, SnapshotCutShort, WalCutShort, CutShort

-----------------------------------------------------------------------------
(* The stamps of the snapshots. *)

\* s is the stamp of the snapshot of generation g, in the bucket or in memory.
HasStamp(g, s) ==
  \/ g \in DOMAIN published /\ s = published[g].snapshot
  \/ running /\ step \notin BeforeReset /\ g = generation /\ s = snapshotStamp

\* The generation that a snapshot begins is not the latest and has no manifest.
Begun ==
  running /\ step \in BeforeReset \cup {"put_snapshot_manifest"} =>
    /\ ~Stored(ManifestKey(generation))
    /\ step \in BeforeReset /\ Stored(LatestKey) => Latest < generation

\* The manifest of a new generation is stored after `latest` names it.
LEMMA ManifestBegins ==
  ASSUME [Next]_vars, step' = "put_snapshot_manifest"
  PROVE  (step = "put_snapshot_manifest" /\ UNCHANGED bucket) \/ step = "put_latest"
<1>1. CASE AppStep \/ UNCHANGED vars
  BY <1>1 DEF AppStep, vars, call
<1>2. CASE New \/ CheckpointWal \/ Snapshot
  BY <1>2 DEF New, CheckpointWal, Snapshot, EnterSnapshot, Idle
<1>3. ASSUME NEW c, SyncWal(c) PROVE FALSE
  BY <1>3, SyncReturnStep DEF SyncWal, ReadNewFrames, Recover, EnterSnapshot
<1>4. ASSUME NEW o, PutSegment(o) \/ PutSegmentManifest(o) PROVE FALSE
  BY <1>4, SyncReturnStep DEF PutSegment, PutSegmentManifest
<1>5. ASSUME NEW o, ReadDb(o) \/ PutSnapshot(o) \/ PutSnapshotManifest(o) PROVE FALSE
  BY <1>5, SnapshotReturnAny DEF ReadDb, PutSnapshot, PutSnapshotManifest
<1>6. CASE \E o : PutLatest(o)
  BY <1>6 DEF PutLatest
<1>7. CASE Compaction \/ Retention
  BY <1>7 DEF Compaction, Compact, CompactGet, CompactPut, CompactManifest, CompactDelete, Idle,
              Retention, EnforceRetention, RetentionNext, RetentionDelete
<1>8. CASE Drop \/ Crash
  BY <1>8 DEF Drop, Crash, Gone, Idle
<1> QED
  BY <1>1, <1>2, <1>3, <1>4, <1>5, <1>6, <1>7, <1>8 DEF Next, Manager, Sync, TakeSnapshot

\* Steps of the manager keep that.
LEMMA BegunNext ==
  ASSUME NoFailures, "snapshot" \notin Calls, TypeOK, TypeOK', StepOK, RInv, SnapshotsClosed, Begun, [Next]_vars
  PROVE  Begun'
<1> SUFFICES ASSUME running', step' \in BeforeReset \cup {"put_snapshot_manifest"}
             PROVE  /\ ManifestKey(generation') \notin DOMAIN bucket'
                    /\ step' \in BeforeReset /\ Stored(LatestKey)' => Latest' < generation'
  BY DEF Begun, Stored, ManifestKey
<1>0. generation \in Nat /\ LatestKey[2] = 0
  BY DEF TypeOK, ManagerTypeOK, LatestKey
<1>1. CASE NextGen
  <2>1. bucket' = bucket /\ generation' = generation + 1
    BY <1>1 DEF NextGen
  <2>2. ManifestKey(generation')[2] = generation + 1 /\ ~(generation + 1 <= generation)
    BY <1>0, <2>1 DEF ManifestKey
  <2>3. ManifestKey(generation') \notin DOMAIN bucket'
    BY <2>1, <2>2 DEF RInv, Base, Fresh
  <2>4. Stored(LatestKey)' => Latest' < generation'
    <3>1. ASSUME Stored(LatestKey) PROVE Latest \in Nat /\ Latest <= generation
      BY <1>0, <3>1 DEF SnapshotsClosed, Closed, SnapshotKey, Generations
    <3>2. Latest' = Latest /\ (Stored(LatestKey)' <=> Stored(LatestKey))
      BY <2>1 DEF Latest, Stored
    <3> QED
      BY <1>0, <2>1, <3>1, <3>2
  <2> QED
    BY <2>3, <2>4
<1>2. CASE SameGen
  <2>1. generation' = generation /\ running
    BY <1>2 DEF SameGen
  <2>2. step \in BeforeReset \cup {"put_snapshot_manifest"}
    BY <1>2, ManifestBegins DEF SameGen, BeforeReset
  <2>3. ~Stored(ManifestKey(generation))
    BY <2>1, <2>2 DEF Begun
  <2>4. ManifestKey(generation) \notin DOMAIN bucket'
    <3>1. CASE step \in BeforeReset
      BY <2>3, <3>1, ManifestsStep DEF ManifestPut, Untouched, Stored, ManifestLanded, ManifestSteps, BeforeReset
    <3>2. CASE step = "put_snapshot_manifest"
      <4>1. step' \notin BeforeReset
        BY <1>2, <3>2 DEF SameGen, BeforeReset
      <4>2. UNCHANGED bucket
        BY <3>2, <4>1, ManifestBegins
      <4> QED
        BY <2>3, <4>2 DEF Stored
    <3> QED
      BY <2>2, <3>1, <3>2
  <2>5. ASSUME step' \in BeforeReset, Stored(LatestKey)' PROVE Latest' < generation
    <3>1. step \in BeforeReset
      BY <1>2, <2>5 DEF SameGen
    <3>2. ~PutLatest("ok")
      BY <2>5 DEF PutLatest, BeforeReset
    <3>3. Untouched(LatestKey)
      BY <2>5, <3>2, LatestPuts DEF Stored, LatestKey
    <3>4. Stored(LatestKey) /\ Latest' = Latest
      BY <3>3 DEF Untouched, Stored, Latest
    <3> QED
      BY <2>1, <3>1, <3>4 DEF Begun
  <2> QED
    BY <2>1, <2>4, <2>5
<1> QED
  BY <1>1, <1>2, PhasesStep DEF PhaseStep

\* A snapshot gets its stamp when `latest` is to name it.
LEMMA StampStep ==
  ASSUME NoFailures, "snapshot" \notin Calls, TypeOK, TypeOK', StepOK, StampsTypeOK, [Next]_vars, Stamp,
         NEW g \in Generations, NEW s, HasStamp(g, s)'
  PROVE  \/ HasStamp(g, s)
         \/ g = generation /\ running /\ step \in BeforeReset /\ s = now_ms /\ PutLatest("ok")
<1>1. ManifestPut /\ PhaseStep
  BY ManifestsStep, PhasesStep
<1>2. CASE g \in DOMAIN published' /\ s = published'[g].snapshot
  <2>1. ManifestKey(g) \in DOMAIN bucket'
    BY <1>2 DEF Stamp, NextPublished
  <2>2. published'[g] = IF g = generation /\ ManifestLanded
                        THEN [snapshot |-> snapshotStamp, segments |-> segmentStamps]
                        ELSE published[g]
    BY <2>1 DEF Stamp, NextPublished
  <2>3. CASE g = generation /\ ManifestLanded
    <3>1. running /\ step \notin BeforeReset
      BY <2>3 DEF ManifestLanded, ManifestSteps, BeforeReset, StepOK
    <3> QED
      BY <1>2, <2>2, <2>3, <3>1 DEF HasStamp
  <2>4. CASE ~(g = generation /\ ManifestLanded)
    <3>1. g \in DOMAIN published
      BY <1>1, <2>1, <2>4 DEF ManifestPut, Untouched, StampsTypeOK, Stored
    <3> QED
      BY <1>2, <2>2, <2>4, <3>1 DEF HasStamp
  <2> QED
    BY <2>3, <2>4
<1>3. CASE running' /\ step' \notin BeforeReset /\ g = generation' /\ s = snapshotStamp'
  <2>1. SameGen
    BY <1>1, <1>3 DEF PhaseStep, NextGen, BeforeReset
  <2>2. running /\ generation' = generation
    BY <1>3, <2>1 DEF SameGen
  <2>3. CASE step \in BeforeReset
    <3>1. PutLatest("ok")
      BY <1>3, <2>2, <2>3, ResetStep
    <3>2. snapshotStamp' = now_ms
      BY <3>1 DEF PutLatest, Stamp, SnapshotStamped
    <3> QED
      BY <1>3, <2>2, <2>3, <3>1, <3>2
  <2>4. CASE step \notin BeforeReset
    <3>1. snapshotStamp' = snapshotStamp
      BY <2>2, <2>4 DEF Stamp, SnapshotStamped, BeforeReset
    <3> QED
      BY <1>3, <2>2, <2>4, <3>1 DEF HasStamp
  <2> QED
    BY <2>3, <2>4
<1> QED
  BY <1>2, <1>3 DEF HasStamp

\* Stamps are of the past and grow with the generations; those of generations
\* that were begun after the point in time are later than it.
StampsOK ==
  /\ \A g \in Generations : \A s : HasStamp(g, s) =>
       /\ s \in Nat /\ s <= now_ms /\ (g < generation => s < now_ms)
       /\ Stored(LatestKey) /\ g <= Latest
       /\ moment.gen # 0 => (s <= moment.time <=> g <= moment.gen)
  /\ \A g, h \in Generations : \A s, t : HasStamp(g, s) /\ HasStamp(h, t) /\ g < h => s < t
  /\ moment.gen # 0 => Stored(LatestKey) /\ moment.gen \in Generations /\ moment.gen <= Latest

\* The clock goes on with every generation.
LEMMA ClockGeneration ==
  ASSUME TypeOK, StampsTypeOK, [Next]_vars, UNCHANGED ticks
  PROVE  /\ now_ms \in Nat /\ now_ms' \in Nat /\ now_ms <= now_ms'
         /\ generation \in Nat /\ generation' \in Nat /\ generation <= generation'
         /\ generation' # generation => now_ms < now_ms'
<1>1. commits \in Nat /\ generation \in Nat /\ ticks \in Nat
  BY DEF TypeOK, SqliteTypeOK, ManagerTypeOK, StampsTypeOK
<1>2. commits' \in {commits, commits + 1} /\ generation' \in {generation, generation + 1}
  BY CommitsStep, ObjectsStep DEF GenerationStep
<1>3. commits' \in Nat /\ generation' \in Nat /\ commits <= commits' /\ generation <= generation'
  BY <1>1, <1>2
<1>4. now_ms = commits + generation + ticks /\ now_ms' = commits' + generation' + ticks
  BY DEF now_ms
<1>5. ASSUME generation' # generation PROVE now_ms < now_ms'
  <2>1. \A a, c, b, e \in Nat : a <= c => a + b + e < c + (b + 1) + e
    OBVIOUS
  <2> QED
    BY <1>1, <1>2, <1>3, <1>4, <1>5, <2>1
<1> QED
  BY <1>1, <1>3, <1>5, ClockStep

\* Steps of the manager keep the stamps in their order.
LEMMA StampsBeside ==
  ASSUME NoFailures, "snapshot" \notin Calls, RestoreSound, RestoreSound', PastOK, Begun, StampsOK,
         [Next]_vars, Stamp, MomentStays
  PROVE  StampsOK'
<1> USE DEF RestoreSound, PastOK
<1>1. /\ now_ms \in Nat /\ now_ms' \in Nat /\ now_ms <= now_ms'
      /\ generation \in Nat /\ generation' \in Nat /\ generation <= generation'
      /\ generation' # generation => now_ms < now_ms'
  BY ClockGeneration DEF Stamp
<1>2. Stored(LatestKey) => /\ Stored(LatestKey)' /\ Latest <= Latest'
                           /\ Latest \in Nat /\ Latest' \in Nat /\ Latest <= generation
  <2> SUFFICES ASSUME Stored(LatestKey) PROVE /\ Stored(LatestKey)' /\ Latest <= Latest'
                           /\ Latest \in Nat /\ Latest' \in Nat /\ Latest <= generation
    OBVIOUS
  <2>1. LatestKey \in DOMAIN bucket' /\ Latest <= Latest' /\ Latest \in Generations /\ Latest' \in Nat
    BY LatestStep
  <2>2. Closed(SnapshotKey(Latest)) /\ Latest \in Nat
    BY <2>1, KeysAssumption DEF SnapshotsClosed, Generations
  <2>3. Latest <= generation
    BY <1>1, <2>2 DEF Closed, SnapshotKey
  <2> QED
    BY <2>1, <2>2, <2>3 DEF Stored, LatestKey
<1>3. \A g \in Generations : g \in Nat
  BY DEF Generations
<1>4. ASSUME moment.gen # 0
      PROVE  moment.time \in Nat /\ moment.time < now_ms /\ moment.gen \in Nat
  BY <1>4 DEF DatesOK, MomentTypeOK
<1>5. moment'.gen = moment.gen /\ moment'.time = moment.time
  BY DEF MomentStays
<1>6. ASSUME NEW g \in Generations, NEW s, HasStamp(g, s)
      PROVE  /\ s \in Nat /\ s <= now_ms' /\ (g < generation' => s < now_ms')
             /\ Stored(LatestKey)' /\ g <= Latest'
             /\ moment.gen # 0 => (s <= moment.time <=> g <= moment.gen)
  <2>1. /\ s \in Nat /\ s <= now_ms /\ (g < generation => s < now_ms)
        /\ Stored(LatestKey) /\ g <= Latest
        /\ moment.gen # 0 => (s <= moment.time <=> g <= moment.gen)
    BY <1>6 DEF StampsOK
  <2>2. g <= Latest' /\ s <= now_ms'
    BY <1>1, <1>2, <1>3, <2>1
  <2>3. g < generation' => s < now_ms'
    BY <1>1, <1>3, <2>1
  <2> QED
    BY <1>2, <2>1, <2>2, <2>3
<1>7. ASSUME NEW s, running, step \in BeforeReset, s = now_ms, PutLatest("ok")
      PROVE  /\ s \in Nat /\ s <= now_ms' /\ (generation < generation' => s < now_ms')
             /\ Stored(LatestKey)' /\ generation <= Latest'
             /\ moment.gen # 0 => (s <= moment.time <=> generation <= moment.gen)
             /\ \A h \in Generations : \A t : HasStamp(h, t) => h < generation /\ t < s
  <2>1. Stored(LatestKey)' /\ Latest' = generation
    BY <1>7 DEF PutLatest, PutObject, Latest, Stored, LatestKey
  <2>2. Stored(LatestKey) => Latest < generation
    BY <1>7 DEF Begun
  <2>3. moment.gen # 0 => moment.gen < generation /\ ~(s <= moment.time)
    <3> SUFFICES ASSUME moment.gen # 0 PROVE moment.gen < generation /\ ~(s <= moment.time)
      OBVIOUS
    <3>1. Stored(LatestKey) /\ moment.gen <= Latest
      BY DEF StampsOK
    <3> QED
      BY <1>1, <1>2, <1>4, <1>7, <2>2, <3>1
  <2>4. ASSUME NEW h \in Generations, NEW t, HasStamp(h, t) PROVE h < generation /\ t < s
    <3>1. Stored(LatestKey) /\ h <= Latest /\ t \in Nat /\ (h < generation => t < now_ms)
      BY <2>4 DEF StampsOK
    <3>2. h < generation
      BY <1>1, <1>2, <1>3, <2>2, <3>1
    <3> QED
      BY <1>7, <3>1, <3>2
  <2>5. generation <= generation /\ s <= now_ms' /\ (generation < generation' => s < now_ms')
    BY <1>1, <1>7
  <2>6. moment.gen # 0 => ~(generation <= moment.gen)
    BY <1>1, <1>4, <2>3
  <2> QED
    BY <1>1, <1>7, <2>1, <2>3, <2>4, <2>5, <2>6
<1>8. ASSUME NEW g \in Generations, NEW s, HasStamp(g, s)'
      PROVE  \/ HasStamp(g, s)
             \/ g = generation /\ running /\ step \in BeforeReset /\ s = now_ms /\ PutLatest("ok")
  BY <1>8, StampStep
<1>9. ASSUME NEW g \in Generations, NEW s, HasStamp(g, s)'
      PROVE  /\ s \in Nat /\ s <= now_ms' /\ (g < generation' => s < now_ms')
             /\ Stored(LatestKey)' /\ g <= Latest'
             /\ moment'.gen # 0 => (s <= moment'.time <=> g <= moment'.gen)
  BY <1>5, <1>6, <1>7, <1>8, <1>9
<1>10. ASSUME NEW g \in Generations, NEW h \in Generations, NEW s, NEW t,
              HasStamp(g, s)', HasStamp(h, t)', g < h
       PROVE  s < t
  <2>1. CASE HasStamp(g, s) /\ HasStamp(h, t)
    BY <1>10, <2>1 DEF StampsOK
  <2>2. CASE ~HasStamp(h, t)
    <3>1. h = generation /\ running /\ step \in BeforeReset /\ t = now_ms /\ PutLatest("ok")
      BY <1>8, <1>10, <2>2
    <3>2. g # generation
      BY <1>3, <1>10, <3>1
    <3>3. HasStamp(g, s)
      BY <1>8, <1>10, <3>2
    <3> QED
      BY <1>7, <3>1, <3>3
  <2>3. CASE ~HasStamp(g, s)
    <3>1. g = generation /\ running /\ step \in BeforeReset /\ s = now_ms /\ PutLatest("ok")
      BY <1>8, <1>10, <2>3
    <3>2. h # generation
      BY <1>3, <1>10, <3>1
    <3>3. HasStamp(h, t)
      BY <1>8, <1>10, <3>2
    <3>4. h < generation
      BY <1>7, <3>1, <3>3
    <3> QED
      BY <1>1, <1>3, <1>10, <3>1, <3>4
  <2> QED
    BY <2>1, <2>2, <2>3
<1>11. moment'.gen # 0 => Stored(LatestKey)' /\ moment'.gen \in Generations /\ moment'.gen <= Latest'
  <2> SUFFICES ASSUME moment.gen # 0 PROVE Stored(LatestKey)' /\ moment.gen \in Generations /\ moment.gen <= Latest'
    BY <1>5
  <2>1. Stored(LatestKey) /\ moment.gen \in Generations /\ moment.gen <= Latest
    BY DEF StampsOK
  <2> QED
    BY <1>2, <1>4, <2>1
<1> QED
  <2>1. (\A g \in Generations : \A s : HasStamp(g, s) =>
          /\ s \in Nat /\ s <= now_ms /\ (g < generation => s < now_ms)
          /\ Stored(LatestKey) /\ g <= Latest
          /\ moment.gen # 0 => (s <= moment.time <=> g <= moment.gen))'
    BY <1>9
  <2>2. (\A g, h \in Generations : \A s, t : HasStamp(g, s) /\ HasStamp(h, t) /\ g < h => s < t)'
    BY <1>10
  <2>3. (moment.gen # 0 => Stored(LatestKey) /\ moment.gen \in Generations /\ moment.gen <= Latest)'
    BY <1>11
  <2> QED
    BY <2>1, <2>2, <2>3 DEF StampsOK

-----------------------------------------------------------------------------
(* A point in time forgets nothing. *)

\* Lists of one element or none, joined.
LEMMA JoinOne ==
  ASSUME NEW S, NEW f \in Seq(S), NEW e \in Seq(S), Len(e) = 1
  PROVE  /\ Len(f \o e) = Len(f) + 1 /\ (f \o e)[Len(f) + 1] = e[1]
         /\ \A n \in 1..Len(f) : (f \o e)[n] = f[n]
<1>1. PICK k, h : k = Len(f) /\ h = f \o e
  OBVIOUS
<1>2. /\ Len(h) = Len(f) + Len(e)
      /\ \A i \in 1 .. Len(f) + Len(e) : h[i] = IF i <= Len(f) THEN f[i] ELSE e[i - Len(f)]
  BY <1>1, ConcatProperties
<1>3. k \in Nat /\ Len(f) = k /\ Len(f) + Len(e) = k + 1
  BY <1>1
<1>4. Len(h) = k + 1
  BY <1>2, <1>3
<1>5. \A i \in 1..(k + 1) : h[i] = IF i <= k THEN f[i] ELSE e[i - k]
  BY <1>2, <1>3
<1>6. h[k + 1] = e[1]
  <2>1. k + 1 \in 1..(k + 1) /\ ~(k + 1 <= k) /\ (k + 1) - k = 1
    BY <1>3
  <2> QED
    BY <1>5, <2>1
<1>7. \A n \in 1..k : h[n] = f[n]
  <2>1. \A n \in 1..k : n \in 1..(k + 1) /\ n <= k
    BY <1>3
  <2> QED
    BY <1>5, <2>1
<1> QED
  BY <1>1, <1>4, <1>6, <1>7

\* The empty list adds nothing.
LEMMA JoinNone ==
  ASSUME NEW S, NEW f \in Seq(S), NEW e \in Seq(S), Len(e) = 0
  PROVE  f \o e = f
OBVIOUS

\* f holds the first elements of x.
Chosen(f, x, size) == Len(f) = size /\ \A n \in 1..size : f[n] = x[n]

\* What is chosen up to j, one element at a time, is the first j elements.
LEMMA FlattenChosen ==
  ASSUME NEW S, NEW parts \in Seq(Seq(S)), NEW x, NEW j \in 0..Len(parts),
         \A n \in 1..j : Len(parts[n]) = 1 /\ parts[n][1] = x[n],
         \A n \in (j + 1)..Len(parts) : Len(parts[n]) = 0
  PROVE  FlattenSeq(parts) \in Seq(S) /\ Chosen(FlattenSeq(parts), x, j)
<1> DEFINE F(k) == FlattenSeq(SubSeq(parts, 1, k))
           Size(k) == IF k <= j THEN k ELSE j
           T == {k \in Nat : k <= Len(parts) => Chosen(F(k), x, Size(k))}
<1>1. Len(parts) \in Nat /\ j \in Nat /\ j <= Len(parts)
  OBVIOUS
<1>2. ASSUME NEW k \in 0..Len(parts) PROVE F(k) \in Seq(S) /\ SubSeq(parts, 1, k) \in Seq(Seq(S))
  <2>1. PICK P : P = Seq(S)
    OBVIOUS
  <2>2. SubSeq(parts, 1, k) \in Seq(P)
    BY <1>1, <2>1
  <2> QED
    BY <2>1, <2>2, FlattenType
<1>3. 0 \in T
  <2>1. SubSeq(parts, 1, 0) = <<>>
    OBVIOUS
  <2>2. F(0) = <<>>
    BY <2>1, FlattenEmpty
  <2>3. Size(0) = 0
    BY <1>1
  <2>4. Chosen(<<>>, x, 0)
    BY DEF Chosen
  <2> QED
    BY <2>2, <2>3, <2>4
<1>4. ASSUME NEW k \in Nat, k \in T PROVE k + 1 \in T
  <2> SUFFICES ASSUME k + 1 <= Len(parts) PROVE Chosen(F(k + 1), x, Size(k + 1))
    OBVIOUS
  <2>1. k \in 0..Len(parts) /\ k + 1 \in 0..Len(parts) /\ k + 1 \in 1..Len(parts)
    BY <1>1
  <2>2. Chosen(F(k), x, Size(k))
    BY <1>4, <2>1
  <2>3. PICK p, q : p = SubSeq(parts, 1, k) /\ q = SubSeq(parts, 1, k + 1)
    OBVIOUS
  <2>4. p \in Seq(Seq(S)) /\ q \in Seq(Seq(S))
    BY <1>2, <2>1, <2>3
  <2>5. PICK P : P = Seq(S)
    OBVIOUS
  <2>6. /\ Len(q) = Len(p) + 1 /\ q[Len(q)] = parts[k + 1]
        /\ \A i \in 1..Len(p) : p[i] = q[i]
    <3>1. parts \in Seq(P)
      BY <2>5
    <3> QED
      BY <1>1, <2>1, <2>3, <3>1
  <2>7. F(k + 1) = F(k) \o parts[k + 1]
    <3>1. FlattenSeq(q) = FlattenSeq(p) \o q[Len(q)]
      BY <2>4, <2>6, FlattenLonger
    <3>2. F(k + 1) = FlattenSeq(q) /\ F(k) = FlattenSeq(p)
      BY <2>3
    <3> QED
      BY <2>6, <3>1, <3>2
  <2>8. PICK f, e, l, t : f = F(k) /\ e = parts[k + 1] /\ l = Size(k) /\ t = Size(k + 1)
    OBVIOUS
  <2>9. /\ f \in Seq(S) /\ e \in Seq(S) /\ Chosen(f, x, l) /\ F(k + 1) = f \o e
        /\ l = (IF k <= j THEN k ELSE j) /\ t = (IF k + 1 <= j THEN k + 1 ELSE j)
    <3>1. f \in Seq(S)
      BY <1>2, <2>1, <2>8
    <3>2. e \in Seq(S)
      BY <2>1, <2>8
    <3>3. Chosen(f, x, l) /\ F(k + 1) = f \o e
      BY <2>2, <2>7, <2>8
    <3>4. l = (IF k <= j THEN k ELSE j) /\ t = (IF k + 1 <= j THEN k + 1 ELSE j)
      BY <2>8
    <3> QED
      BY <3>1, <3>2, <3>3, <3>4
  <2> HIDE DEF F, Size, T
  <2>10. CASE k + 1 <= j
    <3>1. l = k /\ t = k + 1 /\ Len(e) = 1 /\ e[1] = x[k + 1]
      BY <1>1, <2>1, <2>8, <2>9, <2>10
    <3>2. Len(f) = k /\ \A n \in 1..k : f[n] = x[n]
      BY <2>9, <3>1 DEF Chosen
    <3>3. Len(f \o e) = k + 1 /\ (f \o e)[k + 1] = x[k + 1] /\ \A n \in 1..k : (f \o e)[n] = x[n]
      BY <2>9, <3>1, <3>2, JoinOne
    <3>4. \A n \in 1..(k + 1) : n = k + 1 \/ n \in 1..k
      OBVIOUS
    <3>5. Chosen(f \o e, x, k + 1)
      BY <3>3, <3>4 DEF Chosen
    <3> QED
      BY <2>8, <2>9, <3>1, <3>5
  <2>11. CASE ~(k + 1 <= j)
    <3>1. l = j /\ t = j /\ Len(e) = 0
      BY <1>1, <2>1, <2>8, <2>9, <2>11
    <3>2. f \o e = f
      BY <2>9, <3>1, JoinNone
    <3> QED
      BY <2>8, <2>9, <3>1, <3>2
  <2> QED
    BY <2>10, <2>11
<1>5. \A k \in Nat : k \in T
  <2> HIDE DEF T
  <2> QED
    BY <1>3, <1>4, Induction
<1>6. PICK k, d : k = Len(parts) /\ d = FlattenSeq(parts)
  OBVIOUS
<1>7. F(k) = d /\ d \in Seq(S)
  <2>1. SubSeq(parts, 1, Len(parts)) = parts
    OBVIOUS
  <2>2. F(k) = d
    BY <1>6, <2>1
  <2>3. k \in 0..Len(parts)
    BY <1>1, <1>6
  <2>4. F(k) \in Seq(S)
    BY <1>2, <2>3
  <2> HIDE DEF F
  <2> QED
    BY <2>2, <2>4
<1>8. Size(k) = j
  BY <1>1, <1>6
<1>9. Chosen(F(k), x, Size(k))
  <2>1. k \in T /\ k <= Len(parts)
    BY <1>1, <1>5, <1>6
  <2>2. \A i \in T : i <= Len(parts) => Chosen(F(i), x, Size(i))
    OBVIOUS
  <2> HIDE DEF T, F, Size
  <2> QED
    BY <2>1, <2>2
<1> QED
  BY <1>6, <1>7, <1>8, <1>9

\* The segments of a manifest up to a point in time that follows the first j.
LEMMA UpToFirst ==
  ASSUME TypeOK, NEW g, Stored(ManifestKey(g)), NEW time, NEW m, m = bucket[ManifestKey(g)],
         NEW j \in 0..Len(m), \A n \in DOMAIN m : published[g].segments[n] <= time <=> n <= j
  PROVE  LET f == SegmentsUpTo(g, time) IN Len(f) = j /\ \A n \in 1..j : f[n] = m[n].index
<1>1. m \in Seq(SegmentMeta)
  BY DEF Stored, TypeOK, BucketTypeOK, ObjectTypeOK, ManifestKey
<1>2. Len(m) \in Nat /\ DOMAIN m = 1..Len(m)
  BY <1>1
<1>3. PICK x : x = [n \in DOMAIN m |-> m[n].index]
  OBVIOUS
<1>4. PICK parts : parts = [n \in DOMAIN m |-> IF published[g].segments[n] <= time THEN <<m[n].index>> ELSE <<>>]
  OBVIOUS
<1>5. PICK S, P : S = Indexes /\ P = Seq(S)
  OBVIOUS
<1>6. /\ \A n \in 1..Len(m) : x[n] \in S /\ parts[n] \in {<<x[n]>>, <<>>}
      /\ \A n \in 1..j : Len(parts[n]) = 1 /\ parts[n][1] = x[n]
      /\ \A n \in (j + 1)..Len(m) : Len(parts[n]) = 0
  <2>1. \A n \in 1..Len(m) : n \in DOMAIN m /\ x[n] = m[n].index /\ m[n] \in SegmentMeta
    BY <1>1, <1>2, <1>3
  <2>2. \A n \in 1..Len(m) : parts[n] = IF published[g].segments[n] <= time THEN <<x[n]>> ELSE <<>>
    BY <1>4, <2>1
  <2>3. \A n \in 1..Len(m) : published[g].segments[n] <= time <=> n <= j
    BY <1>2
  <2>4. \A n \in 1..j : n \in 1..Len(m) /\ n <= j
    BY <1>2
  <2>5. \A n \in (j + 1)..Len(m) : n \in 1..Len(m) /\ ~(n <= j)
    BY <1>2
  <2>6. \A n \in 1..Len(m) : x[n] \in S
    BY <1>5, <2>1 DEF SegmentMeta
  <2>7. ASSUME NEW n \in 1..j PROVE Len(parts[n]) = 1 /\ parts[n][1] = x[n]
    <3>1. parts[n] = <<x[n]>>
      BY <2>2, <2>3, <2>4
    <3>2. PICK e : e = parts[n]
      OBVIOUS
    <3>3. e = <<x[n]>>
      BY <3>1, <3>2
    <3>4. Len(e) = 1 /\ e[1] = x[n]
      BY <3>3
    <3> QED
      BY <3>2, <3>4
  <2>8. ASSUME NEW n \in (j + 1)..Len(m) PROVE Len(parts[n]) = 0
    <3>1. parts[n] = <<>>
      BY <2>2, <2>3, <2>5
    <3> QED
      BY <3>1
  <2>9. \A n \in 1..Len(m) : parts[n] \in {<<x[n]>>, <<>>}
    BY <2>2
  <2> QED
    BY <2>6, <2>7, <2>8, <2>9
<1>7. \A n \in 1..Len(m) : parts[n] \in P
  <2> TAKE n \in 1..Len(m)
  <2>1. x[n] \in S => <<x[n]>> \in Seq(S)
    OBVIOUS
  <2>2. <<>> \in Seq(S)
    OBVIOUS
  <2> QED
    BY <1>5, <1>6, <2>1, <2>2
<1>8. parts \in [1..Len(m) -> P]
  BY <1>2, <1>4, <1>7
<1>9. parts \in Seq(P) /\ Len(parts) = Len(m)
  BY <1>2, <1>8
<1>10. Len(FlattenSeq(parts)) = j /\ \A n \in 1..j : FlattenSeq(parts)[n] = x[n]
  <2>1. parts \in Seq(Seq(S)) /\ j \in 0..Len(parts)
    BY <1>5, <1>9
  <2>2. /\ \A n \in 1..j : Len(parts[n]) = 1 /\ parts[n][1] = x[n]
        /\ \A n \in (j + 1)..Len(parts) : Len(parts[n]) = 0
    BY <1>6, <1>9
  <2>3. Chosen(FlattenSeq(parts), x, j)
    BY <2>1, <2>2, FlattenChosen
  <2> QED
    BY <2>3 DEF Chosen
<1>11. \A n \in 1..j : x[n] = m[n].index
  BY <1>2, <1>3
<1> QED
  BY <1>4, <1>10, <1>11 DEF SegmentsUpTo

-----------------------------------------------------------------------------
(* No segment is stamped with a time to come. *)

\* No stamp of the list is later than the time given.
Elapsed(st, time) == \A n \in DOMAIN st : st[n] <= time

\* No stamp is later than now, and every listed segment has one.
Timely ==
  /\ Elapsed(segmentStamps, now_ms) /\ Elapsed(newStamps, now_ms)
  /\ \A g \in DOMAIN published :
       /\ Elapsed(published[g].segments, now_ms)
       /\ Len(published[g].segments) = Len(bucket[ManifestKey(g)])

\* Time goes on.
LEMMA ElapsedLater ==
  ASSUME NEW st \in Seq(Nat), NEW t \in Nat, NEW u \in Nat, t <= u, Elapsed(st, t)
  PROVE  Elapsed(st, u)
BY DEF Elapsed

\* A segment is stamped with the time of its upload.
LEMMA ElapsedAppend ==
  ASSUME NEW st \in Seq(Nat), NEW t \in Nat, Elapsed(st, t)
  PROVE  Elapsed(Append(st, t), t)
BY DEF Elapsed

\* Steps of the manager keep that.
LEMMA TimelyBeside ==
  ASSUME TypeOK, TypeOK', StepOK, StampsTypeOK, Timely, [Next]_vars, Stamp
  PROVE  Timely'
<1>1. now_ms \in Nat /\ now_ms' \in Nat /\ now_ms <= now_ms'
  BY ClockStep DEF Stamp
<1>2. PICK t, u : t = now_ms /\ u = now_ms'
  OBVIOUS
<1>3. t \in Nat /\ u \in Nat /\ t <= u
  BY <1>1, <1>2
<1>4. ManifestStep /\ ManifestPut
  BY ManifestsStep
<1>5. /\ manifest \in Seq(SegmentMeta) /\ newSegments \in Seq(SegmentMeta)
      /\ segmentStamps \in Seq(Nat) /\ newStamps \in Seq(Nat) /\ Len(newStamps) = Len(newSegments)
      /\ Elapsed(segmentStamps, t) /\ Elapsed(newStamps, t)
  BY <1>2 DEF TypeOK, ManagerTypeOK, CallTypeOK, StampsTypeOK, Timely
<1>6. newStamps' \in Seq(Nat) /\ Elapsed(newStamps', t)
  <2>1. newStamps' = NextNewStamps
    BY DEF Stamp
  <2>2. CASE newSegments' = newSegments
    <3>1. newStamps' = SubSeq(newStamps, 1, Len(newStamps))
      BY <1>5, <2>1, <2>2 DEF NextNewStamps
    <3>2. newStamps' = newStamps
      BY <1>5, <3>1
    <3> QED
      BY <1>5, <3>2
  <2>3. CASE newSegments' = <<>>
    <3>1. newStamps' = SubSeq(newStamps, 1, 0)
      BY <1>5, <2>1, <2>3 DEF NextNewStamps
    <3>2. newStamps' = <<>>
      BY <1>5, <3>1
    <3> QED
      BY <3>2 DEF Elapsed
  <2>4. ASSUME NEW s \in SegmentMeta, newSegments' = Append(newSegments, s)
        PROVE  newStamps' \in Seq(Nat) /\ Elapsed(newStamps', t)
    <3>1. Len(newSegments') = Len(newSegments) + 1
      BY <1>5, <2>4
    <3>2. newStamps' = Append(newStamps, t)
      BY <1>2, <1>5, <2>1, <3>1 DEF NextNewStamps
    <3>3. PICK st : st = newStamps
      OBVIOUS
    <3>4. st \in Seq(Nat) /\ Elapsed(st, t)
      BY <1>5, <3>3
    <3>5. Elapsed(Append(st, t), t) /\ Append(st, t) \in Seq(Nat)
      BY <1>3, <3>4, ElapsedAppend
    <3> QED
      BY <3>2, <3>3, <3>5
  <2> QED
    BY <1>4, <2>2, <2>3, <2>4 DEF ManifestStep
<1>7. segmentStamps' \in Seq(Nat) /\ Elapsed(segmentStamps', t)
  <2>1. segmentStamps' = NextSegmentStamps
    BY DEF Stamp
  <2>2. CASE manifest' = manifest
    <3>1. segmentStamps' \in {segmentStamps, <<>>}
      BY <2>1, <2>2 DEF NextSegmentStamps
    <3>2. segmentStamps' = segmentStamps
      <4>1. manifest # <<>> => segmentStamps' = segmentStamps
        BY <2>1, <2>2 DEF NextSegmentStamps
      <4>2. manifest = <<>> => segmentStamps = <<>>
        BY <1>5 DEF StampsTypeOK
      <4> QED
        BY <3>1, <4>1, <4>2
    <3> QED
      BY <1>5, <3>2
  <2>3. CASE manifest' # manifest /\ manifest' = <<>>
    <3>1. segmentStamps' = <<>>
      BY <2>1, <2>3 DEF NextSegmentStamps
    <3>2. <<>> \in Seq(Nat) /\ \A n \in DOMAIN <<>> : FALSE
      OBVIOUS
    <3>3. Elapsed(<<>>, t)
      BY <3>2 DEF Elapsed
    <3> QED
      BY <3>1, <3>2, <3>3
  <2>4. CASE manifest' # manifest /\ manifest' # <<>>
    <3>1. segmentStamps' = IF step = "put_segment" THEN Append(segmentStamps, t) ELSE newStamps'
      BY <1>2, <2>1, <2>4 DEF NextSegmentStamps
    <3>2. CASE step = "put_segment"
      <4>1. PICK st : st = segmentStamps
        OBVIOUS
      <4>2. st \in Seq(Nat) /\ Elapsed(st, t)
        BY <1>5, <4>1
      <4>3. Elapsed(Append(st, t), t) /\ Append(st, t) \in Seq(Nat)
        BY <1>3, <4>2, ElapsedAppend
      <4> QED
        BY <3>1, <3>2, <4>1, <4>3
    <3>3. CASE step # "put_segment"
      BY <1>6, <3>1, <3>3
    <3> QED
      BY <3>2, <3>3
  <2> QED
    BY <2>2, <2>3, <2>4
<1>8. ASSUME NEW g \in DOMAIN published'
      PROVE  Elapsed(published'[g].segments, u) /\ Len(published'[g].segments) = Len(bucket'[ManifestKey(g)])
  <2>1. g \in Generations /\ ManifestKey(g) \in DOMAIN bucket'
    BY <1>8 DEF Stamp, NextPublished
  <2>2. published'[g] = IF g = generation /\ ManifestLanded
                        THEN [snapshot |-> snapshotStamp, segments |-> segmentStamps]
                        ELSE published[g]
    BY <2>1 DEF Stamp, NextPublished
  <2>3. PICK st : st = published'[g].segments
    OBVIOUS
  <2>4. st \in Seq(Nat) /\ Elapsed(st, t) /\ Len(st) = Len(bucket'[ManifestKey(g)])
    <3>1. CASE g = generation /\ ManifestLanded
      BY <1>5, <2>2, <2>3, <3>1 DEF ManifestLanded, StampsTypeOK
    <3>2. CASE ~(g = generation /\ ManifestLanded)
      <4>1. g \in DOMAIN published /\ bucket'[ManifestKey(g)] = bucket[ManifestKey(g)]
        BY <1>4, <2>1, <3>2 DEF ManifestPut, Untouched, StampsTypeOK, Stored
      <4>2. /\ published[g] \in Stamps /\ Elapsed(published[g].segments, t)
            /\ Len(published[g].segments) = Len(bucket[ManifestKey(g)])
        BY <1>2, <4>1 DEF StampsTypeOK, Timely
      <4> QED
        BY <2>2, <2>3, <3>2, <4>1, <4>2 DEF Stamps
    <3> QED
      BY <3>1, <3>2
  <2>5. Elapsed(st, u)
    BY <1>3, <2>4, ElapsedLater
  <2> QED
    BY <2>3, <2>4, <2>5
<1>9. Elapsed(segmentStamps', u)
  <2>1. PICK st : st = segmentStamps'
    OBVIOUS
  <2> QED
    BY <1>3, <1>7, <2>1, ElapsedLater
<1>10. Elapsed(newStamps', u)
  <2>1. PICK st : st = newStamps'
    OBVIOUS
  <2> QED
    BY <1>3, <1>6, <2>1, ElapsedLater
<1> QED
  BY <1>2, <1>8, <1>9, <1>10 DEF Timely

\* So does the choice of a moment: only the clock ticks.
LEMMA TimelyRemember ==
  ASSUME TypeOK, StampsTypeOK, Timely, Remember
  PROVE  Timely'
<1>1. commits \in Nat /\ generation \in Nat /\ ticks \in Nat
  BY DEF TypeOK, SqliteTypeOK, ManagerTypeOK, StampsTypeOK
<1>2. ticks' = ticks + 1 /\ commits' = commits /\ generation' = generation /\ bucket' = bucket
  BY DEF Remember, vars, sqliteVars, sqliteFiles, tracking
<1>3. UNCHANGED <<segmentStamps, newStamps, published>>
  BY DEF Remember
<1>4. now_ms \in Nat /\ now_ms' \in Nat /\ now_ms <= now_ms'
  BY <1>1, <1>2 DEF now_ms
<1>5. PICK t, u : t = now_ms /\ u = now_ms'
  OBVIOUS
<1>6. segmentStamps \in Seq(Nat) /\ newStamps \in Seq(Nat)
      /\ Elapsed(segmentStamps, t) /\ Elapsed(newStamps, t)
  BY <1>5 DEF StampsTypeOK, Timely
<1>7. ASSUME NEW st \in Seq(Nat), Elapsed(st, t) PROVE Elapsed(st, u)
  BY <1>4, <1>5, <1>7, ElapsedLater
<1>8. ASSUME NEW g \in DOMAIN published PROVE Elapsed(published[g].segments, u)
  <2>1. PICK st : st = published[g].segments
    OBVIOUS
  <2>2. st \in Seq(Nat) /\ Elapsed(st, t)
    BY <1>5, <2>1 DEF StampsTypeOK, Stamps, Timely
  <2> QED
    BY <1>7, <2>1, <2>2
<1>9. Elapsed(segmentStamps, u) /\ Elapsed(newStamps, u)
  BY <1>6, <1>7
<1> QED
  BY <1>2, <1>3, <1>5, <1>8, <1>9 DEF Timely

-----------------------------------------------------------------------------
(* The manifest in memory is that of the bucket, or one segment ahead. *)

\* While a segment is uploaded, memory lists one more than the bucket.
Uploading ==
  running /\ step = "put_segment_manifest" =>
    /\ Stored(ManifestKey(generation))
    /\ \E e : manifest = Append(bucket[ManifestKey(generation)], e)

\* A segment is listed in memory when it has been stored.
LEMMA SegmentBegins ==
  ASSUME NoFailures, [Next]_vars, step' = "put_segment_manifest"
  PROVE  \/ step = "put_segment_manifest" /\ UNCHANGED <<bucket, generation, manifest, running>>
         \/ PutSegment("ok")
<1>0. Outcomes = {"ok"} /\ IoOutcomes = {"ok"} /\ "io_error" \notin Env
  BY OnlyOk
<1>1. CASE AppStep \/ UNCHANGED vars
  BY <1>1 DEF AppStep, vars, call, tracking
<1>2. CASE New \/ CheckpointWal \/ Snapshot
  BY <1>2 DEF New, CheckpointWal, Snapshot, EnterSnapshot, Idle
<1>3. ASSUME NEW c, SyncWal(c) PROVE FALSE
  BY <1>3, SyncReturnStep DEF SyncWal, ReadNewFrames, Recover, EnterSnapshot
<1>4. ASSUME PutSegmentManifest("ok") PROVE FALSE
  BY <1>4, SyncReturnStep DEF PutSegmentManifest
<1>5. ASSUME NEW o, ReadDb(o) \/ PutSnapshot(o) \/ PutLatest(o) \/ PutSnapshotManifest(o) PROVE FALSE
  BY <1>5, SnapshotReturnAny DEF ReadDb, PutSnapshot, PutLatest, PutSnapshotManifest
<1>6. ASSUME Compaction \/ Retention PROVE FALSE
  BY <1>6 DEF Compaction, Compact, CompactGet, CompactPut, CompactManifest, CompactDelete, Idle,
              Retention, EnforceRetention, RetentionNext, RetentionDelete
<1>7. ASSUME Drop \/ Crash PROVE FALSE
  BY <1>7 DEF Drop, Crash, Gone, Idle
<1> QED
  BY <1>0, <1>1, <1>2, <1>3, <1>4, <1>5, <1>6, <1>7 DEF Next, Manager, Sync, TakeSnapshot

\* Steps of the manager keep that.
LEMMA UploadingNext ==
  ASSUME NoFailures, TypeOK, StepOK, SInv, Uploading, [Next]_vars
  PROVE  Uploading'
<1> SUFFICES ASSUME running', step' = "put_segment_manifest" PROVE Uploading'
  BY DEF Uploading
<1>1. CASE step = "put_segment_manifest" /\ UNCHANGED <<bucket, generation, manifest, running>>
  BY <1>1 DEF Uploading, Stored, ManifestKey
<1>2. CASE PutSegment("ok")
  <2>1. /\ step = "put_segment" /\ generation' = generation
        /\ bucket' = [k \in DOMAIN bucket \cup {WalKey(generation, wal_index)} |->
                        IF k = WalKey(generation, wal_index) THEN data ELSE bucket[k]]
        /\ \E e : manifest' = Append(manifest, e)
    BY <1>2, SyncReturnStep DEF PutSegment, PutObject
  <2>2. Published
    BY <2>1 DEF StepOK, SInv, ManagerOK, Settled
  <2>3. ManifestKey(generation) # WalKey(generation, wal_index)
    BY DEF ManifestKey, WalKey
  <2>4. PICK k : k = ManifestKey(generation)
    OBVIOUS
  <2>5. k \in DOMAIN bucket' /\ bucket'[k] = manifest
    BY <2>1, <2>2, <2>3, <2>4 DEF Published, Stored
  <2> QED
    BY <2>1, <2>4, <2>5 DEF Uploading, Stored
<1> QED
  BY <1>1, <1>2, SegmentBegins

-----------------------------------------------------------------------------
(* The manifest in memory grows until it is compacted or a generation begins. *)

\* Only the upload of a segment changes the list in memory, but for compaction.
LEMMA ManifestsKept ==
  ASSUME NoFailures, TypeOK, [Next]_vars, running', generation' = generation,
         step \notin BeforeReset, step' \notin BeforeReset \cup {"compact_manifest"}
  PROVE  manifest' = manifest \/ PutSegment("ok")
<1>0. Outcomes = {"ok"} /\ IoOutcomes = {"ok"} /\ "io_error" \notin Env
  BY OnlyOk
<1>1. CASE AppStep \/ UNCHANGED vars
  BY <1>1 DEF AppStep, vars, tracking
<1>2. CASE New \/ CheckpointWal \/ Snapshot
  BY <1>0, <1>2 DEF New, CheckpointWal, Snapshot, EnterSnapshot, BeforeReset
<1>3. ASSUME NEW c, SyncWal(c) PROVE manifest' = manifest
  BY <1>0, <1>3 DEF SyncWal, ReadNewFrames, Recover, EnterSnapshot, tracking, BeforeReset
<1>4. CASE PutSegmentManifest("ok")
  BY <1>4 DEF PutSegmentManifest
<1>5. CASE ReadDb("ok") \/ PutSnapshot("ok") \/ PutSnapshotManifest("ok")
  BY <1>5 DEF ReadDb, PutSnapshot, PutSnapshotManifest, tracking
<1>6. ASSUME PutLatest("ok") PROVE FALSE
  BY <1>6 DEF PutLatest, BeforeReset
<1>7. CASE Compaction
  BY <1>0, <1>7 DEF Compaction, Compact, CompactGet, CompactPut, CompactManifest, CompactDelete, tracking
<1>8. CASE Retention
  BY <1>8 DEF Retention, EnforceRetention, RetentionNext, RetentionDelete, tracking
<1>9. ASSUME Drop \/ Crash PROVE FALSE
  BY <1>9 DEF Drop, Crash, Gone
<1> QED
  BY <1>0, <1>1, <1>2, <1>3, <1>4, <1>5, <1>6, <1>7, <1>8, <1>9 DEF Next, Manager, Sync, TakeSnapshot

\* A compaction ends when its manifest has landed.
LEMMA CompactedStep ==
  ASSUME NoFailures, StepOK, [Next]_vars, step = "compact_manifest", running', step' # "compact_manifest"
  PROVE  ManifestLanded
<1>0. Outcomes = {"ok"} /\ IoOutcomes = {"ok"} /\ "io_error" \notin Env
  BY OnlyOk
<1>1. CompactManifest("ok") \/ New
  <2>1. ~(AppStep \/ UNCHANGED vars)
    BY DEF AppStep, vars, call
  <2>2. ~(Drop \/ Crash)
    BY DEF Drop, Crash, Gone
  <2> QED
    BY <1>0, <2>1, <2>2
       DEF Next, Manager, Sync, TakeSnapshot, Compaction, Retention, SyncWal, PutSegment,
         PutSegmentManifest, CheckpointWal, Snapshot, ReadDb, PutSnapshot, PutLatest,
         PutSnapshotManifest, Compact, Call, CompactGet, CompactPut, CompactDelete,
         EnforceRetention, RetentionNext, RetentionDelete
<1>2. CASE CompactManifest("ok")
  BY <1>2 DEF CompactManifest, PutObject, ManifestLanded, ManifestSteps
<1>3. CASE New
  BY <1>3 DEF New, StepOK
<1> QED
  BY <1>1, <1>2, <1>3

-----------------------------------------------------------------------------
(* What could be restored at the point in time stays in the backup. *)

\* The segments that were uploaded by then are the first ones of a manifest...
UpToMoment(m, st, j) == \A n \in DOMAIN m : st[n] <= moment.time <=> n <= j

\* ... and give, on the snapshot, what could be restored then.
GivesMoment(m, j) ==
  Stored(SnapshotKey(moment.gen)) =>
    moment.restorable \subseteq
      bucket[SnapshotKey(moment.gen)] \cup Replay(Joined(bucket, moment.gen, SubSeq(m, 1, j)))

\* A list of segments can be cut where the moment was.
PointKept(m, st) == \E j \in 0..Len(m) : UpToMoment(m, st, j) /\ GivesMoment(m, j)

\* There is a moment, and its generation was not compacted since.
Kept == moment.gen # 0 /\ ~moment.compacted

\* The manifest of its generation can be cut there, in the bucket and in memory.
MomentOK ==
  Kept =>
    /\ Stored(ManifestKey(moment.gen)) =>
         PointKept(bucket[ManifestKey(moment.gen)], published[moment.gen].segments)
    /\ running /\ generation = moment.gen /\ step \notin BeforeReset \cup {"compact_manifest"} =>
         PointKept(manifest, segmentStamps)

\* Steps of the manager leave the objects a list describes.
LEMMA PointKeptStep ==
  ASSUME NoFailures, "snapshot" \notin Calls, TypeOK, StepOK, [Next]_vars,
         NEW g \in Generations, moment.gen = g, moment'.gen = g, moment'.time = moment.time,
         moment'.restorable = moment.restorable, Closed(SnapshotKey(g)),
         NEW s, NEW m \in Seq(SegmentMeta), NEW st, ListDated(g, s, m, st),
         Describes(m, bucket', g), PointKept(m, st)
  PROVE  PointKept(m, st)'
<1>1. PICK j \in 0..Len(m) : UpToMoment(m, st, j) /\ GivesMoment(m, j)
  BY DEF PointKept
<1>2. UpToMoment(m, st, j)'
  BY <1>1 DEF UpToMoment
<1>3. PICK f : f = SubSeq(m, 1, j)
  OBVIOUS
<1>4. /\ Len(m) \in Nat /\ DOMAIN m = 1..Len(m) /\ \A n \in DOMAIN m : m[n] \in SegmentMeta
      /\ DOMAIN f = 1..j /\ \A n \in 1..j : f[n] = m[n] /\ n \in DOMAIN m /\ n <= j
  BY <1>1, <1>3
<1>5. g \in Nat
  BY DEF Generations
<1>6. ASSUME NEW n \in DOMAIN f
      PROVE  /\ WalKey(g, f[n].index) \in DOMAIN bucket'
             /\ bucket'[WalKey(g, f[n].index)] = bucket[WalKey(g, f[n].index)]
  <2>1. n \in DOMAIN m /\ f[n] = m[n] /\ st[n] <= moment.time
    BY <1>1, <1>4 DEF UpToMoment
  <2>2. PICK k : k = WalKey(g, m[n].index)
    OBVIOUS
  <2>3. k[1] = "wal" /\ k[2] \in Nat /\ k[3] \in Nat
    BY <1>4, <1>5, <2>1, <2>2 DEF WalKey, SegmentMeta, Indexes
  <2>4. Closed(k)
    BY <2>1, <2>2 DEF ListDated, Sealed
  <2>5. k \in DOMAIN bucket'
    BY <2>1, <2>2 DEF Describes
  <2>6. Untouched(k)
    BY <2>3, <2>4, <2>5, ClosedStep
  <2> QED
    BY <2>1, <2>2, <2>5, <2>6 DEF Untouched
<1>7. Joined(bucket', g, f) = Joined(bucket, g, f)
  <2>1. PICK b, c : b = bucket /\ c = bucket'
    OBVIOUS
  <2>2. Joined(c, g, f) = Joined(b, g, f)
    BY <1>6, <2>1, JoinedSame
  <2> QED
    BY <2>1, <2>2
<1>8. PICK r, w, k : r = moment.restorable /\ w = Joined(bucket, g, f) /\ k = SnapshotKey(g)
  OBVIOUS
<1>9. k \in DOMAIN bucket => r \subseteq bucket[k] \cup Replay(w)
  BY <1>1, <1>3, <1>8 DEF GivesMoment, Stored
<1>10. k \in DOMAIN bucket' => k \in DOMAIN bucket /\ bucket'[k] = bucket[k]
  <2>1. k[1] = "snapshot" /\ k[2] \in Nat /\ k[3] \in Nat
    BY <1>5, <1>8 DEF SnapshotKey
  <2> QED
    BY <1>8, <2>1, ClosedStep DEF Untouched
<1>11. k \in DOMAIN bucket' => r \subseteq bucket'[k] \cup Replay(w)
  BY <1>9, <1>10
<1>12. GivesMoment(m, j)'
  BY <1>3, <1>7, <1>8, <1>11 DEF GivesMoment, Stored
<1> QED
  BY <1>2, <1>12 DEF PointKept

\* A segment that is stamped later comes after the cut.
LEMMA PointKeptLonger ==
  ASSUME NEW m \in Seq(SegmentMeta), NEW st \in Seq(Nat), Len(st) = Len(m), PointKept(m, st)',
         NEW e \in SegmentMeta, NEW t, ~(t <= moment'.time)
  PROVE  PointKept(Append(m, e), Append(st, t))'
<1>1. PICK j \in 0..Len(m) : UpToMoment(m, st, j)' /\ GivesMoment(m, j)'
  BY DEF PointKept
<1>2. PICK n, p, q : n = Len(m) /\ p = Append(m, e) /\ q = Append(st, t)
  OBVIOUS
<1>3. /\ n \in Nat /\ Len(p) = n + 1 /\ DOMAIN p = 1..(n + 1) /\ DOMAIN m = 1..n
      /\ \A i \in 1..n : p[i] = m[i] /\ q[i] = st[i]
      /\ q[n + 1] = t
  BY <1>2
<1>4. UpToMoment(p, q, j)'
  <2> SUFFICES ASSUME NEW i \in 1..(n + 1) PROVE q[i] <= moment'.time <=> i <= j
    BY <1>3 DEF UpToMoment
  <2>1. CASE i = n + 1
    BY <1>1, <1>2, <1>3, <2>1
  <2>2. CASE i \in 1..n
    BY <1>1, <1>3, <2>2 DEF UpToMoment
  <2> QED
    BY <1>3, <2>1, <2>2
<1>5. SubSeq(p, 1, j) = SubSeq(m, 1, j)
  BY <1>1, <1>2, <1>3
<1>6. GivesMoment(p, j)'
  BY <1>1, <1>5 DEF GivesMoment
<1>7. j \in 0..Len(p)
  BY <1>1, <1>2, <1>3
<1> QED
  BY <1>2, <1>4, <1>6, <1>7 DEF PointKept

\* The element that a list ends with.
LEMMA LastElement ==
  ASSUME NEW S, NEW m \in Seq(S), NEW e, NEW p \in Seq(S), p = Append(m, e)
  PROVE  e \in S /\ p # <<>> /\ Len(p) = Len(m) + 1
<1>1. Len(m) \in Nat /\ Len(p) = Len(m) + 1 /\ p[Len(m) + 1] = e
  OBVIOUS
<1>2. p[Len(m) + 1] \in S
  BY <1>1
<1>3. Len(<<>>) = 0
  OBVIOUS
<1> QED
  BY <1>1, <1>2, <1>3

\* A list without its last segment describes the bucket as well.
LEMMA DescribesFirst ==
  ASSUME NEW b, NEW g, NEW m \in Seq(SegmentMeta), NEW e \in SegmentMeta, Describes(Append(m, e), b, g)
  PROVE  Describes(m, b, g)
<1>1. PICK p, k : p = Append(m, e) /\ k = Len(m)
  OBVIOUS
<1>2. p \in Seq(SegmentMeta) /\ Len(p) = k + 1 /\ k \in 0..Len(p) /\ Describes(p, b, g)
  BY <1>1
<1>3. SubSeq(p, 1, k) = m
  BY <1>1
<1> QED
  BY <1>2, <1>3, FirstSegments

\* Stamps change with the list they belong to.
LEMMA StampsSame ==
  ASSUME TypeOK, StampsTypeOK, Stamp, manifest' = manifest
  PROVE  segmentStamps' = segmentStamps
<1>1. segmentStamps' \in {segmentStamps, <<>>}
  BY DEF Stamp, NextSegmentStamps
<1>2. manifest # <<>> => segmentStamps' = segmentStamps
  BY DEF Stamp, NextSegmentStamps
<1>3. manifest = <<>> => segmentStamps = <<>>
  BY DEF TypeOK, ManagerTypeOK, StampsTypeOK
<1> QED
  BY <1>1, <1>2, <1>3

\* What the moment says stays but for the mark of a compaction.
LEMMA MomentBesideIs ==
  ASSUME MomentTypeOK, Witness
  PROVE  /\ MomentStays /\ moment'.restorable = moment.restorable
         /\ moment'.compacted = (moment.compacted \/ (/\ step = "compact_manifest"
                                                      /\ ManifestLanded
                                                      /\ generation = moment.gen))
BY DEF MomentTypeOK, Witness, MomentStays

\* Steps of the manager keep the moment, or mark it as compacted.
LEMMA MomentBeside ==
  ASSUME NoFailures, "snapshot" \notin Calls, RestoreSound, RestoreSound', PastOK, Begun, StampsOK, MomentOK,
         [Next]_vars, Stamp, Witness
  PROVE  MomentOK'
<1> USE DEF RestoreSound, PastOK
<1> SUFFICES ASSUME Kept' PROVE MomentOK'
  BY DEF MomentOK
<1>0. PICK g : g = moment.gen
  OBVIOUS
<1>1. /\ Kept /\ g # 0 /\ moment'.gen = g /\ moment'.time = moment.time
      /\ moment'.restorable = moment.restorable /\ MomentStays
      /\ ~(step = "compact_manifest" /\ ManifestLanded /\ generation = g)
  BY <1>0, MomentBesideIs, Zenon DEF Kept, MomentStays
<1>2. Stored(LatestKey) /\ g \in Generations /\ g <= Latest
  BY <1>0, <1>1 DEF StampsOK
<1>3. ManifestStep /\ ManifestPut /\ PhaseStep
  BY ManifestsStep, PhasesStep
<1>4. /\ Stored(ManifestKey(g)) => PointKept(bucket[ManifestKey(g)], published[g].segments)
      /\ running /\ generation = g /\ step \notin BeforeReset \cup {"compact_manifest"} =>
           PointKept(manifest, segmentStamps)
  BY <1>0, <1>1 DEF MomentOK
<1>5. running /\ step \notin BeforeReset /\ generation = g => Closed(SnapshotKey(g))
  BY DEF Closed, SnapshotKey
<1>6. /\ manifest \in Seq(SegmentMeta) /\ segmentStamps \in Seq(Nat) /\ Len(segmentStamps) = Len(manifest)
  BY DEF TypeOK, ManagerTypeOK, StampsTypeOK
\* the manifest in the bucket
<1>7. ASSUME ManifestKey(g) \in DOMAIN bucket'
      PROVE  PointKept(bucket[ManifestKey(g)], published[g].segments)'
  <2>1. published'[g] = IF g = generation /\ ManifestLanded
                        THEN [snapshot |-> snapshotStamp, segments |-> segmentStamps]
                        ELSE published[g]
    BY <1>2, <1>7 DEF Stamp, NextPublished
  <2>2. PICK m, st : m = bucket'[ManifestKey(g)] /\ st = published'[g].segments
    OBVIOUS
  <2>3. Describes(m, bucket', g)
    BY <1>2, <1>7, <2>2 DEF SInv, AllDescribed, Stored, ManifestKey
  <2>4. CASE g = generation /\ ManifestLanded
    <3>1. m = manifest /\ st = segmentStamps
      BY <2>1, <2>2, <2>4 DEF ManifestLanded
    <3>2. running /\ step \notin BeforeReset \cup {"compact_manifest"}
      BY <1>1, <2>4 DEF ManifestLanded, ManifestSteps, BeforeReset, StepOK
    <3>3. PointKept(m, st) /\ Closed(SnapshotKey(g))
      BY <1>4, <1>5, <2>4, <3>1, <3>2
    <3>4. ListDated(g, snapshotStamp, m, st)
      BY <1>0, <1>1, <2>4, <3>1, <3>2 DEF DatesOK
    <3>5. PICK s : s = snapshotStamp
      OBVIOUS
    <3>6. PointKept(m, st)'
      BY <1>0, <1>1, <1>2, <1>6, <2>3, <3>1, <3>3, <3>4, <3>5, PointKeptStep
    <3> QED
      BY <2>2, <3>6
  <2>5. CASE ~(g = generation /\ ManifestLanded)
    <3>1. Untouched(ManifestKey(g)) /\ published'[g] = published[g]
      BY <1>3, <1>7, <2>1, <2>5 DEF ManifestPut
    <3>2. Stored(ManifestKey(g)) /\ m = bucket[ManifestKey(g)] /\ st = published[g].segments
      BY <2>2, <3>1 DEF Untouched, Stored
    <3>3. PointKept(m, st) /\ m \in Seq(SegmentMeta)
      BY <1>4, <3>2 DEF Stored, TypeOK, BucketTypeOK, ObjectTypeOK, ManifestKey
    <3>4. PICK s : s = published[g].snapshot
      OBVIOUS
    <3>5. ListDated(g, s, m, st)
      BY <1>0, <1>1, <1>2, <3>2, <3>4 DEF DatesOK
    <3>6. Closed(SnapshotKey(g))
      BY <1>2, <3>2 DEF SnapshotsClosed
    <3>7. PointKept(m, st)'
      BY <1>0, <1>1, <1>2, <2>3, <3>3, <3>5, <3>6, PointKeptStep
    <3> QED
      BY <2>2, <3>7
  <2> QED
    BY <2>4, <2>5
\* the manifest in memory
<1>8. ASSUME running', generation' = g, step' \notin BeforeReset \cup {"compact_manifest"}
      PROVE  PointKept(manifest, segmentStamps)'
  <2>1. running /\ generation = g
    BY <1>3, <1>8 DEF PhaseStep, NextGen, SameGen, BeforeReset
  <2>2. step \notin BeforeReset
    <3>1. ASSUME step \in BeforeReset PROVE FALSE
      <4>1. Latest < g
        BY <1>2, <2>1, <3>1 DEF Begun
      <4>2. Latest \in Nat /\ g \in Nat
        BY <1>2 DEF SnapshotsClosed, Generations
      <4> QED
        BY <1>2, <4>1, <4>2
    <3> QED
      BY <3>1
  <2>3. step # "compact_manifest"
    BY <1>1, <1>8, <2>1, CompactedStep
  <2>4. PointKept(manifest, segmentStamps) /\ Closed(SnapshotKey(g))
        /\ ListDated(g, snapshotStamp, manifest, segmentStamps)
    BY <1>0, <1>1, <1>4, <1>5, <2>1, <2>2, <2>3 DEF DatesOK
  <2>5. PICK m, st, s : m = manifest /\ st = segmentStamps /\ s = snapshotStamp
    OBVIOUS
  <2>6. Describes(manifest', bucket', g)
    BY <1>8 DEF SInv, ManagerOK
  <2>7. CASE manifest' = manifest
    <3>1. segmentStamps' = segmentStamps
      BY <2>7, StampsSame
    <3>2. PointKept(m, st)'
      BY <1>0, <1>1, <1>2, <1>6, <2>4, <2>5, <2>6, <2>7, PointKeptStep
    <3> QED
      BY <2>5, <2>7, <3>1, <3>2
  <2>8. CASE PutSegment("ok") /\ manifest' # manifest
    <3>1. PICK e : manifest' = Append(m, e)
      BY <2>5, <2>8 DEF PutSegment
    <3>2. m \in Seq(SegmentMeta) /\ manifest' \in Seq(SegmentMeta) /\ st \in Seq(Nat) /\ Len(st) = Len(m)
      BY <1>6, <2>5 DEF TypeOK, ManagerTypeOK
    <3>3. e \in SegmentMeta
      BY <3>1, <3>2, LastElement
    <3>4. manifest' # <<>>
      BY <3>1, <3>2, LastElement
    <3>5. PICK t : t = now_ms
      OBVIOUS
    <3>6. segmentStamps' = Append(st, t)
      BY <2>5, <2>8, <3>4, <3>5 DEF Stamp, NextSegmentStamps, PutSegment
    <3>7. Describes(m, bucket', g)
      BY <2>6, <3>1, <3>2, <3>3, DescribesFirst
    <3>8. PointKept(m, st)'
      BY <1>0, <1>1, <1>2, <2>4, <2>5, <3>2, <3>7, PointKeptStep
    <3>9. ~(t <= moment'.time)
      <4>1. moment.time < now_ms /\ moment.time \in Nat /\ now_ms \in Nat
        BY <1>0, <1>1, ClockType DEF DatesOK, MomentTypeOK, StampsTypeOK
      <4> QED
        BY <1>1, <3>5, <4>1
    <3>10. PointKept(Append(m, e), Append(st, t))'
      BY <3>2, <3>3, <3>8, <3>9, PointKeptLonger
    <3> QED
      BY <3>1, <3>6, <3>10
  <2> QED
    BY <1>8, <2>1, <2>2, <2>7, <2>8, ManifestsKept
<1> QED
  BY <1>1, <1>7, <1>8 DEF MomentOK, Stored, ManifestKey

-----------------------------------------------------------------------------
(* The moment itself. *)

\* A moment is chosen: all stamps so far are of the past.
LEMMA StampsRemember ==
  ASSUME RestoreSound, PastOK, StampsOK, Remember
  PROVE  StampsOK'
<1> USE DEF RestoreSound, PastOK
<1>1. /\ UNCHANGED <<vars, snapshotStamp, published>> /\ ticks' = ticks + 1
      /\ Stored(LatestKey) /\ moment'.gen = Latest /\ moment'.time = now_ms
  BY DEF Remember, Instantaneous, Latest
<1>2. UNCHANGED <<bucket, generation, running, step, commits>>
  BY <1>1 DEF vars, sqliteVars, sqliteFiles, tracking, call
<1>3. commits \in Nat /\ generation \in Nat /\ ticks \in Nat
  BY DEF TypeOK, SqliteTypeOK, ManagerTypeOK, StampsTypeOK
<1>4. now_ms \in Nat /\ now_ms' = now_ms + 1
  BY <1>1, <1>2, <1>3 DEF now_ms
<1>5. PICK time, l : time = now_ms /\ l = Latest
  OBVIOUS
<1>6. Latest' = l /\ Stored(LatestKey)' /\ l \in Generations /\ l \in Nat /\ time \in Nat /\ now_ms' = time + 1
  BY <1>1, <1>2, <1>4, <1>5 DEF Latest, Stored, LatestKey, SnapshotsClosed, Generations
<1>7. ASSUME NEW g, NEW s PROVE HasStamp(g, s)' <=> HasStamp(g, s)
  BY <1>1, <1>2 DEF HasStamp
<1>8. ASSUME NEW g \in Generations, NEW s, HasStamp(g, s)
      PROVE  s \in Nat /\ s <= time /\ s < time + 1 /\ g <= l
  <2>1. s \in Nat /\ s <= time /\ g <= l
    BY <1>5, <1>8 DEF StampsOK
  <2> QED
    BY <1>6, <2>1
<1>9. ASSUME NEW g \in Generations, NEW s, HasStamp(g, s)'
      PROVE  /\ s \in Nat /\ s <= now_ms' /\ (g < generation' => s < now_ms')
             /\ Stored(LatestKey)' /\ g <= Latest'
             /\ moment'.gen # 0 => (s <= moment'.time <=> g <= moment'.gen)
  <2>1. s \in Nat /\ s <= time /\ s < time + 1 /\ g <= l /\ s <= time + 1
    BY <1>6, <1>7, <1>8, <1>9
  <2> QED
    BY <1>1, <1>5, <1>6, <2>1
<1>10. ASSUME NEW g \in Generations, NEW h \in Generations, NEW s, NEW u,
              HasStamp(g, s)', HasStamp(h, u)', g < h
       PROVE  s < u
  BY <1>7, <1>10 DEF StampsOK
<1>11. (moment.gen # 0 => Stored(LatestKey) /\ moment.gen \in Generations /\ moment.gen <= Latest)'
  BY <1>1, <1>5, <1>6
<1> QED
  <2>1. (\A g \in Generations : \A s : HasStamp(g, s) =>
          /\ s \in Nat /\ s <= now_ms /\ (g < generation => s < now_ms)
          /\ Stored(LatestKey) /\ g <= Latest
          /\ moment.gen # 0 => (s <= moment.time <=> g <= moment.gen))'
    BY <1>9
  <2>2. (\A g, h \in Generations : \A s, t : HasStamp(g, s) /\ HasStamp(h, t) /\ g < h => s < t)'
    BY <1>10
  <2> QED
    BY <1>11, <2>1, <2>2 DEF StampsOK

\* Steps that leave the backup leave the stamps.
LEMMA StampsSteady ==
  ASSUME StampsOK, UNCHANGED managerVars, UNCHANGED moment
  PROVE  StampsOK'
<1>1. UNCHANGED <<bucket, generation, running, step, commits, ticks, snapshotStamp, published>>
  BY DEF managerVars, vars, sqliteVars, sqliteFiles, tracking, call, stampVars
<1>2. now_ms' = now_ms /\ Latest' = Latest /\ (Stored(LatestKey)' <=> Stored(LatestKey))
  BY <1>1 DEF now_ms, Latest, Stored, LatestKey
<1>3. \A g, s : HasStamp(g, s)' <=> HasStamp(g, s)
  BY <1>1 DEF HasStamp
<1> QED
  BY <1>1, <1>2, <1>3 DEF StampsOK

\* One more segment takes nothing away.
LEMMA ReplayFirst ==
  ASSUME TypeOK, NEW g, NEW f \in Seq(SegmentMeta), NEW e \in SegmentMeta, Describes(Append(f, e), bucket, g)
  PROVE  Replay(Joined(bucket, g, f)) \subseteq Replay(Joined(bucket, g, Append(f, e)))
<1>1. PICK b, p : b = bucket /\ p = Append(f, e)
  OBVIOUS
<1>2. SegmentsTyped(b) /\ Describes(f, b, g) /\ Describes(p, b, g) /\ p \in Seq(SegmentMeta)
  BY <1>1, BucketSegments, DescribesFirst DEF TypeOK
<1>3. PICK k : k = Len(f)
  OBVIOUS
<1>4. k \in Nat /\ Len(p) = k + 1 /\ p[k + 1] = e /\ SubSeq(p, 1, k) = f /\ k \in 0..Len(p) /\ k < Len(p)
      /\ k + 1 \in DOMAIN p
  BY <1>1, <1>3
<1>5. e.offset = End(f)
  BY <1>2, <1>4, FirstSegments
<1>6. WalKey(g, e.index) \in DOMAIN b /\ Len(b[WalKey(g, e.index)]) = e.size
  BY <1>2, <1>4 DEF Describes
<1>7. Joined(b, g, p) = Joined(b, g, f) \o b[WalKey(g, e.index)]
  <2>1. Joined(b, g, Append(f, e)) = Joined(b, g, f) \o b[WalKey(g, e.index)]
    BY <1>2, <1>5, <1>6, DescribesAppend
  <2> QED
    BY <1>1, <2>1
<1>8. PICK o, d : o = Joined(b, g, f) /\ d = b[WalKey(g, e.index)]
  OBVIOUS
<1>9. o \in Seq(Block) /\ d \in Seq(Block)
  <2>1. WalKey(g, e.index)[1] = "wal"
    BY DEF WalKey
  <2> QED
    BY <1>2, <1>6, <1>8, <2>1, JoinedType DEF SegmentsTyped
<1>10. o \o d \in Seq(Block) /\ Begins(o, o \o d)
  BY <1>9 DEF Begins
<1>11. Replay(o) \subseteq Replay(o \o d)
  <2>1. PICK w : w = o \o d
    OBVIOUS
  <2> QED
    BY <1>9, <1>10, <2>1, ReplayMore
<1> QED
  BY <1>1, <1>7, <1>8, <1>11

\* All that is listed is of the moment.
LEMMA KeepsAll ==
  ASSUME Remember, NEW g, moment'.gen = g, NEW m \in Seq(SegmentMeta), NEW st \in Seq(Nat),
         Len(st) = Len(m), Elapsed(st, now_ms),
         moment'.restorable \subseteq bucket[SnapshotKey(g)] \cup Replay(Joined(bucket, g, m))
  PROVE  PointKept(m, st)'
<1>1. bucket' = bucket /\ moment'.time = now_ms
  BY DEF Remember, vars
<1>2. PICK n : n = Len(m)
  OBVIOUS
<1>3. n \in 0..Len(m) /\ SubSeq(m, 1, n) = m /\ DOMAIN m = 1..n /\ DOMAIN st = 1..n
  BY <1>2
<1>4. UpToMoment(m, st, n)'
  BY <1>1, <1>3 DEF UpToMoment, Elapsed
<1>5. GivesMoment(m, n)'
  BY <1>1, <1>3 DEF GivesMoment
<1> QED
  BY <1>3, <1>4, <1>5 DEF PointKept

\* A moment is chosen: the cut is where the lists end.
LEMMA MomentRemember ==
  ASSUME RestoreSound, PastOK, Begun, LatestListed, Timely, Uploading, Remember
  PROVE  MomentOK'
<1> USE DEF RestoreSound
<1>1. /\ UNCHANGED <<vars, segmentStamps, published>>
      /\ Stored(LatestKey) /\ moment'.gen = Latest /\ Restorable(Latest)
      /\ moment'.restorable = Restored(Latest)
  <2>1. PICK r \in Instantaneous : moment'.restorable = r
    BY DEF Remember
  <2>2. Stored(LatestKey)
    BY <2>1 DEF Instantaneous
  <2> QED
    BY <2>1, <2>2, InstantaneousIs DEF Remember, Latest
<1>2. UNCHANGED <<bucket, generation, running, step, manifest>>
  BY <1>1 DEF vars, tracking, call
<1>3. PICK g, r : g = Latest /\ r = moment'.restorable
  OBVIOUS
<1>4. moment'.gen = g /\ r = Restored(g) /\ g \in Generations
  BY <1>1, <1>3 DEF PastOK, SnapshotsClosed
<1>5. ASSUME Stored(ManifestKey(g))
      PROVE  /\ PointKept(bucket[ManifestKey(g)], published[g].segments)'
             /\ r \subseteq bucket[SnapshotKey(g)] \cup Replay(Joined(bucket, g, bucket[ManifestKey(g)]))
  <2>1. PICK m, st : m = bucket[ManifestKey(g)] /\ st = published[g].segments
    OBVIOUS
  <2>2. m \in Seq(SegmentMeta)
    BY <1>5, <2>1 DEF Stored, TypeOK, BucketTypeOK, ObjectTypeOK, ManifestKey
  <2>3. st \in Seq(Nat) /\ Len(st) = Len(m) /\ Elapsed(st, now_ms)
    BY <1>4, <1>5, <2>1 DEF StampsTypeOK, Stamps, Timely
  <2>4. RestoredWal(g) = Joined(bucket, g, m)
    BY <1>5, <2>1, RestoredIs
  <2>5. r \subseteq bucket[SnapshotKey(g)] \cup Replay(Joined(bucket, g, m))
    BY <1>4, <2>4 DEF Restored
  <2>6. PointKept(m, st)'
    BY <1>3, <1>4, <2>2, <2>3, <2>5, KeepsAll
  <2> QED
    BY <1>1, <1>2, <2>1, <2>5, <2>6
<1>6. ASSUME running, generation = g, step \notin BeforeReset \cup {"compact_manifest"}
      PROVE  PointKept(manifest, segmentStamps)'
  <2>1. PICK m, st : m = manifest /\ st = segmentStamps
    OBVIOUS
  <2>2. m \in Seq(SegmentMeta) /\ st \in Seq(Nat) /\ Len(st) = Len(m) /\ Elapsed(st, now_ms)
    BY <2>1 DEF TypeOK, ManagerTypeOK, StampsTypeOK, Timely
  <2>3. r \subseteq bucket[SnapshotKey(g)] \cup Replay(Joined(bucket, g, m))
    <3>1. CASE step \in Settled
      <4>1. Published
        BY <1>6, <3>1 DEF SInv, ManagerOK
      <4> QED
        BY <1>5, <1>6, <2>1, <4>1 DEF Published
    <3>2. CASE step = "put_snapshot_manifest"
      <4>1. ~Stored(ManifestKey(g))
        BY <1>6, <3>2 DEF Begun
      <4>2. Restored(g) = bucket[SnapshotKey(g)]
        BY <1>1, <1>3, <4>1, ListsNothing
      <4> QED
        BY <1>4, <4>2
    <3>3. CASE step = "put_segment_manifest"
      <4>1. PICK f, e : f = bucket[ManifestKey(g)] /\ m = Append(f, e) /\ Stored(ManifestKey(g))
        BY <1>6, <2>1, <3>3 DEF Uploading
      <4>2. f \in Seq(SegmentMeta)
        BY <4>1 DEF Stored, TypeOK, BucketTypeOK, ObjectTypeOK, ManifestKey
      <4>3. e \in SegmentMeta
        BY <2>2, <4>1, <4>2, LastElement
      <4>4. Describes(m, bucket, g)
        BY <1>6, <2>1 DEF SInv, ManagerOK
      <4>5. r \subseteq bucket[SnapshotKey(g)] \cup Replay(Joined(bucket, g, f))
        BY <1>5, <4>1
      <4>6. Replay(Joined(bucket, g, f)) \subseteq Replay(Joined(bucket, g, m))
        BY <4>1, <4>2, <4>3, <4>4, ReplayFirst
      <4> QED
        BY <4>5, <4>6
    <3> QED
      BY <1>6, <3>1, <3>2, <3>3 DEF TypeOK, CallTypeOK, Steps, Settled, BeforeReset
  <2>4. PointKept(m, st)'
    BY <1>3, <1>4, <2>2, <2>3, KeepsAll
  <2> QED
    BY <1>1, <1>2, <2>1, <2>4
<1> QED
  BY <1>1, <1>2, <1>4, <1>5, <1>6 DEF MomentOK, Stored, ManifestKey

\* Steps that leave the backup and the moment leave the cut.
LEMMA MomentSteady ==
  ASSUME MomentOK, UNCHANGED managerVars, UNCHANGED moment
  PROVE  MomentOK'
<1>1. UNCHANGED <<bucket, generation, running, step, manifest, segmentStamps, published>>
  BY DEF managerVars, vars, tracking, call, stampVars
<1>2. ASSUME NEW m, NEW st, PointKept(m, st) PROVE PointKept(m, st)'
  BY <1>1, <1>2 DEF PointKept, UpToMoment, GivesMoment, Stored
<1>3. ASSUME Kept, Stored(ManifestKey(moment.gen))
      PROVE  PointKept(bucket[ManifestKey(moment.gen)], published[moment.gen].segments)'
  <2>1. PICK m, st : m = bucket[ManifestKey(moment.gen)] /\ st = published[moment.gen].segments
    OBVIOUS
  <2>2. PointKept(m, st)'
    BY <1>2, <1>3, <2>1 DEF MomentOK
  <2> QED
    BY <1>1, <2>1, <2>2
<1>4. ASSUME Kept, running, generation = moment.gen, step \notin BeforeReset \cup {"compact_manifest"}
      PROVE  PointKept(manifest, segmentStamps)'
  <2>1. PICK m, st : m = manifest /\ st = segmentStamps
    OBVIOUS
  <2>2. PointKept(m, st)'
    BY <1>2, <1>4, <2>1 DEF MomentOK
  <2> QED
    BY <1>1, <2>1, <2>2
<1> QED
  BY <1>1, <1>3, <1>4 DEF MomentOK, Kept, Stored

-----------------------------------------------------------------------------
(* The manifests are read one after the other. *)

\* What is or was stored under a list of indexes.
Holds(g, indexes, values) ==
  /\ Len(values) = Len(indexes)
  /\ \A n \in DOMAIN indexes :
       /\ Closed(WalKey(g, indexes[n]))
       /\ Stored(WalKey(g, indexes[n])) => bucket[WalKey(g, indexes[n])] = values[n]

\* The segments, replayed on the snapshot that was found, give the moment back.
GivesFound(values) ==
  Stored(SnapshotKey(found.gen)) =>
    moment.restorable \subseteq bucket[SnapshotKey(found.gen)] \cup Replay(FlattenSeq(values))

\* What was found to download gives the moment back, as far as it stays stored.
FoundEnough ==
  \E values \in Seq(Seq(Block)) : Holds(found.gen, found.indexes, values) /\ GivesFound(values)

\* The snapshots of older generations are older than the one found, those of
\* newer ones newer.
FoundBetween ==
  \A h \in Generations : \A s : HasStamp(h, s) =>
    (h < found.gen => s < found.snapshot) /\ (h > found.gen => found.snapshot < s)

\* The best manifest so far is of the moment, or that one is yet to be read.
ReadingOK ==
  /\ rstep \in PointInTime /\ found.gen = 0 => found.snapshot = 0
  /\ rstep = "read_manifest" =>
       /\ found.gen # 0 =>
            /\ found.gen \notin unread /\ found.gen <= moment.gen
            /\ found.snapshot <= moment.time /\ FoundBetween
       /\ missed \/ moment.gen \in unread \/ found.gen = moment.gen
       /\ missed \/ found.gen # moment.gen \/ FoundEnough

\* Steps of the manager delete segments, but do not replace them.
LEMMA HoldsBeside ==
  ASSUME NoFailures, "snapshot" \notin Calls, TypeOK, StepOK, [Next]_vars,
         NEW g \in Generations, NEW indexes \in Seq(Indexes), NEW values, Holds(g, indexes, values)
  PROVE  Holds(g, indexes, values)'
<1>1. ASSUME NEW n \in DOMAIN indexes
      PROVE  /\ Closed(WalKey(g, indexes[n]))'
             /\ Stored(WalKey(g, indexes[n]))' => bucket'[WalKey(g, indexes[n])] = values[n]
  <2>1. PICK k : k = WalKey(g, indexes[n])
    OBVIOUS
  <2>2. indexes[n] \in Nat /\ g \in Nat
    <3>1. indexes[n] \in Indexes
      OBVIOUS
    <3> QED
      BY <3>1 DEF Indexes, Generations
  <2>3. k[1] = "wal" /\ k[2] \in Nat /\ k[3] \in Nat
    BY <2>1, <2>2 DEF WalKey
  <2>4. Closed(k) /\ (Stored(k) => bucket[k] = values[n])
    BY <2>1 DEF Holds
  <2>5. Closed(k)' /\ (k \in DOMAIN bucket' => Untouched(k))
    BY <2>3, <2>4, ClosedStep
  <2>6. k \in DOMAIN bucket' => bucket'[k] = values[n]
    BY <2>4, <2>5 DEF Untouched, Stored
  <2> QED
    BY <2>1, <2>5, <2>6 DEF Stored
<1> QED
  BY <1>1 DEF Holds

\* Nor do they change the snapshot that was found.
LEMMA FoundEnoughBeside ==
  ASSUME NoFailures, "snapshot" \notin Calls, TypeOK, StepOK, [Next]_vars,
         found.gen \in Generations, found.indexes \in Seq(Indexes), Closed(SnapshotKey(found.gen)),
         found' = found, moment'.restorable = moment.restorable, FoundEnough
  PROVE  FoundEnough'
<1>1. PICK values \in Seq(Seq(Block)) : Holds(found.gen, found.indexes, values) /\ GivesFound(values)
  BY DEF FoundEnough
<1>2. PICK g, indexes, r : g = found.gen /\ indexes = found.indexes /\ r = moment.restorable
  OBVIOUS
<1>3. g \in Generations /\ indexes \in Seq(Indexes) /\ Holds(g, indexes, values)
  BY <1>1, <1>2
<1>4. Holds(g, indexes, values)'
  BY <1>3, HoldsBeside
<1>5. PICK k, w : k = SnapshotKey(g) /\ w = FlattenSeq(values)
  OBVIOUS
<1>6. k \in DOMAIN bucket' => k \in DOMAIN bucket /\ bucket'[k] = bucket[k]
  <2>1. k[1] = "snapshot" /\ k[2] \in Nat /\ k[3] \in Nat
    BY <1>3, <1>5 DEF SnapshotKey, Generations
  <2> QED
    BY <1>2, <1>5, <2>1, ClosedStep DEF Untouched
<1>7. k \in DOMAIN bucket' => r \subseteq bucket'[k] \cup Replay(w)
  BY <1>1, <1>2, <1>5, <1>6 DEF GivesFound, Stored
<1>8. found'.gen = g /\ found'.indexes = indexes /\ moment'.restorable = r
  BY <1>2
<1>9. GivesFound(values)'
  BY <1>5, <1>7, <1>8 DEF GivesFound, Stored
<1> QED
  BY <1>4, <1>8, <1>9 DEF FoundEnough

\* Steps that leave the backup leave what was found.
LEMMA FoundEnoughSame ==
  ASSUME UNCHANGED managerVars, UNCHANGED <<found, moment>>, FoundEnough
  PROVE  FoundEnough'
<1>1. bucket' = bucket /\ \A k : Closed(k)' <=> Closed(k)
  BY SameBackup
<1>2. PICK values \in Seq(Seq(Block)) : Holds(found.gen, found.indexes, values) /\ GivesFound(values)
  BY DEF FoundEnough
<1>3. Holds(found.gen, found.indexes, values)'
  BY <1>1, <1>2 DEF Holds, Stored
<1>4. GivesFound(values)'
  BY <1>1, <1>2 DEF GivesFound, Stored
<1> QED
  BY <1>3, <1>4 DEF FoundEnough

\* A step of the manager: a snapshot it begins is stamped after the moment.
LEMMA ReadingBeside ==
  ASSUME NoFailures, "snapshot" \notin Calls, RestoreSound, RestoreSound', PastOK, Begun, StampsOK, ReadingOK,
         [Next]_vars, Stamp, Witness
  PROVE  ReadingOK'
<1> USE DEF RestoreSound, PastOK
<1>1. /\ UNCHANGED <<rstep, found, unread, missed>> /\ MomentStays
      /\ moment'.restorable = moment.restorable
  BY MomentBesideIs DEF Witness, fetching
<1>2. /\ moment'.gen = moment.gen /\ moment'.time = moment.time
  BY <1>1 DEF MomentStays
<1>3. ASSUME rstep = "read_manifest", found.gen # 0, found.gen <= moment.gen,
             found.snapshot <= moment.time, FoundBetween
      PROVE  FoundBetween'
  <2> SUFFICES ASSUME NEW h \in Generations, NEW s, HasStamp(h, s)'
               PROVE  (h < found.gen => s < found.snapshot) /\ (h > found.gen => found.snapshot < s)
    BY <1>1 DEF FoundBetween
  <2>1. CASE HasStamp(h, s)
    BY <1>3, <2>1 DEF FoundBetween
  <2>2. CASE ~HasStamp(h, s)
    <3>1. h = generation /\ running /\ step \in BeforeReset /\ s = now_ms
      BY <2>2, StampStep
    <3>2. moment.gen # 0
      BY <1>3 DEF FoundOK
    <3>3. Stored(LatestKey) /\ moment.gen \in Generations /\ moment.gen <= Latest
      BY <3>2 DEF StampsOK
    <3>4. Latest < generation
      BY <3>1, <3>3 DEF Begun
    <3>5. moment.time < now_ms
      BY <3>2 DEF DatesOK
    <3>6. /\ found.gen \in Nat /\ found.snapshot \in Nat /\ moment.gen \in Nat /\ moment.time \in Nat
          /\ Latest \in Nat /\ generation \in Nat /\ now_ms \in Nat
      <4>1. found.gen \in Nat /\ found.snapshot \in Nat
        BY KeysAssumption DEF FetchTypeOK
      <4>2. moment.gen \in Nat /\ moment.time \in Nat
        BY KeysAssumption DEF MomentTypeOK
      <4>3. Latest \in Nat /\ generation \in Nat
        BY <3>3 DEF SnapshotsClosed, Generations, TypeOK, ManagerTypeOK
      <4>4. now_ms \in Nat
        BY ClockType DEF StampsTypeOK
      <4> QED
        BY <4>1, <4>2, <4>3, <4>4
    <3>7. found.gen < h
      BY <1>3, <3>1, <3>3, <3>4, <3>6
    <3>8. found.snapshot < s
      BY <1>3, <3>1, <3>5, <3>6
    <3> QED
      BY <3>1, <3>6, <3>7, <3>8
  <2> QED
    BY <2>1, <2>2
<1>4. ASSUME rstep = "read_manifest", found.gen = moment.gen, FoundEnough
      PROVE  FoundEnough'
  <2>1. found.gen # 0
    BY <1>4 DEF FoundOK, PointInTime
  <2>2. found.gen \in Generations /\ found.indexes \in Seq(Indexes) /\ Closed(SnapshotKey(found.gen))
    BY <2>1, KeysAssumption DEF FetchTypeOK, Generations, FoundOK, Sealed
  <2> QED
    BY <1>1, <1>4, <2>2, FoundEnoughBeside
<1>5. rstep \in PointInTime /\ found.gen = 0 => found.snapshot = 0
  BY DEF ReadingOK
<1>6. ASSUME rstep = "read_manifest", found.gen # 0
      PROVE  /\ found.gen \notin unread /\ found.gen <= moment.gen
             /\ found.snapshot <= moment.time /\ FoundBetween'
  BY <1>3, <1>6 DEF ReadingOK
<1>7. ASSUME rstep = "read_manifest" PROVE missed \/ moment.gen \in unread \/ found.gen = moment.gen
  BY <1>7 DEF ReadingOK
<1>8. ASSUME rstep = "read_manifest" PROVE missed \/ found.gen # moment.gen \/ FoundEnough'
  BY <1>4, <1>8, Zenon DEF ReadingOK
<1> QED
  <2>1. PICK mi : mi = missed
    OBVIOUS
  <2>2. missed' = mi /\ rstep' = rstep /\ found' = found /\ unread' = unread
    BY <1>1, <2>1
  <2>3. (rstep \in PointInTime /\ found.gen = 0 => found.snapshot = 0)'
    BY <1>5, <2>2
  <2>4. (rstep = "read_manifest" /\ found.gen # 0 =>
            /\ found.gen \notin unread /\ found.gen <= moment.gen
            /\ found.snapshot <= moment.time /\ FoundBetween)'
    BY <1>2, <1>6, <2>2
  <2>5. (rstep = "read_manifest" => missed \/ moment.gen \in unread \/ found.gen = moment.gen)'
    BY <1>2, <1>7, <2>1, <2>2, Zenon
  <2>6. (rstep = "read_manifest" => missed \/ found.gen # moment.gen \/ FoundEnough)'
    BY <1>2, <1>8, <2>1, <2>2, Zenon
  <2> QED
    BY <2>3, <2>4, <2>5, <2>6, Zenon DEF ReadingOK

\* The manifest of the generation of the moment lists what could be restored then.
LEMMA MomentRead ==
  ASSUME RestoreSound, PastOK, MomentOK, NEW g, g = moment.gen, g # 0, ~moment.compacted,
         g \in Generations, Stored(ManifestKey(g)), UNCHANGED managerVars, UNCHANGED moment,
         NEW time, time = moment.time,
         found'.gen = g, found'.indexes = SegmentsUpTo(g, time)
  PROVE  FoundEnough'
<1> USE DEF RestoreSound, PastOK
<1>1. PICK m, st, b : m = bucket[ManifestKey(g)] /\ st = published[g].segments /\ b = bucket
  OBVIOUS
<1>2. PICK j \in 0..Len(m) : UpToMoment(m, st, j) /\ GivesMoment(m, j)
  BY <1>1 DEF MomentOK, Kept, PointKept
<1>3. m \in Seq(SegmentMeta) /\ Describes(m, b, g) /\ SegmentsTyped(b)
  BY <1>1, BucketSegments DEF Stored, TypeOK, BucketTypeOK, ObjectTypeOK, ManifestKey, SInv, AllDescribed
<1>4. PICK f : f = SegmentsUpTo(g, time)
  OBVIOUS
<1>5. Len(f) = j /\ \A n \in 1..j : f[n] = m[n].index
  BY <1>1, <1>2, <1>4, UpToFirst DEF UpToMoment
<1>6. f \in Seq(Indexes)
  BY <1>4, UpToType
<1>7. PICK p, values : p = SubSeq(m, 1, j) /\ values = Parts(b, g, p)
  OBVIOUS
<1>8. p \in Seq(SegmentMeta) /\ Describes(p, b, g) /\ Len(p) = j /\ \A n \in 1..j : p[n] = m[n]
  <2>1. p \in Seq(SegmentMeta) /\ Describes(p, b, g)
    BY <1>2, <1>3, <1>7, FirstSegments
  <2>2. Len(p) = j /\ \A n \in 1..j : p[n] = m[n]
    BY <1>2, <1>3, <1>7
  <2> QED
    BY <2>1, <2>2
<1>9. /\ values \in Seq(Seq(Block)) /\ Len(values) = j
      /\ \A n \in 1..j : values[n] = b[WalKey(g, p[n].index)]
  <2>1. /\ Parts(b, g, p) \in Seq(Seq(Block)) /\ Len(Parts(b, g, p)) = Len(p)
        /\ \A n \in 1..Len(p) : Parts(b, g, p)[n] = b[WalKey(g, p[n].index)]
    <3>1. SegmentsTyped(b)
      BY <1>3
    <3>2. p \in Seq(SegmentMeta) /\ Describes(p, b, g)
      BY <1>8
    <3> QED
      BY <3>1, <3>2, PartsType
  <2>2. Len(p) = j /\ values = Parts(b, g, p)
    BY <1>7, <1>8
  <2> QED
    BY <2>1, <2>2
<1>10. DOMAIN f = 1..j /\ DOMAIN p = 1..j
  BY <1>5, <1>6, <1>8
<1>11. bucket' = b /\ \A k : Closed(k)' <=> Closed(k)
  BY <1>1, SameBackup
<1>12. ASSUME NEW n \in 1..j
       PROVE  Closed(WalKey(g, f[n]))' /\ b[WalKey(g, f[n])] = values[n]
  <2>1. PICK k : k = WalKey(g, p[n].index)
    OBVIOUS
  <2>2. k \in DOMAIN bucket /\ k[1] = "wal"
    BY <1>1, <1>8, <1>10, <2>1 DEF Describes, WalKey
  <2>3. Closed(k)
    BY <2>2 DEF StoredClosed
  <2>4. f[n] = p[n].index
    BY <1>5, <1>8
  <2> QED
    BY <1>9, <1>11, <2>1, <2>3, <2>4
<1>13. Holds(g, f, values)'
  BY <1>5, <1>9, <1>10, <1>11, <1>12 DEF Holds
<1>14. GivesFound(values)'
  <2>1. FlattenSeq(values) = Joined(b, g, p)
    BY <1>7 DEF Joined
  <2>2. PICK k, w : k = SnapshotKey(g) /\ w = FlattenSeq(values)
    OBVIOUS
  <2>3. k \in DOMAIN b => moment.restorable \subseteq b[k] \cup Replay(w)
    BY <1>1, <1>2, <1>7, <2>1, <2>2 DEF GivesMoment, Stored
  <2> QED
    BY <1>11, <2>2, <2>3 DEF GivesFound, Stored
<1>15. found'.indexes = f
  BY <1>4
<1> QED
  BY <1>9, <1>13, <1>14, <1>15 DEF FoundEnough

\* One more manifest is read, or passed over.
LEMMA ReadingReads ==
  ASSUME RestoreSound, PastOK, StampsOK, MomentOK, ReadingOK, ReadManifest, UNCHANGED managerVars,
         UNCHANGED moment
  PROVE  ReadingOK'
<1> USE DEF RestoreSound, PastOK
<1>1. PICK g \in unread :
         /\ rstep = "read_manifest" /\ rstep' = "read_manifest" /\ unread' = unread \ {g}
         /\ \/ /\ g \in DOMAIN published
               /\ found' = IF Better(g, moment.time)
                           THEN [gen |-> g, snapshot |-> published[g].snapshot,
                                 indexes |-> SegmentsUpTo(g, moment.time)]
                           ELSE found
               /\ missed' = (missed \/ (g = moment.gen /\ moment.compacted))
            \/ missed' = (missed \/ g = moment.gen) /\ found' = found
  BY DEF ReadManifest, Goes
<1>2. /\ moment.gen # 0 /\ moment.gen \in Generations /\ g \in Generations
      /\ moment.gen \in Nat /\ g \in Nat /\ moment.time \in Nat
      /\ found.gen \in Nat /\ found.snapshot \in Nat
  <2>1. moment.gen # 0 /\ rstep = "read_manifest"
    BY <1>1 DEF FoundOK, PointInTime
  <2>2. moment.gen \in Generations /\ g \in Generations
    BY <2>1 DEF StampsOK, FetchTypeOK
  <2> QED
    BY <2>1, <2>2, KeysAssumption DEF Generations, FetchTypeOK, MomentTypeOK
<1>3. /\ found.gen = 0 => found.snapshot = 0
      /\ found.gen # 0 =>
            /\ found.gen \notin unread /\ found.gen <= moment.gen
            /\ found.snapshot <= moment.time /\ FoundBetween
  BY <1>1 DEF ReadingOK, PointInTime
<1>4. UNCHANGED <<published, running, step, generation, snapshotStamp>>
  BY DEF managerVars, vars, tracking, call, stampVars
<1>5. ASSUME NEW h, NEW s PROVE HasStamp(h, s)' <=> HasStamp(h, s)
  BY <1>4 DEF HasStamp
<1>6. ASSUME found' = found
      PROVE  /\ found'.gen = 0 => found'.snapshot = 0
             /\ found'.gen # 0 =>
                  /\ found'.gen \notin unread' /\ found'.gen <= moment.gen
                  /\ found'.snapshot <= moment.time /\ FoundBetween'
             /\ FoundEnough => FoundEnough'
  <2>1. FoundBetween => FoundBetween'
    BY <1>5, <1>6 DEF FoundBetween
  <2>2. FoundEnough => FoundEnough'
    BY <1>6, FoundEnoughSame
  <2> QED
    BY <1>1, <1>3, <1>6, <2>1, <2>2
<1>7. ASSUME g \in DOMAIN published
      PROVE  LET s == published[g].snapshot
             IN HasStamp(g, s) /\ s \in Nat /\ (s <= moment.time <=> g <= moment.gen)
  BY <1>2, <1>7 DEF HasStamp, StampsOK
<1>8. PICK mi : mi = missed
  OBVIOUS
<1>9. ASSUME found' = found, rstep = "read_manifest", missed => missed', g = moment.gen => missed'
      PROVE  ReadingOK'
  <2>1. missed' \/ moment.gen \in unread' \/ found'.gen = moment.gen
    BY <1>1, <1>8, <1>9, Zenon DEF ReadingOK
  <2>2. missed' \/ found'.gen # moment.gen \/ FoundEnough'
    BY <1>6, <1>8, <1>9, Zenon DEF ReadingOK
  <2> QED
    BY <1>6, <1>9, <2>1, <2>2, Zenon DEF ReadingOK
\* a manifest that fits better
<1>10. ASSUME g \in DOMAIN published, Better(g, moment.time),
              found' = [gen |-> g, snapshot |-> published[g].snapshot,
                        indexes |-> SegmentsUpTo(g, moment.time)],
              missed' = (missed \/ (g = moment.gen /\ moment.compacted))
       PROVE  ReadingOK'
  <2>1. PICK s : s = published[g].snapshot
    OBVIOUS
  <2>2. /\ HasStamp(g, s) /\ s \in Nat /\ s <= moment.time /\ g <= moment.gen /\ found.snapshot <= s
    BY <1>2, <1>7, <1>10, <2>1 DEF Better
  <2>3. found'.gen = g /\ found'.snapshot = s /\ found'.indexes = SegmentsUpTo(g, moment.time) /\ g # 0
    BY <1>2, <1>10, <2>1 DEF Generations
  <2>4. FoundBetween'
    <3> SUFFICES ASSUME NEW h \in Generations, NEW t, HasStamp(h, t)'
                 PROVE  (h < g => t < s) /\ (h > g => s < t)
      BY <2>3 DEF FoundBetween
    <3>1. HasStamp(h, t)
      BY <1>5
    <3>2. h \in Nat
      BY DEF Generations
    <3> QED
      BY <1>2, <2>2, <3>1, <3>2 DEF StampsOK
  <2>5. missed' \/ moment.gen \in unread' \/ g = moment.gen
    <3>1. ASSUME g # moment.gen, found.gen = moment.gen
          PROVE  FALSE
      <4>1. found.gen # 0 /\ g < found.gen
        BY <1>2, <2>2, <3>1
      <4>2. s < found.snapshot
        BY <1>2, <1>3, <2>2, <4>1 DEF FoundBetween
      <4> QED
        BY <1>2, <2>2, <4>2
    <3> QED
      BY <1>1, <1>8, <1>10, <3>1, Zenon DEF ReadingOK
  <2>6. missed' \/ g # moment.gen \/ FoundEnough'
    <3>1. ASSUME g = moment.gen, ~moment.compacted
          PROVE  FoundEnough'
      <4>1. Stored(ManifestKey(g))
        BY <1>10 DEF StampsTypeOK
      <4>2. PICK time : time = moment.time
        OBVIOUS
      <4> QED
        BY <1>2, <2>3, <3>1, <4>1, <4>2, MomentRead
    <3> QED
      BY <1>10, <3>1, Zenon
  <2>7. g \notin unread' /\ moment'.gen = moment.gen /\ moment'.time = moment.time
    BY <1>1
  <2>8. rstep' = "read_manifest"
    BY <1>1
  <2> QED
    BY <2>2, <2>3, <2>4, <2>5, <2>6, <2>7, <2>8, Zenon DEF ReadingOK
\* a manifest that fits less
<1>11. ASSUME g \in DOMAIN published, ~Better(g, moment.time), found' = found,
              missed' = (missed \/ (g = moment.gen /\ moment.compacted))
       PROVE  ReadingOK'
  <2>1. ASSUME g = moment.gen PROVE FALSE
    <3>1. PICK s : s = published[g].snapshot
      OBVIOUS
    <3>2. HasStamp(g, s) /\ s \in Nat /\ s <= moment.time
      BY <1>2, <1>7, <1>11, <2>1, <3>1
    <3>3. found.gen = 0 => found.snapshot = 0
      BY <1>3
    <3>4. found.gen # 0 => found.snapshot < s
      <4>1. found.gen # 0 => found.gen < g
        BY <1>1, <1>2, <1>3, <2>1
      <4> QED
        BY <1>2, <1>3, <3>2, <4>1 DEF FoundBetween
    <3>5. found.snapshot <= s
      BY <1>2, <3>2, <3>3, <3>4
    <3> QED
      BY <1>11, <3>1, <3>2, <3>5 DEF Better
  <2> QED
    BY <1>1, <1>8, <1>9, <1>11, <2>1, Zenon
\* a manifest passed over
<1>12. ASSUME missed' = (missed \/ g = moment.gen), found' = found
       PROVE  ReadingOK'
  BY <1>1, <1>8, <1>9, <1>12, Zenon
<1>13. found' = found \/ (g \in DOMAIN published /\ Better(g, moment.time))
       \/ missed' = (missed \/ g = moment.gen)
  BY <1>1
<1> QED
  BY <1>1, <1>10, <1>11, <1>12

\* Only these steps lead to a restore that reads manifests.
LEMMA ReadingSteps ==
  ASSUME Restoring, rstep' \in PointInTime
  PROVE  \/ rstep' = "list_manifests" /\ found' = NoManifest
         \/ ReadManifest
         \/ /\ rstep = "list_manifests" /\ rstep' = "read_manifest" /\ unread' = DOMAIN published
            /\ missed' = (moment.gen \notin DOMAIN published) /\ found' = found
<1>1. rstep' \in {"list_manifests", "read_manifest"}
  BY DEF PointInTime
<1>2. CASE BeginRestore \/ AutoRestore
  BY <1>1, <1>2 DEF BeginRestore, AutoRestore, Begin
<1>3. CASE BeginRestoreToTime
  BY <1>3 DEF BeginRestoreToTime, Begin, ClearFetching
<1>4. CASE AutoRestoreSkipped
  BY <1>1, <1>4 DEF AutoRestoreSkipped
<1>5. CASE Interrupted \/ SnapshotCutShort \/ WalCutShort
  BY <1>1, <1>5 DEF Interrupted, SnapshotCutShort, WalCutShort, CutShort, Failed, Ends
<1>6. CASE GetLatest
  BY <1>1, <1>6 DEF GetLatest, Goes, GetFailed, Failed, Ends
<1>7. CASE GetSnapshot
  BY <1>1, <1>7 DEF GetSnapshot, Goes, GetFailed, Failed, Ends
<1>8. CASE GetManifest
  BY <1>1, <1>8 DEF GetManifest, Goes
<1>9. CASE ListWal
  BY <1>1, <1>9 DEF ListWal, Goes
<1>10. CASE GetSegment
  BY <1>1, <1>10 DEF GetSegment, Goes, GetFailed, Failed, Ends
<1>11. CASE ReplayWal
  BY <1>1, <1>11 DEF ReplayWal, Goes
<1>12. CASE ListManifests
  BY <1>1, <1>12 DEF ListManifests, Goes, Failed, Ends
<1>13. CASE ChooseGeneration
  BY <1>1, <1>13 DEF ChooseGeneration, Goes, Failed, Ends
<1> QED
  BY <1>2, <1>3, <1>4, <1>5, <1>6, <1>7, <1>8, <1>9, <1>10, <1>11, <1>12, <1>13 DEF Restoring

\* A step of the restore.
LEMMA ReadingRestoring ==
  ASSUME RestoreSound, PastOK, StampsOK, MomentOK, ReadingOK, Restoring, UNCHANGED managerVars
  PROVE  ReadingOK'
<1> USE DEF RestoreSound, PastOK
<1>1. UNCHANGED moment
  BY MomentKept
<1>2. CASE rstep' \notin PointInTime
  BY <1>2, Zenon DEF ReadingOK, PointInTime
<1>3. CASE rstep' = "list_manifests" /\ found' = NoManifest
  <2>1. found'.gen = 0 /\ found'.snapshot = 0
    BY <1>3 DEF NoManifest
  <2> QED
    BY <1>3, <2>1 DEF ReadingOK
<1>4. CASE ReadManifest
  BY <1>1, <1>4, ReadingReads
<1>5. CASE /\ rstep = "list_manifests" /\ rstep' = "read_manifest" /\ unread' = DOMAIN published
           /\ missed' = (moment.gen \notin DOMAIN published) /\ found' = found
  <2>1. found.gen = 0 /\ moment.gen # 0
    BY <1>5 DEF FoundOK, PointInTime
  <2>2. found.snapshot = 0
    BY <1>5, <2>1 DEF ReadingOK, PointInTime
  <2>3. found'.gen = 0 /\ found'.snapshot = 0 /\ moment'.gen # 0
    BY <1>1, <1>5, <2>1, <2>2
  <2>4. missed' \/ moment'.gen \in unread'
    BY <1>1, <1>5
  <2> QED
    BY <1>5, <2>3, <2>4, Zenon DEF ReadingOK
<1> QED
  BY <1>2, <1>3, <1>4, <1>5, ReadingSteps

\* Between restores no manifest is read.
LEMMA ReadingReady ==
  ASSUME rstep' \in Ready
  PROVE  ReadingOK'
BY DEF ReadingOK, Ready, PointInTime

\* A step that changes nothing.
LEMMA ReadingSame ==
  ASSUME ReadingOK, UNCHANGED managerVars,
         rstep' = rstep, found' = found, unread' = unread, moment' = moment,
         missed' = missed
  PROVE  ReadingOK'
<1>3. FoundEnough => FoundEnough'
  BY FoundEnoughSame
<1>4. published' = published /\ running' = running /\ step' = step /\ generation' = generation
      /\ snapshotStamp' = snapshotStamp
  BY DEF managerVars, vars, tracking, call, stampVars
<1>5. FoundBetween => FoundBetween'
  BY <1>4 DEF FoundBetween, HasStamp
<1>6. rstep' = rstep /\ found' = found /\ unread' = unread /\ moment' = moment
  OBVIOUS
<1>7. (rstep \in PointInTime /\ found.gen = 0 => found.snapshot = 0)'
  BY <1>6 DEF ReadingOK
<1>8. (rstep = "read_manifest" /\ found.gen # 0 =>
         /\ found.gen \notin unread /\ found.gen <= moment.gen
         /\ found.snapshot <= moment.time /\ FoundBetween)'
  BY <1>5, <1>6 DEF ReadingOK
<1>9. ASSUME rstep = "read_manifest" PROVE missed \/ moment.gen \in unread \/ found.gen = moment.gen
  BY <1>9 DEF ReadingOK
<1>10. ASSUME rstep = "read_manifest" PROVE missed \/ found.gen # moment.gen \/ FoundEnough'
  BY <1>3, <1>10, Zenon DEF ReadingOK
<1>12. ASSUME rstep' = "read_manifest", ~missed'
       PROVE  (moment.gen \in unread \/ found.gen = moment.gen)' /\ (found.gen # moment.gen \/ FoundEnough)'
  <2>1. ~missed
    BY <1>12, Zenon
  <2>2. rstep = "read_manifest"
    BY <1>12
  <2>3. moment.gen \in unread \/ found.gen = moment.gen
    BY <1>9, <2>1, <2>2, Zenon
  <2>4. found.gen # moment.gen \/ FoundEnough'
    BY <1>10, <2>1, <2>2, Zenon
  <2> QED
    BY <2>3, <2>4
<1> QED
  BY <1>7, <1>8, <1>12, Zenon DEF ReadingOK

\* What restore_to_time found is enough when the last manifest has been read.
LEMMA DownloadChosen ==
  ASSUME RestoreSound, PastOK, ReadingOK, ChooseGeneration, UNCHANGED managerVars, UNCHANGED moment
  PROVE  DownloadOK'
<1> USE DEF RestoreSound, PastOK
<1>1. CASE rstep' = "failed"
  BY <1>1 DEF DownloadOK
<1>2. CASE missed'
  BY <1>2 DEF DownloadOK
<1>3. CASE ~missed' /\ rstep' # "failed"
  <2>1. /\ rstep = "read_manifest" /\ unread = {} /\ found.gen # 0 /\ rstep' = "get_snapshot"
        /\ restoring' = found.gen /\ segments' = found.indexes
        /\ UNCHANGED <<wal_data, found, missed>>
    BY <1>3 DEF ChooseGeneration, Failed, Ends, Goes, files, fetching
  <2>2. found.gen = moment.gen /\ FoundEnough
    BY <1>3, <2>1, Zenon DEF ReadingOK
  <2>3. PICK values \in Seq(Seq(Block)) : Holds(found.gen, found.indexes, values) /\ GivesFound(values)
    BY <2>2 DEF FoundEnough
  <2>4. PICK g, indexes : g = found.gen /\ indexes = found.indexes
    OBVIOUS
  <2>5. indexes \in Seq(Indexes)
    BY <2>4 DEF FetchTypeOK
  <2>6. /\ Len(values) = Len(indexes)
        /\ \A n \in DOMAIN indexes :
             /\ Closed(WalKey(g, indexes[n]))
             /\ Stored(WalKey(g, indexes[n])) => bucket[WalKey(g, indexes[n])] = values[n]
    BY <2>3, <2>4 DEF Holds
  <2>7. wal_data' = <<>> /\ restoring' = g /\ segments' = indexes
    BY <2>1, <2>4 DEF FetchOK
  <2>8. Partway(values)'
    BY <2>5, <2>6, <2>7, PartwayBegins
  <2>9. bucket' = bucket
    BY SameBackup
  <2>10. PICK k, w : k = SnapshotKey(g) /\ w = FlattenSeq(values)
    OBVIOUS
  <2>11. Stored(k)' => Enough(bucket[k] \cup Replay(w))'
    BY <2>1, <2>3, <2>4, <2>9, <2>10 DEF GivesFound, Stored, Enough
  <2> QED
    BY <2>1, <2>7, <2>8, <2>10, <2>11 DEF DownloadOK
<1> QED
  BY <1>1, <1>2, <1>3

\* A step that changes nothing.
LEMMA LatestSame ==
  ASSUME LatestOK, UNCHANGED allVars
  PROVE  LatestOK'
<1>1. UNCHANGED managerVars /\ UNCHANGED <<rstep, target, restoring, found, couldGive, moment>>
      /\ missed' = missed
  BY DEF allVars, restoreVars, files, fetching
<1>2. /\ bucket' = bucket /\ Instantaneous' = Instantaneous
      /\ \A k : Closed(k)' <=> Closed(k)
  BY <1>1, SameBackup
<1>3. CASE ~Now
  BY <1>1, <1>3 DEF LatestOK, Now
<1>4. CASE Now
  <2>1. PICK g, r, pages : g = restoring /\ r = Restored(restoring) /\ pages = target.pages
    OBVIOUS
  <2>2. restoring' = g /\ Restored(restoring)' = r /\ target'.pages = pages /\ Latest' = Latest
    BY <1>1, <1>2, <2>1 DEF Latest, Restored, RestoredWal, SegmentIndexes, StoredIndexes, Stored
  <2>3. (Enough(r) => Enough(r)') /\ (Enough(pages) => Enough(pages)')
    BY <1>1, EnoughSame
  <2>4. Instantaneous' \subseteq couldGive'
    BY <1>1, <1>2, <1>4 DEF LatestOK
  <2>5. (rstep # "get_latest" =>
           /\ Stored(LatestKey) /\ restoring \in Generations /\ restoring <= Latest
           /\ Closed(SnapshotKey(restoring)))'
    BY <1>1, <1>2, <1>4, <2>1, <2>2 DEF LatestOK, Stored
  <2>6. (rstep \in {"get_snapshot", "get_manifest"} /\ Stored(ManifestKey(restoring)) =>
           restoring = Latest \/ Enough(Restored(restoring)))'
    BY <1>1, <1>2, <1>4, <2>1, <2>2, <2>3 DEF LatestOK, Stored
  <2>7. (rstep = "get_manifest" /\ Stored(SnapshotKey(restoring)) =>
           target.pages = bucket[SnapshotKey(restoring)])'
    BY <1>1, <1>2, <1>4 DEF LatestOK, Stored
  <2>8. ASSUME rstep' = "list_wal", ~missed' PROVE Enough(target.pages)'
    <3>1. rstep = "list_wal" /\ ~missed
      BY <1>1, <2>8, Zenon
    <3> QED
      BY <1>4, <2>1, <2>2, <2>3, <3>1 DEF LatestOK
  <2> QED
    BY <2>4, <2>5, <2>6, <2>7, <2>8, Zenon DEF LatestOK
<1> QED
  BY <1>3, <1>4

\* A step that changes nothing.
LEMMA DownloadSame ==
  ASSUME DownloadOK, UNCHANGED allVars
  PROVE  DownloadOK'
<1>1. /\ UNCHANGED managerVars
      /\ UNCHANGED <<rstep, target, targetWal, restoring, segments, wal_data, found, couldGive, moment>>
      /\ missed' = missed
  BY DEF allVars, restoreVars, files, fetching
<1>2. bucket' = bucket
  BY <1>1, SameBackup
<1>3. CASE missed'
  BY <1>3 DEF DownloadOK
<1>4. CASE ~missed'
  <2>1. ~missed
    BY <1>1, <1>4, Zenon
  <2>2. ASSUME rstep' = "get_snapshot", found'.gen # 0
        PROVE  \E values \in Seq(Seq(Block)) :
                 /\ Partway(values)'
                 /\ Stored(SnapshotKey(restoring))' =>
                      Enough(bucket[SnapshotKey(restoring)] \cup Replay(FlattenSeq(values)))'
    <3>1. PICK values \in Seq(Seq(Block)) :
            /\ Partway(values)
            /\ Stored(SnapshotKey(restoring)) =>
                 Enough(bucket[SnapshotKey(restoring)] \cup Replay(FlattenSeq(values)))
      BY <1>1, <2>1, <2>2 DEF DownloadOK
    <3>2. Partway(values)'
      BY <1>1, <3>1, PartwaySame
    <3>3. PICK pages : pages = bucket[SnapshotKey(restoring)] \cup Replay(FlattenSeq(values))
      OBVIOUS
    <3>4. Enough(pages) => Enough(pages)'
      BY <1>1, EnoughSame
    <3>5. restoring' = restoring
      BY <1>1
    <3>6. Stored(SnapshotKey(restoring))' =>
            Enough(bucket[SnapshotKey(restoring)] \cup Replay(FlattenSeq(values)))'
      BY <1>2, <3>1, <3>3, <3>4, <3>5 DEF Stored
    <3> QED
      BY <3>2, <3>6
  <2>3. ASSUME rstep' = "get_segment"
        PROVE  \E values \in Seq(Seq(Block)) :
                 Partway(values)' /\ Enough(target.pages \cup Replay(FlattenSeq(values)))'
    <3>1. PICK values \in Seq(Seq(Block)) :
            Partway(values) /\ Enough(target.pages \cup Replay(FlattenSeq(values)))
      BY <1>1, <2>1, <2>3 DEF DownloadOK
    <3>2. Partway(values)'
      BY <1>1, <3>1, PartwaySame
    <3>3. PICK pages : pages = target.pages \cup Replay(FlattenSeq(values))
      OBVIOUS
    <3>4. Enough(pages) => Enough(pages)'
      BY <1>1, EnoughSame
    <3>5. target' = target
      BY <1>1
    <3> QED
      BY <3>1, <3>2, <3>3, <3>4, <3>5
  <2>4. ASSUME rstep' = "replay" PROVE Enough(target.pages \cup Replay(targetWal.blocks))'
    <3>1. PICK pages : pages = target.pages \cup Replay(targetWal.blocks)
      OBVIOUS
    <3>2. Enough(pages)
      BY <1>1, <2>1, <2>4, <3>1 DEF DownloadOK
    <3>3. Enough(pages)'
      BY <1>1, <3>2, EnoughSame
    <3>4. target' = target /\ targetWal' = targetWal
      BY <1>1
    <3> QED
      BY <3>1, <3>3, <3>4
  <2> QED
    BY <2>2, <2>3, <2>4 DEF DownloadOK
<1> QED
  BY <1>3, <1>4

\* A step that leaves the backup.
LEMMA TimelySame ==
  ASSUME Timely, UNCHANGED managerVars
  PROVE  Timely'
<1>1. UNCHANGED <<bucket, generation, commits, ticks, segmentStamps, newStamps, published>>
  BY DEF managerVars, vars, sqliteVars, sqliteFiles, tracking, call, stampVars
<1>2. now_ms' = now_ms
  BY <1>1 DEF now_ms
<1> QED
  BY <1>1, <1>2 DEF Timely, Elapsed

\* Between restores there is nothing to say of what one of them fetched.
LEMMA FetchedReady ==
  ASSUME rstep' \in Ready
  PROVE  LatestOK' /\ DownloadOK' /\ ReadingOK'
<1>1. ~Now'
  BY DEF Now, Ready, Downloading, PointInTime
<1> QED
  BY <1>1, ReadingReady DEF LatestOK, DownloadOK, Ready

\* What holds at every moment, beside RestoreSound and PastOK.
PointOK ==
  /\ Unused /\ LatestListed /\ Begun /\ Timely /\ Uploading
  /\ StampsOK /\ MomentOK /\ LatestOK /\ DownloadOK /\ ReadingOK

\* It holds at the start,
LEMMA PointInit ==
  ASSUME RestoreInit
  PROVE  PointOK
<1>1. DOMAIN bucket = {} /\ running = FALSE
  BY DEF RestoreInit, Init
<1>2. ~running
  BY <1>1
<1>3. /\ rstep = "idle" /\ moment.gen = 0 /\ segmentStamps = <<>> /\ newStamps = <<>>
      /\ DOMAIN published = {}
  BY DEF RestoreInit, NoMoment, StampsInit
<1>4. Unused /\ LatestListed /\ Begun /\ Uploading
  BY <1>1, <1>2 DEF Unused, LatestListed, Begun, Uploading, Stored
<1>5. Timely
  BY <1>3 DEF Timely, Elapsed
<1>6. StampsOK
  BY <1>1, <1>2, <1>3 DEF StampsOK, HasStamp
<1>7. MomentOK
  BY <1>3 DEF MomentOK, Kept
<1>8. LatestOK /\ DownloadOK /\ ReadingOK
  BY <1>3 DEF LatestOK, Now, Downloading, PointInTime, DownloadOK, ReadingOK
<1> QED
  BY <1>4, <1>5, <1>6, <1>7, <1>8 DEF PointOK

\* every step keeps it,
LEMMA PointNext ==
  ASSUME NoFailures, "snapshot" \notin Calls, RestoreSound, RestoreSound', PastOK, PastOK', PointOK,
         [RestoreNext]_allVars
  PROVE  PointOK'
<1>1. [Next]_vars
  BY RestoringReads
<1>2. TypeOK /\ TypeOK' /\ StepOK /\ RInv /\ SInv /\ StampsTypeOK /\ MomentTypeOK /\ SnapshotsClosed
  BY DEF RestoreSound, PastOK
<1>3. Unused /\ LatestListed /\ Begun /\ Timely /\ Uploading
      /\ StampsOK /\ MomentOK /\ LatestOK /\ DownloadOK /\ ReadingOK
  BY DEF PointOK
<1>4. Unused' /\ LatestListed' /\ Begun' /\ Uploading'
  BY <1>1, <1>2, <1>3, UnusedNext, LatestListedNext, BegunNext, UploadingNext
<1>5. CASE Beside
  <2>1. Stamp /\ Witness
    BY <1>5 DEF Beside
  <2>2. MomentStays
    BY <1>2, <2>1, MomentBesideIs
  <2>3. Timely'
    BY <1>1, <1>2, <1>3, <2>1, TimelyBeside
  <2>4. StampsOK'
    BY <1>1, <1>3, <2>1, <2>2, StampsBeside
  <2>5. MomentOK'
    BY <1>1, <1>3, <2>1, MomentBeside
  <2>6. ReadingOK'
    BY <1>1, <1>3, <2>1, ReadingBeside
  <2>7. LatestOK' /\ DownloadOK'
    BY <1>3, <1>5, LatestBeside, DownloadBeside
  <2> QED
    BY <1>4, <2>3, <2>4, <2>5, <2>6, <2>7 DEF PointOK
<1>6. CASE Restoring /\ UNCHANGED managerVars
  <2>1. UNCHANGED moment
    BY <1>6, MomentKept
  <2>2. Timely' /\ StampsOK' /\ MomentOK'
    BY <1>3, <1>6, <2>1, TimelySame, StampsSteady, MomentSteady
  <2>3. LatestOK' /\ ReadingOK'
    BY <1>3, <1>6, LatestRestoring, ReadingRestoring
  <2>4. DownloadOK'
    BY <1>3, <1>6, <2>1, DownloadChosen, DownloadRestoring
  <2> QED
    BY <1>4, <2>2, <2>3, <2>4 DEF PointOK
<1>7. CASE Remember
  <2>1. rstep' \in Ready
    BY <1>7 DEF Remember
  <2>2. Timely' /\ StampsOK' /\ MomentOK'
    BY <1>2, <1>3, <1>7, TimelyRemember, StampsRemember, MomentRemember
  <2> QED
    BY <1>4, <2>1, <2>2, FetchedReady DEF PointOK
<1>8. CASE UNCHANGED allVars
  <2>1. /\ UNCHANGED managerVars
        /\ rstep' = rstep /\ found' = found /\ unread' = unread /\ moment' = moment /\ missed' = missed
    BY <1>8 DEF allVars, restoreVars, files, fetching
  <2>2. Timely' /\ StampsOK' /\ MomentOK'
    BY <1>3, <2>1, TimelySame, StampsSteady, MomentSteady
  <2>3. LatestOK' /\ DownloadOK'
    BY <1>3, <1>8, LatestSame, DownloadSame
  <2>4. ReadingOK'
    BY <1>3, <2>1, ReadingSame
  <2> QED
    BY <1>4, <2>2, <2>3, <2>4 DEF PointOK
<1> QED
  BY <1>5, <1>6, <1>7, <1>8, RestoreSteps

\* and so it holds always.
LEMMA AlwaysPoint ==
  ASSUME NoFailures, "snapshot" \notin Calls
  PROVE  RestoreSpec => [](RestoreSound /\ PastOK /\ PointOK)
<1>1. RestoreSound /\ RestoreSound' /\ PastOK /\ PastOK' /\ PointOK /\ [RestoreNext]_allVars => PointOK'
  BY PointNext
<1> QED
  BY <1>1, AlwaysPast, PointInit, PTL DEF RestoreSpec

\* What a restore hands over when it ends.
LEMMA EndsWith ==
  ASSUME RestoreSound, PointOK, [RestoreNext]_allVars, rstep = "replay", rstep' = "done", ~missed
  PROVE  \E pages : Enough(pages) /\ target'.pages = pages
<1>1. HandsOver
  BY HandedOver
<1>2. PICK pages : pages = target.pages \cup Replay(targetWal.blocks)
  OBVIOUS
<1>3. target'.pages = pages
  BY <1>1, <1>2 DEF HandsOver, OpenTarget, RestoreSound, PagesWithin
<1>4. Enough(pages)
  BY <1>2 DEF PointOK, DownloadOK
<1> QED
  BY <1>3, <1>4

\* A restore of the latest backup that got its manifest gives all that an
\* instantaneous one gave at some moment while it ran, whatever sync_wal,
\* checkpoint, compact and enforce_retention do to the bucket between its
\* downloads: an object that is listed is not written again, and a deleted one
\* fails the restore.
THEOREM RestoreIsNotStaleHolds ==
  ASSUME NoFailures, "snapshot" \notin Calls
  PROVE  RestoreSpec => RestoreIsNotStale
<1>1. RestoreSound /\ PastOK /\ PointOK /\ [RestoreNext]_allVars =>
        (rstep = "replay" /\ rstep' = "done" /\ found.gen = 0 /\ ~missed
         => \E pages \in couldGive : pages \subseteq target'.pages)
  BY EndsWith DEF Enough
<1> QED
  BY <1>1, AlwaysPoint, PTL DEF RestoreSpec, RestoreIsNotStale

\* A restore to a point in time gives all that could be restored at that time,
\* as long as the manifest of the generation of then is found and was not
\* compacted since: the segments stamped up to that time are the first of their
\* manifest, and they are stored as they were or not at all.
THEOREM NothingForgottenHolds ==
  ASSUME NoFailures, "snapshot" \notin Calls
  PROVE  RestoreSpec => NothingForgotten
<1>1. RestoreSound /\ PastOK /\ PointOK /\ [RestoreNext]_allVars =>
        (rstep = "replay" /\ rstep' = "done" /\ found.gen # 0 /\ ~missed
         => moment.restorable \subseteq target'.pages)
  BY EndsWith DEF Enough
<1> QED
  BY <1>1, AlwaysPoint, PTL DEF RestoreSpec, NothingForgotten
================================================================================
