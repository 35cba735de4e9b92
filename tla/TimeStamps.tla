------------------------------ MODULE TimeStamps ------------------------------
(***************************************************************************)
(* The time stamps a manifest carries (src/src/manifest.rs): when its      *)
(* snapshot was uploaded and when each of its segments was.  They are kept *)
(* beside the state of BackupManager, which does not depend on them, and   *)
(* change with its steps.                                                  *)
(*                                                                         *)
(* The clock counts what a restore to a point in time has to tell apart:   *)
(* transactions committed, generations begun and points in time that will  *)
(* be asked for.                                                           *)
(***************************************************************************)
EXTENDS BackupManager

VARIABLES
  ticks,              \* points in time that will be asked for
  snapshotStamp,      \* manifest.snapshot_timestamp_ms
  segmentStamps,      \* manifest.segments[n].timestamp_ms
  newStamps,          \* the same of the new_segments of compact
  published           \* generation |-> the stamps of its manifest in the bucket

stampVars == <<ticks, snapshotStamp, segmentStamps, newStamps, published>>

now_ms == commits + generation + ticks

Stamps == [snapshot : Nat, segments : Seq(Nat)]

StampsTypeOK ==
  /\ ticks \in Nat
  /\ snapshotStamp \in Nat
  /\ segmentStamps \in Seq(Nat) /\ Len(segmentStamps) = Len(manifest)
  /\ newStamps \in Seq(Nat) /\ Len(newStamps) = Len(newSegments)
  /\ \A g \in DOMAIN published : published[g] \in Stamps
  /\ DOMAIN published = {g \in Generations : Stored(ManifestKey(g))}

StampsInit ==
  /\ ticks = 0
  /\ snapshotStamp = 0 /\ segmentStamps = <<>> /\ newStamps = <<>>
  /\ published = <<>>

\* GenerationManifest::new stamps the snapshot to come, snapshot() again when
\* `latest` is written.
SnapshotStamped ==
  \/ generation' # generation
  \/ step = "put_latest" /\ step' = "put_snapshot_manifest"

\* Variant: the manifest of the generation before is not cleared.
SegmentStampsKept ==
  IF step = "put_segment" /\ manifest' # manifest /\ manifest' # <<>>
  THEN Append(segmentStamps, now_ms) ELSE segmentStamps

\* add_segment, segments.clear(), and the segments compact puts in their place.
NextSegmentStamps ==
  CASE manifest' = manifest -> segmentStamps
    [] manifest' = <<>> -> <<>>
    [] manifest' # <<>> /\ manifest' # manifest ->
         IF step = "put_segment" THEN Append(segmentStamps, now_ms) ELSE newStamps'

NextNewStamps ==
  IF Len(newSegments') > Len(newSegments) THEN Append(newStamps, now_ms)
  ELSE SubSeq(newStamps, 1, Len(newSegments'))

ManifestSteps == {"put_segment_manifest", "put_snapshot_manifest", "compact_manifest"}

\* upload_manifest.  An upload that failed has landed if the bucket holds it.
ManifestLanded ==
  /\ step \in ManifestSteps
  /\ ManifestKey(generation) \in DOMAIN bucket'
  /\ bucket'[ManifestKey(generation)] = manifest

NextPublished ==
  [g \in {g \in Generations : ManifestKey(g) \in DOMAIN bucket'} |->
     IF g = generation /\ ManifestLanded
     THEN [snapshot |-> snapshotStamp, segments |-> segmentStamps]
     ELSE published[g]]

\* What a step of the manager does to the stamps.
Stamp ==
  /\ snapshotStamp' = IF SnapshotStamped THEN now_ms ELSE snapshotStamp
  /\ newStamps' = NextNewStamps
  /\ segmentStamps' = NextSegmentStamps
  /\ published' = NextPublished
  /\ UNCHANGED ticks
===============================================================================
