--------------------------- MODULE UploadProperties ---------------------------
(* What SegmentUpload has to keep true. *)
EXTENDS SegmentUpload

\* retry makes at most MAX_RETRIES + 1 attempts (s3.rs:55-75), nothing is read
\* or tracked past the end of the WAL, and only uploads and deletions arrive
\* late.
UploadTypeOK ==
  /\ attempt \in 0..MAX_RETRIES /\ faults \in 0..MaxFaults
  /\ config \in Configs /\ lookAlike \in Formats \cup {NoMagic}
  /\ walLen \in 0..MaxLen /\ wal_offset \in 0..walLen /\ wal_index \in Nat
  /\ step \in Steps
  /\ \A request \in delayed : request.op \in {"put", "delete"}
  /\ overtaken \in BOOLEAN

Listed(obj) == {obj.content.segments[i] : i \in DOMAIN obj.content.segments}

StoredManifest == Decoded(objects[ManifestKey])

\* The bytes of a segment, whatever decoding makes of it.
StoredBytes(k) == objects[k].content.bytes

\* decompress takes the magic number of application data for its own.
LooksEncoded(obj) == obj.first \in Algorithms /\ config.compression = "none"

\* Every segment that the stored manifest lists and that is stored holds the
\* range of the WAL its entry states, and decodes to it, although attempts are
\* repeated, arrive late, after other calls, and compaction writes new segments
\* beside the old ones.  Excepted are the keys that a failed call has written,
\* which sync_wal and compact use again (manager.rs:258, 518), and data that
\* looks compressed to decompress (compression.rs:33-63).
ListedSegmentsExact ==
  ManifestKey \in DOMAIN objects =>
    \A e \in Listed(StoredManifest) :
      LET k == WalKey(e.index) IN
      k \in DOMAIN objects \ suspect =>
        /\ StoredBytes(k) = BytesFrom(e.offset, e.offset + e.size)
        /\ \/ Decoded(objects[k]) = Plain(objects[k].first, objects[k].content)
           \/ LooksEncoded(objects[k])

\* Once sync_wal has returned Ok, the store holds the WAL up to wal_offset, in
\* the order and at the places the manifest states, through retries and at every
\* step of a compaction, unless a call failed before, or a late attempt has
\* changed an object; and the next upload of the manifest repairs what such an
\* attempt did (s3.rs:49-88).
AckedIsDurable ==
  (suspect = {} /\ ~overtaken /\ wal_offset > 0) =>
    /\ ManifestKey \in DOMAIN objects
    /\ LET segments == StoredManifest.content.segments
           of(i) == WalKey(segments[i].index)
           restored == FlattenSeq([i \in DOMAIN segments |-> StoredBytes(of(i))])
       IN /\ \A i \in DOMAIN segments : of(i) \in DOMAIN objects
          /\ Len(restored) >= wal_offset
          /\ restored = BytesFrom(0, Len(restored))

FrameEnds == {FrameEnd(k, PageSize) : k \in 0..MaxLen}

\* Nothing is tracked as synced in the middle of a frame, and the stored manifest
\* ends with a frame that was complete, however far SQLite had come with the next
\* one when the file was read, and wherever compaction has cut (wal_aligned_len).
WholeFrames ==
  /\ wal_offset \in FrameEnds \cup {0}
  /\ (suspect = {} /\ ManifestKey \in DOMAIN objects) =>
       LET last == Last(StoredManifest.content.segments)
       IN last.offset + last.size \in FrameEnds \cap 1..walLen

\* A program with any features, algorithm and key gets what was encoded or an
\* error from pipeline_decode, never the bytes of a layer; except that one
\* without a key takes what is encrypted for plain data (manager.rs:170-177).
NeverMisread ==
  \A k \in DOMAIN objects : \A reader \in {c \in Configs : c.compression = "none"} :
    LET decoded == pipeline_decode(objects[k], reader)
    IN \/ decoded = Failed
       \/ decoded.layers = <<>>
       \/ config.encryption_key # NoKey /\ reader.encryption_key = NoKey

\* Every frame that is complete is synced in the end, although uploads fail and
\* calls with them, and compactions come between: sync_wal starts again from
\* wal_offset (manager.rs:251-277).
EventuallyUploaded ==
  \A end \in FrameEnds \cap (WAL_HEADER_SIZE + 1)..MaxLen :
    walLen >= end ~> wal_offset >= end
================================================================================
