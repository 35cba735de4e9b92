----------------------------- MODULE SegmentUpload -----------------------------
(***************************************************************************)
(* sync_wal and compact (src/src/manager.rs) byte by byte and attempt by   *)
(* attempt: a WAL that grows while it is read, the pipeline the bytes go   *)
(* through, the retries of every request and the requests that reach the   *)
(* store late.  BackupManager has the same calls with whole blocks and one *)
(* outcome per request, and the rest of the API; here one WAL is never     *)
(* restarted and one generation never ends.                                *)
(*                                                                         *)
(* A byte is its position in the WAL file, from 1 on.                      *)
(***************************************************************************)
EXTENDS S3Client, Pipeline, WalFormat, SequencesExt

CONSTANTS
  Compressions,   \* the algorithms configured, "none" one of them
  OwnKeys,        \* the keys configured
  Accidents,      \* what application data may look like, NoMagic one of them
  PageSize,
  MagicSize,      \* bytes that have to look like a magic number
  AccidentAt,     \* where the application may have stored such bytes
  ChunkSize,      \* max_segment_size of compact
  MaxLen,         \* bound: length of the WAL file
  MaxIndex        \* bound: no compaction from this wal_index on

ASSUME UploadAssumption ==
  /\ Compressions \subseteq Algorithms \cup {"none"}
  /\ OwnKeys \subseteq Passphrases \cup {NoKey}
  /\ Accidents \subseteq Formats \cup {NoMagic}
  /\ PageSize \in Nat /\ MagicSize \in Nat \ {0} /\ AccidentAt \in Nat
  /\ ChunkSize \in Nat \ {0} /\ MaxLen \in Nat /\ MaxIndex \in Nat

VARIABLES
  config,         \* of the manager
  lookAlike,      \* the format that the bytes at AccidentAt look like
  walLen,         \* length of the WAL file
  wal_offset, wal_index, manifest,
  step,           \* the request a call waits for
  data,           \* new_data of sync_wal, all_data of compact
  old, todo,      \* indexes of the old segments of compact, and those to go
  newSegments,
  suspect,        \* history: keys of segments that a failed call wrote and a later
                  \* one uses again, and of the segments compacted from these
  overtaken       \* history: a request of a call that is over has changed an
                  \* object, and the manifest has not been uploaded since

managerVars == <<wal_offset, wal_index, manifest, step, data, old, todo, newSegments>>
history == <<suspect, overtaken>>
vars == <<clientVars, config, lookAlike, walLen, managerVars, history>>

Steps == {"idle", "put_segment", "put_segment_manifest",
          "get_segment", "put_chunk", "put_new_manifest", "delete_segment"}

SegmentMetas == [index : Nat, offset : Nat, size : Nat]
Contents == [bytes : Seq(Nat), segments : Seq(SegmentMetas)]

ASSUME FailedAssumption == Failed \notin Objects(Contents)

BytesFrom(from, to) == [i \in 1..(to - from) |-> from + i]

ManifestKey == <<"manifest", 0>>
WalKey(i) == <<"wal", i>>

Bytes(bytes) == [bytes |-> bytes, segments |-> <<>>]
Segments(segments) == [bytes |-> <<>>, segments |-> segments]

First(bytes) ==
  IF bytes # <<>> /\ Head(bytes) = AccidentAt /\ Len(bytes) >= MagicSize
  THEN lookAlike ELSE NoMagic

Encoded(bytes) == pipeline_encode(Plain(First(bytes), Bytes(bytes)), config)
EncodedManifest == pipeline_encode(Plain(NoMagic, Segments(manifest)), config)
Decoded(obj) == pipeline_decode(obj, config)

SegmentMeta(index, offset, size) == [index |-> index, offset |-> offset, size |-> size]

-----------------------------------------------------------------------------
(* The requests. *)

\* Variant: the new segments are numbered from the first one.
CompactIndexFromZero == Len(newSegments)

CompactIndex == wal_index + Len(newSegments)

CompactOffset ==
  IF newSegments = <<>> THEN 0 ELSE Last(newSegments).offset + Last(newSegments).size

CompactEnd ==
  IF CompactOffset + ChunkSize < Len(data) THEN CompactOffset + ChunkSize ELSE Len(data)

Chunk == SubSeq(data, CompactOffset + 1, CompactEnd)

Request ==
  CASE step = "put_segment" -> Put(WalKey(wal_index), Encoded(data))
    [] step \in {"put_segment_manifest", "put_new_manifest"} ->
         Put(ManifestKey, EncodedManifest)
    [] step = "get_segment" -> Get(WalKey(Head(todo)))
    [] step = "put_chunk" -> Put(WalKey(CompactIndex), Encoded(Chunk))
    [] step = "delete_segment" -> Delete(WalKey(Head(todo)))

Succeeds == step # "idle" /\ Attempt(Request, "ok")

\* What the next call finds of the one before.
Return ==
  step' = "idle" /\ data' = <<>> /\ old' = <<>> /\ todo' = <<>> /\ newSegments' = <<>>

Retry ==
  /\ step # "idle"
  /\ Attempt(Request, "retry")
  /\ UNCHANGED <<config, lookAlike, walLen, managerVars, history>>

\* The `?` after a request that failed for the last time.  The indexes from
\* wal_index on will be used again.
CallFails ==
  /\ step # "idle"
  /\ Attempt(Request, "err")
  /\ Return
  /\ suspect' = suspect \cup
       CASE step \in {"put_segment", "put_segment_manifest"} -> {WalKey(wal_index)}
         [] step \in {"put_chunk", "put_new_manifest"} ->
              {WalKey(i) : i \in wal_index..CompactIndex}
         [] OTHER -> {}
  /\ UNCHANGED <<config, lookAlike, walLen, wal_offset, wal_index, manifest, overtaken>>

-----------------------------------------------------------------------------
(* sync_wal. *)

\* Variant: one more frame has to be there.
NothingNewUnlessTwoFrames(aligned_len) ==
  \/ aligned_len <= WAL_HEADER_SIZE
  \/ aligned_len <= wal_offset + WAL_FRAME_HEADER_SIZE + PageSize

NothingNew(aligned_len) == aligned_len <= WAL_HEADER_SIZE \/ aligned_len <= wal_offset

\* The calls that find nothing new change nothing.
SyncWal ==
  /\ step = "idle"
  /\ LET aligned_len == wal_aligned_len(walLen, PageSize)
     IN ~NothingNew(aligned_len) /\ data' = BytesFrom(wal_offset, aligned_len)
  /\ step' = "put_segment"
  /\ UNCHANGED <<clientVars, config, lookAlike, walLen, wal_offset, wal_index,
                 manifest, old, todo, newSegments, history>>

PutSegment ==
  /\ step = "put_segment" /\ Succeeds
  /\ manifest' = Append(manifest, SegmentMeta(wal_index, wal_offset, Len(data)))
  /\ step' = "put_segment_manifest"
  /\ UNCHANGED <<config, lookAlike, walLen, wal_offset, wal_index, data, old, todo,
                 newSegments, history>>

PutSegmentManifest ==
  /\ step = "put_segment_manifest" /\ Succeeds
  /\ wal_offset' = wal_offset + Len(data)
  /\ wal_index' = wal_index + 1
  /\ Return
  /\ overtaken' = FALSE
  /\ UNCHANGED <<config, lookAlike, walLen, manifest, suspect>>

-----------------------------------------------------------------------------
(* compact. *)

Compact ==
  /\ step = "idle"
  /\ Len(manifest) > 1
  /\ wal_index < MaxIndex                                          \* bound
  /\ step' = "get_segment"
  /\ old' = [i \in DOMAIN manifest |-> manifest[i].index]
  /\ todo' = old'
  /\ UNCHANGED <<clientVars, config, lookAlike, walLen, wal_offset, wal_index,
                 manifest, data, newSegments, history>>

GetSegment ==
  /\ step = "get_segment" /\ Succeeds
  /\ LET decoded == Decoded(objects[WalKey(Head(todo))])
     IN \/ decoded = Failed /\ Return
        \/ /\ decoded # Failed
           /\ data' = data \o decoded.content.bytes
           /\ todo' = Tail(todo)
           /\ step' = IF Len(todo) > 1 THEN "get_segment" ELSE "put_chunk"
           /\ UNCHANGED <<old, newSegments>>
  /\ UNCHANGED <<config, lookAlike, walLen, wal_offset, wal_index, manifest, history>>

PutChunk ==
  /\ step = "put_chunk" /\ Succeeds
  /\ newSegments' = Append(newSegments,
                           SegmentMeta(CompactIndex, CompactOffset, Len(Chunk)))
  /\ IF CompactEnd < Len(data)
     THEN UNCHANGED <<step, manifest>>
     ELSE step' = "put_new_manifest" /\ manifest' = newSegments'
  /\ suspect' = suspect \cup
       (IF \E i \in DOMAIN old : WalKey(old[i]) \in suspect THEN {WalKey(CompactIndex)}
        ELSE {})
  /\ UNCHANGED <<config, lookAlike, walLen, wal_offset, wal_index, data, old, todo,
                 overtaken>>

PutNewManifest ==
  /\ step = "put_new_manifest" /\ Succeeds
  /\ wal_index' = CompactIndex
  /\ step' = "delete_segment" /\ todo' = old
  /\ data' = <<>> /\ newSegments' = <<>>
  /\ overtaken' = FALSE
  /\ UNCHANGED <<config, lookAlike, walLen, wal_offset, manifest, old, suspect>>

DeleteSegment ==
  /\ step = "delete_segment" /\ Succeeds
  /\ \/ Len(todo) = 1 /\ Return
     \/ /\ Len(todo) > 1
        /\ todo' = Tail(todo)
        /\ UNCHANGED <<step, data, old, newSegments>>
  /\ UNCHANGED <<config, lookAlike, walLen, wal_offset, wal_index, manifest, history>>

-----------------------------------------------------------------------------
(* SQLite writes the header, then of every frame the header and the page;   *)
(* the network delivers what it had kept.                                   *)

WriteWal ==
  /\ walLen' = walLen + (IF walLen = 0 THEN WAL_HEADER_SIZE
                         ELSE IF \E k \in 0..walLen : walLen = FrameEnd(k, PageSize)
                              THEN WAL_FRAME_HEADER_SIZE
                         ELSE PageSize)
  /\ walLen' <= MaxLen                                             \* bound
  /\ UNCHANGED <<clientVars, config, lookAlike, managerVars, history>>

LandLate ==
  /\ \E request \in delayed :
       /\ Land(request)
       /\ overtaken' = (overtaken \/ (objects' # objects
                                      /\ (step = "idle" \/ request # Request)))
  /\ UNCHANGED <<config, lookAlike, walLen, managerVars, suspect>>

Init ==
  /\ ClientInit
  /\ config \in [compression : Compressions, encryption_key : OwnKeys,
                 features : {Formats}]
  /\ lookAlike \in Accidents
  /\ walLen = 0
  /\ wal_offset = 0 /\ wal_index = 0 /\ manifest = <<>>
  /\ step = "idle" /\ data = <<>> /\ old = <<>> /\ todo = <<>> /\ newSegments = <<>>
  /\ suspect = {} /\ overtaken = FALSE

CallStep ==
  \/ Retry \/ CallFails
  \/ PutSegment \/ PutSegmentManifest
  \/ GetSegment \/ PutChunk \/ PutNewManifest \/ DeleteSegment

Next == SyncWal \/ Compact \/ CallStep \/ WriteWal \/ LandLate

\* A call runs to its end, and the caller's loop calls sync_wal again and
\* again between its other calls.
Fairness == WF_vars(CallStep) /\ SF_vars(SyncWal)

Spec == Init /\ [][Next]_vars /\ Fairness
================================================================================
