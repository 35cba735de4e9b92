----------------------------- MODULE UploadProofs -----------------------------
(***************************************************************************)
(* Proofs about sync_wal and compact in bytes (UploadProperties).  In      *)
(* order: what wal_aligned_len cuts off ends with a frame (SyncInv);       *)
(* types, and what the objects encode (TInv); what is sent under an index  *)
(* is what the manifests say of it (XInv); what is needed stays stored     *)
(* (DInv).  Each invariant assumes those before it.                        *)
(***************************************************************************)
EXTENDS UploadProperties, FlattenProofs

FrameSize(page_size) == WAL_FRAME_HEADER_SIZE + page_size

\* The number of frames of this size that fit, as sync_wal computes it.
LEMMA Division ==
  ASSUME NEW n \in Nat, NEW F \in Nat \ {0}
  PROVE  /\ n \div F \in Nat
         /\ (n \div F) * F <= n
         /\ n < (n \div F) * F + F
  BY Z3

LEMMA Product ==
  ASSUME NEW a \in Nat, NEW b \in Nat, NEW F \in Nat \ {0}, a >= b + 1
  PROVE  a * F >= b * F + F
  BY Z3

\* wal_aligned_len (manager.rs:21-36), for every length and page size: the result
\* is the end of a frame, within the file, and no frame after it is complete.
THEOREM AlignedLen ==
  ASSUME NEW len \in Nat, NEW page_size \in Nat, len >= WAL_HEADER_SIZE
  PROVE  /\ \E k \in Nat : wal_aligned_len(len, page_size) = FrameEnd(k, page_size)
         /\ wal_aligned_len(len, page_size) <= len
         /\ page_size # 0 =>
              \A k \in Nat : FrameEnd(k, page_size) <= len
                => FrameEnd(k, page_size) <= wal_aligned_len(len, page_size)
<1> DEFINE F == FrameSize(page_size)
           n == len - WAL_HEADER_SIZE
           q == n \div F
<1>1. F \in Nat \ {0} /\ n \in Nat
  BY SizesAssumption DEF FrameSize
<1>2. q \in Nat /\ q * F <= n /\ n < q * F + F
  BY <1>1, Division
<1>3. \A k \in Nat : FrameEnd(k, page_size) = WAL_HEADER_SIZE + k * F
  BY DEF FrameEnd, FrameSize
<1>4. FrameEnd(0, page_size) = WAL_HEADER_SIZE
  BY <1>3, <1>1, SizesAssumption
<1> HIDE DEF F, n, q
<1>5. CASE len < WAL_HEADER_SIZE + WAL_FRAME_HEADER_SIZE
  <2>1. wal_aligned_len(len, page_size) = WAL_HEADER_SIZE
    BY <1>5, SizesAssumption DEF wal_aligned_len
  <2>2. ASSUME NEW k \in Nat, FrameEnd(k, page_size) <= len
        PROVE  k = 0
    <3>1. SUFFICES ASSUME k # 0 PROVE FALSE
      OBVIOUS
    <3>2. k * F >= 0 * F + F
      BY <3>1, <1>1, Product
    <3>3. F >= WAL_FRAME_HEADER_SIZE
      BY SizesAssumption DEF F, FrameSize
    <3>4. k * F \in Nat /\ 0 * F = 0
      BY <1>1
    <3> QED
      BY <3>2, <3>3, <3>4, <2>2, <1>1, <1>3, <1>5, SizesAssumption
  <2> QED
    BY <2>1, <2>2, <1>4, SizesAssumption
<1>6. CASE len >= WAL_HEADER_SIZE + WAL_FRAME_HEADER_SIZE /\ page_size = 0
  BY <1>4, <1>6, SizesAssumption DEF wal_aligned_len
<1>7. CASE len >= WAL_HEADER_SIZE + WAL_FRAME_HEADER_SIZE /\ page_size # 0
  <2>1. wal_aligned_len(len, page_size) = FrameEnd(q, page_size)
    BY <1>7, SizesAssumption DEF wal_aligned_len, q, n, F, FrameSize
  <2>2. q * F \in Nat
    BY <1>1, <1>2
  <2>3. FrameEnd(q, page_size) <= len
    BY <1>2, <1>3, <2>2, SizesAssumption DEF n
  <2>4. ASSUME NEW k \in Nat, FrameEnd(k, page_size) <= len
        PROVE  FrameEnd(k, page_size) <= FrameEnd(q, page_size)
    <3>1. k <= q
      <4>1. SUFFICES ASSUME k >= q + 1 PROVE FALSE
        BY <1>2
      <4>2. k * F >= q * F + F
        BY <4>1, <1>1, <1>2, Product
      <4>3. k * F \in Nat
        BY <1>1
      <4> QED
        BY <4>2, <4>3, <2>2, <2>4, <1>1, <1>2, <1>3, SizesAssumption DEF n
    <3>2. CASE k = q
      BY <3>2, <2>2, <1>2, <1>3, SizesAssumption
    <3>3. CASE q >= k + 1
      <4>1. q * F >= k * F + F
        BY <3>3, <1>1, <1>2, Product
      <4>2. k * F \in Nat
        BY <1>1
      <4> QED
        BY <4>1, <4>2, <2>2, <1>1, <1>2, <1>3, SizesAssumption
    <3> QED
      BY <3>1, <3>2, <3>3, <1>2
  <2> QED
    BY <2>1, <2>3, <2>4, <1>2
<1> QED
  BY <1>5, <1>6, <1>7, SizesAssumption

-----------------------------------------------------------------------------
OnFrameEnd(offset) == offset = 0 \/ \E k \in Nat : offset = FrameEnd(k, PageSize)

\* Between the two uploads of sync_wal the bytes it has read end with a frame.
SyncInv ==
  /\ walLen \in Nat
  /\ wal_offset \in Nat
  /\ OnFrameEnd(wal_offset)
  /\ step \in {"put_segment", "put_segment_manifest"} =>
       Len(data) \in Nat /\ OnFrameEnd(wal_offset + Len(data))

LEMMA SyncInit == Init => SyncInv
BY DEF Init, SyncInv, OnFrameEnd

\* What sync_wal reads ends with the last complete frame of the file.
LEMMA SyncReads == SyncInv /\ SyncWal => SyncInv'
<1> SUFFICES ASSUME SyncInv, SyncWal PROVE SyncInv'
  OBVIOUS
<1> DEFINE aligned_len == wal_aligned_len(walLen, PageSize)
<1>1. walLen \in Nat /\ wal_offset \in Nat /\ PageSize \in Nat
  BY UploadAssumption DEF SyncInv
<1>2. ~(aligned_len <= WAL_HEADER_SIZE) /\ ~(aligned_len <= wal_offset)
  BY DEF SyncWal, NothingNew
<1>3. walLen >= WAL_HEADER_SIZE
  <2>1. SUFFICES ASSUME walLen < WAL_HEADER_SIZE PROVE FALSE
    BY <1>1, SizesAssumption
  <2>2. aligned_len = walLen
    BY <2>1, <1>1, SizesAssumption DEF wal_aligned_len
  <2> QED
    BY <2>1, <2>2, <1>1, <1>2, SizesAssumption
<1>4. PICK k \in Nat : aligned_len = FrameEnd(k, PageSize)
  BY <1>1, <1>3, AlignedLen
<1>5. aligned_len \in Nat
  <2>1. k * (WAL_FRAME_HEADER_SIZE + PageSize) \in Nat
    BY <1>1, SizesAssumption
  <2> QED
    BY <2>1, <1>4, SizesAssumption DEF FrameEnd
<1>6. data' = BytesFrom(wal_offset, aligned_len) /\ walLen' = walLen
      /\ wal_offset' = wal_offset
  BY DEF SyncWal
<1> HIDE DEF aligned_len
<1>7. aligned_len - wal_offset \in Nat
  BY <1>1, <1>2, <1>5
<1>8. Len(data') = aligned_len - wal_offset
  BY <1>6, <1>7 DEF BytesFrom
<1>9. wal_offset + Len(data') = aligned_len
  BY <1>1, <1>5, <1>8
<1> QED
  BY <1>1, <1>4, <1>6, <1>7, <1>8, <1>9 DEF SyncInv, OnFrameEnd

LEMMA SyncStep == SyncInv /\ [Next]_vars => SyncInv'
<1> SUFFICES ASSUME SyncInv, [Next]_vars PROVE SyncInv'
  OBVIOUS
<1>1. CASE SyncWal
  BY <1>1, SyncReads
<1>2. CASE Compact
  BY <1>2 DEF Compact, SyncInv
<1>3. CASE Retry
  BY <1>3 DEF Retry, managerVars, SyncInv
<1>4. CASE CallFails
  BY <1>4 DEF CallFails, Return, SyncInv
<1>5. CASE PutSegment
  BY <1>5 DEF PutSegment, SyncInv
<1>6. CASE PutSegmentManifest
  BY <1>6 DEF PutSegmentManifest, Return, SyncInv
<1>7. CASE GetSegment
  BY <1>7 DEF GetSegment, Return, SyncInv
<1>8. CASE PutChunk
  BY <1>8 DEF PutChunk, SyncInv
<1>9. CASE PutNewManifest
  BY <1>9 DEF PutNewManifest, SyncInv
<1>10. CASE DeleteSegment
  BY <1>10 DEF DeleteSegment, Return, SyncInv
<1>11. CASE WriteWal
  <2>1. walLen' \in Nat
    BY <1>11, SizesAssumption, UploadAssumption DEF WriteWal, SyncInv
  <2> QED
    BY <1>11, <2>1 DEF WriteWal, managerVars, SyncInv
<1>12. CASE LandLate
  BY <1>12 DEF LandLate, managerVars, SyncInv
<1>13. CASE UNCHANGED vars
  BY <1>13 DEF vars, managerVars, SyncInv
<1> QED
  BY <1>1, <1>2, <1>3, <1>4, <1>5, <1>6, <1>7, <1>8, <1>9, <1>10, <1>11, <1>12, <1>13
  DEF Next, CallStep

\* wal_offset, up to which the WAL counts as synced, is never in the middle of a
\* frame, whatever lengths the file had when it was read and whichever uploads
\* failed (sync_wal, manager.rs:251-277): the first part of WholeFrames.
THEOREM TrackedWholeFrames == Spec => []OnFrameEnd(wal_offset)
<1>1. SyncInv => OnFrameEnd(wal_offset)
  BY DEF SyncInv
<1> QED
  BY <1>1, SyncInit, SyncStep, PTL DEF Spec

-----------------------------------------------------------------------------
(* The pipeline. *)

LEMMA Wrapped ==
  ASSUME NEW C, NEW obj \in Objects(C), NEW format \in Formats,
         NEW key \in Passphrases \cup {NoKey}
  PROVE  /\ Wrap(format, key, obj) \in Objects(C)
         /\ Wrap(format, key, obj).layers # <<>>
         /\ Head(Wrap(format, key, obj).layers) = [format |-> format, key |-> key]
         /\ Wrap(format, key, obj).first = obj.first
         /\ Wrap(format, key, obj).content = obj.content
         /\ Peel(Wrap(format, key, obj)) = obj
<1> DEFINE L == [format : Formats, key : Passphrases \cup {NoKey}]
           layer == [format |-> format, key |-> key]
           w == Wrap(format, key, obj)
<1>1. obj.layers \in Seq(L) /\ layer \in L
  BY DEF Objects
<1>2. w = [obj EXCEPT !.layers = <<layer>> \o obj.layers]
  BY DEF Wrap
<1>3. /\ <<layer>> \o obj.layers \in Seq(L) /\ <<layer>> \o obj.layers # <<>>
      /\ Head(<<layer>> \o obj.layers) = layer
      /\ Tail(<<layer>> \o obj.layers) = obj.layers
  BY <1>1
<1> HIDE DEF L, layer
<1>4. PICK layers \in Seq(L) : layers = <<layer>> \o obj.layers
  BY <1>3
<1> HIDE DEF w
<1>5. w \in Objects(C) /\ w.layers = layers /\ w.first = obj.first /\ w.content = obj.content
  BY <1>2, <1>4 DEF Objects, L
<1>6. Peel(w) = [w EXCEPT !.layers = obj.layers]
  BY <1>3, <1>4, <1>5 DEF Peel
<1>7. Peel(w) = obj
  BY <1>1, <1>5, <1>6 DEF Objects, L
<1> QED
  BY <1>3, <1>4, <1>5, <1>7 DEF w, layer

LEMMA Compressed ==
  ASSUME NEW C, NEW p \in Objects(C), p.layers = <<>>, NEW algo \in Algorithms \cup {"none"}
  PROVE  /\ compress(p, algo) \in Objects(C)
         /\ compress(p, algo).first = p.first /\ compress(p, algo).content = p.content
         /\ \A features : \/ decompress(compress(p, algo), features) = p
                          \/ /\ decompress(compress(p, algo), features) = Failed
                             /\ \/ algo = "none" /\ p.first \in Algorithms
                                \/ algo # "none" /\ algo \notin features
<1>1. CASE algo = "none"
  BY <1>1 DEF compress, decompress, Magic
<1>2. CASE algo # "none"
  <2>1. algo \in Formats /\ algo \in Algorithms
    BY <1>2 DEF Formats
  <2>2. PICK w : w = Wrap(algo, NoKey, p)
    OBVIOUS
  <2>3. /\ w \in Objects(C) /\ w.layers # <<>> /\ Peel(w) = p
        /\ Head(w.layers) = [format |-> algo, key |-> NoKey]
        /\ w.first = p.first /\ w.content = p.content
    BY <2>1, <2>2, Wrapped, Zenon
  <2>4. compress(p, algo) = w
    BY <1>2, <2>2 DEF compress
  <2>5. Magic(w) = algo
    BY <2>3 DEF Magic
  <2> QED
    BY <1>2, <2>1, <2>3, <2>4, <2>5 DEF decompress
<1> QED
  BY <1>1, <1>2

\* What was encoded is what decoding gives, or an error; except for a program
\* without a key.  The program that encoded it fails only on data that looks
\* compressed.
LEMMA DecodeEncoded ==
  ASSUME NEW C, NEW p \in Objects(C), p.layers = <<>>, NEW ours \in Configs,
         NEW reader \in Configs
  PROVE  LET obj == pipeline_encode(p, ours)
             decoded == pipeline_decode(obj, reader)
         IN /\ obj \in Objects(C) /\ obj.first = p.first /\ obj.content = p.content
            /\ \/ decoded \in {Failed, p}
               \/ ours.encryption_key # NoKey /\ reader.encryption_key = NoKey
            /\ reader = ours /\ Failed \notin Objects(C) =>
                 \/ decoded = p
                 \/ decoded = Failed /\ ours.compression = "none" /\ p.first \in Algorithms
<1> DEFINE obj == pipeline_encode(p, ours)
           decoded == pipeline_decode(obj, reader)
<1>1. /\ ours.compression \in Algorithms \cup {"none"}
      /\ ours.encryption_key \in Passphrases \cup {NoKey}
      /\ ours.compression \in ours.features \cup {"none"}
  BY DEF Configs
<1>2. PICK c : c = compress(p, ours.compression)
  OBVIOUS
<1>3. /\ c \in Objects(C) /\ c.first = p.first /\ c.content = p.content
      /\ \A features : \/ decompress(c, features) = p
                       \/ /\ decompress(c, features) = Failed
                          /\ \/ ours.compression = "none" /\ p.first \in Algorithms
                             \/ /\ ours.compression # "none"
                                /\ ours.compression \notin features
  <2>1. PICK algo \in Algorithms \cup {"none"} : algo = ours.compression
    BY <1>1
  <2>2. c = compress(p, algo)
    BY <1>2, <2>1
  <2> QED
    BY <2>1, <2>2, Compressed, SMT
<1>4. CASE ours.encryption_key = NoKey
  <2>1. obj = c
    BY <1>2, <1>4 DEF pipeline_encode
  <2>2. \/ decoded = Failed /\ reader.encryption_key # NoKey
        \/ decoded = Failed /\ c = Failed
        \/ decoded = decompress(c, reader.features)
        \/ decoded = decompress(Peel(c), reader.features) /\ Magic(c) = "encryption"
           /\ c.layers # <<>>
    BY <2>1 DEF pipeline_decode, decrypt
  <2>3. c.layers # <<>> => Magic(c) # "encryption"
    <3>1. CASE ours.compression = "none"
      BY <1>2, <3>1 DEF compress
    <3>2. CASE ours.compression # "none"
      <4>1. ours.compression \in Formats /\ NoKey \in Passphrases \cup {NoKey}
            /\ ours.compression # "encryption"
        BY <1>1, <3>2 DEF Formats, Algorithms
      <4>2. Head(c.layers) = [format |-> ours.compression, key |-> NoKey]
            /\ c.layers # <<>>
        BY <1>2, <3>2, <4>1, Wrapped, Zenon DEF compress
      <4> QED
        BY <4>1, <4>2 DEF Magic
    <3> QED
      BY <3>1, <3>2
  <2> QED
    BY <1>1, <1>3, <1>4, <2>1, <2>2, <2>3
<1>5. CASE ours.encryption_key # NoKey
  <2>1. PICK w : w = Wrap("encryption", ours.encryption_key, c)
    OBVIOUS
  <2>2. "encryption" \in Formats
    BY DEF Formats
  <2>3. /\ w \in Objects(C) /\ w.layers # <<>> /\ Peel(w) = c
        /\ Head(w.layers) = [format |-> "encryption", key |-> ours.encryption_key]
        /\ w.first = c.first /\ w.content = c.content
    BY <1>1, <1>3, <2>1, <2>2, Wrapped, Zenon
  <2>4. obj = w
    BY <1>2, <1>5, <2>1 DEF pipeline_encode, encrypt
  <2>5. Magic(w) = "encryption"
    BY <2>3 DEF Magic
  <2>6. decrypt(w, reader.encryption_key) =
          IF ours.encryption_key # reader.encryption_key THEN Failed ELSE c
    BY <2>3, <2>5 DEF decrypt
  <2>7. CASE reader.encryption_key # NoKey
    <3>1. decoded = IF decrypt(w, reader.encryption_key) = Failed THEN Failed
                    ELSE decompress(decrypt(w, reader.encryption_key), reader.features)
      BY <2>4, <2>7 DEF pipeline_decode
    <3> QED
      BY <1>1, <1>3, <2>3, <2>4, <2>6, <3>1
  <2> QED
    BY <1>1, <1>3, <1>5, <2>3, <2>4, <2>7
<1> QED
  BY <1>4, <1>5

-----------------------------------------------------------------------------
(* The requests. *)

\* What was sent to a key: what it holds and what may still arrive.
Sent(k) ==
  {objects[j] : j \in {k} \cap DOMAIN objects}
  \cup {r.value : r \in {d \in delayed : d.op = "put" /\ d.key = k}}

PutBy(request, k) ==
  IF request.op = "put" /\ request.key = k THEN {request.value} ELSE {}

Ops == {"get", "put", "delete"}

\* A request that takes effect changes nothing but its key.
LEMMA Effect ==
  ASSUME NEW request, request.op \in Ops, objects' = After(request)
  PROVE  /\ \A k \in DOMAIN objects' :
               \/ k \in DOMAIN objects /\ objects'[k] = objects[k]
               \/ request.op = "put" /\ k = request.key /\ objects'[k] = request.value
         /\ \A k \in DOMAIN objects :
               k # request.key => k \in DOMAIN objects' /\ objects'[k] = objects[k]
         /\ request.op = "get" => objects' = objects
         /\ request.op = "put" => /\ request.key \in DOMAIN objects'
                                  /\ objects'[request.key] = request.value
<1>1. CASE request.op = "get"
  <2>1. objects' = objects
    BY <1>1 DEF After
  <2> QED
    BY <1>1, <2>1
<1>2. CASE request.op = "put"
  <2>1. objects' = [k \in DOMAIN objects \cup {request.key} |->
                      IF k = request.key THEN request.value ELSE objects[k]]
    BY <1>2 DEF After
  <2> QED
    BY <1>2, <2>1
<1>3. CASE request.op = "delete"
  <2>1. objects' = [k \in DOMAIN objects \ {request.key} |-> objects[k]]
    BY <1>3 DEF After
  <2> QED
    BY <1>3, <2>1
<1> QED
  BY <1>1, <1>2, <1>3 DEF Ops

\* An attempt has its effect or not, and is late or not.
LEMMA AttemptMay ==
  ASSUME NEW request, request.op \in Ops, NEW result, Attempt(request, result)
  PROVE  /\ objects' = objects \/ objects' = After(request)
         /\ result = "ok" => objects' = After(request)
         /\ delayed' = delayed \/ (request.op # "get" /\ delayed' = delayed \cup {request})
<1>1. result = "ok" => AttemptSucceeds(request)
  BY DEF Attempt, LastResult
<1>2. AttemptSucceeds(request) \/ AttemptFails(request)
  BY DEF Attempt
<1> QED
  BY <1>1, <1>2 DEF AttemptSucceeds, AttemptFails

\* Nothing is sent to a key but by the request.
LEMMA SentBy ==
  ASSUME NEW request, request.op \in Ops,
         objects' = objects \/ objects' = After(request),
         \A r \in delayed' : r \in delayed \/ r = request,
         NEW k, NEW v \in Sent(k)'
  PROVE  v \in Sent(k) \/ (request.op = "put" /\ request.key = k /\ v = request.value)
<1>1. CASE k \in DOMAIN objects' /\ v = objects'[k]
  <2>1. CASE objects' = objects
    BY <1>1, <2>1 DEF Sent
  <2>2. CASE objects' = After(request)
    BY <1>1, <2>2, Effect DEF Sent
  <2> QED
    BY <2>1, <2>2
<1>2. CASE \E r \in delayed' : r.op = "put" /\ r.key = k /\ v = r.value
  BY <1>2 DEF Sent
<1> QED
  BY <1>1, <1>2 DEF Sent

\* A late request sends nothing new.
LEMMA LandMay ==
  ASSUME NEW request, request.op \in Ops, Land(request)
  PROVE  /\ objects' = After(request)
         /\ \A k : Sent(k)' \subseteq Sent(k)
         /\ delayed' \subseteq delayed
<1>1. objects' = After(request) /\ request \in delayed /\ delayed' \subseteq delayed
  BY DEF Land
<1>2. ASSUME NEW k, NEW v \in Sent(k)' PROVE v \in Sent(k)
  <2>1. v \in Sent(k) \/ (request.op = "put" /\ request.key = k /\ v = request.value)
    BY <1>1, SentBy
  <2> QED
    BY <1>1, <2>1 DEF Sent
<1> QED
  BY <1>1, <1>2

-----------------------------------------------------------------------------
(* Types: of what the manager remembers, and of what is stored. *)

Keys == {ManifestKey} \cup {WalKey(i) : i \in Nat}

\* Stored under k is what pipeline_encode made of some content.
Encodes(k, obj) ==
  /\ obj \in Objects(Contents)
  /\ obj = pipeline_encode(Plain(obj.first, obj.content), config)
  /\ k = ManifestKey => obj.first = NoMagic

Stores ==
  /\ DOMAIN objects \subseteq Keys
  /\ \A r \in delayed : r.key \in Keys
  /\ \A k \in Keys : \A v \in Sent(k) : Encodes(k, v)

Buffers ==
  /\ manifest \in Seq(SegmentMetas) /\ newSegments \in Seq(SegmentMetas)
  /\ data \in Seq(Nat) /\ old \in Seq(Nat) /\ todo \in Seq(Nat)
  /\ step \in {"put_segment", "put_segment_manifest"} =>
       /\ wal_offset + Len(data) <= walLen
       /\ data = BytesFrom(wal_offset, wal_offset + Len(data))
  /\ step \in {"get_segment", "delete_segment"} => todo # <<>>
  /\ step \in {"get_segment", "put_chunk", "put_new_manifest"} => old # <<>>
  /\ newSegments # <<>> => step \in {"put_chunk", "put_new_manifest"}
  /\ CompactOffset <= Len(data)

TInv == UploadTypeOK /\ Stores /\ Buffers

LEMMA KeysDiffer == \A i, j \in Nat : WalKey(i) # ManifestKey /\ (WalKey(i) = WalKey(j) => i = j)
BY DEF WalKey, ManifestKey

LEMMA RequestOf ==
  /\ step = "put_segment" => Request = Put(WalKey(wal_index), Encoded(data))
  /\ step \in {"put_segment_manifest", "put_new_manifest"} =>
       Request = Put(ManifestKey, EncodedManifest)
  /\ step = "get_segment" => Request = Get(WalKey(Head(todo)))
  /\ step = "put_chunk" => Request = Put(WalKey(CompactIndex), Encoded(Chunk))
  /\ step = "delete_segment" => Request = Delete(WalKey(Head(todo)))
BY DEF Request

LEMMA CompactBounds ==
  ASSUME TInv
  PROVE  /\ CompactIndex \in Nat /\ CompactOffset \in Nat /\ CompactEnd \in Nat
         /\ CompactOffset <= CompactEnd /\ CompactEnd <= Len(data)
         /\ CompactOffset < Len(data) => CompactOffset < CompactEnd
         /\ Chunk \in Seq(Nat) /\ Len(Chunk) = CompactEnd - CompactOffset
         /\ \A i \in 1..(CompactEnd - CompactOffset) : Chunk[i] = data[CompactOffset + i]
<1>1. /\ newSegments \in Seq(SegmentMetas) /\ data \in Seq(Nat) /\ wal_index \in Nat
      /\ CompactOffset <= Len(data) /\ Len(data) \in Nat /\ Len(newSegments) \in Nat
  BY DEF TInv, Buffers, UploadTypeOK
<1>2. CompactIndex \in Nat
  BY <1>1 DEF CompactIndex
<1>3. CompactOffset \in Nat
  <2>1. CASE newSegments = <<>>
    BY <2>1 DEF CompactOffset
  <2>2. CASE newSegments # <<>>
    <3>1. newSegments[Len(newSegments)] \in SegmentMetas
      BY <1>1, <2>2
    <3> QED
      BY <2>2, <3>1 DEF CompactOffset, Last, SegmentMetas
  <2> QED
    BY <2>1, <2>2
<1>4. PICK offset \in Nat : offset = CompactOffset
  BY <1>3
<1>5. /\ CompactEnd \in Nat /\ CompactOffset <= CompactEnd /\ CompactEnd <= Len(data)
      /\ CompactOffset < Len(data) => CompactOffset < CompactEnd
  BY <1>1, <1>4, UploadAssumption DEF CompactEnd
<1>6. PICK end \in Nat : end = CompactEnd
  BY <1>5
<1>7. Chunk = SubSeq(data, offset + 1, end)
  BY <1>4, <1>6 DEF Chunk
<1>8. \A i \in (offset + 1)..end : data[i] \in Nat
  BY <1>1, <1>4, <1>5, <1>6
<1>9. /\ Chunk \in Seq(Nat)
      /\ Len(Chunk) = IF offset + 1 <= end THEN end - (offset + 1) + 1 ELSE 0
      /\ \A i \in 1..(end - (offset + 1) + 1) : Chunk[i] = data[(offset + 1) + i - 1]
  BY <1>7, <1>8, SubSeqProperties
<1>10. Len(Chunk) = end - offset
  BY <1>9, <1>4, <1>5, <1>6
<1>11. ASSUME NEW i \in 1..(end - offset) PROVE Chunk[i] = data[offset + i]
  <2>1. i \in 1..(end - (offset + 1) + 1) /\ (offset + 1) + i - 1 = offset + i
    OBVIOUS
  <2> QED
    BY <1>9, <2>1
<1> QED
  BY <1>2, <1>4, <1>5, <1>6, <1>9, <1>10, <1>11

\* What the requests upload.
LEMMA EncodedTyped ==
  ASSUME TInv, NEW bytes \in Seq(Nat), NEW k
  PROVE  /\ k # ManifestKey => Encodes(k, Encoded(bytes))
         /\ Encoded(bytes).content = Bytes(bytes)
         /\ Encodes(ManifestKey, EncodedManifest)
         /\ EncodedManifest.content = Segments(manifest)
<1>1. config \in Configs /\ lookAlike \in Formats \cup {NoMagic} /\ manifest \in Seq(SegmentMetas)
  BY DEF TInv, Buffers, UploadTypeOK
<1>2. ASSUME NEW first \in Formats \cup {NoMagic}, NEW content \in Contents,
             NEW obj, obj = pipeline_encode(Plain(first, content), config)
      PROVE  /\ obj \in Objects(Contents) /\ obj.first = first /\ obj.content = content
             /\ obj = pipeline_encode(Plain(obj.first, obj.content), config)
  <2>1. PICK p : p = Plain(first, content)
    OBVIOUS
  <2>2. /\ p \in Objects(Contents) /\ p.layers = <<>>
        /\ p.first = first /\ p.content = content
    BY <2>1 DEF Plain, Objects
  <2>3. obj = pipeline_encode(p, config)
    BY <1>2, <2>1
  <2>4. obj \in Objects(Contents) /\ obj.first = p.first /\ obj.content = p.content
    BY <1>1, <2>2, <2>3, DecodeEncoded
  <2> QED
    BY <1>2, <2>2, <2>4
<1>3. /\ First(bytes) \in Formats \cup {NoMagic} /\ NoMagic \in Formats \cup {NoMagic}
      /\ Bytes(bytes) \in Contents /\ Segments(manifest) \in Contents
  BY <1>1 DEF First, Bytes, Segments, Contents
<1>4. PICK first \in Formats \cup {NoMagic}, content \in Contents :
        first = First(bytes) /\ content = Bytes(bytes)
  BY <1>3
<1>5. PICK obj : obj = Encoded(bytes)
  OBVIOUS
<1>6. PICK segments \in Contents : segments = Segments(manifest)
  BY <1>3
<1>7. PICK list : list = EncodedManifest
  OBVIOUS
<1>8. obj = pipeline_encode(Plain(first, content), config)
  BY <1>4, <1>5 DEF Encoded
<1>12. PICK none \in Formats \cup {NoMagic} : none = NoMagic
  BY <1>3
<1>9. list = pipeline_encode(Plain(none, segments), config)
  BY <1>6, <1>7, <1>12 DEF EncodedManifest
<1>10. /\ obj \in Objects(Contents) /\ obj.content = content
       /\ obj = pipeline_encode(Plain(obj.first, obj.content), config)
  BY <1>2, <1>8
<1>11. /\ list \in Objects(Contents) /\ list.first = none /\ list.content = segments
       /\ list = pipeline_encode(Plain(list.first, list.content), config)
  BY <1>2, <1>9
<1> QED
  BY <1>4, <1>5, <1>6, <1>7, <1>10, <1>11, <1>12 DEF Encodes

LEMMA RequestTyped ==
  ASSUME TInv, step # "idle"
  PROVE  /\ Request.op \in Ops /\ Request.key \in Keys
         /\ Request.op = "put" => Encodes(Request.key, Request.value)
<1>1. /\ step \in Steps /\ wal_index \in Nat /\ data \in Seq(Nat)
      /\ step \in {"get_segment", "delete_segment"} => Head(todo) \in Nat
  BY DEF TInv, Buffers, UploadTypeOK
<1>2. CompactIndex \in Nat /\ Chunk \in Seq(Nat)
  BY CompactBounds
<1>3. /\ ManifestKey \in Keys
      /\ \A i \in Nat : WalKey(i) \in Keys /\ WalKey(i) # ManifestKey
  BY KeysDiffer DEF Keys
<1>4. CASE step = "put_segment"
  <2>1. Encodes(WalKey(wal_index), Encoded(data))
    BY <1>1, <1>3, EncodedTyped
  <2> QED
    BY <1>1, <1>3, <1>4, <2>1, RequestOf DEF Put, Ops
<1>5. CASE step \in {"put_segment_manifest", "put_new_manifest"}
  <2>1. Encodes(ManifestKey, EncodedManifest)
    BY <1>1, EncodedTyped
  <2> QED
    BY <1>3, <1>5, <2>1, RequestOf DEF Put, Ops
<1>6. CASE step = "get_segment"
  BY <1>1, <1>3, <1>6, RequestOf DEF Get, Ops
<1>7. CASE step = "put_chunk"
  <2>1. Encodes(WalKey(CompactIndex), Encoded(Chunk))
    BY <1>2, <1>3, EncodedTyped
  <2> QED
    BY <1>2, <1>3, <1>7, <2>1, RequestOf DEF Put, Ops
<1>8. CASE step = "delete_segment"
  BY <1>1, <1>3, <1>8, RequestOf DEF Delete, Ops
<1> QED
  BY <1>1, <1>4, <1>5, <1>6, <1>7, <1>8 DEF Steps

\* The part of UploadTypeOK about S3Client.
ClientOK ==
  /\ attempt \in 0..MAX_RETRIES /\ faults \in 0..MaxFaults
  /\ \A request \in delayed : request.op \in {"put", "delete"}

LEMMA SentTyped ==
  ASSUME Stores, UNCHANGED config, DOMAIN objects' \subseteq Keys,
         \A r \in delayed' : r.key \in Keys,
         \A k \in Keys : \A v \in Sent(k)' : v \in Sent(k) \/ Encodes(k, v)
  PROVE  Stores'
<1>1. \A k \in Keys : \A v \in Sent(k)' : Encodes(k, v)
  BY DEF Stores
<1>2. \A k \in Keys : \A v \in Sent(k)' : Encodes(k, v)'
  BY <1>1 DEF Encodes
<1>3. (\A k \in Keys : \A v \in Sent(k) : Encodes(k, v))'
  BY <1>2
<1> QED
  BY <1>3 DEF Stores

LEMMA RequestStores ==
  ASSUME TInv, step # "idle", NEW result, Attempt(Request, result), UNCHANGED config
  PROVE  Stores' /\ ClientOK'
<1>1. PICK request : request = Request
  OBVIOUS
<1>2. /\ request.op \in Ops /\ request.key \in Keys /\ Attempt(request, result)
      /\ request.op = "put" => Encodes(request.key, request.value)
  BY <1>1, RequestTyped
<1>3. /\ objects' = objects \/ objects' = After(request)
      /\ delayed' = delayed \/ (request.op # "get" /\ delayed' = delayed \cup {request})
  BY <1>2, AttemptMay
<1>4. ClientOK'
  <2>1. ClientOK
    BY DEF TInv, UploadTypeOK, ClientOK
  <2>2. attempt' \in 0..MAX_RETRIES
    BY <1>2, <2>1, RetriesAssumption DEF Attempt, MoreAttempts, ClientOK
  <2>3. faults' \in 0..MaxFaults
    BY <1>2, <2>1, RetriesAssumption
    DEF Attempt, AttemptSucceeds, AttemptFails, ClientOK
  <2> QED
    BY <1>2, <1>3, <2>1, <2>2, <2>3 DEF ClientOK, Ops
<1>5. DOMAIN objects' \subseteq Keys
  BY <1>2, <1>3, Effect DEF TInv, Stores
<1>6. \A r \in delayed' : r.key \in Keys
  BY <1>2, <1>3 DEF TInv, Stores
<1>7. ASSUME NEW k \in Keys, NEW v \in Sent(k)' PROVE v \in Sent(k) \/ Encodes(k, v)
  BY <1>2, <1>3, SentBy
<1> QED
  BY <1>4, <1>5, <1>6, <1>7, SentTyped DEF TInv

LEMMA SameStores ==
  ASSUME TInv, UNCHANGED <<clientVars, config>>
  PROVE  Stores' /\ ClientOK'
BY DEF TInv, UploadTypeOK, Stores, ClientOK, Sent, Encodes, clientVars

LEMMA LandStores ==
  ASSUME TInv, NEW request \in delayed, Land(request), UNCHANGED config
  PROVE  Stores' /\ ClientOK'
<1>1. request.op \in Ops /\ request.key \in Keys
  BY DEF TInv, UploadTypeOK, Ops, Stores
<1>2. /\ objects' = After(request) /\ delayed' \subseteq delayed
      /\ \A k : Sent(k)' \subseteq Sent(k)
  BY <1>1, LandMay
<1>3. DOMAIN objects' \subseteq Keys
  BY <1>1, <1>2, Effect DEF TInv, Stores
<1>4. \A r \in delayed' : r.key \in Keys
  BY <1>2 DEF TInv, Stores
<1>5. Stores'
  BY <1>2, <1>3, <1>4, SentTyped DEF TInv
<1> QED
  BY <1>2, <1>5 DEF ClientOK, TInv, UploadTypeOK, Land

LEMMA TypesKept ==
  ASSUME UploadTypeOK, ClientOK', UNCHANGED <<config, lookAlike>>,
         \/ UNCHANGED <<walLen, wal_offset>>
         \/ walLen' \in 0..MaxLen /\ wal_offset' \in 0..walLen',
         UNCHANGED wal_index \/ wal_index' \in Nat,
         UNCHANGED step \/ step' \in Steps,
         UNCHANGED overtaken \/ overtaken' \in BOOLEAN
  PROVE  UploadTypeOK'
<1>1. overtaken' \in BOOLEAN
  BY DEF UploadTypeOK
<1>2. walLen' \in 0..MaxLen /\ wal_offset' \in 0..walLen'
  BY DEF UploadTypeOK
<1>3. wal_index' \in Nat /\ step' \in Steps
  BY DEF UploadTypeOK
<1> QED
  BY <1>1, <1>2, <1>3 DEF UploadTypeOK, ClientOK

\* A call that is over leaves nothing behind in memory.
LEMMA ReturnBuffers ==
  ASSUME Return, manifest' \in Seq(SegmentMetas)
  PROVE  Buffers' /\ step' \in Steps
<1>1. <<>> \in Seq(Nat) /\ <<>> \in Seq(SegmentMetas) /\ Len(<<>>) = 0
  OBVIOUS
<1>2. CompactOffset' = 0
  BY DEF Return, CompactOffset
<1> QED
  BY <1>1, <1>2 DEF Return, Buffers, Steps

LEMMA TInit == Init => TInv
<1> SUFFICES ASSUME Init PROVE TInv
  OBVIOUS
<1>1. objects = <<>> /\ attempt = 0 /\ delayed = {} /\ faults = 0
  BY DEF Init, ClientInit
<1>2. Stores
  BY <1>1 DEF Stores, Sent
<1>3. Buffers
  <2>1. <<>> \in Seq(Nat) /\ <<>> \in Seq(SegmentMetas) /\ Len(<<>>) = 0
    OBVIOUS
  <2> QED
    BY <2>1 DEF Init, Buffers, CompactOffset
<1>4. config \in Configs
  <2>1. PICK compression \in Compressions, key \in OwnKeys :
          config = [compression |-> compression, encryption_key |-> key,
                    features |-> Formats]
    BY DEF Init
  <2> QED
    BY <2>1, UploadAssumption DEF Configs, Formats
<1>5. UploadTypeOK
  <2>1. overtaken \in BOOLEAN
    BY DEF Init
  <2>2. lookAlike \in Formats \cup {NoMagic}
    BY UploadAssumption DEF Init
  <2>3. ClientOK
    BY <1>1, RetriesAssumption DEF ClientOK
  <2>4. step \in Steps
    BY DEF Init, Steps
  <2>5. walLen \in 0..MaxLen /\ wal_offset \in 0..walLen /\ wal_index \in Nat
    BY UploadAssumption DEF Init
  <2> QED
    BY <1>4, <2>1, <2>2, <2>3, <2>4, <2>5 DEF UploadTypeOK, ClientOK
<1> QED
  BY <1>2, <1>3, <1>5 DEF TInv

\* sync_wal reads whole frames from wal_offset on.
LEMMA Reads ==
  ASSUME walLen \in Nat, wal_offset \in Nat, SyncWal
  PROVE  \E len \in Nat : /\ wal_offset < len /\ len <= walLen
                          /\ \E k \in Nat : len = FrameEnd(k, PageSize)
                          /\ data' = BytesFrom(wal_offset, len)
                          /\ data' \in Seq(Nat) /\ Len(data') = len - wal_offset
<1> DEFINE aligned_len == wal_aligned_len(walLen, PageSize)
<1>1. PageSize \in Nat
  BY UploadAssumption
<1>2. ~(aligned_len <= WAL_HEADER_SIZE) /\ ~(aligned_len <= wal_offset)
      /\ data' = BytesFrom(wal_offset, aligned_len)
  BY DEF SyncWal, NothingNew
<1>3. walLen >= WAL_HEADER_SIZE
  <2>1. SUFFICES ASSUME walLen < WAL_HEADER_SIZE PROVE FALSE
    BY SizesAssumption
  <2>2. aligned_len = walLen
    BY <2>1, SizesAssumption DEF wal_aligned_len
  <2> QED
    BY <2>1, <2>2, <1>2, SizesAssumption
<1>4. aligned_len <= walLen /\ \E k \in Nat : aligned_len = FrameEnd(k, PageSize)
  BY <1>1, <1>3, AlignedLen
<1> HIDE DEF aligned_len
<1>5. PICK k \in Nat : aligned_len = FrameEnd(k, PageSize)
  BY <1>4
<1>6. aligned_len \in Nat
  <2>1. k * (WAL_FRAME_HEADER_SIZE + PageSize) \in Nat
    BY <1>1, SizesAssumption
  <2> QED
    BY <2>1, <1>5, SizesAssumption DEF FrameEnd
<1>7. PICK len \in Nat : len = aligned_len
  BY <1>6
<1>8. wal_offset < len /\ len - wal_offset \in Nat /\ data' = BytesFrom(wal_offset, len)
  BY <1>2, <1>7
<1>9. BytesFrom(wal_offset, len) \in Seq(Nat) /\ Len(BytesFrom(wal_offset, len)) = len - wal_offset
  BY <1>8 DEF BytesFrom
<1>10. data' \in Seq(Nat) /\ Len(data') = len - wal_offset
  BY <1>8, <1>9
<1> QED
  BY <1>4, <1>5, <1>7, <1>8, <1>10

LEMMA TSyncWal == TInv /\ SyncWal => TInv'
<1> SUFFICES ASSUME TInv, SyncWal PROVE TInv'
  OBVIOUS
<1>1. /\ walLen \in 0..MaxLen /\ wal_offset \in 0..walLen /\ walLen \in Nat
      /\ wal_offset \in Nat
  BY UploadAssumption DEF TInv, UploadTypeOK
<1>2. PICK len \in Nat : /\ wal_offset < len /\ len <= walLen
                         /\ data' = BytesFrom(wal_offset, len)
                         /\ data' \in Seq(Nat) /\ Len(data') = len - wal_offset
  BY <1>1, Reads
<1>3. Stores' /\ ClientOK'
  BY SameStores DEF SyncWal
<1>4. step' = "put_segment" /\ step = "idle"
      /\ UNCHANGED <<clientVars, config, lookAlike, walLen, wal_offset, wal_index,
                     manifest, old, todo, newSegments, history>>
  BY DEF SyncWal
<1>5. UploadTypeOK'
  BY <1>3, <1>4, TypesKept DEF TInv, Steps, history
<1>6. Buffers'
  <2>1. newSegments = <<>> /\ newSegments' = <<>>
    BY <1>4 DEF TInv, Buffers
  <2>2. CompactOffset' = 0
    BY <2>1 DEF CompactOffset
  <2>3. wal_offset' + Len(data') = len /\ len <= walLen' /\ wal_offset' = wal_offset
    BY <1>1, <1>2, <1>4
  <2>4. data' = BytesFrom(wal_offset', wal_offset' + Len(data'))
    BY <1>2, <2>3
  <2>5. CompactOffset' <= Len(data')
    BY <1>1, <1>2, <2>2
  <2> QED
    BY <1>2, <1>4, <2>1, <2>3, <2>4, <2>5 DEF TInv, Buffers
<1> QED
  BY <1>3, <1>5, <1>6 DEF TInv

LEMMA TCompact == TInv /\ Compact => TInv'
<1> SUFFICES ASSUME TInv, Compact PROVE TInv'
  OBVIOUS
<1>1. Stores' /\ ClientOK'
  BY SameStores DEF Compact
<1>2. /\ step = "idle" /\ step' = "get_segment" /\ Len(manifest) > 1
      /\ old' = [i \in DOMAIN manifest |-> manifest[i].index] /\ todo' = old'
      /\ UNCHANGED <<clientVars, config, lookAlike, walLen, wal_offset, wal_index,
                     manifest, data, newSegments, history>>
  BY DEF Compact
<1>3. UploadTypeOK'
  BY <1>1, <1>2, TypesKept DEF TInv, Steps, history
<1>4. manifest \in Seq(SegmentMetas)
  BY DEF TInv, Buffers
<1>5. old' \in Seq(Nat) /\ old' # <<>>
  <2>1. ASSUME NEW i \in 1..Len(manifest) PROVE manifest[i].index \in Nat
    <3>1. manifest[i] \in SegmentMetas
      BY <1>4, ElementOfSeq
    <3> QED
      BY <3>1 DEF SegmentMetas
  <2>2. old' = [i \in 1..Len(manifest) |-> manifest[i].index] /\ Len(manifest) \in Nat
    BY <1>2, <1>4
  <2>3. old' \in Seq(Nat) /\ Len(old') = Len(manifest)
    BY <2>1, <2>2
  <2> QED
    BY <1>2, <2>3
<1>6. CompactOffset' = CompactOffset
  BY <1>2 DEF CompactOffset
<1>7. Buffers'
  BY <1>2, <1>4, <1>5, <1>6 DEF TInv, Buffers
<1> QED
  BY <1>1, <1>3, <1>7 DEF TInv

LEMMA TRetry == TInv /\ Retry => TInv'
<1> SUFFICES ASSUME TInv, Retry PROVE TInv'
  OBVIOUS
<1>1. Stores' /\ ClientOK'
  BY RequestStores DEF Retry
<1>2. UNCHANGED <<config, lookAlike, walLen, wal_offset, wal_index, manifest, step, data,
                  old, todo, newSegments, suspect, overtaken>>
  BY DEF Retry, managerVars, history
<1>3. UploadTypeOK'
  BY <1>1, <1>2, TypesKept DEF TInv
<1>4. Buffers'
  BY <1>2 DEF TInv, Buffers, CompactOffset
<1> QED
  BY <1>1, <1>3, <1>4 DEF TInv

LEMMA TCallFails == TInv /\ CallFails => TInv'
<1> SUFFICES ASSUME TInv, CallFails PROVE TInv'
  OBVIOUS
<1>1. Stores' /\ ClientOK'
  BY RequestStores DEF CallFails
<1>2. Return /\ UNCHANGED <<config, lookAlike, walLen, wal_offset, wal_index, manifest,
                            overtaken>>
  BY DEF CallFails
<1>3. Buffers' /\ step' \in Steps
  BY <1>2, ReturnBuffers DEF TInv, Buffers
<1>4. UploadTypeOK'
  BY <1>1, <1>2, <1>3, TypesKept DEF TInv
<1> QED
  BY <1>1, <1>3, <1>4 DEF TInv

LEMMA TPutSegment == TInv /\ PutSegment => TInv'
<1> SUFFICES ASSUME TInv, PutSegment PROVE TInv'
  OBVIOUS
<1>1. Stores' /\ ClientOK'
  BY RequestStores DEF PutSegment, Succeeds
<1>2. /\ step = "put_segment" /\ step' = "put_segment_manifest"
      /\ manifest' = Append(manifest, SegmentMeta(wal_index, wal_offset, Len(data)))
      /\ UNCHANGED <<config, lookAlike, walLen, wal_offset, wal_index, data, old, todo,
                     newSegments, history>>
  BY DEF PutSegment
<1>3. UploadTypeOK'
  BY <1>1, <1>2, TypesKept DEF TInv, Steps, history
<1>4. /\ manifest \in Seq(SegmentMetas) /\ data \in Seq(Nat)
      /\ wal_index \in Nat /\ wal_offset \in Nat
  BY UploadAssumption DEF TInv, Buffers, UploadTypeOK
<1>5. SegmentMeta(wal_index, wal_offset, Len(data)) \in SegmentMetas
  BY <1>4 DEF SegmentMeta, SegmentMetas
<1>6. manifest' \in Seq(SegmentMetas)
  BY <1>2, <1>4, <1>5
<1>7. Buffers'
  BY <1>2, <1>6 DEF TInv, Buffers, CompactOffset
<1> QED
  BY <1>1, <1>3, <1>7 DEF TInv

LEMMA TPutSegmentManifest == TInv /\ PutSegmentManifest => TInv'
<1> SUFFICES ASSUME TInv, PutSegmentManifest PROVE TInv'
  OBVIOUS
<1>1. Stores' /\ ClientOK'
  BY RequestStores DEF PutSegmentManifest, Succeeds
<1>2. /\ step = "put_segment_manifest" /\ wal_offset' = wal_offset + Len(data)
      /\ wal_index' = wal_index + 1 /\ Return /\ overtaken' = FALSE
      /\ UNCHANGED <<config, lookAlike, walLen, manifest, suspect>>
  BY DEF PutSegmentManifest
<1>3. Buffers' /\ step' \in Steps
  BY <1>2, ReturnBuffers DEF TInv, Buffers
<1>4. walLen' \in 0..MaxLen /\ wal_offset' \in 0..walLen' /\ wal_index' \in Nat
  <2>1. /\ walLen \in 0..MaxLen /\ wal_offset \in 0..walLen /\ data \in Seq(Nat)
        /\ wal_offset + Len(data) <= walLen /\ wal_index \in Nat
    BY <1>2 DEF TInv, UploadTypeOK, Buffers
  <2> QED
    BY <1>2, <2>1
<1>5. overtaken' \in BOOLEAN
  BY <1>2
<1>6. UploadTypeOK'
  BY <1>1, <1>2, <1>3, <1>4, <1>5, TypesKept DEF TInv
<1> QED
  BY <1>1, <1>3, <1>6 DEF TInv

\* What is stored decodes to what was encoded, unless it looks compressed.
LEMMA DecodedIs ==
  ASSUME TInv, NEW k \in Keys, NEW v \in Sent(k)
  PROVE  /\ v.content \in Contents
         /\ \/ Decoded(v) = Plain(v.first, v.content)
            \/ Decoded(v) = Failed /\ LooksEncoded(v)
         /\ k = ManifestKey => Decoded(v) = Plain(v.first, v.content)
<1>1. Encodes(k, v) /\ config \in Configs
  BY DEF TInv, Stores, UploadTypeOK
<1>2. PICK p : p = Plain(v.first, v.content)
  OBVIOUS
<1>3. v.content \in Contents /\ v.first \in Formats \cup {NoMagic}
  BY <1>1 DEF Encodes, Objects
<1>4. p \in Objects(Contents) /\ p.layers = <<>> /\ p.first = v.first
  BY <1>2, <1>3 DEF Plain, Objects
<1>5. v = pipeline_encode(p, config)
  BY <1>1, <1>2 DEF Encodes
<1>6. \/ pipeline_decode(v, config) = p
      \/ /\ pipeline_decode(v, config) = Failed
         /\ config.compression = "none" /\ p.first \in Algorithms
  BY <1>1, <1>4, <1>5, DecodeEncoded, FailedAssumption
<1>7. k = ManifestKey => v.first \notin Algorithms
  BY <1>1 DEF Encodes, NoMagic, Algorithms
<1> QED
  BY <1>2, <1>3, <1>4, <1>6, <1>7 DEF Decoded, LooksEncoded

\* A download that succeeds has found the object; if it decodes, to its content.
LEMMA Got ==
  ASSUME TInv, step = "get_segment", Succeeds
  PROVE  /\ Head(todo) \in Nat /\ WalKey(Head(todo)) \in Keys
         /\ WalKey(Head(todo)) \in DOMAIN objects
         /\ objects[WalKey(Head(todo))] \in Sent(WalKey(Head(todo)))
         /\ Decoded(objects[WalKey(Head(todo))]) # Failed =>
              /\ Decoded(objects[WalKey(Head(todo))]).content.bytes
                   = objects[WalKey(Head(todo))].content.bytes
              /\ objects[WalKey(Head(todo))].content.bytes \in Seq(Nat)
<1>1. Head(todo) \in Nat
  BY DEF TInv, Buffers
<1>2. PICK k \in Keys : k = WalKey(Head(todo))
  BY <1>1 DEF Keys
<1>3. Request = Get(k)
  BY <1>2, RequestOf
<1>4. Attempt(Get(k), "ok")
  BY <1>3 DEF Succeeds
<1>5. AttemptSucceeds(Get(k))
  BY <1>4 DEF Attempt, LastResult
<1>6. k \in DOMAIN objects
  BY <1>5 DEF AttemptSucceeds, Get
<1>7. PICK v : v = objects[k]
  OBVIOUS
<1>8. v \in Sent(k)
  BY <1>6, <1>7 DEF Sent
<1>9. v.content \in Contents /\ (Decoded(v) = Plain(v.first, v.content) \/ Decoded(v) = Failed)
  BY <1>8, DecodedIs
<1>10. Decoded(v) # Failed => Decoded(v).content = v.content
  BY <1>9 DEF Plain
<1> QED
  BY <1>1, <1>2, <1>6, <1>7, <1>8, <1>9, <1>10 DEF Contents

LEMMA TailLonger ==
  ASSUME NEW list \in Seq(Nat), Len(list) > 1
  PROVE  Tail(list) # <<>>
<1>1. list # <<>>
  OBVIOUS
<1>2. PICK rest : rest = Tail(list) /\ Len(rest) = Len(list) - 1
  BY <1>1, HeadTailProperties
<1>3. PICK n \in Nat : n = Len(list)
  OBVIOUS
<1>4. rest = <<>> => n - 1 = 0
  BY <1>2, <1>3
<1> QED
  BY <1>2, <1>3, <1>4

LEMMA TGetSegment == TInv /\ GetSegment => TInv'
<1> SUFFICES ASSUME TInv, GetSegment PROVE TInv'
  OBVIOUS
<1>1. Stores' /\ ClientOK'
  BY RequestStores DEF GetSegment, Succeeds
<1>2. /\ step = "get_segment" /\ Succeeds
      /\ UNCHANGED <<config, lookAlike, walLen, wal_offset, wal_index, manifest, history>>
  BY DEF GetSegment
<1>3. Buffers' /\ step' \in Steps
  <2>1. CASE Return
    BY <1>2, <2>1, ReturnBuffers DEF TInv, Buffers
  <2>2. CASE ~Return
    <3>1. PICK bytes \in Seq(Nat) :
            /\ data' = data \o bytes /\ todo' = Tail(todo)
            /\ step' = IF Len(todo) > 1 THEN "get_segment" ELSE "put_chunk"
            /\ UNCHANGED <<old, newSegments>>
      <4>1. PICK k : k = WalKey(Head(todo))
        OBVIOUS
      <4>2. /\ Decoded(objects[k]) # Failed
            /\ data' = data \o Decoded(objects[k]).content.bytes
            /\ todo' = Tail(todo)
            /\ step' = IF Len(todo) > 1 THEN "get_segment" ELSE "put_chunk"
            /\ UNCHANGED <<old, newSegments>>
        BY <2>2, <4>1 DEF GetSegment
      <4>3. Decoded(objects[k]).content.bytes \in Seq(Nat)
        BY <1>2, <4>1, <4>2, Got
      <4> QED
        BY <4>2, <4>3
    <3>2. /\ data \in Seq(Nat) /\ todo \in Seq(Nat) /\ todo # <<>> /\ newSegments = <<>>
          /\ old \in Seq(Nat) /\ old # <<>> /\ manifest \in Seq(SegmentMetas)
      BY <1>2 DEF TInv, Buffers
    <3>3. data' \in Seq(Nat)
      BY <3>1, <3>2, ConcatProperties
    <3>4. todo' \in Seq(Nat) /\ (Len(todo) > 1 => todo' # <<>>)
      <4>1. PICK rest \in Seq(Nat) : rest = Tail(todo) /\ Len(rest) = Len(todo) - 1
        BY <3>2, HeadTailProperties
      <4>2. Len(todo) > 1 => rest # <<>>
        BY <3>2, <4>1, TailLonger
      <4> QED
        BY <3>1, <4>1, <4>2
    <3>5. newSegments' = <<>> /\ CompactOffset' = 0
      BY <3>1, <3>2 DEF CompactOffset
    <3>6. step' \in {"get_segment", "put_chunk"} /\ (step' = "get_segment" => Len(todo) > 1)
      BY <3>1
    <3>7. CompactOffset' <= Len(data')
      BY <3>3, <3>5
    <3>8. newSegments' \in Seq(SegmentMetas)
      BY <3>5
    <3> QED
      BY <1>2, <3>1, <3>2, <3>3, <3>4, <3>5, <3>6, <3>7, <3>8 DEF Buffers, Steps
  <2> QED
    BY <2>1, <2>2
<1>4. UploadTypeOK'
  BY <1>1, <1>2, <1>3, TypesKept DEF TInv, history
<1> QED
  BY <1>1, <1>3, <1>4 DEF TInv

\* A chunk begins where the one before ends.
LEMMA NextChunk ==
  ASSUME TInv, PutChunk
  PROVE  /\ newSegments' \in Seq(SegmentMetas)
         /\ Len(newSegments') = Len(newSegments) + 1 /\ newSegments' # <<>>
         /\ \A j \in 1..Len(newSegments) : newSegments'[j] = newSegments[j]
         /\ newSegments'[Len(newSegments) + 1]
              = SegmentMeta(CompactIndex, CompactOffset, CompactEnd - CompactOffset)
         /\ CompactOffset' = CompactEnd /\ CompactIndex' = CompactIndex + 1
<1> DEFINE meta == SegmentMeta(CompactIndex, CompactOffset, Len(Chunk))
<1>1. /\ CompactIndex \in Nat /\ CompactOffset \in Nat /\ CompactEnd \in Nat
      /\ CompactOffset <= CompactEnd /\ Len(Chunk) = CompactEnd - CompactOffset
  BY CompactBounds
<1>2. newSegments' = Append(newSegments, meta) /\ wal_index' = wal_index
  BY DEF PutChunk
<1>3. newSegments \in Seq(SegmentMetas) /\ wal_index \in Nat
  BY DEF TInv, Buffers, UploadTypeOK
<1>4. meta \in SegmentMetas
  BY <1>1 DEF SegmentMeta, SegmentMetas
<1>5. /\ newSegments' \in Seq(SegmentMetas) /\ newSegments' # <<>>
      /\ Len(newSegments') = Len(newSegments) + 1
      /\ \A j \in 1..Len(newSegments) : newSegments'[j] = newSegments[j]
      /\ newSegments'[Len(newSegments) + 1] = meta
  BY <1>2, <1>3, <1>4, AppendProperties
<1>6. CompactOffset' = meta.offset + meta.size
  BY <1>5 DEF CompactOffset, Last
<1>7. CompactOffset' = CompactEnd
  BY <1>1, <1>6 DEF SegmentMeta
<1>8. CompactIndex' = CompactIndex + 1
  BY <1>2, <1>3, <1>5 DEF CompactIndex
<1> QED
  BY <1>1, <1>5, <1>7, <1>8

LEMMA TPutChunk == TInv /\ PutChunk => TInv'
<1> SUFFICES ASSUME TInv, PutChunk PROVE TInv'
  OBVIOUS
<1>1. Stores' /\ ClientOK'
  BY RequestStores DEF PutChunk, Succeeds
<1>2. /\ step = "put_chunk"
      /\ \/ UNCHANGED <<step, manifest>>
         \/ step' = "put_new_manifest" /\ manifest' = newSegments'
      /\ UNCHANGED <<config, lookAlike, walLen, wal_offset, wal_index, data, old, todo,
                     overtaken>>
  BY DEF PutChunk
<1>3. UploadTypeOK'
  BY <1>1, <1>2, TypesKept DEF TInv, Steps
<1>4. /\ newSegments' \in Seq(SegmentMetas) /\ newSegments' # <<>>
      /\ CompactOffset' = CompactEnd
  BY NextChunk
<1>5. CompactEnd <= Len(data)
  BY CompactBounds
<1>6. Buffers'
  BY <1>2, <1>4, <1>5 DEF TInv, Buffers
<1> QED
  BY <1>1, <1>3, <1>6 DEF TInv

LEMMA TPutNewManifest == TInv /\ PutNewManifest => TInv'
<1> SUFFICES ASSUME TInv, PutNewManifest PROVE TInv'
  OBVIOUS
<1>1. Stores' /\ ClientOK'
  BY RequestStores DEF PutNewManifest, Succeeds
<1>2. /\ step = "put_new_manifest" /\ wal_index' = CompactIndex
      /\ step' = "delete_segment" /\ todo' = old /\ data' = <<>> /\ newSegments' = <<>>
      /\ overtaken' = FALSE
      /\ UNCHANGED <<config, lookAlike, walLen, wal_offset, manifest, old, suspect>>
  BY DEF PutNewManifest
<1>3. wal_index' \in Nat
  BY <1>2, CompactBounds
<1>4. overtaken' \in BOOLEAN /\ step' \in Steps
  BY <1>2 DEF Steps
<1>5. UploadTypeOK'
  BY <1>1, <1>2, <1>3, <1>4, TypesKept DEF TInv
<1>6. /\ newSegments' \in Seq(SegmentMetas) /\ data' \in Seq(Nat)
      /\ CompactOffset' = 0 /\ Len(data') = 0
  BY <1>2 DEF CompactOffset
<1>7. Buffers'
  BY <1>2, <1>6 DEF TInv, Buffers
<1> QED
  BY <1>1, <1>5, <1>7 DEF TInv

LEMMA TDeleteSegment == TInv /\ DeleteSegment => TInv'
<1> SUFFICES ASSUME TInv, DeleteSegment PROVE TInv'
  OBVIOUS
<1>1. Stores' /\ ClientOK'
  BY RequestStores DEF DeleteSegment, Succeeds
<1>2. /\ step = "delete_segment"
      /\ UNCHANGED <<config, lookAlike, walLen, wal_offset, wal_index, manifest, history>>
  BY DEF DeleteSegment
<1>3. Buffers' /\ step' \in Steps
  <2>1. CASE Return
    BY <1>2, <2>1, ReturnBuffers DEF TInv, Buffers
  <2>2. CASE ~Return
    <3>1. /\ Len(todo) > 1 /\ todo' = Tail(todo)
          /\ UNCHANGED <<step, data, old, newSegments>>
      BY <2>2 DEF DeleteSegment
    <3>2. PICK rest \in Seq(Nat) : rest = Tail(todo) /\ Len(rest) = Len(todo) - 1
      BY <1>2, HeadTailProperties DEF TInv, Buffers
    <3>3. rest # <<>>
      BY <1>2, <3>1, <3>2, TailLonger DEF TInv, Buffers
    <3>4. CompactOffset' = CompactOffset
      BY <3>1 DEF CompactOffset
    <3> QED
      BY <1>2, <3>1, <3>2, <3>3, <3>4 DEF TInv, Buffers, Steps
  <2> QED
    BY <2>1, <2>2
<1>4. UploadTypeOK'
  BY <1>1, <1>2, <1>3, TypesKept DEF TInv, history
<1> QED
  BY <1>1, <1>3, <1>4 DEF TInv

LEMMA TWriteWal == TInv /\ WriteWal => TInv'
<1> SUFFICES ASSUME TInv, WriteWal PROVE TInv'
  OBVIOUS
<1>1. UNCHANGED <<clientVars, config, lookAlike, wal_offset, wal_index, manifest, step, data,
                  old, todo, newSegments, suspect, overtaken>>
  BY DEF WriteWal, managerVars, history
<1>2. Stores' /\ ClientOK'
  BY <1>1, SameStores
<1>3. walLen \in Nat /\ wal_offset \in 0..walLen
  BY UploadAssumption DEF TInv, UploadTypeOK
<1>4. walLen' \in Nat /\ walLen <= walLen' /\ walLen' <= MaxLen
  BY <1>3, SizesAssumption, UploadAssumption DEF WriteWal
<1>5. UploadTypeOK'
  BY <1>1, <1>2, <1>3, <1>4, UploadAssumption, TypesKept DEF TInv
<1>6. Buffers'
  <2>1. /\ manifest \in Seq(SegmentMetas) /\ data \in Seq(Nat)
        /\ step \in {"put_segment", "put_segment_manifest"} => wal_offset + Len(data) <= walLen
    BY DEF TInv, Buffers
  <2>2. wal_offset + Len(data) <= walLen => wal_offset + Len(data) <= walLen'
    BY <1>3, <1>4, <2>1
  <2> QED
    BY <1>1, <2>1, <2>2 DEF TInv, Buffers, CompactOffset
<1> QED
  BY <1>2, <1>5, <1>6 DEF TInv

LEMMA TLandLate == TInv /\ LandLate => TInv'
<1> SUFFICES ASSUME TInv, LandLate PROVE TInv'
  OBVIOUS
<1>1. UNCHANGED <<config, lookAlike, walLen, wal_offset, wal_index, manifest, step, data,
                  old, todo, newSegments, suspect>>
  BY DEF LandLate, managerVars
<1>2. PICK request \in delayed :
        /\ Land(request)
        /\ overtaken' = (overtaken \/ (objects' # objects
                                      /\ (step = "idle" \/ request # Request)))
  BY DEF LandLate
<1>3. Stores' /\ ClientOK'
  BY <1>1, <1>2, LandStores
<1>4. overtaken' \in BOOLEAN
  BY <1>2
<1>5. UploadTypeOK'
  BY <1>1, <1>3, <1>4, TypesKept DEF TInv
<1>6. Buffers'
  BY <1>1 DEF TInv, Buffers, CompactOffset
<1> QED
  BY <1>3, <1>5, <1>6 DEF TInv

LEMMA TNext == TInv /\ [Next]_vars => TInv'
<1>1. TInv /\ UNCHANGED vars => TInv'
  <2> SUFFICES ASSUME TInv, UNCHANGED vars PROVE TInv'
    OBVIOUS
  <2>1. UNCHANGED <<clientVars, config, lookAlike, walLen, wal_offset, wal_index, manifest,
                    step, data, old, todo, newSegments, suspect, overtaken>>
    BY DEF vars, managerVars, history
  <2>2. Stores' /\ ClientOK'
    BY <2>1, SameStores
  <2>3. UploadTypeOK'
    BY <2>1, <2>2, TypesKept DEF TInv
  <2>4. Buffers'
    BY <2>1 DEF TInv, Buffers, CompactOffset
  <2> QED
    BY <2>2, <2>3, <2>4 DEF TInv
<1> QED
  BY <1>1, TSyncWal, TCompact, TRetry, TCallFails, TPutSegment, TPutSegmentManifest,
     TGetSegment, TPutChunk, TPutNewManifest, TDeleteSegment, TWriteWal, TLandLate
  DEF Next, CallStep

\* The types hold for every bound, number of attempts and failure: no request is
\* tried more than MAX_RETRIES + 1 times (s3.rs:55-75), only uploads and deletions
\* arrive late, and wal_offset never passes the end of the WAL.
THEOREM UploadTypeCorrect == Spec => []UploadTypeOK
<1>1. TInv => UploadTypeOK
  BY DEF TInv
<1> QED
  BY <1>1, TInit, TNext, PTL DEF Spec

\* pipeline_decode gives a program with any features, algorithm and key what
\* pipeline_encode was given, or an error, never the bytes of a layer
\* (manager.rs:148-178), except one without a key what is encrypted; also for
\* objects of an upload that was repeated or came late.
THEOREM NothingIsMisread == Spec => []NeverMisread
<1>1. TInv => NeverMisread
  <2> SUFFICES ASSUME TInv, NEW k \in DOMAIN objects, NEW reader \in Configs
               PROVE  LET decoded == pipeline_decode(objects[k], reader)
                      IN \/ decoded = Failed
                         \/ decoded.layers = <<>>
                         \/ config.encryption_key # NoKey /\ reader.encryption_key = NoKey
    BY DEF NeverMisread
  <2>1. PICK v : v = objects[k]
    OBVIOUS
  <2>2. k \in Keys /\ v \in Sent(k) /\ config \in Configs
    BY <2>1 DEF TInv, Stores, Sent, UploadTypeOK
  <2>3. Encodes(k, v)
    BY <2>2 DEF TInv, Stores
  <2>4. PICK p : p = Plain(v.first, v.content)
    OBVIOUS
  <2>5. v.content \in Contents /\ v.first \in Formats \cup {NoMagic}
    BY <2>3 DEF Encodes, Objects
  <2>6. p \in Objects(Contents) /\ p.layers = <<>>
    BY <2>4, <2>5 DEF Plain, Objects
  <2>7. v = pipeline_encode(p, config)
    BY <2>3, <2>4 DEF Encodes
  <2>8. \/ pipeline_decode(v, reader) \in {Failed, p}
        \/ config.encryption_key # NoKey /\ reader.encryption_key = NoKey
    BY <2>2, <2>6, <2>7, DecodeEncoded
  <2> QED
    BY <2>1, <2>6, <2>8
<1> QED
  BY <1>1, TInit, TNext, PTL DEF Spec

-----------------------------------------------------------------------------
(* Listed segments are exact. *)

End(list) == IF list = <<>> THEN 0 ELSE Last(list).offset + Last(list).size

\* The segments of a list follow one another from the start of the WAL.
Contiguous(list) ==
  /\ list # <<>> => list[1].offset = 0
  /\ \A j \in 1..(Len(list) - 1) : list[j + 1].offset = list[j].offset + list[j].size

LEMMA ContiguousAppend ==
  ASSUME NEW list \in Seq(SegmentMetas), NEW e \in SegmentMetas, Contiguous(list),
         e.offset = End(list)
  PROVE  /\ Contiguous(Append(list, e))
         /\ End(Append(list, e)) = e.offset + e.size
<1>1. PICK more \in Seq(SegmentMetas) : more = Append(list, e)
  BY AppendProperties
<1>2. /\ Len(list) \in Nat /\ Len(more) = Len(list) + 1 /\ more # <<>>
      /\ \A j \in 1..Len(list) : more[j] = list[j]
      /\ more[Len(list) + 1] = e
  BY <1>1, AppendProperties
<1>3. End(more) = e.offset + e.size
  BY <1>2 DEF End, Last
<1>4. more[1].offset = 0
  <2>1. CASE list = <<>>
    BY <1>2, <2>1 DEF End
  <2>2. CASE list # <<>>
    <3>1. Len(list) >= 1
      BY <2>2
    <3> QED
      BY <1>2, <2>2, <3>1 DEF Contiguous
  <2> QED
    BY <2>1, <2>2
<1>5. ASSUME NEW j \in 1..(Len(more) - 1)
      PROVE  more[j + 1].offset = more[j].offset + more[j].size
  <2>1. j \in 1..Len(list) /\ more[j] = list[j]
    BY <1>2
  <2>2. CASE j < Len(list)
    <3>1. j \in 1..(Len(list) - 1) /\ j + 1 \in 1..Len(list)
      BY <1>2, <2>1, <2>2
    <3>2. more[j + 1] = list[j + 1]
      BY <1>2, <3>1
    <3> QED
      BY <2>1, <3>1, <3>2 DEF Contiguous
  <2>3. CASE j = Len(list)
    <3>1. more[j + 1] = e /\ more[j] = list[Len(list)] /\ list # <<>>
      BY <1>2, <2>1, <2>3
    <3> QED
      BY <3>1 DEF End, Last
  <2> QED
    BY <1>2, <2>1, <2>2, <2>3
<1> QED
  BY <1>1, <1>3, <1>4, <1>5 DEF Contiguous

LEMMA BytesJoin ==
  ASSUME NEW a \in Nat, NEW b \in Nat, NEW c \in Nat, a <= b, b <= c
  PROVE  /\ BytesFrom(a, b) \in Seq(Nat) /\ Len(BytesFrom(a, b)) = b - a
         /\ BytesFrom(a, b) \o BytesFrom(b, c) = BytesFrom(a, c)
<1>1. /\ BytesFrom(a, b) \in Seq(Nat) /\ Len(BytesFrom(a, b)) = b - a
      /\ \A i \in 1..(b - a) : BytesFrom(a, b)[i] = a + i
  BY DEF BytesFrom
<1>2. /\ BytesFrom(b, c) \in Seq(Nat) /\ Len(BytesFrom(b, c)) = c - b
      /\ \A i \in 1..(c - b) : BytesFrom(b, c)[i] = b + i
  BY DEF BytesFrom
<1>3. /\ BytesFrom(a, c) \in Seq(Nat) /\ Len(BytesFrom(a, c)) = c - a
      /\ \A i \in 1..(c - a) : BytesFrom(a, c)[i] = a + i
  BY DEF BytesFrom
<1>4. PICK s \in Seq(Nat), t \in Seq(Nat), u \in Seq(Nat) :
        s = BytesFrom(a, b) /\ t = BytesFrom(b, c) /\ u = BytesFrom(a, c)
  BY <1>1, <1>2, <1>3
<1>5. /\ s \o t \in Seq(Nat) /\ Len(s \o t) = c - a
      /\ \A i \in 1..(c - a) : (s \o t)[i] = IF i <= b - a THEN s[i] ELSE t[i - (b - a)]
  <2>1. Len(s) = b - a /\ Len(t) = c - b
    BY <1>1, <1>2, <1>4
  <2>2. /\ s \o t \in Seq(Nat) /\ Len(s \o t) = Len(s) + Len(t)
        /\ \A i \in 1..(Len(s) + Len(t)) :
             (s \o t)[i] = IF i <= Len(s) THEN s[i] ELSE t[i - Len(s)]
    BY ConcatProperties
  <2>3. Len(s) + Len(t) = c - a
    BY <2>1
  <2> QED
    BY <2>1, <2>2, <2>3
<1>6. ASSUME NEW i \in 1..(c - a) PROVE (s \o t)[i] = u[i]
  <2>1. CASE i <= b - a
    BY <1>1, <1>3, <1>4, <1>5, <2>1
  <2>2. CASE ~(i <= b - a)
    <3>1. PICK k \in 1..(c - b) : k = i - (b - a) /\ b + k = a + i
      BY <2>2
    <3>2. (s \o t)[i] = t[k]
      BY <1>5, <2>2, <3>1
    <3>3. t[k] = b + k
      BY <1>2, <1>4
    <3>4. u[i] = a + i
      BY <1>3, <1>4
    <3> QED
      BY <3>1, <3>2, <3>3, <3>4
  <2> QED
    BY <2>1, <2>2
<1>7. s \o t = u
  BY <1>3, <1>4, <1>5, <1>6, SeqEqual
<1> QED
  BY <1>1, <1>4, <1>7

-----------------------------------------------------------------------------
\* No failed call has written this segment or will write it again.
Clean(i) == WalKey(i) \notin suspect

AllClean(list) == \A j \in 1..Len(list) : Clean(list[j].index)
OldClean == \A j \in 1..Len(old) : Clean(old[j])

\* The lists of segments that exist somewhere, and the indexes given away.
Lists == {v.content.segments : v \in Sent(ManifestKey)} \cup {manifest, newSegments}
Reserved == IF step = "put_segment_manifest" THEN wal_index + 1 ELSE CompactIndex

\* An entry of a list, and what is stored under its index or may still arrive there.
Described(e) ==
  Clean(e.index) =>
    /\ e.index < Reserved
    /\ \A v \in Sent(WalKey(e.index)) :
         v.content.bytes = BytesFrom(e.offset, e.offset + e.size)

AllDescribed == \A list \in Lists : \A j \in 1..Len(list) : Described(list[j])

\* Beyond them nothing is stored or on its way.
Free ==
  \A i \in Nat : Clean(i) /\ Sent(WalKey(i)) # {} =>
    i < Reserved \/ (step \in {"put_segment", "put_chunk"} /\ i = Reserved)

\* What has been sent of the upload in progress.
InTransit ==
  \A i \in Nat : Clean(i) /\ i = Reserved =>
    /\ step = "put_segment" => \A v \in Sent(WalKey(i)) : v.content.bytes = data
    /\ step = "put_chunk" => \A v \in Sent(WalKey(i)) : v.content.bytes = Chunk

\* The manifest in memory lists the WAL up to wal_offset.
ManifestOK ==
  /\ step = "idle" => data = <<>>
  /\ AllClean(manifest) =>
       /\ Contiguous(manifest)
       /\ End(manifest) =
            IF step = "put_segment_manifest" THEN wal_offset + Len(data) ELSE wal_offset
  /\ step = "put_segment_manifest" =>
       manifest # <<>> /\ Last(manifest).index = wal_index

NextOffset == manifest[Len(old) - Len(todo) + 1].offset

\* What compact has downloaded.
Downloaded ==
  step = "get_segment" =>
    /\ Len(old) = Len(manifest) /\ Len(todo) \in 1..Len(old)
    /\ \A j \in 1..Len(old) : old[j] = manifest[j].index
    /\ \A j \in 1..Len(todo) : todo[j] = old[Len(old) - Len(todo) + j]
    /\ OldClean => data = BytesFrom(0, NextOffset)

\* What it has uploaded.
Chunks ==
  step \in {"put_chunk", "put_new_manifest"} =>
    /\ OldClean => data = BytesFrom(0, wal_offset)
    /\ ~OldClean => \A j \in 1..Len(newSegments) : ~Clean(newSegments[j].index)
    /\ Contiguous(newSegments)
    /\ \A j \in 1..Len(newSegments) : newSegments[j].index = wal_index + j - 1
    /\ step = "put_new_manifest" =>
         newSegments # <<>> /\ manifest = newSegments /\ CompactOffset = Len(data)

XInv == AllDescribed /\ Free /\ InTransit /\ ManifestOK /\ Downloaded /\ Chunks

LEMMA SentWal ==
  ASSUME TInv, step # "idle", NEW result, Attempt(Request, result),
         NEW i \in Nat, NEW v \in Sent(WalKey(i))'
  PROVE  \/ v \in Sent(WalKey(i))
         \/ step = "put_segment" /\ i = wal_index /\ v.content.bytes = data
         \/ step = "put_chunk" /\ i = CompactIndex /\ v.content.bytes = Chunk
<1>1. PICK request : request = Request
  OBVIOUS
<1>2. request.op \in Ops /\ Attempt(request, result)
  BY <1>1, RequestTyped
<1>3. /\ objects' = objects \/ objects' = After(request)
      /\ delayed' = delayed \/ (request.op # "get" /\ delayed' = delayed \cup {request})
  BY <1>2, AttemptMay
<1>4. PICK k \in Keys : k = WalKey(i)
  BY DEF Keys
<1>5. v \in Sent(k)'
  BY <1>4
<1>6. v \in Sent(k) \/ (request.op = "put" /\ request.key = k /\ v = request.value)
  BY <1>2, <1>3, <1>5, SentBy
<1>7. /\ step \in Steps /\ wal_index \in Nat /\ CompactIndex \in Nat
      /\ data \in Seq(Nat) /\ Chunk \in Seq(Nat)
  BY CompactBounds DEF TInv, UploadTypeOK, Buffers
<1>8. CASE request.op = "put" /\ request.key = k /\ v = request.value
  <2>1. step \in {"put_segment", "put_segment_manifest", "put_chunk", "put_new_manifest"}
    BY <1>1, <1>7, <1>8, RequestOf DEF Steps, Get, Delete
  <2>2. CASE step = "put_segment"
    <3>1. WalKey(i) = WalKey(wal_index) /\ v = Encoded(data)
      BY <1>1, <1>4, <1>8, <2>2, RequestOf DEF Put
    <3>2. v.content = Bytes(data)
      BY <1>7, <3>1, EncodedTyped
    <3> QED
      BY <1>7, <2>2, <3>1, <3>2, KeysDiffer DEF Bytes
  <2>3. CASE step = "put_chunk"
    <3>1. WalKey(i) = WalKey(CompactIndex) /\ v = Encoded(Chunk)
      BY <1>1, <1>4, <1>8, <2>3, RequestOf DEF Put
    <3>2. v.content = Bytes(Chunk)
      BY <1>7, <3>1, EncodedTyped
    <3> QED
      BY <1>7, <2>3, <3>1, <3>2, KeysDiffer DEF Bytes
  <2>4. CASE step \in {"put_segment_manifest", "put_new_manifest"}
    <3>1. WalKey(i) = ManifestKey
      BY <1>1, <1>4, <1>8, <2>4, RequestOf DEF Put
    <3> QED
      BY <3>1, KeysDiffer
  <2> QED
    BY <2>1, <2>2, <2>3, <2>4
<1> QED
  BY <1>4, <1>6, <1>8

LEMMA SentList ==
  ASSUME TInv, step # "idle", NEW result, Attempt(Request, result),
         NEW v \in Sent(ManifestKey)'
  PROVE  \/ v \in Sent(ManifestKey)
         \/ /\ step \in {"put_segment_manifest", "put_new_manifest"}
            /\ v.content.segments = manifest
<1>1. PICK request : request = Request
  OBVIOUS
<1>2. request.op \in Ops /\ Attempt(request, result)
  BY <1>1, RequestTyped
<1>3. /\ objects' = objects \/ objects' = After(request)
      /\ delayed' = delayed \/ (request.op # "get" /\ delayed' = delayed \cup {request})
  BY <1>2, AttemptMay
<1>4. PICK k \in Keys : k = ManifestKey
  BY DEF Keys
<1>5. v \in Sent(k) \/ (request.op = "put" /\ request.key = k /\ v = request.value)
  BY <1>2, <1>3, <1>4, SentBy
<1>6. step \in Steps /\ wal_index \in Nat /\ CompactIndex \in Nat
  BY CompactBounds DEF TInv, UploadTypeOK
<1>7. CASE request.op = "put" /\ request.key = k /\ v = request.value
  <2>1. step \in {"put_segment", "put_segment_manifest", "put_chunk", "put_new_manifest"}
    BY <1>1, <1>6, <1>7, RequestOf DEF Steps, Get, Delete
  <2>2. step \notin {"put_segment", "put_chunk"}
    BY <1>1, <1>4, <1>6, <1>7, RequestOf, KeysDiffer DEF Put
  <2>3. step \in {"put_segment_manifest", "put_new_manifest"} /\ v = EncodedManifest
    BY <1>1, <1>7, <2>1, <2>2, RequestOf DEF Put
  <2>4. v.content = Segments(manifest)
    <3>1. <<>> \in Seq(Nat)
      OBVIOUS
    <3> QED
      BY <2>3, <3>1, EncodedTyped
  <2> QED
    BY <2>3, <2>4 DEF Segments
<1> QED
  BY <1>4, <1>5, <1>7

LEMMA ListsTyped ==
  ASSUME TInv
  PROVE  /\ \A list \in Lists : list \in Seq(SegmentMetas)
         /\ \A list \in Lists : \A j \in 1..Len(list) :
              list[j].index \in Nat /\ list[j].offset \in Nat /\ list[j].size \in Nat
         /\ Reserved \in Nat /\ wal_index <= Reserved
<1>1. ASSUME NEW list \in Lists PROVE list \in Seq(SegmentMetas)
  <2>1. CASE list \in {manifest, newSegments}
    BY <2>1 DEF TInv, Buffers
  <2>2. CASE list \notin {manifest, newSegments}
    <3>1. PICK v \in Sent(ManifestKey) : list = v.content.segments
      BY <2>2 DEF Lists
    <3>2. v.content \in Contents
      BY <3>1, DecodedIs DEF Keys
    <3> QED
      BY <3>1, <3>2 DEF Contents
  <2> QED
    BY <2>1, <2>2
<1>2. ASSUME NEW list \in Lists, NEW j \in 1..Len(list)
      PROVE  list[j].index \in Nat /\ list[j].offset \in Nat /\ list[j].size \in Nat
  <2>1. list[j] \in SegmentMetas
    BY <1>1, ElementOfSeq
  <2> QED
    BY <2>1 DEF SegmentMetas
<1>3. wal_index \in Nat /\ newSegments \in Seq(SegmentMetas)
  BY DEF TInv, UploadTypeOK, Buffers
<1>4. Reserved \in Nat /\ wal_index <= Reserved
  BY <1>3 DEF Reserved, CompactIndex
<1> QED
  BY <1>1, <1>2, <1>4

\* A list that was there before stays as it was described, unless something has
\* been sent to an index it has.
LEMMA StaysDescribed ==
  ASSUME AllDescribed, TInv, NEW list \in Lists,
         suspect \subseteq suspect',
         \A i \in Nat : Clean(i)' /\ i < Reserved =>
           i < Reserved' /\ Sent(WalKey(i))' \subseteq Sent(WalKey(i))
  PROVE  \A j \in 1..Len(list) : Described(list[j])'
<1> SUFFICES ASSUME NEW j \in 1..Len(list), Clean(list[j].index)'
             PROVE  /\ list[j].index < Reserved'
                    /\ \A v \in Sent(WalKey(list[j].index))' :
                         v.content.bytes
                           = BytesFrom(list[j].offset, list[j].offset + list[j].size)
  BY DEF Described
<1>1. Described(list[j]) /\ list[j].index \in Nat
  BY ListsTyped DEF AllDescribed
<1>2. Clean(list[j].index)
  BY DEF Clean
<1> QED
  BY <1>1, <1>2 DEF Described

Sending == step \in {"put_segment", "put_chunk"}

\* A step leaves what has been given away as it is, and sends only what it should.
SendsOnly ==
  /\ \A i \in Nat : Clean(i) /\ i < Reserved => Sent(WalKey(i))' \subseteq Sent(WalKey(i))
  /\ \A i \in Nat : Clean(i) /\ Sent(WalKey(i))' # {} =>
       i < Reserved \/ (Sending /\ i = Reserved)
  /\ \A i \in Nat : Clean(i) /\ i = Reserved =>
       /\ step = "put_segment" => \A v \in Sent(WalKey(i))' : v.content.bytes = data
       /\ step = "put_chunk" => \A v \in Sent(WalKey(i))' : v.content.bytes = Chunk
  /\ \A v \in Sent(ManifestKey)' : v.content.segments \in Lists

LEMMA ReservedIs ==
  ASSUME TInv
  PROVE  /\ step = "put_segment" => Reserved = wal_index
         /\ step = "put_chunk" => Reserved = CompactIndex
         /\ step \notin {"put_segment_manifest", "put_chunk", "put_new_manifest"} =>
              Reserved = wal_index
         /\ step = "put_new_manifest" => Reserved = CompactIndex
<1>1. newSegments # <<>> => step \in {"put_chunk", "put_new_manifest"}
  BY DEF TInv, Buffers
<1>2. newSegments = <<>> => CompactIndex = wal_index
  BY DEF CompactIndex, TInv, UploadTypeOK
<1> QED
  BY <1>1, <1>2 DEF Reserved

LEMMA RequestSends ==
  ASSUME TInv, XInv, step # "idle", NEW result, Attempt(Request, result)
  PROVE  SendsOnly
<1>1. Free /\ InTransit
  BY DEF XInv
<1>2. ASSUME NEW i \in Nat, NEW v \in Sent(WalKey(i))'
      PROVE  \/ v \in Sent(WalKey(i))
             \/ step = "put_segment" /\ i = Reserved /\ v.content.bytes = data
             \/ step = "put_chunk" /\ i = Reserved /\ v.content.bytes = Chunk
  BY SentWal, ReservedIs
<1>3. Reserved \in Nat
  BY ListsTyped
<1>4. ASSUME NEW i \in Nat, Clean(i), i < Reserved
      PROVE  Sent(WalKey(i))' \subseteq Sent(WalKey(i))
  BY <1>2, <1>3, <1>4
<1>5. ASSUME NEW i \in Nat, Clean(i), Sent(WalKey(i))' # {}
      PROVE  i < Reserved \/ (Sending /\ i = Reserved)
  <2>1. PICK v \in Sent(WalKey(i))' : TRUE
    BY <1>5
  <2>2. CASE v \in Sent(WalKey(i))
    BY <1>1, <1>5, <2>2 DEF Free, Sending
  <2>3. CASE v \notin Sent(WalKey(i))
    BY <1>2, <2>3 DEF Sending
  <2> QED
    BY <2>2, <2>3
<1>6. ASSUME NEW i \in Nat, Clean(i), i = Reserved, step = "put_segment",
             NEW v \in Sent(WalKey(i))'
      PROVE  v.content.bytes = data
  BY <1>1, <1>2, <1>3, <1>6 DEF InTransit
<1>7. ASSUME NEW i \in Nat, Clean(i), i = Reserved, step = "put_chunk",
             NEW v \in Sent(WalKey(i))'
      PROVE  v.content.bytes = Chunk
  BY <1>1, <1>2, <1>3, <1>7 DEF InTransit
<1>8. ASSUME NEW v \in Sent(ManifestKey)' PROVE v.content.segments \in Lists
  BY SentList DEF Lists
<1> QED
  BY <1>4, <1>5, <1>6, <1>7, <1>8 DEF SendsOnly

\* So does a step that sends nothing.
LEMMA NothingSent ==
  ASSUME TInv, XInv, \A k : Sent(k)' \subseteq Sent(k)
  PROVE  SendsOnly
<1>1. Free /\ InTransit
  BY DEF XInv
<1>2. ASSUME NEW v \in Sent(ManifestKey)' PROVE v.content.segments \in Lists
  BY DEF Lists
<1>3. \A i : Sent(WalKey(i))' # {} => Sent(WalKey(i)) # {}
  OBVIOUS
<1>4. Reserved \in Nat
  BY ListsTyped
<1>5. \A i \in Nat : Clean(i) /\ Sent(WalKey(i))' # {} =>
         i < Reserved \/ (Sending /\ i = Reserved)
  BY <1>1, <1>3 DEF Free, Sending
<1>6. ASSUME NEW i \in Nat, Clean(i), i = Reserved
      PROVE  /\ step = "put_segment" => \A v \in Sent(WalKey(i))' : v.content.bytes = data
             /\ step = "put_chunk" => \A v \in Sent(WalKey(i))' : v.content.bytes = Chunk
  BY <1>1, <1>6 DEF InTransit
<1> QED
  BY <1>2, <1>5, <1>6 DEF SendsOnly

LEMMA SameSent ==
  ASSUME UNCHANGED clientVars
  PROVE  \A k : Sent(k)' = Sent(k)
BY DEF clientVars, Sent

\* What the invariant says of stored segments, after a step that sends what it should.
LEMMA UploadsKept ==
  ASSUME TInv, XInv, SendsOnly, suspect \subseteq suspect',
         \A i \in Nat : Clean(i)' /\ i < Reserved => i < Reserved',
         \A i \in Nat : Clean(i)' /\ Sending /\ i = Reserved =>
           i < Reserved' \/ (Sending' /\ i = Reserved'),
         \A list \in {manifest', newSegments'} :
           list \in Lists \/ list = <<>> \/ \A j \in 1..Len(list) : Described(list[j])'
  PROVE  AllDescribed' /\ Free'
<1>1. AllDescribed
  BY DEF XInv
<1>2. \A i \in Nat : Clean(i)' => Clean(i)
  BY DEF Clean
<1>3. \A i \in Nat : Clean(i)' /\ i < Reserved =>
        i < Reserved' /\ Sent(WalKey(i))' \subseteq Sent(WalKey(i))
  BY <1>2 DEF SendsOnly
<1>4. ASSUME NEW list \in Lists, NEW j \in 1..Len(list)
      PROVE  Described(list[j])'
  BY <1>1, <1>3, StaysDescribed
<1>5. ASSUME NEW list \in Lists'
      PROVE  \/ list \in Lists \/ list = <<>> \/ \A j \in 1..Len(list) : Described(list[j])'
  <2>1. CASE list \in {manifest', newSegments'}
    BY <2>1
  <2>2. CASE \E v \in Sent(ManifestKey)' : list = v.content.segments
    BY <2>2 DEF SendsOnly
  <2> QED
    BY <2>1, <2>2 DEF Lists
<1>6. ASSUME NEW list \in Lists', NEW j \in 1..Len(list) PROVE Described(list[j])'
  <2>1. list # <<>>
    BY <1>6
  <2> QED
    BY <1>4, <1>5, <2>1
<1>7. AllDescribed'
  BY <1>6 DEF AllDescribed
<1>8. ASSUME NEW i \in Nat, Clean(i)', Sent(WalKey(i))' # {}
      PROVE  i < Reserved' \/ (Sending' /\ i = Reserved')
  <2>1. i < Reserved \/ (Sending /\ i = Reserved)
    BY <1>2, <1>8 DEF SendsOnly
  <2> QED
    BY <1>8, <2>1
<1>9. Free'
  BY <1>8 DEF Free, Sending
<1> QED
  BY <1>7, <1>9

\* The upload in progress goes on, ...
LEMMA SameTransit ==
  ASSUME SendsOnly, suspect \subseteq suspect',
         UNCHANGED <<step, data, wal_index, newSegments>>
  PROVE  InTransit'
<1>1. Reserved' = Reserved /\ Chunk' = Chunk
  BY DEF Reserved, CompactIndex, Chunk, CompactOffset, CompactEnd
<1>2. ASSUME NEW i \in Nat, Clean(i)', i = Reserved
      PROVE  /\ step = "put_segment" => \A v \in Sent(WalKey(i))' : v.content.bytes = data
             /\ step = "put_chunk" => \A v \in Sent(WalKey(i))' : v.content.bytes = Chunk
  <2>1. Clean(i)
    BY <1>2 DEF Clean
  <2> QED
    BY <1>2, <2>1 DEF SendsOnly
<1> QED
  BY <1>1, <1>2 DEF InTransit

\* ... or one begins under an index where nothing is, or none.
LEMMA NewTransit ==
  ASSUME TInv, SendsOnly, suspect \subseteq suspect',
         Sending' => Reserved < Reserved' \/ (~Sending /\ Reserved' = Reserved)
  PROVE  InTransit'
<1>1. Reserved \in Nat
  BY ListsTyped
<1>2. ASSUME NEW i \in Nat, Clean(i)', i = Reserved', Sending'
      PROVE  Sent(WalKey(i))' = {}
  <2>1. Clean(i)
    BY <1>2 DEF Clean
  <2>2. ~(i < Reserved) /\ ~(Sending /\ i = Reserved)
    BY <1>1, <1>2
  <2> QED
    BY <2>1, <2>2 DEF SendsOnly
<1> QED
  BY <1>2 DEF InTransit, Sending

LEMMA SameManifest ==
  ASSUME ManifestOK, suspect \subseteq suspect', UNCHANGED <<manifest, wal_offset>>,
         \/ UNCHANGED <<step, data, wal_index>>
         \/ step # "put_segment_manifest" /\ step' # "put_segment_manifest",
         step' = "idle" => data' = <<>>
  PROVE  ManifestOK'
<1>1. AllClean(manifest)' => AllClean(manifest)
  BY DEF AllClean, Clean
<1>2. Contiguous(manifest)' = Contiguous(manifest) /\ End(manifest)' = End(manifest)
  BY DEF Contiguous, End
<1>3. CASE UNCHANGED <<step, data, wal_index>>
  BY <1>1, <1>2, <1>3 DEF ManifestOK
<1>4. CASE step # "put_segment_manifest" /\ step' # "put_segment_manifest"
  BY <1>1, <1>2, <1>4 DEF ManifestOK
<1> QED
  BY <1>3, <1>4

LEMMA SameReserved ==
  ASSUME TInv, UNCHANGED <<wal_index, newSegments>>,
         step # "put_segment_manifest", step' # "put_segment_manifest"
  PROVE  Reserved' = Reserved
BY DEF Reserved, CompactIndex

LEMMA XSyncWal == TInv /\ XInv /\ SyncWal => XInv'
<1> SUFFICES ASSUME TInv, XInv, SyncWal PROVE XInv'
  OBVIOUS
<1>1. /\ step = "idle" /\ step' = "put_segment"
      /\ UNCHANGED <<clientVars, wal_offset, wal_index, manifest, newSegments, suspect>>
  BY DEF SyncWal, history
<1>2. SendsOnly
  BY <1>1, SameSent, NothingSent
<1>3. Reserved' = Reserved /\ ~Sending
  BY <1>1, SameReserved DEF Sending
<1>4. manifest' \in Lists /\ newSegments' \in Lists
  BY <1>1 DEF Lists
<1>5. AllDescribed' /\ Free'
  BY <1>1, <1>2, <1>3, <1>4, UploadsKept
<1>6. InTransit'
  BY <1>1, <1>2, <1>3, NewTransit
<1>7. ManifestOK'
  BY <1>1, SameManifest DEF XInv
<1>8. Downloaded' /\ Chunks'
  BY <1>1 DEF Downloaded, Chunks
<1> QED
  BY <1>5, <1>6, <1>7, <1>8 DEF XInv

LEMMA XCompact == TInv /\ XInv /\ Compact => XInv'
<1> SUFFICES ASSUME TInv, XInv, Compact PROVE XInv'
  OBVIOUS
<1>1. /\ step = "idle" /\ step' = "get_segment" /\ Len(manifest) > 1
      /\ old' = [i \in DOMAIN manifest |-> manifest[i].index] /\ todo' = old'
      /\ UNCHANGED <<clientVars, wal_offset, wal_index, manifest, data, newSegments, suspect>>
  BY DEF Compact, history
<1>2. SendsOnly
  BY <1>1, SameSent, NothingSent
<1>3. Reserved' = Reserved /\ ~Sending /\ ~Sending'
  BY <1>1, SameReserved DEF Sending
<1>4. manifest' \in Lists /\ newSegments' \in Lists
  BY <1>1 DEF Lists
<1>5. AllDescribed' /\ Free'
  BY <1>1, <1>2, <1>3, <1>4, UploadsKept
<1>6. InTransit'
  BY <1>1, <1>2, <1>3, NewTransit
<1>7. ManifestOK'
  BY <1>1, SameManifest DEF XInv
<1>8. Downloaded'
  <2>1. manifest \in Seq(SegmentMetas) /\ Len(manifest) \in Nat
    BY DEF TInv, Buffers
  <2>2. PICK l \in Seq(Nat) : l = old'
    BY <1>1, TCompact DEF TInv, Buffers
  <2>3. l = [i \in 1..Len(manifest) |-> manifest[i].index]
    BY <1>1, <2>1, <2>2
  <2>4. Len(l) = Len(manifest) /\ \A j \in 1..Len(manifest) : l[j] = manifest[j].index
    BY <2>1, <2>3
  <2>5. OldClean' => AllClean(manifest)
    <3>1. SUFFICES ASSUME OldClean', NEW j \in 1..Len(manifest)
                   PROVE  Clean(manifest[j].index)
      BY DEF AllClean
    <3>2. \A i \in 1..Len(l) : WalKey(l[i]) \notin suspect
      BY <1>1, <2>2, <3>1 DEF OldClean, Clean
    <3> QED
      BY <2>4, <3>2 DEF Clean
  <2>6. AllClean(manifest) => manifest[1].offset = 0
    <3>1. manifest # <<>>
      BY <1>1, <2>1
    <3> QED
      BY <3>1 DEF XInv, ManifestOK, Contiguous
  <2>7. NextOffset' = manifest[1].offset
    <3>1. Len(old') - Len(todo') + 1 = 1
      BY <1>1, <2>1, <2>2, <2>4
    <3> QED
      BY <1>1, <3>1 DEF NextOffset
  <2>8. data' = BytesFrom(0, 0)
    BY <1>1 DEF XInv, ManifestOK, BytesFrom
  <2>9. /\ Len(old') = Len(manifest') /\ Len(todo') \in 1..Len(old')
        /\ \A j \in 1..Len(old') : old'[j] = manifest'[j].index
        /\ \A j \in 1..Len(todo') : todo'[j] = old'[Len(old') - Len(todo') + j]
    BY <1>1, <2>1, <2>2, <2>4
  <2>10. OldClean' => data' = BytesFrom(0, NextOffset')
    BY <2>5, <2>6, <2>7, <2>8
  <2> QED
    BY <2>9, <2>10 DEF Downloaded
<1>9. Chunks'
  BY <1>1 DEF Chunks
<1> QED
  BY <1>5, <1>6, <1>7, <1>8, <1>9 DEF XInv

\* Nothing changes but the store.
LEMMA XSame ==
  ASSUME TInv, XInv, SendsOnly,
         UNCHANGED <<wal_offset, wal_index, manifest, step, data, old, todo, newSegments, suspect>>
  PROVE  XInv'
<1>1. Reserved' = Reserved /\ CompactOffset' = CompactOffset
  BY DEF Reserved, CompactIndex, CompactOffset
<1>2. manifest' \in Lists /\ newSegments' \in Lists
  BY DEF Lists
<1>3. Sending' = Sending
  BY DEF Sending
<1>4. AllDescribed' /\ Free'
  BY <1>1, <1>2, <1>3, UploadsKept
<1>5. InTransit'
  BY SameTransit
<1>6. ManifestOK'
  BY SameManifest DEF XInv, ManifestOK
<1>7. Downloaded'
  BY DEF XInv, Downloaded, OldClean, Clean, NextOffset
<1>8. Chunks'
  BY <1>1 DEF XInv, Chunks, OldClean, Clean, Contiguous
<1> QED
  BY <1>4, <1>5, <1>6, <1>7, <1>8 DEF XInv

LEMMA XRetry == TInv /\ XInv /\ Retry => XInv'
<1> SUFFICES ASSUME TInv, XInv, Retry PROVE XInv'
  OBVIOUS
<1>1. SendsOnly
  BY RequestSends DEF Retry
<1> QED
  BY <1>1, XSame DEF Retry, managerVars, history

LEMMA XLandLate == TInv /\ XInv /\ LandLate => XInv'
<1> SUFFICES ASSUME TInv, XInv, LandLate PROVE XInv'
  OBVIOUS
<1>1. PICK request \in delayed : Land(request)
  BY DEF LandLate
<1>2. request.op \in Ops
  BY DEF TInv, UploadTypeOK, Ops
<1>3. SendsOnly
  BY <1>1, <1>2, LandMay, NothingSent
<1> QED
  BY <1>3, XSame DEF LandLate, managerVars

LEMMA XWriteWal == TInv /\ XInv /\ WriteWal => XInv'
<1> SUFFICES ASSUME TInv, XInv, WriteWal PROVE XInv'
  OBVIOUS
<1>1. SendsOnly
  BY SameSent, NothingSent DEF WriteWal
<1> QED
  BY <1>1, XSame DEF WriteWal, managerVars, history

\* A call that fails has sent nothing but under indexes that it leaves suspect.
LEMMA XCallFails == TInv /\ XInv /\ CallFails => XInv'
<1> SUFFICES ASSUME TInv, XInv, CallFails PROVE XInv'
  OBVIOUS
<1>1. /\ step # "idle" /\ Return /\ UNCHANGED <<wal_offset, wal_index, manifest>>
      /\ suspect' = suspect \cup
           CASE step \in {"put_segment", "put_segment_manifest"} -> {WalKey(wal_index)}
             [] step \in {"put_chunk", "put_new_manifest"} ->
                  {WalKey(i) : i \in wal_index..CompactIndex}
             [] OTHER -> {}
  BY DEF CallFails
<1>2. SendsOnly
  BY RequestSends DEF CallFails
<1>3. step' = "idle" /\ data' = <<>> /\ newSegments' = <<>>
  BY <1>1 DEF Return
<1>4. suspect \subseteq suspect'
  BY <1>1
<1>5. wal_index \in Nat /\ CompactIndex \in Nat /\ Reserved \in Nat
      /\ newSegments \in Seq(SegmentMetas)
  BY CompactBounds, ListsTyped DEF TInv, UploadTypeOK, Buffers
<1>6. Reserved' = wal_index
  BY <1>1, <1>3, <1>5 DEF Reserved, CompactIndex
<1>7. ASSUME NEW i \in Nat, Clean(i)', i < Reserved \/ (Sending /\ i = Reserved)
      PROVE  i < wal_index
  <2>1. CASE step \in {"put_segment", "put_segment_manifest"}
    <3>1. WalKey(wal_index) \in suspect'
      BY <1>1, <2>1
    <3>2. i # wal_index
      BY <1>7, <3>1 DEF Clean
    <3>3. i <= wal_index
      BY <1>5, <1>7, <2>1, ReservedIs DEF Sending, Reserved
    <3> QED
      BY <1>5, <3>2, <3>3
  <2>2. CASE step \in {"put_chunk", "put_new_manifest"}
    <3>1. \A k \in wal_index..CompactIndex : WalKey(k) \in suspect'
      BY <1>1, <2>2
    <3>2. i <= CompactIndex
      BY <1>5, <1>7, <2>2, ReservedIs
    <3>3. i \notin wal_index..CompactIndex
      BY <1>7, <3>1 DEF Clean
    <3> QED
      BY <1>5, <3>2, <3>3
  <2>3. CASE step \in {"get_segment", "delete_segment"}
    BY <1>5, <1>7, <2>3, ReservedIs DEF Sending
  <2> QED
    BY <1>1, <2>1, <2>2, <2>3 DEF TInv, UploadTypeOK, Steps
<1>8. manifest' \in Lists
  BY <1>1 DEF Lists
<1>9. AllDescribed' /\ Free'
  BY <1>2, <1>3, <1>4, <1>6, <1>7, <1>8, UploadsKept
<1>10. InTransit'
  BY <1>3 DEF InTransit
<1>11. ManifestOK'
  <2>1. CASE step = "put_segment_manifest"
    <3>1. manifest # <<>> /\ Last(manifest).index = wal_index
      BY <2>1 DEF XInv, ManifestOK
    <3>2. Len(manifest) \in 1..Len(manifest)
      BY <3>1 DEF TInv, Buffers
    <3>3. WalKey(manifest[Len(manifest)].index) \in suspect'
      BY <1>1, <2>1, <3>1 DEF Last
    <3>4. ~AllClean(manifest)'
      BY <1>1, <3>2, <3>3 DEF AllClean, Clean
    <3> QED
      BY <1>3, <3>4 DEF ManifestOK
  <2>2. CASE step # "put_segment_manifest"
    BY <1>1, <1>3, <1>4, <2>2, SameManifest DEF XInv
  <2> QED
    BY <2>1, <2>2
<1>12. Downloaded' /\ Chunks'
  BY <1>3 DEF Downloaded, Chunks
<1> QED
  BY <1>9, <1>10, <1>11, <1>12 DEF XInv

LEMMA XPutSegment == TInv /\ XInv /\ PutSegment => XInv'
<1> SUFFICES ASSUME TInv, XInv, PutSegment PROVE XInv'
  OBVIOUS
<1>1. /\ step = "put_segment" /\ step' = "put_segment_manifest"
      /\ manifest' = Append(manifest, SegmentMeta(wal_index, wal_offset, Len(data)))
      /\ UNCHANGED <<wal_offset, wal_index, data, newSegments, suspect>>
  BY DEF PutSegment, history
<1>2. SendsOnly
  BY RequestSends DEF PutSegment, Succeeds
<1>3. /\ wal_index \in Nat /\ wal_offset \in Nat /\ data \in Seq(Nat)
      /\ manifest \in Seq(SegmentMetas)
      /\ data = BytesFrom(wal_offset, wal_offset + Len(data))
  BY <1>1, UploadAssumption DEF TInv, UploadTypeOK, Buffers
<1>4. Reserved = wal_index /\ Reserved' = wal_index + 1
  BY <1>1, ReservedIs DEF Reserved
<1>5. PICK meta \in SegmentMetas : meta = SegmentMeta(wal_index, wal_offset, Len(data))
  <2>1. SegmentMeta(wal_index, wal_offset, Len(data)) \in SegmentMetas
    BY <1>3 DEF SegmentMeta, SegmentMetas
  <2> QED
    BY <2>1
<1>6. meta.index = wal_index /\ meta.offset = wal_offset /\ meta.size = Len(data)
  BY <1>5 DEF SegmentMeta
<1>7. PICK list \in Seq(SegmentMetas) : list = manifest'
  BY <1>1, <1>3, <1>5, AppendProperties
<1>8. /\ list = Append(manifest, meta) /\ Len(manifest) \in Nat
      /\ Len(list) = Len(manifest) + 1 /\ list # <<>>
      /\ \A j \in 1..Len(manifest) : list[j] = manifest[j]
      /\ list[Len(manifest) + 1] = meta
  BY <1>1, <1>3, <1>5, <1>7, AppendProperties
<1>9. \A i \in Nat : Clean(i)' = Clean(i)
  BY <1>1 DEF Clean
<1>10. Described(meta)'
  <2>1. ASSUME Clean(wal_index), NEW v \in Sent(WalKey(wal_index))'
        PROVE  v.content.bytes = data
    <3>1. PICK i \in Nat : i = wal_index
      BY <1>3
    <3>2. v \in Sent(WalKey(i))'
      BY <1>1, <3>1
    <3> QED
      BY <1>1, <1>2, <1>4, <2>1, <3>1, <3>2 DEF SendsOnly
  <2>2. ASSUME Clean(meta.index)'
        PROVE  /\ meta.index < Reserved'
               /\ \A v \in Sent(WalKey(meta.index))' :
                    v.content.bytes = BytesFrom(meta.offset, meta.offset + meta.size)
    <3>1. Clean(wal_index)
      BY <1>6, <2>2, <1>9, <1>3
    <3>2. \A v \in Sent(WalKey(meta.index))' : v \in Sent(WalKey(wal_index))'
      BY <1>1, <1>6
    <3> QED
      BY <1>3, <1>4, <1>6, <2>1, <3>1, <3>2
  <2> QED
    BY <2>2 DEF Described
<1>11. ASSUME NEW j \in 1..Len(list) PROVE Described(list[j])'
  <2>1. CASE j \in 1..Len(manifest)
    <3>1. PICK old_list \in Lists : old_list = manifest
      BY DEF Lists
    <3>2. \A i \in Nat : Clean(i)' /\ i < Reserved =>
            i < Reserved' /\ Sent(WalKey(i))' \subseteq Sent(WalKey(i))
      BY <1>2, <1>3, <1>4, <1>9 DEF SendsOnly
    <3>3. AllDescribed /\ suspect \subseteq suspect'
      BY <1>1 DEF XInv
    <3>4. Described(old_list[j])'
      BY <2>1, <3>1, <3>2, <3>3, StaysDescribed
    <3>5. list[j] = old_list[j]
      BY <1>8, <2>1, <3>1
    <3> QED
      BY <3>4, <3>5
  <2>2. CASE j = Len(manifest) + 1
    BY <1>8, <1>10, <2>2
  <2> QED
    BY <1>8, <2>1, <2>2
<1>12. newSegments' \in Lists
  BY <1>1 DEF Lists
<1>13. AllDescribed' /\ Free'
  <2>1. \A l \in {manifest', newSegments'} :
          l \in Lists \/ l = <<>> \/ \A j \in 1..Len(l) : Described(l[j])'
    BY <1>7, <1>11, <1>12
  <2>2. \A i \in Nat : Clean(i)' /\ i < Reserved => i < Reserved'
    BY <1>3, <1>4
  <2>3. \A i \in Nat : Clean(i)' /\ Sending /\ i = Reserved => i < Reserved'
    BY <1>3, <1>4
  <2> QED
    BY <1>1, <1>2, <2>1, <2>2, <2>3, UploadsKept
<1>14. InTransit'
  BY <1>1 DEF InTransit
<1>15. ManifestOK'
  <2>1. Last(list).index = wal_index
    BY <1>6, <1>8 DEF Last
  <2>2. ASSUME AllClean(list)
        PROVE  Contiguous(list) /\ End(list) = wal_offset + Len(data)
    <3>1. AllClean(manifest)
      BY <1>8, <2>2 DEF AllClean
    <3>2. Contiguous(manifest) /\ End(manifest) = wal_offset
      BY <1>1, <3>1 DEF XInv, ManifestOK
    <3> QED
      BY <1>3, <1>6, <1>8, <3>2, ContiguousAppend
  <2>3. AllClean(manifest)' => AllClean(list)
    BY <1>1, <1>7 DEF AllClean, Clean
  <2>4. Contiguous(manifest)' = Contiguous(list) /\ End(manifest)' = End(list)
    BY <1>7 DEF Contiguous, End
  <2> QED
    BY <1>1, <1>7, <1>8, <2>1, <2>2, <2>3, <2>4 DEF ManifestOK
<1>16. Downloaded' /\ Chunks'
  BY <1>1 DEF Downloaded, Chunks
<1> QED
  BY <1>13, <1>14, <1>15, <1>16 DEF XInv

LEMMA XPutSegmentManifest == TInv /\ XInv /\ PutSegmentManifest => XInv'
<1> SUFFICES ASSUME TInv, XInv, PutSegmentManifest PROVE XInv'
  OBVIOUS
<1>1. /\ step = "put_segment_manifest" /\ step' = "idle"
      /\ wal_offset' = wal_offset + Len(data) /\ wal_index' = wal_index + 1
      /\ data' = <<>> /\ newSegments' = <<>>
      /\ UNCHANGED <<manifest, suspect>>
  BY DEF PutSegmentManifest, Return
<1>2. SendsOnly
  BY RequestSends DEF PutSegmentManifest, Succeeds
<1>3. wal_index \in Nat
  BY DEF TInv, UploadTypeOK
<1>4. Reserved = wal_index + 1 /\ Reserved' = wal_index + 1 /\ ~Sending
  BY <1>1, <1>3 DEF Reserved, CompactIndex, Sending
<1>5. manifest' \in Lists
  BY <1>1 DEF Lists
<1>6. AllDescribed' /\ Free'
  BY <1>1, <1>2, <1>4, <1>5, UploadsKept
<1>7. InTransit' /\ Downloaded' /\ Chunks'
  BY <1>1 DEF InTransit, Downloaded, Chunks
<1>8. ManifestOK'
  <2>1. AllClean(manifest)' => AllClean(manifest)
    BY <1>1 DEF AllClean, Clean
  <2>2. Contiguous(manifest)' = Contiguous(manifest) /\ End(manifest)' = End(manifest)
    BY <1>1 DEF Contiguous, End
  <2> QED
    BY <1>1, <2>1, <2>2 DEF XInv, ManifestOK
<1> QED
  BY <1>6, <1>7, <1>8 DEF XInv

LEMMA XGetSegment == TInv /\ XInv /\ GetSegment => XInv'
<1> SUFFICES ASSUME TInv, XInv, GetSegment PROVE XInv'
  OBVIOUS
<1>1. /\ step = "get_segment" /\ Succeeds
      /\ UNCHANGED <<wal_offset, wal_index, manifest, suspect>>
  BY DEF GetSegment, history
<1>2. SendsOnly
  BY <1>1, RequestSends DEF Succeeds
<1>3. newSegments = <<>> /\ newSegments' = <<>> /\ ~Sending /\ step' # "put_segment_manifest"
      /\ step' \in {"idle", "get_segment", "put_chunk"}
      /\ (step' = "idle" => data' = <<>>)
  BY <1>1 DEF GetSegment, Return, TInv, Buffers, Sending
<1>4. Reserved' = Reserved
  BY <1>1, <1>3, SameReserved
<1>5. manifest' \in Lists
  BY <1>1 DEF Lists
<1>6. AllDescribed' /\ Free'
  BY <1>1, <1>2, <1>3, <1>4, <1>5, UploadsKept
<1>7. InTransit'
  BY <1>1, <1>2, <1>3, <1>4, NewTransit
<1>8. ManifestOK'
  BY <1>1, <1>3, SameManifest DEF XInv
<1>9. Downloaded' /\ Chunks'
  <2>1. CASE Return
    BY <2>1 DEF Return, Downloaded, Chunks
  <2>2. CASE ~Return
    <3> DEFINE n == Len(old)
               k == n - Len(todo) + 1
    <3>1. PICK v : v = objects[WalKey(Head(todo))]
      OBVIOUS
    <3>2. /\ v \in Sent(WalKey(Head(todo))) /\ v.content.bytes \in Seq(Nat)
          /\ data' = data \o v.content.bytes /\ todo' = Tail(todo) /\ old' = old
          /\ step' = IF Len(todo) > 1 THEN "get_segment" ELSE "put_chunk"
      BY <1>1, <2>2, <3>1, Got DEF GetSegment
    <3>3. /\ n = Len(manifest) /\ Len(todo) \in 1..n /\ n \in Nat
          /\ \A j \in 1..n : old[j] = manifest[j].index
          /\ \A j \in 1..Len(todo) : todo[j] = old[n - Len(todo) + j]
          /\ OldClean => data = BytesFrom(0, manifest[k].offset)
          /\ todo \in Seq(Nat) /\ manifest \in Seq(SegmentMetas) /\ todo # <<>>
      <4>1. /\ todo \in Seq(Nat) /\ manifest \in Seq(SegmentMetas) /\ old \in Seq(Nat)
            /\ todo # <<>> /\ Downloaded
        BY <1>1 DEF XInv, TInv, Buffers
      <4>2. n \in Nat
        BY <4>1
      <4>3. OldClean => data = BytesFrom(0, manifest[k].offset)
        BY <1>1, <4>1, Zenon DEF Downloaded, NextOffset
      <4> QED
        BY <1>1, <4>1, <4>2, <4>3 DEF Downloaded
    <3> HIDE DEF n
    <3>4. k \in 1..n /\ Head(todo) = manifest[k].index /\ manifest[k].index \in Nat
          /\ manifest[k].offset \in Nat /\ manifest[k].size \in Nat
      <4>1. k \in 1..n /\ Head(todo) = todo[1]
        BY <3>3
      <4>2. todo[1] = old[k]
        BY <3>3
      <4>3. manifest[k] \in SegmentMetas
        BY <3>3, <4>1, ElementOfSeq
      <4> QED
        BY <3>3, <4>1, <4>2, <4>3 DEF SegmentMetas
    <3> HIDE DEF k
    <3>5. PICK e : e = manifest[k]
      OBVIOUS
    <3>6. OldClean => AllClean(manifest)
      BY <3>3 DEF OldClean, AllClean, n
    <3>7. OldClean => data' = BytesFrom(0, e.offset + e.size)
      <4>1. SUFFICES ASSUME OldClean PROVE data' = BytesFrom(0, e.offset + e.size)
        OBVIOUS
      <4>2. Clean(e.index)
        BY <3>3, <3>4, <3>5, <3>6, <4>1 DEF AllClean
      <4>3. Described(e)
        BY <3>3, <3>4, <3>5 DEF XInv, AllDescribed, Lists
      <4>4. v.content.bytes = BytesFrom(e.offset, e.offset + e.size)
        BY <3>2, <3>4, <3>5, <4>2, <4>3 DEF Described
      <4>5. data = BytesFrom(0, e.offset)
        BY <3>3, <3>5, <4>1
      <4>6. PICK b \in Nat, c \in Nat : b = e.offset /\ c = e.offset + e.size /\ b <= c
        BY <3>4, <3>5
      <4>7. 0 \in Nat /\ 0 <= b
        BY <4>6
      <4>8. BytesFrom(0, b) \o BytesFrom(b, c) = BytesFrom(0, c)
        BY <4>6, <4>7, BytesJoin, Zenon
      <4> QED
        BY <3>2, <4>4, <4>5, <4>6, <4>8
    <3>8. OldClean' = OldClean
      BY <1>1, <3>2 DEF OldClean, Clean
    <3>9. CASE Len(todo) > 1
      <4>1. PICK rest \in Seq(Nat) : rest = Tail(todo)
        BY <3>3, HeadTailProperties
      <4>2. /\ Len(rest) = Len(todo) - 1
            /\ \A j \in 1..Len(rest) : rest[j] = todo[j + 1]
        BY <3>3, <4>1, HeadTailProperties
      <4>3. Len(rest) \in 1..n
        BY <3>3, <3>9, <4>2
      <4>4. ASSUME NEW j \in 1..Len(rest) PROVE rest[j] = old[n - Len(rest) + j]
        <5>1. j + 1 \in 1..Len(todo) /\ n - Len(todo) + (j + 1) = n - Len(rest) + j
          BY <3>3, <4>2
        <5> QED
          BY <3>3, <4>2, <5>1
      <4>5. OldClean => manifest[k + 1].offset = e.offset + e.size
        <5>1. k \in 1..(Len(manifest) - 1)
          BY <3>3, <3>4, <3>9 DEF k
        <5> QED
          BY <1>1, <3>5, <3>6, <5>1 DEF XInv, ManifestOK, Contiguous
      <4>6. n - Len(rest) + 1 = k + 1
        BY <3>3, <4>2 DEF k
      <4>7. NextOffset' = manifest[k + 1].offset
        BY <1>1, <3>2, <4>1, <4>6 DEF NextOffset, n
      <4>8. step' = "get_segment"
        BY <3>2, <3>9
      <4>9. Downloaded'
        BY <1>1, <3>2, <3>3, <3>7, <3>8, <4>1, <4>3, <4>4, <4>5, <4>7 DEF Downloaded, n
      <4> QED
        BY <4>8, <4>9 DEF Chunks
    <3>10. CASE ~(Len(todo) > 1)
      <4>1. step' = "put_chunk" /\ k = n /\ manifest # <<>>
        BY <3>2, <3>3, <3>10 DEF k
      <4>2. OldClean => wal_offset = e.offset + e.size
        <5>1. Last(manifest) = e
          BY <3>3, <3>5, <4>1 DEF Last
        <5> QED
          BY <1>1, <3>6, <4>1, <5>1 DEF XInv, ManifestOK, End
      <4>3. Contiguous(newSegments)' /\ Len(newSegments') = 0
        BY <1>3 DEF Contiguous
      <4> QED
        BY <1>1, <3>7, <3>8, <4>1, <4>2, <4>3 DEF Downloaded, Chunks
    <3> QED
      BY <3>9, <3>10
  <2> QED
    BY <2>1, <2>2
<1> QED
  BY <1>6, <1>7, <1>8, <1>9 DEF XInv

LEMMA XPutNewManifest == TInv /\ XInv /\ PutNewManifest => XInv'
<1> SUFFICES ASSUME TInv, XInv, PutNewManifest PROVE XInv'
  OBVIOUS
<1>1. /\ step = "put_new_manifest" /\ step' = "delete_segment"
      /\ wal_index' = CompactIndex /\ newSegments' = <<>>
      /\ UNCHANGED <<manifest, wal_offset, suspect>>
  BY DEF PutNewManifest
<1>2. SendsOnly
  BY RequestSends DEF PutNewManifest, Succeeds
<1>3. Reserved = CompactIndex /\ Reserved' = CompactIndex /\ ~Sending
  <2>1. CompactIndex \in Nat
    BY CompactBounds
  <2> QED
    BY <1>1, <2>1 DEF Reserved, CompactIndex, Sending
<1>4. manifest' \in Lists
  BY <1>1 DEF Lists
<1>5. AllDescribed' /\ Free'
  BY <1>1, <1>2, <1>3, <1>4, UploadsKept
<1>6. InTransit' /\ Downloaded' /\ Chunks'
  BY <1>1 DEF InTransit, Downloaded, Chunks
<1>7. ManifestOK'
  BY <1>1, SameManifest DEF XInv
<1> QED
  BY <1>5, <1>6, <1>7 DEF XInv

LEMMA XDeleteSegment == TInv /\ XInv /\ DeleteSegment => XInv'
<1> SUFFICES ASSUME TInv, XInv, DeleteSegment PROVE XInv'
  OBVIOUS
<1>1. /\ step = "delete_segment" /\ step' \in {"idle", "delete_segment"}
      /\ (step' = "idle" => data' = <<>>)
      /\ UNCHANGED <<wal_offset, wal_index, manifest, suspect>>
      /\ newSegments = <<>> /\ newSegments' = <<>>
  BY DEF DeleteSegment, history, Return, TInv, Buffers
<1>2. SendsOnly
  BY RequestSends DEF DeleteSegment, Succeeds
<1>3. Reserved' = Reserved /\ ~Sending
  BY <1>1, SameReserved DEF Sending
<1>4. manifest' \in Lists
  BY <1>1 DEF Lists
<1>5. AllDescribed' /\ Free'
  BY <1>1, <1>2, <1>3, <1>4, UploadsKept
<1>6. InTransit' /\ Downloaded' /\ Chunks'
  BY <1>1 DEF InTransit, Downloaded, Chunks
<1>7. ManifestOK'
  BY <1>1, SameManifest DEF XInv
<1> QED
  BY <1>5, <1>6, <1>7 DEF XInv

LEMMA XPutChunk == TInv /\ XInv /\ PutChunk => XInv'
<1> SUFFICES ASSUME TInv, XInv, PutChunk PROVE XInv'
  OBVIOUS
<1>1. /\ step = "put_chunk" /\ Succeeds
      /\ \/ step' = step /\ manifest' = manifest
         \/ /\ step' = "put_new_manifest" /\ manifest' = newSegments'
            /\ ~(CompactEnd < Len(data))
      /\ suspect' = suspect \cup
           (IF \E i \in DOMAIN old : WalKey(old[i]) \in suspect THEN {WalKey(CompactIndex)}
            ELSE {})
      /\ UNCHANGED <<wal_offset, wal_index, data, old, todo>>
  BY DEF PutChunk
<1>2. SendsOnly
  BY <1>1, RequestSends DEF Succeeds
<1>3. PICK index \in Nat, offset \in Nat, end \in Nat :
        /\ index = CompactIndex /\ offset = CompactOffset /\ end = CompactEnd
        /\ offset <= end /\ end <= Len(data)
        /\ Chunk \in Seq(Nat) /\ Len(Chunk) = end - offset
        /\ \A i \in 1..(end - offset) : Chunk[i] = data[offset + i]
  BY CompactBounds
<1>4. PICK list \in Seq(SegmentMetas) : list = newSegments'
  BY NextChunk
<1>5. PICK meta : meta = SegmentMeta(index, offset, end - offset)
  OBVIOUS
<1>6. /\ meta \in SegmentMetas /\ meta.index = index /\ meta.offset = offset
      /\ meta.size = end - offset /\ meta.offset + meta.size = end
  BY <1>3, <1>5 DEF SegmentMeta, SegmentMetas
<1>7. /\ Len(list) = Len(newSegments) + 1 /\ list # <<>> /\ Len(newSegments) \in Nat
      /\ \A j \in 1..Len(newSegments) : list[j] = newSegments[j]
      /\ list[Len(newSegments) + 1] = meta
      /\ CompactOffset' = end /\ CompactIndex' = index + 1
      /\ list = Append(newSegments, meta)
      /\ newSegments \in Seq(SegmentMetas)
  <2>1. newSegments \in Seq(SegmentMetas)
    BY DEF TInv, Buffers
  <2>2. list = Append(newSegments, meta)
    BY <1>3, <1>4, <1>5 DEF PutChunk
  <2> QED
    BY <1>3, <1>4, <1>5, <2>1, <2>2, NextChunk
<1>8. Reserved = index /\ Reserved' = index + 1 /\ Sending
  BY <1>1, <1>3, <1>7, ReservedIs DEF Reserved, Sending
<1>9. /\ suspect \subseteq suspect'
      /\ OldClean => suspect' = suspect
      /\ ~OldClean => WalKey(index) \in suspect'
  <2>1. old \in Seq(Nat) /\ DOMAIN old = 1..Len(old)
    BY DEF TInv, Buffers
  <2>2. OldClean <=> ~\E i \in DOMAIN old : WalKey(old[i]) \in suspect
    BY <2>1 DEF OldClean, Clean
  <2> QED
    BY <1>1, <1>3, <2>2
<1>10. OldClean' <=> OldClean
  BY <1>1, <1>9 DEF OldClean, Clean
<1>11. Clean(index)' => OldClean
  BY <1>9 DEF Clean
<1>12. /\ OldClean => data = BytesFrom(0, wal_offset)
       /\ ~OldClean => \A j \in 1..Len(newSegments) : ~Clean(newSegments[j].index)
       /\ Contiguous(newSegments)
       /\ \A j \in 1..Len(newSegments) : newSegments[j].index = wal_index + j - 1
  BY <1>1 DEF XInv, Chunks
<1>13. wal_offset \in Nat /\ data \in Seq(Nat) /\ Len(data) \in Nat
  BY DEF TInv, UploadTypeOK, Buffers
<1>14. ASSUME OldClean
       PROVE  Len(data) = wal_offset /\ Chunk = BytesFrom(offset, end)
  <2>1. Len(data) = wal_offset /\ \A i \in 1..wal_offset : data[i] = i
    BY <1>12, <1>13, <1>14 DEF BytesFrom
  <2>2. PICK bytes \in Seq(Nat) : bytes = Chunk
    BY <1>3
  <2>3. /\ BytesFrom(offset, end) \in Seq(Nat) /\ Len(BytesFrom(offset, end)) = end - offset
        /\ \A i \in 1..(end - offset) : BytesFrom(offset, end)[i] = offset + i
    BY <1>3 DEF BytesFrom
  <2>4. ASSUME NEW i \in 1..(end - offset) PROVE bytes[i] = BytesFrom(offset, end)[i]
    <3>1. offset + i \in 1..wal_offset
      BY <1>3, <2>1
    <3> QED
      BY <1>3, <2>1, <2>2, <2>3, <3>1
  <2>5. PICK from \in Seq(Nat) : from = BytesFrom(offset, end)
    BY <2>3
  <2>6. Len(bytes) = Len(from) /\ \A i \in 1..Len(bytes) : bytes[i] = from[i]
    BY <1>3, <2>2, <2>3, <2>4, <2>5
  <2>7. bytes = from
    BY <2>6, SeqEqual
  <2> QED
    BY <2>1, <2>2, <2>5, <2>7
<1>15. Described(meta)'
  <2>1. SUFFICES ASSUME Clean(meta.index)'
                 PROVE  /\ meta.index < Reserved'
                        /\ \A v \in Sent(WalKey(meta.index))' :
                             v.content.bytes = BytesFrom(meta.offset, meta.offset + meta.size)
    BY DEF Described
  <2>2. OldClean /\ Clean(index)
    BY <1>6, <1>9, <1>11, <2>1 DEF Clean
  <2>3. \A v \in Sent(WalKey(index))' : v.content.bytes = Chunk
    BY <1>1, <1>2, <1>8, <2>2 DEF SendsOnly
  <2>4. \A v \in Sent(WalKey(meta.index))' : v \in Sent(WalKey(index))'
    BY <1>6
  <2> QED
    BY <1>6, <1>8, <1>14, <2>2, <2>3, <2>4
<1>16. ASSUME NEW j \in 1..Len(list) PROVE Described(list[j])'
  <2>1. CASE j \in 1..Len(newSegments)
    <3>1. PICK before \in Lists : before = newSegments
      BY DEF Lists
    <3>2. \A i \in Nat : Clean(i)' /\ i < Reserved =>
            i < Reserved' /\ Sent(WalKey(i))' \subseteq Sent(WalKey(i))
      BY <1>2, <1>3, <1>8, <1>9 DEF SendsOnly, Clean
    <3>3. AllDescribed
      BY DEF XInv
    <3>4. Described(before[j])'
      BY <1>9, <2>1, <3>1, <3>2, <3>3, StaysDescribed
    <3>5. list[j] = before[j]
      BY <1>7, <2>1, <3>1
    <3> QED
      BY <3>4, <3>5
  <2>2. CASE j = Len(newSegments) + 1
    BY <1>7, <1>15, <2>2
  <2> QED
    BY <1>7, <2>1, <2>2
<1>17. AllDescribed' /\ Free'
  <2>1. \A l \in {manifest', newSegments'} :
          l \in Lists \/ l = <<>> \/ \A j \in 1..Len(l) : Described(l[j])'
    BY <1>1, <1>4, <1>16 DEF Lists
  <2>2. \A i \in Nat : Clean(i)' /\ i < Reserved => i < Reserved'
    BY <1>3, <1>8
  <2>3. \A i \in Nat : Clean(i)' /\ Sending /\ i = Reserved => i < Reserved'
    BY <1>3, <1>8
  <2> QED
    BY <1>2, <1>9, <2>1, <2>2, <2>3, UploadsKept
<1>18. InTransit'
  BY <1>2, <1>3, <1>8, <1>9, NewTransit
<1>19. Contiguous(list) /\ End(list) = end
  <2>1. End(newSegments) = offset
    BY <1>3 DEF End, CompactOffset
  <2> QED
    BY <1>6, <1>7, <1>12, <2>1, ContiguousAppend
<1>20. ManifestOK'
  <2>1. CASE step' = step /\ manifest' = manifest
    BY <1>1, <1>9, <2>1, SameManifest DEF XInv
  <2>2. CASE /\ step' = "put_new_manifest" /\ manifest' = newSegments'
             /\ ~(CompactEnd < Len(data))
    <3>1. AllClean(manifest)' => Clean(index)'
      <4>1. Len(list) \in 1..Len(list) /\ list[Len(list)].index = index
        BY <1>6, <1>7
      <4> QED
        BY <1>4, <2>2, <4>1 DEF AllClean
    <3>2. OldClean => end = wal_offset
      BY <1>3, <1>13, <1>14, <2>2
    <3>3. Contiguous(manifest)' /\ End(manifest)' = end
      BY <1>4, <1>19, <2>2 DEF Contiguous, End
    <3> QED
      BY <1>1, <1>11, <2>2, <3>1, <3>2, <3>3 DEF ManifestOK
  <2> QED
    BY <1>1, <2>1, <2>2
<1>21. Chunks'
  <2>1. ASSUME ~OldClean, NEW j \in 1..Len(list) PROVE ~Clean(list[j].index)'
    <3>1. CASE j \in 1..Len(newSegments)
      BY <1>7, <1>9, <1>12, <2>1, <3>1 DEF Clean
    <3>2. CASE j = Len(newSegments) + 1
      BY <1>6, <1>7, <1>9, <2>1, <3>2 DEF Clean
    <3> QED
      BY <1>7, <3>1, <3>2
  <2>2. ASSUME NEW j \in 1..Len(list) PROVE list[j].index = wal_index + j - 1
    <3>1. CASE j \in 1..Len(newSegments)
      BY <1>7, <1>12, <3>1
    <3>2. CASE j = Len(newSegments) + 1
      <4>1. index = wal_index + Len(newSegments) /\ wal_index \in Nat
        BY <1>3 DEF CompactIndex, TInv, UploadTypeOK
      <4> QED
        BY <1>6, <1>7, <3>2, <4>1
    <3> QED
      BY <1>7, <3>1, <3>2
  <2>3. Contiguous(newSegments)'
    BY <1>4, <1>19 DEF Contiguous
  <2>4. step' = "put_new_manifest" => manifest' = newSegments' /\ end = Len(data)
    BY <1>1, <1>3, <1>13
  <2> QED
    BY <1>1, <1>4, <1>7, <1>10, <1>12, <2>1, <2>2, <2>3, <2>4 DEF Chunks
<1>22. Downloaded'
  BY <1>1 DEF Downloaded
<1> QED
  BY <1>17, <1>18, <1>20, <1>21, <1>22 DEF XInv

LEMMA XInit == Init => XInv
<1> SUFFICES ASSUME Init PROVE XInv
  OBVIOUS
<1>1. /\ objects = <<>> /\ delayed = {} /\ step = "idle" /\ manifest = <<>>
      /\ newSegments = <<>> /\ data = <<>> /\ wal_offset = 0
  BY DEF Init, ClientInit
<1>2. \A k : Sent(k) = {}
  BY <1>1 DEF Sent
<1>3. Lists = {<<>>}
  BY <1>1, <1>2 DEF Lists
<1>4. \A j \in 1..Len(<<>>) : FALSE
  OBVIOUS
<1>5. AllDescribed
  BY <1>3, <1>4 DEF AllDescribed
<1>6. Free /\ InTransit
  BY <1>2 DEF Free, InTransit
<1>7. ManifestOK
  BY <1>1 DEF ManifestOK, Contiguous, End
<1> QED
  BY <1>1, <1>5, <1>6, <1>7 DEF XInv, Downloaded, Chunks

LEMMA XNext == TInv /\ XInv /\ [Next]_vars => XInv'
<1>1. TInv /\ XInv /\ UNCHANGED vars => XInv'
  <2> SUFFICES ASSUME TInv, XInv, UNCHANGED vars PROVE XInv'
    OBVIOUS
  <2>1. SendsOnly
    BY SameSent, NothingSent DEF vars
  <2> QED
    BY <2>1, XSame DEF vars, managerVars, history
<1> QED
  BY <1>1, XSyncWal, XCompact, XRetry, XCallFails, XPutSegment, XPutSegmentManifest,
     XGetSegment, XPutChunk, XPutNewManifest, XDeleteSegment, XWriteWal, XLandLate
  DEF Next, CallStep

\* Every segment that the stored manifest lists holds the range of the WAL its
\* entry states, for any number of attempts, of requests that arrive late and of
\* compactions (manager.rs:251-277, 480-578; s3.rs:49-88): a key that no failed
\* call has written is only ever sent one value.
THEOREM ListedSegmentsAreExact == Spec => []ListedSegmentsExact
<1>1. TInv /\ XInv => ListedSegmentsExact
  <2> SUFFICES ASSUME TInv, XInv, ManifestKey \in DOMAIN objects,
                      NEW e \in Listed(StoredManifest),
                      WalKey(e.index) \in DOMAIN objects \ suspect
               PROVE  LET k == WalKey(e.index)
                      IN /\ StoredBytes(k) = BytesFrom(e.offset, e.offset + e.size)
                         /\ \/ Decoded(objects[k]) = Plain(objects[k].first, objects[k].content)
                            \/ LooksEncoded(objects[k])
    BY DEF ListedSegmentsExact
  <2>1. PICK v : v = objects[ManifestKey]
    OBVIOUS
  <2>2. v \in Sent(ManifestKey) /\ ManifestKey \in Keys
    BY <2>1 DEF Sent, Keys
  <2>3. StoredManifest.content = v.content
    BY <2>1, <2>2, DecodedIs DEF StoredManifest, Plain
  <2>4. PICK list : list = v.content.segments
    OBVIOUS
  <2>5. list \in Lists /\ list \in Seq(SegmentMetas)
    BY <2>2, <2>4, ListsTyped DEF Lists
  <2>6. PICK j \in 1..Len(list) : e = list[j]
    BY <2>3, <2>4, <2>5 DEF Listed
  <2>7. Described(e) /\ e.index \in Nat
    BY <2>5, <2>6, ListsTyped DEF XInv, AllDescribed
  <2>8. PICK k \in Keys : k = WalKey(e.index)
    BY <2>7 DEF Keys
  <2>9. PICK w : w = objects[k]
    OBVIOUS
  <2>10. w \in Sent(k)
    BY <2>8, <2>9 DEF Sent
  <2>11. w.content.bytes = BytesFrom(e.offset, e.offset + e.size)
    BY <2>7, <2>8, <2>10 DEF Described, Clean
  <2>12. Decoded(w) = Plain(w.first, w.content) \/ LooksEncoded(w)
    BY <2>10, DecodedIs
  <2> QED
    BY <2>8, <2>9, <2>11, <2>12 DEF StoredBytes
<1>2. Init => TInv /\ XInv
  BY TInit, XInit
<1>3. TInv /\ XInv /\ [Next]_vars => TInv' /\ XInv'
  BY TNext, XNext
<1> QED
  BY <1>1, <1>2, <1>3, PTL DEF Spec

-----------------------------------------------------------------------------
(* Nothing that is needed is deleted, and the stored manifest is complete. *)

Stored(list) == \A j \in 1..Len(list) : WalKey(list[j].index) \in DOMAIN objects
Has(list, i) == \E j \in 1..Len(list) : list[j].index = i

\* The keys that are deleted.
Doomed(k) == \E i \in Nat : k = WalKey(i) /\ i < wal_index /\ ~Has(manifest, i)

Kept ==
  suspect = {} =>
    /\ Stored(manifest) /\ Stored(newSegments)
    /\ \A r \in delayed : r.op = "delete" => Doomed(r.key)
    /\ step = "delete_segment" => \A j \in 1..Len(todo) : Doomed(WalKey(todo[j]))
    /\ step \in {"put_chunk", "put_new_manifest"} => \A j \in 1..Len(old) : old[j] < wal_index

\* Nothing is compacted before something has been synced.
Begun ==
  /\ step \in {"put_segment", "put_segment_manifest"} => data # <<>>
  /\ suspect = {} /\ wal_offset = 0 /\ step # "put_segment_manifest" =>
       manifest = <<>> /\ step \in {"idle", "put_segment"}

StoredList == objects[ManifestKey].content.segments

Newest ==
  suspect = {} /\ ~overtaken /\ wal_offset > 0 =>
    /\ ManifestKey \in DOMAIN objects
    /\ Contiguous(StoredList) /\ wal_offset <= End(StoredList) /\ Stored(StoredList)
    /\ step = "delete_segment" => StoredList = manifest

\* Every manifest that was ever sent ends with a frame.
Ends ==
  suspect = {} =>
    \A v \in Sent(ManifestKey) :
      /\ v.content.segments # <<>>
      /\ End(v.content.segments) \in FrameEnds
      /\ 1 <= End(v.content.segments) /\ End(v.content.segments) <= walLen

DInv == Kept /\ Begun /\ Newest /\ Ends

\* A step that deletes nothing but what is doomed.
DeletesOnly ==
  /\ \A k \in DOMAIN objects : k \in DOMAIN objects' \/ Doomed(k)
  /\ \A r \in delayed' : r.op = "delete" => Doomed(r.key)

LEMMA RequestDeletes ==
  ASSUME TInv, Kept, suspect = {}, step # "idle", NEW result, Attempt(Request, result)
  PROVE  DeletesOnly
<1>1. PICK request : request = Request
  OBVIOUS
<1>2. request.op \in Ops /\ Attempt(request, result)
  BY <1>1, RequestTyped
<1>3. /\ objects' = objects \/ objects' = After(request)
      /\ delayed' = delayed \/ delayed' = delayed \cup {request}
  BY <1>2, AttemptMay
<1>4. request.op = "delete" => Doomed(request.key)
  <2>1. SUFFICES ASSUME request.op = "delete" PROVE Doomed(request.key)
    OBVIOUS
  <2>2. step \in Steps
    BY DEF TInv, UploadTypeOK
  <2>3. step = "delete_segment"
    BY <1>1, <2>1, <2>2, RequestOf DEF Steps, Put, Get
  <2>4. request.key = WalKey(Head(todo))
    BY <1>1, <2>3, RequestOf DEF Delete
  <2>5. 1 \in 1..Len(todo) /\ Head(todo) = todo[1]
    BY <2>3 DEF TInv, Buffers
  <2> QED
    BY <2>3, <2>4, <2>5 DEF Kept
<1>5. ASSUME NEW k \in DOMAIN objects, k \notin DOMAIN objects' PROVE Doomed(k)
  <2>1. objects' = After(request)
    BY <1>3, <1>5
  <2>2. /\ k # request.key => k \in DOMAIN objects'
        /\ request.op = "get" => objects' = objects
        /\ request.op = "put" => request.key \in DOMAIN objects'
    BY <1>2, <2>1, Effect
  <2>3. k = request.key /\ request.op = "delete"
    BY <1>2, <1>5, <2>2 DEF Ops
  <2> QED
    BY <1>4, <2>3
<1>6. \A r \in delayed' : r.op = "delete" => Doomed(r.key)
  BY <1>3, <1>4 DEF Kept
<1> QED
  BY <1>5, <1>6 DEF DeletesOnly

LEMMA LandDeletes ==
  ASSUME TInv, Kept, suspect = {}, NEW request \in delayed, Land(request)
  PROVE  DeletesOnly
<1>1. request.op \in Ops
  BY DEF TInv, UploadTypeOK, Ops
<1>2. objects' = After(request) /\ delayed' \subseteq delayed
  BY <1>1, LandMay
<1>3. request.op = "delete" => Doomed(request.key)
  BY DEF Kept
<1>4. ASSUME NEW k \in DOMAIN objects, k \notin DOMAIN objects' PROVE Doomed(k)
  <2>1. /\ k # request.key => k \in DOMAIN objects'
        /\ request.op = "get" => objects' = objects
        /\ request.op = "put" => request.key \in DOMAIN objects'
    BY <1>1, <1>2, Effect
  <2>2. k = request.key /\ request.op = "delete"
    BY <1>1, <1>4, <2>1 DEF Ops
  <2> QED
    BY <1>3, <2>2
<1> QED
  BY <1>2, <1>4 DEF DeletesOnly, Kept

LEMMA NothingDeleted ==
  ASSUME Kept, suspect = {}, UNCHANGED clientVars
  PROVE  DeletesOnly
BY DEF Kept, DeletesOnly, clientVars

\* What stays stored, and stays doomed.
LEMMA StaysStored ==
  ASSUME TInv, XInv, Kept, suspect = {}, DeletesOnly
  PROVE  \A list \in {manifest, newSegments} : Stored(list)'
<1>1. wal_index \in Nat /\ manifest \in Seq(SegmentMetas) /\ newSegments \in Seq(SegmentMetas)
  BY DEF TInv, UploadTypeOK, Buffers
<1>2. SUFFICES ASSUME NEW list \in {manifest, newSegments}, NEW j \in 1..Len(list)
               PROVE  WalKey(list[j].index) \in DOMAIN objects'
  BY DEF Stored
<1>3. WalKey(list[j].index) \in DOMAIN objects
  BY <1>2 DEF Kept, Stored
<1>4. list[j].index \in Nat
  BY <1>2, ListsTyped DEF Lists
<1>5. ~Doomed(WalKey(list[j].index))
  <2>1. SUFFICES ASSUME NEW i \in Nat, WalKey(list[j].index) = WalKey(i), i < wal_index,
                        ~Has(manifest, i)
                 PROVE  FALSE
    BY DEF Doomed
  <2>2. i = list[j].index
    BY <1>4, <2>1, KeysDiffer
  <2>3. CASE list = manifest
    BY <1>2, <2>1, <2>2, <2>3 DEF Has
  <2>4. CASE list = newSegments
    <3>1. newSegments # <<>>
      BY <1>1, <1>2, <2>4
    <3>2. step \in {"put_chunk", "put_new_manifest"}
      BY <3>1 DEF TInv, Buffers
    <3>3. list[j].index = wal_index + j - 1
      BY <1>2, <2>4, <3>2 DEF XInv, Chunks
    <3>4. j \in Nat /\ j >= 1
      BY <1>1, <1>2
    <3> QED
      BY <1>1, <2>1, <2>2, <3>3, <3>4
  <2> QED
    BY <1>2, <2>3, <2>4
<1> QED
  BY <1>3, <1>5 DEF DeletesOnly

LEMMA StaysDoomed ==
  ASSUME TInv, wal_index' \in Nat, wal_index <= wal_index',
         \A i \in Nat : i < wal_index /\ Has(manifest', i) => Has(manifest, i),
         NEW k, Doomed(k)
  PROVE  Doomed(k)'
<1>1. PICK i \in Nat : k = WalKey(i) /\ i < wal_index /\ ~Has(manifest, i)
  BY DEF Doomed
<1>2. wal_index \in Nat
  BY DEF TInv, UploadTypeOK
<1>3. i < wal_index' /\ ~Has(manifest', i)
  BY <1>1, <1>2
<1>4. ~Has(manifest, i)'
  BY <1>3 DEF Has
<1> QED
  BY <1>1, <1>3, <1>4 DEF Doomed

\* A step keeps what it has to keep ...
LEMMA KeptStep ==
  ASSUME TInv, XInv, Kept, suspect \subseteq suspect',
         suspect = {} => DeletesOnly,
         wal_index' \in Nat, wal_index <= wal_index',
         \A i \in Nat : i < wal_index /\ Has(manifest', i) => Has(manifest, i),
         \A list \in {manifest', newSegments'} :
           list \in {manifest, newSegments, <<>>} \/ Stored(list)',
         suspect' = {} /\ step' = "delete_segment" =>
           \A j \in 1..Len(todo') : \E k : k = WalKey(todo'[j]) /\ (Doomed(k) \/ Doomed(k)'),
         suspect' = {} /\ step' \in {"put_chunk", "put_new_manifest"} =>
           \A j \in 1..Len(old') : old'[j] < wal_index'
  PROVE  Kept'
<1> SUFFICES ASSUME suspect' = {}
             PROVE  /\ Stored(manifest)' /\ Stored(newSegments)'
                    /\ \A r \in delayed' : r.op = "delete" => Doomed(r.key)'
                    /\ step' = "delete_segment" =>
                         \A j \in 1..Len(todo') : Doomed(WalKey(todo[j]))'
                    /\ step' \in {"put_chunk", "put_new_manifest"} =>
                         \A j \in 1..Len(old') : old'[j] < wal_index'
  BY DEF Kept
<1>1. suspect = {} /\ DeletesOnly
  OBVIOUS
<1>2. \A list \in {manifest, newSegments} : Stored(list)'
  BY <1>1, StaysStored
<1>3. \A list \in {<<>>} : Stored(list)'
  BY DEF Stored
<1>4. \A list \in {manifest', newSegments'} : Stored(list)'
  BY <1>2, <1>3
<1>5. Stored(manifest)' /\ Stored(newSegments)'
  BY <1>4 DEF Stored
<1>6. \A k : Doomed(k) => Doomed(k)'
  BY StaysDoomed
<1>7. \A r \in delayed' : r.op = "delete" => Doomed(r.key)'
  BY <1>1, <1>6 DEF DeletesOnly
<1>8. ASSUME step' = "delete_segment", NEW j \in 1..Len(todo')
      PROVE  Doomed(WalKey(todo[j]))'
  <2>1. PICK k : k = WalKey(todo'[j]) /\ Doomed(k)'
    BY <1>6, <1>8
  <2> QED
    BY <2>1 DEF Doomed
<1> QED
  BY <1>5, <1>7, <1>8

LEMMA CleanManifest ==
  ASSUME TInv, XInv, suspect = {}
  PROVE  /\ AllClean(manifest) /\ Contiguous(manifest)
         /\ End(manifest) =
              IF step = "put_segment_manifest" THEN wal_offset + Len(data) ELSE wal_offset
<1>1. AllClean(manifest)
  BY DEF AllClean, Clean
<1> QED
  BY <1>1 DEF XInv, ManifestOK

\* ... the manifest that is uploaded is complete, ...
LEMMA ManifestStored ==
  ASSUME TInv, XInv, Kept, suspect = {}, objects' = After(Request),
         step \in {"put_segment_manifest", "put_new_manifest"}
  PROVE  /\ ManifestKey \in DOMAIN objects'
         /\ StoredList' = manifest
         /\ Contiguous(manifest)
         /\ \A j \in 1..Len(manifest) : WalKey(manifest[j].index) \in DOMAIN objects'
         /\ End(manifest) =
              IF step = "put_segment_manifest" THEN wal_offset + Len(data) ELSE wal_offset
<1>1. PICK request : request = Request
  OBVIOUS
<1>2. /\ request.op = "put" /\ request.key = ManifestKey /\ request.value = EncodedManifest
  BY <1>1, RequestOf DEF Put
<1>3. objects' = After(request) /\ request.op \in Ops
  BY <1>1, <1>2 DEF Ops
<1>4. /\ ManifestKey \in DOMAIN objects' /\ objects'[ManifestKey] = EncodedManifest
      /\ \A k \in DOMAIN objects : k # ManifestKey => k \in DOMAIN objects'
  BY <1>2, <1>3, Effect
<1>5. EncodedManifest.content = Segments(manifest)
  <2>1. <<>> \in Seq(Nat)
    OBVIOUS
  <2> QED
    BY <2>1, EncodedTyped
<1>6. StoredList' = manifest
  BY <1>4, <1>5 DEF StoredList, Segments
<1>7. Stored(manifest)
  BY DEF Kept
<1>8. PICK list \in Lists : list = manifest
  BY DEF Lists
<1>9. \A j \in 1..Len(list) : WalKey(list[j].index) \in DOMAIN objects'
  <2>1. \A j \in 1..Len(list) : list[j].index \in Nat
    BY ListsTyped
  <2> QED
    BY <1>4, <1>7, <1>8, <2>1, KeysDiffer DEF Stored
<1> QED
  BY <1>4, <1>6, <1>8, <1>9, CleanManifest

\* ... and stays so until the next one.
LEMMA NewestStep ==
  ASSUME TInv, XInv, Kept, Newest, suspect \subseteq suspect', UNCHANGED wal_offset,
         ~overtaken' => /\ ~overtaken
                        /\ objects' = objects \/ (step # "idle" /\ objects' = After(Request)),
         step' = "delete_segment" => step = "delete_segment" /\ UNCHANGED manifest
  PROVE  Newest'
<1> SUFFICES ASSUME suspect' = {}, ~overtaken', wal_offset' > 0
             PROVE  /\ ManifestKey \in DOMAIN objects'
                    /\ Contiguous(StoredList') /\ wal_offset <= End(StoredList')
                    /\ Stored(StoredList)'
                    /\ step' = "delete_segment" => StoredList' = manifest'
  BY DEF Newest, Contiguous, End
<1>1. PICK list : list = StoredList
  OBVIOUS
<1>2. /\ suspect = {} /\ ManifestKey \in DOMAIN objects
      /\ Contiguous(list) /\ wal_offset <= End(list) /\ Stored(list)
      /\ step = "delete_segment" => list = manifest
  BY <1>1 DEF Newest
<1>3. ASSUME objects'[ManifestKey] = objects[ManifestKey], ManifestKey \in DOMAIN objects',
             \A j \in 1..Len(list) : WalKey(list[j].index) \in DOMAIN objects'
      PROVE  /\ ManifestKey \in DOMAIN objects'
             /\ Contiguous(StoredList') /\ wal_offset <= End(StoredList')
             /\ Stored(StoredList)'
             /\ step' = "delete_segment" => StoredList' = manifest'
  <2>1. StoredList' = list
    BY <1>1, <1>3 DEF StoredList
  <2> QED
    BY <1>2, <1>3, <2>1 DEF Stored
<1>4. CASE objects' = objects
  BY <1>2, <1>3, <1>4 DEF Stored
<1>5. CASE step # "idle" /\ objects' = After(Request)
  <2>1. PICK request : request = Request
    OBVIOUS
  <2>2. objects' = After(request) /\ request.op \in Ops
    BY <1>5, <2>1, RequestTyped
  <2>3. /\ \A k \in DOMAIN objects' :
             \/ k \in DOMAIN objects /\ objects'[k] = objects[k]
             \/ request.op = "put" /\ k = request.key /\ objects'[k] = request.value
        /\ \A k \in DOMAIN objects :
             k # request.key => k \in DOMAIN objects' /\ objects'[k] = objects[k]
        /\ request.op = "get" => objects' = objects
        /\ request.op = "put" => request.key \in DOMAIN objects'
    BY <2>2, Effect
  <2>4. step \in Steps /\ wal_index \in Nat /\ CompactIndex \in Nat
    BY CompactBounds DEF TInv, UploadTypeOK
  <2>5. CASE step = "get_segment"
    BY <1>4, <1>5, <2>1, <2>3, <2>5, RequestOf DEF Get
  <2>6. CASE step \in {"put_segment", "put_chunk"}
    <3>1. request.op = "put" /\ request.key # ManifestKey
      BY <2>1, <2>4, <2>6, RequestOf, KeysDiffer DEF Put
    <3>2. \A k \in DOMAIN objects : k \in DOMAIN objects'
      BY <2>3, <3>1
    <3>3. objects'[ManifestKey] = objects[ManifestKey] /\ ManifestKey \in DOMAIN objects'
      BY <1>2, <2>3, <3>1
    <3> QED
      BY <1>2, <1>3, <3>2, <3>3 DEF Stored
  <2>7. CASE step \in {"put_segment_manifest", "put_new_manifest"}
    <3>1. /\ ManifestKey \in DOMAIN objects'
          /\ StoredList' = manifest
          /\ Contiguous(manifest)
          /\ \A j \in 1..Len(manifest) : WalKey(manifest[j].index) \in DOMAIN objects'
          /\ End(manifest) =
               IF step = "put_segment_manifest" THEN wal_offset + Len(data) ELSE wal_offset
      BY <1>2, <1>5, <2>7, ManifestStored
    <3>2. wal_offset \in Nat /\ Len(data) \in Nat
      BY DEF TInv, UploadTypeOK, Buffers
    <3>3. wal_offset <= End(manifest)
      BY <3>1, <3>2
    <3>4. step' # "delete_segment"
      BY <2>7
    <3>6. Stored(StoredList)'
      BY <3>1 DEF Stored
    <3> QED
      BY <3>1, <3>3, <3>4, <3>6
  <2>8. CASE step = "delete_segment"
    <3>1. request.key = WalKey(Head(todo)) /\ Head(todo) = todo[1] /\ 1 \in 1..Len(todo)
      BY <2>1, <2>8, RequestOf DEF Delete, TInv, Buffers
    <3>2. PICK i \in Nat : request.key = WalKey(i) /\ ~Has(manifest, i)
      BY <1>2, <2>8, <3>1 DEF Kept, Doomed
    <3>3. ManifestKey \in DOMAIN objects' /\ objects'[ManifestKey] = objects[ManifestKey]
      BY <1>2, <2>3, <3>2, KeysDiffer
    <3>4. ASSUME NEW j \in 1..Len(list) PROVE WalKey(list[j].index) \in DOMAIN objects'
      <4>1. list = manifest /\ list[j].index \in Nat
        BY <1>2, <2>8, ListsTyped DEF Lists
      <4>2. list[j].index # i
        BY <3>2, <4>1 DEF Has
      <4>3. WalKey(list[j].index) # request.key
        BY <3>2, <4>1, <4>2, KeysDiffer
      <4>4. WalKey(list[j].index) \in DOMAIN objects
        BY <1>2 DEF Stored
      <4> QED
        BY <2>3, <4>3, <4>4
    <3> QED
      BY <1>3, <3>3, <3>4
  <2> QED
    BY <1>5, <2>4, <2>5, <2>6, <2>7, <2>8 DEF Steps
<1> QED
  BY <1>4, <1>5

\* The requests of a call keep to that.
LEMMA RequestEffect ==
  ASSUME TInv, step # "idle", NEW result, Attempt(Request, result)
  PROVE  objects' = objects \/ objects' = After(Request)
<1>1. PICK request : request = Request
  OBVIOUS
<1>2. request.op \in Ops /\ Attempt(request, result)
  BY <1>1, RequestTyped
<1> QED
  BY <1>1, <1>2, AttemptMay

-----------------------------------------------------------------------------
(* Manifests end with a frame. *)

LEMMA Larger ==
  ASSUME NEW k \in Nat, NEW F \in Nat \ {0}
  PROVE  k * F \in Nat /\ k <= k * F
BY Z3

LEMMA IsFrameEnd ==
  ASSUME NEW offset \in Nat, OnFrameEnd(offset), offset # 0, offset <= MaxLen
  PROVE  offset \in FrameEnds
<1>1. PICK k \in Nat : offset = FrameEnd(k, PageSize)
  BY DEF OnFrameEnd
<1>2. PICK F \in Nat \ {0} : F = WAL_FRAME_HEADER_SIZE + PageSize
  BY SizesAssumption, UploadAssumption
<1>3. offset = WAL_HEADER_SIZE + k * F
  BY <1>1, <1>2 DEF FrameEnd
<1>4. k * F \in Nat /\ k <= k * F
  BY Larger
<1>5. k \in 0..MaxLen
  BY <1>3, <1>4, SizesAssumption, UploadAssumption
<1> QED
  BY <1>1, <1>5 DEF FrameEnds

LEMMA ManifestEnds ==
  ASSUME TInv, XInv, SyncInv, Begun, suspect = {},
         step \in {"put_segment_manifest", "put_new_manifest"}
  PROVE  /\ manifest # <<>>
         /\ End(manifest) \in FrameEnds
         /\ 1 <= End(manifest) /\ End(manifest) <= walLen
<1>1. /\ wal_offset \in Nat /\ walLen \in Nat /\ wal_offset <= walLen /\ walLen <= MaxLen
      /\ data \in Seq(Nat) /\ Len(data) \in Nat
  BY UploadAssumption DEF TInv, UploadTypeOK, Buffers
<1>2. CASE step = "put_segment_manifest"
  <2>1. End(manifest) = wal_offset + Len(data) /\ wal_offset + Len(data) <= walLen
    BY <1>2, CleanManifest DEF TInv, Buffers
  <2>2. Len(data) # 0 /\ OnFrameEnd(wal_offset + Len(data)) /\ manifest # <<>>
    BY <1>1, <1>2 DEF Begun, SyncInv, XInv, ManifestOK
  <2>3. PICK offset \in Nat : offset = wal_offset + Len(data)
    BY <1>1
  <2>4. offset # 0 /\ offset <= MaxLen /\ OnFrameEnd(offset) /\ 1 <= offset
    BY <1>1, <2>1, <2>2, <2>3, UploadAssumption
  <2>5. offset \in FrameEnds
    BY <2>4, IsFrameEnd
  <2> QED
    BY <2>1, <2>2, <2>3, <2>4, <2>5
<1>3. CASE step = "put_new_manifest"
  <2>1. End(manifest) = wal_offset
    BY <1>3, CleanManifest
  <2>2. wal_offset # 0 /\ OnFrameEnd(wal_offset) /\ manifest # <<>>
    BY <1>3 DEF Begun, SyncInv, XInv, Chunks
  <2>3. wal_offset \in FrameEnds
    BY <1>1, <2>2, IsFrameEnd, UploadAssumption
  <2> QED
    BY <1>1, <2>1, <2>2, <2>3
<1> QED
  BY <1>2, <1>3

LEMMA EndsStep ==
  ASSUME TInv, XInv, SyncInv, Begun, Ends, suspect \subseteq suspect',
         walLen' \in Nat, walLen <= walLen',
         \A v \in Sent(ManifestKey)' :
           \/ v \in Sent(ManifestKey)
           \/ /\ step \in {"put_segment_manifest", "put_new_manifest"}
              /\ v.content.segments = manifest
  PROVE  Ends'
<1> SUFFICES ASSUME suspect' = {}, NEW v \in Sent(ManifestKey)'
             PROVE  /\ v.content.segments # <<>>
                    /\ End(v.content.segments) \in FrameEnds
                    /\ 1 <= End(v.content.segments) /\ End(v.content.segments) <= walLen'
  BY DEF Ends, End, FrameEnds
<1>1. suspect = {}
  OBVIOUS
<1>2. PICK list : list = v.content.segments
  OBVIOUS
<1>3. list # <<>> /\ End(list) \in FrameEnds /\ 1 <= End(list) /\ End(list) <= walLen
  <2>1. CASE v \in Sent(ManifestKey)
    BY <1>1, <1>2, <2>1 DEF Ends
  <2>2. CASE v \notin Sent(ManifestKey)
    BY <1>1, <1>2, <2>2, ManifestEnds
  <2> QED
    BY <2>1, <2>2
<1>4. PICK end : end = End(list)
  OBVIOUS
<1>5. FrameEnds \subseteq Nat
  <2>1. ASSUME NEW k \in 0..MaxLen PROVE FrameEnd(k, PageSize) \in Nat
    <3>1. PICK F \in Nat \ {0} : F = WAL_FRAME_HEADER_SIZE + PageSize
      BY SizesAssumption, UploadAssumption
    <3>2. k * F \in Nat
      BY <3>1, Larger, UploadAssumption
    <3> QED
      BY <3>1, <3>2, SizesAssumption DEF FrameEnd
  <2> QED
    BY <2>1 DEF FrameEnds
<1>6. end \in Nat /\ walLen \in Nat
  BY <1>3, <1>4, <1>5 DEF SyncInv
<1>7. end <= walLen'
  BY <1>3, <1>4, <1>6
<1> QED
  BY <1>2, <1>3, <1>4, <1>7

\* What every request of a call does.
LEMMA DRequest ==
  ASSUME TInv, XInv, SyncInv, DInv, step # "idle", NEW result, Attempt(Request, result),
         suspect \subseteq suspect', UNCHANGED walLen
  PROVE  /\ suspect = {} => DeletesOnly
         /\ objects' = objects \/ objects' = After(Request)
         /\ Ends'
<1>1. walLen' \in Nat /\ walLen <= walLen'
  BY DEF SyncInv
<1>2. suspect = {} => DeletesOnly
  BY RequestDeletes DEF DInv
<1>3. Ends'
  BY <1>1, SentList, EndsStep DEF DInv
<1> QED
  BY <1>2, <1>3, RequestEffect

\* What a step that sends nothing does.
LEMMA DQuiet ==
  ASSUME TInv, XInv, SyncInv, DInv, UNCHANGED <<clientVars, walLen, suspect>>
  PROVE  /\ suspect = {} => DeletesOnly
         /\ objects' = objects
         /\ Ends'
<1>1. walLen' \in Nat /\ walLen <= walLen'
  BY DEF SyncInv
<1>2. suspect = {} => DeletesOnly
  BY NothingDeleted DEF DInv
<1>3. Ends'
  BY <1>1, SameSent, EndsStep DEF DInv
<1> QED
  BY <1>2, <1>3 DEF clientVars

\* Nothing changes but the store and the file.
LEMMA DSame ==
  ASSUME TInv, XInv, DInv, Ends', suspect = {} => DeletesOnly,
         UNCHANGED <<wal_offset, wal_index, manifest, step, data, old, todo, newSegments, suspect>>,
         ~overtaken' => /\ ~overtaken
                        /\ objects' = objects \/ (step # "idle" /\ objects' = After(Request))
  PROVE  DInv'
<1>1. wal_index' \in Nat /\ wal_index <= wal_index'
  BY DEF TInv, UploadTypeOK
<1>2. Kept'
  <2>1. /\ suspect' = {} /\ step' = "delete_segment" =>
             \A j \in 1..Len(todo') : \E k : k = WalKey(todo'[j]) /\ (Doomed(k) \/ Doomed(k)')
        /\ suspect' = {} /\ step' \in {"put_chunk", "put_new_manifest"} =>
             \A j \in 1..Len(old') : old'[j] < wal_index'
    BY DEF DInv, Kept
  <2>2. /\ \A i \in Nat : i < wal_index /\ Has(manifest', i) => Has(manifest, i)
        /\ \A list \in {manifest', newSegments'} : list \in {manifest, newSegments, <<>>}
        /\ suspect \subseteq suspect'
    OBVIOUS
  <2> QED
    BY <1>1, <2>1, <2>2, KeptStep DEF DInv
<1>3. Begun'
  BY DEF DInv, Begun
<1>4. Newest'
  BY NewestStep DEF DInv
<1> QED
  BY <1>2, <1>3, <1>4 DEF DInv

DAll == TInv /\ XInv /\ SyncInv /\ DInv

LEMMA DRetry == DAll /\ Retry => DInv'
<1> SUFFICES ASSUME DAll, Retry PROVE DInv'
  OBVIOUS
<1>1. /\ step # "idle" /\ Attempt(Request, "retry")
      /\ UNCHANGED <<walLen, wal_offset, wal_index, manifest, step, data, old, todo,
                     newSegments, suspect, overtaken>>
  BY DEF Retry, managerVars, history
<1>2. /\ suspect = {} => DeletesOnly
      /\ objects' = objects \/ objects' = After(Request)
      /\ Ends'
  BY <1>1, DRequest DEF DAll
<1> QED
  BY <1>1, <1>2, DSame DEF DAll

LEMMA DWriteWal == DAll /\ WriteWal => DInv'
<1> SUFFICES ASSUME DAll, WriteWal PROVE DInv'
  OBVIOUS
<1>1. UNCHANGED <<clientVars, wal_offset, wal_index, manifest, step, data, old, todo,
                  newSegments, suspect, overtaken>>
  BY DEF WriteWal, managerVars, history
<1>2. walLen' \in Nat /\ walLen <= walLen'
  BY SizesAssumption, UploadAssumption DEF WriteWal, DAll, SyncInv
<1>3. Ends'
  BY <1>1, <1>2, SameSent, EndsStep DEF DAll, DInv
<1>4. suspect = {} => DeletesOnly
  BY <1>1, NothingDeleted DEF DAll, DInv
<1> QED
  BY <1>1, <1>3, <1>4, DSame DEF DAll, clientVars

LEMMA DLandLate == DAll /\ LandLate => DInv'
<1> SUFFICES ASSUME DAll, LandLate PROVE DInv'
  OBVIOUS
<1>1. UNCHANGED <<walLen, wal_offset, wal_index, manifest, step, data, old, todo,
                  newSegments, suspect>>
  BY DEF LandLate, managerVars
<1>2. PICK request \in delayed :
        /\ Land(request)
        /\ overtaken' = (overtaken \/ (objects' # objects
                                      /\ (step = "idle" \/ request # Request)))
  BY DEF LandLate
<1>3. request.op \in Ops
  BY DEF DAll, TInv, UploadTypeOK, Ops
<1>4. objects' = After(request) /\ \A k : Sent(k)' \subseteq Sent(k)
  BY <1>2, <1>3, LandMay
<1>5. suspect = {} => DeletesOnly
  BY <1>2, LandDeletes DEF DAll, DInv
<1>6. walLen' \in Nat /\ walLen <= walLen'
  BY <1>1 DEF DAll, SyncInv
<1>7. Ends'
  BY <1>1, <1>4, <1>6, EndsStep DEF DAll, DInv
<1>8. ASSUME ~overtaken'
      PROVE  ~overtaken /\ (objects' = objects \/ (step # "idle" /\ objects' = After(Request)))
  <2>1. ~overtaken /\ (objects' = objects \/ (step # "idle" /\ request = Request))
    BY <1>2, <1>8
  <2> QED
    BY <1>4, <2>1
<1> QED
  BY <1>1, <1>5, <1>7, <1>8, DSame DEF DAll

LEMMA DStutter == DAll /\ UNCHANGED vars => DInv'
<1> SUFFICES ASSUME DAll, UNCHANGED vars PROVE DInv'
  OBVIOUS
<1>1. UNCHANGED <<clientVars, walLen, wal_offset, wal_index, manifest, step, data, old, todo,
                  newSegments, suspect, overtaken>>
  BY DEF vars, managerVars, history
<1>2. (suspect = {} => DeletesOnly) /\ objects' = objects /\ Ends'
  BY <1>1, DQuiet DEF DAll
<1> QED
  BY <1>1, <1>2, DSame DEF DAll

LEMMA DSyncWal == DAll /\ SyncWal => DInv'
<1> SUFFICES ASSUME DAll, SyncWal PROVE DInv'
  OBVIOUS
<1>1. /\ step = "idle" /\ step' = "put_segment"
      /\ UNCHANGED <<clientVars, walLen, wal_offset, wal_index, manifest, newSegments,
                     suspect, overtaken>>
  BY DEF SyncWal, history
<1>2. (suspect = {} => DeletesOnly) /\ objects' = objects /\ Ends'
  BY <1>1, DQuiet DEF DAll
<1>3. wal_index' \in Nat /\ wal_index <= wal_index'
  BY <1>1 DEF DAll, TInv, UploadTypeOK
<1>4. Kept'
  BY <1>1, <1>2, <1>3, KeptStep DEF DAll, DInv
<1>5. data' # <<>>
  <2>1. walLen \in Nat /\ wal_offset \in Nat
    BY DEF DAll, SyncInv
  <2>2. PICK len \in Nat : wal_offset < len /\ Len(data') = len - wal_offset
    BY <2>1, Reads
  <2>3. Len(data') # 0
    BY <2>1, <2>2
  <2> QED
    BY <2>3
<1>6. Begun'
  BY <1>1, <1>5 DEF DAll, DInv, Begun
<1>7. Newest'
  BY <1>1, <1>2, NewestStep DEF DAll, DInv
<1> QED
  BY <1>2, <1>4, <1>6, <1>7 DEF DInv

LEMMA DCompact == DAll /\ Compact => DInv'
<1> SUFFICES ASSUME DAll, Compact PROVE DInv'
  OBVIOUS
<1>1. /\ step = "idle" /\ step' = "get_segment" /\ Len(manifest) > 1
      /\ UNCHANGED <<clientVars, walLen, wal_offset, wal_index, manifest, data, newSegments,
                     suspect, overtaken>>
  BY DEF Compact, history
<1>2. (suspect = {} => DeletesOnly) /\ objects' = objects /\ Ends'
  BY <1>1, DQuiet DEF DAll
<1>3. wal_index' \in Nat /\ wal_index <= wal_index'
  BY <1>1 DEF DAll, TInv, UploadTypeOK
<1>4. Kept'
  BY <1>1, <1>2, <1>3, KeptStep DEF DAll, DInv
<1>5. manifest # <<>>
  BY <1>1 DEF DAll, TInv, Buffers
<1>6. Begun'
  BY <1>1, <1>5 DEF DAll, DInv, Begun
<1>7. Newest'
  BY <1>1, <1>2, NewestStep DEF DAll, DInv
<1> QED
  BY <1>2, <1>4, <1>6, <1>7 DEF DInv

\* A call that fails while it uploads leaves its indexes suspect.
LEMMA DCallFails == DAll /\ CallFails => DInv'
<1> SUFFICES ASSUME DAll, CallFails PROVE DInv'
  OBVIOUS
<1>1. /\ step # "idle" /\ Attempt(Request, "err") /\ Return
      /\ suspect' = suspect \cup
           CASE step \in {"put_segment", "put_segment_manifest"} -> {WalKey(wal_index)}
             [] step \in {"put_chunk", "put_new_manifest"} ->
                  {WalKey(i) : i \in wal_index..CompactIndex}
             [] OTHER -> {}
      /\ UNCHANGED <<walLen, wal_offset, wal_index, manifest, overtaken>>
  BY DEF CallFails
<1>2. step' = "idle" /\ newSegments' = <<>>
  BY <1>1 DEF Return
<1>3. suspect \subseteq suspect'
  BY <1>1
<1>4. (suspect = {} => DeletesOnly) /\ (objects' = objects \/ objects' = After(Request)) /\ Ends'
  BY <1>1, <1>3, DRequest DEF DAll
<1>5. wal_index' \in Nat /\ wal_index <= wal_index'
  BY <1>1 DEF DAll, TInv, UploadTypeOK
<1>6. Kept'
  BY <1>1, <1>2, <1>3, <1>4, <1>5, KeptStep DEF DAll, DInv
<1>7. suspect' = {} => step \notin {"put_segment", "put_segment_manifest"}
  BY <1>1
<1>8. Begun'
  BY <1>1, <1>2, <1>3, <1>7 DEF DAll, DInv, Begun
<1>9. Newest'
  BY <1>1, <1>2, <1>3, <1>4, NewestStep DEF DAll, DInv
<1> QED
  BY <1>4, <1>6, <1>8, <1>9 DEF DInv

LEMMA DPutSegment == DAll /\ PutSegment => DInv'
<1> SUFFICES ASSUME DAll, PutSegment PROVE DInv'
  OBVIOUS
<1>1. /\ step = "put_segment" /\ step' = "put_segment_manifest"
      /\ Attempt(Request, "ok")
      /\ manifest' = Append(manifest, SegmentMeta(wal_index, wal_offset, Len(data)))
      /\ UNCHANGED <<walLen, wal_offset, wal_index, data, newSegments, suspect, overtaken>>
  BY DEF PutSegment, Succeeds, history
<1>2. (suspect = {} => DeletesOnly) /\ (objects' = objects \/ objects' = After(Request)) /\ Ends'
  BY <1>1, DRequest DEF DAll
<1>3. wal_index \in Nat /\ wal_offset \in Nat /\ manifest \in Seq(SegmentMetas)
      /\ data \in Seq(Nat)
  BY <1>1, UploadAssumption DEF DAll, TInv, UploadTypeOK, Buffers
<1>4. PICK meta \in SegmentMetas : meta = SegmentMeta(wal_index, wal_offset, Len(data))
  <2>1. SegmentMeta(wal_index, wal_offset, Len(data)) \in SegmentMetas
    BY <1>3 DEF SegmentMeta, SegmentMetas
  <2> QED
    BY <2>1
<1>5. PICK list \in Seq(SegmentMetas) : list = manifest'
  BY <1>1, <1>3, <1>4, AppendProperties
<1>6. /\ Len(manifest) \in Nat /\ Len(list) = Len(manifest) + 1
      /\ \A j \in 1..Len(manifest) : list[j] = manifest[j]
      /\ list[Len(manifest) + 1].index = wal_index
  BY <1>1, <1>3, <1>4, <1>5, AppendProperties DEF SegmentMeta
<1>7. ASSUME NEW i \in Nat, i < wal_index, Has(manifest', i) PROVE Has(manifest, i)
  <2>1. PICK j \in 1..Len(list) : list[j].index = i
    BY <1>5, <1>7 DEF Has
  <2>2. j # Len(manifest) + 1
    BY <1>3, <1>6, <1>7, <2>1
  <2>3. j \in 1..Len(manifest)
    BY <1>6, <2>1, <2>2
  <2> QED
    BY <1>6, <2>1, <2>3 DEF Has
<1>8. WalKey(wal_index) \in DOMAIN objects'
  <2>1. PICK request : request = Request
    OBVIOUS
  <2>2. request.op = "put" /\ request.key = WalKey(wal_index) /\ request.op \in Ops
    BY <1>1, <2>1, RequestOf DEF Put, Ops
  <2>3. objects' = After(request)
    BY <1>1, <2>1, <2>2, AttemptMay
  <2> QED
    BY <2>2, <2>3, Effect
<1>9. suspect' = {} => Stored(list)'
  <2>1. SUFFICES ASSUME suspect = {}, NEW j \in 1..Len(list)
                 PROVE  WalKey(list[j].index) \in DOMAIN objects'
    BY <1>1 DEF Stored
  <2>2. PICK before \in {manifest, newSegments} : before = manifest
    OBVIOUS
  <2>3. Stored(before)'
    BY <1>2, <2>1, StaysStored DEF DAll, DInv
  <2>4. CASE j \in 1..Len(manifest)
    BY <1>6, <2>2, <2>3, <2>4 DEF Stored
  <2>5. CASE j = Len(manifest) + 1
    BY <1>6, <1>8, <2>5
  <2> QED
    BY <1>6, <2>1, <2>4, <2>5
<1>10. Kept'
  <2>1. SUFFICES ASSUME suspect' = {} PROVE Kept'
    BY DEF Kept
  <2>2. \A l \in {manifest', newSegments'} : l \in {manifest, newSegments, <<>>} \/ Stored(l)'
    BY <1>1, <1>5, <1>9, <2>1
  <2>3. wal_index' \in Nat /\ wal_index <= wal_index' /\ suspect \subseteq suspect'
    BY <1>1, <1>3
  <2> QED
    BY <1>1, <1>2, <1>7, <2>2, <2>3, KeptStep DEF DAll, DInv
<1>11. Begun'
  BY <1>1 DEF DAll, DInv, Begun
<1>12. Newest'
  BY <1>1, <1>2, NewestStep DEF DAll, DInv
<1> QED
  BY <1>2, <1>10, <1>11, <1>12 DEF DInv

LEMMA DPutSegmentManifest == DAll /\ PutSegmentManifest => DInv'
<1> SUFFICES ASSUME DAll, PutSegmentManifest PROVE DInv'
  OBVIOUS
<1>1. /\ step = "put_segment_manifest" /\ step' = "idle" /\ newSegments' = <<>>
      /\ Attempt(Request, "ok")
      /\ wal_offset' = wal_offset + Len(data) /\ wal_index' = wal_index + 1
      /\ UNCHANGED <<walLen, manifest, suspect>>
  BY DEF PutSegmentManifest, Succeeds, Return
<1>2. (suspect = {} => DeletesOnly) /\ Ends'
  BY <1>1, DRequest DEF DAll
<1>3. objects' = After(Request)
  BY <1>1, RequestTyped, AttemptMay DEF DAll
<1>4. wal_index \in Nat /\ wal_offset \in Nat /\ data \in Seq(Nat) /\ Len(data) # 0
      /\ Len(data) \in Nat
  BY <1>1 DEF DAll, SyncInv, TInv, UploadTypeOK, Buffers, DInv, Begun
<1>5. Kept'
  <2>1. wal_index' \in Nat /\ wal_index <= wal_index'
    BY <1>1, <1>4
  <2> QED
    BY <1>1, <1>2, <2>1, KeptStep DEF DAll, DInv
<1>6. Begun'
  BY <1>1, <1>4 DEF Begun
<1>7. Newest'
  <2>1. SUFFICES ASSUME suspect = {}
                 PROVE  /\ ManifestKey \in DOMAIN objects'
                        /\ Contiguous(StoredList)' /\ wal_offset' <= End(StoredList)'
                        /\ Stored(StoredList)'
    BY <1>1 DEF Newest
  <2>2. /\ ManifestKey \in DOMAIN objects' /\ StoredList' = manifest /\ Contiguous(manifest)
        /\ \A j \in 1..Len(manifest) : WalKey(manifest[j].index) \in DOMAIN objects'
        /\ End(manifest) = wal_offset + Len(data)
    BY <1>1, <1>3, <2>1, ManifestStored DEF DAll, DInv
  <2>3. PICK end \in Nat : end = wal_offset + Len(data)
    BY <1>4
  <2> QED
    BY <1>1, <2>2, <2>3 DEF Stored, Contiguous, End
<1> QED
  BY <1>2, <1>5, <1>6, <1>7 DEF DInv

LEMMA DGetSegment == DAll /\ GetSegment => DInv'
<1> SUFFICES ASSUME DAll, GetSegment PROVE DInv'
  OBVIOUS
<1>1. /\ step = "get_segment" /\ Attempt(Request, "ok")
      /\ UNCHANGED <<walLen, wal_offset, wal_index, manifest, suspect, overtaken>>
  BY DEF GetSegment, Succeeds, history
<1>2. /\ step' \in {"idle", "get_segment", "put_chunk"} /\ newSegments' = <<>>
      /\ step' = "put_chunk" => UNCHANGED old
  BY <1>1 DEF GetSegment, Return, DAll, TInv, Buffers
<1>3. (suspect = {} => DeletesOnly) /\ (objects' = objects \/ objects' = After(Request)) /\ Ends'
  BY <1>1, DRequest DEF DAll
<1>4. ASSUME suspect = {}, step' = "put_chunk", NEW j \in 1..Len(old') PROVE old'[j] < wal_index'
  <2>1. old' = old /\ wal_index' = wal_index
    BY <1>1, <1>2, <1>4
  <2>2. j \in 1..Len(manifest) /\ old[j] = manifest[j].index
    BY <1>1, <1>4, <2>1 DEF DAll, XInv, Downloaded
  <2>3. PICK list \in Lists : list = manifest
    BY DEF Lists
  <2>4. Described(list[j]) /\ list[j].index \in Nat
    BY <2>2, <2>3, ListsTyped DEF DAll, XInv, AllDescribed
  <2>5. list[j].index < Reserved
    BY <1>4, <2>4 DEF Described, Clean
  <2>6. Reserved = wal_index
    BY <1>1, ReservedIs DEF DAll
  <2> QED
    BY <2>1, <2>2, <2>3, <2>5, <2>6
<1>5. wal_index' \in Nat /\ wal_index <= wal_index'
  BY <1>1 DEF DAll, TInv, UploadTypeOK
<1>6. Kept'
  BY <1>1, <1>2, <1>3, <1>4, <1>5, KeptStep DEF DAll, DInv
<1>7. Begun'
  BY <1>1, <1>2 DEF DAll, DInv, Begun
<1>8. Newest'
  BY <1>1, <1>2, <1>3, NewestStep DEF DAll, DInv
<1> QED
  BY <1>3, <1>6, <1>7, <1>8 DEF DInv

LEMMA DPutChunk == DAll /\ PutChunk => DInv'
<1> SUFFICES ASSUME DAll, PutChunk PROVE DInv'
  OBVIOUS
<1>1. /\ step = "put_chunk" /\ Attempt(Request, "ok")
      /\ step' \in {"put_chunk", "put_new_manifest"}
      /\ manifest' \in {manifest, newSegments'}
      /\ suspect \subseteq suspect'
      /\ UNCHANGED <<walLen, wal_offset, wal_index, data, old, todo, overtaken>>
  BY DEF PutChunk, Succeeds
<1>2. (suspect = {} => DeletesOnly) /\ (objects' = objects \/ objects' = After(Request)) /\ Ends'
  BY <1>1, DRequest DEF DAll
<1>3. PICK list \in Seq(SegmentMetas) : list = newSegments'
  BY NextChunk DEF DAll
<1>4. PICK index \in Nat : index = CompactIndex
  BY CompactBounds DEF DAll
<1>5. /\ Len(list) = Len(newSegments) + 1 /\ Len(newSegments) \in Nat
      /\ \A j \in 1..Len(newSegments) : list[j] = newSegments[j]
      /\ list[Len(newSegments) + 1].index = index
  <2>1. newSegments \in Seq(SegmentMetas)
    BY DEF DAll, TInv, Buffers
  <2> QED
    BY <1>3, <1>4, <2>1, NextChunk DEF DAll, SegmentMeta
<1>6. wal_index \in Nat /\ \A j \in 1..Len(list) : list[j].index = wal_index + j - 1
  <2>1. Chunks'
    BY XPutChunk DEF DAll, XInv
  <2> QED
    BY <1>1, <1>3, <2>1 DEF Chunks, DAll, TInv, UploadTypeOK
<1>7. ASSUME NEW i \in Nat, i < wal_index, Has(manifest', i) PROVE Has(manifest, i)
  <2>1. ~Has(list, i)
    <3>1. ASSUME NEW j \in 1..Len(list) PROVE list[j].index # i
      BY <1>3, <1>6, <1>7
    <3> QED
      BY <3>1 DEF Has
  <2> QED
    BY <1>1, <1>3, <1>7, <2>1
<1>8. WalKey(index) \in DOMAIN objects'
  <2>1. PICK request : request = Request
    OBVIOUS
  <2>2. request.op = "put" /\ request.key = WalKey(index) /\ request.op \in Ops
    BY <1>1, <1>4, <2>1, RequestOf DEF Put, Ops
  <2>3. objects' = After(request)
    BY <1>1, <2>1, <2>2, AttemptMay
  <2> QED
    BY <2>2, <2>3, Effect
<1>9. suspect' = {} => Stored(list)'
  <2>1. SUFFICES ASSUME suspect = {}, NEW j \in 1..Len(list)
                 PROVE  WalKey(list[j].index) \in DOMAIN objects'
    BY <1>1 DEF Stored
  <2>2. PICK before \in {manifest, newSegments} : before = newSegments
    OBVIOUS
  <2>3. Stored(before)'
    BY <1>2, <2>1, StaysStored DEF DAll, DInv
  <2>4. CASE j \in 1..Len(newSegments)
    BY <1>5, <2>2, <2>3, <2>4 DEF Stored
  <2>5. CASE j = Len(newSegments) + 1
    BY <1>5, <1>8, <2>5
  <2> QED
    BY <1>5, <2>1, <2>4, <2>5
<1>10. Kept'
  <2>1. SUFFICES ASSUME suspect' = {} PROVE Kept'
    BY DEF Kept
  <2>2. \A l \in {manifest', newSegments'} : l \in {manifest, newSegments, <<>>} \/ Stored(l)'
    BY <1>1, <1>3, <1>9, <2>1
  <2>3. wal_index' \in Nat /\ wal_index <= wal_index'
    BY <1>1, <1>6
  <2>4. suspect = {}
    BY <1>1, <2>1
  <2>5. \A j \in 1..Len(old') : old'[j] < wal_index'
    BY <1>1, <2>4 DEF DAll, DInv, Kept
  <2> QED
    BY <1>1, <1>2, <1>7, <2>2, <2>3, <2>5, KeptStep DEF DAll, DInv
<1>11. Begun'
  <2>1. ~(suspect = {} /\ wal_offset = 0)
    BY <1>1 DEF DAll, DInv, Begun
  <2> QED
    BY <1>1, <2>1 DEF Begun
<1>12. Newest'
  BY <1>1, <1>2, NewestStep DEF DAll, DInv
<1> QED
  BY <1>2, <1>10, <1>11, <1>12 DEF DInv

LEMMA DPutNewManifest == DAll /\ PutNewManifest => DInv'
<1> SUFFICES ASSUME DAll, PutNewManifest PROVE DInv'
  OBVIOUS
<1>1. /\ step = "put_new_manifest" /\ Attempt(Request, "ok")
      /\ wal_index' = CompactIndex /\ step' = "delete_segment" /\ todo' = old
      /\ newSegments' = <<>>
      /\ UNCHANGED <<walLen, wal_offset, manifest, old, suspect>>
  BY DEF PutNewManifest, Succeeds
<1>2. (suspect = {} => DeletesOnly) /\ Ends'
  BY <1>1, DRequest DEF DAll
<1>3. objects' = After(Request)
  BY <1>1, RequestTyped, AttemptMay DEF DAll
<1>4. /\ wal_index \in Nat /\ CompactIndex \in Nat /\ wal_index <= CompactIndex
      /\ old \in Seq(Nat) /\ manifest \in Seq(SegmentMetas)
  <2>1. newSegments \in Seq(SegmentMetas) /\ wal_index \in Nat
    BY DEF DAll, TInv, UploadTypeOK, Buffers
  <2> QED
    BY <2>1 DEF CompactIndex, DAll, TInv, Buffers
<1>5. \A j \in 1..Len(manifest) : manifest[j].index = wal_index + j - 1
  BY <1>1 DEF DAll, XInv, Chunks
<1>6. ASSUME suspect = {}, NEW j \in 1..Len(old) PROVE Doomed(WalKey(old[j]))
  <2>1. old[j] \in Nat /\ old[j] < wal_index
    BY <1>1, <1>4, <1>6 DEF DAll, DInv, Kept
  <2>2. ~Has(manifest, old[j])
    <3>1. ASSUME NEW l \in 1..Len(manifest) PROVE manifest[l].index # old[j]
      BY <1>4, <1>5, <2>1
    <3> QED
      BY <3>1 DEF Has
  <2> QED
    BY <2>1, <2>2 DEF Doomed
<1>7. Kept'
  <2>1. \A j \in 1..Len(todo') : suspect' = {} =>
          \E k : k = WalKey(todo'[j]) /\ (Doomed(k) \/ Doomed(k)')
    BY <1>1, <1>6
  <2>2. wal_index' \in Nat /\ wal_index <= wal_index'
    BY <1>1, <1>4
  <2> QED
    BY <1>1, <1>2, <2>1, <2>2, KeptStep DEF DAll, DInv
<1>8. Begun'
  BY <1>1 DEF DAll, DInv, Begun
<1>9. Newest'
  <2>1. SUFFICES ASSUME suspect = {}
                 PROVE  /\ ManifestKey \in DOMAIN objects'
                        /\ Contiguous(StoredList)' /\ wal_offset' <= End(StoredList)'
                        /\ Stored(StoredList)' /\ StoredList' = manifest'
    BY <1>1 DEF Newest
  <2>2. /\ ManifestKey \in DOMAIN objects' /\ StoredList' = manifest /\ Contiguous(manifest)
        /\ \A j \in 1..Len(manifest) : WalKey(manifest[j].index) \in DOMAIN objects'
        /\ End(manifest) = wal_offset
    BY <1>1, <1>3, <2>1, ManifestStored DEF DAll, DInv
  <2>3. wal_offset \in Nat /\ wal_offset <= wal_offset
    BY DEF DAll, SyncInv
  <2> QED
    BY <1>1, <2>2, <2>3 DEF Stored, Contiguous, End
<1> QED
  BY <1>2, <1>7, <1>8, <1>9 DEF DInv

LEMMA DDeleteSegment == DAll /\ DeleteSegment => DInv'
<1> SUFFICES ASSUME DAll, DeleteSegment PROVE DInv'
  OBVIOUS
<1>1. /\ step = "delete_segment" /\ Attempt(Request, "ok")
      /\ newSegments = <<>> /\ newSegments' = <<>>
      /\ \/ step' = "idle"
         \/ /\ step' = "delete_segment" /\ Len(todo) > 1 /\ todo' = Tail(todo)
      /\ UNCHANGED <<walLen, wal_offset, wal_index, manifest, suspect, overtaken>>
  BY DEF DeleteSegment, Succeeds, Return, history, DAll, TInv, Buffers
<1>2. (suspect = {} => DeletesOnly) /\ (objects' = objects \/ objects' = After(Request)) /\ Ends'
  BY <1>1, DRequest DEF DAll
<1>3. wal_index' \in Nat /\ wal_index <= wal_index'
  BY <1>1 DEF DAll, TInv, UploadTypeOK
<1>4. ASSUME suspect = {}, step' = "delete_segment", NEW j \in 1..Len(todo')
      PROVE  Doomed(WalKey(todo'[j]))
  <2>1. todo \in Seq(Nat) /\ todo # <<>> /\ todo' = Tail(todo) /\ Len(todo) \in Nat
    BY <1>1, <1>4 DEF DAll, TInv, Buffers
  <2>2. PICK rest \in Seq(Nat) : rest = Tail(todo)
    BY <2>1, HeadTailProperties
  <2>3. Len(rest) = Len(todo) - 1 /\ \A l \in 1..Len(rest) : rest[l] = todo[l + 1]
    BY <2>1, <2>2, HeadTailProperties
  <2>4. j \in 1..Len(rest) /\ todo'[j] = rest[j]
    BY <1>4, <2>1, <2>2
  <2>5. j + 1 \in 1..Len(todo) /\ rest[j] = todo[j + 1]
    BY <2>1, <2>3, <2>4
  <2> QED
    BY <1>1, <1>4, <2>4, <2>5 DEF DAll, DInv, Kept
<1>5. Kept'
  BY <1>1, <1>2, <1>3, <1>4, KeptStep DEF DAll, DInv
<1>6. Begun'
  BY <1>1 DEF DAll, DInv, Begun
<1>7. Newest'
  BY <1>1, <1>2, NewestStep DEF DAll, DInv
<1> QED
  BY <1>2, <1>5, <1>6, <1>7 DEF DInv

LEMMA DInit == Init => DAll
<1> SUFFICES ASSUME Init PROVE DAll
  OBVIOUS
<1>1. /\ objects = <<>> /\ delayed = {} /\ step = "idle" /\ manifest = <<>>
      /\ newSegments = <<>> /\ wal_offset = 0
  BY DEF Init, ClientInit
<1>2. Sent(ManifestKey) = {}
  BY <1>1 DEF Sent
<1>3. Kept
  BY <1>1 DEF Kept, Stored
<1>4. Begun /\ Newest
  BY <1>1 DEF Begun, Newest
<1>5. Ends
  BY <1>2 DEF Ends
<1> QED
  BY <1>3, <1>4, <1>5, TInit, XInit, SyncInit DEF DAll, DInv

LEMMA DNext == DAll /\ [Next]_vars => DAll'
<1> SUFFICES ASSUME DAll, [Next]_vars PROVE DAll'
  OBVIOUS
<1>1. TInv' /\ XInv' /\ SyncInv'
  BY TNext, XNext, SyncStep DEF DAll
<1>2. DInv'
  BY DSyncWal, DCompact, DRetry, DCallFails, DPutSegment, DPutSegmentManifest, DGetSegment,
     DPutChunk, DPutNewManifest, DDeleteSegment, DWriteWal, DLandLate, DStutter
  DEF Next, CallStep
<1> QED
  BY <1>1, <1>2 DEF DAll

-----------------------------------------------------------------------------
\* The segments of a contiguous list, each what its entry says, make up the WAL.
LEMMA Joined ==
  ASSUME NEW list \in Seq(SegmentMetas), Contiguous(list),
         NEW parts \in Seq(Seq(Nat)), Len(parts) = Len(list),
         \A j \in 1..Len(list) :
           parts[j] = BytesFrom(list[j].offset, list[j].offset + list[j].size)
  PROVE  /\ End(list) \in Nat
         /\ FlattenSeq(parts) = BytesFrom(0, End(list))
<1> DEFINE To(n) == IF n = 0 THEN 0 ELSE list[n].offset + list[n].size
           Upto(n) == \A p \in Seq(Seq(Nat)) :
                        Len(p) = n /\ (\A j \in 1..n : p[j] = parts[j])
                          => FlattenSeq(p) = BytesFrom(0, To(n))
           T == {n \in Nat : n <= Len(list) => Upto(n)}
<1>1. Len(list) \in Nat
      /\ \A j \in 1..Len(list) : list[j].offset \in Nat /\ list[j].size \in Nat
  <2>1. \A j \in 1..Len(list) : list[j] \in SegmentMetas
    BY ElementOfSeq
  <2> QED
    BY <2>1 DEF SegmentMetas
<1>2. \A n \in 0..Len(list) : To(n) \in Nat
  BY <1>1
<1>3. 0 \in T
  <2>1. ASSUME NEW p \in Seq(Seq(Nat)), Len(p) = 0
        PROVE  FlattenSeq(p) = BytesFrom(0, To(0))
    <3>1. p = <<>>
      BY <2>1
    <3> QED
      BY <3>1, FlattenEmpty DEF BytesFrom
  <2> QED
    BY <2>1
<1>4. ASSUME NEW n \in Nat, n \in T PROVE n + 1 \in T
  <2>0. n <= Len(list) => Upto(n)
    <3> HIDE DEF Upto
    <3> QED
      BY <1>4
  <2>1. SUFFICES ASSUME n + 1 <= Len(list), NEW p \in Seq(Seq(Nat)), Len(p) = n + 1,
                        \A j \in 1..(n + 1) : p[j] = parts[j]
                 PROVE  FlattenSeq(p) = BytesFrom(0, To(n + 1))
    OBVIOUS
  <2>2. PICK e : e = list[n + 1]
    OBVIOUS
  <2>3. n + 1 \in 1..Len(list) /\ e.offset \in Nat /\ e.size \in Nat
    BY <1>1, <2>1, <2>2
  <2>4. p[n + 1] = BytesFrom(e.offset, e.offset + e.size)
    <3>1. parts[n + 1] = BytesFrom(list[n + 1].offset, list[n + 1].offset + list[n + 1].size)
      BY <2>3
    <3>2. p[n + 1] = parts[n + 1]
      BY <2>1
    <3> QED
      BY <2>2, <3>1, <3>2
  <2>5. PICK q \in Seq(Seq(Nat)) : q = [j \in 1..n |-> p[j]]
    <3>1. \A j \in 1..n : p[j] \in Seq(Nat)
      BY <2>1
    <3>2. [j \in 1..n |-> p[j]] \in Seq(Seq(Nat))
      BY <3>1
    <3> QED
      BY <3>2
  <2>6. Len(q) = n /\ \A j \in 1..n : q[j] = p[j]
    BY <2>5
  <2>7. FlattenSeq(q) = BytesFrom(0, To(n))
    <3>1. Upto(n)
      <4> HIDE DEF Upto
      <4> QED
        BY <1>1, <2>1, <2>0
    <3>2. \A j \in 1..n : q[j] = parts[j]
      BY <2>1, <2>6
    <3> QED
      BY <2>6, <3>1, <3>2
  <2>8. FlattenSeq(p) = FlattenSeq(q) \o p[n + 1]
    <3>1. Len(p) = Len(q) + 1 /\ \A j \in 1..Len(q) : q[j] = p[j]
      BY <2>1, <2>6
    <3>2. FlattenSeq(p) = FlattenSeq(q) \o p[Len(p)]
      BY <3>1, FlattenLonger, Zenon
    <3> QED
      BY <2>1, <3>2
  <2>9. To(n) = e.offset
    <3>1. CASE n = 0
      <4>1. list # <<>>
        BY <2>3
      <4> QED
        BY <2>2, <3>1, <4>1 DEF Contiguous
    <3>2. CASE n # 0
      <4>1. n \in 1..(Len(list) - 1)
        BY <1>1, <2>1, <3>2
      <4> QED
        BY <2>2, <3>2, <4>1 DEF Contiguous
    <3> QED
      BY <3>1, <3>2
  <2>10. To(n + 1) = e.offset + e.size
    BY <2>2
  <2> HIDE DEF To
  <2>11. PICK b \in Nat, c \in Nat : b = e.offset /\ c = e.offset + e.size /\ b <= c
    BY <2>3
  <2>12. 0 \in Nat /\ 0 <= b
    BY <2>11
  <2>13. BytesFrom(0, b) \o BytesFrom(b, c) = BytesFrom(0, c)
    BY <2>11, <2>12, BytesJoin, Zenon
  <2> QED
    BY <2>4, <2>7, <2>8, <2>9, <2>10, <2>11, <2>13
<1>5. \A n \in Nat : n \in T
  <2> HIDE DEF T
  <2> QED
    BY <1>3, <1>4, Induction
<1>6. Upto(Len(list))
  BY <1>1, <1>5
<1>7. FlattenSeq(parts) = BytesFrom(0, To(Len(list)))
  BY <1>1, <1>6
<1>8. To(Len(list)) = End(list)
  BY <1>1 DEF End, Last
<1> QED
  BY <1>1, <1>2, <1>7, <1>8

LEMMA DSpec == Spec => []DAll
BY DInit, DNext, PTL DEF Spec

\* The content of the stored manifest, as decoding gives it.
LEMMA StoredManifestIs ==
  ASSUME TInv, ManifestKey \in DOMAIN objects
  PROVE  /\ objects[ManifestKey] \in Sent(ManifestKey)
         /\ StoredManifest.content.segments = StoredList
         /\ StoredList \in Lists
<1>1. PICK v : v = objects[ManifestKey]
  OBVIOUS
<1>2. v \in Sent(ManifestKey) /\ ManifestKey \in Keys
  BY <1>1 DEF Sent, Keys
<1>3. StoredManifest.content = v.content
  BY <1>1, <1>2, DecodedIs DEF StoredManifest, Plain
<1> QED
  BY <1>1, <1>2, <1>3 DEF StoredList, Lists

\* Once sync_wal has returned Ok the store holds the WAL up to wal_offset, whatever
\* attempts fail or arrive late and whatever compaction has replaced
\* (manager.rs:251-277, 480-578; s3.rs:49-88), unless a call failed before or a late
\* attempt of a call that is over has changed an object: the new manifest is uploaded
\* before the segments it no longer lists are deleted, and what is deleted is never
\* listed again.
THEOREM SyncedIsDurable == Spec => []AckedIsDurable
<1>1. DAll => AckedIsDurable
  <2> SUFFICES ASSUME DAll, suspect = {}, ~overtaken, wal_offset > 0
               PROVE  /\ ManifestKey \in DOMAIN objects
                      /\ LET segments == StoredManifest.content.segments
                             of(i) == WalKey(segments[i].index)
                             restored == FlattenSeq([i \in DOMAIN segments |-> StoredBytes(of(i))])
                         IN /\ \A i \in DOMAIN segments : of(i) \in DOMAIN objects
                            /\ Len(restored) >= wal_offset
                            /\ restored = BytesFrom(0, Len(restored))
    BY DEF AckedIsDurable
  <2>1. PICK list : list = StoredList
    OBVIOUS
  <2>2. /\ ManifestKey \in DOMAIN objects /\ Contiguous(list) /\ wal_offset <= End(list)
        /\ Stored(list)
    BY <2>1 DEF DAll, DInv, Newest
  <2>3. StoredManifest.content.segments = list /\ list \in Lists
    BY <2>1, <2>2, StoredManifestIs DEF DAll
  <2>4. list \in Seq(SegmentMetas) /\ DOMAIN list = 1..Len(list) /\ Len(list) \in Nat
    BY <2>3, ListsTyped DEF DAll
  <2>5. ASSUME NEW j \in 1..Len(list)
        PROVE  /\ StoredBytes(WalKey(list[j].index)) \in Seq(Nat)
               /\ StoredBytes(WalKey(list[j].index))
                    = BytesFrom(list[j].offset, list[j].offset + list[j].size)
    <3>1. list[j].index \in Nat /\ Described(list[j])
      BY <2>3, ListsTyped DEF DAll, XInv, AllDescribed
    <3>2. PICK k \in Keys : k = WalKey(list[j].index)
      BY <3>1 DEF Keys
    <3>3. PICK v : v = objects[k]
      OBVIOUS
    <3>4. v \in Sent(k)
      BY <2>2, <3>2, <3>3 DEF Stored, Sent
    <3>5. v.content.bytes = BytesFrom(list[j].offset, list[j].offset + list[j].size)
      BY <3>1, <3>2, <3>4 DEF Described, Clean
    <3>6. v.content.bytes \in Seq(Nat)
      BY <3>4, DecodedIs DEF DAll, Contents
    <3> QED
      BY <3>2, <3>3, <3>5, <3>6 DEF StoredBytes
  <2>6. PICK parts : parts = [i \in 1..Len(list) |-> StoredBytes(WalKey(list[i].index))]
    OBVIOUS
  <2>7. parts \in Seq(Seq(Nat)) /\ Len(parts) = Len(list)
        /\ \A j \in 1..Len(list) :
             parts[j] = BytesFrom(list[j].offset, list[j].offset + list[j].size)
    BY <2>4, <2>5, <2>6
  <2>8. End(list) \in Nat /\ FlattenSeq(parts) = BytesFrom(0, End(list))
    BY <2>2, <2>4, <2>7, Joined
  <2>9. PICK end \in Nat : end = End(list)
    BY <2>8
  <2>10. PICK restored : restored = FlattenSeq(parts)
    OBVIOUS
  <2>11. restored = BytesFrom(0, end) /\ Len(restored) = end
    BY <2>8, <2>9, <2>10 DEF BytesFrom
  <2>12. Len(restored) >= wal_offset /\ restored = BytesFrom(0, Len(restored))
    BY <2>2, <2>9, <2>11 DEF DAll, SyncInv
  <2>13. \A i \in DOMAIN list : WalKey(list[i].index) \in DOMAIN objects
    BY <2>2, <2>4 DEF Stored
  <2>14. [i \in DOMAIN list |-> StoredBytes(WalKey(list[i].index))] = parts
    BY <2>4, <2>6
  <2> QED
    BY <2>2, <2>3, <2>10, <2>12, <2>13, <2>14
<1> QED
  BY <1>1, DSpec, PTL

\* Neither wal_offset nor the end of what the stored manifest lists is ever in the
\* middle of a frame, and the listed frames were complete in the file, however SQLite
\* was writing when it was read, and wherever compaction has cut
\* (manager.rs:21-36, 251-277, 507-560).
THEOREM StoredWholeFrames == Spec => []WholeFrames
<1>1. DAll => WholeFrames
  <2> SUFFICES ASSUME DAll PROVE WholeFrames
    OBVIOUS
  <2>1. wal_offset \in FrameEnds \cup {0}
    <3>1. wal_offset \in Nat /\ OnFrameEnd(wal_offset) /\ wal_offset <= MaxLen
      BY UploadAssumption DEF DAll, SyncInv, TInv, UploadTypeOK
    <3> QED
      BY <3>1, IsFrameEnd
  <2>2. ASSUME suspect = {}, ManifestKey \in DOMAIN objects
        PROVE  LET last == Last(StoredManifest.content.segments)
               IN last.offset + last.size \in FrameEnds \cap 1..walLen
    <3>1. PICK v : v = objects[ManifestKey]
      OBVIOUS
    <3>2. v \in Sent(ManifestKey) /\ StoredManifest.content.segments = v.content.segments
      BY <2>2, <3>1, StoredManifestIs DEF DAll, StoredList
    <3>3. PICK list : list = v.content.segments
      OBVIOUS
    <3>4. /\ list # <<>> /\ End(list) \in FrameEnds /\ 1 <= End(list) /\ End(list) <= walLen
      BY <2>2, <3>2, <3>3 DEF DAll, DInv, Ends
    <3>5. list \in Seq(SegmentMetas)
      BY <3>2, <3>3, ListsTyped DEF DAll, Lists
    <3>6. End(list) = Last(list).offset + Last(list).size /\ End(list) \in Nat
      <4>1. Len(list) \in 1..Len(list)
        BY <3>4, <3>5
      <4>2. list[Len(list)] \in SegmentMetas
        BY <3>5, <4>1, ElementOfSeq
      <4> QED
        BY <3>4, <4>2 DEF End, Last, SegmentMetas
    <3>7. walLen \in Nat
      BY DEF DAll, SyncInv
    <3>8. End(list) \in FrameEnds \cap 1..walLen
      BY <3>4, <3>6, <3>7
    <3> QED
      BY <3>2, <3>3, <3>6, <3>8
  <2> QED
    BY <2>1, <2>2 DEF WholeFrames
<1> QED
  BY <1>1, DSpec, PTL
===============================================================================
