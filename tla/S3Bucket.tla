------------------------------- MODULE S3Bucket -------------------------------
(***************************************************************************)
(* The objects the library keeps in its bucket and the operations of       *)
(* S3Client (src/src/s3.rs) on them.                                       *)
(*                                                                         *)
(* A key is <<kind, generation, index>>: "latest", "G/manifest.json",      *)
(* "G/snapshot" and "G/wal/N" in the program.  A generation id (a uuid) is *)
(* the number of the generation in the order of creation.  What            *)
(* pipeline_encode wrote, pipeline_decode gives back: an object holds the  *)
(* value that was encoded.                                                 *)
(***************************************************************************)
EXTENDS Integers, Sequences

CONSTANTS
  MaxGenerations,   \* bound: generations ever created
  MaxIndex          \* bound: segment indexes of a generation

ASSUME KeysAssumption == MaxGenerations \in Nat /\ MaxIndex \in Nat

VARIABLE bucket     \* the stored objects: a function from their keys

Generations == 1..MaxGenerations
Indexes == 0..MaxIndex

LatestKey == <<"latest", 0, 0>>
ManifestKey(g) == <<"manifest", g, 0>>
SnapshotKey(g) == <<"snapshot", g, 0>>
WalKey(g, i) == <<"wal", g, i>>

WalKeys == {WalKey(g, i) : g \in Generations, i \in Indexes}
Keys == {LatestKey} \cup {ManifestKey(g) : g \in Generations}
                    \cup {SnapshotKey(g) : g \in Generations} \cup WalKeys

\* One WAL segment in a manifest.  Offsets and sizes count blocks.
SegmentMeta == [index : Indexes, offset : Nat, size : Nat]

Stored(k) == k \in DOMAIN bucket

\* list_keys of a generation, and the order it returns them in: that of the
\* key strings, which manager.rs makes of "manifest.json" (404), "snapshot"
\* (193) and "wal/" with eight digits (258).
KeysOf(g) == {k \in DOMAIN bucket : k[2] = g}

Rank(k) == CASE k[1] = "manifest" -> 0
             [] k[1] = "snapshot" -> 1
             [] k[1] = "wal" -> 2 + k[3]

\* Variant: the segments and the snapshot go first.
BeforeFromTheEnd(k, x) == Rank(k) >= Rank(x)

Before(k, x) == Rank(k) <= Rank(x)

-----------------------------------------------------------------------------
(* An operation on an object ends in one of three ways: "ok", "err" after   *)
(* the last retry, or "cancel" when the caller's future is dropped while    *)
(* it waits.  Only "ok" tells whether an attempt reached the store.         *)

PutObject(outcome, k, v) ==
  \/ bucket' = [x \in DOMAIN bucket \cup {k} |-> IF x = k THEN v ELSE bucket[x]]
  \/ outcome # "ok" /\ UNCHANGED bucket

DeleteObject(outcome, k) ==
  \/ bucket' = [x \in DOMAIN bucket \ {k} |-> bucket[x]]
  \/ outcome # "ok" /\ UNCHANGED bucket
=============================================================================
