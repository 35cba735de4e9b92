-------------------------------- MODULE Pipeline --------------------------------
(***************************************************************************)
(* What happens to data on its way to the bucket and back: pipeline_encode *)
(* and pipeline_decode (src/src/manager.rs) over compress                  *)
(* (src/src/compression.rs) and encrypt (src/src/encryption.rs).           *)
(*                                                                         *)
(* An object is a content and the layers put around it, the outermost      *)
(* first: the format of a layer and, for encryption, its key.  A layer     *)
(* starts with a magic number, which is all decoding has to go by; a       *)
(* content without a layer may start like one by accident.                 *)
(***************************************************************************)
EXTENDS Sequences

CONSTANTS
  Passphrases,    \* the values of encryption_key ...
  NoKey,          \* ... and none of them
  Failed          \* a decoding that returns an error

Algorithms == {"lz4", "zstd"}
Formats == Algorithms \cup {"encryption"}
NoMagic == "none"

\* A BackupConfig and the cargo features of the program that has it: the
\* features decide which values exist.
Configs ==
  {c \in [compression : Algorithms \cup {"none"},
          encryption_key : Passphrases \cup {NoKey},
          features : SUBSET Formats] :
     /\ c.compression \in c.features \cup {"none"}
     /\ c.encryption_key # NoKey => "encryption" \in c.features}

\* Data as it is: `first` is the format it starts like.
Plain(first, content) == [layers |-> <<>>, first |-> first, content |-> content]

Objects(contents) ==
  [layers : Seq([format : Formats, key : Passphrases \cup {NoKey}]),
   first : Formats \cup {NoMagic}, content : contents]

Wrap(format, key, obj) ==
  [obj EXCEPT !.layers = <<[format |-> format, key |-> key]>> \o @]
Peel(obj) == [obj EXCEPT !.layers = Tail(@)]

Magic(obj) == IF obj.layers = <<>> THEN obj.first ELSE Head(obj.layers).format

compress(obj, algo) == IF algo = "none" THEN obj ELSE Wrap(algo, NoKey, obj)

\* Variant: an object of a format this program lacks is taken for plain data.
decompress_without_feature_check(obj, features) ==
  IF Magic(obj) \notin Algorithms \cap features THEN obj
  ELSE IF obj.layers = <<>> THEN Failed ELSE Peel(obj)

\* Data that only looks compressed makes the codec fail (or give other bytes).
decompress(obj, features) ==
  IF Magic(obj) \notin Algorithms THEN obj
  ELSE IF obj.layers = <<>> \/ Magic(obj) \notin features THEN Failed ELSE Peel(obj)

encrypt(obj, key) == Wrap("encryption", key, obj)

\* AES-GCM is authenticated: another key, or data that was never encrypted,
\* fails.
decrypt(obj, key) ==
  IF Magic(obj) # "encryption" THEN obj
  ELSE IF obj.layers = <<>> \/ Head(obj.layers).key # key THEN Failed ELSE Peel(obj)

pipeline_encode(obj, config) ==
  IF config.encryption_key = NoKey THEN compress(obj, config.compression)
  ELSE encrypt(compress(obj, config.compression), config.encryption_key)

pipeline_decode(obj, config) ==
  LET decrypted == IF config.encryption_key = NoKey THEN obj
                   ELSE decrypt(obj, config.encryption_key)
  IN IF decrypted = Failed THEN Failed ELSE decompress(decrypted, config.features)
================================================================================
