---------------------------- MODULE MCLSMEngine ----------------------------
(***************************************************************************)
(* LSMEngine for TLC: a MemTable that is full by the bytes of its keys and *)
(* values, as memtable.cpp counts them, with lengths in the proportions of *)
(* the code's encodings: a TTL value carries its EXPIRY prefix and is the  *)
(* longest, then the tombstone marker, then a plain value.                 *)
(***************************************************************************)
EXTENDS LSMEngine, FiniteSetsExt, TLC

CONSTANT MaxSizeBytes

Bytes(v) == CASE v = NONE -> 0
              [] v \in Ephemeral -> 1 + 3
              [] v = TOMBSTONE -> 1 + 2
              [] OTHER -> 1 + 1

MCIsFull(m) == MapThenSumSet(LAMBDA k : Bytes(m[k]), Keys) >= MaxSizeBytes

Symmetry == Permutations(Keys) \cup Permutations(UserValues)
=============================================================================
