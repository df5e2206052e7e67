----------------------------- MODULE MCLSMCrash -----------------------------
(***************************************************************************)
(* LSMCrash for TLC, with numbers for keys: a table is written in their    *)
(* order.  MCLSMEngine says how full a MemTable is.                        *)
(***************************************************************************)
EXTENDS LSMCrash, FiniteSetsExt

CONSTANT MaxSizeBytes

Bytes(v) == CASE v = NONE -> 0
              [] v \in Ephemeral -> 1 + 3
              [] v = TOMBSTONE -> 1 + 2
              [] OTHER -> 1 + 1

MCIsFull(m) == MapThenSumSet(LAMBDA k : Bytes(m[k]), Keys) >= MaxSizeBytes
=============================================================================
