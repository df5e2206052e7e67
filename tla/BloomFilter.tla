---------------------------- MODULE BloomFilter ----------------------------
(***************************************************************************)
(* src/src/engine/bloom_filter.cpp: which bits a filter has, and which of  *)
(* them a key sets and tests.  A filter is its number of bits and the set  *)
(* of those that are on.                                                   *)
(***************************************************************************)
EXTENDS Integers, FiniteSets

CONSTANTS Hashes,         \* hash1, hash2, hash3: functions from keys to numbers
          BitsPerElement, \* 10
          LeastBits       \* 64

ASSUME BitsAssumption == BitsPerElement \in Nat /\ LeastBits \in Nat \ {0}

NumBits(elements) ==
    IF elements * BitsPerElement < LeastBits THEN LeastBits ELSE elements * BitsPerElement

BitsOf(k, bits) == {h[k] % bits : h \in Hashes}

\* A filter made for the number of keys in S, with all of S added.
FilterOf(S) == LET bits == NumBits(Cardinality(S))
               IN  [bits |-> bits, on |-> UNION {BitsOf(k, bits) : k \in S}]

MightContain(f, k) == BitsOf(k, f.bits) \subseteq f.on
=============================================================================
