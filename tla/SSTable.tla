------------------------------ MODULE SSTable ------------------------------
(***************************************************************************)
(* src/src/engine/sstable.cpp: a table is the entries of its file, sorted  *)
(* by key, with what the object keeps in memory, the sparse index and the  *)
(* Bloom filter.  The offset of an entry is its place in the file.         *)
(***************************************************************************)
EXTENDS BloomFilter, Sequences

CONSTANTS Stride,  \* every Stride-th entry is in the sparse index (100)
          NONE     \* std::nullopt

ASSUME StrideAssumption == Stride \in Nat \ {0}

KeysOf(entries) == {entries[i].key : i \in DOMAIN entries}

----------------------------------------------------------------------------
(* flush(): the loop that writes the entries and notes every Stride-th.    *)

IndexSize(entries) == (Len(entries) + Stride - 1) \div Stride

SparseIndex(entries) ==
    [n \in 1..IndexSize(entries) |->
        LET at == (n - 1) * Stride + 1
        IN  [key |-> entries[at].key, offset |-> at]]

Written(entries) == [entries |-> entries,
                     index   |-> SparseIndex(entries),
                     bloom   |-> FilterOf(KeysOf(entries))]

----------------------------------------------------------------------------
(* build_sparse_index(): what the constructor reads back from a file, one  *)
(* entry after the other.                                                  *)

NotedLate(count) == (count + 1) % Stride = 0
Noted(count) == count % Stride = 0

Opened(entries) ==
    LET read[n \in 0..Len(entries)] ==
            IF n = 0 THEN << >>
            ELSE IF Noted(n - 1)
                 THEN Append(read[n - 1], [key |-> entries[n].key, offset |-> n])
                 ELSE read[n - 1]
    IN  [entries |-> entries,
         index   |-> read[Len(entries)],
         bloom   |-> FilterOf(KeysOf(entries))]

----------------------------------------------------------------------------
(* get(): the filter, std::upper_bound on the index, and a scan that stops *)
(* at the first key that is not smaller.                                   *)

Before(t, k) == {n \in DOMAIN t.index : t.index[n].key <= k}
StartPastRegion(t, k) == Cardinality(Before(t, k)) * Stride + 1
Start(t, k) ==
    IF Before(t, k) = {} THEN 1
    ELSE t.index[CHOOSE n \in Before(t, k) : \A m \in Before(t, k) : m <= n].offset

Reached(t, k) == {i \in Start(t, k)..Len(t.entries) : t.entries[i].key >= k}

Search(t, k) ==
    IF ~MightContain(t.bloom, k) \/ t.index = << >> \/ Reached(t, k) = {} THEN NONE
    ELSE LET stop == t.entries[CHOOSE i \in Reached(t, k) : \A j \in Reached(t, k) : i <= j]
         IN  IF stop.key = k THEN stop.val ELSE NONE

----------------------------------------------------------------------------
(* compact(): the merge of two sorted arrays.                              *)

OlderStays == 0
OlderSkipped == 1   \* i++ at a key that both tables have
OlderEntry(o, n) == o
Winner(o, n) == n

\* A round of the loops: the smaller of the two next entries is pushed back, or
\* what one table has left; nothing happens once both are at their end.
MergeRound(o, n, s) ==
    LET more  == s.i <= Len(o)
        fresh == s.j <= Len(n)
    IN  IF more /\ (~fresh \/ o[s.i].key < n[s.j].key)
        THEN [i |-> s.i + 1, j |-> s.j, merged |-> Append(s.merged, o[s.i])]
        ELSE IF fresh /\ (~more \/ o[s.i].key > n[s.j].key)
        THEN [i |-> s.i, j |-> s.j + 1, merged |-> Append(s.merged, n[s.j])]
        ELSE IF more /\ fresh
        THEN [i |-> s.i + OlderSkipped, j |-> s.j + 1,
              merged |-> Append(s.merged, Winner(o[s.i], n[s.j]))]
        ELSE s

Merged(o, n) ==
    LET rounds == Len(o) + Len(n)
        after[r \in 0..rounds] ==
            IF r = 0 THEN [i |-> 1, j |-> 1, merged |-> << >>] ELSE MergeRound(o, n, after[r - 1])
    IN  after[rounds].merged
=============================================================================
