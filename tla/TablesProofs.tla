---------------------------- MODULE TablesProofs ----------------------------
(***************************************************************************)
(* Proofs about tables and the MemTable, for every set of hash functions,  *)
(* every stride of the sparse index and every number of entries.           *)
(***************************************************************************)
EXTENDS Tables, Recursion, SequenceTheorems, FiniteSetTheorems, TLAPS

\* What a file holds: entries sorted by key, without duplicates.
Sorted(entries) ==
    /\ Len(entries) \in Nat /\ DOMAIN entries = 1..Len(entries)
    /\ \A i \in DOMAIN entries : entries[i].key \in Nat
    /\ \A i, j \in DOMAIN entries : i < j => entries[i].key < entries[j].key

----------------------------------------------------------------------------
(* Least and greatest numbers.                                             *)

LEMMA GreatestExists ==
    ASSUME NEW n \in Nat, NEW S, S \subseteq 1..n, S # {}
    PROVE  \E x \in S : \A y \in S : y <= x
<1> DEFINE T == {n - x : x \in S}
<1>1. T \subseteq Nat /\ T # {}
  <2>1. \A x \in S : x \in 1..n /\ n - x \in Nat
      OBVIOUS
  <2>2. \E x \in S : n - x \in T
      OBVIOUS
  <2> QED
      BY <2>1, <2>2
<1>2. PICK t \in T : \A u \in T : t <= u
  <2> HIDE DEF T
  <2> QED
      BY <1>1, LeastExists
<1>3. PICK x \in S : t = n - x
    BY <1>2
<1>4. \A y \in S : n - x <= n - y
    BY <1>2, <1>3
<1>5. \A y \in S : y <= x
    BY <1>4
<1> QED
    BY <1>5

----------------------------------------------------------------------------
(* The Bloom filter.                                                       *)

\* Whatever the hash functions, a filter answers yes for each of its keys.
THEOREM NoFalseNegative ==
    ASSUME NEW S, NEW k \in S
    PROVE  MightContain(FilterOf(S), k)
<1> DEFINE bits == NumBits(Cardinality(S))
<1>1. FilterOf(S).bits = bits /\ FilterOf(S).on = UNION {BitsOf(j, bits) : j \in S}
    BY DEF FilterOf
<1> HIDE DEF bits
<1> QED
    BY <1>1 DEF MightContain

----------------------------------------------------------------------------
(* The sparse index.                                                       *)

\* It has an entry for every Stride-th key, in the file's order.
LEMMA IndexEntries ==
    ASSUME NEW entries, Sorted(entries), Len(entries) # 0
    PROVE  /\ IndexSize(entries) \in Nat \ {0}
           /\ DOMAIN SparseIndex(entries) = 1..IndexSize(entries)
           /\ \A n \in 1..IndexSize(entries) :
                /\ SparseIndex(entries)[n].offset \in DOMAIN entries
                /\ SparseIndex(entries)[n].key = entries[SparseIndex(entries)[n].offset].key
<1> DEFINE len == Len(entries)
           cells == IndexSize(entries)
<1>1. len \in Nat \ {0} /\ DOMAIN entries = 1..len /\ Stride \in Nat \ {0}
    BY StrideAssumption DEF Sorted
<1>2. cells = (len + Stride - 1) \div Stride
    BY DEF IndexSize
<1>3. cells \in Nat /\ cells * Stride <= len + Stride - 1 /\ len + Stride - 1 < (cells + 1) * Stride
  <2> HIDE DEF len, cells
  <2>1. \A a \in Nat, b \in Nat \ {0} :
            a \div b \in Nat /\ (a \div b) * b <= a /\ a < (a \div b + 1) * b
      BY SMTT(30)
  <2>2. len + Stride - 1 \in Nat
      BY <1>1
  <2> QED
      BY <1>1, <1>2, <2>1, <2>2
<1>4. cells # 0
  <2> HIDE DEF len, cells
  <2> QED
      BY <1>1, <1>3
<1>5. \A n \in 1..cells : (n - 1) * Stride + 1 \in 1..len
  <2> HIDE DEF len, cells
  <2> SUFFICES ASSUME NEW n \in 1..cells
               PROVE  (n - 1) * Stride + 1 \in 1..len
      OBVIOUS
  <2>1. n * Stride <= cells * Stride
      BY <1>1, <1>3
  <2>2. (n - 1) * Stride = n * Stride - Stride
      BY <1>1, <1>3
  <2>3. (n - 1) * Stride \in Nat
      BY <1>1, <1>3
  <2> QED
      BY <1>1, <1>3, <2>1, <2>2, <2>3
<1> HIDE DEF len
<1> QED
    BY <1>1, <1>3, <1>4, <1>5 DEF SparseIndex

----------------------------------------------------------------------------
(* The search.                                                             *)

\* It starts at or before the place of the key.
LEMMA StartBefore ==
    ASSUME NEW entries, Sorted(entries), NEW i \in DOMAIN entries
    PROVE  LET t == Written(entries)
           IN  /\ t.index # << >>
               /\ Start(t, entries[i].key) \in 1..i
<1> DEFINE t == Written(entries)
           k == entries[i].key
           B == Before(t, k)
<1>1. /\ t.entries = entries /\ t.index = SparseIndex(entries)
      /\ Len(entries) \in Nat \ {0} /\ DOMAIN entries = 1..Len(entries)
    BY DEF Written, Sorted
<1>2. /\ IndexSize(entries) \in Nat \ {0}
      /\ DOMAIN t.index = 1..IndexSize(entries)
      /\ \A n \in DOMAIN t.index : /\ t.index[n].offset \in DOMAIN entries
                                   /\ t.index[n].key = entries[t.index[n].offset].key
    BY <1>1, IndexEntries
<1>3. t.index # << >>
    BY <1>2
<1>4. k \in Nat /\ \A j \in DOMAIN entries : entries[j].key \in Nat
    BY DEF Sorted
<1>5. \A j \in DOMAIN entries : entries[j].key <= k => j <= i
  <2> SUFFICES ASSUME NEW j \in DOMAIN entries, i < j
               PROVE  ~(entries[j].key <= k)
      BY <1>1
  <2>1. entries[i].key < entries[j].key
      BY DEF Sorted
  <2> QED
      BY <1>4, <2>1
<1>6. CASE B = {}
    BY <1>1, <1>3, <1>6 DEF Start
<1>7. CASE B # {}
  <2>1. B \subseteq 1..IndexSize(entries)
      BY <1>2 DEF Before
  <2> DEFINE last == CHOOSE n \in B : \A m \in B : m <= n
  <2>2. last \in B
    <3>1. \E n \in B : \A m \in B : m <= n
      <4> HIDE DEF B
      <4> QED
          BY <1>2, <1>7, <2>1, GreatestExists
    <3> QED
        BY <3>1
  <2>3. last \in DOMAIN t.index /\ t.index[last].key <= k
      BY <2>2 DEF Before
  <2>4. Start(t, k) = t.index[last].offset
      BY <1>7 DEF Start
  <2> HIDE DEF last, B, t, k
  <2>5. Start(t, k) \in DOMAIN entries /\ Start(t, k) <= i
      BY <1>2, <1>5, <2>3, <2>4
  <2> QED
      BY <1>1, <1>3, <2>5 DEF t, k
<1> QED
    BY <1>6, <1>7

\* SSTable::get returns the value of every key of the file, however the index
\* falls on the entries and whatever the filter's hash functions are.
THEOREM SearchFinds ==
    ASSUME NEW entries, Sorted(entries), NEW i \in DOMAIN entries
    PROVE  Search(Written(entries), entries[i].key) = entries[i].val
<1> DEFINE t == Written(entries)
           k == entries[i].key
           R == Reached(t, k)
<1>1. t.entries = entries /\ t.bloom = FilterOf(KeysOf(entries))
    BY DEF Written
<1>2. MightContain(t.bloom, k)
    BY <1>1, NoFalseNegative DEF KeysOf
<1>3. t.index # << >> /\ Start(t, k) \in 1..i
    BY StartBefore
<1>4. DOMAIN entries = 1..Len(entries) /\ Len(entries) \in Nat
    BY DEF Sorted
<1>5. \A j \in DOMAIN entries : entries[j].key \in Nat
    BY DEF Sorted
<1> HIDE DEF t
<1>6. i \in R
    BY <1>1, <1>3, <1>4, <1>5 DEF Reached
<1>7. \A j \in R : i <= j
  <2> SUFFICES ASSUME NEW j \in R, j < i
               PROVE  FALSE
      BY <1>3, <1>4 DEF Reached
  <2>1. j \in DOMAIN entries /\ entries[j].key >= k
      BY <1>1, <1>3, <1>4 DEF Reached
  <2>2. entries[j].key < k
      BY <2>1 DEF Sorted
  <2> QED
      BY <1>5, <2>1, <2>2
<1>8. (CHOOSE x \in R : \A j \in R : x <= j) = i
  <2>1. \A x \in R : x \in Int
      BY <1>3, <1>4 DEF Reached
  <2>2. \A x \in R : (\A j \in R : x <= j) => x = i
      BY <1>6, <1>7, <2>1
  <2> HIDE DEF R
  <2> QED
      BY <1>6, <1>7, <2>2
<1>9. R # {}
    BY <1>6
<1>10. Search(t, k) = LET stop == t.entries[CHOOSE x \in R : \A j \in R : x <= j]
                      IN  IF stop.key = k THEN stop.val ELSE NONE
    BY <1>2, <1>3, <1>9 DEF Search
<1> HIDE DEF R
<1>11. Search(t, k) = entries[i].val
    BY <1>1, <1>8, <1>10
<1> QED
    BY <1>11 DEF t

\* And nothing for a key that is not there, when the filter says maybe.
THEOREM SearchMisses ==
    ASSUME NEW entries, Sorted(entries), NEW k \in Nat, k \notin KeysOf(entries)
    PROVE  Search(Written(entries), k) = NONE
<1> DEFINE t == Written(entries)
           R == Reached(t, k)
<1>1. t.entries = entries
    BY DEF Written
<1>2. DOMAIN entries = 1..Len(entries) /\ Len(entries) \in Nat
    BY DEF Sorted
<1>3. CASE t.index # << >> /\ R # {}
  <2>1. Start(t, k) \in Nat \ {0}
    <3>1. Len(entries) # 0
      <4>1. Len(entries) = 0 => IndexSize(entries) = 0
        <5>1. (Stride - 1) \div Stride = 0
            BY StrideAssumption
        <5> QED
            BY <5>1, StrideAssumption DEF IndexSize
      <4>2. Len(entries) = 0 => SparseIndex(entries) = << >>
          BY <4>1 DEF SparseIndex
      <4> QED
          BY <1>3, <4>2 DEF Written
    <3>2. /\ IndexSize(entries) \in Nat
          /\ DOMAIN t.index = 1..IndexSize(entries)
          /\ \A n \in DOMAIN t.index : t.index[n].offset \in 1..Len(entries)
        BY <1>2, <3>1, IndexEntries DEF Written
    <3>3. Before(t, k) # {} => \E n \in Before(t, k) : \A m \in Before(t, k) : m <= n
        BY <3>2, GreatestExists DEF Before
    <3>4. Before(t, k) \subseteq DOMAIN t.index
        BY DEF Before
    <3> HIDE DEF t
    <3>5. CASE Before(t, k) = {}
        BY <3>5 DEF Start
    <3>6. CASE Before(t, k) # {}
      <4> DEFINE last == CHOOSE n \in Before(t, k) : \A m \in Before(t, k) : m <= n
      <4>1. last \in Before(t, k)
          BY <3>3, <3>6
      <4>2. Start(t, k) = t.index[last].offset
          BY <3>6 DEF Start
      <4> HIDE DEF last
      <4> QED
          BY <1>2, <3>2, <3>4, <4>1, <4>2
    <3> QED
        BY <3>5, <3>6
  <2>2. R \subseteq DOMAIN entries
      BY <1>1, <1>2, <2>1 DEF Reached
  <2> DEFINE stop == CHOOSE x \in R : \A j \in R : x <= j
  <2>3. stop \in DOMAIN entries
    <3>1. R \subseteq Nat
        BY <1>2, <2>2
    <3> HIDE DEF R
    <3>2. \E x \in R : \A j \in R : x <= j
        BY <1>3, <3>1, LeastExists
    <3> QED
        BY <2>2, <3>2
  <2>4. entries[stop].key # k
      BY <2>3 DEF KeysOf
  <2> HIDE DEF stop
  <2> QED
      BY <1>1, <2>4 DEF Search, stop
<1>4. CASE ~(t.index # << >> /\ R # {})
    BY <1>4 DEF Search
<1> QED
    BY <1>3, <1>4

----------------------------------------------------------------------------
(* The merge.                                                              *)

Entries == [key : Keys, val : Values]
Ascending(entries) == \A i, j \in DOMAIN entries : i < j => entries[i].key < entries[j].key

LEMMA EntriesAre ==
    ASSUME NEW s \in Seq(Entries)
    PROVE  /\ Len(s) \in Nat /\ DOMAIN s = 1..Len(s)
           /\ \A i \in DOMAIN s : s[i] \in Entries /\ s[i].key \in Keys /\ s[i].key \in Nat
           /\ Ascending(s) => Sorted(s)
<1>1. Len(s) \in Nat /\ DOMAIN s = 1..Len(s) /\ \A i \in DOMAIN s : s[i] \in Entries
    OBVIOUS
<1>2. \A i \in DOMAIN s : s[i].key \in Keys /\ s[i].key \in Nat
    BY <1>1, KeysAssumption DEF Entries
<1> QED
    BY <1>1, <1>2 DEF Ascending, Sorted

\* An entry with a greater key goes to the end.
LEMMA Pushed ==
    ASSUME NEW s \in Seq(Entries), Ascending(s), NEW e \in Entries,
           \A x \in DOMAIN s : s[x].key < e.key
    PROVE  /\ Append(s, e) \in Seq(Entries) /\ Ascending(Append(s, e))
           /\ DOMAIN Append(s, e) = DOMAIN s \cup {Len(s) + 1}
           /\ \A x \in DOMAIN s : Append(s, e)[x] = s[x]
           /\ Append(s, e)[Len(s) + 1] = e
           /\ KeysOf(Append(s, e)) = KeysOf(s) \cup {e.key}
<1> DEFINE t == Append(s, e)
<1>1. /\ t \in Seq(Entries) /\ Len(t) = Len(s) + 1
      /\ \A x \in 1..Len(s) : t[x] = s[x]
      /\ t[Len(s) + 1] = e
    BY AppendProperties
<1>2. Len(s) \in Nat /\ DOMAIN s = 1..Len(s) /\ DOMAIN t = 1..Len(t)
    BY <1>1, EntriesAre
<1>3. DOMAIN t = DOMAIN s \cup {Len(s) + 1}
    BY <1>1, <1>2
<1> HIDE DEF t
<1>4. \A x \in DOMAIN s : t[x] = s[x]
    BY <1>1, <1>2
<1>5. Ascending(t)
  <2> SUFFICES ASSUME NEW i \in DOMAIN t, NEW j \in DOMAIN t, i < j
               PROVE  t[i].key < t[j].key
      BY DEF Ascending
  <2>1. i \in DOMAIN s
      BY <1>1, <1>2
  <2>2. CASE j \in DOMAIN s
      BY <1>4, <2>1, <2>2 DEF Ascending
  <2>3. CASE j = Len(s) + 1
      BY <1>1, <1>4, <2>1, <2>3
  <2> QED
      BY <1>3, <2>2, <2>3
<1>6. KeysOf(t) = KeysOf(s) \cup {e.key}
    BY <1>1, <1>3, <1>4 DEF KeysOf
<1> QED
    BY <1>1, <1>3, <1>4, <1>5, <1>6 DEF t

\* What the loops keep: all that was pushed back is smaller than all that is left,
\* comes from one table or the other, and from the older one only if the newer has
\* no such key; and no key is passed over.
MergeState == [i : Nat, j : Nat, merged : Seq(Entries)]

MergeInv(o, n, s) ==
    /\ s \in MergeState /\ s.i \in 1..Len(o) + 1 /\ s.j \in 1..Len(n) + 1
    /\ Ascending(s.merged)
    /\ \A x \in DOMAIN s.merged :
          /\ \A a \in s.i..Len(o) : s.merged[x].key < o[a].key
          /\ \A b \in s.j..Len(n) : s.merged[x].key < n[b].key
          /\ \/ \E b \in 1..s.j - 1 : s.merged[x] = n[b]
             \/ /\ \E a \in 1..s.i - 1 : s.merged[x] = o[a]
                /\ s.merged[x].key \notin KeysOf(n)
    /\ \A a \in 1..s.i - 1 : o[a].key \in KeysOf(s.merged)
    /\ \A b \in 1..s.j - 1 : n[b].key \in KeysOf(s.merged)

\* An entry is pushed back and one or both tables advance past its key.
LEMMA PushKeeps ==
    ASSUME NEW o \in Seq(Entries), NEW n \in Seq(Entries), NEW s, MergeInv(o, n, s),
           NEW e \in Entries,
           NEW i \in {s.i, s.i + 1}, NEW j \in {s.j, s.j + 1}, i <= Len(o) + 1, j <= Len(n) + 1,
           \A x \in DOMAIN s.merged : s.merged[x].key < e.key,
           \A a \in i..Len(o) : e.key < o[a].key,
           \A b \in j..Len(n) : e.key < n[b].key,
           \/ \E b \in 1..j - 1 : e = n[b]
           \/ (\E a \in 1..i - 1 : e = o[a]) /\ e.key \notin KeysOf(n),
           i = s.i + 1 => o[s.i].key = e.key,
           j = s.j + 1 => n[s.j].key = e.key
    PROVE  MergeInv(o, n, [i |-> i, j |-> j, merged |-> Append(s.merged, e)])
<1> DEFINE m == s.merged
           t == Append(m, e)
<1>1. /\ m \in Seq(Entries) /\ Ascending(m) /\ s.i \in 1..Len(o) + 1 /\ s.j \in 1..Len(n) + 1
      /\ Len(o) \in Nat /\ Len(n) \in Nat
    BY EntriesAre DEF MergeInv, MergeState
<1>2. /\ t \in Seq(Entries) /\ Ascending(t)
      /\ DOMAIN t = DOMAIN m \cup {Len(m) + 1}
      /\ \A x \in DOMAIN m : t[x] = m[x]
      /\ t[Len(m) + 1] = e
      /\ KeysOf(t) = KeysOf(m) \cup {e.key}
    BY <1>1, Pushed
<1>3. i \in 1..Len(o) + 1 /\ j \in 1..Len(n) + 1
    BY <1>1
<1>4. /\ \A a \in i..Len(o) : a \in s.i..Len(o)
      /\ \A b \in j..Len(n) : b \in s.j..Len(n)
      /\ \A a \in 1..s.i - 1 : a \in 1..i - 1
      /\ \A b \in 1..s.j - 1 : b \in 1..j - 1
    BY <1>1
<1> HIDE DEF t
<1>5. ASSUME NEW x \in DOMAIN t
      PROVE  /\ \A a \in i..Len(o) : t[x].key < o[a].key
             /\ \A b \in j..Len(n) : t[x].key < n[b].key
             /\ \/ \E b \in 1..j - 1 : t[x] = n[b]
                \/ /\ \E a \in 1..i - 1 : t[x] = o[a]
                   /\ t[x].key \notin KeysOf(n)
  <2>1. CASE x = Len(m) + 1
      BY <1>2, <2>1
  <2>2. CASE x \in DOMAIN m
    <3>1. /\ \A a \in s.i..Len(o) : m[x].key < o[a].key
          /\ \A b \in s.j..Len(n) : m[x].key < n[b].key
          /\ \/ \E b \in 1..s.j - 1 : m[x] = n[b]
             \/ /\ \E a \in 1..s.i - 1 : m[x] = o[a]
                /\ m[x].key \notin KeysOf(n)
        BY <2>2 DEF MergeInv
    <3> HIDE DEF m
    <3> QED
        BY <1>2, <1>4, <2>2, <3>1
  <2> QED
      BY <1>2, <2>1, <2>2
<1>6. ASSUME NEW a \in 1..i - 1 PROVE o[a].key \in KeysOf(t)
  <2>1. a \in 1..s.i - 1 \/ (a = s.i /\ i = s.i + 1)
      BY <1>1
  <2> QED
      BY <1>2, <2>1 DEF MergeInv
<1>7. ASSUME NEW b \in 1..j - 1 PROVE n[b].key \in KeysOf(t)
  <2>1. b \in 1..s.j - 1 \/ (b = s.j /\ j = s.j + 1)
      BY <1>1
  <2> QED
      BY <1>2, <2>1 DEF MergeInv
<1>8. [i |-> i, j |-> j, merged |-> t] \in MergeState
    BY <1>2, <1>3 DEF MergeState
<1> QED
    BY <1>2, <1>3, <1>5, <1>6, <1>7, <1>8 DEF MergeInv, t

\* A round keeps that, and advances or finds both tables at their end.
Ended(o, n, s) == s.i = Len(o) + 1 /\ s.j = Len(n) + 1

LEMMA MergeRoundKeeps ==
    ASSUME NEW o \in Seq(Entries), NEW n \in Seq(Entries), Ascending(o), Ascending(n),
           NEW s, MergeInv(o, n, s)
    PROVE  /\ MergeInv(o, n, MergeRound(o, n, s))
           /\ \/ s.i + s.j < MergeRound(o, n, s).i + MergeRound(o, n, s).j
              \/ Ended(o, n, s) /\ MergeRound(o, n, s) = s
<1> DEFINE i == s.i
           j == s.j
           m == s.merged
           more == i <= Len(o)
           fresh == j <= Len(n)
<1>1. /\ Len(o) \in Nat /\ DOMAIN o = 1..Len(o) /\ Len(n) \in Nat /\ DOMAIN n = 1..Len(n)
      /\ \A a \in 1..Len(o) : o[a] \in Entries /\ o[a].key \in Nat
      /\ \A b \in 1..Len(n) : n[b] \in Entries /\ n[b].key \in Nat
    BY EntriesAre
<1>2. /\ i \in 1..Len(o) + 1 /\ j \in 1..Len(n) + 1 /\ m \in Seq(Entries)
      /\ \A x \in DOMAIN m : m[x].key \in Nat
    BY EntriesAre DEF MergeInv, MergeState
<1>3. /\ more => i \in 1..Len(o) /\ i + 1 <= Len(o) + 1
      /\ fresh => j \in 1..Len(n) /\ j + 1 <= Len(n) + 1
    BY <1>1, <1>2
<1>4. /\ more => \A x \in DOMAIN m : m[x].key < o[i].key
      /\ fresh => \A x \in DOMAIN m : m[x].key < n[j].key
  <2>1. more => i \in i..Len(o)
      BY <1>3
  <2>2. fresh => j \in j..Len(n)
      BY <1>3
  <2> QED
      BY <2>1, <2>2 DEF MergeInv
<1>5. /\ more => \A a \in i + 1..Len(o) : o[i].key < o[a].key
      /\ fresh => \A b \in j + 1..Len(n) : n[j].key < n[b].key
  <2>1. ASSUME more, NEW a \in i + 1..Len(o) PROVE o[i].key < o[a].key
    <3>1. i \in DOMAIN o /\ a \in DOMAIN o /\ i < a
        BY <1>1, <1>3, <2>1
    <3> QED
        BY <3>1 DEF Ascending
  <2>2. ASSUME fresh, NEW b \in j + 1..Len(n) PROVE n[j].key < n[b].key
    <3>1. j \in DOMAIN n /\ b \in DOMAIN n /\ j < b
        BY <1>1, <1>3, <2>2
    <3> QED
        BY <3>1 DEF Ascending
  <2> QED
      BY <2>1, <2>2
<1>6. CASE more /\ (~fresh \/ o[i].key < n[j].key)
  <2>1. MergeRound(o, n, s) = [i |-> i + 1, j |-> j, merged |-> Append(m, o[i])]
      BY <1>6 DEF MergeRound
  <2>2. \A b \in j..Len(n) : o[i].key < n[b].key
    <3> SUFFICES ASSUME NEW b \in j..Len(n) PROVE o[i].key < n[b].key
        OBVIOUS
    <3>1. fresh
        BY <1>1, <1>2
    <3>2. o[i].key < n[j].key /\ o[i].key \in Nat /\ n[j].key \in Nat
        BY <1>1, <1>3, <1>6, <3>1
    <3>3. CASE b = j
        BY <3>2, <3>3
    <3>4. CASE b # j
      <4>1. b \in j + 1..Len(n) /\ b \in 1..Len(n)
          BY <1>1, <1>2, <3>4
      <4>2. n[j].key < n[b].key /\ n[b].key \in Nat
          BY <1>1, <1>5, <3>1, <4>1
      <4> HIDE DEF i, j
      <4> QED
          BY <3>2, <4>2
    <3> QED
        BY <3>3, <3>4
  <2>3. o[i].key \notin KeysOf(n)
    <3> SUFFICES ASSUME NEW b \in 1..Len(n), n[b].key = o[i].key PROVE FALSE
        BY <1>1 DEF KeysOf
    <3>1. o[i].key \in Nat
        BY <1>1, <1>3, <1>6
    <3>2. CASE b \in j..Len(n)
        BY <2>2, <3>1, <3>2
    <3>3. CASE b \in 1..j - 1
      <4>1. n[b].key \in KeysOf(m)
          BY <3>3 DEF MergeInv
      <4>2. PICK x \in DOMAIN m : m[x].key = n[b].key
          BY <4>1 DEF KeysOf
      <4>3. m[x].key < o[i].key
          BY <1>4, <1>6
      <4> HIDE DEF i, j, m
      <4> QED
          BY <3>1, <4>2, <4>3
    <3> QED
        BY <1>1, <1>2, <3>2, <3>3
  <2>4. o[i] \in Entries /\ (\E a \in 1..(i + 1) - 1 : o[i] = o[a])
      BY <1>1, <1>2, <1>3, <1>6
  <2>5. MergeInv(o, n, [i |-> i + 1, j |-> j, merged |-> Append(m, o[i])])
    <3>1. \A x \in DOMAIN m : m[x].key < o[i].key
        BY <1>4, <1>6
    <3>2. \A a \in i + 1..Len(o) : o[i].key < o[a].key
        BY <1>5, <1>6
    <3>3. i + 1 <= Len(o) + 1 /\ j <= Len(n) + 1 /\ j # j + 1
        BY <1>1, <1>2, <1>3, <1>6
    <3> QED
        BY <2>2, <2>3, <2>4, <3>1, <3>2, <3>3, PushKeeps
  <2>6. i + j < (i + 1) + j
      BY <1>2
  <2> QED
      BY <2>1, <2>5, <2>6
<1>7. CASE fresh /\ (~more \/ o[i].key > n[j].key)
  <2>1. ~(more /\ (~fresh \/ o[i].key < n[j].key))
    <3>1. more => o[i].key \in Nat /\ n[j].key \in Nat
        BY <1>1, <1>3, <1>7
    <3> HIDE DEF more, fresh, i, j
    <3> QED
        BY <1>7, <3>1
  <2>2. MergeRound(o, n, s) = [i |-> i, j |-> j + 1, merged |-> Append(m, n[j])]
      BY <1>7, <2>1 DEF MergeRound
  <2>3. \A a \in i..Len(o) : n[j].key < o[a].key
    <3> SUFFICES ASSUME NEW a \in i..Len(o) PROVE n[j].key < o[a].key
        OBVIOUS
    <3>1. more
        BY <1>1, <1>2
    <3>2. n[j].key < o[i].key /\ o[i].key \in Nat /\ n[j].key \in Nat
        BY <1>1, <1>3, <1>7, <3>1
    <3>3. CASE a = i
        BY <3>2, <3>3
    <3>4. CASE a # i
      <4>1. a \in i + 1..Len(o) /\ a \in 1..Len(o)
          BY <1>1, <1>2, <3>4
      <4>2. o[i].key < o[a].key /\ o[a].key \in Nat
          BY <1>1, <1>5, <3>1, <4>1
      <4> HIDE DEF i, j
      <4> QED
          BY <3>2, <4>2
    <3> QED
        BY <3>3, <3>4
  <2>4. n[j] \in Entries /\ (\E b \in 1..(j + 1) - 1 : n[j] = n[b])
      BY <1>1, <1>2, <1>3, <1>7
  <2>5. MergeInv(o, n, [i |-> i, j |-> j + 1, merged |-> Append(m, n[j])])
    <3>1. \A x \in DOMAIN m : m[x].key < n[j].key
        BY <1>4, <1>7
    <3>2. \A b \in j + 1..Len(n) : n[j].key < n[b].key
        BY <1>5, <1>7
    <3>3. i <= Len(o) + 1 /\ j + 1 <= Len(n) + 1 /\ i # i + 1
        BY <1>1, <1>2, <1>3, <1>7
    <3> QED
        BY <2>3, <2>4, <3>1, <3>2, <3>3, PushKeeps
  <2>6. i + j < i + (j + 1)
      BY <1>2
  <2> QED
      BY <2>2, <2>5, <2>6
<1>8. CASE more /\ fresh /\ o[i].key = n[j].key
  <2>1. /\ ~(more /\ (~fresh \/ o[i].key < n[j].key))
        /\ ~(fresh /\ (~more \/ o[i].key > n[j].key))
    <3>1. o[i].key \in Nat
        BY <1>1, <1>3, <1>8
    <3> HIDE DEF more, fresh, i, j
    <3> QED
        BY <1>8, <3>1
  <2>2. MergeRound(o, n, s) = [i |-> i + 1, j |-> j + 1, merged |-> Append(m, n[j])]
      BY <1>8, <2>1 DEF MergeRound, OlderSkipped, Winner
  <2>3. n[j] \in Entries /\ (\E b \in 1..(j + 1) - 1 : n[j] = n[b])
    <3>1. j \in 1..Len(n) /\ j \in 1..(j + 1) - 1
        BY <1>2, <1>3, <1>8
    <3> QED
        BY <1>1, <3>1
  <2>4. MergeInv(o, n, [i |-> i + 1, j |-> j + 1, merged |-> Append(m, n[j])])
    <3>1. \A x \in DOMAIN m : m[x].key < n[j].key
        BY <1>4, <1>8
    <3>2. \A b \in j + 1..Len(n) : n[j].key < n[b].key
        BY <1>5, <1>8
    <3>3. \A a \in i + 1..Len(o) : n[j].key < o[a].key
        BY <1>5, <1>8
    <3>4. i + 1 <= Len(o) + 1 /\ j + 1 <= Len(n) + 1
        BY <1>1, <1>2, <1>3, <1>8
    <3> QED
        BY <1>8, <2>3, <3>1, <3>2, <3>3, <3>4, PushKeeps
  <2>5. i + j < (i + 1) + (j + 1)
      BY <1>2
  <2> QED
      BY <2>2, <2>4, <2>5
<1>9. CASE ~more /\ ~fresh
  <2>1. MergeRound(o, n, s) = s
      BY <1>9 DEF MergeRound
  <2>2. Ended(o, n, s)
      BY <1>1, <1>2, <1>9 DEF Ended
  <2> QED
      BY <2>1, <2>2
<1>10. (more /\ fresh) => o[i].key \in Nat /\ n[j].key \in Nat
    BY <1>1, <1>3
<1>11. \/ more /\ (~fresh \/ o[i].key < n[j].key)
       \/ fresh /\ (~more \/ o[i].key > n[j].key)
       \/ more /\ fresh /\ o[i].key = n[j].key
       \/ ~more /\ ~fresh
  <2> HIDE DEF more, fresh, i, j
  <2> QED
      BY <1>10
<1> QED
    BY <1>6, <1>7, <1>8, <1>9, <1>11

\* The rounds of the merge leave nothing of either table behind.
LEMMA MergedIs ==
    ASSUME NEW o \in Seq(Entries), NEW n \in Seq(Entries), Ascending(o), Ascending(n)
    PROVE  \E s : MergeInv(o, n, s) /\ Ended(o, n, s) /\ s.merged = Merged(o, n)
<1> DEFINE N == Len(o) + Len(n)
           T == {s \in MergeState : MergeInv(o, n, s)}
           base == [i |-> 1, j |-> 1, merged |-> << >>]
           F == [p \in T \X (1..N) |-> MergeRound(o, n, p[1])]
<1>1. Len(o) \in Nat /\ Len(n) \in Nat /\ N \in Nat
    BY EntriesAre
<1>2. base \in T
  <2>1. << >> \in Seq(Entries) /\ DOMAIN << >> = {} /\ Ascending(<< >>)
      BY DEF Ascending
  <2>2. base \in MergeState
      BY <2>1 DEF MergeState
  <2>3. MergeInv(o, n, base)
      BY <1>1, <2>1, <2>2 DEF MergeInv
  <2> QED
      BY <2>2, <2>3
<1>3. \A s \in T : MergeRound(o, n, s) \in T
    BY MergeRoundKeeps DEF MergeInv
<1>4. F \in [T \X (1..N) -> T]
    BY <1>3
<1>5. PICK g \in [0..N -> T] : IsLoop(g, N, base, F)
  <2> HIDE DEF F, T, base, N
  <2> QED
      BY <1>1, <1>2, <1>4, LoopExists
<1>6. \A r \in 1..N : g[r - 1] \in T /\ g[r] = MergeRound(o, n, g[r - 1])
  <2>1. ASSUME NEW r \in 1..N PROVE g[r - 1] \in T /\ <<g[r - 1], r>> \in T \X (1..N)
    <3>1. r - 1 \in 0..N
        BY <1>1
    <3> HIDE DEF T, N
    <3> QED
        BY <3>1
  <2>2. ASSUME NEW r \in 1..N PROVE F[<<g[r - 1], r>>] = MergeRound(o, n, g[r - 1])
    <3> HIDE DEF T, N
    <3> QED
        BY <2>1
  <2> QED
      BY <1>5, <2>1, <2>2 DEF IsLoop
<1>7. N \in {r \in 0..N : r + 2 <= g[r].i + g[r].j \/ Ended(o, n, g[r])}
  <2> DEFINE P == {r \in 0..N : r + 2 <= g[r].i + g[r].j \/ Ended(o, n, g[r])}
  <2>1. 0 \in P
      BY <1>1, <1>5 DEF IsLoop
  <2>2. ASSUME NEW r \in 0..N - 1, r \in P PROVE r + 1 \in P
    <3>1. /\ g[r] \in T /\ g[r + 1] \in T /\ r + 1 \in 0..N
          /\ g[r + 1] = MergeRound(o, n, g[r])
      <4>1. r + 1 \in 1..N /\ (r + 1) - 1 = r
          BY <1>1
      <4> HIDE DEF T, N
      <4> QED
          BY <1>1, <1>6, <4>1
    <3>2. \/ g[r].i + g[r].j < g[r + 1].i + g[r + 1].j
          \/ Ended(o, n, g[r]) /\ g[r + 1] = g[r]
        BY <3>1, MergeRoundKeeps
    <3>3. g[r].i \in Nat /\ g[r].j \in Nat /\ g[r + 1].i \in Nat /\ g[r + 1].j \in Nat
        BY <3>1 DEF MergeState
    <3> QED
      <4>1. CASE Ended(o, n, g[r]) /\ g[r + 1] = g[r]
          BY <3>1, <4>1
      <4>2. CASE Ended(o, n, g[r]) /\ g[r].i + g[r].j < g[r + 1].i + g[r + 1].j
        <5>1. g[r + 1].i <= Len(o) + 1 /\ g[r + 1].j <= Len(n) + 1
            BY <3>1, <1>1 DEF MergeInv
        <5> QED
            BY <1>1, <3>3, <4>2, <5>1 DEF Ended
      <4>3. CASE r + 2 <= g[r].i + g[r].j /\ g[r].i + g[r].j < g[r + 1].i + g[r + 1].j
        <5>1. (r + 1) + 2 <= g[r + 1].i + g[r + 1].j
            BY <3>3, <4>3
        <5> QED
            BY <3>1, <5>1
      <4> QED
          BY <2>2, <3>2, <4>1, <4>2, <4>3
  <2>3. 0..N \subseteq P
    <3> HIDE DEF P, N
    <3> QED
        BY <1>1, <2>1, <2>2, UpTo
  <2> QED
      BY <1>1, <2>3
<1>8. g[N] \in T /\ Ended(o, n, g[N])
  <2>1. g[N] \in T
      BY <1>1
  <2>2. g[N].i \in 1..Len(o) + 1 /\ g[N].j \in 1..Len(n) + 1
      BY <2>1 DEF MergeInv
  <2> QED
      BY <1>1, <1>7, <2>1, <2>2 DEF Ended
<1>9. g[N].merged = Merged(o, n)
  <2> DEFINE Step(h) == [r \in 0..N |-> IF r = 0 THEN base ELSE MergeRound(o, n, h[r - 1])]
             c == CHOOSE h : h = Step(h)
  <2>1. g = Step(g)
    <3>1. \A r \in 0..N : g[r] = IF r = 0 THEN base ELSE MergeRound(o, n, g[r - 1])
      <4>1. \A r \in 0..N : r # 0 => r \in 1..N
          BY <1>1
      <4> HIDE DEF N, T, base
      <4> QED
          BY <1>5, <1>6, <4>1 DEF IsLoop
    <3> HIDE DEF N, T, base
    <3> QED
        BY <3>1
  <2>2. c = Step(c)
    <3> HIDE DEF Step
    <3> QED
        BY <2>1
  <2>3. c = g
    <3> HIDE DEF c
    <3>1. /\ DOMAIN c = 0..N /\ DOMAIN g = 0..N
          /\ c = [r \in 0..N |-> c[r]] /\ g = [r \in 0..N |-> g[r]]
        BY <2>2
    <3>2. c[0] = base /\ \A r \in 1..N : c[r] = MergeRound(o, n, c[r - 1])
      <4>1. 0 \in 0..N /\ \A r \in 1..N : r \in 0..N /\ r # 0
          BY <1>1
      <4> HIDE DEF base, N
      <4> QED
          BY <2>2, <4>1
    <3>3. g[0] = c[0] /\ \A r \in 1..N : c[r - 1] = g[r - 1] => c[r] = g[r]
      <4> HIDE DEF N, T, base
      <4> QED
          BY <1>5, <1>6, <3>2 DEF IsLoop
    <3> HIDE DEF N, T, base
    <3> QED
        BY <1>1, <3>1, <3>3, LoopUnique
  <2>4. Merged(o, n) = c[N].merged
      BY DEF Merged
  <2> QED
      BY <2>3, <2>4
<1> QED
    BY <1>8, <1>9

\* What is found by looking through the entries.
LEMMA HeldInIs ==
    ASSUME NEW entries, Sorted(entries)
    PROVE  /\ \A i \in DOMAIN entries :
                 HeldIn(Written(entries), entries[i].key) = entries[i].val
           /\ \A k : k \notin KeysOf(entries) => HeldIn(Written(entries), k) = NONE
<1>1. Written(entries).entries = entries
    BY DEF Written
<1>2. ASSUME NEW i \in DOMAIN entries
      PROVE  HeldIn(Written(entries), entries[i].key) = entries[i].val
  <2> DEFINE at == {j \in DOMAIN entries : entries[j].key = entries[i].key}
  <2>1. at = {i}
    <3> SUFFICES ASSUME NEW j \in DOMAIN entries, entries[j].key = entries[i].key PROVE j = i
        OBVIOUS
    <3>1. entries[i].key \in Nat /\ i \in Nat /\ j \in Nat
        BY DEF Sorted
    <3>2. ~(entries[i].key < entries[j].key) /\ ~(entries[j].key < entries[i].key)
        BY <3>1
    <3>3. ~(i < j) /\ ~(j < i)
        BY <3>2 DEF Sorted
    <3> QED
        BY <3>1, <3>3
  <2>2. HeldIn(Written(entries), entries[i].key)
            = IF at = {} THEN NONE ELSE entries[CHOOSE x \in at : TRUE].val
      BY <1>1 DEF HeldIn
  <2> HIDE DEF at
  <2>3. (CHOOSE x \in at : TRUE) = i /\ at # {}
      BY <2>1
  <2> QED
      BY <2>2, <2>3
<1>3. ASSUME NEW k, k \notin KeysOf(entries)
      PROVE  HeldIn(Written(entries), k) = NONE
    BY <1>1, <1>3 DEF HeldIn, KeysOf
<1> QED
    BY <1>2, <1>3

\* The merged table is sorted and holds what the newer one has, or else the older.
LEMMA MergedHolds ==
    ASSUME NEW o \in Seq(Entries), NEW n \in Seq(Entries), Ascending(o), Ascending(n)
    PROVE  /\ Merged(o, n) \in Seq(Entries) /\ Ascending(Merged(o, n))
           /\ \A k \in Keys :
                 HeldIn(Written(Merged(o, n)), k) =
                     IF HeldIn(Written(n), k) # NONE THEN HeldIn(Written(n), k)
                     ELSE HeldIn(Written(o), k)
<1> DEFINE m == Merged(o, n)
<1>1. PICK s : MergeInv(o, n, s) /\ Ended(o, n, s) /\ s.merged = m
    BY MergedIs
<1>2. m \in Seq(Entries) /\ Ascending(m)
    BY <1>1 DEF MergeInv, MergeState
<1>3. /\ \A x \in DOMAIN m : \/ \E b \in DOMAIN n : m[x] = n[b]
                             \/ (\E a \in DOMAIN o : m[x] = o[a]) /\ m[x].key \notin KeysOf(n)
      /\ \A a \in DOMAIN o : o[a].key \in KeysOf(m)
      /\ \A b \in DOMAIN n : n[b].key \in KeysOf(m)
  <2>1. /\ DOMAIN o = 1..s.i - 1 /\ DOMAIN n = 1..s.j - 1
      BY <1>1, EntriesAre DEF Ended
  <2> HIDE DEF m
  <2> QED
      BY <1>1, <2>1 DEF MergeInv
<1> HIDE DEF m
<1>4. Sorted(o) /\ Sorted(n) /\ Sorted(m)
    BY <1>2, EntriesAre
<1>5. \A b \in DOMAIN n : n[b].val # NONE
  <2>1. \A b \in DOMAIN n : n[b] \in Entries
      BY EntriesAre
  <2> QED
      BY <2>1, NoValueAssumption DEF Entries, Values
<1>6. ASSUME NEW k \in Keys
      PROVE  HeldIn(Written(m), k) = IF HeldIn(Written(n), k) # NONE THEN HeldIn(Written(n), k)
                                     ELSE HeldIn(Written(o), k)
  <2>1. CASE k \notin KeysOf(m)
    <3>1. k \notin KeysOf(o) /\ k \notin KeysOf(n)
        BY <1>3, <2>1 DEF KeysOf
    <3> QED
        BY <1>4, <2>1, <3>1, HeldInIs
  <2>2. CASE k \in KeysOf(m)
    <3>1. PICK x \in DOMAIN m : m[x].key = k
        BY <2>2 DEF KeysOf
    <3>2. HeldIn(Written(m), k) = m[x].val
        BY <1>4, <3>1, HeldInIs
    <3>3. CASE \E b \in DOMAIN n : m[x] = n[b]
      <4>1. PICK b \in DOMAIN n : m[x] = n[b]
          BY <3>3
      <4>2. HeldIn(Written(n), k) = n[b].val
          BY <1>4, <3>1, <4>1, HeldInIs
      <4> QED
          BY <1>5, <3>2, <4>1, <4>2
    <3>4. CASE (\E a \in DOMAIN o : m[x] = o[a]) /\ m[x].key \notin KeysOf(n)
      <4>1. PICK a \in DOMAIN o : m[x] = o[a]
          BY <3>4
      <4>2. HeldIn(Written(o), k) = o[a].val
          BY <1>4, <3>1, <4>1, HeldInIs
      <4>3. HeldIn(Written(n), k) = NONE
          BY <1>4, <3>1, <3>4, HeldInIs
      <4> QED
          BY <3>2, <4>1, <4>2, <4>3
    <3> QED
        BY <1>3, <3>3, <3>4
  <2> QED
      BY <2>1, <2>2
<1> QED
    BY <1>2, <1>6 DEF m

----------------------------------------------------------------------------
(* The constructor.                                                        *)

\* Division with remainder.
LEMMA Quotient ==
    ASSUME NEW b \in Nat \ {0}, NEW q \in Nat, NEW r \in 0..b - 1
    PROVE  (q * b + r) \div b = q
<1> DEFINE a == q * b + r
           x == a \div b
<1>1. q * b \in Nat /\ a \in Nat
    OBVIOUS
<1>2. x \in Nat /\ x * b <= a /\ a < x * b + b
  <2>1. \A c \in Nat, d \in Nat \ {0} :
            c \div d \in Nat /\ (c \div d) * d <= c /\ c < (c \div d) * d + d
      BY SMTT(30)
  <2> HIDE DEF a
  <2> QED
      BY <1>1, <2>1
<1> HIDE DEF x
<1>3. ~(x < q)
  <2> SUFFICES ASSUME x < q PROVE FALSE
      OBVIOUS
  <2>1. (x + 1) * b <= q * b
      BY <1>2
  <2>2. (x + 1) * b = x * b + b
      BY <1>2
  <2>3. x * b \in Nat
      BY <1>2
  <2> QED
      BY <1>1, <1>2, <2>1, <2>2, <2>3
<1>4. ~(q < x)
  <2> SUFFICES ASSUME q < x PROVE FALSE
      OBVIOUS
  <2>1. (q + 1) * b <= x * b
      BY <1>2
  <2>2. (q + 1) * b = q * b + b
      OBVIOUS
  <2>3. x * b \in Nat
      BY <1>2
  <2> QED
      BY <1>1, <1>2, <2>1, <2>2, <2>3
<1>5. x = q
    BY <1>2, <1>3, <1>4
<1> QED
    BY <1>5 DEF x

\* The index has one more entry after an entry that is noted.
Cells(n) == (n + Stride - 1) \div Stride

LEMMA CellsGrow ==
    ASSUME NEW n \in Nat \ {0}
    PROVE  /\ Cells(n - 1) \in Nat
           /\ Noted(n - 1) => Cells(n) = Cells(n - 1) + 1 /\ Cells(n - 1) * Stride + 1 = n
           /\ ~Noted(n - 1) => Cells(n) = Cells(n - 1)
<1> DEFINE q == (n - 1) \div Stride
           r == (n - 1) % Stride
<1>1. Stride \in Nat \ {0}
    BY StrideAssumption
<1>2. q \in Nat /\ r \in 0..Stride - 1 /\ n - 1 = q * Stride + r
  <2>1. \A c \in Nat, d \in Nat \ {0} :
            c \div d \in Nat /\ c % d \in 0..d - 1 /\ c = (c \div d) * d + (c % d)
      BY SMTT(30)
  <2>2. n - 1 \in Nat
      OBVIOUS
  <2> QED
      BY <1>1, <2>1, <2>2
<1>3. Noted(n - 1) <=> r = 0
    BY DEF Noted
<1> HIDE DEF q, r
<1>4. q * Stride \in Nat /\ (q + 1) * Stride = q * Stride + Stride
    BY <1>1, <1>2
<1>5. Cells(n) = q + 1
  <2>1. n + Stride - 1 = (q + 1) * Stride + r
      BY <1>1, <1>2, <1>4
  <2>2. ((q + 1) * Stride + r) \div Stride = q + 1
      BY <1>1, <1>2, Quotient
  <2> QED
      BY <2>1, <2>2 DEF Cells
<1>6. CASE r = 0
  <2>1. (n - 1) + Stride - 1 = q * Stride + (Stride - 1) /\ Stride - 1 \in 0..Stride - 1
      BY <1>1, <1>2, <1>4, <1>6
  <2>2. (q * Stride + (Stride - 1)) \div Stride = q
      BY <1>1, <1>2, <2>1, Quotient
  <2>3. Cells(n - 1) = q
      BY <2>1, <2>2 DEF Cells
  <2>4. q * Stride + 1 = n
      BY <1>2, <1>4, <1>6
  <2> QED
      BY <1>2, <1>3, <1>5, <1>6, <2>3, <2>4
<1>7. CASE r # 0
  <2>1. (n - 1) + Stride - 1 = (q + 1) * Stride + (r - 1) /\ r - 1 \in 0..Stride - 1
      BY <1>1, <1>2, <1>4, <1>7
  <2>2. ((q + 1) * Stride + (r - 1)) \div Stride = q + 1
      BY <1>1, <1>2, <2>1, Quotient
  <2>3. Cells(n - 1) = q + 1
      BY <2>1, <2>2 DEF Cells
  <2> QED
      BY <1>2, <1>3, <1>5, <1>7, <2>3
<1> QED
    BY <1>6, <1>7

\* Reading a file gives what writing it had in memory.
LEMMA OpenedIs ==
    ASSUME NEW entries \in Seq(Entries)
    PROVE  Opened(entries) = Written(entries)
<1> DEFINE N == Len(entries)
           cell(m) == [key |-> entries[(m - 1) * Stride + 1].key, offset |-> (m - 1) * Stride + 1]
           base == << >>
           Step(h) == [n \in 0..N |->
                          IF n = 0 THEN base
                          ELSE IF Noted(n - 1)
                               THEN Append(h[n - 1], [key |-> entries[n].key, offset |-> n])
                               ELSE h[n - 1]]
           g == [n \in 0..N |-> [m \in 1..Cells(n) |-> cell(m)]]
           c == CHOOSE h : h = Step(h)
<1>1. N \in Nat /\ DOMAIN entries = 1..N /\ Stride \in Nat \ {0}
    BY EntriesAre, StrideAssumption
<1>2. g[0] = base
  <2>1. Cells(0) = 0
    <3>1. (0 * Stride + (Stride - 1)) \div Stride = 0
      <4>1. Stride - 1 \in 0..Stride - 1
          BY <1>1
      <4> QED
          BY <1>1, <4>1, Quotient
    <3>2. 0 + Stride - 1 = 0 * Stride + (Stride - 1)
        BY <1>1
    <3> QED
        BY <3>1, <3>2 DEF Cells
  <2> QED
      BY <1>1, <2>1
<1>3. ASSUME NEW n \in 1..N
      PROVE  g[n] = IF Noted(n - 1)
                    THEN Append(g[n - 1], [key |-> entries[n].key, offset |-> n])
                    ELSE g[n - 1]
  <2>1. n \in Nat \ {0} /\ n \in 0..N /\ n - 1 \in 0..N
      BY <1>1
  <2>2. Cells(n - 1) \in Nat
      BY <2>1, CellsGrow
  <2>3. g[n] = [m \in 1..Cells(n) |-> cell(m)] /\ g[n - 1] = [m \in 1..Cells(n - 1) |-> cell(m)]
    <3> HIDE DEF cell, N
    <3> QED
        BY <2>1
  <2>4. CASE Noted(n - 1)
    <3>1. Cells(n) = Cells(n - 1) + 1 /\ Cells(n - 1) * Stride + 1 = n
        BY <2>1, <2>4, CellsGrow
    <3>2. cell(Cells(n - 1) + 1) = [key |-> entries[n].key, offset |-> n]
      <4>1. (Cells(n - 1) + 1) - 1 = Cells(n - 1)
          BY <2>2
      <4> QED
          BY <3>1, <4>1
    <3>3. [m \in 1..Cells(n - 1) + 1 |-> cell(m)]
              = Append([m \in 1..Cells(n - 1) |-> cell(m)], cell(Cells(n - 1) + 1))
      <4> HIDE DEF cell
      <4> QED
          BY <2>2
    <3> HIDE DEF cell, g
    <3> QED
        BY <2>3, <2>4, <3>1, <3>2, <3>3
  <2>5. CASE ~Noted(n - 1)
    <3>1. Cells(n) = Cells(n - 1)
        BY <2>1, <2>5, CellsGrow
    <3> HIDE DEF cell, g
    <3> QED
        BY <2>3, <2>5, <3>1
  <2> HIDE DEF g
  <2> QED
      BY <2>4, <2>5
<1>4. g = Step(g)
  <2> HIDE DEF base
  <2>1. \A n \in 0..N : n # 0 => n \in 1..N
      BY <1>1
  <2>2. g = [n \in 0..N |-> g[n]]
    <3> HIDE DEF cell, N
    <3> QED
        OBVIOUS
  <2> HIDE DEF g, N
  <2>3. \A n \in 0..N : g[n] = IF n = 0 THEN base
                               ELSE IF Noted(n - 1)
                               THEN Append(g[n - 1], [key |-> entries[n].key, offset |-> n])
                               ELSE g[n - 1]
      BY <1>2, <1>3, <2>1
  <2> QED
      BY <2>2, <2>3
<1>5. c = Step(c)
  <2> HIDE DEF Step
  <2> QED
      BY <1>4
<1>6. c = g
  <2> HIDE DEF c, base, g
  <2>1. /\ DOMAIN c = 0..N /\ DOMAIN g = 0..N
        /\ c = [n \in 0..N |-> c[n]] /\ g = [n \in 0..N |-> g[n]]
      BY <1>4, <1>5
  <2>2. 0 \in 0..N /\ \A n \in 1..N : n \in 0..N /\ n # 0
      BY <1>1
  <2>3. c[0] = g[0]
      BY <1>4, <1>5, <2>2
  <2>4. ASSUME NEW n \in 1..N, c[n - 1] = g[n - 1] PROVE c[n] = g[n]
    <3> HIDE DEF N
    <3>1. c[n] = IF Noted(n - 1) THEN Append(c[n - 1], [key |-> entries[n].key, offset |-> n])
                 ELSE c[n - 1]
        BY <1>5, <2>2
    <3> QED
        BY <1>3, <2>4, <3>1
  <2> HIDE DEF N
  <2> QED
      BY <1>1, <2>1, <2>3, <2>4, LoopUnique
<1>7. c[N] = SparseIndex(entries)
  <2>1. c[N] = [m \in 1..Cells(N) |-> cell(m)]
    <3>1. N \in 0..N
        BY <1>1
    <3> HIDE DEF c, cell, N
    <3> QED
        BY <1>6, <3>1
  <2> HIDE DEF c
  <2> QED
      BY <2>1 DEF SparseIndex, IndexSize, Cells
<1>8. Opened(entries) = [entries |-> entries, index |-> c[N], bloom |-> FilterOf(KeysOf(entries))]
    BY DEF Opened
<1> HIDE DEF c
<1> QED
    BY <1>7, <1>8 DEF Written

----------------------------------------------------------------------------
(* The MemTable in the order of its keys.                                  *)

\* Numbered by how many are smaller, the elements of a finite set of numbers
\* take every place once, in their order.
LEMMA Places ==
    ASSUME NEW S, S \subseteq Nat, IsFiniteSet(S)
    PROVE  /\ \A k \in S : Cardinality({j \in S : j < k}) \in 0..Cardinality(S) - 1
           /\ \A k, l \in S :
                 k < l => Cardinality({j \in S : j < k}) < Cardinality({j \in S : j < l})
           /\ \A i \in 1..Cardinality(S) : \E k \in S : Cardinality({j \in S : j < k}) = i - 1
<1> DEFINE Below(k) == {j \in S : j < k}
           N == Cardinality(S)
           f == [k \in S |-> Cardinality(Below(k))]
<1>1. N \in Nat
    BY FS_CardinalityType
<1>2. \A k \in S : IsFiniteSet(Below(k)) /\ Cardinality(Below(k)) \in Nat
    BY FS_Subset, FS_CardinalityType
<1>3. ASSUME NEW T \in SUBSET S, NEW U \in SUBSET T, NEW x \in T, x \notin U
      PROVE  Cardinality(U) < Cardinality(T)
  <2>1. IsFiniteSet(T) /\ IsFiniteSet(U) /\ Cardinality(T) \in Nat /\ Cardinality(U) \in Nat
      BY FS_Subset, FS_CardinalityType
  <2>2. Cardinality(U) <= Cardinality(T) /\ (Cardinality(T) = Cardinality(U) => T = U)
      BY <2>1, FS_Subset
  <2>3. T # U
      BY <1>3
  <2> QED
      BY <2>1, <2>2, <2>3
<1>4. ASSUME NEW k \in S PROVE Cardinality(Below(k)) \in 0..N - 1
  <2>1. Below(k) \in SUBSET S /\ k \notin Below(k)
      BY <1>4
  <2>2. Cardinality(Below(k)) < N
    <3>1. S \in SUBSET S
        OBVIOUS
    <3> HIDE DEF Below
    <3> QED
        BY <1>3, <2>1, <3>1
  <2> QED
      BY <1>1, <1>2, <2>2
<1>5. ASSUME NEW k \in S, NEW l \in S, k < l
      PROVE  Cardinality(Below(k)) < Cardinality(Below(l))
  <2>1. k \in Nat /\ l \in Nat /\ \A j \in S : j \in Nat
      OBVIOUS
  <2>2. Below(k) \in SUBSET Below(l) /\ Below(l) \in SUBSET S
    <3>1. ASSUME NEW j \in S, j < k PROVE j < l
      <4>1. j \in Nat
          BY <2>1
      <4> QED
          BY <1>5, <2>1, <3>1, <4>1
    <3> QED
        BY <3>1
  <2>3. k \in Below(l) /\ k \notin Below(k)
      BY <1>5, <2>1
  <2> HIDE DEF Below
  <2> QED
      BY <1>3, <2>2, <2>3
<1>6. f \in Injection(S, 0..N - 1)
  <2>1. f \in [S -> 0..N - 1]
      BY <1>4
  <2>2. ASSUME NEW k \in S, NEW l \in S, k # l PROVE f[k] # f[l]
    <3>1. k < l \/ l < k
        BY <2>2
    <3>2. f[k] < f[l] \/ f[l] < f[k]
      <4> HIDE DEF Below
      <4> QED
          BY <1>5, <3>1
    <3>3. f[k] \in Nat /\ f[l] \in Nat
        BY <1>2
    <3> HIDE DEF f
    <3> QED
        BY <3>2, <3>3
  <2> HIDE DEF f
  <2> QED
      BY <2>1, <2>2 DEF Injection, IsInjective
<1>7. IsFiniteSet(0..N - 1) /\ Cardinality(0..N - 1) = N
  <2>1. 0 \in Int /\ N - 1 \in Int
      BY <1>1
  <2>2. /\ IsFiniteSet(0..N - 1)
        /\ Cardinality(0..N - 1) = IF 0 > N - 1 THEN 0 ELSE (N - 1) - 0 + 1
    <3> HIDE DEF N
    <3> QED
        BY <2>1, FS_Interval
  <2> HIDE DEF N
  <2> QED
      BY <1>1, <2>2
<1>8. f \in Surjection(S, 0..N - 1)
  <2>1. Cardinality(S) = Cardinality(0..N - 1)
      BY <1>7
  <2> HIDE DEF f, N
  <2> QED
      BY <1>6, <1>7, <2>1, FS_Injection
<1>9. ASSUME NEW i \in 1..N PROVE \E k \in S : Cardinality(Below(k)) = i - 1
  <2>1. i - 1 \in 0..N - 1
      BY <1>1
  <2>2. \A t \in 0..N - 1 : \E k \in S : f[k] = t
    <3> HIDE DEF f, N
    <3> QED
        BY <1>8 DEF Surjection
  <2>3. PICK k \in S : f[k] = i - 1
    <3> HIDE DEF f, N
    <3> QED
        BY <2>1, <2>2
  <2> QED
      BY <2>3
<1> QED
    BY <1>4, <1>5, <1>9

\* get_sorted_entries returns every entry of the MemTable, in the order of the keys.
LEMMA SortedIs ==
    ASSUME data \in [Keys -> Values \cup {NONE}], IsFiniteSet(Held)
    PROVE  /\ SortedEntries \in Seq(Entries) /\ Ascending(SortedEntries)
           /\ \A k \in Keys : HeldIn(Written(SortedEntries), k) = data[k]
<1> DEFINE N == Cardinality(Held)
           Place(k) == Cardinality({j \in Held : j < k})
           at(i) == CHOOSE k \in Held : Place(k) = i - 1
           s == SortedEntries
<1>1. N \in Nat /\ Held \subseteq Keys /\ Held \subseteq Nat
    BY FS_CardinalityType, KeysAssumption DEF Held
<1>2. /\ \A k \in Held : Place(k) \in 0..N - 1
      /\ \A k, l \in Held : k < l => Place(k) < Place(l)
      /\ \A i \in 1..N : \E k \in Held : Place(k) = i - 1
    BY <1>1, Places
<1>3. s = [i \in 1..N |-> [key |-> at(i), val |-> data[at(i)]]]
    BY DEF SortedEntries
<1>4. \A i \in 1..N : at(i) \in Held /\ Place(at(i)) = i - 1
  <2> HIDE DEF Place, N
  <2> QED
      BY <1>2
<1> HIDE DEF at, s
<1>5. \A i \in 1..N : s[i] \in Entries /\ s[i].key = at(i) /\ s[i].val = data[at(i)]
  <2>1. \A k \in Held : data[k] \in Values
      BY DEF Held
  <2>2. \A i \in 1..N : [key |-> at(i), val |-> data[at(i)]] \in Entries
    <3> HIDE DEF Place
    <3> QED
        BY <1>1, <1>4, <2>1 DEF Entries
  <2> HIDE DEF Place, N
  <2> QED
      BY <1>3, <2>2
<1>6. s \in Seq(Entries) /\ DOMAIN s = 1..N
  <2>1. DOMAIN s = 1..N
      BY <1>3
  <2>2. s = [i \in 1..N |-> s[i]]
    <3> HIDE DEF N
    <3> QED
        BY <1>3
  <2>3. s \in [1..N -> Entries]
    <3> HIDE DEF N
    <3> QED
        BY <1>5, <2>2
  <2> HIDE DEF N
  <2> QED
      BY <1>1, <2>1, <2>3
<1>7. ASSUME NEW i \in 1..N, NEW j \in 1..N, i < j PROVE s[i].key < s[j].key
  <2>1. /\ at(i) \in Held /\ at(j) \in Held /\ at(i) \in Nat /\ at(j) \in Nat
        /\ Place(at(i)) = i - 1 /\ Place(at(j)) = j - 1
    <3> HIDE DEF Place
    <3> QED
        BY <1>1, <1>4
  <2>2. at(j) < at(i) => Place(at(j)) < Place(at(i))
    <3> HIDE DEF Place
    <3> QED
        BY <1>2, <2>1
  <2>3. at(i) = at(j) => i - 1 = j - 1
    <3> HIDE DEF Place
    <3> QED
        BY <2>1
  <2>4. i \in Nat /\ j \in Nat
      BY <1>1
  <2> HIDE DEF Place, N
  <2> QED
      BY <1>5, <1>7, <2>1, <2>2, <2>3, <2>4
<1>8. Ascending(s)
  <2> HIDE DEF N
  <2> QED
      BY <1>6, <1>7 DEF Ascending
<1>9. Sorted(s)
    BY <1>6, <1>8, EntriesAre
<1>10. ASSUME NEW k \in Keys PROVE HeldIn(Written(s), k) = data[k]
  <2>1. CASE k \in Held
    <3>1. Place(k) + 1 \in 1..N /\ (Place(k) + 1) - 1 = Place(k)
      <4>1. Place(k) \in 0..N - 1
          BY <1>2, <2>1
      <4> HIDE DEF Place, N
      <4> QED
          BY <1>1, <4>1
    <3>2. PICK i \in 1..N : i - 1 = Place(k)
      <4> HIDE DEF Place, N
      <4> QED
          BY <3>1
    <3>3. at(i) = k
      <4>1. at(i) \in Held /\ Place(at(i)) = Place(k)
        <5> HIDE DEF Place, N
        <5> QED
            BY <1>4, <3>2
      <4>2. /\ at(i) < k => Place(at(i)) < Place(k)
            /\ k < at(i) => Place(k) < Place(at(i))
            /\ Place(k) \in Nat /\ at(i) \in Nat /\ k \in Nat
        <5>1. \A l \in 0..N - 1 : l \in Nat
            OBVIOUS
        <5> HIDE DEF Place, N
        <5> QED
            BY <1>1, <1>2, <2>1, <4>1, <5>1
      <4> HIDE DEF Place
      <4> QED
          BY <4>1, <4>2
    <3>4. HeldIn(Written(s), s[i].key) = s[i].val
        BY <1>6, <1>9, HeldInIs
    <3> HIDE DEF N
    <3> QED
        BY <1>5, <3>3, <3>4
  <2>2. CASE k \notin Held
    <3>1. k \notin KeysOf(s)
      <4>1. \A i \in 1..N : s[i].key \in Held
        <5> HIDE DEF Place, N
        <5> QED
            BY <1>4, <1>5
      <4> HIDE DEF N
      <4> QED
          BY <1>6, <2>2, <4>1 DEF KeysOf
    <3>2. data[k] = NONE
        BY <2>2 DEF Held
    <3> QED
        BY <1>9, <3>1, <3>2, HeldInIs
  <2> QED
      BY <2>1, <2>2
<1> QED
    BY <1>6, <1>8, <1>10 DEF s

----------------------------------------------------------------------------
(* The size of the MemTable.                                               *)

HeldOf(d) == {k \in Keys : d[k] # NONE}
Weights(d) == [k \in HeldOf(d) |-> Bytes(k) + Bytes(d[k])]
SumOf(d) == MapThenSumSet(LAMBDA k : Bytes(k) + Bytes(d[k]), HeldOf(d))

\* The sum of SizeExact is one of the sums of the lemmas.
LEMMA SumOfIs ==
    ASSUME NEW d \in [Keys -> Values \cup {NONE}], IsFiniteSet(HeldOf(d))
    PROVE  \E h : IsSum(h, HeldOf(d), Weights(d)) /\ SumOf(d) = h[HeldOf(d)]
<1> DEFINE S == HeldOf(d)
           w == Weights(d)
           Iter(h) == [s \in SUBSET S |->
                          IF s = {} THEN 0
                          ELSE (Bytes(CHOOSE x \in s : TRUE) + Bytes(d[CHOOSE x \in s : TRUE]))
                                  + h[s \ {CHOOSE x \in s : TRUE}]]
           c == CHOOSE h : h = Iter(h)
<1>1. \E h : h = Sums(h, S, w)
  <2>1. IsFiniteSet(S)
      OBVIOUS
  <2> HIDE DEF S, w
  <2> QED
      BY <2>1, SumExists
<1>2. \A h : Sums(h, S, w) = Iter(h)
  <2> SUFFICES ASSUME NEW h PROVE Sums(h, S, w) = Iter(h)
      OBVIOUS
  <2>1. ASSUME NEW s \in SUBSET S, s # {}
        PROVE  w[CHOOSE x \in s : TRUE]
                   = Bytes(CHOOSE x \in s : TRUE) + Bytes(d[CHOOSE x \in s : TRUE])
    <3>1. PICK x : x = CHOOSE y \in s : TRUE
        OBVIOUS
    <3>2. x \in S
        BY <2>1, <3>1
    <3>3. w[x] = Bytes(x) + Bytes(d[x])
        BY <3>2 DEF Weights
    <3> QED
        BY <3>1, <3>3
  <2> HIDE DEF S, w
  <2> QED
      BY <2>1 DEF Sums
<1>3. c = Iter(c)
  <2>1. \E h : h = Iter(h)
    <3> HIDE DEF S, w, Iter
    <3> QED
        BY <1>1, <1>2
  <2> HIDE DEF Iter
  <2> QED
      BY <2>1
<1>4. SumOf(d) = c[S]
    BY DEF SumOf, MapThenSumSet, MapThenFoldSet
<1>5. IsSum(c, S, w)
  <2>1. c = Sums(c, S, w)
    <3> HIDE DEF c, S, w, Iter
    <3> QED
        BY <1>2, <1>3
  <2> HIDE DEF c, S, w
  <2> QED
      BY <2>1 DEF IsSum, Sums
<1> HIDE DEF c
<1> QED
    BY <1>4, <1>5

LEMMA SumOfEmpty ==
    /\ Empty \in [Keys -> Values \cup {NONE}] /\ HeldOf(Empty) = {}
    /\ IsFiniteSet(HeldOf(Empty)) /\ SumOf(Empty) = 0
<1>1. Empty \in [Keys -> Values \cup {NONE}] /\ HeldOf(Empty) = {}
    BY DEF Empty, HeldOf
<1>2. IsFiniteSet(HeldOf(Empty))
    BY <1>1, FS_EmptySet
<1>3. PICK h : IsSum(h, HeldOf(Empty), Weights(Empty)) /\ SumOf(Empty) = h[HeldOf(Empty)]
    BY <1>1, <1>2, SumOfIs
<1>4. h[{}] = 0
    BY <1>3 DEF IsSum
<1> QED
    BY <1>1, <1>2, <1>3, <1>4

\* What a write does to the sum, whether the key is there or not.
LEMMA SumOfWrite ==
    ASSUME NEW d \in [Keys -> Values \cup {NONE}], IsFiniteSet(HeldOf(d)),
           NEW k \in Keys, NEW v \in Values,
           NEW e \in [Keys -> Values \cup {NONE}], e[k] = v,
           \A j \in Keys : j # k => e[j] = d[j]
    PROVE  /\ IsFiniteSet(HeldOf(e))
           /\ SumOf(d) \in Nat
           /\ SumOf(e) = SumOf(d) - (IF k \in HeldOf(d) THEN Bytes(k) + Bytes(d[k]) ELSE 0)
                            + Bytes(k) + Bytes(v)
<1>1. v # NONE
    BY NoValueAssumption DEF Values
<1>2. HeldOf(e) = HeldOf(d) \cup {k}
    BY <1>1 DEF HeldOf
<1>3. IsFiniteSet(HeldOf(e))
  <2>1. IsFiniteSet(HeldOf(d) \cup {k})
      BY FS_AddElement
  <2> QED
      BY <1>2, <2>1
<1>4. /\ \A j \in Keys : Bytes(j) \in Nat
      /\ \A x \in Values : Bytes(x) \in Nat
    BY BytesAssumption DEF Values
<1>5. /\ \A x \in [Keys -> Values \cup {NONE}] : Weights(x) \in [HeldOf(x) -> Nat]
      /\ \A x \in [Keys -> Values \cup {NONE}] : \A j \in HeldOf(x) :
            Weights(x)[j] = Bytes(j) + Bytes(x[j])
  <2> SUFFICES ASSUME NEW x \in [Keys -> Values \cup {NONE}], NEW j \in HeldOf(x)
               PROVE  Bytes(j) + Bytes(x[j]) \in Nat
      BY DEF Weights
  <2>1. j \in Keys /\ x[j] \in Values
      BY DEF HeldOf
  <2> QED
      BY <1>4, <2>1
<1>6. PICK f : IsSum(f, HeldOf(d), Weights(d)) /\ SumOf(d) = f[HeldOf(d)]
    BY SumOfIs
<1>7. PICK g : IsSum(g, HeldOf(e), Weights(e)) /\ SumOf(e) = g[HeldOf(e)]
    BY <1>1, <1>3, SumOfIs
<1> DEFINE R == HeldOf(d) \ {k}
<1>8. R \in SUBSET HeldOf(d) /\ R = HeldOf(e) \ {k} /\ IsFiniteSet(R)
    BY <1>2, FS_RemoveElement
<1>9. f[R] = g[R]
  <2>1. \A j \in R : Weights(d)[j] = Weights(e)[j]
      BY <1>1, <1>2, <1>5 DEF HeldOf
  <2>2. IsSum(f, R, Weights(d))
      BY <1>6, <1>8 DEF IsSum
  <2>3. R \subseteq HeldOf(e) /\ IsFiniteSet(R)
      BY <1>8
  <2>4. IsSum(g, HeldOf(e), Weights(e))
      BY <1>7
  <2> HIDE DEF R
  <2> QED
      BY <2>1, <2>2, <2>3, <2>4, SumAgrees
<1>10. SumOf(e) = (Bytes(k) + Bytes(v)) + g[R]
  <2>1. k \in HeldOf(e)
      BY <1>2
  <2>2. g[HeldOf(e)] = Weights(e)[k] + g[HeldOf(e) \ {k}]
    <3>1. IsSum(g, HeldOf(e), Weights(e)) /\ Weights(e) \in [HeldOf(e) -> Nat]
        BY <1>1, <1>5, <1>7
    <3> QED
        BY <1>3, <2>1, <3>1, SumAny
  <2>3. Weights(e)[k] = Bytes(k) + Bytes(v)
      BY <1>1, <1>5, <2>1
  <2> HIDE DEF R
  <2> QED
      BY <1>7, <1>8, <2>2, <2>3
<1>11. f[R] \in Nat /\ SumOf(d) \in Nat
  <2>1. \A s \in SUBSET HeldOf(d) : f[s] \in Nat
      BY <1>5, <1>6, SumIsNat
  <2>2. HeldOf(d) \in SUBSET HeldOf(d)
      OBVIOUS
  <2> HIDE DEF R
  <2> QED
      BY <1>6, <1>8, <2>1, <2>2
<1>12. Bytes(k) \in Nat /\ Bytes(v) \in Nat
    BY <1>4
<1>13. CASE k \in HeldOf(d)
  <2>1. d[k] \in Values
      BY <1>13 DEF HeldOf
  <2>2. f[HeldOf(d)] = Weights(d)[k] + f[R]
    <3>1. IsSum(f, HeldOf(d), Weights(d)) /\ Weights(d) \in [HeldOf(d) -> Nat]
        BY <1>5, <1>6
    <3> QED
        BY <1>13, <3>1, SumAny
  <2>3. Weights(d)[k] = Bytes(k) + Bytes(d[k]) /\ Bytes(d[k]) \in Nat
      BY <1>4, <1>5, <1>13, <2>1
  <2>4. SumOf(d) = (Bytes(k) + Bytes(d[k])) + f[R]
      BY <1>6, <2>2, <2>3
  <2> HIDE DEF R
  <2>5. SumOf(e) = SumOf(d) - (Bytes(k) + Bytes(d[k])) + Bytes(k) + Bytes(v)
      BY <1>9, <1>10, <1>11, <1>12, <2>3, <2>4
  <2> QED
      BY <1>1, <1>3, <1>11, <1>13, <2>5
<1>14. CASE k \notin HeldOf(d)
  <2>1. R = HeldOf(d)
      BY <1>14
  <2> HIDE DEF R
  <2>2. SumOf(e) = SumOf(d) - 0 + Bytes(k) + Bytes(v)
      BY <1>6, <1>9, <1>10, <1>11, <1>12, <2>1
  <2> QED
      BY <1>1, <1>3, <1>11, <1>14, <2>2
<1> QED
    BY <1>13, <1>14

----------------------------------------------------------------------------
(* The invariant.                                                          *)

\* Every table is what flush() writes of sorted entries.
SortedTables == {Written(s) : s \in {t \in Seq(Entries) : Ascending(t)}}

TInv ==
    /\ data \in [Keys -> Values \cup {NONE}] /\ IsFiniteSet(HeldOf(data))
    /\ size = SumOf(data)
    /\ tables \in Seq(SortedTables)

LEMMA TableIs ==
    ASSUME NEW t \in SortedTables
    PROVE  /\ t.entries \in Seq(Entries) /\ Ascending(t.entries) /\ Sorted(t.entries)
           /\ t = Written(t.entries)
<1>1. PICK s \in Seq(Entries) : Ascending(s) /\ t = Written(s)
    BY DEF SortedTables
<1>2. t.entries = s
    BY <1>1 DEF Written
<1> QED
    BY <1>1, <1>2, EntriesAre

LEMMA HeldIs == Held = HeldOf(data)
    BY DEF Held, HeldOf

LEMMA TInit == TablesInit => TInv
<1> SUFFICES ASSUME TablesInit PROVE TInv
    OBVIOUS
<1>1. tables \in Seq(SortedTables)
    BY DEF TablesInit
<1> QED
    BY <1>1, SumOfEmpty DEF TablesInit, TInv

LEMMA TNext == TInv /\ [TablesNext]_tablesVars => TInv'
<1> SUFFICES ASSUME TInv, [TablesNext]_tablesVars PROVE TInv'
    OBVIOUS
<1>1. ASSUME NEW k \in Keys, NEW v \in Values, MemSet(k, v) PROVE TInv'
  <2>1. data' = [data EXCEPT ![k] = v] /\ UNCHANGED tables
      BY <1>1 DEF MemSet
  <2>2. size' = size - (IF k \in HeldOf(data) THEN Bytes(k) + Bytes(data[k]) ELSE 0)
                    + Bytes(k) + Bytes(v)
      BY <1>1, HeldIs DEF MemSet, SizeOfOld
  <2>3. data \in [Keys -> Values \cup {NONE}] /\ IsFiniteSet(HeldOf(data)) /\ size = SumOf(data)
      BY DEF TInv
  <2>4. PICK e : e = data'
      OBVIOUS
  <2>5. /\ e \in [Keys -> Values \cup {NONE}] /\ e[k] = v
        /\ \A j \in Keys : j # k => e[j] = data[j]
      BY <2>1, <2>3, <2>4
  <2>6. /\ IsFiniteSet(HeldOf(e))
        /\ SumOf(e) = SumOf(data) - (IF k \in HeldOf(data) THEN Bytes(k) + Bytes(data[k]) ELSE 0)
                         + Bytes(k) + Bytes(v)
      BY <2>3, <2>5, SumOfWrite
  <2>7. HeldOf(data)' = HeldOf(e) /\ SumOf(data)' = SumOf(e)
      BY <2>4
  <2> QED
      BY <2>1, <2>2, <2>3, <2>4, <2>5, <2>6, <2>7 DEF TInv
<1>2. CASE Flush
  <2>1. data' = Empty /\ size' = 0 /\ tables' = Append(tables, Written(SortedEntries))
      BY <1>2 DEF Flush
  <2>2. Written(SortedEntries) \in SortedTables
    <3>1. SortedEntries \in Seq(Entries) /\ Ascending(SortedEntries)
        BY HeldIs, SortedIs DEF TInv
    <3> QED
        BY <3>1 DEF SortedTables
  <2>3. tables' \in Seq(SortedTables)
      BY <2>1, <2>2, AppendProperties DEF TInv
  <2>4. HeldOf(data)' = HeldOf(Empty) /\ SumOf(data)' = SumOf(Empty)
      BY <2>1
  <2> QED
      BY <2>1, <2>3, <2>4, SumOfEmpty DEF TInv
<1>3. CASE MergeOldest
  <2> DEFINE m == Merged(tables[1].entries, tables[2].entries)
  <2>1. /\ tables' = <<Written(m)>> \o SubSeq(tables, 3, Len(tables)) /\ Len(tables) > 1
        /\ UNCHANGED <<data, size>>
      BY <1>3 DEF MergeOldest
  <2>2. tables \in Seq(SortedTables) /\ Len(tables) \in Nat
      BY DEF TInv
  <2>3. tables[1] \in SortedTables /\ tables[2] \in SortedTables
      BY <2>1, <2>2
  <2>4. m \in Seq(Entries) /\ Ascending(m)
      BY <2>3, TableIs, MergedHolds
  <2>5. Written(m) \in SortedTables
      BY <2>4 DEF SortedTables
  <2> HIDE DEF m
  <2>6. SubSeq(tables, 3, Len(tables)) \in Seq(SortedTables)
    <3>1. \A i \in 3..Len(tables) : tables[i] \in SortedTables
        BY <2>2
    <3> QED
        BY <2>2, <3>1, SubSeqProperties
  <2>7. <<Written(m)>> \in Seq(SortedTables)
      BY <2>5
  <2>8. tables' \in Seq(SortedTables)
      BY <2>1, <2>6, <2>7, ConcatProperties
  <2>9. HeldOf(data)' = HeldOf(data) /\ SumOf(data)' = SumOf(data)
      BY <2>1
  <2> QED
      BY <2>1, <2>8, <2>9 DEF TInv
<1>4. CASE UNCHANGED tablesVars
  <2>1. UNCHANGED <<data, size, tables>>
      BY <1>4 DEF tablesVars
  <2>2. HeldOf(data)' = HeldOf(data) /\ SumOf(data)' = SumOf(data)
      BY <2>1
  <2> QED
      BY <2>1, <2>2 DEF TInv
<1>5. TOMBSTONE \in Values /\ \A v \in UserValues : v \in Values
    BY DEF Values
<1> QED
    BY <1>1, <1>2, <1>3, <1>4, <1>5 DEF TablesNext, MemDel

THEOREM TablesInvariant == TablesSpec => []TInv
    BY TInit, TNext, PTL DEF TablesSpec

----------------------------------------------------------------------------
(* What it implies.                                                        *)

\* The bytes that the MemTable counts are those of its entries, through every
\* overwrite, deletion and flush (MemTable::set, del, clear).
THEOREM SizeIsExact == TablesSpec => []SizeExact
<1>1. TInv => SizeExact
    BY HeldIs DEF TInv, SizeExact, SumOf
<1> QED
    BY <1>1, TablesInvariant, PTL

\* Every table is sorted by key and holds no key twice, after every flush and every
\* merge (MemTable::get_sorted_entries, SSTable::compact).
THEOREM TablesAreOK == TablesSpec => []TablesOK
<1>1. ASSUME TInv PROVE TablesOK
  <2>1. size \in Nat
    <3>1. PICK h : IsSum(h, HeldOf(data), Weights(data)) /\ SumOf(data) = h[HeldOf(data)]
        BY <1>1, SumOfIs DEF TInv
    <3>2. Weights(data) \in [HeldOf(data) -> Nat]
      <4> SUFFICES ASSUME NEW k \in HeldOf(data) PROVE Bytes(k) + Bytes(data[k]) \in Nat
          BY DEF Weights
      <4>1. k \in Keys /\ data[k] \in Values
          BY <1>1 DEF TInv, HeldOf
      <4>2. Bytes(k) \in Nat /\ Bytes(data[k]) \in Nat
          BY <4>1, BytesAssumption DEF Values
      <4> QED
          BY <4>2
    <3>3. \A s \in SUBSET HeldOf(data) : h[s] \in Nat
        BY <1>1, <3>1, <3>2, SumIsNat DEF TInv
    <3>4. HeldOf(data) \in SUBSET HeldOf(data)
        OBVIOUS
    <3> QED
        BY <1>1, <3>1, <3>3, <3>4 DEF TInv
  <2>2. \A n \in DOMAIN tables : tables[n] \in SortedTables
      BY <1>1 DEF TInv
  <2>3. \A n \in DOMAIN tables : tables[n].entries \in Seq(Entries) /\ Ascending(tables[n].entries)
      BY <2>2, TableIs
  <2> QED
      BY <1>1, <2>1, <2>3 DEF TInv, TablesOK, Entries, Ascending
<1> QED
    BY <1>1, TablesInvariant, PTL

\* SSTable::get answers what a look through all entries would, of every key.
LEMMA SearchIs ==
    ASSUME NEW s \in Seq(Entries), Ascending(s), NEW k \in Keys
    PROVE  Search(Written(s), k) = HeldIn(Written(s), k)
<1>1. Sorted(s) /\ k \in Nat
    BY EntriesAre, KeysAssumption
<1>2. CASE k \in KeysOf(s)
  <2>1. PICK i \in DOMAIN s : s[i].key = k
      BY <1>2 DEF KeysOf
  <2>2. Search(Written(s), s[i].key) = s[i].val /\ HeldIn(Written(s), s[i].key) = s[i].val
      BY <1>1, SearchFinds, HeldInIs
  <2> QED
      BY <2>1, <2>2
<1>3. CASE k \notin KeysOf(s)
    BY <1>1, <1>3, SearchMisses, HeldInIs
<1> QED
    BY <1>2, <1>3

\* No key of a table is out of reach of its search, and no other key is found.
THEOREM SearchesFindAll == TablesSpec => []SearchFindsAll
<1>1. ASSUME TInv PROVE SearchFindsAll
  <2> SUFFICES ASSUME NEW n \in DOMAIN tables, NEW k \in Keys
               PROVE  Search(tables[n], k) = HeldIn(tables[n], k)
      BY DEF SearchFindsAll
  <2>1. tables[n] \in SortedTables
      BY <1>1 DEF TInv
  <2>2. PICK s : s \in Seq(Entries) /\ Ascending(s) /\ tables[n] = Written(s)
      BY <2>1, TableIs
  <2> QED
      BY <2>2, SearchIs
<1> QED
    BY <1>1, TablesInvariant, PTL

\* The constructor rebuilds the index and the filter that flush() had, from any file
\* that a flush or a merge wrote (SSTable::build_sparse_index).
THEOREM OpeningRestores == TablesSpec => []OpenRestores
<1>1. ASSUME TInv PROVE OpenRestores
  <2> SUFFICES ASSUME NEW n \in DOMAIN tables
               PROVE  Opened(tables[n].entries) = tables[n]
      BY DEF OpenRestores
  <2>1. tables[n] \in SortedTables
      BY <1>1 DEF TInv
  <2> QED
      BY <2>1, TableIs, OpenedIs
<1> QED
    BY <1>1, TablesInvariant, PTL

\* A merge loses no key of either table and lets the newer value win (SSTable::compact).
THEOREM MergesKeepNewest == TablesSpec => MergeKeepsNewest
<1> DEFINE Kept == Len(tables') < Len(tables)
                     => \A k \in Keys : Search(tables'[1], k) =
                            IF HeldIn(tables[2], k) # NONE THEN HeldIn(tables[2], k)
                            ELSE HeldIn(tables[1], k)
<1>1. ASSUME TInv, [TablesNext]_tablesVars PROVE Kept
  <2> SUFFICES ASSUME Len(tables') < Len(tables), NEW k \in Keys
               PROVE  Search(tables'[1], k) =
                          IF HeldIn(tables[2], k) # NONE THEN HeldIn(tables[2], k)
                          ELSE HeldIn(tables[1], k)
      OBVIOUS
  <2>1. tables \in Seq(SortedTables) /\ Len(tables) \in Nat
      BY <1>1 DEF TInv
  <2>2. tables' # tables
      BY <2>1
  <2>3. ~Flush
    <3> SUFFICES ASSUME Flush PROVE FALSE
        OBVIOUS
    <3>1. tables' = Append(tables, Written(SortedEntries))
        BY DEF Flush
    <3>2. Len(tables') = Len(tables) + 1
        BY <2>1, <3>1
    <3> QED
        BY <2>1, <3>2
  <2>4. MergeOldest
      BY <1>1, <2>2, <2>3 DEF TablesNext, tablesVars, MemDel, MemSet
  <2> DEFINE o == tables[1].entries
             n == tables[2].entries
  <2>5. /\ tables' = <<Written(Merged(o, n))>> \o SubSeq(tables, 3, Len(tables))
        /\ Len(tables) > 1
      BY <2>4 DEF MergeOldest
  <2>6. tables'[1] = Written(Merged(o, n))
    <3>1. <<Written(Merged(o, n))>> \in Seq({Written(Merged(o, n))})
        OBVIOUS
    <3>2. SubSeq(tables, 3, Len(tables)) \in Seq(SortedTables)
      <4>1. \A i \in 3..Len(tables) : tables[i] \in SortedTables
          BY <2>1
      <4> QED
          BY <2>1, <4>1, SubSeqProperties
    <3> HIDE DEF o, n
    <3> QED
        BY <2>5, <3>1, <3>2
  <2>7. tables[1] \in SortedTables /\ tables[2] \in SortedTables
      BY <2>1, <2>5
  <2>8. /\ o \in Seq(Entries) /\ n \in Seq(Entries) /\ Ascending(o) /\ Ascending(n)
        /\ tables[1] = Written(o) /\ tables[2] = Written(n)
      BY <2>7, TableIs
  <2> HIDE DEF o, n
  <2>9. /\ Search(tables'[1], k) = HeldIn(Written(Merged(o, n)), k)
        /\ HeldIn(Written(Merged(o, n)), k) = IF HeldIn(Written(n), k) # NONE
                                              THEN HeldIn(Written(n), k)
                                              ELSE HeldIn(Written(o), k)
      BY <2>6, <2>8, MergedHolds, SearchIs
  <2> QED
      BY <2>8, <2>9
<1>2. [TablesNext]_tablesVars /\ TInv => [Kept]_tablesVars
    BY <1>1
<1> QED
    BY <1>2, TablesInvariant, PTL DEF TablesSpec, MergeKeepsNewest

----------------------------------------------------------------------------
(* What LSMEngine takes its tables for.                                    *)

\* A table that flush() wrote of a MemTable answers every key as the MemTable did.
LEMMA FlushedAnswers ==
    ASSUME TInv, NEW k \in Keys
    PROVE  Search(Written(SortedEntries), k) = data[k]
<1>1. /\ SortedEntries \in Seq(Entries) /\ Ascending(SortedEntries)
      /\ HeldIn(Written(SortedEntries), k) = data[k]
    BY HeldIs, SortedIs DEF TInv
<1> QED
    BY <1>1, SearchIs

\* The merge of two tables answers as the newer one over the older one does.
LEMMA MergedAnswers ==
    ASSUME NEW t \in SortedTables, NEW u \in SortedTables, NEW k \in Keys
    PROVE  Search(Written(Merged(t.entries, u.entries)), k) =
               IF Search(u, k) # NONE THEN Search(u, k) ELSE Search(t, k)
<1> DEFINE o == t.entries
           n == u.entries
           m == Merged(o, n)
<1>1. /\ o \in Seq(Entries) /\ n \in Seq(Entries) /\ Ascending(o) /\ Ascending(n)
      /\ t = Written(o) /\ u = Written(n)
    BY TableIs
<1> HIDE DEF o, n
<1>2. /\ m \in Seq(Entries) /\ Ascending(m)
      /\ HeldIn(Written(m), k) = IF HeldIn(Written(n), k) # NONE THEN HeldIn(Written(n), k)
                                 ELSE HeldIn(Written(o), k)
    BY <1>1, MergedHolds
<1>3. /\ Search(Written(m), k) = HeldIn(Written(m), k)
      /\ Search(u, k) = HeldIn(Written(n), k)
      /\ Search(t, k) = HeldIn(Written(o), k)
    BY <1>1, <1>2, SearchIs
<1> QED
    BY <1>2, <1>3 DEF o, n

\* What a search of each table answers, for each key.
Answers == [n \in DOMAIN tables |-> [k \in Keys |-> Search(tables[n], k)]]

Layered == INSTANCE Layers WITH memtable <- data, layers <- Answers

\* Seen through get(), a table is the dictionary that was flushed, and a merged one
\* is the newer of the two laid over the older.
ImplementsLayers == Layered!LayersSpec

\* What the tables of a sequence answer, key by key.
AnswersOf(ts) == [n \in DOMAIN ts |-> [k \in Keys |-> Search(ts[n], k)]]

LEMMA AnswersAre == Answers = AnswersOf(tables)
    BY DEF Answers, AnswersOf

LEMMA LayersInitMaps == TablesInit => Layered!LayersInit
    BY DEF TablesInit, Empty, Answers, Layered!LayersInit, Layered!EmptyLayer

\* A flush freezes what the MemTable holds.
LEMMA FlushMaps ==
    ASSUME TInv, Flush
    PROVE  Layered!Freeze
<1> DEFINE w == Written(SortedEntries)
           ts == Append(tables, w)
<1>1. /\ tables \in Seq(SortedTables) /\ Len(tables) \in Nat /\ DOMAIN tables = 1..Len(tables)
      /\ data \in [Keys -> Values \cup {NONE}]
    BY DEF TInv
<1>2. tables' = ts /\ data' = Empty /\ Held # {}
    BY DEF Flush
<1>3. data # Empty
    BY <1>2 DEF Held, Empty
<1>4. [k \in Keys |-> Search(w, k)] = data
    BY <1>1, FlushedAnswers
<1>5. w \in SortedTables
  <2>1. SortedEntries \in Seq(Entries) /\ Ascending(SortedEntries)
      BY HeldIs, SortedIs DEF TInv
  <2> QED
      BY <2>1 DEF SortedTables
<1> HIDE DEF w
<1>6. /\ DOMAIN ts = 1..Len(tables) + 1
      /\ \A n \in 1..Len(tables) : ts[n] = tables[n]
      /\ ts[Len(tables) + 1] = w
    BY <1>1, <1>5, AppendProperties
<1>7. AnswersOf(ts) = Append(AnswersOf(tables), data)
  <2> DEFINE a == AnswersOf(tables)
             b == AnswersOf(ts)
  <2>1. DOMAIN a = 1..Len(tables) /\ DOMAIN b = 1..Len(tables) + 1
      BY <1>1, <1>6 DEF AnswersOf
  <2>2. \A n \in 1..Len(tables) : b[n] = a[n]
      BY <1>1, <1>6 DEF AnswersOf
  <2>3. b[Len(tables) + 1] = data
      BY <1>1, <1>4, <1>6 DEF AnswersOf
  <2>4. b = [n \in 1..Len(tables) + 1 |-> b[n]]
      BY <1>6 DEF AnswersOf
  <2> DEFINE T == {a[n] : n \in 1..Len(tables)} \cup {data}
  <2>5. a \in Seq(T) /\ data \in T
      BY <1>1, <2>1 DEF AnswersOf
  <2> HIDE DEF a, b, T
  <2>6. /\ Len(a) = Len(tables)
        /\ Append(a, data) \in Seq(T) /\ Len(Append(a, data)) = Len(a) + 1
        /\ \A n \in 1..Len(a) : Append(a, data)[n] = a[n]
        /\ Append(a, data)[Len(a) + 1] = data
      BY <1>1, <2>1, <2>5, AppendProperties
  <2>7. Append(a, data) = [n \in 1..Len(tables) + 1 |-> Append(a, data)[n]]
    <3> DEFINE c == Append(a, data)
    <3>1. c \in Seq(T) /\ Len(c) = Len(tables) + 1
        BY <2>6
    <3> HIDE DEF c
    <3>2. c = [n \in 1..Len(tables) + 1 |-> c[n]]
        BY <3>1
    <3> QED
        BY <3>2 DEF c
  <2>8. \A n \in 1..Len(tables) + 1 : b[n] = Append(a, data)[n]
      BY <1>1, <2>2, <2>3, <2>6
  <2> QED
      BY <2>4, <2>7, <2>8 DEF a, b
<1>8. Answers' = AnswersOf(ts)
    BY <1>2 DEF Answers, AnswersOf
<1> QED
    BY <1>2, <1>3, <1>7, <1>8, AnswersAre DEF Layered!Freeze, Layered!EmptyLayer, Empty

\* A merge lays the second oldest over the oldest and leaves the others alone.
LEMMA MergeMaps ==
    ASSUME TInv, MergeOldest
    PROVE  Layered!Unite
<1> DEFINE w == Written(Merged(tables[1].entries, tables[2].entries))
           rest == SubSeq(tables, 3, Len(tables))
<1>1. tables \in Seq(SortedTables) /\ Len(tables) \in Nat /\ DOMAIN tables = 1..Len(tables)
    BY DEF TInv
<1>2. tables' = <<w>> \o rest /\ Len(tables) > 1 /\ data' = data
    BY DEF MergeOldest
<1>3. tables[1] \in SortedTables /\ tables[2] \in SortedTables
    BY <1>1, <1>2
<1>4. \A k \in Keys : Search(w, k) = IF Search(tables[2], k) # NONE THEN Search(tables[2], k)
                                    ELSE Search(tables[1], k)
    BY <1>3, MergedAnswers
<1> HIDE DEF w
<1>5. /\ DOMAIN tables' = 1..Len(tables) - 1
      /\ tables'[1] = w
      /\ \A n \in 2..Len(tables) - 1 : tables'[n] = tables[n + 1]
  <2>1. rest \in Seq(SortedTables) /\ Len(rest) = Len(tables) - 2
        /\ \A i \in 1..Len(rest) : rest[i] = tables[i + 2]
    <3>1. \A i \in 3..Len(tables) : tables[i] \in SortedTables
        BY <1>1
    <3> QED
        BY <1>1, <1>2, <3>1, SubSeqProperties
  <2> HIDE DEF rest
  <2>2. /\ Len(<<w>> \o rest) = 1 + Len(rest)
        /\ DOMAIN (<<w>> \o rest) = 1..1 + Len(rest)
        /\ (<<w>> \o rest)[1] = w
        /\ \A n \in 2..1 + Len(rest) : (<<w>> \o rest)[n] = rest[n - 1]
      BY <2>1
  <2>3. tables' = <<w>> \o rest
      BY <1>2 DEF rest
  <2>4. Len(rest) + 1 = Len(tables) - 1 /\ 1 + Len(rest) = Len(tables) - 1
      BY <1>1, <2>1
  <2>5. ASSUME NEW n \in 2..Len(tables) - 1 PROVE tables'[n] = tables[n + 1]
    <3>1. n \in 2..1 + Len(rest) /\ n - 1 \in 1..Len(rest) /\ (n - 1) + 2 = n + 1
        BY <1>1, <2>4
    <3>2. tables'[n] = rest[n - 1]
        BY <2>2, <2>3, <3>1
    <3>3. rest[n - 1] = tables[(n - 1) + 2]
        BY <2>1, <3>1
    <3> QED
        BY <3>1, <3>2, <3>3
  <2> QED
      BY <2>2, <2>3, <2>4, <2>5
<1>6. /\ DOMAIN Answers = 1..Len(tables)
      /\ \A n \in 1..Len(tables) : Answers[n] = [k \in Keys |-> Search(tables[n], k)]
      /\ Len(Answers) = Len(tables)
  <2>1. Answers = [n \in 1..Len(tables) |-> [k \in Keys |-> Search(tables[n], k)]]
      BY <1>1 DEF Answers
  <2> QED
      BY <1>1, <2>1
<1>7. Answers' = [n \in 1..Len(tables) - 1 |-> [k \in Keys |-> Search(tables'[n], k)]]
    BY <1>5 DEF Answers
<1>8. Answers' = [n \in 1..Len(Answers) - 1 |->
                     IF n = 1 THEN [k \in Keys |-> Layered!Over(Answers[2][k], Answers[1][k])]
                     ELSE Answers[n + 1]]
  <2>1. [k \in Keys |-> Search(w, k)] =
            [k \in Keys |-> Layered!Over(Answers[2][k], Answers[1][k])]
      BY <1>1, <1>2, <1>4, <1>6 DEF Layered!Over
  <2>2. \A n \in 1..Len(tables) - 1 : n # 1 =>
            [k \in Keys |-> Search(tables'[n], k)] = Answers[n + 1]
    <3> SUFFICES ASSUME NEW n \in 1..Len(tables) - 1, n # 1
                 PROVE  [k \in Keys |-> Search(tables'[n], k)] = Answers[n + 1]
        OBVIOUS
    <3>1. n \in 2..Len(tables) - 1 /\ n + 1 \in 1..Len(tables)
        BY <1>1
    <3>2. tables'[n] = tables[n + 1] /\ Answers[n + 1] = [k \in Keys |-> Search(tables[n + 1], k)]
        BY <1>5, <1>6, <3>1
    <3> QED
        BY <3>2
  <2> QED
      BY <1>5, <1>6, <1>7, <2>1, <2>2
<1> QED
    BY <1>2, <1>6, <1>8 DEF Layered!Unite

\* The refinement.  For any keys, stride, hash functions and number of tables, the
\* MemTable, flush(), compact() and get() with its filter and sparse index are the
\* stack of dictionaries that LSMEngine's get() searches (memtable.cpp, sstable.cpp).
THEOREM TablesAreLayers == TablesSpec => ImplementsLayers
<1>1. TInv /\ [TablesNext]_tablesVars => [Layered!LayersNext]_(Layered!layersVars)
  <2> SUFFICES ASSUME TInv, [TablesNext]_tablesVars
               PROVE  [Layered!LayersNext]_(Layered!layersVars)
      OBVIOUS
  <2>1. ASSUME NEW k \in Keys, NEW v \in Values, MemSet(k, v) PROVE Layered!Write(k, v)
      BY <2>1 DEF MemSet, Answers, Layered!Write
  <2>2. TOMBSTONE \in Values /\ \A v \in UserValues : v \in Values
      BY DEF Values
  <2>3. CASE UNCHANGED tablesVars
      BY <2>3 DEF tablesVars, Answers, Layered!layersVars
  <2> QED
      BY <2>1, <2>2, <2>3, FlushMaps, MergeMaps DEF TablesNext, MemDel, Layered!LayersNext
<1> QED
    BY <1>1, LayersInitMaps, TablesInvariant, PTL
       DEF TablesSpec, ImplementsLayers, Layered!LayersSpec
=============================================================================
