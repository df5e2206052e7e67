-------------------------- MODULE LSMEngineProofs --------------------------
(***************************************************************************)
(* Proofs about LSMEngine, for every value of its constants: its types;    *)
(* that it keeps what it acknowledged, in every layer, where no two        *)
(* flushes share a millisecond; and that it implements KVStore.            *)
(***************************************************************************)
EXTENDS LSMEngine, FiniteSetTheorems, SequenceTheorems, TLAPS

----------------------------------------------------------------------------
(* Finite sets of naturals.                                                *)

Rank(S, p) == Cardinality({q \in S : q <= p})

\* The members of a finite set of naturals have ranks 1 .. its cardinality.
LEMMA RankSurjective ==
    ASSUME NEW S, S \subseteq Nat, IsFiniteSet(S), NEW n \in 1..Cardinality(S)
    PROVE  \E p \in S : Rank(S, p) = n
<1> DEFINE r == [p \in S |-> Rank(S, p)]
           T == 1..Cardinality(S)
<1>1. Cardinality(S) \in Nat
    BY FS_CardinalityType
<1>2. ASSUME NEW p \in S PROVE Rank(S, p) \in T
  <2> DEFINE below == {q \in S : q <= p}
  <2>1. below \in SUBSET S
      OBVIOUS
  <2>2. IsFiniteSet(below) /\ Cardinality(below) <= Cardinality(S)
      BY <2>1, FS_Subset
  <2>3. Cardinality(below) \in Nat
      BY <2>2, FS_CardinalityType
  <2>4. p \in below
      BY <1>2
  <2>5. Cardinality(below) # 0
      BY <2>2, <2>4, FS_EmptySet
  <2> QED
      BY <2>2, <2>3, <2>5, <1>1 DEF Rank
<1>3. ASSUME NEW p \in S, NEW q \in S, p < q PROVE Rank(S, p) # Rank(S, q)
  <2> DEFINE A == {x \in S : x <= p}
             B == {x \in S : x <= q}
  <2>1. A \subseteq B /\ B \subseteq S
    <3>1. \A x \in S : x <= p => x <= q
        BY <1>3
    <3> QED
        BY <3>1
  <2>2. IsFiniteSet(B)
      BY <2>1, FS_Subset
  <2>3. q \in B /\ q \notin A
      BY <1>3
  <2>4. Cardinality(B) = Cardinality(A) => B = A
      BY <2>1, <2>2, FS_Subset
  <2> QED
      BY <2>3, <2>4 DEF Rank
<1>4. \A p, q \in S : p # q => Rank(S, p) # Rank(S, q)
  <2> SUFFICES ASSUME NEW p \in S, NEW q \in S, p # q PROVE Rank(S, p) # Rank(S, q)
      OBVIOUS
  <2>1. p < q \/ q < p
      OBVIOUS
  <2> QED
      BY <2>1, <1>3
<1>5. r \in Injection(S, T)
    BY <1>2, <1>4 DEF Injection, IsInjective
<1>6. IsFiniteSet(T) /\ Cardinality(T) = Cardinality(S)
    BY <1>1, FS_Interval
<1>7. r \in Surjection(S, T)
  <2> HIDE DEF r, T
  <2> QED
    BY <1>5, <1>6, FS_Injection
<1> QED
    BY <1>7 DEF Surjection

\* A finite, non-empty set of naturals has a greatest member.
LEMMA LatestExists ==
    ASSUME NEW S, S \subseteq Nat, IsFiniteSet(S), S # {}
    PROVE  Latest(S) \in S /\ \A j \in S : j <= Latest(S)
<1>1. Cardinality(S) \in Nat /\ Cardinality(S) # 0
    BY FS_CardinalityType, FS_EmptySet
<1> DEFINE n == Cardinality(S)
<1>2. n \in 1..n
    BY <1>1
<1> HIDE DEF n
<1>3. PICK p \in S : Rank(S, p) = n
    BY <1>2, RankSurjective DEF n
<1>4. {q \in S : q <= p} = S
    BY <1>3, FS_Subset DEF Rank, n
<1>5. \A j \in S : j <= p
    BY <1>4
<1> QED
    BY <1>5 DEF Latest

\* The latest member is determined by its defining property.
LEMMA LatestIs ==
    ASSUME NEW S, S \subseteq Nat, NEW i \in S, \A j \in S : j <= i
    PROVE  Latest(S) = i
<1>1. \A x \in S : (\A j \in S : j <= x) => x = i
    OBVIOUS
<1> QED
    BY <1>1 DEF Latest

----------------------------------------------------------------------------
(* The search of the tables.                                               *)

Directory(fs) == DOMAIN fs \subseteq Nat /\ \A p \in DOMAIN fs : fs[p] \in Table

\* No table holds k; the table at i is the last that does.
Absent(fs, ss, k)    == \A j \in DOMAIN ss : TableOf(fs, ss[j])[k] = NONE
LastAt(fs, ss, k, i) == /\ i \in DOMAIN ss
                        /\ TableOf(fs, ss[i])[k] # NONE
                        /\ \A j \in DOMAIN ss : j > i => TableOf(fs, ss[j])[k] = NONE

\* A search stops at the last table that holds the key.
LEMMA LookupFinds ==
    ASSUME NEW fs, NEW ss \in Seq(Nat), NEW k, NEW i, LastAt(fs, ss, k, i)
    PROVE  Lookup(fs, ss, k) = TableOf(fs, ss[i])[k]
<1> DEFINE H == Holders(fs, ss, k)
<1>1. DOMAIN ss \subseteq Nat
    OBVIOUS
<1>2. H \subseteq Nat /\ i \in H
    BY <1>1 DEF Holders, LastAt
<1>3. \A j \in H : j <= i
    BY <1>1 DEF Holders, LastAt
<1>4. Latest(H) = i
    BY <1>2, <1>3, LatestIs
<1> QED
    BY <1>2, <1>4 DEF Lookup

\* A search finds nothing when no table holds the key.
LEMMA LookupMisses ==
    ASSUME NEW fs, NEW ss, NEW k, Absent(fs, ss, k)
    PROVE  Lookup(fs, ss, k) = NONE
BY DEF Lookup, Holders, Absent

\* One or the other is the case.
LEMMA LookupCases ==
    ASSUME NEW fs, NEW ss \in Seq(Nat), NEW k
    PROVE  Absent(fs, ss, k) \/ \E i : LastAt(fs, ss, k, i)
<1> DEFINE H == Holders(fs, ss, k)
<1> SUFFICES ASSUME H # {}
             PROVE  \E i : LastAt(fs, ss, k, i)
    BY DEF Holders, Absent
<1>1. DOMAIN ss = 1..Len(ss) /\ Len(ss) \in Nat
    OBVIOUS
<1>2. H \subseteq 1..Len(ss)
    BY <1>1 DEF Holders
<1>3. IsFiniteSet(1..Len(ss))
    BY <1>1, FS_Interval
<1>4. IsFiniteSet(H)
    BY <1>2, <1>3, FS_Subset
<1>5. H \subseteq Nat
    BY <1>1, <1>2
<1>6. Latest(H) \in H /\ \A j \in H : j <= Latest(H)
  <2> HIDE DEF H
  <2> QED
    BY <1>4, <1>5, LatestExists
<1>7. \A j \in DOMAIN ss : j > Latest(H) => j \notin H
    BY <1>1, <1>5, <1>6
<1> QED
    BY <1>6, <1>7 DEF Holders, LastAt

\* What a search returns is a stored value or nothing.
LEMMA LookupType ==
    ASSUME NEW fs, Directory(fs), NEW ss \in Seq(Nat), NEW k \in Keys
    PROVE  Lookup(fs, ss, k) \in Stored \cup {NONE}
<1>1. CASE Absent(fs, ss, k)
    BY <1>1, LookupMisses
<1>2. CASE \E i : LastAt(fs, ss, k, i)
  <2>1. PICK i : Lookup(fs, ss, k) = TableOf(fs, ss[i])[k]
      BY <1>2, LookupFinds
  <2>2. TableOf(fs, ss[i]) \in Table
      BY DEF TableOf, EmptyTable, Directory, Table
  <2> QED
      BY <2>1, <2>2 DEF Table
<1> QED
    BY <1>1, <1>2, LookupCases

\* A flushed table, under a name of its own, is searched first.
LEMMA LookupFlushed ==
    ASSUME NEW fs, NEW ss \in Seq(Nat), NEW p \in Nat, NEW m, NEW k \in Keys,
           p \notin DOMAIN fs, \A i \in DOMAIN ss : ss[i] \in DOMAIN fs
    PROVE  Lookup(WithFile(fs, p, m), Append(ss, p), k) = Over(m[k], Lookup(fs, ss, k))
<1> DEFINE gs == WithFile(fs, p, m)
           tt == Append(ss, p)
           n  == Len(ss) + 1
<1>1. /\ n \in Nat /\ tt \in Seq(Nat) /\ DOMAIN ss = 1..Len(ss) /\ Len(ss) \in Nat
      /\ DOMAIN tt = 1..n /\ tt[n] = p /\ n \in DOMAIN tt
      /\ \A i \in DOMAIN ss : tt[i] = ss[i] /\ i \in DOMAIN tt /\ i < n
    OBVIOUS
<1>2. TableOf(gs, tt[n]) = m
    BY <1>1 DEF TableOf, WithFile
<1>3. \A i \in DOMAIN ss : TableOf(gs, tt[i]) = TableOf(fs, ss[i])
    BY <1>1 DEF TableOf, WithFile
<1>4. \A j \in DOMAIN tt : j \in DOMAIN ss \/ j = n
    BY <1>1
<1> HIDE DEF gs, tt, n
<1>5. CASE m[k] # NONE
  <2>1. \A j \in DOMAIN tt : ~(j > n)
      BY <1>1
  <2>2. LastAt(gs, tt, k, n)
      BY <1>1, <1>2, <1>5, <2>1 DEF LastAt
  <2>3. Lookup(gs, tt, k) = m[k]
      BY <1>1, <1>2, <2>2, LookupFinds
  <2> QED
      BY <1>5, <2>3 DEF Over, gs, tt
<1>6. CASE m[k] = NONE /\ Absent(fs, ss, k)
  <2>1. Absent(gs, tt, k)
      BY <1>2, <1>3, <1>4, <1>6 DEF Absent
  <2>2. Lookup(gs, tt, k) = NONE /\ Lookup(fs, ss, k) = NONE
      BY <1>6, <2>1, LookupMisses
  <2> QED
      BY <1>6, <2>2 DEF Over, gs, tt
<1>7. CASE m[k] = NONE /\ \E i : LastAt(fs, ss, k, i)
  <2>1. PICK i : LastAt(fs, ss, k, i)
      BY <1>7
  <2>2. LastAt(gs, tt, k, i)
      BY <1>1, <1>2, <1>3, <1>4, <1>7, <2>1 DEF LastAt
  <2>3. Lookup(gs, tt, k) = TableOf(gs, tt[i])[k]
      BY <1>1, <2>2, LookupFinds
  <2>4. Lookup(fs, ss, k) = TableOf(fs, ss[i])[k]
      BY <2>1, LookupFinds
  <2> QED
      BY <1>3, <1>7, <2>1, <2>3, <2>4 DEF LastAt, Over, gs, tt
<1> QED
    BY <1>5, <1>6, <1>7, LookupCases DEF gs, tt

----------------------------------------------------------------------------
(* Compaction.                                                             *)

CompactedFiles(fs, ss, out) ==
    [p \in Kept(fs, ss[1], ss[2]) \cup {out} |->
        IF p = out THEN Merge(TableOf(fs, ss[1]), TableOf(fs, ss[2])) ELSE fs[p]]

CompactedVector(ss, out) ==
    [i \in 1..Len(ss) - 1 |-> IF i = 1 THEN out ELSE ss[i + 1]]

Distinct(ss) == \A i, j \in DOMAIN ss : ss[i] = ss[j] => i = j
Names(ss)    == {ss[i] : i \in DOMAIN ss}

\* Merging the two oldest tables changes no search.
LEMMA LookupCompacted ==
    ASSUME NEW fs, NEW ss \in Seq(Nat), NEW out \in Nat, NEW k \in Keys,
           Len(ss) > 1, out \notin DOMAIN fs, Distinct(ss),
           \A i \in DOMAIN ss : ss[i] \in DOMAIN fs
    PROVE  Lookup(CompactedFiles(fs, ss, out), CompactedVector(ss, out), k)
             = Lookup(fs, ss, k)
<1> DEFINE gs == CompactedFiles(fs, ss, out)
           tt == CompactedVector(ss, out)
<1>1. /\ Len(ss) \in Nat /\ DOMAIN ss = 1..Len(ss)
      /\ 1 \in DOMAIN ss /\ 2 \in DOMAIN ss
      /\ DOMAIN tt = 1..Len(ss) - 1 /\ 1 \in DOMAIN tt
    BY DEF CompactedVector
<1>2. \A j \in DOMAIN tt : j # 1 => j + 1 \in DOMAIN ss /\ j + 1 > 2 /\ tt[j] = ss[j + 1]
    BY <1>1 DEF CompactedVector
<1>3. tt[1] = out
    BY <1>1 DEF CompactedVector
<1>4. tt \in Seq(Nat)
  <2>1. \A j \in DOMAIN tt : tt[j] \in Nat
      BY <1>1, <1>2, <1>3
  <2>2. Len(ss) - 1 \in Nat
      BY <1>1
  <2>3. tt = [j \in 1..Len(ss) - 1 |-> tt[j]]
      BY DEF CompactedVector
  <2> QED
      BY <1>1, <2>1, <2>2, <2>3
<1>5. TableOf(gs, tt[1])[k] = Over(TableOf(fs, ss[2])[k], TableOf(fs, ss[1])[k])
    BY <1>3 DEF TableOf, CompactedFiles, Merge
<1>6. \A j \in DOMAIN tt : j # 1 => TableOf(gs, tt[j]) = TableOf(fs, ss[j + 1])
  <2> SUFFICES ASSUME NEW j \in DOMAIN tt, j # 1
               PROVE  TableOf(gs, tt[j]) = TableOf(fs, ss[j + 1])
      OBVIOUS
  <2>1. j + 1 \in DOMAIN ss /\ tt[j] = ss[j + 1] /\ j + 1 # 1 /\ j + 1 # 2
      BY <1>1, <1>2
  <2>2. ss[j + 1] # ss[1] /\ ss[j + 1] # ss[2]
      BY <1>1, <2>1 DEF Distinct
  <2>3. ss[j + 1] \in DOMAIN fs /\ ss[j + 1] # out
      BY <2>1
  <2> QED
      BY <2>1, <2>2, <2>3 DEF TableOf, CompactedFiles, Kept
<1>7. \A i \in DOMAIN ss : i > 2 => i - 1 \in DOMAIN tt /\ i - 1 # 1 /\ (i - 1) + 1 = i
    BY <1>1
<1> HIDE DEF gs, tt
<1>8. CASE Absent(fs, ss, k)
  <2>1. Absent(gs, tt, k)
      BY <1>1, <1>2, <1>5, <1>6, <1>8 DEF Absent, Over
  <2> QED
      BY <1>8, <2>1, LookupMisses DEF gs, tt
<1>9. ASSUME NEW i, LastAt(fs, ss, k, i), i > 2
      PROVE  Lookup(gs, tt, k) = Lookup(fs, ss, k)
  <2>1. i \in DOMAIN ss /\ i \in Nat
      BY <1>1, <1>9 DEF LastAt
  <2>2. i - 1 \in DOMAIN tt /\ i - 1 # 1 /\ (i - 1) + 1 = i
      BY <1>7, <1>9, <2>1
  <2>3. TableOf(gs, tt[i - 1]) = TableOf(fs, ss[i])
      BY <1>6, <2>2
  <2>4. \A j \in DOMAIN tt : j > i - 1 => j # 1 /\ j + 1 \in DOMAIN ss /\ j + 1 > i
      BY <1>1, <1>2, <1>9, <2>1
  <2>5. LastAt(gs, tt, k, i - 1)
      BY <1>6, <1>9, <2>2, <2>3, <2>4 DEF LastAt
  <2>6. Lookup(gs, tt, k) = TableOf(gs, tt[i - 1])[k]
      BY <1>4, <2>5, LookupFinds DEF gs, tt
  <2>7. Lookup(fs, ss, k) = TableOf(fs, ss[i])[k]
      BY <1>9, LookupFinds
  <2> QED
      BY <2>3, <2>6, <2>7
<1>10. ASSUME NEW i, LastAt(fs, ss, k, i), ~(i > 2)
       PROVE  Lookup(gs, tt, k) = Lookup(fs, ss, k)
  <2>1. i = 1 \/ i = 2
      BY <1>1, <1>10 DEF LastAt
  <2>2. TableOf(gs, tt[1])[k] = TableOf(fs, ss[i])[k]
      BY <1>1, <1>5, <1>10, <2>1 DEF LastAt, Over
  <2>3. \A j \in DOMAIN tt : j > 1 => j # 1 /\ j + 1 \in DOMAIN ss /\ j + 1 > i
      BY <1>1, <1>2, <2>1
  <2>4. LastAt(gs, tt, k, 1)
      BY <1>1, <1>6, <1>10, <2>2, <2>3 DEF LastAt
  <2>5. Lookup(gs, tt, k) = TableOf(gs, tt[1])[k]
      BY <1>4, <2>4, LookupFinds DEF gs, tt
  <2>6. Lookup(fs, ss, k) = TableOf(fs, ss[i])[k]
      BY <1>10, LookupFinds
  <2> QED
      BY <2>2, <2>5, <2>6
<1> QED
    BY <1>8, <1>9, <1>10, LookupCases DEF gs, tt

----------------------------------------------------------------------------
(* The log.                                                                *)

\* A record appended to the log takes effect after all the others.
LEMMA ReplayAppend ==
    ASSUME NEW w \in Seq(LogRecord), NEW r \in LogRecord, NEW k \in Keys
    PROVE  Replay(Append(w, r))[k] = IF r.key = k THEN Effect(r) ELSE Replay(w)[k]
<1> DEFINE x == Append(w, r)
           n == Len(w) + 1
           old == {i \in DOMAIN w : w[i].key = k}
           new == {i \in DOMAIN x : x[i].key = k}
<1>1. /\ n \in Nat /\ DOMAIN w = 1..Len(w) /\ DOMAIN x = 1..n /\ x[n] = r
      /\ \A i \in DOMAIN w : x[i] = w[i] /\ i < n
    OBVIOUS
<1>2. /\ Replay(x)[k] = IF new = {} THEN NONE ELSE Effect(x[Latest(new)])
      /\ Replay(w)[k] = IF old = {} THEN NONE ELSE Effect(w[Latest(old)])
    BY DEF Replay
<1>3. new \subseteq Nat /\ old \subseteq Nat
    BY <1>1
<1>4. CASE r.key = k
  <2>1. n \in new /\ \A j \in new : j <= n
      BY <1>1, <1>4
  <2>2. Latest(new) = n
    <3> HIDE DEF new, n
    <3> QED
      BY <1>3, <2>1, LatestIs
  <2> QED
      BY <1>1, <1>2, <1>4, <2>1, <2>2
<1>5. CASE r.key # k
  <2>1. new = old
      BY <1>1, <1>5
  <2>2. old # {} => Latest(old) \in DOMAIN w
    <3>1. IsFiniteSet(old)
      <4>1. IsFiniteSet(1..Len(w))
          BY FS_Interval
      <4> QED
          BY <1>1, <4>1, FS_Subset
    <3>2. old # {} => Latest(old) \in old
      <4> HIDE DEF old
      <4> QED
          BY <1>3, <3>1, LatestExists
    <3> QED
        BY <3>2
  <2> HIDE DEF old, new
  <2> QED
      BY <1>1, <1>2, <1>5, <2>1, <2>2
<1> QED
    BY <1>4, <1>5

\* Replaying a log fills a table.
LEMMA ReplayType ==
    ASSUME NEW w \in Seq(LogRecord)
    PROVE  Replay(w) \in Table
<1> SUFFICES ASSUME NEW k \in Keys
             PROVE  LET on == {i \in DOMAIN w : w[i].key = k}
                    IN  (IF on = {} THEN NONE ELSE Effect(w[Latest(on)])) \in Stored \cup {NONE}
    BY DEF Replay, Table
<1> DEFINE on == {i \in DOMAIN w : w[i].key = k}
<1>1. DOMAIN w = 1..Len(w) /\ Len(w) \in Nat /\ IsFiniteSet(1..Len(w))
    BY FS_Interval
<1>2. on \subseteq Nat /\ IsFiniteSet(on)
    BY <1>1, FS_Subset
<1>3. on # {} => Latest(on) \in on
  <2> HIDE DEF on
  <2> QED
    BY <1>2, LatestExists
<1>4. \A r \in LogRecord : Effect(r) \in Stored \cup {NONE}
    BY DEF Effect, LogRecord, Stored
<1>5. \A i \in DOMAIN w : w[i] \in LogRecord
    OBVIOUS
<1> QED
    BY <1>3, <1>4, <1>5

LEMMA ReplayEmpty == Replay(<< >>) = EmptyTable
BY DEF Replay, EmptyTable

----------------------------------------------------------------------------
(* The cache.                                                              *)

\* put() holds the new entry, leaves or drops every other, and keeps to the
\* capacity.
LEMMA CachePutEffect ==
    ASSUME NEW c \in Table, IsFiniteSet(Cached(c)), Cardinality(Cached(c)) <= CacheSize,
           NEW k \in Keys, NEW v \in Stored, NEW d \in CachePut(c, k, v)
    PROVE  /\ d \in Table
           /\ d[k] = v
           /\ \A j \in Keys : j # k => d[j] \in {c[j], NONE}
           /\ IsFiniteSet(Cached(d)) /\ Cardinality(Cached(d)) <= CacheSize
<1>1. v # NONE
    BY MarkerAssumption DEF Stored, Ephemeral
<1>2. Cardinality(Cached(c)) \in Nat /\ CacheSize \in Nat
    BY FS_CardinalityType, CacheSizeAssumption
<1>3. CASE c[k] # NONE
  <2>1. d = [c EXCEPT ![k] = v]
      BY <1>3 DEF CachePut
  <2>2. Cached(d) = Cached(c)
      BY <1>1, <1>3, <2>1 DEF Cached, Table
  <2> QED
      BY <2>1, <2>2 DEF Table
<1>4. CASE c[k] = NONE /\ Cardinality(Cached(c)) < CacheSize
  <2>1. d = [c EXCEPT ![k] = v]
      BY <1>4 DEF CachePut
  <2>2. Cached(d) = Cached(c) \cup {k}
      BY <1>1, <1>4, <2>1 DEF Cached, Table
  <2>3. k \notin Cached(c)
      BY <1>4 DEF Cached
  <2>4. IsFiniteSet(Cached(d)) /\ Cardinality(Cached(d)) = Cardinality(Cached(c)) + 1
      BY <2>2, <2>3, FS_AddElement
  <2>5. Cardinality(Cached(d)) <= CacheSize
      BY <1>2, <1>4, <2>4
  <2> QED
      BY <2>1, <2>4, <2>5 DEF Table
<1>5. CASE c[k] = NONE /\ ~(Cardinality(Cached(c)) < CacheSize)
  <2>1. PICK lru \in Cached(c) : d = [c EXCEPT ![k] = v, ![lru] = NONE]
      BY <1>5 DEF CachePut
  <2>2. lru \in Keys /\ lru # k /\ k \notin Cached(c)
      BY <1>5 DEF Cached
  <2>3. Cached(d) = (Cached(c) \ {lru}) \cup {k}
      BY <1>1, <2>1, <2>2 DEF Cached, Table
  <2>4. /\ IsFiniteSet(Cached(c) \ {lru})
        /\ Cardinality(Cached(c) \ {lru}) = Cardinality(Cached(c)) - 1
      BY FS_RemoveElement
  <2>5. /\ IsFiniteSet(Cached(d))
        /\ Cardinality(Cached(d)) = Cardinality(Cached(c) \ {lru}) + 1
      BY <2>2, <2>3, <2>4, FS_AddElement
  <2>6. Cardinality(Cached(d)) <= CacheSize
      BY <1>2, <2>4, <2>5
  <2> QED
      BY <2>1, <2>2, <2>5, <2>6 DEF Table
<1> QED
    BY <1>3, <1>4, <1>5

\* remove() leaves the other entries alone.
LEMMA CacheRemoveEffect ==
    ASSUME NEW c \in Table, IsFiniteSet(Cached(c)), Cardinality(Cached(c)) <= CacheSize,
           NEW k \in Keys
    PROVE  /\ CacheRemove(c, k) \in Table
           /\ CacheRemove(c, k)[k] = NONE
           /\ \A j \in Keys : j # k => CacheRemove(c, k)[j] = c[j]
           /\ IsFiniteSet(Cached(CacheRemove(c, k)))
           /\ Cardinality(Cached(CacheRemove(c, k))) <= CacheSize
<1> DEFINE d == CacheRemove(c, k)
<1>1. d \in Table /\ d[k] = NONE /\ \A j \in Keys : j # k => d[j] = c[j]
    BY DEF CacheRemove, Table
<1>2. Cached(d) \subseteq Cached(c)
    BY <1>1 DEF Cached
<1>3. IsFiniteSet(Cached(d)) /\ Cardinality(Cached(d)) <= Cardinality(Cached(c))
    BY <1>2, FS_Subset
<1>4. /\ Cardinality(Cached(c)) \in Nat /\ Cardinality(Cached(d)) \in Nat
      /\ CacheSize \in Nat
    BY <1>3, FS_CardinalityType, CacheSizeAssumption
<1> QED
    BY <1>1, <1>3, <1>4

\* The empty cache is within every capacity.
LEMMA CacheEmpty ==
    /\ EmptyTable \in Table
    /\ IsFiniteSet(Cached(EmptyTable)) /\ Cardinality(Cached(EmptyTable)) <= CacheSize
<1>1. Cached(EmptyTable) = {}
    BY DEF Cached, EmptyTable
<1> QED
    BY <1>1, FS_EmptySet, CacheSizeAssumption DEF EmptyTable, Table

----------------------------------------------------------------------------
(* The order of the names.                                                 *)

LEMMA UpToN == ASSUME NEW n \in Nat PROVE IsFiniteSet(1..n) /\ Cardinality(1..n) = n
<1>1. /\ IsFiniteSet(1..n)
      /\ Cardinality(1..n) = IF 1 > n THEN 0 ELSE n - 1 + 1
    BY FS_Interval
<1> QED
    BY <1>1

Increasing(ss) == \A i, j \in DOMAIN ss : i < j => ss[i] < ss[j]

\* A vector in the order of the names is what sorting the directory yields.
LEMMA NameOrderIs ==
    ASSUME NEW ss \in Seq(Nat), Increasing(ss)
    PROVE  NameOrder({ss[i] : i \in DOMAIN ss}) = ss
<1> DEFINE n == Len(ss)
           S == {ss[i] : i \in DOMAIN ss}
           below(p) == {q \in S : q < p}
<1>1. n \in Nat /\ DOMAIN ss = 1..n /\ ss \in [1..n -> Nat]
    OBVIOUS
<1>2. \A i, j \in 1..n : ss[i] = ss[j] => i = j
    BY <1>1 DEF Increasing
<1>3. Cardinality(S) = n
  <2>1. ss \in Bijection(1..n, S)
      BY <1>1, <1>2 DEF Bijection, Injection, Surjection, IsInjective
  <2>2. IsFiniteSet(1..n) /\ Cardinality(1..n) = n
      BY <1>1, UpToN
  <2> QED
      BY <2>1, <2>2, FS_Bijection DEF ExistsBijection
<1>4. ASSUME NEW i \in 1..n PROVE Cardinality(below(ss[i])) = i - 1
  <2> DEFINE f == [j \in 1..(i - 1) |-> ss[j]]
  <2>1. \A j \in 1..n : ss[j] < ss[i] <=> j < i
      BY <1>1 DEF Increasing
  <2>2. \A j \in 1..(i - 1) : j \in 1..n /\ j < i
      BY <1>1
  <2>3. \A j \in 1..n : j < i => j \in 1..(i - 1)
      BY <1>1
  <2>4. f \in [1..(i - 1) -> below(ss[i])]
      BY <1>1, <2>1, <2>2
  <2>5. \A q \in below(ss[i]) : \E j \in 1..(i - 1) : f[j] = q
      BY <1>1, <2>1, <2>3
  <2>6. f \in Bijection(1..(i - 1), below(ss[i]))
      BY <1>2, <2>2, <2>4, <2>5 DEF Bijection, Injection, Surjection, IsInjective
  <2>7. i - 1 \in Nat
      BY <1>1
  <2>8. IsFiniteSet(1..(i - 1)) /\ Cardinality(1..(i - 1)) = i - 1
      BY <2>7, UpToN
  <2> HIDE DEF below, f
  <2> QED
      BY <2>6, <2>8, FS_Bijection DEF ExistsBijection
<1>5. ASSUME NEW i \in 1..n
      PROVE  (CHOOSE p \in S : Cardinality(below(p)) = i - 1) = ss[i]
  <2>1. ss[i] \in S /\ Cardinality(below(ss[i])) = i - 1
      BY <1>1, <1>4
  <2>2. ASSUME NEW p \in S, Cardinality(below(p)) = i - 1 PROVE p = ss[i]
    <3>1. PICK j \in 1..n : p = ss[j]
        BY <1>1
    <3>2. j - 1 = i - 1
        BY <1>4, <2>2, <3>1
    <3> QED
        BY <1>1, <3>1, <3>2
  <2> HIDE DEF below, S
  <2> QED
      BY <2>1, <2>2
<1>6. NameOrder(S) = [i \in 1..n |-> CHOOSE p \in S : Cardinality(below(p)) = i - 1]
    BY <1>3 DEF NameOrder
<1>7. NameOrder(S) = [i \in 1..n |-> ss[i]]
    BY <1>5, <1>6
<1> QED
    BY <1>1, <1>7

\* Sorting a directory yields a sequence of its names.
LEMMA NameOrderType ==
    ASSUME NEW S, S \subseteq Nat, IsFiniteSet(S)
    PROVE  NameOrder(S) \in Seq(S)
<1> DEFINE n == Cardinality(S)
<1>1. n \in Nat
    BY FS_CardinalityType
<1>2. ASSUME NEW i \in 1..n
      PROVE  \E p \in S : Cardinality({q \in S : q < p}) = i - 1
  <2>1. PICK p \in S : Rank(S, p) = i
      BY RankSurjective
  <2> DEFINE upto == {q \in S : q <= p}
  <2>2. IsFiniteSet(upto)
      BY FS_Subset
  <2>3. p \in upto /\ {q \in S : q < p} = upto \ {p}
    <3>1. p \in upto
        OBVIOUS
    <3>2. \A q \in S : q < p <=> q <= p /\ q # p
        OBVIOUS
    <3>3. {q \in S : q < p} = {q \in S : q <= p /\ q # p}
        BY <3>2
    <3> QED
        BY <3>1, <3>3
  <2>4. Cardinality(upto \ {p}) = Cardinality(upto) - 1
      BY <2>2, <2>3, FS_RemoveElement
  <2> QED
      BY <2>1, <2>3, <2>4 DEF Rank
<1>3. \A i \in 1..n : (CHOOSE p \in S : Cardinality({q \in S : q < p}) = i - 1) \in S
    BY <1>2
<1>4. NameOrder(S) \in [1..n -> S]
    BY <1>3 DEF NameOrder
<1> HIDE DEF n
<1> QED
    BY <1>1, <1>4

\* Sorting a directory yields each of its names once, in increasing order.
LEMMA NameOrderNames ==
    ASSUME NEW S, S \subseteq Nat, IsFiniteSet(S)
    PROVE  /\ NameOrder(S) \in Seq(Nat) /\ Distinct(NameOrder(S)) /\ Names(NameOrder(S)) = S
           /\ Increasing(NameOrder(S))
<1> DEFINE n == Cardinality(S)
           below(p) == {q \in S : q < p}
           at(i) == CHOOSE p \in S : Cardinality(below(p)) = i - 1
<1>1. n \in Nat /\ NameOrder(S) \in Seq(S) /\ NameOrder(S) \in Seq(Nat)
  <2>1. NameOrder(S) \in Seq(S)
      BY NameOrderType
  <2> QED
    <3>1. Cardinality(S) \in Nat
        BY FS_CardinalityType
    <3>2. NameOrder(S) \in Seq(Nat)
        BY <2>1, SeqMonotonic
    <3> QED
        BY <2>1, <3>1, <3>2
<1>2. NameOrder(S) = [i \in 1..n |-> at(i)]
    BY DEF NameOrder
<1>3. ASSUME NEW p \in S PROVE Cardinality(below(p)) + 1 \in 1..n
  <2>1. below(p) \subseteq S \ {p} /\ IsFiniteSet(S \ {p}) /\ Cardinality(S \ {p}) = n - 1
      BY FS_RemoveElement
  <2>2. IsFiniteSet(below(p)) /\ Cardinality(below(p)) <= n - 1
      BY <2>1, FS_Subset
  <2>3. Cardinality(below(p)) \in Nat
      BY <2>2, FS_CardinalityType
  <2> HIDE DEF n, below
  <2> QED
      BY <1>1, <2>2, <2>3
<1>4. ASSUME NEW p \in S, NEW q \in S, p < q PROVE Cardinality(below(p)) < Cardinality(below(q))
  <2>1. below(p) \subseteq below(q) /\ p \in below(q) /\ p \notin below(p) /\ IsFiniteSet(below(q))
    <3>1. \A r \in S : r < p => r < q
        BY <1>4
    <3>2. p \in Nat /\ ~(p < p)
        OBVIOUS
    <3>3. IsFiniteSet(below(q))
        BY FS_Subset
    <3> QED
        BY <1>4, <3>1, <3>2, <3>3
  <2>2. IsFiniteSet(below(q) \ {p}) /\ Cardinality(below(q) \ {p}) = Cardinality(below(q)) - 1
      BY <2>1, FS_RemoveElement
  <2>3. below(p) \subseteq below(q) \ {p}
      BY <2>1
  <2>4. Cardinality(below(p)) <= Cardinality(below(q) \ {p}) /\ IsFiniteSet(below(p))
      BY <2>2, <2>3, FS_Subset
  <2>5. Cardinality(below(p)) \in Nat /\ Cardinality(below(q)) \in Nat
      BY <2>1, <2>4, FS_CardinalityType
  <2> HIDE DEF below
  <2> QED
      BY <2>2, <2>4, <2>5
<1>5. ASSUME NEW p \in S, NEW q \in S, Cardinality(below(p)) = Cardinality(below(q)) PROVE p = q
  <2>1. p \in Nat /\ q \in Nat
      OBVIOUS
  <2>2. ~(p < q) /\ ~(q < p)
    <3>1. Cardinality(below(p)) \in Nat
      <4>1. IsFiniteSet(below(p))
          BY FS_Subset
      <4> QED
          BY <4>1, FS_CardinalityType
    <3> HIDE DEF below
    <3> QED
        BY <1>4, <1>5, <3>1
  <2> QED
      BY <2>1, <2>2
<1>6. ASSUME NEW i \in 1..n PROVE at(i) \in S /\ Cardinality(below(at(i))) = i - 1
  <2>1. at(i) \in S
    <3>1. NameOrder(S)[i] \in S
      <4>1. DOMAIN NameOrder(S) = 1..n
          BY <1>2
      <4> QED
          BY <1>1, <4>1
    <3> QED
        BY <1>2, <3>1
  <2>2. \E p \in S : Cardinality(below(p)) = i - 1
    <3>1. PICK p \in S : Rank(S, p) = i
        BY RankSurjective
    <3> DEFINE upto == {q \in S : q <= p}
    <3>2. p \in upto /\ below(p) = upto \ {p} /\ IsFiniteSet(upto)
      <4>1. \A q \in S : q < p <=> q <= p /\ q # p
          OBVIOUS
      <4>2. IsFiniteSet(upto)
          BY FS_Subset
      <4>3. p \in upto
          OBVIOUS
      <4>4. below(p) = upto \ {p}
          BY <4>1
      <4> QED
          BY <4>2, <4>3, <4>4
    <3>3. Cardinality(upto \ {p}) = Cardinality(upto) - 1
        BY <3>2, FS_RemoveElement
    <3> QED
        BY <3>1, <3>2, <3>3 DEF Rank
  <2> HIDE DEF below
  <2> QED
      BY <2>1, <2>2
<1> HIDE DEF n, below, at
<1>7. DOMAIN NameOrder(S) = 1..n /\ \A i \in 1..n : NameOrder(S)[i] = at(i)
    BY <1>2
<1>8. Distinct(NameOrder(S))
    BY <1>6, <1>7 DEF Distinct
<1>9. ASSUME NEW p \in S PROVE \E i \in 1..n : at(i) = p
  <2> DEFINE i == Cardinality(below(p)) + 1
  <2>1. i \in 1..n
      BY <1>3
  <2>2. Cardinality(below(p)) = i - 1
    <3>1. Cardinality(below(p)) \in Nat
      <4>1. IsFiniteSet(below(p))
          BY FS_Subset DEF below
      <4> QED
          BY <4>1, FS_CardinalityType
    <3> QED
        BY <3>1
  <2>3. at(i) = p
    <3>1. at(i) \in S /\ Cardinality(below(at(i))) = i - 1
        BY <1>6, <2>1
    <3> HIDE DEF i
    <3> QED
        BY <1>5, <2>2, <3>1
  <2> QED
      BY <2>1, <2>3
<1>10. Names(NameOrder(S)) = S
    BY <1>6, <1>7, <1>9 DEF Names
<1>11. Increasing(NameOrder(S))
  <2> SUFFICES ASSUME NEW i \in 1..n, NEW j \in 1..n, i < j PROVE at(i) < at(j)
      BY <1>7 DEF Increasing
  <2>1. /\ at(i) \in S /\ at(j) \in S
        /\ Cardinality(below(at(i))) = i - 1 /\ Cardinality(below(at(j))) = j - 1
      BY <1>6
  <2>2. ~(j - 1 < i - 1) /\ i - 1 # j - 1
      BY <1>1
  <2>3. ~(at(j) < at(i)) /\ at(i) # at(j)
      BY <1>4, <2>1, <2>2
  <2>4. at(i) \in Nat /\ at(j) \in Nat
      BY <2>1
  <2> QED
      BY <2>3, <2>4
<1> QED
    BY <1>1, <1>8, <1>10, <1>11

\* A search in the order of the names meets what one in the order of ss does, when
\* no key is in two tables that the names put the other way round.
LEMMA SameLookup ==
    ASSUME NEW fs, DOMAIN fs \subseteq Nat, IsFiniteSet(DOMAIN fs),
           NEW ss \in Seq(Nat), DOMAIN fs \subseteq Names(ss), KeysApart(fs, ss), NEW k \in Keys
    PROVE  Lookup(fs, NameOrder(DOMAIN fs), k) = Lookup(fs, ss, k)
<1> DEFINE tt == NameOrder(DOMAIN fs)
<1>1. tt \in Seq(Nat) /\ Names(tt) = DOMAIN fs /\ Increasing(tt)
    BY NameOrderNames
<1> HIDE DEF tt
<1>2. \A j \in DOMAIN tt : \E i \in DOMAIN ss : ss[i] = tt[j]
    BY <1>1 DEF Names
<1>3. CASE Absent(fs, ss, k)
  <2>1. Absent(fs, tt, k)
      BY <1>2, <1>3 DEF Absent
  <2> QED
      BY <1>3, <2>1, LookupMisses DEF tt
<1>4. CASE \E i : LastAt(fs, ss, k, i)
  <2>1. PICK i : LastAt(fs, ss, k, i)
      BY <1>4
  <2>2. /\ i \in DOMAIN ss /\ TableOf(fs, ss[i])[k] # NONE
        /\ \A j \in DOMAIN ss : j > i => TableOf(fs, ss[j])[k] = NONE
      BY <2>1 DEF LastAt
  <2>3. PICK h \in DOMAIN tt : tt[h] = ss[i]
    <3>1. ss[i] \in DOMAIN fs
        BY <2>2 DEF TableOf, EmptyTable
    <3> QED
        BY <1>1, <3>1 DEF Names
  <2>4. ASSUME NEW j \in DOMAIN tt, j > h, TableOf(fs, tt[j])[k] # NONE PROVE FALSE
    <3>1. PICK g \in DOMAIN ss : ss[g] = tt[j]
        BY <1>2
    <3>2. h \in Nat /\ j \in Nat /\ h < j /\ i \in Nat /\ g \in Nat
        BY <1>1, <2>2, <2>4
    <3>3. ss[i] < ss[g]
        BY <1>1, <2>3, <3>1, <3>2 DEF Increasing
    <3>4. ~(g > i)
        BY <2>2, <2>4, <3>1
    <3>5. g # i
      <4>1. ss[i] \in Nat
          BY <2>2
      <4> QED
          BY <3>3, <4>1
    <3>6. g < i
        BY <3>2, <3>4, <3>5
    <3>7. NONE \in {TableOf(fs, ss[g])[k], TableOf(fs, ss[i])[k]}
        BY <2>2, <3>3, <3>6 DEF KeysApart
    <3> QED
        BY <2>2, <2>4, <3>1, <3>7
  <2>5. LastAt(fs, tt, k, h)
      BY <2>2, <2>3, <2>4 DEF LastAt
  <2>6. Lookup(fs, tt, k) = TableOf(fs, tt[h])[k]
      BY <1>1, <2>5, LookupFinds
  <2>7. Lookup(fs, ss, k) = TableOf(fs, ss[i])[k]
      BY <2>1, LookupFinds
  <2> QED
      BY <2>3, <2>6, <2>7 DEF tt
<1> QED
    BY <1>3, <1>4, LookupCases

----------------------------------------------------------------------------
(* Type correctness.                                                       *)

FilesOK(fs) == IsFiniteSet(DOMAIN fs) /\ Directory(fs)
CacheOK(c)  == /\ c \in Table
               /\ IsFiniteSet(Cached(c)) /\ Cardinality(Cached(c)) <= CacheSize

\* A table written under a new name or an old one leaves a directory.
LEMMA WithFileType ==
    ASSUME NEW fs, FilesOK(fs), NEW p \in Nat, NEW m \in Table
    PROVE  FilesOK(WithFile(fs, p, m))
<1>1. DOMAIN WithFile(fs, p, m) = DOMAIN fs \cup {p}
    BY DEF WithFile
<1>2. IsFiniteSet(DOMAIN fs \cup {p})
    BY FS_AddElement DEF FilesOK
<1>3. Directory(WithFile(fs, p, m))
    BY <1>1 DEF Directory, FilesOK, WithFile
<1> QED
    BY <1>1, <1>2, <1>3 DEF FilesOK

\* is_full() and flush_memtable() keep the types.
LEMMA SettleType ==
    ASSUME TypeOK, NEW m \in Table, NEW w \in Seq(LogRecord), NEW ss \in Seq(Nat),
           Settle(m, w, ss)
    PROVE  /\ now' \in Nat
           /\ wal' \in Seq(LogRecord)
           /\ memtable' \in Table
           /\ FilesOK(files')
           /\ sstables' \in Seq(Nat)
<1>1. FlushName(now) \in Nat
    BY DEF TypeOK, FlushName
<1>2. FilesOK(files) /\ FilesOK(WithFile(files, FlushName(now), m))
    BY <1>1, WithFileType DEF TypeOK, FilesOK, Directory
<1>3. now + FlushTakesMs \in Nat
    BY FlushTimeAssumption DEF TypeOK
<1>4. EmptyTable \in Table
    BY CacheEmpty
<1>5. CASE IsFull(m) /\ m # EmptyTable
    BY <1>1, <1>2, <1>3, <1>4, <1>5 DEF Settle
<1>6. CASE ~(IsFull(m) /\ m # EmptyTable)
    BY <1>2, <1>6 DEF Settle, TypeOK
<1> QED
    BY <1>5, <1>6

\* check_ttl keeps the types.
LEMMA CheckTTLType ==
    ASSUME TypeOK, NEW k \in Keys, NEW v \in Stored \ {TOMBSTONE}, NEW c, CacheOK(c),
           CheckTTL(k, v, c)
    PROVE  /\ memtable' \in Table
           /\ CacheOK(cache')
           /\ reply' \in UserValues \cup {OK, NONE}
<1>1. [memtable EXCEPT ![k] = TOMBSTONE] \in Table
    BY DEF TypeOK, Table, Stored
<1>2. CacheOK(CacheRemove(c, k))
    BY CacheRemoveEffect DEF CacheOK
<1>3. Strip(v) \in UserValues
    BY DEF Strip, Stored, Ephemeral
<1> QED
    BY <1>1, <1>2, <1>3 DEF CheckTTL, TypeOK

LEMMA GetType ==
    ASSUME TypeOK, NEW k \in Keys, Get(k)
    PROVE  /\ memtable' \in Table
           /\ CacheOK(cache')
           /\ reply' \in UserValues \cup {OK, NONE}
<1>1. CacheOK(cache)
    BY DEF CacheOK, TypeOK
<1>2. ASSUME NotFound
      PROVE  /\ memtable' \in Table
             /\ CacheOK(cache')
             /\ reply' \in UserValues \cup {OK, NONE}
    BY <1>1, <1>2 DEF NotFound, TypeOK
<1>3. CASE GetFromCache(k)
  <2>1. CASE cache[k] = TOMBSTONE
      BY <1>2, <1>3, <2>1 DEF GetFromCache
  <2>2. CASE cache[k] # TOMBSTONE
    <3>1. cache[k] \in Stored \ {TOMBSTONE}
        BY <1>3, <2>2 DEF GetFromCache, TypeOK, Table
    <3>2. CheckTTL(k, cache[k], cache)
        BY <1>3, <2>2 DEF GetFromCache
    <3> QED
        BY <1>1, <3>1, <3>2, CheckTTLType
  <2> QED
      BY <2>1, <2>2
<1>4. ASSUME NEW v \in Stored \cup {NONE}, GetBelowCache(k, v)
      PROVE  /\ memtable' \in Table
             /\ CacheOK(cache')
             /\ reply' \in UserValues \cup {OK, NONE}
  <2>1. CASE v \in {NONE, TOMBSTONE}
      BY <1>2, <1>4, <2>1 DEF GetBelowCache
  <2>2. CASE v \notin {NONE, TOMBSTONE}
    <3>1. PICK c \in CachePut(cache, k, v) : CheckTTL(k, v, c)
        BY <1>4, <2>2 DEF GetBelowCache
    <3>2. CacheOK(c)
        BY <1>1, <2>2, <3>1, CachePutEffect DEF CacheOK
    <3> QED
        BY <2>2, <3>1, <3>2, CheckTTLType
  <2> QED
      BY <2>1, <2>2
<1>5. memtable[k] \in Stored \cup {NONE}
    BY DEF TypeOK, Table
<1>6. Lookup(files, sstables, k) \in Stored \cup {NONE}
    BY LookupType DEF TypeOK, Directory
<1> QED
    BY <1>3, <1>4, <1>5, <1>6 DEF Get, GetFromMemTable, GetFromSSTables

\* Storing v at k, in any of the engine's layers, keeps a table.
LEMMA TableUpdate ==
    ASSUME NEW t \in Table, NEW k \in Keys, NEW v \in Stored \cup {NONE}
    PROVE  [t EXCEPT ![k] = v] \in Table
BY DEF Table

\* Every step keeps the types; so does a step in the order of the names.
LEMMA TypeStep ==
    ASSUME TypeOK, [Next]_vars
    PROVE  TypeOK'
<1>1. TypeOK' = (/\ now' \in Nat
                 /\ wal' \in Seq(LogRecord)
                 /\ memtable' \in Table
                 /\ CacheOK(cache')
                 /\ FilesOK(files')
                 /\ sstables' \in Seq(Nat)
                 /\ reply' \in UserValues \cup {OK, NONE}
                 /\ store' \in Table)
    BY DEF TypeOK, CacheOK, FilesOK, Directory
<1>2. CacheOK(cache) /\ FilesOK(files)
    BY DEF TypeOK, CacheOK, FilesOK, Directory
<1>3. ASSUME NEW k \in Keys, NEW v \in Stored, Put(k, v), store' = [store EXCEPT ![k] = v]
      PROVE  TypeOK'
  <2>1. [memtable EXCEPT ![k] = v] \in Table /\ store' \in Table
      BY <1>3, TableUpdate DEF TypeOK
  <2>2. Append(wal, Record("SET", k, v)) \in Seq(LogRecord)
    <3>1. Record("SET", k, v) \in LogRecord
        BY DEF Record, LogRecord
    <3> QED
        BY <3>1 DEF TypeOK
  <2>3. CacheOK(cache')
      BY <1>2, <1>3, CachePutEffect DEF Put, CacheOK
  <2>4. /\ now' \in Nat /\ wal' \in Seq(LogRecord) /\ memtable' \in Table
        /\ FilesOK(files') /\ sstables' \in Seq(Nat)
    <3>1. Settle([memtable EXCEPT ![k] = v], Append(wal, Record("SET", k, v)), sstables)
        BY <1>3 DEF Put
    <3>2. sstables \in Seq(Nat)
        BY DEF TypeOK
    <3> QED
        BY <2>1, <2>2, <3>1, <3>2, SettleType
  <2> QED
      BY <1>1, <1>3, <2>1, <2>3, <2>4 DEF Put
<1>4. ASSUME NEW k \in Keys, Set(k) PROVE TypeOK'
    BY <1>3, <1>4 DEF Set, Stored
<1>5. ASSUME NEW k \in Keys, SetTTL(k) PROVE TypeOK'
  <2>1. PICK d \in UserValues, life \in Lifetimes :
            LET v == [data |-> d, expiry |-> now + life]
            IN  Put(k, v) /\ store' = [store EXCEPT ![k] = v]
      BY <1>5 DEF SetTTL
  <2>2. [data |-> d, expiry |-> now + life] \in Stored
      BY LifetimesAssumption DEF Stored, Ephemeral, TypeOK
  <2> QED
      BY <1>3, <2>1, <2>2
<1>6. ASSUME NEW k \in Keys, Del(k) PROVE TypeOK'
  <2>1. [memtable EXCEPT ![k] = TOMBSTONE] \in Table /\ store' \in Table
      BY <1>6, TableUpdate DEF Del, TypeOK, Stored
  <2>2. Append(wal, Record("DELETE", k, NONE)) \in Seq(LogRecord)
    <3>1. Record("DELETE", k, NONE) \in LogRecord
        BY DEF Record, LogRecord
    <3> QED
        BY <3>1 DEF TypeOK
  <2>3. CacheOK(cache')
      BY <1>2, <1>6, CacheRemoveEffect DEF Del, CacheOK
  <2>4. /\ now' \in Nat /\ wal' \in Seq(LogRecord) /\ memtable' \in Table
        /\ FilesOK(files') /\ sstables' \in Seq(Nat)
    <3>1. Settle([memtable EXCEPT ![k] = TOMBSTONE],
                 Append(wal, Record("DELETE", k, NONE)), sstables)
        BY <1>6 DEF Del
    <3>2. sstables \in Seq(Nat)
        BY DEF TypeOK
    <3> QED
        BY <2>1, <2>2, <3>1, <3>2, SettleType
  <2> QED
      BY <1>1, <1>6, <2>1, <2>3, <2>4 DEF Del
<1>7. ASSUME NEW k \in Keys, Get(k) PROVE TypeOK'
    BY <1>1, <1>2, <1>7, GetType DEF Get, TypeOK
<1>8. CASE Compact
  <2> DEFINE out == CompactedName(now)
  <2>1. out \in Nat /\ now' \in Nat
      BY <1>8 DEF Compact, CompactedName, TypeOK
  <2>2. /\ files' = CompactedFiles(files, sstables, out)
        /\ sstables' = CompactedVector(sstables, out)
      BY <1>8 DEF Compact, CompactedFiles, CompactedVector
  <2>3. FilesOK(files')
    <3>1. DOMAIN files' = (DOMAIN files \ {sstables[1], sstables[2]}) \cup {out}
        BY <2>2 DEF CompactedFiles, Kept
    <3>2. IsFiniteSet(DOMAIN files')
      <4>1. IsFiniteSet(DOMAIN files \ {sstables[1], sstables[2]})
          BY <1>2, FS_Subset DEF FilesOK
      <4> QED
          BY <3>1, <4>1, FS_AddElement
    <3>3. \A p : TableOf(files, p) \in Table
        BY <1>2, CacheEmpty DEF TableOf, FilesOK, Directory
    <3>4. Merge(TableOf(files, sstables[1]), TableOf(files, sstables[2])) \in Table
        BY <3>3 DEF Merge, Over, Table
    <3>5. Directory(files')
        BY <1>2, <2>1, <2>2, <3>1, <3>4 DEF Directory, FilesOK, CompactedFiles, Kept
    <3> QED
        BY <3>2, <3>5 DEF FilesOK
  <2>4. sstables' \in Seq(Nat)
    <3> DEFINE n == Len(sstables) - 1
    <3>1. /\ Len(sstables) \in Nat /\ n \in Nat
          /\ \A i \in 1..n : i + 1 \in 1..Len(sstables)
        BY <1>8, CompactionAssumption DEF Compact, TypeOK
    <3>2. \A i \in 1..n : sstables[i + 1] \in Nat
        BY <3>1 DEF TypeOK
    <3>3. sstables' \in [1..n -> Nat]
        BY <2>1, <2>2, <3>2 DEF CompactedVector
    <3> HIDE DEF n
    <3> QED
        BY <3>1, <3>3
  <2> QED
      BY <1>1, <1>2, <1>8, <2>1, <2>3, <2>4 DEF Compact, TypeOK
<1>9. CASE Tick
    BY <1>1, <1>2, <1>9 DEF Tick, TypeOK
<1>10. CASE Restart
  <2>1. Replay(wal) \in Table
      BY ReplayType DEF TypeOK
  <2>2. NameOrder(DOMAIN files) \in Seq(Nat)
    <3>1. NameOrder(DOMAIN files) \in Seq(DOMAIN files)
        BY NameOrderType DEF TypeOK
    <3> QED
        BY <3>1 DEF TypeOK
  <2>3. /\ now' \in Nat /\ wal' \in Seq(LogRecord) /\ memtable' \in Table
        /\ FilesOK(files') /\ sstables' \in Seq(Nat)
    <3>1. Settle(Replay(wal), wal, NameOrder(DOMAIN files))
        BY <1>10 DEF Restart
    <3>2. wal \in Seq(LogRecord)
        BY DEF TypeOK
    <3> QED
        BY <2>1, <2>2, <3>1, <3>2, SettleType
  <2>4. CacheOK(cache')
      BY <1>10, CacheEmpty DEF Restart, CacheOK
  <2> QED
      BY <1>1, <1>10, <2>3, <2>4 DEF Restart, TypeOK
<1>11. CASE UNCHANGED vars
    BY <1>1, <1>2, <1>11 DEF vars, TypeOK
<1> QED
    BY <1>4, <1>5, <1>6, <1>7, <1>8, <1>9, <1>10, <1>11 DEF Next, Operate

LEMMA TypeInit == Init => TypeOK
<1> SUFFICES ASSUME Init PROVE TypeOK
    OBVIOUS
<1>1. DOMAIN files = {}
    BY DEF Init
<1>2. IsFiniteSet(DOMAIN files)
    BY <1>1, FS_EmptySet
<1>3. << >> \in Seq(LogRecord) /\ << >> \in Seq(Nat)
    OBVIOUS
<1> QED
    BY <1>1, <1>2, <1>3, CacheEmpty DEF Init, TypeOK

\* The engine's state keeps its types, and its cache its capacity, whatever the
\* clients do and however often it restarts (LSMEngine's constructor included).
THEOREM TypeCorrect == Spec => []TypeOK
<1>1. TypeOK /\ [Next]_vars => TypeOK'
    BY TypeStep
<1> QED
    BY <1>1, TypeInit, PTL DEF Spec

----------------------------------------------------------------------------
(* Agreement of stored values.                                             *)

\* The clock only moves forward: values that agree go on agreeing.
LEMMA SameLater ==
    ASSUME NEW v, NEW w, NEW t \in Nat, NEW u \in Nat, t <= u, Same(v, w, t)
    PROVE  Same(v, w, u)
<1>1. ASSUME NEW x, Dead(x, t) PROVE Dead(x, u)
  <2>1. CASE x \in {NONE, TOMBSTONE}
      BY <2>1 DEF Dead
  <2>2. CASE Expired(x, t)
    <3>1. x.expiry \in Nat
        BY <2>2 DEF Expired, Ephemeral
    <3> QED
        BY <2>2, <3>1 DEF Expired, Dead
  <2> QED
      BY <1>1, <2>1, <2>2 DEF Dead
<1> QED
    BY <1>1 DEF Same

\* What agrees with a dead value is dead.
LEMMA SameDead ==
    ASSUME NEW v, NEW w, NEW t, Same(v, w, t), Dead(v, t)
    PROVE  Dead(w, t)
BY DEF Same

----------------------------------------------------------------------------
(* is_full() and flush_memtable().                                         *)

\* Whether it flushes or not, what lies below the cache stays; the log loses
\* only what a table now holds.
LEMMA SettleKeeps ==
    ASSUME TypeOK, NamesPast, FlushTakesMs > 0, NEW m \in Table, NEW w \in Seq(LogRecord),
           NEW ss \in Seq(Nat), Distinct(ss), Names(ss) = DOMAIN files, Settle(m, w, ss)
    PROVE  /\ now <= now'
           /\ FilesMatchVector'
           /\ NamesPast'
           /\ \A k \in Keys : Below(k)' = Over(m[k], Lookup(files, ss, k))
           /\ \A k \in Keys :
                Over(Replay(wal)[k], Lookup(files, sstables, k))'
                  \in {Over(Replay(w)[k], Lookup(files, ss, k)),
                       Over(m[k], Lookup(files, ss, k))}
<1> DEFINE p == FlushName(now)
<1>1. now \in Nat /\ p \in Nat /\ DOMAIN files \subseteq Nat
    BY DEF TypeOK, FlushName
<1>2. p \notin DOMAIN files
    BY <1>1 DEF NamesPast
<1>3. \A i \in DOMAIN ss : ss[i] \in DOMAIN files
    BY DEF Names
<1>4. CASE ~(IsFull(m) /\ m # EmptyTable)
  <2>1. /\ memtable' = m /\ wal' = w /\ sstables' = ss
        /\ files' = files /\ now' = now
      BY <1>4 DEF Settle
  <2> QED
      BY <1>1, <2>1 DEF FilesMatchVector, Distinct, Names, NamesPast, Below
<1>5. CASE IsFull(m) /\ m # EmptyTable
  <2>1. /\ files' = WithFile(files, p, m) /\ sstables' = Append(ss, p)
        /\ memtable' = EmptyTable /\ wal' = << >> /\ now' = now + FlushTakesMs
      BY <1>5 DEF Settle
  <2>2. now' \in Nat /\ now < now'
      BY <1>1, <2>1, FlushTimeAssumption
  <2>3. DOMAIN files' = DOMAIN files \cup {p}
      BY <2>1 DEF WithFile
  <2>4. NamesPast'
    <3>1. \A q \in DOMAIN files : q < 2 * now
        BY DEF NamesPast, FlushName
    <3>2. \A a, b \in Nat : a < b => 2 * a < 2 * b
        OBVIOUS
    <3>3. p = 2 * now /\ 2 * now < 2 * now'
        BY <1>1, <2>2, <3>2 DEF FlushName
    <3> QED
        BY <1>1, <2>2, <2>3, <3>1, <3>3 DEF NamesPast, FlushName
  <2>5. FilesMatchVector'
    <3> DEFINE n == Len(ss) + 1
    <3>1. /\ DOMAIN ss = 1..Len(ss) /\ Len(ss) \in Nat
          /\ DOMAIN sstables' = 1..n /\ sstables'[n] = p
          /\ \A i \in DOMAIN ss : sstables'[i] = ss[i]
        BY <1>1, <2>1
    <3>2. \A i \in DOMAIN sstables' : i \in DOMAIN ss \/ i = n
        BY <3>1
    <3>3. \A i, j \in DOMAIN sstables' : sstables'[i] = sstables'[j] => i = j
        BY <1>2, <1>3, <3>1, <3>2 DEF Distinct
    <3>4. {sstables'[i] : i \in DOMAIN sstables'}
            = Names(ss) \cup {p}
      <4>1. \A i \in DOMAIN ss : i \in DOMAIN sstables'
          BY <3>1
      <4>2. n \in DOMAIN sstables'
          BY <3>1
      <4> HIDE DEF n
      <4> QED
          BY <3>1, <3>2, <4>1, <4>2 DEF Names
    <3> QED
        BY <2>3, <3>3, <3>4 DEF FilesMatchVector
  <2>6. \A k \in Keys : Lookup(files', sstables', k)
                          = Over(m[k], Lookup(files, ss, k))
      BY <1>1, <1>2, <1>3, <2>1, LookupFlushed
  <2>7. \A k \in Keys : EmptyTable[k] = NONE
      BY DEF EmptyTable
  <2>8. \A k \in Keys : Below(k)' = Over(m[k], Lookup(files, ss, k))
      BY <2>1, <2>6, <2>7 DEF Below, Over
  <2>9. \A k \in Keys : Over(Replay(wal)[k], Lookup(files, sstables, k))'
                          = Over(m[k], Lookup(files, ss, k))
      BY <2>1, <2>6, <2>7, ReplayEmpty DEF Over
  <2> QED
      BY <1>1, <2>2, <2>4, <2>5, <2>8, <2>9
<1> QED
    BY <1>4, <1>5

----------------------------------------------------------------------------
(* A write.                                                                *)

\* Logging r, storing v in the MemTable and dropping or refreshing the cached
\* entry leaves the invariant, when v agrees with what the store is to hold.
LEMMA WriteKeeps ==
    ASSUME IInv, TypeOK', FlushTakesMs > 0,
           NEW k \in Keys, NEW v \in Stored, NEW r \in LogRecord, r.key = k, Effect(r) = v,
           NEW s \in Stored \cup {NONE}, \A t \in Nat : Same(v, s, t),
           Settle([memtable EXCEPT ![k] = v], Append(wal, r), sstables),
           cache'[k] \in {v, NONE},
           \A j \in Keys : j # k => cache'[j] \in {cache[j], NONE},
           store' = [store EXCEPT ![k] = s]
    PROVE  IInv'
<1> DEFINE m == [memtable EXCEPT ![k] = v]
           w == Append(wal, r)
           L(j) == Lookup(files, sstables, j)
<1>1. m \in Table /\ w \in Seq(LogRecord) /\ v # NONE
    BY TableUpdate, MarkerAssumption DEF IInv, TypeOK, Stored, Ephemeral
<1>2. /\ now <= now' /\ FilesMatchVector' /\ NamesPast'
      /\ \A j \in Keys : Below(j)' = Over(m[j], L(j))
      /\ \A j \in Keys : Over(Replay(wal)[j], Lookup(files, sstables, j))'
                           \in {Over(Replay(w)[j], L(j)), Over(m[j], L(j))}
  <2>1. sstables \in Seq(Nat) /\ Distinct(sstables) /\ Names(sstables) = DOMAIN files
      BY DEF IInv, TypeOK, FilesMatchVector, Distinct, Names
  <2>2. TypeOK /\ NamesPast /\ Settle(m, w, sstables)
      BY DEF IInv
  <2> HIDE DEF m, w
  <2> QED
      BY <1>1, <2>1, <2>2, SettleKeeps
<1>3. m[k] = v /\ \A j \in Keys : j # k => m[j] = memtable[j]
    BY DEF IInv, TypeOK, Table
<1>4. Replay(w)[k] = v /\ \A j \in Keys : j # k => Replay(w)[j] = Replay(wal)[j]
  <2>1. \A j \in Keys : Replay(w)[j] = IF r.key = j THEN Effect(r) ELSE Replay(wal)[j]
      BY ReplayAppend DEF IInv, TypeOK
  <2> QED
      BY <2>1
<1>5. store'[k] = s /\ \A j \in Keys : j # k => store'[j] = store[j]
    BY DEF IInv, TypeOK, Table
<1>6. now \in Nat /\ now' \in Nat
    BY DEF IInv, TypeOK
<1> HIDE DEF m, w
<1>7. Over(m[k], L(k)) = v /\ Over(Replay(w)[k], L(k)) = v
    BY <1>1, <1>3, <1>4 DEF Over
<1>8. \A j \in Keys : j # k => /\ Over(m[j], L(j)) = Below(j)
                               /\ Over(Replay(w)[j], L(j)) = Over(Replay(wal)[j], L(j))
    BY <1>3, <1>4 DEF Below
<1>9. CacheCoherent'
    BY <1>2, <1>7, <1>8 DEF CacheCoherent, IInv
<1>10. ASSUME NEW j \in Keys, j # k
       PROVE  /\ Same(Below(j), store'[j], now')
              /\ Same(Over(Replay(wal)[j], L(j)), store'[j], now')
  <2>1. /\ Same(Below(j), store[j], now)
        /\ Same(Over(Replay(wal)[j], L(j)), store[j], now)
      BY DEF IInv, BelowAgrees, LogAgrees
  <2> QED
      BY <1>2, <1>5, <1>6, <1>10, <2>1, SameLater
<1>11. BelowAgrees'
    BY <1>2, <1>5, <1>6, <1>7, <1>8, <1>10 DEF BelowAgrees
<1>12. LogAgrees'
  <2> SUFFICES ASSUME NEW j \in Keys
               PROVE  Same(Over(Replay(wal)[j], Lookup(files, sstables, j))',
                           store'[j], now')
      BY DEF LogAgrees
  <2>1. CASE j = k
      BY <1>2, <1>5, <1>6, <1>7, <2>1
  <2>2. CASE j # k
      BY <1>2, <1>8, <1>10, <2>2
  <2> QED
      BY <2>1, <2>2
<1> QED
    BY <1>2, <1>9, <1>11, <1>12 DEF IInv

----------------------------------------------------------------------------
(* A read.                                                                 *)

\* What check_ttl does for a value that is the one below the cache.
LEMMA CheckTTLKeeps ==
    ASSUME IInv, TypeOK', NEW k \in Keys, Below(k) \notin {NONE, TOMBSTONE},
           NEW c \in Table, c[k] \in {Below(k), NONE},
           \A j \in Keys : j # k => c[j] \in {cache[j], NONE},
           CheckTTL(k, Below(k), c),
           UNCHANGED <<now, wal, files, sstables, store>>
    PROVE  IInv'
<1>1. FilesMatchVector' /\ NamesPast' /\ LogAgrees'
    BY DEF IInv, FilesMatchVector, NamesPast, LogAgrees
<1>2. CASE ~Expired(Below(k), now)
  <2>1. memtable' = memtable /\ cache' = c
      BY <1>2 DEF CheckTTL
  <2>2. \A j \in Keys : Below(j)' = Below(j)
      BY <2>1 DEF Below
  <2>3. CacheCoherent'
      BY <2>1, <2>2 DEF CacheCoherent, IInv
  <2>4. BelowAgrees'
      BY <2>2 DEF BelowAgrees, IInv
  <2> QED
      BY <1>1, <2>3, <2>4 DEF IInv
<1>3. CASE Expired(Below(k), now)
  <2>1. /\ memtable' = [memtable EXCEPT ![k] = TOMBSTONE]
        /\ cache' = CacheRemove(c, k)
      BY <1>3 DEF CheckTTL
  <2>2. TOMBSTONE # NONE
      BY MarkerAssumption
  <2>3. Below(k)' = TOMBSTONE /\ \A j \in Keys : j # k => Below(j)' = Below(j)
      BY <2>1, <2>2 DEF Below, Over, IInv, TypeOK, Table
  <2>4. cache'[k] = NONE /\ \A j \in Keys : j # k => cache'[j] = c[j]
      BY <2>1 DEF CacheRemove, Table
  <2>5. CacheCoherent'
      BY <2>3, <2>4 DEF CacheCoherent, IInv
  <2>6. Dead(store[k], now)
    <3>1. Same(Below(k), store[k], now)
        BY DEF IInv, BelowAgrees
    <3> QED
        BY <1>3, <3>1, SameDead DEF Dead
  <2>7. Same(TOMBSTONE, store[k], now)
      BY <2>6 DEF Same, Dead
  <2>8. BelowAgrees'
      BY <2>3, <2>7 DEF BelowAgrees, IInv
  <2> QED
      BY <1>1, <2>5, <2>8 DEF IInv
<1> QED
    BY <1>2, <1>3

LEMMA GetKeeps ==
    ASSUME IInv, TypeOK', NEW k \in Keys, Get(k)
    PROVE  IInv'
<1>1. UNCHANGED <<now, wal, files, sstables, store>>
    BY DEF Get
<1>2. CASE NotFound
    BY <1>1, <1>2 DEF NotFound, IInv, FilesMatchVector, NamesPast, CacheCoherent,
                      BelowAgrees, LogAgrees, Below
<1>3. CASE GetFromCache(k) /\ cache[k] # TOMBSTONE
  <2>1. cache[k] = Below(k) /\ cache[k] # NONE /\ CheckTTL(k, cache[k], cache)
      BY <1>3 DEF GetFromCache, IInv, CacheCoherent
  <2>2. cache \in Table
      BY DEF IInv, TypeOK
  <2> QED
      BY <1>1, <1>3, <2>1, <2>2, CheckTTLKeeps
<1>4. CASE GetBelowCache(k, Below(k)) /\ Below(k) \notin {NONE, TOMBSTONE}
  <2>1. PICK c \in CachePut(cache, k, Below(k)) : CheckTTL(k, Below(k), c)
      BY <1>4 DEF GetBelowCache
  <2>2. Below(k) \in Stored
    <3>1. Lookup(files, sstables, k) \in Stored \cup {NONE}
        BY LookupType DEF IInv, TypeOK, Directory
    <3> QED
        BY <1>4, <3>1 DEF Below, Over, IInv, TypeOK, Table
  <2>3. /\ c \in Table /\ c[k] = Below(k)
        /\ \A j \in Keys : j # k => c[j] \in {cache[j], NONE}
      BY <2>2, CachePutEffect DEF IInv, TypeOK
  <2> QED
      BY <1>1, <1>4, <2>1, <2>3, CheckTTLKeeps
<1>5. GetFromMemTable(k) => GetBelowCache(k, Below(k))
    BY DEF GetFromMemTable, Below, Over
<1>6. GetFromSSTables(k) => GetBelowCache(k, Below(k))
    BY DEF GetFromSSTables, Below, Over
<1>7. GetBelowCache(k, Below(k)) /\ Below(k) \in {NONE, TOMBSTONE} => NotFound
    BY DEF GetBelowCache
<1>8. GetFromCache(k) /\ cache[k] = TOMBSTONE => NotFound
    BY DEF GetFromCache
<1> QED
    BY <1>2, <1>3, <1>4, <1>5, <1>6, <1>7, <1>8 DEF Get

----------------------------------------------------------------------------
(* Compaction and restart.                                                 *)

LEMMA CompactKeeps ==
    ASSUME IInv, TypeOK', Compact
    PROVE  IInv'
<1> DEFINE out == CompactedName(now)
<1>1. /\ now \in Nat /\ now' = now + 1 /\ out = 2 * now + 1 /\ out \in Nat
      /\ sstables \in Seq(Nat) /\ DOMAIN files \subseteq Nat
    BY DEF IInv, TypeOK, Compact, CompactedName
<1>2. /\ files' = CompactedFiles(files, sstables, out)
      /\ sstables' = CompactedVector(sstables, out)
      /\ Len(sstables) > 1
    BY <1>1, CompactionAssumption DEF Compact, CompactedFiles, CompactedVector
<1>3. out \notin DOMAIN files
    BY <1>1 DEF IInv, NamesPast, FlushName
<1>4. Distinct(sstables) /\ \A i \in DOMAIN sstables : sstables[i] \in DOMAIN files
    BY DEF IInv, FilesMatchVector, Distinct
<1>5. \A k \in Keys : Lookup(files', sstables', k) = Lookup(files, sstables, k)
    BY <1>1, <1>2, <1>3, <1>4, LookupCompacted
<1>6. DOMAIN files' = (DOMAIN files \ {sstables[1], sstables[2]}) \cup {out}
    BY <1>2 DEF CompactedFiles, Kept
<1>7. NamesPast'
  <2>1. \A q \in DOMAIN files : q \in Nat /\ q < 2 * now
      BY <1>1 DEF IInv, NamesPast, FlushName
  <2>2. \A q \in Nat : q < 2 * now => q < 2 * (now + 1)
      BY <1>1
  <2>3. out < 2 * (now + 1)
      BY <1>1
  <2> QED
      BY <1>1, <1>6, <2>1, <2>2, <2>3 DEF NamesPast, FlushName
<1>8. FilesMatchVector'
  <2> DEFINE n == Len(sstables) - 1
  <2>1. /\ Len(sstables) \in Nat /\ DOMAIN sstables = 1..Len(sstables)
        /\ DOMAIN sstables' = 1..n /\ 1 \in 1..n /\ sstables'[1] = out
        /\ \A i \in 1..n : i # 1 => sstables'[i] = sstables[i + 1]
                                     /\ i + 1 \in DOMAIN sstables /\ i + 1 > 2
      BY <1>1, <1>2 DEF CompactedVector
  <2>2. \A i \in DOMAIN sstables : i # 1 /\ i # 2 =>
            i - 1 \in 1..n /\ i - 1 # 1 /\ (i - 1) + 1 = i
      BY <2>1
  <2>3. 1 \in DOMAIN sstables /\ 2 \in DOMAIN sstables
      BY <1>1, <1>2
  <2>4. \A i \in 1..n : i # 1 => /\ sstables'[i] \in DOMAIN files
                                 /\ sstables'[i] # out
                                 /\ sstables'[i] # sstables[1]
                                 /\ sstables'[i] # sstables[2]
    <3> SUFFICES ASSUME NEW i \in 1..n, i # 1
                 PROVE  /\ sstables[i + 1] \in DOMAIN files
                        /\ sstables[i + 1] # out
                        /\ sstables[i + 1] # sstables[1]
                        /\ sstables[i + 1] # sstables[2]
        BY <2>1
    <3>1. i + 1 \in DOMAIN sstables /\ i + 1 # 1 /\ i + 1 # 2
        BY <2>1
    <3> QED
        BY <1>3, <1>4, <2>3, <3>1 DEF Distinct
  <2>5. \A i, j \in 1..n : i # 1 /\ j # 1 /\ sstables'[i] = sstables'[j] => i = j
    <3> SUFFICES ASSUME NEW i \in 1..n, NEW j \in 1..n, i # 1, j # 1,
                        sstables[i + 1] = sstables[j + 1]
                 PROVE  i = j
        BY <2>1
    <3>1. i + 1 = j + 1
        BY <1>4, <2>1 DEF Distinct
    <3> QED
        BY <3>1
  <2>6. \A i, j \in DOMAIN sstables' : sstables'[i] = sstables'[j] => i = j
      BY <2>1, <2>4, <2>5
  <2>7. \A q \in DOMAIN files' : \E i \in DOMAIN sstables' : sstables'[i] = q
    <3> SUFFICES ASSUME NEW q \in DOMAIN files', q # out
                 PROVE  \E i \in DOMAIN sstables' : sstables'[i] = q
        BY <2>1
    <3>1. q \in DOMAIN files /\ q # sstables[1] /\ q # sstables[2]
        BY <1>6
    <3>2. PICK i \in DOMAIN sstables : sstables[i] = q
        BY <3>1 DEF IInv, FilesMatchVector
    <3>3. i - 1 \in 1..n /\ i - 1 # 1 /\ (i - 1) + 1 = i
        BY <2>2, <3>1, <3>2
    <3>4. sstables'[i - 1] = q
        BY <2>1, <3>2, <3>3
    <3> QED
        BY <2>1, <3>3, <3>4
  <2>8. \A i \in DOMAIN sstables' : sstables'[i] \in DOMAIN files'
      BY <1>6, <2>1, <2>4
  <2>9. {sstables'[i] : i \in DOMAIN sstables'} = DOMAIN files'
      BY <2>7, <2>8
  <2> QED
      BY <2>6, <2>9 DEF FilesMatchVector
<1>9. /\ memtable' = memtable /\ cache' = cache /\ wal' = wal /\ store' = store
      /\ \A k \in Keys : Below(k)' = Below(k)
    BY <1>5 DEF Compact, Below
<1>10. CacheCoherent'
    BY <1>9 DEF IInv, CacheCoherent
<1>11. now <= now' /\ now' \in Nat
    BY <1>1
<1>12. BelowAgrees' /\ LogAgrees'
    BY <1>1, <1>5, <1>9, <1>11, SameLater DEF IInv, BelowAgrees, LogAgrees
<1> QED
    BY <1>7, <1>8, <1>10, <1>12 DEF IInv

\* While no key is in two tables that change places, a restart searches them to
\* the same end.
LEMMA RestartLookup ==
    ASSUME TypeOK, FilesMatchVector, KeysApart(files, sstables), NEW k \in Keys
    PROVE  Lookup(files, NameOrder(DOMAIN files), k) = Lookup(files, sstables, k)
<1>1. DOMAIN files \subseteq Nat /\ IsFiniteSet(DOMAIN files) /\ sstables \in Seq(Nat)
    BY DEF TypeOK
<1>2. DOMAIN files \subseteq Names(sstables)
    BY DEF FilesMatchVector, Names
<1> QED
    BY <1>1, <1>2, SameLookup

LEMMA RestartKeeps ==
    ASSUME IInv, TypeOK', FlushTakesMs > 0, KeysApart(files, sstables), Restart
    PROVE  IInv'
<1> DEFINE ss == NameOrder(DOMAIN files)
<1>1. ss \in Seq(Nat) /\ Distinct(ss) /\ Names(ss) = DOMAIN files
    BY NameOrderNames DEF IInv, TypeOK
<1>2. Settle(Replay(wal), wal, ss) /\ cache' = EmptyTable /\ store' = store
    BY DEF Restart
<1>8. \A j \in Keys : Lookup(files, ss, j) = Lookup(files, sstables, j)
    BY RestartLookup DEF IInv
<1> HIDE DEF ss
<1>3. Replay(wal) \in Table /\ wal \in Seq(LogRecord) /\ now \in Nat /\ now' \in Nat
    BY ReplayType DEF IInv, TypeOK
<1>4. /\ now <= now' /\ FilesMatchVector' /\ NamesPast'
      /\ \A j \in Keys : Below(j)' = Over(Replay(wal)[j], Lookup(files, sstables, j))
      /\ \A j \in Keys : Over(Replay(wal)[j], Lookup(files, sstables, j))'
                           = Over(Replay(wal)[j], Lookup(files, sstables, j))
    BY <1>1, <1>2, <1>3, <1>8, SettleKeeps DEF IInv
<1>5. CacheCoherent'
    BY <1>2 DEF CacheCoherent, EmptyTable
<1>6. \A j \in Keys : Same(Over(Replay(wal)[j], Lookup(files, sstables, j)), store[j], now')
    BY <1>3, <1>4, SameLater DEF IInv, LogAgrees
<1>7. BelowAgrees' /\ LogAgrees'
    BY <1>2, <1>4, <1>6 DEF BelowAgrees, LogAgrees
<1> QED
    BY <1>4, <1>5, <1>7 DEF IInv

----------------------------------------------------------------------------
(* The invariant.                                                          *)

LEMMA IInvInit == Init => IInv
<1> SUFFICES ASSUME Init PROVE IInv
    OBVIOUS
<1>1. TypeOK
    BY TypeInit
<1>2. DOMAIN files = {} /\ DOMAIN sstables = {}
    BY DEF Init
<1>3. FilesMatchVector /\ NamesPast
    BY <1>2 DEF FilesMatchVector, NamesPast
<1>4. CacheCoherent
    BY DEF Init, CacheCoherent, EmptyTable
<1>5. \A k \in Keys : Lookup(files, sstables, k) = NONE
    BY <1>2 DEF Lookup, Holders
<1>6. \A k \in Keys : Below(k) = NONE /\ store[k] = NONE /\ Replay(wal)[k] = NONE
    BY <1>5, ReplayEmpty DEF Init, Below, Over, EmptyTable
<1>7. BelowAgrees /\ LogAgrees
    BY <1>5, <1>6 DEF BelowAgrees, LogAgrees, Over, Same
<1> QED
    BY <1>1, <1>3, <1>4, <1>7 DEF IInv

\* A write of a value: SET and TTL.
LEMMA PutKeeps ==
    ASSUME IInv, TypeOK', FlushTakesMs > 0, NEW k \in Keys,
           NEW v \in UserValues \cup Ephemeral, Put(k, v),
           store' = [store EXCEPT ![k] = v]
    PROVE  IInv'
<1> DEFINE r == Record("SET", k, v)
<1>1. v \in Stored /\ r \in LogRecord /\ r.key = k /\ Effect(r) = v
    BY DEF Stored, Record, LogRecord, Effect
<1>2. Settle([memtable EXCEPT ![k] = v], Append(wal, r), sstables)
    BY DEF Put
<1>3. cache' \in CachePut(cache, k, v)
    BY DEF Put
<1>4. cache'[k] = v /\ \A j \in Keys : j # k => cache'[j] \in {cache[j], NONE}
    BY <1>1, <1>3, CachePutEffect DEF IInv, TypeOK
<1>5. \A t \in Nat : Same(v, v, t)
    BY DEF Same
<1> HIDE DEF r
<1> QED
    BY <1>1, <1>2, <1>4, <1>5, WriteKeeps

LEMMA DelKeeps ==
    ASSUME IInv, TypeOK', FlushTakesMs > 0, NEW k \in Keys, Del(k)
    PROVE  IInv'
<1> DEFINE r == Record("DELETE", k, NONE)
<1>1. TOMBSTONE \in Stored /\ r \in LogRecord /\ r.key = k /\ Effect(r) = TOMBSTONE
    BY DEF Stored, Record, LogRecord, Effect
<1>2. Settle([memtable EXCEPT ![k] = TOMBSTONE], Append(wal, r), sstables)
    BY DEF Del
<1>3. cache'[k] = NONE /\ \A j \in Keys : j # k => cache'[j] = cache[j]
    BY DEF Del, CacheRemove, IInv, TypeOK, Table
<1>4. \A t \in Nat : Same(TOMBSTONE, NONE, t)
    BY DEF Same, Dead
<1>5. store' = [store EXCEPT ![k] = NONE]
    BY DEF Del
<1> HIDE DEF r
<1> QED
    BY <1>1, <1>2, <1>3, <1>4, <1>5, WriteKeeps

LEMMA TickKeeps ==
    ASSUME IInv, TypeOK', Tick
    PROVE  IInv'
<1>1. now \in Nat /\ now' = now + 1 /\ now' \in Nat /\ now <= now'
    BY DEF IInv, TypeOK, Tick
<1>2. UNCHANGED <<wal, memtable, cache, files, sstables, store>>
    BY DEF Tick
<1>3. FilesMatchVector' /\ CacheCoherent'
    BY <1>2 DEF IInv, FilesMatchVector, CacheCoherent, Below
<1>4. NamesPast'
  <2>1. \A q \in DOMAIN files : q \in Nat /\ q < 2 * now
      BY DEF IInv, NamesPast, FlushName, TypeOK
  <2>2. \A q \in Nat : q < 2 * now => q < 2 * (now + 1)
      BY <1>1
  <2> QED
      BY <1>1, <1>2, <2>1, <2>2 DEF NamesPast, FlushName
<1>5. BelowAgrees' /\ LogAgrees'
    BY <1>1, <1>2, SameLater DEF IInv, BelowAgrees, LogAgrees, Below
<1> QED
    BY <1>3, <1>4, <1>5 DEF IInv

LEMMA IInvStep ==
    ASSUME FlushTakesMs > 0, IInv, [OrderedNext]_vars
    PROVE  IInv'
<1>1. TypeOK'
  <2>1. [Next]_vars
      BY DEF OrderedNext, Next
  <2> QED
      BY <2>1, TypeStep DEF IInv
<1>2. ASSUME NEW k \in Keys, Set(k) PROVE IInv'
    BY <1>1, <1>2, PutKeeps DEF Set
<1>3. ASSUME NEW k \in Keys, SetTTL(k) PROVE IInv'
  <2>1. PICK d \in UserValues, life \in Lifetimes :
            LET v == [data |-> d, expiry |-> now + life]
            IN  Put(k, v) /\ store' = [store EXCEPT ![k] = v]
      BY <1>3 DEF SetTTL
  <2>2. [data |-> d, expiry |-> now + life] \in Ephemeral
      BY LifetimesAssumption DEF Ephemeral, IInv, TypeOK
  <2> QED
      BY <1>1, <2>1, <2>2, PutKeeps
<1>4. ASSUME NEW k \in Keys, Del(k) PROVE IInv'
    BY <1>1, <1>4, DelKeeps
<1>5. ASSUME NEW k \in Keys, Get(k) PROVE IInv'
    BY <1>1, <1>5, GetKeeps
<1>6. CASE Compact
    BY <1>1, <1>6, CompactKeeps
<1>7. CASE Tick
    BY <1>1, <1>7, TickKeeps
<1>8. CASE KeysApart(files, sstables) /\ Restart
    BY <1>1, <1>8, RestartKeeps
<1>9. CASE UNCHANGED vars
    BY <1>9 DEF vars, IInv, TypeOK, FilesMatchVector, NamesPast, CacheCoherent,
                BelowAgrees, LogAgrees, Below
<1> QED
    BY <1>2, <1>3, <1>4, <1>5, <1>6, <1>7, <1>8, <1>9 DEF OrderedNext, Operate

\* lsm_engine.cpp keeps its layers in agreement: the inductive invariant holds
\* while no two flushes share a millisecond and restarts find no key in two tables
\* whose names are the other way round.
THEOREM Agreement ==
    ASSUME FlushTakesMs > 0
    PROVE  OrderedSpec => []IInv
<1>1. Init => IInv
    BY IInvInit
<1>2. IInv /\ [OrderedNext]_vars => IInv'
    BY IInvStep
<1> QED
    BY <1>1, <1>2, PTL DEF OrderedSpec

----------------------------------------------------------------------------
(* What follows from it.                                                   *)

\* get(), whichever of its three paths it takes, meets what the last
\* acknowledged command on that key left.
THEOREM ReadsNewestHolds ==
    ASSUME FlushTakesMs > 0
    PROVE  OrderedSpec => []ReadsNewest
<1>1. IInv => ReadsNewest
  <2> SUFFICES ASSUME IInv, NEW k \in Keys
               PROVE  Same(View(k), store[k], now)
      BY DEF ReadsNewest
  <2>1. View(k) = Below(k)
      BY DEF View, Over, IInv, CacheCoherent
  <2> QED
      BY <2>1 DEF IInv, BelowAgrees
<1> QED
    BY <1>1, Agreement, PTL

\* The cache never disagrees with the layers below it.
THEOREM CacheCoherence ==
    ASSUME FlushTakesMs > 0
    PROVE  OrderedSpec => []CacheCoherent
<1>1. IInv => CacheCoherent
    BY DEF IInv
<1> QED
    BY <1>1, Agreement, PTL

\* Every acknowledged command would survive a restart that finds no key in two
\* tables whose names are the other way round: what the log lost, a table holds.
THEOREM RestartSafety ==
    ASSUME FlushTakesMs > 0
    PROVE  OrderedSpec => []RestartKeepsStore
<1>1. IInv => RestartKeepsStore
  <2> SUFFICES ASSUME IInv, KeysApart(files, sstables), NEW k \in Keys
               PROVE  Same(Durable(k), store[k], now)
      BY DEF RestartKeepsStore
  <2>1. Durable(k) = Over(Replay(wal)[k], Lookup(files, sstables, k))
      BY RestartLookup DEF Durable, IInv
  <2> QED
      BY <2>1 DEF IInv, LogAgrees
<1> QED
    BY <1>1, Agreement, PTL

\* The vector and the directory hold the same tables.
THEOREM DirectoryMatches ==
    ASSUME FlushTakesMs > 0
    PROVE  OrderedSpec => []FilesMatchVector
<1>1. IInv => FilesMatchVector
    BY DEF IInv
<1> QED
    BY <1>1, Agreement, PTL

----------------------------------------------------------------------------
(* The refinement of KVStore, for clients that do not store the marker.     *)

\* The marker of a deleted key never passes for a value of the store.
StoreHasNoMarker == \A k \in Keys : store[k] # TOMBSTONE

RInv == IInv /\ StoreHasNoMarker

----------------------------------------------------------------------------
(* The steps of KVStore that the engine's steps are.                       *)

\* The clock of every step that may flush.
LEMMA ClockMoves ==
    ASSUME IInv, TypeOK', NEW m, NEW w, NEW ss, Settle(m, w, ss)
    PROVE  KV!Elapse
<1>1. now \in Nat /\ now' \in Nat /\ (now' = now \/ now' = now + FlushTakesMs)
    BY DEF IInv, TypeOK, Settle
<1> QED
    BY <1>1, FlushTimeAssumption DEF KV!Elapse

LEMMA SetRefines ==
    ASSUME RInv, IInv', NEW k \in Keys, Set(k)
    PROVE  KV!KVSet(k)
<1>1. PICK v \in UserValues : Put(k, v) /\ store' = [store EXCEPT ![k] = v]
    BY DEF Set
<1>2. KV!Elapse
    BY <1>1, ClockMoves DEF RInv, IInv, Put
<1> QED
    BY <1>1, <1>2 DEF KV!KVSet, Put, OK, KV!OK

LEMMA SetTTLRefines ==
    ASSUME RInv, IInv', NEW k \in Keys, SetTTL(k)
    PROVE  KV!KVSetTTL(k)
<1>1. PICK d \in UserValues, life \in Lifetimes :
          LET v == [data |-> d, expiry |-> now + life]
          IN  Put(k, v) /\ store' = [store EXCEPT ![k] = v]
    BY DEF SetTTL
<1>2. KV!Elapse
    BY <1>1, ClockMoves DEF RInv, IInv, Put
<1> QED
    BY <1>1, <1>2 DEF KV!KVSetTTL, Put, OK, KV!OK

LEMMA DelRefines ==
    ASSUME RInv, IInv', NEW k \in Keys, Del(k)
    PROVE  KV!KVDel(k)
<1>1. KV!Elapse
    BY ClockMoves DEF RInv, IInv, Del
<1> QED
    BY <1>1 DEF KV!KVDel, Del, OK, KV!OK

\* What a client may see of two values that agree is the same.
LEMMA SameVisible ==
    ASSUME NEW x \in Stored \cup {NONE}, NEW s \in Stored \cup {NONE}, s # TOMBSTONE,
           Same(x, s, now)
    PROVE  KV!Visible(s, now) = IF Dead(x, now) THEN NONE ELSE Strip(x)
<1>1. CASE Dead(x, now)
  <2>1. Dead(s, now)
      BY <1>1 DEF Same
  <2>2. s = NONE \/ KV!Expired(s, now)
      BY <2>1 DEF Dead, Expired, KV!Expired, Ephemeral, KV!Ephemeral
  <2> QED
      BY <1>1, <2>2 DEF KV!Visible
<1>2. CASE ~Dead(x, now)
  <2>1. x = s
      BY <1>2 DEF Same
  <2>2. s # NONE /\ ~KV!Expired(s, now)
      BY <1>2, <2>1 DEF Dead, Expired, KV!Expired, Ephemeral, KV!Ephemeral
  <2> QED
      BY <1>2, <2>1, <2>2 DEF KV!Visible, Strip, Ephemeral, KV!Ephemeral
<1> QED
    BY <1>1, <1>2

\* All three paths of get() answer with what the layers hold for the key.
LEMMA GetAnswers ==
    ASSUME IInv, NEW k \in Keys, Get(k)
    PROVE  reply' = IF Dead(Below(k), now) THEN NONE ELSE Strip(Below(k))
<1>1. NotFound /\ Below(k) \in {NONE, TOMBSTONE}
        => reply' = IF Dead(Below(k), now) THEN NONE ELSE Strip(Below(k))
    BY DEF NotFound, Dead
<1>2. ASSUME NEW c, CheckTTL(k, Below(k), c), Below(k) \notin {NONE, TOMBSTONE}
      PROVE  reply' = IF Dead(Below(k), now) THEN NONE ELSE Strip(Below(k))
    BY <1>2 DEF CheckTTL, Dead
<1>3. cache[k] # NONE => cache[k] = Below(k)
    BY DEF IInv, CacheCoherent
<1>4. CASE GetFromCache(k)
    BY <1>1, <1>2, <1>3, <1>4 DEF GetFromCache
<1>5. GetFromMemTable(k) \/ GetFromSSTables(k) => GetBelowCache(k, Below(k))
    BY DEF GetFromMemTable, GetFromSSTables, Below, Over
<1>6. CASE GetBelowCache(k, Below(k))
    BY <1>1, <1>2, <1>6 DEF GetBelowCache
<1> QED
    BY <1>4, <1>5, <1>6 DEF Get

LEMMA GetRefines ==
    ASSUME RInv, NEW k \in Keys, Get(k)
    PROVE  KV!KVGet(k)
<1>1. /\ Below(k) \in Stored \cup {NONE}
      /\ store[k] \in Stored \cup {NONE} /\ store[k] # TOMBSTONE
  <2>1. Lookup(files, sstables, k) \in Stored \cup {NONE}
      BY LookupType DEF RInv, IInv, TypeOK, Directory
  <2> QED
      BY <2>1 DEF Below, Over, RInv, StoreHasNoMarker, IInv, TypeOK, Table
<1>2. Same(Below(k), store[k], now)
    BY DEF RInv, IInv, BelowAgrees
<1>3. KV!Visible(store[k], now) = IF Dead(Below(k), now) THEN NONE ELSE Strip(Below(k))
    BY <1>1, <1>2, SameVisible
<1>4. reply' = KV!Visible(store[k], now)
    BY <1>3, GetAnswers DEF RInv
<1> QED
    BY <1>4 DEF KV!KVGet, Get

----------------------------------------------------------------------------
(* The refinement.                                                         *)

LEMMA InitRefines == Init => KV!KVInit
BY DEF Init, KV!KVInit, EmptyTable, OK, KV!OK

LEMMA StepRefines ==
    ASSUME RInv, IInv', [OrderedNext]_vars
    PROVE  [KV!KVNext]_(KV!kvVars)
<1>1. ASSUME NEW k \in Keys, Set(k) \/ SetTTL(k) \/ Del(k) \/ Get(k)
      PROVE  KV!KVNext
    BY <1>1, SetRefines, SetTTLRefines, DelRefines, GetRefines DEF KV!KVNext
<1>2. now \in Nat /\ now' \in Nat
    BY DEF RInv, IInv, TypeOK
<1>3. CASE Compact \/ Tick
  <2>1. now' = now + 1 /\ UNCHANGED <<store, reply>>
      BY <1>3 DEF Compact, Tick
  <2> QED
      BY <1>2, <2>1 DEF KV!KVNext, KV!KVPass, KV!Elapse
<1>4. CASE Restart
  <2>1. KV!Elapse /\ UNCHANGED <<store, reply>>
      BY <1>4, ClockMoves DEF Restart, RInv, IInv
  <2> QED
      BY <2>1 DEF KV!KVNext, KV!KVPass
<1>5. CASE UNCHANGED vars
    BY <1>5 DEF vars, KV!kvVars
<1> QED
    BY <1>1, <1>3, <1>4, <1>5 DEF OrderedNext, Operate

LEMMA MarkerStep ==
    ASSUME TOMBSTONE \notin UserValues, RInv, [OrderedNext]_vars
    PROVE  StoreHasNoMarker'
<1>1. store \in [Keys -> Stored \cup {NONE}] /\ now \in Nat
    BY DEF RInv, IInv, TypeOK, Table
<1>2. ASSUME NEW k \in Keys, NEW s, s # TOMBSTONE, store' = [store EXCEPT ![k] = s]
      PROVE  StoreHasNoMarker'
    BY <1>1, <1>2 DEF RInv, StoreHasNoMarker
<1>3. ASSUME NEW k \in Keys, Set(k) PROVE StoreHasNoMarker'
    BY <1>2, <1>3 DEF Set
<1>4. ASSUME NEW k \in Keys, SetTTL(k) PROVE StoreHasNoMarker'
  <2>1. PICK d \in UserValues, life \in Lifetimes :
            store' = [store EXCEPT ![k] = [data |-> d, expiry |-> now + life]]
      BY <1>4 DEF SetTTL
  <2>2. [data |-> d, expiry |-> now + life] \in Ephemeral
      BY <1>1, LifetimesAssumption DEF Ephemeral
  <2> QED
      BY <1>2, <2>1, <2>2, MarkerAssumption DEF Ephemeral
<1>5. ASSUME NEW k \in Keys, Del(k) PROVE StoreHasNoMarker'
    BY <1>2, <1>5, MarkerAssumption DEF Del
<1>6. ASSUME store' = store PROVE StoreHasNoMarker'
    BY <1>6 DEF RInv, StoreHasNoMarker
<1> QED
    BY <1>3, <1>4, <1>5, <1>6 DEF OrderedNext, Operate, Get, Compact, Tick, Restart, vars

\* Behind its mutex, the engine is the one dictionary its clients are promised,
\* flushes, compactions, lazy expiries and restarts included.
THEOREM Refinement ==
    ASSUME FlushTakesMs > 0, TOMBSTONE \notin UserValues
    PROVE  OrderedSpec => ImplementsKVStore
<1>1. Init => RInv
    BY IInvInit, MarkerAssumption DEF RInv, Init, StoreHasNoMarker, EmptyTable
<1>2. RInv /\ [OrderedNext]_vars => RInv'
    BY IInvStep, MarkerStep DEF RInv
<1>3. Init => KV!KVInit
    BY InitRefines
<1>4. RInv /\ RInv' /\ [OrderedNext]_vars => [KV!KVNext]_(KV!kvVars)
    BY StepRefines DEF RInv
<1> QED
    BY <1>1, <1>2, <1>3, <1>4, PTL DEF OrderedSpec, ImplementsKVStore, KV!KVSpec
=============================================================================
