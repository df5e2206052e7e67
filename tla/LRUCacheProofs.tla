--------------------------- MODULE LRUCacheProofs ---------------------------
(***************************************************************************)
(* Theorems about LRUCache, for every capacity: its list and its map are   *)
(* one structure, the list is in the order of use, and together they are   *)
(* the cache that LSMEngine counts on.                                     *)
(***************************************************************************)
EXTENDS LRUCache, TLAPS, FiniteSetTheorems, SequenceTheorems

Entries == [key : Keys, val : Values]

KeysOf(s)    == {s[i].key : i \in DOMAIN s}
NoRepeats(s) == \A i, j \in DOMAIN s : s[i].key = s[j].key => i = j
Distinct(u)  == \A i, j \in DOMAIN u : u[i] = u[j] => i = j

\* The inductive invariant: the map is what the list determines, and the list's
\* keys, each once, begin the keys in the order of their last use.
LInv == /\ items \in Seq(Entries) /\ Len(items) <= Capacity
        /\ NoRepeats(items)
        /\ index = Pointing(KeysOf(items), items)
        /\ answer \in Values \cup {NONE}
        /\ used \in Seq(Keys) /\ Distinct(used)
        /\ HoldsMostRecent

----------------------------------------------------------------------------
(* Sequences.                                                              *)

\* RemoveAt closes the gap.
LEMMA RemoveAtIs ==
    ASSUME NEW S, NEW s \in Seq(S), NEW i \in DOMAIN s
    PROVE  /\ RemoveAt(s, i) \in Seq(S)
           /\ Len(RemoveAt(s, i)) = Len(s) - 1
           /\ \A j \in 1..Len(s) - 1 : RemoveAt(s, i)[j] = s[IF j < i THEN j ELSE j + 1]
<1>1. /\ i \in 1..Len(s) /\ Len(s) \in Nat /\ \A j \in 1..Len(s) : s[j] \in S
    OBVIOUS
<1> DEFINE a == SubSeq(s, 1, i - 1)
           b == SubSeq(s, i + 1, Len(s))
<1>2. /\ a \in Seq(S) /\ Len(a) = i - 1 /\ \A j \in 1..i - 1 : a[j] = s[j]
    BY <1>1, SubSeqProperties
<1>3. /\ b \in Seq(S) /\ Len(b) = Len(s) - i /\ \A j \in 1..Len(s) - i : b[j] = s[i + j]
    BY <1>1, SubSeqProperties
<1> HIDE DEF a, b
<1>4. /\ a \o b \in Seq(S) /\ Len(a \o b) = Len(a) + Len(b)
      /\ \A j \in 1..Len(a) + Len(b) :
            (a \o b)[j] = IF j <= Len(a) THEN a[j] ELSE b[j - Len(a)]
    BY <1>2, <1>3, ConcatProperties
<1>5. RemoveAt(s, i) = a \o b
    BY DEF RemoveAt, a, b
<1>6. Len(a) + Len(b) = Len(s) - 1
    BY <1>1, <1>2, <1>3
<1>7. ASSUME NEW j \in 1..Len(s) - 1
      PROVE  (a \o b)[j] = s[IF j < i THEN j ELSE j + 1]
  <2>1. CASE j < i
      BY <1>1, <1>2, <1>3, <1>4, <2>1
  <2>2. CASE ~(j < i)
    <3>1. j - (i - 1) \in 1..Len(s) - i /\ i + (j - (i - 1)) = j + 1 /\ ~(j <= i - 1)
        BY <1>1, <2>2
    <3>2. j \in 1..Len(a) + Len(b) /\ ~(j <= Len(a)) /\ j - Len(a) = j - (i - 1)
        BY <1>2, <1>6, <3>1
    <3>3. b[j - (i - 1)] = s[i + (j - (i - 1))]
        BY <1>3, <3>1
    <3> QED
        BY <1>4, <2>2, <3>1, <3>2, <3>3
  <2> QED
      BY <2>1, <2>2
<1> QED
    BY <1>4, <1>5, <1>6, <1>7

\* A new head pushes everything back by one.
LEMMA HeadedIs ==
    ASSUME NEW S, NEW s \in Seq(S), NEW x \in S
    PROVE  /\ <<x>> \o s \in Seq(S)
           /\ Len(<<x>> \o s) = Len(s) + 1
           /\ (<<x>> \o s)[1] = x
           /\ \A j \in 1..Len(s) : (<<x>> \o s)[j + 1] = s[j]
<1>1. <<x>> \in Seq(S) /\ Len(<<x>>) = 1 /\ <<x>>[1] = x
    OBVIOUS
<1> DEFINE h == <<x>>
<1> HIDE DEF h
<1>2. h \in Seq(S) /\ Len(h) = 1 /\ h[1] = x
    BY <1>1 DEF h
<1>3. /\ h \o s \in Seq(S) /\ Len(h \o s) = Len(h) + Len(s)
      /\ \A j \in 1..Len(h) + Len(s) :
            (h \o s)[j] = IF j <= Len(h) THEN h[j] ELSE s[j - Len(h)]
    BY <1>2, ConcatProperties
<1>4. \A j \in 1..Len(s) : (h \o s)[j + 1] = s[j]
  <2> TAKE j \in 1..Len(s)
  <2>1. /\ Len(s) \in Nat /\ j + 1 \in 1..Len(h) + Len(s)
        /\ ~(j + 1 <= Len(h)) /\ (j + 1) - Len(h) = j
      BY <1>2
  <2> QED
      BY <1>3, <2>1
<1>5. Len(s) \in Nat /\ Len(h \o s) = Len(s) + 1 /\ (h \o s)[1] = x
    BY <1>2, <1>3
<1> QED
    BY <1>3, <1>4, <1>5 DEF h

\* splice(): the node comes first, those before it move back by one.
LEMMA MovedIs ==
    ASSUME NEW S, NEW s \in Seq(S), NEW i \in DOMAIN s
    PROVE  /\ MovedToFront(s, i) \in Seq(S)
           /\ Len(MovedToFront(s, i)) = Len(s)
           /\ \A j \in 1..Len(s) : MovedToFront(s, i)[j] =
                 IF j = 1 THEN s[i] ELSE IF j <= i THEN s[j - 1] ELSE s[j]
<1> DEFINE r == RemoveAt(s, i)
<1>1. /\ i \in 1..Len(s) /\ Len(s) \in Nat /\ s[i] \in S
    OBVIOUS
<1>2. /\ r \in Seq(S) /\ Len(r) = Len(s) - 1
      /\ \A j \in 1..Len(s) - 1 : r[j] = s[IF j < i THEN j ELSE j + 1]
    BY RemoveAtIs
<1> HIDE DEF r
<1>3. /\ <<s[i]>> \o r \in Seq(S) /\ Len(<<s[i]>> \o r) = Len(r) + 1
      /\ (<<s[i]>> \o r)[1] = s[i]
      /\ \A j \in 1..Len(r) : (<<s[i]>> \o r)[j + 1] = r[j]
    BY <1>1, <1>2, HeadedIs
<1> DEFINE m == <<s[i]>> \o r
<1>4. MovedToFront(s, i) = m
    BY DEF MovedToFront, r
<1> HIDE DEF m
<1>5. /\ m \in Seq(S) /\ Len(m) = Len(s) /\ m[1] = s[i]
      /\ \A j \in 1..Len(s) - 1 : m[j + 1] = r[j]
    BY <1>1, <1>2, <1>3 DEF m
<1>6. ASSUME NEW j \in 1..Len(s)
      PROVE  m[j] = IF j = 1 THEN s[i] ELSE IF j <= i THEN s[j - 1] ELSE s[j]
  <2>1. CASE j = 1
      BY <1>5, <2>1
  <2>2. CASE j # 1
    <3>1. /\ j - 1 \in 1..Len(s) - 1 /\ (j - 1) + 1 = j
          /\ (j - 1 < i <=> j <= i)
        BY <1>1, <2>2
    <3>2. m[j] = r[j - 1] /\ r[j - 1] = s[IF j - 1 < i THEN j - 1 ELSE (j - 1) + 1]
        BY <1>2, <1>5, <3>1
    <3> QED
        BY <2>2, <3>1, <3>2
  <2> QED
      BY <2>1, <2>2
<1> QED
    BY <1>4, <1>5, <1>6

----------------------------------------------------------------------------
(* The map and the history.                                                *)

\* The iterators of a list without repetitions lead back to its places.
LEMMA PointingIs ==
    ASSUME NEW s \in Seq(Entries), NoRepeats(s), NEW known, known = KeysOf(s)
    PROVE  /\ DOMAIN Pointing(known, s) = known
           /\ \A i \in DOMAIN s : Pointing(known, s)[s[i].key] = i
<1>1. DOMAIN Pointing(known, s) = known
    BY DEF Pointing
<1>2. ASSUME NEW i \in DOMAIN s
      PROVE  Pointing(known, s)[s[i].key] = i
  <2>1. s[i].key \in known
      BY DEF KeysOf
  <2>2. (CHOOSE j \in DOMAIN s : s[j].key = s[i].key) = i
      BY DEF NoRepeats
  <2> QED
      BY <2>1, <2>2 DEF Pointing
<1> QED
    BY <1>1, <1>2

\* Such a list has as many keys as nodes.
LEMMA KeysCounted ==
    ASSUME NEW s \in Seq(Entries), NoRepeats(s)
    PROVE  IsFiniteSet(KeysOf(s)) /\ Cardinality(KeysOf(s)) = Len(s)
<1> DEFINE f == [i \in 1..Len(s) |-> s[i].key]
<1>1. Len(s) \in Nat /\ DOMAIN s = 1..Len(s)
    OBVIOUS
<1>2. f \in Bijection(1..Len(s), KeysOf(s))
    BY <1>1 DEF Bijection, Injection, Surjection, IsInjective, KeysOf, NoRepeats
<1>3. ExistsBijection(1..Len(s), KeysOf(s))
    BY <1>2 DEF ExistsBijection
<1> QED
    BY <1>1, <1>3, FS_CountingElements, FS_NatBijection

\* Moving a node keeps the keys, and keeps them apart.
LEMMA MoveKeeps ==
    ASSUME NEW s \in Seq(Entries), NoRepeats(s), NEW i \in DOMAIN s
    PROVE  NoRepeats(MovedToFront(s, i)) /\ KeysOf(MovedToFront(s, i)) = KeysOf(s)
<1> DEFINE m == MovedToFront(s, i)
           From == [j \in 1..Len(s) |-> IF j = 1 THEN i ELSE IF j <= i THEN j - 1 ELSE j]
           To   == [j \in 1..Len(s) |-> IF j = i THEN 1 ELSE IF j < i THEN j + 1 ELSE j]
<1>1. Len(s) \in Nat /\ i \in 1..Len(s) /\ DOMAIN s = 1..Len(s)
    OBVIOUS
<1>2. m \in Seq(Entries) /\ Len(m) = Len(s) /\ \A j \in 1..Len(s) : m[j] = s[From[j]]
  <2>1. /\ m \in Seq(Entries) /\ Len(m) = Len(s)
        /\ \A j \in 1..Len(s) : m[j] = IF j = 1 THEN s[i] ELSE IF j <= i THEN s[j - 1] ELSE s[j]
      BY MovedIs
  <2> HIDE DEF m
  <2>2. \A j \in 1..Len(s) : From[j] = IF j = 1 THEN i ELSE IF j <= i THEN j - 1 ELSE j
      OBVIOUS
  <2> HIDE DEF From
  <2> QED
      BY <2>1, <2>2
<1> HIDE DEF m
<1>3. DOMAIN m = 1..Len(s)
    BY <1>2
<1>4. \A j \in 1..Len(s) : From[j] \in 1..Len(s) /\ To[From[j]] = j
    BY <1>1
<1>5. \A j \in 1..Len(s) : To[j] \in 1..Len(s) /\ From[To[j]] = j
    BY <1>1
<1> HIDE DEF From, To
<1>6. NoRepeats(m)
  <2>1. ASSUME NEW j \in 1..Len(s), NEW l \in 1..Len(s), m[j].key = m[l].key
        PROVE  From[j] = From[l]
      BY <1>1, <1>2, <1>4, <2>1 DEF NoRepeats
  <2>2. ASSUME NEW j \in 1..Len(s), NEW l \in 1..Len(s), m[j].key = m[l].key
        PROVE  j = l
      BY <1>4, <2>1, <2>2
  <2> QED
      BY <1>3, <2>2 DEF NoRepeats
<1>7. KeysOf(m) \subseteq KeysOf(s)
    BY <1>1, <1>2, <1>3, <1>4 DEF KeysOf
<1>8. KeysOf(s) \subseteq KeysOf(m)
    BY <1>1, <1>2, <1>3, <1>5 DEF KeysOf
<1> QED
    BY <1>6, <1>7, <1>8 DEF m

\* The same of the history of keys.
LEMMA MoveKeepsKeys ==
    ASSUME NEW u \in Seq(Keys), Distinct(u), NEW i \in DOMAIN u
    PROVE  Distinct(MovedToFront(u, i))
<1> DEFINE m == MovedToFront(u, i)
           From == [j \in 1..Len(u) |-> IF j = 1 THEN i ELSE IF j <= i THEN j - 1 ELSE j]
           To   == [j \in 1..Len(u) |-> IF j = i THEN 1 ELSE IF j < i THEN j + 1 ELSE j]
<1>1. Len(u) \in Nat /\ i \in 1..Len(u) /\ DOMAIN u = 1..Len(u)
    OBVIOUS
<1>2. m \in Seq(Keys) /\ Len(m) = Len(u) /\ \A j \in 1..Len(u) : m[j] = u[From[j]]
  <2>1. /\ m \in Seq(Keys) /\ Len(m) = Len(u)
        /\ \A j \in 1..Len(u) : m[j] = IF j = 1 THEN u[i] ELSE IF j <= i THEN u[j - 1] ELSE u[j]
      BY MovedIs
  <2> HIDE DEF m
  <2>2. \A j \in 1..Len(u) : From[j] = IF j = 1 THEN i ELSE IF j <= i THEN j - 1 ELSE j
      OBVIOUS
  <2> HIDE DEF From
  <2> QED
      BY <2>1, <2>2
<1> HIDE DEF m
<1>3. DOMAIN m = 1..Len(u)
    BY <1>2
<1>4. \A j \in 1..Len(u) : From[j] \in 1..Len(u) /\ To[From[j]] = j
    BY <1>1
<1> HIDE DEF From, To
<1> QED
    BY <1>1, <1>2, <1>3, <1>4 DEF Distinct, m

\* A key used before comes first, and the others keep their order.
LEMMA UsedAgain ==
    ASSUME used \in Seq(Keys), Distinct(used), NEW i \in DOMAIN used
    PROVE  /\ UsedFirst(used[i]) = MovedToFront(used, i)
           /\ UsedWithout(used[i]) = RemoveAt(used, i)
<1>1. Position(used[i]) = i
    BY DEF Position, Distinct
<1> QED
    BY <1>1 DEF UsedFirst, UsedWithout, MovedToFront

\* What the invariant says of the map.
LEMMA IndexIs ==
    ASSUME LInv
    PROVE  /\ Known = KeysOf(items)
           /\ \A i \in DOMAIN items : items[i].key \in Known /\ index[items[i].key] = i
           /\ \A k \in Known : index[k] \in DOMAIN items /\ items[index[k]].key = k
<1>1. Known = KeysOf(items) /\ \A i \in DOMAIN items : index[items[i].key] = i
    BY PointingIs DEF LInv, Known
<1> QED
    BY <1>1 DEF KeysOf

----------------------------------------------------------------------------
(* Each operation keeps the invariant.                                     *)

\* A hit and an update move the node of a known key to the front, perhaps with
\* another value in it.
LEMMA TouchKeeps ==
    ASSUME LInv, NEW k \in Known, NEW s \in Seq(Entries), Len(s) = Len(items),
           \A i \in DOMAIN items : s[i].key = items[i].key,
           items' = MovedToFront(s, index[k]), index' = Pointing(Known, items'),
           answer' \in Values \cup {NONE}, used' = UsedFirst(k)
    PROVE  /\ LInv'
           /\ KeysOf(items') = KeysOf(items)
           /\ \A i \in DOMAIN items' : \E j \in DOMAIN items : items'[i] = s[j]
<1> DEFINE i == index[k]
<1>1. i \in DOMAIN items /\ items[i].key = k /\ Known = KeysOf(items)
    BY IndexIs
<1>2. /\ items \in Seq(Entries) /\ Len(items) \in Nat /\ Len(items) <= Capacity
      /\ DOMAIN items = 1..Len(items) /\ DOMAIN s = DOMAIN items
    BY DEF LInv
<1>3. NoRepeats(s) /\ KeysOf(s) = KeysOf(items)
    BY <1>2 DEF NoRepeats, KeysOf, LInv
<1>4. NoRepeats(items') /\ KeysOf(items') = KeysOf(items)
    BY <1>1, <1>2, <1>3, MoveKeeps
<1>5. /\ items' \in Seq(Entries) /\ Len(items') = Len(items)
      /\ \A j \in 1..Len(items) : items'[j] =
            IF j = 1 THEN s[i] ELSE IF j <= i THEN s[j - 1] ELSE s[j]
  <2>1. i \in DOMAIN s /\ items' = MovedToFront(s, i)
      BY <1>1, <1>2
  <2> HIDE DEF i
  <2> QED
      BY <2>1, MovedIs
<1>6. /\ used \in Seq(Keys) /\ Distinct(used) /\ Len(items) <= Len(used)
      /\ \A j \in DOMAIN items : items[j].key = used[j]
      /\ Len(used) \in Nat /\ DOMAIN used = 1..Len(used)
    BY DEF LInv, HoldsMostRecent
<1>7. i \in DOMAIN used /\ used[i] = k
    BY <1>1, <1>2, <1>6
<1>8. used' = MovedToFront(used, i)
    BY <1>6, <1>7, UsedAgain
<1>9. /\ used' \in Seq(Keys) /\ Distinct(used') /\ Len(used') = Len(used)
      /\ \A j \in 1..Len(used) : used'[j] =
            IF j = 1 THEN used[i] ELSE IF j <= i THEN used[j - 1] ELSE used[j]
  <2> HIDE DEF i
  <2>1. Distinct(used')
      BY <1>6, <1>7, <1>8, MoveKeepsKeys
  <2>2. used \in Seq(Keys) /\ i \in DOMAIN used
      BY <1>6, <1>7
  <2> QED
      BY <1>8, <2>1, <2>2, MovedIs
<1>10. ASSUME NEW j \in DOMAIN items'
       PROVE  items'[j].key = used'[j]
  <2>1. j \in 1..Len(items) /\ j \in 1..Len(used)
      BY <1>2, <1>5, <1>6
  <2>2. CASE j = 1
      BY <1>1, <1>2, <1>5, <1>7, <1>9, <2>1, <2>2
  <2>3. CASE j # 1 /\ j <= i
    <3>1. j - 1 \in DOMAIN items
        BY <1>2, <2>1, <2>3
    <3>2. items'[j] = s[j - 1] /\ used'[j] = used[j - 1]
        BY <1>5, <1>9, <2>1, <2>3
    <3> QED
        BY <1>6, <3>1, <3>2
  <2>4. CASE j # 1 /\ ~(j <= i)
      BY <1>2, <1>5, <1>6, <1>9, <2>1, <2>4
  <2> QED
      BY <2>2, <2>3, <2>4
<1>11. HoldsMostRecent'
    BY <1>5, <1>6, <1>9, <1>10 DEF HoldsMostRecent
<1>12. ASSUME NEW j \in DOMAIN items'
       PROVE  \E l \in DOMAIN items : items'[j] = s[l]
  <2>1. j \in 1..Len(items) /\ (j # 1 => j - 1 \in DOMAIN items)
      BY <1>2, <1>5
  <2> QED
      BY <1>1, <1>2, <1>5, <2>1
<1> QED
    BY <1>1, <1>2, <1>4, <1>5, <1>9, <1>11, <1>12 DEF LInv

\* erase() and remove(): both lists close their gap at the same place.
LEMMA EraseKeeps ==
    ASSUME LInv, NEW k \in Keys, Erase(k)
    PROVE  /\ LInv'
           /\ KeysOf(items') = KeysOf(items) \ {k}
           /\ \A i \in DOMAIN items' : \E j \in DOMAIN items : items'[i] = items[j]
<1> DEFINE i == index[k]
           After(j) == IF j < i THEN j ELSE j + 1
<1>1. k \in Known /\ i \in DOMAIN items /\ items[i].key = k /\ Known = KeysOf(items)
    BY IndexIs DEF Erase
<1>2. /\ items \in Seq(Entries) /\ Len(items) \in Nat /\ Len(items) <= Capacity
      /\ DOMAIN items = 1..Len(items) /\ NoRepeats(items) /\ Capacity \in Nat
    BY CapacityAssumption DEF LInv
<1>3. /\ items' \in Seq(Entries) /\ Len(items') = Len(items) - 1
      /\ \A j \in 1..Len(items) - 1 : items'[j] = items[IF j < i THEN j ELSE j + 1]
    BY <1>1, <1>2, RemoveAtIs DEF Erase
<1>4. DOMAIN items' = 1..Len(items) - 1
    BY <1>2, <1>3
<1>5. ASSUME NEW j \in DOMAIN items'
      PROVE  /\ After(j) \in DOMAIN items /\ After(j) # i
             /\ items'[j] = items[After(j)]
    BY <1>1, <1>2, <1>3, <1>4
<1>6. NoRepeats(items')
  <2>1. ASSUME NEW j \in DOMAIN items', NEW l \in DOMAIN items', items'[j].key = items'[l].key
        PROVE  j = l
    <3>1. After(j) = After(l)
        BY <1>2, <1>5, <2>1 DEF NoRepeats
    <3> QED
        BY <1>1, <1>2, <1>4, <3>1
  <2> QED
      BY <2>1 DEF NoRepeats
<1>7. KeysOf(items') = Known \ {k}
  <2>1. ASSUME NEW j \in DOMAIN items'
        PROVE  items'[j].key \in Known \ {k}
      BY <1>1, <1>2, <1>5 DEF KeysOf, NoRepeats
  <2>2. ASSUME NEW j \in DOMAIN items, items[j].key # k
        PROVE  items[j].key \in KeysOf(items')
    <3>1. PICK l \in DOMAIN items' : After(l) = j
      <4>1. CASE j < i
        <5>1. j \in DOMAIN items' /\ After(j) = j
            BY <1>1, <1>2, <1>4, <4>1
        <5> QED
            BY <5>1
      <4>2. CASE j > i
        <5>1. j - 1 \in DOMAIN items' /\ After(j - 1) = j
            BY <1>1, <1>2, <1>4, <4>2
        <5> QED
            BY <5>1
      <4> QED
          BY <1>1, <1>2, <2>2, <4>1, <4>2
    <3> QED
        BY <1>5, <3>1 DEF KeysOf
  <2> QED
      BY <1>1, <2>1, <2>2 DEF KeysOf
<1>8. /\ used \in Seq(Keys) /\ Distinct(used) /\ Len(items) <= Len(used)
      /\ \A j \in DOMAIN items : items[j].key = used[j]
      /\ Len(used) \in Nat /\ DOMAIN used = 1..Len(used)
    BY DEF LInv, HoldsMostRecent
<1>9. i \in DOMAIN used /\ used[i] = k
    BY <1>1, <1>2, <1>8
<1>10. /\ used' \in Seq(Keys) /\ Len(used') = Len(used) - 1
       /\ \A j \in 1..Len(used) - 1 : used'[j] = used[IF j < i THEN j ELSE j + 1]
  <2>1. used' = RemoveAt(used, i)
      BY <1>8, <1>9, UsedAgain DEF Erase
  <2> HIDE DEF i
  <2> QED
      BY <1>8, <1>9, <2>1, RemoveAtIs
<1>11. Distinct(used')
  <2>1. DOMAIN used' = 1..Len(used) - 1
      BY <1>8, <1>10
  <2>2. ASSUME NEW j \in DOMAIN used', NEW l \in DOMAIN used', used'[j] = used'[l]
        PROVE  j = l
    <3>1. After(j) \in DOMAIN used /\ After(l) \in DOMAIN used
        BY <1>8, <1>9, <2>1
    <3>2. After(j) = After(l)
        BY <1>8, <1>10, <2>1, <2>2, <3>1 DEF Distinct
    <3> QED
        BY <1>8, <1>9, <2>1, <3>2
  <2> QED
      BY <2>2 DEF Distinct
<1>12. HoldsMostRecent'
  <2>1. ASSUME NEW j \in DOMAIN items'
        PROVE  items'[j].key = used'[j]
      BY <1>2, <1>4, <1>5, <1>8, <1>10
  <2> QED
      BY <1>2, <1>3, <1>8, <1>10, <2>1 DEF HoldsMostRecent
<1>13. index' = Pointing(KeysOf(items'), items') /\ answer' \in Values \cup {NONE}
    BY <1>7 DEF Erase, LInv
<1> QED
    BY <1>1, <1>2, <1>3, <1>5, <1>6, <1>7, <1>10, <1>11, <1>12, <1>13 DEF LInv

\* Forgetting the last use of a key outside the cache leaves the keys in it where
\* they were.
LEMMA UsedNew ==
    ASSUME LInv, NEW k \in Keys, k \notin Known
    PROVE  /\ UsedWithout(k) \in Seq(Keys) /\ Distinct(UsedWithout(k))
           /\ Len(items) <= Len(UsedWithout(k))
           /\ \A j \in DOMAIN items : UsedWithout(k)[j] = items[j].key
           /\ \A j \in DOMAIN UsedWithout(k) : UsedWithout(k)[j] # k
<1>1. /\ used \in Seq(Keys) /\ Distinct(used) /\ Len(items) <= Len(used)
      /\ \A j \in DOMAIN items : items[j].key = used[j]
      /\ Len(used) \in Nat /\ DOMAIN used = 1..Len(used)
      /\ Len(items) \in Nat /\ DOMAIN items = 1..Len(items)
    BY DEF LInv, HoldsMostRecent
<1>2. CASE \A i \in DOMAIN used : used[i] # k
    BY <1>1, <1>2 DEF UsedWithout
<1>3. CASE \E i \in DOMAIN used : used[i] = k
  <2>1. PICK p \in DOMAIN used : used[p] = k
      BY <1>3
  <2>2. p > Len(items)
    <3>1. ASSUME p \in DOMAIN items PROVE FALSE
      <4>1. items[p].key \in Known
          BY <3>1, IndexIs
      <4> QED
          BY <1>1, <2>1, <3>1, <4>1
    <3> QED
        BY <1>1, <3>1
  <2> DEFINE u == UsedWithout(k)
             After(j) == IF j < p THEN j ELSE j + 1
  <2>3. UsedWithout(k) = RemoveAt(used, p)
      BY <1>1, <2>1, UsedAgain
  <2>4. /\ u \in Seq(Keys) /\ Len(u) = Len(used) - 1
        /\ \A j \in 1..Len(used) - 1 : u[j] = used[IF j < p THEN j ELSE j + 1]
      BY <1>1, <2>3, RemoveAtIs
  <2> HIDE DEF u
  <2>5. DOMAIN u = 1..Len(used) - 1
      BY <1>1, <2>4
  <2>6. ASSUME NEW j \in DOMAIN u
        PROVE  After(j) \in DOMAIN used /\ After(j) # p /\ u[j] = used[After(j)]
      BY <1>1, <2>1, <2>4, <2>5
  <2>7. ASSUME NEW j \in DOMAIN u, NEW l \in DOMAIN u, u[j] = u[l]
        PROVE  j = l
    <3>1. After(j) = After(l)
        BY <1>1, <2>6, <2>7 DEF Distinct
    <3> QED
        BY <1>1, <2>1, <2>5, <3>1
  <2>8. Distinct(u)
      BY <2>7 DEF Distinct
  <2>9. \A j \in DOMAIN u : u[j] # k
      BY <1>1, <2>1, <2>6 DEF Distinct
  <2>10. /\ Len(items) <= Len(u)
         /\ \A j \in DOMAIN items : u[j] = items[j].key
      BY <1>1, <2>1, <2>2, <2>4
  <2> QED
      BY <2>4, <2>8, <2>9, <2>10 DEF u
<1> QED
    BY <1>2, <1>3

\* What stays in the list when a new key comes: the first nodes.
Staying == IF Len(items) >= Capacity THEN BackPopped(items) ELSE items

LEMMA StayingIs ==
    ASSUME LInv, NEW k \in Keys, NEW v \in Values, Insert(k, v)
    PROVE  /\ Staying \in Seq(Entries) /\ Len(Staying) \in Nat
           /\ Len(Staying) + 1 <= Capacity /\ Len(Staying) <= Len(items)
           /\ Len(Staying) = IF Len(items) < Capacity THEN Len(items) ELSE Len(items) - 1
           /\ \A j \in 1..Len(Staying) : Staying[j] = items[j]
           /\ items' = <<Entry(k, v)>> \o Staying
           /\ index' = Pointing(KeysOf(Staying) \cup {k}, items')
<1>1. /\ items \in Seq(Entries) /\ Len(items) \in Nat /\ Len(items) <= Capacity
      /\ DOMAIN items = 1..Len(items) /\ Capacity \in Nat \ {0}
      /\ Known = KeysOf(items) /\ NoRepeats(items)
    BY CapacityAssumption, IndexIs DEF LInv
<1>2. CASE Len(items) < Capacity
  <2>1. ~(Len(items) >= Capacity)
      BY <1>1, <1>2
  <2>2. Staying = items
      BY <2>1 DEF Staying
  <2>3. items' = <<Entry(k, v)>> \o items /\ index' = Pointing(Known \cup {k}, items')
      BY <2>1 DEF Insert
  <2> QED
      BY <1>1, <1>2, <2>2, <2>3
<1>3. CASE ~(Len(items) < Capacity)
  <2>1. Len(items) >= Capacity /\ Len(items) \in DOMAIN items
      BY <1>1, <1>3
  <2> DEFINE s == SubSeq(items, 1, Len(items) - 1)
  <2>2. Staying = s
      BY <2>1 DEF Staying, BackPopped, Front
  <2>3. /\ s \in Seq(Entries) /\ Len(s) = Len(items) - 1
        /\ \A j \in 1..Len(items) - 1 : s[j] = items[j]
      BY <1>1, <2>1, SubSeqProperties
  <2> HIDE DEF s
  <2>4. DOMAIN s = 1..Len(items) - 1
      BY <1>1, <2>3
  <2>5. KeysOf(s) = Known \ {items[Len(items)].key}
    <3>1. \A j \in DOMAIN s : j \in DOMAIN items /\ j # Len(items)
        BY <1>1, <2>4
    <3>2. \A j \in DOMAIN items : j # Len(items) => j \in DOMAIN s
        BY <1>1, <2>4
    <3>3. KeysOf(s) \subseteq Known \ {items[Len(items)].key}
        BY <1>1, <2>1, <2>3, <2>4, <3>1 DEF KeysOf, NoRepeats
    <3>4. Known \ {items[Len(items)].key} \subseteq KeysOf(s)
        BY <1>1, <2>3, <2>4, <3>2 DEF KeysOf
    <3> QED
        BY <3>3, <3>4
  <2>6. items' = <<Entry(k, v)>> \o Staying
      BY <2>1 DEF Insert, Staying
  <2>7. index' = Pointing(KeysOf(s) \cup {k}, items')
      BY <2>1, <2>5 DEF Insert, KnownAfterEviction
  <2> QED
      BY <1>1, <1>3, <2>1, <2>2, <2>3, <2>6, <2>7
<1> QED
    BY <1>2, <1>3

\* A put of a new key: the node comes first, and an evicted one has left both structures.
LEMMA InsertKeeps ==
    ASSUME LInv, NEW k \in Keys, NEW v \in Values, Insert(k, v)
    PROVE  /\ LInv'
           /\ KeysOf(items') = KeysOf(Staying) \cup {k}
           /\ \A i \in DOMAIN items' :
                 \/ items'[i] = Entry(k, v)
                 \/ \E j \in DOMAIN Staying : items'[i] = Staying[j]
<1> DEFINE s == Staying
           u == UsedWithout(k)
           e == Entry(k, v)
<1>1. /\ s \in Seq(Entries) /\ Len(s) \in Nat
      /\ Len(s) + 1 <= Capacity /\ Len(s) <= Len(items)
      /\ \A j \in 1..Len(s) : s[j] = items[j]
    BY StayingIs
<1>2. items' = <<e>> \o s /\ index' = Pointing(KeysOf(s) \cup {k}, items')
    BY StayingIs
<1>3. /\ u \in Seq(Keys) /\ Distinct(u) /\ Len(items) <= Len(u)
      /\ \A j \in DOMAIN items : u[j] = items[j].key
      /\ \A j \in DOMAIN u : u[j] # k
    BY UsedNew DEF Insert
<1>4. used' = <<k>> \o u /\ k \notin Known /\ answer' = answer
    BY DEF Insert, UsedFirst
<1>5. e \in Entries /\ e.key = k
    BY DEF Entry, Entries
<1>6. /\ items \in Seq(Entries) /\ Len(items) \in Nat /\ DOMAIN items = 1..Len(items)
      /\ Capacity \in Nat \ {0} /\ Known = KeysOf(items) /\ NoRepeats(items)
    BY CapacityAssumption, IndexIs DEF LInv
<1> HIDE DEF s, u, e
<1>7. /\ items' \in Seq(Entries) /\ Len(items') = Len(s) + 1 /\ items'[1] = e
      /\ \A j \in 1..Len(s) : items'[j + 1] = s[j]
    BY <1>1, <1>5, <1>2, HeadedIs
<1>8. /\ used' \in Seq(Keys) /\ Len(used') = Len(u) + 1 /\ used'[1] = k
      /\ \A j \in 1..Len(u) : used'[j + 1] = u[j]
    BY <1>3, <1>4, HeadedIs
<1>9. Len(s) <= Len(items) /\ Len(s) + 1 <= Capacity /\ Len(s) \in Nat
    BY <1>1, <1>6
<1>10. /\ Len(s) \in Nat /\ Len(u) \in Nat
      /\ DOMAIN s = 1..Len(s) /\ DOMAIN items' = 1..Len(s) + 1
      /\ DOMAIN u = 1..Len(u) /\ DOMAIN used' = 1..Len(u) + 1
    BY <1>1, <1>3, <1>7, <1>8
<1>11. ASSUME NEW j \in 1..Len(s)
       PROVE  j \in DOMAIN items /\ s[j].key = items[j].key /\ s[j].key # k
  <2>1. j \in DOMAIN items /\ s[j] = items[j]
      BY <1>1, <1>6
  <2> QED
      BY <1>4, <1>6, <2>1 DEF KeysOf
<1>12. \A j \in DOMAIN items' : j = 1 \/ (j - 1 \in 1..Len(s) /\ items'[j] = s[j - 1])
    BY <1>7, <1>10
<1>13. NoRepeats(items')
  <2>1. ASSUME NEW j \in DOMAIN items', NEW l \in DOMAIN items', items'[j].key = items'[l].key
        PROVE  j = l
    <3>1. CASE j = 1 \/ l = 1
        BY <1>5, <1>7, <1>11, <1>12, <2>1, <3>1
    <3>2. CASE j # 1 /\ l # 1
      <4>1. j - 1 \in DOMAIN items /\ l - 1 \in DOMAIN items
            /\ items[j - 1].key = items[l - 1].key
          BY <1>11, <1>12, <2>1, <3>2
      <4>2. j - 1 = l - 1
          BY <1>6, <4>1 DEF NoRepeats
      <4> QED
          BY <1>10, <4>2
    <3> QED
        BY <3>1, <3>2
  <2> QED
      BY <2>1 DEF NoRepeats
<1>14. KeysOf(items') = KeysOf(s) \cup {k}
  <2>1. KeysOf(items') \subseteq KeysOf(s) \cup {k}
      BY <1>5, <1>7, <1>10, <1>12 DEF KeysOf
  <2>2. ASSUME NEW j \in DOMAIN s
        PROVE  s[j].key \in KeysOf(items')
    <3>1. j + 1 \in DOMAIN items' /\ items'[j + 1] = s[j]
        BY <1>7, <1>10
    <3> QED
        BY <3>1 DEF KeysOf
  <2>3. 1 \in DOMAIN items' /\ items'[1].key = k
      BY <1>5, <1>7, <1>10
  <2>4. k \in KeysOf(items')
      BY <2>3 DEF KeysOf
  <2> QED
      BY <2>1, <2>2, <2>4 DEF KeysOf
<1>15. Distinct(used')
  <2>1. ASSUME NEW j \in DOMAIN used', NEW l \in DOMAIN used', used'[j] = used'[l]
        PROVE  j = l
    <3>1. \A i \in DOMAIN used' : i = 1 \/ (i - 1 \in DOMAIN u /\ used'[i] = u[i - 1])
        BY <1>8, <1>10
    <3>2. CASE j = 1 \/ l = 1
        BY <1>3, <1>8, <2>1, <3>1, <3>2
    <3>3. CASE j # 1 /\ l # 1
      <4>1. j - 1 \in DOMAIN u /\ used'[j] = u[j - 1] /\ l - 1 \in DOMAIN u /\ used'[l] = u[l - 1]
          BY <2>1, <3>1, <3>3
      <4>2. u[j - 1] = u[l - 1]
          BY <2>1, <4>1
      <4>3. j - 1 = l - 1
          BY <1>3, <4>1, <4>2 DEF Distinct
      <4> QED
          BY <1>10, <4>3
    <3> QED
        BY <3>2, <3>3
  <2> QED
      BY <2>1 DEF Distinct
<1>16. HoldsMostRecent'
  <2>1. ASSUME NEW j \in DOMAIN items'
        PROVE  items'[j].key = used'[j]
    <3>1. CASE j = 1
        BY <1>5, <1>7, <1>8, <3>1
    <3>2. CASE j # 1
      <4>1. j - 1 \in 1..Len(s) /\ items'[j] = s[j - 1]
          BY <1>12, <3>2
      <4>2. j - 1 \in DOMAIN items /\ items'[j].key = items[j - 1].key /\ j - 1 \in 1..Len(u)
          BY <1>3, <1>6, <1>10, <1>11, <1>9, <4>1
      <4>3. j \in Nat
          BY <1>10
      <4>4. (j - 1) + 1 = j
          BY <4>3
      <4>5. used'[(j - 1) + 1] = u[j - 1]
          BY <1>8, <4>2
      <4>6. items[j - 1].key = u[j - 1]
          BY <1>3, <4>2
      <4> QED
          BY <4>2, <4>4, <4>5, <4>6, Zenon
    <3> QED
        BY <3>1, <3>2
  <2> QED
    <3>1. Len(items') <= Len(used')
        BY <1>3, <1>6, <1>7, <1>8, <1>10, <1>9
    <3> QED
        BY <2>1, <3>1 DEF HoldsMostRecent
<1>17. Len(items') <= Capacity
    BY <1>7, <1>9
<1>18. ASSUME NEW i \in DOMAIN items'
       PROVE  items'[i] = e \/ \E j \in DOMAIN s : items'[i] = s[j]
    BY <1>7, <1>10, <1>12
<1> QED
    BY <1>4, <1>2, <1>7, <1>8, <1>13, <1>14, <1>15, <1>16, <1>17, <1>18 DEF LInv, s, e

\* A node with a new value keeps its key.
LEMMA ValueReplaced ==
    ASSUME items \in Seq(Entries), NEW i \in DOMAIN items, NEW v \in Values
    PROVE  /\ [items EXCEPT ![i].val = v] \in Seq(Entries)
           /\ Len([items EXCEPT ![i].val = v]) = Len(items)
           /\ \A j \in DOMAIN items : [items EXCEPT ![i].val = v][j].key = items[j].key
<1> DEFINE s == [items EXCEPT ![i].val = v]
           e == [items[i] EXCEPT !.val = v]
<1>1. items[i] \in Entries
    OBVIOUS
<1>2. e \in Entries /\ e.key = items[i].key
    BY <1>1 DEF Entries
<1>3. s = [items EXCEPT ![i] = e]
    OBVIOUS
<1> HIDE DEF e
<1>4. s \in Seq(Entries) /\ Len(s) = Len(items) /\ \A j \in DOMAIN items : s[j].key = items[j].key
  <2> HIDE DEF s
  <2> QED
      BY <1>2, <1>3, ExceptSeq
<1> QED
    BY <1>4

\* Every operation keeps the invariant.
LEMMA StepKeeps == ASSUME LInv, [LRUNext]_lruVars PROVE LInv'
<1>1. CASE UNCHANGED lruVars
    BY <1>1 DEF LInv, HoldsMostRecent, lruVars
<1>2. ASSUME NEW k \in Keys, Hit(k) PROVE LInv'
  <2>1. k \in Known /\ index[k] \in DOMAIN items /\ items \in Seq(Entries)
      BY <1>2, IndexIs DEF Hit, LInv
  <2>2. answer' \in Values \cup {NONE}
    <3>1. items[index[k]] \in Entries
        BY <2>1
    <3> QED
        BY <1>2, <3>1 DEF Hit, Entries
  <2> QED
      BY <1>2, <2>1, <2>2, TouchKeeps DEF Hit
<1>3. ASSUME NEW k \in Keys, Miss(k) PROVE LInv'
    BY <1>3 DEF Miss, LInv, HoldsMostRecent
<1>4. ASSUME NEW k \in Keys, NEW v \in Values, Update(k, v) PROVE LInv'
  <2> DEFINE s == [items EXCEPT ![index[k]].val = v]
  <2>1. k \in Known /\ index[k] \in DOMAIN items /\ items \in Seq(Entries)
      BY <1>4, IndexIs DEF Update, LInv
  <2>2. items' = MovedToFront(s, index[k])
      BY <1>4 DEF Update, NewValue
  <2>3. /\ s \in Seq(Entries) /\ Len(s) = Len(items)
        /\ \A i \in DOMAIN items : s[i].key = items[i].key
      BY <2>1, ValueReplaced
  <2>4. answer' \in Values \cup {NONE} /\ index' = Pointing(Known, items') /\ used' = UsedFirst(k)
      BY <1>4 DEF Update, LInv
  <2> HIDE DEF s
  <2> QED
      BY <2>1, <2>2, <2>3, <2>4, TouchKeeps
<1>5. ASSUME NEW k \in Keys, NEW v \in Values, Insert(k, v) PROVE LInv'
    BY <1>5, InsertKeeps
<1>6. ASSUME NEW k \in Keys, Erase(k) PROVE LInv'
    BY <1>6, EraseKeeps
<1>7. CASE Clear
  <2>1. items' = << >> /\ used' = << >> /\ answer' = answer
      BY <1>7 DEF Clear
  <2>2. KeysOf(items') = {} /\ NoRepeats(items') /\ Distinct(used')
      BY <2>1 DEF KeysOf, NoRepeats, Distinct
  <2>3. index' = Pointing(KeysOf(items'), items')
      BY <1>7, <2>2 DEF Clear
  <2>4. HoldsMostRecent' /\ Len(items') <= Capacity
      BY <2>1, CapacityAssumption DEF HoldsMostRecent
  <2>5. items' \in Seq(Entries) /\ used' \in Seq(Keys)
      BY <2>1
  <2> QED
      BY <2>1, <2>2, <2>3, <2>4, <2>5 DEF LInv
<1> QED
    BY <1>1, <1>2, <1>3, <1>4, <1>5, <1>6, <1>7 DEF LRUNext, Get, Put

\* An empty cache has it.
LEMMA InitHolds == LRUInit => LInv
<1> SUFFICES ASSUME LRUInit PROVE LInv
    OBVIOUS
<1>1. KeysOf(items) = {} /\ NoRepeats(items) /\ Distinct(used)
    BY DEF LRUInit, KeysOf, NoRepeats, Distinct
<1>2. index = Pointing(KeysOf(items), items)
    BY <1>1 DEF LRUInit
<1> QED
    BY <1>1, <1>2, CapacityAssumption DEF LRUInit, LInv, HoldsMostRecent

\* It holds throughout.
LEMMA LInvHolds == LRUSpec => []LInv
<1>1. LInv /\ [LRUNext]_lruVars => LInv'
    BY StepKeeps
<1> QED
    BY <1>1, InitHolds, PTL DEF LRUSpec

\* List and map of lru_cache.h stay one structure, and the list within its capacity,
\* whatever is got, put, evicted and removed.
THEOREM OneStructure == LRUSpec => []LRUOK
<1>1. ASSUME LInv PROVE LRUOK
  <2>1. IsFiniteSet(Known) /\ Cardinality(Known) = Len(items)
      BY <1>1, IndexIs, KeysCounted DEF LInv
  <2> QED
      BY <1>1, <2>1, IndexIs DEF LInv, LRUOK, KeysOf, Entries
<1> QED
    BY <1>1, LInvHolds, PTL

\* The list holds the keys used last, in that order, so that an eviction takes the
\* one least recently used.
THEOREM RecentKept == LRUSpec => []HoldsMostRecent
<1>1. LInv => HoldsMostRecent
    BY DEF LInv
<1> QED
    BY <1>1, LInvHolds, PTL

----------------------------------------------------------------------------
(* The cache that LSMEngine counts on.                                     *)

\* What the list holds for a key.
ContentFits ==
    /\ Content \in [Keys -> Values \cup {NONE}]
    /\ \A i \in DOMAIN items : Content[items[i].key] = items[i].val
    /\ \A k \in Keys : k \in KeysOf(items) <=> Content[k] # NONE

LEMMA ContentIs == LInv => ContentFits
<1> SUFFICES ASSUME LInv PROVE ContentFits
    OBVIOUS
<1>1. /\ items \in Seq(Entries) /\ Known = KeysOf(items)
      /\ \A i \in DOMAIN items : items[i].key \in Known /\ index[items[i].key] = i
      /\ \A k \in Known : index[k] \in DOMAIN items /\ items[index[k]].key = k
    BY IndexIs DEF LInv
<1>2. ASSUME NEW i \in DOMAIN items
      PROVE  items[i].key \in Keys /\ items[i].val \in Values
  <2>1. items[i] \in Entries
      BY <1>1
  <2> QED
      BY <2>1 DEF Entries
<1> QED
    BY <1>1, <1>2, NoneAssumption DEF Content, ContentFits

\* As many keys are held as there are nodes.
LEMMA HeldCounted == ASSUME LInv PROVE Cache!Cardinality(Cache!HeldKeys) = Len(items)
<1>1. Cache!HeldKeys = KeysOf(items)
  <2>1. ASSUME NEW i \in DOMAIN items PROVE items[i].key \in Keys
    <3>1. items[i] \in Entries
        BY DEF LInv
    <3> QED
        BY <3>1 DEF Entries
  <2>2. KeysOf(items) \subseteq Keys
      BY <2>1 DEF KeysOf
  <2> QED
      BY <2>2, ContentIs DEF Cache!HeldKeys, ContentFits
<1>2. Cache!Cardinality(Cache!HeldKeys) = Cardinality(Cache!HeldKeys)
    BY DEF Cardinality, Cache!Cardinality
<1> QED
    BY <1>1, <1>2, KeysCounted DEF LInv

\* A content is known by its keys and what the nodes say of them.
LEMMA SameContent ==
    ASSUME ContentFits', NEW c \in [Keys -> Values \cup {NONE}],
           \A i \in DOMAIN items' : c[items'[i].key] = items'[i].val,
           \A k \in Keys : c[k] # NONE => k \in KeysOf(items')
    PROVE  Content' = c
<1>1. Content' \in [Keys -> Values \cup {NONE}]
    BY DEF ContentFits
<1>2. ASSUME NEW k \in Keys PROVE Content'[k] = c[k]
  <2>1. CASE k \in KeysOf(items')
    <3>1. PICK i \in DOMAIN items' : items'[i].key = k
        BY <2>1 DEF KeysOf
    <3> QED
        BY <3>1 DEF ContentFits
  <2>2. CASE k \notin KeysOf(items')
      BY <2>2 DEF ContentFits
  <2> QED
      BY <2>1, <2>2
<1> QED
    BY <1>1, <1>2

\* ContentIs of the next state.
LEMMA FitsNext == LInv' => ContentFits'
    BY ContentIs, PTL

\* A touched node changes nothing but the value of its key.
LEMMA TouchContent ==
    ASSUME LInv, LInv', ContentFits', NEW k \in Keys, k \in Known, NEW v \in Values, NEW s,
           s = [items EXCEPT ![index[k]].val = v],
           KeysOf(items') = KeysOf(items),
           \A i \in DOMAIN items' : \E j \in DOMAIN items : items'[i] = s[j]
    PROVE  Content' = [Content EXCEPT ![k] = v]
<1> DEFINE c == [Content EXCEPT ![k] = v]
<1>1. /\ ContentFits /\ items \in Seq(Entries)
      /\ \A i \in DOMAIN items : index[items[i].key] = i
      /\ index[k] \in DOMAIN items /\ items[index[k]].key = k
    BY ContentIs, IndexIs DEF LInv
<1>2. c \in [Keys -> Values \cup {NONE}] /\ \A j \in Keys : c[j] = IF j = k THEN v ELSE Content[j]
    BY <1>1 DEF ContentFits
<1> HIDE DEF c
<1>3. ASSUME NEW i \in DOMAIN items'
      PROVE  c[items'[i].key] = items'[i].val
  <2>1. PICK j \in DOMAIN items : items'[i] = s[j]
      OBVIOUS
  <2>2. items[j] \in Entries /\ items[j].key \in Keys
    <3>1. items[j] \in Entries
        BY <1>1
    <3> QED
        BY <3>1 DEF Entries
  <2>3. CASE j = index[k]
    <3>1. s[j].key = k /\ s[j].val = v
        BY <1>1, <2>2, <2>3 DEF Entries
    <3> QED
        BY <1>2, <2>1, <3>1
  <2>4. CASE j # index[k]
    <3>1. s[j] = items[j] /\ items[j].key # k
        BY <1>1, <2>4
    <3> QED
        BY <1>1, <1>2, <2>1, <2>2, <3>1 DEF ContentFits
  <2> QED
      BY <2>3, <2>4
<1>4. ASSUME NEW j \in Keys, c[j] # NONE
      PROVE  j \in KeysOf(items')
  <2>1. k \in KeysOf(items)
      BY <1>1 DEF KeysOf
  <2> QED
      BY <1>1, <1>2, <1>4, <2>1 DEF ContentFits
<1> QED
    BY <1>2, <1>3, <1>4, SameContent DEF c

\* get() of a known key is the promise's get.
LEMMA HitRefines ==
    ASSUME LInv, LInv', ContentFits', NEW k \in Keys, Hit(k)
    PROVE  Cache!BCGet(k)
<1> DEFINE i == index[k]
           v == items[i].val
<1>1. /\ k \in Known /\ i \in DOMAIN items /\ items[i].key = k /\ items \in Seq(Entries)
      /\ ContentFits /\ Known = KeysOf(items)
    BY IndexIs, ContentIs DEF Hit, LInv
<1>2. items[i] \in Entries /\ v \in Values /\ Content[k] = v
  <2>1. items[i] \in Entries
      BY <1>1
  <2> QED
      BY <1>1, <2>1 DEF Entries, ContentFits
<1>3. items = [items EXCEPT ![i].val = v]
    BY <1>1, <1>2 DEF Entries
<1>4. items' = MovedToFront(items, i) /\ index' = Pointing(Known, items')
      /\ answer' = v /\ used' = UsedFirst(k) /\ latest' = latest
    BY DEF Hit
<1>5. /\ KeysOf(items') = KeysOf(items)
      /\ \A j \in DOMAIN items' : \E l \in DOMAIN items : items'[j] = items[l]
    BY <1>1, <1>2, <1>4, TouchKeeps
<1> HIDE DEF i, v
<1>6. Content' = [Content EXCEPT ![k] = v]
    BY <1>1, <1>2, <1>3, <1>5, TouchContent DEF i
<1>7. Content' = Content
    BY <1>1, <1>2, <1>6 DEF ContentFits
<1> QED
    BY <1>2, <1>4, <1>7 DEF Cache!BCGet

\* put() of a known key is the promise's put.
LEMMA UpdateRefines ==
    ASSUME LInv, LInv', ContentFits', NEW k \in Keys, NEW v \in Values, Update(k, v)
    PROVE  Cache!BCPut(k, v)
<1> DEFINE i == index[k]
           s == [items EXCEPT ![i].val = v]
<1>1. /\ k \in Known /\ i \in DOMAIN items /\ items[i].key = k /\ items \in Seq(Entries)
      /\ ContentFits /\ Known = KeysOf(items)
    BY IndexIs, ContentIs DEF Update, LInv
<1>2. /\ s \in Seq(Entries) /\ Len(s) = Len(items)
      /\ \A j \in DOMAIN items : s[j].key = items[j].key
    BY <1>1, ValueReplaced
<1>3. items' = MovedToFront(s, i) /\ index' = Pointing(Known, items')
      /\ answer' = answer /\ used' = UsedFirst(k) /\ latest' = [latest EXCEPT ![k] = v]
    BY DEF Update, NewValue
<1>4. answer' \in Values \cup {NONE}
    BY <1>3 DEF LInv
<1>8. s = [items EXCEPT ![index[k]].val = v]
    OBVIOUS
<1> HIDE DEF s
<1>5. /\ KeysOf(items') = KeysOf(items)
      /\ \A j \in DOMAIN items' : \E l \in DOMAIN items : items'[j] = s[l]
    BY <1>1, <1>2, <1>3, <1>4, TouchKeeps
<1>6. Content' = [Content EXCEPT ![k] = v]
  <2> HIDE DEF i
  <2> QED
      BY <1>1, <1>5, <1>8, TouchContent
<1>7. Content[k] # NONE
    BY <1>1 DEF ContentFits
<1> QED
    BY <1>3, <1>6, <1>7 DEF Cache!BCPut

\* remove() of a known key is the promise's removal.
LEMMA EraseRefines ==
    ASSUME LInv, LInv', ContentFits', NEW k \in Keys, Erase(k)
    PROVE  Cache!BCRemove(k)
<1> DEFINE c == [Content EXCEPT ![k] = NONE]
<1>1. /\ ContentFits
      /\ KeysOf(items') = KeysOf(items) \ {k}
      /\ \A i \in DOMAIN items' : \E j \in DOMAIN items : items'[i] = items[j]
      /\ items' \in Seq(Entries)
    BY ContentIs, EraseKeeps DEF LInv
<1>2. c \in [Keys -> Values \cup {NONE}] /\ \A j \in Keys : c[j] = IF j = k THEN NONE ELSE Content[j]
    BY <1>1 DEF ContentFits
<1> HIDE DEF c
<1>3. ASSUME NEW i \in DOMAIN items'
      PROVE  c[items'[i].key] = items'[i].val
  <2>1. items'[i].key \in KeysOf(items')
      BY DEF KeysOf
  <2>2. items'[i] \in Entries
      BY <1>1
  <2>3. items'[i].key \in Keys /\ items'[i].key # k
      BY <1>1, <2>1, <2>2 DEF Entries
  <2> QED
      BY <1>1, <1>2, <2>3 DEF ContentFits
<1>4. \A j \in Keys : c[j] # NONE => j \in KeysOf(items')
    BY <1>1, <1>2 DEF ContentFits
<1>5. Content' = c
    BY <1>2, <1>3, <1>4, SameContent
<1> QED
    BY <1>5 DEF c, Erase, Cache!BCRemove

\* put() of a new key is the promise's put: at most one other key is gone, and only
\* from a full cache.
LEMMA InsertRefines ==
    ASSUME LInv, LInv', ContentFits', NEW k \in Keys, NEW v \in Values, Insert(k, v)
    PROVE  Cache!BCPut(k, v)
<1>1. /\ ContentFits /\ items \in Seq(Entries) /\ NoRepeats(items) /\ Known = KeysOf(items)
      /\ Len(items) \in Nat /\ DOMAIN items = 1..Len(items)
      /\ Capacity \in Nat \ {0} /\ Len(items) <= Capacity
    BY ContentIs, IndexIs, CapacityAssumption DEF LInv
<1>2. /\ Staying \in Seq(Entries) /\ Len(Staying) \in Nat /\ Len(Staying) <= Len(items)
      /\ Len(Staying) = (IF Len(items) < Capacity THEN Len(items) ELSE Len(items) - 1)
      /\ \A j \in 1..Len(Staying) : Staying[j] = items[j]
    BY StayingIs
<1>3. /\ KeysOf(items') = KeysOf(Staying) \cup {k}
      /\ \A i \in DOMAIN items' : \/ items'[i] = Entry(k, v)
                                 \/ \E j \in DOMAIN Staying : items'[i] = Staying[j]
    BY InsertKeeps
<1>4. k \notin KeysOf(items) /\ Content[k] = NONE
    BY <1>1 DEF Insert, ContentFits
<1>5. Entry(k, v).key = k /\ Entry(k, v).val = v
    BY DEF Entry
<1>6. \A j \in DOMAIN Staying : j \in DOMAIN items /\ Staying[j] = items[j]
  <2> TAKE j \in DOMAIN Staying
  <2>1. DOMAIN Staying = 1..Len(Staying)
      BY <1>2
  <2>2. j \in 1..Len(items)
    <3>1. Len(Staying) \in Nat /\ Len(Staying) <= Len(items) /\ Len(items) \in Nat
        BY <1>1, <1>2
    <3> QED
        BY <2>1, <3>1
  <2> QED
      BY <1>1, <1>2, <2>1, <2>2
<1>7. \A j \in DOMAIN items : items[j].key \in Keys /\ items[j].key # k
  <2> TAKE j \in DOMAIN items
  <2>1. items[j] \in Entries
      BY <1>1
  <2> QED
      BY <1>4, <2>1 DEF Entries, KeysOf
<1>8. answer' = answer /\ latest' = [latest EXCEPT ![k] = v]
    BY DEF Insert
<1>9. CASE Len(items) < Capacity
  <2> DEFINE c == [Content EXCEPT ![k] = v]
  <2>1. /\ c \in [Keys -> Values \cup {NONE}]
        /\ \A j \in Keys : c[j] = IF j = k THEN v ELSE Content[j]
      BY <1>1 DEF ContentFits
  <2> HIDE DEF c
  <2>2. DOMAIN Staying = DOMAIN items
      BY <1>1, <1>2, <1>9
  <2>3. KeysOf(Staying) = KeysOf(items)
      BY <1>6, <2>2 DEF KeysOf
  <2>4. \A i \in DOMAIN items' : c[items'[i].key] = items'[i].val
      BY <1>1, <1>3, <1>5, <1>6, <1>7, <2>1 DEF ContentFits
  <2>5. \A j \in Keys : c[j] # NONE => j \in KeysOf(items')
      BY <1>1, <1>3, <2>1, <2>3 DEF ContentFits
  <2>6. Content' = c
      BY <2>1, <2>4, <2>5, SameContent
  <2>7. Cache!Cardinality(Cache!HeldKeys) < Capacity
      BY <1>9, HeldCounted
  <2> QED
      BY <1>8, <2>6, <2>7 DEF c, Cache!BCPut
<1>10. CASE ~(Len(items) < Capacity)
  <2> DEFINE last == Len(items)
             victim == items[last].key
             c == [Content EXCEPT ![k] = v, ![victim] = NONE]
  <2>1. last \in DOMAIN items /\ victim \in Keys /\ victim # k
      BY <1>1, <1>7, <1>10
  <2>2. /\ c \in [Keys -> Values \cup {NONE}]
        /\ \A j \in Keys : c[j] = IF j = k THEN v ELSE IF j = victim THEN NONE ELSE Content[j]
      BY <1>1, <2>1 DEF ContentFits
  <2> HIDE DEF c
  <2>3. DOMAIN Staying = 1..last - 1
      BY <1>1, <1>2, <1>10
  <2>4. \A j \in DOMAIN items : j # last => j \in DOMAIN Staying
      BY <1>1, <2>3
  <2>5. \A j \in DOMAIN Staying : items[j].key # victim
    <3> TAKE j \in DOMAIN Staying
    <3>1. j \in DOMAIN items /\ j # last
        BY <1>1, <2>1, <2>3
    <3> QED
        BY <1>1, <2>1, <3>1 DEF NoRepeats
  <2>6. \A i \in DOMAIN items' : c[items'[i].key] = items'[i].val
      BY <1>1, <1>3, <1>5, <1>6, <1>7, <2>2, <2>5 DEF ContentFits
  <2>7. ASSUME NEW j \in Keys, c[j] # NONE
        PROVE  j \in KeysOf(items')
    <3>1. CASE j = k
        BY <1>3, <3>1
    <3>2. CASE j # k
      <4>1. j # victim /\ j \in KeysOf(items)
          BY <1>1, <2>2, <2>7, <3>2 DEF ContentFits
      <4>2. j \in KeysOf(Staying)
          BY <1>6, <2>4, <4>1 DEF KeysOf
      <4> QED
          BY <1>3, <4>2
    <3> QED
        BY <3>1, <3>2
  <2>8. Content' = c
      BY <2>2, <2>6, <2>7, SameContent
  <2>9. ~(Cache!Cardinality(Cache!HeldKeys) < Capacity)
      BY <1>10, HeldCounted
  <2>10. victim \in Cache!HeldKeys
      BY <1>1, <2>1 DEF Cache!HeldKeys, ContentFits, KeysOf
  <2> QED
      BY <1>4, <1>8, <2>8, <2>9, <2>10 DEF c, Cache!BCPut
<1> QED
    BY <1>9, <1>10

\* Every operation is one of the promise, or changes nothing it speaks of.
LEMMA StepRefines ==
    ASSUME LInv, LInv', [LRUNext]_lruVars
    PROVE  [Cache!BCNext]_(Cache!bcVars)
<1>1. ContentFits /\ ContentFits'
    BY ContentIs, FitsNext
<1>2. CASE UNCHANGED lruVars
    BY <1>2 DEF lruVars, Cache!bcVars, Content, Known
<1>3. ASSUME NEW k \in Keys, Get(k) PROVE Cache!BCGet(k)
  <2>1. CASE Hit(k)
      BY <1>1, <2>1, HitRefines
  <2>2. CASE Miss(k)
    <3>1. Content[k] = NONE /\ Content' = Content
        BY <2>2 DEF Miss, Content, Known
    <3> QED
        BY <2>2, <3>1 DEF Miss, Cache!BCGet
  <2> QED
      BY <1>3, <2>1, <2>2 DEF Get
<1>4. ASSUME NEW k \in Keys, NEW v \in Values, Put(k, v) PROVE Cache!BCPut(k, v)
    BY <1>1, <1>4, UpdateRefines, InsertRefines DEF Put
<1>5. ASSUME NEW k \in Keys, Erase(k) PROVE Cache!BCRemove(k)
    BY <1>1, <1>5, EraseRefines
<1>6. CASE Clear
  <2>1. KeysOf(items') = {}
      BY <1>6 DEF Clear, KeysOf
  <2>2. Content' = Cache!Nothing
      BY <1>1, <2>1 DEF ContentFits, Cache!Nothing
  <2>3. Cache!BCClear
      BY <1>6, <2>2 DEF Clear, Cache!BCClear, Cache!Nothing
  <2> QED
      BY <2>3 DEF Cache!BCNext
<1> QED
    BY <1>2, <1>3, <1>4, <1>5, <1>6 DEF LRUNext, Cache!BCNext

\* LRUCache is the bounded cache that LSMEngine counts on: get() answers with the
\* value of the last put or not at all, and a put drops at most one other key.
THEOREM CacheRefinement == LRUSpec => ImplementsBoundedCache
<1>1. LRUInit => Cache!BCInit
    BY DEF LRUInit, Cache!BCInit, Cache!Nothing, Content, Known, Pointing
<1>2. LInv /\ LInv' /\ [LRUNext]_lruVars => [Cache!BCNext]_(Cache!bcVars)
    BY StepRefines
<1> QED
    BY <1>1, <1>2, LInvHolds, PTL DEF LRUSpec, ImplementsBoundedCache, Cache!BCSpec
=============================================================================
