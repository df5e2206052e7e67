----------------------------- MODULE Recursion -----------------------------
(***************************************************************************)
(* Induction on the natural numbers and functions defined by recursion, as *)
(* the loops of the code are: what the proofs about those loops rest on.   *)
(* Sets and functions take the place of the predicates and operators of    *)
(* the library's theorems, which the provers cannot instantiate.           *)
(***************************************************************************)
EXTENDS Integers, FiniteSetTheorems, SequenceTheorems, WellFoundedInduction, TLAPS

\* A set of natural numbers has a least one.
LEMMA LeastExists ==
    ASSUME NEW S, S \subseteq Nat, S # {}
    PROVE  \E x \in S : \A y \in S : x <= y
<1> DEFINE Less == {ss \in Nat \X Nat : ss[1] < ss[2]}
<1>1. IsWellFoundedOn(Less, Nat)
    BY NatLessThanWellFounded DEF OpToRel
<1>2. \E x \in S : \A y \in S : ~(<<y, x>> \in Less)
  <2> HIDE DEF Less
  <2> QED
      BY <1>1, WFMin
<1>3. \A x, y \in Nat : ~(<<y, x>> \in Less) => x <= y
    OBVIOUS
<1> HIDE DEF Less
<1> QED
    BY <1>2, <1>3

\* What holds of 0, and of n + 1 if of n, holds up to any bound.
LEMMA UpTo ==
    ASSUME NEW N \in Nat, NEW S, 0 \in S, \A n \in 0..N - 1 : n \in S => n + 1 \in S
    PROVE  0..N \subseteq S
<1> DEFINE Out == 0..N \ S
<1>1. CASE Out = {}
    BY <1>1
<1>2. CASE Out # {}
  <2>1. Out \subseteq Nat
      OBVIOUS
  <2>2. PICK x \in Out : \A y \in Out : x <= y
    <3> HIDE DEF Out
    <3> QED
        BY <1>2, <2>1, LeastExists
  <2>3. x \in 1..N /\ x \notin S
      BY <2>2
  <2>4. x - 1 \in S /\ x - 1 \in 0..N - 1
      BY <2>2, <2>3
  <2> QED
      BY <2>3, <2>4
<1> QED
    BY <1>1, <1>2

\* The values g that a loop of N rounds takes, from base on, if a round n makes
\* F[<<x, n>>] of x.
IsLoop(g, N, base, F) == g[0] = base /\ \A n \in 1..N : g[n] = F[<<g[n - 1], n>>]

\* There are such values.
LEMMA LoopExists ==
    ASSUME NEW N \in Nat, NEW T, NEW base \in T, NEW F \in [T \X (1..N) -> T]
    PROVE  \E g \in [0..N -> T] : IsLoop(g, N, base, F)
<1> DEFINE S == {m \in 0..N : \E g \in [0..m -> T] : IsLoop(g, m, base, F)}
<1>1. 0 \in S
  <2> DEFINE h == [n \in 0..0 |-> base]
  <2>1. h \in [0..0 -> T] /\ IsLoop(h, 0, base, F)
      BY DEF IsLoop
  <2> HIDE DEF h
  <2> QED
      BY <2>1
<1>2. ASSUME NEW m \in 0..N - 1, m \in S
      PROVE  m + 1 \in S
  <2>1. PICK g \in [0..m -> T] : IsLoop(g, m, base, F)
      BY <1>2
  <2> DEFINE h == [n \in 0..m + 1 |-> IF n = m + 1 THEN F[<<g[m], m + 1>>] ELSE g[n]]
  <2>2. \A n \in 0..m : h[n] = g[n]
      OBVIOUS
  <2>3. h[m + 1] = F[<<g[m], m + 1>>] /\ h[m + 1] \in T
      OBVIOUS
  <2>4. h \in [0..m + 1 -> T]
      OBVIOUS
  <2> HIDE DEF h
  <2>5. IsLoop(h, m + 1, base, F)
    <3>1. h[0] = base
        BY <2>1, <2>2 DEF IsLoop
    <3>2. ASSUME NEW n \in 1..m + 1 PROVE h[n] = F[<<h[n - 1], n>>]
      <4>1. CASE n = m + 1
          BY <2>2, <2>3, <4>1
      <4>2. CASE n # m + 1
          BY <2>1, <2>2, <4>2 DEF IsLoop
      <4> QED
          BY <4>1, <4>2
    <3> QED
        BY <3>1, <3>2 DEF IsLoop
  <2> QED
      BY <2>4, <2>5
<1>3. 0..N \subseteq S
  <2> HIDE DEF S
  <2> QED
      BY <1>1, <1>2, UpTo
<1>4. N \in S
    BY <1>3
<1> QED
    BY <1>4

\* And one only.
LEMMA LoopUnique ==
    ASSUME NEW N \in Nat, NEW f, NEW g, DOMAIN f = 0..N, DOMAIN g = 0..N,
           f = [n \in 0..N |-> f[n]], g = [n \in 0..N |-> g[n]],
           f[0] = g[0], \A n \in 1..N : f[n - 1] = g[n - 1] => f[n] = g[n]
    PROVE  f = g
<1> DEFINE S == {n \in 0..N : f[n] = g[n]}
<1>1. 0 \in S /\ \A n \in 0..N - 1 : n \in S => n + 1 \in S
  <2>1. ASSUME NEW n \in 0..N - 1, f[n] = g[n] PROVE n + 1 \in 0..N /\ f[n + 1] = g[n + 1]
    <3>1. n + 1 \in 1..N /\ (n + 1) - 1 = n
        OBVIOUS
    <3> QED
        BY <2>1, <3>1
  <2>2. 0 \in S
      OBVIOUS
  <2> QED
      BY <2>1, <2>2
<1>2. 0..N \subseteq S
  <2> HIDE DEF S
  <2> QED
      BY <1>1, UpTo
<1> QED
    BY <1>2

\* Nor do two loops part that do the same in each round.
LEMMA LoopsAgree ==
    ASSUME NEW N \in Nat, NEW f, NEW g,
           f[0] = g[0], \A n \in 1..N : f[n - 1] = g[n - 1] => f[n] = g[n]
    PROVE  f[N] = g[N]
<1> DEFINE S == {n \in 0..N : f[n] = g[n]}
<1>1. 0 \in S
    OBVIOUS
<1>2. ASSUME NEW n \in 0..N - 1, n \in S PROVE n + 1 \in S
  <2>1. n + 1 \in 1..N /\ (n + 1) - 1 = n
      OBVIOUS
  <2> QED
      BY <1>2, <2>1
<1>3. 0..N \subseteq S
  <2> HIDE DEF S
  <2> QED
      BY <1>1, <1>2, UpTo
<1> QED
    BY <1>3

\* What holds of the empty sequence, and of a longer one if of what precedes its
\* last element, holds of all.
LEMMA SeqInduct ==
    ASSUME NEW A, NEW P, << >> \in P, \A s \in Seq(A) : \A a \in A : s \in P => Append(s, a) \in P
    PROVE  \A s \in Seq(A) : s \in P
<1> SUFFICES ASSUME NEW s \in Seq(A) PROVE s \in P
    OBVIOUS
<1> DEFINE S == {n \in 0..Len(s) : SubSeq(s, 1, n) \in P}
<1>1. Len(s) \in Nat /\ \A i \in 1..Len(s) : s[i] \in A
    OBVIOUS
<1>2. 0 \in S
  <2>1. SubSeq(s, 1, 0) = << >>
      BY SubSeqEmpty
  <2>2. SubSeq(s, 1, 0) \in P
      BY <2>1, Zenon
  <2>3. 0 \in 0..Len(s)
      BY <1>1
  <2> QED
      BY <2>2, <2>3, Zenon
<1>3. ASSUME NEW n \in 0..Len(s) - 1, n \in S PROVE n + 1 \in S
  <2>1. SubSeq(s, 1, n) \in Seq(A) /\ s[n + 1] \in A /\ n + 1 \in 1..Len(s)
      BY <1>1, SubSeqProperties
  <2>2. SubSeq(s, 1, n + 1) = Append(SubSeq(s, 1, n), s[n + 1])
    <3>1. 1 \in 1..Len(s) /\ n + 1 \in 1..Len(s) /\ (n + 1) - 1 = n
        BY <1>1
    <3>2. SubSeq(s, 1, n + 1) = SubSeq(s, 1, (n + 1) - 1) \o <<s[n + 1]>>
        BY <3>1, SubSeqRecursiveSecond
    <3> QED
        BY <2>1, <3>1, <3>2, AppendIsConcat
  <2>3. SubSeq(s, 1, n + 1) \in P
      BY <1>3, <2>1, <2>2
  <2> QED
      BY <1>1, <2>1, <2>3
<1>4. 0..Len(s) \subseteq S
  <2> HIDE DEF S
  <2> QED
      BY <1>1, <1>2, <1>3, UpTo
<1>5. SubSeq(s, 1, Len(s)) = s
    BY SubSeqFull
<1>6. Len(s) \in 0..Len(s)
    BY <1>1
<1>7. SubSeq(s, 1, Len(s)) \in P
    BY <1>4, <1>6, Zenon
<1> QED
    BY <1>5, <1>7, Zenon

----------------------------------------------------------------------------
(* Finite sets.                                                            *)

\* What holds of a set if it holds of each set with one element less, holds of
\* every subset of a finite set.
LEMMA EverySubset ==
    ASSUME NEW S, IsFiniteSet(S), NEW P,
           \A s \in SUBSET S : (\A x \in s : s \ {x} \in P) => s \in P
    PROVE  SUBSET S \subseteq P
<1> DEFINE N == Cardinality(S)
           A == {n \in 0..N : \A s \in SUBSET S : Cardinality(s) <= n => s \in P}
<1>1. N \in Nat
    BY FS_CardinalityType
<1>2. \A s \in SUBSET S : IsFiniteSet(s) /\ Cardinality(s) \in Nat /\ Cardinality(s) <= N
    BY FS_Subset, FS_CardinalityType
<1>3. 0 \in A
  <2>1. \A s \in SUBSET S : Cardinality(s) <= 0 => s = {}
      BY <1>2, FS_EmptySet
  <2>2. {} \in P
      OBVIOUS
  <2> QED
      BY <1>1, <2>1, <2>2
<1>4. ASSUME NEW n \in 0..N - 1, n \in A PROVE n + 1 \in A
  <2>1. ASSUME NEW s \in SUBSET S, Cardinality(s) <= n + 1 PROVE s \in P
    <3>1. ASSUME NEW x \in s PROVE s \ {x} \in P
      <4>1. Cardinality(s \ {x}) = Cardinality(s) - 1
          BY <1>2, FS_RemoveElement
      <4>2. Cardinality(s \ {x}) <= n
          BY <1>2, <2>1, <4>1
      <4> QED
          BY <1>4, <4>2
    <3> QED
        BY <3>1
  <2> QED
      BY <1>1, <2>1
<1>5. 0..N \subseteq A
  <2> HIDE DEF A, N
  <2> QED
      BY <1>1, <1>3, <1>4, UpTo
<1>6. N \in A
    BY <1>1, <1>5
<1> QED
    BY <1>2, <1>6

\* h gives each subset of S the sum of the weights w of its elements, one chosen
\* after the other: the recursion behind MapThenSumSet.
IsSum(h, S, w) ==
    \A s \in SUBSET S :
        IF s = {} THEN h[s] = 0
        ELSE h[s] = w[CHOOSE x \in s : TRUE] + h[s \ {CHOOSE x \in s : TRUE}]

\* The sums of the subsets are numbers.
LEMMA SumIsNat ==
    ASSUME NEW S, IsFiniteSet(S), NEW w \in [S -> Nat], NEW h, IsSum(h, S, w)
    PROVE  \A s \in SUBSET S : h[s] \in Nat
<1> DEFINE P == {s \in SUBSET S : h[s] \in Nat}
<1>1. ASSUME NEW s \in SUBSET S, \A x \in s : s \ {x} \in P PROVE s \in P
  <2>1. CASE s = {}
      BY <2>1 DEF IsSum
  <2>2. CASE s # {}
    <3>1. PICK c : c = CHOOSE x \in s : TRUE
        OBVIOUS
    <3>2. c \in s /\ h[s] = w[c] + h[s \ {c}]
        BY <2>2, <3>1 DEF IsSum
    <3>3. h[s \ {c}] \in Nat /\ w[c] \in Nat
        BY <1>1, <3>2
    <3> QED
        BY <3>2, <3>3
  <2> QED
      BY <2>1, <2>2
<1>2. SUBSET S \subseteq P
  <2> HIDE DEF P
  <2> QED
      BY <1>1, EverySubset
<1> QED
    BY <1>2

\* The order in which the elements are chosen does not matter.
LEMMA SumAny ==
    ASSUME NEW S, IsFiniteSet(S), NEW w \in [S -> Nat], NEW h, IsSum(h, S, w),
           NEW x \in S
    PROVE  h[S] = w[x] + h[S \ {x}]
<1> DEFINE P == {t \in SUBSET S : \A y \in t : h[t] = w[y] + h[t \ {y}]}
<1>1. ASSUME NEW t \in SUBSET S, \A y \in t : t \ {y} \in P PROVE t \in P
  <2> SUFFICES ASSUME NEW y \in t PROVE h[t] = w[y] + h[t \ {y}]
      OBVIOUS
  <2>1. PICK c : c = CHOOSE z \in t : TRUE
      OBVIOUS
  <2>2. c \in t /\ h[t] = w[c] + h[t \ {c}]
      BY <2>1 DEF IsSum
  <2>3. CASE y = c
      BY <2>2, <2>3
  <2>4. CASE y # c
    <3>1. t \ {c} \in P /\ y \in t \ {c}
        BY <1>1, <2>2, <2>4
    <3>2. t \ {y} \in P /\ c \in t \ {y}
        BY <1>1, <2>2, <2>4
    <3>3. h[t \ {c}] = w[y] + h[(t \ {c}) \ {y}]
        BY <3>1
    <3>4. h[t \ {y}] = w[c] + h[(t \ {y}) \ {c}]
        BY <3>2
    <3>5. (t \ {c}) \ {y} = (t \ {y}) \ {c}
        OBVIOUS
    <3>6. PICK r : r = h[(t \ {c}) \ {y}]
        OBVIOUS
    <3>7. w[c] \in Nat /\ w[y] \in Nat /\ r \in Nat
      <4>1. (t \ {c}) \ {y} \in SUBSET S
          OBVIOUS
      <4>2. r \in Nat
          BY <3>6, <4>1, SumIsNat
      <4> QED
          BY <2>2, <4>2
    <3>8. h[t] = w[c] + (w[y] + r) /\ h[t \ {y}] = w[c] + r
        BY <2>2, <3>3, <3>4, <3>5, <3>6
    <3> QED
        BY <3>7, <3>8
  <2> QED
      BY <2>3, <2>4
<1>2. SUBSET S \subseteq P
  <2> HIDE DEF P
  <2> QED
      BY <1>1, EverySubset
<1>3. S \in P
    BY <1>2
<1> QED
    BY <1>3

\* Sums are equal where the weights are.
LEMMA SumAgrees ==
    ASSUME NEW S, IsFiniteSet(S), NEW v, NEW f, IsSum(f, S, v),
           NEW T, NEW w, NEW g, IsSum(g, T, w), S \subseteq T, \A x \in S : v[x] = w[x]
    PROVE  f[S] = g[S]
<1> DEFINE P == {s \in SUBSET S : f[s] = g[s]}
<1>1. ASSUME NEW s \in SUBSET S, \A x \in s : s \ {x} \in P PROVE s \in P
  <2>1. CASE s = {}
      BY <2>1 DEF IsSum
  <2>2. CASE s # {}
    <3>1. PICK c : c = CHOOSE x \in s : TRUE
        OBVIOUS
    <3>2. c \in s /\ f[s] = v[c] + f[s \ {c}] /\ g[s] = w[c] + g[s \ {c}]
        BY <2>2, <3>1 DEF IsSum
    <3>3. f[s \ {c}] = g[s \ {c}] /\ v[c] = w[c]
        BY <1>1, <3>2
    <3> QED
        BY <3>2, <3>3
  <2> QED
      BY <2>1, <2>2
<1>2. SUBSET S \subseteq P
  <2> HIDE DEF P
  <2> QED
      BY <1>1, EverySubset
<1>3. S \in P
    BY <1>2
<1> QED
    BY <1>3

\* There are such sums.
Sums(h, S, w) == [s \in SUBSET S |->
                     IF s = {} THEN 0
                     ELSE w[CHOOSE x \in s : TRUE] + h[s \ {CHOOSE x \in s : TRUE}]]

LEMMA SumExists ==
    ASSUME NEW S, IsFiniteSet(S), NEW w
    PROVE  \E h : h = Sums(h, S, w)
<1> DEFINE N == Cardinality(S)
           Small(n) == {s \in SUBSET S : Cardinality(s) <= n}
           Value(h, s) == IF s = {} THEN 0
                          ELSE w[CHOOSE x \in s : TRUE] + h[s \ {CHOOSE x \in s : TRUE}]
           A == {n \in 0..N : \E h : h = [s \in Small(n) |-> Value(h, s)]}
<1>1. N \in Nat
    BY FS_CardinalityType
<1>2. \A s \in SUBSET S : IsFiniteSet(s) /\ Cardinality(s) \in Nat /\ Cardinality(s) <= N
    BY FS_Subset, FS_CardinalityType
<1>3. \A n \in Nat : \A s \in Small(n + 1) : s # {} => s \ {CHOOSE x \in s : TRUE} \in Small(n)
  <2> SUFFICES ASSUME NEW n \in Nat, NEW s \in Small(n + 1), s # {}
               PROVE  s \ {CHOOSE x \in s : TRUE} \in Small(n)
      OBVIOUS
  <2>1. PICK c : c = CHOOSE x \in s : TRUE
      OBVIOUS
  <2>2. c \in s
      BY <2>1
  <2>3. Cardinality(s \ {c}) = Cardinality(s) - 1
      BY <1>2, <2>2, FS_RemoveElement
  <2> QED
      BY <1>2, <2>1, <2>3
<1>4. \A n \in Nat : \A s \in Small(n) : s \in Small(n + 1)
    BY <1>2
<1>5. 0 \in A
  <2>1. \A s \in Small(0) : s = {}
      BY <1>2, FS_EmptySet
  <2> DEFINE h == [s \in Small(0) |-> 0]
  <2>2. h = [s \in Small(0) |-> Value(h, s)]
    <3>1. \A s \in Small(0) : Value(h, s) = 0
        BY <2>1
    <3> HIDE DEF Small, Value
    <3> QED
        BY <3>1
  <2> HIDE DEF h, Small, Value
  <2> QED
      BY <1>1, <2>2
<1>6. ASSUME NEW n \in 0..N - 1, n \in A PROVE n + 1 \in A
  <2>1. PICK f : f = [s \in Small(n) |-> Value(f, s)]
    <3> HIDE DEF Small, Value
    <3> QED
        BY <1>6
  <2> DEFINE h == [s \in Small(n + 1) |-> Value(f, s)]
  <2>2. \A s \in Small(n) : h[s] = f[s]
    <3>1. \A s \in Small(n) : f[s] = Value(f, s)
      <4> HIDE DEF Small, Value
      <4> QED
          BY <2>1
    <3> HIDE DEF Small, Value
    <3> QED
        BY <1>4, <3>1
  <2>3. \A s \in Small(n + 1) : Value(h, s) = Value(f, s)
    <3> SUFFICES ASSUME NEW s \in Small(n + 1) PROVE Value(h, s) = Value(f, s)
        OBVIOUS
    <3>1. CASE s = {}
        BY <3>1
    <3>2. CASE s # {}
      <4>1. PICK t : t = s \ {CHOOSE x \in s : TRUE}
          OBVIOUS
      <4>2. n \in Nat
          BY <1>1
      <4>3. t \in Small(n)
        <5> HIDE DEF h, Small, Value
        <5> QED
            BY <1>3, <3>2, <4>1, <4>2
      <4>4. h[t] = f[t]
        <5> HIDE DEF h, Small, Value
        <5> QED
            BY <2>2, <4>3
      <4> HIDE DEF h, Small
      <4> QED
          BY <3>2, <4>1, <4>4
    <3> QED
        BY <3>1, <3>2
  <2>4. h = [s \in Small(n + 1) |-> Value(h, s)]
    <3> HIDE DEF Small, Value
    <3> QED
        BY <2>3
  <2>5. n + 1 \in 0..N
      BY <1>1
  <2> HIDE DEF h, Small, Value
  <2> QED
      BY <2>4, <2>5
<1>7. 0..N \subseteq A
  <2> HIDE DEF A, N
  <2> QED
      BY <1>1, <1>5, <1>6, UpTo
<1>8. Small(N) = SUBSET S
    BY <1>2
<1>9. PICK h : h = [s \in Small(N) |-> Value(h, s)]
  <2>1. N \in A
    <3> HIDE DEF A, N
    <3> QED
        BY <1>1, <1>7
  <2> HIDE DEF Small, Value
  <2> QED
      BY <2>1
<1> HIDE DEF Small
<1> QED
    BY <1>8, <1>9 DEF Sums
=============================================================================
