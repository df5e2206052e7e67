---------------------------- MODULE ServerProofs ----------------------------
(***************************************************************************)
(* Theorems about Server, for any clients and any numbers of descriptors:  *)
(* no descriptor is mixed up, and nothing of a stream is lost.             *)
(***************************************************************************)
EXTENDS Server, Recursion

Symbols == Clients \cup {CR, LF}

EndsWith(s, t) == \E p \in Seq(Symbols) : s = p \o t

\* Between two rounds nothing is left to be handled or closed, and a report of
\* the listening socket stays true until it is acted upon.
Rounds ==
    /\ phase \in {"setup", "select"} => ready = {} /\ gone = {}
    /\ phase = "accept" /\ accepting => backlog # << >>

\* Each client that has called is in one place, once.
Places ==
    /\ conns \in [DOMAIN conns -> [client : Clients, buffer : Seq(Symbols)]]
    /\ backlog \in Seq(Clients)
    /\ \A i, j \in DOMAIN backlog : backlog[i] = backlog[j] => i = j
    /\ \A i \in DOMAIN backlog : state[backlog[i]] # "out"
    /\ \A fd \in DOMAIN conns : state[conns[fd].client] # "out"

\* Of a client that is not connected yet nothing has been received; of the others
\* the server has what lies between the commands it took out and the pipe.
Streams ==
    /\ pipe \in [Clients -> Seq(Symbols)] /\ sent \in [Clients -> Seq(Symbols)]
    /\ \A c \in Clients : state[c] = "out" => pipe[c] = sent[c]
    /\ \A i \in DOMAIN backlog : pipe[backlog[i]] = sent[backlog[i]]
    /\ \A fd \in DOMAIN conns :
          LET c == conns[fd].client IN EndsWith(sent[c], conns[fd].buffer \o pipe[c])

\* Answered are the commands of what came first, and what came first may be less
\* than what was sent.
AnswersABeginning(all, answers) ==
    \E p, q \in Seq(Symbols) : all = p \o q /\ answers = Extract(p)

\* Nothing is between what the server has answered, what it has buffered and what
\* it has not received.
UpToDate(all, unread, line, answers) ==
    \E p \in Seq(Symbols) : all = p \o unread /\ Cut(p) = [line |-> line, commands |-> answers]

\* A client that is there is up to date; one that left may have missed answers, and
\* one that is not accepted yet has none.
Answers ==
    /\ replies \in [Clients -> Seq(Seq(Symbols))]
    /\ \A c \in Clients : AnswersABeginning(sent[c], replies[c])
    /\ \A c \in Clients : state[c] = "out" => replies[c] = << >>
    /\ \A i \in DOMAIN backlog : replies[backlog[i]] = << >>
    /\ \A fd \in DOMAIN conns :
          LET c == conns[fd].client
          IN  state[c] = "in" => UpToDate(sent[c], pipe[c], conns[fd].buffer, replies[c])

\* The inductive invariant, but for the answers.
SInv == ServerOK /\ Rounds /\ Places /\ Streams

----------------------------------------------------------------------------
(* Numbers and sequences.                                                  *)

\* Streams may be put together in any order.
Regroups(a, b, c) == (a \o b) \o c = a \o (b \o c)

LEMMA Regrouped == \A a, b, c \in Seq(Symbols) : Regroups(a, b, c)
<1> SUFFICES ASSUME NEW a \in Seq(Symbols), NEW b \in Seq(Symbols), NEW c \in Seq(Symbols)
             PROVE  (a \o b) \o c = a \o (b \o c)
    BY DEF Regroups
<1> QED
    BY ConcatAssociative

\* A sequence is what comes before a place and what comes from it on.
LEMMA CutInTwo ==
    ASSUME NEW S, NEW s \in Seq(S), NEW n \in 0..Len(s)
    PROVE  /\ SubSeq(s, 1, n) \in Seq(S) /\ SubSeq(s, n + 1, Len(s)) \in Seq(S)
           /\ s = SubSeq(s, 1, n) \o SubSeq(s, n + 1, Len(s))
<1>1. Len(s) \in Nat /\ \A i \in 1..Len(s) : s[i] \in S
    OBVIOUS
<1>2. SubSeq(s, 1, n) \in Seq(S)
    BY <1>1, SubSeqProperties
<1>3. SubSeq(s, n + 1, Len(s)) \in Seq(S)
    BY <1>1, SubSeqProperties
<1>4. SubSeq(s, 1, n) \o SubSeq(s, n + 1, Len(s)) = SubSeq(s, 1, Len(s))
  <2>1. 1 \in 1..Len(s) + 1 /\ n \in (1 - 1)..Len(s) /\ Len(s) \in n..Len(s)
      OBVIOUS
  <2> QED
      BY <2>1, ConcatAdjacentSubSeq
<1>5. SubSeq(s, 1, Len(s)) = s
    BY SubSeqFull
<1> QED
    BY <1>2, <1>3, <1>4, <1>5

----------------------------------------------------------------------------
(* extract_commands().                                                     *)

Scans == [line : Seq(Symbols), commands : Seq(Seq(Symbols))]
Start == [line |-> << >>, commands |-> << >>]

\* What the loop has made of each beginning of the buffer.
IsScan(g, s) == g = [n \in 0..Len(s) |-> IF n = 0 THEN Start ELSE Scanned(g[n - 1], s[n])]

NoLF(l) == \A i \in 1..Len(l) : l[i] # LF

\* A symbol makes a line, and commands, of others; no LF gets into the line.
LEMMA ScannedIs ==
    ASSUME NEW x \in Scans, NEW a \in Symbols
    PROVE  Scanned(x, a) \in Scans /\ (NoLF(x.line) => NoLF(Scanned(x, a).line))
<1> DEFINE l == x.line
<1>1. l \in Seq(Symbols) /\ x.commands \in Seq(Seq(Symbols)) /\ << >> \in Seq(Symbols)
    BY EmptySeq DEF Scans
<1> HIDE DEF l
<1>2. CASE a # LF
  <2>1. /\ Append(l, a) \in Seq(Symbols) /\ Len(Append(l, a)) = Len(l) + 1 /\ Len(l) \in Nat
        /\ \A i \in 1..Len(l) : Append(l, a)[i] = l[i]
        /\ Append(l, a)[Len(l) + 1] = a
      BY <1>1, AppendProperties
  <2>2. Scanned(x, a) = [line |-> Append(l, a), commands |-> x.commands]
      BY <1>2 DEF Scanned, l
  <2>3. Scanned(x, a) \in Scans /\ Scanned(x, a).line = Append(l, a)
      BY <1>1, <2>1, <2>2 DEF Scans
  <2>4. ASSUME NoLF(l), NEW i \in 1..Len(l) + 1 PROVE Append(l, a)[i] # LF
      BY <1>2, <2>1, <2>4 DEF NoLF
  <2>5. NoLF(l) => NoLF(Append(l, a))
      BY <2>1, <2>4 DEF NoLF
  <2> QED
      BY <2>3, <2>5 DEF l
<1>3. CASE a = LF
  <2>1. Chomped(l) \in Seq(Symbols)
    <3>1. Len(l) \in Nat /\ \A i \in 1..Len(l) - 1 : l[i] \in Symbols
        BY <1>1
    <3>2. SubSeq(l, 1, Len(l) - 1) \in Seq(Symbols)
        BY <3>1, SubSeqProperties
    <3> QED
        BY <1>1, <3>2 DEF Chomped, Front
  <2>2. Append(x.commands, Chomped(l)) \in Seq(Seq(Symbols))
      BY <1>1, <2>1, AppendProperties
  <2>3. Scanned(x, a).line = << >> /\ Scanned(x, a) \in Scans
      BY <1>1, <1>3, <2>2 DEF Scanned, Scans, l
  <2>4. NoLF(<< >>)
      BY EmptySeq DEF NoLF
  <2> QED
      BY <2>3, <2>4
<1> QED
    BY <1>2, <1>3

\* The loop runs through the buffer.
LEMMA CutIs ==
    ASSUME NEW s \in Seq(Symbols)
    PROVE  \E g : IsScan(g, s) /\ Cut(s) = g[Len(s)] /\ g[Len(s)] \in Scans
<1> DEFINE N == Len(s)
           F == [y \in Scans \X (1..N) |-> Scanned(y[1], s[y[2]])]
<1>1. N \in Nat /\ \A n \in 1..N : s[n] \in Symbols
    OBVIOUS
<1>2. Start \in Scans
  <2>1. << >> \in Seq(Symbols) /\ << >> \in Seq(Seq(Symbols))
      BY EmptySeq
  <2> QED
      BY <2>1 DEF Start, Scans
<1>3. F \in [Scans \X (1..N) -> Scans]
  <2>1. \A y \in Scans \X (1..N) : Scanned(y[1], s[y[2]]) \in Scans
      BY <1>1, ScannedIs
  <2> HIDE DEF N
  <2> QED
      BY <2>1
<1>4. PICK g \in [0..N -> Scans] : IsLoop(g, N, Start, F)
  <2> HIDE DEF F, N
  <2> QED
      BY <1>1, <1>2, <1>3, LoopExists
<1>5. IsScan(g, s)
  <2>1. \A n \in 0..N : n # 0 => n \in 1..N /\ n - 1 \in 0..N
      BY <1>1
  <2>2. \A n \in 1..N : n - 1 \in 0..N
      BY <1>1
  <2>3. ASSUME NEW n \in 1..N PROVE g[n] = Scanned(g[n - 1], s[n])
    <3>1. g[n] = F[<<g[n - 1], n>>] /\ g[n - 1] \in Scans
        BY <1>4, <2>2, <2>3 DEF IsLoop
    <3> HIDE DEF N
    <3> QED
        BY <3>1
  <2>4. g[0] = Start
      BY <1>4 DEF IsLoop
  <2>5. \A n \in 0..N : g[n] = IF n = 0 THEN Start ELSE Scanned(g[n - 1], s[n])
      BY <2>1, <2>3, <2>4
  <2>6. g = [n \in 0..N |-> g[n]]
      BY <1>4
  <2> QED
      BY <2>5, <2>6 DEF IsScan
<1> DEFINE c == CHOOSE h : IsScan(h, s)
<1>6. IsScan(c, s)
    BY <1>5
<1>7. Cut(s) = c[N]
    BY DEF Cut, IsScan, Start
<1> HIDE DEF c
<1>8. c = g
  <2>1. DOMAIN c = 0..N /\ c = [n \in 0..N |-> c[n]]
      BY <1>6 DEF IsScan
  <2>2. DOMAIN g = 0..N /\ g = [n \in 0..N |-> g[n]]
      BY <1>4
  <2>3. 0 \in 0..N /\ \A n \in 1..N : n \in 0..N /\ n # 0
      BY <1>1
  <2>4. c[0] = Start /\ g[0] = Start
      BY <1>5, <1>6, <2>3 DEF IsScan
  <2>5. \A n \in 1..N : c[n] = Scanned(c[n - 1], s[n]) /\ g[n] = Scanned(g[n - 1], s[n])
      BY <1>5, <1>6, <2>3 DEF IsScan
  <2>6. \A n \in 1..N : c[n - 1] = g[n - 1] => c[n] = g[n]
      BY <2>5
  <2> HIDE DEF N
  <2> QED
      BY <1>1, <2>1, <2>2, <2>4, <2>6, LoopUnique
<1>9. g[N] \in Scans
    BY <1>1, <1>4
<1> QED
    BY <1>5, <1>7, <1>8, <1>9

\* With nothing to run through, it does nothing.
LEMMA CutEmpty == Cut(<< >>) = Start
<1>1. << >> \in Seq(Symbols) /\ Len(<< >>) = 0
    BY EmptySeq
<1>2. PICK g : IsScan(g, << >>) /\ Cut(<< >>) = g[Len(<< >>)]
    BY <1>1, CutIs
<1>3. g[0] = Start
    BY <1>1, <1>2 DEF IsScan
<1> QED
    BY <1>1, <1>2, <1>3

\* One more symbol is one more round.
LEMMA CutAppend ==
    ASSUME NEW s \in Seq(Symbols), NEW a \in Symbols
    PROVE  Cut(Append(s, a)) = Scanned(Cut(s), a) /\ Cut(s) \in Scans
<1> DEFINE t == Append(s, a)
           N == Len(s)
<1>1. /\ N \in Nat /\ t \in Seq(Symbols) /\ Len(t) = N + 1
      /\ t[N + 1] = a /\ \A n \in 1..N : t[n] = s[n]
    BY AppendProperties
<1> HIDE DEF t
<1>2. PICK g : IsScan(g, s) /\ Cut(s) = g[N] /\ g[N] \in Scans
    BY CutIs
<1>3. PICK h : IsScan(h, t) /\ Cut(t) = h[Len(t)]
    BY <1>1, CutIs
<1> HIDE DEF N
<1>4. /\ g[0] = Start /\ \A n \in 1..N : g[n] = Scanned(g[n - 1], s[n])
  <2>1. 0 \in 0..N /\ \A n \in 1..N : n \in 0..N /\ n # 0
      BY <1>1
  <2> QED
      BY <1>2, <2>1 DEF IsScan, N
<1>5. h[0] = Start /\ \A n \in 1..N + 1 : h[n] = Scanned(h[n - 1], t[n])
  <2>1. 0 \in 0..N + 1 /\ \A n \in 1..N + 1 : n \in 0..N + 1 /\ n # 0
      BY <1>1
  <2> QED
      BY <1>1, <1>3, <2>1 DEF IsScan
<1>6. \A n \in 1..N : h[n] = Scanned(h[n - 1], s[n])
  <2>1. \A n \in 1..N : n \in 1..N + 1
      BY <1>1
  <2> QED
      BY <1>1, <1>5, <2>1
<1>7. h[N] = g[N]
  <2>1. \A n \in 1..N : h[n - 1] = g[n - 1] => h[n] = g[n]
      BY <1>4, <1>6
  <2>2. h[0] = g[0]
      BY <1>4, <1>5
  <2> QED
      BY <1>1, <2>1, <2>2, LoopsAgree
<1>8. h[N + 1] = Scanned(h[N], a)
  <2>1. N + 1 \in 1..N + 1 /\ (N + 1) - 1 = N
      BY <1>1
  <2> QED
      BY <1>1, <1>5, <2>1
<1> QED
    BY <1>1, <1>2, <1>3, <1>7, <1>8 DEF t

\* What stays is a line without an end.
LEMMA CutType ==
    ASSUME NEW s \in Seq(Symbols)
    PROVE  Cut(s) \in Scans /\ NoLF(Cut(s).line)
<1> DEFINE P == {u \in Seq(Symbols) : Cut(u) \in Scans /\ NoLF(Cut(u).line)}
<1>1. << >> \in P
  <2>1. << >> \in Seq(Symbols) /\ << >> \in Seq(Seq(Symbols))
      BY EmptySeq
  <2>2. Start \in Scans /\ NoLF(Start.line)
      BY <2>1, EmptySeq DEF Start, Scans, NoLF
  <2> QED
      BY <2>1, <2>2, CutEmpty
<1>2. ASSUME NEW u \in Seq(Symbols), NEW a \in Symbols, u \in P PROVE Append(u, a) \in P
  <2>1. Cut(Append(u, a)) = Scanned(Cut(u), a)
      BY CutAppend
  <2>2. Append(u, a) \in Seq(Symbols)
      BY AppendProperties
  <2> QED
      BY <1>2, <2>1, <2>2, ScannedIs
<1>3. \A u \in Seq(Symbols) : u \in P
  <2> HIDE DEF P
  <2> QED
      BY <1>1, <1>2, SeqInduct
<1> QED
    BY <1>3

\* A line without an end is no command yet.
LEMMA CutLine ==
    ASSUME NEW s \in Seq(Symbols), NoLF(s)
    PROVE  Cut(s) = [line |-> s, commands |-> << >>]
<1> DEFINE P == {u \in Seq(Symbols) : NoLF(u) => Cut(u) = [line |-> u, commands |-> << >>]}
<1>1. << >> \in P
    BY EmptySeq, CutEmpty DEF Start
<1>2. ASSUME NEW u \in Seq(Symbols), NEW a \in Symbols, u \in P PROVE Append(u, a) \in P
  <2>1. Cut(Append(u, a)) = Scanned(Cut(u), a)
      BY CutAppend
  <2>2. /\ Append(u, a) \in Seq(Symbols) /\ Len(Append(u, a)) = Len(u) + 1 /\ Len(u) \in Nat
        /\ \A i \in 1..Len(u) : Append(u, a)[i] = u[i]
        /\ Append(u, a)[Len(u) + 1] = a
      BY AppendProperties
  <2>3. ASSUME NoLF(Append(u, a)) PROVE NoLF(u) /\ a # LF
      BY <2>2, <2>3 DEF NoLF
  <2>4. ASSUME NoLF(Append(u, a))
        PROVE  Cut(Append(u, a)) = [line |-> Append(u, a), commands |-> << >>]
    <3>1. Cut(u) = [line |-> u, commands |-> << >>] /\ a # LF
        BY <1>2, <2>3, <2>4
    <3> QED
        BY <2>1, <3>1 DEF Scanned
  <2> QED
      BY <2>2, <2>4
<1>3. \A u \in Seq(Symbols) : u \in P
  <2> HIDE DEF P
  <2> QED
      BY <1>1, <1>2, SeqInduct
<1> QED
    BY <1>3

\* Appending to a whole is appending to its end.
LEMMA AppendRegrouped ==
    ASSUME NEW A, NEW p \in Seq(A), NEW x \in Seq(A), NEW a \in A
    PROVE  p \o Append(x, a) = Append(p \o x, a) /\ p \o x \in Seq(A)
<1>1. p \o x \in Seq(A)
    BY ConcatProperties
<1>2. Append(x, a) = x \o <<a>> /\ Append(p \o x, a) = (p \o x) \o <<a>> /\ <<a>> \in Seq(A)
    BY <1>1, AppendIsConcat
<1>3. (p \o x) \o <<a>> = p \o (x \o <<a>>)
    BY <1>2, ConcatAssociative
<1> QED
    BY <1>1, <1>2, <1>3, Zenon

\* A stream may be cut up in two goes: the second takes up the line that the first
\* left.
CutsOn(p, x) ==
    /\ Cut(p \o x).line = Cut(Cut(p).line \o x).line
    /\ Cut(p \o x).commands = Cut(p).commands \o Cut(Cut(p).line \o x).commands

LEMMA CutTwice ==
    ASSUME NEW p \in Seq(Symbols), NEW x \in Seq(Symbols)
    PROVE  CutsOn(p, x)
<1> DEFINE l == Cut(p).line
           P == {u \in Seq(Symbols) : CutsOn(p, u)}
<1>1. Cut(p) \in Scans /\ NoLF(l) /\ l \in Seq(Symbols) /\ Cut(p).commands \in Seq(Seq(Symbols))
    BY CutType DEF Scans
<1> HIDE DEF l
<1>2. << >> \in P
  <2>1. << >> \in Seq(Symbols) /\ p \o << >> = p /\ l \o << >> = l
      BY <1>1, EmptySeq, ConcatEmptySeq
  <2>2. Cut(l) = [line |-> l, commands |-> << >>]
      BY <1>1, CutLine
  <2>3. Cut(p).commands \o << >> = Cut(p).commands
      BY <1>1, ConcatEmptySeq
  <2>4. Cut(l \o << >>).line = l /\ Cut(l \o << >>).commands = << >>
      BY <2>1, <2>2
  <2>5. CutsOn(p, << >>)
      BY <2>1, <2>3, <2>4, Zenon DEF CutsOn, l
  <2> QED
      BY <2>1, <2>5
<1>3. ASSUME NEW u \in Seq(Symbols), NEW a \in Symbols, u \in P PROVE Append(u, a) \in P
  <2>1. /\ Append(u, a) \in Seq(Symbols) /\ p \o u \in Seq(Symbols) /\ l \o u \in Seq(Symbols)
        /\ p \o Append(u, a) = Append(p \o u, a) /\ l \o Append(u, a) = Append(l \o u, a)
      BY <1>1, AppendRegrouped, AppendProperties
  <2> DEFINE y == Cut(p \o u)
             z == Cut(l \o u)
  <2>2. Cut(p \o Append(u, a)) = Scanned(y, a) /\ Cut(l \o Append(u, a)) = Scanned(z, a)
      BY <2>1, CutAppend
  <2>3. y \in Scans /\ z \in Scans
      BY <2>1, CutType
  <2>4. y.line = z.line /\ y.commands = Cut(p).commands \o z.commands
      BY <1>3 DEF CutsOn, l
  <2> HIDE DEF y, z
  <2>5. /\ Scanned(y, a).line = Scanned(z, a).line
        /\ Scanned(y, a).commands = Cut(p).commands \o Scanned(z, a).commands
    <3>1. CASE a # LF
        BY <2>4, <3>1 DEF Scanned
    <3>2. CASE a = LF
      <4>1. Scanned(z, a).line = << >> /\ Scanned(y, a).line = << >>
          BY <3>2 DEF Scanned
      <4>2. CASE Chomped(z.line) = << >>
          BY <2>4, <3>2, <4>1, <4>2 DEF Scanned
      <4>3. CASE Chomped(z.line) # << >>
        <5>1. Append(z.commands, Chomped(z.line)) \in Seq(Seq(Symbols))
          <6>1. Scanned(z, a) \in Scans
              BY <2>3, ScannedIs
          <6> QED
              BY <3>2, <4>3, <6>1 DEF Scanned, Scans
        <5>2. z.commands \in Seq(Seq(Symbols)) /\ Chomped(z.line) \in Seq(Symbols)
          <6>1. z.commands \in Seq(Seq(Symbols)) /\ z.line \in Seq(Symbols)
              BY <2>3 DEF Scans
          <6>2. Len(z.line) \in Nat /\ \A i \in 1..Len(z.line) - 1 : z.line[i] \in Symbols
              BY <6>1
          <6>3. SubSeq(z.line, 1, Len(z.line) - 1) \in Seq(Symbols)
              BY <6>2, SubSeqProperties
          <6> QED
              BY <6>1, <6>3 DEF Chomped, Front
        <5>3. Cut(p).commands \o Append(z.commands, Chomped(z.line))
                  = Append(Cut(p).commands \o z.commands, Chomped(z.line))
          <6> DEFINE cs == Cut(p).commands
                     ds == z.commands
                     d  == Chomped(z.line)
          <6>1. cs \in Seq(Seq(Symbols)) /\ ds \in Seq(Seq(Symbols)) /\ d \in Seq(Symbols)
              BY <1>1, <5>2
          <6> HIDE DEF cs, ds, d
          <6>2. cs \o Append(ds, d) = Append(cs \o ds, d)
              BY <6>1, AppendRegrouped
          <6> QED
              BY <6>2 DEF cs, ds, d
        <5> QED
            BY <2>4, <3>2, <4>1, <4>3, <5>3 DEF Scanned
      <4> QED
          BY <4>2, <4>3
    <3> QED
        BY <3>1, <3>2
  <2> QED
      BY <2>1, <2>2, <2>5, Zenon DEF CutsOn, l
<1>4. \A u \in Seq(Symbols) : u \in P
  <2> HIDE DEF P
  <2> QED
      BY <1>2, <1>3, SeqInduct
<1> QED
    BY <1>4

\* erase(): what extract_commands() leaves in the buffer is the buffer's end.
LEMMA RestIs ==
    ASSUME NEW s \in Seq(Symbols)
    PROVE  Rest(s) \in Seq(Symbols) /\ EndsWith(s, Rest(s))
<1> DEFINE P == {u \in Seq(Symbols) : EndsWith(u, Cut(u).line)}
<1>1. << >> \in P
  <2>1. << >> \in Seq(Symbols)
      BY EmptySeq
  <2>2. << >> = << >> \o << >>
      BY <2>1, ConcatEmptySeq
  <2>3. Cut(<< >>).line = << >>
      BY CutEmpty DEF Start
  <2> QED
      BY <2>1, <2>2, <2>3 DEF EndsWith
<1>2. ASSUME NEW u \in Seq(Symbols), NEW a \in Symbols, u \in P PROVE Append(u, a) \in P
  <2>1. /\ Cut(Append(u, a)) = Scanned(Cut(u), a) /\ Cut(u).line \in Seq(Symbols)
        /\ Append(u, a) \in Seq(Symbols)
      BY CutAppend, CutType, AppendProperties DEF Scans
  <2>2. CASE a = LF
    <3>1. Cut(Append(u, a)).line = << >>
        BY <2>1, <2>2 DEF Scanned
    <3>2. Append(u, a) = Append(u, a) \o << >>
        BY <2>1, ConcatEmptySeq
    <3> QED
        BY <2>1, <3>1, <3>2 DEF EndsWith
  <2>3. CASE a # LF
    <3>1. Cut(Append(u, a)).line = Append(Cut(u).line, a)
        BY <2>1, <2>3 DEF Scanned
    <3>2. PICK p \in Seq(Symbols) : u = p \o Cut(u).line
        BY <1>2 DEF EndsWith
    <3>3. p \o Append(Cut(u).line, a) = Append(p \o Cut(u).line, a)
        BY <2>1, AppendRegrouped
    <3>4. Append(u, a) = p \o Cut(Append(u, a)).line
        BY <3>1, <3>2, <3>3, Zenon
    <3> QED
        BY <2>1, <3>4 DEF EndsWith
  <2> QED
      BY <2>2, <2>3
<1>3. \A u \in Seq(Symbols) : u \in P
  <2> HIDE DEF P
  <2> QED
      BY <1>1, <1>2, SeqInduct
<1> QED
    BY <1>3, CutType DEF Rest, Scans

----------------------------------------------------------------------------
(* What recv() and the commands move.                                      *)

\* A stream goes on at both ends at once.
LEMMA EndGrows ==
    ASSUME NEW s \in Seq(Symbols), NEW b \in Seq(Symbols), NEW q \in Seq(Symbols),
           NEW x \in Seq(Symbols), EndsWith(s, b \o q)
    PROVE  EndsWith(s \o x, b \o (q \o x))
<1>1. PICK p \in Seq(Symbols) : s = p \o (b \o q)
    BY DEF EndsWith
<1>2. Regroups(b, q, x)
    BY Regrouped
<1>3. b \o q \in Seq(Symbols)
    BY ConcatProperties
<1>4. Regroups(p, b \o q, x)
    BY <1>3, Regrouped
<1> QED
    BY <1>1, <1>2, <1>4 DEF EndsWith, Regroups

\* recv() moves symbols from the pipe to the buffer, and the commands leave it at
\* its beginning.
LEMMA EndReceived ==
    ASSUME NEW s \in Seq(Symbols), NEW b \in Seq(Symbols), NEW q \in Seq(Symbols),
           NEW n \in 1..Len(q), EndsWith(s, b \o q)
    PROVE  /\ b \o SubSeq(q, 1, n) \in Seq(Symbols)
           /\ SubSeq(q, n + 1, Len(q)) \in Seq(Symbols)
           /\ EndsWith(s, Rest(b \o SubSeq(q, 1, n)) \o SubSeq(q, n + 1, Len(q)))
<1> DEFINE q1 == SubSeq(q, 1, n)
           q2 == SubSeq(q, n + 1, Len(q))
           r  == Rest(b \o q1)
<1>1. n \in 0..Len(q)
    OBVIOUS
<1>2. q1 \in Seq(Symbols) /\ q2 \in Seq(Symbols) /\ q = q1 \o q2
    BY <1>1, CutInTwo
<1> HIDE DEF q1, q2
<1>3. b \o q1 \in Seq(Symbols)
    BY <1>2, ConcatProperties
<1>4. r \in Seq(Symbols) /\ EndsWith(b \o q1, r)
    BY <1>3, RestIs
<1> HIDE DEF r
<1>5. PICK x \in Seq(Symbols) : b \o q1 = x \o r
    BY <1>4 DEF EndsWith
<1>6. PICK p \in Seq(Symbols) : s = p \o (b \o q)
    BY DEF EndsWith
<1>7. Regroups(b, q1, q2)
    BY <1>2, Regrouped
<1>8. Regroups(x, r, q2)
    BY <1>2, <1>4, Regrouped
<1>9. r \o q2 \in Seq(Symbols)
    BY <1>2, <1>4, ConcatProperties
<1>10. Regroups(p, x, r \o q2)
    BY <1>9, Regrouped
<1>11. p \o x \in Seq(Symbols)
    BY ConcatProperties
<1>12. s = (p \o x) \o (r \o q2)
  <2>1. b \o q = x \o (r \o q2)
      BY <1>2, <1>5, <1>7, <1>8, Zenon DEF Regroups
  <2> QED
      BY <2>1, <1>6, <1>10, Zenon DEF Regroups
<1>13. EndsWith(s, r \o q2)
    BY <1>11, <1>12 DEF EndsWith
<1> QED
    BY <1>2, <1>3, <1>13 DEF q1, q2, r
----------------------------------------------------------------------------
(* The actions.                                                            *)

\* The actions that move neither streams nor connections.
LEMMA PlacesStay ==
    ASSUME Places, UNCHANGED <<conns, backlog>>,
           \A c \in Clients : state[c] # "out" => state'[c] # "out"
    PROVE  Places'
<1>1. \A i \in DOMAIN backlog : backlog[i] \in Clients
    BY DEF Places
<1>2. \A fd \in DOMAIN conns : conns[fd].client \in Clients
    BY DEF Places
<1> QED
    BY <1>1, <1>2 DEF Places

LEMMA StreamsStay ==
    ASSUME Streams, UNCHANGED <<conns, backlog, pipe, sent>>,
           \A c \in Clients : state'[c] = "out" => state[c] = "out"
    PROVE  Streams'
    BY DEF Streams

\* connect(): the kernel puts a new client at the end of its queue.
LEMMA ConnectKeeps ==
    ASSUME SInv, NEW c \in Clients, Connect(c)
    PROVE  SInv'
<1>1. /\ state[c] = "out" /\ state' = [state EXCEPT ![c] = "in"]
      /\ state \in [Clients -> {"out", "in", "left"}]
      /\ UNCHANGED <<phase, running, ready, gone, accepting, conns, pipe, sent>>
    BY DEF Connect, SInv, ServerOK, loopVars
<1>2. /\ backlog \in Seq(Clients) /\ backlog' = Append(backlog, c)
      /\ Len(backlog) \in Nat /\ DOMAIN backlog = 1..Len(backlog)
    BY DEF Connect, SInv, Places
<1>3. /\ backlog' \in Seq(Clients) /\ DOMAIN backlog' = 1..Len(backlog) + 1
      /\ backlog'[Len(backlog) + 1] = c
      /\ \A i \in DOMAIN backlog : backlog'[i] = backlog[i]
      /\ backlog' # << >>
    BY <1>2
<1>4. \A i \in DOMAIN backlog' : i = Len(backlog) + 1 \/ i \in DOMAIN backlog
    BY <1>2, <1>3
<1>5. \A i \in DOMAIN backlog : backlog[i] # c
    BY <1>1 DEF SInv, Places
<1>6. \A fd \in DOMAIN conns : conns[fd].client # c
    BY <1>1 DEF SInv, Places
<1>7. ServerOK'
  <2>1. \A i \in DOMAIN backlog' : \A fd \in DOMAIN conns : conns[fd].client # backlog'[i]
      BY <1>3, <1>4, <1>6 DEF SInv, ServerOK
  <2>2. state' \in [Clients -> {"out", "in", "left"}]
      BY <1>1
  <2> QED
      BY <1>1, <2>1, <2>2 DEF SInv, ServerOK
<1>8. Rounds'
    BY <1>1, <1>3 DEF SInv, Rounds
<1>9. Places'
  <2>1. \A i, j \in DOMAIN backlog' : backlog'[i] = backlog'[j] => i = j
      BY <1>3, <1>4, <1>5 DEF SInv, Places
  <2>2. \A i \in DOMAIN backlog' : state'[backlog'[i]] # "out"
    <3>1. \A i \in DOMAIN backlog : backlog[i] \in Clients /\ state[backlog[i]] # "out"
        BY <1>2 DEF SInv, Places
    <3> QED
        BY <1>1, <1>3, <1>4, <3>1
  <2>3. \A fd \in DOMAIN conns : conns[fd].client \in Clients /\ state[conns[fd].client] # "out"
      BY DEF SInv, Places
  <2>4. \A fd \in DOMAIN conns' : state'[conns'[fd].client] # "out"
      BY <1>1, <2>3
  <2> QED
      BY <1>1, <1>3, <2>1, <2>2, <2>4 DEF SInv, Places
<1>10. Streams'
  <2>1. \A d \in Clients : state'[d] = "out" => pipe'[d] = sent'[d]
      BY <1>1 DEF SInv, Streams
  <2>2. \A i \in DOMAIN backlog' : pipe'[backlog'[i]] = sent'[backlog'[i]]
      BY <1>1, <1>3, <1>4 DEF SInv, Streams
  <2> QED
      BY <1>1, <2>1, <2>2 DEF SInv, Streams
<1> QED
    BY <1>7, <1>8, <1>9, <1>10 DEF SInv

\* What is typed comes to the end of the stream, and of the pipe.
LEMMA TypeKeeps ==
    ASSUME SInv, NEW c \in Clients, Type(c)
    PROVE  SInv'
<1>1. PICK x \in Seq(Symbols) :
          /\ state[c] = "in"
          /\ pipe' = [pipe EXCEPT ![c] = @ \o x] /\ sent' = [sent EXCEPT ![c] = @ \o x]
  <2>1. \A x \in Pieces(c) : x \in Seq(Symbols)
    <3>1. c \in Symbols /\ CR \in Symbols /\ LF \in Symbols
        BY DEF Symbols
    <3>2. <<c, LF>> \in Seq(Symbols) /\ <<CR, LF>> \in Seq(Symbols)
        BY <3>1
    <3>3. <<c, CR, LF>> \in Seq(Symbols)
        BY <3>1
    <3>4. <<c>> \in Seq(Symbols)
        BY <3>1
    <3> QED
        BY <3>2, <3>3, <3>4 DEF Pieces
  <2> QED
      BY <2>1 DEF Type
<1>2. UNCHANGED <<phase, running, ready, gone, accepting, conns, backlog, state>>
    BY DEF Type, loopVars
<1>3. pipe \in [Clients -> Seq(Symbols)] /\ sent \in [Clients -> Seq(Symbols)]
    BY DEF SInv, Streams
<1>4. ServerOK' /\ Rounds' /\ Places'
    BY <1>2 DEF SInv, ServerOK, Rounds, Places
<1>5. Streams'
  <2>1. pipe' \in [Clients -> Seq(Symbols)] /\ sent' \in [Clients -> Seq(Symbols)]
    <3>1. pipe[c] \o x \in Seq(Symbols) /\ sent[c] \o x \in Seq(Symbols)
        BY <1>3, ConcatProperties
    <3> QED
        BY <1>1, <1>3, <3>1
  <2>2. \A d \in Clients : pipe[d] = sent[d] => pipe'[d] = sent'[d]
      BY <1>1, <1>3
  <2>3. \A d \in Clients : state'[d] = "out" => pipe'[d] = sent'[d]
      BY <1>2, <2>2 DEF SInv, Streams
  <2>4. \A i \in DOMAIN backlog' : pipe'[backlog'[i]] = sent'[backlog'[i]]
    <3>1. \A i \in DOMAIN backlog : backlog[i] \in Clients
        BY DEF SInv, Places
    <3> QED
        BY <1>2, <2>2, <3>1 DEF SInv, Streams
  <2>5. ASSUME NEW fd \in DOMAIN conns
        PROVE  EndsWith(sent'[conns[fd].client], conns[fd].buffer \o pipe'[conns[fd].client])
    <3> DEFINE d == conns[fd].client
               b == conns[fd].buffer
    <3>1. d \in Clients /\ b \in Seq(Symbols) /\ EndsWith(sent[d], b \o pipe[d])
        BY DEF SInv, Places, Streams
    <3> HIDE DEF d, b
    <3>2. CASE d # c
        BY <1>1, <1>3, <3>1, <3>2 DEF d, b
    <3>3. CASE d = c
      <4>1. pipe'[d] = pipe[d] \o x /\ sent'[d] = sent[d] \o x
          BY <1>1, <1>3, <3>3
      <4>2. pipe[d] \in Seq(Symbols) /\ sent[d] \in Seq(Symbols)
          BY <1>3, <3>1
      <4>3. EndsWith(sent[d] \o x, b \o (pipe[d] \o x))
          BY <3>1, <4>2, EndGrows
      <4> QED
          BY <4>1, <4>3 DEF d, b
    <3> QED
        BY <3>2, <3>3
  <2> QED
      BY <1>2, <2>1, <2>3, <2>4, <2>5 DEF Streams
<1> QED
    BY <1>4, <1>5 DEF SInv

\* accept_connection(): the oldest of the queue gets the least free descriptor, with an
\* empty buffer.
LEMMA AcceptKeeps ==
    ASSUME SInv, Accept
    PROVE  SInv'
<1>1. /\ phase = "accept" /\ phase' = "serve"
      /\ UNCHANGED <<running, ready, gone, accepting, state, pipe, sent>>
    BY DEF Accept, clientVars
<1>2. CASE ~(accepting /\ FreeFds # {})
  <2>1. UNCHANGED <<conns, backlog>>
      BY <1>2 DEF Accept
  <2> QED
      BY <1>1, <2>1, PlacesStay, StreamsStay DEF SInv, ServerOK, Rounds
<1>3. CASE accepting /\ FreeFds # {}
  <2> DEFINE fd == CHOOSE f \in FreeFds : \A g \in FreeFds : f <= g
             c  == Head(backlog)
  <2>1. fd \in Fds /\ fd \notin DOMAIN conns
    <3>1. FreeFds \in SUBSET Nat
        BY FdsAssumption DEF FreeFds
    <3>2. \E f \in FreeFds : \A g \in FreeFds : f <= g
        BY <1>3, <3>1, LeastExists
    <3>3. fd \in FreeFds
        BY <3>2
    <3> QED
        BY <3>3 DEF FreeFds
  <2>2. /\ conns' = [f \in DOMAIN conns \cup {fd} |->
                        IF f = fd THEN NewConnection(c) ELSE conns[f]]
        /\ backlog' = Tail(backlog)
      BY <1>3 DEF Accept
  <2>3. /\ backlog \in Seq(Clients) /\ backlog # << >>
        /\ Len(backlog) \in Nat /\ DOMAIN backlog = 1..Len(backlog)
      BY <1>1, <1>3 DEF SInv, Rounds, Places
  <2>4. /\ 1 \in DOMAIN backlog /\ c = backlog[1] /\ c \in Clients
        /\ backlog' \in Seq(Clients) /\ DOMAIN backlog' = 1..Len(backlog) - 1
        /\ \A i \in DOMAIN backlog' : i + 1 \in DOMAIN backlog /\ i + 1 # 1
                                      /\ backlog'[i] = backlog[i + 1]
    <3>1. /\ backlog' \in Seq(Clients) /\ Len(backlog') = Len(backlog) - 1
          /\ \A i \in 1..Len(backlog') : backlog'[i] = backlog[i + 1]
        BY <2>2, <2>3, HeadTailProperties
    <3>2. DOMAIN backlog' = 1..Len(backlog')
        BY <3>1
    <3>3. c = backlog[1] /\ Len(backlog) # 0
        BY <2>3
    <3> QED
        BY <2>3, <3>1, <3>2, <3>3
  <2> HIDE DEF fd, c
  <2>5. /\ DOMAIN conns' = DOMAIN conns \cup {fd}
        /\ conns'[fd] = NewConnection(c)
        /\ \A f \in DOMAIN conns : conns'[f] = conns[f]
      BY <2>1, <2>2
  <2>6. conns'[fd].client = c /\ conns'[fd].buffer = << >>
      BY <2>5 DEF NewConnection
  <2>7. \A f \in DOMAIN conns : conns[f].client # c
      BY <2>4 DEF SInv, ServerOK
  <2>8. ServerOK'
    <3>1. \A f, g \in DOMAIN conns' : conns'[f].client = conns'[g].client => f = g
        BY <2>5, <2>6, <2>7 DEF SInv, ServerOK
    <3>2. \A i \in DOMAIN backlog' : \A f \in DOMAIN conns' : conns'[f].client # backlog'[i]
      <4>1. \A i \in DOMAIN backlog' : backlog'[i] # c
          BY <2>4 DEF SInv, Places
      <4>2. \A i \in DOMAIN backlog' : \A f \in DOMAIN conns : conns[f].client # backlog'[i]
          BY <2>4 DEF SInv, ServerOK
      <4> QED
          BY <2>5, <2>6, <4>1, <4>2
    <3>3. DOMAIN conns' \subseteq Fds
        BY <2>1, <2>5 DEF SInv, ServerOK
    <3>4. ready' \subseteq DOMAIN conns' /\ gone' \subseteq DOMAIN conns' \ ready'
        BY <1>1, <2>5 DEF SInv, ServerOK
    <3> QED
        BY <1>1, <3>1, <3>2, <3>3, <3>4 DEF SInv, ServerOK
  <2>9. Rounds'
      BY <1>1 DEF Rounds
  <2>10. Places'
    <3>1. conns' \in [DOMAIN conns' -> [client : Clients, buffer : Seq(Symbols)]]
      <4>1. NewConnection(c) \in [client : Clients, buffer : Seq(Symbols)]
        <5>1. << >> \in Seq(Symbols)
            BY EmptySeq
        <5> QED
            BY <2>4, <5>1 DEF NewConnection
      <4>2. \A f \in DOMAIN conns : conns[f] \in [client : Clients, buffer : Seq(Symbols)]
          BY DEF SInv, Places
      <4> QED
          BY <2>2, <4>1, <4>2
    <3>2. \A i, j \in DOMAIN backlog' : backlog'[i] = backlog'[j] => i = j
      <4> SUFFICES ASSUME NEW i \in DOMAIN backlog', NEW j \in DOMAIN backlog',
                          backlog'[i] = backlog'[j]
                   PROVE  i = j
          OBVIOUS
      <4>1. i + 1 = j + 1
          BY <2>4 DEF SInv, Places
      <4>2. i \in Nat /\ j \in Nat
          BY <2>3, <2>4
      <4> QED
          BY <4>1, <4>2
    <3>3. \A i \in DOMAIN backlog' : state'[backlog'[i]] # "out"
        BY <1>1, <2>4 DEF SInv, Places
    <3>4. \A f \in DOMAIN conns' : state'[conns'[f].client] # "out"
        BY <1>1, <2>4, <2>5, <2>6 DEF SInv, Places
    <3> QED
        BY <2>4, <3>1, <3>2, <3>3, <3>4 DEF Places
  <2>11. Streams'
    <3>1. \A i \in DOMAIN backlog' : pipe'[backlog'[i]] = sent'[backlog'[i]]
        BY <1>1, <2>4 DEF SInv, Streams
    <3>2. EndsWith(sent[c], << >> \o pipe[c])
      <4>1. sent[c] = pipe[c] /\ pipe[c] \in Seq(Symbols)
          BY <2>4 DEF SInv, Streams
      <4>2. << >> \o pipe[c] = pipe[c] /\ << >> \in Seq(Symbols)
          BY <4>1, ConcatEmptySeq, EmptySeq
      <4> QED
          BY <4>1, <4>2 DEF EndsWith
    <3>3. \A f \in DOMAIN conns' :
             EndsWith(sent'[conns'[f].client], conns'[f].buffer \o pipe'[conns'[f].client])
        BY <1>1, <2>5, <2>6, <3>2 DEF SInv, Streams
    <3> QED
        BY <1>1, <3>1, <3>3 DEF SInv, Streams
  <2> QED
      BY <2>8, <2>9, <2>10, <2>11 DEF SInv
<1> QED
    BY <1>2, <1>3

\* handle_client(): what recv() took goes to the buffer, the commands leave it, and the
\* rest of the stream is still whole.
LEMMA ReceiveKeeps ==
    ASSUME SInv, NEW fd \in ready, Receive(fd)
    PROVE  SInv'
<1> DEFINE c == conns[fd].client
           b == conns[fd].buffer
<1>1. /\ phase = "serve" /\ phase' \in {"serve", "killed"} /\ ready' = ready \ {fd}
      /\ UNCHANGED <<running, gone, accepting, backlog, state, sent>>
    BY DEF Receive
<1>2. PICK n \in 1..Len(pipe[c]) :
          /\ pipe' = [pipe EXCEPT ![c] = SubSeq(@, n + 1, Len(@))]
          /\ conns' = [conns EXCEPT ![fd].buffer = Rest(b \o SubSeq(pipe[c], 1, n))]
    BY DEF Receive, Appended
<1>3. fd \in DOMAIN conns /\ c \in Clients /\ b \in Seq(Symbols)
    BY DEF SInv, ServerOK, Places
<1>4. pipe[c] \in Seq(Symbols) /\ sent[c] \in Seq(Symbols) /\ EndsWith(sent[c], b \o pipe[c])
    BY <1>3 DEF SInv, Streams
<1> DEFINE r == Rest(b \o SubSeq(pipe[c], 1, n))
           q == SubSeq(pipe[c], n + 1, Len(pipe[c]))
<1>5. q \in Seq(Symbols) /\ EndsWith(sent[c], r \o q) /\ b \o SubSeq(pipe[c], 1, n) \in Seq(Symbols)
    BY <1>3, <1>4, EndReceived
<1>6. r \in Seq(Symbols)
    BY <1>5, RestIs
<1>7. pipe' = [pipe EXCEPT ![c] = q] /\ conns' = [conns EXCEPT ![fd].buffer = r]
    BY <1>2
<1> HIDE DEF c, b, r, q
<1>8. conns \in [DOMAIN conns -> [client : Clients, buffer : Seq(Symbols)]]
    BY DEF SInv, Places
<1>9. /\ DOMAIN conns' = DOMAIN conns
      /\ \A f \in DOMAIN conns : conns'[f].client = conns[f].client
      /\ conns'[fd].buffer = r
      /\ \A f \in DOMAIN conns : f # fd => conns'[f].buffer = conns[f].buffer
      /\ conns' \in [DOMAIN conns -> [client : Clients, buffer : Seq(Symbols)]]
    BY <1>3, <1>6, <1>7, <1>8
<1>10. ServerOK'
    BY <1>1, <1>9 DEF SInv, ServerOK, Ended
<1>11. Rounds'
    BY <1>1 DEF Rounds
<1>12. Places'
    BY <1>1, <1>9 DEF SInv, Places
<1>13. Streams'
  <2>1. /\ pipe \in [Clients -> Seq(Symbols)]
        /\ pipe' \in [Clients -> Seq(Symbols)] /\ pipe'[c] = q
        /\ \A d \in Clients : d # c => pipe'[d] = pipe[d]
      BY <1>3, <1>5, <1>7 DEF SInv, Streams
  <2>2. state[c] # "out" /\ \A i \in DOMAIN backlog : backlog[i] # c
      BY <1>3 DEF SInv, Places, ServerOK, c
  <2>3. \A d \in Clients : state'[d] = "out" => pipe'[d] = sent'[d]
      BY <1>1, <2>1, <2>2 DEF SInv, Streams
  <2>4. \A i \in DOMAIN backlog' : pipe'[backlog'[i]] = sent'[backlog'[i]]
    <3>1. \A i \in DOMAIN backlog : backlog[i] \in Clients
        BY DEF SInv, Places
    <3> QED
        BY <1>1, <2>1, <2>2, <3>1 DEF SInv, Streams
  <2>5. ASSUME NEW f \in DOMAIN conns
        PROVE  EndsWith(sent[conns[f].client], conns'[f].buffer \o pipe'[conns[f].client])
    <3>1. CASE f = fd
        BY <1>5, <1>9, <2>1, <3>1 DEF c
    <3>2. CASE f # fd
      <4>1. conns[f].client # c /\ conns[f].client \in Clients
          BY <1>3, <1>8, <3>2 DEF SInv, ServerOK, c
      <4> QED
          BY <1>9, <2>1, <3>2, <4>1 DEF SInv, Streams
    <3> QED
        BY <3>1, <3>2
  <2>6. \A f \in DOMAIN conns' :
           EndsWith(sent'[conns'[f].client], conns'[f].buffer \o pipe'[conns'[f].client])
      BY <1>1, <1>9, <2>5
  <2> QED
      BY <1>1, <2>1, <2>3, <2>4, <2>6 DEF SInv, Streams
<1> QED
    BY <1>10, <1>11, <1>12, <1>13 DEF SInv

\* Closing descriptors takes their connections away, and nothing else.
LEMMA ErasedKeeps ==
    ASSUME Places, Streams, ServerOK, NEW fds, conns' = Erased(fds), backlog' = backlog,
           state' = state, pipe' = pipe, sent' = sent
    PROVE  /\ Places' /\ Streams'
           /\ DOMAIN conns' = DOMAIN conns \ fds
           /\ \A fd \in DOMAIN conns' : conns'[fd] = conns[fd]
<1>1. /\ DOMAIN conns' = DOMAIN conns \ fds
      /\ \A fd \in DOMAIN conns' : conns'[fd] = conns[fd]
    BY DEF Erased
<1>2. conns' \in [DOMAIN conns' -> [client : Clients, buffer : Seq(Symbols)]]
    BY <1>1 DEF Places, Erased
<1>3. Places'
    BY <1>1, <1>2 DEF Places
<1>4. Streams'
    BY <1>1 DEF Streams
<1> QED
    BY <1>1, <1>3, <1>4

\* The end of a round: the descriptors of those that left are free again.
LEMMA NextRoundKeeps ==
    ASSUME SInv, NextRound
    PROVE  SInv'
<1>1. /\ ready = {} /\ ready' = ready /\ gone' = {} /\ phase' = "select"
      /\ conns' = Erased(gone)
      /\ UNCHANGED <<running, accepting, backlog, state, pipe, sent>>
    BY DEF NextRound, NewRound, clientVars
<1>2. /\ Places' /\ Streams'
      /\ DOMAIN conns' = DOMAIN conns \ gone
      /\ \A fd \in DOMAIN conns' : conns'[fd] = conns[fd]
    BY <1>1, ErasedKeeps DEF SInv
<1>3. ServerOK' /\ Rounds'
    BY <1>1, <1>2 DEF SInv, ServerOK, Rounds
<1> QED
    BY <1>2, <1>3 DEF SInv

\* The end of the loop: everybody is left without a connection.
LEMMA ReturnKeeps ==
    ASSUME SInv, Return
    PROVE  SInv'
<1>1. /\ phase = "select" /\ phase' = "done" /\ ready = {} /\ gone = {}
      /\ conns' = Erased(DOMAIN conns) /\ backlog' = << >>
      /\ state' = [c \in Clients |-> IF state[c] = "in" THEN "left" ELSE state[c]]
      /\ UNCHANGED <<running, ready, gone, accepting, pipe, sent>>
    BY DEF Return, SInv, Rounds
<1>2. DOMAIN conns' = {} /\ DOMAIN backlog' = {} /\ backlog' \in Seq(Clients)
    BY <1>1 DEF Erased
<1>3. ServerOK' /\ Rounds'
    BY <1>1, <1>2 DEF SInv, ServerOK, Rounds, Ended
<1>4. Places'
    BY <1>1, <1>2 DEF Places, Erased
<1>5. Streams'
  <2>1. \A c \in Clients : state'[c] = "out" => state[c] = "out"
      BY <1>1
  <2> QED
      BY <1>1, <1>2, <2>1 DEF SInv, Streams
<1> QED
    BY <1>3, <1>4, <1>5 DEF SInv

\* Every step keeps the invariant.
LEMMA StepKeeps == ASSUME SInv, [ServerNext]_serverVars PROVE SInv'
<1>1. ASSUME NEW c \in Clients, Leave(c) PROVE SInv'
  <2>1. /\ state' = [state EXCEPT ![c] = "left"] /\ state[c] = "in"
        /\ UNCHANGED <<phase, running, ready, gone, accepting, conns, backlog, pipe, sent>>
      BY <1>1 DEF Leave, loopVars
  <2>2. state \in [Clients -> {"out", "in", "left"}]
      BY DEF SInv, ServerOK
  <2>3. /\ state' \in [Clients -> {"out", "in", "left"}]
        /\ \A d \in Clients : state[d] # "out" => state'[d] # "out"
        /\ \A d \in Clients : state'[d] = "out" => state[d] = "out"
      BY <2>1, <2>2
  <2>4. Places' /\ Streams'
      BY <2>1, <2>3, PlacesStay, StreamsStay DEF SInv
  <2> QED
      BY <2>1, <2>3, <2>4 DEF SInv, ServerOK, Rounds
<1>2. ASSUME Listen \/ Select \/ Stop \/ UNCHANGED serverVars \/ \E fd \in ready : EndOfStream(fd)
      PROVE  SInv'
  <2>1. UNCHANGED <<conns, backlog, state, pipe, sent>>
      BY <1>2 DEF Listen, Select, Stop, EndOfStream, serverVars, clientVars
  <2>2. Places' /\ Streams'
      BY <2>1 DEF SInv, Places, Streams
  <2>3. CASE Listen
      BY <2>1, <2>2, <2>3 DEF Listen, SInv, ServerOK, Rounds
  <2>4. CASE Select
      BY <2>1, <2>2, <2>4 DEF Select, SInv, ServerOK, Rounds
  <2>5. CASE Stop
      BY <2>1, <2>2, <2>5 DEF Stop, SInv, ServerOK, Rounds
  <2>6. CASE UNCHANGED serverVars
      BY <2>1, <2>2, <2>6 DEF serverVars, loopVars, SInv, ServerOK, Rounds
  <2>7. ASSUME NEW fd \in ready, EndOfStream(fd) PROVE SInv'
      BY <2>1, <2>2, <2>7 DEF EndOfStream, SInv, ServerOK, Rounds
  <2> QED
      BY <1>2, <2>3, <2>4, <2>5, <2>6, <2>7
<1> QED
    BY <1>1, <1>2, ConnectKeeps, TypeKeeps, AcceptKeeps, ReceiveKeeps, NextRoundKeeps, ReturnKeeps
    DEF ServerNext, Step

----------------------------------------------------------------------------
(* The answers.                                                            *)

\* The actions that say nothing and receive nothing: connections may be closed, and
\* clients leave.
LEMMA AnswersStay ==
    ASSUME SInv, SInv', Answers, UNCHANGED <<pipe, sent, replies>>,
           \A c \in Clients : state'[c] # "left" => state'[c] = state[c],
           \A i \in DOMAIN backlog' : i \in DOMAIN backlog /\ backlog'[i] = backlog[i],
           \A fd \in DOMAIN conns' : fd \in DOMAIN conns /\ conns'[fd] = conns[fd]
    PROVE  Answers'
<1>1. \A c \in Clients : state'[c] = "out" => replies'[c] = << >>
    BY DEF Answers
<1>2. \A i \in DOMAIN backlog' : replies'[backlog'[i]] = << >>
    BY DEF Answers
<1>3. ASSUME NEW fd \in DOMAIN conns', state'[conns'[fd].client] = "in"
      PROVE  UpToDate(sent'[conns'[fd].client], pipe'[conns'[fd].client],
                      conns'[fd].buffer, replies'[conns'[fd].client])
  <2>1. fd \in DOMAIN conns /\ conns'[fd] = conns[fd] /\ conns[fd].client \in Clients
      BY DEF SInv, Places
  <2>2. state[conns[fd].client] = "in"
      BY <1>3, <2>1
  <2> QED
      BY <2>1, <2>2 DEF Answers
<1> QED
    BY <1>1, <1>2, <1>3 DEF Answers

\* Who has just called has said nothing the server knows.
LEMMA ConnectAnswers ==
    ASSUME SInv, Answers, NEW c \in Clients, Connect(c)
    PROVE  Answers'
<1>1. /\ state[c] = "out" /\ state' = [state EXCEPT ![c] = "in"]
      /\ state \in [Clients -> {"out", "in", "left"}]
      /\ UNCHANGED <<conns, pipe, sent, replies>>
      /\ backlog' = Append(backlog, c)
    BY DEF Connect, SInv, ServerOK
<1>2. replies[c] = << >>
    BY <1>1 DEF Answers
<1>3. \A i \in DOMAIN backlog' : replies[backlog'[i]] = << >>
  <2>1. /\ DOMAIN backlog' = 1..Len(backlog) + 1 /\ DOMAIN backlog = 1..Len(backlog)
        /\ Len(backlog) \in Nat /\ backlog'[Len(backlog) + 1] = c
        /\ \A i \in DOMAIN backlog : backlog'[i] = backlog[i]
      BY <1>1 DEF SInv, Places
  <2>2. \A i \in DOMAIN backlog' : i = Len(backlog) + 1 \/ i \in DOMAIN backlog
      BY <2>1
  <2> QED
      BY <1>2, <2>1, <2>2 DEF Answers
<1>4. ASSUME NEW fd \in DOMAIN conns', state'[conns'[fd].client] = "in"
      PROVE  UpToDate(sent'[conns'[fd].client], pipe'[conns'[fd].client],
                      conns'[fd].buffer, replies'[conns'[fd].client])
  <2>1. conns[fd].client \in Clients /\ state[conns[fd].client] # "out"
      BY <1>1 DEF SInv, Places
  <2>2. state[conns[fd].client] = "in"
      BY <1>1, <1>4, <2>1
  <2> QED
      BY <1>1, <2>2 DEF Answers
<1>5. \A d \in Clients : state'[d] = "out" => replies'[d] = << >>
  <2>1. \A d \in Clients : d # c => state'[d] = state[d]
      BY <1>1
  <2> QED
      BY <1>1, <1>2, <2>1 DEF Answers
<1> QED
    BY <1>1, <1>3, <1>4, <1>5 DEF Answers

\* What is typed is not received yet.
LEMMA TypeAnswers ==
    ASSUME SInv, SInv', Answers, NEW c \in Clients, Type(c)
    PROVE  Answers'
<1>1. PICK x \in Seq(Symbols) :
          /\ state[c] = "in"
          /\ pipe' = [pipe EXCEPT ![c] = @ \o x] /\ sent' = [sent EXCEPT ![c] = @ \o x]
  <2>1. c \in Symbols /\ CR \in Symbols /\ LF \in Symbols
      BY DEF Symbols
  <2>2. <<c, LF>> \in Seq(Symbols) /\ <<CR, LF>> \in Seq(Symbols)
      BY <2>1
  <2>3. <<c, CR, LF>> \in Seq(Symbols)
      BY <2>1
  <2>4. <<c>> \in Seq(Symbols)
      BY <2>1
  <2>5. \A x \in Pieces(c) : x \in Seq(Symbols)
      BY <2>2, <2>3, <2>4 DEF Pieces
  <2> QED
      BY <2>5 DEF Type
<1>2. UNCHANGED <<conns, backlog, state, replies>>
    BY DEF Type
<1>3. pipe \in [Clients -> Seq(Symbols)] /\ sent \in [Clients -> Seq(Symbols)]
    BY DEF SInv, Streams
<1>4. /\ pipe'[c] = pipe[c] \o x /\ sent'[c] = sent[c] \o x
      /\ \A d \in Clients : d # c => pipe'[d] = pipe[d] /\ sent'[d] = sent[d]
      /\ pipe[c] \in Seq(Symbols) /\ sent[c] \in Seq(Symbols)
    BY <1>1, <1>3
<1>5. AnswersABeginning(sent[c] \o x, replies[c])
  <2>1. PICK p \in Seq(Symbols), q \in Seq(Symbols) : sent[c] = p \o q /\ replies[c] = Extract(p)
      BY DEF Answers, AnswersABeginning
  <2>2. Regroups(p, q, x) /\ q \o x \in Seq(Symbols)
      BY Regrouped, ConcatProperties
  <2>3. sent[c] \o x = p \o (q \o x)
      BY <2>1, <2>2, Zenon DEF Regroups
  <2> QED
      BY <2>1, <2>2, <2>3 DEF AnswersABeginning
<1>6. \A d \in Clients : AnswersABeginning(sent'[d], replies'[d])
  <2> SUFFICES ASSUME NEW d \in Clients PROVE AnswersABeginning(sent'[d], replies'[d])
      OBVIOUS
  <2>1. CASE d = c
      BY <1>2, <1>4, <1>5, <2>1
  <2>2. CASE d # c
      BY <1>2, <1>4, <2>2 DEF Answers
  <2> QED
      BY <2>1, <2>2
<1>7. ASSUME NEW b, UpToDate(sent[c], pipe[c], b, replies[c])
      PROVE  UpToDate(sent[c] \o x, pipe[c] \o x, b, replies[c])
  <2>1. PICK p \in Seq(Symbols) :
            sent[c] = p \o pipe[c] /\ Cut(p) = [line |-> b, commands |-> replies[c]]
      BY <1>7 DEF UpToDate
  <2>2. Regroups(p, pipe[c], x)
      BY <1>4, Regrouped
  <2>3. sent[c] \o x = p \o (pipe[c] \o x)
      BY <2>1, <2>2, Zenon DEF Regroups
  <2> QED
      BY <2>1, <2>3 DEF UpToDate
<1>8. ASSUME NEW fd \in DOMAIN conns, state[conns[fd].client] = "in"
      PROVE  UpToDate(sent'[conns[fd].client], pipe'[conns[fd].client],
                      conns[fd].buffer, replies[conns[fd].client])
  <2>1. /\ conns[fd].client \in Clients
        /\ UpToDate(sent[conns[fd].client], pipe[conns[fd].client],
                    conns[fd].buffer, replies[conns[fd].client])
      BY <1>8 DEF SInv, Places, Answers
  <2>2. CASE conns[fd].client = c
      BY <1>4, <1>7, <2>1, <2>2
  <2>3. CASE conns[fd].client # c
      BY <1>4, <2>1, <2>3
  <2> QED
      BY <2>2, <2>3
<1> QED
    BY <1>2, <1>6, <1>8 DEF Answers

\* A new connection has an empty buffer, whoever had the descriptor before.
LEMMA AcceptAnswers ==
    ASSUME SInv, SInv', Answers, Accept
    PROVE  Answers'
<1>1. UNCHANGED <<state, pipe, sent, replies>>
    BY DEF Accept, clientVars
<1>2. CASE ~(accepting /\ FreeFds # {})
  <2>1. UNCHANGED <<conns, backlog>>
      BY <1>2 DEF Accept
  <2> QED
      BY <1>1, <2>1, AnswersStay
<1>3. CASE accepting /\ FreeFds # {}
  <2>1. PICK fd :
          conns' = [f \in DOMAIN conns \cup {fd} |->
                       IF f = fd THEN NewConnection(Head(backlog)) ELSE conns[f]]
      BY <1>3 DEF Accept
  <2>2. /\ backlog \in Seq(Clients) /\ backlog # << >> /\ Len(backlog) \in Nat
        /\ DOMAIN backlog = 1..Len(backlog) /\ backlog' = Tail(backlog)
      BY <1>3 DEF Accept, SInv, Rounds, Places
  <2>3. /\ 1 \in DOMAIN backlog /\ Head(backlog) = backlog[1] /\ backlog[1] \in Clients
        /\ \A i \in DOMAIN backlog' : i + 1 \in DOMAIN backlog /\ backlog'[i] = backlog[i + 1]
    <3>1. /\ backlog' \in Seq(Clients) /\ Len(backlog') = Len(backlog) - 1
          /\ \A i \in 1..Len(backlog') : backlog'[i] = backlog[i + 1]
        BY <2>2, HeadTailProperties
    <3>2. DOMAIN backlog' = 1..Len(backlog') /\ Len(backlog) # 0
        BY <2>2, <3>1
    <3> QED
        BY <2>2, <3>1, <3>2
  <2>4. \A i \in DOMAIN backlog' : replies[backlog'[i]] = << >>
      BY <2>3 DEF Answers
  <2>5. UpToDate(sent[backlog[1]], pipe[backlog[1]], << >>, replies[backlog[1]])
    <3>1. /\ sent[backlog[1]] = pipe[backlog[1]] /\ replies[backlog[1]] = << >>
          /\ pipe[backlog[1]] \in Seq(Symbols) /\ << >> \in Seq(Symbols)
        BY <2>3, EmptySeq DEF Answers, SInv, Streams
    <3>2. << >> \o pipe[backlog[1]] = pipe[backlog[1]]
        BY <3>1, ConcatEmptySeq
    <3>3. Cut(<< >>) = [line |-> << >>, commands |-> << >>]
        BY CutEmpty DEF Start
    <3>4. sent[backlog[1]] = << >> \o pipe[backlog[1]]
        BY <3>1, <3>2
    <3> QED
        BY <3>1, <3>3, <3>4 DEF UpToDate
  <2>6. ASSUME NEW f \in DOMAIN conns', state[conns'[f].client] = "in"
        PROVE  UpToDate(sent[conns'[f].client], pipe[conns'[f].client],
                        conns'[f].buffer, replies[conns'[f].client])
    <3>1. CASE f = fd
      <4>1. conns'[f].client = backlog[1] /\ conns'[f].buffer = << >>
          BY <2>1, <2>3, <3>1 DEF NewConnection
      <4> QED
          BY <2>5, <4>1
    <3>2. CASE f # fd
      <4>1. f \in DOMAIN conns /\ conns'[f] = conns[f]
          BY <2>1, <3>2
      <4> QED
          BY <2>6, <4>1 DEF Answers
    <3> QED
        BY <3>1, <3>2
  <2> QED
      BY <1>1, <2>4, <2>6 DEF Answers
<1> QED
    BY <1>2, <1>3

\* What is received and what is answered keep pace.
LEMMA ReceiveAnswers ==
    ASSUME SInv, SInv', Answers, NEW fd \in ready, Receive(fd)
    PROVE  Answers'
<1> DEFINE c == conns[fd].client
           b == conns[fd].buffer
           w == pipe[c]
           s == sent[c]
           r == replies[c]
<1>1. UNCHANGED <<backlog, state, sent>>
    BY DEF Receive
<1>2. PICK n \in 1..Len(w) :
          /\ pipe' = [pipe EXCEPT ![c] = SubSeq(@, n + 1, Len(@))]
          /\ conns' = [conns EXCEPT ![fd].buffer = Rest(b \o SubSeq(w, 1, n))]
          /\ \/ state[c] = "left" /\ replies' = replies
             \/ /\ state[c] # "left"
                /\ replies' = [replies EXCEPT ![c] = @ \o Extract(b \o SubSeq(w, 1, n))]
    BY DEF Receive, Appended
<1>3. fd \in DOMAIN conns /\ c \in Clients /\ b \in Seq(Symbols) /\ state[c] # "out"
    BY DEF SInv, ServerOK, Places
<1>4. /\ w \in Seq(Symbols) /\ s \in Seq(Symbols) /\ r \in Seq(Seq(Symbols))
      /\ state[c] \in {"in", "left"}
    BY <1>3 DEF SInv, ServerOK, Streams, Answers
<1> DEFINE x == SubSeq(w, 1, n)
           q == SubSeq(w, n + 1, Len(w))
<1>5. x \in Seq(Symbols) /\ q \in Seq(Symbols) /\ w = x \o q /\ b \o x \in Seq(Symbols)
  <2>1. n \in 0..Len(w)
      BY <1>4
  <2>2. x \in Seq(Symbols) /\ q \in Seq(Symbols) /\ w = x \o q
      BY <1>4, <2>1, CutInTwo
  <2> QED
      BY <1>3, <2>2, ConcatProperties
<1>6. /\ pipe' = [pipe EXCEPT ![c] = q] /\ conns' = [conns EXCEPT ![fd].buffer = Rest(b \o x)]
      /\ \/ state[c] = "left" /\ replies' = replies
         \/ state[c] = "in" /\ replies' = [replies EXCEPT ![c] = r \o Extract(b \o x)]
    BY <1>2, <1>4
<1> HIDE DEF x, q
<1>7. ASSUME state[c] = "in"
      PROVE  /\ UpToDate(s, q, Rest(b \o x), r \o Extract(b \o x))
             /\ AnswersABeginning(s, r \o Extract(b \o x))
             /\ r \o Extract(b \o x) \in Seq(Seq(Symbols))
  <2>1. PICK p \in Seq(Symbols) : s = p \o w /\ Cut(p) = [line |-> b, commands |-> r]
      BY <1>3, <1>7 DEF Answers, UpToDate
  <2> HIDE DEF c, b, w, s, r
  <2>2. CutsOn(p, x)
      BY <1>5, CutTwice
  <2>3. /\ Cut(p \o x).line = Rest(b \o x)
        /\ Cut(p \o x).commands = r \o Extract(b \o x)
      BY <2>1, <2>2 DEF CutsOn, Rest, Extract
  <2>4. p \o x \in Seq(Symbols)
      BY <1>5, ConcatProperties
  <2>5. Cut(p \o x) = [line |-> Rest(b \o x), commands |-> r \o Extract(b \o x)]
    <3>1. Cut(p \o x) \in Scans
        BY <2>4, CutType
    <3> QED
        BY <2>3, <3>1 DEF Scans
  <2>6. Regroups(p, x, q)
      BY <1>5, Regrouped
  <2>7. s = (p \o x) \o q
      BY <1>5, <2>1, <2>6, Zenon DEF Regroups
  <2>8. Cut(p \o x).commands \in Seq(Seq(Symbols))
      BY <2>4, CutType DEF Scans
  <2>9. r \o Extract(b \o x) = Extract(p \o x)
      BY <2>3 DEF Extract
  <2> QED
      BY <1>5, <2>3, <2>4, <2>5, <2>7, <2>8, <2>9 DEF UpToDate, AnswersABeginning
<1>8. replies \in [Clients -> Seq(Seq(Symbols))]
    BY DEF Answers
<1>9. replies' \in [Clients -> Seq(Seq(Symbols))]
  <2> HIDE DEF c, b, w, s, r
  <2> QED
      BY <1>6, <1>7, <1>8
<1>10. /\ \A d \in Clients : d # c => replies'[d] = replies[d] /\ pipe'[d] = pipe[d]
       /\ pipe'[c] = q
       /\ state[c] = "left" => replies'[c] = r
       /\ state[c] = "in" => replies'[c] = r \o Extract(b \o x)
  <2>1. pipe \in [Clients -> Seq(Symbols)]
      BY DEF SInv, Streams
  <2>2. replies[c] = r
      OBVIOUS
  <2> HIDE DEF c, b, w, s, r
  <2> QED
      BY <1>3, <1>6, <1>8, <2>1, <2>2
<1>11. /\ DOMAIN conns' = DOMAIN conns /\ conns'[fd].buffer = Rest(b \o x)
       /\ \A f \in DOMAIN conns : conns'[f].client = conns[f].client
       /\ \A f \in DOMAIN conns : f # fd => conns'[f].buffer = conns[f].buffer
  <2>1. conns \in [DOMAIN conns -> [client : Clients, buffer : Seq(Symbols)]]
      BY DEF SInv, Places
  <2> HIDE DEF c, b
  <2> QED
      BY <1>3, <1>6, <2>1
<1>12. \A d \in Clients : AnswersABeginning(sent'[d], replies'[d])
  <2> SUFFICES ASSUME NEW d \in Clients PROVE AnswersABeginning(sent[d], replies'[d])
      BY <1>1
  <2>1. AnswersABeginning(sent[d], replies[d])
      BY DEF Answers
  <2>2. CASE d # c
      BY <1>10, <2>1, <2>2
  <2>3. CASE d = c /\ state[c] = "left"
      BY <1>10, <2>1, <2>3
  <2>4. CASE d = c /\ state[c] = "in"
    <3>1. AnswersABeginning(s, r \o Extract(b \o x)) /\ replies'[c] = r \o Extract(b \o x)
        BY <1>7, <1>10, <2>4
    <3> QED
        BY <2>4, <3>1
  <2> QED
      BY <1>4, <2>2, <2>3, <2>4
<1>13. \A d \in Clients : state'[d] = "out" => replies'[d] = << >>
    BY <1>1, <1>3, <1>10 DEF Answers
<1>14. \A i \in DOMAIN backlog' : replies'[backlog'[i]] = << >>
  <2>1. \A i \in DOMAIN backlog : backlog[i] \in Clients /\ backlog[i] # c
      BY <1>3 DEF SInv, Places, ServerOK
  <2> HIDE DEF c
  <2> QED
      BY <1>1, <1>10, <2>1 DEF Answers
<1>15. ASSUME NEW f \in DOMAIN conns, state[conns[f].client] = "in"
       PROVE  UpToDate(sent[conns[f].client], pipe'[conns[f].client],
                       conns'[f].buffer, replies'[conns[f].client])
  <2>1. CASE f = fd
    <3>1. UpToDate(s, q, Rest(b \o x), r \o Extract(b \o x))
        BY <1>7, <1>15, <2>1
    <3>2. pipe'[c] = q /\ conns'[fd].buffer = Rest(b \o x) /\ replies'[c] = r \o Extract(b \o x)
        BY <1>10, <1>11, <1>15, <2>1
    <3>3. UpToDate(s, pipe'[c], conns'[fd].buffer, replies'[c])
        BY <3>1, <3>2
    <3> QED
        BY <2>1, <3>3
  <2>2. CASE f # fd
    <3>1. conns[f].client # c /\ conns[f].client \in Clients
        BY <1>3, <2>2 DEF SInv, ServerOK, Places
    <3>2. UpToDate(sent[conns[f].client], pipe[conns[f].client],
                   conns[f].buffer, replies[conns[f].client])
        BY <1>15 DEF Answers
    <3>3. /\ pipe'[conns[f].client] = pipe[conns[f].client]
          /\ replies'[conns[f].client] = replies[conns[f].client]
          /\ conns'[f].buffer = conns[f].buffer
        BY <1>10, <1>11, <2>2, <3>1
    <3> QED
        BY <3>2, <3>3
  <2> QED
      BY <2>1, <2>2
<1>16. \A f \in DOMAIN conns' :
          state'[conns'[f].client] = "in" =>
              UpToDate(sent'[conns'[f].client], pipe'[conns'[f].client],
                       conns'[f].buffer, replies'[conns'[f].client])
    BY <1>1, <1>11, <1>15
<1> QED
    BY <1>9, <1>12, <1>13, <1>14, <1>16 DEF Answers

\* Every step keeps the answers right.
LEMMA StepAnswers == ASSUME SInv, SInv', Answers, [ServerNext]_serverVars PROVE Answers'
<1>1. ASSUME \/ Listen \/ Select \/ Stop \/ NextRound \/ Return \/ UNCHANGED serverVars
             \/ \E fd \in ready : EndOfStream(fd)
             \/ \E c \in Clients : Leave(c)
      PROVE  Answers'
  <2>1. UNCHANGED <<pipe, sent, replies>>
      BY <1>1 DEF Listen, Select, Stop, NextRound, Return, EndOfStream, Leave, serverVars, clientVars
  <2>2. \A c \in Clients : state'[c] # "left" => state'[c] = state[c]
    <3>1. state \in [Clients -> {"out", "in", "left"}]
        BY DEF SInv, ServerOK
    <3>2. CASE Return
        BY <3>2 DEF Return
    <3>3. ASSUME NEW d \in Clients, Leave(d)
          PROVE  \A c \in Clients : state'[c] # "left" => state'[c] = state[c]
        BY <3>1, <3>3 DEF Leave
    <3>4. CASE \/ Listen \/ Select \/ Stop \/ NextRound \/ UNCHANGED serverVars
               \/ \E fd \in ready : EndOfStream(fd)
        BY <3>4 DEF Listen, Select, Stop, NextRound, EndOfStream, serverVars, clientVars
    <3> QED
        BY <1>1, <3>2, <3>3, <3>4
  <2>3. \A i \in DOMAIN backlog' : i \in DOMAIN backlog /\ backlog'[i] = backlog[i]
    <3>1. CASE Return
      <4>1. backlog' = << >>
          BY <3>1 DEF Return
      <4>2. DOMAIN backlog' = {}
          BY <4>1
      <4> QED
          BY <4>2
    <3>2. CASE ~Return
        BY <1>1, <3>2 DEF Listen, Select, Stop, NextRound, EndOfStream, Leave, serverVars
    <3> QED
        BY <3>1, <3>2
  <2>4. \A fd \in DOMAIN conns' : fd \in DOMAIN conns /\ conns'[fd] = conns[fd]
    <3>1. CASE Return \/ NextRound
      <4>1. \E fds : conns' = Erased(fds)
          BY <3>1 DEF Return, NextRound
      <4> QED
          BY <4>1 DEF Erased
    <3>2. CASE ~(Return \/ NextRound)
        BY <1>1, <3>2 DEF Listen, Select, Stop, EndOfStream, Leave, serverVars
    <3> QED
        BY <3>1, <3>2
  <2> QED
      BY <2>1, <2>2, <2>3, <2>4, AnswersStay
<1> QED
    BY <1>1, ConnectAnswers, TypeAnswers, AcceptAnswers, ReceiveAnswers DEF ServerNext, Step

\* A server that nobody has called yet has it.
LEMMA InitHolds == ServerInit => SInv
<1> SUFFICES ASSUME ServerInit PROVE SInv
    OBVIOUS
<1>1. << >> \in Seq(Symbols) /\ << >> \in Seq(Clients)
    BY EmptySeq
<1>2. DOMAIN conns = {} /\ DOMAIN backlog = {}
    BY DEF ServerInit
<1>3. ServerOK /\ Rounds
    BY <1>2 DEF ServerInit, ServerOK, Rounds
<1>4. Places
    BY <1>1, <1>2 DEF ServerInit, Places
<1>5. Streams
    BY <1>1, <1>2 DEF ServerInit, Streams
<1> QED
    BY <1>3, <1>4, <1>5 DEF SInv

\* Nor has anybody been answered.
LEMMA InitAnswers == ServerInit => Answers
<1> SUFFICES ASSUME ServerInit PROVE Answers
    OBVIOUS
<1>1. << >> \in Seq(Symbols) /\ << >> \in Seq(Seq(Symbols)) /\ Extract(<< >>) = << >>
    BY EmptySeq, CutEmpty DEF Extract, Start
<1>2. << >> = << >> \o << >>
    BY <1>1, ConcatEmptySeq
<1>3. AnswersABeginning(<< >>, << >>)
    BY <1>1, <1>2 DEF AnswersABeginning
<1>4. DOMAIN conns = {} /\ DOMAIN backlog = {}
    BY DEF ServerInit
<1> QED
    BY <1>1, <1>3, <1>4 DEF ServerInit, Answers

\* Both hold throughout.
LEMMA SInvHolds == ServerSpec => [](SInv /\ Answers)
<1>1. ServerInit => SInv /\ Answers
    BY InitHolds, InitAnswers
<1>2. SInv /\ Answers /\ [ServerNext]_serverVars => SInv' /\ Answers'
    BY StepKeeps, StepAnswers
<1> QED
    BY <1>1, <1>2, PTL DEF ServerSpec

\* start(), accept_connection() and handle_client() never mix up two connections: a
\* descriptor that is reported, or about to be closed, is one of a connection, a client has one
\* connection or none, and a descriptor handed out again is nobody else's.
THEOREM OneConnectionEach == ServerSpec => []ServerOK
<1>1. SInv => ServerOK
    BY DEF SInv
<1> QED
    BY <1>1, SInvHolds, PTL

\* However recv() cuts it, and whoever had the descriptor before, nothing of a client's
\* stream is lost, doubled or put in another place between the socket and the commands.
THEOREM NothingLost == ServerSpec => []StreamWhole
<1>1. SInv => StreamWhole
  <2> SUFFICES ASSUME SInv, NEW fd \in DOMAIN conns
               PROVE  LET c == conns[fd].client
                          left == conns[fd].buffer \o pipe[c]
                      IN  /\ Len(left) <= Len(sent[c])
                          /\ left = SubSeq(sent[c], Len(sent[c]) - Len(left) + 1, Len(sent[c]))
      BY DEF StreamWhole
  <2> DEFINE c == conns[fd].client
             b == conns[fd].buffer
             s == sent[c]
             l == b \o pipe[c]
  <2>1. c \in Clients /\ b \in Seq(Symbols)
      BY DEF SInv, Places
  <2>2. s \in Seq(Symbols) /\ pipe[c] \in Seq(Symbols) /\ EndsWith(s, l)
      BY <2>1 DEF SInv, Streams
  <2>3. l \in Seq(Symbols)
      BY <2>1, <2>2, ConcatProperties
  <2> HIDE DEF c, b, s, l
  <2>4. PICK p \in Seq(Symbols) : s = p \o l
      BY <2>2 DEF EndsWith
  <2>5. /\ Len(s) = Len(p) + Len(l) /\ Len(p) \in Nat /\ Len(l) \in Nat
        /\ \A i \in 1..Len(l) : s[Len(p) + i] = l[i]
    <3>1. Len(p) \in Nat /\ Len(l) \in Nat
        BY <2>3
    <3>2. /\ Len(p \o l) = Len(p) + Len(l)
          /\ \A i \in 1..Len(p) + Len(l) :
                (p \o l)[i] = IF i <= Len(p) THEN p[i] ELSE l[i - Len(p)]
        BY <2>3, ConcatProperties
    <3>3. ASSUME NEW i \in 1..Len(l) PROVE s[Len(p) + i] = l[i]
      <4>1. Len(p) + i \in 1..Len(p) + Len(l) /\ ~(Len(p) + i <= Len(p)) /\ (Len(p) + i) - Len(p) = i
          BY <3>1
      <4> QED
          BY <2>4, <3>2, <4>1
    <3> QED
        BY <2>4, <3>1, <3>2, <3>3
  <2>6. Len(s) - Len(l) + 1 = Len(p) + 1 /\ Len(l) <= Len(s)
      BY <2>5
  <2>7. l = SubSeq(s, Len(p) + 1, Len(s))
    <3> DEFINE e == SubSeq(s, Len(p) + 1, Len(s))
    <3>1. /\ Len(p) + 1 \in Int /\ Len(s) \in Int /\ Len(s) - (Len(p) + 1) + 1 = Len(l)
          /\ \A i \in (Len(p) + 1)..Len(s) : s[i] \in Symbols
        BY <2>2, <2>5
    <3>2. /\ e \in Seq(Symbols)
          /\ Len(e) = IF Len(p) + 1 <= Len(s) THEN Len(s) - (Len(p) + 1) + 1 ELSE 0
          /\ \A i \in 1..Len(s) - (Len(p) + 1) + 1 : e[i] = s[(Len(p) + 1) + i - 1]
        BY <3>1, SubSeqProperties
    <3> HIDE DEF e
    <3>3. Len(e) = Len(l)
        BY <2>5, <3>2
    <3>4. ASSUME NEW i \in 1..Len(l) PROVE e[i] = l[i]
      <4>1. (Len(p) + 1) + i - 1 = Len(p) + i
          BY <2>5
      <4> QED
          BY <2>5, <3>1, <3>2, <4>1
    <3> QED
        BY <2>3, <3>2, <3>3, <3>4, SeqEqual DEF e
  <2> QED
      BY <2>6, <2>7 DEF c, b, s, l
<1> QED
    BY <1>1, SInvHolds, PTL

\* However its stream was cut by recv(), and whoever had the descriptor before, each client
\* is answered exactly for the commands at the beginning of what it sent, each once and in
\* their order.
THEOREM OwnAnswersOnly == ServerSpec => []AnswersOwnCommands
<1>1. SInv /\ Answers => AnswersOwnCommands
  <2> SUFFICES ASSUME SInv, Answers, NEW c \in Clients
               PROVE  \E n \in 0..Len(sent[c]) : replies[c] = Extract(SubSeq(sent[c], 1, n))
      BY DEF AnswersOwnCommands
  <2>1. PICK p \in Seq(Symbols), q \in Seq(Symbols) : sent[c] = p \o q /\ replies[c] = Extract(p)
      BY DEF Answers, AnswersABeginning
  <2>2. Len(sent[c]) = Len(p) + Len(q) /\ Len(p) \in Nat /\ Len(q) \in Nat
      BY <2>1, ConcatProperties
  <2>3. SubSeq(sent[c], 1, Len(p)) = p
    <3> DEFINE e == SubSeq(sent[c], 1, Len(p))
    <3>1. \A i \in 1..Len(p) : sent[c][i] = p[i] /\ p[i] \in Symbols
      <4>1. \A i \in 1..Len(p) + Len(q) : (p \o q)[i] = IF i <= Len(p) THEN p[i] ELSE q[i - Len(p)]
          BY ConcatProperties
      <4> QED
          BY <2>1, <2>2, <4>1
    <3>2. /\ e \in Seq(Symbols) /\ Len(e) = IF 1 <= Len(p) THEN Len(p) - 1 + 1 ELSE 0
          /\ \A i \in 1..Len(p) - 1 + 1 : e[i] = sent[c][1 + i - 1]
        BY <2>2, <3>1, SubSeqProperties
    <3> HIDE DEF e
    <3>3. Len(e) = Len(p) /\ \A i \in 1..Len(e) : e[i] = p[i]
        BY <2>2, <3>1, <3>2
    <3> QED
        BY <3>2, <3>3, SeqEqual DEF e
  <2>4. Len(p) \in 0..Len(sent[c])
      BY <2>2
  <2>5. replies[c] = Extract(SubSeq(sent[c], 1, Len(p)))
      BY <2>1, <2>3
  <2> QED
      BY <2>4, <2>5
<1> QED
    BY <1>1, SInvHolds, PTL
=============================================================================
