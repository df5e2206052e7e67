--------------------------- MODULE SessionsProofs ---------------------------
(***************************************************************************)
(* Theorems about Sessions, for any lines and any number of them: which    *)
(* answer an HTTP request gets, and that whatever clients, time-outs and   *)
(* restarts do is, seen from the dictionary, one command after another.    *)
(***************************************************************************)
EXTENDS Sessions, Recursion

Parsed     == {Parse(line) : line \in Lines}
Requests   == [n : Nat, cmd : Parsed]
AllPieces  == [n : Nat, part : {1, 2}, of : {1, 2}]
Ends       == {"live", "closed", "reset"}
Connections == [inp : Seq(Requests), out : Seq(AllPieces), open : BOOLEAN, end : Ends]
Results    == [status : {"answer", "error", "empty"}, pieces : Seq(AllPieces)]
Benching   == [conn : Nat, n : Nat, done : Nat, rounds : Int]

\* Connections and the rounds of BENCH have their types.
ConnsTyped(cs) == cs \in [DOMAIN cs -> Connections] /\ DOMAIN cs \subseteq Nat
BenchTyped(b) ==
    b = NONE \/ /\ b \in Benching
                /\ \A i \in 0..b.rounds - 1 : BenchKey(i) \in Keys /\ BenchValue(i) \in UserValues

\* The end of the process reached every connection it had.
EndsSeen(cs, running) ==
    \A c \in DOMAIN cs : /\ cs[c].end # "live" => cs[c].inp = << >>
                         /\ ~running => cs[c].end # "live"

\* On a connection of the bridge there is one request: unread, under way as BENCH
\* or answered; and the answer begins with its first piece.
Once(c, conn, b) ==
    /\ \A i \in DOMAIN conn.inp : i = 1 /\ conn.inp[i].n = c
    /\ \A i \in DOMAIN conn.out : conn.out[i].n = c /\ conn.out[i].part = i
    /\ conn.inp # << >> => conn.out = << >>
    /\ (b # NONE /\ b.conn = c) => conn.inp = << >> /\ conn.out = << >>
AllOnce(cs, b) == \A c \in DOMAIN cs \ {Cli} : Once(c, cs[c], b)

\* The connections there have been: the command line's, and one for each request
\* that the bridge took up.
OpenedUpTo == Len(told) + IF bridge = "recv" THEN 1 ELSE 0
BenchNumbered ==
    bench # NONE => /\ bench.conn <= OpenedUpTo
                    /\ bench.conn # Cli => bench.n = bench.conn

ClientsOK ==
    /\ cli \in {"idle", "recv", "ended"} /\ bridge \in {"idle", "recv"}
    /\ shown \in Seq(Results) /\ told \in Seq(Results) /\ posted \in Seq(Lines)
    /\ bridge = "recv" => posted # << >>
    /\ Len(told) + Len(posted) <= MaxPosted

\* Who waits has a connection.
Waiting ==
    /\ cli # "ended" => Cli \in DOMAIN conns /\ conns[Cli].open
    /\ bridge = "recv" => Current \in DOMAIN conns /\ conns[Current].open

\* The inductive invariant.
SInv ==
    /\ now \in Nat /\ up \in BOOLEAN /\ (bench # NONE => up)
    /\ ConnsTyped(conns) /\ BenchTyped(bench)
    /\ EndsSeen(conns, up)
    /\ AllOnce(conns, bench)
    /\ \A c \in DOMAIN conns : c <= OpenedUpTo
    /\ BenchNumbered
    /\ ClientsOK /\ Waiting
    /\ BridgeAnswersOwn

----------------------------------------------------------------------------
(* Helpers of the model.                                                   *)

\* Forgetting connections changes none of those that are kept, and keeps the open ones.
LEMMA ReapedIs ==
    ASSUME NEW cs
    PROVE  /\ DOMAIN Reaped(cs) \subseteq DOMAIN cs
           /\ \A c \in DOMAIN Reaped(cs) : Reaped(cs)[c] = cs[c]
           /\ \A c \in DOMAIN cs : cs[c].open => c \in DOMAIN Reaped(cs)
    BY DEF Reaped

\* What holds of every connection holds of those that are kept.
LEMMA ReapedKeeps ==
    ASSUME NEW cs, ConnsTyped(cs), NEW u, EndsSeen(cs, u), NEW b, AllOnce(cs, b)
    PROVE  ConnsTyped(Reaped(cs)) /\ EndsSeen(Reaped(cs), u) /\ AllOnce(Reaped(cs), b)
<1> DEFINE rs == Reaped(cs)
<1>1. /\ DOMAIN rs \subseteq DOMAIN cs
      /\ \A c \in DOMAIN rs : rs[c] = cs[c]
    BY ReapedIs
<1>2. rs = [c \in DOMAIN rs |-> rs[c]]
    BY DEF Reaped
<1> HIDE DEF rs
<1>3. ConnsTyped(rs)
    BY <1>1, <1>2 DEF ConnsTyped
<1>4. EndsSeen(rs, u) /\ AllOnce(rs, b)
    BY <1>1 DEF EndsSeen, AllOnce
<1> QED
    BY <1>3, <1>4 DEF rs

\* One connection changes.
LEMMA OneChanges ==
    ASSUME NEW cs, ConnsTyped(cs), NEW u, EndsSeen(cs, u), NEW b, NEW c \in DOMAIN cs,
           NEW conn \in Connections,
           \A d \in DOMAIN cs \ {Cli} : d # c => Once(d, cs[d], b),
           c # Cli => Once(c, conn, b),
           conn.end # "live" => conn.inp = << >>, ~u => conn.end # "live",
           NEW ds, ds = [cs EXCEPT ![c] = conn]
    PROVE  ConnsTyped(ds) /\ EndsSeen(ds, u) /\ AllOnce(ds, b)
<1>1. /\ DOMAIN ds = DOMAIN cs /\ ds[c] = conn
      /\ \A d \in DOMAIN cs : d # c => ds[d] = cs[d]
      /\ ds \in [DOMAIN ds -> Connections]
    BY DEF ConnsTyped
<1>2. ConnsTyped(ds)
    BY <1>1 DEF ConnsTyped
<1>3. EndsSeen(ds, u)
    BY <1>1 DEF EndsSeen
<1>4. AllOnce(ds, b)
    BY <1>1 DEF AllOnce
<1> QED
    BY <1>2, <1>3, <1>4

\* One recv() takes a first part of what is there, and leaves the rest.
LEMMA ReceivedIs ==
    ASSUME NEW s \in Seq(AllPieces), s # << >>
    PROVE  /\ Received(s) \in Seq(AllPieces) /\ Unread(s) \in Seq(AllPieces)
           /\ Len(Received(s)) \in 1..Len(s)
           /\ \A i \in DOMAIN Received(s) : i \in DOMAIN s /\ Received(s)[i] = s[i]
<1>1. /\ Len(s) \in Nat /\ 1 <= Len(s) /\ DOMAIN s = 1..Len(s)
      /\ \A i \in 1..Len(s) : s[i] \in AllPieces
    OBVIOUS
<1>2. PICK m \in 1..Len(s) :
          /\ Received(s) \in Seq(AllPieces) /\ Len(Received(s)) = m
          /\ \A i \in 1..m : Received(s)[i] = s[i]
  <2>1. CASE ~ \E i \in DOMAIN s : Fills(s[i])
    <3>1. Received(s) = s
        BY <2>1 DEF Received
    <3>2. Len(s) \in 1..Len(s)
        BY <1>1
    <3>3. Received(s) \in Seq(AllPieces) /\ Len(Received(s)) = Len(s)
        BY <3>1
    <3>4. \A i \in 1..Len(s) : Received(s)[i] = s[i]
        BY <3>1
    <3> QED
        BY <3>2, <3>3, <3>4
  <2>2. CASE \E i \in DOMAIN s : Fills(s[i])
    <3> DEFINE T == {i \in DOMAIN s : Fills(s[i])}
               IsFirst(i) == Fills(s[i]) /\ \A j \in 1..i - 1 : ~Fills(s[j])
               m == CHOOSE i \in DOMAIN s : IsFirst(i)
    <3>1. PICK t \in T : \A i \in T : t <= i
      <4>1. T \in SUBSET Nat /\ T # {}
          BY <1>1, <2>2
      <4> HIDE DEF T
      <4> QED
          BY <4>1, LeastExists
    <3>2. t \in DOMAIN s /\ IsFirst(t)
      <4>1. ASSUME NEW j \in 1..t - 1 PROVE ~Fills(s[j])
        <5>1. j \in DOMAIN s /\ ~ (t <= j)
            BY <1>1, <3>1
        <5> QED
            BY <5>1, <3>1
      <4> QED
          BY <4>1
    <3>3. m \in DOMAIN s
        BY <3>2
    <3>4. Received(s) = SubSeq(s, 1, m)
        BY <2>2 DEF Received
    <3> HIDE DEF m
    <3>5. /\ m \in Int /\ 1 \in Int /\ m \in 1..Len(s)
          /\ \A i \in 1..m : s[i] \in AllPieces
        BY <1>1, <3>3
    <3>6. /\ SubSeq(s, 1, m) \in Seq(AllPieces)
          /\ Len(SubSeq(s, 1, m)) = IF 1 <= m THEN m - 1 + 1 ELSE 0
          /\ \A i \in 1..m - 1 + 1 : SubSeq(s, 1, m)[i] = s[1 + i - 1]
        BY <3>5, SubSeqProperties
    <3>7. Len(SubSeq(s, 1, m)) = m /\ \A i \in 1..m : SubSeq(s, 1, m)[i] = s[i]
        BY <3>5, <3>6
    <3> QED
        BY <3>4, <3>5, <3>6, <3>7
  <2> QED
      BY <2>1, <2>2
<1>3. Unread(s) \in Seq(AllPieces)
  <2>1. Unread(s) = SubSeq(s, m + 1, Len(s))
      BY <1>2 DEF Unread
  <2>2. m + 1 \in Int /\ Len(s) \in Int /\ \A i \in (m + 1)..Len(s) : s[i] \in AllPieces
      BY <1>1
  <2> QED
      BY <2>1, <2>2, SubSeqProperties
<1> QED
    BY <1>1, <1>2, <1>3

\* An answer is one piece or two, numbered.
LEMMA PiecesAre ==
    ASSUME NEW n \in Nat, NEW count \in {1, 2}
    PROVE  /\ Pieces(n, count) \in Seq(AllPieces)
           /\ \A i \in DOMAIN Pieces(n, count) :
                 Pieces(n, count)[i].n = n /\ Pieces(n, count)[i].part = i
<1>1. \A i \in 1..count : [n |-> n, part |-> i, of |-> count] \in AllPieces
    BY DEF AllPieces
<1>2. DOMAIN Pieces(n, count) = 1..count
    BY DEF Pieces
<1>3. Pieces(n, count) \in [1..count -> AllPieces]
    BY <1>1 DEF Pieces
<1>4. Pieces(n, count) \in Seq(AllPieces)
    BY <1>3
<1> QED
    BY <1>2, <1>4 DEF Pieces

\* What a closed connection leaves.
LEMMA ClosedKeeps ==
    ASSUME NEW cs, ConnsTyped(cs), NEW u, EndsSeen(cs, u), NEW b, AllOnce(cs, b),
           NEW c \in DOMAIN cs
    PROVE  /\ ConnsTyped(Closed(cs, c)) /\ EndsSeen(Closed(cs, c), u) /\ AllOnce(Closed(cs, c), b)
           /\ DOMAIN Closed(cs, c) \subseteq DOMAIN cs
           /\ \A d \in DOMAIN cs : d # c /\ cs[d].open
                                   => d \in DOMAIN Closed(cs, c) /\ Closed(cs, c)[d].open
<1> DEFINE conn == [cs[c] EXCEPT !.open = FALSE]
           ds == [cs EXCEPT ![c].open = FALSE]
<1>1. cs \in [DOMAIN cs -> Connections] /\ cs[c] \in Connections
    BY DEF ConnsTyped
<1>2. conn \in Connections /\ conn.inp = cs[c].inp /\ conn.out = cs[c].out /\ conn.end = cs[c].end
    BY <1>1 DEF Connections
<1>3. ds = [cs EXCEPT ![c] = conn]
    OBVIOUS
<1>4. c # Cli => Once(c, conn, b)
  <2>1. c # Cli => Once(c, cs[c], b)
      BY DEF AllOnce
  <2> HIDE DEF conn
  <2> QED
      BY <1>2, <2>1 DEF Once
<1>5. /\ conn.end # "live" => conn.inp = << >>
      /\ ~u => conn.end # "live"
    BY <1>2 DEF EndsSeen
<1> HIDE DEF conn, ds
<1>6. ConnsTyped(ds) /\ EndsSeen(ds, u) /\ AllOnce(ds, b)
  <2>1. \A d \in DOMAIN cs \ {Cli} : d # c => Once(d, cs[d], b)
      BY DEF AllOnce
  <2> QED
      BY <1>2, <1>3, <1>4, <1>5, <2>1, OneChanges
<1>7. DOMAIN ds = DOMAIN cs /\ \A d \in DOMAIN cs : d # c => ds[d] = cs[d]
    BY <1>1, <1>3
<1>8. Closed(cs, c) = Reaped(ds)
    BY DEF Closed, ds
<1>9. ConnsTyped(Reaped(ds)) /\ EndsSeen(Reaped(ds), u) /\ AllOnce(Reaped(ds), b)
    BY <1>6, ReapedKeeps
<1>10. /\ DOMAIN Reaped(ds) \subseteq DOMAIN ds
       /\ \A d \in DOMAIN Reaped(ds) : Reaped(ds)[d] = ds[d]
       /\ \A d \in DOMAIN ds : ds[d].open => d \in DOMAIN Reaped(ds)
    BY ReapedIs
<1> QED
    BY <1>7, <1>8, <1>9, <1>10

\* An answer comes into a connection that owes one, or goes nowhere.
LEMMA SendKeeps ==
    ASSUME NEW cs, ConnsTyped(cs), NEW u, EndsSeen(cs, u), AllOnce(cs, NONE),
           NEW c \in Nat, NEW pieces \in Seq(AllPieces),
           c \in DOMAIN cs /\ c # Cli =>
               /\ cs[c].inp = << >> /\ cs[c].out = << >>
               /\ \A i \in DOMAIN pieces : pieces[i].n = c /\ pieces[i].part = i
    PROVE  /\ ConnsTyped(Send(cs, c, pieces)) /\ EndsSeen(Send(cs, c, pieces), u)
           /\ AllOnce(Send(cs, c, pieces), NONE)
           /\ DOMAIN Send(cs, c, pieces) \subseteq DOMAIN cs
           /\ \A d \in DOMAIN cs : cs[d].open => /\ d \in DOMAIN Send(cs, c, pieces)
                                                 /\ Send(cs, c, pieces)[d].open
<1>1. CASE ~(c \in DOMAIN cs /\ cs[c].open)
  <2>1. Send(cs, c, pieces) = Reaped(cs)
      BY <1>1 DEF Send
  <2>2. ConnsTyped(Reaped(cs)) /\ EndsSeen(Reaped(cs), u) /\ AllOnce(Reaped(cs), NONE)
      BY ReapedKeeps
  <2>3. /\ DOMAIN Reaped(cs) \subseteq DOMAIN cs
        /\ \A d \in DOMAIN Reaped(cs) : Reaped(cs)[d] = cs[d]
        /\ \A d \in DOMAIN cs : cs[d].open => d \in DOMAIN Reaped(cs)
      BY ReapedIs
  <2> QED
      BY <2>1, <2>2, <2>3
<1>2. CASE c \in DOMAIN cs /\ cs[c].open
  <2> DEFINE conn == [cs[c] EXCEPT !.out = @ \o pieces]
             ds == [cs EXCEPT ![c].out = @ \o pieces]
  <2>1. cs \in [DOMAIN cs -> Connections] /\ cs[c] \in Connections
      BY <1>2 DEF ConnsTyped
  <2>2. cs[c].out \in Seq(AllPieces)
      BY <2>1 DEF Connections
  <2>3. cs[c].out \o pieces \in Seq(AllPieces)
      BY <2>2, ConcatProperties
  <2>4. /\ conn \in Connections /\ conn.inp = cs[c].inp /\ conn.out = cs[c].out \o pieces
        /\ conn.open = cs[c].open /\ conn.end = cs[c].end
      BY <2>1, <2>3 DEF Connections
  <2>5. ds = [cs EXCEPT ![c] = conn] /\ Send(cs, c, pieces) = ds
      BY <1>2 DEF Send
  <2> HIDE DEF conn, ds
  <2>6. c # Cli => Once(c, conn, NONE)
    <3>1. c # Cli => conn.out = pieces
      <4>1. << >> \o pieces = pieces
          BY ConcatEmptySeq
      <4> QED
          BY <1>2, <2>4, <4>1
    <3> QED
        BY <1>2, <2>4, <3>1 DEF Once
  <2>7. /\ conn.end # "live" => conn.inp = << >>
        /\ ~u => conn.end # "live"
      BY <1>2, <2>4 DEF EndsSeen
  <2>8. \A d \in DOMAIN cs \ {Cli} : d # c => Once(d, cs[d], NONE)
      BY DEF AllOnce
  <2>9. ConnsTyped(ds) /\ EndsSeen(ds, u) /\ AllOnce(ds, NONE)
    <3>1. conn \in Connections /\ ds = [cs EXCEPT ![c] = conn] /\ c \in DOMAIN cs
        BY <1>2, <2>4, <2>5
    <3> QED
        BY <2>6, <2>7, <2>8, <3>1, OneChanges
  <2>10. DOMAIN ds = DOMAIN cs /\ \A d \in DOMAIN cs : ds[d].open = cs[d].open
      BY <2>1, <2>4, <2>5
  <2> QED
      BY <2>5, <2>9, <2>10
<1> QED
    BY <1>1, <1>2

\* The death of the process is seen on every connection.
LEMMA DiesKeeps ==
    ASSUME NEW cs, ConnsTyped(cs), NEW b, AllOnce(cs, b), NEW served, Dies(cs, served)
    PROVE  /\ ConnsTyped(conns') /\ EndsSeen(conns', FALSE) /\ AllOnce(conns', NONE)
           /\ DOMAIN conns' \subseteq DOMAIN cs
           /\ \A d \in DOMAIN cs : cs[d].open => d \in DOMAIN conns' /\ conns'[d].open
<1> DEFINE conn(c, read) ==
               [cs[c] EXCEPT !.inp = << >>,
                             !.end = IF @ # "live" THEN @
                                     ELSE IF cs[c].inp = << >> \/ c = read THEN "closed" ELSE "reset"]
<1>1. PICK read \in served \cup {NONE} : conns' = Reaped([c \in DOMAIN cs |-> conn(c, read)])
    BY DEF Dies
<1> DEFINE ds == [c \in DOMAIN cs |-> conn(c, read)]
<1>2. cs \in [DOMAIN cs -> Connections] /\ DOMAIN cs \subseteq Nat
    BY DEF ConnsTyped
<1>3. \A c \in DOMAIN cs :
         /\ ds[c] \in Connections /\ ds[c].inp = << >> /\ ds[c].out = cs[c].out
         /\ ds[c].open = cs[c].open /\ ds[c].end # "live"
  <2> SUFFICES ASSUME NEW c \in DOMAIN cs
               PROVE  /\ conn(c, read) \in Connections /\ conn(c, read).inp = << >>
                      /\ conn(c, read).out = cs[c].out
                      /\ conn(c, read).open = cs[c].open /\ conn(c, read).end # "live"
      OBVIOUS
  <2>1. cs[c] \in Connections /\ << >> \in Seq(Requests)
      BY <1>2, EmptySeq
  <2> QED
      BY <2>1 DEF Connections, Ends
<1>4. DOMAIN ds = DOMAIN cs /\ ds \in [DOMAIN cs -> Connections]
    BY <1>3
<1>5. conns' = Reaped(ds)
    BY <1>1
<1> HIDE DEF ds
<1>6. ConnsTyped(ds) /\ EndsSeen(ds, FALSE)
    BY <1>2, <1>3, <1>4 DEF ConnsTyped, EndsSeen
<1>7. AllOnce(ds, NONE)
  <2> SUFFICES ASSUME NEW c \in DOMAIN cs \ {Cli} PROVE Once(c, ds[c], NONE)
      BY <1>4 DEF AllOnce
  <2>1. Once(c, cs[c], b)
      BY DEF AllOnce
  <2> QED
      BY <1>3, <2>1 DEF Once
<1>8. ConnsTyped(Reaped(ds)) /\ EndsSeen(Reaped(ds), FALSE) /\ AllOnce(Reaped(ds), NONE)
    BY <1>6, <1>7, ReapedKeeps
<1>9. /\ DOMAIN Reaped(ds) \subseteq DOMAIN ds
      /\ \A d \in DOMAIN Reaped(ds) : Reaped(ds)[d] = ds[d]
      /\ \A d \in DOMAIN ds : ds[d].open => d \in DOMAIN Reaped(ds)
    BY ReapedIs
<1> QED
    BY <1>3, <1>4, <1>8, <1>9, <1>5
----------------------------------------------------------------------------
(* The actions.                                                            *)

\* What the server's steps leave to be shown.
LEMMA ServerFrame ==
    ASSUME SInv, UNCHANGED <<cliVars, bridgeVars>>,
           now' \in Nat, up' \in BOOLEAN, bench' # NONE => up', BenchTyped(bench'),
           ConnsTyped(conns'), EndsSeen(conns', up'), AllOnce(conns', bench'),
           DOMAIN conns' \subseteq DOMAIN conns,
           \A d \in DOMAIN conns : conns[d].open => d \in DOMAIN conns' /\ conns'[d].open,
           bench' # NONE => /\ bench'.conn <= OpenedUpTo
                            /\ bench'.conn # Cli => bench'.n = bench'.conn
    PROVE  SInv'
<1>1. UNCHANGED <<cli, shown, posted, bridge, told>>
    BY DEF cliVars, bridgeVars
<1>2. OpenedUpTo' = OpenedUpTo /\ Current' = Current
    BY <1>1 DEF OpenedUpTo, Current
<1>3. ClientsOK' /\ BridgeAnswersOwn'
    BY <1>1 DEF SInv, ClientsOK, BridgeAnswersOwn
<1>4. Waiting'
    BY <1>1, <1>2 DEF SInv, Waiting
<1>5. BenchNumbered'
    BY <1>2 DEF BenchNumbered
<1>6. \A c \in DOMAIN conns' : c <= OpenedUpTo'
    BY <1>2 DEF SInv
<1> QED
    BY <1>3, <1>4, <1>5, <1>6 DEF SInv

\* handle_client(): the request leaves its connection; its answer, BENCH or the end of
\* the process takes its place.
LEMMA ExecuteKeeps ==
    ASSUME SInv, NEW c \in DOMAIN conns, Execute(c)
    PROVE  SInv'
<1> DEFINE request == Head(conns[c].inp)
           cmd  == request.cmd
           rest == [conns EXCEPT ![c].inp = Tail(@)]
           conn == [conns[c] EXCEPT !.inp = Tail(@)]
<1>1. /\ up /\ bench = NONE /\ conns[c].inp # << >>
      /\ UNCHANGED <<cliVars, bridgeVars>>
    BY DEF Execute
<1>2. conns[c] \in Connections /\ c \in Nat /\ conns \in [DOMAIN conns -> Connections]
    BY DEF SInv, ConnsTyped
<1>3. conns[c].inp \in Seq(Requests)
    BY <1>2 DEF Connections
<1>4. request \in Requests /\ Tail(conns[c].inp) \in Seq(Requests)
    BY <1>1, <1>3, HeadTailProperties
<1>5. cmd \in Parsed /\ request.n \in Nat
    BY <1>4 DEF Requests
<1>6. /\ conn \in Connections /\ conn.inp = Tail(conns[c].inp) /\ conn.out = conns[c].out
      /\ conn.open = conns[c].open /\ conn.end = conns[c].end
    BY <1>2, <1>4 DEF Connections
<1>7. rest = [conns EXCEPT ![c] = conn]
    OBVIOUS
<1>8. c # Cli => request.n = c /\ conn.inp = << >> /\ conn.out = << >>
  <2> SUFFICES ASSUME c # Cli PROVE request.n = c /\ conn.inp = << >> /\ conn.out = << >>
      OBVIOUS
  <2>1. Once(c, conns[c], bench)
      BY DEF SInv, AllOnce
  <2>2. 1 \in DOMAIN conns[c].inp /\ request = conns[c].inp[1]
      BY <1>1, <1>3
  <2>3. DOMAIN conns[c].inp = {1}
      BY <2>1, <2>2 DEF Once
  <2>4. Tail(conns[c].inp) = << >>
    <3>1. Len(conns[c].inp) = 1
      <4>1. DOMAIN conns[c].inp = 1..Len(conns[c].inp) /\ Len(conns[c].inp) \in Nat
          BY <1>3
      <4>2. Len(conns[c].inp) \in 1..Len(conns[c].inp)
          BY <2>2, <4>1
      <4>3. Len(conns[c].inp) \in {1}
          BY <2>3, <4>1, <4>2
      <4> QED
          BY <4>3
    <3>2. Len(Tail(conns[c].inp)) = 0
        BY <1>1, <1>3, <3>1, HeadTailProperties
    <3> QED
        BY <1>4, <3>2, EmptySeq
  <2> QED
      BY <1>1, <1>6, <2>1, <2>2, <2>4 DEF Once
<1>9. conns[c].end = "live"
    BY <1>1 DEF SInv, EndsSeen
<1> HIDE DEF request, cmd, rest, conn
<1>10. \A b : (b = NONE \/ b.conn = c) =>
            ConnsTyped(rest) /\ EndsSeen(rest, up) /\ AllOnce(rest, b)
  <2> SUFFICES ASSUME NEW b, b = NONE \/ b.conn = c
               PROVE  ConnsTyped(rest) /\ EndsSeen(rest, up) /\ AllOnce(rest, b)
      OBVIOUS
  <2>1. \A d \in DOMAIN conns \ {Cli} : d # c => Once(d, conns[d], b)
    <3> SUFFICES ASSUME NEW d \in DOMAIN conns \ {Cli}, d # c PROVE Once(d, conns[d], b)
        OBVIOUS
    <3>1. Once(d, conns[d], bench)
        BY DEF SInv, AllOnce
    <3> QED
        BY <3>1 DEF Once
  <2>2. c # Cli => Once(c, conn, b)
      BY <1>8 DEF Once
  <2>3. /\ conn.end # "live" => conn.inp = << >>
        /\ ~up => conn.end # "live"
      BY <1>1, <1>6, <1>9
  <2>4. ConnsTyped(conns) /\ EndsSeen(conns, up) /\ conn \in Connections
      BY <1>6 DEF SInv
  <2> QED
      BY <1>7, <2>1, <2>2, <2>3, <2>4, OneChanges
<1>11. /\ DOMAIN rest = DOMAIN conns /\ rest[c] = conn
       /\ \A d \in DOMAIN conns : rest[d].open = conns[d].open
    BY <1>2, <1>6, <1>7
<1>12. c <= OpenedUpTo /\ up \in BOOLEAN /\ now \in Nat
    BY DEF SInv
<1>13. ASSUME Dies(rest, {c}), now' = now PROVE SInv'
  <2>1. /\ ConnsTyped(conns') /\ EndsSeen(conns', FALSE) /\ AllOnce(conns', NONE)
        /\ DOMAIN conns' \subseteq DOMAIN rest
        /\ \A d \in DOMAIN rest : rest[d].open => d \in DOMAIN conns' /\ conns'[d].open
      BY <1>10, <1>13, DiesKeeps
  <2>2. up' = FALSE /\ bench' = NONE
      BY <1>13 DEF Dies
  <2> QED
      BY <1>1, <1>11, <1>12, <1>13, <2>1, <2>2, ServerFrame DEF BenchTyped
<1>14. CASE /\ Benches(cmd)
            /\ bench' = [conn |-> c, n |-> request.n, done |-> 0, rounds |-> Rounds(cmd)]
            /\ conns' = rest
            /\ UNCHANGED <<storeVars, up>>
  <2>1. bench'.conn = c /\ bench'.n = request.n /\ bench'.rounds = Rounds(cmd)
      BY <1>14
  <2>2. /\ Rounds(cmd) \in Int
        /\ \A i \in 0..Rounds(cmd) - 1 : BenchKey(i) \in Keys /\ BenchValue(i) \in UserValues
      BY <1>5, <1>14, LinesAssumption DEF Parsed
  <2>3. BenchTyped(bench')
      BY <1>2, <1>5, <1>14, <2>1, <2>2 DEF BenchTyped, Benching
  <2>4. ConnsTyped(conns') /\ EndsSeen(conns', up') /\ AllOnce(conns', bench')
      BY <1>10, <1>14, <2>1
  <2>5. now' = now
      BY <1>14 DEF storeVars
  <2> QED
      BY <1>1, <1>8, <1>11, <1>12, <1>14, <2>1, <2>3, <2>4, <2>5, ServerFrame
<1>15. CASE Perform(cmd) /\ Dies(rest, {c})
    BY <1>13, <1>15 DEF Perform
<1>16. CASE Throws(cmd) /\ Dies(rest, {c}) /\ UNCHANGED storeVars
    BY <1>13, <1>16 DEF storeVars
<1>17. CASE /\ Perform(cmd)
            /\ conns' = Send(rest, c, AnswerTo(request))
            /\ UNCHANGED <<up, bench>>
  <2> DEFINE pieces == AnswerTo(request)
  <2>1. /\ pieces \in Seq(AllPieces)
        /\ \A i \in DOMAIN pieces : pieces[i].n = request.n /\ pieces[i].part = i
      BY <1>5, PiecesAre DEF AnswerTo
  <2> HIDE DEF pieces
  <2>2. ConnsTyped(rest) /\ EndsSeen(rest, up) /\ AllOnce(rest, NONE)
      BY <1>10
  <2>3. c \in DOMAIN rest /\ c # Cli =>
            /\ rest[c].inp = << >> /\ rest[c].out = << >>
            /\ \A i \in DOMAIN pieces : pieces[i].n = c /\ pieces[i].part = i
      BY <1>8, <1>11, <2>1
  <2>4. /\ ConnsTyped(Send(rest, c, pieces)) /\ EndsSeen(Send(rest, c, pieces), up)
        /\ AllOnce(Send(rest, c, pieces), NONE)
        /\ DOMAIN Send(rest, c, pieces) \subseteq DOMAIN rest
        /\ \A d \in DOMAIN rest : rest[d].open => /\ d \in DOMAIN Send(rest, c, pieces)
                                                  /\ Send(rest, c, pieces)[d].open
      BY <1>2, <2>1, <2>2, <2>3, SendKeeps
  <2>5. conns' = Send(rest, c, pieces) /\ up' = up /\ bench' = NONE /\ now' = now
      BY <1>1, <1>17 DEF pieces, Perform
  <2> QED
      BY <1>1, <1>11, <1>12, <2>4, <2>5, ServerFrame DEF BenchTyped
<1> QED
    BY <1>14, <1>15, <1>16, <1>17 DEF Execute, request, cmd, rest

\* The end of BENCH: its connection gets the answer, if it is still there.
LEMMA BenchKeeps ==
    ASSUME SInv, BenchRound \/ BenchDone
    PROVE  SInv'
<1>1. /\ bench # NONE /\ bench \in Benching /\ bench.conn \in Nat /\ bench.n \in Nat
      /\ bench.done \in Nat /\ bench.rounds \in Int
      /\ \A i \in 0..bench.rounds - 1 : BenchKey(i) \in Keys /\ BenchValue(i) \in UserValues
    BY DEF BenchRound, BenchDone, SInv, BenchTyped, Benching
<1>2. /\ bench.conn <= OpenedUpTo
      /\ bench.conn # Cli => bench.n = bench.conn
    BY <1>1 DEF SInv, BenchNumbered
<1>3. /\ ConnsTyped(conns) /\ EndsSeen(conns, up) /\ AllOnce(conns, bench)
      /\ up \in BOOLEAN /\ now \in Nat /\ up
    BY <1>1 DEF SInv
<1>4. CASE BenchRound
  <2>1. /\ bench' = [bench EXCEPT !.done = @ + 1]
        /\ UNCHANGED <<now, up, conns, cliVars, bridgeVars>>
      BY <1>4 DEF BenchRound
  <2>2. /\ bench' \in Benching /\ bench'.conn = bench.conn /\ bench'.n = bench.n
        /\ bench'.rounds = bench.rounds
      BY <1>1, <2>1 DEF Benching
  <2>3. BenchTyped(bench')
      BY <1>1, <2>2 DEF BenchTyped
  <2>4. AllOnce(conns, bench')
      BY <1>1, <1>3, <2>2 DEF AllOnce, Once
  <2> QED
      BY <1>2, <1>3, <2>1, <2>2, <2>3, <2>4, ServerFrame
<1>5. CASE BenchDone
  <2> DEFINE pieces == Pieces(bench.n, 1)
             c == bench.conn
  <2>1. /\ bench' = NONE /\ conns' = Send(conns, c, pieces)
        /\ UNCHANGED <<now, up, cliVars, bridgeVars>>
      BY <1>5 DEF BenchDone, storeVars
  <2>2. /\ pieces \in Seq(AllPieces)
        /\ \A i \in DOMAIN pieces : pieces[i].n = bench.n /\ pieces[i].part = i
      BY <1>1, PiecesAre
  <2> HIDE DEF pieces
  <2>3. AllOnce(conns, NONE)
      BY <1>3 DEF AllOnce, Once
  <2>4. c \in DOMAIN conns /\ c # Cli =>
            /\ conns[c].inp = << >> /\ conns[c].out = << >>
            /\ \A i \in DOMAIN pieces : pieces[i].n = c /\ pieces[i].part = i
      BY <1>1, <1>2, <1>3, <2>2 DEF AllOnce, Once
  <2> HIDE DEF c
  <2>5. c \in Nat
      BY <1>1 DEF c
  <2>6. /\ ConnsTyped(Send(conns, c, pieces)) /\ EndsSeen(Send(conns, c, pieces), up)
        /\ AllOnce(Send(conns, c, pieces), NONE)
        /\ DOMAIN Send(conns, c, pieces) \subseteq DOMAIN conns
        /\ \A d \in DOMAIN conns : conns[d].open => /\ d \in DOMAIN Send(conns, c, pieces)
                                                    /\ Send(conns, c, pieces)[d].open
      BY <1>3, <2>2, <2>3, <2>4, <2>5, SendKeeps
  <2> QED
      BY <1>3, <2>1, <2>6, ServerFrame DEF BenchTyped
<1> QED
    BY <1>4, <1>5

\* What a step of the command line leaves alone: it changes its own connection.
LEMMA CliFrame ==
    ASSUME SInv, CliUnchanged, cli' \in {"idle", "recv", "ended"}, shown' \in Seq(Results),
           ConnsTyped(conns'), EndsSeen(conns', up), AllOnce(conns', bench),
           DOMAIN conns' \subseteq DOMAIN conns,
           \A d \in DOMAIN conns : conns[d].open /\ (d # Cli \/ cli' # "ended")
                => d \in DOMAIN conns' /\ conns'[d].open,
           cli = "ended" => cli' = "ended"
    PROVE  SInv'
<1>1. UNCHANGED <<now, up, bench, posted, bridge, told>>
    BY DEF CliUnchanged, storeVars, bridgeVars
<1>2. OpenedUpTo' = OpenedUpTo /\ Current' = Current
    BY <1>1 DEF OpenedUpTo, Current
<1>3. ClientsOK' /\ BridgeAnswersOwn' /\ BenchNumbered'
    BY <1>1, <1>2 DEF SInv, ClientsOK, BridgeAnswersOwn, BenchNumbered
<1>4. told \in Seq(Results) /\ Len(told) \in Nat /\ Current # Cli
  <2>1. told \in Seq(Results)
      BY DEF SInv, ClientsOK
  <2>2. Len(told) \in Nat
      BY <2>1
  <2> QED
      BY <2>1, <2>2 DEF Current, Cli
<1>5. Waiting'
    BY <1>1, <1>2, <1>4 DEF SInv, Waiting
<1> QED
    BY <1>1, <1>2, <1>3, <1>5 DEF SInv

\* Every result of send_command is one.
LEMMA CliShowsOne ==
    ASSUME SInv, NEW r \in Results, CliShows(r)
    PROVE  shown' \in Seq(Results) /\ cli' = "idle"
<1>1. shown \in Seq(Results)
    BY DEF SInv, ClientsOK
<1> QED
    BY <1>1, AppendProperties DEF CliShows

\* Texts and no bytes are results without a piece.
LEMMA NoAnswers == Failed \in Results /\ NoBytes \in Results
<1>1. << >> \in Seq(AllPieces)
    BY EmptySeq
<1> QED
    BY <1>1 DEF Failed, NoBytes, Results

\* The command line sends, takes what is there, gives up, or ends.
LEMMA CliKeeps ==
    ASSUME SInv, CliStep \/ CliEnds \/ \E line \in Typed : CliSend(line)
    PROVE  SInv'
<1>1. /\ ConnsTyped(conns) /\ EndsSeen(conns, up) /\ AllOnce(conns, bench)
      /\ shown \in Seq(Results) /\ Len(shown) \in Nat
  <2>1. shown \in Seq(Results)
      BY DEF SInv, ClientsOK
  <2>2. Len(shown) \in Nat
      BY <2>1
  <2> QED
      BY <2>1, <2>2 DEF SInv
<1>2. cli # "ended" => Cli \in DOMAIN conns /\ conns[Cli].open /\ conns[Cli] \in Connections
    BY <1>1 DEF SInv, Waiting, ConnsTyped
<1>3. ASSUME Cli \in DOMAIN conns, NEW conn \in Connections,
             conn.end = conns[Cli].end, conn.open = conns[Cli].open,
             conn.end # "live" => conn.inp = << >>,
             conns' = [conns EXCEPT ![Cli] = conn],
             cli # "ended", cli' \in {"idle", "recv"}, shown' \in Seq(Results), CliUnchanged
      PROVE  SInv'
  <2>1. ~up => conn.end # "live"
      BY <1>1, <1>3 DEF EndsSeen
  <2>2. \A d \in DOMAIN conns \ {Cli} : d # Cli => Once(d, conns[d], bench)
      BY <1>1 DEF AllOnce
  <2>3. ConnsTyped(conns') /\ EndsSeen(conns', up) /\ AllOnce(conns', bench)
      BY <1>1, <1>3, <2>1, <2>2, OneChanges
  <2>4. DOMAIN conns' = DOMAIN conns /\ \A d \in DOMAIN conns : conns'[d].open = conns[d].open
      BY <1>1, <1>3 DEF ConnsTyped
  <2> QED
      BY <1>3, <2>3, <2>4, CliFrame
<1>4. ASSUME conns' = conns, cli # "ended", cli' \in {"idle", "recv"}, shown' \in Seq(Results),
             CliUnchanged
      PROVE  SInv'
    BY <1>1, <1>4, CliFrame
<1>5. ASSUME conns' = Closed(conns, Cli), cli # "ended", cli' = "ended", shown' = shown, CliUnchanged
      PROVE  SInv'
  <2>1. /\ ConnsTyped(conns') /\ EndsSeen(conns', up) /\ AllOnce(conns', bench)
        /\ DOMAIN conns' \subseteq DOMAIN conns
        /\ \A d \in DOMAIN conns : d # Cli /\ conns[d].open
                                     => d \in DOMAIN conns' /\ conns'[d].open
      BY <1>1, <1>2, <1>5, ClosedKeeps
  <2> QED
      BY <1>1, <1>5, <2>1, CliFrame
<1>6. ASSUME NEW line \in Typed, CliSend(line) PROVE SInv'
  <2>1. cli = "idle" /\ cli' = "recv" /\ shown' = shown /\ CliUnchanged
      BY <1>6 DEF CliSend
  <2>2. CASE conns[Cli].end # "live"
      BY <1>1, <1>4, <1>6, <2>1, <2>2 DEF CliSend
  <2>3. CASE conns[Cli].end = "live"
    <3> DEFINE r == Request(Len(shown) + 1, line)
               conn == [conns[Cli] EXCEPT !.inp = Append(@, r)]
    <3>1. conns' = [conns EXCEPT ![Cli] = conn]
        BY <1>6, <2>3 DEF CliSend
    <3>2. r \in Requests
      <4>1. Parse(line) \in Parsed
          BY DEF Parsed, Lines
      <4>2. Len(shown) + 1 \in Nat
          BY <1>1
      <4> QED
          BY <4>1, <4>2 DEF Request, Requests
    <3> HIDE DEF r
    <3>3. conns[Cli] \in Connections /\ Cli \in DOMAIN conns
        BY <1>2, <2>1
    <3>4. Append(conns[Cli].inp, r) \in Seq(Requests)
      <4>1. conns[Cli].inp \in Seq(Requests)
          BY <3>3 DEF Connections
      <4> QED
          BY <3>2, <4>1, AppendProperties
    <3>5. conn \in Connections /\ conn.end = conns[Cli].end /\ conn.open = conns[Cli].open
        BY <3>3, <3>4 DEF Connections
    <3> HIDE DEF conn
    <3> QED
        BY <1>1, <1>3, <2>1, <2>3, <3>1, <3>3, <3>5
  <2> QED
      BY <2>2, <2>3
<1>7. CASE CliRecv
  <2> DEFINE o == conns[Cli].out
             conn == [conns[Cli] EXCEPT !.out = Unread(@)]
  <2>1. cli = "recv" /\ o # << >> /\ CliUnchanged
      BY <1>7 DEF CliRecv
  <2>2. Cli \in DOMAIN conns /\ conns[Cli] \in Connections /\ o \in Seq(AllPieces)
      BY <1>2, <2>1 DEF Connections
  <2>3. Received(o) \in Seq(AllPieces) /\ Unread(o) \in Seq(AllPieces)
      BY <2>1, <2>2, ReceivedIs
  <2>4. Answer(Received(o)) \in Results
      BY <2>3 DEF Answer, Results
  <2>5. CASE cli' = "ended" /\ UNCHANGED shown /\ conns' = Closed(conns, Cli)
      BY <1>5, <2>1, <2>5
  <2>6. ASSUME CliShows(Answer(Received(o))) PROVE shown' \in Seq(Results) /\ cli' = "idle"
      BY <2>4, <2>6, CliShowsOne
  <2>7. /\ conn \in Connections /\ conn.end = conns[Cli].end /\ conn.open = conns[Cli].open
        /\ conn.inp = conns[Cli].inp
      BY <2>2, <2>3 DEF Connections
  <2> HIDE DEF conn
  <2>8. conn.end # "live" => conn.inp = << >>
      BY <1>1, <2>2, <2>7 DEF EndsSeen
  <2>9. CASE CliShows(Answer(Received(o))) /\ conns' = [conns EXCEPT ![Cli] = conn]
      BY <1>3, <2>1, <2>2, <2>6, <2>7, <2>8, <2>9
  <2> QED
      BY <1>7, <2>5, <2>9 DEF CliRecv, conn
<1>8. CASE CliMeetsEnd
  <2>1. CASE \E result \in {NoBytes, Failed} : CliShows(result)
    <3>1. shown' \in Seq(Results) /\ cli' = "idle"
        BY <2>1, NoAnswers, CliShowsOne
    <3>2. cli = "recv" /\ CliUnchanged /\ conns' = conns
        BY <1>8, <3>1 DEF CliMeetsEnd
    <3> QED
        BY <1>4, <3>1, <3>2
  <2>2. CASE cli' = "ended" /\ UNCHANGED shown
      BY <1>5, <1>8, <2>2 DEF CliMeetsEnd
  <2> QED
      BY <1>8, <2>1, <2>2 DEF CliMeetsEnd
<1>9. CASE CliGivesUp
  <2>1. shown' \in Seq(Results) /\ cli' = "idle"
      BY <1>9, NoAnswers, CliShowsOne DEF CliGivesUp
  <2> QED
      BY <1>4, <1>9, <2>1 DEF CliGivesUp
<1>10. CASE CliEnds
    BY <1>5, <1>10 DEF CliEnds
<1> QED
    BY <1>6, <1>7, <1>8, <1>9, <1>10 DEF CliStep

\* What the bridge returns for the oldest request becomes its result.
LEMMA ToldOne ==
    ASSUME SInv, posted # << >>, NEW r \in Results, Tell(r),
           \A i \in DOMAIN r.pieces : r.pieces[i].n = Current /\ r.pieces[i].part = i
    PROVE  /\ told' \in Seq(Results) /\ posted' \in Seq(Lines)
           /\ Len(told') = Len(told) + 1 /\ Len(told) \in Nat
           /\ Len(told') + Len(posted') <= MaxPosted
           /\ bridge' = "idle"
           /\ BridgeAnswersOwn'
<1>1. /\ told \in Seq(Results) /\ posted \in Seq(Lines)
      /\ Len(told) + Len(posted) <= MaxPosted /\ BridgeAnswersOwn
    BY DEF SInv, ClientsOK
<1>2. told' = Append(told, r) /\ posted' = Tail(posted) /\ bridge' = "idle"
    BY DEF Tell
<1>3. /\ told' \in Seq(Results) /\ Len(told') = Len(told) + 1 /\ Len(told) \in Nat
      /\ \A i \in 1..Len(told) : told'[i] = told[i]
      /\ told'[Len(told) + 1] = r
      /\ DOMAIN told' = 1..Len(told) + 1 /\ DOMAIN told = 1..Len(told)
  <2>1. Len(told) \in Nat /\ DOMAIN told = 1..Len(told)
      BY <1>1
  <2>2. /\ told' \in Seq(Results) /\ Len(told') = Len(told) + 1
        /\ \A i \in 1..Len(told) : told'[i] = told[i]
        /\ told'[Len(told) + 1] = r
      BY <1>1, <1>2, AppendProperties
  <2>3. DOMAIN told' = 1..Len(told')
      BY <2>2
  <2> QED
      BY <2>1, <2>2, <2>3
<1>4. posted' \in Seq(Lines) /\ Len(posted') = Len(posted) - 1 /\ Len(posted) \in Nat
  <2>1. posted' \in Seq(Lines) /\ Len(posted') = Len(posted) - 1
      BY <1>1, <1>2, HeadTailProperties
  <2>2. Len(posted) \in Nat
      BY <1>1
  <2> QED
      BY <2>1, <2>2
<1>5. Len(told') + Len(posted') <= MaxPosted
    BY <1>1, <1>3, <1>4
<1>6. BridgeAnswersOwn'
  <2> SUFFICES ASSUME NEW n \in DOMAIN told'
               PROVE  \A i \in DOMAIN told'[n].pieces :
                         told'[n].pieces[i].n = n /\ told'[n].pieces[i].part = i
      BY DEF BridgeAnswersOwn
  <2>1. CASE n = Len(told) + 1
      BY <1>3, <2>1 DEF Current
  <2>2. CASE n # Len(told) + 1
    <3>1. n \in DOMAIN told /\ told'[n] = told[n]
        BY <1>3, <2>2
    <3> QED
        BY <1>1, <3>1 DEF BridgeAnswersOwn
  <2> QED
      BY <2>1, <2>2
<1> QED
    BY <1>2, <1>3, <1>4, <1>5, <1>6

\* A request told is one connection more than before, or the one there was.
LEMMA BridgeFrame ==
    ASSUME SInv, BridgeUnchanged, posted # << >>, NEW r \in Results, Tell(r),
           \A i \in DOMAIN r.pieces : r.pieces[i].n = Current /\ r.pieces[i].part = i,
           conns' = conns \/ (Current \in DOMAIN conns /\ conns' = Closed(conns, Current))
    PROVE  SInv'
<1>1. UNCHANGED <<now, up, bench, cli, shown>>
    BY DEF BridgeUnchanged, storeVars, cliVars
<1>2. /\ told' \in Seq(Results) /\ posted' \in Seq(Lines)
      /\ Len(told') = Len(told) + 1 /\ Len(told) \in Nat
      /\ Len(told') + Len(posted') <= MaxPosted
      /\ bridge' = "idle"
      /\ BridgeAnswersOwn'
    BY ToldOne
<1>3. OpenedUpTo' = Len(told) + 1 /\ OpenedUpTo <= OpenedUpTo' /\ OpenedUpTo \in Nat
    BY <1>2 DEF OpenedUpTo
<1>4. /\ ConnsTyped(conns) /\ EndsSeen(conns, up) /\ AllOnce(conns, bench)
    BY DEF SInv
<1>5. /\ ConnsTyped(conns') /\ EndsSeen(conns', up) /\ AllOnce(conns', bench)
      /\ DOMAIN conns' \subseteq DOMAIN conns
      /\ \A d \in DOMAIN conns : d # Current /\ conns[d].open
                                   => d \in DOMAIN conns' /\ conns'[d].open
    BY <1>4, ClosedKeeps
<1>6. \A c \in DOMAIN conns' : c <= OpenedUpTo'
  <2>1. \A c \in DOMAIN conns' : c \in Nat /\ c <= OpenedUpTo
      BY <1>4, <1>5 DEF SInv, ConnsTyped
  <2> QED
      BY <1>3, <2>1
<1>7. BenchNumbered'
  <2> SUFFICES ASSUME bench # NONE
               PROVE  bench.conn <= OpenedUpTo' /\ (bench.conn # Cli => bench.n = bench.conn)
      BY <1>1 DEF BenchNumbered
  <2>1. bench.conn \in Nat /\ bench.conn <= OpenedUpTo
      BY DEF SInv, BenchTyped, Benching, BenchNumbered
  <2> QED
      BY <1>3, <2>1 DEF SInv, BenchNumbered
<1>8. ClientsOK'
    BY <1>1, <1>2 DEF SInv, ClientsOK
<1>9. Waiting'
  <2>1. Cli # Current
      BY <1>2 DEF Cli, Current
  <2> QED
      BY <1>1, <1>2, <1>5, <2>1 DEF SInv, Waiting
<1> QED
    BY <1>1, <1>2, <1>5, <1>6, <1>7, <1>8, <1>9 DEF SInv

\* A new connection carries the oldest request, unread.
LEMMA ConnectKeeps ==
    ASSUME SInv, Connect
    PROVE  SInv'
<1> DEFINE r == Request(Current, Head(posted))
           conn == [NewConnection EXCEPT !.inp = <<r>>]
<1>1. /\ bridge = "idle" /\ posted # << >> /\ up /\ bridge' = "recv"
      /\ conns' = [c \in DOMAIN conns \cup {Current} |-> IF c = Current THEN conn ELSE conns[c]]
      /\ UNCHANGED <<now, up, bench, cli, shown, posted, told>>
    BY DEF Connect, BridgeUnchanged, storeVars, cliVars
<1>2. told \in Seq(Results) /\ posted \in Seq(Lines) /\ Len(told) \in Nat
  <2>1. told \in Seq(Results) /\ posted \in Seq(Lines)
      BY DEF SInv, ClientsOK
  <2> QED
      BY <2>1
<1>3. /\ Current = Len(told) + 1 /\ Current' = Current /\ Current \in Nat /\ Current # Cli
      /\ OpenedUpTo = Len(told) /\ OpenedUpTo' = Current
    BY <1>1, <1>2 DEF Current, OpenedUpTo, Cli
<1>4. r \in Requests /\ r.n = Current
  <2>1. Head(posted) \in Lines
      BY <1>1, <1>2, HeadTailProperties
  <2> QED
      BY <1>3, <2>1 DEF Request, Requests, Parsed
<1> HIDE DEF r
<1>5. <<r>> \in Seq(Requests) /\ DOMAIN <<r>> = {1} /\ <<r>>[1] = r /\ << >> \in Seq(AllPieces)
  <2>1. <<r>> \in Seq(Requests) /\ Len(<<r>>) = 1 /\ <<r>>[1] = r
      BY <1>4
  <2> QED
      BY <2>1, EmptySeq
<1>6. /\ conn \in Connections /\ conn.inp = <<r>> /\ conn.out = << >> /\ conn.open /\ conn.end = "live"
    BY <1>5 DEF NewConnection, Connections, Ends
<1> HIDE DEF conn
<1>7. /\ ConnsTyped(conns) /\ EndsSeen(conns, up) /\ AllOnce(conns, bench)
      /\ \A c \in DOMAIN conns : c \in Nat /\ c <= Len(told)
    BY <1>3 DEF SInv, ConnsTyped
<1>8. /\ DOMAIN conns' = DOMAIN conns \cup {Current} /\ conns'[Current] = conn
      /\ \A c \in DOMAIN conns : c # Current /\ conns'[c] = conns[c]
  <2>1. \A c \in DOMAIN conns : c # Current
      BY <1>2, <1>3, <1>7
  <2> QED
      BY <1>1, <2>1
<1>9. ConnsTyped(conns')
  <2>1. \A c \in DOMAIN conns' : conns'[c] \in Connections
      BY <1>6, <1>7, <1>8 DEF ConnsTyped
  <2>2. conns' = [c \in DOMAIN conns' |-> conns'[c]]
      BY <1>1
  <2> QED
      BY <1>3, <1>7, <1>8, <2>1, <2>2 DEF ConnsTyped
<1>10. EndsSeen(conns', up)
    BY <1>1, <1>6, <1>7, <1>8 DEF EndsSeen
<1>11. bench # NONE => bench.conn # Current
  <2>1. bench # NONE => bench.conn \in Nat /\ bench.conn <= Len(told)
      BY <1>3 DEF SInv, BenchTyped, Benching, BenchNumbered
  <2> QED
      BY <1>2, <1>3, <2>1
<1>12. AllOnce(conns', bench)
  <2>1. Once(Current, conn, bench)
      BY <1>4, <1>5, <1>6, <1>11 DEF Once
  <2> QED
      BY <1>7, <1>8, <2>1 DEF AllOnce
<1>13. \A c \in DOMAIN conns' : c <= OpenedUpTo'
    BY <1>2, <1>3, <1>7, <1>8
<1>14. BenchNumbered'
  <2> SUFFICES ASSUME bench # NONE
               PROVE  bench.conn <= OpenedUpTo' /\ (bench.conn # Cli => bench.n = bench.conn)
      BY <1>1 DEF BenchNumbered
  <2>1. bench.conn \in Nat /\ bench.conn <= Len(told)
      BY <1>3 DEF SInv, BenchTyped, Benching, BenchNumbered
  <2> QED
      BY <1>2, <1>3, <2>1 DEF SInv, BenchNumbered
<1>15. ClientsOK' /\ BridgeAnswersOwn'
    BY <1>1 DEF SInv, ClientsOK, BridgeAnswersOwn
<1>16. Waiting'
    BY <1>1, <1>3, <1>6, <1>8 DEF SInv, Waiting
<1> QED
    BY <1>1, <1>9, <1>10, <1>12, <1>13, <1>14, <1>15, <1>16 DEF SInv

\* The browser posts; the bridge takes a request up, and tells what came of it.
LEMMA BridgeKeeps ==
    ASSUME SInv, BridgeStep \/ \E line \in Submitted : Post(line)
    PROVE  SInv'
<1>1. ASSUME NEW line \in Submitted, Post(line) PROVE SInv'
  <2>1. /\ posted' = Append(posted, line) /\ Len(told) + Len(posted) < MaxPosted
        /\ UNCHANGED <<now, up, conns, bench, cli, shown, bridge, told>>
      BY <1>1 DEF Post, storeVars, cliVars
  <2>2. posted \in Seq(Lines) /\ told \in Seq(Results) /\ line \in Lines
      BY DEF SInv, ClientsOK, Lines
  <2>3. /\ posted' \in Seq(Lines) /\ Len(posted') = Len(posted) + 1
        /\ Len(posted) \in Nat /\ Len(told) \in Nat
    <3>1. posted' \in Seq(Lines) /\ Len(posted') = Len(posted) + 1
        BY <2>1, <2>2, AppendProperties
    <3> QED
        BY <2>2, <3>1
  <2>4. posted' # << >>
      BY <2>3
  <2>5. Len(told) + Len(posted') <= MaxPosted
      BY <2>1, <2>3, SessionsAssumption
  <2>6. OpenedUpTo' = OpenedUpTo /\ Current' = Current
      BY <2>1 DEF OpenedUpTo, Current
  <2>7. ClientsOK'
      BY <2>1, <2>3, <2>4, <2>5 DEF SInv, ClientsOK
  <2>8. Waiting' /\ BridgeAnswersOwn' /\ BenchNumbered'
      BY <2>1, <2>6 DEF SInv, Waiting, BridgeAnswersOwn, BenchNumbered
  <2> QED
      BY <2>1, <2>6, <2>7, <2>8 DEF SInv
<1>2. bridge = "recv" => Current \in DOMAIN conns /\ posted # << >>
    BY DEF SInv, Waiting, ClientsOK
<1>3. Failed.pieces = << >> /\ NoBytes.pieces = << >> /\ DOMAIN << >> = {}
    BY DEF Failed, NoBytes
<1>4. CASE Refused
    BY <1>3, <1>4, NoAnswers, BridgeFrame DEF Refused
<1>5. CASE BridgeRecv
  <2> DEFINE o == conns[Current].out
  <2>1. /\ o # << >> /\ bridge = "recv"
        /\ Tell(Answer(Received(o))) \/ Tell(Failed)
        /\ conns' = Closed(conns, Current) /\ BridgeUnchanged
      BY <1>5 DEF BridgeRecv
  <2>2. Current # Cli
    <3>1. told \in Seq(Results)
        BY DEF SInv, ClientsOK
    <3>2. Len(told) \in Nat
        BY <3>1
    <3> QED
        BY <3>2 DEF Current, Cli
  <2>3. conns[Current] \in Connections /\ Once(Current, conns[Current], bench)
      BY <1>2, <2>1, <2>2 DEF SInv, ConnsTyped, AllOnce
  <2>4. /\ o \in Seq(AllPieces)
        /\ \A i \in DOMAIN o : o[i].n = Current /\ o[i].part = i
      BY <2>3 DEF Connections, Once
  <2> HIDE DEF o
  <2>5. /\ Received(o) \in Seq(AllPieces)
        /\ \A i \in DOMAIN Received(o) : i \in DOMAIN o /\ Received(o)[i] = o[i]
      BY <2>1, <2>4, ReceivedIs
  <2>6. /\ Answer(Received(o)) \in Results /\ Answer(Received(o)).pieces = Received(o)
      BY <2>5 DEF Answer, Results
  <2>7. \A i \in DOMAIN Answer(Received(o)).pieces :
           /\ Answer(Received(o)).pieces[i].n = Current
           /\ Answer(Received(o)).pieces[i].part = i
      BY <2>4, <2>5, <2>6
  <2>8. CASE Tell(Failed)
      BY <1>2, <1>3, <2>1, <2>8, NoAnswers, BridgeFrame
  <2>9. CASE Tell(Answer(Received(o)))
      BY <1>2, <2>1, <2>6, <2>7, <2>9, BridgeFrame
  <2> QED
      BY <2>1, <2>8, <2>9
<1>6. CASE BridgeMeetsEnd
  <2>1. PICK r \in {NoBytes, Failed} : Tell(r)
      BY <1>6 DEF BridgeMeetsEnd
  <2>2. /\ bridge = "recv" /\ conns' = Closed(conns, Current) /\ BridgeUnchanged
      BY <1>6 DEF BridgeMeetsEnd
  <2> QED
      BY <1>2, <1>3, <2>1, <2>2, NoAnswers, BridgeFrame
<1>7. CASE BridgeGivesUp
    BY <1>2, <1>3, <1>7, NoAnswers, BridgeFrame DEF BridgeGivesUp
<1> QED
    BY <1>1, <1>4, <1>5, <1>6, <1>7, ConnectKeeps DEF BridgeStep

\* Every step keeps the invariant.
LEMMA SessionsStep ==
    ASSUME SInv, [SessionsNext]_sessionVars
    PROVE  SInv'
<1>1. CASE ServerStep
    BY <1>1, ExecuteKeeps, BenchKeeps DEF ServerStep
<1>2. CASE Stop
  <2>1. /\ ConnsTyped(conns') /\ EndsSeen(conns', FALSE) /\ AllOnce(conns', NONE)
        /\ DOMAIN conns' \subseteq DOMAIN conns
        /\ \A d \in DOMAIN conns : conns[d].open => d \in DOMAIN conns' /\ conns'[d].open
      BY <1>2, DiesKeeps DEF Stop, SInv
  <2>2. /\ up' = FALSE /\ bench' = NONE /\ now' = now /\ now \in Nat
        /\ UNCHANGED <<cliVars, bridgeVars>>
      BY <1>2 DEF Stop, Dies, storeVars, SInv
  <2> QED
      BY <2>1, <2>2, ServerFrame DEF BenchTyped
<1>3. CASE Start
  <2>1. up' = TRUE /\ UNCHANGED <<now, conns, bench, cli, shown, posted, bridge, told>>
      BY <1>3 DEF Start, storeVars, cliVars, bridgeVars
  <2>2. OpenedUpTo' = OpenedUpTo /\ Current' = Current
      BY <2>1 DEF OpenedUpTo, Current
  <2>3. ClientsOK' /\ Waiting' /\ BridgeAnswersOwn' /\ BenchNumbered'
      BY <2>1, <2>2 DEF SInv, ClientsOK, Waiting, BridgeAnswersOwn, BenchNumbered
  <2>4. EndsSeen(conns, TRUE)
      BY DEF SInv, EndsSeen
  <2> QED
      BY <2>1, <2>2, <2>3, <2>4 DEF SInv
<1>4. CASE Tick
  <2>1. now' = now + 1 /\ UNCHANGED <<up, conns, bench, cli, shown, posted, bridge, told>>
      BY <1>4 DEF Tick, cliVars, bridgeVars
  <2>2. OpenedUpTo' = OpenedUpTo /\ Current' = Current
      BY <2>1 DEF OpenedUpTo, Current
  <2>3. ClientsOK' /\ Waiting' /\ BridgeAnswersOwn' /\ BenchNumbered'
      BY <2>1, <2>2 DEF SInv, ClientsOK, Waiting, BridgeAnswersOwn, BenchNumbered
  <2> QED
      BY <2>1, <2>2, <2>3 DEF SInv
<1>5. CASE UNCHANGED sessionVars
  <2>1. UNCHANGED <<now, up, conns, bench, cli, shown, posted, bridge, told>>
      BY <1>5 DEF sessionVars, storeVars, cliVars, bridgeVars
  <2>2. OpenedUpTo' = OpenedUpTo /\ Current' = Current
      BY <2>1 DEF OpenedUpTo, Current
  <2>3. ClientsOK' /\ Waiting' /\ BridgeAnswersOwn' /\ BenchNumbered'
      BY <2>1, <2>2 DEF SInv, ClientsOK, Waiting, BridgeAnswersOwn, BenchNumbered
  <2> QED
      BY <2>1, <2>2, <2>3 DEF SInv
<1> QED
    BY <1>1, <1>2, <1>3, <1>4, <1>5, CliKeeps, BridgeKeeps DEF SessionsNext

LEMMA SessionsStart ==
    ASSUME SessionsInit
    PROVE  SInv
<1>1. /\ now = 0 /\ up = TRUE /\ bench = NONE /\ conns = [c \in {Cli} |-> NewConnection]
      /\ cli = "idle" /\ shown = << >> /\ posted = << >> /\ bridge = "idle" /\ told = << >>
    BY DEF SessionsInit
<1>2. NewConnection \in Connections
  <2>1. << >> \in Seq(Requests) /\ << >> \in Seq(AllPieces)
      BY EmptySeq
  <2> QED
      BY <2>1 DEF NewConnection, Connections, Ends
<1>3. DOMAIN conns = {Cli} /\ conns[Cli] = NewConnection /\ conns \in [DOMAIN conns -> Connections]
    BY <1>1, <1>2
<1>4. ConnsTyped(conns) /\ BenchTyped(bench) /\ EndsSeen(conns, up) /\ AllOnce(conns, bench)
    BY <1>1, <1>3 DEF ConnsTyped, BenchTyped, EndsSeen, AllOnce, NewConnection, Cli
<1>5. << >> \in Seq(Results) /\ << >> \in Seq(Lines) /\ Len(<< >>) = 0 /\ DOMAIN << >> = {}
    BY EmptySeq
<1>6. ClientsOK
    BY <1>1, <1>5, SessionsAssumption DEF ClientsOK
<1>7. Waiting /\ BridgeAnswersOwn /\ BenchNumbered
    BY <1>1, <1>3, <1>5 DEF Waiting, BridgeAnswersOwn, BenchNumbered, NewConnection
<1>8. \A c \in DOMAIN conns : c <= OpenedUpTo
    BY <1>1, <1>3, <1>5 DEF OpenedUpTo, Cli
<1> QED
    BY <1>1, <1>4, <1>6, <1>7, <1>8 DEF SInv

LEMMA SInvHolds == SessionsSpec => []SInv
<1>1. SessionsInit => SInv
    BY SessionsStart
<1>2. SInv /\ [SessionsNext]_sessionVars => SInv'
    BY SessionsStep
<1> QED
    BY <1>1, <1>2, PTL DEF SessionsSpec

----------------------------------------------------------------------------
(* What the command line is shown, and in which order.                     *)

\* The loop behind PiecesOf.
IsUpTo(g, rs) == g = [n \in 0..Len(rs) |-> IF n = 0 THEN << >> ELSE g[n - 1] \o rs[n].pieces]

LEMMA PiecesOfIs ==
    ASSUME NEW rs \in Seq(Results)
    PROVE  \E g : IsUpTo(g, rs) /\ PiecesOf(rs) = g[Len(rs)] /\ g[Len(rs)] \in Seq(AllPieces)
<1> DEFINE N == Len(rs)
           T == Seq(AllPieces)
           F == [y \in T \X (1..N) |-> y[1] \o rs[y[2]].pieces]
<1>1. N \in Nat /\ \A n \in 1..N : rs[n].pieces \in T
  <2>1. \A n \in 1..N : rs[n] \in Results
      OBVIOUS
  <2> QED
      BY <2>1 DEF Results
<1>2. << >> \in T
    BY EmptySeq
<1>3. F \in [T \X (1..N) -> T]
  <2>1. \A y \in T \X (1..N) : y[1] \o rs[y[2]].pieces \in T
    <3> SUFFICES ASSUME NEW y \in T \X (1..N) PROVE y[1] \o rs[y[2]].pieces \in T
        OBVIOUS
    <3>1. y[1] \in T /\ rs[y[2]].pieces \in T
        BY <1>1
    <3> QED
        BY <3>1, ConcatProperties
  <2> HIDE DEF T, N
  <2> QED
      BY <2>1
<1>4. PICK g \in [0..N -> T] : IsLoop(g, N, << >>, F)
  <2> HIDE DEF F, N, T
  <2> QED
      BY <1>1, <1>2, <1>3, LoopExists
<1>5. g[0] = << >> /\ \A n \in 1..N : g[n] = g[n - 1] \o rs[n].pieces
  <2>1. ASSUME NEW n \in 1..N PROVE g[n] = g[n - 1] \o rs[n].pieces
    <3>1. n - 1 \in 0..N
        BY <1>1
    <3>2. g[n] = F[<<g[n - 1], n>>] /\ g[n - 1] \in T
        BY <1>4, <2>1, <3>1 DEF IsLoop
    <3> HIDE DEF N, T
    <3> QED
        BY <3>2
  <2> QED
      BY <1>4, <2>1 DEF IsLoop
<1>6. IsUpTo(g, rs)
  <2>1. \A n \in 0..N : n # 0 => n \in 1..N
      BY <1>1
  <2>2. g = [n \in 0..N |-> g[n]]
      BY <1>4
  <2>3. \A n \in 0..N : g[n] = IF n = 0 THEN << >> ELSE g[n - 1] \o rs[n].pieces
      BY <1>5, <2>1
  <2> QED
      BY <2>2, <2>3 DEF IsUpTo
<1> DEFINE c == CHOOSE h : IsUpTo(h, rs)
<1>7. IsUpTo(c, rs)
    BY <1>6
<1>8. PiecesOf(rs) = c[N]
    BY DEF PiecesOf, IsUpTo
<1> HIDE DEF c
<1>9. c[0] = << >> /\ \A n \in 1..N : c[n] = c[n - 1] \o rs[n].pieces
  <2>1. 0 \in 0..N /\ \A n \in 1..N : n \in 0..N /\ n # 0
      BY <1>1
  <2> QED
      BY <1>7, <2>1 DEF IsUpTo
<1>10. c[N] = g[N]
  <2>1. \A n \in 1..N : c[n - 1] = g[n - 1] => c[n] = g[n]
      BY <1>5, <1>9
  <2>2. c[0] = g[0]
      BY <1>5, <1>9
  <2> HIDE DEF N
  <2> QED
      BY <1>1, <2>1, <2>2, LoopsAgree
<1>11. g[N] \in T
    BY <1>1, <1>4
<1> QED
    BY <1>6, <1>8, <1>10, <1>11

\* Nothing shown holds no piece.
LEMMA PiecesRegroup ==
    ASSUME NEW p \in Seq(AllPieces), NEW q \in Seq(AllPieces), NEW r \in Seq(AllPieces)
    PROVE  (p \o q) \o r = p \o (q \o r)
    BY ConcatAssociative

LEMMA PiecesOfNone == PiecesOf(<< >>) = << >>
<1>1. << >> \in Seq(Results) /\ Len(<< >>) = 0
    BY EmptySeq
<1>2. PICK g : IsUpTo(g, << >>) /\ PiecesOf(<< >>) = g[Len(<< >>)]
    BY <1>1, PiecesOfIs
<1>3. g[0] = << >>
    BY <1>1, <1>2 DEF IsUpTo
<1> QED
    BY <1>1, <1>2, <1>3

\* One result more adds its pieces.
LEMMA PiecesOfAppend ==
    ASSUME NEW rs \in Seq(Results), NEW r \in Results
    PROVE  PiecesOf(Append(rs, r)) = PiecesOf(rs) \o r.pieces /\ PiecesOf(rs) \in Seq(AllPieces)
<1> DEFINE t == Append(rs, r)
           N == Len(rs)
<1>1. /\ N \in Nat /\ t \in Seq(Results) /\ Len(t) = N + 1
      /\ t[N + 1] = r /\ \A n \in 1..N : t[n] = rs[n]
    BY AppendProperties
<1> HIDE DEF t
<1>2. PICK g : IsUpTo(g, rs) /\ PiecesOf(rs) = g[N] /\ g[N] \in Seq(AllPieces)
    BY PiecesOfIs
<1>3. PICK h : IsUpTo(h, t) /\ PiecesOf(t) = h[Len(t)]
    BY <1>1, PiecesOfIs
<1> HIDE DEF N
<1>4. g[0] = << >> /\ \A n \in 1..N : g[n] = g[n - 1] \o rs[n].pieces
  <2>1. 0 \in 0..N /\ \A n \in 1..N : n \in 0..N /\ n # 0
      BY <1>1
  <2> QED
      BY <1>2, <2>1 DEF IsUpTo, N
<1>5. h[0] = << >> /\ \A n \in 1..N + 1 : h[n] = h[n - 1] \o t[n].pieces
  <2>1. 0 \in 0..N + 1 /\ \A n \in 1..N + 1 : n \in 0..N + 1 /\ n # 0
      BY <1>1
  <2> QED
      BY <1>1, <1>3, <2>1 DEF IsUpTo
<1>6. \A n \in 1..N : h[n] = h[n - 1] \o rs[n].pieces
  <2>1. \A n \in 1..N : n \in 1..N + 1
      BY <1>1
  <2> QED
      BY <1>1, <1>5, <2>1
<1>7. h[N] = g[N]
  <2>1. \A n \in 1..N : h[n - 1] = g[n - 1] => h[n] = g[n]
      BY <1>4, <1>6
  <2>2. h[0] = g[0]
      BY <1>4, <1>5
  <2> QED
      BY <1>1, <2>1, <2>2, LoopsAgree
<1>8. h[N + 1] = h[N] \o r.pieces
  <2>1. N + 1 \in 1..N + 1 /\ (N + 1) - 1 = N
      BY <1>1
  <2> QED
      BY <1>1, <1>5, <2>1
<1> QED
    BY <1>1, <1>2, <1>3, <1>7, <1>8 DEF t

\* What recv() returns and what it leaves are all that was there.
LEMMA ReceivedWhole ==
    ASSUME NEW s \in Seq(AllPieces), s # << >>
    PROVE  Received(s) \o Unread(s) = s
<1> DEFINE r == Received(s)
           m == Len(r)
<1>1. /\ r \in Seq(AllPieces) /\ m \in 1..Len(s)
      /\ \A i \in DOMAIN r : i \in DOMAIN s /\ r[i] = s[i]
    BY ReceivedIs
<1>2. Len(s) \in Nat /\ \A i \in 1..Len(s) : s[i] \in AllPieces
    OBVIOUS
<1>3. Unread(s) = SubSeq(s, m + 1, Len(s))
    BY DEF Unread
<1>4. DOMAIN r = 1..m
    BY <1>1
<1> HIDE DEF r, m
<1>5. r = SubSeq(s, 1, m)
  <2> DEFINE e == SubSeq(s, 1, m)
  <2>1. m \in Int /\ 1 <= m /\ \A i \in 1..m : s[i] \in AllPieces
      BY <1>1, <1>2
  <2>2. /\ e \in Seq(AllPieces) /\ Len(e) = IF 1 <= m THEN m - 1 + 1 ELSE 0
        /\ \A i \in 1..m - 1 + 1 : e[i] = s[1 + i - 1]
      BY <2>1, SubSeqProperties
  <2> HIDE DEF e
  <2>3. Len(e) = m /\ \A i \in 1..m : e[i] = r[i]
      BY <1>1, <1>4, <2>1, <2>2
  <2>4. Len(r) = m
      BY DEF m
  <2> QED
      BY <1>1, <2>2, <2>3, <2>4, SeqEqual DEF e
<1>6. SubSeq(s, 1, m) \o SubSeq(s, m + 1, Len(s)) = SubSeq(s, 1, Len(s))
  <2>1. 1 \in 1..Len(s) + 1 /\ m \in (1 - 1)..Len(s) /\ Len(s) \in m..Len(s)
      BY <1>1, <1>2
  <2> QED
      BY <2>1, ConcatAdjacentSubSeq
<1>7. SubSeq(s, 1, Len(s)) = s
    BY SubSeqFull
<1> QED
    BY <1>3, <1>5, <1>6, <1>7 DEF r

----------------------------------------------------------------------------
(* Streams of answers.                                                     *)

\* The last piece, and whether its answer is whole; how many answers are.
EndOf(s) == Before(s, Len(s) + 1)
Whole(s) == ~Fills(EndOf(s))
Done(s)  == EndOf(s).n - IF Fills(EndOf(s)) THEN 1 ELSE 0

\* There is always something before.
LEMMA BeforeIs ==
    ASSUME NEW s \in Seq(AllPieces), NEW i \in 1..Len(s) + 1
    PROVE  /\ Before(s, i).n \in Nat /\ Before(s, i).part \in {1, 2} /\ Before(s, i).of \in {1, 2}
           /\ Fills(Before(s, i)) => Before(s, i) \in AllPieces
           /\ i = 1 => Before(s, i).n = 0 /\ ~Fills(Before(s, i))
<1>1. CASE i = 1
    BY <1>1 DEF Before, Fills
<1>2. CASE i # 1
  <2>1. i - 1 \in 1..Len(s)
      BY <1>2
  <2>2. s[i - 1] \in AllPieces
      BY <2>1
  <2> QED
      BY <1>2, <2>2 DEF Before, AllPieces
<1> QED
    BY <1>1, <1>2

\* A stream in order goes on with what follows its end.
LEMMA AppendFollows ==
    ASSUME NEW s \in Seq(AllPieces), InOrder(s), NEW p \in AllPieces, Follows(p, EndOf(s))
    PROVE  InOrder(Append(s, p)) /\ EndOf(Append(s, p)) = p /\ Append(s, p) \in Seq(AllPieces)
<1> DEFINE t == Append(s, p)
<1>1. /\ Len(s) \in Nat /\ t \in Seq(AllPieces) /\ Len(t) = Len(s) + 1
      /\ t[Len(s) + 1] = p /\ \A i \in 1..Len(s) : t[i] = s[i]
    BY AppendProperties
<1>2. DOMAIN t = 1..Len(s) + 1 /\ DOMAIN s = 1..Len(s)
    BY <1>1
<1> HIDE DEF t
<1>3. \A i \in 1..Len(s) + 1 : Before(t, i) = Before(s, i)
  <2> SUFFICES ASSUME NEW i \in 1..Len(s) + 1, i # 1 PROVE t[i - 1] = s[i - 1]
      BY DEF Before
  <2>1. i - 1 \in 1..Len(s)
      BY <1>1
  <2> QED
      BY <1>1, <2>1
<1>4. ASSUME NEW i \in DOMAIN t PROVE Follows(t[i], Before(t, i))
  <2>1. CASE i = Len(s) + 1
      BY <1>1, <1>2, <1>3, <2>1 DEF EndOf
  <2>2. CASE i # Len(s) + 1
    <3>1. i \in 1..Len(s) /\ i \in 1..Len(s) + 1
        BY <1>1, <1>2, <2>2
    <3> QED
        BY <1>1, <1>2, <1>3, <3>1 DEF InOrder
  <2> QED
      BY <2>1, <2>2
<1>5. EndOf(t) = p
  <2>1. (Len(s) + 1) + 1 # 1 /\ ((Len(s) + 1) + 1) - 1 = Len(s) + 1
      BY <1>1
  <2> QED
      BY <1>1, <2>1 DEF EndOf, Before
<1> QED
    BY <1>1, <1>4, <1>5 DEF InOrder, t

\* The answer to the next command follows whole answers, and is one.
LEMMA AnswerFollows ==
    ASSUME NEW s \in Seq(AllPieces), InOrder(s), Whole(s), NEW n \in Nat, n = EndOf(s).n + 1,
           NEW count \in {1, 2}
    PROVE  /\ InOrder(s \o Pieces(n, count)) /\ Whole(s \o Pieces(n, count))
           /\ EndOf(s \o Pieces(n, count)).n = n
<1> DEFINE p(i) == [n |-> n, part |-> i, of |-> count]
<1>1. p(1) \in AllPieces /\ p(2) \in AllPieces
    BY DEF AllPieces
<1>2. Follows(p(1), EndOf(s))
    BY DEF Follows, Whole
<1>3. /\ InOrder(Append(s, p(1))) /\ EndOf(Append(s, p(1))) = p(1)
      /\ Append(s, p(1)) \in Seq(AllPieces)
  <2> HIDE DEF p
  <2> QED
      BY <1>1, <1>2, AppendFollows
<1>4. CASE count = 1
  <2>1. Pieces(n, count) = <<p(1)>>
      BY <1>4 DEF Pieces
  <2>2. ~Fills(p(1)) /\ p(1).n = n
      BY <1>4 DEF Fills
  <2> HIDE DEF p
  <2>3. s \o <<p(1)>> = Append(s, p(1))
      BY <1>1, AppendIsConcat
  <2> QED
      BY <1>3, <2>1, <2>2, <2>3 DEF Whole
<1>5. CASE count = 2
  <2>1. Pieces(n, count) = <<p(1), p(2)>>
      BY <1>5 DEF Pieces
  <2>2. Follows(p(2), p(1)) /\ ~Fills(p(2)) /\ p(2).n = n
      BY <1>5 DEF Fills, Follows
  <2> HIDE DEF p
  <2>3. s \o <<p(1), p(2)>> = Append(Append(s, p(1)), p(2))
      BY <1>1
  <2>4. /\ InOrder(Append(Append(s, p(1)), p(2)))
        /\ EndOf(Append(Append(s, p(1)), p(2))) = p(2)
      BY <1>1, <1>3, <2>2, AppendFollows
  <2> QED
      BY <2>1, <2>2, <2>3, <2>4 DEF Whole
<1> QED
    BY <1>4, <1>5

\* A beginning of a stream in order is in order.
LEMMA InOrderPrefix ==
    ASSUME NEW p \in Seq(AllPieces), NEW q \in Seq(AllPieces), InOrder(p \o q)
    PROVE  InOrder(p) /\ \A i \in 1..Len(p) + 1 : Before(p \o q, i) = Before(p, i)
<1> DEFINE s == p \o q
<1>1. /\ Len(p) \in Nat /\ Len(q) \in Nat /\ s \in Seq(AllPieces) /\ Len(s) = Len(p) + Len(q)
      /\ \A i \in 1..Len(p) + Len(q) : s[i] = IF i <= Len(p) THEN p[i] ELSE q[i - Len(p)]
    BY ConcatProperties
<1>2. DOMAIN p = 1..Len(p) /\ DOMAIN s = 1..Len(p) + Len(q)
    BY <1>1
<1> HIDE DEF s
<1>3. \A i \in 1..Len(p) : i \in 1..Len(p) + Len(q) /\ s[i] = p[i]
    BY <1>1
<1>4. \A i \in 1..Len(p) + 1 : Before(s, i) = Before(p, i)
  <2> SUFFICES ASSUME NEW i \in 1..Len(p) + 1, i # 1 PROVE s[i - 1] = p[i - 1]
      BY DEF Before
  <2>1. i - 1 \in 1..Len(p)
      BY <1>1
  <2> QED
      BY <1>3, <2>1
<1>5. InOrder(p)
  <2> SUFFICES ASSUME NEW i \in 1..Len(p) PROVE Follows(p[i], Before(p, i))
      BY <1>2 DEF InOrder
  <2>1. i \in 1..Len(p) + 1
      BY <1>1
  <2>2. Follows(s[i], Before(s, i))
      BY <1>2, <1>3 DEF InOrder, s
  <2> QED
      BY <1>3, <1>4, <2>1, <2>2
<1> QED
    BY <1>4, <1>5 DEF s

\* Along a stream in order the numbers of the commands never go back.
LEMMA InOrderGrows ==
    ASSUME NEW s \in Seq(AllPieces), InOrder(s), NEW i \in 1..Len(s) + 1, NEW j \in i..Len(s) + 1
    PROVE  Before(s, i).n <= Before(s, j).n
<1> DEFINE N == Len(s)
           b(k) == Before(s, k + 1).n
           S == {k \in 0..N : \A h \in 0..k : b(h) <= b(k)}
<1>1. N \in Nat /\ DOMAIN s = 1..N
    OBVIOUS
<1>2. \A k \in 0..N : b(k) \in Nat
  <2> SUFFICES ASSUME NEW k \in 0..N PROVE b(k) \in Nat
      OBVIOUS
  <2>1. k + 1 \in 1..Len(s) + 1
      BY <1>1
  <2> QED
      BY <2>1, BeforeIs
<1>3. ASSUME NEW k \in 0..N - 1 PROVE b(k) <= b(k + 1)
  <2>1. k + 1 \in DOMAIN s /\ (k + 1) + 1 # 1 /\ ((k + 1) + 1) - 1 = k + 1 /\ k + 1 \in 1..Len(s) + 1
      BY <1>1
  <2>2. Follows(s[k + 1], Before(s, k + 1)) /\ Before(s, (k + 1) + 1) = s[k + 1]
      BY <2>1 DEF InOrder, Before
  <2>3. Before(s, k + 1).n \in Nat
      BY <2>1, BeforeIs
  <2>4. CASE Fills(Before(s, k + 1))
    <3>1. Before(s, k + 1) \in AllPieces
        BY <2>1, <2>4, BeforeIs
    <3>2. s[k + 1].n = Before(s, k + 1).n
        BY <2>2, <2>4, <3>1 DEF Follows, AllPieces
    <3> QED
        BY <2>2, <2>3, <3>2
  <2>5. CASE ~Fills(Before(s, k + 1))
      BY <2>2, <2>3, <2>5 DEF Follows
  <2> QED
      BY <2>4, <2>5
<1> HIDE DEF b
<1>4. 0 \in S
    BY <1>1, <1>2
<1>5. ASSUME NEW k \in 0..N - 1, k \in S PROVE k + 1 \in S
  <2>1. k + 1 \in 0..N /\ k \in 0..N
      BY <1>1
  <2>2. ASSUME NEW h \in 0..k + 1 PROVE b(h) <= b(k + 1)
    <3>1. CASE h = k + 1
        BY <1>2, <2>1, <3>1
    <3>2. CASE h # k + 1
      <4>1. h \in 0..k /\ h \in 0..N
          BY <1>1, <3>2
      <4>2. b(h) <= b(k)
          BY <1>5, <4>1
      <4> QED
          BY <1>2, <1>3, <2>1, <4>1, <4>2
    <3> QED
        BY <3>1, <3>2
  <2> QED
      BY <2>1, <2>2
<1>6. 0..N \subseteq S
  <2> HIDE DEF S, N
  <2> QED
      BY <1>1, <1>4, <1>5, UpTo
<1>7. i - 1 \in 0..(j - 1) /\ j - 1 \in 0..N /\ (i - 1) + 1 = i /\ (j - 1) + 1 = j
    BY <1>1
<1>8. b(i - 1) <= b(j - 1)
    BY <1>6, <1>7
<1> QED
    BY <1>7, <1>8 DEF b

\* Behind what has been read come the commands that have no whole answer yet.
LEMMA ComesNext ==
    ASSUME NEW p \in Seq(AllPieces), NEW q \in Seq(AllPieces), InOrder(p \o q), NEW i \in 1..Len(q)
    PROVE  q[i].n \in Nat /\ Done(p) + 1 <= q[i].n /\ q[i].n <= EndOf(p \o q).n
<1> DEFINE s == p \o q
<1>1. /\ Len(p) \in Nat /\ Len(q) \in Nat /\ s \in Seq(AllPieces) /\ Len(s) = Len(p) + Len(q)
      /\ \A h \in 1..Len(p) + Len(q) : s[h] = IF h <= Len(p) THEN p[h] ELSE q[h - Len(p)]
    BY ConcatProperties
<1>2. DOMAIN s = 1..Len(s) /\ InOrder(s)
    BY <1>1
<1>3. Before(s, Len(p) + 1) = EndOf(p)
  <2>1. Len(p) + 1 \in 1..Len(p) + 1
      BY <1>1
  <2> QED
      BY <2>1, InOrderPrefix DEF EndOf
<1> HIDE DEF s
<1>4. q[i] = s[Len(p) + i]
    BY <1>1
<1>5. /\ (Len(p) + i) + 1 \in (Len(p) + 2)..Len(s) + 1
      /\ Before(s, (Len(p) + i) + 1) = s[Len(p) + i]
  <2>1. (Len(p) + i) + 1 # 1 /\ ((Len(p) + i) + 1) - 1 = Len(p) + i
      BY <1>1
  <2>2. (Len(p) + i) + 1 \in (Len(p) + 2)..Len(s) + 1
      BY <1>1
  <2> QED
      BY <2>1, <2>2 DEF Before
<1>6. s[Len(p) + 1].n <= q[i].n /\ q[i].n <= EndOf(s).n
  <2>1. /\ Len(p) + 2 \in 1..Len(s) + 1 /\ (Len(p) + i) + 1 \in 1..Len(s) + 1
        /\ (Len(p) + i) + 1 \in (Len(p) + 2)..Len(s) + 1
        /\ Len(s) + 1 \in ((Len(p) + i) + 1)..Len(s) + 1
      BY <1>1, <1>5
  <2>2. Before(s, Len(p) + 2) = s[Len(p) + 1]
    <3>1. Len(p) + 2 # 1 /\ (Len(p) + 2) - 1 = Len(p) + 1
        BY <1>1
    <3> QED
        BY <3>1 DEF Before
  <2>3. Before(s, Len(p) + 2).n <= Before(s, (Len(p) + i) + 1).n
      BY <1>1, <1>2, <2>1, InOrderGrows
  <2>4. Before(s, (Len(p) + i) + 1).n <= Before(s, Len(s) + 1).n
      BY <1>1, <1>2, <2>1, InOrderGrows
  <2> QED
      BY <1>4, <1>5, <2>2, <2>3, <2>4 DEF EndOf
<1>7. s[Len(p) + 1].n = Done(p) + 1
  <2>1. Len(p) + 1 \in DOMAIN s /\ Len(p) + 1 \in 1..Len(s) + 1
      BY <1>1, <1>2
  <2>2. Follows(s[Len(p) + 1], EndOf(p))
      BY <1>2, <1>3, <2>1 DEF InOrder
  <2>3. EndOf(p).n \in Nat /\ (Fills(EndOf(p)) => EndOf(p) \in AllPieces)
      BY <1>1, <1>3, <2>1, BeforeIs
  <2>4. CASE Fills(EndOf(p))
    <3>1. s[Len(p) + 1].n = EndOf(p).n
        BY <2>2, <2>3, <2>4 DEF Follows, AllPieces
    <3> QED
        BY <2>3, <2>4, <3>1 DEF Done
  <2>5. CASE ~Fills(EndOf(p))
      BY <2>2, <2>3, <2>5 DEF Follows, Done
  <2> QED
      BY <2>4, <2>5
<1>8. q[i].n \in Nat
  <2>1. q[i] \in AllPieces
      OBVIOUS
  <2> QED
      BY <2>1 DEF AllPieces
<1> QED
    BY <1>6, <1>7, <1>8 DEF s

----------------------------------------------------------------------------
(* How far the command line falls behind.                                  *)

\* The commands before n that were not shown a whole answer to something.
Slipped(rs, n) == {m \in 1..n - 1 : LET ps == rs[m].pieces IN ps = << >> \/ Fills(ps[Len(ps)])}
Slipping(n) == Cardinality(Slipped(shown, n))

LEMMA SlipsAre == \A n : Slips(n) = Slipping(n)
    BY DEF Slips, Slipping, Slipped, EndsCut

\* Each result that is not a whole answer is one slip more.
LEMMA SlippedIs ==
    ASSUME NEW rs \in Seq(Results), NEW r \in Results, NEW t, t = Append(rs, r)
    PROVE  /\ \A n \in 1..Len(rs) + 1 : /\ Slipped(t, n) = Slipped(rs, n)
                                        /\ Cardinality(Slipped(rs, n)) \in Nat
           /\ Cardinality(Slipped(t, Len(rs) + 2)) =
                 Cardinality(Slipped(rs, Len(rs) + 1))
                     + IF r.pieces = << >> \/ Fills(r.pieces[Len(r.pieces)]) THEN 1 ELSE 0
<1> DEFINE N == Len(rs)
           Slip == r.pieces = << >> \/ Fills(r.pieces[Len(r.pieces)])
<1>1. /\ N \in Nat /\ t[N + 1] = r /\ \A m \in 1..N : t[m] = rs[m]
    BY AppendProperties
<1> HIDE DEF N
<1>2. \A n \in 1..N + 1 : Slipped(t, n) = Slipped(rs, n)
  <2> SUFFICES ASSUME NEW n \in 1..N + 1 PROVE Slipped(t, n) = Slipped(rs, n)
      OBVIOUS
  <2>1. ASSUME NEW m \in 1..n - 1 PROVE t[m] = rs[m]
    <3>1. m \in 1..N
        BY <1>1
    <3> QED
        BY <1>1, <3>1
  <2> QED
      BY <2>1 DEF Slipped
<1>3. \A n \in 1..N + 1 : IsFiniteSet(Slipped(rs, n))
  <2> SUFFICES ASSUME NEW n \in 1..N + 1 PROVE IsFiniteSet(Slipped(rs, n))
      OBVIOUS
  <2>1. 1 \in Int /\ n - 1 \in Int
      BY <1>1
  <2>2. IsFiniteSet(1..n - 1)
      BY <2>1, FS_Interval
  <2>3. Slipped(rs, n) \subseteq 1..n - 1
      BY DEF Slipped
  <2> QED
      BY <2>2, <2>3, FS_Subset
<1>4. \A n \in 1..N + 1 : Cardinality(Slipped(rs, n)) \in Nat
    BY <1>3, FS_CardinalityType
<1> DEFINE A == Slipped(rs, N + 1)
           B == Slipped(t, N + 2)
<1>5. IsFiniteSet(A) /\ Cardinality(A) \in Nat /\ N + 1 \notin A
  <2>1. N + 1 \in 1..N + 1
      BY <1>1
  <2>2. N + 1 \notin A
      BY <1>1 DEF Slipped
  <2> QED
      BY <1>3, <1>4, <2>1, <2>2
<1>6. B = IF Slip THEN A \cup {N + 1} ELSE A
  <2>1. 1..(N + 2) - 1 = (1..(N + 1) - 1) \cup {N + 1} /\ (1..(N + 1) - 1) = 1..N
      BY <1>1
  <2> QED
      BY <1>1, <2>1 DEF Slipped
<1> HIDE DEF A, B, Slip
<1>7. Cardinality(B) = Cardinality(A) + IF Slip THEN 1 ELSE 0
  <2>1. CASE Slip
    <3>1. Cardinality(A \cup {N + 1}) = Cardinality(A) + 1
        BY <1>5, FS_AddElement
    <3> QED
        BY <1>6, <2>1, <3>1
  <2>2. CASE ~Slip
      BY <1>5, <1>6, <2>2
  <2> QED
      BY <2>1, <2>2
<1> QED
    BY <1>2, <1>4, <1>7 DEF A, B, N, Slip

\* What is shown lags by the slips at most, and so many answers are complete.
Lag(rs) ==
    /\ \A n \in DOMAIN rs : \A i \in DOMAIN rs[n].pieces :
          rs[n].pieces[i].n \in n - Cardinality(Slipped(rs, n))..n
    /\ Len(rs) <= Done(PiecesOf(rs)) + Cardinality(Slipped(rs, Len(rs) + 1))

LEMMA LagGrows ==
    ASSUME NEW rs \in Seq(Results), Lag(rs), NEW r \in Results,
           InOrder(PiecesOf(rs) \o r.pieces),
           \A i \in DOMAIN r.pieces : r.pieces[i].n <= Len(rs) + 1
    PROVE  Lag(Append(rs, r))
<1> DEFINE t == Append(rs, r)
           N == Len(rs)
           p == PiecesOf(rs)
           q == r.pieces
           slips(n) == Cardinality(Slipped(rs, n))
           Slip == q = << >> \/ Fills(q[Len(q)])
<1>1. /\ N \in Nat /\ t \in Seq(Results) /\ Len(t) = N + 1
      /\ t[N + 1] = r /\ \A m \in 1..N : t[m] = rs[m]
      /\ DOMAIN t = 1..N + 1 /\ DOMAIN rs = 1..N
  <2>1. /\ N \in Nat /\ t \in Seq(Results) /\ Len(t) = N + 1
        /\ t[N + 1] = r /\ \A m \in 1..N : t[m] = rs[m]
      BY AppendProperties
  <2> HIDE DEF t
  <2> QED
      BY <2>1
<1>2. /\ q \in Seq(AllPieces) /\ p \in Seq(AllPieces) /\ PiecesOf(t) = p \o q
  <2>1. q \in Seq(AllPieces)
      BY DEF Results
  <2> QED
      BY <2>1, PiecesOfAppend
<1>3. /\ \A n \in 1..N + 1 : Slipped(t, n) = Slipped(rs, n) /\ slips(n) \in Nat
      /\ Cardinality(Slipped(t, N + 2)) = slips(N + 1) + IF Slip THEN 1 ELSE 0
    BY SlippedIs
<1>4. N <= Done(p) + slips(N + 1)
    BY DEF Lag
<1>5. Len(p) \in Nat /\ Len(q) \in Nat /\ DOMAIN q = 1..Len(q) /\ Len(p \o q) = Len(p) + Len(q)
  <2>1. Len(p \o q) = Len(p) + Len(q)
      BY <1>2, ConcatProperties
  <2> HIDE DEF p, q
  <2> QED
      BY <1>2, <2>1
<1>6. Done(p) \in Int
  <2>1. Len(p) + 1 \in 1..Len(p) + 1
      BY <1>5
  <2>2. Before(p, Len(p) + 1).n \in Nat
      BY <1>2, <2>1, BeforeIs
  <2> QED
      BY <2>2 DEF Done, EndOf
<1>7. \A i \in 1..Len(q) : q[i].n \in Nat /\ Done(p) + 1 <= q[i].n /\ q[i].n <= N + 1
    BY <1>2, <1>5, ComesNext
<1>8. /\ q = << >> => Done(p \o q) = Done(p)
      /\ q # << >> => Done(p \o q) = q[Len(q)].n - IF Fills(q[Len(q)]) THEN 1 ELSE 0
  <2>1. CASE q = << >>
    <3>1. p \o q = p
        BY <1>2, <2>1, ConcatEmptySeq
    <3> QED
        BY <2>1, <3>1
  <2>2. CASE q # << >>
    <3>1. Len(q) # 0
        BY <1>2, <2>2
    <3>2. (p \o q)[Len(p) + Len(q)] = q[Len(q)]
      <4>1. \A i \in 1..Len(p) + Len(q) : (p \o q)[i] = IF i <= Len(p) THEN p[i] ELSE q[i - Len(p)]
          BY <1>2, ConcatProperties
      <4>2. /\ Len(p) + Len(q) \in 1..Len(p) + Len(q) /\ ~(Len(p) + Len(q) <= Len(p))
            /\ (Len(p) + Len(q)) - Len(p) = Len(q)
          BY <1>5, <3>1
      <4> QED
          BY <4>1, <4>2
    <3>3. EndOf(p \o q) = q[Len(q)]
      <4>1. Len(p \o q) + 1 # 1 /\ (Len(p \o q) + 1) - 1 = Len(p) + Len(q)
          BY <1>5, <3>1
      <4> QED
          BY <3>2, <4>1 DEF EndOf, Before
    <3> QED
        BY <2>2, <3>3 DEF Done
  <2> QED
      BY <2>1, <2>2
<1> HIDE DEF t, N, p, q, slips, Slip
<1>9. ASSUME NEW n \in DOMAIN t, NEW i \in DOMAIN t[n].pieces
      PROVE  t[n].pieces[i].n \in n - Cardinality(Slipped(t, n))..n
  <2>1. CASE n = N + 1
    <3>1. /\ n \in 1..N + 1 /\ t[n].pieces = q /\ i \in 1..Len(q)
          /\ Cardinality(Slipped(t, n)) = slips(N + 1)
        BY <1>1, <1>3, <1>5, <1>9, <2>1 DEF q, slips
    <3>2. q[i].n \in Nat /\ Done(p) + 1 <= q[i].n /\ q[i].n <= N + 1 /\ slips(N + 1) \in Nat
        BY <1>3, <1>7, <2>1, <3>1
    <3>3. (N + 1) - slips(N + 1) <= q[i].n
        BY <1>1, <1>4, <1>6, <3>2
    <3>4. q[i].n \in (N + 1) - slips(N + 1)..N + 1
        BY <1>1, <3>2, <3>3
    <3>5. t[n].pieces[i] = q[i]
        BY <3>1, Zenon
    <3>6. n - Cardinality(Slipped(t, n)) = (N + 1) - slips(N + 1)
        BY <2>1, <3>1, Zenon
    <3> QED
        BY <2>1, <3>4, <3>5, <3>6, Zenon
  <2>2. CASE n # N + 1
    <3>1. n \in 1..N /\ n \in 1..N + 1
        BY <1>1, <2>2
    <3>2. t[n] = rs[n] /\ Slipped(t, n) = Slipped(rs, n)
        BY <1>1, <1>3, <3>1
    <3> QED
        BY <1>1, <1>9, <3>1, <3>2 DEF Lag
  <2> QED
      BY <2>1, <2>2
<1>10. Len(t) <= Done(PiecesOf(t)) + Cardinality(Slipped(t, Len(t) + 1))
  <2>1. Len(t) = N + 1 /\ Len(t) + 1 = N + 2 /\ N + 1 \in 1..N + 1
      BY <1>1
  <2>2. slips(N + 1) \in Nat
      BY <1>3, <2>1
  <2> DEFINE d == Done(p \o q)
             more == IF Slip THEN 1 ELSE 0
  <2>3. SUFFICES N + 1 <= d + (slips(N + 1) + more)
    <3>1. Done(PiecesOf(t)) = d
        BY <1>2, Zenon
    <3>2. Cardinality(Slipped(t, Len(t) + 1)) = slips(N + 1) + more
        BY <1>3, <2>1, Zenon
    <3> QED
        BY <2>1, <3>1, <3>2, Zenon
  <2>4. CASE q = << >>
    <3>1. more = 1 /\ d = Done(p)
        BY <1>8, <2>4 DEF Slip
    <3> HIDE DEF d, more
    <3> QED
        BY <1>1, <1>4, <1>6, <2>2, <3>1
  <2>5. CASE q # << >>
    <3>1. Slip <=> Fills(q[Len(q)])
        BY <2>5 DEF Slip
    <3>2. Len(q) \in 1..Len(q)
      <4>1. Len(q) # 0
          BY <1>2, <2>5
      <4> QED
          BY <1>5, <4>1
    <3>3. q[Len(q)].n \in Nat /\ Done(p) + 1 <= q[Len(q)].n
        BY <1>7, <3>2
    <3>4. d = q[Len(q)].n - more /\ more \in {0, 1}
        BY <1>8, <2>5, <3>1
    <3> HIDE DEF d, more
    <3> QED
        BY <1>1, <1>4, <1>6, <2>2, <3>3, <3>4
  <2> QED
      BY <2>4, <2>5
<1>11. Lag(t)
    BY <1>9, <1>10 DEF Lag
<1> QED
    BY <1>11 DEF t

----------------------------------------------------------------------------
(* The command line's connection.                                          *)

\* Whether the server is in a BENCH of the command line.
Busy(b) == IF b # NONE /\ b.conn = Cli THEN 1 ELSE 0
SentByCli == Len(shown) + IF cli = "recv" THEN 1 ELSE 0

\* Of the commands sent, those behind the last answer are the one in BENCH and the
\* unread ones, in their order; a dead process answers none of them.
Owed(last, conn, b, count) ==
    /\ last <= count
    /\ conn.end = "live" => /\ b # NONE /\ b.conn = Cli => b.n = last + 1
                            /\ \A i \in DOMAIN conn.inp : conn.inp[i].n = last + Busy(b) + i
                            /\ last + Busy(b) + Len(conn.inp) = count
    /\ conn.end # "live" => Busy(b) = 0

\* The inductive invariant about the command line, beside SInv.
CliInv ==
    /\ InOrder(CliStream)
    /\ cli # "ended" => /\ Whole(CliStream)
                        /\ Owed(EndOf(CliStream).n, conns[Cli], bench, SentByCli)
    /\ Lag(shown)

\* The types of what it is about.
LEMMA CliTypes ==
    ASSUME SInv
    PROVE  /\ shown \in Seq(Results) /\ Len(shown) \in Nat /\ SentByCli \in Nat
           /\ PiecesOf(shown) \in Seq(AllPieces)
           /\ cli # "ended" =>
                 /\ Cli \in DOMAIN conns /\ conns[Cli].open /\ conns[Cli] \in Connections
                 /\ conns[Cli].out \in Seq(AllPieces) /\ conns[Cli].inp \in Seq(Requests)
                 /\ CliStream = PiecesOf(shown) \o conns[Cli].out
                 /\ CliStream \in Seq(AllPieces) /\ EndOf(CliStream).n \in Nat
<1>1. shown \in Seq(Results)
    BY DEF SInv, ClientsOK
<1>2. Len(shown) \in Nat
    BY <1>1
<1>3. PiecesOf(shown) \in Seq(AllPieces)
    BY <1>1, PiecesOfIs
<1>4. ASSUME cli # "ended"
      PROVE  /\ Cli \in DOMAIN conns /\ conns[Cli].open /\ conns[Cli] \in Connections
             /\ conns[Cli].out \in Seq(AllPieces) /\ conns[Cli].inp \in Seq(Requests)
             /\ CliStream = PiecesOf(shown) \o conns[Cli].out
             /\ CliStream \in Seq(AllPieces) /\ EndOf(CliStream).n \in Nat
  <2>1. Cli \in DOMAIN conns /\ conns[Cli].open /\ conns[Cli] \in Connections
      BY <1>4 DEF SInv, Waiting, ConnsTyped
  <2>2. conns[Cli].out \in Seq(AllPieces) /\ conns[Cli].inp \in Seq(Requests)
      BY <2>1 DEF Connections
  <2>3. CliStream = PiecesOf(shown) \o conns[Cli].out
      BY <1>4 DEF CliStream
  <2>4. CliStream \in Seq(AllPieces)
      BY <1>3, <2>2, <2>3, ConcatProperties
  <2>5. EndOf(CliStream).n \in Nat
    <3>1. Len(CliStream) + 1 \in 1..Len(CliStream) + 1
        BY <2>4
    <3> QED
        BY <2>4, <3>1, BeforeIs DEF EndOf
  <2> QED
      BY <2>1, <2>2, <2>3, <2>4, <2>5
<1>5. SentByCli \in Nat
    BY <1>2 DEF SentByCli
<1> QED
    BY <1>1, <1>2, <1>3, <1>4, <1>5

\* The ways to change a table of connections leave an open one alone that they are not about.
LEMMA CliKept ==
    ASSUME NEW cs, Cli \in DOMAIN cs, cs[Cli].open, NEW c, c # Cli, NEW pieces
    PROVE  Reaped(cs)[Cli] = cs[Cli] /\ Closed(cs, c)[Cli] = cs[Cli] /\ Send(cs, c, pieces)[Cli] = cs[Cli]
<1>1. Reaped(cs)[Cli] = cs[Cli]
    BY DEF Reaped
<1>2. Closed(cs, c)[Cli] = cs[Cli]
  <2> DEFINE ds == [cs EXCEPT ![c].open = FALSE]
  <2>1. Cli \in DOMAIN ds /\ ds[Cli] = cs[Cli]
      OBVIOUS
  <2> HIDE DEF ds
  <2>2. Reaped(ds)[Cli] = ds[Cli]
      BY <2>1 DEF Reaped
  <2> QED
      BY <2>1, <2>2 DEF Closed, ds
<1>3. Send(cs, c, pieces)[Cli] = cs[Cli]
    BY <1>1 DEF Send
<1> QED
    BY <1>1, <1>2, <1>3

\* Steps that the command line does not see, but for the death of the process.
LEMMA CliUntouched ==
    ASSUME SInv, CliInv, UNCHANGED <<cli, shown>>,
           cli # "ended" =>
               \/ /\ conns'[Cli] = conns[Cli] /\ Busy(bench') = Busy(bench)
                  /\ bench' # NONE /\ bench'.conn = Cli => bench'.n = bench.n
               \/ /\ conns'[Cli].out = conns[Cli].out /\ conns'[Cli].end # "live"
                  /\ bench' = NONE
    PROVE  CliInv'
<1>1. SentByCli' = SentByCli
    BY DEF SentByCli
<1>2. CliStream' = CliStream
    BY DEF CliStream
<1>3. ASSUME cli # "ended"
      PROVE  Owed(EndOf(CliStream).n, conns'[Cli], bench', SentByCli)
  <2>1. Owed(EndOf(CliStream).n, conns[Cli], bench, SentByCli)
      BY <1>3 DEF CliInv
  <2>2. CASE /\ conns'[Cli] = conns[Cli] /\ Busy(bench') = Busy(bench)
             /\ bench' # NONE /\ bench'.conn = Cli => bench'.n = bench.n
    <3>1. bench' # NONE /\ bench'.conn = Cli => bench # NONE /\ bench.conn = Cli
        BY <2>2 DEF Busy
    <3> QED
        BY <2>1, <2>2, <3>1 DEF Owed
  <2>3. CASE conns'[Cli].end # "live" /\ bench' = NONE
      BY <2>1, <2>3 DEF Owed, Busy
  <2> QED
      BY <1>3, <2>2, <2>3
<1>4. InOrder(CliStream') /\ Lag(shown') /\ (cli' # "ended" => Whole(CliStream'))
    BY <1>2 DEF CliInv
<1> QED
    BY <1>1, <1>2, <1>3, <1>4 DEF CliInv

\* The answer to the command that is next.
LEMMA CliAnswered ==
    ASSUME SInv, CliInv, UNCHANGED <<cli, shown>>, cli # "ended", conns[Cli].end = "live",
           NEW n, n = EndOf(CliStream).n + 1, NEW count \in {1, 2},
           conns'[Cli].out = conns[Cli].out \o Pieces(n, count), conns'[Cli].end = "live",
           bench' = NONE,
           \A i \in DOMAIN conns'[Cli].inp : conns'[Cli].inp[i].n = n + i,
           n + Len(conns'[Cli].inp) = SentByCli, Len(conns'[Cli].inp) \in Nat
    PROVE  CliInv'
<1> DEFINE p == PiecesOf(shown)
           o == conns[Cli].out
           a == Pieces(n, count)
<1>1. /\ p \in Seq(AllPieces) /\ o \in Seq(AllPieces) /\ n \in Nat
      /\ CliStream = p \o o /\ CliStream \in Seq(AllPieces) /\ SentByCli \in Nat
    BY CliTypes
<1>2. a \in Seq(AllPieces)
    BY <1>1, PiecesAre
<1>3. InOrder(CliStream) /\ Whole(CliStream)
    BY DEF CliInv
<1>4. CliStream' = p \o (o \o a)
    BY DEF CliStream
<1> HIDE DEF p, o, a
<1>5. CliStream' = CliStream \o a
  <2>1. p \in Seq(AllPieces) /\ o \in Seq(AllPieces) /\ a \in Seq(AllPieces)
      BY <1>1, <1>2
  <2>2. (p \o o) \o a = p \o (o \o a)
      BY <2>1, PiecesRegroup
  <2> QED
      BY <1>1, <1>4, <2>2, Zenon
<1>6. InOrder(CliStream \o a) /\ Whole(CliStream \o a) /\ EndOf(CliStream \o a).n = n
    BY <1>1, <1>3, AnswerFollows DEF a
<1>7. Owed(n, conns'[Cli], bench', SentByCli)
  <2>1. Busy(bench') = 0
      BY DEF Busy
  <2>2. \A i \in DOMAIN conns'[Cli].inp : n + Busy(bench') + i = n + i
    <3>1. n + Busy(bench') = n
        BY <1>1, <2>1
    <3> QED
        BY <3>1
  <2>3. n + Busy(bench') + Len(conns'[Cli].inp) = n + Len(conns'[Cli].inp)
      BY <1>1, <2>1
  <2>4. n <= SentByCli
      BY <1>1
  <2> QED
      BY <2>1, <2>2, <2>3, <2>4 DEF Owed
<1>8. SentByCli' = SentByCli /\ Lag(shown')
    BY DEF SentByCli, CliInv
<1> QED
    BY <1>5, <1>6, <1>7, <1>8 DEF CliInv

\* Dying leaves what was sent.
LEMMA CliDies ==
    ASSUME NEW cs, Cli \in DOMAIN cs, cs[Cli].open, cs[Cli] \in Connections,
           NEW served, Dies(cs, served)
    PROVE  conns'[Cli].out = cs[Cli].out /\ conns'[Cli].end # "live" /\ bench' = NONE
<1> DEFINE conn(c, read) ==
               [cs[c] EXCEPT !.inp = << >>,
                             !.end = IF @ # "live" THEN @
                                     ELSE IF cs[c].inp = << >> \/ c = read THEN "closed" ELSE "reset"]
<1>1. /\ bench' = NONE
      /\ \E read \in served \cup {NONE} : conns' = Reaped([c \in DOMAIN cs |-> conn(c, read)])
    BY DEF Dies
<1>2. PICK read : conns' = Reaped([c \in DOMAIN cs |-> conn(c, read)])
    BY <1>1
<1> DEFINE ds == [c \in DOMAIN cs |-> conn(c, read)]
<1>3. Cli \in DOMAIN ds /\ ds[Cli] = conn(Cli, read)
    OBVIOUS
<1>4. /\ conn(Cli, read).open = cs[Cli].open /\ conn(Cli, read).out = cs[Cli].out
      /\ conn(Cli, read).end # "live"
    BY DEF Connections
<1> HIDE DEF ds, conn
<1>5. Reaped(ds)[Cli] = ds[Cli]
    BY <1>3, <1>4 DEF Reaped
<1>6. conns' = Reaped(ds)
    BY <1>2 DEF ds
<1> QED
    BY <1>1, <1>3, <1>4, <1>5, <1>6

\* handle_client(): the next command is answered, begun, or the last of the process.
LEMMA ExecuteCli ==
    ASSUME SInv, CliInv, NEW c \in DOMAIN conns, Execute(c)
    PROVE  CliInv'
<1> DEFINE request == Head(conns[c].inp)
           cmd  == request.cmd
           rest == [conns EXCEPT ![c].inp = Tail(@)]
<1>1. bench = NONE /\ conns[c].inp # << >> /\ UNCHANGED <<cli, shown>>
    BY DEF Execute, cliVars
<1>2. CASE cli = "ended"
    BY <1>1, <1>2, CliUntouched
<1>3. /\ conns \in [DOMAIN conns -> Connections]
      /\ conns[c].inp \in Seq(Requests)
    BY DEF SInv, ConnsTyped, Connections
<1>4. ASSUME cli # "ended", Dies(rest, {c}) PROVE CliInv'
  <2> DEFINE conn == [conns[c] EXCEPT !.inp = Tail(@)]
  <2>1. conns[c] \in Connections /\ Tail(conns[c].inp) \in Seq(Requests)
      BY <1>1, <1>3, HeadTailProperties
  <2>2. conn \in Connections /\ conn.open = conns[c].open /\ conn.out = conns[c].out
      BY <2>1 DEF Connections
  <2>3. rest = [conns EXCEPT ![c] = conn]
      OBVIOUS
  <2>4. Cli \in DOMAIN conns /\ conns[Cli].open /\ conns[Cli] \in Connections
      BY <1>4, CliTypes
  <2> HIDE DEF rest, conn
  <2>5. Cli \in DOMAIN rest /\ rest[Cli].open /\ rest[Cli] \in Connections /\ rest[Cli].out = conns[Cli].out
      BY <1>3, <2>2, <2>3, <2>4
  <2>6. conns'[Cli].out = conns[Cli].out /\ conns'[Cli].end # "live" /\ bench' = NONE
      BY <1>4, <2>5, CliDies
  <2> QED
      BY <1>1, <2>6, CliUntouched
<1>5. CASE cli # "ended" /\ c # Cli
  <2>1. /\ Cli \in DOMAIN rest /\ rest[Cli] = conns[Cli] /\ conns[Cli].open
      BY <1>3, <1>5, CliTypes
  <2>2. CASE /\ bench' = [conn |-> c, n |-> request.n, done |-> 0, rounds |-> Rounds(cmd)]
             /\ conns' = rest
    <3>1. Busy(bench') = 0 /\ Busy(bench) = 0
        BY <1>1, <1>5, <2>2 DEF Busy
    <3>2. bench'.conn # Cli
        BY <1>5, <2>2
    <3>3. conns'[Cli] = conns[Cli]
        BY <2>1, <2>2
    <3> QED
        BY <1>1, <3>1, <3>2, <3>3, CliUntouched
  <2>3. CASE conns' = Send(rest, c, AnswerTo(request)) /\ bench' = bench
    <3> HIDE DEF rest
    <3>1. conns'[Cli] = conns[Cli]
        BY <1>5, <2>1, <2>3, CliKept
    <3>2. Busy(bench') = Busy(bench) /\ bench' = NONE
        BY <1>1, <2>3
    <3> QED
        BY <1>1, <3>1, <3>2, CliUntouched
  <2> QED
      BY <1>4, <1>5, <2>2, <2>3 DEF Execute
<1>6. CASE cli # "ended" /\ c = Cli
  <2> DEFINE last == EndOf(CliStream).n
             inp  == conns[Cli].inp
             conn == [conns[Cli] EXCEPT !.inp = Tail(@)]
  <2>1. /\ Cli \in DOMAIN conns /\ conns[Cli].open /\ conns[Cli] \in Connections
        /\ inp \in Seq(Requests) /\ inp # << >> /\ last \in Nat /\ SentByCli \in Nat
      BY <1>1, <1>6, CliTypes
  <2>2. conns[Cli].end = "live"
      BY <1>1, <1>6, <2>1 DEF SInv, EndsSeen
  <2>3. Owed(last, conns[Cli], bench, SentByCli)
      BY <1>6 DEF CliInv
  <2>4. /\ request = inp[1] /\ Len(inp) \in Nat \ {0} /\ DOMAIN inp = 1..Len(inp)
        /\ Tail(inp) \in Seq(Requests) /\ Len(Tail(inp)) = Len(inp) - 1
        /\ \A i \in 1..Len(Tail(inp)) : Tail(inp)[i] = inp[i + 1]
        /\ DOMAIN Tail(inp) = 1..Len(inp) - 1
    <3>1. /\ Tail(inp) \in Seq(Requests) /\ Len(Tail(inp)) = Len(inp) - 1
          /\ \A i \in 1..Len(Tail(inp)) : Tail(inp)[i] = inp[i + 1]
        BY <2>1, HeadTailProperties
    <3>2. request = inp[1] /\ Len(inp) \in Nat \ {0} /\ DOMAIN inp = 1..Len(inp)
        BY <1>6, <2>1
    <3>3. DOMAIN Tail(inp) = 1..Len(Tail(inp))
        BY <3>1
    <3> QED
        BY <3>1, <3>2, <3>3
  <2>5. /\ \A i \in 1..Len(inp) : inp[i].n = last + i
        /\ last + Len(inp) = SentByCli
    <3>1. Busy(bench) = 0 /\ last + 0 = last
        BY <1>1, <2>1 DEF Busy
    <3> QED
        BY <2>2, <2>3, <2>4, <3>1 DEF Owed
  <2>6. /\ conn.inp = Tail(inp) /\ conn.out = conns[Cli].out /\ conn.end = "live" /\ conn.open
        /\ rest = [conns EXCEPT ![Cli] = conn]
      BY <1>6, <2>1, <2>2 DEF Connections
  <2>7. /\ request.n = last + 1
        /\ \A i \in DOMAIN Tail(inp) : Tail(inp)[i].n = request.n + i
        /\ request.n + Len(Tail(inp)) = SentByCli
    <3>1. 1 \in 1..Len(inp)
        BY <2>4
    <3>2. request.n = last + 1
        BY <2>4, <2>5, <3>1
    <3>3. ASSUME NEW i \in DOMAIN Tail(inp) PROVE Tail(inp)[i].n = request.n + i
      <4>1. i \in 1..Len(Tail(inp)) /\ i + 1 \in 1..Len(inp)
          BY <2>4
      <4>2. Tail(inp)[i].n = last + (i + 1)
          BY <2>4, <2>5, <4>1
      <4>3. i \in Int /\ last + (i + 1) = (last + 1) + i
          BY <2>1, <4>1
      <4> QED
          BY <3>2, <4>2, <4>3
    <3> QED
        BY <2>1, <2>4, <2>5, <3>2, <3>3
  <2>8. request \in Requests
      BY <1>6, <2>1, HeadTailProperties
  <2>9. rest[Cli] = conn /\ Cli \in DOMAIN rest
      BY <1>3, <2>1, <2>6
  <2> HIDE DEF request, rest, last, inp, conn
  <2>10. CASE /\ Benches(cmd)
             /\ bench' = [conn |-> c, n |-> request.n, done |-> 0, rounds |-> Rounds(cmd)]
             /\ conns' = rest
    <3>1. Busy(bench') = 1 /\ bench'.n = last + 1
      <4>1. bench'.conn = Cli /\ bench'.n = request.n
          BY <1>6, <2>10
      <4>2. bench' # NONE
        <5>1. cmd \in Parsed /\ request.n \in Nat
            BY <2>8 DEF Requests, cmd
        <5>2. Rounds(cmd) \in Int
            BY <2>10, <5>1, LinesAssumption DEF Parsed
        <5>3. bench' \in [conn : Nat, n : Nat, done : Nat, rounds : Int]
            BY <1>6, <2>10, <5>1, <5>2 DEF Cli
        <5> QED
            BY <5>3, SessionsAssumption
      <4> QED
          BY <2>7, <4>1, <4>2 DEF Busy
    <3>2. conns'[Cli] = conn
        BY <2>9, <2>10
    <3>3. Owed(last, conn, bench', SentByCli)
      <4>1. last <= SentByCli
          BY <2>1, <2>4, <2>5
      <4>2. \A i \in DOMAIN conn.inp : conn.inp[i].n = last + Busy(bench') + i
          BY <2>6, <2>7, <3>1
      <4>3. last + Busy(bench') + Len(conn.inp) = SentByCli
          BY <2>6, <2>7, <3>1
      <4> QED
          BY <2>6, <3>1, <4>1, <4>2, <4>3 DEF Owed
    <3>4. CliStream' = CliStream /\ SentByCli' = SentByCli
        BY <1>1, <2>6, <3>2 DEF CliStream, SentByCli
    <3> QED
        BY <1>1, <1>6, <3>2, <3>3, <3>4 DEF CliInv, last
  <2>11. CASE conns' = Send(rest, c, AnswerTo(request)) /\ bench' = bench
    <3>1. PICK count \in {1, 2} : AnswerTo(request) = Pieces(request.n, count)
        BY DEF AnswerTo
    <3>2. conns'[Cli] = [conn EXCEPT !.out = @ \o Pieces(request.n, count)]
        BY <1>6, <2>6, <2>9, <2>11, <3>1 DEF Send
    <3>3. conn \in Connections
        BY <2>1, <2>4 DEF conn, inp, Connections
    <3>4. /\ conns'[Cli].out = conns[Cli].out \o Pieces(request.n, count)
          /\ conns'[Cli].end = "live" /\ conns'[Cli].inp = Tail(inp)
        BY <2>6, <3>2, <3>3 DEF Connections
    <3>5. Len(Tail(inp)) \in Nat
        BY <2>4
    <3>6. bench' = NONE /\ cli # "ended" /\ request.n = EndOf(CliStream).n + 1
        BY <1>1, <1>6, <2>7, <2>11 DEF last
    <3> QED
        BY <1>1, <2>2, <2>7, <3>4, <3>5, <3>6, CliAnswered
  <2> QED
      BY <1>4, <1>6, <2>10, <2>11 DEF Execute, request, rest
<1> QED
    BY <1>2, <1>5, <1>6

\* BENCH answers the command line at its end, and nothing before.
LEMMA BenchCli ==
    ASSUME SInv, CliInv, BenchRound \/ BenchDone
    PROVE  CliInv'
<1>1. bench # NONE /\ bench \in Benching
    BY DEF BenchRound, BenchDone, SInv, BenchTyped
<1>2. UNCHANGED <<cli, shown>>
    BY DEF BenchRound, BenchDone, cliVars
<1>3. CASE BenchRound
  <2>1. conns' = conns /\ bench' = [bench EXCEPT !.done = @ + 1]
      BY <1>3 DEF BenchRound
  <2>2. bench'.conn = bench.conn /\ bench'.n = bench.n /\ bench' \in Benching
      BY <1>1, <2>1 DEF Benching
  <2>3. bench' # NONE
      BY <2>2, SessionsAssumption DEF Benching
  <2>4. Busy(bench') = Busy(bench)
      BY <1>1, <2>2, <2>3 DEF Busy
  <2> QED
      BY <1>2, <2>1, <2>2, <2>4, CliUntouched
<1>4. CASE BenchDone
  <2>1. conns' = Send(conns, bench.conn, Pieces(bench.n, 1)) /\ bench' = NONE
      BY <1>4 DEF BenchDone
  <2>2. CASE cli = "ended"
      BY <1>2, <2>2, CliUntouched
  <2>3. CASE cli # "ended" /\ bench.conn # Cli
    <3>1. conns'[Cli] = conns[Cli]
        BY <2>1, <2>3, CliTypes, CliKept
    <3>2. Busy(bench') = Busy(bench)
        BY <2>1, <2>3 DEF Busy
    <3> QED
        BY <1>2, <2>1, <3>1, <3>2, CliUntouched
  <2>4. CASE cli # "ended" /\ bench.conn = Cli
    <3> DEFINE last == EndOf(CliStream).n
               inp  == conns[Cli].inp
    <3>1. /\ Cli \in DOMAIN conns /\ conns[Cli].open /\ conns[Cli] \in Connections
          /\ inp \in Seq(Requests) /\ last \in Nat
        BY <2>4, CliTypes
    <3>2. Busy(bench) = 1
        BY <1>1, <2>4 DEF Busy
    <3>3. Owed(last, conns[Cli], bench, SentByCli)
        BY <2>4 DEF CliInv
    <3>4. /\ conns[Cli].end = "live" /\ bench.n = last + 1
          /\ \A i \in DOMAIN inp : inp[i].n = bench.n + i
          /\ bench.n + Len(inp) = SentByCli
        BY <1>1, <2>4, <3>2, <3>3 DEF Owed
    <3>5. Len(inp) \in Nat
        BY <3>1
    <3>6. conns'[Cli] = [conns[Cli] EXCEPT !.out = @ \o Pieces(bench.n, 1)]
      <4>1. conns' = [conns EXCEPT ![Cli].out = @ \o Pieces(bench.n, 1)]
          BY <2>1, <2>4, <3>1 DEF Send
      <4>2. conns \in [DOMAIN conns -> Connections]
          BY DEF SInv, ConnsTyped
      <4> QED
          BY <3>1, <4>1, <4>2
    <3>7. /\ conns'[Cli].out = conns[Cli].out \o Pieces(bench.n, 1)
          /\ conns'[Cli].end = "live" /\ conns'[Cli].inp = inp
        BY <3>1, <3>4, <3>6 DEF Connections
    <3> HIDE DEF last, inp
    <3>8. bench.n = EndOf(CliStream).n + 1
        BY <3>4 DEF last
    <3> QED
        BY <1>2, <2>1, <2>4, <3>4, <3>5, <3>7, <3>8, CliAnswered
  <2> QED
      BY <2>2, <2>3, <2>4
<1> QED
    BY <1>3, <1>4

\* What send_command returns moves from the socket's end to what was shown.
LEMMA CliShown ==
    ASSUME SInv, CliInv, cli = "recv", NEW r \in Results, CliShows(r),
           NEW left \in Seq(AllPieces), conns[Cli].out = r.pieces \o left,
           conns'[Cli].out = left, conns'[Cli].inp = conns[Cli].inp,
           conns'[Cli].end = conns[Cli].end, bench' = bench
    PROVE  CliInv'
<1> DEFINE p == PiecesOf(shown)
           q == r.pieces
           N == Len(shown)
           last == EndOf(CliStream).n
<1>1. /\ shown \in Seq(Results) /\ N \in Nat /\ p \in Seq(AllPieces) /\ q \in Seq(AllPieces)
      /\ CliStream = p \o (q \o left) /\ last \in Nat
    BY CliTypes DEF Results
<1>2. shown' = Append(shown, r) /\ cli' = "idle"
    BY DEF CliShows
<1>3. Len(shown') = N + 1 /\ PiecesOf(shown') = p \o q
    BY <1>1, <1>2, PiecesOfAppend, AppendProperties
<1>4. SentByCli = N + 1 /\ SentByCli' = N + 1
    BY <1>1, <1>2, <1>3 DEF SentByCli
<1>5. CliStream' = (p \o q) \o left
    BY <1>2, <1>3 DEF CliStream
<1> HIDE DEF p, q, N
<1>6. CliStream' = CliStream /\ CliStream = (p \o q) \o left /\ p \o q \in Seq(AllPieces)
  <2>1. (p \o q) \o left = p \o (q \o left)
      BY <1>1, PiecesRegroup
  <2>2. p \o q \in Seq(AllPieces)
      BY <1>1, ConcatProperties
  <2>3. CliStream = (p \o q) \o left
      BY <1>1, <2>1, Zenon
  <2> QED
      BY <1>5, <2>2, <2>3, Zenon
<1>7. InOrder(CliStream) /\ Whole(CliStream) /\ Lag(shown) /\ Owed(last, conns[Cli], bench, N + 1)
    BY <1>4 DEF CliInv
<1>8. InOrder(p \o q)
    BY <1>6, <1>7, InOrderPrefix
<1>9. \A i \in DOMAIN q : q[i].n <= N + 1
  <2> SUFFICES ASSUME NEW i \in DOMAIN q PROVE q[i].n <= N + 1
      OBVIOUS
  <2> DEFINE u == q \o left
  <2>1. /\ u \in Seq(AllPieces) /\ Len(q) \in Nat /\ Len(left) \in Nat
        /\ Len(u) = Len(q) + Len(left) /\ DOMAIN q = 1..Len(q)
        /\ \A j \in 1..Len(q) + Len(left) : u[j] = IF j <= Len(q) THEN q[j] ELSE left[j - Len(q)]
      BY <1>1, ConcatProperties
  <2> HIDE DEF u
  <2>2. i \in 1..Len(u) /\ u[i] = q[i]
      BY <2>1
  <2>3. InOrder(p \o u) /\ EndOf(p \o u).n = last
      BY <1>1, <1>7 DEF u, last
  <2>4. u[i].n \in Nat /\ u[i].n <= last
      BY <1>1, <2>1, <2>2, <2>3, ComesNext
  <2>5. last <= N + 1
      BY <1>7 DEF Owed
  <2> QED
      BY <1>1, <2>2, <2>4, <2>5
<1>10. Lag(shown')
  <2>1. Lag(Append(shown, r))
      BY <1>1, <1>7, <1>8, <1>9, LagGrows DEF p, q, N
  <2> QED
      BY <1>2, <2>1
<1>11. Owed(last, conns'[Cli], bench', N + 1)
    BY <1>7 DEF Owed
<1> QED
    BY <1>4, <1>6, <1>7, <1>10, <1>11 DEF CliInv, last

\* Nothing is read from a command line that ended.
LEMMA CliEnded ==
    ASSUME SInv, CliInv, cli # "ended", cli' = "ended", UNCHANGED shown
    PROVE  CliInv'
<1>1. /\ PiecesOf(shown) \in Seq(AllPieces) /\ conns[Cli].out \in Seq(AllPieces)
      /\ CliStream = PiecesOf(shown) \o conns[Cli].out
    BY CliTypes
<1>2. CliStream' = PiecesOf(shown)
  <2>1. CliStream' = PiecesOf(shown) \o << >>
      BY DEF CliStream
  <2> QED
      BY <1>1, <2>1, ConcatEmptySeq
<1>3. InOrder(PiecesOf(shown))
    BY <1>1, InOrderPrefix DEF CliInv
<1> QED
    BY <1>2, <1>3 DEF CliInv

\* The command line's own steps.
LEMMA CliSteps ==
    ASSUME SInv, CliInv, CliStep \/ CliEnds \/ \E line \in Typed : CliSend(line)
    PROVE  CliInv'
<1>1. cli # "ended" /\ bench' = bench
    BY DEF CliStep, CliEnds, CliSend, CliRecv, CliMeetsEnd, CliGivesUp, CliUnchanged
<1>2. /\ Cli \in DOMAIN conns /\ conns[Cli] \in Connections /\ conns[Cli].out \in Seq(AllPieces)
      /\ conns[Cli].inp \in Seq(Requests) /\ Len(shown) \in Nat /\ SentByCli \in Nat
      /\ conns \in [DOMAIN conns -> Connections] /\ EndOf(CliStream).n \in Nat
    BY <1>1, CliTypes DEF SInv, ConnsTyped
<1>3. ASSUME NEW r \in {Failed, NoBytes}, CliShows(r), cli = "recv", conns' = conns
      PROVE  CliInv'
  <2>1. r \in Results /\ r.pieces = << >>
      BY NoAnswers DEF Failed, NoBytes
  <2>2. conns[Cli].out = r.pieces \o conns[Cli].out
      BY <1>2, <2>1, ConcatEmptySeq
  <2> QED
      BY <1>1, <1>2, <1>3, <2>1, <2>2, CliShown
<1>4. CASE CliRecv
  <2> DEFINE o == conns[Cli].out
             conn == [conns[Cli] EXCEPT !.out = Unread(@)]
  <2>1. cli = "recv" /\ o # << >>
      BY <1>4 DEF CliRecv
  <2>2. Received(o) \in Seq(AllPieces) /\ Unread(o) \in Seq(AllPieces) /\ Received(o) \o Unread(o) = o
      BY <1>2, <2>1, ReceivedIs, ReceivedWhole
  <2>3. Answer(Received(o)) \in Results /\ Answer(Received(o)).pieces = Received(o)
      BY <2>2 DEF Answer, Results
  <2>4. /\ conn.out = Unread(o) /\ conn.inp = conns[Cli].inp /\ conn.end = conns[Cli].end
      BY <1>2, <2>2 DEF Connections
  <2> HIDE DEF conn
  <2>5. CASE CliShows(Answer(Received(o))) /\ conns' = [conns EXCEPT ![Cli] = conn]
    <3>1. conns'[Cli] = conn
        BY <1>2, <2>5
    <3> QED
        BY <1>1, <2>1, <2>2, <2>3, <2>4, <2>5, <3>1, CliShown
  <2>6. CASE cli' = "ended" /\ UNCHANGED shown
      BY <1>1, <2>6, CliEnded
  <2> QED
      BY <1>4, <2>5, <2>6 DEF CliRecv, conn
<1>5. CASE CliMeetsEnd
  <2>1. CASE \E result \in {NoBytes, Failed} : CliShows(result)
    <3>1. cli' = "idle"
        BY <2>1 DEF CliShows
    <3>2. cli = "recv" /\ conns' = conns
        BY <1>5, <3>1 DEF CliMeetsEnd
    <3> QED
        BY <1>3, <2>1, <3>2
  <2>2. CASE cli' = "ended" /\ UNCHANGED shown
      BY <1>1, <2>2, CliEnded
  <2> QED
      BY <1>5, <2>1, <2>2 DEF CliMeetsEnd
<1>6. CASE CliGivesUp
    BY <1>3, <1>6 DEF CliGivesUp
<1>7. CASE CliEnds
    BY <1>1, <1>7, CliEnded DEF CliEnds
<1>8. ASSUME NEW line \in Typed, CliSend(line) PROVE CliInv'
  <2> DEFINE last == EndOf(CliStream).n
             count == SentByCli
  <2>1. cli = "idle" /\ cli' = "recv" /\ shown' = shown
      BY <1>8 DEF CliSend
  <2>2. count = Len(shown) /\ SentByCli' = count + 1
      BY <1>2, <2>1 DEF SentByCli
  <2>3. Owed(last, conns[Cli], bench, count) /\ last <= count + 1
      BY <1>1, <1>2 DEF CliInv, Owed
  <2>4. conns'[Cli].out = conns[Cli].out /\ Owed(last, conns'[Cli], bench', count + 1)
    <3>1. CASE conns[Cli].end # "live"
      <4>1. conns' = conns
          BY <1>8, <3>1 DEF CliSend
      <4> QED
          BY <1>1, <2>3, <3>1, <4>1 DEF Owed
    <3>2. CASE conns[Cli].end = "live"
      <4> DEFINE r == Request(Len(shown) + 1, line)
                 inp == conns[Cli].inp
                 conn == [conns[Cli] EXCEPT !.inp = Append(@, r)]
                 b == Busy(bench)
      <4>1. conns' = [conns EXCEPT ![Cli] = conn]
          BY <1>8, <3>2 DEF CliSend
      <4>2. conns'[Cli] = conn
          BY <1>2, <4>1
      <4>3. conn.out = conns[Cli].out /\ conn.inp = Append(inp, r) /\ conn.end = "live"
          BY <1>2, <3>2 DEF Connections
      <4>4. r.n = count + 1 /\ b \in Nat /\ Len(inp) \in Nat
          BY <1>2, <2>2 DEF Request, Busy
      <4>5. r \in Requests
        <5>1. Parse(line) \in Parsed
            BY DEF Parsed, Lines
        <5>2. Len(shown) + 1 \in Nat
            BY <1>2
        <5> QED
            BY <5>1, <5>2 DEF Request, Requests
      <4> HIDE DEF r, conn
      <4>6. /\ Len(Append(inp, r)) = Len(inp) + 1 /\ Append(inp, r)[Len(inp) + 1] = r
            /\ \A i \in 1..Len(inp) : Append(inp, r)[i] = inp[i]
            /\ DOMAIN Append(inp, r) = 1..Len(inp) + 1
        <5>1. inp \in Seq(Requests)
            BY <1>2
        <5> HIDE DEF inp
        <5> DEFINE t == Append(inp, r)
        <5>2. /\ t \in Seq(Requests) /\ Len(t) = Len(inp) + 1 /\ t[Len(inp) + 1] = r
              /\ \A i \in 1..Len(inp) : t[i] = inp[i]
            BY <4>5, <5>1, AppendProperties
        <5> HIDE DEF t
        <5>3. DOMAIN t = 1..Len(inp) + 1
            BY <5>2
        <5> QED
            BY <5>2, <5>3 DEF t
      <4>7. /\ bench # NONE /\ bench.conn = Cli => bench.n = last + 1
            /\ \A i \in DOMAIN inp : inp[i].n = last + b + i
            /\ last + b + Len(inp) = count
          BY <2>3, <3>2 DEF Owed
      <4>8. DOMAIN inp = 1..Len(inp)
          BY <1>2
      <4> HIDE DEF inp, b, last, count
      <4>9. \A i \in 1..Len(inp) + 1 : Append(inp, r)[i].n = last + b + i
        <5> SUFFICES ASSUME NEW i \in 1..Len(inp) + 1 PROVE Append(inp, r)[i].n = last + b + i
            OBVIOUS
        <5>1. CASE i = Len(inp) + 1
          <6>1. last \in Nat
              BY <1>2 DEF last
          <6>2. last + b + (Len(inp) + 1) = last + b + Len(inp) + 1
              BY <4>4, <6>1
          <6> QED
              BY <4>4, <4>6, <4>7, <5>1, <6>2
        <5>2. CASE i \in 1..Len(inp)
            BY <4>6, <4>7, <4>8, <5>2
        <5> QED
            BY <4>4, <5>1, <5>2
      <4>10. last + b + (Len(inp) + 1) = count + 1
        <5>1. last \in Nat
            BY <1>2 DEF last
        <5> QED
            BY <4>4, <4>7, <5>1
      <4> QED
          BY <1>1, <2>3, <4>2, <4>3, <4>6, <4>7, <4>9, <4>10 DEF Owed, b
    <3> QED
        BY <3>1, <3>2
  <2>5. CliStream' = CliStream
      BY <2>1, <2>4 DEF CliStream
  <2> HIDE DEF last, count
  <2> QED
      BY <1>1, <2>1, <2>2, <2>4, <2>5 DEF CliInv, last
<1> QED
    BY <1>4, <1>5, <1>6, <1>7, <1>8 DEF CliStep

\* The steps of the bridge: another connection.
LEMMA BridgeCli ==
    ASSUME SInv, CliInv, BridgeStep \/ \E line \in Submitted : Post(line)
    PROVE  CliInv'
<1>1. UNCHANGED <<cli, shown, bench>>
    BY DEF BridgeStep, Connect, Refused, BridgeRecv, BridgeMeetsEnd, BridgeGivesUp, Post,
           BridgeUnchanged, cliVars
<1>2. Current # Cli
  <2>1. told \in Seq(Results)
      BY DEF SInv, ClientsOK
  <2>2. Len(told) \in Nat
      BY <2>1
  <2> QED
      BY <2>2 DEF Current, Cli
<1>3. ASSUME cli # "ended" PROVE conns'[Cli] = conns[Cli]
  <2>1. Cli \in DOMAIN conns /\ conns[Cli].open
      BY <1>3, CliTypes
  <2>2. CASE conns' = conns
      BY <2>2
  <2>3. CASE conns' = Closed(conns, Current)
      BY <1>2, <2>1, <2>3, CliKept
  <2>4. CASE Connect
      BY <1>2, <2>1, <2>4 DEF Connect
  <2> QED
      BY <2>2, <2>3, <2>4 DEF BridgeStep, Refused, BridgeRecv, BridgeMeetsEnd, BridgeGivesUp, Post
<1> QED
    BY <1>1, <1>3, CliUntouched

LEMMA CliInvHolds == SessionsSpec => [](SInv /\ CliInv)
<1>1. SessionsInit => CliInv
  <2> SUFFICES ASSUME SessionsInit PROVE CliInv
      OBVIOUS
  <2>1. /\ bench = NONE /\ conns = [c \in {Cli} |-> NewConnection]
        /\ cli = "idle" /\ shown = << >>
      BY DEF SessionsInit
  <2>2. conns[Cli].inp = << >> /\ conns[Cli].out = << >> /\ conns[Cli].end = "live"
      BY <2>1 DEF NewConnection
  <2>3. << >> \in Seq(AllPieces) /\ Len(<< >>) = 0 /\ DOMAIN << >> = {}
      BY EmptySeq
  <2>4. PiecesOf(shown) = << >>
      BY <2>1, PiecesOfNone
  <2>5. CliStream = << >>
    <3>1. << >> \o << >> = << >>
        BY <2>3, ConcatEmptySeq
    <3> QED
        BY <2>1, <2>2, <2>4, <3>1 DEF CliStream
  <2>6. EndOf(<< >>) = [n |-> 0, part |-> 1, of |-> 1]
      BY <2>3 DEF EndOf, Before
  <2>7. Whole(<< >>) /\ Done(<< >>) = 0 /\ EndOf(<< >>).n = 0
      BY <2>6 DEF Whole, Done, Fills
  <2>8. InOrder(<< >>)
      BY <2>3 DEF InOrder
  <2>9. SentByCli = 0
      BY <2>1, <2>3 DEF SentByCli
  <2>10. Owed(0, conns[Cli], bench, 0)
      BY <2>1, <2>2, <2>3 DEF Owed, Busy
  <2>11. Lag(shown)
    <3>1. Slipped(<< >>, 1) = {}
        BY DEF Slipped
    <3>2. Cardinality(Slipped(<< >>, 1)) = 0
        BY <3>1, FS_EmptySet
    <3> QED
        BY <2>1, <2>3, <2>4, <2>7, <3>2 DEF Lag
  <2> QED
      BY <2>5, <2>7, <2>8, <2>9, <2>10, <2>11 DEF CliInv
<1>2. SInv /\ CliInv /\ [SessionsNext]_sessionVars => CliInv'
  <2> SUFFICES ASSUME SInv, CliInv, [SessionsNext]_sessionVars PROVE CliInv'
      OBVIOUS
  <2>1. CASE ServerStep
      BY <2>1, ExecuteCli, BenchCli DEF ServerStep
  <2>2. CASE Stop
    <3>1. UNCHANGED <<cli, shown>>
        BY <2>2 DEF Stop, cliVars
    <3>2. ASSUME cli # "ended"
          PROVE  conns'[Cli].out = conns[Cli].out /\ conns'[Cli].end # "live" /\ bench' = NONE
        BY <2>2, <3>2, CliTypes, CliDies DEF Stop
    <3> QED
        BY <3>1, <3>2, CliUntouched
  <2>3. CASE Start \/ Tick \/ UNCHANGED sessionVars
    <3>1. UNCHANGED <<conns, bench, cli, shown>>
        BY <2>3 DEF Start, Tick, sessionVars, cliVars
    <3> QED
        BY <3>1, CliUntouched
  <2> QED
      BY <2>1, <2>2, <2>3, CliSteps, BridgeCli DEF SessionsNext
<1> QED
    BY <1>1, <1>2, SInvHolds, PTL DEF SessionsSpec

----------------------------------------------------------------------------
(* The theorems.                                                           *)

\* Whatever clients and server do, who waits has an open connection to wait on,
\* and no connection outlives the process unseen.
THEOREM WaitersConnected == SessionsSpec => []SessionsOK
<1>1. SInv => SessionsOK
  <2> SUFFICES ASSUME SInv PROVE SessionsOK
      OBVIOUS
  <2>1. \A c \in DOMAIN conns : conns[c].end \in {"live", "closed", "reset"}
      BY DEF SInv, ConnsTyped, Connections, Ends
  <2> QED
      BY <2>1 DEF SInv, SessionsOK, EndsSeen, ClientsOK, Waiting
<1> QED
    BY <1>1, SInvHolds, PTL

\* The bridge answers an HTTP request with what its own command returned, or the
\* beginning of it, and never with an answer that an earlier request left behind.
THEOREM OwnAnswers == SessionsSpec => []BridgeAnswersOwn
<1>1. SInv => BridgeAnswersOwn
    BY DEF SInv
<1> QED
    BY <1>1, SInvHolds, PTL

\* vault_cli.py's send_command, for a whole session of any length: it returns the
\* answers in the order of the commands, none left out, none twice, though it gives
\* up after five seconds and takes one recv() for an answer.
THEOREM AnswersInOrder == SessionsSpec => []CliInOrder
<1>1. CliInv => CliInOrder
    BY DEF CliInv, CliInOrder
<1> QED
    BY <1>1, CliInvHolds, PTL

\* What send_command shows for a command is no further behind it than the times
\* before it that it gave up or took half an answer.
THEOREM LagIsBounded == SessionsSpec => []CliLag
<1>1. CliInv => CliLag
  <2> SUFFICES ASSUME CliInv PROVE CliLag
      OBVIOUS
  <2>1. \A n : Slips(n) = Cardinality(Slipped(shown, n))
      BY SlipsAre DEF Slipping
  <2> QED
      BY <2>1 DEF CliInv, Lag, CliLag
<1> QED
    BY <1>1, CliInvHolds, PTL

\* What a command does to the dictionary is what KVStore says a command may do.
LEMMA PerformIsCommand ==
    ASSUME SInv, NEW cmd \in Parsed, ~Throws(cmd), Perform(cmd)
    PROVE  [KVNext]_kvVars
<1>1. now \in Nat /\ now' = now /\ Elapse
    BY DEF SInv, Perform, Elapse
<1>2. PICK line \in Lines : cmd = Parse(line)
    BY DEF Parsed
<1>3. /\ Writes(cmd) \/ Reads(cmd) => cmd.args[1] \in Keys
      /\ Writes(cmd) /\ cmd.name = "SET" => Value(cmd.args, 2) \in UserValues
      /\ Writes(cmd) /\ cmd.name = "TTL" => /\ Value(cmd.args, 3) \in UserValues
                                           /\ Number(cmd.args[2]) \in Lifetimes \cup {BAD}
    BY <1>2, LinesAssumption
<1>4. CASE Writes(cmd)
  <2> DEFINE k == cmd.args[1]
  <2>1. store' = [store EXCEPT ![k] = Left(cmd, now)] /\ reply' = OK /\ k \in Keys
      BY <1>3, <1>4 DEF Perform
  <2> HIDE DEF k
  <2>2. CASE cmd.name = "SET"
    <3>1. Left(cmd, now) \in UserValues
        BY <1>3, <1>4, <2>2 DEF Left
    <3>2. KVSet(k)
        BY <1>1, <2>1, <3>1 DEF KVSet
    <3> QED
        BY <2>1, <3>2 DEF KVNext
  <2>3. CASE cmd.name = "TTL"
    <3>1. Number(cmd.args[2]) # BAD
        BY <1>4, <2>3 DEF Throws, Writes
    <3>2. /\ Value(cmd.args, 3) \in UserValues /\ Number(cmd.args[2]) \in Lifetimes
          /\ Left(cmd, now) = [data |-> Value(cmd.args, 3), expiry |-> now + Number(cmd.args[2])]
        BY <1>3, <1>4, <2>3, <3>1 DEF Left
    <3>3. KVSetTTL(k)
        BY <1>1, <2>1, <3>2 DEF KVSetTTL
    <3> QED
        BY <2>1, <3>3 DEF KVNext
  <2>4. CASE cmd.name = "DEL"
    <3>1. Left(cmd, now) = NONE
        BY <2>4 DEF Left
    <3>2. KVDel(k)
        BY <1>1, <2>1, <3>1 DEF KVDel
    <3> QED
        BY <2>1, <3>2 DEF KVNext
  <2> QED
      BY <1>4, <2>2, <2>3, <2>4 DEF Writes
<1>5. CASE ~Writes(cmd) /\ Reads(cmd)
  <2>1. cmd.args[1] \in Keys
      BY <1>3, <1>5
  <2>2. KVGet(cmd.args[1])
      BY <1>5 DEF Perform, KVGet
  <2> QED
      BY <2>1, <2>2 DEF KVNext
<1>6. CASE ~Writes(cmd) /\ ~Reads(cmd)
    BY <1>6 DEF Perform, kvVars
<1> QED
    BY <1>4, <1>5, <1>6

\* Seen from the dictionary, every step of the whole is a command or nothing.
LEMMA StepIsCommand ==
    ASSUME SInv, [SessionsNext]_sessionVars
    PROVE  [KVNext]_kvVars
<1>1. ASSUME UNCHANGED storeVars PROVE [KVNext]_kvVars
    BY <1>1 DEF storeVars, kvVars
<1>2. ASSUME NEW c \in DOMAIN conns, Execute(c) PROVE [KVNext]_kvVars
  <2> DEFINE request == Head(conns[c].inp)
             cmd == request.cmd
  <2>1. conns[c].inp \in Seq(Requests) /\ conns[c].inp # << >>
      BY <1>2 DEF SInv, ConnsTyped, Connections, Execute
  <2>2. request \in Requests
      BY <2>1, HeadTailProperties
  <2>3. cmd \in Parsed
      BY <2>2 DEF Requests
  <2>4. UNCHANGED storeVars \/ (~Throws(cmd) /\ Perform(cmd))
      BY <1>2 DEF Execute
  <2> HIDE DEF request, cmd
  <2> QED
      BY <1>1, <2>3, <2>4, PerformIsCommand
<1>3. CASE BenchRound
  <2> DEFINE i == bench.done
  <2>1. /\ bench # NONE /\ i < bench.rounds /\ now' = now /\ now \in Nat /\ reply' = OK
        /\ store' = [store EXCEPT ![BenchKey(i)] = BenchValue(i)]
      BY <1>3 DEF BenchRound, SInv
  <2>2. i \in 0..bench.rounds - 1
      BY <2>1 DEF SInv, BenchTyped, Benching
  <2>3. BenchKey(i) \in Keys /\ BenchValue(i) \in UserValues
      BY <2>1, <2>2 DEF SInv, BenchTyped
  <2> HIDE DEF i
  <2>4. Elapse
      BY <2>1 DEF Elapse
  <2>5. \E v \in UserValues : store' = [store EXCEPT ![BenchKey(i)] = v]
      BY <2>1, <2>3
  <2>6. KVSet(BenchKey(i))
      BY <2>1, <2>4, <2>5, Zenon DEF KVSet
  <2> QED
      BY <2>3, <2>6 DEF KVNext
<1>4. CASE Tick
    BY <1>4 DEF Tick, SInv, KVNext, KVPass, Elapse
<1>5. CASE BenchDone \/ Stop \/ Start
    BY <1>1, <1>5 DEF BenchDone, Stop, Dies, Start
<1>6. CASE CliStep \/ CliEnds \/ \E line \in Typed : CliSend(line)
    BY <1>1, <1>6 DEF CliStep, CliRecv, CliMeetsEnd, CliGivesUp, CliEnds, CliSend, CliUnchanged
<1>7. CASE BridgeStep \/ \E line \in Submitted : Post(line)
    BY <1>1, <1>7 DEF BridgeStep, Connect, Refused, BridgeRecv, BridgeMeetsEnd, BridgeGivesUp,
                      BridgeUnchanged, Post
<1>8. CASE UNCHANGED sessionVars
    BY <1>1, <1>8 DEF sessionVars
<1> QED
    BY <1>2, <1>3, <1>4, <1>5, <1>6, <1>7, <1>8 DEF SessionsNext, ServerStep

\* Sessions, retries, BENCH, misused commands and restarts do to the dictionary
\* what commands do that come one after another.
THEOREM SessionsImplementKVStore == SessionsSpec => ImplementsKVStore
<1>1. SessionsInit => KVInit
    BY DEF SessionsInit, KVInit
<1>2. SInv /\ [SessionsNext]_sessionVars => [KVNext]_kvVars
    BY StepIsCommand
<1> QED
    BY <1>1, <1>2, SInvHolds, PTL DEF SessionsSpec, ImplementsKVStore, KVSpec
=============================================================================
