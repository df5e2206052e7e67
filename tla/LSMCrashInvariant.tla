------------------------- MODULE LSMCrashInvariant -------------------------
(***************************************************************************)
(* Proofs that engine_mutex_ keeps the server's thread and the compaction  *)
(* thread apart, for every value of the constants and at whatever step the *)
(* process dies; then the invariant behind what LSMCrash keeps through     *)
(* crashes, with the lemmas about values, logs, caches and directories     *)
(* that its steps need.                                                    *)
(***************************************************************************)
EXTENDS LSMCrash, LSMEngineProofs

ServerSteps  == {"idle", "lock", "log", "apply", "write", "checkpoint"}
MergingSteps == {"idle", "called", "write", "older", "newer", "replace", "ended"}

\* What ThreadsOK says of the values the six variables have after a step.
ThreadsAt(u, r, d, h, s, m) ==
    /\ u \in BOOLEAN /\ r \in BOOLEAN /\ d \in BOOLEAN
    /\ h \in {"none", "server", "compactor"}
    /\ s \in ServerSteps
    /\ m \in MergingSteps
    /\ (h = "server") <=> (s \notin {"idle", "lock"})
    /\ (h = "compactor") <=> (m \notin {"idle", "called", "ended"})
    /\ ~r => s = "idle"
    /\ m \in {"called", "ended"} => ~r
    /\ ~u => s = "idle" /\ m = "idle" /\ r

LEMMA ThreadsAre ==
    /\ ThreadsOK <=> ThreadsAt(up, running, deaf, holder, step, merging)
    /\ ThreadsOK' <=> ThreadsAt(up', running', deaf', holder', step', merging')
BY DEF ThreadsOK, ThreadsAt, ServerSteps, MergingSteps

\* Each step of the server's thread leaves the mutex with the thread that is
\* inside an operation.
LEMMA ServerKeepsThreads ==
    ASSUME ThreadsOK, (\E c \in Commands : Receive(c)) \/ (\E k \in Keys : Read(k)) \/ ServerStep
    PROVE  ThreadsOK'
<1> USE ThreadsAre DEF ThreadsAt, ServerSteps, MergingSteps
<1>1. ThreadsAt(up, running, deaf, holder, step, merging)
    OBVIOUS
<1>2. ASSUME NEW c \in Commands, Receive(c) PROVE ThreadsOK'
    BY <1>1, <1>2 DEF Receive, processVars
<1>3. ASSUME NEW k \in Keys, Read(k) PROVE ThreadsOK'
    BY <1>1, <1>3 DEF Read, threadVars, processVars
<1>4. CASE Lock
    BY <1>1, <1>4 DEF Lock, CanLock, processVars
<1>5. CASE Log
  <2>1. /\ step = "log" /\ step' = "apply" /\ deaf' \in BOOLEAN
        /\ UNCHANGED <<up, running, holder, merging>>
      BY <1>1, <1>5 DEF Log
  <2> QED
      BY <1>1, <2>1
<1>6. CASE Apply
  <2>1. /\ step = "apply" /\ UNCHANGED <<up, running, deaf, merging>>
        /\ \/ step' = "write" /\ holder' = holder
           \/ step' = "idle" /\ holder' = "none"
      BY <1>6 DEF Apply, Finish, Unlock, processVars
  <2> QED
      BY <1>1, <2>1
<1>7. CASE WriteTable
    BY <1>1, <1>7 DEF WriteTable, processVars
<1>8. CASE Checkpoint
    BY <1>1, <1>8 DEF Checkpoint, Finish, Unlock
<1> QED
    BY <1>2, <1>3, <1>4, <1>5, <1>6, <1>7, <1>8 DEF ServerStep

\* So does each step of the compaction thread.
LEMMA CompactorKeepsThreads ==
    ASSUME ThreadsOK, StartCompact \/ CompactorStep
    PROVE  ThreadsOK'
<1> USE ThreadsAre DEF ThreadsAt, ServerSteps, MergingSteps, processVars
<1>1. ThreadsAt(up, running, deaf, holder, step, merging)
    OBVIOUS
<1>2. CASE StartCompact
    BY <1>1, <1>2 DEF StartCompact, CanLock
<1>3. CASE ReturnAtOnce
    BY <1>1, <1>3 DEF ReturnAtOnce
<1>4. CASE LeaveLoop
    BY <1>1, <1>4 DEF LeaveLoop, LoopsOn
<1>5. CASE WriteMerged
    BY <1>1, <1>5 DEF WriteMerged
<1>6. CASE RemoveOlder
    BY <1>1, <1>6 DEF RemoveOlder
<1>7. CASE RemoveNewer
    BY <1>1, <1>7 DEF RemoveNewer
<1>8. CASE ReplaceTwo
    BY <1>1, <1>8 DEF ReplaceTwo, Unlock
<1> QED
    BY <1>2, <1>3, <1>4, <1>5, <1>6, <1>7, <1>8 DEF CompactorStep

LEMMA ThreadsStep ==
    ASSUME ThreadsOK, [CrashNext]_crashVars
    PROVE  ThreadsOK'
<1> USE ThreadsAre DEF ThreadsAt, ServerSteps, MergingSteps
<1>1. ThreadsAt(up, running, deaf, holder, step, merging)
    OBVIOUS
<1>2. CASE Work
  <2>1. CASE Recover
    <3>1. /\ up' = TRUE /\ ~up /\ UNCHANGED <<running, deaf, merging>>
          /\ \/ holder' = "server" /\ step' = "write"
             \/ holder' = holder /\ step' = step
        BY <2>1 DEF Recover
    <3> QED
        BY <1>1, <3>1
  <2>2. CASE Wait
      BY <1>1, <2>2 DEF Wait, threadVars, processVars
  <2>3. CASE Shutdown
    <3>1. /\ up /\ running /\ step = "idle" /\ running' = FALSE
          /\ UNCHANGED <<up, deaf, holder, step>>
          /\ merging' = merging \/ (merging = "idle" /\ merging' = "called")
        BY <2>3 DEF Shutdown
    <3> QED
        BY <1>1, <3>1
  <2> QED
      BY <1>2, <2>1, <2>2, <2>3, ServerKeepsThreads, CompactorKeepsThreads DEF Work
<1>3. CASE Exit \/ Crash
    BY <1>3 DEF Exit, Crash, MemoryIsLost
<1>4. CASE UNCHANGED crashVars
    BY <1>1, <1>4 DEF crashVars, threadVars, processVars
<1> QED
    BY <1>2, <1>3, <1>4 DEF CrashNext

\* At every moment the mutex is held exactly by the thread that is inside an
\* operation, and by nobody in a process that has died.
THEOREM MutualExclusion == CrashSpec => []ThreadsOK
<1>1. CrashInit => ThreadsOK
    BY DEF CrashInit, ThreadsOK
<1>2. ThreadsOK /\ [CrashNext]_crashVars => ThreadsOK'
    BY ThreadsStep
<1> QED
    BY <1>1, <1>2, PTL DEF CrashSpec

\* No step moves the vector while compact() holds references into it.
LEMMA VectorStays ==
    ASSUME ThreadsOK, [CrashNext]_crashVars, holder = "compactor", holder' = "compactor"
    PROVE  UNCHANGED sstables
<1>1. /\ up /\ step \in {"idle", "lock"} /\ merging \in {"write", "older", "newer", "replace"}
    BY DEF ThreadsOK
<1>2. CASE ServerStep
  <2>1. Lock
      BY <1>1, <1>2 DEF ServerStep, Log, Apply, WriteTable, Checkpoint
  <2> QED
      BY <1>1, <2>1 DEF Lock, CanLock
<1>3. CASE CompactorStep
  <2>1. ~ReplaceTwo
      BY DEF ReplaceTwo, Unlock
  <2> QED
      BY <1>1, <1>3, <2>1
      DEF CompactorStep, ReturnAtOnce, LeaveLoop, WriteMerged, RemoveOlder, RemoveNewer, vars
<1>4. ASSUME NEW c \in Commands, Receive(c) PROVE UNCHANGED sstables
    BY <1>4 DEF Receive, vars
<1>5. ASSUME NEW k \in Keys, Read(k) PROVE UNCHANGED sstables
    BY <1>5, <1>1 DEF Read
<1>6. CASE StartCompact \/ Recover \/ Wait \/ Shutdown
    BY <1>1, <1>6 DEF StartCompact, CanLock, Recover, Wait, Shutdown, vars
<1>7. CASE Exit \/ Crash
    BY <1>7 DEF Exit, Crash, MemoryIsLost
<1>8. CASE UNCHANGED crashVars
    BY <1>8 DEF crashVars, vars
<1> QED
    BY <1>2, <1>3, <1>4, <1>5, <1>6, <1>7, <1>8 DEF CrashNext, Work

\* compact() merges, removes and replaces the two tables it looked at first,
\* whatever the server's thread wants meanwhile.
THEOREM VectorUndisturbed == CrashSpec => CompactUndisturbed
<1>1. ThreadsOK /\ [CrashNext]_crashVars
        => [holder = "compactor" /\ holder' = "compactor" => UNCHANGED sstables]_crashVars
    BY VectorStays
<1> QED
    BY <1>1, MutualExclusion, PTL DEF CrashSpec, CompactUndisturbed

----------------------------------------------------------------------------
(* Crashes without the faults of the findings.                             *)

\* The faults that the findings are about are left out: a log that tears, a disk
\* that fills.
FaultFree == ~LogCanTear /\ ~DiskCanFill

----------------------------------------------------------------------------
(* The inductive invariant.                                                *)

Content      == Stored \cup {GARBLED, NONE}
ContentTable == [Keys -> Content]
Promises     == UserValues \cup Ephemeral \cup {NONE}
Command      == [op : {"SET"}, key : Keys, val : UserValues \cup Ephemeral]
                \cup [op : {"DELETE"}, key : Keys, val : {NONE}]

CrashTypeOK ==
    /\ now \in Nat
    /\ wal \in Seq(Command)
    /\ memtable \in ContentTable
    /\ cache \in ContentTable
    /\ IsFiniteSet(DOMAIN files) /\ DOMAIN files \subseteq Nat
    /\ \A p \in DOMAIN files : files[p] \in ContentTable
    /\ sstables \in Seq(Nat)
    /\ store \in [Keys -> Promises]
    /\ cmd \in Command \cup {NONE}
    /\ out \in Nat
    /\ deaf = FALSE
    /\ ~up => cache = EmptyTable

\* The names whose files are there while compact() writes, removes and replaces,
\* the one searched first last.
Inserted(ss, p) == SubSeq(ss, 1, 2) \o <<p>> \o SubSeq(ss, 3, Len(ss))
Present == CASE merging = "older"   -> Inserted(sstables, out)
             [] merging = "newer"   -> Tail(Inserted(sstables, out))
             [] merging = "replace" -> Tail(Tail(Inserted(sstables, out)))
             [] OTHER -> sstables

NamesOK == /\ Distinct(sstables)
           /\ up => Names(Present) = DOMAIN files
           /\ \A p \in DOMAIN files : p < FlushName(now)
           /\ merging \in {"write", "older", "newer", "replace"} => Len(sstables) > 1
           /\ merging = "write" => out = CompactedName(now)
           /\ merging \in {"older", "newer", "replace"} => Distinct(Inserted(sstables, out))

\* The merged file holds every key of the sources that are still there.
Covers(p, q) == \A k \in Keys : TableOf(files, q)[k] # NONE => TableOf(files, p)[k] # NONE
MergedCovers == /\ merging = "older" => Covers(out, older) /\ Covers(out, newer)
                /\ merging = "newer" => Covers(out, newer)

\* What files and log hold, and what they should: the command counts once logged.
Found(k)  == Lookup(files, Present, k)
Logged    == cmd # NONE /\ step \in {"apply", "write", "checkpoint"}
Expected(k) == IF Logged /\ cmd.key = k THEN Promised ELSE store[k]

CommandOK == /\ up /\ step = "idle" => cmd = NONE
             /\ step \in {"lock", "log", "apply"} => cmd # NONE
             /\ cmd # NONE => cmd.val \in UserValues \cup KVD!Begun \cup {NONE}

\* Two values that are both dead are as good as equal.
DurableAgrees ==
    IF up THEN \A k \in Keys : Same(Over(Replay(wal)[k], Found(k)), Expected(k), now)
    ELSE CrashKeepsAcknowledged

\* The MemTable is what the log says, but for tombstones of check_ttl over values
\* that are dead, and for the command that is logged and not yet applied.
Fits(k) == \/ memtable[k] = Replay(wal)[k]
           \/ memtable[k] = TOMBSTONE /\ Dead(Over(Replay(wal)[k], Found(k)), now)
MemTableAgrees ==
    up => \A k \in Keys : IF step = "apply" /\ cmd.key = k THEN Replay(wal)[k] = Effect(cmd)
                          ELSE Fits(k)

TableOnTop == step = "checkpoint" =>
                  \A k \in Keys : memtable[k] # NONE => Found(k) = memtable[k]

CacheAgrees == \A k \in Keys : cache[k] # NONE => cache[k] = Over(memtable[k], Found(k))

CInv == /\ ThreadsOK
        /\ CrashTypeOK
        /\ NamesOK
        /\ MergedCovers
        /\ CommandOK
        /\ DurableAgrees
        /\ MemTableAgrees
        /\ TableOnTop
        /\ CacheAgrees

----------------------------------------------------------------------------
(* Values, commands and tables.                                            *)

\* What the theorems about LSMEngine ask of values, tables and records.
LEMMA ContentTypes ==
    /\ Command \subseteq LogRecord /\ Seq(Command) \subseteq Seq(LogRecord)
    /\ EmptyTable \in ContentTable
<1>1. Command \subseteq LogRecord
    BY DEF Command, LogRecord, Stored
<1>2. EmptyTable \in ContentTable
    BY DEF EmptyTable, ContentTable, Content
<1> QED
    BY <1>1, <1>2

\* No marker is a value that clients store.
LEMMA Markers == NONE # TOMBSTONE /\ NONE \notin UserValues \cup Ephemeral
BY MarkerAssumption DEF Ephemeral

\* As good as equal is an equivalence.
LEMMA SameIs ==
    ASSUME NEW t
    PROVE  /\ \A v : Same(v, v, t)
           /\ \A v, w : Same(v, w, t) => Same(w, v, t)
           /\ \A v, w, x : Same(v, w, t) /\ Same(w, x, t) => Same(v, x, t)
           /\ \A v, w : Dead(v, t) /\ Dead(w, t) => Same(v, w, t)
           /\ Dead(NONE, t) /\ Dead(TOMBSTONE, t)
BY DEF Same, Dead

\* Time does not bring a value back.
LEMMA DeadLater ==
    ASSUME NEW v, NEW t \in Nat, NEW u \in Nat, t <= u, Dead(v, t)
    PROVE  Dead(v, u)
<1>1. Same(v, NONE, t)
    BY SameIs
<1>2. Same(v, NONE, u)
    BY <1>1, SameLater
<1> QED
    BY <1>2, SameIs, SameDead

\* What a TTL command stores whose clock was read by now.
LEMMA BegunIs ==
    ASSUME now \in Nat
    PROVE  /\ KVD!Begun \subseteq Ephemeral
           /\ now' \in Nat /\ now' >= now => KVD!Begun \subseteq KVD!Begun'
<1>1. \A t \in 0..now, life \in Lifetimes : t + life \in Nat
    BY LifetimesAssumption
<1>2. {t + life : t \in 0..now, life \in Lifetimes} \subseteq Nat
    BY <1>1
<1>3. now' \in Nat /\ now' >= now => 0..now \subseteq 0..now'
    OBVIOUS
<1> QED
    BY <1>2, <1>3 DEF KVD!Begun, Ephemeral

\* What clients ask for.
LEMMA CommandsAre ==
    ASSUME now \in Nat, NEW c \in Commands
    PROVE  c \in Command /\ c.val \in UserValues \cup KVD!Begun \cup {NONE} /\ c # NONE
<1>1. now \in 0..now
    OBVIOUS
<1>2. {now + l : l \in Lifetimes} \subseteq {t + life : t \in 0..now, life \in Lifetimes}
    BY <1>1
<1> DEFINE asked == [data : UserValues, expiry : {now + l : l \in Lifetimes}]
<1>3. asked \subseteq KVD!Begun
    BY <1>2 DEF KVD!Begun
<1>4. asked \subseteq Ephemeral
    BY <1>3, BegunIs
<1> HIDE DEF asked
<1>5. \/ c \in [op : {"SET"}, key : Keys, val : UserValues \cup asked]
      \/ c \in [op : {"DELETE"}, key : Keys, val : {NONE}]
    BY DEF Commands, asked
<1>6. c \in Command /\ c.val \in UserValues \cup KVD!Begun \cup {NONE}
    BY <1>3, <1>4, <1>5 DEF Command
<1>7. NONE \notin Command
    BY NoCommandAssumption DEF Command
<1> QED
    BY <1>6, <1>7

\* A command's effect on its key, and what it promises.
LEMMA EffectIs ==
    ASSUME NEW c \in Command
    PROVE  /\ Effect(c) \in Content /\ Effect(c) # NONE
           /\ \A t : Same(Effect(c), IF c.op = "SET" THEN c.val ELSE NONE, t)
           /\ (IF c.op = "SET" THEN c.val ELSE NONE) \in Promises
           /\ c.key \in Keys
<1>1. CASE c.op = "SET"
  <2>1. c.val \in UserValues \cup Ephemeral /\ c.key \in Keys /\ Effect(c) = c.val
      BY <1>1 DEF Command, Effect
  <2> QED
      BY <1>1, <2>1, Markers, SameIs DEF Content, Stored, Promises
<1>2. CASE c.op # "SET"
  <2>1. c.key \in Keys /\ Effect(c) = TOMBSTONE
      BY <1>2 DEF Command, Effect
  <2> QED
      BY <1>2, <2>1, Markers, SameIs DEF Content, Stored, Promises
<1> QED
    BY <1>1, <1>2

\* recover() reads the whole of a log without a cut.
LEMMA ReadableWhole == ASSUME NEW w \in Seq(Command) PROVE Readable(w) = w
<1>1. \A i \in DOMAIN w : w[i] \in Command
    OBVIOUS
<1>2. \A i \in DOMAIN w : w[i].op # "CUT"
    BY <1>1 DEF Command
<1> QED
    BY <1>2 DEF Readable

\* put() holds the new value, and leaves or drops each other.
LEMMA CachePutContent ==
    ASSUME NEW c \in ContentTable, NEW k \in Keys, NEW v \in Content, NEW d \in CachePut(c, k, v)
    PROVE  /\ d \in ContentTable /\ d[k] = v
           /\ \A j \in Keys : j # k => d[j] \in {c[j], NONE}
<1>1. CASE d = [c EXCEPT ![k] = v]
    BY <1>1 DEF ContentTable
<1>2. CASE d # [c EXCEPT ![k] = v]
  <2>1. /\ c[k] = NONE
        /\ d \in {[c EXCEPT ![k] = v, ![lru] = NONE] : lru \in Cached(c)}
      BY <1>2 DEF CachePut
  <2>2. PICK lru \in Cached(c) : d = [c EXCEPT ![k] = v, ![lru] = NONE]
      BY <2>1
  <2>3. lru \in Keys /\ lru # k
      BY <2>1 DEF Cached
  <2> QED
      BY <2>2, <2>3 DEF ContentTable, Content
<1> QED
    BY <1>1, <1>2

\* An interrupted write leaves a part of the table: each entry whole, garbled or
\* not there.
LEMMA TornIsPart ==
    ASSUME NEW t \in ContentTable, NEW torn \in TornTables(t)
    PROVE  /\ torn \in ContentTable
           /\ \A k \in Keys : torn[k] \in {t[k], NONE, GARBLED}
           /\ \A k \in Keys : t[k] = NONE => torn[k] = NONE
<1>1. ASSUME NEW k \in Keys, NEW v \in {NONE, GARBLED}, torn = FirstPart(t, k, v), t[k] = NONE => v = NONE
      PROVE  /\ torn \in ContentTable
             /\ \A j \in Keys : torn[j] \in {t[j], NONE, GARBLED}
             /\ \A j \in Keys : t[j] = NONE => torn[j] = NONE
    BY <1>1 DEF FirstPart, ContentTable, Content
<1> QED
    BY <1>1 DEF TornTables

----------------------------------------------------------------------------
(* The search while compact() changes the directory.                       *)

LEMMA InsertedIs ==
    ASSUME NEW ss \in Seq(Nat), Len(ss) > 1, NEW p \in Nat
    PROVE  /\ Inserted(ss, p) \in Seq(Nat)
           /\ Len(Inserted(ss, p)) = Len(ss) + 1
           /\ \A i \in 1..Len(ss) + 1 :
                 Inserted(ss, p)[i] = IF i < 3 THEN ss[i] ELSE IF i = 3 THEN p ELSE ss[i - 1]
<1> DEFINE a == SubSeq(ss, 1, 2)
           b == <<p>>
           n == Len(ss)
           c == SubSeq(ss, 3, n)
<1>1. n \in Nat /\ n >= 2 /\ \A i \in 1..n : ss[i] \in Nat
    BY ElementOfSeq
<1>2. a \in Seq(Nat) /\ Len(a) = 2 /\ a[1] = ss[1] /\ a[2] = ss[2]
    BY <1>1
<1>3. b \in Seq(Nat) /\ Len(b) = 1 /\ b[1] = p
    OBVIOUS
<1>4. /\ a \o b \in Seq(Nat) /\ Len(a \o b) = 3
      /\ (a \o b)[1] = ss[1] /\ (a \o b)[2] = ss[2] /\ (a \o b)[3] = p
  <2> HIDE DEF a, b
  <2>1. /\ a \o b \in Seq(Nat) /\ Len(a \o b) = Len(a) + Len(b)
        /\ \A i \in 1..Len(a) + Len(b) : (a \o b)[i] = IF i <= Len(a) THEN a[i] ELSE b[i - Len(a)]
      BY <1>2, <1>3, ConcatProperties
  <2>2. 1 \in 1..Len(a) + Len(b) /\ 2 \in 1..Len(a) + Len(b) /\ 3 \in 1..Len(a) + Len(b)
      BY <1>2, <1>3
  <2> QED
      BY <1>2, <1>3, <2>1, <2>2
<1> HIDE DEF n
<1>5. /\ c \in Seq(Nat) /\ Len(c) = n - 2
      /\ \A i \in 1..n - 2 : c[i] = ss[i + 2]
  <2>1. 3 \in Int /\ n \in Int /\ \A i \in 3..n : ss[i] \in Nat
      BY <1>1
  <2>2. /\ c \in Seq(Nat) /\ Len(c) = IF 3 <= n THEN n - 3 + 1 ELSE 0
        /\ \A i \in 1..n - 3 + 1 : c[i] = ss[3 + i - 1]
      BY <2>1, SubSeqProperties
  <2> HIDE DEF c
  <2>3. Len(c) = n - 2
      BY <1>1, <2>2
  <2>4. ASSUME NEW i \in 1..n - 2 PROVE c[i] = ss[i + 2]
    <3>1. i \in 1..n - 3 + 1 /\ 3 + i - 1 = i + 2
        BY <1>1
    <3>2. c[i] = ss[3 + i - 1]
        BY <2>2, <3>1
    <3> QED
        BY <3>1, <3>2
  <2> QED
      BY <2>2, <2>3, <2>4
<1> DEFINE d == a \o b
<1>6. /\ d \in Seq(Nat) /\ Len(d) = 3 /\ d[1] = ss[1] /\ d[2] = ss[2] /\ d[3] = p
      /\ Inserted(ss, p) = d \o c
    BY <1>4 DEF Inserted, n
<1> HIDE DEF c, d
<1>7. /\ d \o c \in Seq(Nat) /\ Len(d \o c) = Len(d) + Len(c)
      /\ \A i \in 1..Len(d) + Len(c) : (d \o c)[i] = IF i <= Len(d) THEN d[i] ELSE c[i - Len(d)]
    BY <1>5, <1>6, ConcatProperties
<1>8. Len(d) + Len(c) = n + 1
    BY <1>1, <1>5, <1>6
<1>9. ASSUME NEW i \in 1..n + 1
      PROVE  (d \o c)[i] = IF i < 3 THEN ss[i] ELSE IF i = 3 THEN p ELSE ss[i - 1]
  <2>1. (d \o c)[i] = IF i <= 3 THEN d[i] ELSE c[i - 3]
      BY <1>6, <1>7, <1>8
  <2>2. CASE i <= 3
    <3>1. i = 1 \/ i = 2 \/ i = 3
        BY <1>1, <2>2
    <3> QED
        BY <1>6, <2>1, <2>2, <3>1
  <2>3. CASE i > 3
    <3>1. i - 3 \in 1..n - 2 /\ (i - 3) + 2 = i - 1 /\ ~(i <= 3) /\ ~(i < 3) /\ i # 3
        BY <1>1, <2>3
    <3>2. c[i - 3] = ss[(i - 3) + 2]
        BY <1>5, <3>1
    <3> QED
        BY <2>1, <3>1, <3>2
  <2>4. i <= 3 \/ i > 3
      BY <1>1
  <2> QED
      BY <2>2, <2>3, <2>4
<1> QED
    BY <1>6, <1>7, <1>8, <1>9 DEF n

\* Between its sources and the younger tables, the merged file changes no search,
\* whether it has its value of the key or not yet.
LEMMA LookupInserted ==
    ASSUME NEW fs, NEW gs, NEW ss \in Seq(Nat), Len(ss) > 1, NEW p \in Nat, NEW k \in Keys,
           \A i \in DOMAIN ss : TableOf(gs, ss[i])[k] = TableOf(fs, ss[i])[k],
           TableOf(gs, p)[k] \in {NONE, Merge(TableOf(fs, ss[1]), TableOf(fs, ss[2]))[k]}
    PROVE  Lookup(gs, Inserted(ss, p), k) = Lookup(fs, ss, k)
<1> DEFINE tt == Inserted(ss, p)
           n  == Len(ss)
<1>1. /\ n \in Nat /\ n > 1 /\ DOMAIN ss = 1..n /\ tt \in Seq(Nat) /\ DOMAIN tt = 1..n + 1
      /\ tt[1] = ss[1] /\ tt[2] = ss[2] /\ tt[3] = p
      /\ \A i \in 4..n + 1 : tt[i] = ss[i - 1] /\ i - 1 \in 1..n /\ i - 1 > 2
  <2>1. \A i \in 1..n + 1 : tt[i] = IF i < 3 THEN ss[i] ELSE IF i = 3 THEN p ELSE ss[i - 1]
      BY InsertedIs
  <2>2. tt \in Seq(Nat) /\ Len(tt) = n + 1
      BY InsertedIs
  <2>3. n \in Nat /\ n > 1 /\ DOMAIN ss = 1..n /\ DOMAIN tt = 1..n + 1
      BY <2>2
  <2> HIDE DEF tt, n
  <2>4. 1 \in 1..n + 1 /\ 2 \in 1..n + 1 /\ 3 \in 1..n + 1
      BY <2>3
  <2>5. tt[1] = ss[1] /\ tt[2] = ss[2] /\ tt[3] = p
      BY <2>1, <2>4
  <2>6. ASSUME NEW i \in 4..n + 1 PROVE tt[i] = ss[i - 1] /\ i - 1 \in 1..n /\ i - 1 > 2
    <3>1. i \in 1..n + 1 /\ ~(i < 3) /\ i # 3 /\ i - 1 \in 1..n /\ i - 1 > 2
        BY <2>3
    <3> QED
        BY <2>1, <3>1
  <2> QED
      BY <2>2, <2>3, <2>5, <2>6
<1> DEFINE both == Over(TableOf(fs, ss[2])[k], TableOf(fs, ss[1])[k])
<1>3. TableOf(gs, p)[k] \in {NONE, both}
    BY DEF Merge
<1> HIDE DEF tt, n
<1>4. TableOf(gs, tt[3])[k] \in {NONE, both}
    BY <1>1, <1>3
<1>5. /\ \A i \in 4..n + 1 : TableOf(gs, tt[i])[k] = TableOf(fs, ss[i - 1])[k]
      /\ TableOf(gs, tt[1])[k] = TableOf(fs, ss[1])[k] /\ TableOf(gs, tt[2])[k] = TableOf(fs, ss[2])[k]
  <2>1. 1 \in 1..n /\ 2 \in 1..n
      BY <1>1
  <2>2. \A i \in 1..n : TableOf(gs, ss[i])[k] = TableOf(fs, ss[i])[k]
      BY <1>1
  <2> QED
      BY <1>1, <2>1, <2>2
<1>6. CASE Absent(fs, ss, k)
  <2>1. \A j \in 1..n : TableOf(fs, ss[j])[k] = NONE
      BY <1>1, <1>6 DEF Absent
  <2>2. 1 \in 1..n /\ 2 \in 1..n
      BY <1>1
  <2>3. \A j \in 1..n + 1 : j = 1 \/ j = 2 \/ j = 3 \/ j \in 4..n + 1
      BY <1>1
  <2>4. ASSUME NEW j \in 1..n + 1 PROVE TableOf(gs, tt[j])[k] = NONE
    <3>1. CASE j \in 4..n + 1
        BY <1>1, <1>5, <2>1, <3>1
    <3>2. CASE j = 3
        BY <1>4, <2>1, <2>2, <3>2 DEF Over
    <3>3. CASE j = 1 \/ j = 2
        BY <1>5, <2>1, <2>2, <3>3
    <3> QED
        BY <2>3, <3>1, <3>2, <3>3
  <2>5. Absent(gs, tt, k)
      BY <1>1, <2>4 DEF Absent
  <2> QED
      BY <1>6, <2>5, LookupMisses DEF tt
<1>7. CASE \E i : LastAt(fs, ss, k, i)
  <2>1. PICK i : LastAt(fs, ss, k, i)
      BY <1>7
  <2>2. /\ i \in 1..n /\ TableOf(fs, ss[i])[k] # NONE
        /\ \A j \in 1..n : j > i => TableOf(fs, ss[j])[k] = NONE
      BY <1>1, <2>1 DEF LastAt
  <2>8. n \in Nat /\ n > 1 /\ i \in 1..n
      BY <1>1, <2>2
  <2> DEFINE h == IF i > 2 THEN i + 1 ELSE IF TableOf(gs, tt[3])[k] # NONE THEN 3 ELSE i
  <2>3. h \in 1..n + 1 /\ TableOf(gs, tt[h])[k] = TableOf(fs, ss[i])[k]
    <3>1. CASE i > 2
      <4>1. h = i + 1 /\ i + 1 \in 4..n + 1 /\ (i + 1) - 1 = i /\ i + 1 \in 1..n + 1
          BY <2>8, <3>1
      <4> HIDE DEF h
      <4>2. TableOf(gs, tt[i + 1])[k] = TableOf(fs, ss[(i + 1) - 1])[k]
          BY <1>5, <4>1
      <4> QED
          BY <4>1, <4>2
    <3>2. CASE i <= 2 /\ TableOf(gs, tt[3])[k] # NONE
      <4>1. both = TableOf(fs, ss[i])[k]
        <5>1. CASE i = 2
            BY <2>2, <5>1 DEF Over
        <5>2. CASE i = 1
          <6>1. 2 \in 1..n /\ 2 > i
              BY <1>1, <5>2
          <6> QED
              BY <2>2, <5>2, <6>1 DEF Over
        <5> QED
            BY <2>8, <3>2, <5>1, <5>2
      <4>2. h = 3 /\ 3 \in 1..n + 1
          BY <2>8, <3>2
      <4> HIDE DEF h, both
      <4> QED
          BY <1>4, <3>2, <4>1, <4>2
    <3>3. CASE i <= 2 /\ TableOf(gs, tt[3])[k] = NONE
      <4>1. (i = 1 \/ i = 2) /\ h = i /\ i \in 1..n + 1
          BY <2>8, <3>3
      <4> HIDE DEF h
      <4> QED
          BY <1>5, <4>1
    <3> QED
        BY <2>8, <3>1, <3>2, <3>3
  <2>4. ASSUME NEW j \in 1..n + 1, j > h PROVE TableOf(gs, tt[j])[k] = NONE
    <3>1. CASE j \in 4..n + 1
      <4>1. j - 1 \in 1..n /\ j - 1 > i
          BY <1>1, <2>2, <2>4, <3>1
      <4> QED
          BY <1>5, <2>2, <3>1, <4>1
    <3>2. CASE j = 3
        BY <1>1, <2>2, <2>4, <3>2
    <3>3. CASE j = 2
      <4>1. i = 1 /\ 2 \in 1..n
          BY <1>1, <2>2, <2>4, <3>3
      <4> QED
          BY <1>5, <2>2, <3>3, <4>1
    <3>4. j # 1
        BY <1>1, <2>2, <2>4
    <3> QED
        BY <1>1, <3>1, <3>2, <3>3, <3>4
  <2>5. LastAt(gs, tt, k, h)
      BY <1>1, <2>2, <2>3, <2>4 DEF LastAt
  <2> HIDE DEF h
  <2>6. Lookup(gs, tt, k) = TableOf(gs, tt[h])[k]
    <3>1. tt \in Seq(Nat)
        BY <1>1
    <3> QED
        BY <2>5, <3>1, LookupFinds
  <2>7. Lookup(fs, ss, k) = TableOf(fs, ss[i])[k]
      BY <2>1, LookupFinds
  <2> QED
      BY <2>3, <2>6, <2>7 DEF tt
<1> QED
    BY <1>6, <1>7, LookupCases

\* Removing the file searched last changes no search when a later one holds all
\* of its keys.
LEMMA LookupHeadRemoved ==
    ASSUME NEW fs, NEW ss \in Seq(Nat), Distinct(ss), NEW h \in DOMAIN ss, h > 1, NEW k \in Keys,
           TableOf(fs, ss[1])[k] # NONE => TableOf(fs, ss[h])[k] # NONE
    PROVE  Lookup([q \in DOMAIN fs \ {ss[1]} |-> fs[q]], Tail(ss), k) = Lookup(fs, ss, k)
<1> DEFINE gs == [q \in DOMAIN fs \ {ss[1]} |-> fs[q]]
           tt == Tail(ss)
           n  == Len(ss)
<1>1. /\ n \in Nat /\ n > 1 /\ DOMAIN ss = 1..n /\ tt \in Seq(Nat) /\ DOMAIN tt = 1..n - 1
      /\ \A i \in 1..n - 1 : tt[i] = ss[i + 1] /\ i + 1 \in 1..n /\ i + 1 # 1
      /\ 1 \in 1..n
    OBVIOUS
<1>2. \A i \in 1..n : i # 1 => ss[i] # ss[1]
    BY <1>1 DEF Distinct
<1>3. \A i \in 1..n - 1 : TableOf(gs, tt[i]) = TableOf(fs, ss[i + 1])
    BY <1>1, <1>2 DEF TableOf
<1> HIDE DEF gs, tt, n
<1>4. CASE Absent(fs, ss, k)
  <2>1. Absent(gs, tt, k)
      BY <1>1, <1>3, <1>4 DEF Absent
  <2> QED
      BY <1>4, <2>1, LookupMisses DEF gs, tt
<1>5. CASE \E i : LastAt(fs, ss, k, i)
  <2>1. PICK i : LastAt(fs, ss, k, i)
      BY <1>5
  <2>2. /\ i \in 1..n /\ TableOf(fs, ss[i])[k] # NONE
        /\ \A j \in 1..n : j > i => TableOf(fs, ss[j])[k] = NONE
      BY <1>1, <2>1 DEF LastAt
  <2>3. i # 1
    <3>1. h \in 1..n /\ h > 1
        BY <1>1
    <3> QED
        BY <2>2, <3>1
  <2>4. i - 1 \in 1..n - 1 /\ (i - 1) + 1 = i
      BY <1>1, <2>2, <2>3
  <2>5. ASSUME NEW j \in 1..n - 1, j > i - 1 PROVE TableOf(gs, tt[j])[k] = NONE
    <3>1. j + 1 \in 1..n /\ j + 1 > i
        BY <1>1, <2>2, <2>5
    <3> QED
        BY <1>3, <2>2, <3>1
  <2>6. LastAt(gs, tt, k, i - 1)
      BY <1>1, <1>3, <2>2, <2>4, <2>5 DEF LastAt
  <2>7. Lookup(gs, tt, k) = TableOf(gs, tt[i - 1])[k]
      BY <1>1, <2>6, LookupFinds
  <2>8. Lookup(fs, ss, k) = TableOf(fs, ss[i])[k]
      BY <2>1, LookupFinds
  <2> QED
      BY <1>3, <2>4, <2>7, <2>8 DEF gs, tt
<1> QED
    BY <1>4, <1>5, LookupCases

\* Nor does leaving it out when it does not hold the key.
LEMMA LookupTail ==
    ASSUME NEW fs, NEW ss \in Seq(Nat), Len(ss) > 0, NEW k \in Keys, TableOf(fs, ss[1])[k] = NONE
    PROVE  Lookup(fs, Tail(ss), k) = Lookup(fs, ss, k)
<1> DEFINE tt == Tail(ss)
           n  == Len(ss)
<1>1. /\ n \in Nat /\ n > 0 /\ DOMAIN ss = 1..n /\ tt \in Seq(Nat) /\ DOMAIN tt = 1..n - 1
      /\ \A i \in 1..n - 1 : tt[i] = ss[i + 1] /\ i + 1 \in 1..n /\ i + 1 # 1
    OBVIOUS
<1> HIDE DEF tt, n
<1>2. CASE Absent(fs, ss, k)
  <2>1. Absent(fs, tt, k)
      BY <1>1, <1>2 DEF Absent
  <2> QED
      BY <1>2, <2>1, LookupMisses DEF tt
<1>3. CASE \E i : LastAt(fs, ss, k, i)
  <2>1. PICK i : LastAt(fs, ss, k, i)
      BY <1>3
  <2>2. /\ i \in 1..n /\ TableOf(fs, ss[i])[k] # NONE
        /\ \A j \in 1..n : j > i => TableOf(fs, ss[j])[k] = NONE
      BY <1>1, <2>1 DEF LastAt
  <2>3. i - 1 \in 1..n - 1 /\ (i - 1) + 1 = i
      BY <1>1, <2>2
  <2>8. n \in Nat /\ i \in 1..n
      BY <1>1, <2>2
  <2>4. ASSUME NEW j \in 1..n - 1, j > i - 1 PROVE TableOf(fs, tt[j])[k] = NONE
    <3>1. j + 1 \in 1..n /\ j + 1 > i
        BY <2>4, <2>8
    <3> QED
        BY <1>1, <2>2, <3>1
  <2>5. LastAt(fs, tt, k, i - 1)
      BY <1>1, <2>2, <2>3, <2>4 DEF LastAt
  <2>6. Lookup(fs, tt, k) = TableOf(fs, tt[i - 1])[k]
    <3>1. tt \in Seq(Nat)
        BY <1>1
    <3> QED
        BY <2>5, <3>1, LookupFinds
  <2>7. Lookup(fs, ss, k) = TableOf(fs, ss[i])[k]
      BY <2>1, LookupFinds
  <2> QED
      BY <1>1, <2>3, <2>6, <2>7 DEF tt
<1> QED
    BY <1>2, <1>3, LookupCases

----------------------------------------------------------------------------
(* What searches, merges and replays return.                               *)

LEMMA LookupContent ==
    ASSUME NEW fs, \A p \in DOMAIN fs : fs[p] \in ContentTable, NEW ss \in Seq(Nat), NEW k \in Keys
    PROVE  Lookup(fs, ss, k) \in Content
<1>1. CASE Absent(fs, ss, k)
    BY <1>1, LookupMisses DEF Content
<1>2. CASE \E i : LastAt(fs, ss, k, i)
  <2>1. PICK i : Lookup(fs, ss, k) = TableOf(fs, ss[i])[k]
      BY <1>2, LookupFinds
  <2>2. TableOf(fs, ss[i]) \in ContentTable
      BY ContentTypes DEF TableOf
  <2> QED
      BY <2>1, <2>2 DEF ContentTable
<1> QED
    BY <1>1, <1>2, LookupCases

LEMMA TableOfContent ==
    ASSUME NEW fs, \A p \in DOMAIN fs : fs[p] \in ContentTable, NEW p
    PROVE  TableOf(fs, p) \in ContentTable
BY ContentTypes DEF TableOf

LEMMA MergeContent ==
    ASSUME NEW t \in ContentTable, NEW u \in ContentTable
    PROVE  /\ Merge(t, u) \in ContentTable
           /\ \A k \in Keys : t[k] # NONE \/ u[k] # NONE => Merge(t, u)[k] # NONE
BY DEF Merge, Over, ContentTable

LEMMA ReplayContent ==
    ASSUME NEW w \in Seq(Command)
    PROVE  Replay(w) \in ContentTable
<1> SUFFICES ASSUME NEW k \in Keys
             PROVE  LET on == {i \in DOMAIN w : w[i].key = k}
                    IN  (IF on = {} THEN NONE ELSE Effect(w[Latest(on)])) \in Content
    BY DEF Replay, ContentTable
<1> DEFINE on == {i \in DOMAIN w : w[i].key = k}
<1>1. DOMAIN w = 1..Len(w) /\ Len(w) \in Nat /\ IsFiniteSet(1..Len(w))
    BY UpToN
<1>2. IsFiniteSet(on) /\ on \subseteq Nat /\ on \subseteq DOMAIN w
    BY <1>1, FS_Subset
<1>3. CASE on = {}
    BY <1>3 DEF Content
<1>4. CASE on # {}
  <2> HIDE DEF on
  <2>1. Latest(on) \in DOMAIN w
      BY <1>2, <1>4, LatestExists
  <2>2. w[Latest(on)] \in Command
      BY <2>1, <1>1, ElementOfSeq
  <2>3. Effect(w[Latest(on)]) \in Content
      BY <2>2, EffectIs
  <2> QED
      BY <1>4, <2>3 DEF on
<1> QED
    BY <1>3, <1>4

\* The log with one more command, as a table.
LEMMA ReplayLogged ==
    ASSUME NEW w \in Seq(Command), NEW c \in Command
    PROVE  Replay(Append(w, c)) = [Replay(w) EXCEPT ![c.key] = Effect(c)]
<1>1. Replay(w) \in ContentTable
    BY ReplayContent
<1>2. w \in Seq(LogRecord) /\ c \in LogRecord /\ c.key \in Keys
    BY ContentTypes, EffectIs
<1>3. \A k \in Keys : Replay(Append(w, c))[k] = IF c.key = k THEN Effect(c) ELSE Replay(w)[k]
    BY <1>2, ReplayAppend
<1> DEFINE a == Replay(Append(w, c))
           b == [Replay(w) EXCEPT ![c.key] = Effect(c)]
<1>4. a = [k \in Keys |-> a[k]]
    BY DEF Replay
<1>5. b = [k \in Keys |-> b[k]]
    BY <1>1 DEF ContentTable
<1>6. \A k \in Keys : a[k] = b[k]
    BY <1>1, <1>3 DEF ContentTable
<1> HIDE DEF a, b
<1>7. a = b
    BY <1>4, <1>5, <1>6
<1> QED
    BY <1>7 DEF a, b

----------------------------------------------------------------------------
(* The order of the names.                                                 *)

LEMMA TailOf ==
    ASSUME NEW ss \in Seq(Nat), Len(ss) > 0
    PROVE  /\ Tail(ss) \in Seq(Nat) /\ Len(Tail(ss)) = Len(ss) - 1
           /\ \A i \in 1..Len(ss) - 1 : Tail(ss)[i] = ss[i + 1]
BY HeadTailProperties

LEMMA TailIncreasing ==
    ASSUME NEW ss \in Seq(Nat), Len(ss) > 0
    PROVE  /\ Increasing(ss) => Increasing(Tail(ss))
           /\ Distinct(ss) => Distinct(Tail(ss)) /\ Names(Tail(ss)) = Names(ss) \ {ss[1]}
<1> DEFINE n == Len(ss)
           tt == Tail(ss)
<1>1. /\ n \in Nat /\ n > 0 /\ DOMAIN ss = 1..n /\ DOMAIN tt = 1..n - 1
      /\ \A i \in 1..n - 1 : tt[i] = ss[i + 1] /\ i + 1 \in 1..n
    BY TailOf
<1> HIDE DEF n, tt
<1>2. ASSUME Increasing(ss) PROVE Increasing(tt)
  <2> SUFFICES ASSUME NEW i \in 1..n - 1, NEW j \in 1..n - 1, i < j PROVE tt[i] < tt[j]
      BY <1>1 DEF Increasing
  <2>1. i + 1 < j + 1
      BY <1>1
  <2> QED
      BY <1>1, <1>2, <2>1 DEF Increasing
<1>3. ASSUME Distinct(ss) PROVE Distinct(tt)
  <2> SUFFICES ASSUME NEW i \in 1..n - 1, NEW j \in 1..n - 1, tt[i] = tt[j] PROVE i = j
      BY <1>1 DEF Distinct
  <2>1. i + 1 = j + 1
      BY <1>1, <1>3 DEF Distinct
  <2> QED
      BY <1>1, <2>1
<1>4. ASSUME Distinct(ss) PROVE Names(tt) = Names(ss) \ {ss[1]}
  <2>1. ASSUME NEW i \in 1..n - 1 PROVE tt[i] \in Names(ss) \ {ss[1]}
    <3>1. i + 1 \in 1..n /\ 1 \in 1..n /\ i + 1 # 1
        BY <1>1
    <3> QED
        BY <1>1, <1>4, <3>1 DEF Distinct, Names
  <2>2. ASSUME NEW j \in 1..n, ss[j] # ss[1] PROVE ss[j] \in Names(tt)
    <3>1. j # 1 /\ j - 1 \in 1..n - 1 /\ (j - 1) + 1 = j
        BY <1>1, <2>2
    <3>2. tt[j - 1] = ss[j]
        BY <1>1, <3>1
    <3> QED
        BY <1>1, <3>1, <3>2 DEF Names
  <2>3. \A x \in Names(tt) : x \in Names(ss) \ {ss[1]}
      BY <1>1, <2>1 DEF Names
  <2>4. \A x \in Names(ss) \ {ss[1]} : x \in Names(tt)
      BY <1>1, <2>2 DEF Names
  <2> QED
      BY <2>3, <2>4
<1> QED
    BY <1>2, <1>3, <1>4 DEF tt

\* What compact() leaves of its vector, its sources gone.
LEMMA TwiceTail ==
    ASSUME NEW ss \in Seq(Nat), Len(ss) > 1, NEW p \in Nat
    PROVE  /\ Tail(Inserted(ss, p)) \in Seq(Nat) /\ Len(Tail(Inserted(ss, p))) = Len(ss)
           /\ Tail(Inserted(ss, p))[1] = ss[2] /\ Tail(Inserted(ss, p))[2] = p
           /\ Tail(Tail(Inserted(ss, p)))
                = [i \in 1..Len(ss) - 1 |-> IF i = 1 THEN p ELSE ss[i + 1]]
           /\ Tail(Tail(Inserted(ss, p))) \in Seq(Nat)
<1> DEFINE n == Len(ss)
           tt == Inserted(ss, p)
           uu == Tail(tt)
           vv == Tail(uu)
<1>1. /\ n \in Nat /\ n > 1 /\ tt \in Seq(Nat) /\ Len(tt) = n + 1
      /\ \A i \in 1..n + 1 : tt[i] = IF i < 3 THEN ss[i] ELSE IF i = 3 THEN p ELSE ss[i - 1]
  <2>1. n \in Nat /\ n > 1
      OBVIOUS
  <2> HIDE DEF tt
  <2>2. tt \in Seq(Nat) /\ Len(tt) = n + 1
      BY InsertedIs DEF tt
  <2>3. \A i \in 1..n + 1 : tt[i] = IF i < 3 THEN ss[i] ELSE IF i = 3 THEN p ELSE ss[i - 1]
      BY InsertedIs DEF tt
  <2> QED
      BY <2>1, <2>2, <2>3
<1> HIDE DEF n, tt
<1>2. uu \in Seq(Nat) /\ Len(uu) = n /\ \A i \in 1..n : uu[i] = tt[i + 1]
  <2>1. Len(tt) > 0 /\ Len(tt) - 1 = n
      BY <1>1
  <2> QED
      BY <1>1, <2>1, TailOf
<1> HIDE DEF uu
<1>3. vv \in Seq(Nat) /\ Len(vv) = n - 1 /\ \A i \in 1..n - 1 : vv[i] = uu[i + 1]
  <2>1. Len(uu) > 0
      BY <1>1, <1>2
  <2> QED
      BY <1>2, <2>1, TailOf
<1> HIDE DEF vv
<1>4. uu[1] = ss[2] /\ uu[2] = p
  <2>1. 1 \in 1..n /\ 2 \in 1..n /\ 2 \in 1..n + 1 /\ 3 \in 1..n + 1
      BY <1>1
  <2>2. uu[1] = tt[2] /\ uu[2] = tt[3]
      BY <1>2, <2>1
  <2> QED
      BY <1>1, <2>1, <2>2
<1>5. ASSUME NEW i \in 1..n - 1 PROVE vv[i] = IF i = 1 THEN p ELSE ss[i + 1]
  <2>1. i + 1 \in 1..n /\ i + 2 \in 1..n + 1 /\ (i + 1) + 1 = i + 2 /\ ~(i + 2 < 3)
      BY <1>1
  <2>2. vv[i] = tt[i + 2]
      BY <1>2, <1>3, <2>1
  <2>3. tt[i + 2] = IF i + 2 = 3 THEN p ELSE ss[(i + 2) - 1]
      BY <1>1, <2>1
  <2>4. (i + 2 = 3) = (i = 1) /\ (i + 2) - 1 = i + 1
      BY <1>1
  <2> QED
      BY <2>2, <2>3, <2>4
<1>6. vv = [i \in 1..n - 1 |-> IF i = 1 THEN p ELSE ss[i + 1]]
  <2>1. vv = [i \in 1..n - 1 |-> vv[i]]
      BY <1>1, <1>3, LenProperties
  <2> QED
      BY <1>5, <2>1
<1> QED
    BY <1>2, <1>3, <1>4, <1>6 DEF n, uu, vv, tt
=============================================================================
