--------------------------- MODULE LSMCrashSafety ---------------------------
(***************************************************************************)
(* Proofs that the engine keeps what it acknowledged at whatever step the  *)
(* process dies, for every value of the constants without the faults that  *)
(* the findings are about.                                                 *)
(***************************************************************************)
EXTENDS LSMCrashInvariant

----------------------------------------------------------------------------
(* What the invariant says of a running process.                           *)

LEMMA PresentIs ==
    ASSUME CInv, up
    PROVE  /\ Present \in Seq(Nat) /\ Distinct(Present)
           /\ \A i \in DOMAIN Present : Present[i] \in DOMAIN files
<1>1. sstables \in Seq(Nat) /\ out \in Nat /\ Distinct(sstables)
    BY DEF CInv, CrashTypeOK, NamesOK
<1>2. Present \in Seq(Nat) /\ Distinct(Present)
  <2>1. CASE merging \notin {"older", "newer", "replace"}
      BY <1>1, <2>1 DEF Present
  <2>2. CASE merging \in {"older", "newer", "replace"}
    <3> DEFINE tt == Inserted(sstables, out)
    <3>1. Len(sstables) > 1 /\ Distinct(tt) /\ Len(sstables) \in Nat
        BY <1>1, <2>2 DEF CInv, NamesOK
    <3>2. tt \in Seq(Nat) /\ Len(tt) = Len(sstables) + 1
        BY <1>1, <3>1, InsertedIs
    <3>3. Tail(tt) \in Seq(Nat) /\ Len(Tail(tt)) = Len(sstables) /\ Tail(Tail(tt)) \in Seq(Nat)
        BY <1>1, <3>1, TwiceTail
    <3> HIDE DEF tt
    <3>4. Distinct(Tail(tt)) /\ Distinct(Tail(Tail(tt)))
      <4>1. Len(tt) > 0 /\ Len(Tail(tt)) > 0
          BY <3>1, <3>2, <3>3
      <4>2. Distinct(Tail(tt))
          BY <3>1, <3>2, <4>1, TailIncreasing
      <4> QED
          BY <3>3, <4>1, <4>2, TailIncreasing
    <3> QED
        BY <2>2, <3>1, <3>2, <3>3, <3>4 DEF Present, tt
  <2> QED
      BY <2>1, <2>2
<1>3. \A i \in DOMAIN Present : Present[i] \in Names(Present)
    BY DEF Names
<1> QED
    BY <1>2, <1>3 DEF CInv, NamesOK

\* What is searched and replayed is content of tables.
LEMMA FoundIs ==
    ASSUME CInv, up, NEW k \in Keys
    PROVE  Found(k) \in Content /\ Replay(wal)[k] \in Content /\ memtable[k] \in Content
<1>1. \A p \in DOMAIN files : files[p] \in ContentTable
    BY DEF CInv, CrashTypeOK
<1>2. Present \in Seq(Nat)
    BY PresentIs
<1>3. Found(k) \in Content
    BY <1>1, <1>2, LookupContent DEF Found
<1>4. Replay(wal) \in ContentTable /\ memtable \in ContentTable
    BY ReplayContent DEF CInv, CrashTypeOK
<1> QED
    BY <1>3, <1>4 DEF ContentTable

\* A name made now is fresh.
LEMMA FreshNames ==
    ASSUME CInv
    PROVE  /\ FlushName(now) \in Nat /\ CompactedName(now) \in Nat
           /\ FlushName(now) \notin DOMAIN files /\ CompactedName(now) \notin DOMAIN files
           /\ \A t \in Nat : t > now => \A p \in DOMAIN files \cup {FlushName(now), CompactedName(now)} :
                                            p < FlushName(t)
<1>1. now \in Nat /\ DOMAIN files \subseteq Nat /\ \A p \in DOMAIN files : p < FlushName(now)
    BY DEF CInv, CrashTypeOK, NamesOK
<1>2. FlushName(now) = 2 * now /\ CompactedName(now) = 2 * now + 1
    BY DEF FlushName, CompactedName
<1>3. ASSUME NEW t \in Nat, t > now PROVE FlushName(t) >= 2 * now + 2
  <2>1. FlushName(t) = 2 * t
      BY DEF FlushName
  <2> QED
      BY <1>1, <1>3, <2>1
<1>4. \A p \in DOMAIN files : p < 2 * now
    BY <1>1, <1>2
<1>5. ASSUME NEW t \in Nat, t > now, NEW p \in DOMAIN files \cup {FlushName(now), CompactedName(now)}
      PROVE  p < FlushName(t)
  <2>1. p \in Nat /\ p <= 2 * now + 1
    <3>1. p \in DOMAIN files \/ p = 2 * now \/ p = 2 * now + 1
        BY <1>2
    <3>2. p \in DOMAIN files => p \in Nat /\ p < 2 * now
        BY <1>1, <1>4
    <3> QED
        BY <1>1, <3>1, <3>2
  <2>2. FlushName(t) >= 2 * now + 2 /\ FlushName(t) \in Nat
      BY <1>3, <1>5 DEF FlushName
  <2> QED
      BY <1>1, <2>1, <2>2
<1>6. /\ FlushName(now) \in Nat /\ CompactedName(now) \in Nat
      /\ FlushName(now) \notin DOMAIN files /\ CompactedName(now) \notin DOMAIN files
  <2>1. 2 * now \notin DOMAIN files /\ 2 * now + 1 \notin DOMAIN files
      BY <1>1, <1>4
  <2> QED
      BY <1>1, <1>2, <2>1
<1> QED
    BY <1>5, <1>6

\* A command that finishes stands in the store as it was expected to.
LEMMA FinishKeeps ==
    ASSUME CInv, Finish, step \in {"apply", "write", "checkpoint"}
    PROVE  /\ \A k \in Keys : Expected(k)' = Expected(k)
           /\ store' \in [Keys -> Promises]
           /\ cmd' = NONE /\ step' = "idle"
<1>1. cmd \in Command \cup {NONE} /\ store \in [Keys -> Promises]
    BY DEF CInv, CrashTypeOK
<1>2. \A k \in Keys : Expected(k)' = store'[k]
    BY DEF Expected, Logged, Finish
<1>3. CASE cmd = NONE
  <2>1. store' = store /\ cmd' = NONE
      BY <1>3 DEF Finish
  <2> QED
      BY <1>1, <1>2, <1>3, <2>1 DEF Expected, Logged, Finish
<1>4. CASE cmd # NONE
  <2>1. store' = [store EXCEPT ![cmd.key] = Promised] /\ cmd' = NONE
      BY <1>4 DEF Finish
  <2>2. cmd.key \in Keys /\ Promised \in Promises
      BY <1>1, <1>4, EffectIs DEF Promised
  <2>3. Logged
      BY <1>4 DEF Logged
  <2> QED
      BY <1>1, <1>2, <2>1, <2>2, <2>3 DEF Expected, Finish
<1> QED
    BY <1>3, <1>4

\* What MemTable and files hold of a key is as good as what log and files hold.
LEMMA FitsIs ==
    ASSUME NEW k \in Keys, Fits(k)
    PROVE  Same(Over(memtable[k], Found(k)), Over(Replay(wal)[k], Found(k)), now)
<1>1. CASE memtable[k] = Replay(wal)[k]
    BY <1>1, SameIs
<1>2. CASE memtable[k] = TOMBSTONE /\ Dead(Over(Replay(wal)[k], Found(k)), now)
    BY <1>2, Markers, SameIs DEF Over
<1> QED
    BY <1>1, <1>2 DEF Fits

----------------------------------------------------------------------------
(* Steps that only move the threads.                                       *)

\* What CInv says is kept when neither data nor the place of a logged command or
\* of a written merged file changes.
LEMMA ControlKeeps ==
    ASSUME CInv, ThreadsOK', UNCHANGED <<vars, up, deaf>>, up,
           \/ step' = step /\ cmd' = cmd
           \/ /\ {step, step'} \subseteq {"idle", "lock", "log"}
              /\ cmd' \in Command /\ cmd'.val \in UserValues \cup KVD!Begun \cup {NONE}
              /\ step' # "idle",
           \/ merging' = merging /\ out' = out
           \/ /\ {merging, merging'} \subseteq {"idle", "called", "ended", "write"}
              /\ out' \in Nat
              /\ merging' = "write" => Len(sstables) > 1 /\ out' = CompactedName(now)
    PROVE  CInv'
<1> USE DEF vars
<1>1. CrashTypeOK'
    BY DEF CInv, CrashTypeOK
<1>2. Present' = Present
    BY DEF Present
<1>3. NamesOK'
    BY <1>2 DEF CInv, NamesOK
<1>4. MergedCovers'
    BY DEF CInv, MergedCovers, Covers, older, newer
<1>5. CommandOK'
  <2>1. KVD!Begun' = KVD!Begun
      BY DEF KVD!Begun
  <2>2. NONE \notin Command
      BY NoCommandAssumption DEF Command
  <2> QED
      BY <2>1, <2>2 DEF CInv, CommandOK
<1>6. \A k \in Keys : Found(k)' = Found(k) /\ Expected(k)' = Expected(k)
    BY <1>2 DEF Found, Expected, Logged, Promised
<1>7. DurableAgrees' /\ CacheAgrees'
    BY <1>6 DEF CInv, DurableAgrees, CacheAgrees
<1>8. MemTableAgrees'
  <2>1. \A k \in Keys : Fits(k)' = Fits(k)
      BY <1>6 DEF Fits
  <2> QED
      BY <2>1 DEF CInv, MemTableAgrees
<1>9. TableOnTop'
    BY <1>6 DEF CInv, TableOnTop
<1> QED
    BY <1>1, <1>3, <1>4, <1>5, <1>7, <1>8, <1>9 DEF CInv

LEMMA ControlSteps ==
    ASSUME CInv, ThreadsOK',
           \/ \E c \in Commands : Receive(c)
           \/ Lock \/ StartCompact \/ ReturnAtOnce \/ LeaveLoop \/ Shutdown
    PROVE  CInv'
<1> USE DEF processVars
<1>1. up /\ CommandOK /\ cmd \in Command \cup {NONE} /\ out \in Nat
  <2>1. ThreadsOK
      BY DEF CInv
  <2>2. up
      BY <2>1 DEF ThreadsOK, Receive, Lock, StartCompact, ReturnAtOnce, LeaveLoop, Shutdown
  <2> QED
      BY <2>2 DEF CInv, CrashTypeOK
<1>2. ASSUME NEW c \in Commands, Receive(c) PROVE CInv'
  <2>1. c \in Command /\ c.val \in UserValues \cup KVD!Begun \cup {NONE}
      BY CommandsAre DEF CInv, CrashTypeOK
  <2> QED
      BY <1>1, <1>2, <2>1, ControlKeeps DEF Receive
<1>3. CASE Lock
  <2>1. cmd \in Command /\ cmd.val \in UserValues \cup KVD!Begun \cup {NONE}
      BY <1>1, <1>3 DEF Lock, CommandOK
  <2> QED
      BY <1>1, <1>3, <2>1, ControlKeeps DEF Lock
<1>4. CASE StartCompact
  <2>1. Len(sstables) > 1
      BY <1>4, CompactionAssumption DEF StartCompact, Due, CInv, CrashTypeOK
  <2>2. CompactedName(now) \in Nat
      BY FreshNames
  <2>3. merging \in {"idle", "called"}
      BY <1>4 DEF StartCompact
  <2> QED
      BY <1>1, <1>4, <2>1, <2>2, <2>3, ControlKeeps DEF StartCompact
<1>5. CASE ReturnAtOnce \/ LeaveLoop
  <2>1. merging \in {"idle", "called"} /\ merging' \in {"idle", "ended"} /\ out' = out
        /\ UNCHANGED <<vars, up, deaf, step, cmd>>
      BY <1>5 DEF ReturnAtOnce, LeaveLoop
  <2> QED
      BY <1>1, <2>1, ControlKeeps
<1>6. CASE Shutdown
  <2>1. /\ \/ merging' = merging
           \/ merging = "idle" /\ merging' = "called"
        /\ out' = out /\ UNCHANGED <<vars, up, deaf, step, cmd>>
      BY <1>6 DEF Shutdown
  <2> QED
      BY <1>1, <2>1, ControlKeeps
<1> QED
    BY <1>2, <1>3, <1>4, <1>5, <1>6

----------------------------------------------------------------------------
(* The server's thread.                                                    *)

\* While it holds the mutex, no merge is under way.
LEMMA ServerInside ==
    ASSUME CInv, step \in {"log", "apply", "write", "checkpoint"}
    PROVE  /\ up /\ merging \in {"idle", "called", "ended"}
           /\ Present = sstables
BY DEF CInv, ThreadsOK, Present

\* append() puts the command behind what was logged.
LEMMA LogKeeps ==
    ASSUME CInv, ThreadsOK', FaultFree, Log
    PROVE  CInv'
<1>1. step = "log" /\ step' = "apply" /\ up /\ cmd \in Command
    BY ServerInside DEF Log, CInv, CommandOK, CrashTypeOK
<1>2. deaf = FALSE /\ deaf' = FALSE /\ wal' = Append(wal, cmd) /\ wal \in Seq(Command)
    BY DEF CInv, CrashTypeOK, FaultFree, Log
<1>3. UNCHANGED <<now, memtable, cache, files, sstables, store, up, cmd, merging, out>>
    BY DEF Log
<1>4. CrashTypeOK'
  <2>1. wal' \in Seq(Command)
      BY <1>1, <1>2, AppendProperties
  <2> QED
      BY <1>1, <1>2, <1>3, <2>1 DEF CInv, CrashTypeOK
<1>5. Present' = Present
    BY <1>3 DEF Present
<1>6. NamesOK' /\ MergedCovers'
    BY <1>3, <1>5 DEF CInv, NamesOK, MergedCovers, Covers, older, newer
<1>7. CommandOK'
  <2>1. KVD!Begun' = KVD!Begun
      BY <1>3 DEF KVD!Begun
  <2> QED
      BY <1>1, <1>3, <2>1 DEF CInv, CommandOK
<1>8. \A k \in Keys : Replay(wal)'[k] = IF cmd.key = k THEN Effect(cmd) ELSE Replay(wal)[k]
  <2>1. Replay(wal)' = [Replay(wal) EXCEPT ![cmd.key] = Effect(cmd)]
      BY <1>1, <1>2, ReplayLogged
  <2>2. Replay(wal) \in ContentTable
      BY <1>2, ReplayContent
  <2> QED
      BY <2>1, <2>2 DEF ContentTable
<1>10. \A k \in Keys : Found(k)' = Found(k)
    BY <1>3, <1>5 DEF Found
<1>9. MemTableAgrees' /\ TableOnTop'
  <2>1. \A k \in Keys : Fits(k)
      BY <1>1 DEF CInv, MemTableAgrees
  <2>2. \A k \in Keys : cmd.key # k => Fits(k)'
      BY <1>3, <1>8, <1>10, <2>1 DEF Fits
  <2> QED
      BY <1>1, <1>3, <1>8, <2>2 DEF MemTableAgrees, TableOnTop
<1>11. CacheAgrees'
    BY <1>3, <1>10 DEF CInv, CacheAgrees
<1>12. DurableAgrees'
  <2> SUFFICES ASSUME NEW k \in Keys
               PROVE  Same(Over(Replay(wal)[k], Found(k)), Expected(k), now)'
      BY <1>1, <1>3 DEF DurableAgrees
  <2>1. Same(Over(Replay(wal)[k], Found(k)), store[k], now)
      BY <1>1 DEF CInv, DurableAgrees, Expected, Logged
  <2>2. Expected(k)' = IF cmd.key = k THEN Promised ELSE store[k]
      BY <1>1, <1>3 DEF CInv, CommandOK, Expected, Logged, Promised
  <2>3. Effect(cmd) # NONE /\ Same(Effect(cmd), Promised, now)
      BY <1>1, EffectIs DEF Promised
  <2> QED
      BY <1>3, <1>8, <1>10, <2>1, <2>2, <2>3 DEF Over
<1> QED
    BY <1>4, <1>6, <1>7, <1>9, <1>11, <1>12 DEF CInv

\* What Apply makes of the MemTable is what the log says; the cache follows.
LEMMA ApplyKeeps ==
    ASSUME CInv, ThreadsOK', Apply
    PROVE  CInv'
<1>1. step = "apply" /\ step' \in {"write", "idle"} /\ up /\ cmd \in Command
    BY ServerInside DEF Apply, Finish, CInv, CommandOK, CrashTypeOK
<1>2. UNCHANGED <<now, wal, files, sstables, up, deaf, merging, out>>
    BY DEF Apply, processVars
<1>3. /\ memtable' = [memtable EXCEPT ![cmd.key] = Effect(cmd)]
      /\ memtable' \in ContentTable /\ memtable \in ContentTable
      /\ cmd.key \in Keys /\ Effect(cmd) \in Content /\ Effect(cmd) # NONE
    BY <1>1, EffectIs DEF Apply, CInv, CrashTypeOK, ContentTable
<1>4. /\ cache' \in ContentTable
      /\ cache'[cmd.key] \in {Effect(cmd), NONE}
      /\ \A j \in Keys : j # cmd.key => cache'[j] \in {cache[j], NONE}
  <2>1. cache \in ContentTable
      BY DEF CInv, CrashTypeOK
  <2>2. CASE cmd.op = "SET"
    <3>1. cache' \in CachePut(cache, cmd.key, cmd.val) /\ Effect(cmd) = cmd.val
        BY <2>2 DEF Apply, Effect
    <3> QED
        BY <1>3, <2>1, <3>1, CachePutContent
  <2>3. CASE cmd.op # "SET"
    <3>1. cache' = [cache EXCEPT ![cmd.key] = NONE]
        BY <2>3 DEF Apply, CacheRemove
    <3> QED
        BY <1>3, <2>1, <3>1 DEF ContentTable, Content
  <2> QED
      BY <2>2, <2>3
<1>5. /\ \A k \in Keys : Expected(k)' = Expected(k)
      /\ store' \in [Keys -> Promises]
      /\ cmd' \in Command \cup {NONE}
      /\ step' = "idle" => cmd' = NONE
  <2>1. CASE Finish
      BY <1>1, <2>1, FinishKeeps
  <2>2. CASE step' = "write" /\ UNCHANGED <<cmd, store>>
      BY <1>1, <2>2 DEF Expected, Logged, Promised, CInv, CrashTypeOK
  <2> QED
      BY <2>1, <2>2 DEF Apply
<1>6. CrashTypeOK'
    BY <1>1, <1>2, <1>3, <1>4, <1>5 DEF CInv, CrashTypeOK
<1>7. Present' = Present
    BY <1>2 DEF Present
<1>8. NamesOK' /\ MergedCovers'
    BY <1>2, <1>7 DEF CInv, NamesOK, MergedCovers, Covers, older, newer
<1>9. CommandOK'
  <2>1. cmd' = NONE \/ cmd' = cmd
      BY DEF Apply, Finish
  <2>2. KVD!Begun' = KVD!Begun
      BY <1>2 DEF KVD!Begun
  <2> QED
      BY <1>1, <1>5, <2>1, <2>2 DEF CInv, CommandOK
<1>10. Replay(wal)' = Replay(wal)
    BY <1>2
<1>12. \A k \in Keys : Found(k)' = Found(k)
    BY <1>2, <1>7 DEF Found
<1>11. MemTableAgrees' /\ TableOnTop'
  <2>1. ASSUME NEW k \in Keys PROVE Fits(k)'
    <3>1. CASE cmd.key = k
        BY <1>1, <1>3, <1>10, <3>1 DEF CInv, MemTableAgrees, Fits, ContentTable
    <3>2. CASE cmd.key # k
      <4>1. Fits(k)
          BY <1>1, <3>2 DEF CInv, MemTableAgrees
      <4>2. memtable'[k] = memtable[k]
          BY <1>3, <3>2 DEF ContentTable
      <4> QED
          BY <1>2, <1>10, <1>12, <4>1, <4>2 DEF Fits
    <3> QED
        BY <3>1, <3>2
  <2> QED
      BY <1>1, <2>1 DEF MemTableAgrees, TableOnTop
<1>13. DurableAgrees'
    BY <1>1, <1>2, <1>5, <1>10, <1>12 DEF CInv, DurableAgrees
<1>14. CacheAgrees'
  <2> SUFFICES ASSUME NEW k \in Keys, cache'[k] # NONE
               PROVE  cache'[k] = Over(memtable'[k], Found(k))
      BY <1>12 DEF CacheAgrees
  <2>1. CASE k = cmd.key
      BY <1>3, <1>4, <2>1 DEF Over, ContentTable
  <2>2. CASE k # cmd.key
    <3>1. cache'[k] = cache[k] /\ memtable'[k] = memtable[k]
        BY <1>3, <1>4, <2>2 DEF ContentTable
    <3> QED
        BY <3>1 DEF CInv, CacheAgrees
  <2> QED
      BY <2>1, <2>2
<1> QED
    BY <1>6, <1>8, <1>9, <1>11, <1>13, <1>14 DEF CInv

\* The new table lies over what was there and holds what the log holds.
LEMMA WriteKeepsAll ==
    ASSUME CInv, ThreadsOK', FaultFree, WriteTable
    PROVE  CInv'
<1> DEFINE p == FlushName(now)
<1>1. /\ step = "write" /\ step' = "checkpoint" /\ up
      /\ merging \in {"idle", "called", "ended"} /\ Present = sstables
    BY ServerInside DEF WriteTable
<1>2. UNCHANGED <<wal, memtable, cache, store, up, deaf, cmd, merging, out>>
    BY DEF WriteTable, processVars
<1>3. files' = WithFile(files, p, memtable) /\ sstables' = Append(sstables, p) /\ now' = now + 1
    BY DEF WriteTable, Flushed, FaultFree
<1>4. /\ now \in Nat /\ now' \in Nat /\ now' > now /\ p \in Nat /\ p \notin DOMAIN files
      /\ \A q \in DOMAIN files \cup {p} : q < FlushName(now')
  <2>1. now \in Nat /\ now' \in Nat /\ now' > now
      BY <1>3 DEF CInv, CrashTypeOK
  <2>2. p \in Nat /\ p \notin DOMAIN files
      BY FreshNames
  <2>3. \A q \in DOMAIN files \cup {p} : q < FlushName(now')
      BY <2>1, FreshNames
  <2> QED
      BY <2>1, <2>2, <2>3
<1> HIDE DEF p
<1>5. /\ sstables \in Seq(Nat) /\ \A i \in DOMAIN sstables : sstables[i] \in DOMAIN files
      /\ Distinct(sstables) /\ memtable \in ContentTable
    BY <1>1, PresentIs DEF CInv, CrashTypeOK
<1>6. DOMAIN files' = DOMAIN files \cup {p}
      /\ \A q \in DOMAIN files' : files'[q] \in ContentTable
    BY <1>3, <1>5 DEF WithFile, CInv, CrashTypeOK
<1>7. IsFiniteSet(DOMAIN files') /\ DOMAIN files' \subseteq Nat
    BY <1>4, <1>6, FS_AddElement DEF CInv, CrashTypeOK
<1>8. sstables' \in Seq(Nat)
    BY <1>3, <1>4, <1>5
<1>9. CrashTypeOK'
    BY <1>1, <1>2, <1>4, <1>6, <1>7, <1>8 DEF CInv, CrashTypeOK
<1>10. Present' = sstables'
    BY <1>1, <1>2 DEF Present
<1>11. Distinct(sstables') /\ Names(sstables') = Names(sstables) \cup {p}
  <2> DEFINE n == Len(sstables) + 1
  <2>1. /\ DOMAIN sstables = 1..Len(sstables) /\ Len(sstables) \in Nat
        /\ DOMAIN sstables' = 1..n /\ sstables'[n] = p
        /\ \A i \in DOMAIN sstables : sstables'[i] = sstables[i]
      BY <1>3, <1>4, <1>5
  <2>2. \A i \in DOMAIN sstables' : i \in DOMAIN sstables \/ i = n
      BY <2>1
  <2>3. Distinct(sstables')
      BY <1>4, <1>5, <2>1, <2>2 DEF Distinct
  <2>4. n \in DOMAIN sstables' /\ \A i \in DOMAIN sstables : i \in DOMAIN sstables'
      BY <2>1
  <2> HIDE DEF n
  <2> QED
      BY <2>1, <2>2, <2>3, <2>4 DEF Names
<1>12. NamesOK'
  <2>1. Names(sstables) = DOMAIN files
      BY <1>1 DEF CInv, NamesOK
  <2> QED
      BY <1>1, <1>2, <1>4, <1>6, <1>10, <1>11, <2>1 DEF NamesOK
<1>13. MergedCovers' /\ CommandOK'
  <2>1. KVD!Begun \subseteq KVD!Begun'
      BY <1>4, BegunIs
  <2> QED
      BY <1>1, <1>2, <2>1 DEF CInv, MergedCovers, CommandOK
<1>14. \A k \in Keys : Fits(k)
    BY <1>1 DEF CInv, MemTableAgrees
<1>15. \A k \in Keys : Found(k)' = Over(memtable[k], Found(k))
    BY <1>1, <1>3, <1>4, <1>5, <1>10, LookupFlushed DEF Found
<1>16. TableOnTop' /\ CacheAgrees'
    BY <1>2, <1>15 DEF CInv, TableOnTop, CacheAgrees, Over
<1>17. \A k \in Keys : Expected(k)' = Expected(k)
    BY <1>1, <1>2 DEF Expected, Logged, Promised
<1>18. ASSUME NEW k \in Keys
       PROVE  /\ Fits(k)'
              /\ Same(Over(Replay(wal)[k], Found(k)'), Expected(k), now')
  <2>1. Same(Over(Replay(wal)[k], Found(k)), Expected(k), now)
      BY <1>1 DEF CInv, DurableAgrees
  <2>2. CASE memtable[k] = Replay(wal)[k]
    <3>1. Over(Replay(wal)[k], Found(k)') = Over(Replay(wal)[k], Found(k))
        BY <1>15, <2>2 DEF Over
    <3>2. Same(Over(Replay(wal)[k], Found(k)), Expected(k), now')
        BY <1>4, <2>1, SameLater
    <3> QED
        BY <1>2, <2>2, <3>1, <3>2 DEF Fits
  <2>3. CASE memtable[k] = TOMBSTONE /\ Dead(Over(Replay(wal)[k], Found(k)), now)
    <3>1. Dead(Over(Replay(wal)[k], Found(k)'), now)
        BY <1>15, <2>3, Markers, SameIs DEF Over
    <3>2. Dead(Expected(k), now)
        BY <2>1, <2>3, SameDead
    <3>3. Dead(Over(Replay(wal)[k], Found(k)'), now') /\ Dead(Expected(k), now')
        BY <1>4, <3>1, <3>2, DeadLater
    <3> QED
        BY <1>2, <2>3, <3>3, SameIs DEF Fits
  <2> QED
      BY <1>14, <2>2, <2>3 DEF Fits
<1>19. MemTableAgrees' /\ DurableAgrees'
    BY <1>1, <1>2, <1>17, <1>18 DEF MemTableAgrees, DurableAgrees
<1> QED
    BY <1>9, <1>12, <1>13, <1>16, <1>19 DEF CInv

\* The log and the MemTable are emptied of what the new table holds.
LEMMA CheckpointKeeps ==
    ASSUME CInv, ThreadsOK', Checkpoint
    PROVE  CInv'
<1>1. step = "checkpoint" /\ up /\ Present = sstables
    BY ServerInside DEF Checkpoint
<1>2. UNCHANGED <<now, cache, files, sstables, up, merging, out>>
    BY DEF Checkpoint
<1>3. memtable' = EmptyTable /\ wal' = << >> /\ deaf' = FALSE
    BY DEF Checkpoint
<1>4. /\ \A k \in Keys : Expected(k)' = Expected(k)
      /\ store' \in [Keys -> Promises] /\ cmd' = NONE /\ step' = "idle"
    BY <1>1, FinishKeeps DEF Checkpoint
<1>5. CrashTypeOK'
    BY <1>1, <1>2, <1>3, <1>4, ContentTypes DEF CInv, CrashTypeOK
<1>6. Present' = Present
    BY <1>2 DEF Present
<1>7. NamesOK' /\ MergedCovers'
    BY <1>2, <1>6 DEF CInv, NamesOK, MergedCovers, Covers, older, newer
<1>8. CommandOK' /\ TableOnTop'
    BY <1>4 DEF CommandOK, TableOnTop
<1>9. MemTableAgrees'
    BY <1>3, <1>4, ReplayEmpty DEF MemTableAgrees, Fits
<1>10. ASSUME NEW k \in Keys
       PROVE  /\ Found(k)' = Found(k)
              /\ Over(memtable[k], Found(k)) = Found(k)
              /\ memtable'[k] = NONE /\ Replay(wal)'[k] = NONE
  <2>1. Found(k)' = Found(k)
      BY <1>2, <1>6 DEF Found
  <2>2. memtable[k] # NONE => Found(k) = memtable[k]
      BY <1>1 DEF CInv, TableOnTop
  <2> QED
      BY <1>3, <2>1, <2>2, ReplayEmpty DEF Over, EmptyTable
<1>11. CacheAgrees'
    BY <1>2, <1>10 DEF CInv, CacheAgrees, Over
<1>12. DurableAgrees'
  <2> SUFFICES ASSUME NEW k \in Keys PROVE Same(Found(k), Expected(k), now)
      BY <1>1, <1>2, <1>4, <1>10 DEF DurableAgrees, Over
  <2>1. Same(Found(k), Over(Replay(wal)[k], Found(k)), now)
      BY <1>1, <1>10, FitsIs DEF CInv, MemTableAgrees
  <2>2. Same(Over(Replay(wal)[k], Found(k)), Expected(k), now)
      BY <1>1 DEF CInv, DurableAgrees
  <2> QED
      BY <2>1, <2>2, SameIs
<1> QED
    BY <1>5, <1>7, <1>8, <1>9, <1>11, <1>12 DEF CInv

\* The caches that a read of v may leave, before check_ttl.
Reads(k, v) == {cache} \cup IF v = NONE THEN {} ELSE CachePut(cache, k, v)

\* get() answers with what the MemTable and the files hold. It changes the cache;
\* of the MemTable only an entry that has expired, into a tombstone.
LEMMA GetIs ==
    ASSUME CInv, up, merging \notin {"older", "newer", "replace"},
           NEW k \in Keys, Get(k), NEW v, v = Over(memtable[k], Found(k))
    PROVE  /\ reply' = IF Dead(v, now) THEN NONE ELSE Strip(v)
           /\ \E c \in Reads(k, v) :
                \/ memtable' = memtable /\ cache' = c
                \/ /\ Expired(v, now) /\ memtable' = [memtable EXCEPT ![k] = TOMBSTONE]
                   /\ cache' = CacheRemove(c, k)
<1> DEFINE Done(c) == \/ memtable' = memtable /\ cache' = c
                      \/ /\ Expired(v, now) /\ memtable' = [memtable EXCEPT ![k] = TOMBSTONE]
                         /\ cache' = CacheRemove(c, k)
           Answered == reply' = IF Dead(v, now) THEN NONE ELSE Strip(v)
<1>1. Present = sstables
    BY DEF Present
<1>2. ASSUME v \in {NONE, TOMBSTONE}, NotFound PROVE Answered /\ Done(cache)
    BY <1>2 DEF NotFound, Dead
<1>3. ASSUME NEW c, v \notin {NONE, TOMBSTONE}, CheckTTL(k, v, c) PROVE Answered /\ Done(c)
    BY <1>3 DEF CheckTTL, Dead
<1>4. cache \in Reads(k, v)
    BY DEF Reads
<1> HIDE DEF Done, Answered
<1>5. CASE GetFromCache(k)
  <2>1. cache[k] # NONE /\ cache[k] = v
      BY <1>5 DEF GetFromCache, CInv, CacheAgrees
  <2> QED
      BY <1>2, <1>3, <1>4, <1>5, <2>1 DEF GetFromCache, Done, Answered
<1>6. ASSUME GetBelowCache(k, v) PROVE \E c \in Reads(k, v) : Answered /\ Done(c)
  <2>1. CASE v \in {NONE, TOMBSTONE}
      BY <1>2, <1>4, <1>6, <2>1 DEF GetBelowCache
  <2>2. CASE v \notin {NONE, TOMBSTONE}
    <3>1. PICK c \in CachePut(cache, k, v) : CheckTTL(k, v, c)
        BY <1>6, <2>2 DEF GetBelowCache
    <3> QED
        BY <1>3, <2>2, <3>1 DEF Reads
  <2> QED
      BY <2>1, <2>2
<1>7. CASE GetFromMemTable(k) \/ GetFromSSTables(k)
  <2>1. GetBelowCache(k, v)
      BY <1>1, <1>7 DEF GetFromMemTable, GetFromSSTables, Over, Found
  <2> QED
      BY <1>6, <2>1 DEF Done, Answered
<1> QED
    BY <1>5, <1>7 DEF Get

LEMMA ReadKeeps ==
    ASSUME CInv, ThreadsOK', NEW k \in Keys, Read(k)
    PROVE  CInv'
<1> DEFINE v == Over(memtable[k], Found(k))
<1>1. /\ up /\ step = "idle" /\ merging \notin {"older", "newer", "replace", "write"}
      /\ UNCHANGED <<now, wal, files, sstables, store, up, deaf, step, cmd, merging, out>>
    BY DEF Read, Get, processVars, threadVars, CInv, ThreadsOK
<1>2. PICK c \in Reads(k, v) :
           \/ memtable' = memtable /\ cache' = c
           \/ /\ Expired(v, now) /\ memtable' = [memtable EXCEPT ![k] = TOMBSTONE]
              /\ cache' = CacheRemove(c, k)
    BY <1>1, GetIs DEF Read
<1>3. v \in Content /\ cache \in ContentTable /\ memtable \in ContentTable
    BY <1>1, FoundIs DEF Over, CInv, CrashTypeOK
<1>4. c \in ContentTable /\ \A j \in Keys : c[j] \in {cache[j], NONE} \/ (j = k /\ c[j] = v)
  <2> HIDE DEF v
  <2> QED
      BY <1>3, CachePutContent DEF Reads
<1>5. /\ cache' \in ContentTable /\ memtable' \in ContentTable
      /\ \A j \in Keys : j # k => memtable'[j] = memtable[j] /\ cache'[j] \in {cache[j], NONE}
      /\ \/ memtable'[k] = memtable[k] /\ cache'[k] \in {cache[k], v, NONE}
         \/ memtable'[k] = TOMBSTONE /\ cache'[k] = NONE /\ Expired(v, now)
  <2> HIDE DEF v
  <2>1. NONE \in Content /\ TOMBSTONE \in Content
      BY DEF Content, Stored
  <2> QED
      BY <1>2, <1>3, <1>4, <2>1 DEF CacheRemove, ContentTable
<1>6. CrashTypeOK'
    BY <1>1, <1>5 DEF CInv, CrashTypeOK
<1>7. Present' = Present
    BY <1>1 DEF Present
<1>8. NamesOK' /\ MergedCovers' /\ CommandOK' /\ TableOnTop'
    BY <1>1, <1>7 DEF CInv, NamesOK, MergedCovers, CommandOK, TableOnTop
<1>9. \A j \in Keys : Found(j)' = Found(j) /\ Expected(j)' = Expected(j)
    BY <1>1, <1>7 DEF Found, Expected, Logged, Promised
<1>10. DurableAgrees'
    BY <1>1, <1>9 DEF CInv, DurableAgrees
<1>11. MemTableAgrees'
  <2>1. \A j \in Keys : Fits(j)
      BY <1>1 DEF CInv, MemTableAgrees
  <2>2. \A j \in Keys : memtable'[j] = memtable[j] => Fits(j)'
      BY <1>1, <1>9, <2>1 DEF Fits
  <2>3. Expired(v, now) => Dead(Over(Replay(wal)[k], Found(k)), now)
    <3>1. Same(v, Over(Replay(wal)[k], Found(k)), now)
        BY <2>1, FitsIs
    <3> HIDE DEF v
    <3> QED
        BY <3>1, SameDead DEF Dead
  <2>4. Fits(k)'
    <3> HIDE DEF v
    <3> QED
        BY <1>1, <1>5, <1>9, <2>2, <2>3 DEF Fits
  <2> QED
      BY <1>1, <1>5, <2>2, <2>4 DEF MemTableAgrees
<1>12. CacheAgrees'
  <2> SUFFICES ASSUME NEW j \in Keys, cache'[j] # NONE
               PROVE  cache'[j] = Over(memtable'[j], Found(j))
      BY <1>9 DEF CacheAgrees
  <2>1. memtable'[j] = memtable[j] /\ (cache'[j] = cache[j] \/ (j = k /\ cache'[j] = v))
    <3> HIDE DEF v
    <3> QED
        BY <1>5
  <2> QED
      BY <2>1 DEF CInv, CacheAgrees
<1> QED
    BY <1>6, <1>8, <1>10, <1>11, <1>12 DEF CInv

\* Time passes over what the invariant says of values.
LEMMA LaterAgrees ==
    ASSUME CInv, up, now' \in Nat, now' >= now,
           UNCHANGED <<wal, memtable, up, step, cmd>>,
           \A k \in Keys : Found(k)' = Found(k) /\ Expected(k)' = Expected(k)
    PROVE  DurableAgrees' /\ MemTableAgrees'
<1>1. now \in Nat
    BY DEF CInv, CrashTypeOK
<1>2. ASSUME NEW k \in Keys PROVE Same(Over(Replay(wal)[k], Found(k)), Expected(k), now')
  <2>1. Same(Over(Replay(wal)[k], Found(k)), Expected(k), now)
      BY DEF CInv, DurableAgrees
  <2> QED
      BY <1>1, <2>1, SameLater
<1>3. ASSUME NEW k \in Keys, Fits(k) PROVE Fits(k)'
  <2>1. Dead(Over(Replay(wal)[k], Found(k)), now) => Dead(Over(Replay(wal)[k], Found(k)), now')
      BY <1>1, DeadLater
  <2> QED
      BY <1>3, <2>1 DEF Fits
<1> QED
    BY <1>2, <1>3 DEF DurableAgrees, MemTableAgrees, CInv

LEMMA WaitKeeps ==
    ASSUME CInv, ThreadsOK', Wait
    PROVE  CInv'
<1>1. /\ up /\ merging \notin {"older", "newer", "replace", "write"} /\ now' = now + 1
      /\ UNCHANGED <<wal, memtable, cache, files, sstables, store, up, deaf, step, cmd, merging, out>>
    BY DEF Wait, Tick, processVars, threadVars, CInv, ThreadsOK
<1>2. now \in Nat /\ now' \in Nat /\ now' > now
    BY <1>1 DEF CInv, CrashTypeOK
<1>3. CrashTypeOK'
    BY <1>1, <1>2 DEF CInv, CrashTypeOK
<1>4. Present' = Present
    BY <1>1 DEF Present
<1>5. \A p \in DOMAIN files' : p < FlushName(now')
    BY <1>1, <1>2, FreshNames
<1>6. NamesOK'
    BY <1>1, <1>4, <1>5 DEF CInv, NamesOK
<1>7. MergedCovers' /\ CommandOK'
  <2>1. KVD!Begun \subseteq KVD!Begun'
      BY <1>2, BegunIs
  <2> QED
      BY <1>1, <2>1 DEF CInv, MergedCovers, CommandOK
<1>8. \A j \in Keys : Found(j)' = Found(j) /\ Expected(j)' = Expected(j)
    BY <1>1, <1>4 DEF Found, Expected, Logged, Promised
<1>9. CacheAgrees' /\ TableOnTop'
    BY <1>1, <1>8 DEF CInv, CacheAgrees, TableOnTop
<1>10. DurableAgrees' /\ MemTableAgrees'
    BY <1>1, <1>2, <1>8, LaterAgrees
<1> QED
    BY <1>3, <1>6, <1>7, <1>9, <1>10 DEF CInv

----------------------------------------------------------------------------
(* The compaction thread.                                                  *)

\* The names once the merged file is there.
LEMMA InsertedNames ==
    ASSUME NEW ss \in Seq(Nat), Len(ss) > 1, Distinct(ss), NEW p \in Nat, p \notin Names(ss)
    PROVE  Distinct(Inserted(ss, p)) /\ Names(Inserted(ss, p)) = Names(ss) \cup {p}
<1> DEFINE n == Len(ss)
           tt == Inserted(ss, p)
           from(i) == IF i < 3 THEN i ELSE i - 1
<1>1. n \in Nat /\ n > 1 /\ DOMAIN ss = 1..n
    OBVIOUS
<1>2. /\ tt \in Seq(Nat) /\ Len(tt) = n + 1
      /\ \A i \in 1..n + 1 : tt[i] = IF i < 3 THEN ss[i] ELSE IF i = 3 THEN p ELSE ss[i - 1]
  <2> HIDE DEF tt
  <2>1. tt \in Seq(Nat) /\ Len(tt) = n + 1
      BY InsertedIs DEF tt
  <2>2. \A i \in 1..n + 1 : tt[i] = IF i < 3 THEN ss[i] ELSE IF i = 3 THEN p ELSE ss[i - 1]
      BY InsertedIs DEF tt
  <2> QED
      BY <2>1, <2>2
<1> HIDE DEF n, tt
<1>3. DOMAIN tt = 1..n + 1 /\ 3 \in 1..n + 1 /\ tt[3] = p
    BY <1>1, <1>2
<1>4. ASSUME NEW i \in 1..n + 1, i # 3
      PROVE  from(i) \in 1..n /\ tt[i] = ss[from(i)]
    BY <1>1, <1>2, <1>4
<1>5. \A i \in 1..n : p # ss[i]
    BY <1>1 DEF Names
<1>6. ASSUME NEW i \in 1..n + 1, NEW j \in 1..n + 1, tt[i] = tt[j] PROVE i = j
  <2>1. CASE i = 3 \/ j = 3
      BY <1>3, <1>4, <1>5, <1>6, <2>1
  <2>2. CASE i # 3 /\ j # 3
    <3>1. from(i) = from(j)
      <4>1. from(i) \in 1..n /\ from(j) \in 1..n /\ ss[from(i)] = ss[from(j)]
          BY <1>4, <1>6, <2>2
      <4> HIDE DEF from
      <4> QED
          BY <1>1, <4>1 DEF Distinct
    <3> QED
        BY <1>1, <2>2, <3>1
  <2> QED
      BY <2>1, <2>2
<1>7. ASSUME NEW j \in 1..n PROVE \E i \in 1..n + 1 : tt[i] = ss[j]
  <2>1. CASE j < 3
    <3>1. j \in 1..n + 1
        BY <1>1
    <3> QED
        BY <1>2, <2>1, <3>1
  <2>2. CASE ~(j < 3)
    <3>1. j + 1 \in 1..n + 1 /\ ~(j + 1 < 3) /\ j + 1 # 3 /\ (j + 1) - 1 = j
        BY <1>1, <2>2
    <3>2. tt[j + 1] = ss[(j + 1) - 1]
        BY <1>2, <3>1
    <3> QED
        BY <3>1, <3>2
  <2> QED
      BY <2>1, <2>2
<1> HIDE DEF from
<1>8. \A x \in Names(tt) : x \in Names(ss) \cup {p}
    BY <1>1, <1>3, <1>4 DEF Names
<1>9. \A x \in Names(ss) \cup {p} : x \in Names(tt)
  <2> SUFFICES ASSUME NEW x \in Names(ss) \cup {p} PROVE \E i \in DOMAIN tt : tt[i] = x
      BY DEF Names
  <2>1. CASE x = p
      BY <1>3, <2>1
  <2>2. ASSUME NEW j \in DOMAIN ss, x = ss[j] PROVE \E i \in DOMAIN tt : tt[i] = x
      BY <1>1, <1>3, <1>7, <2>2
  <2> QED
      BY <2>1, <2>2 DEF Names
<1> QED
    BY <1>3, <1>6, <1>8, <1>9 DEF Distinct, tt

\* A step of compact() that changes no search keeps what CInv says of values.
LEMMA SearchStays ==
    ASSUME CInv, ThreadsOK', CrashTypeOK', NamesOK', MergedCovers',
           merging \in {"write", "older", "newer", "replace"}, now' = now \/ now' > now,
           UNCHANGED <<wal, memtable, cache, store, up, step, cmd>>,
           \A k \in Keys : Found(k)' = Found(k)
    PROVE  CInv'
<1>1. up /\ step \in {"idle", "lock"} /\ now \in Nat /\ now' \in Nat /\ now' >= now
    BY DEF CInv, ThreadsOK, CrashTypeOK
<1>2. TableOnTop' /\ CacheAgrees'
    BY <1>1 DEF CInv, TableOnTop, CacheAgrees
<1>3. CommandOK'
  <2>1. KVD!Begun \subseteq KVD!Begun'
      BY <1>1, BegunIs
  <2> QED
      BY <1>1, <2>1 DEF CInv, CommandOK
<1>4. \A k \in Keys : Expected(k)' = Expected(k)
    BY DEF Expected, Logged, Promised
<1>5. DurableAgrees' /\ MemTableAgrees'
    BY <1>1, <1>4, LaterAgrees
<1> QED
    BY <1>2, <1>3, <1>5 DEF CInv

LEMMA WriteMergedKeeps ==
    ASSUME CInv, ThreadsOK', FaultFree, WriteMerged
    PROVE  CInv'
<1> DEFINE m == Merge(TableOf(files, older), TableOf(files, newer))
<1>1. /\ merging = "write" /\ merging' = "older" /\ files' = WithFile(files, out, m) /\ now' = now + 1
      /\ UNCHANGED <<wal, memtable, cache, sstables, store, up, deaf, step, cmd, out>>
    BY DEF WriteMerged, Flushed, FaultFree, processVars
<1>2. /\ up /\ Present = sstables /\ Len(sstables) > 1 /\ out = CompactedName(now)
      /\ sstables \in Seq(Nat) /\ Distinct(sstables) /\ Names(sstables) = DOMAIN files
    BY <1>1 DEF CInv, ThreadsOK, NamesOK, Present, CrashTypeOK
<1>3. out \in Nat /\ out \notin DOMAIN files /\ now \in Nat /\ now' \in Nat /\ now' > now
  <2>1. now \in Nat /\ now' \in Nat /\ now' > now
      BY <1>1 DEF CInv, CrashTypeOK
  <2> QED
      BY <1>2, <2>1, FreshNames
<1>4. \A q \in DOMAIN files \cup {out} : q < FlushName(now')
    BY <1>2, <1>3, FreshNames
<1>5. \A p \in DOMAIN files : files[p] \in ContentTable
    BY DEF CInv, CrashTypeOK
<1>6. /\ TableOf(files, older) \in ContentTable /\ TableOf(files, newer) \in ContentTable
      /\ m \in ContentTable
      /\ \A k \in Keys : TableOf(files, older)[k] # NONE \/ TableOf(files, newer)[k] # NONE
                            => m[k] # NONE
    BY <1>5, TableOfContent, MergeContent
<1> HIDE DEF m
<1>7. DOMAIN files' = DOMAIN files \cup {out} /\ \A q \in DOMAIN files' : files'[q] \in ContentTable
    BY <1>1, <1>5, <1>6 DEF WithFile
<1>8. CrashTypeOK'
  <2>1. IsFiniteSet(DOMAIN files') /\ DOMAIN files' \subseteq Nat
      BY <1>3, <1>7, FS_AddElement DEF CInv, CrashTypeOK
  <2> QED
      BY <1>1, <1>3, <1>7, <2>1 DEF CInv, CrashTypeOK
<1>9. Present' = Inserted(sstables, out)
    BY <1>1 DEF Present
<1>10. Distinct(Inserted(sstables, out)) /\ Names(Inserted(sstables, out)) = DOMAIN files'
    BY <1>2, <1>3, <1>7, InsertedNames
<1>11. NamesOK'
    BY <1>1, <1>2, <1>4, <1>7, <1>9, <1>10 DEF NamesOK
<1>12. \A i \in DOMAIN sstables : sstables[i] \in DOMAIN files /\ sstables[i] # out
    BY <1>2, <1>3 DEF Names
<1>13. MergedCovers'
  <2>1. 1 \in DOMAIN sstables /\ 2 \in DOMAIN sstables
      BY <1>2
  <2>2. older # out /\ newer # out
      BY <1>12, <2>1 DEF older, newer
  <2>3. /\ TableOf(files', out) = m
        /\ TableOf(files', older) = TableOf(files, older)
        /\ TableOf(files', newer) = TableOf(files, newer)
      BY <1>1, <2>2 DEF TableOf, WithFile
  <2>4. older' = older /\ newer' = newer
      BY <1>1 DEF older, newer
  <2> QED
      BY <1>1, <1>6, <2>3, <2>4 DEF MergedCovers, Covers
<1>14. ASSUME NEW k \in Keys PROVE Found(k)' = Found(k)
  <2>1. /\ TableOf(files', out) = Merge(TableOf(files, sstables[1]), TableOf(files, sstables[2]))
        /\ \A i \in DOMAIN sstables : TableOf(files', sstables[i]) = TableOf(files, sstables[i])
      BY <1>1, <1>12 DEF m, older, newer, TableOf, WithFile
  <2>2. Lookup(files', Inserted(sstables, out), k) = Lookup(files, sstables, k)
      BY <1>2, <1>3, <2>1, LookupInserted
  <2> QED
      BY <1>2, <1>9, <2>2 DEF Found
<1> QED
    BY <1>1, <1>3, <1>8, <1>11, <1>13, <1>14, SearchStays

\* Removing the one that is searched last, its keys all in a later one.
LEMMA RemoveKeeps ==
    ASSUME CInv, ThreadsOK',
           merging \in {"older", "newer"}, merging' = IF merging = "older" THEN "newer" ELSE "replace",
           NEW h \in DOMAIN Present, h > 1, Present[h] = out,
           Covers(out, Present[1]),
           RemoveFile(Present[1]),
           UNCHANGED <<now, wal, memtable, cache, sstables, store, up, deaf, step, cmd, out>>
    PROVE  CInv'
<1> DEFINE ss == Present
           gone == ss[1]
<1>1. up /\ ss \in Seq(Nat) /\ Distinct(ss) /\ Names(ss) = DOMAIN files /\ Len(ss) > 0
  <2>1. up
      BY DEF CInv, ThreadsOK
  <2>2. ss \in Seq(Nat) /\ Distinct(ss) /\ Names(ss) = DOMAIN files
      BY <2>1, PresentIs DEF CInv, NamesOK
  <2> HIDE DEF ss
  <2>3. Len(ss) > 0
      BY <2>2 DEF ss
  <2> QED
      BY <2>1, <2>2, <2>3
<1>2. files' = [q \in DOMAIN files \ {gone} |-> files[q]]
    BY DEF RemoveFile
<1>3. Present' = Tail(ss)
    BY DEF Present
<1>4. CrashTypeOK'
  <2>1. IsFiniteSet(DOMAIN files') /\ DOMAIN files' \subseteq Nat
      BY <1>2, FS_RemoveElement DEF CInv, CrashTypeOK
  <2>2. \A q \in DOMAIN files' : files'[q] \in ContentTable
      BY <1>2 DEF CInv, CrashTypeOK
  <2> QED
      BY <2>1, <2>2 DEF CInv, CrashTypeOK
<1> HIDE DEF ss, gone
<1>5. Names(Tail(ss)) = DOMAIN files'
    BY <1>1, <1>2, TailIncreasing DEF gone
<1>6. NamesOK'
    BY <1>2, <1>3, <1>5 DEF CInv, NamesOK
<1>7. ASSUME NEW k \in Keys PROVE Found(k)' = Found(k)
  <2>1. TableOf(files, ss[1])[k] # NONE => TableOf(files, ss[h])[k] # NONE
      BY DEF Covers, ss
  <2>2. Lookup(files', Tail(ss), k) = Lookup(files, ss, k)
      BY <1>1, <1>2, <2>1, LookupHeadRemoved DEF ss, gone
  <2> QED
      BY <1>3, <2>2 DEF Found, ss
<1>8. MergedCovers'
  <2>1. CASE merging = "newer"
      BY <2>1 DEF MergedCovers
  <2>2. CASE merging = "older"
    <3>1. Distinct(Inserted(sstables, out)) /\ sstables \in Seq(Nat) /\ Len(sstables) > 1 /\ out \in Nat
        BY <2>2 DEF CInv, NamesOK, CrashTypeOK
    <3>2. ss = Inserted(sstables, out)
        BY <2>2 DEF ss, Present
    <3>3. /\ Len(ss) = Len(sstables) + 1
          /\ \A i \in 1..Len(sstables) + 1 :
                ss[i] = IF i < 3 THEN sstables[i] ELSE IF i = 3 THEN out ELSE sstables[i - 1]
      <4>1. /\ Len(Inserted(sstables, out)) = Len(sstables) + 1
            /\ \A i \in 1..Len(sstables) + 1 :
                Inserted(sstables, out)[i]
                  = IF i < 3 THEN sstables[i] ELSE IF i = 3 THEN out ELSE sstables[i - 1]
          BY <3>1, InsertedIs
      <4> QED
          BY <3>2, <4>1
    <3>4. DOMAIN ss = 1..Len(sstables) + 1 /\ Len(sstables) \in Nat
        BY <1>1, <3>1, <3>3
    <3>5. 1 \in DOMAIN ss /\ 2 \in DOMAIN ss /\ 3 \in DOMAIN ss
        BY <3>1, <3>4
    <3>6. ss[1] = older /\ ss[2] = newer /\ ss[3] = out
        BY <3>3, <3>4, <3>5 DEF older, newer
    <3>7. newer # gone /\ out # gone
        BY <1>1, <3>5, <3>6 DEF Distinct, gone
    <3>8. TableOf(files', newer) = TableOf(files, newer) /\ TableOf(files', out) = TableOf(files, out)
        BY <1>2, <3>7 DEF TableOf
    <3>9. newer' = newer /\ Covers(out, newer)
        BY <2>2 DEF newer, CInv, MergedCovers
    <3> QED
        BY <2>2, <3>8, <3>9 DEF MergedCovers, Covers
  <2> QED
      BY <2>1, <2>2
<1> QED
    BY <1>4, <1>6, <1>7, <1>8, SearchStays

LEMMA RemoveSteps ==
    ASSUME CInv, ThreadsOK', RemoveOlder \/ RemoveNewer
    PROVE  CInv'
<1> DEFINE tt == Inserted(sstables, out)
<1>1. sstables \in Seq(Nat) /\ Len(sstables) > 1 /\ out \in Nat /\ Len(sstables) \in Nat
    BY DEF RemoveOlder, RemoveNewer, CInv, NamesOK, CrashTypeOK
<1>2. /\ Tail(tt) \in Seq(Nat) /\ Len(Tail(tt)) = Len(sstables)
      /\ Tail(tt)[1] = newer /\ Tail(tt)[2] = out
    BY <1>1, TwiceTail DEF newer
<1>3. /\ tt \in Seq(Nat) /\ Len(tt) = Len(sstables) + 1 /\ tt[1] = older /\ tt[3] = out
  <2>1. \A i \in 1..Len(sstables) + 1 :
           tt[i] = IF i < 3 THEN sstables[i] ELSE IF i = 3 THEN out ELSE sstables[i - 1]
      BY <1>1, InsertedIs
  <2>2. tt \in Seq(Nat) /\ Len(tt) = Len(sstables) + 1
      BY <1>1, InsertedIs
  <2>3. 1 \in 1..Len(sstables) + 1 /\ 3 \in 1..Len(sstables) + 1
      BY <1>1
  <2> HIDE DEF tt
  <2> QED
      BY <2>1, <2>2, <2>3 DEF older
<1> HIDE DEF tt
<1>4. CASE RemoveOlder
  <2>1. /\ merging = "older" /\ merging' = "newer"
        /\ UNCHANGED <<now, wal, memtable, cache, sstables, store, up, deaf, step, cmd, out>>
      BY <1>4 DEF RemoveOlder, processVars
  <2>2. Present = tt
      BY <2>1 DEF Present, tt
  <2>3. 3 \in DOMAIN tt
      BY <1>1, <1>3
  <2>4. Covers(out, older) /\ RemoveFile(older)
      BY <1>4, <2>1 DEF CInv, MergedCovers, RemoveOlder
  <2> QED
      BY <1>3, <2>1, <2>2, <2>3, <2>4, RemoveKeeps
<1>5. CASE RemoveNewer
  <2>1. /\ merging = "newer" /\ merging' = "replace"
        /\ UNCHANGED <<now, wal, memtable, cache, sstables, store, up, deaf, step, cmd, out>>
      BY <1>5 DEF RemoveNewer, processVars
  <2>2. Present = Tail(tt)
      BY <2>1 DEF Present, tt
  <2>3. 2 \in DOMAIN Tail(tt)
      BY <1>1, <1>2
  <2>4. Covers(out, newer) /\ RemoveFile(newer)
      BY <1>5, <2>1 DEF CInv, MergedCovers, RemoveNewer
  <2>5. merging' = IF merging = "older" THEN "newer" ELSE "replace"
      BY <2>1
  <2>6. 2 \in DOMAIN Present /\ Present[2] = out /\ Present[1] = newer
      BY <1>2, <2>2, <2>3
  <2>7. Covers(out, Present[1]) /\ RemoveFile(Present[1])
      BY <2>4, <2>6
  <2> QED
      BY <2>1, <2>5, <2>6, <2>7, RemoveKeeps
<1> QED
    BY <1>4, <1>5

\* The vector becomes what is left of the files.
LEMMA ReplaceKeeps ==
    ASSUME CInv, ThreadsOK', ReplaceTwo
    PROVE  CInv'
<1>1. /\ merging = "replace" /\ merging' = "idle"
      /\ UNCHANGED <<now, wal, memtable, cache, files, store, up, deaf, step, cmd>> /\ out' = 0
      /\ sstables' = [i \in 1..Len(sstables) - 1 |-> IF i = 1 THEN out ELSE sstables[i + 1]]
    BY DEF ReplaceTwo, processVars
<1>2. sstables \in Seq(Nat) /\ Len(sstables) > 1 /\ out \in Nat /\ up
    BY <1>1 DEF CInv, NamesOK, CrashTypeOK, ThreadsOK
<1>3. sstables' = Tail(Tail(Inserted(sstables, out))) /\ sstables' \in Seq(Nat)
    BY <1>1, <1>2, TwiceTail
<1>4. Present = sstables' /\ Present' = sstables'
    BY <1>1, <1>3 DEF Present
<1>5. Distinct(sstables')
    BY <1>2, <1>4, PresentIs
<1>6. CrashTypeOK'
    BY <1>1, <1>3 DEF CInv, CrashTypeOK
<1>7. NamesOK'
    BY <1>1, <1>4, <1>5 DEF CInv, NamesOK
<1>8. MergedCovers'
    BY <1>1 DEF MergedCovers
<1>9. \A k \in Keys : Found(k)' = Found(k)
    BY <1>1, <1>4 DEF Found
<1> QED
    BY <1>1, <1>6, <1>7, <1>8, <1>9, SearchStays

----------------------------------------------------------------------------
(* The end of the process, and the next one.                               *)

\* The files in the order of their age: all that are there, and no search changes.
LEMMA ByAgeIs ==
    ASSUME CInv, up
    PROVE  /\ ByAge \in Seq(Nat) /\ DOMAIN files \subseteq Names(ByAge)
           /\ \A k \in Keys : Lookup(files, ByAge, k) = Found(k)
           /\ merging = "write" => /\ ByAge = Inserted(sstables, out) /\ out \in Names(ByAge)
                                   /\ out \notin DOMAIN files
<1>1. /\ sstables \in Seq(Nat) /\ Distinct(sstables) /\ out \in Nat
      /\ DOMAIN files = Names(Present)
    BY DEF CInv, CrashTypeOK, NamesOK
<1>2. CASE merging \notin {"write", "older", "newer", "replace"}
    BY <1>1, <1>2 DEF ByAge, Present, Found
<1>3. CASE merging \in {"write", "older", "newer", "replace"}
  <2> DEFINE tt == Inserted(sstables, out)
             n  == Len(sstables)
  <2>1. ByAge = tt /\ n > 1 /\ n \in Nat
      BY <1>1, <1>3 DEF ByAge, Inserted, CInv, NamesOK
  <2>2. tt \in Seq(Nat) /\ Len(tt) = n + 1
      BY <1>1, <2>1, InsertedIs
  <2>3. CASE merging = "write"
    <3>1. Present = sstables /\ out \notin Names(sstables)
        BY <1>1, <2>3, FreshNames DEF Present, CInv, NamesOK
    <3>2. Names(tt) = Names(sstables) \cup {out}
        BY <1>1, <2>1, <3>1, InsertedNames
    <3>3. ASSUME NEW k \in Keys PROVE Lookup(files, tt, k) = Lookup(files, sstables, k)
      <4>1. TableOf(files, out)[k] = NONE
          BY <1>1, <3>1 DEF TableOf, EmptyTable
      <4> QED
          BY <1>1, <2>1, <4>1, LookupInserted
    <3> HIDE DEF tt
    <3> QED
        BY <1>1, <2>1, <2>2, <2>3, <3>1, <3>2, <3>3 DEF Found, tt
  <2>4. CASE merging = "older"
      BY <1>1, <2>1, <2>2, <2>4 DEF Present, Found
  <2>5. CASE merging \in {"newer", "replace"}
    <3>1. Distinct(tt)
        BY <2>5 DEF CInv, NamesOK
    <3> HIDE DEF tt
    <3>2. Len(tt) > 0 /\ Len(tt) - 1 > 0
        BY <2>1, <2>2
    <3>3. /\ Tail(tt) \in Seq(Nat) /\ Len(Tail(tt)) > 0 /\ Distinct(Tail(tt))
          /\ Names(Tail(tt)) = Names(tt) \ {tt[1]}
        BY <2>2, <3>1, <3>2, TailOf, TailIncreasing
    <3>4. Names(Tail(Tail(tt))) = Names(Tail(tt)) \ {Tail(tt)[1]}
        BY <3>3, TailIncreasing
    <3>5. Present = IF merging = "newer" THEN Tail(tt) ELSE Tail(Tail(tt))
        BY <2>5 DEF Present, tt
    <3>6. DOMAIN files \subseteq Names(tt) \ {tt[1]}
        BY <1>1, <3>3, <3>4, <3>5
    <3>7. ASSUME NEW k \in Keys PROVE Lookup(files, tt, k) = Found(k)
      <4>1. TableOf(files, tt[1])[k] = NONE
          BY <3>6 DEF TableOf, EmptyTable
      <4>2. Lookup(files, Tail(tt), k) = Lookup(files, tt, k)
          BY <2>2, <3>2, <4>1, LookupTail
      <4>3. CASE merging = "newer"
          BY <3>5, <4>2, <4>3 DEF Found
      <4>4. CASE merging = "replace"
        <5>1. Present = Tail(Tail(tt)) /\ Tail(tt)[1] \notin DOMAIN files
            BY <1>1, <3>4, <3>5, <4>4
        <5>2. TableOf(files, Tail(tt)[1])[k] = NONE
            BY <5>1 DEF TableOf, EmptyTable
        <5>3. Lookup(files, Tail(Tail(tt)), k) = Lookup(files, Tail(tt), k)
            BY <3>3, <5>2, LookupTail
        <5> QED
            BY <4>2, <5>1, <5>3 DEF Found
      <4> QED
          BY <2>5, <4>3, <4>4
    <3> QED
        BY <2>1, <2>2, <2>5, <3>6, <3>7
  <2> QED
      BY <1>3, <2>3, <2>4, <2>5
<1> QED
    BY <1>2, <1>3

\* A file that the crash left half written has no garbled value where the log has none.
LEMMA CutsOnlyLogged ==
    ASSUME CInv, NEW k \in Keys, NEW p, p \notin DOMAIN files, NEW t, files' = WithFile(files, p, t),
           ~CutsUnlogged, t[k] = GARBLED
    PROVE  Replay(wal)[k] # NONE
<1>1. p \in DOMAIN files' \ DOMAIN files /\ files'[p] = t
    BY DEF WithFile
<1> QED
    BY <1>1 DEF CutsUnlogged

\* What a restart would read of the files that a crash leaves, when no key is in
\* two tables that change places.
LEMMA RecoveredAfterCrash ==
    ASSUME CInv, CrashTypeOK', up, KeysApart(files', ByAge), NEW k \in Keys, wal' = wal,
           \/ files' = files
           \/ ~CutsUnlogged /\ files' \in Leftover
    PROVE  Same(Recovered(k)', Over(Replay(wal)[k], Found(k)), now)
<1>1. Readable(wal) = wal /\ Readable(wal)' = wal
  <2>1. wal \in Seq(Command)
      BY DEF CInv, CrashTypeOK
  <2> QED
      BY <2>1, ReadableWhole
<1>2. DOMAIN files' \subseteq Nat /\ IsFiniteSet(DOMAIN files')
    BY DEF CrashTypeOK
<1>3. Recovered(k)' = Over(Replay(wal)[k], Lookup(files', NameOrder(DOMAIN files'), k))
    BY <1>1 DEF Recovered, LoadOrder
<1>6. /\ ByAge \in Seq(Nat) /\ DOMAIN files \subseteq Names(ByAge)
      /\ Lookup(files, ByAge, k) = Found(k)
    BY ByAgeIs
<1>7. CASE Replay(wal)[k] # NONE
    BY <1>3, <1>7, SameIs DEF Over
<1>4. CASE files' = files
  <2>1. Lookup(files', NameOrder(DOMAIN files'), k) = Lookup(files', ByAge, k)
      BY <1>2, <1>4, <1>6, SameLookup
  <2> QED
      BY <1>3, <1>4, <1>6, <2>1, SameIs
<1>8. CASE /\ merging = "write" /\ Replay(wal)[k] = NONE /\ ~CutsUnlogged
           /\ files' \in {WithFile(files, out, t) :
                             t \in TornTables(Merge(TableOf(files, older), TableOf(files, newer)))}
  <2> DEFINE m == Merge(TableOf(files, sstables[1]), TableOf(files, sstables[2]))
  <2>1. PICK torn \in TornTables(m) : files' = WithFile(files, out, torn)
      BY <1>8 DEF older, newer
  <2>2. /\ ByAge = Inserted(sstables, out) /\ out \in Names(ByAge) /\ out \notin DOMAIN files
        /\ sstables \in Seq(Nat) /\ Len(sstables) > 1 /\ out \in Nat /\ Present = sstables
      BY <1>8, ByAgeIs DEF CInv, CrashTypeOK, NamesOK, Present
  <2>3. torn[k] \in {m[k], NONE}
    <3>1. m \in ContentTable
        BY TableOfContent, MergeContent DEF CInv, CrashTypeOK
    <3> HIDE DEF m
    <3>2. torn[k] \in {m[k], NONE, GARBLED}
        BY <3>1, TornIsPart
    <3>3. torn[k] # GARBLED
        BY <1>8, <2>1, <2>2, CutsOnlyLogged
    <3> QED
        BY <3>2, <3>3
  <2>4. DOMAIN files' = DOMAIN files \cup {out} /\ TableOf(files', out) = torn
      BY <2>1 DEF WithFile, TableOf
  <2>5. \A i \in DOMAIN sstables : TableOf(files', sstables[i]) = TableOf(files, sstables[i])
    <3>1. \A i \in DOMAIN sstables : sstables[i] \in DOMAIN files
        BY <2>2, PresentIs
    <3> QED
        BY <2>1, <2>2, <3>1 DEF TableOf, WithFile
  <2>6. Lookup(files', Inserted(sstables, out), k) = Lookup(files, sstables, k)
      BY <2>2, <2>3, <2>4, <2>5, LookupInserted
  <2>7. Lookup(files', NameOrder(DOMAIN files'), k) = Lookup(files', ByAge, k)
    <3>1. DOMAIN files' \subseteq Names(ByAge)
        BY <1>6, <2>2, <2>4
    <3> QED
        BY <1>2, <1>6, <3>1, SameLookup
  <2>8. Recovered(k)' = Over(Replay(wal)[k], Found(k))
      BY <1>3, <2>2, <2>6, <2>7 DEF Found
  <2> QED
      BY <2>8, SameIs
<1>5. CASE /\ step = "write" /\ Replay(wal)[k] = NONE /\ ~CutsUnlogged
           /\ files' \in {WithFile(files, FlushName(now), t) : t \in TornTables(memtable)}
  <2> DEFINE p  == FlushName(now)
             ss == Append(sstables, p)
  <2>1. PICK torn \in TornTables(memtable) : files' = WithFile(files, p, torn)
      BY <1>5
  <2>2. /\ Present = sstables /\ ByAge = sstables /\ Fits(k) /\ memtable \in ContentTable
        /\ p \in Nat /\ p \notin DOMAIN files
    <3>1. merging \notin {"write", "older", "newer", "replace"}
        BY <1>5 DEF CInv, ThreadsOK
    <3> QED
        BY <1>5, <3>1, FreshNames DEF CInv, MemTableAgrees, CrashTypeOK, Present, ByAge
  <2>3. torn[k] \in {memtable[k], NONE}
    <3>1. memtable \in ContentTable
        BY <2>2
    <3>2. torn[k] \in {memtable[k], NONE, GARBLED}
        BY <3>1, TornIsPart
    <3>3. torn[k] # GARBLED
        BY <1>5, <2>1, <2>2, CutsOnlyLogged
    <3> QED
        BY <3>2, <3>3
  <2>4. sstables \in Seq(Nat) /\ \A i \in DOMAIN sstables : sstables[i] \in DOMAIN files
      BY <2>2, PresentIs
  <2>5. \A i \in DOMAIN sstables : sstables[i] < p
      BY <2>4 DEF CInv, NamesOK
  <2> HIDE DEF p
  <2>6. /\ ss \in Seq(Nat) /\ DOMAIN sstables = 1..Len(sstables) /\ Len(sstables) \in Nat
        /\ DOMAIN ss = 1..Len(sstables) + 1 /\ ss[Len(sstables) + 1] = p
        /\ \A i \in DOMAIN sstables : ss[i] = sstables[i]
      BY <2>2, <2>4
  <2>7. KeysApart(files', ss)
    <3> SUFFICES ASSUME NEW i \in DOMAIN ss, NEW j \in DOMAIN ss, i < j, ss[j] < ss[i], NEW l \in Keys
                 PROVE  NONE \in {TableOf(files', ss[i])[l], TableOf(files', ss[j])[l]}
        BY DEF KeysApart
    <3>1. i \in DOMAIN sstables
        BY <2>6
    <3>2. j \in DOMAIN sstables
      <4>1. j # Len(sstables) + 1
        <5>1. ss[i] < p /\ ss[i] \in Nat /\ p \in Nat
            BY <2>2, <2>4, <2>5, <2>6, <3>1
        <5> QED
            BY <2>6, <5>1
      <4> QED
          BY <2>6, <4>1
    <3> HIDE DEF ss
    <3> QED
        BY <2>2, <2>6, <3>1, <3>2 DEF KeysApart
  <2>8. DOMAIN files' \subseteq Names(ss)
    <3>1. DOMAIN files' = DOMAIN files \cup {p}
        BY <2>1 DEF WithFile
    <3>2. \A i \in DOMAIN sstables : i \in DOMAIN ss
        BY <2>6
    <3>3. Len(sstables) + 1 \in DOMAIN ss
        BY <2>6
    <3> HIDE DEF ss
    <3> QED
        BY <1>6, <2>2, <2>6, <3>1, <3>2, <3>3 DEF Names
  <2>9. Lookup(files', NameOrder(DOMAIN files'), k) = Lookup(files', ss, k)
      BY <1>2, <2>6, <2>7, <2>8, SameLookup
  <2>10. Lookup(files', ss, k) = Over(torn[k], Lookup(files, sstables, k))
      BY <2>1, <2>2, <2>4, LookupFlushed
  <2>11. Recovered(k)' = Over(Replay(wal)[k], Over(torn[k], Found(k)))
      BY <1>3, <2>2, <2>9, <2>10 DEF Found
  <2>12. CASE memtable[k] = NONE
      BY <2>3, <2>11, <2>12, SameIs DEF Over
  <2>13. CASE memtable[k] = TOMBSTONE /\ Dead(Over(Replay(wal)[k], Found(k)), now)
      BY <1>5, <2>3, <2>11, <2>13, SameIs DEF Over
  <2> QED
      BY <1>5, <2>2, <2>12, <2>13 DEF Fits
<1> QED
    BY <1>4, <1>5, <1>7, <1>8 DEF Leftover

LEMMA DeathKeeps ==
    ASSUME CInv, ThreadsOK', FaultFree, Exit \/ (Crash /\ ~CutsUnlogged), KeysApart(files', ByAge)
    PROVE  CInv'
<1>1. /\ up /\ ~up' /\ deaf' = FALSE /\ step' = "idle" /\ merging' = "idle" /\ out' = 0
      /\ memtable' = EmptyTable /\ cache' = EmptyTable /\ sstables' = << >>
      /\ UNCHANGED <<wal, store, cmd>>
  <2>1. wal' = wal
      BY DEF Exit, Crash, FaultFree
  <2> QED
      BY <2>1 DEF Exit, Crash, MemoryIsLost
<1>2. files' = files \/ (~CutsUnlogged /\ files' \in Leftover)
    BY DEF Exit, Crash
<1>3. now \in Nat /\ now' \in Nat /\ ((now' = now /\ files' = files) \/ now' > now)
    BY DEF Exit, Crash, CInv, CrashTypeOK
<1>4. /\ \A p \in DOMAIN files' : files'[p] \in ContentTable
      /\ DOMAIN files' \subseteq DOMAIN files \cup {FlushName(now), CompactedName(now)}
      /\ IsFiniteSet(DOMAIN files')
  <2>1. CASE files' = files
      BY <2>1 DEF CInv, CrashTypeOK
  <2>2. ASSUME NEW q, NEW u \in ContentTable, NEW t \in TornTables(u), files' = WithFile(files, q, t)
        PROVE  /\ \A p \in DOMAIN files' : files'[p] \in ContentTable
               /\ DOMAIN files' = DOMAIN files \cup {q} /\ IsFiniteSet(DOMAIN files')
    <3>1. t \in ContentTable
        BY TornIsPart
    <3>2. IsFiniteSet(DOMAIN files \cup {q})
        BY FS_AddElement DEF CInv, CrashTypeOK
    <3> QED
        BY <2>2, <3>1, <3>2 DEF WithFile, CInv, CrashTypeOK
  <2>3. CASE files' \in {WithFile(files, FlushName(now), t) : t \in TornTables(memtable)}
      BY <2>2, <2>3 DEF CInv, CrashTypeOK
  <2>4. CASE /\ merging = "write"
             /\ files' \in {WithFile(files, out, t) :
                               t \in TornTables(Merge(TableOf(files, older), TableOf(files, newer)))}
    <3>1. out = CompactedName(now)
        BY <2>4 DEF CInv, NamesOK
    <3>2. Merge(TableOf(files, older), TableOf(files, newer)) \in ContentTable
        BY TableOfContent, MergeContent DEF CInv, CrashTypeOK
    <3> QED
        BY <2>2, <2>4, <3>1, <3>2
  <2> QED
      BY <1>2, <2>1, <2>3, <2>4 DEF Leftover
<1>5. CrashTypeOK'
  <2>1. DOMAIN files' \subseteq Nat
      BY <1>4, FreshNames DEF CInv, CrashTypeOK
  <2>2. << >> \in Seq(Nat)
      OBVIOUS
  <2> QED
      BY <1>1, <1>3, <1>4, <2>1, <2>2, ContentTypes DEF CInv, CrashTypeOK
<1>6. NamesOK'
  <2>1. \A p \in DOMAIN files' : p < FlushName(now')
    <3>1. CASE now' = now /\ files' = files
        BY <3>1 DEF CInv, NamesOK
    <3>2. CASE now' > now
        BY <1>3, <1>4, <3>2, FreshNames
    <3> QED
        BY <1>3, <3>1, <3>2
  <2>2. Distinct(<< >>)
      BY DEF Distinct
  <2> QED
      BY <1>1, <2>1, <2>2 DEF NamesOK
<1>7. MergedCovers' /\ CommandOK' /\ MemTableAgrees' /\ TableOnTop'
  <2>1. KVD!Begun \subseteq KVD!Begun'
      BY <1>3, BegunIs
  <2> QED
      BY <1>1, <2>1 DEF CInv, MergedCovers, CommandOK, MemTableAgrees, TableOnTop
<1>8. CacheAgrees'
    BY <1>1 DEF CacheAgrees, EmptyTable
<1>9. DurableAgrees'
  <2> SUFFICES ASSUME NEW k \in Keys
               PROVE  \/ Same(Recovered(k)', store[k], now')
                      \/ cmd # NONE /\ cmd.key = k /\ Same(Recovered(k)', Promised, now')
      BY <1>1 DEF DurableAgrees, CrashKeepsAcknowledged, Promised
  <2>1. Same(Recovered(k)', Over(Replay(wal)[k], Found(k)), now)
      BY <1>1, <1>2, <1>5, RecoveredAfterCrash
  <2>2. Same(Over(Replay(wal)[k], Found(k)), Expected(k), now)
      BY <1>1 DEF CInv, DurableAgrees
  <2>3. Same(Recovered(k)', Expected(k), now)
      BY <2>1, <2>2, SameIs
  <2>4. Same(Recovered(k)', Expected(k), now')
      BY <1>3, <2>3, SameLater
  <2> QED
      BY <2>4 DEF Expected, Logged
<1> QED
    BY <1>5, <1>6, <1>7, <1>8, <1>9 DEF CInv

\* The constructor makes of the files what they hold.
LEMMA RecoverKeeps ==
    ASSUME CInv, ThreadsOK', Recover
    PROVE  CInv'
<1>1. /\ ~up /\ up' /\ cmd' = NONE /\ store' = Outcome
      /\ UNCHANGED <<now, wal, cache, files, deaf, merging, out>>
      /\ step' \in {"idle", "write"} /\ merging = "idle"
    BY DEF Recover, CInv, ThreadsOK
<1>2. Readable(wal) = wal /\ wal \in Seq(Command) /\ cache = EmptyTable
    BY <1>1, ReadableWhole DEF CInv, CrashTypeOK
<1>3. memtable' = Replay(wal) /\ memtable' \in ContentTable
    BY <1>2, ReplayContent DEF Recover
<1>4. /\ sstables' = LoadOrder(DOMAIN files) /\ sstables' \in Seq(Nat)
      /\ Distinct(sstables') /\ Names(sstables') = DOMAIN files
    BY NameOrderNames DEF Recover, LoadOrder, CInv, CrashTypeOK
<1>5. Present' = sstables'
    BY <1>1 DEF Present
<1>6. ASSUME NEW k \in Keys PROVE Over(Replay(wal)'[k], Found(k)') = Recovered(k)
  <2>1. Recovered(k) = Over(Replay(wal)[k], Lookup(files, sstables', k))
      BY <1>2, <1>4 DEF Recovered
  <2>2. Found(k)' = Lookup(files, sstables', k)
      BY <1>1, <1>5 DEF Found
  <2> QED
      BY <1>1, <2>1, <2>2
<1>7. /\ store' \in [Keys -> Promises]
      /\ \A k \in Keys : Same(Recovered(k), store'[k], now)
  <2>1. /\ store \in [Keys -> Promises] /\ cmd \in Command \cup {NONE}
        /\ \A k \in Keys : \/ Same(Recovered(k), store[k], now)
                           \/ cmd # NONE /\ cmd.key = k /\ Same(Recovered(k), Promised, now)
      BY <1>1 DEF CInv, CrashTypeOK, DurableAgrees, CrashKeepsAcknowledged
  <2>2. CASE cmd = NONE
      BY <1>1, <2>1, <2>2 DEF Outcome
  <2>3. CASE cmd # NONE
    <3>1. cmd.key \in Keys /\ Promised \in Promises
        BY <2>1, <2>3, EffectIs DEF Promised
    <3>2. store' = [store EXCEPT ![cmd.key] =
                       IF Same(Recovered(cmd.key), Promised, now) THEN Promised ELSE store[cmd.key]]
        BY <1>1, <2>3 DEF Outcome
    <3> QED
        BY <2>1, <3>1, <3>2
  <2> QED
      BY <2>2, <2>3
<1>8. CrashTypeOK'
    BY <1>1, <1>3, <1>4, <1>7 DEF CInv, CrashTypeOK
<1>9. NamesOK'
    BY <1>1, <1>4, <1>5 DEF CInv, NamesOK
<1>10. MergedCovers' /\ CommandOK' /\ TableOnTop' /\ MemTableAgrees'
    BY <1>1, <1>3 DEF MergedCovers, CommandOK, TableOnTop, MemTableAgrees, Fits
<1>11. CacheAgrees'
    BY <1>1, <1>2 DEF CacheAgrees, EmptyTable
<1>12. DurableAgrees'
  <2>1. \A k \in Keys : Expected(k)' = store'[k]
      BY <1>1 DEF Expected, Logged
  <2> QED
      BY <1>1, <1>6, <1>7, <2>1 DEF DurableAgrees
<1> QED
    BY <1>8, <1>9, <1>10, <1>11, <1>12 DEF CInv

----------------------------------------------------------------------------
(* The theorems.                                                           *)

LEMMA CrashInitKeeps == ASSUME CrashInit PROVE CInv
<1> USE DEF CrashInit, Init
<1>1. ThreadsOK
    BY DEF ThreadsOK
<1>2. files = << >> /\ DOMAIN files = {}
    OBVIOUS
<1>3. CrashTypeOK
  <2>1. IsFiniteSet({})
      BY FS_EmptySet
  <2>2. EmptyTable \in [Keys -> Promises]
      BY DEF EmptyTable, Promises
  <2> QED
      BY <1>2, <2>1, <2>2, ContentTypes DEF CrashTypeOK
<1>4. Present = sstables
    BY DEF Present
<1>5. NamesOK
    BY <1>2, <1>4 DEF NamesOK, Distinct, Names
<1>6. MergedCovers /\ CommandOK /\ TableOnTop
    BY DEF MergedCovers, CommandOK, TableOnTop
<1>7. MemTableAgrees
    BY ReplayEmpty DEF MemTableAgrees, Fits
<1>8. CacheAgrees
    BY DEF CacheAgrees, EmptyTable
<1>9. DurableAgrees
  <2> SUFFICES ASSUME NEW k \in Keys
               PROVE  Same(Over(Replay(wal)[k], Found(k)), Expected(k), now)
      BY DEF DurableAgrees
  <2>1. Absent(files, sstables, k)
      BY <1>2 DEF Absent
  <2>2. Found(k) = NONE
      BY <1>4, <2>1, LookupMisses DEF Found
  <2>3. Replay(wal)[k] = NONE /\ store[k] = NONE
      BY ReplayEmpty DEF EmptyTable
  <2> QED
      BY <2>2, <2>3, SameIs DEF Over, Expected, Logged
<1> QED
    BY <1>1, <1>3, <1>5, <1>6, <1>7, <1>8, <1>9 DEF CInv

LEMMA CrashStepKeeps ==
    ASSUME FaultFree, CInv, [OrderedCrashNext]_crashVars
    PROVE  CInv'
<1>1. ThreadsOK'
  <2>1. [CrashNext]_crashVars
      BY DEF OrderedCrashNext, CrashNext
  <2> QED
      BY <2>1, ThreadsStep DEF CInv
<1>2. CASE UNCHANGED crashVars
  <2>1. CASE up
    <3>1. /\ UNCHANGED <<vars, up, deaf>> /\ step' = step /\ cmd' = cmd
          /\ merging' = merging /\ out' = out
        BY <1>2 DEF crashVars, processVars, threadVars
    <3> QED
        BY <1>1, <2>1, <3>1, ControlKeeps
  <2>2. CASE ~up
    <3> USE <1>2 DEF crashVars, vars, processVars, threadVars
    <3>1. CrashTypeOK' /\ CommandOK' /\ MemTableAgrees' /\ MergedCovers'
      <4>1. KVD!Begun' = KVD!Begun
          BY DEF KVD!Begun
      <4> QED
          BY <2>2, <4>1
          DEF CInv, CrashTypeOK, CommandOK, MemTableAgrees, MergedCovers, Covers, older, newer
    <3>2. Present' = Present
        BY DEF Present
    <3>3. \A k \in Keys : Found(k)' = Found(k) /\ Recovered(k)' = Recovered(k) /\ Expected(k)' = Expected(k)
        BY <3>2 DEF Found, Recovered, Readable, FirstCut, Expected, Logged, Promised
    <3>4. NamesOK' /\ TableOnTop' /\ CacheAgrees'
        BY <3>2, <3>3 DEF CInv, NamesOK, TableOnTop, CacheAgrees
    <3>5. DurableAgrees'
        BY <2>2, <3>3 DEF CInv, DurableAgrees, CrashKeepsAcknowledged, Promised
    <3> QED
        BY <1>1, <3>1, <3>4, <3>5 DEF CInv
  <2> QED
      BY <2>1, <2>2
<1>3. CASE Work
  <2>1. ASSUME NEW c \in Commands, Receive(c) PROVE CInv'
      BY <1>1, <2>1, ControlSteps
  <2>2. ASSUME NEW k \in Keys, Read(k) PROVE CInv'
      BY <1>1, <2>2, ReadKeeps
  <2>3. CASE ServerStep
      BY <1>1, <2>3, ControlSteps, LogKeeps, ApplyKeeps, WriteKeepsAll, CheckpointKeeps
      DEF ServerStep
  <2>4. CASE CompactorStep
      BY <1>1, <2>4, ControlSteps, WriteMergedKeeps, RemoveSteps, ReplaceKeeps
      DEF CompactorStep
  <2>5. CASE StartCompact \/ Shutdown
      BY <1>1, <2>5, ControlSteps
  <2>6. CASE Recover
      BY <1>1, <2>6, RecoverKeeps
  <2>7. CASE Wait
      BY <1>1, <2>7, WaitKeeps
  <2> QED
      BY <1>3, <2>1, <2>2, <2>3, <2>4, <2>5, <2>6, <2>7 DEF Work
<1>4. CASE (Exit \/ (Crash /\ ~CutsUnlogged)) /\ KeysApart(files', ByAge)
    BY <1>1, <1>4, DeathKeeps
<1> QED
    BY <1>2, <1>3, <1>4 DEF OrderedCrashNext

LEMMA CInvHolds == FaultFree => (OrderedCrashSpec => []CInv)
<1> SUFFICES ASSUME FaultFree PROVE OrderedCrashSpec => []CInv
    OBVIOUS
<1>1. CrashInit => CInv
    BY CrashInitKeeps
<1>2. CInv /\ [OrderedCrashNext]_crashVars => CInv'
    BY CrashStepKeeps
<1> QED
    BY <1>1, <1>2, PTL DEF OrderedCrashSpec

\* A process dies, in either thread's writing of a table too, while names may be out
\* of order: its files hold every acknowledged command, and of the one under way all
\* or nothing.  Two deaths are left out, both shown to lose data: one that leaves a
\* key in two tables whose names are the other way round, and one that cuts, in a
\* table's file, a value that the log does not hold.
THEOREM AcknowledgedSurvives == FaultFree => (OrderedCrashSpec => []CrashKeepsAcknowledged)
<1> SUFFICES ASSUME FaultFree PROVE OrderedCrashSpec => []CrashKeepsAcknowledged
    OBVIOUS
<1>1. CInv => CrashKeepsAcknowledged
    BY DEF CInv, DurableAgrees, CrashKeepsAcknowledged
<1> QED
    BY <1>1, CInvHolds, PTL

\* While the process runs, each step of both threads, of a merge at any number of
\* tables too, leaves every acknowledged command in log and files, read in the order
\* of their age: nothing is truncated or removed before another file has it.
THEOREM DiskHolds == FaultFree => (OrderedCrashSpec => []DiskKeepsAcknowledged)
<1> SUFFICES ASSUME FaultFree PROVE OrderedCrashSpec => []DiskKeepsAcknowledged
    OBVIOUS
<1>1. CInv => DiskKeepsAcknowledged
  <2> SUFFICES ASSUME CInv, up, NEW k \in Keys
               PROVE  LET held == Over(Replay(Readable(wal))[k], Lookup(files, ByAge, k))
                      IN  \/ Same(held, store[k], now)
                          \/ cmd # NONE /\ cmd.key = k /\ Same(held, Promised, now)
      BY DEF DiskKeepsAcknowledged
  <2>1. Readable(wal) = wal
      BY ReadableWhole DEF CInv, CrashTypeOK
  <2>2. Lookup(files, ByAge, k) = Found(k)
      BY ByAgeIs
  <2>3. Same(Over(Replay(wal)[k], Found(k)), Expected(k), now)
      BY DEF CInv, DurableAgrees
  <2> QED
      BY <2>1, <2>2, <2>3 DEF Expected, Logged
<1> QED
    BY <1>1, CInvHolds, PTL

\* While the mutex is free, memory and files hold what the store promises.
LEMMA IdleHolds ==
    ASSUME CInv, up, holder = "none", NEW k \in Keys
    PROVE  View(k) = Over(memtable[k], Found(k)) /\ Same(View(k), store[k], now)
<1>1. step \in {"idle", "lock"} /\ merging \in {"idle", "called", "ended"}
    BY DEF CInv, ThreadsOK
<1>2. Found(k) = Lookup(files, sstables, k)
    BY <1>1 DEF Found, Present
<1>3. View(k) = Over(memtable[k], Found(k))
    BY <1>2 DEF View, Below, Over, CInv, CacheAgrees
<1>4. Same(View(k), Over(Replay(wal)[k], Found(k)), now)
    BY <1>1, <1>3, FitsIs DEF CInv, MemTableAgrees
<1>5. Same(Over(Replay(wal)[k], Found(k)), store[k], now)
    BY <1>1 DEF CInv, DurableAgrees, Expected, Logged
<1> QED
    BY <1>3, <1>4, <1>5, SameIs

\* Between operations each read meets what the last acknowledged command left,
\* whatever merges came before, and whatever deaths and shutdowns, in the middle of a
\* merge or after it too, but for the two that AcknowledgedSurvives leaves out.
THEOREM IdleReads == FaultFree => (OrderedCrashSpec => []IdleReadsNewest)
<1> SUFFICES ASSUME FaultFree PROVE OrderedCrashSpec => []IdleReadsNewest
    OBVIOUS
<1>1. CInv => IdleReadsNewest
    BY IdleHolds DEF IdleReadsNewest
<1> QED
    BY <1>1, CInvHolds, PTL

----------------------------------------------------------------------------
(* The dictionary that clients find.                                       *)

\* The answer of a command that finishes is KVStore's.
LEMMA FinishRefines ==
    ASSUME CInv, Finish, now' = now
    PROVE  [KVD!KVDurableNext]_(KVD!kvVars)
<1>1. now \in Nat /\ cmd \in Command \cup {NONE}
    BY DEF CInv, CrashTypeOK
<1>2. CASE cmd = NONE
    BY <1>2 DEF Finish, KVD!kvVars
<1>3. CASE cmd # NONE
  <2>1. /\ store' = [store EXCEPT ![cmd.key] = Promised] /\ reply' = KVD!OK
        /\ cmd \in Command /\ KVD!Elapse
      BY <1>1, <1>3 DEF Finish, KVD!Elapse, OK, KVD!OK
  <2>2. cmd.key \in Keys
      BY <2>1, EffectIs
  <2>3. CASE cmd.op = "SET"
    <3>1. Promised \in UserValues \cup KVD!Begun
      <4>1. cmd.val \in UserValues \cup KVD!Begun \cup {NONE}
          BY <1>3 DEF CInv, CommandOK
      <4>2. cmd.val # NONE
          BY <2>1, <2>3, Markers DEF Command
      <4> QED
          BY <2>3, <4>1, <4>2 DEF Promised
    <3>2. KVD!KVSet(cmd.key) \/ KVD!KVBegunTTL(cmd.key)
        BY <2>1, <3>1 DEF KVD!KVSet, KVD!KVBegunTTL
    <3> QED
        BY <2>2, <3>2 DEF KVD!KVDurableNext, KVD!KVNext
  <2>4. CASE cmd.op # "SET"
    <3>1. KVD!KVDel(cmd.key)
        BY <2>1, <2>4 DEF KVD!KVDel, Promised
    <3> QED
        BY <2>2, <3>1 DEF KVD!KVDurableNext, KVD!KVNext
  <2> QED
      BY <2>3, <2>4
<1> QED
    BY <1>2, <1>3

\* A client sees the same of two values that are as good as equal.
LEMMA SameSeen ==
    ASSUME NEW x, NEW s \in Promises, Same(x, s, now), TOMBSTONE \notin UserValues
    PROVE  KVD!Visible(s, now) = IF Dead(x, now) THEN NONE ELSE Strip(x)
<1>1. s # TOMBSTONE
    BY MarkerAssumption DEF Promises, Ephemeral
<1>2. KVD!Expired(s, now) <=> Expired(s, now)
    BY DEF Expired, KVD!Expired, Ephemeral, KVD!Ephemeral
<1>3. CASE Dead(x, now)
  <2>1. s = NONE \/ Expired(s, now)
      BY <1>1, <1>3, SameDead DEF Dead
  <2> QED
      BY <1>2, <1>3, <2>1 DEF KVD!Visible
<1>4. CASE ~Dead(x, now)
    BY <1>2, <1>4 DEF Same, Dead, KVD!Visible, Strip, Ephemeral, KVD!Ephemeral
<1> QED
    BY <1>3, <1>4

LEMMA ReadRefines ==
    ASSUME CInv, TOMBSTONE \notin UserValues, NEW k \in Keys, Read(k)
    PROVE  KVD!KVGet(k)
<1>1. up /\ holder = "none" /\ merging \notin {"older", "newer", "replace"}
    BY DEF Read, CInv, ThreadsOK
<1>2. View(k) = Over(memtable[k], Found(k)) /\ Same(View(k), store[k], now)
    BY <1>1, IdleHolds
<1>3. /\ reply' = IF Dead(View(k), now) THEN NONE ELSE Strip(View(k))
      /\ UNCHANGED <<store, now>>
    BY <1>1, <1>2, GetIs DEF Read, Get
<1>4. store[k] \in Promises
    BY DEF CInv, CrashTypeOK
<1> QED
    BY <1>2, <1>3, <1>4, SameSeen DEF KVD!KVGet

\* The command a crash interrupted is there as a whole or not at all.
LEMMA RecoverRefines ==
    ASSUME CInv, Recover
    PROVE  [KVD!KVDurableNext]_(KVD!kvVars)
<1>1. now' = now /\ reply' = reply /\ store' = Outcome /\ now \in Nat
    BY DEF Recover, CInv, CrashTypeOK
<1>2. CASE store' = store
    BY <1>1, <1>2 DEF KVD!kvVars
<1>3. CASE store' # store
  <2>1. cmd # NONE
      BY <1>1, <1>3 DEF Outcome
  <2>2. cmd.key \in Keys /\ store \in [Keys -> Promises]
      BY <2>1, EffectIs DEF CInv, CrashTypeOK
  <2>3. store' = [store EXCEPT ![cmd.key] = Promised]
      BY <1>1, <1>3, <2>1, <2>2 DEF Outcome
  <2>4. Promised \in UserValues \cup KVD!Begun \cup {NONE}
      BY <2>1 DEF CInv, CommandOK, Promised
  <2>5. KVD!KVInterrupted(cmd.key)
    <3>1. \E v \in UserValues \cup KVD!Begun \cup {NONE} : store' = [store EXCEPT ![cmd.key] = v]
        BY <2>3, <2>4
    <3>2. KVD!Elapse
        BY <1>1 DEF KVD!Elapse
    <3> QED
        BY <1>1, <3>1, <3>2 DEF KVD!KVInterrupted
  <2> QED
      BY <2>2, <2>5 DEF KVD!KVDurableNext
<1> QED
    BY <1>2, <1>3

LEMMA CrashStepRefines ==
    ASSUME TOMBSTONE \notin UserValues, CInv, CInv', [OrderedCrashNext]_crashVars
    PROVE  [KVD!KVDurableNext]_(KVD!kvVars)
<1>1. now \in Nat /\ now' \in Nat
    BY DEF CInv, CrashTypeOK
<1>2. ASSUME now' = now \/ now' = now + 1, UNCHANGED <<store, reply>>
      PROVE  [KVD!KVDurableNext]_(KVD!kvVars)
    BY <1>1, <1>2 DEF KVD!KVDurableNext, KVD!KVNext, KVD!KVPass, KVD!Elapse
<1>3. CASE UNCHANGED crashVars
    BY <1>2, <1>3 DEF crashVars, vars
<1>4. ASSUME NEW c \in Commands, Receive(c) PROVE [KVD!KVDurableNext]_(KVD!kvVars)
    BY <1>2, <1>4 DEF Receive, vars
<1>5. ASSUME NEW k \in Keys, Read(k) PROVE [KVD!KVDurableNext]_(KVD!kvVars)
    BY <1>5, ReadRefines DEF KVD!KVDurableNext, KVD!KVNext
<1>6. CASE Lock \/ Log \/ WriteTable
    BY <1>2, <1>6 DEF Lock, Log, WriteTable, vars
<1>7. CASE Apply
  <2>1. now' = now /\ (Finish \/ UNCHANGED <<store, reply>>)
      BY <1>7 DEF Apply
  <2> QED
      BY <1>2, <2>1, FinishRefines
<1>8. CASE Checkpoint
    BY <1>8, FinishRefines DEF Checkpoint
<1>9. CASE StartCompact \/ CompactorStep \/ Shutdown \/ Wait
    BY <1>2, <1>9 DEF StartCompact, CompactorStep, ReturnAtOnce, LeaveLoop, WriteMerged,
                      RemoveOlder, RemoveNewer, ReplaceTwo, Shutdown, Wait, Tick, vars
<1>10. CASE Recover
    BY <1>10, RecoverRefines
<1>11. CASE Exit \/ Crash
    BY <1>2, <1>11 DEF Exit, Crash, MemoryIsLost
<1> QED
    BY <1>3, <1>4, <1>5, <1>6, <1>7, <1>8, <1>9, <1>10, <1>11
    DEF OrderedCrashNext, Work, ServerStep

\* Clients find one dictionary, whatever the two threads do, and whatever deaths and
\* shutdowns there are but for the two that AcknowledgedSurvives leaves out: a command
\* without an answer was carried out as a whole or not at all.
THEOREM DurableRefinement ==
    FaultFree /\ TOMBSTONE \notin UserValues => (OrderedCrashSpec => ImplementsKVDurable)
<1> SUFFICES ASSUME FaultFree, TOMBSTONE \notin UserValues
             PROVE  OrderedCrashSpec => ImplementsKVDurable
    OBVIOUS
<1>1. CrashInit => KVD!KVInit
    BY DEF CrashInit, Init, KVD!KVInit, EmptyTable, OK, KVD!OK
<1>2. CInv /\ CInv' /\ [OrderedCrashNext]_crashVars => [KVD!KVDurableNext]_(KVD!kvVars)
    BY CrashStepRefines
<1> QED
    BY <1>1, <1>2, CInvHolds, PTL DEF OrderedCrashSpec, ImplementsKVDurable, KVD!KVDurableSpec
=============================================================================
