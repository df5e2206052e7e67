----------------------------- MODULE LSMEngine -----------------------------
(***************************************************************************)
(* src/src/engine/lsm_engine.cpp with the MemTable, the write-ahead log,   *)
(* the SSTables and the LRU cache it owns.  Every public operation holds   *)
(* engine_mutex_ from its first line to its last, and so does compact(),   *)
(* which the background thread calls: each of them is one action here.     *)
(* LSMCrash splits them into the steps a crash can separate.               *)
(***************************************************************************)
EXTENDS Naturals, Sequences, FiniteSets

CONSTANTS Keys,               \* keys a client may use
          UserValues,         \* values a client may store without TTL
          Lifetimes,          \* the TTL command's lifetimes, in milliseconds
          TOMBSTONE,          \* MemTable::TOMBSTONE, the marker of a deleted key
          NONE,               \* absent
          CacheSize,          \* VAULT_CACHE_SIZE
          CompactionTrigger,  \* compact() returns at once up to this many tables (4)
          FlushTakesMs,       \* least duration of a flush, in ms; 0: it may share its ms
          MaxNow, MaxWal, MaxTables, \* bounds of the model, none of them in the code
          IsFull(_)           \* MemTable::is_full() on the table's content

ASSUME CacheSizeAssumption == CacheSize \in Nat \ {0}
ASSUME LifetimesAssumption == Lifetimes \subseteq Nat
ASSUME CompactionAssumption == CompactionTrigger \in Nat \ {0}
ASSUME FlushTimeAssumption == FlushTakesMs \in Nat
ASSUME MarkerAssumption ==
    /\ NONE \notin UserValues \cup [data : UserValues, expiry : Nat] \cup {TOMBSTONE}
    /\ TOMBSTONE \notin [data : UserValues, expiry : Nat]
ASSUME DataAssumption ==
    UserValues \cap [data : UserValues, expiry : Nat] = {}

VARIABLES now,       \* system_clock, in milliseconds
          wal,       \* records of wal.log, oldest first
          memtable,  \* memtable_.data_
          cache,     \* cache_: what it holds for each key
          files,     \* the directory sstables/: file name -> content
          sstables,  \* sstables_: file names, in the order of the vector
          reply,     \* the last answer to a client
          store      \* history: what the acknowledged commands promise (KVStore)

vars == <<now, wal, memtable, cache, files, sstables, reply, store>>

----------------------------------------------------------------------------
(* Values.  The TTL command stores "EXPIRY:<expiry ms>:<data>".            *)

Ephemeral == [data : UserValues, expiry : Nat]
Stored    == UserValues \cup Ephemeral \cup {TOMBSTONE}
Table     == [Keys -> Stored \cup {NONE}]
OK        == [status |-> "OK"]

ExpiredLate(v, t) == v \in Ephemeral /\ t > v.expiry
Expired(v, t) == v \in Ephemeral /\ t >= v.expiry
Strip(v)      == IF v \in Ephemeral THEN v.data ELSE v

\* No client can see a value from v at time t, and none can later.
Dead(v, t)    == v \in {NONE, TOMBSTONE} \/ Expired(v, t)
Same(v, w, t) == v = w \/ (Dead(v, t) /\ Dead(w, t))

EmptyTable == [k \in Keys |-> NONE]

----------------------------------------------------------------------------
(* File names.  sstable_<ms>.sst sorts just before                         *)
(* sstable_<ms>_compacted.sst ('.' < '_') and both before those of a later *)
(* millisecond: a name is the number of its place in that order.           *)

FlushName(ms)     == 2 * ms
CompactedName(ms) == 2 * ms + 1

\* std::sort of the directory's paths.
NameOrder(S) == [i \in 1..Cardinality(S) |->
                    CHOOSE p \in S : Cardinality({q \in S : q < p}) = i - 1]

\* SSTable::get and read_all find nothing in a file that is gone.
TableOf(fs, p) == IF p \in DOMAIN fs THEN fs[p] ELSE EmptyTable

Holders(fs, ss, k) == {i \in DOMAIN ss : TableOf(fs, ss[i])[k] # NONE}
Latest(S) == CHOOSE i \in S : \A j \in S : j <= i

\* The value a search of the tables ss of directory fs, last to first, meets.
Lookup(fs, ss, k) ==
    LET holders == Holders(fs, ss, k)
    IN  IF holders = {} THEN NONE ELSE TableOf(fs, ss[Latest(holders)])[k]

Over(top, below) == IF top # NONE THEN top ELSE below

\* SSTable::compact: the newer table wins; tombstones are kept.
MergeOlderWins(older, newer) == [k \in Keys |-> Over(older[k], newer[k])]
Merge(older, newer) == [k \in Keys |-> Over(newer[k], older[k])]

\* The names left after the two merged tables were removed.
KeptHalf(fs, older, newer) == DOMAIN fs \ {newer}
Kept(fs, older, newer) == DOMAIN fs \ {older, newer}

WithFile(fs, p, t) == [q \in DOMAIN fs \cup {p} |-> IF q = p THEN t ELSE fs[q]]

----------------------------------------------------------------------------
(* The write-ahead log.                                                    *)

Record(op, k, v) == [op |-> op, key |-> k, val |-> v]
LogRecord == [op : {"SET", "DELETE"}, key : Keys, val : Stored \cup {NONE}]
EffectIgnoringOp(r) == r.val
Effect(r) == IF r.op = "SET" THEN r.val ELSE TOMBSTONE

\* recover(): the MemTable after the records of w were applied in order.
Replay(w) ==
    [k \in Keys |->
        LET on == {i \in DOMAIN w : w[i].key = k}
        IN  IF on = {} THEN NONE ELSE Effect(w[Latest(on)])]

----------------------------------------------------------------------------
(* The cache: put() drops one entry when a new key meets a full cache.     *)
(* Which one, the least recently used, is LRUCache's concern: here any.    *)

RemoveNothing(c, k) == c
CacheRemove(c, k) == [c EXCEPT ![k] = NONE]

Cached(c) == {k \in Keys : c[k] # NONE}
PutUnbounded(c, k, v) == {[c EXCEPT ![k] = v]}
CachePut(c, k, v) ==
    IF c[k] # NONE \/ Cardinality(Cached(c)) < CacheSize
    THEN {[c EXCEPT ![k] = v]}
    ELSE {[c EXCEPT ![k] = v, ![lru] = NONE] : lru \in Cached(c)}

----------------------------------------------------------------------------
(* is_full() and flush_memtable(), with m the MemTable, w the log and ss   *)
(* the tables at that moment.                                              *)

Settle(m, w, ss) ==
    IF IsFull(m) /\ m # EmptyTable
    THEN /\ Len(ss) < MaxTables /\ now + FlushTakesMs <= MaxNow
         /\ files' = WithFile(files, FlushName(now), m)
         /\ sstables' = Append(ss, FlushName(now))
         /\ memtable' = EmptyTable
         /\ wal' = << >>
         /\ now' = now + FlushTakesMs
    ELSE /\ memtable' = m /\ wal' = w /\ sstables' = ss
         /\ UNCHANGED <<files, now>>

----------------------------------------------------------------------------
(* The client's operations.                                                *)

\* LSMEngine::set, up to the answer OK.
Put(k, v) ==
    /\ Len(wal) < MaxWal
    /\ Settle([memtable EXCEPT ![k] = v], Append(wal, Record("SET", k, v)), sstables)
    /\ cache' \in CachePut(cache, k, v)
    /\ reply' = OK

Set(k) == \E v \in UserValues :
    /\ Put(k, v)
    /\ store' = [store EXCEPT ![k] = v]

SetTTL(k) == \E d \in UserValues, life \in Lifetimes :
    LET v == [data |-> d, expiry |-> now + life]
    IN  /\ Put(k, v)
        /\ store' = [store EXCEPT ![k] = v]

Del(k) ==
    /\ Len(wal) < MaxWal
    /\ Settle([memtable EXCEPT ![k] = TOMBSTONE],
              Append(wal, Record("DELETE", k, NONE)), sstables)
    /\ cache' = CacheRemove(cache, k)
    /\ reply' = OK
    /\ store' = [store EXCEPT ![k] = NONE]

\* check_ttl(k, v) with the cache at c: an expired key gets a tombstone that
\* is neither logged nor followed by is_full().
CheckTTL(k, v, c) ==
    IF Expired(v, now)
    THEN /\ memtable' = [memtable EXCEPT ![k] = TOMBSTONE]
         /\ cache' = CacheRemove(c, k)
         /\ reply' = NONE
    ELSE /\ cache' = c
         /\ reply' = Strip(v)
         /\ UNCHANGED memtable

NotFound == reply' = NONE /\ UNCHANGED <<memtable, cache>>

GetFromCache(k) ==
    /\ cache[k] # NONE
    /\ IF cache[k] = TOMBSTONE THEN NotFound ELSE CheckTTL(k, cache[k], cache)

\* What the MemTable or an SSTable returned: v.
GetBelowCache(k, v) ==
    /\ cache[k] = NONE
    /\ IF v \in {NONE, TOMBSTONE} THEN NotFound
       ELSE \E c \in CachePut(cache, k, v) : CheckTTL(k, v, c)

GetFromMemTable(k) == memtable[k] # NONE /\ GetBelowCache(k, memtable[k])

GetFromSSTables(k) == memtable[k] = NONE /\ GetBelowCache(k, Lookup(files, sstables, k))

Get(k) == /\ GetFromCache(k) \/ GetFromMemTable(k) \/ GetFromSSTables(k)
          /\ UNCHANGED <<now, wal, files, sstables, store>>

----------------------------------------------------------------------------
(* What happens to the engine on its own.                                  *)

\* compact(): the two oldest tables become one, first in the vector.  The
\* thread's next round comes at least 100 ms later.
Compact ==
    /\ Len(sstables) > CompactionTrigger
    /\ now < MaxNow
    /\ LET older == sstables[1]
           newer == sstables[2]
           out   == CompactedName(now)
       IN  /\ files' = [p \in Kept(files, older, newer) \cup {out} |->
                           IF p = out THEN Merge(TableOf(files, older), TableOf(files, newer))
                           ELSE files[p]]
           /\ sstables' = [i \in 1..Len(sstables) - 1 |->
                              IF i = 1 THEN out ELSE sstables[i + 1]]
    /\ now' = now + 1
    /\ UNCHANGED <<wal, memtable, cache, reply, store>>

Tick == /\ now < MaxNow
        /\ now' = now + 1
        /\ UNCHANGED <<wal, memtable, cache, files, sstables, reply, store>>

\* The process ends between two operations and starts again on its directory:
\* load_existing_sstables() and recover() of the constructor.
Restart ==
    /\ Settle(Replay(wal), wal, NameOrder(DOMAIN files))
    /\ cache' = EmptyTable
    /\ UNCHANGED <<reply, store>>

Init == /\ now = 0
        /\ wal = << >>
        /\ memtable = EmptyTable
        /\ cache = EmptyTable
        /\ files = [p \in {} |-> EmptyTable]
        /\ sstables = << >>
        /\ reply = OK
        /\ store = EmptyTable

Operate == \/ \E k \in Keys : Set(k) \/ SetTTL(k) \/ Del(k) \/ Get(k)
           \/ Compact
           \/ Tick

Next == Operate \/ Restart

Spec == Init /\ [][Next]_vars

\* Of two tables that the names put the other way round, no key is in both: a
\* search in the order of the names meets what one in the order of ss does.
KeysApart(fs, ss) ==
    \A i, j \in DOMAIN ss : i < j /\ ss[j] < ss[i] =>
        \A k \in Keys : NONE \in {TableOf(fs, ss[i])[k], TableOf(fs, ss[j])[k]}

\* As Spec, with no restart that would put an older value over a newer one: a merged
\* table has left the order of the names, and shares a key with a younger table.
OrderedNext == Operate \/ (KeysApart(files, sstables) /\ Restart)
OrderedSpec == Init /\ [][OrderedNext]_vars

----------------------------------------------------------------------------
(* Properties.                                                             *)

\* The type of the state; the cache never outgrows its capacity.
TypeOK ==
    /\ now \in Nat
    /\ wal \in Seq(LogRecord)
    /\ memtable \in Table
    /\ cache \in Table
    /\ IsFiniteSet(Cached(cache)) /\ Cardinality(Cached(cache)) <= CacheSize
    /\ DOMAIN files \subseteq Nat /\ IsFiniteSet(DOMAIN files)
    /\ \A p \in DOMAIN files : files[p] \in Table
    /\ sstables \in Seq(Nat)
    /\ reply \in UserValues \cup {OK, NONE}
    /\ store \in Table

\* What get() finds for k below the cache, and with it.
Below(k) == Over(memtable[k], Lookup(files, sstables, k))
View(k)  == Over(cache[k], Below(k))

\* The cache never disagrees with the layers below it, whatever flushes,
\* compactions, lazy expiries and evictions went on underneath.
CacheCoherent == \A k \in Keys : cache[k] # NONE => cache[k] = Below(k)

\* A read of any key, by whichever of its three paths, meets what the last
\* acknowledged command on that key left.
ReadsNewest == \A k \in Keys : Same(View(k), store[k], now)

\* What the log and the directory hold, and a restart would read back.
Durable(k) == Over(Replay(wal)[k], Lookup(files, NameOrder(DOMAIN files), k))

\* While the names are in order, every acknowledged command would survive a
\* restart: the log is only truncated for what reached a table, and the
\* tombstones of check_ttl, in no log, need not survive.
RestartKeepsStore ==
    KeysApart(files, sstables) => \A k \in Keys : Same(Durable(k), store[k], now)

\* Every table of the vector has a file of its own, and no other file is left
\* for a restart to load.
FilesMatchVector ==
    /\ \A i, j \in DOMAIN sstables : sstables[i] = sstables[j] => i = j
    /\ {sstables[i] : i \in DOMAIN sstables} = DOMAIN files

\* The inductive invariant behind the four: names lie in the past, so that a new
\* one is fresh; memory and the log, each over the tables, agree with the store.
NamesPast   == \A p \in DOMAIN files : p < FlushName(now)
BelowAgrees == \A k \in Keys : Same(Below(k), store[k], now)
LogAgrees   == \A k \in Keys :
    Same(Over(Replay(wal)[k], Lookup(files, sstables, k)), store[k], now)

IInv == /\ TypeOK
        /\ FilesMatchVector
        /\ NamesPast
        /\ CacheCoherent
        /\ BelowAgrees
        /\ LogAgrees

KV == INSTANCE KVStore

\* The engine, behind its mutex, behaves as the one dictionary that its clients
\* are promised.
ImplementsKVStore == KV!KVSpec
=============================================================================
