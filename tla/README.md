# VaultDB in TLA+

TLA+ modules, TLC runs and TLAPS proofs for VaultDB, a key-value store on an
LSM tree in C++17 (`src/src`) with a Python command line (`src/cli`), an HTTP
bridge (`src/api`) and a dashboard in the browser (`src/dashboard`). Paths below
are those of the repository, seen from here as `src/...`; `lsm_engine.cpp` alone
means `src/src/engine/lsm_engine.cpp`, and so on.

To check: `tlc -workers 2 -config X.cfg M` for a run of the table below,
`tlapm M.tla` for a module of proofs.

## 1. The system

| component | state | operations | interacts with |
|---|---|---|---|
| `LSMEngine` (`lsm_engine.cpp`) | the vector `sstables_`, `engine_mutex_`, `running_`, statistics | `set`, `get`, `del`, lazy expiry in `check_ttl`, `flush_memtable`, `recover`, `load_existing_sstables`; a thread that calls `compact`; the destructor that joins it | owns all storage below; called by the parser |
| WAL (`wal.cpp`) | `wal.log`, an open stream | `append`, `recover`, `checkpoint` | written before the MemTable changes, truncated after a flush |
| MemTable (`memtable.cpp`) | a sorted map and its size in bytes | `set`, `get`, `del` (writes a marker), `is_full`, `get_sorted_entries`, `clear` | flushed to an SSTable |
| SSTable (`sstable.cpp`) | a file; in memory a sparse index and a Bloom filter | `flush`, `get`, static `compact`, opening (`build_sparse_index`) | written by flush and merge |
| Bloom filter (`bloom_filter.cpp`) | bits | `add`, `might_contain` | one in each SSTable |
| LRU cache (`lru_cache.h`) | a list and a map into it | `get`, `put`, `remove`, `clear` | in front of every read |
| Parser (`parser.cpp`) | none | `SET GET DEL TTL PING BENCH STATS` | turns a line into calls of the engine |
| Connection (`connection.cpp`) | a receive buffer | `append_data`, `extract_commands` | one for each client |
| Server (`server.cpp`) | `running_`, `connections_` | `start` (a `select` loop), `stop`, `accept_connection`, `handle_client` | one thread, all clients |
| `main.cpp` | `g_server` | configuration, signal handler | calls `stop` at any moment |
| Python CLI (`vault_cli.py`) | one socket for a whole session | `send_command` with a time-out of five seconds | a client of the server |
| API bridge (`dashboard_api.py`) | none | one connection for each HTTP request, two seconds | a client of the server |
| React dashboard | what it shows | commands of its terminal, a poll for STATS each second | a client of the bridge |

What is hard in it:

- *Two threads.* The server's thread runs commands, the compaction thread
  merges; `engine_mutex_` is all that keeps `compact()`'s references into the
  vector valid. The destructor waits for a thread that may be anywhere.
- *Crashes.* A command is log, MemTable, cache, maybe table and checkpoint; a
  merge is a write and two removals. A process may die between any two of
  these, or in the middle of a write, and the directory is all that is left.
- *Names as an order.* A restart learns which table is newer from file names,
  and names are wall-clock milliseconds.
- *Lazy expiry.* A read writes a tombstone to the MemTable, not to the log.
- *Layers that must agree.* Cache, MemTable and tables hold copies of one key.
- *TCP and `select`.* Streams are cut anywhere, descriptors are reused, clients
  leave, a signal comes at any time.
- *Time-outs.* An answer that comes late meets the next question; a command that
  was given up is executed all the same.
- *Commands that stop the world.* `BENCH` runs its rounds while nobody else is
  served; a `TTL` whose seconds are no number ends the server under everybody.

What makes each part correct: the engine is one dictionary in which an
acknowledged write is seen until it is overwritten, deleted or expired, across
flush, merge, restart and crash; the cache never contradicts what lies below;
the log is only truncated for what a table holds; no search misses an entry; a
merge prefers the newer; the list and map of the cache are one structure; each
client is answered for its own commands, once and in order; and whoever waits
with a time-out does not wait for ever.

## 2. The modules

| module | models | source |
|---|---|---|
| `KVStore` | the promise: one dictionary with expiry, atomic commands | `lsm_engine.h:65-80`, TTL of `parser.cpp:70-89` |
| `KVDurable` | the promise with crashes: only a command without an answer is in doubt | `wal.h:6`, `docs/study/08_interview_questions.md:14-18` |
| `LSMEngine` | every operation of the engine as one action, with log, MemTable, cache, directory and vector | `lsm_engine.cpp`, `wal.cpp`, `sstable.cpp:115-143`, `lru_cache.h` |
| `MCLSMEngine` | `LSMEngine` for TLC: `is_full` by bytes | `memtable.cpp` |
| `Recursion` | proofs: induction over data for this project: loops, finite sets, sequences, sums | |
| `LSMEngineProofs` | proofs: types, lemmas on lookups, merges and names; the layers agree; refinement of `KVStore` | |
| `LSMCrash` | the same operations step by step: two threads, the mutex, shutdown, crashes, recovery, failing writes | the same, and what an interrupted write leaves |
| `MCLSMCrash` | `LSMCrash` for TLC, with numbers for keys | |
| `LSMCrashInvariant` | proofs: the mutex keeps the two threads apart; the inductive invariant of `LSMCrash`, and what it says of torn files, names and a half merge | |
| `LSMCrashSafety` | proofs: the invariant holds; nothing acknowledged is lost; refinement of `KVDurable` | |
| `BloomFilter` | bits of a key, for any hash functions | `bloom_filter.cpp` |
| `SSTable` | sparse index, filter, search, merge, opening, on entries | `sstable.cpp` |
| `Tables` | MemTable with its byte count, flush and merge on real entries | `memtable.cpp`, `lsm_engine.cpp:214-232, 272-296` |
| `TablesProofs` | proofs: no false negative, the search is right, the merge keeps the newest, opening restores index and filter, the byte count is exact | |
| `Layers` | what the engine takes them for: a dictionary in memory over frozen ones, which `Tables` implements | `memtable.cpp`, `sstable.cpp`, `lsm_engine.cpp:214-232, 272-296` |
| `MCTables` | `Tables` for TLC: colliding hash functions, lengths | |
| `BoundedCache` | the promise of a bounded cache | what `lsm_engine.cpp` uses of it |
| `LRUCache` | list and map | `lru_cache.h` |
| `LRUCacheProofs` | proofs: one structure, order of use, refinement of `BoundedCache` | |
| `Connection` | cutting a stream into commands | `connection.cpp` |
| `Server` | the `select` loop, descriptors, clients, `stop` | `server.cpp`, `main.cpp:25-28` |
| `ServerProofs` | proofs: connections are not mixed up, streams stay whole, each client gets the answers to its own commands | |
| `Parser` | which calls a line asks for; misuse; the exception of `TTL` | `parser.cpp` |
| `Sessions` | command line, browser, bridge and a server that is busy, dies and is started again | `vault_cli.py`, `dashboard_api.py`, `App.jsx`, `WebTerminal.jsx`, `parser.cpp` |
| `MCSessions` | `Sessions` for TLC: words and lines | |
| `SessionsProofs` | proofs: an HTTP request gets its own answer; the order in which the command line is shown its answers, and how far behind; refinement of `KVStore` | |

How they fit together:

- `LSMCrash` extends `LSMEngine`: data operators (`Merge`, `Lookup`, `Replay`,
  `CachePut`, ...) are shared, control is split.
- `Tables` extends `SSTable`, which extends `BloomFilter`. `LSMEngine` sees a
  table as a function from keys to values, a flush as the MemTable put on top and a
  merge as `Over`. These are the steps of `Layers`, which `Tables` is proved to
  implement, with the answers of `SSTable`'s `Search` for the values of a table.
- `LSMEngine` sees the cache as `CachePut` and `CacheRemove`. These are the steps of
  `BoundedCache`, which `LRUCache` is proved to implement (`get` of the LRU
  changes only the order of eviction; in `LSMEngine` any entry may be evicted).
- `Sessions` extends `Parser`, which extends `KVStore`: behind the parser stands the
  dictionary that `LSMEngine` is proved to implement.
- `Server` answers a command with itself: that each client gets the answers to
  its own commands in order is what `Sessions` takes from it, and there a connection carries
  requests and answers instead of symbols.

### How state and actions correspond

The engine:

- `now` is `system_clock` in milliseconds. A flush takes at least
  `FlushTakesMs`; with 0 two of them may share a millisecond. A compaction takes
  at least one: the thread sleeps 100 ms between two (`lsm_engine.cpp:50-56`).
- A file name is a number, `FlushName(ms) = 2 ms` and `CompactedName(ms) = 2 ms + 1`:
  `sstable_7.sst` sorts before `sstable_7_compacted.sst`, and both before those of
  a later millisecond (numbers of equal length). `NameOrder` is the sort of `load_existing_sstables`.
- `store` is history: what acknowledged commands promise.
- `Put`/`Del` are `set`/`del` with the flush inside; `Get` is the three paths of
  `get`, each with `check_ttl`; `Restart` is the destructor and the constructor.
- A value of the TTL command, `EXPIRY:<ms>:<data>`, is a record; a value a client
  could type that looks like one, or like the tombstone marker, is excluded.

Threads and crashes:

- `Receive, Lock, Log, Apply, WriteTable, Checkpoint` are the lines of `set` and `del`;
  `StartCompact, WriteMerged, RemoveOlder, RemoveNewer, ReplaceTwo` those of
  `compact`; `Recover` is the constructor, whose own flush has the same steps. `get` changes no file
  and is one step.
- `Shutdown` is the destructor taking `running_` back. The thread may have looked at it
  just before (`merging = "called"`): then it still calls `compact()`, which merges
  (`StartCompact`) or finds nothing due (`ReturnAtOnce`); after that it leaves its loop (`LeaveLoop`)
  and the destructor's `join` returns (`Exit`). Nothing is flushed at the end.
- `Crash` keeps what was written. A file whose write was interrupted is absent or
  holds its first entries, the last value perhaps cut (`GARBLED`: the code reads it
  back zero-filled, `sstable.cpp:103-106`).
- A record of the log may be cut if `LogCanTear` (`Cuts`). `Readable` is what
  `WAL::recover` makes of the log then: it stops at a cut at the end, but a value that
  was cut takes up the bytes of the record written behind it, and nothing further is read.
- If `DiskCanFill`, a record or a table may be written in part or not at all
  (`Log`, `Flushed`). The log's stream stays in its error state (`deaf`) and drops what it is given,
  until `checkpoint` opens the file anew.

Tables, cache and server:

- In `Tables` an entry is a key and a value, an offset is the place of an entry, the
  size in bytes is the unsigned counter that the code adjusts.
- In `LRUCache` the list is a sequence and an iterator is a place in it; `splice`, `erase`, `pop_back`
  and `push_front` move places as they move nodes. `used` is history: the keys in the order of their last use.
- In `Server`, `Listen, Select, Accept, Receive, EndOfStream, NextRound, Return` are the
  parts of the loop's body. `Receive` takes any number of the bytes that are
  there; `Connect, Type, Leave` are the clients, `Stop` the signal handler. The
  answer to a client that has left may end the process (SIGPIPE).

Sessions:

- An answer is a piece, or two if it is longer than the 4096 bytes that one `recv` of a client takes.
  A `recv` takes all that is there, or up to where a long answer fills it; what it leaves comes first the next time.
- When the server dies, what it sent can still be received; a connection with commands it had not
  read is reset, any other one is closed. `recv` takes commands before they are executed, so of the connection that is served at
  that moment, that of a throwing `TTL` too, nothing may be left to read. It may also die between the engine's
  call and `send`: the command is executed and has no answer. The command line shows an empty answer or an error for a closed
  connection, and ends by an exception nobody catches for a reset one; the bridge catches everything. An empty
  answer is no error to the bridge, which then says 200.
- What ends within a long answer may end within a character: `decode()` throws (`EndsCut`), which ends the command line and is an
  error to the bridge. An interrupt may end the command line while it waits.
- A time-out may come at any moment before an answer. The command line keeps its connection, the
  bridge closes it; the command it sent stays with the server, which executes it later.
- `BENCH` is one step a round, and the server reads nothing else meanwhile. `TTL` with seconds that `stoi` throws
  for ends the process.
- `Post` is the browser: the terminal's commands and the polls, none of which waits for an answer; the bridge takes them one at a time.
  A request is a whole one: the bridge reads a body without a time-out (`dashboard_api.py:95-96`), so that a browser that
  stalls in the middle of one holds everybody up. `NobodyWaitsForEver` is about the server hanging, not about that.

## 3. The runs

| run | checks | states | bounds |
|---|---|---|---|
| `engine` | `TypeOK CacheCoherent ReadsNewest RestartKeepsStore FilesMatchVector`, `ImplementsKVStore` | 1,668,083 | 2 keys, cache of 1, merge above 1 table, 3 tables, log of 3, 5 ms |
| `crash` | `ThreadsOK CrashKeepsAcknowledged DiskKeepsAcknowledged IdleReadsNewest`, `ImplementsKVDurable CompactUndisturbed CommandsFinish TwoOldestGetMerged ShutdownEnds` | 902,272 | 2 keys, 4 ms, log of 2, 3 tables, no TTL values |
| `tables` | `TablesOK SizeExact SearchFindsAll OpenRestores`, `MergeKeepsNewest` | 524,961 | 4 keys, stride 2, 2 tables, 3 hash functions that collide |
| `lru` | `LRUOK HoldsMostRecent`, `ImplementsBoundedCache` | 2,643 | 4 keys, 2 values, capacity 3 |
| `server` | `ServerOK AnswersOwnCommands StreamWhole`, `CommandsAnswered StopEndsLoop` | 96,376 | 2 clients, 2 descriptors, 4 symbols |
| `sessions` | `SessionsOK BridgeAnswersOwn CliInOrder CliLag`, `ImplementsKVStore NobodyWaitsForEver` | 604,863 | 2 typed commands of 3 lines, 2 HTTP requests of 5 lines, 2 keys, 1 ms |

What they show: within the restrictions below the engine is the dictionary `KVStore`, whatever
commands, merges, ticks and restarts come together; step by step and with crashes it is the dictionary
`KVDurable`, the thread that merges is not disturbed, and commands, merges and the destructor come to
their end; no search of a table misses, whatever was merged; the cache is what the engine counts on; clients are answered
for their own commands. `sessions` says what is left of that once clients stop waiting: an HTTP request is
answered with its own answer or none; the command line is shown its answers in order, none left out, none twice, and
each at most as many commands late as it went on without a whole answer (`CliLag`).

Six runs find what a comment or document promises violated:

| run | what happens |
|---|---|
| `restart_after_compaction` | the merge of the two oldest tables has the newest name: after a restart old values win |
| `same_ms_flush` | two flushes in one millisecond share a file; the first one's data is lost |
| `torn_log_record` | a record written behind a cut one is read as its end: a key gets a value that nobody stored |
| `crash_in_compaction` | a crash in a merge leaves a file, partial or not yet matched by the removals, that is loaded as the newest |
| `full_disk` | a failed write is not noticed; the command is acknowledged and lost at the next crash |
| `client_timeout` | after a time-out each command is shown the answer of the one before |

A divergence without a run of its own: a merge keeps the tombstones that `sstable.h:68` says it removes. This
is the safer behaviour, as older tables may lie below, and `Merge` models it. Another: a value is dead in the very millisecond of its expiry
(`>=`, `lsm_engine.cpp:201`, and so `Expired`), while the comment at `lsm_engine.cpp:169` says "exceeds" and the listing at
`docs/study/07_architecture.md:274`, of another `check_ttl`, has a strict `<`.

### Why these bounds

The interesting cases of the engine are: a key in every layer at once, an
eviction, a merge with a table above it, a restart before and after a flush, an
expiry seen by the cache, the MemTable and a table. With a cache of one entry, a
MemTable that two plain values fill and one TTL value alone overfills, and merges
above one table instead of four, each of them is reached within 5 ms of model time and three
tables; the code compares with 4 (`lsm_engine.cpp:275`), and `CompactionTrigger` is
any positive number in the proofs. `MaxNow`, `MaxWal` and `MaxTables` are bounds of the model, in the guards.
One user value is enough because a TTL value, a plain one and a tombstone already tell old from new; the proofs
put no bound on keys, values, tables or time.

In `tables` four keys and a stride of two give tables below, at and above a
stride's boundary; the filter has 3 to 8 bits, so it has false positives. In
`server` four symbols are two whole commands of one client or one of each, with line ends
cut anywhere (`c CR | LF`), and two descriptors are reused after a client leaves. In `sessions` two commands on
each side are the least for an answer to meet the next question and for a retry to overtake; the lines contain a
long answer, a `BENCH`, a misused and a throwing command and a TTL. `MaxNow`, `MaxTyped`, `MaxPosted` are the bounds.

`CHECK_DEADLOCK FALSE` stands in `Server.cfg` and `Sessions.cfg` because server and sessions do
stop, and in `MCLSMCrash.cfg` because the model's time ends.

### Restrictions of the passing runs

The passing runs and the proofs exclude what the violation runs show:

- `OrderedSpec` (`engine`) lets a restart happen only while no key is in two tables that the names put the
  other way round (`KeysApart`). `Spec` has no such limit, and
  `restart_after_compaction` is its counterexample; `TypeCorrect` is proved for `Spec`.
- `FlushTakesMs = 1` excludes two flushes in one millisecond. With 0, the model reads the shared file
  through either object; in the code the first object's index is also of another content.
- `OrderedCrashSpec` (`crash`) lets the process die, or end after a shutdown, at every step of both threads, those of a merge included,
  with two exceptions. What a death leaves must fulfil `KeysApart`, where `ByAge` puts the merged file between its sources and the
  younger tables; `crash_in_compaction` and `restart_after_compaction` show the loss otherwise. And a crash must not cut, in a table's file, a value that
  the log does not hold (`CutsUnlogged`): a value of a merge, or the tombstone of an expired key, reads back as a value that nobody stored.
- `LogCanTear = FALSE` and `DiskCanFill = FALSE` exclude torn records and failing writes: `torn_log_record`, `full_disk`.
- The run `crash` has `Lifetimes = {}`, to leave TLC time for liveness. The proofs have TTL values: with `Lifetimes = {1}` and
  the properties of liveness left out, the same instance has 10,110,514 states and no error, and an error as soon as `~CutsUnlogged` is left out.

What the first exception means for the code, whose trigger is 4 (`lsm_engine.cpp:275`): a merge then has at least three younger
tables above it, and the merged file's name is newer than theirs from the moment it is being written. The names are out of order from there on, until
those tables have been merged too. A death or shutdown at any of these moments is admitted exactly if the merged table, or what of it was written, shares no key with a
younger table. Where it does share one, a start of the real program may return the older of the two values. So while a merged key is
also in a younger table, the theorems say nothing of what a death leaves; they do of every other death, in the middle of a merge and after it. What does not depend on the names is `DiskKeepsAcknowledged`: while the process runs, at
each step of both threads and of every merge, the disk holds each acknowledged command, if it is read in the order of age. What loses data is
therefore how a start reads the directory, and not what is written or removed when.

Within these limits the order log - MemTable - table - checkpoint is right: a crash at any
of its points, a torn table included, loses nothing acknowledged, and recovery may itself crash and be repeated.

### Fairness

- `WF(ServerStep \/ Recover)`, `WF(CompactorStep)`: a thread that is inside an operation goes on, and somebody starts
  the server again.
- `SF(Lock)`, `SF(StartCompact)`: a thread blocked in `lock()` is not passed over for ever.
  `std::mutex` does not promise this in theory; here the other thread holds it for a bounded time and
  sleeps 100 ms (compaction) or waits for a client (server) in between.
- `WF(Step)` in `Server`: the one thread runs. Clients and signals have no fairness.
- `WF(CliStep)`, `WF(BridgeStep)` in `Sessions`: the clients' time-outs come. The server has no fairness at all there: it may hang.

`StopEndsLoop` speaks of a `stop()` once `start()` is in its loop. An earlier one, between the
registration of the handlers (`main.cpp:77`) and `running_ = true` (`server.cpp:60`), is lost: a listed hazard.
`TwoOldestGetMerged` and `ShutdownEnds` speak up to `MaxNow`, the model's end of time, or a crash.

## 4. The proofs

Assumptions on constants are those the modules name: the capacities and
the merge trigger are positive, lifetimes are natural numbers, `NONE`,
the tombstone and TTL values are distinct from one another and from plain
values (and `NONE` is no state of a `BENCH`), lengths are natural numbers, descriptors are numbers, the words of the lines that clients send stand for keys, values and
lifetimes there are. `IsFull` is any operator, so flushes may come at any write; keys and values are any sets.

**Induction** (`Recursion`). The library's induction theorems take an operator as a parameter, which the
provers cannot instantiate. Here what is to hold of every number is a *set* of numbers, whose complement would have a least
element (`LeastExists`, from `WFMin` of the library): `UpTo` is induction on a loop's counter, `EverySubset` on the size of a finite set, `SeqInduct` on the
last element of a sequence; the sets are formed from the formula where it is used. `LoopExists` and `LoopUnique`
are the recursive functions over `0..n` that the models write loops with, `LoopsAgree` compares two of them;
`Sums`, `SumAny` and `SumAgrees` are sums over finite sets in any order. Each leaf works on sets and functions alone.

**The engine** (`LSMEngineProofs`).

- `TypeCorrect`: `Spec => []TypeOK`, restarts at any time included.
- `Agreement`: `OrderedSpec => []IInv` if `FlushTakesMs > 0`. `ReadsNewest` is not
  inductive: a flush may overwrite a file unless its name is new
  (`NamesPast`), every name of the vector has a file of its own
  (`FilesMatchVector`), an eviction uncovers what lies below the cache
  (`CacheCoherent`, `BelowAgrees`), and a restart puts the log in the
  place of the MemTable (`LogAgrees`). `Same(v, w, t)` lets values differ once both are dead (absent,
  deleted, expired): lazy expiry writes a tombstone on one side only, and time turns a value dead
  on both at once (`SameLater`). `SettleKeeps` is the lemma of flushing, `LookupCompacted` that of merging,
  `NameOrderIs` that of reloading.
- From `IInv`: `ReadsNewestHolds`, `CacheCoherence`, `DirectoryMatches`, and
  `RestartSafety`, which needs `RestartLookup` for what a restart would find.
- `Refinement`: `OrderedSpec => ImplementsKVStore`, under the same assumption and
  `TOMBSTONE \notin UserValues`. `Get` returns what `KVStore` makes visible
  (`GetAnswers`, `SameVisible`); every other action maps to its namesake or to the passing of time.

**Threads and crashes** (`LSMCrashInvariant`, `LSMCrashSafety`).

- `MutualExclusion`, `VectorUndisturbed`: with crashes at any step, the mutex is held
  exactly by the thread inside an operation, so no flush moves the vector under `compact()`. `ThreadsOK` is inductive
  as it stands; proved for `CrashSpec`, of which `OrderedCrashSpec` has fewer steps.
- `AcknowledgedSurvives`, `IdleReads`, `DurableRefinement`, `DiskHolds`: for `OrderedCrashSpec`, whose two exceptions are those above, with any keys, plain and TTL values, and a
  log that does not tear on a disk that does not fill (`FaultFree`); `DurableRefinement` also if no client sets the marker. The inductive invariant `CInv` says, at each step of each thread:
  - what is in the directory while `compact()` works: the table it writes is `Inserted` behind the two it merges,
    whose removal leaves the `Tail` (`Found`, `Present`), and what the merged table covers in the meantime (`MergedCovers`);
  - what the log must hold of the command under way (`Expected`, `Logged`) and that MemTable and cache agree with it
    (`MemTableAgrees`, `CacheAgrees`), but for tombstones of `check_ttl` over what is dead in log and files anyway (`Fits`); after the table is written, that it says the same as the log
    that is about to be truncated (`TableOnTop`);
  - that names are fresh (`NamesOK`).
  The lemmas behind it: what a lookup finds after an insertion or a removal (`LookupInserted`,
  `LookupHeadRemoved`), that a restart which meets the tables in the order of their names finds what one in the order of age would, as long as `KeysApart` (`RestartLookup`, `RecoveredAfterCrash`), and that a torn table holds a
  part of what the log holds in full (`TornIsPart`). `CInv` was checked by TLC on the instance of `crash`, with `Lifetimes = {1}`, before it was proved.
  In `KVDurable` a TTL command may have read its clock before the answer comes (`Begun`): in between lie the mutex, a flush, or a crash.

**Tables** (`TablesProofs`).

- `NoFalseNegative`, `SearchFinds`, `SearchMisses`: for every sorted table, stride, filter
  size and hash functions, `SSTable::get` returns exactly what the table holds.
- `TablesInvariant`: `TablesSpec => []TInv`: every table is what `flush()` writes of some entries in the order of their
  keys (`SortedTables`, `Written`), and `size` is the sum over the entries of the MemTable (`SumOf`, over a set in any
  order). From it, for any keys and any number of flushes and merges: `TablesAreOK` (sorted, no key twice), `SizeIsExact`,
  `SearchesFindAll`, `OpeningRestores` (the constructor's loop adds an entry to the index at each multiple of the stride, and every key to the
  filter, as `flush` did: `OpenedIs`). `get_sorted_entries` puts each key at the place that the number of smaller keys says (`Places`, `SortedIs`).
- `MergesKeepNewest`: `SSTable::compact`'s two pointers are a loop of rounds (`MergeRound`). Its invariant `MergeInv` says that what was
  pushed back is smaller than all that is left, comes from one of the tables, and from the older one only if the newer has no such
  key, and that no key was passed over; after as many rounds as there are entries both inputs are used up (`MergedIs`).
- `TablesAreLayers`: `TablesSpec => ImplementsLayers`, the refinement mapping taking each table to the function of what a search of
  it answers. `FlushedAnswers` and `MergedAnswers` are the two steps: a table answers as the MemTable did when it was flushed, and a merged
  one as the newer table over the older. This justifies, for every size, the tables of `LSMEngine` and `LSMCrash`. No run checks it: with three
  keys, two values and two tables TLC confirmed it in 3 minutes (258,112 states), and on the instance of `tables` it takes too long to be kept as a run.

**The cache** (`LRUCacheProofs`).

- `OneStructure`, `RecentKept`, `CacheRefinement`: for every capacity, any keys and values. The invariant
  `LInv` says that the map is exactly what the list determines (`Pointing`), that no key has two
  nodes, and that the list's keys, in their order, begin the history of uses. Lemmas say where `splice` and `erase`
  leave each place (`MovedIs`, `RemoveAtIs`); the refinement reads a key's value through the map (`ContentIs`, `SameContent`).

**The server** (`ServerProofs`).

- `OneConnectionEach`: `ServerSpec => []ServerOK`; `NothingLost`: `ServerSpec => []StreamWhole`, for any clients and
  descriptors. `SInv` adds that between two rounds nothing is left to be handled or closed (`Rounds`), that each
  client that has called is in the backlog or connected, once (`Places`), and that the stream ends with what is buffered and
  what is still in the pipe (`Streams`): of a client in the backlog nothing was received yet, so an empty buffer is right for it.
- `OwnAnswersOnly`: `ServerSpec => []AnswersOwnCommands`, for texts of any length. `extract_commands` is a pass over the
  buffer, symbol by symbol (`Cut`). The lemma is `CutTwice`: to cut a stream in two goes, the second over the line that the first left and what came
  since, gives the commands of one pass over the whole; by induction on the second part (`SeqInduct`). So the answers are those to the first
  commands of what was typed (`AnswersABeginning`), and to all of what was read when nothing is pending (`UpToDate`).

**The sessions** (`SessionsProofs`).

- `WaitersConnected`: `SessionsSpec => []SessionsOK`; `OwnAnswers`: `SessionsSpec => []BridgeAnswersOwn`, for any lines and
  any number of HTTP requests, however many were given up and are executed later. The bridge never reuses a connection, and
  the invariant `SInv` makes of that: connections are numbered by the requests (`OpenedUpTo`), each carries one request that is unread,
  under way as `BENCH`, or answered from its first piece on (`Once`), a `BENCH` knows which connection it is for even when that one is gone
  (`BenchNumbered`), and the end of the process is seen on every connection (`EndsSeen`). For the command line, whose
  connection is reused, no such thing holds: there the next two say what does.
- `AnswersInOrder`: `SessionsSpec => []CliInOrder`; `LagIsBounded`: `SessionsSpec => []CliLag`, for sessions of any length. The stream
  of a session is what was shown, piece by piece, and what its socket still holds; `CliInv` says that it is in order and ends with a whole
  answer; that the commands behind it are, in their order, the one in `BENCH` and the unread ones, up to the last one sent, as long as the connection is live
  (`Owed`); and that for each command shown either a whole answer was taken or it is counted as a slip (`Lag`). `AnswerFollows`
  is the server's part (an answer continues the stream), `CliShown` the client's (a `recv` moves pieces from the
  socket to what is shown and leaves the stream as it is), `LagGrows` the count.
- `SessionsImplementKVStore`: every step of clients, bridge and server, the rounds of `BENCH` and the death of the process
  included, is a command of `KVStore` or changes nothing of it (`PerformIsCommand`, `StepIsCommand`).

Only model-checked: all of liveness (`CommandsFinish TwoOldestGetMerged ShutdownEnds CommandsAnswered StopEndsLoop
NobodyWaitsForEver`). Every invariant and action property of the passing runs is also the statement of a theorem.

## 5. Not modelled

- Bytes: the formats of log and table, the splitting of a line into words, the hash functions. So also the
  lengths that `WAL::recover` reads behind a cut, which may ask for gigabytes (`bad_alloc`).
- A closing stream that writes its buffer after an error; `send` on a full socket; errors of `socket`, `bind`, `listen`,
  `select`; more than `FD_SETSIZE` clients.
- A power failure: the crash is that of a process, what it wrote stays, and `flush()` without `fsync` is not told apart
  from a durable write. A clock that is set back.
- The statistics; `main.cpp`'s configuration, whose values are constants here.
- The command line's first PING, HELP, CLEAR and empty lines; the bridge's other paths, its JSON and its errors; what
  the dashboard does with an answer, which is display.
- The benchmark client, which checks nothing, and the tests.

## 6. Plan

*Done:* the engine with its dictionary, proved; threads, crashes, shutdown, torn log, full disk, proved within the
restrictions; tables, search, merge and the byte count, proved; the cache, proved; server, streams and answers, proved; parser, command line,
bridge and dashboard's requests, proved.

*Left, most valuable first:*

1. `Server` with `send` on a full socket, and with answers that are values, so that `Sessions` refines it.
