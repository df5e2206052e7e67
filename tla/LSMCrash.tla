------------------------------ MODULE LSMCrash ------------------------------
(***************************************************************************)
(* The operations of LSMEngine, step by step: the server's thread and the  *)
(* compaction thread, the engine_mutex_ between them, the destructor that  *)
(* waits for the latter, a process that can die between any two steps and  *)
(* in the middle of a write to a file, and a disk that may be full.  What  *)
(* was written stays (the machine does not fail): a file that was being    *)
(* written keeps a first part of its bytes.                                *)
(***************************************************************************)
EXTENDS LSMEngine

CONSTANTS GARBLED,    \* what is read of a value whose last bytes were not written
          LogCanTear, \* BOOLEAN: whether a crash may cut a record of the log
          DiskCanFill \* BOOLEAN: whether a write to a file may fail

ASSUME FaultsAssumption == LogCanTear \in BOOLEAN /\ DiskCanFill \in BOOLEAN
ASSUME NoCommandAssumption ==
    NONE \notin [op : {"SET", "DELETE"}, key : Keys, val : UserValues \cup Ephemeral \cup {NONE}]

VARIABLES up,      \* whether the process runs
          running, \* running_, which the destructor takes back
          deaf,    \* whether wal_.file_ is in an error state and drops what it is given
          holder,  \* who holds engine_mutex_: "none", "server" or "compactor"
          step,    \* where the server's thread is in its command
          cmd,     \* the command it executes, as its log record, or NONE
          merging, \* where the compaction thread is in compact()
          out      \* the file compact() writes, 0 outside of it

processVars == <<up, running, deaf>>
threadVars  == <<holder, step, cmd, merging, out>>
crashVars   == <<vars, processVars, threadVars>>

----------------------------------------------------------------------------
(* What a crash leaves of the files.                                       *)

\* What is left of a record cut short: recover() stops at it while it is the
\* last one.  append() goes on behind it, and then a value that was cut takes up
\* the next record's bytes, and nothing behind it is read.
Cuts(c) == {Record("CUT", NONE, NONE)} \cup
           {Record("CUT", k, GARBLED) : k \in IF c.op = "SET" THEN {c.key} ELSE {}}
FirstCut(w) == CHOOSE i \in DOMAIN w : w[i].op = "CUT" /\ \A j \in 1..i - 1 : w[j].op # "CUT"

\* The records that recover() returns.
ReadableButLast(w) == SubSeq(w, 1, Len(w) - 1)
Readable(w) ==
    IF \A i \in DOMAIN w : w[i].op # "CUT" THEN w
    ELSE LET cut == FirstCut(w)
         IN  SubSeq(w, 1, cut - 1) \o
             IF cut = Len(w) \/ w[cut].key = NONE THEN << >>
             ELSE <<Record("SET", w[cut].key, GARBLED)>>

\* What read_all() makes of a part of t's file: the entries in key order up to
\* some point, the last value perhaps cut short.
FirstPart(t, k, v) == [j \in Keys |-> IF j < k THEN t[j] ELSE IF j = k THEN v ELSE NONE]
TornTables(t) ==
    {FirstPart(t, k, NONE) : k \in Keys} \cup
    {FirstPart(t, k, GARBLED) : k \in {j \in Keys : t[j] # NONE}}

\* The directory after SSTable::flush wrote t to p, or tried: nobody looks at the
\* state of the stream.
Flushed(p, t) ==
    {WithFile(files, p, t)} \cup
    (IF DiskCanFill THEN {files} \cup {WithFile(files, p, torn) : torn \in TornTables(t)} ELSE {})

\* What a restart would read back.
LoadOrderReversed(S) == [i \in 1..Cardinality(S) |-> NameOrder(S)[Cardinality(S) + 1 - i]]
LoadOrder(S) == NameOrder(S)
Recovered(k) == Over(Replay(Readable(wal))[k], Lookup(files, LoadOrder(DOMAIN files), k))

----------------------------------------------------------------------------
(* The mutex.                                                              *)

CanLockAlways == TRUE
CanLock == holder = "none"
UnlockForgotten == UNCHANGED holder
Unlock == holder' = "none"

----------------------------------------------------------------------------
(* The server's thread: set() and del() step by step; get() reads files    *)
(* only and stays one step.                                                *)

\* What acknowledging cmd promises.
Promised == IF cmd.op = "SET" THEN cmd.val ELSE NONE

Receive(c) ==
    /\ up /\ running /\ step = "idle"
    /\ Len(wal) < MaxWal /\ Len(sstables) < MaxTables /\ now < MaxNow
    /\ cmd' = c /\ step' = "lock"
    /\ UNCHANGED <<vars, processVars, holder, merging, out>>

Lock ==
    /\ step = "lock" /\ CanLock
    /\ holder' = "server" /\ step' = "log"
    /\ UNCHANGED <<vars, processVars, cmd, merging, out>>

\* WAL::append.  The stream remembers its first failure, and nobody asks it.
Log ==
    /\ step = "log" /\ step' = "apply"
    /\ deaf' \in IF DiskCanFill THEN {deaf, TRUE} ELSE {deaf}
    /\ wal' \in IF ~deaf' THEN {Append(wal, cmd)}
                ELSE {wal} \cup (IF deaf THEN {} ELSE {Append(wal, c) : c \in Cuts(cmd)})
    /\ UNCHANGED <<now, memtable, cache, files, sstables, reply, store, up, running, holder, cmd,
                   merging, out>>

\* The operation returns, and the client has its answer.
Finish ==
    /\ step' = "idle" /\ Unlock
    /\ IF cmd = NONE THEN UNCHANGED <<cmd, store, reply>>
       ELSE /\ cmd' = NONE
            /\ store' = [store EXCEPT ![cmd.key] = Promised]
            /\ reply' = OK

\* The MemTable and the cache change; is_full() decides what comes next.
Apply ==
    /\ step = "apply"
    /\ memtable' = [memtable EXCEPT ![cmd.key] = Effect(cmd)]
    /\ cache' \in IF cmd.op = "SET" THEN CachePut(cache, cmd.key, cmd.val)
                  ELSE {CacheRemove(cache, cmd.key)}
    /\ IF IsFull(memtable')
       THEN step' = "write" /\ UNCHANGED <<holder, cmd, store, reply>>
       ELSE Finish
    /\ UNCHANGED <<now, wal, files, sstables, processVars, merging, out>>

\* flush_memtable() up to the push_back.
WriteTable ==
    /\ step = "write"
    /\ files' \in Flushed(FlushName(now), memtable)
    /\ sstables' = Append(sstables, FlushName(now))
    /\ now' = now + 1
    /\ step' = "checkpoint"
    /\ UNCHANGED <<wal, memtable, cache, reply, store, processVars, holder, cmd, merging, out>>

\* memtable_.clear() and WAL::checkpoint, which opens the log's file anew.
Checkpoint ==
    /\ step = "checkpoint"
    /\ memtable' = EmptyTable
    /\ wal' = << >> /\ deaf' = FALSE
    /\ Finish
    /\ UNCHANGED <<now, cache, files, sstables, up, running, merging, out>>

Read(k) ==
    /\ up /\ running /\ step = "idle" /\ holder = "none"
    /\ Get(k)
    /\ UNCHANGED <<processVars, threadVars>>

----------------------------------------------------------------------------
(* The compaction thread.                                                  *)

older == sstables[1]
newer == sstables[2]
DueLate == Len(sstables) > CompactionTrigger + 1
Due == Len(sstables) > CompactionTrigger

LoopsForEver == TRUE
LoopsOn == running

\* The thread looks at running_ before it calls compact(), which locks.
StartCompact ==
    /\ up
    /\ (merging = "idle" /\ LoopsOn) \/ merging = "called"
    /\ CanLock /\ Due /\ now < MaxNow
    /\ holder' = "compactor" /\ merging' = "write" /\ out' = CompactedName(now)
    /\ UNCHANGED <<vars, processVars, step, cmd>>

ReturnAtOnce ==
    /\ merging = "called" /\ CanLock /\ ~Due
    /\ merging' = "idle"
    /\ UNCHANGED <<vars, processVars, holder, step, cmd, out>>

LeaveLoop ==
    /\ up /\ merging = "idle" /\ ~LoopsOn
    /\ merging' = "ended"
    /\ UNCHANGED <<vars, processVars, holder, step, cmd, out>>

\* SSTable::compact.
WriteMerged ==
    /\ merging = "write"
    /\ files' \in Flushed(out, Merge(TableOf(files, older), TableOf(files, newer)))
    /\ now' = now + 1
    /\ merging' = "older"
    /\ UNCHANGED <<wal, memtable, cache, sstables, reply, store, processVars, holder, step, cmd, out>>

RemoveFile(p) == files' = [q \in DOMAIN files \ {p} |-> files[q]]

RemoveOlder ==
    /\ merging = "older"
    /\ RemoveFile(older)
    /\ merging' = "newer"
    /\ UNCHANGED <<now, wal, memtable, cache, sstables, reply, store, processVars, holder, step, cmd, out>>

RemoveNewer ==
    /\ merging = "newer"
    /\ RemoveFile(newer)
    /\ merging' = "replace"
    /\ UNCHANGED <<now, wal, memtable, cache, sstables, reply, store, processVars, holder, step, cmd, out>>

ReplaceTwo ==
    /\ merging = "replace"
    /\ sstables' = [i \in 1..Len(sstables) - 1 |-> IF i = 1 THEN out ELSE sstables[i + 1]]
    /\ merging' = "idle" /\ out' = 0 /\ Unlock
    /\ UNCHANGED <<now, wal, memtable, cache, files, reply, store, processVars, step, cmd>>

----------------------------------------------------------------------------
(* The end of the process, and the next one.                               *)

\* start() returned, and the destructor takes running_ back.  The other thread may
\* have looked at it just before.
Shutdown ==
    /\ up /\ running /\ step = "idle"
    /\ running' = FALSE
    /\ merging' \in IF merging = "idle" THEN {"idle", "called"} ELSE {merging}
    /\ UNCHANGED <<vars, up, deaf, holder, step, cmd, out>>

MemoryIsLost ==
    /\ up' = FALSE /\ running' = TRUE /\ deaf' = FALSE
    /\ holder' = "none" /\ step' = "idle" /\ merging' = "idle"
    /\ memtable' = EmptyTable /\ cache' = EmptyTable /\ sstables' = << >> /\ out' = 0
    /\ UNCHANGED <<reply, store, cmd>>

\* The destructor has joined the thread; nothing is flushed.
Exit ==
    /\ up /\ merging = "ended"
    /\ MemoryIsLost
    /\ UNCHANGED <<now, wal, files>>

\* The file a thread was writing: absent, or its first part.
Leftover == IF step = "write" THEN {WithFile(files, FlushName(now), t) : t \in TornTables(memtable)}
            ELSE IF merging = "write"
            THEN {WithFile(files, out, t) :
                    t \in TornTables(Merge(TableOf(files, older), TableOf(files, newer)))}
            ELSE {}

Crash ==
    /\ up /\ now < MaxNow
    /\ now' = now + 1
    /\ MemoryIsLost
    /\ files' \in Leftover \cup {files}
    /\ wal' \in {wal} \cup (IF LogCanTear /\ step = "log" /\ ~deaf
                            THEN {Append(wal, c) : c \in Cuts(cmd)} ELSE {})

\* What the files made of the command the crash interrupted.
Outcome == IF cmd = NONE THEN store
           ELSE [store EXCEPT ![cmd.key] =
                    IF Same(Recovered(cmd.key), Promised, now) THEN Promised ELSE @]

\* The constructor: load_existing_sstables() and recover(), whose flush has the
\* steps of any other; the compaction thread starts only behind it.
Recover ==
    /\ ~up
    /\ up' = TRUE
    /\ store' = Outcome /\ cmd' = NONE
    /\ sstables' = LoadOrder(DOMAIN files)
    /\ memtable' = Replay(Readable(wal))
    /\ IF IsFull(memtable') /\ Readable(wal) # << >>
       THEN holder' = "server" /\ step' = "write"
       ELSE UNCHANGED <<holder, step>>
    /\ UNCHANGED <<now, wal, cache, files, reply, running, deaf, merging, out>>

----------------------------------------------------------------------------

CrashInit == /\ Init
             /\ up = TRUE /\ running = TRUE /\ deaf = FALSE /\ holder = "none" /\ step = "idle" /\ cmd = NONE
             /\ merging = "idle" /\ out = 0

\* What Parser::execute asks for: SET, TTL, DEL; BENCH is a row of SETs.
Commands ==
    [op : {"SET"}, key : Keys,
     val : UserValues \cup [data : UserValues, expiry : {now + l : l \in Lifetimes}]]
    \cup [op : {"DELETE"}, key : Keys, val : {NONE}]

ServerStep == Lock \/ Log \/ Apply \/ WriteTable \/ Checkpoint
CompactorStep == ReturnAtOnce \/ LeaveLoop
                 \/ WriteMerged \/ RemoveOlder \/ RemoveNewer \/ ReplaceTwo

\* Time also passes while no operation runs.
Wait == up /\ holder = "none" /\ Tick /\ UNCHANGED <<processVars, threadVars>>

Work == \/ \E c \in Commands : Receive(c)
        \/ \E k \in Keys : Read(k)
        \/ ServerStep
        \/ StartCompact
        \/ CompactorStep
        \/ Shutdown
        \/ Recover
        \/ Wait

\* The files that may be there, oldest content first: the merged one comes between
\* its sources and the younger tables.
ByAge == IF merging \in {"write", "older", "newer", "replace"}
         THEN SubSeq(sstables, 1, 2) \o <<out>> \o SubSeq(sstables, 3, Len(sstables))
         ELSE sstables

\* Whether the crash cut a value that is in no log: one of a merge, or a tombstone
\* of check_ttl.
CutsUnlogged == \E p \in DOMAIN files' \ DOMAIN files : \E k \in Keys :
    files'[p][k] = GARBLED /\ Replay(wal)[k] = NONE

CrashNext        == Work \/ Exit \/ Crash
OrderedCrashNext == Work \/ ((Exit \/ (Crash /\ ~CutsUnlogged)) /\ KeysApart(files', ByAge))

\* A thread goes on with what it began; one that waits in lock() is not passed
\* over for ever; the compaction thread looks at the tables again and again.
Fairness == /\ WF_crashVars(ServerStep \/ Recover) /\ SF_crashVars(Lock)
            /\ WF_crashVars(CompactorStep) /\ SF_crashVars(StartCompact)

CrashSpec        == CrashInit /\ [][CrashNext]_crashVars
OrderedCrashSpec == CrashInit /\ [][OrderedCrashNext]_crashVars /\ Fairness

----------------------------------------------------------------------------
(* Properties.                                                             *)

\* The type of the threads' state: the mutex is held exactly by the thread that
\* is inside an operation.
ThreadsOK ==
    /\ up \in BOOLEAN /\ running \in BOOLEAN /\ deaf \in BOOLEAN
    /\ holder \in {"none", "server", "compactor"}
    /\ step \in {"idle", "lock", "log", "apply", "write", "checkpoint"}
    /\ merging \in {"idle", "called", "write", "older", "newer", "replace", "ended"}
    /\ (holder = "server") <=> (step \notin {"idle", "lock"})
    /\ (holder = "compactor") <=> (merging \notin {"idle", "called", "ended"})
    /\ ~running => step = "idle"
    /\ merging \in {"called", "ended"} => ~running
    /\ ~up => step = "idle" /\ merging = "idle" /\ running

\* Whatever step the process dies at, its files hold every acknowledged command;
\* the one it was executing is there or not, and nothing else changed.
CrashKeepsAcknowledged ==
    ~up => \A k \in Keys :
             \/ Same(Recovered(k), store[k], now)
             \/ cmd # NONE /\ cmd.key = k /\ Same(Recovered(k), Promised, now)

\* At no step of either thread does an acknowledged command leave the disk: log and
\* files, read in the order of their age, hold it.
DiskKeepsAcknowledged ==
    up => \A k \in Keys :
            LET held == Over(Replay(Readable(wal))[k], Lookup(files, ByAge, k))
            IN  \/ Same(held, store[k], now)
                \/ cmd # NONE /\ cmd.key = k /\ Same(held, Promised, now)

\* Between operations, and whatever crashes came before, get() meets what the
\* last acknowledged command left.
IdleReadsNewest ==
    up /\ holder = "none" => \A k \in Keys : Same(View(k), store[k], now)

\* compact() works on two references into the vector: nobody moves it meanwhile.
CompactUndisturbed ==
    [][holder = "compactor" /\ holder' = "compactor" => UNCHANGED sstables]_crashVars

\* A command the server took up is answered, unless the process dies.
CommandsFinish == cmd # NONE ~> (cmd = NONE \/ ~up)

\* The destructor's join() comes to its end, also when the thread has a merge
\* before it or in its hands.
ShutdownEnds == ~running ~> (merging = "ended" \/ ~up \/ now >= MaxNow)

\* While there are more tables than the trigger, the two oldest get merged, however
\* busy the mutex is (up to the model's end of time).
TwoOldestGetMerged ==
    (up /\ Len(sstables) > CompactionTrigger)
        ~> (merging = "replace" \/ ~up \/ ~running \/ now >= MaxNow)

KVD == INSTANCE KVDurable

\* Clients find one dictionary whatever the two threads, crashes and shutdowns do;
\* a command without an answer was carried out as a whole or not at all.
ImplementsKVDurable == KVD!KVDurableSpec
=============================================================================
