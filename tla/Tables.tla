------------------------------- MODULE Tables -------------------------------
(***************************************************************************)
(* The data structures below LSMEngine at the grain of their entries: the  *)
(* MemTable with its size in bytes (src/src/engine/memtable.cpp), flushed  *)
(* to SSTables, which compaction merges two by two.                        *)
(***************************************************************************)
EXTENDS SSTable, FiniteSetsExt

CONSTANTS Keys,       \* numbers: their order is that of the strings
          UserValues,
          TOMBSTONE,
          Bytes(_),   \* std::string::size() of a key or of a value
          MaxTables   \* a bound of the model

ASSUME KeysAssumption == Keys \subseteq Nat
ASSUME NoValueAssumption == NONE \notin UserValues \cup {TOMBSTONE}
ASSUME BytesAssumption == \A s \in Keys \cup UserValues \cup {TOMBSTONE} : Bytes(s) \in Nat

VARIABLES data,    \* MemTable::data_
          size,    \* current_size_bytes_
          tables   \* the SSTable objects, oldest first

tablesVars == <<data, size, tables>>

Values == UserValues \cup {TOMBSTONE}
Empty  == [k \in Keys |-> NONE]
Held   == {k \in Keys : data[k] # NONE}

----------------------------------------------------------------------------
(* The MemTable.                                                           *)

SizeOfOldKept(k) == 0
\* What set() subtracts first, for a key that is there already.
SizeOfOld(k) == IF k \in Held THEN Bytes(k) + Bytes(data[k]) ELSE 0

MemSet(k, v) ==
    /\ data' = [data EXCEPT ![k] = v]
    /\ size' = size - SizeOfOld(k) + Bytes(k) + Bytes(v)
    /\ UNCHANGED tables

\* A deletion is a write of the marker.
MemDel(k) == MemSet(k, TOMBSTONE)

\* get_sorted_entries(): std::map iterates in the order of the keys.
SortedEntries ==
    [i \in 1..Cardinality(Held) |->
        LET k == CHOOSE k \in Held : Cardinality({j \in Held : j < k}) = i - 1
        IN  [key |-> k, val |-> data[k]]]

\* flush_memtable(), which returns at once from an empty MemTable.
Flush ==
    /\ Held # {} /\ Len(tables) < MaxTables
    /\ tables' = Append(tables, Written(SortedEntries))
    /\ data' = Empty
    /\ size' = 0

\* compact(): the two oldest become one.
MergeOldest ==
    /\ Len(tables) > 1
    /\ LET merged == Written(Merged(tables[1].entries, tables[2].entries))
       IN  tables' = <<merged>> \o SubSeq(tables, 3, Len(tables))
    /\ UNCHANGED <<data, size>>

TablesInit == data = Empty /\ size = 0 /\ tables = << >>

TablesNext == \/ \E k \in Keys : (\E v \in UserValues : MemSet(k, v)) \/ MemDel(k)
              \/ Flush
              \/ MergeOldest

TablesSpec == TablesInit /\ [][TablesNext]_tablesVars

----------------------------------------------------------------------------
(* Properties.                                                             *)

\* The type of the state; entries are sorted by key, without duplicates, which
\* every search relies on.
TablesOK ==
    /\ data \in [Keys -> Values \cup {NONE}]
    /\ size \in Nat
    /\ \A n \in DOMAIN tables :
         LET entries == tables[n].entries
         IN  /\ entries \in Seq([key : Keys, val : Values])
             /\ \A i, j \in DOMAIN entries : i < j => entries[i].key < entries[j].key

\* The MemTable never counts a byte twice nor forgets one, however keys are
\* overwritten, deleted and flushed: is_full() speaks of what is there.
SizeExact == size = MapThenSumSet(LAMBDA k : Bytes(k) + Bytes(data[k]), Held)

\* What a table holds for k, whatever its index and its filter say.
HeldIn(t, k) ==
    LET at == {i \in DOMAIN t.entries : t.entries[i].key = k}
    IN  IF at = {} THEN NONE ELSE t.entries[CHOOSE i \in at : TRUE].val

\* get() finds every key that its table has, at any place of the file, and no
\* other: neither the filter nor the sparse index hides an entry.
SearchFindsAll == \A n \in DOMAIN tables : \A k \in Keys :
                      Search(tables[n], k) = HeldIn(tables[n], k)

\* A restart rebuilds from the file the index and the filter that the writer had.
OpenRestores == \A n \in DOMAIN tables : Opened(tables[n].entries) = tables[n]

\* A merge loses no key of either table; where both have it, the newer wins.
MergeKeepsNewest ==
    [][Len(tables') < Len(tables)
        => \A k \in Keys : Search(tables'[1], k) =
               IF HeldIn(tables[2], k) # NONE THEN HeldIn(tables[2], k)
               ELSE HeldIn(tables[1], k)]_tablesVars

=============================================================================
