------------------------------ MODULE LRUCache ------------------------------
(***************************************************************************)
(* src/src/cache/lru_cache.h: a doubly-linked list with the most recently  *)
(* used entry in front, and a hash map from keys to the list's nodes.      *)
(***************************************************************************)
EXTENDS Naturals, Sequences, FiniteSets, SequencesExt

CONSTANTS Keys, Values,
          Capacity,  \* capacity_; put() of an empty list's back() is undefined for 0
          NONE       \* std::nullopt

ASSUME CapacityAssumption == Capacity \in Nat \ {0}
ASSUME NoneAssumption == NONE \notin Values

VARIABLES items,   \* the list, front first
          index,   \* index_: the node, a position of the list, of each key it knows
          answer,  \* what the last get() returned
          used,    \* history: keys, the last got or put first, until removed
          latest   \* history: the value of each key's last put, until removed

lruVars == <<items, index, answer, used, latest>>

Entry(k, v) == [key |-> k, val |-> v]
Known == DOMAIN index

----------------------------------------------------------------------------
(* The list.                                                               *)

\* splice() to the front; nodes move, the iterators go with them.
InPlace(s, i) == s
MovedToFront(s, i) == <<s[i]>> \o RemoveAt(s, i)

\* pop_back().
FrontPopped(s) == Tail(s)
BackPopped(s) == Front(s)

\* The map's iterators after the list became s: those of the keys in known.
Pointing(known, s) ==
    [k \in known |-> IF \E i \in DOMAIN s : s[i].key = k
                     THEN CHOOSE i \in DOMAIN s : s[i].key = k ELSE 0]

----------------------------------------------------------------------------
(* History.                                                                *)

Position(k) == CHOOSE i \in DOMAIN used : used[i] = k
UsedWithout(k) == IF \E i \in DOMAIN used : used[i] = k THEN RemoveAt(used, Position(k)) ELSE used
UsedFirst(k) == <<k>> \o UsedWithout(k)

----------------------------------------------------------------------------
(* The operations; each holds mutex_.                                      *)

Hit(k) ==
    /\ k \in Known
    /\ items' = MovedToFront(items, index[k])
    /\ index' = Pointing(Known, items')
    /\ answer' = items[index[k]].val
    /\ used' = UsedFirst(k)
    /\ UNCHANGED latest

Miss(k) ==
    /\ k \notin Known
    /\ answer' = NONE
    /\ UNCHANGED <<items, index, used, latest>>

OldValue(k, v) == items[index[k]].val
NewValue(k, v) == v

Update(k, v) ==
    /\ k \in Known
    /\ items' = MovedToFront([items EXCEPT ![index[k]].val = NewValue(k, v)], index[k])
    /\ index' = Pointing(Known, items')
    /\ used' = UsedFirst(k) /\ latest' = [latest EXCEPT ![k] = v]
    /\ UNCHANGED answer

EvictedStaysKnown == Known
KnownAfterEviction == Known \ {items[Len(items)].key}

Insert(k, v) ==
    /\ k \notin Known
    /\ LET evicts == Len(items) >= Capacity
           known  == IF evicts THEN KnownAfterEviction ELSE Known
       IN  /\ items' = <<Entry(k, v)>> \o (IF evicts THEN BackPopped(items) ELSE items)
           /\ index' = Pointing(known \cup {k}, items')
    /\ used' = UsedFirst(k) /\ latest' = [latest EXCEPT ![k] = v]
    /\ UNCHANGED answer

Erase(k) ==
    /\ k \in Known
    /\ items' = RemoveAt(items, index[k])
    /\ index' = Pointing(Known \ {k}, items')
    /\ used' = UsedWithout(k) /\ latest' = [latest EXCEPT ![k] = NONE]
    /\ UNCHANGED answer

Get(k) == Hit(k) \/ Miss(k)
Put(k, v) == Update(k, v) \/ Insert(k, v)

Clear ==
    /\ items' = << >>
    /\ index' = Pointing({}, items')
    /\ used' = << >> /\ latest' = [k \in Keys |-> NONE]
    /\ UNCHANGED answer

LRUInit == /\ items = << >> /\ index = Pointing({}, items) /\ answer = NONE
           /\ used = << >> /\ latest = [k \in Keys |-> NONE]

LRUNext == \/ \E k \in Keys : Get(k) \/ (\E v \in Values : Put(k, v)) \/ Erase(k)
           \/ Clear

LRUSpec == LRUInit /\ [][LRUNext]_lruVars

----------------------------------------------------------------------------
(* Properties.                                                             *)

\* The type of the state; the map leads to every node of the list, to the node
\* of its key and to no other; the list never outgrows the capacity.
LRUOK ==
    /\ items \in Seq([key : Keys, val : Values]) /\ Len(items) <= Capacity
    /\ Known = {items[i].key : i \in DOMAIN items}
    /\ \A k \in Known : index[k] \in DOMAIN items /\ items[index[k]].key = k
    /\ Cardinality(Known) = Len(items)
    /\ answer \in Values \cup {NONE}

\* The list is, in order, the keys used last: an eviction never takes a key that
\* was used later than one it leaves.
HoldsMostRecent ==
    /\ Len(items) <= Len(used)
    /\ \A i \in DOMAIN items : items[i].key = used[i]

\* What the cache holds for k.
Content == [k \in Keys |-> IF k \in Known THEN items[index[k]].val ELSE NONE]

Cache == INSTANCE BoundedCache WITH content <- Content

\* The list and the map together are the cache that LSMEngine counts on: get()
\* answers with the value of the last put, or not at all.
ImplementsBoundedCache == Cache!BCSpec
=============================================================================
