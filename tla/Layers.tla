------------------------------- MODULE Layers -------------------------------
(***************************************************************************)
(* What LSMEngine takes its storage for: a dictionary in memory and frozen *)
(* ones below it, oldest first, each answering every key.  No entry,       *)
(* offset, index, filter or byte is in sight.                              *)
(***************************************************************************)
EXTENDS Naturals, Sequences

CONSTANTS Keys, Values,  \* with the marker of a deleted key among the values
          NONE           \* a key that a dictionary does not have

VARIABLES memtable,  \* the dictionary that writes go to
          layers     \* what get() of each table answers, for each key

layersVars == <<memtable, layers>>

EmptyLayer == [k \in Keys |-> NONE]

Write(k, v) == /\ memtable' = [memtable EXCEPT ![k] = v]
               /\ UNCHANGED layers

Freeze == /\ memtable # EmptyLayer
          /\ layers' = Append(layers, memtable)
          /\ memtable' = EmptyLayer

Over(top, below) == IF top # NONE THEN top ELSE below

\* The two oldest become one in their place, in which the newer of them wins.
Unite == /\ Len(layers) > 1
         /\ layers' = [n \in 1..Len(layers) - 1 |->
                          IF n = 1 THEN [k \in Keys |-> Over(layers[2][k], layers[1][k])]
                          ELSE layers[n + 1]]
         /\ UNCHANGED memtable

LayersInit == memtable = EmptyLayer /\ layers = << >>

LayersNext == \/ \E k \in Keys, v \in Values : Write(k, v)
              \/ Freeze
              \/ Unite

LayersSpec == LayersInit /\ [][LayersNext]_layersVars
=============================================================================
