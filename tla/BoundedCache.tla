---------------------------- MODULE BoundedCache ----------------------------
(***************************************************************************)
(* What LSMEngine counts on from its cache: at most Capacity keys, each    *)
(* with the value of its last put; a put of a new key into a full cache    *)
(* drops one other key, and nothing else is ever lost.                     *)
(***************************************************************************)
EXTENDS Naturals, FiniteSets

CONSTANTS Keys, Values, Capacity, NONE

VARIABLES content,  \* what the cache holds for each key
          latest,   \* the value of each key's last put, until it is removed
          answer    \* what the last get returned

bcVars == <<content, latest, answer>>

HeldKeys == {k \in Keys : content[k] # NONE}

Nothing == [k \in Keys |-> NONE]

BCInit == content = Nothing /\ latest = Nothing /\ answer = NONE

BCGet(k) == answer' = content[k] /\ UNCHANGED <<content, latest>>

BCPut(k, v) ==
    /\ IF content[k] # NONE \/ Cardinality(HeldKeys) < Capacity
       THEN content' = [content EXCEPT ![k] = v]
       ELSE \E victim \in HeldKeys : content' = [content EXCEPT ![k] = v, ![victim] = NONE]
    /\ latest' = [latest EXCEPT ![k] = v]
    /\ UNCHANGED answer

BCRemove(k) == /\ content' = [content EXCEPT ![k] = NONE]
               /\ latest' = [latest EXCEPT ![k] = NONE]
               /\ UNCHANGED answer

BCClear == content' = Nothing /\ latest' = Nothing /\ UNCHANGED answer

BCNext == \/ \E k \in Keys : BCGet(k) \/ (\E v \in Values : BCPut(k, v)) \/ BCRemove(k)
          \/ BCClear

BCSpec == BCInit /\ [][BCNext]_bcVars
=============================================================================
