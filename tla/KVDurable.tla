----------------------------- MODULE KVDurable -----------------------------
(***************************************************************************)
(* What a client is left with when the server may die: the dictionary of   *)
(* KVStore, where a command whose answer never came is either carried out  *)
(* or not, and never in part or twice (src/src/engine/wal.h:6,             *)
(* src/docs/study/08_interview_questions.md:14-18: "No data is lost").     *)
(***************************************************************************)
EXTENDS KVStore

\* What a TTL command stores that has read the clock by now: its answer may come
\* later, and so may the crash that interrupts it.
Begun == [data : UserValues, expiry : {t + life : t \in 0..now, life \in Lifetimes}]

KVBegunTTL(k) == /\ \E v \in Begun : store' = [store EXCEPT ![k] = v]
                 /\ reply' = OK
                 /\ Elapse

\* A command on k whose answer was lost took effect.
KVInterrupted(k) == /\ \E v \in UserValues \cup Begun \cup {NONE} : store' = [store EXCEPT ![k] = v]
                    /\ UNCHANGED reply
                    /\ Elapse

KVDurableNext == KVNext \/ \E k \in Keys : KVBegunTTL(k) \/ KVInterrupted(k)

KVDurableSpec == KVInit /\ [][KVDurableNext]_kvVars
=============================================================================
