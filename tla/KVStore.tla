------------------------------ MODULE KVStore ------------------------------
(***************************************************************************)
(* What VaultDB promises a client: the contract of LSMEngine::set, get and *)
(* del (src/src/engine/lsm_engine.h:65-80) together with the TTL command   *)
(* of src/src/protocol/parser.cpp.  One dictionary, every command atomic,  *)
(* an acknowledged write visible to every later read, across flushes,      *)
(* compactions and restarts, until it is overwritten, deleted or expired.  *)
(***************************************************************************)
EXTENDS Naturals

CONSTANTS Keys,        \* keys a client may use
          UserValues,  \* values a client may store
          Lifetimes,   \* lifetimes, in milliseconds, of the TTL command
          NONE         \* "no value": the NULL reply, an absent key

VARIABLES store,  \* what the last acknowledged command on each key left there
          now,    \* the wall clock
          reply   \* the answer to the last command: OK, NONE or a user value

kvVars == <<store, now, reply>>

Ephemeral == [data : UserValues, expiry : Nat]

OK == [status |-> "OK"]

Expired(v, t) == v \in Ephemeral /\ t >= v.expiry

\* What a client may see of a stored value v at time t.
Visible(v, t) == IF v = NONE \/ Expired(v, t) THEN NONE
                 ELSE IF v \in Ephemeral THEN v.data ELSE v

KVInit == /\ store = [k \in Keys |-> NONE]
          /\ now \in Nat
          /\ reply = OK

\* A command may take time; the clock never goes back.
Elapse == now' \in Nat /\ now' >= now

KVSet(k) == /\ \E v \in UserValues : store' = [store EXCEPT ![k] = v]
            /\ reply' = OK
            /\ Elapse

\* The expiry is fixed by the clock that the TTL command reads.
KVSetTTL(k) == /\ \E v \in UserValues, life \in Lifetimes :
                    store' = [store EXCEPT ![k] = [data |-> v, expiry |-> now + life]]
               /\ reply' = OK
               /\ Elapse

KVDel(k) == /\ store' = [store EXCEPT ![k] = NONE]
            /\ reply' = OK
            /\ Elapse

KVGet(k) == /\ reply' = Visible(store[k], now)
            /\ UNCHANGED <<store, now>>

\* Flushes, compactions, restarts and the passing of time promise nothing new.
KVPass == Elapse /\ UNCHANGED <<store, reply>>

KVNext == \/ \E k \in Keys : KVSet(k) \/ KVSetTTL(k) \/ KVDel(k) \/ KVGet(k)
          \/ KVPass

KVSpec == KVInit /\ [][KVNext]_kvVars
=============================================================================
