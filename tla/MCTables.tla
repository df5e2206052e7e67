------------------------------ MODULE MCTables ------------------------------
(***************************************************************************)
(* Tables for TLC: three hash functions of which two agree on some keys,   *)
(* so that the filter has false positives, and keys and values of          *)
(* different lengths.                                                      *)
(***************************************************************************)
EXTENDS Tables

MCHashes == {[k \in Keys |-> k], [k \in Keys |-> 3 * k + 1], [k \in Keys |-> k * k]}

MCBytes(s) == IF s = TOMBSTONE THEN 13 ELSE IF s \in Keys /\ s > 2 THEN 2 ELSE 1
=============================================================================
