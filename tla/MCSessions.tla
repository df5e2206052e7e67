----------------------------- MODULE MCSessions -----------------------------
(***************************************************************************)
(* Sessions for TLC: a few words, and the lines made of them.              *)
(***************************************************************************)
EXTENDS Sessions

CONSTANTS k, b,       \* keys: one that users type, one that BENCH sets
          short, long, \* values
          one, x      \* the words 1 and x, of which std::stoi accepts the first

MCNumber(word) == IF word = one THEN 1 ELSE BAD
MCJoin(words)  == IF Len(words) = 1 THEN short ELSE long
MCBenchKey(i)   == b
MCBenchValue(i) == short

MCTyped     == {<<"GET", k>>, <<"SET", k>>, <<"BENCH", one>>}
MCSubmitted == {<<"STATS">>, <<"GET", k>>, <<"SET", k, x, x>>, <<"TTL", k, one, x>>,
                <<"TTL", k, x, x>>}
=============================================================================
