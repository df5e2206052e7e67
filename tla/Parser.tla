------------------------------- MODULE Parser -------------------------------
(***************************************************************************)
(* src/src/protocol/parser.cpp over the dictionary that the engine is      *)
(* shown to implement: which calls a line asks for, and which answer it    *)
(* gets.  A line is a sequence of words, the first of them in upper case.  *)
(***************************************************************************)
EXTENDS KVStore, Sequences

CONSTANTS BAD,          \* a word that std::stoi throws for
          Number(_),    \* std::stoi of a word, or BAD; seconds count as lifetimes
          Join(_),      \* the value that words with single spaces between them are
          DefaultRounds \* BENCH without a number (10000)

Parse(line) == [name |-> Head(line), args |-> Tail(line)]

\* The arguments a command cannot do without.
Least == [SET |-> 2, GET |-> 1, DEL |-> 1, TTL |-> 3]
Misused(cmd) == cmd.name \in DOMAIN Least /\ Len(cmd.args) < Least[cmd.name]

Value(args, first) == Join(SubSeq(args, first, Len(args)))

\* What the command leaves under its key, at time t; DEL leaves nothing.
Writes(cmd) == cmd.name \in {"SET", "DEL", "TTL"} /\ ~Misused(cmd)
ExpiryFromZero(cmd, t) ==
    IF cmd.name = "TTL" THEN [data |-> Value(cmd.args, 3), expiry |-> Number(cmd.args[2])]
    ELSE IF cmd.name = "SET" THEN Value(cmd.args, 2) ELSE NONE
Left(cmd, t) ==
    CASE cmd.name = "SET" -> Value(cmd.args, 2)
      [] cmd.name = "TTL" -> [data |-> Value(cmd.args, 3), expiry |-> t + Number(cmd.args[2])]
      [] cmd.name = "DEL" -> NONE

\* The exception of std::stoi that TTL does not catch, and BENCH does.
Throws(cmd) == cmd.name = "TTL" /\ ~Misused(cmd) /\ Number(cmd.args[2]) = BAD

Rounds(cmd) == IF cmd.args = << >> THEN DefaultRounds ELSE Number(cmd.args[1])
Benches(cmd) == cmd.name = "BENCH" /\ Rounds(cmd) # BAD

Reads(cmd) == cmd.name = "GET" /\ ~Misused(cmd)
=============================================================================
