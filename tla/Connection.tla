----------------------------- MODULE Connection -----------------------------
(***************************************************************************)
(* src/src/server/connection.cpp: a client's byte stream is cut into       *)
(* commands at each LF; a CR before it is dropped, and so are empty lines. *)
(***************************************************************************)
EXTENDS Naturals, Sequences, FiniteSets, SequencesExt

CONSTANTS CR, LF

Chomped(line) == IF line # << >> /\ Last(line) = CR THEN Front(line) ELSE line

\* A symbol belongs to the line that has begun, or ends it; an empty line is none.
Scanned(s, symbol) ==
    IF symbol # LF
    THEN [line |-> Append(s.line, symbol), commands |-> s.commands]
    ELSE [line |-> << >>,
          commands |-> IF Chomped(s.line) = << >> THEN s.commands
                       ELSE Append(s.commands, Chomped(s.line))]

\* extract_commands(): the commands of the buffer, and what stays in it.
Cut(buffer) ==
    LET scan[n \in 0..Len(buffer)] ==
            IF n = 0 THEN [line |-> << >>, commands |-> << >>]
            ELSE Scanned(scan[n - 1], buffer[n])
    IN  scan[Len(buffer)]

Extract(buffer) == Cut(buffer).commands

RestCleared(buffer) == << >>
Rest(buffer) == Cut(buffer).line
=============================================================================
