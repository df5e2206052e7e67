------------------------------ MODULE Sessions ------------------------------
(***************************************************************************)
(* The programs around the server: the command line src/cli/vault_cli.py   *)
(* (one connection for a whole session) and the HTTP bridge                *)
(* src/api/dashboard_api.py (one request at a time, one connection for     *)
(* each), which the dashboard in a browser posts to.  Both stop waiting    *)
(* after some seconds.  The server executes the commands of each           *)
(* connection in order, and may be busy, die and be started again.         *)
(***************************************************************************)
EXTENDS Parser, Integers, FiniteSets, Sequences

CONSTANTS Typed,       \* lines that are typed at the command line
          Submitted,   \* lines that the browser sends: its user's, and its polls' STATS
          LongValues,  \* values whose answer is longer than one recv(4096) takes
          BenchKey(_), BenchValue(_), \* what a round of BENCH sets
          MaxNow, MaxTyped, MaxPosted \* bounds: clock, commands of the CLI, HTTP requests

Lines == Typed \cup Submitted

\* The words that stand for keys, values and numbers are some of those there are.
ASSUME LinesAssumption ==
    \A cmd \in {Parse(line) : line \in Lines} :
        /\ Writes(cmd) \/ Reads(cmd) => cmd.args[1] \in Keys
        /\ Writes(cmd) /\ cmd.name = "SET" => Value(cmd.args, 2) \in UserValues
        /\ Writes(cmd) /\ cmd.name = "TTL" => /\ Value(cmd.args, 3) \in UserValues
                                             /\ Number(cmd.args[2]) \in Lifetimes \cup {BAD}
        /\ Benches(cmd) => /\ Rounds(cmd) \in Int
                           /\ \A i \in 0..Rounds(cmd) - 1 : BenchKey(i) \in Keys /\ BenchValue(i) \in UserValues

ASSUME SessionsAssumption ==
    /\ LongValues \subseteq UserValues /\ MaxPosted \in Nat
    /\ NONE \notin [conn : Nat, n : Nat, done : Nat, rounds : Int]

VARIABLES up,     \* whether the server runs
          conns,  \* connections, by number: see NewConnection
          bench,  \* the BENCH that is executed: connection, request, rounds; or NONE
          cli,    \* the command line: "idle", "recv" or "ended"
          shown,  \* history: what send_command returned for each command
          posted, \* HTTP requests the bridge has not answered, oldest first
          bridge, \* the bridge: "idle" or "recv"
          told    \* history: what send_to_vaultdb returned for each HTTP request

storeVars   == <<store, now, reply>>
cliVars     == <<cli, shown>>
bridgeVars  == <<posted, bridge, told>>
sessionVars == <<storeVars, up, conns, bench, cliVars, bridgeVars>>

\* What a call returns: received pieces; an error text, when the connection was
\* refused or reset or no answer came in time; or no bytes, from a closed one.
Answer(pieces) == [status |-> "answer", pieces |-> pieces]
Failed         == [status |-> "error", pieces |-> << >>]
NoBytes        == [status |-> "empty", pieces |-> << >>]

----------------------------------------------------------------------------
(* Connections.  That of the command line is number 0; the bridge opens    *)
(* one for each HTTP request.                                              *)

Cli == 0
Current == Len(told) + 1

\* What the server has to read, what the client has to read; whether the client
\* still has it open; whether the server does ("live"), and how it ended if not.
NewConnection == [inp |-> << >>, out |-> << >>, open |-> TRUE, end |-> "live"]

Request(n, line) == [n |-> n, cmd |-> Parse(line)]

\* A connection that its client closed is forgotten once nothing is left to read.
Reaped(cs) == [c \in {d \in DOMAIN cs : cs[d].open \/ cs[d].inp # << >>} |-> cs[c]]
Closed(cs, c) == Reaped([cs EXCEPT ![c].open = FALSE])

\* One recv(4096): all that is there, or up to where a long answer fills the buffer.
Fills(piece) == piece.part < piece.of
Received(out) ==
    IF \E i \in DOMAIN out : Fills(out[i])
    THEN SubSeq(out, 1, CHOOSE i \in DOMAIN out :
                            Fills(out[i]) /\ \A j \in 1..i - 1 : ~Fills(out[j]))
    ELSE out
NothingLeft(out) == << >>
Peeked(out) == out
Unread(out) == SubSeq(out, Len(Received(out)) + 1, Len(out))

\* What was received ends within a long answer, perhaps within a character: then
\* decode() throws.
EndsCut(pieces) == Fills(pieces[Len(pieces)])

----------------------------------------------------------------------------
(* The server.                                                             *)

\* The answer to request n, in the pieces that one recv() can take.
Pieces(n, count) == [i \in 1..count |-> [n |-> n, part |-> i, of |-> count]]
Long(cmd) == Reads(cmd) /\ Visible(store[cmd.args[1]], now) \in LongValues
AnswerTo(request) == Pieces(request.n, IF Long(request.cmd) THEN 2 ELSE 1)

SendToNewest(cs, c, pieces) ==
    [d \in DOMAIN cs |-> IF \A e \in DOMAIN cs : e <= d THEN [cs[d] EXCEPT !.out = @ \o pieces]
                         ELSE cs[d]]
\* A client that went away gets none.
Send(cs, c, pieces) ==
    IF c \in DOMAIN cs /\ cs[c].open THEN [cs EXCEPT ![c].out = @ \o pieces] ELSE Reaped(cs)

\* The process ends, with the connections at cs.  What it had sent can still be
\* received; a connection with commands it had not read is reset.  Of one connection,
\* served at that moment, recv() may have taken them all.
Dies(cs, served) ==
    /\ up' = FALSE /\ bench' = NONE
    /\ \E read \in served \cup {NONE} :
           conns' = Reaped([c \in DOMAIN cs |->
               [cs[c] EXCEPT !.inp = << >>,
                             !.end = IF @ # "live" THEN @
                                     ELSE IF cs[c].inp = << >> \/ c = read THEN "closed" ELSE "reset"]])

\* Parser::execute, for all commands but BENCH.
Perform(cmd) ==
    /\ IF Writes(cmd)
       THEN store' = [store EXCEPT ![cmd.args[1]] = Left(cmd, now)] /\ reply' = OK
       ELSE /\ UNCHANGED store
            /\ reply' = IF Reads(cmd) THEN Visible(store[cmd.args[1]], now) ELSE reply
    /\ UNCHANGED now

\* handle_client() for the next line of connection c; the process may end between
\* the engine's call and send().
Execute(c) ==
    LET request == Head(conns[c].inp)
        cmd  == request.cmd
        rest == [conns EXCEPT ![c].inp = Tail(@)]
    IN  /\ up /\ bench = NONE /\ conns[c].inp # << >>
        /\ \/ Throws(cmd) /\ Dies(rest, {c}) /\ UNCHANGED storeVars
           \/ /\ Benches(cmd)
              /\ bench' = [conn |-> c, n |-> request.n, done |-> 0, rounds |-> Rounds(cmd)]
              /\ conns' = rest
              /\ UNCHANGED <<storeVars, up>>
           \/ /\ ~Throws(cmd) /\ ~Benches(cmd)
              /\ Perform(cmd)
              /\ \/ conns' = Send(rest, c, AnswerTo(request)) /\ UNCHANGED <<up, bench>>
                 \/ Dies(rest, {c})
        /\ UNCHANGED <<cliVars, bridgeVars>>

\* One engine.set of BENCH's loop: nobody else is served meanwhile.
BenchRound ==
    /\ bench # NONE /\ bench.done < bench.rounds
    /\ bench' = [bench EXCEPT !.done = @ + 1]
    /\ store' = [store EXCEPT ![BenchKey(bench.done)] = BenchValue(bench.done)]
    /\ reply' = OK
    /\ UNCHANGED <<now, up, conns, cliVars, bridgeVars>>

BenchDone ==
    /\ bench # NONE /\ ~(bench.done < bench.rounds)
    /\ bench' = NONE
    /\ conns' = Send(conns, bench.conn, Pieces(bench.n, 1))
    /\ UNCHANGED <<storeVars, up, cliVars, bridgeVars>>

\* A signal or a crash at any moment; the dictionary outlives it.
Stop == /\ up /\ Dies(conns, IF bench = NONE THEN DOMAIN conns ELSE {bench.conn})
        /\ UNCHANGED <<storeVars, cliVars, bridgeVars>>

Start ==
    /\ ~up /\ up' = TRUE
    /\ UNCHANGED <<storeVars, conns, bench, cliVars, bridgeVars>>

Tick ==
    /\ now < MaxNow /\ now' = now + 1
    /\ UNCHANGED <<store, reply, up, conns, bench, cliVars, bridgeVars>>

----------------------------------------------------------------------------
(* The command line.                                                       *)

CliShows(result) == shown' = Append(shown, result) /\ cli' = "idle"
CliUnchanged == UNCHANGED <<storeVars, up, bench, bridgeVars>>

CliSend(line) ==
    /\ cli = "idle" /\ Len(shown) < MaxTyped
    /\ cli' = "recv"
    /\ conns' = IF conns[Cli].end # "live" THEN conns
                ELSE [conns EXCEPT ![Cli].inp = Append(@, Request(Len(shown) + 1, line))]
    /\ UNCHANGED shown /\ CliUnchanged

\* Nobody catches what decode() throws.
CliRecv ==
    /\ cli = "recv" /\ conns[Cli].out # << >>
    /\ \/ /\ CliShows(Answer(Received(conns[Cli].out)))
          /\ conns' = [conns EXCEPT ![Cli].out = Unread(@)]
       \/ /\ EndsCut(Received(conns[Cli].out))
          /\ cli' = "ended" /\ UNCHANGED shown
          /\ conns' = Closed(conns, Cli)
    /\ CliUnchanged

\* recv() meets the end of the connection: no bytes, or a broken pipe if the
\* command was sent after it.  A reset is an exception nobody catches.
CliMeetsEnd ==
    /\ cli = "recv" /\ conns[Cli].out = << >>
    /\ \/ conns[Cli].end = "closed" /\ \E result \in {NoBytes, Failed} : CliShows(result)
       \/ conns[Cli].end = "reset" /\ cli' = "ended" /\ UNCHANGED shown
    /\ conns' = IF cli' = "ended" THEN Closed(conns, Cli) ELSE conns
    /\ CliUnchanged

\* settimeout(5.0): the connection stays as it is.
NoLimit(c) == FALSE
NoAnswerYet(c) == conns[c].out = << >>
CliGivesUp ==
    /\ cli = "recv" /\ NoAnswerYet(Cli)
    /\ CliShows(Failed)
    /\ UNCHANGED conns /\ CliUnchanged

\* EXIT or the end of the input; an interrupt also while it waits.
CliEnds ==
    /\ cli # "ended" /\ cli' = "ended"
    /\ conns' = Closed(conns, Cli)
    /\ UNCHANGED shown /\ CliUnchanged

----------------------------------------------------------------------------
(* The browser and the bridge.                                             *)

\* The terminal's commands and the polls for STATS wait for no earlier answer.
Post(line) ==
    /\ Len(told) + Len(posted) < MaxPosted
    /\ posted' = Append(posted, line)
    /\ UNCHANGED <<storeVars, up, conns, bench, cliVars, bridge, told>>

TellAgain(result) == told' = Append(told, result) /\ bridge' = "idle" /\ UNCHANGED posted
Tell(result) == told' = Append(told, result) /\ posted' = Tail(posted) /\ bridge' = "idle"
BridgeUnchanged == UNCHANGED <<storeVars, up, bench, cliVars>>

Connect ==
    /\ bridge = "idle" /\ posted # << >> /\ up
    /\ conns' = [c \in DOMAIN conns \cup {Current} |->
                    IF c = Current
                    THEN [NewConnection EXCEPT !.inp = <<Request(Current, Head(posted))>>]
                    ELSE conns[c]]
    /\ bridge' = "recv"
    /\ UNCHANGED <<posted, told>> /\ BridgeUnchanged

Refused ==
    /\ bridge = "idle" /\ posted # << >> /\ ~up
    /\ Tell(Failed)
    /\ UNCHANGED conns /\ BridgeUnchanged

BridgeRecv ==
    /\ bridge = "recv" /\ conns[Current].out # << >>
    /\ \/ Tell(Answer(Received(conns[Current].out)))
       \/ EndsCut(Received(conns[Current].out)) /\ Tell(Failed)
    /\ conns' = Closed(conns, Current)
    /\ BridgeUnchanged

BridgeMeetsEnd ==
    /\ bridge = "recv" /\ conns[Current].out = << >> /\ conns[Current].end # "live"
    /\ Tell(IF conns[Current].end = "closed" THEN NoBytes ELSE Failed)
    /\ conns' = Closed(conns, Current)
    /\ BridgeUnchanged

\* settimeout(2.0): the connection is closed, the command may still be read.
BridgeGivesUp ==
    /\ bridge = "recv" /\ NoAnswerYet(Current)
    /\ Tell(Failed)
    /\ conns' = Closed(conns, Current)
    /\ BridgeUnchanged
----------------------------------------------------------------------------

SessionsInit ==
    /\ store = [k \in Keys |-> NONE] /\ now = 0 /\ reply = OK
    /\ up = TRUE /\ bench = NONE
    /\ conns = [c \in {Cli} |-> NewConnection]
    /\ cli = "idle" /\ shown = << >>
    /\ posted = << >> /\ bridge = "idle" /\ told = << >>

ServerStep == BenchRound \/ BenchDone \/ \E c \in DOMAIN conns : Execute(c)
CliStep    == CliRecv \/ CliMeetsEnd \/ CliGivesUp
BridgeStep == Connect \/ Refused \/ BridgeRecv \/ BridgeMeetsEnd \/ BridgeGivesUp

SessionsNext ==
    \/ ServerStep \/ Stop \/ Start \/ Tick
    \/ CliStep \/ CliEnds \/ \E line \in Typed : CliSend(line)
    \/ BridgeStep \/ \E line \in Submitted : Post(line)

\* The clients' time-outs come, whatever the server does: it may hang.
SessionsSpec == /\ SessionsInit /\ [][SessionsNext]_sessionVars
                /\ WF_sessionVars(CliStep) /\ WF_sessionVars(BridgeStep)

----------------------------------------------------------------------------
(* Properties.                                                             *)

\* The type of the state; a client waits only on a connection it has open.
SessionsOK ==
    /\ up \in BOOLEAN
    /\ \A c \in DOMAIN conns : conns[c].end \in {"live", "closed", "reset"}
    /\ \A c \in DOMAIN conns : conns[c].end # "live" => conns[c].inp = << >>
    /\ \A c \in DOMAIN conns : ~up => conns[c].end # "live"
    /\ bench # NONE => up
    /\ cli \in {"idle", "recv", "ended"} /\ bridge \in {"idle", "recv"}
    /\ cli # "ended" => Cli \in DOMAIN conns /\ conns[Cli].open
    /\ bridge = "recv" => Current \in DOMAIN conns /\ conns[Current].open
    /\ Len(told) + Len(posted) <= MaxPosted

\* An answer to an HTTP request is the answer to that request, or its beginning,
\* however many requests before it were given up and are still being executed.
BridgeAnswersOwn ==
    \A n \in DOMAIN told : \A i \in DOMAIN told[n].pieces :
        told[n].pieces[i].n = n /\ told[n].pieces[i].part = i

\* The pieces of some results, one after another.
PiecesOf(results) ==
    LET upTo[n \in 0..Len(results)] ==
            IF n = 0 THEN << >> ELSE upTo[n - 1] \o results[n].pieces
    IN  upTo[Len(results)]

\* All that the command line was shown, and what its socket still holds.
CliStream == PiecesOf(shown) \o IF cli = "ended" THEN << >> ELSE conns[Cli].out

\* What comes before a place; a whole answer 0 before the first.
Before(stream, i) == IF i = 1 THEN [n |-> 0, part |-> 1, of |-> 1] ELSE stream[i - 1]
Follows(piece, before) ==
    IF Fills(before) THEN piece = [before EXCEPT !.part = 2]
    ELSE piece.n = before.n + 1 /\ piece.part = 1
InOrder(stream) == \A i \in DOMAIN stream : Follows(stream[i], Before(stream, i))

\* Time-outs or not, the command line is shown the answers to its commands in the
\* order of the commands, none left out, none twice, each in one piece or two.
CliInOrder == InOrder(CliStream)

\* How often, before command n, the command line went on without a whole answer.
Slips(n) == Cardinality({m \in 1..n - 1 :
                LET ps == shown[m].pieces IN ps = << >> \/ EndsCut(ps)})

\* What is shown for a command answers it, or one that many commands before it.
CliLag ==
    \A n \in DOMAIN shown : \A i \in DOMAIN shown[n].pieces :
        shown[n].pieces[i].n \in n - Slips(n)..n

\* Seen from the dictionary, sessions, retries, BENCH, misused commands and
\* restarts are nothing but commands one after another.
ImplementsKVStore == KVSpec

\* No HTTP request and no command of the command line waits for ever, even if the
\* server hangs.
NobodyWaitsForEver ==
    /\ \A n \in 1..MaxPosted : (Len(told) + Len(posted) >= n) ~> (Len(told) >= n)
    /\ (cli = "recv") ~> (cli # "recv")

\* vault_cli.py:94: send_command returns "the response" to its command, or says
\* that there is none.
ResponseIsOwn ==
    \A n \in DOMAIN shown : \A i \in DOMAIN shown[n].pieces : shown[n].pieces[i].n = n
=============================================================================
