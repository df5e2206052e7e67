------------------------------- MODULE Server -------------------------------
(***************************************************************************)
(* src/src/server/server.cpp: one thread around select(), its clients at   *)
(* the other end of TCP streams, and the signal handler of main.cpp, which *)
(* may run between any two of its steps.  What a command does is           *)
(* LSMEngine's concern: here its answer is the command.                    *)
(***************************************************************************)
EXTENDS Connection

CONSTANTS Clients,  \* each types lines made of its own symbol, CR and LF
          Fds,      \* the descriptors there are: numbers
          MaxTyped  \* bound: symbols typed by all clients together

ASSUME FdsAssumption == Fds \subseteq Nat

VARIABLES phase,     \* where start() is
          running,   \* running_
          conns,     \* connections_: descriptor -> [client, buffer]
          ready,     \* descriptors select() reported that are still to be handled
          gone,      \* to_remove
          accepting, \* whether select() reported the listening socket
          backlog,   \* connections the kernel has completed, oldest first
          state,     \* of each client: "out", "in" or "left"
          pipe,      \* what each client typed and the server has not received
          sent,      \* history: all that each client typed
          replies    \* what each client was sent

loopVars   == <<phase, running, ready, gone, accepting>>
clientVars == <<state, pipe, sent>>
serverVars == <<loopVars, conns, backlog, clientVars, replies>>

Ended == {"done", "killed"}

----------------------------------------------------------------------------
(* The clients and the kernel.                                             *)

Connect(c) ==
    /\ state[c] = "out" /\ phase \notin {"setup"} \cup Ended
    /\ state' = [state EXCEPT ![c] = "in"]
    /\ backlog' = Append(backlog, c)
    /\ UNCHANGED <<loopVars, conns, pipe, sent, replies>>

Typed == MapThenSumSet(LAMBDA c : Len(sent[c]), Clients)

\* What a client may type at once: a line with one end or the other, an empty
\* one, or the beginning of a line.
Pieces(c) == {<<c, LF>>, <<c, CR, LF>>, <<CR, LF>>, <<c>>}

Type(c) == \E piece \in Pieces(c) :
    /\ state[c] = "in" /\ Typed + Len(piece) <= MaxTyped
    /\ pipe' = [pipe EXCEPT ![c] = @ \o piece]
    /\ sent' = [sent EXCEPT ![c] = @ \o piece]
    /\ UNCHANGED <<loopVars, conns, backlog, state, replies>>

Leave(c) ==
    /\ state[c] = "in"
    /\ state' = [state EXCEPT ![c] = "left"]
    /\ UNCHANGED <<loopVars, conns, backlog, pipe, sent, replies>>

\* recv() has something to say about fd: symbols, or the end of the stream.
Readable(fd) == LET c == conns[fd].client IN pipe[c] # << >> \/ state[c] = "left"

----------------------------------------------------------------------------
(* Server::start.                                                          *)

Listen ==
    /\ phase = "setup"
    /\ phase' = "select" /\ running' = TRUE
    /\ UNCHANGED <<ready, gone, accepting, conns, backlog, clientVars, replies>>

\* while (running_) and select(); with nothing to report it times out and the loop starts over.
LoopsForEver == TRUE
LoopsOn == running

Select ==
    /\ phase = "select" /\ LoopsOn
    /\ ready' = {fd \in DOMAIN conns : Readable(fd)}
    /\ accepting' = (backlog # << >>)
    /\ ready' # {} \/ accepting'
    /\ phase' = "accept"
    /\ UNCHANGED <<running, gone, conns, backlog, clientVars, replies>>

FreeFds == Fds \ DOMAIN conns
NewConnection(c) == [client |-> c, buffer |-> << >>]

\* accept_connection(): the kernel hands out the least free descriptor; with
\* none left, accept() fails and the connection stays in the backlog.
Accept ==
    /\ phase = "accept"
    /\ phase' = "serve"
    /\ IF accepting /\ FreeFds # {}
       THEN LET fd == CHOOSE f \in FreeFds : \A g \in FreeFds : f <= g
            IN  /\ conns' = [f \in DOMAIN conns \cup {fd} |->
                                IF f = fd THEN NewConnection(Head(backlog)) ELSE conns[f]]
                /\ backlog' = Tail(backlog)
       ELSE UNCHANGED <<conns, backlog>>
    /\ UNCHANGED <<running, ready, gone, accepting, clientVars, replies>>

AppendedInFront(buffer, symbols) == symbols \o buffer
Appended(buffer, symbols) == buffer \o symbols

\* handle_client(): one recv() of some symbols, then every complete command.
\* The answer to a client that has left is lost, and may raise SIGPIPE.
Receive(fd) ==
    LET c == conns[fd].client
    IN  /\ phase = "serve" /\ fd \in ready /\ pipe[c] # << >>
        /\ ready' = ready \ {fd}
        /\ \E n \in 1..Len(pipe[c]) :
             LET buffer == Appended(conns[fd].buffer, SubSeq(pipe[c], 1, n))
             IN  /\ pipe' = [pipe EXCEPT ![c] = SubSeq(@, n + 1, Len(@))]
                 /\ conns' = [conns EXCEPT ![fd].buffer = Rest(buffer)]
                 /\ IF state[c] = "left"
                    THEN /\ replies' = replies
                         /\ phase' \in {phase} \cup (IF Extract(buffer) = << >> THEN {} ELSE {"killed"})
                    ELSE /\ replies' = [replies EXCEPT ![c] = @ \o Extract(buffer)]
                         /\ phase' = phase
        /\ UNCHANGED <<running, gone, accepting, backlog, state, sent>>

\* handle_client() when recv() returns 0.
EndOfStream(fd) ==
    /\ phase = "serve" /\ fd \in ready
    /\ pipe[conns[fd].client] = << >> /\ state[conns[fd].client] = "left"
    /\ ready' = ready \ {fd} /\ gone' = gone \cup {fd}
    /\ UNCHANGED <<phase, running, accepting, conns, backlog, clientVars, replies>>

Erased(fds) == [fd \in DOMAIN conns \ fds |-> conns[fd]]

\* Each round has a to_remove of its own.
KeptForNextRound == gone
NewRound == {}

\* The end of the loop's body: the descriptors are closed and free again.
NextRound ==
    /\ phase = "serve" /\ ready = {}
    /\ conns' = Erased(gone) /\ gone' = NewRound
    /\ phase' = "select"
    /\ UNCHANGED <<running, ready, accepting, backlog, clientVars, replies>>

\* The loop is left; every connection is closed, and so is the backlog.
Return ==
    /\ phase = "select" /\ ~LoopsOn
    /\ phase' = "done"
    /\ conns' = Erased(DOMAIN conns) /\ backlog' = << >>
    /\ state' = [c \in Clients |-> IF state[c] = "in" THEN "left" ELSE state[c]]
    /\ UNCHANGED <<running, ready, gone, accepting, pipe, sent, replies>>

\* signal_handler(): stop(), at any moment.
Stop ==
    /\ phase \notin Ended
    /\ running' = FALSE
    /\ UNCHANGED <<phase, ready, gone, accepting, conns, backlog, clientVars, replies>>

----------------------------------------------------------------------------

ServerInit ==
    /\ phase = "setup" /\ running = FALSE
    /\ conns = [fd \in {} |-> NewConnection(LF)]
    /\ ready = {} /\ gone = {} /\ accepting = FALSE /\ backlog = << >>
    /\ state = [c \in Clients |-> "out"]
    /\ pipe = [c \in Clients |-> << >>]
    /\ sent = [c \in Clients |-> << >>]
    /\ replies = [c \in Clients |-> << >>]

Step == \/ Listen \/ Select \/ Accept \/ NextRound \/ Return
        \/ \E fd \in ready : Receive(fd) \/ EndOfStream(fd)

ServerNext == \/ Step
              \/ Stop
              \/ \E c \in Clients : Connect(c) \/ Type(c) \/ Leave(c)

\* The server's thread is never stopped for good.
ServerSpec == ServerInit /\ [][ServerNext]_serverVars /\ WF_serverVars(Step)

----------------------------------------------------------------------------
(* Properties.                                                             *)

\* The type of the state; no client has two connections, and a descriptor that
\* is reported or to be closed is one of a connection.
ServerOK ==
    /\ phase \in {"setup", "select", "accept", "serve"} \cup Ended
    /\ running \in BOOLEAN /\ accepting \in BOOLEAN
    /\ DOMAIN conns \subseteq Fds
    /\ ready \subseteq DOMAIN conns /\ gone \subseteq DOMAIN conns \ ready
    /\ \A f, g \in DOMAIN conns : conns[f].client = conns[g].client => f = g
    /\ \A i \in DOMAIN backlog : \A fd \in DOMAIN conns : conns[fd].client # backlog[i]
    /\ state \in [Clients -> {"out", "in", "left"}]

\* However the stream was cut into pieces, and whoever had the descriptor before:
\* each client is answered exactly for its own commands, each once, in order.
AnswersOwnCommands ==
    \A c \in Clients : \E n \in 0..Len(sent[c]) : replies[c] = Extract(SubSeq(sent[c], 1, n))

\* Nothing of a stream is lost: what is buffered and what is still to be
\* received are the end of what the client typed.
StreamWhole ==
    \A fd \in DOMAIN conns :
        LET c == conns[fd].client
            left == conns[fd].buffer \o pipe[c]
        IN  /\ Len(left) <= Len(sent[c])
            /\ left = SubSeq(sent[c], Len(sent[c]) - Len(left) + 1, Len(sent[c]))

\* A complete command is answered, unless its client leaves or the server ends.
CommandsAnswered ==
    \A c \in Clients : \A n \in 1..MaxTyped :
        (Len(Extract(sent[c])) >= n)
            ~> (Len(replies[c]) >= n \/ state[c] = "left" \/ phase \in Ended)

\* Once start() is in its loop, stop() ends it, whatever the clients do.
StopEndsLoop == (phase # "setup" /\ ~running) ~> (phase \in Ended)
=============================================================================
