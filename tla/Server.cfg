SPECIFICATION ServerSpec
CONSTANTS
  Clients = {c1, c2}
  Fds = {4, 5}
  CR = CR
  LF = LF
  MaxTyped = 4
INVARIANTS ServerOK AnswersOwnCommands StreamWhole
PROPERTIES CommandsAnswered StopEndsLoop
CHECK_DEADLOCK FALSE
