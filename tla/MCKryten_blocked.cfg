\* A command that does not end.
SPECIFICATION FairSpec
CONSTANTS
  p = p
  a = a
  Clients = {p}
  Quits = {}
  ElementCounts = {1}
  element_index <- MCFirst
  MaxQueue = 2
  MaxFaults = 0
  Maximum = 2
  TimeoutCycles = 1
  Signals = {}
  match_set <- MCMatchSet
  QuitCode <- MCQuitCode
  Values <- MCValues
  Strings <- MCStrings
  Rank <- MCNothing
  Atol <- MCNothing
  Atof <- MCNothing
  NaN = NaN
  NoCommand = NoCommand
  NoClient = NoClient
  NoStatus = NoStatus
  NoCode = NoCode
PROPERTY CommandsInBackground
\* kryten has ended when main has returned.
CHECK_DEADLOCK FALSE
