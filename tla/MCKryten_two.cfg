\* A client with a command and one with quit.
SPECIFICATION Spec
CONSTANTS
  p = p
  a = a
  Clients = {p, a}
  Quits = {a}
  ElementCounts = {1}
  element_index <- MCFirst
  MaxQueue = 2
  MaxFaults = 0
  Maximum = 2
  TimeoutCycles = 1
  Signals = {"SIGTERM"}
  match_set <- MCMatchSet
  QuitCode <- MCQuitCode
  Values <- MCValues
  Strings <- MCStrings
  Rank <- MCNothing
  Atol <- MCNothing
  Atof <- MCNothing
  NaN = NaN
  NoCommand = NoCommand
  NoClient = NoClient
  NoStatus = NoStatus
  NoCode = NoCode
INVARIANTS NeverStale ExitCodeExplained
PROPERTIES ImplementsCommandPolicy QuitOnlyOnMatch
CONSTRAINTS ShortQueue
\* kryten has ended when main has returned.
CHECK_DEADLOCK FALSE
