\* SIGTERM, and a quit in the burst that is being processed.
SPECIFICATION Spec
CONSTANTS
  p = p
  a = a
  Clients = {a}
  Quits = {a}
  ElementCounts = {1}
  element_index <- MCFirst
  MaxQueue = 2
  MaxFaults = 0
  Maximum = 2
  TimeoutCycles = 1
  Signals = {"SIGTERM"}
  match_set <- MCMatchSet
  QuitCode <- MCQuitCode
  Values <- MCValues
  Strings <- MCStrings
  Rank <- MCNothing
  Atol <- MCNothing
  Atof <- MCNothing
  NaN = NaN
  NoCommand = NoCommand
  NoClient = NoClient
  NoStatus = NoStatus
  NoCode = NoCode
INVARIANT SignalCodeKept
\* kryten has ended when main has returned.
CHECK_DEADLOCK FALSE
