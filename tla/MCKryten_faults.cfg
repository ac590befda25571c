\* One client, and up to two callbacks or requests that fail.
SPECIFICATION Spec
CONSTANTS
  p = p
  a = a
  Clients = {p}
  Quits = {}
  ElementCounts = {1}
  element_index <- MCFirst
  MaxQueue = 4
  MaxFaults = 2
  Maximum = 2
  TimeoutCycles = 1
  Signals = {"SIGTERM"}
  match_set <- MCMatchSet
  QuitCode <- MCQuitCode
  Values <- MCValues
  Strings <- MCStrings
  Rank <- MCNothing
  Atol <- MCNothing
  Atof <- MCNothing
  NaN = NaN
  NoCommand = NoCommand
  NoClient = NoClient
  NoStatus = NoStatus
  NoCode = NoCode
INVARIANTS EventIdIsLive LeakIsBounded CallbacksAreValid CleanExit
\* kryten has ended when main has returned.
CHECK_DEADLOCK FALSE
