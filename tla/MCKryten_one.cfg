\* One client of the second element of an array: the whole life of a channel.
SPECIFICATION Spec
CONSTANTS
  p = p
  a = a
  Clients = {p}
  Quits = {}
  ElementCounts = {1, 2}
  element_index <- MCSecond
  MaxQueue = 4
  MaxFaults = 0
  Maximum = 2
  TimeoutCycles = 2
  Signals = {"SIGINT", "SIGTERM"}
  match_set <- MCMatchSet
  QuitCode <- MCQuitCode
  Values <- MCValues
  Strings <- MCStrings
  Rank <- MCNothing
  Atol <- MCNothing
  Atof <- MCNothing
  NaN = NaN
  NoCommand = NoCommand
  NoClient = NoClient
  NoStatus = NoStatus
  NoCode = NoCode
INVARIANTS TypeOK OneSubscription SubscribedAtRest NeverStale ShutdownBounded CleanExit TimedOutAreOffline
PROPERTIES ImplementsCommandPolicy
\* kryten has ended when main has returned.
CHECK_DEADLOCK FALSE
