\* Every combination of a value and the two ends of a range.
SPECIFICATION Spec
CONSTANTS
  NaN = NaN
  Strings <- MCStrings
  Rank <- MCRank
  Atol <- MCAtol
  Atof <- MCAtof
  Inputs <- MCInputs
  Clients = {}
  Quits = {}
  element_index <- MCEmpty
  match_set <- MCEmpty
  QuitCode <- MCEmpty
INVARIANTS Trichotomy OppositesPartition RangeIsBothEnds InvertedRangeIsEmpty
