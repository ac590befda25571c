\* quit without an exit code, for a PV whose name begins with a number.
SPECIFICATION Spec
CONSTANTS
  MAX_LINE_LENGTH = 48
  MAX_STRING_SIZE = 5
  NUMBER_OF_VARIENT_RANGES = 3
  MAXIMUM_PVNAME_SIZE = 4
  MATCH_COMMAND_LENGTH = 16
  STATE_IMAGE_SIZE = 3
  VALUE_IMAGE_SIZE = 8
  INDEX_IMAGE_SIZE = 2
  IntSpan = 16
  Symbols <- MCSymbols
  Digit <- MCDigit
  Alnum <- MCAlnum
  Long <- MCLong
  Double <- MCDouble
  Decimal <- MCDecimal
  NaN = NaN
  Strings <- MCStrings
  Rank <- MCNothing
  Atol <- MCNothing
  Atof <- MCNothing
  Arguments <- MCArguments
  Dashed <- MCDashed
  NULL = NULL
  NoStatus = NoStatus
  Inputs <- MCInputs
  ValueImages <- MCValueImages
  Unspecified = Unspecified
INVARIANT BareQuitIsZero
\* The program ends.
CHECK_DEADLOCK FALSE
