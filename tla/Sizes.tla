------------------------------- MODULE Sizes --------------------------------
(***************************************************************************)
(* The sizes of pv_client.h, read_configuration.c and filter.c, here in    *)
(* symbols.                                                                *)
(***************************************************************************)
EXTENDS Integers

CONSTANTS
  MAX_LINE_LENGTH,            \* 256
  MAX_STRING_SIZE,            \* 40, of EPICS base
  NUMBER_OF_VARIENT_RANGES,   \* 20
  MAXIMUM_PVNAME_SIZE,        \* 80
  MATCH_COMMAND_LENGTH,       \* 120
  STATE_IMAGE_SIZE,           \* 12
  VALUE_IMAGE_SIZE,           \* 44
  INDEX_IMAGE_SIZE,           \* 10
  IntSpan                     \* the number of values of an int, 2^32

ASSUME SizeAssumption ==
  /\ MAX_LINE_LENGTH \in Nat \ {0, 1}
  /\ {MAX_STRING_SIZE, NUMBER_OF_VARIENT_RANGES, MAXIMUM_PVNAME_SIZE,
      MATCH_COMMAND_LENGTH, STATE_IMAGE_SIZE} \subseteq Nat \ {0}
  /\ {VALUE_IMAGE_SIZE, INDEX_IMAGE_SIZE} \subseteq Nat \ {0, 1}
  /\ IntSpan \in Nat \ 0..2
=============================================================================
