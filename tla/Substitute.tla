----------------------------- MODULE Substitute -----------------------------
(***************************************************************************)
(* How call_command of src/krytenApp/filter.c makes the command from a     *)
(* client's match_command: four calls of substitute (utilities.c), for %p, *)
(* %e, %m and %v, that read one buffer and write another and then change   *)
(* places.  A step is an iteration of the loop of substitute.              *)
(***************************************************************************)
EXTENDS Texts, Sizes

CONSTANT Decimal        \* the numbers of elements as snprintf writes them

ASSUME DecimalAssumption ==
  Decimal \in [1..(IntSpan - 1 - IntSpan \div 2) -> Seq(DOMAIN Digit) \ {<<>>}]

COMMAND_BUFFER_SIZEAsConfigured == MATCH_COMMAND_LENGTH + 1

COMMAND_BUFFER_SIZE ==
  MATCH_COMMAND_LENGTH + MAXIMUM_PVNAME_SIZE + STATE_IMAGE_SIZE
    + VALUE_IMAGE_SIZE + INDEX_IMAGE_SIZE + 12

VARIABLES pass,         \* the substitution that is made, 5 when all are
          images,       \* what each one replaces by
          from,         \* what it has yet to read
          dest          \* what it has written

substituteVars == <<pass, images, from, dest>>

Placeholder == << <<"%", "p">>, <<"%", "e">>, <<"%", "m">>, <<"%", "v">> >>

SubstituteTypeOK ==
  /\ pass \in 0..5
  /\ images \in [1..4 -> Seq(Symbols)]
  /\ from \in Seq(Symbols)
  /\ dest \in Seq(Symbols)

SubstituteInit == /\ pass = 0
                  /\ images = [k \in 1..4 |-> <<>>]
                  /\ from = <<>>
                  /\ dest = <<>>

(* The images, each cut to its buffer.                                     *)
Images(pv_name, index, state_image, value_image) ==
  << pv_name,
     Cut(Decimal[index], INDEX_IMAGE_SIZE - 1),
     state_image,
     Cut(<<"'">> \o value_image \o <<"'">>, VALUE_IMAGE_SIZE - 1) >>

Room(written) == COMMAND_BUFFER_SIZE - 1 - Len(written)

Found == Occurrences(from, Placeholder[pass])

BeginSubstitute(match_command, replacements) ==
  /\ pass' = 1
  /\ images' = replacements
  /\ from' = match_command
  /\ dest' = <<>>

(* An occurrence: what comes before it and its image, as far as there is   *)
(* room.                                                                   *)
ReplaceBeyond ==
  /\ pass \in 1..4
  /\ Found # {}
  /\ Room(dest) > 0
  /\ dest' = dest \o Prefix(from, Smallest(Found)) \o images[pass]
  /\ from' = Rest(from, Smallest(Found) + 2)
  /\ UNCHANGED <<pass, images>>

Replace ==
  /\ pass \in 1..4
  /\ Found # {}
  /\ Room(dest) > 0
  /\ LET before == dest \o Cut(Prefix(from, Smallest(Found)), Room(dest))
     IN  IF Room(before) = 0
           THEN dest' = before /\ UNCHANGED from
           ELSE /\ dest' = before \o Cut(images[pass], Room(before))
                /\ from' = Rest(from, Smallest(Found) + 2)
  /\ UNCHANGED <<pass, images>>

(* No more, or no more room: the tail, and the next substitution.          *)
EndPass ==
  /\ pass \in 1..4
  /\ Found = {} \/ Room(dest) = 0
  /\ pass' = pass + 1
  /\ from' = dest \o Cut(from, Room(dest))
  /\ dest' = <<>>
  /\ UNCHANGED images

SubstituteStep == Replace \/ EndPass

-----------------------------------------------------------------------------
(* Neither buffer ever holds more than it can, with its terminating zero:  *)
(* utilities.h:91, "Not more than n bytes including an always present      *)
(* terminating '\0' character are copyied to dest", however often the      *)
(* placeholders occur and whatever their images hold.                      *)
CommandFitsBuffer == /\ Len(dest) < COMMAND_BUFFER_SIZE
                     /\ pass > 1 => Len(from) < COMMAND_BUFFER_SIZE

(* What the documents promise: each placeholder is replaced where it       *)
(* stands in the command, and no image is looked into.                     *)
Expanded(command, replacements) ==
  LET At(k) == {j \in 1..4 : StartsWith(Rest(command, k - 1), Placeholder[j])}
      tail[k \in 1..Len(command) + 2] ==
        IF k > Len(command) THEN <<>>
        ELSE IF At(k) = {} THEN <<command[k]>> \o tail[k + 1]
        ELSE replacements[CHOOSE j \in At(k) : TRUE] \o tail[k + 2]
  IN  tail[1]

(* A command that names each placeholder at most once, a % standing before *)
(* nothing else.                                                           *)
EachOnce(command) ==
  /\ \A j \in 1..4 : Cardinality(Occurrences(command, Placeholder[j])) <= 1
  /\ \A k \in DOMAIN command : command[k] = "%" =>
       \E j \in 1..4 : StartsWith(Rest(command, k - 1), Placeholder[j])
=============================================================================
