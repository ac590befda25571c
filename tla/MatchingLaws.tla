---------------------------- MODULE MatchingLaws ----------------------------
(***************************************************************************)
(* What a user may rely on when writing a match list, whatever the kinds   *)
(* of the PV's value and of the values in the list: the laws that tie the  *)
(* comparisons of filter.c and utilities.c to each other.  The state is an *)
(* input: a value and the two values of a range.                           *)
(***************************************************************************)
EXTENDS Matching

CONSTANT Inputs           \* the variant values that occur

ASSUME InputAssumption == Inputs \subseteq Variant

VARIABLES value, lower, upper

inputs == <<value, lower, upper>>

Init == value \in Inputs /\ lower \in Inputs /\ upper \in Inputs

Next == /\ value' \in Inputs
        /\ UNCHANGED <<lower, upper>>

Spec == Init /\ [][Next]_inputs

TypeOK == {value, lower, upper} \subseteq Inputs

Accepts(comp) ==
  is_value_a_match(value, [comp |-> comp, lower |-> lower, upper |-> upper])

(* Two values that can be ordered: neither is void nor, when they are      *)
(* compared as doubles, not a number.                                      *)
Ordered(left, right) ==
  /\ ~IsVoid(left, right)
  /\ AsDoubles(left, right) => Numbers(AsDouble(left), AsDouble(right))

ExactlyOne(x, y) == x # y

(* <, = and > exclude each other, and one of them holds of any two values  *)
(* that can be ordered, for the nine pairs of kinds that utilities.c       *)
(* converts in as many ways.                                               *)
Trichotomy ==
  /\ ~(Accepts("ckLessThan") /\ Accepts("ckEqual"))
  /\ ~(Accepts("ckEqual") /\ Accepts("ckGreaterThan"))
  /\ ~(Accepts("ckLessThan") /\ Accepts("ckGreaterThan"))
  /\ Ordered(value, lower) <=> \/ Accepts("ckLessThan") \/ Accepts("ckEqual")
                              \/ Accepts("ckGreaterThan")

(* A match item and its opposite never accept the same value, and together *)
(* miss none, but for <= and > when a value is not a number or void: >= is *)
(* not the same as > or =.                                                 *)
OppositesPartition ==
  /\ ExactlyOne(Accepts("ckLessThan"), Accepts("ckGreaterThanEqual"))
  /\ ExactlyOne(Accepts("ckEqual"), Accepts("ckNotEqual"))
  /\ ~(Accepts("ckLessThanEqual") /\ Accepts("ckGreaterThan"))
  /\ Ordered(value, lower) <=>
       Accepts("ckLessThanEqual") \/ Accepts("ckGreaterThan")

(* A range accepts what lies between its ends, and never a value that has  *)
(* no place in the order.                                                  *)
RangeIsBothEnds ==
  Accepts("ckRange") <=>
    /\ Ordered(value, lower) /\ Ordered(value, upper)
    /\ ~Variant_Lt(value, lower)
    /\ ~Variant_Gt(value, upper)

(* A range whose ends are the wrong way round accepts nothing, when the    *)
(* value and the ends have one kind.                                       *)
InvertedRangeIsEmpty ==
  value.kind = lower.kind /\ value.kind = upper.kind /\ Variant_Gt(lower, upper)
    => ~Accepts("ckRange")
=============================================================================
