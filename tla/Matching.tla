------------------------------ MODULE Matching ------------------------------
(***************************************************************************)
(* The matching of src/krytenApp/filter.c: does a match list accept a      *)
(* value?  A range has a comparison, and one value to compare with or the  *)
(* two ends of an interval.                                                *)
(***************************************************************************)
EXTENDS ClientList, Variants, Sequences

(* As is_value_a_match, had a range asked for one of its two ends.         *)
is_value_a_matchOfAnEnd(value, range) ==
  CASE range.comp = "ckRange" ->
         Variant_Le(range.lower, value) \/ Variant_Le(value, range.upper)
    [] OTHER -> Variant_Eq(value, range.lower)

is_value_a_match(value, range) ==
  CASE range.comp = "ckRange" ->
         Variant_Le(range.lower, value) /\ Variant_Le(value, range.upper)
    [] range.comp = "ckEqual"            -> Variant_Eq(value, range.lower)
    [] range.comp = "ckNotEqual"         -> Variant_Ne(value, range.lower)
    [] range.comp = "ckLessThan"         -> Variant_Lt(value, range.lower)
    [] range.comp = "ckLessThanEqual"    -> Variant_Le(value, range.lower)
    [] range.comp = "ckGreaterThan"      -> Variant_Gt(value, range.lower)
    [] range.comp = "ckGreaterThanEqual" -> Variant_Ge(value, range.lower)
    [] OTHER                             -> FALSE

(* The loop of Process_PV_Update: the first range that accepts decides.    *)
Matches(c, value) ==
  \E j \in DOMAIN match_set[c] : is_value_a_match(value, match_set[c][j])
=============================================================================
