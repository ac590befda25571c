------------------------- MODULE MatchingLaws_proofs ------------------------
(***************************************************************************)
(* The laws of MatchingLaws for all strings, numbers and conversions.      *)
(***************************************************************************)
EXTENDS MatchingLaws, TLAPS

(* What the conversions of the comparisons return.                         *)
LEMMA Conversions ==
  ASSUME NEW l \in Variant, NEW r \in Variant
  PROVE  /\ AsStrings(l, r) => l.sval \in Strings /\ r.sval \in Strings
         /\ AsLongs(l, r) => AsLong(l) \in Int /\ AsLong(r) \in Int
         /\ AsDoubles(l, r) => AsDouble(l) \in Doubles /\ AsDouble(r) \in Doubles
<1>1. AsStrings(l, r) => l.sval \in Strings /\ r.sval \in Strings
  BY DEF AsStrings, Variant
<1>2. ASSUME NEW v \in Variant, v.kind \in {"vkString", "vkInteger"}
      PROVE  AsLong(v) \in Int
  BY <1>2, StringAssumption DEF AsLong, Variant
<1>3. ASSUME NEW v \in Variant, v.kind # "vkVoid"
      PROVE  AsDouble(v) \in Doubles
  <2>1. CASE v.kind = "vkString"
    BY <2>1, StringAssumption DEF AsDouble, Variant
  <2>2. CASE v.kind = "vkFloating"
    BY <2>2 DEF AsDouble, Variant
  <2>3. CASE v.kind = "vkInteger"
    BY <2>3 DEF AsDouble, Variant, Doubles
  <2> QED
    BY <1>3, <2>1, <2>2, <2>3 DEF Variant
<1>4. AsLongs(l, r) => AsLong(l) \in Int /\ AsLong(r) \in Int
  BY <1>2 DEF AsLongs
<1>5. AsDoubles(l, r) => AsDouble(l) \in Doubles /\ AsDouble(r) \in Doubles
  BY <1>3 DEF AsDoubles, IsVoid
<1> QED
  BY <1>1, <1>4, <1>5

(* Two values that are not void are compared in exactly one way.           *)
LEMMA OneWay ==
  ASSUME NEW l \in Variant, NEW r \in Variant
  PROVE  /\ ~IsVoid(l, r) <=> AsStrings(l, r) \/ AsLongs(l, r) \/ AsDoubles(l, r)
         /\ ~(AsStrings(l, r) /\ AsLongs(l, r))
         /\ ~(AsStrings(l, r) /\ AsDoubles(l, r))
         /\ ~(AsLongs(l, r) /\ AsDoubles(l, r))
  BY DEF IsVoid, AsStrings, AsLongs, AsDoubles, Variant

LEMMA Symmetric ==
  ASSUME NEW l \in Variant, NEW r \in Variant
  PROVE  /\ AsStrings(l, r) <=> AsStrings(r, l)
         /\ AsLongs(l, r) <=> AsLongs(r, l)
         /\ AsDoubles(l, r) <=> AsDoubles(r, l)
         /\ IsVoid(l, r) <=> IsVoid(r, l)
         /\ Ordered(l, r) <=> Ordered(r, l)
  BY DEF IsVoid, AsStrings, AsLongs, AsDoubles, Ordered, Numbers

(* < , = and > of two values: exclusive, and one of them holds when the    *)
(* values can be ordered.                                                  *)
LEMMA Trichotomous ==
  ASSUME NEW l \in Variant, NEW r \in Variant
  PROVE  /\ ~(Variant_Lt(l, r) /\ Variant_Eq(l, r))
         /\ ~(Variant_Gt(l, r) /\ Variant_Eq(l, r))
         /\ ~(Variant_Lt(l, r) /\ Variant_Gt(l, r))
         /\ Ordered(l, r) <=> Variant_Lt(l, r) \/ Variant_Eq(l, r) \/ Variant_Gt(l, r)
<1> USE Symmetric DEF Variant_Lt, Variant_Gt, Variant_Eq
<1>1. CASE IsVoid(l, r)
  BY <1>1, OneWay DEF Ordered
<1>2. CASE AsStrings(l, r)
  <2>1. ~AsLongs(l, r) /\ ~AsDoubles(l, r) /\ ~IsVoid(l, r)
    BY <1>2, OneWay
  <2>2. Rank[l.sval] \in Int /\ Rank[r.sval] \in Int
        /\ (Rank[l.sval] = Rank[r.sval] => l.sval = r.sval)
    BY <1>2, Conversions, StringAssumption
  <2> QED
    BY <1>2, <2>1, <2>2 DEF Ordered
<1>3. CASE AsLongs(l, r)
  <2>1. ~AsStrings(l, r) /\ ~AsDoubles(l, r) /\ ~IsVoid(l, r)
    BY <1>3, OneWay
  <2>2. AsLong(l) \in Int /\ AsLong(r) \in Int
    BY <1>3, Conversions
  <2> QED
    BY <1>3, <2>1, <2>2 DEF Ordered
<1>4. CASE AsDoubles(l, r)
  <2>1. ~AsStrings(l, r) /\ ~AsLongs(l, r) /\ ~IsVoid(l, r)
    BY <1>4, OneWay
  <2>2. AsDouble(l) \in Doubles /\ AsDouble(r) \in Doubles
    BY <1>4, Conversions
  <2> QED
    BY <1>4, <2>1, <2>2, NaNAssumption DEF Ordered, Numbers, Doubles
<1> QED
  BY <1>1, <1>2, <1>3, <1>4, OneWay

-----------------------------------------------------------------------------
LEMMA TypeCorrect == Spec => []TypeOK
<1>1. Init => TypeOK
  BY DEF Init, TypeOK
<1>2. TypeOK /\ [Next]_inputs => TypeOK'
  BY DEF TypeOK, Next, inputs
<1> QED
  BY <1>1, <1>2, PTL DEF Spec

(* What each comparison of a match item accepts.                           *)
LEMMA AcceptsDef ==
  /\ Accepts("ckRange") <=> Variant_Le(lower, value) /\ Variant_Le(value, upper)
  /\ Accepts("ckEqual") <=> Variant_Eq(value, lower)
  /\ Accepts("ckNotEqual") <=> Variant_Ne(value, lower)
  /\ Accepts("ckLessThan") <=> Variant_Lt(value, lower)
  /\ Accepts("ckLessThanEqual") <=> Variant_Le(value, lower)
  /\ Accepts("ckGreaterThan") <=> Variant_Gt(value, lower)
  /\ Accepts("ckGreaterThanEqual") <=> Variant_Ge(value, lower)
  BY DEF Accepts, is_value_a_match

LEMMA InputsAreVariants == TypeOK => /\ value \in Variant /\ lower \in Variant
                                     /\ upper \in Variant
  BY InputAssumption DEF TypeOK

(* The items < x, = x and > x of a match list exclude each other and miss  *)
(* nothing that can be ordered.                                            *)
THEOREM TrichotomyHolds == Spec => []Trichotomy
<1>1. TypeOK => Trichotomy
  BY AcceptsDef, InputsAreVariants, Trichotomous DEF Trichotomy
<1> QED
  BY <1>1, TypeCorrect, PTL

(* Each match item of filter.c and its opposite part the values between    *)
(* them, for all values.                                                   *)
THEOREM PartitionHolds == Spec => []OppositesPartition
<1>1. TypeOK => OppositesPartition
  BY AcceptsDef, InputsAreVariants, Trichotomous
  DEF OppositesPartition, ExactlyOne, Variant_Ne, Variant_Ge, Variant_Le
<1> QED
  BY <1>1, TypeCorrect, PTL

(* A range accepts exactly the values that can be ordered with its ends    *)
(* and are not beyond them, for all values.                                *)
THEOREM RangeHolds == Spec => []RangeIsBothEnds
<1>1. TypeOK => RangeIsBothEnds
  <2> SUFFICES ASSUME TypeOK PROVE RangeIsBothEnds
    OBVIOUS
  <2>1. value \in Variant /\ lower \in Variant /\ upper \in Variant
    BY InputsAreVariants
  <2>2. Variant_Le(lower, value) <=> Ordered(value, lower) /\ ~Variant_Lt(value, lower)
    BY <2>1, Trichotomous, Symmetric DEF Variant_Le, Variant_Gt
  <2>3. Variant_Le(value, upper) <=> Ordered(value, upper) /\ ~Variant_Gt(value, upper)
    BY <2>1, Trichotomous DEF Variant_Le
  <2> QED
    BY <2>2, <2>3, AcceptsDef DEF RangeIsBothEnds
<1> QED
  BY <1>1, TypeCorrect, PTL

(* A range whose ends are the wrong way round accepts nothing, for all     *)
(* values of one kind: within a kind < is transitive.                      *)
THEOREM InvertedHolds == Spec => []InvertedRangeIsEmpty
<1>1. TypeOK => InvertedRangeIsEmpty
  <2> SUFFICES ASSUME TypeOK, value.kind = lower.kind, value.kind = upper.kind,
                      Variant_Lt(upper, lower), Accepts("ckRange")
               PROVE  FALSE
    BY DEF InvertedRangeIsEmpty, Variant_Gt
  <2>1. value \in Variant /\ lower \in Variant /\ upper \in Variant
    BY InputsAreVariants
  <2>2. Variant_Le(lower, value) /\ Variant_Le(value, upper)
    BY AcceptsDef
  <2> USE <2>1, <2>2 DEF Variant_Le, Variant_Lt, Variant_Eq
  <2>3. CASE value.kind = "vkVoid"
    BY <2>3 DEF AsStrings, AsLongs, AsDoubles, IsVoid
  <2>4. CASE value.kind = "vkString"
    <3>1. Rank[value.sval] \in Int /\ Rank[lower.sval] \in Int /\ Rank[upper.sval] \in Int
      BY <2>4, StringAssumption DEF Variant
    <3> QED
      BY <2>4, <3>1 DEF AsStrings, AsLongs, AsDoubles, IsVoid
  <2>5. CASE value.kind = "vkFloating"
    <3>1. AsDouble(value) \in Doubles /\ AsDouble(lower) \in Doubles
          /\ AsDouble(upper) \in Doubles
      BY <2>5 DEF AsDouble, Variant
    <3> QED
      BY <2>5, <3>1 DEF AsStrings, AsLongs, AsDoubles, IsVoid, Numbers, Doubles
  <2>6. CASE value.kind = "vkInteger"
    <3>1. AsLong(value) \in Int /\ AsLong(lower) \in Int /\ AsLong(upper) \in Int
      BY <2>6 DEF AsLong, Variant
    <3> QED
      BY <2>6, <3>1 DEF AsStrings, AsLongs, AsDoubles, IsVoid
  <2> QED
    BY <2>3, <2>4, <2>5, <2>6 DEF Variant
<1> QED
  BY <1>1, TypeCorrect, PTL
=============================================================================
