------------------------------ MODULE Variants ------------------------------
(***************************************************************************)
(* The variant values of src/krytenApp/utilities.c and their comparisons.  *)
(* A value is void, a string, a floating or an integer number; two values  *)
(* of different kinds are compared after a conversion that the kind of the *)
(* other one chooses.                                                      *)
(*                                                                         *)
(* A double is NaN or a whole number of halves, so that the numbers with a *)
(* fraction, which atol drops and atof keeps, exist.  The C library's atol *)
(* and atof, and the order of strncmp, are given as functions.             *)
(***************************************************************************)
EXTENDS Integers

CONSTANTS Strings,      \* the strings that occur
          Rank,         \* their places in the order of strncmp
          Atol,         \* the integer each one begins with, or 0
          Atof,         \* the double each one begins with, or 0
          NaN           \* not a number

Doubles == Int \cup {NaN}

ASSUME NaNAssumption    == NaN \notin Int
ASSUME StringAssumption ==
  /\ Rank \in [Strings -> Int]
  /\ \A s, t \in Strings : Rank[s] = Rank[t] => s = t
  /\ Atol \in [Strings -> Int]
  /\ \A s \in Strings : Atof[s] \in Doubles

Variant == [kind : {"vkVoid"}] \cup [kind : {"vkString"}, sval : Strings] \cup
           [kind : {"vkFloating"}, dval : Doubles] \cup
           [kind : {"vkInteger"}, ival : Int]

Void        == [kind |-> "vkVoid"]
String(s)   == [kind |-> "vkString", sval |-> s]
Floating(d) == [kind |-> "vkFloating", dval |-> d]
Integer(i)  == [kind |-> "vkInteger", ival |-> i]

(* The operands of a comparison, converted for it: as halves when one of   *)
(* them is floating, otherwise as integers when one of them is an integer. *)
AsDouble(v) == CASE v.kind = "vkString"   -> Atof[v.sval]
                 [] v.kind = "vkFloating" -> v.dval
                 [] v.kind = "vkInteger"  -> 2 * v.ival

AsLong(v) == IF v.kind = "vkString" THEN Atol[v.sval] ELSE v.ival

IsVoid(left, right)   == "vkVoid" \in {left.kind, right.kind}
AsDoubles(left, right) == /\ ~IsVoid(left, right)
                          /\ "vkFloating" \in {left.kind, right.kind}
AsStrings(left, right) == {left.kind, right.kind} = {"vkString"}
AsLongs(left, right)   == /\ {left.kind, right.kind} \subseteq {"vkString", "vkInteger"}
                          /\ ~AsStrings(left, right)

(* The comparison of doubles: NaN is equal to nothing and not less.        *)
Numbers(x, y) == x # NaN /\ y # NaN

Variant_Eq(left, right) ==
  \/ AsStrings(left, right) /\ left.sval = right.sval
  \/ /\ AsDoubles(left, right)
     /\ Numbers(AsDouble(left), AsDouble(right))
     /\ AsDouble(left) = AsDouble(right)
  \/ AsLongs(left, right) /\ AsLong(left) = AsLong(right)

(* A floating number is truncated when it is compared with a string.       *)
Variant_LtOfLongs(left, right) ==
  \/ AsStrings(left, right) /\ Rank[left.sval] < Rank[right.sval]
  \/ AsLongs(left, right) /\ AsLong(left) < AsLong(right)
  \/ /\ AsDoubles(left, right)
     /\ Numbers(AsDouble(left), AsDouble(right))
     /\ AsDouble(left) \div 2 < AsDouble(right) \div 2

Variant_Lt(left, right) ==
  \/ AsStrings(left, right) /\ Rank[left.sval] < Rank[right.sval]
  \/ /\ AsDoubles(left, right)
     /\ Numbers(AsDouble(left), AsDouble(right))
     /\ AsDouble(left) < AsDouble(right)
  \/ AsLongs(left, right) /\ AsLong(left) < AsLong(right)

(* The others, in terms of < and =.                                        *)
Variant_Ne(left, right) == ~Variant_Eq(left, right)
Variant_Gt(left, right) == Variant_Lt(right, left)
Variant_Le(left, right) == Variant_Lt(left, right) \/ Variant_Eq(left, right)

Variant_GeStrict(left, right) == Variant_Lt(right, left)
Variant_Ge(left, right) == ~Variant_Lt(left, right)
=============================================================================
